--------------------------- MODULE ApprovalWaiters ---------------------------
(***************************************************************************)
(* Pending approvals of the governor: ApprovalWaiterRegistry, the          *)
(* HttpApprovalChannel and the time limit of ApprovalGateway in front of   *)
(* it, and the HTTP handlers that register and answer requests, all of     *)
(* packages/franken-governor/src.                                          *)
(*                                                                         *)
(* Handlers and timer callbacks run to completion on one thread.  Time is  *)
(* kept as ages and as what is left of timers, so that it needs no bound.  *)
(* A timer that is due may fire late.  Only one step is split off from the *)
(* call that causes it: the microtask that hands an answer which came      *)
(* early to its waiter; no timer fires before it, but other handlers that  *)
(* had been resumed already may run.                                       *)
(***************************************************************************)
EXTENDS Integers, FiniteSets

CONSTANTS
  Ids,             \* request ids
  NoId,
  Calls,           \* calls of ApprovalGateway.requestApproval
  NoCall,
  Answers,         \* decisions of operators
  NoAnswer,
  Off,             \* a timer that is not armed
  TTL,             \* timeoutMs of the registry
  GatewayTimeout,  \* timeoutMs of the gateway
  EarlyTTL,        \* EARLY_RESPONSE_TTL_MS
  TombTTL,         \* EXPIRED_TOMBSTONE_TTL_MS
  MaxPending       \* approvalQueueBackpressure.maxPendingApprovals

ASSUME OutsidersAssumption ==
  NoId \notin Ids /\ NoCall \notin Calls /\ NoAnswer \notin Answers
ASSUME OffAssumption == Off \notin Int
ASSUME TimesAssumption ==
  /\ TTL \in Nat \ {0} /\ GatewayTimeout \in Nat \ {0}
  /\ EarlyTTL \in Nat \ {0} /\ TombTTL \in Nat \ {0}
ASSUME MaxPendingAssumption == MaxPending \in Nat \ {0}

VARIABLES
  pending,   \* ids that have an entry in the registry
  waiter,    \* the call an entry's resolver belongs to, NoCall for a placeholder
  age,       \* how long ago an entry was created; TTL is "long enough"
  purge,     \* expiryTimers: what is left of them
  early,     \* resolvedBeforeWaiter: the answer kept for an id
  earlyLeft, \* what is left of the timer that drops it
  tomb,      \* expiredTombstones: what is left of them
  st,        \* where each call is
  asks,      \* the id a call asks about
  left,      \* what is left of its time limit
  got,       \* the answer a call was given, or is about to be
  accepted   \* the id each answer was accepted for

registry == <<pending, waiter, age, purge>>
cached == <<early, earlyLeft>>
calls == <<st, asks, left, got>>
vars == <<pending, waiter, age, purge, early, earlyLeft, tomb, st, asks,
          left, got, accepted>>

CallStates == {"idle", "waiting", "delivering", "answered", "timedOut", "refused"}
Open == {"waiting", "delivering"}

Expired(id) == id \in pending /\ age[id] = TTL

\* Mutant of Live: an entry just at its limit still counts.
LiveAtLimit(id) == id \in pending /\ age[id] <= TTL

Live(id) == id \in pending /\ age[id] < TTL

\* No microtask is left to run before the next timer.
Quiet == \A c \in Calls : st[c] # "delivering"

-----------------------------------------------------------------------------
(* Updates of the registry's maps                                          *)

\* Drop the entries of the ids in S, with their purge timers.
Drop(S) ==
  /\ pending' = pending \ S
  /\ waiter' = [id \in Ids |-> IF id \in S THEN NoCall ELSE waiter[id]]
  /\ age' = [id \in Ids |-> IF id \in S THEN 0 ELSE age[id]]
  /\ purge' = [id \in Ids |-> IF id \in S THEN Off ELSE purge[id]]

\* Mutant of Stored: a refresh pushes the deadline out.
StoredAnew(gone, id, c, a) ==
  /\ pending' = (pending \ gone) \cup {id}
  /\ waiter' = [i \in Ids |-> IF i = id THEN c ELSE IF i \in gone THEN NoCall ELSE waiter[i]]
  /\ age' = [i \in Ids |-> IF i = id \/ i \in gone THEN 0 ELSE age[i]]
  /\ purge' = [i \in Ids |-> IF i = id THEN TTL ELSE IF i \in gone THEN Off ELSE purge[i]]

\* Mutant of Stored: the purge timer is left to the entry's next access.
StoredUntimed(gone, id, c, a) ==
  /\ pending' = (pending \ gone) \cup {id}
  /\ waiter' = [i \in Ids |-> IF i = id THEN c ELSE IF i \in gone THEN NoCall ELSE waiter[i]]
  /\ age' = [i \in Ids |-> IF i = id THEN a ELSE IF i \in gone THEN 0 ELSE age[i]]
  /\ purge' = [i \in Ids |-> IF i = id \/ i \in gone THEN Off ELSE purge[i]]

\* An entry of age a and waiter c is stored for id, and its purge timer
\* scheduled, after the expired entries in `gone' were dropped.
Stored(gone, id, c, a) ==
  /\ pending' = (pending \ gone) \cup {id}
  /\ waiter' = [i \in Ids |-> IF i = id THEN c ELSE IF i \in gone THEN NoCall ELSE waiter[i]]
  /\ age' = [i \in Ids |-> IF i = id THEN a ELSE IF i \in gone THEN 0 ELSE age[i]]
  /\ purge' = [i \in Ids |-> IF i = id THEN TTL - a ELSE IF i \in gone THEN Off ELSE purge[i]]

\* markExpired: a tombstone that stands is not renewed.
Entombed(S) ==
  [id \in Ids |-> IF id \in S /\ tomb[id] = Off THEN TombTTL ELSE tomb[id]]

Forget(id) ==
  /\ early' = [early EXCEPT ![id] = NoAnswer]
  /\ earlyLeft' = [earlyLeft EXCEPT ![id] = Off]

\* Mutant of Delete: the gateway gives up without telling its channel.
DeleteNothing(id) == UNCHANGED <<registry, cached>>

\* ApprovalWaiterRegistry.delete
Delete(id) == Drop({id}) /\ Forget(id)

AllExpired == {id \in Ids : Expired(id)}

-----------------------------------------------------------------------------
(* POST /v1/approval/request                                               *)

\* Mutant of Known: an id with a tombstone is one the queue has seen.
KnownOrEntombed(id) == Live(id) \/ early[id] # NoAnswer \/ tomb[id] # Off

\* hasKnownRequest
Known(id) == Live(id) \/ early[id] # NoAnswer

HasRoom == Cardinality({id \in Ids : Live(id)}) < MaxPending

\* An answer is kept for the id already: register returns.
RequestAnswered(id) ==
  /\ early[id] # NoAnswer
  /\ Drop({id} \cap AllExpired)
  /\ tomb' = Entombed({id} \cap AllExpired)
  /\ UNCHANGED <<cached, calls, accepted>>

\* A live entry keeps its age and its waiter; its timer is set anew.
RequestRefreshed(id) ==
  /\ early[id] = NoAnswer /\ Live(id)
  /\ Stored({}, id, waiter[id], age[id])
  /\ UNCHANGED <<cached, tomb, calls, accepted>>

\* Mutant of RequestRegistered: the tombstone outlives the fresh request.
RequestRegisteredEntombed(id) ==
  /\ early[id] = NoAnswer /\ ~Live(id)
  /\ Known(id) \/ HasRoom
  /\ Stored(AllExpired, id, NoCall, 0)
  /\ tomb' = Entombed(AllExpired)
  /\ UNCHANGED <<cached, calls, accepted>>

\* A fresh placeholder: it supersedes an expired entry and its tombstone.
\* The queue's size is taken, which drops what else has expired, unless the
\* id is known.
RequestRegistered(id) ==
  /\ early[id] = NoAnswer /\ ~Live(id)
  /\ Known(id) \/ HasRoom
  /\ Stored(AllExpired, id, NoCall, 0)
  /\ tomb' = [Entombed(AllExpired) EXCEPT ![id] = Off]
  /\ UNCHANGED <<cached, calls, accepted>>

\* 429; GET /health and GET /v1/approval/pending take the size as well.
SizeTaken ==
  /\ AllExpired # {}
  /\ Drop(AllExpired)
  /\ tomb' = Entombed(AllExpired)
  /\ UNCHANGED <<cached, calls, accepted>>

HttpRequest(id) ==
  RequestAnswered(id) \/ RequestRefreshed(id) \/ RequestRegistered(id)

-----------------------------------------------------------------------------
(* ApprovalGateway.requestApproval over the HttpApprovalChannel: waitFor   *)

Ask(c, id, state, answer) ==
  /\ st[c] = "idle"
  /\ st' = [st EXCEPT ![c] = state]
  /\ asks' = [asks EXCEPT ![c] = id]
  /\ left' = [left EXCEPT ![c] = IF state = "refused" THEN Off ELSE GatewayTimeout]
  /\ got' = [got EXCEPT ![c] = answer]
  /\ UNCHANGED accepted

\* Mutant of AskAnswered: the early answer stays for whoever comes next.
AskAnsweredKept(c, id) ==
  /\ early[id] # NoAnswer
  /\ Ask(c, id, "delivering", early[id])
  /\ pending' = pending \cup {id}
  /\ waiter' = [waiter EXCEPT ![id] = c]
  /\ age' = [age EXCEPT ![id] = 0]
  /\ tomb' = [tomb EXCEPT ![id] = Off]
  /\ UNCHANGED <<purge, cached>>

\* The answer came first.  The call gets it in a microtask, until when an
\* entry without a purge timer stands for it.
AskAnswered(c, id) ==
  /\ early[id] # NoAnswer
  /\ Ask(c, id, "delivering", early[id])
  /\ pending' = pending \cup {id}
  /\ waiter' = [waiter EXCEPT ![id] = c]
  /\ age' = [age EXCEPT ![id] = 0]
  /\ tomb' = [tomb EXCEPT ![id] = Off]
  /\ Forget(id)
  /\ UNCHANGED purge

AskRefused(c, id) ==
  /\ early[id] = NoAnswer
  /\ Live(id) /\ waiter[id] # NoCall
  /\ Ask(c, id, "refused", NoAnswer)
  /\ UNCHANGED <<registry, cached, tomb>>

\* A placeholder gets its real waiter and keeps its age.
AskPlaceholder(c, id) ==
  /\ early[id] = NoAnswer
  /\ Live(id) /\ waiter[id] = NoCall
  /\ Ask(c, id, "waiting", NoAnswer)
  /\ Stored({}, id, c, age[id])
  /\ UNCHANGED <<cached, tomb>>

AskFresh(c, id) ==
  /\ early[id] = NoAnswer
  /\ ~Live(id)
  /\ Ask(c, id, "waiting", NoAnswer)
  /\ Stored({}, id, c, 0)
  /\ tomb' = [tomb EXCEPT ![id] = Off]
  /\ UNCHANGED cached

RequestApproval(c, id) ==
  AskAnswered(c, id) \/ AskRefused(c, id) \/ AskPlaceholder(c, id) \/ AskFresh(c, id)

\* The microtask of an early answer: it looks whether the entry still is the
\* one it was queued for.
Deliver(c) ==
  /\ st[c] = "delivering"
  /\ \/ /\ asks[c] \in pending /\ waiter[asks[c]] = c
        /\ Drop({asks[c]})
        /\ st' = [st EXCEPT ![c] = "answered"]
        /\ left' = [left EXCEPT ![c] = Off]
        /\ UNCHANGED got
     \/ /\ ~(asks[c] \in pending /\ waiter[asks[c]] = c)
        /\ st' = [st EXCEPT ![c] = "waiting"]
        /\ got' = [got EXCEPT ![c] = NoAnswer]
        /\ UNCHANGED <<registry, left>>
  /\ UNCHANGED <<cached, tomb, asks, accepted>>

-----------------------------------------------------------------------------
(* POST /v1/approval/respond and POST /v1/webhook/slack                    *)

\* 410: the entry is past its limit, or there is a tombstone for the id.
RespondExpired(id) ==
  /\ Expired(id) \/ tomb[id] # Off
  /\ tomb' = Entombed({id} \cap AllExpired)
  /\ Delete(id)
  /\ UNCHANGED <<calls, accepted>>

\* "resolved": the entry's waiter is woken, or the answer kept for a later one.
Respond(a, id) ==
  LET c == waiter[id] IN
  /\ accepted[a] = NoId
  /\ Live(id) /\ tomb[id] = Off
  /\ accepted' = [accepted EXCEPT ![a] = id]
  /\ Drop({id})
  /\ \/ /\ c \in Calls
        /\ IF st[c] \in Open
             THEN /\ st' = [st EXCEPT ![c] = "answered"]
                  /\ got' = [got EXCEPT ![c] = a]
                  /\ left' = [left EXCEPT ![c] = Off]
             ELSE UNCHANGED <<st, got, left>>
        /\ UNCHANGED cached
     \/ /\ c = NoCall
        /\ early' = [early EXCEPT ![id] = a]
        /\ earlyLeft' = [earlyLeft EXCEPT ![id] = EarlyTTL]
        /\ UNCHANGED <<st, got, left>>
  /\ UNCHANGED <<tomb, asks>>

\* Both handlers look the request up in the same way once the sender and the
\* decision are verified; an id that is neither live nor expired is a 404.
OperatorAnswers(id) == RespondExpired(id) \/ \E a \in Answers : Respond(a, id)

-----------------------------------------------------------------------------
(* Timers                                                                  *)

PurgeTimer(id) ==
  /\ Quiet /\ purge[id] = 0
  /\ \/ /\ Expired(id)
        /\ Drop({id})
        /\ tomb' = Entombed({id})
     \/ /\ ~Expired(id)
        /\ purge' = [purge EXCEPT ![id] = Off]
        /\ UNCHANGED <<pending, waiter, age, tomb>>
  /\ UNCHANGED <<cached, calls, accepted>>

EarlyTimer(id) ==
  /\ Quiet /\ earlyLeft[id] = 0
  /\ Forget(id)
  /\ UNCHANGED <<registry, tomb, calls, accepted>>

TombTimer(id) ==
  /\ Quiet /\ tomb[id] = 0
  /\ tomb' = [tomb EXCEPT ![id] = Off]
  /\ UNCHANGED <<registry, cached, calls, accepted>>

\* Mutant of GatewayTimer: a request is given up with its entry only.
GatewayTimerOfEntry(c) ==
  /\ Quiet /\ st[c] = "waiting" /\ left[c] = 0
  /\ asks[c] \in pending /\ waiter[asks[c]] = c
  /\ Delete(asks[c])
  /\ st' = [st EXCEPT ![c] = "timedOut"]
  /\ left' = [left EXCEPT ![c] = Off]
  /\ UNCHANGED <<tomb, asks, got, accepted>>

\* ApprovalGateway.withTimeout: the channel is told to cancel the id, whoever
\* has an entry for it by now.
GatewayTimer(c) ==
  /\ Quiet /\ st[c] = "waiting" /\ left[c] = 0
  /\ Delete(asks[c])
  /\ st' = [st EXCEPT ![c] = "timedOut"]
  /\ left' = [left EXCEPT ![c] = Off]
  /\ UNCHANGED <<tomb, asks, got, accepted>>

\* What is left of a timer after a while; one that is due may fire late.
Less(t) == IF t \in {Off, 0} THEN t ELSE t - 1

\* Time passes, as long as anything can still tell.
Tick ==
  /\ Quiet
  /\ age' = [id \in Ids |-> IF Live(id) THEN age[id] + 1 ELSE age[id]]
  /\ purge' = [id \in Ids |-> Less(purge[id])]
  /\ earlyLeft' = [id \in Ids |-> Less(earlyLeft[id])]
  /\ tomb' = [id \in Ids |-> Less(tomb[id])]
  /\ left' = [c \in Calls |-> IF st[c] = "waiting" THEN Less(left[c]) ELSE left[c]]
  /\ UNCHANGED <<pending, waiter, early, st, asks, got, accepted>>

-----------------------------------------------------------------------------
Init ==
  /\ pending = {}
  /\ waiter = [id \in Ids |-> NoCall]
  /\ age = [id \in Ids |-> 0]
  /\ purge = [id \in Ids |-> Off]
  /\ early = [id \in Ids |-> NoAnswer]
  /\ earlyLeft = [id \in Ids |-> Off]
  /\ tomb = [id \in Ids |-> Off]
  /\ st = [c \in Calls |-> "idle"]
  /\ asks = [c \in Calls |-> NoId]
  /\ left = [c \in Calls |-> Off]
  /\ got = [c \in Calls |-> NoAnswer]
  /\ accepted = [a \in Answers |-> NoId]

Next ==
  \/ \E id \in Ids : \/ HttpRequest(id) \/ OperatorAnswers(id)
                     \/ PurgeTimer(id) \/ EarlyTimer(id) \/ TombTimer(id)
                     \/ \E c \in Calls : RequestApproval(c, id)
  \/ \E c \in Calls : Deliver(c) \/ GatewayTimer(c)
  \/ SizeTaken
  \/ Tick

\* Time goes on, timers that are due fire and microtasks run.  Nobody has to
\* ask, answer or look.
Fairness ==
  /\ WF_vars(Tick)
  /\ \A id \in Ids : WF_vars(PurgeTimer(id)) /\ WF_vars(EarlyTimer(id))
                     /\ WF_vars(TombTimer(id))
  /\ \A c \in Calls : WF_vars(Deliver(c)) /\ WF_vars(GatewayTimer(c))

Spec == Init /\ [][Next]_vars
FairSpec == Spec /\ Fairness
=============================================================================
