-------------------------- MODULE ApprovalProperties --------------------------
(***************************************************************************)
(* What the governor's pending approvals must keep.                        *)
(***************************************************************************)
EXTENDS ApprovalWaiters

Countdown(limit) == (0 .. limit) \cup {Off}

\* Every variable has its type; no timer is armed with, or counts below, a
\* negative time.
TypeOK ==
  /\ pending \subseteq Ids
  /\ waiter \in [Ids -> Calls \cup {NoCall}]
  /\ age \in [Ids -> 0 .. TTL]
  /\ purge \in [Ids -> Countdown(TTL)]
  /\ early \in [Ids -> Answers \cup {NoAnswer}]
  /\ earlyLeft \in [Ids -> Countdown(EarlyTTL)]
  /\ tomb \in [Ids -> Countdown(TombTTL)]
  /\ st \in [Calls -> CallStates]
  /\ asks \in [Calls -> Ids \cup {NoId}]
  /\ left \in [Calls -> Countdown(GatewayTimeout)]
  /\ got \in [Calls -> Answers \cup {NoAnswer}]
  /\ accepted \in [Answers -> Ids \cup {NoId}]

\* A resolver in the registry belongs to a call that still waits for just that
\* id: an operator's "resolved" never goes to a call that timed out, however
\* time limits, expiry and reuse of the id interleave.
ResolverHasListener ==
  \A id \in pending :
    waiter[id] \in Calls => st[waiter[id]] \in Open /\ asks[waiter[id]] = id

Holders(a) ==
  {<<"early", id>> : id \in {i \in Ids : early[i] = a}}
    \cup {<<"call", c>> : c \in {d \in Calls : got[d] = a}}

\* An answer has at most one holder, the cache or one call, and only of the id
\* it was accepted for: no call is approved by an answer that another call
\* consumed, nor by one for another request.
AnswerUsedOnce ==
  \A a \in Answers :
    /\ \A id \in Ids : early[id] = a => accepted[a] = id
    /\ \A c \in Calls : got[c] = a => accepted[a] = asks[c]
    /\ \A x, y \in Holders(a) : x = y

\* A live request is never shadowed by what an earlier use of its id left
\* behind: with a tombstone an operator would be told "expired" and the request
\* deleted, with an early answer it would not be registered.
LiveRequestUnshadowed ==
  \A id \in Ids :
    /\ Live(id) => tomb[id] = Off /\ early[id] = NoAnswer
    /\ early[id] # NoAnswer => tomb[id] = Off

\* Requests that nothing in the process waits for never exceed the queue's
\* limit: refreshing, expiry and early answers open no way around the 429.
PlaceholdersBounded ==
  Cardinality({id \in pending : waiter[id] = NoCall}) <= MaxPending

\* A live entry never gets younger: no refresh and no waiter that attaches
\* pushes the deadline of a request out.
RequestsNeverRejuvenate ==
  [][\A id \in Ids : Live(id) /\ id \in pending' => age'[id] >= age[id]]_vars

\* An answer that is accepted while a call waits for its id ends that call.
AcceptedAnswerWakesWaiter ==
  [][\A a \in Answers, c \in Calls :
       /\ accepted[a] = NoId /\ accepted'[a] = asks[c]
       /\ st[c] = "waiting"
       => st'[c] = "answered"]_vars

\* Every call of the gateway returns, also one whose entry expired or was taken
\* over or deleted by another call for the same id.
ApprovalReturns == \A c \in Calls : st[c] \in Open ~> st[c] \notin Open

\* An entry that nobody looks at again is purged in the end, whoever created
\* or refreshed it.
AbandonedRequestPurged ==
  \A id \in Ids : Live(id) /\ age[id] > 0 ~> (id \notin pending \/ age[id] = 0)
=============================================================================
