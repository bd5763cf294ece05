---------------------------- MODULE ApprovalProofs ----------------------------
(***************************************************************************)
(* Proofs about pending approvals, for any sets of ids, calls and answers, *)
(* any time limits and any length of the queue.                            *)
(***************************************************************************)
EXTENDS ApprovalProperties, FiniteSetTheorems, TLAPS

\* An entry, even an expired one, stands alone.
Alone ==
  \A id \in pending : tomb[id] = Off /\ early[id] = NoAnswer

Unburied ==
  \A id \in Ids : early[id] # NoAnswer => tomb[id] = Off

\* A call has an answer only for an id that it asked about.
Asked ==
  \A c \in Calls : IF st[c] = "idle" THEN got[c] = NoAnswer ELSE asks[c] \in Ids

\* AnswerUsedOnce without its set of holders: an answer tells the id it was
\* accepted for, no two calls have it, and none has one that is still kept.
SingleHolder ==
  /\ \A id \in Ids : early[id] # NoAnswer => accepted[early[id]] = id
  /\ \A c \in Calls : got[c] # NoAnswer => accepted[got[c]] = asks[c]
  /\ \A c, d \in Calls : got[c] # NoAnswer /\ got[c] = got[d] => c = d
  /\ \A id \in Ids, c \in Calls : early[id] # NoAnswer => got[c] # early[id]

Placeholders == {id \in pending : waiter[id] = NoCall}

Bounded == IsFiniteSet(pending) /\ PlaceholdersBounded

\* The inductive invariant.
IInv ==
  /\ TypeOK
  /\ Alone
  /\ Unburied
  /\ ResolverHasListener
  /\ Asked
  /\ SingleHolder
  /\ Bounded

-----------------------------------------------------------------------------
(* The helpers of the actions                                              *)

\* A timer stays within its range while time passes.
LEMMA LessType ==
  ASSUME NEW n \in Nat, NEW t \in Countdown(n)
  PROVE  Less(t) \in Countdown(n)
BY OffAssumption DEF Less, Countdown

\* Dropping entries keeps the registry's types.
LEMMA DropType ==
  ASSUME TypeOK, NEW S \in SUBSET Ids, Drop(S)
  PROVE  /\ pending' \subseteq Ids
         /\ waiter' \in [Ids -> Calls \cup {NoCall}]
         /\ age' \in [Ids -> 0 .. TTL]
         /\ purge' \in [Ids -> Countdown(TTL)]
<1> USE TimesAssumption
<1>1. pending' \subseteq Ids
  BY DEF TypeOK, Drop
<1>2. waiter' \in [Ids -> Calls \cup {NoCall}]
  BY DEF TypeOK, Drop
<1>3. age' \in [Ids -> 0 .. TTL]
  BY DEF TypeOK, Drop
<1>4. purge' \in [Ids -> Countdown(TTL)]
  BY DEF TypeOK, Drop, Countdown
<1> QED
  BY <1>1, <1>2, <1>3, <1>4

\* Storing an entry keeps the registry's types.
LEMMA StoredType ==
  ASSUME TypeOK, NEW S \in SUBSET Ids, NEW id \in Ids,
         NEW c \in Calls \cup {NoCall}, NEW a \in 0 .. TTL,
         Stored(S, id, c, a)
  PROVE  /\ pending' \subseteq Ids
         /\ waiter' \in [Ids -> Calls \cup {NoCall}]
         /\ age' \in [Ids -> 0 .. TTL]
         /\ purge' \in [Ids -> Countdown(TTL)]
<1> USE TimesAssumption
<1>1. pending' \subseteq Ids
  BY DEF TypeOK, Stored
<1>2. waiter' \in [Ids -> Calls \cup {NoCall}]
  BY DEF TypeOK, Stored
<1>3. age' \in [Ids -> 0 .. TTL]
  BY DEF TypeOK, Stored
<1>4. purge' \in [Ids -> Countdown(TTL)]
  BY DEF TypeOK, Stored, Countdown
<1> QED
  BY <1>1, <1>2, <1>3, <1>4

\* Setting tombstones keeps their type.
LEMMA EntombedType ==
  ASSUME TypeOK, NEW S \in SUBSET Ids
  PROVE  Entombed(S) \in [Ids -> Countdown(TombTTL)]
BY TimesAssumption DEF TypeOK, Entombed, Countdown

-----------------------------------------------------------------------------
(* Types                                                                   *)

LEMMA InitType == Init => TypeOK
BY TimesAssumption, OutsidersAssumption DEF Init, TypeOK, Countdown, CallStates

\* Every step keeps the types.
LEMMA TypeStep == TypeOK /\ [Next]_vars => TypeOK'
<1> SUFFICES ASSUME TypeOK, [Next]_vars PROVE TypeOK'
  OBVIOUS
<1> USE TimesAssumption
<1>1. ASSUME NEW id \in Ids, RequestAnswered(id) PROVE TypeOK'
  <2>1. {id} \cap AllExpired \in SUBSET Ids
    BY DEF AllExpired
  <2> QED
    BY <1>1, <2>1, DropType, EntombedType DEF RequestAnswered, cached, calls, TypeOK
<1>2. ASSUME NEW id \in Ids, RequestRefreshed(id) PROVE TypeOK'
  <2>1. waiter[id] \in Calls \cup {NoCall} /\ age[id] \in 0 .. TTL
    BY DEF TypeOK
  <2>2. Stored({}, id, waiter[id], age[id])
    BY <1>2 DEF RequestRefreshed
  <2> QED
    BY <1>2, <2>1, <2>2, StoredType DEF RequestRefreshed, cached, calls, TypeOK
<1>3. ASSUME NEW id \in Ids, RequestRegistered(id) PROVE TypeOK'
  <2>1. AllExpired \in SUBSET Ids
    BY DEF AllExpired
  <2>2. Stored(AllExpired, id, NoCall, 0) /\ 0 \in 0 .. TTL
    BY <1>3 DEF RequestRegistered
  <2>3. tomb' \in [Ids -> Countdown(TombTTL)]
    BY <1>3, <2>1, EntombedType DEF RequestRegistered, Countdown
  <2> QED
    BY <1>3, <2>1, <2>2, <2>3, StoredType DEF RequestRegistered, cached, calls, TypeOK
<1>4. ASSUME NEW id \in Ids, RespondExpired(id) PROVE TypeOK'
  <2>1. {id} \cap AllExpired \in SUBSET Ids /\ {id} \in SUBSET Ids
    BY DEF AllExpired
  <2> QED
    BY <1>4, <2>1, DropType, EntombedType
    DEF RespondExpired, Delete, Forget, calls, Countdown, TypeOK
<1>5. ASSUME NEW id \in Ids, PurgeTimer(id) PROVE TypeOK'
  <2>1. CASE Expired(id) /\ Drop({id}) /\ tomb' = Entombed({id})
    BY <1>5, <2>1, DropType, EntombedType DEF PurgeTimer, cached, calls, TypeOK
  <2>2. CASE purge' = [purge EXCEPT ![id] = Off] /\ UNCHANGED <<pending, waiter, age, tomb>>
    BY <1>5, <2>2 DEF PurgeTimer, cached, calls, TypeOK, Countdown
  <2> QED
    BY <1>5, <2>1, <2>2 DEF PurgeTimer
<1>6. ASSUME NEW id \in Ids, EarlyTimer(id) PROVE TypeOK'
  BY <1>6 DEF EarlyTimer, Forget, registry, calls, Countdown, TypeOK
<1>7. ASSUME NEW id \in Ids, TombTimer(id) PROVE TypeOK'
  BY <1>7 DEF TombTimer, registry, cached, calls, Countdown, TypeOK
<1>8. ASSUME NEW id \in Ids, NEW c \in Calls, RequestApproval(c, id) PROVE TypeOK'
  <2>1. ASSUME NEW state \in CallStates, NEW answer \in Answers \cup {NoAnswer},
               Ask(c, id, state, answer)
        PROVE  /\ st' \in [Calls -> CallStates]
               /\ asks' \in [Calls -> Ids \cup {NoId}]
               /\ left' \in [Calls -> Countdown(GatewayTimeout)]
               /\ got' \in [Calls -> Answers \cup {NoAnswer}]
               /\ accepted' \in [Answers -> Ids \cup {NoId}]
    BY <2>1 DEF Ask, TypeOK, Countdown
  <2>2. CASE AskAnswered(c, id)
    <3>1. early[id] \in Answers \cup {NoAnswer} /\ "delivering" \in CallStates
      BY DEF TypeOK, CallStates
    <3>2. Ask(c, id, "delivering", early[id])
      BY <2>2 DEF AskAnswered
    <3> QED
      BY <2>1, <2>2, <3>1, <3>2 DEF AskAnswered, Forget, Countdown, TypeOK
  <2>3. CASE AskRefused(c, id)
    BY <2>1, <2>3 DEF AskRefused, CallStates, registry, cached, TypeOK
  <2>4. CASE AskPlaceholder(c, id)
    <3>1. age[id] \in 0 .. TTL /\ "waiting" \in CallStates
      BY DEF TypeOK, CallStates
    <3>2. Stored({}, id, c, age[id]) /\ Ask(c, id, "waiting", NoAnswer)
      BY <2>4 DEF AskPlaceholder
    <3> QED
      BY <2>1, <2>4, <3>1, <3>2, StoredType DEF AskPlaceholder, cached, TypeOK
  <2>5. CASE AskFresh(c, id)
    <3>1. 0 \in 0 .. TTL /\ "waiting" \in CallStates
      BY DEF CallStates
    <3>2. Stored({}, id, c, 0) /\ Ask(c, id, "waiting", NoAnswer)
      BY <2>5 DEF AskFresh
    <3> QED
      BY <2>1, <2>5, <3>1, <3>2, StoredType DEF AskFresh, cached, Countdown, TypeOK
  <2> QED
    BY <1>8, <2>2, <2>3, <2>4, <2>5 DEF RequestApproval
<1>9. ASSUME NEW id \in Ids, NEW a \in Answers, Respond(a, id) PROVE TypeOK'
  <2>1. /\ pending' \subseteq Ids
        /\ waiter' \in [Ids -> Calls \cup {NoCall}]
        /\ age' \in [Ids -> 0 .. TTL]
        /\ purge' \in [Ids -> Countdown(TTL)]
    BY <1>9, DropType DEF Respond
  <2>2. /\ early' \in [Ids -> Answers \cup {NoAnswer}]
        /\ earlyLeft' \in [Ids -> Countdown(EarlyTTL)]
    BY <1>9 DEF Respond, cached, TypeOK, Countdown
  <2>3. /\ st' \in [Calls -> CallStates]
        /\ got' \in [Calls -> Answers \cup {NoAnswer}]
        /\ left' \in [Calls -> Countdown(GatewayTimeout)]
    BY <1>9 DEF Respond, TypeOK, Countdown, CallStates
  <2>4. accepted' \in [Answers -> Ids \cup {NoId}] /\ UNCHANGED <<tomb, asks>>
    BY <1>9 DEF Respond, TypeOK
  <2> QED
    BY <2>1, <2>2, <2>3, <2>4 DEF TypeOK
<1>10. ASSUME NEW c \in Calls, Deliver(c) PROVE TypeOK'
  <2>1. CASE /\ asks[c] \in pending /\ Drop({asks[c]})
             /\ st' = [st EXCEPT ![c] = "answered"]
             /\ left' = [left EXCEPT ![c] = Off]
             /\ UNCHANGED got
    <3>1. {asks[c]} \in SUBSET Ids
      BY <2>1 DEF TypeOK
    <3> QED
      BY <1>10, <2>1, <3>1, DropType DEF Deliver, cached, TypeOK, Countdown, CallStates
  <2>2. CASE /\ st' = [st EXCEPT ![c] = "waiting"]
             /\ got' = [got EXCEPT ![c] = NoAnswer]
             /\ UNCHANGED <<registry, left>>
    BY <1>10, <2>2 DEF Deliver, registry, cached, TypeOK, CallStates
  <2> QED
    BY <1>10, <2>1, <2>2 DEF Deliver
<1>11. ASSUME NEW c \in Calls, GatewayTimer(c) PROVE TypeOK'
  <2>1. Drop({asks[c]}) /\ Forget(asks[c])
    BY <1>11 DEF GatewayTimer, Delete
  <2>2. /\ pending' \subseteq Ids
        /\ waiter' \in [Ids -> Calls \cup {NoCall}]
        /\ age' \in [Ids -> 0 .. TTL]
        /\ purge' \in [Ids -> Countdown(TTL)]
    BY <2>1 DEF Drop, TypeOK, Countdown
  <2> QED
    BY <1>11, <2>1, <2>2 DEF GatewayTimer, Forget, TypeOK, Countdown, CallStates
<1>12. CASE SizeTaken
  <2>1. AllExpired \in SUBSET Ids
    BY DEF AllExpired
  <2> QED
    BY <1>12, <2>1, DropType, EntombedType DEF SizeTaken, cached, calls, TypeOK
<1>13. CASE Tick
  <2>1. age' \in [Ids -> 0 .. TTL]
    BY <1>13 DEF Tick, TypeOK, Live
  <2>2. purge' \in [Ids -> Countdown(TTL)]
    BY <1>13, LessType DEF Tick, TypeOK
  <2>3. earlyLeft' \in [Ids -> Countdown(EarlyTTL)]
    BY <1>13, LessType DEF Tick, TypeOK
  <2>4. tomb' \in [Ids -> Countdown(TombTTL)]
    BY <1>13, LessType DEF Tick, TypeOK
  <2>5. left' \in [Calls -> Countdown(GatewayTimeout)]
    BY <1>13, LessType DEF Tick, TypeOK
  <2> QED
    BY <1>13, <2>1, <2>2, <2>3, <2>4, <2>5 DEF Tick, TypeOK
<1>14. CASE UNCHANGED vars
  BY <1>14 DEF vars, TypeOK
<1> QED
  BY <1>1, <1>2, <1>3, <1>4, <1>5, <1>6, <1>7, <1>8, <1>9, <1>10, <1>11, <1>12,
     <1>13, <1>14 DEF Next, OperatorAnswers, HttpRequest

-----------------------------------------------------------------------------
(* Nothing of an id's past shadows its entry                               *)

\* An entry stays alone: it comes without tombstone and without early answer,
\* and neither appears while it is there.
LEMMA AloneStep ==
  ASSUME IInv, [Next]_vars
  PROVE  Alone' /\ Unburied'
<1> USE OutsidersAssumption DEF IInv, TypeOK, Alone, Unburied
<1>1. ASSUME NEW id \in Ids, RequestAnswered(id) PROVE Alone' /\ Unburied'
  BY <1>1 DEF RequestAnswered, Drop, Entombed, AllExpired, Expired, cached, calls
<1>2. ASSUME NEW id \in Ids, RequestRefreshed(id) PROVE Alone' /\ Unburied'
  BY <1>2 DEF RequestRefreshed, Stored, Live, cached, calls
<1>3. ASSUME NEW id \in Ids, RequestRegistered(id) PROVE Alone' /\ Unburied'
  BY <1>3 DEF RequestRegistered, Stored, Entombed, AllExpired, Expired, Live, cached, calls
<1>4. ASSUME NEW id \in Ids, RespondExpired(id) PROVE Alone' /\ Unburied'
  BY <1>4 DEF RespondExpired, Drop, Delete, Forget, Entombed, AllExpired, Expired, calls
<1>5. ASSUME NEW id \in Ids, PurgeTimer(id) PROVE Alone' /\ Unburied'
  BY <1>5 DEF PurgeTimer, Drop, Entombed, Expired, cached, calls
<1>6. ASSUME NEW id \in Ids, EarlyTimer(id) PROVE Alone' /\ Unburied'
  BY <1>6 DEF EarlyTimer, Forget, registry, calls
<1>7. ASSUME NEW id \in Ids, TombTimer(id) PROVE Alone' /\ Unburied'
  BY <1>7 DEF TombTimer, registry, cached, calls
<1>8. ASSUME NEW id \in Ids, NEW c \in Calls, AskAnswered(c, id)
      PROVE  Alone' /\ Unburied'
  BY <1>8 DEF AskAnswered, Ask, Forget
<1>9. ASSUME NEW id \in Ids, NEW c \in Calls, AskRefused(c, id)
      PROVE  Alone' /\ Unburied'
  BY <1>9 DEF AskRefused, Ask, registry, cached
<1>10. ASSUME NEW id \in Ids, NEW c \in Calls, AskPlaceholder(c, id)
      PROVE  Alone' /\ Unburied'
  BY <1>10 DEF AskPlaceholder, Ask, Stored, Live, cached
<1>11. ASSUME NEW id \in Ids, NEW c \in Calls, AskFresh(c, id) PROVE Alone' /\ Unburied'
  BY <1>11 DEF AskFresh, Ask, Stored, Live, cached
<1>12. ASSUME NEW id \in Ids, NEW a \in Answers, Respond(a, id)
      PROVE  Alone' /\ Unburied'
  BY <1>12 DEF Respond, Drop, Live, cached, Open
<1>13. ASSUME NEW c \in Calls, Deliver(c) PROVE Alone' /\ Unburied'
  BY <1>13 DEF Deliver, Drop, registry, cached
<1>14. ASSUME NEW c \in Calls, GatewayTimer(c) PROVE Alone' /\ Unburied'
  BY <1>14 DEF GatewayTimer, Drop, Delete, Forget
<1>15. CASE SizeTaken
  BY <1>15 DEF SizeTaken, Drop, Entombed, AllExpired, Expired, cached, calls
<1>16. CASE Tick
  BY <1>16 DEF Tick, Less, Live
<1>17. CASE UNCHANGED vars
  BY <1>17 DEF vars
<1> QED
  BY <1>1, <1>2, <1>3, <1>4, <1>5, <1>6, <1>7, <1>8, <1>9, <1>10, <1>11, <1>12,
     <1>13, <1>14, <1>15, <1>16, <1>17
  DEF Next, OperatorAnswers, HttpRequest, RequestApproval

-----------------------------------------------------------------------------
(* Resolvers and calls                                                     *)

\* A call leaves the registry before, or in the step in which, it ends.
LEMMA ResolverStep ==
  ASSUME IInv, [Next]_vars
  PROVE  ResolverHasListener'
<1> USE OutsidersAssumption DEF IInv, TypeOK, ResolverHasListener, Open
<1>1. ASSUME NEW id \in Ids, RequestAnswered(id) PROVE ResolverHasListener'
  BY <1>1 DEF RequestAnswered, Drop, Entombed, AllExpired, Expired, cached, calls
<1>2. ASSUME NEW id \in Ids, RequestRefreshed(id) PROVE ResolverHasListener'
  BY <1>2 DEF RequestRefreshed, Stored, Live, cached, calls
<1>3. ASSUME NEW id \in Ids, RequestRegistered(id) PROVE ResolverHasListener'
  BY <1>3 DEF RequestRegistered, Stored, Entombed, AllExpired, Expired, Live, cached, calls
<1>4. ASSUME NEW id \in Ids, RespondExpired(id) PROVE ResolverHasListener'
  BY <1>4 DEF RespondExpired, Drop, Delete, Forget, Entombed, AllExpired, Expired, calls
<1>5. ASSUME NEW id \in Ids, PurgeTimer(id) PROVE ResolverHasListener'
  BY <1>5 DEF PurgeTimer, Drop, Entombed, Expired, cached, calls
<1>6. ASSUME NEW id \in Ids, EarlyTimer(id) PROVE ResolverHasListener'
  BY <1>6 DEF EarlyTimer, Forget, registry, calls
<1>7. ASSUME NEW id \in Ids, TombTimer(id) PROVE ResolverHasListener'
  BY <1>7 DEF TombTimer, registry, cached, calls
<1>8. ASSUME NEW id \in Ids, NEW c \in Calls, AskAnswered(c, id)
      PROVE  ResolverHasListener'
  BY <1>8 DEF AskAnswered, Ask, Forget
<1>9. ASSUME NEW id \in Ids, NEW c \in Calls, AskRefused(c, id)
      PROVE  ResolverHasListener'
  BY <1>9 DEF AskRefused, Ask, registry, cached
<1>10. ASSUME NEW id \in Ids, NEW c \in Calls, AskPlaceholder(c, id)
      PROVE  ResolverHasListener'
  BY <1>10 DEF AskPlaceholder, Ask, Stored, Live, cached
<1>11. ASSUME NEW id \in Ids, NEW c \in Calls, AskFresh(c, id)
      PROVE  ResolverHasListener'
  BY <1>11 DEF AskFresh, Ask, Stored, Live, cached
<1>12. ASSUME NEW id \in Ids, NEW a \in Answers, Respond(a, id)
      PROVE  ResolverHasListener'
  BY <1>12 DEF Respond, Drop, Live, cached
<1>13. ASSUME NEW c \in Calls, Deliver(c) PROVE ResolverHasListener'
  BY <1>13 DEF Deliver, Drop, registry, cached
<1>14. ASSUME NEW c \in Calls, GatewayTimer(c) PROVE ResolverHasListener'
  BY <1>14 DEF GatewayTimer, Drop, Delete, Forget
<1>15. CASE SizeTaken
  BY <1>15 DEF SizeTaken, Drop, Entombed, AllExpired, Expired, cached, calls
<1>16. CASE Tick
  BY <1>16 DEF Tick, Less, Live
<1>17. CASE UNCHANGED vars
  BY <1>17 DEF vars
<1> QED
  BY <1>1, <1>2, <1>3, <1>4, <1>5, <1>6, <1>7, <1>8, <1>9, <1>10, <1>11, <1>12,
     <1>13, <1>14, <1>15, <1>16, <1>17
  DEF Next, OperatorAnswers, HttpRequest, RequestApproval

\* Only calls that asked get an answer.
LEMMA AskedStep ==
  ASSUME IInv, [Next]_vars
  PROVE  Asked'
<1> USE OutsidersAssumption DEF IInv, TypeOK, Asked, ResolverHasListener, Open
<1>1. ASSUME NEW id \in Ids, RequestAnswered(id) PROVE Asked'
  BY <1>1 DEF RequestAnswered, Drop, Entombed, AllExpired, Expired, cached, calls
<1>2. ASSUME NEW id \in Ids, RequestRefreshed(id) PROVE Asked'
  BY <1>2 DEF RequestRefreshed, Stored, Live, cached, calls
<1>3. ASSUME NEW id \in Ids, RequestRegistered(id) PROVE Asked'
  BY <1>3 DEF RequestRegistered, Stored, Entombed, AllExpired, Expired, Live, cached, calls
<1>4. ASSUME NEW id \in Ids, RespondExpired(id) PROVE Asked'
  BY <1>4 DEF RespondExpired, Drop, Delete, Forget, Entombed, AllExpired, Expired, calls
<1>5. ASSUME NEW id \in Ids, PurgeTimer(id) PROVE Asked'
  BY <1>5 DEF PurgeTimer, Drop, Entombed, Expired, cached, calls
<1>6. ASSUME NEW id \in Ids, EarlyTimer(id) PROVE Asked'
  BY <1>6 DEF EarlyTimer, Forget, registry, calls
<1>7. ASSUME NEW id \in Ids, TombTimer(id) PROVE Asked'
  BY <1>7 DEF TombTimer, registry, cached, calls
<1>8. ASSUME NEW id \in Ids, NEW c \in Calls, AskAnswered(c, id) PROVE Asked'
  BY <1>8 DEF AskAnswered, Ask, Forget
<1>9. ASSUME NEW id \in Ids, NEW c \in Calls, AskRefused(c, id) PROVE Asked'
  BY <1>9 DEF AskRefused, Ask, registry, cached
<1>10. ASSUME NEW id \in Ids, NEW c \in Calls, AskPlaceholder(c, id) PROVE Asked'
  BY <1>10 DEF AskPlaceholder, Ask, Stored, Live, cached
<1>11. ASSUME NEW id \in Ids, NEW c \in Calls, AskFresh(c, id) PROVE Asked'
  BY <1>11 DEF AskFresh, Ask, Stored, Live, cached
<1>12. ASSUME NEW id \in Ids, NEW a \in Answers, Respond(a, id) PROVE Asked'
  BY <1>12 DEF Respond, Drop, Live, cached
<1>13. ASSUME NEW c \in Calls, Deliver(c) PROVE Asked'
  BY <1>13 DEF Deliver, Drop, registry, cached
<1>14. ASSUME NEW c \in Calls, GatewayTimer(c) PROVE Asked'
  BY <1>14 DEF GatewayTimer, Drop, Delete, Forget
<1>15. CASE SizeTaken
  BY <1>15 DEF SizeTaken, Drop, Entombed, AllExpired, Expired, cached, calls
<1>16. CASE Tick
  BY <1>16 DEF Tick, Less, Live
<1>17. CASE UNCHANGED vars
  BY <1>17 DEF vars
<1> QED
  BY <1>1, <1>2, <1>3, <1>4, <1>5, <1>6, <1>7, <1>8, <1>9, <1>10, <1>11, <1>12,
     <1>13, <1>14, <1>15, <1>16, <1>17
  DEF Next, OperatorAnswers, HttpRequest, RequestApproval

\* An answer moves from the cache to one call and nowhere else.
LEMMA OnceStep ==
  ASSUME IInv, [Next]_vars
  PROVE  SingleHolder'
<1> USE OutsidersAssumption DEF IInv, TypeOK, SingleHolder, Asked, ResolverHasListener, Alone, Open
<1>1. ASSUME NEW id \in Ids, RequestAnswered(id) PROVE SingleHolder'
  BY <1>1 DEF RequestAnswered, Drop, Entombed, AllExpired, Expired, cached, calls
<1>2. ASSUME NEW id \in Ids, RequestRefreshed(id) PROVE SingleHolder'
  BY <1>2 DEF RequestRefreshed, Stored, Live, cached, calls
<1>3. ASSUME NEW id \in Ids, RequestRegistered(id) PROVE SingleHolder'
  BY <1>3 DEF RequestRegistered, Stored, Entombed, AllExpired, Expired, Live, cached, calls
<1>4. ASSUME NEW id \in Ids, RespondExpired(id) PROVE SingleHolder'
  BY <1>4 DEF RespondExpired, Drop, Delete, Forget, Entombed, AllExpired, Expired, calls
<1>5. ASSUME NEW id \in Ids, PurgeTimer(id) PROVE SingleHolder'
  BY <1>5 DEF PurgeTimer, Drop, Entombed, Expired, cached, calls
<1>6. ASSUME NEW id \in Ids, EarlyTimer(id) PROVE SingleHolder'
  BY <1>6 DEF EarlyTimer, Forget, registry, calls
<1>7. ASSUME NEW id \in Ids, TombTimer(id) PROVE SingleHolder'
  BY <1>7 DEF TombTimer, registry, cached, calls
<1>8. ASSUME NEW id \in Ids, NEW c \in Calls, AskAnswered(c, id) PROVE SingleHolder'
  BY <1>8 DEF AskAnswered, Ask, Forget
<1>9. ASSUME NEW id \in Ids, NEW c \in Calls, AskRefused(c, id) PROVE SingleHolder'
  BY <1>9 DEF AskRefused, Ask, registry, cached
<1>10. ASSUME NEW id \in Ids, NEW c \in Calls, AskPlaceholder(c, id) PROVE SingleHolder'
  BY <1>10 DEF AskPlaceholder, Ask, Stored, Live, cached
<1>11. ASSUME NEW id \in Ids, NEW c \in Calls, AskFresh(c, id) PROVE SingleHolder'
  BY <1>11 DEF AskFresh, Ask, Stored, Live, cached
<1>12. ASSUME NEW id \in Ids, NEW a \in Answers, Respond(a, id) PROVE SingleHolder'
  BY <1>12 DEF Respond, Drop, Live, cached
<1>13. ASSUME NEW c \in Calls, Deliver(c) PROVE SingleHolder'
  BY <1>13 DEF Deliver, Drop, registry, cached
<1>14. ASSUME NEW c \in Calls, GatewayTimer(c) PROVE SingleHolder'
  BY <1>14 DEF GatewayTimer, Drop, Delete, Forget
<1>15. CASE SizeTaken
  BY <1>15 DEF SizeTaken, Drop, Entombed, AllExpired, Expired, cached, calls
<1>16. CASE Tick
  BY <1>16 DEF Tick, Less, Live
<1>17. CASE UNCHANGED vars
  BY <1>17 DEF vars
<1> QED
  BY <1>1, <1>2, <1>3, <1>4, <1>5, <1>6, <1>7, <1>8, <1>9, <1>10, <1>11, <1>12,
     <1>13, <1>14, <1>15, <1>16, <1>17
  DEF Next, OperatorAnswers, HttpRequest, RequestApproval

-----------------------------------------------------------------------------
(* The queue's limit                                                       *)

\* A step that makes no placeholder keeps the limit.
LEMMA NoNewPlaceholder ==
  ASSUME Bounded, NEW T, IsFiniteSet(T), pending' \subseteq pending \cup T,
         Placeholders' \subseteq Placeholders
  PROVE  Bounded'
<1>1. IsFiniteSet(pending) /\ IsFiniteSet(pending \cup T)
  BY FS_Union DEF Bounded
<1>2. IsFiniteSet(pending')
  BY <1>1, FS_Subset
<1>3. IsFiniteSet(Placeholders)
  BY <1>1, FS_Subset DEF Placeholders
<1>4. Cardinality(Placeholders') <= Cardinality(Placeholders)
  BY <1>3, FS_Subset
<1>5. Cardinality(Placeholders) <= MaxPending
  BY DEF Bounded, PlaceholdersBounded, Placeholders
<1>6. /\ Cardinality(Placeholders) \in Nat
      /\ Cardinality(Placeholders') \in Nat
  BY <1>3, FS_Subset, FS_CardinalityType
<1>7. Cardinality(Placeholders') <= MaxPending
  BY <1>4, <1>5, <1>6, MaxPendingAssumption
<1> QED
  BY <1>2, <1>7 DEF Bounded, PlaceholdersBounded, Placeholders

\* A fresh placeholder finds room among the live entries.
LEMMA PlaceholderFits ==
  ASSUME IInv, NEW id \in Ids, RequestRegistered(id)
  PROVE  Bounded'
<1> DEFINE lives == {i \in Ids : Live(i)}
<1>1. IsFiniteSet(pending) /\ lives \subseteq pending
  BY DEF IInv, Bounded, Live
<1>2. IsFiniteSet(lives) /\ IsFiniteSet(pending \cup {id}) /\ IsFiniteSet(lives \cup {id})
  BY <1>1, FS_Subset, FS_AddElement
<1>3. Cardinality(lives) < MaxPending
  <2>1. HasRoom
    BY DEF RequestRegistered, Known
  <2> QED
    BY <2>1 DEF HasRoom
<1>4. Cardinality(lives \cup {id}) <= Cardinality(lives) + 1
  BY <1>2, FS_AddElement, FS_CardinalityType
<1>5. Cardinality(lives) \in Nat /\ Cardinality(lives \cup {id}) \in Nat
  BY <1>2, FS_CardinalityType
<1>6. pending' = (pending \ AllExpired) \cup {id}
  BY DEF RequestRegistered, Stored
<1>7. pending' \subseteq lives \cup {id}
  <2> SUFFICES ASSUME NEW i \in pending', i # id PROVE i \in Ids /\ Live(i)
    OBVIOUS
  <2>1. i \in pending /\ i \in Ids /\ ~Expired(i)
    BY <1>6 DEF IInv, TypeOK, AllExpired
  <2>2. age[i] \in 0 .. TTL
    BY <2>1 DEF IInv, TypeOK
  <2> QED
    BY <2>1, <2>2, TimesAssumption DEF Expired, Live
<1>8. IsFiniteSet(pending')
  BY <1>2, <1>7, FS_Subset
<1>9. Placeholders' \subseteq lives \cup {id}
  BY <1>7 DEF Placeholders
<1>10. Cardinality(Placeholders') <= Cardinality(lives \cup {id})
  BY <1>2, <1>9, FS_Subset
<1>11. Cardinality(Placeholders') \in Nat
  BY <1>2, <1>9, FS_Subset, FS_CardinalityType
<1>12. Cardinality(Placeholders') <= MaxPending
  BY <1>3, <1>4, <1>5, <1>10, <1>11, MaxPendingAssumption
<1> QED
  BY <1>8, <1>12 DEF Bounded, PlaceholdersBounded, Placeholders

\* Only a fresh placeholder takes room, and it finds it.
LEMMA BoundedStep ==
  ASSUME IInv, [Next]_vars
  PROVE  Bounded'
<1> USE OutsidersAssumption DEF IInv, TypeOK, Placeholders
<1>0. Bounded /\ IsFiniteSet({}) /\ \A x : IsFiniteSet({x})
  BY FS_EmptySet, FS_Singleton
<1>1. ASSUME NEW id \in Ids, RequestAnswered(id) PROVE Bounded'
  <2>1. pending' \subseteq pending \cup {} /\ Placeholders' \subseteq Placeholders
    BY <1>1 DEF RequestAnswered, Drop, Entombed, AllExpired, Expired, cached, calls
  <2> QED
    BY <1>0, <2>1, NoNewPlaceholder
<1>2. ASSUME NEW id \in Ids, RequestRefreshed(id) PROVE Bounded'
  <2>1. pending' \subseteq pending \cup {id} /\ Placeholders' \subseteq Placeholders
    BY <1>2 DEF RequestRefreshed, Stored, Live, cached, calls
  <2> QED
    BY <1>0, <2>1, NoNewPlaceholder
<1>3. ASSUME NEW id \in Ids, RequestRegistered(id) PROVE Bounded'
  BY <1>3, PlaceholderFits
<1>4. ASSUME NEW id \in Ids, RespondExpired(id) PROVE Bounded'
  <2>1. pending' \subseteq pending \cup {} /\ Placeholders' \subseteq Placeholders
    BY <1>4 DEF RespondExpired, Drop, Delete, Forget, Entombed, AllExpired, Expired, calls
  <2> QED
    BY <1>0, <2>1, NoNewPlaceholder
<1>5. ASSUME NEW id \in Ids, PurgeTimer(id) PROVE Bounded'
  <2>1. pending' \subseteq pending \cup {} /\ Placeholders' \subseteq Placeholders
    BY <1>5 DEF PurgeTimer, Drop, Entombed, Expired, cached, calls
  <2> QED
    BY <1>0, <2>1, NoNewPlaceholder
<1>6. ASSUME NEW id \in Ids, EarlyTimer(id) PROVE Bounded'
  <2>1. pending' \subseteq pending \cup {} /\ Placeholders' \subseteq Placeholders
    BY <1>6 DEF EarlyTimer, Forget, registry, calls
  <2> QED
    BY <1>0, <2>1, NoNewPlaceholder
<1>7. ASSUME NEW id \in Ids, TombTimer(id) PROVE Bounded'
  <2>1. pending' \subseteq pending \cup {} /\ Placeholders' \subseteq Placeholders
    BY <1>7 DEF TombTimer, registry, cached, calls
  <2> QED
    BY <1>0, <2>1, NoNewPlaceholder
<1>8. ASSUME NEW id \in Ids, NEW c \in Calls, AskAnswered(c, id) PROVE Bounded'
  <2>1. pending' \subseteq pending \cup {id} /\ Placeholders' \subseteq Placeholders
    BY <1>8 DEF AskAnswered, Ask, Forget
  <2> QED
    BY <1>0, <2>1, NoNewPlaceholder
<1>9. ASSUME NEW id \in Ids, NEW c \in Calls, AskRefused(c, id) PROVE Bounded'
  <2>1. pending' \subseteq pending \cup {} /\ Placeholders' \subseteq Placeholders
    BY <1>9 DEF AskRefused, Ask, registry, cached
  <2> QED
    BY <1>0, <2>1, NoNewPlaceholder
<1>10. ASSUME NEW id \in Ids, NEW c \in Calls, AskPlaceholder(c, id) PROVE Bounded'
  <2>1. pending' \subseteq pending \cup {id} /\ Placeholders' \subseteq Placeholders
    BY <1>10 DEF AskPlaceholder, Ask, Stored, Live, cached
  <2> QED
    BY <1>0, <2>1, NoNewPlaceholder
<1>11. ASSUME NEW id \in Ids, NEW c \in Calls, AskFresh(c, id) PROVE Bounded'
  <2>1. pending' \subseteq pending \cup {id} /\ Placeholders' \subseteq Placeholders
    BY <1>11 DEF AskFresh, Ask, Stored, Live, cached
  <2> QED
    BY <1>0, <2>1, NoNewPlaceholder
<1>12. ASSUME NEW id \in Ids, NEW a \in Answers, Respond(a, id) PROVE Bounded'
  <2>1. pending' \subseteq pending \cup {} /\ Placeholders' \subseteq Placeholders
    BY <1>12 DEF Respond, Drop, Live, cached, Open
  <2> QED
    BY <1>0, <2>1, NoNewPlaceholder
<1>13. ASSUME NEW c \in Calls, Deliver(c) PROVE Bounded'
  <2>1. pending' \subseteq pending \cup {} /\ Placeholders' \subseteq Placeholders
    BY <1>13 DEF Deliver, Drop, registry, cached
  <2> QED
    BY <1>0, <2>1, NoNewPlaceholder
<1>14. ASSUME NEW c \in Calls, GatewayTimer(c) PROVE Bounded'
  <2>1. pending' \subseteq pending \cup {} /\ Placeholders' \subseteq Placeholders
    BY <1>14 DEF GatewayTimer, Drop, Delete, Forget
  <2> QED
    BY <1>0, <2>1, NoNewPlaceholder
<1>15. CASE SizeTaken
  <2>1. pending' \subseteq pending \cup {} /\ Placeholders' \subseteq Placeholders
    BY <1>15 DEF SizeTaken, Drop, Entombed, AllExpired, Expired, cached, calls
  <2> QED
    BY <1>0, <2>1, NoNewPlaceholder
<1>16. CASE Tick
  <2>1. pending' \subseteq pending \cup {} /\ Placeholders' \subseteq Placeholders
    BY <1>16 DEF Tick, Less, Live
  <2> QED
    BY <1>0, <2>1, NoNewPlaceholder
<1>17. CASE UNCHANGED vars
  <2>1. pending' \subseteq pending \cup {} /\ Placeholders' \subseteq Placeholders
    BY <1>17 DEF vars
  <2> QED
    BY <1>0, <2>1, NoNewPlaceholder
<1> QED
  BY <1>1, <1>2, <1>3, <1>4, <1>5, <1>6, <1>7, <1>8, <1>9, <1>10, <1>11, <1>12,
     <1>13, <1>14, <1>15, <1>16, <1>17
  DEF Next, OperatorAnswers, HttpRequest, RequestApproval

-----------------------------------------------------------------------------
(* The theorems                                                            *)

LEMMA InitInv == Init => IInv
<1> SUFFICES ASSUME Init PROVE IInv
  OBVIOUS
<1>1. TypeOK
  BY InitType
<1>2. Alone /\ Unburied /\ ResolverHasListener /\ Asked
  BY DEF Init, Alone, Unburied, ResolverHasListener, Asked
<1>3. SingleHolder
  BY DEF Init, SingleHolder
<1>4. Bounded
  <2>1. {id \in pending : waiter[id] = NoCall} = {}
    BY DEF Init
  <2>2. IsFiniteSet(pending) /\ Cardinality({}) = 0
    BY FS_EmptySet DEF Init
  <2> QED
    BY <2>1, <2>2, MaxPendingAssumption DEF Bounded, PlaceholdersBounded
<1> QED
  BY <1>1, <1>2, <1>3, <1>4 DEF IInv

LEMMA InvStep == IInv /\ [Next]_vars => IInv'
<1> SUFFICES ASSUME IInv, [Next]_vars PROVE IInv'
  OBVIOUS
<1>1. TypeOK'
  BY TypeStep DEF IInv
<1>2. Alone' /\ Unburied'
  BY AloneStep
<1>3. ResolverHasListener' /\ Asked' /\ SingleHolder' /\ Bounded'
  BY ResolverStep, AskedStep, OnceStep, BoundedStep
<1> QED
  BY <1>1, <1>2, <1>3 DEF IInv

LEMMA Invariant == Spec => []IInv
BY InitInv, InvStep, PTL DEF Spec

\* The two ways to say that an answer has one holder.
LEMMA OneHolder == IInv => AnswerUsedOnce
<1> SUFFICES ASSUME IInv, NEW a \in Answers
             PROVE  /\ \A id \in Ids : early[id] = a => accepted[a] = id
                    /\ \A c \in Calls : got[c] = a => accepted[a] = asks[c]
                    /\ \A x, y \in Holders(a) : x = y
  BY DEF AnswerUsedOnce
<1>1. a # NoAnswer
  BY OutsidersAssumption
<1>2. ASSUME NEW x \in Holders(a), NEW y \in Holders(a) PROVE x = y
  <2>1. \/ \E i \in Ids : x = <<"early", i>> /\ early[i] = a
        \/ \E c \in Calls : x = <<"call", c>> /\ got[c] = a
    BY DEF Holders
  <2>2. \/ \E i \in Ids : y = <<"early", i>> /\ early[i] = a
        \/ \E c \in Calls : y = <<"call", c>> /\ got[c] = a
    BY DEF Holders
  <2> QED
    BY <1>1, <2>1, <2>2 DEF IInv, SingleHolder
<1> QED
  BY <1>1, <1>2 DEF IInv, SingleHolder

\* Types, and the registry's four safety properties: a resolver always has its
\* listener, an answer one holder, a live request nothing that shadows it, and
\* placeholders stay within the queue's limit, for every number of ids, calls
\* and answers and every setting of the time limits.
THEOREM ApprovalsAreSafe ==
  Spec => [](/\ TypeOK /\ ResolverHasListener /\ AnswerUsedOnce
             /\ LiveRequestUnshadowed /\ PlaceholdersBounded)
<1>1. IInv => /\ TypeOK /\ ResolverHasListener /\ AnswerUsedOnce
              /\ LiveRequestUnshadowed /\ PlaceholdersBounded
  <2> SUFFICES ASSUME IInv
               PROVE  /\ TypeOK /\ ResolverHasListener /\ AnswerUsedOnce
                      /\ LiveRequestUnshadowed /\ PlaceholdersBounded
    OBVIOUS
  <2>1. LiveRequestUnshadowed
    BY DEF IInv, Alone, Unburied, Live, LiveRequestUnshadowed
  <2> QED
    BY <2>1, OneHolder DEF IInv, Bounded
<1> QED
  BY <1>1, Invariant, PTL

\* Each of them by itself.  Types: no call sees a state outside the registry's own.
THEOREM RegistryTypes == Spec => []TypeOK
BY ApprovalsAreSafe, PTL

\* A resolver in the registry belongs to a call that still waits for it.
THEOREM ResolversListen == Spec => []ResolverHasListener
BY ApprovalsAreSafe, PTL

\* What an earlier use of an id left behind never hides a live request.
THEOREM LiveRequestsVisible == Spec => []LiveRequestUnshadowed
BY ApprovalsAreSafe, PTL

\* Answers to requests not asked yet never grow past the limit of the queue.
THEOREM PlaceholdersFit == Spec => []PlaceholdersBounded
BY ApprovalsAreSafe, PTL

NoYounger == \A id \in Ids : Live(id) /\ id \in pending' => age'[id] >= age[id]

\* A live entry is stored again only with the age it has.
LEMMA NoRejuvenation ==
  ASSUME IInv, [Next]_vars
  PROVE  NoYounger
<1> USE OutsidersAssumption DEF IInv, TypeOK, NoYounger, Live, Alone
<1>1. ASSUME NEW id \in Ids, RequestAnswered(id) PROVE NoYounger
  BY <1>1 DEF RequestAnswered, Drop, Entombed, AllExpired, Expired, cached, calls
<1>2. ASSUME NEW id \in Ids, RequestRefreshed(id) PROVE NoYounger
  BY <1>2 DEF RequestRefreshed, Stored, cached, calls
<1>3. ASSUME NEW id \in Ids, RequestRegistered(id) PROVE NoYounger
  BY <1>3 DEF RequestRegistered, Stored, Entombed, AllExpired, Expired, cached, calls
<1>4. ASSUME NEW id \in Ids, RespondExpired(id) PROVE NoYounger
  BY <1>4 DEF RespondExpired, Drop, Delete, Forget, Entombed, AllExpired, Expired, calls
<1>5. ASSUME NEW id \in Ids, PurgeTimer(id) PROVE NoYounger
  BY <1>5 DEF PurgeTimer, Drop, Entombed, Expired, cached, calls
<1>6. ASSUME NEW id \in Ids, EarlyTimer(id) PROVE NoYounger
  BY <1>6 DEF EarlyTimer, Forget, registry, calls
<1>7. ASSUME NEW id \in Ids, TombTimer(id) PROVE NoYounger
  BY <1>7 DEF TombTimer, registry, cached, calls
<1>8. ASSUME NEW id \in Ids, NEW c \in Calls, AskAnswered(c, id) PROVE NoYounger
  BY <1>8 DEF AskAnswered, Ask, Forget
<1>9. ASSUME NEW id \in Ids, NEW c \in Calls, AskRefused(c, id) PROVE NoYounger
  BY <1>9 DEF AskRefused, Ask, registry, cached
<1>10. ASSUME NEW id \in Ids, NEW c \in Calls, AskPlaceholder(c, id) PROVE NoYounger
  BY <1>10 DEF AskPlaceholder, Ask, Stored, cached
<1>11. ASSUME NEW id \in Ids, NEW c \in Calls, AskFresh(c, id) PROVE NoYounger
  BY <1>11 DEF AskFresh, Ask, Stored, cached
<1>12. ASSUME NEW id \in Ids, NEW a \in Answers, Respond(a, id) PROVE NoYounger
  BY <1>12 DEF Respond, Drop, cached, Open
<1>13. ASSUME NEW c \in Calls, Deliver(c) PROVE NoYounger
  BY <1>13 DEF Deliver, Drop, registry, cached
<1>14. ASSUME NEW c \in Calls, GatewayTimer(c) PROVE NoYounger
  BY <1>14 DEF GatewayTimer, Drop, Delete, Forget
<1>15. CASE SizeTaken
  BY <1>15 DEF SizeTaken, Drop, Entombed, AllExpired, Expired, cached, calls
<1>16. CASE Tick
  BY <1>16 DEF Tick, Less
<1>17. CASE UNCHANGED vars
  BY <1>17 DEF vars
<1> QED
  BY <1>1, <1>2, <1>3, <1>4, <1>5, <1>6, <1>7, <1>8, <1>9, <1>10, <1>11, <1>12,
     <1>13, <1>14, <1>15, <1>16, <1>17
  DEF Next, OperatorAnswers, HttpRequest, RequestApproval

\* No step makes a live request younger: neither refreshing it over HTTP nor
\* the waiter that attaches to it buys it time.
THEOREM DeadlinesHold == Spec => RequestsNeverRejuvenate
<1>1. IInv /\ [Next]_vars =>
        [\A id \in Ids : Live(id) /\ id \in pending' => age'[id] >= age[id]]_vars
  BY NoRejuvenation DEF NoYounger
<1> QED
  BY <1>1, Invariant, PTL DEF Spec, RequestsNeverRejuvenate
=============================================================================
