----------------------------- MODULE DaemonProofs -----------------------------
(***************************************************************************)
(* Proofs about the Beast daemon's start and shutdown, for any number of   *)
(* daemons, requests and runs, when starts do not overlap.                 *)
(***************************************************************************)
EXTENDS DaemonProperties, TLAPS

\* Two daemons are not taking the pid file at once.
OneClaims ==
  \A d, e \in Daemons : d # e /\ at[d] \in Claiming => at[e] \notin Claiming

\* A daemon that found the file free or stale has no rival, and what the file
\* holds is its own doing.
ClaimUndisputed ==
  \A d \in Daemons :
    /\ at[d] \in Claiming \ {"reading"} => \A e \in Daemons : at[e] \notin Owning
    /\ at[d] = "creating" => file = NoFile
    /\ at[d] = "writing" => file = [by |-> d, full |-> FALSE]

\* Only a daemon that is up or draining has requests in flight.
BusyDaemonServes ==
  \A q \in Requests : \A d \in Daemons : busy[q] = d => at[d] \in {"up"} \cup Draining

\* The inductive invariant.
IInv ==
  /\ TypeOK
  /\ OneClaims
  /\ ClaimUndisputed
  /\ OneOwner
  /\ BusyDaemonServes
  /\ NoRunLeftBehind

-----------------------------------------------------------------------------
LEMMA InitIInv == Init => IInv
BY NoDaemonAssumption DEF Init, IInv, TypeOK, OneClaims, ClaimUndisputed, OneOwner,
  BusyDaemonServes, NoRunLeftBehind, Reached, NoFile, Claiming, Opening, Draining, Leaving,
  Gone, Places, Owning

\* The steps that take the pid file.
LEMMA ClaimStep ==
  ASSUME IInv, ~StartsOverlap, NEW d \in Daemons, Launch(d) \/ Claim(d)
  PROVE  IInv'
<1> USE NoDaemonAssumption DEF IInv, requests, runs, shutdown, Goes, Claiming, Opening,
      Draining, Leaving, Gone, Owning, NoFile
<1>1. CASE Launch(d)
  <2>1. TypeOK'
    BY <1>1 DEF Launch, TypeOK, Places
  <2>2. OneClaims' /\ ClaimUndisputed'
    BY <1>1 DEF Launch, TypeOK, OneClaims, ClaimUndisputed
  <2>3. OneOwner'
    BY <1>1 DEF Launch, TypeOK, OneOwner
  <2>4. BusyDaemonServes' /\ NoRunLeftBehind'
    BY <1>1 DEF Launch, TypeOK, BusyDaemonServes, NoRunLeftBehind, Reached
  <2> QED BY <2>1, <2>2, <2>3, <2>4
<1>2. CASE ReadFile(d)
  <2> DEFINE place == AfterReading(d)
  <2>1. place \in {"creating", "removing", "ended"}
    BY DEF AfterReading
  <2>2. place # "ended" => \A e \in Daemons : at[e] \notin Owning
    BY DEF AfterReading, TypeOK, OneOwner, Alive
  <2>3. place = "creating" => file = NoFile
    BY DEF AfterReading
  <2>4. at' = [at EXCEPT ![d] = place] /\ UNCHANGED <<file, busy, runs, toStop, survivors>>
    BY <1>2 DEF ReadFile
  <2> HIDE DEF place
  <2>5. at[d] = "reading"
    BY <1>2 DEF ReadFile
  <2>6. TypeOK'
    BY <2>1, <2>4, <2>5 DEF TypeOK, Places
  <2>7. OneClaims' /\ ClaimUndisputed'
    BY <2>1, <2>2, <2>3, <2>4, <2>5 DEF TypeOK, OneClaims, ClaimUndisputed
  <2>8. OneOwner'
    BY <2>1, <2>4, <2>5 DEF TypeOK, OneOwner
  <2>9. BusyDaemonServes' /\ NoRunLeftBehind'
    BY <2>1, <2>4, <2>5 DEF TypeOK, BusyDaemonServes, NoRunLeftBehind, Reached
  <2> QED BY <2>6, <2>7, <2>8, <2>9
<1>3. CASE RemoveFile(d)
  <2>1. TypeOK'
    BY <1>3 DEF RemoveFile, TypeOK, Places
  <2>2. OneClaims' /\ ClaimUndisputed'
    BY <1>3 DEF RemoveFile, TypeOK, OneClaims, ClaimUndisputed
  <2>3. OneOwner'
    BY <1>3 DEF RemoveFile, TypeOK, OneOwner, ClaimUndisputed
  <2>4. BusyDaemonServes' /\ NoRunLeftBehind'
    BY <1>3 DEF RemoveFile, TypeOK, BusyDaemonServes, NoRunLeftBehind, Reached
  <2> QED BY <2>1, <2>2, <2>3, <2>4
<1>4. CASE CreateFile(d)
  <2>a. file = NoFile /\ at[d] = "creating"
    BY <1>4 DEF CreateFile, ClaimUndisputed
  <2>b. /\ file' = [by |-> d, full |-> FALSE]
        /\ at' = [at EXCEPT ![d] = "writing"]
        /\ UNCHANGED <<requests, shutdown>>
    BY <1>4, <2>a DEF CreateFile
  <2>1. TypeOK'
    BY <2>a, <2>b DEF TypeOK, Places
  <2>2. OneClaims' /\ ClaimUndisputed'
    BY <2>a, <2>b DEF TypeOK, OneClaims, ClaimUndisputed
  <2>3. OneOwner'
    BY <2>a, <2>b DEF TypeOK, OneOwner, ClaimUndisputed
  <2>4. BusyDaemonServes' /\ NoRunLeftBehind'
    BY <2>a, <2>b DEF TypeOK, BusyDaemonServes, NoRunLeftBehind, Reached
  <2> QED BY <2>1, <2>2, <2>3, <2>4
<1>5. CASE WritePid(d)
  <2>a. file = [by |-> d, full |-> FALSE]
    BY <1>5 DEF WritePid, ClaimUndisputed
  <2>0. file' = [by |-> d, full |-> TRUE]
    BY <1>5, <2>a DEF WritePid
  <2>1. TypeOK'
    BY <1>5, <2>0 DEF WritePid, TypeOK, Places
  <2>2. OneClaims' /\ ClaimUndisputed'
    BY <1>5, <2>0 DEF WritePid, TypeOK, OneClaims, ClaimUndisputed
  <2>3. OneOwner'
    BY <1>5, <2>0 DEF WritePid, TypeOK, OneOwner, ClaimUndisputed
  <2>4. BusyDaemonServes' /\ NoRunLeftBehind'
    BY <1>5 DEF WritePid, TypeOK, BusyDaemonServes, NoRunLeftBehind, Reached
  <2> QED BY <2>1, <2>2, <2>3, <2>4
<1> QED BY <1>1, <1>2, <1>3, <1>4, <1>5 DEF Claim

\* A step of an owner that leaves the pid file, the requests and the runs alone.
LEMMA OwnerMoves ==
  ASSUME IInv, NEW d \in Daemons, NEW place \in Places,
         at[d] \in Owning, place \in Owning \cup Gone,
         at' = [at EXCEPT ![d] = place], UNCHANGED <<file, busy>>,
         open' \subseteq Runs, held' \subseteq Runs, strays' \subseteq Runs,
         \A q \in Requests : busy[q] = d => place \in {"up"} \cup Draining,
         toStop' \in [Daemons -> SUBSET Runs],
         survivors' \in [Daemons -> SUBSET Runs],
         toStop'[d] # {} => place = "stopping",
         \A e \in Daemons \ {d} : toStop'[e] = toStop[e] /\ survivors'[e] = survivors[e],
         place = "stopping" => Reached' \subseteq toStop'[d] \cup survivors'[d],
         place = "disposing" => Reached' \subseteq survivors'[d],
         place = "releasing" => Reached' = {}
  PROVE  IInv'
<1> USE DEF IInv, Claiming, Opening, Draining, Leaving, Gone, Owning
<1>1. TypeOK'
  BY DEF TypeOK
<1>2. OneClaims' /\ ClaimUndisputed'
  BY DEF TypeOK, OneClaims, ClaimUndisputed
<1>3. OneOwner'
  BY DEF TypeOK, OneOwner
<1>4. BusyDaemonServes'
  BY DEF TypeOK, BusyDaemonServes
<1>5. NoRunLeftBehind'
  <2>1. at' \in [Daemons -> Places] /\ at'[d] = place
    BY DEF TypeOK
  <2>2. \A e \in Daemons \ {d} : at'[e] \notin Owning
    BY DEF OneOwner, TypeOK
  <2> QED BY <2>1, <2>2 DEF NoRunLeftBehind
<1> QED BY <1>1, <1>2, <1>3, <1>4, <1>5

LEMMA OpenStep ==
  ASSUME IInv, NEW d \in Daemons, Open(d)
  PROVE  IInv'
<1> USE DEF requests, runs, shutdown, Goes
<1>1. toStop[d] = {}
  BY DEF Open, OpenServices, Listen, IInv, TypeOK
<1>2. /\ toStop \in [Daemons -> SUBSET Runs] /\ survivors \in [Daemons -> SUBSET Runs]
      /\ at \in [Daemons -> Places]
      /\ open \subseteq Runs /\ held \subseteq Runs /\ strays \subseteq Runs
  BY DEF IInv, TypeOK
<1>3. \A q \in Requests : busy[q] = d => at[d] \in {"up"} \cup Draining
  BY DEF IInv, BusyDaemonServes
<1>4. PICK place \in {"binding", "aborting", "up", "ended"} :
        /\ at' = [at EXCEPT ![d] = place]
        /\ UNCHANGED <<file, busy, held, strays, toStop, survivors>>
        /\ at[d] \in Opening
        /\ open' \subseteq open
  <2>1. CASE OpenServices(d)
    BY <2>1 DEF OpenServices, Opening
  <2>2. CASE Listen(d)
    BY <2>2 DEF Listen, Opening
  <2> QED BY <2>1, <2>2 DEF Open
<1>5. at[d] \in Owning /\ place \in Places /\ place \in Owning \cup Gone
  BY <1>4 DEF Opening, Owning, Places, Leaving, Draining, Gone
<1>6. \A q \in Requests : busy[q] # d
  BY <1>3, <1>4 DEF Opening, Draining
<1> QED BY <1>1, <1>2, <1>4, <1>5, <1>6, OwnerMoves

\* The steps of close.
LEMMA ShutStep ==
  ASSUME IInv, NEW d \in Daemons, Close(d) \/ Shut(d)
  PROVE  IInv'
<1> USE DEF requests, runs, shutdown, Goes
<1>a. /\ toStop \in [Daemons -> SUBSET Runs] /\ survivors \in [Daemons -> SUBSET Runs]
      /\ at \in [Daemons -> Places]
      /\ open \subseteq Runs /\ held \subseteq Runs /\ strays \subseteq Runs
      /\ toStop[d] # {} => at[d] \in {"stopping", "dead"}
      /\ busy \in [Requests -> Daemons \cup {NoDaemon}]
  BY DEF IInv, TypeOK
<1>b. \A q \in Requests : busy[q] = d => at[d] \in {"up"} \cup Draining
  BY DEF IInv, BusyDaemonServes
<1>c. NoRunLeftBehind
  BY DEF IInv
<1>1. ASSUME NEW place \in {"draining", "late"}, at[d] \in {"up"} \cup Draining,
             StopOrWait(d, place), UNCHANGED <<file, requests, survivors>>
      PROVE  IInv'
  <2>1. CASE Mutations(d) = {}
    <3>1. /\ toStop[d] = {}
          /\ \A q \in Requests : busy[q] # d
      BY <1>1, <1>a, <2>1 DEF Mutations, Draining
    <3>2. CASE Goes(d, "stopping") /\ ListRuns(d)
      <4>1. at' = [at EXCEPT ![d] = "stopping"] /\ toStop' = [toStop EXCEPT ![d] = open]
        BY <3>2 DEF ListRuns
      <4>2. at[d] \in Owning /\ "stopping" \in Places /\ "stopping" \in Owning
        BY <1>1 DEF Draining, Owning, Places
      <4>3. Reached' \subseteq toStop'[d]
        BY <1>1, <1>a, <4>1 DEF Reached
      <4> QED BY <1>1, <1>a, <3>1, <4>1, <4>2, <4>3, OwnerMoves
    <3>3. CASE Goes(d, "ended") /\ UNCHANGED toStop
      <4>1. at[d] \in Owning /\ "ended" \in Places /\ "ended" \in Gone
        BY <1>1 DEF Draining, Owning, Places, Gone
      <4> QED BY <1>1, <1>a, <3>1, <3>3, <4>1, OwnerMoves
    <3> QED BY <1>1, <2>1, <3>2, <3>3 DEF StopOrWait, BeginStopping
  <2>2. CASE Mutations(d) # {}
    <3>1. at' = [at EXCEPT ![d] = place] /\ toStop' = toStop
      BY <1>1, <2>2 DEF StopOrWait
    <3>2. toStop[d] = {}
      BY <1>a, <1>1 DEF Draining
    <3>3. at[d] \in Owning /\ place \in Places /\ place \in Owning /\ place \in Draining
      BY <1>1 DEF Draining, Owning, Places
    <3> QED BY <1>1, <1>a, <3>1, <3>2, <3>3, OwnerMoves
  <2> QED BY <2>1, <2>2
<1>2. CASE Close(d)
  BY <1>1, <1>2 DEF Close
<1>3. CASE WaitOn(d)
  BY <1>1, <1>3 DEF WaitOn, Draining
<1>4. CASE DrainTimesOut(d)
  <2>1. toStop[d] = {} /\ at[d] \in Owning /\ "dropping" \in Places \cap Owning \cap Draining
    BY <1>4, <1>a DEF DrainTimesOut, Owning, Draining, Places
  <2> QED BY <1>4, <1>a, <2>1, OwnerMoves DEF DrainTimesOut
<1>5. CASE RunsStopped(d)
  <2>1. /\ at[d] \in Owning /\ "disposing" \in Places \cap Owning
        /\ \A q \in Requests : busy[q] # d
        /\ Reached' \subseteq survivors[d]
    BY <1>5, <1>b, <1>c DEF RunsStopped, Owning, Draining, Places, Leaving,
        NoRunLeftBehind, Reached
  <2> QED BY <1>5, <1>a, <2>1, OwnerMoves DEF RunsStopped
<1>6. CASE Dispose(d)
  <2>1. PICK place \in {"releasing", "ended"} :
          /\ at' = [at EXCEPT ![d] = place]
          /\ UNCHANGED <<file, busy, runs, toStop, survivors>>
          /\ place = "releasing" => survivors[d] = {}
    BY <1>6 DEF Dispose
  <2>2. /\ at[d] \in Owning /\ place \in Places /\ place \in Owning \cup Gone
        /\ \A q \in Requests : busy[q] # d
        /\ toStop[d] = {}
        /\ place = "releasing" => Reached' = {}
    BY <1>6, <2>1, <1>a, <1>b, <1>c DEF Dispose, Owning, Draining, Places, Leaving, Gone,
        NoRunLeftBehind, Reached
  <2> QED BY <1>a, <2>2, <2>1, OwnerMoves
<1>7. CASE ReleaseFile(d)
  <2>1. /\ at[d] \in Owning /\ "unlinking" \in Places \cap Owning
        /\ \A q \in Requests : busy[q] # d
        /\ toStop[d] = {}
    BY <1>7, <1>a, <1>b DEF ReleaseFile, Owning, Draining, Places, Leaving
  <2>2. file = [by |-> d, full |-> TRUE]
    BY <2>1 DEF IInv, OneOwner
  <2>3. at' = [at EXCEPT ![d] = "unlinking"] /\ UNCHANGED <<file, busy, runs, toStop, survivors>>
    BY <1>7, <2>2 DEF ReleaseFile
  <2> QED BY <1>a, <2>1, <2>3, OwnerMoves
<1>8. CASE Unlink(d)
  <2>1. /\ at[d] = "unlinking" /\ at' = [at EXCEPT ![d] = "ended"] /\ file' = NoFile
        /\ UNCHANGED <<busy, runs, toStop, survivors>>
    BY <1>8 DEF Unlink
  <2> USE DEF IInv, Claiming, Opening, Draining, Leaving, Gone, Owning
  <2>2. TypeOK'
    BY <2>1 DEF TypeOK, Places, NoFile
  <2>3. OneClaims' /\ ClaimUndisputed'
    BY <2>1 DEF TypeOK, OneClaims, ClaimUndisputed
  <2>4. OneOwner'
    BY <2>1 DEF TypeOK, OneOwner
  <2>5. BusyDaemonServes' /\ NoRunLeftBehind'
    BY <2>1 DEF TypeOK, BusyDaemonServes, NoRunLeftBehind, Reached
  <2> QED BY <2>2, <2>3, <2>4, <2>5
<1>9. CASE \E r \in Runs : StopRun(d, r)
  <2>1. PICK r \in Runs : StopRun(d, r)
    BY <1>9
  <2>2. /\ at[d] = "stopping" /\ toStop' = [toStop EXCEPT ![d] = @ \ {r}]
        /\ UNCHANGED <<at, file, busy, strays>>
        /\ open' \subseteq open /\ held' \subseteq held
        /\ \/ r \notin open' /\ survivors' = survivors
           \/ survivors' = [survivors EXCEPT ![d] = @ \cup {r}]
    BY <2>1 DEF StopRun
  <2>3. \A e \in Daemons \ {d} : at[e] \notin Owning
    BY <2>2 DEF IInv, OneOwner, Owning
  <2> USE DEF IInv, Claiming, Opening, Draining, Leaving, Gone, Owning
  <2>4. TypeOK'
    BY <2>2, <1>a DEF TypeOK
  <2>5. OneClaims' /\ ClaimUndisputed'
    BY <2>2 DEF TypeOK, OneClaims, ClaimUndisputed
  <2>6. OneOwner'
    BY <2>2 DEF TypeOK, OneOwner
  <2>7. BusyDaemonServes'
    BY <2>2 DEF TypeOK, BusyDaemonServes
  <2>8. NoRunLeftBehind'
    <3>1. \A e \in Daemons \ {d} : at'[e] \notin {"stopping", "disposing", "releasing"}
      BY <2>2, <2>3
    <3>2. at'[d] = "stopping" /\ Reached \subseteq toStop[d] \cup survivors[d]
      BY <2>2, <1>c DEF NoRunLeftBehind
    <3>3. Reached' \subseteq toStop'[d] \cup survivors'[d]
      BY <2>2, <3>2, <1>a DEF Reached
    <3> QED BY <3>1, <3>2, <3>3 DEF NoRunLeftBehind
  <2> QED BY <2>4, <2>5, <2>6, <2>7, <2>8
<1> QED BY <1>2, <1>3, <1>4, <1>5, <1>6, <1>7, <1>8, <1>9 DEF Shut

\* Requests, workers and kills.
LEMMA RequestStep ==
  ASSUME IInv, NEW q \in Requests,
         \/ FinishMutation(q)
         \/ \E d \in Daemons : BeginMutation(q, d)
         \/ \E r \in Runs : StartRun(q, r) \/ RecordRun(q, r) \/ LoseRun(q, r)
  PROVE  IInv'
<1> USE DEF requests, runs, shutdown, Goes
<1>a. /\ toStop \in [Daemons -> SUBSET Runs] /\ survivors \in [Daemons -> SUBSET Runs]
      /\ at \in [Daemons -> Places]
      /\ open \subseteq Runs /\ held \subseteq Runs /\ strays \subseteq Runs
      /\ busy \in [Requests -> Daemons \cup {NoDaemon}]
  BY DEF IInv, TypeOK
<1>1. CASE FinishMutation(q)
  <2> DEFINE d == busy[q]
             last == Mutations(d) = {q} /\ at[d] \in {"draining", "late"}
  <2>1. /\ d \in Daemons /\ busy' = [busy EXCEPT ![q] = NoDaemon]
        /\ UNCHANGED <<file, runs, survivors>>
        /\ last => \/ at' = [at EXCEPT ![d] = "stopping"] /\ toStop' = [toStop EXCEPT ![d] = open]
                   \/ at' = [at EXCEPT ![d] = "ended"] /\ toStop' = toStop
        /\ ~last => at' = at /\ toStop' = toStop
    BY <1>1, <1>a DEF FinishMutation, BeginStopping, ListRuns
  <2>2. last => \A p \in Requests : busy'[p] # d
    BY <2>1, <1>a, NoDaemonAssumption DEF Mutations
  <2>3. \A p \in Requests : busy'[p] \in Daemons => busy'[p] = busy[p]
    BY <2>1, <1>a, NoDaemonAssumption
  <2> HIDE DEF d, last
  <2> USE DEF IInv, Claiming, Opening, Draining, Leaving, Gone, Owning
  <2>4. last => at[d] \in {"draining", "late"}
    BY DEF last
  <2>5. TypeOK'
    BY <2>1, <2>4 DEF TypeOK, Places
  <2>6. OneClaims' /\ ClaimUndisputed' /\ OneOwner'
    BY <2>1, <2>4 DEF TypeOK, OneClaims, ClaimUndisputed, OneOwner
  <2>7. BusyDaemonServes'
    BY <2>1, <2>2, <2>3, <2>4 DEF TypeOK, BusyDaemonServes
  <2>8. NoRunLeftBehind'
    BY <2>1, <2>4 DEF TypeOK, NoRunLeftBehind, Reached
  <2> QED BY <2>5, <2>6, <2>7, <2>8
<1>2. ASSUME NEW d \in Daemons, BeginMutation(q, d)
      PROVE  IInv'
  <2> USE DEF IInv
  <2>1. TypeOK'
    BY <1>2 DEF BeginMutation, TypeOK
  <2>2. OneClaims' /\ ClaimUndisputed' /\ OneOwner' /\ NoRunLeftBehind'
    BY <1>2 DEF BeginMutation, OneClaims, ClaimUndisputed, OneOwner, NoRunLeftBehind, Reached
  <2>3. BusyDaemonServes'
    BY <1>2, <1>a DEF BeginMutation, Accepts, BusyDaemonServes
  <2> QED BY <2>1, <2>2, <2>3
<1>3. ASSUME NEW r \in Runs, StartRun(q, r) \/ RecordRun(q, r) \/ LoseRun(q, r)
      PROVE  IInv'
  <2>0. /\ busy[q] # NoDaemon
        /\ UNCHANGED <<at, file, busy, toStop, survivors>>
        /\ open' \subseteq Runs /\ held' \subseteq Runs /\ strays' \subseteq Runs
    BY <1>3, <1>a DEF StartRun, RecordRun, LoseRun
  <2>1. busy[q] \in Daemons /\ at[busy[q]] \in {"up"} \cup Draining
    BY <2>0, <1>a DEF IInv, BusyDaemonServes
  <2>2. \A d \in Daemons : at[d] \notin {"stopping", "disposing", "releasing"}
    BY <2>1 DEF IInv, OneOwner, Owning, Draining, Leaving
  <2> USE DEF IInv
  <2>3. TypeOK'
    BY <2>0 DEF TypeOK
  <2>4. OneClaims' /\ ClaimUndisputed' /\ OneOwner' /\ BusyDaemonServes'
    BY <2>0 DEF OneClaims, ClaimUndisputed, OneOwner, BusyDaemonServes
  <2>5. NoRunLeftBehind'
    BY <2>0, <2>2 DEF NoRunLeftBehind
  <2> QED BY <2>3, <2>4, <2>5
<1> QED BY <1>1, <1>2, <1>3

LEMMA DieStep ==
  ASSUME IInv, NEW d \in Daemons, Die(d)
  PROVE  IInv'
<1> USE NoDaemonAssumption DEF IInv, requests, runs, shutdown, Goes, Claiming, Opening,
      Draining, Leaving, Gone, Owning
<1>1. TypeOK'
  BY DEF Die, TypeOK, Places, Alive
<1>2. OneClaims' /\ ClaimUndisputed'
  BY DEF Die, TypeOK, OneClaims, ClaimUndisputed
<1>3. OneOwner'
  BY DEF Die, TypeOK, OneOwner
<1>4. BusyDaemonServes'
  BY DEF Die, TypeOK, BusyDaemonServes
<1>5. NoRunLeftBehind'
  BY DEF Die, TypeOK, NoRunLeftBehind, Reached
<1> QED BY <1>1, <1>2, <1>3, <1>4, <1>5

LEMMA StepIInv ==
  ASSUME IInv, ~StartsOverlap, [Next]_vars
  PROVE  IInv'
<1>1. CASE UNCHANGED vars
  BY <1>1 DEF vars, IInv, TypeOK, OneClaims, ClaimUndisputed, OneOwner,
    BusyDaemonServes, NoRunLeftBehind, Reached
<1>2. ASSUME NEW d \in Daemons,
             Launch(d) \/ Claim(d) \/ Open(d) \/ Close(d) \/ Shut(d) \/ Die(d)
      PROVE  IInv'
  BY <1>2, ClaimStep, OpenStep, ShutStep, DieStep
<1>3. ASSUME NEW q \in Requests,
             \/ FinishMutation(q)
             \/ \E d \in Daemons : BeginMutation(q, d)
             \/ \E r \in Runs : StartRun(q, r) \/ RecordRun(q, r) \/ LoseRun(q, r)
      PROVE  IInv'
  BY <1>3, RequestStep
<1>4. ASSUME NEW r \in Runs, WorkerExits(r)
      PROVE  IInv'
  <2>1. /\ UNCHANGED <<at, file, busy, toStop, survivors>>
        /\ open' \subseteq open /\ held' \subseteq held /\ strays' \subseteq strays
    BY <1>4 DEF WorkerExits, shutdown
  <2>2. Reached' \subseteq Reached
    BY <2>1 DEF Reached
  <2> QED BY <2>1, <2>2 DEF IInv, TypeOK, OneClaims, ClaimUndisputed, OneOwner,
    BusyDaemonServes, NoRunLeftBehind
<1> QED BY <1>1, <1>2, <1>3, <1>4 DEF Next

-----------------------------------------------------------------------------
LEMMA SpecIInv ==
  ASSUME ~StartsOverlap
  PROVE  Spec => []IInv
BY InitIInv, StepIInv, PTL DEF Spec

\* Daemons launched one after another never serve side by side, and the pid file
\* names the one that does (claimPidFile and releasePidFile), whatever is killed
\* when.
THEOREM SoleDaemon ==
  ASSUME ~StartsOverlap
  PROVE  Spec => []OneOwner
<1>1. IInv => OneOwner
  BY DEF IInv
<1> QED BY <1>1, SpecIInv, PTL

\* close stops, or reports, every run whose record says that it goes on and leads
\* to a live worker when the last request has returned; nothing is started behind
\* its back (stopLiveRuns).
THEOREM ShutdownIsComplete ==
  ASSUME ~StartsOverlap
  PROVE  Spec => []NoRunLeftBehind
<1>1. IInv => NoRunLeftBehind
  BY DEF IInv
<1> QED BY <1>1, SpecIInv, PTL

-----------------------------------------------------------------------------
(* What holds even when starts overlap                                       *)

\* Types and the requests in flight do not depend on who holds the pid file.
Serving == TypeOK /\ BusyDaemonServes

LEMMA InitServing == Init => Serving
BY NoDaemonAssumption DEF Init, Serving, TypeOK, BusyDaemonServes, NoFile, Places, Gone

\* A daemon moves, its requests staying where they may be served.
LEMMA ServingMoves ==
  ASSUME Serving, NEW d \in Daemons, NEW place \in Places,
         at' = [at EXCEPT ![d] = place], UNCHANGED <<busy, survivors>>,
         open' \subseteq Runs, held' \subseteq Runs, strays' \subseteq Runs,
         file' \in [by : Daemons \cup {NoDaemon}, full : BOOLEAN],
         toStop' \in [Daemons -> SUBSET Runs],
         \A e \in Daemons \ {d} : toStop'[e] = toStop[e],
         toStop'[d] # {} => place \in {"stopping", "dead"},
         at[d] \in {"up"} \cup Draining =>
           place \in {"up"} \cup Draining \/ \A q \in Requests : busy[q] # d
  PROVE  Serving'
<1>1. TypeOK'
  BY DEF Serving, TypeOK
<1>2. BusyDaemonServes'
  BY DEF Serving, TypeOK, BusyDaemonServes
<1> QED BY <1>1, <1>2 DEF Serving

LEMMA ServingDaemonStep ==
  ASSUME Serving, NEW d \in Daemons,
         Launch(d) \/ Claim(d) \/ Open(d) \/ Close(d) \/ Shut(d) \/ Die(d)
  PROVE  Serving'
<1> USE NoDaemonAssumption DEF requests, runs, shutdown, Goes
<1>a. /\ file \in [by : Daemons \cup {NoDaemon}, full : BOOLEAN]
      /\ toStop \in [Daemons -> SUBSET Runs] /\ at \in [Daemons -> Places]
      /\ open \subseteq Runs /\ held \subseteq Runs /\ strays \subseteq Runs
      /\ toStop[d] # {} => at[d] \in {"stopping", "dead"}
      /\ busy \in [Requests -> Daemons \cup {NoDaemon}]
      /\ survivors \in [Daemons -> SUBSET Runs]
  BY DEF Serving, TypeOK
<1>b. NoFile \in [by : Daemons \cup {NoDaemon}, full : BOOLEAN]
  BY DEF NoFile
<1>1. CASE Launch(d) \/ Claim(d) \/ Open(d)
  <2>1. at[d] \notin {"up", "stopping", "dead"} \cup Draining
    BY <1>1 DEF Launch, Claim, ReadFile, RemoveFile, CreateFile, WritePid,
      Open, OpenServices, Listen, Draining
  <2>3. UNCHANGED <<busy, held, strays, toStop, survivors>> /\ open' \subseteq open
    <3>1. CASE OpenServices(d)
      BY <3>1 DEF OpenServices
    <3>2. CASE Launch(d) \/ Claim(d) \/ Listen(d)
      BY <3>2 DEF Launch, Claim, ReadFile, RemoveFile, CreateFile, WritePid, Listen
    <3> QED BY <1>1, <3>1, <3>2 DEF Open
  <2>4. file' \in [by : Daemons \cup {NoDaemon}, full : BOOLEAN]
    <3>1. CASE CreateFile(d)
      <4>1. [by |-> d, full |-> FALSE] \in [by : Daemons \cup {NoDaemon}, full : BOOLEAN]
        OBVIOUS
      <4> QED BY <1>a, <3>1, <4>1 DEF CreateFile
    <3>2. CASE WritePid(d)
      <4>1. [file EXCEPT !.full = TRUE] \in [by : Daemons \cup {NoDaemon}, full : BOOLEAN]
        BY <1>a
      <4> QED BY <1>a, <3>2, <4>1 DEF WritePid
    <3>3. CASE RemoveFile(d)
      BY <1>b, <3>3 DEF RemoveFile
    <3>4. CASE Launch(d) \/ ReadFile(d) \/ Open(d)
      BY <1>a, <3>4 DEF Launch, ReadFile, Open, OpenServices, Listen
    <3> QED BY <1>1, <3>1, <3>2, <3>3, <3>4 DEF Claim
  <2>2. PICK place \in Places : at' = [at EXCEPT ![d] = place]
    BY <1>1 DEF Launch, Claim, ReadFile, AfterReading, RemoveFile, CreateFile, WritePid,
      Open, OpenServices, Listen, Places, Claiming, Opening, Leaving, Gone
  <2> QED BY <1>a, <2>1, <2>2, <2>3, <2>4, ServingMoves
<1>2. ASSUME NEW place \in {"draining", "late"}, at[d] \in {"up"} \cup Draining,
             StopOrWait(d, place), UNCHANGED <<file, requests, survivors>>
      PROVE  Serving'
  <2>1. CASE Mutations(d) = {}
    <3>1. /\ \A q \in Requests : busy[q] # d
          /\ toStop[d] = {}
          /\ "stopping" \in Places /\ "ended" \in Places
      BY <1>2, <1>a, <2>1 DEF Mutations, Places, Gone, Draining
    <3>2. CASE Goes(d, "stopping") /\ ListRuns(d)
      BY <1>2, <1>a, <3>1, <3>2, ServingMoves DEF ListRuns
    <3>3. CASE Goes(d, "ended") /\ UNCHANGED toStop
      BY <1>2, <1>a, <3>1, <3>3, ServingMoves
    <3> QED BY <1>2, <2>1, <3>2, <3>3 DEF StopOrWait, BeginStopping
  <2>2. CASE Mutations(d) # {}
    <3>1. at' = [at EXCEPT ![d] = place] /\ toStop' = toStop
      BY <1>2, <2>2 DEF StopOrWait
    <3>2. toStop[d] = {} /\ place \in Places /\ place \in Draining
      BY <1>a, <1>2 DEF Draining, Places
    <3> QED BY <1>2, <1>a, <3>1, <3>2, ServingMoves
  <2> QED BY <2>1, <2>2
<1>3. CASE Close(d)
  BY <1>2, <1>3 DEF Close
<1>4. CASE WaitOn(d)
  BY <1>2, <1>4 DEF WaitOn, Draining
<1>5. CASE DrainTimesOut(d)
  <2>1. toStop[d] = {} /\ "dropping" \in Places \cap Draining
    BY <1>5, <1>a DEF DrainTimesOut, Draining, Places
  <2> QED BY <1>5, <1>a, <2>1, ServingMoves DEF DrainTimesOut
<1>6. CASE RunsStopped(d) \/ Dispose(d) \/ ReleaseFile(d) \/ Unlink(d)
  <2>1. /\ at[d] \notin {"up"} \cup Draining
        /\ toStop[d] = {}
        /\ file' \in [by : Daemons \cup {NoDaemon}, full : BOOLEAN]
        /\ UNCHANGED <<busy, runs, toStop, survivors>>
    BY <1>6, <1>a, <1>b DEF RunsStopped, Dispose, ReleaseFile, Unlink, Draining
  <2>2. PICK place \in Places : at' = [at EXCEPT ![d] = place]
    BY <1>6 DEF RunsStopped, Dispose, ReleaseFile, Unlink, Places, Leaving, Gone
  <2> QED BY <1>a, <2>1, <2>2, ServingMoves
<1>7. ASSUME NEW r \in Runs, StopRun(d, r)
      PROVE  Serving'
  BY <1>7, <1>a DEF StopRun, Serving, TypeOK, BusyDaemonServes
<1>8. CASE Die(d)
  <2>1. TypeOK'
    BY <1>8, <1>a DEF Die, Serving, TypeOK, Places, Gone, Alive
  <2>2. BusyDaemonServes'
    BY <1>8, <1>a DEF Die, Serving, BusyDaemonServes
  <2> QED BY <2>1, <2>2 DEF Serving
<1> QED BY <1>1, <1>3, <1>4, <1>5, <1>6, <1>7, <1>8 DEF Shut

LEMMA ServingRequestStep ==
  ASSUME Serving, NEW q \in Requests,
         \/ FinishMutation(q)
         \/ \E d \in Daemons : BeginMutation(q, d)
         \/ \E r \in Runs : StartRun(q, r) \/ RecordRun(q, r) \/ LoseRun(q, r)
  PROVE  Serving'
<1> USE DEF requests, runs, shutdown, Goes
<1>a. /\ toStop \in [Daemons -> SUBSET Runs] /\ survivors \in [Daemons -> SUBSET Runs]
      /\ at \in [Daemons -> Places]
      /\ open \subseteq Runs /\ held \subseteq Runs /\ strays \subseteq Runs
      /\ busy \in [Requests -> Daemons \cup {NoDaemon}]
  BY DEF Serving, TypeOK
<1>1. CASE FinishMutation(q)
  <2> DEFINE d == busy[q]
             last == Mutations(d) = {q} /\ at[d] \in {"draining", "late"}
  <2>1. /\ d \in Daemons /\ busy' = [busy EXCEPT ![q] = NoDaemon]
        /\ UNCHANGED <<file, runs, survivors>>
        /\ last => \/ at' = [at EXCEPT ![d] = "stopping"] /\ toStop' = [toStop EXCEPT ![d] = open]
                   \/ at' = [at EXCEPT ![d] = "ended"] /\ toStop' = toStop
        /\ ~last => at' = at /\ toStop' = toStop
    BY <1>1, <1>a DEF FinishMutation, BeginStopping, ListRuns
  <2>2. last => \A p \in Requests : busy'[p] # d
    BY <2>1, <1>a, NoDaemonAssumption DEF Mutations
  <2>3. \A p \in Requests : busy'[p] \in Daemons => busy'[p] = busy[p]
    BY <2>1, <1>a, NoDaemonAssumption
  <2> HIDE DEF d, last
  <2>4. last => at[d] \in {"draining", "late"}
    BY DEF last
  <2>5. TypeOK'
    BY <2>1, <2>4, <1>a DEF Serving, TypeOK, Places, Gone
  <2>6. BusyDaemonServes'
    BY <2>1, <2>2, <2>3, <1>a DEF Serving, BusyDaemonServes
  <2> QED BY <2>5, <2>6 DEF Serving
<1>2. ASSUME NEW d \in Daemons, BeginMutation(q, d)
      PROVE  Serving'
  BY <1>2, <1>a DEF BeginMutation, Accepts, Serving, TypeOK, BusyDaemonServes
<1>3. ASSUME NEW r \in Runs, StartRun(q, r) \/ RecordRun(q, r) \/ LoseRun(q, r)
      PROVE  Serving'
  <2>1. /\ UNCHANGED <<at, file, busy, toStop, survivors>>
        /\ open' \subseteq Runs /\ held' \subseteq Runs /\ strays' \subseteq Runs
    BY <1>3, <1>a DEF StartRun, RecordRun, LoseRun
  <2> QED BY <2>1 DEF Serving, TypeOK, BusyDaemonServes
<1> QED BY <1>1, <1>2, <1>3

LEMMA StepServing ==
  ASSUME Serving, [Next]_vars
  PROVE  Serving'
<1>1. CASE UNCHANGED vars
  BY <1>1 DEF vars, Serving, TypeOK, BusyDaemonServes
<1>2. ASSUME NEW r \in Runs, WorkerExits(r)
      PROVE  Serving'
  BY <1>2 DEF WorkerExits, shutdown, Serving, TypeOK, BusyDaemonServes
<1> QED BY <1>1, <1>2, ServingDaemonStep, ServingRequestStep DEF Next

LEMMA SpecServing == Spec => []Serving
BY InitServing, StepServing, PTL DEF Spec

\* No handler of a mutating request runs once the services are being disposed
\* of, however the drain's timer and the requests race (waitForMutations and
\* waitForMutationCompletion) and whoever else takes the pid file meanwhile.
THEOREM DrainIsComplete == Spec => []ShutdownAfterMutations
<1>1. Serving => ShutdownAfterMutations
  BY DEF Serving, BusyDaemonServes, ShutdownAfterMutations, Closed, Mutations, Draining,
    Leaving, Gone
<1> QED BY <1>1, SpecServing, PTL

\* The daemon's variables keep their types, and only a daemon that stops runs
\* has a list of them.
THEOREM DaemonTypes == Spec => []TypeOK
<1>1. Serving => TypeOK
  BY DEF Serving
<1> QED BY <1>1, SpecServing, PTL
=============================================================================
