--------------------------- MODULE CheckpointProofs ---------------------------
(***************************************************************************)
(* The properties of the checkpoint file for any number of processes, keys *)
(* and outputs and any time limits, as long as no two processes are        *)
(* removing an abandoned lock at once; the types hold even then.          *)
(***************************************************************************)
EXTENDS CheckpointProperties, TLAPS

\* The lock file exists and names its creator, or does not exist.
LockKnown == lock.by = NoProc => lock = NoLock

\* Who is past the creation of the lock file is named in it: there is one.
OwnerHolds ==
  \A p \in Procs :
    at[p] \in Holding => lock = [by |-> p, full |-> at[p] # "signing"]

\* A lock that is about to be signed is young.
FreshWhileSigning == \A p \in Procs : at[p] = "signing" => age = 0

\* What is being removed is nobody's.
ReapsAbandoned ==
  /\ \A p \in Procs :
       at[p] = "reaping" => lock # NoLock /\ at[lock.by] \notin Holding
  /\ \A p, q \in Procs : at[p] = "reaping" /\ at[q] = "reaping" => p = q

\* Each place belongs to a kind of operation.
Kinds(place) ==
  CASE place \in {"reading", "replacing"} -> {"write"}
    [] place = "copying" -> {"store", "promote"}
    [] place = "storing" -> {"store"}
    [] place = "deleting" -> {"promote"}
    [] place \in {"clearing", "emptying"} -> {"clear"}
    [] OTHER -> {"write", "store", "promote", "clear", "failed"}

\* What a holder has read or copied is what there still is.
HolderCurrent ==
  \A p \in Procs :
    /\ op[p].kind \in Kinds(at[p])
    /\ at[p] = "replacing" => read[p] = entries
    /\ at[p] = "deleting" => (op[p].what \in primary => op[p].what \in stale)
    /\ at[p] = "emptying" => kept = {}

KeptKinds == \A o \in kept : o.kind \in {"write", "store"}

\* A waiter that has seen no lock taken by a living process has seen one that only
\* grew older, and removed it as soon as it was old enough.
Uncontended ==
  \A p \in Procs :
    at[p] \in Waiting /\ p \notin contended =>
      /\ ~Taken
      /\ lock # NoLock => age >= wait[p]
      /\ wait[p] > ReapAge \/ (wait[p] = ReapAge /\ p \notin due) =>
           lock = NoLock /\ at[p] = "opening"

TriesInTime ==
  \A p \in Procs : at[p] \in Waiting /\ wait[p] = LockTimeout => p \in due

Locked == LockKnown /\ OwnerHolds /\ FreshWhileSigning /\ ReapsAbandoned
Filed == HolderCurrent /\ KeptKinds /\ StoredSurvives
Timed == Uncontended /\ TriesInTime /\ TimeoutBlamesLiving

IInv == TypeOK /\ Locked /\ Filed /\ Timed
-----------------------------------------------------------------------------

\* A process only works on what its operation is, and tries in time: all that the
\* types rest on, whatever becomes of the lock.
KindsFit == \A p \in Procs : op[p].kind \in Kinds(at[p])
Typed == TypeOK /\ TriesInTime /\ KindsFit

\* Every call begins with work of its own kind, under the lock.
LEMMA WorkFits ==
  ASSUME NEW o \in Calls
  PROVE  /\ Work(o) \in {"reading", "copying", "clearing"}
         /\ o.kind \in Kinds(Work(o))
<1>1. o.kind \in {"write", "store", "promote", "clear"}
  BY DEF Calls, Op
<1>2. CASE o.kind = "write"
  BY <1>2 DEF Kinds, Work
<1>3. CASE o.kind \in {"store", "promote"}
  BY <1>3 DEF Kinds, Work
<1>4. CASE o.kind = "clear"
  BY <1>4 DEF Kinds, Work
<1> QED BY <1>1, <1>2, <1>3, <1>4

LEMMA TypesStep ==
  ASSUME Typed, [Next]_vars
  PROVE  Typed'
<1> USE NoProcAssumption, TimesAssumption
<1> USE DEF Ready, Waiting, Inside, Holding, Places, Alive, Goes, NoLock
<1>1. ASSUME NEW p \in Procs, Begin(p)
      PROVE  Typed'
  BY <1>1, SMTT(30) DEF Typed, TypeOK, TriesInTime, KindsFit, Op, NoOp,
      Kinds, file, time, lockfile, Begin
<1>2. ASSUME NEW p \in Procs, OpenLock(p)
      PROVE  Typed'
  <2>1. CASE lock = NoLock
    <3>0. lock' = [by |-> p, full |-> FALSE]
      BY <1>2, <2>1 DEF OpenLock
    <3>1. lock' \in [by : Procs \cup {NoProc}, full : BOOLEAN]
      BY <3>0
    <3>2. contended' \subseteq Procs
      BY <1>2, <2>1 DEF Typed, TypeOK, OpenLock
    <3> QED
      BY <1>2, <2>1, <3>1, <3>2, SMTT(30) DEF Typed, TypeOK, TriesInTime, KindsFit,
        Kinds, OpenLock, file
  <2>2. CASE lock # NoLock
    BY <1>2, <2>2, SMTT(30) DEF Typed, TypeOK, TriesInTime, KindsFit, Kinds, OpenLock,
      file, time, lockfile
  <2> QED BY <2>1, <2>2
<1>3. ASSUME NEW p \in Procs, Sign(p)
      PROVE  Typed'
  <2>0. /\ \/ lock' = [by |-> p, full |-> TRUE] /\ age' = 0
           \/ lock' = lock /\ age' = age
    BY <1>3 DEF Sign, lockfile
  <2>a. lock' \in [by : Procs \cup {NoProc}, full : BOOLEAN]
    <3>1. CASE lock' = [by |-> p, full |-> TRUE]
      BY <3>1
    <3>2. CASE lock' = lock
      BY <3>2 DEF Typed, TypeOK
    <3> QED BY <2>0, <3>1, <3>2
  <2>1. age' \in 0 .. LockTimeout
    BY <2>0 DEF Typed, TypeOK
  <2> PICK o \in Calls : op' = [op EXCEPT ![p] = o] /\ at' = [at EXCEPT ![p] = Work(o)]
    BY <1>3 DEF Sign
  <2>2. Work(o) \in Inside /\ o.kind \in Kinds(Work(o))
    BY WorkFits
  <2>3. TypeOK'
    BY <1>3, <2>a, <2>1, <2>2, SMTT(30) DEF Typed, TypeOK, Sign, Calls, file, time
  <2>4. TriesInTime'
    BY <1>3, <2>2, SMTT(30) DEF Typed, TypeOK, TriesInTime, Sign, time
  <2>5. KindsFit'
    BY <1>3, <2>2 DEF Typed, TypeOK, KindsFit, Sign, Calls
  <2> QED BY <2>3, <2>4, <2>5 DEF Typed
<1>4. ASSUME NEW p \in Procs, SignFails(p)
      PROVE  Typed'
  BY <1>4, SMTT(30) DEF Typed, TypeOK, TriesInTime, KindsFit, Op, NoOp,
      Kinds, file, time, lockfile, SignFails
<1>5. ASSUME NEW p \in Procs, Look(p)
      PROVE  Typed'
  BY <1>5, SMTT(30) DEF Typed, TypeOK, TriesInTime, KindsFit, Op, NoOp,
      Kinds, file, time, lockfile, Look, Retry, Expired
<1>6. ASSUME NEW p \in Procs, Reap(p)
      PROVE  Typed'
  BY <1>6, SMTT(30) DEF Typed, TypeOK, TriesInTime, KindsFit, Op, NoOp,
      Kinds, file, time, lockfile, Reap, Retry, Expired
<1>7. ASSUME NEW p \in Procs, ReadEntries(p)
      PROVE  Typed'
  BY <1>7, SMTT(30) DEF Typed, TypeOK, TriesInTime, KindsFit, Op, NoOp,
      Kinds, file, time, lockfile, ReadEntries
<1>8. ASSUME NEW p \in Procs, Replace(p)
      PROVE  Typed'
  BY <1>8, SMTT(30) DEF Typed, TypeOK, TriesInTime, KindsFit, Op, NoOp,
      Kinds, file, time, lockfile, Replace
<1>9. ASSUME NEW p \in Procs, CopyToStale(p)
      PROVE  Typed'
  BY <1>9, SMTT(30) DEF Typed, TypeOK, TriesInTime, KindsFit, Op, NoOp,
      Kinds, file, time, lockfile, CopyToStale
<1>10. ASSUME NEW p \in Procs, Store(p)
      PROVE  Typed'
  BY <1>10, SMTT(30) DEF Typed, TypeOK, TriesInTime, KindsFit, Op, NoOp,
      Kinds, file, time, lockfile, Store
<1>11. ASSUME NEW p \in Procs, DeletePrimary(p)
      PROVE  Typed'
  BY <1>11, SMTT(30) DEF Typed, TypeOK, TriesInTime, KindsFit, Op, NoOp,
      Kinds, file, time, lockfile, DeletePrimary
<1>12. ASSUME NEW p \in Procs, ClearEntries(p)
      PROVE  Typed'
  BY <1>12, SMTT(30) DEF Typed, TypeOK, TriesInTime, KindsFit, Op, NoOp,
      Kinds, file, time, lockfile, ClearEntries
<1>13. ASSUME NEW p \in Procs, EmptyOutputs(p)
      PROVE  Typed'
  BY <1>13, SMTT(30) DEF Typed, TypeOK, TriesInTime, KindsFit, Op, NoOp,
      Kinds, file, time, lockfile, EmptyOutputs
<1>14. ASSUME NEW p \in Procs, WriteFails(p)
      PROVE  Typed'
  BY <1>14, SMTT(30) DEF Typed, TypeOK, TriesInTime, KindsFit, Op, NoOp,
      Kinds, file, time, lockfile, WriteFails
<1>15. ASSUME NEW p \in Procs, CheckOwner(p)
      PROVE  Typed'
  BY <1>15, SMTT(30) DEF Typed, TypeOK, TriesInTime, KindsFit, Op, NoOp,
      Kinds, file, time, lockfile, CheckOwner
<1>16. ASSUME NEW p \in Procs, Unlink(p)
      PROVE  Typed'
  BY <1>16, SMTT(30) DEF Typed, TypeOK, TriesInTime, KindsFit, Op, NoOp,
      Kinds, file, time, lockfile, Unlink
<1>17. ASSUME NEW p \in Procs, Die(p)
      PROVE  Typed'
  BY <1>17, SMTT(30) DEF Typed, TypeOK, TriesInTime, KindsFit, Op, NoOp,
      Kinds, file, time, lockfile, Die
<1>18. ASSUME Tick
      PROVE  Typed'
  <2>1. TypeOK'
    BY <1>18, SMTT(30) DEF Typed, TypeOK, TriesInTime, Tick, Brief, file
  <2>2. TriesInTime'
    BY <1>18 DEF Typed, TypeOK, TriesInTime, Tick, Brief
  <2>3. KindsFit'
    BY <1>18 DEF Typed, KindsFit, Tick
  <2> QED BY <2>1, <2>2, <2>3 DEF Typed
<1>19. ASSUME UNCHANGED vars
      PROVE  Typed'
  <2>1. /\ UNCHANGED <<at, op, read, lock, age, wait, due>>
        /\ UNCHANGED <<entries, primary, stale, kept, contended>>
    BY <1>19 DEF vars
  <2>2. TypeOK'
    BY <2>1 DEF Typed, TypeOK
  <2>3. TriesInTime' /\ KindsFit'
    BY <2>1 DEF Typed, TriesInTime, KindsFit
  <2> QED BY <2>2, <2>3 DEF Typed
<1>20. ASSUME NEW p \in Procs, ReleaseFails(p)
      PROVE  Typed'
  BY <1>20, SMTT(30) DEF Typed, TypeOK, TriesInTime, KindsFit, Op, NoOp,
      Kinds, file, time, lockfile, ReleaseFails
<1> QED
  BY <1>1, <1>2, <1>3, <1>4, <1>5, <1>6, <1>7, <1>8, <1>9, <1>10, <1>11, <1>12, <1>13,
      <1>14, <1>15, <1>16, <1>17, <1>18, <1>19, <1>20
    DEF Next, Take, Write, WriteOutput, Clear, GiveBack

LEMMA LockStep ==
  ASSUME IInv, [Next]_vars, ~ReapsOverlap
  PROVE  Locked'
<1> USE NoProcAssumption, TimesAssumption
<1> USE DEF Ready, Waiting, Inside, Holding, Places, Alive, Goes, NoLock
<1>1. ASSUME NEW p \in Procs, Begin(p)
      PROVE  Locked'
  BY <1>1, SMTT(30) DEF IInv, TypeOK, Locked, LockKnown, OwnerHolds, FreshWhileSigning,
      ReapsAbandoned, lockfile, Begin
<1>2. ASSUME NEW p \in Procs, OpenLock(p)
      PROVE  Locked'
  <2>1. CASE lock = NoLock
    <3>1. /\ lock' = [by |-> p, full |-> FALSE]
          /\ age' = 0
          /\ at' = [at EXCEPT ![p] = "signing"]
      BY <1>2, <2>1 DEF OpenLock
    <3>2. \A q \in Procs : at[q] \notin Holding /\ at[q] # "reaping"
      BY <2>1 DEF IInv, Locked, OwnerHolds, ReapsAbandoned
    <3>3. lock'.by = p /\ lock'.full = FALSE /\ at'[p] = "signing"
      BY <3>1 DEF IInv, TypeOK
    <3>4. LockKnown'
      BY <3>3 DEF LockKnown
    <3>5. OwnerHolds'
      BY <3>1, <3>2 DEF IInv, TypeOK, OwnerHolds
    <3>6. FreshWhileSigning' /\ ReapsAbandoned'
      BY <3>1, <3>2 DEF IInv, TypeOK, FreshWhileSigning, ReapsAbandoned
    <3> QED BY <3>4, <3>5, <3>6 DEF Locked
  <2>2. CASE lock # NoLock
    BY <1>2, <2>2, SMTT(30) DEF IInv, TypeOK, Locked, LockKnown, OwnerHolds,
      FreshWhileSigning, ReapsAbandoned, OpenLock, lockfile
  <2> QED BY <2>1, <2>2
<1>3. ASSUME NEW p \in Procs, Sign(p)
      PROVE  Locked'
  <2>1. /\ lock' = [by |-> p, full |-> TRUE]
        /\ age' = 0
    BY <1>3 DEF IInv, Locked, OwnerHolds, Sign
  <2> PICK o \in Calls : at' = [at EXCEPT ![p] = Work(o)]
    BY <1>3 DEF Sign
  <2>2. Work(o) \in Inside
    BY WorkFits
  <2>3. \A q \in Procs : /\ at[q] \in Holding => q = p
                         /\ at[q] # "reaping"
    BY <1>3 DEF IInv, Locked, OwnerHolds, ReapsAbandoned, Sign
  <2>4. at' = [at EXCEPT ![p] = Work(o)]
    OBVIOUS
  <2>5. lock'.by = p /\ at'[p] \in Inside
    BY <2>1, <2>2, <2>4 DEF IInv, TypeOK
  <2>6. LockKnown'
    BY <2>5 DEF LockKnown
  <2>7. OwnerHolds'
    <3>1. \A q \in Procs \ {p} : at'[q] \notin Holding
      BY <2>3, <2>4 DEF IInv, TypeOK
    <3>2. (at'[p] # "signing") = TRUE
      BY <2>5
    <3> QED BY <2>1, <2>5, <3>1, <3>2 DEF OwnerHolds
  <2>8. FreshWhileSigning' /\ ReapsAbandoned'
    BY <2>2, <2>3, <2>4 DEF IInv, TypeOK, FreshWhileSigning, ReapsAbandoned
  <2> QED BY <2>6, <2>7, <2>8 DEF Locked
<1>4. ASSUME NEW p \in Procs, SignFails(p)
      PROVE  Locked'
  BY <1>4, SMTT(30) DEF IInv, TypeOK, Locked, LockKnown, OwnerHolds, FreshWhileSigning,
      ReapsAbandoned, lockfile, SignFails
<1>5. ASSUME NEW p \in Procs, Look(p)
      PROVE  Locked'
  BY <1>5, SMTT(30) DEF IInv, TypeOK, Locked, LockKnown, OwnerHolds, FreshWhileSigning,
      ReapsAbandoned, lockfile, Look, Retry, Expired, Abandoned, OldEnough
<1>6. ASSUME NEW p \in Procs, Reap(p)
      PROVE  Locked'
  BY <1>6, SMTT(30) DEF IInv, TypeOK, Locked, LockKnown, OwnerHolds, FreshWhileSigning,
      ReapsAbandoned, lockfile, Reap, Retry, Expired
<1>7. ASSUME NEW p \in Procs, ReadEntries(p)
      PROVE  Locked'
  BY <1>7, SMTT(30) DEF IInv, TypeOK, Locked, LockKnown, OwnerHolds, FreshWhileSigning,
      ReapsAbandoned, lockfile, ReadEntries
<1>8. ASSUME NEW p \in Procs, Replace(p)
      PROVE  Locked'
  BY <1>8, SMTT(30) DEF IInv, TypeOK, Locked, LockKnown, OwnerHolds, FreshWhileSigning,
      ReapsAbandoned, lockfile, Replace
<1>9. ASSUME NEW p \in Procs, CopyToStale(p)
      PROVE  Locked'
  BY <1>9, SMTT(30) DEF IInv, TypeOK, Locked, LockKnown, OwnerHolds, FreshWhileSigning,
      ReapsAbandoned, lockfile, CopyToStale
<1>10. ASSUME NEW p \in Procs, Store(p)
      PROVE  Locked'
  BY <1>10, SMTT(30) DEF IInv, TypeOK, Locked, LockKnown, OwnerHolds,
      FreshWhileSigning, ReapsAbandoned, lockfile, Store
<1>11. ASSUME NEW p \in Procs, DeletePrimary(p)
      PROVE  Locked'
  BY <1>11, SMTT(30) DEF IInv, TypeOK, Locked, LockKnown, OwnerHolds,
      FreshWhileSigning, ReapsAbandoned, lockfile, DeletePrimary
<1>12. ASSUME NEW p \in Procs, ClearEntries(p)
      PROVE  Locked'
  BY <1>12, SMTT(30) DEF IInv, TypeOK, Locked, LockKnown, OwnerHolds,
      FreshWhileSigning, ReapsAbandoned, lockfile, ClearEntries
<1>13. ASSUME NEW p \in Procs, EmptyOutputs(p)
      PROVE  Locked'
  BY <1>13, SMTT(30) DEF IInv, TypeOK, Locked, LockKnown, OwnerHolds,
      FreshWhileSigning, ReapsAbandoned, lockfile, EmptyOutputs
<1>14. ASSUME NEW p \in Procs, WriteFails(p)
      PROVE  Locked'
  BY <1>14, SMTT(30) DEF IInv, TypeOK, Locked, LockKnown, OwnerHolds,
      FreshWhileSigning, ReapsAbandoned, lockfile, WriteFails
<1>15. ASSUME NEW p \in Procs, CheckOwner(p)
      PROVE  Locked'
  BY <1>15, SMTT(30) DEF IInv, TypeOK, Locked, LockKnown, OwnerHolds,
      FreshWhileSigning, ReapsAbandoned, lockfile, CheckOwner
<1>16. ASSUME NEW p \in Procs, Unlink(p)
      PROVE  Locked'
  BY <1>16, SMTT(30) DEF IInv, TypeOK, Locked, LockKnown, OwnerHolds,
      FreshWhileSigning, ReapsAbandoned, lockfile, Unlink
<1>17. ASSUME NEW p \in Procs, Die(p)
      PROVE  Locked'
  BY <1>17, SMTT(30) DEF IInv, TypeOK, Locked, LockKnown, OwnerHolds,
      FreshWhileSigning, ReapsAbandoned, lockfile, Die
<1>18. ASSUME Tick
      PROVE  Locked'
  BY <1>18, SMTT(30) DEF IInv, TypeOK, Locked, LockKnown, OwnerHolds,
      FreshWhileSigning, ReapsAbandoned, lockfile, Tick, Brief
<1>19. ASSUME UNCHANGED vars
      PROVE  Locked'
  BY <1>19 DEF vars, IInv, TypeOK, Locked, LockKnown, OwnerHolds, FreshWhileSigning,
      ReapsAbandoned, lockfile
<1>20. ASSUME NEW p \in Procs, ReleaseFails(p)
      PROVE  Locked'
  BY <1>20, SMTT(30) DEF IInv, TypeOK, Locked, LockKnown, OwnerHolds,
      FreshWhileSigning, ReapsAbandoned, lockfile, ReleaseFails
<1> QED
  BY <1>1, <1>2, <1>3, <1>4, <1>5, <1>6, <1>7, <1>8, <1>9, <1>10, <1>11, <1>12, <1>13,
      <1>14, <1>15, <1>16, <1>17, <1>18, <1>19, <1>20
    DEF Next, Take, Write, WriteOutput, Clear, GiveBack

LEMMA FileStep ==
  ASSUME IInv, [Next]_vars, ~ReapsOverlap
  PROVE  Filed'
<1> USE NoProcAssumption, TimesAssumption
<1> USE DEF Ready, Waiting, Inside, Holding, Places, Alive, Goes, NoLock
<1>1. ASSUME NEW p \in Procs, Begin(p)
      PROVE  Filed'
  BY <1>1, SMTT(30) DEF IInv, TypeOK, Locked, OwnerHolds, Filed, HolderCurrent, Kinds,
      KeptKinds, StoredSurvives, Op, NoOp, file, Begin
<1>2. ASSUME NEW p \in Procs, OpenLock(p)
      PROVE  Filed'
  BY <1>2, SMTT(30) DEF IInv, TypeOK, Locked, OwnerHolds, Filed, HolderCurrent, Kinds,
      KeptKinds, StoredSurvives, Op, NoOp, file, OpenLock
<1>3. ASSUME NEW p \in Procs, Sign(p)
      PROVE  Filed'
  <2> PICK o \in Calls : op' = [op EXCEPT ![p] = o] /\ at' = [at EXCEPT ![p] = Work(o)]
    BY <1>3 DEF Sign
  <2>1. Work(o) \in {"reading", "copying", "clearing"} /\ o.kind \in Kinds(Work(o))
    BY WorkFits
  <2>2. UNCHANGED <<read, entries, primary, stale, kept>>
    BY <1>3 DEF Sign, file
  <2>3. HolderCurrent'
    BY <2>1, <2>2 DEF IInv, TypeOK, Filed, HolderCurrent
  <2>4. KeptKinds' /\ StoredSurvives'
    BY <2>2 DEF IInv, Filed, KeptKinds, StoredSurvives
  <2> QED BY <2>3, <2>4 DEF Filed
<1>4. ASSUME NEW p \in Procs, SignFails(p)
      PROVE  Filed'
  BY <1>4, SMTT(30) DEF IInv, TypeOK, Locked, OwnerHolds, Filed, HolderCurrent, Kinds,
      KeptKinds, StoredSurvives, Op, NoOp, file, SignFails
<1>5. ASSUME NEW p \in Procs, Look(p)
      PROVE  Filed'
  BY <1>5, SMTT(30) DEF IInv, TypeOK, Locked, OwnerHolds, Filed, HolderCurrent, Kinds,
      KeptKinds, StoredSurvives, Op, NoOp, file, Look, Retry, Expired, Abandoned,
      OldEnough
<1>6. ASSUME NEW p \in Procs, Reap(p)
      PROVE  Filed'
  BY <1>6, SMTT(30) DEF IInv, TypeOK, Locked, OwnerHolds, Filed, HolderCurrent, Kinds,
      KeptKinds, StoredSurvives, Op, NoOp, file, Reap, Retry, Expired
<1>7. ASSUME NEW p \in Procs, ReadEntries(p)
      PROVE  Filed'
  BY <1>7, SMTT(30) DEF IInv, TypeOK, Locked, OwnerHolds, Filed, HolderCurrent, Kinds,
      KeptKinds, StoredSurvives, Op, NoOp, file, ReadEntries
<1>8. ASSUME NEW p \in Procs, Replace(p)
      PROVE  Filed'
  BY <1>8, SMTT(30) DEF IInv, TypeOK, Locked, OwnerHolds, Filed, HolderCurrent, Kinds,
      KeptKinds, StoredSurvives, Op, NoOp, file, Replace
<1>9. ASSUME NEW p \in Procs, CopyToStale(p)
      PROVE  Filed'
  BY <1>9, SMTT(30) DEF IInv, TypeOK, Locked, OwnerHolds, Filed, HolderCurrent, Kinds,
      KeptKinds, StoredSurvives, Op, NoOp, file, CopyToStale
<1>10. ASSUME NEW p \in Procs, Store(p)
      PROVE  Filed'
  BY <1>10, SMTT(30) DEF IInv, TypeOK, Locked, OwnerHolds, Filed, HolderCurrent, Kinds,
      KeptKinds, StoredSurvives, Op, NoOp, file, Store
<1>11. ASSUME NEW p \in Procs, DeletePrimary(p)
      PROVE  Filed'
  BY <1>11, SMTT(30) DEF IInv, TypeOK, Locked, OwnerHolds, Filed, HolderCurrent, Kinds,
      KeptKinds, StoredSurvives, Op, NoOp, file, DeletePrimary
<1>12. ASSUME NEW p \in Procs, ClearEntries(p)
      PROVE  Filed'
  BY <1>12, SMTT(30) DEF IInv, TypeOK, Locked, OwnerHolds, Filed, HolderCurrent, Kinds,
      KeptKinds, StoredSurvives, Op, NoOp, file, ClearEntries
<1>13. ASSUME NEW p \in Procs, EmptyOutputs(p)
      PROVE  Filed'
  BY <1>13, SMTT(30) DEF IInv, TypeOK, Locked, OwnerHolds, Filed, HolderCurrent, Kinds,
      KeptKinds, StoredSurvives, Op, NoOp, file, EmptyOutputs
<1>14. ASSUME NEW p \in Procs, WriteFails(p)
      PROVE  Filed'
  BY <1>14, SMTT(30) DEF IInv, TypeOK, Locked, OwnerHolds, Filed, HolderCurrent, Kinds,
      KeptKinds, StoredSurvives, Op, NoOp, file, WriteFails
<1>15. ASSUME NEW p \in Procs, CheckOwner(p)
      PROVE  Filed'
  BY <1>15, SMTT(30) DEF IInv, TypeOK, Locked, OwnerHolds, Filed, HolderCurrent, Kinds,
      KeptKinds, StoredSurvives, Op, NoOp, file, CheckOwner
<1>16. ASSUME NEW p \in Procs, Unlink(p)
      PROVE  Filed'
  BY <1>16, SMTT(30) DEF IInv, TypeOK, Locked, OwnerHolds, Filed, HolderCurrent, Kinds,
      KeptKinds, StoredSurvives, Op, NoOp, file, Unlink
<1>17. ASSUME NEW p \in Procs, Die(p)
      PROVE  Filed'
  BY <1>17, SMTT(30) DEF IInv, TypeOK, Locked, OwnerHolds, Filed, HolderCurrent, Kinds,
      KeptKinds, StoredSurvives, Op, NoOp, file, Die
<1>18. ASSUME Tick
      PROVE  Filed'
  BY <1>18, SMTT(30) DEF IInv, TypeOK, Locked, OwnerHolds, Filed, HolderCurrent, Kinds,
      KeptKinds, StoredSurvives, Op, NoOp, file, Tick, Brief
<1>19. ASSUME UNCHANGED vars
      PROVE  Filed'
  BY <1>19 DEF vars, IInv, TypeOK, Locked, OwnerHolds, Filed, HolderCurrent, Kinds,
      KeptKinds, StoredSurvives, Op, NoOp, file
<1>20. ASSUME NEW p \in Procs, ReleaseFails(p)
      PROVE  Filed'
  BY <1>20, SMTT(30) DEF IInv, TypeOK, Locked, OwnerHolds, Filed, HolderCurrent, Kinds,
      KeptKinds, StoredSurvives, Op, NoOp, file, ReleaseFails
<1> QED
  BY <1>1, <1>2, <1>3, <1>4, <1>5, <1>6, <1>7, <1>8, <1>9, <1>10, <1>11, <1>12, <1>13,
      <1>14, <1>15, <1>16, <1>17, <1>18, <1>19, <1>20
    DEF Next, Take, Write, WriteOutput, Clear, GiveBack

LEMMA WaitStep ==
  ASSUME IInv, [Next]_vars, ~ReapsOverlap
  PROVE  Timed'
<1> USE NoProcAssumption, TimesAssumption
<1> USE DEF Ready, Waiting, Inside, Holding, Places, Alive, Goes, NoLock
<1>1. ASSUME NEW p \in Procs, Begin(p)
      PROVE  Timed'
  BY <1>1, SMTT(30) DEF IInv, TypeOK, Locked, LockKnown, OwnerHolds, FreshWhileSigning,
      ReapsAbandoned, Timed, Uncontended, Taken, TriesInTime, TimeoutBlamesLiving, lockfile,
      time, Begin
<1>2. ASSUME NEW p \in Procs, OpenLock(p)
      PROVE  Timed'
  BY <1>2, SMTT(30) DEF IInv, TypeOK, Locked, LockKnown, OwnerHolds, FreshWhileSigning,
      ReapsAbandoned, Timed, Uncontended, Taken, TriesInTime, TimeoutBlamesLiving, lockfile,
      time, OpenLock
<1>3. ASSUME NEW p \in Procs, Sign(p)
      PROVE  Timed'
  BY <1>3, SMTT(30) DEF IInv, TypeOK, Locked, LockKnown, OwnerHolds, FreshWhileSigning,
      ReapsAbandoned, Timed, Uncontended, Taken, TriesInTime, TimeoutBlamesLiving, lockfile,
      time, Sign, Work
<1>4. ASSUME NEW p \in Procs, SignFails(p)
      PROVE  Timed'
  BY <1>4, SMTT(30) DEF IInv, TypeOK, Locked, LockKnown, OwnerHolds, FreshWhileSigning,
      ReapsAbandoned, Timed, Uncontended, Taken, TriesInTime, TimeoutBlamesLiving, lockfile,
      time, SignFails
<1>5. ASSUME NEW p \in Procs, Look(p)
      PROVE  Timed'
  BY <1>5, SMTT(30) DEF IInv, TypeOK, Locked, LockKnown, OwnerHolds, FreshWhileSigning,
      ReapsAbandoned, Timed, Uncontended, Taken, TriesInTime, TimeoutBlamesLiving, lockfile,
      time, Look, Retry, Expired, Abandoned, OldEnough
<1>6. ASSUME NEW p \in Procs, Reap(p)
      PROVE  Timed'
  BY <1>6, SMTT(30) DEF IInv, TypeOK, Locked, LockKnown, OwnerHolds, FreshWhileSigning,
      ReapsAbandoned, Timed, Uncontended, Taken, TriesInTime, TimeoutBlamesLiving, lockfile,
      time, Reap, Retry, Expired
<1>7. ASSUME NEW p \in Procs, ReadEntries(p)
      PROVE  Timed'
  BY <1>7, SMTT(30) DEF IInv, TypeOK, Locked, LockKnown, OwnerHolds, FreshWhileSigning,
      ReapsAbandoned, Timed, Uncontended, Taken, TriesInTime, TimeoutBlamesLiving, lockfile,
      time, ReadEntries
<1>8. ASSUME NEW p \in Procs, Replace(p)
      PROVE  Timed'
  BY <1>8, SMTT(30) DEF IInv, TypeOK, Locked, LockKnown, OwnerHolds, FreshWhileSigning,
      ReapsAbandoned, Timed, Uncontended, Taken, TriesInTime, TimeoutBlamesLiving, lockfile,
      time, Replace
<1>9. ASSUME NEW p \in Procs, CopyToStale(p)
      PROVE  Timed'
  BY <1>9, SMTT(30) DEF IInv, TypeOK, Locked, LockKnown, OwnerHolds, FreshWhileSigning,
      ReapsAbandoned, Timed, Uncontended, Taken, TriesInTime, TimeoutBlamesLiving, lockfile,
      time, CopyToStale
<1>10. ASSUME NEW p \in Procs, Store(p)
      PROVE  Timed'
  BY <1>10, SMTT(30) DEF IInv, TypeOK, Locked, LockKnown, OwnerHolds,
      FreshWhileSigning, ReapsAbandoned, Timed, Uncontended, Taken, TriesInTime,
      TimeoutBlamesLiving, lockfile, time, Store
<1>11. ASSUME NEW p \in Procs, DeletePrimary(p)
      PROVE  Timed'
  BY <1>11, SMTT(30) DEF IInv, TypeOK, Locked, LockKnown, OwnerHolds,
      FreshWhileSigning, ReapsAbandoned, Timed, Uncontended, Taken, TriesInTime,
      TimeoutBlamesLiving, lockfile, time, DeletePrimary
<1>12. ASSUME NEW p \in Procs, ClearEntries(p)
      PROVE  Timed'
  BY <1>12, SMTT(30) DEF IInv, TypeOK, Locked, LockKnown, OwnerHolds,
      FreshWhileSigning, ReapsAbandoned, Timed, Uncontended, Taken, TriesInTime,
      TimeoutBlamesLiving, lockfile, time, ClearEntries
<1>13. ASSUME NEW p \in Procs, EmptyOutputs(p)
      PROVE  Timed'
  BY <1>13, SMTT(30) DEF IInv, TypeOK, Locked, LockKnown, OwnerHolds,
      FreshWhileSigning, ReapsAbandoned, Timed, Uncontended, Taken, TriesInTime,
      TimeoutBlamesLiving, lockfile, time, EmptyOutputs
<1>14. ASSUME NEW p \in Procs, WriteFails(p)
      PROVE  Timed'
  BY <1>14, SMTT(30) DEF IInv, TypeOK, Locked, LockKnown, OwnerHolds,
      FreshWhileSigning, ReapsAbandoned, Timed, Uncontended, Taken, TriesInTime,
      TimeoutBlamesLiving, lockfile, time, WriteFails
<1>15. ASSUME NEW p \in Procs, CheckOwner(p)
      PROVE  Timed'
  BY <1>15, SMTT(30) DEF IInv, TypeOK, Locked, LockKnown, OwnerHolds,
      FreshWhileSigning, ReapsAbandoned, Timed, Uncontended, Taken, TriesInTime,
      TimeoutBlamesLiving, lockfile, time, CheckOwner
<1>16. ASSUME NEW p \in Procs, Unlink(p)
      PROVE  Timed'
  BY <1>16, SMTT(30) DEF IInv, TypeOK, Locked, LockKnown, OwnerHolds,
      FreshWhileSigning, ReapsAbandoned, Timed, Uncontended, Taken, TriesInTime,
      TimeoutBlamesLiving, lockfile, time, Unlink
<1>17. ASSUME NEW p \in Procs, Die(p)
      PROVE  Timed'
  BY <1>17, SMTT(30) DEF IInv, TypeOK, Locked, LockKnown, OwnerHolds,
      FreshWhileSigning, ReapsAbandoned, Timed, Uncontended, Taken, TriesInTime,
      TimeoutBlamesLiving, lockfile, time, Die
<1>18. ASSUME Tick
      PROVE  Timed'
  BY <1>18, SMTT(30) DEF IInv, TypeOK, Locked, LockKnown, OwnerHolds,
      FreshWhileSigning, ReapsAbandoned, Timed, Uncontended, Taken, TriesInTime,
      TimeoutBlamesLiving, lockfile, time, Tick, Brief
<1>19. ASSUME UNCHANGED vars
      PROVE  Timed'
  BY <1>19 DEF vars, IInv, TypeOK, Locked, LockKnown, OwnerHolds, FreshWhileSigning,
      ReapsAbandoned, Timed, Uncontended, Taken, TriesInTime, TimeoutBlamesLiving, lockfile, time
<1>20. ASSUME NEW p \in Procs, ReleaseFails(p)
      PROVE  Timed'
  BY <1>20, SMTT(30) DEF IInv, TypeOK, Locked, LockKnown, OwnerHolds,
      FreshWhileSigning, ReapsAbandoned, Timed, Uncontended, Taken, TriesInTime,
      TimeoutBlamesLiving, lockfile, time, ReleaseFails
<1> QED
  BY <1>1, <1>2, <1>3, <1>4, <1>5, <1>6, <1>7, <1>8, <1>9, <1>10, <1>11, <1>12, <1>13,
      <1>14, <1>15, <1>16, <1>17, <1>18, <1>19, <1>20
    DEF Next, Take, Write, WriteOutput, Clear, GiveBack

LEMMA InitIInv == Init => IInv
  BY NoProcAssumption, TimesAssumption, SMTT(30)
    DEF Init, IInv, TypeOK, Op, NoOp, Places, Ready, Waiting, Inside, Holding, NoLock,
      Locked, LockKnown, OwnerHolds, FreshWhileSigning, ReapsAbandoned, Alive,
      Filed, HolderCurrent, Kinds, KeptKinds, StoredSurvives,
      Timed, Uncontended, Taken, TriesInTime, TimeoutBlamesLiving

LEMMA SpecIInv ==
  ASSUME ~ReapsOverlap
  PROVE  Spec => []IInv
<1>1. IInv => Typed
  BY DEF IInv, Typed, KindsFit, Filed, HolderCurrent, Timed
<1>2. IInv /\ [Next]_vars => IInv'
  BY <1>1, TypesStep, LockStep, FileStep, WaitStep DEF IInv, Typed
<1> QED BY <1>2, InitIInv, PTL DEF Spec

\* What one process has written under the lock no other process, and no death,
\* undoes, unless two remove an abandoned lock at once.
THEOREM WritesSurvive ==
  ASSUME ~ReapsOverlap
  PROVE  Spec => []StoredSurvives
<1>1. IInv => StoredSurvives
  BY DEF IInv, Filed
<1> QED BY <1>1, SpecIInv, PTL

\* A write times out only on a lock some living process had while it waited.
THEOREM TimeoutsJustified ==
  ASSUME ~ReapsOverlap
  PROVE  Spec => []TimeoutBlamesLiving
<1>1. IInv => TimeoutBlamesLiving
  BY DEF IInv, Timed
<1> QED BY <1>1, SpecIInv, PTL

\* Every variable has its type, and no wait exceeds the time limit.
THEOREM CheckpointTypes == Spec => []TypeOK
<1>1. Init => Typed
  BY InitIInv DEF IInv, Typed, KindsFit, Filed, HolderCurrent, Timed
<1>2. Typed => TypeOK
  BY DEF Typed
<1> QED BY <1>1, <1>2, TypesStep, PTL DEF Spec
=============================================================================
