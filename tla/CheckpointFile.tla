--------------------------- MODULE CheckpointFile ---------------------------
(***************************************************************************)
(* The checkpoint file as several processes share it: FileCheckpointStore  *)
(* of packages/franken-orchestrator/src/checkpoint, with the lock file that *)
(* orders its writers, the removal of a lock whose owner is gone, the time *)
(* limit of the wait, and a death between any two system calls.            *)
(*                                                                         *)
(* Every method is synchronous, so a process does one thing at a time and  *)
(* a step is a system call another process can see.  What is written goes  *)
(* to a temporary file of a name of its own that is then renamed: other    *)
(* processes see the rename only.                                          *)
(***************************************************************************)
EXTENDS Naturals

CONSTANTS
  Procs,         \* processes, each with one store
  NoProc,
  Keys,          \* entries that may be written
  Outputs,       \* tasks whose output may be written
  ReapAge,       \* age at which a lock without an owner record is abandoned
  LockTimeout,   \* lockTimeoutMs, in the same unit
  DiskFaults,    \* a system call made with the lock may throw
  ReapsOverlap   \* two processes may be removing a lock at once

ASSUME NoProcAssumption == NoProc \notin Procs
\* reapAgeMs is at most lockTimeoutMs / 2.
ASSUME TimesAssumption ==
  ReapAge \in Nat \ {0} /\ LockTimeout \in Nat /\ 2 * ReapAge <= LockTimeout
ASSUME SwitchesAssumption ==
  DiskFaults \in BOOLEAN /\ ReapsOverlap \in BOOLEAN

VARIABLES
  at,         \* where each process is
  op,         \* what it is writing, from the moment it works under the lock
  read,       \* the entries it read under the lock
  lock,       \* the lock file: who created it, and whether the owner record is
              \* in it
  age,        \* time since the lock file was written, up to LockTimeout
  wait,       \* how long each process has waited for the lock
  due,        \* processes that have not tried since time last went on
  entries,    \* lines of the checkpoint file
  primary,    \* tasks with an output file
  stale,      \* tasks with a stale copy of it
  kept,       \* history: what has been written since the last clear
  contended   \* history: waiters during whose wait a living process had the lock

vars == <<at, op, read, lock, age, wait, due, entries, primary, stale, kept,
          contended>>

Op == [kind : {"write"}, what : Keys]
        \cup [kind : {"store", "promote"}, what : Outputs]
        \cup [kind : {"clear", "failed"}, what : {NoProc}]
NoOp == [kind |-> "failed", what |-> NoProc]
Calls == {o \in Op : o.kind # "failed"}

Ready == {"idle", "threw"}
Waiting == {"opening", "looking", "reaping"}
Inside == {"reading", "replacing", "copying", "storing", "deleting", "clearing",
           "emptying", "checking", "unlinking"}
Holding == {"signing"} \cup Inside
Places == Ready \cup Waiting \cup Holding \cup {"dead"}

Alive(p) == at[p] # "dead"
Goes(p, place) == at' = [at EXCEPT ![p] = place]
NoLock == [by |-> NoProc, full |-> FALSE]

file == <<entries, primary, stale>>
time == <<wait, due, contended>>
lockfile == <<lock, age>>

Init ==
  /\ at = [p \in Procs |-> "idle"]
  /\ op = [p \in Procs |-> NoOp]
  /\ read = [p \in Procs |-> {}]
  /\ lock = NoLock /\ age = 0
  /\ wait = [p \in Procs |-> 0] /\ due = {}
  /\ entries = {} /\ primary = {} /\ stale = {}
  /\ kept = {}
  /\ contended = {}
-----------------------------------------------------------------------------
(* withLock: taking the lock                                                *)

\* A living process works under the lock, or left it signed when a release failed.
Taken == (\E q \in Procs : at[q] \in Holding) \/ (lock.full /\ Alive(lock.by))

\* write, writeTaskOutput or clear is called; which of them shows once the process
\* has the lock.  The clear of a checkpoint without a directory returns without the
\* lock and without a trace.  The directory that writeTaskOutput makes before it
\* has the lock may be removed by a clear: its write throws then, which WriteFails
\* stands for.
Begin(p) ==
  /\ at[p] \in Ready
  /\ Goes(p, "opening")
  /\ wait' = [wait EXCEPT ![p] = 0]
  /\ due' = due \cup {p}
  /\ contended' = IF Taken THEN contended \cup {p} ELSE contended \ {p}
  /\ UNCHANGED <<op, read, lockfile, file, kept>>

\* openSync with the flag wx: the lock file is created, empty, or exists.
OpenLock(p) ==
  /\ at[p] = "opening"
  /\ \/ /\ lock = NoLock
        /\ lock' = [by |-> p, full |-> FALSE] /\ age' = 0
        /\ Goes(p, "signing")
        /\ wait' = [wait EXCEPT ![p] = 0]
        /\ due' = due \ {p}
        /\ contended' =
             (contended \cup {q \in Procs : at[q] \in Waiting}) \ {p}
     \/ lock # NoLock /\ Goes(p, "looking") /\ UNCHANGED <<lockfile, time>>
  /\ UNCHANGED <<op, read, file, kept>>

Work(o) == CASE o.kind = "write" -> "reading"
             [] o.kind \in {"store", "promote"} -> "copying"
             [] OTHER -> "clearing"

\* The owner record is written into the file that was created, and the work begins.
\* An output that cannot be read back is promoted: only its last good version is
\* kept, as the stale copy.
Sign(p) ==
  /\ at[p] = "signing"
  /\ \/ lock.by = p /\ lock' = [by |-> p, full |-> TRUE] /\ age' = 0
     \/ lock.by # p /\ UNCHANGED lockfile
  /\ \E o \in Calls : /\ op' = [op EXCEPT ![p] = o]
                     /\ Goes(p, Work(o))
  /\ UNCHANGED <<read, time, file, kept>>

\* Writing the record throws: the call ends, and the empty lock file stays.
SignFails(p) ==
  /\ DiskFaults
  /\ at[p] = "signing"
  /\ Goes(p, "idle")
  /\ UNCHANGED <<op, read, lockfile, time, file, kept>>

\* Mutant of OldEnough: the age limit is the waiter's own time limit.
OldAsTimeout == age >= LockTimeout

OldEnough == age >= ReapAge

\* Mutant of Abandoned: the age of the lock decides, whoever owns it.
AgeDecides == lock # NoLock /\ OldEnough

\* tryReapLock: the owner in the record is gone, or there is no record and the
\* file is old.
Abandoned ==
  /\ lock # NoLock
  /\ IF lock.full THEN ~Alive(lock.by) ELSE OldEnough

\* Mutant of Expired: a wait of exactly the time limit goes on.
ExpiredLate(p) == wait[p] > LockTimeout

Expired(p) == wait[p] >= LockTimeout

\* The deadline is looked at after every attempt, also one that removed the lock.
Retry(p) ==
  /\ IF Expired(p)
       THEN Goes(p, "threw") /\ wait' = [wait EXCEPT ![p] = 0]
       ELSE Goes(p, "opening") /\ UNCHANGED wait
  /\ due' = due \ {p}
  /\ UNCHANGED <<op, read, contended, file, kept>>

Look(p) ==
  /\ at[p] = "looking"
  /\ \/ ~Abandoned /\ Retry(p) /\ UNCHANGED lockfile
     \/ /\ Abandoned
        /\ ReapsOverlap \/ \A q \in Procs : at[q] # "reaping"
        /\ Goes(p, "reaping")
        /\ UNCHANGED <<op, read, lockfile, time, file, kept>>

\* renameSync takes whatever lock file there is by now, or fails.
Reap(p) ==
  /\ at[p] = "reaping"
  /\ lock' = NoLock /\ age' = 0
  /\ Retry(p)
-----------------------------------------------------------------------------
(* Under the lock                                                           *)

ReadEntries(p) ==
  /\ at[p] = "reading"
  /\ read' = [read EXCEPT ![p] = entries]
  /\ Goes(p, "replacing")
  /\ UNCHANGED <<op, lockfile, time, file, kept>>

Replace(p) ==
  /\ at[p] = "replacing"
  /\ entries' = read[p] \cup {op[p].what}
  /\ kept' = kept \cup {op[p]}
  /\ read' = [read EXCEPT ![p] = {}]
  /\ Goes(p, "checking")
  /\ UNCHANGED <<op, lockfile, time, primary, stale>>

\* copyTaskOutputToStale
CopyToStale(p) ==
  /\ at[p] = "copying"
  /\ stale' = stale \cup (primary \cap {op[p].what})
  /\ Goes(p, IF op[p].kind = "store" THEN "storing" ELSE "deleting")
  /\ UNCHANGED <<op, read, lockfile, time, entries, primary, kept>>

Store(p) ==
  /\ at[p] = "storing"
  /\ primary' = primary \cup {op[p].what}
  /\ kept' = kept \cup {op[p]}
  /\ Goes(p, "checking")
  /\ UNCHANGED <<op, read, lockfile, time, entries, stale>>

DeletePrimary(p) ==
  /\ at[p] = "deleting"
  /\ primary' = primary \ {op[p].what}
  /\ Goes(p, "checking")
  /\ UNCHANGED <<op, read, lockfile, time, entries, stale, kept>>

\* clear: the file is emptied, then the outputs are removed.
ClearEntries(p) ==
  /\ at[p] = "clearing"
  /\ entries' = {}
  /\ kept' = {}
  /\ Goes(p, "emptying")
  /\ UNCHANGED <<op, read, lockfile, time, primary, stale>>

EmptyOutputs(p) ==
  /\ at[p] = "emptying"
  /\ primary' = {} /\ stale' = {}
  /\ Goes(p, "checking")
  /\ UNCHANGED <<op, read, lockfile, time, entries, kept>>

\* A system call throws; the finally block still gives the lock back.
WriteFails(p) ==
  /\ DiskFaults
  /\ at[p] \in Inside \ {"checking", "unlinking"}
  /\ op' = [op EXCEPT ![p] = NoOp]
  /\ read' = [read EXCEPT ![p] = {}]
  /\ Goes(p, "checking")
  /\ UNCHANGED <<lockfile, time, file, kept>>

\* The lock is given back only if the record in it is this process's own.
CheckOwner(p) ==
  /\ at[p] = "checking"
  /\ Goes(p, IF lock = [by |-> p, full |-> TRUE] THEN "unlinking" ELSE "idle")
  /\ op' = [op EXCEPT ![p] = NoOp]
  /\ UNCHANGED <<read, lockfile, time, file, kept>>

Unlink(p) ==
  /\ at[p] = "unlinking"
  /\ lock' = NoLock /\ age' = 0
  /\ Goes(p, "idle")
  /\ UNCHANGED <<op, read, time, file, kept>>

\* Reading or unlinking the lock throws, which is taken to mean that it is gone:
\* the lock stays, signed by a process that is alive and does not hold it.
ReleaseFails(p) ==
  /\ DiskFaults
  /\ at[p] \in {"checking", "unlinking"}
  /\ Goes(p, "idle")
  /\ op' = [op EXCEPT ![p] = NoOp]
  /\ UNCHANGED <<read, lockfile, time, file, kept>>
-----------------------------------------------------------------------------
\* The process dies; the files stay.
Die(p) ==
  /\ Alive(p)
  /\ Goes(p, "dead")
  /\ op' = [op EXCEPT ![p] = NoOp]
  /\ read' = [read EXCEPT ![p] = {}]
  /\ wait' = [wait EXCEPT ![p] = 0]
  /\ due' = due \ {p}
  /\ contended' = contended \ {p}
  /\ UNCHANGED <<lockfile, file, kept>>

\* Time goes on, in units that are long against a system call and against the
\* pause between two attempts: every waiter has tried since it last did, and
\* nobody is between creating a lock and signing it ("the create-to-write
\* window is microseconds").  The work under the lock may take any time.
Brief == {"signing", "looking", "reaping"}

Tick ==
  /\ due = {}
  /\ \A p \in Procs : at[p] \notin Brief
  /\ \E p \in Procs : at[p] = "opening"
  /\ wait' = [p \in Procs |-> IF at[p] = "opening" THEN wait[p] + 1 ELSE wait[p]]
  /\ due' = {p \in Procs : at[p] = "opening"}
  /\ age' = IF lock # NoLock /\ age < LockTimeout THEN age + 1 ELSE age
  /\ UNCHANGED <<at, op, read, lock, contended, file, kept>>
-----------------------------------------------------------------------------
Take(p) == OpenLock(p) \/ Sign(p) \/ SignFails(p) \/ Look(p) \/ Reap(p)
Write(p) == ReadEntries(p) \/ Replace(p)
WriteOutput(p) == CopyToStale(p) \/ Store(p) \/ DeletePrimary(p)
Clear(p) == ClearEntries(p) \/ EmptyOutputs(p)
GiveBack(p) == CheckOwner(p) \/ Unlink(p) \/ ReleaseFails(p)

Next ==
  \/ \E p \in Procs : \/ Begin(p)
                      \/ Take(p)
                      \/ Write(p) \/ WriteOutput(p) \/ Clear(p) \/ WriteFails(p)
                      \/ GiveBack(p) \/ Die(p)
  \/ Tick

Spec == Init /\ [][Next]_vars
=============================================================================
