--------------------------- MODULE DaemonProperties ---------------------------
(***************************************************************************)
(* What the Beast daemon's start and shutdown must keep.                   *)
(***************************************************************************)
EXTENDS BeastDaemon

\* Every variable has its type, and only a daemon that stops runs has a list of
\* runs to stop.
TypeOK ==
  /\ at \in [Daemons -> Places]
  /\ file \in [by : Daemons \cup {NoDaemon}, full : BOOLEAN]
  /\ busy \in [Requests -> Daemons \cup {NoDaemon}]
  /\ open \subseteq Runs /\ held \subseteq Runs /\ strays \subseteq Runs
  /\ toStop \in [Daemons -> SUBSET Runs]
  /\ survivors \in [Daemons -> SUBSET Runs]
  /\ \A d \in Daemons : toStop[d] # {} => at[d] \in {"stopping", "dead"}

Closed == {"stopping"} \cup Leaving \cup Gone

\* From the moment a daemon lists the runs it will stop, no request of its is in
\* flight, also when the drain timed out and their connections were closed: no
\* handler works on services that are disposed of.
ShutdownAfterMutations == \A d \in Daemons : at[d] \in Closed => Mutations(d) = {}

\* Runs that the repository does not call ended and whose current attempt has a
\* live worker.  A live worker of any other run is out of the shutdown's reach.
Reached == open \cap held

\* A daemon that has stopped its runs leaves none with a live worker that its
\* record leads to, but those it reports it could not stop, and gives the pid
\* file back only if there is none: no request admitted before the drain starts
\* a run behind the list of those to stop.
NoRunLeftBehind ==
  \A d \in Daemons :
    /\ at[d] = "stopping" => Reached \subseteq toStop[d] \cup survivors[d]
    /\ at[d] = "disposing" => Reached \subseteq survivors[d]
    /\ at[d] = "releasing" => Reached = {}

\* From its claim to its release a daemon is the only one, and the pid file names
\* it, whatever daemons killed at any step have left behind, as long as no daemon
\* is launched while another takes the file (~StartsOverlap).
OneOwner ==
  \A d \in Daemons :
    at[d] \in Owning =>
      /\ file = [by |-> d, full |-> TRUE]
      /\ \A e \in Daemons \ {d} : at[e] \notin Owning

\* A daemon told to close comes to its end, or is killed: whoever waits for the
\* requests in flight is woken, however the last one and the timer race.
ShutdownEnds ==
  \A d \in Daemons : at[d] \in Draining \cup {"stopping"} ~> at[d] \in Gone

\* A daemon launched when no other is alive takes the pid file over, whatever
\* state a dead one left it in.
StaleFileTakenOver ==
  \A d \in Daemons :
    (at[d] = "reading" /\ \A e \in Daemons \ {d} : ~Alive(e))
      ~> at[d] \in {"services", "dead"}
=============================================================================
