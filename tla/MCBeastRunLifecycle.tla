------------------------- MODULE MCBeastRunLifecycle -------------------------
(* Values of the constants of BeastRunLifecycle for TLC.                    *)
EXTENDS BeastRunProperties, TLC

CONSTANTS r1, r2, h1, h2

OneRun == {r1}
TwoRuns == {r1, r2}
OneRequest == {h1}
TwoRequests == {h1, h2}

AgentRoutes == {"agent"}
AllRoutes == {"agent", "run"}

\* Runs and requests are interchangeable: no definition tells one from another.
Symmetry == Permutations(TwoRuns) \cup Permutations(TwoRequests)
=============================================================================
