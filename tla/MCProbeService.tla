--------------------------- MODULE MCProbeService ---------------------------
(***************************************************************************)
(* Instances of ProbeService for TLC.                                      *)
(***************************************************************************)
EXTENDS ProbeService

CONSTANTS
    f1, f2, f3,
    MixedAsks   \* bound: tile requests in a behaviour that probes too

ThreeFields == {f1, f2, f3}
OneEach     == {<<f, 1>> : f \in Fields}
Wind        == {f1, f2}
Elements    == {f2, f3}

\* One grid at a time, and that of f3 is larger than the whole budget.
OneSmall == {{}, {f1}, {f2}}

\* A behaviour spends its requests on tiles only, or on some of each: the two
\* state spaces add up.
Mixed == callsLeft = Calls \/ budget.asks >= Asks - MixedAsks

MixedSpec == WorkerInit /\ [][WorkerNext /\ Mixed']_workerVars /\ WorkerFairness
=============================================================================
