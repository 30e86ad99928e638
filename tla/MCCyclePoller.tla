---------------------------- MODULE MCCyclePoller ----------------------------
(***************************************************************************)
(* Instances of CyclePoller for TLC.                                       *)
(***************************************************************************)
EXTENDS CyclePoller

CONSTANTS w1, w2

OneWorker  == {w1}
TwoWorkers == {w1, w2}
SecondOnly == {w2}
Nobody     == {}

TwoCycles  == {1, 2}
TwoHours   == {1, 2}

EmptyFeed   == [c \in Cycles |-> {}]
FirstPosted == [c \in Cycles |-> IF c = 1 THEN Hours ELSE {}]

TickOnly   == {Tick}
TickNow    == {Tick, Immediate}
TickLive   == {Tick, <<"live", 1>>}
TickManual == {Tick, <<"manual", 1>>}

ProbeCacheCrash == {"probe", "cache", "crash"}
TileBounds      == {"tile", "bounds"}
ProbeOnly       == {"probe"}
OneHour         == {1}
NoFailures      == {}
=============================================================================
