-------------------------- MODULE MCCycleDiscovery --------------------------
(***************************************************************************)
(* Instances of CycleDiscovery for TLC.                                    *)
(***************************************************************************)
EXTENDS CycleDiscovery

ThreeCycles == {1, 2, 3}
TwoHours    == {1, 2}
EmptyFeed   == [c \in Cycles |-> {}]
=============================================================================
