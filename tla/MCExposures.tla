---------------------------- MODULE MCExposures ----------------------------
(* Exposures on small sets, with what it takes for their promises of       *)
(* something that happens in the end.                                      *)
EXTENDS Exposures

CONSTANTS o1, o2, o3, c1, c2

OneInstance == [o \in Opens |-> "i"]

\* The third open is for a port of its own.
TwoPorts == [o \in FunnelOpens |-> IF o = o3 THEN 2 ELSE 1]

\* A delivery of three events, and one that brings the first again.
TwoBatches == {<<1, 2, 3>>, <<1>>}

\* The variables of the others start at one value.
MCInit == /\ ExposuresInit
          /\ which # "mapping" => mapped = Off
          /\ which # "asana" => mode = "never"

MCSpec ==
    /\ MCInit /\ [][ExposuresNext]_all /\ Fairness
    /\ \A g \in 1..MaxTaken : WF_asana(which = "asana" /\ (A!Let(g) \/ A!Emit(g)))

\* asana: a process passes over no event of a delivery that it took.
HandledIsEmitted == A!HandledIsEmitted

\* Opens return, and what is released ends.
CallsReturn == OpensReturn /\ ReleasedEnds
=============================================================================
