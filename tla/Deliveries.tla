------------------------------ MODULE Deliveries ------------------------------
(* The deliveries of GitHub, and the webhooks of the other connectors      *)
(* beside them.  They belong to plugins of their own, which share nothing: *)
(* a behaviour runs one of the two, and the variables of the other stay as *)
(* they were.                                                              *)
EXTENDS Delivery

CONSTANTS HookMax, MaxSent, MaxCopies, MaxSeconds, MaxBoots     \* Webhooks

ASSUME HookBounds ==
    /\ HookMax \in Nat /\ MaxSent \in Nat /\ MaxCopies \in Nat
    /\ MaxSeconds \in Nat /\ MaxBoots \in Nat

VARIABLES which, rule, sent, copies, second, accepted, held, emitted, told, dropped, boots

H == INSTANCE Webhooks WITH Max <- HookMax, runs <- emitted

webhook == <<rule, sent, copies, second, accepted, held, emitted, told, dropped, boots>>
all     == <<which, vars, webhook>>

DeliveriesInit == which \in {"github", "webhook"} /\ Init /\ H!Init

DeliveriesNext ==
    \/ which = "github" /\ Next /\ UNCHANGED <<which, webhook>>
    \/ which = "webhook" /\ H!Next /\ UNCHANGED <<which, vars>>

DeliveriesSpec == DeliveriesInit /\ [][DeliveriesNext]_all

-----------------------------------------------------------------------------
\* The types of both.
AllTyped == TypeOK /\ H!TypeOK

\* Webhooks: a process emits an occurrence once, and drops only what its key takes for something
\* that was told.
EmittedOnce      == H!EmittedOnce
DropsAreLikeTold == H!DropsAreLikeTold
=============================================================================
