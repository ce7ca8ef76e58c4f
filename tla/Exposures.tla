------------------------------- MODULE Exposures -------------------------------
(* What is exposed: the tunnels, the tailscale mapping, and asana's        *)
(* webhook, which is registered for the URL it is given.  They belong to   *)
(* plugins of their own, which share nothing: a behaviour runs one of      *)
(* them, and the variables of the others stay as they were.                *)
EXTENDS Exposure, Sequences

CONSTANTS
    FunnelOpens, Ports, PortOf, Off,            \* Funnel
    Hooks, Batches, DedupMax, MaxTaken, MaxLost, MaxRestarts   \* AsanaHook

VARIABLES
    which,
    mapped, operators, refCount, preExisting, port, at, misread, untidy,
    mode, pinned, window, secrets, works, accepted, hook, installed, batches, emitted,
        refused, lost, restarts

F == INSTANCE Funnel WITH Opens <- FunnelOpens
A == INSTANCE AsanaHook WITH sent <- batches

ASSUME FunnelAssumption ==
    IsFiniteSet(FunnelOpens) /\ PortOf \in [FunnelOpens -> Ports] /\ Off \notin Ports
ASSUME AsanaAssumption ==
    /\ \A b \in Batches : b \in Seq(A!Events) /\ b # <<>>
    /\ DedupMax \in Nat \ {0} /\ MaxTaken \in Nat /\ MaxLost \in Nat /\ MaxRestarts \in Nat

funnel  == <<mapped, operators, refCount, preExisting, port, at, misread, untidy>>
asana   == <<mode, pinned, window, secrets, works, accepted, hook, installed, batches, emitted,
             refused, lost, restarts>>
all     == <<which, vars, funnel, asana>>

ExposuresInit ==
    /\ which \in {"tunnel", "mapping", "asana"}
    /\ Init /\ F!Init /\ A!Init

ExposuresNext ==
    \/ which = "tunnel" /\ Next /\ UNCHANGED <<which, funnel, asana>>
    \/ which = "mapping" /\ F!Next /\ UNCHANGED <<which, vars, asana>>
    \/ which = "asana" /\ A!Next /\ UNCHANGED <<which, vars, funnel>>

ExposuresSpec == ExposuresInit /\ [][ExposuresNext]_all

-----------------------------------------------------------------------------
\* The types of all.
AllTyped == TypeOK /\ F!TypeOK /\ A!TypeOK

\* The tailscale mapping is up for whom it should be, and for no longer.
MappingKept     == /\ F!CountsHolders /\ F!NeverRetargeted
                   /\ F!OperatorsStays /\ F!LeavesNothing
OffOnlyWhenFree == F!OffOnlyWhenFree

\* asana: a process takes its secret from one handshake, refuses no delivery of a webhook
\* that it knows, emits an event again only after DedupMax others, and passes over none.
AsanaHolds == A!OneHandshake /\ A!NoneRefused /\ A!EmittedOnce /\ A!NonePassedOver
=============================================================================
