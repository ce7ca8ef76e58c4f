-------------------------------- MODULE Funnel --------------------------------
(***************************************************************************)
(* The tailscale mapping (connectors/tailscale/main.go: funnelOpen and     *)
(* funnelMapping).                                                         *)
(*                                                                         *)
(* `tailscale funnel --bg` maps port 443 of the box, once for all: leases  *)
(* on the same local port share the mapping, and the last of them turns it *)
(* off unless it was there before the first.  The count of leases is kept  *)
(* under a mutex; bringing the mapping up and turning it off is not.       *)
(*                                                                         *)
(* The lease itself, and that its stop runs once, is Exposure's.  The code *)
(* keeps a mapping per binary and mode (serve or funnel); this is one.     *)
(***************************************************************************)
EXTENDS Integers, FiniteSets

CONSTANTS
    Opens,          \* calls of funnel_open
    Ports,          \* local ports
    PortOf,         \* the port an open is for
    Off             \* nothing is mapped, not a port

VARIABLES
    mapped,         \* the port 443 is mapped to on the box
    operators,      \* history: the operator had it mapped to begin with
    refCount, preExisting, port,    \* funnelMapping
    at,             \* where each open is
    misread,        \* history: a status that failed was taken for none
    untidy          \* history: what the count does not tell happened

mapping == <<refCount, preExisting, port>>
vars    == <<mapped, operators, mapping, at, misread, untidy>>

Holding == {"bringing", "undoing", "naming", "held", "closing"}
Holders == {o \in Opens : at[o] \in Holding}
At(s)   == {o \in Opens : at[o] = s}

TypeOK ==
    /\ mapped \in Ports \cup {Off} /\ operators \in BOOLEAN
    /\ refCount \in Nat /\ preExisting \in BOOLEAN /\ port \in Ports \cup {Off}
    /\ at \in [Opens -> Holding \cup {"new", "ending", "over"}]
    /\ misread \in BOOLEAN /\ untidy \in BOOLEAN

Init ==
    /\ mapped \in Ports \cup {Off} /\ operators = (mapped # Off)
    /\ refCount = 0 /\ preExisting = FALSE /\ port = Off
    /\ at = [o \in Opens |-> "new"]
    /\ misread = FALSE /\ untidy = FALSE

Goes(o, s) == at' = [at EXCEPT ![o] = s]

-----------------------------------------------------------------------------
\* The first lease looks whether something is mapped, under the mutex; a status
\* that fails says nothing is.
EnterFirst(o) ==
    /\ refCount = 0 /\ port' = PortOf[o]
    /\ preExisting' \in {mapped # Off, FALSE}
    /\ misread' = (misread \/ preExisting' # (mapped # Off))
    /\ refCount' = 1 /\ Goes(o, "bringing")
    /\ untidy' = (untidy \/ At("ending") # {})

\* A later one shares its port,
EnterSharing(o) ==
    /\ refCount > 0 /\ port = PortOf[o]
    /\ refCount' = refCount + 1 /\ Goes(o, "bringing")
    /\ UNCHANGED <<preExisting, port, misread, untidy>>

\* or is refused.
EnterRefused(o) ==
    /\ refCount > 0 /\ port # PortOf[o]
    /\ Goes(o, "over") /\ UNCHANGED <<mapping, misread, untidy>>

Enter(o) ==
    /\ at[o] = "new"
    /\ EnterFirst(o) \/ EnterSharing(o) \/ EnterRefused(o)
    /\ UNCHANGED <<mapped, operators>>

\* `--bg` maps the port, or fails, and may have mapped it all the same.
BringUp(o) ==
    /\ at[o] = "bringing"
    /\ \/ mapped' = PortOf[o] /\ Goes(o, "naming")
       \/ mapped' \in {mapped, PortOf[o]} /\ Goes(o, "undoing")
    /\ UNCHANGED <<operators, mapping, misread, untidy>>

\* releaseMapping: the count alone.
ReleaseMapping(o) ==
    /\ at[o] = "undoing"
    /\ refCount' = refCount - 1 /\ Goes(o, "over")
    /\ untidy' = (untidy \/ (refCount = 1 /\ mapped # Off))
    /\ UNCHANGED <<mapped, operators, preExisting, port, misread>>

\* Its URL read and its lease added; without either it is closed like a lease.
Leased(o) ==
    /\ at[o] = "naming" /\ (Goes(o, "held") \/ Goes(o, "closing"))
    /\ UNCHANGED <<mapped, operators, mapping, misread, untidy>>

\* The lease is released.
Close(o) ==
    /\ at[o] = "held" /\ Goes(o, "closing")
    /\ UNCHANGED <<mapped, operators, mapping, misread, untidy>>

\* Seeded bug: the mapping is the operator's, and turned off all the same.
StopAlways(o) ==
    /\ at[o] = "closing"
    /\ refCount' = refCount - 1
    /\ Goes(o, IF refCount = 1 THEN "ending" ELSE "over")
    /\ UNCHANGED <<mapped, operators, preExisting, port, misread, untidy>>

\* stop: the count under the mutex; the last lease goes on to turn it off.
Stop(o) ==
    /\ at[o] = "closing"
    /\ refCount' = refCount - 1
    /\ Goes(o, IF refCount = 1 /\ ~preExisting THEN "ending" ELSE "over")
    /\ UNCHANGED <<mapped, operators, preExisting, port, misread, untidy>>

\* Without the mutex: `--https=443 off`, whose failure is ignored.
TurnOff(o) ==
    /\ at[o] = "ending" /\ Goes(o, "over")
    /\ \/ mapped' = Off /\ UNCHANGED untidy
       \/ untidy' = TRUE /\ UNCHANGED mapped
    /\ UNCHANGED <<operators, mapping, misread>>

Next == \E o \in Opens : \/ Enter(o) \/ BringUp(o) \/ ReleaseMapping(o) \/ Leased(o)
                         \/ Close(o) \/ Stop(o) \/ TurnOff(o)

Spec == Init /\ [][Next]_vars

-----------------------------------------------------------------------------
\* The count is that of the opens which hold the mapping (main.go, releaseMapping
\* and stop: the same last-lease accounting on every path).
CountsHolders == refCount = Cardinality(Holders)

\* A lease's mapping is never silently retargeted: every holder has the port the
\* mapping remembers, and a held lease's port is what 443 maps to, unless it is
\* off (main.go, funnelOpen: a different port is refused outright).
NeverRetargeted ==
    /\ \A o \in Holders : PortOf[o] = port
    /\ \A o \in At("held") : mapped \in {PortOf[o], Off}

\* A mapping that was there before the first lease is never turned off, though
\* leases come and go, unless a status failed (main.go, funnelMapping: off must
\* never clobber that).
OperatorsStays == (operators /\ ~misread) => mapped # Off

\* What this plugin mapped is off when nobody holds it or is at it, unless the
\* last `--bg` failed, an off did, or an open came while one was under way
\* (main.go, stop: the last lease tears the real mapping down).
LeavesNothing ==
    (Holders \cup At("ending") = {} /\ ~operators /\ ~untidy) => mapped = Off

\* The mapping is never turned off while a lease on it is live, even when no
\* status fails (main.go, funnelOpen: off must never run while any lease on this
\* mapping is still live).
OffOnlyWhenFree ==
    [][(mapped # Off /\ mapped' = Off /\ ~misread) => At("held") = {}]_vars
=============================================================================
