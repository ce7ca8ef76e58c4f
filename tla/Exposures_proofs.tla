--------------------------- MODULE Exposures_proofs ---------------------------
(***************************************************************************)
(* The proofs about what is exposed: the tunnels of the exposure kit, the  *)
(* tailscale mapping and asana's webhook.  A lemma for each kind of step   *)
(* says that it keeps the inductive invariant of its module; what a module *)
(* keeps, a behaviour of all keeps.                                        *)
(***************************************************************************)
EXTENDS Exposures, FiniteSetTheorems, TLAPS

(* The tunnels (Exposure). *)

(* Where an open stands says how far its stop has come and what its process is. *)
Fresh(o)   == pc[o] \in {"new", "scanning", "adding"} => stop[o] = "no"
Unborn(o)  == pc[o] = "new" => proc[o] = "none"
Tabled(o)  == o \in table => stop[o] = "no"
Stopped(o) == stop[o] \in {"waiting", "done"} => proc[o] # "alive"
Failed(o)  == pc[o] = "failed" => \/ proc[o] = "none" /\ stop[o] = "no"
                                  \/ stop[o] = "done"

(* A lease out of the table is being stopped by a closer, or has been. *)
Untabled(o) ==
    (pc[o] = "leased" /\ o \notin table) => \/ stop[o] = "done"
                                           \/ \E c \in Closers : current[c] = o
Taken(c) ==
    current[c] # Nobody => /\ pc[current[c]] = "leased" /\ current[c] \notin table
                           /\ stop[current[c]] # "no"

Stands(o) == Fresh(o) /\ Unborn(o) /\ Tabled(o) /\ Stopped(o) /\ Failed(o) /\ Untabled(o)

IInv ==
    /\ TypeOK
    /\ \A o \in Opens : Stands(o)
    /\ \A c \in Closers : Taken(c)
    /\ OneStopper

-----------------------------------------------------------------------------
LEMMA InitInv == Init => IInv
BY CallAssumption, BoundAssumption
   DEF Init, IInv, TypeOK, Stands, Fresh, Unborn, Tabled, Stopped, Failed, Untabled, Taken, OneStopper

(* The types survive every step. *)
LEMMA TypeStep == TypeOK /\ [Next]_vars => TypeOK'
<1> SUFFICES ASSUME TypeOK, [Next]_vars PROVE TypeOK'
    OBVIOUS
<1> USE CallAssumption, BoundAssumption DEF TypeOK
<1>1. ASSUME NEW o \in Opens, Start(o) \/ Found(o) \/ Serving(o) PROVE TypeOK'
    <2>1. CASE Start(o)
        BY <2>1 DEF Start, closing
    <2>2. CASE Found(o) \/ TimeOut(o) \/ Undone(o)
        BY <2>2 DEF Found, TimeOut, Undone, process, closing
    <2>3. CASE AddCapped(o)
        BY <2>3 DEF AddCapped, process, closing
    <2> QED BY <1>1, <2>1, <2>2, <2>3 DEF Serving
<1>2. ASSUME NEW o \in Opens, Stopping(o) PROVE TypeOK'
    <2>1. CASE KillIfRunning(o)
        BY <2>1 DEF KillIfRunning, KillProcessGroup, closing
    <2>2. CASE Cancel(o)
        BY <2>2 DEF Cancel, closing
    <2>3. CASE AwaitReaped(o)
        BY <2>3 DEF AwaitReaped, process, closing
    <2> QED BY <1>2, <2>1, <2>2, <2>3 DEF Stopping
<1>3. ASSUME NEW o \in Opens, Reaping(o) \/ Crash(o) PROVE TypeOK'
    <2>1. CASE Reap(o)
        BY <2>1 DEF Reap, closing
    <2>2. CASE Record(o)
        BY <2>2 DEF Record, process, closing
    <2>3. CASE Crash(o)
        <3>1. PICK left \in {helper[o], FALSE} : helper' = [helper EXCEPT ![o] = left]
            BY <2>3 DEF Crash
        <3>2. left \in BOOLEAN
            BY <3>1
        <3>3. helper' \in [Opens -> BOOLEAN]
            BY <3>1, <3>2
        <3>4. /\ proc' = [proc EXCEPT ![o] = "zombie"] /\ crashed' = [crashed EXCEPT ![o] = TRUE]
              /\ UNCHANGED <<pc, exited, stop, table, todo, current, calls>>
            BY <2>3 DEF Crash, closing
        <3> QED BY <3>3, <3>4
    <2> QED BY <1>3, <2>1, <2>2, <2>3 DEF Reaping
<1>4. ASSUME NEW c \in Closers, NEW o \in Opens, Release(c, o) PROVE TypeOK'
    BY <1>4 DEF Release, process
<1>5. ASSUME NEW c \in Closers, Released(c) PROVE TypeOK'
    BY <1>5 DEF Released, process
<1>6. ASSUME NEW c \in Closers, NEW leases \in SUBSET Opens, Call(c, leases) PROVE TypeOK'
    BY <1>6 DEF Call, process
<1>7. CASE UNCHANGED vars
    BY <1>7 DEF vars, process, closing
<1> QED
    <2>1. ASSUME NEW c \in Closers, ReleaseAll(c) PROVE TypeOK'
        BY <2>1, <1>6 DEF ReleaseAll
    <2>2. ASSUME NEW c \in Closers, NEW i \in Instances, StopInstance(c, i) PROVE TypeOK'
        BY <2>2, <1>6 DEF StopInstance, HeldBy
    <2>3. ASSUME NEW c \in Closers, NEW o \in Opens, Close(c, o) PROVE TypeOK'
        BY <2>3, <1>6 DEF Close
    <2> QED BY <1>1, <1>2, <1>3, <1>4, <1>5, <1>7, <2>1, <2>2, <2>3 DEF Next, Closing

(* A call only looks leases up. *)
LEMMA CallStep ==
    ASSUME IInv, NEW c \in Closers, NEW leases, Call(c, leases), TypeOK'
    PROVE  IInv'
BY DEF IInv, Call, process, Stands, Fresh, Unborn, Tabled, Stopped, Failed, Untabled, Taken, OneStopper

LEMMA InvStep == IInv /\ [Next]_vars => IInv'
<1> SUFFICES ASSUME IInv, [Next]_vars PROVE IInv'
    OBVIOUS
<1>0. TypeOK /\ TypeOK'
    BY TypeStep DEF IInv
<1>d. \A o \in Opens : o # Nobody
    BY CallAssumption
<1> USE <1>0, <1>d DEF IInv, Stands, Fresh, Unborn, Tabled, Stopped, Failed, Untabled, Taken, OneStopper
<1>1. ASSUME NEW o \in Opens, Start(o) PROVE IInv'
    BY <1>1 DEF Start, TypeOK, closing
<1>2. ASSUME NEW o \in Opens, Found(o) \/ TimeOut(o) \/ Undone(o) PROVE IInv'
    BY <1>2 DEF Found, TimeOut, Undone, TypeOK, process, closing
<1>3. ASSUME NEW o \in Opens, AddCapped(o) PROVE IInv'
    BY <1>3 DEF AddCapped, TypeOK, process, closing
<1>4. ASSUME NEW o \in Opens, Stopping(o) PROVE IInv'
    <2>1. CASE KillIfRunning(o)
        <3>1. UNCHANGED <<pc, table, current, crashed, exited, todo, calls>>
            BY <2>1 DEF KillIfRunning, closing
        <3>2. stop[o] = "killing" /\ stop' = [stop EXCEPT ![o] = "cancelling"]
            BY <2>1 DEF KillIfRunning
        <3>3. proc' = proc \/ proc' = [proc EXCEPT ![o] = "zombie"]
            BY <2>1 DEF KillIfRunning, KillProcessGroup
        <3>4. pc[o] \notin {"new", "scanning", "adding"} /\ o \notin table
            BY <3>2
        <3>5. \A p \in Opens : p # o => stop'[p] = stop[p] /\ proc'[p] = proc[p]
            BY <3>2, <3>3 DEF TypeOK
        <3>6. stop'[o] = "cancelling" /\ stop[o] = "killing"
            BY <3>2 DEF TypeOK
        <3>7. \A p \in Opens : Stands(p)'
            <4> SUFFICES ASSUME NEW p \in Opens PROVE Stands(p)'
                OBVIOUS
            <4>1. CASE p = o
                BY <4>1, <3>1, <3>4, <3>6
            <4>2. CASE p # o
                BY <4>2, <3>1, <3>5
            <4> QED BY <4>1, <4>2
        <3>8. \A c \in Closers : Taken(c)'
            BY <3>1, <3>5, <3>6 DEF TypeOK
        <3> QED BY <3>1, <3>7, <3>8
    <2>2. CASE Cancel(o)
        BY <2>2 DEF Cancel, TypeOK, closing
    <2>3. CASE AwaitReaped(o)
        BY <2>3 DEF AwaitReaped, TypeOK, process, closing
    <2> QED BY <1>4, <2>1, <2>2, <2>3 DEF Stopping
<1>5. ASSUME NEW o \in Opens, Reaping(o) \/ Crash(o) PROVE IInv'
    BY <1>5 DEF Reaping, Reap, Record, Crash, TypeOK, process, closing
<1>6. ASSUME NEW c \in Closers, NEW o \in Opens, Release(c, o) PROVE IInv'
    BY <1>6 DEF Release, TypeOK, process
<1>7. ASSUME NEW c \in Closers, Released(c) PROVE IInv'
    BY <1>7 DEF Released, TypeOK, process
<1>8. CASE UNCHANGED vars
    BY <1>8 DEF vars, process, closing
<1> QED BY <1>1, <1>2, <1>3, <1>4, <1>5, <1>6, <1>7, <1>8, CallStep, TypeStep
        DEF Next, Serving, Closing, ReleaseAll, StopInstance, Close

-----------------------------------------------------------------------------
(* Until the kill a process is dead only if it crashed; after it a helper is left only
   of one that did. *)
DiedByItself(o) == (stop[o] \in {"no", "killing"} /\ proc[o] \in {"zombie", "reaped"}) => crashed[o]
ExitRecorded(o) == exited[o] => proc[o] = "reaped"
HelperKilled(o) == (stop[o] \in {"cancelling", "waiting", "done"} /\ ~crashed[o]) => ~helper[o]
HInv == \A o \in Opens : DiedByItself(o) /\ ExitRecorded(o) /\ HelperKilled(o)

LEMMA HelperStep == ASSUME IInv, HInv, [Next]_vars PROVE HInv'
<1> USE DEF HInv, DiedByItself, ExitRecorded, HelperKilled
<1>t. TypeOK
    BY DEF IInv
<1>f. \A o \in Opens : Fresh(o) /\ Unborn(o) /\ Tabled(o)
    BY DEF IInv, Stands
<1>1. ASSUME NEW o \in Opens, Start(o) PROVE HInv'
    BY <1>1, <1>t, <1>f DEF Start, TypeOK, Fresh, Unborn, closing
<1>2. ASSUME NEW o \in Opens, Found(o) \/ TimeOut(o) \/ AddCapped(o) \/ Undone(o) PROVE HInv'
    BY <1>2, <1>t, <1>f DEF Found, TimeOut, AddCapped, Undone, TypeOK, Fresh, process, closing
<1>3. ASSUME NEW o \in Opens, KillIfRunning(o) PROVE HInv'
    <2>1. /\ stop[o] = "killing" /\ stop' = [stop EXCEPT ![o] = "cancelling"]
          /\ UNCHANGED <<crashed, exited>>
        BY <1>3 DEF KillIfRunning, closing
    <2>2. \A p \in Opens \ {o} : stop'[p] = stop[p] /\ proc'[p] = proc[p] /\ helper'[p] = helper[p]
        BY <1>3, <1>t, <2>1 DEF KillIfRunning, KillProcessGroup, TypeOK
    <2>3. \/ proc[o] = "reaped" /\ crashed[o] /\ proc'[o] = "reaped"
          \/ proc[o] # "reaped" /\ ~exited[o] /\ ~helper'[o]
        BY <1>3, <1>t, <2>1 DEF KillIfRunning, KillProcessGroup, TypeOK
    <2>4. stop'[o] = "cancelling"
        BY <1>t, <2>1 DEF TypeOK
    <2> QED BY <2>1, <2>2, <2>3, <2>4
<1>4. ASSUME NEW o \in Opens, Cancel(o) \/ AwaitReaped(o) PROVE HInv'
    BY <1>4, <1>t DEF Cancel, AwaitReaped, TypeOK, process, closing
<1>5. ASSUME NEW o \in Opens, Reaping(o) PROVE HInv'
    BY <1>5, <1>t DEF Reaping, Reap, Record, TypeOK, process, closing
<1>6. ASSUME NEW o \in Opens, Crash(o) PROVE HInv'
    BY <1>6, <1>t DEF Crash, TypeOK, closing
<1>7. ASSUME NEW c \in Closers, NEW o \in Opens, Release(c, o) PROVE HInv'
    BY <1>7, <1>t, <1>f DEF Release, TypeOK, Tabled, process
<1>8. ASSUME UNCHANGED <<process, exited, stop>> PROVE HInv'
    BY <1>8 DEF process
<1> QED BY <1>1, <1>2, <1>3, <1>4, <1>5, <1>6, <1>7, <1>8
        DEF Next, Serving, Stopping, Closing, Released, Close, StopInstance, ReleaseAll, Call, vars, process

-----------------------------------------------------------------------------
LEMMA HeldFinite == TypeOK => \A i : IsFiniteSet(HeldBy(i)) /\ Cardinality(HeldBy(i)) \in Nat
<1> SUFFICES ASSUME TypeOK, NEW i
             PROVE  IsFiniteSet(HeldBy(i)) /\ Cardinality(HeldBy(i)) \in Nat
    OBVIOUS
<1>1. HeldBy(i) \subseteq Opens
    BY DEF HeldBy, TypeOK
<1>2. IsFiniteSet(HeldBy(i))
    BY <1>1, CallAssumption, FS_Subset
<1> QED BY <1>2, FS_CardinalityType

(* A table that loses leases or keeps them keeps to the cap. *)
LEMMA CapShrinks ==
    ASSUME TypeOK, CapHolds, table' \subseteq table
    PROVE  CapHolds'
<1> SUFFICES ASSUME NEW i \in Instances PROVE Cardinality(HeldBy(i)') <= Max
    BY DEF CapHolds
<1>1. HeldBy(i)' \subseteq HeldBy(i)
    BY DEF HeldBy
<1>2. Cardinality(HeldBy(i)') <= Cardinality(HeldBy(i)) /\ Cardinality(HeldBy(i)') \in Nat
    BY <1>1, HeldFinite, FS_Subset, FS_CardinalityType
<1> QED BY <1>2, HeldFinite, BoundAssumption DEF CapHolds

LEMMA CapStep == TypeOK /\ CapHolds /\ [Next]_vars => CapHolds'
<1> SUFFICES ASSUME TypeOK, CapHolds, [Next]_vars PROVE CapHolds'
    OBVIOUS
<1>1. ASSUME NEW o \in Opens, AddCapped(o) PROVE CapHolds'
    <2>1. CASE Cardinality(HeldBy(InstanceOf[o])) < Max
        <3> SUFFICES ASSUME NEW i \in Instances PROVE Cardinality(HeldBy(i)') <= Max
            BY DEF CapHolds
        <3>1. table' = table \cup {o}
            BY <1>1, <2>1 DEF AddCapped
        <3>2. CASE InstanceOf[o] = i
            <4>1. HeldBy(i)' = HeldBy(i) \cup {o}
                BY <3>1, <3>2 DEF HeldBy
            <4>2. IsFiniteSet(HeldBy(i)) /\ Cardinality(HeldBy(i)) \in Nat
                BY HeldFinite
            <4>3. Cardinality(HeldBy(i) \cup {o}) \in
                      {Cardinality(HeldBy(i)), Cardinality(HeldBy(i)) + 1}
                BY <4>2, FS_AddElement, Zenon
            <4>4. Cardinality(HeldBy(i)) < Max
                BY <2>1, <3>2
            <4> QED BY <4>1, <4>2, <4>3, <4>4, BoundAssumption
        <3>3. CASE InstanceOf[o] # i
            <4>1. HeldBy(i)' = HeldBy(i)
                BY <3>1, <3>3 DEF HeldBy
            <4> QED BY <4>1 DEF CapHolds
        <3> QED BY <3>2, <3>3
    <2>2. CASE ~(Cardinality(HeldBy(InstanceOf[o])) < Max)
        BY <1>1, <2>2, CapShrinks DEF AddCapped
    <2> QED BY <2>1, <2>2
<1>2. ASSUME ~ \E o \in Opens : AddCapped(o) PROVE table' \subseteq table
    BY <1>2 DEF Next, vars, process, closing, Serving, Stopping, Reaping, Closing, Start, Found, TimeOut,
        Undone, KillIfRunning, Cancel, AwaitReaped, Reap, Record, Crash, Release, Released, Call, Close,
        StopInstance, ReleaseAll
<1> QED BY <1>1, <1>2, CapShrinks

-----------------------------------------------------------------------------
\* Both modules count as FiniteSets does.
LEMMA SameCount == \A S : F!Cardinality(S) = Cardinality(S) /\ A!Cardinality(S) = Cardinality(S)
BY DEF Cardinality, F!Cardinality, A!Cardinality

(* The tailscale mapping (Funnel). *)

States == F!Holding \cup {"new", "ending", "over"}

\* What has the port mapped for itself, or the operator: nobody turns it off behind them.
Mapped ==
    /\ \A o \in F!At("naming") \cup F!At("held") : mapped \in {PortOf[o], Off}
    /\ (operators /\ ~misread) => /\ mapped # Off /\ F!At("ending") = {}
                                  /\ F!Holders # {} => preExisting
    /\ (~operators /\ ~untidy) => /\ F!Holders \cup F!At("ending") = {} => mapped = Off
                                  /\ F!Holders # {} => ~preExisting /\ F!At("ending") = {}
SharePort == \A o \in F!Holders : PortOf[o] = port
FunnelInv == F!TypeOK /\ F!CountsHolders /\ SharePort /\ Mapped

LEMMA HoldersFinite == IsFiniteSet(F!Holders)
BY FunnelAssumption, FS_Subset DEF F!Holders

\* The count of holders when one comes,
LEMMA HolderComes ==
    ASSUME FunnelInv, NEW o \in FunnelOpens, at[o] \notin F!Holding, NEW s \in F!Holding, F!Goes(o, s)
    PROVE  F!Holders' = F!Holders \cup {o} /\ Cardinality(F!Holders') = refCount + 1
<1>1. F!Holders' = F!Holders \cup {o} /\ o \notin F!Holders
  BY DEF F!Holders, F!Goes, FunnelInv, F!TypeOK
<1> QED BY SameCount, <1>1, HoldersFinite, FS_AddElement DEF FunnelInv, F!CountsHolders

\* goes,
LEMMA HolderGoes ==
    ASSUME FunnelInv, NEW o \in FunnelOpens, at[o] \in F!Holding, NEW s \in States \ F!Holding, F!Goes(o, s)
    PROVE  /\ F!Holders' = F!Holders \ {o} /\ Cardinality(F!Holders') = refCount - 1
           /\ refCount \in Nat \ {0}
           /\ refCount = 1 => F!Holders' = {}
<1>1. F!Holders' = F!Holders \ {o} /\ o \in F!Holders
  BY DEF F!Holders, F!Goes, FunnelInv, F!TypeOK
<1>2. Cardinality(F!Holders') = refCount - 1 /\ refCount \in Nat \ {0} /\ IsFiniteSet(F!Holders')
  BY SameCount, <1>1, HoldersFinite, FS_RemoveElement, FS_CardinalityType, FS_EmptySet DEF FunnelInv, F!CountsHolders, F!TypeOK
<1> QED BY <1>1, <1>2, FS_EmptySet

\* or stays one.
LEMMA HolderStays ==
    ASSUME FunnelInv, NEW o \in FunnelOpens, NEW s \in States, F!Goes(o, s), at[o] \in F!Holding <=> s \in F!Holding
    PROVE  F!Holders' = F!Holders
BY DEF F!Holders, F!Goes, FunnelInv, F!TypeOK

LEMMA NoHolders == ASSUME FunnelInv, refCount = 0 PROVE F!Holders = {}
BY SameCount, HoldersFinite, FS_EmptySet DEF FunnelInv, F!CountsHolders

LEMMA FunnelInitInv == F!Init => FunnelInv
<1> SUFFICES ASSUME F!Init PROVE FunnelInv
  OBVIOUS
<1>1. F!Holders = {} /\ F!At("ending") = {} /\ F!At("naming") = {} /\ F!At("held") = {}
  BY DEF F!Init, F!Holders, F!At, F!Holding
<1> QED BY SameCount, <1>1, FS_EmptySet DEF F!Init, FunnelInv, F!TypeOK, F!CountsHolders, SharePort, Mapped

LEMMA EnterInv == ASSUME FunnelInv, NEW o \in FunnelOpens, F!Enter(o) PROVE FunnelInv'
<1> USE FunnelAssumption DEF States, F!Holding
<1>0. at[o] = "new" /\ UNCHANGED <<mapped, operators>> /\ PortOf[o] \in Ports
  BY DEF F!Enter
<1>1. ASSUME F!EnterFirst(o) PROVE FunnelInv'
  <2>1. F!Holders = {} /\ F!Holders' = {o} /\ Cardinality(F!Holders') = refCount + 1
    BY <1>0, <1>1, NoHolders, HolderComes DEF F!EnterFirst
  <2>2. F!At("naming") \cup F!At("held") = {} /\ (F!At("naming") \cup F!At("held"))' = {} /\ F!At("ending")' = F!At("ending")
    BY <1>0, <1>1, <2>1 DEF F!At, F!Holders, F!EnterFirst, F!Goes, FunnelInv, F!TypeOK
  <2>3. F!TypeOK'
    BY <1>0, <1>1 DEF FunnelInv, F!TypeOK, F!EnterFirst, F!Goes, F!At
  <2>4. F!CountsHolders' /\ SharePort'
    BY SameCount, <1>0, <1>1, <2>1 DEF F!CountsHolders, SharePort, F!EnterFirst
  <2>5. Mapped'
    BY <1>0, <1>1, <2>1, <2>2 DEF FunnelInv, F!TypeOK, Mapped, F!EnterFirst
  <2> QED BY <2>3, <2>4, <2>5 DEF FunnelInv
<1>2. ASSUME F!EnterSharing(o) PROVE FunnelInv'
  <2>1. F!Holders' = F!Holders \cup {o} /\ Cardinality(F!Holders') = refCount + 1 /\ F!Holders # {}
    <3>1. F!Holders' = F!Holders \cup {o} /\ Cardinality(F!Holders') = refCount + 1
      BY <1>0, <1>2, HolderComes DEF F!EnterSharing
    <3>2. F!Holders # {}
      BY SameCount, <1>2, FS_EmptySet DEF FunnelInv, F!CountsHolders, F!EnterSharing
    <3> QED BY <3>1, <3>2
  <2>2. \A s \in {"naming", "held", "ending"} : F!At(s)' = F!At(s)
    BY <1>0, <1>2 DEF F!At, F!EnterSharing, F!Goes, FunnelInv, F!TypeOK
  <2>3. F!TypeOK'
    BY <1>0, <1>2 DEF FunnelInv, F!TypeOK, F!EnterSharing, F!Goes
  <2>4. F!CountsHolders' /\ SharePort'
    BY SameCount, <1>0, <1>2, <2>1 DEF FunnelInv, F!CountsHolders, SharePort, F!EnterSharing
  <2>5. Mapped'
    BY <1>0, <1>2, <2>1, <2>2 DEF FunnelInv, Mapped, F!EnterSharing
  <2> QED BY <2>3, <2>4, <2>5 DEF FunnelInv
<1>3. ASSUME F!EnterRefused(o) PROVE FunnelInv'
  <2>1. F!Holders' = F!Holders /\ \A s \in {"naming", "held", "ending"} : F!At(s)' = F!At(s)
    <3>1. F!Holders' = F!Holders
      BY <1>0, <1>3, HolderStays DEF F!EnterRefused
    <3>2. \A s \in {"naming", "held", "ending"} : F!At(s)' = F!At(s)
      BY <1>0, <1>3 DEF F!At, F!EnterRefused, F!Goes, FunnelInv, F!TypeOK
    <3> QED BY <3>1, <3>2
  <2>2. F!TypeOK'
    BY <1>0, <1>3 DEF FunnelInv, F!TypeOK, F!EnterRefused, F!Goes, F!mapping
  <2>3. F!CountsHolders' /\ SharePort' /\ Mapped'
    BY SameCount, <1>0, <1>3, <2>1 DEF FunnelInv, F!CountsHolders, SharePort, Mapped, F!EnterRefused, F!mapping
  <2> QED BY <2>2, <2>3 DEF FunnelInv
<1> QED BY <1>1, <1>2, <1>3 DEF F!Enter

LEMMA BringUpInv == ASSUME FunnelInv, NEW o \in FunnelOpens, F!BringUp(o) PROVE FunnelInv'
<1> USE FunnelAssumption DEF States, F!Holding
<1>0. /\ at[o] = "bringing" /\ UNCHANGED <<operators, F!mapping, misread, untidy>>
      /\ PortOf[o] \in Ports /\ mapped' \in {mapped, PortOf[o]}
      /\ (F!Goes(o, "naming") /\ mapped' = PortOf[o]) \/ F!Goes(o, "undoing")
  BY DEF F!BringUp
<1>1. F!Holders' = F!Holders /\ o \in F!Holders
  BY <1>0, HolderStays DEF F!Holders
<1>2. F!At("ending")' = F!At("ending")
  BY <1>0 DEF F!At, F!Goes, FunnelInv, F!TypeOK
<1>3. F!TypeOK'
  BY <1>0 DEF FunnelInv, F!TypeOK, F!Goes, F!mapping
<1>4. F!CountsHolders' /\ SharePort'
  BY SameCount, <1>0, <1>1 DEF FunnelInv, F!CountsHolders, SharePort, F!mapping
<1>5. Mapped'
  <2>1. ASSUME NEW p \in (F!At("naming") \cup F!At("held"))' PROVE mapped' \in {PortOf[p], Off}
    <3>1. CASE p = o
      BY <1>0, <2>1, <3>1 DEF F!At, F!Goes, FunnelInv, F!TypeOK
    <3>2. CASE p # o
      <4>1. p \in F!At("naming") \cup F!At("held") /\ p \in F!Holders
        BY <1>0, <2>1, <3>2 DEF F!At, F!Goes, FunnelInv, F!TypeOK, F!Holders
      <4>2. PortOf[p] = PortOf[o] /\ mapped \in {PortOf[p], Off}
        BY <4>1, <1>1 DEF FunnelInv, SharePort, Mapped
      <4> QED BY <4>2, <1>0
    <3> QED BY <3>1, <3>2
  <2> QED BY <2>1, <1>0, <1>1, <1>2 DEF FunnelInv, Mapped, F!mapping
<1> QED BY <1>3, <1>4, <1>5 DEF FunnelInv

LEMMA ReleaseInv == ASSUME FunnelInv, NEW o \in FunnelOpens, F!ReleaseMapping(o) PROVE FunnelInv'
<1> USE FunnelAssumption DEF States, F!Holding
<1>0. /\ at[o] = "undoing" /\ refCount' = refCount - 1 /\ F!Goes(o, "over")
      /\ untidy' = (untidy \/ (refCount = 1 /\ mapped # Off))
      /\ UNCHANGED <<mapped, operators, preExisting, port, misread>>
  BY DEF F!ReleaseMapping
<1>1. /\ F!Holders' = F!Holders \ {o} /\ Cardinality(F!Holders') = refCount - 1 /\ refCount \in Nat \ {0}
      /\ o \in F!Holders
  BY <1>0, HolderGoes DEF F!Holders
<1>2. \A s \in {"naming", "held", "ending"} : F!At(s)' = F!At(s)
  BY <1>0 DEF F!At, F!Goes, FunnelInv, F!TypeOK
<1>3. F!TypeOK'
  BY <1>0, <1>1 DEF FunnelInv, F!TypeOK, F!Goes
<1>4. F!CountsHolders' /\ SharePort'
  BY SameCount, <1>0, <1>1 DEF FunnelInv, F!CountsHolders, SharePort
<1>5. F!Holders' = {} => refCount = 1
  BY <1>1, FS_EmptySet
<1>6. Mapped'
  BY <1>0, <1>1, <1>2, <1>5 DEF FunnelInv, F!TypeOK, Mapped
<1> QED BY <1>3, <1>4, <1>6 DEF FunnelInv

LEMMA LeasedInv == ASSUME FunnelInv, NEW o \in FunnelOpens, F!Leased(o) \/ F!Close(o) PROVE FunnelInv'
<1> USE FunnelAssumption DEF States, F!Holding
<1>0. /\ at[o] \in {"naming", "held"} /\ UNCHANGED <<mapped, operators, F!mapping, misread, untidy>>
      /\ F!Goes(o, "held") \/ F!Goes(o, "closing")
  BY DEF F!Leased, F!Close
<1>1. F!Holders' = F!Holders
  BY <1>0, HolderStays
<1>2. F!At("ending")' = F!At("ending") /\ (F!At("naming") \cup F!At("held"))' \subseteq F!At("naming") \cup F!At("held")
  BY <1>0 DEF F!At, F!Goes, FunnelInv, F!TypeOK
<1>3. F!TypeOK'
  BY <1>0 DEF FunnelInv, F!TypeOK, F!Goes, F!mapping
<1> QED BY SameCount, <1>0, <1>1, <1>2, <1>3 DEF FunnelInv, F!CountsHolders, SharePort, Mapped, F!mapping

LEMMA StopInv == ASSUME FunnelInv, NEW o \in FunnelOpens, F!Stop(o) PROVE FunnelInv'
<1> USE FunnelAssumption DEF States, F!Holding
<1>0. /\ at[o] = "closing" /\ refCount' = refCount - 1
      /\ F!Goes(o, IF refCount = 1 /\ ~preExisting THEN "ending" ELSE "over")
      /\ UNCHANGED <<mapped, operators, preExisting, port, misread, untidy>>
  BY DEF F!Stop
<1>1. /\ F!Holders' = F!Holders \ {o} /\ Cardinality(F!Holders') = refCount - 1 /\ refCount \in Nat \ {0}
      /\ o \in F!Holders /\ (refCount = 1 => F!Holders' = {})
  BY <1>0, HolderGoes DEF F!Holders
<1>2. /\ \A s \in {"naming", "held"} : F!At(s)' = F!At(s)
      /\ F!At("ending")' = IF refCount = 1 /\ ~preExisting THEN F!At("ending") \cup {o} ELSE F!At("ending")
  BY <1>0 DEF F!At, F!Goes, FunnelInv, F!TypeOK
<1>3. F!TypeOK'
  BY <1>0, <1>1 DEF FunnelInv, F!TypeOK, F!Goes
<1>4. F!CountsHolders' /\ SharePort'
  BY SameCount, <1>0, <1>1 DEF FunnelInv, F!CountsHolders, SharePort
<1>5. F!Holders' = {} => refCount = 1
  BY <1>1, FS_EmptySet
<1>6. Mapped'
  BY <1>0, <1>1, <1>2, <1>5 DEF FunnelInv, F!TypeOK, Mapped
<1> QED BY <1>3, <1>4, <1>6 DEF FunnelInv

LEMMA TurnOffInv == ASSUME FunnelInv, NEW o \in FunnelOpens, F!TurnOff(o) PROVE FunnelInv'
<1> USE FunnelAssumption DEF States, F!Holding
<1>0. /\ at[o] = "ending" /\ F!Goes(o, "over") /\ UNCHANGED <<operators, F!mapping, misread>>
      /\ \/ mapped' = Off /\ UNCHANGED untidy
         \/ untidy' = TRUE /\ UNCHANGED mapped
  BY DEF F!TurnOff
<1>1. F!Holders' = F!Holders
  BY <1>0, HolderStays
<1>2. /\ \A s \in {"naming", "held"} : F!At(s)' = F!At(s)
      /\ F!At("ending")' = F!At("ending") \ {o} /\ o \in F!At("ending")
  BY <1>0 DEF F!At, F!Goes, FunnelInv, F!TypeOK
<1>3. F!TypeOK'
  BY <1>0 DEF FunnelInv, F!TypeOK, F!Goes, F!mapping
<1> QED BY SameCount, <1>0, <1>1, <1>2, <1>3 DEF FunnelInv, F!CountsHolders, SharePort, Mapped, F!mapping

LEMMA FunnelStepInv == ASSUME FunnelInv, F!Next PROVE FunnelInv'
BY EnterInv, BringUpInv, ReleaseInv, LeasedInv, StopInv, TurnOffInv DEF F!Next

LEMMA FunnelStutterInv == ASSUME FunnelInv, UNCHANGED F!vars PROVE FunnelInv'
BY SameCount DEF FunnelInv, F!TypeOK, F!CountsHolders, SharePort, Mapped, F!Holders, F!At, F!vars, F!mapping

LEMMA FunnelInvImplies ==
    FunnelInv => F!CountsHolders /\ F!NeverRetargeted /\ F!OperatorsStays /\ F!LeavesNothing
BY DEF FunnelInv, SharePort, Mapped, F!NeverRetargeted, F!OperatorsStays, F!LeavesNothing

-----------------------------------------------------------------------------
(* The webhook of asana (AsanaHook). *)

\* Where handshakes are not awaited, or no longer, none is accepted; one is, otherwise.
Windowed ==
    /\ mode = "never" => ~window /\ installed = {} /\ pinned = {}
    /\ mode = "bootstrap" => /\ pinned # {} => ~window /\ installed = {}
                             /\ window => installed = {}
                             /\ installed = {} \/ \E h \in Hooks : installed = {h}
\* A webhook that stands, or is about to, and was established with this process is known to it.
KnowsInstalled ==
    /\ \A h \in installed : hook[h] \in {"known", "standing"} => h \in secrets
    /\ \A d \in batches : hook[d.hook] = "standing"
    /\ ~refused
\* What a goroutine holds has a number under which the event it is at was let through, and
\* that is its own and not emitted; no number is emitted twice.
Numbered(g) == works[g].holds # 0 => /\ A!AtEvent(g) /\ works[g].holds \in DOMAIN accepted
                                     /\ accepted[works[g].holds] = A!EventAt(g)
HoldsOwn ==
    /\ \A g \in DOMAIN works : Numbered(g) /\ \A i \in DOMAIN emitted : emitted[i] # works[g].holds
    /\ \A g, v \in DOMAIN works : (works[g].holds = works[v].holds /\ works[g].holds # 0) => g = v
    /\ \A i, j \in DOMAIN emitted : emitted[i] = emitted[j] => i = j
\* An event is let through again only when it is out of the window.
Spaced == \A a, b \in DOMAIN accepted : (a < b /\ accepted[a] = accepted[b]) => b - a > DedupMax
\* What was let through is emitted or held, and what a goroutine has passed was let through.
InHand(k) == (\E i \in DOMAIN emitted : emitted[i] = k) \/ \E g \in DOMAIN works : works[g].holds = k
LetBefore(e) == \E k \in DOMAIN accepted : accepted[k] = e
AsanaKept ==
    /\ \A k \in DOMAIN accepted : InHand(k)
    /\ \A g \in DOMAIN works : \A n \in DOMAIN works[g].of : works[g].at <= n \/ LetBefore(works[g].of[n])
Runs     == HoldsOwn /\ Spaced /\ AsanaKept
AsanaInv == A!TypeOK /\ Windowed /\ KnowsInstalled /\ Runs

\* Nothing is said of the goroutines by a step that leaves them and what they did alone.
LEMMA RunsStay == ASSUME Runs, UNCHANGED <<works, accepted, emitted>> PROVE Runs'
BY DEF Runs, HoldsOwn, Numbered, Spaced, AsanaKept, InHand, LetBefore, A!AtEvent, A!EventAt

LEMMA AsanaInitInv == A!Init => AsanaInv
<1> SUFFICES ASSUME A!Init PROVE AsanaInv
  OBVIOUS
<1>1. A!TypeOK
  <2>1. window \in BOOLEAN /\ accepted \in Seq(A!Events) /\ emitted \in Seq(DOMAIN accepted)
    BY DEF A!Init, A!Awaits
  <2>2. works \in Seq([of : Batches, at : Nat, holds : Nat]) /\ Len(works) = 0 /\ DOMAIN works = {}
    BY DEF A!Init
  <2>3. batches = {} /\ hook \in [Hooks -> {"new"}] /\ lost \in 0..MaxLost /\ restarts \in 0..MaxRestarts
    BY AsanaAssumption DEF A!Init
  <2>4. /\ mode \in A!Modes /\ pinned \subseteq Hooks /\ secrets \subseteq Hooks /\ installed \subseteq Hooks
        /\ hook \in [Hooks -> {"new", "accepted", "known", "standing", "failed"}] /\ refused \in BOOLEAN
    BY DEF A!Init
  <2>5. Len(works) <= MaxTaken /\ \A g \in DOMAIN works : works[g].at \in 1..(Len(works[g].of) + 1)
    BY <2>2, AsanaAssumption
  <2> QED BY <2>1, <2>2, <2>3, <2>4, <2>5 DEF A!TypeOK
<1>2. Windowed
  BY DEF A!Init, Windowed, A!Awaits
<1>3. KnowsInstalled
  BY DEF A!Init, KnowsInstalled
<1>4. Runs
  BY DEF A!Init, Runs, HoldsOwn, Spaced, AsanaKept
<1> QED BY <1>1, <1>2, <1>3, <1>4 DEF AsanaInv

LEMMA HandshakeInv ==
    ASSUME AsanaInv, NEW h \in Hooks, A!Accept(h) \/ A!AddSecret(h) \/ A!Echo(h)
    PROVE  AsanaInv'
<1> USE AsanaAssumption DEF AsanaInv, A!Goes
<1>0. Runs'
  BY RunsStay DEF A!Accept, A!AddSecret, A!Echo, A!source
<1>1. ASSUME A!Accept(h) PROVE AsanaInv'
  <2>1. A!TypeOK'
    BY <1>1 DEF A!Accept, A!TypeOK
  <2>2. Windowed'
    BY <1>1 DEF A!Accept, Windowed, A!TypeOK, A!Modes
  <2>3. KnowsInstalled'
    BY <1>1 DEF A!Accept, KnowsInstalled, A!TypeOK
  <2> QED BY <1>0, <2>1, <2>2, <2>3
<1>2. ASSUME A!AddSecret(h) PROVE AsanaInv'
  <2>1. A!TypeOK'
    BY <1>2 DEF A!AddSecret, A!TypeOK
  <2>2. Windowed'
    BY <1>2 DEF A!AddSecret, Windowed
  <2>3. KnowsInstalled'
    BY <1>2 DEF A!AddSecret, KnowsInstalled, A!TypeOK
  <2> QED BY <1>0, <2>1, <2>2, <2>3
<1>3. ASSUME A!Echo(h) PROVE AsanaInv'
  <2>1. A!TypeOK'
    BY <1>3 DEF A!Echo, A!TypeOK, A!source
  <2>2. Windowed'
    BY <1>3 DEF A!Echo, Windowed, A!source
  <2>3. KnowsInstalled'
    BY <1>3 DEF A!Echo, KnowsInstalled, A!TypeOK, A!source
  <2> QED BY <1>0, <2>1, <2>2, <2>3
<1> QED BY <1>1, <1>2, <1>3

LEMMA SendInv == ASSUME AsanaInv, NEW h \in Hooks, NEW b \in Batches, A!Send(h, b) PROVE AsanaInv'
<1> USE AsanaAssumption DEF AsanaInv, A!source
<1>1. A!TypeOK'
  BY DEF A!Send, A!TypeOK
<1>2. Windowed' /\ KnowsInstalled'
  BY DEF A!Send, Windowed, KnowsInstalled
<1>3. Runs'
  BY RunsStay DEF A!Send
<1> QED BY <1>1, <1>2, <1>3

\* A goroutine that begins has passed nothing and holds nothing.
LEMMA TakenRuns ==
    ASSUME A!TypeOK, Runs, NEW b \in Batches, UNCHANGED <<accepted, emitted>>,
           works' = Append(works, [of |-> b, at |-> 1, holds |-> 0])
    PROVE  Runs'
<1>1. works \in Seq([of : Batches, at : Nat, holds : Nat]) /\ emitted \in Seq(DOMAIN accepted)
  BY DEF A!TypeOK
<1>2. b \in Seq(A!Events) /\ \A n \in DOMAIN b : 1 <= n
  BY AsanaAssumption
<1> DEFINE w == [of |-> b, at |-> 1, holds |-> 0]
           u == Len(works) + 1
<1>3. /\ \A g \in DOMAIN works : g \in DOMAIN works' /\ works'[g] = works[g] /\ g # u
      /\ \A g \in DOMAIN works' : g \in DOMAIN works \/ g = u
      /\ works'[u] = w
  BY <1>1
<1>4. w.of = b /\ w.at = 1 /\ w.holds = 0
  OBVIOUS
<1> HIDE DEF w, u
<1>5. \A g \in DOMAIN works' : works'[g].holds # 0 => g \in DOMAIN works /\ works'[g] = works[g]
  BY <1>3, <1>4
<1>6. HoldsOwn'
  <2>1. ASSUME NEW g \in DOMAIN works' PROVE Numbered(g)'
    <3>1. CASE works'[g].holds = 0
      BY <3>1 DEF Numbered
    <3>2. CASE works'[g].holds # 0
      BY <1>3, <1>5, <3>2 DEF Runs, HoldsOwn, Numbered, A!AtEvent, A!EventAt
    <3> QED BY <3>1, <3>2
  <2>2. \A g \in DOMAIN works' : \A i \in DOMAIN emitted' : emitted'[i] # works'[g].holds
    <3>1. \A i \in DOMAIN emitted : emitted[i] # 0
      <4>1. \A k \in DOMAIN accepted : k # 0
        BY DEF A!TypeOK
      <4> QED BY <1>1, <4>1
    <3> QED BY <1>3, <1>4, <3>1 DEF Runs, HoldsOwn
  <2> QED BY <1>5, <2>1, <2>2 DEF Runs, HoldsOwn
<1>7. AsanaKept'
  <2>1. \A k \in DOMAIN accepted' : InHand(k)'
    BY <1>3 DEF Runs, AsanaKept, InHand
  <2>2. ASSUME NEW g \in DOMAIN works', NEW n \in DOMAIN works'[g].of
        PROVE  (works[g].at <= n \/ LetBefore(works[g].of[n]))'
    <3>1. CASE g = u
      BY <1>2, <1>3, <1>4, <3>1
    <3>2. CASE g \in DOMAIN works
      BY <1>3, <3>2 DEF Runs, AsanaKept, LetBefore
    <3> QED BY <1>3, <3>1, <3>2
  <2> QED BY <2>1, <2>2 DEF AsanaKept
<1> QED BY <1>6, <1>7 DEF Runs, Spaced

LEMMA HandleInv == ASSUME AsanaInv, NEW d \in batches, A!Handle(d) PROVE AsanaInv'
<1> USE AsanaAssumption DEF AsanaInv
<1> DEFINE w == [of |-> d.batch, at |-> 1, holds |-> 0]
<1>0. /\ UNCHANGED <<mode, pinned, window, secrets, hook, installed, accepted, emitted, restarts>>
      /\ works' = works \/ works' = Append(works, w)
      /\ batches' \subseteq batches /\ d \in [hook : Hooks, batch : Batches] /\ Len(works) < MaxTaken
  BY DEF A!Handle, A!TypeOK
<1>1. A!TypeOK'
  <2>1. w \in [of : Batches, at : Nat, holds : Nat] /\ w.at \in 1..(Len(w.of) + 1)
    <3>1. d.batch \in Batches /\ Len(d.batch) \in Nat
      BY <1>0
    <3> QED BY <3>1
  <2>2. /\ works' \in Seq([of : Batches, at : Nat, holds : Nat]) /\ Len(works') <= MaxTaken
        /\ \A g \in DOMAIN works' : works'[g].at \in 1..(Len(works'[g].of) + 1)
    <3>1. CASE works' = works
      BY <3>1 DEF A!TypeOK
    <3>2. CASE works' = Append(works, w)
      <4>1. \A g \in DOMAIN works' : \/ g \in DOMAIN works /\ works'[g] = works[g]
                                     \/ works'[g] = w
        <5>1. works \in Seq([of : Batches, at : Nat, holds : Nat])
          BY DEF A!TypeOK
        <5> HIDE DEF w
        <5> QED BY <3>2, <5>1
      <4>2. works' \in Seq([of : Batches, at : Nat, holds : Nat]) /\ Len(works') = Len(works) + 1
        BY <2>1, <3>2 DEF A!TypeOK
      <4>3. Len(works') <= MaxTaken
        BY <1>0, <4>2 DEF A!TypeOK
      <4> HIDE DEF w
      <4> QED BY <2>1, <4>1, <4>2, <4>3 DEF A!TypeOK
    <3> QED BY <1>0, <3>1, <3>2
  <2>3. lost' \in 0..MaxLost
    BY <1>0 DEF A!Handle, A!TypeOK
  <2>5. refused' \in BOOLEAN
    BY Zenon DEF A!Handle, A!TypeOK
  <2>4. batches' \subseteq [hook : Hooks, batch : Batches]
    BY <1>0 DEF A!TypeOK
  <2> QED BY <1>0, <2>2, <2>3, <2>4, <2>5 DEF A!TypeOK
<1>2. Windowed'
  BY <1>0 DEF Windowed
<1>3. KnowsInstalled'
  BY <1>0 DEF A!Handle, KnowsInstalled
<1>4. Runs'
  BY <1>0, RunsStay, TakenRuns
<1> QED BY <1>1, <1>2, <1>3, <1>4

\* What the step of one goroutine leaves of the others.
Moves(g, to, holds) ==
    /\ DOMAIN works' = DOMAIN works /\ Len(works') = Len(works)
    /\ works' \in Seq([of : Batches, at : Nat, holds : Nat])
    /\ \A v \in DOMAIN works : works'[v].of = works[v].of /\ (v # g => works'[v] = works[v])
    /\ works'[g].at = to /\ works'[g].holds = holds

\* The goroutines.
LEMMA WorkIs ==
    ASSUME A!TypeOK, NEW g \in DOMAIN works
    PROVE  works[g] \in [of : Batches, at : Nat, holds : Nat]
<1> DEFINE S == [of : Batches, at : Nat, holds : Nat]
<1>1. works \in Seq(S)
  BY DEF A!TypeOK
<1> HIDE DEF S
<1>2. works[g] \in S
  BY <1>1
<1> QED BY <1>2 DEF S

LEMMA MovesIs ==
    ASSUME A!TypeOK, NEW g \in DOMAIN works, NEW to \in Nat, NEW holds \in Nat,
           A!ComesTo(g, to, holds)
    PROVE  Moves(g, to, holds)
<1>1. /\ works \in Seq([of : Batches, at : Nat, holds : Nat])
      /\ works[g] \in [of : Batches, at : Nat, holds : Nat]
  BY WorkIs DEF A!TypeOK
<1> DEFINE w == [of |-> works[g].of, at |-> to, holds |-> holds]
<1>2. works' = [works EXCEPT ![g] = w]
  BY DEF A!ComesTo
<1>3. w \in [of : Batches, at : Nat, holds : Nat]
  BY <1>1
<1>4. w.of = works[g].of /\ w.at = to /\ w.holds = holds
  OBVIOUS
<1> HIDE DEF w
<1>5. /\ works' \in Seq([of : Batches, at : Nat, holds : Nat]) /\ Len(works') = Len(works)
      /\ DOMAIN works' = DOMAIN works /\ works'[g] = w
      /\ \A v \in DOMAIN works : v # g => works'[v] = works[v]
  BY <1>1, <1>2, <1>3
<1> QED BY <1>4, <1>5 DEF Moves

\* Every goroutine but g stays as it was; it comes from one event to the next.
LEMMA MovedType ==
    ASSUME A!TypeOK, NEW g \in DOMAIN works, NEW to, NEW holds, Moves(g, to, holds),
           to \in 1..(Len(works[g].of) + 1), accepted' \in Seq(A!Events), emitted' \in Seq(DOMAIN accepted'),
           UNCHANGED <<mode, pinned, window, secrets, hook, installed, batches, refused, lost, restarts>>
    PROVE  A!TypeOK'
<1>1. \A v \in DOMAIN works' : works'[v].at \in 1..(Len(works'[v].of) + 1)
  BY DEF Moves, A!TypeOK
<1> QED BY <1>1 DEF A!TypeOK, Moves

\* It has its event in hand and comes to the next: nothing is let through.
LEMMA GoOnRuns ==
    ASSUME A!TypeOK, Runs, NEW g \in DOMAIN works, A!AtEvent(g), Moves(g, works[g].at + 1, 0),
           accepted' = accepted, LetBefore(A!EventAt(g)),
           \/ works[g].holds = 0 /\ emitted' = emitted
           \/ works[g].holds # 0 /\ emitted' = Append(emitted, works[g].holds)
    PROVE  Runs'
<1>1. emitted \in Seq(DOMAIN accepted) /\ 0 \notin DOMAIN accepted
  BY DEF A!TypeOK
<1>2. \A v \in DOMAIN works' : \/ v # g /\ v \in DOMAIN works /\ works'[v] = works[v]
                               \/ v = g /\ works'[v].holds = 0
  BY DEF Moves
<1>3. \A i \in DOMAIN emitted' : \/ i \in DOMAIN emitted /\ emitted'[i] = emitted[i]
                                 \/ i = Len(emitted) + 1 /\ emitted'[i] = works[g].holds /\ works[g].holds # 0
  BY <1>1
<1>4. \A i \in DOMAIN emitted : i \in DOMAIN emitted' /\ emitted'[i] = emitted[i] /\ i # Len(emitted) + 1
  BY <1>1
<1>5. works[g].holds # 0 => Len(emitted) + 1 \in DOMAIN emitted' /\ emitted'[Len(emitted) + 1] = works[g].holds
  BY <1>1
<1>6. \A i \in DOMAIN emitted : emitted[i] # works[g].holds /\ emitted[i] # 0
  BY <1>1 DEF Runs, HoldsOwn
<1>7. HoldsOwn'
  <2>1. ASSUME NEW v \in DOMAIN works' PROVE Numbered(v)'
    BY <1>2, <2>1 DEF Runs, HoldsOwn, Numbered, A!AtEvent, A!EventAt
  <2>2. ASSUME NEW v \in DOMAIN works', NEW i \in DOMAIN emitted' PROVE emitted'[i] # works'[v].holds
    <3>1. CASE v = g
      BY <1>2, <1>3, <1>6, <3>1
    <3>2. CASE v # g
      BY <1>2, <1>3, <3>2 DEF Runs, HoldsOwn
    <3> QED BY <3>1, <3>2
  <2>3. \A i, j \in DOMAIN emitted' : emitted'[i] = emitted'[j] => i = j
    BY <1>3, <1>6 DEF Runs, HoldsOwn
  <2>4. \A u, v \in DOMAIN works' : (works'[u].holds = works'[v].holds /\ works'[u].holds # 0) => u = v
    BY <1>2 DEF Runs, HoldsOwn
  <2> QED BY <2>1, <2>2, <2>3, <2>4 DEF HoldsOwn
<1>8. AsanaKept'
  <2>1. ASSUME NEW k \in DOMAIN accepted PROVE InHand(k)'
    <3>1. CASE \E i \in DOMAIN emitted : emitted[i] = k
      BY <1>4, <3>1 DEF InHand
    <3>2. ASSUME NEW v \in DOMAIN works, works[v].holds = k PROVE InHand(k)'
      <4>1. CASE v = g
        BY <1>1, <1>5, <3>2, <4>1 DEF InHand
      <4>2. CASE v # g
        BY <3>2, <4>2 DEF InHand, Moves
      <4> QED BY <4>1, <4>2
    <3> QED BY <3>1, <3>2 DEF Runs, AsanaKept, InHand
  <2>2. ASSUME NEW v \in DOMAIN works', NEW n \in DOMAIN works'[v].of
        PROVE  (works[v].at <= n \/ LetBefore(works[v].of[n]))'
    <3>1. works'[v].of = works[v].of /\ v \in DOMAIN works
      BY DEF Moves
    <3>2. works[v].at <= n \/ LetBefore(works[v].of[n])
      BY <3>1 DEF Runs, AsanaKept
    <3>3. n \in Nat /\ works[v].at \in Nat
      BY <3>1, WorkIs, AsanaAssumption
    <3>4. CASE v # g
      BY <3>1, <3>2, <3>4 DEF Moves, LetBefore
    <3>5. CASE v = g
      <4>1. works[g].at + 1 <= n \/ n = works[g].at \/ LetBefore(works[g].of[n])
        BY <3>2, <3>3, <3>5
      <4> QED BY <3>1, <3>5, <4>1 DEF Moves, LetBefore, A!EventAt
    <3> QED BY <3>4, <3>5
  <2> QED BY <2>1, <2>2 DEF AsanaKept
<1> QED BY <1>7, <1>8 DEF Runs, Spaced

\* An event out of the window is let through, and its goroutine holds it.
LEMMA LetRuns ==
    ASSUME A!TypeOK, Runs, NEW g \in DOMAIN works, A!AtEvent(g), works[g].holds = 0,
           A!W!Accept(A!EventAt(g)), Moves(g, works[g].at, Len(accepted')),
           emitted' = emitted, A!EventAt(g) \in A!Events
    PROVE  Runs'
<1> DEFINE k == Len(accepted) + 1
           e == A!EventAt(g)
<1>1. accepted \in Seq(A!Events) /\ emitted \in Seq(DOMAIN accepted) /\ accepted' = Append(accepted, e)
  BY DEF A!TypeOK, A!W!Accept
<1>2. /\ Len(accepted') = k /\ k \in DOMAIN accepted' /\ accepted'[k] = e /\ k # 0
      /\ \A a \in DOMAIN accepted : a \in DOMAIN accepted' /\ accepted'[a] = accepted[a] /\ a < k /\ a # 0
      /\ \A a \in DOMAIN accepted' : a \in DOMAIN accepted \/ a = k
  BY <1>1
<1>3. \A v \in DOMAIN works' : \/ v # g /\ v \in DOMAIN works /\ works'[v] = works[v]
                               \/ v = g /\ works'[v].holds = k
  BY <1>2 DEF Moves
<1>4. \A v \in DOMAIN works : works[v].holds # k
  <2>1. k \notin DOMAIN accepted
    BY <1>1
  <2> QED BY <1>2, <2>1 DEF Runs, HoldsOwn, Numbered
<1>5. \A i \in DOMAIN emitted : emitted[i] \in DOMAIN accepted /\ emitted[i] # k
  BY <1>1
<1> HIDE DEF k
<1>6. HoldsOwn'
  <2>1. ASSUME NEW v \in DOMAIN works' PROVE Numbered(v)'
    <3>1. CASE v = g
      <4>1. works'[g].of = works[g].of /\ works'[g].at = works[g].at /\ works'[g].holds = k
        BY <1>2 DEF Moves
      <4> QED BY <1>2, <3>1, <4>1 DEF Numbered, A!AtEvent, A!EventAt
    <3>2. CASE v # g
      <4>1. v \in DOMAIN works /\ works'[v] = works[v]
        BY <1>3, <3>2
      <4> QED BY <1>2, <2>1, <4>1 DEF Runs, HoldsOwn, Numbered, A!AtEvent, A!EventAt
    <3> QED BY <3>1, <3>2
  <2>2. \A v \in DOMAIN works' : \A i \in DOMAIN emitted' : emitted'[i] # works'[v].holds
    BY <1>3, <1>5 DEF Runs, HoldsOwn
  <2>3. \A u, v \in DOMAIN works' : (works'[u].holds = works'[v].holds /\ works'[u].holds # 0) => u = v
    BY <1>3, <1>4 DEF Runs, HoldsOwn
  <2> QED BY <2>1, <2>2, <2>3 DEF Runs, HoldsOwn
<1>7. Spaced'
  <2> SUFFICES ASSUME NEW a \in DOMAIN accepted', NEW b \in DOMAIN accepted', a < b, accepted'[a] = accepted'[b]
               PROVE  b - a > DedupMax
    BY DEF Spaced
  <2>1. CASE b \in DOMAIN accepted
    <3>1. a \in DOMAIN accepted
      BY <1>1, <1>2, <2>1
    <3> QED BY <1>2, <2>1, <3>1 DEF Runs, Spaced
  <2>2. CASE b = k
    <3>1. a \in DOMAIN accepted /\ accepted[a] = e
      BY <1>1, <1>2, <2>2
    <3>2. ~(a > Len(accepted) - DedupMax)
      BY <3>1 DEF A!W!Accept, A!W!Recent
    <3> QED BY <1>1, <2>2, <3>1, <3>2, AsanaAssumption DEF k
  <2> QED BY <1>2, <2>1, <2>2
<1>8. AsanaKept'
  <2>1. ASSUME NEW a \in DOMAIN accepted' PROVE InHand(a)'
    <3>1. CASE a = k
      BY <1>2, <3>1 DEF InHand, Moves
    <3>2. CASE a \in DOMAIN accepted /\ \E i \in DOMAIN emitted : emitted[i] = a
      BY <3>2 DEF InHand
    <3>3. ASSUME a \in DOMAIN accepted, NEW v \in DOMAIN works, works[v].holds = a PROVE InHand(a)'
      <4>1. v # g
        BY <1>2, <3>3
      <4> QED BY <3>3, <4>1 DEF InHand, Moves
    <3> QED BY <1>2, <3>1, <3>2, <3>3 DEF Runs, AsanaKept, InHand
  <2>2. ASSUME NEW v \in DOMAIN works', NEW n \in DOMAIN works'[v].of
        PROVE  (works[v].at <= n \/ LetBefore(works[v].of[n]))'
    <3>1. works'[v].of = works[v].of /\ v \in DOMAIN works /\ works'[v].at = works[v].at
      BY DEF Moves
    <3>2. works[v].at <= n \/ LetBefore(works[v].of[n])
      BY <3>1 DEF Runs, AsanaKept
    <3> QED BY <1>2, <3>1, <3>2 DEF LetBefore
  <2> QED BY <2>1, <2>2 DEF AsanaKept
<1> QED BY <1>6, <1>7, <1>8 DEF Runs

\* The event that a goroutine is at.
LEMMA EventIs ==
    ASSUME A!TypeOK, NEW g \in DOMAIN works, A!AtEvent(g)
    PROVE  /\ A!EventAt(g) \in A!Events /\ works[g].at \in Nat /\ works[g].holds \in Nat
           /\ works[g].at \in 1..(Len(works[g].of) + 1) /\ works[g].at + 1 \in 1..(Len(works[g].of) + 1)
<1>1. works[g] \in [of : Batches, at : Nat, holds : Nat] /\ works[g].at \in 1..(Len(works[g].of) + 1)
  BY WorkIs DEF A!TypeOK
<1>2. works[g].of \in Seq(A!Events) /\ works[g].at \in DOMAIN works[g].of
  BY <1>1, AsanaAssumption DEF A!AtEvent
<1> QED BY <1>1, <1>2 DEF A!EventAt

LEMMA LetInv == ASSUME AsanaInv, NEW g \in DOMAIN works, A!Let(g) PROVE AsanaInv'
<1>0. /\ A!AtEvent(g) /\ works[g].holds = 0
      /\ UNCHANGED <<mode, pinned, window, secrets, hook, installed, batches, emitted, refused, lost, restarts>>
  BY DEF A!Let
<1>1. Windowed' /\ KnowsInstalled'
  BY <1>0 DEF AsanaInv, Windowed, KnowsInstalled
<1>2. accepted \in Seq(A!Events) /\ emitted \in Seq(DOMAIN accepted) /\ A!TypeOK
  BY DEF AsanaInv, A!TypeOK
<1>3. ASSUME A!W!Accept(A!EventAt(g)), A!Hold(g) PROVE AsanaInv'
  <2>1. accepted' = Append(accepted, A!EventAt(g))
    BY <1>3 DEF A!W!Accept
  <2>2. accepted' \in Seq(A!Events) /\ Len(accepted') \in Nat /\ emitted' \in Seq(DOMAIN accepted')
    BY <1>0, <1>2, <2>1, EventIs
  <2>3. Moves(g, works[g].at, Len(accepted'))
    BY <1>0, <1>2, <1>3, <2>2, EventIs, MovesIs DEF A!Hold
  <2>4. A!TypeOK'
    BY <1>0, <1>2, <2>2, <2>3, EventIs, MovedType
  <2>5. Runs'
    BY <1>0, <1>2, <1>3, <2>3, EventIs, LetRuns DEF AsanaInv
  <2> QED BY <1>1, <2>4, <2>5 DEF AsanaInv
<1>4. ASSUME A!EventAt(g) \in A!W!Recent, accepted' = accepted, A!GoOn(g) PROVE AsanaInv'
  <2>1. Moves(g, works[g].at + 1, 0)
    BY <1>0, <1>2, <1>4, EventIs, MovesIs DEF A!GoOn
  <2>2. A!TypeOK'
    BY <1>0, <1>2, <1>4, <2>1, EventIs, MovedType
  <2>3. LetBefore(A!EventAt(g))
    BY <1>4 DEF LetBefore, A!W!Recent
  <2>4. Runs'
    BY <1>0, <1>2, <1>4, <2>1, <2>3, GoOnRuns DEF AsanaInv
  <2> QED BY <1>1, <2>2, <2>4 DEF AsanaInv
<1> QED BY <1>3, <1>4 DEF A!Let

LEMMA EmitInv == ASSUME AsanaInv, NEW g \in DOMAIN works, A!Emit(g) PROVE AsanaInv'
<1>0. /\ A!AtEvent(g) /\ works[g].holds # 0 /\ A!GoOn(g) /\ emitted' = Append(emitted, works[g].holds)
      /\ UNCHANGED <<mode, pinned, window, secrets, hook, installed, batches, accepted, refused, lost, restarts>>
  BY DEF A!Emit
<1>1. Windowed' /\ KnowsInstalled'
  BY <1>0 DEF AsanaInv, Windowed, KnowsInstalled
<1>2. accepted \in Seq(A!Events) /\ emitted \in Seq(DOMAIN accepted) /\ A!TypeOK
  BY DEF AsanaInv, A!TypeOK
<1>3. works[g].holds \in DOMAIN accepted /\ LetBefore(A!EventAt(g))
  BY <1>0 DEF AsanaInv, Runs, HoldsOwn, Numbered, LetBefore
<1>4. Moves(g, works[g].at + 1, 0)
  BY <1>0, <1>2, EventIs, MovesIs DEF A!GoOn
<1>5. emitted' \in Seq(DOMAIN accepted')
  BY <1>0, <1>2, <1>3
<1>6. A!TypeOK'
  BY <1>0, <1>2, <1>4, <1>5, EventIs, MovedType
<1>7. Runs'
  BY <1>0, <1>2, <1>3, <1>4, GoOnRuns DEF AsanaInv
<1> QED BY <1>1, <1>6, <1>7 DEF AsanaInv

LEMMA RestartInv == ASSUME AsanaInv, NEW pin \in SUBSET installed, A!Restart(pin) PROVE AsanaInv'
<1> USE AsanaAssumption DEF AsanaInv
<1>1. A!TypeOK'
  <2>1. /\ works' \in Seq([of : Batches, at : Nat, holds : Nat]) /\ Len(works') = 0 /\ DOMAIN works' = {}
        /\ accepted' \in Seq(A!Events) /\ emitted' \in Seq(DOMAIN accepted')
    BY DEF A!Restart
  <2> QED BY <2>1 DEF A!Restart, A!TypeOK
<1>2. Windowed'
  BY DEF A!Restart, Windowed, A!TypeOK, A!Modes
<1>3. KnowsInstalled'
  BY DEF A!Restart, KnowsInstalled, A!TypeOK
<1>4. Runs'
  <2>1. DOMAIN works' = {} /\ DOMAIN accepted' = {} /\ DOMAIN emitted' = {}
    BY DEF A!Restart
  <2> QED BY <2>1 DEF Runs, HoldsOwn, Spaced, AsanaKept
<1> QED BY <1>1, <1>2, <1>3, <1>4

LEMMA AsanaStepInv == ASSUME AsanaInv, A!Next PROVE AsanaInv'
BY HandshakeInv, SendInv, HandleInv, LetInv, EmitInv, RestartInv DEF A!Next

LEMMA AsanaStutterInv == ASSUME AsanaInv, UNCHANGED A!vars PROVE AsanaInv'
<1>1. A!TypeOK' /\ Windowed' /\ KnowsInstalled'
  BY DEF AsanaInv, A!TypeOK, Windowed, KnowsInstalled, A!vars, A!source
<1>2. Runs'
  BY RunsStay DEF AsanaInv, A!vars, A!source
<1> QED BY <1>1, <1>2 DEF AsanaInv

LEMMA OneHandshakeIs == AsanaInv => A!OneHandshake
<1> SUFFICES ASSUME AsanaInv PROVE A!OneHandshake
  OBVIOUS
<1>1. Cardinality({}) = 0 /\ \A h : Cardinality({h}) = 1
  BY FS_EmptySet, FS_Singleton
<1>2. ASSUME mode = "bootstrap" PROVE Cardinality(installed) <= (IF pinned = {} THEN 1 ELSE 0)
  <2>1. installed = {} \/ (pinned = {} /\ \E h \in Hooks : installed = {h})
    BY <1>2 DEF AsanaInv, Windowed
  <2>2. CASE installed = {}
    BY <1>1, <2>2
  <2>3. CASE pinned = {} /\ \E h \in Hooks : installed = {h}
    <3>1. Cardinality(installed) = 1
      BY <1>1, <2>3
    <3> QED BY <2>3, <3>1
  <2> QED BY <2>1, <2>2, <2>3
<1> QED BY SameCount, <1>2 DEF AsanaInv, Windowed, A!OneHandshake

\* Two numbers that were emitted are two that were let through, a window apart.
LEMMA EmittedOnceIs == AsanaInv => A!EmittedOnce
<1> SUFFICES ASSUME AsanaInv, NEW i \in DOMAIN emitted, NEW j \in DOMAIN emitted, i # j,
                    accepted[emitted[i]] = accepted[emitted[j]]
             PROVE  emitted[i] - emitted[j] > DedupMax \/ emitted[j] - emitted[i] > DedupMax
  BY DEF A!EmittedOnce
<1>1. accepted \in Seq(A!Events) /\ emitted[i] \in DOMAIN accepted /\ emitted[j] \in DOMAIN accepted
  BY DEF AsanaInv, A!TypeOK
<1>2. emitted[i] # emitted[j] /\ emitted[i] \in Nat /\ emitted[j] \in Nat
  BY <1>1 DEF AsanaInv, Runs, HoldsOwn
<1>3. emitted[i] < emitted[j] \/ emitted[j] < emitted[i]
  BY <1>2
<1> QED BY <1>1, <1>3 DEF AsanaInv, Runs, Spaced

\* What was passed was let through, and so is emitted or held.
LEMMA NonePassedOverIs == AsanaInv => A!NonePassedOver
<1> SUFFICES ASSUME AsanaInv, NEW g \in DOMAIN works, NEW n \in DOMAIN works[g].of, ~(works[g].at <= n)
             PROVE  \/ A!Emitted(works[g].of[n])
                    \/ \E v \in DOMAIN works : A!Holds(v, works[g].of[n])
  BY DEF A!NonePassedOver
<1>1. PICK k \in DOMAIN accepted : accepted[k] = works[g].of[n]
  BY DEF AsanaInv, Runs, AsanaKept, LetBefore
<1>2. CASE \E i \in DOMAIN emitted : emitted[i] = k
  BY <1>1, <1>2 DEF A!Emitted
<1>3. ASSUME NEW v \in DOMAIN works, works[v].holds = k
      PROVE  A!Holds(v, works[g].of[n])
  <2>1. k # 0
    BY <1>1 DEF AsanaInv, A!TypeOK
  <2> QED BY <1>1, <1>3, <2>1 DEF AsanaInv, Runs, HoldsOwn, Numbered, A!Holds
<1> QED BY <1>1, <1>2, <1>3 DEF AsanaInv, Runs, AsanaKept, InHand

-----------------------------------------------------------------------------
(* What each keeps, a behaviour of all keeps. *)

LEMMA ExposuresStep ==
    ASSUME [ExposuresNext]_all
    PROVE  /\ [Next]_vars
           /\ F!Next \/ UNCHANGED F!vars
           /\ A!Next \/ UNCHANGED A!vars
BY DEF ExposuresNext, all, funnel, asana, F!vars, F!mapping, A!vars, A!source

LEMMA InvHolds == ExposuresSpec => []IInv
<1>1. ExposuresInit => IInv
  BY InitInv DEF ExposuresInit
<1>2. IInv /\ [ExposuresNext]_all => IInv'
  BY ExposuresStep, InvStep
<1> QED BY <1>1, <1>2, PTL DEF ExposuresSpec

(* No process runs that nobody will stop (Exposure.NoOrphan; RunAndScan,
   AddCapped and Release hand it on to each other). *)
THEOREM NoneOrphaned == ExposuresSpec => []NoOrphan
<1>1. IInv => NoOrphan
  BY DEF IInv, TypeOK, NoOrphan, Stands, Unborn, Stopped, Failed, Untabled
<1> QED BY <1>1, InvHolds, PTL

(* The stop of a lease has one runner (Exposure.OneStopper; Leases.Release
   takes the entry out under the mutex). *)
THEOREM OneStopperHolds == ExposuresSpec => []OneStopper
<1>1. IInv => OneStopper
  BY DEF IInv
<1> QED BY <1>1, InvHolds, PTL

\* What is stopped leaves no helper behind, unless it had crashed: the stop kills the
\* group before it cancels (exposurekit.go, RunAndScan).
THEOREM HelpersDieHolds == ExposuresSpec => []HelpersDie
<1>1. ExposuresInit => HInv
  BY DEF ExposuresInit, Init, HInv, DiedByItself, ExitRecorded, HelperKilled
<1>2. IInv /\ HInv /\ [ExposuresNext]_all => HInv'
  BY ExposuresStep, HelperStep
<1>3. HInv => HelpersDie
  BY DEF HInv, HelperKilled, HelpersDie
<1> QED BY <1>1, <1>2, <1>3, InvHolds, PTL DEF ExposuresSpec

(* No instance holds more leases than it may (Exposure.CapHolds; AddCapped
   counts and adds under one lock). *)
THEOREM CapKept == ExposuresSpec => []CapHolds
<1>1. ExposuresInit => CapHolds
  <2>1. Init => \A i : HeldBy(i) = {}
    BY DEF Init, HeldBy
  <2> QED BY <2>1, FS_EmptySet, BoundAssumption DEF ExposuresInit, CapHolds
<1>2. IInv => TypeOK
  BY DEF IInv
<1>3. TypeOK /\ CapHolds /\ [ExposuresNext]_all => CapHolds'
  BY ExposuresStep, CapStep
<1> QED BY <1>1, <1>2, <1>3, InvHolds, PTL DEF ExposuresSpec

LEMMA FunnelInvHolds == ExposuresSpec => []FunnelInv
<1>1. ExposuresInit => FunnelInv
  BY FunnelInitInv DEF ExposuresInit
<1>2. FunnelInv /\ [ExposuresNext]_all => FunnelInv'
  BY ExposuresStep, FunnelStepInv, FunnelStutterInv
<1> QED BY <1>1, <1>2, PTL DEF ExposuresSpec

LEMMA AsanaInvHolds == ExposuresSpec => []AsanaInv
<1>1. ExposuresInit => AsanaInv
  BY AsanaInitInv DEF ExposuresInit
<1>2. AsanaInv /\ [ExposuresNext]_all => AsanaInv'
  BY ExposuresStep, AsanaStepInv, AsanaStutterInv
<1> QED BY <1>1, <1>2, PTL DEF ExposuresSpec

\* The variables of all keep their types, for any number of opens, leases, webhooks and
\* batches.
THEOREM ExposuresTyped == ExposuresSpec => []AllTyped
<1>1. IInv /\ FunnelInv /\ AsanaInv => AllTyped
  BY DEF AllTyped, IInv, FunnelInv, AsanaInv
<1> QED BY <1>1, InvHolds, FunnelInvHolds, AsanaInvHolds, PTL

\* However the leases on the one mapping of the box come and go, its count is theirs, no
\* lease's mapping is retargeted, the operator's stays and this plugin's own does not
\* (Funnel, tailscale/main.go: funnelOpen, releaseMapping, stop).
THEOREM MappingKeptHolds == ExposuresSpec => []MappingKept
<1>1. FunnelInv => MappingKept
  BY FunnelInvImplies DEF MappingKept
<1> QED BY <1>1, FunnelInvHolds, PTL

\* However many handshakes and deliveries are served at once, and whatever is lost, a
\* process takes its secret from one handshake, knows the webhooks that it established,
\* emits an event again only after DedupMax others were let through, and has every event of
\* a delivery that it took emitted, held by a goroutine or still before the delivery's own
\* (AsanaHook, asana/main.go: acceptHandshake, handle, process).
THEOREM AsanaHoldsAlways == ExposuresSpec => []AsanaHolds
<1>1. AsanaInv => A!NoneRefused
  BY DEF AsanaInv, KnowsInstalled, A!NoneRefused
<1>2. AsanaInv => AsanaHolds
  BY <1>1, OneHandshakeIs, EmittedOnceIs, NonePassedOverIs DEF AsanaHolds
<1> QED BY <1>2, AsanaInvHolds, PTL
=============================================================================
