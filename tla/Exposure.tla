------------------------------- MODULE Exposure -------------------------------
(***************************************************************************)
(* Tunnels and their leases (internal/exposurekit: Leases, RunAndScan and  *)
(* ProcessReaper; connectors/cloudflared, ngrok, localxpose, sshtunnel:    *)
(* open, close, Stop and the end of main).                                 *)
(*                                                                         *)
(* An open starts a process in a group of its own and waits for its URL.   *)
(* Then it records a lease, whose release stops the process, unless the    *)
(* instance holds as many as it may, in which case it stops the process    *)
(* itself.  Opens run concurrently with closes, with instances that go     *)
(* away and with the end of the plugin, and the process can exit of its    *)
(* own accord at any moment; a goroutine of its own reaps it.              *)
(*                                                                         *)
(* An open, its lease and its process are named alike.  The processes that *)
(* the tunnel starts are modelled as one, its helper.                      *)
(***************************************************************************)
EXTENDS Integers, FiniteSets

CONSTANTS
    Opens,          \* calls of the open verb
    Instances,      \* connector instances
    InstanceOf,     \* the instance an open is for
    Max,            \* how many leases an instance may hold (16)
    Closers,        \* goroutines that serve close, stop and the end of main
    Nobody,         \* no lease
    MaxCalls        \* bound on the calls the closers serve

ASSUME CallAssumption ==
    /\ InstanceOf \in [Opens -> Instances] /\ Nobody \notin Opens /\ IsFiniteSet(Opens)
ASSUME BoundAssumption == Max \in Nat /\ MaxCalls \in Nat

VARIABLES
    pc,         \* where each open is
    proc,       \* its process
    helper,     \* the process's helper is alive
    crashed,    \* history: the process exited of its own accord
    exited,     \* ProcessReaper.exited
    stop,       \* how far its stop has come
    table,      \* Leases.m
    todo,       \* the leases a closer has yet to release
    current,    \* the lease whose stop a closer runs
    calls       \* how many calls the closers served

process == <<proc, helper, crashed>>
closing == <<todo, current, calls>>
vars    == <<pc, process, exited, stop, table, closing>>

HeldBy(i) == {o \in table : InstanceOf[o] = i}

TypeOK ==
    /\ pc \in [Opens -> {"new", "scanning", "adding", "undoing", "leased", "failed"}]
    /\ proc \in [Opens -> {"none", "alive", "zombie", "reaped"}]
    /\ helper \in [Opens -> BOOLEAN] /\ crashed \in [Opens -> BOOLEAN]
    /\ exited \in [Opens -> BOOLEAN]
    /\ stop \in [Opens -> {"no", "killing", "cancelling", "waiting", "done"}]
    /\ table \subseteq {o \in Opens : pc[o] = "leased"}
    /\ todo \in [Closers -> SUBSET Opens] /\ current \in [Closers -> Opens \cup {Nobody}]
    /\ calls \in 0..MaxCalls

Init ==
    /\ pc = [o \in Opens |-> "new"]
    /\ proc = [o \in Opens |-> "none"] /\ helper = [o \in Opens |-> FALSE]
    /\ crashed = [o \in Opens |-> FALSE] /\ exited = [o \in Opens |-> FALSE]
    /\ stop = [o \in Opens |-> "no"]
    /\ table = {}
    /\ todo = [c \in Closers |-> {}] /\ current = [c \in Closers |-> Nobody] /\ calls = 0

-----------------------------------------------------------------------------
(* The process.                                                            *)

\* It exits of its own accord; the helper goes with it or stays.
Crash(o) ==
    /\ proc[o] = "alive"
    /\ proc' = [proc EXCEPT ![o] = "zombie"] /\ crashed' = [crashed EXCEPT ![o] = TRUE]
    /\ \E left \in {helper[o], FALSE} : helper' = [helper EXCEPT ![o] = left]
    /\ UNCHANGED <<pc, exited, stop, table, closing>>

\* cmd.Wait returns: the process is reaped.
Reap(o) ==
    /\ proc[o] = "zombie"
    /\ proc' = [proc EXCEPT ![o] = "reaped"]
    /\ UNCHANGED <<pc, helper, crashed, exited, stop, table, closing>>

\* ProcessReaper.Wait records it.
Record(o) ==
    /\ proc[o] = "reaped" /\ ~exited[o]
    /\ exited' = [exited EXCEPT ![o] = TRUE]
    /\ UNCHANGED <<pc, process, stop, table, closing>>

-----------------------------------------------------------------------------
(* The stop of a process, once per process, by whoever took its lease.     *)

\* The process group is signalled, found by the pid while that is not reaped.
KillProcessGroup(o) ==
    IF proc[o] = "reaped" THEN UNCHANGED <<proc, helper>>
    ELSE /\ proc' = [proc EXCEPT ![o] = "zombie"]
         /\ helper' = [helper EXCEPT ![o] = FALSE]

\* Seeded bug: the direct child goes first, with its context.
KillChildAlone(o) ==
    /\ stop[o] = "killing" /\ stop' = [stop EXCEPT ![o] = "cancelling"]
    /\ proc' = [proc EXCEPT ![o] = IF @ = "alive" THEN "zombie" ELSE @]
    /\ UNCHANGED <<pc, helper, crashed, exited, table, closing>>

KillIfRunning(o) ==
    /\ stop[o] = "killing" /\ stop' = [stop EXCEPT ![o] = "cancelling"]
    /\ IF exited[o] THEN UNCHANGED <<proc, helper>> ELSE KillProcessGroup(o)
    /\ UNCHANGED <<pc, crashed, exited, table, closing>>

\* The context ends, and with it the process, were it still alive.
Cancel(o) ==
    /\ stop[o] = "cancelling" /\ stop' = [stop EXCEPT ![o] = "waiting"]
    /\ proc' = [proc EXCEPT ![o] = IF @ = "alive" THEN "zombie" ELSE @]
    /\ UNCHANGED <<pc, helper, crashed, exited, table, closing>>

AwaitReaped(o) ==
    /\ stop[o] = "waiting" /\ exited[o]
    /\ stop' = [stop EXCEPT ![o] = "done"]
    /\ UNCHANGED <<pc, process, exited, table, closing>>

-----------------------------------------------------------------------------
(* The open verb.                                                          *)

\* The process starts, or cannot be.
Start(o) ==
    /\ pc[o] = "new"
    /\ \/ pc' = [pc EXCEPT ![o] = "failed"] /\ UNCHANGED <<proc, helper>>
       \/ /\ pc' = [pc EXCEPT ![o] = "scanning"]
          /\ proc' = [proc EXCEPT ![o] = "alive"] /\ helper' = [helper EXCEPT ![o] = TRUE]
    /\ UNCHANGED <<crashed, exited, stop, table, closing>>

\* It printed its URL, and may have exited since.
Found(o) ==
    /\ pc[o] = "scanning" /\ pc' = [pc EXCEPT ![o] = "adding"]
    /\ UNCHANGED <<process, exited, stop, table, closing>>

\* No URL in time.
TimeOut(o) ==
    /\ pc[o] = "scanning" /\ pc' = [pc EXCEPT ![o] = "undoing"]
    /\ stop' = [stop EXCEPT ![o] = "killing"]
    /\ UNCHANGED <<process, exited, table, closing>>

\* Seeded bugs: the instance is full and the process is left alone; the check
\* lets one too many through; the lease is recorded before the check.
AddCappedOnly(o) ==
    /\ pc[o] = "adding"
    /\ IF Cardinality(HeldBy(InstanceOf[o])) < Max
       THEN table' = table \cup {o} /\ pc' = [pc EXCEPT ![o] = "leased"]
       ELSE pc' = [pc EXCEPT ![o] = "failed"] /\ UNCHANGED table
    /\ UNCHANGED <<process, exited, stop, closing>>
AddCappedLate(o) ==
    /\ pc[o] = "adding"
    /\ IF Cardinality(HeldBy(InstanceOf[o])) <= Max
       THEN table' = table \cup {o} /\ pc' = [pc EXCEPT ![o] = "leased"] /\ UNCHANGED stop
       ELSE /\ pc' = [pc EXCEPT ![o] = "undoing"] /\ stop' = [stop EXCEPT ![o] = "killing"]
            /\ UNCHANGED table
    /\ UNCHANGED <<process, exited, closing>>

AddCappedFirst(o) ==
    /\ pc[o] = "adding" /\ table' = table \cup {o}
    /\ IF Cardinality(HeldBy(InstanceOf[o])) < Max
       THEN pc' = [pc EXCEPT ![o] = "leased"] /\ UNCHANGED stop
       ELSE pc' = [pc EXCEPT ![o] = "undoing"] /\ stop' = [stop EXCEPT ![o] = "killing"]
    /\ UNCHANGED <<process, exited, closing>>

\* AddCapped; an open that gets no lease stops its process.
AddCapped(o) ==
    /\ pc[o] = "adding"
    /\ IF Cardinality(HeldBy(InstanceOf[o])) < Max
       THEN table' = table \cup {o} /\ pc' = [pc EXCEPT ![o] = "leased"] /\ UNCHANGED stop
       ELSE /\ pc' = [pc EXCEPT ![o] = "undoing"] /\ stop' = [stop EXCEPT ![o] = "killing"]
            /\ UNCHANGED table
    /\ UNCHANGED <<process, exited, closing>>

Undone(o) ==
    /\ pc[o] = "undoing" /\ stop[o] = "done" /\ pc' = [pc EXCEPT ![o] = "failed"]
    /\ UNCHANGED <<process, exited, stop, table, closing>>

-----------------------------------------------------------------------------
(* Closing: the leases to release are looked up first, then released one   *)
(* by one.                                                                 *)

Call(c, leases) ==
    /\ todo[c] = {} /\ current[c] = Nobody /\ calls < MaxCalls
    /\ todo' = [todo EXCEPT ![c] = leases] /\ calls' = calls + 1
    /\ UNCHANGED <<pc, process, exited, stop, table, current>>

\* The close verb takes any lease handed out, also one that is closed.
Close(c, o)        == pc[o] = "leased" /\ Call(c, {o})
StopInstance(c, i) == Call(c, HeldBy(i))
ReleaseAll(c)      == Call(c, table)

\* Seeded bugs: the entry stays in the table; it is gone before it is looked up.
ReleaseKeeping(c, o) ==
    /\ current[c] = Nobody /\ o \in todo[c]
    /\ todo' = [todo EXCEPT ![c] = @ \ {o}]
    /\ IF o \in table
       THEN stop' = [stop EXCEPT ![o] = "killing"] /\ current' = [current EXCEPT ![c] = o]
       ELSE UNCHANGED <<stop, current>>
    /\ UNCHANGED <<pc, process, exited, table, calls>>
ReleaseUnseen(c, o) ==
    /\ current[c] = Nobody /\ o \in todo[c]
    /\ todo' = [todo EXCEPT ![c] = @ \ {o}] /\ table' = table \ {o}
    /\ UNCHANGED <<pc, process, exited, stop, current, calls>>

\* Leases.Release: whoever takes the entry out of the table runs its stop.
Release(c, o) ==
    /\ current[c] = Nobody /\ o \in todo[c]
    /\ todo' = [todo EXCEPT ![c] = @ \ {o}]
    /\ IF o \in table
       THEN /\ table' = table \ {o} /\ stop' = [stop EXCEPT ![o] = "killing"]
            /\ current' = [current EXCEPT ![c] = o]
       ELSE UNCHANGED <<table, stop, current>>
    /\ UNCHANGED <<pc, process, exited, calls>>

Released(c) ==
    /\ current[c] # Nobody /\ stop[current[c]] = "done"
    /\ current' = [current EXCEPT ![c] = Nobody]
    /\ UNCHANGED <<pc, process, exited, stop, table, todo, calls>>

Serving(o)  == TimeOut(o) \/ AddCapped(o) \/ Undone(o)
Stopping(o) == KillIfRunning(o) \/ Cancel(o) \/ AwaitReaped(o)
Reaping(o)  == Reap(o) \/ Record(o)
Closing(c)  == (\E o \in Opens : Release(c, o)) \/ Released(c)

Next == \/ \E o \in Opens : Start(o) \/ Found(o) \/ Serving(o) \/ Stopping(o) \/ Reaping(o) \/ Crash(o)
        \/ \E c \in Closers : \/ Closing(c)
                              \/ \E o \in Opens : Close(c, o)
                              \/ \E i \in Instances : StopInstance(c, i)
                              \/ ReleaseAll(c)

Spec == Init /\ [][Next]_vars

\* Goroutines run on, the wait for the URL ends in time, and what is dead is
\* reaped.
Fairness ==
    /\ \A o \in Opens : WF_vars(Serving(o)) /\ WF_vars(Stopping(o)) /\ WF_vars(Reaping(o))
    /\ \A c \in Closers : WF_vars(Closing(c))
FairSpec == Spec /\ Fairness

-----------------------------------------------------------------------------
\* A process that runs belongs to somebody: to the open that waits for it, to a
\* lease, or to the task that is stopping it (exposurekit.go, AddCapped: the
\* caller is responsible for tearing down whatever it already started).
NoOrphan ==
    \A o \in Opens :
        proc[o] = "alive" => \/ pc[o] \in {"scanning", "adding", "undoing"}
                             \/ o \in table
                             \/ \E c \in Closers : current[c] = o

\* An instance holds no more leases than it may, though opens race each other
\* (exposurekit.go, AddCapped: concurrent opens cannot both slip past the cap).
CapHolds == \A i \in Instances : Cardinality(HeldBy(i)) <= Max

\* A stop leaves nothing of the group, unless the process had exited before
\* (exposurekit.go, RunAndScan: kill the group before cancel).
HelpersDie == \A o \in Opens : (stop[o] = "done" /\ ~crashed[o]) => ~helper[o]

\* Two closers never run the stop of one lease, though close, stop and the end
\* of main look their leases up at the same time (exposurekit.go, Release).
OneStopper ==
    \A c, d \in Closers : (c # d /\ current[c] # Nobody) => current[c] # current[d]

\* Every open returns, and what is to be released is gone in the end
\* (exposurekit.go, ReleaseAll: a main that just exits leaves every tunnel).
OpensReturn  == \A o \in Opens : pc[o] = "scanning" ~> pc[o] \in {"leased", "failed"}
ReleasedEnds == \A o \in Opens, c \in Closers :
                    o \in todo[c] ~> (o \notin table /\ proc[o] = "reaped")
=============================================================================
