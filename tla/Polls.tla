-------------------------------- MODULE Polls ---------------------------------
(***************************************************************************)
(* The sources that poll a list (StartSource of proxmox, truenas, grafana, *)
(* netdata and smart): read the list, and for each thing on it that is     *)
(* raised emit an event, unless its key is among the last Max that were    *)
(* let through.                                                            *)
(*                                                                         *)
(* Things change while a pass goes over what it has read.  A read of the   *)
(* list may fail, and then there is no pass; smart reads each device as    *)
(* it comes to it, and passes over one that it cannot read.  What is       *)
(* remembered is lost with the process.                                    *)
(***************************************************************************)
EXTENDS Integers, Sequences

CONSTANTS
    Things,    \* tasks, alerts, alarms, disks
    Max,       \* how many keys are remembered (1024 or 2048)
    MaxTurns,  \* bound on the changes of each
    MaxFailures,
    MaxRestarts

\* What a thing may be, which of that is raised, what its key holds, whether a pass goes
\* over a copy of the list, and whether being raised is for good.
Proxmox == [states |-> {"running", "stopped"}, raised |-> {"stopped"}, key |-> {"name"},
            listed |-> TRUE, forGood |-> TRUE]
Truenas == [states |-> {"active", "dismissed"}, raised |-> {"active"}, key |-> {"name"},
            listed |-> TRUE, forGood |-> FALSE]
Grafana == [states |-> {"gone", "suppressed", "active"}, raised |-> {"active"}, key |-> {"name"},
            listed |-> TRUE, forGood |-> FALSE]
Netdata == [states |-> {"CLEAR", "WARNING", "CRITICAL"}, raised |-> {"WARNING", "CRITICAL"},
            key |-> {"name", "status"}, listed |-> TRUE, forGood |-> FALSE]
Smart   == [states |-> {"passed", "failed", "unknown"}, raised |-> {"failed"}, key |-> {"name"},
            listed |-> FALSE, forGood |-> FALSE]

Polled == {Proxmox, Truenas, Grafana, Netdata, Smart}

VARIABLES
    source,    \* which of them
    state,     \* of each thing
    turns,     \* how often each changed
    left,      \* the things that the pass has not come to
    list,      \* what it read of each
    accepted,  \* the keys that were let through since the process began: its events
    failures, restarts

vars == <<source, state, turns, left, list, accepted, failures, restarts>>


TypeOK ==
    /\ source \in Polled
    /\ state \in [Things -> source.states] /\ turns \in [Things -> 0..MaxTurns]
    /\ left \subseteq Things /\ list \in [Things -> source.states]
    /\ failures \in 0..MaxFailures /\ restarts \in 0..MaxRestarts

Init ==
    /\ source \in Polled
    /\ state \in [Things -> source.states \ source.raised]
    /\ turns = [t \in Things |-> 0]
    /\ left = {} /\ list = state /\ accepted = <<>> /\ failures = 0 /\ restarts = 0

W == INSTANCE Window WITH Ids <- {}

KeyOf(t, s) == IF "status" \in source.key THEN <<t, s>> ELSE <<t>>

Change(t, s) == /\ turns[t] < MaxTurns /\ s # state[t]
                /\ ~(source.forGood /\ state[t] \in source.raised)
                /\ turns' = [turns EXCEPT ![t] = @ + 1] /\ state' = [state EXCEPT ![t] = s]
                /\ UNCHANGED <<source, left, list, accepted, failures, restarts>>

Poll == /\ left = {}
        /\ left' = Things /\ list' = state
        /\ UNCHANGED <<source, state, turns, accepted, failures, restarts>>

PollFails == /\ left = {} /\ failures < MaxFailures /\ failures' = failures + 1
             /\ UNCHANGED <<source, state, turns, left, list, accepted, restarts>>

\* The device is not read.
SkipDevice(t) == /\ t \in left /\ ~source.listed /\ failures < MaxFailures
                 /\ failures' = failures + 1 /\ left' = left \ {t}
                 /\ UNCHANGED <<source, state, turns, list, accepted, restarts>>

\* The pass comes to a thing.
Found(t) == IF source.listed THEN list[t] ELSE state[t]

Look(t) ==
    /\ t \in left /\ left' = left \ {t}
    /\ \/ Found(t) \in source.raised /\ W!Accept(KeyOf(t, Found(t)))
       \/ /\ Found(t) \in source.raised => KeyOf(t, Found(t)) \in W!Recent
          /\ accepted' = accepted
    /\ UNCHANGED <<source, state, turns, list, failures, restarts>>

Restart == /\ restarts < MaxRestarts /\ restarts' = restarts + 1
           /\ left' = {} /\ accepted' = <<>>
           /\ UNCHANGED <<source, state, turns, list, failures>>

Next == \/ \E t \in Things : \E s \in source.states : Change(t, s)
        \/ Poll \/ PollFails \/ Restart
        \/ \E t \in Things : SkipDevice(t) \/ Look(t)
Spec == Init /\ [][Next]_vars
Fairness == WF_vars(Poll) /\ \A t \in Things : WF_vars(Look(t))
-----------------------------------------------------------------------------
\* A process tells of a thing's status once, and again only after Max others.
EmittedOnce ==
    \A m, n \in DOMAIN accepted : m < n /\ accepted[m] = accepted[n] => n - m > Max

\* What is raised is told, in the status that it has by now, though passes fail and the
\* process is restarted: again and again there is nothing raised that was not told.
Done(t) == state[t] \in source.raised => \E n \in DOMAIN accepted : accepted[n] = KeyOf(t, state[t])
RaisedIsTold == \A t \in Things : []<>Done(t)
=============================================================================
