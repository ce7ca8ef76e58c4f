--------------------------------- MODULE Queue --------------------------------
(***************************************************************************)
(* The source of aws-sqs (StartSource): receive a batch, and for each of   *)
(* its messages emit it and then delete it.  The queue hides a message     *)
(* that was received until its visibility timeout ends, which may be while *)
(* the batch is worked on; an answer of the queue may be lost, and so may  *)
(* the process.  Nothing is deduplicated.  Without auto_delete the         *)
(* workflow deletes the message that it was told of.                       *)
(***************************************************************************)
EXTENDS Naturals

CONSTANTS
    Messages,
    MaxTold,  \* bound on the tellings that are counted
    MaxLost   \* bound on the answers that are lost or hold less, and on the crashes

VARIABLES
    queue,       \* where each message is: not sent, seen by a receive, hidden, or deleted
    autoDelete,
    batch,       \* the messages received and not worked on yet
    deleting,    \* the one that was emitted and is being deleted
    told,        \* history: how often each was emitted
    lost

vars == <<queue, autoDelete, batch, deleting, told, lost>>

TypeOK ==
    /\ queue \in [Messages -> {"unsent", "visible", "hidden", "deleted"}]
    /\ autoDelete \in BOOLEAN
    /\ batch \subseteq Messages /\ deleting \subseteq Messages
    /\ told \in [Messages -> 0..MaxTold] /\ lost \in 0..MaxLost

Init == /\ queue = [m \in Messages |-> "unsent"] /\ autoDelete \in BOOLEAN
        /\ batch = {} /\ deleting = {} /\ told = [m \in Messages |-> 0] /\ lost = 0

\* The queue.
Send(m) == /\ queue[m] = "unsent" /\ queue' = [queue EXCEPT ![m] = "visible"]
           /\ UNCHANGED <<autoDelete, batch, deleting, told, lost>>

Reappear(m) == /\ queue[m] = "hidden" /\ queue' = [queue EXCEPT ![m] = "visible"]
               /\ UNCHANGED <<autoDelete, batch, deleting, told, lost>>

\* The verb delete_message.
DeleteVerb(m) == /\ ~autoDelete /\ told[m] > 0 /\ queue[m] # "deleted"
                 /\ queue' = [queue EXCEPT ![m] = "deleted"]
                 /\ UNCHANGED <<autoDelete, batch, deleting, told, lost>>

Visible == {m \in Messages : queue[m] = "visible"}

\* It answers with what is visible, or for once with some of it (max_messages); the answer
\* may be lost, of which the queue does not know.
Receive(got) ==
    /\ batch = {} /\ deleting = {}
    /\ got # {} /\ got \subseteq Visible
    /\ queue' = [m \in Messages |-> IF m \in got THEN "hidden" ELSE queue[m]]
    /\ \/ got = Visible /\ batch' = got /\ lost' = lost
       \/ lost < MaxLost /\ lost' = lost + 1 /\ batch' \in {{}, got}
    /\ UNCHANGED <<autoDelete, deleting, told>>

Tells(m) == told' = [told EXCEPT ![m] = IF @ < MaxTold THEN @ + 1 ELSE @]

\* One that the daemon does not take stays in the queue.
Emit(m) ==
    /\ m \in batch /\ deleting = {} /\ batch' = batch \ {m}
    /\ \/ /\ Tells(m) /\ deleting' = (IF autoDelete THEN {m} ELSE {}) /\ lost' = lost
       \/ /\ lost < MaxLost /\ lost' = lost + 1 /\ UNCHANGED <<told, deleting>>
    /\ UNCHANGED <<queue, autoDelete>>

Delete(m) ==
    /\ m \in deleting /\ deleting' = {}
    /\ \/ queue' = [queue EXCEPT ![m] = "deleted"] /\ lost' = lost
       \/ lost < MaxLost /\ lost' = lost + 1 /\ queue' = queue
    /\ UNCHANGED <<autoDelete, batch, told>>

Crash == /\ lost < MaxLost /\ lost' = lost + 1
         /\ batch' = {} /\ deleting' = {}
         /\ UNCHANGED <<queue, autoDelete, told>>

Next == \/ \E m \in Messages : \/ Send(m) \/ Reappear(m) \/ DeleteVerb(m)
                               \/ Emit(m) \/ Delete(m)
        \/ \E got \in SUBSET Messages : Receive(got)
        \/ Crash

Spec == Init /\ [][Next]_vars

\* The loop goes on, and what is hidden reappears.
Work     == \E m \in Messages : Emit(m) \/ Delete(m)
Fairness == /\ WF_vars(Receive(Visible)) /\ WF_vars(Work)
            /\ \A m \in Messages : WF_vars(Reappear(m))
-----------------------------------------------------------------------------
\* No message is emitted before it was sent, through failed emits and deletes, lost answers
\* and crashes.
F == INSTANCE Feed WITH Once <- FALSE, sent <- {m \in Messages : queue[m] # "unsent"}
IsFeed == F!Spec

\* What is deleted was told.
DeletedWasTold == \A m \in Messages : queue[m] = "deleted" => told[m] > 0

\* A message in the queue is emitted in the end (aws-sqs.md: a message that could not be
\* handed off is left on the queue and redelivered).
Due(m)  == queue[m] # "unsent"
Done(m) == told[m] > 0
NothingLost == \A m \in Messages : Due(m) ~> Done(m)
=============================================================================
