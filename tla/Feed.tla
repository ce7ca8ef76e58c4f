--------------------------------- MODULE Feed ---------------------------------
(***************************************************************************)
(* What a source promises of the messages that it follows: only a message  *)
(* that was sent is told, and, where Once holds, no more than once.        *)
(***************************************************************************)
EXTENDS Naturals

CONSTANTS Messages, Once

VARIABLES
    sent,  \* the messages that were sent
    told   \* how often each was told

Init == sent = {} /\ told = [m \in Messages |-> 0]

Send(m) == /\ m \notin sent /\ sent' = sent \cup {m} /\ told' = told

Tell(m) == /\ m \in sent /\ (Once => told[m] = 0)
           /\ told' = [told EXCEPT ![m] = @ + 1] /\ sent' = sent

Next == \E m \in Messages : Send(m) \/ Tell(m)

Spec == Init /\ [][Next]_<<sent, told>>
=============================================================================
