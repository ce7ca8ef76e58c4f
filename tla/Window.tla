-------------------------------- MODULE Window --------------------------------
(***************************************************************************)
(* What a bounded set of recently seen ids promises: an id is let through  *)
(* unless it is among the last Max that were.                              *)
(***************************************************************************)
EXTENDS Integers, Sequences

CONSTANTS
    Ids,    \* delivery ids
    Max     \* how many are remembered

VARIABLE accepted   \* the ids let through, in order

Recent == {accepted[k] : k \in {i \in DOMAIN accepted : i > Len(accepted) - Max}}

Accept(id) ==
    /\ id \notin Recent
    /\ accepted' = Append(accepted, id)

Init == accepted = <<>>
Next == \E id \in Ids : Accept(id)
Spec == Init /\ [][Next]_accepted
=============================================================================
