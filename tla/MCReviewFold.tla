---------------------------- MODULE MCReviewFold ----------------------------
(* Small pull requests for ReviewFold.                                     *)
EXTENDS ReviewFold

\* Review 1 comments inline, review 2 asks for changes in its body.
TwoReviewOf == [c \in {11} |-> 1]
TwoState    == [r \in {1, 2} |-> IF r = 1 THEN "commented" ELSE "changes_requested"]

\* Two reviews with something in their body alone.
NoComments  == [c \in {} |-> 0]
BothComment == [r \in {1, 2} |-> "commented"]

\* One review with two inline comments.
OneReviewOf == [c \in {11, 12} |-> 1]
OneState    == [r \in {1} |-> "commented"]

\* Review 1 approves with a comment, review 2 asks for changes in its body.
ApprovedState == [r \in {1, 2} |-> IF r = 1 THEN "approved" ELSE "changes_requested"]
=============================================================================
