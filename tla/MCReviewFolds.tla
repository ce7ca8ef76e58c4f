--------------------------- MODULE MCReviewFolds ----------------------------
(* Two small pull requests, one after the other's constants: one of two    *)
(* reviews, and one of a review with two comments and no                   *)
(* changes_requested trigger, whose reads fail and trail the webhooks.  Or *)
(* what is to be covered in the end: one of two reviews with a body alone  *)
(* and no such trigger, which is closed and has a day go by, and one of an *)
(* approval with a comment and of a review that asks for changes in its    *)
(* body, which has a restart; there nothing trails, so that nothing has to *)
(* be shown.                                                               *)
EXTENDS MCReviewFold, ReviewFolds

LiveNext ==
    /\ FoldsNext
    /\ IF which = "one" THEN boot' = 0 ELSE now' = 0 /\ closes' = 0

LiveSpec ==
    /\ FoldsInit /\ [][LiveNext]_<<which, vars>>
    /\ \A d \in Deliveries \cup O!Deliveries :
          WF_vars(IF which = "one" THEN d \in Deliveries /\ Handle(d)
                  ELSE d \in O!Deliveries /\ O!Handle(d))
    /\ WF_vars(IF which = "one" THEN SweepNext ELSE O!SweepNext)

\* Of either, every review is covered in the end (ReviewFold, EventuallyCovered).
DueOf(r)  == IF which = "one" THEN r \in Reviews /\ Due(r) ELSE r \in OtherReviews /\ O!Due(r)
DoneOf(r) == IF which = "one" THEN Done(r) ELSE O!Done(r)
AllCovered == \A r \in Reviews \cup OtherReviews : <>[]Open => (DueOf(r) ~> DoneOf(r))
=============================================================================
