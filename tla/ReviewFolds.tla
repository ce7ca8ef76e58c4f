------------------------------ MODULE ReviewFolds ------------------------------
(* Two pull requests, each with reviews and a configuration of its own: a  *)
(* behaviour is one of one of them.  They have the clock, the cache's size *)
(* and the bounds in common.                                               *)
EXTENDS ReviewFold

CONSTANTS
    OtherReviews, OtherComments, OtherReviewOf, OtherState, OtherHasBody,
    OtherConfigured, OtherFirst, OtherTakes, OtherReadsFail, OtherTrailing

ASSUME OtherIdAssumption ==
    /\ OtherReviews \subseteq Nat \ {0} /\ OtherComments \subseteq Nat \ {0}
    /\ OtherReviews \cap OtherComments = {}
    /\ IsFiniteSet(OtherReviews) /\ IsFiniteSet(OtherComments)
ASSUME OtherReviewAssumption ==
    /\ OtherReviewOf \in [OtherComments -> OtherReviews]
    /\ OtherState \in [OtherReviews -> {"approved", "commented", "changes_requested"}]
    /\ OtherHasBody \subseteq OtherReviews /\ OtherTakes \subseteq OtherReviews
ASSUME OtherConfigAssumption ==
    /\ OtherConfigured \in BOOLEAN /\ OtherFirst \subseteq BOOLEAN /\ OtherReadsFail \in BOOLEAN
    /\ OtherTrailing \subseteq OtherReviews \cup OtherComments
    /\ (OtherTakes # {} \/ TRUE \in OtherFirst) => OtherConfigured

VARIABLE which

O == INSTANCE ReviewFold WITH
        Reviews <- OtherReviews, Comments <- OtherComments, ReviewOf <- OtherReviewOf,
        State <- OtherState, HasBody <- OtherHasBody, CRConfigured <- OtherConfigured,
        CRFirst <- OtherFirst, CRTakes <- OtherTakes, ReadsFail <- OtherReadsFail,
        Trailing <- OtherTrailing

FoldsInit ==
    \/ which = "one" /\ Init
    \/ which = "other" /\ O!Init

FoldsNext ==
    \/ which = "one" /\ Next /\ UNCHANGED which
    \/ which = "other" /\ O!Next /\ UNCHANGED which

FoldsSpec == FoldsInit /\ [][FoldsNext]_<<which, vars>>

-----------------------------------------------------------------------------
\* The types of both.
AllTyped == IF which = "one" THEN TypeOK ELSE O!TypeOK

\* Of either, no review is won twice while a claim on it is fresh (reviewCache.claim).
OneEventForAll == IF which = "one" THEN OneEventPerReview ELSE O!OneEventPerReview

\* Of either, no new_comment runs twice, but for a comment that stood alone and comes again
\* with its review (reviewfold.go, reviewNewComment).
NewCommentsRunOnce == IF which = "one" THEN NewCommentRunsOnce ELSE O!NewCommentRunsOnce

\* Of either, the cursor passes no review that waits and that no run carried (feedback.go,
\* reviewFold; sweep.go, sweepUnresolvedComments).
CursorsCover == IF which = "one" THEN CursorCovers ELSE O!CursorCovers
=============================================================================
