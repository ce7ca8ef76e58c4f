-------------------------- MODULE ReviewFolds_proofs --------------------------
(***************************************************************************)
(* What is proved of one pull request holds of each of two, whatever their *)
(* reviews and their configurations.  P is the other one with its lemmas:  *)
(* its definitions are those of O, and its assumptions the other's.        *)
(***************************************************************************)
EXTENDS ReviewFolds, ReviewFold_proofs

P == INSTANCE ReviewFold_proofs WITH
        Reviews <- OtherReviews, Comments <- OtherComments, ReviewOf <- OtherReviewOf,
        State <- OtherState, HasBody <- OtherHasBody, CRConfigured <- OtherConfigured,
        CRFirst <- OtherFirst, CRTakes <- OtherTakes, ReadsFail <- OtherReadsFail,
        Trailing <- OtherTrailing

-----------------------------------------------------------------------------
(* O and P are the same pull request. *)

LEMMA SameInit == ASSUME O!Init PROVE P!Init
BY Zenon
   DEF O!Never, P!Never, O!Sweeper, P!Sweeper, O!Deliveries, P!Deliveries, O!Tasks, P!Tasks,
       O!Streams, P!Streams, O!Init, P!Init

LEMMA SameNext == ASSUME O!Next PROVE P!Next
BY Zenon
   DEF O!Cardinality, P!Cardinality, O!IsFiniteSet, P!IsFiniteSet, O!github, P!github,
       O!cache, P!cache, O!tasks, P!tasks, O!sweep, P!sweep, O!engine, P!engine, O!Never,
       P!Never, O!Sweeper, P!Sweeper, O!Deliveries, P!Deliveries, O!Tasks, P!Tasks,
       O!CommentsOf, P!CommentsOf, O!Subject, P!Subject, O!Open, P!Open, O!Greatest,
       P!Greatest, O!Fresh, P!Fresh, O!Entries, P!Entries, O!FreshOnes, P!FreshOnes, O!Only,
       P!Only, O!Claimed, P!Claimed, O!Put, P!Put, O!CanClaim, P!CanClaim, O!Claim, P!Claim,
       O!BodyFeedback, P!BodyFeedback, O!TakenAsChangesRequested, P!TakenAsChangesRequested,
       O!NewComment, P!NewComment, O!Standalone, P!Standalone, O!Unaddressed, P!Unaddressed,
       O!FoldOf, P!FoldOf, O!ReviewFoldOf, P!ReviewFoldOf, O!SweepFoldOf, P!SweepFoldOf,
       O!Submit, P!Submit, O!Show, P!Show, O!Address, P!Address, O!CloseOrReopen,
       P!CloseOrReopen, O!Lose, P!Lose, O!Tick, P!Tick, O!Restart, P!Restart, O!Stop,
       P!Stop, O!EmitNext, P!EmitNext, O!StartReview, P!StartReview, O!ReceiveClosed,
       P!ReceiveClosed, O!ReceiveReview, P!ReceiveReview, O!ReceiveComment,
       P!ReceiveComment, O!Receive, P!Receive, O!List, P!List, O!AsChangesRequested,
       P!AsChangesRequested, O!AsNewComment, P!AsNewComment, O!AlreadyClaimed,
       P!AlreadyClaimed, O!NotAnEvent, P!NotAnEvent, O!Decide, P!Decide, O!Fold, P!Fold,
       O!SweptBodies, P!SweptBodies, O!Recent, P!Recent, O!Swept, P!Swept, O!SweepRead, P!SweepRead,
       O!SweepBody, P!SweepBody, O!SweepList, P!SweepList, O!SweepVisit, P!SweepVisit,
       O!SweepClaim, P!SweepClaim, O!SweepDone, P!SweepDone, O!Dispatch, P!Dispatch, O!Emit,
       P!Emit, O!Handle, P!Handle, O!SweepNext, P!SweepNext, O!World, P!World, O!Next,
       P!Next

LEMMA SameStep ==
    ASSUME which = "other", [FoldsNext]_<<which, vars>>
    PROVE  which' = "other" /\ [P!Next]_P!vars
BY SameNext DEF FoldsNext, vars, github, cache, tasks, sweep, engine,
   P!vars, P!github, P!cache, P!tasks, P!sweep, P!engine

LEMMA OneStepped ==
    ASSUME which = "one", [FoldsNext]_<<which, vars>>
    PROVE  which' = "one" /\ [Next]_vars
BY DEF FoldsNext

LEMMA SameType == ASSUME P!TypeOK PROVE O!TypeOK
BY Zenon
   DEF O!Never, P!Never, O!Sweeper, P!Sweeper, O!Deliveries, P!Deliveries, O!Tasks, P!Tasks,
       O!Streams, P!Streams, O!Event, P!Event, O!Win, P!Win, O!TypeOK, P!TypeOK

LEMMA SameOne == ASSUME P!OneEventPerReview PROVE O!OneEventPerReview
BY Zenon
   DEF O!OneEventPerReview, P!OneEventPerReview

LEMMA SameRuns == ASSUME P!NewCommentRunsOnce PROVE O!NewCommentRunsOnce
BY Zenon
   DEF O!NewCommentRunsOnce, P!NewCommentRunsOnce

LEMMA SameCursor == ASSUME P!CursorCovers PROVE O!CursorCovers
BY Zenon
   DEF O!CommentsOf, P!CommentsOf, O!BodyFeedback, P!BodyFeedback, O!Unaddressed,
       P!Unaddressed, O!Covered, P!Covered, O!CursorCovers, P!CursorCovers

-----------------------------------------------------------------------------
(* The lemmas of the other. *)

LEMMA OtherInitType == ASSUME P!Init PROVE P!TypeOK
BY P!InitType, OtherIdAssumption, OtherReviewAssumption, OtherConfigAssumption, BoundAssumption
   DEF IsFiniteSet, P!IsFiniteSet

LEMMA OtherType == ASSUME P!TypeOK, [P!Next]_P!vars PROVE P!TypeOK'
BY P!StepType, OtherIdAssumption, OtherReviewAssumption, OtherConfigAssumption, BoundAssumption
   DEF IsFiniteSet, P!IsFiniteSet

LEMMA OtherInitOne == ASSUME P!Init PROVE P!IInv
BY P!InitOne, OtherIdAssumption, OtherReviewAssumption, OtherConfigAssumption, BoundAssumption
   DEF IsFiniteSet, P!IsFiniteSet

LEMMA OtherOne == ASSUME P!IInv, [P!Next]_P!vars PROVE P!IInv'
BY P!OneStep, OtherIdAssumption, OtherReviewAssumption, OtherConfigAssumption, BoundAssumption
   DEF IsFiniteSet, P!IsFiniteSet

LEMMA OtherInitCursor == ASSUME P!Init PROVE P!CursorInv
BY P!InitCursor, OtherIdAssumption, OtherReviewAssumption, OtherConfigAssumption, BoundAssumption
   DEF IsFiniteSet, P!IsFiniteSet

LEMMA OtherCursor == 
    ASSUME P!TypeOK, P!CursorInv, OtherReadsFail = FALSE, OtherTrailing = {}, [P!Next]_P!vars
    PROVE  P!CursorInv'
BY P!CursorStep, OtherIdAssumption, OtherReviewAssumption, OtherConfigAssumption, BoundAssumption
   DEF IsFiniteSet, P!IsFiniteSet

LEMMA OtherCovers == ASSUME P!CursorInv PROVE P!CursorCovers
BY P!CursorMeans, OtherIdAssumption, OtherReviewAssumption, OtherConfigAssumption, BoundAssumption
   DEF IsFiniteSet, P!IsFiniteSet

LEMMA OtherInitRuns == ASSUME P!Init PROVE P!RunsInv
BY P!InitRuns, OtherIdAssumption, OtherReviewAssumption, OtherConfigAssumption, BoundAssumption
   DEF IsFiniteSet, P!IsFiniteSet

LEMMA OtherRuns == 
    ASSUME P!TypeOK, P!RunsInv, OtherTrailing \cap OtherComments = {}, [P!Next]_P!vars
    PROVE  P!RunsInv'
BY P!RunsKept, OtherIdAssumption, OtherReviewAssumption, OtherConfigAssumption, BoundAssumption
   DEF IsFiniteSet, P!IsFiniteSet

LEMMA OtherRunsOnce == ASSUME P!TypeOK, P!RunsInv PROVE P!NewCommentRunsOnce
BY P!RunsMean, OtherIdAssumption, OtherReviewAssumption, OtherConfigAssumption, BoundAssumption
   DEF IsFiniteSet, P!IsFiniteSet

-----------------------------------------------------------------------------
(* What each keeps, a behaviour of either keeps. *)

\* Every variable keeps its type: the cache's tables, the tasks' locals, the engine's marks,
\* over every interleaving of deliveries, sweep and restarts.
THEOREM FoldsTyped == FoldsSpec => []AllTyped
<1> DEFINE Inv == \/ which = "one" /\ TypeOK
                  \/ which = "other" /\ P!TypeOK
<1>1. FoldsInit => Inv
  BY InitType, SameInit, OtherInitType DEF FoldsInit
<1>2. Inv /\ [FoldsNext]_<<which, vars>> => Inv'
  <2> SUFFICES ASSUME Inv, [FoldsNext]_<<which, vars>> PROVE Inv'
    OBVIOUS
  <2>1. CASE which = "one"
    BY <2>1, OneStepped, StepType
  <2>2. CASE which = "other"
    BY <2>2, SameStep, OtherType
  <2> QED BY <2>1, <2>2
<1>3. Inv => AllTyped
  BY SameType DEF AllTyped
<1> QED BY <1>1, <1>2, <1>3, PTL DEF FoldsSpec

\* ONE REVIEW SUBMISSION IS ONE EVENT: no interleaving of deliveries, sweep
\* and full tables lets two tasks win the same review while a claim on it is
\* fresh (reviewCache.claim).
THEOREM OneEvent == FoldsSpec => []OneEventForAll
<1> DEFINE Inv == \/ which = "one" /\ IInv
                  \/ which = "other" /\ P!IInv
<1>1. FoldsInit => Inv
  BY InitOne, SameInit, OtherInitOne DEF FoldsInit
<1>2. Inv /\ [FoldsNext]_<<which, vars>> => Inv'
  <2> SUFFICES ASSUME Inv, [FoldsNext]_<<which, vars>> PROVE Inv'
    OBVIOUS
  <2>1. CASE which = "one"
    BY <2>1, OneStepped, OneStep
  <2>2. CASE which = "other"
    BY <2>2, SameStep, OtherOne
  <2> QED BY <2>1, <2>2
<1>3. Inv => OneEventForAll
  BY SameOne DEF OneEventForAll, IInv, P!IInv
<1> QED BY <1>1, <1>2, <1>3, PTL DEF FoldsSpec

\* The cursor never passes a review that waits and that no run carried, as long as
\* reads do not fail and do not trail: in whatever order the folds of the tasks
\* are read and dispatched, and whatever is lost or restarted (feedback.go,
\* reviewFold; sweep.go, sweepUnresolvedComments).
THEOREM CursorsCoverHolds ==
    ASSUME /\ ReadsFail = FALSE /\ Trailing = {}
           /\ OtherReadsFail = FALSE /\ OtherTrailing = {}
    PROVE  FoldsSpec => []CursorsCover
<1> DEFINE Inv == \/ which = "one" /\ TypeOK /\ CursorInv
                  \/ which = "other" /\ P!TypeOK /\ P!CursorInv
<1>1. FoldsInit => Inv
  BY InitType, InitCursor, SameInit, OtherInitType, OtherInitCursor DEF FoldsInit
<1>2. Inv /\ [FoldsNext]_<<which, vars>> => Inv'
  <2> SUFFICES ASSUME Inv, [FoldsNext]_<<which, vars>> PROVE Inv'
    OBVIOUS
  <2>1. CASE which = "one"
    BY <2>1, OneStepped, StepType, CursorStep
  <2>2. CASE which = "other"
    BY <2>2, SameStep, OtherType, OtherCursor
  <2> QED BY <2>1, <2>2
<1>3. Inv => CursorsCover
  BY CursorMeans, OtherCovers, SameCursor DEF CursorsCover
<1> QED BY <1>1, <1>2, <1>3, PTL DEF FoldsSpec

\* No new_comment runs twice, but for a comment that stood alone and comes again
\* with its review, wherever the comments of a review do not trail: whatever else
\* trails or fails, and across restarts and expired claims (reviewfold.go,
\* reviewNewComment, maxCommentID).
THEOREM NewCommentsRunOnceHolds ==
    ASSUME /\ Trailing \cap Comments = {}
           /\ OtherTrailing \cap OtherComments = {}
    PROVE  FoldsSpec => []NewCommentsRunOnce
<1> DEFINE Inv == \/ which = "one" /\ TypeOK /\ RunsInv
                  \/ which = "other" /\ P!TypeOK /\ P!RunsInv
<1>1. FoldsInit => Inv
  BY InitType, InitRuns, SameInit, OtherInitType, OtherInitRuns DEF FoldsInit
<1>2. Inv /\ [FoldsNext]_<<which, vars>> => Inv'
  <2> SUFFICES ASSUME Inv, [FoldsNext]_<<which, vars>> PROVE Inv'
    OBVIOUS
  <2>1. CASE which = "one"
    BY <2>1, OneStepped, StepType, RunsKept
  <2>2. CASE which = "other"
    BY <2>2, SameStep, OtherType, OtherRuns
  <2> QED BY <2>1, <2>2
<1>3. Inv => NewCommentsRunOnce
  BY RunsMean, OtherRunsOnce, SameRuns DEF NewCommentsRunOnce
<1> QED BY <1>1, <1>2, <1>3, PTL DEF FoldsSpec
=============================================================================
