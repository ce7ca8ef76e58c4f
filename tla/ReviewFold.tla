------------------------------ MODULE ReviewFold ------------------------------
(***************************************************************************)
(* One submitted review becomes one event (internal/githubkit/ghsource:    *)
(* reviewfold.go, and the parts of events.go, feedback.go and sweep.go     *)
(* that feed it).                                                          *)
(*                                                                         *)
(* A submitted review reaches the daemon as one review delivery and one    *)
(* delivery per inline comment, in any order, each handled by a goroutine  *)
(* of its own; the sweep looks for the same reviews on GitHub meanwhile.   *)
(* Every one of these tasks may turn the review into its event, and the    *)
(* claims of the review cache let one of them do so.  The cache is lost by *)
(* a restart and its entries expire; from then on the engine's marks must  *)
(* tell a review that was run from one that was not.                       *)
(*                                                                         *)
(* What the sweep finds and no changes_requested trigger takes, it recovers *)
(* for a day.  A review's comments are as old as the review here, though   *)
(* GitHub dates a comment from when it was drafted.                        *)
(*                                                                         *)
(* One pull request of the operator's is modelled.  A review is named by   *)
(* its submission key, so reviews are numbered in the order they are       *)
(* submitted; a comment is named by its id.                                *)
(***************************************************************************)
EXTENDS Integers, FiniteSets, Sequences

CONSTANTS
    Reviews,        \* submission keys of the reviews of the pull request
    Comments,       \* ids of the inline comments they carry
    ReviewOf,       \* the review a comment belongs to
    State,          \* "approved", "commented" or "changes_requested"
    HasBody,        \* the reviews with something written in their body
    CRConfigured,   \* some changes_requested trigger is enabled for the repo (wouldEmit)
    CRFirst,        \* whether the first that is listed is enabled (actionFor), or either
    CRTakes,        \* the reviews whose facts pass that trigger's filter
    TTL,            \* reviewCacheTTL
    CacheMax,       \* reviewCacheMax
    ReadsFail,      \* GitHub reads may fail
    Trailing,       \* the reviews and comments whose reads may trail the webhooks
    Days,           \* a tick of the clock may be a day (commentRecoveryWindow)
    MaxTime,        \* bound on the clock
    MaxBoots,       \* bound on the number of restarts
    MaxCloses       \* bound on how often the pull request is closed

ASSUME IdAssumption ==
    /\ Reviews \subseteq Nat \ {0} /\ Comments \subseteq Nat \ {0}
    /\ Reviews \cap Comments = {}
    /\ IsFiniteSet(Reviews) /\ IsFiniteSet(Comments)
ASSUME ReviewAssumption ==
    /\ ReviewOf \in [Comments -> Reviews]
    /\ State \in [Reviews -> {"approved", "commented", "changes_requested"}]
    /\ HasBody \subseteq Reviews /\ CRTakes \subseteq Reviews
ASSUME ConfigAssumption ==
    /\ CRConfigured \in BOOLEAN /\ CRFirst \subseteq BOOLEAN /\ ReadsFail \in BOOLEAN
    /\ Trailing \subseteq Reviews \cup Comments
    /\ (CRTakes # {} \/ TRUE \in CRFirst) => CRConfigured
ASSUME BoundAssumption ==
    /\ TTL \in Nat /\ CacheMax \in Nat /\ Days \in BOOLEAN
    /\ MaxTime \in Nat /\ MaxBoots \in Nat /\ MaxCloses \in Nat

VARIABLES
    submitted,  \* reviews submitted on GitHub
    shown,      \* reviews and comments a GitHub read returns
    addressed,  \* reviews that are no longer waiting on the operator
    aged,       \* the reviews submitted more than a day ago
    closes,     \* how often the pull request was closed; it is open when even
    inbox,      \* deliveries on their way, with the PR's state when sent
    now,        \* the clock
    boot,       \* how often the daemon was restarted
    info,       \* reviewCache.info: when a review's facts were stored
    claims,     \* reviewCache.claims: when a review was claimed
    pc,         \* where each task is
    cs,         \* the inline comments a task has read
    bodyOnly,   \* the task's review is feedback on its body alone
    out,        \* the events a task has yet to emit
    todo,       \* the reviews the sweep has yet to visit
    listed,     \* the comments the sweep's listing returned
    at,         \* the review the sweep is visiting
    first,      \* the first changes_requested trigger is enabled
    marks,      \* the engine's high-water mark of each stream
    runs,       \* the events the engine dispatched, in order
    wins        \* history: every successful claim, in order

github == <<submitted, shown, addressed, aged, closes>>
cache  == <<info, claims>>
tasks  == <<pc, cs, bodyOnly, out>>
sweep  == <<todo, listed, at, first>>
engine == <<marks, runs>>
vars   == <<github, inbox, now, boot, cache, tasks, sweep, engine, wins>>

Never   == -1               \* no entry in the cache
Sweeper == 0                \* the sweep's task; a delivery's is its own id
Deliveries == Reviews \cup Comments
Tasks   == Deliveries \cup {Sweeper}
Streams == {"review", "review_submission", "feedback"}
Event   == [covers : SUBSET Deliveries, stream : Streams, mark : Nat]
Win     == [review : Reviews, time : Nat, boot : Nat]

CommentsOf(r) == {c \in Comments : ReviewOf[c] = r}
Subject(d)    == IF d \in Reviews THEN d ELSE ReviewOf[d]
Open          == closes % 2 = 0

\* The greatest of a set of numbers, as a set of one; nothing for none.
Greatest(S) == {m \in S : \A n \in S : n <= m}

-----------------------------------------------------------------------------
(* The review cache.                                                       *)

Fresh(table, r)   == table[r] # Never /\ now - table[r] <= TTL
Entries(table)    == {r \in Reviews : table[r] # Never}
FreshOnes(table)  == {r \in Reviews : Fresh(table, r)}
Only(table, S)    == [r \in Reviews |-> IF r \in S THEN table[r] ELSE Never]

Claimed(r) == Fresh(claims, r)

\* A full table drops its expired facts, and starts over when none are.
Put(r) ==
    LET kept == IF Cardinality(Entries(info)) < CacheMax THEN Entries(info)
                ELSE IF Cardinality(FreshOnes(info)) < CacheMax THEN FreshOnes(info)
                ELSE {}
    IN  info' = [Only(info, kept) EXCEPT ![r] = now]

\* Claiming: a full table drops its expired claims, never a fresh one.
ClaimUnchecked(r) == TRUE                       \* seeded bug: the check dropped
CanClaim(r) == ~Claimed(r)
Claim(r) ==
    LET kept == IF Cardinality(Entries(claims)) < CacheMax THEN Entries(claims)
                ELSE FreshOnes(claims)
    IN  /\ CanClaim(r)
        /\ claims' = [Only(claims, kept) EXCEPT ![r] = now]
        /\ wins' = Append(wins, [review |-> r, time |-> now, boot |-> boot])

-----------------------------------------------------------------------------
(* What a review is.                                                       *)

BodyFeedback(r) == State[r] \in {"commented", "changes_requested"} /\ r \in HasBody

\* A changes_requested trigger takes the review.
TakenAsChangesRequested(r, feedback) ==
    /\ State[r] = "changes_requested" \/ (feedback /\ State[r] # "approved")
    /\ r \in CRTakes

\* Events are built as a set of one, or of none.

\* Seeded bug: the review's lowest comment id marks its event.
NewCommentByLowest(r, C) ==
    IF C # {} THEN [covers : {{r} \cup C}, stream : {"review"},
                    mark : {m \in C : \A n \in C : m <= n}]
    ELSE [covers : {{r}}, stream : {"review_submission"}, mark : {r}]

\* The review's one new_comment, from the comments C that were read.
NewComment(r, C) ==
    IF C # {} THEN [covers : {{r} \cup C}, stream : {"review"}, mark : Greatest(C)]
    ELSE [covers : {{r}}, stream : {"review_submission"}, mark : {r}]

\* A comment whose review cannot be read stands alone.
Standalone(c) == [covers : {{c}}, stream : {"review"}, mark : {c}]

\* The reviews foldFeedback finds waiting on the operator, of those in S: an
\* approval is signed off, and what is addressed waits on the reviewer.
Unaddressed(S) ==
    {r \in (S \cap Reviews) \ addressed :
        State[r] # "approved" /\ (State[r] = "changes_requested" \/ BodyFeedback(r)
                                    \/ CommentsOf(r) \cap S # {})}

FoldOf(S) == Unaddressed(S) \cup {c \in Comments \cap S : ReviewOf[c] \in Unaddressed(S)}

\* Seeded bugs: the others are marked and not carried; the key is not stamped.
ReviewFoldAlone(r, C, S) ==
    [covers : {C \cup {r}}, stream : {"feedback"}, mark : Greatest({r} \cup Unaddressed(S))]
ReviewFoldUnstamped(r, C, S) ==
    [covers : {FoldOf(S) \cup (C \ S) \cup {r}}, stream : {"feedback"}, mark : {Never}]

\* The fold of review r's own event: what the read S shows waiting, and the
\* review itself with the comments C of its own that S does not show.
ReviewFoldOf(r, C, S) ==
    [covers : {FoldOf(S) \cup (C \ S) \cup {r}}, stream : {"feedback"},
     mark : Greatest({r} \cup Unaddressed(S))]

\* Seeded bug: the sweep looks at unresolved threads alone.
SweepFoldOfThreads(S) ==
    LET threads == {r \in Unaddressed(S) : CommentsOf(r) \cap S # {}}
    IN  [covers : {threads \cup (FoldOf(S) \cap Comments)}, stream : {"feedback"},
         mark : Greatest(threads)]

\* What the sweep finds outstanding, none when nothing is.
SweepFoldOf(S) ==
    [covers : {FoldOf(S)}, stream : {"feedback"}, mark : Greatest(Unaddressed(S))]

-----------------------------------------------------------------------------
TypeOK ==
    /\ submitted \subseteq Reviews /\ addressed \subseteq Reviews /\ aged \subseteq Reviews
    /\ shown \subseteq Deliveries
    /\ closes \in Nat /\ now \in Nat /\ boot \in Nat
    /\ inbox \subseteq [id : Deliveries, open : BOOLEAN]
    /\ info \in [Reviews -> Nat \cup {Never}]
    /\ claims \in [Reviews -> Nat \cup {Never}]
    /\ pc \in [Tasks -> {"idle", "listing", "deciding", "folding", "emitting",
                          "bodies", "visiting", "claiming"}]
    /\ cs \in [Tasks -> SUBSET Comments]
    /\ bodyOnly \in [Tasks -> BOOLEAN]
    /\ out \in [Tasks -> SUBSET Event]
    /\ todo \subseteq Reviews /\ listed \subseteq Comments
    /\ first \in BOOLEAN
    /\ at \in Reviews \cup {Sweeper} /\ (pc[Sweeper] = "claiming" => at \in Reviews)
    /\ marks \in [Streams -> Nat]
    /\ runs \in Seq(Event)
    /\ wins \in Seq(Win)

Init ==
    /\ submitted = {} /\ shown = {} /\ addressed = {} /\ aged = {} /\ closes = 0
    /\ inbox = {} /\ now = 0 /\ boot = 0
    /\ info = [r \in Reviews |-> Never] /\ claims = [r \in Reviews |-> Never]
    /\ pc = [t \in Tasks |-> "idle"]
    /\ cs = [t \in Tasks |-> {}] /\ bodyOnly = [t \in Tasks |-> FALSE]
    /\ out = [t \in Tasks |-> {}]
    /\ todo = {} /\ listed = {} /\ at = Sweeper /\ first \in CRFirst
    /\ marks = [s \in Streams |-> 0] /\ runs = <<>> /\ wins = <<>>

-----------------------------------------------------------------------------
(* GitHub and the clock.                                                   *)

\* A reviewer submits a review: GitHub sends its deliveries.
Submit(r) ==
    /\ r \notin submitted /\ \A q \in Reviews : q < r => q \in submitted
    /\ submitted' = submitted \cup {r}
    /\ inbox' = inbox \cup [id : {r} \cup CommentsOf(r), open : {Open}]
    /\ shown' = shown \cup (({r} \cup CommentsOf(r)) \ Trailing)
    /\ UNCHANGED <<addressed, aged, closes, now, boot, cache, tasks, sweep, engine, wins>>

\* A read that trailed catches up.
Show(x) ==
    /\ x \in Deliveries \ shown /\ Subject(x) \in submitted
    /\ shown' = shown \cup {x}
    /\ UNCHANGED <<submitted, addressed, aged, closes, inbox, now, boot, cache, tasks, sweep,
                   engine, wins>>

\* The operator answers a review, or pushes what it asked for.
Address(r) ==
    /\ r \in submitted \ addressed
    /\ addressed' = addressed \cup {r}
    /\ UNCHANGED <<submitted, shown, aged, closes, inbox, now, boot, cache, tasks, sweep,
                   engine, wins>>

CloseOrReopen ==
    /\ closes < 2 * MaxCloses
    /\ closes' = closes + 1
    /\ UNCHANGED <<submitted, shown, addressed, aged, inbox, now, boot, cache, tasks, sweep,
                   engine, wins>>

\* A webhook is dropped on the way.
Lose(m) ==
    /\ m \in inbox
    /\ inbox' = inbox \ {m}
    /\ UNCHANGED <<github, now, boot, cache, tasks, sweep, engine, wins>>

\* An hour, or a day, goes by.
Tick ==
    /\ now < MaxTime
    /\ now' = now + 1
    /\ aged' = aged \/ (Days /\ aged' = submitted)
    /\ UNCHANGED <<submitted, shown, addressed, closes, inbox, boot, cache, tasks, sweep, engine, wins>>

\* The daemon stops and starts: only what the engine stored survives.
Restart ==
    /\ boot < MaxBoots
    /\ boot' = boot + 1
    /\ info' = [r \in Reviews |-> Never] /\ claims' = [r \in Reviews |-> Never]
    /\ pc' = [t \in Tasks |-> "idle"]
    /\ cs' = [t \in Tasks |-> {}] /\ bodyOnly' = [t \in Tasks |-> FALSE]
    /\ out' = [t \in Tasks |-> {}]
    /\ todo' = {} /\ listed' = {} /\ at' = Sweeper
    /\ UNCHANGED <<github, inbox, now, first, engine, wins>>

-----------------------------------------------------------------------------
(* The handling of one delivery.                                           *)

Stop(t) ==
    /\ pc' = [pc EXCEPT ![t] = "idle"] /\ cs' = [cs EXCEPT ![t] = {}]
    /\ UNCHANGED out
EmitNext(t, events) ==
    /\ pc' = [pc EXCEPT ![t] = "emitting"] /\ cs' = [cs EXCEPT ![t] = {}]
    /\ out' = [out EXCEPT ![t] = events]

\* Once the review's facts are known: nothing more to do when it is claimed.
StartReview(d) ==
    /\ pc' = [pc EXCEPT ![d] = IF Claimed(Subject(d)) THEN "idle" ELSE "listing"]
    /\ UNCHANGED <<cs, out>>

\* The delivery was sent while the pull request was closed: its triggers are
\* dropped, and it must not claim the review.
ReceiveClosed(m) ==
    /\ ~m.open
    /\ IF m.id \in Reviews THEN Put(m.id) ELSE UNCHANGED info
    /\ UNCHANGED <<pc, cs, out>>

ReceiveReview(m) ==
    /\ m.open /\ m.id \in Reviews
    /\ Put(m.id)
    /\ StartReview(m.id)

\* A comment names its review: cached, read, or unreadable.
ReceiveComment(m) ==
    LET r == ReviewOf[m.id] IN
    /\ m.open /\ m.id \in Comments
    /\ \/ Fresh(info, r) /\ StartReview(m.id) /\ UNCHANGED info
       \/ ~Fresh(info, r) /\ r \in shown /\ Put(r) /\ StartReview(m.id)
       \/ /\ ~Fresh(info, r) /\ (r \notin shown \/ ReadsFail)
          /\ EmitNext(m.id, Standalone(m.id)) /\ UNCHANGED info

Receive(m) ==
    /\ m \in inbox /\ pc[m.id] = "idle"
    /\ inbox' = inbox \ {m}
    /\ ReceiveClosed(m) \/ ReceiveReview(m) \/ ReceiveComment(m)
    /\ UNCHANGED <<github, now, boot, claims, bodyOnly, sweep, engine, wins>>

\* listReviewComments; an empty listing is feedback on the body alone, unless
\* a comment was delivered.
List(d) ==
    LET r == Subject(d)
        C == CommentsOf(r) \cap shown IN
    /\ d \in Deliveries /\ pc[d] = "listing"
    /\ pc' = [pc EXCEPT ![d] = "deciding"]
    /\ \/ /\ cs' = [cs EXCEPT ![d] = C]
          /\ bodyOnly' = [bodyOnly EXCEPT ![d] = d \in Reviews /\ C = {} /\ BodyFeedback(r)]
       \/ /\ ReadsFail
          /\ cs' = [cs EXCEPT ![d] = {}] /\ bodyOnly' = [bodyOnly EXCEPT ![d] = FALSE]
    /\ UNCHANGED <<github, inbox, now, boot, cache, out, sweep, engine, wins>>

\* The rest of reviewEvent: which event the review is, and whether this task
\* is the one to emit it.
AsChangesRequested(d, r) ==
    /\ TakenAsChangesRequested(r, cs[d] # {} \/ bodyOnly[d])
    /\ Claim(r)
    /\ pc' = [pc EXCEPT ![d] = "folding"] /\ UNCHANGED <<cs, out>>

AsNewComment(d, r) ==
    /\ ~TakenAsChangesRequested(r, cs[d] # {} \/ bodyOnly[d])
    /\ cs[d] # {} \/ bodyOnly[d]
    /\ Claim(r)
    /\ EmitNext(d, NewComment(r, cs[d]))

AlreadyClaimed(d, r) ==
    /\ TakenAsChangesRequested(r, cs[d] # {} \/ bodyOnly[d]) \/ cs[d] # {} \/ bodyOnly[d]
    /\ ~CanClaim(r)
    /\ Stop(d) /\ UNCHANGED <<claims, wins>>

NotAnEvent(d, r) ==
    /\ ~TakenAsChangesRequested(r, FALSE) /\ cs[d] = {} /\ ~bodyOnly[d]
    /\ IF d \in Comments THEN EmitNext(d, Standalone(d)) ELSE Stop(d)
    /\ UNCHANGED <<claims, wins>>

Decide(d) ==
    /\ d \in Deliveries /\ pc[d] = "deciding"
    /\ \/ AsChangesRequested(d, Subject(d)) \/ AsNewComment(d, Subject(d))
       \/ AlreadyClaimed(d, Subject(d)) \/ NotAnEvent(d, Subject(d))
    /\ bodyOnly' = [bodyOnly EXCEPT ![d] = FALSE]
    /\ UNCHANGED <<github, inbox, now, boot, info, sweep, engine>>

\* reviewFold: the other reviews still waiting ride along, when they can be read.
Fold(d) ==
    /\ d \in Deliveries /\ pc[d] = "folding"
    /\ \E S \in {shown} \cup (IF ReadsFail THEN {{}} ELSE {}) :
          EmitNext(d, ReviewFoldOf(Subject(d), cs[d], S))
    /\ UNCHANGED <<github, inbox, now, boot, cache, bodyOnly, sweep, engine, wins>>

-----------------------------------------------------------------------------
(* The sweep of the pull request, while it is open.                        *)

\* What the sweep recovers, of the last day: bodies first, then reviews with
\* inline comments.
SweptBodies(S) ==
    {r \in (S \cap Reviews) \ aged : CommentsOf(r) \cap S = {} /\ BodyFeedback(r)}
Recent(S)      == {c \in S \cap Comments : ReviewOf[c] \notin aged}
Swept(S)       == {ReviewOf[c] : c \in Recent(S)}

\* The fold of what is outstanding, if the first changes_requested trigger is
\* enabled; the reviews on their body alone are next, if none is.
SweepRead ==
    /\ pc[Sweeper] = "idle" /\ Open
    /\ pc' = [pc EXCEPT ![Sweeper] = "bodies"]
    /\ \E S \in {shown} \cup (IF ReadsFail THEN {{}} ELSE {}) :
          /\ out' = [out EXCEPT ![Sweeper] =
                       IF first THEN SweepFoldOf(S) ELSE {}]
          /\ todo' = IF CRConfigured THEN {} ELSE SweptBodies(S)
    /\ UNCHANGED <<github, inbox, now, boot, cache, cs, bodyOnly, listed, at, first, engine, wins>>

\* sweepBodyReviews, one review.
SweepBody(r) ==
    /\ pc[Sweeper] = "bodies" /\ r \in todo
    /\ todo' = todo \ {r}
    /\ \/ Claimed(r) /\ UNCHANGED <<cache, wins, out>>
       \/ /\ Put(r) /\ Claim(r)
          /\ out' = [out EXCEPT ![Sweeper] = @ \cup NewComment(r, {})]
    /\ UNCHANGED <<github, inbox, now, boot, pc, cs, bodyOnly, listed, at, first,
                   engine>>

\* recentComments: the comments listed, to be recovered review by review.
SweepList ==
    /\ pc[Sweeper] = "bodies" /\ todo = {}
    /\ pc' = [pc EXCEPT ![Sweeper] = "visiting"]
    /\ \E S \in {shown} \cup (IF ReadsFail THEN {{}} ELSE {}) :
          /\ listed' = Recent(S)
          /\ todo' = Swept(S)
    /\ UNCHANGED <<github, inbox, now, boot, cache, cs, bodyOnly, out, at, first,
                   engine, wins>>

\* sweepReview: claimed, unreadable, left to the fold, or read and claimed.
SweepVisit(r) ==
    /\ pc[Sweeper] = "visiting" /\ r \in todo
    /\ todo' = todo \ {r}
    /\ \/ Claimed(r) /\ UNCHANGED <<info, pc, cs, at, out>>
       \/ /\ ~Claimed(r) /\ ~Fresh(info, r) /\ (r \notin shown \/ ReadsFail)
          /\ out' = [out EXCEPT ![Sweeper] =
                       @ \cup UNION {Standalone(c) : c \in listed \cap CommentsOf(r)}]
          /\ UNCHANGED <<info, pc, cs, at>>
       \/ /\ ~Claimed(r) /\ (Fresh(info, r) \/ r \in shown)
          /\ IF Fresh(info, r) THEN UNCHANGED info ELSE Put(r)
          /\ IF State[r] # "approved" /\ CRConfigured
             THEN UNCHANGED <<pc, cs, at>>
             ELSE /\ pc' = [pc EXCEPT ![Sweeper] = "claiming"] /\ at' = r
                  /\ \E S \in {shown} \cup (IF ReadsFail THEN {listed} ELSE {}) :
                       cs' = [cs EXCEPT ![Sweeper] = S \cap CommentsOf(r)]
          /\ UNCHANGED out
    /\ UNCHANGED <<github, inbox, now, boot, claims, bodyOnly, listed, first, engine, wins>>

SweepClaim ==
    /\ pc[Sweeper] = "claiming"
    /\ pc' = [pc EXCEPT ![Sweeper] = "visiting"]
    /\ cs' = [cs EXCEPT ![Sweeper] = {}] /\ at' = Sweeper
    /\ \/ /\ Claim(at)
          /\ out' = [out EXCEPT ![Sweeper] = @ \cup NewComment(at, cs[Sweeper])]
       \/ ~CanClaim(at) /\ UNCHANGED <<claims, wins, out>>
    /\ UNCHANGED <<github, inbox, now, boot, info, bodyOnly, todo, listed, first, engine>>

SweepDone ==
    /\ pc[Sweeper] = "visiting" /\ todo = {}
    /\ pc' = [pc EXCEPT ![Sweeper] = IF out[Sweeper] = {} THEN "idle" ELSE "emitting"]
    /\ listed' = {}
    /\ UNCHANGED <<github, inbox, now, boot, cache, cs, bodyOnly, out, todo, at, first,
                   engine, wins>>

-----------------------------------------------------------------------------
(* The engine: a stream's mark drops every event at or below it.           *)

Dispatch(e) ==
    IF e.mark > marks[e.stream]
    THEN marks' = [marks EXCEPT ![e.stream] = e.mark] /\ runs' = Append(runs, e)
    ELSE UNCHANGED engine

Emit(t) ==
    /\ pc[t] = "emitting"
    /\ \E e \in out[t] :
          /\ Dispatch(e)
          /\ out' = [out EXCEPT ![t] = @ \ {e}]
          /\ pc' = [pc EXCEPT ![t] = IF out[t] = {e} THEN "idle" ELSE "emitting"]
    /\ UNCHANGED <<github, inbox, now, boot, cache, cs, bodyOnly, sweep, wins>>

Handle(d)  == List(d) \/ Decide(d) \/ Fold(d) \/ Emit(d)
SweepNext  == \/ SweepRead \/ SweepList \/ SweepClaim \/ SweepDone \/ Emit(Sweeper)
              \/ \E r \in Reviews : SweepBody(r) \/ SweepVisit(r)
World      == \/ \E r \in Reviews : Submit(r) \/ Address(r)
              \/ \E x \in Deliveries : Show(x)
              \/ \E m \in inbox : Lose(m)
              \/ CloseOrReopen \/ Tick \/ Restart

Next == World \/ SweepNext \/ (\E m \in inbox : Receive(m)) \/ (\E d \in Deliveries : Handle(d))

Spec == Init /\ [][Next]_vars

\* Every goroutine runs on, the sweep comes round, and reads catch up.
Fairness ==
    /\ \A d \in Deliveries : WF_vars(Handle(d)) /\ WF_vars(Show(d))
    /\ WF_vars(SweepNext)
FairSpec == Spec /\ Fairness

-----------------------------------------------------------------------------
\* What the dispatched events carried.
Covered == UNION {runs[i].covers : i \in DOMAIN runs}

\* ONE REVIEW SUBMISSION IS ONE EVENT: however its deliveries, the sweep and
\* the reads interleave, one task wins a review, until its claim has expired
\* or the daemon has restarted (reviewfold.go, reviewCache.claim).
OneEventPerReview ==
    \A i, j \in DOMAIN wins :
        (i < j /\ wins[i].review = wins[j].review /\ wins[i].boot = wins[j].boot)
            => wins[j].time - wins[i].time > TTL

\* What ran as a review's new_comment never runs again, not across a restart
\* nor an expired claim, as the marks drop what the claims forgot; only a comment
\* that stood alone, its review unreadable, may run once more, with its review
\* (reviewfold.go, the package note: a duplicate fixer is recoverable).
NewCommentRunsOnce ==
    \A i, j \in DOMAIN runs :
        (/\ i < j /\ runs[i].stream # "feedback" /\ runs[j].stream # "feedback"
         /\ runs[i].covers \cap runs[j].covers # {})
            => runs[i].covers \cap Reviews = {} /\ runs[j].covers \cap Reviews # {}

\* The cursor never passes a review that still waits on the operator and that
\* no run carried: the engine would drop it for good (feedback.go, the package
\* note: covered by whichever event is handled, in any order).
CursorCovers ==
    \A r \in Unaddressed(submitted \cup {c \in Comments : ReviewOf[c] \in submitted}) :
        r <= marks["feedback"] => r \in Covered

\* A review that says something.
Feedback(r) ==
    CommentsOf(r) # {} \/ BodyFeedback(r) \/ (CRConfigured /\ State[r] = "changes_requested")

\* The sweep recovers r with what is outstanding, or as a new_comment.
LeftToFold(r) == CRConfigured /\ State[r] # "approved"

\* A later new_comment ran first: the mark it left drops r's own event, and the
\* sweep's (reviewfold.go, reviewNewComment: any later recovery of it).
Overtaken(r) == \A e \in NewComment(r, CommentsOf(r)) : e.mark <= marks[e.stream]

\* What is to be covered, and what is.
Due(r)  == r \in submitted /\ Feedback(r) /\ (LeftToFold(r) => first)
Done(r) == \/ r \in Covered \cup addressed
           \/ ~LeftToFold(r) /\ (Overtaken(r) \/ r \in aged)

\* Lost webhooks, restarts, claims whose event died with the daemon and
\* reviews sent while the pull request was closed notwithstanding, every
\* review is run or answered once the pull request stays open; but for a
\* new_comment that was overtaken or a day old before it was recovered, and
\* where the first changes_requested trigger is disabled and another is not
\* (sweep.go, sweepUnresolvedComments and sweepMissedComments).
EventuallyCovered == \A r \in Reviews : <>[]Open => (Due(r) ~> Done(r))

\* Either way the event carries the review body and every inline comment: a
\* review's new_comment has all its comments (reviewfold.go, the package note).
CarriesEveryComment ==
    \A i \in DOMAIN runs :
        \A r \in runs[i].covers \cap Reviews :
            runs[i].stream # "feedback" => CommentsOf(r) \subseteq runs[i].covers
=============================================================================
