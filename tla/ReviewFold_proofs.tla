-------------------------- MODULE ReviewFold_proofs --------------------------
(***************************************************************************)
(* For every set of reviews and comments, every trigger configuration and  *)
(* every bound: the variables of ReviewFold keep their types, and a review *)
(* is won by one task at a time.  While reads do not fail or trail, the    *)
(* cursor passes nothing that was not carried; while no comment trails, no *)
(* new_comment runs twice.                                                 *)
(***************************************************************************)
EXTENDS ReviewFold, TLAPS

USE DEF Never, Sweeper

\* Reviews and comments are numbered, so either can be a mark.
LEMMA IdTypes == Reviews \subseteq Nat /\ Comments \subseteq Nat
BY IdAssumption

\* What an event is built from is typed, so the event is.
LEMMA NewCommentType ==
    ASSUME NEW r \in Reviews, NEW C \in SUBSET Comments
    PROVE  NewComment(r, C) \in SUBSET Event
BY IdTypes DEF NewComment, Event, Streams, Deliveries, Greatest

\* A comment that stands alone is an event.
LEMMA StandaloneType ==
    ASSUME NEW c \in Comments PROVE Standalone(c) \in SUBSET Event
BY IdTypes DEF Standalone, Event, Streams, Deliveries

\* So is a review with what it folds in,
LEMMA ReviewFoldType ==
    ASSUME NEW r \in Reviews, NEW C \in SUBSET Comments, NEW S \in SUBSET Deliveries
    PROVE  ReviewFoldOf(r, C, S) \in SUBSET Event
BY IdTypes DEF ReviewFoldOf, FoldOf, Unaddressed, Event, Streams, Deliveries, Greatest

\* and what the sweep finds outstanding.
LEMMA SweepFoldType ==
    ASSUME NEW S \in SUBSET Deliveries PROVE SweepFoldOf(S) \in SUBSET Event
BY IdTypes DEF SweepFoldOf, FoldOf, Unaddressed, Event, Streams, Deliveries, Greatest

\* Storing facts keeps the table a table.
LEMMA PutType ==
    ASSUME NEW r \in Reviews, now \in Nat, info \in [Reviews -> Nat \cup {Never}], Put(r)
    PROVE  info' \in [Reviews -> Nat \cup {Never}]
BY DEF Put, Only, Entries, FreshOnes, Fresh

\* So does claiming, and the history grows by the claim.
LEMMA ClaimType ==
    ASSUME NEW r \in Reviews, now \in Nat, boot \in Nat, Claim(r),
           claims \in [Reviews -> Nat \cup {Never}],
           wins \in Seq(Win)
    PROVE  /\ claims' \in [Reviews -> Nat \cup {Never}]
           /\ wins' \in Seq(Win)
<1>1. claims' \in [Reviews -> Nat \cup {Never}]
  BY DEF Claim, Only
<1>2. wins' = Append(wins, [review |-> r, time |-> now, boot |-> boot])
  BY DEF Claim
<1>3. [review |-> r, time |-> now, boot |-> boot] \in Win
  BY DEF Win
<1> QED BY <1>1, <1>2, <1>3

\* A task's new events leave every task's events typed.
LEMMA EmitNextType ==
    ASSUME TypeOK, NEW t \in Tasks, NEW E \in SUBSET Event, EmitNext(t, E)
    PROVE  /\ out' \in [Tasks -> SUBSET Event]
           /\ cs' \in [Tasks -> SUBSET Comments]
           /\ pc' = [pc EXCEPT ![t] = "emitting"]
BY DEF TypeOK, EmitNext

PcValues == {"idle", "listing", "deciding", "folding", "emitting",
             "bodies", "visiting", "claiming"}

\* A delivery's task moves, the sweep stays where it is.
PcStep(d) == pc' \in [Tasks -> PcValues] /\ pc'[Sweeper] = pc[Sweeper]

\* A task that only moves on keeps every pc typed.
LEMMA PcStepType ==
    ASSUME TypeOK, NEW d \in Tasks \ {Sweeper},
           \E v \in PcValues : pc' = [pc EXCEPT ![d] = v]
    PROVE  PcStep(d)
BY DEF TypeOK, PcStep, PcValues, Tasks

\* The environment and the clock touch few variables.
LEMMA WorldType == ASSUME TypeOK, World PROVE TypeOK'
<1> USE DEF TypeOK, github, cache, tasks, sweep, engine, Deliveries
<1>1. ASSUME NEW r \in Reviews, Submit(r) PROVE TypeOK'
  <2>1. CommentsOf(r) \subseteq Comments /\ Open \in BOOLEAN
    BY DEF CommentsOf, Open
  <2>2. inbox' \subseteq [id : Deliveries, open : BOOLEAN]
    BY <1>1, <2>1 DEF Submit
  <2> QED BY <1>1, <2>1, <2>2 DEF Submit
<1>2. ASSUME NEW r \in Reviews, Address(r) PROVE TypeOK'
  BY <1>2 DEF Address
<1>3. ASSUME NEW x \in Deliveries, Show(x) PROVE TypeOK'
  BY <1>3 DEF Show
<1>4. ASSUME NEW m \in inbox, Lose(m) PROVE TypeOK'
  BY <1>4 DEF Lose
<1>5. CASE CloseOrReopen
  BY <1>5 DEF CloseOrReopen
<1>6. CASE Tick
  BY <1>6 DEF Tick
<1>7. CASE Restart
  <2>1. /\ boot' \in Nat
        /\ info' \in [Reviews -> Nat \cup {Never}] /\ claims' \in [Reviews -> Nat \cup {Never}]
        /\ pc' = [t \in Tasks |-> "idle"] /\ cs' \in [Tasks -> SUBSET Comments]
        /\ bodyOnly' \in [Tasks -> BOOLEAN] /\ out' \in [Tasks -> SUBSET Event]
        /\ todo' \subseteq Reviews /\ listed' \subseteq Comments /\ at' = Sweeper
    BY <1>7 DEF Restart
  <2>2. UNCHANGED <<github, inbox, now, first, engine, wins>>
    BY <1>7 DEF Restart
  <2>3. Sweeper \in Tasks
    BY DEF Tasks
  <2> QED BY <2>1, <2>2, <2>3
<1> HIDE DEF TypeOK, github, cache, tasks, sweep, engine, Deliveries
<1> QED BY <1>1, <1>2, <1>3, <1>4, <1>5, <1>6, <1>7 DEF World

\* Taking a delivery, closed, of a review or of a comment, keeps the types.
LEMMA ReceiveType == ASSUME TypeOK, NEW m \in inbox, Receive(m) PROVE TypeOK'
<1>1. m \in [id : Deliveries, open : BOOLEAN] /\ m.id \in Tasks /\ m.id # Sweeper
  BY IdAssumption DEF TypeOK, Deliveries, Tasks
<1>2. Subject(m.id) \in Reviews
  BY <1>1, ReviewAssumption DEF Subject, Deliveries
<1>3. /\ info' \in [Reviews -> Nat \cup {Never}]
      /\ pc' \in [Tasks -> {"idle", "listing", "deciding", "folding", "emitting",
                            "bodies", "visiting", "claiming"}]
      /\ pc'[Sweeper] = pc[Sweeper]
      /\ cs' \in [Tasks -> SUBSET Comments] /\ out' \in [Tasks -> SUBSET Event]
  <2> USE <1>1, <1>2 DEF TypeOK
  <2>1. CASE ReceiveClosed(m)
    BY <2>1, PutType DEF ReceiveClosed
  <2>2. CASE ReceiveReview(m)
    BY <2>2, PutType DEF ReceiveReview, StartReview, Tasks
  <2>3. CASE ReceiveComment(m)
    <3>1. ReviewOf[m.id] \in Reviews /\ m.id \in Comments
      BY <2>3, ReviewAssumption DEF ReceiveComment
    <3>2. Standalone(m.id) \in SUBSET Event
      BY <3>1, StandaloneType
    <3>3. CASE UNCHANGED info /\ StartReview(m.id)
      BY <3>3 DEF StartReview, Tasks
    <3>4. CASE Put(ReviewOf[m.id]) /\ StartReview(m.id)
      BY <3>1, <3>4, PutType DEF StartReview, Tasks
    <3>5. CASE UNCHANGED info /\ EmitNext(m.id, Standalone(m.id))
      BY <3>2, <3>5, EmitNextType DEF Tasks
    <3> QED BY <2>3, <3>3, <3>4, <3>5 DEF ReceiveComment
  <2> QED BY <2>1, <2>2, <2>3 DEF Receive
<1> QED BY <1>3 DEF TypeOK, Receive, github, sweep, engine

\* So does handing an event to the engine,
LEMMA EmitType == ASSUME TypeOK, NEW t \in Tasks, Emit(t) PROVE TypeOK'
<1>1. PICK e \in out[t] :
        /\ Dispatch(e)
        /\ out' = [out EXCEPT ![t] = @ \ {e}]
        /\ pc' = [pc EXCEPT ![t] = IF out[t] = {e} THEN "idle" ELSE "emitting"]
  BY DEF Emit
<1>2. e \in Event /\ e.mark \in Nat /\ e.stream \in Streams
  BY DEF TypeOK, Event
<1>3. marks' \in [Streams -> Nat] /\ runs' \in Seq(Event)
  <2>1. CASE e.mark > marks[e.stream]
    <3>1. marks' = [marks EXCEPT ![e.stream] = e.mark] /\ runs' = Append(runs, e)
      BY <1>1, <2>1 DEF Dispatch
    <3> QED BY <1>2, <3>1 DEF TypeOK
  <2>2. CASE ~(e.mark > marks[e.stream])
    BY <1>1, <2>2 DEF Dispatch, TypeOK, engine
  <2> QED BY <2>1, <2>2
<1>4. UNCHANGED <<github, inbox, now, boot, cache, cs, bodyOnly, sweep, wins>>
  BY DEF Emit
<1> QED BY <1>1, <1>3, <1>4 DEF TypeOK, github, cache, sweep

\* every step of a delivery's goroutine,
LEMMA HandleType == ASSUME TypeOK, NEW d \in Deliveries, Handle(d) PROVE TypeOK'
<1>1. d \in Tasks /\ d # Sweeper /\ Subject(d) \in Reviews
  BY IdAssumption, ReviewAssumption DEF Deliveries, Tasks, Subject
<1>2. CASE List(d)
  <2>1. CommentsOf(Subject(d)) \cap shown \in SUBSET Comments
    BY DEF CommentsOf
  <2>2. cs' \in [Tasks -> SUBSET Comments]
    BY <1>1, <1>2, <2>1 DEF TypeOK, List
  <2>3. bodyOnly' \in [Tasks -> BOOLEAN]
    <3>1. PICK b \in BOOLEAN : bodyOnly' = [bodyOnly EXCEPT ![d] = b]
      BY <1>2 DEF List, BodyFeedback
    <3> QED BY <1>1, <3>1 DEF TypeOK
  <2>4. pc' = [pc EXCEPT ![d] = "deciding"]
    BY <1>2 DEF List
  <2>5. UNCHANGED <<github, inbox, now, boot, cache, out, sweep, engine, wins>>
    BY <1>2 DEF List
  <2> QED BY <1>1, <2>2, <2>3, <2>4, <2>5 DEF TypeOK, github, cache, sweep, engine
<1>3. CASE Decide(d)
  <2> DEFINE r == Subject(d)
  <2>1. cs[d] \in SUBSET Comments
    BY <1>1 DEF TypeOK
  <2>2. /\ claims' \in [Reviews -> Nat \cup {Never}]
        /\ wins' \in Seq(Win)
    <3>1. CASE Claim(r)
      BY <1>1, <3>1, ClaimType DEF TypeOK
    <3>2. CASE UNCHANGED <<claims, wins>>
      BY <3>2 DEF TypeOK
    <3> QED BY <1>3, <3>1, <3>2
         DEF Decide, AsChangesRequested, AsNewComment, AlreadyClaimed, NotAnEvent
  <2>3. /\ \E v \in {"idle", "folding", "emitting"} : pc' = [pc EXCEPT ![d] = v]
        /\ cs' \in [Tasks -> SUBSET Comments] /\ out' \in [Tasks -> SUBSET Event]
    <3>1. CASE AsChangesRequested(d, r)
      BY <3>1 DEF AsChangesRequested, TypeOK
    <3>2. CASE AsNewComment(d, r)
      <4>1. NewComment(r, cs[d]) \in SUBSET Event
        BY <1>1, <2>1, NewCommentType
      <4> QED BY <1>1, <4>1, <3>2, EmitNextType DEF AsNewComment
    <3>3. CASE Stop(d)
      BY <3>3, <1>1 DEF Stop, TypeOK
    <3>4. CASE d \in Comments /\ EmitNext(d, Standalone(d))
      BY <3>4, <1>1, StandaloneType, EmitNextType
    <3> QED BY <1>3, <3>1, <3>2, <3>3, <3>4 DEF Decide, AlreadyClaimed, NotAnEvent
  <2>4. bodyOnly' \in [Tasks -> BOOLEAN]
    BY <1>3 DEF Decide, TypeOK
  <2>5. UNCHANGED <<github, inbox, now, boot, info, sweep, engine>>
    BY <1>3 DEF Decide
  <2>6. PcStep(d)
    BY <1>1, <2>3, PcStepType DEF PcValues
  <2> HIDE DEF r
  <2> QED BY <2>2, <2>3, <2>4, <2>5, <2>6 DEF TypeOK, PcStep, PcValues, github, sweep, engine
<1>4. CASE Fold(d)
  <2>1. PICK S \in {shown} \cup {{}} : EmitNext(d, ReviewFoldOf(Subject(d), cs[d], S))
    BY <1>4 DEF Fold
  <2>2. S \in SUBSET Deliveries /\ cs[d] \in SUBSET Comments
    BY <1>1, <2>1 DEF TypeOK
  <2>3. ReviewFoldOf(Subject(d), cs[d], S) \in SUBSET Event
    BY <1>1, <2>2, ReviewFoldType
  <2>4. UNCHANGED <<github, inbox, now, boot, cache, bodyOnly, sweep, engine, wins>>
    BY <1>4 DEF Fold
  <2>5. /\ out' \in [Tasks -> SUBSET Event] /\ cs' \in [Tasks -> SUBSET Comments]
        /\ pc' = [pc EXCEPT ![d] = "emitting"]
    BY <1>1, <2>1, <2>3, EmitNextType
  <2>6. PcStep(d)
    BY <1>1, <2>5, PcStepType DEF PcValues
  <2> QED BY <2>4, <2>5, <2>6 DEF TypeOK, PcStep, PcValues, github, cache, sweep, engine
<1>5. CASE Emit(d)
  BY <1>1, <1>5, EmitType
<1> QED BY <1>2, <1>3, <1>4, <1>5 DEF Handle

\* and every step of the sweep.
LEMMA SweepType == ASSUME TypeOK, SweepNext PROVE TypeOK'
<1>1. Sweeper \in Tasks /\ \A S \in SUBSET Deliveries : S \cap Comments \in SUBSET Comments
  BY DEF Tasks
<1>2. shown \in SUBSET Deliveries /\ {} \in SUBSET Deliveries
  BY DEF TypeOK
<1>3. CASE SweepRead
  <2>1. PICK S \in SUBSET Deliveries :
          /\ out' = [out EXCEPT ![Sweeper] = IF first THEN SweepFoldOf(S) ELSE {}]
          /\ todo' \subseteq S \cap Reviews
    BY <1>2, <1>3 DEF SweepRead, SweptBodies
  <2>2. out' \in [Tasks -> SUBSET Event]
    BY <1>1, <2>1, SweepFoldType DEF TypeOK
  <2>3. todo' \subseteq Reviews
    BY <2>1
  <2>4. pc' = [pc EXCEPT ![Sweeper] = "bodies"]
    BY <1>3 DEF SweepRead
  <2>5. UNCHANGED <<github, inbox, now, boot, cache, cs, bodyOnly, listed, at, first, engine, wins>>
    BY <1>3 DEF SweepRead
  <2> QED BY <1>1, <2>2, <2>3, <2>4, <2>5 DEF TypeOK, github, cache, engine
<1>4. ASSUME NEW r \in Reviews, SweepBody(r) PROVE TypeOK'
  <2>1. CASE UNCHANGED <<cache, wins, out>>
    BY <1>4, <2>1 DEF SweepBody, TypeOK, github, cache, engine
  <2>2. CASE /\ Put(r) /\ Claim(r)
             /\ out' = [out EXCEPT ![Sweeper] = @ \cup NewComment(r, {})]
    <3>1. NewComment(r, {}) \in SUBSET Event
      BY NewCommentType
    <3>2. out' \in [Tasks -> SUBSET Event]
      BY <1>1, <2>2, <3>1 DEF TypeOK
    <3>3. /\ info' \in [Reviews -> Nat \cup {Never}] /\ claims' \in [Reviews -> Nat \cup {Never}]
          /\ wins' \in Seq(Win)
      BY <2>2, PutType, ClaimType DEF TypeOK
    <3> QED BY <1>4, <3>2, <3>3 DEF SweepBody, TypeOK, github, engine
  <2> QED BY <1>4, <2>1, <2>2 DEF SweepBody
<1>5. CASE SweepList
  <2>1. PICK S \in SUBSET Deliveries : /\ listed' \subseteq S \cap Comments
                                       /\ todo' \subseteq {ReviewOf[c] : c \in S \cap Comments}
    BY <1>2, <1>5 DEF SweepList, Swept, Recent
  <2>2. listed' \subseteq Comments /\ todo' \subseteq Reviews
    BY <2>1, ReviewAssumption
  <2> QED BY <1>1, <1>5, <2>2 DEF SweepList, TypeOK, github, cache, engine
<1>6. ASSUME NEW r \in Reviews, SweepVisit(r) PROVE TypeOK'
  <2>1. todo' \subseteq Reviews
    BY <1>6 DEF SweepVisit, TypeOK
  <2>2. UNCHANGED <<github, inbox, now, boot, claims, bodyOnly, listed, first, engine, wins>>
    BY <1>6 DEF SweepVisit
  <2>3. out' \in [Tasks -> SUBSET Event]
    <3>1. UNION {Standalone(c) : c \in listed \cap CommentsOf(r)} \in SUBSET Event
      BY StandaloneType DEF CommentsOf
    <3>2. CASE out' = [out EXCEPT ![Sweeper] =
                         @ \cup UNION {Standalone(c) : c \in listed \cap CommentsOf(r)}]
      BY <1>1, <3>1, <3>2 DEF TypeOK
    <3> QED BY <1>6, <3>2 DEF SweepVisit, TypeOK
  <2>4. info' \in [Reviews -> Nat \cup {Never}]
    <3>1. CASE Put(r)
      BY <3>1, PutType DEF TypeOK
    <3> QED BY <1>6, <3>1 DEF SweepVisit, TypeOK
  <2>5. CASE UNCHANGED <<pc, cs, at>>
    BY <2>1, <2>2, <2>3, <2>4, <2>5 DEF TypeOK, github, engine
  <2>6. CASE /\ pc' = [pc EXCEPT ![Sweeper] = "claiming"] /\ at' = r
             /\ \E S \in {shown} \cup (IF ReadsFail THEN {listed} ELSE {}) :
                  cs' = [cs EXCEPT ![Sweeper] = S \cap CommentsOf(r)]
    <3>1. \A S : S \cap CommentsOf(r) \in SUBSET Comments
      BY DEF CommentsOf
    <3>2. cs' \in [Tasks -> SUBSET Comments]
      BY <1>1, <2>6, <3>1 DEF TypeOK
    <3> QED BY <1>1, <2>1, <2>2, <2>3, <2>4, <2>6, <3>2 DEF TypeOK, github, engine
  <2> QED BY <1>6, <2>5, <2>6 DEF SweepVisit
<1>7. CASE SweepClaim
  <2>1. at \in Reviews /\ cs[Sweeper] \in SUBSET Comments
    BY <1>1, <1>7 DEF SweepClaim, TypeOK
  <2>2. UNCHANGED <<github, inbox, now, boot, info, bodyOnly, todo, listed, first, engine>>
    BY <1>7 DEF SweepClaim
  <2>3. /\ pc' = [pc EXCEPT ![Sweeper] = "visiting"]
        /\ cs' = [cs EXCEPT ![Sweeper] = {}] /\ at' = Sweeper
    BY <1>7 DEF SweepClaim
  <2>4. /\ claims' \in [Reviews -> Nat \cup {Never}]
        /\ wins' \in Seq(Win)
        /\ out' \in [Tasks -> SUBSET Event]
    <3>1. CASE /\ Claim(at)
               /\ out' = [out EXCEPT ![Sweeper] = @ \cup NewComment(at, cs[Sweeper])]
      BY <1>1, <2>1, <3>1, ClaimType, NewCommentType DEF TypeOK
    <3> QED BY <1>7, <3>1 DEF SweepClaim, TypeOK
  <2> QED BY <1>1, <2>2, <2>3, <2>4 DEF TypeOK, github, engine
<1>8. CASE SweepDone
  BY <1>1, <1>8 DEF SweepDone, TypeOK, github, cache, engine
<1>9. CASE Emit(Sweeper)
  BY <1>1, <1>9, EmitType
<1> QED BY <1>3, <1>4, <1>5, <1>6, <1>7, <1>8, <1>9 DEF SweepNext

\* The first state is typed.
LEMMA InitType == ASSUME Init PROVE TypeOK
<1>1. Sweeper \in Tasks
  BY DEF Tasks
<1>2. /\ submitted = {} /\ shown = {} /\ addressed = {} /\ aged = {} /\ closes = 0
      /\ inbox = {} /\ now = 0 /\ boot = 0 /\ todo = {} /\ listed = {} /\ at = Sweeper
      /\ first \in BOOLEAN
  BY ConfigAssumption DEF Init
<1>3. /\ info \in [Reviews -> Nat \cup {Never}] /\ claims \in [Reviews -> Nat \cup {Never}]
      /\ pc = [t \in Tasks |-> "idle"] /\ cs \in [Tasks -> SUBSET Comments]
      /\ bodyOnly \in [Tasks -> BOOLEAN] /\ out \in [Tasks -> SUBSET Event]
      /\ marks \in [Streams -> Nat]
  BY DEF Init
<1>4. /\ runs \in Seq(Event)
      /\ wins \in Seq(Win)
  BY DEF Init
<1> QED BY <1>1, <1>2, <1>3, <1>4 DEF TypeOK

\* Every step keeps the types.
LEMMA StepType == ASSUME TypeOK, [Next]_vars PROVE TypeOK'
<1>1. CASE World
  BY <1>1, WorldType
<1>2. CASE SweepNext
  BY <1>2, SweepType
<1>3. CASE \E m \in inbox : Receive(m)
  BY <1>3, ReceiveType
<1>4. CASE \E d \in Deliveries : Handle(d)
  BY <1>4, HandleType
<1>5. CASE UNCHANGED vars
  BY <1>5 DEF vars, github, cache, tasks, sweep, engine, TypeOK
<1> QED BY <1>1, <1>2, <1>3, <1>4, <1>5 DEF Next

-----------------------------------------------------------------------------
(* The claims outlive what they were won for.  A win of this boot is either *)
(* still claimed, by itself or by a later win, or so old that its claim has *)
(* expired: that is what no full table and no expiry may undo.              *)
WinsRemembered ==
    \A i \in DOMAIN wins :
        /\ wins[i].time <= now /\ wins[i].boot <= boot
        /\ wins[i].boot = boot =>
             \/ claims[wins[i].review] >= wins[i].time
             \/ now - wins[i].time > TTL

\* What the history holds.
LEMMA WinTypes ==
    ASSUME TypeOK
    PROVE  \A i \in DOMAIN wins : wins[i].review \in Reviews /\ wins[i].time \in Nat
                                  /\ wins[i].boot \in Nat
<1>1. \A i \in DOMAIN wins : wins[i] \in Win
  BY DEF TypeOK
<1> QED BY <1>1 DEF Win

IInv == TypeOK /\ WinsRemembered /\ OneEventPerReview

\* What a claim makes of the history and of the table.
LEMMA ClaimKeeps ==
    ASSUME TypeOK, WinsRemembered, OneEventPerReview, NEW r \in Reviews, Claim(r),
           UNCHANGED <<now, boot>>
    PROVE  WinsRemembered' /\ OneEventPerReview'
<1> DEFINE w == [review |-> r, time |-> now, boot |-> boot]
<1>1. wins \in Seq(Win) /\ now \in Nat /\ boot \in Nat
      /\ claims \in [Reviews -> Nat \cup {Never}] /\ TTL \in Nat
  BY BoundAssumption DEF TypeOK
<1>2. wins' = Append(wins, w)
  BY DEF Claim
<1>3. /\ DOMAIN wins = 1..Len(wins) /\ Len(wins) \in Nat
      /\ DOMAIN wins' = 1..(Len(wins) + 1)
      /\ \A i \in 1..Len(wins) : wins'[i] = wins[i]
      /\ wins'[Len(wins) + 1] = w
  BY <1>1, <1>2
<1>4. ~Fresh(claims, r)
  BY DEF Claim, CanClaim, Claimed
<1>5. /\ claims'[r] = now
      /\ \A q \in Reviews \ {r} : claims'[q] = claims[q] \/ ~Fresh(claims, q)
  BY <1>1 DEF Claim, Only, Entries, FreshOnes
<1>6. \A i \in 1..Len(wins) : wins[i].review \in Reviews /\ wins[i].time \in Nat
                              /\ wins[i].boot \in Nat
  BY <1>3, WinTypes
<1>7. WinsRemembered'
  <2> SUFFICES ASSUME NEW i \in DOMAIN wins'
               PROVE  /\ wins'[i].time <= now /\ wins'[i].boot <= boot
                      /\ wins'[i].boot = boot =>
                           \/ claims'[wins'[i].review] >= wins'[i].time
                           \/ now - wins'[i].time > TTL
    BY DEF WinsRemembered
  <2>1. CASE i = Len(wins) + 1
    BY <1>1, <1>3, <1>5, <2>1
  <2>2. CASE i \in 1..Len(wins)
    <3> DEFINE q == wins[i].review
    <3>1. wins'[i] = wins[i] /\ q \in Reviews /\ wins[i].time \in Nat
      BY <1>3, <1>6, <2>2
    <3>2. /\ wins[i].time <= now /\ wins[i].boot <= boot
          /\ wins[i].boot = boot => claims[q] >= wins[i].time \/ now - wins[i].time > TTL
      BY <1>3, <2>2 DEF WinsRemembered
    <3>3. CASE q = r
      BY <1>1, <1>5, <3>1, <3>2, <3>3
    <3>4. CASE q # r
      <4>1. claims'[q] = claims[q] \/ claims[q] = Never \/ now - claims[q] > TTL
        BY <1>1, <1>5, <3>1, <3>4 DEF Fresh
      <4>2. claims[q] \in Nat \cup {Never}
        BY <1>1, <3>1
      <4> QED BY <1>1, <3>1, <3>2, <4>1, <4>2
    <3> QED BY <3>3, <3>4
  <2> QED BY <1>3, <2>1, <2>2
<1>8. OneEventPerReview'
  <2> SUFFICES ASSUME NEW i \in DOMAIN wins', NEW j \in DOMAIN wins',
                      i < j, wins'[i].review = wins'[j].review, wins'[i].boot = wins'[j].boot
               PROVE  wins'[j].time - wins'[i].time > TTL
    BY DEF OneEventPerReview
  <2>1. CASE j \in 1..Len(wins)
    BY <1>3, <2>1 DEF OneEventPerReview
  <2>2. CASE j = Len(wins) + 1
    <3>1. i \in 1..Len(wins) /\ wins'[i] = wins[i] /\ wins[i].review = r /\ wins[i].boot = boot
      BY <1>3, <2>2
    <3>2. claims[r] >= wins[i].time \/ now - wins[i].time > TTL
      BY <1>3, <3>1 DEF WinsRemembered
    <3>3. claims[r] = Never \/ now - claims[r] > TTL
      BY <1>1, <1>4 DEF Fresh
    <3>4. claims[r] \in Nat \cup {Never} /\ wins[i].time \in Nat
      BY <1>1, <1>6, <3>1
    <3> QED BY <1>1, <1>3, <2>2, <3>1, <3>2, <3>3, <3>4
  <2> QED BY <1>3, <2>1, <2>2
<1> QED BY <1>7, <1>8

\* A step that leaves claims, history and boot alone only lets time pass.
LEMMA OtherStepKeeps ==
    ASSUME TypeOK, WinsRemembered, OneEventPerReview,
           UNCHANGED <<claims, wins, boot>>, now' \in Nat, now' >= now
    PROVE  WinsRemembered' /\ OneEventPerReview'
<1>1. OneEventPerReview'
  BY DEF OneEventPerReview
<1>2. TTL \in Nat /\ now \in Nat /\ boot \in Nat
      /\ \A i \in DOMAIN wins : wins[i].time \in Nat /\ wins[i].boot \in Nat
  BY BoundAssumption, WinTypes DEF TypeOK
<1>3. WinsRemembered'
  BY <1>2 DEF WinsRemembered
<1> QED BY <1>1, <1>3

\* A restart forgets the claims, and no earlier win is of the new boot.
LEMMA RestartKeeps ==
    ASSUME TypeOK, WinsRemembered, OneEventPerReview, Restart
    PROVE  WinsRemembered' /\ OneEventPerReview'
<1>1. /\ boot \in Nat /\ boot' = boot + 1 /\ UNCHANGED <<now, wins>>
      /\ \A i \in DOMAIN wins : wins[i].time \in Nat /\ wins[i].boot \in Nat
  BY WinTypes DEF TypeOK, Restart
<1> QED BY <1>1 DEF WinsRemembered, OneEventPerReview

\* Only these two ways of touching the claims exist.
LEMMA StepKinds ==
    ASSUME TypeOK, [Next]_vars
    PROVE  \/ \E r \in Reviews : Claim(r) /\ UNCHANGED <<now, boot>>
           \/ UNCHANGED <<claims, wins, boot>> /\ now' \in Nat /\ now' >= now
           \/ Restart
<1>0. now \in Nat
  BY DEF TypeOK
<1>1. CASE World
  BY <1>0, <1>1 DEF World, Submit, Show, Address, CloseOrReopen, Lose, Tick, cache
<1>2. CASE SweepNext
  <2>1. ASSUME NEW r \in Reviews, SweepBody(r)
        PROVE  \/ Claim(r) /\ UNCHANGED <<now, boot>>
               \/ UNCHANGED <<claims, wins, boot, now>>
    BY <2>1 DEF SweepBody, cache
  <2>2. CASE SweepClaim
    <3>1. at \in Reviews
      BY <2>2 DEF SweepClaim, TypeOK
    <3> QED BY <1>0, <2>2, <3>1 DEF SweepClaim
  <2>3. CASE SweepRead \/ SweepList \/ SweepDone
    BY <1>0, <2>3 DEF SweepRead, SweepList, SweepDone, cache
  <2>4. CASE \E r \in Reviews : SweepVisit(r)
    BY <1>0, <2>4 DEF SweepVisit
  <2>5. CASE Emit(Sweeper)
    BY <1>0, <2>5 DEF Emit, cache
  <2> QED BY <1>0, <1>2, <2>1, <2>2, <2>3, <2>4, <2>5 DEF SweepNext
<1>3. CASE \E m \in inbox : Receive(m)
  BY <1>0, <1>3 DEF Receive
<1>4. ASSUME NEW d \in Deliveries, Handle(d)
      PROVE  \/ \E r \in Reviews : Claim(r) /\ UNCHANGED <<now, boot>>
             \/ UNCHANGED <<claims, wins, boot>> /\ now' \in Nat /\ now' >= now
  <2>1. Subject(d) \in Reviews
    BY ReviewAssumption DEF Deliveries, Subject
  <2>2. CASE Decide(d)
    <3>1. \/ Claim(Subject(d)) \/ UNCHANGED <<claims, wins>>
      BY <2>2 DEF Decide, AsChangesRequested, AsNewComment, AlreadyClaimed, NotAnEvent
    <3> QED BY <1>0, <2>1, <2>2, <3>1 DEF Decide
  <2>3. CASE List(d) \/ Fold(d) \/ Emit(d)
    BY <1>0, <2>3 DEF List, Fold, Emit, cache
  <2> QED BY <1>4, <2>2, <2>3 DEF Handle
<1>5. CASE UNCHANGED vars
  BY <1>0, <1>5 DEF vars, cache
<1> QED BY <1>1, <1>2, <1>3, <1>4, <1>5 DEF Next

LEMMA InitOne == ASSUME Init PROVE IInv
BY InitType DEF Init, IInv, WinsRemembered, OneEventPerReview

LEMMA OneStep == ASSUME IInv, [Next]_vars PROVE IInv'
BY StepType, StepKinds, ClaimKeeps, OtherStepKeeps, RestartKeeps DEF IInv

-----------------------------------------------------------------------------
(* The cursor.  While reads neither fail nor trail, what a read of the     *)
(* pull request returns is all there is, so a fold that raises the cursor  *)
(* carries every review it passes, but those that come later, which are    *)
(* above it, and those that are answered meanwhile.                        *)

\* A delivery is of a review that was submitted, and these come in order.
Sent ==
    /\ \A m \in inbox : Subject(m.id) \in submitted
    /\ \A d \in Deliveries : pc[d] # "idle" => Subject(d) \in submitted
InOrder == \A m \in submitted, q \in Reviews : q < m => q \in submitted

Shows == shown = submitted \cup {c \in Comments : ReviewOf[c] \in submitted}

\* A fold on its way, and the cursor, pass nothing that waits and is not carried.
Carries(e) == e.mark \in submitted /\ \A r \in Unaddressed(shown) : r <= e.mark => r \in e.covers
FoldsCarry == \A t \in Tasks : \A e \in out[t] : e.stream = "feedback" => Carries(e)
Passed ==
    /\ marks["feedback"] \in submitted \cup {0}
    /\ \A r \in Unaddressed(shown) : r <= marks["feedback"] => r \in Covered

CursorInv == Sent /\ InOrder /\ Shows /\ FoldsCarry /\ Passed

\* Only these steps change what GitHub shows.
LEMMA GitHubKinds ==
    ASSUME [Next]_vars
    PROVE  \/ \E r \in Reviews : Submit(r)
           \/ \E r \in Reviews : Address(r)
           \/ \E x \in Deliveries : Show(x)
           \/ UNCHANGED <<submitted, shown, addressed>>
<1>1. CASE World
  BY <1>1 DEF World, CloseOrReopen, Lose, Tick, Restart, github
<1>2. CASE SweepNext
  BY <1>2 DEF SweepNext, SweepRead, SweepBody, SweepList, SweepVisit, SweepClaim, SweepDone,
     Emit, github
<1>3. CASE \E m \in inbox : Receive(m)
  BY <1>3 DEF Receive, github
<1>4. CASE \E d \in Deliveries : Handle(d)
  BY <1>4 DEF Handle, List, Decide, Fold, Emit, github
<1>5. CASE UNCHANGED vars
  BY <1>5 DEF vars, github
<1> QED BY <1>1, <1>2, <1>3, <1>4, <1>5 DEF Next

\* What waits at or below a submitted review waited before.
LEMMA WaitingShrinks ==
    ASSUME TypeOK, InOrder, Shows, Trailing = {}, [Next]_vars
    PROVE  /\ InOrder' /\ Shows' /\ submitted \subseteq submitted'
           /\ \A m \in submitted \cup {0}, r \in Unaddressed(shown)' :
                 r <= m => r \in Unaddressed(shown)
<1>1. ASSUME NEW r \in Reviews, Submit(r)
      PROVE  /\ InOrder' /\ Shows' /\ submitted \subseteq submitted'
             /\ \A m \in submitted \cup {0}, q \in Unaddressed(shown)' :
                   q <= m => q \in Unaddressed(shown)
  <2>1. /\ submitted' = submitted \cup {r} /\ addressed' = addressed
        /\ shown' = shown \cup {r} \cup CommentsOf(r)
        /\ r \notin submitted /\ \A q \in Reviews : q < r => q \in submitted
    BY <1>1 DEF Submit
  <2>2. InOrder'
    BY <2>1 DEF InOrder
  <2>3. Shows'
    BY <2>1 DEF Shows, CommentsOf
  <2>4. \A m \in submitted \cup {0} : m < r
    <3>1. \A m \in submitted : ~(r < m)
      BY <2>1 DEF InOrder
    <3> QED BY <2>1, <3>1, IdAssumption DEF TypeOK
  <2>5. ASSUME NEW m \in submitted \cup {0}, NEW q \in Unaddressed(shown)', q <= m
        PROVE  q \in Unaddressed(shown)
    <3>1. q \in Reviews /\ q # r
      BY <2>4, <2>5, IdAssumption DEF TypeOK, Unaddressed
    <3>2. CommentsOf(q) \cap shown' = CommentsOf(q) \cap shown
      BY <2>1, <3>1, IdAssumption DEF CommentsOf
    <3>3. q \in shown
      BY <2>1, <2>5, <3>1, IdAssumption DEF Unaddressed, CommentsOf
    <3> QED BY <2>1, <2>5, <3>1, <3>2, <3>3 DEF Unaddressed
  <2> QED BY <2>1, <2>2, <2>3, <2>5
<1>2. ASSUME NEW r \in Reviews, Address(r)
      PROVE  /\ UNCHANGED <<submitted, shown>> /\ addressed \subseteq addressed'
  BY <1>2 DEF Address
<1>3. ASSUME NEW x \in Deliveries, Show(x)
      PROVE  /\ UNCHANGED <<submitted, shown, addressed>>
  BY <1>3 DEF Show, Shows, Subject, Deliveries
<1>4. ASSUME UNCHANGED <<submitted, shown>>, addressed \subseteq addressed'
      PROVE  /\ InOrder' /\ Shows' /\ submitted \subseteq submitted'
             /\ Unaddressed(shown)' \subseteq Unaddressed(shown)
  BY <1>4 DEF InOrder, Shows, Unaddressed
<1> QED BY <1>1, <1>2, <1>3, <1>4, GitHubKinds

\* A fold that was read carries what it passes.
LEMMA FoldCarries ==
    ASSUME TypeOK, Shows, NEW r \in submitted, NEW C,
           NEW e \in ReviewFoldOf(r, C, shown) \cup SweepFoldOf(shown)
    PROVE  Carries(e)
<1>1. Unaddressed(shown) \subseteq submitted
  BY IdAssumption DEF Unaddressed, Shows
<1>2. e.mark \in submitted
  BY <1>1 DEF ReviewFoldOf, SweepFoldOf, Greatest
<1>3. Unaddressed(shown) \subseteq e.covers
  BY DEF ReviewFoldOf, SweepFoldOf, FoldOf
<1> QED BY <1>2, <1>3 DEF Carries

\* A new_comment is of another stream.
LEMMA OtherStreams ==
    \A r \in Reviews, C \in SUBSET Comments, c \in Comments :
        \A e \in NewComment(r, C) \cup Standalone(c) : e.stream # "feedback"
BY DEF NewComment, Standalone

\* Every fold on its way was, or is one that carries what it passes.
LEMMA OutKinds ==
    ASSUME TypeOK, CursorInv, ReadsFail = FALSE, [Next]_vars,
           NEW t \in Tasks, NEW e \in out'[t], e.stream = "feedback"
    PROVE  e \in out[t] \/ Carries(e)
<1> USE DEF TypeOK
<1>0. shown \subseteq Deliveries
  OBVIOUS
<1>1. CASE World
  BY <1>1 DEF World, Submit, Show, Address, CloseOrReopen, Lose, Tick, Restart, tasks
<1>2. CASE \E m \in inbox : Receive(m)
  <2>1. PICK m \in inbox : Receive(m)
    BY <1>2
  <2>2. m.id \in Tasks /\ (m.id \in Comments => \A x \in Standalone(m.id) : x.stream # "feedback")
    BY OtherStreams, ReviewAssumption DEF Tasks, Deliveries, Standalone
  <2> QED BY <2>1, <2>2 DEF Receive, ReceiveClosed, ReceiveReview, ReceiveComment, StartReview,
             EmitNext
<1>3. ASSUME NEW d \in Deliveries, Handle(d) PROVE e \in out[t] \/ Carries(e)
  <2>1. d \in Tasks /\ Subject(d) \in Reviews /\ cs[d] \subseteq Comments
    BY ReviewAssumption DEF Tasks, Deliveries, Subject
  <2>2. CASE Decide(d)
    <3>1. \A x \in NewComment(Subject(d), cs[d]) : x.stream # "feedback"
      BY <2>1 DEF NewComment
    <3>2. d \in Comments => \A x \in Standalone(d) : x.stream # "feedback"
      BY DEF Standalone
    <3> QED BY <2>1, <2>2, <3>1, <3>2 DEF Decide, AsChangesRequested, AsNewComment,
               AlreadyClaimed, NotAnEvent, Stop, EmitNext
  <2>3. CASE Fold(d)
    <3>1. out' = [out EXCEPT ![d] = ReviewFoldOf(Subject(d), cs[d], shown)] /\ pc[d] = "folding"
      BY <2>3 DEF Fold, EmitNext
    <3>2. Subject(d) \in submitted
      BY <3>1 DEF CursorInv, Sent
    <3>3. t = d => Carries(e)
      BY <2>1, <3>1, <3>2, FoldCarries DEF CursorInv
    <3> QED BY <3>1, <3>3
  <2>4. CASE List(d) \/ Emit(d)
    BY <2>1, <2>4 DEF List, Emit
  <2> QED BY <1>3, <2>2, <2>3, <2>4 DEF Handle
<1>4. CASE SweepNext
  <2>0. Sweeper \in Tasks /\ listed \subseteq Comments /\ cs[Sweeper] \subseteq Comments
    BY DEF Tasks
  <2>1. CASE SweepRead
    <3>1. out'[Sweeper] \subseteq SweepFoldOf(shown) /\ (t # Sweeper => out'[t] = out[t])
      BY <2>0, <2>1 DEF SweepRead
    <3>2. CASE t = Sweeper
      <4>1. e \in SweepFoldOf(shown)
        BY <3>1, <3>2
      <4>2. e.mark \in submitted
        BY <4>1, IdAssumption DEF CursorInv, Shows, SweepFoldOf, Greatest, Unaddressed
      <4> QED BY <4>1, <4>2, FoldCarries DEF CursorInv
    <3> QED BY <3>1, <3>2
  <2>2. ASSUME NEW r \in Reviews, SweepBody(r) PROVE e \in out[t] \/ Carries(e)
    <3>1. \A x \in NewComment(r, {}) : x.stream # "feedback"
      BY DEF NewComment
    <3> QED BY <2>0, <2>2, <3>1 DEF SweepBody
  <2>3. ASSUME NEW r \in Reviews, SweepVisit(r) PROVE e \in out[t] \/ Carries(e)
    <3>1. \A x \in UNION {Standalone(c) : c \in listed \cap CommentsOf(r)} : x.stream # "feedback"
      BY DEF Standalone
    <3> QED BY <2>0, <2>3, <3>1 DEF SweepVisit
  <2>4. CASE SweepClaim
    <3>1. \A x \in NewComment(at, cs[Sweeper]) : x.stream # "feedback"
      BY DEF NewComment
    <3> QED BY <2>0, <2>4, <3>1 DEF SweepClaim
  <2>5. CASE SweepList \/ SweepDone \/ Emit(Sweeper)
    BY <2>0, <2>5 DEF SweepList, SweepDone, Emit
  <2> QED BY <1>4, <2>1, <2>2, <2>3, <2>4, <2>5 DEF SweepNext
<1>5. CASE UNCHANGED vars
  BY <1>5 DEF vars, tasks
<1> QED BY <1>1, <1>2, <1>3, <1>4, <1>5 DEF Next

\* The engine is told of an event that was on its way, or of none.
LEMMA EngineKinds ==
    ASSUME [Next]_vars
    PROVE  UNCHANGED engine \/ \E t \in Tasks : \E e \in out[t] : Dispatch(e)
<1>1. CASE World
  BY <1>1 DEF World, Submit, Show, Address, CloseOrReopen, Lose, Tick, Restart
<1>2. CASE SweepNext
  BY <1>2 DEF SweepNext, SweepRead, SweepBody, SweepList, SweepVisit, SweepClaim, SweepDone,
     Emit, Tasks
<1>3. CASE \E m \in inbox : Receive(m)
  BY <1>3 DEF Receive
<1>4. CASE \E d \in Deliveries : Handle(d)
  BY <1>4 DEF Handle, List, Decide, Fold, Emit, Tasks
<1>5. CASE UNCHANGED vars
  BY <1>5 DEF vars
<1> QED BY <1>1, <1>2, <1>3, <1>4, <1>5 DEF Next

\* What is handled was sent, and what is sent was submitted.
LEMMA SentStays == ASSUME TypeOK, Sent, [Next]_vars PROVE Sent'
<1> USE DEF Sent, TypeOK
<1>1. ASSUME NEW r \in Reviews, Submit(r) PROVE Sent'
  <2>1. \A x \in {r} \cup CommentsOf(r) : Subject(x) = r
    BY IdAssumption DEF Subject, CommentsOf
  <2> QED BY <1>1, <2>1 DEF Submit, tasks
<1>2. CASE World /\ ~\E r \in Reviews : Submit(r)
  BY <1>2 DEF World, Show, Address, CloseOrReopen, Lose, Tick, Restart, tasks, github, Tasks
<1>3. ASSUME NEW m \in inbox, Receive(m) PROVE Sent'
  BY <1>3 DEF Receive, ReceiveClosed, ReceiveReview, ReceiveComment, StartReview, EmitNext,
     github, Tasks, Deliveries
<1>4. ASSUME NEW d \in Deliveries, Handle(d) PROVE Sent'
  <2>1. pc[d] # "idle" /\ inbox' = inbox /\ submitted' = submitted
    BY <1>4 DEF Handle, List, Decide, Fold, Emit, github
  <2>2. \A x \in Tasks : x # d => pc'[x] = pc[x]
    BY <1>4 DEF Handle, List, Decide, AsChangesRequested, AsNewComment, AlreadyClaimed,
       NotAnEvent, Stop, EmitNext, Fold, Emit
  <2> QED BY <2>1, <2>2 DEF Tasks
<1>5. CASE SweepNext
  <2>1. inbox' = inbox /\ submitted' = submitted /\ \A x \in Tasks : x # Sweeper => pc'[x] = pc[x]
    BY <1>5 DEF SweepNext, SweepRead, SweepBody, SweepList, SweepVisit, SweepClaim, SweepDone,
       Emit, github
  <2> QED BY <2>1, IdAssumption DEF Tasks, Deliveries
<1>6. CASE UNCHANGED vars
  BY <1>6 DEF vars, github, tasks
<1> QED BY <1>1, <1>2, <1>3, <1>4, <1>5, <1>6 DEF Next

\* CursorInv is kept by every step.
LEMMA CursorStep ==
    ASSUME TypeOK, CursorInv, ReadsFail = FALSE, Trailing = {}, [Next]_vars
    PROVE  CursorInv'
<1>1. /\ InOrder' /\ Shows' /\ submitted \subseteq submitted'
      /\ \A m \in submitted \cup {0}, r \in Unaddressed(shown)' :
            r <= m => r \in Unaddressed(shown)
  BY WaitingShrinks DEF CursorInv
<1>2. ASSUME NEW e, Carries(e) PROVE Carries(e)'
  BY <1>1, <1>2 DEF Carries
<1>3. FoldsCarry'
  BY <1>2, OutKinds DEF CursorInv, FoldsCarry
<1>4. Passed'
  <2>1. CASE UNCHANGED engine
    BY <1>1, <2>1 DEF CursorInv, Passed, Covered, engine
  <2>2. ASSUME NEW t \in Tasks, NEW e \in out[t], Dispatch(e) PROVE Passed'
    <3>0. /\ e \in Event /\ runs \in Seq(Event) /\ e.mark \in Nat
          /\ marks \in [Streams -> Nat] /\ "feedback" \in Streams
      BY DEF TypeOK, Event, Streams
    <3>1. CASE UNCHANGED engine
      BY <2>1, <3>1
    <3>2. CASE marks' = [marks EXCEPT ![e.stream] = e.mark] /\ runs' = Append(runs, e)
      <4>1. Covered \subseteq Covered' /\ e.covers \subseteq Covered'
        <5>1. /\ \A i \in DOMAIN runs : i \in DOMAIN runs' /\ runs'[i] = runs[i]
              /\ Len(runs) + 1 \in DOMAIN runs' /\ runs'[Len(runs) + 1] = e
          BY <3>0, <3>2
        <5> QED BY <5>1 DEF Covered
      <4>2. CASE e.stream = "feedback"
        <5>1. marks'["feedback"] = e.mark /\ Carries(e)
          BY <3>0, <3>2, <4>2, <2>2 DEF CursorInv, FoldsCarry
        <5> QED BY <1>1, <4>1, <5>1 DEF Carries, Passed
      <4>3. CASE e.stream # "feedback"
        <5>1. marks'["feedback"] = marks["feedback"]
          BY <3>0, <3>2, <4>3
        <5> QED BY <1>1, <4>1, <5>1 DEF CursorInv, Passed
      <4> QED BY <4>2, <4>3
    <3> QED BY <2>2, <3>1, <3>2 DEF Dispatch
  <2> QED BY <2>1, <2>2, EngineKinds
<1> QED BY <1>1, <1>3, <1>4, SentStays DEF CursorInv

LEMMA InitCursor == ASSUME Init PROVE CursorInv
<1>1. /\ submitted = {} /\ shown = {} /\ inbox = {} /\ marks["feedback"] = 0
      /\ \A t \in Tasks : pc[t] = "idle" /\ out[t] = {}
  BY DEF Init, Streams
<1> QED BY <1>1 DEF CursorInv, Sent, InOrder, Shows, FoldsCarry, Passed, Unaddressed, Tasks

LEMMA CursorMeans == ASSUME CursorInv PROVE CursorCovers
BY DEF CursorInv, Shows, Passed, CursorCovers

-----------------------------------------------------------------------------
(* The comment marks.  While no read of a comment trails, a review's       *)
(* new_comment has all its comments whichever task builds it, and so one   *)
(* stream and one mark; the engine's mark then drops all but the first.    *)

\* What is shown was submitted, and the comments of a review are shown at once.
ShownTogether ==
    /\ shown \cap Reviews \subseteq submitted
    /\ \A c \in Comments : c \in shown <=> ReviewOf[c] \in submitted

\* A task holds all comments of its review, or none and then emits none.
AllOrNone(d) == /\ cs[d] \in {{}, CommentsOf(Subject(d))}
                /\ bodyOnly[d] => cs[d] = CommentsOf(Subject(d))
Listed(S) == S \subseteq submitted /\ \A r \in S : CommentsOf(r) \subseteq listed
SweepHolds ==
    /\ pc[Sweeper] = "bodies" => \A r \in todo : CommentsOf(r) = {}
    /\ pc[Sweeper] = "visiting" => Listed(todo)
    /\ pc[Sweeper] = "claiming" => cs[Sweeper] = CommentsOf(at) /\ Listed(todo)
HeldWhole == (\A d \in Deliveries : pc[d] = "deciding" => AllOrNone(d)) /\ SweepHolds

\* An event of a review has all its comments, or is a comment that stands alone.
Whole(e) ==
    \/ e.stream = "feedback"
    \/ \E r \in Reviews : e \in NewComment(r, CommentsOf(r))
    \/ \E c \in Comments : e \in Standalone(c)
EventsWhole ==
    /\ \A t \in Tasks : \A e \in out[t] : Whole(e)
    /\ \A i \in DOMAIN runs : Whole(runs[i])

\* The marks rise.
MarksRise ==
    /\ \A i \in DOMAIN runs : runs[i].mark <= marks[runs[i].stream]
    /\ \A i, j \in DOMAIN runs :
          (i < j /\ runs[i].stream = runs[j].stream) => runs[i].mark < runs[j].mark

RunsInv == ShownTogether /\ Sent /\ HeldWhole /\ EventsWhole /\ MarksRise

\* A comment is shown with its review's submission, and never taken back.
LEMMA TogetherStays ==
    ASSUME TypeOK, ShownTogether, Trailing \cap Comments = {}, [Next]_vars
    PROVE  ShownTogether'
<1>1. ASSUME NEW r \in Reviews, Submit(r) PROVE ShownTogether'
  <2>1. /\ submitted' = submitted \cup {r}
        /\ shown' = shown \cup (({r} \cup CommentsOf(r)) \ Trailing)
    BY <1>1 DEF Submit
  <2>2. \A c \in Comments : c \in shown' <=> (c \in shown \/ ReviewOf[c] = r)
    BY <2>1, IdAssumption DEF CommentsOf
  <2> QED BY <2>1, <2>2, IdAssumption DEF ShownTogether, CommentsOf
<1>2. ASSUME NEW r \in Reviews, Address(r) PROVE ShownTogether'
  BY <1>2 DEF Address, ShownTogether
<1>3. ASSUME NEW x \in Deliveries, Show(x) PROVE ShownTogether'
  <2>1. shown' = shown \cup {x} /\ submitted' = submitted /\ Subject(x) \in submitted
    BY <1>3 DEF Show
  <2> QED BY <2>1, IdAssumption DEF ShownTogether, Subject, Deliveries
<1>4. CASE UNCHANGED <<submitted, shown, addressed>>
  BY <1>4 DEF ShownTogether
<1> QED BY <1>1, <1>2, <1>3, <1>4, GitHubKinds

\* The comments that a read shows of a submitted review are all it has.
LEMMA ShowsAll ==
    ASSUME ShownTogether, NEW r \in submitted
    PROVE  CommentsOf(r) \subseteq shown
BY DEF ShownTogether, CommentsOf

\* A task that goes on to decide has read all comments of its review, or none; one
\* that does not touches no other task.
LEMMA HandlersHoldWhole ==
    ASSUME TypeOK, RunsInv, [Next]_vars, NEW d \in Deliveries, pc'[d] = "deciding"
    PROVE  AllOrNone(d)'
<1> USE DEF TypeOK
<1>1. CASE UNCHANGED <<pc, cs, bodyOnly>>
  BY <1>1 DEF RunsInv, HeldWhole, AllOrNone
<1>0. d \in Tasks /\ d # Sweeper
  BY IdAssumption DEF Tasks, Deliveries
<1>2. ASSUME pc[d] = "deciding", cs'[d] = cs[d], bodyOnly'[d] = bodyOnly[d] PROVE AllOrNone(d)'
  BY <1>2 DEF RunsInv, HeldWhole, AllOrNone
<1>3. CASE World
  BY <1>0, <1>1, <1>3 DEF World, Submit, Show, Address, CloseOrReopen, Lose, Tick, Restart, tasks
<1>4. ASSUME NEW m \in inbox, Receive(m) PROVE AllOrNone(d)'
  <2>1. m.id # d
    BY <1>0, <1>4 DEF Receive, ReceiveClosed, ReceiveReview, ReceiveComment, StartReview, EmitNext
  <2> QED BY <1>0, <1>2, <1>4, <2>1 DEF Receive, ReceiveClosed, ReceiveReview, ReceiveComment,
             StartReview, EmitNext
<1>5. ASSUME NEW x \in Deliveries, Handle(x) PROVE AllOrNone(d)'
  <2>0. x \in Tasks
    BY DEF Tasks
  <2>1. CASE x # d
    <3>1. pc'[d] = pc[d] /\ cs'[d] = cs[d] /\ bodyOnly'[d] = bodyOnly[d]
      BY <1>0, <1>5, <2>0, <2>1 DEF Handle, List, Decide, AsChangesRequested, AsNewComment,
         AlreadyClaimed, NotAnEvent, Stop, EmitNext, Fold, Emit
    <3> QED BY <1>2, <3>1
  <2>2. CASE x = d /\ List(d)
    <3>1. Subject(d) \in submitted
      BY <1>0, <2>2 DEF List, RunsInv, Sent
    <3>2. CommentsOf(Subject(d)) \cap shown = CommentsOf(Subject(d))
      BY <3>1, ShowsAll DEF RunsInv
    <3> QED BY <1>0, <2>2, <3>2 DEF List, AllOrNone
  <2>3. CASE x = d /\ ~List(d)
    BY <1>0, <1>5, <2>3 DEF Handle, Decide, AsChangesRequested, AsNewComment, AlreadyClaimed,
       NotAnEvent, Stop, EmitNext, Fold, Emit
  <2> QED BY <2>1, <2>2, <2>3
<1>6. CASE SweepNext
  <2>1. pc'[d] = pc[d] /\ cs'[d] = cs[d] /\ bodyOnly'[d] = bodyOnly[d]
    BY <1>0, <1>6 DEF SweepNext, SweepRead, SweepBody, SweepList, SweepVisit, SweepClaim,
       SweepDone, Emit
  <2> QED BY <1>2, <2>1
<1>7. CASE UNCHANGED vars
  BY <1>1, <1>7 DEF vars, tasks
<1> QED BY <1>3, <1>4, <1>5, <1>6, <1>7 DEF Next

\* What was submitted stays so.
LEMMA SubmittedGrows == [Next]_vars => submitted \subseteq submitted'
BY GitHubKinds DEF Submit, Address, Show

\* So does the sweep hold what it listed, whole.
LEMMA SweepHoldsStays == ASSUME TypeOK, RunsInv, [Next]_vars PROVE SweepHolds'
<1> USE DEF TypeOK
<1>0. Sweeper \in Tasks /\ Sweeper \notin Deliveries
  BY IdAssumption DEF Tasks, Deliveries
<1>1. ASSUME pc'[Sweeper] = pc[Sweeper], cs'[Sweeper] = cs[Sweeper], UNCHANGED <<at, listed>>,
             todo' \subseteq todo
      PROVE  SweepHolds'
  BY <1>1, SubmittedGrows DEF RunsInv, HeldWhole, SweepHolds, Listed
<1>2. CASE World
  <2>1. CASE Restart
    BY <1>0, <2>1 DEF Restart, SweepHolds
  <2>2. CASE ~Restart
    BY <1>1, <1>2, <2>2 DEF World, Submit, Show, Address, CloseOrReopen, Lose, Tick, tasks, sweep
  <2> QED BY <2>1, <2>2
<1>3. CASE \E m \in inbox : Receive(m)
  BY <1>0, <1>1, <1>3 DEF Receive, ReceiveClosed, ReceiveReview, ReceiveComment, StartReview,
     EmitNext, sweep
<1>4. CASE \E d \in Deliveries : Handle(d)
  BY <1>0, <1>1, <1>4 DEF Handle, List, Decide, AsChangesRequested, AsNewComment,
     AlreadyClaimed, NotAnEvent, Stop, EmitNext, Fold, Emit, sweep
<1>5. CASE SweepNext
  <2>1. CASE SweepRead
    <3>1. \A r \in SweptBodies(shown) \cup SweptBodies({}) : CommentsOf(r) = {}
      <4> SUFFICES ASSUME NEW r \in SweptBodies(shown) PROVE CommentsOf(r) = {}
        BY DEF SweptBodies
      <4>1. r \in submitted /\ CommentsOf(r) \cap shown = {}
        BY DEF SweptBodies, RunsInv, ShownTogether
      <4> QED BY <4>1, ShowsAll DEF RunsInv
    <3>2. pc'[Sweeper] = "bodies" /\ todo' \subseteq SweptBodies(shown) \cup SweptBodies({})
      BY <1>0, <2>1 DEF SweepRead
    <3> QED BY <3>1, <3>2 DEF SweepHolds
  <2>2. CASE SweepList
    <3>1. PICK S \in {shown, {}} : listed' = Recent(S) /\ todo' = Swept(S)
      BY <2>2 DEF SweepList
    <3>2. Swept(S) \subseteq submitted /\ \A r \in Swept(S) : CommentsOf(r) \subseteq Recent(S)
      BY <3>1 DEF Swept, Recent, RunsInv, ShownTogether, CommentsOf
    <3>3. pc'[Sweeper] = "visiting" /\ submitted' = submitted
      BY <1>0, <2>2 DEF SweepList, github
    <3> QED BY <3>1, <3>2, <3>3 DEF SweepHolds, Listed
  <2>3. ASSUME NEW r \in Reviews, SweepVisit(r) PROVE SweepHolds'
    <3>0. /\ pc[Sweeper] = "visiting" /\ r \in todo /\ todo' = todo \ {r} /\ listed' = listed
          /\ submitted' = submitted /\ r \in submitted /\ CommentsOf(r) \subseteq listed
      BY <2>3 DEF SweepVisit, RunsInv, HeldWhole, SweepHolds, Listed, github
    <3>1. CASE UNCHANGED <<pc, cs, at>>
      BY <1>1, <3>0, <3>1
    <3>2. ASSUME pc' = [pc EXCEPT ![Sweeper] = "claiming"], at' = r,
                 NEW S \in {shown, listed},
                 cs' = [cs EXCEPT ![Sweeper] = S \cap CommentsOf(r)]
          PROVE  SweepHolds'
      <4>1. CommentsOf(r) \subseteq S
        <5>1. CASE S = listed
          BY <3>0, <5>1
        <5>2. CASE S = shown
          BY <3>0, <5>2, ShowsAll DEF RunsInv
        <5> QED BY <5>1, <5>2, <3>2
      <4>2. cs'[Sweeper] = CommentsOf(r) /\ pc'[Sweeper] = "claiming"
        BY <1>0, <3>2, <4>1
      <4> QED BY <3>0, <3>2, <4>2 DEF RunsInv, HeldWhole, SweepHolds, Listed
    <3> QED BY <2>3, <3>1, <3>2 DEF SweepVisit
  <2>4. ASSUME NEW r \in Reviews, SweepBody(r) PROVE SweepHolds'
    BY <1>1, <2>4 DEF SweepBody
  <2>5. CASE SweepClaim
    BY <1>0, <2>5 DEF SweepClaim, RunsInv, HeldWhole, SweepHolds, Listed, github
  <2>6. CASE SweepDone \/ Emit(Sweeper)
    BY <1>0, <2>6 DEF SweepDone, Emit, SweepHolds
  <2> QED BY <1>5, <2>1, <2>2, <2>3, <2>4, <2>5, <2>6 DEF SweepNext
<1>6. CASE UNCHANGED vars
  BY <1>1, <1>6 DEF vars, tasks, sweep
<1> QED BY <1>2, <1>3, <1>4, <1>5, <1>6 DEF Next

\* Every event on its way was, or is whole.
LEMMA NewEventsWhole ==
    ASSUME TypeOK, RunsInv, [Next]_vars, NEW t \in Tasks, NEW e \in out'[t]
    PROVE  e \in out[t] \/ Whole(e)
<1> USE DEF TypeOK
<1>1. CASE World
  BY <1>1 DEF World, Submit, Show, Address, CloseOrReopen, Lose, Tick, Restart, tasks
<1>2. ASSUME NEW m \in inbox, Receive(m) PROVE e \in out[t] \/ Whole(e)
  <2>1. m.id \in Comments => \A x \in Standalone(m.id) : Whole(x)
    BY DEF Whole
  <2>2. m.id \in Tasks
    BY DEF Tasks
  <2> QED BY <1>2, <2>1, <2>2 DEF Receive, ReceiveClosed, ReceiveReview, ReceiveComment,
             StartReview, EmitNext
<1>3. ASSUME NEW d \in Deliveries, Handle(d) PROVE e \in out[t] \/ Whole(e)
  <2>1. d \in Tasks /\ Subject(d) \in Reviews
    BY ReviewAssumption DEF Tasks, Deliveries, Subject
  <2>2. CASE Decide(d)
    <3>1. ASSUME cs[d] # {} \/ bodyOnly[d] PROVE \A x \in NewComment(Subject(d), cs[d]) : Whole(x)
      <4>1. cs[d] = CommentsOf(Subject(d))
        BY <2>2, <3>1 DEF Decide, RunsInv, HeldWhole, AllOrNone
      <4> QED BY <2>1, <4>1 DEF Whole
    <3>2. d \in Comments => \A x \in Standalone(d) : Whole(x)
      BY DEF Whole
    <3> QED BY <2>1, <2>2, <3>1, <3>2 DEF Decide, AsChangesRequested, AsNewComment,
               AlreadyClaimed, NotAnEvent, Stop, EmitNext
  <2>3. CASE Fold(d)
    <3>1. \A S : \A x \in ReviewFoldOf(Subject(d), cs[d], S) : Whole(x)
      BY DEF ReviewFoldOf, Whole
    <3> QED BY <2>1, <2>3, <3>1 DEF Fold, EmitNext
  <2>4. CASE List(d) \/ Emit(d)
    BY <2>1, <2>4 DEF List, Emit
  <2> QED BY <1>3, <2>2, <2>3, <2>4 DEF Handle
<1>4. CASE SweepNext
  <2>0. Sweeper \in Tasks
    BY DEF Tasks
  <2>1. CASE SweepRead
    <3>1. \A S : \A x \in SweepFoldOf(S) : Whole(x)
      BY DEF SweepFoldOf, Whole
    <3> QED BY <2>0, <2>1, <3>1 DEF SweepRead
  <2>2. ASSUME NEW r \in Reviews, SweepBody(r) PROVE e \in out[t] \/ Whole(e)
    <3>1. CommentsOf(r) = {}
      BY <2>2 DEF SweepBody, RunsInv, HeldWhole, SweepHolds
    <3>2. \A x \in NewComment(r, {}) : Whole(x)
      BY <3>1 DEF Whole
    <3> QED BY <2>0, <2>2, <3>2 DEF SweepBody
  <2>3. ASSUME NEW r \in Reviews, SweepVisit(r) PROVE e \in out[t] \/ Whole(e)
    <3>1. \A x \in UNION {Standalone(c) : c \in listed \cap CommentsOf(r)} : Whole(x)
      BY DEF Whole
    <3> QED BY <2>0, <2>3, <3>1 DEF SweepVisit
  <2>4. CASE SweepClaim
    <3>1. at \in Reviews /\ cs[Sweeper] = CommentsOf(at)
      BY <2>4 DEF SweepClaim, RunsInv, HeldWhole, SweepHolds
    <3>2. \A x \in NewComment(at, cs[Sweeper]) : Whole(x)
      BY <3>1 DEF Whole
    <3> QED BY <2>0, <2>4, <3>2 DEF SweepClaim
  <2>5. CASE SweepList \/ SweepDone \/ Emit(Sweeper)
    BY <2>0, <2>5 DEF SweepList, SweepDone, Emit
  <2> QED BY <1>4, <2>1, <2>2, <2>3, <2>4, <2>5 DEF SweepNext
<1>5. CASE UNCHANGED vars
  BY <1>5 DEF vars, tasks
<1> QED BY <1>1, <1>2, <1>3, <1>4, <1>5 DEF Next

\* What the engine runs is above all it ran of the stream.
LEMMA RunsStep ==
    ASSUME TypeOK, RunsInv, [Next]_vars
    PROVE  EventsWhole' /\ MarksRise'
<1>1. \A t \in Tasks : \A e \in out'[t] : Whole(e)
  BY NewEventsWhole DEF RunsInv, EventsWhole
<1>2. CASE UNCHANGED engine
  BY <1>1, <1>2 DEF RunsInv, EventsWhole, MarksRise, Whole, engine
<1>3. ASSUME NEW t \in Tasks, NEW e \in out[t], Dispatch(e), ~UNCHANGED engine
      PROVE  EventsWhole' /\ MarksRise'
  <2> DEFINE n == Len(runs)
  <2>1. /\ e \in Event /\ e.mark \in Nat /\ e.stream \in Streams /\ Whole(e)
        /\ marks \in [Streams -> Nat]
    BY DEF TypeOK, Event, RunsInv, EventsWhole
  <2>2. /\ e.mark > marks[e.stream] /\ runs' = Append(runs, e)
        /\ marks' = [marks EXCEPT ![e.stream] = e.mark]
    BY <1>3 DEF Dispatch
  <2>3. /\ n \in Nat /\ DOMAIN runs = 1..n /\ DOMAIN runs' = 1..(n + 1)
        /\ runs'[n + 1] = e /\ \A i \in 1..n : runs'[i] = runs[i]
    BY <2>2 DEF TypeOK
  <2>4. \A i \in 1..n : runs[i].stream \in Streams /\ runs[i].mark \in Nat
    <3>1. \A i \in 1..n : runs[i] \in Event
      BY <2>3 DEF TypeOK
    <3> QED BY <3>1 DEF Event
  <2>5. \A i \in 1..(n + 1) : i = n + 1 \/ i \in 1..n
    BY <2>3
  <2>6. EventsWhole'
    BY <1>1, <2>1, <2>3, <2>5 DEF RunsInv, EventsWhole, Whole
  <2>7. \A i \in 1..(n + 1) : runs'[i].mark <= marks'[runs'[i].stream]
    <3>1. \A i \in 1..n : runs[i].mark <= marks[runs[i].stream]
      BY <2>3 DEF RunsInv, MarksRise
    <3> QED BY <2>1, <2>2, <2>3, <2>4, <2>5, <3>1
  <2>8. ASSUME NEW i \in 1..(n + 1), NEW j \in 1..(n + 1), i < j,
               runs'[i].stream = runs'[j].stream
        PROVE  runs'[i].mark < runs'[j].mark
    <3>1. i \in 1..n
      BY <2>3, <2>8
    <3>2. CASE j \in 1..n
      BY <2>3, <2>8, <3>1, <3>2 DEF RunsInv, MarksRise
    <3>3. CASE j = n + 1
      <4>1. runs[i].mark <= marks[e.stream] /\ runs[i].mark \in Nat /\ marks[e.stream] \in Nat
        BY <2>1, <2>3, <2>4, <2>8, <3>1, <3>3 DEF RunsInv, MarksRise
      <4> QED BY <2>1, <2>2, <2>3, <3>1, <3>3, <4>1
    <3> QED BY <2>5, <3>2, <3>3
  <2> QED BY <2>3, <2>6, <2>7, <2>8 DEF MarksRise
<1> QED BY <1>2, <1>3, EngineKinds

\* Of two whole events that have something in common, either the first is a comment
\* alone and the second its review, or the second is not above the first.
LEMMA WholeMeet ==
    ASSUME NEW e \in Event, NEW f \in Event, Whole(e), Whole(f),
           e.stream # "feedback", f.stream # "feedback", e.covers \cap f.covers # {}
    PROVE  \/ e.covers \cap Reviews = {} /\ f.covers \cap Reviews # {}
           \/ e.stream = f.stream /\ f.mark <= e.mark
<1>1. /\ \A r \in Reviews : r \notin Comments
      /\ \A r \in Reviews : r \notin CommentsOf(r) /\ CommentsOf(r) \subseteq Comments
      /\ Comments \subseteq Nat /\ Reviews \subseteq Nat
  BY IdAssumption DEF CommentsOf
<1>2. CASE \E r \in Reviews : e \in NewComment(r, CommentsOf(r))
  <2>1. PICK r \in Reviews : e \in NewComment(r, CommentsOf(r))
    BY <1>2
  <2>2. CASE \E q \in Reviews : f \in NewComment(q, CommentsOf(q))
    <3>1. PICK q \in Reviews : f \in NewComment(q, CommentsOf(q))
      BY <2>2
    <3>2. e.covers = {r} \cup CommentsOf(r) /\ f.covers = {q} \cup CommentsOf(q)
      BY <2>1, <3>1 DEF NewComment
    <3>3. q = r
      BY <1>1, <3>2 DEF CommentsOf
    <3>4. CASE CommentsOf(r) = {}
      BY <1>1, <2>1, <3>1, <3>3, <3>4 DEF NewComment
    <3>5. CASE CommentsOf(r) # {}
      <4>1. /\ e.stream = "review" /\ f.stream = "review"
            /\ e.mark \in Greatest(CommentsOf(r)) /\ f.mark \in Greatest(CommentsOf(r))
        BY <2>1, <3>1, <3>3, <3>5 DEF NewComment
      <4> QED BY <4>1 DEF Greatest
    <3> QED BY <3>4, <3>5
  <2>3. CASE \E c \in Comments : f \in Standalone(c)
    <3>1. PICK c \in Comments : f \in Standalone(c)
      BY <2>3
    <3>2. f.covers = {c} /\ f.stream = "review" /\ f.mark = c
      BY <3>1 DEF Standalone
    <3>3. c \in CommentsOf(r)
      BY <1>1, <2>1, <3>2 DEF NewComment
    <3>4. e.stream = "review" /\ e.mark \in Greatest(CommentsOf(r))
      BY <2>1, <3>3 DEF NewComment
    <3> QED BY <3>2, <3>3, <3>4 DEF Greatest
  <2> QED BY <2>2, <2>3 DEF Whole
<1>3. CASE \E c \in Comments : e \in Standalone(c)
  <2>1. PICK c \in Comments : e \in Standalone(c)
    BY <1>3
  <2>2. e.covers = {c} /\ e.stream = "review" /\ e.mark = c
    BY <2>1 DEF Standalone
  <2>3. CASE \E q \in Reviews : f \in NewComment(q, CommentsOf(q))
    BY <1>1, <2>2, <2>3 DEF NewComment
  <2>4. CASE \E b \in Comments : f \in Standalone(b)
    BY <1>1, <2>2, <2>4 DEF Standalone
  <2> QED BY <2>3, <2>4 DEF Whole
<1> QED BY <1>2, <1>3 DEF Whole

LEMMA InitRuns == ASSUME Init PROVE RunsInv
<1>1. /\ submitted = {} /\ shown = {} /\ inbox = {} /\ runs = <<>>
      /\ \A t \in Tasks : pc[t] = "idle" /\ out[t] = {}
  BY DEF Init
<1> QED BY <1>1 DEF RunsInv, ShownTogether, Sent, HeldWhole, SweepHolds, EventsWhole, MarksRise, Tasks

LEMMA RunsKept ==
    ASSUME TypeOK, RunsInv, Trailing \cap Comments = {}, [Next]_vars
    PROVE  RunsInv'
<1>1. ShownTogether' /\ Sent'
  BY TogetherStays, SentStays DEF RunsInv
<1>2. HeldWhole'
  BY HandlersHoldWhole, SweepHoldsStays DEF HeldWhole
<1> QED BY <1>1, <1>2, RunsStep DEF RunsInv

LEMMA RunsMean == ASSUME TypeOK, RunsInv PROVE NewCommentRunsOnce
<1> SUFFICES ASSUME NEW i \in DOMAIN runs, NEW j \in DOMAIN runs, i < j,
                    runs[i].stream # "feedback", runs[j].stream # "feedback",
                    runs[i].covers \cap runs[j].covers # {}
             PROVE  runs[i].covers \cap Reviews = {} /\ runs[j].covers \cap Reviews # {}
  BY DEF NewCommentRunsOnce
<1>1. \A k \in DOMAIN runs : runs[k] \in Event
  BY DEF TypeOK
<1>4. runs[i].mark \in Nat /\ runs[j].mark \in Nat
  BY <1>1 DEF Event
<1>2. Whole(runs[i]) /\ Whole(runs[j])
  BY DEF RunsInv, EventsWhole
<1>3. runs[i].stream = runs[j].stream => runs[i].mark < runs[j].mark
  BY DEF RunsInv, MarksRise
<1> QED BY <1>1, <1>2, <1>3, <1>4, WholeMeet
=============================================================================
