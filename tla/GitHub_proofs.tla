----------------------------- MODULE GitHub_proofs -----------------------------
(***************************************************************************)
(* The proofs about GitHub: the types of all its parts, and what the read  *)
(* cache, the verbs that write a branch and the shared sessions promise;   *)
(* and that what the triggers run was true of the head that it is run for. *)
(***************************************************************************)
EXTENDS GitHub, FiniteSetTheorems, Sequences, TLAPS

\* An event that may be run: what the kind tells was so at its head, or it is a review
\* that drafts get too.
WasTrue(k) == (kind = "review_requested" => k.variant \in NotDraft) => k.head \in was

\* What a copy of the request says was so when the copy was made.
CopyWasTrue(p) == Holds(p) => p.head \in was

\* The request itself, the copies in deliveries and in the sweep, and the events that are
\* made or were run.
TrueInv ==
    /\ CopyWasTrue(pr)
    /\ \A d \in flight : CopyWasTrue(d.pr)
    /\ item.at = "listed" => CopyWasTrue(item.pr)
    /\ \A k \in ready \cap Keys : WasTrue(k)
    /\ \A k \in ran : WasTrue(k)

-----------------------------------------------------------------------------
\* A payload is a request, and says no more than the request that it is of.
LEMMA PayloadHolds ==
    ASSUME NEW p \in Requests, kind \in Kinds
    PROVE  /\ Payload(p) \in Requests /\ Payload(p).head = p.head
           /\ Payload(p).asked = p.asked /\ Payload(p).draft = p.draft
           /\ Holds(Payload(p)) => Holds(p)
<1> DEFINE q == Payload(p)
<1>1. q \in Requests
  BY DEF Payload, Requests, MergeStates, Checks
<1>2. /\ q.head = p.head /\ q.merge = "unknown" /\ q.green = FALSE /\ q.check = "running"
      /\ q.asked = p.asked /\ q.draft = p.draft
  BY DEF Payload, Requests
<1>3. Holds(q) => Holds(p)
  BY <1>2 DEF Holds, GateOpen, Kinds, OwnKinds
<1> QED BY <1>1, <1>2, <1>3

\* So is who is named in it.
LEMMA NamedHolds ==
    ASSUME NEW p \in Requests, NEW e, NEW q \in Named(e, p), kind \in Kinds
    PROVE  q \in Requests /\ q.head = p.head /\ (Holds(q) => Holds(p))
<1>1. q \in {p, [p EXCEPT !.asked = FALSE], [p EXCEPT !.others = FALSE],
             [p EXCEPT !.asked = FALSE, !.others = FALSE]}
  BY DEF Named
<1>2. /\ q \in Requests /\ q.head = p.head /\ q.merge = p.merge /\ q.green = p.green
      /\ q.check = p.check /\ q.draft = p.draft
  BY <1>1 DEF Requests
<1>3. Holds(q) => Holds(p)
  BY <1>2 DEF Holds, GateOpen, Kinds, OwnKinds
<1> QED BY <1>2, <1>3

\* And a delivery, which carries besides how its check went.
LEMMA DeliveryHolds ==
    ASSUME NEW p \in Requests, NEW e \in Events, NEW n \in Copies, kind \in Kinds
    PROVE  /\ Delivery(e, p, n) \in Deliveries
           /\ Delivery(e, p, n).pr.head = p.head
           /\ Holds(Delivery(e, p, n).pr) => Holds(p)
<1> DEFINE q == Delivery(e, p, n).pr
<1>1. /\ Delivery(e, p, n) = [event |-> e, copy |-> n, pr |-> q]
      /\ q = [Payload(p) EXCEPT !.check = IF e = "check" THEN p.check ELSE @]
  BY DEF Delivery
<1>2. /\ q \in Requests
      /\ q.head = p.head /\ q.merge = "unknown" /\ q.green = FALSE /\ q.check \in {"running", p.check}
      /\ q.draft = p.draft
  BY <1>1 DEF Payload, Requests, MergeStates, Checks
<1>3. Holds(q) => Holds(p)
  BY <1>2 DEF Holds, GateOpen, Kinds, OwnKinds
<1> QED BY <1>1, <1>2, <1>3 DEF Deliveries

\* The sweep's item is one of a request, also when it is at none.
LEMMA NoItemType == NoItem \in [at : Sweeping, pr : Requests]
<1> DEFINE none == [Request(FALSE, FALSE) EXCEPT !.open = FALSE]
<1>1. Request(FALSE, FALSE) \in Requests
  BY BoundsAssumption DEF Request, Requests, Heads, MergeStates, Checks
<1>2. none \in Requests
  BY <1>1 DEF Requests
<1> QED BY <1>2 DEF NoItem, Sweeping

\* The events of a head are keys.
LEMMA EmitKeys ==
    ASSUME NEW h \in Heads, NEW vs \in SUBSET Variants, NEW k \in Emit(h, vs)
    PROVE  k \in Keys /\ k.head = h /\ k.variant \in vs
BY DEF Emit, Keys

-----------------------------------------------------------------------------
\* What a handler makes is of the types.
LEMMA HandlerType ==
    ASSUME TypeOK, NEW d \in flight, NEW ok \in BOOLEAN
    PROVE  TriggersFor(d, ok) \subseteq Emitted
<1>1. /\ d \in Deliveries /\ d.pr \in Requests /\ d.pr.head \in Heads /\ pr.head \in Heads
      /\ d.event \in Events
  BY DEF TypeOK, Deliveries, Requests
<1>2. \A h \in Heads, vs \in SUBSET Variants : Emit(h, vs) \subseteq Emitted
  BY EmitKeys DEF Emitted
<1>3. \A b : Taken(b) \in SUBSET Variants
  BY DEF Taken
<1>4. MergeState(ok) \subseteq Emitted /\ MergeReady(ok) \subseteq Emitted
  BY <1>1, <1>2 DEF MergeState, MergeReady, Only
<1>5. SelfReview(d.pr) \subseteq Emitted /\ FailingChecks(d.pr, ok) \subseteq Emitted
  BY <1>1, <1>2 DEF SelfReview, FailingChecks, Only
<1>6. ReviewRequested(d.pr) \subseteq Emitted /\ ReadyReview(d.pr, ok) \subseteq Emitted
  BY <1>1, <1>2, <1>3 DEF ReviewRequested, ReadyReview, Only
<1>7. Close \in Emitted
  BY DEF Emitted
<1> QED BY <1>1, <1>4, <1>5, <1>6, <1>7 DEF TriggersFor, Events

\* What happens on GitHub keeps the types.
LEMMA GitHubType == ASSUME TypeOK, GitHub PROVE TypeOK'
<1>1. ASSUME NEW p \in Requests, NEW e \in Events, Happens(e, p) PROVE TypeOK'
  <2>1. \A q \in Named(e, p), n \in Copies : Delivery(e, q, n) \in Deliveries
    BY NamedHolds, DeliveryHolds DEF TypeOK
  <2>2. was' \subseteq Heads
    BY <1>1 DEF Happens, Becomes, TypeOK, Requests
  <2> QED BY <1>1, <2>1, <2>2 DEF Happens, Becomes, Sends, TypeOK, engine
<1>2. ASSUME NEW p \in Requests, Silently(p) PROVE TypeOK'
  <2>1. was' \subseteq Heads
    BY <1>2 DEF Silently, Becomes, TypeOK, Requests
  <2> QED BY <1>2, <2>1 DEF Silently, Becomes, TypeOK, engine
<1> USE DEF TypeOK
<1>3. ASSUME Push PROVE TypeOK'
  <2>1. PICK green \in {FALSE, pr.green} :
          Happens("updated", [pr EXCEPT !.head = @ + 1, !.merge = "unknown",
                                        !.check = "running", !.green = green])
    BY <1>3 DEF Push
  <2>2. [pr EXCEPT !.head = @ + 1, !.merge = "unknown", !.check = "running", !.green = green]
          \in Requests
    <3>1. pr \in Requests /\ pr.head \in Heads /\ green \in BOOLEAN
      BY DEF Requests
    <3>2. pr.head + 1 \in Heads
      BY <1>3, <3>1, BoundsAssumption DEF Push, Heads
    <3> QED BY <3>1, <3>2 DEF Requests, MergeStates, Checks
  <2> QED BY <2>1, <2>2, <1>1 DEF Events
<1>4. ASSUME ClosePR PROVE TypeOK'
  BY <1>4, <1>1 DEF ClosePR, Requests, Events
<1>5. ASSUME Reopen PROVE TypeOK'
  BY <1>5, <1>1 DEF Reopen, Requests, Events
<1>6. ASSUME MarkReady PROVE TypeOK'
  BY <1>6, <1>1 DEF MarkReady, Requests, Events
<1>7. ASSUME Ask PROVE TypeOK'
  BY <1>7, <1>1 DEF Ask, Requests, Events
<1>8. ASSUME MarkDraft \/ Answer \/ BaseMoves PROVE TypeOK'
  BY <1>8, <1>2 DEF MarkDraft, Answer, BaseMoves, Requests, MergeStates
<1>9. ASSUME NEW c \in Checks, CheckDone(c) PROVE TypeOK'
  BY <1>9, <1>1 DEF CheckDone, Requests, Events
<1>10. ASSUME NEW g \in BOOLEAN, Review(g) PROVE TypeOK'
  BY <1>10, <1>1 DEF Review, Requests, Events
<1>11. ASSUME NEW m \in MergeStates, Compute(m) PROVE TypeOK'
  BY <1>11, <1>2 DEF Compute, Requests
<1> QED BY <1>3, <1>4, <1>5, <1>6, <1>7, <1>8, <1>9, <1>10, <1>11 DEF GitHub

\* The handlers, the sweep and the engine keep them.
LEMMA SourceType == ASSUME TypeOK, Source \/ Restart PROVE TypeOK'
<1>1. ASSUME NEW d \in flight, Handle(d) PROVE TypeOK'
  <2>1. \A ok \in BOOLEAN : TriggersFor(d, ok) \subseteq Emitted
    BY HandlerType
  <2>2. ready' \subseteq Emitted
    BY <1>1, <2>1 DEF Handle, ReadOK, TypeOK
  <2> QED BY <1>1, <2>2 DEF Handle, TypeOK, engine
<1>2. ASSUME NEW e \in ready, Deliver(e) PROVE TypeOK'
  BY <1>2 DEF Deliver, Settle, Run, TypeOK, Emitted
<1>3. ASSUME List PROVE TypeOK'
  <2>1. Payload(pr) \in Requests
    BY PayloadHolds DEF TypeOK
  <2> QED BY <1>3, <2>1 DEF List, TypeOK, Sweeping, engine
<1>4. ASSUME SweepItem PROVE TypeOK'
  <2>1. item.pr \in Requests /\ item.pr.head \in Heads
    BY DEF TypeOK, Requests
  <2>2. Taken(item.pr.draft) \in SUBSET Variants
    BY DEF Taken
  <2>3. SweepReviewRequested \subseteq Emitted
    BY <2>1, <2>2, EmitKeys DEF SweepReviewRequested, Only, Emitted
  <2>4. NoItem \in [at : Sweeping, pr : Requests]
    BY NoItemType
  <2>5. item' \in [at : Sweeping, pr : Requests]
    BY <1>4, <2>4 DEF SweepItem, TypeOK, Sweeping
  <2> QED BY <1>4, <2>3, <2>5 DEF SweepItem, TypeOK, engine
<1>5. ASSUME NEW ok \in BOOLEAN, Pull(ok) PROVE TypeOK'
  <2>1. SweepMergeState \subseteq Emitted
    BY EmitKeys DEF SweepMergeState, Only, Emitted, TypeOK, Requests
  <2>2. NoItem \in [at : Sweeping, pr : Requests]
    BY NoItemType
  <2> QED BY <1>5, <2>1, <2>2 DEF Pull, TypeOK, engine
<1>6. ASSUME Restart PROVE TypeOK'
  <2>1. NoItem \in [at : Sweeping, pr : Requests]
    BY NoItemType
  <2> QED BY <1>6, <2>1 DEF Restart, TypeOK, engine
<1> QED BY <1>1, <1>2, <1>3, <1>4, <1>5, <1>6 DEF Source

\* The types hold at first, and after every step.
LEMMA InitType == ASSUME Init PROVE TypeOK
<1>1. PICK draft \in BOOLEAN, others \in BOOLEAN : pr = Request(~Mine /\ draft, ~Mine /\ others)
  BY DEF Init
<1>2. (~Mine /\ draft) \in BOOLEAN /\ (~Mine /\ others) \in BOOLEAN /\ 1 \in Heads /\ 1 \in Copies
  BY BoundsAssumption DEF Heads, Copies
<1>3. pr \in Requests
  BY <1>1, <1>2 DEF Request, Requests, MergeStates, Checks
<1>4. Delivery("updated", pr, 1) \in Deliveries
  BY <1>2, <1>3, DeliveryHolds DEF Init, Events
<1>5. NoItem \in [at : Sweeping, pr : Requests]
  BY NoItemType
<1> QED BY <1>2, <1>3, <1>4, <1>5 DEF Init, TypeOK

LEMMA StepType == ASSUME TypeOK, [Next]_vars PROVE TypeOK'
<1>1. CASE Next
  BY <1>1, GitHubType, SourceType DEF Next
<1>2. CASE UNCHANGED vars
  BY <1>2 DEF vars, engine, TypeOK
<1> QED BY <1>1, <1>2

-----------------------------------------------------------------------------
\* What a handler makes was true: of the delivery's copy, or of the request as it is read.
LEMMA HandlerTrue ==
    ASSUME TypeOK, TrueInv, NEW d \in flight, NEW ok \in BOOLEAN,
           NEW k \in TriggersFor(d, ok) \cap Keys
    PROVE  WasTrue(k)
<1>1. /\ d.pr \in Requests /\ d.pr.head \in Heads /\ pr.head \in Heads /\ d.event \in Events
      /\ CopyWasTrue(d.pr) /\ CopyWasTrue(pr) /\ kind \in Kinds
  BY DEF TypeOK, Deliveries, Requests, TrueInv
<1>2. \A h \in Heads, vs \in SUBSET Variants : \A x \in Emit(h, vs) : x.head = h /\ x.variant \in vs
  BY EmitKeys
<1>3. \A b : Taken(b) \in SUBSET Variants /\ \A v \in Taken(b) : v \in NotDraft => ~b
  BY DEF Taken
<1>4. CASE k \in MergeState(ok)
  BY <1>1, <1>2, <1>4 DEF MergeState, Only, CopyWasTrue, Holds, WasTrue
<1>5. CASE k \in MergeReady(ok)
  BY <1>1, <1>2, <1>5 DEF MergeReady, Only, CopyWasTrue, Holds, WasTrue
<1>6. CASE k \in SelfReview(d.pr)
  <2>1. kind = "self_review" /\ k.head = d.pr.head
    BY <1>1, <1>2, <1>6 DEF SelfReview, Only
  <2> QED BY <1>1, <2>1 DEF CopyWasTrue, Holds, WasTrue
<1>7. CASE k \in FailingChecks(d.pr, ok)
  BY <1>1, <1>2, <1>7 DEF FailingChecks, Only, CopyWasTrue, Holds, WasTrue
<1>8. CASE k \in ReviewRequested(d.pr) \cup ReadyReview(d.pr, ok)
  <2>1. kind = "review_requested" /\ k \in Emit(d.pr.head, Taken(d.pr.draft))
    BY <1>8 DEF ReviewRequested, ReadyReview, Only
  <2>2. k.head = d.pr.head /\ (k.variant \in NotDraft => ~d.pr.draft)
    BY <1>1, <1>2, <1>3, <2>1
  <2> QED BY <1>1, <2>1, <2>2 DEF CopyWasTrue, Holds, WasTrue
<1>9. CASE k = Close
  BY <1>9, BoundsAssumption DEF Close, Keys, Heads
<1> QED BY <1>1, <1>4, <1>5, <1>6, <1>7, <1>8, <1>9 DEF TriggersFor, Events

\* The request changes and a copy of it is sent; what was true stays so.
LEMMA GitHubTrue == ASSUME TypeOK, TypeOK', TrueInv, GitHub PROVE TrueInv'
<1>1. ASSUME NEW p, NEW e \in Events, Becomes(p), Happens(e, p) \/ Silently(p) PROVE TrueInv'
  <2>1. kind' = kind /\ p \in Requests /\ pr' = p /\ was \subseteq was'
    BY <1>1 DEF Becomes, Happens, Silently, TypeOK
  <2>2. \A q : Holds(q)' <=> Holds(q)
    BY <2>1 DEF Holds, GateOpen
  <2>3. CopyWasTrue(p)'
    BY <1>1, <2>1, <2>2 DEF CopyWasTrue, Becomes
  <2>4. \A q : CopyWasTrue(q) => CopyWasTrue(q)'
    BY <2>1, <2>2 DEF CopyWasTrue
  <2>5. flight' \subseteq flight \cup {Delivery(e, q, n) : q \in Named(e, p), n \in Copies}
    BY <1>1 DEF Happens, Silently, Sends
  <2>6. ASSUME NEW q \in Named(e, p), NEW n \in Copies PROVE CopyWasTrue(Delivery(e, q, n).pr)'
    <3>1. kind \in Kinds /\ q \in Requests /\ q.head = p.head /\ (Holds(q) => Holds(p))
      BY <2>1, NamedHolds DEF TypeOK
    <3>2. /\ Delivery(e, q, n).pr.head = q.head
          /\ Holds(Delivery(e, q, n).pr) => Holds(q)
      BY <3>1, DeliveryHolds
    <3> QED BY <2>2, <2>3, <3>1, <3>2 DEF CopyWasTrue
  <2>7. item' = item /\ ready' = ready /\ ran' = ran
    BY <1>1 DEF Happens, Silently, engine
  <2>8. \A k : WasTrue(k) => WasTrue(k)'
    BY <2>1 DEF WasTrue
  <2> QED BY <2>1, <2>3, <2>4, <2>5, <2>6, <2>7, <2>8 DEF TrueInv
<1> QED BY <1>1 DEF GitHub, Push, ClosePR, Reopen, MarkReady, Ask, MarkDraft, Answer, BaseMoves,
                    CheckDone, Review, Compute, Happens, Silently, Events

\* The other steps make events of what was true.
LEMMA SourceTrue == ASSUME TypeOK, TrueInv, Source \/ Restart PROVE TrueInv'
<1>1. ASSUME kind' = kind, was' = was
      PROVE  /\ \A p : CopyWasTrue(p)' <=> CopyWasTrue(p)
             /\ \A k : WasTrue(k)' <=> WasTrue(k)
  BY <1>1 DEF CopyWasTrue, WasTrue, Holds, GateOpen
<1>2. ASSUME NEW d \in flight, Handle(d) PROVE TrueInv'
  <2>1. \A ok \in BOOLEAN : \A k \in TriggersFor(d, ok) \cap Keys : WasTrue(k)
    BY HandlerTrue
  <2>2. \A k \in ready' \cap Keys : WasTrue(k)
    BY <1>2, <2>1 DEF Handle, ReadOK, TrueInv
  <2> QED BY <1>1, <1>2, <2>2 DEF Handle, TrueInv, engine
<1>3. ASSUME NEW e \in ready, Deliver(e) PROVE TrueInv'
  <2>1. \A k \in ran' : WasTrue(k)
    <3>1. e # Close => e \in Keys
      BY DEF TypeOK, Emitted
    <3> QED BY <1>3, <3>1 DEF Deliver, Settle, Run, TrueInv
  <2> QED BY <1>1, <1>3, <2>1 DEF Deliver, TrueInv
<1>4. ASSUME List PROVE TrueInv'
  <2>1. CopyWasTrue(Payload(pr))
    BY PayloadHolds DEF CopyWasTrue, TypeOK, TrueInv
  <2> QED BY <1>1, <1>4, <2>1 DEF List, TrueInv, engine
<1>5. ASSUME SweepItem PROVE TrueInv'
  <2>1. \A k \in SweepReviewRequested : WasTrue(k)
    <3> SUFFICES ASSUME NEW k \in SweepReviewRequested PROVE WasTrue(k)
      OBVIOUS
    <3>1. kind = "review_requested" /\ k \in Emit(item.pr.head, Taken(item.pr.draft))
      BY DEF SweepReviewRequested, Only
    <3>2. item.pr.head \in Heads /\ Taken(item.pr.draft) \in SUBSET Variants
      BY DEF TypeOK, Requests, Taken
    <3>3. k.head = item.pr.head /\ (k.variant \in NotDraft => ~item.pr.draft)
      BY <3>1, <3>2, EmitKeys DEF Taken
    <3> QED BY <1>5, <3>1, <3>3 DEF SweepItem, TrueInv, CopyWasTrue, Holds, WasTrue
  <2>2. item'.at # "listed"
    BY <1>5 DEF SweepItem, NoItem, TypeOK
  <2>3. \A k \in ready' \cap Keys : WasTrue(k)
    BY <1>5, <2>1 DEF SweepItem, TrueInv
  <2>4. UNCHANGED <<kind, pr, flight, ran, was>>
    BY <1>5 DEF SweepItem, engine
  <2> QED BY <1>1, <2>2, <2>3, <2>4 DEF TrueInv
<1>6. ASSUME NEW ok \in BOOLEAN, Pull(ok) PROVE TrueInv'
  <2>1. \A k \in SweepMergeState : WasTrue(k)
    <3> SUFFICES ASSUME NEW k \in SweepMergeState PROVE WasTrue(k)
      OBVIOUS
    <3>1. pr.head \in Heads /\ CopyWasTrue(pr)
      BY DEF TypeOK, Requests, TrueInv
    <3>2. /\ k.head = pr.head
          /\ \/ kind = "merge_conflict" /\ pr.merge = "dirty"
             \/ kind = "pr_behind" /\ pr.merge = "behind"
      BY <3>1, EmitKeys DEF SweepMergeState, Only
    <3> QED BY <3>1, <3>2 DEF CopyWasTrue, Holds, WasTrue
  <2> QED BY <1>1, <1>6, <2>1 DEF Pull, TrueInv, NoItem, engine
<1>7. ASSUME Restart PROVE TrueInv'
  BY <1>1, <1>7 DEF Restart, TrueInv, NoItem, engine
<1> QED BY <1>2, <1>3, <1>4, <1>5, <1>6, <1>7 DEF Source

LEMMA InitTrue == ASSUME Init PROVE TrueInv
<1>1. pr \in Requests /\ kind \in Kinds /\ pr.head = 1
  <2>1. pr \in Requests /\ kind \in Kinds
    BY InitType DEF TypeOK
  <2>2. \E draft, others : pr = Request(draft, others)
    BY DEF Init
  <2> QED BY <2>1, <2>2 DEF Request
<1>2. CopyWasTrue(pr)
  BY <1>1 DEF Init, CopyWasTrue
<1>3. CopyWasTrue(Delivery("updated", pr, 1).pr)
  <2>1. 1 \in Copies
    BY BoundsAssumption DEF Copies
  <2> QED BY <1>1, <1>2, <2>1, DeliveryHolds DEF CopyWasTrue, Events
<1> QED BY <1>2, <1>3 DEF Init, TrueInv, NoItem

LEMMA TrueStep == ASSUME TypeOK, TrueInv, [Next]_vars PROVE TrueInv'
<1>1. CASE GitHub
  BY <1>1, StepType, GitHubTrue
<1>2. CASE Source \/ Restart
  BY <1>2, SourceTrue
<1>3. CASE UNCHANGED vars
  BY <1>3 DEF vars, engine, TrueInv, CopyWasTrue, WasTrue, Holds, GateOpen
<1> QED BY <1>1, <1>2, <1>3 DEF Next
-----------------------------------------------------------------------------

\* There is one way to count.
LEMMA SameCount == \A X : B!Cardinality(X) = Cardinality(X) /\ S!Cardinality(X) = Cardinality(X)
BY DEF Cardinality, B!Cardinality, S!Cardinality

-----------------------------------------------------------------------------
(* StuckChecks. *)

LEMMA StuckInit == ASSUME C!Init PROVE C!TypeOK
BY StuckAssumption DEF C!Init, C!TypeOK

LEMMA StuckStep == ASSUME C!TypeOK, C!Next \/ UNCHANGED C!vars PROVE C!TypeOK'
<1>1. ASSUME C!Tick PROVE C!TypeOK'
  <2>1. runAge' \in [Runs -> 0..MaxAge]
    BY <1>1, StuckAssumption DEF C!Tick, C!TypeOK
  <2> QED BY <1>1, <2>1 DEF C!Tick, C!TypeOK
<1>2. ASSUME NEW r \in Runs, C!End(r) PROVE C!TypeOK'
  BY <1>2 DEF C!End, C!TypeOK
<1>3. ASSUME NEW p \in Repos, C!Pass(p) PROVE C!TypeOK'
  <2>1. C!EmittedOn(p) \subseteq C!Triggers /\ C!StuckRuns(p) \subseteq Runs
    BY DEF C!EmittedOn, C!StuckRuns
  <2>2. fired' \subseteq [trigger : C!Triggers, run : Runs, age : 0..MaxAge]
    BY <1>3, <2>1 DEF C!Pass, C!TypeOK
  <2> QED BY <1>3, <2>2 DEF C!Pass, C!TypeOK
<1>4. CASE UNCHANGED C!vars
  BY <1>4 DEF C!vars, C!TypeOK
<1> QED BY <1>1, <1>2, <1>3, <1>4 DEF C!Next

-----------------------------------------------------------------------------
(* ReadCache. *)

\* A read that is over has its types.
LEMMA ServeTyped ==
    ASSUME R!TypeOK, NEW r \in Readers, NEW v \in R!Versions \cup {R!None}, NEW lim \in BOOLEAN,
           R!Serve(r, v, lim), need' \in [Readers -> R!Versions], reads' \in 0..MaxReads,
           UNCHANGED <<version, R!write, overlap>>,
           body' \in R!Versions \cup {R!None}, age' \in 0..TTL
    PROVE  R!TypeOK'
<1>1. 0 \in 0..Timeout /\ R!None \in R!Versions \cup {R!None}
  BY ReadAssumption
<1>2. /\ served' \in [Readers -> R!Versions \cup {R!None}]
      /\ etag' \in [Readers -> R!Versions \cup {R!None}] /\ answer' \in [Readers -> R!Versions \cup {R!None}]
  BY <1>1 DEF R!TypeOK, R!Serve
<1>3. /\ rpc' \in [Readers -> {"idle", "asking", "answered", "unchanged", "limited"}]
      /\ limited' \in [Readers -> BOOLEAN] /\ tried' \in [Readers -> BOOLEAN]
      /\ took' \in [Readers -> 0..Timeout]
  BY <1>1 DEF R!TypeOK, R!Serve
<1>4. /\ version' \in R!Versions /\ wpc' \in [Writers -> {"idle", "made"}]
      /\ made' \in [Writers -> R!Versions] /\ done' \in R!Versions /\ overlap' \in BOOLEAN
  BY DEF R!TypeOK, R!write
<1> QED BY <1>2, <1>3, <1>4 DEF R!TypeOK

LEMMA ReadTyped ==
    ASSUME R!TypeOK, NEW r \in Readers,
           R!Hit(r) \/ R!Miss(r) \/ R!Answer(r) \/ R!Store(r) \/ R!Revalidate(r) \/ R!Wait(r) \/ R!ServeStale(r)
    PROVE  R!TypeOK'
<1>1. 0 \in 0..Timeout /\ 0 \in 0..TTL
  BY ReadAssumption
<1>2. CASE R!Hit(r) \/ R!Store(r) \/ R!ServeStale(r)
  <2>1. need' = need \/ need' = [need EXCEPT ![r] = done]
    BY <1>2 DEF R!Hit, R!Store, R!ServeStale
  <2>4. reads' = reads \/ (reads < MaxReads /\ reads' = reads + 1)
    BY <1>2 DEF R!Hit, R!Store, R!ServeStale
  <2>5. need' \in [Readers -> R!Versions]
    BY <2>1 DEF R!TypeOK
  <2>6. reads' \in 0..MaxReads
    BY <2>4, ReadAssumption DEF R!TypeOK
  <2>2. body' \in R!Versions \cup {R!None} /\ age' \in 0..TTL
    BY <1>1, <1>2 DEF R!TypeOK, R!Hit, R!Store, R!ServeStale, R!cache
  <2>3. \E v \in R!Versions \cup {R!None}, lim \in BOOLEAN : R!Serve(r, v, lim)
    BY <1>2 DEF R!TypeOK, R!Hit, R!Store, R!ServeStale
  <2>7. UNCHANGED <<version, R!write, overlap>>
    BY <1>2 DEF R!Hit, R!Store, R!ServeStale
  <2> QED BY <2>2, <2>3, <2>5, <2>6, <2>7, ServeTyped
<1>3. CASE R!Revalidate(r) /\ body # R!None
  BY <1>1, <1>3, ServeTyped DEF R!Revalidate, R!TypeOK
<1>4. CASE R!Revalidate(r) /\ body = R!None
  BY <1>1, <1>4 DEF R!Revalidate, R!TypeOK, R!write
<1>5. CASE R!Miss(r)
  BY <1>5, ReadAssumption DEF R!Miss, R!TypeOK, R!cache, R!write
<1>6. CASE R!Answer(r)
  BY <1>6 DEF R!Answer, R!TypeOK, R!cache, R!write
<1>7. CASE R!Wait(r)
  BY <1>1, <1>7 DEF R!Wait, R!TypeOK, R!cache, R!write
<1> QED BY <1>2, <1>3, <1>4, <1>5, <1>6, <1>7

LEMMA WriteTyped ==
    ASSUME R!TypeOK, NEW w \in Writers, R!Make(w) \/ R!Succeed(w) \/ R!LoseAnswer(w)
    PROVE  R!TypeOK'
<1>1. 0 \in 0..TTL
  BY ReadAssumption
<1>2. overlap' \in BOOLEAN
  BY DEF R!TypeOK, R!Make, R!Succeed, R!LoseAnswer
<1>3. CASE R!Make(w)
  <2>1. version + 1 \in R!Versions
    BY <1>3, ReadAssumption DEF R!Make, R!TypeOK, R!Versions
  <2> QED BY <1>2, <1>3, <2>1 DEF R!Make, R!TypeOK, R!cache, R!read
<1>4. CASE R!Succeed(w)
  BY <1>1, <1>2, <1>4 DEF R!Succeed, R!TypeOK, R!read
<1>5. CASE R!LoseAnswer(w)
  BY <1>5 DEF R!LoseAnswer, R!TypeOK, R!cache, R!read
<1> QED BY <1>3, <1>4, <1>5

LEMMA TickTyped == ASSUME R!TypeOK, R!Tick PROVE R!TypeOK'
<1>1. age' \in 0..TTL
  BY ReadAssumption DEF R!TypeOK, R!Tick, R!Least
<1>2. took' \in [Readers -> 0..Timeout]
  BY ReadAssumption DEF R!TypeOK, R!Tick
<1> QED BY <1>1, <1>2 DEF R!Tick, R!TypeOK, R!write

LEMMA ReadTypeStep == ASSUME R!TypeOK, R!Next \/ UNCHANGED R!vars PROVE R!TypeOK'
<1>1. CASE R!Next
  BY <1>1, ReadTyped, WriteTyped, TickTyped DEF R!Next
<1>2. CASE UNCHANGED R!vars
  BY <1>2 DEF R!vars, R!cache, R!read, R!write, R!TypeOK
<1> QED BY <1>1, <1>2

LEMMA ReadInitTyped == ASSUME R!Init PROVE R!TypeOK
<1>1. 0 \in 0..Timeout /\ 0 \in 0..TTL /\ 0 \in 0..MaxReads /\ 1 \in R!Versions
  BY ReadAssumption DEF R!Versions
<1> QED BY <1>1 DEF R!Init, R!TypeOK

-----------------------------------------------------------------------------

\* What the argument needs of the types.
Numbers ==
    /\ version \in Nat /\ done \in Nat /\ body \in Nat
    /\ rpc \in [Readers -> {"idle", "asking", "answered", "unchanged", "limited"}]
    /\ answer \in [Readers -> Nat] /\ need \in [Readers -> Nat] /\ served \in [Readers -> Nat]
    /\ made \in [Writers -> Nat]

\* No write is newer than the resource.
Behind == done <= version /\ \A w \in Writers : made[w] <= version

\* Nothing that may still be served is older than a write that is done, and no
\* read wants more than that.
Current ==
    /\ body # R!None => body >= done
    /\ \A r \in Readers : rpc[r] = "answered" => answer[r] >= done
    /\ \A r \in Readers : need[r] <= done

CacheInv == Numbers /\ Behind /\ (~overlap => Current /\ R!SeesWrites)

-----------------------------------------------------------------------------
\* A read that is over was served something that is recent enough.
LEMMA ServeCurrent ==
    ASSUME CacheInv, NEW r \in Readers, NEW v \in Nat, NEW lim, R!Serve(r, v, lim),
           need' = need, UNCHANGED <<version, R!write, overlap>>, body' \in {body, v},
           ~overlap => (v # R!None => v >= done)
    PROVE  CacheInv'
<1>1. Numbers'
  BY DEF CacheInv, Numbers, R!Serve, R!write, R!None
<1>2. Behind'
  BY DEF CacheInv, Behind, R!write
<1>3. ~overlap => Current' /\ R!SeesWrites'
  <2> SUFFICES ASSUME ~overlap PROVE Current' /\ R!SeesWrites'
    OBVIOUS
  <2>1. Current'
    BY DEF CacheInv, Current, Numbers, R!Serve, R!write
  <2>2. R!SeesWrites'
    BY DEF CacheInv, Current, Numbers, R!SeesWrites, R!Serve, R!None
  <2> QED BY <2>1, <2>2
<1> QED BY <1>1, <1>2, <1>3 DEF CacheInv

\* A look at the cache wants what is done by then.
LEMMA LookCurrent ==
    ASSUME CacheInv, NEW r \in Readers, R!Hit(r) \/ R!Miss(r)
    PROVE  CacheInv'
<1>1. Numbers'
  BY DEF CacheInv, Numbers, R!Hit, R!Miss, R!Serve, R!cache, R!write, R!None
<1>2. Behind'
  BY DEF CacheInv, Behind, R!Hit, R!Miss, R!write
<1>3. ASSUME ~overlap PROVE Current'
  BY <1>3 DEF CacheInv, Current, Numbers, R!Hit, R!Miss, R!Serve, R!cache, R!write
<1>4. ASSUME ~overlap PROVE R!SeesWrites'
  <2>1. served'[r] = R!None \/ served'[r] >= need'[r]
    BY <1>4 DEF CacheInv, Current, Numbers, R!Hit, R!Miss, R!Serve, R!Fresh
  <2>2. \A q \in Readers : q # r => served'[q] = served[q] /\ need'[q] = need[q]
    BY DEF CacheInv, Numbers, R!Hit, R!Miss, R!Serve
  <2> QED BY <1>4, <2>1, <2>2 DEF CacheInv, R!SeesWrites
<1>5. overlap' = overlap
  BY DEF R!Hit, R!Miss
<1> QED BY <1>1, <1>2, <1>3, <1>4, <1>5 DEF CacheInv

\* What is asked of GitHub is answered with what there is.
LEMMA AskCurrent ==
    ASSUME CacheInv, NEW r \in Readers, R!Answer(r) \/ R!Wait(r)
    PROVE  CacheInv'
<1>1. Numbers'
  BY DEF CacheInv, Numbers, R!Answer, R!Wait, R!cache, R!write
<1>2. Behind'
  BY DEF CacheInv, Behind, R!Answer, R!Wait, R!write
<1>3. ASSUME ~overlap PROVE Current' /\ R!SeesWrites'
  BY <1>3 DEF CacheInv, Behind, Current, Numbers, R!SeesWrites, R!Answer, R!Wait, R!cache, R!write
<1>4. overlap' = overlap
  BY DEF R!Answer, R!Wait
<1> QED BY <1>1, <1>2, <1>3, <1>4 DEF CacheInv

\* A write that is done empties the cache, and is no concern of a read that is over.
LEMMA WriteCurrent ==
    ASSUME CacheInv, NEW w \in Writers, R!Make(w) \/ R!Succeed(w) \/ R!LoseAnswer(w)
    PROVE  CacheInv'
<1>1. Numbers'
  BY DEF CacheInv, Numbers, R!Make, R!Succeed, R!LoseAnswer, R!cache, R!read, R!None
<1>2. Behind'
  BY DEF CacheInv, Numbers, Behind, R!Make, R!Succeed, R!LoseAnswer
<1>3. CASE R!Make(w) \/ R!LoseAnswer(w)
  <2>1. ~overlap' => ~overlap /\ UNCHANGED <<R!cache, R!read, done>>
    BY <1>3 DEF R!Make, R!LoseAnswer
  <2> QED BY <1>1, <1>2, <2>1 DEF CacheInv, Current, R!SeesWrites, R!cache, R!read
<1>4. CASE R!Succeed(w)
  <2>1. ASSUME ~overlap' PROVE Current'
    <3>1. \A r \in Readers : rpc'[r] = "idle"
      BY <1>4, <2>1 DEF R!Succeed, R!Asking, R!read
    <3>2. body' = R!None /\ need' = need /\ ~overlap
      BY <1>4, <2>1 DEF R!Succeed, R!read
    <3>4. done' >= done
      BY <1>4 DEF CacheInv, Numbers, R!Succeed
    <3>3. done \in Nat /\ done' \in Nat /\ need \in [Readers -> Nat]
      BY <1>1 DEF CacheInv, Numbers
    <3> QED BY <3>1, <3>2, <3>3, <3>4 DEF CacheInv, Current
  <2>2. ASSUME ~overlap' PROVE R!SeesWrites'
    BY <1>4, <2>2 DEF CacheInv, R!SeesWrites, R!Succeed, R!read
  <2> QED BY <1>1, <1>2, <2>1, <2>2 DEF CacheInv
<1> QED BY <1>3, <1>4

\* CacheInv is kept by every step (http.go, cachedGet, storeCache and
\* invalidateCache).
LEMMA CacheStep == ASSUME CacheInv, R!Next \/ UNCHANGED R!vars PROVE CacheInv'
<1>1. ASSUME NEW r \in Readers, R!Store(r) PROVE CacheInv'
  <2>1. answer[r] \in Nat /\ (~overlap => answer[r] >= done)
    BY <1>1 DEF R!Store, CacheInv, Numbers, Current
  <2> QED BY <1>1, <2>1, ServeCurrent DEF R!Store
<1>2. ASSUME NEW r \in Readers, R!Revalidate(r) PROVE CacheInv'
  <2>1. CASE body # R!None
    <3>1. body \in Nat /\ (~overlap => body >= done)
      BY <2>1 DEF CacheInv, Numbers, Current
    <3> QED BY <1>2, <2>1, <3>1, ServeCurrent DEF R!Revalidate
  <2>2. CASE body = R!None
    BY <1>2, <2>2 DEF R!Revalidate, CacheInv, Numbers, Behind, Current, R!SeesWrites, R!write
  <2> QED BY <2>1, <2>2
<1>3. ASSUME NEW r \in Readers, R!ServeStale(r) PROVE CacheInv'
  <2>1. body \in Nat /\ (~overlap => (body # R!None => body >= done))
    BY DEF CacheInv, Numbers, Current
  <2> QED BY <1>3, <2>1, ServeCurrent DEF R!ServeStale, R!cache
<1>4. CASE UNCHANGED <<version, body, rpc, answer, need, served, R!write, overlap>>
  BY <1>4 DEF CacheInv, Numbers, Behind, Current, R!SeesWrites, R!write
<1> QED
  BY <1>1, <1>2, <1>3, <1>4, LookCurrent, AskCurrent, WriteCurrent
     DEF R!Next, R!Tick, R!vars, R!cache, R!read

LEMMA InitCache == ASSUME R!Init PROVE CacheInv
BY DEF R!Init, CacheInv, Numbers, Behind, Current, R!SeesWrites, R!None

-----------------------------------------------------------------------------
(* Branch. *)

\* A branch has the diff once at most; or not at all.
Once(b)  == \A i, j \in DOMAIN b : b[i].effect = "diff" /\ b[j].effect = "diff" => i = j
Never(b) == \A i \in DOMAIN b : b[i].effect # "diff"

\* What a call that has read the branch knows: it has no diff, or it is as expected.
ReadersKnow ==
    /\ \A c \in Appliers : bPc[c] = "read" => Never(onto[c])
    /\ \A c \in Deleters : bPc[c] = "read" => expect[c] \in {B!Gone, onto[c]}

BranchInv == B!TypeOK /\ Once(head) /\ ReadersKnow

-----------------------------------------------------------------------------
\* A branch is a prefix of itself, and what it was loses no diff.
LEMMA PrefixSelf == ASSUME NEW b \in Seq(B!Commits) PROVE B!Prefix(b, b)
<1>1. Len(b) \in Nat /\ SubSeq(b, 1, Len(b)) = b
  OBVIOUS
<1> QED BY <1>1 DEF B!Prefix

\* A branch that is gone has none.
LEMMA GoneOnce == B!Gone \in Seq(B!Commits) /\ Once(B!Gone)
BY DEF B!Gone, Once

\* One more commit.
LEMMA AppendOnce ==
    ASSUME NEW b \in Seq(B!Commits), NEW e \in B!Commits, Once(b), e.effect = "diff" => Never(b)
    PROVE  Append(b, e) \in Seq(B!Commits) /\ Once(Append(b, e))
<1> DEFINE a == Append(b, e)
<1>1. /\ a \in Seq(B!Commits) /\ Len(a) = Len(b) + 1 /\ Len(b) \in Nat
      /\ DOMAIN a = 1..Len(b) + 1 /\ DOMAIN b = 1..Len(b)
      /\ \A i \in 1..Len(b) : a[i] = b[i]
      /\ a[Len(b) + 1] = e
  OBVIOUS
<1>2. \A i \in DOMAIN a : i \in DOMAIN b \/ i = Len(b) + 1
  BY <1>1
<1> HIDE DEF a
<1>3. Once(a)
  BY <1>1, <1>2 DEF Once, Never
<1> QED BY <1>1, <1>3 DEF a

\* One less.
LEMMA ButLastOnce ==
    ASSUME NEW b \in Seq(B!Commits), Len(b) > 1, Once(b)
    PROVE  SubSeq(b, 1, Len(b) - 1) \in Seq(B!Commits) /\ Once(SubSeq(b, 1, Len(b) - 1))
<1> DEFINE a == SubSeq(b, 1, Len(b) - 1)
<1>1. /\ a \in Seq(B!Commits) /\ Len(b) \in Nat
      /\ DOMAIN a = 1..Len(b) - 1 /\ DOMAIN b = 1..Len(b)
      /\ \A i \in 1..Len(b) - 1 : a[i] = b[i]
  OBVIOUS
<1> HIDE DEF a
<1>2. Once(a)
  BY <1>1 DEF Once
<1> QED BY <1>1, <1>2 DEF a

\* The commit that a call of apply_diff makes of what it read.
LEMMA MadeOnce ==
    ASSUME BranchInv, NEW c \in Appliers, bPc[c] = "read", commits < MaxCommits
    PROVE  B!Made(c) \in Seq(B!Commits) /\ Once(B!Made(c))
<1>1. onto[c] \in Seq(B!Commits) /\ Never(onto[c]) /\ commits + 1 \in 1..MaxCommits
  BY BranchAssumption DEF BranchInv, B!TypeOK, ReadersKnow, B!Calls
<1>2. Once(onto[c])
  BY <1>1 DEF Once, Never
<1>3. [n |-> commits + 1, effect |-> "diff"] \in B!Commits
  BY <1>1 DEF B!Commits, B!Effects
<1> QED BY <1>1, <1>2, <1>3, AppendOnce DEF B!Made

-----------------------------------------------------------------------------
\* What others do to the branch.
LEMMA OthersStep == ASSUME BranchInv, B!Others PROVE BranchInv'
<1>1. ASSUME NEW effect \in B!Effects, B!Push(effect) PROVE BranchInv'
  <2>1. [n |-> commits + 1, effect |-> effect] \in B!Commits /\ commits + 1 \in 1..MaxCommits
    BY <1>1, BranchAssumption DEF B!Push, BranchInv, B!TypeOK, B!Commits
  <2>2. effect = "diff" => Never(head)
    BY <1>1 DEF B!Push, B!Has, Never
  <2>3. head' \in Seq(B!Commits) /\ Once(head')
    BY <1>1, <2>1, <2>2, AppendOnce DEF B!Push, BranchInv, B!TypeOK
  <2> QED BY <1>1, <2>1, <2>3 DEF B!Push, BranchInv, B!TypeOK, ReadersKnow
<1>2. ASSUME B!Reset PROVE BranchInv'
  <2>1. head' \in Seq(B!Commits) /\ Once(head')
    BY <1>2, ButLastOnce DEF B!Reset, BranchInv, B!TypeOK
  <2> QED BY <1>2, <2>1 DEF B!Reset, BranchInv, B!TypeOK, ReadersKnow
<1>3. ASSUME B!Remove \/ B!Protect PROVE BranchInv'
  BY <1>3, GoneOnce DEF B!Remove, B!Protect, BranchInv, B!TypeOK, ReadersKnow
<1> QED BY <1>1, <1>2, <1>3 DEF B!Others, B!Effects

\* A call of apply_diff.
LEMMA ApplierStep ==
    ASSUME BranchInv,
           NEW c \in Appliers, B!ReadRef(c) \/ B!Patch(c) \/ B!PatchFails(c)
    PROVE  BranchInv'
<1>1. c \in B!Calls /\ c \notin Deleters
  BY BranchAssumption DEF B!Calls
<1>2. CASE B!ReadRef(c)
  <2>1. bPc'[c] = "read" => onto'[c] = head /\ Never(head)
    BY <1>1, <1>2 DEF B!ReadRef, B!Ends, B!Over, BranchInv, B!TypeOK, B!Has, Never
  <2>2. \A d \in B!Calls \ {c} : bPc'[d] = bPc[d] /\ onto'[d] = onto[d]
    BY <1>2 DEF B!ReadRef, B!Ends, BranchInv, B!TypeOK
  <2>3. ReadersKnow'
    BY <1>1, <1>2, <2>1, <2>2 DEF B!ReadRef, BranchInv, ReadersKnow, B!Calls
  <2> QED BY <1>1, <1>2, <2>3 DEF B!ReadRef, B!Ends, B!Over, BranchInv, B!TypeOK
<1>3. CASE B!Patch(c) \/ B!PatchFails(c)
  <2>1. /\ bPc[c] = "read" /\ head' \in {head, B!Made(c)} /\ (head' # head => commits < MaxCommits)
        /\ commits' \in 1..MaxCommits /\ bFailures' \in 0..MaxFailures /\ UNCHANGED <<protected, expect, onto>>
        /\ bPc' = [bPc EXCEPT ![c] = bPc'[c]] /\ bPc'[c] \in B!Over
    BY <1>1, <1>3, BranchAssumption DEF B!Patch, B!PatchFails, B!Ends, B!Over, BranchInv, B!TypeOK
  <2>2. head' \in Seq(B!Commits) /\ Once(head')
    BY <2>1, MadeOnce DEF BranchInv, B!TypeOK
  <2>3. bPc'[c] # "read"
    BY <2>1 DEF B!Over
  <2>4. B!TypeOK'
    BY <1>1, <2>1, <2>2 DEF BranchInv, B!TypeOK
  <2>5. \A d \in B!Calls : bPc'[d] = "read" => bPc[d] = "read"
    BY <1>1, <2>1, <2>3 DEF BranchInv, B!TypeOK
  <2>6. ReadersKnow'
    BY <2>1, <2>5 DEF BranchInv, ReadersKnow, B!Calls
  <2> QED BY <2>2, <2>4, <2>6 DEF BranchInv
<1> QED BY <1>2, <1>3

\* A call of delete_branch.
LEMMA DeleterStep ==
    ASSUME BranchInv,
           NEW c \in Deleters, B!ReadBranch(c) \/ B!Delete(c) \/ B!DeleteFails(c)
    PROVE  BranchInv'
<1>1. c \in B!Calls /\ c \notin Appliers
  BY BranchAssumption DEF B!Calls
<1>2. CASE B!ReadBranch(c)
  <2>1. bPc'[c] = "read" => onto'[c] = head /\ expect[c] \in {B!Gone, head}
    BY <1>1, <1>2 DEF B!ReadBranch, B!Ends, B!Over, BranchInv, B!TypeOK
  <2>2. \A d \in B!Calls \ {c} : bPc'[d] = bPc[d] /\ onto'[d] = onto[d]
    BY <1>2 DEF B!ReadBranch, B!Ends, BranchInv, B!TypeOK
  <2>3. ReadersKnow'
    BY <1>1, <1>2, <2>1, <2>2 DEF B!ReadBranch, BranchInv, ReadersKnow, B!Calls
  <2> QED BY <1>1, <1>2, <2>3 DEF B!ReadBranch, B!Ends, B!Over, BranchInv, B!TypeOK
<1>3. CASE B!Delete(c) \/ B!DeleteFails(c)
  <2>1. /\ head' \in {head, B!Gone} /\ UNCHANGED <<commits, protected, expect, onto>> /\ bFailures' \in 0..MaxFailures
        /\ bPc' = [bPc EXCEPT ![c] = bPc'[c]] /\ bPc'[c] \in B!Over
    BY <1>1, <1>3, BranchAssumption DEF B!Delete, B!DeleteFails, B!Ends, B!Over, BranchInv, B!TypeOK
  <2>2. head' \in Seq(B!Commits) /\ Once(head')
    BY <2>1, GoneOnce DEF BranchInv, B!TypeOK
  <2>3. bPc'[c] # "read"
    BY <2>1 DEF B!Over
  <2> QED BY <1>1, <2>1, <2>2, <2>3 DEF BranchInv, B!TypeOK, ReadersKnow, B!Calls
<1> QED BY <1>2, <1>3

\* The workflow calls again.
LEMMA RetryStep == ASSUME BranchInv, NEW c \in B!Calls, B!Retry(c) PROVE BranchInv'
<1>1. bPc' = [bPc EXCEPT ![c] = "idle"] /\ onto' = [onto EXCEPT ![c] = B!Gone] /\ UNCHANGED <<head, commits, protected, bFailures>>
  BY DEF B!Retry, B!Ends
<1>2. expect' = expect \/ (c \in Deleters /\ expect' = [expect EXCEPT ![c] = onto[c]])
  BY DEF B!Retry
<1>3. B!TypeOK'
  <2>1. onto'[c] \in Seq(B!Commits) /\ onto[c] \in Seq(B!Commits)
    BY <1>1, GoneOnce DEF BranchInv, B!TypeOK
  <2>2. onto' \in [B!Calls -> Seq(B!Commits)] /\ bPc' \in [B!Calls -> {"idle", "read"} \cup B!Over]
    BY <1>1, GoneOnce DEF BranchInv, B!TypeOK
  <2>3. expect' \in [Deleters -> Seq(B!Commits)]
    BY <1>2, <2>1 DEF BranchInv, B!TypeOK
  <2> QED BY <1>1, <2>2, <2>3 DEF BranchInv, B!TypeOK
<1>4. ReadersKnow'
  BY <1>1, <1>2 DEF BranchInv, B!TypeOK, ReadersKnow, B!Calls
<1> QED BY <1>1, <1>3, <1>4 DEF BranchInv

LEMMA BranchStep ==
    ASSUME BranchInv, B!Next \/ UNCHANGED B!vars PROVE BranchInv'
<1>1. CASE B!Next
  BY <1>1, OthersStep, ApplierStep, DeleterStep, RetryStep DEF B!Next
<1>2. CASE UNCHANGED B!vars
  BY <1>2 DEF B!vars, BranchInv, B!TypeOK, ReadersKnow
<1> QED BY <1>1, <1>2

LEMMA BranchInit == ASSUME B!Init PROVE BranchInv
<1>1. B!First \in B!Commits /\ B!First.effect = "none"
  BY BranchAssumption DEF B!First, B!Commits, B!Effects
<1>2. <<B!First>> \in Seq(B!Commits) /\ Once(<<B!First>>)
  BY <1>1 DEF Once
<1>3. expect \in [Deleters -> Seq(B!Commits)]
  <2>1. {B!Gone, <<B!First>>} \subseteq Seq(B!Commits)
    BY <1>2, GoneOnce
  <2> QED BY <2>1 DEF B!Init
<1>4. onto \in [B!Calls -> Seq(B!Commits)] /\ bPc \in [B!Calls -> {"idle", "read"} \cup B!Over]
  BY GoneOnce DEF B!Init
<1>5. B!TypeOK
  <2>1. 1 \in 1..MaxCommits /\ 0 \in 0..MaxFailures
    BY BranchAssumption
  <2>2. head = <<B!First>> /\ commits = 1 /\ protected = FALSE /\ bFailures = 0
    BY DEF B!Init
  <2>3. head \in Seq(B!Commits)
    BY <1>2, <2>2
  <2>4. commits \in 1..MaxCommits /\ protected \in BOOLEAN /\ bFailures \in 0..MaxFailures
    BY <2>1, <2>2
  <2> QED BY <1>3, <1>4, <2>3, <2>4 DEF B!TypeOK
<1>6. ReadersKnow
  BY DEF B!Init, ReadersKnow, B!Calls
<1> QED BY <1>2, <1>5, <1>6 DEF B!Init, BranchInv

-----------------------------------------------------------------------------
\* The diff is on the branch once: a commit with it is made of a branch that does not have
\* it, and the branch becomes that commit's or nothing (applydiff.go, applyDiff).
LEMMA InvDiffOnce == ASSUME BranchInv PROVE B!DiffOnce
<1> DEFINE D == {i \in DOMAIN head : head[i].effect = "diff"}
<1>1. \A i, j \in D : i = j
  BY DEF BranchInv, Once
<1>2. CASE D = {}
  BY <1>2, SameCount, FS_EmptySet DEF B!DiffOnce
<1>3. CASE D # {}
  <2>1. PICK i \in D : D = {i}
    BY <1>1, <1>3
  <2>2. Cardinality(D) = 1
    BY <2>1, FS_Singleton
  <2> QED BY <2>2, SameCount DEF B!DiffOnce
<1> QED BY <1>2, <1>3

\* A call takes off the branch nothing that was on it when the call read it, save what a
\* deleter expected.
Takes == \A c \in B!Calls : bPc[c] = "read" /\ bPc'[c] # "read" =>
             IF c \in Deleters THEN head' = head \/ expect[c] \in {B!Gone, onto[c]}
             ELSE B!Prefix(head, head')

LEMMA StepTakes == ASSUME BranchInv, B!Next PROVE Takes
<1> SUFFICES ASSUME NEW c \in B!Calls, bPc[c] = "read", bPc'[c] # "read", c \notin Deleters
             PROVE  B!Prefix(head, head')
  BY DEF BranchInv, ReadersKnow, Takes
<1>1. B!Prefix(head, head)
  BY PrefixSelf DEF BranchInv, B!TypeOK
<1>2. B!Patch(c) \/ B!PatchFails(c)
  <2>1. ASSUME NEW d \in B!Calls, d # c, B!Ends(d, bPc'[d]) PROVE FALSE
    BY <2>1 DEF B!Ends, BranchInv, B!TypeOK
  <2> QED BY <2>1 DEF B!Next, B!Others, B!Push, B!Reset, B!Remove, B!Protect, B!ReadRef, B!Patch, B!PatchFails,
                    B!ReadBranch, B!Delete, B!DeleteFails, B!Retry, B!Calls, B!Ends, BranchInv, B!TypeOK
<1> QED BY <1>1, <1>2 DEF B!Patch, B!PatchFails

-----------------------------------------------------------------------------
(* Sessions. *)

\* The types, with no bound on the sessions, the ends and the errors.
SessionTypes ==
    /\ style \in S!Styles
    /\ cached \in Nat /\ issued \in Nat /\ ends \in Nat /\ errors \in Nat
    /\ valid \subseteq 1..issued
    /\ sPc \in [Callers -> S!PCs] /\ retried \in [Callers -> BOOLEAN]
    /\ using \in [Callers -> Nat]
    /\ met \in [Callers -> BOOLEAN] /\ ended \in [Callers -> BOOLEAN]

\* A call that no other is under way beside.
Alone(c)   == style = "locked" \/ ~met[c]
AloneIsSo  == \A c, d \in Callers : (S!UnderWay(c) /\ Alone(c) /\ S!UnderWay(d)) => d = c

\* A call that has logged in again, and after that nothing was ended, has a good session or
\* is about to ask for one.
Renewed(c) ==
    /\ sPc[c] = "get" => cached = S!None
    /\ sPc[c] = "send" => cached \in valid
    /\ sPc[c] \in {"store", "sent"} => using[c] \in valid
    /\ sPc[c] # "refused"
AloneIsServed == \A c \in Callers : (Alone(c) /\ retried[c] /\ ~ended[c]) => Renewed(c)

\* A call that has not begun was not refused.
IdleUntried == \A c \in Callers : sPc[c] = "idle" => ~retried[c]

\* Only a call that was refused before is refused for good.
RefusedTried == \A c \in Callers : sPc[c] = "refused" => retried[c]

ServeInv == SessionTypes /\ AloneIsSo /\ AloneIsServed /\ IdleUntried /\ RefusedTried

\* Under the lock a session is asked for when there is none that is good, and then an end
\* or an error accounts for each that was.
Accounted == issued <= ends + errors
Locked ==
    /\ issued <= ends + errors + 1
    /\ (\A c \in Callers : sPc[c] # "store") /\ cached \notin valid => Accounted
    /\ \A c \in Callers : sPc[c] = "store" => cached = S!None /\ (using[c] \notin valid => Accounted)
    /\ \A c \in Callers : sPc[c] = "login" => cached = S!None
    /\ \A c \in Callers : sPc[c] = "sent" => using[c] = cached

LoginInv == style = "locked" => Locked

-----------------------------------------------------------------------------
\* A call under way goes on; the others stay.
LEMMA GoesOn ==
    ASSUME SessionTypes, NEW c \in Callers, NEW to \in S!PCs, S!Goes(c, to)
    PROVE  /\ sPc' \in [Callers -> S!PCs] /\ sPc'[c] = to
           /\ \A d \in Callers \ {c} : sPc'[d] = sPc[d]
BY DEF S!Goes, SessionTypes

LEMMA ServeInit == ASSUME S!Init PROVE ServeInv /\ LoginInv
<1>1. SessionTypes
  BY DEF S!Init, SessionTypes, S!PCs, S!None
<1>2. valid = 1..issued /\ cached = issued /\ issued \in {0, 1} /\ ends = 0 /\ errors = 0
  BY DEF S!Init
<1>3. LoginInv
  BY <1>2 DEF S!Init, LoginInv, Locked, Accounted
<1> QED BY <1>1, <1>3 DEF S!Init, ServeInv, AloneIsSo, AloneIsServed, IdleUntried,
                                 RefusedTried, S!UnderWay, S!Over

\* A call begins: under the lock, when no other is under way.
LEMMA StartInv ==
    ASSUME ServeInv, LoginInv, NEW c \in Callers, S!Start(c) PROVE ServeInv' /\ LoginInv'
<1>1. /\ sPc[c] = "idle" /\ sPc'[c] = "get" /\ \A d \in Callers \ {c} : sPc'[d] = sPc[d]
      /\ sPc' \in [Callers -> S!PCs]
      /\ UNCHANGED <<style, cached, issued, valid, retried, using, ended, ends, errors>>
  BY GoesOn DEF S!Start, ServeInv, S!PCs
<1>2. SessionTypes'
  <2>1. met' \in [Callers -> BOOLEAN]
    BY DEF S!Start, ServeInv, SessionTypes
  <2> QED BY <1>1, <2>1 DEF ServeInv, SessionTypes
<1>3. \A d \in Callers : (S!UnderWay(d) /\ d # c) => (style # "locked" /\ met'[d] /\ met'[c])
  BY <1>1 DEF S!Start, ServeInv, SessionTypes
<1>4. \A d \in Callers : met[d] => met'[d]
  BY DEF S!Start, ServeInv, SessionTypes
<1>5. AloneIsSo'
  BY <1>1, <1>3, <1>4 DEF AloneIsSo, Alone, S!UnderWay, ServeInv
<1>6. AloneIsServed'
  BY <1>1, <1>4 DEF AloneIsServed, Alone, Renewed, ServeInv, IdleUntried
<1>7. IdleUntried' /\ RefusedTried'
  BY <1>1 DEF ServeInv, IdleUntried, RefusedTried
<1>8. LoginInv'
  BY <1>1 DEF LoginInv, Locked, Accounted
<1> QED BY <1>2, <1>5, <1>6, <1>7, <1>8 DEF ServeInv

\* What a call under way does, leaves what holds of the others.
Own(c) ==
    /\ S!UnderWay(c)
    /\ \A d \in Callers \ {c} : sPc'[d] = sPc[d] /\ retried'[d] = retried[d] /\ ended'[d] = ended[d]
                              /\ using'[d] = using[d]
    /\ sPc'[c] # "idle" /\ UNCHANGED <<style, met, ends>>

LEMMA OwnStep ==
    ASSUME ServeInv, NEW c \in Callers, Own(c)
    PROVE  /\ AloneIsSo' /\ IdleUntried'
           /\ \A d \in Callers \ {c} : /\ (Alone(d) /\ retried[d] /\ ~ended[d])' => Renewed(d)'
                                     /\ (sPc[d] = "refused" => retried[d])'
           /\ style = "locked" => \A d \in Callers \ {c} : ~S!UnderWay(d)'
<1>1. \A d \in Callers : S!UnderWay(d)' => S!UnderWay(d)
  BY DEF Own, S!UnderWay, S!Over
<1>2. \A d \in Callers : Alone(d)' <=> Alone(d)
  BY DEF Own, Alone
<1>3. AloneIsSo'
  BY <1>1, <1>2 DEF ServeInv, AloneIsSo
<1>4. IdleUntried'
  BY DEF Own, ServeInv, IdleUntried
<1>5. \A d \in Callers \ {c} : (Alone(d) /\ retried[d] /\ ~ended[d])' => Renewed(d)'
  <2> SUFFICES ASSUME NEW d \in Callers \ {c}, (Alone(d) /\ retried[d] /\ ~ended[d])' PROVE Renewed(d)'
    OBVIOUS
  <2>1. Alone(d) /\ retried[d] /\ ~ended[d]
    BY <1>2 DEF Own
  <2>2. ~S!UnderWay(d)
    BY <2>1 DEF Own, ServeInv, AloneIsSo
  <2>3. Renewed(d)
    BY <2>1 DEF ServeInv, AloneIsServed
  <2> QED BY <2>2, <2>3 DEF Own, S!UnderWay, S!Over, Renewed
<1>6. \A d \in Callers \ {c} : (sPc[d] = "refused" => retried[d])'
  BY DEF Own, ServeInv, RefusedTried
<1>7. style = "locked" => \A d \in Callers \ {c} : ~S!UnderWay(d)'
  BY <1>1 DEF Own, ServeInv, AloneIsSo, Alone
<1> QED BY <1>3, <1>4, <1>5, <1>6, <1>7

\* So it is what holds of the call itself that is left to be shown.
LEMMA OwnInv ==
    ASSUME ServeInv, NEW c \in Callers, Own(c), SessionTypes',
           (Alone(c) /\ retried[c] /\ ~ended[c])' => Renewed(c)',
           (sPc[c] = "refused" => retried[c])'
    PROVE  ServeInv'
BY OwnStep DEF ServeInv, AloneIsServed, RefusedTried

\* Under the lock the same goes for the accounts of its logins.
LEMMA OwnLogin ==
    ASSUME ServeInv, NEW c \in Callers, Own(c),
           style = "locked" =>
              /\ (issued <= ends + errors + 1)'
              /\ (sPc[c] # "store" /\ cached \notin valid => Accounted)'
              /\ (sPc[c] = "store" => cached = S!None /\ (using[c] \notin valid => Accounted))'
              /\ (sPc[c] = "login" => cached = S!None)' /\ (sPc[c] = "sent" => using[c] = cached)'
    PROVE  LoginInv'
<1> SUFFICES ASSUME style = "locked" PROVE Locked'
  BY DEF LoginInv, Own
<1>1. \A d \in Callers \ {c} : sPc'[d] \notin {"store", "login", "sent"}
  BY OwnStep DEF S!UnderWay, S!Over
<1> QED BY <1>1 DEF Locked

-----------------------------------------------------------------------------
\* The session is looked at.
LEMMA GetInv == ASSUME ServeInv, LoginInv, NEW c \in Callers, S!Get(c) PROVE ServeInv' /\ LoginInv'
<1> DEFINE to == IF cached = S!None THEN "login" ELSE IF style = "token" THEN "sent" ELSE "send"
<1>1. /\ sPc[c] = "get" /\ sPc'[c] = to /\ \A d \in Callers \ {c} : sPc'[d] = sPc[d]
      /\ sPc' \in [Callers -> S!PCs]
  BY GoesOn DEF S!Get, ServeInv, S!PCs
<1>2. /\ UNCHANGED <<style, cached, issued, valid, retried, met, ended, ends, errors>>
      /\ using' \in [Callers -> Nat] /\ \A d \in Callers \ {c} : using'[d] = using[d]
      /\ style = "token" => using'[c] = cached
  BY DEF S!Get, ServeInv, SessionTypes
<1>3. Own(c)
  BY <1>1, <1>2 DEF Own, S!UnderWay, S!Over
<1>4. SessionTypes'
  BY <1>1, <1>2 DEF ServeInv, SessionTypes
<1>5. (Alone(c) /\ retried[c] /\ ~ended[c])' => Renewed(c)'
  BY <1>1, <1>2 DEF ServeInv, AloneIsServed, Alone, Renewed
<1>6. ServeInv'
  BY <1>1, <1>3, <1>4, <1>5, OwnInv
<1>7. LoginInv'
  BY <1>1, <1>2, <1>3, OwnLogin DEF LoginInv, Locked, Accounted, ServeInv, SessionTypes
<1> QED BY <1>6, <1>7

\* A login: the session is good, and there was none that was.
LEMMA LoginStep == ASSUME ServeInv, LoginInv, NEW c \in Callers, S!Login(c) PROVE ServeInv' /\ LoginInv'
<1>1. /\ sPc[c] = "login" /\ sPc'[c] = "store" /\ \A d \in Callers \ {c} : sPc'[d] = sPc[d]
      /\ sPc' \in [Callers -> S!PCs]
  BY GoesOn DEF S!Login, ServeInv, S!PCs
<1>2. /\ UNCHANGED <<style, cached, retried, met, ended, ends, errors>>
      /\ issued' = issued + 1 /\ valid' = valid \cup {issued + 1} /\ issued' \in Nat
      /\ using' \in [Callers -> Nat] /\ \A d \in Callers \ {c} : using'[d] = using[d]
      /\ using'[c] = issued + 1
  BY DEF S!Login, ServeInv, SessionTypes
<1>3. Own(c)
  BY <1>1, <1>2 DEF Own, S!UnderWay, S!Over
<1>4. SessionTypes'
  <2>1. valid' \subseteq 1..issued'
    BY <1>2 DEF ServeInv, SessionTypes
  <2> QED BY <1>1, <1>2, <2>1 DEF ServeInv, SessionTypes
<1>5. Renewed(c)'
  BY <1>1, <1>2 DEF Renewed
<1>6. ServeInv'
  BY <1>1, <1>3, <1>4, <1>5, OwnInv
<1>7. ASSUME style = "locked" PROVE cached = S!None /\ issued <= ends + errors
  <2>1. \A d \in Callers : sPc[d] # "store"
    BY <1>1, <1>7 DEF ServeInv, AloneIsSo, Alone, S!UnderWay, S!Over
  <2>2. cached = S!None /\ cached \notin valid
    BY <1>1, <1>7 DEF LoginInv, Locked, ServeInv, SessionTypes, S!None
  <2> QED BY <1>7, <2>1, <2>2 DEF LoginInv, Locked, Accounted
<1>8. LoginInv'
  BY <1>1, <1>2, <1>3, <1>7, OwnLogin DEF ServeInv, SessionTypes
<1> QED BY <1>6, <1>8

\* Its session is cached.
LEMMA StoreInv == ASSUME ServeInv, LoginInv, NEW c \in Callers, S!Store(c) PROVE ServeInv' /\ LoginInv'
<1> DEFINE to == IF style = "token" THEN "sent" ELSE "send"
<1>1. /\ sPc[c] = "store" /\ sPc'[c] = to /\ \A d \in Callers \ {c} : sPc'[d] = sPc[d]
      /\ sPc' \in [Callers -> S!PCs]
  BY GoesOn DEF S!Store, ServeInv, S!PCs
<1>2. /\ UNCHANGED <<style, issued, valid, retried, using, met, ended, ends, errors>>
      /\ cached' = using[c] /\ using[c] \in Nat
  BY DEF S!Store, ServeInv, SessionTypes
<1>3. Own(c)
  BY <1>1, <1>2 DEF Own, S!UnderWay, S!Over
<1>4. SessionTypes'
  BY <1>1, <1>2 DEF ServeInv, SessionTypes
<1>5. (Alone(c) /\ retried[c] /\ ~ended[c])' => Renewed(c)'
  BY <1>1, <1>2 DEF ServeInv, AloneIsServed, Alone, Renewed
<1>6. ServeInv'
  BY <1>1, <1>3, <1>4, <1>5, OwnInv
<1>7. LoginInv'
  BY <1>1, <1>2, <1>3, OwnLogin DEF LoginInv, Locked, Accounted
<1> QED BY <1>6, <1>7

\* The request carries what is cached.
LEMMA SendInv == ASSUME ServeInv, LoginInv, NEW c \in Callers, S!Send(c) PROVE ServeInv' /\ LoginInv'
<1>1. /\ sPc[c] = "send" /\ sPc'[c] = "sent" /\ \A d \in Callers \ {c} : sPc'[d] = sPc[d]
      /\ sPc' \in [Callers -> S!PCs]
  BY GoesOn DEF S!Send, ServeInv, S!PCs
<1>2. /\ UNCHANGED <<style, cached, issued, valid, retried, met, ended, ends, errors>>
      /\ using' \in [Callers -> Nat] /\ \A d \in Callers \ {c} : using'[d] = using[d]
      /\ using'[c] = cached
  BY DEF S!Send, ServeInv, SessionTypes
<1>3. Own(c)
  BY <1>1, <1>2 DEF Own, S!UnderWay, S!Over
<1>4. SessionTypes'
  BY <1>1, <1>2 DEF ServeInv, SessionTypes
<1>5. (Alone(c) /\ retried[c] /\ ~ended[c])' => Renewed(c)'
  BY <1>1, <1>2 DEF ServeInv, AloneIsServed, Alone, Renewed
<1>6. ServeInv'
  BY <1>1, <1>3, <1>4, <1>5, OwnInv
<1>7. LoginInv'
  <2>1. style = "locked" => \A d \in Callers : sPc[d] # "store"
    BY <1>1 DEF ServeInv, AloneIsSo, Alone, S!UnderWay, S!Over
  <2> QED BY <1>1, <1>2, <1>3, <2>1, OwnLogin DEF LoginInv, Locked, Accounted
<1> QED BY <1>6, <1>7

\* It is accepted, or fails for a reason of its own.
LEMMA AcceptInv == ASSUME ServeInv, LoginInv, NEW c \in Callers, S!Accept(c) PROVE ServeInv' /\ LoginInv'
<1>1. /\ sPc[c] = "sent" /\ sPc'[c] = "done" /\ \A d \in Callers \ {c} : sPc'[d] = sPc[d]
      /\ sPc' \in [Callers -> S!PCs]
  BY GoesOn DEF S!Accept, ServeInv, S!PCs, S!Over
<1>2. UNCHANGED <<style, cached, issued, valid, retried, using, met, ended, ends, errors>>
  BY DEF S!Accept
<1>3. Own(c) /\ SessionTypes' /\ Renewed(c)'
  BY <1>1, <1>2 DEF Own, S!UnderWay, S!Over, Renewed, ServeInv, SessionTypes
<1>4. ServeInv'
  BY <1>1, <1>3, OwnInv
<1>5. LoginInv'
  <2>1. style = "locked" => \A d \in Callers : sPc[d] # "store"
    BY <1>1 DEF ServeInv, AloneIsSo, Alone, S!UnderWay, S!Over
  <2> QED BY <1>1, <1>2, <1>3, <2>1, OwnLogin DEF LoginInv, Locked, Accounted
<1> QED BY <1>4, <1>5

LEMMA FailInv == ASSUME ServeInv, LoginInv, NEW c \in Callers, S!Fail(c) PROVE ServeInv' /\ LoginInv'
<1>1. /\ sPc[c] \in {"login", "store", "sent"} /\ sPc'[c] = "failed"
      /\ \A d \in Callers \ {c} : sPc'[d] = sPc[d] /\ sPc' \in [Callers -> S!PCs]
  BY GoesOn DEF S!Fail, ServeInv, S!PCs, S!Over
<1>2. /\ UNCHANGED <<style, cached, issued, valid, retried, using, met, ended, ends>>
      /\ errors' = errors + 1 /\ issued \in Nat /\ ends \in Nat /\ errors \in Nat
  BY DEF S!Fail, ServeInv, SessionTypes
<1>3. Own(c) /\ Renewed(c)'
  BY <1>1, <1>2 DEF Own, S!UnderWay, S!Over, Renewed
<1>4. SessionTypes'
  <2>1. sPc' \in [Callers -> S!PCs]
    BY GoesOn DEF S!Fail, ServeInv, S!PCs, S!Over
  <2> QED BY <1>2, <2>1 DEF ServeInv, SessionTypes
<1>5. ServeInv'
  BY <1>1, <1>3, <1>4, OwnInv
<1>6. LoginInv'
  BY <1>1, <1>2, <1>3, OwnLogin DEF LoginInv, Locked, Accounted
<1> QED BY <1>5, <1>6

\* It is refused: a second time only if the sessions were ended again.
LEMMA RefuseInv == ASSUME ServeInv, LoginInv, NEW c \in Callers, S!Refuse(c) PROVE ServeInv' /\ LoginInv'
<1>1. CASE retried[c]
  <2>1. /\ sPc[c] = "sent" /\ sPc'[c] = "refused" /\ \A d \in Callers \ {c} : sPc'[d] = sPc[d]
        /\ sPc' \in [Callers -> S!PCs]
    BY <1>1, GoesOn DEF S!Refuse, ServeInv, S!PCs, S!Over
  <2>2. UNCHANGED <<style, cached, issued, valid, retried, using, met, ended, ends, errors>>
    BY <1>1 DEF S!Refuse
  <2>3. Own(c) /\ SessionTypes'
    BY <2>1, <2>2 DEF Own, S!UnderWay, S!Over, ServeInv, SessionTypes
  <2>4. ~(Alone(c) /\ retried[c] /\ ~ended[c])
    BY <2>1 DEF S!Refuse, ServeInv, AloneIsServed, Renewed
  <2>5. ServeInv'
    BY <1>1, <2>1, <2>2, <2>3, <2>4, OwnInv DEF Alone
  <2>6. LoginInv'
    <3>1. style = "locked" => \A d \in Callers : sPc[d] # "store"
      BY <2>1 DEF ServeInv, AloneIsSo, Alone, S!UnderWay, S!Over
    <3> QED BY <2>1, <2>2, <2>3, <3>1, OwnLogin DEF LoginInv, Locked, Accounted
  <2> QED BY <2>5, <2>6
<1>2. CASE ~retried[c]
  <2> DEFINE to == IF style = "token" THEN "get" ELSE "login"
  <2>1. /\ sPc[c] = "sent" /\ using[c] \notin valid
        /\ sPc'[c] = to /\ \A d \in Callers \ {c} : sPc'[d] = sPc[d]
        /\ sPc' \in [Callers -> S!PCs]
    BY <1>2, GoesOn DEF S!Refuse, ServeInv, S!PCs, S!Over
  <2>2. /\ UNCHANGED <<style, issued, valid, using, met, ends, errors>> /\ cached' = S!None
        /\ retried' \in [Callers -> BOOLEAN] /\ ended' \in [Callers -> BOOLEAN] /\ retried'[c]
        /\ \A d \in Callers \ {c} : retried'[d] = retried[d] /\ ended'[d] = ended[d]
    BY <1>2 DEF S!Refuse, ServeInv, SessionTypes
  <2>3. Own(c)
    BY <2>1, <2>2 DEF Own, S!UnderWay, S!Over
  <2>4. SessionTypes'
    BY <2>1, <2>2 DEF ServeInv, SessionTypes, S!None
  <2>5. Renewed(c)'
    BY <2>1, <2>2 DEF Renewed
  <2>6. ServeInv'
    BY <2>1, <2>2, <2>3, <2>4, <2>5, OwnInv
  <2>7. LoginInv'
    <3>1. style = "locked" => \A d \in Callers : sPc[d] # "store"
      BY <2>1 DEF ServeInv, AloneIsSo, Alone, S!UnderWay, S!Over
    <3>2. style = "locked" => Accounted
      BY <2>1, <3>1 DEF LoginInv, Locked
    <3> QED BY <2>1, <2>2, <2>3, <3>2, OwnLogin DEF LoginInv, Locked, Accounted
  <2> QED BY <2>6, <2>7
<1> QED BY <1>1, <1>2

\* The service ends the sessions: every call under way is excused, and one login.
LEMMA EndInv == ASSUME ServeInv, LoginInv, S!End PROVE ServeInv' /\ LoginInv'
<1>1. /\ valid' = {} /\ ends' = ends + 1 /\ \A c \in Callers : ended'[c]
      /\ ended' \in [Callers -> BOOLEAN]
      /\ UNCHANGED <<style, cached, issued, sPc, retried, using, met, errors>>
  BY DEF S!End
<1>2. SessionTypes'
  BY <1>1 DEF ServeInv, SessionTypes
<1>3. AloneIsSo' /\ AloneIsServed' /\ IdleUntried' /\ RefusedTried'
  BY <1>1 DEF ServeInv, AloneIsSo, AloneIsServed, IdleUntried, RefusedTried, Alone, S!UnderWay
<1>4. LoginInv'
  BY <1>1 DEF LoginInv, Locked, Accounted, ServeInv, SessionTypes
<1> QED BY <1>2, <1>3, <1>4 DEF ServeInv

LEMMA ServeStep == ASSUME ServeInv, LoginInv, S!Next \/ UNCHANGED S!vars PROVE ServeInv' /\ LoginInv'
<1>1. CASE S!Next
  BY <1>1, StartInv, GetInv, LoginStep, StoreInv, SendInv, AcceptInv, RefuseInv, FailInv, EndInv DEF S!Next
<1>2. CASE UNCHANGED S!vars
  BY <1>2 DEF S!vars, ServeInv, SessionTypes, AloneIsSo, AloneIsServed, IdleUntried, RefusedTried,
              Alone, Renewed, S!UnderWay, LoginInv, Locked, Accounted
<1> QED BY <1>1, <1>2

LEMMA InvServes == ASSUME ServeInv, LoginInv PROVE S!SurvivesEnd /\ S!LoginsBounded
<1>1. S!SurvivesEnd
  BY DEF ServeInv, AloneIsServed, RefusedTried, Alone, Renewed, S!SurvivesEnd
<1>2. S!LoginsBounded
  BY DEF ServeInv, SessionTypes, LoginInv, Locked, S!LoginsBounded
<1> QED BY <1>1, <1>2

-----------------------------------------------------------------------------
\* The calls that have logged in, or had no need to, a first time and a second time.
Given  == {c \in Callers : retried[c] \/ sPc[c] \notin {"idle", "get", "login"}}
GivenAgain == {c \in Callers : retried[c] /\ sPc[c] \notin {"idle", "get", "login"}}

\* A session is the first, or was given to one of these.
Bounded ==
    /\ issued <= 1 + Cardinality(Given) + Cardinality(GivenAgain)
    /\ cached \in 0..issued /\ \A c \in Callers : using[c] \in 0..issued
    /\ ends \in 0..MaxEnds /\ errors \in 0..MaxErrors

LEMMA GivenFinite ==
    /\ IsFiniteSet(Given) /\ Cardinality(Given) \in Nat /\ Cardinality(Given) <= Cardinality(Callers)
    /\ IsFiniteSet(GivenAgain) /\ Cardinality(GivenAgain) \in Nat /\ Cardinality(GivenAgain) <= Cardinality(Callers)
<1>1. Given \subseteq Callers /\ GivenAgain \subseteq Callers
  BY DEF Given, GivenAgain
<1> QED BY <1>1, SessionAssumption, FS_Subset, FS_CardinalityType

LEMMA SessionTyped == ASSUME SessionTypes, Bounded PROVE S!TypeOK
<1> DEFINE n == Cardinality(Callers)
<1>1. n \in Nat /\ issued <= 2 * n + 1
  BY GivenFinite, SessionAssumption, FS_CardinalityType DEF Bounded, SessionTypes
<1> HIDE DEF n
<1>2. issued \in 0..(2 * n + 1) /\ 0..issued \subseteq 1..(2 * n + 1) \cup {S!None}
  BY <1>1 DEF SessionTypes, S!None
<1>3. using \in [Callers -> 1..(2 * n + 1) \cup {S!None}]
  BY <1>2 DEF SessionTypes, Bounded
<1>4. cached \in 1..(2 * n + 1) \cup {S!None}
  BY <1>2 DEF Bounded
<1> QED BY <1>2, <1>3, <1>4, SameCount DEF S!TypeOK, SessionTypes, Bounded, S!Sessions, n

\* Neither grows smaller, whatever a call does.
LEMMA GivenGrows ==
    ASSUME SessionTypes, SessionTypes', S!Next PROVE Given \subseteq Given' /\ GivenAgain \subseteq GivenAgain'
<1> USE DEF Given, GivenAgain
<1>1. ASSUME NEW c \in Callers, S!Start(c) PROVE Given \subseteq Given' /\ GivenAgain \subseteq GivenAgain'
  BY <1>1 DEF S!Start, S!Goes, SessionTypes
<1>2. ASSUME NEW c \in Callers, S!Get(c) PROVE Given \subseteq Given' /\ GivenAgain \subseteq GivenAgain'
  BY <1>2 DEF S!Get, S!Goes, SessionTypes
<1>3. ASSUME NEW c \in Callers, S!Login(c) \/ S!Store(c) \/ S!Send(c) \/ S!Accept(c) \/ S!Fail(c)
      PROVE  Given \subseteq Given' /\ GivenAgain \subseteq GivenAgain'
  <2>1. retried' = retried /\ sPc[c] \notin {"idle", "get"}
    BY <1>3 DEF S!Login, S!Store, S!Send, S!Accept, S!Fail
  <2>2. PICK to \in {"store", "sent", "send", "done", "failed"} : S!Goes(c, to)
    BY <1>3 DEF S!Login, S!Store, S!Send, S!Accept, S!Fail
  <2> QED BY <2>1, <2>2 DEF S!Goes, SessionTypes
<1>4. ASSUME NEW c \in Callers, S!Refuse(c) PROVE Given \subseteq Given' /\ GivenAgain \subseteq GivenAgain'
  BY <1>4 DEF S!Refuse, S!Goes, SessionTypes
<1>5. ASSUME S!End PROVE Given \subseteq Given' /\ GivenAgain \subseteq GivenAgain'
  BY <1>5 DEF S!End
<1> QED BY <1>1, <1>2, <1>3, <1>4, <1>5 DEF S!Next

\* A call that logs in joins one of them.
LEMMA LoginCounts ==
    ASSUME SessionTypes, NEW c \in Callers, S!Login(c)
    PROVE  \/ Given' = Given \cup {c} /\ c \notin Given /\ GivenAgain' = GivenAgain
           \/ GivenAgain' = GivenAgain \cup {c} /\ c \notin GivenAgain /\ Given' = Given
<1>1. sPc[c] = "login" /\ sPc' = [sPc EXCEPT ![c] = "store"] /\ retried' = retried
  BY DEF S!Login, S!Goes
<1>2. CASE retried[c]
  BY <1>1, <1>2 DEF Given, GivenAgain, SessionTypes
<1>3. CASE ~retried[c]
  BY <1>1, <1>3 DEF Given, GivenAgain, SessionTypes
<1> QED BY <1>2, <1>3

LEMMA CountKept ==
    ASSUME Given \subseteq Given', GivenAgain \subseteq GivenAgain', issued' = issued, issued \in Nat, Bounded
    PROVE  (issued <= 1 + Cardinality(Given) + Cardinality(GivenAgain))'
<1>1. /\ IsFiniteSet(Given') /\ IsFiniteSet(GivenAgain')
      /\ Cardinality(Given') \in Nat /\ Cardinality(GivenAgain') \in Nat
  <2>1. Given' \subseteq Callers /\ GivenAgain' \subseteq Callers
    BY DEF Given, GivenAgain
  <2> QED BY <2>1, SessionAssumption, FS_Subset, FS_CardinalityType
<1>2. Cardinality(Given) <= Cardinality(Given') /\ Cardinality(GivenAgain) <= Cardinality(GivenAgain')
  BY <1>1, FS_Subset
<1> QED BY <1>1, <1>2, GivenFinite DEF Bounded

LEMMA BoundedStep ==
    ASSUME SessionTypes, SessionTypes', Bounded, S!Next PROVE Bounded'
<1>1. ends' \in 0..MaxEnds /\ errors' \in 0..MaxErrors
  BY SessionAssumption DEF S!Next, S!Start, S!Get, S!Login, S!Store, S!Send, S!Accept, S!Refuse, S!Fail, S!End, Bounded, SessionTypes
<1>2. ASSUME NEW c \in Callers, S!Login(c) PROVE Bounded'
  <2>1. issued' = issued + 1 /\ cached' = cached /\ using' = [using EXCEPT ![c] = issued + 1]
    BY <1>2 DEF S!Login
  <2>2. cached' \in 0..issued' /\ \A d \in Callers : using'[d] \in 0..issued'
    BY <2>1 DEF Bounded, SessionTypes
  <2>3. issued' <= 1 + Cardinality(Given') + Cardinality(GivenAgain')
    <3>1. \/ Cardinality(Given') = Cardinality(Given) + 1 /\ GivenAgain' = GivenAgain
          \/ Cardinality(GivenAgain') = Cardinality(GivenAgain) + 1 /\ Given' = Given
      BY <1>2, LoginCounts, GivenFinite, FS_AddElement
    <3> QED BY <2>1, <3>1, GivenFinite DEF Bounded, SessionTypes
  <2> QED BY <1>1, <2>2, <2>3 DEF Bounded
<1>3. ASSUME issued' = issued, S!Next PROVE Bounded'
  <2>1. cached' \in 0..issued /\ \A d \in Callers : using'[d] \in 0..issued
    <3>1. ASSUME NEW c \in Callers, S!Store(c) PROVE cached' \in 0..issued /\ using' = using
      BY <3>1 DEF S!Store, Bounded
    <3>2. ASSUME NEW c \in Callers, S!Get(c) \/ S!Send(c)
          PROVE  cached' = cached /\ \E v \in 0..issued : using' = [using EXCEPT ![c] = v]
      BY <3>2 DEF S!Get, S!Send, Bounded
    <3>3. ASSUME NEW c \in Callers, S!Start(c) \/ S!Accept(c) \/ S!Fail(c)
          PROVE  cached' = cached /\ using' = using
      BY <3>3 DEF S!Start, S!Accept, S!Fail
    <3>4. ASSUME NEW c \in Callers, S!Refuse(c) PROVE cached' \in {cached, S!None} /\ using' = using
      BY <3>4 DEF S!Refuse
    <3>5. ASSUME S!End PROVE cached' = cached /\ using' = using
      BY <3>5 DEF S!End
    <3>6. ASSUME NEW c \in Callers, S!Login(c) PROVE FALSE
      BY <1>3, <3>6 DEF S!Login, SessionTypes
    <3>7. 0 \in 0..issued
      BY DEF SessionTypes
    <3> QED BY <1>3, <3>1, <3>2, <3>3, <3>4, <3>5, <3>6, <3>7 DEF S!Next, Bounded, SessionTypes, S!None
  <2>2. (issued <= 1 + Cardinality(Given) + Cardinality(GivenAgain))'
    BY <1>3, GivenGrows, CountKept DEF SessionTypes
  <2> QED BY <1>1, <1>3, <2>1, <2>2 DEF Bounded
<1> QED BY <1>2, <1>3 DEF S!Next, S!Start, S!Get, S!Store, S!Send, S!Accept, S!Refuse, S!Fail, S!End

LEMMA SessionStep ==
    ASSUME ServeInv, LoginInv, Bounded, S!Next \/ UNCHANGED S!vars PROVE ServeInv' /\ LoginInv' /\ Bounded'
<1>1. ServeInv' /\ LoginInv'
  BY ServeStep
<1>2. CASE S!Next
  BY <1>1, <1>2, BoundedStep DEF ServeInv
<1>3. CASE UNCHANGED S!vars
  <2>1. Given' = Given /\ GivenAgain' = GivenAgain
    BY <1>3 DEF S!vars, Given, GivenAgain
  <2> QED BY <1>1, <1>3, <2>1 DEF S!vars, Bounded
<1> QED BY <1>1, <1>2, <1>3

LEMMA SessionInit == ASSUME S!Init PROVE Bounded
<1>1. issued \in {0, 1} /\ cached = issued /\ ends = 0 /\ errors = 0 /\ \A c \in Callers : using[c] = 0
  BY DEF S!Init, S!None
<1>2. 0 \in 0..MaxEnds /\ 0 \in 0..MaxErrors
  BY SessionAssumption
<1> QED BY <1>1, <1>2, GivenFinite DEF Bounded

-----------------------------------------------------------------------------
(* What each keeps, a behaviour of all keeps. *)

LEMMA GitHubStep ==
    ASSUME [GitHubNext]_all
    PROVE  /\ [Next]_vars
           /\ C!Next \/ UNCHANGED C!vars
           /\ R!Next \/ UNCHANGED R!vars
           /\ B!Next \/ UNCHANGED B!vars
           /\ S!Next \/ UNCHANGED S!vars
BY DEF GitHubNext, all, stuck, reading, branch, sessions, C!vars, R!vars, R!cache, R!read, R!write, B!vars, S!vars

LEMMA BranchInvHolds == GitHubSpec => []BranchInv
<1>1. GitHubInit => BranchInv
  BY BranchInit DEF GitHubInit
<1>2. BranchInv /\ [GitHubNext]_all => BranchInv'
  BY GitHubStep, BranchStep
<1> QED BY <1>1, <1>2, PTL DEF GitHubSpec

SessionInv == ServeInv /\ LoginInv /\ Bounded

LEMMA SessionInvHolds == GitHubSpec => []SessionInv
<1>1. GitHubInit => SessionInv
  BY ServeInit, SessionInit DEF GitHubInit, SessionInv
<1>2. SessionInv /\ [GitHubNext]_all => SessionInv'
  BY GitHubStep, SessionStep DEF SessionInv
<1> QED BY <1>1, <1>2, PTL DEF GitHubSpec

\* The variables of all keep their types, whatever the calls, the runs of CI, the branches
\* and the sessions: no more sessions than two for each call are ever given.
THEOREM GitHubTyped == GitHubSpec => []AllTyped
<1> DEFINE Inv == TypeOK /\ C!TypeOK /\ R!TypeOK
<1>1. GitHubInit => Inv
  BY InitType, StuckInit, ReadInitTyped DEF GitHubInit
<1>2. Inv /\ [GitHubNext]_all => Inv'
  <2> SUFFICES ASSUME Inv, [GitHubNext]_all PROVE Inv'
    OBVIOUS
  <2>1. TypeOK'
    BY GitHubStep, StepType
  <2>2. C!TypeOK' /\ R!TypeOK'
    BY GitHubStep, StuckStep, ReadTypeStep
  <2> QED BY <2>1, <2>2
<1>3. Inv /\ BranchInv /\ SessionInv => AllTyped
  BY SessionTyped DEF BranchInv, SessionInv, ServeInv, AllTyped
<1> QED BY <1>1, <1>2, <1>3, BranchInvHolds, SessionInvHolds, PTL DEF GitHubSpec

\* No event is run for a head at which what it tells never was: the copies in flight say
\* nothing that was not so when they were made, and what is read is so now
\* (events.go, pullRequestTriggers, checkTriggers and mergeStateTriggers; sweep.go,
\* sweepRepo).
THEOREM RunsWereTrueHolds == GitHubSpec => []RunsWereTrue
<1>1. GitHubInit => TypeOK /\ TrueInv
  BY InitType, InitTrue DEF GitHubInit
<1>2. TypeOK /\ TrueInv /\ [GitHubNext]_all => TypeOK' /\ TrueInv'
  BY GitHubStep, StepType, TrueStep
<1>3. TrueInv => RunsWereTrue
  BY DEF TrueInv, WasTrue, RunsWereTrue
<1> QED BY <1>1, <1>2, <1>3, PTL DEF GitHubSpec

\* A read that begins when a write is done sees it, as long as no read asks GitHub while a
\* write is made or done: the entry that the write found is gone, whether or not other
\* writes lose their answers (ReadCache, http.go: send and invalidateCache).
THEOREM SeesWritesAloneHolds == GitHubSpec => []SeesWritesAlone
<1>1. GitHubInit => CacheInv
  BY InitCache DEF GitHubInit
<1>2. CacheInv /\ [GitHubNext]_all => CacheInv'
  BY GitHubStep, CacheStep
<1>3. CacheInv => SeesWritesAlone
  BY DEF CacheInv, SeesWritesAlone, R!SeesWritesAlone
<1> QED BY <1>1, <1>2, <1>3, PTL DEF GitHubSpec

\* The diff is on the branch once, and a call takes off it nothing that was on it when the
\* call read it, save what a deleter expected (Branch, applydiff.go: applyDiff;
\* deletebranch.go: deleteBranch).
THEOREM BranchKeptHolds == GitHubSpec => BranchKept
<1>1. BranchInv => B!DiffOnce
  BY InvDiffOnce
<1>2. BranchInv /\ [GitHubNext]_all => [Takes]_B!vars
  BY GitHubStep, StepTakes
<1> QED BY <1>1, <1>2, BranchInvHolds, PTL DEF GitHubSpec, BranchKept, B!TakesWhatItSaw, Takes

\* A call is refused only if the sessions were ended again after it was refused, or it met
\* another where no lock is held; under the lock a session is asked for once, and once more
\* for each end and each error (Sessions, do of pihole/main.go and keycloak/main.go,
\* unifi/main.go and synology/main.go).
THEOREM SessionsServeHolds == GitHubSpec => []SessionsServe
<1>1. SessionInv => SessionsServe
  BY InvServes DEF SessionInv, SessionsServe
<1> QED BY <1>1, SessionInvHolds, PTL
=============================================================================
