------------------------------- MODULE Triggers -------------------------------
(***************************************************************************)
(* The pull request events other than review feedback (internal/githubkit/ *)
(* ghsource: events.go triggersFor and the handlers it calls, sweep.go     *)
(* sweepRepo and sweepReviewRequested): review_requested on somebody       *)
(* else's pull request, and on your own self_review, merge_conflict,       *)
(* pr_behind, failing_checks and merge_ready, with the reserved _closed.   *)
(*                                                                         *)
(* One pull request is followed: requests share nothing here.  GitHub      *)
(* changes it and sends a delivery that carries what it was then; the      *)
(* delivery is handled at any later moment, in any order with the others,  *)
(* and its handler reads the pull request as it is by then.  What a        *)
(* handler has made is emitted later still.  The sweep lists the pull      *)
(* request, emits from the list, reads it again, and emits from that.  The *)
(* engine drops what it has seen, and forgets it on _closed.               *)
(*                                                                         *)
(* The events of one kind do not bear on those of another, so a behaviour  *)
(* configures one kind.  The base of the request keeps its name: the key   *)
(* of a conflict holds that name, not the base's commit.                   *)
(***************************************************************************)
EXTENDS Naturals, FiniteSets

CONSTANTS
    Variants,   \* the triggers configured on the kind
    NotDraft,   \* those of them that leave drafts alone (lowerReviewRequested)
    MaxHead,    \* bound on the pushes
    MaxCloses,  \* bound on the closes
    MaxFlight,  \* bound on the deliveries under way
    MaxSwept    \* that bound while the sweep runs

ASSUME BoundsAssumption == MaxHead \in Nat \ {0} /\ MaxFlight \in Nat \ {0} /\ MaxSwept \in Nat

OwnKinds == {"self_review", "merge_conflict", "pr_behind", "failing_checks", "merge_ready"}
Kinds    == OwnKinds \cup {"review_requested"}
Heads    == 1..MaxHead
Keys     == [variant : Variants, head : Heads]

VARIABLES
    kind,    \* the kind that is configured; the request is yours or somebody's with it
    sweeps,  \* the sweep runs, and deliveries may be lost; or neither
    pr,      \* the pull request as GitHub has it
    flight,  \* the deliveries that are not handled yet
    ready,   \* the events that are made and not emitted yet
    item,    \* the sweep's list item, and how far the sweep is with it
    seen,    \* the engine: what it has run
    ran,     \* history: what it ever ran
    closes,  \* history: how many closes the engine took
    was,     \* history: the heads at which what the kind tells was so
    restarted

engine == <<seen, ran, closes>>
vars   == <<kind, sweeps, pr, flight, ready, item, engine, was, restarted>>

Mine        == kind \in OwnKinds
MergeStates == {"unknown", "clean", "dirty", "behind"}
Checks      == {"running", "passed", "failed"}
Requests    == [open : BOOLEAN, head : Heads, draft : BOOLEAN, asked : BOOLEAN, others : BOOLEAN,
                merge : MergeStates, check : Checks, green : BOOLEAN]
Events      == {"updated", "ready_for_review", "review_requested", "check", "reviewed", "closed"}
Copies      == 1..MaxFlight     \* equal deliveries under way are told apart
Deliveries  == [event : Events, pr : Requests, copy : Copies]

\* _closed is of no variant and of no head; the other events are a key of the engine's.
Close    == [variant |-> "_closed", head |-> 0]
Emitted  == Keys \cup {Close}
Sweeping == {"idle", "listed", "pulling"}

TypeOK ==
    /\ kind \in Kinds /\ sweeps \in BOOLEAN
    /\ pr \in Requests
    /\ flight \subseteq Deliveries
    /\ ready \subseteq Emitted
    /\ item \in [at : Sweeping, pr : Requests]
    /\ seen \subseteq Keys /\ ran \subseteq Keys /\ closes \in Nat
    /\ was \subseteq Heads /\ restarted \in BOOLEAN

\* The gate of merge_ready; `green' stands for what it asks besides the merge state:
\* approved by somebody else, threads resolved, not a draft.
GateOpen(p) == p.merge = "clean" /\ p.green

\* What the kind says is so of the request p.
Holds(p) ==
    CASE kind = "merge_conflict"   -> p.merge = "dirty"
      [] kind = "pr_behind"        -> p.merge = "behind"
      [] kind = "failing_checks"   -> p.check = "failed"
      [] kind = "merge_ready"      -> GateOpen(p)
      [] kind = "review_requested" -> ~p.draft
      [] kind = "self_review"      -> TRUE

\* What a payload and a list carry: neither the merge state nor the approvals, and the
\* conclusion of a check only in its own delivery.
Payload(p) == [p EXCEPT !.merge = "unknown", !.green = FALSE, !.check = "running"]

Delivery(event, p, n) ==
    [event |-> event, copy |-> n,
     pr |-> [Payload(p) EXCEPT !.check = IF event = "check" THEN p.check ELSE @]]

\* Who is named: that of ready_for_review may leave out any who were asked of the draft.
Named(event, p) ==
    IF event = "ready_for_review"
    THEN {p, [p EXCEPT !.asked = FALSE], [p EXCEPT !.others = FALSE],
          [p EXCEPT !.asked = FALSE, !.others = FALSE]}
    ELSE {p}

Request(draft, others) ==
    [open |-> TRUE, head |-> 1, draft |-> draft, asked |-> FALSE, others |-> others,
     merge |-> "unknown", check |-> "running", green |-> FALSE]

NoItem == [at |-> "idle", pr |-> [Request(FALSE, FALSE) EXCEPT !.open = FALSE]]

Init ==
    /\ kind \in Kinds /\ sweeps \in BOOLEAN
    /\ \E draft, others \in BOOLEAN : pr = Request(~Mine /\ draft, ~Mine /\ others)
    /\ flight = {Delivery("updated", pr, 1)} /\ ready = {} /\ item = NoItem /\ restarted = FALSE
    /\ seen = {} /\ ran = {} /\ closes = 0
    /\ was = {h \in {1} : Holds(pr)}

-----------------------------------------------------------------------------
(* What happens on GitHub.  What the configured kind does not look at *)
(* stays as it is.                                                    *)

Merging  == kind \in {"merge_conflict", "pr_behind", "merge_ready"}
Checking == kind \in {"failing_checks", "merge_ready"}
Reviewed == kind = "merge_ready"

Becomes(p) == /\ pr' = p
              /\ was' = IF Holds(p) THEN was \cup {p.head} ELSE was

\* Only with the sweep on may a delivery be lost.
Sends(event, p) ==
    /\ Cardinality(flight) < IF sweeps THEN MaxSwept ELSE MaxFlight
    /\ \/ \E q \in Named(event, p), n \in Copies :
             /\ \A m \in 1..n : Delivery(event, q, m) \in flight <=> m < n
             /\ flight' = flight \cup {Delivery(event, q, n)}
       \/ sweeps /\ flight' = flight

Happens(event, p) == Becomes(p) /\ Sends(event, p) /\ UNCHANGED <<kind, sweeps, ready, item, engine, restarted>>
Silently(p)       == Becomes(p) /\ UNCHANGED <<kind, sweeps, flight, ready, item, engine, restarted>>

Push == /\ pr.open /\ pr.head < MaxHead
        /\ \E green \in {FALSE, pr.green} :
              Happens("updated", [pr EXCEPT !.head = @ + 1, !.merge = "unknown",
                                            !.check = "running", !.green = green])

ClosePR == /\ pr.open /\ closes < MaxCloses
           /\ Happens("closed", [pr EXCEPT !.open = FALSE])
Reopen  == ~pr.open /\ Happens("updated", [pr EXCEPT !.open = TRUE])

MarkReady == ~Mine /\ pr.open /\ pr.draft /\ Happens("ready_for_review", [pr EXCEPT !.draft = FALSE])
Ask       == ~Mine /\ pr.open /\ ~pr.asked /\ Happens("review_requested", [pr EXCEPT !.asked = TRUE])

\* A draft again, your review given or withdrawn: nothing handles these deliveries.
MarkDraft == ~Mine /\ pr.open /\ ~pr.draft /\ Silently([pr EXCEPT !.draft = TRUE])
Answer    == ~Mine /\ pr.asked /\ Silently([pr EXCEPT !.asked = FALSE])

\* A check concludes; someone approves or objects, a thread is resolved or opened.
CheckDone(c) == Checking /\ pr.check = "running" /\ c # "running" /\ Happens("check", [pr EXCEPT !.check = c])
Review(g)    == Reviewed /\ pr.open /\ g # pr.green /\ Happens("reviewed", [pr EXCEPT !.green = g])

\* The base moves, which sends nothing that is handled; GitHub works out the merge state.
BaseMoves  == Merging /\ pr.open /\ pr.merge # "unknown" /\ Silently([pr EXCEPT !.merge = "unknown"])
Compute(m) == Merging /\ pr.merge = "unknown" /\ m # "unknown" /\ Silently([pr EXCEPT !.merge = m])

-----------------------------------------------------------------------------
(* The handlers.  A read of GitHub may fail, and does without the App; it  *)
(* does not when webhooks are all there is.                                *)

ReadOK == IF sweeps THEN BOOLEAN ELSE {TRUE}

Emit(head, vs) == [variant : vs, head : {head}]
Only(k, s)     == IF kind = k THEN s ELSE {}

\* The variants that take a review of a request that is a draft, or not.
Taken(draft) == IF draft THEN Variants \ NotDraft ELSE Variants

\* Your pull request is read, retrying while its merge state is unknown, and giving up.
MergeState(ok) ==
    IF ok /\ Mine /\ pr.open
    THEN Only("merge_conflict", IF pr.merge = "dirty" THEN Emit(pr.head, Variants) ELSE {})
         \cup Only("pr_behind", IF pr.merge = "behind" THEN Emit(pr.head, Variants) ELSE {})
    ELSE {}

\* One query, which is not tried again while the merge state is unknown.
MergeReady(ok) == Only("merge_ready", IF ok /\ Mine /\ GateOpen(pr) THEN Emit(pr.head, Variants) ELSE {})

SelfReview(p) == Only("self_review", Emit(p.head, Variants))

\* Seeded bug: those that are named are all.
ReadyReviewNamed(p, ok) == Only("review_requested", IF p.asked THEN Emit(p.head, Taken(p.draft)) ELSE {})

\* A review that is asked for by name, and one that was waiting when the draft became
\* ready: who was asked is read when the payload names nobody.
ReviewRequested(p) == Only("review_requested", Emit(p.head, Taken(p.draft)))
ReadyReview(p, ok) ==
    Only("review_requested", IF p.asked \/ (~p.others /\ ok /\ pr.asked)
                             THEN Emit(p.head, Taken(p.draft)) ELSE {})

FailingChecks(p, ok) ==
    Only("failing_checks",
         IF p.check = "failed" /\ ok /\ Mine /\ pr.open THEN Emit(p.head, Variants) ELSE {})

\* What a delivery becomes.
TriggersFor(d, ok) ==
    CASE d.event = "updated"          -> MergeState(ok) \cup SelfReview(d.pr) \cup MergeReady(ok)
      [] d.event = "ready_for_review" -> MergeState(ok) \cup SelfReview(d.pr) \cup MergeReady(ok)
                                             \cup ReadyReview(d.pr, ok)
      [] d.event = "review_requested" -> ReviewRequested(d.pr)
      [] d.event = "check"            -> FailingChecks(d.pr, ok) \cup MergeReady(ok)
      [] d.event = "reviewed"         -> MergeReady(ok)
      [] d.event = "closed"           -> {Close}

Handle(d) ==
    /\ d \in flight
    /\ flight' = flight \ {d}
    /\ \E ok \in ReadOK : ready' = ready \cup TriggersFor(d, ok)
    /\ UNCHANGED <<kind, sweeps, pr, item, engine, was, restarted>>

\* The engine takes an event.
Run(k) == /\ seen' = seen \cup {k}
          /\ ran' = ran \cup {k}
          /\ closes' = closes

Settle == /\ seen' = {} /\ closes' = closes + 1 /\ ran' = ran

Deliver(e) ==
    /\ e \in ready /\ ready' = ready \ {e}
    /\ IF e = Close THEN Settle ELSE Run(e)
    /\ UNCHANGED <<kind, sweeps, pr, flight, item, was, restarted>>

-----------------------------------------------------------------------------
(* The sweep. *)

List == /\ sweeps /\ item.at = "idle" /\ pr.open
        /\ item' = [at |-> "listed", pr |-> Payload(pr)]
        /\ UNCHANGED <<kind, sweeps, pr, flight, ready, engine, was, restarted>>

\* From the list: your review is pending.  Then, if it is yours, it is read.
SweepReviewRequested ==
    Only("review_requested",
         IF item.pr.asked THEN Emit(item.pr.head, Taken(item.pr.draft)) ELSE {})

\* Seeded bug: it is not read.
SweepItemOnly ==
    /\ item.at = "listed"
    /\ ready' = ready \cup SweepReviewRequested /\ item' = NoItem
    /\ UNCHANGED <<kind, sweeps, pr, flight, engine, was, restarted>>

SweepItem == /\ item.at = "listed"
             /\ ready' = ready \cup SweepReviewRequested
             /\ item' = IF Mine THEN [item EXCEPT !.at = "pulling"] ELSE NoItem
             /\ UNCHANGED <<kind, sweeps, pr, flight, engine, was, restarted>>

\* Seeded bug: the head is that of the list.
SweepMergeListed ==
    Only("merge_conflict", IF pr.merge = "dirty" THEN Emit(item.pr.head, Variants) ELSE {})
    \cup Only("pr_behind", IF pr.merge = "behind" THEN Emit(item.pr.head, Variants) ELSE {})

\* Whether it is still open is not looked at.
SweepMergeState ==
    Only("merge_conflict", IF pr.merge = "dirty" THEN Emit(pr.head, Variants) ELSE {})
    \cup Only("pr_behind", IF pr.merge = "behind" THEN Emit(pr.head, Variants) ELSE {})

Pull(ok) ==
        /\ item.at = "pulling"
        /\ ready' = IF ok THEN ready \cup SweepMergeState ELSE ready
        /\ item' = NoItem
        /\ UNCHANGED <<kind, sweeps, pr, flight, engine, was, restarted>>

\* The process is started again, once: what it was about is lost.
Restart == /\ sweeps /\ ~restarted /\ restarted' = TRUE
           /\ ready' = {} /\ item' = NoItem
           /\ UNCHANGED <<kind, sweeps, pr, flight, engine, was>>

-----------------------------------------------------------------------------
GitHub == \/ Push \/ ClosePR \/ Reopen \/ MarkReady \/ Ask \/ MarkDraft \/ Answer \/ BaseMoves
          \/ \E c \in Checks : CheckDone(c)
          \/ \E g \in BOOLEAN : Review(g)
          \/ \E m \in MergeStates : Compute(m)
Source == \/ \E d \in flight : Handle(d)
          \/ \E e \in ready : Deliver(e)
          \/ List \/ SweepItem
          \/ \E ok \in BOOLEAN : Pull(ok)
Next   == GitHub \/ Source \/ Restart
Spec   == Init /\ [][Next]_vars

\* Handlers and the engine get on with it, the sweep comes round again, and GitHub does
\* not fail all of its reads nor leave a merge state unknown for ever.
Fairness ==
    /\ WF_vars(\E d \in flight : Handle(d)) /\ WF_vars(\E e \in ready : Deliver(e))
    /\ WF_vars(List \/ SweepItem)
    /\ WF_vars(Pull(FALSE)) /\ SF_vars(Pull(TRUE))
    /\ WF_vars(\E m \in MergeStates : Compute(m))
-----------------------------------------------------------------------------
(* The properties. *)

\* No event tells what never was: a fixer, a merge or a review that starts at a head
\* does so because the request was in conflict, behind, failing, green or out of draft
\* at that head, whatever was lost, late or read in between.
RunsWereTrue ==
    \A k \in ran :
        (kind = "review_requested" => k.variant \in NotDraft) => k.head \in was

\* What lasts is run, though every delivery may be lost: the sweep finds it.
Lasts(k) == /\ sweeps /\ pr.open /\ pr.head = k.head
            /\ \/ kind \in {"merge_conflict", "pr_behind"} /\ Holds(pr)
               \/ kind = "review_requested" /\ pr.asked /\ k.variant \in Taken(pr.draft)
SweepRecovers == \A k \in Keys : <>[]Lasts(k) => []<>(k \in seen)

\* Without the sweep, a failing check and an update of your own request are run for the
\* head that stays, and a review that stays asked for once the request is no draft, also
\* when it was asked for while it was one and the payload leaves out who was; but where
\* somebody else is asked too, as one that names them alone is not read (events.go,
\* readyReviewTriggers).
HooksReach ==
    /\ \A k \in Keys :
          []pr.open /\ <>[](~sweeps /\ kind \in {"failing_checks", "self_review"} /\ Holds(pr) /\ pr.head = k.head)
             => <>(k \in ran)
    /\ \A v \in Variants :
          <>[](/\ ~sweeps /\ kind = "review_requested" /\ pr.open /\ pr.asked /\ ~pr.draft
               /\ ~pr.others)
             => <>(\E k \in ran : k.variant = v)

\* "never emitted for a closed or merged PR" (docs/connectors/github.md).
Fixes == {"failing_checks", "merge_conflict", "pr_behind"}
NeverForClosed ==
    [][(kind \in Fixes /\ ~pr.open) => ((ready' \cap Keys) \subseteq ready)]_vars
=============================================================================
