--------------------------------- MODULE Sync ---------------------------------
(***************************************************************************)
(* The source of matrix (StartSource, processSync): long polls that each   *)
(* return what came after the last one's token.  The first notes the token *)
(* and emits nothing.  A poll may fail; the homeserver may answer with an  *)
(* event again, and when there is more than it puts in one answer it       *)
(* leaves out the older.  Token, first and seen are lost with the process. *)
(***************************************************************************)
EXTENDS Integers, Sequences, FiniteSets

CONSTANTS
    Last,       \* bound on the events
    Limit,      \* how many the homeserver puts in one answer
    MaxFailures, MaxRestarts

\* A message, an invite of somebody else to a room that the account has joined, and one
\* of the account to a room that it has not, which the homeserver lists elsewhere.
Kinds  == {"message", "invite", "invited"}
Places == 1..Last

VARIABLES
    timeline,   \* the kind of each event; event n came n-th
    since,      \* the place of the last answer in it
    firstSync,
    seen,       \* the events that were made since the process began
    emitting,   \* those of the last answer that are not emitted yet
    told,       \* history: how often each was emitted since then
    from,       \* history: where the process began to follow
    skipped,    \* history: what the homeserver left out
    failures, restarts

vars == <<timeline, since, firstSync, seen, emitting, told, from, skipped, failures, restarts>>

Now == Len(timeline)

TypeOK ==
    /\ timeline \in Seq(Kinds) /\ Now <= Last
    /\ since \in 0..Last /\ from \in 0..Last /\ firstSync \in BOOLEAN
    /\ seen \subseteq Places /\ emitting \subseteq Places /\ skipped \subseteq Places
    /\ told \in [Places -> 0..2]
    /\ failures \in 0..MaxFailures /\ restarts \in 0..MaxRestarts

Init == /\ timeline = <<>> /\ since = 0 /\ firstSync = TRUE /\ seen = {}
        /\ emitting = {} /\ told = [n \in Places |-> 0] /\ from = 0 /\ skipped = {}
        /\ failures = 0 /\ restarts = 0

Happen(k) == /\ Now < Last /\ timeline' = Append(timeline, k)
             /\ UNCHANGED <<since, firstSync, seen, emitting, told, from, skipped, failures, restarts>>

\* What an answer holds: from one before the token on, and no more than the last of it.
Joined(lo) == {n \in (lo + 1)..Now : timeline[n] # "invited"}
Answered(lo) == {n \in Joined(lo) : Cardinality({m \in Joined(lo) : m > n}) < Limit}

FirstSync == /\ emitting = {} /\ firstSync
             /\ firstSync' = FALSE /\ since' = Now /\ from' = Now
             /\ UNCHANGED <<timeline, seen, emitting, told, skipped, failures, restarts>>

\* Seeded bug: what was seen is not kept from answer to answer.
SyncUnseen(again) ==
    /\ emitting = {} /\ ~firstSync /\ IF again THEN since > from ELSE since < Now
    /\ since' = Now
    /\ LET got == Answered(IF again THEN since - 1 ELSE since) IN
         /\ emitting' = got /\ seen' = got
         /\ skipped' = skipped \cup (Joined(since) \ got)
    /\ UNCHANGED <<timeline, firstSync, told, from, failures, restarts>>

Sync(again) ==
    /\ emitting = {} /\ ~firstSync /\ IF again THEN since > from ELSE since < Now
    /\ since' = Now
    /\ LET got == Answered(IF again THEN since - 1 ELSE since) IN
         /\ emitting' = got \ seen /\ seen' = seen \cup got
         /\ skipped' = skipped \cup (Joined(since) \ got)
    /\ UNCHANGED <<timeline, firstSync, told, from, failures, restarts>>

SyncFails == /\ emitting = {} /\ failures < MaxFailures /\ failures' = failures + 1
             /\ UNCHANGED <<timeline, since, firstSync, seen, emitting, told, from, skipped, restarts>>

Emit(n) == /\ n \in emitting /\ emitting' = emitting \ {n}
           /\ told' = [told EXCEPT ![n] = IF @ < 2 THEN @ + 1 ELSE @]
           /\ UNCHANGED <<timeline, since, firstSync, seen, from, skipped, failures, restarts>>

Restart == /\ restarts < MaxRestarts /\ restarts' = restarts + 1
           /\ since' = 0 /\ firstSync' = TRUE /\ seen' = {} /\ emitting' = {}
           /\ UNCHANGED <<timeline, told, from, skipped, failures>>

Next == \/ \E k \in Kinds : Happen(k)
        \/ FirstSync \/ SyncFails \/ Restart
        \/ \E again \in BOOLEAN : Sync(again)
        \/ \E n \in Places : Emit(n)
Spec == Init /\ [][Next]_vars
Fairness == WF_vars(FirstSync) /\ WF_vars(Sync(FALSE)) /\ WF_vars(\E n \in Places : Emit(n))
-----------------------------------------------------------------------------
\* No event is emitted twice, not even by two processes, as a new one starts from now
\* on, and none that has not happened.
F == INSTANCE Feed WITH Messages <- Places, Once <- TRUE, sent <- DOMAIN timeline
IsFeed == F!Spec

\* The token passes over nothing: what came between the first answer and it is emitted, about
\* to be, or was left out by the homeserver (seen, which forgets nothing, drops no other).
TokenCovers ==
    ~firstSync => \A n \in Joined(from) : n <= since => told[n] > 0 \/ n \in emitting \cup skipped

\* What comes after the first answer is emitted, unless the homeserver leaves it out or
\* the process ends.
Due(n)  == ~firstSync /\ n > from /\ n \in Joined(from) /\ restarts = MaxRestarts
Done(n) == told[n] > 0 \/ n \in skipped
NothingLost == \A n \in Places : Due(n) ~> Done(n)
=============================================================================
