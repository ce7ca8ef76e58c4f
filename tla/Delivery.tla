------------------------------- MODULE Delivery -------------------------------
(***************************************************************************)
(* Webhook deliveries (internal/githubkit/ghsource: smee.go deliver,       *)
(* handleSmeeData and deliveryDedup, http.go webhookHandler).              *)
(*                                                                         *)
(* Two transports feed one handler.  The smee stream is read by one        *)
(* goroutine, which handles a frame before it scans the next; a direct     *)
(* POST is handled by a goroutine of its own.  GitHub retries, the         *)
(* operator redelivers and the channel replays after a reconnect, so any   *)
(* copy of any delivery can arrive at any time, on either transport.  The  *)
(* set of seen ids is shared and bounded.  A copy that came through the    *)
(* channel was re-serialised there: its signature, made over GitHub's      *)
(* bytes, may no longer hold.                                              *)
(*                                                                         *)
(* Frames and requests without an event or a body change nothing and are   *)
(* left out.                                                               *)
(***************************************************************************)
EXTENDS Integers, Sequences

CONSTANTS
    Ids,            \* delivery ids
    NoId,           \* a delivery that carries none
    Stream,         \* the goroutine that reads the channel
    Posts,          \* the goroutines of the requests being served
    Max,            \* how many ids are remembered (2048)
    Verify,         \* webhook.verify_signature
    StreamSound,    \* the channel keeps GitHub's bytes
    MaxReceipts     \* bound on the number of copies that arrive

ASSUME IdAssumption      == NoId \notin Ids
ASSUME HandlerAssumption == Stream \notin Posts
ASSUME BoundAssumption   == Max \in Nat \ {0} /\ MaxReceipts \in Nat
ASSUME ConfigAssumption  == Verify \in BOOLEAN /\ StreamSound \in BOOLEAN

VARIABLES
    seen,       \* deliveryDedup.set
    ring,       \* deliveryDedup.ring
    added,      \* history: the ids add let through, in order
    copy,       \* the copy each handler holds: its id and whether it verifies
    pc,         \* where each handler is
    place,      \* the place of the handler's copy in added, 0 without an id
    runs,       \* what was emitted: the id and its place
    direct,     \* the ids a finished POST carried
    receipts,   \* how many copies arrived
    spoiled     \* history: the ids of those that the channel spoiled

dedup    == <<seen, ring, added>>
handlers == <<copy, pc, place>>
arrivals == <<receipts, spoiled>>
vars     == <<dedup, handlers, runs, direct, arrivals>>

Handlers == Posts \cup {Stream}
Copies   == [id : Ids \cup {NoId}, good : BOOLEAN]

TypeOK ==
    /\ seen \subseteq Ids /\ ring \in Seq(Ids) /\ added \in Seq(Ids)
    /\ copy \in [Handlers -> Copies]
    /\ pc \in [Handlers -> {"idle", "deduplicating", "verifying", "emitting"}]
    /\ place \in [Handlers -> Nat]
    /\ runs \in Seq([id : Ids \cup {NoId}, place : Nat])
    /\ direct \subseteq Ids
    /\ receipts \in Nat /\ spoiled \subseteq Ids \cup {NoId}

Init ==
    /\ seen = {} /\ ring = <<>> /\ added = <<>>
    /\ copy = [h \in Handlers |-> [id |-> NoId, good |-> FALSE]]
    /\ pc = [h \in Handlers |-> "idle"]
    /\ place = [h \in Handlers |-> 0]
    /\ runs = <<>> /\ direct = {} /\ receipts = 0 /\ spoiled = {}

\* A copy arrives; only the channel can spoil it.
Receive(h, c) ==
    /\ pc[h] = "idle" /\ receipts < MaxReceipts
    /\ ~c.good => h = Stream /\ ~StreamSound
    /\ copy' = [copy EXCEPT ![h] = c]
    /\ pc' = [pc EXCEPT ![h] = "deduplicating"]
    /\ place' = [place EXCEPT ![h] = 0]
    /\ receipts' = receipts + 1
    /\ spoiled' = IF c.good THEN spoiled ELSE spoiled \cup {c.id}
    /\ UNCHANGED <<dedup, runs, direct>>

\* Seeded bugs: a full ring starts over; the ring forgets one early.
AddClearing(id) ==
    /\ added' = Append(added, id)
    /\ ring' = IF Len(ring) = Max THEN <<id>> ELSE Append(ring, id)
    /\ seen' = IF Len(ring) = Max THEN {id} ELSE seen \cup {id}
AddEarly(id) ==
    LET longer == Append(ring, id) IN
    /\ added' = Append(added, id)
    /\ ring' = IF Len(longer) >= Max THEN Tail(longer) ELSE longer
    /\ seen' = IF Len(longer) >= Max THEN (seen \cup {id}) \ {longer[1]} ELSE seen \cup {id}

\* deliveryDedup.add of a new id: a full ring drops its oldest.
Add(id) ==
    LET longer == Append(ring, id) IN
    /\ added' = Append(added, id)
    /\ ring' = IF Len(longer) > Max THEN Tail(longer) ELSE longer
    /\ seen' = IF Len(longer) > Max THEN (seen \cup {id}) \ {longer[1]} ELSE seen \cup {id}

\* The handler is done with its copy; a POST is answered 202 whatever came of it.
Done(h) ==
    /\ pc' = [pc EXCEPT ![h] = "idle"]
    /\ direct' = IF h = Stream \/ copy[h].id = NoId THEN direct ELSE direct \cup {copy[h].id}

\* Seeded bug: a delivery without an id is deduplicated like any other.
DeduplicateAlways(h) ==
    /\ pc[h] = "deduplicating"
    /\ IF copy[h].id \in seen THEN Done(h) /\ UNCHANGED <<dedup, place>>
       ELSE /\ Add(copy[h].id)
            /\ place' = [place EXCEPT ![h] = Len(added) + 1]
            /\ pc' = [pc EXCEPT ![h] = "verifying"] /\ UNCHANGED direct
    /\ UNCHANGED <<copy, runs, arrivals>>

\* Seen before: dropped.  New, or without an id: on.
Deduplicate(h) ==
    /\ pc[h] = "deduplicating"
    /\ \/ copy[h].id \in seen /\ Done(h) /\ UNCHANGED <<dedup, place>>
       \/ /\ copy[h].id \in Ids \ seen
          /\ Add(copy[h].id)
          /\ place' = [place EXCEPT ![h] = Len(added) + 1]
          /\ pc' = [pc EXCEPT ![h] = "verifying"] /\ UNCHANGED direct
       \/ /\ copy[h].id = NoId
          /\ pc' = [pc EXCEPT ![h] = "verifying"] /\ UNCHANGED <<dedup, place, direct>>
    /\ UNCHANGED <<copy, runs, arrivals>>

\* Seeded bug: the set is asked once more, after it was added to.
CheckSeenAgain(h) ==
    /\ pc[h] = "verifying"
    /\ IF (Verify /\ ~copy[h].good) \/ copy[h].id \in seen THEN Done(h)
       ELSE pc' = [pc EXCEPT ![h] = "emitting"] /\ UNCHANGED direct
    /\ UNCHANGED <<dedup, copy, place, runs, arrivals>>

\* The signature, over the bytes received.
Check(h) ==
    /\ pc[h] = "verifying"
    /\ IF Verify /\ ~copy[h].good THEN Done(h)
       ELSE pc' = [pc EXCEPT ![h] = "emitting"] /\ UNCHANGED direct
    /\ UNCHANGED <<dedup, copy, place, runs, arrivals>>

\* Translated into its triggers, which are emitted.
Emit(h) ==
    /\ pc[h] = "emitting"
    /\ runs' = Append(runs, [id |-> copy[h].id, place |-> place[h]])
    /\ Done(h)
    /\ UNCHANGED <<dedup, copy, place, arrivals>>

Next == \E h \in Handlers : \/ \E c \in Copies : Receive(h, c)
                            \/ Deduplicate(h) \/ Check(h) \/ Emit(h)

Spec == Init /\ [][Next]_vars

-----------------------------------------------------------------------------
\* The ring and the set are a window over what add let through: whatever the
\* handlers' interleaving, an id is dropped exactly when it is among the last
\* Max (smee.go, deliveryDedup: a bounded set of recently-seen delivery ids).
W == INSTANCE Window WITH accepted <- added
IsWindow == W!Spec /\ [](seen = W!Recent)

\* Two runs of one delivery are more than Max deliveries apart, though handlers
\* emit in another order than they were let through (smee.go, deliver).
RunsOnce ==
    \A i, j \in DOMAIN runs :
        (i # j /\ runs[i].id = runs[j].id /\ runs[i].id # NoId)
            => \/ runs[i].place - runs[j].place > Max
               \/ runs[j].place - runs[i].place > Max

\* These ids have run, or are about to.
Running(id) ==
    \/ \E i \in DOMAIN runs : runs[i].id = id
    \/ \E h \in Handlers : copy[h].id = id /\ copy[h].good /\ pc[h] \in {"verifying", "emitting"}

\* A delivery posted directly, and so with its exact bytes, is not lost: once
\* its POST is answered it has run or is about to (http.go, webhookHandler:
\* signature verification is reliable),
DirectRuns == \A id \in direct : Running(id)

\* and is not, unless the channel brought a spoiled copy of it first.
DirectRunsUnlessSpoiled == \A id \in direct \ spoiled : Running(id)
=============================================================================
