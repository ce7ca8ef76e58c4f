--------------------------- MODULE Delivery_proofs ---------------------------
(***************************************************************************)
(* The proofs about Delivery: its types, that the ring and the set are the *)
(* window they stand for, and that no delivery runs twice within it.       *)
(***************************************************************************)
EXTENDS Deliveries, TLAPS

\* The ring holds the last ids let through, in order, and the set the ring's.
RingIsTail ==
    /\ Len(ring) = IF Len(added) <= Max THEN Len(added) ELSE Max
    /\ \A k \in 1..Len(ring) : ring[k] = added[Len(added) - Len(ring) + k]
SetIsRing == seen = {ring[k] : k \in 1..Len(ring)}

\* An id was let through again only more than Max ids later.
Apart ==
    \A i, j \in 1..Len(added) : (i < j /\ added[i] = added[j]) => j - i > Max

\* What a handler at work, or a run, stands for: a place of its own in added.
Working(h)   == pc[h] \in {"verifying", "emitting"} /\ copy[h].id # NoId
HandlerPlaces ==
    /\ \A h \in Handlers : Working(h) => place[h] \in 1..Len(added) /\ added[place[h]] = copy[h].id
    /\ \A g, h \in Handlers : (g # h /\ Working(g) /\ Working(h)) => place[g] # place[h]
Deduplicated(i) == runs[i].id # NoId
RunPlaces ==
    /\ \A i \in 1..Len(runs) :
          Deduplicated(i) => runs[i].place \in 1..Len(added) /\ added[runs[i].place] = runs[i].id
    /\ \A i, j \in 1..Len(runs) :
          (i # j /\ Deduplicated(i) /\ Deduplicated(j)) => runs[i].place # runs[j].place
    /\ \A i \in 1..Len(runs), h \in Handlers :
          (Deduplicated(i) /\ Working(h)) => runs[i].place # place[h]

WindowInv == RingIsTail /\ SetIsRing /\ Apart
PlaceInv  == HandlerPlaces /\ RunPlaces

-----------------------------------------------------------------------------
\* A handler that is done leaves the types alone.
LEMMA DoneType ==
    ASSUME TypeOK, NEW h \in Handlers, Done(h)
    PROVE  /\ pc' \in [Handlers -> {"idle", "deduplicating", "verifying", "emitting"}]
           /\ direct' \subseteq Ids
<1>1. copy[h].id \in Ids \cup {NoId}
  BY DEF TypeOK, Copies
<1> QED BY <1>1 DEF Done, TypeOK

\* So does adding an id.
LEMMA AddType ==
    ASSUME TypeOK, NEW id \in Ids, Add(id)
    PROVE  seen' \subseteq Ids /\ ring' \in Seq(Ids) /\ added' \in Seq(Ids)
<1> DEFINE longer == Append(ring, id)
<1>1. longer \in Seq(Ids) /\ Len(longer) = Len(ring) + 1 /\ Len(ring) \in Nat
  BY DEF TypeOK
<1>2. Len(longer) > Max => Tail(longer) \in Seq(Ids)
  BY <1>1, BoundAssumption
<1> QED BY <1>1, <1>2 DEF Add, TypeOK

\* Every step keeps the types.
LEMMA StepType == ASSUME TypeOK, [Next]_vars PROVE TypeOK'
<1>1. ASSUME NEW h \in Handlers, NEW c \in Copies, Receive(h, c) PROVE TypeOK'
  BY <1>1 DEF Receive, TypeOK, Copies, dedup
<1>2. ASSUME NEW h \in Handlers, Deduplicate(h) PROVE TypeOK'
  <2>1. CASE copy[h].id \in seen /\ Done(h) /\ UNCHANGED <<dedup, place>>
    BY <1>2, <2>1, DoneType DEF Deduplicate, TypeOK, dedup, arrivals
  <2>2. CASE /\ copy[h].id \in Ids \ seen
             /\ Add(copy[h].id)
             /\ place' = [place EXCEPT ![h] = Len(added) + 1]
             /\ pc' = [pc EXCEPT ![h] = "verifying"] /\ UNCHANGED direct
    <3>1. seen' \subseteq Ids /\ ring' \in Seq(Ids) /\ added' \in Seq(Ids)
      BY <2>2, AddType
    <3>2. Len(added) + 1 \in Nat
      BY DEF TypeOK
    <3> QED BY <1>2, <2>2, <3>1, <3>2 DEF Deduplicate, TypeOK, arrivals
  <2>3. CASE copy[h].id = NoId /\ pc' = [pc EXCEPT ![h] = "verifying"]
             /\ UNCHANGED <<dedup, place, direct>>
    BY <1>2, <2>3 DEF Deduplicate, TypeOK, dedup, arrivals
  <2> QED BY <1>2, <2>1, <2>2, <2>3 DEF Deduplicate
<1>3. ASSUME NEW h \in Handlers, Check(h) PROVE TypeOK'
  BY <1>3, DoneType DEF Check, TypeOK, dedup, arrivals
<1>4. ASSUME NEW h \in Handlers, Emit(h) PROVE TypeOK'
  <2>1. [id |-> copy[h].id, place |-> place[h]] \in [id : Ids \cup {NoId}, place : Nat]
    BY DEF TypeOK, Copies
  <2>2. runs' \in Seq([id : Ids \cup {NoId}, place : Nat])
    BY <1>4, <2>1 DEF Emit, TypeOK
  <2> QED BY <1>4, <2>2, DoneType DEF Emit, TypeOK, dedup, arrivals
<1>5. CASE UNCHANGED vars
  BY <1>5 DEF TypeOK, vars, dedup, handlers, arrivals
<1> QED BY <1>1, <1>2, <1>3, <1>4, <1>5 DEF Next

LEMMA InitType == ASSUME Init PROVE TypeOK
BY DEF Init, TypeOK, Copies, Handlers

-----------------------------------------------------------------------------
\* Adding an id keeps the ring the tail of what was let through.
LEMMA AddKeepsTail ==
    ASSUME TypeOK, WindowInv, NEW id \in Ids \ seen, Add(id)
    PROVE  RingIsTail' /\ SetIsRing'
<1> DEFINE longer == Append(ring, id)
           n == Len(added)
<1>1. /\ Len(ring) \in Nat /\ n \in Nat /\ longer \in Seq(Ids) /\ added \in Seq(Ids)
      /\ Len(longer) = Len(ring) + 1 /\ longer[Len(ring) + 1] = id
      /\ \A k \in 1..Len(ring) : longer[k] = ring[k]
  BY DEF TypeOK
<1>2. /\ Len(added') = n + 1 /\ added'[n + 1] = id
      /\ \A k \in 1..n : added'[k] = added[k]
  BY <1>1 DEF Add
<1>3. Max \in Nat \ {0}
  BY BoundAssumption
<1>4. CASE Len(longer) <= Max
  <2>1. ring' = longer /\ seen' = seen \cup {id} /\ n < Max /\ Len(ring) = n
    BY <1>1, <1>3, <1>4 DEF Add, WindowInv, RingIsTail
  <2>2. RingIsTail'
    <3>1. Len(ring') = n + 1 /\ Len(added') = n + 1 /\ n + 1 <= Max
      BY <2>1, <1>1, <1>2, <1>3
    <3>2. \A k \in 1..n : ring[k] = added[k]
      <4>1. \A k \in 1..n : n - n + k = k
        BY <1>1
      <4> QED BY <4>1, <2>1 DEF WindowInv, RingIsTail
    <3>3. \A k \in 1..(n + 1) : ring'[k] = added'[k]
      BY <3>2, <2>1, <1>1, <1>2
    <3>4. \A k \in 1..(n + 1) : (n + 1) - (n + 1) + k = k
      BY <1>1
    <3> QED BY <3>1, <3>3, <3>4, <1>1 DEF RingIsTail
  <2>3. SetIsRing'
    BY <2>1, <1>1 DEF WindowInv, SetIsRing
  <2> QED BY <2>2, <2>3
<1>5. CASE Len(longer) > Max
  <2>1. /\ ring' = Tail(longer) /\ seen' = (seen \cup {id}) \ {longer[1]}
        /\ Len(ring) = Max /\ n >= Max
    BY <1>1, <1>3, <1>5 DEF Add, WindowInv, RingIsTail
  <2>2. Len(ring') = Max /\ \A k \in 1..Max : ring'[k] = longer[k + 1]
    BY <2>1, <1>1, <1>3
  <2>3. \A k \in 1..Max : ring[k] = added[n - Max + k]
    BY <2>1 DEF WindowInv, RingIsTail
  <2>4. \A k \in 1..Max : ring'[k] = added'[n + 1 - Max + k]
    <3> SUFFICES ASSUME NEW k \in 1..Max PROVE ring'[k] = added'[n + 1 - Max + k]
      OBVIOUS
    <3>1. CASE k = Max
      BY <3>1, <2>1, <2>2, <1>1, <1>2, <1>3
    <3>2. CASE k < Max
      <4>1. ring'[k] = ring[k + 1] /\ k + 1 \in 1..Max
        BY <3>2, <2>1, <2>2, <1>1, <1>3
      <4>2. n - Max + (k + 1) = n + 1 - Max + k /\ n + 1 - Max + k \in 1..n
        BY <3>2, <2>1, <1>1, <1>3
      <4> QED BY <4>1, <4>2, <2>3, <1>2
    <3> QED BY <3>1, <3>2, <1>3
  <2>5. RingIsTail'
    <3>1. Len(ring') = Max /\ Len(added') = n + 1 /\ (n + 1 <= Max => n + 1 = Max)
      BY <2>1, <2>2, <1>1, <1>2, <1>3
    <3> QED BY <3>1, <2>4 DEF RingIsTail
  <2>6. \A k \in 2..Max : ring[k] # ring[1]
    <3> SUFFICES ASSUME NEW k \in 2..Max PROVE ring[k] # ring[1]
      OBVIOUS
    <3>1. /\ ring[k] = added[n - Max + k] /\ ring[1] = added[n - Max + 1]
          /\ n - Max + k \in 1..n /\ n - Max + 1 \in 1..n
          /\ (n - Max + k) - (n - Max + 1) < Max /\ n - Max + 1 < n - Max + k
      BY <2>1, <2>3, <1>1, <1>3
    <3>2. \A i, j \in 1..n : (i < j /\ added[i] = added[j]) => j - i > Max
      BY DEF WindowInv, Apart
    <3>3. ~((n - Max + k) - (n - Max + 1) > Max)
      BY <3>1, <1>1, <1>3
    <3> QED BY <3>1, <3>2, <3>3
  <2>7. id # ring[1] /\ longer[1] = ring[1]
    BY <2>1, <1>1, <1>3 DEF WindowInv, SetIsRing
  <2>8. seen = {ring[k] : k \in 1..Max}
    BY <2>1 DEF WindowInv, SetIsRing
  <2>9. seen' = {ring'[k] : k \in 1..Max}
    <3>1. \A k \in 1..Max : ring'[k] \in seen'
      <4> SUFFICES ASSUME NEW k \in 1..Max PROVE ring'[k] \in seen'
        OBVIOUS
      <4>1. CASE k = Max
        BY <4>1, <2>1, <2>2, <2>7, <1>1, <1>3
      <4>2. CASE k < Max
        <5>1. k + 1 \in 2..Max /\ k + 1 \in 1..Max /\ ring'[k] = ring[k + 1]
          BY <4>2, <2>1, <2>2, <1>1, <1>3
        <5> QED BY <5>1, <2>1, <2>6, <2>7, <2>8
      <4> QED BY <4>1, <4>2, <1>3
    <3>2. ASSUME NEW x \in seen' PROVE \E k \in 1..Max : x = ring'[k]
      <4>1. CASE x = id
        <5>1. ring'[Max] = id /\ Max \in 1..Max
          BY <2>1, <2>2, <1>1, <1>3
        <5> QED BY <4>1, <5>1
      <4>2. CASE x # id
        <5>1. PICK k \in 1..Max : x = ring[k]
          BY <4>2, <3>2, <2>1, <2>8
        <5>2. k # 1
          BY <5>1, <3>2, <2>1, <2>7
        <5>3. k - 1 \in 1..Max /\ ring'[k - 1] = ring[k]
          BY <5>2, <2>1, <2>2, <1>1, <1>3
        <5> QED BY <5>1, <5>3
      <4> QED BY <4>1, <4>2
    <3> QED BY <3>1, <3>2
  <2>10. SetIsRing'
    BY <2>2, <2>9 DEF SetIsRing
  <2> QED BY <2>5, <2>10
<1> QED BY <1>1, <1>3, <1>4, <1>5

\* An id that is not in the ring was let through more than Max ids ago.
LEMMA AddKeepsApart ==
    ASSUME TypeOK, WindowInv, NEW id \in Ids \ seen, Add(id)
    PROVE  Apart'
<1> DEFINE n == Len(added)
<1>1. n \in Nat /\ Len(ring) \in Nat /\ Max \in Nat \ {0}
  BY BoundAssumption DEF TypeOK
<1>2. /\ Len(added') = n + 1 /\ added'[n + 1] = id
      /\ \A k \in 1..n : added'[k] = added[k]
  BY <1>1 DEF Add, TypeOK
<1>3. ASSUME NEW i \in 1..n, added[i] = id PROVE n + 1 - i > Max
  <2>1. SUFFICES ASSUME n + 1 - i <= Max PROVE FALSE
    BY <1>1
  <2>2. i - (n - Len(ring)) \in 1..Len(ring)
    BY <2>1, <1>1, <1>3 DEF WindowInv, RingIsTail
  <2>3. ring[i - (n - Len(ring))] = added[i]
    <3>1. n - Len(ring) + (i - (n - Len(ring))) = i
      BY <1>1
    <3> QED BY <2>2, <3>1 DEF WindowInv, RingIsTail
  <2> QED BY <2>2, <2>3, <1>3 DEF WindowInv, SetIsRing
<1> SUFFICES ASSUME NEW i \in 1..(n + 1), NEW j \in 1..(n + 1), i < j, added'[i] = added'[j]
             PROVE  j - i > Max
  BY <1>2 DEF Apart
<1>4. CASE j = n + 1
  <2>1. i \in 1..n /\ added[i] = id
    BY <1>1, <1>2, <1>4
  <2> QED BY <2>1, <1>3, <1>4
<1>5. CASE j < n + 1
  <2>1. i \in 1..n /\ j \in 1..n /\ added[i] = added[j]
    BY <1>1, <1>2, <1>5
  <2> QED BY <2>1 DEF WindowInv, Apart
<1> QED BY <1>1, <1>4, <1>5

\* A step adds one new id, or leaves the window alone.
LEMMA StepKinds ==
    ASSUME TypeOK, [Next]_vars
    PROVE  \/ UNCHANGED dedup
           \/ \E h \in Handlers :
                /\ pc[h] = "deduplicating" /\ copy[h].id \in Ids \ seen /\ Add(copy[h].id)
                /\ place' = [place EXCEPT ![h] = Len(added) + 1]
                /\ pc' = [pc EXCEPT ![h] = "verifying"] /\ UNCHANGED <<copy, runs>>
BY DEF Next, Receive, Deduplicate, Check, Emit, vars

\* The window's invariant is inductive.
LEMMA WindowStep == ASSUME TypeOK, WindowInv, [Next]_vars PROVE WindowInv'
<1>1. CASE UNCHANGED dedup
  BY <1>1 DEF WindowInv, RingIsTail, SetIsRing, Apart, dedup
<1>2. ASSUME NEW id \in Ids \ seen, Add(id) PROVE WindowInv'
  BY <1>2, AddKeepsTail, AddKeepsApart DEF WindowInv
<1> QED BY <1>1, <1>2, StepKinds

\* The set of the ring is what the window remembers.
LEMMA SeenIsRecent == ASSUME TypeOK, WindowInv PROVE seen = W!Recent
<1> DEFINE n == Len(added)
<1>1. /\ n \in Nat /\ Len(ring) \in Nat /\ Max \in Nat \ {0} /\ DOMAIN added = 1..n
      /\ Len(ring) <= n /\ (Len(ring) = n \/ Len(ring) = Max) /\ Len(ring) <= Max
  BY BoundAssumption DEF TypeOK, WindowInv, RingIsTail
<1>2. W!Recent = {added[i] : i \in {j \in 1..n : j > n - Max}}
  BY <1>1 DEF W!Recent
<1>3. {added[i] : i \in {j \in 1..n : j > n - Max}} \subseteq seen
  <2> SUFFICES ASSUME NEW i \in 1..n, i > n - Max PROVE added[i] \in seen
    OBVIOUS
  <2>1. /\ i - (n - Len(ring)) \in 1..Len(ring)
        /\ n - Len(ring) + (i - (n - Len(ring))) = i
    <3> HIDE DEF n
    <3> QED BY <1>1
  <2>2. ring[i - (n - Len(ring))] = added[i]
    BY <2>1 DEF WindowInv, RingIsTail
  <2> QED BY <2>1, <2>2 DEF WindowInv, SetIsRing
<1>4. seen \subseteq {added[i] : i \in {j \in 1..n : j > n - Max}}
  <2> SUFFICES ASSUME NEW k \in 1..Len(ring)
               PROVE  \E i \in 1..n : i > n - Max /\ ring[k] = added[i]
    BY DEF WindowInv, SetIsRing
  <2>1. n - Len(ring) + k \in 1..n /\ n - Len(ring) + k > n - Max
    <3> HIDE DEF n
    <3> QED BY <1>1
  <2>2. ring[k] = added[n - Len(ring) + k]
    BY DEF WindowInv, RingIsTail
  <2> QED BY <2>1, <2>2
<1> QED BY <1>2, <1>3, <1>4

LEMMA InitWindow == ASSUME Init PROVE WindowInv
BY BoundAssumption DEF Init, WindowInv, RingIsTail, SetIsRing, Apart

\* What the ring and the set do is a step of the window they stand for.
LEMMA WindowAdds == ASSUME TypeOK, WindowInv, [Next]_vars PROVE [W!Next]_added
<1>1. CASE UNCHANGED dedup
  BY <1>1 DEF dedup
<1>2. ASSUME NEW id \in Ids \ seen, Add(id) PROVE W!Next
  <2>1. id \in Ids /\ id \notin W!Recent /\ added' = Append(added, id)
    BY <1>2, SeenIsRecent DEF Add
  <2> QED BY <2>1 DEF W!Next, W!Accept
<1> QED BY <1>1, <1>2, StepKinds

-----------------------------------------------------------------------------
\* What a handler works on, and what was run, keeps a place of its own.
LEMMA PlaceStep == ASSUME TypeOK, TypeOK', PlaceInv, [Next]_vars PROVE PlaceInv'
<1>1. ASSUME NEW h \in Handlers, NEW c \in Copies, Receive(h, c) PROVE PlaceInv'
  <2>1. \A g \in Handlers : Working(g)' => g # h /\ Working(g) /\ place'[g] = place[g] /\ copy'[g] = copy[g]
    BY <1>1 DEF Receive, TypeOK, Working
  <2>2. UNCHANGED <<added, runs>>
    BY <1>1 DEF Receive, dedup
  <2> QED BY <2>1, <2>2 DEF PlaceInv, HandlerPlaces, RunPlaces, Deduplicated
<1>2. ASSUME NEW h \in Handlers, pc[h] = "deduplicating", copy[h].id \in Ids \ seen,
             Add(copy[h].id), place' = [place EXCEPT ![h] = Len(added) + 1],
             pc' = [pc EXCEPT ![h] = "verifying"], UNCHANGED <<copy, runs>>
      PROVE PlaceInv'
  <2> DEFINE n == Len(added)
  <2>1. /\ n \in Nat /\ Len(added') = n + 1 /\ added'[n + 1] = copy[h].id
        /\ \A k \in 1..n : added'[k] = added[k]
    BY <1>2 DEF Add, TypeOK
  <2>2. ~Working(h) /\ place'[h] = n + 1 /\ Working(h)'
    BY <1>2, IdAssumption DEF Working, TypeOK
  <2>3. \A g \in Handlers : g # h => (Working(g)' <=> Working(g)) /\ place'[g] = place[g]
    BY <1>2 DEF Working, TypeOK
  <2>4. \A g \in Handlers : (g # h /\ Working(g)) => place[g] \in 1..n /\ place[g] # n + 1
    BY <2>1 DEF PlaceInv, HandlerPlaces
  <2>5. \A i \in 1..Len(runs) : Deduplicated(i) => runs[i].place \in 1..n /\ runs[i].place # n + 1
    BY <2>1 DEF PlaceInv, RunPlaces
  <2>6. HandlerPlaces'
    <3>1. \A g \in Handlers : Working(g)' => place'[g] \in 1..(n + 1) /\ added'[place'[g]] = copy'[g].id
      BY <1>2, <2>1, <2>2, <2>3, <2>4 DEF PlaceInv, HandlerPlaces
    <3>2. \A g, f \in Handlers : (g # f /\ Working(g)' /\ Working(f)') => place'[g] # place'[f]
      BY <2>2, <2>3, <2>4 DEF PlaceInv, HandlerPlaces
    <3> QED BY <3>1, <3>2, <2>1 DEF HandlerPlaces
  <2>7. RunPlaces'
    <3>1. \A i \in 1..Len(runs) :
             Deduplicated(i) => runs[i].place \in 1..(n + 1) /\ added'[runs[i].place] = runs[i].id
      BY <2>1, <2>5 DEF PlaceInv, RunPlaces
    <3>2. \A i \in 1..Len(runs), g \in Handlers :
             (Deduplicated(i) /\ Working(g)') => runs[i].place # place'[g]
      BY <2>2, <2>3, <2>5 DEF PlaceInv, RunPlaces
    <3> QED BY <1>2, <2>1, <3>1, <3>2 DEF PlaceInv, RunPlaces, Deduplicated
  <2> QED BY <2>6, <2>7 DEF PlaceInv
<1>3. ASSUME NEW h \in Handlers, Deduplicate(h) PROVE PlaceInv'
  <2>1. CASE copy[h].id \in seen \/ copy[h].id = NoId
    <3>1. \A g \in Handlers : Working(g)' => Working(g) /\ place'[g] = place[g] /\ copy'[g] = copy[g]
      BY <1>3, <2>1, IdAssumption DEF Deduplicate, Done, Working, TypeOK
    <3>2. UNCHANGED <<added, runs>>
      BY <1>3, <2>1, IdAssumption DEF Deduplicate, dedup, TypeOK
    <3> QED BY <3>1, <3>2 DEF PlaceInv, HandlerPlaces, RunPlaces, Deduplicated
  <2>2. CASE copy[h].id \in Ids \ seen
    BY <1>2, <1>3, <2>2, IdAssumption DEF Deduplicate
  <2> QED BY <2>1, <2>2 DEF TypeOK, Copies
<1>4. ASSUME NEW h \in Handlers, Check(h) PROVE PlaceInv'
  <2>1. \A g \in Handlers : Working(g)' => Working(g) /\ place'[g] = place[g] /\ copy'[g] = copy[g]
    BY <1>4 DEF Check, Done, Working, TypeOK
  <2>2. UNCHANGED <<added, runs>>
    BY <1>4 DEF Check, dedup
  <2> QED BY <2>1, <2>2 DEF PlaceInv, HandlerPlaces, RunPlaces, Deduplicated
<1>5. ASSUME NEW h \in Handlers, Emit(h) PROVE PlaceInv'
  <2> DEFINE m == Len(runs)
  <2>1. /\ m \in Nat /\ Len(runs') = m + 1 /\ \A i \in 1..m : runs'[i] = runs[i]
        /\ runs'[m + 1].id = copy[h].id /\ runs'[m + 1].place = place[h]
    BY <1>5 DEF Emit, TypeOK
  <2>2. /\ \A g \in Handlers : Working(g)' => g # h /\ Working(g)
        /\ UNCHANGED <<added, place, copy>>
    BY <1>5 DEF Emit, Done, Working, TypeOK, dedup, arrivals
  <2>3. runs'[m + 1].id # NoId => Working(h)
    BY <1>5, <2>1 DEF Emit, Working, Deduplicated
  <2>4. \A i \in 1..m : runs'[i].id # NoId <=> Deduplicated(i)
    BY <2>1 DEF Deduplicated
  <2>5. \A i \in 1..(m + 1) : i = m + 1 \/ i \in 1..m
    BY <2>1
  <2>6. HandlerPlaces'
    BY <2>2 DEF PlaceInv, HandlerPlaces
  <2>7. \A i \in 1..(m + 1) :
           runs'[i].id # NoId => runs'[i].place \in 1..Len(added) /\ added[runs'[i].place] = runs'[i].id
    BY <2>1, <2>3, <2>4, <2>5 DEF PlaceInv, HandlerPlaces, RunPlaces
  <2>8. \A i, j \in 1..(m + 1) :
           (i # j /\ runs'[i].id # NoId /\ runs'[j].id # NoId) => runs'[i].place # runs'[j].place
    BY <2>1, <2>3, <2>4, <2>5 DEF PlaceInv, RunPlaces
  <2>9. \A i \in 1..(m + 1), g \in Handlers :
           (runs'[i].id # NoId /\ Working(g)') => runs'[i].place # place[g]
    BY <2>1, <2>2, <2>3, <2>4, <2>5 DEF PlaceInv, HandlerPlaces, RunPlaces
  <2> QED BY <2>1, <2>2, <2>6, <2>7, <2>8, <2>9 DEF PlaceInv, RunPlaces, Deduplicated
<1>6. CASE UNCHANGED vars
  BY <1>6 DEF PlaceInv, HandlerPlaces, RunPlaces, Deduplicated, Working, vars, dedup, handlers
<1> QED BY <1>1, <1>3, <1>4, <1>5, <1>6 DEF Next

LEMMA InitPlace == ASSUME Init PROVE PlaceInv
BY DEF Init, PlaceInv, HandlerPlaces, RunPlaces, Working

LEMMA PlacesApart == ASSUME TypeOK, WindowInv, PlaceInv PROVE RunsOnce
<1> SUFFICES ASSUME NEW i \in DOMAIN runs, NEW j \in DOMAIN runs,
                    i # j, runs[i].id = runs[j].id, runs[i].id # NoId
             PROVE  \/ runs[i].place - runs[j].place > Max
                    \/ runs[j].place - runs[i].place > Max
  BY DEF RunsOnce
<1>0. i \in 1..Len(runs) /\ j \in 1..Len(runs)
  BY DEF TypeOK
<1> DEFINE x == runs[i].place
           y == runs[j].place
<1>1. x \in 1..Len(added) /\ y \in 1..Len(added) /\ x # y /\ added[x] = added[y]
  BY <1>0 DEF PlaceInv, RunPlaces, Deduplicated
<1>2. Len(added) \in Nat
  BY DEF TypeOK
<1>3. x < y \/ y < x
  BY <1>1, <1>2
<1> QED BY <1>1, <1>3 DEF WindowInv, Apart

-----------------------------------------------------------------------------
\* What is remembered and was never spoiled has run or is about to, as has what
\* a POST was answered for; and only a spoiled copy is not good.
GoodUnlessSpoiled == \A h \in Handlers : pc[h] # "idle" => copy[h].good \/ copy[h].id \in spoiled
SeenRun == \A id \in seen \ spoiled : Running(id)
KeptInv == GoodUnlessSpoiled /\ SeenRun /\ DirectRunsUnlessSpoiled

\* Who runs, or is about to, keeps at it.
LEMMA RunningStays ==
    ASSUME TypeOK, [Next]_vars, NEW id \in Ids, Running(id)
    PROVE  Running(id)'
<1>1. ASSUME NEW h \in Handlers, Emit(h) PROVE Running(id)'
  <2>1. /\ \A i \in DOMAIN runs : i \in DOMAIN runs' /\ runs'[i] = runs[i]
        /\ Len(runs) + 1 \in DOMAIN runs' /\ runs'[Len(runs) + 1].id = copy[h].id
    BY <1>1 DEF Emit, TypeOK
  <2>2. CASE \E i \in DOMAIN runs : runs[i].id = id
    BY <2>1, <2>2 DEF Running
  <2>3. CASE copy[h].id = id
    BY <2>1, <2>3 DEF Running
  <2>4. ASSUME NEW g \in Handlers, g # h, copy[g].id = id, copy[g].good,
               pc[g] \in {"verifying", "emitting"}
        PROVE  Running(id)'
    <3>1. copy' = copy /\ pc'[g] = pc[g]
      BY <1>1, <2>4 DEF Emit, Done, TypeOK
    <3> QED BY <2>4, <3>1 DEF Running
  <2> QED BY <2>2, <2>3, <2>4 DEF Running
<1>2. ASSUME UNCHANGED runs,
             \A g \in Handlers :
                copy[g].good /\ pc[g] \in {"verifying", "emitting"}
                   => copy'[g] = copy[g] /\ pc'[g] \in {"verifying", "emitting"}
      PROVE  Running(id)'
  BY <1>2 DEF Running
<1>3. ASSUME NEW h \in Handlers, NEW c \in Copies, Receive(h, c) PROVE Running(id)'
  BY <1>2, <1>3 DEF Receive, TypeOK
<1>4. ASSUME NEW h \in Handlers, Deduplicate(h) PROVE Running(id)'
  BY <1>2, <1>4 DEF Deduplicate, Done, TypeOK
<1>5. ASSUME NEW h \in Handlers, Check(h) PROVE Running(id)'
  BY <1>2, <1>5 DEF Check, Done, TypeOK
<1>6. CASE UNCHANGED vars
  BY <1>2, <1>6 DEF vars, handlers
<1> QED BY <1>1, <1>3, <1>4, <1>5, <1>6 DEF Next

\* A step that answers no POST and lets nothing new through keeps the rest.
LEMMA KeptStays ==
    ASSUME TypeOK, [Next]_vars, SeenRun, DirectRunsUnlessSpoiled, spoiled \subseteq spoiled',
           NEW id \in Ids \ spoiled', id \in seen \/ id \in direct
    PROVE  Running(id)'
BY RunningStays DEF SeenRun, DirectRunsUnlessSpoiled

\* KeptInv is kept by every step (smee.go, deliver; http.go, webhookHandler).
LEMMA KeptStep == ASSUME TypeOK, TypeOK', KeptInv, [Next]_vars PROVE KeptInv'
<1> USE DEF KeptInv
<1>1. ASSUME NEW h \in Handlers, NEW c \in Copies, Receive(h, c) PROVE KeptInv'
  <2>1. GoodUnlessSpoiled'
    BY <1>1 DEF Receive, GoodUnlessSpoiled, TypeOK
  <2>2. spoiled \subseteq spoiled' /\ seen' = seen /\ direct' = direct
    BY <1>1 DEF Receive, dedup
  <2> QED BY <2>1, <2>2, KeptStays DEF SeenRun, DirectRunsUnlessSpoiled, TypeOK
<1>2. ASSUME NEW h \in Handlers, Deduplicate(h) PROVE KeptInv'
  <2>1. GoodUnlessSpoiled' /\ spoiled' = spoiled
    BY <1>2 DEF Deduplicate, Done, GoodUnlessSpoiled, arrivals, TypeOK
  <2>2. CASE copy[h].id \in seen /\ Done(h) /\ UNCHANGED <<dedup, place>>
    <3>1. seen' = seen /\ direct' \subseteq direct \cup seen
      BY <2>2 DEF Done, dedup
    <3> QED BY <2>1, <3>1, KeptStays DEF SeenRun, DirectRunsUnlessSpoiled, TypeOK
  <2>3. CASE /\ copy[h].id \in Ids \ seen
             /\ Add(copy[h].id)
             /\ pc' = [pc EXCEPT ![h] = "verifying"] /\ UNCHANGED direct
    <3>1. seen' \subseteq seen \cup {copy[h].id}
      BY <2>3 DEF Add
    <3>2. \A id \in Ids \ spoiled' : id = copy[h].id => Running(id)'
      BY <1>2, <2>1, <2>3 DEF Deduplicate, GoodUnlessSpoiled, Running, TypeOK
    <3> QED BY <2>1, <2>3, <3>1, <3>2, KeptStays DEF SeenRun, DirectRunsUnlessSpoiled, TypeOK
  <2>4. CASE UNCHANGED <<dedup, direct>>
    BY <2>1, <2>4, KeptStays DEF dedup, SeenRun, DirectRunsUnlessSpoiled, TypeOK
  <2> QED BY <1>2, <2>2, <2>3, <2>4 DEF Deduplicate
<1>3. ASSUME NEW h \in Handlers, Check(h) PROVE KeptInv'
  <2>1. GoodUnlessSpoiled' /\ spoiled' = spoiled /\ seen' = seen
    BY <1>3 DEF Check, Done, GoodUnlessSpoiled, arrivals, dedup, TypeOK
  <2>2. direct' \subseteq direct \cup spoiled
    BY <1>3 DEF Check, Done, GoodUnlessSpoiled
  <2> QED BY <2>1, <2>2, KeptStays DEF SeenRun, DirectRunsUnlessSpoiled, TypeOK
<1>4. ASSUME NEW h \in Handlers, Emit(h) PROVE KeptInv'
  <2>1. GoodUnlessSpoiled' /\ spoiled' = spoiled /\ seen' = seen
    BY <1>4 DEF Emit, Done, GoodUnlessSpoiled, arrivals, dedup, TypeOK
  <2>2. direct' \subseteq direct \cup {copy[h].id}
    BY <1>4 DEF Emit, Done
  <2>3. \A id \in Ids : id = copy[h].id => Running(id)'
    <3>1. Len(runs) + 1 \in DOMAIN runs' /\ runs'[Len(runs) + 1].id = copy[h].id
      BY <1>4 DEF Emit, TypeOK
    <3>2. copy' = copy
      BY <1>4 DEF Emit
    <3> QED BY <3>1, <3>2 DEF Running
  <2> QED BY <2>1, <2>2, <2>3, KeptStays DEF SeenRun, DirectRunsUnlessSpoiled, TypeOK
<1>5. CASE UNCHANGED vars
  <2>1. GoodUnlessSpoiled' /\ spoiled' = spoiled /\ seen' = seen /\ direct' = direct
    BY <1>5 DEF vars, handlers, arrivals, dedup, GoodUnlessSpoiled
  <2> QED BY <2>1, KeptStays DEF SeenRun, DirectRunsUnlessSpoiled, TypeOK
<1> QED BY <1>1, <1>2, <1>3, <1>4, <1>5 DEF Next

LEMMA InitKept == ASSUME Init PROVE KeptInv
BY InitType DEF Init, TypeOK, KeptInv, GoodUnlessSpoiled, SeenRun, DirectRunsUnlessSpoiled

-----------------------------------------------------------------------------
(* Webhooks. *)

Known == {"subject", "status", "moment", "second"}
RuleSound(r) == /\ r.whole \subseteq Known /\ ("moment" \in r.whole \/ "subject" \in r.whole)
                /\ r.partial \subseteq Known \/ r.partial \in {H!Ignored, H!Unkeyed}
AllRules == UNION {H!Rules[c] : c \in H!Connectors}

LEMMA RulesSound == \A r \in AllRules : RuleSound(r)
<1> USE DEF RuleSound, H!Keyed, H!Always, H!Thing, H!Change, H!Moment, H!Nothing, H!Ignored, H!Unkeyed, Known
<1>1. \A r \in H!Rules.alertmanager \cup H!Rules.aws_sns \cup H!Rules.datadog \cup H!Rules.gitea : RuleSound(r)
  BY DEF H!Rules, H!Alertmanager, H!AwsSns, H!Datadog, H!GiteaPush, H!GiteaPullRequest, H!GiteaIssues, H!GiteaComment
<1>2. \A r \in H!Rules.gitlab \cup H!Rules.healthchecks \cup H!Rules.homeassistant \cup H!Rules.ifttt : RuleSound(r)
  BY DEF H!Rules, H!GitlabPush, H!GitlabMergeRequest, H!GitlabPipeline, H!GitlabIssue, H!GitlabNote,
     H!Healthchecks, H!HomeAssistant, H!Ifttt
<1>3. \A r \in H!Rules.jira \cup H!Rules.linear \cup H!Rules.lidarr \cup H!Rules.pagerduty \cup H!Rules.plex : RuleSound(r)
  BY DEF H!Rules, H!JiraIssue, H!JiraComment, H!LinearIssue, H!LinearComment, H!LinearProject, H!Lidarr, H!PagerDuty, H!Plex
<1>4. \A r \in H!Rules.prowlarr \cup H!Rules.radarr \cup H!Rules.sentry \cup H!Rules.sonarr \cup H!Rules.tautulli : RuleSound(r)
  BY DEF H!Rules, H!Prowlarr, H!Radarr, H!Sentry, H!Sonarr, H!Tautulli
<1>5. \A r \in H!Rules.telegram \cup H!Rules.twilio \cup H!Rules.uptimekuma \cup H!Rules.uptimerobot
              \cup H!Rules.wiz \cup H!Rules.zapier : RuleSound(r)
  BY DEF H!Rules, H!Telegram, H!TwilioSms, H!TwilioCall, H!UptimeKuma, H!UptimeRobot, H!Wiz, H!Zapier
<1>6. H!Connectors = {"alertmanager", "aws_sns", "datadog", "gitea", "gitlab", "healthchecks", "homeassistant",
        "ifttt", "jira", "linear", "lidarr", "pagerduty", "plex", "prowlarr", "radarr", "sentry", "sonarr",
        "tautulli", "telegram", "twilio", "uptimekuma", "uptimerobot", "wiz", "zapier"}
  BY DEF H!Connectors, H!Rules
<1> HIDE DEF RuleSound
<1> QED BY <1>1, <1>2, <1>3, <1>4, <1>5, <1>6 DEF AllRules

Keys == UNION {[P -> Nat] : P \in SUBSET Known}

\* An occurrence whose key neither ages nor is missing.
Lasting(i) == H!Parts(i) \cap (H!Unkeyed \cup {"second"}) = {}
\* Its key was let through, and again after Max others.
LetOnce(i)  == \E a \in DOMAIN accepted : accepted[a] = H!KeyOf(i)
LetTwice(i) == \E a, b \in DOMAIN accepted :
                  accepted[a] = H!KeyOf(i) /\ accepted[b] = H!KeyOf(i) /\ b - a > HookMax

HookSeqs  == sent \in Seq(H!Occurrences) /\ accepted \in Seq(Keys)
Counted   == \A i \in H!Sent : held[i] + emitted[i] <= copies[i] /\ (i \notin DOMAIN sent => copies[i] = 0)
Placed    == \A i \in DOMAIN sent : Lasting(i) =>
                /\ held[i] + emitted[i] > 0 => LetOnce(i)
                /\ held[i] + emitted[i] > 1 => LetTwice(i)
Happened  == told \subseteq DOMAIN sent /\ dropped \subseteq DOMAIN sent
\* A remembered key is that of something that was told.
KeyIs(key, j) == /\ DOMAIN key = H!Parts(j)
                 /\ \A part \in H!Parts(j) \ {"second"} : key[part] = H!PartOf(j, part)
Origins   == \A a \in DOMAIN accepted : \E j \in told : KeyIs(accepted[a], j)
HookInv   == H!TypeOK /\ HookSeqs /\ Counted /\ Placed /\ Happened /\ Origins /\ H!DropsAreLikeTold

LEMMA KeyType ==
    ASSUME H!TypeOK, HookSeqs, NEW i \in DOMAIN sent, H!Parts(i) # H!Ignored, H!Parts(i) # H!Unkeyed
    PROVE  /\ i \in Nat /\ H!Parts(i) \subseteq Known
           /\ \A part \in Known : H!PartOf(i, part) \in Nat
           /\ H!KeyOf(i) \in Keys
<1>1. RuleSound(rule)
  BY RulesSound DEF H!TypeOK, AllRules
<1>2. H!Parts(i) \subseteq Known
  BY <1>1 DEF H!Parts, RuleSound
<1>3. i \in Nat /\ sent[i] \in H!Occurrences /\ second \in Nat
  BY HookBounds DEF HookSeqs, H!TypeOK
<1>4. \A part \in Known : H!PartOf(i, part) \in Nat
  BY <1>3 DEF Known, H!PartOf, H!Occurrences
<1>5. H!KeyOf(i) \in [H!Parts(i) -> Nat]
  BY <1>2, <1>4 DEF H!KeyOf
<1> QED BY <1>2, <1>3, <1>4, <1>5 DEF Keys

LEMMA KeyStays ==
    ASSUME HookSeqs, rule' = rule,
           sent' = sent \/ \E o \in H!Occurrences : sent' = Append(sent, o),
           NEW i \in DOMAIN sent
    PROVE  /\ i \in DOMAIN sent' /\ sent'[i] = sent[i] /\ H!Parts(i)' = H!Parts(i)
           /\ \A part : part # "second" => H!PartOf(i, part)' = H!PartOf(i, part)
           /\ Lasting(i)' <=> Lasting(i)
           /\ Lasting(i) \/ second' = second => H!KeyOf(i)' = H!KeyOf(i)
<1>1. i \in DOMAIN sent' /\ sent'[i] = sent[i]
  BY DEF HookSeqs
<1>2. H!Parts(i)' = H!Parts(i)
  BY <1>1 DEF H!Parts
<1>3. \A part : part # "second" => H!PartOf(i, part)' = H!PartOf(i, part)
  BY <1>1 DEF H!PartOf
<1>4. Lasting(i)' <=> Lasting(i)
  BY <1>2 DEF Lasting
<1>5. ASSUME Lasting(i) \/ second' = second PROVE H!KeyOf(i)' = H!KeyOf(i)
  <2>1. \A part \in H!Parts(i) : H!PartOf(i, part)' = H!PartOf(i, part)
    BY <1>3, <1>5, <1>1 DEF Lasting, H!PartOf
  <2> QED BY <2>1, <1>2 DEF H!KeyOf
<1> QED BY <1>1, <1>2, <1>3, <1>4, <1>5

LEMMA AlikeStays ==
    ASSUME HookSeqs, rule' = rule,
           sent' = sent \/ \E o \in H!Occurrences : sent' = Append(sent, o),
           NEW i \in DOMAIN sent, NEW j \in DOMAIN sent
    PROVE  H!Alike(i, j)' <=> H!Alike(i, j)
BY KeyStays DEF H!Alike

LEMMA KeyIsStays ==
    ASSUME HookSeqs, rule' = rule,
           sent' = sent \/ \E o \in H!Occurrences : sent' = Append(sent, o),
           NEW j \in DOMAIN sent, NEW key, KeyIs(key, j)
    PROVE  KeyIs(key, j)'
BY KeyStays DEF KeyIs

\* Keys that are let through stay let through.
LEMMA LetStays ==
    ASSUME HookSeqs, rule' = rule,
           sent' = sent \/ \E o \in H!Occurrences : sent' = Append(sent, o),
           accepted' = accepted \/ \E key \in Keys : accepted' = Append(accepted, key),
           NEW i \in DOMAIN sent, Lasting(i)
    PROVE  (LetOnce(i) => LetOnce(i)') /\ (LetTwice(i) => LetTwice(i)')
<1>1. H!KeyOf(i)' = H!KeyOf(i)
  BY KeyStays
<1>2. \A a \in DOMAIN accepted : a \in DOMAIN accepted' /\ accepted'[a] = accepted[a]
  BY DEF HookSeqs
<1> QED BY <1>1, <1>2 DEF LetOnce, LetTwice

\* What is dropped as seen before is like something that was told.
LEMMA DropIsLikeTold ==
    ASSUME HookInv, NEW i \in DOMAIN sent, H!Parts(i) # H!Ignored, H!Parts(i) # H!Unkeyed,
           H!KeyOf(i) \in H!W!Recent, sent[i].whole
    PROVE  \E j \in told : H!Alike(i, j)
<1>1. PICK a \in DOMAIN accepted : accepted[a] = H!KeyOf(i)
  BY DEF H!W!Recent
<1>2. PICK j \in told : KeyIs(accepted[a], j)
  BY DEF HookInv, Origins
<1>3. j \in DOMAIN sent
  BY DEF HookInv, Happened
<1>4. H!Parts(j) = H!Parts(i)
  BY <1>1, <1>2 DEF KeyIs, H!KeyOf
<1>5. \A part \in H!Parts(i) \ {"second"} : H!PartOf(j, part) = H!PartOf(i, part)
  BY <1>1, <1>2, <1>4 DEF KeyIs, H!KeyOf
<1>6. "moment" \in H!Parts(i) \/ "subject" \in H!Parts(i)
  BY RulesSound DEF HookInv, H!TypeOK, AllRules, RuleSound, H!Parts
<1>7. CASE "moment" \in H!Parts(i)
  BY <1>5, <1>7 DEF H!PartOf, H!Alike
<1>8. CASE "moment" \notin H!Parts(i)
  <2>1. sent[i].subject = sent[j].subject
    BY <1>5, <1>6, <1>8 DEF H!PartOf
  <2>2. "status" \in H!Parts(i) => sent[i].status = sent[j].status
    BY <1>5 DEF H!PartOf
  <2> QED BY <1>8, <2>1, <2>2 DEF H!Alike
<1> QED BY <1>7, <1>8

LEMMA HookInitInv == H!Init => HookInv
<1> SUFFICES ASSUME H!Init PROVE HookInv
  OBVIOUS
<1> USE HookBounds
<1>1. H!TypeOK
  BY DEF H!Init, H!TypeOK, H!Sent
<1>2. HookSeqs /\ Counted
  BY DEF H!Init, HookSeqs, Counted, H!Sent
<1>3. Placed /\ Happened /\ Origins /\ H!DropsAreLikeTold
  BY DEF H!Init, Placed, Happened, Origins, H!DropsAreLikeTold
<1> QED BY <1>1, <1>2, <1>3 DEF HookInv

\* What holds of an occurrence that something like it was told, when only more are told.
LEMMA ToldGrows ==
    ASSUME HookInv, rule' = rule, accepted' = accepted,
           sent' = sent \/ \E o \in H!Occurrences : sent' = Append(sent, o),
           told \subseteq told', told' \subseteq DOMAIN sent, dropped' = dropped
    PROVE  Happened' /\ Origins' /\ H!DropsAreLikeTold'
<1>1. \A i \in DOMAIN sent : i \in DOMAIN sent' /\ sent'[i] = sent[i]
  BY KeyStays DEF HookInv
<1>2. Happened'
  BY <1>1 DEF HookInv, Happened
<1>3. Origins'
  <2> SUFFICES ASSUME NEW a \in DOMAIN accepted PROVE \E j \in told' : KeyIs(accepted[a], j)'
    BY DEF Origins
  <2>1. PICK j \in told : KeyIs(accepted[a], j)
    BY DEF HookInv, Origins
  <2>2. j \in DOMAIN sent
    BY DEF HookInv, Happened
  <2>3. KeyIs(accepted[a], j)'
    BY <2>1, <2>2, KeyIsStays DEF HookInv
  <2> QED BY <2>3
<1>4. H!DropsAreLikeTold'
  <2> SUFFICES ASSUME NEW i \in dropped, sent'[i].whole PROVE \E j \in told' : H!Alike(i, j)'
    BY DEF H!DropsAreLikeTold
  <2>1. i \in DOMAIN sent
    BY DEF HookInv, Happened
  <2>2. PICK j \in told : H!Alike(i, j)
    BY <1>1, <2>1 DEF HookInv, H!DropsAreLikeTold
  <2>3. j \in DOMAIN sent
    BY DEF HookInv, Happened
  <2>4. H!Alike(i, j)'
    BY <2>1, <2>2, <2>3, AlikeStays DEF HookInv
  <2> QED BY <2>4
<1> QED BY <1>2, <1>3, <1>4

LEMMA HappenInv == ASSUME HookInv, NEW o \in H!Occurrences, H!Happen(o) PROVE HookInv'
<1> USE HookBounds
<1>0. sent \in Seq(H!Occurrences) /\ Len(sent) < MaxSent /\ sent' = Append(sent, o)
  BY DEF HookInv, HookSeqs, H!Happen
<1>1. H!TypeOK'
  BY <1>0 DEF HookInv, H!TypeOK, H!Happen
<1>2. HookSeqs'
  BY <1>0 DEF HookInv, HookSeqs, H!Happen
<1>3. \A i \in DOMAIN sent : i \in DOMAIN sent'
  BY <1>0
<1>4. Counted'
  BY <1>3 DEF HookInv, Counted, H!Happen
<1>5. Placed'
  <2> SUFFICES ASSUME NEW i \in DOMAIN sent', Lasting(i)'
               PROVE  /\ held[i] + emitted[i] > 0 => LetOnce(i)'
                      /\ held[i] + emitted[i] > 1 => LetTwice(i)'
    BY DEF Placed, H!Happen
  <2>1. CASE i \in DOMAIN sent
    BY <2>1, KeyStays, LetStays DEF HookInv, Placed, H!Happen
  <2>2. CASE i \notin DOMAIN sent
    <3>1. i \in H!Sent
      BY <1>0 DEF H!Sent
    <3>2. held[i] + emitted[i] <= 0
      BY <2>2, <3>1 DEF HookInv, Counted
    <3> QED BY <3>1, <3>2 DEF HookInv, H!TypeOK
  <2> QED BY <2>1, <2>2
<1>6. Happened' /\ Origins' /\ H!DropsAreLikeTold'
  BY ToldGrows DEF HookInv, Happened, H!Happen
<1> QED BY <1>1, <1>2, <1>4, <1>5, <1>6 DEF HookInv

LEMMA DeduplicateInv ==
    ASSUME HookInv, NEW i \in H!Sent, NEW good \in BOOLEAN, H!Receive(i, good),
           H!Parts(i) # H!Ignored, H!Parts(i) # H!Unkeyed, H!Deduplicate(i)
    PROVE  HookInv'
<1> USE HookBounds
<1>0. /\ i \in DOMAIN sent /\ copies' = [copies EXCEPT ![i] = @ + 1] /\ copies[i] < MaxCopies
      /\ UNCHANGED <<rule, sent, second, emitted, boots>>
  BY DEF H!Receive
<1>1. H!KeyOf(i) \in Keys /\ i \in Nat
  BY <1>0, KeyType DEF HookInv
<1>2. \A j \in DOMAIN sent : j \in H!Sent
  BY DEF HookInv, H!TypeOK, HookSeqs, H!Sent
<1>3. ASSUME H!W!Accept(H!KeyOf(i)), H!Let(i) PROVE HookInv'
  <2>1. /\ accepted' = Append(accepted, H!KeyOf(i)) /\ H!KeyOf(i) \notin H!W!Recent
        /\ held' = [held EXCEPT ![i] = @ + 1] /\ told' = told \cup {i} /\ dropped' = dropped
    BY <1>3 DEF H!W!Accept, H!Let
  <2>2. accepted \in Seq(Keys) /\ accepted' \in Seq(Keys) /\ sent \in Seq(H!Occurrences)
    BY <2>1, <1>1 DEF HookInv, HookSeqs
  <2>3. held[i] + 1 <= copies[i] + 1 /\ held[i] + 1 \in 0..MaxCopies /\ copies[i] + 1 \in 0..MaxCopies
    BY <1>0 DEF HookInv, H!TypeOK, Counted
  <2>4. H!TypeOK'
    BY <1>0, <2>1, <2>3 DEF HookInv, H!TypeOK
  <2>5. HookSeqs' /\ Happened'
    BY <1>0, <2>1, <2>2 DEF HookInv, HookSeqs, Happened
  <2>6. Counted'
    BY <1>0, <2>1 DEF HookInv, Counted, H!TypeOK
  <2>7. Placed'
    <3> SUFFICES ASSUME NEW j \in DOMAIN sent, Lasting(j)'
                 PROVE  /\ held'[j] + emitted[j] > 0 => LetOnce(j)'
                        /\ held'[j] + emitted[j] > 1 => LetTwice(j)'
      BY <1>0 DEF Placed
    <3>1. /\ Lasting(j) /\ H!KeyOf(j)' = H!KeyOf(j)
          /\ (LetOnce(j) => LetOnce(j)') /\ (LetTwice(j) => LetTwice(j)')
      BY <1>0, <1>1, <2>1, KeyStays, LetStays DEF HookInv
    <3>2. CASE j # i
      BY <3>1, <3>2, <2>1 DEF HookInv, Placed
    <3>3. CASE j = i
      <4>1. Len(accepted) + 1 \in DOMAIN accepted' /\ accepted'[Len(accepted) + 1] = H!KeyOf(i)
        BY <2>1, <2>2, <1>1
      <4>2. LetOnce(i)'
        BY <4>1, <3>1, <3>3 DEF LetOnce
      <4>3. ASSUME held[i] + emitted[i] > 0 PROVE LetTwice(i)'
        <5>1. PICK a \in DOMAIN accepted : accepted[a] = H!KeyOf(i)
          BY <4>3, <3>1, <3>3 DEF HookInv, Placed, LetOnce
        <5>2. ~(a > Len(accepted) - HookMax)
          BY <5>1, <2>1 DEF H!W!Recent
        <5>3. a \in DOMAIN accepted' /\ accepted'[a] = H!KeyOf(i) /\ (Len(accepted) + 1) - a > HookMax
          BY <5>1, <5>2, <2>1, <2>2
        <5> QED BY <5>3, <4>1, <3>1, <3>3 DEF LetTwice
      <4>4. held'[i] + emitted[i] > 1 => held[i] + emitted[i] > 0
        BY <2>1 DEF HookInv, H!TypeOK
      <4> QED BY <4>2, <4>3, <4>4, <3>3
    <3> QED BY <3>2, <3>3
  <2>8. Origins'
    <3> SUFFICES ASSUME NEW a \in DOMAIN accepted' PROVE (\E j \in told : KeyIs(accepted[a], j))'
      BY DEF Origins
    <3>0. PICK key : key = accepted'[a]
      OBVIOUS
    <3>1. CASE a \in DOMAIN accepted
      <4>1. key = accepted[a]
        BY <3>0, <3>1, <2>1, <2>2
      <4>2. PICK j \in told : KeyIs(key, j)
        BY <3>1, <4>1 DEF HookInv, Origins
      <4>3. j \in DOMAIN sent
        BY DEF HookInv, Happened
      <4>4. KeyIs(key, j)'
        BY <1>0, <4>2, <4>3, KeyIsStays DEF HookInv
      <4> QED BY <3>0, <4>4, <2>1 DEF KeyIs
    <3>2. CASE a \notin DOMAIN accepted
      <4>1. key = H!KeyOf(i)
        BY <3>0, <3>2, <2>1, <2>2
      <4>2. KeyIs(key, i)
        BY <4>1 DEF KeyIs, H!KeyOf
      <4>3. KeyIs(key, i)'
        BY <1>0, <4>2, KeyIsStays DEF HookInv
      <4> QED BY <3>0, <4>3, <2>1 DEF KeyIs
    <3> QED BY <3>1, <3>2
  <2>9. H!DropsAreLikeTold'
    BY <1>0, <2>1, AlikeStays DEF HookInv, H!DropsAreLikeTold, Happened
  <2> QED BY <2>4, <2>5, <2>6, <2>7, <2>8, <2>9 DEF HookInv
<1>4. ASSUME H!KeyOf(i) \in H!W!Recent, dropped' = dropped \cup {i}, UNCHANGED <<accepted, held, told>>
      PROVE  HookInv'
  <2>1. H!TypeOK' /\ HookSeqs' /\ Happened'
    BY <1>0, <1>4 DEF HookInv, H!TypeOK, HookSeqs, Happened
  <2>2. Counted'
    BY <1>0, <1>4 DEF HookInv, Counted, H!TypeOK
  <2>3. Placed'
    BY <1>0, <1>4, KeyStays, LetStays DEF HookInv, Placed
  <2>4. Origins'
    BY <1>0, <1>4, KeyIsStays DEF HookInv, Origins, Happened
  <2>5. H!DropsAreLikeTold'
    <3> SUFFICES ASSUME NEW k \in dropped', sent[k].whole PROVE \E j \in told : H!Alike(k, j)'
      BY <1>0, <1>4 DEF H!DropsAreLikeTold
    <3>1. k \in DOMAIN sent
      BY <1>0, <1>4 DEF HookInv, Happened
    <3>2. \E j \in told : H!Alike(k, j)
      BY <1>0, <1>4, DropIsLikeTold DEF HookInv, H!DropsAreLikeTold
    <3> QED BY <1>0, <3>1, <3>2, AlikeStays DEF HookInv, Happened
  <2> QED BY <2>1, <2>2, <2>3, <2>4, <2>5 DEF HookInv
<1> QED BY <1>3, <1>4 DEF H!Deduplicate

LEMMA ReceiveInv == ASSUME HookInv, NEW i \in H!Sent, NEW good \in BOOLEAN, H!Receive(i, good) PROVE HookInv'
<1> USE HookBounds
<1>0. /\ i \in DOMAIN sent /\ copies' = [copies EXCEPT ![i] = @ + 1] /\ copies[i] < MaxCopies
      /\ UNCHANGED <<rule, sent, second, emitted, boots>>
  BY DEF H!Receive
<1>1. CASE UNCHANGED <<accepted, held, told, dropped>>
  <2>1. H!TypeOK' /\ HookSeqs'
    BY <1>0, <1>1 DEF HookInv, H!TypeOK, HookSeqs
  <2>2. Counted'
    BY <1>0, <1>1 DEF HookInv, Counted, H!TypeOK
  <2>3. Placed'
    BY <1>0, <1>1, KeyStays, LetStays DEF HookInv, Placed
  <2>4. Happened' /\ Origins' /\ H!DropsAreLikeTold'
    BY <1>0, <1>1, ToldGrows DEF HookInv, Happened
  <2> QED BY <2>1, <2>2, <2>3, <2>4 DEF HookInv
<1>2. CASE H!Parts(i) = H!Unkeyed /\ H!Let(i) /\ UNCHANGED accepted
  <2>1. held' = [held EXCEPT ![i] = @ + 1] /\ told' = told \cup {i} /\ dropped' = dropped
    BY <1>2 DEF H!Let
  <2>2. H!TypeOK' /\ HookSeqs'
    BY <1>0, <1>2, <2>1 DEF HookInv, H!TypeOK, HookSeqs, Counted
  <2>3. Counted'
    BY <1>0, <2>1 DEF HookInv, Counted, H!TypeOK
  <2>4. Placed'
    <3> SUFFICES ASSUME NEW j \in DOMAIN sent, Lasting(j)'
                 PROVE  /\ held'[j] + emitted[j] > 0 => LetOnce(j)'
                        /\ held'[j] + emitted[j] > 1 => LetTwice(j)'
      BY <1>0 DEF Placed
    <3>1. Lasting(j)
      BY <1>0, KeyStays DEF HookInv
    <3>2. j # i
      BY <3>1, <1>2 DEF Lasting, H!Unkeyed
    <3> QED BY <1>0, <1>2, <3>1, <3>2, <2>1, LetStays DEF HookInv, Placed
  <2>5. Happened' /\ Origins' /\ H!DropsAreLikeTold'
    BY <1>0, <1>2, <2>1, ToldGrows DEF HookInv, Happened
  <2> QED BY <2>2, <2>3, <2>4, <2>5 DEF HookInv
<1>3. CASE H!Parts(i) # H!Ignored /\ H!Parts(i) # H!Unkeyed /\ H!Deduplicate(i)
  BY <1>3, DeduplicateInv
<1> QED
  <2>1. CASE ~good \/ H!Parts(i) = H!Ignored
    BY <2>1, <1>1 DEF H!Receive, H!Ignored, H!Unkeyed
  <2>2. CASE good /\ H!Parts(i) = H!Unkeyed
    BY <2>2, <1>2 DEF H!Receive, H!Ignored, H!Unkeyed
  <2>3. CASE good /\ H!Parts(i) # H!Ignored /\ H!Parts(i) # H!Unkeyed
    BY <2>3, <1>3 DEF H!Receive
  <2> QED BY <2>1, <2>2, <2>3

LEMMA EmitInv == ASSUME HookInv, NEW i \in H!Sent, NEW ok \in BOOLEAN, H!Emit(i, ok) PROVE HookInv'
<1> USE HookBounds
<1>0. /\ held[i] > 0 /\ held' = [held EXCEPT ![i] = @ - 1]
      /\ emitted' = emitted \/ emitted' = [emitted EXCEPT ![i] = @ + 1]
      /\ UNCHANGED <<rule, sent, copies, second, accepted, told, dropped, boots>>
  BY DEF H!Emit
<1>1. /\ held \in [H!Sent -> Nat] /\ emitted \in [H!Sent -> Nat] /\ copies \in [H!Sent -> 0..MaxCopies]
      /\ held[i] + emitted[i] <= MaxCopies
  BY DEF HookInv, H!TypeOK, Counted
<1>2. \A j \in H!Sent : /\ held'[j] \in 0..MaxCopies /\ emitted'[j] \in 0..MaxCopies
                      /\ held'[j] + emitted'[j] <= held[j] + emitted[j]
  <2> SUFFICES ASSUME NEW j \in H!Sent
               PROVE  /\ held'[j] \in 0..MaxCopies /\ emitted'[j] \in 0..MaxCopies
                      /\ held'[j] + emitted'[j] <= held[j] + emitted[j]
    OBVIOUS
  <2>1. held[j] \in 0..MaxCopies /\ emitted[j] \in 0..MaxCopies
    BY DEF HookInv, H!TypeOK
  <2>2. CASE j = i
    <3>1. held'[i] = held[i] - 1 /\ emitted'[i] \in {emitted[i], emitted[i] + 1}
      BY <1>0, <1>1
    <3> QED BY <2>1, <2>2, <3>1, <1>0, <1>1
  <2>3. CASE j # i
    BY <1>0, <1>1, <2>1, <2>3
  <2> QED BY <2>2, <2>3
<1>3. held' \in [H!Sent -> 0..MaxCopies] /\ emitted' \in [H!Sent -> 0..MaxCopies]
  BY <1>0, <1>1, <1>2
<1>4. H!TypeOK' /\ HookSeqs'
  BY <1>0, <1>3 DEF HookInv, H!TypeOK, HookSeqs
<1>5. Counted'
  BY <1>0, <1>1, <1>2, <1>3 DEF HookInv, Counted
<1>6. Placed'
  <2> SUFFICES ASSUME NEW j \in DOMAIN sent, Lasting(j)'
               PROVE  /\ held'[j] + emitted'[j] > 0 => LetOnce(j)'
                      /\ held'[j] + emitted'[j] > 1 => LetTwice(j)'
    BY <1>0 DEF Placed
  <2>1. Lasting(j) /\ (LetOnce(j) => LetOnce(j)') /\ (LetTwice(j) => LetTwice(j)')
    BY <1>0, KeyStays, LetStays DEF HookInv
  <2>2. j \in H!Sent
    BY DEF HookInv, H!TypeOK, HookSeqs, H!Sent
  <2>3. /\ held[j] + emitted[j] > 0 => LetOnce(j)
        /\ held[j] + emitted[j] > 1 => LetTwice(j)
    BY <2>1 DEF HookInv, Placed
  <2> QED BY <2>1, <2>2, <2>3, <1>1, <1>2, <1>3
<1>7. Happened' /\ Origins' /\ H!DropsAreLikeTold'
  BY <1>0, ToldGrows DEF HookInv, Happened
<1> QED BY <1>4, <1>5, <1>6, <1>7 DEF HookInv

LEMMA TickInv == ASSUME HookInv, H!Tick PROVE HookInv'
<1> USE HookBounds
<1>1. H!TypeOK' /\ HookSeqs' /\ Counted'
  BY DEF HookInv, H!TypeOK, HookSeqs, Counted, H!Tick
<1>2. Placed'
  BY KeyStays, LetStays DEF HookInv, Placed, H!Tick
<1>3. Happened' /\ Origins' /\ H!DropsAreLikeTold'
  BY ToldGrows DEF HookInv, Happened, H!Tick
<1> QED BY <1>1, <1>2, <1>3 DEF HookInv

LEMMA RestartInv == ASSUME HookInv, H!Restart PROVE HookInv'
<1> USE HookBounds
<1>1. H!TypeOK' /\ HookSeqs' /\ Counted'
  BY DEF HookInv, H!TypeOK, HookSeqs, Counted, H!Restart
<1>2. Placed'
  BY DEF HookInv, Placed, HookSeqs, H!TypeOK, H!Sent, H!Restart
<1>3. Happened' /\ Origins' /\ H!DropsAreLikeTold'
  BY DEF HookInv, Happened, Origins, H!DropsAreLikeTold, H!Restart
<1> QED BY <1>1, <1>2, <1>3 DEF HookInv

LEMMA HookStepInv == ASSUME HookInv, H!Next PROVE HookInv'
BY HappenInv, ReceiveInv, EmitInv, TickInv, RestartInv DEF H!Next

LEMMA HookStutterInv == ASSUME HookInv, UNCHANGED H!vars PROVE HookInv'
<1>1. H!TypeOK' /\ HookSeqs' /\ Counted' /\ Happened'
  BY DEF HookInv, H!TypeOK, HookSeqs, Counted, Happened, H!vars
<1>2. Placed'
  BY KeyStays, LetStays DEF HookInv, Placed, H!vars
<1>3. Happened' /\ Origins' /\ H!DropsAreLikeTold'
  BY ToldGrows DEF HookInv, Happened, H!vars
<1> QED BY <1>1, <1>2, <1>3 DEF HookInv

LEMMA HookInvImplies == HookInv => H!EmittedOnce /\ H!DropsAreLikeTold
<1> SUFFICES ASSUME HookInv PROVE H!EmittedOnce
  BY DEF HookInv
<1> SUFFICES ASSUME NEW i \in DOMAIN sent, emitted[i] > 1, Lasting(i) PROVE LetTwice(i)
  BY DEF H!EmittedOnce, LetTwice, Lasting
<1>1. i \in H!Sent
  BY HookBounds DEF HookInv, H!TypeOK, HookSeqs, H!Sent
<1>2. held[i] + emitted[i] > 1
  BY <1>1, HookBounds DEF HookInv, H!TypeOK
<1> QED BY <1>2 DEF HookInv, Placed

-----------------------------------------------------------------------------
(* The two together: what each keeps, a behaviour of both keeps. *)

LEMMA DeliveriesStep ==
    ASSUME [DeliveriesNext]_all
    PROVE  /\ Next \/ UNCHANGED vars
           /\ H!Next \/ UNCHANGED H!vars
BY DEF DeliveriesNext, all, webhook, H!vars

\* The variables of both keep their types, for every number of ids, handlers, keys and
\* occurrences (smee.go, and each connector's StartSource).
THEOREM DeliveriesTyped == DeliveriesSpec => []AllTyped
<1>1. DeliveriesInit => TypeOK /\ HookInv
  BY InitType, HookInitInv DEF DeliveriesInit
<1>2. TypeOK /\ HookInv /\ [DeliveriesNext]_all => TypeOK' /\ HookInv'
  BY DeliveriesStep, StepType, HookStepInv, HookStutterInv
<1>3. TypeOK /\ HookInv => AllTyped
  BY DEF AllTyped, HookInv
<1> QED BY <1>1, <1>2, <1>3, PTL DEF DeliveriesSpec

LEMMA RingInvHolds == DeliveriesSpec => [](TypeOK /\ WindowInv /\ PlaceInv)
<1>1. DeliveriesInit => TypeOK /\ WindowInv /\ PlaceInv
  BY InitType, InitWindow, InitPlace DEF DeliveriesInit
<1>2. /\ TypeOK /\ WindowInv /\ PlaceInv /\ [DeliveriesNext]_all
      => (TypeOK /\ WindowInv /\ PlaceInv)'
  BY DeliveriesStep, StepType, WindowStep, PlaceStep
<1> QED BY <1>1, <1>2, PTL DEF DeliveriesSpec

\* The ring and the set implement the window they stand for: for every size and
\* every interleaving of the handlers, an id is dropped exactly when it is among
\* the last Max let through (smee.go, deliveryDedup.add).
THEOREM ImplementsWindow == DeliveriesSpec => IsWindow
<1>1. DeliveriesInit => W!Init
  BY DEF DeliveriesInit, Init, W!Init
<1>2. TypeOK /\ WindowInv => seen = W!Recent
  BY SeenIsRecent
<1>3. TypeOK /\ WindowInv /\ [DeliveriesNext]_all => [W!Next]_added
  BY DeliveriesStep, WindowAdds
<1> QED BY <1>1, <1>2, <1>3, RingInvHolds, PTL DEF DeliveriesSpec, IsWindow, W!Spec

\* A delivery runs at most once while the ring remembers it, for every number of
\* handlers, of ids and of places in the ring (smee.go, deliver).
THEOREM RunsOnceHolds == DeliveriesSpec => []RunsOnce
<1>1. TypeOK /\ WindowInv /\ PlaceInv => RunsOnce
  BY PlacesApart
<1> QED BY <1>1, RingInvHolds, PTL

\* A delivery that was posted directly has run, or is about to, once its POST is
\* answered, unless the channel brought a spoiled copy of it: however the handlers
\* interleave, and whatever the ring forgets (http.go, webhookHandler; smee.go,
\* deliver).
THEOREM DirectRunsHolds == DeliveriesSpec => []DirectRunsUnlessSpoiled
<1>1. DeliveriesInit => TypeOK /\ KeptInv
  BY InitType, InitKept DEF DeliveriesInit
<1>2. TypeOK /\ KeptInv /\ [DeliveriesNext]_all => TypeOK' /\ KeptInv'
  BY DeliveriesStep, StepType, KeptStep
<1>3. KeptInv => DirectRunsUnlessSpoiled
  BY DEF KeptInv
<1> QED BY <1>1, <1>2, <1>3, PTL DEF DeliveriesSpec

LEMMA HookInvHolds == DeliveriesSpec => []HookInv
<1>1. DeliveriesInit => HookInv
  BY HookInitInv DEF DeliveriesInit
<1>2. HookInv /\ [DeliveriesNext]_all => HookInv'
  BY DeliveriesStep, HookStepInv, HookStutterInv
<1> QED BY <1>1, <1>2, PTL DEF DeliveriesSpec

\* However many copies of an occurrence arrive, of the listener and the relay, in whatever
\* order, a process emits it once for every Max keys that it lets through (Webhooks.EmittedOnce).
THEOREM EmittedOnceHolds == DeliveriesSpec => []EmittedOnce
<1>1. HookInv => EmittedOnce
  BY HookInvImplies DEF EmittedOnce
<1> QED BY <1>1, HookInvHolds, PTL

\* What a process drops as seen before its key takes for something that was told: the same
\* occurrence where the key has the moment of it, and else maybe another of the same subject
\* and status; no copy spoils a key, and none is dropped for a subject or a status that it
\* does not have (Webhooks.DropsAreLikeTold; deduplicate of each connector).
THEOREM DropsAreLikeToldHolds == DeliveriesSpec => []DropsAreLikeTold
<1>1. HookInv => DropsAreLikeTold
  BY HookInvImplies DEF DropsAreLikeTold
<1> QED BY <1>1, HookInvHolds, PTL
=============================================================================
