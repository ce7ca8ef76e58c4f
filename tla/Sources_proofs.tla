----------------------------- MODULE Sources_proofs -----------------------------
(***************************************************************************)
(* The proofs about the sources that call out: that nudges suffice and the *)
(* cadence follows the calm, that a watch fires once it is quiet, that a   *)
(* stop reaches what pumps, and that the queue and the sync are feeds.     *)
(* What they emit once, and the types of all, is SourcesOnce_proofs'.      *)
(***************************************************************************)
EXTENDS Sources, Sequences, TLAPS

-----------------------------------------------------------------------------
(* SweepCadence. *)

\* The flag tells a stream that is down; the login is known once its retry has
\* found it.
Flags ==
    /\ wasDown = (conn = "down")
    /\ known \in BOOLEAN /\ (retrying # "waiting" => known = TRUE)
    /\ retrying \in {"waiting", "nudging", "over"}

\* No event is in a gap uncovered, with every nudge that was due for it sent.
\* On the first attempt to connect as well: it will not nudge if it succeeds.
GapCovered ==
    (conn \in {"none", "first", "up"} /\ retrying = "over" /\ failures = 0)
        => (renew \/ gap \subseteq taking)

NudgeInv == Flags /\ GapCovered /\ failures \in Nat

-----------------------------------------------------------------------------
\* NudgeInv at the start.
LEMMA InitNudge == Init => NudgeInv
<1> SUFFICES ASSUME Init PROVE NudgeInv
  OBVIOUS
<1>1. Flags
  BY ConfigAssumption DEF Init, Webhook, Flags, ConfigAssumption
<1>2. GapCovered
  BY DEF Init, GapCovered
<1>3. failures \in Nat
  BY DEF Init
<1> QED
  BY <1>1, <1>2, <1>3 DEF NudgeInv

\* NudgeInv is kept by every step (smee.go, runSmee; source.go, SweepNow and
\* discoverSelfLoop; sweep.go, sweepLoop).
LEMMA NextNudge == NudgeInv /\ [Next]_vars => NudgeInv'
<1> SUFFICES ASSUME NudgeInv, [Next]_vars PROVE NudgeInv'
  OBVIOUS
<1> USE DEF NudgeInv, Flags, GapCovered, stream, identity, loop, timer, missed
<1>1. ASSUME NEW e \in Events, Happen(e) PROVE NudgeInv'
  BY <1>1 DEF Happen
<1>2. CASE Connect
  BY <1>2 DEF Connect, Nudge
<1>3. CASE StreamEnds
  BY <1>3 DEF StreamEnds
<1>4. CASE Die
  BY <1>4 DEF Die
<1>5. CASE SweepNow
  BY <1>5 DEF SweepNow, Nudge
<1>6. CASE Discover
  BY <1>6 DEF Discover
<1>7. CASE NudgeDiscovered
  BY <1>7 DEF NudgeDiscovered, Nudge
<1>8. CASE SweepOnStart
  BY <1>8 DEF SweepOnStart, Sweep
<1>9. CASE SweepOnRenew
  BY <1>9 DEF SweepOnRenew, Sweep
<1>10. CASE SweepOnTimer
  BY <1>10 DEF SweepOnTimer, Sweep
<1>11. CASE SweepEnds
  BY <1>11 DEF SweepEnds
<1>12. CASE SweepFails
  BY <1>12 DEF SweepFails
<1>13. CASE Tick
  BY <1>13 DEF Tick
<1>14. CASE UNCHANGED vars
  BY <1>14 DEF vars
<1> QED
  BY <1>1, <1>2, <1>3, <1>4, <1>5, <1>6, <1>7, <1>8, <1>9, <1>10, <1>11, <1>12, <1>13, <1>14
     DEF Next, Loop

-----------------------------------------------------------------------------
\* Where the ceiling is not below the floor, neither is the interval.
Cadence == SweepFloor <= Ceiling => cur \in Nat /\ cur >= SweepFloor

\* The first wait respects the floor, and so does the doubling (sweep.go,
\* sweepBounds, fixedSweepInterval and backoffInterval).
LEMMA IntervalsRespectFloor ==
    ASSUME SweepFloor <= Ceiling, NEW c \in Nat, c >= SweepFloor
    PROVE  /\ FirstWait \in Nat /\ FirstWait >= SweepFloor
           /\ BackoffInterval(c) \in Nat /\ BackoffInterval(c) >= SweepFloor
BY IntervalAssumption
   DEF FirstWait, Webhook, SweepMin, Floored, Ceiling, Least, BackoffInterval, IntervalAssumption

LEMMA FirstRespectsFloor == SweepFloor <= Ceiling => FirstWait \in Nat /\ FirstWait >= SweepFloor
<1>1. SweepFloor \in Nat /\ SweepFloor >= SweepFloor
  BY IntervalAssumption DEF IntervalAssumption
<1> QED BY <1>1, IntervalsRespectFloor

LEMMA InitFloor == Init => Cadence
BY FirstRespectsFloor DEF Init, Cadence

LEMMA StepFloor == ASSUME Cadence, Next \/ UNCHANGED vars PROVE Cadence'
<1> SUFFICES ASSUME SweepFloor <= Ceiling PROVE cur' \in Nat /\ cur' >= SweepFloor
  BY DEF Cadence, Ceiling
<1>1. cur \in Nat /\ cur >= SweepFloor
  BY DEF Cadence
<1>2. BackoffInterval(cur) \in Nat /\ BackoffInterval(cur) >= SweepFloor
  BY <1>1, IntervalsRespectFloor
<1>3. CASE SweepOnRenew
  BY <1>3, FirstRespectsFloor DEF SweepOnRenew
<1>4. CASE SweepEnds \/ SweepFails
  BY <1>1, <1>2, <1>4 DEF SweepEnds, SweepFails, Rearm
<1>5. CASE UNCHANGED cur
  BY <1>1, <1>5
<1> QED
  BY <1>3, <1>4, <1>5 DEF Next, Loop, Happen, Connect, StreamEnds, Die, SweepNow,
     Discover, NudgeDiscovered, SweepOnStart, SweepOnTimer, Tick, vars, loop

-----------------------------------------------------------------------------
\* Only the start of a sweep takes a nudge out of the channel (source.go, SweepNow; sweep.go,
\* sweepLoop).
LEMMA StepKept == ASSUME NudgeKept, Next \/ UNCHANGED vars PROVE NudgeKept'
<1>1. CASE SweepOnStart \/ SweepOnRenew \/ SweepOnTimer
  BY <1>1 DEF SweepOnStart, SweepOnRenew, SweepOnTimer, Sweep, NudgeKept
<1>2. CASE Connect \/ SweepNow \/ NudgeDiscovered
  BY <1>2 DEF Connect, SweepNow, NudgeDiscovered, Nudge, NudgeKept
<1>3. CASE UNCHANGED <<renew, asked>>
  BY <1>3 DEF NudgeKept
<1> QED
  BY <1>1, <1>2, <1>3 DEF Next, Loop, Happen, StreamEnds, Die, Discover, SweepEnds,
     SweepFails, Tick, vars

-----------------------------------------------------------------------------
LEMMA SweepMinBounds == SweepMin \in Nat /\ Ceiling \in Nat /\ SweepMin <= Ceiling /\ Floored \in Nat
BY IntervalAssumption DEF SweepMin, Floored, Ceiling, Least, IntervalAssumption

\* The interval is what the calm made of it, also while a sweep runs.
Paced ==
    /\ Webhook => cur = Least(SweepMin * calm, Ceiling)
    /\ Webhook /\ pc = "waiting" => left <= cur
CadenceInv == TypeOK /\ Paced

\* Doubled once more, where it was below the ceiling.
LEMMA Doubling ==
    ASSUME NEW c \in Nat \ {0}
    PROVE  LET x == Least(SweepMin * c, Ceiling) IN
           BackoffInterval(x) = Least(SweepMin * (IF x < Ceiling THEN 2 * c ELSE c), Ceiling)
<1> DEFINE y == SweepMin * c
<1>1. y \in Nat /\ SweepMin * (2 * c) = 2 * y
  BY SweepMinBounds
<1>2. Ceiling \in Nat
  BY SweepMinBounds
<1> HIDE DEF y
<1>3. CASE y < Ceiling
  BY <1>1, <1>2, <1>3 DEF BackoffInterval, Least, y
<1>4. CASE ~(y < Ceiling)
  BY <1>1, <1>2, <1>4 DEF BackoffInterval, Least, y
<1> QED BY <1>3, <1>4

LEMMA InitCadence == Init => CadenceInv
<1> SUFFICES ASSUME Init PROVE CadenceInv
  OBVIOUS
<1>1. TypeOK
  <2>1. mode \in Modes /\ known \in BOOLEAN /\ retrying \in {"waiting", "nudging", "over"}
    BY ConfigAssumption DEF Init, ConfigAssumption
  <2>2. cur \in Nat
    BY SweepMinBounds DEF Init, FirstWait
  <2>3. conn \in {"none", "first", "up", "dead", "down"} /\ wasDown \in BOOLEAN /\ renew \in BOOLEAN
        /\ pc = "starting" /\ branch = "start" /\ fired \in BOOLEAN /\ asked \in BOOLEAN
    BY DEF Init
  <2>4. left \in Nat /\ calm \in Nat \ {0} /\ failures \in 0..MaxFailures
    BY ConfigAssumption DEF Init, ConfigAssumption
  <2>5. occurred = {} /\ late = {} /\ gap = {} /\ taking = {}
    BY DEF Init
  <2> QED BY <2>1, <2>2, <2>3, <2>4, <2>5 DEF TypeOK
<1>2. Paced
  BY SweepMinBounds DEF Init, Paced, FirstWait, Least
<1> QED BY <1>1, <1>2 DEF CadenceInv

LEMMA StepCadenceType == ASSUME TypeOK, Next \/ UNCHANGED vars PROVE TypeOK'
<1> USE SweepMinBounds DEF TypeOK, stream, identity, loop, timer, missed
<1>1. ASSUME NEW e \in Events, Happen(e) PROVE TypeOK'
  BY <1>1 DEF Happen
<1>2. CASE Connect
  BY <1>2 DEF Connect, Nudge
<1>3. CASE StreamEnds
  BY <1>3 DEF StreamEnds
<1>4. CASE Die
  BY <1>4 DEF Die
<1>5. CASE SweepNow
  BY <1>5 DEF SweepNow, Nudge
<1>6. CASE Discover
  BY <1>6 DEF Discover
<1>7. CASE NudgeDiscovered
  BY <1>7 DEF NudgeDiscovered, Nudge
<1>8. CASE SweepOnStart
  BY <1>8 DEF SweepOnStart, Sweep
<1>9. CASE SweepOnRenew
  <2>1. cur' \in Nat /\ calm' \in Nat \ {0} /\ left' \in Nat /\ failures' \in 0..MaxFailures
    BY <1>9 DEF SweepOnRenew, FirstWait
  <2>2. taking' \subseteq late' \cup gap'
    BY <1>9 DEF SweepOnRenew, Sweep
  <2>3. pc' = "sweeping" /\ branch' = "renew" /\ renew' \in BOOLEAN /\ asked' \in BOOLEAN /\ fired' \in BOOLEAN
    BY <1>9 DEF SweepOnRenew, Sweep
  <2>4. UNCHANGED <<stream, identity, timer, occurred, missed, failures>>
    BY <1>9 DEF SweepOnRenew
  <2> QED BY <2>1, <2>2, <2>3, <2>4
<1>10. CASE SweepOnTimer
  <2>1. taking' \subseteq late' \cup gap'
    BY <1>10 DEF SweepOnTimer, Sweep
  <2> QED BY <1>10, <2>1 DEF SweepOnTimer, Sweep
<1>11. ASSUME Rearm, Calmer PROVE cur' \in Nat /\ left' \in Nat /\ fired' \in BOOLEAN /\ calm' \in Nat \ {0}
  <2>1. cur' \in Nat /\ left' \in Nat
    BY <1>11 DEF Rearm, BackoffInterval, Least
  <2>2. fired' \in BOOLEAN
    BY <1>11 DEF Rearm
  <2>3. calm' \in Nat \ {0}
    BY <1>11 DEF Calmer
  <2> QED BY <2>1, <2>2, <2>3
<1>12. CASE SweepEnds
  BY <1>12, <1>11 DEF SweepEnds
<1>13. CASE SweepFails
  <2>1. failures' \in 0..MaxFailures
    BY <1>13, ConfigAssumption DEF SweepFails, ConfigAssumption
  <2> QED BY <1>13, <1>11, <2>1 DEF SweepFails
<1>14. CASE Tick
  BY <1>14 DEF Tick
<1>15. CASE UNCHANGED vars
  BY <1>15 DEF vars
<1> QED BY <1>1, <1>2, <1>3, <1>4, <1>5, <1>6, <1>7, <1>8, <1>9, <1>10, <1>12, <1>13, <1>14, <1>15
           DEF Next, Loop

LEMMA StepCadence == ASSUME CadenceInv, Next \/ UNCHANGED vars PROVE CadenceInv'
<1>0. TypeOK /\ TypeOK'
  BY StepCadenceType DEF CadenceInv
<1>a. Webhook' = Webhook
  BY DEF Next, Loop, Webhook, stream, Happen, Connect, StreamEnds, Die, SweepNow, Discover, NudgeDiscovered,
         SweepOnStart, SweepOnRenew, SweepOnTimer, SweepEnds, SweepFails, Tick, vars
<1>b. cur \in Nat /\ left \in Nat /\ calm \in Nat \ {0}
  BY <1>0 DEF TypeOK
<1>1. CASE SweepOnRenew
  BY <1>0, <1>a, <1>1, SweepMinBounds DEF SweepOnRenew, Sweep, Paced, FirstWait, Least, CadenceInv
<1>2. CASE SweepEnds \/ SweepFails
  <2> SUFFICES ASSUME Webhook PROVE cur' = Least(SweepMin * calm', Ceiling) /\ left' <= cur'
    BY <1>0, <1>a DEF CadenceInv, Paced
  <2>1. Rearm /\ Calmer /\ cur = Least(SweepMin * calm, Ceiling)
    BY <1>2 DEF SweepEnds, SweepFails, CadenceInv, Paced
  <2>2. left' = cur' /\ cur' \in Nat
    BY <1>0, <2>1 DEF Rearm, TypeOK
  <2>3. CASE branch = "timer"
    <3>1. cur' = BackoffInterval(cur) /\ calm' = IF cur < Ceiling THEN 2 * calm ELSE calm
      BY <2>1, <2>3 DEF Rearm, Calmer
    <3> QED BY <1>b, <2>1, <2>2, <3>1, Doubling
  <2>4. CASE branch # "timer"
    BY <2>1, <2>2, <2>4 DEF Rearm, Calmer
  <2> QED BY <2>3, <2>4
<1>3. CASE SweepOnStart \/ SweepOnTimer
  BY <1>0, <1>a, <1>3 DEF SweepOnStart, SweepOnTimer, Sweep, CadenceInv, Paced
<1>4. CASE Tick
  <2>1. Webhook => left' = left - 1
    BY <1>4 DEF Tick
  <2> QED BY <1>0, <1>a, <1>b, <1>4, <2>1 DEF Tick, loop, CadenceInv, Paced
<1>5. CASE UNCHANGED <<loop, timer, calm>>
  BY <1>0, <1>a, <1>5 DEF loop, timer, CadenceInv, Paced
<1> QED BY <1>1, <1>2, <1>3, <1>4, <1>5 DEF Next, Loop, Happen, Connect, StreamEnds, Die, SweepNow,
       Discover, NudgeDiscovered, vars

-----------------------------------------------------------------------------
(* Debounce. *)

\* A timer that runs tells how long it is quiet; a goroutine that is late was overtaken.
Quiet ==
    /\ dTimer # D!Unset => age = Window - dTimer
    /\ (dTimer # D!Unset /\ expired > 0) => raced
QuietInv == D!TypeOK /\ D!FiresAtMostArms /\ D!FiresWhenQuiet /\ Quiet

LEMMA InitQuiet == D!Init => QuietInv
<1> SUFFICES ASSUME D!Init PROVE QuietInv
  OBVIOUS
<1> USE DebounceAssumption DEF D!Init, D!Unset, D!Changes
<1>1. D!TypeOK
  <2>1. \A X : <<>> \in Seq(X)
    OBVIOUS
  <2>2. dTimer \in -1..Window /\ armed \in 0..MaxArms /\ age \in 0..Window
    OBVIOUS
  <2> QED BY <2>1, <2>2 DEF D!TypeOK
<1>2. D!FiresAtMostArms
  BY DEF D!FiresAtMostArms
<1>3. D!FiresWhenQuiet
  BY DEF D!FiresWhenQuiet
<1>4. Quiet
  BY DEF Quiet
<1> QED BY <1>1, <1>2, <1>3, <1>4 DEF QuietInv

\* What is taken out of a sequence leaves one less.
LEMMA WithoutOne ==
    ASSUME NEW X, NEW s \in Seq(X), NEW i \in DOMAIN s
    PROVE  D!Without(s, i) \in Seq(X) /\ Len(D!Without(s, i)) = Len(s) - 1
<1>1. Len(s) \in Nat /\ DOMAIN s = 1..Len(s) /\ Len(s) - 1 \in Nat /\ s \in [1..Len(s) -> X]
  OBVIOUS
<1>2. \A j \in 1..(Len(s) - 1) : s[j] \in X /\ s[j + 1] \in X
  BY <1>1
<1>3. D!Without(s, i) \in [1..(Len(s) - 1) -> X]
  BY <1>2 DEF D!Without
<1> DEFINE t == D!Without(s, i)  n == Len(s) - 1
<1>4. n \in Nat /\ t \in [1..n -> X]
  BY <1>1, <1>3
<1>5. t \in Seq(X) /\ Len(t) = n
  <2> HIDE DEF t, n
  <2> QED BY <1>4
<1> QED BY <1>5

LEMMA StepQuiet == ASSUME QuietInv, D!Next \/ UNCHANGED D!vars PROVE QuietInv'
<1> USE DebounceAssumption DEF QuietInv, D!TypeOK, D!Unset, D!Changes
<1>0. Len(read) \in Nat /\ Len(dEmitted) \in Nat
  OBVIOUS
<1>1. CASE D!Arm
  <2>1. D!TypeOK'
    BY <1>1 DEF D!Arm
  <2>2. D!FiresAtMostArms'
    BY <1>0, <1>1 DEF D!Arm, D!FiresAtMostArms
  <2>3. D!FiresWhenQuiet' /\ Quiet'
    <3>1. expired' > 0 => raced'
      BY ONLY <1>1, Zenon DEF D!Arm
    <3>2. age' = Window - dTimer'
      BY <1>1 DEF D!Arm
    <3> QED BY <3>1, <3>2, Zenon DEF D!FiresWhenQuiet, Quiet
  <2> QED BY <2>1, <2>2, <2>3
<1>2. CASE D!Tick
  BY <1>0, <1>2 DEF D!Tick, D!Lower, D!FiresAtMostArms, D!FiresWhenQuiet, Quiet
<1>3. CASE D!Expire
  BY <1>0, <1>3 DEF D!Expire, D!FiresAtMostArms, D!FiresWhenQuiet, Quiet
<1>4. CASE D!Read
  <2>1. read' \in Seq(0..MaxArms) /\ Len(read') = Len(read) + 1
    BY <1>4 DEF D!Read
  <2> QED BY <1>0, <1>4, <2>1 DEF D!Read, D!FiresAtMostArms, D!FiresWhenQuiet, Quiet
<1>5. ASSUME NEW n \in D!Changes, D!Emit(n) PROVE QuietInv'
  <2>1. read' \in Seq(0..MaxArms) /\ Len(read') = Len(read) - 1
    BY <1>5, WithoutOne DEF D!Emit
  <2>2. dEmitted' \in Seq(0..MaxArms) /\ Len(dEmitted') = Len(dEmitted) + 1
    BY <1>5 DEF D!Emit
  <2> QED BY <1>0, <1>5, <2>1, <2>2 DEF D!Emit, D!FiresAtMostArms, D!FiresWhenQuiet, Quiet
<1>6. CASE UNCHANGED D!vars
  BY <1>6 DEF D!vars, D!FiresAtMostArms, D!FiresWhenQuiet, Quiet
<1> QED BY <1>1, <1>2, <1>3, <1>4, <1>5, <1>6 DEF D!Next

-----------------------------------------------------------------------------
(* SlackInstances. *)

\* Unless a stop came too early: a start that has yet to register is the last, and nothing
\* is registered by then; what is registered or about to be cancelled is what the daemon
\* takes it for.
Ordered ==
    /\ \A s \in S!Starts : sPc[s] = "starting" => s = latest /\ daemon = "up" /\ sources = NoOne
    /\ sources # NoOne => daemon = "up"
InstanceInv == S!TypeOK /\ (~missedStop => Ordered /\ S!StopReaches)

LEMMA InitInstance == S!Init => InstanceInv
<1> SUFFICES ASSUME S!Init PROVE InstanceInv
  OBVIOUS
<1> USE InstanceAssumption DEF S!Init, S!Starts
<1>1. S!TypeOK
  <2>1. sPc \in [S!Starts -> {"new", "starting", "running", "ending", "ended"}]
    OBVIOUS
  <2>2. (daemon = "stopping") = (stopping # NoOne)
    OBVIOUS
  <2>3. latest \in 0..MaxStarts /\ cancelled \subseteq 1..MaxStarts /\ daemon \in {"up", "down", "stopping"}
    OBVIOUS
  <2>4. sources \in (1..MaxStarts) \cup {NoOne} /\ stopping \in (1..MaxStarts) \cup {NoOne} /\ missedStop \in BOOLEAN
    OBVIOUS
  <2> QED BY <2>1, <2>2, <2>3, <2>4 DEF S!TypeOK
<1>2. Ordered
  BY DEF Ordered
<1>3. S!StopReaches
  BY DEF S!StopReaches, S!Live
<1> QED BY <1>1, <1>2, <1>3 DEF InstanceInv

LEMMA StepInstance == ASSUME InstanceInv, S!Next \/ UNCHANGED S!vars PROVE InstanceInv'
<1> USE InstanceAssumption DEF InstanceInv, S!TypeOK, S!Starts, S!Goes
<1>1. CASE S!Send
  <2>1. S!TypeOK'
    BY <1>1 DEF S!Send
  <2>2. ~missedStop => Ordered' /\ S!StopReaches'
    BY <1>1 DEF S!Send, Ordered, S!StopReaches, S!Live
  <2> QED BY <1>1, <2>1, <2>2 DEF S!Send
<1>2. CASE S!Take
  <2>1. S!TypeOK'
    BY <1>2 DEF S!Take
  <2>2. ~missedStop' => Ordered' /\ S!StopReaches'
    BY <1>2 DEF S!Take, Ordered, S!StopReaches, S!Live
  <2> QED BY <1>2, <2>1, <2>2
<1>3. CASE S!Cancel
  <2>1. S!TypeOK'
    BY <1>3 DEF S!Cancel
  <2>2. ~missedStop' => Ordered' /\ S!StopReaches'
    BY <1>3 DEF S!Cancel, Ordered, S!StopReaches, S!Live
  <2> QED BY <1>3, <2>1, <2>2
<1>4. ASSUME NEW s \in S!Starts, S!Refuse(s) \/ S!Return(s) PROVE InstanceInv'
  BY <1>4 DEF S!Refuse, S!Return, Ordered, S!StopReaches, S!Live
<1>5. ASSUME NEW s \in S!Starts, S!Register(s) PROVE InstanceInv'
  BY <1>5 DEF S!Register, Ordered, S!StopReaches, S!Live
<1>6. ASSUME NEW s \in S!Starts, S!Unregister(s) PROVE InstanceInv'
  BY <1>6 DEF S!Unregister, Ordered, S!StopReaches, S!Live
<1>7. CASE UNCHANGED S!vars
  BY <1>7 DEF S!vars, Ordered, S!StopReaches, S!Live
<1> QED BY <1>1, <1>2, <1>3, <1>4, <1>5, <1>6, <1>7 DEF S!Next

LEMMA InstanceReached == ASSUME InstanceInv PROVE S!StopReaches /\ S!OnePump
<1>1. S!StopReaches
  BY DEF InstanceInv, S!StopReaches
<1>2. ASSUME ~missedStop PROVE sources = NoOne \/ stopping = NoOne
  BY <1>2 DEF InstanceInv, S!TypeOK, Ordered
<1>3. NoOne \notin S!Starts
  BY InstanceAssumption DEF S!Starts
<1> QED BY <1>1, <1>2, <1>3 DEF S!StopReaches, S!OnePump

-----------------------------------------------------------------------------
(* Queue. *)

\* What is worked on was sent, and what is deleted, or about to be, was told.
Worked ==
    /\ \A m \in batch \cup deleting : queue[m] # "unsent"
    /\ \A m \in deleting : qTold[m] > 0
    /\ \A m \in QueueMessages : qTold[m] > 0 => queue[m] # "unsent"
QueueInv == Q!TypeOK /\ Worked /\ Q!DeletedWasTold

LEMMA InitQueue == Q!Init => QueueInv /\ Q!F!Init
<1> SUFFICES ASSUME Q!Init PROVE QueueInv /\ Q!F!Init
  OBVIOUS
<1> USE QueueAssumption DEF Q!Init
<1>1. Q!TypeOK
  BY DEF Q!TypeOK
<1>2. Worked /\ Q!DeletedWasTold
  BY DEF Worked, Q!DeletedWasTold
<1>3. Q!F!Init
  BY DEF Q!F!Init
<1> QED BY <1>1, <1>2, <1>3 DEF QueueInv

LEMMA StepQueue == ASSUME QueueInv, Q!Next \/ UNCHANGED Q!vars PROVE QueueInv'
<1> USE QueueAssumption DEF QueueInv, Q!TypeOK, Worked, Q!DeletedWasTold
<1>1. ASSUME NEW m \in QueueMessages, Q!Send(m) \/ Q!Reappear(m) PROVE QueueInv'
  BY <1>1 DEF Q!Send, Q!Reappear
<1>2. ASSUME NEW m \in QueueMessages, Q!DeleteVerb(m) PROVE QueueInv'
  BY <1>2 DEF Q!DeleteVerb
<1>3. ASSUME NEW got \in SUBSET QueueMessages, Q!Receive(got) PROVE QueueInv'
  <2>1. /\ got \subseteq Q!Visible /\ UNCHANGED <<autoDelete, deleting, qTold>> /\ deleting = {}
        /\ queue' = [m \in QueueMessages |-> IF m \in got THEN "hidden" ELSE queue[m]]
        /\ batch' \subseteq got /\ qLost' \in 0..MaxLost
    BY <1>3 DEF Q!Receive
  <2>2. queue' \in [QueueMessages -> {"unsent", "visible", "hidden", "deleted"}]
    BY <2>1
  <2>3. \A m \in QueueMessages : /\ m \in got => queue[m] = "visible" /\ queue'[m] = "hidden"
                            /\ m \notin got => queue'[m] = queue[m]
    BY <2>1 DEF Q!Visible
  <2> QED BY <2>1, <2>2, <2>3
<1>4. ASSUME NEW m \in QueueMessages, Q!Emit(m) PROVE QueueInv'
  <2>1. m \in batch /\ batch' = batch \ {m} /\ UNCHANGED <<queue, autoDelete>> /\ deleting = {} /\ qLost' \in 0..MaxLost
    BY <1>4 DEF Q!Emit
  <2>2. CASE Q!Tells(m) /\ deleting' = (IF autoDelete THEN {m} ELSE {})
    <3>1. /\ qTold' \in [QueueMessages -> 0..MaxTold] /\ qTold'[m] > 0 /\ deleting' \subseteq {m}
          /\ \A n \in QueueMessages : n # m => qTold'[n] = qTold[n]
      BY <2>2 DEF Q!Tells
    <3> QED BY <2>1, <3>1
  <2>3. CASE UNCHANGED <<qTold, deleting>>
    BY <2>1, <2>3
  <2> QED BY <1>4, <2>2, <2>3 DEF Q!Emit
<1>5. ASSUME NEW m \in QueueMessages, Q!Delete(m) PROVE QueueInv'
  <2>1. m \in deleting /\ deleting' = {} /\ UNCHANGED <<autoDelete, batch, qTold>> /\ qLost' \in 0..MaxLost
        /\ (queue' = [queue EXCEPT ![m] = "deleted"] \/ queue' = queue)
    BY <1>5 DEF Q!Delete
  <2> QED BY <2>1
<1>6. CASE Q!Crash
  <2>1. batch' = {} /\ deleting' = {} /\ UNCHANGED <<queue, autoDelete, qTold>> /\ qLost' \in 0..MaxLost
    BY <1>6 DEF Q!Crash
  <2> QED BY <2>1
<1>7. CASE UNCHANGED Q!vars
  BY <1>7 DEF Q!vars
<1> QED BY <1>1, <1>2, <1>3, <1>4, <1>5, <1>6, <1>7 DEF Q!Next

SentMessages == {m \in QueueMessages : queue[m] # "unsent"}

LEMMA QueueIsFeed == ASSUME QueueInv, Q!Next \/ UNCHANGED Q!vars
    PROVE Q!F!Next \/ UNCHANGED <<SentMessages, qTold>>
<1> USE QueueAssumption DEF SentMessages
<1>t. Q!TypeOK /\ Worked
  BY DEF QueueInv
<1>1. ASSUME NEW m \in QueueMessages, Q!Send(m) PROVE Q!F!Next
  <2>1. queue[m] = "unsent" /\ queue' = [queue EXCEPT ![m] = "visible"] /\ qTold' = qTold
    BY <1>1 DEF Q!Send
  <2>2. m \notin SentMessages /\ SentMessages' = SentMessages \cup {m}
    BY <1>t, <2>1 DEF Q!TypeOK
  <2> QED BY <2>1, <2>2 DEF Q!F!Next, Q!F!Send
<1>2. ASSUME NEW m \in QueueMessages, Q!Reappear(m) \/ Q!DeleteVerb(m) PROVE UNCHANGED <<SentMessages, qTold>>
  <2>1. queue[m] # "unsent" /\ qTold' = qTold /\ \E q \in {"visible", "deleted"} : queue' = [queue EXCEPT ![m] = q]
    BY <1>t, <1>2 DEF Q!Reappear, Q!DeleteVerb, Q!TypeOK, Worked
  <2> QED BY <1>t, <2>1 DEF Q!TypeOK
<1>3. ASSUME NEW got \in SUBSET QueueMessages, Q!Receive(got) PROVE UNCHANGED <<SentMessages, qTold>>
  BY <1>t, <1>3 DEF Q!TypeOK, Q!Receive, Q!Visible
<1>4. ASSUME NEW m \in QueueMessages, Q!Emit(m) PROVE Q!F!Next \/ UNCHANGED <<SentMessages, qTold>>
  <2>1. m \in batch /\ queue' = queue /\ (Q!Tells(m) \/ qTold' = qTold)
    BY <1>4 DEF Q!Emit
  <2>2. m \in SentMessages /\ SentMessages' = SentMessages
    BY <1>t, <2>1 DEF Worked
  <2>3. CASE Q!Tells(m) /\ qTold[m] < MaxTold
    <3>1. qTold' = [qTold EXCEPT ![m] = @ + 1]
      BY <2>3 DEF Q!Tells
    <3> QED BY <2>2, <3>1 DEF Q!F!Next, Q!F!Tell
  <2>4. CASE Q!Tells(m) /\ ~(qTold[m] < MaxTold)
    <3>1. qTold' = qTold
      BY <1>t, <2>4 DEF Q!Tells, Q!TypeOK
    <3> QED BY <2>2, <3>1
  <2> QED BY <2>1, <2>2, <2>3, <2>4
<1>5. ASSUME NEW m \in QueueMessages, Q!Delete(m) PROVE UNCHANGED <<SentMessages, qTold>>
  <2>1. m \in deleting /\ qTold' = qTold /\ (queue' = [queue EXCEPT ![m] = "deleted"] \/ queue' = queue)
    BY <1>5 DEF Q!Delete
  <2>2. queue[m] # "unsent"
    BY <1>t, <2>1 DEF Worked
  <2> QED BY <1>t, <2>1, <2>2 DEF Q!TypeOK
<1>6. CASE Q!Crash \/ UNCHANGED Q!vars
  BY <1>6 DEF Q!Crash, Q!vars
<1> QED BY <1>1, <1>2, <1>3, <1>4, <1>5, <1>6 DEF Q!Next

-----------------------------------------------------------------------------
(* Sync. *)

\* What the process tells came after its first answer, was not told before, and is remembered.
Followed ==
    /\ firstSync => emitting = {}
    /\ ~firstSync => from <= since /\ since <= Y!Now
    /\ \A n \in Y!Places : yTold[n] > 0 => n <= Y!Now /\ (~firstSync => n <= from \/ n \in ySeen)
    /\ \A n \in emitting : n \in ySeen /\ n <= Y!Now /\ yTold[n] = 0
SyncInv == Y!TypeOK /\ Followed

LEMMA InitSync == Y!Init => SyncInv /\ Y!F!Init
<1> SUFFICES ASSUME Y!Init PROVE SyncInv /\ Y!F!Init
  OBVIOUS
<1> USE SyncAssumption DEF Y!Init, Y!Now, Y!Places
<1>1. Y!TypeOK
  <2>1. timeline \in Seq(Y!Kinds) /\ Y!Now = 0
    OBVIOUS
  <2>2. yTold \in [Y!Places -> 0..2]
    OBVIOUS
  <2> QED BY <2>1, <2>2 DEF Y!TypeOK
<1>2. Followed
  BY DEF Followed
<1>3. Y!F!Init
  BY DEF Y!F!Init
<1> QED BY <1>1, <1>2, <1>3 DEF SyncInv

LEMMA AnsweredIsLater ==
    ASSUME Y!TypeOK, NEW lo \in Nat
    PROVE  /\ \A n \in Y!Joined(lo) : n \in Y!Places /\ n > lo /\ n <= Y!Now
           /\ Y!Answered(lo) \subseteq Y!Joined(lo)
BY SyncAssumption DEF Y!TypeOK, Y!Answered, Y!Joined, Y!Now, Y!Places

LEMMA StepSync == ASSUME SyncInv, Y!Next \/ UNCHANGED Y!vars PROVE SyncInv'
<1> USE SyncAssumption
<1>t. Y!TypeOK /\ Followed
  BY DEF SyncInv
<1>n. Y!Now \in Nat /\ Y!Now <= LastEvent
  BY <1>t DEF Y!TypeOK, Y!Now
<1>1. ASSUME NEW k \in Y!Kinds, Y!Happen(k) PROVE SyncInv'
  <2>1. timeline' = Append(timeline, k) /\ Y!Now < LastEvent
        /\ UNCHANGED <<since, firstSync, ySeen, emitting, yTold, from, skipped, yFailures, yRestarts>>
    BY <1>1 DEF Y!Happen
  <2>2. timeline' \in Seq(Y!Kinds) /\ Y!Now' = Y!Now + 1
    BY <1>t, <2>1 DEF Y!TypeOK, Y!Now
  <2>3. Y!TypeOK'
    BY <1>t, <1>n, <2>1, <2>2 DEF Y!TypeOK
  <2>4. Followed'
    BY <1>t, <1>n, <2>1, <2>2 DEF Y!TypeOK, Followed, Y!Places
  <2> QED BY <2>3, <2>4 DEF SyncInv
<1>2. CASE Y!FirstSync
  <2>1. /\ emitting = {} /\ firstSync' = FALSE /\ since' = Y!Now /\ from' = Y!Now /\ Y!Now' = Y!Now
        /\ UNCHANGED <<timeline, ySeen, emitting, yTold, skipped, yFailures, yRestarts>>
    BY <1>2 DEF Y!FirstSync, Y!Now
  <2>2. Y!TypeOK'
    <3>1. since' \in 0..LastEvent /\ from' \in 0..LastEvent /\ firstSync' \in BOOLEAN /\ Y!Now' <= LastEvent
      <4>1. Y!Now \in 0..LastEvent
        BY <1>n
      <4> QED BY <4>1, <1>n, <2>1
    <3> QED BY <1>t, <2>1, <3>1 DEF Y!TypeOK
  <2>3. Followed'
    BY <1>t, <1>n, <2>1 DEF Followed
  <2> QED BY <2>2, <2>3 DEF SyncInv
<1>3. CASE Y!SyncFails
  <2>1. yFailures' \in 0..SyncFailures /\ Y!Now' = Y!Now
        /\ UNCHANGED <<timeline, since, firstSync, ySeen, emitting, yTold, from, skipped, yRestarts>>
    BY <1>t, <1>3 DEF Y!SyncFails, Y!TypeOK, Y!Now
  <2> QED BY <1>t, <2>1 DEF SyncInv, Y!TypeOK, Followed
<1>4. CASE Y!Restart
  <2>1. yRestarts' \in 0..SyncRestarts /\ since' = 0 /\ firstSync' = TRUE /\ ySeen' = {} /\ emitting' = {} /\ Y!Now' = Y!Now
        /\ UNCHANGED <<timeline, yTold, from, skipped, yFailures>>
    BY <1>t, <1>4 DEF Y!Restart, Y!TypeOK, Y!Now
  <2> QED BY <1>t, <2>1 DEF SyncInv, Y!TypeOK, Followed
<1>5. ASSUME NEW again \in BOOLEAN, Y!Sync(again) PROVE SyncInv'
  <2> DEFINE lo == IF again THEN since - 1 ELSE since
             got == Y!Answered(lo)
  <2>1. /\ emitting = {} /\ ~firstSync /\ (again => since > from)
        /\ since' = Y!Now /\ emitting' = got \ ySeen /\ ySeen' = ySeen \cup got
        /\ skipped' = skipped \cup (Y!Joined(since) \ got)
        /\ UNCHANGED <<timeline, firstSync, yTold, from, yFailures, yRestarts>>
    BY <1>5 DEF Y!Sync
  <2>2. from \in Nat /\ since \in Nat /\ from <= since /\ since <= Y!Now /\ Y!Now' = Y!Now
    BY <1>t, <2>1 DEF Y!TypeOK, Followed, Y!Now
  <2>3. lo \in Nat /\ lo >= from
    BY <2>1, <2>2
  <2>4. /\ \A n \in got : n \in Y!Places /\ n > from /\ n <= Y!Now
        /\ Y!Joined(since) \subseteq Y!Places
    BY <1>t, <1>n, <2>2, <2>3, AnsweredIsLater DEF Y!Places
  <2> HIDE DEF got
  <2>5. Y!TypeOK'
    BY <1>t, <1>n, <2>1, <2>2, <2>4 DEF Y!TypeOK
  <2>6. ASSUME NEW n \in emitting' PROVE yTold[n] = 0
    BY <1>t, <2>1, <2>2, <2>4, <2>6 DEF Y!TypeOK, Followed, Y!Places
  <2>7. ~firstSync' /\ from' <= since' /\ since' <= Y!Now' /\ yTold' = yTold /\ from' = from /\ ySeen \subseteq ySeen'
    BY <1>n, <2>1, <2>2
  <2>8. \A n \in Y!Places : yTold[n] > 0 => n <= Y!Now' /\ (n <= from \/ n \in ySeen')
    BY <1>t, <2>1, <2>2, <2>7 DEF Followed
  <2>9. \A n \in emitting' : n \in ySeen' /\ n <= Y!Now' /\ yTold[n] = 0
    BY <2>1, <2>2, <2>4, <2>6
  <2>10. Followed'
    BY <2>7, <2>8, <2>9 DEF Followed
  <2> QED BY <2>5, <2>10 DEF SyncInv
<1>6. ASSUME NEW n \in Y!Places, Y!Emit(n) PROVE SyncInv'
  <2>1. /\ n \in emitting /\ emitting' = emitting \ {n} /\ Y!Now' = Y!Now
        /\ yTold' = [yTold EXCEPT ![n] = IF @ < 2 THEN @ + 1 ELSE @]
        /\ UNCHANGED <<timeline, since, firstSync, ySeen, from, skipped, yFailures, yRestarts>>
    BY <1>6 DEF Y!Emit, Y!Now
  <2>0. yTold[n] = 0 /\ n \in ySeen /\ n <= Y!Now
    BY <1>t, <2>1 DEF Followed
  <2>2. yTold' = [yTold EXCEPT ![n] = 1] /\ yTold[n] = 0 /\ n \in ySeen /\ n <= Y!Now
    BY <2>0, <2>1
  <2> QED BY <1>t, <2>1, <2>2 DEF SyncInv, Y!TypeOK, Followed
<1>7. CASE UNCHANGED Y!vars
  <2>1. Y!Now' = Y!Now
    BY <1>7 DEF Y!vars, Y!Now
  <2> QED BY <1>t, <1>7, <2>1 DEF Y!vars, SyncInv, Y!TypeOK, Followed
<1> QED BY <1>1, <1>2, <1>3, <1>4, <1>5, <1>6, <1>7 DEF Y!Next

LEMMA SyncIsFeed == ASSUME SyncInv, Y!Next \/ UNCHANGED Y!vars
    PROVE Y!F!Next \/ UNCHANGED <<DOMAIN timeline, yTold>>
<1>t. Y!TypeOK /\ Followed
  BY DEF SyncInv
<1>d. DOMAIN timeline = 1..Y!Now
  BY <1>t DEF Y!TypeOK, Y!Now
<1>1. ASSUME NEW k \in Y!Kinds, Y!Happen(k) PROVE Y!F!Next
  <2>1. timeline' = Append(timeline, k) /\ Y!Now < LastEvent /\ yTold' = yTold
    BY <1>1 DEF Y!Happen
  <2>2. Y!Now + 1 \in Y!Places /\ Y!Now + 1 \notin DOMAIN timeline /\ DOMAIN timeline' = DOMAIN timeline \cup {Y!Now + 1}
    BY <1>t, <1>d, <2>1, SyncAssumption DEF Y!TypeOK, Y!Now, Y!Places
  <2> QED BY <2>1, <2>2 DEF Y!F!Next, Y!F!Send
<1>2. ASSUME NEW n \in Y!Places, Y!Emit(n) PROVE Y!F!Next
  <2>1. n \in DOMAIN timeline /\ yTold[n] = 0
    BY <1>t, <1>d, <1>2 DEF Y!Emit, Followed, Y!Places
  <2>2. yTold' = [yTold EXCEPT ![n] = @ + 1] /\ timeline' = timeline
    BY <1>2, <2>1 DEF Y!Emit
  <2> QED BY <2>1, <2>2 DEF Y!F!Next, Y!F!Tell
<1>3. CASE UNCHANGED <<timeline, yTold>>
  BY <1>3
<1> QED BY <1>1, <1>2, <1>3 DEF Y!Next, Y!FirstSync, Y!SyncFails, Y!Restart, Y!Sync, Y!vars

-----------------------------------------------------------------------------
(* What each keeps, a behaviour of all keeps. *)

LEMMA SourcesStep ==
    ASSUME [SourcesNext]_all
    PROVE  /\ Next \/ UNCHANGED vars
           /\ D!Next \/ UNCHANGED D!vars
           /\ S!Next \/ UNCHANGED S!vars
           /\ M!Next \/ UNCHANGED M!vars
           /\ G!Next \/ UNCHANGED G!vars
           /\ P!Next \/ UNCHANGED P!vars
           /\ Q!Next \/ UNCHANGED Q!vars
           /\ Y!Next \/ UNCHANGED Y!vars
           /\ U!Next \/ UNCHANGED U!vars
           /\ K!Next \/ UNCHANGED K!vars
<1> USE DEF debounce, slack, mail, gateway, polls, sqs, matrix, following, socket,
            D!vars, S!vars, M!vars, M!mailbox, M!poll, G!vars, G!gateway, G!client, P!vars, Q!vars, Y!vars,
            U!vars, K!vars, K!socket, K!people, K!engine
<1>1. CASE which = "sweep"
  BY <1>1 DEF SourcesNext, all
<1>2. CASE which = "debounce"
  BY <1>2 DEF SourcesNext, all
<1>3. CASE which = "slack"
  BY <1>3 DEF SourcesNext, all
<1>4. CASE which = "mail"
  BY <1>4 DEF SourcesNext, all
<1>5. CASE which = "gateway"
  BY <1>5 DEF SourcesNext, all
<1>6. CASE which = "polls"
  BY <1>6 DEF SourcesNext, all
<1>7. CASE which = "queue"
  BY <1>7 DEF SourcesNext, all
<1>8. CASE which = "sync"
  BY <1>8 DEF SourcesNext, all
<1>9. CASE which = "following"
  BY <1>9 DEF SourcesNext, all
<1>10. CASE which = "socket"
  BY <1>10 DEF SourcesNext, all
<1> QED BY <1>1, <1>2, <1>3, <1>4, <1>5, <1>6, <1>7, <1>8, <1>9, <1>10 DEF SourcesNext, all

\* An event missed in a gap is recovered by a sweep that runs or is due, until
\* a sweep fails (smee.go, runSmee; source.go, discoverSelfLoop).
THEOREM NudgesSuffice == SourcesSpec => []NudgeCoversGap
<1>1. SourcesInit => NudgeInv
  BY InitNudge DEF SourcesInit
<1>2. NudgeInv /\ [SourcesNext]_all => NudgeInv'
  BY SourcesStep, NextNudge
<1>3. NudgeInv => NudgeCoversGap
  BY DEF NudgeInv, GapCovered, NudgeCoversGap
<1> QED BY <1>1, <1>2, <1>3, PTL DEF SourcesSpec

\* A nudge is never lost, however many coalesce and whenever they come: only the
\* start of a sweep takes one out of the channel (source.go, SweepNow; sweep.go,
\* sweepLoop).
THEOREM NudgeKeptHolds == SourcesSpec => []NudgeKept
<1>1. SourcesInit => NudgeKept
  BY DEF SourcesInit, Init, NudgeKept
<1>2. NudgeKept /\ [SourcesNext]_all => NudgeKept'
  BY SourcesStep, StepKept
<1> QED BY <1>1, <1>2, PTL DEF SourcesSpec

LEMMA CadenceInvHolds == SourcesSpec => []CadenceInv
<1>1. SourcesInit => CadenceInv
  BY InitCadence DEF SourcesInit
<1>2. CadenceInv /\ [SourcesNext]_all => CadenceInv'
  BY SourcesStep, StepCadence
<1> QED BY <1>1, <1>2, PTL DEF SourcesSpec

\* The sweep waits as long as the calm asks for: the least interval doubled for each wait
\* that nothing ended but the timer, up to the ceiling; a nudge begins anew; and where the
\* ceiling is not below the floor, no wait is (sweep.go, sweepLoop, backoffInterval and
\* sweepFloor).
THEOREM CadenceHolds == SourcesSpec => []CadenceFollowsCalm
<1>1. SourcesInit => Cadence
  BY InitFloor DEF SourcesInit
<1>2. Cadence /\ [SourcesNext]_all => Cadence'
  BY SourcesStep, StepFloor
<1>3. CadenceInv /\ Cadence => CadenceFollowsCalm
  BY DEF CadenceInv, Paced, Cadence, CadenceFollowsCalm
<1> QED BY <1>1, <1>2, <1>3, CadenceInvHolds, PTL DEF SourcesSpec

LEMMA QuietInvHolds == SourcesSpec => []QuietInv
<1>1. SourcesInit => QuietInv
  BY InitQuiet DEF SourcesInit
<1>2. QuietInv /\ [SourcesNext]_all => QuietInv'
  BY SourcesStep, StepQuiet
<1> QED BY <1>1, <1>2, PTL DEF SourcesSpec

\* A change fires at most once, and once the watch was quiet for its window unless a change
\* came between the timer and its goroutine (Debounce, watch.go: arm).
THEOREM FiresOnceQuietHolds == SourcesSpec => []FiresOnceQuiet
<1>1. QuietInv => FiresOnceQuiet
  BY DEF QuietInv, FiresOnceQuiet
<1> QED BY <1>1, QuietInvHolds, PTL

LEMMA InstanceInvHolds == SourcesSpec => []InstanceInv
<1>1. SourcesInit => InstanceInv
  BY InitInstance DEF SourcesInit
<1>2. InstanceInv /\ [SourcesNext]_all => InstanceInv'
  BY SourcesStep, StepInstance
<1> QED BY <1>1, <1>2, PTL DEF SourcesSpec

\* A stop that does not come before its start has registered reaches whatever pumps, and one
\* source pumps (SlackInstances, socket.go: Start and Stop).
THEOREM OneReachedHolds == SourcesSpec => []OneReached
<1>1. InstanceInv => OneReached
  BY InstanceReached DEF OneReached
<1> QED BY <1>1, InstanceInvHolds, PTL

LEMMA QueueInvHolds == SourcesSpec => []QueueInv
<1>1. SourcesInit => QueueInv
  BY InitQueue DEF SourcesInit
<1>2. QueueInv /\ [SourcesNext]_all => QueueInv'
  BY SourcesStep, StepQueue
<1> QED BY <1>1, <1>2, PTL DEF SourcesSpec

LEMMA SyncInvHolds == SourcesSpec => []SyncInv
<1>1. SourcesInit => SyncInv
  BY InitSync DEF SourcesInit
<1>2. SyncInv /\ [SourcesNext]_all => SyncInv'
  BY SourcesStep, StepSync
<1> QED BY <1>1, <1>2, PTL DEF SourcesSpec

\* The queue and the sync are feeds: what they tell was sent, aws-sqs deletes nothing that
\* it did not tell, and matrix tells an event once, whatever fails, is answered again or
\* restarts in between (Queue and Sync implement Feed; StartSource of aws-sqs and matrix).
THEOREM IsFeedHolds == SourcesSpec => IsFeed
<1>1. SourcesInit => Q!F!Init /\ Y!F!Init
  BY InitQueue, InitSync DEF SourcesInit
<1>2. QueueInv /\ [SourcesNext]_all => [Q!F!Next]_<<SentMessages, qTold>>
  BY SourcesStep, QueueIsFeed
<1>3. SyncInv /\ [SourcesNext]_all => [Y!F!Next]_<<DOMAIN timeline, yTold>>
  BY SourcesStep, SyncIsFeed
<1>4. QueueInv => Q!DeletedWasTold
  BY DEF QueueInv
<1> QED BY <1>1, <1>2, <1>3, <1>4, QueueInvHolds, SyncInvHolds, PTL
        DEF SourcesSpec, IsFeed, Q!IsFeed, Y!IsFeed, Q!F!Spec, Y!F!Spec, SentMessages
=============================================================================
