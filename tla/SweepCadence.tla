----------------------------- MODULE SweepCadence -----------------------------
(***************************************************************************)
(* When the catch-up sweep runs (internal/githubkit/ghsource: sweep.go     *)
(* sweepLoop, fixedSweepLoop and their intervals, smee.go runSmee,         *)
(* source.go SweepNow, discoverSelf and discoverSelfLoop).                 *)
(*                                                                         *)
(* An event that happens while the smee stream is down, or dead without    *)
(* anyone having noticed, or while the operator's login is not known, is   *)
(* missed, and only a sweep that starts later recovers it.  A reconnect    *)
(* after a drop, a login discovered late and the operator nudge the sweep  *)
(* through a channel of one place, in which nudges coalesce; otherwise the *)
(* sweep waits for a timer whose interval doubles while nothing happens.   *)
(* Without a webhook the sweep is a poll at a fixed interval.              *)
(*                                                                         *)
(* What a sweep does is ReviewFold's; here it recovers what was missed     *)
(* before it started, or fails.  The stream's own backoff is time that     *)
(* passes, and so is left out.                                             *)
(***************************************************************************)
EXTENDS Integers

CONSTANTS
    Interval,       \* sweep.interval, 0 when it is not set
    MinInterval,    \* sweep.min_interval, 0 when it is not set
    DefaultMax,     \* an hour
    DefaultMin,     \* two minutes
    SweepFloor,     \* a minute
    Modes,          \* how events may arrive: over a webhook, or by polling alone
    Discovers,      \* me is not configured: the login is to be discovered
    Events,         \* things that happen on GitHub
    MaxFailures     \* bound on how often a sweep fails

ASSUME IntervalAssumption ==
    /\ Interval \in Nat /\ MinInterval \in Nat
    /\ DefaultMax \in Nat \ {0} /\ DefaultMin \in Nat \ {0} /\ SweepFloor \in Nat \ {0}
ASSUME ConfigAssumption ==
    /\ Modes \subseteq {"webhook", "poll"}
    /\ Discovers \in BOOLEAN
    /\ MaxFailures \in Nat

VARIABLES
    mode,       \* how this instance is configured
    conn,       \* the stream: its first attempt, up, dead or down
    wasDown,    \* runSmee's flag
    known,      \* the operator's login is known
    retrying,   \* discoverSelfLoop: waiting, about to nudge, or over
    renew,      \* the channel holds a nudge
    pc,         \* the sweep loop: starting, sweeping or waiting
    branch,     \* why it sweeps
    cur,        \* the interval
    left,       \* how long the timer has to go
    fired,      \* the timer's channel holds a tick
    occurred,   \* the events that happened
    late,       \* those missed that no nudge is due for
    gap,        \* those missed in a gap that ends with a nudge
    taking,     \* those the sweep under way recovers
    asked,      \* history: a nudge since the last sweep started
    calm,       \* history: 2 to the timer sweeps since the last nudge, up to the ceiling
    failures

stream   == <<mode, conn, wasDown>>
identity == <<known, retrying>>
loop     == <<pc, branch, cur>>
timer    == <<left, fired>>
missed   == <<late, gap>>
vars     == <<stream, identity, renew, loop, timer, occurred, missed, taking, asked, calm,
              failures>>

-----------------------------------------------------------------------------
(* The intervals.                                                          *)

Webhook == mode = "webhook"

Least(a, b) == IF a < b THEN a ELSE b

\* sweepBounds and fixedSweepInterval.
Ceiling   == IF Interval > 0 THEN Interval ELSE DefaultMax
Floored   == LET least == IF MinInterval > 0 THEN MinInterval ELSE DefaultMin
             IN  IF least < SweepFloor THEN SweepFloor ELSE least
SweepMin  == Least(Floored, Ceiling)
FirstWait == IF Webhook THEN SweepMin ELSE Floored

\* Seeded bug: the doubling is not capped.
BackoffUncapped(c) == 2 * c
BackoffInterval(c) == Least(2 * c, Ceiling)

TypeOK ==
    /\ mode \in Modes
    /\ conn \in {"none", "first", "up", "dead", "down"} /\ wasDown \in BOOLEAN
    /\ known \in BOOLEAN /\ retrying \in {"waiting", "nudging", "over"}
    /\ renew \in BOOLEAN
    /\ pc \in {"starting", "sweeping", "waiting"}
    /\ branch \in {"start", "renew", "timer"}
    /\ cur \in Nat /\ left \in Nat /\ fired \in BOOLEAN
    /\ occurred \subseteq Events /\ late \subseteq occurred /\ gap \subseteq occurred
    /\ taking \subseteq late \cup gap
    /\ asked \in BOOLEAN /\ calm \in Nat \ {0} /\ failures \in 0..MaxFailures

Init ==
    /\ mode \in Modes
    /\ conn = (IF Webhook THEN "first" ELSE "none") /\ wasDown = FALSE
    /\ known = ~Discovers /\ retrying = (IF Discovers THEN "waiting" ELSE "over")
    /\ renew = FALSE
    /\ pc = "starting" /\ branch = "start" /\ cur = FirstWait
    /\ left = 0 /\ fired = FALSE
    /\ occurred = {} /\ late = {} /\ gap = {} /\ taking = {}
    /\ asked = FALSE /\ calm = 1 /\ failures = 0

-----------------------------------------------------------------------------
(* GitHub and the stream.                                                  *)

\* Something happens, and is delivered, or missed.
Happen(e) ==
    /\ e \in Events \ occurred
    /\ occurred' = occurred \cup {e}
    /\ IF conn = "up" /\ known THEN UNCHANGED missed
       ELSE IF conn \in {"none", "first"} /\ known
       THEN late' = late \cup {e} /\ UNCHANGED gap
       ELSE gap' = gap \cup {e} /\ UNCHANGED late
    /\ UNCHANGED <<stream, identity, renew, loop, timer, taking, asked, calm, failures>>

\* A nudge never waits: a full channel already holds one.
Nudge == renew' = TRUE /\ asked' = TRUE

\* Seeded bug: the flag is cleared before it is looked at.
ConnectForgetting ==
    /\ conn \in {"first", "down"}
    /\ conn' = "up" /\ wasDown' = FALSE /\ UNCHANGED mode
    /\ UNCHANGED <<renew, asked>>
    /\ UNCHANGED <<identity, loop, timer, occurred, missed, taking, calm, failures>>

\* The stream is up: after a drop, or an attempt that failed, it nudges.
Connect ==
    /\ conn \in {"first", "down"}
    /\ conn' = "up" /\ wasDown' = FALSE /\ UNCHANGED mode
    /\ IF wasDown THEN Nudge ELSE UNCHANGED <<renew, asked>>
    /\ UNCHANGED <<identity, loop, timer, occurred, missed, taking, calm, failures>>

\* An attempt fails, or the stream ends; either way it is retried.
StreamEnds ==
    /\ conn \in {"first", "up", "dead"}
    /\ conn' = "down" /\ wasDown' = TRUE /\ UNCHANGED mode
    /\ UNCHANGED <<identity, renew, loop, timer, occurred, missed, taking, asked, calm, failures>>

\* The peer is gone; no probe has failed yet.
Die ==
    /\ conn = "up" /\ conn' = "dead"
    /\ UNCHANGED <<mode, wasDown, identity, renew, loop, timer, occurred, missed, taking, asked, calm,
                   failures>>

\* SweepNow, on the operator's word.
SweepNow ==
    /\ Nudge
    /\ UNCHANGED <<stream, identity, loop, timer, occurred, missed, taking, calm, failures>>

\* discoverSelfLoop: a retry that fails changes nothing, one that finds the
\* login nudges.
Discover ==
    /\ retrying = "waiting"
    /\ known' = TRUE /\ retrying' = "nudging"
    /\ UNCHANGED <<stream, renew, loop, timer, occurred, missed, taking, asked, calm, failures>>
NudgeDiscovered ==
    /\ retrying = "nudging" /\ retrying' = "over"
    /\ Nudge
    /\ UNCHANGED <<stream, known, loop, timer, occurred, missed, taking, calm, failures>>

-----------------------------------------------------------------------------
(* The sweep loop.                                                         *)

\* A sweep recovers what is missed when it starts, once it knows whose it is.
Sweep(why) ==
    /\ pc' = "sweeping" /\ branch' = why
    /\ taking' = IF known THEN late \cup gap ELSE {}
    /\ asked' = FALSE

SweepOnStart ==
    /\ pc = "starting" /\ Sweep("start")
    /\ UNCHANGED <<stream, identity, renew, cur, timer, occurred, missed, calm, failures>>

SweepOnRenew ==
    /\ pc = "waiting" /\ renew
    /\ renew' = FALSE
    /\ cur' = FirstWait /\ calm' = 1
    /\ Sweep("renew")
    /\ UNCHANGED <<stream, identity, timer, occurred, missed, failures>>

SweepOnTimer ==
    /\ pc = "waiting" /\ fired
    /\ fired' = FALSE
    /\ Sweep("timer")
    /\ UNCHANGED <<stream, identity, renew, cur, left, occurred, missed, calm, failures>>

\* Seeded bug: a nudge leaves the running timer alone.
RearmUnlessNudged ==
    IF Webhook /\ branch # "renew"
    THEN /\ cur' = (IF branch = "timer" THEN BackoffInterval(cur) ELSE cur)
         /\ left' = cur' /\ fired' = FALSE
    ELSE UNCHANGED <<cur, timer>>

\* Seeded bug: only a nudged sweep rearms the timer.
RearmNudged ==
    IF Webhook
    THEN /\ cur' = (IF branch = "timer" THEN BackoffInterval(cur) ELSE cur)
         /\ left' = (IF branch = "timer" THEN left ELSE cur') /\ fired' = FALSE
    ELSE IF branch = "start" THEN left' = cur /\ UNCHANGED <<cur, fired>>
    ELSE UNCHANGED <<cur, timer>>

\* After the sweep: resetTimer, backed off after a tick.  A ticker runs on.
Rearm ==
    IF Webhook
    THEN /\ cur' = (IF branch = "timer" THEN BackoffInterval(cur) ELSE cur)
         /\ left' = cur' /\ fired' = FALSE
    ELSE IF branch = "start" THEN left' = cur /\ UNCHANGED <<cur, fired>>
    ELSE UNCHANGED <<cur, timer>>

Calmer ==
    calm' = IF Webhook /\ branch = "timer" /\ cur < Ceiling THEN 2 * calm ELSE calm

\* Seeded bug: the nudges that came during the sweep are drained with it.
SweepEndsDraining ==
    /\ pc = "sweeping" /\ pc' = "waiting"
    /\ late' = late \ taking /\ gap' = gap \ taking /\ taking' = {}
    /\ Rearm /\ Calmer
    /\ renew' = FALSE
    /\ UNCHANGED <<stream, identity, branch, occurred, asked, failures>>

\* Seeded bug: what the sweep took stays behind.
SweepEndsHolding ==
    /\ pc = "sweeping" /\ pc' = "waiting"
    /\ late' = late \ taking /\ gap' = gap \ taking /\ UNCHANGED taking
    /\ Rearm /\ Calmer
    /\ UNCHANGED <<stream, identity, renew, branch, occurred, asked, failures>>

SweepEnds ==
    /\ pc = "sweeping" /\ pc' = "waiting"
    /\ late' = late \ taking /\ gap' = gap \ taking /\ taking' = {}
    /\ Rearm /\ Calmer
    /\ UNCHANGED <<stream, identity, renew, branch, occurred, asked, failures>>

SweepFails ==
    /\ pc = "sweeping" /\ failures < MaxFailures
    /\ pc' = "waiting" /\ taking' = {}
    /\ Rearm /\ Calmer
    /\ failures' = failures + 1
    /\ UNCHANGED <<stream, identity, renew, branch, occurred, missed, asked>>

\* Seeded bug: a timer where the poll needs a ticker.
TickOnce ==
    /\ left > 0
    /\ fired' = (fired \/ left = 1)
    /\ left' = left - 1
    /\ UNCHANGED <<stream, identity, renew, loop, occurred, missed, taking, asked, calm, failures>>

\* Time passes: a timer fires once, a ticker again and again, dropping a tick
\* nobody took.
Tick ==
    /\ left > 0
    /\ fired' = (fired \/ left = 1)
    /\ left' = IF left = 1 /\ ~Webhook THEN cur ELSE left - 1
    /\ UNCHANGED <<stream, identity, renew, loop, occurred, missed, taking, asked, calm, failures>>

Loop == SweepOnStart \/ SweepOnRenew \/ SweepOnTimer \/ SweepEnds \/ SweepFails
Next == \/ \E e \in Events : Happen(e)
        \/ Connect \/ StreamEnds \/ Die
        \/ SweepNow \/ Discover \/ NudgeDiscovered
        \/ Loop \/ Tick

Spec == Init /\ [][Next]_vars

\* The goroutines run on, time passes, and discovery succeeds in the end.  The stream is
\* owed nothing.
Fairness == /\ WF_vars(Loop) /\ WF_vars(Tick)
            /\ WF_vars(Discover) /\ WF_vars(NudgeDiscovered)
FairSpec == Spec /\ Fairness

-----------------------------------------------------------------------------
\* An event missed in a gap is not left to the timer: once the stream is up
\* again and the login known, a sweep that recovers it runs or is due, though
\* nudges coalesce and come in the middle of a sweep (smee.go, runSmee; source.go,
\* discoverSelfLoop).  A sweep that fails leaves what it was to recover to the
\* next.
NudgeCoversGap ==
    (conn = "up" /\ known /\ retrying = "over" /\ failures = 0) => (renew \/ gap \subseteq taking)

\* A nudge is never lost: until a sweep starts after it, the channel holds one
\* (source.go, SweepNow: a catch-up is already pending).
NudgeKept == asked => renew

\* The interval is the least, doubled by each calm wait since the last nudge, and the timer
\* never waits longer (sweep.go, sweepLoop, backoffInterval and resetTimer); where the ceiling
\* respects the floor, so does every wait (sweepFloor: the hard minimum for any sweep cadence).
CadenceFollowsCalm ==
    /\ Webhook /\ pc = "waiting" => cur = Least(SweepMin * calm, Ceiling) /\ left <= cur
    /\ SweepFloor <= Ceiling /\ pc = "waiting" => cur >= SweepFloor

\* Whatever is missed is recovered in the end, even if the stream never comes
\* back (sweep.go, sweepLoop and fixedSweepLoop).
EventuallyRecovered ==
    \A e \in Events : e \in late \cup gap ~> e \notin late \cup gap
=============================================================================
