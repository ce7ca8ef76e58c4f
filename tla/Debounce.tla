------------------------------- MODULE Debounce -------------------------------
(***************************************************************************)
(* The debouncer of one watch (connectors/fswatch/watch.go: debouncer and  *)
(* arm, and the loop and the emit of main.go's StartSource).               *)
(*                                                                         *)
(* Each change arms the watch: it is remembered as the last, and the timer *)
(* is set, or set back.  When the timer expires a goroutine of its own     *)
(* reads the last change under the watch's mutex and emits it.  A change   *)
(* can come between the expiry and the read.  Watches share nothing but    *)
(* the mutex of emit, so there is one here.                                *)
(***************************************************************************)
EXTENDS Integers, Sequences

CONSTANTS
    Window,         \* the debounce window, in ticks
    MaxArms         \* bound on changes

VARIABLES
    armed,          \* how many changes there were: the last is lastPath
    timer,          \* ticks to go, or Unset
    age,            \* history: ticks since the last change
    expired,        \* goroutines that have not read yet
    read,           \* the changes that were read and are not emitted yet
    emitted,        \* history: those that were emitted, in order
    raced           \* history: a change came between an expiry and its read

vars == <<armed, timer, age, expired, read, emitted, raced>>

Unset   == -1
Changes == 0..MaxArms
Lower(a, b) == IF a < b THEN a ELSE b

TypeOK ==
    /\ armed \in Changes /\ timer \in Unset..Window /\ age \in 0..Window
    /\ expired \in Nat
    /\ read \in Seq(Changes) /\ emitted \in Seq(Changes) /\ raced \in BOOLEAN

Init ==
    /\ armed = 0 /\ timer = Unset /\ age = 0 /\ expired = 0
    /\ read = <<>> /\ emitted = <<>> /\ raced = FALSE

-----------------------------------------------------------------------------
\* Seeded bug: a timer that runs is left alone.
ArmOnce ==
    /\ armed < MaxArms /\ armed' = armed + 1 /\ age' = 0
    /\ timer' = IF timer = Unset THEN Window ELSE timer
    /\ raced' = (raced \/ expired > 0)
    /\ UNCHANGED <<expired, read, emitted>>

\* arm: under the mutex of the watch.
Arm ==
    /\ armed < MaxArms /\ armed' = armed + 1 /\ age' = 0
    /\ timer' = Window
    /\ raced' = (raced \/ expired > 0)
    /\ UNCHANGED <<expired, read, emitted>>

Tick ==
    /\ timer > 0 /\ timer' = timer - 1 /\ age' = Lower(age + 1, Window)
    /\ UNCHANGED <<armed, expired, read, emitted, raced>>

Expire ==
    /\ timer = 0 /\ timer' = Unset /\ expired' = expired + 1
    /\ UNCHANGED <<armed, age, read, emitted, raced>>

\* The timer's goroutine reads the last change.
Read ==
    /\ expired > 0 /\ expired' = expired - 1
    /\ read' = Append(read, armed)
    /\ UNCHANGED <<armed, timer, age, emitted, raced>>

\* fireFn: one emit at a time, in any order.
Without(s, i) == [j \in 1..(Len(s) - 1) |-> IF j < i THEN s[j] ELSE s[j + 1]]

Emit(n) ==
    /\ \E i \in DOMAIN read : read[i] = n /\ read' = Without(read, i)
    /\ emitted' = Append(emitted, n)
    /\ UNCHANGED <<armed, timer, age, expired, raced>>

Next == Arm \/ Tick \/ Expire \/ Read \/ \E n \in Changes : Emit(n)

\* Time passes, and goroutines run.
Fairness == WF_vars(Tick) /\ WF_vars(Expire) /\ WF_vars(Read)
            /\ \A n \in Changes : WF_vars(Emit(n))

-----------------------------------------------------------------------------
\* A change makes for one event at most, whatever is still under way (watch.go,
\* debouncer: coalesces a burst into one fire).
FiresAtMostArms ==
    Len(emitted) + Len(read) + expired + (IF timer = Unset THEN 0 ELSE 1) <= armed

\* The watch was quiet for its window before it fires, unless a change came
\* between an expiry and its read (watch.go, debouncer: once the watch has been
\* quiet for its debounce window).
FiresWhenQuiet == (expired > 0 /\ ~raced) => age = Window

\* The last change is never left behind: its timer runs, a goroutine will read it, or it was
\* read (watch.go, arm: a timer that has expired is set again).
LastInReach ==
    armed > 0 => \/ timer # Unset \/ expired > 0
                 \/ \E i \in DOMAIN read : read[i] = armed
                 \/ \E i \in DOMAIN emitted : emitted[i] = armed

\* Every change is emitted, or a later one is (watch.go, arm: a timer that has
\* expired is set again).
Due(n)  == armed >= n
Done(n) == \E i \in DOMAIN emitted : emitted[i] >= n
Settles == \A n \in 1..MaxArms : Due(n) ~> Done(n)
=============================================================================
