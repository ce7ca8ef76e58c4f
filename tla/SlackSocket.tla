------------------------------ MODULE SlackSocket -----------------------------
(***************************************************************************)
(* The envelopes of Slack's Socket Mode (connectors/slack: socket.go       *)
(* pumpSocket, events.go, interactive.go).  One read loop takes an         *)
(* envelope, decides whether it is new, acknowledges it, and leaves its    *)
(* work (an emit, a button, a modal) to a goroutine.                       *)
(*                                                                         *)
(* People use the bot: they mention it, react, reply, run a command or a   *)
(* shortcut.  A trigger with a form asks first: a mention is answered with *)
(* a button, a click on it or a shortcut opens a modal, and what is        *)
(* submitted fires.  Slack sends an envelope again until it is             *)
(* acknowledged, and gives up.  The process may be restarted between any   *)
(* two steps; what Slack shows of buttons and modals stays.                *)
(*                                                                         *)
(* The limits of what is remembered (keys, buttons) are not reached, and   *)
(* the triggers match and stay.  The engine runs one signature once.       *)
(***************************************************************************)
EXTENDS Naturals, FiniteSets

CONSTANTS
    Uses,        \* what people do, each once
    MaxCopies,   \* bound on how often Slack sends an envelope
    MaxClicks,   \* bound on the clicks on a button
    MaxSubmits,  \* bound on the submissions of a modal
    MaxRestarts

Kinds   == {"event", "reaction", "shortcut", "mention form", "shortcut form"}
HasForm  == {"mention form", "shortcut form"}

\* A use of the bot, the n-th click on its button, and the n-th submission of a modal,
\* which is filled in well or not.
Envelopes == [of : {"use", "click", "good", "bad"}, use : Uses, n : 0..(MaxClicks + MaxSubmits)]

VARIABLES
    kind,     \* of each use; all of them are on one message
    pending,  \* the envelopes that Slack has not seen acknowledged
    copies,   \* how often each was sent
    deciding, \* what the read loop is about: no envelope or one, and whether it is new
    works,    \* what goroutines have to do, and the envelope that it is for
    dedup,    \* the keys that were remembered since the process began
    forms,    \* the buttons that the process knows
    buttons,  \* those that people see
    clicks,   \* on each
    modals,   \* that they see: "none", "open" or "closed"
    submits,  \* of each
    emitted,  \* history: how often an event was emitted for each use since then
    acked,    \* history: the uses whose firing envelope was acknowledged
    lost,     \* history: those whose work ended with a process, or failed
    ran,      \* the engine: the uses that it ran
    signed,   \*   and the signatures that it has seen
    restarts

socket == <<deciding, works, dedup, forms>>
people == <<kind, buttons, clicks, modals, submits>>
engine == <<ran, signed>>
vars   == <<pending, copies, socket, people, emitted, acked, lost, engine, restarts>>

TypeOK ==
    /\ kind \in [Uses -> Kinds]
    /\ pending \subseteq Envelopes /\ copies \in [Envelopes -> 0..MaxCopies]
    /\ deciding \subseteq [e : Envelopes, new : BOOLEAN] /\ Cardinality(deciding) <= 1
    /\ works \subseteq [do : {"emit", "offer", "open"}, of : Envelopes]
    /\ dedup \subseteq Envelopes /\ emitted \in [Uses -> Nat]
    /\ forms \subseteq Uses /\ buttons \subseteq Uses
    /\ clicks \in [Uses -> 0..MaxClicks] /\ submits \in [Uses -> 0..MaxSubmits]
    /\ modals \in [Uses -> {"none", "open", "closed"}]
    /\ acked \subseteq Uses /\ lost \subseteq Uses /\ ran \subseteq Uses
    /\ restarts \in 0..MaxRestarts

Init ==
    /\ kind \in [Uses -> Kinds] /\ pending = {} /\ copies = [e \in Envelopes |-> 0]
    /\ deciding = {} /\ works = {} /\ dedup = {} /\ forms = {} /\ buttons = {}
    /\ clicks = [u \in Uses |-> 0] /\ modals = [u \in Uses |-> "none"]
    /\ submits = [u \in Uses |-> 0] /\ emitted = [u \in Uses |-> 0]
    /\ acked = {} /\ lost = {} /\ ran = {} /\ signed = {} /\ restarts = 0

-----------------------------------------------------------------------------
(* People. *)

Sends(of, u, n) == pending' = pending \cup {[of |-> of, use |-> u, n |-> n]}

Use(u) == /\ copies[[of |-> "use", use |-> u, n |-> 0]] = 0
          /\ [of |-> "use", use |-> u, n |-> 0] \notin pending
          /\ Sends("use", u, 0)
          /\ UNCHANGED <<copies, socket, people, emitted, acked, lost, engine, restarts>>

Click(u) == /\ u \in buttons /\ clicks[u] < MaxClicks
            /\ clicks' = [clicks EXCEPT ![u] = @ + 1] /\ Sends("click", u, clicks[u] + 1)
            /\ UNCHANGED <<copies, socket, kind, buttons, modals, submits, emitted, acked, lost, engine, restarts>>

\* What was submitted well closes the modal when it is acknowledged.
Submit(u, of) ==
    /\ modals[u] = "open" /\ submits[u] < MaxSubmits
    /\ submits' = [submits EXCEPT ![u] = @ + 1] /\ Sends(of, u, submits[u] + 1)
    /\ UNCHANGED <<copies, socket, kind, buttons, clicks, modals, emitted, acked, lost, engine, restarts>>

\* Slack sends no more of it.
GiveUp(e) == /\ e \in pending /\ copies[e] = MaxCopies /\ pending' = pending \ {e}
             /\ UNCHANGED <<copies, socket, people, emitted, acked, lost, engine, restarts>>

-----------------------------------------------------------------------------
(* The read loop. *)

\* An event, a command, a reply, a reaction and a shortcut without a form fire; so does
\* what is submitted well.
Fires(e) == e.of = "good" \/ (e.of = "use" /\ kind[e.use] \notin HasForm)

\* What is looked up before it is remembered: all but a click and a shortcut's modal.
Keyed(e) == Fires(e) \/ (e.of = "use" /\ kind[e.use] = "mention form")

\* Seeded bug: a use and what is submitted after it share one key.
DecideByUse(e) ==
    /\ deciding = {} /\ e \in pending /\ copies[e] < MaxCopies
    /\ copies' = [copies EXCEPT ![e] = @ + 1]
    /\ deciding' = {[e |-> e, new |-> Keyed(e) => \A d \in dedup : d.use # e.use]}
    /\ dedup' = IF Keyed(e) THEN dedup \cup {e} ELSE dedup
    /\ UNCHANGED <<pending, works, forms, people, emitted, acked, lost, engine, restarts>>

Decide(e) ==
    /\ deciding = {} /\ e \in pending /\ copies[e] < MaxCopies
    /\ copies' = [copies EXCEPT ![e] = @ + 1]
    /\ deciding' = {[e |-> e, new |-> Keyed(e) => e \notin dedup]}
    /\ dedup' = IF Keyed(e) THEN dedup \cup {e} ELSE dedup
    /\ UNCHANGED <<pending, works, forms, people, emitted, acked, lost, engine, restarts>>

\* What a new envelope leaves to be done.
Work(e) ==
    IF Fires(e) THEN {[do |-> "emit", of |-> e]}
    ELSE IF e.of = "use" /\ kind[e.use] = "mention form" THEN {[do |-> "offer", of |-> e]}
    ELSE IF e.of = "use" \/ (e.of = "click" /\ e.use \in forms) THEN {[do |-> "open", of |-> e]}
    ELSE {}

\* Its write may fail; the work is done all the same.
Ack(d, heard) ==
    /\ d \in deciding /\ deciding' = {}
    /\ works' = IF d.new THEN works \cup Work(d.e) ELSE works
    /\ pending' = IF heard THEN pending \ {d.e} ELSE pending
    /\ acked' = IF heard /\ Fires(d.e) THEN acked \cup {d.e.use} ELSE acked
    /\ modals' = IF heard /\ d.e.of = "good" THEN [modals EXCEPT ![d.e.use] = "closed"] ELSE modals
    /\ UNCHANGED <<copies, dedup, forms, kind, buttons, clicks, submits, emitted, lost, engine, restarts>>

-----------------------------------------------------------------------------
(* The goroutines. *)

\* What the engine takes for one event: a command and a message are their own, a
\* reaction, a shortcut and a form are told apart by their message alone.
Signature(u) == IF kind[u] = "event" THEN <<"event", u>> ELSE <<kind[u]>>

Emit(w) ==
    /\ w \in works /\ w.do = "emit" /\ works' = works \ {w}
    /\ emitted' = [emitted EXCEPT ![w.of.use] = @ + 1]
    /\ signed' = signed \cup {Signature(w.of.use)}
    /\ ran' = IF Signature(w.of.use) \in signed THEN ran ELSE ran \cup {w.of.use}
    /\ UNCHANGED <<pending, copies, deciding, dedup, forms, people, acked, lost, restarts>>

\* The button is known before it is posted, and the post may fail.
Offer(w, ok) ==
    /\ w \in works /\ w.do = "offer" /\ works' = works \ {w}
    /\ forms' = forms \cup {w.of.use}
    /\ buttons' = IF ok THEN buttons \cup {w.of.use} ELSE buttons
    /\ UNCHANGED <<pending, copies, deciding, dedup, kind, clicks, modals, submits, emitted, acked, lost, engine, restarts>>

\* It may come too late for the trigger_id.
Open(w, ok) ==
    /\ w \in works /\ w.do = "open" /\ works' = works \ {w}
    /\ modals' = IF ok THEN [modals EXCEPT ![w.of.use] = "open"] ELSE modals
    /\ UNCHANGED <<pending, copies, deciding, dedup, forms, kind, buttons, clicks, submits, emitted, acked, lost, engine, restarts>>

\* A button expires, after half an hour.
Expire(u) == /\ u \in forms /\ forms' = forms \ {u}
             /\ UNCHANGED <<pending, copies, deciding, works, dedup, people, emitted, acked, lost, engine, restarts>>

Restart ==
    /\ restarts < MaxRestarts /\ restarts' = restarts + 1
    /\ deciding' = {} /\ works' = {} /\ dedup' = {} /\ forms' = {}
    /\ emitted' = [u \in Uses |-> 0]
    /\ lost' = lost \cup {w.of.use : w \in works}
    /\ UNCHANGED <<pending, copies, people, acked, engine>>

Next ==
    \/ \E u \in Uses : Use(u) \/ Click(u) \/ Submit(u, "good") \/ Submit(u, "bad") \/ Expire(u)
    \/ \E e \in Envelopes : GiveUp(e) \/ Decide(e)
    \/ \E d \in deciding, heard \in BOOLEAN : Ack(d, heard)
    \/ \E w \in works : Emit(w) \/ \E ok \in BOOLEAN : Offer(w, ok) \/ Open(w, ok)
    \/ Restart
Spec == Init /\ [][Next]_vars

\* The loop and the goroutines get on with it.
Fairness ==
    /\ WF_vars(\E e \in Envelopes : Decide(e))
    /\ WF_vars(\E d \in deciding, heard \in BOOLEAN : Ack(d, heard))
    /\ \A u \in Uses : WF_vars(\E w \in works : w.of.use = u /\ Emit(w))
-----------------------------------------------------------------------------
\* A process emits a use of the bot once, however often its envelopes are sent again; one
\* with a form once for each time that it was submitted well.
EmittedOnce ==
    \A u \in Uses : emitted[u] <= IF kind[u] \in HasForm THEN submits[u] ELSE 1

\* What was acknowledged is being worked on, was emitted, or was lost with its process: a copy
\* that is dropped is of an envelope whose work was begun.
AckedIsWorkedOn ==
    \A u \in acked \ lost :
        Signature(u) \in signed \/ \E w \in works : w.do = "emit" /\ w.of.use = u

\* What was acknowledged is emitted, unless the process ends before its work is done.
Due(u)  == u \in acked /\ u \notin lost
Done(u) == u \in lost \/ Signature(u) \in signed
AckedIsEmitted == \A u \in Uses : Due(u) ~> Done(u)
=============================================================================
