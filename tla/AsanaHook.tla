------------------------------- MODULE AsanaHook ------------------------------
(***************************************************************************)
(* The webhook of asana (connectors/asana/main.go handle, acceptHandshake, *)
(* addSecret, verify, process).  A webhook of Asana's is established by a  *)
(* handshake that carries the secret its deliveries will be signed with,   *)
(* and that the source accepts once when it has no pinned secret, always   *)
(* with webhook.handshake set, and otherwise never.  A delivery is a batch *)
(* of events; it is acknowledged, and then a goroutine of its own reads    *)
(* more of each event, drops it if it is among the last DedupMax that were *)
(* let through, and emits it otherwise.  An event stands for its key: the  *)
(* resource, the action, the field, the time and the parent.               *)
(*                                                                         *)
(* Requests are served at the same time.  A reply may be lost: then Asana  *)
(* has no webhook, or sends the delivery again.  The process may be        *)
(* restarted, and forgets the secrets that are not pinned; the operator    *)
(* may pin one first, which the log shows.                                 *)
(***************************************************************************)
EXTENDS Integers, Sequences, FiniteSets

CONSTANTS
    Hooks,         \* handshakes of webhooks, each with a secret of its own
    Batches,       \* deliveries: a set of sequences of events
    DedupMax,      \* how many events are remembered (4096)
    MaxTaken,      \* bound on the deliveries that a process takes
    MaxLost,       \* bound on the replies that are lost
    MaxRestarts

Events == UNION {{b[i] : i \in DOMAIN b} : b \in Batches}
Modes  == {"bootstrap", "always", "never"}

VARIABLES
    mode,       \* what the configuration says of handshakes
    pinned,     \* the secrets that it pins
    window,     \* handshakes are accepted right now
    secrets,    \* those known to the process
    hook,       \* how far each handshake is
    installed,  \* history: the handshakes that were accepted since the process began
    sent,       \* the deliveries Asana holds unacknowledged: each with its webhook
    works,      \* the goroutines of the deliveries taken since the process began, in
                \* order: the batch, the event each is at, and the number under which
                \* that was let through, if it was and is not emitted yet
    accepted,   \* the events let through since the process began, in order
    emitted,    \* history: the numbers of those that were emitted since then, in order
    refused,    \* history: a webhook of this process had a delivery refused
    lost, restarts

source == <<window, secrets, works, accepted>>
vars   == <<mode, pinned, source, hook, installed, sent, emitted, refused, lost, restarts>>

TypeOK ==
    /\ mode \in Modes /\ pinned \subseteq Hooks /\ window \in BOOLEAN
    /\ secrets \subseteq Hooks /\ installed \subseteq Hooks
    /\ hook \in [Hooks -> {"new", "accepted", "known", "standing", "failed"}]
    /\ sent \subseteq [hook : Hooks, batch : Batches]
    /\ works \in Seq([of : Batches, at : Nat, holds : Nat]) /\ Len(works) <= MaxTaken
    /\ \A g \in DOMAIN works : works[g].at \in 1..(Len(works[g].of) + 1)
    /\ accepted \in Seq(Events) /\ emitted \in Seq(DOMAIN accepted) /\ refused \in BOOLEAN
    /\ lost \in 0..MaxLost /\ restarts \in 0..MaxRestarts

Awaits == mode = "always" \/ (mode = "bootstrap" /\ pinned = {})

Init ==
    /\ mode \in Modes /\ pinned = {} /\ window = Awaits /\ secrets = {}
    /\ hook = [h \in Hooks |-> "new"] /\ installed = {}
    /\ sent = {} /\ works = <<>> /\ accepted = <<>> /\ emitted = <<>>
    /\ refused = FALSE /\ lost = 0 /\ restarts = 0

-----------------------------------------------------------------------------
(* The handshake. *)

Goes(h, to) == hook' = [hook EXCEPT ![h] = to]

\* Seeded bug: it is left open until the secret is known.
AcceptOpen(h) ==
    /\ hook[h] = "new"
    /\ IF window THEN Goes(h, "accepted") /\ installed' = installed \cup {h}
                 ELSE Goes(h, "failed") /\ installed' = installed
    /\ window' = (window /\ (mode = "always" \/ secrets = {}))
    /\ UNCHANGED <<mode, pinned, secrets, works, accepted, sent, emitted, refused, lost, restarts>>

\* The window closes behind the first.
Accept(h) ==
    /\ hook[h] = "new"
    /\ IF window THEN Goes(h, "accepted") /\ installed' = installed \cup {h}
                 ELSE Goes(h, "failed") /\ installed' = installed
    /\ window' = (window /\ mode = "always")
    /\ UNCHANGED <<mode, pinned, secrets, works, accepted, sent, emitted, refused, lost, restarts>>

AddSecret(h) ==
    /\ hook[h] = "accepted" /\ Goes(h, "known")
    /\ secrets' = secrets \cup {h}
    /\ UNCHANGED <<mode, pinned, window, works, accepted, installed, sent, emitted, refused, lost, restarts>>

\* The echo: with it the webhook stands, and without it Asana has none.
Echo(h) ==
    /\ hook[h] = "known"
    /\ \/ Goes(h, "standing") /\ lost' = lost
       \/ lost < MaxLost /\ lost' = lost + 1 /\ Goes(h, "failed")
    /\ UNCHANGED <<mode, pinned, source, installed, sent, emitted, refused, restarts>>

-----------------------------------------------------------------------------
(* The deliveries. *)

Send(h, b) == /\ hook[h] = "standing"
              /\ sent' = sent \cup {[hook |-> h, batch |-> b]}
              /\ UNCHANGED <<mode, pinned, source, hook, installed, emitted, refused, lost, restarts>>

\* It is acknowledged, and Asana forgets it unless the reply is lost; one that is refused
\* is sent again.
Handle(d) ==
    /\ d \in sent /\ Len(works) < MaxTaken
    /\ IF d.hook \in secrets
       THEN /\ works' = Append(works, [of |-> d.batch, at |-> 1, holds |-> 0])
            /\ refused' = refused
            /\ \/ sent' = sent \ {d} /\ lost' = lost
               \/ lost < MaxLost /\ lost' = lost + 1 /\ sent' = sent
       ELSE /\ refused' = (refused \/ d.hook \in installed)
            /\ UNCHANGED <<sent, works, lost>>
    /\ UNCHANGED <<mode, pinned, window, secrets, hook, installed, accepted, emitted, restarts>>

\* The dedup is a window over what it lets through.
W == INSTANCE Window WITH Ids <- Events, Max <- DedupMax

\* A goroutine is at an event of its batch, or at the end; it holds the event, or comes to
\* the next one.
AtEvent(g) == g \in DOMAIN works /\ works[g].at \in DOMAIN works[g].of
EventAt(g) == works[g].of[works[g].at]
ComesTo(g, n, number) == works' = [works EXCEPT ![g] = [of |-> @.of, at |-> n, holds |-> number]]
Hold(g) == ComesTo(g, works[g].at, Len(accepted'))
GoOn(g) == ComesTo(g, works[g].at + 1, 0)

\* Seeded bug: an event that was seen before ends the batch.
LetStopping(g) ==
    /\ AtEvent(g) /\ works[g].holds = 0
    /\ \/ W!Accept(EventAt(g)) /\ Hold(g)
       \/ /\ EventAt(g) \in W!Recent /\ UNCHANGED accepted
          /\ ComesTo(g, Len(works[g].of) + 1, 0)
    /\ UNCHANGED <<mode, pinned, window, secrets, hook, installed, sent, emitted, refused, lost, restarts>>

\* Seeded bug: the oldest is forgotten before there is need of its place.
LetShort(g) ==
    /\ AtEvent(g) /\ works[g].holds = 0
    /\ IF \E k \in DOMAIN accepted : k > Len(accepted) - DedupMax + 1 /\ accepted[k] = EventAt(g)
       THEN GoOn(g) /\ UNCHANGED accepted
       ELSE accepted' = Append(accepted, EventAt(g)) /\ Hold(g)
    /\ UNCHANGED <<mode, pinned, window, secrets, hook, installed, sent, emitted, refused, lost, restarts>>

Let(g) ==
    /\ AtEvent(g) /\ works[g].holds = 0
    /\ \/ W!Accept(EventAt(g)) /\ Hold(g)
       \/ EventAt(g) \in W!Recent /\ UNCHANGED accepted /\ GoOn(g)
    /\ UNCHANGED <<mode, pinned, window, secrets, hook, installed, sent, emitted, refused, lost, restarts>>

Emit(g) ==
    /\ AtEvent(g) /\ works[g].holds # 0
    /\ GoOn(g)
    /\ emitted' = Append(emitted, works[g].holds)
    /\ UNCHANGED <<mode, pinned, window, secrets, hook, installed, sent, accepted, refused, lost, restarts>>

-----------------------------------------------------------------------------
Restart(pin) ==
    /\ restarts < MaxRestarts /\ restarts' = restarts + 1
    /\ pin \subseteq installed /\ pinned' = pinned \cup pin
    /\ secrets' = pinned'
    /\ window' = (mode = "always" \/ (mode = "bootstrap" /\ pinned' = {}))
    /\ hook' = [h \in Hooks |-> IF hook[h] \in {"accepted", "known"} THEN "failed" ELSE hook[h]]
    /\ works' = <<>> /\ accepted' = <<>> /\ emitted' = <<>> /\ installed' = {}
    /\ UNCHANGED <<mode, sent, refused, lost>>

Next == \/ \E h \in Hooks : Accept(h) \/ AddSecret(h) \/ Echo(h) \/ \E b \in Batches : Send(h, b)
        \/ \E d \in sent : Handle(d)
        \/ \E g \in DOMAIN works : Let(g) \/ Emit(g)
        \/ \E pin \in SUBSET installed : Restart(pin)
Spec == Init /\ [][Next]_vars
\* Every goroutine gets on with its batch.
Fairness == \A g \in 1..MaxTaken : WF_vars(Let(g) \/ Emit(g))
-----------------------------------------------------------------------------
\* Without webhook.handshake a process takes its secret from one handshake, however many
\* arrive at once, and from none when one is pinned.
OneHandshake ==
    /\ mode = "bootstrap" => Cardinality(installed) <= (IF pinned = {} THEN 1 ELSE 0)
    /\ mode = "never" => installed = {}

\* A webhook that was established with this process is known to it: none of its
\* deliveries is refused.
NoneRefused == ~refused

\* A process emits an event again only after DedupMax others were let through since: no
\* two numbers under which the same event was let through are nearer to each other, and none
\* is emitted twice.
EmittedOnce ==
    \A i, j \in DOMAIN emitted :
        (i # j /\ accepted[emitted[i]] = accepted[emitted[j]]) =>
            \/ emitted[i] - emitted[j] > DedupMax
            \/ emitted[j] - emitted[i] > DedupMax

\* Each event of a delivery that it takes is emitted, or some goroutine holds it, or the
\* delivery's own has yet to come to it: one that is dropped as a copy is in another's hands.
Emitted(e) == \E i \in DOMAIN emitted : accepted[emitted[i]] = e
Holds(g, e) == works[g].holds # 0 /\ EventAt(g) = e
NonePassedOver ==
    \A g \in DOMAIN works : \A n \in DOMAIN works[g].of :
        \/ Emitted(works[g].of[n]) \/ works[g].at <= n
        \/ \E v \in DOMAIN works : Holds(v, works[g].of[n])

\* Each event of a delivery that it takes is emitted, unless the process ends.
HandledIsEmitted ==
    \A b \in Batches : \A n \in DOMAIN b :
        (restarts = MaxRestarts /\ \E g \in DOMAIN works : works[g].of = b) ~> Emitted(b[n])
=============================================================================
