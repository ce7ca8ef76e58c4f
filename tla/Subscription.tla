----------------------------- MODULE Subscription -----------------------------
(***************************************************************************)
(* The sources that hold a subscription (StartSource of ntfy, postgres,    *)
(* redis and mqtt; runRelay and relayOnce of internal/relay): connect, say *)
(* what to follow, emit what comes, and when the stream ends connect again *)
(* after a wait that doubles up to a bound.                                *)
(*                                                                         *)
(* A message that is published while nothing is subscribed is gone, and so *)
(* is what was on its way when the stream ended; a broker of MQTT keeps    *)
(* the last one and sends it to whoever subscribes, and a stream of ntfy   *)
(* may bring a message again.  A connection ends, a peer may also go away  *)
(* without a word, and then only those that probe it notice: the clients   *)
(* of redis and MQTT.                                                      *)
(***************************************************************************)
EXTENDS Integers, Sequences, FiniteSets

CONSTANTS
    Last,       \* bound on the messages
    MaxDrops,   \* bound on the times that a connection is lost or refused
    MaxAgain    \* bound on the messages that a stream of ntfy brings again

\* Whether a message is deduplicated; whether the last is kept for who subscribes; how
\* the reconnect waits, by the loop's own doubling or by the client library; whether the
\* peer is probed.
Ntfy     == [name |-> "ntfy",     dedups |-> TRUE,  retained |-> FALSE, doubles |-> TRUE,  probes |-> FALSE]
Postgres == [name |-> "postgres", dedups |-> FALSE, retained |-> FALSE, doubles |-> TRUE,  probes |-> FALSE]
Redis    == [name |-> "redis",    dedups |-> FALSE, retained |-> FALSE, doubles |-> FALSE, probes |-> TRUE]
Mqtt     == [name |-> "mqtt",     dedups |-> FALSE, retained |-> TRUE,  doubles |-> FALSE, probes |-> TRUE]
Relay    == [name |-> "relay",    dedups |-> FALSE, retained |-> FALSE, doubles |-> TRUE,  probes |-> FALSE]

Followers == {Ntfy, Postgres, Redis, Mqtt, Relay}

Messages   == 1..Last
MaxBackoff == 30

VARIABLES
    source,     \* which of them
    conn,       \* "down", "up" but not subscribed, "following", "deaf" (it was refused to
                \* subscribe), "silent" (the peer is gone)
    backoff,    \* the wait before the next try, in seconds
    published,  \* how many messages were
    pipe,       \* those on their way
    seen,       \* those that the process remembers
    told,       \* history: those that were emitted, in order
    missed,     \* history: those published to nobody, or lost with a stream
    drops, agains

vars == <<source, conn, backoff, published, pipe, seen, told, missed, drops, agains>>

TypeOK ==
    /\ source \in Followers
    /\ conn \in {"down", "up", "following", "deaf", "silent"}
    /\ backoff \in 1..(2 * MaxBackoff)
    /\ published \in 0..Last /\ seen \subseteq Messages /\ missed \subseteq Messages
    /\ pipe \in Seq(Messages) /\ told \in Seq(Messages)
    /\ drops \in 0..MaxDrops /\ agains \in 0..MaxAgain

Init == /\ source \in Followers /\ conn = "down" /\ backoff = 1
        /\ published = 0 /\ pipe = <<>> /\ seen = {} /\ told = <<>> /\ missed = {}
        /\ drops = 0 /\ agains = 0

Elements(s) == {s[i] : i \in DOMAIN s}

Publish ==
    /\ published < Last /\ published' = published + 1
    /\ IF conn = "following"
       THEN pipe' = Append(pipe, published + 1) /\ missed' = missed
       ELSE pipe' = pipe /\ missed' = missed \cup {published + 1}
    /\ UNCHANGED <<source, conn, backoff, seen, told, drops, agains>>

\* Seeded bug: a loop that has waited for long gives up.
ConnectAtFirst ==
    /\ conn = "down" /\ backoff <= 2 /\ conn' = "up"
    /\ UNCHANGED <<source, backoff, published, pipe, seen, told, missed, drops, agains>>

Connect == /\ conn = "down" /\ conn' = "up"
           /\ UNCHANGED <<source, backoff, published, pipe, seen, told, missed, drops, agains>>

\* MQTT: the broker sends what it retains.
Subscribe ==
    /\ conn = "up" /\ conn' = "following"
    /\ pipe' = IF source.retained /\ published > 0 THEN <<published>> ELSE <<>>
    /\ missed' = missed \ Elements(pipe')
    /\ UNCHANGED <<source, backoff, published, seen, told, drops, agains>>

\* MQTT: a subscription that is refused is logged, and the connection stays.
Refuse == /\ conn = "up" /\ source.retained /\ drops < MaxDrops /\ drops' = drops + 1
          /\ conn' = "deaf"
          /\ UNCHANGED <<source, backoff, published, pipe, seen, told, missed, agains>>

\* The next wait; nothing makes it short again.
Doubled == IF source.doubles /\ backoff < MaxBackoff THEN 2 * backoff ELSE backoff

Lose(to) == /\ conn' = to /\ pipe' = <<>>
            /\ missed' = missed \cup (Elements(pipe) \ Elements(told))

\* The connection is refused, or lost.
Drop == /\ conn \in {"up", "following", "deaf"} /\ drops < MaxDrops /\ drops' = drops + 1
        /\ Lose("down") /\ backoff' = Doubled
        /\ UNCHANGED <<source, published, seen, told, agains>>

\* The peer goes without a word.
Vanish == /\ conn = "following" /\ drops < MaxDrops /\ drops' = drops + 1
          /\ Lose("silent")
          /\ UNCHANGED <<source, backoff, published, seen, told, agains>>

Notice == /\ conn = "silent" /\ source.probes
          /\ conn' = "down" /\ backoff' = Doubled
          /\ UNCHANGED <<source, published, pipe, seen, told, missed, drops, agains>>

\* ntfy: a message that was brought is brought again.
Again == /\ source.dedups /\ conn = "following" /\ agains < MaxAgain /\ agains' = agains + 1
         /\ \E m \in Elements(told) : pipe' = Append(pipe, m)
         /\ UNCHANGED <<source, conn, backoff, published, seen, told, missed, drops>>

\* The stream is read, one message after the other, and each is emitted.
Read ==
    /\ conn = "following" /\ pipe # <<>> /\ pipe' = Tail(pipe)
    /\ IF source.dedups /\ Head(pipe) \in seen
       THEN UNCHANGED <<seen, told>>
       ELSE /\ seen' = IF source.dedups THEN seen \cup {Head(pipe)} ELSE seen
            /\ told' = Append(told, Head(pipe))
    /\ UNCHANGED <<source, conn, backoff, published, missed, drops, agains>>

Next == Publish \/ Connect \/ Subscribe \/ Refuse \/ Drop \/ Vanish \/ Notice \/ Again \/ Read
Spec == Init /\ [][Next]_vars

\* The loop tries again, a probe goes unanswered, and what comes is read.
Fairness == WF_vars(Connect) /\ WF_vars(Subscribe) /\ WF_vars(Notice) /\ WF_vars(Read)
-----------------------------------------------------------------------------
\* What is emitted comes in the order in which it was published, and once; a message that
\* MQTT retains comes again only as the last one was followed anew.
InOrder ==
    \A i, j \in DOMAIN told : i < j =>
        \/ told[i] < told[j]
        \/ source.retained /\ told[i] = told[j] /\ drops > 0

\* Each message is emitted, on its way, or was lost with its stream.
AllAccounted ==
    \A m \in Messages : m <= published => m \in Elements(told) \cup Elements(pipe) \cup missed

\* What is published while the source follows is emitted, or is lost with its stream.
Due(m)  == m <= published
Done(m) == m \in Elements(told) \cup missed
HeardIsTold == \A m \in Messages : Due(m) ~> Done(m)

\* It follows again and again, unless the peer went without a word from one
\* that does not probe it, or the broker refused the subscription.
Follows == conn = "following" \/ (conn = "silent" /\ ~source.probes) \/ conn = "deaf"
Returns == []<>Follows
=============================================================================
