------------------------------- MODULE Gateway -------------------------------
(***************************************************************************)
(* The gateway source of the discord connector (connectors/discord/main.go *)
(* gatewayState, handleFrame, StartSource, runGatewayOnce).                *)
(*                                                                         *)
(* One goroutine connects, reads frames and connects again.  Its session   *)
(* outlives its connections: as long as it knows one it resumes, and the   *)
(* gateway replays what came after the last sequence number; if the        *)
(* gateway says that the session is gone, it identifies afresh.            *)
(*                                                                         *)
(* The gateway is external: it keeps a log of what it dispatched in its    *)
(* session, for as long as it keeps the session, and a connection is a     *)
(* place in that log.  A dispatch is a reply by its number, or READY or    *)
(* anything else that is not emitted.  Heartbeats only keep a connection   *)
(* alive, and are left out.                                                *)
(***************************************************************************)
EXTENDS Integers, Sequences

CONSTANTS
    MaxReplies,     \* bound on replies
    MaxOthers,      \* bound on other dispatches
    MaxDrops        \* bound on connections and sessions that end

VARIABLES
    session,        \* the gateway's session: its number, whether the gateway
                    \* keeps it, and whether the client was told of it
    log,            \* what it dispatched in it
    place,          \* how much of it the connection was sent
    conn,           \* the connection: down, greeted, asked (and for what), live
    sessionID,      \* the client's session, or 0
    seq,            \* the last sequence number it saw, 0 for nil
    emitted,        \* history: how often each reply was emitted
    happened,       \* history: the replies there were
    missed,         \* history: those dispatched in no session, or in one that was
                    \* given up or never told of
    others, drops

gateway == <<session, log>>
client  == <<sessionID, seq>>
vars    == <<gateway, place, conn, client, emitted, happened, missed, others, drops>>

Other   == 0
Replies == 1..MaxReplies
Unheard == {n \in Replies : emitted[n] = 0 /\ \E i \in DOMAIN log : log[i] = n}

TypeOK ==
    /\ session \in [id : Nat, kept : BOOLEAN, told : BOOLEAN] /\ log \in Seq(Replies \cup {Other})
    /\ place \in 0..Len(log) /\ conn \in {"down", "greeted", "identify", "resume", "live"}
    /\ sessionID \in 0..session.id /\ seq \in 0..Len(log)
    /\ emitted \in [Replies -> Nat] /\ missed \subseteq happened /\ happened \subseteq Replies
    /\ others \in 0..MaxOthers /\ drops \in 0..MaxDrops

Init ==
    /\ session = [id |-> 0, kept |-> FALSE, told |-> FALSE] /\ log = <<>> /\ place = 0 /\ conn = "down"
    /\ sessionID = 0 /\ seq = 0
    /\ emitted = [n \in Replies |-> 0] /\ happened = {} /\ missed = {} /\ others = 0 /\ drops = 0

-----------------------------------------------------------------------------
(* The gateway.                                                            *)

\* Somebody replies: it is dispatched in the session, if there is one.
Reply(n) ==
    /\ n \notin happened /\ happened' = happened \cup {n}
    /\ IF session.kept THEN log' = Append(log, n) /\ UNCHANGED missed
       ELSE missed' = missed \cup {n} /\ UNCHANGED log
    /\ UNCHANGED <<session, place, conn, client, emitted, others, drops>>

\* Something else happens, a bot's message for one.
Chatter ==
    /\ session.kept /\ others < MaxOthers /\ others' = others + 1
    /\ log' = Append(log, Other)
    /\ UNCHANGED <<session, place, conn, client, emitted, happened, missed, drops>>

\* It gives the session up; the client learns of it now, or when it resumes.
Expire ==
    /\ session.kept /\ drops < MaxDrops /\ drops' = drops + 1
    /\ session' = [session EXCEPT !.kept = FALSE]
    /\ missed' = missed \cup Unheard
    /\ UNCHANGED <<log, place, conn, client, emitted, happened, others>>

\* An identify makes a session, whose first dispatch is READY.
Accept ==
    /\ conn = "identify" /\ conn' = "live"
    /\ session' = [id |-> session.id + 1, kept |-> TRUE, told |-> FALSE]
    /\ missed' = IF session.told THEN missed ELSE missed \cup Unheard
    /\ log' = <<Other>> /\ place' = 0
    /\ UNCHANGED <<client, emitted, happened, others, drops>>

\* A resume has what came after its number replayed.
Replay ==
    /\ conn = "resume" /\ session.kept /\ sessionID = session.id
    /\ conn' = "live" /\ place' = seq
    /\ UNCHANGED <<gateway, client, emitted, happened, missed, others, drops>>

-----------------------------------------------------------------------------
(* The client.                                                             *)

\* A connection is made, and the gateway says HELLO.
Connect ==
    /\ conn = "down" /\ conn' = "greeted"
    /\ UNCHANGED <<gateway, place, client, emitted, happened, missed, others, drops>>

\* HELLO: identify, or resume the session there is.
Hello ==
    /\ conn = "greeted" /\ conn' = IF sessionID # 0 THEN "resume" ELSE "identify"
    /\ UNCHANGED <<gateway, place, client, emitted, happened, missed, others, drops>>

\* What the connection is for is gone.
GivenUp == \/ conn = "resume" /\ ~(session.kept /\ sessionID = session.id)
           \/ conn = "live" /\ ~session.kept

\* INVALID_SESSION with d false: the session is forgotten with its number.
InvalidSession ==
    /\ GivenUp
    /\ conn' = "down" /\ sessionID' = 0 /\ seq' = 0
    /\ UNCHANGED <<gateway, place, emitted, happened, missed, others, drops>>

\* The connection ends, by RECONNECT, INVALID_SESSION with d true, or an error:
\* the session stays.
Drop ==
    /\ conn # "down" /\ drops < MaxDrops
    /\ conn' = "down" /\ drops' = drops + 1
    /\ UNCHANGED <<gateway, place, client, emitted, happened, missed, others>>

\* A dispatch: its number is kept, READY names the session, a reply is emitted.
Dispatch ==
    /\ conn = "live" /\ place < Len(log)
    /\ LET n == log[place + 1] IN
       /\ place' = place + 1 /\ seq' = place + 1
       /\ session' = [session EXCEPT !.told = TRUE]
       /\ sessionID' = IF place = 0 THEN session.id ELSE sessionID
       /\ emitted' = IF n = Other THEN emitted ELSE [emitted EXCEPT ![n] = @ + 1]
    /\ UNCHANGED <<log, conn, happened, missed, others, drops>>

Client == Connect \/ Hello \/ InvalidSession \/ Dispatch
Next == \/ \E n \in Replies : Reply(n)
        \/ Chatter \/ Expire \/ Accept \/ Replay
        \/ Client \/ Drop

\* The loop runs on, and the gateway answers.
Fairness == WF_vars(Client) /\ WF_vars(Accept) /\ WF_vars(Replay)

-----------------------------------------------------------------------------
\* No reply is emitted twice, however often the session is resumed (main.go,
\* gatewayState: seq survives a reconnect).
EmittedOnce == \A n \in Replies : emitted[n] <= 1

\* A reply that is neither emitted nor missed is in the log of a session that the gateway
\* keeps, behind the client's number, and the client, once told of the session, knows it: a
\* resume replays the reply.
StillInLog ==
    \A n \in happened \ missed : emitted[n] = 0 =>
        /\ session.kept /\ (session.told => sessionID = session.id)
        /\ \E i \in DOMAIN log : log[i] = n /\ i > seq

\* A reply dispatched in a session is emitted, unless the gateway gives the
\* session up first (main.go, handleFrame: replays whatever dispatches were
\* missed during the gap).
Due(n)  == n \in happened
Done(n) == emitted[n] > 0 \/ n \in missed
ReplyArrives == \A n \in Replies : Due(n) ~> Done(n)

\* Whatever ended, the connection is live again in the end (main.go, resetSession
\* and StartSource).
Live      == conn = "live"
ComesBack == ~Live ~> Live
=============================================================================
