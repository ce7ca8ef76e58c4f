---------------------------- MODULE SlackInstances ----------------------------
(***************************************************************************)
(* The sources of one instance of the slack plugin (connectors/slack:      *)
(* socket.go StartSource, Start and Stop).                                 *)
(*                                                                         *)
(* One process serves every instance.  A start_source registers its source *)
(* and its cancel under a mutex and pumps until it is cancelled; a stop    *)
(* takes both out of the tables and calls the cancel outside the mutex; a  *)
(* source that ends takes itself out, unless another is there by then.     *)
(* Instances share the mutex alone, so there is one here.                  *)
(*                                                                         *)
(* The daemon is external: it starts and stops the instance in turn, as a  *)
(* reload does, without waiting for a source that is ending.               *)
(***************************************************************************)
EXTENDS Integers

CONSTANTS
    MaxStarts,      \* bound on the starts of the instance
    NoOne           \* no source

Starts == 1..MaxStarts      \* a start, its source and its cancel

VARIABLES
    pc,             \* where each start is
    cancelled,      \* the starts whose context is done
    sources,        \* the source registered, which is also whose cancel is
    stopping,       \* the source whose cancel a stop has taken
    latest,         \* the last start the daemon sent
    daemon,         \* whether it wants the instance to run
    missed          \* history: a stop came before its start registered

vars == <<pc, cancelled, sources, stopping, latest, daemon, missed>>

TypeOK ==
    /\ pc \in [Starts -> {"new", "starting", "running", "ending", "ended"}]
    /\ cancelled \subseteq Starts
    /\ sources \in Starts \cup {NoOne} /\ stopping \in Starts \cup {NoOne}
    /\ latest \in 0..MaxStarts /\ daemon \in {"up", "down", "stopping"}
    /\ (daemon = "stopping") = (stopping # NoOne) /\ missed \in BOOLEAN

Init ==
    /\ pc = [s \in Starts |-> "new"] /\ cancelled = {}
    /\ sources = NoOne /\ stopping = NoOne
    /\ latest = 0 /\ daemon = "down" /\ missed = FALSE

Goes(s, w) == pc' = [pc EXCEPT ![s] = w]

-----------------------------------------------------------------------------
(* The source.                                                             *)

\* The daemon sends a start.
Send ==
    /\ daemon = "down" /\ latest < MaxStarts
    /\ latest' = latest + 1 /\ daemon' = "up" /\ Goes(latest + 1, "starting")
    /\ UNCHANGED <<cancelled, sources, stopping, missed>>

\* Its triggers do not compile, or it has no app_token.
Refuse(s) ==
    /\ pc[s] = "starting" /\ Goes(s, "ended")
    /\ UNCHANGED <<cancelled, sources, stopping, latest, daemon, missed>>

\* It registers, over whatever is there.
Register(s) ==
    /\ pc[s] = "starting" /\ Goes(s, "running") /\ sources' = s
    /\ UNCHANGED <<cancelled, stopping, latest, daemon, missed>>

\* Start reconnects for ever, and returns once its context is done.
Return(s) ==
    /\ pc[s] = "running" /\ s \in cancelled /\ Goes(s, "ending")
    /\ UNCHANGED <<cancelled, sources, stopping, latest, daemon, missed>>

\* Seeded bug: the end of a source takes out whatever is there.
UnregisterAny(s) ==
    /\ pc[s] = "ending" /\ Goes(s, "ended") /\ sources' = NoOne
    /\ UNCHANGED <<cancelled, stopping, latest, daemon, missed>>

\* The deferred function: it takes itself out.
Unregister(s) ==
    /\ pc[s] = "ending" /\ Goes(s, "ended")
    /\ sources' = IF sources = s THEN NoOne ELSE sources
    /\ UNCHANGED <<cancelled, stopping, latest, daemon, missed>>

-----------------------------------------------------------------------------
(* The stop.                                                               *)

\* Stop takes source and cancel out under the mutex,
Take ==
    /\ daemon = "up" /\ stopping' = sources /\ sources' = NoOne
    /\ daemon' = (IF sources = NoOne THEN "down" ELSE "stopping")
    /\ missed' = (missed \/ (sources = NoOne /\ pc[latest] = "starting"))
    /\ UNCHANGED <<pc, cancelled, latest>>

\* and calls the cancel outside it.
Cancel ==
    /\ daemon = "stopping" /\ daemon' = "down" /\ stopping' = NoOne
    /\ cancelled' = cancelled \cup {stopping}
    /\ UNCHANGED <<pc, sources, latest, missed>>

Next == \/ Send \/ Take \/ Cancel
        \/ \E s \in Starts : Refuse(s) \/ Register(s) \/ Return(s) \/ Unregister(s)

\* Handlers run on, and the pump ends with its context.
Fairness == /\ WF_vars(Cancel)
            /\ \A s \in Starts : WF_vars(Return(s)) /\ WF_vars(Unregister(s))

-----------------------------------------------------------------------------
Live(s) == pc[s] = "running" /\ s \notin cancelled

\* A stop can reach whatever pumps, in the table or about to be cancelled, however
\* late an earlier source of the instance ends, unless a stop once came before its
\* start registered (socket.go, StartSource: the deferred function, and Stop).
StopReaches == \A s \in Starts : (Live(s) /\ ~missed) => s \in {sources, stopping}

\* One source of the instance pumps at a time, with the same exception: a second
\* would emit every event again, with a dedup of its own.
OnePump == \A s, t \in Starts : (Live(s) /\ Live(t) /\ ~missed) => s = t

\* What a stop has taken out of the table ends (socket.go, Stop: ends the
\* instance's Socket Mode connection).
Due(s)  == stopping = s
Done(s) == pc[s] = "ended"
StoppedEnds == \A s \in Starts : Due(s) ~> Done(s)
=============================================================================
