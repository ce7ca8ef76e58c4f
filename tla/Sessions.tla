------------------------------- MODULE Sessions -------------------------------
(***************************************************************************)
(* The session that the calls of a connector share (do of unifi, synology, *)
(* pihole, qbittorrent, nginx-proxy-manager and keycloak): use the one     *)
(* that is cached, log in when there is none, and when the service refuses *)
(* the request log in once more and try it a second time.                  *)
(*                                                                         *)
(* Three ways of sharing it are in use.  `locked' (unifi, synology): a     *)
(* call holds the session's lock from its start to its end.  `shared'      *)
(* (pihole, qbittorrent, nginx-proxy-manager): the lock is held to read or *)
(* to set the session, and a request reads it when it is sent.  `token'    *)
(* (keycloak): a call keeps the token that it was given.                   *)
(*                                                                         *)
(* Calls run at the same time.  The service may end every session at once  *)
(* (it restarts, the sessions time out); a login does not end another.     *)
(***************************************************************************)
EXTENDS Naturals, FiniteSets

CONSTANTS
    Calls,
    MaxEnds,   \* bound on how often the service ends the sessions
    MaxErrors  \* bound on the requests that fail otherwise

None     == 0
Styles   == {"locked", "shared", "token"}
Sessions == 1..(2 * Cardinality(Calls) + 1)

VARIABLES
    style,
    cached,   \* the session of the client
    issued,   \* how many sessions the service gave
    valid,    \* those that it accepts
    pc,       \* how far each call is
    tried,    \* it was refused once
    using,    \* the session it was given, or sent
    met,      \* history: another call was under way when it was
    ended,    \* history: the sessions were ended after it was refused
    ends, errors

vars == <<style, cached, issued, valid, pc, tried, using, met, ended, ends, errors>>

Over == {"done", "refused", "failed"}
PCs  == {"idle", "get", "login", "store", "send", "sent"} \cup Over

TypeOK ==
    /\ style \in Styles
    /\ cached \in Sessions \cup {None} /\ issued \in 0..(2 * Cardinality(Calls) + 1)
    /\ valid \subseteq 1..issued
    /\ pc \in [Calls -> PCs] /\ tried \in [Calls -> BOOLEAN]
    /\ using \in [Calls -> Sessions \cup {None}]
    /\ met \in [Calls -> BOOLEAN] /\ ended \in [Calls -> BOOLEAN]
    /\ ends \in 0..MaxEnds /\ errors \in 0..MaxErrors

\* A process that has just begun, or one that has a session.
Init ==
    /\ style \in Styles
    /\ issued \in {0, 1} /\ cached = issued /\ valid = 1..issued
    /\ pc = [c \in Calls |-> "idle"] /\ tried = [c \in Calls |-> FALSE]
    /\ using = [c \in Calls |-> None]
    /\ met = [c \in Calls |-> FALSE] /\ ended = [c \in Calls |-> FALSE]
    /\ ends = 0 /\ errors = 0

UnderWay(c) == pc[c] \notin Over \cup {"idle"}
Goes(c, to) == pc' = [pc EXCEPT ![c] = to]

\* Seeded bug: the lock is not taken.
StartUnlocked(c) ==
    /\ pc[c] = "idle" /\ Goes(c, "get")
    /\ met' = [d \in Calls |-> met[d] \/ (IF d = c THEN \E e \in Calls : UnderWay(e) ELSE UnderWay(d))]
    /\ UNCHANGED <<style, cached, issued, valid, tried, using, ended, ends, errors>>

\* The lock of a session that is locked is free.
Start(c) ==
    /\ pc[c] = "idle" /\ Goes(c, "get")
    /\ style = "locked" => \A d \in Calls : ~UnderWay(d)
    /\ met' = [d \in Calls |-> met[d] \/ (IF d = c THEN \E e \in Calls : UnderWay(e) ELSE UnderWay(d))]
    /\ UNCHANGED <<style, cached, issued, valid, tried, using, ended, ends, errors>>

\* ensureLoggedIn, and token.
Get(c) ==
    /\ pc[c] = "get"
    /\ Goes(c, IF cached = None THEN "login" ELSE IF style = "token" THEN "sent" ELSE "send")
    /\ using' = [using EXCEPT ![c] = IF style = "token" THEN cached ELSE @]
    /\ UNCHANGED <<style, cached, issued, valid, tried, met, ended, ends, errors>>

\* login: the service gives a session, and then it is cached.
Login(c) ==
    /\ pc[c] = "login" /\ Goes(c, "store")
    /\ issued' = issued + 1 /\ valid' = valid \cup {issued + 1}
    /\ using' = [using EXCEPT ![c] = issued + 1]
    /\ UNCHANGED <<style, cached, tried, met, ended, ends, errors>>

Store(c) ==
    /\ pc[c] = "store" /\ Goes(c, IF style = "token" THEN "sent" ELSE "send")
    /\ cached' = using[c]
    /\ UNCHANGED <<style, issued, valid, tried, using, met, ended, ends, errors>>

\* send: the request carries what is cached by now, which may be nothing.
Send(c) ==
    /\ pc[c] = "send" /\ Goes(c, "sent")
    /\ using' = [using EXCEPT ![c] = cached]
    /\ UNCHANGED <<style, cached, issued, valid, tried, met, ended, ends, errors>>

Accept(c) ==
    /\ pc[c] = "sent" /\ using[c] \in valid /\ Goes(c, "done")
    /\ UNCHANGED <<style, cached, issued, valid, tried, using, met, ended, ends, errors>>

\* Seeded bug: that the call has logged in again is not remembered.
RefuseAgain(c) ==
    /\ pc[c] = "sent" /\ using[c] \notin valid
    /\ Goes(c, IF style = "token" THEN "get" ELSE "login")
    /\ tried' = tried /\ ended' = [ended EXCEPT ![c] = FALSE] /\ cached' = None
    /\ UNCHANGED <<style, issued, valid, using, met, ends, errors>>

\* relogin, and invalidateToken: the session is forgotten, whoever's it is.
Refuse(c) ==
    /\ pc[c] = "sent" /\ using[c] \notin valid
    /\ IF tried[c]
       THEN Goes(c, "refused") /\ UNCHANGED <<cached, tried, ended>>
       ELSE /\ Goes(c, IF style = "token" THEN "get" ELSE "login")
            /\ tried' = [tried EXCEPT ![c] = TRUE] /\ ended' = [ended EXCEPT ![c] = FALSE]
            /\ cached' = None
    /\ UNCHANGED <<style, issued, valid, using, met, ends, errors>>

\* Any other failure is the call's: also of a login whose answer is lost.
Fail(c) ==
    /\ pc[c] \in {"login", "store", "sent"} /\ errors < MaxErrors /\ errors' = errors + 1
    /\ Goes(c, "failed")
    /\ UNCHANGED <<style, cached, issued, valid, tried, using, met, ended, ends>>

End == /\ ends < MaxEnds /\ ends' = ends + 1
       /\ valid' = {} /\ ended' = [c \in Calls |-> TRUE]
       /\ UNCHANGED <<style, cached, issued, pc, tried, using, met, errors>>

Next == \/ \E c \in Calls : \/ Start(c) \/ Get(c) \/ Login(c) \/ Store(c) \/ Send(c)
                            \/ Accept(c) \/ Refuse(c) \/ Fail(c)
        \/ End
Spec == Init /\ [][Next]_vars
-----------------------------------------------------------------------------
\* A call is refused only if the sessions were ended again after it was refused a first
\* time.  Without the lock that is so of calls that met no other.
SurvivesEnd ==
    \A c \in Calls : pc[c] = "refused" /\ ~ended[c] => style # "locked" /\ met[c]

\* Under the lock a session is asked for once, and once more each time they are ended.
LoginsBounded == style = "locked" => issued <= ends + 1 + errors
=============================================================================
