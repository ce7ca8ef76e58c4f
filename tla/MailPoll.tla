------------------------------- MODULE MailPoll -------------------------------
(***************************************************************************)
(* The IMAP source (connectors/email/main.go: StartSource, pollIMAP).      *)
(*                                                                         *)
(* One goroutine polls: it searches for unseen mail, and fetches, emits    *)
(* and marks each in turn.  Any command may fail, which ends the           *)
(* connection and starts the poll over.  What was handled is remembered by *)
(* message id in a dedup that dies with the process (of 4096, more than    *)
(* there are mails here); what is marked is remembered by the server.      *)
(***************************************************************************)
EXTENDS Integers

CONSTANTS
    Mails,          \* mails, by uid
    IdOf(_),        \* the message id of a mail, a copy's being the original's
    MaxFailures,    \* bound on commands that fail
    MaxRestarts     \* bound on restarts of the process

VARIABLES
    marks,          \* mark_seen
    arrived,        \* the mails in the mailbox
    seen,           \* those marked \Seen
    dedup,          \* message ids handled by this process
    pc,             \* where the goroutine is
    left,           \* mails of the search still to be handled
    now,            \* the mail at hand, if any
    emits,          \* history: how often each was emitted
    elsewhere,      \* history: mails somebody read
    failures, restarts

mailbox == <<marks, arrived, seen, elsewhere>>
poll    == <<dedup, pc, left, now>>
vars    == <<mailbox, poll, emits, failures, restarts>>

Ids == {IdOf(m) : m \in Mails}

TypeOK ==
    /\ marks \in BOOLEAN /\ seen \cup elsewhere \subseteq arrived /\ arrived \subseteq Mails
    /\ dedup \subseteq Ids
    /\ pc \in {"down", "search", "fetch", "emit", "mark"}
    /\ left \subseteq arrived /\ now \subseteq arrived \ left
    /\ (pc \in {"emit", "mark"}) = (now # {})
    /\ emits \in [Ids -> Nat]
    /\ failures \in 0..MaxFailures /\ restarts \in 0..MaxRestarts

Init ==
    /\ marks \in BOOLEAN /\ arrived = {} /\ seen = {} /\ elsewhere = {}
    /\ dedup = {} /\ pc = "down" /\ left = {} /\ now = {}
    /\ emits = [i \in Ids |-> 0] /\ failures = 0 /\ restarts = 0

-----------------------------------------------------------------------------
(* The mailbox.                                                            *)

Arrive(m) ==
    /\ m \notin arrived /\ arrived' = arrived \cup {m}
    /\ UNCHANGED <<marks, seen, elsewhere, poll, emits, failures, restarts>>

\* Somebody reads it in another client.
ReadElsewhere(m) ==
    /\ m \in arrived \ seen
    /\ seen' = seen \cup {m} /\ elsewhere' = elsewhere \cup {m}
    /\ UNCHANGED <<marks, arrived, poll, emits, failures, restarts>>

-----------------------------------------------------------------------------
(* The source.                                                             *)

Connect ==
    /\ pc = "down" /\ pc' = "search"
    /\ UNCHANGED <<mailbox, dedup, left, now, emits, failures, restarts>>

\* Seeded bug: the dedup is the connection's.
FailForgetting ==
    /\ pc \in {"search", "fetch", "mark"} /\ failures < MaxFailures
    /\ pc' = "down" /\ left' = {} /\ now' = {} /\ dedup' = {} /\ failures' = failures + 1
    /\ UNCHANGED <<mailbox, emits, restarts>>

\* A command fails: the poll is over, and what it had still to do is forgotten.
Fail ==
    /\ pc \in {"search", "fetch", "mark"} /\ failures < MaxFailures
    /\ pc' = "down" /\ left' = {} /\ now' = {} /\ failures' = failures + 1
    /\ UNCHANGED <<mailbox, dedup, emits, restarts>>

Search ==
    /\ pc = "search" /\ left' = arrived \ seen /\ pc' = "fetch"
    /\ UNCHANGED <<mailbox, dedup, now, emits, failures, restarts>>

\* Seeded bug: a fetch marks the mail.
FetchMarking(m) ==
    /\ pc = "fetch" /\ m \in left /\ left' = left \ {m}
    /\ dedup' = dedup \cup {IdOf(m)} /\ seen' = seen \cup {m}
    /\ IF IdOf(m) \in dedup THEN UNCHANGED <<pc, now>> ELSE pc' = "emit" /\ now' = {m}
    /\ UNCHANGED <<marks, arrived, elsewhere, emits, failures, restarts>>

\* The next one is fetched, which marks nothing, and skipped if it was handled.
Fetch(m) ==
    /\ pc = "fetch" /\ m \in left /\ left' = left \ {m}
    /\ dedup' = dedup \cup {IdOf(m)}
    /\ IF IdOf(m) \in dedup THEN UNCHANGED <<pc, now>> ELSE pc' = "emit" /\ now' = {m}
    /\ UNCHANGED <<mailbox, emits, failures, restarts>>

Emit ==
    /\ pc = "emit"
    /\ emits' = [i \in Ids |-> IF \E m \in now : IdOf(m) = i THEN emits[i] + 1 ELSE emits[i]]
    /\ IF marks THEN pc' = "mark" /\ UNCHANGED now ELSE pc' = "fetch" /\ now' = {}
    /\ UNCHANGED <<mailbox, dedup, left, failures, restarts>>

MarkSeen ==
    /\ pc = "mark" /\ pc' = "fetch" /\ now' = {} /\ seen' = seen \cup now
    /\ UNCHANGED <<marks, arrived, elsewhere, dedup, left, emits, failures, restarts>>

\* The round is over: it sleeps, and searches again.
Sleep ==
    /\ pc = "fetch" /\ left = {} /\ pc' = "search"
    /\ UNCHANGED <<mailbox, dedup, left, now, emits, failures, restarts>>

\* The process dies at any point, with its dedup.
Restart ==
    /\ restarts < MaxRestarts /\ restarts' = restarts + 1
    /\ pc' = "down" /\ left' = {} /\ now' = {} /\ dedup' = {}
    /\ UNCHANGED <<mailbox, emits, failures>>

Poll == Connect \/ Search \/ (\E m \in Mails : Fetch(m)) \/ Emit \/ MarkSeen \/ Sleep
Next == \/ \E m \in Mails : Arrive(m) \/ ReadElsewhere(m)
        \/ Poll \/ Fail \/ Restart

\* The poll goes on.
Fairness == WF_vars(Poll)

-----------------------------------------------------------------------------
\* Whatever fails, a process emits a message once: neither a new connection, nor
\* a mark that failed, nor a copy of the mail emits it again (main.go, pollIMAP).
\* Each restart may emit it once more: the dedup dies with the process (StartSource).
EmittedOnce == \A i \in Ids : emits[i] <= 1 + restarts

\* "Deduplicated by Message-ID [...] across restarts, within the dedup window"
\* (docs/connectors/email.md); the window is wider than the mails here.
OnceAcrossRestarts == \A i \in Ids : emits[i] <= 1

\* A mail that nobody read and that is not emitted, nor a copy of it, stays unseen, so that the
\* next search finds it; and what the dedup skips is emitted or is about to be.
StillUnseen ==
    \A m \in arrived : (emits[IdOf(m)] = 0 /\ m \notin elsewhere) =>
        /\ m \notin seen
        /\ IdOf(m) \in dedup => pc = "emit" /\ \E n \in now : IdOf(n) = IdOf(m)

\* Every mail is emitted in the end, itself or a copy of it, unless somebody
\* reads it first: no failure or restart between search, fetch, emit and mark
\* loses it (main.go, pollIMAP).
Due(m)  == m \in arrived
Done(m) == emits[IdOf(m)] > 0 \/ m \in elsewhere
NothingLost == \A m \in Mails : Due(m) ~> Done(m)
=============================================================================
