------------------------------ MODULE ReadCache -------------------------------
(***************************************************************************)
(* The GitHub client's read cache (internal/githubkit/http.go cachedGet,   *)
(* storeCache, send and invalidateCache).                                  *)
(*                                                                         *)
(* One resource is followed, as a version that a write that succeeds makes *)
(* newer.  Calls run at the same time: the lock is held to look at the     *)
(* cache or to change it, never while GitHub is asked.  A write empties    *)
(* the cache once its answer is in; GitHub may have made the change and    *)
(* the answer be lost.                                                     *)
(***************************************************************************)
EXTENDS Integers

CONSTANTS
    Readers, Writers,  \* the calls
    TTL,               \* how long a body is served without asking (45s)
    Timeout,           \* how long one request may take (20s)
    MaxVersion,        \* bound on the writes
    MaxReads           \* bound on the reads

None == 0

VARIABLES
    version,  \* the resource on GitHub
    body,     \* the cache's entry: the version it holds, or None
    age,      \*   and since when
    rpc,      \* where each read is
    etag,     \* the version it asks GitHub about, or None
    answer,   \* the version GitHub answered with, None for "not modified"
    tried,    \* it waited out a rate limit once
    took,     \* how long its request has been under way
    need,     \* history: the newest write that was done before the read began
    served,   \* history: what it was served
    limited,  \* history: it was served what there was, because of the rate limit
    wpc,      \* where each write is
    made,     \* the version it made
    done,     \* history: the newest write that was done
    overlap,  \* history: a read asked GitHub while a write was made or done
    reads

cache  == <<body, age>>
read   == <<rpc, etag, answer, tried, took, need, served, limited, reads>>
write  == <<wpc, made, done>>
vars   == <<version, cache, read, write, overlap>>

Versions == 1..MaxVersion
Least(a, b) == IF a < b THEN a ELSE b

TypeOK ==
    /\ version \in Versions
    /\ body \in Versions \cup {None} /\ age \in 0..TTL
    /\ rpc \in [Readers -> {"idle", "asking", "answered", "unchanged", "limited"}]
    /\ etag \in [Readers -> Versions \cup {None}] /\ answer \in [Readers -> Versions \cup {None}]
    /\ tried \in [Readers -> BOOLEAN] /\ took \in [Readers -> 0..Timeout]
    /\ need \in [Readers -> Versions] /\ served \in [Readers -> Versions \cup {None}]
    /\ limited \in [Readers -> BOOLEAN] /\ reads \in 0..MaxReads
    /\ wpc \in [Writers -> {"idle", "made"}] /\ made \in [Writers -> Versions]
    /\ done \in Versions /\ overlap \in BOOLEAN

Init ==
    /\ version = 1 /\ body = None /\ age = 0
    /\ rpc = [r \in Readers |-> "idle"] /\ etag = [r \in Readers |-> None]
    /\ answer = [r \in Readers |-> None] /\ tried = [r \in Readers |-> FALSE]
    /\ took = [r \in Readers |-> 0] /\ need = [r \in Readers |-> 1]
    /\ served = [r \in Readers |-> None] /\ limited = [r \in Readers |-> FALSE]
    /\ wpc = [w \in Writers |-> "idle"] /\ made = [w \in Writers |-> 1]
    /\ done = 1 /\ overlap = FALSE /\ reads = 0

\* A read is over.
Serve(r, v, lim) == /\ rpc' = [rpc EXCEPT ![r] = "idle"]
                    /\ served' = [served EXCEPT ![r] = v]
                    /\ limited' = [limited EXCEPT ![r] = lim]
                    /\ etag' = [etag EXCEPT ![r] = None] /\ answer' = [answer EXCEPT ![r] = None]
                    /\ tried' = [tried EXCEPT ![r] = FALSE] /\ took' = [took EXCEPT ![r] = 0]

\* The look at the cache: a fresh entry is served, an old one is asked about.
Fresh == body # None /\ age < TTL

Hit(r) == /\ rpc[r] = "idle" /\ reads < MaxReads /\ Fresh
          /\ Serve(r, body, FALSE)
          /\ need' = [need EXCEPT ![r] = done] /\ reads' = reads + 1
          /\ UNCHANGED <<version, cache, write, overlap>>

Miss(r) == /\ rpc[r] = "idle" /\ reads < MaxReads /\ ~Fresh
           /\ rpc' = [rpc EXCEPT ![r] = "asking"]
           /\ etag' = [etag EXCEPT ![r] = body]
           /\ need' = [need EXCEPT ![r] = done] /\ reads' = reads + 1
           /\ served' = [served EXCEPT ![r] = None]
           /\ UNCHANGED <<version, cache, answer, tried, took, limited, write, overlap>>

\* GitHub answers, which is not the moment the answer is looked at.
Answer(r) ==
    /\ rpc[r] = "asking"
    /\ \/ /\ etag[r] = version
          /\ rpc' = [rpc EXCEPT ![r] = "unchanged"] /\ answer' = answer
       \/ /\ etag[r] # version
          /\ rpc' = [rpc EXCEPT ![r] = "answered"] /\ answer' = [answer EXCEPT ![r] = version]
       \/ rpc' = [rpc EXCEPT ![r] = "limited"] /\ answer' = answer
    /\ UNCHANGED <<version, cache, etag, tried, took, need, served, limited, reads, write, overlap>>

\* A body is kept and served.
Store(r) == /\ rpc[r] = "answered"
            /\ body' = answer[r] /\ age' = 0
            /\ Serve(r, answer[r], FALSE)
            /\ UNCHANGED <<version, need, reads, write, overlap>>

\* The entry is good for another TTL; one that was dropped meanwhile is asked for again.
Revalidate(r) ==
    /\ rpc[r] = "unchanged"
    /\ IF body # None
       THEN age' = 0 /\ Serve(r, body, FALSE)
       ELSE /\ etag' = [etag EXCEPT ![r] = None] /\ rpc' = [rpc EXCEPT ![r] = "asking"]
            /\ took' = [took EXCEPT ![r] = 0]
            /\ UNCHANGED <<age, answer, tried, served, limited>>
    /\ UNCHANGED <<version, body, need, reads, write, overlap>>

\* A rate limit that is short is waited out once, else what there is is served.
Wait(r) == /\ rpc[r] = "limited" /\ ~tried[r]
           /\ tried' = [tried EXCEPT ![r] = TRUE] /\ rpc' = [rpc EXCEPT ![r] = "asking"]
           /\ took' = [took EXCEPT ![r] = 0]
           /\ UNCHANGED <<version, cache, etag, answer, need, served, limited, reads, write, overlap>>

ServeStale(r) == /\ rpc[r] = "limited"
                 /\ Serve(r, body, TRUE)
                 /\ UNCHANGED <<version, cache, need, reads, write, overlap>>

-----------------------------------------------------------------------------
(* The writes. *)

Asking == \E r \in Readers : rpc[r] # "idle"

Make(w) == /\ wpc[w] = "idle" /\ version < MaxVersion
           /\ version' = version + 1 /\ made' = [made EXCEPT ![w] = version + 1]
           /\ wpc' = [wpc EXCEPT ![w] = "made"]
           /\ overlap' = (overlap \/ Asking)
           /\ UNCHANGED <<cache, read, done>>

\* Seeded bug: the cache is kept.
SucceedKeeping(w) ==
    /\ wpc[w] = "made" /\ wpc' = [wpc EXCEPT ![w] = "idle"]
    /\ done' = IF made[w] > done THEN made[w] ELSE done
    /\ overlap' = (overlap \/ Asking)
    /\ UNCHANGED <<version, cache, read, made>>

\* The answer is in: the cache is dropped.
Succeed(w) == /\ wpc[w] = "made" /\ wpc' = [wpc EXCEPT ![w] = "idle"]
              /\ body' = None /\ age' = 0
              /\ done' = IF made[w] > done THEN made[w] ELSE done
              /\ overlap' = (overlap \/ Asking)
              /\ UNCHANGED <<version, read, made>>

\* The answer is lost: the cache is kept.
LoseAnswer(w) == /\ wpc[w] = "made" /\ wpc' = [wpc EXCEPT ![w] = "idle"]
                 /\ UNCHANGED <<version, cache, read, made, done, overlap>>

\* Time passes; a request does not outlast its timeout.
Tick == /\ \A r \in Readers : rpc[r] # "idle" => took[r] < Timeout
        /\ age' = IF body = None THEN 0 ELSE Least(age + 1, TTL)
        /\ took' = [r \in Readers |-> IF rpc[r] = "idle" THEN 0 ELSE took[r] + 1]
        /\ UNCHANGED <<version, body, rpc, etag, answer, tried, need, served, limited, reads, write, overlap>>

Next == \/ \E r \in Readers : \/ Hit(r) \/ Miss(r) \/ Answer(r) \/ Store(r) \/ Revalidate(r)
                              \/ Wait(r) \/ ServeStale(r)
        \/ \E w \in Writers : Make(w) \/ Succeed(w) \/ LoseAnswer(w)
        \/ Tick

Spec == Init /\ [][Next]_vars
-----------------------------------------------------------------------------
\* "a mutate-then-read never serves the pre-write copy" (http.go, of send): nothing that
\* is older than a write that was done before the read began.
SeesWrites == \A r \in Readers : served[r] # None => served[r] >= need[r]

\* It holds of a client whose reads ask GitHub at no time when a write is made or done.
SeesWritesAlone == ~overlap => SeesWrites
=============================================================================
