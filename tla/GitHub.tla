-------------------------------- MODULE GitHub --------------------------------
(* What the GitHub plugin does besides reviews and deliveries: the         *)
(* triggers of a pull request, the poller of stuck checks, the client's    *)
(* read cache, the verbs that write a branch; and the sessions that the    *)
(* calls of other connectors share.  They share nothing: a behaviour runs  *)
(* one of them, and the variables of the others stay as they were.         *)
EXTENDS Triggers

CONSTANTS
    Repos, Runs, RepoOf, Last, MaxAge,                          \* StuckChecks
    Readers, Writers, TTL, Timeout, MaxVersion, MaxReads,       \* ReadCache
    Appliers, Deleters, MaxCommits, MaxFailures,                \* Branch
    Callers, MaxEnds, MaxErrors                                 \* Sessions

ASSUME StuckAssumption   == RepoOf \in [Runs -> Repos] /\ Last \in Nat /\ MaxAge \in Nat
ASSUME ReadAssumption    == /\ MaxVersion \in Nat \ {0}
                            /\ TTL \in Nat /\ Timeout \in Nat /\ MaxReads \in Nat
ASSUME BranchAssumption  == /\ Appliers \cap Deleters = {}
                            /\ MaxCommits \in Nat \ {0} /\ MaxFailures \in Nat
ASSUME SessionAssumption == IsFiniteSet(Callers) /\ MaxEnds \in Nat /\ MaxErrors \in Nat

VARIABLES
    which,
    triggers, runAge, over, fired,
    version, body, age, rpc, etag, answer, tried, took, need, served, limited,
        wpc, made, done, overlap, reads,
    head, commits, protected, expect, bPc, onto, bFailures,
    style, cached, issued, valid, sPc, retried, using, met, ended, ends, errors

C == INSTANCE StuckChecks WITH age <- runAge, ended <- over
R == INSTANCE ReadCache
B == INSTANCE Branch WITH made <- commits, pc <- bPc, failures <- bFailures
S == INSTANCE Sessions WITH Calls <- Callers, pc <- sPc, tried <- retried

stuck    == <<triggers, runAge, over, fired>>
reading  == <<version, body, age, rpc, etag, answer, tried, took, need, served, limited,
              wpc, made, done, overlap, reads>>
branch   == <<head, commits, protected, expect, bPc, onto, bFailures>>
sessions == <<style, cached, issued, valid, sPc, retried, using, met, ended, ends, errors>>
all      == <<which, vars, stuck, reading, branch, sessions>>

GitHubInit ==
    /\ which \in {"triggers", "stuck", "reading", "branch", "sessions"}
    /\ Init /\ C!Init /\ R!Init /\ B!Init /\ S!Init

GitHubNext ==
    \/ which = "triggers" /\ Next /\ UNCHANGED <<which, stuck, reading, branch, sessions>>
    \/ which = "stuck" /\ C!Next /\ UNCHANGED <<which, vars, reading, branch, sessions>>
    \/ which = "reading" /\ R!Next /\ UNCHANGED <<which, vars, stuck, branch, sessions>>
    \/ which = "branch" /\ B!Next /\ UNCHANGED <<which, vars, stuck, reading, sessions>>
    \/ which = "sessions" /\ S!Next /\ UNCHANGED <<which, vars, stuck, reading, branch>>

GitHubSpec == GitHubInit /\ [][GitHubNext]_all

-----------------------------------------------------------------------------
\* The types of all.
AllTyped == TypeOK /\ C!TypeOK /\ R!TypeOK /\ B!TypeOK /\ S!TypeOK

\* The read cache: a read after a write does not see what was there before it.
SeesWritesAlone == R!SeesWritesAlone

\* apply_diff and delete_branch: a diff is on the branch once, and a call takes away
\* nothing that it had not seen.
BranchKept == []B!DiffOnce /\ B!TakesWhatItSaw

\* Shared sessions: a call survives the end of its session, and no login is wasted.
SessionsServe == S!SurvivesEnd /\ S!LoginsBounded
=============================================================================
