----------------------------- MODULE StuckChecks ------------------------------
(***************************************************************************)
(* The poller of stuck CI runs (internal/githubkit/ghsource/sweep.go       *)
(* stuckLoop, stuckPass, stuckRepos, anyStuckChecks, sweepStuckChecks;     *)
(* rest.go stuckRuns).                                                     *)
(*                                                                         *)
(* A configuration lists triggers, each with a repository, a stuck_after   *)
(* and whether it is enabled; the rule they are lowered to takes every     *)
(* repository, so that all of them are a repository's triggers.  A run of  *)
(* CI on your open request ends or stays; a pass over a repository emits,  *)
(* for every run it finds stuck, on every enabled trigger of the           *)
(* repository.  The engine runs one key once.                              *)
(***************************************************************************)
EXTENDS Naturals

CONSTANTS
    Repos,
    Runs,      \* the runs of CI
    RepoOf,    \* the repository of each
    Last,      \* how many triggers there are
    MaxAge     \* bound on the age of a run, and on stuck_after

VARIABLES
    triggers,  \* the configuration
    age,       \* of each run
    ended,     \* the runs that are over
    fired      \* what ran: a trigger, a run, and the age at which it was found

vars == <<triggers, age, ended, fired>>

Triggers == 1..Last
Actions  == [repo : Repos, after : 1..MaxAge, enabled : BOOLEAN]

TypeOK == /\ triggers \in [Triggers -> Actions]
          /\ age \in [Runs -> 0..MaxAge] /\ ended \subseteq Runs
          /\ fired \subseteq [trigger : Triggers, run : Runs, age : 0..MaxAge]

Init == /\ triggers \in [Triggers -> Actions]
        /\ age = [r \in Runs |-> 0] /\ ended = {} /\ fired = {}

Tick == /\ \E r \in Runs \ ended : age[r] < MaxAge
        /\ age' = [r \in Runs |-> IF r \in ended \/ age[r] = MaxAge THEN age[r] ELSE age[r] + 1]
        /\ UNCHANGED <<triggers, ended, fired>>

End(r) == /\ r \notin ended
          /\ ended' = ended \cup {r} /\ UNCHANGED <<triggers, age, fired>>

\* The repositories that are watched, and whose triggers emit: those of the enabled.
StuckRepos == {triggers[t].repo : t \in {t \in Triggers : triggers[t].enabled}}

\* Seeded bug: a run is told to the first of them alone.
EmittedOnFirst(p) ==
    {t \in Triggers : triggers[t].enabled /\ triggers[t].repo = p
                      /\ \A u \in 1..(t - 1) : ~triggers[u].enabled \/ triggers[u].repo # p}

EmittedOn(p) == {t \in Triggers : triggers[t].enabled /\ triggers[t].repo = p}

\* The trigger that says how long is too long: the first that is listed.
ActionFor(p) == triggers[1]

\* What is stuck in the repository.
StuckRuns(p) == {r \in Runs \ ended : RepoOf[r] = p /\ age[r] >= ActionFor(p).after}

Fired(t, r) == \E f \in fired : f.trigger = t /\ f.run = r

Pass(p) == /\ p \in StuckRepos /\ ActionFor(p).enabled
           /\ fired' = fired \cup
                 {f \in [trigger : EmittedOn(p), run : StuckRuns(p), age : 0..MaxAge] :
                     f.age = age[f.run] /\ ~Fired(f.trigger, f.run)}
           /\ UNCHANGED <<triggers, age, ended>>

Next == \/ Tick
        \/ \E r \in Runs : End(r)
        \/ \E p \in Repos : Pass(p)

Spec     == Init /\ [][Next]_vars
Fairness == WF_vars(Tick) /\ \A p \in Repos : WF_vars(Pass(p))
-----------------------------------------------------------------------------
\* When the trigger that is listed first is enabled, every enabled one of a repository is
\* told of every run of it that stays, each of them, though the engine runs one key once.
StuckIsTold ==
    \A t \in Triggers, r \in Runs :
        (triggers[1].enabled /\ triggers[t].enabled /\ triggers[t].repo = RepoOf[r]) ~> (Fired(t, r) \/ r \in ended)
=============================================================================
