------------------------------- MODULE MCGitHub --------------------------------
(* GitHub on small sets, with what it takes for its promises of something  *)
(* that happens in the end.                                                *)
EXTENDS GitHub

CONSTANTS r1, r2, w1, a1, a2, d1, c1, c2
TwoReaders  == {r1, r2}
TwoAppliers == {a1, a2}
TwoCallers  == {c1, c2}
OneWriter   == {w1}
OneDeleter  == {d1}
RunOfP      == [r \in Runs |-> "p"]

\* The variables of the others start at one value; a configuration of merge_ready is
\* followed without the sweep, which adds nothing to it, and who else is asked for a
\* review too, which the sweep does not look at.
MCInit ==
    /\ GitHubInit
    /\ IF which = "triggers" THEN sweeps => kind # "merge_ready" /\ ~pr.others
                             ELSE kind = "merge_ready" /\ ~sweeps
    /\ which # "stuck" => \A t \in 1..Last : triggers[t] = [repo |-> "p", after |-> 1, enabled |-> TRUE]
    /\ which # "branch" => \A d \in Deleters : expect[d] = <<>>
    /\ which # "sessions" => style = "locked" /\ issued = 0

\* A second delivery is under way of a review only at the first head, as any will do, and
\* not with merge_ready, which takes nothing from it.
MCNext ==
    /\ GitHubNext
    /\ Cardinality(flight') = 2 =>
          kind # "merge_ready" /\ (kind = "review_requested" => pr'.head = 1)

\* The fairness of those that have a liveness property, in the behaviours that are theirs.
MCFairness ==
    /\ WF_vars(which = "triggers" /\ \E d \in flight : Handle(d))
    /\ WF_vars(which = "triggers" /\ \E e \in ready : Deliver(e))
    /\ WF_vars(which = "triggers" /\ (List \/ SweepItem))
    /\ WF_vars(which = "triggers" /\ Pull(FALSE)) /\ SF_vars(which = "triggers" /\ Pull(TRUE))
    /\ WF_vars(which = "triggers" /\ \E m \in MergeStates : Compute(m))
    /\ WF_stuck(which = "stuck" /\ C!Tick)
    /\ \A p \in Repos : WF_stuck(which = "stuck" /\ C!Pass(p))

MCSpec == MCInit /\ [][MCNext]_all /\ MCFairness

\* stuck checks: every trigger of a repository is told of a run that stays.
StuckIsTold == which = "stuck" => C!StuckIsTold
=============================================================================
