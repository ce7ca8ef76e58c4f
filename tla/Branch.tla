-------------------------------- MODULE Branch --------------------------------
(***************************************************************************)
(* The verbs that write a branch: apply_diff (internal/githubkit/          *)
(* applydiff.go) puts a diff on it as one commit, and delete_branch        *)
(* (deletebranch.go) deletes it when its head is the commit that is        *)
(* expected.  Each reads the branch and writes it in a later request;      *)
(* others push to it, reset it and delete it meanwhile.  A request may     *)
(* fail, and a write's answer be lost; then the workflow may call the verb *)
(* again.  All calls of apply_diff bring one diff.                         *)
(*                                                                         *)
(* A branch is the sequence of its commits.  Commits differ by number, and *)
(* by what they do to the lines of the diff: nothing, its change, or a     *)
(* change that it does not apply to.                                       *)
(***************************************************************************)
EXTENDS Naturals, Sequences, FiniteSets

CONSTANTS
    Appliers, Deleters,  \* the calls of each verb
    MaxCommits,          \* bound on the commits
    MaxFailures          \* bound on the requests and answers that are lost

Calls   == Appliers \cup Deleters
Effects == {"none", "diff", "clash"}
Gone    == <<>>

VARIABLES
    head,       \* the branch: its commits
    made,       \* how many commits there are
    protected,  \* the branch is, by now (the default branch is refused in the same way)
    expect,     \* what a deleter expects the branch to be, or Gone for anything
    pc,         \* how far each call is
    onto,       \* the branch as it read it
    failures

vars == <<head, made, protected, expect, pc, onto, failures>>

Commits == [n : 1..MaxCommits, effect : Effects]
Over    == {"pushed", "conflict", "unchanged", "rejected",
            "deleted", "moved", "gone", "refused", "failed"}

TypeOK ==
    /\ head \in Seq(Commits) /\ made \in 1..MaxCommits /\ protected \in BOOLEAN
    /\ expect \in [Deleters -> Seq(Commits)] /\ onto \in [Calls -> Seq(Commits)]
    /\ pc \in [Calls -> {"idle", "read"} \cup Over]
    /\ failures \in 0..MaxFailures

First == [n |-> 1, effect |-> "none"]

Init ==
    /\ head = <<First>> /\ made = 1 /\ protected = FALSE
    /\ expect \in [Deleters -> {Gone, <<First>>}]
    /\ pc = [c \in Calls |-> "idle"] /\ onto = [c \in Calls |-> Gone]
    /\ failures = 0

Has(b, effect) == \E i \in DOMAIN b : b[i].effect = effect
Prefix(b, a)   == Len(b) <= Len(a) /\ b = SubSeq(a, 1, Len(b))

-----------------------------------------------------------------------------
(* Others. *)

Push(effect) ==
    /\ head # Gone /\ made < MaxCommits /\ made' = made + 1
    /\ effect = "diff" => ~Has(head, "diff")
    /\ head' = Append(head, [n |-> made + 1, effect |-> effect])
    /\ UNCHANGED <<protected, expect, pc, onto, failures>>

Reset == /\ Len(head) > 1 /\ head' = SubSeq(head, 1, Len(head) - 1)
         /\ UNCHANGED <<made, protected, expect, pc, onto, failures>>

Remove == /\ head # Gone /\ head' = Gone
          /\ UNCHANGED <<made, protected, expect, pc, onto, failures>>

Protect == /\ ~protected /\ protected' = TRUE
           /\ UNCHANGED <<head, made, expect, pc, onto, failures>>

-----------------------------------------------------------------------------
(* The calls. *)

Ends(c, status) == pc' = [pc EXCEPT ![c] = status]

\* The ref is read fresh, and the files as they are at that commit.
ReadRef(c) ==
    /\ c \in Appliers /\ pc[c] = "idle"
    /\ onto' = [onto EXCEPT ![c] = head]
    /\ \/ head = Gone /\ Ends(c, "failed")
       \/ Has(head, "clash") /\ Ends(c, "conflict")
       \/ Has(head, "diff") /\ ~Has(head, "clash") /\ Ends(c, "unchanged")
       \/ head # Gone /\ ~Has(head, "diff") /\ ~Has(head, "clash") /\ Ends(c, "read")
    /\ UNCHANGED <<head, made, protected, expect, failures>>

\* The commit whose parent is what was read; the ref moves to a descendant only.
Made(c) == Append(onto[c], [n |-> made + 1, effect |-> "diff"])

\* Seeded bug: the ref is forced.
PatchForced(c) ==
    /\ c \in Appliers /\ pc[c] = "read" /\ made < MaxCommits /\ made' = made + 1
    /\ IF head # Gone
       THEN head' = Made(c) /\ Ends(c, "pushed")
       ELSE head' = head /\ Ends(c, "rejected")
    /\ UNCHANGED <<protected, expect, onto, failures>>

Patch(c) ==
    /\ c \in Appliers /\ pc[c] = "read" /\ made < MaxCommits /\ made' = made + 1
    /\ IF head # Gone /\ Prefix(head, Made(c))
       THEN head' = Made(c) /\ Ends(c, "pushed")
       ELSE head' = head /\ Ends(c, "rejected")
    /\ UNCHANGED <<protected, expect, onto, failures>>

\* Before the ref is written, or after.
PatchFails(c) ==
    /\ c \in Appliers /\ pc[c] = "read" /\ failures < MaxFailures /\ failures' = failures + 1
    /\ Ends(c, "failed")
    /\ \/ UNCHANGED <<head, made>>
       \/ /\ made < MaxCommits /\ made' = made + 1
          /\ head # Gone /\ Prefix(head, Made(c)) /\ head' = Made(c)
    /\ UNCHANGED <<protected, expect, onto>>

ReadBranch(c) ==
    /\ c \in Deleters /\ pc[c] = "idle"
    /\ onto' = [onto EXCEPT ![c] = head]
    /\ Ends(c, IF head = Gone THEN "gone" ELSE IF protected THEN "refused"
               ELSE IF expect[c] # Gone /\ head # expect[c] THEN "moved" ELSE "read")
    /\ UNCHANGED <<head, made, protected, expect, failures>>

\* GitHub deletes no protected branch.
Delete(c) ==
    /\ c \in Deleters /\ pc[c] = "read"
    /\ IF head = Gone THEN head' = head /\ Ends(c, "gone")
       ELSE IF protected THEN head' = head /\ Ends(c, "failed")
       ELSE head' = Gone /\ Ends(c, "deleted")
    /\ UNCHANGED <<made, protected, expect, onto, failures>>

DeleteFails(c) ==
    /\ c \in Deleters /\ pc[c] = "read" /\ failures < MaxFailures /\ failures' = failures + 1
    /\ Ends(c, "failed")
    /\ head' = head \/ (~protected /\ head' = Gone)
    /\ UNCHANGED <<made, protected, expect, onto>>

\* The workflow calls the verb again; a deleter may expect what it found.
Retry(c) ==
    /\ pc[c] \in {"failed", "rejected", "moved"} /\ Ends(c, "idle")
    /\ onto' = [onto EXCEPT ![c] = Gone]
    /\ \/ expect' = expect
       \/ c \in Deleters /\ onto[c] # Gone /\ expect' = [expect EXCEPT ![c] = onto[c]]
    /\ UNCHANGED <<head, made, protected, failures>>

Others == Push("none") \/ Push("diff") \/ Push("clash") \/ Reset \/ Remove \/ Protect
Next == \/ Others
        \/ \E c \in Appliers : ReadRef(c) \/ Patch(c) \/ PatchFails(c)
        \/ \E c \in Deleters : ReadBranch(c) \/ Delete(c) \/ DeleteFails(c)
        \/ \E c \in Calls : Retry(c)
Spec == Init /\ [][Next]_vars
-----------------------------------------------------------------------------
\* The diff is on the branch once, whatever was pushed by others or by another call
\* meanwhile, and when an answer was lost and the verb called again.
DiffOnce == Cardinality({i \in DOMAIN head : head[i].effect = "diff"}) <= 1

\* A call takes nothing off the branch that was on it when the call read it, save what a
\* deleter expected; what was pushed since the read it may take with the branch.
TakesWhatItSaw ==
    [][\A c \in Calls : pc[c] = "read" /\ pc'[c] # "read" =>
          IF c \in Deleters THEN head' = head \/ expect[c] \in {Gone, onto[c]}
          ELSE Prefix(head, head')]_vars
=============================================================================
