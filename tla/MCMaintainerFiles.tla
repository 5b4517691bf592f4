-------------------------- MODULE MCMaintainerFiles --------------------------
(***************************************************************************)
(* MaintainerRules on an issue and the pull requests beside it: whether    *)
(* the issue has the files of those that fix it.                           *)
(***************************************************************************)
EXTENDS MaintainerRules

VARIABLE gh

Listed(kind, files, closes) ==
  [kind |-> kind, draft |-> FALSE, review |-> "needs_review", labels |-> {"bug"},
   severity |-> None, simplicity |-> None, lines |-> 10, files |-> files,
   closes |-> closes, topic |-> None]

Init ==
  gh \in {<<Listed("issue", {}, {}), Listed("pr", files, closes), Listed("pr", {2}, {})>> :
            files \in SUBSET {1, 2}, closes \in SUBSET {1}}
Next == UNCHANGED gh
Spec == Init /\ [][Next]_gh

\* "issues with linked open PRs in this envelope inherit those files so the
\* issue joins the same cluster as its fix-candidate" (triage.ts:151-154).
IssuesInheritFiles == IssueHasItsFixesFiles(gh)
=============================================================================
