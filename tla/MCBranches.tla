----------------------------- MODULE MCBranches -----------------------------
(* Branches for two checkouts, in small scenarios.                          *)
EXTENDS Branches, TLC

Symmetry == Permutations(Checkouts)

Play(layout, verbs, uids, titles, commits) ==
  [layout |-> layout, verbs |-> verbs, uids |-> uids, titles |-> titles, commits |-> commits]

\* Two sessions of one repository.
Sessions == Play("worktrees", {"add", "reallocate", "merge"}, 4, 0, 6)
\* Two people who meet on the remote trunk only.
People == Play("clones", {"add", "reallocate", "renumber", "merge"}, 3, 0, 5)
\* ... and publish, merge and rename on their branches.
Published == Play("clones", {"add", "rename", "branch"}, 3, 1, 5)
\* A decision is renamed on either side while others are added ...
Renames == Play("clones", {"add", "rename", "merge", "reallocate"}, 3, 1, 6)
\* ... and, of two decisions, again and again.
Retitlings == Play("clones", {"add", "rename", "merge"}, 2, 2, 6)
\* References to decisions of another branch.
Citations == Play("worktrees", {"add", "refs", "merge", "branch"}, 3, 0, 5)

AllScenarios == {Sessions, People, Published, Renames, Retitlings, Citations}
=============================================================================
