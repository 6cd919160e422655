----------------------------- MODULE MCPlanning -----------------------------
(* Planning on small casts, one scenario per family of verbs.               *)
EXTENDS Planning

Play(cast, start, verbs) ==
  [cast |-> cast, start |-> start, verbs |-> verbs, parent |-> [kind |-> "epic", n |-> 1],
   areas |-> {}, names |-> {}, tools |-> {}, statuses |-> {}]

\* Rulings supersede each other, and are renumbered and swept.
Rulings == Play(<<"adr", "adr">>, 1, {"add", "promote", "cancel", "reallocate", "archive"})
\* An epic resolves a gap, with and without --force, and both are renumbered.
Resolution == Play(<<"gap", "epic">>, 2, {"promote", "reallocate", "archive"})
\* Milestones depend on each other while one is cancelled or renumbered.
Chain == Play(<<"epic", "milestone", "milestone", "milestone">>, 3,
              {"add", "cancel", "depends_on", "reallocate"})
\* Contracts are bound, retired, swept and renumbered.
Contracts == [Play(<<"contract", "contract">>, 0, {"add", "cancel", "contract", "archive", "reallocate"})
              EXCEPT !.tools = {"v1"}]
\* A decision and a contract through all their statuses.
Verdicts == Play(<<"decision", "contract">>, 2, {"promote", "cancel", "reallocate", "archive"})
\* Labels, with a sweep between.
Labels == [Play(<<"gap", "epic", "decision">>, 2, {"add", "area", "priority", "cancel", "archive"})
           EXCEPT !.areas = {"a"}, !.names = {"a", "b"}]
\* Manifests, in one commit or one per entity.
Manifest == [Play(<<"adr", "adr", "decision">>, 1, {"import", "reallocate"})
             EXCEPT !.statuses = {"proposed", "superseded"}]
\* A merge brings a second holder of an id.
Merge == Play(<<"adr", "adr", "contract">>, 1, {"add", "merge", "reallocate"})

AllScenarios == {Rulings, Resolution, Chain, Contracts, Verdicts, Labels, Manifest, Merge}
=============================================================================
