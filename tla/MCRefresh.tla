------------------------------ MODULE MCRefresh ------------------------------
(* Refresh for two hosts, two versions and three packs, in small scenarios. *)
EXTENDS Refresh, TLC

FamiliesOfHost == [h \in Hosts |-> IF h = "codex" THEN {"codex skills"} ELSE {"claude skills", "claude agents"}]
\* Version 2 ships one skill more, and retires and adds an agent.
ShippedBy ==
  [v \in 1..2 |-> [f \in {"codex skills", "claude skills", "claude agents"} |->
     IF f = "claude agents" THEN {IF v = 1 THEN "planner" ELSE "reviewer"} ELSE IF v = 1 THEN {"aiwf-add"} ELSE {"aiwf-add", "aiwf-check"}]]
\* Revision 2 of the catalogue has dropped a pack and brought another.
Packages == <<{"go", "general"}, {"general", "rust"}>>

\* A repository as `aiwf init` leaves it, without guidance.
Fresh == [p \in {} |-> 0]
Setup(hosts, packs) ==
  LET cfg == [DefaultConfig EXCEPT !.hosts = hosts, !.packs = packs, !.decision = "off"] IN
  [p \in {Yaml, Fragment, Example, Gitignore, Project} \cup {Hook(h) : h \in HookNames} \cup {FileOf[h] : h \in Hosts}
         \cup {Owned(f) : f \in Families} \cup {<<f, n>> : f \in Families, n \in {"aiwf-add", "planner"}} |->
     CASE p = Yaml -> cfg
       [] p \in {Fragment, Example} -> Made(1)
       [] p = Gitignore -> hosts \cup {"example", "STATUS.md", "site/"}
       [] p = Project -> IF packs = None THEN {} ELSE packs
       [] p \in {Hook(h) : h \in HookNames} -> hookScript
       [] p \in RootFiles -> [BlankFile EXCEPT !.import = importBlock(IF p = FileOf["codex"] THEN "codex" ELSE "claude-code", 1)]
       [] p[2] = ".aiwf-owned" -> Shipped[1][p[1]]
       [] OTHER -> IF p[2] \in Shipped[1][p[1]] THEN Made(1) ELSE None]

Play(start, versions, edits, answers, linked, runs, faults, changes) ==
  [start |-> start, versions |-> versions, edits |-> edits, answers |-> answers, linked |-> linked,
   runs |-> runs, faults |-> faults, changes |-> changes]

\* Artifacts across versions and hosts.
Skills == Play(Setup({"claude-code"}, None), {1, 2}, {"author", "edit", "hosts"}, {None}, FALSE, 3, 2, 1)
Cleaned == Play(Setup({"codex"}, None), {1, 2}, {"clean", "author"}, {None}, FALSE, 2, 1, 2)
\* Guidance: packs adopted, chosen, ignored and dropped by the source.
Guidance == Play(Setup({"codex"}, {"go"}), {1}, {"publish", "packs", "project", "ignore", "maintain"}, {None}, FALSE, 3, 1, 2)
\* A first selection, withdrawn before it is installed.
Unselected == Play(Setup({"codex"}, None), {1}, {"project", "ignore"}, {None}, FALSE, 2, 1, 2)
Routes == Play(Setup({"codex"}, {"go"}), {1, 2}, {"wire", "hosts", "route"}, {None}, FALSE, 3, 1, 1)
Policy == Play(Setup({"codex"}, {"go"}), {1}, {"publish", "policy", "delete", "legacy", "link"}, {None}, FALSE, 3, 1, 1)
\* Hooks, of two worktrees.
Hooks == Play(Setup({"codex"}, None), {1}, {"hooks", "auto", "site"}, {None}, FALSE, 2, 1, 2)
Linked == Play(Setup({"codex"}, None), {1}, {"hooks"}, {None}, TRUE, 3, 1, 1)
\* A fresh repository, and Claude's registered hook.
New == Play(Fresh, {1}, {}, {None, "on"}, FALSE, 2, 1, 0)
Registry == Play(Setup({"claude-code"}, None), {1}, {"init", "decide", "settings"}, {"on", "off"}, FALSE, 2, 1, 2)

AllScenarios == {Skills, Cleaned, Guidance, Unselected, Routes, Policy, Hooks, Linked, New, Registry}
=============================================================================
