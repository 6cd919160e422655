# aiwf, specified

aiwf keeps a project's planning state (epics, milestones, acceptance criteria,
ADRs, decisions, gaps, contracts) as markdown files with YAML frontmatter in a
git repository. There is no database and no server: a *verb* (`aiwf promote`,
`aiwf cancel`, ...) loads the files, decides, rewrites them and makes one git
commit whose trailers are the audit log. Several invocations, human editors,
AI agents and plain `git` work on the same checkout.

This directory holds TLA+ modules for the core of that program, TLC
configurations that check them on small instances, and proofs that TLAPS
checks for instances of any size. `PROJECT.json` maps every definition to the
lines it stands for. Paths below are relative to `src/internal/`.

    tlc -workers 2 -config lifecycle_tree.cfg MCLifecycle.tla
    tlapm LifecycleProofs.tla

## 1. Inventory

| component | code | state it keeps | operations | modelled |
|---|---|---|---|---|
| entity vocabularies and FSMs | `entity/` | none (constant tables) | status, criterion and phase legality, terminality, cancel targets, human-only edges, id order, reference schemas | `EntityFSM`, `PlanTree` |
| table of legal workflows | `workflows/spec/` | none (a closed table) | look a request up, evaluate its preconditions | `Workflow` |
| planning verbs | `verb/` (promote, cancel, add, ac, milestone_tdd, move, editbody, archive and their guards) | the entity files: working copy and HEAD | one function per verb: load, guard, project, plan | `Lifecycle` (epics, milestones, criteria) |
| flat kinds, references and labels | `verb/` (promote, cancel, add with resolver and reference flags, milestone_depends_on, setarea, renamearea, setpriority) | entity files, the areas of `aiwf.yaml` | resolve a gap, supersede an ADR, depend, label | `Planning` |
| contract bindings and recipes | `verb/contract*.go`, `contractcheck/` | `aiwf.yaml` | bind, unbind, install and remove a recipe | `Planning`; running the validators is external |
| import | `verb/import.go`, `manifest/` | as the planning verbs | many entities in one or several commits | `Planning` |
| check rules | `check/` | none (pure over a tree) | findings; error severity gates verbs (projection) and pushes | in `Lifecycle` and `PlanTree`, as far as the modelled verbs and merges can trip them |
| id allocation and reallocation | `entity/allocate.go`, `verb/reallocate.go`, `trunk/`, `tree/`, `gitops/refs.go` | ids in the working tree, on other branches, on the trunk ref | allocate highest + 1, compare with the trunk, renumber on collision | `PlanTree`, `Planning`, across branches in `Branches` |
| rename, retitle | `verb/rename.go`, `verb/retitle.go` | entity paths | move a file to a new slug | the move, in `Branches` and `History`; prose links not |
| commit transaction | `verb/apply.go`, `gitops/` | working tree, live index, HEAD, undo journal | `Apply`, rollback, `CommitTree`, `ReconcilePaths` | `TreeOps`, `ApplyTx`, promise in `AtomicVerb` |
| repository lock | `repolock/`, `cli/cliutil/lock.go` | the flock on `aiwf.lock`, one per worktree | acquire with deadline, release | `ApplyTx`; its being per worktree in `Branches` and `Refresh` |
| authorization scopes | `scope/`, `verb/authorize.go`, `verb/allow.go`, `cli/cliutil/{scopes,provenance}.go` | none stored: replayed from commit trailers | open, pause, resume, end, the allow gate, automatic end | `ScopeLog` |
| history audit | `check/{provenance,fsm_history_*,id_rename_untrailered,isolation_escape,promote_on_wrong_branch}.go`, `cli/check/`, `verb/{auditonly,acknowledgeillegal,promote_branch_guard}.go` | commit history | judge past commits, acknowledge them, guard the push | authorization rules in `ScopeLog`, the rest in `CommitLog`, `HistoryAudit`, `History` |
| init, update, doctor | `initrepo/`, `skills/`, `projectguidance/`, `cli/{initcmd,update,doctor}` | generated skills, instruction files, guidance packs, git hooks, receipts and ownership records | install, refresh, adopt, retire, recover, report | `Managed`, `Refresh` |
| loader, views, rendering, CLI, configuration editing, policies, test harnesses | `tree/`, `entityview/`, `render/`, `htmlrender/`, `cli/`, `aiwfyaml/`, `policies/`, `stresstest/`, ... | none that matters between verbs | reading, formatting, testing the source | not modelled |

### How they interact

`cli` parses, takes the lock (`AcquireRepoLock`), loads the tree from the
working copy, checks the provenance gate (`Allow` over replayed scopes), calls
the verb, which returns either an answer ("already so") or a *plan* (file
operations plus commit message and trailers), and hands the plan to
`verb.Apply`. `Apply` guards, performs, commits against HEAD's tree with a
compare-and-swap and reconciles the live index. Nothing of a decision is kept
in memory between invocations, so components only meet in the repository: the
verb that decides reads what the operator's editor left on disk, the commit
takes what HEAD records, and the scope gate reads what the branch's history
says. The hard behaviours all come from these three copies disagreeing.

### What is hard, and what makes each component correct

* **Verbs decide from the working copy, but speak about the record.** An
  uncommitted edit can make a verb answer "already done", satisfy a guard, or
  ride into a commit. Correct means: an answer is true of HEAD, unforced
  commits follow the FSMs, and the tree-wide rules (no closed epic with open
  children, no closed milestone with open criteria, no met criterion with an
  unfinished TDD cycle, nothing live in the archive) hold of HEAD after any
  sequence of verbs, forced ones included.
* **A verb's effect is many file operations and one commit.** Faults, panics
  and deaths between any two of them, an operator committing meanwhile, a
  merge in progress. Correct means: all of the plan or none of it in the
  record, the checkout restored exactly on failure, settled on success, the
  lock always given back.
* **Permission is a replay of history.** The state of a scope is nowhere
  stored; pause, resume, automatic end and reallocation each append a commit
  whose meaning depends on what else is in the history, and on the id it names.
  Correct means: an agent's commit is covered by a scope a human opened, that
  was active, and that replaying the history finds again; a finished entity
  leaves no live scope; what was ended stays ended.
* **Ids are allocated without coordination** across branches. Correct means:
  worktrees of one repository collide by a race only, a collision never reaches
  the published trunk and is always repairable without renumbering the trunk's
  entity, a reference keeps meaning the entity it was made for, and a retired id
  is not handed out again.
* **Two files have to agree.** A resolution, a supersession, a binding, an area
  is written on two sides by one verb and can be undone on one side by another.
* **The audit judges history after the fact**, through merges, renames and
  renumberings nobody announced. Correct means: what the verbs wrote is clean,
  each finding names a change somebody made and none goes unseen, a human's
  answer silences what it names and nothing else, and nothing unanswered passes
  the push.
* **`init` and `update` write among the user's own files**, can die between any
  two of them, and are run by older and newer binaries. Correct means: nothing of the
  user's is lost, the next run finishes the job, and one clean run leaves
  neither a second run nor the doctor anything to do.
* **The rules of one request are spread** over the transition table, guards, the
  claim check and the projection. Correct means: together they give what the
  repository's own table of legal workflows says.

Section 8 names what the models leave out; `PROJECT.json` lists every hazard
at its line.

## 2. Plan

Done:

1. `EntityFSM`, `Lifecycle`, `LifecycleProofs`: first because
   every other component exists to protect these files.
2. `TreeOps`, `AtomicVerb`, `ApplyTx`, with `ApplyProofs`. The
   promise (`AtomicVerb`) is the abstract specification; `Lifecycle`'s and
   `Planning`'s atomic verb steps rest on it.
3. `ScopeLog`, with `ScopeProofs`: scopes as a log of commits; the gate, the verbs
   that write it, and reallocation.
4. `PlanTree`, `Planning`: the tree as a value with the check rules on it; flat
   kinds, references, ids, labels, bindings, import; with `PlanningProofs`.
5. `Branches` over `PlanTree`: branches, trunk, merges, `idsUnique` before a
   push, reallocation with the trunk tiebreak; with `BranchProofs`.
6. `CommitLog`, `HistoryAudit`, `History`: the audit and its answers.
7. `Managed`, `Refresh`: setup, update and the doctor; with `RefreshProofs`.
8. `Workflow`: the repository's table of legal requests, against which
   `Lifecycle` and `Planning` are held; with `WorkflowProofs`.

Left:

* Proofs: `SecondRunChangesNothing`, the half of `Converged` that does not need the doctor.
* Composition: `Lifecycle` verbs through `ScopeLog`'s gate, so that terminal
  promotion and automatic scope end are one step of both; scopes replayed on
  several branches.

## 3. The modules and the code

**`EntityFSM`** holds the tables of `entity/transition.go` as functions from a
status to the set of its successors, with the predicates the verbs ask of them
(`ValidateTransition`, `IsTerminal`, `CancelTarget`, `IsLegalACTransition`,
`IsLegalTDDPhaseTransition`, `IsSovereignActShape`). It has no variables.

**`Workflow`** is `workflows/spec`: the rows per kind, state and verb with their
outcome and preconditions, `LookupRules` and `EvaluatePredicate`. It was written
from audits and decisions, not from the verbs, and is tested in the repository
one fixture per row; here it is the promise the verbs are held to, from every
state they can bring about. A module that extends it says what a predicate's
subject means of its own state (`EntityContext`, `ACContext` in
`Lifecycle`, `FileContext` in `Planning`).

**`Lifecycle`** keeps two functions from entity to file, `disk` (what
`tree.Load` reads) and `head` (what the last commit records), and `result`,
the answer and trailers of the last step. One action is one verb run from load
to commit. Every verb has the shape of the code: the claim guard
(`guardClaim`, `verb/claimguard.go`), the request already satisfied
(`Converge`, a NoOp), the FSM and cascade guards, and `planEntityWrite`, whose
`ProjectionClean` is `projectionFindings`: the error findings of the projected
tree minus those of the loaded one, compared by `findingKey`. What the
projection can see is modelled with its gaps: an AC's new section is not on
disk when `AddAC` projects, a moved file is unreadable at its new path, and
`edit-body` projects the tree it loaded. `HandEdit`, `Restore` and `RawCommit`
are the operator outside the verbs, each behind its own constant.

**`PlanTree`** is the tree as a value: entity records with their references,
resolvers, areas and prior ids, the loaded tree with its index, its trunk and its hits
on other branches, and the check rules on it (`idsUnique`, `refsResolve`,
`noCycles`, `dependsOnCancelled`, `adrSupersessionMutual`, ...). `Run` is
`check.Run`, `projectionFindings` the difference verbs are gated by, and
`Reallocated` the rewriting of references. An entity has a `uid` no file
carries, and a reference remembers the uid it was made for, so that a property
can say what an id has come to mean.

**`Planning`** runs the verbs over one such tree: a verb loads, guards, projects
and commits in one step, an import one commit at a time, with `ImportStop` between
two of them. A *play* is a cast of entities and the verbs in use; one state
space holds several small ones (`MCPlanning`). `MergeIn` brings a second
holder of an id, as a merge of another branch does.

**`Branches`** gives two checkouts, worktrees of one repository or clones, a
branch each, and a remote with a trunk. `log` holds the commits of all of them.
A verb is two steps, `Plan` and `Commit`, as load and apply are, so that two
worktrees can allocate from the same view. `TrunkCollisionRenames` walks rename
trailers on both sides of the merge base as `gitops/refs.go` does;
`ReallocateByID` picks by the trunk tiebreak, `ReallocateByPath` as told;
`PushTrunk` is guarded by the check against the trunk as last fetched.

**`CommitLog`** is the git history and what the checks read of it. **`HistoryAudit`**
are the checks: `batchedWalkStatusChanges`, the one pass over all branches,
newest first, that follows a file through renames; the illegal,
forced-without-answer and manual-edit verdicts; `RunUntrailedAudit` of the unpushed first-parent range;
`RunIDRenameUntrailered`; `RunIsolationEscape` with `BranchOfSHA`, the branch a scope is
taken to be bound to; and `RunPromoteOnWrongBranch`, for activations that are not
on the branch they belong on (trunk for an epic, the branch named after its epic's
directory for a milestone). **`History`** writes the histories: verbs, hand edits,
replaced and moved files, branches cut, merged, squashed and renamed,
acknowledgements, audit-only records, scopes and agents, and the push. `Promote` has
the verb's branch guard and a step in which another session's checkout leads the
commit astray after it. `about`, `want`, `stray` and
`home` are history variables the audit cannot see; the properties compare its
findings with them.

**`Managed`** maps paths to contents, told apart by who made them. Each part of
`init` and `update` (`Materialize` of artifacts and hooks, the import block, project
guidance, `.gitignore`, Claude's settings) is a function from the files on disk
to the *sequence of file operations* it performs. **`Refresh`** performs them one
at a time: `Begin` and `Do`, with `Fail` (an error, which ends the run after the code's own
cleanup) and `Crash` between any two; and the user, who edits, deletes, adds,
reselects and configures between runs. `Inspect` is the doctor.

**`TreeOps`** is the vocabulary of plans: renames of a directory and whole-file
writes, and what they do to a tree. **`AtomicVerb`** is what `verb.Apply`
promises its caller: the record moves by exactly the plan in one step, or not
at all, and the answer says which; what a plan does to a tree is its parameter `Effect`,
for which `ApplyTx` gives that of `TreeOps`. **`ApplyTx`** is how the code keeps it: one
action per step at which something else may happen. `Acquire`, `Busy` and
`Release` are `repolock`; `MakePlan` is the verb; `CheckIndex` and
`CheckWorktree` are the guards at the head of `Apply` (merge in progress,
staged conflict, divergence from HEAD and its two exemptions: a path git has no version of, and a
write that adopts the working copy, whose frontmatter may be the working copy's own or what
loading and serializing makes of it, the parameter `Reserialized`); `Rename` and
`WriteFile` are its two phases, each appending to the undo journal;
`gatherCommitOps`, `ReadParent`, `UpdateRef` are `CommitTree`; `Reconcile` is
`ReconcilePaths`. `Fault` is an error or panic before the commit, after which
`Undo` reverses one journal entry at a time; `ReconcileFault` is the failure
after it, which is not rolled back; `Crash` loses the process's memory and its
lock. `Edit`, `Stage`, `Restore`, `GitCommit` and `StartMerge` are the operator
and the operator's git; `Operating` says when they may act.

**`ScopeLog`** keeps `tree` (per id: live, terminal or absent, its parent, its
`discovered_in`, its prior ids) and `log`, the commits that carry a trailer the
replays read. A scope is named by its opener's position, as the code names it
by its SHA. `ReplayScopes` is the function of that name in
`cli/cliutil/scopes.go` (`Replayed` has its intermediate results), `CurrentID` follows the rename chain, `ActiveScopes`,
`ListedBefore` and `Allow` are the gate in the order the code walks the
scopes, and `AuditFindings` is `provenanceAuthorizationFindings`.
`AuthorizeOpen`, `AuthorizePause`, `AuthorizeResume` and `AuthorizeEnd` are the
four modes of the verb; `Act`, `Close`, `Reopen`, `Move`, `Add` and
`Reallocate` are the gated verbs, reduced to what they do to an entity's
standing and place.

**`Inductions`** has what the proofs need of induction and **`WorkflowProofs`** what they
need of the table; **`ApplyProofs`**, **`ScopeProofs`**, **`BranchProofs`** and
**`PlanningProofs`** and **`RefreshProofs`**, like `LifecycleProofs`, are described in section 6.

The `MC*` modules name the plays, the symmetry sets and the views.

## 4. The runs

| run | question | bounds |
|---|---|---|
| `lifecycle_edits` | with an operator editing files under the verbs: do the three record invariants hold | one epic, one milestone, one criterion, both policies, force, hand edits of one file at a time |
| `lifecycle_raw` | when the operator also commits such edits with git: are answers true of HEAD, do unforced verbs follow the FSMs and the workflow table from any record, and is what the table offers taken | as `lifecycle_edits` |
| `lifecycle_tree` | across epics: no orphaned milestone, human-only edges | two epics, two milestones that move between them, a human and an agent, force |
| `apply_operator` | `Apply` against an operator who edits, stages, commits and merges, also while it runs, but not in the files it has planned, nor between its commit and its reconciliation of the index | two directories of one file, two frontmatters of which loading normalizes one to the other, two bodies, plans of renames and one write, three commits |
| `apply_crash` | rollback, crash, failed reconciliation and the lock, at every step | two invocations, two writes per plan, so a path can be written twice and rewritten after a rename; two commits; `FairSpec` |
| `scope_log` | scope FSM, replay, gate and audit | two epics, three milestone ids (two renumberings), a gap, four commits of which one opens a scope at the start |
| `planning` | references, resolutions, bindings, labels, retired ids, the workflow table | eight plays of two to four entities; id numbers to 3; one priority level |
| `branches` | ids across two checkouts | six plays of two to four decisions and five or six commits; one decision retitled twice in the play made for it |
| `history` | the audit, its answers, the push, the branch model | seven plays of one or two entities, four or five commits, two branches (four for agents); only trunk is pushed |
| `refresh` | init and update among the user's files | ten plays; two hosts, two versions, three packs, two or three runs, one or two faults, up to two changes by the user |
| `apply_stale_index` | finds the git commit that reverts a verb's work after a failed reconciliation | two directories of two files |
| `scope_renumbered` | finds the scope left open by the closure of a renumbered entity | three epic ids, four commits |

The last two are expected to end in a violation; `findings` in `PROJECT.json`
quotes the line of the repository each one contradicts.

What the passing runs show, by property:

* `lifecycle_edits`: `ClosedContracts` (a closed milestone has no open
  criterion), `MetMeansDone` (a met criterion under `tdd: required` has finished
  its cycle), `ArchivedTerminal` (nothing live in the archive), of HEAD, after any
  sequence of verbs. `lifecycle_tree`: `NoOrphans`, `SovereignByHuman`.
* `lifecycle_raw`: `AnswerIsTrue`; `UnforcedStepsAreLegal`;
  `VerbsKeepToTheTable`, no promote or cancel against an Illegal row or past the
  conditions of a Legal one; and its converse `OffersAreTaken`: in a tree without
  errors, a request the table calls Legal succeeds.
* `apply_operator`, `apply_crash`: `Atomic` (the refinement of `AtomicVerb`),
  `OperatorsWorkIsSafe` (rollback restores exactly, success leaves files settled, a
  merge in progress keeps its commit), `GitCommitsOwnWork`, `NoFieldRidesIn`, `LockFreed`.
* `scope_log`: `ClosedMeansEnded`, `ScopesFollowRenumbering`,
  `OnlyThePickedMove`, `AuditAgreesWithGate`.
* `planning`: `RefsKeepTheirReferent`, `PriorIDsStayRetired`,
  `DependenciesSound` (no cycle, no live milestone waiting for a cancelled one),
  `ResolutionsAreTwoSided`, `ConfigurationAgrees` (bindings and areas),
  `VerbsKeepToTheTable`.
* `branches`: `TrunkIsSound` (no id twice on the published trunk, nothing cited
  that was never published), `OnlyARaceCollides`, `CollisionsAreRepairable`
  (the tiebreak spares the trunk's holder; some `reallocate` always leaves fewer
  collisions), `RenamesAreNoCollisions`.
* `history`: `VerbsPassTheAudit`, `AuditIsExact`, `OriginIsAnswered`,
  `BranchModelIsPoliced` (an agent's commit outside its scope's branch, and an
  activation led astray, are reported until answered; one that landed where it
  belongs is not).
* `refresh`: `UsersWorkKept` (no run takes a file, setting or hook of the user's),
  `NeverStuck` (what aiwf left behind never makes a later run refuse), `NothingLeftBehind`
  (all it made is claimed by a record, also in mid-run), `Converged` (after a clean run neither a
  second one nor the doctor finds anything to do), `AdoptedIsInstalled`.

Why the bounds are enough for these questions. The record rules of `Lifecycle`
are each about one epic with its children or one milestone with its criteria,
and every route to breaking one of them (add, move, close, reopen, edit, sweep)
needs at most one of each, two when it moves between epics. For `Apply`, two
paths and two writes give every pair of operations whose order matters to
the journal, one dirty file puts a difference at each class of path (renamed,
written, carried along, untouched), and two or three commits put another commit
before and during a verb's. For scopes, four commits give two scopes on one entity with
a pause, an end or a closure after them, and an opener followed by two
renumberings of a milestone. In `planning` three ids are a number, its
successor after a renumbering and one more allocated after that; three
milestones close the shortest cycle that takes two verbs. A collision needs two
checkouts and two decisions, one more to be allocated after the repair, and
five commits take the work of both sides through a merge and a push. The walk's
decisions are about a change, one move of the file and one merge around
them: four or five commits after the first. A second run, a second version and a second fault are what recovery and
convergence are about; a third run sees what the recovery left.

`lifecycle_edits` and `lifecycle_raw` explore modulo `View`, which drops
`result`, and `planning` modulo its own, which drops `step`: the next step does not depend on
them, and the properties that speak of them are action properties, evaluated on
every step.

The scope, planning, branches, history and refresh runs say `CHECK_DEADLOCK
FALSE`: commits, ids, runs and changes are bounded, and a behaviour that has
used them up stops. All other runs check for deadlock.

## 5. Fairness

Only `LockFreed` needs any. `FairSpec` asks weak fairness of each invocation's
own steps (`Acquire`, `Busy`, `Apply`, `Release`): a process the operating
system schedules runs on, `Acquire` polls with a deadline and so ends as
`ErrBusy` when the lock stays taken (`repolock/repolock_unix.go`), every git
subprocess returns, and the release is deferred so it runs on error and panic.
Nothing is assumed of faults, crashes, the operator, or new invocations. No
fairness is given for obtaining the lock: a waiter may be refused for ever, as
in the code.

## 6. What is proved

`LifecycleProofs` holds for any sets of epics and milestones, any number of
criteria, any actors and policies, forced or not. Its only assumption is
`LifecycleAssumption` (the sets are disjoint, `Human` is not an agent).

* `TypeCorrect`: `Spec => []TypeOK`. Every verb step is of one of four shapes
  (`VerbShape`): a write of one file behind the claim guard and the projection
  net (`GatedWrite`), a body write that keeps the frontmatter (`BodyWrite`), a
  sweep (`Archive`), or nothing. The rest of the argument speaks of these
  shapes and not of the fourteen verbs.
* `ContractsStayClosed`, `MetCriteriaAreDone`, `ArchiveIsTerminal`: the three
  record invariants, assuming the operator does not commit entity files with
  git (`~RawCommits`) but may edit them in any way. They are not inductive:
  the projection compares *working-copy* findings, and a finding already there
  excuses the verb. The invariant proved is `RecordInv`: types, `Agree` (parent
  and archive location are the same in both copies, since no edit moves a
  file) and `RecordSafe(head)`, the three rules per entity. The heart is
  `GatedWriteSafe`: the claim guard makes the written file's working copy equal
  to the record's, so that a finding the projection would excuse would
  already be a violation in `head`.
* `EpicsCloseLast`: no closed epic owns an open milestone, assuming the
  working copy is not edited by hand (`~HandEdits`). The assumption cannot be
  weakened to the one above: the guard reads the children's files
  (`verb/promote.go:218`), which the claim guard does not compare, so an epic
  closes over a child whose closing is only in the working copy. The invariant is `OrphanInv`, `disk = head` and the rule.

The rest of the module needs `TypeCorrect` and the same assumption alone, so it holds
with hand edits and raw commits of any kind:

* `AnswersAreTrue`: each verb either answers "already so" about a file the
  claim guard has just found equal in both copies, or lands a file whose
  field is the claimed value; verb by verb, the claim holds of `head'`.
* `OnlyHumansOpenAndClose`: only promote and cancel change an epic's recorded
  status. Forced, their commit needs a human (`ForceAllowed`); unforced, the
  edge is checked from the working copy, which the claim guard ties to the
  record. This is an argument about a step, so no strengthening is needed.
* `VerbsFollowTheFSMs`: per verb, the file that lands is the *working copy's* with one
  field changed along an edge (`LandLegal`, `LegalEdges`); the record moves by that edge
  alone because the claim guard has found the two copies equal in every field but the
  body. A sweep changes no field, and a cancel of an epic or a milestone takes the edge
  the FSM has into its terminal status.
* `AnswersAreInTheTable`: the table is a set of rows with preconditions, so for
  each kind a lemma of `WorkflowProofs` (`EpicRequests`, `MilestoneRequests`, `ACRequests`, ...) says
  which requests have a Legal or NoOp row that applies and no Illegal one. The
  preconditions are then owed by the code: the open children of an epic by the cascade
  guard, the open criteria of a milestone by the projection net (`NetAtClosing`), the
  unfinished cycle of a met criterion by the same net (`NetAtMeeting`): no
  earlier finding can excuse either, the milestone being open and the criterion not met
  before the step.

`ApplyProofs` holds for any directories, names, contents and invocations, any
number of writes in a plan and of commits, with or without faults, failed
reconciliations and crashes. It assumes `TreeAssumption` and `ApplyAssumption` and, all
but the first theorem, `Operating # "anywhere"`: the operator does not touch a file
that a running verb has planned. That window is real, and with it both
`Atomic` and `OperatorsWorkIsSafe` fail (section 8).

* `TypeCorrect`: types, and that the lock is held by exactly the invocation past it.
* `WorkIsSafe`, `ApplyIsAtomic` rest on the inductive invariant `ApplyInv`. None of the
  checked properties says where a running verb is between its guards and its answer;
  `WorkInv` does, per program counter. `AsFound` and `Unstaged`: what the guards saw
  still holds, since nobody else writes the plan's files. `Clear`: where the tree Apply
  found differs from HEAD, a write of the plan is the first operation on the file.
  `Progress`: the disk is the `k`th of the `Stages` of the plan, and each journal entry
  is the undo of its operation at its stage, so that undoing the newest
  entry leads to the stage before. `Gathered`, `Based`, `Recorded` carry
  that to the commit and the index. For the refinement, `UpdateRef` has to make exactly
  `Effect(plan, head.tree)` of HEAD though it is gathered from a disk that differs from
  HEAD: by `Clear` and the lemma `EffectLocal` the plan makes the same of
  both, since the files in which they differ are written first.
* `AdoptedFieldsStay`: when a write adopts the operator's edited working copy, the file's
  frontmatter in the record stays what it was or becomes what the loader's pipeline makes
  of it, for *any* such pipeline (`Reserialized` is a parameter). It says no more, and the code
  claims no more (`verb/apply.go:743-745`): `edit-body` with a supplied body over a milestone that
  carries a stray `area` drops the field, as `NormalizeForKind` does. The theorem holds from the
  guard to the commit, past everything others do to HEAD, index and checkout in between.
* `OwnCommits`: a git commit carries what the operator staged, assuming also no failed
  reconciliation and no crash; `apply_stale_index` shows what either leads to. The
  invariant adds `Accounted`: index and HEAD differ only where something is staged
  or where a landed verb is about to reconcile.

The lemmas about plans come first in the module; a `Stages` function is recursive on the
number of operations done, so they need induction. `Inductions` states it for
*sets* (`LeastElement`, from the library's well-founded induction over a relation), which the
provers can instantiate, and unfolds functions defined by recursion over an interval
(`RecursionOnInterval`).

`ScopeProofs` holds for any number of entities, agents, commits and renumberings, assuming
`ScopeAssumption`. The replay, the rename chain, the parent chain and the
audit's lineage are all recursive; each is characterised once by such an induction.

* `TypeCorrect`, `ClosingEndsScopes`, `ScopesAreFollowed`: the invariant is `ScopeInv`.
  `ShapeInv` bounds the parent chain (a gap, a milestone, an epic). `LogInv` says
  numbers only rise: an id is renumbered to a higher one and never allocated again, so the
  chain of renumberings ends, at an id that exists. `EndsInv` ties the commits to the
  replay: what any commit says it ended is ended when its entity is replayed.
* `OnlyPickedScopesMove`: the commit the verb wrote moves, in every later replay, the one
  scope the verb had picked, along the FSM; scopes of other entities stand still, and an
  ended one stays ended.
* `GateSatisfiesAudit`: a commit the gate let through is clean to the audit that sees it
  in the tree after it, a creation or renumbering included. It assumes that agents create
  no decisions (`"decision" \notin Creates`): the gate follows a new decision's
  references, the audit does not (section 9), and with decisions in `Creates` TLC finds the
  commit that one allows and the other reports three commits in.

`BranchProofs` holds for any number of checkouts, decisions and commits, in one
repository or as clones, with every verb and git command in play. It assumes
`BranchesAssumption` alone (the bounds are numbers).

* `TrunkStaysSound`: the trunk is only ever a branch tip that passed the pre-push check.
  `idsUnique` reports two files of one id because the walk meets one of them first
  (`BeforeTotal`: two files of one id have two paths, which `FilesOK` keeps through
  commits and merges). `refsResolve` lets a reference through when the checkout
  has its target or a ref of the *remote* has, as last seen; what was seen is of
  the remote's past (`RemoteOK`), so it is published, and what is published stays so.
* `OnlyRacesCollide`: one more than the highest id in view is one more than the highest
  anywhere, when every branch of the repository is in view and none has moved since. The
  invariant is `BranchInv`. `DistinctOK` says that all refs of the repository, and
  every plan and the refs no newer than it, use an id for one decision. That is kept only
  because of `CurrentOK`: a ref newer than a plan was reached by a
  worktree that committed since, which sets `raced` when the plan is committed.
  A merge moves a branch as well, and may be the reason why the plan is late, but it
  brings no decision that was not on another ref already.

`PlanningProofs` holds for any scenarios: any casts of entities, any number of references
per file, manifests of up to two entries, any labels and validators, every verb. It assumes
`PlanningAssumption` (the bounds are numbers, and a scenario starts with as many numbered
files as it says, its first an epic when there are milestones to own).

* `TypeCorrect`: a file is a record of its entity's kind with a status of that kind,
  retired numbers below its present one, and the only file of its uid. Every step is of one of nine
  shapes (`StepKinds`): files rewritten in place, one file added, a renumbering,
  a write of `aiwf.yaml`, the three of an import, a merge, nothing.
* `ReferencesKeepTheirReferent`: the invariant is `Inv`, which says of the tree that *will* be
  (`FinalOf`: the one plan a per-entity import still has to land is written too) that ids are one
  entity's each and every reference of a file outside the archive means who holds its id (`Sound`). In a
  sound tree the rules report neither a duplicate nor a dangling reference (`SoundIsQuiet`), so the
  projection has nothing to excuse and what it lets through resolves (`GateAnswers`). Each
  verb then owes only that the references it writes mean what they name in the tree it
  read (`Made`), or are those it found. A renumbering moves every reference in a field the
  verb knows; in `linked_adrs`, which it does not, the old id dangles and the projection refuses.
* `NumbersAreNotReused`: only add calls itself add, and its number is above all in use,
  which are above all they replaced.
* `StatusesFollowTheTable`: the lemmas of `WorkflowProofs` again; what a Legal row asks of
  the file, its resolver, is what the flags have just written (`FlagsResolve`).
* `YamlAgreesWithTheTree`: a binding names its contract by number, so the invariant `BindInv` says
  that its entity is in the tree, landed or to land, and has that number unless its
  `prior_ids` show a renumbering. It assumes `Apart`: no scenario binds, renumbers *and*
  imports. With all three in one scenario TLC finds the case the exception of
  `BindingsHold` no longer recognises: a bound contract is renumbered and then updated by import,
  which writes the frontmatter afresh and forgets the `prior_ids`.
* `DependenciesStaySound` and `ResolutionsStayTwoSided` share a second invariant, `LawInv`, on top of
  `Inv`. It has three parts. `AllFit`: which fields a kind's references are in and what kind they
  name, and that no milestone is archived alone. `Paired`: ids are distinct, `superseded_by` does not
  go round, every `supersedes` link names the entity it was made for, and a file nobody
  forced or imported has its resolver, is done when archived, and is listed by what superseded it.
  `Orderly`: `depends_on` does not go round and no milestone still to be done waits for a
  cancelled one; it holds of the tree that will be (`FinalOf`), since an import of one
  commit per entity may be between two of them, and is not claimed once one stopped there. None of the two properties is inductive: that a link still means
  its other end after a renumbering needs the ids distinct, that a sweep hides no half of a
  pair needs the archived to be settled, and that the ADR that superseded is not the
  superseded one itself needs the cycle check.
* What the cycle check finds is proved, not assumed. `cycleNodes` is the code's search with its
  white, gray and black nodes, one visit's next step at a time, as a function on a bounded number of steps.
  `CycleNodesAreFound`: it reports nothing exactly when every set of nodes has one that
  does not lead back into it. The search's invariant (`SearchInv`) says that the stack is a path, that a report
  means there is a cycle and that, while there is none, what is black leads to black only, without
  cycle; `Spent` counts edges left,
  white nodes twice and the stack, and falls with every step, so that the bound is enough. From it follow
  `CycleGate` and `OrderGate`, what a plan that passes `projectionFindings` may
  not have brought, and `DanglingGate`, what it may not have cut; each verb then has one
  lemma (`PromoteKeepsLaw`, `ReallocateKeepsLaw`, ...).

`RefreshProofs` holds for any hosts, families of artifacts, versions of the binary (each
shipping any names), packs, revisions of the catalogue and scenarios, with every edit of the user's,
any number of runs, changes and faults. It assumes `ManagedAssumption` (what a family ships is finite
and not named as its records are; contents are told apart) and `RefreshAssumption` (the bounds
are numbers; a scenario starts from a repository without aiwf or as a finished `init` left it).

* The invariant is `Inv`: `TypeOK`, `Sound(disk, Context)` and `RunSound` of both worktrees. `Sound`
  is what must hold of the files *between any two operations*: an artifact aiwf made is claimed by
  the family's record or receipts, and where the user left aiwf's files alone each is owned, absent or as
  its receipt says (`ArtifactSound`); an installed pack is claimed (`PacksClaimed`), and what a guidance path
  holds can be replaced (`Tidy`); with no recovery record the packs are those of the index
  (`Whole`); what the user wrote is there (`KeptSound`). `Context` is what the user has done:
  meddled, deleted, kept, asked. None of the checked properties is inductive alone: that the next
  run does not refuse depends on every receipt having been written before what it speaks of.
* The main argument is about sequences. `Leads(d, ops, e, c)` says that the operations lead from
  `d` to `e` through sound disks only; trails compose (`LeadsThen`), one exists for each
  list of writes to distinct paths whose every subset is sound (`LeadsOver`), and the tail of a trail is
  one, so that a run may die anywhere. For each stage a lemma (`GuidanceGoes`, `FilesGo`, ...)
  gives the trail of what the stage plans. An installation has
  three parts: staging, which writes temporary files only; receipts, under which every file
  is as before or as after (`DuringSound`); and the new record, then the removal of the receipts.
* `RunSound` keeps, for a run at work, the rest of its trail, which no other step disturbs, since a
  linked worktree only performs hook stages, trails do not read hooks (`AdoptsButHooks`,
  `PlainEffect`) and the user waits. A failure only removes temporary files, which are
  nobody's (`FailSound`).
* Hooks have their own invariant, `HooksInv`, claimed while the two worktrees have not been at
  their hooks at once (`raced`). `HookSound`: the bodies that were there are at the
  hook or its `.local`; `PlannedHook`: the operations a run has planned are those for the files
  as they now are, one, two or three operations before the end; `PassedHook`: the hook of a stage that is
  past is settled, so that at the end all of them run.
* `TypeCorrect`, `UsersWorkIsKept`, `NothingSticks`, `NothingIsLeftBehind` follow from the two invariants
  state by state; `OnlyInstalledIsAdopted` from a step of one: `aiwf.yaml` is only written by the last
  operation of an installation's trail, when the record is complete, by the user, or with the same packs.

## 7. What is model-checked only

`LockFreed`, being liveness; `OffersAreTaken`, being about `ENABLED`;
everything of `History`, whose states are walks and folds over histories of
several branches; `Converged` of `Refresh`, which runs every stage once more over its own result
and then reads the doctor's whole report. Of `Branches`,
`RenamesAreNoCollisions` (the renames are chained by a fold over a set of commits) and
`CollisionsAreRepairable` (that some reallocate passes the projection and dissolves a
collision is a count over the findings of the tree it makes).

## 8. What is not modelled

Components without a module are listed in section 1 and, with their reasons, in
`PROJECT.json`: command-line parsing, rendering, read views, configuration
editing, running contract validators, and what is not part of the running
program (`policies/`, which tests the source itself, and `stresstest/`, together
more than a quarter of the lines). Within the modelled components:

* `Lifecycle`: the branch guard of promote (in `History`), the TDD diff-shape gate, the
  refusal of an `edit-body` that drops sections, archive declines that rest on
  links from elsewhere; hand edits change statuses, criteria and sections, not
  parents or paths; criteria are only added with an empty or a filled section.
  One finding code stands for the two the code gives a done and a cancelled
  milestone with open criteria.
* `Workflow`: the global rules (authorize, scope reach, rung pairs), the branch
  cells, the anti-rules, `--tests`, the layer and code of a refusal.
* `ApplyTx`: symbolic links, file modes, an unborn HEAD; an operator next to two
  contending invocations; an edit of a file a running verb has planned
  (`Operating = "anywhere"`, where `Atomic` fails: the guards compare once, the gathering
  reads again, and the code promises nothing of that window).
* `ScopeLog`: one branch, so neither a pause unseen on another branch nor a
  merge that interleaves histories; the branch preflight of an open (which
  `History` has); principals; the audit's wrap-bundle exception; commits made with
  plain git; the standing of gaps and decisions, since no scope is opened on
  them.
* `Planning`: titles, bodies and file formats; manifests of more than two
  entries; schema and fixture files of a contract are taken to exist.
* `Branches`: git's similarity heuristics, an unborn or unresolvable trunk,
  merges made by a host; two retitlings of what the trunk has, one publication of
  a branch; a renumbering of an id nobody disputes only in the play that
  asks for it.
* `History`: hand renumbering without `prior_ids`, forged trailers, deleted and
  restored files, amends and force pushes, reflogs and the orphan rule,
  trailer-verb-unknown, the wrap-bundle rule, shallow clones; one scope per play;
  a trunk without a name, so an activation nothing is expected of.
* `Refresh`: the user changes files between runs only; a linked worktree runs
  `update`'s hook stages only; pre-commit and commit-msg have pre-push's shape;
  the statusline, the health file, the provenance README beside a family of skills, agent
  tiers, dry runs and `--skip-hook`.

## 9. Observed while modelling

Not stated as properties of their own; a property that would otherwise fail on one of
them names the exception in its definition.

Verbs and the workflow table. The table (`workflows/spec/antirules.go:23`) says criteria are
optional and offers draft to in_progress unconditionally, `verb/promote.go:567`
refuses an unforced start with none or with an unwritten one; it offers promoting a
proposed epic to cancelled without the open-children row the verb has; it knows
a gap's resolver as an id only, the verb takes a commit as well; it has no rows for promoting a
gap to wontfix or a criterion to cancelled, which the FSMs allow. In the
archive, where the criteria rules do not look, a criterion can be added to a closed
milestone and promoted to met whatever its phase. A verb that repairs one of
two faults named by one finding can be refused by its own projection, because a
finding's identity includes its message and path (`verb/common.go:271`, the repository's
G-0574); this is also how a renumbering of an entity with an older dangling reference is
refused. `edit-body` without a file commits a section the operator emptied, as
its projection re-reads the edited body on both sides (`verb/editbody.go:267`).

Ids. `reallocate` skips `linked_adrs`, composite references and bindings
although its comment says it "rewrites every reference to the old id"
(`verb/reallocate.go:16`, `:491`): with no second holder the projection refuses,
with one the leftover resolves to the wrong entity. A citation of a pending id of another branch dangles, or
names another entity, when that branch renumbers. An import that
stops half way and is retried with automatic ids duplicates what landed
(`cli/cliutil/apply.go:178`). An import that updates an entity writes its frontmatter from the
manifest alone: its `prior_ids` are gone unless repeated there (`verb/import.go`, `buildEntityFromEntry`).

Scopes. The gate prefers the last-listed scope, not the most recently opened one
(`docs/design/provenance-model.md:208`), when an agent holds scopes on several
entities; resume takes the most recently opened paused scope, where line 244 of
that document says the most recently paused. The gate judges a creation by all its
references (`cli/add/add.go:431`, `verb/allow.go:201`), the audit by its parent and
`discovered_in` only (`check/provenance.go:346`).

History. The walk follows paths through single-parent commits, so a hand edit at
the old path dated after a concurrent rename loses its earlier history once
merged. Commits of an unpushed branch, or of a first push without upstream, are
never audited for trailers. An audit-only record silences by commit and by the id of the day: it
silences another entity's edit in the same commit, and the warning returns after a
renumbering. `BranchOfSHA` picks the branch whose tip is nearest: once the bound
branch has moved on, a sibling cut from the same commit is taken for it.
`gatherActivationCommitsLocalBranches` reads promote commits only, so the rename chain
that `RunPromoteOnWrongBranch` builds from them, which the comment at
`check/promote_on_wrong_branch.go:131` counts on, is always empty; older ids are
found through `prior_ids` alone, and a check from a branch that lacks a renumbering
says nothing of the newer id. Fast-forwarding an epic's branch into trunk and
deleting it, or renaming the epic's directory, makes a correct activation of its
milestones a reported one. An audit-only record of an activating status is judged like
an activation.

Commits. Between update-ref and `ReconcilePaths` the live index still holds the
old bytes of the verb's files (`gitops/verbcommit.go:51`). A `git commit` the operator makes from it in
that moment reverts the verb's commit, without any fault; the lock does not bind
git. `MayCommit` leaves that moment out.

Setup. A first installation of guidance that is interrupted stays pending for ever when the user then
ignores its pack: an empty selection returns before the recovery (`initrepo/project_guidance.go:115`), while
the doctor goes on saying "rerun aiwf update" (`projectguidance/state.go:15`); `DoctorSatisfied` names the exception, and
without it TLC finds the case in the scenario `Unselected`.
An artifact the user edited that only a receipt claims blocks later updates. Two linked
worktrees updating at once can move aiwf's own hook over the user's `.local`,
since the lock is per worktree and the hooks are shared. A non-executable hook
becomes executable when it is chained. Opting out of the post-commit hook
leaves its `.local` unchained. The doctor does not read ownership records.
