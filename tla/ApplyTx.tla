------------------------------- MODULE ApplyTx -------------------------------
(***************************************************************************)
(* How a mutating verb reaches the record: the repository lock             *)
(* (internal/repolock), verb.Apply's guards, its two phases of file        *)
(* operations with their undo journal, the commit built from HEAD's tree   *)
(* by compare-and-swap (internal/gitops), and the reconciliation of the    *)
(* live index -- with several invocations, an operator editing, staging,   *)
(* merging and committing in the same checkout, I/O and git faults, and    *)
(* processes that die at any point.                                        *)
(***************************************************************************)
EXTENDS TreeOps, FiniteSets

CONSTANTS
  Reserialized,  \* what loading and serializing a file makes of its frontmatter
  Procs,       \* invocations of aiwf on this checkout
  MaxCommits,  \* bound: commits
  MaxDirty,    \* bound: files of the checkout that differ from HEAD when edited
  Operating,   \* when the operator edits, stages, commits and merges: never,
               \* between verbs, at any time elsewhere (not the files a running
               \* verb is about to commit), or anywhere
  Faults,      \* TRUE: a step before the commit may fail
  IndexFaults, \* TRUE: the index reconciliation after the commit may fail
  Crashes      \* TRUE: an invocation may die between any two steps

ASSUME PipelineAssumption == Reserialized \in [Files -> [Fields -> Fields \cup {None}]]

ASSUME ApplyAssumption ==
  /\ None \notin Procs
  /\ MaxCommits \in Nat \ {0} /\ MaxDirty \in Nat
  /\ Operating \in {"never", "between", "elsewhere", "anywhere"}
  /\ {Faults, IndexFaults, Crashes} \subseteq BOOLEAN

VARIABLES
  disk,     \* the working tree
  index,    \* the live index
  head,     \* HEAD: its tree, and its commit's number
  merging,  \* the commit a merge in progress started from, 0 for none
  lock,     \* holder of aiwf.lock, None for nobody
  proc,     \* the invocations
  staged    \* the files the operator staged and has not committed yet

vars == <<disk, index, head, merging, lock, proc, staged>>
repo == <<disk, index, head, merging, staged>>

\* An invocation: where Apply is, its plan, the tree Apply found, the undo
\* journal, the commit under construction, and what the caller is told.
Idle == [pc |-> "idle", plan |-> <<>>, base |-> EmptyTree, journal |-> <<>>,
         removes |-> {}, writes |-> EmptyTree, parent |-> [tree |-> EmptyTree, sha |-> 0],
         outcome |-> "none"]

At(p, pc) == proc[p].pc = pc
Goto(p, pc) == proc' = [proc EXCEPT ![p].pc = pc]
Finish(p, outcome) == proc' = [proc EXCEPT ![p].pc = "finished", ![p].outcome = outcome]
Rollback(p) == Goto(p, "undoing")
-----------------------------------------------------------------------------
(* The repository lock.                                                    *)

Invoke(p) ==
  /\ At(p, "idle")
  /\ Goto(p, "waiting")
  /\ UNCHANGED <<repo, lock>>

Acquire(p) ==
  /\ At(p, "waiting")
  /\ lock = None
  /\ lock' = p
  /\ Goto(p, "locked")
  /\ UNCHANGED repo

\* ErrBusy: the deadline passed while another invocation held the lock.
Busy(p) ==
  /\ At(p, "waiting")
  /\ lock # None
  /\ Goto(p, "idle")
  /\ UNCHANGED <<repo, lock>>

\* Mutant: a refused or failed verb returns without its deferred release.
Mut_leakyRelease(p) ==
  /\ At(p, "finished")
  /\ lock' = IF lock = p /\ proc[p].outcome \notin {"refused", "failed"} THEN None ELSE lock
  /\ proc' = [proc EXCEPT ![p] = Idle]
  /\ UNCHANGED repo

Release(p) ==
  /\ At(p, "finished")
  /\ lock' = IF lock = p THEN None ELSE lock
  /\ proc' = [proc EXCEPT ![p] = Idle]
  /\ UNCHANGED repo

\* The kernel closes a dead process's lockfile; its memory is gone.
Crash(p) ==
  /\ Crashes /\ ~At(p, "idle")
  /\ lock' = IF lock = p THEN None ELSE lock
  /\ proc' = [proc EXCEPT ![p] = Idle]
  /\ UNCHANGED repo
-----------------------------------------------------------------------------
(* verb.Apply.                                                             *)

Planned == {p \in Procs : proc[p].plan # <<>>}

Landed == {p \in Procs : proc[p].pc \in {"landed", "finished"}}

\* MaxCommits leaves room for the commits under way.
Room == head.sha + Cardinality(Planned \ Landed) < MaxCommits

\* The verb loads the tree and computes a plan, or refuses or has nothing to
\* do.  It renames what it found on disk.
MakePlan(p) ==
  /\ At(p, "locked")
  /\ \/ /\ Room
        /\ \E plan \in Plans :
             /\ \A i \in DOMAIN plan :
                  plan[i].type = "move" => FilesIn(disk, plan[i].from) # {}
             /\ proc' = [proc EXCEPT ![p].pc = "planned", ![p].plan = plan, ![p].base = disk]
     \/ Finish(p, "none")
  /\ UNCHANGED <<repo, lock>>

StagedPaths == {f \in Files : index[f] # head.tree[f]}

\* Mutant: no look at MERGE_HEAD and its kind.
Mut_noOperationCheck(plan) == StagedPaths \cap Touched(plan) = {}

\* checkNoGitOperationInProgress and checkStagedConflict.
IndexClear(plan) ==
  /\ merging = 0
  /\ StagedPaths \cap Touched(plan) = {}

CheckIndex(p) ==
  /\ At(p, "planned")
  /\ IF IndexClear(proc[p].plan) THEN Goto(p, "staged") ELSE Finish(p, "refused")
  /\ UNCHANGED <<repo, lock>>

\* Mutant: the exemption takes the write's word for what it adopts.
Mut_trustingAdoption(f, content) ==
  /\ disk[f] # Absent /\ head.tree[f] # Absent
  /\ disk[f].fm = head.tree[f].fm

\* Mutant: what the write carries is compared with the working copy, not that with HEAD.
Mut_looseAdoption(f, content) ==
  /\ disk[f] # Absent /\ head.tree[f] # Absent
  /\ content.fm = disk[f].fm

\* The write carries what the loader's pipeline (Parse, NormalizeForKind, Serialize) makes
\* of the working copy: a milestone's stray `area`, say, is gone.  Reserialized has None
\* where the path is no entity's or a key is none the entity has, which no write carries.
reconstructedFrontmatterMatches(f, content) == content.fm = Reserialized[f][disk[f].fm]

\* The operator changed the body only, and the write is the working copy's own
\* frontmatter (edit-body blessing an edit) or its re-serialization (a body supplied).
adoptionPreservesFrontmatter(f, content) ==
  /\ disk[f] # Absent /\ head.tree[f] # Absent
  /\ disk[f].fm = head.tree[f].fm
  /\ content.fm = disk[f].fm \/ reconstructedFrontmatterMatches(f, content)

\* The first op that covers f is a write of f itself, and git has no version
\* of f, or the write adopts the working copy.
Exempt(plan, f) ==
  \E i \in DOMAIN plan :
    /\ plan[i].type = "write" /\ plan[i].path = f
    /\ \A j \in 1..(i - 1) : ~Covers(plan[j], f)
    /\ \/ head.tree[f] = Absent
       \/ plan[i].adopts /\ adoptionPreservesFrontmatter(f, plan[i].content)

\* Mutant: only the paths a write names are compared, not what a rename
\* carries along.
Mut_namedPathsOnly(plan) ==
  \A i \in DOMAIN plan :
    plan[i].type = "write" =>
      \/ disk[plan[i].path] = head.tree[plan[i].path]
      \/ Exempt(plan, plan[i].path)

\* planCarriedPaths, DivergentPaths and checkUncommittedConflict: a carried
\* path that exists on neither side cannot diverge.
WorktreeClear(plan) ==
  \A f \in Touched(plan) : disk[f] = head.tree[f] \/ Exempt(plan, f)

CheckWorktree(p) ==
  /\ At(p, "staged")
  /\ IF WorktreeClear(proc[p].plan) THEN Goto(p, "applying") ELSE Finish(p, "refused")
  /\ UNCHANGED <<repo, lock>>

\* The undo journal has one entry per operation done, so its length tells
\* which comes next.
Next(p) == proc[p].plan[Len(proc[p].journal) + 1]
Pending(p) == At(p, "applying") /\ Len(proc[p].journal) < Len(proc[p].plan)

MoveUndo(from, to) == [type |-> "move", from |-> from, to |-> to]

\* Mutant: a rewritten path is undone to HEAD's bytes (git restore, G-0170).
Mut_undoToHead(path, prior) == [type |-> "write", path |-> path, prior |-> head.tree[path]]

WriteUndo(path, prior) == [type |-> "write", path |-> path, prior |-> prior]

\* Phase 1.  rename(2) refuses a directory that has files in it.
Rename(p) ==
  LET op == Next(p) IN
  /\ Pending(p) /\ op.type = "move"
  /\ IF FilesIn(disk, op.from) # {} /\ FilesIn(disk, op.to) = {}
     THEN /\ disk' = Renamed(disk, op.from, op.to)
          /\ proc' = [proc EXCEPT ![p].journal = Append(@, MoveUndo(op.from, op.to))]
     ELSE Rollback(p) /\ UNCHANGED disk
  /\ UNCHANGED <<index, head, merging, staged, lock>>

\* Phase 2: captureWrite, then the atomic write.
WriteFile(p) ==
  LET op == Next(p) IN
  /\ Pending(p) /\ op.type = "write"
  /\ disk' = Written(disk, op.path, op.content)
  /\ proc' = [proc EXCEPT ![p].journal = Append(@, WriteUndo(op.path, disk[op.path]))]
  /\ UNCHANGED <<index, head, merging, staged, lock>>

\* gatherCommitOps reads back from disk what the operations left there.
MovesOf(plan) == {plan[i] : i \in {i \in DOMAIN plan : plan[i].type = "move"}}
WrittenBy(plan) == {plan[i].path : i \in {i \in DOMAIN plan : plan[i].type = "write"}}

\* Mutant: the bytes of the first write the plan names, not the disk's.
Mut_firstWrite(plan, f) ==
  IF f \in WrittenBy(plan)
  THEN LET i == CHOOSE i \in DOMAIN plan :
                  /\ plan[i].type = "write" /\ plan[i].path = f
                  /\ \A j \in 1..(i - 1) : plan[j].type = "write" => plan[j].path # f
       IN plan[i].content
  ELSE disk[f]

FinalBytes(plan, f) == disk[f]

Carried(t, plan) == UNION {FilesIn(t, op.to) : op \in MovesOf(plan)}
CommitPaths(t, plan) == Carried(t, plan) \cup WrittenBy(plan)
Vacated(t, plan) ==
  {f \in Files : \E op \in MovesOf(plan) : f[1] = op.from /\ <<op.to, f[2]>> \in Carried(t, plan)}

gatherCommitOps(p) ==
  LET plan == proc[p].plan IN
  /\ At(p, "applying") /\ ~Pending(p)
  /\ IF /\ \A f \in CommitPaths(disk, plan) : disk[f] # Absent
        /\ \A op \in MovesOf(plan) : FilesIn(disk, op.to) # {}
     THEN proc' = [proc EXCEPT
            ![p].pc = "gathered", ![p].removes = Vacated(disk, plan),
            ![p].writes =
              [f \in Files |-> IF f \in CommitPaths(disk, plan) THEN FinalBytes(plan, f) ELSE Absent]]
     ELSE Rollback(p)
  /\ UNCHANGED <<repo, lock>>

\* CommitTree: resolve HEAD, then build everything against that parent.
ReadParent(p) ==
  /\ At(p, "gathered")
  /\ proc' = [proc EXCEPT ![p].pc = "built", ![p].parent = head]
  /\ UNCHANGED <<repo, lock>>

Overlay(t, removes, writes) ==
  [f \in Files |-> IF writes[f] # Absent THEN writes[f]
                   ELSE IF f \in removes THEN Absent ELSE t[f]]

\* Mutant: update-ref without the expected old value.
Mut_blindUpdateRef(p) == TRUE

\* git update-ref HEAD <new> <parent>.
Unmoved(p) == head.sha = proc[p].parent.sha

UpdateRef(p) ==
  LET me == proc[p] IN
  /\ At(p, "built")
  /\ IF Unmoved(p)
     THEN /\ head' = [tree |-> Overlay(me.parent.tree, me.removes, me.writes),
                      sha |-> head.sha + 1]
          /\ Goto(p, "landed")
     ELSE Rollback(p) /\ UNCHANGED head
  /\ UNCHANGED <<disk, index, merging, staged, lock>>

\* Mutant: the vacated paths of a rename stay in the live index.
Mut_keepRemoved(removes, writes) == Overlay(index, {}, writes)

\* ReconcilePaths.
Reconciled(removes, writes) == Overlay(index, removes, writes)

Reconcile(p) ==
  /\ At(p, "landed")
  /\ index' = Reconciled(proc[p].removes, proc[p].writes)
  /\ Finish(p, "committed")
  /\ UNCHANGED <<disk, head, merging, staged, lock>>

\* index.lock contention part way: the paths done so far stay reconciled, the
\* commit stands and is not rolled back.
ReconcileFault(p) ==
  LET me == proc[p] IN
  /\ IndexFaults /\ At(p, "landed")
  /\ \E done \in SUBSET (me.removes \cup {f \in Files : me.writes[f] # Absent}) :
       index' = [f \in Files |-> IF f \in done THEN Reconciled(me.removes, me.writes)[f]
                                 ELSE index[f]]
  /\ Finish(p, "unsynced")
  /\ UNCHANGED <<disk, head, merging, staged, lock>>

\* A write error, a git failure or a panic before the commit.
Fault(p) ==
  /\ Faults
  /\ \E pc \in {"applying", "gathered", "built"} : At(p, pc)
  /\ Rollback(p)
  /\ UNCHANGED <<repo, lock>>

\* Mutant: the journal is replayed oldest first.
Mut_oldestFirst(journal) == [undo |-> Head(journal), left |-> Tail(journal)]

\* Strictly last in, first out.
Newest(journal) ==
  [undo |-> journal[Len(journal)], left |-> SubSeq(journal, 1, Len(journal) - 1)]

\* One undo step.  A renamed directory that is gone has nothing to reverse.
Undo(p) ==
  LET step == Newest(proc[p].journal)
      undo == step.undo
  IN
  /\ At(p, "undoing") /\ proc[p].journal # <<>>
  /\ disk' = IF undo.type = "write" THEN Written(disk, undo.path, undo.prior)
             ELSE IF FilesIn(disk, undo.to) # {} /\ FilesIn(disk, undo.from) = {}
                  THEN Renamed(disk, undo.to, undo.from)
             ELSE disk
  /\ proc' = [proc EXCEPT ![p].journal = step.left]
  /\ UNCHANGED <<index, head, merging, staged, lock>>

RolledBack(p) ==
  /\ At(p, "undoing") /\ proc[p].journal = <<>>
  /\ Finish(p, "failed")
  /\ UNCHANGED <<repo, lock>>
-----------------------------------------------------------------------------
(* The operator and the operator's git, in the same checkout.              *)

Quiet == Planned = {}
InUse == UNION {Touched(proc[p].plan) : p \in Planned}

Free ==
  CASE Operating = "never"     -> {}
    [] Operating = "between"   -> IF Quiet THEN Files ELSE {}
    [] Operating = "elsewhere" -> Files \ InUse
    [] Operating = "anywhere"  -> Files

\* Elsewhere: not between a verb's update-ref and its reconciliation either, where the live
\* index still holds the verb's old files and a commit made from it would revert the verb's.
MayCommit ==
  \/ Operating = "between" /\ Quiet
  \/ Operating = "elsewhere" /\ \A p \in Procs : ~At(p, "landed")
  \/ Operating = "anywhere"
MayMerge == Operating = "anywhere" \/ (Operating # "never" /\ Quiet)

Dirty == {f \in Files : disk[f] # head.tree[f] \/ index[f] # head.tree[f]}

Edit(f) ==
  /\ f \in Free
  /\ Cardinality(Dirty \cup {f}) <= MaxDirty
  /\ \E c \in Content \cup {Absent} : c # disk[f] /\ disk' = [disk EXCEPT ![f] = c]
  /\ UNCHANGED <<index, head, merging, staged, lock, proc>>

\* git add <f>
Stage(f) ==
  /\ f \in Free
  /\ index[f] # disk[f]
  /\ index' = [index EXCEPT ![f] = disk[f]]
  /\ staged' = staged \cup {f}
  /\ UNCHANGED <<disk, head, merging, lock, proc>>

\* git restore --staged --worktree <f>
Restore(f) ==
  /\ f \in Free \cap Dirty
  /\ disk' = [disk EXCEPT ![f] = head.tree[f]]
  /\ index' = [index EXCEPT ![f] = head.tree[f]]
  /\ staged' = staged \ {f}
  /\ UNCHANGED <<head, merging, lock, proc>>

\* git commit: the record becomes the index; it concludes a merge.
GitCommit ==
  /\ MayCommit /\ Room
  /\ (staged # {} /\ index # head.tree) \/ merging # 0
  /\ head' = [tree |-> index, sha |-> head.sha + 1]
  /\ merging' = 0
  /\ staged' = {}
  /\ UNCHANGED <<disk, index, lock, proc>>

\* git merge that stops for the operator to resolve.
StartMerge ==
  /\ MayMerge /\ merging = 0
  /\ merging' = head.sha
  /\ UNCHANGED <<disk, index, head, lock, proc, staged>>
-----------------------------------------------------------------------------
Init ==
  /\ disk \in Tree
  /\ \E d \in Dirs :
       /\ \E b \in Bodies, a \in Fields : \A f \in {d} \X Names : disk[f] = [fm |-> a, body |-> b]
       /\ \A f \in Files : f[1] # d => disk[f] = Absent
  /\ index = disk
  /\ head = [tree |-> disk, sha |-> 1]
  /\ merging = 0
  /\ lock = None
  /\ proc = [p \in Procs |-> Idle]
  /\ staged = {}

Apply(p) ==
  \/ MakePlan(p) \/ CheckIndex(p) \/ CheckWorktree(p)
  \/ Rename(p) \/ WriteFile(p) \/ gatherCommitOps(p)
  \/ ReadParent(p) \/ UpdateRef(p) \/ Reconcile(p) \/ ReconcileFault(p)
  \/ Fault(p) \/ Undo(p) \/ RolledBack(p)

Verb(p) == Acquire(p) \/ Busy(p) \/ Apply(p) \/ Release(p)

Operator ==
  \/ \E f \in Files : Edit(f) \/ Stage(f) \/ Restore(f)
  \/ GitCommit \/ StartMerge

NextStep == Operator \/ \E p \in Procs : Invoke(p) \/ Verb(p) \/ Crash(p)

Spec == Init /\ [][NextStep]_vars

\* A verb under way is scheduled and takes its steps; nothing obliges a fault,
\* a crash or the operator.
FairSpec ==
  Spec /\ \A p \in Procs : WF_vars(Acquire(p) \/ Busy(p) \/ Apply(p) \/ Release(p))
-----------------------------------------------------------------------------
(* Properties.                                                             *)

PastLock(p) == proc[p].pc \notin {"idle", "waiting"}

\* Every part of the repository is well-formed, and aiwf.lock is held by
\* exactly the invocation that is past it.
TypeOK ==
  /\ {disk, index, head.tree} \subseteq Tree
  /\ head.sha \in 1..MaxCommits /\ merging \in 0..head.sha
  /\ staged \subseteq Files
  /\ \A p \in Procs : PastLock(p) <=> lock = p

\* Rollback puts the checkout back as Apply found it, at every file of the
\* plan: the operator's uncommitted bytes there, renames composed with
\* rewrites of the renamed files, and paths written twice (G-0170, D-0029).
RollbackRestores ==
  \A p \in Procs :
    (At(p, "finished") /\ proc[p].outcome = "failed") =>
      \A f \in Touched(proc[p].plan) : disk[f] = proc[p].base[f]

\* A verb that reports success leaves its files settled: the checkout, the
\* live index and the record hold the same bytes.
Settled ==
  \A p \in Procs :
    (At(p, "finished") /\ proc[p].outcome = "committed") =>
      \A f \in Touched(proc[p].plan) : disk[f] = head.tree[f] /\ index[f] = head.tree[f]

\* What the operator commits with git is what the operator staged: no verb
\* leaves the index in a state that makes the next `git commit` carry, or
\* revert, something else.
GitCommitsOwnWork ==
  [][(head' # head /\ proc' = proc) =>
       \A f \in Files : head'.tree[f] # head.tree[f] => f \in staged]_vars

\* A frontmatter kept as it was, or as the loader's pipeline normalizes it.
KeepsFields(f, old, new) == new \in {old, Reserialized[f][old]}

\* A commit that adopts the operator's edited working copy of a file leaves the
\* record's frontmatter as it was or as the loader's pipeline normalizes it, wherever
\* HEAD and the checkout went since the guard looked: no hand-edited field, and none of
\* the write's own making, rides in under the exemption (ADR-0038, the comment at
\* apply.go:740-745).  Fields may go: the exemption claims no more.
NoFieldRidesIn ==
  [][\A p \in Procs :
       (head' # head /\ At(p, "built") /\ proc'[p].pc = "landed"
          /\ proc[p].plan[1].type = "write" /\ proc[p].plan[1].adopts) =>
         LET f == proc[p].plan[1].path IN
         proc[p].base[f] \notin {Absent, head.tree[f]} =>
           \/ head.tree[f] = Absent
           \/ KeepsFields(f, head.tree[f].fm, head'.tree[f].fm)]_vars

\* No verb moves HEAD from under a merge in progress (G-0329).
MergeIntact == merging # 0 => head.sha = merging

\* What the operator has in the checkout, the index and a merge is safe from
\* every verb, the failed ones included.
OperatorsWorkIsSafe == RollbackRestores /\ Settled /\ MergeIntact

\* The lock never stays with an invocation, whatever fails.
LockFreed == \A p \in Procs : (lock = p) ~> (lock # p)

\* Apply implements AtomicVerb: a verb's commit is its parent's tree changed
\* by exactly the plan, in one step, and the caller is told it landed when,
\* and only when, it did -- whatever the checkout holds, whatever a dead
\* invocation left behind, and whatever else is committed meanwhile.
ClientState(p) ==
  CASE proc[p].pc \in {"idle", "waiting", "locked"} -> "idle"
    [] proc[p].pc = "landed" -> "landed"
    [] proc[p].pc = "finished" ->
         IF proc[p].outcome \in {"committed", "unsynced"} THEN "done"
         ELSE IF proc[p].outcome = "none" THEN "idle" ELSE "failed"
    [] OTHER -> "pending"

Client == [p \in Procs |-> [state |-> ClientState(p), plan |-> proc[p].plan]]

Abstract == INSTANCE AtomicVerb WITH tree <- head.tree, client <- Client
Atomic == Abstract!Spec
=============================================================================
