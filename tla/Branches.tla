------------------------------ MODULE Branches ------------------------------
(***************************************************************************)
(* Ids across branches.  Two checkouts, worktrees of one repository or     *)
(* clones of their own, add, rename and renumber decisions on a branch     *)
(* each, publish the branch, fetch, merge, and publish their work as the   *)
(* new trunk.  Nothing coordinates the numbers: add takes the highest id   *)
(* in view plus one (internal/trunk, tree.AllocationIDs), `aiwf check`     *)
(* compares the checkout with the trunk it last fetched before a push      *)
(* (check.idsUnique), and `aiwf reallocate` settles who keeps an id.       *)
(*                                                                         *)
(* `log` holds every commit, of any branch; a branch is the number of its  *)
(* last one.                                                               *)
(***************************************************************************)
EXTENDS PlanTree

CONSTANTS
  Checkouts,
  Scenarios     \* bounds: records [layout, verbs, uids, titles, commits], see MCBranches

ASSUME BranchesAssumption ==
  \A s \in Scenarios : s.layout \in {"worktrees", "clones"} /\ {s.uids, s.titles, s.commits} \subseteq Nat

VARIABLES
  play,     \* the scenario: "worktrees" of one repository or "clones", the verbs and
            \* git commands in use, how many decisions, retitlings of one and commits there can be
  log,      \* the commits: their files, ancestors, and the renames of a verb's
  origin,   \* the remote: `trunk`, and per checkout the branch it published (0: none)
  tracked,  \* per repository: refs/remotes/origin/*, as fetched or pushed last
  tip,      \* per checkout: its branch
  planned,  \* per checkout: the plan of a verb that has loaded its tree
  raced     \* another worktree committed between a verb's load and its commit

vars == <<play, log, origin, tracked, tip, planned, raced>>

Commits == DOMAIN log
RepoOf(c) == IF play.layout = "worktrees" THEN Checkouts ELSE {c}
Files(k) == IF k = 0 THEN {} ELSE log[k].files
Reach(k) == IF k = 0 THEN {} ELSE log[k].reach
Highest(S) == Max({0} \cup S)
NoPlan == [verb |-> "", files |-> {}, seen |-> 0]
Idle(c) == planned[c] = NoPlan

\* A decision's file.  `ver` is the commit that last touched it.
NewFile(u, n, refs) ==
  [uid |-> u, kind |-> "decision", n |-> n, narrow |-> FALSE, slug |-> u, parses |-> TRUE,
   status |-> "proposed", arch |-> FALSE, area |-> None, prio |-> None, refs |-> refs,
   prior |-> {}, byCommit |-> FALSE, acs |-> {}, ver |-> 0]
Holder(fs, u) == CHOOSE e \in fs : e.uid = u
Uids(fs) == {e.uid : e \in fs}

-----------------------------------------------------------------------------
\* The view of a checkout: its files, and what the refs of its repository hold.
LocalBranchRefs(c) == {tip[d] : d \in RepoOf(c)}
RemoteTrackingRefs(c) == {tracked[c].trunk} \cup {tracked[c].branch[d] : d \in Checkouts}

refHits(refs, remote) ==
  {[kind |-> e.kind, n |-> e.n, remote |-> remote, content |-> [e EXCEPT !.ver = 0, !.arch = FALSE]] :
     e \in UNION {Files(k) : k \in refs}}

\* Mutant: the renames of a later commit do not move the ends of the earlier ones.
Mut_unchained(from, to) ==
  FoldLeft(LAMBDA acc, k : acc \cup log[k].renames, {}, Ascending(Reach(to) \ Reach(from)))

\* The renames of the aiwf commits in from..to, oldest first, chained.
renamesFromAiwfVerbTrailers(from, to) ==
  LET chain(acc, moves) ==
        {IF \E m \in moves : m[1] = r[2] THEN <<r[1], (CHOOSE m \in moves : m[1] = r[2])[2]>> ELSE r : r \in acc}
        \cup {m \in moves : \A r \in acc : r[2] # m[1]}
  IN FoldLeft(LAMBDA acc, k : chain(acc, log[k].renames), {}, Ascending(Reach(to) \ Reach(from)))

MergeBase(k, l) == Highest(Reach(k) \cap Reach(l))

\* Mutant: the renames on trunk are not looked for.
Mut_ownSideOnly(c) == renamesFromAiwfVerbTrailers(MergeBase(tip[c], tracked[c].trunk), tip[c])
\* RenamesFromRef, and TrunkRenamesFromRef turned round.
TrunkCollisionRenames(c) ==
  LET base == MergeBase(tip[c], tracked[c].trunk)
  IN renamesFromAiwfVerbTrailers(base, tip[c])
     \cup {<<r[2], r[1]>> : r \in renamesFromAiwfVerbTrailers(base, tracked[c].trunk)}

Read(c) == Files(tracked[c].trunk)
ScanCrossBranch(c) == refHits(LocalBranchRefs(c), FALSE) \cup refHits(RemoteTrackingRefs(c), TRUE)

LoadTreeWithTrunk(c) ==
  [files |-> Files(tip[c]), trunk |-> Read(c), renames |-> TrunkCollisionRenames(c),
   hits |-> ScanCrossBranch(c), hasRemotes |-> TRUE, scanned |-> TRUE]

\* tree.Load: the verbs that do not look further.
Load(c) ==
  [files |-> Files(tip[c]), trunk |-> {}, renames |-> {}, hits |-> {}, hasRemotes |-> FALSE, scanned |-> FALSE]

\* Mutant: before E-0052, only trunk was read.
Mut_trunkOnly(t) == {IdOf(e) : e \in t.trunk}
AllocationIDs(t) == {IdOf(e) : e \in t.trunk} \cup {IdOf(h) : h \in t.hits}

-----------------------------------------------------------------------------
\* A commit of checkout c: files whose record changed carry its number.
Extend(c, fs, also, renames) ==
  LET k == Len(log) + 1
      old == Files(tip[c])
      stamped == {IF e \in old \/ e.ver = k THEN e ELSE [e EXCEPT !.ver = k] : e \in fs}
  IN /\ k <= play.commits
     /\ log' = Append(log, [files |-> stamped, reach |-> Reach(tip[c]) \cup also \cup {k},
                            renames |-> renames,
                            adds |-> {PathOf(e) : e \in stamped} \ {PathOf(e) : e \in old}])
     /\ tip' = [tip EXCEPT ![c] = k]

Moves(old, new) ==
  {<<PathOf(e), PathOf(Holder(new, e.uid))>> : e \in {e \in old : PathOf(e) # PathOf(Holder(new, e.uid))}}

\* A verb loads its tree under the lock of its worktree and commits later; another
\* worktree's lock is another file.
Plan(c, verb, fs) ==
  /\ Idle(c) /\ verb \in play.verbs
  /\ planned' = [planned EXCEPT ![c] = [verb |-> verb, files |-> fs, seen |-> Len(log)]]
  /\ UNCHANGED <<play, log, origin, tracked, tip, raced>>

\* HEAD is compared and swapped; it has not moved (Merge waits).
Commit(c) ==
  LET fs == planned[c].files
  IN /\ ~Idle(c)
     /\ Extend(c, fs, {}, IF planned[c].verb = "add" THEN {} ELSE Moves(Files(tip[c]), fs))
     /\ planned' = [planned EXCEPT ![c] = NoPlan]
     /\ raced' = (raced \/ \E d \in RepoOf(c) \ {c} : tip[d] > planned[c].seen)
     /\ UNCHANGED <<play, origin, tracked>>

AllIDs == {IdOf(e) : e \in UNION {Files(k) : k \in Commits}}
Fresh == {u \in 1..play.uids : \A k \in Commits : u \notin Uids(Files(k))}
             \ UNION {Uids(planned[c].files) : c \in Checkouts}

\* relates_to may name an entity the checkout only knows from another ref.
Add(c, u, refs) ==
  LET t == LoadTreeWithTrunk(c)
      fs == t.files \cup {NewFile(u, AllocateID(t, "decision", AllocationIDs(t)), refs)}
  IN /\ projectionFindings(t, [t EXCEPT !.files = fs]) = {}
     /\ Plan(c, "add", fs)

\* rename, retitle (slug) and archive (place): not while a second file has the id,
\* which the projection would hold twice.
Rename(c, e, renamed) ==
  LET t == Load(c)
      fs == (t.files \ {e}) \cup {renamed}
  IN /\ \A o \in t.files \ {e} : ~SameRawID(o, e)
     /\ projectionFindings(t, [t EXCEPT !.files = fs]) = {}
     /\ Plan(c, "rename", fs)
\* Bound: `titles` times, and of what the trunk has.
Retitle(c, e) ==
  /\ e.slug < e.uid + 10 * play.titles /\ e.uid \in Uids(Files(tracked[c].trunk))
  /\ Rename(c, e, [e EXCEPT !.slug = @ + 10])

-----------------------------------------------------------------------------
\* AddCommitSHA: the first commit that added the file under exactly this path.
AddCommit(c, e) ==
  LET adds == {k \in Reach(tip[c]) : PathOf(e) \in log[k].adds}
  IN IF adds = {} THEN 0 ELSE Min(adds)
IsInTrunk(c, e) == AddCommit(c, e) \in Reach(tracked[c].trunk)

\* Mutant: the loser of the loop, however many are off trunk.
Mut_lastOffTrunk(c, id) ==
  LET matches == ByIDAll(LoadTreeWithTrunk(c), id) IN
  IF Cardinality(matches) = 1 THEN matches
  ELSE LET off == {e \in matches : ~IsInTrunk(c, e)}
       IN {e \in off : \A o \in off \ {e} : Before(o, e)}
\* By id: the one match, or the one side that is not in trunk; else it refuses.
resolveReallocateTarget(c, id) ==
  LET matches == ByIDAll(LoadTreeWithTrunk(c), id)
      off == {e \in matches : ~IsInTrunk(c, e)}
  IN IF Cardinality(matches) = 1 THEN matches
     ELSE IF Cardinality(off) = 1 THEN off ELSE {}

ReallocatedTree(t, e) ==
  [t EXCEPT !.files = Reallocated(@, e, AllocateID(t, e.kind, AllocationIDs(t)))]
MayReallocate(t, e) == projectionFindings(t, ReallocatedTree(t, e)) = {}

Reallocate(c, e) ==
  LET t == LoadTreeWithTrunk(c)
  IN MayReallocate(t, e) /\ Plan(c, "reallocate", ReallocatedTree(t, e).files)

\* Bound: an id that is held once is renumbered in some scenarios only.
InPlay(c, e) == "renumber" \in play.verbs \/ \E o \in Files(tip[c]) \cup Files(tracked[c].trunk) : o.uid # e.uid /\ IdOf(o) = IdOf(e)
ReallocateByID(c) == \E id \in AllIDs : \E e \in resolveReallocateTarget(c, id) : InPlay(c, e) /\ Reallocate(c, e)
ReallocateByPath(c) ==
  \E e \in Files(tip[c]) : Cardinality(ByIDAll(Load(c), IdOf(e))) > 1 /\ Reallocate(c, e)

-----------------------------------------------------------------------------
\* git.  A merge takes, file by file, the side that has seen the other's version;
\* when both sides changed one the operator is left with a conflict.
Newer(k, l, u) ==
  LET ours == Holder(Files(k), u)
      theirs == Holder(Files(l), u)
  IN IF u \notin Uids(Files(l)) THEN {ours}
     ELSE IF u \notin Uids(Files(k)) THEN {theirs}
     ELSE IF theirs.ver \in Reach(k) THEN {ours}
     ELSE IF ours.ver \in Reach(l) THEN {theirs}
     ELSE {}

MergeRef(c, ref) ==
  LET all == Uids(Files(tip[c])) \cup Uids(Files(ref))
      fs == UNION {Newer(tip[c], ref, u) : u \in all}
  IN /\ Idle(c) /\ ref \notin Reach(tip[c]) /\ ref # 0
     /\ \A u \in all : Newer(tip[c], ref, u) # {}
     /\ \A e, o \in fs : PathOf(e) = PathOf(o) => e = o
     /\ IF tip[c] \in Reach(ref)
        THEN tip' = [tip EXCEPT ![c] = ref] /\ UNCHANGED log
        ELSE /\ Len(log) < play.commits
             /\ log' = Append(log, [files |-> fs, reach |-> Reach(tip[c]) \cup Reach(ref) \cup {Len(log) + 1},
                                    renames |-> {}, adds |-> {}])
             /\ tip' = [tip EXCEPT ![c] = Len(log) + 1]
     /\ UNCHANGED <<play, origin, tracked, planned, raced>>

MergeTrunk(c) == "merge" \in play.verbs /\ MergeRef(c, tracked[c].trunk)
MergeOther(c) ==
  /\ {"merge", "branch"} \cap play.verbs # {}
  /\ \E d \in Checkouts \ {c} :
       MergeRef(c, IF play.layout = "worktrees" THEN tip[d] ELSE tracked[c].branch[d])

Fetch(c) ==
  /\ tracked[c] # origin
  /\ tracked' = [d \in Checkouts |-> IF d \in RepoOf(c) THEN origin ELSE tracked[d]]
  /\ UNCHANGED <<play, log, origin, tip, planned, raced>>

\* The pre-push hook runs `aiwf check`; the remote takes fast-forwards only.
prePush(c) == ErrorsOf(LoadTreeWithTrunk(c)) = {}
Publish(c, o) ==
  /\ origin' = o
  /\ tracked' = [d \in Checkouts |->
                   IF d \notin RepoOf(c) THEN tracked[d]
                   ELSE [trunk |-> IF o.trunk # origin.trunk THEN o.trunk ELSE tracked[d].trunk,
                         branch |-> [tracked[d].branch EXCEPT ![c] = o.branch[c]]]]
  /\ UNCHANGED <<play, log, tip, planned, raced>>

PushTrunk(c) ==
  /\ Idle(c) /\ origin.trunk \in Reach(tip[c]) /\ origin.trunk # tip[c]
  /\ prePush(c)
  /\ Publish(c, [origin EXCEPT !.trunk = tip[c]])
\* Bound: one branch is published, once, with work of its own.
PushBranch(c) ==
  /\ Idle(c) /\ "branch" \in play.verbs /\ \A d \in Checkouts : origin.branch[d] = 0
  /\ tip[c] \notin Reach(origin.trunk)
  /\ prePush(c)
  /\ Publish(c, [origin EXCEPT !.branch[c] = tip[c]])

-----------------------------------------------------------------------------
Init ==
  /\ play \in Scenarios
  /\ log = <<[files |-> {[NewFile(1, 1, {}) EXCEPT !.ver = 1]}, reach |-> {1}, renames |-> {},
              adds |-> {PathOf(NewFile(1, 1, {}))}]>>
  /\ origin = [trunk |-> 1, branch |-> [c \in Checkouts |-> 0]]
  /\ tracked = [c \in Checkouts |-> origin]
  /\ tip = [c \in Checkouts |-> 1]
  /\ planned = [c \in Checkouts |-> NoPlan]
  /\ raced = FALSE

\* `means`, the reference's referent, plays no part here.
RefSets == {{}} \cup {{Ref("relates_to", id.kind, id.n, 0, 0)} : id \in {id \in AllIDs : "refs" \in play.verbs}}

\* Clones see each other through the remote only: a plan and its commit are one turn.
Turn(c) == play.layout = "worktrees" \/ \A d \in Checkouts \ {c} : Idle(d)

Next ==
  \E c \in Checkouts : Turn(c) /\
    \/ \E u \in Fresh : u = Min(Fresh) /\ \E refs \in RefSets : Add(c, u, refs)
    \/ \E e \in Files(tip[c]) : Retitle(c, e)
    \/ ReallocateByID(c) \/ ReallocateByPath(c) \/ Commit(c)
    \/ MergeTrunk(c) \/ MergeOther(c)
    \/ Fetch(c) \/ PushTrunk(c) \/ PushBranch(c)

Spec == Init /\ [][Next]_vars
-----------------------------------------------------------------------------
\* However adds, merges and renumberings interleave, the pre-push check keeps two
\* decisions of one id out of the published trunk.
PublishedIdsUnique ==
  \A e, o \in Files(origin.trunk) : e.uid # o.uid => IdOf(e) # IdOf(o)

\* Worktrees see each other's branches when they allocate: ids collide only when one
\* commits between the other's load and commit (their locks are two files).
OnlyARaceCollides ==
  play.layout = "worktrees" /\ ~raced =>
    \A c, d \in Checkouts : \A e \in Files(tip[c]), o \in Files(tip[d]) : e.uid # o.uid => IdOf(e) # IdOf(o)

\* reallocate by an ambiguous id never picks the decision the trunk calls by it, also
\* when a rename on the branch makes that one look new.
TiebreakSparesTrunk ==
  \A c \in Checkouts, id \in AllIDs :
    \A e \in resolveReallocateTarget(c, id) :
      Cardinality(ByIDAll(Load(c), id)) > 1 => \A i \in Read(c) : IdOf(i) = id => i.uid # e.uid

\* A checkout whose only errors are collisions always has a reallocate that the
\* projection lets through and that leaves fewer of them.
DuplicatesDissolve ==
  \A c \in Checkouts :
    LET t == LoadTreeWithTrunk(c)
    IN ErrorsOf(t) # {} /\ ErrorsOf(t) \subseteq idsUnique(t) =>
         \E e \in t.files : /\ MayReallocate(t, e)
                            /\ Cardinality(idsUnique(ReallocatedTree(t, e))) < Cardinality(idsUnique(t))

\* A decision renamed, swept or merged on one side only is never taken for two.
RenamesAreNoCollisions ==
  \A c \in Checkouts :
    LET t == LoadTreeWithTrunk(c)
        base == Files(MergeBase(tip[c], tracked[c].trunk))
        renamed(fs, u) == u \in Uids(base) /\ PathOf(Holder(fs, u)) # PathOf(Holder(base, u))
    IN \A u \in Uids(t.files) \cap Uids(t.trunk) :
         (\E f \in idsUnique(t) : f.at = PathOf(Holder(t.files, u)) /\ f.about[2] = PathOf(Holder(t.trunk, u)))
         => renamed(t.files, u) /\ renamed(t.trunk, u)

\* No decision of the trunk refers to an id that was never published: what another
\* worktree keeps on its branch can be cited, but not pushed cited.
CitationsArePublished ==
  \A e \in Files(origin.trunk) : \A r \in e.refs :
    \E k \in Reach(origin.trunk) \cup UNION {Reach(origin.branch[c]) : c \in Checkouts} :
      \E o \in Files(k) : IdOf(o) = IdOf(r)

\* What reaches the published trunk is sound, whatever was done on the way.
TrunkIsSound == PublishedIdsUnique /\ CitationsArePublished

\* A collision can always be repaired, and is repaired at the right entity.
CollisionsAreRepairable == TiebreakSparesTrunk /\ DuplicatesDissolve
=============================================================================
