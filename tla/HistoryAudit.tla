---------------------------- MODULE HistoryAudit ----------------------------
(***************************************************************************)
(* What `aiwf check` says of a branch from the git history alone: the walk *)
(* that finds every status change (internal/check/fsm_history_walker.go),  *)
(* the three verdicts on each, the untrailered-commit audit of the         *)
(* unpushed range (provenance.go, cli/check/provenance.go), the id-rename  *)
(* rule, the fence around agents' branches (isolation_escape.go), and the  *)
(* two ways a human answers a finding: an acknowledged commit and an       *)
(* audit-only record.  Every operator takes the branch whose working copy  *)
(* the check runs in.                                                      *)
(***************************************************************************)
EXTENDS CommitLog

CONSTANTS Rung,    \* branch -> "trunk", "epic", "milestone", "patch", or None
          Order,   \* the branches' names, sorted
          Parent,  \* milestone -> its epic (by what they are about: a renumbering keeps it)
          DirName  \* <<id, slug>> of an epic -> its branch; directories without one are left out

-----------------------------------------------------------------------------
\* The walk.

\* Mutant: only the id the entity has now is looked for.
Mut_currentIdOnly(f, e) == f.id = e.id
\* Mutant: the pre-image of a rename is taken to be the same entity's.
Mut_anyPreImage(f, e) == TRUE

\* The frontmatter names the entity: by its id, or by an id it once had.
names(f, e) == f # Absent /\ (f.id = e.id \/ f.id \in e.prior)

\* What the parent had in the entity's file, None where it had nothing.
PriorStatus(t, e) ==
  CASE t.op = "R" -> IF names(t.pre, e) THEN t.pre.status ELSE None
    [] OTHER      -> t.pre.status

\* The entity's earlier path joins the map when the walk passes the rename.
Followed(at, found) ==
  LET sources == {<<h[1].src, h[2]>> : h \in {x \in found : x[1].op = "R" /\ names(x[1].pre, x[2])}}
  IN {p \in at : \A s \in sources : s[1] # p[1]} \cup sources

(***************************************************************************)
(* One commit of the walk.  st.at maps paths to the entities of the tree   *)
(* that have lived there (pairs), st.seen collects the status changes.     *)
(***************************************************************************)
Visit(st, c) ==
  LET found == {<<t, p[2]>> : <<t, p>> \in {x \in Touches(c) \X st.at : x[1].path = x[2][1]}}
      told  == {x \in found : /\ x[1].post # Absent
                              /\ PriorStatus(x[1], x[2]) \notin {None, x[1].post.status}}
  IN [at   |-> Followed(st.at, found),
      seen |-> st.seen \cup
               {[entity |-> x[2], commit |-> c, prior |-> PriorStatus(x[1], x[2]),
                 next |-> x[1].post.status] : x \in told}]

\* Mutant: a status is compared with the one the log shows before it, whatever branch that is on.
Mut_logNeighbours(b) ==
  LET stood(e, c) == {f.status : f \in {x \in Files(c) : x.about = e.about}}
      told(e) == {c \in All : c = 1 \/ \E t \in Touches(c) : t.post.about = e.about}
      before(e, c) == Max({d \in told(e) : d < c})
      step(e, c) == {[entity |-> e, commit |-> c, prior |-> p, next |-> n] :
                       p \in stood(e, before(e, c)), n \in stood(e, c)}
  IN {o \in UNION {UNION {step(e, c) : c \in told(e) \ {1}} : e \in Files(tip[b])} : o.prior # o.next}

\* Newest first over every ref, from the paths the checked-out tree has.
batchedWalkStatusChanges(b) ==
  LET reached == All
      newestFirst == SelectSeq([i \in DOMAIN log |-> Len(log) + 1 - i], LAMBDA c : c \in reached)
  IN FoldLeft(Visit, [at |-> {<<Path(e), e>> : e \in Files(tip[b])}, seen |-> {}], newestFirst).seen

-----------------------------------------------------------------------------
\* The answers a human can give.

\* Commits the branch's history acknowledges, and for which entity (None: no entity named).
Acknowledgements(b) ==
  {<<log[a].forFor, log[a].ent>> : a \in {x \in Past(tip[b]) : log[x].forFor # 0}}

WalkAcknowledgedSHAs(b) == {a[1] : a \in Acknowledgements(b)}

\* Mutant: an audit-only record speaks for every entity.
Mut_anyRecord(b, id) == {a \in Past(tip[b]) : log[a].audit}

\* The audit-only records of the branch's history for one entity id.
walkAuditOnlyAcksByEntity(b, id) == {a \in Past(tip[b]) : log[a].audit /\ log[a].ent = id}

\* Commits whose change some later record answers: kept by commit, not by entity.
computeAckedObservations(b, observations) ==
  {o.commit : o \in {x \in observations :
     \E a \in walkAuditOnlyAcksByEntity(b, x.entity.id) : x.commit \in Past(a)}}

-----------------------------------------------------------------------------
\* The verdicts on one status change.

legal(o) == ValidateTransition(KindOf(o.entity.id), o.prior, o.next)
sovereign(o) == IsSovereignActShape(KindOf(o.entity.id), o.prior, o.next)

illegalTransitionFindings(b, observations) ==
  {o \in observations : ~legal(o) /\ ~log[o.commit].force /\ o.commit \notin WalkAcknowledgedSHAs(b)}

\* Mutant: a human's verb is held to account too.
Mut_humanToo(b, observations) ==
  {o \in observations : sovereign(o) /\ ~log[o.commit].force /\ o.commit \notin WalkAcknowledgedSHAs(b)}

forcedUntraileredFindings(b, observations) ==
  {o \in observations : /\ sovereign(o) /\ ~log[o.commit].force /\ log[o.commit].actor # "human"
                        /\ o.commit \notin WalkAcknowledgedSHAs(b)}

manualEditFindings(b, observations) ==
  {o \in observations : /\ legal(o) /\ ~sovereign(o) /\ log[o.commit].verb = None
                        /\ o.commit \notin computeAckedObservations(b, observations)}

\* The status changes `aiwf check` reports as errors.
HistoryErrors(b, observations) ==
  illegalTransitionFindings(b, observations) \cup forcedUntraileredFindings(b, observations)

-----------------------------------------------------------------------------
\* The audit of what has not been pushed.

\* First-parent commits of @{u}..HEAD, oldest first; nothing without an upstream.
UntrailedRange(b) ==
  IF upstream(b) = 0 THEN <<>>
  ELSE SelectSeq(Line(tip[b]), LAMBDA c : c \notin Past(upstream(b)))

\* Mutant: a record covers what comes after it too.
Mut_coveredByAnyAudit(id, i, range) ==
  \E j \in DOMAIN range : log[range[j]].audit /\ log[range[j]].ent = id

isEntityCoveredByLaterAudit(id, i, range) ==
  \E j \in DOMAIN range : j > i /\ log[range[j]].audit /\ log[range[j]].ent = id

\* Mutant: the acknowledged commit is enough, whatever entity it was acknowledged for.
Mut_ackedForAny(b, c, id) == c \in WalkAcknowledgedSHAs(b)

isShaEntityAcked(b, c, id) == <<c, id>> \in Acknowledgements(b)

\* Untrailered commits and the entity ids each still has to answer for.
RunUntrailedAudit(b) ==
  LET range == UntrailedRange(b)
      audited == {i \in DOMAIN range : log[range[i]].verb = None /\ Len(log[range[i]].parents) = 1}
  IN UNION {{<<range[i], id>> : id \in {x \in TouchedIDs(range[i]) :
               /\ ~isEntityCoveredByLaterAudit(x, i, range)
               /\ ~isShaEntityAcked(b, range[i], x)}} : i \in audited}

\* Renames without a rename verb since the branch left the trunk.
RunIDRenameUntrailered(b) ==
  LET trunk == IF upstream("main") # 0 THEN upstream("main") ELSE tip["main"]
      since == Past(tip[b]) \ Past(MergeBase(tip[b], trunk))
  IN {c \in since : /\ log[c].verb \notin {"rename", "reallocate"}
                    /\ \E t \in Touches(c) : t.op = "R"
                    /\ c \notin WalkAcknowledgedSHAs(b)}

-----------------------------------------------------------------------------
\* Agents and the branch their scope is bound to.

\* Branches the oracle indexes.
Indexed == {w \in Branches : Rung[w] # None /\ tip[w] # 0}

FirstParentBranches(c) == {w \in Indexed : c \in ToSet(Line(tip[w]))}

\* First-parent steps from the branch's tip back to the commit.
distanceFromTip(w, c) ==
  LET line == Line(tip[w]) IN Len(line) - CHOOSE i \in DOMAIN line : line[i] = c

Nearer(v, w, c) ==
  LET d == distanceFromTip(v, c) e == distanceFromTip(w, c)
      rank(x) == CHOOSE i \in DOMAIN Order : Order[i] = x
  IN d < e \/ (d = e /\ rank(v) < rank(w))

\* The branch a commit is taken to stand for: the one whose tip is nearest, trunk last.
BranchOfSHA(c) ==
  LET holders == FirstParentBranches(c)
      candidates == IF holders \subseteq {"main"} THEN holders ELSE holders \ {"main"}
  IN {w \in candidates : \A v \in candidates \ {w} : Nearer(w, v, c)}

\* The latest scope opened on the commit's entity before it, 0 where that one had ended.
Binding(b, c) ==
  LET openers == {o \in Past(tip[b]) : o < c /\ log[o].verb = "authorize" /\ log[o].ent = log[c].ent}
      latest == Max(openers \cup {0})
  IN IF \E e \in Past(tip[b]) : e <= c /\ log[e].ends # 0 /\ log[e].ends = latest THEN 0 ELSE latest

\* Mutant: a branch that was not cut yet when the scope was opened is never found.
Mut_byCommitOnly(o) == IF log[o].boundSHA # 0 THEN BranchOfSHA(log[o].boundSHA) ELSE {}

\* The branch a scope is bound to today: by the commit its tip was at, or else by name.
ResolvedBranch(o) ==
  IF log[o].boundSHA # 0 /\ BranchOfSHA(log[o].boundSHA) # {} THEN BranchOfSHA(log[o].boundSHA)
  ELSE {log[o].bound}

\* Agents' commits that ride another branch than the one their scope is bound to.
RunIsolationEscape(b) ==
  {c \in Past(tip[b]) :
     /\ log[c].actor = "ai" /\ log[c].verb # "authorize"
     /\ Binding(b, c) # 0 /\ log[Binding(b, c)].bound # None
     /\ FirstParentBranches(c) # {}
     /\ FirstParentBranches(c) \cap ResolvedBranch(Binding(b, c)) = {}
     /\ c \notin WalkAcknowledgedSHAs(b)
     /\ ~log[c].picked}

-----------------------------------------------------------------------------
\* Activations and the branch they belong on.

isActivatingPromoteTransition(kind, to) == <<kind, to>> \in {<<"epic", "active">>, <<"milestone", "in_progress">>}

\* Trunk for an epic; for a milestone the branch named after its epic's directory, as the
\* tree at hand has it.
expectedParentBranches(b, f) ==
  CASE KindOf(f.id) = "epic" -> {"main"}
    [] KindOf(f.id) = "milestone" ->
         {IF Path(g) \in DOMAIN DirName THEN DirName[Path(g)] ELSE None :
            g \in {h \in Files(tip[b]) : h.about = Parent[f.about]}}
    [] OTHER -> {}

\* Mutant: no guard (G-0269).
Mut_anywhere(b, f, to) == TRUE

\* The verb's guard: the branch checked out is the expected one, if that can be told.
requireExpectedBranch(b, f, to) ==
  isActivatingPromoteTransition(KindOf(f.id), to) => expectedParentBranches(b, f) \subseteq {b}

\* Mutant: only what the checked-out branch reaches is looked at (G-0270).
Mut_headOnly(b) == {c \in Past(tip[b]) : log[c].verb = "promote"}

\* The promotes of every local branch, whichever is checked out.
gatherActivationCommitsLocalBranches(b) ==
  {c \in UNION {Past(tip[w]) : w \in Branches} : log[c].verb = "promote"}

\* Mutant: whoever holds the id today is meant.
Mut_presentHolder(b, id) == {f \in Files(tip[b]) : f.id = id}

\* The entity a trailer's id means today: who gave the id up goes before who holds it.
resolveViaPriorIDs(b, id) ==
  LET renumbered == {f \in Files(tip[b]) : id \in f.prior}
  IN IF renumbered # {} THEN renumbered ELSE {f \in Files(tip[b]) : f.id = id}

\* Mutant: whatever trunk holds is taken to have come by a merge.
Mut_reachesTrunk(c) == c \in Past(tip["main"])

\* The commit reached trunk by a merge, not on trunk's own line.
cameByMerge(c) == c \in Past(tip["main"]) /\ c \notin ToSet(Line(tip["main"]))

\* Activations that are neither on the branch expected of them nor merged from it.
RunPromoteOnWrongBranch(b) ==
  {c \in gatherActivationCommitsLocalBranches(b) :
     /\ \E f \in log[c].files : f.id = log[c].ent /\ isActivatingPromoteTransition(KindOf(f.id), f.status)
     /\ ~log[c].force
     /\ c \notin WalkAcknowledgedSHAs(b)
     /\ \E f \in resolveViaPriorIDs(b, log[c].ent) : \E n \in expectedParentBranches(b, f) :
          /\ n \in Branches => c \notin Past(tip[n])
          /\ ~cameByMerge(c)}

\* The pre-push hook lets the branch go.
Passes(b) ==
  /\ RunUntrailedAudit(b) = {}
  /\ HistoryErrors(b, batchedWalkStatusChanges(b)) = {}
=============================================================================
