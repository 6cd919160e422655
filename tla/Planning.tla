------------------------------ MODULE Planning ------------------------------
(***************************************************************************)
(* The verbs that create, resolve, renumber and label entities of one      *)
(* checkout: add, promote and cancel with their resolver fields, milestone *)
(* depends-on, set-area, rename-area, set-priority, reallocate, archive,   *)
(* contract bind/unbind and recipe install/remove, import, and a merge     *)
(* that brings a file of another branch (internal/verb).  A verb sees the  *)
(* tree it loaded and answers with a plan, applied at once: what happens   *)
(* when an apply fails is ApplyTx's subject, and epics, criteria, actors   *)
(* and hand edits are Lifecycle's.                                         *)
(*                                                                         *)
(* A scenario says which entities there can be (the kind of each uid), how *)
(* many exist at the start and which verbs run, so that one state space    *)
(* holds several small ones.                                               *)
(***************************************************************************)
EXTENDS PlanTree, Workflow

CONSTANTS
  Scenarios,   \* records [cast, start, verbs, parent]
  MaxNum,      \* bound: the highest id number
  Levels       \* bound: the priority levels tried

VARIABLES
  play,        \* the scenario
  files,       \* the entity files of HEAD
  yaml,        \* aiwf.yaml: declared areas, validators, contract bindings
  plans,       \* the plans of an import not applied yet
  halted,      \* an import stopped between two of its commits
  merged,      \* uids a merge brought
  waived,      \* uids a --force or an import wrote
  step         \* what the last verb was, for the properties

vars == <<play, files, yaml, plans, halted, merged, waived, step>>

ASSUME PlanningAssumption ==
  /\ MaxNum \in Nat \ {0} /\ Levels \subseteq Priorities
  /\ \A s \in Scenarios :
       /\ s.cast \in Seq(Kinds) /\ s.start \in 0..Len(s.cast) /\ s.start <= MaxNum
       /\ s.parent = [kind |-> "epic", n |-> 1]
       /\ (\E u \in 1..s.start : s.cast[u] = "milestone") => s.cast[1] = "epic"
       /\ s.areas \subseteq s.names

Uids == DOMAIN play.cast
On(verb) == verb \in play.verbs /\ plans = <<>>

\* A checkout with no other ref in view.
At(fs) == [files |-> fs, trunk |-> {}, hits |-> {}, renames |-> {}, hasRemotes |-> FALSE, scanned |-> TRUE]
T == At(files)
IDs == {IdOf(e) : e \in files}
AllIDs == {[kind |-> k, n |-> n] : k \in {play.cast[u] : u \in Uids}, n \in 1..MaxNum}

Designated(fs, id) == IF HasID(At(fs), id) THEN ByID(At(fs), id).uid ELSE 0
RefTo(field, id, ac) == Ref(field, id.kind, id.n, ac, Designated(files, id))

NewFile(u, n, status, refs) ==
  [uid |-> u, kind |-> play.cast[u], n |-> n, narrow |-> FALSE, slug |-> u, parses |-> TRUE,
   status |-> status, arch |-> FALSE, area |-> None, prio |-> None, refs |-> refs,
   prior |-> {}, byCommit |-> FALSE, acs |-> {}]

FreshUids == {u \in Uids : \A e \in files : e.uid # u}

\* projectAdd, and projectReplace: the latter replaces by id as written, so with a
\* second holder of the id the projection holds the file twice and is refused.
AddPasses(fs) == projectionFindings(T, At(fs)) = {}
Alone(e) == \A o \in files \ {e} : ~SameRawID(o, e)
Replace(fs, e, new) == (fs \ {e}) \cup {new}
ReplacePasses(es, fs) == (\A e \in es : Alone(e)) /\ projectionFindings(T, At(fs)) = {}

Commit(verb, fs) ==
  /\ files' = fs
  /\ step' = verb
  /\ UNCHANGED <<play, plans, halted>>
CommitYaml(verb, y) ==
  /\ yaml' = y
  /\ step' = verb
  /\ UNCHANGED <<play, files, plans, halted, merged, waived>>

-----------------------------------------------------------------------------
\* aiwf add.  The flags a kind takes, each empty or naming one id, of the tree or not.
OptionalRef(field, ids) == {{}} \cup {{RefTo(field, id, 0)} : id \in ids}
OfKind(k) == {id \in AllIDs : id.kind = k}
RefFlags(k) ==
  CASE k = "milestone" -> {{RefTo("parent", play.parent, 0)} \cup d : d \in OptionalRef("depends_on", OfKind(k))}
    [] k = "gap"       -> OptionalRef("discovered_in", OfKind("milestone"))
    [] k = "decision"  -> OptionalRef("relates_to", AllIDs)
    [] k = "contract"  -> OptionalRef("linked_adrs", OfKind("adr"))
    [] OTHER           -> {{}}

\* validateDependsOnReferents and newEntityPath: milestones name ids that exist here.
ReferentsExist(k, refs) ==
  k = "milestone" => \A r \in refs : HasID(T, IdOf(r)) /\ r.kind \in AllowedKinds(k, r.field)

\* contractcheck.Run's errors: a binding without its contract (a live contract without
\* a binding only warns; paths of schemas and fixtures are taken to exist).
contractFindings(fs, y) ==
  {<<"missing-entity", b.n>> : b \in {b \in y.bindings : ~HasID(At(fs), [kind |-> "contract", n |-> b.n])}}
contractMutationGate(fs, y, next) == contractFindings(fs, next) \subseteq contractFindings(fs, y)

atomicContractBind(fs, n, u, validator) ==
  LET next == [yaml EXCEPT !.bindings = @ \cup {[n |-> n, validator |-> validator, means |-> u]}]
  IN /\ validator \in yaml.validators
     /\ \A b \in yaml.bindings : b.n # n
     /\ contractMutationGate(fs, yaml, next)
     /\ yaml' = next

Add(u, refs, validator) ==
  LET k == play.cast[u]
      n == AllocateID(T, k, {})
      own(r) == IF IdOf(r) = [kind |-> k, n |-> n] THEN [r EXCEPT !.means = u] ELSE r
      fs == files \cup {NewFile(u, n, InitialStatus[k], {own(r) : r \in refs})}
  IN /\ On("add") /\ n <= MaxNum
     /\ ReferentsExist(k, refs)
     /\ AddPasses(fs)
     /\ IF validator = None THEN UNCHANGED yaml
        ELSE k = "contract" /\ atomicContractBind(fs, n, u, validator)
     /\ Commit("add", fs)
     /\ UNCHANGED <<merged, waived>>

-----------------------------------------------------------------------------
\* aiwf promote: --by, --by-commit, --superseded-by as sets of at most one id.
NoFlags == [by |-> {}, commit |-> FALSE, sup |-> {}]
FlagsFor(k, to) ==
  CASE k = "gap" /\ to = "addressed" ->
         {[by |-> b, commit |-> c, sup |-> {}] : b \in OptionalRef("addressed_by", AllIDs), c \in BOOLEAN}
    [] k = "adr" /\ to = "superseded" ->
         {[NoFlags EXCEPT !.sup = s] : s \in OptionalRef("superseded_by", OfKind("adr"))}
    [] OTHER -> {NoFlags}
HasFlag(o) == o # NoFlags

\* Mutant: only gaps need a resolver.
Mut_gapsOnly(k, status) == k = "gap" /\ status = "addressed"
isResolutionClass(k, status) ==
  (k = "gap" /\ status = "addressed") \/ (k = "adr" /\ status = "superseded")
needsResolverBackfill(e, o) ==
  \/ e.kind = "gap" /\ ~HasResolver(e) /\ (o.by # {} \/ o.commit)
  \/ e.kind = "adr" /\ Targets(e, "superseded_by") = {} /\ o.sup # {}
requireResolver(k, status, o) == isResolutionClass(k, status) => HasFlag(o)

Ids(refs) == {<<IdOf(r), r.ac>> : r \in refs}
entityResolverSatisfied(e, o) ==
  /\ o.by # {} => Ids(Targets(e, "addressed_by")) = Ids(o.by)
  /\ o.commit => e.byCommit
  /\ o.sup # {} => Ids(Targets(e, "superseded_by")) = Ids(o.sup)

applyResolverFlags(e, o) ==
  LET replaced == {r \in e.refs : \/ r.field = "addressed_by" /\ o.by # {}
                                  \/ r.field = "superseded_by" /\ o.sup # {}}
  IN [e EXCEPT !.refs = (@ \ replaced) \cup o.by \cup o.sup, !.byCommit = @ \/ o.commit]

Mut_oneSided(fs, e, o) == {}
\* reciprocalSupersedesOp: the files it rewrites, at most the superseding ADR.
Reciprocal(fs, e, o) ==
  {b \in fs : /\ \E r \in o.sup : HasID(At(fs), IdOf(r)) /\ b = ByID(At(fs), IdOf(r))
              /\ b.kind = "adr" /\ b.n # e.n
              /\ \A s \in Targets(b, "supersedes") : s.n # e.n}
BackLinked(b, e) == [b EXCEPT !.refs = @ \cup {Ref("supersedes", "adr", e.n, 0, e.uid)}]

promoteWouldWrite(e, o) == ~entityResolverSatisfied(e, o) \/ Reciprocal(files, e, o) # {}

\* The guards of a milestone's start read its criteria: it has none in this module.
requireNonEmptyACs(e, to) == ~(e.kind = "milestone" /\ e.status = "draft" /\ to = "in_progress" /\ e.acs = {})

Promote(id, to, o, force) ==
  LET e == ByID(T, id)
      backfill == e.status = to /\ isResolutionClass(e.kind, to) /\ needsResolverBackfill(e, o)
      new == applyResolverFlags([e EXCEPT !.status = to], o)
      backs == Reciprocal(files, e, o)
      fs == ((files \ {e}) \ backs) \cup {new} \cup {BackLinked(b, e) : b \in backs}
  IN /\ On("promote") /\ e.kind # "epic"
     /\ ~(e.status = to /\ ~promoteWouldWrite(e, o))
     /\ force \/ ~(e.status = to /\ HasFlag(o) /\ isResolutionClass(e.kind, to) /\ ~backfill)
     /\ force \/ backfill \/ ValidateTransition(e.kind, e.status, to)
     /\ force \/ requireResolver(e.kind, to, o)
     /\ force \/ requireNonEmptyACs(e, to)
     /\ ReplacePasses({e} \cup backs, fs)
     /\ Commit("promote", fs)
     /\ waived' = IF force THEN waived \cup {e.uid} ELSE waived
     /\ UNCHANGED <<yaml, merged>>

Cancel(id) ==
  LET e == ByID(T, id)
      to == CancelTarget(e.kind, e.status)
      fs == Replace(files, e, [e EXCEPT !.status = to])
  IN /\ On("cancel") /\ e.kind # "epic"
     /\ ~IsTerminal(e.kind, e.status) /\ to \notin {None, e.status}
     /\ ReplacePasses({e}, fs)
     /\ Commit("cancel", fs)
     /\ UNCHANGED <<yaml, merged, waived>>

\* --on replaces the whole list; --clear is the empty one.
MilestoneDependsOn(id, deps) ==
  LET e == ByID(T, id)
      refs == {RefTo("depends_on", d, 0) : d \in deps}
      fs == Replace(files, e, [e EXCEPT !.refs = (@ \ Targets(e, "depends_on")) \cup refs])
  IN /\ On("depends_on") /\ e.kind = "milestone"
     /\ \A d \in deps : d # id /\ HasID(T, d) /\ d.kind = "milestone"
     /\ Ids(refs) # Ids(Targets(e, "depends_on"))
     /\ ReplacePasses({e}, fs)
     /\ Commit("depends_on", fs)
     /\ UNCHANGED <<yaml, merged, waived>>

-----------------------------------------------------------------------------
\* Labels.  These three write without projecting the tree.
SetArea(id, v) ==
  LET e == ByID(T, id)
  IN /\ On("area") /\ CarriesOwnArea(e.kind)
     /\ v = None \/ IsValidAreaValue(v, yaml.areas)
     /\ e.area # v
     /\ Commit("area", Replace(files, e, [e EXCEPT !.area = v]))
     /\ UNCHANGED <<yaml, merged, waived>>

Mut_renameActive(old, new) ==
  LET tagged == {e \in files : e.area = old /\ ~e.arch}
  IN /\ On("area")
     /\ old \in yaml.areas /\ new # AreaGlobal /\ new # old /\ new \notin yaml.areas
     /\ yaml' = [yaml EXCEPT !.areas = (@ \ {old}) \cup {new}]
     /\ Commit("rename_area", (files \ tagged) \cup {[e EXCEPT !.area = new] : e \in tagged})
     /\ UNCHANGED <<merged, waived>>
RenameArea(old, new) ==
  LET tagged == {e \in files : e.area = old}
  IN /\ On("area")
     /\ old \in yaml.areas /\ new # AreaGlobal /\ new # old /\ new \notin yaml.areas
     /\ yaml' = [yaml EXCEPT !.areas = (@ \ {old}) \cup {new}]
     /\ Commit("rename_area", (files \ tagged) \cup {[e EXCEPT !.area = new] : e \in tagged})
     /\ UNCHANGED <<merged, waived>>

SetPriority(id, level) ==
  LET e == ByID(T, id)
  IN /\ On("priority") /\ CarriesOwnPriority(e.kind)
     /\ level = None \/ level \in Priorities
     /\ e.prio # level
     /\ Commit("priority", Replace(files, e, [e EXCEPT !.prio = level]))
     /\ UNCHANGED <<yaml, merged, waived>>

\* The sweep moves every terminal entity but a milestone, which rides with its epic.
ArchiveSweep ==
  LET swept == {e \in files : isPendingSweep(e)}
  IN /\ On("archive") /\ swept # {}
     /\ Commit("archive", (files \ swept) \cup {[e EXCEPT !.arch = TRUE] : e \in swept})
     /\ UNCHANGED <<yaml, merged, waived>>

-----------------------------------------------------------------------------
\* aiwf reallocate, by path (with an id both sides hold, only a path tells them
\* apart; with a trunk, Branches picks the side).
Reallocate(e) ==
  LET n == AllocateID(T, e.kind, {})
      fs == Reallocated(files, e, n)
  IN /\ On("reallocate") /\ n <= MaxNum
     /\ projectionFindings(T, At(fs)) = {}
     /\ Commit("reallocate", fs)
     /\ UNCHANGED <<yaml, merged, waived>>

-----------------------------------------------------------------------------
\* Contract bindings and validators.
BindingsOf(n) == {b \in yaml.bindings : b.n = n}

ContractBind(id, validator, force) ==
  LET e == ByID(T, id)
      new == [n |-> id.n, validator |-> validator, means |-> e.uid]
      next == [yaml EXCEPT !.bindings = (@ \ BindingsOf(id.n)) \cup {new}]
  IN /\ On("contract") /\ e.kind = "contract"
     /\ validator \in yaml.validators
     /\ \A b \in BindingsOf(id.n) : b.validator # validator /\ force
     /\ contractMutationGate(files, yaml, next)
     /\ CommitYaml("bind", next)

ContractUnbind(n) ==
  LET next == [yaml EXCEPT !.bindings = @ \ BindingsOf(n)]
  IN /\ On("contract") /\ BindingsOf(n) # {}
     /\ contractMutationGate(files, yaml, next)
     /\ CommitYaml("unbind", next)

Mut_unread(validator) == {}
bindingsReferencing(validator) == {b \in yaml.bindings : b.validator = validator}

RecipeInstall(validator) ==
  /\ On("contract") /\ validator \notin yaml.validators
  /\ CommitYaml("install", [yaml EXCEPT !.validators = @ \cup {validator}])

RecipeRemove(validator) ==
  /\ On("contract") /\ validator \in yaml.validators
  /\ bindingsReferencing(validator) = {}
  /\ CommitYaml("remove", [yaml EXCEPT !.validators = @ \ {validator}])

-----------------------------------------------------------------------------
\* aiwf import of a manifest with up to two entries: an entry has an id or asks for
\* one, and a status and references of its own.  Ids the manifest names are reserved
\* before the automatic ones are drawn.
Entry(uid, n, status, refs) == [uid |-> uid, n |-> n, status |-> status, refs |-> refs]
IsAuto(en) == en.n = 0

Reserved(m, k) == {m[i].n : i \in {i \in DOMAIN m : ~IsAuto(m[i]) /\ play.cast[m[i].uid] = k}}
AutoID(m, i) ==
  LET k == play.cast[m[i].uid]
      before == {j \in 1..(i - 1) : IsAuto(m[j]) /\ play.cast[m[j].uid] = k}
  IN AllocateID(T, k, {[kind |-> k, n |-> n] : n \in Reserved(m, k)}) + Cardinality(before)

IdOfEntry(m, i) == [kind |-> play.cast[m[i].uid], n |-> IF IsAuto(m[i]) THEN AutoID(m, i) ELSE m[i].n]

\* `existing` is last-wins where every other lookup is first-wins.
LastHolder(id) == CHOOSE e \in ByIDAll(T, id) : \A o \in ByIDAll(T, id) \ {e} : Before(o, e)

\* A reference to an id only the manifest has means the entry of that id.
Meant(m, r) ==
  IF r.means # 0 \/ \A j \in DOMAIN m : IdOfEntry(m, j) # IdOf(r) THEN r
  ELSE [r EXCEPT !.means = m[CHOOSE j \in DOMAIN m : IdOfEntry(m, j) = IdOf(r)].uid]

\* What entry i writes: a new file, or the frontmatter of the one it updates.
Built(m, i) ==
  LET id == IdOfEntry(m, i)
      new == NewFile(m[i].uid, id.n, m[i].status, {Meant(m, r) : r \in m[i].refs})
  IN IF HasID(T, id)
     THEN [new EXCEPT !.uid = LastHolder(id).uid, !.slug = LastHolder(id).slug,
                      !.narrow = LastHolder(id).narrow, !.arch = LastHolder(id).arch]
     ELSE new
Kept(m, onCollision) ==
  LET kept[i \in 0..Len(m)] ==
        IF i = 0 THEN <<>>
        ELSE IF HasID(T, IdOfEntry(m, i)) /\ onCollision = "skip" THEN kept[i - 1] ELSE Append(kept[i - 1], i)
  IN kept[Len(m)]

Written(fs, f) == {e \in fs : e.uid # f.uid} \cup {f}

Import(m, onCollision, perEntity) ==
  LET order == Kept(m, onCollision)
      writes == [j \in DOMAIN order |-> Built(m, order[j])]
      updated == {LastHolder(IdOfEntry(m, i)) : i \in {i \in DOMAIN m : HasID(T, IdOfEntry(m, i))}}
      fs == {e \in files : \A j \in DOMAIN writes : writes[j].uid # e.uid} \cup ToSet(writes)
  IN /\ On("import") /\ writes # <<>>
     /\ \A i \in DOMAIN m : IdOfEntry(m, i).n <= MaxNum
     /\ \A i, j \in DOMAIN m : i # j => IdOfEntry(m, i) # IdOfEntry(m, j)
     /\ onCollision = "fail" => updated = {}
     /\ \A e \in (IF onCollision = "update" THEN updated ELSE {}) : Alone(e)
     /\ projectionFindings(T, At(fs)) = {}
     /\ plans' = IF perEntity THEN Tail(writes) ELSE <<>>
     /\ files' = IF perEntity THEN Written(files, writes[1]) ELSE fs
     /\ step' = "import"
     /\ waived' = waived \cup {w.uid : w \in ToSet(writes)}
     /\ UNCHANGED <<play, yaml, halted, merged>>

\* The loop of FinishVerbOutcome: the next plan, or the first failure, which ends it.
ImportNext ==
  /\ plans # <<>>
  /\ files' = Written(files, plans[1])
  /\ plans' = Tail(plans)
  /\ step' = "import_next"
  /\ UNCHANGED <<play, yaml, halted, merged, waived>>
ImportStop ==
  /\ plans # <<>>
  /\ plans' = <<>> /\ halted' = TRUE
  /\ step' = "import_stop"
  /\ UNCHANGED <<play, files, yaml, merged, waived>>

-----------------------------------------------------------------------------
\* git merge of a branch that created one entity: its number is whatever was free
\* there, and its reference means the entity of that id there.
MergeIn(u, n, refs) ==
  /\ On("merge") /\ n <= MaxNum
  /\ Commit("merge", files \cup {NewFile(u, n, InitialStatus[play.cast[u]], refs)})
  /\ merged' = merged \cup {u}
  /\ UNCHANGED <<yaml, waived>>

-----------------------------------------------------------------------------
\* The first play.start uids exist, numbered in order within their kind.
StartNumber(s, u) == Cardinality({v \in 1..u : s.cast[v] = s.cast[u]})
StartFile(s, u) ==
  [uid |-> u, kind |-> s.cast[u], n |-> StartNumber(s, u), narrow |-> FALSE, slug |-> u,
   parses |-> TRUE, status |-> InitialStatus[s.cast[u]], arch |-> FALSE, area |-> None,
   prio |-> None, prior |-> {}, byCommit |-> FALSE, acs |-> {},
   refs |-> IF s.cast[u] = "milestone" THEN {Ref("parent", s.parent.kind, s.parent.n, 0, 1)} ELSE {}]

Init ==
  /\ play \in Scenarios
  /\ files = {StartFile(play, u) : u \in 1..play.start}
  /\ yaml = [areas |-> play.areas, validators |-> {}, bindings |-> {}]
  /\ plans = <<>> /\ halted = FALSE /\ merged = {} /\ waived = {}
  /\ step = None

Entries ==
  UNION {{Entry(u, n, status, refs) : n \in 0..MaxNum, status \in play.statuses \cap Statuses(play.cast[u]),
                                      refs \in RefFlags(play.cast[u])} : u \in FreshUids}
Manifests ==
  {<<en>> : en \in Entries} \cup
  {p \in Entries \X Entries : p[1].uid < p[2].uid /\ (IsAuto(p[1]) => IsAuto(p[2]))}

Next ==
  \/ \E u \in FreshUids : \E refs \in RefFlags(play.cast[u]), v \in yaml.validators \cup {None} : Add(u, refs, v)
  \/ \E id \in IDs : \E to \in Statuses(id.kind), force \in BOOLEAN :
       \E o \in FlagsFor(id.kind, to) : Promote(id, to, o, force)
  \/ \E id \in IDs : Cancel(id)
  \/ \E id \in IDs : \E deps \in SUBSET OfKind("milestone") : MilestoneDependsOn(id, deps)
  \/ \E id \in IDs, v \in yaml.areas \cup {AreaGlobal, None} : SetArea(id, v)
  \/ \E old, new \in play.names : RenameArea(old, new)
  \/ \E id \in IDs, level \in Levels \cup {None} : SetPriority(id, level)
  \/ ArchiveSweep
  \/ \E e \in files : Reallocate(e)
  \/ \E id \in IDs, v \in yaml.validators, force \in BOOLEAN : ContractBind(id, v, force)
  \/ \E n \in 1..MaxNum : ContractUnbind(n)
  \/ \E v \in play.tools : RecipeInstall(v) \/ RecipeRemove(v)
  \/ /\ On("import")
     /\ \E m \in Manifests, onCollision \in {"fail", "skip", "update"}, perEntity \in BOOLEAN :
          Import(m, onCollision, perEntity)
  \/ ImportNext
  \/ ImportStop
  \/ \E u \in FreshUids, n \in 1..MaxNum : \E refs \in RefFlags(play.cast[u]) : MergeIn(u, n, refs)

Spec == Init /\ [][Next]_vars
-----------------------------------------------------------------------------
FileType ==
  [uid : Uids, kind : Kinds, n : 1..MaxNum, narrow : BOOLEAN, slug : Uids, parses : BOOLEAN,
   status : UNION {Statuses(k) : k \in Kinds}, arch : BOOLEAN,
   area : play.names \cup {None, AreaGlobal}, prio : Levels \cup {None},
   refs : SUBSET [field : RewrittenFields \cup {"linked_adrs"}, kind : Kinds, n : 1..MaxNum,
                  ac : Nat, means : Uids \cup {0}],
   prior : SUBSET (1..MaxNum), byCommit : BOOLEAN, acs : SUBSET Nat]

\* Every file is a well-formed record, one per uid, with a status of its kind.
TypeOK ==
  /\ play \in Scenarios /\ files \in SUBSET FileType
  /\ \A e \in files : e.status \in Statuses(e.kind) /\ e.kind = play.cast[e.uid]
  /\ \A e, o \in files : e.uid = o.uid => e = o
  /\ yaml.areas \subseteq play.names /\ yaml.validators \subseteq play.tools
  /\ \A b \in yaml.bindings : b.n \in 1..MaxNum /\ b.validator \in play.tools

\* An import is under way or was left half done.
Whole == plans = <<>> /\ ~halted

\* Ids are not reused: a number a renumbered entity gave up is never handed out
\* again, so history, trailers and prior_ids keep meaning one entity
\* (entity.AllocateID is max + 1, verb.Reallocate appends prior_ids).
PriorIDsStayRetired ==
  [][\A e \in files' : (\A o \in files : o.uid # e.uid) /\ step' = "add" =>
        \A o \in files : o.kind = e.kind => e.n \notin o.prior \cup {o.n}]_vars

\* As long as no merge brought a collision, ids are one entity's each and a reference
\* of a live file names the entity it was made for: through renumbering, sweeps,
\* resolutions and imports (verb.Reallocate rewrites or refuses; projectionFindings).
RefsKeepTheirReferent ==
  merged = {} /\ Whole =>
    /\ \A e, o \in files : e # o => IdOf(e) # IdOf(o)
    /\ \A e \in files : ~e.arch => \A r \in e.refs : r.means # 0 /\ Designated(files, IdOf(r)) = r.means

\* No reading of depends_on or superseded_by goes round: the set of ids from which
\* every walk stays within the set is empty (check.noCycles over every write that
\* projects, and Reallocate).
Successors(field, n, k) == UNION {{r.n : r \in Targets(e, field)} : e \in {e \in files : e.kind = k /\ e.n = n}}
Acyclic(field, k) ==
  \A S \in SUBSET {e.n : e \in {e \in files : e.kind = k}} :
    S # {} => \E n \in S : Successors(field, n, k) \cap S = {}
NoCycles == merged = {} /\ Whole => Acyclic("depends_on", "milestone") /\ Acyclic("superseded_by", "adr")

\* A milestone still to be done depends on no cancelled one, whichever of the two
\* was written last (check.dependsOnCancelled).
LiveDependenciesCanBeMet ==
  merged = {} /\ Whole =>
    \A e \in files : \A r \in Targets(e, "depends_on") :
      ~IsTerminal(e.kind, e.status) => ByID(T, IdOf(r)).status # "cancelled"

\* What depends on what stays an order that can be worked through.
DependenciesSound == NoCycles /\ LiveDependenciesCanBeMet

\* An ADR that says what superseded it is listed there, and a gap is closed as
\* addressed with a resolver, unless a --force or an import wrote it
\* (reciprocalSupersedesOp; requireResolverForResolutionClass).
ResolutionsAreTwoSided ==
  merged = {} =>
    \A e \in files : e.uid \notin waived =>
      /\ e.kind = "gap" /\ e.status = "addressed" => HasResolver(e)
      /\ \A r \in Targets(e, "superseded_by") :
           ByID(T, IdOf(r)).uid \in waived \/ \E s \in Targets(ByID(T, IdOf(r)), "supersedes") : s.means = e.uid

\* Every binding runs a declared validator, and one that names a contract names the
\* contract it was made for, until that one is renumbered: neither recipe remove, add
\* with its flags, archive nor a new allocation can come between
\* (RecipeRemove, atomicContractBind, contractMutationGate).
BindingsHold ==
  \A b \in yaml.bindings :
    /\ b.validator \in yaml.validators
    /\ merged = {} /\ Whole /\ (\A e \in files : e.uid = b.means => e.prior = {}) =>
         Designated(files, [kind |-> "contract", n |-> b.n]) = b.means

\* The areas entities carry are declared: rename-area rewrites the archive too and
\* set-area asks the list of the day (verb.RenameArea, verb.SetArea).
AreasDeclared == \A e \in files : e.area # None => IsValidAreaValue(e.area, yaml.areas)

\* aiwf.yaml and the tree agree on contracts and areas.
ConfigurationAgrees == BindingsHold /\ AreasDeclared

\* What the workflow table's predicates read of a file and the flags it was written
\* with.  The table knows ids as resolvers of a gap only, the verb commits as well.
FileContext(e) ==
  [NoContext EXCEPT !.superseded_by = Targets(e, "superseded_by"),
                    !.addressed_by = {HasResolver(e)} \ {FALSE}]

\* Promote and cancel keep to the repository's own table of legal requests
\* (workflows/spec, tested from one fixture per row): whatever was renumbered, swept
\* or superseded before, no unforced change of status goes against an Illegal row or
\* past the conditions of a Legal one.
VerbsKeepToTheTable ==
  [][step' \in {"promote", "cancel"} =>
       \A e \in files, new \in files' :
         e.uid = new.uid /\ e.status # new.status /\ e.uid \notin waived' =>
           MayEnd(e.kind, e.status, step', new.status, FileContext(new), "Legal")]_vars

\* The step, which decides nothing.
View == <<play, files, yaml, plans, halted, merged, waived>>
=============================================================================
