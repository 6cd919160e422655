------------------------------ MODULE PlanTree ------------------------------
(***************************************************************************)
(* The planning tree as a value: entity records (internal/entity), the     *)
(* loaded tree and its lookups (internal/tree), and the check rules that   *)
(* judge ids, references, shape, archive placement, areas and priorities   *)
(* (internal/check).  Constant operators only.                             *)
(*                                                                         *)
(* An id is [kind, n]; its width is apart, because lookups canonicalise    *)
(* (entity.Canonicalize) and a few comparisons do not.  `uid` names the    *)
(* entity itself, whatever its id of the day, and is no field of the file: *)
(* only the walk order (through the slug) and the properties look at it.   *)
(***************************************************************************)
EXTENDS EntityFSM, Naturals, Sequences, FiniteSets, FiniteSetsExt, SequencesExt

AreaGlobal == "global"
Priorities == {"urgent", "high", "medium", "low"}

\* What a kind's frontmatter carries.
CarriesOwnArea(k) == k # "milestone"
CarriesOwnPriority(k) == k \in {"gap", "decision"}
IsBornComplete(k) == k \in {"adr", "gap", "decision", "contract"}

\* Reference fields: {} as the allowed kinds means any kind, and only then may
\* the target be composite (a milestone's criterion).
RefField(name, single, allowed) == [name |-> name, single |-> single, allowed |-> allowed]
schemas ==
  [epic      |-> {},
   milestone |-> {RefField("parent", TRUE, {"epic"}), RefField("depends_on", FALSE, {"milestone"})},
   adr       |-> {RefField("supersedes", FALSE, {"adr"}), RefField("superseded_by", TRUE, {"adr"})},
   gap       |-> {RefField("discovered_in", TRUE, {"milestone", "epic"}),
                  RefField("addressed_by", FALSE, {})},
   decision  |-> {RefField("relates_to", FALSE, {})},
   contract  |-> {RefField("linked_adrs", FALSE, {"adr"})}]

AllowedKinds(k, field) == (CHOOSE f \in schemas[k] : f.name = field).allowed

\* A reference: field, target id, and the criterion's number (0 for a whole entity).
\* `means` is the uid of the entity the reference was made for, which the file does
\* not say (0: none of that id at the time).
Ref(field, kind, n, ac, means) ==
  [field |-> field, kind |-> kind, n |-> n, ac |-> ac, means |-> means]
Text(r) == [r EXCEPT !.means = 0]
IsComposite(r) == r.ac # 0
IdOf(x) == [kind |-> x.kind, n |-> x.n]

-----------------------------------------------------------------------------
\* The loaded tree: `files` and what other refs are known to hold.  A file that
\* does not parse is a stub: its path still says kind and id.
Entities(t) == {e \in t.files : e.parses}
Stubs(t) == {e \in t.files : ~e.parses}
ActiveForm(e) == [kind |-> e.kind, n |-> e.n, narrow |-> e.narrow, slug |-> e.slug]
PathOf(e) == <<ActiveForm(e), e.arch>>

\* filepath.WalkDir: the active directory before archive/, wide ids before narrow
\* ones, then by slug; a stub is listed after every entity.
Before(a, b) ==
  LET key(e) == <<IF e.parses THEN 0 ELSE 1, IF e.arch THEN 1 ELSE 0,
                  IF e.narrow THEN 1 ELSE 0, e.slug>>
  IN \E i \in 1..4 : key(a)[i] < key(b)[i] /\ \A j \in 1..(i - 1) : key(a)[j] = key(b)[j]

First(S) == CHOOSE e \in S : \A o \in S \ {e} : Before(e, o)

ByIDAll(t, id) == {e \in Entities(t) : IdOf(e) = id}
HasID(t, id) == ByIDAll(t, id) # {}
ByID(t, id) == First(ByIDAll(t, id))
ByPriorIDAll(t, id) == {e \in Entities(t) : id.n \in e.prior /\ e.kind = id.kind}
ByKind(t, k) == {e \in Entities(t) : e.kind = k}

\* refs-resolve also finds a stub.
InIndex(t, id) == \E e \in t.files : IdOf(e) = id
Indexed(t, id) == First({e \in t.files : IdOf(e) = id})

Targets(e, field) == {r \in e.refs : r.field = field}

ResolvedArea(t, e) ==
  IF CarriesOwnArea(e.kind) THEN e.area
  ELSE LET up == {r \in Targets(e, "parent") : HasID(t, IdOf(r))}
       IN IF up = {} THEN None ELSE ByID(t, IdOf(CHOOSE r \in up : TRUE)).area

\* The live ids that name this one, archived referrers included.
ReferencedBy(t, id) ==
  {IdOf(e) : e \in {e \in Entities(t) : \E r \in e.refs : IdOf(r) = id}}

\* Allocation: one more than the highest number seen here or on any known ref.
Mut_fillGap(t, k, elsewhere) ==
  CHOOSE n \in 1..100 : (\A e \in ByKind(t, k) : e.n # n) /\ \A m \in 1..(n - 1) : \E e \in ByKind(t, k) : e.n = m
AllocateID(t, k, elsewhere) ==
  Max({0} \cup {e.n : e \in ByKind(t, k)} \cup {i.n : i \in {i \in elsewhere : i.kind = k}}) + 1

-----------------------------------------------------------------------------
\* Findings.  Two findings are the same when all of this is.
Finding(code, sub, e, about) ==
  [code |-> code, sub |-> sub, at |-> PathOf(e), id |-> IdOf(e), about |-> <<code, about>>]

\* The duplicate is judged on the id as written, narrow and wide apart.
SameRawID(a, b) == IdOf(a) = IdOf(b) /\ a.narrow = b.narrow

\* A trunk id this tree holds too, in a file that is not the trunk's even after an
\* archive sweep.
DisputedTrunkIDs(t) ==
  {i \in t.trunk : LET own == {e \in t.files : SameRawID(e, i)}
                   IN own # {} /\ ActiveForm(First(own)) # ActiveForm(i)}

\* Mutant: only trunk's ids are compared with, not the other files'.
Mut_againstTrunkOnly(t) ==
  {Finding("ids-unique", "trunk-collision", First({e \in t.files : SameRawID(e, i)}), PathOf(i)) :
     i \in {i \in DisputedTrunkIDs(t) :
              <<PathOf(i), PathOf(First({e \in t.files : SameRawID(e, i)}))>> \notin t.renames}}
idsUnique(t) ==
  {Finding("ids-unique", None, e, PathOf(First({o \in t.files : SameRawID(o, e)}))) :
      e \in {e \in t.files : \E o \in t.files : SameRawID(o, e) /\ Before(o, e)}}
  \cup {Finding("ids-unique", "trunk-collision", First({e \in t.files : SameRawID(e, i)}), PathOf(i)) :
          i \in {i \in DisputedTrunkIDs(t) :
                   <<PathOf(i), PathOf(First({e \in t.files : SameRawID(e, i)}))>> \notin t.renames}}

frontmatterShape(t) ==
  {Finding("frontmatter-shape", "parent", e, None) :
      e \in {e \in ByKind(t, "milestone") : ~e.arch /\ Targets(e, "parent") = {}}}

statusValid(t) ==
  {Finding("status-valid", None, e, e.status) : e \in {e \in Entities(t) : e.status \notin Statuses(e.kind)}}

\* refs-resolve skips archived referrers; an id found only on other refs is pending,
\* disputed, or an error when it is published nowhere.
crossBranchIndex(t, id) == {h \in t.hits : IdOf(h) = id}
RemoteVisible(hits) == \E h \in hits : h.remote

Mut_resolvePending(t, e, r) == IF InIndex(t, IdOf(r)) THEN None ELSE "cross-branch-pending"
AllowsAnyKind(e, r) == AllowedKinds(e.kind, r.field) = {}
resolveRef(t, e, r) ==
  LET found == InIndex(t, IdOf(r))
      hits == crossBranchIndex(t, IdOf(r))
  IN IF IsComposite(r)
     THEN IF ~AllowsAnyKind(e, r) THEN "unresolved"
          ELSE IF ~found THEN "unresolved-milestone"
          ELSE IF r.ac \in Indexed(t, IdOf(r)).acs THEN None ELSE "unresolved-ac"
     ELSE IF found
     THEN IF AllowsAnyKind(e, r) \/ r.kind \in AllowedKinds(e.kind, r.field) THEN None ELSE "wrong-kind"
     ELSE IF hits = {} THEN "unresolved"
     ELSE IF t.hasRemotes /\ ~RemoteVisible(hits) THEN "cross-branch-local-only"
     ELSE IF Cardinality({h.content : h \in hits}) > 1 THEN "cross-branch-collision"
     ELSE "cross-branch-pending"

refsResolve(t) ==
  {Finding("refs-resolve", resolveRef(t, p[1], p[2]), p[1], Text(p[2])) :
     p \in {p \in UNION {{e} \X e.refs : e \in Entities(t)} :
              ~p[1].arch /\ resolveRef(t, p[1], p[2]) # None}}

IsCrossBranch(f) == f.sub \in {"cross-branch-local-only", "cross-branch-collision", "cross-branch-pending"}

\* Rules that warn.  `aiwf check` also lowers an unresolved id to a warning when it
\* could not build the cross-branch view; a verb's projection does not.
IsWarning(f) ==
  \/ f.sub \in {"cross-branch-collision", "cross-branch-pending", "unresolved-unverified"}
  \/ f.code \in {"adr-supersession-mutual", "gap-addressed-has-resolver", "priority-valid",
                 "priority-not-applicable", "terminal-entity-not-archived", "area-unknown"}
MarkUnverifiedResolution(t, fs) ==
  IF t.scanned THEN fs
  ELSE {IF f.code = "refs-resolve" /\ f.sub = "unresolved"
        THEN [f EXCEPT !.sub = "unresolved-unverified"] ELSE f : f \in fs}

-----------------------------------------------------------------------------
\* cycleNodes: the depth-first search of check.go, colours and all, one visit's next step
\* at a time.  It visits the sources in id order and a source's targets in the order listed
\* (here: ascending); a node is white until it is entered, gray on the stack, then black.
\* A node reached again when black is left alone, so not every node on some cycle is
\* reported, but some node of every cycle is.
Ascending(S) == SetToSortSeq(S, <)

Enter(s, n) == [s EXCEPT !.white = @ \ {n}, !.stack = Append(@, n)]
LookedAt(s, n, m) ==
  LET t == [s EXCEPT !.left = @ \ {<<n, m>>}]
      i == CHOOSE i \in DOMAIN s.stack : s.stack[i] = m
  IN CASE m \in s.white -> Enter(t, m)
       [] m \notin s.white /\ m \in ToSet(s.stack) -> [t EXCEPT !.onCycle = @ \cup {s.stack[j] : j \in i..Len(s.stack)}]
       [] OTHER -> t
visit(s, sources) ==
  LET n == Last(s.stack)
      next == {e[2] : e \in {e \in s.left : e[1] = n}}
  IN CASE s.stack = <<>> -> IF s.white \cap sources = {} THEN s ELSE Enter(s, Min(s.white \cap sources))
       [] s.stack # <<>> /\ next = {} -> [s EXCEPT !.stack = Front(@)]
       [] s.stack # <<>> /\ next # {} -> LookedAt(s, n, Min(next))

\* Every step enters or leaves a node or looks at an edge.
EdgePairs(edges) == UNION {{n} \X edges[n] : n \in DOMAIN edges}
NodesOf(edges) == DOMAIN edges \cup UNION {edges[n] : n \in DOMAIN edges}
cycleNodes(edges) ==
  LET steps == Cardinality(EdgePairs(edges)) + 2 * Cardinality(NodesOf(edges))
      run[i \in 0..steps] ==
        IF i = 0 THEN [stack |-> <<>>, white |-> NodesOf(edges), left |-> EdgePairs(edges), onCycle |-> {}]
        ELSE visit(run[i - 1], DOMAIN edges)
  IN run[steps].onCycle

\* The last file of an id wins the edge map.
DependsEdges(t) ==
  [n \in {e.n : e \in ByKind(t, "milestone")} |->
     LET holders == ByIDAll(t, [kind |-> "milestone", n |-> n])
         last == CHOOSE e \in holders : \A o \in holders \ {e} : Before(o, e)
     IN {r.n : r \in Targets(last, "depends_on")}]
SupersededEdges(t) ==
  LET claims == {e \in ByKind(t, "adr") : Targets(e, "superseded_by") # {}}
      holders(n) == {e \in claims : e.n = n}
      last(n) == CHOOSE e \in holders(n) : \A o \in holders(n) \ {e} : Before(o, e)
  IN [n \in {e.n : e \in claims} |-> {r.n : r \in Targets(last(n), "superseded_by")}]

Mut_noCyclesRulings(t) ==
  {Finding("no-cycles", "supersedes", a, None) :
     a \in {a \in ByKind(t, "adr") : a.n \in cycleNodes(SupersededEdges(t))}}
noCycles(t) ==
  LET report(k, field, edges) ==
        {[code |-> "no-cycles", sub |-> field, id |-> [kind |-> k, n |-> n], about |-> <<"no-cycles", None>>,
          at |-> IF HasID(t, [kind |-> k, n |-> n]) THEN PathOf(ByID(t, [kind |-> k, n |-> n])) ELSE <<>>] :
            n \in cycleNodes(edges)}
  IN report("milestone", "depends_on", DependsEdges(t)) \cup report("adr", "supersedes", SupersededEdges(t))

-----------------------------------------------------------------------------
Mut_dependsOnStarted(t) ==
  {Finding("depends-on-cancelled", None, p[1], Text(p[2])) :
     p \in {p \in UNION {{e} \X Targets(e, "depends_on") : e \in ByKind(t, "milestone")} :
              p[1].status = "in_progress" /\ HasID(t, IdOf(p[2])) /\ ByID(t, IdOf(p[2])).status = "cancelled"}}
dependsOnCancelled(t) ==
  {Finding("depends-on-cancelled", None, p[1], Text(p[2])) :
     p \in {p \in UNION {{e} \X Targets(e, "depends_on") : e \in ByKind(t, "milestone")} :
              /\ p[1].status \in Statuses("milestone") /\ ~IsTerminal("milestone", p[1].status)
              /\ HasID(t, IdOf(p[2])) /\ ByID(t, IdOf(p[2])).status = "cancelled"}}

archivedEntityNotTerminal(t) ==
  {Finding("archived-entity-not-terminal", None, e, e.status) :
     e \in {e \in Entities(t) : e.arch /\ e.status \in Statuses(e.kind) /\ ~IsTerminal(e.kind, e.status)}}

isPendingSweep(e) ==
  ~e.arch /\ e.status \in Statuses(e.kind) /\ IsTerminal(e.kind, e.status) /\ e.kind # "milestone"
terminalEntityNotArchived(t) ==
  {Finding("terminal-entity-not-archived", None, e, e.status) : e \in {e \in Entities(t) : isPendingSweep(e)}}

\* Both comparisons are on the ids as written.
adrSupersessionMutual(t) ==
  {Finding("adr-supersession-mutual", None, a, None) :
     a \in {a \in ByKind(t, "adr") :
              \E r \in Targets(a, "superseded_by") :
                /\ HasID(t, IdOf(r))
                /\ \A s \in Targets(ByID(t, IdOf(r)), "supersedes") : s.n # a.n}}

HasResolver(g) == Targets(g, "addressed_by") # {} \/ g.byCommit
gapAddressedHasResolver(t) ==
  {Finding("gap-addressed-has-resolver", None, g, None) :
     g \in {g \in ByKind(t, "gap") : g.status = "addressed" /\ ~HasResolver(g)}}

priorityValid(t) ==
  {Finding("priority-valid", None, e, e.prio) :
     e \in {e \in Entities(t) : ~e.arch /\ CarriesOwnPriority(e.kind) /\ e.prio \notin Priorities \cup {None}}}
priorityNotApplicable(t) ==
  {Finding("priority-not-applicable", None, e, e.prio) :
     e \in {e \in Entities(t) : ~e.arch /\ ~CarriesOwnPriority(e.kind) /\ e.prio # None}}

\* An area is declared when it is a member or "global", and nothing is without members.
IsValidAreaValue(v, members) == v # None /\ members # {} /\ v \in members \cup {AreaGlobal}
AreaUnknown(t, declared) ==
  {Finding("area-unknown", None, e, e.area) :
     e \in {e \in Entities(t) : declared # {} /\ e.area # None /\ ~e.arch /\ ~IsValidAreaValue(e.area, declared)}}
AreaRequired(t, declared, required) ==
  {Finding("area-required", None, e, None) :
     e \in {e \in Entities(t) : required /\ declared # {} /\ CarriesOwnArea(e.kind) /\ ~e.arch /\ e.area = None}}

entityIDNarrowWidth(t) ==
  {Finding("entity-id-narrow-width", None, e, None) : e \in {e \in Entities(t) : ~e.arch /\ e.narrow}}

\* check.Run over the rules above, and its errors.
Run(t) ==
  idsUnique(t) \cup frontmatterShape(t) \cup statusValid(t) \cup priorityValid(t)
  \cup priorityNotApplicable(t) \cup refsResolve(t) \cup noCycles(t) \cup dependsOnCancelled(t)
  \cup adrSupersessionMutual(t) \cup gapAddressedHasResolver(t) \cup entityIDNarrowWidth(t)
  \cup archivedEntityNotTerminal(t) \cup terminalEntityNotArchived(t)
ErrorsOf(t) == {f \in Run(t) : ~IsWarning(f)}

\* The verbs' gate: the errors of the planned tree that the present one does not
\* report already, in whatever severity.
\* Mutant: errors that were there before block too.
Mut_everyError(before, after) == {f \in ErrorsOf(after) : ~IsCrossBranch(f)}
projectionFindings(before, after) ==
  {f \in ErrorsOf(after) : ~IsCrossBranch(f) /\ f \notin Run(before)}

-----------------------------------------------------------------------------
\* Renumbering: the entity keeps its own references, every other file's references to
\* the old id follow, in the fields the verb knows.
RewrittenFields ==
  {"parent", "superseded_by", "discovered_in", "depends_on", "supersedes", "addressed_by", "relates_to"}

rewriteEntityRefs(e, old, n) ==
  [e EXCEPT !.refs =
     {IF r.field \in RewrittenFields /\ IdOf(r) = old /\ ~IsComposite(r)
      THEN [r EXCEPT !.n = n] ELSE r : r \in @}]

\* Mutant: prior_ids keeps the last id only.
Renumbered(e, n) == [e EXCEPT !.n = n, !.narrow = FALSE, !.prior = @ \cup {e.n}]

Reallocated(fs, e, n) ==
  {Renumbered(e, n)} \cup {rewriteEntityRefs(o, IdOf(e), n) : o \in fs \ {e}}
=============================================================================
