------------------------------ MODULE ScopeLog ------------------------------
(***************************************************************************)
(* Authorization scopes.  A human opens a scope on an epic or a milestone  *)
(* for an agent; the agent's verbs are allowed while an active scope       *)
(* reaches their target.  No scope is stored: `aiwf authorize` writes      *)
(* empty commits with trailers, closing an entity writes aiwf-scope-ends   *)
(* on the closing commit, and every reader replays the branch's history    *)
(* (cli/cliutil/scopes.go).  The gate (verb/allow.go) judges a verb before *)
(* its commit, the standing audit (check/provenance.go) judges every       *)
(* commit again whenever `aiwf check` runs, against the tree of that day.  *)
(*                                                                         *)
(* `log` keeps the commits of one branch that carry a trailer the replays  *)
(* or the audit read; a scope is named by the position of its opener (its  *)
(* auth-sha).                                                              *)
(***************************************************************************)
EXTENDS Naturals, Sequences

CONSTANTS
  Human, Agents,          \* an actor "human/...", and actors "ai/..."
  MaxEpics, MaxMilestones, MaxLedgers,   \* bound: ids per kind (gap and decision: MaxLedgers)
  MaxLog,                 \* bound: commits the log keeps
  Creates,                \* the kinds `aiwf add` is used for
  Renumbering             \* TRUE: entities are reallocated

ASSUME ScopeAssumption ==
  /\ Human \notin Agents
  /\ {MaxEpics, MaxMilestones, MaxLedgers, MaxLog} \subseteq Nat
  /\ MaxEpics >= 2 /\ MaxMilestones >= 1 /\ MaxLog >= 1
  /\ Creates \subseteq {"milestone", "gap", "decision"}
  /\ Renumbering \in BOOLEAN

VARIABLES
  tree,   \* the planning tree: id -> entity
  log     \* the commits, oldest first

vars == <<tree, log>>

Room(k) ==
  CASE k = "epic" -> MaxEpics [] k = "milestone" -> MaxMilestones [] OTHER -> MaxLedgers

Kinds == {"epic", "milestone", "gap", "decision"}
Ids == UNION {{k} \X (1..Room(k)) : k \in Kinds}
Kind(x) == x[1]
Actors == {Human} \cup Agents
None == <<>>

Entity == [status : {"absent", "live", "terminal"}, parent : Ids \cup {None},
           discoveredIn : Ids \cup {None}, priorIDs : SUBSET Ids]
Absent == [status |-> "absent", parent |-> None, discoveredIn |-> None, priorIDs |-> {}]

Exists(x) == tree[x].status # "absent"
Live(x) == tree[x].status = "live"

\* `aiwf authorize` opens on these only.
Scopable(x) == Kind(x) \in {"epic", "milestone"}

\* The highest of some positions or numbers, 0 for none.
Latest(S) == IF S = {} THEN 0 ELSE CHOOSE n \in S : \A o \in S : o <= n

\* Highest allocated number of the kind, plus one.
AllocateID(k) == <<k, 1 + Latest({n \in 1..Room(k) : Exists(<<k, n>>)})>>

\* A commit's trailers; `ends` are its aiwf-scope-ends, `auth` its
\* aiwf-authorized-by (with aiwf-on-behalf-of), 0 for none.
Trailers(verb, x, actor) ==
  [verb |-> verb, entity |-> x, actor |-> actor, to |-> Human, scope |-> "",
   ends |-> {}, prior |-> None, auth |-> 0, force |-> FALSE]

Commits(h) == DOMAIN h
Openers(h) == {p \in Commits(h) : h[p].verb = "authorize" /\ h[p].scope = "opened"}
Scoped(h) == {h[p].entity : p \in Openers(h)}
-----------------------------------------------------------------------------
(* The replay: the scopes of one entity, by the state they are in.         *)

NoScopes == [active |-> {}, paused |-> {}, ended |-> {}]

IsLegalScopeTransition(from, to) ==
  \/ from = "active" /\ to \in {"paused", "ended"}
  \/ from = "paused" /\ to \in {"active", "ended"}

Put(s, P, to) ==
  [active |-> IF to = "active" THEN s.active \cup P ELSE s.active \ P,
   paused |-> IF to = "paused" THEN s.paused \cup P ELSE s.paused \ P,
   ended  |-> IF to = "ended"  THEN s.ended  \cup P ELSE s.ended  \ P]

Opened(s) == s.active \cup s.paused \cup s.ended

\* The most recently opened scope in that state, if any.
mostRecent(s, state) == {p \in s[state] : \A q \in s[state] : q <= p}

\* Mutant: a pause takes the last scope opened, whatever its state.
Mut_pauseAny(s, c, k) ==
  LET moved == CASE c.scope = "opened"  -> Put(s, {k}, "active")
                 [] c.scope = "paused"  -> Put(s, {Latest(Opened(s))}, "paused")
                 [] c.scope = "resumed" -> Put(s, mostRecent(s, "paused"), "active")
                 [] OTHER               -> s
  IN Put(moved, c.ends \cap Opened(s), "ended")

\* Mutant: the replay pauses the oldest active scope.
Mut_pauseOldest(s, c, k) ==
  LET oldest == {p \in s.active : \A q \in s.active : p <= q}
      moved == CASE c.scope = "opened"  -> Put(s, {k}, "active")
                 [] c.scope = "paused"  -> Put(s, oldest, "paused")
                 [] c.scope = "resumed" -> Put(s, mostRecent(s, "paused"), "active")
                 [] OTHER               -> s
  IN Put(moved, c.ends \cap Opened(s), "ended")

\* One commit of the entity, the one at position k.
ReplayCommit(s, c, k) ==
  LET moved == CASE c.scope = "opened"  -> Put(s, {k}, "active")
                 [] c.scope = "paused"  -> Put(s, mostRecent(s, "active"), "paused")
                 [] c.scope = "resumed" -> Put(s, mostRecent(s, "paused"), "active")
                 [] OTHER               -> s
  IN Put(moved, c.ends \cap Opened(s), "ended")

\* LoadEntityScopes: the replay of the commits whose aiwf-entity names x, and
\* x alone: not the ids x had before a reallocation.
Replayed(h, x) ==
  LET after[k \in 0..Len(h)] ==
        IF k = 0 THEN NoScopes
        ELSE IF h[k].entity = x THEN ReplayCommit(after[k - 1], h[k], k)
        ELSE after[k - 1]
  IN after

ReplayScopes(h, x) == Replayed(h, x)[Len(h)]

ScopesOf(x) == ReplayScopes(log, x)

\* readPriorEntityNewID: the id the latest reallocation of x gave it.
NextID(h, x) ==
  LET renumberings == {k \in Commits(h) : h[k].prior = x} IN
  IF renumberings = {} THEN x ELSE h[Latest(renumberings)].entity

\* Mutant: one reallocation is followed, a second is not.
Mut_oneHop(h, x) == NextID(h, x)

\* ResolveCurrentEntityID: a reallocation always takes a higher number, so the
\* chain has no cycle.
CurrentID(h, x) ==
  LET current[y \in Ids] == IF NextID(h, y) = y THEN y ELSE current[NextID(h, y)]
  IN current[x]
-----------------------------------------------------------------------------
(* The gate.                                                               *)

\* A milestone's parent is an epic, and nothing else has one.
parentChainReaches(x, s) == x = s \/ (x \in Ids /\ tree[x].parent = s)

ReachesScope(x, s) ==
  \/ parentChainReaches(x, s)
  \/ x \in Ids /\ tree[x].discoveredIn # None /\ parentChainReaches(tree[x].discoveredIn, s)

\* Mutant: scopes are loaded whatever their state.
Mut_anyState(a) == {p \in Openers(log) : log[p].to = a}

\* loadActiveScopesForActor.
ActiveScopes(a) ==
  {p \in UNION {ScopesOf(x).active : x \in Scoped(log)} : log[p].to = a}

\* The order of that slice: by the entity's first opener for the agent, then
\* by opener.
ListedBefore(p, q) ==
  LET first(o) == CHOOSE f \in Openers(log) :
                    /\ log[f].to = log[o].to /\ log[f].entity = log[o].entity
                    /\ \A g \in Openers(log) :
                         (log[g].to = log[o].to /\ log[g].entity = log[o].entity) => f <= g
  IN first(p) < first(q) \/ (first(p) = first(q) /\ p < q)

\* AllowInput: what the verb does, for the gate.
Acting(x) == [kind |-> "act", target |-> x, source |-> None, refs |-> {}]
Creating(refs) == [kind |-> "create", target |-> None, source |-> None, refs |-> refs]
Moving(source, target) == [kind |-> "move", target |-> target, source |-> source, refs |-> {}]

\* Both ends of a move must be within the scope, and one reference of a
\* creation.
scopeAllowsAct(s, in) ==
  CASE in.kind = "create" -> \E ref \in in.refs : ReachesScope(ref, s)
    [] in.kind = "move"   -> ReachesScope(in.source, s) /\ ReachesScope(in.target, s)
    [] OTHER              -> ReachesScope(in.target, s)

\* For an agent: the last listed scope that allows it.
Allow(a, in) ==
  LET fits == {p \in ActiveScopes(a) : scopeAllowsAct(CurrentID(log, log[p].entity), in)} IN
  {p \in fits : \A q \in fits : ~ListedBefore(p, q)}

\* The commits that may result: the one asked for by a human, the one that
\* names the scope for an agent, none when the gate refuses.
gateAndDecorate(actor, in, c) ==
  IF actor = Human THEN {c} ELSE {[c EXCEPT !.auth = p] : p \in Allow(actor, in)}

\* A commit none of whose trailers the replays or the audit read is not kept.
Kept(c) == c.scope # "" \/ c.ends # {} \/ c.prior # None \/ c.auth # 0

Record(c) ==
  /\ Len(log) < MaxLog
  /\ log' = IF Kept(c) THEN Append(log, c) ELSE log
-----------------------------------------------------------------------------
(* aiwf authorize, for humans only.  The branch-context preflight of an    *)
(* open is not modelled: it looks at the checkout's branch name.           *)

Authorized(x, scope) == [Trailers("authorize", x, Human) EXCEPT !.scope = scope]

\* An entity that is closed needs --force, and it is given only then.
AuthorizeOpen(x, a) ==
  /\ Exists(x) /\ Scopable(x)
  /\ Record([Authorized(x, "opened") EXCEPT !.to = a, !.force = ~Live(x)])
  /\ UNCHANGED tree

mostRecentScopeInState(x, state) == mostRecent(ScopesOf(x), state)

AuthorizePause(x) ==
  /\ Exists(x)
  /\ mostRecentScopeInState(x, "active") # {}
  /\ Record(Authorized(x, "paused"))
  /\ UNCHANGED tree

AuthorizeResume(x) ==
  /\ Exists(x)
  /\ mostRecentScopeInState(x, "paused") # {}
  /\ Record(Authorized(x, "resumed"))
  /\ UNCHANGED tree

\* --end names a scope; without --scope it is the only one not ended.  An
\* ended one converges without a commit.
AuthorizeEnd(x, p) ==
  /\ Exists(x)
  /\ p \in ScopesOf(x).active \cup ScopesOf(x).paused
  /\ Record([Authorized(x, "") EXCEPT !.ends = {p}])
  /\ UNCHANGED tree
-----------------------------------------------------------------------------
(* The verbs that pass the gate.                                           *)

\* Any verb on an existing entity that changes neither its standing nor its
\* place: edit-body, rename, a criterion, a non-closing promote; or that closes
\* a gap or a decision, whose standing nothing here reads.
Act(a, x) ==
  /\ Exists(x)
  /\ \E c \in gateAndDecorate(a, Acting(x), Trailers("act", x, a)) : Record(c)
  /\ UNCHANGED tree

\* Mutant: before ADR-0047, only active scopes were ended.
Mut_endActiveOnly(x) == ScopesOf(x).active

loadEndableScopeAuthSHAsForEntity(x) == ScopesOf(x).active \cup ScopesOf(x).paused

Children(e) == {m \in Ids : Live(m) /\ tree[m].parent = e}

\* promote to a terminal status, or cancel.  A forced promote may take an
\* entity from one terminal status to another.
Close(actor, x) ==
  LET c == [Trailers("promote", x, actor) EXCEPT !.ends = loadEndableScopeAuthSHAsForEntity(x)]
  IN
  /\ Exists(x) /\ Scopable(x)
  /\ Live(x) \/ actor = Human
  /\ Kind(x) = "epic" => actor = Human /\ Children(x) = {}
  /\ \E d \in gateAndDecorate(actor, Acting(x), c) : Record(d)
  /\ tree' = [tree EXCEPT ![x].status = "terminal"]

\* promote --force away from a terminal status; under a closed epic the
\* projection refuses it.  It does not resurrect a scope.
Reopen(x) ==
  /\ tree[x].status = "terminal"
  /\ tree[x].parent # None => Live(tree[x].parent)
  /\ tree' = [tree EXCEPT ![x].status = "live"]
  /\ UNCHANGED log

Move(actor, m, e) ==
  /\ Exists(m) /\ Exists(e) /\ tree[m].parent # e
  /\ Live(m) => Live(e)
  /\ \E c \in gateAndDecorate(actor, Moving(tree[m].parent, e), Trailers("move", m, actor)) :
       Record(c)
  /\ tree' = [tree EXCEPT ![m].parent = e]

\* `link` is the epic of a milestone, the discovered_in of a gap, or the
\* relates_to of a decision: the creation reference the gate looks at.  A gap
\* is discovered in an epic or a milestone.
Add(actor, k, link) ==
  LET x == AllocateID(k) IN
  /\ Exists(link) /\ x \in Ids
  /\ k = "milestone" => Kind(link) = "epic" /\ Live(link)
  /\ k = "gap" => Scopable(link)
  /\ \E c \in gateAndDecorate(actor, Creating({link}), Trailers("add", x, actor)) : Record(c)
  /\ tree' = [tree EXCEPT ![x] =
       [status |-> "live", parent |-> IF k = "milestone" THEN link ELSE None,
        discoveredIn |-> IF k = "gap" THEN link ELSE None, priorIDs |-> {}]]

\* The tree with x under a new id, and every reference to the old one
\* rewritten.
Renumbered(x, new) ==
  LET renamed(y) == IF y = x THEN new ELSE y
      moved == [tree EXCEPT ![new] = [tree[x] EXCEPT !.priorIDs = @ \cup {x}], ![x] = Absent]
  IN [y \in Ids |-> [moved[y] EXCEPT !.parent = renamed(@), !.discoveredIn = renamed(@)]]

Reallocate(actor, x) ==
  LET new == AllocateID(Kind(x)) IN
  /\ Renumbering /\ Exists(x) /\ new \in Ids
  /\ \E c \in gateAndDecorate(actor, Acting(x),
                [Trailers("reallocate", new, actor) EXCEPT !.prior = x]) : Record(c)
  /\ tree' = Renumbered(x, new)
-----------------------------------------------------------------------------
\* A project under way: two epics, a milestone of the first, and a scope just
\* opened on the first.
Init ==
  LET live(parent) == [Absent EXCEPT !.status = "live", !.parent = parent] IN
  /\ tree = [x \in Ids |-> CASE x \in {<<"epic", 1>>, <<"epic", 2>>} -> live(None)
                             [] x = <<"milestone", 1>> -> live(<<"epic", 1>>)
                             [] OTHER -> Absent]
  /\ \E a \in Agents : log = <<[Authorized(<<"epic", 1>>, "opened") EXCEPT !.to = a]>>

Authorize(x) ==
  \/ \E a \in Agents : AuthorizeOpen(x, a)
  \/ AuthorizePause(x) \/ AuthorizeResume(x)
  \/ \E p \in Openers(log) : AuthorizeEnd(x, p)

Verb(actor) ==
  \/ \E x \in Ids : Close(actor, x) \/ Reallocate(actor, x)
  \/ \E m, e \in Ids : Kind(m) = "milestone" /\ Kind(e) = "epic" /\ Move(actor, m, e)
  \/ \E k \in Creates, link \in Ids : Add(actor, k, link)

Next ==
  \/ \E x \in Ids : Authorize(x) \/ Reopen(x)
  \/ \E a \in Agents, x \in Ids : Act(a, x)
  \/ \E actor \in Actors : Verb(actor)

Spec == Init /\ [][Next]_vars
-----------------------------------------------------------------------------
(* The standing audit: RunProvenance's authorization rules, over the whole *)
(* history and the tree as it is now.                                      *)

\* resolveViaPriorIDs: the entity that lists id among its prior ids.
Lineage(id) ==
  IF \E x \in Ids : id \in tree[x].priorIDs
  THEN CHOOSE x \in Ids : id \in tree[x].priorIDs ELSE id

EndedBefore(p, k) == \E e \in 1..(k - 1) : p \in log[e].ends

AuditFindings(k) ==
  LET c == log[k]
      target == Lineage(c.entity)
      scope == Lineage(CurrentID(log, log[c.auth].entity))
  IN {code \in {"no-active-scope", "missing", "ended", "out-of-scope"} :
        CASE code = "no-active-scope" -> c.actor \in Agents /\ c.auth = 0 /\ c.verb # "authorize"
          [] code = "missing"         -> c.auth # 0 /\ c.auth \notin Openers(log)
          [] code = "ended"           -> c.auth \in Openers(log) /\ EndedBefore(c.auth, k)
          [] code = "out-of-scope"    -> /\ c.auth \in Openers(log)
                                         /\ target # scope /\ ~ReachesScope(target, scope)}
-----------------------------------------------------------------------------
(* Properties.                                                             *)

CommitOK(c) ==
  /\ c.entity \in Ids /\ c.actor \in Actors /\ c.to \in Actors
  /\ c.scope \in {"", "opened", "paused", "resumed"}
  /\ c.ends \subseteq Commits(log) /\ c.auth \in {0} \cup Commits(log)
  /\ c.prior \in Ids \cup {None} /\ c.force \in BOOLEAN

\* The tree holds entities whose references resolve, through every renumbering,
\* and the log well-formed trailers.
TypeOK ==
  /\ tree \in [Ids -> Entity]
  /\ \A x \in Ids : \A y \in {tree[x].parent, tree[x].discoveredIn} \ {None} : Exists(y)
  /\ Len(log) <= MaxLog
  /\ \A k \in Commits(log) : CommitOK(log[k])

\* A commit moves exactly the scopes its verb chose, each along its FSM: a
\* pause or resume the one its picker found, an end the named one, a closure
\* all it listed, and no other commit any.  What was ended stays ended, through
\* reopening and renumbering.
MovesAlongFSM ==
  \A x \in Scoped(log) :
    LET s == ReplayScopes(log, x) t == ReplayScopes(log', x) IN
    \A from, to \in DOMAIN s : s[from] \cap t[to] # {} => from = to \/ IsLegalScopeTransition(from, to)
Departed(x) ==
  LET s == ReplayScopes(log, x) t == ReplayScopes(log', x)
  IN UNION {s[state] \ t[state] : state \in DOMAIN s}
PickedDepart ==
  LET c == log'[Len(log')] IN
  UNION {Departed(x) : x \in Scoped(log)} =
    CASE c.scope = "paused"  -> mostRecentScopeInState(c.entity, "active")
      [] c.scope = "resumed" -> mostRecentScopeInState(c.entity, "paused")
      [] OTHER               -> c.ends
OnlyThePickedMove == [][MovesAlongFSM /\ PickedDepart]_log

\* Closing an entity leaves no scope behind: a scope on a terminal entity is
\* ended, unless it was forced open on it -- as long as the entity still has
\* the id the scope was opened under.
ClosedMeansEnded ==
  \A x \in Scoped(log) :
    tree[x].status = "terminal" =>
      \A p \in ScopesOf(x).active \cup ScopesOf(x).paused : log[p].force

\* A scope follows its entity: however often it is renumbered, the id the
\* gate resolves for a scope names an existing entity.
ScopesFollowRenumbering ==
  \A p \in Openers(log) : Exists(CurrentID(log, log[p].entity))

\* The gate and the audit agree: a commit the gate let through is clean when
\* it lands ("one predicate, two enforcement times", check/provenance.go).
AuditAgreesWithGate ==
  [][(AuditFindings(Len(log)))' = {}]_log

\* docs/design/provenance-model.md: every scope ends "automatically, when the
\* scope-entity reaches a terminal status", the renumbered entity included.
ClosureEndsEveryScope ==
  \A x \in Scoped(log) :
    tree[CurrentID(log, x)].status = "terminal" =>
      \A p \in ScopesOf(x).active \cup ScopesOf(x).paused : log[p].force
=============================================================================
