------------------------------ MODULE Workflow ------------------------------
(***************************************************************************)
(* The closed table of legal and illegal requests that the repository      *)
(* keeps beside its verbs (internal/workflows/spec): which promote and     *)
(* cancel may be asked of an entity, a criterion or a TDD phase in which   *)
(* state, under which preconditions.  The table was written from audits    *)
(* and decisions, not from the verbs; Lifecycle and Planning state that    *)
(* the verbs keep to it.                                                   *)
(***************************************************************************)
EXTENDS EntityFSM

Predicate(subject, op, value) == [subject |-> subject, op |-> op, value |-> value]
Row(k, from, verb, to, outcome, when) ==
  [kind |-> k, from |-> from, verb |-> verb, to |-> to, outcome |-> outcome, when |-> when]

\* One row per target, or one per state.
LegalRows(k, from, verb, targets, when) == {Row(k, from, verb, to, "Legal", when) : to \in targets}
IllegalRows(k, from, verb, targets, when) == {Row(k, from, verb, to, "Illegal", when) : to \in targets}

\* A state with no way out: asking for it again converges, by promote and by
\* cancel; promoting to any of the others is illegal.
Terminals(k, states, others) ==
  UNION {{Row(k, s, "promote", s, "NoOp", {}), Row(k, s, "cancel", s, "NoOp", {})}
           \cup IllegalRows(k, s, "promote", (others \cup states) \ {s}, {}) : s \in states}

AnyChildOpen   == {Predicate("any-child.status", "notin", "milestone-terminal-set")}
AnyACOpen      == {Predicate("any-child-ac.status", "==", "open")}
NoACOpen       == {Predicate("all-children-acs.status", "!=", "open")}
Given(field)   == {Predicate(field, "non-empty", None)}
Missing(field) == {Predicate(field, "==", None)}

epicRules ==
  LegalRows("epic", "proposed", "promote", {"active", "cancelled"}, {}) \cup
  LegalRows("epic", "active", "promote", {"done", "cancelled"}, {}) \cup
  LegalRows("epic", "proposed", "cancel", {"cancelled"}, {}) \cup
  LegalRows("epic", "active", "cancel", {"cancelled"}, {}) \cup
  IllegalRows("epic", "proposed", "cancel", {"cancelled"}, AnyChildOpen) \cup
  IllegalRows("epic", "active", "cancel", {"cancelled"}, AnyChildOpen) \cup
  IllegalRows("epic", "active", "promote", {"done", "cancelled"}, AnyChildOpen) \cup
  Terminals("epic", {"done", "cancelled"}, {"proposed", "active"})

milestoneRules ==
  LegalRows("milestone", "draft", "promote", {"in_progress", "cancelled"}, {}) \cup
  LegalRows("milestone", "draft", "cancel", {"cancelled"}, {}) \cup
  LegalRows("milestone", "in_progress", "promote", {"done", "cancelled"}, NoACOpen) \cup
  LegalRows("milestone", "in_progress", "cancel", {"cancelled"}, {}) \cup
  IllegalRows("milestone", "in_progress", "promote", {"done", "cancelled"}, AnyACOpen) \cup
  IllegalRows("milestone", "in_progress", "cancel", {"cancelled"}, AnyACOpen) \cup
  IllegalRows("milestone", "draft", "promote", {"cancelled"}, AnyACOpen) \cup
  IllegalRows("milestone", "draft", "cancel", {"cancelled"}, AnyACOpen) \cup
  Terminals("milestone", {"done", "cancelled"}, {"draft", "in_progress"})

\* What ADRs and decisions share: an accepted one is not cancelled any more.
RulingRules(k) ==
  LegalRows(k, "proposed", "promote", {"accepted", "rejected"}, {}) \cup
  LegalRows(k, "proposed", "cancel", {"rejected"}, {}) \cup
  IllegalRows(k, "accepted", "cancel", {"rejected"}, {}) \cup
  Terminals(k, {"superseded", "rejected"}, {"proposed", "accepted"})

adrRules ==
  RulingRules("adr") \cup
  LegalRows("adr", "accepted", "promote", {"superseded"}, Given("self.superseded_by")) \cup
  IllegalRows("adr", "accepted", "promote", {"superseded"}, Missing("self.superseded_by"))

decisionRules ==
  RulingRules("decision") \cup LegalRows("decision", "accepted", "promote", {"superseded"}, {})

\* Promoting a gap to wontfix has no row.
gapRules ==
  LegalRows("gap", "open", "promote", {"addressed"}, Given("self.addressed_by")) \cup
  IllegalRows("gap", "open", "promote", {"addressed"}, Missing("self.addressed_by")) \cup
  LegalRows("gap", "open", "cancel", {"wontfix"}, {}) \cup
  Terminals("gap", {"addressed", "wontfix"}, {"open"})

contractRules ==
  LegalRows("contract", "proposed", "promote", {"accepted", "rejected"}, {}) \cup
  LegalRows("contract", "proposed", "cancel", {"rejected"}, {}) \cup
  LegalRows("contract", "accepted", "promote", {"deprecated", "rejected"}, {}) \cup
  LegalRows("contract", "accepted", "cancel", {"rejected"}, {}) \cup
  LegalRows("contract", "deprecated", "promote", {"retired"}, {}) \cup
  LegalRows("contract", "deprecated", "cancel", {"retired"}, {}) \cup
  Terminals("contract", {"retired", "rejected"}, {"proposed", "accepted", "deprecated"})

\* Promoting a criterion to cancelled has no row.
acRules ==
  LegalRows("ac", "open", "promote", {"met"}, {Predicate("parent.tdd", "!=", "required")}) \cup
  LegalRows("ac", "open", "promote", {"met"}, {Predicate("parent.tdd", "==", "required"),
                                           Predicate("self.tdd_phase", "==", "done")}) \cup
  IllegalRows("ac", "open", "promote", {"met"}, {Predicate("parent.tdd", "==", "required"),
                                             Predicate("self.tdd_phase", "!=", "done")}) \cup
  LegalRows("ac", "open", "promote", {"deferred"}, {}) \cup
  LegalRows("ac", "open", "cancel", {"cancelled"}, {}) \cup
  LegalRows("ac", "met", "promote", {"deferred"}, {}) \cup
  LegalRows("ac", "met", "cancel", {"cancelled"}, {}) \cup
  Terminals("ac", {"deferred", "cancelled"}, {"open", "met"})

tddPhaseRules ==
  (UNION {{Row("tdd-phase", p, "promote", p, "NoOp", Missing("self.tests")),
           Row("tdd-phase", p, "promote", p, "Illegal", Given("self.tests"))}
          : p \in TDDPhases \ {None}}) \cup
  LegalRows("tdd-phase", None, "promote", {"red"}, {}) \cup
  LegalRows("tdd-phase", "red", "promote", {"green"}, {}) \cup
  LegalRows("tdd-phase", "green", "promote", {"refactor", "done"}, {}) \cup
  LegalRows("tdd-phase", "refactor", "promote", {"done"}, {}) \cup
  IllegalRows("tdd-phase", "done", "promote", {"red", "green", "refactor"}, {})

Rules ==
  epicRules \cup milestoneRules \cup adrRules \cup gapRules \cup decisionRules \cup
  contractRules \cup acRules \cup tddPhaseRules

-----------------------------------------------------------------------------
(* Evaluation.  A context holds what a request's predicates may read: the  *)
(* statuses of an epic's children and of a milestone's criteria, the       *)
(* resolver fields, the policy and phase a criterion stands under, and the *)
(* test metrics supplied.                                                  *)

NoContext == [children |-> {}, acs |-> {}, addressed_by |-> {}, superseded_by |-> {},
              tdd |-> None, phase |-> None, tests |-> None]

cmpString(op, got, want) ==
  \/ op = "==" /\ got = want
  \/ op = "!=" /\ got # want
  \/ op = "non-empty" /\ got # None

\* The table compares lists with the empty one only.
cmpStringSlice(op, got) == IF op = "==" THEN got = {} ELSE got # {}

namedStatusSets == [x \in {"milestone-terminal-set"} |-> {"done", "cancelled"}]
cmpStatusNamedSet(op, status, set) ==
  IF op = "in" THEN status \in namedStatusSets[set] ELSE status \notin namedStatusSets[set]

EvaluatePredicate(p, c) ==
  CASE p.subject = "self.tests"         -> cmpString(p.op, c.tests, p.value)
    [] p.subject = "self.tdd_phase"     -> cmpString(p.op, c.phase, p.value)
    [] p.subject = "parent.tdd"         -> cmpString(p.op, c.tdd, p.value)
    [] p.subject = "self.addressed_by"  -> cmpStringSlice(p.op, c.addressed_by)
    [] p.subject = "self.superseded_by" -> cmpStringSlice(p.op, c.superseded_by)
    [] p.subject = "any-child.status"   -> \E s \in c.children : cmpStatusNamedSet(p.op, s, p.value)
    [] p.subject = "any-child-ac.status"     -> \E s \in c.acs : cmpString(p.op, s, p.value)
    [] p.subject = "all-children-acs.status" -> \A s \in c.acs : cmpString(p.op, s, p.value)

LookupRules(k, from, verb) == {r \in Rules : r.kind = k /\ r.from = from /\ r.verb = verb}

\* All predicates of a row must hold; "read all rows for a request: a Legal row
\* is not standalone permission" (the rendered reference of the table).
Matching(k, from, verb, to, c) ==
  {r \in LookupRules(k, from, verb) : r.to = to /\ \A p \in r.when : EvaluatePredicate(p, c)}
Listed(k, from, verb, to) == \E r \in LookupRules(k, from, verb) : r.to = to

Forbidden(k, from, verb, to, c) == \E r \in Matching(k, from, verb, to, c) : r.outcome = "Illegal"
Offered(k, from, verb, to, c) ==
  /\ \E r \in Matching(k, from, verb, to, c) : r.outcome = "Legal"
  /\ ~Forbidden(k, from, verb, to, c)

\* An unforced request may end in this outcome: it matches no Illegal row, and
\* where the table lists the request, a row with that outcome.
MayEnd(k, from, verb, to, c, outcome) ==
  /\ ~Forbidden(k, from, verb, to, c)
  /\ Listed(k, from, verb, to) => \E r \in Matching(k, from, verb, to, c) : r.outcome = outcome
=============================================================================
