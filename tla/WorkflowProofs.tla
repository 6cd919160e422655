--------------------------- MODULE WorkflowProofs ---------------------------
(***************************************************************************)
(* Lemmas about the table of legal requests, row by row: what a request    *)
(* of each kind has to meet to keep to it.                                 *)
(***************************************************************************)
EXTENDS Workflow, TLAPS

LEMMA RowFields ==
  \A k, from, verb, to, outcome, when :
    LET r == Row(k, from, verb, to, outcome, when) IN
    /\ r.kind = k /\ r.from = from /\ r.verb = verb /\ r.to = to
    /\ r.outcome = outcome /\ r.when = when
BY DEF Row

LEMMA RowSets ==
  /\ \A k, from, verb, T, when, r :
       r \in LegalRows(k, from, verb, T, when)
         <=> \E to \in T : r = Row(k, from, verb, to, "Legal", when)
  /\ \A k, from, verb, T, when, r :
       r \in IllegalRows(k, from, verb, T, when)
         <=> \E to \in T : r = Row(k, from, verb, to, "Illegal", when)
BY DEF LegalRows, IllegalRows

LEMMA TerminalRows ==
  ASSUME NEW k, NEW S, NEW O, NEW r
  PROVE  r \in Terminals(k, S, O) <=>
           \E s \in S : \/ r = Row(k, s, "promote", s, "NoOp", {})
                        \/ r = Row(k, s, "cancel", s, "NoOp", {})
                        \/ \E to \in (O \cup S) \ {s} : r = Row(k, s, "promote", to, "Illegal", {})
<1>1. r \in Terminals(k, S, O) <=>
        \E s \in S : r \in {Row(k, s, "promote", s, "NoOp", {}), Row(k, s, "cancel", s, "NoOp", {})}
                            \cup IllegalRows(k, s, "promote", (O \cup S) \ {s}, {})
  BY DEF Terminals
<1>2. ASSUME NEW s
      PROVE  r \in IllegalRows(k, s, "promote", (O \cup S) \ {s}, {})
               <=> \E to \in (O \cup S) \ {s} : r = Row(k, s, "promote", to, "Illegal", {})
  BY RowSets
<1> QED
  BY <1>1, <1>2

LEMMA PhaseRows ==
  ASSUME NEW r
  PROVE  r \in tddPhaseRules <=>
           \/ \E p \in TDDPhases \ {None} :
                \/ r = Row("tdd-phase", p, "promote", p, "NoOp", Missing("self.tests"))
                \/ r = Row("tdd-phase", p, "promote", p, "Illegal", Given("self.tests"))
           \/ r \in LegalRows("tdd-phase", None, "promote", {"red"}, {})
           \/ r \in LegalRows("tdd-phase", "red", "promote", {"green"}, {})
           \/ r \in LegalRows("tdd-phase", "green", "promote", {"refactor", "done"}, {})
           \/ r \in LegalRows("tdd-phase", "refactor", "promote", {"done"}, {})
           \/ r \in IllegalRows("tdd-phase", "done", "promote", {"red", "green", "refactor"}, {})
<1> DEFINE stay == UNION {{Row("tdd-phase", p, "promote", p, "NoOp", Missing("self.tests")),
                           Row("tdd-phase", p, "promote", p, "Illegal", Given("self.tests"))}
                          : p \in TDDPhases \ {None}}
<1>1. r \in stay <=> \E p \in TDDPhases \ {None} :
                       \/ r = Row("tdd-phase", p, "promote", p, "NoOp", Missing("self.tests"))
                       \/ r = Row("tdd-phase", p, "promote", p, "Illegal", Given("self.tests"))
  OBVIOUS
<1>2. r \in tddPhaseRules <=>
        \/ r \in stay
        \/ r \in LegalRows("tdd-phase", None, "promote", {"red"}, {})
        \/ r \in LegalRows("tdd-phase", "red", "promote", {"green"}, {})
        \/ r \in LegalRows("tdd-phase", "green", "promote", {"refactor", "done"}, {})
        \/ r \in LegalRows("tdd-phase", "refactor", "promote", {"done"}, {})
        \/ r \in IllegalRows("tdd-phase", "done", "promote", {"red", "green", "refactor"}, {})
  BY DEF tddPhaseRules
<1> HIDE DEF stay
<1> QED
  BY <1>1, <1>2

(* Each kind's rows are of that kind, so a lookup sees one kind's rows.      *)
LEMMA KindOfRows ==
  ASSUME NEW r
  PROVE  /\ r \in epicRules => r.kind = "epic"
         /\ r \in milestoneRules => r.kind = "milestone"
         /\ r \in adrRules => r.kind = "adr"
         /\ r \in gapRules => r.kind = "gap"
         /\ r \in decisionRules => r.kind = "decision"
         /\ r \in contractRules => r.kind = "contract"
         /\ r \in acRules => r.kind = "ac"
         /\ r \in tddPhaseRules => r.kind = "tdd-phase"
<1>1. /\ \A k, from, verb, T, when : r \in LegalRows(k, from, verb, T, when) => r.kind = k
      /\ \A k, from, verb, T, when : r \in IllegalRows(k, from, verb, T, when) => r.kind = k
  BY RowSets, RowFields
<1>2. \A k, S, O : r \in Terminals(k, S, O) => r.kind = k
  BY TerminalRows, RowFields
<1>3. \A k : r \in RulingRules(k) => r.kind = k
  BY <1>1, <1>2 DEF RulingRules
<1>4. r \in epicRules => r.kind = "epic"
  BY <1>1, <1>2 DEF epicRules
<1>5. r \in milestoneRules => r.kind = "milestone"
  BY <1>1, <1>2 DEF milestoneRules
<1>6. r \in adrRules => r.kind = "adr"
  BY <1>1, <1>3 DEF adrRules
<1>7. r \in gapRules => r.kind = "gap"
  BY <1>1, <1>2 DEF gapRules
<1>8. r \in decisionRules => r.kind = "decision"
  BY <1>1, <1>3 DEF decisionRules
<1>9. r \in contractRules => r.kind = "contract"
  BY <1>1, <1>2 DEF contractRules
<1>10. r \in acRules => r.kind = "ac"
  BY <1>1, <1>2 DEF acRules
<1>11. r \in tddPhaseRules => r.kind = "tdd-phase"
  BY <1>1, PhaseRows, RowFields
<1> QED
  BY <1>4, <1>5, <1>6, <1>7, <1>8, <1>9, <1>10, <1>11

LEMMA RulesOfKind ==
  ASSUME NEW r
  PROVE  /\ r.kind = "epic" => (r \in Rules <=> r \in epicRules)
         /\ r.kind = "milestone" => (r \in Rules <=> r \in milestoneRules)
         /\ r.kind = "ac" => (r \in Rules <=> r \in acRules)
         /\ r.kind = "adr" => (r \in Rules <=> r \in adrRules)
         /\ r.kind = "decision" => (r \in Rules <=> r \in decisionRules)
         /\ r.kind = "gap" => (r \in Rules <=> r \in gapRules)
         /\ r.kind = "contract" => (r \in Rules <=> r \in contractRules)
         /\ r.kind = "tdd-phase" => (r \in Rules <=> r \in tddPhaseRules)
BY KindOfRows DEF Rules

(* What the preconditions of these rows mean.                                *)
LEMMA Preconditions ==
  ASSUME NEW c
  PROVE  /\ (\A p \in AnyChildOpen : EvaluatePredicate(p, c))
              <=> \E s \in c.children : s \notin {"done", "cancelled"}
         /\ (\A p \in AnyACOpen : EvaluatePredicate(p, c)) <=> \E s \in c.acs : s = "open"
         /\ (\A p \in NoACOpen : EvaluatePredicate(p, c)) <=> \A s \in c.acs : s # "open"
         /\ (\A p \in Missing("self.tests") : EvaluatePredicate(p, c)) <=> c.tests = None
         /\ (\A p \in Given("self.tests") : EvaluatePredicate(p, c)) <=> c.tests # None
         /\ (\A p \in {Predicate("parent.tdd", "!=", "required")} : EvaluatePredicate(p, c))
              <=> c.tdd # "required"
         /\ (\A p \in {Predicate("parent.tdd", "==", "required"),
                       Predicate("self.tdd_phase", "==", "done")} : EvaluatePredicate(p, c))
              <=> c.tdd = "required" /\ c.phase = "done"
         /\ (\A p \in {Predicate("parent.tdd", "==", "required"),
                       Predicate("self.tdd_phase", "!=", "done")} : EvaluatePredicate(p, c))
              <=> c.tdd = "required" /\ c.phase # "done"
<1>1. ASSUME NEW op, NEW v PROVE
        /\ EvaluatePredicate(Predicate("self.tests", op, v), c) <=> cmpString(op, c.tests, v)
        /\ EvaluatePredicate(Predicate("self.tdd_phase", op, v), c) <=> cmpString(op, c.phase, v)
        /\ EvaluatePredicate(Predicate("parent.tdd", op, v), c) <=> cmpString(op, c.tdd, v)
        /\ EvaluatePredicate(Predicate("any-child.status", op, v), c)
             <=> \E s \in c.children : cmpStatusNamedSet(op, s, v)
        /\ EvaluatePredicate(Predicate("any-child-ac.status", op, v), c)
             <=> \E s \in c.acs : cmpString(op, s, v)
        /\ EvaluatePredicate(Predicate("all-children-acs.status", op, v), c)
             <=> \A s \in c.acs : cmpString(op, s, v)
  BY DEF EvaluatePredicate, Predicate
<1>2. ASSUME NEW got, NEW want PROVE
        /\ cmpString("==", got, want) <=> got = want
        /\ cmpString("!=", got, want) <=> got # want
        /\ cmpString("non-empty", got, want) <=> got # None
  BY DEF cmpString
<1>3. \A s : cmpStatusNamedSet("notin", s, "milestone-terminal-set") <=> s \notin {"done", "cancelled"}
  BY DEF cmpStatusNamedSet, namedStatusSets
<1>4. (\A p \in AnyChildOpen : EvaluatePredicate(p, c))
              <=> \E s \in c.children : s \notin {"done", "cancelled"}
  BY <1>1, <1>3 DEF AnyChildOpen
<1>5. /\ (\A p \in AnyACOpen : EvaluatePredicate(p, c)) <=> \E s \in c.acs : s = "open"
      /\ (\A p \in NoACOpen : EvaluatePredicate(p, c)) <=> \A s \in c.acs : s # "open"
  BY <1>1, <1>2 DEF AnyACOpen, NoACOpen
<1>6. /\ (\A p \in Missing("self.tests") : EvaluatePredicate(p, c)) <=> c.tests = None
      /\ (\A p \in Given("self.tests") : EvaluatePredicate(p, c)) <=> c.tests # None
  BY <1>1, <1>2 DEF Missing, Given
<1> QED
  BY <1>1, <1>2, <1>4, <1>5, <1>6

\* The preconditions of a row hold in c.
Applies(r, c) == \A p \in r.when : EvaluatePredicate(p, c)

(* How a request may be shown to keep to the table.                          *)
LEMMA MayEndIf ==
  ASSUME NEW k, NEW from, NEW verb, NEW to, NEW c, NEW outcome,
         \A r \in Rules : (r.kind = k /\ r.from = from /\ r.verb = verb /\ r.to = to)
                            => r.outcome # "Illegal" \/ ~Applies(r, c),
         \/ \E r \in Rules : /\ r.kind = k /\ r.from = from /\ r.verb = verb /\ r.to = to
                             /\ r.outcome = outcome /\ Applies(r, c)
         \/ \A r \in Rules : ~(r.kind = k /\ r.from = from /\ r.verb = verb /\ r.to = to)
  PROVE  MayEnd(k, from, verb, to, c, outcome)
BY DEF MayEnd, Forbidden, Matching, Listed, LookupRules, Applies

(* Asking an epic for the state it is in converges; closing it is legal once *)
(* no child is open.                                                         *)
LEMMA EpicRequests ==
  ASSUME NEW from \in Statuses("epic"), NEW verb \in {"promote", "cancel"}, NEW c
  PROVE  /\ MayEnd("epic", from, verb, from, c, "NoOp")
         /\ \A to : (/\ ValidateTransition("epic", from, to)
                     /\ verb = "cancel" => to = "cancelled"
                     /\ to \in {"done", "cancelled"} => \A s \in c.children : s \in {"done", "cancelled"})
                  => MayEnd("epic", from, verb, to, c, "Legal")
<1>1. ASSUME NEW r \in epicRules PROVE
        \/ r.to = r.from /\ r.outcome = "NoOp" /\ r.when = {}
        \/ r.to # r.from /\ r.outcome = "Legal"
        \/ r.to # r.from /\ r.outcome = "Illegal" /\ r.when = AnyChildOpen /\ r.to \in {"done", "cancelled"}
        \/ r.to # r.from /\ r.outcome = "Illegal" /\ r.from \in {"done", "cancelled"}
  BY RowSets, TerminalRows, RowFields DEF epicRules
<1>2. /\ Row("epic", "proposed", "promote", "active", "Legal", {}) \in epicRules
      /\ Row("epic", "proposed", "promote", "cancelled", "Legal", {}) \in epicRules
      /\ Row("epic", "active", "promote", "done", "Legal", {}) \in epicRules
      /\ Row("epic", "active", "promote", "cancelled", "Legal", {}) \in epicRules
      /\ Row("epic", "proposed", "cancel", "cancelled", "Legal", {}) \in epicRules
      /\ Row("epic", "active", "cancel", "cancelled", "Legal", {}) \in epicRules
  BY RowSets DEF epicRules
<1>3. MayEnd("epic", from, verb, from, c, "NoOp")
  BY <1>1, RulesOfKind, MayEndIf DEF Applies
<1>4. ASSUME NEW to, ValidateTransition("epic", from, to),
             verb = "cancel" => to = "cancelled",
             to \in {"done", "cancelled"} => \A s \in c.children : s \in {"done", "cancelled"}
      PROVE  MayEnd("epic", from, verb, to, c, "Legal")
  <2>1. <<from, to>> \in {<<"proposed", "active">>, <<"proposed", "cancelled">>,
                          <<"active", "done">>, <<"active", "cancelled">>}
    BY <1>4 DEF ValidateTransition, AllowedTransitions, Statuses, transitions, EpicFSM
  <2>2. \A r \in Rules : (r.kind = "epic" /\ r.from = from /\ r.verb = verb /\ r.to = to)
                            => r.outcome # "Illegal" \/ ~Applies(r, c)
    BY <1>1, <1>4, <2>1, RulesOfKind, Preconditions DEF Applies
  <2>3. Row("epic", from, verb, to, "Legal", {}) \in Rules
    BY <1>2, <1>4, <2>1 DEF Rules
  <2> QED
    BY <2>2, <2>3, RowFields, MayEndIf DEF Applies
<1> QED
  BY <1>3, <1>4

LEMMA MilestoneRequests ==
  ASSUME NEW from \in Statuses("milestone"), NEW verb \in {"promote", "cancel"}, NEW c
  PROVE  /\ MayEnd("milestone", from, verb, from, c, "NoOp")
         /\ \A to : (/\ ValidateTransition("milestone", from, to)
                     /\ verb = "cancel" => to = "cancelled"
                     /\ to \in {"done", "cancelled"} => \A s \in c.acs : s # "open")
                  => MayEnd("milestone", from, verb, to, c, "Legal")
<1>1. ASSUME NEW r \in milestoneRules PROVE
        \/ r.to = r.from /\ r.outcome = "NoOp" /\ r.when = {}
        \/ r.to # r.from /\ r.outcome = "Legal"
        \/ r.to # r.from /\ r.outcome = "Illegal" /\ r.when = AnyACOpen /\ r.to \in {"done", "cancelled"}
        \/ r.to # r.from /\ r.outcome = "Illegal" /\ r.from \in {"done", "cancelled"}
  BY RowSets, TerminalRows, RowFields DEF milestoneRules
<1>2. /\ Row("milestone", "draft", "promote", "in_progress", "Legal", {}) \in milestoneRules
      /\ Row("milestone", "draft", "promote", "cancelled", "Legal", {}) \in milestoneRules
      /\ Row("milestone", "in_progress", "promote", "done", "Legal", NoACOpen) \in milestoneRules
      /\ Row("milestone", "in_progress", "promote", "cancelled", "Legal", NoACOpen) \in milestoneRules
      /\ Row("milestone", "draft", "cancel", "cancelled", "Legal", {}) \in milestoneRules
      /\ Row("milestone", "in_progress", "cancel", "cancelled", "Legal", {}) \in milestoneRules
  BY RowSets DEF milestoneRules
<1>3. MayEnd("milestone", from, verb, from, c, "NoOp")
  BY <1>1, RulesOfKind, MayEndIf DEF Applies
<1>4. ASSUME NEW to, ValidateTransition("milestone", from, to),
             verb = "cancel" => to = "cancelled",
             to \in {"done", "cancelled"} => \A s \in c.acs : s # "open"
      PROVE  MayEnd("milestone", from, verb, to, c, "Legal")
  <2>1. <<from, to>> \in {<<"draft", "in_progress">>, <<"draft", "cancelled">>,
                          <<"in_progress", "done">>, <<"in_progress", "cancelled">>}
    BY <1>4 DEF ValidateTransition, AllowedTransitions, Statuses, transitions, MilestoneFSM
  <2>2. \A r \in Rules : (r.kind = "milestone" /\ r.from = from /\ r.verb = verb /\ r.to = to)
                            => r.outcome # "Illegal" \/ ~Applies(r, c)
    BY <1>1, <1>4, <2>1, RulesOfKind, Preconditions DEF Applies
  <2>3. CASE from = "in_progress" /\ verb = "promote"
    <3>1. Row("milestone", from, verb, to, "Legal", NoACOpen) \in Rules
      BY <1>2, <2>1, <2>3 DEF Rules
    <3>2. \A p \in NoACOpen : EvaluatePredicate(p, c)
      BY <1>4, <2>1, <2>3, Preconditions
    <3> QED
      BY <2>2, <3>1, <3>2, RowFields, MayEndIf DEF Applies
  <2>4. CASE ~(from = "in_progress" /\ verb = "promote")
    <3>1. Row("milestone", from, verb, to, "Legal", {}) \in Rules
      BY <1>2, <1>4, <2>1, <2>4 DEF Rules
    <3> QED
      BY <2>2, <3>1, RowFields, MayEndIf DEF Applies
  <2> QED
    BY <2>3, <2>4
<1> QED
  BY <1>3, <1>4

LEMMA ACRequests ==
  ASSUME NEW from \in ACStatuses, NEW verb \in {"promote", "cancel"}, NEW c
  PROVE  /\ MayEnd("ac", from, verb, from, c, "NoOp")
         /\ \A to : (/\ IsLegalACTransition(from, to)
                     /\ verb = "cancel" => to = "cancelled"
                     /\ to = "met" /\ c.tdd = "required" => c.phase = "done")
                  => MayEnd("ac", from, verb, to, c, "Legal")
<1> DEFINE untested == {Predicate("parent.tdd", "!=", "required")}
           tested == {Predicate("parent.tdd", "==", "required"), Predicate("self.tdd_phase", "==", "done")}
           unfinished == {Predicate("parent.tdd", "==", "required"), Predicate("self.tdd_phase", "!=", "done")}
<1>0. /\ (\A p \in untested : EvaluatePredicate(p, c)) <=> c.tdd # "required"
      /\ (\A p \in tested : EvaluatePredicate(p, c)) <=> c.tdd = "required" /\ c.phase = "done"
      /\ (\A p \in unfinished : EvaluatePredicate(p, c)) <=> c.tdd = "required" /\ c.phase # "done"
  BY Preconditions
<1>r. acRules =
        LegalRows("ac", "open", "promote", {"met"}, untested) \cup
        LegalRows("ac", "open", "promote", {"met"}, tested) \cup
        IllegalRows("ac", "open", "promote", {"met"}, unfinished) \cup
        LegalRows("ac", "open", "promote", {"deferred"}, {}) \cup
        LegalRows("ac", "open", "cancel", {"cancelled"}, {}) \cup
        LegalRows("ac", "met", "promote", {"deferred"}, {}) \cup
        LegalRows("ac", "met", "cancel", {"cancelled"}, {}) \cup
        Terminals("ac", {"deferred", "cancelled"}, {"open", "met"})
  BY DEF acRules
<1> HIDE DEF untested, tested, unfinished
<1>1. ASSUME NEW r \in acRules PROVE
        \/ r.to = r.from /\ r.outcome = "NoOp" /\ r.when = {}
        \/ r.to # r.from /\ r.outcome = "Legal" /\ (r.verb = "promote" => r.to # "cancelled")
        \/ r.to = "met" /\ r.from = "open" /\ r.outcome = "Illegal" /\ r.when = unfinished
        \/ r.to # r.from /\ r.outcome = "Illegal" /\ r.from \in {"deferred", "cancelled"}
  BY <1>r, RowSets, TerminalRows, RowFields
<1>2. /\ Row("ac", "open", "promote", "met", "Legal", untested) \in acRules
      /\ Row("ac", "open", "promote", "met", "Legal", tested) \in acRules
      /\ Row("ac", "open", "promote", "deferred", "Legal", {}) \in acRules
      /\ Row("ac", "open", "cancel", "cancelled", "Legal", {}) \in acRules
      /\ Row("ac", "met", "promote", "deferred", "Legal", {}) \in acRules
      /\ Row("ac", "met", "cancel", "cancelled", "Legal", {}) \in acRules
  BY <1>r, RowSets
<1>3. MayEnd("ac", from, verb, from, c, "NoOp")
  BY <1>1, RulesOfKind, MayEndIf DEF Applies
<1>4. ASSUME NEW to, IsLegalACTransition(from, to), verb = "cancel" => to = "cancelled",
             to = "met" /\ c.tdd = "required" => c.phase = "done"
      PROVE  MayEnd("ac", from, verb, to, c, "Legal")
  <2>1. <<from, to>> \in {<<"open", "met">>, <<"open", "deferred">>, <<"open", "cancelled">>,
                          <<"met", "deferred">>, <<"met", "cancelled">>}
    BY <1>4 DEF IsLegalACTransition, acTransitions, ACStatuses
  <2>2. \A r \in Rules : (r.kind = "ac" /\ r.from = from /\ r.verb = verb /\ r.to = to)
                            => r.outcome # "Illegal" \/ ~Applies(r, c)
    BY <1>0, <1>1, <1>4, <2>1, RulesOfKind DEF Applies
  <2>3. CASE verb = "promote" /\ to = "cancelled"
    BY <1>1, <2>1, <2>2, <2>3, RulesOfKind, MayEndIf
  <2>4. CASE ~(verb = "promote" /\ to = "cancelled")
    <3>1. \E when : /\ Row("ac", from, verb, to, "Legal", when) \in Rules
                    /\ \A p \in when : EvaluatePredicate(p, c)
      BY <1>0, <1>2, <1>4, <2>1, <2>4 DEF Rules
    <3> QED
      BY <2>2, <3>1, RowFields, MayEndIf DEF Applies
  <2> QED
    BY <2>3, <2>4
<1> QED
  BY <1>3, <1>4

LEMMA PhaseRequests ==
  ASSUME NEW from \in TDDPhases, NEW to \in TDDPhases, NEW c, c.tests = None
  PROVE  /\ from # None => MayEnd("tdd-phase", from, "promote", from, c, "NoOp")
         /\ IsLegalTDDPhaseTransition(from, to) => MayEnd("tdd-phase", from, "promote", to, c, "Legal")
<1>1. ASSUME NEW r \in tddPhaseRules PROVE
        \/ r.to = r.from /\ r.outcome = "NoOp"
        \/ r.to = r.from /\ r.outcome = "Illegal" /\ r.when = Given("self.tests")
        \/ r.to # r.from /\ r.outcome = "Legal"
        \/ r.outcome = "Illegal" /\ r.from = "done" /\ r.to # r.from
  <2>1. CASE \E p \in TDDPhases \ {None} :
               \/ r = Row("tdd-phase", p, "promote", p, "NoOp", Missing("self.tests"))
               \/ r = Row("tdd-phase", p, "promote", p, "Illegal", Given("self.tests"))
    BY <2>1, RowFields
  <2>2. CASE \/ r \in LegalRows("tdd-phase", None, "promote", {"red"}, {})
             \/ r \in LegalRows("tdd-phase", "red", "promote", {"green"}, {})
             \/ r \in LegalRows("tdd-phase", "green", "promote", {"refactor", "done"}, {})
             \/ r \in LegalRows("tdd-phase", "refactor", "promote", {"done"}, {})
    <3>1. \/ \E q \in {"red"} : r = Row("tdd-phase", None, "promote", q, "Legal", {})
          \/ \E q \in {"green"} : r = Row("tdd-phase", "red", "promote", q, "Legal", {})
          \/ \E q \in {"refactor", "done"} : r = Row("tdd-phase", "green", "promote", q, "Legal", {})
          \/ \E q \in {"done"} : r = Row("tdd-phase", "refactor", "promote", q, "Legal", {})
      BY <2>2, RowSets
    <3>2. \E p, q : p # q /\ r = Row("tdd-phase", p, "promote", q, "Legal", {})
      BY <3>1 DEF None
    <3>3. PICK p, q : p # q /\ r = Row("tdd-phase", p, "promote", q, "Legal", {})
      BY <3>2
    <3>4. r.from = p /\ r.to = q /\ r.outcome = "Legal"
      BY <3>3, RowFields
    <3> QED
      BY <3>3, <3>4
  <2>3. CASE r \in IllegalRows("tdd-phase", "done", "promote", {"red", "green", "refactor"}, {})
    <3>1. \E q \in {"red", "green", "refactor"} :
            r = Row("tdd-phase", "done", "promote", q, "Illegal", {})
      BY <2>3, RowSets
    <3> QED
      BY <3>1, RowFields
  <2> QED
    BY <2>1, <2>2, <2>3, PhaseRows
<1>2. /\ \A p \in TDDPhases \ {None} :
           Row("tdd-phase", p, "promote", p, "NoOp", Missing("self.tests")) \in tddPhaseRules
      /\ Row("tdd-phase", None, "promote", "red", "Legal", {}) \in tddPhaseRules
      /\ Row("tdd-phase", "red", "promote", "green", "Legal", {}) \in tddPhaseRules
      /\ Row("tdd-phase", "green", "promote", "refactor", "Legal", {}) \in tddPhaseRules
      /\ Row("tdd-phase", "green", "promote", "done", "Legal", {}) \in tddPhaseRules
      /\ Row("tdd-phase", "refactor", "promote", "done", "Legal", {}) \in tddPhaseRules
  BY PhaseRows, RowSets
<1>3. ASSUME NEW s, <<from, s>> \in {<<None, "red">>, <<"red", "green">>, <<"green", "refactor">>,
                                    <<"green", "done">>, <<"refactor", "done">>} \/ s = from
      PROVE  \A r \in Rules : (r.kind = "tdd-phase" /\ r.from = from /\ r.verb = "promote" /\ r.to = s)
                                => r.outcome # "Illegal" \/ ~Applies(r, c)
  BY <1>1, <1>3, RulesOfKind, Preconditions DEF Applies, None
<1>4. from # None => MayEnd("tdd-phase", from, "promote", from, c, "NoOp")
  <2> SUFFICES ASSUME from # None PROVE MayEnd("tdd-phase", from, "promote", from, c, "NoOp")
    OBVIOUS
  <2>1. Row("tdd-phase", from, "promote", from, "NoOp", Missing("self.tests")) \in Rules
    BY <1>2 DEF Rules
  <2> QED
    BY <1>3, <2>1, RowFields, Preconditions, MayEndIf DEF Applies
<1>5. IsLegalTDDPhaseTransition(from, to) => MayEnd("tdd-phase", from, "promote", to, c, "Legal")
  <2> SUFFICES ASSUME IsLegalTDDPhaseTransition(from, to)
               PROVE  MayEnd("tdd-phase", from, "promote", to, c, "Legal")
    OBVIOUS
  <2>1. <<from, to>> \in {<<None, "red">>, <<"red", "green">>, <<"green", "refactor">>,
                          <<"green", "done">>, <<"refactor", "done">>}
    BY DEF IsLegalTDDPhaseTransition, tddPhaseTransitions, TDDPhases, None
  <2>2. Row("tdd-phase", from, "promote", to, "Legal", {}) \in Rules
    BY <1>2, <2>1 DEF Rules
  <2> QED
    BY <1>3, <2>1, <2>2, RowFields, MayEndIf DEF Applies
<1> QED
  BY <1>4, <1>5

(* The resolver fields a row asks for.                                       *)
LEMMA ResolverPreconditions ==
  ASSUME NEW c
  PROVE  /\ (\A p \in Given("self.superseded_by") : EvaluatePredicate(p, c)) <=> c.superseded_by # {}
         /\ (\A p \in Missing("self.superseded_by") : EvaluatePredicate(p, c)) <=> c.superseded_by = {}
         /\ (\A p \in Given("self.addressed_by") : EvaluatePredicate(p, c)) <=> c.addressed_by # {}
         /\ (\A p \in Missing("self.addressed_by") : EvaluatePredicate(p, c)) <=> c.addressed_by = {}
<1>1. ASSUME NEW op, NEW v
      PROVE  /\ EvaluatePredicate(Predicate("self.superseded_by", op, v), c)
                  <=> cmpStringSlice(op, c.superseded_by)
             /\ EvaluatePredicate(Predicate("self.addressed_by", op, v), c)
                  <=> cmpStringSlice(op, c.addressed_by)
  BY DEF EvaluatePredicate, Predicate
<1>2. \A got : (cmpStringSlice("==", got) <=> got = {}) /\ (cmpStringSlice("non-empty", got) <=> got # {})
  BY DEF cmpStringSlice
<1> QED BY <1>1, <1>2 DEF Given, Missing

(* A ruling is superseded by something, and an accepted one is not cancelled. *)
LEMMA RulingRequests ==
  ASSUME NEW k \in {"adr", "decision"}, NEW from \in Statuses(k), NEW verb \in {"promote", "cancel"}, NEW c,
         NEW to, ValidateTransition(k, from, to), verb = "cancel" => from = "proposed" /\ to = "rejected",
         k = "adr" /\ to = "superseded" => c.superseded_by # {}
  PROVE  MayEnd(k, from, verb, to, c, "Legal")
<1> DEFINE given == Given("self.superseded_by")
           missing == Missing("self.superseded_by")
<1>0. ((\A p \in given : EvaluatePredicate(p, c)) <=> c.superseded_by # {})
      /\ ((\A p \in missing : EvaluatePredicate(p, c)) <=> c.superseded_by = {})
  BY ResolverPreconditions
<1>a. adrRules = RulingRules("adr") \cup LegalRows("adr", "accepted", "promote", {"superseded"}, given)
                 \cup IllegalRows("adr", "accepted", "promote", {"superseded"}, missing)
  BY DEF adrRules
<1> HIDE DEF given, missing
<1>1. ASSUME NEW r \in RulingRules(k)
      PROVE  \/ r.outcome # "Illegal"
             \/ r.outcome = "Illegal" /\ r.from = "accepted" /\ r.verb = "cancel"
             \/ r.outcome = "Illegal" /\ r.from \in {"superseded", "rejected"}
  BY RowSets, TerminalRows, RowFields DEF RulingRules
<1>2. /\ Row(k, "proposed", "promote", "accepted", "Legal", {}) \in RulingRules(k)
      /\ Row(k, "proposed", "promote", "rejected", "Legal", {}) \in RulingRules(k)
      /\ Row(k, "proposed", "cancel", "rejected", "Legal", {}) \in RulingRules(k)
  BY RowSets DEF RulingRules
<1>3. <<from, to>> \in {<<"proposed", "accepted">>, <<"proposed", "rejected">>, <<"accepted", "superseded">>}
  BY DEF ValidateTransition, AllowedTransitions, Statuses, transitions, RulingFSM
<1>4. CASE k = "adr"
  <2>1. ASSUME NEW r \in adrRules
        PROVE  \/ r \in RulingRules(k)
               \/ r.outcome # "Illegal"
               \/ r.outcome = "Illegal" /\ r.to = "superseded" /\ r.when = missing
    BY <1>a, <1>4, RowSets, RowFields
  <2>2. \A r \in Rules : (r.kind = k /\ r.from = from /\ r.verb = verb /\ r.to = to)
                            => r.outcome # "Illegal" \/ ~Applies(r, c)
    BY <1>0, <1>1, <1>3, <1>4, <2>1, RulesOfKind DEF Applies
  <2>3. CASE to = "superseded"
    <3>1. Row("adr", "accepted", "promote", "superseded", "Legal", given) \in Rules
      BY <1>a, RowSets DEF Rules
    <3> QED BY <1>0, <1>3, <1>4, <2>2, <2>3, <3>1, RowFields, MayEndIf DEF Applies
  <2>4. CASE to # "superseded"
    <3>1. Row(k, from, verb, to, "Legal", {}) \in Rules
      BY <1>2, <1>3, <1>4, <1>a, <2>4 DEF Rules
    <3> QED BY <2>2, <3>1, RowFields, MayEndIf DEF Applies
  <2> QED BY <2>3, <2>4
<1>5. CASE k = "decision"
  <2>1. ASSUME NEW r \in decisionRules PROVE r \in RulingRules(k) \/ r.outcome # "Illegal"
    BY <1>5, RowSets, RowFields DEF decisionRules
  <2>2. \A r \in Rules : (r.kind = k /\ r.from = from /\ r.verb = verb /\ r.to = to)
                            => r.outcome # "Illegal" \/ ~Applies(r, c)
    BY <1>1, <1>3, <1>5, <2>1, RulesOfKind
  <2>3. Row(k, "accepted", "promote", "superseded", "Legal", {}) \in decisionRules
    BY <1>5, RowSets DEF decisionRules
  <2>4. Row(k, from, verb, to, "Legal", {}) \in Rules
    BY <1>2, <1>3, <1>5, <2>3 DEF Rules, decisionRules
  <2> QED BY <2>2, <2>4, RowFields, MayEndIf DEF Applies
<1> QED BY <1>4, <1>5

(* A gap is addressed by something; promoting it to wontfix has no row.       *)
LEMMA GapRequests ==
  ASSUME NEW from \in Statuses("gap"), NEW verb \in {"promote", "cancel"}, NEW c, NEW to,
         ValidateTransition("gap", from, to), verb = "cancel" => to = "wontfix",
         to = "addressed" => c.addressed_by # {}
  PROVE  MayEnd("gap", from, verb, to, c, "Legal")
<1> DEFINE given == Given("self.addressed_by")
           missing == Missing("self.addressed_by")
<1>0. ((\A p \in given : EvaluatePredicate(p, c)) <=> c.addressed_by # {})
      /\ ((\A p \in missing : EvaluatePredicate(p, c)) <=> c.addressed_by = {})
  BY ResolverPreconditions
<1>r. gapRules = LegalRows("gap", "open", "promote", {"addressed"}, given)
                 \cup IllegalRows("gap", "open", "promote", {"addressed"}, missing)
                 \cup LegalRows("gap", "open", "cancel", {"wontfix"}, {})
                 \cup Terminals("gap", {"addressed", "wontfix"}, {"open"})
  BY DEF gapRules
<1> HIDE DEF given, missing
<1>1. ASSUME NEW r \in gapRules
      PROVE  \/ r.from # "open"
             \/ r.outcome = "Illegal" /\ r.to = "addressed" /\ r.when = missing
             \/ r.outcome = "Legal" /\ r.verb = "promote" /\ r.to = "addressed"
             \/ r.outcome = "Legal" /\ r.verb = "cancel"
  BY <1>r, RowSets, TerminalRows, RowFields
<1>2. /\ Row("gap", "open", "promote", "addressed", "Legal", given) \in Rules
      /\ Row("gap", "open", "cancel", "wontfix", "Legal", {}) \in Rules
  BY <1>r, RowSets DEF Rules
<1>3. from = "open" /\ to \in {"addressed", "wontfix"}
  BY DEF ValidateTransition, AllowedTransitions, Statuses, transitions, GapFSM
<1>4. \A r \in Rules : (r.kind = "gap" /\ r.from = from /\ r.verb = verb /\ r.to = to)
                            => r.outcome # "Illegal" \/ ~Applies(r, c)
  BY <1>0, <1>1, <1>3, RulesOfKind DEF Applies
<1>5. CASE verb = "promote" /\ to = "addressed"
  BY <1>0, <1>2, <1>3, <1>4, <1>5, RowFields, MayEndIf DEF Applies
<1>6. CASE verb = "promote" /\ to = "wontfix"
  BY <1>1, <1>3, <1>4, <1>6, RulesOfKind, MayEndIf
<1>7. CASE verb = "cancel"
  BY <1>2, <1>3, <1>4, <1>7, RowFields, MayEndIf DEF Applies
<1> QED BY <1>3, <1>5, <1>6, <1>7

(* A contract has a row for each edge of its FSM.                             *)
LEMMA ContractRequests ==
  ASSUME NEW from \in Statuses("contract"), NEW verb \in {"promote", "cancel"}, NEW c, NEW to,
         ValidateTransition("contract", from, to), verb = "cancel" => to = CancelTarget("contract", from)
  PROVE  MayEnd("contract", from, verb, to, c, "Legal")
<1>1. ASSUME NEW r \in contractRules PROVE r.outcome # "Illegal" \/ r.from \in {"retired", "rejected"}
  BY RowSets, TerminalRows, RowFields DEF contractRules
<1>2. /\ Row("contract", "proposed", "promote", "accepted", "Legal", {}) \in contractRules
      /\ Row("contract", "proposed", "promote", "rejected", "Legal", {}) \in contractRules
      /\ Row("contract", "proposed", "cancel", "rejected", "Legal", {}) \in contractRules
      /\ Row("contract", "accepted", "promote", "deprecated", "Legal", {}) \in contractRules
      /\ Row("contract", "accepted", "promote", "rejected", "Legal", {}) \in contractRules
      /\ Row("contract", "accepted", "cancel", "rejected", "Legal", {}) \in contractRules
      /\ Row("contract", "deprecated", "promote", "retired", "Legal", {}) \in contractRules
      /\ Row("contract", "deprecated", "cancel", "retired", "Legal", {}) \in contractRules
  BY RowSets DEF contractRules
<1>3. <<from, to>> \in {<<"proposed", "accepted">>, <<"proposed", "rejected">>, <<"accepted", "deprecated">>,
                        <<"accepted", "rejected">>, <<"deprecated", "retired">>}
  BY DEF ValidateTransition, AllowedTransitions, Statuses, transitions, ContractFSM
<1>4. verb = "cancel" => to \in {"rejected", "retired"}
  BY <1>3 DEF CancelTarget
<1>5. \A r \in Rules : (r.kind = "contract" /\ r.from = from /\ r.verb = verb /\ r.to = to)
                            => r.outcome # "Illegal" \/ ~Applies(r, c)
  BY <1>1, <1>3, RulesOfKind
<1>6. Row("contract", from, verb, to, "Legal", {}) \in Rules
  BY <1>2, <1>3, <1>4 DEF Rules
<1> QED BY <1>5, <1>6, RowFields, MayEndIf DEF Applies
=============================================================================
