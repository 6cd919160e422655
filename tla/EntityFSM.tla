------------------------------ MODULE EntityFSM ------------------------------
(***************************************************************************)
(* The closed status vocabularies of aiwf and their transition relations   *)
(* (internal/entity/transition.go and sovereign.go): the per-kind status   *)
(* FSM, the acceptance-criterion (AC) FSM, the TDD phase ladder, the       *)
(* target `aiwf cancel` picks, and the human-only ("sovereign") edges.     *)
(* Constant operators only; every module of the project builds on them.    *)
(***************************************************************************)

Kinds == {"epic", "milestone", "adr", "decision", "gap", "contract"}

\* The answer "" of CancelTarget and the pre-cycle TDD phase.
None == ""

\* Status -> set of statuses a step may move to, per kind.
EpicFSM ==
  [proposed  |-> {"active", "cancelled"},
   active    |-> {"done", "cancelled"},
   done      |-> {},
   cancelled |-> {}]

MilestoneFSM ==
  [draft       |-> {"in_progress", "cancelled"},
   in_progress |-> {"done", "cancelled"},
   done        |-> {},
   cancelled   |-> {}]

\* ADR and decision share one shape.
RulingFSM ==
  [proposed   |-> {"accepted", "rejected"},
   accepted   |-> {"superseded"},
   superseded |-> {},
   rejected   |-> {}]

GapFSM ==
  [open      |-> {"addressed", "wontfix"},
   addressed |-> {},
   wontfix   |-> {}]

ContractFSM ==
  [proposed   |-> {"accepted", "rejected"},
   accepted   |-> {"deprecated", "rejected"},
   deprecated |-> {"retired"},
   retired    |-> {},
   rejected   |-> {}]

transitions ==
  [epic |-> EpicFSM, milestone |-> MilestoneFSM, adr |-> RulingFSM,
   decision |-> RulingFSM, gap |-> GapFSM, contract |-> ContractFSM]

Statuses(k) == DOMAIN transitions[k]

\* A status the kind does not know has no successors and is not terminal.
AllowedTransitions(k, from) == IF from \in Statuses(k) THEN transitions[k][from] ELSE {}

\* ValidateTransition returns nil.
ValidateTransition(k, from, to) == to \in AllowedTransitions(k, from)

IsTerminal(k, status) == status \in Statuses(k) /\ AllowedTransitions(k, status) = {}

\* Mutant: an accepted ruling can still be cancelled.
Mut_revokeRulings(k, status) ==
  CASE k \in {"epic", "milestone"} -> "cancelled"
    [] k \in {"adr", "decision"}   -> IF status \in {"proposed", "accepted"} THEN "rejected" ELSE None
    [] k = "gap"                   -> "wontfix"
    [] k = "contract"              -> IF status \in {"proposed", "accepted"} THEN "rejected"
                                      ELSE IF status = "deprecated" THEN "retired"
                                      ELSE None

CancelTarget(k, status) ==
  CASE k \in {"epic", "milestone"} -> "cancelled"
    [] k \in {"adr", "decision"}   -> IF status = "proposed" THEN "rejected" ELSE None
    [] k = "gap"                   -> "wontfix"
    [] k = "contract"              -> IF status \in {"proposed", "accepted"} THEN "rejected"
                                      ELSE IF status = "deprecated" THEN "retired"
                                      ELSE None

\* Mutant: one initial status for every planned kind.
Mut_allProposed == [k \in Kinds |-> "proposed"]

\* The status `aiwf add` writes, per kind.
InitialStatus ==
  [epic |-> "proposed", milestone |-> "draft", adr |-> "proposed",
   decision |-> "proposed", gap |-> "open", contract |-> "proposed"]

\* Edges only a human may take: <<kind, from, to>>.
sovereignActShapes ==
  {<<"epic", "proposed", "active">>, <<"epic", "active", "done">>,
   <<"epic", "active", "cancelled">>, <<"epic", "proposed", "cancelled">>}

IsSovereignActShape(k, from, to) == <<k, from, to>> \in sovereignActShapes

-----------------------------------------------------------------------------
\* Acceptance criteria and their TDD phases.

acTransitions ==
  [open      |-> {"met", "deferred", "cancelled"},
   met       |-> {"deferred", "cancelled"},
   deferred  |-> {},
   cancelled |-> {}]

ACStatuses == DOMAIN acTransitions
IsLegalACTransition(from, to) == to \in acTransitions[from]
IsTerminalACStatus(status) == acTransitions[status] = {}

TDDPhases == {None, "red", "green", "refactor", "done"}

tddPhaseTransitions ==
  [p \in TDDPhases |->
     CASE p = None       -> {"red"}
       [] p = "red"      -> {"green"}
       [] p = "green"    -> {"refactor", "done"}
       [] p = "refactor" -> {"done"}
       [] p = "done"     -> {}]

IsLegalTDDPhaseTransition(from, to) == to \in tddPhaseTransitions[from]

TDDPolicies == {"required", "advisory", "none"}
=============================================================================
