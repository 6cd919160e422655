------------------------------ MODULE Lifecycle ------------------------------
(***************************************************************************)
(* Epics, their milestones and the milestones' acceptance criteria under   *)
(* the mutating verbs of internal/verb: add, add ac, promote, cancel,      *)
(* promote --phase, milestone tdd, move, edit-body and archive.            *)
(*                                                                         *)
(* Two copies of the planning tree exist: `disk`, the working copy every   *)
(* verb loads and decides from, and `head`, the committed record.  A verb  *)
(* is one atomic step here (it runs under the repository lock, and its     *)
(* file writes and commit are the subject of ApplyTx); between verbs an    *)
(* operator may edit files by hand, restore them, or commit them with git. *)
(*                                                                         *)
(* A tree maps every entity to its file.  An epic's file sits in the       *)
(* epic's directory, active or archived; a milestone's file sits in its    *)
(* parent's directory, so it is archived exactly when its parent is.       *)
(***************************************************************************)
EXTENDS Naturals, Sequences, Workflow

CONSTANTS
  Epics, Milestones,   \* the entity ids that may ever be allocated
  MaxACs,              \* bound: acceptance criteria per milestone
  Human, Agents,       \* an actor "human/...", and the actors of other roles
  Policies,            \* the tdd policies in play, a subset of TDDPolicies
  HandEdits,           \* TRUE: the operator edits the working copy by hand
  RawCommits,          \* TRUE: the operator commits such an edit with git
  Forcing              \* TRUE: verbs may be run with --force

ASSUME LifecycleAssumption ==
  /\ Epics \cap Milestones = {}
  /\ None \notin Epics \cup Milestones
  /\ MaxACs \in Nat
  /\ Human \notin Agents
  /\ Policies \subseteq TDDPolicies
  /\ {HandEdits, RawCommits, Forcing} \subseteq BOOLEAN

VARIABLES
  disk,     \* the working copy: entity -> file
  head,     \* the tree of HEAD's commit: entity -> file
  result    \* what the last step told its caller, and its commit's trailers

vars == <<disk, head, result>>

Entities == Epics \cup Milestones
Kind(x) == IF x \in Epics THEN "epic" ELSE "milestone"
Actors == {Human} \cup Agents

\* The body section of an AC: no `### AC-N` heading, a bare heading, or prose.
Sections == {"missing", "empty", "prose"}
AC == [status : ACStatuses, phase : TDDPhases, section : Sections]

Absent == "absent"
EpicFile == [status : Statuses("epic") \cup {Absent}, archived : BOOLEAN]
MilestoneFile ==
  [status : Statuses("milestone") \cup {Absent}, parent : Epics \cup {None},
   tdd : TDDPolicies, acs : Seq(AC)]

NoEpic == [status |-> Absent, archived |-> FALSE]
NoMilestone == [status |-> Absent, parent |-> None, tdd |-> "none", acs |-> <<>>]

Exists(t, x) == t[x].status # Absent
Terminal(t, x) == Exists(t, x) /\ IsTerminal(Kind(x), t[x].status)

\* The milestone files below epic e's directory (t.ByKind filtered by Parent).
Children(t, e) == {m \in Milestones : Exists(t, m) /\ t[m].parent = e}
nonTerminalEpicChildren(t, e) == {m \in Children(t, e) : ~Terminal(t, m)}

\* entity.IsArchivedPath of the entity's path.
IsArchivedPath(t, x) ==
  IF x \in Epics THEN t[x].archived
  ELSE t[x].parent \in Epics /\ t[t[x].parent].archived

Path(t, x) ==
  [file |-> x, dir |-> IF x \in Epics THEN x ELSE t[x].parent,
   archived |-> IsArchivedPath(t, x)]

OpenACs(f) == {i \in DOMAIN f.acs : f.acs[i].status = "open"}
-----------------------------------------------------------------------------
(* The error-severity check rules these verbs can trip.  A finding is its  *)
(* findingKey: code, path, AC (0 for the entity itself) and the state its  *)
(* message interpolates.                                                   *)

Finding(code, path, i, message) ==
  [code |-> code, path |-> path, ac |-> i, message |-> message]

Orphaning(t, e) ==
  Finding("epic-terminal-non-terminal-children", Path(t, e), 0,
          <<t[e].status, nonTerminalEpicChildren(t, e)>>)

\* Mutant: the rule looks at done epics only.
Mut_doneEpicsOnly(t) ==
  {Orphaning(t, e) : e \in {e \in Epics : /\ t[e].status = "done"
                                          /\ nonTerminalEpicChildren(t, e) # {}}}

epicTerminalNonTerminalChildren(t) ==
  {Orphaning(t, e) : e \in {e \in Epics : /\ Terminal(t, e)
                                          /\ nonTerminalEpicChildren(t, e) # {}}}

archivedEntityNotTerminal(t) ==
  {Finding("archived-entity-not-terminal", Path(t, x), 0, t[x].status) :
     x \in {x \in Entities : /\ Exists(t, x)
                             /\ IsArchivedPath(t, x)
                             /\ ~Terminal(t, x)}}

ActiveMilestones(t) == {m \in Milestones : Exists(t, m) /\ ~IsArchivedPath(t, m)}

\* Mutant: the audit overlooks a criterion whose cycle never started.
Mut_auditStartedOnly(t) ==
  UNION {{Finding("acs-tdd-audit", Path(t, m), i, t[m].acs[i].phase) :
            i \in {i \in DOMAIN t[m].acs : /\ t[m].acs[i].status = "met"
                                           /\ t[m].acs[i].phase \notin {"done", None}}} :
         m \in {m \in ActiveMilestones(t) : t[m].tdd = "required"}}

acsTDDAudit(t) ==
  UNION {{Finding("acs-tdd-audit", Path(t, m), i, t[m].acs[i].phase) :
            i \in {i \in DOMAIN t[m].acs : /\ t[m].acs[i].status = "met"
                                           /\ t[m].acs[i].phase # "done"}} :
         m \in {m \in ActiveMilestones(t) : t[m].tdd = "required"}}

Incomplete(t, m) ==
  Finding("milestone-terminal-incomplete-acs", Path(t, m), 0,
          <<t[m].status, OpenACs(t[m])>>)

\* Mutant: the rule before G-0335, for done milestones only.
Mut_doneMilestonesOnly(t) ==
  {Incomplete(t, m) : m \in {m \in ActiveMilestones(t) : /\ t[m].status = "done"
                                                         /\ OpenACs(t[m]) # {}}}

milestoneTerminalIncompleteACs(t) ==
  {Incomplete(t, m) : m \in {m \in ActiveMilestones(t) : /\ Terminal(t, m)
                                                         /\ OpenACs(t[m]) # {}}}

acsEmptyBodyOnStart(t) ==
  UNION {{Finding("acs-empty-body-on-start", Path(t, m), i, None) :
            i \in {i \in DOMAIN t[m].acs : /\ ~IsTerminalACStatus(t[m].acs[i].status)
                                           /\ t[m].acs[i].section = "empty"}} :
         m \in {m \in ActiveMilestones(t) : t[m].status \in {"in_progress", "done"}}}

Errors(t) ==
  epicTerminalNonTerminalChildren(t) \cup archivedEntityNotTerminal(t) \cup
  acsTDDAudit(t) \cup milestoneTerminalIncompleteACs(t) \cup acsEmptyBodyOnStart(t)

\* The verb's safety net: it refuses when going from the loaded tree to the
\* projected one introduces an error it did not find before.
projectionFindings(projected) == Errors(projected) \ Errors(disk)

-----------------------------------------------------------------------------
(* What a step answers.  A claim says what is now recorded of x: the field *)
(* (with AC position i, 0 for the entity's own fields) and its value.      *)

Claim(x, field, i, value) == [x |-> x, field |-> field, ac |-> i, value |-> value]

NoClaim == Claim(None, "none", 0, None)
Silent == [outcome |-> "none", verb |-> "none", actor |-> Human,
           force |-> FALSE, claim |-> NoClaim]

Answer(outcome, verb, actor, force, claim) ==
  [outcome |-> outcome, verb |-> verb, actor |-> actor,
   force |-> force, claim |-> claim]

\* The claim is true of tree t.
Holds(t, c) ==
  CASE c.field = "none"     -> TRUE
    [] c.field = "status"   -> t[c.x].status = c.value
    [] c.field = "terminal" -> Terminal(t, c.x)
    [] c.field = "tdd"      -> t[c.x].tdd = c.value
    [] c.field = "parent"   -> t[c.x].parent = c.value
    [] c.field = "ac"       -> /\ c.ac \in DOMAIN t[c.x].acs
                               /\ t[c.x].acs[c.ac].status = c.value
    [] c.field = "acTerminal" -> /\ c.ac \in DOMAIN t[c.x].acs
                                 /\ IsTerminalACStatus(t[c.x].acs[c.ac].status)
    [] c.field = "phase"    -> /\ c.ac \in DOMAIN t[c.x].acs
                               /\ t[c.x].acs[c.ac].phase = c.value

\* Mutant: the claim-side guard of ADR-0038 is missing.
Mut_noClaimGuard(x) == Exists(disk, x)

\* guardClaim: the file the request is about still is what HEAD records.
guardClaim(x) == Exists(disk, x) /\ disk[x] = head[x]

\* Mutant: the coherence guard does not look at the actor.
Mut_anyoneForces(force, actor) == TRUE

\* CheckForceTrailerCoherence: no commit carries a force trailer from an actor
\* other than a human.
ForceAllowed(force, actor) == force => actor = Human

\* The NoOp answer of a verb whose request is already satisfied.
Converge(verb, actor, force, claim) ==
  /\ result' = Answer("noop", verb, actor, force, claim)
  /\ UNCHANGED <<disk, head>>

\* Apply of a one-file plan: the file's new bytes on disk and in the commit.
Land(x, file, verb, actor, force, claim) ==
  /\ ForceAllowed(force, actor)
  /\ disk' = [disk EXCEPT ![x] = file]
  /\ head' = [head EXCEPT ![x] = file]
  /\ result' = Answer("committed", verb, actor, force, claim)

\* The projection net: x's file replaced by `projected` introduces no error.
ProjectionClean(x, projected) ==
  projectionFindings([disk EXCEPT ![x] = projected]) = {}

\* The shared tail of the single-file verbs.  Their write keeps the body, so
\* the body the projection reads from disk is the body that lands.
planEntityWrite(x, file, verb, actor, force, claim) ==
  /\ ProjectionClean(x, file)
  /\ Land(x, file, verb, actor, force, claim)
-----------------------------------------------------------------------------
(* The verbs.                                                              *)

AddEpic(e, actor) ==
  LET file == [status |-> InitialStatus.epic, archived |-> FALSE] IN
  /\ disk[e] = NoEpic /\ head[e] = NoEpic
  /\ planEntityWrite(e, file, "add", actor, FALSE, Claim(e, "status", 0, file.status))

\* Any existing epic will do as parent: Add has no epic-status precondition
\* and relies on the projection (G-0398).
AddMilestone(m, e, tdd, actor) ==
  LET file == [status |-> InitialStatus.milestone, parent |-> e, tdd |-> tdd,
               acs |-> <<>>]
  IN
  /\ disk[m] = NoMilestone /\ head[m] = NoMilestone
  /\ Exists(disk, e)
  /\ planEntityWrite(m, file, "add", actor, FALSE, Claim(m, "status", 0, file.status))

\* The projection still reads the old body, where the new heading is missing;
\* the write then scaffolds it, bare unless a body was supplied.
AddAC(m, section, actor) ==
  LET new(sec) == [status |-> "open", phase |-> None, section |-> sec]
      with(sec) == [disk[m] EXCEPT !.acs = Append(@, new(sec))]
      i == Len(disk[m].acs) + 1
  IN
  /\ Exists(disk, m) /\ disk[m] = head[m]
  /\ i <= MaxACs
  /\ section \in {"empty", "prose"}
  /\ ProjectionClean(m, with("missing"))
  /\ Land(m, with(section), "add-ac", actor, FALSE, Claim(m, "ac", i, "open"))

\* requireNonEmptyACsAtMilestoneStart and ...ACBodiesAtMilestoneStart.
ContractWritten(x, to) ==
  (Kind(x) = "milestone" /\ disk[x].status = "draft" /\ to = "in_progress") =>
    /\ disk[x].acs # <<>>
    /\ \A i \in DOMAIN disk[x].acs :
         IsTerminalACStatus(disk[x].acs[i].status) \/ disk[x].acs[i].section # "empty"


requireHumanActorForSovereignAct(x, to, actor) ==
  IsSovereignActShape(Kind(x), disk[x].status, to) => actor = Human

epicChildrenCascadeGuard(x, to) ==
  (Kind(x) = "epic" /\ IsTerminal("epic", to)) => nonTerminalEpicChildren(disk, x) = {}

\* Mutant: met criteria count as open ones.
Mut_nonTerminalACs(x, to) ==
  (Kind(x) = "milestone" /\ to = "cancelled") =>
    \A i \in DOMAIN disk[x].acs : IsTerminalACStatus(disk[x].acs[i].status)

milestoneACsCascadeGuard(x, to) ==
  (Kind(x) = "milestone" /\ to = "cancelled") => OpenACs(disk[x]) = {}

CascadeGuards(x, to) == epicChildrenCascadeGuard(x, to) /\ milestoneACsCascadeGuard(x, to)

Promote(x, to, actor, force) ==
  LET claim == Claim(x, "status", 0, to) IN
  /\ guardClaim(x)
  /\ \/ /\ disk[x].status = to
        /\ Converge("promote", actor, force, claim)
     \/ /\ disk[x].status # to
        /\ ~force => /\ ValidateTransition(Kind(x), disk[x].status, to)
                     /\ requireHumanActorForSovereignAct(x, to, actor)
                     /\ ContractWritten(x, to)
        /\ CascadeGuards(x, to)
        /\ planEntityWrite(x, [disk[x] EXCEPT !.status = to], "promote", actor, force, claim)

Cancel(x, actor, force) ==
  LET target == CancelTarget(Kind(x), disk[x].status) IN
  /\ guardClaim(x)
  /\ \/ /\ Terminal(disk, x)
        /\ Converge("cancel", actor, force, Claim(x, "terminal", 0, None))
     \/ /\ ~Terminal(disk, x)
        /\ target # None
        /\ ~force => requireHumanActorForSovereignAct(x, target, actor)
        /\ CascadeGuards(x, target)
        /\ planEntityWrite(x, [disk[x] EXCEPT !.status = target], "cancel", actor, force,
                           Claim(x, "status", 0, target))

\* Arriving at `open` starts the TDD cycle over.
promoteAC(m, i, to, actor, force) ==
  LET ac == disk[m].acs[i]
      moved == [ac EXCEPT !.status = to, !.phase = IF to = "open" THEN None ELSE @]
      claim == Claim(m, "ac", i, to)
  IN
  /\ guardClaim(m)
  /\ \/ /\ ac.status = to
        /\ Converge("promote", actor, force, claim)
     \/ /\ ac.status # to
        /\ force \/ IsLegalACTransition(ac.status, to)
        /\ planEntityWrite(m, [disk[m] EXCEPT !.acs[i] = moved], "promote", actor, force, claim)

\* Every non-terminal status may be cancelled, forced or not.
cancelAC(m, i, actor, force) ==
  LET ac == disk[m].acs[i] IN
  /\ guardClaim(m)
  /\ \/ /\ IsTerminalACStatus(ac.status)
        /\ Converge("cancel", actor, force, Claim(m, "acTerminal", i, None))
     \/ /\ ~IsTerminalACStatus(ac.status)
        /\ force \/ IsLegalACTransition(ac.status, "cancelled")
        /\ planEntityWrite(m, [disk[m] EXCEPT !.acs[i].status = "cancelled"], "cancel",
                           actor, force, Claim(m, "ac", i, "cancelled"))

\* The pre-cycle phase is no argument of the verb (IsAllowedTDDPhase).
PromoteACPhase(m, i, to, actor, force) ==
  LET ac == disk[m].acs[i]
      claim == Claim(m, "phase", i, to)
  IN
  /\ guardClaim(m)
  /\ \/ /\ ac.phase = to
        /\ Converge("promote", actor, force, claim)
     \/ /\ ac.phase # to
        /\ force \/ IsLegalTDDPhaseTransition(ac.phase, to)
        /\ planEntityWrite(m, [disk[m] EXCEPT !.acs[i].phase = to], "promote",
                           actor, force, claim)

\* Met acceptance criteria whose TDD cycle never finished.
Stranded(f) == {i \in DOMAIN f.acs : f.acs[i].status = "met" /\ f.acs[i].phase # "done"}

MilestoneTDD(m, policy, actor) ==
  LET claim == Claim(m, "tdd", 0, policy) IN
  /\ guardClaim(m)
  /\ \/ /\ disk[m].tdd = policy
        /\ Converge("milestone-tdd", actor, FALSE, claim)
     \/ /\ disk[m].tdd # policy
        /\ policy = "required" => Stranded(disk[m]) = {}
        /\ planEntityWrite(m, [disk[m] EXCEPT !.tdd = policy], "milestone-tdd",
                           actor, FALSE, claim)

\* At its projected path the file does not exist yet, so the projection reads
\* no body sections at all.
Unreadable(f) == [f EXCEPT !.acs = [i \in DOMAIN @ |-> [@[i] EXCEPT !.section = "missing"]]]

Move(m, e, actor) ==
  LET file == [disk[m] EXCEPT !.parent = e]
      claim == Claim(m, "parent", 0, e)
  IN
  /\ Exists(disk, e)
  /\ guardClaim(m)
  /\ \/ /\ disk[m].parent = e
        /\ Converge("move", actor, FALSE, claim)
     \/ /\ disk[m].parent # e
        /\ ProjectionClean(m, Unreadable(file))
        /\ Land(m, file, "move", actor, FALSE, claim)

Sectioned(f, i, section) == [f EXCEPT !.acs[i].section = section]
SameFrontmatter(f, g) ==
  /\ f.status = g.status /\ f.parent = g.parent /\ f.tdd = g.tdd
  /\ DOMAIN f.acs = DOMAIN g.acs
  /\ \A i \in DOMAIN f.acs :
       f.acs[i].status = g.acs[i].status /\ f.acs[i].phase = g.acs[i].phase

\* The projection of an edit is the loaded tree itself (the frontmatter does
\* not change and the body rules read the disk), so it has nothing to refuse.
EditBodyGate(m) == ProjectionClean(m, disk[m])

\* --body-file: the loaded frontmatter around the supplied body.
editBodyExplicit(m, i, section, actor) ==
  LET file == Sectioned(disk[m], i, section) IN
  /\ Exists(disk, m)
  /\ SameFrontmatter(disk[m], head[m])
  /\ \/ /\ file = head[m] /\ file = disk[m]
        /\ Converge("edit-body", actor, FALSE, NoClaim)
     \/ /\ file # head[m] \/ file # disk[m]
        /\ EditBodyGate(m)
        /\ Land(m, file, "edit-body", actor, FALSE, NoClaim)

\* No --body-file: the operator's working-copy edit, verbatim.
editBodyBless(m, actor) ==
  /\ Exists(disk, m) /\ disk[m] # head[m]
  /\ SameFrontmatter(disk[m], head[m])
  /\ EditBodyGate(m)
  /\ Land(m, disk[m], "edit-body", actor, FALSE, NoClaim)

\* Mutant: the sweep trusts the working copy (no declineUndecidableMoves).
Mut_trustingSweep ==
  {e \in Epics : /\ Terminal(disk, e) /\ ~disk[e].archived
                 /\ nonTerminalEpicChildren(disk, e) = {}}

\* computeArchiveMoves, less the moves whose verdict rests on an edited file
\* (declineUndecidableMoves): every file a move carries is as HEAD records it.
Sweepable ==
  {e \in Epics : /\ Terminal(disk, e) /\ ~disk[e].archived
                 /\ nonTerminalEpicChildren(disk, e) = {}
                 /\ \A x \in {e} \cup Children(disk, e) : disk[x] = head[x]}

\* One commit moves every sweepable epic directory; no projection runs.
Archive(actor) ==
  LET swept(t) == [x \in Entities |->
                     IF x \in Sweepable THEN [t[x] EXCEPT !.archived = TRUE] ELSE t[x]]
  IN
  /\ Sweepable # {}
  /\ disk' = swept(disk)
  /\ head' = swept(head)
  /\ result' = Answer("committed", "archive", actor, FALSE, NoClaim)
-----------------------------------------------------------------------------
(* The operator, outside the verbs.                                        *)

Dirty == {x \in Entities : disk[x] # head[x]}

\* What an editor session can make of a file: another recognized status, or
\* another status, phase or body section of one AC.
EditedACs(f, i) ==
  {[f EXCEPT !.acs[i].status = s] : s \in ACStatuses} \cup
  {[f EXCEPT !.acs[i].phase = p] : p \in TDDPhases} \cup
  {[f EXCEPT !.acs[i].section = s] : s \in Sections}

Edited(x) ==
  {[disk[x] EXCEPT !.status = s] : s \in Statuses(Kind(x))} \cup
  (IF x \in Epics THEN {}
   ELSE UNION {EditedACs(disk[x], i) : i \in DOMAIN disk[x].acs})

\* Bound: one file at a time differs from HEAD.
HandEdit(x) ==
  /\ HandEdits /\ Exists(disk, x)
  /\ Dirty = {}
  /\ \E file \in Edited(x) : file # disk[x] /\ disk' = [disk EXCEPT ![x] = file]
  /\ result' = Silent
  /\ UNCHANGED head

\* git restore <file>.
Restore(x) ==
  /\ x \in Dirty
  /\ disk' = [disk EXCEPT ![x] = head[x]]
  /\ result' = Silent
  /\ UNCHANGED head

\* git commit -a, with no verb and no trailers.
RawCommit ==
  /\ RawCommits /\ Dirty # {}
  /\ head' = disk
  /\ result' = Silent
  /\ UNCHANGED disk
-----------------------------------------------------------------------------
Init ==
  /\ disk = [x \in Entities |-> IF x \in Epics THEN NoEpic ELSE NoMilestone]
  /\ head = disk
  /\ result = Silent

ForceFlags == {FALSE, Forcing}

ACVerbs(m, i, actor) ==
  \/ \E force \in ForceFlags :
       \/ \E to \in ACStatuses : promoteAC(m, i, to, actor, force)
       \/ \E to \in TDDPhases \ {None} : PromoteACPhase(m, i, to, actor, force)
       \/ cancelAC(m, i, actor, force)
  \/ \E section \in Sections : editBodyExplicit(m, i, section, actor)

MilestoneVerbs(m, actor) ==
  \/ \E e \in Epics, tdd \in Policies : AddMilestone(m, e, tdd, actor)
  \/ \E section \in Sections : AddAC(m, section, actor)
  \/ \E i \in DOMAIN disk[m].acs : ACVerbs(m, i, actor)
  \/ \E policy \in Policies : MilestoneTDD(m, policy, actor)
  \/ \E e \in Epics : Move(m, e, actor)
  \/ editBodyBless(m, actor)

StatusVerbs(x, actor) ==
  \E force \in ForceFlags :
    \/ \E to \in Statuses(Kind(x)) : Promote(x, to, actor, force)
    \/ Cancel(x, actor, force)

Verb(actor) ==
  \/ \E e \in Epics : AddEpic(e, actor)
  \/ \E m \in Milestones : MilestoneVerbs(m, actor)
  \/ \E x \in Entities : StatusVerbs(x, actor)
  \/ Archive(actor)

Operator ==
  \/ \E x \in Entities : HandEdit(x) \/ Restore(x)
  \/ RawCommit

Next == (\E actor \in Actors : Verb(actor)) \/ Operator

Spec == Init /\ [][Next]_vars
-----------------------------------------------------------------------------
(* Properties.                                                             *)

FileOf(x) ==
  IF x \in Epics THEN EpicFile ELSE {f \in MilestoneFile : Len(f.acs) <= MaxACs}

TreeOK(t) ==
  /\ t \in [Entities -> EpicFile \cup MilestoneFile]
  /\ \A x \in Entities : t[x] \in FileOf(x)

\* The working copy and the record stay well-formed trees of these entities,
\* and no criterion list outgrows its bound.
TypeOK ==
  /\ TreeOK(disk)
  /\ TreeOK(head)
  /\ result.outcome \in {"none", "committed", "noop"}
  /\ result.actor \in Actors
  /\ result.force \in BOOLEAN

\* Whatever a verb answers (a change made, or "already so, nothing to
\* change") is true of the committed record, even when the operator has been
\* editing the working copy the verb decided from.
AnswerIsTrue == [][Holds(head', result'.claim)]_vars

\* No closed epic owns an open milestone in the record (G-0393, D-0003).
NoOrphans ==
  \A e \in Epics : Terminal(head, e) => nonTerminalEpicChildren(head, e) = {}

\* A closed milestone outside the archive has no open acceptance criterion,
\* however it was closed and whatever was done to its criteria afterwards.
ClosedContracts ==
  \A m \in Milestones :
    (Terminal(head, m) /\ ~IsArchivedPath(head, m)) =>
      \A i \in DOMAIN head[m].acs : head[m].acs[i].status # "open"

\* Under `tdd: required` a met criterion has finished its TDD cycle: no order
\* of status, phase and policy changes, forced or not, gets around it.
MetMeansDone ==
  \A m \in Milestones :
    (Exists(head, m) /\ ~IsArchivedPath(head, m) /\ head[m].tdd = "required") =>
      \A i \in DOMAIN head[m].acs :
        head[m].acs[i].status = "met" => head[m].acs[i].phase = "done"

\* The archive holds finished work only: neither a sweep, a force, nor a move
\* or an addition into an archived epic puts live work there.
ArchivedTerminal ==
  \A x \in Entities :
    (Exists(head, x) /\ IsArchivedPath(head, x)) => Terminal(head, x)

SameOrLegal(from, to, Legal(_, _)) == from = to \/ Legal(from, to)

\* x's committed change follows the FSMs, criterion by criterion.
LegalChange(x) ==
  LET LegalStatus(from, to) == ValidateTransition(Kind(x), from, to) IN
  /\ SameOrLegal(head[x].status, head'[x].status, LegalStatus)
  /\ x \in Milestones =>
       \A i \in DOMAIN head[x].acs :
         /\ i \in DOMAIN head'[x].acs
         /\ SameOrLegal(head[x].acs[i].status, head'[x].acs[i].status, IsLegalACTransition)
         /\ SameOrLegal(head[x].acs[i].phase, head'[x].acs[i].phase, IsLegalTDDPhaseTransition)

\* Between two consecutive commits, an unforced verb moves every status and
\* phase along one FSM edge or not at all: hand edits in the working copy
\* never ride into the record under a verb's name.
UnforcedStepsAreLegal ==
  [][(result'.outcome = "committed" /\ ~result'.force) =>
       \A x \in Entities : Exists(head, x) => LegalChange(x)]_vars

\* What the workflow table's predicates read: of an entity, and of a criterion.
EntityContext(x) ==
  IF x \in Epics
  THEN [NoContext EXCEPT !.children = {disk[m].status : m \in Children(disk, x)}]
  ELSE [NoContext EXCEPT !.acs = {disk[x].acs[i].status : i \in DOMAIN disk[x].acs}]
ACContext(m, i) == [NoContext EXCEPT !.tdd = disk[m].tdd, !.phase = disk[m].acs[i].phase]

\* The verb's answer is one the table gives for the request it claims to have met.
AnswerInTable(answer) ==
  LET c == answer.claim
      f == disk[c.x]
      outcome == IF answer.outcome = "committed" THEN "Legal" ELSE "NoOp"
      ends(k, from, to, context) == MayEnd(k, from, answer.verb, to, context, outcome)
  IN CASE c.field = "status"   -> ends(Kind(c.x), f.status, c.value, EntityContext(c.x))
       [] c.field = "terminal" -> ends(Kind(c.x), f.status, f.status, EntityContext(c.x))
       [] c.field = "ac" -> ends("ac", f.acs[c.ac].status, c.value, ACContext(c.x, c.ac))
       [] c.field = "acTerminal" ->
            ends("ac", f.acs[c.ac].status, f.acs[c.ac].status, ACContext(c.x, c.ac))
       [] c.field = "phase" -> ends("tdd-phase", f.acs[c.ac].phase, c.value, ACContext(c.x, c.ac))

\* The verbs keep to the repository's own table of legal requests
\* (workflows/spec, tested from one fixture per row): in whatever tree the
\* operator has left, no unforced promote or cancel outside the archive does what
\* an Illegal row forbids, nor answers otherwise than the rows for its request
\* say.  (A criterion of an archived milestone is promoted to met whatever its
\* phase: the audit that would refuse it skips the archive.)
VerbsKeepToTheTable ==
  [][(/\ result'.verb \in {"promote", "cancel"} /\ ~result'.force
      /\ ~IsArchivedPath(disk, result'.claim.x)) => AnswerInTable(result')]_vars

\* The human's unforced requests that the table offers in this tree ...
OfferedRequests ==
  {r \in Entities \X {"promote", "cancel"} \X UNION {Statuses("epic"), Statuses("milestone")} :
     /\ guardClaim(r[1])
     /\ Offered(Kind(r[1]), disk[r[1]].status, r[2], r[3], EntityContext(r[1]))}

\* ... are not refused in a tree without errors: neither the guards nor the
\* projection go beyond the table.  Two refusals the table does not have are
\* let pass, a milestone started without written criteria (D-0039) and a
\* proposed epic promoted to cancelled over open children.
OffersAreTaken ==
  Errors(disk) = {} =>
    \A r \in OfferedRequests :
      \/ ~ContractWritten(r[1], r[3])
      \/ disk[r[1]].status = "proposed" /\ ~epicChildrenCascadeGuard(r[1], r[3])
      \/ IF r[2] = "promote" THEN ENABLED Promote(r[1], r[3], Human, FALSE)
         ELSE ENABLED Cancel(r[1], Human, FALSE)

\* Opening or closing an epic is recorded under a human actor only, on every
\* route: promote or cancel, forced or not (ADR-0047, ADR-0040).
SovereignByHuman ==
  [][\A e \in Epics :
       (Exists(head, e) /\ IsSovereignActShape("epic", head[e].status, head'[e].status)) =>
         result'.actor = Human]_vars
=============================================================================
