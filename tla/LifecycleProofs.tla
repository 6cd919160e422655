--------------------------- MODULE LifecycleProofs ---------------------------
(***************************************************************************)
(* Proofs about Lifecycle for every set of epics, milestones and actors    *)
(* and every bound: its type invariant, the safety invariants of the       *)
(* committed record, and what a verb's answer and its steps are worth.     *)
(***************************************************************************)
EXTENDS Lifecycle, WorkflowProofs, SequenceTheorems, TLAPS

USE LifecycleAssumption

(* One AC of a well-typed milestone file is replaced by another AC.        *)
LEMMA ReplaceAC ==
  ASSUME NEW f \in MilestoneFile, NEW i \in DOMAIN f.acs, NEW ac \in AC
  PROVE  LET g == [f EXCEPT !.acs[i] = ac] IN
         /\ g \in MilestoneFile
         /\ Len(g.acs) = Len(f.acs)
         /\ DOMAIN g.acs = DOMAIN f.acs
         /\ g.status = f.status /\ g.parent = f.parent /\ g.tdd = f.tdd
         /\ g.acs[i] = ac
         /\ \A j \in DOMAIN f.acs \ {i} : g.acs[j] = f.acs[j]
<1> DEFINE seq == [f.acs EXCEPT ![i] = ac]
           g == [f EXCEPT !.acs[i] = ac]
<1>1. f.acs \in Seq(AC)
  BY DEF MilestoneFile
<1>2. /\ seq \in Seq(AC)
      /\ Len(seq) = Len(f.acs)
      /\ seq[i] = ac
      /\ \A j \in DOMAIN f.acs \ {i} : seq[j] = f.acs[j]
  BY <1>1, ExceptSeq
<1>3. g = [f EXCEPT !.acs = seq]
  BY DEF MilestoneFile
<1> QED
  BY <1>1, <1>2, <1>3 DEF MilestoneFile

LEMMA FSMFacts ==
  /\ Statuses("epic") = {"proposed", "active", "done", "cancelled"}
  /\ Statuses("milestone") = {"draft", "in_progress", "done", "cancelled"}
  /\ InitialStatus.epic = "proposed" /\ InitialStatus.milestone = "draft"
  /\ \A s \in Statuses("epic") : IsTerminal("epic", s) <=> s \in {"done", "cancelled"}
  /\ \A s \in Statuses("milestone") :
       IsTerminal("milestone", s) <=> s \in {"done", "cancelled"}
  /\ \A s : /\ CancelTarget("epic", s) = "cancelled"
            /\ CancelTarget("milestone", s) = "cancelled"
BY DEF Statuses, transitions, EpicFSM, MilestoneFSM, InitialStatus, IsTerminal,
       AllowedTransitions, CancelTarget, Kinds

(* No status of either kind, and no epic or milestone id, is the empty one. *)
LEMMA KindFacts ==
  /\ \A e \in Epics : Kind(e) = "epic" /\ e \in Entities /\ e \notin Milestones
  /\ \A m \in Milestones : Kind(m) = "milestone" /\ m \in Entities /\ m \notin Epics
  /\ \A x \in Entities : x \in Epics \/ x \in Milestones
BY DEF Kind, Entities

-----------------------------------------------------------------------------
(* What a verb may do to the two trees: rewrite one file behind the claim    *)
(* guard and the projection net, rewrite one milestone's body, or sweep.     *)

Written(x, file) ==
  /\ disk' = [disk EXCEPT ![x] = file]
  /\ head' = [head EXCEPT ![x] = file]

\* `p` is the file as the projection saw it.
GatedWrite(x, file, p) ==
  /\ x \in Entities
  /\ file \in FileOf(x) /\ p \in FileOf(x)
  /\ disk[x] = head[x]
  /\ x \in Epics => p = file /\ file.archived = disk[x].archived
  /\ x \in Milestones => SameFrontmatter(p, file)
  /\ ProjectionClean(x, p)
  /\ Written(x, file)

BodyWrite(m, file) ==
  /\ m \in Milestones
  /\ file \in FileOf(m)
  /\ Exists(disk, m)
  /\ SameFrontmatter(file, disk[m]) /\ SameFrontmatter(file, head[m])
  /\ Written(m, file)

VerbStep ==
  \/ \E x, file, p : GatedWrite(x, file, p)
  \/ \E m, file : BodyWrite(m, file)
  \/ \E actor : Archive(actor)
  \/ UNCHANGED <<disk, head>>

ResultOK ==
  /\ result.outcome \in {"none", "committed", "noop"}
  /\ result.actor \in Actors
  /\ result.force \in BOOLEAN

LEMMA GateForEpic ==
  ASSUME NEW e \in Epics, NEW file \in EpicFile, file.archived = disk[e].archived,
         disk[e] = head[e], NEW verb, NEW actor, NEW force, NEW claim,
         planEntityWrite(e, file, verb, actor, force, claim)
  PROVE  GatedWrite(e, file, file)
BY KindFacts DEF planEntityWrite, Land, GatedWrite, Written, FileOf

LEMMA GateForMilestone ==
  ASSUME NEW m \in Milestones, NEW file \in FileOf(m), disk[m] = head[m],
         NEW verb, NEW actor, NEW force, NEW claim,
         planEntityWrite(m, file, verb, actor, force, claim)
  PROVE  GatedWrite(m, file, file)
BY KindFacts DEF planEntityWrite, Land, GatedWrite, Written, SameFrontmatter

LEMMA DiskFiles ==
  ASSUME TypeOK
  PROVE  /\ \A e \in Epics : disk[e] \in EpicFile /\ head[e] \in EpicFile
         /\ \A m \in Milestones : /\ disk[m] \in MilestoneFile /\ head[m] \in MilestoneFile
                                  /\ disk[m] \in FileOf(m) /\ head[m] \in FileOf(m)
                                  /\ Len(disk[m].acs) <= MaxACs
BY KindFacts DEF TypeOK, TreeOK, FileOf

(* A milestone file with one AC replaced stays a file of that milestone.     *)
LEMMA ReplacedFile ==
  ASSUME TypeOK, NEW m \in Milestones, NEW i \in DOMAIN disk[m].acs, NEW ac \in AC
  PROVE  [disk[m] EXCEPT !.acs[i] = ac] \in FileOf(m)
<1> DEFINE f == disk[m]
           g == [f EXCEPT !.acs[i] = ac]
<1>1. f \in MilestoneFile /\ Len(f.acs) <= MaxACs
  BY DiskFiles
<1>2. g \in MilestoneFile /\ Len(g.acs) = Len(f.acs)
  BY <1>1, ReplaceAC
<1> QED
  BY <1>1, <1>2, KindFacts DEF FileOf

LEMMA AddEpicShape ==
  ASSUME TypeOK, NEW e \in Epics, NEW actor \in Actors, AddEpic(e, actor)
  PROVE  VerbStep /\ ResultOK'
<1> DEFINE file == [status |-> InitialStatus.epic, archived |-> FALSE]
<1>2. file \in EpicFile /\ file.archived = FALSE
  BY FSMFacts DEF EpicFile
<1>3. disk[e].archived = FALSE /\ disk[e] = head[e]
  BY DEF NoEpic, AddEpic
<1>4. GatedWrite(e, file, file)
  BY <1>2, <1>3, GateForEpic DEF AddEpic
<1> QED
  BY <1>4 DEF VerbStep, ResultOK, AddEpic, planEntityWrite, Land, Answer

LEMMA AddMilestoneShape ==
  ASSUME TypeOK, NEW m \in Milestones, NEW e \in Epics, NEW tdd \in Policies,
         NEW actor \in Actors, AddMilestone(m, e, tdd, actor)
  PROVE  VerbStep /\ ResultOK'
<1> DEFINE file == [status |-> InitialStatus.milestone, parent |-> e, tdd |-> tdd,
                    acs |-> <<>>]
<1> DEFINE none == <<>>
<1>a. none \in Seq(AC) /\ Len(none) = 0
  OBVIOUS
<1>b. InitialStatus.milestone \in Statuses("milestone") /\ tdd \in TDDPolicies
  BY FSMFacts
<1> HIDE DEF none
<1>c. [status |-> InitialStatus.milestone, parent |-> e, tdd |-> tdd, acs |-> none]
        \in {f \in MilestoneFile : Len(f.acs) <= MaxACs}
  BY <1>a, <1>b DEF MilestoneFile
<1>1. file \in FileOf(m)
  BY <1>c, KindFacts DEF FileOf, none
<1>2. GatedWrite(m, file, file)
  BY <1>1, GateForMilestone DEF AddMilestone
<1> QED
  BY <1>2 DEF VerbStep, ResultOK, AddMilestone, planEntityWrite, Land, Answer

LEMMA AddACShape ==
  ASSUME TypeOK, NEW m \in Milestones, NEW section \in Sections, NEW actor \in Actors,
         AddAC(m, section, actor)
  PROVE  VerbStep /\ ResultOK'
<1> DEFINE new(sec) == [status |-> "open", phase |-> None, section |-> sec]
           with(sec) == [disk[m] EXCEPT !.acs = Append(@, new(sec))]
<1>1. \A sec \in Sections : new(sec) \in AC
  BY DEF AC, Sections, ACStatuses, acTransitions, TDDPhases
<1>2. \A sec \in Sections : /\ with(sec) \in FileOf(m)
                            /\ Len(with(sec).acs) = Len(disk[m].acs) + 1
  <2> SUFFICES ASSUME NEW sec \in Sections
               PROVE  /\ with(sec) \in FileOf(m)
                      /\ Len(with(sec).acs) = Len(disk[m].acs) + 1
    OBVIOUS
  <2> DEFINE seq == Append(disk[m].acs, new(sec))
  <2>1. disk[m] \in MilestoneFile /\ disk[m].acs \in Seq(AC)
    BY DiskFiles DEF MilestoneFile
  <2>2. new(sec) \in AC
    BY <1>1
  <2> HIDE DEF new
  <2>3. seq \in Seq(AC) /\ Len(seq) = Len(disk[m].acs) + 1
    BY <2>1, <2>2, AppendProperties
  <2>4. Len(seq) <= MaxACs
    BY <2>3 DEF AddAC
  <2> HIDE DEF seq
  <2>5. /\ [disk[m] EXCEPT !.acs = seq] \in MilestoneFile
        /\ [disk[m] EXCEPT !.acs = seq].acs = seq
    BY <2>1, <2>3 DEF MilestoneFile
  <2> QED
    BY <2>3, <2>4, <2>5, KindFacts DEF FileOf, seq
<1>3. SameFrontmatter(with("missing"), with(section))
  <2>1. disk[m] \in MilestoneFile /\ disk[m].acs \in Seq(AC)
    BY DiskFiles DEF MilestoneFile
  <2>2. "missing" \in Sections /\ new("missing") \in AC /\ new(section) \in AC
    BY <1>1 DEF Sections
  <2> QED
    BY <2>1, <2>2, AppendProperties DEF SameFrontmatter, MilestoneFile
<1>4. GatedWrite(m, with(section), with("missing"))
  BY <1>2, <1>3, KindFacts DEF AddAC, GatedWrite, Written, Land, Sections
<1> QED
  BY <1>4 DEF VerbStep, ResultOK, AddAC, Land, Answer

LEMMA ConvergeShape ==
  ASSUME NEW verb, NEW actor \in Actors, NEW force \in BOOLEAN, NEW claim,
         Converge(verb, actor, force, claim)
  PROVE  VerbStep /\ ResultOK'
BY DEF Converge, VerbStep, ResultOK, Answer

(* A write of x's file with another status, behind the claim guard.          *)
LEMMA StatusWriteShape ==
  ASSUME TypeOK, NEW x \in Entities, guardClaim(x), NEW to \in Statuses(Kind(x)),
         NEW verb, NEW actor \in Actors, NEW force \in BOOLEAN, NEW claim,
         planEntityWrite(x, [disk[x] EXCEPT !.status = to], verb, actor, force, claim)
  PROVE  VerbStep /\ ResultOK'
<1> DEFINE file == [disk[x] EXCEPT !.status = to]
<1>1. CASE x \in Epics
  <2>1. disk[x] \in EpicFile /\ to \in Statuses("epic")
    BY <1>1, DiskFiles, KindFacts
  <2>2. file \in EpicFile /\ file.archived = disk[x].archived
    BY <2>1 DEF EpicFile
  <2>3. GatedWrite(x, file, file)
    BY <1>1, <2>2, GateForEpic DEF guardClaim
  <2> QED
    BY <2>3 DEF VerbStep, ResultOK, planEntityWrite, Land, Answer
<1>2. CASE x \in Milestones
  <2>1. /\ disk[x] \in MilestoneFile /\ Len(disk[x].acs) <= MaxACs
        /\ to \in Statuses("milestone")
    BY <1>2, DiskFiles, KindFacts
  <2>2. file \in MilestoneFile /\ Len(file.acs) <= MaxACs
    BY <2>1 DEF MilestoneFile
  <2>3. GatedWrite(x, file, file)
    BY <1>2, <2>2, GateForMilestone, KindFacts DEF guardClaim, FileOf
  <2> QED
    BY <2>3 DEF VerbStep, ResultOK, planEntityWrite, Land, Answer
<1> QED
  BY <1>1, <1>2, KindFacts

LEMMA PromoteShape ==
  ASSUME TypeOK, NEW x \in Entities, NEW to \in Statuses(Kind(x)), NEW actor \in Actors,
         NEW force \in BOOLEAN, Promote(x, to, actor, force)
  PROVE  VerbStep /\ ResultOK'
BY ConvergeShape, StatusWriteShape DEF Promote

LEMMA CancelShape ==
  ASSUME TypeOK, NEW x \in Entities, NEW actor \in Actors, NEW force \in BOOLEAN,
         Cancel(x, actor, force)
  PROVE  VerbStep /\ ResultOK'
<1>1. CancelTarget(Kind(x), disk[x].status) \in Statuses(Kind(x))
  BY FSMFacts, KindFacts
<1> QED
  BY <1>1, ConvergeShape, StatusWriteShape DEF Cancel

(* A write of m's file with one AC replaced, behind the claim guard.         *)
LEMMA ACWriteShape ==
  ASSUME TypeOK, NEW m \in Milestones, guardClaim(m), NEW i \in DOMAIN disk[m].acs,
         NEW ac \in AC,
         NEW verb, NEW actor \in Actors, NEW force \in BOOLEAN, NEW claim,
         planEntityWrite(m, [disk[m] EXCEPT !.acs[i] = ac], verb, actor, force, claim)
  PROVE  VerbStep /\ ResultOK'
<1> DEFINE file == [disk[m] EXCEPT !.acs[i] = ac]
<1>1. file \in FileOf(m)
  BY ReplacedFile
<1> HIDE DEF file
<1>2. GatedWrite(m, file, file)
  BY <1>1, GateForMilestone DEF guardClaim, file
<1> QED
  BY <1>2 DEF VerbStep, ResultOK, planEntityWrite, Land, Answer, file

LEMMA DiskACs ==
  ASSUME TypeOK, NEW m \in Milestones, NEW i \in DOMAIN disk[m].acs
  PROVE  disk[m].acs[i] \in AC
BY DiskFiles DEF MilestoneFile

LEMMA PromoteACShape ==
  ASSUME TypeOK, NEW m \in Milestones, NEW i \in DOMAIN disk[m].acs, NEW to \in ACStatuses,
         NEW actor \in Actors, NEW force \in BOOLEAN, promoteAC(m, i, to, actor, force)
  PROVE  VerbStep /\ ResultOK'
<1> DEFINE ac == disk[m].acs[i]
           moved == [ac EXCEPT !.status = to, !.phase = IF to = "open" THEN None ELSE @]
<1>1. moved \in AC
  BY DiskACs DEF AC, TDDPhases
<1> QED
  BY <1>1, ConvergeShape, ACWriteShape DEF promoteAC

LEMMA CancelACShape ==
  ASSUME TypeOK, NEW m \in Milestones, NEW i \in DOMAIN disk[m].acs,
         NEW actor \in Actors, NEW force \in BOOLEAN, cancelAC(m, i, actor, force)
  PROVE  VerbStep /\ ResultOK'
<1> DEFINE moved == [disk[m].acs[i] EXCEPT !.status = "cancelled"]
<1>1. moved \in AC
  BY DiskACs DEF AC, ACStatuses, acTransitions
<1>2. [disk[m] EXCEPT !.acs[i].status = "cancelled"] = [disk[m] EXCEPT !.acs[i] = moved]
  OBVIOUS
<1> QED
  BY <1>1, <1>2, ConvergeShape, ACWriteShape DEF cancelAC

LEMMA PromoteACPhaseShape ==
  ASSUME TypeOK, NEW m \in Milestones, NEW i \in DOMAIN disk[m].acs, NEW to \in TDDPhases,
         NEW actor \in Actors, NEW force \in BOOLEAN, PromoteACPhase(m, i, to, actor, force)
  PROVE  VerbStep /\ ResultOK'
<1> DEFINE moved == [disk[m].acs[i] EXCEPT !.phase = to]
<1>1. moved \in AC
  BY DiskACs DEF AC
<1>2. [disk[m] EXCEPT !.acs[i].phase = to] = [disk[m] EXCEPT !.acs[i] = moved]
  OBVIOUS
<1> QED
  BY <1>1, <1>2, ConvergeShape, ACWriteShape DEF PromoteACPhase

LEMMA MilestoneTDDShape ==
  ASSUME TypeOK, NEW m \in Milestones, NEW policy \in Policies, NEW actor \in Actors,
         MilestoneTDD(m, policy, actor)
  PROVE  VerbStep /\ ResultOK'
<1> DEFINE file == [disk[m] EXCEPT !.tdd = policy]
<1>1. file \in MilestoneFile /\ Len(file.acs) <= MaxACs
  BY DiskFiles DEF MilestoneFile
<1>2. ASSUME planEntityWrite(m, file, "milestone-tdd", actor, FALSE,
                             Claim(m, "tdd", 0, policy)),
             guardClaim(m)
      PROVE  VerbStep /\ ResultOK'
  <2>1. GatedWrite(m, file, file)
    BY <1>1, <1>2, GateForMilestone, KindFacts DEF guardClaim, FileOf
  <2> QED
    BY <1>2, <2>1 DEF VerbStep, ResultOK, planEntityWrite, Land, Answer
<1> QED
  BY <1>2, ConvergeShape DEF MilestoneTDD

LEMMA UnreadableFile ==
  ASSUME NEW f \in MilestoneFile
  PROVE  /\ Unreadable(f) \in MilestoneFile
         /\ Len(Unreadable(f).acs) = Len(f.acs)
         /\ SameFrontmatter(Unreadable(f), f)
<1> DEFINE seq == [i \in DOMAIN f.acs |-> [f.acs[i] EXCEPT !.section = "missing"]]
<1>1. f.acs \in Seq(AC)
  BY DEF MilestoneFile
<1>2. DOMAIN f.acs = 1..Len(f.acs) /\ Len(f.acs) \in Nat
  BY <1>1
<1>3. \A i \in 1..Len(f.acs) : [f.acs[i] EXCEPT !.section = "missing"] \in AC
  <2>1. \A i \in 1..Len(f.acs) : f.acs[i] \in AC
    BY <1>1
  <2>2. \A ac \in AC : [ac EXCEPT !.section = "missing"] \in AC
    BY DEF AC, Sections
  <2> QED
    BY <2>1, <2>2
<1>4. seq \in Seq(AC) /\ Len(seq) = Len(f.acs)
  BY <1>2, <1>3, SeqDef
<1>5. \A i \in DOMAIN f.acs : seq[i].status = f.acs[i].status /\ seq[i].phase = f.acs[i].phase
  BY <1>1 DEF AC
<1>6. DOMAIN seq = DOMAIN f.acs /\ Unreadable(f) = [f EXCEPT !.acs = seq]
  BY DEF Unreadable
<1> HIDE DEF seq
<1> QED
  BY <1>4, <1>5, <1>6 DEF MilestoneFile, SameFrontmatter

LEMMA MoveShape ==
  ASSUME TypeOK, NEW m \in Milestones, NEW e \in Epics, NEW actor \in Actors,
         Move(m, e, actor)
  PROVE  VerbStep /\ ResultOK'
<1> DEFINE file == [disk[m] EXCEPT !.parent = e]
<1>1. file \in MilestoneFile /\ Len(file.acs) <= MaxACs
  BY DiskFiles DEF MilestoneFile
<1> HIDE DEF file
<1>2. ASSUME ProjectionClean(m, Unreadable(file)), guardClaim(m),
             Land(m, file, "move", actor, FALSE, Claim(m, "parent", 0, e))
      PROVE  VerbStep /\ ResultOK'
  <2>1. GatedWrite(m, file, Unreadable(file))
    BY <1>1, <1>2, UnreadableFile, KindFacts DEF guardClaim, FileOf, GatedWrite, Land, Written
  <2> QED
    BY <1>2, <2>1 DEF VerbStep, ResultOK, Land, Answer
<1> QED
  BY <1>2, ConvergeShape DEF Move, file

(* Both body edits keep the frontmatter the record already has.              *)
LEMMA SectionedFile ==
  ASSUME TypeOK, NEW m \in Milestones, NEW i \in DOMAIN disk[m].acs,
         NEW section \in Sections
  PROVE  /\ Sectioned(disk[m], i, section) \in FileOf(m)
         /\ SameFrontmatter(Sectioned(disk[m], i, section), disk[m])
<1> DEFINE ac == [disk[m].acs[i] EXCEPT !.section = section]
           file == [disk[m] EXCEPT !.acs[i] = ac]
<1>1. ac \in AC /\ ac.status = disk[m].acs[i].status /\ ac.phase = disk[m].acs[i].phase
  BY DiskACs DEF AC
<1>2. Sectioned(disk[m], i, section) = file
  BY DEF Sectioned
<1>3. file \in FileOf(m)
  BY <1>1, ReplacedFile
<1>4. disk[m] \in MilestoneFile
  BY DiskFiles
<1> HIDE DEF ac
<1>5. SameFrontmatter(file, disk[m])
  <2>1. /\ DOMAIN file.acs = DOMAIN disk[m].acs
        /\ file.status = disk[m].status /\ file.parent = disk[m].parent
        /\ file.tdd = disk[m].tdd
        /\ file.acs[i] = ac
        /\ \A j \in DOMAIN disk[m].acs \ {i} : file.acs[j] = disk[m].acs[j]
    BY <1>1, <1>4, ReplaceAC
  <2> QED
    BY <1>1, <2>1 DEF SameFrontmatter
<1> QED
  BY <1>2, <1>3, <1>5

LEMMA SameFrontmatterTransitive ==
  ASSUME NEW f, NEW g, NEW h, SameFrontmatter(f, g), SameFrontmatter(g, h)
  PROVE  SameFrontmatter(f, h)
BY DEF SameFrontmatter

LEMMA BodyWriteShape ==
  ASSUME NEW m \in Milestones, NEW file \in FileOf(m), Exists(disk, m),
         SameFrontmatter(file, disk[m]), SameFrontmatter(disk[m], head[m]),
         NEW actor \in Actors, Land(m, file, "edit-body", actor, FALSE, NoClaim)
  PROVE  VerbStep /\ ResultOK'
<1>1. BodyWrite(m, file)
  BY SameFrontmatterTransitive DEF BodyWrite, Written, Land
<1> QED
  BY <1>1 DEF VerbStep, ResultOK, Land, Answer

LEMMA EditBodyExplicitShape ==
  ASSUME TypeOK, NEW m \in Milestones, NEW i \in DOMAIN disk[m].acs,
         NEW section \in Sections, NEW actor \in Actors,
         editBodyExplicit(m, i, section, actor)
  PROVE  VerbStep /\ ResultOK'
BY SectionedFile, BodyWriteShape, ConvergeShape DEF editBodyExplicit

LEMMA EditBodyBlessShape ==
  ASSUME TypeOK, NEW m \in Milestones, NEW actor \in Actors, editBodyBless(m, actor)
  PROVE  VerbStep /\ ResultOK'
<1>1. SameFrontmatter(disk[m], disk[m]) /\ disk[m] \in FileOf(m)
  BY DiskFiles DEF SameFrontmatter
<1> QED
  BY <1>1, BodyWriteShape DEF editBodyBless

LEMMA FlagsAreBoolean == ForceFlags \subseteq BOOLEAN
BY LifecycleAssumption DEF LifecycleAssumption, ForceFlags

LEMMA ACVerbsShape ==
  ASSUME TypeOK, NEW m \in Milestones, NEW i \in DOMAIN disk[m].acs,
         NEW actor \in Actors, ACVerbs(m, i, actor)
  PROVE  VerbStep /\ ResultOK'
BY FlagsAreBoolean, PromoteACShape, PromoteACPhaseShape, CancelACShape, EditBodyExplicitShape
   DEF ACVerbs

LEMMA MilestoneVerbsShape ==
  ASSUME TypeOK, NEW m \in Milestones, NEW actor \in Actors, MilestoneVerbs(m, actor)
  PROVE  VerbStep /\ ResultOK'
BY AddMilestoneShape, AddACShape, ACVerbsShape, MilestoneTDDShape, MoveShape,
   EditBodyBlessShape
   DEF MilestoneVerbs

(* Every verb is one of the four shapes.                                     *)
LEMMA VerbShape ==
  ASSUME TypeOK, NEW actor \in Actors, Verb(actor)
  PROVE  VerbStep /\ ResultOK'
<1>1. CASE \E e \in Epics : AddEpic(e, actor)
  BY <1>1, AddEpicShape
<1>2. CASE \E m \in Milestones : MilestoneVerbs(m, actor)
  BY <1>2, MilestoneVerbsShape
<1>3. CASE \E x \in Entities : StatusVerbs(x, actor)
  BY <1>3, FlagsAreBoolean, PromoteShape, CancelShape DEF StatusVerbs
<1>4. CASE Archive(actor)
  BY <1>4 DEF VerbStep, ResultOK, Archive, Answer
<1> QED
  BY <1>1, <1>2, <1>3, <1>4 DEF Verb

-----------------------------------------------------------------------------
(* Type correctness.                                                         *)

LEMMA FileKept ==
  ASSUME NEW t, TreeOK(t), NEW x \in Entities, NEW file \in FileOf(x)
  PROVE  TreeOK([t EXCEPT ![x] = file])
<1>1. file \in EpicFile \cup MilestoneFile
  BY DEF FileOf
<1> QED
  BY <1>1 DEF TreeOK

LEMMA WriteKeepsTrees ==
  ASSUME TreeOK(disk), TreeOK(head), NEW x \in Entities, NEW file \in FileOf(x),
         Written(x, file)
  PROVE  TreeOK(disk') /\ TreeOK(head')
BY FileKept DEF Written

LEMMA SweptFile ==
  ASSUME NEW x \in Epics, NEW f \in EpicFile
  PROVE  [f EXCEPT !.archived = TRUE] \in FileOf(x)
BY KindFacts DEF FileOf, EpicFile

LEMMA SweepKeepsTrees ==
  ASSUME TypeOK, NEW actor, Archive(actor)
  PROVE  TreeOK(disk') /\ TreeOK(head')
<1> DEFINE swept(t) == [x \in Entities |->
                          IF x \in Sweepable THEN [t[x] EXCEPT !.archived = TRUE] ELSE t[x]]
<1>1. ASSUME NEW t, TreeOK(t), NEW x \in Entities
      PROVE  swept(t)[x] \in FileOf(x)
  <2>1. CASE x \in Sweepable
    <3>1. x \in Epics
      BY <2>1 DEF Sweepable
    <3>2. t[x] \in EpicFile
      BY <1>1, <3>1 DEF TreeOK, FileOf
    <3> QED
      BY <2>1, <3>1, <3>2, SweptFile
  <2>2. CASE x \notin Sweepable
    BY <1>1, <2>2 DEF TreeOK
  <2> QED
    BY <2>1, <2>2
<1>2. \A x \in Entities : FileOf(x) \subseteq EpicFile \cup MilestoneFile
  BY DEF FileOf
<1>3. ASSUME NEW t, TreeOK(t) PROVE TreeOK(swept(t))
  <2>1. \A x \in Entities : swept(t)[x] \in FileOf(x)
    BY <1>1, <1>3
  <2>2. \A x \in Entities : swept(t)[x] \in EpicFile \cup MilestoneFile
    BY <1>2, <2>1
  <2> QED
    BY <2>1, <2>2 DEF TreeOK
<1>4. disk' = swept(disk) /\ head' = swept(head)
  BY DEF Archive
<1> HIDE DEF swept
<1> QED
  BY <1>3, <1>4 DEF TypeOK

LEMMA VerbKeepsTrees ==
  ASSUME TypeOK, VerbStep
  PROVE  TreeOK(disk') /\ TreeOK(head')
<1>1. TreeOK(disk) /\ TreeOK(head)
  BY DEF TypeOK
<1>2. CASE \E x, file, p : GatedWrite(x, file, p)
  BY <1>1, <1>2, WriteKeepsTrees DEF GatedWrite
<1>3. CASE \E m, file : BodyWrite(m, file)
  BY <1>1, <1>3, WriteKeepsTrees, KindFacts DEF BodyWrite
<1>4. CASE \E actor : Archive(actor)
  BY <1>4, SweepKeepsTrees
<1>5. CASE UNCHANGED <<disk, head>>
  BY <1>1, <1>5 DEF TreeOK
<1> QED
  BY <1>2, <1>3, <1>4, <1>5 DEF VerbStep

(* An editor session leaves a well-formed file of the same entity.           *)
LEMMA EditedFile ==
  ASSUME TypeOK, NEW x \in Entities, NEW file \in Edited(x)
  PROVE  file \in FileOf(x)
<1>1. CASE x \in Epics
  <2>1. \E s \in Statuses("epic") : file = [disk[x] EXCEPT !.status = s]
    BY <1>1, KindFacts DEF Edited
  <2> QED
    BY <1>1, <2>1, DiskFiles DEF FileOf, EpicFile
<1>2. CASE x \in Milestones
  <2>1. disk[x] \in MilestoneFile /\ Len(disk[x].acs) <= MaxACs
    BY <1>2, DiskFiles
  <2>2. CASE \E s \in Statuses("milestone") : file = [disk[x] EXCEPT !.status = s]
    BY <1>2, <2>1, <2>2, KindFacts DEF FileOf, MilestoneFile
  <2>3. CASE \E i \in DOMAIN disk[x].acs : file \in EditedACs(disk[x], i)
    <3>1. PICK i \in DOMAIN disk[x].acs : file \in EditedACs(disk[x], i)
      BY <2>3
    <3> DEFINE ac == disk[x].acs[i]
    <3>2. ac \in AC
      BY <1>2, DiskACs
    <3>3. \E new \in AC : file = [disk[x] EXCEPT !.acs[i] = new]
      <4>1. CASE \E s \in ACStatuses : file = [disk[x] EXCEPT !.acs[i].status = s]
        <5>1. PICK s \in ACStatuses : file = [disk[x] EXCEPT !.acs[i].status = s]
          BY <4>1
        <5>2. [ac EXCEPT !.status = s] \in AC
          BY <3>2 DEF AC
        <5> QED
          BY <5>1, <5>2
      <4>2. CASE \E p \in TDDPhases : file = [disk[x] EXCEPT !.acs[i].phase = p]
        <5>1. PICK p \in TDDPhases : file = [disk[x] EXCEPT !.acs[i].phase = p]
          BY <4>2
        <5>2. [ac EXCEPT !.phase = p] \in AC
          BY <3>2 DEF AC
        <5> QED
          BY <5>1, <5>2
      <4>3. CASE \E sec \in Sections : file = [disk[x] EXCEPT !.acs[i].section = sec]
        <5>1. PICK sec \in Sections : file = [disk[x] EXCEPT !.acs[i].section = sec]
          BY <4>3
        <5>2. [ac EXCEPT !.section = sec] \in AC
          BY <3>2 DEF AC
        <5> QED
          BY <5>1, <5>2
      <4> QED
        BY <3>1, <4>1, <4>2, <4>3 DEF EditedACs
    <3> QED
      BY <1>2, <3>3, ReplacedFile
  <2> QED
    BY <1>2, <2>2, <2>3, KindFacts DEF Edited
<1> QED
  BY <1>1, <1>2, KindFacts

LEMMA OperatorKeepsTrees ==
  ASSUME TypeOK, Operator
  PROVE  TreeOK(disk') /\ TreeOK(head') /\ ResultOK'
<1>0. TreeOK(disk) /\ TreeOK(head)
  BY DEF TypeOK
<1>1. ASSUME NEW x \in Entities, HandEdit(x) PROVE TreeOK(disk') /\ head' = head
  <2>1. PICK file \in Edited(x) : disk' = [disk EXCEPT ![x] = file]
    BY <1>1 DEF HandEdit
  <2>2. TreeOK([disk EXCEPT ![x] = file])
    BY <1>0, EditedFile, FileKept
  <2> QED
    BY <1>1, <2>1, <2>2 DEF HandEdit
<1>2. ASSUME NEW x \in Entities, Restore(x) PROVE TreeOK(disk') /\ head' = head
  <2>1. head[x] \in FileOf(x)
    BY <1>0 DEF TreeOK
  <2> QED
    BY <1>0, <1>2, <2>1, FileKept DEF Restore
<1>3. ASSUME RawCommit PROVE disk' = disk /\ head' = disk
  BY <1>3 DEF RawCommit
<1>4. result' = Silent
  BY DEF Operator, HandEdit, Restore, RawCommit
<1>5. ResultOK'
  BY <1>4 DEF ResultOK, Silent, Actors
<1>6. TreeOK(disk') /\ TreeOK(head')
  BY <1>0, <1>1, <1>2, <1>3 DEF Operator, TreeOK
<1> QED
  BY <1>5, <1>6

LEMMA InitTypeOK ==
  ASSUME Init
  PROVE  TypeOK
<1>1. NoEpic \in EpicFile
  BY DEF NoEpic, EpicFile
<1>2. NoMilestone \in MilestoneFile /\ Len(NoMilestone.acs) <= MaxACs
  <2> DEFINE none == <<>>
  <2>1. none \in Seq(AC) /\ Len(none) = 0
    OBVIOUS
  <2> HIDE DEF none
  <2>2. [status |-> Absent, parent |-> None, tdd |-> "none", acs |-> none] \in MilestoneFile
    BY <2>1 DEF MilestoneFile, TDDPolicies
  <2> QED
    BY <2>1, <2>2 DEF NoMilestone, none
<1>3. \A x \in Entities : (IF x \in Epics THEN NoEpic ELSE NoMilestone) \in FileOf(x)
  BY <1>1, <1>2, KindFacts DEF FileOf
<1>4. TreeOK([x \in Entities |-> IF x \in Epics THEN NoEpic ELSE NoMilestone])
  BY <1>1, <1>2, <1>3 DEF TreeOK
<1> QED
  BY <1>4 DEF Init, TypeOK, Silent, Actors

LEMMA NextTypeOK ==
  ASSUME TypeOK, [Next]_vars
  PROVE  TypeOK'
<1>1. CASE \E actor \in Actors : Verb(actor)
  BY <1>1, VerbShape, VerbKeepsTrees DEF TypeOK, ResultOK
<1>2. CASE Operator
  BY <1>2, OperatorKeepsTrees DEF TypeOK, ResultOK
<1>3. CASE UNCHANGED vars
  BY <1>3 DEF vars, TypeOK, TreeOK
<1> QED
  BY <1>1, <1>2, <1>3 DEF Next

(* Every reachable working copy and record is a well-formed planning tree:   *)
(* each file holds a recognized status of its kind, each criterion a         *)
(* recognized status and phase, whatever the verbs, --force and the          *)
(* operator's editor do, for any number of epics, milestones and criteria.   *)
THEOREM TypeCorrect == Spec => []TypeOK
<1>1. Init => TypeOK
  BY InitTypeOK
<1>2. TypeOK /\ [Next]_vars => TypeOK'
  BY NextTypeOK
<1> QED
  BY <1>1, <1>2, PTL DEF Spec

-----------------------------------------------------------------------------
(* The working copy and the record agree on what no editor session changes:  *)
(* which files exist, which epics are archived, whose directory a milestone  *)
(* is in.                                                                    *)

Agree ==
  /\ \A x \in Entities : Exists(disk, x) <=> Exists(head, x)
  /\ \A e \in Epics : disk[e].archived = head[e].archived
  /\ \A m \in Milestones : disk[m].parent = head[m].parent

(* A write of the same file to both trees, and what the rest keeps.          *)
LEMMA WrittenFiles ==
  ASSUME TypeOK, NEW x \in Entities, NEW file, Written(x, file)
  PROVE  /\ disk'[x] = file /\ head'[x] = file
         /\ \A y \in Entities \ {x} : disk'[y] = disk[y] /\ head'[y] = head[y]
BY DEF Written, TypeOK, TreeOK

LEMMA SweptFields ==
  ASSUME TypeOK, NEW actor, Archive(actor)
  PROVE  /\ \A m \in Milestones : disk'[m] = disk[m] /\ head'[m] = head[m]
         /\ \A e \in Epics : /\ disk'[e].status = disk[e].status
                             /\ head'[e].status = head[e].status
                             /\ e \in Sweepable => /\ disk'[e].archived = TRUE
                                                   /\ head'[e].archived = TRUE
                             /\ e \notin Sweepable => disk'[e] = disk[e] /\ head'[e] = head[e]
<1>1. /\ disk' = [x \in Entities |->
                   IF x \in Sweepable THEN [disk[x] EXCEPT !.archived = TRUE] ELSE disk[x]]
      /\ head' = [x \in Entities |->
                   IF x \in Sweepable THEN [head[x] EXCEPT !.archived = TRUE] ELSE head[x]]
  BY DEF Archive
<1>2. Sweepable \subseteq Epics
  BY DEF Sweepable
<1>3. \A e \in Epics : disk[e] \in EpicFile /\ head[e] \in EpicFile
  BY DiskFiles
<1>4. \A f \in EpicFile : /\ [f EXCEPT !.archived = TRUE].status = f.status
                          /\ [f EXCEPT !.archived = TRUE].archived = TRUE
  BY DEF EpicFile
<1> QED
  BY <1>1, <1>2, <1>3, <1>4, KindFacts

(* An editor session changes neither of the three.                           *)
LEMMA EditedAgrees ==
  ASSUME TypeOK, NEW x \in Entities, Exists(disk, x), NEW file \in Edited(x)
  PROVE  /\ file.status # Absent
         /\ x \in Epics => file.archived = disk[x].archived
         /\ x \in Milestones => file.parent = disk[x].parent
<1>1. CASE x \in Epics
  <2>1. \E s \in Statuses("epic") : file = [disk[x] EXCEPT !.status = s]
    BY <1>1, KindFacts DEF Edited
  <2> QED
    BY <1>1, <2>1, DiskFiles, FSMFacts, KindFacts DEF EpicFile, Absent
<1>2. CASE x \in Milestones
  <2>1. disk[x] \in MilestoneFile
    BY <1>2, DiskFiles
  <2>2. CASE \E s \in Statuses("milestone") : file = [disk[x] EXCEPT !.status = s]
    BY <1>2, <2>1, <2>2, FSMFacts, KindFacts DEF MilestoneFile, Absent
  <2>3. CASE \E i \in DOMAIN disk[x].acs : file \in EditedACs(disk[x], i)
    <3>1. file.status = disk[x].status /\ file.parent = disk[x].parent
      BY <2>1, <2>3 DEF EditedACs, MilestoneFile
    <3> QED
      BY <1>2, <3>1, KindFacts DEF Exists
  <2> QED
    BY <1>2, <2>2, <2>3, KindFacts DEF Edited
<1> QED
  BY <1>1, <1>2, KindFacts

LEMMA WriteAgrees ==
  ASSUME TypeOK, Agree, NEW x \in Entities, NEW file, Written(x, file)
  PROVE  Agree'
BY WrittenFiles, KindFacts DEF Agree, Exists

LEMMA SweepAgrees ==
  ASSUME TypeOK, Agree, NEW actor, Archive(actor)
  PROVE  Agree'
<1>1. \A m \in Milestones : disk'[m] = disk[m] /\ head'[m] = head[m]
  BY SweptFields
<1>2. \A e \in Epics : disk'[e].status = disk[e].status /\ head'[e].status = head[e].status
  BY SweptFields
<1>3. \A e \in Epics : disk'[e].archived = head'[e].archived
  <2>1. \A e \in Epics : disk[e].archived = head[e].archived
    BY DEF Agree
  <2> QED
    BY <2>1, SweptFields
<1> QED
  BY <1>1, <1>2, <1>3, KindFacts DEF Agree, Exists

LEMMA VerbAgrees ==
  ASSUME TypeOK, Agree, VerbStep
  PROVE  Agree'
<1>1. CASE \E x, file, p : GatedWrite(x, file, p)
  BY <1>1, WriteAgrees DEF GatedWrite
<1>2. CASE \E m, file : BodyWrite(m, file)
  BY <1>2, WriteAgrees, KindFacts DEF BodyWrite
<1>3. CASE \E actor : Archive(actor)
  BY <1>3, SweepAgrees
<1>4. CASE UNCHANGED <<disk, head>>
  BY <1>4 DEF Agree, Exists
<1> QED
  BY <1>1, <1>2, <1>3, <1>4 DEF VerbStep

LEMMA OperatorAgrees ==
  ASSUME TypeOK, Agree, Operator
  PROVE  Agree'
<1>1. ASSUME NEW x \in Entities, HandEdit(x) PROVE Agree'
  <2>1. PICK file \in Edited(x) : disk' = [disk EXCEPT ![x] = file]
    BY <1>1 DEF HandEdit
  <2>2. /\ Exists(disk, x) /\ head' = head
        /\ disk'[x] = file
        /\ \A y \in Entities \ {x} : disk'[y] = disk[y]
    BY <1>1, <2>1 DEF HandEdit, TypeOK, TreeOK
  <2> QED
    BY <2>2, EditedAgrees, KindFacts DEF Agree, Exists
<1>2. ASSUME NEW x \in Entities, Restore(x) PROVE Agree'
  <2>1. /\ head' = head
        /\ disk'[x] = head[x]
        /\ \A y \in Entities \ {x} : disk'[y] = disk[y]
    BY <1>2 DEF Restore, TypeOK, TreeOK
  <2> QED
    BY <2>1, KindFacts DEF Agree, Exists
<1>3. ASSUME RawCommit PROVE Agree'
  BY <1>3 DEF RawCommit, Agree, Exists
<1> QED
  BY <1>1, <1>2, <1>3 DEF Operator

LEMMA NextAgrees ==
  ASSUME TypeOK, Agree, [Next]_vars
  PROVE  Agree'
<1>1. CASE UNCHANGED vars
  BY <1>1 DEF vars, Agree, Exists
<1> QED
  BY <1>1, VerbShape, VerbAgrees, OperatorAgrees DEF Next

-----------------------------------------------------------------------------
(* The projection net.  The rules' findings differ by code, so an error of   *)
(* one rule in the projection was an error of the same rule before.          *)

LEMMA NetPerRule ==
  ASSUME NEW x, NEW p, ProjectionClean(x, p)
  PROVE  LET t == [disk EXCEPT ![x] = p] IN
         /\ epicTerminalNonTerminalChildren(t) \subseteq epicTerminalNonTerminalChildren(disk)
         /\ archivedEntityNotTerminal(t) \subseteq archivedEntityNotTerminal(disk)
         /\ acsTDDAudit(t) \subseteq acsTDDAudit(disk)
         /\ milestoneTerminalIncompleteACs(t) \subseteq milestoneTerminalIncompleteACs(disk)
<1> DEFINE t == [disk EXCEPT ![x] = p]
<1>1. Errors(t) \subseteq Errors(disk)
  BY DEF ProjectionClean, projectionFindings
<1>2. ASSUME NEW u
      PROVE  /\ \A f \in epicTerminalNonTerminalChildren(u) :
                  f.code = "epic-terminal-non-terminal-children"
             /\ \A f \in archivedEntityNotTerminal(u) : f.code = "archived-entity-not-terminal"
             /\ \A f \in acsTDDAudit(u) : f.code = "acs-tdd-audit"
             /\ \A f \in milestoneTerminalIncompleteACs(u) :
                  f.code = "milestone-terminal-incomplete-acs"
             /\ \A f \in acsEmptyBodyOnStart(u) : f.code = "acs-empty-body-on-start"
  <2>1. \A f \in epicTerminalNonTerminalChildren(u) :
           f.code = "epic-terminal-non-terminal-children"
    BY DEF epicTerminalNonTerminalChildren, Orphaning, Finding
  <2>2. \A f \in archivedEntityNotTerminal(u) : f.code = "archived-entity-not-terminal"
    BY DEF archivedEntityNotTerminal, Finding
  <2>3. \A f \in acsTDDAudit(u) : f.code = "acs-tdd-audit"
    BY DEF acsTDDAudit, Finding
  <2>4. \A f \in milestoneTerminalIncompleteACs(u) :
           f.code = "milestone-terminal-incomplete-acs"
    BY DEF milestoneTerminalIncompleteACs, Incomplete, Finding
  <2>5. \A f \in acsEmptyBodyOnStart(u) : f.code = "acs-empty-body-on-start"
    BY DEF acsEmptyBodyOnStart, Finding
  <2> QED
    BY <2>1, <2>2, <2>3, <2>4, <2>5
<1> HIDE DEF t
<1>3. /\ epicTerminalNonTerminalChildren(t) \subseteq epicTerminalNonTerminalChildren(disk)
      /\ archivedEntityNotTerminal(t) \subseteq archivedEntityNotTerminal(disk)
      /\ acsTDDAudit(t) \subseteq acsTDDAudit(disk)
      /\ milestoneTerminalIncompleteACs(t) \subseteq milestoneTerminalIncompleteACs(disk)
  BY <1>1, <1>2 DEF Errors
<1> QED
  BY <1>3 DEF t

-----------------------------------------------------------------------------
(* The safety of the record, entity by entity.                               *)

ClosedIn(t, m) ==
  (Terminal(t, m) /\ ~IsArchivedPath(t, m)) =>
    \A i \in DOMAIN t[m].acs : t[m].acs[i].status # "open"

DoneIn(t, m) ==
  (Exists(t, m) /\ ~IsArchivedPath(t, m) /\ t[m].tdd = "required") =>
    \A i \in DOMAIN t[m].acs : t[m].acs[i].status = "met" => t[m].acs[i].phase = "done"

FiledIn(t, x) == (Exists(t, x) /\ IsArchivedPath(t, x)) => Terminal(t, x)

RecordSafe(t) ==
  /\ \A m \in Milestones : ClosedIn(t, m) /\ DoneIn(t, m)
  /\ \A x \in Entities : FiledIn(t, x)

LEMMA RecordSafeMeans ==
  RecordSafe(head) <=> ClosedContracts /\ MetMeansDone /\ ArchivedTerminal
BY DEF RecordSafe, ClosedIn, DoneIn, FiledIn, ClosedContracts, MetMeansDone, ArchivedTerminal

(* A finding names its file, so x's clean projection is safe at x whenever   *)
(* the working copy was.                                                     *)
LEMMA NetAtWrite ==
  ASSUME NEW x \in Entities, NEW p, ProjectionClean(x, p),
         x \in Milestones => ClosedIn(disk, x) /\ DoneIn(disk, x),
         FiledIn(disk, x)
  PROVE  LET t == [disk EXCEPT ![x] = p] IN
         /\ x \in Milestones => ClosedIn(t, x) /\ DoneIn(t, x)
         /\ FiledIn(t, x)
<1> DEFINE t == [disk EXCEPT ![x] = p]
<1>1. /\ archivedEntityNotTerminal(t) \subseteq archivedEntityNotTerminal(disk)
      /\ acsTDDAudit(t) \subseteq acsTDDAudit(disk)
      /\ milestoneTerminalIncompleteACs(t) \subseteq milestoneTerminalIncompleteACs(disk)
  BY NetPerRule
<1> HIDE DEF t
<1>2. \A u, y, z, i, j, c, a, b :
        Finding(c, Path(t, y), i, a) = Finding(c, Path(u, z), j, b) => y = z
  BY DEF Finding, Path
<1>3. ASSUME x \in Milestones PROVE ClosedIn(t, x)
  <2> SUFFICES ASSUME Terminal(t, x), ~IsArchivedPath(t, x), OpenACs(t[x]) # {}
               PROVE  FALSE
    BY DEF ClosedIn, OpenACs
  <2>1. Incomplete(t, x) \in milestoneTerminalIncompleteACs(t)
    BY <1>3 DEF milestoneTerminalIncompleteACs, ActiveMilestones, Terminal
  <2>2. PICK m \in ActiveMilestones(disk) :
          /\ Incomplete(t, x) = Incomplete(disk, m)
          /\ Terminal(disk, m) /\ OpenACs(disk[m]) # {}
    BY <1>1, <2>1 DEF milestoneTerminalIncompleteACs
  <2>3. m = x
    BY <1>2, <2>2 DEF Incomplete
  <2> QED
    BY <1>3, <2>2, <2>3 DEF ClosedIn, OpenACs, ActiveMilestones
<1>4. ASSUME x \in Milestones PROVE DoneIn(t, x)
  <2> SUFFICES ASSUME Exists(t, x), ~IsArchivedPath(t, x), t[x].tdd = "required",
                      NEW i \in DOMAIN t[x].acs,
                      t[x].acs[i].status = "met", t[x].acs[i].phase # "done"
               PROVE  FALSE
    BY DEF DoneIn
  <2>1. Finding("acs-tdd-audit", Path(t, x), i, t[x].acs[i].phase) \in acsTDDAudit(t)
    BY <1>4 DEF acsTDDAudit, ActiveMilestones
  <2>2. PICK m \in ActiveMilestones(disk) :
          \E j \in DOMAIN disk[m].acs :
             /\ Finding("acs-tdd-audit", Path(t, x), i, t[x].acs[i].phase) =
                  Finding("acs-tdd-audit", Path(disk, m), j, disk[m].acs[j].phase)
             /\ disk[m].tdd = "required"
             /\ disk[m].acs[j].status = "met" /\ disk[m].acs[j].phase # "done"
    BY <1>1, <2>1 DEF acsTDDAudit
  <2>3. m = x
    BY <1>2, <2>2
  <2> QED
    BY <1>4, <2>2, <2>3 DEF DoneIn, ActiveMilestones
<1>5. FiledIn(t, x)
  <2> SUFFICES ASSUME Exists(t, x), IsArchivedPath(t, x), ~Terminal(t, x)
               PROVE  FALSE
    BY DEF FiledIn
  <2>1. Finding("archived-entity-not-terminal", Path(t, x), 0, t[x].status)
          \in archivedEntityNotTerminal(t)
    BY DEF archivedEntityNotTerminal
  <2>2. PICK y \in Entities :
          /\ Finding("archived-entity-not-terminal", Path(t, x), 0, t[x].status) =
               Finding("archived-entity-not-terminal", Path(disk, y), 0, disk[y].status)
          /\ Exists(disk, y) /\ IsArchivedPath(disk, y) /\ ~Terminal(disk, y)
    BY <1>1, <2>1 DEF archivedEntityNotTerminal
  <2>3. y = x
    BY <1>2, <2>2
  <2> QED
    BY <2>2, <2>3 DEF FiledIn
<1> QED
  BY <1>3, <1>4, <1>5 DEF t

(* The predicates read an entity's frontmatter and where it is filed.        *)
SameAt(t, u, x) ==
  /\ IsArchivedPath(t, x) <=> IsArchivedPath(u, x)
  /\ t[x].status = u[x].status
  /\ x \in Milestones => SameFrontmatter(t[x], u[x])

LEMMA SafeSameAt ==
  ASSUME NEW t, NEW u, NEW x \in Entities, SameAt(t, u, x),
         x \in Milestones => ClosedIn(t, x) /\ DoneIn(t, x),
         FiledIn(t, x)
  PROVE  /\ x \in Milestones => ClosedIn(u, x) /\ DoneIn(u, x)
         /\ FiledIn(u, x)
BY DEF SameAt, SameFrontmatter, ClosedIn, DoneIn, FiledIn, Terminal, Exists

LEMMA GatedWriteSafe ==
  ASSUME TypeOK, Agree, RecordSafe(head), NEW x, NEW file, NEW p, GatedWrite(x, file, p)
  PROVE  RecordSafe(head')
<1> DEFINE t == [disk EXCEPT ![x] = p]
<1>1. /\ x \in Entities /\ disk[x] = head[x]
      /\ head'[x] = file
      /\ \A y \in Entities \ {x} : head'[y] = head[y]
  BY WrittenFiles DEF GatedWrite
<1>2. /\ t[x] = p
      /\ \A y \in Entities \ {x} : t[y] = disk[y]
  BY <1>1 DEF TypeOK, TreeOK
<1>3. ASSUME NEW e \in Epics
      PROVE  head'[e].archived = head[e].archived
  BY <1>1, KindFacts DEF GatedWrite
<1>4. /\ x \in Milestones => ClosedIn(disk, x) /\ DoneIn(disk, x)
      /\ FiledIn(disk, x)
  <2>1. SameAt(head, disk, x)
    BY <1>1, KindFacts DEF SameAt, SameFrontmatter, IsArchivedPath, Agree
  <2> QED
    BY <1>1, <2>1, SafeSameAt DEF RecordSafe
<1>5. /\ x \in Milestones => ClosedIn(t, x) /\ DoneIn(t, x)
      /\ FiledIn(t, x)
  BY <1>1, <1>4, NetAtWrite DEF GatedWrite
<1>6. SameAt(t, head', x)
  <2>1. CASE x \in Epics
    BY <1>1, <1>2, <2>1, KindFacts DEF SameAt, IsArchivedPath, GatedWrite
  <2>2. CASE x \in Milestones
    <3>1. SameFrontmatter(p, file)
      BY <2>2 DEF GatedWrite
    <3>2. \A e \in Epics : t[e].archived = head'[e].archived
      BY <1>2, <1>3, <2>2, KindFacts DEF Agree
    <3> QED
      BY <1>1, <1>2, <2>2, <3>1, <3>2, KindFacts DEF SameAt, SameFrontmatter, IsArchivedPath
  <2> QED
    BY <1>1, <2>1, <2>2, KindFacts
<1> HIDE DEF t
<1>7. ASSUME NEW y \in Entities \ {x}
      PROVE  SameAt(head, head', y)
  BY <1>1, <1>3, <1>7, KindFacts DEF SameAt, SameFrontmatter, IsArchivedPath
<1>8. \A y \in Entities : /\ y \in Milestones => ClosedIn(head', y) /\ DoneIn(head', y)
                          /\ FiledIn(head', y)
  <2>1. /\ x \in Milestones => ClosedIn(head', x) /\ DoneIn(head', x)
        /\ FiledIn(head', x)
    BY <1>1, <1>5, <1>6, SafeSameAt
  <2>2. ASSUME NEW y \in Entities \ {x}
        PROVE  /\ y \in Milestones => ClosedIn(head', y) /\ DoneIn(head', y)
               /\ FiledIn(head', y)
    BY <1>7, <2>2, SafeSameAt DEF RecordSafe
  <2> QED
    BY <2>1, <2>2
<1> QED
  BY <1>8, KindFacts DEF RecordSafe

LEMMA BodyWriteSafe ==
  ASSUME TypeOK, RecordSafe(head), NEW m, NEW file, BodyWrite(m, file)
  PROVE  RecordSafe(head')
<1>1. /\ m \in Milestones /\ m \in Entities
      /\ head'[m] = file
      /\ \A y \in Entities \ {m} : head'[y] = head[y]
      /\ SameFrontmatter(file, head[m])
  BY WrittenFiles, KindFacts DEF BodyWrite
<1>2. ASSUME NEW y \in Entities
      PROVE  SameAt(head, head', y)
  BY <1>1, <1>2, KindFacts DEF SameAt, SameFrontmatter, IsArchivedPath
<1> QED
  BY <1>2, SafeSameAt, KindFacts DEF RecordSafe

(* A sweep files terminal epics whose children are all terminal, and every   *)
(* verdict rests on files the record agrees with.                            *)
LEMMA ArchiveSafe ==
  ASSUME TypeOK, Agree, RecordSafe(head), NEW actor, Archive(actor)
  PROVE  RecordSafe(head')
<1>1. /\ \A m \in Milestones : head'[m] = head[m]
      /\ \A e \in Epics : head'[e].status = head[e].status
      /\ \A e \in Epics : e \notin Sweepable => head'[e] = head[e]
      /\ \A e \in Epics : e \in Sweepable => head'[e].archived = TRUE
  BY SweptFields
<1>2. ASSUME NEW e \in Epics
      PROVE  FiledIn(head', e)
  <2>1. CASE e \in Sweepable
    <3>1. Terminal(disk, e) /\ disk[e] = head[e]
      BY <2>1 DEF Sweepable
    <3> QED
      BY <1>1, <3>1 DEF FiledIn, Terminal, Exists
  <2>2. CASE e \notin Sweepable
    BY <1>1, <2>2, KindFacts DEF RecordSafe, FiledIn, Terminal, Exists, IsArchivedPath
  <2> QED
    BY <2>1, <2>2
<1>3. ASSUME NEW m \in Milestones
      PROVE  /\ ClosedIn(head', m) /\ DoneIn(head', m)
             /\ FiledIn(head', m)
  <2>0. head'[m] = head[m] /\ ClosedIn(head, m) /\ DoneIn(head, m) /\ FiledIn(head, m)
    BY <1>1, KindFacts DEF RecordSafe
  <2>1. IsArchivedPath(head, m) => IsArchivedPath(head', m)
    BY <1>1, <2>0, KindFacts DEF IsArchivedPath
  <2>2. ClosedIn(head', m) /\ DoneIn(head', m)
    BY <2>0, <2>1 DEF ClosedIn, DoneIn, Terminal, Exists
  <2>3. CASE head[m].parent \in Sweepable
    <3> DEFINE e == head[m].parent
    <3>1. /\ e \in Epics /\ nonTerminalEpicChildren(disk, e) = {}
          /\ \A x \in {e} \cup Children(disk, e) : disk[x] = head[x]
      BY <2>3 DEF Sweepable
    <3>2. Exists(head, m) => m \in Children(disk, e)
      BY KindFacts DEF Children, Agree
    <3>3. Exists(head, m) => Terminal(disk, m) /\ disk[m] = head[m]
      BY <3>1, <3>2 DEF nonTerminalEpicChildren
    <3> QED
      BY <2>0, <2>2, <3>3 DEF FiledIn, Terminal, Exists
  <2>4. CASE head[m].parent \notin Sweepable
    <3>1. IsArchivedPath(head', m) => IsArchivedPath(head, m)
      BY <1>1, <2>0, <2>4, KindFacts DEF IsArchivedPath
    <3> QED
      BY <2>0, <2>2, <3>1 DEF FiledIn, Terminal, Exists
  <2> QED
    BY <2>3, <2>4
<1> QED
  BY <1>2, <1>3, KindFacts DEF RecordSafe

LEMMA NextSafe ==
  ASSUME TypeOK, Agree, RecordSafe(head), ~RawCommits, [Next]_vars
  PROVE  RecordSafe(head')
<1>1. ASSUME VerbStep PROVE RecordSafe(head')
  <2>1. CASE UNCHANGED <<disk, head>>
    BY <2>1
  <2> QED
    BY <1>1, <2>1, GatedWriteSafe, BodyWriteSafe, ArchiveSafe DEF VerbStep
<1>2. ASSUME Operator PROVE head' = head
  BY <1>2 DEF Operator, HandEdit, Restore, RawCommit
<1>3. ASSUME UNCHANGED vars PROVE head' = head
  BY <1>3 DEF vars
<1> QED
  BY <1>1, <1>2, <1>3, VerbShape DEF Next

LEMMA InitSafe ==
  ASSUME Init
  PROVE  Agree /\ RecordSafe(head)
<1>1. disk = head /\ \A x \in Entities : ~Exists(head, x)
  BY DEF Init, Exists, NoEpic, NoMilestone
<1>2. Agree
  BY <1>1 DEF Agree
<1>3. RecordSafe(head)
  BY <1>1, KindFacts DEF RecordSafe, ClosedIn, DoneIn, FiledIn, Terminal
<1> QED
  BY <1>2, <1>3

RecordInv == TypeOK /\ Agree /\ RecordSafe(head)

LEMMA RecordInvariant ==
  ASSUME ~RawCommits
  PROVE  Spec => []RecordInv
<1>1. Init => RecordInv
  BY InitTypeOK, InitSafe DEF RecordInv
<1>2. RecordInv /\ [Next]_vars => RecordInv'
  BY NextTypeOK, NextAgrees, NextSafe DEF RecordInv
<1> QED
  BY <1>1, <1>2, PTL DEF Spec

(* As long as the operator's own edits reach the record through the verbs    *)
(* only, a closed, unarchived milestone has no open criterion, whatever is   *)
(* forced, reopened or moved around it and whatever the files look like      *)
(* while the verbs decide.                                                   *)
THEOREM ContractsStayClosed ==
  ASSUME ~RawCommits
  PROVE  Spec => []ClosedContracts
<1>1. RecordInv => ClosedContracts
  BY RecordSafeMeans DEF RecordInv
<1> QED
  BY <1>1, RecordInvariant, PTL

(* Under the same assumption, a met criterion of a milestone whose policy is *)
(* `required` has finished its TDD cycle.                                    *)
THEOREM MetCriteriaAreDone ==
  ASSUME ~RawCommits
  PROVE  Spec => []MetMeansDone
<1>1. RecordInv => MetMeansDone
  BY RecordSafeMeans DEF RecordInv
<1> QED
  BY <1>1, RecordInvariant, PTL

(* Under the same assumption, whatever is filed in the archive is finished,  *)
(* although Archive itself runs no projection.                               *)
THEOREM ArchiveIsTerminal ==
  ASSUME ~RawCommits
  PROVE  Spec => []ArchivedTerminal
<1>1. RecordInv => ArchivedTerminal
  BY RecordSafeMeans DEF RecordInv
<1> QED
  BY <1>1, RecordInvariant, PTL

-----------------------------------------------------------------------------
(* The epic cascade.  Its rule reads the files of all the children, so it    *)
(* protects the record when those files are the record's.                    *)

Adopted(t, e) == Terminal(t, e) => nonTerminalEpicChildren(t, e) = {}

LEMMA NetForEpics ==
  ASSUME NEW x \in Entities, NEW p, ProjectionClean(x, p),
         \A e \in Epics : Adopted(disk, e)
  PROVE  \A e \in Epics : Adopted([disk EXCEPT ![x] = p], e)
<1> DEFINE t == [disk EXCEPT ![x] = p]
<1>1. epicTerminalNonTerminalChildren(t) \subseteq epicTerminalNonTerminalChildren(disk)
  BY NetPerRule
<1> HIDE DEF t
<1>2. epicTerminalNonTerminalChildren(disk) = {}
  BY DEF epicTerminalNonTerminalChildren, Adopted
<1>3. ASSUME NEW e \in Epics, ~Adopted(t, e) PROVE FALSE
  <2>1. Orphaning(t, e) \in epicTerminalNonTerminalChildren(t)
    BY <1>3 DEF epicTerminalNonTerminalChildren, Adopted
  <2> QED
    BY <1>1, <1>2, <2>1
<1> QED
  BY <1>3 DEF t

(* Adoption depends on statuses and parents alone.                           *)
LEMMA AdoptedSame ==
  ASSUME NEW t, NEW u,
         \A x \in Entities : t[x].status = u[x].status,
         \A m \in Milestones : t[m].parent = u[m].parent,
         NEW e \in Epics, Adopted(t, e)
  PROVE  Adopted(u, e)
<1>1. \A x \in Entities : Terminal(t, x) <=> Terminal(u, x)
  BY DEF Terminal, Exists
<1>2. Children(t, e) = Children(u, e)
  BY KindFacts DEF Children, Exists
<1>3. nonTerminalEpicChildren(t, e) = nonTerminalEpicChildren(u, e)
  BY <1>1, <1>2, KindFacts DEF nonTerminalEpicChildren, Children
<1> QED
  BY <1>1, <1>3, KindFacts DEF Adopted

OrphanInv == TypeOK /\ disk = head /\ \A e \in Epics : Adopted(head, e)

LEMMA WriteAdopts ==
  ASSUME OrphanInv, NEW x, NEW file, NEW p, GatedWrite(x, file, p)
  PROVE  disk' = head' /\ \A e \in Epics : Adopted(head', e)
<1> DEFINE t == [disk EXCEPT ![x] = p]
<1>1. x \in Entities /\ disk' = head'
  BY DEF GatedWrite, Written, OrphanInv
<1>2. \A e \in Epics : Adopted(t, e)
  BY <1>1, NetForEpics DEF OrphanInv, GatedWrite
<1>3. /\ head'[x] = file /\ t[x] = p
      /\ \A y \in Entities \ {x} : head'[y] = head[y] /\ t[y] = head[y]
  BY <1>1, WrittenFiles DEF OrphanInv, GatedWrite, TypeOK, TreeOK
<1> HIDE DEF t
<1>4. /\ \A y \in Entities : t[y].status = head'[y].status
      /\ \A m \in Milestones : t[m].parent = head'[m].parent
  BY <1>1, <1>3, KindFacts DEF GatedWrite, SameFrontmatter
<1> QED
  BY <1>1, <1>2, <1>4, AdoptedSame

LEMMA BodyWriteAdopts ==
  ASSUME OrphanInv, NEW m, NEW file, BodyWrite(m, file)
  PROVE  disk' = head' /\ \A e \in Epics : Adopted(head', e)
<1>1. m \in Entities /\ disk' = head'
  BY KindFacts DEF BodyWrite, Written, OrphanInv
<1>2. /\ head'[m] = file /\ SameFrontmatter(file, head[m])
      /\ \A y \in Entities \ {m} : head'[y] = head[y]
  BY <1>1, WrittenFiles DEF BodyWrite, OrphanInv
<1>3. /\ \A y \in Entities : head[y].status = head'[y].status
      /\ \A y \in Milestones : head[y].parent = head'[y].parent
  BY <1>2, KindFacts DEF SameFrontmatter
<1> QED
  BY <1>1, <1>3, AdoptedSame DEF OrphanInv

LEMMA ArchiveAdopts ==
  ASSUME OrphanInv, NEW actor, Archive(actor)
  PROVE  disk' = head' /\ \A e \in Epics : Adopted(head', e)
<1>0. TypeOK
  BY DEF OrphanInv
<1>1. disk' = head'
  BY DEF Archive, OrphanInv
<1>2. /\ \A m \in Milestones : head'[m] = head[m]
      /\ \A e \in Epics : head'[e].status = head[e].status
  BY <1>0, SweptFields
<1>3. /\ \A y \in Entities : head[y].status = head'[y].status
      /\ \A y \in Milestones : head[y].parent = head'[y].parent
  BY <1>2, KindFacts
<1> QED
  BY <1>1, <1>3, AdoptedSame DEF OrphanInv

LEMMA NextAdopts ==
  ASSUME OrphanInv, ~HandEdits, [Next]_vars
  PROVE  OrphanInv'
<1>0. TypeOK /\ TypeOK'
  BY NextTypeOK DEF OrphanInv
<1>1. CASE VerbStep
  <2>1. CASE UNCHANGED <<disk, head>>
    BY <1>0, <2>1 DEF OrphanInv
  <2>2. disk' = head' /\ \A e \in Epics : Adopted(head', e)
    BY <1>1, <2>1, WriteAdopts, BodyWriteAdopts, ArchiveAdopts DEF VerbStep, OrphanInv
  <2> QED
    BY <1>0, <2>2 DEF OrphanInv
<1>2. CASE Operator
  BY <1>0, <1>2 DEF Operator, HandEdit, Restore, RawCommit, Dirty, OrphanInv
<1>3. CASE UNCHANGED vars
  BY <1>0, <1>3 DEF vars, OrphanInv
<1> QED
  BY <1>0, <1>1, <1>2, <1>3, VerbShape DEF Next

(* When the working copy is edited through the verbs alone, no closed epic   *)
(* owns an open milestone: no interleaving of additions, moves, closings     *)
(* and forced transitions of any actor orphans one.                          *)
THEOREM EpicsCloseLast ==
  ASSUME ~HandEdits
  PROVE  Spec => []NoOrphans
<1>1. Init => OrphanInv
  <2>1. ASSUME Init PROVE disk = head /\ \A e \in Epics : Adopted(head, e)
    BY <2>1, KindFacts DEF Init, Adopted, Terminal, Exists, NoEpic
  <2> QED
    BY <2>1, InitTypeOK DEF OrphanInv
<1>2. OrphanInv /\ [Next]_vars => OrphanInv'
  BY NextAdopts
<1>3. OrphanInv => NoOrphans
  BY DEF OrphanInv, Adopted, NoOrphans
<1> QED
  BY <1>1, <1>2, <1>3, PTL DEF Spec

-----------------------------------------------------------------------------
(* What a verb says and does: its answer is true of the record, the actor  *)
(* it records on a human-only edge is a human, and unforced it moves along *)
(* the FSMs and keeps to the workflow table.                               *)

Told == Holds(head', result'.claim)

LEMMA StatusTold ==
  ASSUME NEW x, NEW i, NEW v, result'.claim = Claim(x, "status", i, v), head'[x].status = v
  PROVE  Told
BY DEF Told, Holds, Claim

LEMMA TerminalTold ==
  ASSUME NEW x, NEW i, NEW v, result'.claim = Claim(x, "terminal", i, v), Terminal(head', x)
  PROVE  Told
BY DEF Told, Holds, Claim

LEMMA TDDTold ==
  ASSUME NEW x, NEW i, NEW v, result'.claim = Claim(x, "tdd", i, v), head'[x].tdd = v
  PROVE  Told
BY DEF Told, Holds, Claim

LEMMA ParentTold ==
  ASSUME NEW x, NEW i, NEW v, result'.claim = Claim(x, "parent", i, v), head'[x].parent = v
  PROVE  Told
BY DEF Told, Holds, Claim

LEMMA ACClaimMeans ==
  ASSUME NEW t, NEW x, NEW i, NEW v, i \in DOMAIN t[x].acs
  PROVE  /\ Holds(t, Claim(x, "ac", i, v)) <=> t[x].acs[i].status = v
         /\ Holds(t, Claim(x, "acTerminal", i, v)) <=> IsTerminalACStatus(t[x].acs[i].status)
         /\ Holds(t, Claim(x, "phase", i, v)) <=> t[x].acs[i].phase = v
BY DEF Holds, Claim

LEMMA NoClaimHolds == \A t : Holds(t, NoClaim)
BY DEF Holds, NoClaim, Claim

(* A commit of one file changes that entity's record to the file and leaves  *)
(* every other entity's alone.                                               *)
LEMMA LandAnswers ==
  ASSUME TypeOK, NEW x \in Entities, NEW file, NEW verb, NEW actor, NEW force, NEW claim,
         Land(x, file, verb, actor, force, claim)
  PROVE  /\ head'[x] = file /\ \A y \in Entities \ {x} : head'[y] = head[y]
         /\ result'.claim = claim /\ result'.actor = actor
         /\ force => actor = Human
BY DEF Land, Answer, TypeOK, TreeOK, ForceAllowed

LEMMA FileLands ==
  ASSUME TypeOK, NEW x \in Entities, NEW file, head' = [head EXCEPT ![x] = file]
  PROVE  head'[x] = file /\ \A y \in Entities \ {x} : head'[y] = head[y]
BY DEF TypeOK, TreeOK

LEMMA ConvergeAnswers ==
  ASSUME NEW verb, NEW actor, NEW force, NEW claim, Converge(verb, actor, force, claim)
  PROVE  head' = head /\ result'.claim = claim
BY DEF Converge, Answer

LEMMA SetStatus ==
  ASSUME TypeOK, NEW x \in Entities, NEW s
  PROVE  [disk[x] EXCEPT !.status = s].status = s
<1>1. CASE x \in Epics
  BY <1>1, DiskFiles DEF EpicFile
<1>2. CASE x \in Milestones
  BY <1>2, DiskFiles DEF MilestoneFile
<1> QED
  BY <1>1, <1>2, KindFacts

LEMMA StatusWriteTold ==
  ASSUME TypeOK, NEW x \in Entities, NEW s, NEW verb, NEW actor, NEW force,
         planEntityWrite(x, [disk[x] EXCEPT !.status = s], verb, actor, force,
                         Claim(x, "status", 0, s))
  PROVE  Told
<1> DEFINE file == [disk[x] EXCEPT !.status = s]
<1>1. file.status = s
  BY SetStatus
<1>2. Land(x, file, verb, actor, force, Claim(x, "status", 0, s))
  BY DEF planEntityWrite
<1> HIDE DEF file
<1> QED
  BY <1>1, <1>2, LandAnswers, StatusTold

LEMMA PromoteTold ==
  ASSUME TypeOK, NEW x \in Entities, NEW to, NEW actor, NEW force, Promote(x, to, actor, force)
  PROVE  Told
<1>1. CASE disk[x].status = to
  BY <1>1, ConvergeAnswers, StatusTold DEF Promote, guardClaim
<1>2. CASE disk[x].status # to
  BY <1>2, StatusWriteTold DEF Promote
<1> QED
  BY <1>1, <1>2

LEMMA CancelTold ==
  ASSUME TypeOK, NEW x \in Entities, NEW actor, NEW force, Cancel(x, actor, force)
  PROVE  Told
<1>1. CASE Terminal(disk, x)
  <2>1. Terminal(head, x)
    BY <1>1 DEF Cancel, guardClaim, Terminal, Exists
  <2> QED
    BY <1>1, <2>1, ConvergeAnswers, TerminalTold DEF Cancel
<1>2. CASE ~Terminal(disk, x)
  BY <1>2, StatusWriteTold DEF Cancel
<1> QED
  BY <1>1, <1>2

(* A criterion of m is replaced: the record's criterion is the new one.      *)
LEMMA ACWriteRecords ==
  ASSUME TypeOK, NEW m \in Milestones, NEW i \in DOMAIN disk[m].acs, NEW ac \in AC,
         NEW verb, NEW actor, NEW force, NEW claim,
         planEntityWrite(m, [disk[m] EXCEPT !.acs[i] = ac], verb, actor, force, claim)
  PROVE  i \in DOMAIN head'[m].acs /\ head'[m].acs[i] = ac /\ result'.claim = claim
<1> DEFINE file == [disk[m] EXCEPT !.acs[i] = ac]
<1>1. DOMAIN file.acs = DOMAIN disk[m].acs /\ file.acs[i] = ac
  BY DiskFiles, ReplaceAC
<1> HIDE DEF file
<1>2. head'[m] = file /\ result'.claim = claim
  BY LandAnswers, KindFacts DEF planEntityWrite, file
<1> QED
  BY <1>1, <1>2

LEMMA PromoteACTold ==
  ASSUME TypeOK, NEW m \in Milestones, NEW i \in DOMAIN disk[m].acs, NEW to \in ACStatuses,
         NEW actor, NEW force, promoteAC(m, i, to, actor, force)
  PROVE  Told
<1> DEFINE ac == disk[m].acs[i]
           moved == [ac EXCEPT !.status = to, !.phase = IF to = "open" THEN None ELSE @]
<1>1. moved \in AC /\ moved.status = to
  BY DiskACs DEF AC, TDDPhases
<1>2. CASE ac.status = to
  BY <1>2, ConvergeAnswers, ACClaimMeans DEF promoteAC, guardClaim, Told
<1>3. CASE ac.status # to
  <2>1. planEntityWrite(m, [disk[m] EXCEPT !.acs[i] = moved], "promote", actor, force,
                        Claim(m, "ac", i, to))
    BY <1>3 DEF promoteAC
  <2> HIDE DEF moved
  <2> QED
    BY <1>1, <2>1, ACWriteRecords, ACClaimMeans DEF Told
<1> QED
  BY <1>2, <1>3

LEMMA CancelACTold ==
  ASSUME TypeOK, NEW m \in Milestones, NEW i \in DOMAIN disk[m].acs, NEW actor, NEW force,
         cancelAC(m, i, actor, force)
  PROVE  Told
<1> DEFINE ac == disk[m].acs[i]
           moved == [disk[m].acs[i] EXCEPT !.status = "cancelled"]
<1>1. moved \in AC /\ moved.status = "cancelled"
  BY DiskACs DEF AC, ACStatuses, acTransitions
<1>2. CASE IsTerminalACStatus(ac.status)
  BY <1>2, ConvergeAnswers, ACClaimMeans DEF cancelAC, guardClaim, Told
<1>3. CASE ~IsTerminalACStatus(ac.status)
  <2>1. [disk[m] EXCEPT !.acs[i].status = "cancelled"] = [disk[m] EXCEPT !.acs[i] = moved]
    OBVIOUS
  <2>2. planEntityWrite(m, [disk[m] EXCEPT !.acs[i] = moved], "cancel", actor, force,
                        Claim(m, "ac", i, "cancelled"))
    BY <1>3, <2>1 DEF cancelAC
  <2> HIDE DEF moved
  <2>3. i \in DOMAIN head'[m].acs /\ head'[m].acs[i] = moved
    BY <1>1, <2>2, ACWriteRecords
  <2>4. result'.claim = Claim(m, "ac", i, "cancelled")
    BY <2>2 DEF planEntityWrite, Land, Answer
  <2> QED
    BY <1>1, <2>3, <2>4 DEF Told, Holds, Claim
<1> QED
  BY <1>2, <1>3

LEMMA PromoteACPhaseTold ==
  ASSUME TypeOK, NEW m \in Milestones, NEW i \in DOMAIN disk[m].acs, NEW to \in TDDPhases,
         NEW actor, NEW force, PromoteACPhase(m, i, to, actor, force)
  PROVE  Told
<1> DEFINE ac == disk[m].acs[i]
           moved == [disk[m].acs[i] EXCEPT !.phase = to]
<1>1. moved \in AC /\ moved.phase = to
  BY DiskACs DEF AC
<1>2. CASE ac.phase = to
  BY <1>2, ConvergeAnswers, ACClaimMeans DEF PromoteACPhase, guardClaim, Told
<1>3. CASE ac.phase # to
  <2>1. [disk[m] EXCEPT !.acs[i].phase = to] = [disk[m] EXCEPT !.acs[i] = moved]
    OBVIOUS
  <2>2. planEntityWrite(m, [disk[m] EXCEPT !.acs[i] = moved], "promote", actor, force,
                        Claim(m, "phase", i, to))
    BY <1>3, <2>1 DEF PromoteACPhase
  <2> HIDE DEF moved
  <2> QED
    BY <1>1, <2>2, ACWriteRecords, ACClaimMeans DEF Told
<1> QED
  BY <1>2, <1>3

LEMMA MilestoneTDDTold ==
  ASSUME TypeOK, NEW m \in Milestones, NEW policy \in Policies, NEW actor,
         MilestoneTDD(m, policy, actor)
  PROVE  Told
<1> DEFINE file == [disk[m] EXCEPT !.tdd = policy]
<1>1. file.tdd = policy
  BY DiskFiles DEF MilestoneFile
<1>2. CASE disk[m].tdd = policy
  BY <1>2, ConvergeAnswers, TDDTold DEF MilestoneTDD, guardClaim
<1>3. CASE disk[m].tdd # policy
  <2>1. Land(m, file, "milestone-tdd", actor, FALSE, Claim(m, "tdd", 0, policy))
    BY <1>3 DEF MilestoneTDD, planEntityWrite
  <2> HIDE DEF file
  <2>2. /\ head' = [head EXCEPT ![m] = file]
        /\ result'.claim = Claim(m, "tdd", 0, policy)
    BY <2>1 DEF Land, Answer
  <2>3. head'[m].tdd = policy
    BY <1>1, <2>2, FileLands, KindFacts
  <2> QED
    BY <2>2, <2>3 DEF Told, Holds, Claim
<1> QED
  BY <1>2, <1>3

LEMMA MoveTold ==
  ASSUME TypeOK, NEW m \in Milestones, NEW e \in Epics, NEW actor, Move(m, e, actor)
  PROVE  Told
<1> DEFINE file == [disk[m] EXCEPT !.parent = e]
<1>1. file.parent = e
  BY DiskFiles DEF MilestoneFile
<1>2. CASE disk[m].parent = e
  BY <1>2, ConvergeAnswers, ParentTold DEF Move, guardClaim
<1>3. CASE disk[m].parent # e
  <2>1. Land(m, file, "move", actor, FALSE, Claim(m, "parent", 0, e))
    BY <1>3 DEF Move
  <2> HIDE DEF file
  <2>2. /\ head' = [head EXCEPT ![m] = file]
        /\ result'.claim = Claim(m, "parent", 0, e)
    BY <2>1 DEF Land, Answer
  <2>3. head'[m].parent = e
    BY <1>1, <2>2, FileLands, KindFacts
  <2> QED
    BY <2>2, <2>3 DEF Told, Holds, Claim
<1> QED
  BY <1>2, <1>3

LEMMA AddEpicTold ==
  ASSUME TypeOK, NEW e \in Epics, NEW actor, AddEpic(e, actor)
  PROVE  Told
<1> DEFINE file == [status |-> InitialStatus.epic, archived |-> FALSE]
<1>1. /\ head' = [head EXCEPT ![e] = file]
      /\ result'.claim = Claim(e, "status", 0, file.status)
  BY DEF AddEpic, planEntityWrite, Land, Answer
<1> HIDE DEF file
<1>2. head'[e] = file
  BY <1>1, FileLands, KindFacts
<1> QED
  BY <1>1, <1>2 DEF Told, Holds, Claim

LEMMA AddMilestoneTold ==
  ASSUME TypeOK, NEW m \in Milestones, NEW e \in Epics, NEW tdd \in Policies, NEW actor,
         AddMilestone(m, e, tdd, actor)
  PROVE  Told
<1> DEFINE file == [status |-> InitialStatus.milestone, parent |-> e, tdd |-> tdd,
                    acs |-> <<>>]
<1>1. /\ head' = [head EXCEPT ![m] = file]
      /\ result'.claim = Claim(m, "status", 0, file.status)
  BY DEF AddMilestone, planEntityWrite, Land, Answer
<1> HIDE DEF file
<1>2. head'[m] = file
  BY <1>1, FileLands, KindFacts
<1> QED
  BY <1>1, <1>2 DEF Told, Holds, Claim

LEMMA AddACTold ==
  ASSUME TypeOK, NEW m \in Milestones, NEW section \in Sections, NEW actor,
         AddAC(m, section, actor)
  PROVE  Told
<1> DEFINE new == [status |-> "open", phase |-> None, section |-> section]
           seq == Append(disk[m].acs, new)
           i == Len(disk[m].acs) + 1
<1>1. disk[m] \in MilestoneFile /\ disk[m].acs \in Seq(AC)
  BY DiskFiles DEF MilestoneFile
<1>2. new \in AC /\ new.status = "open"
  BY DEF AC, ACStatuses, acTransitions, TDDPhases
<1>3. Land(m, [disk[m] EXCEPT !.acs = seq], "add-ac", actor, FALSE, Claim(m, "ac", i, "open"))
  BY DEF AddAC
<1>4. [disk[m] EXCEPT !.acs = seq].acs = seq
  BY <1>1 DEF MilestoneFile
<1> HIDE DEF new
<1>5. i \in DOMAIN seq /\ seq[i] = new
  BY <1>1, <1>2, AppendProperties
<1> HIDE DEF seq, i
<1> DEFINE file == [disk[m] EXCEPT !.acs = seq]
           claim == Claim(m, "ac", i, "open")
<1> HIDE DEF file, claim
<1>6. head'[m] = file /\ result'.claim = claim
  <2>1. Land(m, file, "add-ac", actor, FALSE, claim)
    BY <1>3 DEF file, claim
  <2> QED BY <2>1, LandAnswers, KindFacts
<1>7. head'[m].acs = seq /\ result'.claim = Claim(m, "ac", i, "open")
  BY <1>4, <1>6 DEF file, claim
<1> QED
  BY <1>2, <1>5, <1>7, ACClaimMeans DEF Told

LEMMA EditBodyTold ==
  ASSUME TypeOK, NEW m \in Milestones, NEW actor,
         \/ \E i \in DOMAIN disk[m].acs, section \in Sections :
              editBodyExplicit(m, i, section, actor)
         \/ editBodyBless(m, actor)
  PROVE  Told
<1>1. result'.claim = NoClaim
  <2>1. ASSUME NEW file, NEW claim, Land(m, file, "edit-body", actor, FALSE, claim)
        PROVE  result'.claim = claim
    BY <2>1 DEF Land, Answer
  <2>2. CASE \E i \in DOMAIN disk[m].acs, section \in Sections :
               editBodyExplicit(m, i, section, actor)
    BY <2>1, <2>2, ConvergeAnswers DEF editBodyExplicit
  <2>3. CASE editBodyBless(m, actor)
    BY <2>1, <2>3 DEF editBodyBless
  <2> QED
    BY <2>2, <2>3
<1> QED
  BY <1>1, NoClaimHolds DEF Told

LEMMA MilestoneVerbsTold ==
  ASSUME TypeOK, NEW m \in Milestones, NEW actor \in Actors, MilestoneVerbs(m, actor)
  PROVE  Told
<1>1. ASSUME NEW i \in DOMAIN disk[m].acs, ACVerbs(m, i, actor)
      PROVE  Told
  BY <1>1, PromoteACTold, PromoteACPhaseTold, CancelACTold, EditBodyTold DEF ACVerbs
<1> QED
  BY <1>1, AddMilestoneTold, AddACTold, MilestoneTDDTold, MoveTold, EditBodyTold
     DEF MilestoneVerbs

LEMMA VerbTold ==
  ASSUME TypeOK, NEW actor \in Actors, Verb(actor)
  PROVE  Told
<1>1. CASE \E e \in Epics : AddEpic(e, actor)
  BY <1>1, AddEpicTold
<1>2. CASE \E m \in Milestones : MilestoneVerbs(m, actor)
  BY <1>2, MilestoneVerbsTold
<1>3. CASE \E x \in Entities : StatusVerbs(x, actor)
  BY <1>3, PromoteTold, CancelTold DEF StatusVerbs
<1>4. CASE Archive(actor)
  BY <1>4, NoClaimHolds DEF Archive, Answer, Told
<1> QED
  BY <1>1, <1>2, <1>3, <1>4 DEF Verb

LEMMA OperatorSilent ==
  ASSUME Operator
  PROVE  result'.claim = NoClaim /\ result'.actor = Human
BY DEF Operator, HandEdit, Restore, RawCommit, Silent

(* Whatever a verb answers is true of the record it leaves behind, however   *)
(* the operator has been editing the working copy the verb decided from: the *)
(* claim guard of verb/claimguard.go is enough, for any tree.                *)
THEOREM AnswersAreTrue == Spec => AnswerIsTrue
<1>1. TypeOK /\ [Next]_vars => [Told]_vars
  <2>1. CASE \E actor \in Actors : Verb(actor)
    BY <2>1, VerbTold
  <2>2. CASE Operator
    BY <2>2, OperatorSilent, NoClaimHolds DEF Told
  <2> QED
    BY <2>1, <2>2 DEF Next
<1> QED
  BY <1>1, TypeCorrect, PTL DEF Spec, AnswerIsTrue, Told

-----------------------------------------------------------------------------
(* Opening and closing an epic.                                              *)

Sovereign ==
  \A e \in Epics :
    (Exists(head, e) /\ IsSovereignActShape("epic", head[e].status, head'[e].status)) =>
      result'.actor = Human

LEMMA StayingIsNotSovereign == \A s : ~IsSovereignActShape("epic", s, s)
BY DEF IsSovereignActShape, sovereignActShapes

LEMMA SameStatuses ==
  ASSUME \A e \in Epics : head'[e].status = head[e].status
  PROVE  Sovereign
BY StayingIsNotSovereign DEF Sovereign

(* A verb about a milestone leaves every epic's file alone.                  *)
LEMMA MilestoneWrite ==
  ASSUME TypeOK, NEW m \in Milestones, NEW file, NEW verb, NEW actor, NEW force, NEW claim,
         Land(m, file, verb, actor, force, claim) \/ Converge(verb, actor, force, claim)
  PROVE  Sovereign
<1>1. \A e \in Epics : head'[e] = head[e]
  BY LandAnswers, ConvergeAnswers, KindFacts
<1> QED
  BY <1>1, SameStatuses

LEMMA MilestoneVerbsSovereign ==
  ASSUME TypeOK, NEW m \in Milestones, NEW actor \in Actors, MilestoneVerbs(m, actor)
  PROVE  Sovereign
<1>1. CASE \E e \in Epics, tdd \in Policies : AddMilestone(m, e, tdd, actor)
  BY <1>1, MilestoneWrite DEF AddMilestone, planEntityWrite
<1>2. CASE \E section \in Sections : AddAC(m, section, actor)
  BY <1>2, MilestoneWrite DEF AddAC
<1>3. CASE \E i \in DOMAIN disk[m].acs : ACVerbs(m, i, actor)
  <2>1. PICK i \in DOMAIN disk[m].acs : ACVerbs(m, i, actor)
    BY <1>3
  <2>2. CASE \E force \in ForceFlags, to \in ACStatuses : promoteAC(m, i, to, actor, force)
    BY <2>2, MilestoneWrite DEF promoteAC, planEntityWrite
  <2>3. CASE \E force \in ForceFlags, to \in TDDPhases \ {None} :
               PromoteACPhase(m, i, to, actor, force)
    BY <2>3, MilestoneWrite DEF PromoteACPhase, planEntityWrite
  <2>4. CASE \E force \in ForceFlags : cancelAC(m, i, actor, force)
    BY <2>4, MilestoneWrite DEF cancelAC, planEntityWrite
  <2>5. CASE \E section \in Sections : editBodyExplicit(m, i, section, actor)
    BY <2>5, MilestoneWrite DEF editBodyExplicit
  <2> QED
    BY <2>1, <2>2, <2>3, <2>4, <2>5 DEF ACVerbs
<1>4. CASE \E policy \in Policies : MilestoneTDD(m, policy, actor)
  BY <1>4, MilestoneWrite DEF MilestoneTDD, planEntityWrite
<1>5. CASE \E e \in Epics : Move(m, e, actor)
  BY <1>5, MilestoneWrite DEF Move
<1>6. CASE editBodyBless(m, actor)
  BY <1>6, MilestoneWrite DEF editBodyBless
<1> QED
  BY <1>1, <1>2, <1>3, <1>4, <1>5, <1>6 DEF MilestoneVerbs

(* A status write of x: it is forced, by a human, or checked for a human.    *)
LEMMA StatusWriteSovereign ==
  ASSUME TypeOK, NEW x \in Entities, NEW to, guardClaim(x), NEW verb, NEW actor,
         NEW force \in BOOLEAN, NEW claim,
         ~force => requireHumanActorForSovereignAct(x, to, actor),
         Land(x, [disk[x] EXCEPT !.status = to], verb, actor, force, claim)
  PROVE  Sovereign
<1>1. /\ head'[x].status = to /\ result'.actor = actor
      /\ \A e \in Epics \ {x} : head'[e].status = head[e].status
      /\ force => actor = Human
  <2> DEFINE file == [disk[x] EXCEPT !.status = to]
  <2>1. file.status = to
    BY SetStatus
  <2> HIDE DEF file
  <2>2. Land(x, file, verb, actor, force, claim)
    BY DEF file
  <2> QED
    BY <2>1, <2>2, LandAnswers, KindFacts
<1>2. x \in Epics /\ IsSovereignActShape("epic", head[x].status, to) => actor = Human
  BY <1>1, KindFacts DEF requireHumanActorForSovereignAct, guardClaim
<1> QED
  BY <1>1, <1>2, StayingIsNotSovereign DEF Sovereign

LEMMA StatusVerbsSovereign ==
  ASSUME TypeOK, NEW x \in Entities, NEW actor \in Actors, StatusVerbs(x, actor)
  PROVE  Sovereign
<1>1. ASSUME NEW force \in BOOLEAN, NEW to, Promote(x, to, actor, force)
      PROVE  Sovereign
  BY <1>1, ConvergeAnswers, SameStatuses, StatusWriteSovereign DEF Promote, planEntityWrite
<1>2. ASSUME NEW force \in BOOLEAN, Cancel(x, actor, force)
      PROVE  Sovereign
  BY <1>2, ConvergeAnswers, SameStatuses, StatusWriteSovereign DEF Cancel, planEntityWrite
<1> QED
  BY <1>1, <1>2, FlagsAreBoolean DEF StatusVerbs

LEMMA VerbSovereign ==
  ASSUME TypeOK, NEW actor \in Actors, Verb(actor)
  PROVE  Sovereign
<1>1. ASSUME NEW e \in Epics, AddEpic(e, actor)
      PROVE  Sovereign
  <2>1. ~Exists(head, e)
    BY <1>1 DEF AddEpic, NoEpic, Exists
  <2>2. \A f \in Epics \ {e} : head'[f] = head[f]
    BY <1>1, LandAnswers, KindFacts DEF AddEpic, planEntityWrite
  <2> QED
    BY <2>1, <2>2, StayingIsNotSovereign DEF Sovereign
<1>2. CASE \E m \in Milestones : MilestoneVerbs(m, actor)
  BY <1>2, MilestoneVerbsSovereign
<1>3. CASE \E x \in Entities : StatusVerbs(x, actor)
  BY <1>3, StatusVerbsSovereign
<1>4. CASE Archive(actor)
  BY <1>4, SweptFields, SameStatuses
<1> QED
  BY <1>1, <1>2, <1>3, <1>4 DEF Verb

(* An epic is opened and closed, in the record, by a human's commit only:    *)
(* promote and cancel check the actor of the edge unless forced, a forced    *)
(* commit needs a human, and no other verb changes an epic's status.         *)
THEOREM OnlyHumansOpenAndClose == Spec => SovereignByHuman
<1>1. TypeOK /\ [Next]_vars => [Sovereign]_vars
  <2>1. CASE \E actor \in Actors : Verb(actor)
    BY <2>1, VerbSovereign
  <2>2. CASE Operator
    BY <2>2, OperatorSilent DEF Sovereign
  <2> QED
    BY <2>1, <2>2 DEF Next
<1> QED
  BY <1>1, TypeCorrect, PTL DEF Spec, SovereignByHuman, Sovereign

-----------------------------------------------------------------------------
(* A verb that is not forced moves the record along the FSMs.                *)

LegalEdges(x, f, g) ==
  /\ f.status = g.status \/ ValidateTransition(Kind(x), f.status, g.status)
  /\ x \in Milestones =>
       \A i \in DOMAIN f.acs :
         /\ i \in DOMAIN g.acs
         /\ \/ f.acs[i].status = g.acs[i].status
            \/ IsLegalACTransition(f.acs[i].status, g.acs[i].status)
         /\ \/ f.acs[i].phase = g.acs[i].phase
            \/ IsLegalTDDPhaseTransition(f.acs[i].phase, g.acs[i].phase)

LegalStep ==
  (result'.outcome = "committed" /\ ~result'.force) =>
    \A x \in Entities : Exists(head, x) => LegalChange(x)

LEMMA EdgesAreLegal ==
  ASSUME NEW x, LegalEdges(x, head[x], head'[x])
  PROVE  LegalChange(x)
BY DEF LegalEdges, LegalChange, SameOrLegal

LEMMA NoEdges == \A x, f : LegalEdges(x, f, f)
BY DEF LegalEdges

(* One file is committed, by a verb that says whether it was forced.         *)
LEMMA LandLegal ==
  ASSUME TypeOK, NEW x \in Entities, NEW file, NEW verb, NEW actor, NEW force, NEW claim,
         Land(x, file, verb, actor, force, claim),
         Exists(head, x) /\ ~force => LegalEdges(x, head[x], file)
  PROVE  LegalStep
<1>1. result'.force = force
  BY DEF Land, Answer
<1>2. head'[x] = file /\ \A y \in Entities \ {x} : head'[y] = head[y]
  BY LandAnswers
<1>3. ASSUME NEW y \in Entities, Exists(head, y), ~force PROVE LegalEdges(y, head[y], head'[y])
  BY <1>2, <1>3, NoEdges
<1> QED
  BY <1>1, <1>3, EdgesAreLegal DEF LegalStep

LEMMA ConvergeLegal ==
  ASSUME NEW verb, NEW actor, NEW force, NEW claim, Converge(verb, actor, force, claim)
  PROVE  LegalStep
BY DEF Converge, LegalStep, Answer

LEMMA StatusWriteLegal ==
  ASSUME TypeOK, NEW x \in Entities, NEW s, NEW verb, NEW actor, NEW force, NEW claim,
         guardClaim(x), ~force => ValidateTransition(Kind(x), disk[x].status, s),
         Land(x, [disk[x] EXCEPT !.status = s], verb, actor, force, claim)
  PROVE  LegalStep
<1> DEFINE file == [disk[x] EXCEPT !.status = s]
<1>1. file.status = s /\ disk[x] = head[x]
  BY SetStatus DEF guardClaim
<1>2. x \in Milestones => file.acs = disk[x].acs
  BY DiskFiles DEF MilestoneFile
<1>3. ~force => LegalEdges(x, head[x], file)
  BY <1>1, <1>2 DEF LegalEdges
<1> HIDE DEF file
<1>4. Land(x, file, verb, actor, force, claim)
  BY DEF file
<1> QED
  BY <1>3, <1>4, LandLegal

LEMMA CancelIsLegal ==
  /\ \A s \in Statuses("epic") : ~IsTerminal("epic", s) => ValidateTransition("epic", s, "cancelled")
  /\ \A s \in Statuses("milestone") :
       ~IsTerminal("milestone", s) => ValidateTransition("milestone", s, "cancelled")
BY DEF Statuses, transitions, EpicFSM, MilestoneFSM, IsTerminal, AllowedTransitions,
       ValidateTransition

LEMMA DiskStatus ==
  ASSUME TypeOK, NEW x \in Entities, Exists(disk, x)
  PROVE  disk[x].status \in Statuses(Kind(x))
<1>1. CASE x \in Epics
  BY <1>1, DiskFiles, KindFacts DEF EpicFile, Exists
<1>2. CASE x \in Milestones
  BY <1>2, DiskFiles, KindFacts DEF MilestoneFile, Exists
<1> QED
  BY <1>1, <1>2, KindFacts

LEMMA StatusVerbsLegal ==
  ASSUME TypeOK, NEW x \in Entities, NEW actor \in Actors, StatusVerbs(x, actor)
  PROVE  LegalStep
<1>1. ASSUME NEW force \in BOOLEAN, NEW to, Promote(x, to, actor, force)
      PROVE  LegalStep
  BY <1>1, ConvergeLegal, StatusWriteLegal DEF Promote, planEntityWrite
<1>2. ASSUME NEW force \in BOOLEAN, Cancel(x, actor, force)
      PROVE  LegalStep
  <2>1. CASE Terminal(disk, x)
    BY <1>2, <2>1, ConvergeLegal DEF Cancel
  <2>2. CASE ~Terminal(disk, x)
    <3>1. ValidateTransition(Kind(x), disk[x].status, CancelTarget(Kind(x), disk[x].status))
      BY <1>2, <2>2, DiskStatus, CancelIsLegal, FSMFacts, KindFacts
         DEF Cancel, guardClaim, Terminal
    <3> QED
      BY <1>2, <2>2, <3>1, StatusWriteLegal DEF Cancel, planEntityWrite
  <2> QED
    BY <2>1, <2>2
<1> QED
  BY <1>1, <1>2, FlagsAreBoolean DEF StatusVerbs

(* A criterion of m is replaced by one its own verbs may make of it.         *)
LEMMA ACWriteLegal ==
  ASSUME TypeOK, NEW m \in Milestones, guardClaim(m), NEW i \in DOMAIN disk[m].acs, NEW ac \in AC,
         NEW verb, NEW actor, NEW force, NEW claim,
         ~force => /\ \/ ac.status = disk[m].acs[i].status
                      \/ IsLegalACTransition(disk[m].acs[i].status, ac.status)
                   /\ \/ ac.phase = disk[m].acs[i].phase
                      \/ IsLegalTDDPhaseTransition(disk[m].acs[i].phase, ac.phase),
         planEntityWrite(m, [disk[m] EXCEPT !.acs[i] = ac], verb, actor, force, claim)
  PROVE  LegalStep
<1> DEFINE file == [disk[m] EXCEPT !.acs[i] = ac]
<1>1. /\ DOMAIN file.acs = DOMAIN disk[m].acs /\ file.acs[i] = ac /\ file.status = disk[m].status
      /\ \A j \in DOMAIN disk[m].acs \ {i} : file.acs[j] = disk[m].acs[j]
  BY DiskFiles, ReplaceAC
<1> HIDE DEF file
<1>2. ~force => LegalEdges(m, head[m], file)
  BY <1>1 DEF LegalEdges, guardClaim
<1>3. Land(m, file, verb, actor, force, claim)
  BY DEF planEntityWrite, file
<1> QED
  BY <1>2, <1>3, LandLegal, KindFacts

LEMMA ACFSMFacts ==
  /\ \A s \in ACStatuses : ~IsLegalACTransition(s, "open")
  /\ \A s \in ACStatuses : ~IsTerminalACStatus(s) => IsLegalACTransition(s, "cancelled")
  /\ \A s \in ACStatuses : IsTerminalACStatus(s) <=> s \in {"deferred", "cancelled"}
  /\ ACStatuses = {"open", "met", "deferred", "cancelled"}
BY DEF ACStatuses, acTransitions, IsLegalACTransition, IsTerminalACStatus

LEMMA BodyEditLegal ==
  ASSUME TypeOK, NEW m \in Milestones, NEW file, NEW actor, NEW force, NEW claim,
         SameFrontmatter(file, disk[m]), SameFrontmatter(disk[m], head[m]),
         Land(m, file, "edit-body", actor, force, claim)
  PROVE  LegalStep
<1>1. LegalEdges(m, head[m], file)
  BY DEF LegalEdges, SameFrontmatter
<1> QED
  BY <1>1, LandLegal, KindFacts

LEMMA ACVerbsLegal ==
  ASSUME TypeOK, NEW m \in Milestones, NEW i \in DOMAIN disk[m].acs, NEW actor \in Actors,
         ACVerbs(m, i, actor)
  PROVE  LegalStep
<1>0. disk[m].acs[i] \in AC
  BY DiskACs
<1>1. ASSUME NEW force, NEW to \in ACStatuses, promoteAC(m, i, to, actor, force)
      PROVE  LegalStep
  <2> DEFINE ac == disk[m].acs[i]
             moved == [ac EXCEPT !.status = to, !.phase = IF to = "open" THEN None ELSE @]
  <2>1. /\ moved \in AC /\ moved.status = to
        /\ to # "open" => moved.phase = ac.phase
    BY <1>0 DEF AC, TDDPhases
  <2>2. CASE ac.status = to
    BY <1>1, <2>2, ConvergeLegal DEF promoteAC
  <2>3. CASE ac.status # to
    <3>1. /\ planEntityWrite(m, [disk[m] EXCEPT !.acs[i] = moved], "promote", actor, force,
                             Claim(m, "ac", i, to))
          /\ force \/ IsLegalACTransition(ac.status, to)
          /\ guardClaim(m)
      BY <1>1, <2>3 DEF promoteAC
    <3>2. ~force => moved.phase = ac.phase /\ IsLegalACTransition(ac.status, moved.status)
      BY <1>0, <2>1, <3>1, ACFSMFacts DEF AC
    <3> HIDE DEF moved
    <3> QED
      BY <2>1, <3>1, <3>2, ACWriteLegal
  <2> QED
    BY <2>2, <2>3
<1>2. ASSUME NEW force, NEW to \in TDDPhases, PromoteACPhase(m, i, to, actor, force)
      PROVE  LegalStep
  <2> DEFINE ac == disk[m].acs[i]
             moved == [disk[m].acs[i] EXCEPT !.phase = to]
  <2>1. moved \in AC /\ moved.phase = to /\ moved.status = ac.status
    BY <1>0 DEF AC
  <2>2. CASE ac.phase = to
    BY <1>2, <2>2, ConvergeLegal DEF PromoteACPhase
  <2>3. CASE ac.phase # to
    <3>1. [disk[m] EXCEPT !.acs[i].phase = to] = [disk[m] EXCEPT !.acs[i] = moved]
      OBVIOUS
    <3>2. /\ planEntityWrite(m, [disk[m] EXCEPT !.acs[i] = moved], "promote", actor, force,
                             Claim(m, "phase", i, to))
          /\ force \/ IsLegalTDDPhaseTransition(ac.phase, to)
          /\ guardClaim(m)
      BY <1>2, <2>3, <3>1 DEF PromoteACPhase
    <3> HIDE DEF moved
    <3> QED
      BY <2>1, <3>2, ACWriteLegal
  <2> QED
    BY <2>2, <2>3
<1>3. ASSUME NEW force, cancelAC(m, i, actor, force)
      PROVE  LegalStep
  <2> DEFINE ac == disk[m].acs[i]
             moved == [disk[m].acs[i] EXCEPT !.status = "cancelled"]
  <2>1. moved \in AC /\ moved.status = "cancelled" /\ moved.phase = ac.phase
    BY <1>0, ACFSMFacts DEF AC
  <2>2. CASE IsTerminalACStatus(ac.status)
    BY <1>3, <2>2, ConvergeLegal DEF cancelAC
  <2>3. CASE ~IsTerminalACStatus(ac.status)
    <3>1. [disk[m] EXCEPT !.acs[i].status = "cancelled"] = [disk[m] EXCEPT !.acs[i] = moved]
      OBVIOUS
    <3>2. /\ planEntityWrite(m, [disk[m] EXCEPT !.acs[i] = moved], "cancel", actor, force,
                             Claim(m, "ac", i, "cancelled"))
          /\ force \/ IsLegalACTransition(ac.status, "cancelled")
          /\ guardClaim(m)
      BY <1>3, <2>3, <3>1 DEF cancelAC
    <3> HIDE DEF moved
    <3> QED
      BY <2>1, <3>2, ACWriteLegal
  <2> QED
    BY <2>2, <2>3
<1>4. ASSUME NEW section \in Sections, editBodyExplicit(m, i, section, actor)
      PROVE  LegalStep
  BY <1>4, BodyEditLegal, ConvergeLegal, SectionedFile DEF editBodyExplicit
<1> QED
  BY <1>1, <1>2, <1>3, <1>4 DEF ACVerbs

LEMMA AddLegal ==
  ASSUME TypeOK, NEW x \in Entities, ~Exists(head, x), NEW file, NEW verb, NEW actor,
         NEW force, NEW claim, planEntityWrite(x, file, verb, actor, force, claim)
  PROVE  LegalStep
BY LandLegal DEF planEntityWrite

LEMMA AddACLegal ==
  ASSUME TypeOK, NEW m \in Milestones, NEW section \in Sections, NEW actor,
         AddAC(m, section, actor)
  PROVE  LegalStep
<1> DEFINE new == [status |-> "open", phase |-> None, section |-> section]
           seq == Append(disk[m].acs, new)
           file == [disk[m] EXCEPT !.acs = seq]
<1>1. disk[m] \in MilestoneFile /\ disk[m].acs \in Seq(AC)
  BY DiskFiles DEF MilestoneFile
<1>2. new \in AC
  BY DEF AC, ACStatuses, acTransitions, TDDPhases
<1> HIDE DEF new
<1>3. \A i \in DOMAIN disk[m].acs : i \in DOMAIN seq /\ seq[i] = disk[m].acs[i]
  BY <1>1, <1>2
<1>4. Land(m, file, "add-ac", actor, FALSE, Claim(m, "ac", Len(disk[m].acs) + 1, "open"))
  BY DEF AddAC, new
<1>5. disk[m] = head[m]
  BY DEF AddAC
<1> HIDE DEF seq
<1>6. file.status = disk[m].status /\ file.acs = seq
  BY <1>1 DEF MilestoneFile
<1> HIDE DEF file
<1>7. LegalEdges(m, head[m], file)
  BY <1>3, <1>5, <1>6 DEF LegalEdges
<1> QED
  BY <1>4, <1>7, LandLegal, KindFacts

(* The policy or the parent of m changes.                                    *)
LEMMA PlaceLegal ==
  ASSUME TypeOK, NEW m \in Milestones, guardClaim(m), NEW file, NEW verb, NEW actor,
         NEW force, NEW claim, Land(m, file, verb, actor, force, claim),
         file.status = disk[m].status, file.acs = disk[m].acs
  PROVE  LegalStep
<1>1. LegalEdges(m, head[m], file)
  BY DEF LegalEdges, guardClaim
<1> QED
  BY <1>1, LandLegal, KindFacts

LEMMA MilestoneVerbsLegal ==
  ASSUME TypeOK, NEW m \in Milestones, NEW actor \in Actors, MilestoneVerbs(m, actor)
  PROVE  LegalStep
<1>0. m \in Entities /\ disk[m] \in MilestoneFile
  BY KindFacts, DiskFiles
<1>1. ASSUME NEW e \in Epics, NEW tdd \in Policies, AddMilestone(m, e, tdd, actor)
      PROVE  LegalStep
  <2>1. ~Exists(head, m)
    BY <1>1 DEF AddMilestone, NoMilestone, Exists
  <2> QED
    BY <1>0, <1>1, <2>1, AddLegal DEF AddMilestone
<1>2. ASSUME NEW policy \in Policies, MilestoneTDD(m, policy, actor)
      PROVE  LegalStep
  <2> DEFINE file == [disk[m] EXCEPT !.tdd = policy]
  <2>1. file.status = disk[m].status /\ file.acs = disk[m].acs
    BY <1>0 DEF MilestoneFile
  <2>2. CASE disk[m].tdd = policy
    BY <1>2, <2>2, ConvergeLegal DEF MilestoneTDD
  <2>3. CASE disk[m].tdd # policy
    <3>1. /\ Land(m, file, "milestone-tdd", actor, FALSE, Claim(m, "tdd", 0, policy))
          /\ guardClaim(m)
      BY <1>2, <2>3 DEF MilestoneTDD, planEntityWrite
    <3> HIDE DEF file
    <3> QED
      BY <2>1, <3>1, PlaceLegal
  <2> QED
    BY <2>2, <2>3
<1>3. ASSUME NEW e \in Epics, Move(m, e, actor)
      PROVE  LegalStep
  <2> DEFINE file == [disk[m] EXCEPT !.parent = e]
  <2>1. file.status = disk[m].status /\ file.acs = disk[m].acs
    BY <1>0 DEF MilestoneFile
  <2>2. CASE disk[m].parent = e
    BY <1>3, <2>2, ConvergeLegal DEF Move
  <2>3. CASE disk[m].parent # e
    <3>1. Land(m, file, "move", actor, FALSE, Claim(m, "parent", 0, e)) /\ guardClaim(m)
      BY <1>3, <2>3 DEF Move
    <3> HIDE DEF file
    <3> QED
      BY <2>1, <3>1, PlaceLegal
  <2> QED
    BY <2>2, <2>3
<1>4. ASSUME editBodyBless(m, actor)
      PROVE  LegalStep
  <2>1. SameFrontmatter(disk[m], disk[m])
    BY DEF SameFrontmatter
  <2> QED
    BY <1>4, <2>1, BodyEditLegal DEF editBodyBless
<1> QED
  BY <1>1, <1>2, <1>3, <1>4, AddACLegal, ACVerbsLegal DEF MilestoneVerbs

LEMMA VerbLegal ==
  ASSUME TypeOK, NEW actor \in Actors, Verb(actor)
  PROVE  LegalStep
<1>1. ASSUME NEW e \in Epics, AddEpic(e, actor)
      PROVE  LegalStep
  <2>1. ~Exists(head, e)
    BY <1>1 DEF AddEpic, NoEpic, Exists
  <2> QED
    BY <1>1, <2>1, AddLegal, KindFacts DEF AddEpic
<1>2. CASE Archive(actor)
  <2>1. ASSUME NEW x \in Entities PROVE LegalEdges(x, head[x], head'[x])
    <3>1. CASE x \in Epics
      BY <1>2, <3>1, SweptFields, KindFacts DEF LegalEdges
    <3>2. CASE x \in Milestones
      BY <1>2, <3>2, SweptFields, NoEdges
    <3> QED
      BY <3>1, <3>2, KindFacts
  <2> QED
    BY <2>1, EdgesAreLegal DEF LegalStep
<1> QED
  BY <1>1, <1>2, MilestoneVerbsLegal, StatusVerbsLegal DEF Verb

(* Between two commits an unforced verb moves every status and phase along   *)
(* one edge of its FSM or not at all, in whatever tree hand edits and raw    *)
(* commits have left: the file a verb writes is the record's, but for the    *)
(* field it changes and checked.                                             *)
THEOREM VerbsFollowTheFSMs == Spec => UnforcedStepsAreLegal
<1>1. TypeOK /\ [Next]_vars => [LegalStep]_vars
  <2>1. CASE \E actor \in Actors : Verb(actor)
    BY <2>1, VerbLegal
  <2>2. CASE Operator
    BY <2>2 DEF Operator, HandEdit, Restore, RawCommit, Silent, LegalStep
  <2> QED
    BY <2>1, <2>2 DEF Next
<1> QED
  BY <1>1, TypeCorrect, PTL DEF Spec, UnforcedStepsAreLegal, LegalStep

-----------------------------------------------------------------------------
(* What a verb answers is what the table says of its request.                *)

TableStep ==
  (/\ result'.verb \in {"promote", "cancel"} /\ ~result'.force
   /\ ~IsArchivedPath(disk, result'.claim.x)) => AnswerInTable(result')

LEMMA ClaimInTable ==
  ASSUME NEW verb, NEW actor, NEW x, NEW i, NEW v, NEW outcome \in {"committed", "noop"}
  PROVE  LET answer(field) == Answer(outcome, verb, actor, FALSE, Claim(x, field, i, v))
             told == IF outcome = "committed" THEN "Legal" ELSE "NoOp"
         IN
         /\ AnswerInTable(answer("status"))
              <=> MayEnd(Kind(x), disk[x].status, verb, v, EntityContext(x), told)
         /\ AnswerInTable(answer("terminal"))
              <=> MayEnd(Kind(x), disk[x].status, verb, disk[x].status, EntityContext(x), told)
         /\ AnswerInTable(answer("ac"))
              <=> MayEnd("ac", disk[x].acs[i].status, verb, v, ACContext(x, i), told)
         /\ AnswerInTable(answer("acTerminal"))
              <=> MayEnd("ac", disk[x].acs[i].status, verb, disk[x].acs[i].status, ACContext(x, i), told)
         /\ AnswerInTable(answer("phase"))
              <=> MayEnd("tdd-phase", disk[x].acs[i].phase, verb, v, ACContext(x, i), told)
BY DEF AnswerInTable, Answer, Claim

LEMMA FindingNames ==
  \A t, u, x, y, i, j, c, d, a, b :
    Finding(c, Path(t, x), i, a) = Finding(d, Path(u, y), j, b) => x = y /\ i = j /\ a = b
BY DEF Finding, Path

(* The net: a milestone newly closed outside the archive has no open         *)
(* criterion, and a criterion newly met there is done where that is required. *)
LEMMA NetAtClosing ==
  ASSUME TypeOK, NEW m \in Milestones, ~IsArchivedPath(disk, m), ~Terminal(disk, m),
         NEW to, IsTerminal("milestone", to), to # Absent,
         ProjectionClean(m, [disk[m] EXCEPT !.status = to])
  PROVE  OpenACs(disk[m]) = {}
<1> DEFINE p == [disk[m] EXCEPT !.status = to]
           t == [disk EXCEPT ![m] = p]
<1>1. /\ t[m] = p /\ p.status = to /\ p.acs = disk[m].acs /\ p.parent = disk[m].parent
      /\ \A e \in Epics : t[e] = disk[e]
  BY DiskFiles, KindFacts DEF MilestoneFile, TypeOK, TreeOK
<1>2. milestoneTerminalIncompleteACs(t) \subseteq milestoneTerminalIncompleteACs(disk)
  BY NetPerRule
<1> HIDE DEF t, p
<1>3. Terminal(t, m) /\ ~IsArchivedPath(t, m)
  BY <1>1, KindFacts DEF Terminal, Exists, IsArchivedPath
<1> SUFFICES ASSUME OpenACs(disk[m]) # {}
             PROVE  FALSE
  OBVIOUS
<1>4. Incomplete(t, m) \in milestoneTerminalIncompleteACs(t)
  BY <1>1, <1>3 DEF milestoneTerminalIncompleteACs, ActiveMilestones, Terminal, OpenACs
<1>5. PICK n \in Milestones : Incomplete(t, m) = Incomplete(disk, n) /\ Terminal(disk, n)
  BY <1>2, <1>4 DEF milestoneTerminalIncompleteACs, ActiveMilestones
<1> QED
  BY <1>5, FindingNames DEF Incomplete

LEMMA NetAtMeeting ==
  ASSUME TypeOK, NEW m \in Milestones, Exists(disk, m), ~IsArchivedPath(disk, m),
         disk[m].tdd = "required", NEW i \in DOMAIN disk[m].acs, NEW ac \in AC,
         ac.status = "met", disk[m].acs[i].status # "met",
         ProjectionClean(m, [disk[m] EXCEPT !.acs[i] = ac])
  PROVE  ac.phase = "done"
<1> DEFINE p == [disk[m] EXCEPT !.acs[i] = ac]
           t == [disk EXCEPT ![m] = p]
<1>0. p \in MilestoneFile /\ p.acs[i] = ac /\ DOMAIN p.acs = DOMAIN disk[m].acs
  BY DiskFiles, ReplaceAC
<1>1. p.status = disk[m].status /\ p.tdd = disk[m].tdd /\ p.parent = disk[m].parent
  BY DiskFiles DEF MilestoneFile
<1>2. t[m] = p /\ \A e \in Epics : t[e] = disk[e]
  BY KindFacts DEF TypeOK, TreeOK
<1>3. acsTDDAudit(t) \subseteq acsTDDAudit(disk)
  BY NetPerRule
<1> HIDE DEF t, p
<1>4. m \in ActiveMilestones(t)
  BY <1>1, <1>2, KindFacts DEF Exists, IsArchivedPath, ActiveMilestones
<1> SUFFICES ASSUME ac.phase # "done"
             PROVE  FALSE
  OBVIOUS
<1>5. Finding("acs-tdd-audit", Path(t, m), i, ac.phase) \in acsTDDAudit(t)
  BY <1>0, <1>1, <1>2, <1>4 DEF acsTDDAudit
<1>6. PICK n \in ActiveMilestones(disk) : \E j \in DOMAIN disk[n].acs :
        /\ Finding("acs-tdd-audit", Path(t, m), i, ac.phase) =
             Finding("acs-tdd-audit", Path(disk, n), j, disk[n].acs[j].phase)
        /\ disk[n].acs[j].status = "met"
  BY <1>3, <1>5 DEF acsTDDAudit
<1> QED
  BY <1>6, FindingNames

(* What the contexts hold.                                                   *)
LEMMA Contexts ==
  /\ \A x \in Epics : EntityContext(x).children = {disk[m].status : m \in Children(disk, x)}
  /\ \A x \in Milestones :
       EntityContext(x).acs = {disk[x].acs[i].status : i \in DOMAIN disk[x].acs}
  /\ \A m, i : /\ ACContext(m, i).tdd = disk[m].tdd
              /\ ACContext(m, i).phase = disk[m].acs[i].phase
              /\ ACContext(m, i).tests = None
BY KindFacts DEF EntityContext, ACContext, NoContext

\* The guards and the net leave x nothing open below it.
NothingOpen(x) ==
  /\ x \in Epics => \A s \in EntityContext(x).children : s \in {"done", "cancelled"}
  /\ x \in Milestones => \A s \in EntityContext(x).acs : s # "open"

LEMMA ClosingIsClean ==
  ASSUME TypeOK, NEW x \in Entities, ~IsArchivedPath(disk, x), Exists(disk, x),
         ~Terminal(disk, x), NEW to \in {"done", "cancelled"}, CascadeGuards(x, to),
         ProjectionClean(x, [disk[x] EXCEPT !.status = to])
  PROVE  NothingOpen(x)
<1>1. IsTerminal("epic", to) /\ IsTerminal("milestone", to) /\ to # Absent
  BY FSMFacts DEF Absent
<1>2. ASSUME x \in Epics, NEW m \in Children(disk, x)
      PROVE  disk[m].status \in {"done", "cancelled"}
  <2>1. nonTerminalEpicChildren(disk, x) = {}
    BY <1>1, <1>2, KindFacts DEF CascadeGuards, epicChildrenCascadeGuard
  <2>2. Terminal(disk, m) /\ m \in Milestones
    BY <1>2, <2>1 DEF nonTerminalEpicChildren, Children
  <2> QED
    BY <2>2, FSMFacts, KindFacts DEF Terminal, IsTerminal
<1>3. ASSUME x \in Milestones
      PROVE  OpenACs(disk[x]) = {}
  BY <1>1, <1>3, NetAtClosing
<1>4. x \in Milestones => \A i \in DOMAIN disk[x].acs : disk[x].acs[i].status # "open"
  BY <1>3 DEF OpenACs
<1> QED
  BY <1>2, <1>4, Contexts DEF NothingOpen

(* One edge of x's FSM, by promote or by cancel.                             *)
LEMMA EdgeInTable ==
  ASSUME TypeOK, NEW x \in Entities, guardClaim(x), NEW to, NEW verb \in {"promote", "cancel"},
         ~IsArchivedPath(disk, x), ValidateTransition(Kind(x), disk[x].status, to),
         verb = "cancel" => to = "cancelled", CascadeGuards(x, to),
         ProjectionClean(x, [disk[x] EXCEPT !.status = to])
  PROVE  MayEnd(Kind(x), disk[x].status, verb, to, EntityContext(x), "Legal")
<1>1. disk[x].status \in Statuses(Kind(x)) /\ Exists(disk, x)
  BY DiskStatus DEF guardClaim
<1>2. ~Terminal(disk, x)
  BY DEF Terminal, IsTerminal, ValidateTransition
<1>3. to \in {"done", "cancelled"} => NothingOpen(x)
  BY <1>1, <1>2, ClosingIsClean
<1>4. CASE x \in Epics
  BY <1>1, <1>3, <1>4, EpicRequests, KindFacts DEF NothingOpen
<1>5. CASE x \in Milestones
  BY <1>1, <1>3, <1>5, MilestoneRequests, KindFacts DEF NothingOpen
<1> QED
  BY <1>4, <1>5, KindFacts

LEMMA StayInTable ==
  ASSUME TypeOK, NEW x \in Entities, Exists(disk, x), NEW verb \in {"promote", "cancel"}
  PROVE  MayEnd(Kind(x), disk[x].status, verb, disk[x].status, EntityContext(x), "NoOp")
BY DiskStatus, EpicRequests, MilestoneRequests, KindFacts

LEMMA AnswerFields ==
  ASSUME NEW outcome, NEW verb, NEW actor, NEW force, NEW claim,
         result' = Answer(outcome, verb, actor, force, claim)
  PROVE  /\ result'.verb = verb /\ result'.force = force /\ result'.claim = claim
         /\ ~force /\ force \in BOOLEAN => result' = Answer(outcome, verb, actor, FALSE, claim)
BY DEF Answer

LEMMA KeepsToTable ==
  ASSUME NEW outcome, NEW verb, NEW actor, NEW force \in BOOLEAN, NEW claim,
         result' = Answer(outcome, verb, actor, force, claim),
         ~force /\ ~IsArchivedPath(disk, claim.x) =>
           AnswerInTable(Answer(outcome, verb, actor, FALSE, claim))
  PROVE  TableStep
<1> SUFFICES ASSUME ~result'.force, ~IsArchivedPath(disk, result'.claim.x)
             PROVE  AnswerInTable(result')
  BY DEF TableStep
<1>1. /\ ~force /\ result'.claim = claim
      /\ result' = Answer(outcome, verb, actor, FALSE, claim)
  BY AnswerFields
<1>2. ~IsArchivedPath(disk, claim.x)
  BY <1>1
<1> QED
  BY <1>1, <1>2

LEMMA OtherVerbs == result'.verb \notin {"promote", "cancel"} => TableStep
BY DEF TableStep

(* What an answer names as its verb is the verb that wrote it.               *)
LEMMA NamedVerb ==
  ASSUME NEW verb, verb \notin {"promote", "cancel"}, NEW actor, NEW force, NEW claim
  PROVE  /\ Converge(verb, actor, force, claim) => TableStep
         /\ \A x, file : Land(x, file, verb, actor, force, claim) => TableStep
<1>1. Answer("noop", verb, actor, force, claim).verb = verb
      /\ Answer("committed", verb, actor, force, claim).verb = verb
  BY DEF Answer
<1>2. (\/ result' = Answer("noop", verb, actor, force, claim)
       \/ result' = Answer("committed", verb, actor, force, claim)) => TableStep
  BY <1>1, OtherVerbs
<1> QED
  BY <1>2 DEF Converge, Land

LEMMA PromoteInTable ==
  ASSUME TypeOK, NEW x \in Entities, NEW to, NEW actor, NEW force \in BOOLEAN,
         Promote(x, to, actor, force)
  PROVE  TableStep
<1> DEFINE claim == Claim(x, "status", 0, to)
<1>0. claim.x = x
  BY DEF Claim
<1>1. guardClaim(x) /\ Exists(disk, x)
  BY DEF Promote, guardClaim
<1>2. CASE disk[x].status = to
  <2>1. result' = Answer("noop", "promote", actor, force, claim)
    BY <1>2 DEF Promote, Converge
  <2>2. AnswerInTable(Answer("noop", "promote", actor, FALSE, claim))
    BY <1>1, <1>2, StayInTable, ClaimInTable
  <2> HIDE DEF claim
  <2> QED
    BY <2>1, <2>2, KeepsToTable
<1>3. CASE disk[x].status # to
  <2>1. /\ result' = Answer("committed", "promote", actor, force, claim)
        /\ ~force => ValidateTransition(Kind(x), disk[x].status, to)
        /\ CascadeGuards(x, to)
        /\ ProjectionClean(x, [disk[x] EXCEPT !.status = to])
    BY <1>3 DEF Promote, planEntityWrite, Land
  <2>2. ~force /\ ~IsArchivedPath(disk, x) =>
          AnswerInTable(Answer("committed", "promote", actor, FALSE, claim))
    BY <1>1, <2>1, EdgeInTable, ClaimInTable
  <2> HIDE DEF claim
  <2> QED
    BY <1>0, <2>1, <2>2, KeepsToTable
<1> QED
  BY <1>2, <1>3

LEMMA CancelInTable ==
  ASSUME TypeOK, NEW x \in Entities, NEW actor, NEW force \in BOOLEAN, Cancel(x, actor, force)
  PROVE  TableStep
<1>1. guardClaim(x) /\ Exists(disk, x)
  BY DEF Cancel, guardClaim
<1>2. CASE Terminal(disk, x)
  <2> DEFINE claim == Claim(x, "terminal", 0, None)
  <2>1. result' = Answer("noop", "cancel", actor, force, claim)
    BY <1>2 DEF Cancel, Converge
  <2>2. AnswerInTable(Answer("noop", "cancel", actor, FALSE, claim))
    BY <1>1, StayInTable, ClaimInTable
  <2> HIDE DEF claim
  <2> QED
    BY <2>1, <2>2, KeepsToTable
<1>3. CASE ~Terminal(disk, x)
  <2> DEFINE claim == Claim(x, "status", 0, "cancelled")
  <2>0. CancelTarget(Kind(x), disk[x].status) = "cancelled" /\ claim.x = x
    BY FSMFacts, KindFacts DEF Claim
  <2>1. /\ result' = Answer("committed", "cancel", actor, force, claim)
        /\ CascadeGuards(x, "cancelled")
        /\ ProjectionClean(x, [disk[x] EXCEPT !.status = "cancelled"])
    BY <1>3, <2>0 DEF Cancel, planEntityWrite, Land
  <2>2. ValidateTransition(Kind(x), disk[x].status, "cancelled")
    BY <1>1, <1>3, DiskStatus, CancelIsLegal, KindFacts DEF Terminal
  <2>3. ~IsArchivedPath(disk, x) =>
          AnswerInTable(Answer("committed", "cancel", actor, FALSE, claim))
    BY <1>1, <2>1, <2>2, EdgeInTable, ClaimInTable
  <2> HIDE DEF claim
  <2> QED
    BY <2>0, <2>1, <2>3, KeepsToTable
<1> QED
  BY <1>2, <1>3

LEMMA ACVerbsInTable ==
  ASSUME TypeOK, NEW m \in Milestones, NEW i \in DOMAIN disk[m].acs, NEW actor \in Actors,
         ACVerbs(m, i, actor)
  PROVE  TableStep
<1>0. disk[m].acs[i] \in AC /\ m \in Entities
  BY DiskACs, KindFacts
<1>c. disk[m].acs[i].status \in ACStatuses /\ disk[m].acs[i].phase \in TDDPhases
  BY <1>0 DEF AC
<1>1. ASSUME NEW force \in BOOLEAN, NEW to \in ACStatuses, promoteAC(m, i, to, actor, force)
      PROVE  TableStep
  <2> DEFINE ac == disk[m].acs[i]
             moved == [ac EXCEPT !.status = to, !.phase = IF to = "open" THEN None ELSE @]
             claim == Claim(m, "ac", i, to)
  <2>1. moved \in AC /\ moved.status = to /\ (to # "open" => moved.phase = ac.phase)
    BY <1>0 DEF AC, TDDPhases
  <2>2. CASE ac.status = to
    <3>1. result' = Answer("noop", "promote", actor, force, claim)
      BY <1>1, <2>2 DEF promoteAC, Converge
    <3>2. AnswerInTable(Answer("noop", "promote", actor, FALSE, claim))
      BY <1>c, <2>2, ACRequests, ClaimInTable
    <3> HIDE DEF claim
    <3> QED
      BY <3>1, <3>2, KeepsToTable
  <2>3. CASE ac.status # to
    <3>1. /\ result' = Answer("committed", "promote", actor, force, claim)
          /\ force \/ IsLegalACTransition(ac.status, to)
          /\ guardClaim(m) /\ ProjectionClean(m, [disk[m] EXCEPT !.acs[i] = moved])
      BY <1>1, <2>3 DEF promoteAC, planEntityWrite, Land
    <3>c. claim.x = m
      BY DEF Claim
    <3> HIDE DEF moved
    <3>2. ~IsArchivedPath(disk, m) /\ to = "met" /\ disk[m].tdd = "required" => ac.phase = "done"
      BY <1>0, <2>1, <2>3, <3>1, NetAtMeeting DEF guardClaim
    <3>3. ~force /\ ~IsArchivedPath(disk, m) =>
            MayEnd("ac", ac.status, "promote", to, ACContext(m, i), "Legal")
      BY <1>c, <3>1, <3>2, ACRequests, Contexts
    <3>4. ~force /\ ~IsArchivedPath(disk, m) =>
            AnswerInTable(Answer("committed", "promote", actor, FALSE, claim))
      BY <3>3, ClaimInTable
    <3> HIDE DEF claim
    <3> QED
      BY <3>c, <3>1, <3>4, KeepsToTable
  <2> QED
    BY <2>2, <2>3
<1>2. ASSUME NEW force \in BOOLEAN, NEW to \in TDDPhases \ {None},
             PromoteACPhase(m, i, to, actor, force)
      PROVE  TableStep
  <2> DEFINE ac == disk[m].acs[i]
             claim == Claim(m, "phase", i, to)
  <2>1. CASE ac.phase = to
    <3>1. result' = Answer("noop", "promote", actor, force, claim)
      BY <1>2, <2>1 DEF PromoteACPhase, Converge
    <3>2. AnswerInTable(Answer("noop", "promote", actor, FALSE, claim))
      BY <1>c, <2>1, PhaseRequests, Contexts, ClaimInTable
    <3> HIDE DEF claim
    <3> QED
      BY <3>1, <3>2, KeepsToTable
  <2>2. CASE ac.phase # to
    <3>1. /\ result' = Answer("committed", "promote", actor, force, claim)
          /\ force \/ IsLegalTDDPhaseTransition(ac.phase, to)
      BY <1>2, <2>2 DEF PromoteACPhase, planEntityWrite, Land
    <3>2. ~force => MayEnd("tdd-phase", ac.phase, "promote", to, ACContext(m, i), "Legal")
      BY <1>c, <3>1, PhaseRequests, Contexts
    <3>3. ~force => AnswerInTable(Answer("committed", "promote", actor, FALSE, claim))
      BY <3>2, ClaimInTable
    <3> HIDE DEF claim
    <3> QED
      BY <3>1, <3>3, KeepsToTable
  <2> QED
    BY <2>1, <2>2
<1>3. ASSUME NEW force \in BOOLEAN, cancelAC(m, i, actor, force)
      PROVE  TableStep
  <2> DEFINE ac == disk[m].acs[i]
  <2>1. CASE IsTerminalACStatus(ac.status)
    <3> DEFINE claim == Claim(m, "acTerminal", i, None)
    <3>1. result' = Answer("noop", "cancel", actor, force, claim)
      BY <1>3, <2>1 DEF cancelAC, Converge
    <3>2. AnswerInTable(Answer("noop", "cancel", actor, FALSE, claim))
      BY <1>c, ACRequests, ClaimInTable
    <3> HIDE DEF claim
    <3> QED
      BY <3>1, <3>2, KeepsToTable
  <2>2. CASE ~IsTerminalACStatus(ac.status)
    <3> DEFINE claim == Claim(m, "ac", i, "cancelled")
    <3>1. result' = Answer("committed", "cancel", actor, force, claim)
      BY <1>3, <2>2 DEF cancelAC, planEntityWrite, Land
    <3>2. MayEnd("ac", ac.status, "cancel", "cancelled", ACContext(m, i), "Legal")
      BY <1>c, <2>2, ACFSMFacts, ACRequests
    <3>3. AnswerInTable(Answer("committed", "cancel", actor, FALSE, claim))
      BY <3>2, ClaimInTable
    <3> HIDE DEF claim
    <3> QED
      BY <3>1, <3>3, KeepsToTable
  <2> QED
    BY <2>1, <2>2
<1>4. ASSUME NEW section \in Sections, editBodyExplicit(m, i, section, actor)
      PROVE  TableStep
  BY <1>4, NamedVerb DEF editBodyExplicit
<1> QED
  BY <1>1, <1>2, <1>3, <1>4, FlagsAreBoolean DEF ACVerbs

LEMMA VerbInTable ==
  ASSUME TypeOK, NEW actor \in Actors, Verb(actor)
  PROVE  TableStep
<1>1. ASSUME NEW e \in Epics, AddEpic(e, actor) PROVE TableStep
  BY <1>1, OtherVerbs DEF AddEpic, planEntityWrite, Land, Answer
<1>2. ASSUME NEW m \in Milestones, MilestoneVerbs(m, actor) PROVE TableStep
  <2>1. ASSUME NEW e \in Epics, NEW tdd \in Policies, AddMilestone(m, e, tdd, actor)
        PROVE  TableStep
    BY <2>1, OtherVerbs DEF AddMilestone, planEntityWrite, Land, Answer
  <2>2. ASSUME NEW section \in Sections, AddAC(m, section, actor) PROVE TableStep
    BY <2>2, OtherVerbs DEF AddAC, Land, Answer
  <2>3. ASSUME NEW policy \in Policies, MilestoneTDD(m, policy, actor) PROVE TableStep
    BY <2>3, NamedVerb DEF MilestoneTDD, planEntityWrite
  <2>4. ASSUME NEW e \in Epics, Move(m, e, actor) PROVE TableStep
    BY <2>4, NamedVerb DEF Move
  <2>5. ASSUME editBodyBless(m, actor) PROVE TableStep
    BY <2>5, OtherVerbs DEF editBodyBless, Land, Answer
  <2> QED
    BY <1>2, <2>1, <2>2, <2>3, <2>4, <2>5, ACVerbsInTable DEF MilestoneVerbs
<1>3. ASSUME NEW x \in Entities, StatusVerbs(x, actor) PROVE TableStep
  BY <1>3, PromoteInTable, CancelInTable, FlagsAreBoolean DEF StatusVerbs
<1>4. CASE Archive(actor)
  BY <1>4, OtherVerbs DEF Archive, Answer
<1> QED
  BY <1>1, <1>2, <1>3, <1>4 DEF Verb

(* The verbs keep to the repository's table of legal requests                *)
(* (workflows/spec), in any tree the operator can leave: what an unforced    *)
(* promote or cancel outside the archive does is what the table's rows say   *)
(* of that request.  The FSMs, the cascade guards and the projection net are *)
(* all needed for it.                                                        *)
THEOREM AnswersAreInTheTable == Spec => VerbsKeepToTheTable
<1>1. TypeOK /\ [Next]_vars => [TableStep]_vars
  <2>1. CASE \E actor \in Actors : Verb(actor)
    BY <2>1, VerbInTable
  <2>2. CASE Operator
    BY <2>2 DEF Operator, HandEdit, Restore, RawCommit, Silent, TableStep
  <2> QED
    BY <2>1, <2>2 DEF Next
<1> QED
  BY <1>1, TypeCorrect, PTL DEF Spec, VerbsKeepToTheTable, TableStep
=============================================================================
