------------------------------- MODULE TreeOps -------------------------------
(***************************************************************************)
(* Trees of files and the plans a verb hands to verb.Apply: renames of     *)
(* directories (OpMove) and whole-file writes (OpWrite).  A flat-file      *)
(* rename is the rename of a directory with one file.                      *)
(***************************************************************************)
EXTENDS Naturals, Sequences

CONSTANTS
  Dirs, Names,     \* an entity file is <<dir, name>>
  Fields, Bodies,  \* what its frontmatter (keys with values) and its body may hold
  MaxWrites        \* bound: whole-file writes per plan

None == ""
Files == Dirs \X Names
Content == [fm : Fields, body : Bodies]
Absent == [fm |-> None, body |-> None]

ASSUME TreeAssumption == None \notin Fields \cup Bodies /\ MaxWrites \in Nat

Tree == [Files -> Content \cup {Absent}]
EmptyTree == [f \in Files |-> Absent]

FilesIn(t, d) == {f \in {d} \X Names : t[f] # Absent}

\* FileOp: OpMove, and OpWrite with AdoptsWorkingCopy.
Renames == {op \in [type : {"move"}, from : Dirs, to : Dirs] : op.from # op.to}
FileWrites == [type : {"write"}, path : Files, content : Content, adopts : BOOLEAN]

\* The plans verbs hand over: at most one rename (the bound), then the writes,
\* which name the new location of a renamed file, never the old one; and the
\* single adopting write of edit-body.
Moves == {<<>>} \cup {<<op>> : op \in Renames}
Writes == UNION {[1..n -> {op \in FileWrites : ~op.adopts}] : n \in 0..MaxWrites}
Plans ==
  {plan \in {mw[1] \o mw[2] : mw \in Moves \X Writes} :
     /\ plan # <<>>
     /\ \A i, j \in DOMAIN plan :
          (plan[i].type = "move" /\ plan[j].type = "write") => plan[j].path[1] # plan[i].from}
  \cup {<<op>> : op \in {o \in FileWrites : o.adopts}}

Covers(op, f) ==
  IF op.type = "move" THEN f[1] \in {op.from, op.to} ELSE f = op.path

\* The paths planOpForPath finds an op for.
Touched(plan) == {f \in Files : \E i \in DOMAIN plan : Covers(plan[i], f)}

\* os.Rename of a directory, and a whole-file write.
Renamed(t, from, to) ==
  [f \in Files |-> CASE f[1] = to   -> t[<<from, f[2]>>]
                     [] f[1] = from -> Absent
                     [] OTHER       -> t[f]]

Written(t, path, content) == [t EXCEPT ![path] = content]

Perform(op, t) ==
  IF op.type = "move" THEN Renamed(t, op.from, op.to)
  ELSE Written(t, op.path, op.content)

\* The trees a plan leads through, one more operation done in each.
Stages(plan, t) ==
  LET after[i \in 0..Len(plan)] == IF i = 0 THEN t ELSE Perform(plan[i], after[i - 1])
  IN after

\* What the plan as a whole does to a tree.
Effect(plan, t) == Stages(plan, t)[Len(plan)]
=============================================================================
