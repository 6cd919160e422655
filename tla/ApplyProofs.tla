----------------------------- MODULE ApplyProofs -----------------------------
(***************************************************************************)
(* What ApplyTx guarantees for any number of invocations, files and        *)
(* commits, when the operator does not change the files a running verb is  *)
(* about to commit: the operator's work is safe, and verb.Apply implements *)
(* AtomicVerb.                                                             *)
(***************************************************************************)
EXTENDS ApplyTx, Inductions, FiniteSetTheorems

-----------------------------------------------------------------------------
(* What the operations of a plan do, one after the other, to the files it  *)
(* touches and to the others.                                              *)
USE TreeAssumption

(* What every plan a verb hands over looks like.                           *)
PlanOK(plan) ==
  /\ plan \in Seq(Renames \cup FileWrites)
  /\ plan # <<>>
  /\ \A i \in 1..Len(plan) : plan[i] \in Renames => i = 1
  /\ \A i, j \in 1..Len(plan) :
       (plan[i] \in Renames /\ plan[j] \in FileWrites) => plan[j].path[1] # plan[i].from
  /\ \A i \in 1..Len(plan) : (plan[i] \in FileWrites /\ plan[i].adopts) => Len(plan) = 1

LEMMA OpFacts ==
  /\ \A o \in Renames : o.type = "move" /\ o.from \in Dirs /\ o.to \in Dirs /\ o.from # o.to
  /\ \A o \in FileWrites : o.type = "write" /\ o.path \in Files /\ o.content \in Content /\ o.adopts \in BOOLEAN
  /\ \A o \in Renames \cup FileWrites : (o.type = "move" <=> o \in Renames) /\ (o.type = "write" <=> o \in FileWrites)
BY DEF Renames, FileWrites

LEMMA ContentFacts == Absent \notin Content
BY DEF Absent, Content

LEMMA PlanShape ==
  ASSUME NEW plan \in Plans
  PROVE  PlanOK(plan)
<1> DEFINE Plain == {op \in FileWrites : ~op.adopts}
           Ops == Renames \cup FileWrites
<1>1. CASE plan \in {<<op>> : op \in {o \in FileWrites : o.adopts}}
  <2>1. PICK op \in FileWrites : op.adopts /\ plan = <<op>>
    BY <1>1
  <2>2. op \in Ops
    OBVIOUS
  <2>3. plan \in Seq(Ops) /\ Len(plan) = 1 /\ plan[1] = op
    <3> HIDE DEF Ops
    <3> QED BY <2>1, <2>2
  <2>4. op \notin Renames
    BY OpFacts
  <2> QED BY <2>1, <2>3, <2>4 DEF PlanOK
<1>2. CASE plan \notin {<<op>> : op \in {o \in FileWrites : o.adopts}}
  <2>1. PICK mw \in Moves \X Writes : plan = mw[1] \o mw[2]
    BY <1>2 DEF Plans
  <2>2. /\ plan # <<>>
        /\ \A i, j \in DOMAIN plan :
             (plan[i].type = "move" /\ plan[j].type = "write") => plan[j].path[1] # plan[i].from
    BY <1>2 DEF Plans
  <2> DEFINE m == mw[1]
             w == mw[2]
  <2>3. m \in Moves /\ w \in Writes /\ plan = m \o w
    BY <2>1
  <2>4. PICK n \in 0..MaxWrites : w \in [1..n -> Plain]
    BY <2>3 DEF Writes
  <2> HIDE DEF m, w
  <2>5. w \in Seq(Plain) /\ Len(w) = n
    BY <2>4
  <2>6. \A j \in 1..n : w[j] \in FileWrites /\ ~w[j].adopts /\ w[j] \notin Renames
    BY <2>4, OpFacts
  <2>7. CASE m = <<>>
    <3>1. plan = w
      BY <2>3, <2>5, <2>7
    <3>2. plan \in Seq(Ops)
      BY <2>5, <2>6, <3>1
    <3> QED BY <2>2, <2>5, <2>6, <3>1, <3>2 DEF PlanOK
  <2>8. CASE m # <<>>
    <3>1. PICK op \in Renames : m = <<op>>
      BY <2>3, <2>8 DEF Moves
    <3>2. op \notin FileWrites
      BY OpFacts
    <3>3. /\ Len(plan) = n + 1
          /\ DOMAIN plan = 1..(n + 1)
          /\ plan[1] = op
          /\ \A i \in 2..(n + 1) : plan[i] = w[i - 1]
      BY <2>3, <2>5, <3>1
    <3>4. \A i \in 2..(n + 1) : plan[i] \in FileWrites /\ ~plan[i].adopts /\ plan[i] \notin Renames
      BY <2>6, <3>3
    <3>5. \A i \in 1..(n + 1) : plan[i] \in Ops
      BY <3>3, <3>4
    <3>6. plan \in Seq(Ops)
      <4>1. w \in Seq(Ops) /\ m \in Seq(Ops)
        <5>1. w \in Seq(Ops)
          BY <2>5, <2>6
        <5>2. op \in Ops
          OBVIOUS
        <5>3. m \in Seq(Ops)
          <6> HIDE DEF Ops
          <6> QED BY <3>1, <5>2
        <5> QED BY <5>1, <5>3
      <4> HIDE DEF Ops
      <4> QED BY <2>3, <4>1
    <3>7. \A i, j \in 1..Len(plan) :
            (plan[i] \in Renames /\ plan[j] \in FileWrites) => plan[j].path[1] # plan[i].from
      <4> SUFFICES ASSUME NEW i \in 1..Len(plan), NEW j \in 1..Len(plan),
                          plan[i] \in Renames, plan[j] \in FileWrites
                   PROVE  plan[j].path[1] # plan[i].from
        OBVIOUS
      <4>1. plan[i].type = "move" /\ plan[j].type = "write"
        BY OpFacts
      <4> QED BY <2>2, <3>3, <4>1
    <3> QED BY <2>2, <3>2, <3>3, <3>4, <3>6, <3>7 DEF PlanOK
  <2> QED BY <2>7, <2>8
<1> QED BY <1>1, <1>2

(* An operation makes a tree of a tree.                                    *)
LEMMA PerformType ==
  ASSUME NEW op \in Renames \cup FileWrites, NEW t \in Tree
  PROVE  Perform(op, t) \in Tree
<1>1. CASE op \in Renames
  <2>1. \A f \in Files : <<op.from, f[2]>> \in Files
    BY <1>1, OpFacts DEF Files
  <2> QED BY <1>1, <2>1, OpFacts DEF Perform, Renamed, Tree
<1>2. CASE op \in FileWrites
  BY <1>2, OpFacts DEF Perform, Written, Tree
<1> QED BY <1>1, <1>2

(* The trees a plan leads through satisfy their recursion.                 *)
LEMMA StagesUnfold ==
  ASSUME NEW plan \in Seq(Renames \cup FileWrites), NEW t \in Tree
  PROVE  /\ Stages(plan, t) \in [0..Len(plan) -> Tree]
         /\ Stages(plan, t)[0] = t
         /\ \A i \in 1..Len(plan) : Stages(plan, t)[i] = Perform(plan[i], Stages(plan, t)[i - 1])
<1> DEFINE n == Len(plan)
           Right(f) == f = [i \in 0..n |-> IF i = 0 THEN t ELSE Perform(plan[i], f[i - 1])]
           step == [i \in 1..n |-> [s \in Tree |-> Perform(plan[i], s)]]
<1>1. n \in Nat /\ \A i \in 1..n : plan[i] \in Renames \cup FileWrites
  OBVIOUS
<1>2. step \in [1..n -> [Tree -> Tree]]
  BY <1>1, PerformType
<1>3. PICK f \in [0..n -> Tree] : Recurs(f, n, t, step)
  <2> HIDE DEF step, n
  <2> QED BY <1>1, <1>2, RecursionOnInterval
<1>4. \A i \in 1..n : step[i][f[i - 1]] = Perform(plan[i], f[i - 1])
  <2> SUFFICES ASSUME NEW i \in 1..n PROVE step[i][f[i - 1]] = Perform(plan[i], f[i - 1])
    OBVIOUS
  <2>1. f[i - 1] \in Tree
    BY <1>1
  <2> QED BY <2>1
<1>5. Right(f)
  <2>1. \A i \in 0..n : f[i] = IF i = 0 THEN t ELSE Perform(plan[i], f[i - 1])
    BY <1>1, <1>3, <1>4 DEF Recurs
  <2> QED BY <2>1
<1>6. Stages(plan, t) = CHOOSE g : Right(g)
  BY DEF Stages
<1>7. Right(Stages(plan, t))
  <2> HIDE DEF Right
  <2> QED BY <1>5, <1>6
<1>8. Stages(plan, t) = f
  <2> DEFINE g == Stages(plan, t)
             S == {k \in Nat : k \in 0..n => g[k] = f[k]}
  <2>1. \A i \in 0..n : g[i] = IF i = 0 THEN t ELSE Perform(plan[i], g[i - 1])
    BY <1>7
  <2>2. \A i \in 0..n : f[i] = IF i = 0 THEN t ELSE Perform(plan[i], f[i - 1])
    BY <1>5
  <2>3. g = [i \in 0..n |-> g[i]]
    BY <1>7
  <2> HIDE DEF g
  <2>4. 0 \in S
    BY <2>1, <2>2, <1>1
  <2>5. \A k \in Nat : k \in S => k + 1 \in S
    BY <2>1, <2>2, <1>1
  <2>6. Nat \subseteq S
    BY <2>4, <2>5, SetInduction
  <2>7. \A i \in 0..n : g[i] = f[i]
    BY <2>6, <1>1
  <2>8. f = [i \in 0..n |-> f[i]]
    OBVIOUS
  <2>9. g = f
    BY <2>3, <2>7, <2>8
  <2> QED BY <2>9 DEF g
<1> QED BY <1>5, <1>8

(* What one operation leaves at a file.                                    *)
LEMMA PerformAt ==
  ASSUME NEW op \in Renames \cup FileWrites, NEW t \in Tree, NEW f \in Files
  PROVE  /\ ~Covers(op, f) => Perform(op, t)[f] = t[f]
         /\ (op \in FileWrites /\ f = op.path) => Perform(op, t)[f] = op.content
         /\ (op \in Renames /\ f[1] = op.from) => Perform(op, t)[f] = Absent
         /\ (op \in Renames /\ f[1] = op.to) =>
              /\ <<op.from, f[2]>> \in Files
              /\ Perform(op, t)[f] = t[<<op.from, f[2]>>]
<1>1. CASE op \in Renames
  BY <1>1, OpFacts DEF Perform, Renamed, Covers, Files
<1>2. CASE op \in FileWrites
  BY <1>2, OpFacts DEF Perform, Written, Covers, Tree
<1> QED BY <1>1, <1>2

(* Each operation of a plan covers only files the plan touches.            *)
LEMMA TouchedFacts ==
  ASSUME NEW plan \in Seq(Renames \cup FileWrites)
  PROVE  /\ Touched(plan) \subseteq Files
         /\ \A i \in 1..Len(plan), f \in Files : Covers(plan[i], f) => f \in Touched(plan)
         /\ \A i \in 1..Len(plan) :
              plan[i] \in FileWrites => plan[i].path \in Files /\ plan[i].path \in Touched(plan)
         /\ \A i \in 1..Len(plan) :
              plan[i] \in Renames =>
                \A n \in Names : /\ <<plan[i].from, n>> \in Files /\ <<plan[i].from, n>> \in Touched(plan)
                                 /\ <<plan[i].to, n>> \in Files /\ <<plan[i].to, n>> \in Touched(plan)
<1> DEFINE Ops == Renames \cup FileWrites
<1>1. DOMAIN plan = 1..Len(plan) /\ \A i \in 1..Len(plan) : plan[i] \in Ops
  OBVIOUS
<1>2. \A i \in 1..Len(plan), f \in Files : Covers(plan[i], f) => f \in Touched(plan)
  BY <1>1 DEF Touched
<1>3. \A op \in FileWrites : op.path \in Files /\ Covers(op, op.path)
  BY OpFacts DEF Covers
<1>4. \A op \in Renames : \A n \in Names :
        /\ <<op.from, n>> \in Files /\ Covers(op, <<op.from, n>>)
        /\ <<op.to, n>> \in Files /\ Covers(op, <<op.to, n>>)
  BY OpFacts DEF Covers, Files
<1> QED BY <1>1, <1>2, <1>3, <1>4 DEF Touched

(* A plan changes no file it does not touch.                               *)
LEMMA Untouched ==
  ASSUME NEW plan \in Seq(Renames \cup FileWrites), NEW t \in Tree,
         NEW f \in Files, f \notin Touched(plan)
  PROVE  \A k \in 0..Len(plan) : Stages(plan, t)[k][f] = t[f]
<1> DEFINE s == Stages(plan, t)
           S == {k \in Nat : k <= Len(plan) => s[k][f] = t[f]}
<1>1. /\ s \in [0..Len(plan) -> Tree]
      /\ s[0] = t
      /\ \A i \in 1..Len(plan) : s[i] = Perform(plan[i], s[i - 1])
  BY StagesUnfold
<1> HIDE DEF s
<1>2. 0 \in S
  BY <1>1
<1>3. ASSUME NEW k \in Nat, k \in S PROVE k + 1 \in S
  <2> SUFFICES ASSUME k + 1 <= Len(plan) PROVE s[k + 1][f] = t[f]
    OBVIOUS
  <2>1. k + 1 \in 1..Len(plan) /\ plan[k + 1] \in Renames \cup FileWrites
    OBVIOUS
  <2>2. ~Covers(plan[k + 1], f)
    BY <2>1, TouchedFacts
  <2>3. s[k] \in Tree /\ s[k][f] = t[f] /\ s[k + 1] = Perform(plan[k + 1], s[k])
    BY <1>1, <1>3, <2>1
  <2>4. Perform(plan[k + 1], s[k])[f] = s[k][f]
    BY <2>1, <2>2, <2>3, PerformAt
  <2> QED BY <2>3, <2>4
<1>4. Nat \subseteq S
  <2> HIDE DEF S
  <2> QED BY <1>2, <1>3, SetInduction
<1> QED BY <1>4 DEF s

(* The first operation of the plan that covers f is operation i, a write   *)
(* of f.                                                                   *)
WrittenFirst(plan, i, f) ==
  /\ plan[i] \in FileWrites /\ plan[i].path = f
  /\ \A j \in 1..(i - 1) : ~Covers(plan[j], f)

(* Two trees that agree where the plan reads them agree where it leaves    *)
(* them: the plan's effect on the files it touches depends on no other     *)
(* file, and not on what a write replaces.                                 *)
LEMMA EffectLocal ==
  ASSUME NEW plan, PlanOK(plan), NEW t \in Tree, NEW u \in Tree,
         \A f \in Touched(plan) : t[f] = u[f] \/ \E i \in 1..Len(plan) : WrittenFirst(plan, i, f)
  PROVE  \A f \in Touched(plan) : Stages(plan, t)[Len(plan)][f] = Stages(plan, u)[Len(plan)][f]
<1> DEFINE s == Stages(plan, t)
           r == Stages(plan, u)
           T == Touched(plan)
           Same(k) == \A f \in T : s[k][f] = r[k][f]
                                   \/ \E i \in (k + 1)..Len(plan) : WrittenFirst(plan, i, f)
           S == {k \in Nat : k <= Len(plan) => Same(k)}
<1>1. plan \in Seq(Renames \cup FileWrites) /\ T \subseteq Files
  BY TouchedFacts DEF PlanOK
<1>2. /\ s \in [0..Len(plan) -> Tree] /\ r \in [0..Len(plan) -> Tree]
      /\ s[0] = t /\ r[0] = u
      /\ \A i \in 1..Len(plan) : s[i] = Perform(plan[i], s[i - 1])
      /\ \A i \in 1..Len(plan) : r[i] = Perform(plan[i], r[i - 1])
  BY <1>1, StagesUnfold
<1> HIDE DEF s, r
<1>3. 0 \in S
  BY <1>2
<1>4. ASSUME NEW k \in Nat, k \in S PROVE k + 1 \in S
  <2> SUFFICES ASSUME k + 1 <= Len(plan), NEW f \in T
               PROVE  \/ s[k + 1][f] = r[k + 1][f]
                      \/ \E i \in (k + 2)..Len(plan) : WrittenFirst(plan, i, f)
    OBVIOUS
  <2> DEFINE op == plan[k + 1]
  <2>1. /\ k + 1 \in 1..Len(plan) /\ op \in Renames \cup FileWrites /\ f \in Files
        /\ s[k] \in Tree /\ r[k] \in Tree
        /\ s[k + 1] = Perform(op, s[k]) /\ r[k + 1] = Perform(op, r[k])
    BY <1>1, <1>2
  <2>2. Same(k)
    BY <1>4
  <2> HIDE DEF op, Same
  <2>3. CASE ~Covers(op, f)
    <3>1. s[k + 1][f] = s[k][f] /\ r[k + 1][f] = r[k][f]
      <4>1. Perform(op, s[k])[f] = s[k][f] /\ Perform(op, r[k])[f] = r[k][f]
        BY <2>1, <2>3, PerformAt
      <4> QED BY <2>1, <4>1
    <3>2. CASE s[k][f] = r[k][f]
      BY <3>1, <3>2
    <3>3. CASE s[k][f] # r[k][f]
      <4>1. PICK i \in (k + 1)..Len(plan) : WrittenFirst(plan, i, f)
        BY <2>2, <3>3 DEF Same
      <4>2. i # k + 1
        BY <2>3, <4>1, OpFacts DEF WrittenFirst, Covers, op
      <4> QED BY <4>1, <4>2
    <3> QED BY <3>2, <3>3
  <2>4. CASE op \in FileWrites /\ Covers(op, f)
    <3>1. f = op.path
      BY <2>4, OpFacts DEF Covers
    <3>2. Perform(op, s[k])[f] = op.content /\ Perform(op, r[k])[f] = op.content
      BY <2>1, <2>4, <3>1, PerformAt
    <3> QED BY <2>1, <3>2
  <2>5. CASE op \in Renames /\ Covers(op, f)
    <3>1. k = 0 /\ (f[1] = op.from \/ f[1] = op.to)
      BY <2>1, <2>5, OpFacts DEF PlanOK, Covers, op
    <3>2. CASE f[1] = op.from
      <4>1. Perform(op, s[k])[f] = Absent /\ Perform(op, r[k])[f] = Absent
        BY <2>1, <2>5, <3>2, PerformAt
      <4> QED BY <2>1, <4>1
    <3>3. CASE f[1] = op.to
      <4> DEFINE g == <<op.from, f[2]>>
      <4>1. g \in Files /\ s[k + 1][f] = s[k][g] /\ r[k + 1][f] = r[k][g]
        <5>1. g \in Files /\ Perform(op, s[k])[f] = s[k][g] /\ Perform(op, r[k])[f] = r[k][g]
          BY <2>1, <2>5, <3>3, PerformAt
        <5> QED BY <2>1, <5>1
      <4>2. Covers(op, g)
        BY <2>5, OpFacts DEF Covers
      <4>3. g \in T
        BY <1>1, <2>1, <4>1, <4>2, TouchedFacts DEF op
      <4>4. ASSUME NEW i \in 1..Len(plan) PROVE ~WrittenFirst(plan, i, g)
        <5>1. CASE i = 1
          BY <2>5, <3>1, <5>1, OpFacts DEF WrittenFirst, op
        <5>2. CASE i # 1
          BY <3>1, <4>2, <5>2 DEF WrittenFirst, op
        <5> QED BY <5>1, <5>2
      <4>5. s[k][g] = r[k][g]
        BY <2>2, <3>1, <4>3, <4>4 DEF Same
      <4> QED BY <4>1, <4>5
    <3> QED BY <3>1, <3>2, <3>3
  <2> QED BY <2>1, <2>3, <2>4, <2>5
<1>5. Nat \subseteq S
  <2> HIDE DEF S
  <2> QED BY <1>3, <1>4, SetInduction
<1>6. Len(plan) \in S
  BY <1>1, <1>5
<1> QED BY <1>1, <1>6 DEF s, r

(* After a rename, its old directory stays empty: no write of the plan     *)
(* goes there; and what is absent from the new one was absent from the     *)
(* old, for writes only add.                                               *)
LEMMA AfterRename ==
  ASSUME NEW plan, PlanOK(plan), NEW t \in Tree, plan[1] \in Renames,
         NEW n \in Names, NEW k \in 1..Len(plan)
  PROVE  /\ Stages(plan, t)[k][<<plan[1].from, n>>] = Absent
         /\ Stages(plan, t)[k][<<plan[1].to, n>>] = Absent => t[<<plan[1].from, n>>] = Absent
<1> DEFINE s == Stages(plan, t)
           a == <<plan[1].from, n>>
           b == <<plan[1].to, n>>
           S == {j \in Nat : s[j][a] = Absent /\ (s[j][b] = Absent => t[a] = Absent)}
<1>1. plan \in Seq(Renames \cup FileWrites) /\ a \in Files /\ b \in Files
  BY OpFacts DEF PlanOK, Files
<1>2. /\ s \in [0..Len(plan) -> Tree]
      /\ s[0] = t
      /\ \A i \in 1..Len(plan) : s[i] = Perform(plan[i], s[i - 1])
  BY <1>1, StagesUnfold
<1> HIDE DEF s
<1>3. 1 \in S
  <2>1. s[1] = Perform(plan[1], t)
    BY <1>1, <1>2
  <2>2. a[1] = plan[1].from /\ b[1] = plan[1].to /\ b[2] = n
    OBVIOUS
  <2> HIDE DEF b
  <2>3. s[1][a] = Absent /\ s[1][b] = t[<<plan[1].from, n>>]
    BY <1>1, <2>1, <2>2, PerformAt
  <2> QED BY <2>3
<1>4. ASSUME NEW j \in 1..(Len(plan) - 1), j \in S PROVE j + 1 \in S
  <2> DEFINE op == plan[j + 1]
  <2>1. /\ op \in FileWrites
        /\ s[j] \in Tree /\ s[j + 1] = Perform(op, s[j])
    <3>1. /\ j \in 0..Len(plan) /\ j + 1 \in 1..Len(plan) /\ j + 1 # 1
          /\ (j + 1) - 1 = j
      BY <1>1
    <3>2. \A i \in 1..Len(plan) : plan[i] \in Renames => i = 1
      BY DEF PlanOK
    <3>3. op \in Renames \cup FileWrites
      BY <1>1, <3>1
    <3>4. op \in FileWrites
      BY <3>1, <3>2, <3>3
    <3> HIDE DEF op
    <3>5. s[j] \in Tree
      BY <1>2, <3>1
    <3>6. s[j + 1] = Perform(plan[j + 1], s[(j + 1) - 1])
      BY <1>2, <3>1
    <3> QED BY <3>1, <3>4, <3>5, <3>6 DEF op
  <2>2. op.path[1] # plan[1].from
    BY <1>1, <2>1 DEF PlanOK
  <2> HIDE DEF op
  <2>3. ~Covers(op, a)
    BY <2>1, <2>2, OpFacts DEF Covers
  <2>4. Perform(op, s[j])[a] = s[j][a]
    <3> HIDE DEF a
    <3> QED BY <1>1, <2>1, <2>3, PerformAt
  <2>5. s[j + 1][b] = Absent => t[a] = Absent
    <3>1. CASE op.path = b
      <4>1. Perform(op, s[j])[op.path] = op.content
        BY <2>1, OpFacts, PerformAt
      <4> QED BY <2>1, <3>1, <4>1, OpFacts, ContentFacts
    <3>2. CASE op.path # b
      <4>1. ~Covers(op, b)
        BY <2>1, <3>2, OpFacts DEF Covers
      <4>2. Perform(op, s[j])[b] = s[j][b]
        <5> HIDE DEF b
        <5> QED BY <1>1, <2>1, <4>1, PerformAt
      <4> QED BY <1>4, <2>1, <4>2
    <3> QED BY <3>1, <3>2
  <2> QED BY <1>4, <2>1, <2>4, <2>5
<1>5. 1..Len(plan) \subseteq S
  <2>1. 1 \in Nat /\ Len(plan) \in Nat
    BY <1>1
  <2> HIDE DEF S
  <2> QED BY <1>3, <1>4, <2>1, IntervalInduction
<1> QED BY <1>5 DEF s

(* One operation of a plan reads only files the plan touches.              *)
LEMMA PerformLocal ==
  ASSUME NEW plan \in Seq(Renames \cup FileWrites), NEW i \in 1..Len(plan),
         NEW t \in Tree, NEW u \in Tree, \A f \in Touched(plan) : t[f] = u[f]
  PROVE  \A f \in Touched(plan) : Perform(plan[i], t)[f] = Perform(plan[i], u)[f]
<1> DEFINE op == plan[i]
<1>1. op \in Renames \cup FileWrites /\ Touched(plan) \subseteq Files
  BY TouchedFacts
<1> SUFFICES ASSUME NEW f \in Touched(plan) PROVE Perform(op, t)[f] = Perform(op, u)[f]
  OBVIOUS
<1>2. f \in Files /\ f[2] \in Names
  BY <1>1 DEF Files
<1>3. CASE op \in FileWrites
  <2> HIDE DEF op
  <2> QED BY <1>1, <1>2, <1>3, OpFacts DEF Perform, Written, Tree
<1>4. CASE op \in Renames
  <2>1. <<op.from, f[2]>> \in Touched(plan)
    BY <1>2, <1>4, TouchedFacts
  <2>2. t[<<op.from, f[2]>>] = u[<<op.from, f[2]>>] /\ t[f] = u[f]
    BY <2>1
  <2> HIDE DEF op
  <2> QED BY <1>2, <1>4, <2>2, OpFacts DEF Perform, Renamed
<1> QED BY <1>1, <1>3, <1>4

-----------------------------------------------------------------------------

Undos ==
  [type : {"move"}, from : Dirs, to : Dirs]
  \cup [type : {"write"}, path : Files, prior : Content \cup {Absent}]

Outcomes == {"none", "refused", "failed", "committed", "unsynced"}

Pcs == {"idle", "waiting", "locked", "planned", "staged", "applying", "gathered", "built",
        "landed", "undoing", "finished"}

Commits == [tree : Tree, sha : Nat]

Invocations ==
  [pc : Pcs, plan : Plans \cup {<<>>}, base : Tree, journal : Seq(Undos),
   removes : SUBSET Files, writes : Tree, parent : Commits,
   outcome : Outcomes]

TypeInv ==
  /\ disk \in Tree /\ index \in Tree
  /\ head \in [tree : Tree, sha : 1..MaxCommits]
  /\ merging \in 0..head.sha
  /\ staged \subseteq Files
  /\ lock \in Procs \cup {None}
  /\ proc \in [Procs -> Invocations]

\* One invocation at a time is past the lock.
LockInv == \A p \in Procs : PastLock(p) <=> lock = p

\* An invocation has a plan from the moment it made one, and room to commit it.
PlanInv ==
  \A p \in Procs :
    /\ proc[p].pc \in {"idle", "waiting", "locked"} => proc[p].plan = <<>> /\ proc[p].journal = <<>>
    /\ proc[p].pc = "finished" => (proc[p].plan = <<>> <=> proc[p].outcome = "none")
    /\ proc[p].pc \notin {"idle", "waiting", "locked", "finished"} => proc[p].plan # <<>>

RoomInv == \A p \in Planned \ Landed : head.sha < MaxCommits

\* The files of p's plan are on disk as Apply found them.
AsFound(p) == \A f \in Touched(proc[p].plan) : disk[f] = proc[p].base[f]

\* Nothing of p's plan is staged, and no merge is in progress.
Unstaged(p) ==
  /\ merging = 0
  /\ \A f \in Touched(proc[p].plan) : index[f] = head.tree[f]

\* What Apply found differs from HEAD only where a write replaces it: a file
\* git has no version of, or a body the write adopts.
Clear(p) ==
  LET me == proc[p] IN
  \A f \in Touched(me.plan) :
    \/ me.base[f] = head.tree[f]
    \/ \E i \in 1..Len(me.plan) :
         /\ WrittenFirst(me.plan, i, f)
         /\ \/ head.tree[f] = Absent
            \/ /\ me.plan[i].adopts
               /\ me.base[f].fm = head.tree[f].fm
               /\ KeepsFields(f, head.tree[f].fm, me.plan[i].content.fm)

\* The undo of an operation that was done in tree t.
UndoOf(op, t) ==
  IF op \in Renames THEN MoveUndo(op.from, op.to) ELSE WriteUndo(op.path, t[op.path])

\* A rename, once done, had something to move and met nothing where it went.
Moved(op, t) == op \in Renames => FilesIn(t, op.from) # {} /\ FilesIn(t, op.to) = {}

\* The operations in the journal are done, the others are not.
Progress(p) ==
  LET me == proc[p]
      trees == Stages(me.plan, me.base)
      k == Len(me.journal)
  IN
  /\ k <= Len(me.plan)
  /\ \A f \in Touched(me.plan) : disk[f] = trees[k][f]
  /\ \A j \in 1..k : me.journal[j] = UndoOf(me.plan[j], trees[j - 1])
  /\ k >= 1 => Moved(me.plan[1], me.base)

\* Everything is done, and read back for the commit.
Gathered(p) ==
  LET me == proc[p] IN
  /\ Len(me.journal) = Len(me.plan)
  /\ me.removes = Vacated(disk, me.plan)
  /\ \A f \in Files : me.writes[f] = IF f \in CommitPaths(disk, me.plan) THEN disk[f] ELSE Absent
  /\ \A f \in CommitPaths(disk, me.plan) : disk[f] # Absent

\* The commit was built on a commit HEAD has been at.
Based(p) ==
  /\ proc[p].parent.sha <= head.sha
  /\ proc[p].parent.sha = head.sha => proc[p].parent = head

\* The commit has what is on disk, and reconciling the index will give it that.
Recorded(p) ==
  LET me == proc[p] IN
  \A f \in Touched(me.plan) :
    head.tree[f] = disk[f] /\ Overlay(index, me.removes, me.writes)[f] = disk[f]

WorkInv(p) ==
  /\ proc[p].pc \in {"planned", "staged"} => AsFound(p) /\ proc[p].journal = <<>>
  /\ proc[p].pc \in {"staged", "applying", "gathered", "built"} => Unstaged(p)
  /\ proc[p].pc \in {"applying", "gathered", "built"} => Clear(p)
  /\ proc[p].pc \in {"applying", "gathered", "built", "undoing"} => Progress(p)
  /\ proc[p].pc \in {"gathered", "built"} => Gathered(p)
  /\ proc[p].pc = "built" => Based(p)
  /\ proc[p].pc = "landed" => Recorded(p)
  /\ (proc[p].pc = "finished" /\ proc[p].outcome = "failed") => AsFound(p)
  /\ (proc[p].pc = "finished" /\ proc[p].outcome = "committed") =>
       \A f \in Touched(proc[p].plan) : disk[f] = head.tree[f] /\ index[f] = head.tree[f]

Basics == TypeInv /\ LockInv /\ PlanInv /\ RoomInv

ApplyInv ==
  /\ Basics
  /\ \A p \in Procs : WorkInv(p)
  /\ MergeIntact
-----------------------------------------------------------------------------
(* How the steps change an invocation.                                     *)

USE ApplyAssumption

LEMMA IdleType == Idle \in Invocations
<1>1. EmptyTree \in Tree
  BY DEF EmptyTree, Tree
<1> QED BY <1>1 DEF Idle, Invocations, Commits, Pcs, Outcomes

LEMMA GotoFacts ==
  ASSUME proc \in [Procs -> Invocations], NEW p \in Procs, NEW pc \in Pcs, Goto(p, pc)
  PROVE  /\ proc' \in [Procs -> Invocations]
         /\ \A q \in Procs \ {p} : proc'[q] = proc[q]
         /\ proc'[p].pc = pc
         /\ proc'[p].plan = proc[p].plan /\ proc'[p].base = proc[p].base
         /\ proc'[p].journal = proc[p].journal /\ proc'[p].removes = proc[p].removes
         /\ proc'[p].writes = proc[p].writes /\ proc'[p].parent = proc[p].parent
BY DEF Goto, Invocations

LEMMA FinishFacts ==
  ASSUME proc \in [Procs -> Invocations], NEW p \in Procs, NEW o \in Outcomes, Finish(p, o)
  PROVE  /\ proc' \in [Procs -> Invocations]
         /\ \A q \in Procs \ {p} : proc'[q] = proc[q]
         /\ proc'[p].pc = "finished" /\ proc'[p].outcome = o
         /\ proc'[p].plan = proc[p].plan /\ proc'[p].base = proc[p].base
         /\ proc'[p].journal = proc[p].journal /\ proc'[p].removes = proc[p].removes
         /\ proc'[p].writes = proc[p].writes /\ proc'[p].parent = proc[p].parent
BY DEF Finish, Invocations, Pcs

LEMMA ResetFacts ==
  ASSUME proc \in [Procs -> Invocations], NEW p \in Procs, proc' = [proc EXCEPT ![p] = Idle]
  PROVE  /\ proc' \in [Procs -> Invocations]
         /\ \A q \in Procs \ {p} : proc'[q] = proc[q]
         /\ proc'[p].pc = "idle" /\ proc'[p].plan = <<>> /\ proc'[p].journal = <<>>
<1> DEFINE I == Idle
<1>1. I \in Invocations /\ I.pc = "idle" /\ I.plan = <<>> /\ I.journal = <<>>
  BY IdleType DEF Idle
<1> HIDE DEF I
<1> QED BY <1>1 DEF I

LEMMA UpdateFacts ==
  ASSUME proc \in [Procs -> Invocations], NEW p \in Procs, NEW v \in Invocations,
         proc' = [proc EXCEPT ![p] = v]
  PROVE  /\ proc' \in [Procs -> Invocations]
         /\ \A q \in Procs \ {p} : proc'[q] = proc[q]
         /\ proc'[p] = v
OBVIOUS

WithPlan(i, plan, base) == [i EXCEPT !.pc = "planned", !.plan = plan, !.base = base]

LEMMA PlanRecord ==
  ASSUME NEW i \in Invocations, NEW plan \in Plans, NEW base \in Tree
  PROVE  LET v == WithPlan(i, plan, base) IN
         /\ v \in Invocations
         /\ v.pc = "planned" /\ v.plan = plan /\ v.base = base
         /\ v.journal = i.journal /\ v.removes = i.removes /\ v.writes = i.writes
         /\ v.parent = i.parent
BY DEF Invocations, Pcs, WithPlan

GetsPlan(p, plan, base) ==
  proc' = [proc EXCEPT ![p].pc = "planned", ![p].plan = plan, ![p].base = base]

LEMMA PlanFacts ==
  ASSUME proc \in [Procs -> Invocations], NEW p \in Procs, NEW plan \in Plans, NEW base \in Tree,
         GetsPlan(p, plan, base)
  PROVE  /\ proc' \in [Procs -> Invocations]
         /\ \A q \in Procs \ {p} : proc'[q] = proc[q]
         /\ proc'[p].pc = "planned" /\ proc'[p].plan = plan /\ proc'[p].base = base
         /\ proc'[p].journal = proc[p].journal /\ proc'[p].removes = proc[p].removes /\ proc'[p].writes = proc[p].writes
         /\ proc'[p].parent = proc[p].parent
<1> DEFINE v == WithPlan(proc[p], plan, base)
<1>1. proc' = [proc EXCEPT ![p] = v]
  BY DEF WithPlan, GetsPlan
<1>2. /\ v \in Invocations
      /\ v.pc = "planned" /\ v.plan = plan /\ v.base = base
      /\ v.journal = proc[p].journal /\ v.removes = proc[p].removes /\ v.writes = proc[p].writes
      /\ v.parent = proc[p].parent
  BY PlanRecord
<1> HIDE DEF v
<1> QED BY <1>1, <1>2, UpdateFacts

WithFiles(i, r, w) == [i EXCEPT !.pc = "gathered", !.removes = r, !.writes = w]

LEMMA GatherRecord ==
  ASSUME NEW i \in Invocations, NEW r \in SUBSET Files, NEW w \in Tree
  PROVE  LET v == WithFiles(i, r, w) IN
         /\ v \in Invocations
         /\ v.pc = "gathered" /\ v.plan = i.plan /\ v.base = i.base
         /\ v.journal = i.journal /\ v.removes = r /\ v.writes = w
         /\ v.parent = i.parent
BY DEF Invocations, Pcs, WithFiles

GetsFiles(p, r, w) ==
  proc' = [proc EXCEPT ![p].pc = "gathered", ![p].removes = r, ![p].writes = w]

LEMMA GatherFacts ==
  ASSUME proc \in [Procs -> Invocations], NEW p \in Procs, NEW r \in SUBSET Files, NEW w \in Tree,
         GetsFiles(p, r, w)
  PROVE  /\ proc' \in [Procs -> Invocations]
         /\ \A q \in Procs \ {p} : proc'[q] = proc[q]
         /\ proc'[p].pc = "gathered" /\ proc'[p].plan = proc[p].plan /\ proc'[p].base = proc[p].base
         /\ proc'[p].journal = proc[p].journal /\ proc'[p].removes = r /\ proc'[p].writes = w
         /\ proc'[p].parent = proc[p].parent
<1> DEFINE v == WithFiles(proc[p], r, w)
<1>1. proc' = [proc EXCEPT ![p] = v]
  BY DEF WithFiles, GetsFiles
<1>2. /\ v \in Invocations
      /\ v.pc = "gathered" /\ v.plan = proc[p].plan /\ v.base = proc[p].base
      /\ v.journal = proc[p].journal /\ v.removes = r /\ v.writes = w
      /\ v.parent = proc[p].parent
  BY GatherRecord
<1> HIDE DEF v
<1> QED BY <1>1, <1>2, UpdateFacts

WithParent(i, h) == [i EXCEPT !.pc = "built", !.parent = h]

LEMMA ParentRecord ==
  ASSUME NEW i \in Invocations, NEW h \in Commits
  PROVE  LET v == WithParent(i, h) IN
         /\ v \in Invocations
         /\ v.pc = "built" /\ v.plan = i.plan /\ v.base = i.base
         /\ v.journal = i.journal /\ v.removes = i.removes /\ v.writes = i.writes
         /\ v.parent = h
BY DEF Invocations, Pcs, WithParent

LEMMA ParentFacts ==
  ASSUME proc \in [Procs -> Invocations], NEW p \in Procs, NEW h \in Commits,
         proc' = [proc EXCEPT ![p].pc = "built", ![p].parent = h]
  PROVE  /\ proc' \in [Procs -> Invocations]
         /\ \A q \in Procs \ {p} : proc'[q] = proc[q]
         /\ proc'[p].pc = "built" /\ proc'[p].plan = proc[p].plan /\ proc'[p].base = proc[p].base
         /\ proc'[p].journal = proc[p].journal /\ proc'[p].removes = proc[p].removes /\ proc'[p].writes = proc[p].writes
         /\ proc'[p].parent = h
<1> DEFINE v == WithParent(proc[p], h)
<1>1. proc' = [proc EXCEPT ![p] = v]
  BY DEF WithParent
<1>2. /\ v \in Invocations
      /\ v.pc = "built" /\ v.plan = proc[p].plan /\ v.base = proc[p].base
      /\ v.journal = proc[p].journal /\ v.removes = proc[p].removes /\ v.writes = proc[p].writes
      /\ v.parent = h
  BY ParentRecord
<1> HIDE DEF v
<1> QED BY <1>1, <1>2, UpdateFacts

LEMMA JournalFacts ==
  ASSUME proc \in [Procs -> Invocations], NEW p \in Procs, NEW j \in Seq(Undos),
         proc' = [proc EXCEPT ![p].journal = j]
  PROVE  /\ proc' \in [Procs -> Invocations]
         /\ \A q \in Procs \ {p} : proc'[q] = proc[q]
         /\ proc'[p].journal = j /\ proc'[p].pc = proc[p].pc
         /\ proc'[p].plan = proc[p].plan /\ proc'[p].base = proc[p].base
BY DEF Invocations

(* What a journal entry is.                                                *)
LEMMA UndoType ==
  ASSUME NEW op \in Renames \cup FileWrites, NEW t \in Tree
  PROVE  UndoOf(op, t) \in Undos
<1>1. CASE op \in Renames
  BY <1>1, OpFacts DEF UndoOf, MoveUndo, Undos
<1>2. CASE op \in FileWrites
  BY <1>2, OpFacts DEF UndoOf, WriteUndo, Undos, Tree
<1> QED BY <1>1, <1>2

(* The entries and the fields of a plan that are used below.               *)
LEMMA NextOp ==
  ASSUME TypeInv, NEW p \in Procs, Pending(p)
  PROVE  LET me == proc[p] IN
         /\ me.plan \in Plans /\ PlanOK(me.plan)
         /\ me.plan \in Seq(Renames \cup FileWrites)
         /\ Len(me.journal) \in Nat /\ Len(me.journal) + 1 \in 1..Len(me.plan)
         /\ Next(p) \in Renames \cup FileWrites
         /\ me.journal \in Seq(Undos)
<1> DEFINE me == proc[p]
<1>1. me \in Invocations
  BY DEF TypeInv
<1>2. me.plan \in Plans \cup {<<>>} /\ me.journal \in Seq(Undos)
  BY <1>1 DEF Invocations
<1>3. Len(me.journal) < Len(me.plan) /\ Len(me.journal) \in Nat
  BY <1>2 DEF Pending
<1>4. me.plan # <<>>
  BY <1>3
<1>5. me.plan \in Plans /\ PlanOK(me.plan)
  BY <1>2, <1>4, PlanShape
<1>6. me.plan \in Seq(Renames \cup FileWrites)
  BY <1>5 DEF PlanOK
<1> QED BY <1>1, <1>2, <1>3, <1>5, <1>6 DEF Next
-----------------------------------------------------------------------------
(* Types, the lock, and who has a plan.                                    *)

(* Only the holder of the lock has a plan.                                 *)
LEMMA Holder ==
  ASSUME LockInv, PlanInv, NEW p \in Planned
  PROVE  p \in Procs /\ lock = p
BY DEF LockInv, PlanInv, Planned, PastLock

(* Room is room for one more commit, and for the one under way.            *)
LEMMA RoomLeft ==
  ASSUME Basics, Room
  PROVE  /\ head.sha < MaxCommits
         /\ \A p \in Planned \ Landed : head.sha + 1 < MaxCommits
<1> DEFINE S == Planned \ Landed
<1>1. head.sha \in Nat /\ MaxCommits \in Nat
  BY DEF Basics, TypeInv
<1>2. CASE S = {}
  <2>1. Cardinality(S) = 0
    BY <1>2, FS_EmptySet
  <2> QED BY <1>1, <1>2, <2>1 DEF Room
<1>3. CASE S # {}
  <2>1. S = {lock}
    BY <1>3, Holder DEF Basics
  <2>2. Cardinality(S) = 1
    BY <2>1, FS_Singleton
  <2> QED BY <1>1, <2>2 DEF Room
<1> QED BY <1>2, <1>3

LEMMA BasicsInit == Init => Basics
<1> SUFFICES ASSUME Init PROVE Basics
  OBVIOUS
<1>1. /\ \A p \in Procs : proc[p] = Idle
      /\ proc \in [Procs -> Invocations]
  BY IdleType DEF Init
<1>2. TypeInv
  BY <1>1 DEF Init, TypeInv
<1> QED BY <1>1, <1>2 DEF Init, Basics, LockInv, PlanInv, RoomInv, PastLock, Planned, Idle

(* An invocation past planning has a plan; a finished one unless it had    *)
(* nothing to do.                                                          *)
LEMMA BasicsStep == Basics /\ [NextStep]_vars => Basics'
<1> SUFFICES ASSUME Basics, [NextStep]_vars PROVE Basics'
  OBVIOUS
<1> USE DEF Basics
<1>1. TypeInv /\ LockInv /\ PlanInv /\ RoomInv
  OBVIOUS
<1> DEFINE Same == UNCHANGED <<repo, lock>>
<1>2. CASE UNCHANGED vars
  BY <1>2 DEF vars, TypeInv, LockInv, PlanInv, RoomInv, PastLock, Planned, Landed
<1>3. ASSUME NEW f \in Files, Edit(f) \/ Stage(f) \/ Restore(f)
      PROVE  Basics'
  <2>1. UNCHANGED <<head, merging, lock, proc>>
    BY <1>3 DEF Edit, Stage, Restore
  <2>2. disk' \in Tree /\ index' \in Tree /\ staged' \subseteq Files
    BY <1>3 DEF Edit, Stage, Restore, TypeInv, Tree
  <2> QED BY <2>1, <2>2 DEF TypeInv, LockInv, PlanInv, RoomInv, PastLock, Planned, Landed
<1>4. CASE GitCommit
  <2>1. /\ UNCHANGED <<disk, index, lock, proc>>
        /\ head' = [tree |-> index, sha |-> head.sha + 1]
        /\ merging' = 0 /\ staged' = {}
    BY <1>4 DEF GitCommit
  <2>2. /\ head.sha < MaxCommits
        /\ \A p \in Planned \ Landed : head.sha + 1 < MaxCommits
    BY <1>4, RoomLeft DEF GitCommit
  <2> QED BY <2>1, <2>2 DEF TypeInv, LockInv, PlanInv, RoomInv, PastLock, Planned, Landed
<1>5. CASE StartMerge
  BY <1>5 DEF StartMerge, TypeInv, LockInv, PlanInv, RoomInv, PastLock, Planned, Landed
<1>6. ASSUME NEW p \in Procs, Invoke(p)
      PROVE  Basics'
  <2>1. Goto(p, "waiting") /\ UNCHANGED <<repo, lock>> /\ proc[p].pc = "idle"
    BY <1>6 DEF Invoke, At
  <2> QED BY <2>1, GotoFacts DEF Pcs, repo, TypeInv, LockInv, PlanInv, RoomInv, PastLock, Planned, Landed
<1>7. ASSUME NEW p \in Procs, Acquire(p)
      PROVE  Basics'
  <2>1. Goto(p, "locked") /\ UNCHANGED repo /\ lock = None /\ lock' = p /\ proc[p].pc = "waiting"
    BY <1>7 DEF Acquire, At
  <2> QED BY <2>1, GotoFacts DEF Pcs, repo, TypeInv, LockInv, PlanInv, RoomInv, PastLock, Planned, Landed
<1>8. ASSUME NEW p \in Procs, Busy(p)
      PROVE  Basics'
  <2>1. Goto(p, "idle") /\ UNCHANGED <<repo, lock>> /\ proc[p].pc = "waiting"
    BY <1>8 DEF Busy, At
  <2> QED BY <2>1, GotoFacts DEF Pcs, repo, TypeInv, LockInv, PlanInv, RoomInv, PastLock, Planned, Landed
<1>9. ASSUME NEW p \in Procs, Release(p) \/ Crash(p)
      PROVE  Basics'
  <2>1. /\ proc' = [proc EXCEPT ![p] = Idle] /\ UNCHANGED repo
        /\ lock' = IF lock = p THEN None ELSE lock
    BY <1>9 DEF Release, Crash
  <2> QED BY <2>1, ResetFacts DEF repo, TypeInv, LockInv, PlanInv, RoomInv, PastLock, Planned, Landed
<1>10. ASSUME NEW p \in Procs, MakePlan(p)
       PROVE  Basics'
  <2>1. UNCHANGED <<repo, lock>> /\ proc[p].pc = "locked"
    BY <1>10 DEF MakePlan, At
  <2>2. CASE Finish(p, "none")
    BY <2>1, <2>2, FinishFacts DEF Outcomes, repo, TypeInv, LockInv, PlanInv, RoomInv, PastLock, Planned, Landed
  <2>3. CASE Room /\ ~Finish(p, "none")
    <3>1. PICK plan \in Plans : GetsPlan(p, plan, disk)
      BY <1>10, <2>3 DEF MakePlan, GetsPlan
    <3>2. plan # <<>>
      BY PlanShape DEF PlanOK
    <3>3. /\ proc' \in [Procs -> Invocations]
          /\ \A q \in Procs \ {p} : proc'[q] = proc[q]
          /\ proc'[p].pc = "planned" /\ proc'[p].plan = plan
      BY <3>1, PlanFacts DEF TypeInv
    <3>4. head.sha < MaxCommits
      BY <2>3, RoomLeft
    <3> QED BY <2>1, <3>2, <3>3, <3>4
        DEF repo, TypeInv, LockInv, PlanInv, RoomInv, PastLock, Planned, Landed
  <2> QED BY <1>10, <2>2, <2>3 DEF MakePlan
<1>11. ASSUME NEW p \in Procs, CheckIndex(p) \/ CheckWorktree(p)
       PROVE  Basics'
  <2>1. /\ UNCHANGED <<repo, lock>> /\ proc[p].pc \in {"planned", "staged"}
        /\ Goto(p, "staged") \/ Goto(p, "applying") \/ Finish(p, "refused")
    BY <1>11 DEF CheckIndex, CheckWorktree, At
  <2>2. CASE Finish(p, "refused")
    BY <2>1, <2>2, FinishFacts DEF Outcomes, repo, TypeInv, LockInv, PlanInv, RoomInv, PastLock, Planned, Landed
  <2>3. CASE Goto(p, "staged") \/ Goto(p, "applying")
    BY <2>1, <2>3, GotoFacts DEF Pcs, repo, TypeInv, LockInv, PlanInv, RoomInv, PastLock, Planned, Landed
  <2> QED BY <2>1, <2>2, <2>3
<1>12. ASSUME NEW p \in Procs, Rename(p) \/ WriteFile(p)
       PROVE  Basics'
  <2> DEFINE op == Next(p)
             k == Len(proc[p].journal)
  <2>1. Pending(p)
    BY <1>12 DEF Rename, WriteFile
  <2>2. /\ op \in Renames \cup FileWrites /\ proc[p].journal \in Seq(Undos)
    BY <2>1, NextOp
  <2>3. UNCHANGED <<index, head, merging, staged, lock>> /\ proc[p].pc = "applying"
    BY <1>12 DEF Rename, WriteFile, Pending, At
  <2>4. CASE Rollback(p) /\ UNCHANGED disk
    BY <2>3, <2>4, GotoFacts DEF Rollback, Pcs, TypeInv, LockInv, PlanInv, RoomInv, PastLock, Planned, Landed
  <2>5. CASE ~(Rollback(p) /\ UNCHANGED disk)
    <3>1. disk' = Perform(op, disk)
      BY <1>12, <2>2, <2>5, OpFacts DEF Rename, WriteFile, Perform
    <3>2. disk' \in Tree
      <4> HIDE DEF op
      <4> QED BY <2>2, <3>1, PerformType DEF TypeInv
    <3>3. proc' = [proc EXCEPT ![p].journal = Append(@, UndoOf(op, disk))]
      BY <1>12, <2>2, <2>5, OpFacts DEF Rename, WriteFile, UndoOf
    <3>4. UndoOf(op, disk) \in Undos
      <4> HIDE DEF op
      <4> QED BY <2>2, UndoType DEF TypeInv
    <3>5. Append(proc[p].journal, UndoOf(op, disk)) \in Seq(Undos)
      BY <2>2, <3>4
    <3>6. /\ proc' \in [Procs -> Invocations]
          /\ \A q \in Procs \ {p} : proc'[q] = proc[q]
          /\ proc'[p].pc = "applying" /\ proc'[p].plan = proc[p].plan
      <4> DEFINE j == Append(proc[p].journal, UndoOf(op, disk))
      <4>1. proc' = [proc EXCEPT ![p].journal = j] /\ j \in Seq(Undos)
        BY <3>3, <3>5
      <4> HIDE DEF j
      <4> QED BY <2>3, <4>1 DEF TypeInv, Invocations
    <3> QED BY <2>3, <3>2, <3>6 DEF TypeInv, LockInv, PlanInv, RoomInv, PastLock, Planned, Landed
  <2> QED BY <2>4, <2>5
<1>13. ASSUME NEW p \in Procs, gatherCommitOps(p)
       PROVE  Basics'
  <2> DEFINE w == [f \in Files |-> IF f \in CommitPaths(disk, proc[p].plan)
                                   THEN FinalBytes(proc[p].plan, f) ELSE Absent]
             r == Vacated(disk, proc[p].plan)
  <2>1. UNCHANGED <<repo, lock>> /\ proc[p].pc = "applying"
    BY <1>13 DEF gatherCommitOps, At
  <2>2. CASE Rollback(p)
    BY <2>1, <2>2, GotoFacts DEF Rollback, Pcs, repo, TypeInv, LockInv, PlanInv, RoomInv, PastLock, Planned, Landed
  <2>3. CASE ~Rollback(p)
    <3>1. GetsFiles(p, r, w)
      BY <1>13, <2>3 DEF gatherCommitOps, GetsFiles
    <3>2. w \in Tree /\ r \in SUBSET Files
      BY DEF TypeInv, Tree, FinalBytes, Vacated
    <3>3. /\ proc' \in [Procs -> Invocations]
          /\ \A q \in Procs \ {p} : proc'[q] = proc[q]
          /\ proc'[p].pc = "gathered" /\ proc'[p].plan = proc[p].plan
      <4> HIDE DEF w, r
      <4> QED BY <3>1, <3>2, GatherFacts DEF TypeInv
    <3> QED BY <2>1, <3>3 DEF repo, TypeInv, LockInv, PlanInv, RoomInv, PastLock, Planned, Landed
  <2> QED BY <2>2, <2>3
<1>14. ASSUME NEW p \in Procs, ReadParent(p)
       PROVE  Basics'
  <2>1. /\ UNCHANGED <<repo, lock>> /\ proc[p].pc = "gathered"
        /\ proc' = [proc EXCEPT ![p].pc = "built", ![p].parent = head]
    BY <1>14 DEF ReadParent, At
  <2>2. /\ proc' \in [Procs -> Invocations]
        /\ \A q \in Procs \ {p} : proc'[q] = proc[q]
        /\ proc'[p].pc = "built" /\ proc'[p].plan = proc[p].plan
    <3>1. head \in Commits
      BY DEF TypeInv, Commits
    <3> QED BY <2>1, <3>1, ParentFacts DEF TypeInv
  <2> QED BY <2>1, <2>2 DEF repo, TypeInv, LockInv, PlanInv, RoomInv, PastLock, Planned, Landed
<1>15. ASSUME NEW p \in Procs, UpdateRef(p)
       PROVE  Basics'
  <2> DEFINE new == Overlay(proc[p].parent.tree, proc[p].removes, proc[p].writes)
  <2>1. UNCHANGED <<disk, index, merging, staged, lock>> /\ proc[p].pc = "built"
    BY <1>15 DEF UpdateRef, At
  <2>2. CASE Rollback(p) /\ UNCHANGED head
    BY <2>1, <2>2, GotoFacts DEF Rollback, Pcs, TypeInv, LockInv, PlanInv, RoomInv, PastLock, Planned, Landed
  <2>3. CASE Goto(p, "landed") /\ head' = [tree |-> new, sha |-> head.sha + 1]
    <3>1. new \in Tree
      BY DEF TypeInv, Invocations, Commits, Overlay, Tree
    <3>2. p \in Planned \ Landed
      BY <2>1 DEF PlanInv, Planned, Landed
    <3>3. head.sha < MaxCommits /\ \A q \in Planned : q = p
      BY <3>2, Holder DEF RoomInv
    <3>4. head' \in [tree : Tree, sha : 1..MaxCommits]
      <4> HIDE DEF new
      <4> QED BY <2>3, <3>1, <3>3 DEF TypeInv
    <3>5. head'.sha = head.sha + 1
      BY <2>3
    <3> HIDE DEF new
    <3> QED BY <2>1, <2>3, <3>3, <3>4, <3>5, GotoFacts
        DEF Pcs, TypeInv, LockInv, PlanInv, RoomInv, PastLock, Planned, Landed
  <2> QED BY <1>15, <2>2, <2>3 DEF UpdateRef
<1>16. ASSUME NEW p \in Procs, Reconcile(p) \/ ReconcileFault(p)
       PROVE  Basics'
  <2> DEFINE new == Reconciled(proc[p].removes, proc[p].writes)
  <2>1. /\ UNCHANGED <<disk, head, merging, staged, lock>> /\ proc[p].pc = "landed"
        /\ Finish(p, "committed") \/ Finish(p, "unsynced")
    BY <1>16 DEF Reconcile, ReconcileFault, At
  <2>2. new \in Tree
    BY DEF TypeInv, Invocations, Reconciled, Overlay, Tree
  <2>3. index' = new \/ \E done \in SUBSET Files : index' = [f \in Files |-> IF f \in done THEN new[f] ELSE index[f]]
    BY <1>16 DEF Reconcile, ReconcileFault, TypeInv, Invocations
  <2>4. index' \in Tree
    <3> HIDE DEF new
    <3> QED BY <2>2, <2>3 DEF TypeInv, Tree
  <2> HIDE DEF new
  <2> QED BY <2>1, <2>4, FinishFacts DEF Outcomes, TypeInv, LockInv, PlanInv, RoomInv, PastLock, Planned, Landed
<1>17. ASSUME NEW p \in Procs, Fault(p) \/ RolledBack(p)
       PROVE  Basics'
  <2>1. UNCHANGED <<repo, lock>>
    BY <1>17 DEF Fault, RolledBack
  <2>2. CASE Goto(p, "undoing") /\ proc[p].pc \in {"applying", "gathered", "built"}
    BY <2>1, <2>2, GotoFacts DEF Pcs, repo, TypeInv, LockInv, PlanInv, RoomInv, PastLock, Planned, Landed
  <2>3. CASE Finish(p, "failed") /\ proc[p].pc = "undoing"
    BY <2>1, <2>3, FinishFacts DEF Outcomes, repo, TypeInv, LockInv, PlanInv, RoomInv, PastLock, Planned, Landed
  <2> QED BY <1>17, <2>2, <2>3 DEF Fault, RolledBack, Rollback, At
<1>18. ASSUME NEW p \in Procs, Undo(p)
       PROVE  Basics'
  <2> DEFINE journal == proc[p].journal
             undo == journal[Len(journal)]
             left == SubSeq(journal, 1, Len(journal) - 1)
  <2>1. /\ UNCHANGED <<index, head, merging, staged, lock>> /\ proc[p].pc = "undoing"
        /\ proc' = [proc EXCEPT ![p].journal = left]
        /\ journal # <<>>
        /\ \/ undo.type = "write" /\ disk' = Written(disk, undo.path, undo.prior)
           \/ undo.type # "write" /\ disk' \in {Renamed(disk, undo.to, undo.from), disk}
    BY <1>18 DEF Undo, Newest, At
  <2>2. journal \in Seq(Undos) /\ left \in Seq(Undos) /\ undo \in Undos
    BY <2>1 DEF TypeInv, Invocations
  <2>3. disk' \in Tree
    <3> HIDE DEF undo
    <3>1. CASE undo.type = "write"
      <4>1. undo.path \in Files /\ undo.prior \in Content \cup {Absent}
        BY <2>2, <3>1 DEF Undos
      <4> QED BY <2>1, <3>1, <4>1 DEF Written, TypeInv, Tree
    <3>2. CASE undo.type # "write"
      <4>1. undo.from \in Dirs /\ undo.to \in Dirs
        BY <2>2, <3>2 DEF Undos
      <4>2. \A f \in Files : <<undo.to, f[2]>> \in Files
        BY <4>1 DEF Files
      <4>3. Renamed(disk, undo.to, undo.from) \in Tree
        BY <4>1, <4>2 DEF Renamed, TypeInv, Tree
      <4> QED BY <2>1, <3>2, <4>3 DEF TypeInv
    <3> QED BY <3>1, <3>2
  <2>4. /\ proc' \in [Procs -> Invocations]
        /\ \A q \in Procs \ {p} : proc'[q] = proc[q]
        /\ proc'[p].pc = "undoing" /\ proc'[p].plan = proc[p].plan
    <3> HIDE DEF left
    <3> QED BY <2>1, <2>2 DEF TypeInv, Invocations
  <2> HIDE DEF undo, left
  <2> QED BY <2>1, <2>3, <2>4 DEF TypeInv, LockInv, PlanInv, RoomInv, PastLock, Planned, Landed
<1> QED BY <1>2, <1>3, <1>4, <1>5, <1>6, <1>7, <1>8, <1>9, <1>10, <1>11, <1>12, <1>13, <1>14,
           <1>15, <1>16, <1>17, <1>18 DEF NextStep, Operator, Verb, Apply
-----------------------------------------------------------------------------
(* What gatherCommitOps collects.                                          *)

LEMMA FilesInLocal ==
  ASSUME NEW t, NEW u, NEW d, \A n \in Names : t[<<d, n>>] = u[<<d, n>>]
  PROVE  FilesIn(t, d) = FilesIn(u, d)
<1>1. \A f \in {d} \X Names : t[f] = u[f]
  OBVIOUS
<1> QED BY <1>1 DEF FilesIn

LEMMA MoveFacts ==
  ASSUME NEW plan, PlanOK(plan)
  PROVE  /\ \A op : op \in MovesOf(plan) <=> plan[1] \in Renames /\ op = plan[1]
         /\ DOMAIN plan = 1..Len(plan) /\ 1 \in 1..Len(plan)
         /\ \A i \in 1..Len(plan) : plan[i] \in Renames \cup FileWrites
         /\ \A i \in 1..Len(plan) : plan[i].type = "write" <=> plan[i] \in FileWrites
<1>1. /\ DOMAIN plan = 1..Len(plan) /\ 1 \in 1..Len(plan)
      /\ \A i \in 1..Len(plan) : plan[i] \in Renames \cup FileWrites
  BY DEF PlanOK
<1>2. \A i \in 1..Len(plan) :
        /\ plan[i].type = "move" <=> plan[i] \in Renames
        /\ plan[i].type = "write" <=> plan[i] \in FileWrites
  BY <1>1, OpFacts
<1>3. MovesOf(plan) = {plan[i] : i \in {i \in 1..Len(plan) : plan[i] \in Renames}}
  BY <1>1, <1>2 DEF MovesOf
<1>4. \A op : op \in MovesOf(plan) <=> plan[1] \in Renames /\ op = plan[1]
  BY <1>1, <1>3 DEF PlanOK
<1> QED BY <1>1, <1>2, <1>4

LEMMA CarriedFacts ==
  ASSUME NEW plan, PlanOK(plan), NEW t \in Tree, NEW f \in Files
  PROVE  f \in Carried(t, plan) <=>
           plan[1] \in Renames /\ f[1] = plan[1].to /\ t[f] # Absent
BY MoveFacts DEF Carried, FilesIn, Files

LEMMA WrittenByFacts ==
  ASSUME NEW plan, PlanOK(plan), NEW f
  PROVE  f \in WrittenBy(plan) <=>
           \E i \in 1..Len(plan) : plan[i] \in FileWrites /\ plan[i].path = f
BY MoveFacts DEF WrittenBy

LEMMA VacatedFacts ==
  ASSUME NEW plan, PlanOK(plan), NEW t \in Tree, NEW f \in Files
  PROVE  f \in Vacated(t, plan) <=>
           plan[1] \in Renames /\ f[1] = plan[1].from /\ t[<<plan[1].to, f[2]>>] # Absent
<1>1. plan[1] \in Renames =>
        <<plan[1].to, f[2]>> \in Files /\ <<plan[1].to, f[2]>>[1] = plan[1].to
  BY OpFacts DEF Files
<1>2. f \in Vacated(t, plan) <=>
        plan[1] \in Renames /\ f[1] = plan[1].from /\ <<plan[1].to, f[2]>> \in Carried(t, plan)
  BY MoveFacts DEF Vacated
<1> QED BY <1>1, <1>2, CarriedFacts

(* It collects files the plan touches, and reads no other.                 *)
LEMMA PathsTouched ==
  ASSUME NEW plan, PlanOK(plan), NEW t \in Tree
  PROVE  CommitPaths(t, plan) \subseteq Touched(plan) /\ Vacated(t, plan) \subseteq Touched(plan)
<1>1. /\ plan \in Seq(Renames \cup FileWrites) /\ 1 \in 1..Len(plan)
  BY DEF PlanOK
<1>2. \A f \in Files : f[2] \in Names /\ f = <<f[1], f[2]>>
  BY DEF Files
<1>3. ASSUME NEW f \in Files, f \in Carried(t, plan) \/ f \in Vacated(t, plan)
      PROVE  f \in Touched(plan)
  <2>1. plan[1] \in Renames /\ (f[1] = plan[1].to \/ f[1] = plan[1].from)
    <3>1. CASE f \in Carried(t, plan)
      BY <3>1, CarriedFacts
    <3>2. CASE f \in Vacated(t, plan)
      BY <3>2, VacatedFacts
    <3> QED BY <1>3, <3>1, <3>2
  <2>2. <<plan[1].from, f[2]>> \in Touched(plan) /\ <<plan[1].to, f[2]>> \in Touched(plan)
    BY <1>1, <1>2, <2>1, TouchedFacts
  <2> QED BY <1>2, <2>1, <2>2
<1>4. ASSUME NEW f \in Files, f \in WrittenBy(plan)
      PROVE  f \in Touched(plan)
  <2>1. PICK i \in 1..Len(plan) : plan[i] \in FileWrites /\ plan[i].path = f
    BY <1>4, WrittenByFacts
  <2> QED BY <1>1, <2>1, TouchedFacts
<1>5. Carried(t, plan) \subseteq Files /\ Vacated(t, plan) \subseteq Files
  <2>1. \A d : FilesIn(t, d) \subseteq {d} \X Names
    BY DEF FilesIn
  <2>2. ASSUME NEW op \in MovesOf(plan) PROVE op.to \in Dirs
    BY <1>1, <2>2, OpFacts DEF MovesOf
  <2> QED BY <2>1, <2>2 DEF Carried, Vacated, Files
<1>6. WrittenBy(plan) \subseteq Files
  <2>1. ASSUME NEW i \in DOMAIN plan, plan[i].type = "write" PROVE plan[i].path \in Files
    BY <1>1, <2>1, OpFacts
  <2> QED BY <2>1 DEF WrittenBy
<1> QED BY <1>3, <1>4, <1>5, <1>6 DEF CommitPaths

LEMMA PathsLocal ==
  ASSUME NEW plan, PlanOK(plan), NEW t \in Tree, NEW u \in Tree,
         \A f \in Touched(plan) : t[f] = u[f]
  PROVE  /\ CommitPaths(t, plan) = CommitPaths(u, plan)
         /\ Vacated(t, plan) = Vacated(u, plan)
<1>1. /\ plan \in Seq(Renames \cup FileWrites) /\ 1 \in 1..Len(plan)
  BY DEF PlanOK
<1>2. \A f \in Files : f[2] \in Names /\ f = <<f[1], f[2]>>
  BY DEF Files
<1>3. /\ CommitPaths(t, plan) \subseteq Files /\ CommitPaths(u, plan) \subseteq Files
      /\ Vacated(t, plan) \subseteq Files /\ Vacated(u, plan) \subseteq Files
  BY <1>1, PathsTouched, TouchedFacts
<1>4. ASSUME NEW f \in Files
      PROVE  /\ f \in CommitPaths(t, plan) <=> f \in CommitPaths(u, plan)
             /\ f \in Vacated(t, plan) <=> f \in Vacated(u, plan)
  <2>1. ASSUME plan[1] \in Renames
        PROVE  /\ f[1] = plan[1].to => t[f] = u[f]
               /\ t[<<plan[1].to, f[2]>>] = u[<<plan[1].to, f[2]>>]
    <3>1. <<plan[1].to, f[2]>> \in Touched(plan)
      BY <1>1, <1>2, <2>1, TouchedFacts
    <3> QED BY <1>2, <3>1
  <2>2. f \in Carried(t, plan) <=> f \in Carried(u, plan)
    BY <2>1, CarriedFacts
  <2>3. f \in Vacated(t, plan) <=> f \in Vacated(u, plan)
    BY <2>1, VacatedFacts
  <2> QED BY <2>2, <2>3 DEF CommitPaths
<1> QED BY <1>3, <1>4

(* The commit's tree -- HEAD's with the files collected laid over it -- is *)
(* the plan's effect on HEAD's tree, and on the plan's files it is what is *)
(* on disk, whatever else is there.                                        *)
LEMMA CommitExact ==
  ASSUME Basics, NEW p \in Procs, proc[p].pc = "built", WorkInv(p), Unmoved(p)
  PROVE  LET me == proc[p]
             new == Overlay(me.parent.tree, me.removes, me.writes)
         IN /\ new = Effect(me.plan, head.tree)
            /\ \A f \in Touched(me.plan) : new[f] = disk[f]
            /\ \A f \in Files : f \notin Touched(me.plan) =>
                 me.writes[f] = Absent /\ f \notin me.removes
<1> DEFINE me == proc[p]
           plan == me.plan
           h == head.tree
           T == Touched(plan)
           n == Len(plan)
           b == Stages(plan, me.base)
           s == Stages(plan, h)
           new == Overlay(me.parent.tree, me.removes, me.writes)
<1>1. /\ me \in Invocations /\ disk \in Tree /\ h \in Tree
      /\ plan \in Plans /\ PlanOK(plan) /\ me.base \in Tree /\ me.writes \in Tree
  <2>1. me \in Invocations /\ disk \in Tree /\ h \in Tree
    BY DEF Basics, TypeInv
  <2>2. plan \in Plans
    BY <2>1 DEF Basics, PlanInv, Invocations
  <2> QED BY <2>1, <2>2, PlanShape DEF Invocations
<1>2. plan \in Seq(Renames \cup FileWrites) /\ n \in Nat /\ 1 \in 1..n
  BY <1>1 DEF PlanOK
<1>3. Clear(p) /\ Progress(p) /\ Gathered(p) /\ me.parent.tree = h
  BY DEF WorkInv, Based, Unmoved
<1>4. \A f \in T : disk[f] = b[n][f]
  BY <1>3 DEF Progress, Gathered
<1>5. \A f \in T : b[n][f] = s[n][f]
  <2>1. \A f \in T : me.base[f] = h[f] \/ \E i \in 1..n : WrittenFirst(plan, i, f)
    BY <1>3 DEF Clear
  <2> HIDE DEF h, plan, n
  <2> QED BY <1>1, <2>1, EffectLocal DEF n
<1>6. ASSUME NEW f \in Files, f \notin T
      PROVE  me.writes[f] = Absent /\ f \notin me.removes /\ s[n][f] = h[f]
  <2>1. f \notin CommitPaths(disk, plan) /\ f \notin Vacated(disk, plan)
    BY <1>1, <1>6, PathsTouched
  <2>2. me.writes[f] = Absent /\ f \notin me.removes
    BY <1>3, <2>1 DEF Gathered
  <2>3. s[n][f] = h[f]
    <3> HIDE DEF plan, h
    <3> QED BY <1>1, <1>2, <1>6, Untouched
  <2> QED BY <2>2, <2>3
<1>7. ASSUME NEW f \in T
      PROVE  new[f] = disk[f]
  <2>1. f \in Files
    BY <1>2, TouchedFacts
  <2>2. new[f] = IF me.writes[f] # Absent THEN me.writes[f]
                 ELSE IF f \in me.removes THEN Absent ELSE h[f]
    BY <1>3, <2>1 DEF Overlay
  <2>3. CASE f \in CommitPaths(disk, plan)
    BY <1>3, <2>1, <2>2, <2>3 DEF Gathered
  <2>4. CASE f \notin CommitPaths(disk, plan)
    <3>1. me.writes[f] = Absent /\ me.removes = Vacated(disk, plan)
      BY <1>3, <2>1, <2>4 DEF Gathered
    <3>2. f \notin Carried(disk, plan) /\ \A i \in 1..n : ~(plan[i] \in FileWrites /\ plan[i].path = f)
      BY <1>1, <2>1, <2>4, WrittenByFacts DEF CommitPaths
    <3>3. PICK i \in 1..n : Covers(plan[i], f)
      BY <1>2 DEF Touched
    <3>4. plan[i] \in Renames /\ f[1] \in {plan[i].from, plan[i].to}
      BY <1>2, <3>2, <3>3, OpFacts DEF Covers
    <3>5. plan[1] \in Renames /\ f[1] \in {plan[1].from, plan[1].to}
      BY <1>1, <3>4 DEF PlanOK
    <3>6. f[2] \in Names /\ f = <<f[1], f[2]>>
      BY <2>1 DEF Files
    <3>7. Moved(plan[1], me.base)
      BY <1>2, <1>3 DEF Progress, Gathered
    <3>8. ASSUME NEW g \in T, Covers(plan[1], g)
          PROVE  me.base[g] = h[g]
      <4>1. ASSUME NEW j \in 1..n PROVE ~WrittenFirst(plan, j, g)
        BY <1>2, <3>5, <3>8, OpFacts DEF WrittenFirst
      <4> QED BY <1>3, <4>1 DEF Clear
    <3>9. CASE f[1] = plan[1].from
      <4>1. b[n][f] = Absent
        <5>1. n \in 1..Len(plan)
          BY <1>2
        <5>2. Stages(plan, me.base)[n][<<plan[1].from, f[2]>>] = Absent
          <6> HIDE DEF plan, n, me
          <6> QED BY <1>1, <3>5, <3>6, <5>1, AfterRename
        <5> QED BY <3>6, <3>9, <5>2
      <4>2. CASE f \in me.removes
        BY <1>4, <2>2, <3>1, <4>1, <4>2
      <4>3. CASE f \notin me.removes
        <5>1. disk[<<plan[1].to, f[2]>>] = Absent
          BY <1>1, <2>1, <3>1, <3>5, <3>9, <4>3, VacatedFacts
        <5>2. <<plan[1].to, f[2]>> \in T
          BY <1>2, <3>5, <3>6, TouchedFacts
        <5>3. b[n][<<plan[1].to, f[2]>>] = Absent
          BY <1>4, <5>1, <5>2
        <5>4. me.base[<<plan[1].from, f[2]>>] = Absent
          <6>1. n \in 1..Len(plan)
            BY <1>2
          <6>2. Stages(plan, me.base)[n][<<plan[1].to, f[2]>>] = Absent
            BY <5>3
          <6> HIDE DEF plan, n, me
          <6> QED BY <1>1, <3>5, <3>6, <6>1, <6>2, AfterRename
        <5>5. me.base[f] = h[f]
          BY <1>2, <3>5, <3>8, <3>9, OpFacts DEF Covers
        <5> QED BY <1>4, <2>2, <3>1, <3>6, <3>9, <4>1, <4>3, <5>4, <5>5
      <4> QED BY <4>2, <4>3
    <3>10. CASE f[1] = plan[1].to
      <4>1. disk[f] = Absent
        BY <1>1, <2>1, <3>2, <3>5, <3>10, CarriedFacts
      <4>2. f \notin me.removes
        <5>1. f[1] # plan[1].from
          BY <3>5, <3>10, OpFacts
        <5>2. f \notin Vacated(disk, plan)
          <6> HIDE DEF plan
          <6> QED BY <1>1, <2>1, <5>1, VacatedFacts
        <5> QED BY <3>1, <5>2
      <4>3. me.base[f] = Absent
        BY <2>1, <3>5, <3>6, <3>7, <3>10 DEF Moved, FilesIn
      <4>4. me.base[f] = h[f]
        BY <1>2, <3>5, <3>8, <3>10, OpFacts DEF Covers
      <4> QED BY <2>2, <3>1, <4>1, <4>2, <4>3, <4>4
    <3> QED BY <3>5, <3>9, <3>10
  <2> QED BY <2>3, <2>4
<1>8. ASSUME NEW f \in Files PROVE new[f] = s[n][f]
  <2>1. CASE f \in T
    BY <1>4, <1>5, <1>7, <2>1
  <2>2. CASE f \notin T
    BY <1>3, <1>6, <2>2 DEF Overlay
  <2> QED BY <2>1, <2>2
<1>9. new = s[n]
  <2>1. s[n] \in Tree
    <3> HIDE DEF plan, h, s
    <3>1. s \in [0..Len(plan) -> Tree]
      BY <1>1, <1>2, StagesUnfold DEF s
    <3> QED BY <1>2, <3>1
  <2>2. new = [f \in Files |-> new[f]]
    BY DEF Overlay
  <2>3. s[n] = [f \in Files |-> s[n][f]]
    <3> HIDE DEF s, n
    <3> QED BY <2>1 DEF Tree
  <2> HIDE DEF s, new, n
  <2> QED BY <1>8, <2>2, <2>3
<1> HIDE DEF new, s
<1> QED BY <1>6, <1>7, <1>9 DEF Effect, s, new
-----------------------------------------------------------------------------
(* The operator's work is safe.                                            *)

LEMMA PlanType ==
  ASSUME TypeInv, NEW p \in Procs
  PROVE  /\ proc[p] \in Invocations
         /\ proc[p].base \in Tree /\ proc[p].writes \in Tree /\ proc[p].removes \subseteq Files
         /\ proc[p].journal \in Seq(Undos)
         /\ proc[p].plan # <<>> =>
              /\ proc[p].plan \in Plans /\ PlanOK(proc[p].plan)
              /\ proc[p].plan \in Seq(Renames \cup FileWrites) /\ Len(proc[p].plan) \in Nat
         /\ Touched(<<>>) = {}
<1>1. proc[p] \in Invocations
  BY DEF TypeInv
<1>2. proc[p].plan # <<>> => proc[p].plan \in Plans
  BY <1>1 DEF Invocations
<1>3. proc[p].plan # <<>> => PlanOK(proc[p].plan)
  BY <1>2, PlanShape
<1>4. proc[p].plan # <<>> => proc[p].plan \in Seq(Renames \cup FileWrites) /\ Len(proc[p].plan) \in Nat
  BY <1>3 DEF PlanOK
<1> QED BY <1>1, <1>2, <1>3, <1>4 DEF Invocations, Touched

(* Nothing is promised for an invocation without a plan.                   *)
LEMMA IdleWork ==
  ASSUME NEW p \in Procs, PlanInv', proc'[p].plan = <<>>
  PROVE  WorkInv(p)'
<1>1. \/ proc'[p].pc \in {"idle", "waiting", "locked"}
      \/ proc'[p].pc = "finished" /\ proc'[p].outcome = "none"
  BY DEF PlanInv
<1> QED BY <1>1 DEF WorkInv

(* What is true of an invocation stays so while nobody touches it or the   *)
(* files of its plan, and HEAD only moves forward.                         *)
LEMMA WorkFrame ==
  ASSUME Basics, Basics', NEW p \in Procs, WorkInv(p),
         proc'[p] = proc[p], merging' = merging,
         \A f \in Touched(proc[p].plan) :
           disk'[f] = disk[f] /\ index'[f] = index[f] /\ head'.tree[f] = head.tree[f],
         head' = head \/ head'.sha > head.sha
  PROVE  WorkInv(p)'
<1> DEFINE me == proc[p]
           plan == me.plan
           T == Touched(plan)
<1>1. CASE plan = <<>>
  BY <1>1, IdleWork DEF Basics
<1>2. CASE plan # <<>>
  <2>1. /\ plan \in Plans /\ PlanOK(plan) /\ disk \in Tree /\ disk' \in Tree
        /\ plan \in Seq(Renames \cup FileWrites) /\ T \subseteq Files
    <3>1. plan \in Plans /\ PlanOK(plan) /\ plan \in Seq(Renames \cup FileWrites)
      BY <1>2, PlanType DEF Basics
    <3> QED BY <3>1, TouchedFacts DEF Basics, TypeInv
  <2>2. AsFound(p) => AsFound(p)'
    BY DEF AsFound
  <2>3. Unstaged(p) => Unstaged(p)'
    BY DEF Unstaged
  <2>4. Clear(p) => Clear(p)'
    BY DEF Clear
  <2>5. Progress(p) => Progress(p)'
    BY DEF Progress
  <2>6. Gathered(p) => Gathered(p)'
    <3>1. CommitPaths(disk', plan) = CommitPaths(disk, plan) /\ Vacated(disk', plan) = Vacated(disk, plan)
      <4>1. \A f \in Touched(plan) : disk'[f] = disk[f]
        OBVIOUS
      <4> HIDE DEF plan, T
      <4> QED BY <2>1, <4>1, PathsLocal
    <3>2. CommitPaths(disk, plan) \subseteq T
      BY <2>1, PathsTouched
    <3> QED BY <3>1, <3>2 DEF Gathered
  <2>7. Based(p) => Based(p)'
    <3>1. me.parent.sha \in Nat /\ head.sha \in Nat /\ head'.sha \in Nat
      BY DEF Basics, TypeInv, Invocations, Commits
    <3> QED BY <3>1 DEF Based
  <2>8. Recorded(p) => Recorded(p)'
    BY <2>1 DEF Recorded, Overlay
  <2>9. (\A f \in T : disk[f] = head.tree[f] /\ index[f] = head.tree[f])
         => (\A f \in T : disk[f] = head.tree[f] /\ index[f] = head.tree[f])'
    OBVIOUS
  <2> QED BY <2>2, <2>3, <2>4, <2>5, <2>6, <2>7, <2>8, <2>9 DEF WorkInv
<1> QED BY <1>1, <1>2

(* The operator, who keeps off the files of a running verb and commits in  *)
(* no window between a verb's commit and its reconciliation.               *)
LEMMA OperatorStep ==
  ASSUME ApplyInv, Basics', Operating # "anywhere", Operator
  PROVE  ApplyInv'
<1>0. /\ Basics /\ LockInv /\ PlanInv /\ MergeIntact /\ \A p \in Procs : WorkInv(p)
      /\ Operating \in {"never", "between", "elsewhere"}
  BY DEF ApplyInv, Basics
<1>1. ASSUME NEW f \in Files, Edit(f) \/ Stage(f) \/ Restore(f)
      PROVE  ApplyInv'
  <2>1. UNCHANGED <<head, merging, lock, proc>> /\ f \in Free
    BY <1>1 DEF Edit, Stage, Restore
  <2>2. \A g \in Files : g # f => disk'[g] = disk[g] /\ index'[g] = index[g]
    BY <1>1 DEF Edit, Stage, Restore, Basics, TypeInv, Tree
  <2>3. ASSUME NEW p \in Procs PROVE WorkInv(p)'
    <3>1. CASE proc[p].plan = <<>>
      BY <2>1, <3>1, IdleWork DEF Basics
    <3>2. CASE proc[p].plan # <<>>
      <4>1. p \in Planned
        BY <3>2 DEF Planned
      <4>2. f \notin Touched(proc[p].plan)
        BY <1>0, <2>1, <4>1 DEF Free, Quiet, InUse
      <4>3. Touched(proc[p].plan) \subseteq Files
        BY DEF Touched
      <4> QED BY <1>0, <2>1, <2>2, <4>2, <4>3, WorkFrame
    <3> QED BY <3>1, <3>2
  <2>4. MergeIntact'
    BY <1>0, <2>1 DEF MergeIntact
  <2> QED BY <2>3, <2>4 DEF ApplyInv
<1>2. CASE GitCommit
  <2>1. /\ UNCHANGED <<disk, index, lock, proc>>
        /\ head' = [tree |-> index, sha |-> head.sha + 1]
        /\ merging' = 0
        /\ MayCommit
    BY <1>2 DEF GitCommit
  <2>2. head'.tree = index /\ head'.sha = head.sha + 1 /\ head.sha \in Nat
    BY <1>0, <2>1 DEF Basics, TypeInv
  <2>3. ASSUME NEW p \in Procs PROVE WorkInv(p)'
    <3>1. CASE proc[p].plan = <<>>
      BY <2>1, <3>1, IdleWork DEF Basics
    <3>2. CASE proc[p].plan # <<>>
      <4>1. p \in Planned
        BY <3>2 DEF Planned
      <4>2. proc[p].pc # "landed"
        BY <1>0, <2>1, <4>1 DEF MayCommit, Quiet, At
      <4>3. WorkInv(p)
        BY <1>0
      <4>4. CASE proc[p].pc \in {"staged", "applying", "gathered", "built"}
        <5>1. \A f \in Touched(proc[p].plan) : index[f] = head.tree[f]
          BY <4>3, <4>4 DEF WorkInv, Unstaged
        <5>2. Unstaged(p)'
          BY <2>1, <2>2 DEF Unstaged
        <5>3. AsFound(p) => AsFound(p)'
          BY <2>1 DEF AsFound
        <5>4. Clear(p) => Clear(p)'
          BY <2>1, <2>2, <5>1 DEF Clear
        <5>5. Progress(p) => Progress(p)'
          BY <2>1 DEF Progress
        <5>6. Gathered(p) => Gathered(p)'
          BY <2>1 DEF Gathered
        <5>7. Based(p) => Based(p)'
          <6>1. proc[p].parent.sha \in Nat
            BY <1>0 DEF Basics, TypeInv, Invocations, Commits
          <6> QED BY <2>1, <2>2, <6>1 DEF Based
        <5> QED BY <2>1, <4>3, <4>4, <5>2, <5>3, <5>4, <5>5, <5>6, <5>7 DEF WorkInv
      <4>5. CASE proc[p].pc \notin {"staged", "applying", "gathered", "built"}
        <5>1. AsFound(p) => AsFound(p)'
          BY <2>1 DEF AsFound
        <5>2. Progress(p) => Progress(p)'
          BY <2>1 DEF Progress
        <5> QED BY <2>1, <2>2, <4>2, <4>3, <4>5, <5>1, <5>2 DEF WorkInv
      <4> QED BY <4>4, <4>5
    <3> QED BY <3>1, <3>2
  <2>4. MergeIntact'
    BY <2>1 DEF MergeIntact
  <2> QED BY <2>3, <2>4 DEF ApplyInv
<1>3. CASE StartMerge
  <2>1. /\ UNCHANGED <<disk, index, head, lock, proc, staged>>
        /\ merging' = head.sha
        /\ Planned = {}
    BY <1>0, <1>3 DEF StartMerge, MayMerge, Quiet
  <2>2. ASSUME NEW p \in Procs PROVE WorkInv(p)'
    <3>1. proc'[p].plan = <<>>
      BY <2>1 DEF Planned
    <3> QED BY <3>1, IdleWork DEF Basics
  <2> QED BY <2>1, <2>2 DEF ApplyInv, MergeIntact
<1> QED BY <1>1, <1>2, <1>3 DEF Operator

(* Taking the lock, giving it up, and dying.                               *)
LEMMA LockStep ==
  ASSUME ApplyInv, Basics', NEW p \in Procs,
         Invoke(p) \/ Acquire(p) \/ Busy(p) \/ Release(p) \/ Crash(p)
  PROVE  ApplyInv'
<1>0. /\ Basics /\ TypeInv /\ PlanInv /\ MergeIntact /\ \A q \in Procs : WorkInv(q)
  BY DEF ApplyInv, Basics
<1>1. UNCHANGED repo
  BY DEF Invoke, Acquire, Busy, Release, Crash
<1>2. proc'[p].plan = <<>> /\ \A q \in Procs \ {p} : proc'[q] = proc[q]
  <2>1. CASE proc' = [proc EXCEPT ![p] = Idle]
    BY <1>0, <2>1, ResetFacts DEF TypeInv
  <2>2. CASE /\ proc[p].pc \in {"idle", "waiting"}
             /\ Goto(p, "waiting") \/ Goto(p, "locked") \/ Goto(p, "idle")
    BY <1>0, <2>2, GotoFacts DEF TypeInv, PlanInv, Pcs
  <2> QED BY <2>1, <2>2 DEF Invoke, Acquire, Busy, Release, Crash, At
<1>3. ASSUME NEW q \in Procs PROVE WorkInv(q)'
  <2>1. CASE q = p
    BY <1>2, <2>1, IdleWork DEF Basics
  <2>2. CASE q # p
    BY <1>0, <1>1, <1>2, <2>2, WorkFrame DEF repo
  <2> QED BY <2>1, <2>2
<1> QED BY <1>0, <1>1, <1>3 DEF ApplyInv, MergeIntact, repo

(* While p is past the lock, nobody else has a plan.                       *)
LEMMA OthersWork ==
  ASSUME Basics, Basics', NEW p \in Procs, PastLock(p), NEW q \in Procs, q # p,
         proc'[q] = proc[q]
  PROVE  WorkInv(q)'
<1>1. proc[q].plan = <<>>
  BY DEF Basics, LockInv, PlanInv, PastLock
<1> QED BY <1>1, IdleWork DEF Basics

LEMMA PlanStep ==
  ASSUME ApplyInv, Basics', NEW p \in Procs,
         MakePlan(p) \/ CheckIndex(p) \/ CheckWorktree(p)
  PROVE  ApplyInv'
<1>0. Basics /\ TypeInv /\ PlanInv /\ MergeIntact /\ WorkInv(p)
  BY DEF ApplyInv, Basics
<1> DEFINE me == proc[p]
           plan == me.plan
           T == Touched(plan)
<1>t. proc \in [Procs -> Invocations] /\ disk \in Tree
  BY <1>0 DEF TypeInv
<1>1. UNCHANGED <<repo, lock>> /\ PastLock(p) /\ \A q \in Procs \ {p} : proc'[q] = proc[q]
  <2>1. /\ UNCHANGED <<repo, lock>> /\ PastLock(p)
    BY DEF MakePlan, CheckIndex, CheckWorktree, PastLock, At
  <2>2. CASE \E new \in Plans : GetsPlan(p, new, disk)
    BY <1>t, <2>1, <2>2, PlanFacts
  <2>3. CASE Finish(p, "none") \/ Finish(p, "refused")
    BY <1>t, <2>1, <2>3, FinishFacts DEF Outcomes
  <2>4. CASE Goto(p, "staged") \/ Goto(p, "applying")
    BY <1>t, <2>1, <2>4, GotoFacts DEF Pcs
  <2> QED BY <2>1, <2>2, <2>3, <2>4 DEF MakePlan, CheckIndex, CheckWorktree, GetsPlan
<1>2. WorkInv(p)'
  <2>1. CASE Finish(p, "none") \/ Finish(p, "refused")
    BY <1>0, <2>1, FinishFacts DEF TypeInv, Outcomes, WorkInv
  <2>2. CASE MakePlan(p) /\ ~Finish(p, "none")
    <3>1. PICK new \in Plans : GetsPlan(p, new, disk)
      BY <2>2 DEF MakePlan, GetsPlan
    <3>2. /\ proc'[p].pc = "planned" /\ proc'[p].base = disk /\ proc'[p].journal = proc[p].journal
      BY <1>t, <3>1, PlanFacts
    <3>3. proc[p].journal = <<>>
      BY <1>0, <2>2 DEF MakePlan, At, PlanInv
    <3> QED BY <1>1, <3>2, <3>3 DEF WorkInv, AsFound, repo
  <2>3. CASE CheckIndex(p) /\ ~Finish(p, "refused")
    <3>1. IndexClear(plan) /\ Goto(p, "staged") /\ proc[p].pc = "planned"
      BY <2>3 DEF CheckIndex, At
    <3>2. /\ proc'[p].pc = "staged" /\ proc'[p].plan = plan /\ proc'[p].base = me.base
          /\ proc'[p].journal = me.journal
      BY <1>0, <3>1, GotoFacts DEF TypeInv, Pcs
    <3>3. Unstaged(p)
      BY <3>1 DEF Unstaged, IndexClear, StagedPaths, Touched
    <3>4. AsFound(p) /\ me.journal = <<>>
      BY <1>0, <3>1 DEF WorkInv
    <3> QED BY <1>1, <3>2, <3>3, <3>4 DEF WorkInv, AsFound, Unstaged, repo
  <2>4. CASE CheckWorktree(p) /\ ~Finish(p, "refused")
    <3>1. WorktreeClear(plan) /\ Goto(p, "applying") /\ proc[p].pc = "staged"
      BY <2>4 DEF CheckWorktree, At
    <3>2. /\ proc'[p].pc = "applying" /\ proc'[p].plan = plan /\ proc'[p].base = me.base
          /\ proc'[p].journal = me.journal
      BY <1>0, <3>1, GotoFacts DEF TypeInv, Pcs
    <3>3. Unstaged(p) /\ AsFound(p) /\ me.journal = <<>>
      BY <1>0, <3>1 DEF WorkInv
    <3>4. plan \in Seq(Renames \cup FileWrites) /\ Len(plan) \in Nat /\ me.base \in Tree
      BY <1>0, <3>1, PlanType DEF PlanInv
    <3>5. Clear(p)
      <4> SUFFICES ASSUME NEW f \in T, me.base[f] # head.tree[f]
                   PROVE  \E i \in 1..Len(plan) :
                            /\ WrittenFirst(plan, i, f)
                            /\ \/ head.tree[f] = Absent
                               \/ /\ plan[i].adopts
                                  /\ me.base[f].fm = head.tree[f].fm
                                  /\ KeepsFields(f, head.tree[f].fm, plan[i].content.fm)
        BY DEF Clear
      <4>1. disk[f] = me.base[f]
        BY <3>3 DEF AsFound
      <4>2. Exempt(plan, f)
        BY <3>1, <4>1 DEF WorktreeClear
      <4>3. DOMAIN plan = 1..Len(plan) /\ \A i \in 1..Len(plan) : plan[i] \in Renames \cup FileWrites
        BY <3>4
      <4>4. PICK i \in 1..Len(plan) :
              /\ plan[i].type = "write" /\ plan[i].path = f
              /\ \A j \in 1..(i - 1) : ~Covers(plan[j], f)
              /\ \/ head.tree[f] = Absent
                 \/ plan[i].adopts /\ adoptionPreservesFrontmatter(f, plan[i].content)
        BY <4>2, <4>3 DEF Exempt
      <4>5. plan[i] \in FileWrites
        BY <4>3, <4>4, OpFacts
      <4> QED BY <4>1, <4>4, <4>5 DEF WrittenFirst, adoptionPreservesFrontmatter,
           reconstructedFrontmatterMatches, KeepsFields
    <3>6. Progress(p)
      <4>1. Stages(plan, me.base)[0] = me.base
        <5> HIDE DEF plan, me
        <5> QED BY <3>4, StagesUnfold
      <4> QED BY <3>3, <3>4, <4>1 DEF Progress, AsFound
    <3> QED BY <1>1, <3>2, <3>3, <3>5, <3>6 DEF WorkInv, Unstaged, Clear, Progress, repo
  <2> QED BY <2>1, <2>2, <2>3, <2>4
<1>3. \A q \in Procs : WorkInv(q)'
  BY <1>0, <1>1, <1>2, OthersWork
<1> QED BY <1>0, <1>1, <1>3 DEF ApplyInv, MergeIntact, repo

(* Doing the operations of the plan.                                       *)
LEMMA OperationStep ==
  ASSUME ApplyInv, Basics', NEW p \in Procs, Rename(p) \/ WriteFile(p)
  PROVE  ApplyInv'
<1>0. Basics /\ TypeInv /\ PlanInv /\ MergeIntact /\ WorkInv(p)
  BY DEF ApplyInv, Basics
<1> DEFINE me == proc[p]
           plan == me.plan
           T == Touched(plan)
           trees == Stages(plan, me.base)
           k == Len(me.journal)
           op == plan[k + 1]
<1>1. proc \in [Procs -> Invocations] /\ disk \in Tree /\ disk' \in Tree
  BY <1>0 DEF TypeInv, Basics
<1>2. /\ Pending(p) /\ proc[p].pc = "applying" /\ PastLock(p)
      /\ UNCHANGED <<index, head, merging, staged, lock>>
  BY DEF Rename, WriteFile, Pending, At, PastLock
<1>3. /\ PlanOK(plan) /\ plan \in Seq(Renames \cup FileWrites) /\ me.base \in Tree
      /\ k \in Nat /\ k + 1 \in 1..Len(plan) /\ me.journal \in Seq(Undos)
      /\ op \in Renames \cup FileWrites /\ op = Next(p)
  BY <1>0, <1>2, NextOp, PlanType DEF Next
<1>4. Unstaged(p) /\ Clear(p) /\ Progress(p)
  BY <1>0, <1>2 DEF WorkInv
<1>5. CASE Rollback(p) /\ UNCHANGED disk
  <2>1. /\ proc'[p].pc = "undoing" /\ proc'[p].plan = plan /\ proc'[p].base = me.base
        /\ proc'[p].journal = me.journal /\ \A q \in Procs \ {p} : proc'[q] = proc[q]
    BY <1>1, <1>5, GotoFacts DEF Pcs, Rollback
  <2>2. WorkInv(p)'
    BY <1>4, <1>5, <2>1 DEF WorkInv, Progress
  <2>3. \A q \in Procs : WorkInv(q)'
    BY <1>0, <1>2, <2>1, <2>2, OthersWork
  <2> QED BY <1>0, <1>2, <2>3 DEF ApplyInv, MergeIntact
<1>6. CASE ~(Rollback(p) /\ UNCHANGED disk)
  <2>1. /\ disk' = Perform(op, disk)
        /\ op \in Renames => FilesIn(disk, op.from) # {} /\ FilesIn(disk, op.to) = {}
        /\ proc' = [proc EXCEPT ![p].journal = Append(@, UndoOf(op, disk))]
    <3>1. op.type = "move" <=> op \in Renames
      BY <1>3, OpFacts
    <3>2. op.type = "write" => op \in FileWrites /\ op \notin Renames
      BY <1>3, OpFacts
    <3>3. CASE Rename(p)
      BY <1>3, <1>6, <3>1, <3>3 DEF Rename, Perform, UndoOf
    <3>4. CASE WriteFile(p)
      BY <1>3, <1>6, <3>2, <3>4, OpFacts DEF WriteFile, Perform, UndoOf
    <3> QED BY <3>3, <3>4
  <2> DEFINE j == Append(me.journal, UndoOf(op, disk))
  <2>2. j \in Seq(Undos) /\ Len(j) = k + 1 /\ j[k + 1] = UndoOf(op, disk)
        /\ \A i \in 1..k : j[i] = me.journal[i]
    <3> HIDE DEF op
    <3>1. UndoOf(op, disk) \in Undos
      BY <1>1, <1>3, UndoType
    <3> QED BY <1>3, <3>1
  <2>3. proc' = [proc EXCEPT ![p].journal = j]
    BY <2>1
  <2> HIDE DEF j
  <2>4. /\ proc'[p].pc = "applying" /\ proc'[p].plan = plan /\ proc'[p].base = me.base
        /\ proc'[p].journal = j /\ \A q \in Procs \ {p} : proc'[q] = proc[q]
    BY <1>1, <1>2, <2>2, <2>3, JournalFacts
  <2>5. /\ trees \in [0..Len(plan) -> Tree]
        /\ trees[0] = me.base
        /\ trees[k + 1] = Perform(op, trees[k])
    <3>1. /\ trees \in [0..Len(plan) -> Tree]
          /\ trees[0] = me.base
          /\ \A i \in 1..Len(plan) : trees[i] = Perform(plan[i], trees[i - 1])
      <4> HIDE DEF plan, me
      <4> QED BY <1>3, StagesUnfold
    <3> HIDE DEF trees, plan, k
    <3>2. trees[k + 1] = Perform(plan[k + 1], trees[(k + 1) - 1]) /\ (k + 1) - 1 = k
      BY <1>3, <3>1
    <3> QED BY <3>1, <3>2
  <2> HIDE DEF trees
  <2>6. \A f \in T : disk[f] = trees[k][f]
    BY <1>4 DEF Progress, trees
  <2>7. trees[k] \in Tree
    BY <1>3, <2>5
  <2>8. \A f \in T : disk'[f] = trees[k + 1][f]
    <3> HIDE DEF plan, k
    <3> QED BY <1>1, <1>3, <2>1, <2>5, <2>6, <2>7, PerformLocal
  <2>9. j[k + 1] = UndoOf(op, trees[k])
    <3>1. CASE op \in Renames
      BY <2>2, <3>1 DEF UndoOf
    <3>2. CASE op \in FileWrites
      <4>1. op.path \in T
        BY <1>3, <3>2, TouchedFacts
      <4> QED BY <2>2, <2>6, <4>1 DEF UndoOf
    <3> QED BY <1>3, <3>1, <3>2
  <2>10. Moved(plan[1], me.base)
    <3>1. CASE k >= 1
      BY <1>4, <3>1 DEF Progress
    <3>2. CASE k = 0
      <4>1. plan[1] = op /\ \A f \in T : disk[f] = me.base[f]
        BY <2>5, <2>6, <3>2
      <4>2. ASSUME op \in Renames
            PROVE  FilesIn(me.base, op.from) # {} /\ FilesIn(me.base, op.to) = {}
        <5>1. \A n \in Names : <<op.from, n>> \in T /\ <<op.to, n>> \in T
          BY <1>3, <4>2, TouchedFacts
        <5>2. FilesIn(disk, op.from) # {} /\ FilesIn(disk, op.to) = {}
          BY <2>1, <4>2
        <5> HIDE DEF op, T, plan
        <5>3. \A n \in Names : /\ disk[<<op.from, n>>] = me.base[<<op.from, n>>]
                               /\ disk[<<op.to, n>>] = me.base[<<op.to, n>>]
          BY <4>1, <5>1
        <5>4. /\ FilesIn(disk, op.from) = FilesIn(me.base, op.from)
              /\ FilesIn(disk, op.to) = FilesIn(me.base, op.to)
          <6> HIDE DEF me
          <6> QED BY <5>3, FilesInLocal
        <5> QED BY <5>2, <5>4
      <4> QED BY <4>1, <4>2 DEF Moved
    <3> QED BY <1>3, <3>1, <3>2
  <2>11. Progress(p)'
    <3>1. \A i \in 1..(k + 1) : j[i] = UndoOf(plan[i], trees[i - 1])
      <4>1. ASSUME NEW i \in 1..k PROVE j[i] = UndoOf(plan[i], trees[i - 1])
        BY <1>4, <2>2 DEF Progress, trees
      <4>2. (k + 1) - 1 = k
        BY <1>3
      <4> HIDE DEF k
      <4> QED BY <1>3, <2>9, <4>1, <4>2
    <3> HIDE DEF k
    <3> QED BY <1>3, <2>2, <2>4, <2>8, <2>10, <3>1 DEF Progress, trees
  <2>12. WorkInv(p)'
    BY <1>2, <1>4, <2>4, <2>11 DEF WorkInv, Unstaged, Clear
  <2>13. \A q \in Procs : WorkInv(q)'
    BY <1>0, <1>2, <2>4, <2>12, OthersWork
  <2> QED BY <1>0, <1>2, <2>13 DEF ApplyInv, MergeIntact
<1> QED BY <1>5, <1>6

(* Reading the result back, and resolving HEAD.                            *)
LEMMA GatherStep ==
  ASSUME ApplyInv, Basics', NEW p \in Procs, gatherCommitOps(p) \/ ReadParent(p)
  PROVE  ApplyInv'
<1>0. Basics /\ TypeInv /\ PlanInv /\ MergeIntact /\ WorkInv(p)
  BY DEF ApplyInv, Basics
<1> DEFINE me == proc[p]
           plan == me.plan
           w == [f \in Files |-> IF f \in CommitPaths(disk, plan)
                                 THEN FinalBytes(plan, f) ELSE Absent]
           r == Vacated(disk, plan)
<1>1. /\ proc \in [Procs -> Invocations] /\ head \in Commits
      /\ w \in Tree /\ r \in SUBSET Files
  BY <1>0 DEF TypeInv, Commits, Tree, FinalBytes, Vacated
<1>2. UNCHANGED <<repo, lock>> /\ PastLock(p)
  BY DEF gatherCommitOps, ReadParent, PastLock, At
<1>3. CASE gatherCommitOps(p) /\ Rollback(p)
  <2>1. /\ proc[p].pc = "applying"
        /\ proc'[p].pc = "undoing" /\ proc'[p].plan = plan /\ proc'[p].base = me.base
        /\ proc'[p].journal = me.journal /\ \A q \in Procs \ {p} : proc'[q] = proc[q]
    BY <1>1, <1>3, GotoFacts DEF Pcs, Rollback, gatherCommitOps, At
  <2>2. WorkInv(p)'
    BY <1>0, <1>2, <2>1 DEF WorkInv, Progress, repo
  <2>3. \A q \in Procs : WorkInv(q)'
    BY <1>0, <1>2, <2>1, <2>2, OthersWork
  <2> QED BY <1>0, <1>2, <2>3 DEF ApplyInv, MergeIntact, repo
<1>4. CASE gatherCommitOps(p) /\ ~Rollback(p)
  <2>1. /\ me.pc = "applying" /\ ~(Len(me.journal) < Len(plan))
        /\ \A f \in CommitPaths(disk, plan) : disk[f] # Absent
        /\ GetsFiles(p, r, w)
    BY <1>4 DEF gatherCommitOps, At, Pending, GetsFiles
  <2>2. Unstaged(p) /\ Clear(p) /\ Progress(p)
    BY <1>0, <2>1 DEF WorkInv
  <2>3. Len(me.journal) = Len(plan)
    <3>1. Len(me.journal) \in Nat /\ Len(plan) \in Nat
      BY <1>0, <2>1, PlanType DEF PlanInv
    <3> QED BY <2>1, <2>2, <3>1 DEF Progress
  <2>4. \A f \in Files : w[f] = IF f \in CommitPaths(disk, plan) THEN disk[f] ELSE Absent
    BY DEF FinalBytes
  <2> HIDE DEF w, r
  <2>5. /\ proc'[p].pc = "gathered" /\ proc'[p].plan = plan /\ proc'[p].base = me.base
        /\ proc'[p].journal = me.journal /\ proc'[p].removes = r /\ proc'[p].writes = w
        /\ \A q \in Procs \ {p} : proc'[q] = proc[q]
    BY <1>1, <2>1, GatherFacts
  <2>6. Progress(p)' /\ Unstaged(p)' /\ Clear(p)'
    BY <1>2, <2>2, <2>5 DEF Progress, Unstaged, Clear, repo
  <2>7. Gathered(p)'
    BY <1>2, <2>1, <2>3, <2>4, <2>5 DEF Gathered, repo, r
  <2>8. WorkInv(p)'
    BY <2>5, <2>6, <2>7 DEF WorkInv
  <2>9. \A q \in Procs : WorkInv(q)'
    BY <1>0, <1>2, <2>5, <2>8, OthersWork
  <2> QED BY <1>0, <1>2, <2>9 DEF ApplyInv, MergeIntact, repo
<1>5. CASE ReadParent(p)
  <2>1. /\ me.pc = "gathered"
        /\ proc' = [proc EXCEPT ![p].pc = "built", ![p].parent = head]
    BY <1>5 DEF ReadParent, At
  <2>2. /\ proc'[p].pc = "built" /\ proc'[p].plan = plan /\ proc'[p].base = me.base
        /\ proc'[p].journal = me.journal /\ proc'[p].removes = me.removes
        /\ proc'[p].writes = me.writes /\ proc'[p].parent = head
        /\ \A q \in Procs \ {p} : proc'[q] = proc[q]
    BY <1>1, <2>1, ParentFacts
  <2>3. Unstaged(p) /\ Clear(p) /\ Progress(p) /\ Gathered(p)
    BY <1>0, <2>1 DEF WorkInv
  <2>4. Progress(p)' /\ Unstaged(p)' /\ Clear(p)'
    BY <1>2, <2>2, <2>3 DEF Progress, Unstaged, Clear, repo
  <2>5. Gathered(p)'
    BY <1>2, <2>2, <2>3 DEF Gathered, repo
  <2>6. Based(p)'
    <3>1. head.sha \in Nat
      BY <1>1 DEF Commits
    <3> QED BY <1>2, <2>2, <3>1 DEF Based, repo
  <2>7. WorkInv(p)'
    BY <2>2, <2>4, <2>5, <2>6 DEF WorkInv
  <2>8. \A q \in Procs : WorkInv(q)'
    BY <1>0, <1>2, <2>2, <2>7, OthersWork
  <2> QED BY <1>0, <1>2, <2>8 DEF ApplyInv, MergeIntact, repo
<1> QED BY <1>3, <1>4, <1>5

(* The commit, and the reconciliation of the index.                        *)
LEMMA CommitStep ==
  ASSUME ApplyInv, Basics', NEW p \in Procs,
         UpdateRef(p) \/ Reconcile(p) \/ ReconcileFault(p)
  PROVE  ApplyInv'
<1>0. Basics /\ TypeInv /\ PlanInv /\ MergeIntact /\ WorkInv(p)
  BY DEF ApplyInv, Basics
<1> DEFINE me == proc[p]
           plan == me.plan
           T == Touched(plan)
           new == Overlay(me.parent.tree, me.removes, me.writes)
<1>1. proc \in [Procs -> Invocations] /\ T \subseteq Files
  BY <1>0 DEF TypeInv, Touched
<1>2. UNCHANGED <<disk, merging, staged, lock>> /\ PastLock(p)
  BY DEF UpdateRef, Reconcile, ReconcileFault, PastLock, At
<1>3. CASE UpdateRef(p) /\ ~Unmoved(p)
  <2>1. /\ me.pc = "built" /\ UNCHANGED <<head, index>>
        /\ proc'[p].pc = "undoing" /\ proc'[p].plan = plan /\ proc'[p].base = me.base
        /\ proc'[p].journal = me.journal /\ \A q \in Procs \ {p} : proc'[q] = proc[q]
    BY <1>1, <1>3, GotoFacts DEF Pcs, Rollback, UpdateRef, At
  <2>2. WorkInv(p)'
    BY <1>0, <1>2, <2>1 DEF WorkInv, Progress
  <2>3. \A q \in Procs : WorkInv(q)'
    BY <1>0, <1>2, <2>1, <2>2, OthersWork
  <2> QED BY <1>0, <1>2, <2>1, <2>3 DEF ApplyInv, MergeIntact
<1>4. CASE UpdateRef(p) /\ Unmoved(p)
  <2>1. /\ me.pc = "built" /\ UNCHANGED index /\ head'.tree = new
        /\ proc'[p].pc = "landed" /\ proc'[p].plan = plan
        /\ proc'[p].removes = me.removes /\ proc'[p].writes = me.writes
        /\ \A q \in Procs \ {p} : proc'[q] = proc[q]
    BY <1>1, <1>4, GotoFacts DEF Pcs, UpdateRef, At
  <2>2. Unstaged(p) /\ Based(p)
    BY <1>0, <2>1 DEF WorkInv
  <2>3. \A f \in T : new[f] = disk[f]
    BY <1>0, <1>4, <2>1, CommitExact
  <2>4. ASSUME NEW f \in T PROVE Overlay(index, me.removes, me.writes)[f] = new[f]
    <3>1. me.parent.tree[f] = index[f]
      BY <1>4, <2>2 DEF Based, Unstaged, Unmoved
    <3> QED BY <1>1, <3>1 DEF Overlay
  <2> HIDE DEF new
  <2>5. Recorded(p)'
    BY <1>2, <2>1, <2>3, <2>4 DEF Recorded
  <2>6. WorkInv(p)'
    BY <2>1, <2>5 DEF WorkInv
  <2>7. \A q \in Procs : WorkInv(q)'
    BY <1>0, <1>2, <2>1, <2>6, OthersWork
  <2>8. merging' = 0
    BY <1>2, <2>2 DEF Unstaged
  <2> QED BY <2>7, <2>8 DEF ApplyInv, MergeIntact
<1>5. CASE Reconcile(p) \/ ReconcileFault(p)
  <2>1. /\ me.pc = "landed" /\ UNCHANGED head
        /\ \/ Finish(p, "committed") /\ index' = Overlay(index, me.removes, me.writes)
           \/ Finish(p, "unsynced")
    BY <1>5 DEF Reconcile, ReconcileFault, Reconciled, At
  <2>2. Recorded(p)
    BY <1>0, <2>1 DEF WorkInv
  <2>3. /\ proc'[p].pc = "finished" /\ proc'[p].plan = plan
        /\ \/ proc'[p].outcome = "unsynced"
           \/ proc'[p].outcome = "committed" /\ index' = Overlay(index, me.removes, me.writes)
        /\ \A q \in Procs \ {p} : proc'[q] = proc[q]
    BY <1>1, <2>1, FinishFacts DEF Outcomes
  <2>4. WorkInv(p)'
    BY <1>2, <2>1, <2>2, <2>3 DEF WorkInv, Recorded
  <2>5. \A q \in Procs : WorkInv(q)'
    BY <1>0, <1>2, <2>3, <2>4, OthersWork
  <2> QED BY <1>0, <1>2, <2>1, <2>5 DEF ApplyInv, MergeIntact
<1> QED BY <1>3, <1>4, <1>5

(* One undo step takes the plan's files back to before the last operation. *)
LEMMA UndoLast ==
  ASSUME TypeInv, NEW p \in Procs, proc[p].plan # <<>>, Progress(p),
         proc[p].journal # <<>>,
         LET undo == proc[p].journal[Len(proc[p].journal)] IN
           disk' = IF undo.type = "write" THEN Written(disk, undo.path, undo.prior)
                   ELSE IF FilesIn(disk, undo.to) # {} /\ FilesIn(disk, undo.from) = {}
                        THEN Renamed(disk, undo.to, undo.from)
                   ELSE disk
  PROVE  LET me == proc[p] IN
         /\ Len(me.journal) \in 1..Len(me.plan)
         /\ \A f \in Touched(me.plan) :
              disk'[f] = Stages(me.plan, me.base)[Len(me.journal) - 1][f]
<1> DEFINE me == proc[p]
           plan == me.plan
           T == Touched(plan)
           trees == Stages(plan, me.base)
           k == Len(me.journal)
           op == plan[k]
           undo == me.journal[k]
<1>1. /\ me.base \in Tree /\ PlanOK(plan) /\ plan \in Seq(Renames \cup FileWrites)
      /\ Len(plan) \in Nat /\ me.journal \in Seq(Undos) /\ disk \in Tree
  BY PlanType DEF TypeInv
<1>2. k \in 1..Len(plan) /\ k - 1 \in 0..Len(plan)
  BY <1>1 DEF Progress
<1>3. op \in Renames \cup FileWrites
  BY <1>1, <1>2
<1>4. /\ \A f \in T : disk[f] = trees[k][f]
      /\ undo = UndoOf(op, trees[k - 1])
      /\ Moved(plan[1], me.base)
  <2>1. /\ \A f \in T : disk[f] = trees[k][f]
        /\ \A j \in 1..k : me.journal[j] = UndoOf(plan[j], trees[j - 1])
        /\ k >= 1 => Moved(plan[1], me.base)
    BY Zenon DEF Progress
  <2>2. k \in 1..k /\ k >= 1
    BY <1>1, <1>2
  <2> HIDE DEF trees, plan, k, T
  <2>3. undo = UndoOf(op, trees[k - 1])
    BY <2>1, <2>2
  <2> QED BY <2>1, <2>2, <2>3
<1>5. /\ trees[k - 1] \in Tree /\ trees[0] = me.base
      /\ trees[k] = Perform(op, trees[k - 1])
  <2>1. /\ trees \in [0..Len(plan) -> Tree]
        /\ trees[0] = me.base
        /\ \A i \in 1..Len(plan) : trees[i] = Perform(plan[i], trees[i - 1])
    <3> HIDE DEF plan, me
    <3> QED BY <1>1, StagesUnfold
  <2> HIDE DEF trees, plan, k
  <2> QED BY <1>2, <2>1
<1>6. /\ T \subseteq Files
      /\ \A f \in Files : f[2] \in Names /\ f = <<f[1], f[2]>>
  BY DEF Touched, Files
<1>7. disk' = IF undo.type = "write" THEN Written(disk, undo.path, undo.prior)
              ELSE IF FilesIn(disk, undo.to) # {} /\ FilesIn(disk, undo.from) = {}
                   THEN Renamed(disk, undo.to, undo.from)
              ELSE disk
  OBVIOUS
<1>8. op \in Renames => k = 1 /\ plan[1] = op
  BY <1>1, <1>2 DEF PlanOK
<1>9. CASE op \in FileWrites
  <2> HIDE DEF trees, plan, k, undo, T
  <2>1. /\ undo.type = "write" /\ undo.path = op.path /\ undo.prior = trees[k - 1][op.path]
        /\ op.path \in Files
    BY <1>4, <1>9, OpFacts DEF UndoOf, WriteUndo
  <2> HIDE DEF op
  <2>2. ASSUME NEW f \in T PROVE disk'[f] = trees[k - 1][f]
    <3>1. CASE f = op.path
      BY <1>1, <1>7, <2>1, <3>1 DEF Written, Tree
    <3>2. CASE f # op.path
      <4>1. disk'[f] = disk[f]
        BY <1>1, <1>6, <1>7, <2>1, <3>2 DEF Written, Tree
      <4>2. Perform(op, trees[k - 1])[f] = trees[k - 1][f]
        <5>1. ~Covers(op, f)
          BY <1>9, <3>2, OpFacts DEF Covers
        <5> QED BY <1>3, <1>5, <1>6, <5>1, PerformAt
      <4> QED BY <1>4, <1>5, <4>1, <4>2
    <3> QED BY <3>1, <3>2
  <2> QED BY <1>2, <2>2 DEF trees, plan, k, T
<1>10. CASE op \in Renames
  <2>1. k = 1 /\ trees[k - 1] = me.base
    BY <1>5, <1>8, <1>10
  <2>2. \A n \in Names : /\ <<op.from, n>> \in T /\ <<op.to, n>> \in T
                         /\ <<op.from, n>> \in Files /\ <<op.to, n>> \in Files
    BY <1>1, <1>2, <1>10, TouchedFacts
  <2>3. FilesIn(me.base, op.from) # {} /\ FilesIn(me.base, op.to) = {}
    BY <1>4, <1>8, <1>10 DEF Moved
  <2>4. /\ undo.type # "write" /\ undo.from = op.from /\ undo.to = op.to
        /\ op.from \in Dirs /\ op.to \in Dirs /\ op.from # op.to
    BY <1>4, <1>10, OpFacts DEF UndoOf, MoveUndo
  <2> HIDE DEF trees, plan, k, undo, T, op
  <2>5. \A f \in T : disk[f] = Renamed(me.base, op.from, op.to)[f]
    BY <1>4, <1>5, <1>10, <2>1, OpFacts DEF Perform
  <2>6. ASSUME NEW n \in Names
        PROVE  /\ disk[<<op.to, n>>] = me.base[<<op.from, n>>]
               /\ disk[<<op.from, n>>] = Absent
    BY <2>2, <2>4, <2>5 DEF Renamed
  <2>7. FilesIn(disk, op.to) # {}
    <3>1. PICK f \in {op.from} \X Names : me.base[f] # Absent
      BY <2>3 DEF FilesIn
    <3>2. f = <<op.from, f[2]>> /\ f[2] \in Names
      OBVIOUS
    <3>3. disk[<<op.to, f[2]>>] # Absent
      BY <2>6, <3>1, <3>2
    <3>4. <<op.to, f[2]>> \in {op.to} \X Names
      BY <3>2
    <3> QED BY <3>3, <3>4 DEF FilesIn
  <2>8. FilesIn(disk, op.from) = {}
    <3>1. ASSUME NEW f \in {op.from} \X Names PROVE disk[f] = Absent
      <4>1. f = <<op.from, f[2]>> /\ f[2] \in Names
        OBVIOUS
      <4> QED BY <2>6, <4>1
    <3> QED BY <3>1 DEF FilesIn
  <2>9. disk' = Renamed(disk, op.to, op.from)
    BY <1>7, <2>4, <2>7, <2>8
  <2>10. \A n \in Names : me.base[<<op.to, n>>] = Absent
    <3>1. ASSUME NEW n \in Names, me.base[<<op.to, n>>] # Absent PROVE FALSE
      <4>1. <<op.to, n>> \in FilesIn(me.base, op.to)
        BY <3>1 DEF FilesIn
      <4> QED BY <2>3, <4>1
    <3> QED BY <3>1
  <2>11. ASSUME NEW f \in T PROVE disk'[f] = me.base[f]
    <3>1. f \in Files /\ f[2] \in Names /\ f = <<f[1], f[2]>>
      BY <1>6
    <3>2. CASE f[1] = op.from
      <4>1. disk'[f] = disk[<<op.to, f[2]>>]
        BY <2>4, <2>9, <3>1, <3>2 DEF Renamed
      <4> QED BY <2>6, <3>1, <3>2, <4>1
    <3>3. CASE f[1] = op.to
      <4>1. disk'[f] = Absent
        BY <2>4, <2>9, <3>1, <3>3 DEF Renamed
      <4> QED BY <2>10, <3>1, <3>3, <4>1
    <3>4. CASE f[1] \notin {op.from, op.to}
      <4>1. disk'[f] = disk[f]
        BY <2>9, <3>1, <3>4 DEF Renamed
      <4> QED BY <2>5, <3>1, <3>4, <4>1 DEF Renamed
    <3> QED BY <3>2, <3>3, <3>4
  <2> QED BY <1>2, <2>1, <2>11 DEF trees, plan, k, T
<1> QED BY <1>3, <1>9, <1>10

(* A failure before the commit, and the rollback.                          *)
LEMMA RollbackStep ==
  ASSUME ApplyInv, Basics', NEW p \in Procs, Fault(p) \/ Undo(p) \/ RolledBack(p)
  PROVE  ApplyInv'
<1>0. Basics /\ TypeInv /\ PlanInv /\ MergeIntact /\ WorkInv(p)
  BY DEF ApplyInv, Basics
<1> DEFINE me == proc[p]
           plan == me.plan
           T == Touched(plan)
           k == Len(me.journal)
<1>1. proc \in [Procs -> Invocations]
  BY <1>0 DEF TypeInv
<1>2. UNCHANGED <<index, head, merging, staged, lock>> /\ PastLock(p)
  BY DEF Fault, Undo, RolledBack, PastLock, At, repo
<1>3. plan # <<>> /\ Progress(p)
  BY <1>0 DEF Fault, Undo, RolledBack, At, PlanInv, WorkInv
<1>4. /\ me.journal \in Seq(Undos) /\ plan \in Seq(Renames \cup FileWrites) /\ me.base \in Tree
  BY <1>0, <1>3, PlanType
<1>5. CASE Fault(p)
  <2>1. /\ UNCHANGED disk
        /\ proc'[p].pc = "undoing" /\ proc'[p].plan = plan /\ proc'[p].base = me.base
        /\ proc'[p].journal = me.journal /\ \A q \in Procs \ {p} : proc'[q] = proc[q]
    BY <1>1, <1>5, GotoFacts DEF Pcs, Rollback, Fault, repo
  <2>2. WorkInv(p)'
    BY <1>3, <2>1 DEF WorkInv, Progress
  <2>3. \A q \in Procs : WorkInv(q)'
    BY <1>0, <1>2, <2>1, <2>2, OthersWork
  <2> QED BY <1>0, <1>2, <2>3 DEF ApplyInv, MergeIntact
<1>6. CASE RolledBack(p)
  <2>1. /\ UNCHANGED disk /\ me.journal = <<>>
        /\ proc'[p].pc = "finished" /\ proc'[p].outcome = "failed"
        /\ proc'[p].plan = plan /\ proc'[p].base = me.base
        /\ \A q \in Procs \ {p} : proc'[q] = proc[q]
    BY <1>1, <1>6, FinishFacts DEF Outcomes, RolledBack, repo
  <2>2. AsFound(p)
    <3>1. Stages(plan, me.base)[0] = me.base
      <4> HIDE DEF plan, me
      <4> QED BY <1>4, StagesUnfold
    <3>2. Len(me.journal) = 0
      BY <2>1
    <3> QED BY <1>3, <3>1, <3>2 DEF Progress, AsFound
  <2>3. WorkInv(p)'
    BY <2>1, <2>2 DEF WorkInv, AsFound
  <2>4. \A q \in Procs : WorkInv(q)'
    BY <1>0, <1>2, <2>1, <2>3, OthersWork
  <2> QED BY <1>0, <1>2, <2>4 DEF ApplyInv, MergeIntact
<1>7. CASE Undo(p)
  <2> DEFINE left == SubSeq(me.journal, 1, k - 1)
             undo == me.journal[k]
  <2>1. /\ me.pc = "undoing" /\ me.journal # <<>>
        /\ proc' = [proc EXCEPT ![p].journal = left]
        /\ disk' = IF undo.type = "write" THEN Written(disk, undo.path, undo.prior)
                   ELSE IF FilesIn(disk, undo.to) # {} /\ FilesIn(disk, undo.from) = {}
                        THEN Renamed(disk, undo.to, undo.from)
                   ELSE disk
    BY <1>7 DEF Undo, Newest, At
  <2>2. /\ k \in 1..Len(plan)
        /\ \A f \in T : disk'[f] = Stages(plan, me.base)[k - 1][f]
    BY <1>0, <1>3, <2>1, UndoLast
  <2>3. left \in Seq(Undos) /\ Len(left) = k - 1 /\ \A i \in 1..(k - 1) : left[i] = me.journal[i]
    BY <1>4, <2>1
  <2> HIDE DEF left, undo
  <2>4. /\ proc'[p].pc = "undoing" /\ proc'[p].plan = plan /\ proc'[p].base = me.base
        /\ proc'[p].journal = left /\ \A q \in Procs \ {p} : proc'[q] = proc[q]
    BY <1>1, <2>1, <2>3, JournalFacts
  <2>5. Progress(p)'
    <3>1. \A i \in 1..(k - 1) : left[i] = UndoOf(plan[i], Stages(plan, me.base)[i - 1])
      BY <1>3, <2>2, <2>3 DEF Progress
    <3>2. Moved(plan[1], me.base) /\ k - 1 <= Len(plan)
      BY <1>3, <1>4, <2>2 DEF Progress
    <3> HIDE DEF k
    <3> QED BY <2>2, <2>3, <2>4, <3>1, <3>2 DEF Progress
  <2>6. WorkInv(p)'
    BY <2>4, <2>5 DEF WorkInv
  <2>7. \A q \in Procs : WorkInv(q)'
    BY <1>0, <1>2, <2>4, <2>6, OthersWork
  <2> QED BY <1>0, <1>2, <2>7 DEF ApplyInv, MergeIntact
<1> QED BY <1>5, <1>6, <1>7

LEMMA ApplyInit == Init => ApplyInv
<1> SUFFICES ASSUME Init PROVE ApplyInv
  OBVIOUS
<1>1. ASSUME NEW p \in Procs PROVE WorkInv(p)
  <2>1. proc[p].pc = "idle"
    BY DEF Init, Idle
  <2> QED BY <2>1 DEF WorkInv
<1> QED BY <1>1, BasicsInit DEF ApplyInv, MergeIntact, Init

LEMMA ApplyStep ==
  ASSUME ApplyInv, [NextStep]_vars, Operating # "anywhere"
  PROVE  ApplyInv'
<1>1. Basics'
  BY BasicsStep DEF ApplyInv
<1>2. CASE UNCHANGED vars
  <2>1. \A p \in Procs : WorkInv(p)'
    BY <1>1, <1>2, WorkFrame DEF vars, ApplyInv
  <2> QED BY <1>1, <1>2, <2>1 DEF vars, ApplyInv, MergeIntact
<1>3. CASE Operator
  BY <1>1, <1>3, OperatorStep
<1>4. ASSUME NEW p \in Procs, Invoke(p) \/ Acquire(p) \/ Busy(p) \/ Release(p) \/ Crash(p)
      PROVE  ApplyInv'
  BY <1>1, <1>4, LockStep
<1>5. ASSUME NEW p \in Procs, Apply(p)
      PROVE  ApplyInv'
  <2>1. CASE MakePlan(p) \/ CheckIndex(p) \/ CheckWorktree(p)
    BY <1>1, <2>1, PlanStep
  <2>2. CASE Rename(p) \/ WriteFile(p)
    BY <1>1, <2>2, OperationStep
  <2>3. CASE gatherCommitOps(p) \/ ReadParent(p)
    BY <1>1, <2>3, GatherStep
  <2>4. CASE UpdateRef(p) \/ Reconcile(p) \/ ReconcileFault(p)
    BY <1>1, <2>4, CommitStep
  <2>5. CASE Fault(p) \/ Undo(p) \/ RolledBack(p)
    BY <1>1, <2>5, RollbackStep
  <2> QED BY <1>5, <2>1, <2>2, <2>3, <2>4, <2>5 DEF Apply
<1> QED BY <1>2, <1>3, <1>4, <1>5 DEF NextStep, Verb

(* Whatever the operator, the faults and the crashes do, the repository    *)
(* stays well-formed and repolock admits one invocation at a time: aiwf.   *)
(* lock is held by exactly the one that is past it.                        *)
THEOREM TypeCorrect == Spec => []TypeOK
<1>1. Basics => TypeOK
  BY DEF Basics, TypeInv, LockInv, TypeOK
<1> QED BY <1>1, BasicsInit, BasicsStep, PTL DEF Spec

(* An operator who keeps off the files of a running verb loses nothing to  *)
(* it: a rollback leaves every file of the plan as verb.Apply found it, a  *)
(* verb that reports success leaves checkout, index and record alike, and  *)
(* no verb moves HEAD from under a merge -- for every number of files,     *)
(* invocations, commits and writes of a plan, with faults and crashes.     *)
THEOREM WorkIsSafe == Operating # "anywhere" => (Spec => []OperatorsWorkIsSafe)
<1> SUFFICES ASSUME Operating # "anywhere" PROVE Spec => []OperatorsWorkIsSafe
  OBVIOUS
<1>1. ApplyInv => OperatorsWorkIsSafe
  BY DEF ApplyInv, WorkInv, AsFound, OperatorsWorkIsSafe, RollbackRestores, Settled, At
<1>2. ApplyInv /\ [NextStep]_vars => ApplyInv'
  BY ApplyStep
<1> QED BY <1>1, <1>2, ApplyInit, PTL DEF Spec
-----------------------------------------------------------------------------
(* verb.Apply implements AtomicVerb.                                       *)

Shows(p) == [state |-> ClientState(p), plan |-> proc[p].plan]

LEMMA ClientChange ==
  ASSUME NEW p \in Procs, \A q \in Procs \ {p} : proc'[q] = proc[q]
  PROVE  /\ Client' = [Client EXCEPT ![p] = Shows(p)']
         /\ Client[p] = Shows(p)
         /\ proc'[p].plan = proc[p].plan =>
              Client' = [Client EXCEPT ![p].state = ClientState(p)']
         /\ Shows(p)' = Shows(p) => Client' = Client
<1>1. Client = [q \in Procs |-> Shows(q)] /\ Client' = [q \in Procs |-> Shows(q)']
  BY DEF Client, Shows
<1>2. \A q \in Procs \ {p} : Shows(q)' = Shows(q)
  BY DEF Shows, ClientState
<1>3. Client' = [Client EXCEPT ![p] = Shows(p)'] /\ Client[p] = Shows(p)
  BY <1>1, <1>2
<1>4. proc'[p].plan = proc[p].plan => Shows(p)' = [Client[p] EXCEPT !.state = ClientState(p)']
  BY <1>3 DEF Shows
<1>5. Shows(p)' = Shows(p) => Client' = Client
  BY <1>1, <1>2
<1> QED BY <1>3, <1>4, <1>5

Underway == {"planned", "staged", "applying", "gathered", "built", "undoing"}

LEMMA ShowsFacts ==
  ASSUME Basics, NEW p \in Procs
  PROVE  /\ proc[p].pc \in {"idle", "waiting", "locked"} => Shows(p) = Abstract!Idle
         /\ proc[p].pc = "finished" /\ proc[p].outcome = "none" => Shows(p) = Abstract!Idle
         /\ proc[p].pc \in Underway => Shows(p).state = "pending"
         /\ proc[p].pc = "landed" => Shows(p).state = "landed"
         /\ proc[p].pc = "finished" /\ proc[p].outcome \in {"committed", "unsynced"} => Shows(p).state = "done"
         /\ proc[p].pc = "finished" /\ proc[p].outcome \in {"refused", "failed"} => Shows(p).state = "failed"
         /\ Shows(p).plan = proc[p].plan
         /\ Shows(p).state = ClientState(p)
BY DEF Basics, PlanInv, Shows, ClientState, Abstract!Idle, Underway

LEMMA InitRefines == Init => Abstract!Init
<1> SUFFICES ASSUME Init PROVE Abstract!Init
  OBVIOUS
<1>1. Basics
  BY BasicsInit
<1>2. \A p \in Procs : Shows(p) = Abstract!Idle
  <2> TAKE p \in Procs
  <2>1. proc[p].pc = "idle"
    BY DEF Init, Idle
  <2> QED BY <1>1, <2>1, ShowsFacts
<1>3. head.tree \in Tree
  BY <1>1 DEF Basics, TypeInv
<1> QED BY <1>2, <1>3 DEF Abstract!Init, Client, Shows

(* An invocation at work shows nothing of it outside.                      *)
LEMMA StaysPending ==
  ASSUME Basics, Basics', NEW p \in Procs, \A q \in Procs \ {p} : proc'[q] = proc[q],
         proc[p].pc \in Underway, proc'[p].pc \in Underway, proc'[p].plan = proc[p].plan,
         head' = head
  PROVE  UNCHANGED Abstract!vars
<1>1. ClientState(p)' = "pending" /\ ClientState(p) = "pending"
  BY DEF ClientState, Underway
<1>2. Shows(p)' = Shows(p)
  BY <1>1 DEF Shows
<1> QED BY <1>2, ClientChange DEF Abstract!vars

(* It gives the caller its answer.                                         *)
LEMMA Answers ==
  ASSUME Basics, Basics', NEW p \in Procs, NEW o \in Outcomes, Finish(p, o), UNCHANGED head
  PROVE  /\ (proc[p].pc \in Underway /\ o \in {"refused", "failed"}) => Abstract!Fail(p)
         /\ (proc[p].pc = "landed" /\ o \in {"committed", "unsynced"}) => Abstract!Succeed(p)
         /\ (proc[p].pc = "locked" /\ o = "none") => UNCHANGED Abstract!vars
<1>1. /\ \A q \in Procs \ {p} : proc'[q] = proc[q]
      /\ proc'[p].pc = "finished" /\ proc'[p].outcome = o /\ proc'[p].plan = proc[p].plan
  BY FinishFacts DEF Basics, TypeInv
<1>2. /\ Client' = [Client EXCEPT ![p].state = ClientState(p)']
      /\ Client[p] = Shows(p)
      /\ Shows(p)' = Shows(p) => Client' = Client
  BY <1>1, ClientChange
<1>3. o \in {"refused", "failed"} => ClientState(p)' = "failed"
  BY <1>1 DEF ClientState
<1>4. o \in {"committed", "unsynced"} => ClientState(p)' = "done"
  BY <1>1 DEF ClientState
<1>5. o = "none" => ClientState(p)' = "idle"
  BY <1>1 DEF ClientState
<1>6. proc[p].pc = "locked" => ClientState(p) = "idle"
  BY DEF ClientState
<1>7. (proc[p].pc = "locked" /\ o = "none") => Shows(p)' = Shows(p)
  BY <1>1, <1>5, <1>6 DEF Shows
<1>8. Shows(p).state = ClientState(p)
  BY DEF Shows
<1> QED BY <1>2, <1>3, <1>4, <1>7, <1>8, ShowsFacts
    DEF Abstract!Fail, Abstract!Succeed, Abstract!Turn, Abstract!vars

LEMMA StepRefines ==
  ASSUME ApplyInv, Basics', [NextStep]_vars
  PROVE  [Abstract!Next]_(Abstract!vars)
<1>0. Basics /\ TypeInv /\ PlanInv /\ (\A p \in Procs : WorkInv(p))
      /\ proc \in [Procs -> Invocations]
  BY DEF ApplyInv, Basics, TypeInv
<1>1. CASE UNCHANGED vars
  BY <1>1 DEF vars, Abstract!vars, Client, ClientState
<1>2. CASE \E f \in Files : Edit(f) \/ Stage(f) \/ Restore(f)
  <2>1. UNCHANGED <<head, proc>>
    BY <1>2 DEF Edit, Stage, Restore
  <2> QED BY <2>1 DEF Abstract!vars, Client, ClientState
<1>3. CASE StartMerge
  <2>1. UNCHANGED <<head, proc>>
    BY <1>3 DEF StartMerge
  <2> QED BY <2>1 DEF Abstract!vars, Client, ClientState
<1>4. CASE GitCommit
  <2>1. UNCHANGED proc /\ head'.tree = index
    BY <1>4 DEF GitCommit
  <2>2. Client' = Client
    BY <2>1 DEF Client, ClientState
  <2>3. Abstract!GitCommit
    BY <1>0, <2>1, <2>2 DEF Abstract!GitCommit, TypeInv
  <2> QED BY <2>3 DEF Abstract!Next
<1>5. ASSUME NEW p \in Procs, Invoke(p) \/ Acquire(p) \/ Busy(p)
      PROVE  UNCHANGED Abstract!vars
  <2>1. /\ UNCHANGED head /\ proc[p].pc \in {"idle", "waiting"}
        /\ Goto(p, "waiting") \/ Goto(p, "locked") \/ Goto(p, "idle")
    BY <1>5 DEF Invoke, Acquire, Busy, At, repo
  <2>2. /\ \A q \in Procs \ {p} : proc'[q] = proc[q]
        /\ proc'[p].pc \in {"idle", "waiting", "locked"} /\ proc'[p].plan = proc[p].plan
    BY <1>0, <2>1, GotoFacts DEF Pcs
  <2>3. ClientState(p)' = "idle" /\ ClientState(p) = "idle"
    BY <2>1, <2>2 DEF ClientState
  <2>4. Shows(p)' = Shows(p)
    BY <2>2, <2>3 DEF Shows
  <2> QED BY <2>1, <2>2, <2>4, ClientChange DEF Abstract!vars
<1>6. ASSUME NEW p \in Procs, Release(p) \/ Crash(p)
      PROVE  Abstract!Leave(p) \/ UNCHANGED Abstract!vars
  <2>1. UNCHANGED head /\ proc' = [proc EXCEPT ![p] = Idle]
    BY <1>6 DEF Release, Crash, repo
  <2>2. /\ \A q \in Procs \ {p} : proc'[q] = proc[q]
        /\ proc'[p].pc = "idle" /\ proc'[p].plan = <<>>
    BY <1>0, <2>1, ResetFacts
  <2>3. Shows(p)' = Abstract!Idle
    BY <2>2 DEF Shows, ClientState, Abstract!Idle
  <2>4. /\ Client' = [Client EXCEPT ![p] = Abstract!Idle]
        /\ Client[p] = Shows(p)
        /\ Shows(p) = Abstract!Idle => Client' = Client
    BY <2>2, <2>3, ClientChange
  <2> QED BY <2>1, <2>4 DEF Abstract!Leave, Abstract!vars
<1>7. ASSUME NEW p \in Procs, MakePlan(p)
      PROVE  Abstract!Request(p) \/ UNCHANGED Abstract!vars
  <2>1. UNCHANGED head /\ proc[p].pc = "locked"
    BY <1>7 DEF MakePlan, At, repo
  <2>2. CASE Finish(p, "none")
    BY <1>0, <2>1, <2>2, Answers DEF Outcomes
  <2>3. CASE ~Finish(p, "none")
    <3>1. PICK plan \in Plans : GetsPlan(p, plan, disk)
      BY <1>7, <2>3 DEF MakePlan, GetsPlan
    <3>2. disk \in Tree
      BY <1>0 DEF TypeInv
    <3>3. /\ \A q \in Procs \ {p} : proc'[q] = proc[q]
          /\ proc'[p].pc = "planned" /\ proc'[p].plan = plan
      BY <1>0, <3>1, <3>2, PlanFacts
    <3>4. Shows(p)' = [state |-> "pending", plan |-> plan]
      BY <3>3 DEF Shows, ClientState
    <3>5. Client' = [Client EXCEPT ![p] = [state |-> "pending", plan |-> plan]]
      BY <3>3, <3>4, ClientChange
    <3>6. Client[p] = Abstract!Idle
      BY <1>0, <2>1, <3>3, ClientChange, ShowsFacts
    <3> QED BY <2>1, <3>5, <3>6 DEF Abstract!Request
  <2> QED BY <2>2, <2>3
<1>8. ASSUME NEW p \in Procs, CheckIndex(p) \/ CheckWorktree(p) \/ RolledBack(p)
      PROVE  Abstract!Fail(p) \/ UNCHANGED Abstract!vars
  <2>1. /\ UNCHANGED head /\ proc[p].pc \in Underway
        /\ \/ Finish(p, "refused") \/ Finish(p, "failed")
           \/ Goto(p, "staged") \/ Goto(p, "applying")
    BY <1>8 DEF CheckIndex, CheckWorktree, RolledBack, At, repo, Underway
  <2>2. CASE Finish(p, "refused") \/ Finish(p, "failed")
    BY <1>0, <2>1, <2>2, Answers DEF Outcomes
  <2>3. CASE Goto(p, "staged") \/ Goto(p, "applying")
    <3>1. /\ \A q \in Procs \ {p} : proc'[q] = proc[q]
          /\ proc'[p].pc \in Underway /\ proc'[p].plan = proc[p].plan
      BY <1>0, <2>3, GotoFacts DEF Pcs, Underway
    <3> QED BY <1>0, <2>1, <3>1, StaysPending
  <2> QED BY <2>1, <2>2, <2>3
<1>9. ASSUME NEW p \in Procs, Rename(p) \/ WriteFile(p) \/ Undo(p)
      PROVE  UNCHANGED Abstract!vars
  <2>1. /\ UNCHANGED head /\ proc[p].pc \in {"applying", "undoing"}
        /\ Goto(p, "undoing") \/ \E j : proc' = [proc EXCEPT ![p].journal = j]
    BY <1>9 DEF Rename, WriteFile, Undo, Pending, At, Rollback
  <2>2. CASE Goto(p, "undoing")
    <3>1. /\ \A q \in Procs \ {p} : proc'[q] = proc[q]
          /\ proc'[p].pc = "undoing" /\ proc'[p].plan = proc[p].plan
      BY <1>0, <2>2, GotoFacts DEF Pcs
    <3> QED BY <1>0, <2>1, <3>1, StaysPending DEF Underway
  <2>3. CASE \E j : proc' = [proc EXCEPT ![p].journal = j]
    <3>1. /\ \A q \in Procs \ {p} : proc'[q] = proc[q]
          /\ proc'[p].pc = proc[p].pc /\ proc'[p].plan = proc[p].plan
      BY <1>0, <2>3 DEF Invocations
    <3> QED BY <1>0, <2>1, <3>1, StaysPending DEF Underway
  <2> QED BY <2>1, <2>2, <2>3
<1>10. ASSUME NEW p \in Procs, gatherCommitOps(p) \/ ReadParent(p) \/ Fault(p)
       PROVE  UNCHANGED Abstract!vars
  <2>1. UNCHANGED head /\ proc[p].pc \in Underway
    BY <1>10 DEF gatherCommitOps, ReadParent, Fault, At, repo, Underway
  <2>2. /\ \A q \in Procs \ {p} : proc'[q] = proc[q]
        /\ proc'[p].pc \in Underway /\ proc'[p].plan = proc[p].plan
    <3>1. CASE Goto(p, "undoing")
      BY <1>0, <3>1, GotoFacts DEF Pcs, Underway
    <3>2. CASE \E r, w : GetsFiles(p, r, w)
      BY <1>0, <3>2 DEF GetsFiles, Invocations, Underway
    <3>3. CASE proc' = [proc EXCEPT ![p].pc = "built", ![p].parent = head]
      BY <1>0, <3>3 DEF Invocations, Underway
    <3> QED BY <1>10, <3>1, <3>2, <3>3 DEF gatherCommitOps, ReadParent, Fault, Rollback, GetsFiles
  <2> QED BY <1>0, <2>1, <2>2, StaysPending
<1>11. ASSUME NEW p \in Procs, UpdateRef(p)
       PROVE  Abstract!Commit(p) \/ UNCHANGED Abstract!vars
  <2>1. proc[p].pc = "built"
    BY <1>11 DEF UpdateRef, At
  <2>2. CASE ~Unmoved(p)
    <3>1. /\ UNCHANGED head /\ proc'[p].pc = "undoing" /\ proc'[p].plan = proc[p].plan
          /\ \A q \in Procs \ {p} : proc'[q] = proc[q]
      BY <1>0, <1>11, <2>2, GotoFacts DEF UpdateRef, Rollback, Pcs
    <3> QED BY <1>0, <2>1, <3>1, StaysPending DEF Underway
  <2>3. CASE Unmoved(p)
    <3> DEFINE new == Overlay(proc[p].parent.tree, proc[p].removes, proc[p].writes)
    <3>1. /\ head'.tree = new /\ proc'[p].pc = "landed" /\ proc'[p].plan = proc[p].plan
          /\ \A q \in Procs \ {p} : proc'[q] = proc[q]
      BY <1>0, <1>11, <2>3, GotoFacts DEF UpdateRef, Pcs
    <3>2. new = Effect(proc[p].plan, head.tree)
      BY <1>0, <2>1, <2>3, CommitExact
    <3> HIDE DEF new
    <3>3. ClientState(p)' = "landed"
      BY <3>1 DEF ClientState
    <3>4. /\ Client' = [Client EXCEPT ![p].state = "landed"]
          /\ Client[p] = Shows(p)
      BY <3>1, <3>3, ClientChange
    <3>5. Shows(p).state = "pending" /\ Shows(p).plan = proc[p].plan
      BY <2>1 DEF Shows, ClientState
    <3> QED BY <3>1, <3>2, <3>4, <3>5 DEF Abstract!Commit, Abstract!Turn
  <2> QED BY <2>2, <2>3
<1>12. ASSUME NEW p \in Procs, Reconcile(p) \/ ReconcileFault(p)
       PROVE  Abstract!Succeed(p)
  <2>1. /\ UNCHANGED head /\ proc[p].pc = "landed"
        /\ Finish(p, "committed") \/ Finish(p, "unsynced")
    BY <1>12 DEF Reconcile, ReconcileFault, At
  <2> QED BY <1>0, <2>1, Answers DEF Outcomes
<1> QED BY <1>1, <1>2, <1>3, <1>4, <1>5, <1>6, <1>7, <1>8, <1>9, <1>10, <1>11, <1>12
    DEF NextStep, Operator, Verb, Apply, Abstract!Next

(* verb.Apply implements AtomicVerb: the record moves by exactly the plan, *)
(* in one step, or not at all, and the caller is told which -- though it   *)
(* is gathered from a checkout that holds other work, behind guards that   *)
(* exempt some files, and built on a HEAD that others move.                *)
THEOREM ApplyIsAtomic == Operating # "anywhere" => (Spec => Atomic)
<1> SUFFICES ASSUME Operating # "anywhere" PROVE Spec => Atomic
  OBVIOUS
<1>1. ApplyInv /\ [NextStep]_vars => ApplyInv' /\ [Abstract!Next]_(Abstract!vars)
  BY ApplyStep, StepRefines DEF ApplyInv
<1> QED BY <1>1, ApplyInit, InitRefines, PTL DEF Spec, Atomic, Abstract!Spec
-----------------------------------------------------------------------------
(* What rides in with a commit.                                            *)

(* A step that moves p from built to landed is its update-ref.             *)
LEMMA OnlyUpdateRefLands ==
  ASSUME Basics, NextStep, NEW p \in Procs, At(p, "built"), proc'[p].pc = "landed"
  PROVE  UpdateRef(p) /\ Unmoved(p)
<1>1. proc \in [Procs -> Invocations] /\ LockInv /\ lock = p
  BY DEF Basics, TypeInv, LockInv, PastLock, At
<1>2. CASE Operator
  <2>1. UNCHANGED proc
    BY <1>2 DEF Operator, Edit, Stage, Restore, GitCommit, StartMerge
  <2> QED BY <2>1 DEF At
<1>3. ASSUME NEW q \in Procs, Invoke(q) \/ Verb(q) \/ Crash(q)
      PROVE  UpdateRef(p) /\ Unmoved(p)
  <2>1. CASE q # p
    <3>1. proc[q].pc \in {"idle", "waiting"}
      BY <1>1, <2>1 DEF LockInv, PastLock
    <3>2. \/ proc' = [proc EXCEPT ![q] = Idle]
          \/ Goto(q, "waiting") \/ Goto(q, "locked") \/ Goto(q, "idle")
      BY <1>3, <3>1 DEF Invoke, Verb, Crash, Acquire, Busy, Release, Apply, MakePlan, CheckIndex,
         CheckWorktree, Rename, WriteFile, gatherCommitOps, ReadParent, UpdateRef, Reconcile,
         ReconcileFault, Fault, Undo, RolledBack, At, Pending
    <3>3. proc'[p] = proc[p]
      BY <1>1, <2>1, <3>2 DEF Goto
    <3> QED BY <3>3 DEF At
  <2>2. CASE q = p
    <3>1. \/ proc' = [proc EXCEPT ![p] = Idle]
          \/ UpdateRef(p) /\ Unmoved(p)
          \/ Goto(p, "undoing")
      BY <1>3, <2>2 DEF Invoke, Verb, Crash, Acquire, Busy, Release, Apply, MakePlan, CheckIndex,
         CheckWorktree, Rename, WriteFile, gatherCommitOps, ReadParent, UpdateRef, Reconcile,
         ReconcileFault, Fault, Undo, RolledBack, At, Pending, Rollback
    <3>2. CASE proc' = [proc EXCEPT ![p] = Idle]
      BY <1>1, <3>2, ResetFacts
    <3>3. CASE Goto(p, "undoing")
      BY <1>1, <3>3, GotoFacts DEF Pcs
    <3> QED BY <3>1, <3>2, <3>3
  <2> QED BY <2>1, <2>2
<1> QED BY <1>2, <1>3 DEF NextStep

LEMMA AdoptsNoField ==
  ASSUME ApplyInv, NEW p \in Procs, UpdateRef(p), Unmoved(p),
         proc[p].plan[1].type = "write", proc[p].plan[1].adopts,
         LET f == proc[p].plan[1].path IN proc[p].base[f] \notin {Absent, head.tree[f]}
  PROVE  LET f == proc[p].plan[1].path IN
           \/ head.tree[f] = Absent
           \/ KeepsFields(f, head.tree[f].fm, head'.tree[f].fm)
<1> DEFINE me == proc[p]
           plan == me.plan
           f == plan[1].path
           h == head.tree
           new == Overlay(me.parent.tree, me.removes, me.writes)
<1>1. /\ Basics /\ TypeInv /\ PlanInv /\ WorkInv(p) /\ me.pc = "built" /\ head'.tree = new
  BY DEF ApplyInv, Basics, UpdateRef, At
<1>2. PlanOK(plan) /\ plan \in Seq(Renames \cup FileWrites) /\ h \in Tree /\ 1 \in 1..Len(plan)
  <2>1. PlanOK(plan) /\ h \in Tree
    BY <1>1, PlanType DEF PlanInv, TypeInv
  <2> QED BY <2>1 DEF PlanOK
<1>3. plan[1] \in FileWrites /\ Len(plan) = 1 /\ f \in Touched(plan) /\ f \in Files
  <2>1. plan[1] \in Renames \cup FileWrites
    BY <1>2
  <2>2. plan[1] \in FileWrites
    BY <2>1, OpFacts
  <2> QED BY <1>2, <2>2, TouchedFacts DEF PlanOK
<1>4. new = Effect(plan, h)
  BY <1>1, CommitExact
<1>5. Stages(plan, h)[1] = Perform(plan[1], h)
  <2>1. /\ Stages(plan, h)[0] = h
        /\ \A i \in 1..Len(plan) : Stages(plan, h)[i] = Perform(plan[i], Stages(plan, h)[i - 1])
    <3> HIDE DEF plan, h
    <3> QED BY <1>2, StagesUnfold
  <2> HIDE DEF plan, h
  <2> QED BY <1>2, <2>1
<1>6. Perform(plan[1], h)[f] = plan[1].content
  <2> HIDE DEF h
  <2> QED BY <1>2, <1>3, PerformAt
<1>7. new[f] = plan[1].content
  BY <1>3, <1>4, <1>5, <1>6 DEF Effect
<1>8. h[f] = Absent \/ KeepsFields(f, h[f].fm, plan[1].content.fm)
  <2>1. Clear(p)
    BY <1>1 DEF WorkInv
  <2>2. me.base[f] # h[f]
    OBVIOUS
  <2>3. PICK i \in 1..Len(plan) :
          h[f] = Absent \/ KeepsFields(f, h[f].fm, plan[i].content.fm)
    BY <1>3, <2>1, <2>2 DEF Clear
  <2>4. i = 1
    BY <1>3
  <2> QED BY <2>3, <2>4
<1> QED BY <1>1, <1>7, <1>8

(* No hand-edited frontmatter rides into the record with an adopted        *)
(* working copy (ADR-0038): whatever happens elsewhere in the repository   *)
(* between the check and the commit, the file's frontmatter in the record  *)
(* stays or becomes what the loader's pipeline makes of it.                *)
THEOREM AdoptedFieldsStay == Operating # "anywhere" => (Spec => NoFieldRidesIn)
<1> SUFFICES ASSUME Operating # "anywhere" PROVE Spec => NoFieldRidesIn
  OBVIOUS
<1> DEFINE FieldsStay ==
             \A p \in Procs :
               (head' # head /\ At(p, "built") /\ proc'[p].pc = "landed"
                  /\ proc[p].plan[1].type = "write" /\ proc[p].plan[1].adopts) =>
                 LET f == proc[p].plan[1].path IN
                 proc[p].base[f] \notin {Absent, head.tree[f]} =>
                   \/ head.tree[f] = Absent
                   \/ KeepsFields(f, head.tree[f].fm, head'.tree[f].fm)
<1>1. ApplyInv /\ [NextStep]_vars => ApplyInv'
  BY ApplyStep
<1>2. ApplyInv /\ [NextStep]_vars => [FieldsStay]_vars
  <2> SUFFICES ASSUME ApplyInv, NextStep,
                      NEW p \in Procs, At(p, "built"), proc'[p].pc = "landed",
                      proc[p].plan[1].type = "write", proc[p].plan[1].adopts,
                      LET f == proc[p].plan[1].path IN proc[p].base[f] \notin {Absent, head.tree[f]}
               PROVE  LET f == proc[p].plan[1].path IN
                        \/ head.tree[f] = Absent
                        \/ KeepsFields(f, head.tree[f].fm, head'.tree[f].fm)
    OBVIOUS
  <2>1. UpdateRef(p) /\ Unmoved(p)
    BY OnlyUpdateRefLands DEF ApplyInv
  <2> QED BY <2>1, AdoptsNoField
<1>3. NoFieldRidesIn <=> [][FieldsStay]_vars
  BY DEF NoFieldRidesIn
<1> QED BY <1>1, <1>2, <1>3, ApplyInit, PTL DEF Spec
-----------------------------------------------------------------------------
(* What a git commit of the operator carries.                              *)

(* The index differs from HEAD where the operator staged something, and    *)
(* where a verb's commit waits to be reconciled; the reconciliation        *)
(* changes nothing but the files of its plan.                              *)
Accounted ==
  /\ \A f \in Files : index[f] # head.tree[f] =>
       f \in staged \/ \E p \in Procs : At(p, "landed") /\ f \in Touched(proc[p].plan)
  /\ \A p \in Procs : At(p, "landed") =>
       \A f \in Files : f \notin Touched(proc[p].plan) =>
         proc[p].writes[f] = Absent /\ f \notin proc[p].removes

(* Steps of an invocation that neither land nor leave a commit behind.     *)
LEMMA AccountedFrame ==
  ASSUME Accounted, UNCHANGED <<index, head, staged>>, NEW p \in Procs,
         \A q \in Procs \ {p} : proc'[q] = proc[q],
         ~At(p, "landed"), proc'[p].pc # "landed"
  PROVE  Accounted'
<1>1. \A q \in Procs : /\ At(q, "landed")' <=> At(q, "landed")
                       /\ At(q, "landed") => proc'[q] = proc[q]
  BY DEF At
<1>2. ASSUME NEW f \in Files, (index[f] # head.tree[f])'
      PROVE  (f \in staged \/ \E q \in Procs : At(q, "landed") /\ f \in Touched(proc[q].plan))'
  BY <1>1, <1>2 DEF Accounted
<1>3. ASSUME NEW q \in Procs, At(q, "landed")'
      PROVE  (\A f \in Files : f \notin Touched(proc[q].plan) =>
                proc[q].writes[f] = Absent /\ f \notin proc[q].removes)'
  BY <1>1, <1>3 DEF Accounted
<1> QED BY <1>2, <1>3 DEF Accounted

LEMMA AccountedStep ==
  ASSUME ApplyInv, Accounted, [NextStep]_vars, Operating # "anywhere", ~IndexFaults, ~Crashes
  PROVE  Accounted'
<1>0. /\ Basics /\ TypeInv /\ LockInv /\ PlanInv /\ (\A p \in Procs : WorkInv(p))
      /\ proc \in [Procs -> Invocations] /\ index \in Tree /\ head.tree \in Tree /\ disk \in Tree
  BY DEF ApplyInv, Basics, TypeInv
<1>1. CASE UNCHANGED vars
  BY <1>1 DEF vars, Accounted, At
<1>2. ASSUME NEW g \in Files, Edit(g) \/ Stage(g) \/ Restore(g)
      PROVE  Accounted'
  <2>1. UNCHANGED <<head, proc>>
    BY <1>2 DEF Edit, Stage, Restore
  <2>2. \/ index' = index /\ staged' = staged
        \/ staged' = staged \cup {g} /\ index' = [index EXCEPT ![g] = disk[g]]
        \/ staged' = staged \ {g} /\ index' = [index EXCEPT ![g] = head.tree[g]]
    BY <1>2 DEF Edit, Stage, Restore
  <2>3. ASSUME NEW f \in Files, index'[f] # head.tree[f]
        PROVE  f \in staged' \/ (index[f] # head.tree[f] /\ (f \in staged => f \in staged'))
    BY <1>0, <2>2, <2>3 DEF Tree
  <2> QED BY <2>1, <2>3 DEF Accounted, At
<1>3. CASE GitCommit
  <2>1. UNCHANGED <<index, proc>> /\ head'.tree = index
    BY <1>3 DEF GitCommit
  <2> QED BY <2>1 DEF Accounted, At
<1>4. CASE StartMerge
  <2>1. UNCHANGED <<index, head, staged, proc>>
    BY <1>4 DEF StartMerge
  <2> QED BY <2>1 DEF Accounted, At
<1>5. ASSUME NEW p \in Procs, Invoke(p) \/ Acquire(p) \/ Busy(p) \/ Release(p)
      PROVE  Accounted'
  <2>1. UNCHANGED <<index, head, staged>> /\ ~At(p, "landed")
    BY <1>5 DEF Invoke, Acquire, Busy, Release, At, repo
  <2>2. /\ \A q \in Procs \ {p} : proc'[q] = proc[q]
        /\ proc'[p].pc # "landed"
    <3>1. CASE proc' = [proc EXCEPT ![p] = Idle]
      BY <1>0, <3>1, ResetFacts
    <3>2. CASE Goto(p, "waiting") \/ Goto(p, "locked") \/ Goto(p, "idle")
      BY <1>0, <3>2, GotoFacts DEF Pcs
    <3> QED BY <1>5, <3>1, <3>2 DEF Invoke, Acquire, Busy, Release
  <2> QED BY <2>1, <2>2, AccountedFrame
<1>6. ASSUME NEW p \in Procs,
             \/ MakePlan(p) \/ CheckIndex(p) \/ CheckWorktree(p) \/ Rename(p) \/ WriteFile(p)
             \/ gatherCommitOps(p) \/ ReadParent(p) \/ Fault(p) \/ Undo(p) \/ RolledBack(p)
      PROVE  Accounted'
  <2>1. UNCHANGED <<index, head, staged>> /\ ~At(p, "landed")
    BY <1>6 DEF MakePlan, CheckIndex, CheckWorktree, Rename, WriteFile, gatherCommitOps, ReadParent,
       Fault, Undo, RolledBack, Pending, At, repo
  <2>2. \/ \E plan \in Plans : GetsPlan(p, plan, disk)
        \/ \E o \in Outcomes : Finish(p, o)
        \/ Goto(p, "staged") \/ Goto(p, "applying") \/ Goto(p, "undoing")
        \/ \E j : proc' = [proc EXCEPT ![p].journal = j]
        \/ \E r, w : GetsFiles(p, r, w)
        \/ proc' = [proc EXCEPT ![p].pc = "built", ![p].parent = head]
    <3>1. CASE MakePlan(p)
      BY <3>1 DEF MakePlan, GetsPlan, Outcomes
    <3>2. CASE CheckIndex(p) \/ CheckWorktree(p) \/ Fault(p) \/ RolledBack(p)
      BY <3>2 DEF CheckIndex, CheckWorktree, Fault, RolledBack, Rollback, Outcomes
    <3>3. CASE Rename(p) \/ WriteFile(p) \/ Undo(p)
      BY <3>3 DEF Rename, WriteFile, Undo, Rollback
    <3>4. CASE gatherCommitOps(p) \/ ReadParent(p)
      BY <3>4 DEF gatherCommitOps, ReadParent, Rollback, GetsFiles
    <3> QED BY <1>6, <3>1, <3>2, <3>3, <3>4
  <2>3. /\ \A q \in Procs \ {p} : proc'[q] = proc[q]
        /\ proc'[p].pc # "landed"
    <3>1. CASE \E plan \in Plans : GetsPlan(p, plan, disk)
      BY <1>0, <3>1, PlanFacts
    <3>2. CASE \E o \in Outcomes : Finish(p, o)
      BY <1>0, <3>2, FinishFacts
    <3>3. CASE Goto(p, "staged") \/ Goto(p, "applying") \/ Goto(p, "undoing")
      BY <1>0, <3>3, GotoFacts DEF Pcs
    <3>4. CASE \E j : proc' = [proc EXCEPT ![p].journal = j]
      BY <1>0, <2>1, <3>4 DEF Invocations, At
    <3>5. CASE \E r, w : GetsFiles(p, r, w)
      BY <1>0, <3>5 DEF GetsFiles, Invocations
    <3>6. CASE proc' = [proc EXCEPT ![p].pc = "built", ![p].parent = head]
      BY <1>0, <3>6 DEF Invocations
    <3> QED BY <2>2, <3>1, <3>2, <3>3, <3>4, <3>5, <3>6
  <2> QED BY <2>1, <2>3, AccountedFrame
<1>7. ASSUME NEW p \in Procs, UpdateRef(p)
      PROVE  Accounted'
  <2>1. UNCHANGED <<index, staged>> /\ proc[p].pc = "built"
    BY <1>7 DEF UpdateRef, At
  <2>2. CASE ~Unmoved(p)
    <3>1. /\ UNCHANGED head /\ proc'[p].pc = "undoing" /\ \A q \in Procs \ {p} : proc'[q] = proc[q]
      BY <1>0, <1>7, <2>2, GotoFacts DEF UpdateRef, Rollback, Pcs
    <3> QED BY <2>1, <3>1, AccountedFrame DEF At
  <2>3. CASE Unmoved(p)
    <3> DEFINE me == proc[p]
               T == Touched(me.plan)
               new == Overlay(me.parent.tree, me.removes, me.writes)
    <3>1. /\ head'.tree = new /\ proc'[p].pc = "landed" /\ proc'[p].plan = me.plan
          /\ proc'[p].removes = me.removes /\ proc'[p].writes = me.writes
          /\ \A q \in Procs \ {p} : proc'[q] = proc[q]
      BY <1>0, <1>7, <2>3, GotoFacts DEF UpdateRef, Pcs
    <3>2. \A f \in Files : f \notin T => me.writes[f] = Absent /\ f \notin me.removes
      BY <1>0, <2>1, <2>3, CommitExact
    <3>3. me.parent.tree = head.tree
      BY <1>0, <2>1, <2>3 DEF WorkInv, Based, Unmoved
    <3>4. \A f \in Files : f \notin T => new[f] = head.tree[f]
      BY <3>2, <3>3 DEF Overlay
    <3>5. \A q \in Procs : At(q, "landed")' => q = p
      BY <1>0, <2>1, <3>1 DEF LockInv, PastLock, At
    <3>6. \A q \in Procs : ~At(q, "landed")
      BY <1>0, <2>1 DEF LockInv, PastLock, At
    <3> HIDE DEF new
    <3>7. ASSUME NEW f \in Files, index'[f] # head'.tree[f]
          PROVE  f \in staged' \/ f \in T
      BY <2>1, <3>1, <3>4, <3>6, <3>7 DEF Accounted
    <3> QED BY <3>1, <3>2, <3>5, <3>7 DEF Accounted, At
  <2> QED BY <2>2, <2>3
<1>8. ASSUME NEW p \in Procs, Reconcile(p)
      PROVE  Accounted'
  <2> DEFINE me == proc[p]
             T == Touched(me.plan)
             new == Overlay(index, me.removes, me.writes)
  <2>1. /\ UNCHANGED <<disk, head, staged>> /\ me.pc = "landed"
        /\ index' = new /\ Finish(p, "committed")
    BY <1>8 DEF Reconcile, Reconciled, At
  <2>2. proc'[p].pc = "finished" /\ \A q \in Procs \ {p} : proc'[q] = proc[q]
    BY <1>0, <2>1, FinishFacts DEF Outcomes
  <2>3. \A q \in Procs : At(q, "landed") => q = p
    BY <1>0, <2>1 DEF LockInv, PastLock, At
  <2>4. \A f \in T : new[f] = head.tree[f]
    BY <1>0, <2>1 DEF WorkInv, Recorded
  <2>5. \A f \in Files : f \notin T => new[f] = index[f]
    <3>1. \A f \in Files : f \notin T => me.writes[f] = Absent /\ f \notin me.removes
      BY <2>1 DEF Accounted, At
    <3> QED BY <3>1 DEF Overlay
  <2> HIDE DEF new
  <2>6. ASSUME NEW f \in Files, index'[f] # head'.tree[f] PROVE f \in staged'
    BY <2>1, <2>3, <2>4, <2>5, <2>6 DEF Accounted
  <2>7. \A q \in Procs : ~At(q, "landed")'
    BY <2>2, <2>3 DEF At
  <2> QED BY <2>6, <2>7 DEF Accounted
<1> QED BY <1>1, <1>2, <1>3, <1>4, <1>5, <1>6, <1>7, <1>8
    DEF NextStep, Operator, Verb, Apply, Crash, ReconcileFault

(* The operator's next git commit carries the operator's staged files and  *)
(* nothing else: no verb leaves in the live index a file that the commit   *)
(* would carry along, or an old one it would revert to -- unless the       *)
(* reconciliation after the verb's commit fails or the process dies before *)
(* it, which is what leaves the index stale.                               *)
THEOREM OwnCommits ==
  (Operating # "anywhere" /\ ~IndexFaults /\ ~Crashes) => (Spec => GitCommitsOwnWork)
<1> SUFFICES ASSUME Operating # "anywhere", ~IndexFaults, ~Crashes
             PROVE  Spec => GitCommitsOwnWork
  OBVIOUS
<1> DEFINE Own == (head' # head /\ proc' = proc) =>
                    \A f \in Files : head'.tree[f] # head.tree[f] => f \in staged
           I == ApplyInv /\ Accounted
<1>1. Init => I
  <2>1. Init => Accounted
    BY DEF Init, Accounted, At, Idle
  <2> QED BY <2>1, ApplyInit
<1>2. I /\ [NextStep]_vars => I'
  BY ApplyStep, AccountedStep
<1>3. I /\ [NextStep]_vars => [Own]_vars
  <2> SUFFICES ASSUME ApplyInv, Accounted, NextStep, head' # head, proc' = proc,
                      NEW f \in Files, head'.tree[f] # head.tree[f]
               PROVE  f \in staged
    OBVIOUS
  <2>1. proc \in [Procs -> Invocations] /\ LockInv /\ PlanInv
    BY DEF ApplyInv, Basics, TypeInv
  <2>2. ASSUME NEW p \in Procs PROVE ~UpdateRef(p)
    <3>1. Goto(p, "landed") /\ At(p, "built") => proc' # proc
      BY <2>1, GotoFacts DEF Pcs, At
    <3> QED BY <3>1 DEF UpdateRef
  <2>3. GitCommit
    BY <2>2 DEF NextStep, Operator, Edit, Stage, Restore, StartMerge, Invoke, Verb, Crash, Acquire,
       Busy, Release, Apply, MakePlan, CheckIndex, CheckWorktree, Rename, WriteFile,
       gatherCommitOps, ReadParent, Reconcile, ReconcileFault, Fault, Undo, RolledBack, repo
  <2>4. head'.tree = index /\ MayCommit
    BY <2>3 DEF GitCommit
  <2>5. \A p \in Procs : ~At(p, "landed")
    <3>1. ASSUME NEW p \in Procs, At(p, "landed") PROVE p \in Planned
      BY <2>1, <3>1 DEF PlanInv, Planned, At
    <3> QED BY <2>4, <3>1 DEF MayCommit, Quiet
  <2> QED BY <2>4, <2>5 DEF Accounted
<1>4. GitCommitsOwnWork <=> [][Own]_vars
  BY DEF GitCommitsOwnWork
<1> QED BY <1>1, <1>2, <1>3, <1>4, PTL DEF Spec
=============================================================================
