---------------------------- MODULE RefreshProofs ----------------------------
(* What is proved of init and update, for any hosts, families, versions,    *)
(* catalogues and scenarios.  The files are Sound at every moment, between  *)
(* any two operations of any run (Trail, Leads): what aiwf made is claimed  *)
(* by a record, what a receipt or a record claims can be replaced where the *)
(* user left it alone, and what the user wrote is there.  Each stage is     *)
(* shown to lead from sound files to sound files (Goes), each step of a run *)
(* and each change of the user's then keeps Inv.  Hooks, which worktrees    *)
(* share, have an invariant of their own (HooksInv).                        *)
EXTENDS Refresh, Inductions, FiniteSetTheorems, SequenceTheorems


-----------------------------------------------------------------------------
(* Sequences of operations.                                                *)

(* SetToSeq lists a finite set.                                            *)
LEMMA ListsTheSet ==
  ASSUME NEW S, IsFiniteSet(S)
  PROVE  /\ DOMAIN SetToSeq(S) = 1..Len(SetToSeq(S)) /\ Len(SetToSeq(S)) \in Nat
         /\ \A i \in 1..Len(SetToSeq(S)) : SetToSeq(S)[i] \in S
         /\ \A x \in S : \E i \in 1..Len(SetToSeq(S)) : SetToSeq(S)[i] = x
         /\ \A i, j \in 1..Len(SetToSeq(S)) : SetToSeq(S)[i] = SetToSeq(S)[j] => i = j
<1> DEFINE n == Cardinality(S)
           q == SetToSeq(S)
<1>1. n \in Nat /\ \E f : f \in Bijection(1..n, S)
  BY FS_CardinalityType DEF ExistsBijection
<1>2. \E f \in [1..n -> S] : IsInjective(f)
  BY <1>1 DEF Bijection, Injection
<1>3. q \in [1..n -> S] /\ IsInjective(q)
  BY <1>2 DEF SetToSeq
<1>4. Len(q) = n /\ DOMAIN q = 1..n
  BY <1>1, <1>3
<1>5. \A i, j \in 1..n : q[i] = q[j] => i = j
  BY <1>3, <1>4 DEF IsInjective
<1>6. Range(q) \subseteq S
  BY <1>3 DEF Range
<1>7. IsFiniteSet(1..n) /\ Cardinality(1..n) = n
  BY <1>1, FS_Interval
<1>8. q \in Bijection(1..n, Range(q))
  <2>1. q \in [1..n -> Range(q)]
    BY <1>3 DEF Range
  <2> QED BY <1>4, <1>3, <2>1 DEF Bijection, Injection, Surjection, IsInjective, Range
<1>9. Cardinality(Range(q)) = n
  BY <1>7, <1>8, FS_Bijection DEF ExistsBijection
<1>10. Range(q) = S
  BY <1>6, <1>9, FS_Subset
<1> QED BY <1>1, <1>3, <1>4, <1>5, <1>10 DEF Range

-----------------------------------------------------------------------------
(* What holds of the files whenever no command is running, and after every *)
(* single operation of one.                                                *)

HookPaths == {Hook(h) : h \in HookNames} \cup {Local(h) : h \in HookNames}

Claimed(d, f) == parseOwnedNames(d, f) \cup DOMAIN parseArtifactReceipts(d, f)

ArtifactSound(d, f, n, tidy) ==
  /\ d[<<f, n>>] \in Mades => n \in Claimed(d, f)
  /\ tidy => \/ n \in parseOwnedNames(d, f) \/ d[<<f, n>>] = None
             \/ n \in DOMAIN parseArtifactReceipts(d, f) /\ d[<<f, n>>] = parseArtifactReceipts(d, f)[n]
ArtifactsSound(d, tidy) == \A f \in Families : \A n \in Names(f) : ArtifactSound(d, f, n, tidy)

PacksClaimed(d) ==
  \A k \in Packs : d[Pack(k)] \notin {None, Mine} =>
    Pack(k) \in DOMAIN recordOf(d, ownedFile) \cup DOMAIN recordOf(d, pendingFile)
Tidy(d) == /\ \A p \in GuidancePaths : replaceable(d, p)
           /\ \A p \in RootFiles : ~At(d, p).link /\ At(d, p).legacy = "none"
Whole(d) == \A k \in Packs :
  d[Pack(k)] = IF d[indexFile] # None /\ k \in d[indexFile][3] THEN <<"pack", d[indexFile][2]>> ELSE None
GuidanceSound(d, c) ==
  /\ PacksClaimed(d)
  /\ c.tidy => Tidy(d)
  /\ c.whole /\ d[pendingFile] = None => Whole(d)

KeptAt(d, k) ==
  \/ \E f \in Families : \E n \in Names(f) : k = <<<<f, n>>, Mine>> /\ d[<<f, n>>] = Mine /\ n \notin Claimed(d, f)
  \/ \E p \in GuidancePaths \ RootFiles : k = <<p, Mine>> /\ d[p] = Mine
  \/ \E p \in RootFiles, r \in {Mine, Damaged} : k = <<p, r>> /\ At(d, p).route = r
  \/ k = <<Settings, "user">> /\ d[Settings] # None /\ "user" \in d[Settings].entries
KeptSound(d, K) == \A k \in K : KeptAt(d, k)

(* c says what the user has done: whether nothing of aiwf's was touched,   *)
(* nothing deleted either, and what is to be kept.                         *)
Sound(d, c) == Typed(d) /\ ArtifactsSound(d, c.tidy) /\ GuidanceSound(d, c) /\ KeptSound(d, c.kept)

(* A pack enters aiwf.yaml once it is installed, or because the user asks; *)
(* those the run has read stay, and whether the post-commit hook is wanted *)
(* is the user's to change.                                                *)
HookWanted(d) == d[Yaml] = None \/ d[Yaml].auto
Adopts(d, e, c) ==
  /\ HookWanted(d) <=> HookWanted(e)
  /\ d[Yaml] # None => e[Yaml] # None /\ (Chosen(e[Yaml]) = Chosen(d[Yaml]) \/ c.read \subseteq Chosen(e[Yaml]))
  /\ \A p \in Packs : d[Yaml] # None /\ p \in Chosen(e[Yaml]) \ (Chosen(d[Yaml]) \cup c.asked) =>
       Pack(p) \in DOMAIN recordOf(e, ownedFile) /\ e[pendingFile] = None /\ e[Pack(p)] # None

Plain(o) ==
  \/ o.op = "put" /\ o.at \in Paths \ HookPaths
  \/ o.op = "move" /\ o.at \in Paths \ HookPaths /\ o.what \in Paths \ HookPaths
  \/ o.op = "stop"
Operations(ops) == ops \in Seq(Range(ops))

(* D goes from d to e by the operations, each leaving sound files.         *)
Trail(D, d, ops, e, c) ==
  /\ D[0] = d /\ D[Len(ops)] = e /\ \A i \in 0..Len(ops) : Sound(D[i], c)
  /\ \A i \in 1..Len(ops) : D[i] = Effect(D[i - 1], ops[i]) /\ Adopts(D[i - 1], D[i], c) /\ Plain(ops[i])
Leads(d, ops, e, c) == \E D : Trail(D, d, ops, e, c)

(* Doing nothing.                                                          *)
LEMMA LeadsNone ==
  ASSUME NEW d, NEW c, Sound(d, c)
  PROVE  Leads(d, <<>>, d, c)
<1> DEFINE D == [i \in {0} |-> d]
<1>1. D[0] = d /\ Len(<<>>) = 0 /\ (\A i \in 0..0 : i = 0) /\ \A i \in 1..0 : FALSE
  OBVIOUS
<1> HIDE DEF D
<1>2. Trail(D, d, <<>>, d, c)
  BY <1>1 DEF Trail
<1> QED BY <1>2 DEF Leads

(* One operation.                                                          *)
LEMMA LeadsOne ==
  ASSUME NEW d, NEW c, NEW o, Sound(d, c), Plain(o), Sound(Effect(d, o), c), Adopts(d, Effect(d, o), c)
  PROVE  Leads(d, <<o>>, Effect(d, o), c)
<1> DEFINE e == Effect(d, o)
           D == [i \in {0, 1} |-> IF i = 0 THEN d ELSE e]
<1>1. D[0] = d /\ D[1] = e
  OBVIOUS
<1>2. Len(<<o>>) = 1 /\ <<o>>[1] = o
  OBVIOUS
<1> HIDE DEF D, e
<1>3. Trail(D, d, <<o>>, e, c)
  <2>1. \A i \in 0..1 : i = 0 \/ i = 1
    OBVIOUS
  <2>2. \A i \in 1..1 : i = 1 /\ i - 1 = 0
    OBVIOUS
  <2> QED BY <1>1, <1>2, <2>1, <2>2 DEF Trail, e
<1> QED BY <1>3 DEF Leads, e

(* One sequence after the other.                                           *)
LEMMA LeadsThen ==
  ASSUME NEW d, NEW e, NEW g, NEW c, NEW s, NEW t, Operations(s), Operations(t), Leads(d, s, e, c), Leads(e, t, g, c)
  PROVE  Leads(d, s \o t, g, c) /\ Operations(s \o t)
<1> DEFINE n == Len(s)
           m == Len(t)
           O == Range(s) \cup Range(t)
<1>1. PICK D : Trail(D, d, s, e, c)
  BY DEF Leads
<1>2. PICK E : Trail(E, e, t, g, c)
  BY DEF Leads
<1>3. s \in Seq(O) /\ t \in Seq(O) /\ n \in Nat /\ m \in Nat
  <2>1. s \in Seq(Range(s)) /\ t \in Seq(Range(t))
    BY DEF Operations
  <2> QED BY <2>1
<1>4. Len(s \o t) = n + m /\ \A i \in 1..(n + m) : (s \o t)[i] = IF i <= n THEN s[i] ELSE t[i - n]
  BY <1>3
<1>5. Operations(s \o t)
  <2>1. s \o t \in Seq(O)
    BY <1>3
  <2> QED BY <2>1, SeqOfRange DEF Operations
<1> DEFINE F == [i \in 0..(n + m) |-> IF i <= n THEN D[i] ELSE E[i - n]]
<1>6. F[0] = d /\ F[n + m] = g
  <2>1. D[0] = d /\ D[n] = e /\ E[0] = e /\ E[m] = g
    BY <1>1, <1>2 DEF Trail
  <2>2. F[0] = D[0]
    BY <1>3
  <2>3. CASE m = 0
    BY <1>3, <2>1, <2>2, <2>3
  <2>4. CASE m # 0
    BY <1>3, <2>1, <2>2, <2>4
  <2> QED BY <2>3, <2>4
<1>7. \A i \in 0..n : F[i] = D[i]
  BY <1>3
<1>8. \A i \in 0..m : F[n + i] = E[i]
  <2> SUFFICES ASSUME NEW i \in 0..m PROVE F[n + i] = E[i]
    OBVIOUS
  <2>1. CASE i = 0
    BY <1>1, <1>2, <1>3, <2>1 DEF Trail
  <2>2. CASE i # 0
    BY <1>3, <2>2
  <2> QED BY <2>1, <2>2
<1> HIDE DEF F
<1>9. ASSUME NEW i \in 0..(n + m) PROVE Sound(F[i], c)
  <2>1. CASE i <= n
    BY <1>1, <1>3, <1>7, <2>1 DEF Trail
  <2>2. CASE i > n
    <3>1. i - n \in 0..m /\ i = n + (i - n)
      BY <1>3, <2>2
    <3> QED BY <1>2, <1>8, <3>1 DEF Trail
  <2> QED BY <1>3, <2>1, <2>2
<1>10. ASSUME NEW i \in 1..(n + m)
       PROVE  F[i] = Effect(F[i - 1], (s \o t)[i]) /\ Adopts(F[i - 1], F[i], c) /\ Plain((s \o t)[i])
  <2>1. CASE i <= n
    <3>1. i \in 1..n /\ i - 1 \in 0..n /\ i \in 0..n /\ (s \o t)[i] = s[i]
      BY <1>3, <1>4, <2>1
    <3> QED BY <1>1, <1>7, <3>1 DEF Trail
  <2>2. CASE i > n
    <3> DEFINE j == i - n
    <3>1. j \in 1..m /\ j - 1 \in 0..m /\ j \in 0..m /\ i = n + j /\ i - 1 = n + (j - 1) /\ (s \o t)[i] = t[j]
      BY <1>3, <1>4, <2>2
    <3> HIDE DEF j
    <3> QED BY <1>2, <1>8, <3>1 DEF Trail
  <2> QED BY <1>3, <2>1, <2>2
<1>11. Trail(F, d, s \o t, g, c)
  BY <1>4, <1>6, <1>9, <1>10 DEF Trail
<1> QED BY <1>5, <1>11 DEF Leads

(* The first operation of a trail, and the rest.                           *)
LEMMA LeadsTail ==
  ASSUME NEW d, NEW e, NEW c, NEW s, Operations(s), s # <<>>, Leads(d, s, e, c)
  PROVE  /\ Plain(Head(s)) /\ Sound(Effect(d, Head(s)), c) /\ Adopts(d, Effect(d, Head(s)), c)
         /\ Leads(Effect(d, Head(s)), Tail(s), e, c) /\ Operations(Tail(s))
<1> DEFINE n == Len(s)
<1>1. PICK D : Trail(D, d, s, e, c)
  BY DEF Leads
<1>2. s \in Seq(Range(s)) /\ n \in Nat /\ n >= 1 /\ Head(s) = s[1]
  <2>1. s \in Seq(Range(s))
    BY DEF Operations
  <2> QED BY <2>1
<1>3. Len(Tail(s)) = n - 1 /\ \A i \in 1..(n - 1) : Tail(s)[i] = s[i + 1]
  BY <1>2
<1>4. Operations(Tail(s))
  <2>1. Tail(s) \in Seq(Range(s))
    BY <1>2
  <2> QED BY <2>1, SeqOfRange DEF Operations
<1> DEFINE F == [i \in 0..(n - 1) |-> D[i + 1]]
<1>5. D[0] = d /\ D[1] = Effect(d, Head(s)) /\ Plain(Head(s)) /\ Adopts(d, D[1], c) /\ Sound(D[1], c)
  <2>1. 1 \in 1..n /\ 1 \in 0..n /\ 1 - 1 = 0
    BY <1>2
  <2> QED BY <1>1, <1>2, <2>1 DEF Trail
<1>6. Trail(F, D[1], Tail(s), e, c)
  <2>1. F[0] = D[1] /\ F[n - 1] = e
    BY <1>1, <1>2 DEF Trail
  <2>2. ASSUME NEW i \in 0..(n - 1) PROVE Sound(F[i], c)
    <3>1. i + 1 \in 0..n
      BY <1>2
    <3> QED BY <1>1, <3>1 DEF Trail
  <2>3. ASSUME NEW i \in 1..(n - 1)
        PROVE  F[i] = Effect(F[i - 1], Tail(s)[i]) /\ Adopts(F[i - 1], F[i], c) /\ Plain(Tail(s)[i])
    <3>1. i + 1 \in 1..n /\ (i + 1) - 1 = i /\ i - 1 \in 0..(n - 1) /\ (i - 1) + 1 = i /\ i \in 0..(n - 1)
      BY <1>2
    <3>2. F[i] = D[i + 1] /\ F[i - 1] = D[i] /\ Tail(s)[i] = s[i + 1]
      BY <1>3, <3>1
    <3> HIDE DEF F
    <3> QED BY <1>1, <3>1, <3>2 DEF Trail
  <2> HIDE DEF F
  <2> QED BY <1>3, <2>1, <2>2, <2>3 DEF Trail
<1> QED BY <1>4, <1>5, <1>6 DEF Leads

(* d with the contents c at the paths T.                                   *)
Write(d, c, T) == [p \in Paths |-> IF p \in T THEN c[p] ELSE d[p]]

(* A sequence whose operations write the same contents at more and more paths. *)
LEMMA LeadsWrites ==
  ASSUME NEW d, NEW c, NEW k, NEW ops, Operations(ops), NEW T, d = [p \in Paths |-> d[p]], T[0] = {},
         \A i \in 0..Len(ops) : Sound(Write(d, c, T[i]), k),
         \A i \in 1..Len(ops) : /\ Effect(Write(d, c, T[i - 1]), ops[i]) = Write(d, c, T[i])
                                /\ Adopts(Write(d, c, T[i - 1]), Write(d, c, T[i]), k) /\ Plain(ops[i])
  PROVE  Leads(d, ops, Write(d, c, T[Len(ops)]), k)
<1> DEFINE n == Len(ops)
           D == [i \in 0..n |-> Write(d, c, T[i])]
<1>1. n \in Nat
  BY DEF Operations
<1>2. Write(d, c, {}) = d
  BY DEF Write
<1>3. D[0] = d /\ (\A i \in 0..n : D[i] = Write(d, c, T[i])) /\ \A i \in 1..n : i \in 0..n /\ i - 1 \in 0..n
  <2>1. 0 \in 0..n /\ \A i \in 1..n : i \in 0..n /\ i - 1 \in 0..n
    BY <1>1
  <2>2. \A i \in 0..n : D[i] = Write(d, c, T[i])
    OBVIOUS
  <2> HIDE DEF D
  <2> QED BY <1>2, <2>1, <2>2
<1>4. n \in 0..n
  BY <1>1
<1> HIDE DEF D
<1>5. Trail(D, d, ops, D[n], k)
  BY <1>3, <1>4 DEF Trail
<1> QED BY <1>3, <1>4, <1>5 DEF Leads

(* Files that are replaced or removed one by one, aiwf.yaml not among them. *)
LEMMA LeadsPuts ==
  ASSUME NEW d, NEW c, NEW k, NEW ops, Operations(ops), NEW b, d = [p \in Paths |-> d[p]],
         NEW S, S \subseteq Paths \ (HookPaths \cup {Yaml}), \A i \in 1..Len(ops) : b[i] \in S /\ ops[i] = put(b[i], c[b[i]]),
         \A p \in S : \E i \in 1..Len(ops) : p = b[i],
         \A T \in SUBSET S : Sound(Write(d, c, T), k)
  PROVE  Leads(d, ops, Write(d, c, S), k)
<1> DEFINE n == Len(ops)
           T == [i \in 0..n |-> {b[j] : j \in 1..i}]
<1>1. n \in Nat
  BY DEF Operations
<1>2. T[0] = {} /\ \A i \in 1..n : T[i] = T[i - 1] \cup {b[i]}
  <2>1. T[0] = {}
    BY <1>1
  <2>2. ASSUME NEW i \in 1..n PROVE T[i] = T[i - 1] \cup {b[i]}
    <3>1. 1..i = (1..(i - 1)) \cup {i} /\ i \in 0..n /\ i - 1 \in 0..n
      BY <1>1
    <3> QED BY <3>1
  <2> QED BY <2>1, <2>2
<1>3. \A i \in 0..n : T[i] \in SUBSET S
  <2> SUFFICES ASSUME NEW i \in 0..n, NEW j \in 1..i PROVE b[j] \in S
    OBVIOUS
  <2> QED BY <1>1
<1>4. T[n] = S
  <2>1. T[n] = {b[j] : j \in 1..n}
    BY <1>1
  <2> HIDE DEF T
  <2> QED BY <2>1
<1> HIDE DEF T
<1>5. ASSUME NEW i \in 1..n
      PROVE  /\ Effect(Write(d, c, T[i - 1]), ops[i]) = Write(d, c, T[i])
             /\ Adopts(Write(d, c, T[i - 1]), Write(d, c, T[i]), k) /\ Plain(ops[i])
  <2>1. ops[i] = put(b[i], c[b[i]]) /\ b[i] \in S /\ b[i] \in Paths \ HookPaths
    OBVIOUS
  <2>2. Plain(ops[i])
    BY <2>1 DEF Plain, put
  <2>3. Effect(Write(d, c, T[i - 1]), ops[i]) = [Write(d, c, T[i - 1]) EXCEPT ![b[i]] = c[b[i]]]
    BY <2>1 DEF Effect, put
  <2>4. @ = Write(d, c, T[i])
    <3>1. b[i] \in Paths /\ \A p : p \in T[i] <=> p \in T[i - 1] \/ p = b[i]
      BY <1>2, <2>1
    <3> QED BY <3>1 DEF Write
  <2>5. Write(d, c, T[i - 1])[Yaml] = Write(d, c, T[i])[Yaml]
    <3>1. Yaml \notin T[i] /\ Yaml \notin T[i - 1] /\ Yaml \in Paths
      <4>1. i \in 0..n /\ i - 1 \in 0..n
        BY <1>1
      <4> QED BY <1>3, <4>1 DEF Paths
    <3> QED BY <3>1 DEF Write
  <2>6. Adopts(Write(d, c, T[i - 1]), Write(d, c, T[i]), k)
    BY <2>5 DEF Adopts, HookWanted
  <2> QED BY <2>2, <2>3, <2>4, <2>6
<1>6. \A i \in 0..n : Sound(Write(d, c, T[i]), k)
  BY <1>3
<1> QED BY <1>2, <1>4, <1>5, <1>6, LeadsWrites

(* The same for a sequence made by Over: a file for every member of a set. *)
Image(at, N) == {at[x] : x \in N}
Lists(ops, N, at, c) ==
  /\ DOMAIN ops = DOMAIN SetToSeq(N) /\ ops = [i \in DOMAIN ops |-> ops[i]]
  /\ \A i \in DOMAIN SetToSeq(N) : ops[i] = put(at[SetToSeq(N)[i]], c[at[SetToSeq(N)[i]]])

(* A listed sequence of writes leads where all of them are done.           *)
LEMMA LeadsOver ==
  ASSUME NEW d, NEW c, NEW k, NEW N, IsFiniteSet(N), NEW at, d = [p \in Paths |-> d[p]],
         NEW ops, Lists(ops, N, at, c),
         Image(at, N) \subseteq Paths \ (HookPaths \cup {Yaml}), \A T \in SUBSET Image(at, N) : Sound(Write(d, c, T), k)
  PROVE  Leads(d, ops, Write(d, c, Image(at, N)), k) /\ Operations(ops)
<1> USE DEF Lists, Image
<1> DEFINE S == {at[x] : x \in N}
<1> DEFINE q == SetToSeq(N)
           b == [i \in DOMAIN q |-> at[q[i]]]
<1>1. /\ DOMAIN q = 1..Len(q) /\ Len(q) \in Nat /\ \A i \in 1..Len(q) : q[i] \in N
      /\ \A x \in N : \E i \in 1..Len(q) : q[i] = x
  BY ListsTheSet
<1> HIDE DEF q
<1>2. ops \in Seq(Range(ops)) /\ Len(ops) = Len(q)
  <2>1. DOMAIN ops = 1..Len(q)
    BY <1>1 DEF q
  <2>2. ops \in [1..Len(q) -> Range(ops)]
    BY <2>1 DEF Range
  <2> QED BY <1>1, <2>1, <2>2
<1>3. \A i \in 1..Len(ops) : b[i] \in S /\ ops[i] = put(b[i], c[b[i]])
  BY <1>1, <1>2 DEF q
<1>4. \A p \in S : \E i \in 1..Len(ops) : p = b[i]
  BY <1>1, <1>2
<1> HIDE DEF b
<1>5. Operations(ops)
  BY <1>2 DEF Operations
<1>6. Leads(d, ops, Write(d, c, S), k)
  BY <1>3, <1>4, <1>5, LeadsPuts
<1> QED BY <1>5, <1>6

-----------------------------------------------------------------------------
(* Paths, and what fits there.                                             *)

(* No family has the name of another directory, and no artifact that of a  *)
(* record of its family.                                                   *)
LEMMA Reserved ==
  /\ \A f \in Families : f \notin {"root", "claude", "hooks", "local", "packs", "guidance", "temp"}
  /\ \A f \in Families : \A n \in Names(f) : n # ".aiwf-owned" /\ n # ".aiwf-pending"
<1>1. \A f \in Families : f \notin {"root", "claude", "hooks", "local", "packs", "guidance", "temp"}
  BY ManagedAssumption
<1>2. \A f \in Families : \A n \in Names(f) : n # ".aiwf-owned" /\ n # ".aiwf-pending"
  BY ManagedAssumption DEF Names
<1> QED BY <1>1, <1>2

FamilyPaths(f) == {<<f, n>> : n \in Names(f)} \cup {Owned(f), Pending(f)}

(* The files of a family are its own.                                      *)
LEMMA FamilyPathsArePaths ==
  ASSUME NEW f \in Families
  PROVE  /\ FamilyPaths(f) \subseteq Paths \ (HookPaths \cup Temps \cup GuidancePaths
              \cup {ownedFile, pendingFile, Yaml, Fragment, Example, Gitignore, Script, Settings, Project, Cli})
         /\ \A g \in Families \ {f} : FamilyPaths(g) \cap FamilyPaths(f) = {}
         /\ \A n \in Names(f) : <<f, n>> \in Artifacts /\ <<f, n>> # Owned(f) /\ <<f, n>> # Pending(f)
         /\ Owned(f) # Pending(f)
<1>1. \A n \in Names(f) : <<f, n>> \in Artifacts /\ <<f, n>> # Owned(f) /\ <<f, n>> # Pending(f)
  <2> SUFFICES ASSUME NEW n \in Names(f) PROVE <<f, n>> \in Artifacts /\ n # ".aiwf-owned" /\ n # ".aiwf-pending"
    BY DEF Owned, Pending
  <2> QED BY Reserved DEF Artifacts
<1>2. FamilyPaths(f) \subseteq Paths
  BY <1>1 DEF FamilyPaths, Paths
<1>3. ASSUME NEW p \in FamilyPaths(f) PROVE \E n : p = <<f, n>>
  BY DEF FamilyPaths, Owned, Pending
<1>4. \A p \in FamilyPaths(f) : p \notin HookPaths \cup GuidancePaths \cup {ownedFile, pendingFile, Yaml, Fragment,
        Example, Gitignore, Script, Settings, Project, Cli}
  <2>1. \A p \in RootFiles : \E x : p = <<"root", x>>
    BY DEF RootFiles, FileOf
  <2>2. \A p \in HookPaths : \E x : p = <<"hooks", x>> \/ p = <<"local", x>>
    BY DEF HookPaths, Hook, Local
  <2>3. \A p \in GuidancePaths \ RootFiles : \E x : p = <<"packs", x>> \/ p = <<"guidance", x>>
    BY DEF GuidancePaths, Pack, indexFile
  <2>4. \A p \in {ownedFile, pendingFile, Yaml, Fragment, Example, Gitignore, Script, Settings, Project, Cli} :
          \E x : p = <<"guidance", x>> \/ p = <<"root", x>> \/ p = <<"claude", x>>
    BY DEF ownedFile, pendingFile, Yaml, Fragment, Example, Gitignore, Script, Settings, Project, Cli
  <2>5. ASSUME NEW p \in FamilyPaths(f) PROVE \A x : p \notin {<<y, x>> : y \in {"root", "claude", "hooks", "local", "packs", "guidance"}}
    BY <1>3, Reserved
  <2> QED BY <2>1, <2>2, <2>3, <2>4, <2>5
<1>5. \A p \in FamilyPaths(f) : p \notin Temps
  BY <1>3 DEF Temps, Temp
<1>6. \A g \in Families \ {f} : FamilyPaths(g) \cap FamilyPaths(f) = {}
  BY DEF FamilyPaths, Owned, Pending
<1>7. Owned(f) # Pending(f)
  BY DEF Owned, Pending
<1> QED BY <1>1, <1>2, <1>4, <1>5, <1>6, <1>7

(* What fits at a family's paths, spelt out.                               *)
LEMMA FitsFamily ==
  ASSUME NEW f \in Families, NEW c
  PROVE  /\ \A n \in Names(f) : c \in {None, Mine, Damaged} \cup Mades <=> Fits(<<f, n>>, c)
         /\ c \in {None} \cup (SUBSET Names(f)) <=> Fits(Owned(f), c)
         /\ c = None \/ (\E N \in SUBSET Names(f) : c \in [N -> Mades]) <=> Fits(Pending(f), c)
<1>1. ASSUME NEW n \in Names(f) PROVE c \in {None, Mine, Damaged} \cup Mades <=> Fits(<<f, n>>, c)
  <2>1. <<f, n>> \in Artifacts /\ \A g \in Families : <<f, n>> # Owned(g) /\ <<f, n>> # Pending(g)
    BY FamilyPathsArePaths, Reserved DEF Owned, Pending
  <2>2. <<f, n>> \notin {Pack(k) : k \in Packs} \cup RootFiles
           \cup {indexFile, ownedFile, pendingFile, Yaml, Fragment, Example, Gitignore, Script, Settings}
    BY FamilyPathsArePaths DEF FamilyPaths, GuidancePaths
  <2> QED BY <2>1, <2>2 DEF Fits
<1>2. c \in {None} \cup (SUBSET Names(f)) <=> Fits(Owned(f), c)
  <2>1. Owned(f) \notin Artifacts /\ (\A g \in Families : Owned(f) # Pending(g)) /\ \A g \in Families : Owned(f) = Owned(g) => f = g
    BY Reserved DEF Artifacts, Owned, Pending, Names
  <2>2. Owned(f) \notin {Pack(k) : k \in Packs} \cup RootFiles
           \cup {indexFile, ownedFile, pendingFile, Yaml, Fragment, Example, Gitignore, Script, Settings}
    BY FamilyPathsArePaths DEF FamilyPaths, GuidancePaths
  <2> QED BY <2>1, <2>2 DEF Fits
<1>3. c = None \/ (\E N \in SUBSET Names(f) : c \in [N -> Mades]) <=> Fits(Pending(f), c)
  <2>1. Pending(f) \notin Artifacts /\ (\A g \in Families : Pending(f) # Owned(g)) /\ \A g \in Families : Pending(f) = Pending(g) => f = g
    BY Reserved DEF Artifacts, Owned, Pending, Names
  <2>2. Pending(f) \notin {Pack(k) : k \in Packs} \cup RootFiles
           \cup {indexFile, ownedFile, pendingFile, Yaml, Fragment, Example, Gitignore, Script, Settings}
    BY FamilyPathsArePaths DEF FamilyPaths, GuidancePaths
  <2> QED BY <2>1, <2>2 DEF Fits
<1> QED BY <1>1, <1>2, <1>3

(* What a family's paths hold.                                             *)
LEMMA FamilyTyped ==
  ASSUME NEW d, Typed(d), NEW f \in Families
  PROVE  /\ \A n \in Names(f) : d[<<f, n>>] \in {None, Mine, Damaged} \cup Mades
         /\ parseOwnedNames(d, f) \subseteq Names(f)
         /\ parseArtifactReceipts(d, f) \in [DOMAIN parseArtifactReceipts(d, f) -> Mades]
         /\ DOMAIN parseArtifactReceipts(d, f) \subseteq Names(f)
<1>1. \A p \in FamilyPaths(f) : Fits(p, d[p])
  BY FamilyPathsArePaths DEF Typed
<1>2. \A n \in Names(f) : d[<<f, n>>] \in {None, Mine, Damaged} \cup Mades
  BY <1>1, FitsFamily DEF FamilyPaths
<1>3. d[Owned(f)] \in {None} \cup (SUBSET Names(f))
  BY <1>1, FitsFamily DEF FamilyPaths
<1>4. d[Pending(f)] = None \/ \E N \in SUBSET Names(f) : d[Pending(f)] \in [N -> Mades]
  BY <1>1, FitsFamily DEF FamilyPaths
<1>5. parseArtifactReceipts(d, f) \in [DOMAIN parseArtifactReceipts(d, f) -> Mades] /\ DOMAIN parseArtifactReceipts(d, f) \subseteq Names(f)
  <2>1. CASE d[Pending(f)] = None
    <3>1. parseArtifactReceipts(d, f) = <<>>
      BY <2>1 DEF parseArtifactReceipts
    <3> QED BY <3>1
  <2>2. CASE d[Pending(f)] # None
    BY <1>4, <2>2 DEF parseArtifactReceipts
  <2> QED BY <2>1, <2>2
<1> QED BY <1>2, <1>3, <1>5 DEF parseOwnedNames

(* The other paths are told apart by their directories.                    *)
Singles == {Fragment, Example, Gitignore, Script, Yaml, Settings, Project, Cli}

(* The remaining paths differ from each other and from those of families.  *)
LEMMA OtherPaths ==
  /\ HookPaths \subseteq Paths /\ Temps \subseteq Paths /\ GuidancePaths \subseteq Paths /\ Singles \subseteq Paths
  /\ {ownedFile, pendingFile} \subseteq Paths /\ ownedFile # pendingFile /\ {ownedFile, pendingFile} \cap GuidancePaths = {}
  /\ (HookPaths \cup Temps) \cap (GuidancePaths \cup {ownedFile, pendingFile} \cup Singles) = {}
  /\ Singles \cap (GuidancePaths \cup {ownedFile, pendingFile}) = {} /\ HookPaths \cap Temps = {}
  /\ RootFiles \subseteq GuidancePaths /\ indexFile \in GuidancePaths \ RootFiles
  /\ \A k \in Packs : Pack(k) \in GuidancePaths \ (RootFiles \cup {indexFile})
<1>1. HookPaths \subseteq Paths /\ Temps \subseteq Paths /\ GuidancePaths \subseteq Paths /\ {ownedFile, pendingFile} \subseteq Paths
  BY DEF Paths, HookPaths
<1>2. Singles \subseteq Paths
  BY DEF Paths, Singles
<1>3. RootFiles = {<<"root", "AGENTS.md">>, <<"root", "CLAUDE.md">>}
  BY DEF RootFiles, FileOf, Hosts
<1>4. \A p \in Singles : p \notin {ownedFile, pendingFile, indexFile} \cup RootFiles \cup HookPaths
  <2>1. ASSUME NEW p \in Singles
        PROVE  \E x : p = <<"claude", x>> \/ (p = <<"root", x>> /\ x \notin {"AGENTS.md", "CLAUDE.md"})
    <3>1. p \in {Fragment, Script, Settings} \/ p \in {Example, Gitignore, Yaml, Project, Cli}
      BY DEF Singles
    <3>2. CASE p \in {Fragment, Script, Settings}
      BY <3>2 DEF Fragment, Script, Settings
    <3>3. CASE p \in {Example, Gitignore, Yaml, Project, Cli}
      <4>1. \A y \in {"aiwf.yaml", "aiwf.example.yaml", ".gitignore", "project files", "PATH"} : y \notin {"AGENTS.md", "CLAUDE.md"}
        OBVIOUS
      <4>2. \E y \in {"aiwf.yaml", "aiwf.example.yaml", ".gitignore", "project files", "PATH"} : p = <<"root", y>>
        BY <3>3 DEF Example, Gitignore, Yaml, Project, Cli
      <4> QED BY <4>1, <4>2
    <3> QED BY <3>1, <3>2, <3>3
  <2>2. \A p \in Singles : p \notin {ownedFile, pendingFile, indexFile}
    BY <2>1 DEF ownedFile, pendingFile, indexFile
  <2>3. \A p \in Singles : p \notin RootFiles
    BY <1>3, <2>1
  <2>4. \A p \in Singles : p \notin HookPaths
    BY <2>1 DEF HookPaths, Hook, Local
  <2> QED BY <2>2, <2>3, <2>4
<1>5. \A k \in Packs : Pack(k) \notin Singles \cup {ownedFile, pendingFile, indexFile} \cup RootFiles \cup HookPaths
  BY <1>3 DEF Singles, HookPaths, Hook, Local, Fragment, Example, Gitignore, Script, Yaml, Settings, Project, Cli, ownedFile, pendingFile, indexFile, Pack
<1>6. ownedFile # pendingFile /\ {ownedFile, pendingFile, indexFile} \cap (RootFiles \cup HookPaths) = {} /\ indexFile \notin {ownedFile, pendingFile}
  BY <1>3 DEF HookPaths, Hook, Local, ownedFile, pendingFile, indexFile
<1>7. RootFiles \cap HookPaths = {}
  BY <1>3 DEF HookPaths, Hook, Local
<1>8. ASSUME NEW t \in Temps PROVE t \notin HookPaths \cup GuidancePaths \cup {ownedFile, pendingFile} \cup Singles
  <2>1. PICK p \in GuidancePaths, g \in {1, 2} : t = <<"temp", p, g>>
    BY DEF Temps, Temp
  <2>2. t \notin HookPaths \cup RootFiles \cup {indexFile, ownedFile, pendingFile} \cup Singles
    BY <1>3, <2>1 DEF HookPaths, Hook, Local, Singles, Fragment, Example, Gitignore, Script, Yaml, Settings, Project, Cli, ownedFile, pendingFile, indexFile
  <2>3. \A k \in Packs : t # Pack(k)
    BY <2>1 DEF Pack
  <2> QED BY <2>2, <2>3 DEF GuidancePaths
<1>9. RootFiles \subseteq GuidancePaths /\ indexFile \in GuidancePaths \ RootFiles
  BY <1>6 DEF GuidancePaths
<1>10. \A k \in Packs : Pack(k) \in GuidancePaths \ (RootFiles \cup {indexFile})
  BY <1>5 DEF GuidancePaths
<1>11. HookPaths \cap (GuidancePaths \cup {ownedFile, pendingFile} \cup Singles) = {}
  BY <1>4, <1>5, <1>6, <1>7 DEF GuidancePaths
<1>12. Singles \cap (GuidancePaths \cup {ownedFile, pendingFile}) = {} /\ {ownedFile, pendingFile} \cap GuidancePaths = {}
  BY <1>4, <1>5, <1>6 DEF GuidancePaths
<1>13. (HookPaths \cup Temps) \cap (GuidancePaths \cup {ownedFile, pendingFile} \cup Singles) = {} /\ HookPaths \cap Temps = {}
  BY <1>8, <1>11
<1> QED BY <1>1, <1>2, <1>6, <1>9, <1>10, <1>12, <1>13

-----------------------------------------------------------------------------
(* What is sound depends on the family's files, the guidance's files, and  *)
(* those of the user.                                                      *)

(* What holds of a family depends on its own paths only.                   *)
LEMMA FamilyFrame ==
  ASSUME NEW d, NEW e, NEW f \in Families, \A p \in FamilyPaths(f) : e[p] = d[p]
  PROVE  /\ Claimed(e, f) = Claimed(d, f) /\ parseOwnedNames(e, f) = parseOwnedNames(d, f)
         /\ parseArtifactReceipts(e, f) = parseArtifactReceipts(d, f)
         /\ \A n \in Names(f) : e[<<f, n>>] = d[<<f, n>>]
         /\ \A n \in Names(f) : \A tidy : ArtifactSound(d, f, n, tidy) => ArtifactSound(e, f, n, tidy)
<1>1. e[Owned(f)] = d[Owned(f)] /\ e[Pending(f)] = d[Pending(f)] /\ \A n \in Names(f) : e[<<f, n>>] = d[<<f, n>>]
  BY DEF FamilyPaths
<1> QED BY <1>1 DEF Claimed, parseOwnedNames, parseArtifactReceipts, ArtifactSound

(* What holds of the guidance depends on its own paths only.               *)
LEMMA GuidanceFrame ==
  ASSUME NEW d, NEW e, NEW c, \A p \in GuidancePaths \cup {ownedFile, pendingFile} : e[p] = d[p]
  PROVE  /\ GuidanceSound(d, c) => GuidanceSound(e, c)
         /\ recordOf(e, ownedFile) = recordOf(d, ownedFile) /\ recordOf(e, pendingFile) = recordOf(d, pendingFile)
         /\ \A p \in RootFiles : At(e, p) = At(d, p)
         /\ \A p \in GuidancePaths : ownedBytes(e, p) = ownedBytes(d, p) /\ (replaceable(d, p) <=> replaceable(e, p))
<1>1. recordOf(e, ownedFile) = recordOf(d, ownedFile) /\ recordOf(e, pendingFile) = recordOf(d, pendingFile)
  BY DEF recordOf
<1>2. \A p \in RootFiles : At(e, p) = At(d, p)
  BY OtherPaths DEF At
<1>3. \A p \in GuidancePaths : ownedBytes(e, p) = ownedBytes(d, p)
  BY <1>2 DEF ownedBytes
<1>4. \A p \in GuidancePaths : replaceable(d, p) <=> replaceable(e, p)
  BY <1>1, <1>3 DEF replaceable
<1>5. e[indexFile] = d[indexFile] /\ (\A k \in Packs : e[Pack(k)] = d[Pack(k)]) /\ e[pendingFile] = d[pendingFile]
  BY OtherPaths
<1>6. (PacksClaimed(d) => PacksClaimed(e)) /\ (Whole(d) => Whole(e)) /\ (Tidy(d) => Tidy(e))
  BY <1>1, <1>2, <1>4, <1>5 DEF PacksClaimed, Whole, Tidy
<1> QED BY <1>1, <1>2, <1>3, <1>4, <1>5, <1>6 DEF GuidanceSound

(* Writing elsewhere.                                                      *)
LEMMA SoundElsewhere ==
  ASSUME NEW d, NEW e, NEW c, Sound(d, c), e = [p \in Paths |-> e[p]],
         \A p \in Paths : e[p] # d[p] => p \in HookPaths \cup Temps \cup Singles /\ Fits(p, e[p]),
         e[Project] \in SUBSET Packs, e[Cli] \in SUBSET Hosts,
         <<Settings, "user">> \in c.kept => e[Settings] # None /\ "user" \in e[Settings].entries
  PROVE  Sound(e, c)
<1>1. ASSUME NEW f \in Families PROVE \A p \in FamilyPaths(f) : e[p] = d[p]
  BY FamilyPathsArePaths DEF Singles
<1>2. \A p \in GuidancePaths \cup {ownedFile, pendingFile} : e[p] = d[p]
  BY OtherPaths
<1>3. Typed(e)
  BY DEF Sound, Typed
<1>4. ArtifactsSound(e, c.tidy)
  BY <1>1, FamilyFrame DEF Sound, ArtifactsSound
<1>5. GuidanceSound(e, c)
  BY <1>2, GuidanceFrame DEF Sound
<1>6. ASSUME NEW k \in c.kept PROVE KeptAt(e, k)
  <2>1. KeptAt(d, k)
    BY DEF Sound, KeptSound
  <2>2. ASSUME NEW f \in Families, NEW n \in Names(f), k = <<<<f, n>>, Mine>>, d[<<f, n>>] = Mine, n \notin Claimed(d, f)
        PROVE  KeptAt(e, k)
    <3>1. e[<<f, n>>] = d[<<f, n>>] /\ Claimed(e, f) = Claimed(d, f)
      BY <1>1, FamilyFrame
    <3> QED BY <2>2, <3>1 DEF KeptAt
  <2>3. CASE \E p \in GuidancePaths \ RootFiles : k = <<p, Mine>> /\ d[p] = Mine
    BY <1>2, <2>3 DEF KeptAt
  <2>4. CASE \E p \in RootFiles, r \in {Mine, Damaged} : k = <<p, r>> /\ At(d, p).route = r
    BY <1>2, <2>4, GuidanceFrame DEF KeptAt
  <2>5. CASE k = <<Settings, "user">>
    BY <2>5 DEF KeptAt
  <2> QED BY <2>1, <2>2, <2>3, <2>4, <2>5 DEF KeptAt
<1> QED BY <1>3, <1>4, <1>5, <1>6 DEF Sound, KeptSound

(* Writing the files of one family.                                        *)
LEMMA SoundFamily ==
  ASSUME NEW d, NEW e, NEW c, Sound(d, c), e = [p \in Paths |-> e[p]], NEW f \in Families,
         \A p \in Paths : e[p] # d[p] => p \in FamilyPaths(f) /\ Fits(p, e[p]),
         \A n \in Names(f) : ArtifactSound(e, f, n, c.tidy),
         \A n \in Names(f) : d[<<f, n>>] = Mine /\ n \notin Claimed(d, f) => e[<<f, n>>] = Mine /\ n \notin Claimed(e, f)
  PROVE  Sound(e, c)
<1>1. ASSUME NEW g \in Families \ {f} PROVE \A p \in FamilyPaths(g) : e[p] = d[p]
  BY FamilyPathsArePaths
<1>2. \A p \in GuidancePaths \cup {ownedFile, pendingFile, Settings, Project, Cli} : e[p] = d[p]
  BY FamilyPathsArePaths, OtherPaths DEF Singles
<1>3. Typed(e)
  BY <1>2 DEF Sound, Typed
<1>4. ArtifactsSound(e, c.tidy)
  BY <1>1, FamilyFrame DEF Sound, ArtifactsSound
<1>5. GuidanceSound(e, c)
  BY <1>2, GuidanceFrame DEF Sound
<1>6. ASSUME NEW k \in c.kept PROVE KeptAt(e, k)
  <2>1. KeptAt(d, k)
    BY DEF Sound, KeptSound
  <2>2. ASSUME NEW g \in Families, NEW n \in Names(g), k = <<<<g, n>>, Mine>>, d[<<g, n>>] = Mine, n \notin Claimed(d, g)
        PROVE  KeptAt(e, k)
    <3>1. CASE g = f
      BY <2>2, <3>1 DEF KeptAt
    <3>2. CASE g # f
      <4>1. e[<<g, n>>] = d[<<g, n>>] /\ Claimed(e, g) = Claimed(d, g)
        BY <1>1, <3>2, FamilyFrame
      <4> QED BY <2>2, <4>1 DEF KeptAt
    <3> QED BY <3>1, <3>2
  <2>3. CASE \E p \in GuidancePaths \ RootFiles : k = <<p, Mine>> /\ d[p] = Mine
    BY <1>2, <2>3 DEF KeptAt
  <2>4. CASE \E p \in RootFiles, r \in {Mine, Damaged} : k = <<p, r>> /\ At(d, p).route = r
    BY <1>2, <2>4, GuidanceFrame DEF KeptAt
  <2>5. CASE k = <<Settings, "user">> /\ d[Settings] # None /\ "user" \in d[Settings].entries
    BY <1>2, <2>5 DEF KeptAt
  <2> QED BY <2>1, <2>2, <2>3, <2>4, <2>5 DEF KeptAt
<1> QED BY <1>3, <1>4, <1>5, <1>6 DEF Sound, KeptSound

(* One file replaced or removed, aiwf.yaml excepted.                       *)
LEMMA LeadsPut ==
  ASSUME NEW d, NEW c, Sound(d, c), NEW p \in Paths \ (HookPaths \cup {Yaml}), NEW x, Sound([d EXCEPT ![p] = x], c)
  PROVE  Leads(d, <<put(p, x)>>, [d EXCEPT ![p] = x], c) /\ Operations(<<put(p, x)>>)
<1> DEFINE o == put(p, x)
<1>1. Plain(o) /\ Effect(d, o) = [d EXCEPT ![p] = x]
  BY DEF Plain, Effect, put
<1>2. [d EXCEPT ![p] = x][Yaml] = d[Yaml]
  <2>1. d = [q \in Paths |-> d[q]] /\ Yaml \in Paths
    BY OtherPaths DEF Sound, Typed, Singles
  <2> QED BY <2>1
<1> DEFINE e == [d EXCEPT ![p] = x]
<1>3. Adopts(d, e, c) /\ Sound(e, c) /\ Effect(d, o) = e
  BY <1>1, <1>2 DEF Adopts, HookWanted
<1> HIDE DEF o, e
<1>4. Leads(d, <<o>>, e, c)
  BY <1>1, <1>3, LeadsOne
<1>5. Operations(<<o>>)
  <2>1. <<o>> \in Seq({o}) /\ Range(<<o>>) = {o}
    BY DEF Range
  <2> QED BY <2>1 DEF Operations
<1> QED BY <1>4, <1>5 DEF o, e

(* The empty sequence is one of operations.                                *)
LEMMA NoOperations == Operations(<<>>)
  BY DEF Operations

-----------------------------------------------------------------------------
(* Generated artifacts.                                                    *)

Receipted(d, f, v) == DOMAIN planArtifactFamily(d, f, v).receipts
Prior(d, f) == parseOwnedNames(d, f) \cup recoveredArtifacts(d, f)

(* What a plan that does not refuse knows.                                 *)
LEMMA FamilyPlan ==
  ASSUME NEW d, NEW c, Sound(d, c), NEW f \in Families, NEW v \in Versions, ~planArtifactFamily(d, f, v).refused
  PROVE  LET plan == planArtifactFamily(d, f, v) IN
         /\ plan.prior = Prior(d, f) /\ Prior(d, f) \subseteq Claimed(d, f) /\ Claimed(d, f) \subseteq Names(f)
         /\ Receipted(d, f, v) = DOMAIN parseArtifactReceipts(d, f) \cup (Shipped[v][f] \ Prior(d, f))
         /\ plan.receipts \in [Receipted(d, f, v) -> Mades] /\ Receipted(d, f, v) \subseteq Names(f)
         /\ \A n \in Shipped[v][f] \ Prior(d, f) : plan.receipts[n] = Made(v)
         /\ \A n \in Receipted(d, f, v) \ Prior(d, f) : d[<<f, n>>] = None
         /\ \A n \in Names(f) \ Prior(d, f) : d[<<f, n>>] \notin Mades /\ (c.tidy => d[<<f, n>>] = None)
         /\ ~plan.recovered => Prior(d, f) = parseOwnedNames(d, f)
         /\ plan.hadPending <=> d[Pending(f)] # None
         /\ Shipped[v][f] \subseteq Names(f) /\ IsFiniteSet(Names(f))
<1> DEFINE plan == planArtifactFamily(d, f, v)
           pending == parseArtifactReceipts(d, f)
           prior == Prior(d, f)
           new == Shipped[v][f] \ prior
<1>1. Shipped[v][f] \subseteq Names(f) /\ IsFiniteSet(Names(f))
  BY ManagedAssumption DEF Names
<1>2. /\ \A n \in Names(f) : d[<<f, n>>] \in {None, Mine, Damaged} \cup Mades
      /\ parseOwnedNames(d, f) \subseteq Names(f) /\ pending \in [DOMAIN pending -> Mades] /\ DOMAIN pending \subseteq Names(f)
  BY FamilyTyped DEF Sound
<1>3. recoveredArtifacts(d, f) = {n \in DOMAIN pending \ parseOwnedNames(d, f) : d[<<f, n>>] = pending[n] /\ d[<<f, n>>] # None}
  BY DEF recoveredArtifacts
<1>4. /\ plan.refused <=> \/ \E n \in DOMAIN pending \ prior : d[<<f, n>>] # None
                          \/ \E n \in new \ DOMAIN pending : d[<<f, n>>] # None
      /\ plan.prior = prior /\ (plan.recovered <=> recoveredArtifacts(d, f) # {}) /\ (plan.hadPending <=> d[Pending(f)] # None)
      /\ plan.receipts = [n \in DOMAIN pending \cup new |-> IF n \in new THEN Made(v) ELSE pending[n]]
  BY DEF planArtifactFamily, Prior
<1>5. \A n \in (DOMAIN pending \cup new) \ prior : d[<<f, n>>] = None
  BY <1>4
<1> HIDE DEF plan, pending
<1>6. prior \subseteq Claimed(d, f) /\ Claimed(d, f) \subseteq Names(f)
  BY <1>2, <1>3 DEF Prior, Claimed, pending
<1>7. Receipted(d, f, v) = DOMAIN pending \cup new /\ Receipted(d, f, v) \subseteq Names(f)
  BY <1>1, <1>2, <1>4 DEF Receipted, plan
<1>8. plan.receipts \in [Receipted(d, f, v) -> Mades] /\ \A n \in new : plan.receipts[n] = Made(v)
  <2>1. Made(v) \in Mades
    BY DEF Mades
  <2> QED BY <1>2, <1>4, <1>7, <2>1
<1>9. ASSUME NEW n \in Names(f) \ prior PROVE d[<<f, n>>] \notin Mades /\ (c.tidy => d[<<f, n>>] = None)
  <2>1. ArtifactSound(d, f, n, c.tidy)
    BY DEF Sound, ArtifactsSound
  <2>2. None \notin Mades
    BY ManagedAssumption
  <2>3. n \notin parseOwnedNames(d, f)
    BY DEF Prior
  <2>4. CASE n \in DOMAIN pending
    BY <1>5, <2>2, <2>4
  <2>5. CASE n \notin DOMAIN pending
    BY <2>1, <2>3, <2>5 DEF ArtifactSound, Claimed, pending
  <2> QED BY <2>4, <2>5
<1>10. ~plan.recovered => prior = parseOwnedNames(d, f)
  BY <1>4 DEF Prior
<1> QED BY <1>1, <1>4, <1>5, <1>6, <1>7, <1>8, <1>9, <1>10 DEF plan, pending

(* The files once a family is written.                                     *)
AfterFamily(d, f, v) ==
  [p \in Paths |-> IF p = Owned(f) THEN Shipped[v][f] ELSE IF p = Pending(f) THEN None
     ELSE IF p \in {<<f, n>> : n \in Shipped[v][f]} THEN Made(v)
     ELSE IF p \in {<<f, n>> : n \in Prior(d, f)} THEN None ELSE d[p]]

FamilyWith(d, f, o, r, X) ==
  [p \in Paths |-> IF p = Owned(f) THEN o ELSE IF p = Pending(f) THEN r
     ELSE IF p \in {<<f, n>> : n \in Names(f)} THEN X[p[2]] ELSE d[p]]

OwnedIn(o) == IF o = None THEN {} ELSE o
RecordIn(r) == IF r = None THEN <<>> ELSE r

(* One family rewritten so that all in it is claimed: still sound.         *)
LEMMA FamilyWithSound ==
  ASSUME NEW d, NEW c, Sound(d, c), NEW f \in Families,
         NEW o \in {None} \cup (SUBSET Names(f)), NEW r, r = None \/ (\E N \in SUBSET Names(f) : r \in [N -> Mades]),
         NEW X, \A n \in Names(f) : X[n] \in {None, Mine, Damaged} \cup Mades,
         \A n \in Names(f) : X[n] \in Mades => n \in OwnedIn(o) \cup DOMAIN RecordIn(r),
         c.tidy => \A n \in Names(f) : n \in OwnedIn(o) \/ X[n] = None \/ (n \in DOMAIN RecordIn(r) /\ X[n] = RecordIn(r)[n]),
         \A n \in Names(f) : d[<<f, n>>] = Mine /\ n \notin Claimed(d, f) => X[n] = Mine /\ n \notin OwnedIn(o) \cup DOMAIN RecordIn(r)
  PROVE  Sound(FamilyWith(d, f, o, r, X), c)
<1> DEFINE e == FamilyWith(d, f, o, r, X)
<1>1. /\ Owned(f) \in Paths /\ Pending(f) \in Paths /\ Owned(f) # Pending(f)
      /\ \A n \in Names(f) : <<f, n>> \in Paths /\ <<f, n>> # Owned(f) /\ <<f, n>> # Pending(f)
  BY FamilyPathsArePaths DEF FamilyPaths
<1>2. /\ e = [p \in Paths |-> e[p]] /\ e[Owned(f)] = o /\ e[Pending(f)] = r /\ \A n \in Names(f) : e[<<f, n>>] = X[n]
      /\ \A p \in Paths : p \notin FamilyPaths(f) => e[p] = d[p]
  BY <1>1 DEF FamilyWith, FamilyPaths
<1> HIDE DEF e
<1>3. /\ parseOwnedNames(e, f) = OwnedIn(o) /\ parseArtifactReceipts(e, f) = RecordIn(r)
      /\ Claimed(e, f) = OwnedIn(o) \cup DOMAIN RecordIn(r)
  BY <1>2 DEF parseOwnedNames, parseArtifactReceipts, Claimed, OwnedIn, RecordIn
<1>4. \A n \in Names(f) : ArtifactSound(e, f, n, c.tidy)
  BY <1>2, <1>3 DEF ArtifactSound
<1>5. ASSUME NEW p \in Paths, e[p] # d[p] PROVE p \in FamilyPaths(f) /\ Fits(p, e[p])
  <2>1. p \in FamilyPaths(f)
    BY <1>2, <1>5
  <2>2. CASE p = Owned(f)
    BY <1>2, <2>1, <2>2, FitsFamily
  <2>3. CASE p = Pending(f)
    BY <1>2, <2>1, <2>3, FitsFamily
  <2>4. ASSUME NEW n \in Names(f), p = <<f, n>> PROVE Fits(p, e[p])
    BY <1>2, <2>4, FitsFamily
  <2> QED BY <2>1, <2>2, <2>3, <2>4 DEF FamilyPaths
<1>6. \A n \in Names(f) : d[<<f, n>>] = Mine /\ n \notin Claimed(d, f) => e[<<f, n>>] = Mine /\ n \notin Claimed(e, f)
  BY <1>2, <1>3
<1> QED BY <1>2, <1>4, <1>5, <1>6, SoundFamily DEF e

(* A family is written with its records before, between and after, so that *)
(* at every step what is there is claimed.                                 *)
LEMMA FamilyLeads ==
  ASSUME NEW d, NEW c, Sound(d, c), NEW f \in Families, NEW v \in Versions, ~planArtifactFamily(d, f, v).refused
  PROVE  LET ops == applyArtifactPlan(f, v, planArtifactFamily(d, f, v)) IN
         Leads(d, ops, AfterFamily(d, f, v), c) /\ Operations(ops)
<1> DEFINE plan == planArtifactFamily(d, f, v)
           prior == Prior(d, f)
           shipped == Shipped[v][f]
           listed == Receipted(d, f, v)
           journal == listed # {}
<1>1. /\ plan.prior = prior /\ prior \subseteq Claimed(d, f) /\ Claimed(d, f) \subseteq Names(f)
      /\ listed = DOMAIN parseArtifactReceipts(d, f) \cup (shipped \ prior)
      /\ plan.receipts \in [listed -> Mades] /\ listed \subseteq Names(f)
      /\ \A n \in shipped \ prior : plan.receipts[n] = Made(v)
      /\ \A n \in listed \ prior : d[<<f, n>>] = None
      /\ \A n \in Names(f) \ prior : d[<<f, n>>] \notin Mades /\ (c.tidy => d[<<f, n>>] = None)
      /\ ~plan.recovered => prior = parseOwnedNames(d, f)
      /\ plan.hadPending <=> d[Pending(f)] # None
      /\ shipped \subseteq Names(f) /\ IsFiniteSet(Names(f))
  BY FamilyPlan
<1>2. DOMAIN plan.receipts = listed
  BY DEF Receipted
<1>3. /\ \A n \in Names(f) : d[<<f, n>>] \in {None, Mine, Damaged} \cup Mades
      /\ parseOwnedNames(d, f) \subseteq Names(f)
      /\ parseArtifactReceipts(d, f) \in [DOMAIN parseArtifactReceipts(d, f) -> Mades]
  BY FamilyTyped DEF Sound
<1>4. /\ Owned(f) \in Paths \ HookPaths /\ Pending(f) \in Paths \ HookPaths /\ Owned(f) # Pending(f)
      /\ \A n \in Names(f) : <<f, n>> \in Paths \ (HookPaths \cup {Yaml}) /\ <<f, n>> # Owned(f) /\ <<f, n>> # Pending(f)
      /\ Yaml \in Paths /\ Yaml \notin FamilyPaths(f)
  BY FamilyPathsArePaths, OtherPaths DEF FamilyPaths, Singles
<1>5. d = [p \in Paths |-> d[p]]
  BY DEF Sound, Typed
<1>6. None \notin Mades /\ (\A N \in SUBSET Names(f) : N # None /\ None \notin [N -> Mades]) /\ Made(v) \in Mades
  BY ManagedAssumption DEF Mades
<1>7. Mine \notin Mades /\ Mine # None
  BY ManagedAssumption DEF Mine, Mades, Made
<1> HIDE DEF plan, prior, shipped, listed
<1> DEFINE paths(N) == {<<f, n>> : n \in N}
           cc == [p \in Paths |-> IF p \in paths(shipped) THEN Made(v) ELSE None]
           X(T) == [n \in Names(f) |-> IF <<f, n>> \in T THEN cc[<<f, n>>] ELSE d[<<f, n>>]]
           o1 == IF plan.recovered THEN prior ELSE d[Owned(f)]
           r2 == IF journal THEN plan.receipts ELSE d[Pending(f)]
           R2 == RecordIn(r2)
           all == paths(prior \cup shipped)
           Now(o, r, T) == FamilyWith(d, f, o, r, X(T))
           gone == paths(prior \ shipped)
<1>8. o1 \in {None} \cup (SUBSET Names(f)) /\ OwnedIn(o1) = prior
  <2>1. d[Owned(f)] \in {None} \cup (SUBSET Names(f)) /\ prior \subseteq Names(f)
    BY <1>1, <1>3 DEF parseOwnedNames
  <2> QED BY <1>1, <1>6, <2>1 DEF parseOwnedNames, OwnedIn
<1>9. /\ r2 = None \/ (\E N \in SUBSET Names(f) : r2 \in [N -> Mades]) 
      /\ DOMAIN R2 = listed /\ \A n \in shipped \ prior : n \in listed /\ R2[n] = Made(v)
  <2> USE DEF RecordIn
  <2>1. CASE journal
    BY <1>1, <1>6, <2>1
  <2>2. CASE ~journal
    <3>1. DOMAIN parseArtifactReceipts(d, f) = {} /\ shipped \ prior = {}
      BY <1>1, <2>2
    <3>2. R2 = parseArtifactReceipts(d, f) /\ r2 = d[Pending(f)]
      BY <2>2 DEF parseArtifactReceipts
    <3>3. r2 = None \/ r2 \in [{} -> Mades]
      BY <1>3, <3>1, <3>2 DEF parseArtifactReceipts
    <3> QED BY <2>2, <3>1, <3>2, <3>3
  <2> QED BY <2>1, <2>2
<1>10. \A n \in Names(f) : d[<<f, n>>] = Mine /\ n \notin Claimed(d, f) => n \notin prior \cup listed \cup shipped
  BY <1>1, <1>7
<1>11. /\ \A n \in Names(f) : cc[<<f, n>>] = IF n \in shipped THEN Made(v) ELSE None
       /\ \A n \in Names(f), N \in SUBSET Names(f) : <<f, n>> \in paths(N) <=> n \in N
  BY <1>4
<1>12. ASSUME NEW T \in SUBSET all, NEW n \in Names(f)
       PROVE  /\ X(T)[n] = IF <<f, n>> \in T THEN (IF n \in shipped THEN Made(v) ELSE None) ELSE d[<<f, n>>]
              /\ X(T)[n] \in {None, Mine, Damaged} \cup Mades
              /\ <<f, n>> \in T => n \in prior \cup shipped
  <2>1. X(T)[n] = IF <<f, n>> \in T THEN (IF n \in shipped THEN Made(v) ELSE None) ELSE d[<<f, n>>]
    BY <1>11
  <2>2. <<f, n>> \in T => n \in prior \cup shipped
    OBVIOUS
  <2> QED BY <1>3, <1>6, <2>1, <2>2
<1> HIDE DEF o1, r2, R2, X, cc, paths, all
<1>13. Now(d[Owned(f)], d[Pending(f)], {}) = d
  <2>1. \A n \in Names(f) : X({})[n] = d[<<f, n>>]
    BY <1>12
  <2> QED BY <1>4, <1>5, <2>1 DEF FamilyWith
<1>14. Sound(Now(o1, d[Pending(f)], {}), c)
  <2> DEFINE r0 == d[Pending(f)]
  <2>1. \A n \in Names(f) : X({})[n] = d[<<f, n>>] /\ X({})[n] \in {None, Mine, Damaged} \cup Mades
    BY <1>3, <1>12
  <2>2. RecordIn(r0) = parseArtifactReceipts(d, f) /\ (r0 = None \/ (\E N \in SUBSET Names(f) : r0 \in [N -> Mades]))
    BY <1>1, <1>3 DEF parseArtifactReceipts, RecordIn
  <2>3. \A n \in Names(f) : X({})[n] \in Mades => n \in OwnedIn(o1) \cup DOMAIN RecordIn(r0)
    BY <1>1, <1>8, <2>1
  <2>4. c.tidy => \A n \in Names(f) : n \in OwnedIn(o1) \/ X({})[n] = None \/ (n \in DOMAIN RecordIn(r0) /\ X({})[n] = RecordIn(r0)[n])
    BY <1>1, <1>8, <2>1
  <2>5. \A n \in Names(f) : d[<<f, n>>] = Mine /\ n \notin Claimed(d, f) => X({})[n] = Mine /\ n \notin OwnedIn(o1) \cup DOMAIN RecordIn(r0)
    BY <1>1, <1>8, <1>10, <2>1, <2>2
  <2> HIDE DEF r0
  <2>6. Sound(FamilyWith(d, f, o1, r0, X({})), c)
    <3> DEFINE Y == X({})
    <3>1. /\ \A n \in Names(f) : Y[n] \in {None, Mine, Damaged} \cup Mades
          /\ \A n \in Names(f) : Y[n] \in Mades => n \in OwnedIn(o1) \cup DOMAIN RecordIn(r0)
          /\ c.tidy => \A n \in Names(f) : n \in OwnedIn(o1) \/ Y[n] = None \/ (n \in DOMAIN RecordIn(r0) /\ Y[n] = RecordIn(r0)[n])
          /\ \A n \in Names(f) : d[<<f, n>>] = Mine /\ n \notin Claimed(d, f) => Y[n] = Mine /\ n \notin OwnedIn(o1) \cup DOMAIN RecordIn(r0)
      BY <2>1, <2>3, <2>4, <2>5
    <3> HIDE DEF Y
    <3>2. Sound(FamilyWith(d, f, o1, r0, Y), c)
      BY <1>8, <2>2, <3>1, FamilyWithSound
    <3> QED BY <3>2 DEF Y
  <2> QED BY <2>6 DEF r0
<1>15. ASSUME NEW T \in SUBSET all PROVE Sound(Now(o1, r2, T), c)
  <2>1. \A n \in Names(f) : X(T)[n] \in Mades => n \in OwnedIn(o1) \cup DOMAIN RecordIn(r2)
    <3> SUFFICES ASSUME NEW n \in Names(f), X(T)[n] \in Mades PROVE n \in OwnedIn(o1) \cup DOMAIN RecordIn(r2)
      OBVIOUS
    <3>1. CASE n \in prior
      BY <1>8, <3>1
    <3>2. CASE n \in shipped \ prior
      BY <1>9, <3>2 DEF R2
    <3>3. CASE n \notin shipped \cup prior
      <4>1. X(T)[n] = d[<<f, n>>]
        BY <1>12, <3>3
      <4> QED BY <1>1, <3>3, <4>1
    <3> QED BY <3>1, <3>2, <3>3
  <2>2. ASSUME c.tidy, NEW n \in Names(f)
        PROVE  n \in OwnedIn(o1) \/ X(T)[n] = None \/ (n \in DOMAIN RecordIn(r2) /\ X(T)[n] = RecordIn(r2)[n])
    <3>1. CASE n \in shipped \ prior
      <4>1. X(T)[n] \in {Made(v), d[<<f, n>>]}
        BY <1>12, <3>1
      <4> QED BY <1>1, <1>9, <2>2, <3>1, <4>1 DEF R2
    <3>2. CASE n \notin shipped \cup prior
      <4>1. <<f, n>> \notin T
        BY <1>12, <3>2
      <4>2. d[<<f, n>>] = None
        BY <1>1, <2>2, <3>2
      <4> QED BY <1>12, <4>1, <4>2
    <3> QED BY <1>8, <3>1, <3>2
  <2>3. ASSUME NEW n \in Names(f), d[<<f, n>>] = Mine, n \notin Claimed(d, f)
        PROVE  X(T)[n] = Mine /\ n \notin OwnedIn(o1) \cup DOMAIN RecordIn(r2)
    BY <1>8, <1>9, <1>10, <1>12, <2>3 DEF R2
  <2>4. \A n \in Names(f) : X(T)[n] \in {None, Mine, Damaged} \cup Mades
    BY <1>12
  <2> QED BY <1>8, <1>9, <2>1, <2>2, <2>3, <2>4, FamilyWithSound
<1>34. \A n \in Names(f) : X(all)[n] = IF n \in shipped THEN Made(v) ELSE IF n \in prior THEN None ELSE d[<<f, n>>]
  <2> SUFFICES ASSUME NEW n \in Names(f)
               PROVE  X(all)[n] = IF n \in shipped THEN Made(v) ELSE IF n \in prior THEN None ELSE d[<<f, n>>]
    OBVIOUS
  <2>1. X(all)[n] = IF <<f, n>> \in all THEN (IF n \in shipped THEN Made(v) ELSE None) ELSE d[<<f, n>>]
    BY <1>12
  <2>2. <<f, n>> \in all <=> n \in prior \cup shipped
    <3>1. prior \cup shipped \in SUBSET Names(f)
      BY <1>1
    <3> QED BY <1>11, <3>1 DEF all
  <2> QED BY <2>1, <2>2
<1>16. ASSUME NEW r, r \in {r2, None} PROVE Sound(Now(shipped, r, all), c)
  <2>1. \A n \in Names(f) : X(all)[n] = IF n \in shipped THEN Made(v) ELSE IF n \in prior THEN None ELSE d[<<f, n>>]
    BY <1>34
  <2>2. OwnedIn(shipped) = shipped /\ DOMAIN RecordIn(r) \subseteq listed
    BY <1>1, <1>6, <1>9, <1>16 DEF OwnedIn, RecordIn, R2
  <2>3. \A n \in Names(f) : X(all)[n] \in Mades => n \in OwnedIn(shipped)
    BY <1>1, <1>6, <2>1, <2>2
  <2>4. c.tidy => \A n \in Names(f) : n \in OwnedIn(shipped) \/ X(all)[n] = None
    BY <1>1, <2>1, <2>2
  <2>5. ASSUME NEW n \in Names(f), d[<<f, n>>] = Mine, n \notin Claimed(d, f)
        PROVE  X(all)[n] = Mine /\ n \notin OwnedIn(shipped) \cup DOMAIN RecordIn(r)
    BY <1>10, <2>1, <2>2, <2>5
  <2>6. \A n \in Names(f) : X(all)[n] \in {None, Mine, Damaged} \cup Mades
    BY <1>12
  <2>7. shipped \in {None} \cup (SUBSET Names(f)) /\ (r = None \/ (\E N \in SUBSET Names(f) : r \in [N -> Mades]))
    BY <1>1, <1>9, <1>16
  <2> QED BY <2>2, <2>3, <2>4, <2>5, <2>6, <2>7, FamilyWithSound
<1> HIDE DEF gone
<1>17. all \in SUBSET all /\ gone \in SUBSET all /\ {} \in SUBSET all
  BY <1>4 DEF all, gone, paths
<1> DEFINE e1 == Now(o1, d[Pending(f)], {})
           e2 == Now(o1, r2, {})
           e3 == Now(o1, r2, gone)
           e4 == Now(o1, r2, all)
           e5 == Now(shipped, r2, all)
           e6 == Now(shipped, None, all)
           s1 == IF plan.recovered THEN <<put(Owned(f), plan.prior)>> ELSE <<>>
           s2 == IF journal THEN <<put(Pending(f), plan.receipts)>> ELSE <<>>
           s3 == Over(plan.prior \ Shipped[v][f], LAMBDA n : del(<<f, n>>))
           s4 == Over(Shipped[v][f], LAMBDA n : put(<<f, n>>, Made(v)))
           s5 == <<put(Owned(f), Shipped[v][f])>>
           s6 == IF plan.hadPending \/ journal THEN <<del(Pending(f))>> ELSE <<>>
<1>18. Leads(d, s1, e1, c) /\ Operations(s1)
  <2>1. CASE plan.recovered
    <3>1. e1 = [d EXCEPT ![Owned(f)] = prior]
      <4>1. e1 = [Now(d[Owned(f)], d[Pending(f)], {}) EXCEPT ![Owned(f)] = prior]
        BY <1>4, <2>1 DEF FamilyWith, o1
      <4> QED BY <1>13, <4>1
    <3>2. Leads(d, <<put(Owned(f), prior)>>, e1, c) /\ Operations(<<put(Owned(f), prior)>>)
      <4>1. Owned(f) \in Paths \ (HookPaths \cup {Yaml})
        BY <1>4 DEF FamilyPaths
      <4> HIDE DEF e1
      <4> QED BY <1>14, <3>1, <4>1, LeadsPut DEF e1
    <3> QED BY <1>1, <2>1, <3>2
  <2>2. CASE ~plan.recovered
    <3>1. e1 = d /\ s1 = <<>>
      BY <1>13, <2>2 DEF o1
    <3> QED BY <3>1, LeadsNone, NoOperations
  <2> QED BY <2>1, <2>2
<1>19. Leads(e1, s2, e2, c) /\ Operations(s2)
  <2>0. Sound(e2, c)
    BY <1>15, <1>17
  <2>1. CASE journal
    <3>1. e2 = [e1 EXCEPT ![Pending(f)] = plan.receipts]
      BY <1>4, <2>1 DEF FamilyWith, r2
    <3>2. Leads(e1, <<put(Pending(f), plan.receipts)>>, e2, c) /\ Operations(<<put(Pending(f), plan.receipts)>>)
      <4>1. Pending(f) \in Paths \ (HookPaths \cup {Yaml})
        BY <1>4 DEF FamilyPaths
      <4> HIDE DEF e1, e2
      <4> QED BY <1>14, <2>0, <3>1, <4>1, LeadsPut DEF e1
    <3> QED BY <2>1, <3>2
  <2>2. CASE ~journal
    <3>1. e2 = e1 /\ s2 = <<>>
      BY <2>2 DEF r2
    <3> QED BY <2>0, <3>1, LeadsNone, NoOperations
  <2> QED BY <2>1, <2>2
<1>20. ASSUME NEW T \in SUBSET all, NEW S \in SUBSET all
       PROVE  Write(Now(o1, r2, T), cc, S) = Now(o1, r2, T \cup S)
  <2>1. S \subseteq paths(Names(f))
    BY <1>1 DEF all, paths
  <2>2. \A n \in Names(f) : X(T \cup S)[n] = IF <<f, n>> \in S THEN cc[<<f, n>>] ELSE X(T)[n]
    BY DEF X
  <2>3. ASSUME NEW p \in Paths PROVE Write(Now(o1, r2, T), cc, S)[p] = Now(o1, r2, T \cup S)[p]
    <3>1. CASE p \in {Owned(f), Pending(f)}
      <4>1. p \notin S
        BY <1>4, <2>1, <3>1 DEF paths
      <4> QED BY <1>4, <3>1, <4>1 DEF Write, FamilyWith
    <3>2. ASSUME NEW n \in Names(f), p = <<f, n>> PROVE Write(Now(o1, r2, T), cc, S)[p] = Now(o1, r2, T \cup S)[p]
      <4>1. p[2] = n /\ p \in {<<f, m>> : m \in Names(f)} /\ p # Owned(f) /\ p # Pending(f)
        BY <1>4, <3>2
      <4>2. Now(o1, r2, T)[p] = X(T)[n] /\ Now(o1, r2, T \cup S)[p] = X(T \cup S)[n]
        BY <4>1 DEF FamilyWith
      <4> QED BY <2>2, <3>2, <4>2 DEF Write
    <3>3. CASE p \notin FamilyPaths(f)
      <4>1. p \notin S /\ p # Owned(f) /\ p # Pending(f) /\ p \notin {<<f, n>> : n \in Names(f)}
        BY <2>1, <3>3 DEF FamilyPaths, paths
      <4> QED BY <4>1 DEF Write, FamilyWith
    <3> QED BY <3>1, <3>2, <3>3 DEF FamilyPaths
  <2> QED BY <2>3 DEF Write, FamilyWith
<1>21. IsFiniteSet(prior \ shipped) /\ IsFiniteSet(shipped)
  <2>1. prior \ shipped \in SUBSET Names(f) /\ shipped \in SUBSET Names(f)
    BY <1>1
  <2> QED BY <1>1, <2>1, FS_Subset
<1>22. Leads(e2, s3, e3, c) /\ Operations(s3)
  <2> DEFINE N == prior \ shipped
             at == [n \in N |-> <<f, n>>]
             q == SetToSeq(N)
  <2>1. s3 = [i \in DOMAIN q |-> put(<<f, q[i]>>, None)]
    BY <1>1 DEF Over, del, shipped
  <2>2. DOMAIN q = 1..Len(q) /\ \A i \in DOMAIN q : q[i] \in N
    BY <1>21, ListsTheSet
  <2>3. \A n \in N : at[n] = <<f, n>> /\ cc[at[n]] = None
    BY <1>1, <1>11
  <2>4. gone = {at[n] : n \in N} /\ gone \subseteq Paths \ (HookPaths \cup {Yaml})
    <3>1. gone = {at[n] : n \in N}
      BY <2>3 DEF gone, paths
    <3> QED BY <1>1, <1>4, <3>1
  <2> HIDE DEF N, at, q, s3
  <2>5. e2 = [p \in Paths |-> e2[p]]
    BY DEF FamilyWith
  <2>6. \A T \in SUBSET gone : Sound(Write(e2, cc, T), c)
    <3> SUFFICES ASSUME NEW T \in SUBSET gone PROVE Sound(Write(e2, cc, T), c)
      OBVIOUS
    <3>1. T \in SUBSET all /\ {} \cup T = T
      BY <1>17
    <3>2. Write(e2, cc, T) = Now(o1, r2, T)
      BY <1>17, <1>20, <3>1
    <3> HIDE DEF e2
    <3> QED BY <1>15, <3>1, <3>2
  <2>7. Write(e2, cc, gone) = e3
    BY <1>17, <1>20
  <2>8. Lists(s3, N, at, cc)
    BY <2>1, <2>2, <2>3 DEF Lists, q
  <2> HIDE DEF e2, e3
  <2>10. IsFiniteSet(N) /\ gone = Image(at, N)
    BY <1>21, <2>4 DEF N, Image
  <2>11. Leads(e2, s3, Write(e2, cc, gone), c) /\ Operations(s3)
    BY <2>4, <2>5, <2>6, <2>8, <2>10, LeadsOver
  <2> QED BY <2>7, <2>11
<1>23. Leads(e3, s4, e4, c) /\ Operations(s4)
  <2> DEFINE N == shipped
             at == [n \in N |-> <<f, n>>]
             q == SetToSeq(N)
             S == paths(shipped)
  <2>1. s4 = [i \in DOMAIN q |-> put(<<f, q[i]>>, Made(v))]
    BY DEF Over, shipped
  <2>2. DOMAIN q = 1..Len(q) /\ \A i \in DOMAIN q : q[i] \in N
    BY <1>21, ListsTheSet
  <2>3. \A n \in N : at[n] = <<f, n>> /\ cc[at[n]] = Made(v)
    BY <1>1, <1>11
  <2>4. S = {at[n] : n \in N} /\ S \subseteq Paths \ (HookPaths \cup {Yaml})
    <3>1. S = {at[n] : n \in N}
      BY <2>3 DEF paths
    <3> QED BY <1>1, <1>4, <3>1
  <2>5. e3 = [p \in Paths |-> e3[p]]
    BY DEF FamilyWith
  <2>6. S \in SUBSET all /\ gone \cup S = all
    BY DEF all, gone, paths
  <2> HIDE DEF N, at, q, S, s4
  <2>7. \A T \in SUBSET S : Sound(Write(e3, cc, T), c)
    <3> SUFFICES ASSUME NEW T \in SUBSET S PROVE Sound(Write(e3, cc, T), c)
      OBVIOUS
    <3>1. T \in SUBSET all /\ gone \cup T \in SUBSET all
      BY <1>17, <2>6
    <3>2. Write(e3, cc, T) = Now(o1, r2, gone \cup T)
      BY <1>17, <1>20, <3>1
    <3> HIDE DEF e3
    <3> QED BY <1>15, <3>1, <3>2
  <2>8. Write(e3, cc, S) = e4
    BY <1>17, <1>20, <2>6
  <2>9. Lists(s4, N, at, cc)
    BY <2>1, <2>2, <2>3 DEF Lists, q
  <2> HIDE DEF e3, e4
  <2>10. IsFiniteSet(N) /\ S = Image(at, N)
    BY <1>21, <2>4 DEF N, Image
  <2>11. Leads(e3, s4, Write(e3, cc, S), c) /\ Operations(s4)
    BY <2>4, <2>5, <2>7, <2>9, <2>10, LeadsOver
  <2> QED BY <2>8, <2>11
<1>24. Sound(e4, c) /\ Sound(e5, c) /\ Sound(e6, c)
  BY <1>15, <1>16, <1>17
<1>25. Leads(e4, s5, e5, c) /\ Operations(s5)
  <2>1. e5 = [e4 EXCEPT ![Owned(f)] = shipped]
    BY <1>4 DEF FamilyWith
  <2>2. Owned(f) \in Paths \ (HookPaths \cup {Yaml})
    BY <1>4 DEF FamilyPaths
  <2> HIDE DEF e4, e5
  <2> QED BY <1>24, <2>1, <2>2, LeadsPut DEF shipped
<1>26. Leads(e5, s6, e6, c) /\ Operations(s6)
  <2>1. CASE plan.hadPending \/ journal
    <3>1. e6 = [e5 EXCEPT ![Pending(f)] = None]
      BY <1>4 DEF FamilyWith
    <3>2. Pending(f) \in Paths \ (HookPaths \cup {Yaml})
      BY <1>4 DEF FamilyPaths
    <3> HIDE DEF e5, e6
    <3>3. Leads(e5, <<put(Pending(f), None)>>, e6, c) /\ Operations(<<put(Pending(f), None)>>)
      BY <1>24, <3>1, <3>2, LeadsPut
    <3> QED BY <2>1, <3>3 DEF del
  <2>2. CASE ~(plan.hadPending \/ journal)
    <3>1. r2 = None /\ s6 = <<>>
      BY <1>1, <2>2 DEF r2
    <3> QED BY <1>24, <3>1, LeadsNone, NoOperations
  <2> QED BY <2>1, <2>2
<1>27. e6 = AfterFamily(d, f, v)
  <2>1. ASSUME NEW p \in Paths PROVE e6[p] = AfterFamily(d, f, v)[p]
    <3>1. CASE p \in {Owned(f), Pending(f)}
      BY <1>4, <3>1 DEF FamilyWith, AfterFamily, shipped
    <3>2. ASSUME NEW n \in Names(f), p = <<f, n>> PROVE e6[p] = AfterFamily(d, f, v)[p]
      <4>1. p[2] = n /\ p \in {<<f, m>> : m \in Names(f)} /\ p # Owned(f) /\ p # Pending(f)
        BY <1>4, <3>2
      <4>2. e6[p] = X(all)[n]
        BY <4>1 DEF FamilyWith
      <4>3. X(all)[n] = IF n \in shipped THEN Made(v) ELSE IF n \in prior THEN None ELSE d[<<f, n>>]
        BY <1>34
      <4>4. (p \in {<<f, m>> : m \in Shipped[v][f]} <=> n \in shipped) /\ (p \in {<<f, m>> : m \in Prior(d, f)} <=> n \in prior)
        BY <3>2 DEF shipped, prior
      <4>5. AfterFamily(d, f, v)[p] = IF n \in shipped THEN Made(v) ELSE IF n \in prior THEN None ELSE d[p]
        BY <4>1, <4>4 DEF AfterFamily
      <4> QED BY <3>2, <4>2, <4>3, <4>5
    <3>3. CASE p \notin FamilyPaths(f)
      <4>1. p # Owned(f) /\ p # Pending(f) /\ p \notin {<<f, n>> : n \in Names(f)}
        BY <3>3 DEF FamilyPaths
      <4>2. p \notin {<<f, m>> : m \in Shipped[v][f]} /\ p \notin {<<f, m>> : m \in Prior(d, f)}
        BY <1>1, <4>1 DEF shipped, prior
      <4> QED BY <4>1, <4>2 DEF FamilyWith, AfterFamily
    <3> QED BY <3>1, <3>2, <3>3 DEF FamilyPaths
  <2> QED BY <2>1 DEF FamilyWith, AfterFamily
<1> HIDE DEF e1, e2, e3, e4, e5, e6
<1>28. applyArtifactPlan(f, v, plan) = s1 \o s2 \o s3 \o s4 \o s5 \o s6
  BY <1>2 DEF applyArtifactPlan
<1> HIDE DEF s1, s2, s3, s4, s5, s6
<1>29. Leads(d, s1 \o s2, e2, c) /\ Operations(s1 \o s2)
  BY <1>18, <1>19, LeadsThen
<1>30. Leads(d, s1 \o s2 \o s3, e3, c) /\ Operations(s1 \o s2 \o s3)
  BY <1>22, <1>29, LeadsThen
<1>31. Leads(d, s1 \o s2 \o s3 \o s4, e4, c) /\ Operations(s1 \o s2 \o s3 \o s4)
  BY <1>23, <1>30, LeadsThen
<1>32. Leads(d, s1 \o s2 \o s3 \o s4 \o s5, e5, c) /\ Operations(s1 \o s2 \o s3 \o s4 \o s5)
  BY <1>25, <1>31, LeadsThen
<1>33. Leads(d, s1 \o s2 \o s3 \o s4 \o s5 \o s6, e6, c) /\ Operations(s1 \o s2 \o s3 \o s4 \o s5 \o s6)
  BY <1>26, <1>32, LeadsThen
<1> QED BY <1>27, <1>28, <1>33 DEF plan

(* A trail starts and ends with sound files.                               *)
LEMMA LeadsEnds ==
  ASSUME NEW d, NEW e, NEW c, NEW s, Operations(s), Leads(d, s, e, c)
  PROVE  Sound(d, c) /\ Sound(e, c)
<1>1. PICK D : Trail(D, d, s, e, c)
  BY DEF Leads
<1>2. s \in Seq(Range(s))
  BY DEF Operations
<1>3. 0 \in 0..Len(s) /\ Len(s) \in 0..Len(s)
  BY <1>2
<1> QED BY <1>1, <1>3 DEF Trail

(* FlattenSeq appends one sequence after the other.                        *)
Appends(g, seqs, n) == \A i \in 1..n : g[i] = IF i = 1 THEN seqs[i] ELSE g[i - 1] \o seqs[i]

(* The sequences, appended one by one.                                     *)
LEMMA FlattenUnfolds ==
  ASSUME NEW seqs, NEW n \in Nat \ {0}, Len(seqs) = n
  PROVE  \E g : Appends(g, seqs, n) /\ FlattenSeq(seqs) = g[n]
<1> DEFINE Of(g, k) == g = [i \in 1..k |-> IF i = 1 THEN seqs[i] ELSE g[i - 1] \o seqs[i]]
           S == {k \in Nat : \E g : Of(g, k)}
<1>1. 0 \in S
  <2>1. Of([i \in 1..0 |-> 0], 0)
    OBVIOUS
  <2> QED BY <2>1
<1>2. ASSUME NEW k \in Nat, k \in S PROVE k + 1 \in S
  <2>1. PICK g : Of(g, k)
    BY <1>2
  <2> DEFINE h == [i \in 1..(k + 1) |-> IF i = k + 1 THEN (IF i = 1 THEN seqs[i] ELSE g[i - 1] \o seqs[i]) ELSE g[i]]
  <2>2. \A i \in 1..k : g[i] = IF i = 1 THEN seqs[i] ELSE g[i - 1] \o seqs[i]
    BY <2>1
  <2>3. ASSUME NEW i \in 1..(k + 1) PROVE h[i] = IF i = 1 THEN seqs[i] ELSE h[i - 1] \o seqs[i]
    <3>1. CASE i = k + 1
      <4>1. CASE i = 1
        BY <3>1, <4>1
      <4>2. CASE i # 1
        <5>1. i - 1 \in 1..(k + 1) /\ i - 1 # k + 1
          BY <3>1, <4>2
        <5>2. h[i - 1] = g[i - 1]
          BY <5>1
        <5>3. h[i] = g[i - 1] \o seqs[i]
          BY <3>1, <4>2
        <5> QED BY <4>2, <5>2, <5>3
      <4> QED BY <4>1, <4>2
    <3>2. CASE i # k + 1
      <4>1. i \in 1..k /\ h[i] = g[i]
        BY <3>2
      <4>2. CASE i = 1
        BY <2>2, <4>1, <4>2
      <4>3. CASE i # 1
        <5>1. i - 1 \in 1..(k + 1) /\ i - 1 # k + 1
          BY <4>1, <4>3
        <5>2. h[i - 1] = g[i - 1]
          BY <5>1
        <5> QED BY <2>2, <4>1, <4>3, <5>2
      <4> QED BY <4>2, <4>3
    <3> QED BY <3>1, <3>2
  <2>4. DOMAIN h = 1..(k + 1) /\ h = [i \in 1..(k + 1) |-> h[i]]
    OBVIOUS
  <2> HIDE DEF h
  <2>5. Of(h, k + 1)
    <3> DEFINE G == [i \in 1..(k + 1) |-> IF i = 1 THEN seqs[i] ELSE h[i - 1] \o seqs[i]]
    <3>1. \A i \in 1..(k + 1) : G[i] = h[i]
      BY <2>3
    <3>2. G = [i \in 1..(k + 1) |-> G[i]]
      OBVIOUS
    <3>3. h = G
      <4> HIDE DEF G
      <4>1. [i \in 1..(k + 1) |-> G[i]] = [i \in 1..(k + 1) |-> h[i]]
        BY <3>1
      <4> QED BY <2>4, <3>2, <4>1
    <3> QED BY <3>3
  <2> HIDE DEF Of
  <2> QED BY <2>5
<1>3. \E g : Of(g, n)
  <2> HIDE DEF S
  <2>1. n \in S
    BY <1>1, <1>2, SetInduction
  <2> QED BY <2>1 DEF S
<1> DEFINE flatten == CHOOSE g : Of(g, n)
<1>4. Of(flatten, n)
  BY <1>3
<1>5. FlattenSeq(seqs) = flatten[n]
  BY DEF FlattenSeq
<1> HIDE DEF flatten
<1>6. Appends(flatten, seqs, n)
  BY <1>4 DEF Appends
<1> QED BY <1>5, <1>6

(* Sequences one after the other lead from the first disk to the last.     *)
LEMMA LeadsFlatten ==
  ASSUME NEW c, NEW seqs, NEW n \in Nat, Len(seqs) = n, n = 0 => seqs = <<>>,
         NEW D, Sound(D[0], c), \A i \in 1..n : Operations(seqs[i]) /\ Leads(D[i - 1], seqs[i], D[i], c)
  PROVE  Leads(D[0], FlattenSeq(seqs), D[n], c) /\ Operations(FlattenSeq(seqs))
<1>1. CASE n = 0
  <2>1. FlattenSeq(seqs) = <<>>
    BY <1>1 DEF FlattenSeq
  <2> QED BY <1>1, <2>1, LeadsNone, NoOperations
<1>2. CASE n # 0
  <2>1. PICK g : Appends(g, seqs, n) /\ FlattenSeq(seqs) = g[n]
    BY <1>2, FlattenUnfolds
  <2> DEFINE S == {k \in Nat : k + 1 <= n => Leads(D[0], g[k + 1], D[k + 1], c) /\ Operations(g[k + 1])}
  <2>2. 0 \in S
    <3>1. 1 \in 1..n /\ 1 - 1 = 0 /\ 0 + 1 = 1
      BY <1>2
    <3>2. g[1] = seqs[1]
      BY <2>1, <3>1 DEF Appends
    <3> QED BY <3>1, <3>2
  <2>3. ASSUME NEW k \in Nat, k \in S PROVE k + 1 \in S
    <3> SUFFICES ASSUME (k + 1) + 1 <= n
                 PROVE  Leads(D[0], g[(k + 1) + 1], D[(k + 1) + 1], c) /\ Operations(g[(k + 1) + 1])
      OBVIOUS
    <3>1. (k + 1) + 1 \in 1..n /\ (k + 1) + 1 # 1 /\ ((k + 1) + 1) - 1 = k + 1 /\ k + 1 <= n
      OBVIOUS
    <3>2. g[(k + 1) + 1] = g[k + 1] \o seqs[(k + 1) + 1]
      BY <2>1, <3>1 DEF Appends
    <3>3. Leads(D[0], g[k + 1], D[k + 1], c) /\ Operations(g[k + 1])
      BY <2>3, <3>1
    <3>4. Leads(D[k + 1], seqs[(k + 1) + 1], D[(k + 1) + 1], c) /\ Operations(seqs[(k + 1) + 1])
      BY <3>1
    <3>5. Leads(D[0], g[k + 1] \o seqs[(k + 1) + 1], D[(k + 1) + 1], c) /\ Operations(g[k + 1] \o seqs[(k + 1) + 1])
      BY <3>3, <3>4, LeadsThen
    <3> QED BY <3>2, <3>5
  <2>4. n - 1 \in S
    <3> HIDE DEF S
    <3>1. n - 1 \in Nat
      BY <1>2
    <3> QED BY <2>2, <2>3, <3>1, SetInduction
  <2>5. (n - 1) + 1 = n /\ n <= n
    OBVIOUS
  <2> QED BY <2>1, <2>4, <2>5
<1> QED BY <1>1, <1>2

(* What a family's plan reads are its own paths.                           *)
LEMMA PlanFrame ==
  ASSUME NEW d, Typed(d), NEW e, NEW f \in Families, NEW v \in Versions, \A p \in FamilyPaths(f) : e[p] = d[p]
  PROVE  planArtifactFamily(e, f, v) = planArtifactFamily(d, f, v) /\ Prior(e, f) = Prior(d, f) /\ Prior(d, f) \subseteq Names(f)
<1> DEFINE pending == parseArtifactReceipts(d, f)
<1>1. parseOwnedNames(d, f) \subseteq Names(f) /\ DOMAIN pending \subseteq Names(f)
  BY FamilyTyped
<1>2. /\ parseOwnedNames(e, f) = parseOwnedNames(d, f) /\ parseArtifactReceipts(e, f) = pending
      /\ \A n \in Names(f) : e[<<f, n>>] = d[<<f, n>>]
  BY FamilyFrame
<1>3. Shipped[v][f] \subseteq Names(f)
  BY DEF Names
<1>4. e[Pending(f)] = d[Pending(f)]
  BY DEF FamilyPaths
<1>5. recoveredArtifacts(d, f) = {n \in DOMAIN pending \ parseOwnedNames(d, f) : d[<<f, n>>] = pending[n] /\ d[<<f, n>>] # None}
  BY DEF recoveredArtifacts
<1>6. recoveredArtifacts(e, f) = {n \in DOMAIN pending \ parseOwnedNames(d, f) : e[<<f, n>>] = pending[n] /\ e[<<f, n>>] # None}
  BY <1>2 DEF recoveredArtifacts
<1> HIDE DEF pending
<1>7. recoveredArtifacts(e, f) = recoveredArtifacts(d, f)
  BY <1>1, <1>2, <1>5, <1>6
<1>8. recoveredArtifacts(d, f) \subseteq Names(f)
  BY <1>1, <1>5
<1> DEFINE prior == Prior(d, f)
           new == Shipped[v][f] \ prior
           Plan(b) == [refused |-> b, prior |-> prior, recovered |-> recoveredArtifacts(d, f) # {},
             receipts |-> [n \in DOMAIN pending \cup new |-> IF n \in new THEN Made(v) ELSE pending[n]],
             hadPending |-> d[Pending(f)] # None]
           Refuses(x) == \/ \E n \in DOMAIN pending \ prior : x[<<f, n>>] # None
                         \/ \E n \in new \ DOMAIN pending : x[<<f, n>>] # None
<1>9. planArtifactFamily(d, f, v) = Plan(Refuses(d))
  BY DEF planArtifactFamily, Prior, pending
<1>10. planArtifactFamily(e, f, v) = Plan(Refuses(e))
  BY <1>2, <1>4, <1>7 DEF planArtifactFamily, Prior, pending
<1>11. Refuses(d) = Refuses(e)
  BY <1>1, <1>2, <1>3
<1>12. Prior(e, f) = Prior(d, f) /\ Prior(d, f) \subseteq Names(f)
  BY <1>1, <1>2, <1>7, <1>8 DEF Prior
<1> HIDE DEF Refuses
<1>13. Plan(Refuses(d)) = Plan(Refuses(e))
  BY <1>11
<1> QED BY <1>9, <1>10, <1>12, <1>13

(* The files once the families F are written.                              *)
AfterFamilies(d, F, v) ==
  [p \in Paths |-> IF \E f \in F : p \in FamilyPaths(f) THEN AfterFamily(d, CHOOSE f \in F : p \in FamilyPaths(f), v)[p] ELSE d[p]]

(* The files after F, path by path.                                        *)
LEMMA AfterFamiliesAt ==
  ASSUME NEW d, NEW F, F \subseteq Families, NEW v
  PROVE  /\ \A f \in F : \A p \in FamilyPaths(f) : AfterFamilies(d, F, v)[p] = AfterFamily(d, f, v)[p]
         /\ \A p \in Paths : (\A f \in F : p \notin FamilyPaths(f)) => AfterFamilies(d, F, v)[p] = d[p]
<1>1. ASSUME NEW f \in F, NEW p \in FamilyPaths(f) PROVE AfterFamilies(d, F, v)[p] = AfterFamily(d, f, v)[p]
  <2>1. p \in Paths /\ \A g \in F : p \in FamilyPaths(g) => g = f
    BY FamilyPathsArePaths
  <2>2. (CHOOSE g \in F : p \in FamilyPaths(g)) = f
    BY <2>1
  <2> QED BY <2>1, <2>2 DEF AfterFamilies
<1>2. \A p \in Paths : (\A f \in F : p \notin FamilyPaths(f)) => AfterFamilies(d, F, v)[p] = d[p]
  BY DEF AfterFamilies
<1> QED BY <1>1, <1>2

(* One family more is a write to that family's files.                      *)
LEMMA AfterOneMore ==
  ASSUME NEW d, Typed(d), NEW F, F \subseteq Families, NEW f \in Families \ F, NEW v \in Versions
  PROVE  /\ \A p \in FamilyPaths(f) : AfterFamilies(d, F, v)[p] = d[p]
         /\ AfterFamilies(d, F \cup {f}, v) = AfterFamily(AfterFamilies(d, F, v), f, v)
<1> DEFINE e == AfterFamilies(d, F, v)
           a == AfterFamilies(d, F \cup {f}, v)
           b == AfterFamily(e, f, v)
<1>1. \A p \in FamilyPaths(f) : p \in Paths /\ \A g \in F : p \notin FamilyPaths(g)
  BY FamilyPathsArePaths
<1>7. /\ \A g \in F : \A p \in FamilyPaths(g) : e[p] = AfterFamily(d, g, v)[p]
      /\ \A p \in Paths : (\A g \in F : p \notin FamilyPaths(g)) => e[p] = d[p]
  BY AfterFamiliesAt
<1>8. /\ \A g \in F \cup {f} : \A p \in FamilyPaths(g) : a[p] = AfterFamily(d, g, v)[p]
      /\ \A p \in Paths : (\A g \in F \cup {f} : p \notin FamilyPaths(g)) => a[p] = d[p]
  <2>1. F \cup {f} \subseteq Families
    OBVIOUS
  <2> QED BY <2>1, AfterFamiliesAt
<1>2. \A p \in FamilyPaths(f) : e[p] = d[p]
  <2> HIDE DEF e
  <2> QED BY <1>1, <1>7
<1>3. a = [p \in Paths |-> a[p]] /\ b = [p \in Paths |-> b[p]] /\ F \cup {f} \subseteq Families
  BY DEF AfterFamilies, AfterFamily
<1> HIDE DEF e, a, b
<1>4. Prior(e, f) = Prior(d, f) /\ Prior(d, f) \subseteq Names(f) /\ Shipped[v][f] \subseteq Names(f)
  <2>1. Shipped[v][f] \subseteq Names(f)
    BY DEF Names
  <2> QED BY <1>2, <2>1, PlanFrame
<1>5. ASSUME NEW p \in Paths PROVE a[p] = b[p]
  <2>1. CASE p \in FamilyPaths(f)
    <3>1. a[p] = AfterFamily(d, f, v)[p]
      BY <1>8, <2>1
    <3>2. AfterFamily(d, f, v)[p] = b[p]
      BY <1>2, <1>4, <2>1 DEF AfterFamily, b
    <3> QED BY <3>1, <3>2
  <2>2. CASE p \notin FamilyPaths(f)
    <3>1. b[p] = e[p]
      BY <1>4, <2>2 DEF AfterFamily, FamilyPaths, b
    <3>2. CASE \E g \in F : p \in FamilyPaths(g)
      <4>1. PICK g \in F : p \in FamilyPaths(g)
        BY <3>2
      <4>2. a[p] = AfterFamily(d, g, v)[p]
        BY <1>8, <4>1
      <4>3. e[p] = AfterFamily(d, g, v)[p]
        BY <1>7, <4>1
      <4> QED BY <3>1, <4>2, <4>3
    <3>3. CASE \A g \in F : p \notin FamilyPaths(g)
      <4>1. a[p] = d[p]
        BY <1>8, <2>2, <3>3
      <4>2. e[p] = d[p]
        BY <1>7, <3>3
      <4> QED BY <3>1, <4>1, <4>2
    <3> QED BY <3>2, <3>3
  <2> QED BY <2>1, <2>2
<1>6. a = b
  BY <1>3, <1>5
<1> QED BY <1>2, <1>6 DEF a, b, e

(* Every family of a host, one after the other.                            *)
LEMMA ArtifactsLead ==
  ASSUME NEW d, NEW c, Sound(d, c), NEW h \in Hosts, NEW v \in Versions
  PROVE  LET plan == materializeArtifactFamilies(d, h, v) IN
         /\ plan.undo = {} /\ plan.err \in {"", "abort"}
         /\ plan.err = "abort" => plan.ops = <<>> /\ \E f \in FamiliesOf[h] : planArtifactFamily(d, f, v).refused
         /\ plan.err = "" => Leads(d, plan.ops, AfterFamilies(d, FamiliesOf[h], v), c)
         /\ Operations(plan.ops)
<1> DEFINE F == FamiliesOf[h]
           q == SetToSeq(F)
           ops(f) == applyArtifactPlan(f, v, planArtifactFamily(d, f, v))
           seqs == Over(F, ops)
           n == Len(q)
           D == [i \in 0..n |-> AfterFamilies(d, {q[j] : j \in 1..i}, v)]
           plan == materializeArtifactFamilies(d, h, v)
<1>1. F \subseteq Families /\ IsFiniteSet(F)
  BY ManagedAssumption DEF Families
<1>2. /\ DOMAIN q = 1..n /\ n \in Nat /\ (\A i \in 1..n : q[i] \in F) /\ \A x \in F : \E i \in 1..n : q[i] = x
      /\ \A i, j \in 1..n : q[i] = q[j] => i = j
  BY <1>1, ListsTheSet
<1>3. CASE \E f \in F : planArtifactFamily(d, f, v).refused
  <2>1. plan = Refuse("abort")
    BY <1>3 DEF materializeArtifactFamilies
  <2> QED BY <1>3, <2>1, NoOperations DEF Refuse
<1>4. CASE \A f \in F : ~planArtifactFamily(d, f, v).refused
  <2>1. plan = Steps(FlattenSeq(seqs))
    BY <1>4 DEF materializeArtifactFamilies
  <2>2. seqs = [i \in 1..n |-> ops(q[i])]
    <3>1. seqs = [i \in DOMAIN q |-> ops(q[i])]
      BY DEF Over
    <3> HIDE DEF seqs, q, n, ops
    <3> QED BY <1>2, <3>1
  <2>3. seqs \in Seq({ops(q[i]) : i \in 1..n}) /\ Len(seqs) = n /\ (n = 0 => seqs = <<>>) /\ \A i \in 1..n : seqs[i] = ops(q[i])
    <3> HIDE DEF seqs, q, n, ops
    <3>1. \A i \in 1..n : seqs[i] = ops(q[i])
      BY <2>2
    <3>2. seqs \in [1..n -> {ops(q[i]) : i \in 1..n}]
      BY <2>2
    <3> QED BY <1>2, <3>1, <3>2
  <2>4. D[0] = d /\ D[n] = AfterFamilies(d, F, v)
    <3>1. {q[j] : j \in 1..0} = {} /\ {q[j] : j \in 1..n} = F
      BY <1>2
    <3>2. AfterFamilies(d, {}, v) = d
      BY DEF AfterFamilies, Sound, Typed
    <3>3. 0 \in 0..n /\ n \in 0..n
      BY <1>2
    <3> HIDE DEF q, n
    <3> QED BY <3>1, <3>2, <3>3
  <2> HIDE DEF seqs, ops
  <2>5. ASSUME NEW i \in 1..n
        PROVE  LET f == q[i] IN /\ f \in Families /\ ~planArtifactFamily(D[i - 1], f, v).refused /\ D[i] = AfterFamily(D[i - 1], f, v)
                                /\ seqs[i] = applyArtifactPlan(f, v, planArtifactFamily(D[i - 1], f, v))
    <3> DEFINE G == {q[j] : j \in 1..(i - 1)}
               f == q[i]
    <3>1. i - 1 \in 0..n /\ i \in 0..n /\ 1..i = 1..(i - 1) \cup {i} /\ i \notin 1..(i - 1) /\ 1..(i - 1) \subseteq 1..n
      BY <1>2
    <3>2. {q[j] : j \in 1..i} = G \cup {f} /\ G \subseteq Families /\ f \in Families \ G /\ f \in F
      <4>1. \A j \in 1..n : q[j] \in F
        BY <1>2
      <4> HIDE DEF q, n, F, D
      <4>2. \A j \in 1..(i - 1) : j \in 1..n /\ j # i
        BY <3>1
      <4>3. f \notin G
        BY <1>2, <4>2
      <4>4. {q[j] : j \in 1..i} = G \cup {f}
        BY <3>1
      <4>5. f \in F /\ G \subseteq F
        BY <4>1, <4>2
      <4> QED BY <1>1, <4>3, <4>4, <4>5
    <3>3. D[i - 1] = AfterFamilies(d, G, v) /\ D[i] = AfterFamilies(d, G \cup {f}, v)
      BY <3>1, <3>2
    <3> HIDE DEF G, D, q, f
    <3>4. Typed(d)
      BY DEF Sound
    <3>5. /\ \A p \in FamilyPaths(f) : D[i - 1][p] = d[p]
          /\ D[i] = AfterFamily(D[i - 1], f, v)
      BY <3>2, <3>3, <3>4, AfterOneMore
    <3>6. planArtifactFamily(D[i - 1], f, v) = planArtifactFamily(d, f, v)
      BY <3>2, <3>4, <3>5, PlanFrame
    <3>7. seqs[i] = applyArtifactPlan(f, v, planArtifactFamily(d, f, v)) /\ ~planArtifactFamily(d, f, v).refused
      BY <1>4, <2>3, <3>2 DEF f, ops
    <3> QED BY <3>2, <3>5, <3>6, <3>7 DEF f
  <2> HIDE DEF D, q, n
  <2>6. ASSUME NEW i \in 1..n, Sound(D[i - 1], c)
        PROVE  Operations(seqs[i]) /\ Leads(D[i - 1], seqs[i], D[i], c) /\ Sound(D[i], c)
    <3> DEFINE f == q[i]
    <3>1. /\ f \in Families /\ ~planArtifactFamily(D[i - 1], f, v).refused /\ D[i] = AfterFamily(D[i - 1], f, v)
          /\ seqs[i] = applyArtifactPlan(f, v, planArtifactFamily(D[i - 1], f, v))
      BY <2>5
    <3> HIDE DEF f
    <3>2. Operations(seqs[i]) /\ Leads(D[i - 1], seqs[i], D[i], c)
      BY <2>6, <3>1, FamilyLeads
    <3> QED BY <3>2, LeadsEnds
  <2>7. \A i \in 0..n : Sound(D[i], c)
    <3> DEFINE S == {i \in Nat : i <= n => Sound(D[i], c)}
    <3>1. 0 \in S
      BY <2>4
    <3>2. ASSUME NEW i \in Nat, i \in S PROVE i + 1 \in S
      <4>1. i + 1 <= n => i + 1 \in 1..n /\ (i + 1) - 1 = i /\ i <= n
        BY <1>2
      <4> QED BY <2>6, <3>2, <4>1
    <3>3. Nat \subseteq S
      <4> HIDE DEF S
      <4> QED BY <3>1, <3>2, SetInduction
    <3> QED BY <3>3
  <2>8. \A i \in 1..n : Operations(seqs[i]) /\ Leads(D[i - 1], seqs[i], D[i], c)
    <3>1. \A i \in 1..n : i - 1 \in 0..n
      BY <1>2
    <3> QED BY <2>6, <2>7, <3>1
  <2>9. Leads(D[0], FlattenSeq(seqs), D[n], c) /\ Operations(FlattenSeq(seqs))
    <3>1. Sound(D[0], c)
      BY <2>4
    <3> QED BY <1>2, <2>3, <2>8, <3>1, LeadsFlatten
  <2>10. plan.undo = {} /\ plan.err = "" /\ plan.ops = FlattenSeq(seqs)
    <3> HIDE DEF plan
    <3> QED BY <2>1 DEF Steps
  <2> HIDE DEF plan
  <2> QED BY <2>4, <2>9, <2>10 DEF plan
<1> QED BY <1>3, <1>4

-----------------------------------------------------------------------------
(* Project guidance.                                                       *)

(* What fits at the guidance's paths.                                      *)
LEMMA FitsGuidance ==
  ASSUME NEW c
  PROVE  /\ \A k \in Packs : c \in {None, Mine} \cup {<<"pack", r>> : r \in DOMAIN Catalogue} <=> Fits(Pack(k), c)
         /\ c \in {None, Mine} \cup {<<"index", r, S>> : r \in DOMAIN Catalogue, S \in SUBSET Packs} <=> Fits(indexFile, c)
         /\ c = None \/ (\E N \in SUBSET GuidancePaths : c \in [N -> Installed]) <=> Fits(ownedFile, c)
         /\ c = None \/ (\E N \in SUBSET GuidancePaths : c \in [N -> Receipts]) <=> Fits(pendingFile, c)
         /\ \A p \in RootFiles : c \in {None} \cup Roots <=> Fits(p, c)
<1>1. \A p \in GuidancePaths \cup {ownedFile, pendingFile} : p \notin Artifacts /\ \A f \in Families : p # Owned(f) /\ p # Pending(f)
  <2> SUFFICES ASSUME NEW p \in GuidancePaths \cup {ownedFile, pendingFile}
               PROVE  p \notin Artifacts /\ \A f \in Families : p # Owned(f) /\ p # Pending(f)
    OBVIOUS
  <2>1. \A f \in Families : p \notin FamilyPaths(f)
    BY FamilyPathsArePaths
  <2>2. \A a \in Artifacts : \E f \in Families : a \in FamilyPaths(f)
    BY DEF Artifacts, FamilyPaths
  <2> QED BY <2>1, <2>2 DEF FamilyPaths
<1>2. \A p \in GuidancePaths \cup {ownedFile, pendingFile} : p \notin Singles
  BY OtherPaths
<1>4. \A p \in GuidancePaths : p \notin {ownedFile, pendingFile}
  BY OtherPaths
<1>5. ASSUME NEW k \in Packs PROVE c \in {None, Mine} \cup {<<"pack", r>> : r \in DOMAIN Catalogue} <=> Fits(Pack(k), c)
  <2>1. Pack(k) \in GuidancePaths /\ Pack(k) \in {Pack(j) : j \in Packs} /\ Pack(k) \notin RootFiles /\ Pack(k) # indexFile
    BY OtherPaths
  <2> QED BY <1>1, <1>2, <1>4, <2>1 DEF Fits, Singles
<1>6. c \in {None, Mine} \cup {<<"index", r, S>> : r \in DOMAIN Catalogue, S \in SUBSET Packs} <=> Fits(indexFile, c)
  <2>1. indexFile \in GuidancePaths /\ indexFile \notin {Pack(j) : j \in Packs} /\ indexFile \notin RootFiles
    BY OtherPaths
  <2> QED BY <1>1, <1>2, <1>4, <2>1 DEF Fits, Singles
<1>7. c = None \/ (\E N \in SUBSET GuidancePaths : c \in [N -> Installed]) <=> Fits(ownedFile, c)
  <2>1. ownedFile \notin {Pack(j) : j \in Packs} /\ ownedFile # indexFile /\ ownedFile \notin RootFiles /\ ownedFile # pendingFile
    BY OtherPaths
  <2> QED BY <1>1, <1>2, <2>1 DEF Fits, Singles
<1>8. c = None \/ (\E N \in SUBSET GuidancePaths : c \in [N -> Receipts]) <=> Fits(pendingFile, c)
  <2>1. pendingFile \notin {Pack(j) : j \in Packs} /\ pendingFile # indexFile /\ pendingFile \notin RootFiles /\ ownedFile # pendingFile
    BY OtherPaths
  <2> QED BY <1>1, <1>2, <2>1 DEF Fits, Singles
<1>9. ASSUME NEW p \in RootFiles PROVE c \in {None} \cup Roots <=> Fits(p, c)
  <2>1. p \in GuidancePaths /\ p \notin {Pack(j) : j \in Packs} /\ p # indexFile
    BY OtherPaths
  <2> QED BY <1>1, <1>2, <1>4, <2>1 DEF Fits, Singles
<1> QED BY <1>5, <1>6, <1>7, <1>8, <1>9

(* Anything fits at a temporary file.                                      *)
LEMMA FitsTemp ==
  ASSUME NEW p \in Temps, NEW c
  PROVE  Fits(p, c)
<1>1. p \notin GuidancePaths \cup {ownedFile, pendingFile} \cup Singles
  BY OtherPaths
<1>2. p \notin {Pack(j) : j \in Packs} /\ p # indexFile /\ p \notin RootFiles
  BY <1>1, OtherPaths
<1>3. p \notin Artifacts /\ \A f \in Families : p # Owned(f) /\ p # Pending(f)
  <2>1. \A f \in Families : p \notin FamilyPaths(f)
    BY FamilyPathsArePaths
  <2>2. \A a \in Artifacts : \E f \in Families : a \in FamilyPaths(f)
    BY DEF Artifacts, FamilyPaths
  <2> QED BY <2>1, <2>2 DEF FamilyPaths
<1> QED BY <1>1, <1>2, <1>3 DEF Fits, Singles

(* What the user writes is nothing aiwf installs.                          *)
LEMMA InstalledIsNotTheUsers ==
  /\ None \notin Installed /\ Mine \notin Installed /\ Damaged \notin Installed /\ Mine # None /\ Damaged # None
  /\ \A r \in DOMAIN Catalogue : <<"pack", r>> \in Installed
  /\ \A r \in DOMAIN Catalogue, S \in SUBSET Packs : <<"index", r, S>> \in Installed
  /\ \A v \in Versions : <<"route", v>> \in Installed
<1>1. None \notin Installed /\ Mine # None /\ Damaged # None
  BY ManagedAssumption
<1>2. \A x \in Installed : x[1] \in {"pack", "index", "route"}
  BY DEF Installed
<1>3. Mine[1] = "user" /\ Damaged[1] = "user"
  BY DEF Mine, Damaged
<1>4. (\A r \in DOMAIN Catalogue : <<"pack", r>> \in Installed) /\ (\A v \in Versions : <<"route", v>> \in Installed)
      /\ \A r \in DOMAIN Catalogue, S \in SUBSET Packs : <<"index", r, S>> \in Installed
  BY DEF Installed
<1> QED BY <1>1, <1>2, <1>3, <1>4

(* The types of what an installation reads.                                *)
LEMMA GuidanceTyped ==
  ASSUME NEW d, Typed(d)
  PROVE  /\ recordOf(d, ownedFile) \in [DOMAIN recordOf(d, ownedFile) -> Installed]
         /\ recordOf(d, pendingFile) \in [DOMAIN recordOf(d, pendingFile) -> Receipts]
         /\ DOMAIN recordOf(d, ownedFile) \subseteq GuidancePaths /\ DOMAIN recordOf(d, pendingFile) \subseteq GuidancePaths
         /\ \A p \in RootFiles : At(d, p) \in Roots
         /\ \A p \in GuidancePaths \ RootFiles : d[p] \in {None, Mine} \cup Installed /\ ownedBytes(d, p) = d[p]
         /\ \A p \in GuidancePaths : ownedBytes(d, p) \in {None, Mine, Damaged} \cup Installed
<1>1. \A p \in GuidancePaths \cup {ownedFile, pendingFile} : p \in Paths /\ Fits(p, d[p])
  BY OtherPaths DEF Typed
<1>2. d[ownedFile] = None \/ \E N \in SUBSET GuidancePaths : d[ownedFile] \in [N -> Installed]
  BY <1>1, FitsGuidance
<1>3. d[pendingFile] = None \/ \E N \in SUBSET GuidancePaths : d[pendingFile] \in [N -> Receipts]
  BY <1>1, FitsGuidance
<1>4. recordOf(d, ownedFile) \in [DOMAIN recordOf(d, ownedFile) -> Installed] /\ DOMAIN recordOf(d, ownedFile) \subseteq GuidancePaths
  <2>1. CASE d[ownedFile] = None
    BY <2>1 DEF recordOf
  <2>2. CASE d[ownedFile] # None
    BY <1>2, <2>2 DEF recordOf
  <2> QED BY <2>1, <2>2
<1>5. recordOf(d, pendingFile) \in [DOMAIN recordOf(d, pendingFile) -> Receipts] /\ DOMAIN recordOf(d, pendingFile) \subseteq GuidancePaths
  <2>1. CASE d[pendingFile] = None
    BY <2>1 DEF recordOf
  <2>2. CASE d[pendingFile] # None
    BY <1>3, <2>2 DEF recordOf
  <2> QED BY <2>1, <2>2
<1>6. ASSUME NEW p \in RootFiles PROVE At(d, p) \in Roots
  <2>1. d[p] \in {None} \cup Roots
    BY <1>1, FitsGuidance, OtherPaths
  <2>2. BlankFile \in Roots
    BY DEF BlankFile, Roots
  <2> QED BY <2>1, <2>2 DEF At
<1>7. ASSUME NEW p \in GuidancePaths \ RootFiles PROVE d[p] \in {None, Mine} \cup Installed /\ ownedBytes(d, p) = d[p]
  <2>1. ownedBytes(d, p) = d[p]
    BY DEF ownedBytes
  <2>2. CASE p = indexFile
    BY <1>1, <2>1, <2>2, FitsGuidance DEF Installed
  <2>3. ASSUME NEW k \in Packs, p = Pack(k) PROVE d[p] \in {None, Mine} \cup Installed
    BY <1>1, <2>3, FitsGuidance DEF Installed
  <2> QED BY <2>1, <2>2, <2>3 DEF GuidancePaths
<1>8. ASSUME NEW p \in GuidancePaths PROVE ownedBytes(d, p) \in {None, Mine, Damaged} \cup Installed
  <2>1. CASE p \in RootFiles
    <3>1. At(d, p).route \in {None, Mine, Damaged} \cup Installed
      BY <1>6, <2>1 DEF Roots
    <3> QED BY <2>1, <3>1 DEF ownedBytes
  <2>2. CASE p \notin RootFiles
    BY <1>7, <2>2
  <2> QED BY <2>1, <2>2
<1> QED BY <1>4, <1>5, <1>6, <1>7, <1>8

(* Writing the guidance's files, but none of the user's.                   *)
LEMMA SoundGuidance ==
  ASSUME NEW d, NEW e, NEW c, Sound(d, c), e = [p \in Paths |-> e[p]],
         \A p \in Paths : e[p] # d[p] => p \in GuidancePaths \cup {ownedFile, pendingFile} \cup Temps /\ Fits(p, e[p]),
         \A p \in GuidancePaths : ownedBytes(d, p) \in {Mine, Damaged} => ownedBytes(e, p) = ownedBytes(d, p),
         GuidanceSound(e, c)
  PROVE  Sound(e, c)
<1>1. ASSUME NEW f \in Families PROVE \A p \in FamilyPaths(f) : e[p] = d[p]
  BY FamilyPathsArePaths
<1>2. \A p \in {Settings, Project, Cli} : e[p] = d[p]
  BY OtherPaths DEF Singles
<1>3. Typed(e)
  BY <1>2 DEF Sound, Typed
<1>4. ArtifactsSound(e, c.tidy)
  BY <1>1, FamilyFrame DEF Sound, ArtifactsSound
<1>6. ASSUME NEW k \in c.kept PROVE KeptAt(e, k)
  <2>1. KeptAt(d, k)
    BY DEF Sound, KeptSound
  <2>2. ASSUME NEW f \in Families, NEW n \in Names(f), k = <<<<f, n>>, Mine>>, d[<<f, n>>] = Mine, n \notin Claimed(d, f)
        PROVE  KeptAt(e, k)
    <3>1. e[<<f, n>>] = d[<<f, n>>] /\ Claimed(e, f) = Claimed(d, f)
      BY <1>1, FamilyFrame
    <3> QED BY <2>2, <3>1 DEF KeptAt
  <2>3. ASSUME NEW p \in GuidancePaths \ RootFiles, k = <<p, Mine>>, d[p] = Mine PROVE KeptAt(e, k)
    <3>1. e[p] = Mine
      BY <2>3 DEF ownedBytes
    <3> QED BY <2>3, <3>1 DEF KeptAt
  <2>4. ASSUME NEW p \in RootFiles, NEW r \in {Mine, Damaged}, k = <<p, r>>, At(d, p).route = r PROVE KeptAt(e, k)
    <3>1. At(e, p).route = r
      BY <2>4, OtherPaths DEF ownedBytes
    <3> QED BY <2>4, <3>1 DEF KeptAt
  <2>5. CASE k = <<Settings, "user">> /\ d[Settings] # None /\ "user" \in d[Settings].entries
    BY <1>2, <2>5 DEF KeptAt
  <2> QED BY <2>1, <2>2, <2>3, <2>4, <2>5 DEF KeptAt
<1> QED BY <1>3, <1>4, <1>6 DEF Sound, KeptSound

(* What a selection renders to.                                            *)
LEMMA Rendered ==
  ASSUME NEW rev \in DOMAIN Catalogue, NEW sel \in SUBSET Packs, NEW hosts \in SUBSET Hosts, NEW v \in Versions
  PROVE  LET desired == renderInstallation(rev, sel, hosts, v) IN
         /\ desired \in [DOMAIN desired -> Installed] /\ DOMAIN desired \subseteq GuidancePaths /\ indexFile \in DOMAIN desired
         /\ desired[indexFile] = <<"index", rev, sel \cap Catalogue[rev]>>
         /\ \A k \in Packs : /\ Pack(k) \in DOMAIN desired <=> k \in sel \cap Catalogue[rev]
                             /\ Pack(k) \in DOMAIN desired => desired[Pack(k)] = <<"pack", rev>>
         /\ \A p \in DOMAIN desired \ RootFiles : Fits(p, desired[p])
<1> DEFINE D == {Pack(k) : k \in sel \cap Catalogue[rev]} \cup {indexFile} \cup {FileOf[h] : h \in hosts}
           desired == renderInstallation(rev, sel, hosts, v)
<1>1. desired = [p \in D |->
        IF p = indexFile THEN <<"index", rev, sel \cap Catalogue[rev]>> ELSE IF p \in RootFiles THEN <<"route", v>> ELSE <<"pack", rev>>]
  BY DEF renderInstallation
<1>2. D \subseteq GuidancePaths
  BY DEF GuidancePaths, RootFiles
<1>3. indexFile \notin RootFiles /\ \A k \in Packs : Pack(k) \notin RootFiles /\ Pack(k) # indexFile
  BY OtherPaths
<1>4. \A k \in Packs : Pack(k) \in D <=> k \in sel \cap Catalogue[rev]
  <2> SUFFICES ASSUME NEW k \in Packs PROVE Pack(k) \in D <=> k \in sel \cap Catalogue[rev]
    OBVIOUS
  <2>1. \A j : Pack(j) = Pack(k) => j = k
    BY DEF Pack
  <2>2. \A h \in hosts : FileOf[h] \in RootFiles
    BY DEF RootFiles
  <2>3. Pack(k) # indexFile /\ Pack(k) \notin RootFiles
    BY <1>3
  <2> QED BY <2>1, <2>2, <2>3
<1>5. sel \cap Catalogue[rev] \in SUBSET Packs
  OBVIOUS
<1>6. \A p \in D : desired[p] \in Installed
  BY <1>1, <1>5, InstalledIsNotTheUsers
<1>7. ASSUME NEW p \in D \ RootFiles PROVE Fits(p, desired[p])
  <2>1. CASE p = indexFile
    BY <1>1, <1>5, <2>1, FitsGuidance
  <2>2. ASSUME NEW k \in Packs, p = Pack(k) PROVE Fits(p, desired[p])
    <3>1. desired[p] = <<"pack", rev>>
      BY <1>1, <1>3, <2>2
    <3> QED BY <2>2, <3>1, FitsGuidance
  <2> QED BY <1>2, <2>1, <2>2 DEF GuidancePaths
<1>8. DOMAIN desired = D
  BY <1>1
<1>9. desired[indexFile] = <<"index", rev, sel \cap Catalogue[rev]>> /\ \A k \in Packs : Pack(k) \in D => desired[Pack(k)] = <<"pack", rev>>
  BY <1>1, <1>3
<1>10. desired \in [D -> Installed] /\ indexFile \in D
  BY <1>1, <1>6
<1> HIDE DEF desired, D
<1> QED BY <1>2, <1>4, <1>7, <1>8, <1>9, <1>10 DEF desired

(* The files an installation answers for, what each is to hold, and those  *)
(* that do not hold it yet.                                                *)
Governed(d, desired) ==
  (RootFiles \cup DOMAIN desired \cup DOMAIN recordOf(d, ownedFile) \cup DOMAIN recordOf(d, pendingFile))
  \ {p \in RootFiles : p \notin DOMAIN desired}
After(desired, p) == IF p \in DOMAIN desired THEN desired[p] ELSE None
Changed(d, desired) ==
  {p \in Governed(d, desired) : IF p \in RootFiles THEN ~(ownedBytes(d, p) = After(desired, p) /\ At(d, p).legacy = "none")
                                ELSE d[p] # After(desired, p)}
WriteOf(d, desired, p) == [at |-> p, before |-> ownedBytes(d, p), after |-> After(desired, p)]

GoodDesire(desired) ==
  /\ desired \in [DOMAIN desired -> Installed] /\ DOMAIN desired \subseteq GuidancePaths /\ indexFile \in DOMAIN desired
  /\ \A p \in DOMAIN desired \ RootFiles : Fits(p, desired[p])

(* There are finitely many guidance files.                                 *)
LEMMA GuidanceIsFinite == IsFiniteSet(GuidancePaths) /\ \A S \in SUBSET GuidancePaths : IsFiniteSet(S)
<1>1. IsFiniteSet(Packs) /\ IsFiniteSet(Hosts)
  <2>1. Hosts = {"claude-code"} \cup {"codex"}
    BY DEF Hosts
  <2> QED BY <2>1, ManagedAssumption, FS_Singleton, FS_Union
<1>2. IsFiniteSet({Pack(k) : k \in Packs}) /\ IsFiniteSet(RootFiles) /\ IsFiniteSet({indexFile})
  <2> DEFINE F == [k \in Packs |-> Pack(k)]
             T == {Pack(k) : k \in Packs}
  <2>1. F \in Surjection(Packs, T)
    BY DEF Surjection
  <2>2. RootFiles = {FileOf["claude-code"]} \cup {FileOf["codex"]}
    BY DEF RootFiles, Hosts
  <2>3. IsFiniteSet(T)
    <3> HIDE DEF F, T
    <3> QED BY <1>1, <2>1, FS_Surjection
  <2> QED BY <2>2, <2>3, FS_Singleton, FS_Union
<1>3. IsFiniteSet(GuidancePaths)
  BY <1>2, FS_Union DEF GuidancePaths
<1> QED BY <1>3, FS_Subset

(* A plan that is not refused replaces only what aiwf wrote.               *)
LEMMA GovernedIsAiwfs ==
  ASSUME NEW d, Typed(d), NEW desired, GoodDesire(desired), ~planInstallation(d, desired).refused
  PROVE  /\ Governed(d, desired) \subseteq GuidancePaths /\ DOMAIN desired \subseteq Governed(d, desired)
         /\ \A p \in Governed(d, desired) : /\ replaceable(d, p) /\ ownedBytes(d, p) \in {None} \cup Installed
                                            /\ After(desired, p) \in {None} \cup Installed
                                            /\ p \in RootFiles => p \in DOMAIN desired
         /\ \A p \in GuidancePaths \ Governed(d, desired) :
              p \in RootFiles \/ p \notin DOMAIN desired \cup DOMAIN recordOf(d, ownedFile) \cup DOMAIN recordOf(d, pendingFile)
         /\ Changed(d, desired) \subseteq Governed(d, desired)
         /\ \A p \in Governed(d, desired) \ Changed(d, desired) : ownedBytes(d, p) = After(desired, p)
<1> DEFINE N == Governed(d, desired)
           owned == recordOf(d, ownedFile)
           pending == recordOf(d, pendingFile)
<1>1. /\ owned \in [DOMAIN owned -> Installed] /\ pending \in [DOMAIN pending -> Receipts]
      /\ DOMAIN owned \subseteq GuidancePaths /\ DOMAIN pending \subseteq GuidancePaths
      /\ \A p \in GuidancePaths : ownedBytes(d, p) \in {None, Mine, Damaged} \cup Installed
  BY GuidanceTyped
<1>2. N \subseteq GuidancePaths /\ DOMAIN desired \subseteq N
  BY <1>1, OtherPaths DEF Governed, GoodDesire
<1>3. \A p \in N : replaceable(d, p)
  BY DEF planInstallation, Governed
<1>4. ASSUME NEW p \in N PROVE ownedBytes(d, p) \in {None} \cup Installed
  <2>1. \/ ownedBytes(d, p) = None
        \/ p \in DOMAIN owned /\ ownedBytes(d, p) = owned[p]
        \/ p \in DOMAIN pending /\ recognizes(pending[p], ownedBytes(d, p))
    BY <1>3 DEF replaceable
  <2>2. p \in DOMAIN pending => pending[p].before \in {None} \cup Installed /\ pending[p].after \in {None} \cup Installed
    BY <1>1 DEF Receipts
  <2> QED BY <1>1, <2>1, <2>2 DEF recognizes
<1>5. \A p \in N : After(desired, p) \in {None} \cup Installed /\ (p \in RootFiles => p \in DOMAIN desired)
  BY DEF After, Governed, GoodDesire
<1>6. \A p \in GuidancePaths \ N : p \in RootFiles \/ p \notin DOMAIN desired \cup DOMAIN owned \cup DOMAIN pending
  BY DEF Governed
<1>7. Changed(d, desired) \subseteq N /\ \A p \in N \ Changed(d, desired) : ownedBytes(d, p) = After(desired, p)
  BY DEF Changed, ownedBytes
<1> QED BY <1>2, <1>3, <1>4, <1>5, <1>6, <1>7

(* Every changed file is written once.                                     *)
WritesAt(d, desired, writes, at) ==
  /\ writes \in Seq(Range(writes)) /\ at \in [1..Len(writes) -> Changed(d, desired)]
  /\ \A i \in 1..Len(writes) : writes[i] = WriteOf(d, desired, at[i])
  /\ \A p \in Changed(d, desired) : \E i \in 1..Len(writes) : at[i] = p
  /\ \A i, j \in 1..Len(writes) : at[i] = at[j] => i = j

(* The writes of a plan are the changed files, each once.                  *)
LEMMA WritesAreChanges ==
  ASSUME NEW d, Typed(d), NEW desired, GoodDesire(desired), Changed(d, desired) \subseteq GuidancePaths
  PROVE  /\ \E at : WritesAt(d, desired, planInstallation(d, desired).writes, at)
         /\ Range(planInstallation(d, desired).writes) = {WriteOf(d, desired, p) : p \in Changed(d, desired)}
         /\ planInstallation(d, desired).writes = <<>> => Changed(d, desired) = {}
<1> DEFINE C == Changed(d, desired)
           W(p) == WriteOf(d, desired, p)
           S == C \ {indexFile}
           q == SetToSeq(S)
           m == Len(q)
           writes == planInstallation(d, desired).writes
           s == Over(S, W)
           t == IF indexFile \in C THEN <<W(indexFile)>> ELSE <<>>
<1>1. IsFiniteSet(S)
  BY GuidanceIsFinite
<1>2. /\ DOMAIN q = 1..m /\ m \in Nat /\ (\A i \in 1..m : q[i] \in S) /\ \A x \in S : \E i \in 1..m : q[i] = x
      /\ \A i, j \in 1..m : q[i] = q[j] => i = j
  BY <1>1, ListsTheSet
<1>3. writes = s \o t
  <2>1. d[indexFile] = ownedBytes(d, indexFile)
    BY OtherPaths, GuidanceTyped
  <2>2. writes = Over(S, LAMBDA p : [at |-> p, before |-> ownedBytes(d, p), after |-> After(desired, p)])
          \o (IF indexFile \in C THEN <<[at |-> indexFile, before |-> d[indexFile], after |-> After(desired, indexFile)]>> ELSE <<>>)
    BY DEF planInstallation, Changed, Governed, After
  <2> QED BY <2>1, <2>2 DEF Over, WriteOf
<1>4. s = [i \in 1..m |-> W(q[i])]
  <2>1. s = [i \in DOMAIN q |-> W(q[i])]
    BY DEF Over
  <2> HIDE DEF s, q, m, W
  <2> QED BY <1>2, <2>1
<1> HIDE DEF s, q, m, W, writes
<1> DEFINE n == IF indexFile \in C THEN m + 1 ELSE m
           at == [i \in 1..n |-> IF i \in 1..m THEN q[i] ELSE indexFile]
           X == {W(p) : p \in C}
<1>5. s \in Seq(X) /\ Len(s) = m
  <2>1. s \in [1..m -> X]
    BY <1>2, <1>4
  <2> QED BY <1>2, <2>1
<1>6. t \in Seq(X) /\ Len(t) = n - m /\ n \in Nat
  <2>1. CASE indexFile \in C
    BY <1>2, <2>1
  <2>2. CASE indexFile \notin C
    BY <1>2, <2>2
  <2> QED BY <2>1, <2>2
<1>7. writes \in Seq(X) /\ Len(writes) = n
  BY <1>2, <1>3, <1>5, <1>6
<1>8. ASSUME NEW i \in 1..n PROVE writes[i] = W(at[i]) /\ at[i] \in C
  <2>1. CASE i \in 1..m
    <3>1. writes[i] = s[i]
      BY <1>2, <1>3, <1>5, <1>6, <2>1
    <3>2. s[i] = W(q[i]) /\ at[i] = q[i] /\ q[i] \in S
      BY <1>2, <1>4, <2>1
    <3> QED BY <3>1, <3>2
  <2>2. CASE i \notin 1..m
    <3>1. i = m + 1 /\ indexFile \in C
      BY <1>2, <2>2
    <3>2. writes[i] = t[1]
      BY <1>2, <1>3, <1>5, <1>6, <3>1
    <3>3. t[1] = W(indexFile) /\ at[i] = indexFile
      BY <2>2, <3>1
    <3> QED BY <3>1, <3>2, <3>3
  <2> QED BY <2>1, <2>2
<1>9. ASSUME NEW p \in C PROVE \E i \in 1..n : at[i] = p
  <2>1. CASE p = indexFile
    <3>1. m + 1 \in 1..n /\ m + 1 \notin 1..m
      BY <1>2, <2>1
    <3>2. at[m + 1] = p
      BY <2>1, <3>1
    <3> QED BY <3>1, <3>2
  <2>2. CASE p # indexFile
    <3>1. PICK i \in 1..m : q[i] = p
      BY <1>2, <2>2
    <3>2. i \in 1..n /\ at[i] = p
      BY <1>2, <3>1
    <3> QED BY <3>2
  <2> QED BY <2>1, <2>2
<1>10. ASSUME NEW i \in 1..n, NEW j \in 1..n, at[i] = at[j] PROVE i = j
  <2>1. \A k \in 1..n : (k \in 1..m /\ at[k] = q[k] /\ q[k] # indexFile) \/ (k = m + 1 /\ at[k] = indexFile)
    BY <1>2
  <2> HIDE DEF at, n
  <2> QED BY <1>2, <1>10, <2>1
<1>11. at \in [1..n -> C]
  BY <1>8
<1>12. Range(writes) = X
  <2>1. DOMAIN writes = 1..n
    BY <1>7
  <2>2. \A i \in 1..n : writes[i] \in X
    BY <1>8
  <2>3. ASSUME NEW p \in C PROVE \E i \in 1..n : writes[i] = W(p)
    <3>1. PICK i \in 1..n : at[i] = p
      BY <1>9
    <3> QED BY <1>8, <3>1
  <2> HIDE DEF n
  <2> QED BY <2>1, <2>2, <2>3 DEF Range
<1> HIDE DEF at, n, X, t
<1>13. WritesAt(d, desired, writes, at)
  BY <1>7, <1>8, <1>9, <1>10, <1>11, <1>12 DEF WritesAt, W
<1>14. writes = <<>> => C = {}
  <2> SUFFICES ASSUME writes = <<>>, NEW p \in C PROVE FALSE
    OBVIOUS
  <2>1. n = 0
    BY <1>7
  <2> QED BY <1>9, <2>1
<1> QED BY <1>12, <1>13, <1>14 DEF writes, X, W

(* The receipts tell of each changed file what it held and what it is to   *)
(* hold, and keep what earlier ones told of others.                        *)
LEMMA ReceiptsTell ==
  ASSUME NEW d, Typed(d), NEW desired, GoodDesire(desired), ~planInstallation(d, desired).refused
  PROVE  LET R == receipts(d, planInstallation(d, desired).writes)
             pending == recordOf(d, pendingFile)
             C == Changed(d, desired)
         IN /\ R \in [DOMAIN pending \cup C -> Receipts] /\ DOMAIN pending \cup C \in SUBSET GuidancePaths /\ R # None
            /\ \A p \in C : R[p].before = ownedBytes(d, p) /\ R[p].after = After(desired, p)
            /\ \A p \in DOMAIN pending \ C : R[p].before = pending[p].before /\ R[p].after = pending[p].after
<1> DEFINE writes == planInstallation(d, desired).writes
           R == receipts(d, writes)
           pending == recordOf(d, pendingFile)
           C == Changed(d, desired)
           of(p) == {w \in Range(writes) : w.at = p}
<1>1. /\ Governed(d, desired) \subseteq GuidancePaths /\ C \subseteq Governed(d, desired)
      /\ \A p \in C : ownedBytes(d, p) \in {None} \cup Installed /\ After(desired, p) \in {None} \cup Installed
  BY GovernedIsAiwfs
<1>2. pending \in [DOMAIN pending -> Receipts] /\ DOMAIN pending \subseteq GuidancePaths
  BY GuidanceTyped
<1>3. Range(writes) = {WriteOf(d, desired, p) : p \in C}
  BY <1>1, WritesAreChanges
<1> HIDE DEF writes
<1>4. \A p \in C : of(p) = {WriteOf(d, desired, p)}
  BY <1>3 DEF WriteOf
<1>5. \A p : p \notin C => of(p) = {}
  BY <1>3 DEF WriteOf
<1>6. {w.at : w \in Range(writes)} = C
  <2> DEFINE W(p) == WriteOf(d, desired, p)
  <2>1. \A p \in C : W(p).at = p
    BY DEF WriteOf
  <2>2. Range(writes) = {W(p) : p \in C}
    BY <1>3
  <2> HIDE DEF W, C
  <2> QED BY <2>1, <2>2
<1>7. R = [p \in DOMAIN pending \cup {w.at : w \in Range(writes)} |->
             IF of(p) = {} THEN [pending[p] EXCEPT !.temp = 0]
             ELSE LET w == CHOOSE w \in of(p) : TRUE IN
               [before |-> w.before, after |-> w.after, temp |-> IF w.after = None THEN 0 ELSE stagedAt(d, p)[3]]]
  BY DEF receipts
<1> HIDE DEF pending, C
<1>8. DOMAIN R = DOMAIN pending \cup C
  BY <1>6, <1>7
<1>9. \A p : stagedAt(d, p)[3] \in 0..2
  BY DEF stagedAt, Temp
<1>10. ASSUME NEW p \in C PROVE \E t \in 0..2 : R[p] = [before |-> ownedBytes(d, p), after |-> After(desired, p), temp |-> t]
  <2>1. (CHOOSE w \in of(p) : TRUE) = WriteOf(d, desired, p) /\ of(p) # {}
    BY <1>4
  <2> HIDE DEF of, R
  <2>2. R[p] = LET w == WriteOf(d, desired, p) IN
                 [before |-> w.before, after |-> w.after, temp |-> IF w.after = None THEN 0 ELSE stagedAt(d, p)[3]]
    BY <1>6, <1>7, <2>1
  <2> QED BY <1>9, <2>2 DEF WriteOf
<1>11. ASSUME NEW p \in DOMAIN pending \ C PROVE R[p] = [pending[p] EXCEPT !.temp = 0]
  <2> HIDE DEF of, R
  <2> QED BY <1>5, <1>6, <1>7
<1> HIDE DEF R, of
<1>12. ASSUME NEW p \in C PROVE R[p] \in Receipts
  <2>1. PICK t \in 0..2 : R[p] = [before |-> ownedBytes(d, p), after |-> After(desired, p), temp |-> t]
    BY <1>10
  <2> QED BY <1>1, <2>1 DEF Receipts
<1>13. ASSUME NEW p \in DOMAIN pending \ C
       PROVE  R[p] \in Receipts /\ R[p].before = pending[p].before /\ R[p].after = pending[p].after
  <2>1. pending[p] \in Receipts
    BY <1>2
  <2>2. R[p] = [pending[p] EXCEPT !.temp = 0]
    BY <1>11
  <2> QED BY <2>1, <2>2 DEF Receipts
<1>14. R = [p \in DOMAIN pending \cup C |-> R[p]]
  BY <1>6, <1>7
<1>15. R \in [DOMAIN pending \cup C -> Receipts] /\ DOMAIN pending \cup C \in SUBSET GuidancePaths
  BY <1>1, <1>2, <1>12, <1>13, <1>14
<1>16. R # None
  BY <1>15, ManagedAssumption
<1>17. ASSUME NEW p \in C PROVE R[p].before = ownedBytes(d, p) /\ R[p].after = After(desired, p)
  <2>1. PICK t \in 0..2 : R[p] = [before |-> ownedBytes(d, p), after |-> After(desired, p), temp |-> t]
    BY <1>10
  <2> QED BY <2>1
<1> QED BY <1>13, <1>15, <1>16, <1>17 DEF R, writes, pending, C

(* While the files Q have been replaced.                                   *)
Written(d, desired, p) ==
  IF p \in RootFiles THEN [At(d, p) EXCEPT !.route = After(desired, p), !.legacy = "none"] ELSE After(desired, p)
During(d, e, desired, Q) ==
  /\ e = [p \in Paths |-> e[p]]
  /\ \A p \in Paths : e[p] # d[p] => p \in GuidancePaths \cup {ownedFile, pendingFile} \cup Temps
  /\ \A p \in GuidancePaths : e[p] = IF p \in Q THEN Written(d, desired, p) ELSE d[p]

(* What is owned of each file while the files Q have been replaced.        *)
LEMMA DuringBytes ==
  ASSUME NEW d, Typed(d), NEW desired, GoodDesire(desired), ~planInstallation(d, desired).refused,
         NEW e, NEW Q \in SUBSET Changed(d, desired), During(d, e, desired, Q)
  PROVE  /\ \A p \in GuidancePaths : /\ ownedBytes(e, p) = IF p \in Q THEN After(desired, p) ELSE ownedBytes(d, p)
                                     /\ Fits(p, e[p])
         /\ \A p \in RootFiles : /\ At(e, p).link = At(d, p).link
                                 /\ At(e, p).legacy = IF p \in Q THEN "none" ELSE At(d, p).legacy
         /\ \A p \in RootFiles \cap Q : e[p] = Written(d, desired, p) /\ e[p] # None
         /\ \A p \in GuidancePaths \ RootFiles : e[p] = IF p \in Q THEN After(desired, p) ELSE d[p]
<1>1. /\ \A p \in Q : ownedBytes(d, p) \in {None} \cup Installed /\ After(desired, p) \in {None} \cup Installed
      /\ \A p \in Q \cap RootFiles : p \in DOMAIN desired
      /\ Q \subseteq GuidancePaths
  BY GovernedIsAiwfs
<1>2. \A p \in RootFiles : At(d, p) \in Roots /\ p \in GuidancePaths
  BY GuidanceTyped, OtherPaths
<1>3. \A p \in GuidancePaths : p \in Paths /\ Fits(p, d[p])
  BY OtherPaths DEF Typed
<1>4. ASSUME NEW p \in RootFiles
      PROVE  /\ Written(d, desired, p) \in [import : {None, Made(0)} \cup Mades, route : {After(desired, p)}, legacy : {"none"}, link : {At(d, p).link}]
             /\ p \in Q => Written(d, desired, p) \in Roots /\ Written(d, desired, p) # None
  <2>1. At(d, p) \in Roots
    BY <1>2
  <2>2. Written(d, desired, p) = [At(d, p) EXCEPT !.route = After(desired, p), !.legacy = "none"]
    BY DEF Written
  <2>3. Written(d, desired, p) \in [import : {None, Made(0)} \cup Mades, route : {After(desired, p)}, legacy : {"none"}, link : {At(d, p).link}]
    BY <2>1, <2>2 DEF Roots
  <2>4. At(d, p).link \in BOOLEAN
    BY <2>1 DEF Roots
  <2>5. p \in Q => Written(d, desired, p) \in Roots
    BY <1>1, <2>3, <2>4 DEF Roots
  <2> QED BY <2>3, <2>5, ManagedAssumption
<1>5. ASSUME NEW p \in RootFiles
      PROVE  /\ At(e, p).link = At(d, p).link /\ At(e, p).legacy = IF p \in Q THEN "none" ELSE At(d, p).legacy
             /\ At(e, p).route = IF p \in Q THEN After(desired, p) ELSE At(d, p).route
  <2>1. CASE p \in Q
    <3>1. e[p] = Written(d, desired, p) /\ e[p] # None
      BY <1>2, <1>4, <2>1 DEF During
    <3>2. At(e, p) = Written(d, desired, p)
      BY <3>1 DEF At
    <3> QED BY <1>4, <2>1, <3>2
  <2>2. CASE p \notin Q
    <3>1. e[p] = d[p]
      BY <1>2, <2>2 DEF During
    <3> QED BY <2>2, <3>1 DEF At
  <2> QED BY <2>1, <2>2
<1>6. ASSUME NEW p \in GuidancePaths \ RootFiles PROVE e[p] = IF p \in Q THEN After(desired, p) ELSE d[p]
  BY DEF During, Written
<1>7. ASSUME NEW p \in GuidancePaths PROVE ownedBytes(e, p) = IF p \in Q THEN After(desired, p) ELSE ownedBytes(d, p)
  BY <1>5, <1>6 DEF ownedBytes
<1>8. ASSUME NEW p \in GuidancePaths PROVE Fits(p, e[p])
  <2>1. CASE p \notin Q
    BY <1>3, <2>1 DEF During
  <2>2. CASE p \in Q /\ p \in RootFiles
    <3>1. e[p] \in Roots
      BY <1>2, <1>4, <2>2 DEF During
    <3> QED BY <2>2, <3>1, FitsGuidance
  <2>3. CASE p \in Q \ RootFiles
    <3>1. CASE p \in DOMAIN desired
      BY <1>6, <2>3, <3>1 DEF After, GoodDesire
    <3>2. CASE p \notin DOMAIN desired
      <4>1. e[p] = None
        BY <1>6, <2>3, <3>2 DEF After
      <4> QED BY <4>1 DEF Fits
    <3> QED BY <3>1, <3>2
  <2> QED BY <2>1, <2>2, <2>3
<1>9. \A p \in RootFiles \cap Q : e[p] = Written(d, desired, p) /\ e[p] # None
  BY <1>2, <1>4 DEF During
<1> QED BY <1>5, <1>6, <1>7, <1>8, <1>9

(* The files are sound at every moment between receipts and record.        *)
LEMMA DuringSound ==
  ASSUME NEW d, NEW c, Sound(d, c), NEW desired, GoodDesire(desired), ~planInstallation(d, desired).refused,
         NEW e, NEW Q \in SUBSET Changed(d, desired), During(d, e, desired, Q),
         e[ownedFile] = d[ownedFile], e[pendingFile] = receipts(d, planInstallation(d, desired).writes)
  PROVE  Sound(e, c)
<1> DEFINE R == receipts(d, planInstallation(d, desired).writes)
           pending == recordOf(d, pendingFile)
           owned == recordOf(d, ownedFile)
           C == Changed(d, desired)
<1>0. Typed(d) /\ GuidanceSound(d, c)
  BY DEF Sound
<1>1. /\ R \in [DOMAIN pending \cup C -> Receipts] /\ DOMAIN pending \cup C \in SUBSET GuidancePaths /\ R # None
      /\ \A p \in C : R[p].before = ownedBytes(d, p) /\ R[p].after = After(desired, p)
      /\ \A p \in DOMAIN pending \ C : R[p].before = pending[p].before /\ R[p].after = pending[p].after
  BY <1>0, ReceiptsTell
<1> HIDE DEF R
<1>2. recordOf(e, pendingFile) = R /\ recordOf(e, ownedFile) = owned /\ DOMAIN R = DOMAIN pending \cup C /\ e[pendingFile] = R
  BY <1>1 DEF recordOf, R
<1>3. /\ \A p \in GuidancePaths : /\ ownedBytes(e, p) = IF p \in Q THEN After(desired, p) ELSE ownedBytes(d, p)
                                  /\ Fits(p, e[p])
      /\ \A p \in RootFiles : /\ At(e, p).link = At(d, p).link
                              /\ At(e, p).legacy = IF p \in Q THEN "none" ELSE At(d, p).legacy
      /\ \A p \in GuidancePaths \ RootFiles : e[p] = IF p \in Q THEN After(desired, p) ELSE d[p]
  BY <1>0, DuringBytes
<1>4. \A p \in Q : ownedBytes(d, p) \in {None} \cup Installed
  BY <1>0, GovernedIsAiwfs
<1>5. e = [p \in Paths |-> e[p]]
  BY DEF During
<1>6. ASSUME NEW p \in Paths, e[p] # d[p] PROVE p \in GuidancePaths \cup {ownedFile, pendingFile} \cup Temps /\ Fits(p, e[p])
  <2>1. p \in GuidancePaths \cup {pendingFile} \cup Temps
    <3>1. p # ownedFile
      BY <1>6
    <3> QED BY <1>6, <3>1 DEF During
  <2>2. p \in Temps => Fits(p, e[p])
    BY FitsTemp
  <2>3. Fits(pendingFile, e[pendingFile])
    BY <1>1, <1>2, FitsGuidance
  <2> QED BY <1>3, <2>1, <2>2, <2>3
<1>7. \A p \in GuidancePaths : ownedBytes(d, p) \in {Mine, Damaged} => ownedBytes(e, p) = ownedBytes(d, p)
  BY <1>3, <1>4, InstalledIsNotTheUsers
<1>8. PacksClaimed(e)
  <2> SUFFICES ASSUME NEW k \in Packs, e[Pack(k)] \notin {None, Mine}
               PROVE  Pack(k) \in DOMAIN owned \cup DOMAIN R
    BY <1>2 DEF PacksClaimed
  <2>1. CASE Pack(k) \in Q
    BY <1>2, <2>1
  <2>2. CASE Pack(k) \notin Q
    <3>1. e[Pack(k)] = d[Pack(k)]
      BY <1>3, <2>2, OtherPaths
    <3> QED BY <1>0, <1>2, <3>1 DEF GuidanceSound, PacksClaimed
  <2> QED BY <2>1, <2>2
<1>9. ASSUME c.tidy PROVE Tidy(e)
  <2>1. Tidy(d)
    BY <1>0, <1>9 DEF GuidanceSound
  <2>2. ASSUME NEW p \in GuidancePaths PROVE replaceable(e, p)
    <3>1. CASE p \in Q
      <4>1. p \in DOMAIN R /\ R[p].after = ownedBytes(e, p)
        BY <1>1, <1>2, <1>3, <3>1
      <4> QED BY <1>2, <4>1 DEF replaceable, recognizes
    <3>2. CASE p \in C \ Q
      <4>1. p \in DOMAIN R /\ R[p].before = ownedBytes(e, p)
        BY <1>1, <1>2, <1>3, <3>2
      <4> QED BY <1>2, <4>1 DEF replaceable, recognizes
    <3>3. CASE p \notin C
      <4>1. ownedBytes(e, p) = ownedBytes(d, p)
        BY <1>3, <3>3
      <4>2. \/ ownedBytes(d, p) = None
            \/ p \in DOMAIN owned /\ ownedBytes(d, p) = owned[p]
            \/ p \in DOMAIN pending /\ recognizes(pending[p], ownedBytes(d, p))
        BY <2>1 DEF Tidy, replaceable
      <4>3. p \in DOMAIN pending => p \in DOMAIN R /\ R[p].before = pending[p].before /\ R[p].after = pending[p].after
        BY <1>1, <1>2, <3>3
      <4> QED BY <1>2, <4>1, <4>2, <4>3 DEF replaceable, recognizes
    <3> QED BY <3>1, <3>2, <3>3
  <2>3. \A p \in RootFiles : ~At(e, p).link /\ At(e, p).legacy = "none"
    BY <1>3, <2>1 DEF Tidy
  <2> QED BY <2>2, <2>3 DEF Tidy
<1>10. GuidanceSound(e, c)
  BY <1>1, <1>2, <1>8, <1>9 DEF GuidanceSound
<1> QED BY <1>5, <1>6, <1>7, <1>10, SoundGuidance

(* Once all are replaced, with the new record of what is owned, and then   *)
(* without the receipts.                                                   *)
LEMMA InstalledSound ==
  ASSUME NEW d, NEW c, Sound(d, c), c.whole => c.tidy,
         NEW rev \in DOMAIN Catalogue, NEW sel \in SUBSET Packs, NEW hosts \in SUBSET Hosts, NEW v \in Versions,
         NEW desired, desired = renderInstallation(rev, sel, hosts, v), ~planInstallation(d, desired).refused,
         NEW e, During(d, e, desired, Changed(d, desired)), e[ownedFile] = planInstallation(d, desired).owned,
         e[pendingFile] = receipts(d, planInstallation(d, desired).writes) \/ e[pendingFile] = None
  PROVE  /\ Sound(e, c)
         /\ \A k \in sel \cap Catalogue[rev] : Pack(k) \in DOMAIN recordOf(e, ownedFile) /\ e[Pack(k)] # None
<1> DEFINE R == receipts(d, planInstallation(d, desired).writes)
           pending == recordOf(d, pendingFile)
           owned == recordOf(d, ownedFile)
           C == Changed(d, desired)
           N == Governed(d, desired)
           O == planInstallation(d, desired).owned
           retained == {p \in RootFiles : p \notin DOMAIN desired}
<1>0. Typed(d) /\ GuidanceSound(d, c)
  BY DEF Sound
<1>1. /\ GoodDesire(desired)
      /\ desired[indexFile] = <<"index", rev, sel \cap Catalogue[rev]>>
      /\ \A k \in Packs : /\ Pack(k) \in DOMAIN desired <=> k \in sel \cap Catalogue[rev]
                          /\ Pack(k) \in DOMAIN desired => desired[Pack(k)] = <<"pack", rev>>
  BY Rendered DEF GoodDesire
<1>2. /\ N \subseteq GuidancePaths /\ DOMAIN desired \subseteq N /\ C \subseteq N
      /\ \A p \in N : ownedBytes(d, p) \in {None} \cup Installed
      /\ \A p \in GuidancePaths \ N : p \in RootFiles \/ p \notin DOMAIN desired \cup DOMAIN owned \cup DOMAIN pending
      /\ \A p \in N \ C : ownedBytes(d, p) = After(desired, p)
      /\ \A p \in N : p \in RootFiles => p \in DOMAIN desired
  BY <1>0, <1>1, GovernedIsAiwfs
<1>3. /\ \A p \in GuidancePaths : /\ ownedBytes(e, p) = IF p \in C THEN After(desired, p) ELSE ownedBytes(d, p)
                                  /\ Fits(p, e[p])
      /\ \A p \in RootFiles : /\ At(e, p).link = At(d, p).link
                              /\ At(e, p).legacy = IF p \in C THEN "none" ELSE At(d, p).legacy
      /\ \A p \in GuidancePaths \ RootFiles : e[p] = IF p \in C THEN After(desired, p) ELSE d[p]
  BY <1>0, <1>1, DuringBytes
<1>4. /\ owned \in [DOMAIN owned -> Installed] /\ pending \in [DOMAIN pending -> Receipts]
      /\ \A p \in GuidancePaths : ownedBytes(d, p) \in {None, Mine, Damaged} \cup Installed
  BY <1>0, GuidanceTyped
<1>5. /\ O = [p \in DOMAIN desired \cup {p \in retained : retainedRecord(d, p) # None} |->
                IF p \in retained THEN retainedRecord(d, p) ELSE desired[p]]
  BY DEF planInstallation
<1>6. ASSUME NEW p \in retained
      PROVE  /\ retainedRecord(d, p) \in {None} \cup Installed
             /\ ownedBytes(d, p) # None /\ replaceable(d, p) => retainedRecord(d, p) = ownedBytes(d, p)
  <2>1. p \in GuidancePaths
    BY OtherPaths
  <2>2. retainedRecord(d, p) = IF p \in DOMAIN pending /\ ownedBytes(d, p) \notin {None, Damaged} /\ recognizes(pending[p], ownedBytes(d, p))
                               THEN ownedBytes(d, p)
                               ELSE IF p \in DOMAIN owned THEN owned[p] ELSE IF p \in DOMAIN pending THEN pending[p].after ELSE None
    BY DEF retainedRecord
  <2>3. p \in DOMAIN pending => pending[p].before \in {None} \cup Installed /\ pending[p].after \in {None} \cup Installed
    BY <1>4 DEF Receipts
  <2>4. p \in DOMAIN pending /\ recognizes(pending[p], ownedBytes(d, p)) => ownedBytes(d, p) \in {None} \cup Installed
    BY <2>3 DEF recognizes
  <2>5. retainedRecord(d, p) \in {None} \cup Installed
    BY <1>4, <2>2, <2>3, <2>4
  <2>6. ASSUME ownedBytes(d, p) # None, replaceable(d, p) PROVE retainedRecord(d, p) = ownedBytes(d, p)
    <3>1. \/ p \in DOMAIN owned /\ ownedBytes(d, p) = owned[p]
          \/ p \in DOMAIN pending /\ recognizes(pending[p], ownedBytes(d, p))
      BY <2>6 DEF replaceable
    <3> QED BY <2>2, <2>4, <2>6, <3>1, InstalledIsNotTheUsers
  <2> QED BY <2>5, <2>6
<1>7. /\ O \in [DOMAIN O -> Installed] /\ DOMAIN O \in SUBSET GuidancePaths /\ O # None
      /\ \A p \in DOMAIN desired : p \in DOMAIN O /\ O[p] = desired[p]
      /\ \A p \in retained : retainedRecord(d, p) # None => p \in DOMAIN O /\ O[p] = retainedRecord(d, p)
  <2>1. DOMAIN desired \cap retained = {}
    OBVIOUS
  <2>2. retained \subseteq GuidancePaths
    BY OtherPaths
  <2>3. \A p \in DOMAIN desired : desired[p] \in Installed
    BY <1>1 DEF GoodDesire
  <2>4. DOMAIN O = DOMAIN desired \cup {p \in retained : retainedRecord(d, p) # None}
    BY <1>5
  <2> HIDE DEF O, retained
  <2>5. \A p \in DOMAIN desired : p \in DOMAIN O /\ O[p] = desired[p]
    BY <1>5, <2>1, <2>4
  <2>6. \A p \in retained : retainedRecord(d, p) # None => p \in DOMAIN O /\ O[p] = retainedRecord(d, p)
    BY <1>5, <2>4
  <2>7. \A p \in DOMAIN O : O[p] \in Installed
    BY <1>6, <2>3, <2>4, <2>5, <2>6
  <2>8. O = [p \in DOMAIN O |-> O[p]]
    BY <1>5, <2>4
  <2>9. O \in [DOMAIN O -> Installed]
    BY <2>7, <2>8
  <2>10. DOMAIN O \in SUBSET GuidancePaths
    BY <1>1, <2>2, <2>4 DEF GoodDesire
  <2> QED BY <2>5, <2>6, <2>9, <2>10, ManagedAssumption
<1> HIDE DEF R, O
<1>8. recordOf(e, ownedFile) = O /\ e[ownedFile] = O
  BY <1>7 DEF recordOf, O
<1>9. e[pendingFile] \in {R, None} /\ R # None /\ \E M \in SUBSET GuidancePaths : R \in [M -> Receipts]
  BY <1>0, <1>1, ReceiptsTell DEF R
<1>10. e = [p \in Paths |-> e[p]]
  BY DEF During
<1>11. ASSUME NEW p \in Paths, e[p] # d[p] PROVE p \in GuidancePaths \cup {ownedFile, pendingFile} \cup Temps /\ Fits(p, e[p])
  <2>1. p \in GuidancePaths \cup {ownedFile, pendingFile} \cup Temps
    BY <1>11 DEF During
  <2>2. p \in Temps => Fits(p, e[p])
    BY FitsTemp
  <2>3. Fits(pendingFile, e[pendingFile])
    BY <1>9, FitsGuidance
  <2>4. Fits(ownedFile, e[ownedFile])
    BY <1>7, <1>8, FitsGuidance
  <2> QED BY <1>3, <2>1, <2>2, <2>3, <2>4
<1>12. \A p \in GuidancePaths : ownedBytes(d, p) \in {Mine, Damaged} => ownedBytes(e, p) = ownedBytes(d, p)
  BY <1>2, <1>3, InstalledIsNotTheUsers
<1>13. \A p \in N : ownedBytes(e, p) = After(desired, p)
  BY <1>2, <1>3
<1>14. ASSUME NEW k \in Packs
       PROVE  /\ Pack(k) \in GuidancePaths \ RootFiles /\ e[Pack(k)] = ownedBytes(e, Pack(k)) /\ d[Pack(k)] = ownedBytes(d, Pack(k))
              /\ Pack(k) \in DOMAIN desired => e[Pack(k)] = <<"pack", rev>> /\ <<"pack", rev>> # None /\ Pack(k) \in DOMAIN O
              /\ Pack(k) \in N \ DOMAIN desired => e[Pack(k)] = None
              /\ Pack(k) \notin N => e[Pack(k)] = d[Pack(k)] /\ d[Pack(k)] \in {None, Mine}
  <2>1. Pack(k) \in GuidancePaths \ RootFiles
    BY OtherPaths
  <2>2. e[Pack(k)] = ownedBytes(e, Pack(k)) /\ d[Pack(k)] = ownedBytes(d, Pack(k))
    BY <2>1 DEF ownedBytes
  <2>3. Pack(k) \in DOMAIN desired => e[Pack(k)] = <<"pack", rev>> /\ <<"pack", rev>> # None /\ Pack(k) \in DOMAIN O
    BY <1>1, <1>2, <1>7, <1>13, <2>2, InstalledIsNotTheUsers DEF After
  <2>4. Pack(k) \in N \ DOMAIN desired => e[Pack(k)] = None
    BY <1>13, <2>2 DEF After
  <2>5. Pack(k) \notin N => e[Pack(k)] = d[Pack(k)] /\ d[Pack(k)] \in {None, Mine}
    BY <1>0, <1>2, <1>3, <2>1 DEF GuidanceSound, PacksClaimed
  <2> QED BY <2>1, <2>2, <2>3, <2>4, <2>5
<1>15. PacksClaimed(e)
  BY <1>8, <1>14 DEF PacksClaimed
<1>16. ASSUME c.tidy PROVE Tidy(e)
  <2>1. Tidy(d)
    BY <1>0, <1>16 DEF GuidanceSound
  <2>2. ASSUME NEW p \in GuidancePaths PROVE replaceable(e, p)
    <3>1. CASE p \in N
      <4>1. CASE p \in DOMAIN desired
        <5>1. ownedBytes(e, p) = O[p] /\ p \in DOMAIN O
          BY <1>7, <1>13, <3>1, <4>1 DEF After
        <5> QED BY <1>8, <5>1 DEF replaceable
      <4>2. CASE p \notin DOMAIN desired
        <5>1. ownedBytes(e, p) = None
          BY <1>13, <3>1, <4>2 DEF After
        <5> QED BY <5>1 DEF replaceable
      <4> QED BY <4>1, <4>2
    <3>2. CASE p \in retained
      <4>1. ownedBytes(e, p) = ownedBytes(d, p) /\ replaceable(d, p)
        BY <1>2, <1>3, <2>1, <3>2 DEF Tidy
      <4>2. ownedBytes(d, p) # None => p \in DOMAIN O /\ O[p] = ownedBytes(d, p)
        BY <1>6, <1>7, <3>2, <4>1
      <4> QED BY <1>8, <4>1, <4>2 DEF replaceable
    <3>3. CASE p \notin N /\ p \notin retained
      <4>1. p \notin DOMAIN owned \cup DOMAIN pending
        BY <1>2, <3>3
      <4>2. ownedBytes(e, p) = None
        BY <1>2, <1>3, <2>1, <3>3, <4>1 DEF Tidy, replaceable
      <4> QED BY <4>2 DEF replaceable
    <3> QED BY <3>1, <3>2, <3>3
  <2>3. \A p \in RootFiles : ~At(e, p).link /\ At(e, p).legacy = "none"
    BY <1>3, <2>1 DEF Tidy
  <2> QED BY <2>2, <2>3 DEF Tidy
<1>17. ASSUME c.whole PROVE Whole(e)
  <2>1. Tidy(d)
    BY <1>0, <1>17 DEF GuidanceSound
  <2>2. e[indexFile] = <<"index", rev, sel \cap Catalogue[rev]>> /\ e[indexFile] # None
    <3>1. indexFile \in DOMAIN desired /\ indexFile \notin RootFiles
      BY <1>1, OtherPaths DEF GoodDesire
    <3>2. ownedBytes(e, indexFile) = desired[indexFile]
      BY <1>2, <1>13, <3>1 DEF After
    <3>3. desired[indexFile] \in Installed
      BY <1>1, <3>1 DEF GoodDesire
    <3> QED BY <1>1, <3>1, <3>2, <3>3, InstalledIsNotTheUsers DEF ownedBytes
  <2>3. e[indexFile][2] = rev /\ e[indexFile][3] = sel \cap Catalogue[rev]
    BY <2>2
  <2>4. ASSUME NEW k \in Packs PROVE e[Pack(k)] = IF k \in sel \cap Catalogue[rev] THEN <<"pack", rev>> ELSE None
    <3>1. CASE Pack(k) \in DOMAIN desired
      BY <1>1, <1>14, <3>1
    <3>2. CASE Pack(k) \in N \ DOMAIN desired
      BY <1>1, <1>14, <3>2
    <3>3. CASE Pack(k) \notin N
      <4>1. Pack(k) \notin DOMAIN desired \cup DOMAIN owned \cup DOMAIN pending
        BY <1>2, <1>14, <3>3
      <4>2. d[Pack(k)] = None
        BY <1>14, <2>1, <4>1 DEF Tidy, replaceable
      <4> QED BY <1>1, <1>14, <3>3, <4>1, <4>2
    <3> QED BY <3>1, <3>2, <3>3
  <2> QED BY <2>2, <2>3, <2>4 DEF Whole
<1>18. GuidanceSound(e, c)
  BY <1>15, <1>16, <1>17 DEF GuidanceSound
<1>19. Sound(e, c)
  BY <1>10, <1>11, <1>12, <1>18, SoundGuidance
<1> QED BY <1>1, <1>8, <1>14, <1>19

(* What the user put into Claude's settings is recorded as such.           *)
LEMMA SettingsKept ==
  ASSUME NEW d, NEW c, Sound(d, c), <<Settings, "user">> \in c.kept
  PROVE  d[Settings] # None /\ "user" \in d[Settings].entries
<1> DEFINE k == <<Settings, "user">>
<1>1. KeptAt(d, k)
  BY DEF Sound, KeptSound
<1>2. k[1] = Settings
  OBVIOUS
<1>3. ASSUME NEW f \in Families, NEW n \in Names(f) PROVE Settings # <<f, n>>
  BY FamilyPathsArePaths DEF FamilyPaths
<1>4. \A p \in GuidancePaths : p # Settings
  BY OtherPaths DEF Singles
<1>5. \A f \in Families : \A n \in Names(f) : k # <<<<f, n>>, Mine>>
  BY <1>3
<1>6. \A p \in GuidancePaths : \A r : k # <<p, r>>
  BY <1>4
<1>7. RootFiles \subseteq GuidancePaths
  BY OtherPaths
<1> HIDE DEF k
<1> QED BY <1>1, <1>5, <1>6, <1>7 DEF KeptAt

(* Temporary files are nobody's.                                           *)
LEMMA SoundTemps ==
  ASSUME NEW d, NEW e, NEW c, Sound(d, c), e = [p \in Paths |-> e[p]], \A p \in Paths \ Temps : e[p] = d[p]
  PROVE  Sound(e, c)
<1>1. \A p \in Singles : e[p] = d[p]
  BY OtherPaths
<1>2. \A p \in Paths : e[p] # d[p] => p \in HookPaths \cup Temps \cup Singles /\ Fits(p, e[p])
  BY FitsTemp
<1>3. e[Project] \in SUBSET Packs /\ e[Cli] \in SUBSET Hosts
  BY <1>1 DEF Sound, Typed, Singles
<1>4. <<Settings, "user">> \in c.kept => e[Settings] # None /\ "user" \in e[Settings].entries
  BY <1>1, SettingsKept DEF Singles
<1> QED BY <1>2, <1>3, <1>4, SoundElsewhere

(* Writing temporary files leaves sound files sound.                       *)
LEMMA LeadsTemps ==
  ASSUME NEW d, NEW c, Sound(d, c), NEW N, IsFiniteSet(N), NEW at, NEW cc, NEW ops, Lists(ops, N, at, cc), Image(at, N) \subseteq Temps
  PROVE  Leads(d, ops, Write(d, cc, Image(at, N)), c) /\ Operations(ops)
<1>1. d = [p \in Paths |-> d[p]]
  BY DEF Sound, Typed
<1>2. Image(at, N) \subseteq Paths \ (HookPaths \cup {Yaml})
  BY OtherPaths DEF Singles
<1>3. ASSUME NEW T \in SUBSET Image(at, N) PROVE Sound(Write(d, cc, T), c)
  <2> DEFINE e == Write(d, cc, T)
  <2>1. e = [p \in Paths |-> e[p]] /\ \A p \in Paths \ Temps : e[p] = d[p]
    BY DEF Write
  <2> HIDE DEF e
  <2> QED BY <2>1, SoundTemps DEF e
<1> QED BY <1>1, <1>2, <1>3, LeadsOver

(* What is staged beside each changed file.                                *)
StagedFor(d, desired, e) ==
  /\ e = [p \in Paths |-> e[p]] /\ \A p \in Paths \ Temps : e[p] = d[p]
  /\ \A p \in Changed(d, desired) : After(desired, p) # None => e[stagedAt(d, p)] = Written(d, desired, p)

(* Files are staged at temporary paths.                                    *)
LEMMA StagedAtTemps ==
  ASSUME NEW d, NEW p \in GuidancePaths
  PROVE  stagedAt(d, p) \in Temps /\ stagedAt(d, p)[2] = p /\ stagedAt(d, p) # p
<1>1. stagedAt(d, p) \in Temps /\ stagedAt(d, p)[2] = p
  BY DEF stagedAt, Temps, Temp
<1> QED BY <1>1, OtherPaths

(* Staging leads to a disk that holds every new content beside its file.   *)
LEMMA StageLeads ==
  ASSUME NEW d, NEW c, Sound(d, c), NEW desired, GoodDesire(desired), ~planInstallation(d, desired).refused
  PROVE  LET writes == planInstallation(d, desired).writes
             ops == stageInstallation(d, writes)
         IN /\ \E e : Leads(d, ops, e, c) /\ StagedFor(d, desired, e)
            /\ Operations(ops) /\ {stagedAt(d, w.at) : w \in Puts(writes)} \subseteq Temps
<1> DEFINE writes == planInstallation(d, desired).writes
           pending == recordOf(d, pendingFile)
           C == Changed(d, desired)
           N == Puts(writes)
           at == [w \in N |-> stagedAt(d, w.at)]
           cc == [t \in Temps |-> contentOf(d, WriteOf(d, desired, t[2]))]
           s == Over(N, LAMBDA w : put(stagedAt(d, w.at), contentOf(d, w)))
           M == {p \in DOMAIN pending : pending[p].temp # 0}
           old == [p \in M |-> Temp(p, pending[p].temp)]
           no == [t \in Temps |-> None]
           t == Over(M, LAMBDA p : del(Temp(p, pending[p].temp)))
           a == Write(d, cc, Image(at, N))
           e == Write(a, no, Image(old, M))
<1>0. Typed(d)
  BY DEF Sound
<1>1. C \subseteq GuidancePaths
  BY <1>0, GovernedIsAiwfs
<1>2. Range(writes) = {WriteOf(d, desired, p) : p \in C}
  BY <1>0, <1>1, WritesAreChanges
<1>3. pending \in [DOMAIN pending -> Receipts] /\ DOMAIN pending \subseteq GuidancePaths
  BY <1>0, GuidanceTyped
<1>4. N = {w \in Range(writes) : w.after # None}
  BY DEF Puts
<1>5. IsFiniteSet(N) /\ IsFiniteSet(M)
  <2> DEFINE g == [p \in C |-> WriteOf(d, desired, p)]
  <2>1. g \in Surjection(C, Range(writes))
    BY <1>2 DEF Surjection
  <2> HIDE DEF g
  <2>2. IsFiniteSet(Range(writes))
    BY <1>1, <2>1, GuidanceIsFinite, FS_Surjection
  <2>3. IsFiniteSet(M)
    BY <1>3, GuidanceIsFinite
  <2> QED BY <1>4, <2>2, <2>3, FS_Subset
<1>6. ASSUME NEW w \in N PROVE w.at \in C /\ w = WriteOf(d, desired, w.at) /\ w.after = After(desired, w.at) /\ stagedAt(d, w.at) \in Temps
  <2>1. PICK p \in C : w = WriteOf(d, desired, p)
    BY <1>2, <1>4
  <2>2. w.at = p /\ w.after = After(desired, p)
    BY <2>1 DEF WriteOf
  <2> QED BY <1>1, <2>1, <2>2, StagedAtTemps
<1>7. \A p \in C : After(desired, p) # None => WriteOf(d, desired, p) \in N /\ WriteOf(d, desired, p).at = p
  BY <1>2, <1>4 DEF WriteOf
<1>8. ASSUME NEW p \in C PROVE contentOf(d, WriteOf(d, desired, p)) = Written(d, desired, p)
  BY DEF contentOf, WriteOf, Written
<1>9. ASSUME NEW p \in M PROVE Temp(p, pending[p].temp) \in Temps /\ pending[p].temp \in {1, 2}
  <2>1. pending[p].temp \in 0..2 /\ pending[p].temp # 0 /\ p \in GuidancePaths
    BY <1>3 DEF Receipts
  <2>2. pending[p].temp \in {1, 2}
    BY <2>1
  <2> QED BY <2>1, <2>2 DEF Temps
<1> HIDE DEF N, M, C, writes, pending
<1>10. Lists(s, N, at, cc) /\ Image(at, N) \subseteq Temps
  <2> DEFINE q == SetToSeq(N)
  <2>1. s = [i \in DOMAIN q |-> put(stagedAt(d, q[i].at), contentOf(d, q[i]))]
    BY DEF Over
  <2>2. DOMAIN q = 1..Len(q) /\ \A i \in DOMAIN q : q[i] \in N
    BY <1>5, ListsTheSet
  <2>3. ASSUME NEW w \in N PROVE at[w] = stagedAt(d, w.at) /\ at[w] \in Temps /\ cc[at[w]] = contentOf(d, w)
    <3>1. stagedAt(d, w.at)[2] = w.at
      BY <1>1, <1>6, StagedAtTemps
    <3> QED BY <1>6, <3>1
  <2> HIDE DEF at, cc, q, s
  <2>4. Lists(s, N, at, cc)
    BY <2>1, <2>2, <2>3 DEF Lists, q
  <2> QED BY <2>3, <2>4 DEF Image
<1>11. Lists(t, M, old, no) /\ Image(old, M) \subseteq Temps
  <2> DEFINE q == SetToSeq(M)
  <2>1. t = [i \in DOMAIN q |-> put(Temp(q[i], pending[q[i]].temp), None)]
    BY DEF Over, del
  <2>2. DOMAIN q = 1..Len(q) /\ \A i \in DOMAIN q : q[i] \in M
    BY <1>5, ListsTheSet
  <2>3. \A p \in M : old[p] = Temp(p, pending[p].temp) /\ old[p] \in Temps /\ no[old[p]] = None
    BY <1>9
  <2> HIDE DEF old, no, q, t
  <2>4. Lists(t, M, old, no)
    BY <2>1, <2>2, <2>3 DEF Lists, q
  <2> QED BY <2>3, <2>4 DEF Image
<1>12. ASSUME NEW p \in C, After(desired, p) # None
       PROVE  stagedAt(d, p) \in Image(at, N) /\ stagedAt(d, p) \notin Image(old, M) /\ cc[stagedAt(d, p)] = Written(d, desired, p)
  <2>1. stagedAt(d, p) \in Temps /\ stagedAt(d, p)[2] = p
    BY <1>1, StagedAtTemps
  <2>2. at[WriteOf(d, desired, p)] = stagedAt(d, p) /\ WriteOf(d, desired, p) \in N
    BY <1>7, <1>12
  <2>3. cc[stagedAt(d, p)] = Written(d, desired, p)
    BY <1>8, <2>1
  <2>4. ASSUME NEW q \in M, stagedAt(d, p) = Temp(q, pending[q].temp) PROVE FALSE
    <3>1. stagedAt(d, p) = Temp(p, IF p \in DOMAIN pending /\ pending[p].temp = 1 THEN 2 ELSE 1)
      BY DEF stagedAt, pending
    <3>2. q = p /\ pending[q].temp = IF p \in DOMAIN pending /\ pending[p].temp = 1 THEN 2 ELSE 1
      BY <2>4, <3>1 DEF Temp
    <3>3. p \in DOMAIN pending
      BY <3>2 DEF M
    <3> QED BY <1>9, <3>2, <3>3
  <2>5. stagedAt(d, p) \notin Image(old, M)
    BY <2>4 DEF Image
  <2> HIDE DEF at, cc, old
  <2> QED BY <2>2, <2>3, <2>5 DEF Image
<1>13. Leads(d, s, a, c) /\ Operations(s)
  <2> HIDE DEF s, at, cc
  <2> QED BY <1>5, <1>10, LeadsTemps
<1>14. Sound(a, c)
  <2> HIDE DEF a, s
  <2> QED BY <1>13, LeadsEnds
<1>15. Leads(a, t, e, c) /\ Operations(t)
  <2> HIDE DEF a, t, old, no
  <2> QED BY <1>5, <1>11, <1>14, LeadsTemps
<1>16. StagedFor(d, desired, e)
  <2> HIDE DEF at, cc, old, no
  <2>1. e = [p \in Paths |-> e[p]] /\ \A p \in Paths \ Temps : e[p] = d[p]
    BY <1>10, <1>11 DEF Write
  <2>2. ASSUME NEW p \in C, After(desired, p) # None PROVE e[stagedAt(d, p)] = Written(d, desired, p)
    <3>1. stagedAt(d, p) \in Paths
      BY <1>1, StagedAtTemps, OtherPaths
    <3> QED BY <1>12, <2>2, <3>1 DEF Write
  <2> HIDE DEF e
  <2> QED BY <2>1, <2>2 DEF StagedFor, C
<1>17. stageInstallation(d, writes) = s \o t
  BY DEF stageInstallation, N, M, pending
<1> HIDE DEF s, t, a, e
<1>18. Leads(d, s \o t, e, c) /\ Operations(s \o t)
  BY <1>13, <1>15, LeadsThen
<1>19. {stagedAt(d, w.at) : w \in N} \subseteq Temps
  BY <1>6
<1> QED BY <1>16, <1>17, <1>18, <1>19 DEF writes, N

(* The staged files are renamed into place, one by one.                    *)
LEMMA RenamesLead ==
  ASSUME NEW d, NEW c, Sound(d, c), NEW desired, GoodDesire(desired), ~planInstallation(d, desired).refused,
         NEW a, During(d, a, desired, {}), a[ownedFile] = d[ownedFile],
         a[pendingFile] = receipts(d, planInstallation(d, desired).writes),
         \A p \in Changed(d, desired) : After(desired, p) # None => a[stagedAt(d, p)] = Written(d, desired, p)
  PROVE  LET ops == Renames(d, planInstallation(d, desired).writes) IN
         /\ Operations(ops)
         /\ \E e : /\ Leads(a, ops, e, c) /\ During(d, e, desired, Changed(d, desired))
                   /\ e[ownedFile] = d[ownedFile] /\ e[pendingFile] = receipts(d, planInstallation(d, desired).writes)
<1> DEFINE writes == planInstallation(d, desired).writes
           ops == Renames(d, writes)
           C == Changed(d, desired)
           n == Len(writes)
           R == receipts(d, writes)
<1>0. Typed(d)
  BY DEF Sound
<1>1. C \subseteq GuidancePaths /\ \A p \in C \cap RootFiles : After(desired, p) # None
  <2>1. C \subseteq GuidancePaths /\ \A p \in C \cap RootFiles : p \in DOMAIN desired
    BY <1>0, GovernedIsAiwfs
  <2> QED BY <2>1, InstalledIsNotTheUsers DEF GoodDesire, After
<1>2. PICK at : WritesAt(d, desired, writes, at)
  BY <1>0, <1>1, WritesAreChanges
<1>3. /\ n \in Nat /\ DOMAIN writes = 1..n /\ at \in [1..n -> C]
      /\ \A i \in 1..n : writes[i].at = at[i] /\ writes[i].after = After(desired, at[i])
      /\ \A p \in C : \E i \in 1..n : at[i] = p
      /\ \A i, j \in 1..n : at[i] = at[j] => i = j
  <2>1. writes \in Seq(Range(writes)) /\ at \in [1..n -> C] /\ \A i \in 1..n : writes[i] = WriteOf(d, desired, at[i])
    BY <1>2 DEF WritesAt
  <2>2. /\ \A p \in C : \E i \in 1..n : at[i] = p
        /\ \A i, j \in 1..n : at[i] = at[j] => i = j
    BY <1>2 DEF WritesAt
  <2> HIDE DEF writes
  <2>3. n \in Nat /\ DOMAIN writes = 1..n
    BY <2>1
  <2>4. ASSUME NEW i \in 1..n PROVE writes[i].at = at[i] /\ writes[i].after = After(desired, at[i])
    <3>1. writes[i] = WriteOf(d, desired, at[i])
      BY <2>1
    <3> QED BY <3>1 DEF WriteOf
  <2> QED BY <2>1, <2>2, <2>3, <2>4
<1> HIDE DEF writes, n, C, R
<1> DEFINE to(i) == stagedAt(d, at[i])
           cD == [p \in Paths |-> IF p \in C THEN Written(d, desired, p) ELSE None]
           Q == [i \in 0..n |-> {at[j] : j \in 1..i}]
           T == [i \in 0..n |-> Q[i] \cup {to(j) : j \in {j \in 1..i : After(desired, at[j]) # None}}]
<1>4. ops = [i \in 1..n |-> IF After(desired, at[i]) = None THEN del(at[i]) ELSE move(to(i), at[i])]
  <2>1. ops = [i \in DOMAIN writes |-> IF writes[i].after = None THEN del(writes[i].at) ELSE move(stagedAt(d, writes[i].at), writes[i].at)]
    BY DEF Renames
  <2> HIDE DEF ops
  <2> QED BY <1>3, <2>1
<1>5. Operations(ops) /\ Len(ops) = n
  <2> HIDE DEF ops
  <2>1. DOMAIN ops = 1..n /\ ops \in [1..n -> Range(ops)]
    BY <1>4 DEF Range
  <2> QED BY <1>3, <2>1 DEF Operations
<1>6. \A i \in 1..n : /\ at[i] \in C /\ at[i] \in GuidancePaths /\ at[i] \in Paths \ (HookPaths \cup Temps \cup {Yaml, ownedFile, pendingFile})
                      /\ to(i) \in Temps /\ to(i)[2] = at[i] /\ to(i) \in Paths \ (HookPaths \cup GuidancePaths \cup {Yaml, ownedFile, pendingFile})
  BY <1>1, <1>3, StagedAtTemps, OtherPaths DEF Singles
<1>7. \A i, j \in 1..n : to(i) = to(j) => i = j
  BY <1>3, <1>6
<1> HIDE DEF ops
<1> HIDE DEF to
<1>8. Q[0] = {} /\ T[0] = {}
  BY <1>3
<1>9. ASSUME NEW i \in 1..n
      PROVE  /\ i - 1 \in 0..n /\ i \in 0..n /\ Q[i] = Q[i - 1] \cup {at[i]}
             /\ T[i] = T[i - 1] \cup {at[i]} \cup (IF After(desired, at[i]) = None THEN {} ELSE {to(i)})
             /\ to(i) \notin T[i - 1] /\ at[i] \notin T[i - 1]
  <2>1. i - 1 \in 0..n /\ i \in 0..n /\ 1..i = 1..(i - 1) \cup {i} /\ i \notin 1..(i - 1) /\ 1..(i - 1) \subseteq 1..n
    BY <1>3
  <2>2. Q[i] = Q[i - 1] \cup {at[i]}
    BY <2>1
  <2> DEFINE S(k) == {to(j) : j \in {j \in 1..k : After(desired, at[j]) # None}}
  <2>3. S(i) = S(i - 1) \cup (IF After(desired, at[i]) = None THEN {} ELSE {to(i)})
    BY <2>1
  <2>4. T[i] = Q[i] \cup S(i) /\ T[i - 1] = Q[i - 1] \cup S(i - 1)
    BY <2>1
  <2>5. to(i) \notin S(i - 1) /\ at[i] \notin S(i - 1)
    BY <1>6, <1>7, <2>1
  <2>6. to(i) \notin Q[i - 1] /\ at[i] \notin Q[i - 1]
    <3>1. Q[i - 1] = {at[j] : j \in 1..(i - 1)}
      BY <2>1
    <3>2. ASSUME NEW j \in 1..(i - 1) PROVE to(i) # at[j] /\ at[i] # at[j]
      <4>1. j \in 1..n /\ j # i
        BY <2>1
      <4> QED BY <1>3, <1>6, <4>1
    <3> HIDE DEF Q
    <3> QED BY <3>1, <3>2
  <2> HIDE DEF S, T, Q
  <2> QED BY <2>1, <2>2, <2>3, <2>4, <2>5, <2>6
<1>10. ASSUME NEW i \in 0..n
       PROVE  /\ Q[i] \subseteq C /\ \A p \in T[i] : p \in Temps \/ p \in Q[i]
              /\ \A p \in Q[i] : p \in T[i]
  <2>1. Q[i] = {at[j] : j \in 1..i} /\ \A j \in 1..i : j \in 1..n
    BY <1>3
  <2>2. Q[i] \subseteq C
    <3> HIDE DEF Q
    <3> QED BY <1>6, <2>1
  <2>3. T[i] = Q[i] \cup {to(j) : j \in {j \in 1..i : After(desired, at[j]) # None}}
    OBVIOUS
  <2> HIDE DEF Q, T
  <2> QED BY <1>6, <2>1, <2>2, <2>3
<1>11. Q[n] = C
  <2>1. Q[n] = {at[j] : j \in 1..n}
    BY <1>3
  <2> HIDE DEF Q
  <2> QED BY <1>3, <2>1
<1> HIDE DEF Q, T
<1> DEFINE A(i) == Write(a, cD, T[i])
<1>12. ASSUME NEW i \in 0..n
       PROVE  /\ During(d, A(i), desired, Q[i]) /\ A(i)[ownedFile] = d[ownedFile] /\ A(i)[pendingFile] = R /\ A(i)[Yaml] = d[Yaml]
  <2> DEFINE e == A(i)
  <2>1. e = [p \in Paths |-> e[p]] /\ \A p \in Paths : e[p] = IF p \in T[i] THEN cD[p] ELSE a[p]
    BY DEF Write
  <2>2. \A p \in Paths : a[p] # d[p] => p \in GuidancePaths \cup {ownedFile, pendingFile} \cup Temps
    BY DEF During
  <2>3. \A p \in GuidancePaths : a[p] = d[p]
    BY DEF During
  <2>4. /\ {ownedFile, pendingFile, Yaml} \subseteq Paths /\ {ownedFile, pendingFile, Yaml} \cap (GuidancePaths \cup Temps) = {}
        /\ Temps \subseteq Paths /\ GuidancePaths \subseteq Paths /\ Temps \cap GuidancePaths = {} /\ Yaml \notin {ownedFile, pendingFile}
    BY OtherPaths DEF Singles
  <2> HIDE DEF e, cD
  <2>5. e[ownedFile] = a[ownedFile] /\ e[pendingFile] = a[pendingFile] /\ e[Yaml] = a[Yaml] /\ a[Yaml] = d[Yaml]
    BY <1>1, <1>10, <2>1, <2>2, <2>4
  <2>6. ASSUME NEW p \in GuidancePaths PROVE e[p] = IF p \in Q[i] THEN Written(d, desired, p) ELSE d[p]
    <3>1. p \in T[i] <=> p \in Q[i]
      BY <1>10, <2>4
    <3>2. p \in Q[i] => cD[p] = Written(d, desired, p)
      BY <1>10, <2>4 DEF cD
    <3> QED BY <2>1, <2>3, <2>4, <3>1, <3>2
  <2>7. \A p \in Paths : e[p] # d[p] => p \in GuidancePaths \cup {ownedFile, pendingFile} \cup Temps
    BY <1>1, <1>10, <2>1, <2>2
  <2>8. During(d, e, desired, Q[i])
    BY <2>1, <2>6, <2>7 DEF During
  <2> QED BY <2>5, <2>8 DEF e, R, writes
<1>13. ASSUME NEW i \in 0..n PROVE Sound(A(i), c)
  <2> DEFINE e == A(i)
  <2>1. Q[i] \in SUBSET C /\ During(d, e, desired, Q[i]) /\ e[ownedFile] = d[ownedFile] /\ e[pendingFile] = R
    BY <1>10, <1>12
  <2> HIDE DEF e
  <2>2. Sound(e, c)
    BY <2>1, DuringSound DEF R, C, writes
  <2> QED BY <2>2 DEF e
<1>14. ASSUME NEW i \in 1..n
       PROVE  Effect(A(i - 1), ops[i]) = A(i) /\ Adopts(A(i - 1), A(i), c) /\ Plain(ops[i])
  <2>1. /\ i - 1 \in 0..n /\ i \in 0..n
        /\ T[i] = T[i - 1] \cup {at[i]} \cup (IF After(desired, at[i]) = None THEN {} ELSE {to(i)})
        /\ to(i) \notin T[i - 1] /\ at[i] \notin T[i - 1]
    BY <1>9
  <2>2. Adopts(A(i - 1), A(i), c)
    <3>1. A(i - 1)[Yaml] = A(i)[Yaml]
      BY <1>12, <2>1
    <3> HIDE DEF A
    <3> QED BY <3>1 DEF Adopts, HookWanted
  <2>3. at[i] \in Paths /\ to(i) \in Paths /\ at[i] # to(i) /\ at[i] \in C /\ to(i) \notin C
    BY <1>1, <1>6
  <2>4. CASE After(desired, at[i]) = None
    <3>1. ops[i] = put(at[i], None)
      BY <1>4, <2>4 DEF del
    <3>2. cD[at[i]] = None
      <4>1. at[i] \notin RootFiles
        BY <1>1, <2>3, <2>4
      <4> QED BY <2>3, <2>4, <4>1 DEF Written
    <3>3. Effect(A(i - 1), ops[i]) = [A(i - 1) EXCEPT ![at[i]] = None]
      BY <3>1 DEF Effect, put
    <3>4. @ = A(i)
      <4>1. T[i] = T[i - 1] \cup {at[i]}
        BY <2>1, <2>4
      <4> HIDE DEF cD
      <4> QED BY <2>3, <3>2, <4>1 DEF Write
    <3>5. Plain(ops[i])
      BY <1>6, <3>1 DEF Plain, put
    <3> HIDE DEF A
    <3> QED BY <2>2, <3>3, <3>4, <3>5
  <2>5. CASE After(desired, at[i]) # None
    <3>1. ops[i] = move(to(i), at[i])
      BY <1>4, <2>5
    <3>2. cD[at[i]] = Written(d, desired, at[i]) /\ cD[to(i)] = None
      BY <2>3
    <3>3. A(i - 1)[to(i)] = Written(d, desired, at[i])
      <4>1. A(i - 1)[to(i)] = a[to(i)]
        BY <2>1, <2>3 DEF Write
      <4> QED BY <2>3, <2>5, <4>1 DEF to, C
    <3>4. Effect(A(i - 1), ops[i]) = [A(i - 1) EXCEPT ![at[i]] = A(i - 1)[to(i)], ![to(i)] = None]
      BY <3>1 DEF Effect, move
    <3>5. @ = [A(i - 1) EXCEPT ![at[i]] = Written(d, desired, at[i]), ![to(i)] = None]
      BY <3>3
    <3>6. @ = A(i)
      <4>1. T[i] = T[i - 1] \cup {at[i], to(i)}
        BY <2>1, <2>5
      <4> HIDE DEF cD
      <4> QED BY <2>3, <3>2, <4>1 DEF Write
    <3>7. Plain(ops[i])
      BY <1>6, <3>1 DEF Plain, move
    <3> HIDE DEF A
    <3> QED BY <2>2, <3>4, <3>5, <3>6, <3>7
  <2> QED BY <2>4, <2>5
<1>15. a = [p \in Paths |-> a[p]]
  BY DEF During
<1> DEFINE e == A(n)
<1>16. Leads(a, ops, Write(a, cD, T[n]), c)
  <2> HIDE DEF cD
  <2> QED BY <1>5, <1>8, <1>13, <1>14, <1>15, LeadsWrites
<1>17. During(d, e, desired, C) /\ e[ownedFile] = d[ownedFile] /\ e[pendingFile] = R
  <2>1. n \in 0..n
    BY <1>3
  <2>2. During(d, A(n), desired, Q[n]) /\ A(n)[ownedFile] = d[ownedFile] /\ A(n)[pendingFile] = R
    BY <1>12, <2>1
  <2> HIDE DEF A
  <2> QED BY <1>11, <2>2
<1>18. Leads(a, ops, e, c)
  BY <1>16
<1> HIDE DEF e
<1> QED BY <1>5, <1>17, <1>18 DEF R, C, writes, ops

(* Nothing of aiwf's touched: nothing to refuse.                           *)
LEMMA TidyIsNotRefused ==
  ASSUME NEW d, Typed(d), Tidy(d), NEW desired, GoodDesire(desired)
  PROVE  ~planInstallation(d, desired).refused
<1>1. Governed(d, desired) \subseteq GuidancePaths
  BY GuidanceTyped, OtherPaths DEF Governed, GoodDesire
<1>2. \A p \in RootFiles : ~At(d, p).link /\ At(d, p).legacy = "none"
  BY DEF Tidy
<1>3. \A p \in Governed(d, desired) : replaceable(d, p)
  BY <1>1 DEF Tidy
<1>4. planInstallation(d, desired).refused <=>
        \/ \E p \in RootFiles : At(d, p).link \/ legacyConflict(d, p, p \notin {p_1 \in RootFiles : p_1 \notin DOMAIN desired})
        \/ \E p \in Governed(d, desired) : ~replaceable(d, p)
  BY DEF planInstallation, Governed
<1> QED BY <1>2, <1>3, <1>4 DEF legacyConflict

(* What installing the packs K comes to.                                   *)
Installs(d, plan, K, c) ==
  /\ Operations(plan.ops) /\ plan.undo \subseteq Temps /\ plan.err \in {"", "blocked"}
  /\ plan.err = "blocked" => plan.ops = <<>> /\ ~c.tidy
  /\ plan.err = "" => \E e :
       /\ Leads(d, plan.ops, e, c) /\ e[pendingFile] = None /\ e[Yaml] = d[Yaml]
       /\ \A k \in K : Pack(k) \in DOMAIN recordOf(e, ownedFile) /\ e[Pack(k)] # None

(* An installation is published between its receipts and its record.       *)
LEMMA InstallLeads ==
  ASSUME NEW d, NEW c, Sound(d, c), c.whole => c.tidy,
         NEW rev \in DOMAIN Catalogue, NEW sel \in SUBSET Packs, NEW hosts \in SUBSET Hosts, NEW v \in Versions,
         NEW desired, desired = renderInstallation(rev, sel, hosts, v)
  PROVE  Installs(d, Install(d, desired), sel \cap Catalogue[rev], c)
<1> DEFINE plan == Install(d, desired)
           p0 == planInstallation(d, desired)
           writes == p0.writes
           R == receipts(d, writes)
           O == p0.owned
           C == Changed(d, desired)
<1> SUFFICES /\ Operations(plan.ops) /\ plan.undo \subseteq Temps /\ plan.err \in {"", "blocked"}
             /\ plan.err = "blocked" => plan.ops = <<>> /\ ~c.tidy
             /\ plan.err = "" => \E e :
                  /\ Leads(d, plan.ops, e, c) /\ e[pendingFile] = None /\ e[Yaml] = d[Yaml]
                  /\ \A k \in sel \cap Catalogue[rev] : Pack(k) \in DOMAIN recordOf(e, ownedFile) /\ e[Pack(k)] # None
  BY DEF Installs
<1>0. Typed(d) /\ GuidanceSound(d, c) /\ d = [p \in Paths |-> d[p]]
  BY DEF Sound, Typed
<1>1. /\ GoodDesire(desired) /\ DOMAIN desired \subseteq GuidancePaths
      /\ \A k \in Packs : /\ Pack(k) \in DOMAIN desired <=> k \in sel \cap Catalogue[rev]
                          /\ Pack(k) \in DOMAIN desired => desired[Pack(k)] = <<"pack", rev>>
  BY Rendered DEF GoodDesire
<1>2. CASE p0.refused
  <2>1. plan = Refuse("blocked")
    BY <1>2 DEF Install
  <2>2. ~c.tidy
    BY <1>0, <1>1, <1>2, TidyIsNotRefused DEF GuidanceSound
  <2> QED BY <2>1, <2>2, NoOperations DEF Refuse
<1>3. CASE ~p0.refused /\ writes = <<>> /\ d[pendingFile] = None
  <2>1. plan = Steps(<<>>)
    BY <1>3 DEF Install
  <2>2. Leads(d, <<>>, d, c)
    BY LeadsNone
  <2>3. ASSUME NEW k \in sel \cap Catalogue[rev] PROVE Pack(k) \in DOMAIN recordOf(d, ownedFile) /\ d[Pack(k)] # None
    <3>1. Pack(k) \in DOMAIN desired /\ desired[Pack(k)] = <<"pack", rev>> /\ k \in Packs
      BY <1>1
    <3>2. /\ Pack(k) \in Governed(d, desired) /\ replaceable(d, Pack(k)) /\ C \subseteq GuidancePaths
          /\ Pack(k) \notin C => ownedBytes(d, Pack(k)) = After(desired, Pack(k))
      BY <1>0, <1>1, <1>3, <3>1, GovernedIsAiwfs
    <3>3. C = {}
      BY <1>0, <1>1, <1>3, <3>2, WritesAreChanges
    <3>4. ownedBytes(d, Pack(k)) = <<"pack", rev>>
      BY <3>1, <3>2, <3>3 DEF After
    <3>5. <<"pack", rev>> # None /\ ownedBytes(d, Pack(k)) = d[Pack(k)]
      BY <3>1, InstalledIsNotTheUsers, OtherPaths DEF ownedBytes
    <3>6. recordOf(d, pendingFile) = <<>>
      BY <1>3 DEF recordOf
    <3> QED BY <3>2, <3>4, <3>5, <3>6 DEF replaceable
  <2>4. plan.err = "" /\ plan.ops = <<>> /\ plan.undo = {}
    <3> HIDE DEF plan
    <3> QED BY <2>1 DEF Steps
  <2> HIDE DEF p0, plan
  <2> QED BY <1>3, <2>2, <2>3, <2>4, NoOperations DEF plan
<1>4. CASE ~p0.refused /\ ~(writes = <<>> /\ d[pendingFile] = None)
  <2>1. plan = [err |-> "", ops |-> stageInstallation(d, writes) \o publishInstallation(d, writes, O),
                undo |-> {stagedAt(d, w.at) : w \in Puts(writes)}]
    BY <1>4 DEF Install
  <2> DEFINE s == stageInstallation(d, writes)
             r == Renames(d, writes)
  <2>2. PICK a : Leads(d, s, a, c) /\ StagedFor(d, desired, a)
    BY <1>1, <1>4, StageLeads
  <2>3. Operations(s) /\ {stagedAt(d, w.at) : w \in Puts(writes)} \subseteq Temps
    BY <1>1, <1>4, StageLeads
  <2>4. Sound(a, c) /\ a = [p \in Paths |-> a[p]]
    BY <2>2, <2>3, LeadsEnds DEF StagedFor
  <2> DEFINE b == [a EXCEPT ![pendingFile] = R]
  <2>5. /\ {ownedFile, pendingFile, Yaml} \subseteq Paths \ HookPaths /\ {ownedFile, pendingFile, Yaml} \cap (GuidancePaths \cup Temps) = {}
        /\ GuidancePaths \subseteq Paths /\ Temps \subseteq Paths /\ Temps \cap GuidancePaths = {} /\ ownedFile # pendingFile
        /\ Yaml \notin {ownedFile, pendingFile}
    BY OtherPaths DEF Singles
  <2>6. C \subseteq GuidancePaths
    BY <1>0, <1>1, <1>4, GovernedIsAiwfs
  <2> HIDE DEF s, r, R, O, writes, p0, C
  <2>7. /\ b = [p \in Paths |-> b[p]] /\ b[pendingFile] = R /\ \A p \in Paths \ {pendingFile} : b[p] = a[p]
        /\ \A p \in Paths \ Temps : a[p] = d[p]
        /\ \A p \in C : After(desired, p) # None => a[stagedAt(d, p)] = Written(d, desired, p)
    BY <2>2, <2>4, <2>5 DEF StagedFor, C
  <2> HIDE DEF b
  <2>8. During(d, b, desired, {}) /\ b[ownedFile] = d[ownedFile]
    BY <2>5, <2>7 DEF During
  <2>9. ASSUME NEW p \in C, After(desired, p) # None PROVE b[stagedAt(d, p)] = Written(d, desired, p)
    <3>1. stagedAt(d, p) \in Temps
      BY <2>6, StagedAtTemps
    <3> QED BY <2>5, <2>7, <2>9, <3>1
  <2>10. Sound(b, c)
    <3>1. {} \in SUBSET C
      OBVIOUS
    <3> QED BY <1>1, <1>4, <2>7, <2>8, <3>1, DuringSound DEF R, writes, p0, C
  <2>11. Leads(a, <<put(pendingFile, R)>>, b, c) /\ Operations(<<put(pendingFile, R)>>)
    <3>1. pendingFile \in Paths \ (HookPaths \cup {Yaml})
      BY <2>5
    <3> QED BY <2>4, <2>10, <3>1, LeadsPut DEF b
  <2>12. /\ Operations(r)
         /\ \E e : Leads(b, r, e, c) /\ During(d, e, desired, C) /\ e[ownedFile] = d[ownedFile] /\ e[pendingFile] = R
    BY <1>1, <1>4, <2>7, <2>8, <2>9, RenamesLead DEF R, writes, p0, C, r
  <2>13. PICK f : Leads(b, r, f, c) /\ During(d, f, desired, C) /\ f[ownedFile] = d[ownedFile] /\ f[pendingFile] = R
    BY <2>12
  <2> DEFINE g == [f EXCEPT ![ownedFile] = O]
             e == [g EXCEPT ![pendingFile] = None]
  <2>14. /\ f = [p \in Paths |-> f[p]] /\ \A p \in Paths : f[p] # d[p] => p \in GuidancePaths \cup {ownedFile, pendingFile} \cup Temps
         /\ \A p \in GuidancePaths : f[p] = IF p \in C THEN Written(d, desired, p) ELSE d[p]
    BY <2>13 DEF During
  <2>15. /\ g = [p \in Paths |-> g[p]] /\ g[ownedFile] = O /\ \A p \in Paths \ {ownedFile} : g[p] = f[p]
    BY <2>5, <2>14
  <2>16. /\ e = [p \in Paths |-> e[p]] /\ e[pendingFile] = None /\ \A p \in Paths \ {pendingFile} : e[p] = g[p]
    BY <2>5, <2>15
  <2> HIDE DEF g, e
  <2>17. During(d, g, desired, C)
    BY <2>5, <2>14, <2>15 DEF During
  <2>18. During(d, e, desired, C) /\ e[ownedFile] = O /\ e[Yaml] = d[Yaml]
    <3>1. \A p \in GuidancePaths : e[p] = f[p]
      BY <2>5, <2>15, <2>16
    <3>2. \A p \in Paths : e[p] # d[p] => p \in GuidancePaths \cup {ownedFile, pendingFile} \cup Temps
      BY <2>14, <2>15, <2>16
    <3>3. e[ownedFile] = O /\ e[Yaml] = d[Yaml]
      BY <2>5, <2>15, <2>16, <3>2
    <3> QED BY <2>14, <2>16, <3>1, <3>2, <3>3 DEF During
  <2>19. Sound(g, c)
    <3>1. g[pendingFile] = R
      BY <2>5, <2>13, <2>15
    <3> QED BY <1>4, <2>15, <2>17, <3>1, InstalledSound DEF R, O, writes, p0, C
  <2>20. Sound(e, c) /\ \A k \in sel \cap Catalogue[rev] : Pack(k) \in DOMAIN recordOf(e, ownedFile) /\ e[Pack(k)] # None
    BY <1>4, <2>16, <2>18, InstalledSound DEF R, O, writes, p0, C
  <2>21. Sound(f, c)
    BY <2>12, <2>13, LeadsEnds
  <2>22. Leads(f, <<put(ownedFile, O)>>, g, c) /\ Operations(<<put(ownedFile, O)>>)
    <3>1. ownedFile \in Paths \ (HookPaths \cup {Yaml})
      BY <2>5
    <3> QED BY <2>19, <2>21, <3>1, LeadsPut DEF g
  <2>23. Leads(g, <<put(pendingFile, None)>>, e, c) /\ Operations(<<put(pendingFile, None)>>)
    <3>1. pendingFile \in Paths \ (HookPaths \cup {Yaml})
      BY <2>5
    <3> QED BY <2>19, <2>20, <3>1, LeadsPut DEF e
  <2> DEFINE x == <<put(pendingFile, R)>>
             y == <<put(ownedFile, O)>>
             z == <<put(pendingFile, None)>>
  <2>24. publishInstallation(d, writes, O) = x \o r \o (y \o z)
    <3>1. publishInstallation(d, writes, O) = x \o r \o <<put(ownedFile, O), put(pendingFile, None)>>
      BY DEF publishInstallation, del, R, r
    <3>2. <<put(ownedFile, O), put(pendingFile, None)>> = y \o z
      OBVIOUS
    <3> QED BY <3>1, <3>2
  <2> HIDE DEF x, y, z
  <2>25. Leads(f, y \o z, e, c) /\ Operations(y \o z)
    BY <2>22, <2>23, LeadsThen DEF y, z
  <2>26. Leads(a, x \o r, f, c) /\ Operations(x \o r)
    BY <2>11, <2>12, <2>13, LeadsThen DEF x
  <2>27. Leads(a, x \o r \o (y \o z), e, c) /\ Operations(x \o r \o (y \o z))
    BY <2>25, <2>26, LeadsThen
  <2>28. Leads(d, s \o (x \o r \o (y \o z)), e, c) /\ Operations(s \o (x \o r \o (y \o z)))
    BY <2>2, <2>3, <2>27, LeadsThen
  <2>29. plan.ops = s \o (x \o r \o (y \o z)) /\ plan.undo \subseteq Temps /\ plan.err = ""
    <3> HIDE DEF plan
    <3> QED BY <2>1, <2>3, <2>24 DEF s
  <2> HIDE DEF plan
  <2> QED BY <2>16, <2>18, <2>20, <2>28, <2>29 DEF plan
<1> QED BY <1>2, <1>3, <1>4

-----------------------------------------------------------------------------
(* The other files.                                                        *)

(* What fits at each of them.                                              *)
LEMMA FitsSingle ==
  ASSUME NEW c
  PROVE  /\ c \in {None} \cup Mades => Fits(Fragment, c) /\ Fits(Example, c)
         /\ c \in {None} \cup Lines <=> Fits(Gitignore, c)
         /\ c \in {None, hookScript} <=> Fits(Script, c)
         /\ c \in {None} \cup SettingsFiles <=> Fits(Settings, c)
         /\ c \in {None} \cup Configs <=> Fits(Yaml, c)
         /\ Fits(Project, c) /\ Fits(Cli, c)
<1>1. \A p \in Singles : p \notin Artifacts /\ \A f \in Families : p # Owned(f) /\ p # Pending(f)
  <2> SUFFICES ASSUME NEW p \in Singles
               PROVE  p \notin Artifacts /\ \A f \in Families : p # Owned(f) /\ p # Pending(f)
    OBVIOUS
  <2>1. \A f \in Families : p \notin FamilyPaths(f)
    BY FamilyPathsArePaths DEF Singles
  <2>2. \A a \in Artifacts : \E f \in Families : a \in FamilyPaths(f)
    BY DEF Artifacts, FamilyPaths
  <2> QED BY <2>1, <2>2 DEF FamilyPaths
<1>2. \A p \in Singles : p \notin {Pack(k) : k \in Packs} /\ p \notin {indexFile, ownedFile, pendingFile} /\ p \notin RootFiles
  BY OtherPaths
<1>3. ASSUME NEW p \in Singles
      PROVE  Fits(p, c) <=> c = None \/ /\ p = Yaml => c \in Configs
                                        /\ p \in {Fragment, Example} => c \in Mades
                                        /\ p = Gitignore => c \in Lines
                                        /\ p = Script => c = [by |-> "aiwf", x |-> TRUE]
                                        /\ p = Settings => c \in SettingsFiles
  BY <1>1, <1>2 DEF Fits
<1>4. /\ {Fragment, Example, Gitignore, Script, Settings, Yaml, Project, Cli} \subseteq Singles
      /\ Fragment \notin {Yaml, Gitignore, Script, Settings} /\ Example \notin {Yaml, Gitignore, Script, Settings}
      /\ Gitignore \notin {Yaml, Fragment, Example, Script, Settings} /\ Script \notin {Yaml, Fragment, Example, Gitignore, Settings}
      /\ Settings \notin {Yaml, Fragment, Example, Gitignore, Script} /\ Yaml \notin {Fragment, Example, Gitignore, Script, Settings}
      /\ Project \notin {Yaml, Fragment, Example, Gitignore, Script, Settings} /\ Cli \notin {Yaml, Fragment, Example, Gitignore, Script, Settings}
  BY DEF Singles, Fragment, Example, Gitignore, Script, Settings, Yaml, Project, Cli
<1> QED BY <1>3, <1>4 DEF hookScript

(* Each of them is a path of its own.                                      *)
LEMMA SinglesDiffer ==
  /\ Singles \subseteq Paths \ HookPaths
  /\ Yaml \in Singles /\ {Project, Cli, Settings} \subseteq Singles \ {Yaml}
  /\ {Fragment, Example, Gitignore, Script, Settings} \subseteq Singles \ {Yaml, Project, Cli}
  /\ Settings \notin {Fragment, Example, Gitignore, Script}
<1>1. Singles \subseteq Paths \ HookPaths
  BY OtherPaths
<1>2. Yaml \in Singles /\ {Project, Cli, Settings, Fragment, Example, Gitignore, Script} \subseteq Singles
  BY DEF Singles
<1>3. Yaml \notin {Project, Cli, Settings, Fragment, Example, Gitignore, Script}
  BY DEF Fragment, Example, Gitignore, Script, Settings, Yaml, Project, Cli
<1>4. {Project, Cli} \cap {Settings, Fragment, Example, Gitignore, Script} = {}
  BY DEF Fragment, Example, Gitignore, Script, Settings, Project, Cli
<1>5. Settings \notin {Fragment, Example, Gitignore, Script}
  BY DEF Fragment, Example, Gitignore, Script, Settings
<1> QED BY <1>1, <1>2, <1>3, <1>4, <1>5

(* Writing one of them, aiwf.yaml excepted.                                *)
LEMMA PutSingle ==
  ASSUME NEW d, NEW c, Sound(d, c), NEW p \in Singles \ {Yaml, Project, Cli}, NEW x, Fits(p, x),
         p = Settings => x # None /\ (d[Settings] # None /\ "user" \in d[Settings].entries => "user" \in x.entries)
  PROVE  Leads(d, <<put(p, x)>>, [d EXCEPT ![p] = x], c) /\ Operations(<<put(p, x)>>)
<1> DEFINE e == [d EXCEPT ![p] = x]
<1>1. d = [q \in Paths |-> d[q]] /\ Typed(d) /\ p \in Paths \ (HookPaths \cup {Yaml}) /\ {Project, Cli, Settings} \subseteq Paths \ {Yaml}
  BY SinglesDiffer DEF Sound, Typed
<1>2. e = [q \in Paths |-> e[q]] /\ e[p] = x /\ \A q \in Paths \ {p} : e[q] = d[q]
  BY <1>1
<1> HIDE DEF e
<1>3. e[Project] \in SUBSET Packs /\ e[Cli] \in SUBSET Hosts
  BY <1>1, <1>2 DEF Typed
<1>4. <<Settings, "user">> \in c.kept => e[Settings] # None /\ "user" \in e[Settings].entries
  BY <1>1, <1>2, SettingsKept
<1>5. Sound(e, c)
  BY <1>2, <1>3, <1>4, SoundElsewhere
<1> QED BY <1>1, <1>5, LeadsPut DEF e

(* Writing aiwf.yaml.                                                      *)
(* What a run has read of aiwf.yaml is still there.                        *)
Reads(cfg, d) == d[Yaml] # None /\ Chosen(cfg) \subseteq Chosen(d[Yaml])
Carries(d, e, cfg) == Reads(cfg, d) => Reads(cfg, e)

(* Writing aiwf.yaml, with no pack in it that is not installed or asked    *)
(* for.                                                                    *)
LEMMA PutYaml ==
  ASSUME NEW d, NEW c, Sound(d, c), NEW x \in Configs, HookWanted(d) <=> x.auto,
         d[Yaml] # None => Chosen(x) = Chosen(d[Yaml]) \/ c.read \subseteq Chosen(x),
         \A p \in Packs : d[Yaml] # None /\ p \in Chosen(x) \ Chosen(d[Yaml]) =>
           Pack(p) \in DOMAIN recordOf(d, ownedFile) /\ d[pendingFile] = None /\ d[Pack(p)] # None
  PROVE  /\ Leads(d, <<put(Yaml, x)>>, [d EXCEPT ![Yaml] = x], c) /\ Operations(<<put(Yaml, x)>>)
         /\ [d EXCEPT ![Yaml] = x][Yaml] = x
<1> DEFINE e == [d EXCEPT ![Yaml] = x]
           o == put(Yaml, x)
<1>1. d = [q \in Paths |-> d[q]] /\ Typed(d) /\ Yaml \in Paths \ HookPaths /\ {Project, Cli, Settings} \subseteq Paths \ {Yaml} /\ x # None
  BY SinglesDiffer, ManagedAssumption DEF Sound, Typed
<1>2. e = [q \in Paths |-> e[q]] /\ e[Yaml] = x /\ \A q \in Paths \ {Yaml} : e[q] = d[q]
  BY <1>1
<1>3. Effect(d, o) = e /\ Plain(o)
  BY <1>1 DEF Effect, put, Plain
<1> HIDE DEF e, o
<1>4. e[Project] \in SUBSET Packs /\ e[Cli] \in SUBSET Hosts
  BY <1>1, <1>2 DEF Typed
<1>5. <<Settings, "user">> \in c.kept => e[Settings] # None /\ "user" \in e[Settings].entries
  BY <1>1, <1>2, SettingsKept
<1>6. Fits(Yaml, x) /\ Yaml \in Singles
  BY FitsSingle DEF Singles
<1>7. Sound(e, c)
  BY <1>2, <1>4, <1>5, <1>6, SoundElsewhere
<1>8. \A q \in GuidancePaths \cup {ownedFile, pendingFile} : e[q] = d[q]
  BY <1>2, OtherPaths DEF Singles
<1>9. Adopts(d, e, c)
  <2>1. recordOf(e, ownedFile) = recordOf(d, ownedFile) /\ e[pendingFile] = d[pendingFile] /\ \A p \in Packs : e[Pack(p)] = d[Pack(p)]
    BY <1>8, OtherPaths DEF recordOf
  <2>2. HookWanted(e) <=> x.auto
    BY <1>1, <1>2 DEF HookWanted
  <2> QED BY <1>1, <1>2, <2>1, <2>2 DEF Adopts
<1>10. Leads(d, <<o>>, e, c)
  BY <1>3, <1>7, <1>9, LeadsOne
<1>11. Operations(<<o>>)
  <2>1. <<o>> \in Seq({o}) /\ Range(<<o>>) = {o}
    BY DEF Range
  <2> QED BY <2>1 DEF Operations
<1> QED BY <1>2, <1>10, <1>11 DEF e, o

(* Writing an instruction file whose routed block stays.                   *)
LEMMA RootWritten ==
  ASSUME NEW d, NEW c, Sound(d, c), NEW p \in RootFiles, NEW x \in Roots,
         x.route = At(d, p).route, c.tidy => x.legacy = At(d, p).legacy /\ x.link = At(d, p).link
  PROVE  /\ Sound([d EXCEPT ![p] = x], c) /\ [d EXCEPT ![p] = x][Yaml] = d[Yaml]
         /\ Leads(d, <<put(p, x)>>, [d EXCEPT ![p] = x], c) /\ Operations(<<put(p, x)>>)
<1> DEFINE e == [d EXCEPT ![p] = x]
<1>1. d = [q \in Paths |-> d[q]] /\ Typed(d) /\ p \in GuidancePaths /\ GuidancePaths \subseteq Paths \ (HookPaths \cup {Yaml}) /\ x # None
      /\ {ownedFile, pendingFile, Yaml} \subseteq Paths \ GuidancePaths
      /\ indexFile \in GuidancePaths \ RootFiles /\ \A k \in Packs : Pack(k) \in GuidancePaths \ RootFiles
  BY OtherPaths, ManagedAssumption DEF Sound, Typed, Singles
<1>2. e = [q \in Paths |-> e[q]] /\ e[p] = x /\ \A q \in Paths \ {p} : e[q] = d[q]
  BY <1>1
<1> HIDE DEF e
<1>3. Fits(p, x)
  BY FitsGuidance
<1>4. \A q \in GuidancePaths : ownedBytes(e, q) = ownedBytes(d, q)
  BY <1>1, <1>2 DEF ownedBytes, At
<1>5. recordOf(e, ownedFile) = recordOf(d, ownedFile) /\ recordOf(e, pendingFile) = recordOf(d, pendingFile) /\ e[pendingFile] = d[pendingFile]
  BY <1>1, <1>2 DEF recordOf
<1>6. \A q \in GuidancePaths : replaceable(e, q) <=> replaceable(d, q)
  BY <1>4, <1>5 DEF replaceable
<1>7. c.tidy => \A q \in RootFiles : At(e, q).link = At(d, q).link /\ At(e, q).legacy = At(d, q).legacy
  <2> SUFFICES ASSUME c.tidy, NEW q \in RootFiles PROVE At(e, q).link = At(d, q).link /\ At(e, q).legacy = At(d, q).legacy
    OBVIOUS
  <2>1. CASE q = p
    BY <1>1, <1>2, <2>1 DEF At
  <2>2. CASE q # p
    <3>1. e[q] = d[q]
      BY <1>1, <1>2, <2>2, OtherPaths
    <3> QED BY <3>1 DEF At
  <2> QED BY <2>1, <2>2
<1>8. GuidanceSound(e, c)
  <2>1. PacksClaimed(e)
    BY <1>1, <1>2, <1>5 DEF Sound, GuidanceSound, PacksClaimed
  <2>2. c.tidy => Tidy(e)
    BY <1>6, <1>7 DEF Sound, GuidanceSound, Tidy
  <2>3. c.whole /\ e[pendingFile] = None => Whole(e)
    BY <1>1, <1>2, <1>5 DEF Sound, GuidanceSound, Whole
  <2> QED BY <2>1, <2>2, <2>3 DEF GuidanceSound
<1>9. Sound(e, c)
  BY <1>1, <1>2, <1>3, <1>4, <1>8, SoundGuidance
<1>10. e[Yaml] = d[Yaml]
  BY <1>1, <1>2
<1>11. Leads(d, <<put(p, x)>>, e, c) /\ Operations(<<put(p, x)>>)
  BY <1>1, <1>9, LeadsPut DEF e
<1> QED BY <1>9, <1>10, <1>11 DEF e

-----------------------------------------------------------------------------
(* What each stage but the hooks' does.                                    *)

(* A plan whose operations leave sound files, and which nothing of aiwf's  *)
(* makes refuse.                                                           *)
Goes(d, plan, c, cfg) ==
  /\ Operations(plan.ops) /\ plan.undo \subseteq Temps /\ plan.err \in {"", "abort", "blocked"}
  /\ plan.err # "" => plan.ops = <<>> /\ ~c.tidy
  /\ plan.err = "" => \E e : Leads(d, plan.ops, e, c) /\ Carries(d, e, cfg)

(* What a run has read stays there while aiwf.yaml does.                   *)
LEMMA CarriesSame ==
  ASSUME NEW d, NEW cfg, NEW e, e[Yaml] = d[Yaml]
  PROVE  Carries(d, e, cfg)
BY DEF Carries, Reads

(* A stage with nothing to do is sound.                                    *)
LEMMA GoesNowhere ==
  ASSUME NEW d, NEW cfg, NEW c, Sound(d, c)
  PROVE  Goes(d, Steps(<<>>), c, cfg)
<1>1. Leads(d, <<>>, d, c) /\ Carries(d, d, cfg) /\ Operations(<<>>)
  BY LeadsNone, CarriesSame, NoOperations
<1> QED BY <1>1 DEF Goes, Steps

(* A stage is sound when its operations lead somewhere.                    *)
LEMMA StepsGo ==
  ASSUME NEW d, NEW cfg, NEW c, NEW ops, Operations(ops), NEW e, Leads(d, ops, e, c), Carries(d, e, cfg)
  PROVE  Goes(d, Steps(ops), c, cfg)
BY DEF Goes, Steps

(* Stage config: aiwf.yaml is written once.                                *)
LEMMA ConfigGoes ==
  ASSUME NEW d, NEW cfg, NEW c, Sound(d, c)
  PROVE  /\ Goes(d, Steps(ensureConfig(d)), c, cfg)
         /\ \E e : Leads(d, ensureConfig(d), e, c) /\ e[Yaml] = IF d[Yaml] = None THEN DefaultConfig ELSE d[Yaml]
<1>1. CASE d[Yaml] # None
  BY <1>1, GoesNowhere, LeadsNone DEF ensureConfig
<1>2. CASE d[Yaml] = None
  <2> DEFINE e == [d EXCEPT ![Yaml] = DefaultConfig]
  <2>1. DefaultConfig \in Configs /\ DefaultConfig.auto
    BY DEF DefaultConfig, Configs
  <2>2. HookWanted(d) <=> DefaultConfig.auto
    BY <1>2, <2>1 DEF HookWanted
  <2>3. Leads(d, <<put(Yaml, DefaultConfig)>>, e, c) /\ Operations(<<put(Yaml, DefaultConfig)>>) /\ e[Yaml] = DefaultConfig
    BY <1>2, <2>1, <2>2, PutYaml
  <2>4. ensureConfig(d) = <<put(Yaml, DefaultConfig)>> /\ Carries(d, e, cfg)
    BY <1>2 DEF ensureConfig, Carries, Reads
  <2> HIDE DEF e
  <2> QED BY <1>2, <2>3, <2>4, StepsGo
<1> QED BY <1>1, <1>2

(* Stage claude-md.                                                        *)
LEMMA ClaudeMdGoes ==
  ASSUME NEW d, NEW cfg, NEW c, Sound(d, c)
  PROVE  Goes(d, Steps(ensureClaudeMd(d)), c, cfg)
<1> DEFINE p == FileOf["claude-code"]
           e == [d EXCEPT ![p] = BlankFile]
<1>1. p \in RootFiles
  BY DEF RootFiles, Hosts
<1>2. CASE ensureClaudeMd(d) = <<>>
  BY <1>2, GoesNowhere
<1>3. CASE d[p] = None /\ ensureClaudeMd(d) = <<put(p, BlankFile)>>
  <2>1. At(d, p) = BlankFile /\ BlankFile \in Roots
    BY <1>3 DEF At, BlankFile, Roots
  <2>2. Leads(d, <<put(p, BlankFile)>>, e, c) /\ Operations(<<put(p, BlankFile)>>) /\ e[Yaml] = d[Yaml]
    BY <1>1, <2>1, RootWritten
  <2> HIDE DEF e
  <2> QED BY <1>3, <2>2, CarriesSame, StepsGo
<1> QED BY <1>2, <1>3 DEF ensureClaudeMd

(* Stage import.                                                           *)
LEMMA ImportGoes ==
  ASSUME NEW d, NEW c, Sound(d, c), NEW h \in Hosts, NEW v \in Versions, NEW cfg
  PROVE  Goes(d, Steps(ensureGuidanceImport(d, h, v, cfg)), c, cfg)
<1> DEFINE p == FileOf[h]
           x == [At(d, p) EXCEPT !.import = importBlock(h, v)]
           e == [d EXCEPT ![p] = x]
<1>1. p \in RootFiles
  BY DEF RootFiles
<1>2. CASE ensureGuidanceImport(d, h, v, cfg) = <<>>
  BY <1>2, GoesNowhere
<1>3. CASE ensureGuidanceImport(d, h, v, cfg) = <<put(p, x)>>
  <2>1. At(d, p) \in Roots
    BY <1>1, GuidanceTyped DEF Sound
  <2>2. importBlock(h, v) \in {None, Made(0)} \cup Mades
    BY DEF importBlock, Mades
  <2>3. x \in Roots /\ x.route = At(d, p).route /\ x.legacy = At(d, p).legacy /\ x.link = At(d, p).link
    BY <2>1, <2>2 DEF Roots
  <2> HIDE DEF x
  <2>4. Leads(d, <<put(p, x)>>, e, c) /\ Operations(<<put(p, x)>>) /\ e[Yaml] = d[Yaml]
    BY <1>1, <2>3, RootWritten
  <2> HIDE DEF e
  <2> QED BY <1>3, <2>4, CarriesSame, StepsGo
<1> QED BY <1>2, <1>3 DEF ensureGuidanceImport

(* Stage fragment.                                                         *)
LEMMA FragmentGoes ==
  ASSUME NEW d, NEW cfg, NEW c, Sound(d, c), NEW v \in Versions
  PROVE  Goes(d, Steps(<<put(Fragment, Made(v))>>), c, cfg)
<1> DEFINE e == [d EXCEPT ![Fragment] = Made(v)]
<1>1. Fits(Fragment, Made(v))
  BY FitsSingle DEF Mades
<1>2. Leads(d, <<put(Fragment, Made(v))>>, e, c) /\ Operations(<<put(Fragment, Made(v))>>)
  BY <1>1, SinglesDiffer, PutSingle
<1>3. e[Yaml] = d[Yaml]
  BY SinglesDiffer DEF Sound, Typed
<1> HIDE DEF e
<1> QED BY <1>2, <1>3, CarriesSame, StepsGo

(* Nothing of aiwf's makes the artifacts refuse.                           *)
LEMMA ArtifactsGo ==
  ASSUME NEW d, NEW cfg, NEW c, Sound(d, c), NEW h \in Hosts, NEW v \in Versions
  PROVE  Goes(d, materializeArtifactFamilies(d, h, v), c, cfg)
<1> DEFINE plan == materializeArtifactFamilies(d, h, v)
           e == AfterFamilies(d, FamiliesOf[h], v)
<1>1. /\ plan.undo = {} /\ plan.err \in {"", "abort"} /\ Operations(plan.ops)
      /\ plan.err = "abort" => plan.ops = <<>> /\ \E f \in FamiliesOf[h] : planArtifactFamily(d, f, v).refused
      /\ plan.err = "" => Leads(d, plan.ops, e, c)
  BY ArtifactsLead
<1>2. ASSUME c.tidy, NEW f \in FamiliesOf[h] PROVE ~planArtifactFamily(d, f, v).refused
  <2> DEFINE pending == parseArtifactReceipts(d, f)
             owned == parseOwnedNames(d, f)
             prior == Prior(d, f)
             new == Shipped[v][f] \ prior
  <2>1. f \in Families
    BY DEF Families
  <2>2. \A n \in Names(f) : n \in owned \/ d[<<f, n>>] = None \/ (n \in DOMAIN pending /\ d[<<f, n>>] = pending[n])
    BY <1>2, <2>1 DEF Sound, ArtifactsSound, ArtifactSound
  <2>3. Shipped[v][f] \subseteq Names(f) /\ DOMAIN pending \subseteq Names(f)
    BY <2>1, FamilyTyped DEF Names, Sound
  <2>4. planArtifactFamily(d, f, v).refused <=> \/ \E n \in DOMAIN pending \ prior : d[<<f, n>>] # None
                                               \/ \E n \in new \ DOMAIN pending : d[<<f, n>>] # None
    BY DEF planArtifactFamily, Prior
  <2>5. owned \subseteq prior /\ \A n \in DOMAIN pending \ prior : d[<<f, n>>] # None => d[<<f, n>>] # pending[n]
    BY DEF Prior, recoveredArtifacts
  <2> HIDE DEF pending, owned, prior
  <2> QED BY <2>2, <2>3, <2>4, <2>5
<1>3. Yaml \in Paths /\ \A f \in FamiliesOf[h] : Yaml \notin FamilyPaths(f)
  BY FamilyPathsArePaths, OtherPaths DEF Families, Singles
<1>4. e[Yaml] = d[Yaml]
  <2>1. FamiliesOf[h] \subseteq Families
    BY DEF Families
  <2> QED BY <1>3, <2>1, AfterFamiliesAt
<1> HIDE DEF plan, e
<1>5. Carries(d, e, cfg)
  BY <1>4, CarriesSame
<1> QED BY <1>1, <1>2, <1>5 DEF Goes, plan

(* Stage guidance: an installation, and only then the selection.           *)
LEMMA GuidanceGoes ==
  ASSUME NEW d, NEW c, Sound(d, c), c.whole => c.tidy, NEW rev \in DOMAIN Catalogue, NEW cfg \in Configs, Reads(cfg, d),
         c.read = Chosen(cfg),
         NEW hosts \in SUBSET Hosts, NEW v \in Versions
  PROVE  Goes(d, ensureProjectGuidance(d, rev, cfg, hosts, v), c, cfg)
<1> DEFINE plan == ensureProjectGuidance(d, rev, cfg, hosts, v)
           selected == Adopt(d, rev, cfg)
           wired == hosts \cap cfg.wired
           desired == renderInstallation(rev, selected, wired, v)
           install == Install(d, desired)
           added == Detect(d, rev) \ (Chosen(cfg) \cup cfg.ignored)
<1> SUFFICES Goes(d, plan, c, cfg)
  OBVIOUS
<1>1. CASE plan = Steps(<<>>)
  BY <1>1, GoesNowhere
<1>2. CASE plan = Refuse("blocked") /\ \E h \in wired : FileOf[h] \in inspectInstructionFiles(d)
  <2>1. ~c.tidy
    <3> SUFFICES ASSUME c.tidy PROVE FALSE
      OBVIOUS
    <3>1. \A p \in RootFiles : ~At(d, p).link
      BY DEF Sound, GuidanceSound, Tidy
    <3>2. inspectInstructionFiles(d) = {}
      BY <3>1 DEF inspectInstructionFiles, At
    <3> QED BY <1>2, <3>2
  <2> HIDE DEF plan
  <2>2. plan.err = "blocked" /\ plan.ops = <<>> /\ plan.undo = {}
    BY <1>2 DEF Refuse
  <2> QED BY <2>1, <2>2, NoOperations DEF Goes
<1>3. CASE selected # None /\ plan = IF install.err # "" \/ selected = cfg.packs THEN install
                                      ELSE [install EXCEPT !.ops = @ \o <<put(Yaml, [d[Yaml] EXCEPT !.packs = selected])>>]
  <2>1. Chosen(cfg) \subseteq Packs /\ (cfg.packs # None => cfg.packs = Chosen(cfg)) /\ added \subseteq Catalogue[rev] /\ Catalogue[rev] \subseteq Packs
    BY DEF Configs, Chosen, Detect, Packs
  <2>2. selected \in SUBSET Packs /\ selected \subseteq added \cup Chosen(cfg) /\ Chosen(cfg) \subseteq selected
    BY <1>3, <2>1 DEF Adopt
  <2>3. wired \in SUBSET Hosts
    OBVIOUS
  <2>4. /\ Operations(install.ops) /\ install.undo \subseteq Temps /\ install.err \in {"", "blocked"}
        /\ install.err = "blocked" => install.ops = <<>> /\ ~c.tidy
        /\ install.err = "" => \E e :
             /\ Leads(d, install.ops, e, c) /\ e[pendingFile] = None /\ e[Yaml] = d[Yaml]
             /\ \A k \in selected \cap Catalogue[rev] : Pack(k) \in DOMAIN recordOf(e, ownedFile) /\ e[Pack(k)] # None
    <3> HIDE DEF selected, wired
    <3>1. Installs(d, Install(d, renderInstallation(rev, selected, wired, v)), selected \cap Catalogue[rev], c)
      BY <2>2, <2>3, InstallLeads
    <3>2. Installs(d, install, selected \cap Catalogue[rev], c)
      BY <3>1
    <3> HIDE DEF install
    <3> QED BY <3>2 DEF Installs
  <2> HIDE DEF install, plan, selected, desired, wired, added
  <2>5. CASE install.err # ""
    <3>1. plan = install
      BY <1>3, <2>5
    <3>2. install.err = "blocked" /\ install.ops = <<>> /\ ~c.tidy
      BY <2>4, <2>5
    <3> QED BY <2>4, <3>1, <3>2 DEF Goes
  <2>6. CASE install.err = ""
    <3>1. PICK e : /\ Leads(d, install.ops, e, c) /\ e[pendingFile] = None /\ e[Yaml] = d[Yaml]
                   /\ \A k \in selected \cap Catalogue[rev] : Pack(k) \in DOMAIN recordOf(e, ownedFile) /\ e[Pack(k)] # None
      BY <2>4, <2>6
    <3>2. CASE selected = cfg.packs
      <4>1. plan = install /\ Carries(d, e, cfg)
        BY <1>3, <3>1, <3>2, CarriesSame
      <4> QED BY <2>4, <2>6, <3>1, <4>1 DEF Goes
    <3>3. CASE selected # cfg.packs
      <4> DEFINE x == [d[Yaml] EXCEPT !.packs = selected]
                 g == [e EXCEPT ![Yaml] = x]
                 ops == install.ops \o <<put(Yaml, x)>>
      <4>1. d[Yaml] \in Configs
        <5>1. Yaml \in Paths /\ d[Yaml] # None
          BY OtherPaths DEF Reads, Singles
        <5>2. Fits(Yaml, d[Yaml])
          BY <5>1 DEF Sound, Typed
        <5> QED BY <5>1, <5>2, FitsSingle
      <4>2. x \in Configs /\ x.packs = selected /\ x.auto = d[Yaml].auto
        BY <2>2, <4>1 DEF Configs
      <4>3. Chosen(x) = selected
        BY <1>3, <4>2 DEF Chosen
      <4> HIDE DEF x
      <4>4. Sound(e, c)
        BY <2>4, <3>1, LeadsEnds
      <4>5. HookWanted(e) <=> x.auto
        BY <3>1, <4>2 DEF HookWanted, Reads
      <4>6. ASSUME NEW p \in Packs, p \in Chosen(x) \ Chosen(e[Yaml])
            PROVE  Pack(p) \in DOMAIN recordOf(e, ownedFile) /\ e[pendingFile] = None /\ e[Pack(p)] # None
        <5>1. p \in selected \cap Catalogue[rev]
          BY <2>1, <2>2, <3>1, <4>3, <4>6 DEF Reads
        <5> QED BY <3>1, <5>1
      <4>7. Leads(e, <<put(Yaml, x)>>, g, c) /\ Operations(<<put(Yaml, x)>>) /\ g[Yaml] = x
        BY <2>2, <4>2, <4>3, <4>4, <4>5, <4>6, PutYaml
      <4> HIDE DEF g
      <4>8. Leads(d, ops, g, c) /\ Operations(ops)
        BY <2>4, <3>1, <4>7, LeadsThen
      <4>9. x # None
        BY <4>2, ManagedAssumption
      <4>10. Carries(d, g, cfg)
        BY <2>2, <4>3, <4>7, <4>9 DEF Carries, Reads
      <4> HIDE DEF ops
      <4>11. plan = [install EXCEPT !.ops = ops]
        BY <1>3, <2>6, <3>3 DEF ops, x
      <4>12. /\ plan.err = "" /\ plan.ops = ops /\ plan.undo = install.undo
        <5>1. install = [err |-> install.err, ops |-> install.ops, undo |-> install.undo]
          BY DEF install, Install, Steps, Refuse
        <5> QED BY <2>6, <4>11, <5>1
      <4> QED BY <2>4, <4>8, <4>10, <4>12 DEF Goes
    <3> QED BY <3>2, <3>3
  <2> QED BY <2>5, <2>6
<1> QED BY <1>1, <1>2, <1>3 DEF ensureProjectGuidance

(* Stage files: the legacy field, the example and .gitignore.              *)
LEMMA FilesGo ==
  ASSUME NEW d, NEW cfg, NEW c, Sound(d, c), NEW v \in Versions, NEW hosts \in SUBSET Hosts
  PROVE  Goes(d, Steps(LegacyClean(d) \o <<put(Example, Made(v))>> \o ensureGitignore(d, cfg, hosts)), c, cfg)
<1> DEFINE s == LegacyClean(d)
           t == <<put(Example, Made(v))>>
           u == ensureGitignore(d, cfg, hosts)
<1>1. \E e : Leads(d, s, e, c) /\ Operations(s) /\ Carries(d, e, cfg)
  <2>1. CASE s = <<>>
    BY <2>1, LeadsNone, NoOperations, CarriesSame
  <2>2. CASE d[Yaml] # None /\ s = <<put(Yaml, [d[Yaml] EXCEPT !.legacy = FALSE])>>
    <3> DEFINE x == [d[Yaml] EXCEPT !.legacy = FALSE]
               e == [d EXCEPT ![Yaml] = x]
    <3>1. d[Yaml] \in Configs
      BY <2>2, FitsSingle, SinglesDiffer DEF Sound, Typed
    <3>2. x \in Configs /\ x.packs = d[Yaml].packs /\ x.auto = d[Yaml].auto /\ x # None
      BY <3>1, ManagedAssumption DEF Configs
    <3> HIDE DEF x
    <3>3. Chosen(x) = Chosen(d[Yaml]) /\ (HookWanted(d) <=> x.auto)
      BY <2>2, <3>2 DEF Chosen, HookWanted
    <3>4. Leads(d, <<put(Yaml, x)>>, e, c) /\ Operations(<<put(Yaml, x)>>) /\ e[Yaml] = x
      BY <3>2, <3>3, PutYaml
    <3> HIDE DEF e
    <3>5. Carries(d, e, cfg)
      BY <3>2, <3>3, <3>4 DEF Carries, Reads
    <3> QED BY <2>2, <3>4, <3>5 DEF x
  <2> QED BY <2>1, <2>2 DEF LegacyClean
<1>2. PICK e : Leads(d, s, e, c) /\ Operations(s) /\ Carries(d, e, cfg)
  BY <1>1
<1>3. Sound(e, c)
  BY <1>2, LeadsEnds
<1> DEFINE f == [e EXCEPT ![Example] = Made(v)]
<1>4. Leads(e, t, f, c) /\ Operations(t)
  <2>1. Fits(Example, Made(v))
    BY FitsSingle DEF Mades
  <2> QED BY <1>3, <2>1, SinglesDiffer, PutSingle
<1>5. f[Yaml] = e[Yaml]
  BY <1>3, SinglesDiffer DEF Sound, Typed
<1> HIDE DEF f, t
<1>6. Sound(f, c)
  BY <1>4, LeadsEnds
<1>7. \E g : Leads(f, u, g, c) /\ Operations(u) /\ g[Yaml] = f[Yaml]
  <2> DEFINE lines == IF d[Gitignore] = None THEN {} ELSE d[Gitignore]
             wanted == hosts \cup {"example"} \cup (IF cfg.auto THEN {"STATUS.md"} ELSE {})
                       \cup (IF cfg.commitOutput THEN {} ELSE {"site/"})
             unwanted == (IF cfg.auto THEN {} ELSE {"STATUS.md"}) \cup (IF cfg.commitOutput THEN {"site/"} ELSE {})
             next == (lines \ unwanted) \cup wanted
  <2>1. u = IF next = lines THEN <<>> ELSE <<put(Gitignore, next)>>
    BY DEF ensureGitignore
  <2>2. next \in Lines
    <3>1. Fits(Gitignore, d[Gitignore])
      BY SinglesDiffer DEF Sound, Typed
    <3>2. d[Gitignore] \in {None} \cup Lines
      BY <3>1, FitsSingle
    <3>3. lines \in Lines
      BY <3>2 DEF Lines
    <3> HIDE DEF lines
    <3> QED BY <3>3 DEF Lines
  <2> HIDE DEF next, lines
  <2>3. CASE u = <<>>
    BY <1>6, <2>3, LeadsNone, NoOperations
  <2>4. CASE u = <<put(Gitignore, next)>>
    <3> DEFINE g == [f EXCEPT ![Gitignore] = next]
    <3>1. Fits(Gitignore, next)
      BY <2>2, FitsSingle
    <3>2. Leads(f, <<put(Gitignore, next)>>, g, c) /\ Operations(<<put(Gitignore, next)>>)
      BY <1>6, <3>1, SinglesDiffer, PutSingle
    <3>3. g[Yaml] = f[Yaml]
      BY <1>6, SinglesDiffer DEF Sound, Typed
    <3> HIDE DEF g
    <3> QED BY <2>4, <3>2, <3>3
  <2> QED BY <2>1, <2>3, <2>4
<1>8. PICK g : Leads(f, u, g, c) /\ Operations(u) /\ g[Yaml] = f[Yaml]
  BY <1>7
<1> HIDE DEF s, u
<1>9. Leads(d, s \o t, f, c) /\ Operations(s \o t)
  BY <1>2, <1>4, LeadsThen
<1>10. Leads(d, s \o t \o u, g, c) /\ Operations(s \o t \o u)
  BY <1>8, <1>9, LeadsThen
<1>11. Carries(d, g, cfg)
  BY <1>2, <1>5, <1>8 DEF Carries, Reads
<1>12. Goes(d, Steps(s \o t \o u), c, cfg)
  BY <1>10, <1>11, StepsGo
<1> QED BY <1>12 DEF s, t, u

(* Claude's settings, as they were when the stage was planned.             *)
LEMMA SettleLeads ==
  ASSUME NEW d, NEW c, Sound(d, c), NEW e, Sound(e, c), e[Settings] = d[Settings],
         NEW entries \in SUBSET {"user", "aiwf"}, "user" \in Entries(d) => "user" \in entries
  PROVE  /\ Operations(Settle(d, entries))
         /\ \E g : Leads(e, Settle(d, entries), g, c) /\ g[Yaml] = e[Yaml]
<1> DEFINE u == Settle(d, entries)
           x == [parses |-> TRUE, entries |-> entries]
<1>1. CASE u = <<>>
  BY <1>1, LeadsNone, NoOperations
<1>2. CASE u = <<stop>>
  <2>1. Plain(stop) /\ Effect(e, stop) = e
    BY DEF Plain, stop, Effect
  <2>2. Adopts(e, e, c)
    BY DEF Adopts
  <2>3. Leads(e, <<stop>>, e, c)
    BY <2>1, <2>2, LeadsOne
  <2>4. Operations(<<stop>>)
    <3>1. <<stop>> \in Seq({stop}) /\ Range(<<stop>>) = {stop}
      BY DEF Range
    <3> QED BY <3>1 DEF Operations
  <2> QED BY <1>2, <2>3, <2>4
<1>3. CASE u = <<put(Settings, x)>>
  <2> DEFINE g == [e EXCEPT ![Settings] = x]
  <2>1. x \in SettingsFiles /\ x.entries = entries
    BY DEF SettingsFiles
  <2>2. x # None /\ Fits(Settings, x)
    <3> HIDE DEF x
    <3> QED BY <2>1, FitsSingle, ManagedAssumption
  <2>3. e[Settings] # None /\ "user" \in e[Settings].entries => "user" \in x.entries
    BY <2>1 DEF Entries
  <2> HIDE DEF x
  <2>4. Leads(e, <<put(Settings, x)>>, g, c) /\ Operations(<<put(Settings, x)>>)
    BY <2>2, <2>3, SinglesDiffer, PutSingle
  <2>5. g[Yaml] = e[Yaml]
    BY SinglesDiffer DEF Sound, Typed
  <2> HIDE DEF g
  <2> QED BY <1>3, <2>4, <2>5
<1> QED BY <1>1, <1>2, <1>3 DEF Settle

(* Stage registry: the decision, and Claude's hook with its settings.      *)
LEMMA RegistryGoes ==
  ASSUME NEW d, NEW cfg, NEW c, Sound(d, c), d[Yaml] # None, NEW decision \in {None, "on", "off"}
  PROVE  Goes(d, Steps(<<put(Yaml, [d[Yaml] EXCEPT !.decision = decision])>> \o SyncHook(d, decision)), c, cfg)
<1> DEFINE x == [d[Yaml] EXCEPT !.decision = decision]
           s == <<put(Yaml, x)>>
           e == [d EXCEPT ![Yaml] = x]
           t == SyncHook(d, decision)
<1>1. d[Yaml] \in Configs
  BY FitsSingle, SinglesDiffer DEF Sound, Typed
<1>2. x \in Configs /\ x.packs = d[Yaml].packs /\ x.auto = d[Yaml].auto /\ x # None
  BY <1>1, ManagedAssumption DEF Configs
<1> HIDE DEF x
<1>3. Chosen(x) = Chosen(d[Yaml]) /\ (HookWanted(d) <=> x.auto)
  BY <1>2 DEF Chosen, HookWanted
<1>4. Leads(d, s, e, c) /\ Operations(s) /\ e[Yaml] = x
  BY <1>2, <1>3, PutYaml
<1>5. Carries(d, e, cfg)
  BY <1>2, <1>3, <1>4 DEF Carries, Reads
<1>6. Sound(e, c)
  BY <1>4, LeadsEnds
<1>7. e[Settings] = d[Settings]
  BY SinglesDiffer DEF Sound, Typed
<1> HIDE DEF e, s
<1>8. \E g : Leads(e, t, g, c) /\ Operations(t) /\ g[Yaml] = e[Yaml]
  <2>1. CASE decision = None
    <3>1. t = <<>>
      BY <2>1, ManagedAssumption DEF SyncHook
    <3> QED BY <1>6, <3>1, LeadsNone, NoOperations
  <2>2. ASSUME NEW y \in {None, hookScript}, NEW entries \in SUBSET {"user", "aiwf"}, "user" \in Entries(d) => "user" \in entries,
               t = <<put(Script, y)>> \o Settle(d, entries)
        PROVE  \E g : Leads(e, t, g, c) /\ Operations(t) /\ g[Yaml] = e[Yaml]
    <3> DEFINE f == [e EXCEPT ![Script] = y]
               u == Settle(d, entries)
    <3>1. Fits(Script, y)
      BY FitsSingle
    <3>2. Leads(e, <<put(Script, y)>>, f, c) /\ Operations(<<put(Script, y)>>)
      BY <1>6, <3>1, SinglesDiffer, PutSingle
    <3>3. f[Yaml] = e[Yaml] /\ f[Settings] = e[Settings]
      BY <1>6, SinglesDiffer DEF Sound, Typed
    <3> HIDE DEF f
    <3>4. Sound(f, c)
      BY <3>2, LeadsEnds
    <3>5. f[Settings] = d[Settings]
      BY <1>7, <3>3
    <3>6. Operations(u) /\ \E g : Leads(f, u, g, c) /\ g[Yaml] = f[Yaml]
      BY <2>2, <3>4, <3>5, SettleLeads
    <3>7. PICK g : Leads(f, u, g, c) /\ g[Yaml] = f[Yaml]
      BY <3>6
    <3> HIDE DEF u
    <3>8. Leads(e, <<put(Script, y)>> \o u, g, c) /\ Operations(<<put(Script, y)>> \o u)
      BY <3>2, <3>6, <3>7, LeadsThen
    <3> QED BY <2>2, <3>3, <3>7, <3>8 DEF u
  <2>3. Entries(d) \in SUBSET {"user", "aiwf"}
    <3>1. Fits(Settings, d[Settings])
      BY SinglesDiffer DEF Sound, Typed
    <3>2. d[Settings] \in {None} \cup SettingsFiles
      BY <3>1, FitsSingle
    <3> QED BY <3>2 DEF Entries, SettingsFiles
  <2>4. CASE decision = "on"
    <3>1. t = <<put(Script, hookScript)>> \o Settle(d, Entries(d) \cup {"aiwf"})
      BY <2>4, ManagedAssumption DEF SyncHook, MaterializeHooks, WireHookSettings
    <3>2. Entries(d) \cup {"aiwf"} \in SUBSET {"user", "aiwf"}
      BY <2>3
    <3> HIDE DEF t
    <3> QED BY <2>2, <3>1, <3>2
  <2>5. CASE decision = "off"
    <3>1. t = <<put(Script, None)>> \o Settle(d, Entries(d) \ {"aiwf"})
      BY <2>5, ManagedAssumption DEF SyncHook, MaterializeHooks, UnwireHookSettings, del
    <3>2. Entries(d) \ {"aiwf"} \in SUBSET {"user", "aiwf"}
      BY <2>3
    <3>3. "user" \in Entries(d) => "user" \in Entries(d) \ {"aiwf"}
      OBVIOUS
    <3> HIDE DEF t
    <3> QED BY <2>2, <3>1, <3>2, <3>3
  <2> QED BY <2>1, <2>4, <2>5
<1>9. PICK g : Leads(e, t, g, c) /\ Operations(t) /\ g[Yaml] = e[Yaml]
  BY <1>8
<1> HIDE DEF t
<1>10. Leads(d, s \o t, g, c) /\ Operations(s \o t)
  BY <1>4, <1>9, LeadsThen
<1>11. Carries(d, g, cfg)
  BY <1>5, <1>9 DEF Carries, Reads
<1>12. Goes(d, Steps(s \o t), c, cfg)
  BY <1>10, <1>11, StepsGo
<1> QED BY <1>12 DEF s, t, x

-----------------------------------------------------------------------------
(* The invariant: the files are sound, and what is left of a run leads to  *)
(* sound files.                                                            *)

Context ==
  LET cfg == run["main"].cfg IN
  [tidy |-> ~meddled, whole |-> ~meddled /\ "delete" \notin play.edits, kept |-> kept, asked |-> asked,
   read |-> IF cfg = None THEN {} ELSE Chosen(cfg)]

SameButHooks(d, e) == d = [p \in Paths |-> d[p]] /\ \A p \in Paths \ HookPaths : d[p] = e[p]

(* The hooks may have changed since the stage was planned.                 *)
Ahead(r, d, c) ==
  \E b, e : SameButHooks(b, d) /\ Leads(b, r.ops, e, c) /\ Reads(r.cfg, e)

HookOps(h) == {move(Hook(h), Local(h)), chmod(Local(h)), put(Hook(h), hookScript), put(Hook(h), None)}

(* aiwf.yaml is as the run has read it, or the run is about to write it.   *)
Ready(r, d) ==
  \/ Reads(r.cfg, d)
  \/ r.ops = <<>> /\ r.todo # <<>> /\ Head(r.todo) = <<"config", "">> /\ d[Yaml] = None /\ r.cfg = DefaultConfig
Busy(r) == r.todo # <<>> \/ r.ops # <<>>

RunSound(w, r, d, c) ==
  /\ Busy(r) => r.cfg \in Configs /\ r.ver \in Versions /\ r.result = "running"
  /\ r.ops # <<>> => IF r.part[1] = "hook" THEN r.ops \in Seq(HookOps(r.part[2])) ELSE w = "main" /\ Ahead(r, d, c)
  /\ w = "linked" => r.undo = {} /\ \A i \in 1..Len(r.todo) : r.todo[i][1] = "hook"
  /\ w = "main" /\ Busy(r) /\ ~(r.ops # <<>> /\ r.part[1] = "config") => Ready(r, d)
  /\ c.tidy => r.said \cap {"refused", "blocked"} = {}

Inv == TypeOK /\ Sound(disk, Context) /\ \A w \in Worktrees : RunSound(w, run[w], disk, Context)

(* The hooks, while no two worktrees have been at them together.           *)
Could(d, h) == IF Theirs(d[Hook(h)]) THEN (IF d[Hook(h)].x THEN {d[Hook(h)].by} ELSE {})
               ELSE IF d[Local(h)] # None /\ d[Local(h)].x THEN {d[Local(h)].by} ELSE {}
Settled(d, h) == Ours(d[Hook(h)]) \/ (Theirs(d[Hook(h)]) /\ d[Local(h)] # None)

HookSound(d, h, B, R, tidy) ==
  /\ Ours(d[Hook(h)]) => d[Hook(h)] = hookScript
  /\ ~Ours(d[Local(h)])
  /\ B \subseteq Bodies(d, h) /\ R \subseteq Could(d, h)
  /\ tidy => ~(Theirs(d[Hook(h)]) /\ d[Local(h)] # None)

PlannedHook(r, h, d) ==
  \/ /\ r.ops = <<move(Hook(h), Local(h)), chmod(Local(h)), put(Hook(h), hookScript)>>
     /\ Theirs(d[Hook(h)]) /\ d[Local(h)] = None
  \/ r.ops = <<chmod(Local(h)), put(Hook(h), hookScript)>> /\ d[Hook(h)] = None /\ Theirs(d[Local(h)])
  \/ r.ops = <<put(Hook(h), hookScript)>> /\ ~Theirs(d[Hook(h)])
  \/ r.ops = <<put(Hook(h), None)>> /\ Ours(d[Hook(h)]) /\ h = "post-commit" /\ ~r.cfg.auto

PassedHook(r, h) ==
  /\ r.result \in {"running", "done", "findings"}
  /\ \A i \in 1..Len(r.todo) : r.todo[i] # <<"hook", h>>
  /\ ~(r.part = <<"hook", h>> /\ r.ops # <<>>)

RunHooks(r, d, tidy) ==
  /\ r.part[1] = "hook" /\ r.ops # <<>> => PlannedHook(r, r.part[2], d)
  /\ \A h \in HookNames : PassedHook(r, h) /\ (h = "post-commit" => HookWanted(d)) => Settled(d, h)
  /\ tidy => "conflict" \notin r.said

(* What a run has still to do, and how it has read the configuration.      *)
RunOrder(r, d) ==
  /\ r.result # "" => r.cfg # None
  /\ r.cfg # None => (r.cfg.auto <=> HookWanted(d))
  /\ \A i \in 1..Len(r.todo) : r.todo[i][1] = "registry" => i = Len(r.todo)

HooksInv ==
  /\ \A w \in Worktrees : RunOrder(run[w], disk)
  /\ ~raced => /\ \A h \in HookNames : HookSound(disk, h, bodies[h], ran[h], ~meddled)
               /\ \A w \in Worktrees : RunHooks(run[w], disk, ~meddled)

-----------------------------------------------------------------------------
(* The stages.                                                             *)

Proceeds(d, plan, c, cfg) ==
  /\ Operations(plan.ops) /\ plan.undo \subseteq Temps /\ plan.err \in {"", "abort", "blocked"}
  /\ plan.err # "" => plan.ops = <<>> /\ ~c.tidy
  /\ plan.err = "" => \E e : Leads(d, plan.ops, e, c) /\ Reads(cfg, e)

(* What remains of a sound stage after its first operations is sound.      *)
LEMMA GoesProceeds ==
  ASSUME NEW d, NEW plan, NEW c, NEW cfg, Goes(d, plan, c, cfg), Reads(cfg, d)
  PROVE  Proceeds(d, plan, c, cfg)
BY DEF Goes, Proceeds, Carries

(* Every stage but the hooks' leaves sound files behind each of its        *)
(* operations, and refuses only where the user has been at aiwf's files.   *)
LEMMA StageProceeds ==
  ASSUME NEW d, NEW c, Sound(d, c), c.whole => c.tidy, NEW rev \in DOMAIN Catalogue,
         NEW r, c.read = Chosen(r.cfg), r.cfg \in Configs, r.hosts \in SUBSET Hosts, r.ver \in Versions, r.answer \in {None, "on", "off"},
         NEW stage \in Stages, stage[1] # "hook",
         Reads(r.cfg, d) \/ (stage = <<"config", "">> /\ d[Yaml] = None /\ r.cfg = DefaultConfig)
  PROVE  Proceeds(d, PlanOf(d, rev, r, stage), c, r.cfg)
<1> DEFINE plan == PlanOf(d, rev, r, stage)
<1> SUFFICES Proceeds(d, plan, c, r.cfg)
  OBVIOUS
<1>1. CASE stage[1] = "config"
  <2>1. plan = Steps(ensureConfig(d))
    BY <1>1 DEF PlanOf
  <2>2. CASE Reads(r.cfg, d)
    <3>1. Goes(d, Steps(ensureConfig(d)), c, r.cfg)
      BY ConfigGoes
    <3> HIDE DEF plan
    <3> QED BY <2>1, <2>2, <3>1, GoesProceeds
  <2>3. CASE d[Yaml] = None /\ r.cfg = DefaultConfig
    <3>1. PICK e : Leads(d, ensureConfig(d), e, c) /\ e[Yaml] = DefaultConfig
      BY <2>3, ConfigGoes
    <3>2. Goes(d, Steps(ensureConfig(d)), c, r.cfg)
      BY ConfigGoes
    <3>3. Operations(ensureConfig(d))
      BY <3>2 DEF Goes, Steps
    <3>4. e[Yaml] # None
      BY <2>3, <3>1, ManagedAssumption
    <3>5. Reads(r.cfg, e)
      BY <2>3, <3>1, <3>4 DEF Reads
    <3> HIDE DEF plan
    <3>6. plan.ops = ensureConfig(d) /\ plan.undo = {} /\ plan.err = ""
      BY <2>1 DEF Steps
    <3> QED BY <3>1, <3>3, <3>5, <3>6 DEF Proceeds
  <2> HIDE DEF plan
  <2> QED BY <1>1, <2>2, <2>3
<1>2. ASSUME stage[1] # "config" PROVE Reads(r.cfg, d)
  <2>1. <<"config", "">>[1] = "config"
    OBVIOUS
  <2>2. stage # <<"config", "">>
    BY <1>2, <2>1
  <2> HIDE DEF plan
  <2> QED BY <2>2
<1>3. ASSUME stage[1] # "config", Goes(d, plan, c, r.cfg) PROVE Proceeds(d, plan, c, r.cfg)
  <2> HIDE DEF plan
  <2> QED BY <1>2, <1>3, GoesProceeds
<1>4. CASE stage[1] = "claude-md"
  <2>1. plan = Steps(ensureClaudeMd(d))
    BY <1>4 DEF PlanOf
  <2>2. Goes(d, plan, c, r.cfg)
    BY <2>1, ClaudeMdGoes
  <2> HIDE DEF plan
  <2> QED BY <1>3, <1>4, <2>2
<1>5. CASE stage[1] = "artifacts"
  <2>1. stage[2] \in Hosts
    BY <1>5 DEF Stages
  <2>2. plan = materializeArtifactFamilies(d, stage[2], r.ver)
    BY <1>5 DEF PlanOf
  <2>3. Goes(d, materializeArtifactFamilies(d, stage[2], r.ver), c, r.cfg)
    BY <2>1, ArtifactsGo
  <2>4. Goes(d, plan, c, r.cfg)
    BY <2>2, <2>3
  <2> HIDE DEF plan
  <2> QED BY <1>3, <1>5, <2>4
<1>6. CASE stage[1] = "fragment"
  <2>1. plan = Steps(<<put(Fragment, Made(r.ver))>>)
    BY <1>6 DEF PlanOf
  <2>2. Goes(d, plan, c, r.cfg)
    BY <2>1, FragmentGoes
  <2> HIDE DEF plan
  <2> QED BY <1>3, <1>6, <2>2
<1>7. CASE stage[1] = "import"
  <2>1. stage[2] \in Hosts
    BY <1>7 DEF Stages
  <2>2. plan = Steps(ensureGuidanceImport(d, stage[2], r.ver, r.cfg))
    BY <1>7 DEF PlanOf
  <2>3. Goes(d, Steps(ensureGuidanceImport(d, stage[2], r.ver, r.cfg)), c, r.cfg)
    BY <2>1, ImportGoes
  <2>4. Goes(d, plan, c, r.cfg)
    BY <2>2, <2>3
  <2> HIDE DEF plan
  <2> QED BY <1>3, <1>7, <2>4
<1>8. CASE stage[1] = "guidance"
  <2>1. plan = ensureProjectGuidance(d, rev, r.cfg, r.hosts, r.ver)
    BY <1>8 DEF PlanOf
  <2>2. Reads(r.cfg, d)
    BY <1>2, <1>8
  <2>3. Goes(d, ensureProjectGuidance(d, rev, r.cfg, r.hosts, r.ver), c, r.cfg)
    BY <2>2, GuidanceGoes
  <2>4. Goes(d, plan, c, r.cfg)
    BY <2>1, <2>3
  <2> HIDE DEF plan
  <2> QED BY <1>3, <1>8, <2>4
<1>9. CASE stage[1] = "files"
  <2>1. plan = Steps(LegacyClean(d) \o <<put(Example, Made(r.ver))>> \o ensureGitignore(d, r.cfg, r.hosts))
    BY <1>9 DEF PlanOf
  <2>2. Goes(d, plan, c, r.cfg)
    BY <2>1, FilesGo
  <2> HIDE DEF plan
  <2> QED BY <1>3, <1>9, <2>2
<1>10. CASE stage[1] = "registry"
  <2>1. plan = Steps(<<put(Yaml, [d[Yaml] EXCEPT !.decision = Decided(d, r)])>> \o SyncHook(d, Decided(d, r)))
    BY <1>10 DEF PlanOf
  <2>2. Reads(r.cfg, d)
    BY <1>2, <1>10
  <2>3. d[Yaml] # None /\ Fits(Yaml, d[Yaml])
    BY <2>2, SinglesDiffer DEF Reads, Sound, Typed
  <2>4. d[Yaml] \in Configs
    BY <2>3, FitsSingle
  <2>5. Decided(d, r) \in {None, "on", "off"}
    BY <2>4 DEF Decided, Configs
  <2>6. Goes(d, plan, c, r.cfg)
    BY <2>1, <2>3, <2>5, RegistryGoes
  <2> HIDE DEF plan
  <2> QED BY <1>3, <1>10, <2>6
<1> HIDE DEF plan
<1> QED BY <1>1, <1>4, <1>5, <1>6, <1>7, <1>8, <1>9, <1>10 DEF Stages

(* Writing a hook.                                                         *)
LEMMA HookPlans ==
  ASSUME NEW d, NEW cfg, NEW h \in HookNames
  PROVE  LET plan == ensureHook(d, h, cfg) IN
         /\ plan.err \in {"", "conflict"} /\ plan.undo = {} /\ plan.ops \in Seq(HookOps(h)) /\ Operations(plan.ops)
<1> DEFINE plan == ensureHook(d, h, cfg)
           O == HookOps(h)
<1>1. \/ plan = Steps(<<>>) \/ plan = Refuse("conflict")
      \/ plan = Steps(<<put(Hook(h), hookScript)>>) \/ plan = Steps(<<put(Hook(h), None)>>)
      \/ plan = Steps(<<move(Hook(h), Local(h)), chmod(Local(h))>> \o <<put(Hook(h), hookScript)>>)
  BY DEF ensureHook, ensurePostCommitHook, ensurePreHook, migrateHookToLocal, del
<1>2. <<>> \in Seq(O) /\ <<put(Hook(h), hookScript)>> \in Seq(O) /\ <<put(Hook(h), None)>> \in Seq(O)
      /\ <<move(Hook(h), Local(h)), chmod(Local(h))>> \o <<put(Hook(h), hookScript)>> \in Seq(O)
  <2>1. {move(Hook(h), Local(h)), chmod(Local(h)), put(Hook(h), hookScript), put(Hook(h), None)} \subseteq O
    BY DEF HookOps
  <2> HIDE DEF O
  <2> QED BY <2>1
<1> HIDE DEF plan, O
<1>3. plan.ops \in Seq(O) /\ plan.err \in {"", "conflict"} /\ plan.undo = {}
  <2>1. ASSUME NEW s \in Seq(O), plan = Steps(s) PROVE plan.ops \in Seq(O) /\ plan.err = "" /\ plan.undo = {}
    BY <2>1 DEF Steps
  <2>2. CASE plan = Refuse("conflict")
    BY <1>2, <2>2 DEF Refuse
  <2> QED BY <1>1, <1>2, <2>1, <2>2
<1>4. Operations(plan.ops)
  BY <1>3, SeqOfRange DEF Operations
<1> QED BY <1>3, <1>4 DEF plan, O

-----------------------------------------------------------------------------
(* Single operations, while the other worktree is at the hooks.            *)

(* Nothing to do leads nowhere.                                            *)
LEMMA LeadsNothing ==
  ASSUME NEW d, NEW e, NEW c, Leads(d, <<>>, e, c)
  PROVE  e = d
<1>1. PICK D : Trail(D, d, <<>>, e, c)
  BY DEF Leads
<1> QED BY <1>1 DEF Trail

(* Anything fits at a hook.                                                *)
LEMMA FitsHook ==
  ASSUME NEW p \in HookPaths, NEW c
  PROVE  Fits(p, c)
<1>1. p \notin GuidancePaths \cup {ownedFile, pendingFile} \cup Singles
  BY OtherPaths
<1>2. p \notin {Pack(j) : j \in Packs} /\ p # indexFile /\ p \notin RootFiles
  BY <1>1, OtherPaths
<1>3. p \notin Artifacts /\ \A f \in Families : p # Owned(f) /\ p # Pending(f)
  <2>1. \A f \in Families : p \notin FamilyPaths(f)
    BY FamilyPathsArePaths
  <2>2. \A a \in Artifacts : \E f \in Families : a \in FamilyPaths(f)
    BY DEF Artifacts, FamilyPaths
  <2> QED BY <2>1, <2>2 DEF FamilyPaths
<1> QED BY <1>1, <1>2, <1>3 DEF Fits, Singles

(* The hooks are no concern of the other parts.                            *)
LEMMA SoundButHooks ==
  ASSUME NEW d, NEW e, NEW c, SameButHooks(d, e), e = [p \in Paths |-> e[p]], Sound(d, c)
  PROVE  Sound(e, c)
<1>1. \A p \in Paths : e[p] # d[p] => p \in HookPaths /\ Fits(p, e[p])
  BY FitsHook DEF SameButHooks
<1>2. e[Project] = d[Project] /\ e[Cli] = d[Cli] /\ e[Settings] = d[Settings]
  BY SinglesDiffer DEF SameButHooks
<1>3. e[Project] \in SUBSET Packs /\ e[Cli] \in SUBSET Hosts
  BY <1>2 DEF Sound, Typed
<1>4. <<Settings, "user">> \in c.kept => e[Settings] # None /\ "user" \in e[Settings].entries
  BY <1>2, SettingsKept
<1> QED BY <1>1, <1>3, <1>4, SoundElsewhere

(* Hooks play no part in what is adopted.                                  *)
LEMMA AdoptsButHooks ==
  ASSUME NEW d, NEW e, NEW g, NEW h, NEW c, SameButHooks(d, g), SameButHooks(e, h), Adopts(d, e, c)
  PROVE  Adopts(g, h, c)
<1>1. /\ Yaml \in Paths \ HookPaths /\ {ownedFile, pendingFile} \subseteq Paths \ HookPaths
      /\ \A p \in Packs : Pack(p) \in Paths \ HookPaths
  BY OtherPaths, SinglesDiffer
<1>2. /\ g[Yaml] = d[Yaml] /\ h[Yaml] = e[Yaml] /\ h[ownedFile] = e[ownedFile] /\ h[pendingFile] = e[pendingFile]
      /\ \A p \in Packs : h[Pack(p)] = e[Pack(p)]
  BY <1>1 DEF SameButHooks
<1> QED BY <1>2 DEF Adopts, HookWanted, recordOf

(* An operation elsewhere does the same whatever the hooks are.            *)
LEMMA PlainEffect ==
  ASSUME NEW d, NEW e, SameButHooks(d, e), e = [p \in Paths |-> e[p]], NEW o, Plain(o), Possible(e, o)
  PROVE  /\ SameButHooks(Effect(d, o), Effect(e, o)) /\ Effect(e, o) = [p \in Paths |-> Effect(e, o)[p]]
         /\ \A p \in HookPaths : Effect(e, o)[p] = e[p]
<1>1. HookPaths \subseteq Paths
  BY OtherPaths
<1>2. ASSUME o.op = "put", o.at \in Paths \ HookPaths
      PROVE  /\ SameButHooks(Effect(d, o), Effect(e, o)) /\ Effect(e, o) = [p \in Paths |-> Effect(e, o)[p]]
             /\ \A p \in HookPaths : Effect(e, o)[p] = e[p]
  <2>1. Effect(d, o) = [d EXCEPT ![o.at] = o.what] /\ Effect(e, o) = [e EXCEPT ![o.at] = o.what]
    BY <1>2 DEF Effect
  <2> QED BY <1>1, <1>2, <2>1 DEF SameButHooks
<1>3. ASSUME o.op = "move", o.at \in Paths \ HookPaths, o.what \in Paths \ HookPaths
      PROVE  /\ SameButHooks(Effect(d, o), Effect(e, o)) /\ Effect(e, o) = [p \in Paths |-> Effect(e, o)[p]]
             /\ \A p \in HookPaths : Effect(e, o)[p] = e[p]
  <2>1. Effect(d, o) = [d EXCEPT ![o.at] = d[o.what], ![o.what] = None] /\ Effect(e, o) = [e EXCEPT ![o.at] = e[o.what], ![o.what] = None]
    BY <1>3 DEF Effect
  <2>2. d = [p \in Paths |-> d[p]] /\ \A p \in Paths \ HookPaths : d[p] = e[p]
    BY DEF SameButHooks
  <2>3. /\ Effect(d, o) = [p \in Paths |-> IF p = o.what THEN None ELSE IF p = o.at THEN d[o.what] ELSE d[p]]
        /\ Effect(e, o) = [p \in Paths |-> IF p = o.what THEN None ELSE IF p = o.at THEN e[o.what] ELSE e[p]]
    BY <1>3, <2>1, <2>2
  <2> QED BY <1>1, <1>3, <2>2, <2>3 DEF SameButHooks
<1> QED BY <1>2, <1>3 DEF Plain, Possible

(* One operation of a trail, the hooks being what they are by then.        *)
LEMMA AheadStep ==
  ASSUME NEW d, NEW g, NEW c, NEW ops, NEW e, SameButHooks(d, g), g = [p \in Paths |-> g[p]], Operations(ops), ops # <<>>,
         Leads(d, ops, e, c), Possible(g, Head(ops))
  PROVE  LET h == Effect(g, Head(ops)) IN
         /\ Sound(h, c) /\ Adopts(g, h, c) /\ \A p \in HookPaths : h[p] = g[p]
         /\ \E b : SameButHooks(b, h) /\ Leads(b, Tail(ops), e, c)
         /\ Operations(Tail(ops))
<1> DEFINE o == Head(ops)
           h == Effect(g, o)
           b == Effect(d, o)
           t == Tail(ops)
<1>1. Plain(o) /\ Sound(b, c) /\ Adopts(d, b, c) /\ Leads(b, t, e, c) /\ Operations(t)
  BY LeadsTail
<1> HIDE DEF o, t
<1>2. SameButHooks(b, h) /\ h = [p \in Paths |-> h[p]] /\ \A p \in HookPaths : h[p] = g[p]
  BY <1>1, PlainEffect DEF o
<1> HIDE DEF b, h
<1>3. Sound(h, c)
  BY <1>1, <1>2, SoundButHooks
<1>4. Adopts(g, h, c)
  BY <1>1, <1>2, AdoptsButHooks
<1> QED BY <1>1, <1>2, <1>3, <1>4 DEF b, h, t, o

(* One operation on a hook.                                                *)
HooksTyped(d) == \A h \in HookNames : {d[Hook(h)], d[Local(h)]} \subseteq {None} \cup Scripts

(* The hooks and their .local have paths of their own.                     *)
LEMMA HookPathsDiffer ==
  /\ \A h \in HookNames : Hook(h) \in HookPaths /\ Local(h) \in HookPaths /\ \A i \in HookNames : Hook(h) # Local(i)
  /\ \A h, i \in HookNames : (Hook(h) = Hook(i) => h = i) /\ (Local(h) = Local(i) => h = i)
BY DEF HookPaths, Hook, Local

HookDone(d, h, o) ==
  LET e == Effect(d, o) IN
  /\ e = [p \in Paths |-> e[p]] /\ HooksTyped(e) /\ \A p \in Paths \ {Hook(h), Local(h)} : e[p] = d[p]
  /\ o = put(Hook(h), hookScript) => e[Hook(h)] = hookScript /\ e[Local(h)] = d[Local(h)]
  /\ o = put(Hook(h), None) => e[Hook(h)] = None /\ e[Local(h)] = d[Local(h)]
  /\ o = move(Hook(h), Local(h)) => e[Hook(h)] = None /\ e[Local(h)] = d[Hook(h)]
  /\ o = chmod(Local(h)) => e[Hook(h)] = d[Hook(h)] /\ e[Local(h)] = [d[Local(h)] EXCEPT !.x = TRUE]

(* What one operation on a hook does to it.                                *)
LEMMA HookEffect ==
  ASSUME NEW d, d = [p \in Paths |-> d[p]], HooksTyped(d), NEW h \in HookNames, NEW o \in HookOps(h), Possible(d, o)
  PROVE  HookDone(d, h, o)
<1> DEFINE H == Hook(h)
           L == Local(h)
           e == Effect(d, o)
<1>1. H \in Paths /\ L \in Paths /\ H # L
  BY HookPathsDiffer, OtherPaths
<1>2. /\ {d[H], d[L]} \subseteq {None} \cup Scripts
      /\ \A i \in HookNames \ {h} : {Hook(i), Local(i)} \subseteq Paths \ {H, L}
  BY HookPathsDiffer, OtherPaths DEF HooksTyped
<1>3. hookScript \in Scripts /\ None \notin Scripts
  BY ManagedAssumption DEF hookScript, Scripts
<1> HIDE DEF H, L
<1>4. ASSUME e = [p \in Paths |-> e[p]], \A p \in Paths \ {H, L} : e[p] = d[p], {e[H], e[L]} \subseteq {None} \cup Scripts
      PROVE  HooksTyped(e)
  <2> SUFFICES ASSUME NEW i \in HookNames PROVE {e[Hook(i)], e[Local(i)]} \subseteq {None} \cup Scripts
    BY DEF HooksTyped
  <2> HIDE DEF e
  <2>1. CASE i = h
    BY <1>4, <2>1 DEF H, L
  <2>2. CASE i # h
    <3>1. e[Hook(i)] = d[Hook(i)] /\ e[Local(i)] = d[Local(i)]
      BY <1>2, <1>4, <2>2
    <3> QED BY <3>1 DEF HooksTyped
  <2> QED BY <2>1, <2>2
<1>5. ASSUME NEW c \in {None, hookScript}, o = put(H, c)
      PROVE  e = [p \in Paths |-> e[p]] /\ HooksTyped(e) /\ (\A p \in Paths \ {H, L} : e[p] = d[p]) /\ e[H] = c /\ e[L] = d[L]
  <2>1. e = [d EXCEPT ![H] = c]
    BY <1>5 DEF Effect, put
  <2>2. e = [p \in Paths |-> e[p]] /\ (\A p \in Paths \ {H, L} : e[p] = d[p]) /\ e[H] = c /\ e[L] = d[L]
    BY <1>1, <2>1
  <2> HIDE DEF e
  <2> QED BY <1>2, <1>3, <1>4, <2>2
<1>6. ASSUME o = move(H, L)
      PROVE  e = [p \in Paths |-> e[p]] /\ HooksTyped(e) /\ (\A p \in Paths \ {H, L} : e[p] = d[p]) /\ e[H] = None /\ e[L] = d[H]
  <2>1. e = [d EXCEPT ![L] = d[H], ![H] = None]
    BY <1>6 DEF Effect, move
  <2>2. e = [p \in Paths |-> e[p]] /\ (\A p \in Paths \ {H, L} : e[p] = d[p]) /\ e[H] = None /\ e[L] = d[H]
    BY <1>1, <2>1
  <2> HIDE DEF e
  <2> QED BY <1>2, <1>4, <2>2
<1>7. ASSUME o = chmod(L)
      PROVE  e = [p \in Paths |-> e[p]] /\ HooksTyped(e) /\ (\A p \in Paths \ {H, L} : e[p] = d[p])
             /\ e[H] = d[H] /\ e[L] = [d[L] EXCEPT !.x = TRUE]
  <2>1. e = [d EXCEPT ![L].x = TRUE]
    BY <1>7 DEF Effect, chmod
  <2>2. e = [p \in Paths |-> e[p]] /\ (\A p \in Paths \ {H, L} : e[p] = d[p]) /\ e[H] = d[H] /\ e[L] = [d[L] EXCEPT !.x = TRUE]
    BY <1>1, <2>1
  <2>3. d[L] # None
    BY <1>7 DEF Possible, chmod
  <2>4. d[L] \in Scripts
    BY <1>2, <2>3
  <2>5. [d[L] EXCEPT !.x = TRUE] \in Scripts
    BY <2>4 DEF Scripts
  <2> HIDE DEF e
  <2> QED BY <1>2, <1>4, <2>2, <2>5
<1>8. \/ o = put(H, hookScript) \/ o = put(H, None) \/ o = move(H, L) \/ o = chmod(L)
  BY DEF HookOps, H, L
<1>9. put(H, hookScript) # put(H, None) /\ put(H, hookScript) # move(H, L) /\ put(H, hookScript) # chmod(L)
      /\ put(H, None) # move(H, L) /\ put(H, None) # chmod(L) /\ move(H, L) # chmod(L)
  <2>1. put(H, hookScript).what = hookScript /\ put(H, None).what = None /\ put(H, None).op = "put" /\ put(H, hookScript).op = "put"
        /\ move(H, L).op = "move" /\ chmod(L).op = "chmod"
    BY DEF put, move, chmod
  <2> QED BY <1>3, <2>1
<1> HIDE DEF e
<1>10. /\ e = [p \in Paths |-> e[p]] /\ HooksTyped(e) /\ \A p \in Paths \ {H, L} : e[p] = d[p]
       /\ o = put(H, hookScript) => e[H] = hookScript /\ e[L] = d[L]
       /\ o = put(H, None) => e[H] = None /\ e[L] = d[L]
       /\ o = move(H, L) => e[H] = None /\ e[L] = d[H]
       /\ o = chmod(L) => e[H] = d[H] /\ e[L] = [d[L] EXCEPT !.x = TRUE]
  BY <1>5, <1>6, <1>7, <1>8, <1>9
<1> QED BY <1>10 DEF HookDone, e, H, L

-----------------------------------------------------------------------------
(* The steps of a run, for any files d, record r and context c.            *)

RunIn(O) ==
  [kind : {"", "init", "update"}, ver : {0} \cup Versions, cfg : {None} \cup Configs, hosts : SUBSET Hosts,
   answer : {None, "on", "off"}, todo : Seq(Stages), ops : O, undo : SUBSET Temps,
   part : {<<"", "">>} \cup Stages, said : SUBSET {"refused", "blocked", "conflict", "unreachable", "fault"},
   result : {"", "running", "done", "findings", "failed", "crashed"}]
RunTyped(r) == r \in RunIn(Seq(Range(r.ops)))

(* The fields of a run, by type.                                           *)
LEMMA RunFields ==
  ASSUME NEW r, RunTyped(r)
  PROVE  /\ r.cfg \in {None} \cup Configs /\ r.hosts \in SUBSET Hosts /\ r.answer \in {None, "on", "off"}
         /\ r.todo \in Seq(Stages) /\ Operations(r.ops) /\ r.undo \in SUBSET Temps /\ r.part \in {<<"", "">>} \cup Stages
         /\ r.said \in SUBSET {"refused", "blocked", "conflict", "unreachable", "fault"}
BY DEF RunTyped, RunIn, Operations

(* The same run, further on.                                               *)
Later(r, s, todo, ops, undo, part, said, result) ==
  /\ RunTyped(s)
  /\ s.todo = todo /\ s.ops = ops /\ s.undo = undo /\ s.part = part /\ s.said = said /\ s.result = result
  /\ s.kind = r.kind /\ s.cfg = r.cfg /\ s.ver = r.ver /\ s.hosts = r.hosts /\ s.answer = r.answer

Sayings == {"refused", "blocked", "conflict", "unreachable", "fault"}
Results == {"", "running", "done", "findings", "failed", "crashed"}

(* A run that ends is one.                                                 *)
LEMMA RunEnds ==
  ASSUME NEW r, RunTyped(r), NEW z \in Results
  PROVE  Later(r, Ends(r, z), <<>>, <<>>, {}, <<"", "">>, r.said, z)
<1> DEFINE s == Ends(r, z)
<1>0. <<>> \in Seq(Stages) /\ <<>> \in Seq(Range(<<>>))
  OBVIOUS
<1>1. s \in RunIn(Seq(Range(<<>>)))
  BY <1>0 DEF Ends, RunTyped, RunIn, Results
<1>2. /\ s.todo = <<>> /\ s.ops = <<>> /\ s.undo = {} /\ s.part = <<"", "">> /\ s.said = r.said /\ s.result = z
      /\ s.kind = r.kind /\ s.cfg = r.cfg /\ s.ver = r.ver /\ s.hosts = r.hosts /\ s.answer = r.answer
  BY DEF Ends, RunTyped, RunIn
<1> HIDE DEF s
<1> QED BY <1>1, <1>2 DEF Later, RunTyped, s

(* A run that is refused is one.                                           *)
LEMMA RunRefused ==
  ASSUME NEW r, RunTyped(r), NEW a \in SUBSET Sayings
  PROVE  Later(r, Ends([r EXCEPT !.said = @ \cup a], "failed"), <<>>, <<>>, {}, <<"", "">>, r.said \cup a, "failed")
<1> DEFINE s == Ends([r EXCEPT !.said = @ \cup a], "failed")
<1>0. <<>> \in Seq(Stages) /\ <<>> \in Seq(Range(<<>>))
  OBVIOUS
<1>1. s \in RunIn(Seq(Range(<<>>)))
  BY <1>0 DEF Ends, RunTyped, RunIn, Sayings
<1>2. /\ s.todo = <<>> /\ s.ops = <<>> /\ s.undo = {} /\ s.part = <<"", "">> /\ s.said = r.said \cup a /\ s.result = "failed"
      /\ s.kind = r.kind /\ s.cfg = r.cfg /\ s.ver = r.ver /\ s.hosts = r.hosts /\ s.answer = r.answer
  BY DEF Ends, RunTyped, RunIn
<1> HIDE DEF s
<1> QED BY <1>1, <1>2 DEF Later, RunTyped, s

(* A run that begins a stage is one.                                       *)
LEMMA RunBegins ==
  ASSUME NEW r, RunTyped(r), NEW todo \in Seq(Stages), NEW plan, Operations(plan.ops), plan.undo \in SUBSET Temps,
         NEW stage \in Stages, NEW said \in SUBSET Sayings,
         NEW s, s = [r EXCEPT !.todo = todo, !.ops = plan.ops, !.undo = plan.undo, !.part = stage, !.said = said]
  PROVE  Later(r, s, todo, plan.ops, plan.undo, stage, said, r.result)
<1>1. s \in RunIn(Seq(Range(plan.ops)))
  BY DEF RunTyped, RunIn, Sayings, Operations
<1>2. /\ s.todo = todo /\ s.ops = plan.ops /\ s.undo = plan.undo /\ s.part = stage /\ s.said = said /\ s.result = r.result
      /\ s.kind = r.kind /\ s.cfg = r.cfg /\ s.ver = r.ver /\ s.hosts = r.hosts /\ s.answer = r.answer
  BY DEF RunTyped, RunIn
<1> QED BY <1>1, <1>2 DEF Later, RunTyped

(* A run that skips a stage is one.                                        *)
LEMMA RunSkips ==
  ASSUME NEW r, RunTyped(r), NEW todo \in Seq(Stages), NEW a \in SUBSET Sayings,
         NEW s, s = [r EXCEPT !.todo = todo, !.said = @ \cup a]
  PROVE  Later(r, s, todo, r.ops, r.undo, r.part, r.said \cup a, r.result)
<1>1. s \in RunIn(Seq(Range(r.ops)))
  BY DEF RunTyped, RunIn, Sayings
<1>2. /\ s.todo = todo /\ s.ops = r.ops /\ s.undo = r.undo /\ s.part = r.part /\ s.said = r.said \cup a /\ s.result = r.result
      /\ s.kind = r.kind /\ s.cfg = r.cfg /\ s.ver = r.ver /\ s.hosts = r.hosts /\ s.answer = r.answer
  BY DEF RunTyped, RunIn
<1> QED BY <1>1, <1>2 DEF Later, RunTyped

(* A run that has done an operation is one.                                *)
LEMMA RunDoes ==
  ASSUME NEW r, RunTyped(r), NEW ops, Operations(ops), NEW s, s = [r EXCEPT !.ops = ops]
  PROVE  Later(r, s, r.todo, ops, r.undo, r.part, r.said, r.result)
<1>1. s \in RunIn(Seq(Range(ops)))
  BY DEF RunTyped, RunIn, Operations
<1>2. /\ s.todo = r.todo /\ s.ops = ops /\ s.undo = r.undo /\ s.part = r.part /\ s.said = r.said /\ s.result = r.result
      /\ s.kind = r.kind /\ s.cfg = r.cfg /\ s.ver = r.ver /\ s.hosts = r.hosts /\ s.answer = r.answer
  BY DEF RunTyped, RunIn
<1> QED BY <1>1, <1>2 DEF Later, RunTyped

(* A run that gives a stage up is one.                                     *)
LEMMA RunDrops ==
  ASSUME NEW r, RunTyped(r), NEW a \in SUBSET Sayings, NEW s, s = [r EXCEPT !.ops = <<>>, !.undo = {}, !.said = @ \cup a]
  PROVE  Later(r, s, r.todo, <<>>, {}, r.part, r.said \cup a, r.result)
<1>0. <<>> \in Seq(Stages) /\ <<>> \in Seq(Range(<<>>))
  OBVIOUS
<1>1. s \in RunIn(Seq(Range(<<>>)))
  BY <1>0 DEF RunTyped, RunIn, Sayings
<1>2. /\ s.todo = r.todo /\ s.ops = <<>> /\ s.undo = {} /\ s.part = r.part /\ s.said = r.said \cup a /\ s.result = r.result
      /\ s.kind = r.kind /\ s.cfg = r.cfg /\ s.ver = r.ver /\ s.hosts = r.hosts /\ s.answer = r.answer
  BY DEF RunTyped, RunIn
<1> QED BY <1>1, <1>2 DEF Later, RunTyped

(* A run that finishes is one.                                             *)
LEMMA RunFinishes ==
  ASSUME NEW r, RunTyped(r), NEW z \in Results, NEW s, s = [r EXCEPT !.result = z]
  PROVE  Later(r, s, r.todo, r.ops, r.undo, r.part, r.said, z)
<1>1. s \in RunIn(Seq(Range(r.ops)))
  BY DEF RunTyped, RunIn, Results
<1>2. /\ s.todo = r.todo /\ s.ops = r.ops /\ s.undo = r.undo /\ s.part = r.part /\ s.said = r.said /\ s.result = z
      /\ s.kind = r.kind /\ s.cfg = r.cfg /\ s.ver = r.ver /\ s.hosts = r.hosts /\ s.answer = r.answer
  BY DEF RunTyped, RunIn
<1> QED BY <1>1, <1>2 DEF Later, RunTyped

(* No run at all is one.                                                   *)
LEMMA NoRunTyped == RunTyped(NoRun)
BY DEF RunTyped, RunIn, NoRun

-----------------------------------------------------------------------------
(* A run's steps keep it sound.                                            *)

(* The first member of a sequence, and the others.                         *)
LEMMA FirstStage ==
  ASSUME NEW S, NEW q \in Seq(S), q # <<>>
  PROVE  /\ Head(q) = q[1] /\ q[1] \in S /\ Tail(q) \in Seq(S) /\ Len(q) \in Nat \ {0} /\ Len(Tail(q)) = Len(q) - 1
         /\ \A i \in 1..Len(Tail(q)) : Tail(q)[i] = q[i + 1] /\ i + 1 \in 1..Len(q)
         /\ \A i \in 1..Len(q) : i = 1 \/ (i - 1 \in 1..Len(Tail(q)) /\ q[i] = Tail(q)[i - 1])
OBVIOUS

(* The first stage of a run, and the others.                               *)
LEMMA StageQueue ==
  ASSUME NEW r, RunTyped(r), r.todo # <<>>
  PROVE  /\ Head(r.todo) = r.todo[1] /\ Head(r.todo) \in Stages /\ 1 \in 1..Len(r.todo) /\ Tail(r.todo) \in Seq(Stages)
         /\ Len(r.todo) \in Nat \ {0} /\ Len(Tail(r.todo)) = Len(r.todo) - 1
         /\ \A i \in 1..Len(Tail(r.todo)) : Tail(r.todo)[i] = r.todo[i + 1] /\ i + 1 \in 1..Len(r.todo)
         /\ \A i \in 1..Len(r.todo) : i = 1 \/ (i - 1 \in 1..Len(Tail(r.todo)) /\ r.todo[i] = Tail(r.todo)[i - 1])
<1> DEFINE q == r.todo
<1>1. q \in Seq(Stages)
  BY RunFields
<1> HIDE DEF q
<1>2. q # <<>>
  BY DEF q
<1>3. /\ Head(q) = q[1] /\ q[1] \in Stages /\ Tail(q) \in Seq(Stages) /\ Len(q) \in Nat \ {0} /\ Len(Tail(q)) = Len(q) - 1
      /\ \A i \in 1..Len(Tail(q)) : Tail(q)[i] = q[i + 1] /\ i + 1 \in 1..Len(q)
      /\ \A i \in 1..Len(q) : i = 1 \/ (i - 1 \in 1..Len(Tail(q)) /\ q[i] = Tail(q)[i - 1])
  BY <1>1, <1>2, FirstStage
<1>4. 1 \in 1..Len(q)
  BY <1>3
<1> QED BY <1>3, <1>4 DEF q

(* The plan of a stage that worktree w begins.                             *)
PlanFits(w, d, plan, stage, c, cfg) ==
  /\ Operations(plan.ops) /\ plan.undo \subseteq Temps /\ plan.err \in {"", "abort", "blocked", "conflict"}
  /\ plan.err \in {"abort", "blocked"} => plan.ops = <<>> /\ ~c.tidy
  /\ stage[1] = "hook" => plan.err \in {"", "conflict"} /\ plan.ops \in Seq(HookOps(stage[2])) /\ plan.undo = {}
  /\ stage[1] # "hook" => w = "main" /\ plan.err # "conflict" /\ (plan.ops # <<>> => \E e : Leads(d, plan.ops, e, c) /\ Reads(cfg, e))
  /\ w = "main" /\ (stage[1] # "config" \/ plan.ops = <<>>) => Reads(cfg, d)

(* Every stage's plan, made from sound files, fits the stage.              *)
LEMMA PlansFit ==
  ASSUME NEW w \in Worktrees, NEW d, NEW c, Sound(d, c), c.whole => c.tidy, NEW rev \in DOMAIN Catalogue,
         NEW r, RunTyped(r), RunSound(w, r, d, c), w = "main" => c.read = Chosen(r.cfg), r.ops = <<>>, r.todo # <<>>
  PROVE  PlanFits(w, d, PlanOf(d, rev, r, Head(r.todo)), Head(r.todo), c, r.cfg)
<1> DEFINE stage == Head(r.todo)
           plan == PlanOf(d, rev, r, stage)
<1>1. stage = r.todo[1] /\ stage \in Stages /\ 1 \in 1..Len(r.todo)
  BY StageQueue
<1>2. r.cfg \in Configs /\ r.ver \in Versions /\ r.hosts \in SUBSET Hosts /\ r.answer \in {None, "on", "off"}
  BY RunFields DEF RunSound, Busy
<1>3. w = "linked" => stage[1] = "hook"
  BY <1>1 DEF RunSound
<1>4. w = "main" => Ready(r, d)
  BY DEF RunSound, Busy
<1>5. <<"config", "">>[1] = "config"
  OBVIOUS
<1> SUFFICES PlanFits(w, d, plan, stage, c, r.cfg)
  OBVIOUS
<1>6. w = "main" => Reads(r.cfg, d) \/ (stage = <<"config", "">> /\ d[Yaml] = None /\ r.cfg = DefaultConfig)
  BY <1>4 DEF Ready
<1>7. CASE stage[1] = "hook"
  <2>1. stage[2] \in HookNames
    BY <1>1, <1>7 DEF Stages
  <2>2. plan = ensureHook(d, stage[2], r.cfg)
    BY <1>7 DEF PlanOf
  <2> HIDE DEF stage
  <2> DEFINE it == ensureHook(d, stage[2], r.cfg)
  <2>5. it.err \in {"", "conflict"} /\ it.undo = {} /\ it.ops \in Seq(HookOps(stage[2])) /\ Operations(it.ops)
    BY <2>1, HookPlans
  <2> HIDE DEF it
  <2>3. plan.err \in {"", "conflict"} /\ plan.undo = {} /\ plan.ops \in Seq(HookOps(stage[2])) /\ Operations(plan.ops)
    BY <2>2, <2>5 DEF it
  <2>4. w = "main" => Reads(r.cfg, d)
    BY <1>5, <1>6, <1>7
  <2> HIDE DEF plan
  <2> QED BY <1>7, <2>3, <2>4 DEF PlanFits
<1>8. CASE stage[1] # "hook"
  <2>1. w = "main"
    BY <1>3, <1>8 DEF Worktrees
  <2> HIDE DEF stage
  <2>2. Proceeds(d, plan, c, r.cfg)
    BY <1>1, <1>2, <1>6, <1>8, <2>1, StageProceeds
  <2>3. stage[1] = "config" => plan.err = ""
    BY DEF PlanOf, Steps
  <2> HIDE DEF plan
  <2>4. stage[1] # "config" => Reads(r.cfg, d)
    BY <1>5, <1>6, <2>1
  <2>5. stage[1] = "config" /\ plan.ops = <<>> => Reads(r.cfg, d)
    BY <2>2, <2>3, LeadsNothing DEF Proceeds
  <2>6. plan.ops # <<>> => \E e : Leads(d, plan.ops, e, c) /\ Reads(r.cfg, e)
    BY <2>2 DEF Proceeds
  <2>7. /\ Operations(plan.ops) /\ plan.undo \subseteq Temps /\ plan.err \in {"", "abort", "blocked"}
        /\ plan.err # "" => plan.ops = <<>> /\ ~c.tidy
    BY <2>2 DEF Proceeds
  <2> QED BY <1>8, <2>1, <2>4, <2>5, <2>6, <2>7 DEF PlanFits
<1> QED BY <1>7, <1>8

(* A run that is over is sound.                                            *)
LEMMA OverIsSound ==
  ASSUME NEW w, NEW d, NEW c, NEW s, s.todo = <<>>, s.ops = <<>>, s.undo = {}, c.tidy => s.said \cap {"refused", "blocked"} = {}
  PROVE  RunSound(w, s, d, c)
<1>1. \A i \in 1..Len(s.todo) : FALSE
  OBVIOUS
<1> QED BY <1>1 DEF RunSound, Busy

(* How a run goes on from a stage it begins.                               *)
Begun(r, s, plan, stage) ==
  \/ plan.err = "abort" /\ Later(r, s, <<>>, <<>>, {}, <<"", "">>, r.said \cup {"refused"}, "failed")
  \/ stage[1] = "registry" /\ "conflict" \in r.said /\ Later(r, s, <<>>, <<>>, {}, <<"", "">>, r.said, "findings")
  \/ /\ plan.err # "abort"
     /\ Later(r, s, Tail(r.todo), plan.ops, plan.undo, stage, r.said \cup ({plan.err} \ {""}), r.result)

(* A run that begins a stage stays sound.                                  *)
LEMMA BeginSound ==
  ASSUME NEW w \in Worktrees, NEW d, NEW c, Sound(d, c), NEW r, RunTyped(r), RunSound(w, r, d, c),
         r.ops = <<>>, r.todo # <<>>, NEW plan, PlanFits(w, d, plan, Head(r.todo), c, r.cfg),
         NEW s, s = IF plan.err = "abort" THEN Ends([r EXCEPT !.said = @ \cup {"refused"}], "failed")
                    ELSE IF Head(r.todo)[1] = "registry" /\ "conflict" \in r.said THEN Ends(r, "findings")
                    ELSE [r EXCEPT !.todo = Tail(@), !.ops = plan.ops, !.undo = plan.undo, !.part = Head(r.todo),
                                   !.said = IF plan.err = "" THEN @ ELSE @ \cup {plan.err}]
  PROVE  RunSound(w, s, d, c) /\ Begun(r, s, plan, Head(r.todo))
<1> DEFINE stage == Head(r.todo)
<1>1. stage = r.todo[1] /\ stage \in Stages /\ 1 \in 1..Len(r.todo) /\ Tail(r.todo) \in Seq(Stages)
      /\ \A i \in 1..Len(Tail(r.todo)) : Tail(r.todo)[i] = r.todo[i + 1] /\ i + 1 \in 1..Len(r.todo)
  BY StageQueue
<1>2. r.said \in SUBSET Sayings
  BY RunFields DEF Sayings
<1>3. CASE plan.err = "abort"
  <2>1. Later(r, s, <<>>, <<>>, {}, <<"", "">>, r.said \cup {"refused"}, "failed")
    BY <1>3, RunRefused DEF Sayings
  <2>2. ~c.tidy
    BY <1>3 DEF PlanFits
  <2>3. RunSound(w, s, d, c)
    BY <2>1, <2>2, OverIsSound DEF Later
  <2> QED BY <1>3, <2>1, <2>3 DEF Begun
<1>4. CASE plan.err # "abort" /\ stage[1] = "registry" /\ "conflict" \in r.said
  <2>1. Later(r, s, <<>>, <<>>, {}, <<"", "">>, r.said, "findings")
    BY <1>4, RunEnds DEF Results
  <2>2. RunSound(w, s, d, c)
    <3>1. c.tidy => r.said \cap {"refused", "blocked"} = {}
      BY DEF RunSound
    <3> QED BY <2>1, <3>1, OverIsSound DEF Later
  <2> QED BY <1>4, <2>1, <2>2 DEF Begun
<1>5. CASE plan.err # "abort" /\ ~(stage[1] = "registry" /\ "conflict" \in r.said)
  <2> DEFINE said == r.said \cup ({plan.err} \ {""})
  <2>1. said \in SUBSET Sayings /\ said = (IF plan.err = "" THEN r.said ELSE r.said \cup {plan.err})
    BY <1>2, <1>5 DEF PlanFits, Sayings
  <2>2. s = [r EXCEPT !.todo = Tail(r.todo), !.ops = plan.ops, !.undo = plan.undo, !.part = stage, !.said = said]
    BY <1>5, <2>1
  <2>3. Operations(plan.ops) /\ plan.undo \in SUBSET Temps
    BY DEF PlanFits
  <2> HIDE DEF said, stage
  <2>4. Later(r, s, Tail(r.todo), plan.ops, plan.undo, stage, said, r.result)
    BY <1>1, <2>1, <2>2, <2>3, RunBegins
  <2>5. r.cfg \in Configs /\ r.ver \in Versions /\ r.result = "running"
    BY DEF RunSound, Busy
  <2>6. Busy(s) => s.cfg \in Configs /\ s.ver \in Versions /\ s.result = "running"
    BY <2>4, <2>5 DEF Later
  <2>7. s.ops # <<>> => IF s.part[1] = "hook" THEN s.ops \in Seq(HookOps(s.part[2])) ELSE w = "main" /\ Ahead(s, d, c)
    <3>1. CASE stage[1] = "hook"
      BY <2>4, <3>1 DEF Later, PlanFits, stage
    <3>2. CASE stage[1] # "hook" /\ plan.ops # <<>>
      <4>1. w = "main" /\ \E e : Leads(d, plan.ops, e, c) /\ Reads(r.cfg, e)
        BY <3>2 DEF PlanFits, stage
      <4>2. SameButHooks(d, d)
        BY DEF Sound, Typed, SameButHooks
      <4>3. Ahead(s, d, c)
        BY <2>4, <4>1, <4>2 DEF Ahead, Later
      <4> QED BY <2>4, <3>2, <4>1, <4>3 DEF Later
    <3> QED BY <2>4, <3>1, <3>2 DEF Later
  <2>8. w = "linked" => \A i \in 1..Len(s.todo) : s.todo[i][1] = "hook"
    <3>1. w = "linked" => \A i \in 1..Len(r.todo) : r.todo[i][1] = "hook"
      BY DEF RunSound
    <3>2. s.todo = Tail(r.todo)
      BY <2>4 DEF Later
    <3>3. \A i \in 1..Len(Tail(r.todo)) : Tail(r.todo)[i] = r.todo[i + 1] /\ i + 1 \in 1..Len(r.todo)
      BY <1>1
    <3>4. ASSUME w = "linked", NEW i \in 1..Len(Tail(r.todo)) PROVE Tail(r.todo)[i][1] = "hook"
      <4>1. Tail(r.todo)[i] = r.todo[i + 1] /\ i + 1 \in 1..Len(r.todo)
        BY <3>3, <3>4
      <4>2. r.todo[i + 1][1] = "hook"
        BY <3>1, <3>4, <4>1
      <4> QED BY <4>1, <4>2
    <3> QED BY <3>2, <3>4
  <2>9. w = "main" /\ Busy(s) /\ ~(s.ops # <<>> /\ s.part[1] = "config") => Ready(s, d)
    BY <2>4 DEF Later, PlanFits, stage, Ready
  <2>10. c.tidy => s.said \cap {"refused", "blocked"} = {}
    <3>1. c.tidy => plan.err \notin {"abort", "blocked"}
      BY DEF PlanFits
    <3>2. c.tidy => r.said \cap {"refused", "blocked"} = {}
      BY DEF RunSound
    <3> QED BY <2>4, <3>1, <3>2, <1>5 DEF Later, PlanFits, said
  <2>12. w = "linked" => s.undo = {}
    <3>1. w = "linked" => stage[1] = "hook"
      BY <1>1 DEF RunSound, stage
    <3> QED BY <2>4, <3>1 DEF Later, PlanFits, stage
  <2>11. RunSound(w, s, d, c)
    BY <2>12, <2>6, <2>7, <2>8, <2>9, <2>10 DEF RunSound
  <2> QED BY <1>5, <2>4, <2>11 DEF Begun, said, stage
<1> QED BY <1>3, <1>4, <1>5

-----------------------------------------------------------------------------
(* What a run is started with.                                             *)

RegistryLast(q) == \A i \in 1..Len(q) : q[i][1] = "registry" => i = Len(q)
Others == {s \in Stages : s[1] # "registry"}

(* Stages before the registry's keep that the last.                        *)
LEMMA OthersThenMore ==
  ASSUME NEW a \in Seq(Others), NEW q \in Seq(Stages), RegistryLast(q)
  PROVE  a \o q \in Seq(Stages) /\ RegistryLast(a \o q) /\ \A x : Contains(q, x) => Contains(a \o q, x)
<1>1. a \in Seq(Stages) /\ \A i \in 1..Len(a) : a[i][1] # "registry"
  BY DEF Others
<1>2. /\ a \o q \in Seq(Stages) /\ Len(a \o q) = Len(a) + Len(q) /\ Len(a) \in Nat /\ Len(q) \in Nat
      /\ \A i \in 1..Len(a \o q) : (a \o q)[i] = IF i <= Len(a) THEN a[i] ELSE q[i - Len(a)]
  BY <1>1
<1>3. RegistryLast(a \o q)
  <2> SUFFICES ASSUME NEW i \in 1..Len(a \o q), (a \o q)[i][1] = "registry" PROVE i = Len(a \o q)
    BY DEF RegistryLast
  <2>1. ~(i <= Len(a))
    BY <1>1, <1>2
  <2>2. i - Len(a) \in 1..Len(q) /\ (a \o q)[i] = q[i - Len(a)]
    BY <1>2, <2>1
  <2>3. i - Len(a) = Len(q)
    BY <2>2 DEF RegistryLast
  <2> QED BY <1>2, <2>3
<1>4. ASSUME NEW x, Contains(q, x) PROVE Contains(a \o q, x)
  <2>1. PICK i \in 1..Len(q) : q[i] = x
    BY <1>4 DEF Contains
  <2>2. i + Len(a) \in 1..Len(a \o q) /\ ~(i + Len(a) <= Len(a)) /\ (i + Len(a)) - Len(a) = i
    BY <1>2
  <2>3. (a \o q)[i + Len(a)] = x
    BY <1>2, <2>1, <2>2
  <2> QED BY <2>2, <2>3 DEF Contains
<1> QED BY <1>2, <1>3, <1>4

(* Sequences of one and two.                                               *)
LEMMA SmallSequences ==
  ASSUME NEW S
  PROVE  /\ <<>> \in Seq(S) /\ \A x \in S : <<x>> \in Seq(S) /\ <<x>>[1] = x /\ Len(<<x>>) = 1
         /\ \A x, y \in S : <<x, y>> \in Seq(S) /\ <<x, y>>[1] = x /\ <<x, y>>[2] = y /\ Len(<<x, y>>) = 2
         /\ \A a, b \in Seq(S) : a \o b \in Seq(S)
OBVIOUS

(* Sequences over a larger set.                                            *)
LEMMA WiderSequences ==
  ASSUME NEW S, NEW T, S \subseteq T, NEW q \in Seq(S)
  PROVE  q \in Seq(T)
OBVIOUS

(* The head of a concatenation.                                            *)
LEMMA FirstOfTwo ==
  ASSUME NEW S, NEW a \in Seq(S), NEW b \in Seq(S), a # <<>>
  PROVE  a \o b # <<>> /\ Head(a \o b) = a[1]
<1>1. Len(a) \in Nat \ {0} /\ Len(b) \in Nat
  OBVIOUS
<1>2. Len(a \o b) = Len(a) + Len(b) /\ 1 \in 1..Len(a \o b) /\ 1 <= Len(a)
  BY <1>1
<1>3. (a \o b)[1] = a[1]
  BY <1>1, <1>2
<1>4. a \o b \in Seq(S) /\ a \o b # <<>>
  BY <1>2
<1> QED BY <1>3, <1>4

(* The stages of a command: every hook's, and the registry's last.         *)
LEMMA TypedStages ==
  ASSUME NEW kind, NEW hosts
  PROVE  LET q == StagesOf(kind, hosts) IN
         /\ q \in Seq(Stages) /\ RegistryLast(q) /\ \A h \in HookNames : Contains(q, <<"hook", h>>)
         /\ q # <<>> /\ (kind = "init" => Head(q) = <<"config", "">>)
<1> DEFINE a == IF kind = "init" THEN <<<<"config", "">>>> \o (IF "claude-code" \in hosts THEN <<<<"claude-md", "">>>> ELSE <<>>) ELSE <<>>
           b == IF "claude-code" \in hosts THEN OfHost("claude-code") ELSE <<>>
           x == IF "codex" \in hosts THEN OfHost("codex") ELSE <<>>
           g == <<<<"guidance", "">>, <<"files", "">>>>
           e == IF "claude-code" \in hosts THEN <<<<"registry", "">>>> ELSE <<>>
           y == b \o x \o g
           q == y \o HookStages \o e
<1>1. /\ \A t \in {"config", "claude-md", "guidance", "files"} : <<t, "">> \in Others
      /\ \A t \in {"artifacts", "fragment", "import"}, h \in Hosts : <<t, h>> \in Others
      /\ \A h \in HookNames : <<"hook", h>> \in Others
      /\ <<"registry", "">> \in Stages
  BY DEF Others, Stages
<1>2. OfHost("claude-code") \in Seq(Others) /\ OfHost("codex") \in Seq(Others)
  <2> SUFFICES ASSUME NEW h \in Hosts PROVE OfHost(h) \in Seq(Others)
    BY DEF Hosts
  <2> DEFINE s1 == <<"artifacts", h>>
             s2 == <<"fragment", h>>
             s3 == <<"import", h>>
  <2>1. s1 \in Others /\ s2 \in Others /\ s3 \in Others
    BY <1>1
  <2>2. OfHost(h) = <<s1>> \o (IF h = "claude-code" THEN <<s2>> ELSE <<>>) \o <<s3>>
    BY DEF OfHost
  <2> HIDE DEF s1, s2, s3
  <2>3. <<s1>> \in Seq(Others) /\ <<s2>> \in Seq(Others) /\ <<s3>> \in Seq(Others) /\ <<>> \in Seq(Others)
    BY <2>1, SmallSequences
  <2>4. <<s1>> \o <<s2>> \in Seq(Others) /\ <<s1>> \o <<>> \in Seq(Others)
    BY <2>3, SmallSequences
  <2>5. <<s1>> \o <<s2>> \o <<s3>> \in Seq(Others) /\ <<s1>> \o <<>> \o <<s3>> \in Seq(Others)
    BY <2>3, <2>4, SmallSequences
  <2> QED BY <2>2, <2>5
<1>3. a \in Seq(Others) /\ b \in Seq(Others) /\ x \in Seq(Others) /\ g \in Seq(Others) /\ HookStages \in Seq(Others)
  <2> DEFINE s1 == <<"config", "">>
             s2 == <<"claude-md", "">>
             s3 == <<"guidance", "">>
             s4 == <<"files", "">>
             s5 == <<"hook", "pre-push">>
             s6 == <<"hook", "post-commit">>
  <2>1. {s1, s2, s3, s4, s5, s6} \subseteq Others
    BY <1>1 DEF HookNames
  <2>2. a = (IF kind = "init" THEN <<s1>> \o (IF "claude-code" \in hosts THEN <<s2>> ELSE <<>>) ELSE <<>>)
        /\ g = <<s3, s4>> /\ HookStages = <<s5, s6>>
    BY DEF HookStages
  <2> HIDE DEF s1, s2, s3, s4, s5, s6
  <2>3. /\ <<>> \in Seq(Others) /\ <<s1>> \in Seq(Others) /\ <<s2>> \in Seq(Others) /\ <<s3, s4>> \in Seq(Others)
        /\ <<s5, s6>> \in Seq(Others)
    BY <2>1, SmallSequences
  <2>4. <<s1>> \o <<>> \in Seq(Others) /\ <<s1>> \o <<s2>> \in Seq(Others)
    BY <2>3, SmallSequences
  <2> HIDE DEF a, g
  <2> QED BY <1>2, <2>2, <2>3, <2>4
<1>4. e \in Seq(Stages) /\ RegistryLast(e)
  <2> DEFINE s == <<"registry", "">>
  <2>1. s \in Stages /\ e = IF "claude-code" \in hosts THEN <<s>> ELSE <<>>
    BY <1>1
  <2> HIDE DEF s, e
  <2>2. <<>> \in Seq(Stages) /\ <<s>> \in Seq(Stages) /\ Len(<<s>>) = 1 /\ Len(<<>>) = 0
    BY <2>1
  <2>3. RegistryLast(<<>>) /\ RegistryLast(<<s>>)
    BY <2>2 DEF RegistryLast
  <2> QED BY <2>1, <2>2, <2>3
<1>5. HookStages \in Seq(Stages) /\ (\A h \in HookNames : Contains(HookStages, <<"hook", h>>)) /\ Len(HookStages) = 2
  <2>1. HookStages \in Seq(Stages)
    <3>1. Others \subseteq Stages
      BY DEF Others
    <3> QED BY <1>3, <3>1, WiderSequences
  <2> DEFINE s5 == <<"hook", "pre-push">>
             s6 == <<"hook", "post-commit">>
  <2>2. HookStages = <<s5, s6>>
    BY DEF HookStages
  <2>3. ASSUME NEW h \in HookNames PROVE <<"hook", h>> = s5 \/ <<"hook", h>> = s6
    BY DEF HookNames
  <2> HIDE DEF s5, s6
  <2>4. Len(HookStages) = 2 /\ HookStages[1] = s5 /\ HookStages[2] = s6
    BY <2>2
  <2>5. Contains(HookStages, s5) /\ Contains(HookStages, s6)
    BY <2>4 DEF Contains
  <2> QED BY <2>1, <2>3, <2>4, <2>5
<1>6. StagesOf(kind, hosts) = a \o q
  BY DEF StagesOf, refreshArtifacts
<1>7. kind = "init" => a # <<>> /\ a[1] = <<"config", "">>
  <2> DEFINE s1 == <<"config", "">>
             s2 == <<"claude-md", "">>
  <2>1. a = IF kind = "init" THEN <<s1>> \o (IF "claude-code" \in hosts THEN <<s2>> ELSE <<>>) ELSE <<>>
    OBVIOUS
  <2> HIDE DEF s1, s2, a
  <2>2. <<s1>> \o <<s2>> # <<>> /\ <<s1>> \o <<>> # <<>> /\ (<<s1>> \o <<s2>>)[1] = s1 /\ (<<s1>> \o <<>>)[1] = s1
    OBVIOUS
  <2> QED BY <2>1, <2>2 DEF s1
<1> HIDE DEF a, b, x, g, e
<1>8. y \in Seq(Others)
  BY <1>3
<1> HIDE DEF y
<1>9. y \o HookStages \in Seq(Others) /\ y \in Seq(Stages)
  BY <1>3, <1>8 DEF Others
<1>10. RegistryLast(HookStages)
  <2>1. \A i \in 1..Len(HookStages) : HookStages[i] \in Others
    BY <1>3
  <2> QED BY <2>1 DEF RegistryLast, Others
<1>11. \A h \in HookNames : Contains(y \o HookStages, <<"hook", h>>)
  BY <1>5, <1>8, <1>10, OthersThenMore
<1>12. q \in Seq(Stages) /\ RegistryLast(q)
  BY <1>4, <1>9, OthersThenMore
<1>13. ASSUME NEW h \in HookNames PROVE Contains(q, <<"hook", h>>)
  <2> DEFINE z == y \o HookStages
             k == <<"hook", h>>
  <2>1. z \in Seq(Stages) /\ e \in Seq(Stages) /\ Contains(z, k)
    BY <1>4, <1>9, <1>11 DEF Others
  <2> HIDE DEF z, k
  <2>2. PICK i \in 1..Len(z) : z[i] = k
    BY <2>1 DEF Contains
  <2>3. i \in 1..Len(z \o e) /\ (z \o e)[i] = k
    BY <2>1, <2>2
  <2>4. Contains(z \o e, k)
    BY <2>3 DEF Contains
  <2> QED BY <2>4 DEF z, k
<1>14. q # <<>>
  BY <1>12, <1>13 DEF Contains, HookNames
<1> HIDE DEF q
<1>15. /\ a \o q \in Seq(Stages) /\ RegistryLast(a \o q) /\ \A h \in HookNames : Contains(a \o q, <<"hook", h>>)
  BY <1>3, <1>12, <1>13, OthersThenMore
<1>16. a \o q # <<>> /\ (kind = "init" => Head(a \o q) = <<"config", "">>)
  <2>1. a \in Seq(Stages)
    BY <1>3 DEF Others
  <2>2. a # <<>> => a \o q # <<>> /\ Head(a \o q) = a[1]
    BY <1>12, <2>1, FirstOfTwo
  <2>3. a \o q # <<>>
    BY <1>15 DEF Contains, HookNames
  <2> QED BY <1>7, <2>2, <2>3
<1> QED BY <1>6, <1>15, <1>16

-----------------------------------------------------------------------------
(* The other steps of a run.                                               *)

(* What a run has read depends on aiwf.yaml only.                          *)
LEMMA ReadsTheSame ==
  ASSUME NEW d, NEW e, e[Yaml] = d[Yaml], NEW cfg, Reads(cfg, d)
  PROVE  Reads(cfg, e)
BY DEF Reads

RunOf(kind, v, cfg, hosts, answer, todo, ops, undo, part, said) ==
  [kind |-> kind, ver |-> v, cfg |-> cfg, hosts |-> hosts, answer |-> answer, todo |-> todo, ops |-> ops,
   undo |-> undo, part |-> part, said |-> said, result |-> "running"]
(* A run, field by field.                                                  *)
LEMMA RunRecord ==
  ASSUME NEW O, NEW kind \in {"init", "update"}, NEW v \in {0} \cup Versions, NEW answer \in {None, "on", "off"}, NEW cfg \in {None} \cup Configs,
         NEW hosts \in SUBSET Hosts, NEW todo \in Seq(Stages), NEW ops \in O, NEW undo \in SUBSET Temps, NEW part \in {<<"", "">>} \cup Stages,
         NEW said \in SUBSET {"refused", "blocked", "conflict", "unreachable", "fault"}
  PROVE  RunOf(kind, v, cfg, hosts, answer, todo, ops, undo, part, said) \in RunIn(O)
BY DEF RunIn, RunOf

StartStep(w, d, c, s) ==
  /\ RunTyped(s) /\ RunSound(w, s, d, c) /\ s.ops = <<>> /\ s.said = {} /\ s.result = "running" /\ s.part = <<"", "">>
  /\ RegistryLast(s.todo) /\ \A h \in HookNames : Contains(s.todo, <<"hook", h>>)
  /\ s.cfg \in Configs /\ s.cfg = IF d[Yaml] = None THEN DefaultConfig ELSE d[Yaml]

(* A run that starts is sound.                                             *)
LEMMA StartedRun ==
  ASSUME NEW w \in Worktrees, NEW d, NEW c, Sound(d, c), NEW kind \in {"init", "update"}, NEW v \in Versions,
         NEW answer \in {None, "on", "off"}, kind = "init" \/ d[Yaml] # None, w = "linked" => kind = "update",
         NEW s,
         s = [NoRun EXCEPT !.kind = kind, !.ver = v, !.answer = answer, !.cfg = IF d[Yaml] = None THEN DefaultConfig ELSE d[Yaml],
               !.hosts = ResolveHosts(d), !.todo = IF w = "main" THEN StagesOf(kind, ResolveHosts(d)) ELSE HookStages, !.result = "running"]
  PROVE  StartStep(w, d, c, s)
<1> DEFINE cfg == IF d[Yaml] = None THEN DefaultConfig ELSE d[Yaml]
           hosts == ResolveHosts(d)
           todo == IF w = "main" THEN StagesOf(kind, hosts) ELSE HookStages
<1>1. Fits(Yaml, d[Yaml]) /\ d[Cli] \in SUBSET Hosts
  BY SinglesDiffer DEF Sound, Typed
<1>2. d[Yaml] # None => d[Yaml] \in Configs
  BY <1>1, FitsSingle
<1>3. DefaultConfig \in Configs
  BY DEF DefaultConfig, Configs
<1>4. cfg \in Configs
  BY <1>2, <1>3
<1>5. hosts \in SUBSET Hosts
  <2>1. d[Yaml] # None => d[Yaml].hosts \in {None} \cup SUBSET Hosts
    BY <1>2 DEF Configs
  <2> QED BY <1>1, <2>1 DEF ResolveHosts
<1>6. HookStages \in Seq(Stages) /\ RegistryLast(HookStages) /\ (\A h \in HookNames : Contains(HookStages, <<"hook", h>>))
      /\ \A i \in 1..Len(HookStages) : HookStages[i][1] = "hook"
  <2> DEFINE s5 == <<"hook", "pre-push">>
             s6 == <<"hook", "post-commit">>
  <2>1. HookStages = <<s5, s6>> /\ s5[1] = "hook" /\ s6[1] = "hook"
    BY DEF HookStages
  <2>2. s5 \in Stages /\ s6 \in Stages
    BY DEF Stages, HookNames
  <2>3. ASSUME NEW h \in HookNames PROVE <<"hook", h>> = s5 \/ <<"hook", h>> = s6
    BY DEF HookNames
  <2> HIDE DEF s5, s6
  <2>4. Len(HookStages) = 2 /\ HookStages[1] = s5 /\ HookStages[2] = s6 /\ HookStages \in Seq(Stages)
    BY <2>1, <2>2
  <2>5. Contains(HookStages, s5) /\ Contains(HookStages, s6)
    BY <2>4 DEF Contains
  <2>6. \A i \in 1..Len(HookStages) : HookStages[i] = s5 \/ HookStages[i] = s6
    BY <2>4
  <2>7. RegistryLast(HookStages)
    BY <2>1, <2>6 DEF RegistryLast
  <2> QED BY <2>1, <2>3, <2>4, <2>5, <2>6, <2>7
<1>7. /\ todo \in Seq(Stages) /\ RegistryLast(todo) /\ \A h \in HookNames : Contains(todo, <<"hook", h>>)
      /\ w = "main" => todo # <<>> /\ (kind = "init" => Head(todo) = <<"config", "">>)
      /\ w = "linked" => \A i \in 1..Len(todo) : todo[i][1] = "hook"
  <2> DEFINE q == StagesOf(kind, hosts)
  <2>1. q \in Seq(Stages) /\ RegistryLast(q) /\ (\A h \in HookNames : Contains(q, <<"hook", h>>))
        /\ q # <<>> /\ (kind = "init" => Head(q) = <<"config", "">>)
    BY TypedStages
  <2> HIDE DEF q
  <2>2. CASE w = "main"
    BY <2>1, <2>2 DEF q
  <2>3. CASE w = "linked"
    BY <1>6, <2>3
  <2> QED BY <2>2, <2>3 DEF Worktrees
<1> HIDE DEF cfg, hosts, todo
<1>8. s = [NoRun EXCEPT !.kind = kind, !.ver = v, !.answer = answer, !.cfg = cfg, !.hosts = hosts, !.todo = todo, !.result = "running"]
  BY DEF cfg, hosts, todo
<1>9. RunTyped(NoRun)
  BY NoRunTyped
<1>10. s \in RunIn(Seq(Range(<<>>)))
  <2> DEFINE none == <<>>
             nowhere == <<"", "">>
             nothing == {}
             O == Seq(Range(none))
             P == {nowhere} \cup Stages
             A == SUBSET {"refused", "blocked", "conflict", "unreachable", "fault"}
  <2>1. none \in O
    OBVIOUS
  <2>2. v \in {0} \cup Versions /\ cfg \in {None} \cup Configs /\ nothing \in SUBSET Temps
    BY <1>4
  <2>3. nowhere \in P /\ nothing \in A
    OBVIOUS
  <2>4. s = [kind |-> kind, ver |-> v, cfg |-> cfg, hosts |-> hosts, answer |-> answer, todo |-> todo, ops |-> none,
             undo |-> nothing, part |-> nowhere, said |-> nothing, result |-> "running"]
    BY <1>8 DEF NoRun
  <2> HIDE DEF none, nowhere, nothing, O, P, A
  <2>5. nowhere \in {<<"", "">>} \cup Stages /\ nothing \in SUBSET {"refused", "blocked", "conflict", "unreachable", "fault"}
    BY <2>3 DEF P, A, nowhere
  <2>6. RunOf(kind, v, cfg, hosts, answer, todo, none, nothing, nowhere, nothing) \in RunIn(O)
    BY <1>5, <1>7, <2>1, <2>2, <2>5, RunRecord
  <2>7. s = RunOf(kind, v, cfg, hosts, answer, todo, none, nothing, nowhere, nothing)
    BY <2>4 DEF RunOf
  <2> QED BY <2>6, <2>7 DEF none, O
<1>11. s.ops = <<>> /\ s.undo = {} /\ s.said = {} /\ s.result = "running" /\ s.part = <<"", "">> /\ s.todo = todo /\ s.cfg = cfg /\ s.ver = v
  BY <1>8 DEF NoRun
<1>12. RunTyped(s)
  BY <1>10, <1>11 DEF RunTyped
<1>13. w = "main" => Ready(s, d)
  <2>1. CASE d[Yaml] = None
    <3>1. kind = "init" /\ cfg = DefaultConfig
      BY <2>1 DEF cfg
    <3> QED BY <1>7, <1>11, <2>1, <3>1 DEF Ready
  <2>2. CASE d[Yaml] # None
    <3>1. cfg = d[Yaml]
      BY <2>2 DEF cfg
    <3>2. Reads(s.cfg, d)
      BY <1>11, <2>2, <3>1 DEF Reads
    <3> QED BY <3>2 DEF Ready
  <2> QED BY <2>1, <2>2
<1>14. RunSound(w, s, d, c)
  BY <1>4, <1>7, <1>11, <1>13 DEF RunSound
<1> QED BY <1>4, <1>7, <1>11, <1>12, <1>14 DEF StartStep, cfg

(* A run that skips the guidance is sound.                                 *)
LEMMA SkippedSound ==
  ASSUME NEW w \in Worktrees, NEW d, NEW c, NEW r, RunTyped(r), RunSound(w, r, d, c),
         r.ops = <<>>, r.todo # <<>>, Head(r.todo)[1] = "guidance",
         NEW s, s = [r EXCEPT !.todo = Tail(@), !.said = @ \cup {"unreachable"}]
  PROVE  RunSound(w, s, d, c) /\ Later(r, s, Tail(r.todo), <<>>, r.undo, r.part, r.said \cup {"unreachable"}, r.result)
<1>1. /\ Head(r.todo) = r.todo[1] /\ 1 \in 1..Len(r.todo) /\ Tail(r.todo) \in Seq(Stages)
  BY StageQueue
<1>2. Later(r, s, Tail(r.todo), r.ops, r.undo, r.part, r.said \cup {"unreachable"}, r.result)
  BY <1>1, RunSkips DEF Sayings
<1>3. w = "main"
  <2>1. w = "linked" => \A i \in 1..Len(r.todo) : r.todo[i][1] = "hook"
    BY DEF RunSound
  <2> QED BY <1>1, <2>1 DEF Worktrees
<1>4. s.ops = <<>> /\ s.todo = Tail(r.todo) /\ s.said = r.said \cup {"unreachable"} /\ s.cfg = r.cfg /\ s.ver = r.ver /\ s.result = r.result
  BY <1>2 DEF Later
<1>5. <<"config", "">>[1] = "config"
  OBVIOUS
<1>6. Ready(r, d) /\ r.cfg \in Configs /\ r.ver \in Versions /\ r.result = "running"
  BY <1>3 DEF RunSound, Busy
<1>7. Reads(s.cfg, d)
  BY <1>4, <1>5, <1>6 DEF Ready
<1>8. c.tidy => s.said \cap {"refused", "blocked"} = {}
  <2>1. c.tidy => r.said \cap {"refused", "blocked"} = {}
    BY DEF RunSound
  <2> QED BY <1>4, <2>1
<1>9. Ready(s, d)
  BY <1>7 DEF Ready
<1>10. RunSound(w, s, d, c)
  BY <1>3, <1>4, <1>6, <1>8, <1>9 DEF RunSound
<1> QED BY <1>2, <1>10

(* The other worktree's run does not mind.                                 *)
LEMMA OtherIsSound ==
  ASSUME NEW o \in Worktrees, NEW d, NEW e, NEW c, NEW r, RunSound(o, r, d, c),
         o = "main" => \A p \in Paths \ HookPaths : e[p] = d[p]
  PROVE  RunSound(o, r, e, c)
<1>1. CASE o = "linked"
  <2>1. o # "main"
    BY <1>1
  <2> QED BY <1>1, <2>1 DEF RunSound
<1>2. CASE o = "main"
  <2>1. \A p \in Paths \ HookPaths : e[p] = d[p]
    BY <1>2
  <2>2. e[Yaml] = d[Yaml]
    BY <2>1, SinglesDiffer
  <2>3. \A b : SameButHooks(b, d) => SameButHooks(b, e)
    BY <2>1 DEF SameButHooks
  <2>4. Ahead(r, d, c) => Ahead(r, e, c)
    BY <2>3 DEF Ahead
  <2>5. Ready(r, d) => Ready(r, e)
    BY <2>2 DEF Ready, Reads
  <2> QED BY <1>2, <2>4, <2>5 DEF RunSound
<1> QED BY <1>1, <1>2 DEF Worktrees

(* A linked worktree's run only has hook stages, sound on any disk.        *)
LEMMA LinkedIsSound ==
  ASSUME NEW d, NEW e, NEW c, NEW k, NEW r, RunSound("linked", r, d, c), k.tidy => c.tidy
  PROVE  RunSound("linked", r, e, k)
<1>1. "linked" # "main"
  OBVIOUS
<1> QED BY <1>1 DEF RunSound

-----------------------------------------------------------------------------
(* An operation of a run.                                                  *)

(* The hook a hook stage is about.                                         *)
LEMMA HookOfPart ==
  ASSUME NEW r, RunTyped(r), r.part[1] = "hook"
  PROVE  r.part[2] \in HookNames
<1>1. r.part \in {<<"", "">>} \cup Stages
  BY RunFields
<1>2. <<"", "">>[1] = ""
  OBVIOUS
<1>3. r.part \in Stages
  BY <1>1, <1>2
<1> QED BY <1>3 DEF Stages

(* The rest of a sequence.                                                 *)
LEMMA SequenceTail ==
  ASSUME NEW S, NEW q \in Seq(S), q # <<>>
  PROVE  Head(q) \in S /\ Tail(q) \in Seq(S) /\ Head(q) = q[1] /\ Len(Tail(q)) = Len(q) - 1
         /\ \A i \in 1..Len(Tail(q)) : Tail(q)[i] = q[i + 1]
OBVIOUS

(* Nothing is adopted while aiwf.yaml stays.                               *)
LEMMA AdoptsAlike ==
  ASSUME NEW d, NEW e, NEW c, e[Yaml] = d[Yaml]
  PROVE  Adopts(d, e, c)
BY DEF Adopts, HookWanted

HookStep(w, d, c, r, s) ==
  LET e == Effect(d, Head(r.ops)) IN
  /\ Later(r, s, r.todo, Tail(r.ops), r.undo, r.part, r.said, r.result)
  /\ Sound(e, c) /\ HooksTyped(e) /\ Adopts(d, e, c) /\ RunSound(w, s, e, c)
  /\ \A p \in Paths \ {Hook(r.part[2]), Local(r.part[2])} : e[p] = d[p]

(* An operation of a hook stage leaves files and run sound.                *)
LEMMA DoHook ==
  ASSUME NEW w \in Worktrees, NEW d, NEW c, Sound(d, c), HooksTyped(d), NEW r, RunTyped(r), RunSound(w, r, d, c),
         r.ops # <<>>, r.part[1] = "hook", Possible(d, Head(r.ops)), NEW s, s = [r EXCEPT !.ops = Tail(@)]
  PROVE  HookStep(w, d, c, r, s)
<1> DEFINE h == r.part[2]
           o == Head(r.ops)
           e == Effect(d, o)
           t == Tail(r.ops)
<1>1. h \in HookNames
  BY HookOfPart
<1>2. r.ops \in Seq(HookOps(h)) /\ Operations(r.ops)
  BY RunFields DEF RunSound
<1>3. o \in HookOps(h) /\ t \in Seq(HookOps(h)) /\ t \in Seq(Range(r.ops))
  BY <1>2, SequenceTail DEF Operations
<1>4. Operations(t)
  BY <1>3, SeqOfRange DEF Operations
<1>5. d = [p \in Paths |-> d[p]]
  BY DEF Sound, Typed
<1>13. Possible(d, o)
  OBVIOUS
<1> HIDE DEF h, o, t
<1>6. /\ e = [p \in Paths |-> e[p]] /\ HooksTyped(e) /\ \A p \in Paths \ {Hook(h), Local(h)} : e[p] = d[p]
  <2>1. o \in HookOps(h) /\ h \in HookNames /\ d = [p \in Paths |-> d[p]] /\ HooksTyped(d) /\ Possible(d, o)
    BY <1>1, <1>3, <1>5, <1>13
  <2>2. HookDone(d, h, o)
    BY <2>1, HookEffect
  <2> QED BY <2>2 DEF HookDone
<1> HIDE DEF e
<1>7. Hook(h) \in HookPaths /\ Local(h) \in HookPaths
  BY <1>1, HookPathsDiffer
<1>8. (\A p \in Paths \ HookPaths : e[p] = d[p]) /\ SameButHooks(d, e)
  BY <1>5, <1>6, <1>7 DEF SameButHooks
<1>9. Sound(e, c)
  BY <1>6, <1>8, SoundButHooks
<1>10. e[Yaml] = d[Yaml]
  BY <1>8, SinglesDiffer
<1>11. Later(r, s, r.todo, t, r.undo, r.part, r.said, r.result)
  BY <1>4, RunDoes DEF t
<1>12. RunSound(w, s, e, c)
  <2>1. s.ops = t /\ s.undo = r.undo /\ s.todo = r.todo /\ s.part = r.part /\ s.said = r.said /\ s.cfg = r.cfg /\ s.ver = r.ver /\ s.result = r.result
    BY <1>11 DEF Later
  <2>2. s.ops \in Seq(HookOps(s.part[2])) /\ s.part[1] = "hook"
    BY <1>3, <2>1 DEF h
  <2>3. Busy(r) /\ "hook" # "config"
    BY DEF Busy
  <2>4. w = "main" => Ready(r, d)
    BY <2>3 DEF RunSound
  <2>5. w = "main" => Reads(s.cfg, e)
    BY <1>10, <2>1, <2>4 DEF Ready, Reads
  <2> QED BY <2>1, <2>2, <2>3, <2>5 DEF RunSound, Ready
<1> QED BY <1>6, <1>9, <1>10, <1>11, <1>12, AdoptsAlike DEF HookStep, h, o, t, e

(* Any other operation leaves files and run sound, and the hooks alone.    *)
LEMMA DoOther ==
  ASSUME NEW w \in Worktrees, NEW d, NEW c, Sound(d, c), HooksTyped(d), NEW r, RunTyped(r), RunSound(w, r, d, c),
         w = "main" => c.read = Chosen(r.cfg),
         r.ops # <<>>, r.part[1] # "hook", Possible(d, Head(r.ops)), NEW s, s = [r EXCEPT !.ops = Tail(@)]
  PROVE  LET e == Effect(d, Head(r.ops)) IN
         /\ Later(r, s, r.todo, Tail(r.ops), r.undo, r.part, r.said, r.result)
         /\ Sound(e, c) /\ HooksTyped(e) /\ Adopts(d, e, c) /\ RunSound(w, s, e, c) /\ w = "main"
         /\ \A p \in HookPaths : e[p] = d[p]
<1> DEFINE o == Head(r.ops)
           e == Effect(d, o)
           t == Tail(r.ops)
<1>1. Operations(r.ops) /\ w = "main" /\ Ahead(r, d, c)
  BY RunFields DEF RunSound
<1>2. PICK b, g : SameButHooks(b, d) /\ Leads(b, r.ops, g, c) /\ Reads(r.cfg, g)
  BY <1>1 DEF Ahead
<1>3. d = [p \in Paths |-> d[p]]
  BY DEF Sound, Typed
<1>4. /\ Sound(e, c) /\ Adopts(d, e, c) /\ \A p \in HookPaths : e[p] = d[p]
      /\ \E a : SameButHooks(a, e) /\ Leads(a, t, g, c)
      /\ Operations(t)
  BY <1>1, <1>2, <1>3, AheadStep
<1> HIDE DEF e, t
<1>5. PICK a : SameButHooks(a, e) /\ Leads(a, t, g, c)
  BY <1>4
<1>6. HooksTyped(e)
  BY <1>4, HookPathsDiffer DEF HooksTyped
<1>7. Later(r, s, r.todo, t, r.undo, r.part, r.said, r.result)
  BY <1>4, RunDoes DEF t
<1>8. RunSound(w, s, e, c)
  <2>1. s.ops = t /\ s.undo = r.undo /\ s.todo = r.todo /\ s.part = r.part /\ s.said = r.said /\ s.cfg = r.cfg /\ s.ver = r.ver /\ s.result = r.result
    BY <1>7 DEF Later
  <2>2. Ahead(s, e, c)
    BY <1>2, <1>5, <2>1 DEF Ahead
  <2>3. Busy(r)
    BY DEF Busy
  <2>4. ASSUME ~(s.ops # <<>> /\ s.part[1] = "config") PROVE Reads(s.cfg, e)
    <3>1. CASE s.part[1] = "config"
      <4>1. t = <<>>
        BY <2>1, <2>4, <3>1
      <4>2. g = a
        BY <1>5, <4>1, LeadsNothing
      <4>3. e[Yaml] = a[Yaml]
        BY <1>5, SinglesDiffer DEF SameButHooks
      <4> QED BY <1>2, <2>1, <4>2, <4>3 DEF Reads
    <3>2. CASE s.part[1] # "config"
      <4>1. Ready(r, d)
        BY <1>1, <2>1, <2>3, <3>2 DEF RunSound
      <4>2. Reads(r.cfg, d)
        BY <4>1 DEF Ready
      <4>3. e[Yaml] # None /\ (Chosen(e[Yaml]) = Chosen(d[Yaml]) \/ c.read \subseteq Chosen(e[Yaml]))
        BY <1>4, <4>2 DEF Adopts, Reads
      <4> QED BY <1>1, <2>1, <4>2, <4>3 DEF Reads
    <3> QED BY <3>1, <3>2
  <2>5. /\ Busy(s) => s.cfg \in Configs /\ s.ver \in Versions /\ s.result = "running"
        /\ c.tidy => s.said \cap {"refused", "blocked"} = {}
    BY <2>1, <2>3 DEF RunSound
  <2> QED BY <1>1, <2>1, <2>2, <2>4, <2>5 DEF RunSound, Ready
<1> QED BY <1>1, <1>4, <1>6, <1>7, <1>8 DEF o, t, e

(* A failed operation: what was staged is taken back.                      *)
FailStep(w, d, c, r, s) ==
  LET e == Removed(d, r.undo) IN
  /\ Sound(e, c) /\ HooksTyped(e) /\ Adopts(d, e, c) /\ RunSound(w, s, e, c)
  /\ \A p \in HookPaths : e[p] = d[p]
  /\ \A o \in Worktrees \ {w} : \A q : RunSound(o, q, d, c) => RunSound(o, q, e, c)
  /\ e[Yaml] = d[Yaml]
  /\ \/ Later(r, s, r.todo, <<>>, {}, r.part, r.said \cup {"fault"}, r.result)
     \/ Later(r, s, <<>>, <<>>, {}, <<"", "">>, r.said, "failed")

(* A run that fails has removed its temporary files, and no more.          *)
LEMMA FailSound ==
  ASSUME NEW w \in Worktrees, NEW d, NEW c, Sound(d, c), HooksTyped(d), NEW r, RunTyped(r), RunSound(w, r, d, c),
         r.ops # <<>>,
         NEW s, s = IF r.part[1] = "guidance" THEN [r EXCEPT !.ops = <<>>, !.undo = {}, !.said = @ \cup {"fault"}] ELSE Ends(r, "failed")
  PROVE  FailStep(w, d, c, r, s)
<1> DEFINE e == Removed(d, r.undo)
<1>1. r.undo \subseteq Temps
  BY RunFields
<1>2. e = [p \in Paths |-> e[p]] /\ \A p \in Paths \ Temps : e[p] = d[p]
  BY <1>1 DEF Removed
<1> HIDE DEF e
<1>3. Sound(e, c)
  BY <1>2, SoundTemps
<1>4. HookPaths \subseteq Paths \ Temps /\ Yaml \in Paths \ Temps
  BY OtherPaths, SinglesDiffer
<1>5. (\A p \in HookPaths : e[p] = d[p]) /\ e[Yaml] = d[Yaml]
  BY <1>2, <1>4
<1>6. HooksTyped(e)
  BY <1>5, HookPathsDiffer DEF HooksTyped
<1>7. Adopts(d, e, c)
  BY <1>5, AdoptsAlike
<1>8. ASSUME NEW o \in Worktrees \ {w}, NEW q, RunSound(o, q, d, c) PROVE RunSound(o, q, e, c)
  <2>1. CASE o = "linked"
    BY <1>8, <2>1, LinkedIsSound
  <2>2. CASE o = "main"
    <3>1. w = "linked"
      BY <2>2 DEF Worktrees
    <3>2. r.undo = {}
      BY <3>1 DEF RunSound
    <3>3. \A p \in Paths \ HookPaths : e[p] = d[p]
      BY <3>2 DEF e, Removed
    <3> QED BY <1>8, <2>2, <3>3, OtherIsSound
  <2> QED BY <2>1, <2>2 DEF Worktrees
<1>9. Ends(r, "failed") = s \/ (r.part[1] = "guidance" /\ s = [r EXCEPT !.ops = <<>>, !.undo = {}, !.said = @ \cup {"fault"}])
  OBVIOUS
<1>10. CASE Ends(r, "failed") = s
  <2>1. Later(r, s, <<>>, <<>>, {}, <<"", "">>, r.said, "failed")
    BY <1>10, RunEnds DEF Results
  <2>2. c.tidy => r.said \cap {"refused", "blocked"} = {}
    BY DEF RunSound
  <2>3. RunSound(w, s, e, c)
    BY <2>1, <2>2, OverIsSound DEF Later
  <2> QED BY <1>3, <1>5, <1>6, <1>7, <1>8, <2>1, <2>3 DEF FailStep, e
<1>11. CASE r.part[1] = "guidance" /\ s = [r EXCEPT !.ops = <<>>, !.undo = {}, !.said = @ \cup {"fault"}]
  <2>1. Later(r, s, r.todo, <<>>, {}, r.part, r.said \cup {"fault"}, r.result)
    BY <1>11, RunDrops DEF Sayings
  <2>2. /\ s.todo = r.todo /\ s.ops = <<>> /\ s.undo = {} /\ s.part = r.part /\ s.said = r.said \cup {"fault"}
        /\ s.cfg = r.cfg /\ s.ver = r.ver /\ s.result = r.result
    BY <2>1 DEF Later
  <2>3. Busy(r) /\ r.part[1] # "config"
    BY <1>11 DEF Busy
  <2>4. w = "main" => Ready(r, d)
    BY <2>3 DEF RunSound
  <2>5. w = "main" => Reads(s.cfg, e)
    BY <1>5, <2>2, <2>4 DEF Ready, Reads
  <2>6. c.tidy => s.said \cap {"refused", "blocked"} = {}
    <3>1. c.tidy => r.said \cap {"refused", "blocked"} = {}
      BY DEF RunSound
    <3> QED BY <2>2, <3>1
  <2>7. RunSound(w, s, e, c)
    BY <2>2, <2>3, <2>5, <2>6 DEF RunSound, Ready
  <2> QED BY <1>3, <1>5, <1>6, <1>7, <1>8, <2>1, <2>7 DEF FailStep, e
<1> QED BY <1>9, <1>10, <1>11

-----------------------------------------------------------------------------
(* The run's actions keep the invariant.                                   *)

(* What the user has done, field by field.                                 *)
LEMMA ContextFields ==
  /\ Context.tidy = ~meddled /\ Context.whole = (~meddled /\ "delete" \notin play.edits) /\ Context.kept = kept /\ Context.asked = asked
  /\ Context.whole => Context.tidy
  /\ run["main"].cfg # None => Context.read = Chosen(run["main"].cfg)
BY DEF Context

(* The parts of TypeOK.                                                    *)
LEMMA TypedParts ==
  ASSUME TypeOK
  PROVE  /\ Typed(disk) /\ HooksTyped(disk) /\ run = [w \in Worktrees |-> run[w]] /\ \A w \in Worktrees : RunTyped(run[w])
         /\ upstream \in DOMAIN Catalogue /\ left \in [runs : Nat, faults : Nat, changes : Nat]
         /\ {meddled, raced} \subseteq BOOLEAN /\ asked \subseteq Packs /\ play \in Scenarios
BY DEF TypeOK, HooksTyped, RunTyped, RunIn

(* A run at work has read the selection.                                   *)
LEMMA BusyHasRead ==
  ASSUME NEW w \in Worktrees, NEW d, NEW c, RunSound(w, run[w], d, c), Busy(run[w]), w = "main"
  PROVE  Context.read = Chosen(run[w].cfg)
<1>1. run[w].cfg \in Configs
  BY DEF RunSound
<1>2. run[w].cfg # None
  BY <1>1, ManagedAssumption
<1> QED BY <1>2, ContextFields

(* A step of one worktree that keeps files and runs sound keeps Inv.       *)
LEMMA RunStep ==
  ASSUME TypeOK, NEW w \in Worktrees, NEW s, run' = [run EXCEPT ![w] = s], RunTyped(s), RunSound(w, s, disk', Context'),
         \A o \in Worktrees \ {w} : RunSound(o, run[o], disk', Context'),
         Sound(disk', Context'), HooksTyped(disk'), play' = play, upstream' = upstream, meddled' = meddled, asked' = asked,
         left' \in [runs : Nat, faults : Nat, changes : Nat], raced' \in BOOLEAN
  PROVE  Inv'
<1>1. run' = [o \in Worktrees |-> run'[o]] /\ run'[w] = s /\ \A o \in Worktrees \ {w} : run'[o] = run[o]
  BY TypedParts
<1>2. \A o \in Worktrees : RunTyped(run'[o]) /\ RunSound(o, run'[o], disk', Context')
  BY <1>1, TypedParts
<1>3. TypeOK'
  BY <1>1, <1>2, TypedParts DEF TypeOK, HooksTyped, RunTyped, RunIn, Sound
<1> QED BY <1>2, <1>3 DEF Inv

(* What is left only goes down.                                            *)
LEMMA LeftTyped ==
  ASSUME left \in [runs : Nat, faults : Nat, changes : Nat]
  PROVE  /\ left.faults > 0 => [left EXCEPT !.faults = @ - 1] \in [runs : Nat, faults : Nat, changes : Nat]
         /\ left.runs > 0 => [left EXCEPT !.runs = @ - 1] \in [runs : Nat, faults : Nat, changes : Nat]
         /\ left.changes > 0 => [left EXCEPT !.changes = @ - 1] \in [runs : Nat, faults : Nat, changes : Nat]
OBVIOUS

(* Runs do not change what the user has done.                              *)
LEMMA SameContext ==
  ASSUME UNCHANGED <<play, meddled, kept, asked>>, run'["main"].cfg = run["main"].cfg
  PROVE  Context' = Context
BY DEF Context

(* Nor what they have read, once at work.                                  *)
LEMMA SameCfg ==
  ASSUME TypeOK, NEW w \in Worktrees, NEW s, run' = [run EXCEPT ![w] = s], s.cfg = run[w].cfg
  PROVE  run'["main"].cfg = run["main"].cfg
<1>1. "main" \in Worktrees
  BY DEF Worktrees
<1>2. run = [o \in Worktrees |-> run[o]]
  BY TypedParts
<1>3. run'["main"] = IF w = "main" THEN s ELSE run["main"]
  BY <1>1, <1>2
<1> QED BY <1>3

(* Beginning a stage keeps Inv.                                            *)
LEMMA BeginInv ==
  ASSUME Inv, NEW w \in Worktrees, Begin(w)
  PROVE  /\ Inv' /\ UNCHANGED disk
         /\ PlanFits(w, disk, PlanOf(disk, upstream, run[w], Head(run[w].todo)), Head(run[w].todo), Context, run[w].cfg)
         /\ Begun(run[w], run'[w], PlanOf(disk, upstream, run[w], Head(run[w].todo)), Head(run[w].todo))
<1> DEFINE r == run[w]
           plan == PlanOf(disk, upstream, r, Head(r.todo))
           s == IF plan.err = "abort" THEN Ends([r EXCEPT !.said = @ \cup {"refused"}], "failed")
                ELSE IF Head(r.todo)[1] = "registry" /\ "conflict" \in r.said THEN Ends(r, "findings")
                ELSE [r EXCEPT !.todo = Tail(@), !.ops = plan.ops, !.undo = plan.undo, !.part = Head(r.todo),
                               !.said = IF plan.err = "" THEN @ ELSE @ \cup {plan.err}]
<1>1. /\ RunTyped(r) /\ RunSound(w, r, disk, Context) /\ Sound(disk, Context) /\ TypeOK /\ HooksTyped(disk) /\ upstream \in DOMAIN Catalogue
      /\ left \in [runs : Nat, faults : Nat, changes : Nat] /\ raced \in BOOLEAN /\ run = [o \in Worktrees |-> run[o]]
  BY TypedParts DEF Inv
<1>2. r.ops = <<>> /\ r.todo # <<>> /\ run' = [run EXCEPT ![w] = s]
      /\ UNCHANGED <<play, disk, upstream, left, kept, bodies, ran, meddled, asked, raced>>
  BY DEF Begin
<1>3. w = "main" => Context.read = Chosen(r.cfg)
  BY <1>1, <1>2, BusyHasRead DEF Busy
<1>4. Context.whole => Context.tidy
  BY ContextFields
<1> HIDE DEF r
<1>5. PlanFits(w, disk, PlanOf(disk, upstream, r, Head(r.todo)), Head(r.todo), Context, r.cfg)
  BY <1>1, <1>2, <1>3, <1>4, PlansFit
<1> HIDE DEF plan
<1>6. PlanFits(w, disk, plan, Head(r.todo), Context, r.cfg)
  BY <1>5 DEF plan
<1>7. RunSound(w, s, disk, Context) /\ Begun(r, s, plan, Head(r.todo))
  BY <1>1, <1>2, <1>6, BeginSound
<1> HIDE DEF s
<1>8. RunTyped(s) /\ s.cfg = r.cfg
  BY <1>7 DEF Begun, Later
<1>9. Context' = Context
  BY <1>1, <1>2, <1>8, SameCfg, SameContext DEF r
<1>10. Inv'
  BY <1>1, <1>2, <1>7, <1>8, <1>9, RunStep DEF Inv
<1>11. run'[w] = s
  BY <1>1, <1>2
<1> QED BY <1>2, <1>5, <1>7, <1>10, <1>11 DEF r, plan

(* The parts of Inv.                                                       *)
LEMMA InvParts ==
  ASSUME Inv
  PROVE  /\ TypeOK /\ Sound(disk, Context) /\ HooksTyped(disk) /\ upstream \in DOMAIN Catalogue
         /\ left \in [runs : Nat, faults : Nat, changes : Nat] /\ raced \in BOOLEAN /\ run = [o \in Worktrees |-> run[o]]
         /\ \A w \in Worktrees : RunTyped(run[w]) /\ RunSound(w, run[w], disk, Context)
BY TypedParts DEF Inv

(* An unreachable catalogue keeps Inv.                                     *)
LEMMA UnreachableInv ==
  ASSUME Inv, NEW w \in Worktrees, Unreachable(w)
  PROVE  /\ Inv' /\ UNCHANGED disk
         /\ Later(run[w], run'[w], Tail(run[w].todo), <<>>, run[w].undo, run[w].part, run[w].said \cup {"unreachable"}, run[w].result)
<1> DEFINE r == run[w]
           s == [r EXCEPT !.todo = Tail(@), !.said = @ \cup {"unreachable"}]
<1>1. /\ RunTyped(r) /\ RunSound(w, r, disk, Context) /\ Sound(disk, Context) /\ TypeOK /\ HooksTyped(disk) /\ upstream \in DOMAIN Catalogue
      /\ left \in [runs : Nat, faults : Nat, changes : Nat] /\ raced \in BOOLEAN /\ run = [o \in Worktrees |-> run[o]]
  BY InvParts
<1>2. /\ r.ops = <<>> /\ r.todo # <<>> /\ Head(r.todo)[1] = "guidance" /\ left.faults > 0 /\ left' = [left EXCEPT !.faults = @ - 1]
      /\ UNCHANGED <<play, disk, upstream, kept, bodies, ran, meddled, asked, raced>>
  BY DEF Unreachable
<1>3. run' = [run EXCEPT ![w] = s]
  BY <1>1 DEF Unreachable
<1> HIDE DEF r
<1>4. RunSound(w, s, disk, Context) /\ Later(r, s, Tail(r.todo), <<>>, r.undo, r.part, r.said \cup {"unreachable"}, r.result)
  BY <1>1, <1>2, SkippedSound
<1> HIDE DEF s
<1>5. RunTyped(s) /\ s.cfg = r.cfg
  BY <1>4 DEF Later
<1>6. Context' = Context
  BY <1>1, <1>2, <1>3, <1>5, SameCfg, SameContext DEF r
<1>7. left' \in [runs : Nat, faults : Nat, changes : Nat]
  BY <1>1, <1>2, LeftTyped
<1>8. Inv'
  BY <1>1, <1>2, <1>3, <1>4, <1>5, <1>6, <1>7, RunStep DEF Inv
<1>9. run'[w] = s
  BY <1>1, <1>3
<1> QED BY <1>2, <1>4, <1>8, <1>9 DEF r

(* An operation keeps Inv, and adopts what is installed.                   *)
LEMMA DoInv ==
  ASSUME Inv, NEW w \in Worktrees, Do(w)
  PROVE  /\ Inv' /\ Adopts(disk, disk', Context) /\ Context' = Context
         /\ Later(run[w], run'[w], run[w].todo, Tail(run[w].ops), run[w].undo, run[w].part, run[w].said, run[w].result)
         /\ run[w].part[1] # "hook" => w = "main" /\ \A p \in HookPaths : disk'[p] = disk[p]
<1> DEFINE r == run[w]
           s == [r EXCEPT !.ops = Tail(@)]
           e == Effect(disk, Head(r.ops))
<1>1. /\ RunTyped(r) /\ RunSound(w, r, disk, Context) /\ Sound(disk, Context) /\ TypeOK /\ HooksTyped(disk) /\ upstream \in DOMAIN Catalogue
      /\ left \in [runs : Nat, faults : Nat, changes : Nat] /\ raced \in BOOLEAN /\ run = [o \in Worktrees |-> run[o]]
  BY InvParts
<1>2. /\ r.ops # <<>> /\ Possible(disk, Head(r.ops)) /\ disk' = e
      /\ UNCHANGED <<play, upstream, left, kept, bodies, ran, meddled, asked>> /\ raced' \in BOOLEAN
  BY DEF Do
<1>3. run' = [run EXCEPT ![w] = s]
  BY <1>1 DEF Do
<1>4. w = "main" => Context.read = Chosen(r.cfg)
  BY <1>1, <1>2, BusyHasRead DEF Busy
<1> HIDE DEF r
<1>5. CASE r.part[1] = "hook"
  <2>1. /\ Later(r, s, r.todo, Tail(r.ops), r.undo, r.part, r.said, r.result)
        /\ Sound(e, Context) /\ HooksTyped(e) /\ Adopts(disk, e, Context) /\ RunSound(w, s, e, Context)
        /\ \A p \in Paths \ {Hook(r.part[2]), Local(r.part[2])} : e[p] = disk[p]
    <3>1. HookStep(w, disk, Context, r, s)
      BY <1>1, <1>2, <1>5, DoHook
    <3> QED BY <3>1 DEF HookStep
  <2>2. r.part[2] \in HookNames
    BY <1>1, <1>5, HookOfPart
  <2>3. \A p \in Paths \ HookPaths : e[p] = disk[p]
    BY <2>1, <2>2, HookPathsDiffer
  <2> HIDE DEF s, e
  <2>4. RunTyped(s) /\ s.cfg = r.cfg
    BY <2>1 DEF Later
  <2>5. Context' = Context
    BY <1>1, <1>2, <1>3, <2>4, SameCfg, SameContext DEF r
  <2>6. \A o \in Worktrees \ {w} : RunSound(o, run[o], e, Context)
    BY <2>3, OtherIsSound DEF Inv
  <2>7. Inv'
    BY <1>1, <1>2, <1>3, <2>1, <2>4, <2>5, <2>6, RunStep
  <2>8. run'[w] = s
    BY <1>1, <1>3
  <2> QED BY <1>2, <1>5, <2>1, <2>5, <2>7, <2>8 DEF r
<1>6. CASE r.part[1] # "hook"
  <2>1. /\ Later(r, s, r.todo, Tail(r.ops), r.undo, r.part, r.said, r.result)
        /\ Sound(e, Context) /\ HooksTyped(e) /\ Adopts(disk, e, Context) /\ RunSound(w, s, e, Context) /\ w = "main"
        /\ \A p \in HookPaths : e[p] = disk[p]
    BY <1>1, <1>2, <1>4, <1>6, DoOther
  <2> HIDE DEF s, e
  <2>4. RunTyped(s) /\ s.cfg = r.cfg
    BY <2>1 DEF Later
  <2>5. Context' = Context
    BY <1>1, <1>2, <1>3, <2>4, SameCfg, SameContext DEF r
  <2>6. \A o \in Worktrees \ {w} : RunSound(o, run[o], e, Context)
    BY <2>1, LinkedIsSound DEF Inv, Worktrees
  <2>7. Inv'
    BY <1>1, <1>2, <1>3, <2>1, <2>4, <2>5, <2>6, RunStep
  <2>8. run'[w] = s
    BY <1>1, <1>3
  <2> QED BY <1>2, <1>6, <2>1, <2>5, <2>7, <2>8 DEF r
<1> QED BY <1>5, <1>6

(* A failure keeps Inv.                                                    *)
LEMMA FailInv ==
  ASSUME Inv, NEW w \in Worktrees, Fail(w)
  PROVE  /\ Inv' /\ disk'[Yaml] = disk[Yaml] /\ \A p \in HookPaths : disk'[p] = disk[p]
         /\ \/ Later(run[w], run'[w], run[w].todo, <<>>, {}, run[w].part, run[w].said \cup {"fault"}, run[w].result)
            \/ Later(run[w], run'[w], <<>>, <<>>, {}, <<"", "">>, run[w].said, "failed")
<1> DEFINE r == run[w]
           s == IF r.part[1] = "guidance" THEN [r EXCEPT !.ops = <<>>, !.undo = {}, !.said = @ \cup {"fault"}] ELSE Ends(r, "failed")
           e == Removed(disk, r.undo)
<1>1. /\ RunTyped(r) /\ RunSound(w, r, disk, Context) /\ Sound(disk, Context) /\ TypeOK /\ HooksTyped(disk) /\ upstream \in DOMAIN Catalogue
      /\ left \in [runs : Nat, faults : Nat, changes : Nat] /\ raced \in BOOLEAN /\ run = [o \in Worktrees |-> run[o]]
  BY InvParts
<1>2. /\ r.ops # <<>> /\ disk' = e /\ run' = [run EXCEPT ![w] = s]
      /\ UNCHANGED <<play, upstream, kept, bodies, ran, meddled, asked, raced>>
  <2>1. r.ops # <<>> /\ disk' = e /\ UNCHANGED <<play, upstream, kept, bodies, ran, meddled, asked, raced>>
    BY DEF Fail
  <2>2. run' = [run EXCEPT ![w] = s]
    BY DEF Fail
  <2> QED BY <2>1, <2>2
<1>3. left' \in [runs : Nat, faults : Nat, changes : Nat]
  BY <1>1, LeftTyped DEF Fail
<1> HIDE DEF r
<1>4. /\ Sound(e, Context) /\ HooksTyped(e) /\ Adopts(disk, e, Context) /\ RunSound(w, s, e, Context)
      /\ \A p \in HookPaths : e[p] = disk[p]
      /\ \A o \in Worktrees \ {w} : \A q : RunSound(o, q, disk, Context) => RunSound(o, q, e, Context)
      /\ e[Yaml] = disk[Yaml]
      /\ \/ Later(r, s, r.todo, <<>>, {}, r.part, r.said \cup {"fault"}, r.result)
         \/ Later(r, s, <<>>, <<>>, {}, <<"", "">>, r.said, "failed")
  <2>1. FailStep(w, disk, Context, r, s)
    BY <1>1, <1>2, FailSound
  <2> QED BY <2>1 DEF FailStep
<1> HIDE DEF s, e
<1>5. RunTyped(s) /\ s.cfg = r.cfg
  BY <1>4 DEF Later
<1>6. Context' = Context
  BY <1>1, <1>2, <1>5, SameCfg, SameContext DEF r
<1>7. \A o \in Worktrees \ {w} : RunSound(o, run[o], e, Context)
  BY <1>4 DEF Inv
<1>8. Inv'
  BY <1>1, <1>2, <1>3, <1>4, <1>5, <1>6, <1>7, RunStep
<1>9. run'[w] = s
  BY <1>1, <1>2
<1> QED BY <1>2, <1>4, <1>8, <1>9 DEF r

(* A death keeps Inv.                                                      *)
LEMMA CrashInv ==
  ASSUME Inv, NEW w \in Worktrees, Crash(w)
  PROVE  Inv' /\ UNCHANGED disk /\ Later(run[w], run'[w], <<>>, <<>>, {}, <<"", "">>, run[w].said, "crashed")
<1> DEFINE r == run[w]
           s == Ends(r, "crashed")
<1>1. /\ RunTyped(r) /\ RunSound(w, r, disk, Context) /\ Sound(disk, Context) /\ TypeOK /\ HooksTyped(disk) /\ upstream \in DOMAIN Catalogue
      /\ left \in [runs : Nat, faults : Nat, changes : Nat] /\ raced \in BOOLEAN /\ run = [o \in Worktrees |-> run[o]]
  BY InvParts
<1>2. /\ left.faults > 0 /\ left' = [left EXCEPT !.faults = @ - 1] /\ run' = [run EXCEPT ![w] = s]
      /\ UNCHANGED <<play, disk, upstream, kept, bodies, ran, meddled, asked, raced>>
  BY DEF Crash
<1>3. left' \in [runs : Nat, faults : Nat, changes : Nat]
  BY <1>1, <1>2, LeftTyped
<1> HIDE DEF r
<1>4. Later(r, s, <<>>, <<>>, {}, <<"", "">>, r.said, "crashed")
  BY <1>1, RunEnds DEF Results
<1> HIDE DEF s
<1>5. Context.tidy => r.said \cap {"refused", "blocked"} = {}
  BY <1>1 DEF RunSound
<1>6. RunTyped(s) /\ s.cfg = r.cfg /\ RunSound(w, s, disk, Context)
  BY <1>4, <1>5, OverIsSound DEF Later
<1>7. Context' = Context
  BY <1>1, <1>2, <1>6, SameCfg, SameContext DEF r
<1>8. Inv'
  BY <1>1, <1>2, <1>3, <1>6, <1>7, RunStep DEF Inv
<1>9. run'[w] = s
  BY <1>1, <1>2
<1> QED BY <1>2, <1>4, <1>8, <1>9 DEF r

(* Finishing keeps Inv.                                                    *)
LEMMA FinishInv ==
  ASSUME Inv, NEW w \in Worktrees, Finish(w)
  PROVE  /\ Inv' /\ UNCHANGED disk
         /\ \E z \in {"done", "findings"} :
              Later(run[w], run'[w], run[w].todo, run[w].ops, run[w].undo, run[w].part, run[w].said, z)
<1> DEFINE r == run[w]
           z == IF "conflict" \in r.said THEN "findings" ELSE "done"
           s == [r EXCEPT !.result = z]
<1>1. /\ RunTyped(r) /\ RunSound(w, r, disk, Context) /\ Sound(disk, Context) /\ TypeOK /\ HooksTyped(disk) /\ upstream \in DOMAIN Catalogue
      /\ left \in [runs : Nat, faults : Nat, changes : Nat] /\ raced \in BOOLEAN /\ run = [o \in Worktrees |-> run[o]]
  BY InvParts
<1>2. /\ r.todo = <<>> /\ r.ops = <<>> /\ UNCHANGED <<play, disk, upstream, left, kept, bodies, ran, meddled, asked, raced>>
  BY DEF Finish, Idle
<1>3. run' = [run EXCEPT ![w] = s]
  BY <1>1 DEF Finish
<1>4. z \in {"done", "findings"}
  OBVIOUS
<1> HIDE DEF r, z
<1>5. Later(r, s, r.todo, r.ops, r.undo, r.part, r.said, z)
  BY <1>1, <1>4, RunFinishes DEF Results
<1> HIDE DEF s
<1>6. RunTyped(s) /\ s.cfg = r.cfg /\ RunSound(w, s, disk, Context)
  <2>1. s.todo = r.todo /\ s.ops = r.ops /\ s.undo = r.undo /\ s.said = r.said /\ s.cfg = r.cfg /\ RunTyped(s)
    BY <1>5 DEF Later
  <2> QED BY <1>1, <1>2, <2>1 DEF RunSound, Busy
<1>7. Context' = Context
  BY <1>1, <1>2, <1>3, <1>6, SameCfg, SameContext DEF r
<1>8. Inv'
  BY <1>1, <1>2, <1>3, <1>6, <1>7, RunStep DEF Inv
<1>9. run'[w] = s
  BY <1>1, <1>3
<1> QED BY <1>2, <1>4, <1>5, <1>8, <1>9 DEF r

(* Starting keeps Inv.                                                     *)
LEMMA StartInv ==
  ASSUME Inv, NEW w \in Worktrees, NEW kind \in {"init", "update"}, NEW v \in play.versions, NEW answer \in play.answers,
         Start(w, kind, v, answer)
  PROVE  /\ Inv' /\ UNCHANGED disk
         /\ LET s == run'[w] IN
            /\ s.ops = <<>> /\ s.said = {} /\ s.result = "running" /\ s.part = <<"", "">>
            /\ RegistryLast(s.todo) /\ \A h \in HookNames : Contains(s.todo, <<"hook", h>>)
            /\ s.cfg \in Configs /\ s.cfg = IF disk[Yaml] = None THEN DefaultConfig ELSE disk[Yaml]
<1> DEFINE s == [NoRun EXCEPT !.kind = kind, !.ver = v, !.answer = answer, !.cfg = IF disk[Yaml] = None THEN DefaultConfig ELSE disk[Yaml],
               !.hosts = ResolveHosts(disk), !.todo = IF w = "main" THEN StagesOf(kind, ResolveHosts(disk)) ELSE HookStages, !.result = "running"]
<1>1. /\ Sound(disk, Context) /\ TypeOK /\ HooksTyped(disk) /\ upstream \in DOMAIN Catalogue
      /\ left \in [runs : Nat, faults : Nat, changes : Nat] /\ raced \in BOOLEAN /\ run = [o \in Worktrees |-> run[o]]
  BY InvParts
<1>2. v \in Versions /\ answer \in {None, "on", "off"}
  BY TypedParts, RefreshAssumption DEF Inv
<1>3. /\ left.runs > 0 /\ left' = [left EXCEPT !.runs = @ - 1] /\ run' = [run EXCEPT ![w] = s]
      /\ UNCHANGED <<play, disk, upstream, kept, bodies, ran, meddled, asked, raced>>
      /\ kind = "init" \/ disk[Yaml] # None
      /\ w = "linked" => kind = "update"
  BY DEF Start
<1>4. left' \in [runs : Nat, faults : Nat, changes : Nat]
  BY <1>1, <1>3, LeftTyped
<1>5. Sound(disk, Context')
  BY <1>1, <1>3 DEF Sound, Context, GuidanceSound
<1>6. /\ RunTyped(s) /\ RunSound(w, s, disk, Context') /\ s.ops = <<>> /\ s.said = {} /\ s.result = "running" /\ s.part = <<"", "">>
      /\ RegistryLast(s.todo) /\ \A h \in HookNames : Contains(s.todo, <<"hook", h>>)
      /\ s.cfg \in Configs /\ s.cfg = IF disk[Yaml] = None THEN DefaultConfig ELSE disk[Yaml]
  <2>1. StartStep(w, disk, Context', s)
    BY <1>2, <1>3, <1>5, StartedRun
  <2> HIDE DEF s
  <2> QED BY <2>1 DEF StartStep
<1> HIDE DEF s
<1>7. \A o \in Worktrees \ {w} : RunSound(o, run[o], disk, Context')
  <2>1. CASE w = "main"
    <3>1. Context'.tidy => Context.tidy
      BY <1>3 DEF Context
    <3> QED BY <2>1, <3>1, LinkedIsSound DEF Inv, Worktrees
  <2>2. CASE w = "linked"
    <3>1. run'["main"] = run["main"]
      BY <1>1, <1>3, <2>2 DEF Worktrees
    <3>2. Context' = Context
      BY <1>3, <3>1, SameContext
    <3> QED BY <3>2 DEF Inv
  <2> QED BY <2>1, <2>2 DEF Worktrees
<1>8. Inv'
  BY <1>1, <1>3, <1>4, <1>5, <1>6, <1>7, RunStep
<1>9. run'[w] = s
  BY <1>1, <1>3
<1> QED BY <1>3, <1>6, <1>8, <1>9

-----------------------------------------------------------------------------
(* What the user changes between runs.                                     *)

(* What is sound for a careful user is sound for a careless one.           *)
LEMMA SoundWeaker ==
  ASSUME NEW d, NEW c, Sound(d, c), NEW k, k.tidy => c.tidy, k.whole => c.whole, k.kept \subseteq c.kept
  PROVE  Sound(d, k)
<1>1. \A f \in Families : \A n \in Names(f) : ArtifactSound(d, f, n, c.tidy) => ArtifactSound(d, f, n, k.tidy)
  BY DEF ArtifactSound
<1>2. ArtifactsSound(d, k.tidy)
  BY <1>1 DEF Sound, ArtifactsSound
<1>3. GuidanceSound(d, k)
  BY DEF Sound, GuidanceSound
<1>4. KeptSound(d, k.kept)
  BY DEF Sound, KeptSound
<1> QED BY <1>2, <1>3, <1>4 DEF Sound

(* One path is written: what the user has elsewhere is kept.               *)
LEMMA KeptElsewhere ==
  ASSUME NEW d, NEW e, NEW p \in Paths, \A q \in Paths \ {p} : e[q] = d[q], \A f \in Families : p # Owned(f) /\ p # Pending(f),
         NEW k, KeptAt(d, k), k[1] # p
  PROVE  KeptAt(e, k)
<1>1. ASSUME NEW f \in Families, NEW n \in Names(f), k = <<<<f, n>>, Mine>>, d[<<f, n>>] = Mine, n \notin Claimed(d, f)
      PROVE  KeptAt(e, k)
  <2>1. Owned(f) \in Paths /\ Pending(f) \in Paths /\ <<f, n>> \in Paths
    BY FamilyPathsArePaths DEF FamilyPaths, Paths
  <2>2. e[Owned(f)] = d[Owned(f)] /\ e[Pending(f)] = d[Pending(f)]
    BY <2>1
  <2>3. Claimed(e, f) = Claimed(d, f)
    BY <2>2 DEF Claimed, parseOwnedNames, parseArtifactReceipts
  <2>4. <<f, n>> # p
    BY <1>1
  <2>5. e[<<f, n>>] = Mine
    BY <1>1, <2>1, <2>4
  <2> QED BY <1>1, <2>3, <2>5 DEF KeptAt
<1>2. ASSUME NEW q \in GuidancePaths \ RootFiles, k = <<q, Mine>>, d[q] = Mine PROVE KeptAt(e, k)
  <2>1. q # p /\ q \in Paths
    BY <1>2, OtherPaths
  <2>2. e[q] = Mine
    BY <1>2, <2>1
  <2> QED BY <1>2, <2>2 DEF KeptAt
<1>3. ASSUME NEW q \in RootFiles, NEW r \in {Mine, Damaged}, k = <<q, r>>, At(d, q).route = r PROVE KeptAt(e, k)
  <2>1. q # p /\ q \in Paths
    BY <1>3, OtherPaths
  <2>2. At(e, q) = At(d, q)
    BY <2>1 DEF At
  <2> QED BY <1>3, <2>2 DEF KeptAt
<1>4. CASE k = <<Settings, "user">> /\ d[Settings] # None /\ "user" \in d[Settings].entries
  <2>1. Settings # p /\ Settings \in Paths
    BY <1>4, SinglesDiffer
  <2>2. e[Settings] = d[Settings]
    BY <2>1
  <2> QED BY <1>4, <2>2 DEF KeptAt
<1> QED BY <1>1, <1>2, <1>3, <1>4 DEF KeptAt

(* What a change of the user's adds to what the user has done.             *)
LEMMA ChangeContext ==
  ASSUME NEW name, NEW files, NEW now, NEW meddles, NEW wants, Change(name, files, now, meddles, wants)
  PROVE  /\ Context'.tidy = ~(meddled \/ meddles) /\ Context'.whole = (~(meddled \/ meddles) /\ "delete" \notin play.edits) /\ Context'.kept = now
         /\ Context'.tidy => Context.tidy /\ ~meddles
         /\ Context'.whole => Context.whole
         /\ disk' = [p \in Paths |-> IF p \in DOMAIN files THEN files[p] ELSE disk[p]] /\ disk' # disk
         /\ name \in play.edits
BY DEF Change, Context

ChangeFrame ==
  /\ run' = [w \in Worktrees |-> NoRun] /\ left.changes > 0 /\ left' = [left EXCEPT !.changes = @ - 1]
  /\ meddled' \in BOOLEAN /\ asked' \subseteq Packs /\ UNCHANGED <<play, upstream, raced>>
(* A change that leaves sound files keeps Inv: no run is at work.          *)
LEMMA ChangeInv ==
  ASSUME Inv, ChangeFrame, Sound(disk', Context'), HooksTyped(disk')
  PROVE  Inv'
<1>1. /\ run' = [w \in Worktrees |-> NoRun] /\ left.changes > 0 /\ left' = [left EXCEPT !.changes = @ - 1]
      /\ meddled' \in BOOLEAN /\ asked' \subseteq Packs /\ UNCHANGED <<play, upstream, raced>>
  BY DEF ChangeFrame
<1>2. left' \in [runs : Nat, faults : Nat, changes : Nat]
  BY <1>1, TypedParts, LeftTyped DEF Inv
<1>3. run' = [w \in Worktrees |-> run'[w]] /\ \A w \in Worktrees : run'[w] = NoRun
  BY <1>1
<1>4. NoRun.todo = <<>> /\ NoRun.ops = <<>> /\ NoRun.undo = {} /\ NoRun.said = {}
  BY DEF NoRun
<1>5. \A w \in Worktrees : RunTyped(run'[w]) /\ RunSound(w, run'[w], disk', Context')
  BY <1>3, <1>4, NoRunTyped, OverIsSound
<1>6. TypeOK'
  BY <1>1, <1>2, <1>3, <1>5, TypedParts DEF TypeOK, HooksTyped, RunTyped, RunIn, Sound, Inv
<1> QED BY <1>5, <1>6 DEF Inv

Wrote(p, x) ==
  /\ disk' = [disk EXCEPT ![p] = x] /\ disk' = [q \in Paths |-> disk'[q]] /\ disk'[p] = x
  /\ \A q \in Paths \ {p} : disk'[q] = disk[q]
(* A change of one path, path by path.                                     *)
LEMMA OneChanged ==
  ASSUME NEW p \in Paths, NEW x, disk' = [q \in Paths |-> IF q \in DOMAIN Only(p, x) THEN Only(p, x)[q] ELSE disk[q]], TypeOK
  PROVE  Wrote(p, x)
<1>1. disk = [q \in Paths |-> disk[q]]
  BY TypedParts DEF Typed
<1>2. DOMAIN Only(p, x) = {p} /\ Only(p, x)[p] = x
  BY DEF Only
<1>3. disk' = [q \in Paths |-> IF q = p THEN x ELSE disk[q]]
  BY <1>2
<1> QED BY <1>1, <1>3 DEF Wrote

(* The types of hooks depend on their own paths.                           *)
LEMMA HooksTypedElsewhere ==
  ASSUME NEW d, NEW e, HooksTyped(d), \A p \in HookPaths : e[p] = d[p]
  PROVE  HooksTyped(e)
BY HookPathsDiffer DEF HooksTyped

(* The configuration, and the project's files.                             *)
LEMMA ConfigInv ==
  ASSUME Inv, NEW name, NEW x, NEW wants \in SUBSET Packs, NEW p \in {Yaml, Project},
         p = Yaml => x \in Configs, p = Project => x \in SUBSET Packs,
         Change(name, Only(p, x), kept, FALSE, wants)
  PROVE  Inv' /\ \A q \in Paths \ {p} : disk'[q] = disk[q]
<1>1. TypeOK /\ Sound(disk, Context) /\ HooksTyped(disk)
  BY InvParts
<1>2. p \in Singles /\ p \in Paths \ HookPaths /\ p # Settings /\ p # Cli /\ Project \in Paths /\ Cli \in Paths /\ Settings \in Paths
  <2>1. Project # Cli /\ Project # Settings
    BY DEF Project, Cli, Settings
  <2>2. Yaml # Cli /\ Yaml # Settings
    BY DEF Yaml, Cli, Settings
  <2>3. {Yaml, Project, Cli, Settings} \subseteq Singles
    BY SinglesDiffer
  <2>4. Singles \subseteq Paths \ HookPaths
    BY SinglesDiffer
  <2> QED BY <2>1, <2>2, <2>3, <2>4
<1>3. disk' = [q \in Paths |-> disk'[q]] /\ disk'[p] = x /\ \A q \in Paths \ {p} : disk'[q] = disk[q]
  <2>1. disk' = [q \in Paths |-> IF q \in DOMAIN Only(p, x) THEN Only(p, x)[q] ELSE disk[q]]
    BY DEF Change
  <2>2. Wrote(p, x)
    BY <1>1, <1>2, <2>1, OneChanged
  <2> QED BY <2>2 DEF Wrote
<1>4. Fits(p, x)
  BY FitsSingle
<1>5. \A q \in Paths : disk'[q] # disk[q] => q \in HookPaths \cup Temps \cup Singles /\ Fits(q, disk'[q])
  BY <1>2, <1>3, <1>4
<1>6. disk'[Project] \in SUBSET Packs /\ disk'[Cli] \in SUBSET Hosts
  <2>1. disk[Project] \in SUBSET Packs /\ disk[Cli] \in SUBSET Hosts
    BY <1>1 DEF Sound, Typed
  <2> QED BY <1>2, <1>3, <2>1
<1>7. <<Settings, "user">> \in Context.kept => disk'[Settings] # None /\ "user" \in disk'[Settings].entries
  BY <1>1, <1>2, <1>3, SettingsKept
<1>8. Sound(disk', Context)
  BY <1>1, <1>3, <1>5, <1>6, <1>7, SoundElsewhere
<1>9. Sound(disk', Context')
  <2>1. (Context'.tidy => Context.tidy) /\ (Context'.whole => Context.whole) /\ Context'.kept \subseteq Context.kept
    BY DEF Change, Context
  <2> QED BY <1>8, <2>1, SoundWeaker
<1>10. HooksTyped(disk')
  BY <1>1, <1>2, <1>3, HooksTypedElsewhere, OtherPaths
<1>11. ChangeFrame
  BY TypedParts DEF Change, ChangeFrame, Inv
<1> QED BY <1>3, <1>9, <1>10, <1>11, ChangeInv

(* A change of one path writes that path.                                  *)
LEMMA WroteOne ==
  ASSUME TypeOK, NEW name, NEW p \in Paths, NEW x, NEW now, NEW meddles, NEW wants, Change(name, Only(p, x), now, meddles, wants)
  PROVE  Wrote(p, x)
<1>1. disk' = [q \in Paths |-> IF q \in DOMAIN Only(p, x) THEN Only(p, x)[q] ELSE disk[q]]
  BY DEF Change
<1> QED BY <1>1, OneChanged

(* Sound files, one path of which is written.                              *)
LEMMA SoundAt ==
  ASSUME NEW d, NEW e, NEW c, NEW k, Sound(d, c), NEW p \in Paths \ {Project, Cli}, e = [q \in Paths |-> e[q]],
         \A q \in Paths \ {p} : e[q] = d[q], Fits(p, e[p]), \A f \in Families : p # Owned(f) /\ p # Pending(f),
         ArtifactsSound(e, k.tidy), GuidanceSound(e, k),
         \A i \in k.kept : (i \in c.kept /\ i[1] # p) \/ KeptAt(e, i)
  PROVE  Sound(e, k)
<1>1. Typed(e)
  <2>1. Project \in Paths /\ Cli \in Paths
    BY SinglesDiffer
  <2>2. e[Project] = d[Project] /\ e[Cli] = d[Cli]
    BY <2>1
  <2> QED BY <2>2 DEF Sound, Typed
<1>2. ASSUME NEW i \in k.kept PROVE KeptAt(e, i)
  <2>1. CASE i \in c.kept /\ i[1] # p
    <3>1. KeptAt(d, i)
      BY <2>1 DEF Sound, KeptSound
    <3> QED BY <2>1, <3>1, KeptElsewhere
  <2> QED BY <1>2, <2>1
<1> QED BY <1>1, <1>2 DEF Sound, KeptSound

(* An artifact is a file of one family, and not one of its records.        *)
LEMMA ArtifactPath ==
  ASSUME NEW p \in Artifacts
  PROVE  /\ p \in Paths \ (HookPaths \cup GuidancePaths \cup {ownedFile, pendingFile, Project, Cli, Yaml, Settings})
         /\ \E f \in Families : \E n \in Names(f) : p = <<f, n>> /\ p[1] = f /\ p[2] = n /\ p \in FamilyPaths(f)
         /\ \A f \in Families : p # Owned(f) /\ p # Pending(f)
<1>1. PICK f \in Families : \E n \in Names(f) : p = <<f, n>>
  BY DEF Artifacts
<1>2. PICK n \in Names(f) : p = <<f, n>>
  BY <1>1
<1>3. p \in FamilyPaths(f) /\ p # Owned(f) /\ p # Pending(f)
  BY <1>2, FamilyPathsArePaths DEF FamilyPaths
<1>4. p \in Paths \ (HookPaths \cup GuidancePaths \cup {ownedFile, pendingFile, Project, Cli, Yaml, Settings})
  BY <1>3, FamilyPathsArePaths
<1>5. \A g \in Families \ {f} : p # Owned(g) /\ p # Pending(g)
  <2>1. \A g \in Families \ {f} : FamilyPaths(g) \cap FamilyPaths(f) = {}
    BY FamilyPathsArePaths
  <2>2. \A g \in Families : Owned(g) \in FamilyPaths(g) /\ Pending(g) \in FamilyPaths(g)
    BY DEF FamilyPaths
  <2> QED BY <1>3, <2>1, <2>2
<1> QED BY <1>2, <1>3, <1>4, <1>5

MinesDiffer == Mine \notin Mades /\ Damaged \notin Mades /\ Mine # Damaged
(* What the user writes is told apart from what aiwf does.                 *)
LEMMA UsersMarks == MinesDiffer
<1>1. \A v : <<"aiwf", v>>[1] = "aiwf" /\ Mine[1] = "user" /\ Damaged[1] = "user"
  BY DEF Mine, Damaged
<1>2. Mine # Damaged
  BY DEF Mine, Damaged
<1> QED BY <1>1, <1>2 DEF MinesDiffer, Mades, Made

(* An artifact the user adds keeps Inv.                                    *)
LEMMA AuthorInv ==
  ASSUME Inv, AuthorArtifact
  PROVE  Inv' /\ disk'[Yaml] = disk[Yaml] /\ \A q \in HookPaths : disk'[q] = disk[q]
<1>1. TypeOK /\ Sound(disk, Context) /\ HooksTyped(disk)
  BY InvParts
<1>2. PICK p \in Artifacts : ~Owns(p) /\ Change("author", Only(p, Mine), Keep(p, Mine), TRUE, {})
  BY DEF AuthorArtifact
<1>3. p \in Paths \ (HookPaths \cup GuidancePaths \cup {ownedFile, pendingFile, Project, Cli, Yaml, Settings})
      /\ \A f \in Families : p # Owned(f) /\ p # Pending(f)
  BY ArtifactPath
<1>4. PICK f \in Families : \E n \in Names(f) : p = <<f, n>> /\ p[1] = f /\ p[2] = n /\ p \in FamilyPaths(f)
  BY ArtifactPath
<1>5. PICK n \in Names(f) : p = <<f, n>> /\ p[1] = f /\ p[2] = n /\ p \in FamilyPaths(f)
  BY <1>4
<1>6. Wrote(p, Mine)
  BY <1>1, <1>2, <1>3, WroteOne
<1>7. disk' = [q \in Paths |-> disk'[q]] /\ disk'[p] = Mine /\ \A q \in Paths \ {p} : disk'[q] = disk[q]
  BY <1>6 DEF Wrote
<1>8. ~Context'.tidy /\ ~Context'.whole /\ Context'.kept = Keep(p, Mine)
  BY <1>2 DEF Change, Context
<1>9. n \notin Claimed(disk, f)
  BY <1>2, <1>5 DEF Owns, Claimed
<1>10. \A g \in Families : disk'[Owned(g)] = disk[Owned(g)] /\ disk'[Pending(g)] = disk[Pending(g)]
  <2>1. \A g \in Families : Owned(g) \in Paths /\ Pending(g) \in Paths
    BY DEF Paths
  <2> QED BY <1>3, <1>7, <2>1
<1>11. \A g \in Families : Claimed(disk', g) = Claimed(disk, g)
  BY <1>10 DEF Claimed, parseOwnedNames, parseArtifactReceipts
<1>12. ArtifactsSound(disk', FALSE)
  <2> SUFFICES ASSUME NEW g \in Families, NEW m \in Names(g), disk'[<<g, m>>] \in Mades PROVE m \in Claimed(disk', g)
    BY DEF ArtifactsSound, ArtifactSound
  <2>1. <<g, m>> # p
    BY <1>7, UsersMarks DEF MinesDiffer
  <2>2. <<g, m>> \in Paths
    BY DEF Paths, Artifacts
  <2>3. disk[<<g, m>>] \in Mades
    BY <1>7, <2>1, <2>2
  <2> QED BY <1>1, <1>11, <2>3 DEF Sound, ArtifactsSound, ArtifactSound
<1>13. GuidanceSound(disk', Context')
  <2>1. \A q \in GuidancePaths \cup {ownedFile, pendingFile} : disk'[q] = disk[q]
    BY <1>3, <1>7, OtherPaths
  <2>2. GuidanceSound(disk', Context)
    BY <1>1, <2>1, GuidanceFrame DEF Sound
  <2> QED BY <1>8, <2>2 DEF GuidanceSound
<1>14. Fits(p, Mine)
  BY <1>5, FitsFamily
<1>15. ASSUME NEW i \in Context'.kept PROVE (i \in Context.kept /\ i[1] # p) \/ KeptAt(disk', i)
  <2>1. CASE i \in kept /\ i[1] # p
    BY <2>1, ContextFields
  <2>2. CASE i = <<p, Mine>>
    <3>1. disk'[<<f, n>>] = Mine /\ n \notin Claimed(disk', f) /\ i = <<<<f, n>>, Mine>>
      BY <1>5, <1>7, <1>9, <1>11, <2>2
    <3> QED BY <3>1 DEF KeptAt
  <2> QED BY <1>8, <1>15, <2>1, <2>2 DEF Keep
<1>16. ArtifactsSound(disk', Context'.tidy)
  BY <1>8, <1>12 DEF ArtifactsSound, ArtifactSound
<1>17. Sound(disk', Context')
  BY <1>1, <1>3, <1>7, <1>13, <1>14, <1>15, <1>16, SoundAt
<1>18. \A q \in HookPaths : disk'[q] = disk[q]
  BY <1>3, <1>7, OtherPaths
<1>19. HooksTyped(disk')
  BY <1>1, <1>18, HooksTypedElsewhere
<1>22. ChangeFrame
  BY <1>2, TypedParts DEF Change, ChangeFrame, Inv
<1>20. Inv'
  BY <1>17, <1>19, <1>22, ChangeInv
<1>21. disk'[Yaml] = disk[Yaml]
  BY <1>3, <1>7, SinglesDiffer
<1> QED BY <1>18, <1>20, <1>21

(* An artifact the user edits keeps Inv.                                   *)
LEMMA EditInv ==
  ASSUME Inv, EditArtifact
  PROVE  Inv' /\ disk'[Yaml] = disk[Yaml] /\ \A q \in HookPaths : disk'[q] = disk[q]
<1>1. TypeOK /\ Sound(disk, Context) /\ HooksTyped(disk)
  BY InvParts
<1>2. PICK p \in Artifacts : Owns(p) /\ disk[p] # None /\ Change("edit", Only(p, Damaged), kept, p[2] \notin parseOwnedNames(disk, p[1]), {})
  BY DEF EditArtifact
<1>3. p \in Paths \ (HookPaths \cup GuidancePaths \cup {ownedFile, pendingFile, Project, Cli, Yaml, Settings})
      /\ \A f \in Families : p # Owned(f) /\ p # Pending(f)
  BY ArtifactPath
<1>4. PICK f \in Families : \E n \in Names(f) : p = <<f, n>> /\ p[1] = f /\ p[2] = n /\ p \in FamilyPaths(f)
  BY ArtifactPath
<1>5. PICK n \in Names(f) : p = <<f, n>> /\ p[1] = f /\ p[2] = n /\ p \in FamilyPaths(f)
  BY <1>4
<1>6. Wrote(p, Damaged)
  BY <1>1, <1>2, <1>3, WroteOne
<1>7. disk' = [q \in Paths |-> disk'[q]] /\ disk'[p] = Damaged /\ \A q \in Paths \ {p} : disk'[q] = disk[q]
  BY <1>6 DEF Wrote
<1>8. /\ Context'.tidy => Context.tidy /\ n \in parseOwnedNames(disk, f)
      /\ Context'.whole => Context.whole
      /\ Context'.kept = Context.kept
  BY <1>2, <1>5 DEF Change, Context
<1>9. n \in Claimed(disk, f)
  BY <1>2, <1>5 DEF Owns, Claimed
<1>10. disk'[Owned(f)] = disk[Owned(f)] /\ disk'[Pending(f)] = disk[Pending(f)]
  <2>1. Owned(f) \in Paths /\ Pending(f) \in Paths
    BY DEF Paths
  <2> QED BY <1>3, <1>7, <2>1
<1>11. Claimed(disk', f) = Claimed(disk, f) /\ parseOwnedNames(disk', f) = parseOwnedNames(disk, f)
       /\ parseArtifactReceipts(disk', f) = parseArtifactReceipts(disk, f)
  BY <1>10 DEF Claimed, parseOwnedNames, parseArtifactReceipts
<1>12. Sound(disk, Context')
  BY <1>1, <1>8, SoundWeaker
<1>13. \A m \in Names(f) : m # n => disk'[<<f, m>>] = disk[<<f, m>>]
  <2>1. \A m \in Names(f) : <<f, m>> \in Paths
    BY DEF Paths, Artifacts
  <2> QED BY <1>5, <1>7, <2>1
<1>14. ASSUME NEW m \in Names(f) PROVE ArtifactSound(disk', f, m, Context'.tidy)
  <2>1. CASE m = n
    BY <1>5, <1>7, <1>8, <1>9, <1>11, <2>1, UsersMarks DEF ArtifactSound, MinesDiffer
  <2>2. CASE m # n
    <3>1. ArtifactSound(disk, f, m, Context'.tidy)
      BY <1>12 DEF Sound, ArtifactsSound
    <3> QED BY <1>11, <1>13, <2>2, <3>1 DEF ArtifactSound
  <2> QED BY <2>1, <2>2
<1>15. ASSUME NEW m \in Names(f), disk[<<f, m>>] = Mine, m \notin Claimed(disk, f) PROVE disk'[<<f, m>>] = Mine /\ m \notin Claimed(disk', f)
  BY <1>9, <1>11, <1>13, <1>15
<1>16. \A q \in Paths : disk'[q] # disk[q] => q \in FamilyPaths(f) /\ Fits(q, disk'[q])
  <2>1. Fits(p, Damaged)
    BY <1>5, FitsFamily
  <2> QED BY <1>5, <1>7, <2>1
<1>17. Sound(disk', Context')
  BY <1>7, <1>12, <1>14, <1>15, <1>16, SoundFamily
<1>18. \A q \in HookPaths : disk'[q] = disk[q]
  BY <1>3, <1>7, OtherPaths
<1>19. HooksTyped(disk')
  BY <1>1, <1>18, HooksTypedElsewhere
<1>20. ChangeFrame
  BY <1>2, TypedParts DEF Change, ChangeFrame, Inv
<1>21. Inv'
  BY <1>17, <1>19, <1>20, ChangeInv
<1>22. disk'[Yaml] = disk[Yaml]
  BY <1>3, <1>7, SinglesDiffer
<1> QED BY <1>18, <1>21, <1>22

(* Removing what git ignores keeps Inv: records go with their files.       *)
LEMMA CleanInv ==
  ASSUME Inv, CleanArtifacts
  PROVE  Inv' /\ disk'[Yaml] = disk[Yaml] /\ \A q \in HookPaths : disk'[q] = disk[q]
<1> DEFINE S == {p \in Paths : p[1] \in Families \cup {"claude"}} \ {Settings, Script}
<1>1. TypeOK /\ Sound(disk, Context) /\ HooksTyped(disk)
  BY InvParts
<1>2. Change("clean", [p \in S |-> None], Forget(S), FALSE, {})
  BY DEF CleanArtifacts
<1>3. disk' = [p \in Paths |-> IF p \in S THEN None ELSE disk[p]]
  BY <1>2 DEF Change
<1>4. S \cap (GuidancePaths \cup {ownedFile, pendingFile} \cup HookPaths \cup {Yaml, Project, Cli, Settings}) = {}
  <2>1. \A q \in GuidancePaths \cup {ownedFile, pendingFile} : q[1] \in {"root", "packs", "guidance"}
    BY DEF GuidancePaths, Pack, indexFile, RootFiles, FileOf, ownedFile, pendingFile
  <2>2. \A q \in HookPaths : q[1] \in {"hooks", "local"}
    BY DEF HookPaths, Hook, Local
  <2>3. Yaml[1] = "root" /\ Project[1] = "root" /\ Cli[1] = "root"
    BY DEF Yaml, Project, Cli
  <2>4. {"root", "packs", "guidance", "hooks", "local"} \cap (Families \cup {"claude"}) = {}
    BY ManagedAssumption
  <2> QED BY <2>1, <2>2, <2>3, <2>4
<1>5. ASSUME NEW f \in Families PROVE FamilyPaths(f) \subseteq S
  <2>1. \A q \in FamilyPaths(f) : q[1] = f
    BY DEF FamilyPaths, Owned, Pending
  <2>2. FamilyPaths(f) \subseteq Paths \ {Settings, Script}
    BY FamilyPathsArePaths
  <2> QED BY <2>1, <2>2
<1>6. S \subseteq Paths
  OBVIOUS
<1>7. disk = [q \in Paths |-> disk[q]]
  BY <1>1 DEF Sound, Typed
<1>8. (Context'.tidy => Context.tidy) /\ (Context'.whole => Context.whole) /\ Context'.kept = Forget(S)
  BY <1>2 DEF Change, Context
<1>9. ChangeFrame
  BY <1>2, TypedParts DEF Change, ChangeFrame, Inv
<1> HIDE DEF S
<1>10. disk' = [q \in Paths |-> disk'[q]] /\ (\A q \in Paths \ S : disk'[q] = disk[q]) /\ \A q \in S : disk'[q] = None
  BY <1>3, <1>6
<1>11. Typed(disk')
  <2>1. \A q \in Paths : Fits(q, disk'[q])
    <3> SUFFICES ASSUME NEW q \in Paths PROVE Fits(q, disk'[q])
      OBVIOUS
    <3>1. CASE q \in S
      BY <1>10, <3>1 DEF Fits
    <3>2. CASE q \notin S
      BY <1>1, <1>10, <3>2 DEF Sound, Typed
    <3> QED BY <3>1, <3>2
  <2>2. Project \in Paths \ S /\ Cli \in Paths \ S
    BY <1>4, SinglesDiffer
  <2> QED BY <1>1, <1>10, <2>1, <2>2 DEF Sound, Typed
<1>12. ArtifactsSound(disk', Context'.tidy)
  <2> SUFFICES ASSUME NEW f \in Families, NEW n \in Names(f) PROVE disk'[<<f, n>>] = None
    BY ManagedAssumption DEF ArtifactsSound, ArtifactSound
  <2>1. <<f, n>> \in FamilyPaths(f)
    BY DEF FamilyPaths
  <2> QED BY <1>5, <1>10, <2>1
<1>13. GuidanceSound(disk', Context')
  <2>1. \A q \in GuidancePaths \cup {ownedFile, pendingFile} : disk'[q] = disk[q]
    BY <1>4, <1>10, OtherPaths
  <2>2. GuidanceSound(disk', Context)
    BY <1>1, <2>1, GuidanceFrame DEF Sound
  <2> QED BY <1>8, <2>2 DEF GuidanceSound
<1>14. ASSUME NEW k \in Context'.kept PROVE KeptAt(disk', k)
  <2>1. k \in Context.kept /\ k[1] \notin S
    BY <1>8, ContextFields DEF Forget
  <2>2. KeptAt(disk, k)
    BY <1>1, <2>1 DEF Sound, KeptSound
  <2>3. ASSUME NEW f \in Families, NEW n \in Names(f), k = <<<<f, n>>, Mine>> PROVE FALSE
    <3>1. <<f, n>> \in FamilyPaths(f) /\ k[1] = <<f, n>>
      BY <2>3 DEF FamilyPaths
    <3> QED BY <1>5, <2>1, <3>1
  <2>4. ASSUME NEW p \in GuidancePaths \ RootFiles, k = <<p, Mine>>, disk[p] = Mine PROVE KeptAt(disk', k)
    <3>1. disk'[p] = disk[p]
      BY <1>4, <1>10, OtherPaths
    <3> QED BY <2>4, <3>1 DEF KeptAt
  <2>5. ASSUME NEW p \in RootFiles, NEW r \in {Mine, Damaged}, k = <<p, r>>, At(disk, p).route = r PROVE KeptAt(disk', k)
    <3>1. disk'[p] = disk[p]
      BY <1>4, <1>10, OtherPaths
    <3>2. At(disk', p) = At(disk, p)
      BY <3>1 DEF At
    <3> QED BY <2>5, <3>2 DEF KeptAt
  <2>6. CASE k = <<Settings, "user">> /\ disk[Settings] # None /\ "user" \in disk[Settings].entries
    <3>1. disk'[Settings] = disk[Settings]
      BY <1>4, <1>10, SinglesDiffer
    <3> QED BY <2>6, <3>1 DEF KeptAt
  <2> QED BY <2>2, <2>3, <2>4, <2>5, <2>6 DEF KeptAt
<1>15. Sound(disk', Context')
  BY <1>11, <1>12, <1>13, <1>14 DEF Sound, KeptSound
<1>16. \A q \in HookPaths : disk'[q] = disk[q]
  BY <1>4, <1>10, OtherPaths
<1>17. HooksTyped(disk')
  BY <1>1, <1>16, HooksTypedElsewhere
<1>18. disk'[Yaml] = disk[Yaml]
  BY <1>4, <1>10, SinglesDiffer
<1> QED BY <1>9, <1>15, <1>16, <1>17, <1>18, ChangeInv

GuidanceWritten(d, e, c, p) ==
  /\ p \in Paths \ (HookPaths \cup {Project, Cli, Yaml, Settings, ownedFile, pendingFile})
  /\ \A f \in Families : p # Owned(f) /\ p # Pending(f)
  /\ ArtifactsSound(e, c.tidy) /\ ArtifactsSound(e, FALSE)
  /\ e[ownedFile] = d[ownedFile] /\ e[pendingFile] = d[pendingFile] /\ e[Yaml] = d[Yaml] /\ \A q \in HookPaths : e[q] = d[q]
(* What a single guidance file decides.                                    *)
LEMMA AtGuidance ==
  ASSUME NEW d, NEW e, NEW c, Sound(d, c), NEW p \in GuidancePaths, \A q \in Paths \ {p} : e[q] = d[q]
  PROVE  GuidanceWritten(d, e, c, p)
<1>1. p \in Paths \ (HookPaths \cup {Project, Cli, Yaml, Settings, ownedFile, pendingFile})
  <2>1. {Project, Cli, Yaml, Settings} \subseteq Singles
    BY SinglesDiffer
  <2> QED BY <2>1, OtherPaths
<1>2. ASSUME NEW f \in Families PROVE p \notin FamilyPaths(f) /\ FamilyPaths(f) \subseteq Paths /\ Owned(f) \in FamilyPaths(f) /\ Pending(f) \in FamilyPaths(f)
  BY FamilyPathsArePaths DEF FamilyPaths
<1>3. \A f \in Families : \A q \in FamilyPaths(f) : e[q] = d[q]
  BY <1>2
<1>4. ArtifactsSound(e, c.tidy)
  BY <1>3, FamilyFrame DEF Sound, ArtifactsSound
<1>5. ArtifactsSound(e, FALSE)
  BY <1>4 DEF ArtifactsSound, ArtifactSound
<1>6. e[ownedFile] = d[ownedFile] /\ e[pendingFile] = d[pendingFile] /\ e[Yaml] = d[Yaml] /\ \A q \in HookPaths : e[q] = d[q]
  BY <1>1, OtherPaths, SinglesDiffer
<1> QED BY <1>1, <1>2, <1>4, <1>5, <1>6 DEF GuidanceWritten

(* A pack that leaves needs no claim.                                      *)
LEMMA PacksStayClaimed ==
  ASSUME NEW d, NEW e, NEW p \in GuidancePaths, PacksClaimed(d), \A q \in Paths \ {p} : e[q] = d[q],
         e[p] \in {None, Mine} \/ p \in RootFiles
  PROVE  PacksClaimed(e)
<1>1. e[ownedFile] = d[ownedFile] /\ e[pendingFile] = d[pendingFile]
  BY OtherPaths
<1>2. recordOf(e, ownedFile) = recordOf(d, ownedFile) /\ recordOf(e, pendingFile) = recordOf(d, pendingFile)
  BY <1>1 DEF recordOf
<1> SUFFICES ASSUME NEW k \in Packs, e[Pack(k)] \notin {None, Mine}
             PROVE  Pack(k) \in DOMAIN recordOf(d, ownedFile) \cup DOMAIN recordOf(d, pendingFile)
  BY <1>2 DEF PacksClaimed
<1>3. Pack(k) # p /\ Pack(k) \in Paths
  BY OtherPaths
<1>4. d[Pack(k)] \notin {None, Mine}
  BY <1>3
<1> QED BY <1>4 DEF PacksClaimed

(* A guidance file the user writes keeps Inv.                              *)
LEMMA PolicyInv ==
  ASSUME Inv, EditPolicy
  PROVE  Inv' /\ disk'[Yaml] = disk[Yaml] /\ \A q \in HookPaths : disk'[q] = disk[q]
<1>1. TypeOK /\ Sound(disk, Context) /\ HooksTyped(disk)
  BY InvParts
<1>2. PICK p \in GuidancePaths \ RootFiles : Change("policy", Only(p, Mine), Keep(p, Mine), TRUE, {})
  BY DEF EditPolicy
<1>3. p \in Paths
  BY OtherPaths
<1>4. Wrote(p, Mine)
  BY <1>1, <1>2, <1>3, WroteOne
<1>5. disk' = [q \in Paths |-> disk'[q]] /\ disk'[p] = Mine /\ \A q \in Paths \ {p} : disk'[q] = disk[q]
  BY <1>4 DEF Wrote
<1>6. ~Context'.tidy /\ ~Context'.whole /\ Context'.kept = Keep(p, Mine)
  BY <1>2 DEF Change, Context
<1>7. ChangeFrame
  BY <1>2, TypedParts DEF Change, ChangeFrame, Inv
<1>8. /\ p \in Paths \ (HookPaths \cup {Project, Cli, Yaml, Settings, ownedFile, pendingFile})
      /\ \A f \in Families : p # Owned(f) /\ p # Pending(f)
      /\ ArtifactsSound(disk', FALSE)
      /\ disk'[Yaml] = disk[Yaml] /\ \A q \in HookPaths : disk'[q] = disk[q]
  <2>1. GuidanceWritten(disk, disk', Context, p)
    BY <1>1, <1>5, AtGuidance
  <2> QED BY <2>1 DEF GuidanceWritten
<1>9. ArtifactsSound(disk', Context'.tidy)
  BY <1>6, <1>8 DEF ArtifactsSound, ArtifactSound
<1>10. GuidanceSound(disk', Context')
  <2>1. PacksClaimed(disk')
    BY <1>1, <1>5, PacksStayClaimed DEF Sound, GuidanceSound
  <2> QED BY <1>6, <2>1 DEF GuidanceSound
<1>11. Fits(p, disk'[p])
  <2>1. p = indexFile \/ \E k \in Packs : p = Pack(k)
    BY DEF GuidancePaths
  <2> QED BY <1>5, <2>1, FitsGuidance
<1>12. ASSUME NEW i \in Context'.kept PROVE (i \in Context.kept /\ i[1] # p) \/ KeptAt(disk', i)
  <2>1. CASE i \in kept /\ i[1] # p
    BY <2>1, ContextFields
  <2>2. CASE i = <<p, Mine>>
    BY <1>5, <2>2 DEF KeptAt
  <2> QED BY <1>6, <1>12, <2>1, <2>2 DEF Keep
<1>13. Sound(disk', Context')
  BY <1>1, <1>5, <1>8, <1>9, <1>10, <1>11, <1>12, SoundAt
<1>14. HooksTyped(disk')
  BY <1>1, <1>8, HooksTypedElsewhere
<1> QED BY <1>7, <1>8, <1>13, <1>14, ChangeInv

(* A guidance file the user deletes keeps Inv.                             *)
LEMMA DeleteInv ==
  ASSUME Inv, DeletePolicy
  PROVE  Inv' /\ disk'[Yaml] = disk[Yaml] /\ \A q \in HookPaths : disk'[q] = disk[q]
<1>1. TypeOK /\ Sound(disk, Context) /\ HooksTyped(disk)
  BY InvParts
<1>2. PICK p \in GuidancePaths : Change("delete", Only(p, None), Forget({p}), FALSE, {})
  BY DEF DeletePolicy
<1>3. p \in Paths
  BY OtherPaths
<1>4. Wrote(p, None)
  BY <1>1, <1>2, <1>3, WroteOne
<1>5. disk' = [q \in Paths |-> disk'[q]] /\ disk'[p] = None /\ \A q \in Paths \ {p} : disk'[q] = disk[q]
  BY <1>4 DEF Wrote
<1>6. (Context'.tidy => Context.tidy) /\ ~Context'.whole /\ Context'.kept = Forget({p})
  BY <1>2 DEF Change, Context
<1>7. ChangeFrame
  BY <1>2, TypedParts DEF Change, ChangeFrame, Inv
<1>8. /\ p \in Paths \ (HookPaths \cup {Project, Cli, Yaml, Settings, ownedFile, pendingFile})
      /\ \A f \in Families : p # Owned(f) /\ p # Pending(f)
      /\ ArtifactsSound(disk', Context.tidy)
      /\ disk'[ownedFile] = disk[ownedFile] /\ disk'[pendingFile] = disk[pendingFile]
      /\ disk'[Yaml] = disk[Yaml] /\ \A q \in HookPaths : disk'[q] = disk[q]
  <2>1. GuidanceWritten(disk, disk', Context, p)
    BY <1>1, <1>5, AtGuidance
  <2> QED BY <2>1 DEF GuidanceWritten
<1>9. ArtifactsSound(disk', Context'.tidy)
  BY <1>6, <1>8 DEF ArtifactsSound, ArtifactSound
<1>10. Context'.tidy => Tidy(disk')
  <2> SUFFICES ASSUME Tidy(disk) PROVE Tidy(disk')
    BY <1>1, <1>6 DEF Sound, GuidanceSound
  <2>1. recordOf(disk', ownedFile) = recordOf(disk, ownedFile) /\ recordOf(disk', pendingFile) = recordOf(disk, pendingFile)
    BY <1>8 DEF recordOf
  <2>2. p \in RootFiles => At(disk', p) = BlankFile
    BY <1>5 DEF At
  <2>3. ownedBytes(disk', p) = None
    BY <1>5, <2>2 DEF ownedBytes, BlankFile
  <2>4. ASSUME NEW q \in GuidancePaths, q # p PROVE ownedBytes(disk', q) = ownedBytes(disk, q) /\ At(disk', q) = At(disk, q)
    <3>1. disk'[q] = disk[q]
      BY <1>5, <2>4, OtherPaths
    <3> QED BY <3>1 DEF ownedBytes, At
  <2>5. ASSUME NEW q \in GuidancePaths PROVE replaceable(disk', q)
    <3>1. CASE q = p
      BY <2>3, <3>1 DEF replaceable
    <3>2. CASE q # p
      <4>1. replaceable(disk, q)
        BY DEF Tidy
      <4> QED BY <2>1, <2>4, <3>2, <4>1 DEF replaceable
    <3> QED BY <3>1, <3>2
  <2>6. ASSUME NEW q \in RootFiles PROVE ~At(disk', q).link /\ At(disk', q).legacy = "none"
    <3>1. CASE q = p
      BY <2>2, <3>1 DEF BlankFile
    <3>2. CASE q # p
      BY <2>4, <3>2, OtherPaths DEF Tidy
    <3> QED BY <3>1, <3>2
  <2> QED BY <2>5, <2>6 DEF Tidy
<1>11. GuidanceSound(disk', Context')
  <2>1. PacksClaimed(disk')
    BY <1>1, <1>5, PacksStayClaimed DEF Sound, GuidanceSound
  <2> QED BY <1>6, <1>10, <2>1 DEF GuidanceSound
<1>12. Fits(p, disk'[p])
  BY <1>5 DEF Fits
<1>13. ASSUME NEW i \in Context'.kept PROVE (i \in Context.kept /\ i[1] # p) \/ KeptAt(disk', i)
  BY <1>6, <1>13, ContextFields DEF Forget
<1>14. Sound(disk', Context')
  BY <1>1, <1>5, <1>8, <1>9, <1>11, <1>12, <1>13, SoundAt
<1>15. HooksTyped(disk')
  BY <1>1, <1>8, HooksTypedElsewhere
<1> QED BY <1>7, <1>8, <1>14, <1>15, ChangeInv

(* A route the user edits keeps Inv.                                       *)
LEMMA RouteInv ==
  ASSUME Inv, EditRoute
  PROVE  Inv' /\ disk'[Yaml] = disk[Yaml] /\ \A q \in HookPaths : disk'[q] = disk[q]
<1>1. TypeOK /\ Sound(disk, Context) /\ HooksTyped(disk)
  BY InvParts
<1>2. PICK p \in RootFiles, r \in {Mine, Damaged} :
        disk[p] # None /\ Change("route", Only(p, [disk[p] EXCEPT !.route = r]), Keep(p, r), TRUE, {})
  BY DEF EditRoute
<1>3. p \in Paths /\ p \in GuidancePaths
  BY OtherPaths
<1>4. disk[p] \in Roots
  BY <1>1, <1>2, GuidanceTyped DEF Sound, At
<1>5. PICK x \in Roots : x.route = r /\ Change("route", Only(p, x), Keep(p, r), TRUE, {})
  <2> DEFINE y == [disk[p] EXCEPT !.route = r]
  <2>1. y \in Roots /\ y.route = r
    BY <1>4 DEF Roots
  <2>2. Change("route", Only(p, y), Keep(p, r), TRUE, {})
    BY <1>2
  <2> HIDE DEF y
  <2> QED BY <2>1, <2>2
<1>6. x # None
  BY ManagedAssumption
<1>7. Change("route", Only(p, x), Keep(p, r), TRUE, {})
  BY <1>5
<1>8. Wrote(p, x)
  BY <1>1, <1>7, <1>3, WroteOne
<1>9. disk' = [q \in Paths |-> disk'[q]] /\ disk'[p] = x /\ \A q \in Paths \ {p} : disk'[q] = disk[q]
  BY <1>8 DEF Wrote
<1>10. ~Context'.tidy /\ ~Context'.whole /\ Context'.kept = Keep(p, r)
  BY <1>7 DEF Change, Context
<1>11. ChangeFrame
  BY <1>7, TypedParts DEF Change, ChangeFrame, Inv
<1>12. GuidanceWritten(disk, disk', Context, p)
  BY <1>1, <1>3, <1>9, AtGuidance
<1>13. ArtifactsSound(disk', Context'.tidy)
  BY <1>10, <1>12 DEF GuidanceWritten, ArtifactsSound, ArtifactSound
<1>14. GuidanceSound(disk', Context')
  <2>1. PacksClaimed(disk')
    BY <1>1, <1>3, <1>9, PacksStayClaimed DEF Sound, GuidanceSound
  <2> QED BY <1>10, <2>1 DEF GuidanceSound
<1>15. Fits(p, disk'[p])
  BY <1>5, <1>9, FitsGuidance
<1>16. ASSUME NEW i \in Context'.kept PROVE (i \in Context.kept /\ i[1] # p) \/ KeptAt(disk', i)
  <2>1. CASE i \in kept /\ i[1] # p
    BY <2>1, ContextFields
  <2>2. CASE i = <<p, r>>
    <3>1. At(disk', p).route = r
      BY <1>5, <1>6, <1>9 DEF At
    <3> QED BY <2>2, <3>1 DEF KeptAt
  <2> QED BY <1>10, <1>16, <2>1, <2>2 DEF Keep
<1>17. p \in Paths \ {Project, Cli} /\ \A f \in Families : p # Owned(f) /\ p # Pending(f)
  BY <1>12 DEF GuidanceWritten
<1>18. disk'[Yaml] = disk[Yaml] /\ \A q \in HookPaths : disk'[q] = disk[q]
  BY <1>12 DEF GuidanceWritten
<1>19. disk' = [q \in Paths |-> disk'[q]] /\ \A q \in Paths \ {p} : disk'[q] = disk[q]
  BY <1>9
<1>20. Sound(disk, Context) /\ HooksTyped(disk)
  BY <1>1
<1>21. Sound(disk', Context')
  BY <1>13, <1>14, <1>15, <1>16, <1>17, <1>19, <1>20, SoundAt
<1>22. HooksTyped(disk')
  BY <1>18, <1>20, HooksTypedElsewhere
<1> QED BY <1>11, <1>18, <1>21, <1>22, ChangeInv

(* An instruction file changed outside its route keeps Inv.                *)
LEMMA RootInv ==
  ASSUME Inv, NEW name, NEW p \in RootFiles, NEW x \in Roots, x.route = At(disk, p).route, Change(name, Only(p, x), kept, TRUE, {})
  PROVE  Inv' /\ disk'[Yaml] = disk[Yaml] /\ \A q \in HookPaths : disk'[q] = disk[q]
<1>1. TypeOK /\ Sound(disk, Context) /\ HooksTyped(disk)
  BY InvParts
<1>2. p \in Paths \ HookPaths /\ p \in GuidancePaths
  BY OtherPaths
<1>3. Wrote(p, x)
  BY <1>1, <1>2, WroteOne
<1>4. disk' = [disk EXCEPT ![p] = x] /\ \A q \in Paths \ {p} : disk'[q] = disk[q]
  BY <1>3 DEF Wrote
<1>5. ~Context'.tidy /\ ~Context'.whole /\ Context'.kept = Context.kept
  BY DEF Change, Context
<1>6. ChangeFrame
  BY TypedParts DEF Change, ChangeFrame, Inv
<1>7. Sound(disk, Context')
  BY <1>1, <1>5, SoundWeaker
<1>8. Sound([disk EXCEPT ![p] = x], Context') /\ [disk EXCEPT ![p] = x][Yaml] = disk[Yaml]
  BY <1>5, <1>7, RootWritten
<1>9. Sound(disk', Context') /\ disk'[Yaml] = disk[Yaml]
  BY <1>4, <1>8
<1>10. \A q \in HookPaths : disk'[q] = disk[q]
  BY <1>2, <1>4, OtherPaths
<1>11. HooksTyped(disk')
  BY <1>1, <1>10, HooksTypedElsewhere
<1> QED BY <1>6, <1>9, <1>10, <1>11, ChangeInv

(* Legacy imports and links keep Inv.                                      *)
LEMMA LegacyInv ==
  ASSUME Inv, LegacyImport \/ LinkInstructions
  PROVE  Inv' /\ disk'[Yaml] = disk[Yaml] /\ \A q \in HookPaths : disk'[q] = disk[q]
<1>1. \A p \in RootFiles : At(disk, p) \in Roots
  BY InvParts, GuidanceTyped DEF Sound
<1>2. CASE LegacyImport
  <2>1. PICK p \in RootFiles, l \in {"block", "handwritten"} : Change("legacy", Only(p, [At(disk, p) EXCEPT !.legacy = l]), kept, TRUE, {})
    BY <1>2 DEF LegacyImport
  <2> DEFINE x == [At(disk, p) EXCEPT !.legacy = l]
  <2>2. x \in Roots /\ x.route = At(disk, p).route
    BY <1>1 DEF Roots
  <2>3. Change("legacy", Only(p, x), kept, TRUE, {})
    BY <2>1
  <2> HIDE DEF x
  <2> QED BY <2>2, <2>3, RootInv
<1>3. CASE LinkInstructions
  <2>1. PICK p \in RootFiles : Change("link", Only(p, [At(disk, p) EXCEPT !.link = TRUE]), kept, TRUE, {})
    BY <1>3 DEF LinkInstructions
  <2> DEFINE x == [At(disk, p) EXCEPT !.link = TRUE]
  <2>2. x \in Roots /\ x.route = At(disk, p).route
    BY <1>1 DEF Roots
  <2>3. Change("link", Only(p, x), kept, TRUE, {})
    BY <2>1
  <2> HIDE DEF x
  <2> QED BY <2>2, <2>3, RootInv
<1> QED BY <1>2, <1>3

(* A hook of the user's.                                                   *)
LEMMA HookInv ==
  ASSUME Inv, NEW p \in HookPaths, NEW o, OwnHook(p, o)
  PROVE  /\ Inv' /\ disk'[Yaml] = disk[Yaml] /\ \A q \in Paths \ {p} : disk'[q] = disk[q]
         /\ \E x \in BOOLEAN, b \in {"user", "other"} : disk'[p] = [by |-> b, x |-> x]
         /\ meddled' = (meddled \/ Theirs(disk[o]))
<1>1. TypeOK /\ Sound(disk, Context) /\ HooksTyped(disk)
  BY InvParts
<1>2. PICK x \in BOOLEAN, b \in {"user", "other"} : Change("hooks", Only(p, [by |-> b, x |-> x]), kept, Theirs(disk[o]), {})
  BY DEF OwnHook
<1> DEFINE s == [by |-> b, x |-> x]
<1>3. s \in Scripts
  BY DEF Scripts
<1>4. Change("hooks", Only(p, s), kept, Theirs(disk[o]), {})
  BY <1>2
<1> HIDE DEF s
<1>5. p \in Paths
  BY OtherPaths
<1>6. Wrote(p, s)
  BY <1>1, <1>4, <1>5, WroteOne
<1>7. disk' = [q \in Paths |-> disk'[q]] /\ disk'[p] = s /\ \A q \in Paths \ {p} : disk'[q] = disk[q]
  BY <1>6 DEF Wrote
<1>8. (Context'.tidy => Context.tidy) /\ (Context'.whole => Context.whole) /\ Context'.kept = Context.kept
  BY <1>4 DEF Change, Context
<1>9. ChangeFrame
  BY <1>4, TypedParts DEF Change, ChangeFrame, Inv, Theirs
<1>10. SameButHooks(disk, disk')
  BY <1>1, <1>7 DEF SameButHooks, Sound, Typed
<1>11. Sound(disk', Context)
  BY <1>1, <1>7, <1>10, SoundButHooks
<1>12. Sound(disk', Context')
  BY <1>8, <1>11, SoundWeaker
<1>13. HooksTyped(disk')
  <2> SUFFICES ASSUME NEW h \in HookNames PROVE {disk'[Hook(h)], disk'[Local(h)]} \subseteq {None} \cup Scripts
    BY DEF HooksTyped
  <2>1. Hook(h) \in Paths /\ Local(h) \in Paths
    BY HookPathsDiffer, OtherPaths
  <2>2. {disk[Hook(h)], disk[Local(h)]} \subseteq {None} \cup Scripts
    BY <1>1 DEF HooksTyped
  <2> QED BY <1>3, <1>7, <2>1, <2>2
<1>14. Inv'
  BY <1>9, <1>12, <1>13, ChangeInv
<1>15. disk'[Yaml] = disk[Yaml]
  BY <1>10, SinglesDiffer DEF SameButHooks
<1>16. meddled' = (meddled \/ Theirs(disk[o]))
  BY <1>4 DEF Change
<1> QED BY <1>7, <1>14, <1>15, <1>16 DEF s

(* Claude's settings, edited, keep Inv.                                    *)
LEMMA SettingsInv ==
  ASSUME Inv, EditSettings
  PROVE  Inv' /\ disk'[Yaml] = disk[Yaml] /\ \A q \in HookPaths : disk'[q] = disk[q]
<1>1. TypeOK /\ Sound(disk, Context) /\ HooksTyped(disk)
  BY InvParts
<1>2. PICK b \in BOOLEAN : Change("settings", Only(Settings, [parses |-> b, entries |-> {"user"}]), Keep(Settings, "user"), ~b, {})
  BY DEF EditSettings
<1> DEFINE x == [parses |-> b, entries |-> {"user"}]
<1>3. x \in SettingsFiles /\ "user" \in x.entries
  BY DEF SettingsFiles
<1>4. x # None
  BY <1>3, ManagedAssumption
<1>5. Change("settings", Only(Settings, x), Keep(Settings, "user"), ~b, {})
  BY <1>2
<1> HIDE DEF x
<1>6. Settings \in Singles /\ Settings \in Paths \ {Project, Cli, Yaml} /\ Settings \notin HookPaths
  <2>1. Settings # Project /\ Settings # Cli /\ Settings # Yaml
    BY DEF Settings, Project, Cli, Yaml
  <2> QED BY <2>1, SinglesDiffer
<1>7. Wrote(Settings, x)
  BY <1>1, <1>5, <1>6, WroteOne
<1>8. disk' = [q \in Paths |-> disk'[q]] /\ disk'[Settings] = x /\ \A q \in Paths \ {Settings} : disk'[q] = disk[q]
  BY <1>7 DEF Wrote
<1>9. (Context'.tidy => Context.tidy) /\ (Context'.whole => Context.whole) /\ Context'.kept = Keep(Settings, "user")
  BY <1>5 DEF Change, Context
<1>10. ChangeFrame
  BY <1>5, TypedParts DEF Change, ChangeFrame, Inv
<1>11. \A f \in Families : Settings \notin FamilyPaths(f) /\ Settings # Owned(f) /\ Settings # Pending(f) /\ FamilyPaths(f) \subseteq Paths
  BY FamilyPathsArePaths DEF FamilyPaths
<1>12. ArtifactsSound(disk', Context'.tidy)
  <2>1. \A f \in Families : \A q \in FamilyPaths(f) : disk'[q] = disk[q]
    BY <1>8, <1>11
  <2>2. ArtifactsSound(disk', Context.tidy)
    BY <1>1, <2>1, FamilyFrame DEF Sound, ArtifactsSound
  <2> QED BY <1>9, <2>2 DEF ArtifactsSound, ArtifactSound
<1>13. GuidanceSound(disk', Context')
  <2>1. \A q \in GuidancePaths \cup {ownedFile, pendingFile} : disk'[q] = disk[q]
    BY <1>6, <1>8, OtherPaths
  <2>2. GuidanceSound(disk', Context)
    BY <1>1, <2>1, GuidanceFrame DEF Sound
  <2> QED BY <1>9, <2>2 DEF GuidanceSound
<1>14. Fits(Settings, disk'[Settings])
  BY <1>3, <1>8, FitsSingle
<1>15. ASSUME NEW i \in Context'.kept PROVE (i \in Context.kept /\ i[1] # Settings) \/ KeptAt(disk', i)
  <2>1. CASE i \in kept /\ i[1] # Settings
    BY <2>1, ContextFields
  <2>2. CASE i = <<Settings, "user">>
    BY <1>3, <1>4, <1>8, <2>2 DEF KeptAt
  <2> QED BY <1>9, <1>15, <2>1, <2>2 DEF Keep
<1>16. Sound(disk', Context')
  BY <1>1, <1>6, <1>8, <1>11, <1>12, <1>13, <1>14, <1>15, SoundAt
<1>17. \A q \in HookPaths : disk'[q] = disk[q]
  BY <1>6, <1>8, OtherPaths
<1>18. HooksTyped(disk')
  BY <1>1, <1>17, HooksTypedElsewhere
<1>19. disk'[Yaml] = disk[Yaml]
  BY <1>6, <1>8, SinglesDiffer
<1> QED BY <1>10, <1>16, <1>17, <1>18, <1>19, ChangeInv

(* What every change of the user's does besides.                           *)
UsersChange ==
  /\ run' = [w \in Worktrees |-> NoRun] /\ raced' = raced /\ (meddled => meddled')
  /\ bodies' = [h \in HookNames |-> Bodies(disk', h)] /\ ran' = [h \in HookNames |-> Runs(disk', h) \ {"aiwf"}]
(* A change is the user's, between runs.                                   *)
LEMMA ChangeIsUsers ==
  ASSUME NEW name, NEW files, NEW now, NEW meddles, NEW wants, Change(name, files, now, meddles, wants)
  PROVE  UsersChange /\ asked' = asked \cup wants
<1>1. disk' = [p \in Paths |-> IF p \in DOMAIN files THEN files[p] ELSE disk[p]]
  BY DEF Change
<1>2. bodies' = [h \in HookNames |-> Bodies(disk', h)] /\ ran' = [h \in HookNames |-> Runs(disk', h) \ {"aiwf"}]
  BY DEF Change
<1>3. run' = [w \in Worktrees |-> NoRun] /\ raced' = raced /\ (meddled => meddled') /\ asked' = asked \cup wants
  BY DEF Change
<1> QED BY <1>2, <1>3 DEF UsersChange

(* A pack the user did not ask for does not enter aiwf.yaml this way.      *)
OnlyAsked == disk[Yaml] # None => Chosen(disk'[Yaml]) \subseteq Chosen(disk[Yaml]) \cup asked'
HooksAlone == \A q \in HookPaths : disk'[q] = disk[q]

(* A change of aiwf.yaml keeps Inv, and selects what the user asks for.    *)
LEMMA ConfigureInv ==
  ASSUME Inv, NEW name, NEW x \in Configs, NEW wants \in SUBSET Packs, Configure(name, x, wants),
         Chosen(x) \subseteq Chosen(disk[Yaml]) \cup wants
  PROVE  Inv' /\ OnlyAsked /\ HooksAlone
<1>1. TypeOK
  BY InvParts
<1>2. Change(name, Only(Yaml, x), kept, FALSE, wants)
  BY DEF Configure
<1>3. Inv' /\ \A q \in Paths \ {Yaml} : disk'[q] = disk[q]
  <2>1. Yaml = Project => x \in SUBSET Packs
    BY SinglesDiffer
  <2> QED BY <1>2, <2>1, ConfigInv
<1>4. HooksAlone
  BY <1>3, OtherPaths, SinglesDiffer DEF HooksAlone
<1>5. Yaml \in Paths
  BY SinglesDiffer
<1>6. Wrote(Yaml, x)
  BY <1>1, <1>2, <1>5, WroteOne
<1>7. disk'[Yaml] = x
  BY <1>6 DEF Wrote
<1>8. asked' = asked \cup wants
  BY <1>2, ChangeIsUsers
<1>9. OnlyAsked
  BY <1>7, <1>8 DEF OnlyAsked
<1> QED BY <1>3, <1>4, <1>9

(* So do all the changes of aiwf.yaml.                                     *)
LEMMA ConfigsInv ==
  ASSUME Inv, disk[Yaml] # None,
         SelectHosts \/ SelectPacks \/ IgnorePack \/ WireHosts \/ ToggleAuto \/ ToggleCommit \/ ToggleGuidance \/ Decide
  PROVE  Inv' /\ OnlyAsked /\ HooksAlone
<1> DEFINE y == disk[Yaml]
<1>1. y \in Configs
  <2>1. Fits(Yaml, disk[Yaml])
    BY InvParts, SinglesDiffer DEF Sound, Typed
  <2> QED BY <2>1, FitsSingle
<1>2. \A name, x, wants : Change(name, Only(Yaml, x), kept, FALSE, wants) => Configure(name, x, wants)
  BY DEF Configure
<1>3. ASSUME NEW name, NEW x \in Configs, NEW wants \in SUBSET Packs, Configure(name, x, wants), Chosen(x) \subseteq Chosen(y) \cup wants
      PROVE  Inv' /\ OnlyAsked /\ HooksAlone
  BY <1>3, ConfigureInv
<1>4. ASSUME NEW name, NEW x \in Configs, Configure(name, x, {}), x.packs = y.packs PROVE Inv' /\ OnlyAsked /\ HooksAlone
  <2>1. Chosen(x) \subseteq Chosen(y) \cup {}
    BY <1>4 DEF Chosen
  <2> QED BY <1>3, <1>4, <2>1
<1>5. CASE SelectHosts
  <2>1. PICK hosts \in SUBSET Hosts : Change("hosts", Only(Yaml, [y EXCEPT !.hosts = hosts]), kept, FALSE, {})
    BY <1>5 DEF SelectHosts
  <2> DEFINE x == [y EXCEPT !.hosts = hosts]
  <2>2. x \in Configs /\ x.packs = y.packs
    BY <1>1 DEF Configs
  <2>3. Configure("hosts", x, {})
    BY <1>2, <2>1
  <2> HIDE DEF x, y
  <2> QED BY <1>4, <2>2, <2>3
<1>6. CASE SelectPacks
  <2> DEFINE packs == IF y.packs = None THEN {} ELSE y.packs
  <2>1. PICK p \in Packs : Configure("packs", [y EXCEPT !.packs = IF p \in packs THEN packs \ {p} ELSE packs \cup {p}], {p})
    BY <1>6 DEF SelectPacks
  <2> DEFINE new == IF p \in packs THEN packs \ {p} ELSE packs \cup {p}
             x == [y EXCEPT !.packs = new]
  <2>2. packs \in SUBSET Packs /\ packs = Chosen(y)
    BY <1>1 DEF Configs, Chosen
  <2> HIDE DEF packs
  <2>3. new \in SUBSET Packs /\ new \subseteq Chosen(y) \cup {p}
    BY <2>2
  <2>4. Configure("packs", x, {p})
    BY <2>1
  <2> HIDE DEF new
  <2>5. x \in Configs /\ x.packs = new
    BY <1>1, <2>3 DEF Configs
  <2> HIDE DEF x, y
  <2>6. Chosen(x) \subseteq Chosen(y) \cup {p}
    BY <2>3, <2>5 DEF Chosen
  <2>7. {p} \in SUBSET Packs
    OBVIOUS
  <2> QED BY <1>3, <2>4, <2>5, <2>6, <2>7
<1>7. CASE IgnorePack
  <2>1. PICK p \in Packs : Configure("ignore", [y EXCEPT !.ignored = @ \cup {p}], {})
    BY <1>7 DEF IgnorePack
  <2> DEFINE x == [y EXCEPT !.ignored = @ \cup {p}]
  <2>2. x \in Configs /\ x.packs = y.packs
    BY <1>1 DEF Configs
  <2>3. Configure("ignore", x, {})
    BY <2>1
  <2> HIDE DEF x, y
  <2> QED BY <1>4, <2>2, <2>3
<1>8. CASE WireHosts
  <2>1. PICK h \in Hosts : Configure("wire", [y EXCEPT !.wired = IF h \in @ THEN @ \ {h} ELSE @ \cup {h}], {})
    BY <1>8 DEF WireHosts
  <2> DEFINE x == [y EXCEPT !.wired = IF h \in @ THEN @ \ {h} ELSE @ \cup {h}]
  <2>2. x \in Configs /\ x.packs = y.packs
    BY <1>1 DEF Configs
  <2>3. Configure("wire", x, {})
    BY <2>1
  <2> HIDE DEF x, y
  <2> QED BY <1>4, <2>2, <2>3
<1>9. CASE ToggleAuto
  <2> DEFINE x == [y EXCEPT !.auto = ~@]
  <2>2. x \in Configs /\ x.packs = y.packs
    BY <1>1 DEF Configs
  <2>3. Configure("auto", x, {})
    BY <1>9 DEF ToggleAuto
  <2> HIDE DEF x, y
  <2> QED BY <1>4, <2>2, <2>3
<1>10. CASE ToggleCommit
  <2> DEFINE x == [y EXCEPT !.commitOutput = ~@]
  <2>2. x \in Configs /\ x.packs = y.packs
    BY <1>1 DEF Configs
  <2>3. Configure("site", x, {})
    BY <1>10 DEF ToggleCommit
  <2> HIDE DEF x, y
  <2> QED BY <1>4, <2>2, <2>3
<1>11. CASE ToggleGuidance
  <2> DEFINE x == [y EXCEPT !.enabled = ~@]
  <2>2. x \in Configs /\ x.packs = y.packs
    BY <1>1 DEF Configs
  <2>3. Configure("maintain", x, {})
    BY <1>11 DEF ToggleGuidance
  <2> HIDE DEF x, y
  <2> QED BY <1>4, <2>2, <2>3
<1>12. CASE Decide
  <2>1. PICK z \in {None, "on", "off"} : Configure("decide", [y EXCEPT !.decision = z], {})
    BY <1>12 DEF Decide
  <2> DEFINE x == [y EXCEPT !.decision = z]
  <2>2. x \in Configs /\ x.packs = y.packs
    BY <1>1 DEF Configs
  <2>3. Configure("decide", x, {})
    BY <2>1
  <2> HIDE DEF x, y
  <2> QED BY <1>4, <2>2, <2>3
<1> QED BY <1>5, <1>6, <1>7, <1>8, <1>9, <1>10, <1>11, <1>12

(* Files added to the project keep Inv.                                    *)
LEMMA ProjectInv ==
  ASSUME Inv, AddFiles
  PROVE  Inv' /\ OnlyAsked /\ HooksAlone
<1>1. disk[Project] \in SUBSET Packs
  BY InvParts DEF Sound, Typed
<1>2. PICK k \in Packs : Change("project", Only(Project, disk[Project] \cup {k}), kept, FALSE, {})
  BY DEF AddFiles
<1> DEFINE x == disk[Project] \cup {k}
           none == {}
<1>3. x \in SUBSET Packs /\ none \in SUBSET Packs /\ Change("project", Only(Project, x), kept, FALSE, none)
  BY <1>1, <1>2
<1> HIDE DEF x
<1>4. Project # Yaml /\ Project \in {Yaml, Project}
  BY SinglesDiffer
<1>5. Inv' /\ \A q \in Paths \ {Project} : disk'[q] = disk[q]
  BY <1>3, <1>4, ConfigInv
<1>6. HooksAlone
  BY <1>5, OtherPaths, SinglesDiffer DEF HooksAlone
<1>7. disk'[Yaml] = disk[Yaml]
  BY <1>4, <1>5, SinglesDiffer
<1> QED BY <1>5, <1>6, <1>7 DEF OnlyAsked

(* A hook of the user's is put in place of one path, o being the other.    *)
HookPlaced(h, p, o) ==
  /\ <<p, o>> \in {<<Hook(h), Local(h)>>, <<Local(h), Hook(h)>>} /\ \A q \in HookPaths \ {p} : disk'[q] = disk[q]
  /\ \E x \in BOOLEAN, b \in {"user", "other"} : disk'[p] = [by |-> b, x |-> x]
  /\ meddled' = (meddled \/ Theirs(disk[o]))

(* A hook placed by hand keeps Inv.                                        *)
LEMMA PlacedInv ==
  ASSUME Inv, PlaceHook \/ PlaceLocal
  PROVE  Inv' /\ OnlyAsked /\ UsersChange /\ \E h \in HookNames : \E p, o : HookPlaced(h, p, o)
<1>1. ASSUME NEW h \in HookNames, NEW p, NEW o, <<p, o>> \in {<<Hook(h), Local(h)>>, <<Local(h), Hook(h)>>}, OwnHook(p, o)
      PROVE  Inv' /\ OnlyAsked /\ UsersChange /\ \E i \in HookNames : \E q, l : HookPlaced(i, q, l)
  <2>1. p \in HookPaths
    BY <1>1, HookPathsDiffer
  <2>2. /\ Inv' /\ disk'[Yaml] = disk[Yaml] /\ \A q \in Paths \ {p} : disk'[q] = disk[q]
        /\ \E x \in BOOLEAN, b \in {"user", "other"} : disk'[p] = [by |-> b, x |-> x]
        /\ meddled' = (meddled \/ Theirs(disk[o]))
    BY <1>1, <2>1, HookInv
  <2>3. \A q \in HookPaths \ {p} : disk'[q] = disk[q]
    BY <2>2, OtherPaths
  <2>4. HookPlaced(h, p, o)
    BY <1>1, <2>2, <2>3 DEF HookPlaced
  <2>5. OnlyAsked
    BY <2>2 DEF OnlyAsked
  <2>6. UsersChange
    BY <1>1, ChangeIsUsers DEF OwnHook
  <2> QED BY <2>2, <2>4, <2>5, <2>6
<1>2. CASE PlaceHook
  <2>1. PICK h \in HookNames : OwnHook(Hook(h), Local(h))
    BY <1>2 DEF PlaceHook
  <2> QED BY <1>1, <2>1
<1>3. CASE PlaceLocal
  <2>1. PICK h \in HookNames : OwnHook(Local(h), Hook(h))
    BY <1>3 DEF PlaceLocal
  <2> QED BY <1>1, <2>1
<1> QED BY <1>2, <1>3

(* A new catalogue keeps Inv.                                              *)
LEMMA PublishInv ==
  ASSUME Inv, Publish
  PROVE  Inv' /\ UNCHANGED <<disk, bodies, ran, meddled, raced>> /\ run' = [w \in Worktrees |-> NoRun]
<1>1. /\ TypeOK /\ Sound(disk, Context) /\ HooksTyped(disk)
      /\ left \in [runs : Nat, faults : Nat, changes : Nat] /\ raced \in BOOLEAN
  BY InvParts
<1>2. /\ upstream' \in DOMAIN Catalogue /\ run' = [w \in Worktrees |-> NoRun]
      /\ UNCHANGED <<play, disk, left, kept, bodies, ran, meddled, asked, raced>>
  BY DEF Publish
<1>3. run' = [w \in Worktrees |-> run'[w]] /\ \A w \in Worktrees : run'[w] = NoRun
  BY <1>2
<1>4. NoRun.todo = <<>> /\ NoRun.ops = <<>> /\ NoRun.undo = {} /\ NoRun.said = {}
  BY DEF NoRun
<1>5. \A w \in Worktrees : RunTyped(run'[w]) /\ RunSound(w, run'[w], disk', Context')
  BY <1>3, <1>4, NoRunTyped, OverIsSound
<1>6. Sound(disk', Context')
  BY <1>1, <1>2 DEF Sound, Context, GuidanceSound
<1>7. TypeOK'
  BY <1>1, <1>2, <1>3, <1>5, <1>6, TypedParts DEF TypeOK, HooksTyped, RunTyped, RunIn, Sound
<1> QED BY <1>2, <1>5, <1>6, <1>7 DEF Inv

(* Everything the user does.                                               *)
LEMMA ChangesInv ==
  ASSUME Inv, disk[Yaml] # None, Changes
  PROVE  /\ Inv' /\ OnlyAsked
         /\ \/ UsersChange /\ HooksAlone
            \/ UsersChange /\ \E h \in HookNames : \E p, o : HookPlaced(h, p, o)
            \/ UNCHANGED <<disk, bodies, ran, meddled, raced>> /\ run' = [w \in Worktrees |-> NoRun]
<1>1. ASSUME Inv', disk'[Yaml] = disk[Yaml], \A q \in HookPaths : disk'[q] = disk[q],
             \E name, files, now, meddles, wants : Change(name, files, now, meddles, wants)
      PROVE  Inv' /\ OnlyAsked /\ UsersChange /\ HooksAlone
  <2>1. UsersChange
    BY <1>1, ChangeIsUsers
  <2>2. OnlyAsked /\ HooksAlone
    BY <1>1 DEF OnlyAsked, HooksAlone
  <2> QED BY <1>1, <2>1, <2>2
<1>2. CASE AuthorArtifact
  <2>1. \E name, files, now, meddles, wants : Change(name, files, now, meddles, wants)
    BY <1>2 DEF AuthorArtifact
  <2> QED BY <1>1, <1>2, <2>1, AuthorInv
<1>3. CASE EditArtifact
  <2>1. \E name, files, now, meddles, wants : Change(name, files, now, meddles, wants)
    BY <1>3 DEF EditArtifact
  <2> QED BY <1>1, <1>3, <2>1, EditInv
<1>4. CASE CleanArtifacts
  <2>1. \E name, files, now, meddles, wants : Change(name, files, now, meddles, wants)
    BY <1>4 DEF CleanArtifacts
  <2> QED BY <1>1, <1>4, <2>1, CleanInv
<1>5. CASE EditPolicy
  <2>1. \E name, files, now, meddles, wants : Change(name, files, now, meddles, wants)
    BY <1>5 DEF EditPolicy
  <2> QED BY <1>1, <1>5, <2>1, PolicyInv
<1>6. CASE DeletePolicy
  <2>1. \E name, files, now, meddles, wants : Change(name, files, now, meddles, wants)
    BY <1>6 DEF DeletePolicy
  <2> QED BY <1>1, <1>6, <2>1, DeleteInv
<1>7. CASE EditRoute
  <2>1. \E name, files, now, meddles, wants : Change(name, files, now, meddles, wants)
    BY <1>7 DEF EditRoute
  <2> QED BY <1>1, <1>7, <2>1, RouteInv
<1>8. CASE LegacyImport \/ LinkInstructions
  <2>1. \E name, files, now, meddles, wants : Change(name, files, now, meddles, wants)
    BY <1>8 DEF LegacyImport, LinkInstructions
  <2> QED BY <1>1, <1>8, <2>1, LegacyInv
<1>9. CASE EditSettings
  <2>1. \E name, files, now, meddles, wants : Change(name, files, now, meddles, wants)
    BY <1>9 DEF EditSettings
  <2> QED BY <1>1, <1>9, <2>1, SettingsInv
<1>10. CASE SelectHosts \/ SelectPacks \/ IgnorePack \/ WireHosts \/ ToggleAuto \/ ToggleCommit \/ ToggleGuidance \/ Decide
  <2>1. \E name, files, now, meddles, wants : Change(name, files, now, meddles, wants)
    BY <1>10 DEF SelectHosts, SelectPacks, IgnorePack, WireHosts, ToggleAuto, ToggleCommit, ToggleGuidance, Decide, Configure
  <2>2. UsersChange
    BY <2>1, ChangeIsUsers
  <2> QED BY <1>10, <2>2, ConfigsInv
<1>11. CASE AddFiles
  <2>1. \E name, files, now, meddles, wants : Change(name, files, now, meddles, wants)
    BY <1>11 DEF AddFiles
  <2>2. UsersChange
    BY <2>1, ChangeIsUsers
  <2> QED BY <1>11, <2>2, ProjectInv
<1>12. CASE PlaceHook \/ PlaceLocal
  BY <1>12, PlacedInv
<1>13. CASE Publish
  <2>1. OnlyAsked
    BY <1>13, PublishInv DEF OnlyAsked
  <2> QED BY <1>13, <2>1, PublishInv
<1> QED BY <1>2, <1>3, <1>4, <1>5, <1>6, <1>7, <1>8, <1>9, <1>10, <1>11, <1>12, <1>13 DEF Changes

(* A repository starts sound.                                              *)
LEMMA InitInv == Init => Inv
<1> SUFFICES ASSUME Init PROVE Inv
  OBVIOUS
<1>1. /\ play \in Scenarios /\ disk = Starting(play) /\ upstream = Min(DOMAIN Catalogue) /\ run = [w \in Worktrees |-> NoRun]
      /\ left = [runs |-> play.runs, faults |-> play.faults, changes |-> play.changes]
      /\ kept = {} /\ meddled = FALSE /\ asked = {} /\ raced = FALSE
  BY DEF Init
<1>2. /\ {play.runs, play.faults, play.changes} \subseteq Nat /\ Typed(disk)
      /\ \A f \in Families : disk[Pending(f)] = None /\ \A n \in Names(f) \ parseOwnedNames(disk, f) : disk[<<f, n>>] = None
      /\ \A p \in GuidancePaths \cup {ownedFile, pendingFile} :
           disk[p] # None => p \in RootFiles /\ disk[p].route = None /\ disk[p].legacy = "none" /\ ~disk[p].link
      /\ \A h \in HookNames : disk[Hook(h)] \in {None, hookScript} /\ disk[Local(h)] = None
  BY <1>1, RefreshAssumption
<1>3. upstream \in DOMAIN Catalogue
  <2> DEFINE S == DOMAIN Catalogue
  <2>1. S \subseteq Nat /\ S # {}
    BY ManagedAssumption
  <2> HIDE DEF S
  <2>2. \E x \in S : \A y \in S : x <= y
    BY <2>1, LeastElement
  <2>3. Min(S) \in S
    BY <2>2 DEF Min
  <2> QED BY <1>1, <2>3 DEF S
<1>4. HooksTyped(disk)
  <2>1. hookScript \in Scripts
    BY DEF hookScript, Scripts
  <2> QED BY <1>2, <2>1 DEF HooksTyped
<1>5. Context.kept = {} /\ Context.tidy
  BY <1>1, ContextFields
<1>6. ArtifactsSound(disk, TRUE)
  <2> SUFFICES ASSUME NEW f \in Families, NEW n \in Names(f) PROVE ArtifactSound(disk, f, n, TRUE)
    BY DEF ArtifactsSound
  <2>1. n \in parseOwnedNames(disk, f) \/ disk[<<f, n>>] = None
    BY <1>2
  <2>2. None \notin Mades
    BY ManagedAssumption
  <2> QED BY <2>1, <2>2 DEF ArtifactSound, Claimed
<1>7. \A p \in GuidancePaths : p \notin RootFiles => disk[p] = None
  BY <1>2
<1>8. Tidy(disk)
  <2>1. ASSUME NEW p \in RootFiles PROVE At(disk, p).route = None /\ At(disk, p).legacy = "none" /\ ~At(disk, p).link
    <3>1. p \in GuidancePaths
      BY OtherPaths
    <3> QED BY <1>2, <3>1 DEF At, BlankFile
  <2>2. \A p \in GuidancePaths : ownedBytes(disk, p) = None
    BY <1>7, <2>1 DEF ownedBytes
  <2> QED BY <2>1, <2>2 DEF Tidy, replaceable
<1>9. \A k \in Packs : disk[Pack(k)] = None
  BY <1>7, OtherPaths
<1>10. disk[indexFile] = None
  BY <1>7, OtherPaths
<1>11. PacksClaimed(disk) /\ Whole(disk)
  BY <1>9, <1>10 DEF PacksClaimed, Whole
<1>12. Sound(disk, Context)
  <2>1. ArtifactsSound(disk, Context.tidy)
    BY <1>6 DEF ArtifactsSound, ArtifactSound
  <2> QED BY <2>1, <1>2, <1>5, <1>8, <1>11 DEF Sound, GuidanceSound, KeptSound
<1>13. NoRun.todo = <<>> /\ NoRun.ops = <<>> /\ NoRun.undo = {} /\ NoRun.said = {}
  BY DEF NoRun
<1>14. \A w \in Worktrees : RunTyped(run[w]) /\ RunSound(w, run[w], disk, Context)
  BY <1>1, <1>13, NoRunTyped, OverIsSound
<1>15. left \in [runs : Nat, faults : Nat, changes : Nat]
  BY <1>1, <1>2
<1>16. TypeOK
  BY <1>1, <1>2, <1>3, <1>4, <1>14, <1>15 DEF TypeOK, HooksTyped, RunTyped, RunIn
<1> QED BY <1>12, <1>14, <1>16 DEF Inv

-----------------------------------------------------------------------------
(* The hooks.                                                              *)

(* The bodies of a hook, spelt out.                                        *)
LEMMA BodiesAre ==
  ASSUME NEW d, NEW h
  PROVE  Bodies(d, h) = (IF Theirs(d[Hook(h)]) THEN {d[Hook(h)].by} ELSE {}) \cup (IF Theirs(d[Local(h)]) THEN {d[Local(h)].by} ELSE {})
BY DEF Bodies

HooksAt(d, e, h) == e[Hook(h)] = d[Hook(h)] /\ e[Local(h)] = d[Local(h)]

(* What is sound of a hook depends on its own paths.                       *)
LEMMA HookSoundAlike ==
  ASSUME NEW d, NEW e, NEW h, HooksAt(d, e, h), NEW B, NEW R, NEW t, HookSound(d, h, B, R, t)
  PROVE  HookSound(e, h, B, R, t)
<1>1. Bodies(e, h) = Bodies(d, h)
  BY BodiesAre DEF HooksAt
<1>2. Could(e, h) = Could(d, h)
  BY DEF HooksAt, Could
<1> QED BY <1>1, <1>2 DEF HookSound, HooksAt

(* So does what a run owes it.                                             *)
LEMMA RunHooksAlike ==
  ASSUME NEW d, NEW e, \A h \in HookNames : HooksAt(d, e, h), HookWanted(e) <=> HookWanted(d),
         NEW r, RunTyped(r), NEW t, RunHooks(r, d, t)
  PROVE  RunHooks(r, e, t)
<1>1. \A h \in HookNames : PlannedHook(r, h, d) => PlannedHook(r, h, e)
  BY DEF PlannedHook, HooksAt
<1>2. \A h \in HookNames : Settled(d, h) => Settled(e, h)
  BY DEF Settled, HooksAt
<1>3. r.part[1] = "hook" => r.part[2] \in HookNames
  BY HookOfPart
<1> QED BY <1>1, <1>2, <1>3 DEF RunHooks

(* And what a run has read of aiwf.yaml.                                   *)
LEMMA RunOrderAlike ==
  ASSUME NEW d, NEW e, HookWanted(e) <=> HookWanted(d), NEW r, RunOrder(r, d)
  PROVE  RunOrder(r, e)
BY DEF RunOrder

(* What an operation on a hook does to it.                                 *)
HookKeeps(d, e, h, B, R, t, r, s) ==
  /\ HookSound(e, h, B, R, t)
  /\ s.ops # <<>> => PlannedHook(s, h, e)
  /\ (h = "post-commit" => HookWanted(d)) /\ (s.ops = <<>> \/ Settled(d, h)) => Settled(e, h)

(* Sequences of three operations.                                          *)
LEMMA ThreeOps ==
  ASSUME NEW a, NEW b, NEW c
  PROVE  /\ Head(<<a, b, c>>) = a /\ Tail(<<a, b, c>>) = <<b, c>> /\ <<b, c>> # <<>>
         /\ Head(<<b, c>>) = b /\ Tail(<<b, c>>) = <<c>> /\ <<c>> # <<>> /\ Head(<<c>>) = c /\ Tail(<<c>>) = <<>>
OBVIOUS

(* Each operation of a hook's plan keeps its bodies, and in the end it     *)
(* runs.                                                                   *)
LEMMA HookOpKeeps ==
  ASSUME NEW d, NEW h \in HookNames, HooksTyped(d), NEW B, NEW R, NEW t, HookSound(d, h, B, R, t),
         NEW r, r.ops # <<>>, PlannedHook(r, h, d), HookDone(d, h, Head(r.ops)),
         r.cfg.auto <=> HookWanted(d), NEW s, s.ops = Tail(r.ops), s.cfg = r.cfg
  PROVE  HookKeeps(d, Effect(d, Head(r.ops)), h, B, R, t, r, s)
<1> DEFINE e == Effect(d, Head(r.ops))
           H == Hook(h)
           L == Local(h)
           a == move(H, L)
           b == chmod(L)
           c == put(H, hookScript)
           z == put(H, None)
<1>1. /\ Head(r.ops) = c => e[H] = hookScript /\ e[L] = d[L]
      /\ Head(r.ops) = z => e[H] = None /\ e[L] = d[L]
      /\ Head(r.ops) = a => e[H] = None /\ e[L] = d[H]
      /\ Head(r.ops) = b => e[H] = d[H] /\ e[L] = [d[L] EXCEPT !.x = TRUE]
  BY DEF HookDone
<1>2. \/ r.ops = <<a, b, c>> /\ Theirs(d[H]) /\ d[L] = None
      \/ r.ops = <<b, c>> /\ d[H] = None /\ Theirs(d[L])
      \/ r.ops = <<c>> /\ ~Theirs(d[H])
      \/ r.ops = <<z>> /\ Ours(d[H]) /\ h = "post-commit" /\ ~r.cfg.auto
  BY DEF PlannedHook
<1>3. /\ Ours(d[H]) => d[H] = hookScript
      /\ ~Ours(d[L])
      /\ B \subseteq Bodies(d, h) /\ R \subseteq Could(d, h)
      /\ t => ~(Theirs(d[H]) /\ d[L] # None)
  BY DEF HookSound
<1>4. hookScript # None /\ Ours(hookScript) /\ ~Theirs(hookScript) /\ ~Theirs(None) /\ ~Ours(None)
  <2>1. hookScript \in Scripts
    BY DEF hookScript, Scripts
  <2>2. hookScript # None
    BY <2>1, ManagedAssumption
  <2> QED BY <2>2 DEF Ours, Theirs, hookScript
<1>5. {d[H], d[L]} \subseteq {None} \cup Scripts
  BY DEF HooksTyped
<1> HIDE DEF e, H, L, a, b, c, z
<1>6. /\ Bodies(d, h) = (IF Theirs(d[H]) THEN {d[H].by} ELSE {}) \cup (IF Theirs(d[L]) THEN {d[L].by} ELSE {})
      /\ Bodies(e, h) = (IF Theirs(e[H]) THEN {e[H].by} ELSE {}) \cup (IF Theirs(e[L]) THEN {e[L].by} ELSE {})
  BY BodiesAre DEF H, L
<1>7. /\ Could(d, h) = IF Theirs(d[H]) THEN (IF d[H].x THEN {d[H].by} ELSE {})
                       ELSE IF d[L] # None /\ d[L].x THEN {d[L].by} ELSE {}
      /\ Could(e, h) = IF Theirs(e[H]) THEN (IF e[H].x THEN {e[H].by} ELSE {})
                       ELSE IF e[L] # None /\ e[L].x THEN {e[L].by} ELSE {}
  BY DEF Could, H, L
<1>8. /\ Settled(d, h) <=> Ours(d[H]) \/ (Theirs(d[H]) /\ d[L] # None)
      /\ Settled(e, h) <=> Ours(e[H]) \/ (Theirs(e[H]) /\ e[L] # None)
  BY DEF Settled, H, L
<1>9. ASSUME Ours(e[H]) => e[H] = hookScript, ~Ours(e[L]), B \subseteq Bodies(e, h), R \subseteq Could(e, h), ~Theirs(e[H])
      PROVE  HookSound(e, h, B, R, t)
  BY <1>9 DEF HookSound, H, L
<1>10. ASSUME \/ s.ops = <<b, c>> /\ e[H] = None /\ Theirs(e[L])
              \/ s.ops = <<c>> /\ ~Theirs(e[H])
       PROVE  PlannedHook(s, h, e)
  BY <1>10 DEF PlannedHook, H, L, b, c
<1>11. CASE r.ops = <<a, b, c>> /\ Theirs(d[H]) /\ d[L] = None
  <2>1. Head(r.ops) = a /\ s.ops = <<b, c>> /\ s.ops # <<>>
    BY <1>11, ThreeOps
  <2>2. e[H] = None /\ e[L] = d[H]
    BY <1>1, <2>1
  <2>3. HookSound(e, h, B, R, t)
    <3>1. ~Ours(e[L]) /\ Theirs(e[L]) /\ e[L] # None
      BY <1>11, <2>2 DEF Ours, Theirs
    <3>2. Bodies(e, h) = Bodies(d, h) /\ Could(e, h) = Could(d, h)
      BY <1>4, <1>6, <1>7, <1>11, <2>2, <3>1
    <3> QED BY <1>3, <1>4, <1>9, <2>2, <3>1, <3>2
  <2>4. PlannedHook(s, h, e)
    BY <1>10, <1>11, <2>1, <2>2
  <2>5. ~Settled(d, h)
    BY <1>8, <1>11 DEF Ours, Theirs
  <2> QED BY <2>1, <2>3, <2>4, <2>5 DEF HookKeeps, e
<1>12. CASE r.ops = <<b, c>> /\ d[H] = None /\ Theirs(d[L])
  <2>1. Head(r.ops) = b /\ s.ops = <<c>> /\ s.ops # <<>>
    BY <1>12, ThreeOps
  <2>2. e[H] = None /\ e[L] = [d[L] EXCEPT !.x = TRUE]
    BY <1>1, <1>12, <2>1
  <2>3. HookSound(e, h, B, R, t)
    <3>1. d[L] \in Scripts
      BY <1>5, <1>12 DEF Theirs
    <3>2. e[L] \in Scripts /\ e[L].by = d[L].by /\ e[L].x = TRUE
      BY <2>2, <3>1 DEF Scripts
    <3>3. e[L] # None /\ Theirs(e[L]) /\ ~Ours(e[L])
      BY <1>12, <3>2, ManagedAssumption DEF Ours, Theirs
    <3>4. Bodies(e, h) = Bodies(d, h) /\ Could(d, h) \subseteq Could(e, h)
      BY <1>4, <1>6, <1>7, <1>12, <2>2, <3>2, <3>3
    <3> QED BY <1>3, <1>4, <1>9, <2>2, <3>3, <3>4
  <2>4. PlannedHook(s, h, e)
    BY <1>4, <1>10, <2>1, <2>2
  <2>5. ~Settled(d, h)
    BY <1>4, <1>8, <1>12
  <2> QED BY <2>1, <2>3, <2>4, <2>5 DEF HookKeeps, e
<1>13. CASE r.ops = <<c>> /\ ~Theirs(d[H])
  <2>1. Head(r.ops) = c /\ s.ops = <<>>
    BY <1>13, ThreeOps
  <2>2. e[H] = hookScript /\ e[L] = d[L]
    BY <1>1, <2>1
  <2>3. HookSound(e, h, B, R, t)
    <3>1. Bodies(e, h) = Bodies(d, h) /\ Could(e, h) = Could(d, h)
      BY <1>4, <1>6, <1>7, <1>13, <2>2
    <3> QED BY <1>3, <1>4, <1>9, <2>2, <3>1
  <2>4. Settled(e, h)
    BY <1>4, <1>8, <2>2
  <2> QED BY <2>1, <2>3, <2>4 DEF HookKeeps, e
<1>14. CASE r.ops = <<z>> /\ Ours(d[H]) /\ h = "post-commit" /\ ~r.cfg.auto
  <2>1. Head(r.ops) = z /\ s.ops = <<>>
    BY <1>14, ThreeOps
  <2>2. e[H] = None /\ e[L] = d[L]
    BY <1>1, <2>1
  <2>3. HookSound(e, h, B, R, t)
    <3>0. ~Theirs(d[H])
      BY <1>14 DEF Ours, Theirs
    <3>1. Bodies(e, h) = Bodies(d, h) /\ Could(e, h) = Could(d, h)
      BY <1>4, <1>6, <1>7, <2>2, <3>0
    <3> QED BY <1>3, <1>4, <1>9, <2>2, <3>1
  <2>4. ~HookWanted(d)
    BY <1>14
  <2> QED BY <1>14, <2>1, <2>3, <2>4 DEF HookKeeps, e
<1> QED BY <1>2, <1>11, <1>12, <1>13, <1>14

(* A migration and the new script.                                         *)
LEMMA TwoAndOne ==
  ASSUME NEW a, NEW b, NEW c
  PROVE  <<a, b>> \o <<c>> = <<a, b, c>>
<1> DEFINE S == {a, b, c}
           p == <<a, b>>
           q == <<c>>
           r == <<a, b, c>>
<1>1. p \in Seq(S) /\ q \in Seq(S) /\ r \in Seq(S) /\ Len(p) = 2 /\ Len(q) = 1 /\ Len(r) = 3
      /\ p[1] = a /\ p[2] = b /\ q[1] = c /\ r[1] = a /\ r[2] = b /\ r[3] = c
  OBVIOUS
<1> HIDE DEF S, p, q, r
<1>2. p \o q \in Seq(S) /\ Len(p \o q) = 3 /\ (p \o q)[1] = p[1] /\ (p \o q)[2] = p[2] /\ (p \o q)[3] = q[1]
  <2>1. p \o q \in Seq(S) /\ Len(p \o q) = Len(p) + Len(q)
        /\ \A i \in 1..Len(p) + Len(q) : (p \o q)[i] = IF i <= Len(p) THEN p[i] ELSE q[i - Len(p)]
    BY <1>1, ConcatProperties
  <2>2. 1 \in 1..3 /\ 2 \in 1..3 /\ 3 \in 1..3 /\ 1 <= 2 /\ 2 <= 2 /\ ~(3 <= 2) /\ 3 - 2 = 1 /\ 2 + 1 = 3
    OBVIOUS
  <2> QED BY <1>1, <2>1, <2>2
<1>3. \A i \in 1..3 : (p \o q)[i] = r[i]
  BY <1>1, <1>2
<1>4. p \o q = r
  BY <1>1, <1>2, <1>3, SeqEqual
<1> QED BY <1>4 DEF p, q, r

(* The plan of a hook's stage.                                             *)
LEMMA HookPlanned ==
  ASSUME NEW d, NEW h \in HookNames, NEW r, NEW s, s.ops = ensureHook(d, h, r.cfg).ops, s.cfg = r.cfg, r.cfg.auto <=> HookWanted(d)
  PROVE  /\ s.ops # <<>> => PlannedHook(s, h, d)
         /\ s.ops = <<>> /\ (h = "post-commit" => HookWanted(d)) => Settled(d, h)
         /\ ensureHook(d, h, r.cfg).err # "conflict" \/ (Theirs(d[Hook(h)]) /\ d[Local(h)] # None)
<1> DEFINE p == ensureHook(d, h, r.cfg)
           a == move(Hook(h), Local(h))
           b == chmod(Local(h))
           c == put(Hook(h), hookScript)
           z == put(Hook(h), None)
<1>1. \/ /\ h = "post-commit" /\ ~r.cfg.auto
         /\ p = Steps(IF Ours(d[Hook(h)]) THEN <<z>> ELSE <<>>)
      \/ ~Theirs(d[Hook(h)]) /\ p = Steps(<<c>>)
      \/ Theirs(d[Hook(h)]) /\ d[Local(h)] # None /\ p = Refuse("conflict")
      \/ Theirs(d[Hook(h)]) /\ d[Local(h)] = None /\ p = Steps(<<a, b>> \o <<c>>)
  BY DEF ensureHook, ensurePostCommitHook, ensurePreHook, migrateHookToLocal, del
<1> HIDE DEF p, a, b, c, z
<1>2. \A q : Steps(q).ops = q /\ Steps(q).err = ""
  BY DEF Steps
<1>3. Refuse("conflict").ops = <<>>
  BY DEF Refuse
<1>4. <<a, b>> \o <<c>> = <<a, b, c>>
  BY TwoAndOne
<1>5. s.ops = p.ops
  BY DEF p
<1>6. <<z>> # <<>> /\ <<c>> # <<>> /\ <<a, b, c>> # <<>> /\ "" # "conflict"
  OBVIOUS
<1>7. CASE h = "post-commit" /\ ~r.cfg.auto /\ p = Steps(IF Ours(d[Hook(h)]) THEN <<z>> ELSE <<>>)
  <2>1. p.err # "conflict" /\ ~HookWanted(d) /\ s.ops = IF Ours(d[Hook(h)]) THEN <<z>> ELSE <<>>
    BY <1>2, <1>5, <1>6, <1>7
  <2>2. s.ops # <<>> => PlannedHook(s, h, d)
    BY <1>7, <2>1 DEF PlannedHook, z
  <2> QED BY <1>7, <2>1, <2>2 DEF p
<1>8. CASE ~Theirs(d[Hook(h)]) /\ p = Steps(<<c>>)
  <2>1. p.err # "conflict" /\ s.ops = <<c>> /\ s.ops # <<>>
    BY <1>2, <1>5, <1>6, <1>8
  <2>2. PlannedHook(s, h, d)
    BY <1>8, <2>1 DEF PlannedHook, c
  <2> QED BY <2>1, <2>2 DEF p
<1>9. CASE Theirs(d[Hook(h)]) /\ d[Local(h)] # None /\ p = Refuse("conflict")
  <2>1. s.ops = <<>>
    BY <1>3, <1>5, <1>9
  <2>2. Settled(d, h)
    BY <1>9 DEF Settled
  <2> QED BY <1>9, <2>1, <2>2
<1>10. CASE Theirs(d[Hook(h)]) /\ d[Local(h)] = None /\ p = Steps(<<a, b>> \o <<c>>)
  <2>1. p.err # "conflict" /\ s.ops = <<a, b, c>> /\ s.ops # <<>>
    BY <1>2, <1>4, <1>5, <1>6, <1>10
  <2>2. PlannedHook(s, h, d)
    BY <1>10, <2>1 DEF PlannedHook, a, b, c
  <2> QED BY <2>1, <2>2 DEF p
<1> QED BY <1>1, <1>7, <1>8, <1>9, <1>10

(* A hook passed after a stage that is not its own was passed before.      *)
LEMMA NextStage ==
  ASSUME NEW r, RunTyped(r), r.todo # <<>>, r.ops = <<>>, NEW s, s.todo = Tail(r.todo), s.result = r.result,
         NEW h, PassedHook(s, h), Head(r.todo) # <<"hook", h>>
  PROVE  PassedHook(r, h)
<1> DEFINE k == <<"hook", h>>
<1>1. s.result \in {"running", "done", "findings"} /\ \A i \in 1..Len(s.todo) : s.todo[i] # k
  BY DEF PassedHook
<1>2. Head(r.todo) = r.todo[1] /\ \A i \in 1..Len(r.todo) : i = 1 \/ (i - 1 \in 1..Len(Tail(r.todo)) /\ r.todo[i] = Tail(r.todo)[i - 1])
  BY StageQueue
<1> HIDE DEF k
<1>3. ASSUME NEW i \in 1..Len(r.todo) PROVE r.todo[i] # k
  <2>1. CASE i = 1
    BY <1>2, <2>1 DEF k
  <2>2. CASE i # 1
    <3>1. i - 1 \in 1..Len(Tail(r.todo)) /\ r.todo[i] = Tail(r.todo)[i - 1]
      BY <1>2, <2>2
    <3>2. Tail(r.todo)[i - 1] # k
      BY <1>1, <3>1
    <3> QED BY <3>1, <3>2
  <2> QED BY <2>1, <2>2
<1> QED BY <1>1, <1>3 DEF PassedHook, k

(* The registry's stage stays the last.                                    *)
LEMMA RegistryLastTail ==
  ASSUME NEW r, RunTyped(r), r.todo # <<>>, RegistryLast(r.todo)
  PROVE  RegistryLast(Tail(r.todo)) /\ (Head(r.todo)[1] = "registry" => \A i \in 1..Len(r.todo) : r.todo[i] = Head(r.todo))
<1>1. /\ Head(r.todo) = r.todo[1] /\ Len(r.todo) \in Nat \ {0} /\ Len(Tail(r.todo)) = Len(r.todo) - 1 /\ 1 \in 1..Len(r.todo)
      /\ \A i \in 1..Len(Tail(r.todo)) : Tail(r.todo)[i] = r.todo[i + 1] /\ i + 1 \in 1..Len(r.todo)
  BY StageQueue
<1>2. RegistryLast(Tail(r.todo))
  <2> SUFFICES ASSUME NEW i \in 1..Len(Tail(r.todo)), Tail(r.todo)[i][1] = "registry" PROVE i = Len(Tail(r.todo))
    BY DEF RegistryLast
  <2>1. r.todo[i + 1][1] = "registry" /\ i + 1 \in 1..Len(r.todo)
    BY <1>1
  <2>2. i + 1 = Len(r.todo)
    BY <2>1 DEF RegistryLast
  <2> QED BY <1>1, <2>2
<1>3. ASSUME Head(r.todo)[1] = "registry", NEW i \in 1..Len(r.todo) PROVE r.todo[i] = Head(r.todo)
  <2>1. 1 = Len(r.todo)
    BY <1>1, <1>3 DEF RegistryLast
  <2> DEFINE n == Len(r.todo)
  <2>4. i \in 1..n /\ n = 1
    BY <2>1
  <2> HIDE DEF n
  <2>2. i = 1
    BY <2>4
  <2>3. Head(r.todo) = r.todo[1]
    BY <1>1
  <2> QED BY <2>2, <2>3
<1> QED BY <1>2, <1>3

(* A run that goes on, or ends, without a hook's plan.                     *)
LEMMA NoHookPlan ==
  ASSUME NEW r, NEW s, NEW d, NEW t, s.part[1] # "hook" \/ s.ops = <<>>, t => "conflict" \notin s.said,
         \A h \in HookNames : PassedHook(s, h) /\ (h = "post-commit" => HookWanted(d)) => Settled(d, h)
  PROVE  RunHooks(s, d, t)
BY DEF RunHooks

(* A run keeps what it has read until the registry's stage.                *)
LEMMA OrderKept ==
  ASSUME NEW r, NEW d, RunOrder(r, d), NEW s, s.cfg = r.cfg, r.result # "", RegistryLast(s.todo)
  PROVE  RunOrder(s, d)
BY DEF RunOrder, RegistryLast

(* Nothing has the registry's stage last.                                  *)
LEMMA NothingLast == RegistryLast(<<>>)
<1>1. \A i \in 1..Len(<<>>) : FALSE
  OBVIOUS
<1> QED BY <1>1 DEF RegistryLast

(* Beginning a stage plans the hooks as their files are.                   *)
LEMMA BeginHooks ==
  ASSUME NEW w \in Worktrees, NEW d, NEW c, NEW rev, NEW r, RunTyped(r), RunSound(w, r, d, c), r.ops = <<>>, r.todo # <<>>,
         PlanFits(w, d, PlanOf(d, rev, r, Head(r.todo)), Head(r.todo), c, r.cfg),
         NEW s, Begun(r, s, PlanOf(d, rev, r, Head(r.todo)), Head(r.todo)), RunOrder(r, d)
  PROVE  /\ RunOrder(s, d)
         /\ \A t : (\A h \in HookNames : t => ~(Theirs(d[Hook(h)]) /\ d[Local(h)] # None)) /\ RunHooks(r, d, t) => RunHooks(s, d, t)
<1> DEFINE stage == Head(r.todo)
           plan == PlanOf(d, rev, r, stage)
<1>1. r.result = "running" /\ r.cfg \in Configs /\ r.cfg # None
  BY ManagedAssumption DEF RunSound, Busy
<1>2. stage \in Stages /\ stage = r.todo[1]
  BY StageQueue
<1>3. RegistryLast(r.todo) /\ (r.cfg.auto <=> HookWanted(d))
  BY <1>1 DEF RunOrder, RegistryLast
<1>4. RegistryLast(Tail(r.todo)) /\ (stage[1] = "registry" => \A i \in 1..Len(r.todo) : r.todo[i] = stage)
  BY <1>3, RegistryLastTail
<1>5. PlanFits(w, d, plan, stage, c, r.cfg) /\ Begun(r, s, plan, stage)
  OBVIOUS
<1>6. stage[1] = "hook" => stage = <<"hook", stage[2]>> /\ stage[2] \in HookNames
  <2> HIDE DEF stage
  <2>1. ASSUME stage[1] = "hook" PROVE stage \in {"hook"} \X HookNames
    BY <1>2, <2>1 DEF Stages
  <2> QED BY <2>1
<1>7. stage[1] = "hook" => plan = ensureHook(d, stage[2], r.cfg)
  BY DEF PlanOf
<1> HIDE DEF stage, plan
<1>8. /\ plan.err \in {"", "abort", "blocked", "conflict"} /\ (stage[1] # "hook" => plan.err # "conflict")
  BY <1>5 DEF PlanFits
<1>9. RunOrder(s, d)
  <2>1. s.cfg = r.cfg /\ (s.todo = <<>> \/ s.todo = Tail(r.todo))
    BY <1>5 DEF Begun, Later
  <2>2. RegistryLast(s.todo)
    BY <1>4, <2>1, NothingLast
  <2>3. r.result # ""
    BY <1>1
  <2> QED BY <2>1, <2>2, <2>3, OrderKept
<1>10. ASSUME NEW t, \A h \in HookNames : t => ~(Theirs(d[Hook(h)]) /\ d[Local(h)] # None), RunHooks(r, d, t)
       PROVE  RunHooks(s, d, t)
  <2>1. /\ \A h \in HookNames : PassedHook(r, h) /\ (h = "post-commit" => HookWanted(d)) => Settled(d, h)
        /\ t => "conflict" \notin r.said
    BY <1>10 DEF RunHooks
  <2>2. CASE Later(r, s, <<>>, <<>>, {}, <<"", "">>, r.said \cup {"refused"}, "failed")
    <3>1. s.ops = <<>> /\ s.said = r.said \cup {"refused"} /\ s.result = "failed"
      BY <2>2 DEF Later
    <3>2. \A h : ~PassedHook(s, h)
      BY <3>1 DEF PassedHook
    <3> QED BY <2>1, <3>1, <3>2, NoHookPlan
  <2>3. CASE stage[1] = "registry" /\ "conflict" \in r.said /\ Later(r, s, <<>>, <<>>, {}, <<"", "">>, r.said, "findings")
    <3>1. s.ops = <<>> /\ s.said = r.said
      BY <2>3 DEF Later
    <3>2. ASSUME NEW h \in HookNames PROVE PassedHook(r, h)
      <4>1. <<"hook", h>>[1] = "hook"
        OBVIOUS
      <4>2. \A i \in 1..Len(r.todo) : r.todo[i] # <<"hook", h>>
        BY <1>4, <2>3, <4>1
      <4> QED BY <1>1, <4>2 DEF PassedHook
    <3> QED BY <2>1, <3>1, <3>2, NoHookPlan
  <2>4. CASE plan.err # "abort" /\ Later(r, s, Tail(r.todo), plan.ops, plan.undo, stage, r.said \cup ({plan.err} \ {""}), r.result)
    <3>1. /\ s.todo = Tail(r.todo) /\ s.ops = plan.ops /\ s.part = stage /\ s.said = r.said \cup ({plan.err} \ {""})
          /\ s.result = r.result /\ s.cfg = r.cfg
      BY <2>4 DEF Later
    <3>2. \A h : PassedHook(s, h) /\ stage # <<"hook", h>> => PassedHook(r, h)
      BY <3>1, NextStage DEF stage
    <3>3. CASE stage[1] # "hook"
      <4>1. \A h : stage # <<"hook", h>>
        <5>1. \A h : <<"hook", h>>[1] = "hook"
          OBVIOUS
        <5> QED BY <3>3, <5>1
      <4>2. t => "conflict" \notin s.said
        BY <1>8, <2>1, <3>1, <3>3
      <4>3. s.part[1] # "hook"
        BY <3>1, <3>3
      <4> QED BY <2>1, <3>2, <4>1, <4>2, <4>3, NoHookPlan
    <3>4. CASE stage[1] = "hook"
      <4> DEFINE k == stage[2]
      <4>1. k \in HookNames /\ plan = ensureHook(d, k, r.cfg) /\ stage = <<"hook", k>> /\ s.part[1] = "hook" /\ s.part[2] = k
        BY <1>6, <1>7, <3>1, <3>4
      <4> HIDE DEF k
      <4>2. s.ops = ensureHook(d, k, r.cfg).ops
        BY <3>1, <4>1
      <4>3. /\ s.ops # <<>> => PlannedHook(s, k, d)
            /\ s.ops = <<>> /\ (k = "post-commit" => HookWanted(d)) => Settled(d, k)
            /\ ensureHook(d, k, r.cfg).err # "conflict" \/ (Theirs(d[Hook(k)]) /\ d[Local(k)] # None)
        BY <1>3, <3>1, <4>1, <4>2, HookPlanned
      <4>4. ASSUME NEW h \in HookNames, PassedHook(s, h), h = "post-commit" => HookWanted(d) PROVE Settled(d, h)
        <5>1. CASE h = k
          <6>1. s.ops = <<>>
            BY <3>1, <4>1, <4>4, <5>1 DEF PassedHook
          <6> QED BY <4>3, <4>4, <5>1, <6>1
        <5>2. CASE h # k
          <6>1. <<"hook", h>> # <<"hook", k>>
            BY <5>2
          <6> QED BY <2>1, <3>2, <4>1, <4>4, <6>1
        <5> QED BY <5>1, <5>2
      <4>5. t => "conflict" \notin s.said
        <5>1. t => plan.err # "conflict"
          BY <1>10, <4>1, <4>3
        <5> QED BY <2>1, <3>1, <5>1
      <4> QED BY <4>1, <4>3, <4>4, <4>5 DEF RunHooks
    <3> QED BY <3>3, <3>4
  <2> QED BY <1>5, <2>2, <2>3, <2>4 DEF Begun
<1> QED BY <1>9, <1>10

HooksFrame(w) ==
  /\ \A o \in Worktrees \ {w} : run'[o] = run[o]
  /\ UNCHANGED <<bodies, ran, meddled, raced>>

(* A step that leaves the hooks' files alone keeps HooksInv.               *)
LEMMA HooksStep ==
  ASSUME Inv, HooksInv, NEW w \in Worktrees, HooksFrame(w),
         \A p \in HookPaths : disk'[p] = disk[p], HookWanted(disk') <=> HookWanted(disk),
         RunOrder(run'[w], disk'), ~raced => RunHooks(run'[w], disk', ~meddled)
  PROVE  HooksInv'
<1>1. \A h \in HookNames : HooksAt(disk, disk', h)
  BY HookPathsDiffer DEF HooksAt
<1>2. \A o \in Worktrees : RunTyped(run[o])
  BY InvParts
<1>3. \A o \in Worktrees : RunOrder(run'[o], disk')
  <2> SUFFICES ASSUME NEW o \in Worktrees \ {w} PROVE RunOrder(run'[o], disk')
    OBVIOUS
  <2>1. RunOrder(run[o], disk) /\ run'[o] = run[o]
    BY DEF HooksInv, HooksFrame
  <2> QED BY <2>1, RunOrderAlike
<1>4. ASSUME ~raced, NEW h \in HookNames PROVE HookSound(disk', h, bodies[h], ran[h], ~meddled)
  <2>1. HookSound(disk, h, bodies[h], ran[h], ~meddled)
    BY <1>4 DEF HooksInv
  <2> QED BY <1>1, <2>1, HookSoundAlike
<1>5. ASSUME ~raced, NEW o \in Worktrees \ {w} PROVE RunHooks(run'[o], disk', ~meddled)
  <2>1. RunHooks(run[o], disk, ~meddled) /\ run'[o] = run[o]
    BY <1>5 DEF HooksInv, HooksFrame
  <2>2. RunHooks(run[o], disk', ~meddled)
    BY <1>1, <1>2, <2>1, RunHooksAlike
  <2> QED BY <2>1, <2>2
<1>6. raced' = raced /\ meddled' = meddled /\ bodies' = bodies /\ ran' = ran
  BY DEF HooksFrame
<1> QED BY <1>3, <1>4, <1>5, <1>6 DEF HooksInv

(* What a step of one worktree leaves to the others.                       *)
LEMMA FrameOf ==
  ASSUME Inv, NEW w \in Worktrees, NEW s, run' = [run EXCEPT ![w] = s], UNCHANGED <<bodies, ran, meddled, raced>>
  PROVE  HooksFrame(w)
<1>1. run = [o \in Worktrees |-> run[o]]
  BY InvParts
<1> QED BY <1>1 DEF HooksFrame

(* What the hooks' invariant says of one run.                              *)
LEMMA HooksParts ==
  ASSUME Inv, HooksInv, NEW w \in Worktrees
  PROVE  /\ RunTyped(run[w]) /\ RunOrder(run[w], disk) /\ RunSound(w, run[w], disk, Context)
         /\ ~raced => RunHooks(run[w], disk, ~meddled) /\ \A h \in HookNames : HookSound(disk, h, bodies[h], ran[h], ~meddled)
         /\ Busy(run[w]) => run[w].result = "running" /\ run[w].cfg # None
         /\ run[w].cfg # None => (run[w].cfg.auto <=> HookWanted(disk))
         /\ RegistryLast(run[w].todo)
<1>1. RunTyped(run[w]) /\ RunSound(w, run[w], disk, Context)
  BY InvParts
<1>2. RunOrder(run[w], disk)
  BY DEF HooksInv
<1>3. ~raced => RunHooks(run[w], disk, ~meddled) /\ \A h \in HookNames : HookSound(disk, h, bodies[h], ran[h], ~meddled)
  BY DEF HooksInv
<1>4. Busy(run[w]) => run[w].result = "running" /\ run[w].cfg # None
  BY <1>1, ManagedAssumption DEF RunSound
<1>5. RegistryLast(run[w].todo) /\ (run[w].cfg # None => (run[w].cfg.auto <=> HookWanted(disk)))
  BY <1>2 DEF RunOrder, RegistryLast
<1> QED BY <1>1, <1>2, <1>3, <1>4, <1>5

(* Starting keeps HooksInv.                                                *)
LEMMA StartHooks ==
  ASSUME Inv, HooksInv, NEW w \in Worktrees, NEW kind \in {"init", "update"}, NEW v \in play.versions, NEW answer \in play.answers,
         Start(w, kind, v, answer)
  PROVE  HooksInv'
<1> DEFINE s == run'[w]
<1>1. UNCHANGED disk /\ s.ops = <<>> /\ s.said = {} /\ s.result = "running" /\ s.part = <<"", "">>
      /\ RegistryLast(s.todo) /\ (\A h \in HookNames : Contains(s.todo, <<"hook", h>>))
      /\ s.cfg \in Configs /\ s.cfg = IF disk[Yaml] = None THEN DefaultConfig ELSE disk[Yaml]
  BY StartInv
<1>2. HooksFrame(w)
  BY FrameOf DEF Start
<1> HIDE DEF s
<1> DEFINE x == s.cfg
<1>3. x.auto <=> HookWanted(disk)
  <2>1. x = IF disk[Yaml] = None THEN DefaultConfig ELSE disk[Yaml]
    BY <1>1
  <2>2. DefaultConfig.auto = TRUE
    BY DEF DefaultConfig
  <2> HIDE DEF x
  <2>3. CASE disk[Yaml] = None
    <3>1. x = DefaultConfig
      BY <2>1, <2>3
    <3> QED BY <2>2, <2>3, <3>1 DEF HookWanted
  <2>4. CASE disk[Yaml] # None
    <3>1. x = disk[Yaml]
      BY <2>1, <2>4
    <3> QED BY <2>4, <3>1 DEF HookWanted
  <2> QED BY <2>3, <2>4
<1>4. RunOrder(s, disk')
  BY <1>1, <1>3, ManagedAssumption DEF RunOrder, RegistryLast
<1>5. ASSUME NEW h \in HookNames PROVE ~PassedHook(s, h)
  BY <1>1 DEF PassedHook, Contains
<1>6. RunHooks(s, disk', ~meddled)
  BY <1>1, <1>5, NoHookPlan
<1> QED BY <1>1, <1>2, <1>4, <1>6, HooksStep DEF s

(* Beginning a stage keeps HooksInv.                                       *)
LEMMA BeginKeepsHooks ==
  ASSUME Inv, HooksInv, NEW w \in Worktrees, Begin(w)
  PROVE  HooksInv'
<1> DEFINE r == run[w]
           s == run'[w]
<1>1. /\ UNCHANGED disk
      /\ PlanFits(w, disk, PlanOf(disk, upstream, r, Head(r.todo)), Head(r.todo), Context, r.cfg)
      /\ Begun(r, s, PlanOf(disk, upstream, r, Head(r.todo)), Head(r.todo))
  BY BeginInv
<1>2. HooksFrame(w)
  BY FrameOf DEF Begin
<1>3. /\ RunTyped(r) /\ RunOrder(r, disk) /\ RunSound(w, r, disk, Context)
      /\ ~raced => RunHooks(r, disk, ~meddled) /\ \A h \in HookNames : HookSound(disk, h, bodies[h], ran[h], ~meddled)
  BY HooksParts
<1>4. r.ops = <<>> /\ r.todo # <<>>
  BY DEF Begin
<1> HIDE DEF r, s
<1>5. /\ RunOrder(s, disk)
      /\ \A t : (\A h \in HookNames : t => ~(Theirs(disk[Hook(h)]) /\ disk[Local(h)] # None)) /\ RunHooks(r, disk, t) => RunHooks(s, disk, t)
  BY <1>1, <1>3, <1>4, BeginHooks
<1>6. ~raced => RunHooks(s, disk, ~meddled)
  <2> DEFINE t == ~meddled
  <2>1. ~raced => RunHooks(r, disk, t) /\ \A h \in HookNames : t => ~(Theirs(disk[Hook(h)]) /\ disk[Local(h)] # None)
    BY <1>3 DEF HookSound
  <2>2. (\A h \in HookNames : t => ~(Theirs(disk[Hook(h)]) /\ disk[Local(h)] # None)) /\ RunHooks(r, disk, t) => RunHooks(s, disk, t)
    BY <1>5
  <2> QED BY <2>1, <2>2
<1> QED BY <1>1, <1>2, <1>5, <1>6, HooksStep DEF s

(* An unreachable catalogue keeps HooksInv.                                *)
LEMMA UnreachableHooks ==
  ASSUME Inv, HooksInv, NEW w \in Worktrees, Unreachable(w)
  PROVE  HooksInv'
<1> DEFINE r == run[w]
           s == run'[w]
<1>1. UNCHANGED disk /\ Later(r, s, Tail(r.todo), <<>>, r.undo, r.part, r.said \cup {"unreachable"}, r.result)
  BY UnreachableInv
<1>2. HooksFrame(w)
  <2>1. \A o \in Worktrees \ {w} : run'[o] = run[o]
    BY InvParts DEF Unreachable
  <2> QED BY <2>1 DEF HooksFrame, Unreachable
<1>3. /\ RunTyped(r) /\ RunOrder(r, disk) /\ RegistryLast(r.todo)
      /\ (~raced => RunHooks(r, disk, ~meddled)) /\ (Busy(r) => r.result = "running")
  BY HooksParts
<1>4. r.ops = <<>> /\ r.todo # <<>> /\ Head(r.todo)[1] = "guidance"
  BY DEF Unreachable
<1> HIDE DEF r, s
<1>5. s.todo = Tail(r.todo) /\ s.ops = <<>> /\ s.result = r.result /\ s.said = r.said \cup {"unreachable"} /\ s.cfg = r.cfg
  BY <1>1 DEF Later
<1>6. RunOrder(s, disk)
  <2>1. RegistryLast(s.todo)
    BY <1>3, <1>4, <1>5, RegistryLastTail
  <2>2. r.result # ""
    BY <1>3, <1>4 DEF Busy
  <2> QED BY <1>3, <1>5, <2>1, <2>2, OrderKept
<1>7. ASSUME NEW h \in HookNames, PassedHook(s, h) PROVE PassedHook(r, h)
  <2>1. <<"hook", h>>[1] = "hook"
    OBVIOUS
  <2>2. Head(r.todo) # <<"hook", h>>
    BY <1>4, <2>1
  <2> QED BY <1>3, <1>4, <1>5, <1>7, <2>2, NextStage
<1>8. ASSUME ~raced PROVE RunHooks(s, disk, ~meddled)
  <2> DEFINE t == ~meddled
  <2>1. RunHooks(r, disk, t)
    BY <1>3, <1>8
  <2> HIDE DEF t
  <2>2. t => "conflict" \notin s.said
    BY <1>5, <2>1 DEF RunHooks
  <2>3. \A h \in HookNames : PassedHook(s, h) /\ (h = "post-commit" => HookWanted(disk)) => Settled(disk, h)
    BY <1>7, <2>1 DEF RunHooks
  <2>4. RunHooks(s, disk, t)
    BY <1>5, <2>2, <2>3, NoHookPlan
  <2> QED BY <2>4 DEF t
<1> QED BY <1>1, <1>2, <1>6, <1>8, HooksStep DEF s

(* A run that is over for good.                                            *)
LEMMA BrokenOff ==
  ASSUME NEW r, NEW s, NEW d, NEW z \in {"failed", "crashed"}, Later(r, s, <<>>, <<>>, {}, <<"", "">>, r.said, z),
         RunOrder(r, d), r.result # "", NEW t, NEW e, HookWanted(e) <=> HookWanted(d)
  PROVE  RunOrder(s, e) /\ (RunHooks(r, d, t) => RunHooks(s, e, t))
<1>1. s.todo = <<>> /\ s.ops = <<>> /\ s.said = r.said /\ s.result = z /\ s.cfg = r.cfg
  BY DEF Later
<1>2. RunOrder(s, d)
  BY <1>1, NothingLast, OrderKept
<1>3. RunOrder(s, e)
  BY <1>2, RunOrderAlike
<1>4. \A h : ~PassedHook(s, h)
  BY <1>1 DEF PassedHook
<1>5. ASSUME RunHooks(r, d, t) PROVE RunHooks(s, e, t)
  <2>1. t => "conflict" \notin s.said
    BY <1>1, <1>5 DEF RunHooks
  <2> QED BY <1>1, <1>4, <2>1, NoHookPlan
<1> QED BY <1>3, <1>5

(* A death keeps HooksInv.                                                 *)
LEMMA CrashHooks ==
  ASSUME Inv, HooksInv, NEW w \in Worktrees, Crash(w)
  PROVE  HooksInv'
<1> DEFINE r == run[w]
           s == run'[w]
           t == ~meddled
<1>1. UNCHANGED disk /\ Later(r, s, <<>>, <<>>, {}, <<"", "">>, r.said, "crashed")
  BY CrashInv
<1>2. HooksFrame(w)
  BY FrameOf DEF Crash
<1>3. RunOrder(r, disk) /\ (~raced => RunHooks(r, disk, t)) /\ (Busy(r) => r.result = "running")
  BY HooksParts
<1>4. Busy(r)
  BY DEF Crash, Idle, Busy
<1> HIDE DEF r, s, t
<1>5. r.result # "" /\ "crashed" \in {"failed", "crashed"}
  BY <1>3, <1>4
<1>6. RunOrder(s, disk) /\ (RunHooks(r, disk, t) => RunHooks(s, disk, t))
  BY <1>1, <1>3, <1>5, BrokenOff
<1>7. ~raced => RunHooks(s, disk, ~meddled)
  BY <1>3, <1>6 DEF t
<1> QED BY <1>1, <1>2, <1>6, <1>7, HooksStep DEF s

(* Finishing keeps HooksInv.                                               *)
LEMMA FinishHooks ==
  ASSUME Inv, HooksInv, NEW w \in Worktrees, Finish(w)
  PROVE  HooksInv'
<1> DEFINE r == run[w]
           s == run'[w]
           t == ~meddled
<1>1. UNCHANGED disk /\ \E z \in {"done", "findings"} : Later(r, s, r.todo, r.ops, r.undo, r.part, r.said, z)
  BY FinishInv
<1>2. HooksFrame(w)
  <2>1. \A o \in Worktrees \ {w} : run'[o] = run[o]
    BY InvParts DEF Finish
  <2> QED BY <2>1 DEF HooksFrame, Finish
<1>3. RunOrder(r, disk) /\ (~raced => RunHooks(r, disk, t)) /\ RegistryLast(r.todo)
  BY HooksParts
<1>4. r.result = "running" /\ r.ops = <<>>
  BY DEF Finish, Idle
<1> HIDE DEF r, s, t
<1>5. s.todo = r.todo /\ s.ops = r.ops /\ s.part = r.part /\ s.said = r.said /\ s.cfg = r.cfg
  BY <1>1 DEF Later
<1>6. RunOrder(s, disk)
  BY <1>3, <1>4, <1>5, OrderKept
<1>7. \A h : PassedHook(s, h) => PassedHook(r, h)
  BY <1>4, <1>5 DEF PassedHook
<1>8. ASSUME RunHooks(r, disk, t) PROVE RunHooks(s, disk, t)
  <2>1. t => "conflict" \notin s.said
    BY <1>5, <1>8 DEF RunHooks
  <2>2. \A h \in HookNames : PassedHook(s, h) /\ (h = "post-commit" => HookWanted(disk)) => Settled(disk, h)
    BY <1>7, <1>8 DEF RunHooks
  <2> QED BY <1>4, <1>5, <2>1, <2>2, NoHookPlan
<1>9. ~raced => RunHooks(s, disk, ~meddled)
  BY <1>3, <1>8 DEF t
<1> QED BY <1>1, <1>2, <1>6, <1>9, HooksStep DEF s

(* A step that does nothing to the hooks, by a run that is not at one.     *)
LEMMA QuietStep ==
  ASSUME NEW d, NEW e, \A h \in HookNames : HooksAt(d, e, h), HookWanted(e) <=> HookWanted(d),
         NEW r, NEW s, RunTyped(s), s.part[1] # "hook" \/ s.ops = <<>>, "conflict" \in s.said => "conflict" \in r.said,
         \A h \in HookNames : PassedHook(s, h) => PassedHook(r, h), NEW t, RunHooks(r, d, t)
  PROVE  RunHooks(s, e, t)
<1>1. /\ \A h \in HookNames : PassedHook(r, h) /\ (h = "post-commit" => HookWanted(d)) => Settled(d, h)
      /\ t => "conflict" \notin r.said
  BY DEF RunHooks
<1>2. RunHooks(s, d, t)
  BY <1>1, NoHookPlan
<1> QED BY <1>2, RunHooksAlike

(* A stage of another sort is not a hook's.                                *)
LEMMA NotThatHook ==
  ASSUME NEW x, x[1] # "hook"
  PROVE  \A h : x # <<"hook", h>>
<1>1. \A h : <<"hook", h>>[1] = "hook"
  OBVIOUS
<1> QED BY <1>1

(* A failure keeps HooksInv.                                               *)
LEMMA FailHooks ==
  ASSUME Inv, HooksInv, NEW w \in Worktrees, Fail(w)
  PROVE  HooksInv'
<1> DEFINE r == run[w]
           s == run'[w]
           t == ~meddled
<1>1. disk'[Yaml] = disk[Yaml] /\ \A p \in HookPaths : disk'[p] = disk[p]
  BY FailInv
<1>2. HooksFrame(w)
  <2>1. \A o \in Worktrees \ {w} : run'[o] = run[o]
    BY InvParts DEF Fail
  <2> QED BY <2>1 DEF HooksFrame, Fail
<1>3. /\ RunTyped(r) /\ RunOrder(r, disk) /\ (~raced => RunHooks(r, disk, t)) /\ (Busy(r) => r.result = "running") /\ RegistryLast(r.todo)
  BY HooksParts
<1>4. r.ops # <<>>
  BY DEF Fail
<1>5. r.result # ""
  BY <1>3, <1>4 DEF Busy
<1>6. HookWanted(disk') <=> HookWanted(disk)
  BY <1>1 DEF HookWanted
<1>7. \A h \in HookNames : HooksAt(disk, disk', h)
  BY <1>1, HookPathsDiffer DEF HooksAt
<1>8. RunTyped(s)
  BY FailInv, InvParts DEF Later
<1>9. run = [o \in Worktrees |-> run[o]]
  BY InvParts
<1>10. CASE r.part[1] = "guidance"
  <2>1. s = [r EXCEPT !.ops = <<>>, !.undo = {}, !.said = @ \cup {"fault"}]
    BY <1>9, <1>10 DEF Fail
  <2>2. s.ops = <<>> /\ s.todo = r.todo /\ s.part = r.part /\ s.result = r.result /\ s.cfg = r.cfg /\ s.said = r.said \cup {"fault"}
    <3> HIDE DEF r, s
    <3>1. r \in [kind : {"", "init", "update"}, ver : {0} \cup Versions, cfg : {None} \cup Configs, hosts : SUBSET Hosts,
             answer : {None, "on", "off"}, todo : Seq(Stages), ops : Seq(Range(r.ops)), undo : SUBSET Temps,
             part : {<<"", "">>} \cup Stages, said : SUBSET {"refused", "blocked", "conflict", "unreachable", "fault"},
             result : {"", "running", "done", "findings", "failed", "crashed"}]
      BY <1>3 DEF RunTyped, RunIn
    <3> QED BY <2>1, <3>1
  <2> HIDE DEF r, s, t
  <2>3. RunOrder(s, disk)
    BY <1>3, <1>5, <2>2, OrderKept
  <2>4. RunOrder(s, disk')
    BY <1>6, <2>3, RunOrderAlike
  <2>5. r.part[1] # "hook"
    BY <1>10
  <2>6. \A h \in HookNames : PassedHook(s, h) => PassedHook(r, h)
    BY <2>2, <2>5, NotThatHook DEF PassedHook
  <2>7. ASSUME ~raced PROVE RunHooks(s, disk', t)
    <3>1. RunHooks(r, disk, t)
      BY <1>3, <2>7
    <3> QED BY <1>6, <1>7, <1>8, <2>2, <2>6, <3>1, QuietStep
  <2> QED BY <1>1, <1>2, <1>6, <2>4, <2>7, HooksStep DEF s, t
<1>11. CASE r.part[1] # "guidance"
  <2>1. s = Ends(r, "failed")
    BY <1>9, <1>11 DEF Fail
  <2> HIDE DEF r, s, t
  <2>2. Later(r, s, <<>>, <<>>, {}, <<"", "">>, r.said, "failed")
    BY <1>3, <2>1, RunEnds DEF Results
  <2>3. "failed" \in {"failed", "crashed"}
    OBVIOUS
  <2>4. RunOrder(s, disk') /\ (RunHooks(r, disk, t) => RunHooks(s, disk', t))
    BY <1>3, <1>5, <1>6, <2>2, <2>3, BrokenOff
  <2>5. ~raced => RunHooks(s, disk', ~meddled)
    BY <1>3, <2>4 DEF t
  <2> QED BY <1>1, <1>2, <1>6, <2>4, <2>5, HooksStep DEF s
<1> QED BY <1>10, <1>11

(* What an operation leaves alone.                                         *)
LEMMA DoFrame ==
  ASSUME Inv, NEW w \in Worktrees, Do(w)
  PROVE  /\ \A o \in Worktrees \ {w} : run'[o] = run[o]
         /\ UNCHANGED <<bodies, ran, meddled>>
         /\ raced' = (raced \/ (AtHooks(w) /\ \E o \in Worktrees \ {w} : AtHooks(o)))
         /\ run[w].ops # <<>> /\ Possible(disk, Head(run[w].ops)) /\ disk' = Effect(disk, Head(run[w].ops))
<1>1. \A o \in Worktrees \ {w} : run'[o] = run[o]
  BY InvParts DEF Do
<1> QED BY <1>1 DEF Do

(* An operation outside the hooks keeps HooksInv.                          *)
LEMMA DoOtherHooks ==
  ASSUME Inv, HooksInv, NEW w \in Worktrees, Do(w), run[w].part[1] # "hook"
  PROVE  HooksInv'
<1> DEFINE r == run[w]
           s == run'[w]
           t == ~meddled
<1>1. /\ \A p \in HookPaths : disk'[p] = disk[p]
      /\ Adopts(disk, disk', Context)
      /\ Later(r, s, r.todo, Tail(r.ops), r.undo, r.part, r.said, r.result)
  BY DoInv
<1>2. HooksFrame(w)
  <2>1. raced' = (raced \/ FALSE)
    BY DoFrame DEF AtHooks
  <2>2. raced' = raced
    BY <2>1, InvParts
  <2> QED BY <2>2, DoFrame DEF HooksFrame
<1>3. /\ RunOrder(r, disk) /\ (~raced => RunHooks(r, disk, t)) /\ (Busy(r) => r.result = "running") /\ RegistryLast(r.todo)
  BY HooksParts
<1>4. r.ops # <<>> /\ r.part[1] # "hook"
  BY DoFrame
<1> HIDE DEF r, s, t
<1>5. r.result # ""
  BY <1>3, <1>4 DEF Busy
<1>6. HookWanted(disk') <=> HookWanted(disk)
  BY <1>1 DEF Adopts
<1>7. \A h \in HookNames : HooksAt(disk, disk', h)
  BY <1>1, HookPathsDiffer DEF HooksAt
<1>8. RunTyped(s) /\ s.todo = r.todo /\ s.part = r.part /\ s.said = r.said /\ s.result = r.result /\ s.cfg = r.cfg
  BY <1>1 DEF Later
<1>9. RunOrder(s, disk')
  <2>1. RunOrder(s, disk)
    BY <1>3, <1>5, <1>8, OrderKept
  <2> QED BY <1>6, <2>1, RunOrderAlike
<1>10. \A h \in HookNames : PassedHook(s, h) => PassedHook(r, h)
  BY <1>4, <1>8, NotThatHook DEF PassedHook
<1>11. ASSUME ~raced PROVE RunHooks(s, disk', t)
  <2>1. RunHooks(r, disk, t)
    BY <1>3, <1>11
  <2> QED BY <1>4, <1>6, <1>7, <1>8, <1>10, <2>1, QuietStep
<1> QED BY <1>1, <1>2, <1>6, <1>9, <1>11, HooksStep DEF s, t

(* An operation on a hook keeps HooksInv, unless another worktree is at    *)
(* one.                                                                    *)
LEMMA DoHookKeeps ==
  ASSUME Inv, HooksInv, NEW w \in Worktrees, Do(w), run[w].part[1] = "hook"
  PROVE  HooksInv'
<1> DEFINE r == run[w]
           s == run'[w]
           t == ~meddled
           h == r.part[2]
           e == Effect(disk, Head(r.ops))
<1>1. /\ Adopts(disk, disk', Context)
      /\ Later(r, s, r.todo, Tail(r.ops), r.undo, r.part, r.said, r.result)
  BY DoInv
<1>2. /\ RunTyped(r) /\ RunOrder(r, disk) /\ RunSound(w, r, disk, Context)
      /\ ~raced => RunHooks(r, disk, t) /\ \A i \in HookNames : HookSound(disk, i, bodies[i], ran[i], t)
      /\ Busy(r) => r.result = "running" /\ r.cfg # None
      /\ r.cfg # None => (r.cfg.auto <=> HookWanted(disk))
      /\ RegistryLast(r.todo)
  <2> HIDE DEF t
  <2>1. /\ RunTyped(r) /\ RunOrder(r, disk) /\ RunSound(w, r, disk, Context)
        /\ Busy(r) => r.result = "running" /\ r.cfg # None
        /\ r.cfg # None => (r.cfg.auto <=> HookWanted(disk))
        /\ RegistryLast(r.todo)
    BY HooksParts
  <2>2. ~raced => RunHooks(r, disk, ~meddled) /\ \A i \in HookNames : HookSound(disk, i, bodies[i], ran[i], ~meddled)
    BY HooksParts
  <2> QED BY <2>1, <2>2 DEF t
<1>3. /\ r.ops # <<>> /\ Possible(disk, Head(r.ops)) /\ disk' = e /\ r.part[1] = "hook"
      /\ \A o \in Worktrees \ {w} : run'[o] = run[o]
      /\ UNCHANGED <<bodies, ran, meddled>>
      /\ ~raced' => ~raced /\ \A o \in Worktrees \ {w} : ~AtHooks(o)
  BY DoFrame DEF AtHooks
<1>4. disk = [p \in Paths |-> disk[p]] /\ HooksTyped(disk) /\ \A o \in Worktrees : RunTyped(run[o])
  BY InvParts DEF Sound, Typed
<1> HIDE DEF r, s, t, e
<1>5. h \in HookNames
  BY <1>2, <1>3, HookOfPart
<1>6. r.ops \in Seq(HookOps(h))
  BY <1>2, <1>3 DEF RunSound
<1>7. Head(r.ops) \in HookOps(h)
  <2> DEFINE S == HookOps(h)
             q == r.ops
  <2>1. q \in Seq(S) /\ q # <<>>
    BY <1>3, <1>6
  <2> HIDE DEF S, q
  <2>2. Head(q) \in S
    BY <2>1
  <2> QED BY <2>2 DEF S, q
<1>8. HookDone(disk, h, Head(r.ops))
  BY <1>3, <1>4, <1>5, <1>7, HookEffect
<1>9. \A p \in Paths \ {Hook(h), Local(h)} : e[p] = disk[p]
  BY <1>8 DEF HookDone, e
<1>10. \A i \in HookNames \ {h} : HooksAt(disk, e, i)
  <2>1. \A i \in HookNames \ {h} : Hook(i) \in Paths \ {Hook(h), Local(h)} /\ Local(i) \in Paths \ {Hook(h), Local(h)}
    BY <1>5, HookPathsDiffer, OtherPaths
  <2> QED BY <1>9, <2>1 DEF HooksAt
<1>11. HookWanted(e) <=> HookWanted(disk)
  BY <1>1, <1>3 DEF Adopts
<1>12. s.ops = Tail(r.ops) /\ s.todo = r.todo /\ s.part = r.part /\ s.said = r.said /\ s.result = r.result /\ s.cfg = r.cfg
  BY <1>1 DEF Later
<1>13. r.result # "" /\ (r.cfg.auto <=> HookWanted(disk))
  BY <1>2, <1>3 DEF Busy
<1>14. \A o \in Worktrees : RunOrder(run'[o], e)
  <2> SUFFICES ASSUME NEW o \in Worktrees PROVE RunOrder(run'[o], e)
    OBVIOUS
  <2>1. CASE o = w
    <3>1. RunOrder(s, disk)
      BY <1>2, <1>12, <1>13, OrderKept
    <3>2. RunOrder(s, e)
      BY <1>11, <3>1, RunOrderAlike
    <3> QED BY <2>1, <3>2 DEF s
  <2>2. CASE o # w
    <3>1. run'[o] = run[o] /\ RunOrder(run[o], disk)
      BY <1>3, <2>2 DEF HooksInv
    <3> QED BY <1>11, <3>1, RunOrderAlike
  <2> QED BY <2>1, <2>2
<1>15. ASSUME ~raced'
       PROVE  /\ \A i \in HookNames : HookSound(e, i, bodies[i], ran[i], t)
              /\ \A o \in Worktrees : RunHooks(run'[o], e, t)
  <2>1. RunHooks(r, disk, t) /\ \A i \in HookNames : HookSound(disk, i, bodies[i], ran[i], t)
    BY <1>2, <1>3, <1>15
  <2>2. PlannedHook(r, h, disk)
    BY <1>3, <2>1 DEF RunHooks
  <2> DEFINE B == bodies[h]
             R == ran[h]
  <2>3. HookSound(disk, h, B, R, t)
    BY <1>5, <2>1
  <2> HIDE DEF B, R
  <2>4. HookKeeps(disk, Effect(disk, Head(r.ops)), h, B, R, t, r, s)
    <3> HIDE DEF h
    <3> QED BY <1>3, <1>4, <1>5, <1>8, <1>12, <1>13, <2>2, <2>3, HookOpKeeps
  <2>5. HookKeeps(disk, e, h, B, R, t, r, s)
    BY <2>4 DEF e
  <2> HIDE DEF h
  <2>6. /\ HookSound(e, h, B, R, t)
        /\ s.ops # <<>> => PlannedHook(s, h, e)
        /\ (h = "post-commit" => HookWanted(disk)) /\ (s.ops = <<>> \/ Settled(disk, h)) => Settled(e, h)
    BY <2>5 DEF HookKeeps
  <2>7. \A i \in HookNames : HookSound(e, i, bodies[i], ran[i], t)
    <3> SUFFICES ASSUME NEW i \in HookNames PROVE HookSound(e, i, bodies[i], ran[i], t)
      OBVIOUS
    <3>1. CASE i = h
      BY <2>6, <3>1 DEF B, R
    <3>2. CASE i # h
      <4> DEFINE C == bodies[i]
                 Q == ran[i]
      <4>1. HooksAt(disk, e, i) /\ HookSound(disk, i, C, Q, t)
        BY <1>10, <2>1, <3>2
      <4> HIDE DEF C, Q
      <4>2. HookSound(e, i, C, Q, t)
        BY <4>1, HookSoundAlike
      <4> QED BY <4>2 DEF C, Q
    <3> QED BY <3>1, <3>2
  <2>8. \A i \in HookNames \ {h} : Settled(disk, i) => Settled(e, i)
    BY <1>10 DEF HooksAt, Settled
  <2>9. ASSUME NEW o \in Worktrees \ {w} PROVE RunHooks(run'[o], e, t)
    <3>1. run'[o] = run[o] /\ ~AtHooks(o)
      BY <1>3, <1>15
    <3>2. RunHooks(run[o], disk, t)
      <4>1. RunHooks(run[o], disk, ~meddled)
        BY <1>3, <1>15 DEF HooksInv
      <4> QED BY <4>1 DEF t
    <3> DEFINE q == run[o]
    <3>3. q.part[1] # "hook" \/ q.ops = <<>>
      BY <3>1 DEF AtHooks
    <3>4. /\ \A i \in HookNames : PassedHook(q, i) /\ (i = "post-commit" => HookWanted(disk)) => Settled(disk, i)
          /\ t => "conflict" \notin q.said
      BY <3>2 DEF RunHooks
    <3> HIDE DEF q
    <3>5. \A i \in HookNames : PassedHook(q, i) /\ (i = "post-commit" => HookWanted(e)) => Settled(e, i)
      BY <1>11, <2>6, <2>8, <3>4
    <3>6. RunHooks(q, e, t)
      BY <3>3, <3>4, <3>5, NoHookPlan
    <3> QED BY <3>1, <3>6 DEF q
  <2>10. RunHooks(s, e, t)
    <3>1. s.part[1] = "hook" /\ s.part[2] = h
      BY <1>3, <1>12 DEF h
    <3>2. s.part[1] = "hook" /\ s.ops # <<>> => PlannedHook(s, s.part[2], e)
      BY <2>6, <3>1
    <3>3. t => "conflict" \notin s.said
      BY <1>12, <2>1 DEF RunHooks
    <3>4. s.part = <<"hook", h>>
      <4>1. r.part \in {<<"", "">>} \cup Stages
        BY <1>2 DEF RunTyped, RunIn
      <4> DEFINE p == r.part
      <4>2. p \in {<<"", "">>} \cup Stages /\ p[1] = "hook"
        BY <1>3, <4>1
      <4> HIDE DEF p
      <4>3. <<"", "">>[1] = "" /\ (p \in Stages \/ p = <<"", "">>)
        BY <4>2
      <4>4. p \in Stages
        BY <4>2, <4>3
      <4>5. p \in {"hook"} \X HookNames
        <5>1. \A x \in {"config", "claude-md", "guidance", "files", "registry"} \X {""} : x[1] # "hook"
          OBVIOUS
        <5>2. \A x \in {"artifacts", "fragment", "import"} \X Hosts : x[1] # "hook"
          OBVIOUS
        <5> QED BY <4>2, <4>4, <5>1, <5>2 DEF Stages
      <4>6. p = <<"hook", p[2]>>
        BY <4>5
      <4> QED BY <1>12, <4>6 DEF h, p
    <3>5. ASSUME NEW i \in HookNames, PassedHook(s, i), i = "post-commit" => HookWanted(e) PROVE Settled(e, i)
      <4>1. CASE i = h
        <5>1. s.ops = <<>>
          BY <3>4, <3>5, <4>1 DEF PassedHook
        <5> QED BY <1>11, <2>6, <3>5, <4>1, <5>1
      <4>2. CASE i # h
        <5>1. r.part # <<"hook", i>>
          <6>1. <<"hook", h>> # <<"hook", i>>
            BY <4>2
          <6> QED BY <1>12, <3>4, <6>1
        <5>2. PassedHook(r, i)
          BY <1>12, <3>5, <5>1 DEF PassedHook
        <5>3. Settled(disk, i)
          BY <1>11, <2>1, <3>5, <5>2 DEF RunHooks
        <5> QED BY <2>8, <4>2, <5>3
      <4> QED BY <4>1, <4>2
    <3> QED BY <3>2, <3>3, <3>5 DEF RunHooks
  <2>11. \A o \in Worktrees : RunHooks(run'[o], e, t)
    BY <2>9, <2>10 DEF s
  <2> QED BY <2>7, <2>11
<1>16. bodies' = bodies /\ ran' = ran /\ (~meddled') = t /\ disk' = e
  BY <1>3 DEF t
<1>17. \A o \in Worktrees : RunOrder(run'[o], disk')
  BY <1>14, <1>16
<1>18. ASSUME ~raced'
       PROVE  /\ \A i \in HookNames : HookSound(disk', i, bodies'[i], ran'[i], ~meddled')
              /\ \A o \in Worktrees : RunHooks(run'[o], disk', ~meddled')
  BY <1>15, <1>16, <1>18
<1>19. HooksInv'
  BY <1>17, <1>18 DEF HooksInv
<1> QED BY <1>19

(* What a hook is by itself, whatever was there before.                    *)
HookProper(d, h, t) ==
  /\ Ours(d[Hook(h)]) => d[Hook(h)] = hookScript
  /\ ~Ours(d[Local(h)])
  /\ t => ~(Theirs(d[Hook(h)]) /\ d[Local(h)] # None)

(* A hook is sound as the user left it.                                    *)
LEMMA FreshSound ==
  ASSUME NEW d, NEW h, NEW t, HookProper(d, h, t)
  PROVE  HookSound(d, h, Bodies(d, h), Runs(d, h) \ {"aiwf"}, t)
<1> DEFINE H == d[Hook(h)]
           L == d[Local(h)]
           R == Runs(d, h) \ {"aiwf"}
           C == Could(d, h)
<1>1. R = (IF H = None \/ ~H.x THEN {} ELSE IF Theirs(H) THEN {H.by}
           ELSE IF L = None THEN {"aiwf"} ELSE IF L.x THEN {"aiwf", L.by} ELSE {}) \ {"aiwf"}
  BY DEF Runs
<1>2. C = IF Theirs(H) THEN (IF H.x THEN {H.by} ELSE {}) ELSE IF L # None /\ L.x THEN {L.by} ELSE {}
  BY DEF Could
<1> HIDE DEF H, L, R, C
<1>3. R \subseteq C
  <2>1. CASE H = None \/ ~H.x
    <3>1. R = {}
      BY <1>1, <2>1
    <3> QED BY <3>1
  <2>2. CASE ~(H = None \/ ~H.x) /\ Theirs(H)
    BY <1>1, <1>2, <2>2
  <2>3. CASE ~(H = None \/ ~H.x) /\ ~Theirs(H)
    BY <1>1, <1>2, <2>3
  <2> QED BY <2>1, <2>2, <2>3
<1> QED BY <1>3 DEF R, C, HookSound, HookProper

(* With no run, nothing is owed.                                           *)
LEMMA FreshRuns ==
  ASSUME NEW d, NEW t
  PROVE  RunOrder(NoRun, d) /\ RunHooks(NoRun, d, t)
<1>1. NoRun.todo = <<>> /\ NoRun.ops = <<>> /\ NoRun.said = {} /\ NoRun.result = "" /\ NoRun.cfg = None
  BY DEF NoRun
<1>2. RegistryLast(NoRun.todo)
  BY <1>1, NothingLast
<1>3. RunOrder(NoRun, d)
  BY <1>1, <1>2 DEF RunOrder, RegistryLast
<1>4. \A h : ~PassedHook(NoRun, h)
  BY <1>1 DEF PassedHook
<1>5. RunHooks(NoRun, d, t)
  BY <1>1, <1>4, NoHookPlan
<1> QED BY <1>3, <1>5

(* A sound hook is one a user may have left.                               *)
LEMMA SoundProper ==
  ASSUME HooksInv, ~raced, NEW h \in HookNames
  PROVE  HookProper(disk, h, ~meddled)
<1>1. HookSound(disk, h, bodies[h], ran[h], ~meddled)
  BY DEF HooksInv
<1> QED BY <1>1 DEF HookSound, HookProper

(* A change of the user's that leaves proper hooks keeps HooksInv.         *)
LEMMA UsersHooks ==
  ASSUME HooksInv, UsersChange, ~raced => \A h \in HookNames : HookProper(disk', h, ~meddled')
  PROVE  HooksInv'
<1>1. /\ run' = [w \in Worktrees |-> NoRun] /\ raced' = raced
      /\ bodies' = [h \in HookNames |-> Bodies(disk', h)] /\ ran' = [h \in HookNames |-> Runs(disk', h) \ {"aiwf"}]
  BY DEF UsersChange
<1>2. \A w \in Worktrees : RunOrder(run'[w], disk') /\ RunHooks(run'[w], disk', ~meddled')
  <2> DEFINE t == ~meddled'
  <2>1. \A w \in Worktrees : run'[w] = NoRun
    BY <1>1
  <2> HIDE DEF t
  <2>2. \A w \in Worktrees : RunOrder(run'[w], disk') /\ RunHooks(run'[w], disk', t)
    BY <2>1, FreshRuns
  <2> QED BY <2>2 DEF t
<1>3. ASSUME ~raced', NEW h \in HookNames PROVE HookSound(disk', h, bodies'[h], ran'[h], ~meddled')
  <2> DEFINE t == ~meddled'
             d == disk'
  <2>1. HookProper(d, h, t)
    BY <1>1, <1>3
  <2> HIDE DEF t, d
  <2>2. HookSound(d, h, Bodies(d, h), Runs(d, h) \ {"aiwf"}, t)
    BY <2>1, FreshSound
  <2>3. bodies'[h] = Bodies(d, h) /\ ran'[h] = Runs(d, h) \ {"aiwf"}
    BY <1>1 DEF d
  <2> QED BY <2>2, <2>3 DEF t, d
<1> QED BY <1>2, <1>3 DEF HooksInv

(* A change elsewhere keeps HooksInv.                                      *)
LEMMA AloneHooks ==
  ASSUME HooksInv, UsersChange, HooksAlone
  PROVE  HooksInv'
<1>1. ASSUME ~raced, NEW h \in HookNames PROVE HookProper(disk', h, ~meddled')
  <2>1. HookProper(disk, h, ~meddled)
    BY <1>1, SoundProper
  <2>2. disk'[Hook(h)] = disk[Hook(h)] /\ disk'[Local(h)] = disk[Local(h)]
    BY HookPathsDiffer DEF HooksAlone
  <2>3. meddled => meddled'
    BY DEF UsersChange
  <2> QED BY <2>1, <2>2, <2>3 DEF HookProper
<1> QED BY <1>1, UsersHooks

(* A hook placed by hand keeps HooksInv.                                   *)
LEMMA PlacedHooks ==
  ASSUME HooksInv, UsersChange, NEW h \in HookNames, NEW p, NEW o, HookPlaced(h, p, o)
  PROVE  HooksInv'
<1>1. /\ <<p, o>> \in {<<Hook(h), Local(h)>>, <<Local(h), Hook(h)>>} /\ \A q \in HookPaths \ {p} : disk'[q] = disk[q]
      /\ \E x \in BOOLEAN, b \in {"user", "other"} : disk'[p] = [by |-> b, x |-> x]
      /\ meddled' = (meddled \/ Theirs(disk[o]))
  BY DEF HookPlaced
<1>2. Theirs(disk'[p]) /\ ~Ours(disk'[p])
  <2>1. PICK x \in BOOLEAN, b \in {"user", "other"} : disk'[p] = [by |-> b, x |-> x]
    BY <1>1
  <2>2. disk'[p] \in Scripts /\ disk'[p].by \in {"user", "other"}
    BY <2>1 DEF Scripts
  <2> QED BY <2>2, ManagedAssumption DEF Theirs, Ours
<1>3. ASSUME ~raced, NEW i \in HookNames PROVE HookProper(disk', i, ~meddled')
  <2>1. HookProper(disk, i, ~meddled)
    BY <1>3, SoundProper
  <2>2. meddled => meddled'
    BY <1>1
  <2>3. CASE i # h
    <3>1. {Hook(i), Local(i)} \subseteq HookPaths \ {p}
      BY <1>1, <2>3, HookPathsDiffer
    <3>2. disk'[Hook(i)] = disk[Hook(i)] /\ disk'[Local(i)] = disk[Local(i)]
      BY <1>1, <3>1
    <3> QED BY <2>1, <2>2, <3>2 DEF HookProper
  <2>4. CASE i = h /\ p = Hook(h) /\ o = Local(h)
    <3>1. Local(h) \in HookPaths \ {p}
      BY <2>4, HookPathsDiffer
    <3>2. disk'[Local(h)] = disk[Local(h)]
      BY <1>1, <3>1
    <3>3. ~meddled' => ~Theirs(disk[Local(h)])
      BY <1>1, <2>4
    <3> QED BY <1>2, <2>1, <2>4, <3>2, <3>3 DEF HookProper, Ours, Theirs
  <2>5. CASE i = h /\ p = Local(h) /\ o = Hook(h)
    <3>1. Hook(h) \in HookPaths \ {p}
      BY <2>5, HookPathsDiffer
    <3>2. disk'[Hook(h)] = disk[Hook(h)]
      BY <1>1, <3>1
    <3>3. ~meddled' => ~Theirs(disk[Hook(h)])
      BY <1>1, <2>5
    <3> QED BY <1>2, <2>1, <2>5, <3>2, <3>3 DEF HookProper, Ours, Theirs
  <2>6. (p = Hook(h) /\ o = Local(h)) \/ (p = Local(h) /\ o = Hook(h))
    BY <1>1
  <2> QED BY <2>3, <2>4, <2>5, <2>6
<1> QED BY <1>3, UsersHooks

(* The user's changes keep HooksInv.                                       *)
LEMMA ChangesHooks ==
  ASSUME Inv, HooksInv, disk[Yaml] # None, Changes
  PROVE  HooksInv'
<1>1. CASE UsersChange /\ HooksAlone
  BY <1>1, AloneHooks
<1>2. CASE UsersChange /\ \E h \in HookNames : \E p, o : HookPlaced(h, p, o)
  BY <1>2, PlacedHooks
<1>3. CASE UNCHANGED <<disk, bodies, ran, meddled, raced>> /\ run' = [w \in Worktrees |-> NoRun]
  <2> DEFINE t == ~meddled
  <2>1. \A w \in Worktrees : run'[w] = NoRun
    BY <1>3
  <2>2. ~raced => \A h \in HookNames : HookSound(disk, h, bodies[h], ran[h], ~meddled)
    BY DEF HooksInv
  <2> HIDE DEF t
  <2>3. \A w \in Worktrees : RunOrder(run'[w], disk) /\ RunHooks(run'[w], disk, t)
    BY <2>1, FreshRuns
  <2> QED BY <1>3, <2>2, <2>3 DEF HooksInv, t
<1> QED BY <1>1, <1>2, <1>3, ChangesInv

(* A repository starts without hooks of the user's.                        *)
LEMMA InitHooks == Init => HooksInv
<1> SUFFICES ASSUME Init PROVE HooksInv
  OBVIOUS
<1>1. /\ play \in Scenarios /\ disk = Starting(play) /\ run = [w \in Worktrees |-> NoRun]
      /\ bodies = [h \in HookNames |-> {}] /\ ran = [h \in HookNames |-> {}]
  BY DEF Init
<1>2. \A h \in HookNames : disk[Hook(h)] \in {None, hookScript} /\ disk[Local(h)] = None
  BY <1>1, RefreshAssumption
<1>3. ~Ours(None) /\ ~Theirs(None) /\ ~Theirs(hookScript)
  BY DEF Ours, Theirs, hookScript
<1>4. \A h \in HookNames : HookSound(disk, h, bodies[h], ran[h], ~meddled)
  BY <1>1, <1>2, <1>3 DEF HookSound
<1>5. \A w \in Worktrees : RunOrder(run[w], disk) /\ RunHooks(run[w], disk, ~meddled)
  <2> DEFINE t == ~meddled
  <2>1. \A w \in Worktrees : run[w] = NoRun
    BY <1>1
  <2> HIDE DEF t
  <2>2. \A w \in Worktrees : RunOrder(run[w], disk) /\ RunHooks(run[w], disk, t)
    BY <2>1, FreshRuns
  <2> QED BY <2>2 DEF t
<1> QED BY <1>4, <1>5 DEF HooksInv

-----------------------------------------------------------------------------
(* Stuttering keeps both invariants.                                       *)
LEMMA StutterKeeps ==
  ASSUME UNCHANGED vars, Inv, HooksInv
  PROVE  Inv' /\ HooksInv'
<1>1. UNCHANGED <<play, disk, upstream, run, left, kept, bodies, ran, meddled, asked, raced>>
  BY DEF vars
<1>2. Context' = Context
  BY <1>1 DEF Context
<1>3. TypeOK'
  BY <1>1 DEF Inv, TypeOK
<1>4. Inv'
  BY <1>1, <1>2, <1>3 DEF Inv
<1>5. HooksInv'
  BY <1>1 DEF HooksInv
<1> QED BY <1>4, <1>5

(* Every step keeps both invariants.                                       *)
LEMMA NextKeeps ==
  ASSUME Inv, HooksInv, [Next]_vars
  PROVE  Inv' /\ HooksInv'
<1>1. CASE UNCHANGED vars
  BY <1>1, StutterKeeps
<1>2. ASSUME NEW w \in Worktrees, NEW kind \in {"init", "update"}, NEW v \in play.versions, NEW answer \in play.answers,
             Start(w, kind, v, answer)
      PROVE  Inv' /\ HooksInv'
  BY <1>2, StartInv, StartHooks
<1>3. ASSUME NEW w \in Worktrees, Begin(w) PROVE Inv' /\ HooksInv'
  BY <1>3, BeginInv, BeginKeepsHooks
<1>4. ASSUME NEW w \in Worktrees, Unreachable(w) PROVE Inv' /\ HooksInv'
  BY <1>4, UnreachableInv, UnreachableHooks
<1>5. ASSUME NEW w \in Worktrees, Do(w) PROVE Inv' /\ HooksInv'
  BY <1>5, DoInv, DoOtherHooks, DoHookKeeps
<1>6. ASSUME NEW w \in Worktrees, Fail(w) PROVE Inv' /\ HooksInv'
  BY <1>6, FailInv, FailHooks
<1>7. ASSUME NEW w \in Worktrees, Crash(w) PROVE Inv' /\ HooksInv'
  BY <1>7, CrashInv, CrashHooks
<1>8. ASSUME NEW w \in Worktrees, Finish(w) PROVE Inv' /\ HooksInv'
  BY <1>8, FinishInv, FinishHooks
<1>9. CASE disk[Yaml] # None /\ Changes
  BY <1>9, ChangesInv, ChangesHooks
<1> QED BY <1>1, <1>2, <1>3, <1>4, <1>5, <1>6, <1>7, <1>8, <1>9 DEF Next

(* No run, whatever it is interrupted by, leaves files that aiwf does not  *)
(* account for.                                                            *)
THEOREM Invariance == Spec => [](Inv /\ HooksInv)
<1>1. Init => Inv /\ HooksInv
  BY InitInv, InitHooks
<1>2. Inv /\ HooksInv /\ [Next]_vars => (Inv /\ HooksInv)'
  BY NextKeeps
<1> QED BY <1>1, <1>2, PTL DEF Spec

-----------------------------------------------------------------------------
(* What the invariant says.                                                *)

(* Sound files keep what the user wrote.                                   *)
LEMMA FilesKept ==
  ASSUME Inv
  PROVE  UserFilesKept
<1> SUFFICES ASSUME NEW k \in kept
             PROVE  LET p == k[1] IN
                    CASE p \in RootFiles -> At(disk, p).route = k[2]
                      [] p = Settings -> disk[p] # None /\ k[2] \in disk[p].entries
                      [] OTHER -> disk[p] = k[2]
  BY DEF UserFilesKept
<1>1. KeptAt(disk, k)
  BY ContextFields DEF Inv, Sound, KeptSound
<1>2. Settings \in Singles /\ Settings \notin RootFiles /\ RootFiles \subseteq GuidancePaths /\ Settings \notin GuidancePaths
  BY OtherPaths, SinglesDiffer
<1>3. ASSUME NEW f \in Families, NEW n \in Names(f), k = <<<<f, n>>, Mine>>, disk[<<f, n>>] = Mine
      PROVE  k[1] \notin RootFiles /\ k[1] # Settings /\ disk[k[1]] = k[2]
  <2>1. <<f, n>> \in FamilyPaths(f)
    BY DEF FamilyPaths
  <2>2. <<f, n>> \notin GuidancePaths /\ <<f, n>> # Settings
    BY <2>1, FamilyPathsArePaths
  <2> QED BY <1>2, <1>3, <2>2
<1>4. ASSUME NEW p \in GuidancePaths \ RootFiles, k = <<p, Mine>>, disk[p] = Mine
      PROVE  k[1] \notin RootFiles /\ k[1] # Settings /\ disk[k[1]] = k[2]
  BY <1>2, <1>4
<1>5. ASSUME NEW p \in RootFiles, NEW r, k = <<p, r>>, At(disk, p).route = r
      PROVE  k[1] \in RootFiles /\ At(disk, k[1]).route = k[2]
  BY <1>5
<1>6. ASSUME k = <<Settings, "user">>, disk[Settings] # None /\ "user" \in disk[Settings].entries
      PROVE  k[1] \notin RootFiles /\ k[1] = Settings /\ disk[k[1]] # None /\ k[2] \in disk[k[1]].entries
  BY <1>2, <1>6
<1> DEFINE p == k[1]
<1>7. \/ p \notin RootFiles /\ p # Settings /\ disk[p] = k[2]
      \/ p \in RootFiles /\ At(disk, p).route = k[2]
      \/ p \notin RootFiles /\ p = Settings /\ disk[p] # None /\ k[2] \in disk[p].entries
  BY <1>1, <1>3, <1>4, <1>5, <1>6 DEF KeptAt
<1> HIDE DEF p
<1>8. (CASE p \in RootFiles -> At(disk, p).route = k[2]
         [] p = Settings -> disk[p] # None /\ k[2] \in disk[p].entries
         [] OTHER -> disk[p] = k[2])
  BY <1>2, <1>7
<1> QED BY <1>8 DEF p

(* A settled hook runs what could run.                                     *)
LEMMA CouldRuns ==
  ASSUME NEW d, NEW h, HooksTyped(d), h \in HookNames, Ours(d[Hook(h)]) => d[Hook(h)] = hookScript, Settled(d, h)
  PROVE  Could(d, h) \subseteq Runs(d, h)
<1> DEFINE H == d[Hook(h)]
           L == d[Local(h)]
<1>1. /\ Could(d, h) = IF Theirs(H) THEN (IF H.x THEN {H.by} ELSE {}) ELSE IF L # None /\ L.x THEN {L.by} ELSE {}
      /\ Runs(d, h) = (IF H = None \/ ~H.x THEN {} ELSE IF Theirs(H) THEN {H.by}
           ELSE IF L = None THEN {"aiwf"} ELSE IF L.x THEN {"aiwf", L.by} ELSE {})
      /\ Ours(H) \/ Theirs(H)
      /\ Ours(H) => H = hookScript
  BY DEF Could, Runs, Settled
<1> HIDE DEF H, L
<1>2. hookScript.x = TRUE
  BY DEF hookScript
<1>3. CASE Theirs(H)
  <2>1. H # None
    BY <1>3 DEF Theirs
  <2> QED BY <1>1, <1>3, <2>1
<1>4. CASE ~Theirs(H)
  <2>1. H # None /\ H.x = TRUE
    BY <1>1, <1>2, <1>4 DEF Ours
  <2> QED BY <1>1, <1>4, <2>1
<1> QED BY <1>3, <1>4

(* Sound hooks keep their bodies, and run after a run.                     *)
LEMMA HooksKept ==
  ASSUME Inv, HooksInv
  PROVE  HookBodiesKept /\ HooksStillRun
<1>1. HookBodiesKept
  BY DEF HooksInv, HookSound, HookBodiesKept
<1>2. ASSUME NEW w \in Worktrees, run[w].result \in {"done", "findings"}, ~raced,
             NEW h \in HookNames, h = "post-commit" => disk[Yaml].auto
      PROVE  ran[h] \subseteq Runs(disk, h)
  <2> DEFINE r == run[w]
  <2>1. RunHooks(r, disk, ~meddled) /\ (Busy(r) => r.result = "running")
    BY <1>2, HooksParts
  <2>2. HookSound(disk, h, bodies[h], ran[h], ~meddled) /\ HooksTyped(disk)
    BY <1>2, InvParts DEF HooksInv
  <2>3. r.todo = <<>> /\ r.ops = <<>>
    BY <1>2, <2>1 DEF Busy
  <2>4. PassedHook(r, h)
    BY <1>2, <2>3 DEF PassedHook
  <2> HIDE DEF r
  <2>5. Settled(disk, h)
    BY <1>2, <2>1, <2>4 DEF RunHooks, HookWanted
  <2>6. (Ours(disk[Hook(h)]) => disk[Hook(h)] = hookScript) /\ ran[h] \subseteq Could(disk, h)
    BY <2>2 DEF HookSound
  <2>7. Could(disk, h) \subseteq Runs(disk, h)
    BY <2>2, <2>5, <2>6, CouldRuns
  <2> QED BY <2>6, <2>7
<1>3. HooksStillRun
  BY <1>2 DEF HooksStillRun
<1> QED BY <1>1, <1>3

(* Where nothing of aiwf's was touched, no stage has refused.              *)
LEMMA NotStuck ==
  ASSUME Inv, HooksInv
  PROVE  NeverStuck
<1> SUFFICES ASSUME ~meddled, ~raced, NEW w \in Worktrees PROVE run[w].said \cap {"refused", "blocked", "conflict"} = {}
  BY DEF NeverStuck
<1>1. run[w].said \cap {"refused", "blocked"} = {}
  BY ContextFields DEF Inv, RunSound
<1>2. "conflict" \notin run[w].said
  BY DEF HooksInv, RunHooks
<1> QED BY <1>1, <1>2

(* Sound files are claimed, and of one revision.                           *)
LEMMA NothingLeft ==
  ASSUME Inv
  PROVE  NothingLeftBehind
<1>1. ArtifactsSound(disk, Context.tidy) /\ PacksClaimed(disk) /\ (Context.whole /\ disk[pendingFile] = None => Whole(disk))
  BY DEF Inv, Sound, GuidanceSound
<1>2. ASSUME NEW f \in Families, NEW p \in {p \in Artifacts : p[1] = f}, disk[p] \in {Made(v) : v \in Versions}
      PROVE  p[2] \in parseOwnedNames(disk, f) \cup DOMAIN parseArtifactReceipts(disk, f)
  <2>1. PICK g \in Families : p \in {<<g, n>> : n \in Names(g)}
    BY DEF Artifacts
  <2>2. PICK n \in Names(g) : p = <<g, n>>
    BY <2>1
  <2>3. g = f /\ p[2] = n /\ n \in Names(f) /\ p = <<f, n>>
    BY <1>2, <2>2
  <2>4. disk[<<f, n>>] \in Mades
    BY <1>2, <2>3 DEF Mades
  <2>5. n \in Claimed(disk, f)
    BY <1>1, <2>3, <2>4 DEF ArtifactsSound, ArtifactSound
  <2> QED BY <2>3, <2>5 DEF Claimed
<1>3. NothingOrphaned
  BY <1>1, <1>2 DEF NothingOrphaned, PacksClaimed
<1>4. PolicyWholeOrPending
  <2> DEFINE index == disk[indexFile]
             listed == IF index = None THEN {} ELSE index[3]
  <2>1. ASSUME disk[pendingFile] = None, ~meddled, "delete" \notin play.edits, NEW k \in Packs
        PROVE  disk[Pack(k)] = IF k \in listed THEN <<"pack", index[2]>> ELSE None
    <3>1. disk[Pack(k)] = IF index # None /\ k \in index[3] THEN <<"pack", index[2]>> ELSE None
      BY <1>1, <2>1, ContextFields DEF Whole
    <3>2. k \in listed <=> index # None /\ k \in index[3]
      OBVIOUS
    <3> HIDE DEF index, listed
    <3> QED BY <3>1, <3>2
  <2> QED BY <2>1 DEF PolicyWholeOrPending
<1> QED BY <1>3, <1>4 DEF NothingLeftBehind

InPlace(p) == Pack(p) \in DOMAIN recordOf(disk', ownedFile) /\ disk'[pendingFile] = None /\ disk'[Pack(p)] # None
(* A pack in aiwf.yaml is installed, or the user asked for it.             *)
LEMMA AdoptsInstalled ==
  ASSUME Inv, [Next]_vars, NEW p \in Packs, disk[Yaml] # None, p \in Chosen(disk'[Yaml]) \ (Chosen(disk[Yaml]) \cup asked')
  PROVE  InPlace(p)
<1>1. disk'[Yaml] # disk[Yaml]
  OBVIOUS
<1>2. CASE UNCHANGED vars
  BY <1>1, <1>2 DEF vars
<1>3. ASSUME NEW w \in Worktrees, NEW kind \in {"init", "update"}, NEW v \in play.versions, NEW answer \in play.answers,
             Start(w, kind, v, answer)
      PROVE  InPlace(p)
  BY <1>1, <1>3 DEF Start
<1>4. ASSUME NEW w \in Worktrees, Begin(w) \/ Unreachable(w) \/ Crash(w) \/ Finish(w) PROVE InPlace(p)
  BY <1>1, <1>4 DEF Begin, Unreachable, Crash, Finish
<1>5. ASSUME NEW w \in Worktrees, Do(w) PROVE InPlace(p)
  <2>1. Adopts(disk, disk', Context) /\ asked' = asked
    BY <1>5, DoInv DEF Do
  <2>2. p \in Chosen(disk'[Yaml]) \ (Chosen(disk[Yaml]) \cup Context.asked)
    BY <2>1, ContextFields
  <2> QED BY <2>1, <2>2 DEF Adopts, InPlace
<1>6. ASSUME NEW w \in Worktrees, Fail(w) PROVE InPlace(p)
  BY <1>1, <1>6, FailInv
<1>7. CASE disk[Yaml] # None /\ Changes
  BY <1>7, ChangesInv DEF OnlyAsked
<1> QED BY <1>2, <1>3, <1>4, <1>5, <1>6, <1>7 DEF Next

-----------------------------------------------------------------------------
(* The results.                                                            *)

(* Every file holds what fits there and every run is a run, in any         *)
(* repository, after any interruption and change.                          *)
THEOREM TypeCorrect == Spec => []TypeOK
<1>1. Inv /\ HooksInv => TypeOK
  BY DEF Inv
<1> QED BY <1>1, Invariance, PTL

(* No run of any version, interrupted anywhere, takes a file, a setting or *)
(* a hook of the user's (ownership.go, install.go, ensurePreHook).         *)
THEOREM UsersWorkIsKept == Spec => []UsersWorkKept
<1>1. Inv /\ HooksInv => UsersWorkKept
  BY FilesKept, HooksKept DEF UsersWorkKept
<1> QED BY <1>1, Invariance, PTL

(* What aiwf left behind never makes a later run refuse                    *)
(* (planArtifactFamily, planInstallation, ensurePreHook).                  *)
THEOREM NothingSticks == Spec => []NeverStuck
<1>1. Inv /\ HooksInv => NeverStuck
  BY NotStuck
<1> QED BY <1>1, Invariance, PTL

(* An interrupted or finished run leaves no artifact or pack that no       *)
(* record claims, and packs of one revision.                               *)
THEOREM NothingIsLeftBehind == Spec => []NothingLeftBehind
<1>1. Inv /\ HooksInv => NothingLeftBehind
  BY NothingLeft
<1> QED BY <1>1, Invariance, PTL

(* aiwf.yaml names a pack the user did not ask for only once it is         *)
(* installed (ensureProjectGuidance).                                      *)
THEOREM OnlyInstalledIsAdopted == Spec => AdoptedIsInstalled
<1>1. Inv /\ HooksInv /\ [Next]_vars =>
        [\A p \in Packs :
           disk[Yaml] # None /\ p \in Chosen(disk'[Yaml]) \ (Chosen(disk[Yaml]) \cup asked') =>
             /\ Pack(p) \in DOMAIN recordOf(disk', ownedFile) /\ disk'[pendingFile] = None /\ disk'[Pack(p)] # None]_vars
  BY AdoptsInstalled DEF InPlace
<1> QED BY <1>1, Invariance, PTL DEF Spec, AdoptedIsInstalled
=============================================================================
