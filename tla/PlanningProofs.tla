--------------------------- MODULE PlanningProofs ---------------------------
(***************************************************************************)
(* Proofs about Planning, for every set of scenarios: what a file looks    *)
(* like, that numbers are not reused, that references keep their referent, *)
(* that aiwf.yaml and the tree agree, that dependencies stay an order and  *)
(* that resolutions stay two-sided.                                        *)
(***************************************************************************)
EXTENDS Planning, Inductions, WorkflowProofs, FiniteSetTheorems, SequenceTheorems

\* What a reference and a file of scenario p look like.
Reference(p) ==
  [field : RewrittenFields \cup {"linked_adrs"}, kind : Kinds, n : 1..MaxNum, ac : {0},
   means : DOMAIN p.cast \cup {0}]
Shape(p) ==
  [uid : DOMAIN p.cast, kind : Kinds, n : 1..MaxNum, narrow : {FALSE}, slug : DOMAIN p.cast,
   parses : {TRUE}, status : UNION {Statuses(k) : k \in Kinds}, arch : BOOLEAN,
   area : p.names \cup {None, AreaGlobal}, prio : Levels \cup {None},
   refs : SUBSET Reference(p), prior : SUBSET (1..MaxNum), byCommit : BOOLEAN, acs : {{}}]
FileOf(p) ==
  {e \in Shape(p) : /\ e.slug = e.uid /\ e.kind = p.cast[e.uid]
                    /\ e.status \in Statuses(e.kind)
                    /\ \A m \in e.prior : m < e.n}
OneFileEach(fs) == \A e, o \in fs : e.uid = o.uid => e = o
TreeOK(p, fs) == fs \subseteq FileOf(p) /\ OneFileEach(fs)

-----------------------------------------------------------------------------
LEMMA ScenarioFacts ==
  ASSUME NEW p \in Scenarios
  PROVE  /\ p.cast \in Seq(Kinds) /\ Len(p.cast) \in Nat /\ DOMAIN p.cast = 1..Len(p.cast)
         /\ p.start \in 0..Len(p.cast) /\ p.start <= MaxNum
         /\ p.parent = [kind |-> "epic", n |-> 1]
         /\ (\E u \in 1..p.start : p.cast[u] = "milestone") => p.cast[1] = "epic"
         /\ p.areas \subseteq p.names
         /\ MaxNum \in Nat \ {0} /\ Levels \subseteq Priorities
         /\ \A u \in DOMAIN p.cast : p.cast[u] \in Kinds
BY PlanningAssumption

LEMMA FileFacts ==
  ASSUME NEW p \in Scenarios, NEW e \in FileOf(p)
  PROVE  /\ e.uid \in DOMAIN p.cast /\ e.uid \in Nat /\ e.uid >= 1 /\ e.uid <= Len(p.cast)
         /\ e.slug = e.uid /\ e.kind \in Kinds /\ e.kind = p.cast[e.uid]
         /\ e.n \in 1..MaxNum /\ e.n \in Nat /\ e.narrow = FALSE /\ e.parses = TRUE
         /\ e.status \in Statuses(e.kind) /\ e.arch \in BOOLEAN
         /\ e.area \in p.names \cup {None, AreaGlobal} /\ e.prio \in Levels \cup {None}
         /\ e.refs \subseteq Reference(p)
         /\ e.prior \subseteq 1..MaxNum /\ \A m \in e.prior : m < e.n
         /\ e.byCommit \in BOOLEAN /\ e.acs = {}
<1>1. /\ e \in Shape(p) /\ e.slug = e.uid /\ e.kind = p.cast[e.uid]
      /\ e.status \in Statuses(e.kind) /\ \A m \in e.prior : m < e.n
  BY DEF FileOf
<1>2. /\ e.uid \in DOMAIN p.cast /\ e.kind \in Kinds /\ e.n \in 1..MaxNum
      /\ e.narrow \in {FALSE} /\ e.parses \in {TRUE} /\ e.arch \in BOOLEAN
      /\ e.area \in p.names \cup {None, AreaGlobal} /\ e.prio \in Levels \cup {None}
      /\ e.refs \in SUBSET Reference(p) /\ e.prior \in SUBSET (1..MaxNum)
      /\ e.byCommit \in BOOLEAN /\ e.acs \in {{}}
  BY <1>1 DEF Shape
<1>3. /\ e.uid \in Nat /\ e.uid >= 1 /\ e.uid <= Len(p.cast) /\ e.n \in Nat
  BY <1>2, ScenarioFacts
<1> QED BY <1>1, <1>2, <1>3

LEMMA UidFacts ==
  ASSUME NEW p \in Scenarios
  PROVE  \A e \in FileOf(p) : e.uid \in Nat /\ e.uid >= 1 /\ e.uid <= Len(p.cast) /\ e.arch \in BOOLEAN
BY FileFacts

LEMMA NumberFacts ==
  ASSUME NEW p \in Scenarios
  PROVE  \A e \in FileOf(p) : e.n \in Nat /\ e.n <= MaxNum
<1>1. \A e \in FileOf(p) : e.n \in 1..MaxNum
  BY FileFacts
<1> QED BY <1>1, ScenarioFacts

LEMMA ReferenceFacts ==
  ASSUME NEW p \in Scenarios, NEW r \in Reference(p)
  PROVE  /\ r.field \in RewrittenFields \cup {"linked_adrs"} /\ r.kind \in Kinds
         /\ r.n \in 1..MaxNum /\ r.n \in Nat /\ r.ac = 0 /\ r.means \in DOMAIN p.cast \cup {0}
         /\ ~IsComposite(r)
BY ScenarioFacts DEF Reference, IsComposite

(* The walk order among files of a scenario.                               *)
LEMMA BeforeMeans ==
  ASSUME NEW p \in Scenarios, NEW a \in FileOf(p), NEW b \in FileOf(p)
  PROVE  Before(a, b) <=> (~a.arch /\ b.arch) \/ (a.arch = b.arch /\ a.uid < b.uid)
<1> DEFINE A == IF a.arch THEN 1 ELSE 0
           B == IF b.arch THEN 1 ELSE 0
           ka == <<0, A, 0, a.uid>>
           kb == <<0, B, 0, b.uid>>
<1>1. /\ a.arch \in BOOLEAN /\ b.arch \in BOOLEAN /\ a.uid \in Nat /\ b.uid \in Nat
      /\ a.parses /\ b.parses /\ ~a.narrow /\ ~b.narrow /\ a.slug = a.uid /\ b.slug = b.uid
  BY FileFacts
<1>2. Before(a, b) <=> \E i \in 1..4 : ka[i] < kb[i] /\ \A j \in 1..(i - 1) : ka[j] = kb[j]
  BY <1>1, Zenon DEF Before
<1>3. A \in {0, 1} /\ B \in {0, 1} /\ (A < B <=> ~a.arch /\ b.arch) /\ (A = B <=> (a.arch <=> b.arch))
  BY <1>1
<1>4. /\ ka[1] = 0 /\ ka[2] = A /\ ka[3] = 0 /\ ka[4] = a.uid
      /\ kb[1] = 0 /\ kb[2] = B /\ kb[3] = 0 /\ kb[4] = b.uid
  OBVIOUS
<1> HIDE DEF ka, kb, A, B
<1>5. Before(a, b) <=> A < B \/ (A = B /\ a.uid < b.uid)
  BY <1>1, <1>2, <1>3, <1>4
<1> QED BY <1>1, <1>3, <1>5

LEMMA LeastUid ==
  ASSUME NEW p \in Scenarios, NEW S, S \subseteq FileOf(p), S # {}
  PROVE  \E e \in S : \A o \in S : e.uid <= o.uid
<1> DEFINE U == {e.uid : e \in S}
<1>1. U \subseteq Nat /\ U # {}
  BY UidFacts
<1>2. PICK u \in U : \A v \in U : u <= v
  <2> HIDE DEF U
  <2> QED BY <1>1, LeastElement
<1> QED BY <1>2

LEMMA GreatestUid ==
  ASSUME NEW p \in Scenarios, NEW S, S \subseteq FileOf(p), S # {}
  PROVE  \E e \in S : \A o \in S : o.uid <= e.uid
<1> DEFINE U == {e.uid : e \in S}
<1>1. U \subseteq Nat /\ U # {} /\ (\A u \in U : u <= Len(p.cast)) /\ Len(p.cast) \in Nat
  BY UidFacts, ScenarioFacts
<1>2. PICK u \in U : \A v \in U : v <= u
  <2> HIDE DEF U
  <2> QED BY <1>1, GreatestElement
<1> QED BY <1>2

(* Of two files one is first, and a set of files has a first and a last.    *)
LEMMA BeforeIsTotal ==
  ASSUME NEW p \in Scenarios, NEW a \in FileOf(p), NEW b \in FileOf(p), a.uid # b.uid
  PROVE  Before(a, b) \/ Before(b, a)
BY UidFacts, BeforeMeans

LEMMA FirstFacts ==
  ASSUME NEW p \in Scenarios, NEW S, TreeOK(p, S), S # {}
  PROVE  First(S) \in S
<1> DEFINE Live == {e \in S : ~e.arch}
<1>1. S \subseteq FileOf(p) /\ OneFileEach(S)
  BY DEF TreeOK
<1>2. \E e \in S : \A o \in S \ {e} : Before(e, o)
  <2>1. CASE Live # {}
    <3>1. PICK e \in Live : \A o \in Live : e.uid <= o.uid
      BY <1>1, <2>1, LeastUid
    <3>2. ASSUME NEW o \in S, o # e PROVE Before(e, o)
      BY <1>1, <3>1, <3>2, BeforeMeans, UidFacts DEF OneFileEach
    <3> QED BY <3>1, <3>2
  <2>2. CASE Live = {}
    <3>1. PICK e \in S : \A o \in S : e.uid <= o.uid
      BY <1>1, LeastUid
    <3>2. ASSUME NEW o \in S, o # e PROVE Before(e, o)
      BY <1>1, <2>2, <3>1, <3>2, BeforeMeans, UidFacts DEF OneFileEach
    <3> QED BY <3>1, <3>2
  <2> QED BY <2>1, <2>2
<1> QED BY <1>2 DEF First

LEMMA LastFacts ==
  ASSUME NEW p \in Scenarios, NEW S, TreeOK(p, S), S # {}
  PROVE  (CHOOSE e \in S : \A o \in S \ {e} : Before(o, e)) \in S
<1> DEFINE Archived == {e \in S : e.arch}
<1>1. S \subseteq FileOf(p) /\ OneFileEach(S)
  BY DEF TreeOK
<1>2. \E e \in S : \A o \in S \ {e} : Before(o, e)
  <2>1. CASE Archived # {}
    <3>1. PICK e \in Archived : \A o \in Archived : o.uid <= e.uid
      BY <1>1, <2>1, GreatestUid
    <3>2. ASSUME NEW o \in S, o # e PROVE Before(o, e)
      BY <1>1, <3>1, <3>2, BeforeMeans, UidFacts DEF OneFileEach
    <3> QED BY <3>1, <3>2
  <2>2. CASE Archived = {}
    <3>1. PICK e \in S : \A o \in S : o.uid <= e.uid
      BY <1>1, GreatestUid
    <3>2. ASSUME NEW o \in S, o # e PROVE Before(o, e)
      BY <1>1, <2>2, <3>1, <3>2, BeforeMeans, UidFacts DEF OneFileEach
    <3> QED BY <3>1, <3>2
  <2> QED BY <2>1, <2>2
<1> QED BY <1>2

(* Looking an id up finds a file of that id, the only one if ids are one    *)
(* file's each.                                                             *)
IdsDistinct(fs) == \A e, o \in fs : IdOf(e) = IdOf(o) => e = o

LEMMA HoldersOf ==
  ASSUME NEW p \in Scenarios, NEW fs, TreeOK(p, fs), NEW id
  PROVE  ByIDAll(At(fs), id) = {e \in fs : IdOf(e) = id} /\ TreeOK(p, ByIDAll(At(fs), id))
<1>1. Entities(At(fs)) = fs
  BY FileFacts DEF Entities, At, TreeOK
<1>2. ByIDAll(At(fs), id) = {e \in fs : IdOf(e) = id}
  BY <1>1 DEF ByIDAll
<1> QED BY <1>2 DEF TreeOK, OneFileEach

LEMMA LookupFinds ==
  ASSUME NEW p \in Scenarios, NEW fs, TreeOK(p, fs), NEW id, HasID(At(fs), id)
  PROVE  ByID(At(fs), id) \in fs /\ IdOf(ByID(At(fs), id)) = id
<1>1. First(ByIDAll(At(fs), id)) \in ByIDAll(At(fs), id)
  BY HoldersOf, FirstFacts DEF HasID
<1> QED BY <1>1, HoldersOf DEF ByID

LEMMA LookupUnique ==
  ASSUME NEW p \in Scenarios, NEW fs, TreeOK(p, fs), IdsDistinct(fs), NEW o \in fs
  PROVE  HasID(At(fs), IdOf(o)) /\ ByID(At(fs), IdOf(o)) = o /\ Designated(fs, IdOf(o)) = o.uid
<1>1. HasID(At(fs), IdOf(o))
  BY HoldersOf DEF HasID
<1>2. ByID(At(fs), IdOf(o)) = o
  BY <1>1, LookupFinds DEF IdsDistinct
<1> QED BY <1>1, <1>2 DEF Designated

(* What an id designates: its holder, or nothing.                           *)
LEMMA DesignatedFacts ==
  ASSUME NEW p \in Scenarios, NEW fs, TreeOK(p, fs), NEW id
  PROVE  /\ Designated(fs, id) \in DOMAIN p.cast \cup {0}
         /\ Designated(fs, id) # 0 => \E o \in fs : IdOf(o) = id /\ o.uid = Designated(fs, id)
         /\ Designated(fs, id) = 0 => \A o \in fs : IdOf(o) # id
<1>1. CASE HasID(At(fs), id)
  <2>1. ByID(At(fs), id) \in fs /\ IdOf(ByID(At(fs), id)) = id
    BY <1>1, LookupFinds
  <2>2. ByID(At(fs), id).uid \in DOMAIN p.cast /\ ByID(At(fs), id).uid >= 1
    BY <2>1, FileFacts DEF TreeOK
  <2>3. Designated(fs, id) = ByID(At(fs), id).uid
    BY <1>1 DEF Designated
  <2> QED BY <2>1, <2>2, <2>3
<1>2. CASE ~HasID(At(fs), id)
  BY <1>2, HoldersOf DEF Designated, HasID
<1> QED BY <1>1, <1>2

-----------------------------------------------------------------------------
(* What the verbs' updates keep of a file, and what a label changes.        *)
Kin(f, e) ==
  /\ f.uid = e.uid /\ f.kind = e.kind /\ f.n = e.n /\ f.prior = e.prior
  /\ e.arch => f.arch

Plain(f, e) == f.refs = e.refs /\ f.status = e.status /\ f.byCommit = e.byCommit

LEMMA KinStays ==
  ASSUME NEW p \in Scenarios, NEW e \in FileOf(p), NEW f \in Shape(p), Kin(f, e),
         f.slug = e.slug, f.status \in Statuses(e.kind)
  PROVE  f \in FileOf(p)
BY FileFacts DEF Kin, FileOf

LEMMA ShapeOf == \A p : FileOf(p) \subseteq Shape(p)
BY DEF FileOf

LEMMA StatusUpdate ==
  ASSUME NEW p \in Scenarios, NEW e \in FileOf(p), NEW to \in Statuses(e.kind)
  PROVE  LET f == [e EXCEPT !.status = to]
         IN /\ f \in FileOf(p) /\ Kin(f, e) /\ f.refs = e.refs /\ f.area = e.area
            /\ f.byCommit = e.byCommit /\ f.arch = e.arch /\ f.status = to
<1> DEFINE f == [e EXCEPT !.status = to]
<1>1. e \in Shape(p) /\ e.kind \in Kinds
  BY ShapeOf, FileFacts
<1>2. f \in Shape(p)
  BY <1>1 DEF Shape
<1>3. /\ Kin(f, e) /\ f.slug = e.slug /\ f.status = to
      /\ f.refs = e.refs /\ f.area = e.area /\ f.byCommit = e.byCommit /\ f.arch = e.arch
  BY <1>1 DEF Shape, Kin
<1> HIDE DEF f
<1>4. f \in FileOf(p)
  BY <1>2, <1>3, KinStays
<1> QED BY <1>3, <1>4 DEF f

LEMMA AreaUpdate ==
  ASSUME NEW p \in Scenarios, NEW e \in FileOf(p), NEW v \in p.names \cup {None, AreaGlobal}
  PROVE  LET f == [e EXCEPT !.area = v]
         IN /\ f \in FileOf(p) /\ Kin(f, e) /\ Plain(f, e) /\ f.refs = e.refs /\ f.area = v
            /\ f.arch = e.arch
<1> DEFINE f == [e EXCEPT !.area = v]
<1>1. e \in Shape(p) /\ e.status \in Statuses(e.kind)
  BY ShapeOf, FileFacts
<1>2. f \in Shape(p)
  BY <1>1 DEF Shape
<1>3. /\ Kin(f, e) /\ f.slug = e.slug /\ f.status = e.status /\ f.refs = e.refs /\ f.area = v
      /\ f.byCommit = e.byCommit /\ f.arch = e.arch
  BY <1>1 DEF Shape, Kin
<1> HIDE DEF f
<1>4. f \in FileOf(p)
  BY <1>1, <1>2, <1>3, KinStays
<1> QED BY <1>3, <1>4 DEF f, Plain

LEMMA PriorityUpdate ==
  ASSUME NEW p \in Scenarios, NEW e \in FileOf(p), NEW l \in Levels \cup {None}
  PROVE  LET f == [e EXCEPT !.prio = l]
         IN /\ f \in FileOf(p) /\ Kin(f, e) /\ Plain(f, e) /\ f.refs = e.refs /\ f.area = e.area
            /\ f.arch = e.arch
<1> DEFINE f == [e EXCEPT !.prio = l]
<1>1. e \in Shape(p) /\ e.status \in Statuses(e.kind)
  BY ShapeOf, FileFacts
<1>2. f \in Shape(p)
  BY <1>1 DEF Shape
<1>3. /\ Kin(f, e) /\ f.slug = e.slug /\ f.status = e.status /\ f.refs = e.refs /\ f.area = e.area
      /\ f.byCommit = e.byCommit /\ f.arch = e.arch
  BY <1>1 DEF Shape, Kin
<1> HIDE DEF f
<1>4. f \in FileOf(p)
  BY <1>1, <1>2, <1>3, KinStays
<1> QED BY <1>3, <1>4 DEF f, Plain

LEMMA ArchiveUpdate ==
  ASSUME NEW p \in Scenarios, NEW e \in FileOf(p)
  PROVE  LET f == [e EXCEPT !.arch = TRUE]
         IN f \in FileOf(p) /\ Kin(f, e) /\ Plain(f, e) /\ f.refs = e.refs /\ f.area = e.area
<1> DEFINE f == [e EXCEPT !.arch = TRUE]
<1>1. e \in Shape(p) /\ e.status \in Statuses(e.kind)
  BY ShapeOf, FileFacts
<1>2. f \in Shape(p)
  BY <1>1 DEF Shape
<1>3. /\ Kin(f, e) /\ f.slug = e.slug /\ f.status = e.status /\ f.refs = e.refs /\ f.area = e.area
      /\ f.byCommit = e.byCommit
  BY <1>1 DEF Shape, Kin
<1> HIDE DEF f
<1>4. f \in FileOf(p)
  BY <1>1, <1>2, <1>3, KinStays
<1> QED BY <1>3, <1>4 DEF f, Plain

LEMMA RefsUpdate ==
  ASSUME NEW p \in Scenarios, NEW e \in FileOf(p), NEW rs \in SUBSET Reference(p)
  PROVE  LET f == [e EXCEPT !.refs = rs]
         IN /\ f \in FileOf(p) /\ Kin(f, e) /\ f.refs = rs /\ f.area = e.area /\ f.arch = e.arch
            /\ f.status = e.status /\ f.byCommit = e.byCommit
<1> DEFINE f == [e EXCEPT !.refs = rs]
<1>1. e \in Shape(p) /\ e.status \in Statuses(e.kind)
  BY ShapeOf, FileFacts
<1>2. f \in Shape(p)
  BY <1>1 DEF Shape
<1>3. /\ Kin(f, e) /\ f.slug = e.slug /\ f.status = e.status /\ f.refs = rs /\ f.area = e.area /\ f.arch = e.arch
      /\ f.byCommit = e.byCommit
  BY <1>1 DEF Shape, Kin
<1> HIDE DEF f
<1>4. f \in FileOf(p)
  BY <1>1, <1>2, <1>3, KinStays
<1> QED BY <1>3, <1>4 DEF f

-----------------------------------------------------------------------------
(* The number add, reallocate and import draw is above every one in use,    *)
(* given up or reserved.                                                    *)
LEMMA Allocation ==
  ASSUME NEW p \in Scenarios, NEW fs, TreeOK(p, fs), NEW k,
         NEW rs \in SUBSET [kind : {k}, n : 0..MaxNum]
  PROVE  /\ AllocateID(At(fs), k, rs) \in Nat \ {0}
         /\ \A e \in fs : e.kind = k => e.n < AllocateID(At(fs), k, rs)
         /\ \A i \in rs : i.n < AllocateID(At(fs), k, rs)
<1> DEFINE N == {e.n : e \in ByKind(At(fs), k)}
           M == {i.n : i \in {i \in rs : i.kind = k}}
           S == {0} \cup N \cup M
<1>1. ByKind(At(fs), k) = {e \in fs : e.kind = k}
  BY FileFacts DEF ByKind, Entities, At, TreeOK
<1>2. \A e \in fs : e.n \in Nat /\ e.n <= MaxNum
  BY NumberFacts DEF TreeOK
<1>3. \A i \in rs : i.n \in Nat /\ i.n <= MaxNum /\ i.kind = k
  BY ScenarioFacts
<1>4. MaxNum \in Nat
  BY ScenarioFacts
<1>5. S \subseteq Nat /\ 0 \in S /\ \A x \in S : x <= MaxNum
  BY <1>1, <1>2, <1>3, <1>4
<1>6. (\A e \in fs : e.kind = k => e.n \in S) /\ \A i \in rs : i.n \in S
  BY <1>1, <1>3
<1>7. AllocateID(At(fs), k, rs) = Max(S) + 1
  BY DEF AllocateID
<1> HIDE DEF S
<1>8. \E x \in S : \A y \in S : y <= x
  BY <1>4, <1>5, GreatestElement
<1>9. \E x \in S : \A y \in S : x >= y
  BY <1>5, <1>8
<1>10. Max(S) \in S /\ \A y \in S : Max(S) >= y
  BY <1>9 DEF Max
<1>11. Max(S) \in Nat
  BY <1>5, <1>10
<1>12. \A y \in S : y < Max(S) + 1
  BY <1>5, <1>10, <1>11
<1> QED BY <1>6, <1>7, <1>11, <1>12

-----------------------------------------------------------------------------
(* The search for cycles.  A graph is free of cycles when every set of its  *)
(* nodes has one with no edge back into the set.                            *)
CycleFree(edges) ==
  \A S \in SUBSET DOMAIN edges : S # {} => \E n \in S : edges[n] \cap S = {}

\* What a search looks like, and where it starts.
Search(edges) ==
  [stack : Seq(NodesOf(edges)), white : SUBSET NodesOf(edges),
   left : SUBSET EdgePairs(edges), onCycle : SUBSET NodesOf(edges)]
SearchStart(edges) ==
  [stack |-> <<>>, white |-> NodesOf(edges), left |-> EdgePairs(edges), onCycle |-> {}]
Black(edges, s) == {n \in NodesOf(edges) : n \notin s.white /\ n \notin ToSet(s.stack)}
Looped(edges) == \E S \in SUBSET DOMAIN edges : S # {} /\ \A n \in S : edges[n] \cap S # {}

LEMMA EdgeFacts ==
  ASSUME NEW edges
  PROVE  /\ \A n, m : <<n, m>> \in EdgePairs(edges) <=> n \in DOMAIN edges /\ m \in edges[n]
         /\ \A p \in EdgePairs(edges) : p = <<p[1], p[2]>> /\ p[1] \in DOMAIN edges /\ p[2] \in edges[p[1]]
         /\ \A n \in DOMAIN edges : n \in NodesOf(edges) /\ edges[n] \subseteq NodesOf(edges)
BY DEF EdgePairs, NodesOf

\* The steps of a search: begin at a source, go back, or look at an edge.
Begins(s, t, n) ==
  /\ s.stack = <<>> /\ n \in s.white /\ t = Enter(s, n)
GoesBack(s, t) ==
  /\ s.stack # <<>> /\ {e \in s.left : e[1] = Last(s.stack)} = {}
  /\ t = [s EXCEPT !.stack = Front(@)]
Looks(s, t, n, m) ==
  /\ s.stack # <<>> /\ n = Last(s.stack) /\ <<n, m>> \in s.left /\ t = LookedAt(s, n, m)
Done(edges, s) == s.stack = <<>> /\ s.white \cap DOMAIN edges = {}

LEMMA VisitSteps ==
  ASSUME NEW edges, NEW h \in Nat, NodesOf(edges) \subseteq 1..h, NEW s \in Search(edges)
  PROVE  LET t == visit(s, DOMAIN edges)
         IN \/ Done(edges, s) /\ t = s
            \/ \E n \in DOMAIN edges : Begins(s, t, n)
            \/ GoesBack(s, t)
            \/ \E n \in NodesOf(edges), m \in NodesOf(edges) : Looks(s, t, n, m)
<1> DEFINE t == visit(s, DOMAIN edges)
           n == Last(s.stack)
           out == {e \in s.left : e[1] = n}
           next == {e[2] : e \in out}
<1>0. /\ s.stack \in Seq(NodesOf(edges)) /\ s.white \subseteq NodesOf(edges)
      /\ s.left \subseteq EdgePairs(edges)
  BY DEF Search
<1>1. ASSUME NEW S, S \subseteq NodesOf(edges), S # {} PROVE Min(S) \in S
  <2>1. S \subseteq Nat
    BY <1>1
  <2>2. \E x \in S : \A y \in S : x =< y
    BY <1>1, <2>1, LeastElement
  <2> QED BY <2>2 DEF Min
<1>2. CASE s.stack = <<>>
  <2>1. t = IF s.white \cap DOMAIN edges = {} THEN s ELSE Enter(s, Min(s.white \cap DOMAIN edges))
    BY <1>2 DEF visit
  <2>2. CASE s.white \cap DOMAIN edges = {}
    BY <1>2, <2>1, <2>2 DEF Done
  <2>3. CASE s.white \cap DOMAIN edges # {}
    <3>1. Min(s.white \cap DOMAIN edges) \in s.white \cap DOMAIN edges
      BY <1>0, <1>1, <2>3
    <3> QED BY <1>2, <2>1, <2>3, <3>1 DEF Begins
  <2> QED BY <2>2, <2>3
<1>3. CASE s.stack # <<>> /\ next = {}
  <2>1. out = {}
    BY <1>3
  <2>2. t = [s EXCEPT !.stack = Front(@)]
    BY <1>3 DEF visit
  <2> QED BY <1>3, <2>1, <2>2 DEF GoesBack
<1>4. CASE s.stack # <<>> /\ next # {}
  <2>1. \A e \in out : e = <<n, e[2]>> /\ e[2] \in NodesOf(edges) /\ n \in NodesOf(edges)
    <3>1. \A e \in out : e \in EdgePairs(edges) /\ e[1] = n
      BY <1>0
    <3> QED BY <3>1, EdgeFacts
  <2>2. next \subseteq NodesOf(edges)
    BY <2>1
  <2>3. Min(next) \in next
    BY <1>1, <1>4, <2>2
  <2>4. <<n, Min(next)>> \in s.left /\ n \in NodesOf(edges) /\ Min(next) \in NodesOf(edges)
    <3>1. PICK e \in out : Min(next) = e[2]
      BY <2>3
    <3>2. e \in s.left
      OBVIOUS
    <3> HIDE DEF next, out
    <3> QED BY <2>1, <3>1, <3>2
  <2>5. t = LookedAt(s, n, Min(next))
    BY <1>4 DEF visit
  <2> QED BY <1>4, <2>4, <2>5 DEF Looks
<1> QED BY <1>2, <1>3, <1>4

\* A search with one field replaced.
LEMMA SearchUpdates ==
  ASSUME NEW edges, NEW s \in Search(edges), NEW x
  PROVE  /\ [s EXCEPT !.stack = x] = [stack |-> x, white |-> s.white, left |-> s.left, onCycle |-> s.onCycle]
         /\ [s EXCEPT !.left = x] = [stack |-> s.stack, white |-> s.white, left |-> x, onCycle |-> s.onCycle]
BY DEF Search

LEMMA StackReplaced ==
  ASSUME NEW stack, NEW white, NEW left, NEW onCycle, NEW x, NEW s,
         s = [stack |-> stack, white |-> white, left |-> left, onCycle |-> onCycle]
  PROVE  [s EXCEPT !.stack = x] = [stack |-> x, white |-> white, left |-> left, onCycle |-> onCycle]
OBVIOUS

\* A record of these fields.
IsSearch(s) == s = [stack |-> s.stack, white |-> s.white, left |-> s.left, onCycle |-> s.onCycle]

LEMMA Entered ==
  ASSUME NEW s, IsSearch(s), NEW n
  PROVE  Enter(s, n)
           = [stack |-> Append(s.stack, n), white |-> s.white \ {n}, left |-> s.left, onCycle |-> s.onCycle]
<1> USE DEF IsSearch
<1>1. PICK t : t = [s EXCEPT !.white = @ \ {n}]
  OBVIOUS
<1>2. t = [stack |-> s.stack, white |-> s.white \ {n}, left |-> s.left, onCycle |-> s.onCycle]
  BY <1>1
<1>3. PICK x : x = Append(t.stack, n)
  OBVIOUS
<1>4. Enter(s, n) = [t EXCEPT !.stack = x]
  BY <1>1, <1>3, Zenon DEF Enter
<1>5. [t EXCEPT !.stack = x] = [stack |-> x, white |-> s.white \ {n}, left |-> s.left, onCycle |-> s.onCycle]
  BY <1>2
<1>6. t.stack = s.stack
  BY <1>2
<1> QED BY <1>3, <1>4, <1>5, <1>6

\* What a look at an edge does.
LEMMA LookKinds ==
  ASSUME NEW edges, NEW s \in Search(edges), NEW n, NEW m, <<n, m>> \in s.left
  PROVE  LET t == LookedAt(s, n, m)
             left == s.left \ {<<n, m>>}
         IN \/ /\ m \in s.white
               /\ t = [stack |-> Append(s.stack, m), white |-> s.white \ {m}, left |-> left, onCycle |-> s.onCycle]
            \/ /\ m \notin s.white
               /\ \E i \in DOMAIN s.stack :
                    /\ s.stack[i] = m
                    /\ t = [stack |-> s.stack, white |-> s.white, left |-> left,
                            onCycle |-> s.onCycle \cup {s.stack[j] : j \in i..Len(s.stack)}]
            \/ /\ m \notin s.white /\ m \notin ToSet(s.stack)
               /\ t = [stack |-> s.stack, white |-> s.white, left |-> left, onCycle |-> s.onCycle]
<1> DEFINE t == LookedAt(s, n, m)
           left == s.left \ {<<n, m>>}
           u == [s EXCEPT !.left = @ \ {<<n, m>>}]
           i == CHOOSE i \in DOMAIN s.stack : s.stack[i] = m
           on == {s.stack[j] : j \in i..Len(s.stack)}
<1>1. u = [stack |-> s.stack, white |-> s.white, left |-> left, onCycle |-> s.onCycle]
  BY SearchUpdates
<1>0. t = CASE m \in s.white -> Enter(u, m)
            [] m \notin s.white /\ m \in ToSet(s.stack) -> [u EXCEPT !.onCycle = @ \cup on]
            [] OTHER -> u
  BY DEF LookedAt
<1> HIDE DEF t, left, u, on
<1>2. CASE m \in s.white
  <2>1. t = Enter(u, m)
    BY <1>0, <1>2
  <2>2. Enter(u, m) = [stack |-> Append(s.stack, m), white |-> s.white \ {m}, left |-> left, onCycle |-> s.onCycle]
    <3>1. PICK v : v = u
      OBVIOUS
    <3>2. /\ IsSearch(v) /\ v.stack = s.stack /\ v.white = s.white
          /\ v.left = left /\ v.onCycle = s.onCycle
      BY <1>1, <3>1 DEF IsSearch
    <3>3. Enter(v, m) = [stack |-> Append(v.stack, m), white |-> v.white \ {m}, left |-> v.left, onCycle |-> v.onCycle]
      BY <3>2, Entered
    <3> QED BY <3>1, <3>2, <3>3
  <2> QED BY <1>2, <2>1, <2>2 DEF t, left
<1>3. CASE m \notin s.white /\ m \in ToSet(s.stack)
  <2>1. i \in DOMAIN s.stack /\ s.stack[i] = m
    BY <1>3 DEF ToSet
  <2>2. t = [u EXCEPT !.onCycle = @ \cup on]
    BY <1>0, <1>3
  <2>3. t = [stack |-> s.stack, white |-> s.white, left |-> left, onCycle |-> s.onCycle \cup on]
    BY <1>1, <2>2
  <2> QED BY <1>3, <2>1, <2>3 DEF t, left, on
<1>4. CASE m \notin s.white /\ m \notin ToSet(s.stack)
  <2>1. t = u
    BY <1>0, <1>4
  <2> QED BY <1>1, <1>4, <2>1 DEF t, left
<1> QED BY <1>2, <1>3, <1>4

\* The four ways a step changes a search.
AllElse(s, t) == t.white = s.white /\ t.left = s.left /\ t.onCycle = s.onCycle
Entering(s, t, n) ==
  /\ n \in s.white /\ t.stack = Append(s.stack, n) /\ t.white = s.white \ {n} /\ t.onCycle = s.onCycle
Leaving(s, t) ==
  /\ s.stack # <<>> /\ (\A m : <<Last(s.stack), m>> \notin s.left)
  /\ t.stack = Front(s.stack) /\ AllElse(s, t)
Looking(s, t, m) ==
  /\ s.stack # <<>> /\ <<Last(s.stack), m>> \in s.left /\ t.left = s.left \ {<<Last(s.stack), m>>}
Closing(s, t, m) ==
  /\ t.stack = s.stack /\ t.white = s.white
  /\ \E i \in DOMAIN s.stack :
       s.stack[i] = m /\ t.onCycle = s.onCycle \cup {s.stack[j] : j \in i..Len(s.stack)}
Passing(s, t, m) ==
  /\ m \notin s.white /\ m \notin ToSet(s.stack)
  /\ t.stack = s.stack /\ t.white = s.white /\ t.onCycle = s.onCycle
Moves(edges, s, t) ==
  \/ Done(edges, s) /\ t = s
  \/ s.stack = <<>> /\ t.left = s.left /\ \E n \in DOMAIN edges : Entering(s, t, n)
  \/ Leaving(s, t)
  \/ \E m \in NodesOf(edges) : Looking(s, t, m) /\ (Entering(s, t, m) \/ Closing(s, t, m) \/ Passing(s, t, m))

LEMMA VisitMoves ==
  ASSUME NEW edges, NEW h \in Nat, NodesOf(edges) \subseteq 1..h, NEW s \in Search(edges)
  PROVE  LET t == visit(s, DOMAIN edges)
         IN Moves(edges, s, t) /\ t \in Search(edges)
<1> DEFINE t == visit(s, DOMAIN edges)
<1>0. /\ s.stack \in Seq(NodesOf(edges)) /\ s.white \subseteq NodesOf(edges)
      /\ s.left \subseteq EdgePairs(edges) /\ s.onCycle \subseteq NodesOf(edges)
      /\ IsSearch(s)
  BY DEF Search, IsSearch
<1>1. \/ Done(edges, s) /\ t = s
      \/ \E n \in DOMAIN edges : Begins(s, t, n)
      \/ GoesBack(s, t)
      \/ \E n \in NodesOf(edges), m \in NodesOf(edges) : Looks(s, t, n, m)
  BY VisitSteps
<1>2. \A a, w, l, c : /\ a \in Seq(NodesOf(edges)) /\ w \subseteq NodesOf(edges)
                      /\ l \subseteq EdgePairs(edges) /\ c \subseteq NodesOf(edges)
                      => [stack |-> a, white |-> w, left |-> l, onCycle |-> c] \in Search(edges)
  BY DEF Search
<1> HIDE DEF t
<1>3. CASE Done(edges, s) /\ t = s
  BY <1>3 DEF Moves, t
<1>4. ASSUME NEW n \in DOMAIN edges, Begins(s, t, n) PROVE Moves(edges, s, t) /\ t \in Search(edges)
  <2>1. t = [stack |-> Append(s.stack, n), white |-> s.white \ {n}, left |-> s.left, onCycle |-> s.onCycle]
    BY <1>0, <1>4, Entered DEF Begins
  <2>2. Append(s.stack, n) \in Seq(NodesOf(edges))
    BY <1>0, EdgeFacts, AppendProperties
  <2>3. t \in Search(edges)
    <3>1. s.white \ {n} \subseteq NodesOf(edges)
      BY <1>0
    <3> QED BY <1>0, <1>2, <2>1, <2>2, <3>1
  <2>4. Entering(s, t, n) /\ t.left = s.left /\ s.stack = <<>>
    BY <1>4, <2>1 DEF Begins, Entering
  <2> QED BY <2>3, <2>4 DEF Moves
<1>5. ASSUME GoesBack(s, t) PROVE Moves(edges, s, t) /\ t \in Search(edges)
  <2>1. PICK x : x = Front(s.stack)
    OBVIOUS
  <2>2. t = [stack |-> x, white |-> s.white, left |-> s.left, onCycle |-> s.onCycle]
    BY <1>5, <2>1, SearchUpdates DEF GoesBack
  <2>3. x \in Seq(NodesOf(edges))
    <3>1. s.stack # <<>>
      BY <1>5 DEF GoesBack
    <3>2. Len(s.stack) \in Nat /\ Len(s.stack) - 1 <= Len(s.stack)
      BY <1>0
    <3>3. \A i \in 1..(Len(s.stack) - 1) : s.stack[i] \in NodesOf(edges)
      BY <1>0, ElementOfSeq
    <3> QED BY <1>0, <2>1, <3>2, <3>3, SubSeqProperties DEF Front
  <2>4. t \in Search(edges)
    BY <1>0, <1>2, <2>2, <2>3
  <2>5. \A m : <<Last(s.stack), m>> \notin s.left
    <3> SUFFICES ASSUME NEW m, <<Last(s.stack), m>> \in s.left PROVE FALSE
      OBVIOUS
    <3>1. <<Last(s.stack), m>>[1] = Last(s.stack)
      OBVIOUS
    <3>2. <<Last(s.stack), m>> \in {e \in s.left : e[1] = Last(s.stack)}
      BY <3>1
    <3> QED BY <1>5, <3>2 DEF GoesBack
  <2>6. Leaving(s, t)
    BY <1>5, <2>1, <2>2, <2>5 DEF GoesBack, Leaving, AllElse
  <2> QED BY <2>4, <2>6 DEF Moves
<1>6. ASSUME NEW n \in NodesOf(edges), NEW m \in NodesOf(edges), Looks(s, t, n, m)
      PROVE  Moves(edges, s, t) /\ t \in Search(edges)
  <2> DEFINE left == s.left \ {<<n, m>>}
  <2>1. s.stack # <<>> /\ n = Last(s.stack) /\ <<n, m>> \in s.left /\ t = LookedAt(s, n, m)
    BY <1>6 DEF Looks
  <2>2. left \subseteq EdgePairs(edges)
    BY <1>0
  <2> HIDE DEF left
  <2>3. CASE /\ m \in s.white
             /\ t = [stack |-> Append(s.stack, m), white |-> s.white \ {m}, left |-> left, onCycle |-> s.onCycle]
    <3>1. Append(s.stack, m) \in Seq(NodesOf(edges))
      BY <1>0, AppendProperties
    <3>2. s.white \ {m} \subseteq NodesOf(edges)
      BY <1>0
    <3>3. t \in Search(edges)
      BY <1>0, <1>2, <2>2, <2>3, <3>1, <3>2
    <3>4. Entering(s, t, m) /\ t.left = left
      BY <2>3 DEF Entering
    <3> QED BY <2>1, <3>3, <3>4 DEF Moves, Looking, left
  <2>4. CASE /\ m \notin s.white
             /\ \E i \in DOMAIN s.stack :
                  /\ s.stack[i] = m
                  /\ t = [stack |-> s.stack, white |-> s.white, left |-> left,
                          onCycle |-> s.onCycle \cup {s.stack[j] : j \in i..Len(s.stack)}]
    <3>1. PICK i \in DOMAIN s.stack :
                  /\ s.stack[i] = m
                  /\ t = [stack |-> s.stack, white |-> s.white, left |-> left,
                          onCycle |-> s.onCycle \cup {s.stack[j] : j \in i..Len(s.stack)}]
      BY <2>4
    <3>2. PICK c : c = s.onCycle \cup {s.stack[j] : j \in i..Len(s.stack)}
      OBVIOUS
    <3>3. c \subseteq NodesOf(edges)
      <4>1. \A j \in i..Len(s.stack) : s.stack[j] \in NodesOf(edges)
        BY <1>0, <3>1, ElementOfSeq
      <4> QED BY <1>0, <3>2, <4>1
    <3>4. t = [stack |-> s.stack, white |-> s.white, left |-> left, onCycle |-> c]
      BY <3>1, <3>2
    <3>5. t \in Search(edges)
      BY <1>0, <1>2, <2>2, <3>3, <3>4
    <3>6. Closing(s, t, m) /\ t.left = left
      BY <3>1, <3>2, <3>4 DEF Closing
    <3> QED BY <2>1, <3>5, <3>6 DEF Moves, Looking, left
  <2>5. CASE /\ m \notin s.white /\ m \notin ToSet(s.stack)
             /\ t = [stack |-> s.stack, white |-> s.white, left |-> left, onCycle |-> s.onCycle]
    <3>1. t \in Search(edges)
      BY <1>0, <1>2, <2>2, <2>5
    <3>2. Passing(s, t, m) /\ t.left = left
      BY <2>5 DEF Passing
    <3> QED BY <2>1, <3>1, <3>2 DEF Moves, Looking, left
  <2> QED BY <2>1, <2>3, <2>4, <2>5, LookKinds DEF left
<1> QED BY <1>1, <1>3, <1>4, <1>5, <1>6 DEF t

(* What the search keeps: the stack is a walk of distinct nodes, edges of   *)
(* white nodes are all left to look at, and what it recorded is a loop.     *)
StackInv(edges, s) ==
  /\ \A i \in 1..Len(s.stack) : s.stack[i] \notin s.white
  /\ \A i \in 1..Len(s.stack), j \in 1..Len(s.stack) : s.stack[i] = s.stack[j] => i = j
  /\ \A i \in 1..(Len(s.stack) - 1) : <<s.stack[i], s.stack[i + 1]>> \in EdgePairs(edges)
  /\ \A n \in s.white : \A m : <<n, m>> \in EdgePairs(edges) => <<n, m>> \in s.left
LoopInv(edges, s) == s.onCycle # {} => Looped(edges)

\* While no loop was found, what is black is closed and in order, and what the stack has
\* looked at is black or its next.
BlackInv(edges, s) ==
  /\ \A n \in Black(edges, s) : \A m : <<n, m>> \notin s.left
  /\ \A n \in Black(edges, s) : \A m : <<n, m>> \in EdgePairs(edges) => m \in Black(edges, s)
  /\ \A i \in 1..Len(s.stack) : \A m : <<s.stack[i], m>> \in EdgePairs(edges) \ s.left =>
       m \in Black(edges, s) \/ (i < Len(s.stack) /\ m = s.stack[i + 1])
  /\ \A S \in SUBSET Black(edges, s) : S # {} =>
       \E n \in S : \A m \in S : <<n, m>> \notin EdgePairs(edges)
SearchInv(edges, s) ==
  s \in Search(edges) /\ StackInv(edges, s) /\ LoopInv(edges, s) /\ (s.onCycle = {} => BlackInv(edges, s))

LEMMA FrontFacts ==
  ASSUME NEW N, NEW a \in Seq(N), a # <<>>
  PROVE  /\ Front(a) \in Seq(N) /\ Len(a) \in Nat /\ Len(a) >= 1 /\ Len(Front(a)) = Len(a) - 1
         /\ \A i \in 1..(Len(a) - 1) : Front(a)[i] = a[i]
         /\ Last(a) = a[Len(a)] /\ Last(a) \in N
         /\ ToSet(a) = ToSet(Front(a)) \cup {Last(a)}
<1>1. Len(a) \in Nat /\ Len(a) >= 1
  <2>1. Len(a) \in Nat /\ Len(a) # 0
    BY EmptySeq
  <2> QED BY <2>1
<1>2. \A i \in 1..Len(a) : a[i] \in N
  BY ElementOfSeq
<1>3. Front(a) = SubSeq(a, 1, Len(a) - 1)
  BY DEF Front
<1>4. /\ Front(a) \in Seq(N) /\ Len(Front(a)) = Len(a) - 1
      /\ \A i \in 1..(Len(a) - 1) : Front(a)[i] = a[i]
  <2>1. PICK m, n : m = 1 /\ n = Len(a) - 1
    OBVIOUS
  <2>2. m \in 1..(Len(a) + 1) /\ n \in (m - 1)..Len(a)
    BY <1>1, <2>1
  <2>3. /\ SubSeq(a, m, n) \in Seq(N) /\ Len(SubSeq(a, m, n)) = n - m + 1
        /\ \A i \in 1..(n - m + 1) : SubSeq(a, m, n)[i] = a[m + i - 1]
    BY <2>2, SubSeqProperties
  <2>4. n - m + 1 = Len(a) - 1 /\ \A i \in 1..(Len(a) - 1) : m + i - 1 = i
    BY <1>1, <2>1
  <2>5. Front(a) = SubSeq(a, m, n)
    BY <1>3, <2>1
  <2> QED BY <2>3, <2>4, <2>5
<1>5. Last(a) = a[Len(a)] /\ Last(a) \in N
  BY <1>1, <1>2 DEF Last
<1>6. DOMAIN a = 1..Len(a) /\ DOMAIN Front(a) = 1..(Len(a) - 1)
  BY <1>1, <1>4, LenProperties
<1>7. ToSet(a) = ToSet(Front(a)) \cup {Last(a)}
  <2>1. ToSet(a) = {a[i] : i \in 1..Len(a)} /\ ToSet(Front(a)) = {Front(a)[i] : i \in 1..(Len(a) - 1)}
    BY <1>6 DEF ToSet
  <2>2. 1..Len(a) = 1..(Len(a) - 1) \cup {Len(a)}
    BY <1>1
  <2> QED BY <1>4, <1>5, <2>1, <2>2
<1> QED BY <1>1, <1>4, <1>5, <1>7

LEMMA AppendFacts ==
  ASSUME NEW N, NEW a \in Seq(N), NEW x \in N
  PROVE  /\ Append(a, x) \in Seq(N) /\ Len(a) \in Nat /\ Len(Append(a, x)) = Len(a) + 1
         /\ \A i \in 1..Len(a) : Append(a, x)[i] = a[i]
         /\ Append(a, x)[Len(a) + 1] = x
         /\ ToSet(Append(a, x)) = ToSet(a) \cup {x}
<1>1. /\ Append(a, x) \in Seq(N) /\ Len(a) \in Nat /\ Len(Append(a, x)) = Len(a) + 1
      /\ \A i \in 1..Len(a) : Append(a, x)[i] = a[i]
      /\ Append(a, x)[Len(a) + 1] = x
  BY AppendProperties, LenProperties
<1>2. DOMAIN a = 1..Len(a) /\ DOMAIN Append(a, x) = 1..(Len(a) + 1)
  BY <1>1, LenProperties
<1>3. 1..(Len(a) + 1) = 1..Len(a) \cup {Len(a) + 1}
  BY <1>1
<1>4. /\ ToSet(a) = {a[i] : i \in 1..Len(a)}
      /\ ToSet(Append(a, x)) = {Append(a, x)[i] : i \in 1..(Len(a) + 1)}
  BY <1>2 DEF ToSet
<1>5. ToSet(Append(a, x)) = ToSet(a) \cup {x}
  BY <1>1, <1>3, <1>4
<1> QED BY <1>1, <1>5

LEMMA StackFacts ==
  ASSUME NEW N, NEW a \in Seq(N)
  PROVE  ToSet(a) = {a[i] : i \in 1..Len(a)} /\ Len(a) \in Nat
BY LenProperties DEF ToSet

LEMMA EnterKeeps ==
  ASSUME NEW edges, NEW s, SearchInv(edges, s), NEW t \in Search(edges), NEW m \in NodesOf(edges),
         Entering(s, t, m), (s.stack = <<>> /\ t.left = s.left) \/ Looking(s, t, m)
  PROVE  SearchInv(edges, t)
<1> DEFINE N == NodesOf(edges)
           E == EdgePairs(edges)
           K == Len(s.stack)
<1>1. /\ s.stack \in Seq(N) /\ K \in Nat /\ Len(t.stack) = K + 1
      /\ \A i \in 1..K : t.stack[i] = s.stack[i]
      /\ t.stack[K + 1] = m /\ ToSet(t.stack) = ToSet(s.stack) \cup {m}
  <2>1. s.stack \in Seq(N)
    BY DEF SearchInv, Search
  <2>2. PICK a : a = s.stack
    OBVIOUS
  <2>3. t.stack = Append(a, m)
    BY <2>2 DEF Entering
  <2>4. a \in Seq(N)
    BY <2>1, <2>2
  <2>5. /\ Len(a) \in Nat /\ Len(Append(a, m)) = Len(a) + 1
        /\ \A i \in 1..Len(a) : Append(a, m)[i] = a[i]
        /\ Append(a, m)[Len(a) + 1] = m
        /\ ToSet(Append(a, m)) = ToSet(a) \cup {m}
    BY <2>4, AppendFacts
  <2> QED BY <2>1, <2>2, <2>3, <2>5
<1>2. m \in s.white /\ t.white = s.white \ {m} /\ t.onCycle = s.onCycle /\ s.white \subseteq N
  BY DEF Entering, SearchInv, Search
<1>3. StackInv(edges, s) /\ LoopInv(edges, s) /\ (s.onCycle = {} => BlackInv(edges, s)) /\ s.left \subseteq E
  BY DEF SearchInv, Search
<1>4. \/ K = 0 /\ t.left = s.left
      \/ K >= 1 /\ <<s.stack[K], m>> \in s.left /\ t.left = s.left \ {<<s.stack[K], m>>}
  <2>1. s.stack = <<>> => K = 0
    OBVIOUS
  <2>2. s.stack # <<>> => K >= 1
    BY <1>1, EmptySeq
  <2> QED BY <1>1, <2>1, <2>2 DEF Looking, Last
<1>5. Black(edges, t) = Black(edges, s)
  BY <1>1, <1>2 DEF Black
<1>6. \A i \in 1..K : s.stack[i] # m
  BY <1>2, <1>3 DEF StackInv
<1>7. \A i \in 1..(K + 1) : i \in 1..K \/ i = K + 1
  BY <1>1
<1> HIDE DEF K, E, N
<1>8. StackInv(edges, t)
  <2>1. ASSUME NEW i \in 1..(K + 1) PROVE t.stack[i] \notin t.white
    BY <1>1, <1>2, <1>3, <1>7 DEF StackInv, K
  <2>2. ASSUME NEW i \in 1..(K + 1), NEW j \in 1..(K + 1), t.stack[i] = t.stack[j] PROVE i = j
    <3>1. CASE i \in 1..K /\ j \in 1..K
      BY <1>1, <1>3, <2>2, <3>1 DEF StackInv, K
    <3>2. CASE i = K + 1 \/ j = K + 1
      BY <1>1, <1>6, <1>7, <2>2, <3>2
    <3> QED BY <1>7, <3>1, <3>2
  <2>3. ASSUME NEW i \in 1..K PROVE <<t.stack[i], t.stack[i + 1]>> \in E
    <3>1. CASE i = K
      <4>1. t.stack[i] = s.stack[K] /\ t.stack[i + 1] = m /\ K >= 1
        BY <1>1, <3>1
      <4> QED BY <1>3, <1>4, <4>1
    <3>2. CASE i # K
      <4>1. i \in 1..(K - 1) /\ i + 1 \in 1..K
        BY <1>1, <3>2
      <4>2. t.stack[i] = s.stack[i] /\ t.stack[i + 1] = s.stack[i + 1]
        BY <1>1, <4>1
      <4> QED BY <1>3, <4>1, <4>2 DEF StackInv, K, E
    <3> QED BY <3>1, <3>2
  <2>4. ASSUME NEW n \in t.white, NEW x, <<n, x>> \in E PROVE <<n, x>> \in t.left
    <3>1. n \in s.white /\ <<n, x>> \in s.left
      BY <1>2, <1>3, <2>4 DEF StackInv, E
    <3>2. CASE K = 0 /\ t.left = s.left
      BY <3>1, <3>2
    <3>3. CASE K >= 1 /\ t.left = s.left \ {<<s.stack[K], m>>}
      <4>1. s.stack[K] \notin s.white
        BY <1>1, <1>3, <3>3 DEF StackInv, K
      <4> QED BY <3>1, <3>3, <4>1
    <3> QED BY <1>4, <3>2, <3>3
  <2>5. Len(t.stack) = K + 1 /\ Len(t.stack) - 1 = K
    BY <1>1
  <2> QED BY <2>1, <2>2, <2>3, <2>4, <2>5 DEF StackInv, E
<1>9. LoopInv(edges, t)
  BY <1>2, <1>3 DEF LoopInv
<1>10. ASSUME t.onCycle = {} PROVE BlackInv(edges, t)
  <2>0. BlackInv(edges, s) /\ t.left \subseteq s.left
    BY <1>2, <1>3, <1>4, <1>10
  <2>1. ASSUME NEW n \in Black(edges, t), NEW x PROVE <<n, x>> \notin t.left
    BY <1>5, <2>0 DEF BlackInv
  <2>2. ASSUME NEW n \in Black(edges, t), NEW x, <<n, x>> \in E PROVE x \in Black(edges, t)
    BY <1>5, <2>0, <2>2 DEF BlackInv, E
  <2>3. ASSUME NEW i \in 1..(K + 1), NEW x, <<t.stack[i], x>> \in E \ t.left
        PROVE  x \in Black(edges, t) \/ (i < K + 1 /\ x = t.stack[i + 1])
    <3>1. CASE i = K + 1
      <4>1. <<m, x>> \in s.left
        BY <1>1, <1>2, <1>3, <2>3, <3>1 DEF StackInv, E
      <4>2. <<m, x>> \in t.left
        <5>1. K >= 1 => s.stack[K] # m
          BY <1>1, <1>6
        <5> QED BY <1>4, <4>1, <5>1
      <4> QED BY <1>1, <2>3, <3>1, <4>2
    <3>2. CASE i \in 1..K
      <4>1. t.stack[i] = s.stack[i] /\ i < K + 1
        BY <1>1, <3>2
      <4>2. CASE <<s.stack[i], x>> \in E \ s.left
        <5>1. x \in Black(edges, s) \/ (i < K /\ x = s.stack[i + 1])
          BY <2>0, <3>2, <4>2 DEF BlackInv, K, E
        <5>2. CASE i < K /\ x = s.stack[i + 1]
          <6>1. i + 1 \in 1..K
            BY <1>1, <3>2, <5>2
          <6> QED BY <1>1, <4>1, <5>2, <6>1
        <5> QED BY <1>5, <5>1, <5>2
      <4>3. CASE <<s.stack[i], x>> \in s.left
        <5>1. K >= 1 /\ <<s.stack[i], x>> = <<s.stack[K], m>>
          BY <1>4, <2>3, <4>1, <4>3
        <5>2. s.stack[i] = s.stack[K] /\ x = m
          BY <5>1
        <5>3. i = K
          BY <1>1, <1>3, <3>2, <5>1, <5>2 DEF StackInv, K
        <5> QED BY <1>1, <4>1, <5>2, <5>3
      <4> QED BY <2>3, <4>1, <4>2, <4>3
    <3> QED BY <1>7, <3>1, <3>2
  <2>4. \A S \in SUBSET Black(edges, t) : S # {} => \E n \in S : \A x \in S : <<n, x>> \notin E
    BY <1>5, <2>0 DEF BlackInv, E
  <2> QED BY <1>1, <2>1, <2>2, <2>3, <2>4 DEF BlackInv, E
<1> QED BY <1>8, <1>9, <1>10 DEF SearchInv

LEMMA LeaveKeeps ==
  ASSUME NEW edges, NEW s, SearchInv(edges, s), NEW t \in Search(edges), Leaving(s, t)
  PROVE  SearchInv(edges, t)
<1> DEFINE N == NodesOf(edges)
           E == EdgePairs(edges)
           K == Len(s.stack)
           n == Last(s.stack)
<1>1. /\ s.stack \in Seq(N) /\ s.stack # <<>> /\ K \in Nat /\ K >= 1 /\ Len(t.stack) = K - 1
      /\ \A i \in 1..(K - 1) : t.stack[i] = s.stack[i]
      /\ n = s.stack[K] /\ n \in N /\ ToSet(s.stack) = ToSet(t.stack) \cup {n}
  <2>1. s.stack \in Seq(N) /\ s.stack # <<>> /\ t.stack = Front(s.stack)
    BY DEF SearchInv, Search, Leaving
  <2> QED BY <2>1, FrontFacts
<1>2. t.white = s.white /\ t.left = s.left /\ t.onCycle = s.onCycle /\ \A m : <<n, m>> \notin s.left
  BY DEF Leaving, AllElse
<1>3. StackInv(edges, s) /\ LoopInv(edges, s) /\ (s.onCycle = {} => BlackInv(edges, s)) /\ s.left \subseteq E
  BY DEF SearchInv, Search
<1>4. /\ \A i \in 1..(K - 1) : i \in 1..K /\ i # K /\ i + 1 \in 1..K
      /\ \A i \in 1..(K - 2) : i \in 1..(K - 1) /\ i + 1 \in 1..(K - 1)
      /\ K \in 1..K /\ \A i \in 1..(K - 1) : i = K - 1 \/ i + 1 \in 1..(K - 1)
  BY <1>1
<1>5. n \notin ToSet(t.stack) /\ n \notin s.white
  <2>1. ToSet(t.stack) = {t.stack[i] : i \in 1..(K - 1)}
    <3>1. t.stack \in Seq(N)
      BY DEF Search
    <3> QED BY <1>1, <3>1, StackFacts
  <2>2. \A i \in 1..(K - 1) : s.stack[i] # s.stack[K]
    BY <1>3, <1>4 DEF StackInv
  <2>3. n \notin s.white
    <3>1. s.stack[K] \notin s.white
      BY <1>3, <1>4 DEF StackInv
    <3> QED BY <1>1, <3>1
  <2>4. \A i \in 1..(K - 1) : t.stack[i] # n
    BY <1>1, <2>2
  <2> HIDE DEF n, K
  <2> QED BY <2>1, <2>3, <2>4
<1>6. Black(edges, t) = Black(edges, s) \cup {n} /\ n \notin Black(edges, s)
  <2> HIDE DEF n, K
  <2>1. \A x \in N : x \notin t.white /\ x \notin ToSet(t.stack) <=> (x \notin s.white /\ x \notin ToSet(s.stack)) \/ x = n
    BY <1>1, <1>2, <1>5
  <2> QED BY <1>1, <2>1 DEF Black
<1> HIDE DEF K, E, N, n
<1>8. StackInv(edges, t)
  <2>1. \A i \in 1..(K - 1) : t.stack[i] \notin t.white
    BY <1>1, <1>2, <1>3, <1>4 DEF StackInv, K
  <2>2. \A i \in 1..(K - 1), j \in 1..(K - 1) : t.stack[i] = t.stack[j] => i = j
    BY <1>1, <1>3, <1>4 DEF StackInv, K
  <2>3. \A i \in 1..(K - 2) : <<t.stack[i], t.stack[i + 1]>> \in E
    <3>1. \A i \in 1..(K - 2) : t.stack[i] = s.stack[i] /\ t.stack[i + 1] = s.stack[i + 1]
      BY <1>1, <1>4
    <3> QED BY <1>3, <1>4, <3>1 DEF StackInv, K, E
  <2>4. Len(t.stack) = K - 1 /\ Len(t.stack) - 1 = K - 2
    BY <1>1
  <2>5. \A x \in t.white : \A y : <<x, y>> \in E => <<x, y>> \in t.left
    BY <1>2, <1>3 DEF StackInv, E
  <2> QED BY <2>1, <2>2, <2>3, <2>4, <2>5 DEF StackInv, E
<1>9. LoopInv(edges, t)
  BY <1>2, <1>3 DEF LoopInv
<1>10. ASSUME t.onCycle = {} PROVE BlackInv(edges, t)
  <2>0. BlackInv(edges, s)
    BY <1>2, <1>3, <1>10
  <2>1. \A x \in Black(edges, t) : \A y : <<x, y>> \notin t.left
    BY <1>2, <1>6, <2>0 DEF BlackInv
  <2>2. \A y : <<n, y>> \in E => y \in Black(edges, s)
    <3> SUFFICES ASSUME NEW y, <<n, y>> \in E PROVE y \in Black(edges, s)
      OBVIOUS
    <3>1. <<s.stack[K], y>> \in E \ s.left
      BY <1>1, <1>2
    <3>2. y \in Black(edges, s) \/ (K < K /\ y = s.stack[K + 1])
      BY <1>4, <2>0, <3>1 DEF BlackInv, K, E
    <3> QED BY <1>1, <3>2
  <2>3. \A x \in Black(edges, t) : \A y : <<x, y>> \in E => y \in Black(edges, t)
    BY <1>6, <2>0, <2>2 DEF BlackInv, E
  <2>4. ASSUME NEW i \in 1..(K - 1), NEW y, <<t.stack[i], y>> \in E \ t.left
        PROVE  y \in Black(edges, t) \/ (i < K - 1 /\ y = t.stack[i + 1])
    <3>1. <<s.stack[i], y>> \in E \ s.left
      BY <1>1, <1>2, <2>4
    <3>2. y \in Black(edges, s) \/ y = s.stack[i + 1]
      BY <1>4, <2>0, <3>1 DEF BlackInv, K, E
    <3>3. CASE y = s.stack[i + 1] /\ i = K - 1
      <4>1. i + 1 = K
        BY <1>1, <3>3
      <4> QED BY <1>1, <1>6, <3>3, <4>1
    <3>4. CASE y = s.stack[i + 1] /\ i + 1 \in 1..(K - 1)
      BY <1>1, <3>4
    <3> QED BY <1>4, <1>6, <3>2, <3>3, <3>4
  <2>5. ASSUME NEW S \in SUBSET Black(edges, t), S # {}
        PROVE  \E x \in S : \A y \in S : <<x, y>> \notin E
    <3>1. CASE S \subseteq {n}
      <4>1. <<n, n>> \notin E
        BY <1>6, <2>2
      <4> QED BY <2>5, <3>1, <4>1
    <3>2. CASE ~(S \subseteq {n})
      <4>1. S \ {n} \in SUBSET Black(edges, s) /\ S \ {n} # {}
        BY <1>6, <3>2
      <4>2. PICK x \in S \ {n} : \A y \in S \ {n} : <<x, y>> \notin E
        BY <2>0, <4>1 DEF BlackInv, E
      <4>3. <<x, n>> \notin E
        BY <1>6, <2>0, <4>1 DEF BlackInv, E
      <4> QED BY <4>2, <4>3
    <3> QED BY <3>1, <3>2
  <2> QED BY <1>1, <2>1, <2>3, <2>4, <2>5 DEF BlackInv, E
<1> QED BY <1>8, <1>9, <1>10 DEF SearchInv

LEMMA LookKeeps ==
  ASSUME NEW edges, NEW s, SearchInv(edges, s), NEW t \in Search(edges), NEW m \in NodesOf(edges),
         Looking(s, t, m), t.stack = s.stack, t.white = s.white
  PROVE  StackInv(edges, t) /\ Black(edges, t) = Black(edges, s)
<1>1. StackInv(edges, s) /\ s.stack \in Seq(NodesOf(edges)) /\ s.stack # <<>>
  BY DEF SearchInv, Search, Looking
<1>2. Last(s.stack) = s.stack[Len(s.stack)] /\ Len(s.stack) \in 1..Len(s.stack)
  <2>1. Last(s.stack) = s.stack[Len(s.stack)] /\ Len(s.stack) \in Nat /\ Len(s.stack) >= 1
    BY <1>1, FrontFacts
  <2> QED BY <2>1
<1>3. Last(s.stack) \notin s.white
  BY <1>1, <1>2 DEF StackInv
<1>4. \A n \in t.white : \A x : <<n, x>> \in EdgePairs(edges) => <<n, x>> \in t.left
  BY <1>1, <1>3 DEF StackInv, Looking
<1> QED BY <1>1, <1>4 DEF StackInv, Black

LEMMA CloseKeeps ==
  ASSUME NEW edges, NEW s, SearchInv(edges, s), NEW t \in Search(edges), NEW m \in NodesOf(edges),
         Looking(s, t, m), Closing(s, t, m)
  PROVE  SearchInv(edges, t)
<1> DEFINE K == Len(s.stack)
<1>1. StackInv(edges, t)
  BY LookKeeps DEF Closing
<1>2. PICK i \in DOMAIN s.stack :
        s.stack[i] = m /\ t.onCycle = s.onCycle \cup {s.stack[j] : j \in i..K}
  BY DEF Closing
<1>3. /\ s.stack \in Seq(NodesOf(edges)) /\ s.stack # <<>> /\ StackInv(edges, s) /\ s.left \subseteq EdgePairs(edges)
  BY DEF SearchInv, Search, Looking
<1>4. DOMAIN s.stack = 1..K /\ K \in Nat /\ Last(s.stack) = s.stack[K]
  BY <1>3, FrontFacts, LenProperties
<1> DEFINE C == {s.stack[j] : j \in i..K}
<1>5. s.stack[i] \in C
  BY <1>4
<1>6. ASSUME NEW n \in C PROVE \E x \in C : <<n, x>> \in EdgePairs(edges)
  <2>1. PICK j \in i..K : n = s.stack[j]
    OBVIOUS
  <2>2. CASE j = K
    <3>1. <<s.stack[K], m>> \in EdgePairs(edges)
      BY <1>3, <1>4 DEF Looking
    <3> QED BY <1>2, <1>5, <2>1, <2>2, <3>1
  <2>3. CASE j # K
    <3>1. j \in 1..(K - 1) /\ j + 1 \in i..K
      BY <1>4, <2>3
    <3>2. <<s.stack[j], s.stack[j + 1]>> \in EdgePairs(edges)
      BY <1>3, <3>1 DEF StackInv
    <3> QED BY <2>1, <3>1, <3>2
  <2> QED BY <2>2, <2>3
<1> HIDE DEF C
<1>7. Looped(edges)
  <2>1. \A n \in C : n \in DOMAIN edges /\ edges[n] \cap C # {}
    BY <1>6, EdgeFacts
  <2>2. C \in SUBSET DOMAIN edges /\ C # {}
    BY <1>5, <2>1
  <2> QED BY <2>1, <2>2 DEF Looped
<1>8. t.onCycle # {}
  BY <1>2, <1>5 DEF C
<1> QED BY <1>1, <1>7, <1>8 DEF SearchInv, LoopInv

LEMMA PassKeeps ==
  ASSUME NEW edges, NEW s, SearchInv(edges, s), NEW t \in Search(edges), NEW m \in NodesOf(edges),
         Looking(s, t, m), Passing(s, t, m)
  PROVE  SearchInv(edges, t)
<1> DEFINE K == Len(s.stack)
<1>1. StackInv(edges, t) /\ Black(edges, t) = Black(edges, s)
  BY LookKeeps DEF Passing
<1>2. t.stack = s.stack /\ t.onCycle = s.onCycle /\ m \in Black(edges, s)
  BY DEF Passing, Black
<1>3. t.left = s.left \ {<<Last(s.stack), m>>}
  BY DEF Looking
<1>4. LoopInv(edges, t)
  BY <1>2 DEF LoopInv, SearchInv
<1>5. ASSUME t.onCycle = {} PROVE BlackInv(edges, t)
  <2>1. BlackInv(edges, s)
    BY <1>2, <1>5 DEF SearchInv
  <2>2. ASSUME NEW i \in 1..K, NEW x, <<s.stack[i], x>> \in EdgePairs(edges) \ t.left
        PROVE  x \in Black(edges, s) \/ (i < K /\ x = s.stack[i + 1])
    <3>1. CASE <<s.stack[i], x>> \in s.left
      <4>1. <<s.stack[i], x>> = <<Last(s.stack), m>>
        BY <1>3, <2>2, <3>1
      <4> QED BY <1>2, <4>1
    <3>2. CASE <<s.stack[i], x>> \notin s.left
      BY <2>1, <2>2, <3>2 DEF BlackInv
    <3> QED BY <3>1, <3>2
  <2>3. \A n \in Black(edges, t) : \A x : <<n, x>> \notin t.left
    BY <1>1, <1>3, <2>1 DEF BlackInv
  <2> QED BY <1>1, <1>2, <2>1, <2>2, <2>3 DEF BlackInv
<1> QED BY <1>1, <1>4, <1>5 DEF SearchInv

LEMMA VisitKeeps ==
  ASSUME NEW edges, NEW h \in Nat, NodesOf(edges) \subseteq 1..h, NEW s, SearchInv(edges, s)
  PROVE  LET t == visit(s, DOMAIN edges)
         IN SearchInv(edges, t) /\ Moves(edges, s, t)
<1>1. PICK t : t = visit(s, DOMAIN edges)
  OBVIOUS
<1>2. s \in Search(edges)
  BY DEF SearchInv
<1>3. Moves(edges, s, t) /\ t \in Search(edges)
  BY <1>1, <1>2, VisitMoves
<1>4. ASSUME Done(edges, s), t = s PROVE SearchInv(edges, t)
  BY <1>4
<1>5. ASSUME NEW n \in DOMAIN edges, s.stack = <<>>, t.left = s.left, Entering(s, t, n)
      PROVE  SearchInv(edges, t)
  BY <1>3, <1>5, EdgeFacts, EnterKeeps
<1>6. ASSUME Leaving(s, t) PROVE SearchInv(edges, t)
  BY <1>3, <1>6, LeaveKeeps
<1>7. ASSUME NEW m \in NodesOf(edges), Looking(s, t, m), Entering(s, t, m) \/ Closing(s, t, m) \/ Passing(s, t, m)
      PROVE  SearchInv(edges, t)
  BY <1>3, <1>7, EnterKeeps, CloseKeeps, PassKeeps
<1>8. SearchInv(edges, t)
  BY <1>3, <1>4, <1>5, <1>6, <1>7 DEF Moves
<1> QED BY <1>1, <1>3, <1>8

(* Every step that is not idle spends one of the steps the search has.      *)
Spent(s) == Cardinality(s.left) + 2 * Cardinality(s.white) + Len(s.stack)

LEMMA PairsFinite ==
  ASSUME NEW edges, NEW h \in Nat, NodesOf(edges) \subseteq 1..h
  PROVE  /\ IsFiniteSet(NodesOf(edges)) /\ IsFiniteSet(EdgePairs(edges))
         /\ Cardinality(NodesOf(edges)) \in Nat /\ Cardinality(EdgePairs(edges)) \in Nat
<1>1. IsFiniteSet(1..h)
  BY FS_Interval
<1>2. IsFiniteSet(NodesOf(edges))
  BY <1>1, FS_Subset
<1>3. IsFiniteSet(NodesOf(edges) \X NodesOf(edges))
  BY <1>2, FS_Product
<1>4. EdgePairs(edges) \subseteq NodesOf(edges) \X NodesOf(edges)
  <2>1. \A p \in EdgePairs(edges) : p = <<p[1], p[2]>> /\ p[1] \in NodesOf(edges) /\ p[2] \in NodesOf(edges)
    BY EdgeFacts
  <2> QED BY <2>1
<1>5. IsFiniteSet(EdgePairs(edges))
  BY <1>3, <1>4, FS_Subset
<1> QED BY <1>2, <1>5, FS_CardinalityType

LEMMA VisitSpends ==
  ASSUME NEW edges, NEW h \in Nat, NodesOf(edges) \subseteq 1..h,
         NEW s \in Search(edges), NEW t \in Search(edges), Moves(edges, s, t)
  PROVE  /\ Spent(s) \in Nat
         /\ (Done(edges, s) /\ t = s) \/ Spent(t) <= Spent(s) - 1
<1>1. \A x \in Search(edges) : /\ x.stack \in Seq(NodesOf(edges)) /\ Len(x.stack) \in Nat
                              /\ IsFiniteSet(x.left) /\ IsFiniteSet(x.white)
                              /\ Cardinality(x.left) \in Nat /\ Cardinality(x.white) \in Nat
  <2> SUFFICES ASSUME NEW x \in Search(edges)
               PROVE  /\ x.stack \in Seq(NodesOf(edges)) /\ Len(x.stack) \in Nat
                      /\ IsFiniteSet(x.left) /\ IsFiniteSet(x.white)
                      /\ Cardinality(x.left) \in Nat /\ Cardinality(x.white) \in Nat
    OBVIOUS
  <2>1. x.stack \in Seq(NodesOf(edges)) /\ x.left \subseteq EdgePairs(edges) /\ x.white \subseteq NodesOf(edges)
    BY DEF Search
  <2>2. IsFiniteSet(x.left) /\ IsFiniteSet(x.white)
    BY <2>1, PairsFinite, FS_Subset
  <2> QED BY <2>1, <2>2, LenProperties, FS_CardinalityType
<1>0. \A S, x : IsFiniteSet(S) /\ x \in S => Cardinality(S \ {x}) = Cardinality(S) - 1
  BY FS_RemoveElement
<1>2. /\ Spent(s) \in Nat
      /\ Cardinality(t.left) \in Nat /\ Cardinality(t.white) \in Nat /\ Len(t.stack) \in Nat
      /\ Cardinality(s.left) \in Nat /\ Cardinality(s.white) \in Nat /\ Len(s.stack) \in Nat
  BY <1>1 DEF Spent
<1>3. ASSUME NEW m, Looking(s, t, m) PROVE Cardinality(t.left) = Cardinality(s.left) - 1
  <2>1. <<Last(s.stack), m>> \in s.left /\ t.left = s.left \ {<<Last(s.stack), m>>}
    BY <1>3 DEF Looking
  <2> QED BY <1>0, <1>1, <2>1
<1>4. ASSUME NEW m \in NodesOf(edges), Entering(s, t, m)
      PROVE  Cardinality(t.white) = Cardinality(s.white) - 1 /\ Len(t.stack) = Len(s.stack) + 1
  <2>1. m \in s.white /\ t.white = s.white \ {m} /\ t.stack = Append(s.stack, m)
    BY <1>4 DEF Entering
  <2>2. Cardinality(t.white) = Cardinality(s.white) - 1
    BY <1>0, <1>1, <2>1
  <2>3. Len(t.stack) = Len(s.stack) + 1
    BY <1>1, <2>1, AppendProperties
  <2> QED BY <2>2, <2>3
<1>8. \A a, b, c, x, y, z \in Nat :
        x <= a /\ ((y = b - 1 /\ z = c + 1) \/ (x = a - 1 /\ y = b /\ z = c))
        => x + 2 * y + z <= a + 2 * b + c - 1
  OBVIOUS
<1>9. Cardinality(t.left) <= Cardinality(s.left) /\ Cardinality(t.white) = Cardinality(s.white) - 1
      /\ Len(t.stack) = Len(s.stack) + 1 => Spent(t) <= Spent(s) - 1
  <2>1. PICK a, b, c, x, y, z :
          /\ a = Cardinality(s.left) /\ b = Cardinality(s.white) /\ c = Len(s.stack)
          /\ x = Cardinality(t.left) /\ y = Cardinality(t.white) /\ z = Len(t.stack)
    OBVIOUS
  <2>2. {a, b, c, x, y, z} \subseteq Nat /\ Spent(s) = a + 2 * b + c /\ Spent(t) = x + 2 * y + z
    BY <1>2, <2>1 DEF Spent
  <2>3. x <= a /\ y = b - 1 /\ z = c + 1 => x + 2 * y + z <= a + 2 * b + c - 1
    BY <1>8, <2>2
  <2> QED BY <2>1, <2>2, <2>3
<1>10. Cardinality(t.left) = Cardinality(s.left) - 1 /\ Cardinality(t.white) = Cardinality(s.white)
       /\ Len(t.stack) = Len(s.stack) => Spent(t) <= Spent(s) - 1
  <2>1. Cardinality(t.left) = Cardinality(s.left) - 1 => Cardinality(t.left) <= Cardinality(s.left)
    BY <1>2
  <2> QED BY <1>2, <1>8, <2>1 DEF Spent
<1>5. ASSUME NEW n \in DOMAIN edges, t.left = s.left, Entering(s, t, n) PROVE Spent(t) <= Spent(s) - 1
  <2>1. n \in NodesOf(edges)
    BY EdgeFacts
  <2>2. Cardinality(t.white) = Cardinality(s.white) - 1 /\ Len(t.stack) = Len(s.stack) + 1
    BY <1>4, <1>5, <2>1
  <2> QED BY <1>2, <1>5, <1>9, <2>2
<1>6. ASSUME Leaving(s, t) PROVE Spent(t) <= Spent(s) - 1
  <2>1. Len(t.stack) = Len(s.stack) - 1
    BY <1>1, <1>6, FrontFacts DEF Leaving
  <2> QED BY <1>2, <1>6, <2>1 DEF Spent, Leaving, AllElse
<1>7. ASSUME NEW m \in NodesOf(edges), Looking(s, t, m), Entering(s, t, m) \/ Closing(s, t, m) \/ Passing(s, t, m)
      PROVE  Spent(t) <= Spent(s) - 1
  <2>1. Cardinality(t.left) = Cardinality(s.left) - 1
    BY <1>3, <1>7
  <2>2. CASE Entering(s, t, m)
    BY <1>2, <1>4, <1>9, <2>1, <2>2
  <2>3. CASE t.stack = s.stack /\ t.white = s.white
    BY <1>10, <2>1, <2>3
  <2> QED BY <1>7, <2>2, <2>3 DEF Closing, Passing
<1> QED BY <1>2, <1>5, <1>6, <1>7 DEF Moves

(* At its end the search has looked at everything.                          *)
LEMMA SearchEnds ==
  ASSUME NEW edges, NEW s, SearchInv(edges, s), Done(edges, s)
  PROVE  s.onCycle = {} <=> CycleFree(edges)
<1>1. ASSUME s.onCycle # {} PROVE ~CycleFree(edges)
  BY <1>1 DEF SearchInv, LoopInv, Looped, CycleFree
<1>2. ASSUME s.onCycle = {} PROVE CycleFree(edges)
  <2>1. BlackInv(edges, s)
    BY <1>2 DEF SearchInv
  <2>2. ToSet(s.stack) = {}
    BY DEF Done, ToSet
  <2>3. DOMAIN edges \subseteq Black(edges, s)
    BY <2>2, EdgeFacts DEF Done, Black
  <2> SUFFICES ASSUME NEW S \in SUBSET DOMAIN edges, S # {} PROVE \E n \in S : edges[n] \cap S = {}
    BY DEF CycleFree
  <2>4. PICK n \in S : \A m \in S : <<n, m>> \notin EdgePairs(edges)
    BY <2>1, <2>3 DEF BlackInv
  <2>5. edges[n] \cap S = {}
    BY <2>4, EdgeFacts
  <2> QED BY <2>5
<1> QED BY <1>1, <1>2

(* cycleNodes reports nothing exactly when there is no cycle.               *)
LEMMA CycleNodesAreFound ==
  ASSUME NEW edges, NEW h \in Nat, NodesOf(edges) \subseteq 1..h
  PROVE  cycleNodes(edges) = {} <=> CycleFree(edges)
<1> DEFINE steps == Cardinality(EdgePairs(edges)) + 2 * Cardinality(NodesOf(edges))
           F(f) == [i \in 0..steps |-> IF i = 0 THEN SearchStart(edges) ELSE visit(f[i - 1], DOMAIN edges)]
           run == CHOOSE f : f = F(f)
           turn == [i \in 1..steps |-> [s \in Search(edges) |-> visit(s, DOMAIN edges)]]
<1>1. steps \in Nat /\ IsFiniteSet(NodesOf(edges)) /\ IsFiniteSet(EdgePairs(edges))
  BY PairsFinite
<1>2. SearchInv(edges, SearchStart(edges))
  <2>1. PICK s : s = SearchStart(edges)
    OBVIOUS
  <2>2. s.stack = <<>> /\ s.white = NodesOf(edges) /\ s.left = EdgePairs(edges) /\ s.onCycle = {}
    BY <2>1 DEF SearchStart
  <2>3. s \in Search(edges)
    <3>1. <<>> \in Seq(NodesOf(edges))
      OBVIOUS
    <3> QED BY <2>1, <3>1 DEF SearchStart, Search
  <2>4. Len(s.stack) = 0
    BY <2>2
  <2>5. StackInv(edges, s)
    BY <2>2, <2>4 DEF StackInv
  <2>6. Black(edges, s) = {}
    BY <2>2 DEF Black
  <2>7. BlackInv(edges, s)
    BY <2>4, <2>6 DEF BlackInv
  <2> QED BY <2>1, <2>2, <2>3, <2>5, <2>7 DEF SearchInv, LoopInv
<1>3. \A s \in Search(edges) : visit(s, DOMAIN edges) \in Search(edges)
  BY VisitMoves
<1>4. PICK g \in [0..steps -> Search(edges)] : Recurs(g, steps, SearchStart(edges), turn)
  <2>1. SearchStart(edges) \in Search(edges)
    BY <1>2 DEF SearchInv
  <2>2. turn \in [1..steps -> [Search(edges) -> Search(edges)]]
    BY <1>3
  <2> HIDE DEF turn, steps
  <2> QED BY <1>1, <2>1, <2>2, RecursionOnInterval
<1>5. g = F(g)
  <2>1. g[0] = SearchStart(edges) /\ \A i \in 1..steps : g[i] = visit(g[i - 1], DOMAIN edges)
    <3>1. \A i \in 1..steps : i - 1 \in 0..steps
      BY <1>1
    <3> HIDE DEF steps
    <3>2. \A i \in 1..steps, s \in Search(edges) : turn[i][s] = visit(s, DOMAIN edges)
      OBVIOUS
    <3> HIDE DEF turn
    <3> QED BY <1>4, <3>1, <3>2 DEF Recurs
  <2>2. \A i \in 0..steps : i = 0 \/ i \in 1..steps
    BY <1>1
  <2> HIDE DEF steps
  <2>3. ASSUME NEW i \in 0..steps PROVE g[i] = F(g)[i]
    BY <2>1, <2>2
  <2>4. DOMAIN g = 0..steps /\ DOMAIN F(g) = 0..steps
    OBVIOUS
  <2> QED BY <2>3, <2>4
<1>6. run = F(run)
  BY <1>5
<1>7. cycleNodes(edges) = run[steps].onCycle
  BY DEF cycleNodes, SearchStart
<1> HIDE DEF run, turn
<1>8. run[0] = SearchStart(edges) /\ \A i \in 0..(steps - 1) : run[i + 1] = visit(run[i], DOMAIN edges)
  <2>1. \A i \in 0..(steps - 1) : i + 1 \in 0..steps /\ i + 1 # 0 /\ (i + 1) - 1 = i
    BY <1>1
  <2>2. 0 \in 0..steps
    BY <1>1
  <2> HIDE DEF steps
  <2> QED BY <1>6, <2>1, <2>2
<1> DEFINE Reached == {i \in 0..steps : SearchInv(edges, run[i])
                                      /\ (Done(edges, run[i]) \/ Spent(run[i]) <= steps - i)}
<1>9. 0 \in Reached
  <2>1. PICK s : s = SearchStart(edges)
    OBVIOUS
  <2>2. s.stack = <<>> /\ s.white = NodesOf(edges) /\ s.left = EdgePairs(edges)
    BY <2>1 DEF SearchStart
  <2>3. Spent(s) = steps
    BY <1>1, <2>2, PairsFinite DEF Spent
  <2> QED BY <1>1, <1>2, <1>8, <2>1, <2>3
<1>10. ASSUME NEW i \in 0..(steps - 1), i \in Reached PROVE i + 1 \in Reached
  <2>1. i + 1 \in 0..steps /\ i \in Int
    BY <1>1
  <2>2. PICK s, t : s = run[i] /\ t = run[i + 1]
    OBVIOUS
  <2>3. t = visit(s, DOMAIN edges) /\ SearchInv(edges, s) /\ (Done(edges, s) \/ Spent(s) <= steps - i)
    BY <1>8, <1>10, <2>2
  <2>4. SearchInv(edges, t) /\ Moves(edges, s, t)
    BY <2>3, VisitKeeps
  <2>5. s \in Search(edges) /\ t \in Search(edges)
    BY <2>3, <2>4 DEF SearchInv
  <2>6. /\ Spent(s) \in Nat /\ Spent(t) \in Nat
        /\ (Done(edges, s) /\ t = s) \/ Spent(t) <= Spent(s) - 1
    <3>1. Moves(edges, t, visit(t, DOMAIN edges)) /\ visit(t, DOMAIN edges) \in Search(edges)
      BY <2>5, VisitMoves
    <3> QED BY <2>4, <2>5, <3>1, VisitSpends
  <2>7. CASE Done(edges, s) /\ t = s
    BY <2>1, <2>2, <2>4, <2>7
  <2>8. CASE ~Done(edges, s) /\ Spent(t) <= Spent(s) - 1
    <3>1. Spent(t) <= steps - (i + 1)
      BY <1>1, <2>1, <2>3, <2>6, <2>8
    <3> QED BY <2>1, <2>2, <2>4, <3>1
  <2>9. CASE Done(edges, s) /\ Spent(t) <= Spent(s) - 1
    <3>1. t = s
      BY <2>3, <2>4, <2>9 DEF Moves, Done, Leaving, Looking, Entering
    <3> QED BY <2>6, <2>9, <3>1
  <2> QED BY <2>6, <2>7, <2>8, <2>9
<1>11. steps \in Reached
  <2> HIDE DEF Reached
  <2>1. 0 \in Nat /\ steps \in 0..steps
    BY <1>1
  <2>2. 0..steps \subseteq Reached
    <3> HIDE DEF steps
    <3> QED BY <1>1, <1>9, <1>10, <2>1, IntervalInduction
  <2> QED BY <2>1, <2>2
<1>12. Done(edges, run[steps])
  <2>1. PICK s : s = run[steps]
    OBVIOUS
  <2>2. SearchInv(edges, s) /\ (Done(edges, s) \/ Spent(s) <= 0)
    BY <1>1, <1>11, <2>1
  <2>3. /\ s.stack \in Seq(NodesOf(edges)) /\ s.left \subseteq EdgePairs(edges) /\ s.white \subseteq NodesOf(edges)
    BY <2>2 DEF SearchInv, Search
  <2>4. /\ Len(s.stack) \in Nat /\ IsFiniteSet(s.white) /\ Cardinality(s.white) \in Nat
        /\ Cardinality(s.left) \in Nat
    BY <1>1, <2>3, FS_Subset, FS_CardinalityType, LenProperties
  <2>5. CASE Spent(s) <= 0
    <3>1. Len(s.stack) = 0 /\ Cardinality(s.white) = 0
      BY <2>4, <2>5 DEF Spent
    <3>2. s.stack = <<>> /\ s.white = {}
      BY <2>3, <2>4, <3>1, EmptySeq, FS_EmptySet
    <3> QED BY <2>1, <3>2 DEF Done
  <2> QED BY <2>1, <2>2, <2>5
<1>13. SearchInv(edges, run[steps])
  BY <1>11
<1> HIDE DEF steps
<1> QED BY <1>7, <1>12, <1>13, SearchEnds

-----------------------------------------------------------------------------
(* The projection's gate.  A finding says which rule made it.               *)
LEMMA FindingFields ==
  \A code, sub, e, about :
    LET f == Finding(code, sub, e, about) IN f.code = code /\ f.sub = sub
BY DEF Finding

LEMMA RuleOf ==
  ASSUME NEW t, NEW f \in Run(t)
  PROVE  /\ f.code = "ids-unique" => f \in idsUnique(t)
         /\ f.code = "refs-resolve" => f \in refsResolve(t)
         /\ f.code = "no-cycles" => f \in noCycles(t)
         /\ f.code = "depends-on-cancelled" => f \in dependsOnCancelled(t)
<1>1. f \in frontmatterShape(t) => f.code = "frontmatter-shape"
  BY FindingFields DEF frontmatterShape
<1>2. f \in statusValid(t) => f.code = "status-valid"
  BY FindingFields DEF statusValid
<1>3. f \in priorityValid(t) => f.code = "priority-valid"
  BY FindingFields DEF priorityValid
<1>4. f \in priorityNotApplicable(t) => f.code = "priority-not-applicable"
  BY FindingFields DEF priorityNotApplicable
<1>5. f \in noCycles(t) => f.code = "no-cycles"
  <2>1. f \in noCycles(t) =>
          \E sub, id, at : f = [code |-> "no-cycles", sub |-> sub, id |-> id, about |-> <<"no-cycles", None>>,
                               at |-> at]
    BY DEF noCycles
  <2> QED BY <2>1
<1>6. f \in dependsOnCancelled(t) => f.code = "depends-on-cancelled"
  BY FindingFields DEF dependsOnCancelled
<1>7. f \in adrSupersessionMutual(t) => f.code = "adr-supersession-mutual"
  BY FindingFields DEF adrSupersessionMutual
<1>8. f \in gapAddressedHasResolver(t) => f.code = "gap-addressed-has-resolver"
  BY FindingFields DEF gapAddressedHasResolver
<1>9. f \in entityIDNarrowWidth(t) => f.code = "entity-id-narrow-width"
  BY FindingFields DEF entityIDNarrowWidth
<1>10. f \in archivedEntityNotTerminal(t) => f.code = "archived-entity-not-terminal"
  BY FindingFields DEF archivedEntityNotTerminal
<1>11. f \in terminalEntityNotArchived(t) => f.code = "terminal-entity-not-archived"
  BY FindingFields DEF terminalEntityNotArchived
<1>12. f \in idsUnique(t) => f.code = "ids-unique"
  <2>1. f \in idsUnique(t) => \E sub, e, about : f = Finding("ids-unique", sub, e, about)
    BY DEF idsUnique
  <2> QED BY <2>1, FindingFields
<1>13. f \in refsResolve(t) => f.code = "refs-resolve"
  BY FindingFields DEF refsResolve
<1> QED
  BY <1>1, <1>2, <1>3, <1>4, <1>5, <1>6, <1>7, <1>8, <1>9, <1>10, <1>11, <1>12, <1>13 DEF Run

(* Ids are one file's each and references of live files name the entity     *)
(* they were made for.                                                      *)
RefsHold(fs) ==
  \A e \in fs : ~e.arch => \A r \in e.refs : \E o \in fs : IdOf(o) = IdOf(r) /\ o.uid = r.means
Sound(fs) == IdsDistinct(fs) /\ RefsHold(fs)

(* What a sound tree does not report.                                       *)
LEMMA SoundIsQuiet ==
  ASSUME NEW p \in Scenarios, NEW fs, TreeOK(p, fs), Sound(fs)
  PROVE  /\ idsUnique(At(fs)) = {}
         /\ \A f \in refsResolve(At(fs)) : f.sub # "unresolved"
<1>1. fs \subseteq FileOf(p)
  BY DEF TreeOK
<1>2. \A e, o \in fs : SameRawID(o, e) => o = e
  BY DEF Sound, IdsDistinct, SameRawID
<1>3. \A e \in fs : ~Before(e, e)
  <2>1. \A e \in fs : e.uid \in Nat /\ e.arch \in BOOLEAN
    BY <1>1, UidFacts
  <2> QED BY <1>1, <2>1, BeforeMeans
<1>4. {e \in At(fs).files : \E o \in At(fs).files : SameRawID(o, e) /\ Before(o, e)} = {}
  BY <1>2, <1>3 DEF At
<1>5. DisputedTrunkIDs(At(fs)) = {}
  BY DEF DisputedTrunkIDs, At
<1>6. idsUnique(At(fs)) = {}
  BY <1>4, <1>5 DEF idsUnique
<1>7. ASSUME NEW f \in refsResolve(At(fs)), f.sub = "unresolved" PROVE FALSE
  <2>1. PICK e \in Entities(At(fs)) :
          \E r \in e.refs : ~e.arch /\ f = Finding("refs-resolve", resolveRef(At(fs), e, r), e, Text(r))
    BY <1>7 DEF refsResolve
  <2>2. PICK r \in e.refs :
          ~e.arch /\ f = Finding("refs-resolve", resolveRef(At(fs), e, r), e, Text(r))
    BY <2>1
  <2>3. e \in fs /\ r \in Reference(p)
    BY <1>1, FileFacts DEF Entities, At
  <2>4. resolveRef(At(fs), e, r) = "unresolved" /\ ~IsComposite(r)
    BY <1>7, <2>2, <2>3, FindingFields, ReferenceFacts
  <2>5. InIndex(At(fs), IdOf(r))
    BY <2>2, <2>3 DEF Sound, RefsHold, InIndex, At
  <2>6. resolveRef(At(fs), e, r) \in {None, "wrong-kind"}
    BY <2>4, <2>5 DEF resolveRef
  <2> QED BY <2>4, <2>6 DEF None
<1> QED BY <1>6, <1>7

(* What passes the gate over a sound tree.                                  *)
LEMMA GateAnswers ==
  ASSUME NEW p \in Scenarios, NEW fs, TreeOK(p, fs), Sound(fs),
         NEW gs, TreeOK(p, gs), projectionFindings(At(fs), At(gs)) = {}
  PROVE  /\ IdsDistinct(gs)
         /\ \A e \in gs : ~e.arch => \A r \in e.refs : \E o \in gs : IdOf(o) = IdOf(r)
<1>1. gs \subseteq FileOf(p)
  BY DEF TreeOK
<1>2. ASSUME NEW f \in Run(At(gs)), ~IsWarning(f), ~IsCrossBranch(f) PROVE f \in Run(At(fs))
  BY <1>2 DEF projectionFindings, ErrorsOf
<1>3. ASSUME NEW e \in gs, NEW o \in gs, IdOf(o) = IdOf(e), Before(o, e) PROVE FALSE
  <2> DEFINE about == PathOf(First({x \in At(gs).files : SameRawID(x, e)}))
             f == Finding("ids-unique", None, e, about)
  <2>1. SameRawID(o, e)
    BY <1>1, <1>3, FileFacts DEF SameRawID
  <2>2. e \in {x \in At(gs).files : \E y \in At(gs).files : SameRawID(y, x) /\ Before(y, x)}
    BY <1>3, <2>1 DEF At
  <2>3. f \in idsUnique(At(gs))
    BY <2>2 DEF idsUnique
  <2>4. f.code = "ids-unique" /\ f.sub = None
    BY FindingFields
  <2> HIDE DEF f
  <2>5. f \in Run(At(gs)) /\ ~IsWarning(f) /\ ~IsCrossBranch(f)
    BY <2>3, <2>4 DEF Run, IsWarning, IsCrossBranch, None
  <2>6. f \in idsUnique(At(fs))
    BY <1>2, <2>4, <2>5, RuleOf
  <2> QED BY <2>6, SoundIsQuiet
<1>4. ASSUME NEW e \in gs, NEW o \in gs, IdOf(o) = IdOf(e), o # e PROVE FALSE
  <2>1. o.uid # e.uid
    BY <1>4 DEF TreeOK, OneFileEach
  <2>2. Before(o, e) \/ Before(e, o)
    BY <1>1, <2>1, BeforeIsTotal
  <2> QED BY <1>3, <1>4, <2>2
<1>5. ASSUME NEW e \in gs, ~e.arch, NEW r \in e.refs, \A o \in gs : IdOf(o) # IdOf(r) PROVE FALSE
  <2> DEFINE f == Finding("refs-resolve", resolveRef(At(gs), e, r), e, Text(r))
  <2>1. r \in Reference(p) /\ e \in Entities(At(gs))
    BY <1>1, FileFacts DEF Entities, At
  <2>2. ~IsComposite(r) /\ ~InIndex(At(gs), IdOf(r)) /\ crossBranchIndex(At(gs), IdOf(r)) = {}
    BY <1>5, <2>1, ReferenceFacts DEF InIndex, crossBranchIndex, At
  <2>3. resolveRef(At(gs), e, r) = "unresolved"
    BY <2>2 DEF resolveRef
  <2>4. <<e, r>> \in UNION {{x} \X x.refs : x \in Entities(At(gs))}
    BY <2>1
  <2>5. f \in refsResolve(At(gs))
    <3>1. <<e, r>> \in {q \in UNION {{x} \X x.refs : x \in Entities(At(gs))} :
                          ~q[1].arch /\ resolveRef(At(gs), q[1], q[2]) # None}
      BY <1>5, <2>3, <2>4 DEF None
    <3> QED BY <3>1 DEF refsResolve
  <2>6. f.code = "refs-resolve" /\ f.sub = "unresolved"
    BY <2>3, FindingFields
  <2> HIDE DEF f
  <2>7. f \in Run(At(gs)) /\ ~IsWarning(f) /\ ~IsCrossBranch(f)
    BY <2>5, <2>6 DEF Run, IsWarning, IsCrossBranch
  <2>8. f \in refsResolve(At(fs))
    BY <1>2, <2>6, <2>7, RuleOf
  <2> QED BY <2>6, <2>8, SoundIsQuiet
<1> QED BY <1>4, <1>5 DEF IdsDistinct

-----------------------------------------------------------------------------
(* A step that rewrites files where they are.                               *)
InPlace(gs, fs) ==
  /\ \A e \in gs : \E o \in fs : Kin(e, o)
  /\ \A o \in fs : \E e \in gs : Kin(e, o)

LEMMA Rewriting ==
  ASSUME NEW p \in Scenarios, NEW fs, TreeOK(p, fs), NEW h,
         \A e \in fs : h[e] \in FileOf(p) /\ Kin(h[e], e)
  PROVE  /\ TreeOK(p, {h[e] : e \in fs}) /\ InPlace({h[e] : e \in fs}, fs)
         /\ \A x \in {h[e] : e \in fs}, o \in fs : x.uid = o.uid => x = h[o]
<1> DEFINE gs == {h[e] : e \in fs}
<1>1. \A e, o \in fs : h[e].uid = o.uid => e = o
  BY DEF TreeOK, OneFileEach, Kin
<1>2. \A x \in gs, o \in fs : x.uid = o.uid => x = h[o]
  BY <1>1
<1>3. TreeOK(p, gs)
  BY <1>1 DEF TreeOK, OneFileEach, Kin
<1>4. InPlace(gs, fs)
  BY DEF InPlace
<1> QED BY <1>2, <1>3, <1>4

(* It keeps a tree sound when the references it adds mean what they name    *)
(* and name something.                                                      *)
LEMMA InPlaceIsSound ==
  ASSUME NEW p \in Scenarios, NEW fs, TreeOK(p, fs), Sound(fs), NEW gs, TreeOK(p, gs), InPlace(gs, fs),
         \A x \in gs, o \in fs : x.uid = o.uid /\ ~x.arch =>
            \A r \in x.refs : \/ r \in o.refs
                              \/ /\ r.means = Designated(fs, IdOf(r))
                                 /\ \E y \in gs : IdOf(y) = IdOf(r)
  PROVE  Sound(gs)
<1>1. \A x, o : Kin(x, o) => IdOf(x) = IdOf(o) /\ x.uid = o.uid /\ (~x.arch => ~o.arch)
  BY DEF Kin, IdOf
<1>2. IdsDistinct(gs)
  <2> SUFFICES ASSUME NEW x \in gs, NEW y \in gs, IdOf(x) = IdOf(y) PROVE x = y
    BY DEF IdsDistinct
  <2>1. PICK e \in fs : Kin(x, e)
    BY DEF InPlace
  <2>2. PICK o \in fs : Kin(y, o)
    BY DEF InPlace
  <2>3. e = o
    BY <1>1, <2>1, <2>2 DEF Sound, IdsDistinct
  <2> QED BY <1>1, <2>1, <2>2, <2>3 DEF TreeOK, OneFileEach
<1>3. ASSUME NEW x \in gs, ~x.arch, NEW r \in x.refs
      PROVE  \E y \in gs : IdOf(y) = IdOf(r) /\ y.uid = r.means
  <2>1. PICK o \in fs : Kin(x, o)
    BY DEF InPlace
  <2>2. ~o.arch /\ x.uid = o.uid
    BY <1>1, <1>3, <2>1
  <2>3. CASE r \in o.refs
    <3>1. PICK q \in fs : IdOf(q) = IdOf(r) /\ q.uid = r.means
      BY <2>2, <2>3 DEF Sound, RefsHold
    <3>2. PICK y \in gs : Kin(y, q)
      BY DEF InPlace
    <3> QED BY <1>1, <3>1, <3>2
  <2>4. CASE r \notin o.refs
    <3>1. r.means = Designated(fs, IdOf(r)) /\ \E y \in gs : IdOf(y) = IdOf(r)
      BY <1>3, <2>2, <2>4
    <3>2. PICK y \in gs : IdOf(y) = IdOf(r)
      BY <3>1
    <3>3. PICK q \in fs : Kin(y, q)
      BY DEF InPlace
    <3>4. IdOf(q) = IdOf(r) /\ q.uid = y.uid
      BY <1>1, <3>2, <3>3
    <3>5. Designated(fs, IdOf(q)) = q.uid
      BY LookupUnique DEF Sound
    <3> QED BY <3>1, <3>2, <3>4, <3>5
  <2> QED BY <2>3, <2>4
<1> QED BY <1>2, <1>3 DEF Sound, RefsHold

-----------------------------------------------------------------------------
(* What depends on what, and what superseded what.  A tree is orderly when  *)
(* no milestone waits for itself and none still to be done for a cancelled  *)
(* one.                                                                     *)
Numbers(fs, k) == {e.n : e \in {e \in fs : e.kind = k}}
Leading(fs, field, n, k) ==
  UNION {{r.n : r \in Targets(e, field)} : e \in {e \in fs : e.kind = k /\ e.n = n}}
AcyclicIn(fs, field, k) ==
  \A S \in SUBSET Numbers(fs, k) : S # {} => \E n \in S : Leading(fs, field, n, k) \cap S = {}
LiveIn(fs) ==
  \A e \in fs : \A r \in Targets(e, "depends_on") :
    ~IsTerminal(e.kind, e.status) => \A o \in fs : IdOf(o) = IdOf(r) => o.status # "cancelled"
Orderly(fs) == AcyclicIn(fs, "depends_on", "milestone") /\ LiveIn(fs)

FieldFits(k, r) ==
  /\ r.field = "depends_on" => k = "milestone" /\ r.kind = "milestone"
  /\ r.field \in {"superseded_by", "supersedes"} => k = "adr" /\ r.kind = "adr"
Fits(e) == (\A r \in e.refs : FieldFits(e.kind, r)) /\ (e.arch => e.kind # "milestone")
AllFit(fs) == \A e \in fs : Fits(e)

LEMMA KindOf ==
  ASSUME NEW p \in Scenarios, NEW fs, TreeOK(p, fs), NEW k
  PROVE  ByKind(At(fs), k) = {e \in fs : e.kind = k}
BY FileFacts DEF ByKind, Entities, At, TreeOK

LEMMA LeadingNumbers ==
  ASSUME NEW p \in Scenarios, NEW fs, TreeOK(p, fs), NEW k, NEW field, NEW n
  PROVE  Leading(fs, field, n, k) \subseteq 1..MaxNum /\ Numbers(fs, k) \subseteq 1..MaxNum
<1>1. \A e \in fs : e.n \in 1..MaxNum /\ \A r \in e.refs : r.n \in 1..MaxNum
  BY FileFacts, ReferenceFacts DEF TreeOK
<1> QED BY <1>1 DEF Leading, Numbers, Targets

(* A map from numbers to what they lead to has a cycle when the tree has.   *)
LEMMA CyclesOfEdges ==
  ASSUME NEW p \in Scenarios, NEW fs, TreeOK(p, fs), NEW k, NEW field, NEW edges,
         DOMAIN edges \subseteq Numbers(fs, k),
         \A n \in DOMAIN edges : edges[n] = Leading(fs, field, n, k),
         \A n \in Numbers(fs, k) \ DOMAIN edges : Leading(fs, field, n, k) = {}
  PROVE  cycleNodes(edges) = {} <=> AcyclicIn(fs, field, k)
<1>1. NodesOf(edges) \subseteq 1..MaxNum /\ MaxNum \in Nat
  BY LeadingNumbers, ScenarioFacts DEF NodesOf
<1>2. cycleNodes(edges) = {} <=> CycleFree(edges)
  BY <1>1, CycleNodesAreFound
<1>3. ASSUME CycleFree(edges), NEW S \in SUBSET Numbers(fs, k), S # {}
      PROVE  \E n \in S : Leading(fs, field, n, k) \cap S = {}
  <2>1. CASE S \subseteq DOMAIN edges
    <3>1. PICK n \in S : edges[n] \cap S = {}
      BY <1>3, <2>1 DEF CycleFree
    <3> QED BY <2>1, <3>1
  <2>2. CASE ~(S \subseteq DOMAIN edges)
    BY <2>2
  <2> QED BY <2>1, <2>2
<1>4. ASSUME AcyclicIn(fs, field, k), NEW S \in SUBSET DOMAIN edges, S # {}
      PROVE  \E n \in S : edges[n] \cap S = {}
  <2>1. PICK n \in S : Leading(fs, field, n, k) \cap S = {}
    BY <1>4 DEF AcyclicIn
  <2> QED BY <2>1
<1> QED BY <1>2, <1>3, <1>4 DEF CycleFree, AcyclicIn

LEMMA DependsCycles ==
  ASSUME NEW p \in Scenarios, NEW fs, TreeOK(p, fs), IdsDistinct(fs)
  PROVE  cycleNodes(DependsEdges(At(fs))) = {} <=> AcyclicIn(fs, "depends_on", "milestone")
<1> DEFINE holders(n) == ByIDAll(At(fs), [kind |-> "milestone", n |-> n])
           last(n) == CHOOSE e \in holders(n) : \A o \in holders(n) \ {e} : Before(o, e)
           edges == DependsEdges(At(fs))
           targets(n) == {r.n : r \in Targets(last(n), "depends_on")}
<1>1. edges = [n \in Numbers(fs, "milestone") |-> targets(n)]
  BY KindOf DEF DependsEdges, Numbers
<1> HIDE DEF edges, targets
<1>2. ASSUME NEW n \in Numbers(fs, "milestone") PROVE edges[n] = Leading(fs, "depends_on", n, "milestone")
  <2>1. PICK e \in fs : e.kind = "milestone" /\ e.n = n
    BY DEF Numbers
  <2>2. holders(n) = {o \in fs : IdOf(o) = [kind |-> "milestone", n |-> n]} /\ TreeOK(p, holders(n))
    BY HoldersOf
  <2>3. e \in holders(n)
    BY <2>1, <2>2 DEF IdOf
  <2>4. last(n) \in holders(n)
    BY <2>2, <2>3, LastFacts
  <2> HIDE DEF holders, last
  <2>5. last(n) = e
    BY <2>2, <2>3, <2>4 DEF IdsDistinct
  <2>6. {o \in fs : o.kind = "milestone" /\ o.n = n} = {e}
    BY <2>1 DEF IdsDistinct, IdOf
  <2>7. Leading(fs, "depends_on", n, "milestone") = {r.n : r \in Targets(e, "depends_on")}
    BY <2>6 DEF Leading
  <2> QED BY <1>1, <2>5, <2>7 DEF targets
<1>3. DOMAIN edges = Numbers(fs, "milestone")
  BY <1>1
<1>4. cycleNodes(edges) = {} <=> AcyclicIn(fs, "depends_on", "milestone")
  BY <1>2, <1>3, CyclesOfEdges
<1> QED BY <1>4 DEF edges

LEMMA SupersededCycles ==
  ASSUME NEW p \in Scenarios, NEW fs, TreeOK(p, fs), IdsDistinct(fs)
  PROVE  cycleNodes(SupersededEdges(At(fs))) = {} <=> AcyclicIn(fs, "superseded_by", "adr")
<1> DEFINE claims == {e \in ByKind(At(fs), "adr") : Targets(e, "superseded_by") # {}}
           holders(n) == {e \in claims : e.n = n}
           last(n) == CHOOSE e \in holders(n) : \A o \in holders(n) \ {e} : Before(o, e)
           targets(n) == {r.n : r \in Targets(last(n), "superseded_by")}
           edges == SupersededEdges(At(fs))
<1>1. edges = [n \in {e.n : e \in claims} |-> targets(n)]
  BY DEF SupersededEdges
<1> HIDE DEF edges, targets
<1>2. claims = {e \in fs : e.kind = "adr" /\ Targets(e, "superseded_by") # {}}
  BY KindOf
<1>3. DOMAIN edges = {e.n : e \in claims} /\ DOMAIN edges \subseteq Numbers(fs, "adr")
  BY <1>1, <1>2 DEF Numbers
<1>4. ASSUME NEW n \in DOMAIN edges PROVE edges[n] = Leading(fs, "superseded_by", n, "adr")
  <2>1. PICK e \in claims : e.n = n
    BY <1>3
  <2>2. holders(n) = {e}
    BY <1>2, <2>1 DEF IdsDistinct, IdOf
  <2>3. TreeOK(p, holders(n)) /\ holders(n) # {}
    BY <1>2, <2>1, <2>2 DEF TreeOK, OneFileEach
  <2>4. last(n) \in holders(n)
    BY <2>3, LastFacts
  <2> HIDE DEF holders, last
  <2>5. last(n) = e
    BY <2>2, <2>4
  <2>6. {o \in fs : o.kind = "adr" /\ o.n = n} = {e}
    BY <1>2, <2>1 DEF IdsDistinct, IdOf
  <2>7. Leading(fs, "superseded_by", n, "adr") = {r.n : r \in Targets(e, "superseded_by")}
    BY <2>6 DEF Leading
  <2> QED BY <1>1, <1>3, <2>5, <2>7 DEF targets
<1>5. ASSUME NEW n \in Numbers(fs, "adr") \ DOMAIN edges PROVE Leading(fs, "superseded_by", n, "adr") = {}
  <2>1. ASSUME NEW e \in fs, e.kind = "adr", e.n = n PROVE Targets(e, "superseded_by") = {}
    BY <1>2, <1>3, <1>5, <2>1
  <2> QED BY <2>1 DEF Leading
<1>6. cycleNodes(edges) = {} <=> AcyclicIn(fs, "superseded_by", "adr")
  BY <1>3, <1>4, <1>5, CyclesOfEdges
<1> QED BY <1>6 DEF edges

-----------------------------------------------------------------------------
(* A plan that passes the gate brings no cycle and no wait for a cancelled  *)
(* milestone.                                                               *)
LEMMA NothingNew ==
  ASSUME NEW t, NEW u, projectionFindings(t, u) = {}, NEW f \in Run(u), ~IsWarning(f), ~IsCrossBranch(f)
  PROVE  f \in Run(t)
BY DEF projectionFindings, ErrorsOf

CycleFinding(t, k, field, n) ==
  [code |-> "no-cycles", sub |-> field, id |-> [kind |-> k, n |-> n], about |-> <<"no-cycles", None>>,
   at |-> IF HasID(t, [kind |-> k, n |-> n]) THEN PathOf(ByID(t, [kind |-> k, n |-> n])) ELSE <<>>]

LEMMA CycleFindings ==
  ASSUME NEW t
  PROVE  noCycles(t) = {CycleFinding(t, "milestone", "depends_on", n) : n \in cycleNodes(DependsEdges(t))}
                       \cup {CycleFinding(t, "adr", "supersedes", n) : n \in cycleNodes(SupersededEdges(t))}
BY Zenon DEF noCycles, CycleFinding

LEMMA CyclesAreGated ==
  ASSUME NEW t, NEW u, projectionFindings(t, u) = {}
  PROVE  /\ cycleNodes(DependsEdges(t)) = {} => cycleNodes(DependsEdges(u)) = {}
         /\ cycleNodes(SupersededEdges(t)) = {} => cycleNodes(SupersededEdges(u)) = {}
<1>1. \A v, k, field, n : CycleFinding(v, k, field, n).code = "no-cycles" /\ CycleFinding(v, k, field, n).sub = field
  BY DEF CycleFinding
<1>2. ASSUME NEW f \in noCycles(u), f.code = "no-cycles", f.sub \in {"depends_on", "supersedes"}
      PROVE  f \in noCycles(t)
  <2>1. f \in Run(u) /\ ~IsWarning(f) /\ ~IsCrossBranch(f)
    BY <1>2 DEF Run, IsWarning, IsCrossBranch
  <2> QED BY <1>2, <2>1, NothingNew, RuleOf
<1>3. ASSUME NEW n \in cycleNodes(DependsEdges(u)) PROVE cycleNodes(DependsEdges(t)) # {}
  <2>1. PICK f : f = CycleFinding(u, "milestone", "depends_on", n)
    OBVIOUS
  <2>2. f \in noCycles(u)
    BY <2>1, CycleFindings
  <2>3. f \in noCycles(t) /\ f.sub = "depends_on"
    BY <1>1, <1>2, <2>1, <2>2
  <2> QED BY <1>1, <2>3, CycleFindings
<1>4. ASSUME NEW n \in cycleNodes(SupersededEdges(u)) PROVE cycleNodes(SupersededEdges(t)) # {}
  <2>1. PICK f : f = CycleFinding(u, "adr", "supersedes", n)
    OBVIOUS
  <2>2. f \in noCycles(u)
    BY <2>1, CycleFindings
  <2>3. f \in noCycles(t) /\ f.sub = "supersedes"
    BY <1>1, <1>2, <2>1, <2>2
  <2> QED BY <1>1, <2>3, CycleFindings
<1> QED BY <1>3, <1>4

LEMMA CycleGate ==
  ASSUME NEW p \in Scenarios, NEW fs, TreeOK(p, fs), IdsDistinct(fs), NEW gs, TreeOK(p, gs), IdsDistinct(gs),
         projectionFindings(At(fs), At(gs)) = {}
  PROVE  /\ AcyclicIn(fs, "depends_on", "milestone") => AcyclicIn(gs, "depends_on", "milestone")
         /\ AcyclicIn(fs, "superseded_by", "adr") => AcyclicIn(gs, "superseded_by", "adr")
BY DependsCycles, SupersededCycles, CyclesAreGated

LEMMA OrderGate ==
  ASSUME NEW p \in Scenarios, NEW fs, TreeOK(p, fs), IdsDistinct(fs), AllFit(fs), Orderly(fs),
         NEW gs, TreeOK(p, gs), IdsDistinct(gs), AllFit(gs),
         projectionFindings(At(fs), At(gs)) = {}
  PROVE  Orderly(gs)
<1>1. AcyclicIn(gs, "depends_on", "milestone")
  BY CycleGate DEF Orderly
<1>2. dependsOnCancelled(At(fs)) = {}
  <2> SUFFICES ASSUME NEW e \in ByKind(At(fs), "milestone"), NEW r \in Targets(e, "depends_on"),
                      ~IsTerminal("milestone", e.status), HasID(At(fs), IdOf(r)),
                      ByID(At(fs), IdOf(r)).status = "cancelled"
               PROVE  FALSE
    BY DEF dependsOnCancelled
  <2>1. e \in fs /\ e.kind = "milestone"
    BY KindOf
  <2>2. ByID(At(fs), IdOf(r)) \in fs /\ IdOf(ByID(At(fs), IdOf(r))) = IdOf(r)
    BY LookupFinds
  <2> QED BY <2>1, <2>2 DEF Orderly, LiveIn
<1>3. ASSUME NEW e \in gs, NEW r \in Targets(e, "depends_on"), ~IsTerminal(e.kind, e.status),
             NEW o \in gs, IdOf(o) = IdOf(r), o.status = "cancelled"
      PROVE  FALSE
  <2> DEFINE f == Finding("depends-on-cancelled", None, e, Text(r))
  <2>1. e.kind = "milestone" /\ e.status \in Statuses("milestone")
    <3>1. e.kind = "milestone"
      BY <1>3 DEF AllFit, Fits, FieldFits, Targets
    <3> QED BY <3>1, FileFacts DEF TreeOK
  <2>2. e \in ByKind(At(gs), "milestone")
    BY <2>1, KindOf
  <2>3. HasID(At(gs), IdOf(r)) /\ ByID(At(gs), IdOf(r)) = o
    BY <1>3, LookupUnique
  <2>4. <<e, r>> \in {q \in UNION {{x} \X Targets(x, "depends_on") : x \in ByKind(At(gs), "milestone")} :
              /\ q[1].status \in Statuses("milestone") /\ ~IsTerminal("milestone", q[1].status)
              /\ HasID(At(gs), IdOf(q[2])) /\ ByID(At(gs), IdOf(q[2])).status = "cancelled"}
    BY <1>3, <2>1, <2>2, <2>3
  <2>5. f \in dependsOnCancelled(At(gs))
    BY <2>4 DEF dependsOnCancelled
  <2>6. f.code = "depends-on-cancelled" /\ f.sub = None
    BY FindingFields
  <2> HIDE DEF f
  <2>7. f \in Run(At(gs)) /\ ~IsWarning(f) /\ ~IsCrossBranch(f)
    BY <2>5, <2>6 DEF Run, IsWarning, IsCrossBranch, None
  <2>8. f \in dependsOnCancelled(At(fs))
    BY <2>6, <2>7, NothingNew, RuleOf
  <2> QED BY <1>2, <2>8
<1> QED BY <1>1, <1>3 DEF Orderly, LiveIn

\* The rewriting that leaves statuses and references as they were.
Alike(x, o) == x.kind = o.kind /\ x.n = o.n /\ x.refs = o.refs /\ x.status = o.status
SameOrder(gs, fs) == (\A x \in gs : \E o \in fs : Alike(x, o)) /\ (\A o \in fs : \E x \in gs : Alike(x, o))

(* Fewer ways to go make no new cycle.                                      *)
LEMMA CyclesUntouched ==
  ASSUME NEW fs, NEW gs, NEW k, NEW field, AcyclicIn(fs, field, k),
         \A x \in gs : x.kind = k => \/ Targets(x, field) = {}
                                     \/ \E o \in fs : /\ o.kind = k /\ o.n = x.n
                                                      /\ Targets(x, field) \subseteq Targets(o, field)
  PROVE  AcyclicIn(gs, field, k)
<1> SUFFICES ASSUME NEW S \in SUBSET Numbers(gs, k), S # {}, \A n \in S : Leading(gs, field, n, k) \cap S # {}
             PROVE  FALSE
  BY DEF AcyclicIn
<1>1. ASSUME NEW n \in S, NEW m \in Leading(gs, field, n, k)
      PROVE  n \in Numbers(fs, k) /\ m \in Leading(fs, field, n, k)
  <2>1. PICK x \in gs : x.kind = k /\ x.n = n /\ \E r \in Targets(x, field) : m = r.n
    BY <1>1 DEF Leading
  <2>2. PICK o \in fs : o.kind = k /\ o.n = n /\ Targets(x, field) \subseteq Targets(o, field)
    BY <2>1
  <2> QED BY <2>1, <2>2 DEF Leading, Numbers
<1>2. S \in SUBSET Numbers(fs, k)
  <2>1. ASSUME NEW n \in S PROVE n \in Numbers(fs, k)
    <3>1. PICK m : m \in Leading(gs, field, n, k) \cap S
      OBVIOUS
    <3> QED BY <1>1, <3>1
  <2> QED BY <2>1
<1>3. PICK n \in S : Leading(fs, field, n, k) \cap S = {}
  BY <1>2 DEF AcyclicIn
<1>4. PICK m : m \in Leading(gs, field, n, k) \cap S
  OBVIOUS
<1> QED BY <1>1, <1>3, <1>4

LEMMA OrderUntouched ==
  ASSUME NEW fs, NEW gs, SameOrder(gs, fs), Orderly(fs)
  PROVE  Orderly(gs)
<1>1. AcyclicIn(gs, "depends_on", "milestone")
  <2>1. \A x \in gs : \E o \in fs : o.kind = x.kind /\ o.n = x.n
                                    /\ Targets(x, "depends_on") \subseteq Targets(o, "depends_on")
    BY DEF SameOrder, Alike, Targets
  <2> QED BY <2>1, CyclesUntouched DEF Orderly
<1>2. LiveIn(gs)
  <2> SUFFICES ASSUME NEW e \in gs, NEW r \in Targets(e, "depends_on"), ~IsTerminal(e.kind, e.status),
                      NEW o \in gs, IdOf(o) = IdOf(r)
               PROVE  o.status # "cancelled"
    BY DEF LiveIn
  <2>1. PICK a \in fs : Alike(e, a)
    BY DEF SameOrder
  <2>2. PICK b \in fs : Alike(o, b)
    BY DEF SameOrder
  <2>3. r \in Targets(a, "depends_on") /\ ~IsTerminal(a.kind, a.status) /\ IdOf(b) = IdOf(r)
    BY <2>1, <2>2 DEF Alike, Targets, IdOf
  <2>4. b.status # "cancelled"
    BY <2>3 DEF Orderly, LiveIn
  <2> QED BY <2>2, <2>4 DEF Alike
<1> QED BY <1>1, <1>2 DEF Orderly

-----------------------------------------------------------------------------
(* Resolutions.  A file nobody forced or imported is settled: resolved      *)
(* means it has its resolver, archived that it is done.  Of two such ADRs   *)
(* the one that says what superseded it is listed there.                    *)
Settled(e) ==
  /\ e.kind = "gap" /\ e.status = "addressed" => HasResolver(e)
  /\ e.kind = "adr" /\ e.status = "superseded" => Targets(e, "superseded_by") # {}
  /\ e.arch => IsTerminal(e.kind, e.status)
Acknowledged(e, o, wv) == o.uid \in wv \/ \E s \in Targets(o, "supersedes") : s.means = e.uid
Superseded(e, r, fs, wv) ==
  \E o \in fs : IdOf(o) = IdOf(r) /\ o.uid # e.uid /\ Acknowledged(e, o, wv)
Supersedes(b, s, fs) == s.means # b.uid /\ \E o \in fs : IdOf(o) = IdOf(s) /\ o.uid = s.means
Paired(fs, wv) ==
  /\ IdsDistinct(fs) /\ AcyclicIn(fs, "superseded_by", "adr")
  /\ \A b \in fs : \A s \in Targets(b, "supersedes") : Supersedes(b, s, fs)
  /\ \A e \in fs : e.uid \notin wv =>
       Settled(e) /\ \A r \in Targets(e, "superseded_by") : Superseded(e, r, fs, wv)

LEMMA PairedWithMore ==
  ASSUME NEW fs, NEW wv, NEW ww, wv \subseteq ww, Paired(fs, wv)
  PROVE  Paired(fs, ww)
BY DEF Paired, Superseded, Acknowledged

\* Where the references of a file went, and where they came from.
Followed(g, e, field, fs) ==
  /\ \A r \in Targets(g[e], field) : \E q \in Targets(e, field) :
       q.means = r.means /\ \A o \in fs : o.uid # e.uid /\ IdOf(o) = IdOf(q) => IdOf(g[o]) = IdOf(r)
  /\ \A q \in Targets(e, field) : \E r \in Targets(g[e], field) : r.means = q.means

LEMMA PairsFollow ==
  ASSUME NEW fs, NEW wv, Paired(fs, wv), NEW g,
         NEW gs, gs = {g[e] : e \in fs}, IdsDistinct(gs), AcyclicIn(gs, "superseded_by", "adr"),
         \A e \in fs : /\ g[e].uid = e.uid /\ (Settled(e) => Settled(g[e]))
                       /\ Followed(g, e, "superseded_by", fs) /\ Followed(g, e, "supersedes", fs)
  PROVE  Paired(gs, wv)
<1>1. ASSUME NEW e \in fs, NEW s \in Targets(g[e], "supersedes") PROVE Supersedes(g[e], s, gs)
  <2>1. PICK q \in Targets(e, "supersedes") :
          q.means = s.means /\ \A o \in fs : o.uid # e.uid /\ IdOf(o) = IdOf(q) => IdOf(g[o]) = IdOf(s)
    BY <1>1 DEF Followed
  <2>2. q.means # e.uid
    BY <2>1 DEF Paired, Supersedes
  <2>3. PICK o \in fs : IdOf(o) = IdOf(q) /\ o.uid = q.means
    BY <2>1 DEF Paired, Supersedes
  <2>4. IdOf(g[o]) = IdOf(s) /\ g[o].uid = s.means
    BY <2>1, <2>2, <2>3
  <2> QED BY <2>1, <2>2, <2>4 DEF Supersedes
<1>2. ASSUME NEW e \in fs, e.uid \notin wv, NEW r \in Targets(g[e], "superseded_by")
      PROVE  Superseded(g[e], r, gs, wv)
  <2>1. PICK q \in Targets(e, "superseded_by") :
          \A o \in fs : o.uid # e.uid /\ IdOf(o) = IdOf(q) => IdOf(g[o]) = IdOf(r)
    BY <1>2 DEF Followed
  <2>2. PICK o \in fs : IdOf(o) = IdOf(q) /\ o.uid # e.uid /\ Acknowledged(e, o, wv)
    BY <1>2, <2>1 DEF Paired, Superseded
  <2>3. IdOf(g[o]) = IdOf(r) /\ g[o].uid # g[e].uid
    BY <2>1, <2>2
  <2>4. Acknowledged(g[e], g[o], wv)
    <3>1. CASE o.uid \in wv
      BY <3>1 DEF Acknowledged
    <3>2. CASE o.uid \notin wv
      <4>1. PICK s \in Targets(o, "supersedes") : s.means = e.uid
        BY <2>2, <3>2 DEF Acknowledged
      <4>2. PICK t \in Targets(g[o], "supersedes") : t.means = s.means
        BY <4>1 DEF Followed
      <4> QED BY <4>1, <4>2 DEF Acknowledged
    <3> QED BY <3>1, <3>2
  <2> QED BY <2>3, <2>4 DEF Superseded
<1>3. \A e \in fs : g[e].uid \notin wv => Settled(g[e])
  BY DEF Paired
<1>4. \A x \in gs : \E e \in fs : x = g[e]
  OBVIOUS
<1>5. \A b \in gs : \A s \in Targets(b, "supersedes") : Supersedes(b, s, gs)
  BY <1>1, <1>4
<1>6. \A x \in gs : x.uid \notin wv => Settled(x) /\ \A r \in Targets(x, "superseded_by") : Superseded(x, r, gs, wv)
  <2> SUFFICES ASSUME NEW e \in fs, g[e].uid \notin wv
               PROVE  Settled(g[e]) /\ \A r \in Targets(g[e], "superseded_by") : Superseded(g[e], r, gs, wv)
    BY <1>4
  <2>1. e.uid \notin wv
    OBVIOUS
  <2> QED BY <1>2, <1>3, <2>1
<1> QED BY <1>5, <1>6 DEF Paired

\* A verb that leaves resolutions alone.
Tame(f, e) ==
  /\ Targets(f, "superseded_by") = Targets(e, "superseded_by")
  /\ Targets(f, "supersedes") = Targets(e, "supersedes")
  /\ Settled(e) => Settled(f)

LEMMA InPlaceIsDistinct ==
  ASSUME NEW p \in Scenarios, NEW fs, IdsDistinct(fs), NEW gs, TreeOK(p, gs), InPlace(gs, fs)
  PROVE  IdsDistinct(gs)
<1>1. \A x, o : Kin(x, o) => IdOf(x) = IdOf(o) /\ x.uid = o.uid
  BY DEF Kin, IdOf
<1> SUFFICES ASSUME NEW x \in gs, NEW y \in gs, IdOf(x) = IdOf(y) PROVE x = y
  BY DEF IdsDistinct
<1>2. PICK e \in fs : Kin(x, e)
  BY DEF InPlace
<1>3. PICK o \in fs : Kin(y, o)
  BY DEF InPlace
<1>4. e = o
  BY <1>1, <1>2, <1>3 DEF IdsDistinct
<1> QED BY <1>1, <1>2, <1>3, <1>4 DEF TreeOK, OneFileEach

LEMMA TamePairs ==
  ASSUME NEW p \in Scenarios, NEW fs, NEW wv, Paired(fs, wv), TreeOK(p, fs), NEW h,
         \A e \in fs : h[e] \in FileOf(p) /\ Kin(h[e], e) /\ Tame(h[e], e)
  PROVE  Paired({h[e] : e \in fs}, wv)
<1> DEFINE gs == {h[e] : e \in fs}
<1>1. TreeOK(p, gs) /\ InPlace(gs, fs)
  <2>1. \A e \in fs : h[e] \in FileOf(p) /\ Kin(h[e], e)
    OBVIOUS
  <2>2. /\ TreeOK(p, {h[e] : e \in fs}) /\ InPlace({h[e] : e \in fs}, fs)
        /\ \A x \in {h[e] : e \in fs}, o \in fs : x.uid = o.uid => x = h[o]
    BY <2>1, Rewriting, Zenon
  <2> QED BY <2>2
<1>2. IdsDistinct(gs)
  BY <1>1, InPlaceIsDistinct DEF Paired
<1>3. AcyclicIn(gs, "superseded_by", "adr")
  <2>1. \A x \in gs : \E o \in fs : o.kind = x.kind /\ o.n = x.n
                                    /\ Targets(x, "superseded_by") \subseteq Targets(o, "superseded_by")
    BY DEF Kin, Tame
  <2> QED BY <2>1, CyclesUntouched DEF Paired
<1>4. \A e \in fs : h[e].uid = e.uid /\ IdOf(h[e]) = IdOf(e)
  BY DEF Kin, IdOf
<1>5. ASSUME NEW e \in fs
      PROVE  Followed(h, e, "superseded_by", fs) /\ Followed(h, e, "supersedes", fs)
  BY <1>4 DEF Followed, Tame
<1>6. \A e \in fs : Settled(e) => Settled(h[e])
  BY DEF Tame
<1> HIDE DEF gs
<1>7. Paired(gs, wv)
  BY <1>2, <1>3, <1>4, <1>5, <1>6, PairsFollow DEF gs
<1> QED BY <1>7 DEF gs

(* A written file that says nothing of resolutions, in place of its own.    *)
Unlinked(w) == \A r \in w.refs : r.field \notin {"superseded_by", "supersedes"}

LEMMA WrittenPairs ==
  ASSUME NEW fs, NEW wv, Paired(fs, wv), NEW w, Unlinked(w),
         \A e \in fs : IdOf(e) = IdOf(w) <=> e.uid = w.uid,
         w.uid \in wv \/ (Settled(w) /\ \A e \in fs : e.uid # w.uid)
  PROVE  Paired(Written(fs, w), wv)
<1> DEFINE gs == Written(fs, w)
<1>1. Targets(w, "superseded_by") = {} /\ Targets(w, "supersedes") = {}
  BY DEF Unlinked, Targets
<1>2. \A x \in gs : x = w \/ (x \in fs /\ x.uid # w.uid)
  BY DEF Written
<1>3. ASSUME NEW o \in fs PROVE \E x \in gs : IdOf(x) = IdOf(o) /\ x.uid = o.uid /\ (x = o \/ o.uid \in wv)
  BY <1>3 DEF Written
<1>4. IdsDistinct(gs)
  BY <1>2 DEF Paired, IdsDistinct
<1>5. AcyclicIn(gs, "superseded_by", "adr")
  <2>1. \A x \in gs : \/ Targets(x, "superseded_by") = {}
                      \/ \E o \in fs : o.kind = x.kind /\ o.n = x.n
                                       /\ Targets(x, "superseded_by") \subseteq Targets(o, "superseded_by")
    BY <1>1, <1>2
  <2> HIDE DEF gs
  <2> QED BY <2>1, CyclesUntouched DEF Paired
<1>6. ASSUME NEW b \in gs, NEW s \in Targets(b, "supersedes") PROVE Supersedes(b, s, gs)
  <2>1. b \in fs
    BY <1>1, <1>2, <1>6
  <2>2. s.means # b.uid /\ \E o \in fs : IdOf(o) = IdOf(s) /\ o.uid = s.means
    BY <1>6, <2>1 DEF Paired, Supersedes
  <2> QED BY <1>3, <2>2 DEF Supersedes
<1>7. ASSUME NEW e \in gs, e.uid \notin wv, NEW r \in Targets(e, "superseded_by") PROVE Superseded(e, r, gs, wv)
  <2>1. e \in fs
    BY <1>1, <1>2, <1>7
  <2>2. PICK o \in fs : IdOf(o) = IdOf(r) /\ o.uid # e.uid /\ Acknowledged(e, o, wv)
    BY <1>7, <2>1 DEF Paired, Superseded
  <2>3. PICK x \in gs : IdOf(x) = IdOf(o) /\ x.uid = o.uid /\ (x = o \/ o.uid \in wv)
    BY <1>3
  <2>4. Acknowledged(e, x, wv)
    BY <2>2, <2>3 DEF Acknowledged
  <2> QED BY <2>2, <2>3, <2>4 DEF Superseded
<1>8. ASSUME NEW e \in gs, e.uid \notin wv PROVE Settled(e)
  BY <1>2, <1>8 DEF Paired
<1> HIDE DEF gs
<1>9. Paired(gs, wv)
  BY <1>4, <1>5, <1>6, <1>7, <1>8 DEF Paired
<1> QED BY <1>9 DEF gs

(* A plan that passes the gate leaves no new dangling reference.            *)
LEMMA DanglingGate ==
  ASSUME NEW p \in Scenarios, NEW fs, TreeOK(p, fs), NEW gs, TreeOK(p, gs),
         projectionFindings(At(fs), At(gs)) = {},
         NEW x \in gs, ~x.arch, NEW r \in x.refs,
         \A e \in fs : e.uid = x.uid =>
            \A q \in e.refs : Text(q) = Text(r) => \E o \in fs : IdOf(o) = IdOf(q)
  PROVE  \E y \in gs : IdOf(y) = IdOf(r)
<1> SUFFICES ASSUME \A y \in gs : IdOf(y) # IdOf(r) PROVE FALSE
  OBVIOUS
<1> DEFINE f == Finding("refs-resolve", resolveRef(At(gs), x, r), x, Text(r))
<1>1. fs \subseteq FileOf(p) /\ gs \subseteq FileOf(p)
  BY DEF TreeOK
<1>2. r \in Reference(p) /\ x \in Entities(At(gs))
  BY <1>1, FileFacts DEF Entities, At
<1>3. ~IsComposite(r) /\ ~InIndex(At(gs), IdOf(r)) /\ crossBranchIndex(At(gs), IdOf(r)) = {}
  BY <1>2, ReferenceFacts DEF InIndex, crossBranchIndex, At
<1>4. resolveRef(At(gs), x, r) = "unresolved"
  BY <1>3 DEF resolveRef
<1>5. f \in refsResolve(At(gs))
  <2>1. <<x, r>> \in UNION {{y} \X y.refs : y \in Entities(At(gs))}
    BY <1>2
  <2>2. <<x, r>> \in {q \in UNION {{y} \X y.refs : y \in Entities(At(gs))} :
                        ~q[1].arch /\ resolveRef(At(gs), q[1], q[2]) # None}
    BY <1>4, <2>1 DEF None
  <2> QED BY <2>2 DEF refsResolve
<1>6. f = Finding("refs-resolve", "unresolved", x, Text(r)) /\ f.code = "refs-resolve" /\ f.sub = "unresolved"
  BY <1>4, FindingFields
<1> HIDE DEF f
<1>7. f \in Run(At(gs)) /\ ~IsWarning(f) /\ ~IsCrossBranch(f)
  BY <1>5, <1>6 DEF Run, IsWarning, IsCrossBranch
<1>8. f \in refsResolve(At(fs))
  BY <1>6, <1>7, NothingNew, RuleOf
<1>9. PICK e \in Entities(At(fs)) :
        \E q \in e.refs : ~e.arch /\ f = Finding("refs-resolve", resolveRef(At(fs), e, q), e, Text(q))
  BY <1>8 DEF refsResolve
<1>10. PICK q \in e.refs : f = Finding("refs-resolve", resolveRef(At(fs), e, q), e, Text(q))
  BY <1>9
<1>11. /\ resolveRef(At(fs), e, q) = "unresolved" /\ PathOf(e) = PathOf(x) /\ Text(q) = Text(r)
  BY <1>6, <1>10 DEF Finding
<1>12. e \in fs /\ q \in Reference(p)
  BY <1>1, FileFacts DEF Entities, At
<1>13. e.uid = x.uid
  <2>1. e.slug = x.slug
    BY <1>11 DEF PathOf, ActiveForm
  <2> QED BY <1>1, <1>12, <2>1, FileFacts
<1>14. PICK o \in fs : IdOf(o) = IdOf(q)
  BY <1>11, <1>12, <1>13
<1>15. InIndex(At(fs), IdOf(q)) /\ ~IsComposite(q)
  BY <1>12, <1>14, ReferenceFacts DEF InIndex, At
<1>16. resolveRef(At(fs), e, q) \in {None, "wrong-kind"}
  BY <1>15 DEF resolveRef
<1> QED BY <1>11, <1>16 DEF None

-----------------------------------------------------------------------------
(* What flags and manifests may name.                                       *)
Made(r) == r \in Reference(play) /\ r.means = Designated(files, IdOf(r))

Fields == RewrittenFields \cup {"linked_adrs"}

\* What add and a manifest cannot say of an entity.
Flagged(k, r) ==
  /\ r.field \notin {"superseded_by", "supersedes"}
  /\ r.field = "depends_on" => k = "milestone" /\ r.kind = "milestone"

LEMMA FlagIsMade ==
  ASSUME play \in Scenarios, TreeOK(play, files), NEW field \in Fields, NEW id \in AllIDs \cup {play.parent}
  PROVE  Made(RefTo(field, id, 0)) /\ RefTo(field, id, 0).field = field /\ RefTo(field, id, 0).kind = id.kind
<1>1. PICK k \in Kinds, n \in 1..MaxNum : id = [kind |-> k, n |-> n]
  <2>1. CASE id \in AllIDs
    BY <2>1, ScenarioFacts DEF AllIDs, Uids
  <2>2. CASE id = play.parent
    <3>1. 1 \in 1..MaxNum /\ "epic" \in Kinds
      BY ScenarioFacts DEF Kinds
    <3> QED BY <2>2, <3>1, ScenarioFacts
  <2> QED BY <2>1, <2>2
<1>2. PICK d : d = Designated(files, id)
  OBVIOUS
<1>3. d \in DOMAIN play.cast \cup {0}
  BY <1>2, DesignatedFacts
<1>4. RefTo(field, id, 0) = [field |-> field, kind |-> k, n |-> n, ac |-> 0, means |-> d]
  BY <1>1, <1>2 DEF RefTo, Ref
<1>5. RefTo(field, id, 0) \in Reference(play)
  BY <1>3, <1>4 DEF Reference, Fields
<1>6. /\ IdOf(RefTo(field, id, 0)) = id /\ RefTo(field, id, 0).means = d
      /\ RefTo(field, id, 0).field = field /\ RefTo(field, id, 0).kind = id.kind
  BY <1>1, <1>4 DEF IdOf
<1> QED BY <1>2, <1>5, <1>6 DEF Made

LEMMA OptionalIsMade ==
  ASSUME play \in Scenarios, TreeOK(play, files), NEW field \in Fields, NEW ids \in SUBSET AllIDs,
         NEW refs \in OptionalRef(field, ids)
  PROVE  \A r \in refs : Made(r) /\ r.field = field /\ \E id \in ids : r.kind = id.kind
<1>1. ASSUME NEW id \in ids
      PROVE  Made(RefTo(field, id, 0)) /\ RefTo(field, id, 0).field = field /\ RefTo(field, id, 0).kind = id.kind
  BY FlagIsMade
<1> QED BY <1>1 DEF OptionalRef

LEMMA RefFlagsAreMade ==
  ASSUME play \in Scenarios, TreeOK(play, files), NEW k \in Kinds, NEW refs \in RefFlags(k)
  PROVE  \A r \in refs : Made(r) /\ Flagged(k, r)
<1>1. \A x : OfKind(x) \subseteq AllIDs
  BY DEF OfKind
<1>k. \A x : \A id \in OfKind(x) : id.kind = x
  BY DEF OfKind
<1>2. {"parent", "depends_on", "discovered_in", "relates_to", "linked_adrs"} \subseteq Fields
  BY DEF Fields, RewrittenFields
<1>3. CASE k = "milestone"
  <2>1. PICK d \in OptionalRef("depends_on", OfKind(k)) : refs = {RefTo("parent", play.parent, 0)} \cup d
    BY <1>3 DEF RefFlags
  <2>2. \A r \in d : Made(r) /\ r.field = "depends_on" /\ r.kind = "milestone"
    BY <1>1, <1>2, <1>3, <1>k, <2>1, OptionalIsMade
  <2>3. Made(RefTo("parent", play.parent, 0)) /\ RefTo("parent", play.parent, 0).field = "parent"
    BY <1>2, FlagIsMade
  <2> QED BY <1>3, <2>1, <2>2, <2>3 DEF Flagged
<1>4. CASE k = "gap"
  <2>1. refs \in OptionalRef("discovered_in", OfKind("milestone"))
    BY <1>4 DEF RefFlags
  <2> QED BY <1>1, <1>2, <2>1, OptionalIsMade DEF Flagged
<1>5. CASE k = "decision"
  <2>1. refs \in OptionalRef("relates_to", AllIDs)
    BY <1>5 DEF RefFlags
  <2> QED BY <1>1, <1>2, <2>1, OptionalIsMade DEF Flagged
<1>6. CASE k = "contract"
  <2>1. refs \in OptionalRef("linked_adrs", OfKind("adr"))
    BY <1>6 DEF RefFlags
  <2> QED BY <1>1, <1>2, <2>1, OptionalIsMade DEF Flagged
<1>7. CASE k \in {"epic", "adr"}
  BY <1>7 DEF RefFlags
<1> QED BY <1>3, <1>4, <1>5, <1>6, <1>7 DEF Kinds

LEMMA ResolverFlagsAreMade ==
  ASSUME play \in Scenarios, TreeOK(play, files), NEW k, NEW to, NEW o \in FlagsFor(k, to)
  PROVE  /\ o.commit \in BOOLEAN
         /\ \A r \in o.by \cup o.sup : Made(r)
         /\ o.sup # {} => k = "adr" /\ to = "superseded"
         /\ \A r \in o.by : r.field = "addressed_by"
         /\ \A r \in o.sup : r.field = "superseded_by" /\ r.kind = "adr"
<1>1. \A x : OfKind(x) \subseteq AllIDs
  BY DEF OfKind
<1>k. \A id \in OfKind("adr") : id.kind = "adr"
  BY DEF OfKind
<1>2. {"addressed_by", "superseded_by"} \subseteq Fields
  BY DEF Fields, RewrittenFields
<1>3. CASE k = "gap" /\ to = "addressed"
  <2>1. PICK b \in OptionalRef("addressed_by", AllIDs), c \in BOOLEAN : o = [by |-> b, commit |-> c, sup |-> {}]
    BY <1>3 DEF FlagsFor
  <2>2. \A r \in b : Made(r) /\ r.field = "addressed_by"
    BY <1>2, OptionalIsMade
  <2> QED BY <2>1, <2>2
<1>4. CASE k = "adr" /\ to = "superseded"
  <2>1. PICK x \in OptionalRef("superseded_by", OfKind("adr")) : o = [NoFlags EXCEPT !.sup = x]
    BY <1>4 DEF FlagsFor
  <2>2. \A r \in x : Made(r) /\ r.field = "superseded_by" /\ r.kind = "adr"
    BY <1>1, <1>2, <1>k, OptionalIsMade
  <2>3. o.by = {} /\ o.sup = x /\ o.commit = FALSE
    BY <2>1 DEF NoFlags
  <2> QED BY <1>4, <2>2, <2>3
<1>5. CASE ~(k = "gap" /\ to = "addressed") /\ ~(k = "adr" /\ to = "superseded")
  <2>1. o = NoFlags
    BY <1>5 DEF FlagsFor
  <2> QED BY <2>1 DEF NoFlags
<1> QED BY <1>3, <1>4, <1>5

-----------------------------------------------------------------------------
(* The invariant.  An import hands over one plan per entity, so the tree    *)
(* that is sound is the one in which the plan still to come is written too. *)
Binding(p) == [n : 1..MaxNum, validator : p.tools, means : DOMAIN p.cast]
YamlOK(p, y) ==
  y \in [areas : SUBSET p.names, validators : SUBSET p.tools, bindings : SUBSET Binding(p)]
PlansOK(p, ps) == ps \in Seq({w \in FileOf(p) : w.area = None}) /\ Len(ps) <= 1
FinalOf(fs, ps) == IF ps = <<>> THEN fs ELSE Written(fs, ps[1])

TypeInv == play \in Scenarios /\ TreeOK(play, files) /\ PlansOK(play, plans) /\ YamlOK(play, yaml)
SoundInv == merged = {} /\ ~halted => Sound(FinalOf(files, plans))
Inv == TypeInv /\ SoundInv

\* Where a verb starts from, and where it leads.
Ready == TypeInv /\ plans = <<>> /\ (merged = {} /\ ~halted => Sound(files))
Leads(gs) == TreeOK(play, gs) /\ (merged = {} /\ ~halted => Sound(gs))
AreasKept(gs) == \A x \in gs : \E o \in files : x.area = o.area

LEMMA VerbIsReady == ASSUME Inv, NEW verb, On(verb) PROVE Ready
BY DEF Inv, SoundInv, FinalOf, On, Ready

LEMMA HeldID ==
  ASSUME Ready, NEW id \in IDs
  PROVE  ByID(T, id) \in files /\ IdOf(ByID(T, id)) = id /\ ByID(T, id).kind = id.kind
<1>1. HasID(At(files), id)
  BY HoldersOf DEF Ready, TypeInv, IDs, HasID
<1>2. ByID(T, id) \in files /\ IdOf(ByID(T, id)) = id
  BY <1>1, LookupFinds DEF Ready, TypeInv, T
<1> QED BY <1>2 DEF IdOf

LEMMA Rewritten ==
  ASSUME Ready, NEW h, NEW gs, gs = {h[e] : e \in files},
         \A e \in files : h[e] \in FileOf(play) /\ Kin(h[e], e),
         \/ \A e \in files : h[e].refs = e.refs
         \/ /\ merged = {} /\ ~halted => \A e \in files : \A r \in h[e].refs : r \in e.refs \/ Made(r)
            /\ projectionFindings(T, At(gs)) = {}
  PROVE  Leads(gs) /\ InPlace(gs, files)
<1>1. play \in Scenarios /\ TreeOK(play, files)
  BY DEF Ready, TypeInv
<1>2. /\ TreeOK(play, gs) /\ InPlace(gs, files)
      /\ \A x \in gs, o \in files : x.uid = o.uid => x = h[o]
  <2>1. /\ TreeOK(play, {h[e] : e \in files}) /\ InPlace({h[e] : e \in files}, files)
        /\ \A x \in {h[e] : e \in files}, o \in files : x.uid = o.uid => x = h[o]
    BY <1>1, Rewriting, Zenon
  <2> QED BY <2>1
<1>3. ASSUME merged = {}, ~halted PROVE Sound(gs)
  <2>1. Sound(files)
    BY <1>3 DEF Ready
  <2>2. ASSUME NEW x \in gs, NEW o \in files, x.uid = o.uid, ~x.arch, NEW r \in x.refs
        PROVE  r \in o.refs \/ (r.means = Designated(files, IdOf(r)) /\ \E y \in gs : IdOf(y) = IdOf(r))
    <3>1. x = h[o]
      BY <1>2, <2>2
    <3>2. CASE \A e \in files : h[e].refs = e.refs
      BY <2>2, <3>1, <3>2
    <3>3. CASE /\ merged = {} /\ ~halted => \A e \in files : \A q \in h[e].refs : q \in e.refs \/ Made(q)
               /\ projectionFindings(T, At(gs)) = {}
      <4>1. r \in o.refs \/ Made(r)
        BY <1>3, <2>2, <3>1, <3>3
      <4>2. \E y \in gs : IdOf(y) = IdOf(r)
        BY <1>1, <1>2, <2>1, <2>2, <3>3, GateAnswers DEF T
      <4> QED BY <4>1, <4>2 DEF Made
    <3> QED BY <3>2, <3>3
  <2> QED BY <1>1, <1>2, <2>1, <2>2, InPlaceIsSound
<1> QED BY <1>2, <1>3 DEF Leads

-----------------------------------------------------------------------------
(* The verbs that write one file where it is.                               *)
LEMMA Replacing ==
  ASSUME Ready, NEW e \in files, NEW new \in FileOf(play), Kin(new, e),
         \/ new.refs = e.refs
         \/ /\ \A r \in new.refs : r \in e.refs \/ Made(r)
            /\ projectionFindings(T, At(Replace(files, e, new))) = {}
  PROVE  Leads(Replace(files, e, new)) /\ InPlace(Replace(files, e, new), files)
<1> DEFINE h == [x \in files |-> IF x = e THEN new ELSE x]
           gs == Replace(files, e, new)
<1>1. h[e] = new /\ \A x \in files : x # e => h[x] = x
  OBVIOUS
<1>2. gs = {h[x] : x \in files}
  BY DEF Replace
<1>3. \A x \in files : h[x] \in FileOf(play) /\ Kin(h[x], x)
  BY <1>1 DEF Ready, TypeInv, TreeOK, Kin
<1>4. \/ \A x \in files : h[x].refs = x.refs
      \/ /\ \A x \in files : \A r \in h[x].refs : r \in x.refs \/ Made(r)
         /\ projectionFindings(T, At(gs)) = {}
  BY <1>1
<1> HIDE DEF h, gs
<1>5. Leads(gs) /\ InPlace(gs, files)
  BY <1>2, <1>3, <1>4, Rewritten
<1> QED BY <1>5 DEF gs

LEMMA CancelTargets ==
  ASSUME NEW k \in Kinds, NEW status, CancelTarget(k, status) # None
  PROVE  CancelTarget(k, status) \in Statuses(k)
BY DEF Kinds, CancelTarget, Statuses, transitions, EpicFSM, MilestoneFSM, RulingFSM, GapFSM, ContractFSM

LEMMA CancelLeads ==
  ASSUME Ready, NEW id \in IDs, Cancel(id)
  PROVE  Leads(files') /\ InPlace(files', files) /\ AreasKept(files')
<1> DEFINE e == ByID(T, id)
           to == CancelTarget(e.kind, e.status)
           new == [e EXCEPT !.status = to]
<1>1. e \in files /\ play \in Scenarios /\ e \in FileOf(play)
  BY HeldID DEF Ready, TypeInv, TreeOK
<1>2. to # None /\ files' = Replace(files, e, new)
  BY DEF Cancel, Commit
<1>3. to \in Statuses(e.kind)
  BY <1>1, <1>2, FileFacts, CancelTargets
<1> HIDE DEF e, to
<1>4. new \in FileOf(play) /\ Kin(new, e) /\ new.refs = e.refs /\ new.area = e.area
  BY <1>1, <1>3, StatusUpdate
<1> HIDE DEF new
<1>5. Leads(files') /\ InPlace(files', files)
  BY <1>1, <1>2, <1>4, Replacing
<1>6. AreasKept(files')
  BY <1>1, <1>2, <1>4 DEF AreasKept, Replace
<1> QED BY <1>5, <1>6

LEMMA DependsLeads ==
  ASSUME Ready, NEW id \in IDs, NEW deps \in SUBSET OfKind("milestone"), MilestoneDependsOn(id, deps)
  PROVE  Leads(files') /\ InPlace(files', files) /\ AreasKept(files')
<1> DEFINE e == ByID(T, id)
           refs == {RefTo("depends_on", d, 0) : d \in deps}
           rs == (e.refs \ Targets(e, "depends_on")) \cup refs
           new == [e EXCEPT !.refs = rs]
<1>1. e \in files /\ play \in Scenarios /\ e \in FileOf(play)
  BY HeldID DEF Ready, TypeInv, TreeOK
<1>2. files' = Replace(files, e, new) /\ projectionFindings(T, At(files')) = {}
  BY DEF MilestoneDependsOn, Commit, ReplacePasses
<1>3. \A r \in refs : Made(r)
  <2>1. "depends_on" \in Fields /\ deps \subseteq AllIDs
    BY DEF Fields, RewrittenFields, OfKind
  <2> QED BY <2>1, FlagIsMade DEF Ready, TypeInv
<1> HIDE DEF e, refs
<1>4. rs \in SUBSET Reference(play) /\ \A r \in rs : r \in e.refs \/ Made(r)
  BY <1>1, <1>3, FileFacts DEF Made
<1> HIDE DEF rs
<1>5. new \in FileOf(play) /\ Kin(new, e) /\ new.refs = rs /\ new.area = e.area
  BY <1>1, <1>4, RefsUpdate
<1> HIDE DEF new
<1>6. Leads(files') /\ InPlace(files', files)
  BY <1>1, <1>2, <1>4, <1>5, Replacing
<1>7. AreasKept(files')
  BY <1>1, <1>2, <1>5 DEF AreasKept, Replace
<1> QED BY <1>6, <1>7

LEMMA PriorityLeads ==
  ASSUME Ready, NEW id \in IDs, NEW l \in Levels \cup {None}, SetPriority(id, l)
  PROVE  Leads(files') /\ InPlace(files', files) /\ AreasKept(files')
<1> DEFINE e == ByID(T, id)
           new == [e EXCEPT !.prio = l]
<1>1. e \in files /\ play \in Scenarios /\ e \in FileOf(play)
  BY HeldID DEF Ready, TypeInv, TreeOK
<1>2. files' = Replace(files, e, new)
  BY DEF SetPriority, Commit
<1> HIDE DEF e
<1>3. new \in FileOf(play) /\ Kin(new, e) /\ new.refs = e.refs /\ new.area = e.area
  BY <1>1, PriorityUpdate
<1> HIDE DEF new
<1>4. Leads(files') /\ InPlace(files', files)
  BY <1>1, <1>2, <1>3, Replacing
<1>5. AreasKept(files')
  BY <1>1, <1>2, <1>3 DEF AreasKept, Replace
<1> QED BY <1>4, <1>5

LEMMA AreaLeads ==
  ASSUME Ready, NEW id \in IDs, NEW v \in yaml.areas \cup {AreaGlobal, None}, SetArea(id, v)
  PROVE  /\ Leads(files') /\ InPlace(files', files)
         /\ \A x \in files' : x.area = v \/ x \in files
<1> DEFINE e == ByID(T, id)
           new == [e EXCEPT !.area = v]
<1>1. e \in files /\ play \in Scenarios /\ e \in FileOf(play)
  BY HeldID DEF Ready, TypeInv, TreeOK
<1>2. files' = Replace(files, e, new)
  BY DEF SetArea, Commit
<1>3. v \in play.names \cup {None, AreaGlobal}
  BY DEF Ready, TypeInv, YamlOK
<1> HIDE DEF e
<1>4. new \in FileOf(play) /\ Kin(new, e) /\ new.refs = e.refs /\ new.area = v
  BY <1>1, <1>3, AreaUpdate
<1> HIDE DEF new
<1>5. Leads(files') /\ InPlace(files', files)
  BY <1>1, <1>2, <1>4, Replacing
<1> QED BY <1>2, <1>4, <1>5 DEF Replace

(* The verbs that write several files where they are.                       *)
LEMMA ReplacingSome ==
  ASSUME Ready, NEW S \in SUBSET files, NEW g,
         \A e \in S : g[e] \in FileOf(play) /\ Kin(g[e], e) /\ g[e].refs = e.refs
  PROVE  Leads((files \ S) \cup {g[e] : e \in S}) /\ InPlace((files \ S) \cup {g[e] : e \in S}, files)
<1> DEFINE h == [x \in files |-> IF x \in S THEN g[x] ELSE x]
           gs == (files \ S) \cup {g[e] : e \in S}
<1>1. \A x \in files : h[x] = IF x \in S THEN g[x] ELSE x
  OBVIOUS
<1>2. gs = {h[x] : x \in files}
  OBVIOUS
<1>3. \A x \in files : h[x] \in FileOf(play) /\ Kin(h[x], x) /\ h[x].refs = x.refs
  BY <1>1 DEF Ready, TypeInv, TreeOK, Kin
<1> HIDE DEF h, gs
<1>4. Leads(gs) /\ InPlace(gs, files)
  BY <1>2, <1>3, Rewritten
<1> QED BY <1>4 DEF gs

LEMMA RenameAreaLeads ==
  ASSUME Ready, NEW old \in play.names, NEW new \in play.names, RenameArea(old, new)
  PROVE  /\ Leads(files') /\ InPlace(files', files) /\ YamlOK(play, yaml')
         /\ yaml' = [yaml EXCEPT !.areas = (yaml.areas \ {old}) \cup {new}]
         /\ \A x \in files' : x.area = new \/ (x \in files /\ x.area # old)
<1> DEFINE tagged == {e \in files : e.area = old}
           g == [e \in tagged |-> [e EXCEPT !.area = new]]
<1>1. files' = (files \ tagged) \cup {[e EXCEPT !.area = new] : e \in tagged}
  BY DEF RenameArea, Commit
<1>2. \A e \in tagged : e \in FileOf(play)
  BY DEF Ready, TypeInv, TreeOK
<1>3. \A e \in tagged : g[e] \in FileOf(play) /\ Kin(g[e], e) /\ g[e].refs = e.refs /\ g[e].area = new
  BY <1>2, AreaUpdate DEF Ready, TypeInv
<1>4. files' = (files \ tagged) \cup {g[e] : e \in tagged} /\ tagged \in SUBSET files
  BY <1>1
<1>5. \A x \in files \ tagged : x.area # old
  OBVIOUS
<1> HIDE DEF g, tagged
<1>6. Leads(files') /\ InPlace(files', files)
  BY <1>3, <1>4, ReplacingSome
<1>7. yaml' = [yaml EXCEPT !.areas = (yaml.areas \ {old}) \cup {new}]
  BY DEF RenameArea
<1>8. YamlOK(play, yaml')
  BY <1>7 DEF Ready, TypeInv, YamlOK
<1> QED BY <1>3, <1>4, <1>5, <1>6, <1>7, <1>8

LEMMA SweepLeads ==
  ASSUME Ready, ArchiveSweep
  PROVE  Leads(files') /\ InPlace(files', files) /\ AreasKept(files')
<1> DEFINE swept == {e \in files : isPendingSweep(e)}
           g == [e \in swept |-> [e EXCEPT !.arch = TRUE]]
<1>1. files' = (files \ swept) \cup {[e EXCEPT !.arch = TRUE] : e \in swept}
  BY DEF ArchiveSweep, Commit
<1>2. \A e \in swept : e \in FileOf(play)
  BY DEF Ready, TypeInv, TreeOK
<1>3. \A e \in swept : g[e] \in FileOf(play) /\ Kin(g[e], e) /\ g[e].refs = e.refs /\ g[e].area = e.area
  BY <1>2, ArchiveUpdate DEF Ready, TypeInv
<1>4. files' = (files \ swept) \cup {g[e] : e \in swept} /\ swept \in SUBSET files
  BY <1>1
<1> HIDE DEF g, swept
<1>5. Leads(files') /\ InPlace(files', files)
  BY <1>3, <1>4, ReplacingSome
<1>6. AreasKept(files')
  BY <1>3, <1>4 DEF AreasKept
<1> QED BY <1>5, <1>6

\* What promote leaves of the files it found: the one it moves has the flags' references
\* in place of its own of that field, and the ADR it names says so too.
Superseding(e) == Ref("supersedes", "adr", e.n, 0, e.uid)
Answered(refs, o) ==
  (refs \ {r \in refs : \/ r.field = "addressed_by" /\ o.by # {}
                        \/ r.field = "superseded_by" /\ o.sup # {}}) \cup o.by \cup o.sup
Resolves(h, e, to, o) ==
  /\ files' = {h[x] : x \in files}
  /\ \A x \in files : h[x] \in FileOf(play) /\ Kin(h[x], x) /\ h[x].area = x.area /\ h[x].arch = x.arch
  /\ h[e] = applyResolverFlags([e EXCEPT !.status = to], o) /\ h[e].status = to /\ h[e].refs = Answered(e.refs, o)
  /\ \A x \in files \ {e} :
       /\ h[x].status = x.status /\ h[x].byCommit = x.byCommit
       /\ h[x].refs = IF x \in Reciprocal(files, e, o) THEN x.refs \cup {Superseding(e)} ELSE x.refs

LEMMA PromoteWrites ==
  ASSUME Ready, NEW id \in IDs, NEW to \in Statuses(id.kind), NEW force \in BOOLEAN,
         NEW o \in FlagsFor(id.kind, to), Promote(id, to, o, force)
  PROVE  \E h : Resolves(h, ByID(T, id), to, o)
<1> DEFINE e == ByID(T, id)
           moved == [e EXCEPT !.status = to]
           replaced == {r \in moved.refs : \/ r.field = "addressed_by" /\ o.by # {}
                                           \/ r.field = "superseded_by" /\ o.sup # {}}
           rs == (moved.refs \ replaced) \cup o.by \cup o.sup
           c == moved.byCommit \/ o.commit
           new == applyResolverFlags(moved, o)
           backs == Reciprocal(files, e, o)
           back(b) == BackLinked(b, e)
           h == [x \in files |-> IF x = e THEN new ELSE IF x \in backs THEN back(x) ELSE x]
           gs == ((files \ {e}) \ backs) \cup {new} \cup {back(b) : b \in backs}
<1>1. /\ e \in files /\ play \in Scenarios /\ TreeOK(play, files) /\ files \subseteq FileOf(play)
      /\ e \in FileOf(play) /\ IdOf(e) = id /\ e.kind = id.kind
  BY HeldID DEF Ready, TypeInv, TreeOK
<1>2. files' = gs
  BY DEF Promote, Commit
<1>3. o.commit \in BOOLEAN /\ (\A r \in o.by \cup o.sup : Made(r)) /\ (o.sup # {} => id.kind = "adr")
  BY <1>1, ResolverFlagsAreMade
<1> HIDE DEF e
<1>4. /\ moved \in FileOf(play) /\ Kin(moved, e) /\ moved.refs = e.refs /\ moved.area = e.area
      /\ moved.byCommit = e.byCommit /\ moved.arch = e.arch /\ moved.status = to
  BY <1>1, StatusUpdate
<1> HIDE DEF moved
<1>5. new = [moved EXCEPT !.refs = rs, !.byCommit = c]
  BY DEF applyResolverFlags
<1>6. rs \in SUBSET Reference(play) /\ c \in BOOLEAN /\ rs = Answered(e.refs, o)
  <2>1. e.refs \subseteq Reference(play) /\ e.byCommit \in BOOLEAN
    BY <1>1, FileFacts
  <2>2. rs = Answered(e.refs, o)
    <3>1. rs = Answered(moved.refs, o)
      BY DEF Answered
    <3> QED BY <1>4, <3>1
  <2>3. rs \in SUBSET Reference(play)
    BY <1>3, <1>4, <2>1 DEF Made
  <2>4. c \in BOOLEAN
    BY <1>3, <1>4, <2>1
  <2> QED BY <2>2, <2>3, <2>4
<1> HIDE DEF replaced, rs, c, new
<1>7. /\ new \in FileOf(play) /\ Kin(new, moved) /\ new.refs = rs /\ new.area = moved.area
      /\ new.arch = moved.arch /\ new.status = moved.status
  <2>1. moved \in Shape(play) /\ moved.status \in Statuses(moved.kind)
    BY <1>1, <1>4, ShapeOf, FileFacts
  <2>2. new \in Shape(play)
    BY <1>5, <1>6, <2>1 DEF Shape
  <2>3. /\ Kin(new, moved) /\ new.slug = moved.slug /\ new.status = moved.status
        /\ new.refs = rs /\ new.area = moved.area /\ new.arch = moved.arch
    BY <1>5, <2>1 DEF Shape, Kin
  <2>4. new \in FileOf(play)
    BY <1>1, <1>4, <2>1, <2>2, <2>3, KinStays
  <2> QED BY <2>3, <2>4
<1>8. Kin(new, e) /\ new.area = e.area /\ new.arch = e.arch /\ new.status = to
  BY <1>4, <1>7 DEF Kin
<1>9. backs \subseteq files /\ (\A b \in backs : b.n # e.n) /\ (backs # {} => e.kind = "adr")
  BY <1>1, <1>3 DEF Reciprocal
<1>10. ASSUME NEW b \in backs
       PROVE  /\ back(b) \in FileOf(play) /\ Kin(back(b), b) /\ back(b).area = b.area /\ back(b).arch = b.arch
              /\ back(b).status = b.status /\ back(b).byCommit = b.byCommit
              /\ back(b).refs = b.refs \cup {Superseding(e)}
  <2> DEFINE link == Superseding(e)
             bs == b.refs \cup {link}
  <2>1. link \in Reference(play)
    <3>1. e.n \in 1..MaxNum /\ e.uid \in DOMAIN play.cast
      BY <1>1, FileFacts
    <3> QED BY <3>1 DEF Superseding, Ref, Reference, RewrittenFields, Kinds
  <2>2. b \in FileOf(play) /\ b.refs \subseteq Reference(play)
    BY <1>1, <1>9, FileFacts
  <2>3. back(b) = [b EXCEPT !.refs = bs] /\ bs \in SUBSET Reference(play)
    BY <2>1, <2>2 DEF BackLinked, Superseding
  <2> HIDE DEF bs, back
  <2>4. /\ back(b) \in FileOf(play) /\ Kin(back(b), b) /\ back(b).refs = bs /\ back(b).area = b.area
        /\ back(b).arch = b.arch /\ back(b).status = b.status /\ back(b).byCommit = b.byCommit
    BY <1>1, <2>2, <2>3, RefsUpdate
  <2> QED BY <2>4 DEF bs
<1>11. e \notin backs
  BY <1>9
<1>12. /\ h[e] = new /\ (\A x \in backs : h[x] = back(x))
       /\ \A x \in files : x # e /\ x \notin backs => h[x] = x
  BY <1>1, <1>9, <1>11
<1>13. gs = {h[x] : x \in files}
  BY <1>1, <1>9, <1>11
<1>h. new = applyResolverFlags([e EXCEPT !.status = to], o) /\ backs = Reciprocal(files, e, o)
  BY DEF new, moved
<1> HIDE DEF h, gs, backs, back
<1>14. ASSUME NEW x \in files
       PROVE  h[x] \in FileOf(play) /\ Kin(h[x], x) /\ h[x].area = x.area /\ h[x].arch = x.arch
  <2>1. CASE x = e
    BY <1>7, <1>8, <1>12, <2>1
  <2>2. CASE x \in backs
    BY <1>10, <1>12, <2>2
  <2>3. CASE x # e /\ x \notin backs
    BY <1>1, <1>12, <2>3 DEF Kin
  <2> QED BY <2>1, <2>2, <2>3
<1>15. ASSUME NEW x \in files \ {e}
       PROVE  /\ h[x].status = x.status /\ h[x].byCommit = x.byCommit
              /\ h[x].refs = IF x \in backs THEN x.refs \cup {Superseding(e)} ELSE x.refs
  <2>1. CASE x \in backs
    BY <1>10, <1>12, <2>1
  <2>2. CASE x \notin backs
    BY <1>12, <1>15, <2>2
  <2> QED BY <2>1, <2>2
<1>16. files' = {h[x] : x \in files} /\ h[e] = new /\ h[e].status = to /\ h[e].refs = Answered(e.refs, o)
  BY <1>2, <1>6, <1>7, <1>8, <1>12, <1>13
<1>17. Resolves(h, e, to, o)
  BY <1>14, <1>15, <1>16, <1>h DEF Resolves
<1> QED BY <1>17 DEF e

LEMMA PromoteLeads ==
  ASSUME Ready, NEW id \in IDs, NEW to \in Statuses(id.kind), NEW force \in BOOLEAN,
         NEW o \in FlagsFor(id.kind, to), Promote(id, to, o, force)
  PROVE  Leads(files') /\ InPlace(files', files) /\ AreasKept(files')
<1> DEFINE e == ByID(T, id)
           backs == Reciprocal(files, e, o)
<1>1. /\ e \in files /\ play \in Scenarios /\ TreeOK(play, files) /\ files \subseteq FileOf(play)
      /\ e \in FileOf(play) /\ e.kind = id.kind
  BY HeldID DEF Ready, TypeInv, TreeOK
<1>2. projectionFindings(T, At(files')) = {}
  BY DEF Promote, Commit, ReplacePasses
<1>3. (\A r \in o.by \cup o.sup : Made(r)) /\ (o.sup # {} => id.kind = "adr")
  BY <1>1, ResolverFlagsAreMade
<1>4. PICK h : Resolves(h, e, to, o)
  BY PromoteWrites
<1> HIDE DEF e
<1>5. backs # {} => e.kind = "adr"
  BY <1>1, <1>3 DEF Reciprocal
<1>6. ASSUME merged = {}, ~halted, e.kind = "adr" PROVE Made(Superseding(e))
  <2>1. Designated(files, IdOf(e)) = e.uid
    BY <1>1, <1>6, LookupUnique DEF Ready, Sound
  <2>2. e.n \in 1..MaxNum /\ e.uid \in DOMAIN play.cast
    BY <1>1, FileFacts
  <2> DEFINE link == Superseding(e)
  <2>3. link = [field |-> "supersedes", kind |-> "adr", n |-> e.n, ac |-> 0, means |-> e.uid]
    BY DEF Superseding, Ref
  <2>4. link \in Reference(play)
    BY <2>2, <2>3 DEF Reference, RewrittenFields, Kinds
  <2>5. IdOf(link) = IdOf(e) /\ link.means = e.uid
    BY <1>6, <2>3 DEF IdOf
  <2> QED BY <2>1, <2>4, <2>5 DEF Made
<1> HIDE DEF backs
<1>7. ASSUME merged = {}, ~halted, NEW x \in files, NEW r \in h[x].refs PROVE r \in x.refs \/ Made(r)
  <2>1. CASE x = e
    BY <1>3, <1>4, <1>7, <2>1 DEF Resolves, Answered
  <2>2. CASE x # e /\ x \in backs
    <3>1. h[x].refs = x.refs \cup {Superseding(e)}
      BY <1>4, <2>2 DEF Resolves, backs
    <3>2. Made(Superseding(e))
      BY <1>5, <1>6, <1>7, <2>2
    <3> QED BY <1>7, <3>1, <3>2
  <2>3. CASE x # e /\ x \notin backs
    BY <1>4, <1>7, <2>3 DEF Resolves, backs
  <2> QED BY <2>1, <2>2, <2>3
<1>8. files' = {h[x] : x \in files} /\ \A x \in files : h[x] \in FileOf(play) /\ Kin(h[x], x) /\ h[x].area = x.area
  BY <1>4 DEF Resolves
<1>9. Leads(files') /\ InPlace(files', files)
  BY <1>2, <1>7, <1>8, Rewritten
<1>10. AreasKept(files')
  BY <1>8 DEF AreasKept
<1> QED BY <1>9, <1>10

-----------------------------------------------------------------------------
(* The verbs that write a new file.                                         *)
LEMMA NewFileFields ==
  \A u, n, status, refs :
    LET w == NewFile(u, n, status, refs)
    IN /\ w.uid = u /\ w.kind = play.cast[u] /\ w.n = n /\ w.refs = refs /\ w.slug = u
       /\ w.area = None /\ w.prior = {} /\ w.arch = FALSE /\ w.status = status
BY DEF NewFile

LEMMA NewFileFacts ==
  ASSUME play \in Scenarios, NEW u \in Uids, NEW n \in 1..MaxNum, NEW status \in Statuses(play.cast[u]),
         NEW refs \in SUBSET Reference(play)
  PROVE  NewFile(u, n, status, refs) \in FileOf(play)
<1> DEFINE w == NewFile(u, n, status, refs)
<1>1. play.cast[u] \in Kinds /\ u \in DOMAIN play.cast
  BY ScenarioFacts DEF Uids
<1>2. status \in UNION {Statuses(k) : k \in Kinds} /\ {} \in SUBSET (1..MaxNum) /\ {} \in {{}}
  BY <1>1
<1>3. w \in Shape(play)
  BY <1>1, <1>2 DEF NewFile, Shape
<1>4. /\ w.uid = u /\ w.kind = play.cast[u] /\ w.n = n /\ w.refs = refs /\ w.slug = u
      /\ w.prior = {} /\ w.status = status
  BY DEF NewFile
<1> HIDE DEF w
<1>5. w \in FileOf(play)
  BY <1>3, <1>4 DEF FileOf
<1> QED BY <1>5 DEF w

LEMMA InitialStatuses == \A k \in Kinds : InitialStatus[k] \in Statuses(k)
BY DEF Kinds, InitialStatus, Statuses, transitions, EpicFSM, MilestoneFSM, RulingFSM, GapFSM, ContractFSM

LEMMA OneMoreFile ==
  ASSUME NEW p \in Scenarios, NEW fs, TreeOK(p, fs), NEW w \in FileOf(p), \A e \in fs : e.uid # w.uid
  PROVE  TreeOK(p, fs \cup {w})
BY DEF TreeOK, OneFileEach

(* What add leaves.                                                         *)
Added(u, v, w) ==
  /\ w \in FileOf(play) /\ files' = files \cup {w}
  /\ w.uid = u /\ w.area = None /\ w.prior = {} /\ w.arch = FALSE /\ w.status = InitialStatus[w.kind]
  /\ \A o \in files : o.uid # w.uid /\ (o.kind = w.kind => o.n < w.n)
  /\ \A r \in w.refs : Flagged(w.kind, r)
  /\ \/ yaml' = yaml
     \/ /\ w.kind = "contract" /\ v \in yaml.validators
        /\ yaml' = [yaml EXCEPT !.bindings =
                       yaml.bindings \cup {[n |-> w.n, validator |-> v, means |-> u]}]

LEMMA AddLeads ==
  ASSUME Ready, NEW u \in FreshUids, NEW refs \in RefFlags(play.cast[u]),
         NEW v \in yaml.validators \cup {None}, Add(u, refs, v)
  PROVE  Leads(files') /\ \E w : Added(u, v, w)
<1> DEFINE k == play.cast[u]
           n == AllocateID(T, k, {})
           own(r) == IF IdOf(r) = [kind |-> k, n |-> n] THEN [r EXCEPT !.means = u] ELSE r
           rs == {own(r) : r \in refs}
           w == NewFile(u, n, InitialStatus[k], rs)
<1>1. /\ play \in Scenarios /\ TreeOK(play, files) /\ u \in Uids /\ u \in DOMAIN play.cast
      /\ (\A e \in files : e.uid # u) /\ k \in Kinds
  BY ScenarioFacts DEF Ready, TypeInv, FreshUids, Uids
<1>2. \A r \in refs : Made(r) /\ Flagged(k, r)
  BY <1>1, RefFlagsAreMade
<1>3. n \in Nat \ {0} /\ \A e \in files : e.kind = k => e.n < n
  <2>1. {} \in SUBSET [kind : {k}, n : 0..MaxNum]
    OBVIOUS
  <2>2. /\ AllocateID(At(files), k, {}) \in Nat \ {0}
        /\ \A e \in files : e.kind = k => e.n < AllocateID(At(files), k, {})
    BY <1>1, <2>1, Allocation
  <2> QED BY <2>2 DEF T
<1>4. n <= MaxNum /\ projectionFindings(T, At(files')) = {} /\ files' = files \cup {w}
  BY DEF Add, AddPasses, Commit
<1>5. n \in 1..MaxNum
  BY <1>3, <1>4, ScenarioFacts
<1> HIDE DEF n
<1>6. ASSUME NEW r \in refs
      PROVE  /\ own(r) \in Reference(play) /\ IdOf(own(r)) = IdOf(r) /\ Flagged(k, own(r))
             /\ \/ IdOf(r) = [kind |-> k, n |-> n] /\ own(r).means = u
                \/ IdOf(r) # [kind |-> k, n |-> n] /\ own(r) = r
  <2>1. r \in Reference(play)
    BY <1>2 DEF Made
  <2>2. CASE IdOf(r) = [kind |-> k, n |-> n]
    <3>1. own(r) = [r EXCEPT !.means = u]
      BY <2>2
    <3>2. /\ own(r) \in Reference(play) /\ own(r).kind = r.kind /\ own(r).n = r.n /\ own(r).means = u
          /\ own(r).field = r.field
      BY <1>1, <2>1, <3>1 DEF Reference
    <3>3. Flagged(k, own(r))
      BY <1>2, <3>2 DEF Flagged
    <3> QED BY <2>2, <3>2, <3>3 DEF IdOf
  <2>3. CASE IdOf(r) # [kind |-> k, n |-> n]
    BY <1>2, <2>1, <2>3
  <2> QED BY <2>2, <2>3
<1>7. rs \in SUBSET Reference(play) /\ InitialStatus[k] \in Statuses(k)
  BY <1>1, <1>6, InitialStatuses
<1> HIDE DEF own, rs
<1>8. /\ w \in FileOf(play) /\ w.uid = u /\ w.kind = k /\ w.n = n /\ w.refs = rs
      /\ w.area = None /\ w.prior = {} /\ w.arch = FALSE /\ w.status = InitialStatus[k]
  BY <1>1, <1>5, <1>7, NewFileFacts, NewFileFields
<1>9. TreeOK(play, files')
  BY <1>1, <1>4, <1>8, OneMoreFile
<1>10. ASSUME merged = {}, ~halted PROVE Sound(files')
  <2>1. Sound(files)
    BY <1>10 DEF Ready
  <2>2. /\ IdsDistinct(files')
        /\ \A e \in files' : ~e.arch => \A r \in e.refs : \E o \in files' : IdOf(o) = IdOf(r)
    BY <1>1, <1>4, <1>9, <2>1, GateAnswers DEF T
  <2>3. ASSUME NEW e \in files', ~e.arch, NEW r \in e.refs
        PROVE  \E o \in files' : IdOf(o) = IdOf(r) /\ o.uid = r.means
    <3>1. CASE e \in files
      BY <1>4, <2>1, <2>3, <3>1 DEF Sound, RefsHold
    <3>2. CASE e = w
      <4>1. PICK q \in refs : r = own(q)
        BY <1>8, <2>3, <3>2 DEF rs
      <4>2. CASE IdOf(q) = [kind |-> k, n |-> n] /\ own(q).means = u
        <5>1. IdOf(w) = [kind |-> k, n |-> n]
          BY <1>8 DEF IdOf
        <5> QED BY <1>4, <1>6, <1>8, <4>1, <4>2, <5>1
      <4>3. CASE IdOf(q) # [kind |-> k, n |-> n] /\ own(q) = q
        <5>1. PICK o \in files' : IdOf(o) = IdOf(r)
          BY <2>2, <2>3
        <5>2. IdOf(w) = [kind |-> k, n |-> n]
          BY <1>8 DEF IdOf
        <5>3. o \in files
          BY <1>4, <4>1, <4>3, <5>1, <5>2
        <5>4. Designated(files, IdOf(o)) = o.uid
          BY <1>1, <2>1, <5>3, LookupUnique DEF Sound
        <5>5. r.means = Designated(files, IdOf(r))
          BY <1>2, <4>1, <4>3 DEF Made
        <5> QED BY <5>1, <5>4, <5>5
      <4> QED BY <1>6, <4>2, <4>3
    <3> QED BY <1>4, <2>3, <3>1, <3>2
  <2> QED BY <2>2, <2>3 DEF Sound, RefsHold
<1>11. /\ \/ yaml' = yaml
         \/ /\ k = "contract" /\ v \in yaml.validators
            /\ yaml' = [yaml EXCEPT !.bindings =
                           yaml.bindings \cup {[n |-> n, validator |-> v, means |-> u]}]
  BY DEF Add, atomicContractBind, n
<1>f. \A r \in rs : Flagged(k, r)
  BY <1>6 DEF rs
<1> HIDE DEF w, k
<1>12. Added(u, v, w)
  BY <1>1, <1>3, <1>4, <1>8, <1>11, <1>f DEF Added
<1> QED BY <1>9, <1>10, <1>12 DEF Leads

LEMMA MergeLeads ==
  ASSUME Ready, NEW u \in FreshUids, NEW n \in 1..MaxNum, NEW refs \in RefFlags(play.cast[u]), MergeIn(u, n, refs)
  PROVE  /\ TreeOK(play, files') /\ merged' # {}
         /\ \E w \in FileOf(play) : files' = files \cup {w} /\ w.area = None /\ w.prior = {}
<1> DEFINE k == play.cast[u]
           w == NewFile(u, n, InitialStatus[k], refs)
<1>1. /\ play \in Scenarios /\ TreeOK(play, files) /\ u \in Uids /\ u \in DOMAIN play.cast
      /\ (\A e \in files : e.uid # u) /\ k \in Kinds
  BY ScenarioFacts DEF Ready, TypeInv, FreshUids, Uids
<1>2. \A r \in refs : Made(r)
  BY <1>1, RefFlagsAreMade
<1>3. refs \in SUBSET Reference(play) /\ InitialStatus[k] \in Statuses(k)
  BY <1>1, <1>2, InitialStatuses DEF Made
<1>4. files' = files \cup {w} /\ merged' # {}
  BY DEF MergeIn, Commit
<1>5. w \in FileOf(play) /\ w.uid = u /\ w.area = None /\ w.prior = {}
  BY <1>1, <1>3, NewFileFacts, NewFileFields
<1> HIDE DEF w
<1>6. TreeOK(play, files')
  BY <1>1, <1>4, <1>5, OneMoreFile
<1> QED BY <1>4, <1>5, <1>6

-----------------------------------------------------------------------------
(* Renumbering: references to the old id follow, and one that cannot is     *)
(* left dangling, which the gate refuses.                                   *)
LEMMA RenumberedFile ==
  ASSUME NEW p \in Scenarios, NEW e \in FileOf(p), NEW n \in 1..MaxNum, e.n < n
  PROVE  LET f == Renumbered(e, n)
         IN /\ f \in FileOf(p) /\ f.uid = e.uid /\ f.kind = e.kind /\ f.n = n
            /\ f.prior = e.prior \cup {e.n} /\ f.refs = e.refs /\ f.arch = e.arch /\ f.area = e.area
            /\ f.status = e.status /\ f.byCommit = e.byCommit
<1> DEFINE f == Renumbered(e, n)
<1>1. e \in Shape(p) /\ e.n \in 1..MaxNum /\ e.prior \subseteq 1..MaxNum /\ \A m \in e.prior : m < e.n
  BY ShapeOf, FileFacts
<1>2. /\ e.slug = e.uid /\ e.kind = p.cast[e.uid] /\ e.status \in Statuses(e.kind)
  BY FileFacts
<1>3. e.prior \cup {e.n} \in SUBSET (1..MaxNum) /\ FALSE \in {FALSE}
  BY <1>1
<1>4. f = [e EXCEPT !.n = n, !.narrow = FALSE, !.prior = e.prior \cup {e.n}]
  BY DEF Renumbered
<1>5. f \in Shape(p)
  BY <1>1, <1>3, <1>4 DEF Shape
<1>6. /\ f.uid = e.uid /\ f.kind = e.kind /\ f.n = n /\ f.slug = e.slug /\ f.status = e.status
      /\ f.prior = e.prior \cup {e.n} /\ f.refs = e.refs /\ f.arch = e.arch /\ f.area = e.area
      /\ f.byCommit = e.byCommit
  BY <1>1, <1>4 DEF Shape
<1>7. \A m \in e.prior \cup {e.n} : m < n
  BY <1>1, ScenarioFacts
<1> HIDE DEF f
<1>8. f \in FileOf(p)
  BY <1>2, <1>5, <1>6, <1>7 DEF FileOf
<1> QED BY <1>6, <1>8 DEF f

Follow(r, old, n) ==
  IF r.field \in RewrittenFields /\ IdOf(r) = old /\ ~IsComposite(r) THEN [r EXCEPT !.n = n] ELSE r

LEMMA FollowFacts ==
  ASSUME NEW p \in Scenarios, NEW r \in Reference(p), NEW old, NEW n \in 1..MaxNum
  PROVE  /\ Follow(r, old, n) \in Reference(p) /\ Follow(r, old, n).means = r.means
         /\ \/ Follow(r, old, n) = r
            \/ IdOf(r) = old /\ IdOf(Follow(r, old, n)) = [kind |-> r.kind, n |-> n]
<1>1. CASE Follow(r, old, n) = r
  BY <1>1
<1>2. CASE Follow(r, old, n) # r
  <2>1. Follow(r, old, n) = [r EXCEPT !.n = n] /\ IdOf(r) = old
    BY <1>2 DEF Follow
  <2>2. /\ Follow(r, old, n) \in Reference(p) /\ Follow(r, old, n).means = r.means
        /\ Follow(r, old, n).kind = r.kind /\ Follow(r, old, n).n = n
    BY <2>1 DEF Reference
  <2> QED BY <2>1, <2>2 DEF IdOf
<1> QED BY <1>1, <1>2

LEMMA RewrittenFile ==
  ASSUME NEW p \in Scenarios, NEW e \in FileOf(p), NEW old, NEW n \in 1..MaxNum
  PROVE  LET f == rewriteEntityRefs(e, old, n)
         IN /\ f \in FileOf(p) /\ Kin(f, e) /\ f.area = e.area /\ f.arch = e.arch
            /\ f.status = e.status /\ f.byCommit = e.byCommit
            /\ f.refs = {Follow(r, old, n) : r \in e.refs}
<1> DEFINE rs == {Follow(r, old, n) : r \in e.refs}
           f == rewriteEntityRefs(e, old, n)
<1>1. f = [e EXCEPT !.refs = rs]
  BY DEF rewriteEntityRefs, Follow
<1>2. rs \in SUBSET Reference(p)
  <2>1. e.refs \subseteq Reference(p)
    BY FileFacts
  <2> QED BY <2>1, FollowFacts
<1> HIDE DEF rs, f
<1>3. /\ f \in FileOf(p) /\ Kin(f, e) /\ f.refs = rs /\ f.area = e.area /\ f.arch = e.arch
      /\ f.status = e.status /\ f.byCommit = e.byCommit
  BY <1>1, <1>2, RefsUpdate
<1> QED BY <1>3 DEF rs, f

\* What reallocate leaves of the files it found.
Renumbers ==
  \A o \in files : \E x \in files' :
    /\ x.uid = o.uid /\ x.kind = o.kind /\ (x.prior = {} => o.prior = {} /\ x.n = o.n)

Renumbering(g, e, n) ==
  /\ files' = {g[o] : o \in files} /\ \A o \in files : o.kind = e.kind => o.n < n
  /\ \A o \in files : /\ g[o] \in FileOf(play) /\ g[o].uid = o.uid /\ g[o].kind = o.kind
                       /\ g[o].arch = o.arch /\ g[o].status = o.status /\ g[o].byCommit = o.byCommit
  /\ g[e].n = n /\ g[e].refs = e.refs
  /\ \A o \in files \ {e} : g[o].n = o.n /\ g[o].refs = {Follow(r, IdOf(e), n) : r \in o.refs}

LEMMA ReallocateLeads ==
  ASSUME Ready, NEW e \in files, Reallocate(e)
  PROVE  /\ Leads(files') /\ Renumbers /\ AreasKept(files')
         /\ \E n \in 1..MaxNum : \E g : Renumbering(g, e, n)
<1> DEFINE n == AllocateID(T, e.kind, {})
           old == IdOf(e)
           f == Renumbered(e, n)
           h(o) == rewriteEntityRefs(o, old, n)
<1>1. /\ play \in Scenarios /\ TreeOK(play, files) /\ files \subseteq FileOf(play) /\ e \in FileOf(play)
      /\ OneFileEach(files)
  BY DEF Ready, TypeInv, TreeOK
<1>2. n \in Nat \ {0} /\ e.n < n /\ \A o \in files : o.kind = e.kind => o.n < n
  <2>1. {} \in SUBSET [kind : {e.kind}, n : 0..MaxNum]
    OBVIOUS
  <2>2. /\ AllocateID(At(files), e.kind, {}) \in Nat \ {0}
        /\ \A o \in files : o.kind = e.kind => o.n < AllocateID(At(files), e.kind, {})
    BY <1>1, <2>1, Allocation
  <2> QED BY <2>2 DEF T
<1>3. /\ n <= MaxNum /\ projectionFindings(T, At(files')) = {}
      /\ files' = {f} \cup {h(o) : o \in files \ {e}}
  BY DEF Reallocate, Commit, Reallocated
<1>4. n \in 1..MaxNum
  BY <1>2, <1>3, ScenarioFacts
<1> HIDE DEF n, old
<1>5. /\ f \in FileOf(play) /\ f.uid = e.uid /\ f.kind = e.kind /\ f.n = n
      /\ f.prior = e.prior \cup {e.n} /\ f.refs = e.refs /\ f.arch = e.arch /\ f.area = e.area
      /\ f.status = e.status /\ f.byCommit = e.byCommit
  BY <1>1, <1>2, <1>4, RenumberedFile
<1>6. \A o \in files : /\ h(o) \in FileOf(play) /\ Kin(h(o), o) /\ h(o).area = o.area /\ h(o).arch = o.arch
                       /\ h(o).status = o.status /\ h(o).byCommit = o.byCommit
                       /\ h(o).refs = {Follow(r, old, n) : r \in o.refs}
  BY <1>1, <1>4, RewrittenFile
<1> HIDE DEF f, h
<1>7. TreeOK(play, files')
  <2>1. \A x \in files' : \E o \in files : x.uid = o.uid /\ x = (IF o = e THEN f ELSE h(o))
    BY <1>3, <1>5, <1>6 DEF Kin
  <2> QED BY <1>1, <1>3, <1>5, <1>6, <2>1 DEF TreeOK, OneFileEach
<1>8. AreasKept(files')
  BY <1>3, <1>5, <1>6 DEF AreasKept
<1>9. Renumbers
  <2> SUFFICES ASSUME NEW o \in files
               PROVE  \E x \in files' : /\ x.uid = o.uid /\ x.kind = o.kind
                                        /\ (x.prior = {} => o.prior = {} /\ x.n = o.n)
    BY DEF Renumbers
  <2>1. CASE o = e
    BY <1>3, <1>5, <2>1
  <2>2. CASE o # e
    BY <1>3, <1>6, <2>2 DEF Kin
  <2> QED BY <2>1, <2>2
<1>10. ASSUME merged = {}, ~halted PROVE Sound(files')
  <2>1. Sound(files)
    BY <1>10 DEF Ready
  <2>2. /\ IdsDistinct(files')
        /\ \A x \in files' : ~x.arch => \A r \in x.refs : \E y \in files' : IdOf(y) = IdOf(r)
    BY <1>1, <1>3, <1>7, <2>1, GateAnswers DEF T
  <2>3. \A y \in files' : IdOf(y) # old
    <3>1. IdOf(f) # old
      BY <1>1, <1>2, <1>5, NumberFacts DEF IdOf, old
    <3>2. ASSUME NEW o \in files \ {e} PROVE IdOf(h(o)) # old
      <4>1. IdOf(h(o)) = IdOf(o)
        BY <1>6 DEF Kin, IdOf
      <4> QED BY <2>1, <4>1 DEF Sound, IdsDistinct, old
    <3> QED BY <1>3, <3>1, <3>2
  (* A reference that did not change still finds its referent.              *)
  <2>4. ASSUME NEW x \in files', ~x.arch, NEW r \in x.refs,
               NEW o \in files, IdOf(o) = IdOf(r), o.uid = r.means
        PROVE  \E y \in files' : IdOf(y) = IdOf(r) /\ y.uid = r.means
    <3>1. o # e
      BY <2>2, <2>3, <2>4 DEF old
    <3>2. h(o) \in files' /\ IdOf(h(o)) = IdOf(o) /\ h(o).uid = o.uid
      BY <1>3, <1>6, <3>1 DEF Kin, IdOf
    <3> QED BY <2>4, <3>2
  <2>5. ASSUME NEW x \in files', ~x.arch, NEW r \in x.refs
        PROVE  \E y \in files' : IdOf(y) = IdOf(r) /\ y.uid = r.means
    <3>1. CASE x = f
      <4>1. \E o \in files : IdOf(o) = IdOf(r) /\ o.uid = r.means
        BY <1>5, <2>1, <2>5, <3>1 DEF Sound, RefsHold
      <4> QED BY <2>4, <2>5, <4>1
    <3>2. CASE x # f
      <4>1. PICK o \in files \ {e} : x = h(o)
        BY <1>3, <3>2
      <4>2. PICK q \in o.refs : r = Follow(q, old, n)
        BY <1>6, <2>5, <4>1
      <4>3. PICK m \in files : IdOf(m) = IdOf(q) /\ m.uid = q.means
        BY <1>6, <2>1, <2>5, <4>1 DEF Sound, RefsHold
      <4>4. q \in Reference(play)
        BY <1>1, FileFacts
      <4>5. /\ r.means = q.means
            /\ r = q \/ (IdOf(q) = old /\ IdOf(r) = [kind |-> q.kind, n |-> n])
        BY <1>1, <1>4, <4>2, <4>4, FollowFacts
      <4>6. CASE r = q
        BY <2>4, <2>5, <4>3, <4>6
      <4>7. CASE IdOf(q) = old /\ IdOf(r) = [kind |-> q.kind, n |-> n]
        <5>1. m = e
          BY <2>1, <4>3, <4>7 DEF Sound, IdsDistinct, old
        <5>2. IdOf(f) = IdOf(r)
          BY <1>5, <4>7 DEF IdOf, old
        <5> QED BY <1>3, <1>5, <4>3, <4>5, <5>1, <5>2
      <4> QED BY <4>5, <4>6, <4>7
    <3> QED BY <3>1, <3>2
  <2> QED BY <2>2, <2>5 DEF Sound, RefsHold
<1>11. \E g : Renumbering(g, e, n)
  <2> DEFINE g == [o \in files |-> IF o = e THEN f ELSE h(o)]
  <2>1. g[e] = f /\ \A o \in files \ {e} : g[o] = h(o)
    OBVIOUS
  <2>2. files' = {g[o] : o \in files}
    BY <1>3
  <2> HIDE DEF g
  <2>3. ASSUME NEW o \in files
        PROVE  /\ g[o] \in FileOf(play) /\ g[o].uid = o.uid /\ g[o].kind = o.kind
               /\ g[o].arch = o.arch /\ g[o].status = o.status /\ g[o].byCommit = o.byCommit
    BY <1>5, <1>6, <2>1 DEF Kin
  <2>4. g[e].n = n /\ g[e].refs = e.refs
    BY <1>5, <2>1
  <2>5. ASSUME NEW o \in files \ {e} PROVE g[o].n = o.n /\ g[o].refs = {Follow(r, old, n) : r \in o.refs}
    BY <1>6, <2>1 DEF Kin
  <2>6. Renumbering(g, e, n)
    BY <1>2, <2>2, <2>3, <2>4, <2>5, Zenon DEF Renumbering, old
  <2> QED BY <2>6
<1> QED BY <1>4, <1>7, <1>8, <1>9, <1>10, <1>11 DEF Leads

-----------------------------------------------------------------------------
(* Import.  What the entries of a manifest are.                             *)
EntryOK(en) ==
  /\ en.uid \in FreshUids /\ en.n \in 0..MaxNum /\ en.status \in Statuses(play.cast[en.uid])
  /\ \A r \in en.refs : Made(r) /\ Flagged(play.cast[en.uid], r)

ManifestOK(m) ==
  /\ DOMAIN m = 1..Len(m) /\ Len(m) \in {1, 2}
  /\ \A i \in DOMAIN m : EntryOK(m[i])
  /\ \A i, j \in DOMAIN m : i # j => m[i].uid # m[j].uid

LEMMA ManifestFacts ==
  ASSUME Ready, NEW m \in Manifests
  PROVE  ManifestOK(m)
<1>1. play \in Scenarios /\ TreeOK(play, files)
  BY DEF Ready, TypeInv
<1>2. ASSUME NEW en \in Entries PROVE EntryOK(en)
  <2>1. PICK u \in FreshUids :
          en \in {Entry(u, n, status, refs) : n \in 0..MaxNum, status \in play.statuses \cap Statuses(play.cast[u]),
                                             refs \in RefFlags(play.cast[u])}
    BY DEF Entries
  <2>2. PICK n \in 0..MaxNum, status \in play.statuses \cap Statuses(play.cast[u]), refs \in RefFlags(play.cast[u]) :
          en = Entry(u, n, status, refs)
    BY <2>1
  <2>3. play.cast[u] \in Kinds
    BY <1>1, ScenarioFacts DEF FreshUids, Uids
  <2>4. \A r \in refs : Made(r) /\ Flagged(play.cast[u], r)
    BY <1>1, <2>3, RefFlagsAreMade
  <2> QED BY <2>2, <2>4 DEF EntryOK, Entry
<1>3. CASE m \in {<<en>> : en \in Entries}
  <2>1. PICK en \in Entries : m = <<en>>
    BY <1>3
  <2>2. DOMAIN m = 1..1 /\ Len(m) = 1 /\ m[1] = en
    BY <2>1
  <2> QED BY <1>2, <2>1, <2>2 DEF ManifestOK
<1>4. CASE m \in {q \in Entries \X Entries : q[1].uid < q[2].uid /\ (IsAuto(q[1]) => IsAuto(q[2]))}
  <2>1. m \in Entries \X Entries /\ m[1].uid < m[2].uid
    BY <1>4
  <2>2. PICK a \in Entries, b \in Entries : m = <<a, b>>
    BY <2>1
  <2>3. DOMAIN m = 1..2 /\ Len(m) = 2 /\ m[1] = a /\ m[2] = b
    BY <2>2
  <2>4. a.uid # b.uid
    <3>1. a.uid \in Nat /\ b.uid \in Nat
      BY <1>1, <1>2, ScenarioFacts DEF EntryOK, FreshUids, Uids
    <3> QED BY <2>1, <2>3, <3>1
  <2> QED BY <1>2, <2>2, <2>3, <2>4 DEF ManifestOK
<1> QED BY <1>3, <1>4 DEF Manifests

LEMMA EntryIds ==
  ASSUME Ready, NEW m, ManifestOK(m), NEW i \in DOMAIN m, IdOfEntry(m, i).n <= MaxNum
  PROVE  /\ IdOfEntry(m, i).kind = play.cast[m[i].uid]
         /\ IdOfEntry(m, i).n \in 1..MaxNum
<1> DEFINE k == play.cast[m[i].uid]
           before == {j \in 1..(i - 1) : IsAuto(m[j]) /\ play.cast[m[j].uid] = k}
           rs == {[kind |-> k, n |-> n] : n \in Reserved(m, k)}
<1>1. play \in Scenarios /\ TreeOK(play, files) /\ i \in Nat /\ EntryOK(m[i])
  BY DEF Ready, TypeInv, ManifestOK
<1>2. IdOfEntry(m, i) = [kind |-> k, n |-> IF IsAuto(m[i]) THEN AutoID(m, i) ELSE m[i].n]
  BY DEF IdOfEntry
<1>3. CASE IsAuto(m[i])
  <2>1. Reserved(m, k) \subseteq 0..MaxNum
    BY DEF Reserved, ManifestOK, EntryOK
  <2>2. rs \in SUBSET [kind : {k}, n : 0..MaxNum]
    BY <2>1
  <2>3. AutoID(m, i) = AllocateID(T, k, rs) + Cardinality(before)
    BY DEF AutoID
  <2> HIDE DEF rs, k
  <2>4. AllocateID(At(files), k, rs) \in Nat \ {0}
    BY <1>1, <2>2, Allocation
  <2>5. Cardinality(before) \in Nat
    <3>1. IsFiniteSet(1..(i - 1))
      BY <1>1, FS_Interval
    <3>2. before \subseteq 1..(i - 1)
      OBVIOUS
    <3> HIDE DEF before
    <3>3. IsFiniteSet(before)
      BY <3>1, <3>2, FS_Subset
    <3> QED BY <3>3, FS_CardinalityType
  <2> HIDE DEF before
  <2>6. AutoID(m, i) \in Nat \ {0}
    BY <2>3, <2>4, <2>5 DEF T
  <2> QED BY <1>2, <1>3, <2>6, ScenarioFacts, <1>1 DEF k
<1>4. CASE ~IsAuto(m[i])
  <2>1. m[i].n \in 0..MaxNum /\ m[i].n # 0
    BY <1>1, <1>4 DEF EntryOK, IsAuto
  <2> QED BY <1>1, <1>2, <1>4, <2>1, ScenarioFacts
<1> QED BY <1>3, <1>4

LEMMA HolderFacts ==
  ASSUME Ready, NEW id, HasID(T, id)
  PROVE  LastHolder(id) \in files /\ IdOf(LastHolder(id)) = id
<1>1. play \in Scenarios /\ TreeOK(play, files)
  BY DEF Ready, TypeInv
<1>2. /\ ByIDAll(T, id) = {e \in files : IdOf(e) = id} /\ TreeOK(play, ByIDAll(T, id))
      /\ ByIDAll(T, id) # {}
  BY <1>1, HoldersOf DEF T, HasID
<1>3. LastHolder(id) \in ByIDAll(T, id)
  BY <1>1, <1>2, LastFacts DEF LastHolder
<1> QED BY <1>2, <1>3

LEMMA MeantFacts ==
  ASSUME Ready, NEW m, ManifestOK(m), NEW r, Made(r)
  PROVE  /\ Meant(m, r) \in Reference(play) /\ IdOf(Meant(m, r)) = IdOf(r)
         /\ Meant(m, r).field = r.field /\ Meant(m, r).kind = r.kind
         /\ r.means # 0 => Meant(m, r) = r
         /\ r.means = 0 => \A i \in DOMAIN m : IdOfEntry(m, i) = IdOf(r) =>
              \E j \in DOMAIN m : IdOfEntry(m, j) = IdOf(r) /\ Meant(m, r).means = m[j].uid
<1>1. r \in Reference(play)
  BY DEF Made
<1>2. CASE r.means # 0 \/ \A j \in DOMAIN m : IdOfEntry(m, j) # IdOf(r)
  <2>1. Meant(m, r) = r
    BY <1>2 DEF Meant
  <2> QED BY <1>1, <1>2, <2>1
<1>3. CASE ~(r.means # 0 \/ \A j \in DOMAIN m : IdOfEntry(m, j) # IdOf(r))
  <2>1. PICK j : j = CHOOSE x \in DOMAIN m : IdOfEntry(m, x) = IdOf(r)
    OBVIOUS
  <2>2. j \in DOMAIN m /\ IdOfEntry(m, j) = IdOf(r)
    BY <1>3, <2>1
  <2>3. Meant(m, r) = [r EXCEPT !.means = m[j].uid]
    BY <1>3, <2>1 DEF Meant
  <2>4. m[j].uid \in DOMAIN play.cast
    BY <2>2 DEF ManifestOK, EntryOK, FreshUids, Uids
  <2>5. /\ Meant(m, r) \in Reference(play) /\ Meant(m, r).kind = r.kind /\ Meant(m, r).n = r.n
        /\ Meant(m, r).means = m[j].uid /\ Meant(m, r).field = r.field
    BY <1>1, <2>3, <2>4 DEF Reference
  <2> QED BY <1>3, <2>2, <2>5 DEF IdOf
<1> QED BY <1>2, <1>3

\* What a plan of an import writes: a new file, or one of the same id as before.
PlainWrite(w) ==
  /\ w \in FileOf(play) /\ w.area = None /\ w.prior = {}
  /\ \A e \in files : e.uid = w.uid => IdOf(e) = IdOf(w) /\ e.arch = w.arch
  /\ \/ \E e \in files : IdOf(e) = IdOf(w) /\ e.uid = w.uid
     \/ w.arch = FALSE /\ \A e \in files : IdOf(e) # IdOf(w) /\ e.uid # w.uid
  /\ \A r \in w.refs : Flagged(w.kind, r)

LEMMA BuiltFacts ==
  ASSUME Ready, NEW m, ManifestOK(m), NEW i \in DOMAIN m, IdOfEntry(m, i).n <= MaxNum
  PROVE  /\ PlainWrite(Built(m, i)) /\ IdOf(Built(m, i)) = IdOfEntry(m, i)
         /\ Built(m, i).refs = {Meant(m, r) : r \in m[i].refs}
         /\ \/ /\ HasID(T, IdOfEntry(m, i))
               /\ \E e \in files : IdOf(e) = IdOfEntry(m, i) /\ e.uid = Built(m, i).uid
            \/ ~HasID(T, IdOfEntry(m, i)) /\ Built(m, i).uid = m[i].uid
<1> DEFINE id == IdOfEntry(m, i)
           u == m[i].uid
           rs == {Meant(m, r) : r \in m[i].refs}
           new == NewFile(u, id.n, m[i].status, rs)
           w == Built(m, i)
<1>1. /\ play \in Scenarios /\ TreeOK(play, files) /\ files \subseteq FileOf(play) /\ EntryOK(m[i])
      /\ OneFileEach(files)
  BY DEF Ready, TypeInv, TreeOK, ManifestOK
<1>2. id.kind = play.cast[u] /\ id.n \in 1..MaxNum /\ id = [kind |-> id.kind, n |-> id.n]
  <2>1. id = [kind |-> play.cast[u], n |-> IF IsAuto(m[i]) THEN AutoID(m, i) ELSE m[i].n]
    BY DEF IdOfEntry
  <2>2. id.kind = play.cast[u] /\ id.n \in 1..MaxNum
    BY EntryIds
  <2>3. id = [kind |-> id.kind, n |-> id.n]
    BY <2>1
  <2> QED BY <2>2, <2>3
<1>3. u \in Uids /\ (\A e \in files : e.uid # u) /\ m[i].status \in Statuses(play.cast[u])
  BY <1>1 DEF EntryOK, FreshUids
<1>4. rs \in SUBSET Reference(play) /\ \A r \in rs : Flagged(play.cast[u], r)
  <2>1. ASSUME NEW r \in m[i].refs PROVE Meant(m, r) \in Reference(play) /\ Flagged(play.cast[u], Meant(m, r))
    <3>1. Made(r) /\ Flagged(play.cast[u], r)
      BY <1>1 DEF EntryOK
    <3>2. Meant(m, r) \in Reference(play) /\ Meant(m, r).field = r.field /\ Meant(m, r).kind = r.kind
      BY <3>1, MeantFacts
    <3> QED BY <3>1, <3>2 DEF Flagged
  <2> QED BY <2>1
<1>5. w = IF HasID(T, id)
          THEN [new EXCEPT !.uid = LastHolder(id).uid, !.slug = LastHolder(id).slug,
                           !.narrow = LastHolder(id).narrow, !.arch = LastHolder(id).arch]
          ELSE new
  BY DEF Built
<1> HIDE DEF id, u, rs, w
<1>6. /\ new \in FileOf(play) /\ new.uid = u /\ new.kind = id.kind /\ new.n = id.n /\ new.refs = rs
      /\ new.area = None /\ new.prior = {} /\ new.status = m[i].status /\ new.arch = FALSE
  BY <1>1, <1>2, <1>3, <1>4, NewFileFacts, NewFileFields
<1> HIDE DEF new
<1>7. CASE HasID(T, id)
  <2>1. PICK e : e = LastHolder(id)
    OBVIOUS
  <2>2. e \in files /\ IdOf(e) = id
    BY <1>7, <2>1, HolderFacts
  <2>3. w = [new EXCEPT !.uid = e.uid, !.slug = e.slug, !.narrow = e.narrow, !.arch = e.arch]
    BY <1>5, <1>7, <2>1
  <2>4. /\ e.uid \in DOMAIN play.cast /\ e.slug \in DOMAIN play.cast /\ e.narrow \in {FALSE} /\ e.arch \in BOOLEAN
        /\ e.slug = e.uid /\ e.kind = play.cast[e.uid]
    BY <1>1, <2>2, FileFacts
  <2>5. new \in Shape(play)
    BY <1>6, ShapeOf
  <2>6. w \in Shape(play)
    BY <2>3, <2>4, <2>5 DEF Shape
  <2>7. /\ w.uid = e.uid /\ w.slug = e.slug /\ w.kind = new.kind /\ w.n = new.n /\ w.refs = new.refs
        /\ w.area = new.area /\ w.prior = new.prior /\ w.status = new.status /\ w.arch = e.arch
    BY <2>3, <2>5 DEF Shape
  <2>8. w.kind = e.kind /\ w.n = e.n /\ IdOf(w) = IdOf(e)
    BY <1>2, <1>6, <2>2, <2>7 DEF IdOf
  <2>9. w \in FileOf(play)
    <3>1. w.status \in Statuses(w.kind) /\ w.slug = w.uid /\ w.kind = play.cast[w.uid]
      BY <1>2, <1>3, <1>6, <2>4, <2>7, <2>8
    <3>2. \A x \in w.prior : x < w.n
      BY <1>6, <2>7
    <3> QED BY <2>6, <3>1, <3>2 DEF FileOf
  <2>10. \A o \in files : o.uid = w.uid => IdOf(o) = IdOf(w) /\ o.arch = w.arch
    BY <1>1, <2>2, <2>7, <2>8 DEF OneFileEach
  <2>11. \A r \in w.refs : Flagged(w.kind, r)
    BY <1>2, <1>4, <1>6, <2>7
  <2>12. PlainWrite(w)
    BY <1>6, <2>2, <2>7, <2>8, <2>9, <2>10, <2>11 DEF PlainWrite
  <2> QED BY <1>6, <1>7, <2>2, <2>7, <2>8, <2>12 DEF w, id, rs
<1>8. CASE ~HasID(T, id)
  <2>1. w = new
    BY <1>5, <1>8
  <2>2. IdOf(w) = id
    BY <1>2, <1>6, <2>1 DEF IdOf
  <2>3. \A e \in files : IdOf(e) # id
    BY <1>1, <1>8, HoldersOf DEF T, HasID
  <2>4. PlainWrite(w)
    BY <1>2, <1>3, <1>4, <1>6, <2>1, <2>2, <2>3 DEF PlainWrite
  <2> QED BY <1>6, <1>8, <2>1, <2>2, <2>4 DEF w, id, rs, u
<1> QED BY <1>7, <1>8

(* Which entries are written, in order.                                     *)
LEMMA KeptFacts ==
  ASSUME NEW m, DOMAIN m = 1..Len(m), Len(m) \in {1, 2}, NEW onCollision
  PROVE  LET o == Kept(m, onCollision)
         IN o \in Seq(DOMAIN m) /\ Len(o) \in 0..2 /\ (Len(o) = 2 => o[1] # o[2])
<1> DEFINE C(i) == HasID(T, IdOfEntry(m, i)) /\ onCollision = "skip"
           F(f) == [i \in 0..Len(m) |-> IF i = 0 THEN <<>> ELSE IF C(i) THEN f[i - 1] ELSE Append(f[i - 1], i)]
           g1 == IF C(1) THEN <<>> ELSE <<1>>
           g2 == IF C(2) THEN g1 ELSE Append(g1, 2)
           g == [i \in 0..Len(m) |-> IF i = 0 THEN <<>> ELSE IF i = 1 THEN g1 ELSE g2]
           kept == CHOOSE f : f = F(f)
<1>1. Kept(m, onCollision) = kept[Len(m)]
  BY DEF Kept
<1>2. g = F(g)
  <2>1. g1 = IF C(1) THEN <<>> ELSE Append(<<>>, 1)
    OBVIOUS
  <2> HIDE DEF C
  <2>2. ASSUME NEW i \in 0..Len(m) PROVE g[i] = F(g)[i]
    <3>1. i = 0 \/ i = 1 \/ i = 2
      OBVIOUS
    <3>2. CASE i = 0
      BY <3>2
    <3>3. CASE i = 1
      BY <2>1, <3>3
    <3>4. CASE i = 2
      BY <3>4
    <3> QED BY <3>1, <3>2, <3>3, <3>4
  <2> QED BY <2>2
<1>3. kept = F(kept)
  BY <1>2
<1> HIDE DEF kept, g, C
<1>4. kept[0] = <<>> /\ kept[1] = IF C(1) THEN kept[0] ELSE Append(kept[0], 1)
  BY <1>3
<1>5. kept[1] \in {<<>>, <<1>>}
  BY <1>4
<1>k. kept[1] \in Seq(DOMAIN m) /\ Len(kept[1]) \in 0..1 /\ (Len(kept[1]) = 1 => kept[1][1] = 1)
  <2>1. 1 \in DOMAIN m
    OBVIOUS
  <2>2. CASE kept[1] = <<>>
    <3>1. <<>> \in Seq(DOMAIN m) /\ Len(<<>>) = 0
      OBVIOUS
    <3> QED BY <2>2, <3>1
  <2>3. CASE kept[1] = <<1>>
    <3> HIDE DEF F
    <3>1. PICK D : D = DOMAIN m
      OBVIOUS
    <3>2. <<1>> \in Seq(D) /\ Len(<<1>>) = 1 /\ <<1>>[1] = 1
      BY <2>1, <3>1
    <3> QED BY <2>3, <3>1, <3>2
  <2> QED BY <1>5, <2>2, <2>3
<1>6. CASE Len(m) = 1
  <2>1. kept[1] \in Seq(DOMAIN m) /\ Len(kept[1]) \in 0..1
    BY <1>k
  <2> QED BY <1>1, <1>6, <2>1
<1>7. CASE Len(m) = 2
  <2>1. kept[2] = IF C(2) THEN kept[1] ELSE Append(kept[1], 2)
    <3>1. 2 \in 0..Len(m) /\ 2 # 0 /\ 2 - 1 = 1
      BY <1>7
    <3>2. kept[2] = F(kept)[2]
      BY <1>3
    <3>3. F(kept)[2] = IF C(2) THEN kept[2 - 1] ELSE Append(kept[2 - 1], 2)
      BY <3>1
    <3> HIDE DEF F
    <3> QED BY <3>1, <3>2, <3>3
  <2>2. kept[2] \in {kept[1], Append(kept[1], 2)} /\ DOMAIN m = 1..2
    BY <1>7, <2>1
  <2>3. CASE kept[2] = kept[1]
    BY <1>1, <1>k, <1>7, <2>3
  <2>4. CASE kept[2] = Append(kept[1], 2)
    <3>1. PICK k : k = kept[1]
      OBVIOUS
    <3>2. PICK D : D = DOMAIN m
      OBVIOUS
    <3>3. k \in Seq(D) /\ Len(k) \in 0..1 /\ (Len(k) = 1 => k[1] = 1) /\ 2 \in D
      BY <1>k, <2>2, <3>1, <3>2
    <3>4. /\ Append(k, 2) \in Seq(D) /\ Len(Append(k, 2)) \in 0..2
          /\ (Len(Append(k, 2)) = 2 => Append(k, 2)[1] = 1 /\ Append(k, 2)[2] = 2)
      <4>1. Append(k, 2) \in Seq(D) /\ Len(Append(k, 2)) = Len(k) + 1
        BY <3>3
      <4>2. CASE Len(k) = 0
        BY <4>1, <4>2
      <4>3. CASE Len(k) = 1
        <5>1. /\ \A i \in 1..Len(k) : Append(k, 2)[i] = k[i]
              /\ Append(k, 2)[Len(k) + 1] = 2
          BY <3>3, AppendProperties
        <5>2. 1 \in 1..Len(k) /\ Len(k) + 1 = 2
          BY <4>3
        <5> QED BY <3>3, <4>1, <4>3, <5>1, <5>2
      <4> QED BY <3>3, <4>2, <4>3
    <3> QED BY <1>1, <1>7, <2>4, <3>1, <3>2, <3>4
  <2> QED BY <2>2, <2>3, <2>4
<1> QED BY <1>6, <1>7

DistinctEntries(m) ==
  /\ \A i \in DOMAIN m : IdOfEntry(m, i).n <= MaxNum
  /\ \A i, j \in DOMAIN m : i # j => IdOfEntry(m, i) # IdOfEntry(m, j)

LEMMA BuiltDistinct ==
  ASSUME Ready, NEW m, ManifestOK(m), DistinctEntries(m), NEW i \in DOMAIN m, NEW j \in DOMAIN m, i # j
  PROVE  Built(m, i).uid # Built(m, j).uid
<1>1. OneFileEach(files) /\ \A x \in DOMAIN m : \A e \in files : e.uid # m[x].uid
  BY DEF Ready, TypeInv, TreeOK, ManifestOK, EntryOK, FreshUids
<1>2. IdOfEntry(m, i) # IdOfEntry(m, j) /\ IdOfEntry(m, i).n <= MaxNum /\ IdOfEntry(m, j).n <= MaxNum
  BY DEF DistinctEntries
<1> DEFINE Old(x) == \E e \in files : IdOf(e) = IdOfEntry(m, x) /\ e.uid = Built(m, x).uid
           New(x) == Built(m, x).uid = m[x].uid
<1>3. Old(i) \/ New(i)
  BY <1>2, BuiltFacts
<1>4. Old(j) \/ New(j)
  BY <1>2, BuiltFacts
<1>5. m[i].uid # m[j].uid
  BY DEF ManifestOK
<1>6. CASE Old(i) /\ Old(j)
  BY <1>1, <1>2, <1>6 DEF OneFileEach
<1>7. CASE Old(i) /\ New(j)
  BY <1>1, <1>7
<1>8. CASE New(i) /\ Old(j)
  BY <1>1, <1>8
<1>9. CASE New(i) /\ New(j)
  BY <1>5, <1>9
<1> HIDE DEF Old, New
<1> QED BY <1>3, <1>4, <1>6, <1>7, <1>8, <1>9

(* The tree of the entries I of a manifest.                                 *)
Imported(m, I) ==
  {e \in files : \A i \in I : Built(m, i).uid # e.uid} \cup {Built(m, i) : i \in I}

LEMMA ImportedTree ==
  ASSUME Ready, NEW m, ManifestOK(m), DistinctEntries(m), NEW I \in SUBSET DOMAIN m
  PROVE  TreeOK(play, Imported(m, I))
<1>1. TreeOK(play, files)
  BY DEF Ready, TypeInv
<1>2. \A i \in I : Built(m, i) \in FileOf(play)
  BY BuiltFacts DEF DistinctEntries, PlainWrite
<1>3. \A i, j \in I : Built(m, i).uid = Built(m, j).uid => i = j
  BY BuiltDistinct
<1> QED BY <1>1, <1>2, <1>3 DEF TreeOK, OneFileEach, Imported

LEMMA ImportedIsSound ==
  ASSUME Ready, merged = {}, ~halted, NEW m, ManifestOK(m), DistinctEntries(m), NEW I \in SUBSET DOMAIN m,
         projectionFindings(T, At(Imported(m, I))) = {}
  PROVE  Sound(Imported(m, I))
<1> DEFINE gs == Imported(m, I)
<1>1. play \in Scenarios /\ TreeOK(play, files) /\ Sound(files) /\ TreeOK(play, gs)
  BY ImportedTree DEF Ready, TypeInv
<1>2. /\ IdsDistinct(gs)
      /\ \A e \in gs : ~e.arch => \A r \in e.refs : \E o \in gs : IdOf(o) = IdOf(r)
  BY <1>1, GateAnswers DEF T
<1>3. \A i \in I : i \in DOMAIN m /\ IdOfEntry(m, i).n <= MaxNum
  BY DEF DistinctEntries
<1>4. ASSUME NEW o \in files PROVE \E x \in gs : IdOf(x) = IdOf(o) /\ x.uid = o.uid
  <2>1. CASE \A i \in I : Built(m, i).uid # o.uid
    BY <2>1 DEF Imported
  <2>2. CASE \E i \in I : Built(m, i).uid = o.uid
    <3>1. PICK i \in I : Built(m, i).uid = o.uid
      BY <2>2
    <3>2. PlainWrite(Built(m, i))
      BY <1>3, BuiltFacts
    <3>3. IdOf(o) = IdOf(Built(m, i)) /\ Built(m, i) \in gs
      BY <3>1, <3>2 DEF PlainWrite, Imported
    <3> QED BY <3>1, <3>3
  <2> QED BY <2>1, <2>2
<1>5. ASSUME NEW e \in gs, ~e.arch, NEW r \in e.refs
      PROVE  \E x \in gs : IdOf(x) = IdOf(r) /\ x.uid = r.means
  <2>1. CASE e \in files
    <3>1. PICK o \in files : IdOf(o) = IdOf(r) /\ o.uid = r.means
      BY <1>1, <1>5, <2>1 DEF Sound, RefsHold
    <3> QED BY <1>4, <3>1
  <2>2. CASE e \notin files
    <3>1. PICK i \in I : e = Built(m, i)
      BY <2>2 DEF Imported
    <3>2. PICK q \in m[i].refs : r = Meant(m, q)
      BY <1>3, <1>5, <3>1, BuiltFacts
    <3>3. Made(q)
      BY <1>3 DEF ManifestOK, EntryOK
    <3>4. IdOf(r) = IdOf(q) /\ (q.means # 0 => r = q)
      BY <3>2, <3>3, MeantFacts
    <3>5. q.means = Designated(files, IdOf(q))
      BY <3>3 DEF Made
    <3>6. CASE q.means # 0
      <4>1. PICK o \in files : IdOf(o) = IdOf(q) /\ o.uid = q.means
        BY <1>1, <3>5, <3>6, DesignatedFacts
      <4> QED BY <1>4, <3>4, <3>6, <4>1
    <3>7. CASE q.means = 0
      <4>1. \A o \in files : IdOf(o) # IdOf(q)
        BY <1>1, <3>5, <3>7, DesignatedFacts
      <4>2. PICK x \in gs : IdOf(x) = IdOf(r)
        BY <1>2, <1>5
      <4>3. PICK l \in I : x = Built(m, l)
        BY <3>4, <4>1, <4>2 DEF Imported
      <4>4. IdOfEntry(m, l) = IdOf(q)
        BY <1>3, <3>4, <4>2, <4>3, BuiltFacts
      <4>5. \E j \in DOMAIN m : IdOfEntry(m, j) = IdOf(q) /\ r.means = m[j].uid
        BY <1>3, <3>2, <3>3, <3>7, <4>4, MeantFacts
      <4>6. r.means = m[l].uid
        BY <1>3, <4>4, <4>5 DEF DistinctEntries
      <4>7. x.uid = m[l].uid
        BY <1>3, <4>1, <4>3, <4>4, BuiltFacts
      <4> QED BY <4>2, <4>6, <4>7
    <3> QED BY <3>6, <3>7
  <2> QED BY <2>1, <2>2
<1> QED BY <1>2, <1>5 DEF Sound, RefsHold

\* What an import leaves, in one commit or with a plan still to come.
ImportedAs(gs) ==
  \/ \E w : /\ PlainWrite(w) /\ w.uid \in waived'
            /\ gs = Written(files, w) /\ files' = gs /\ plans' = <<>>
  \/ \E w1, w2 : /\ PlainWrite(w1) /\ PlainWrite(w2) /\ w1.uid # w2.uid /\ IdOf(w1) # IdOf(w2)
                 /\ w1.uid \in waived' /\ w2.uid \in waived'
                 /\ gs = Written(Written(files, w1), w2)
                 /\ \/ files' = gs /\ plans' = <<>>
                    \/ files' = Written(files, w1) /\ plans' # <<>> /\ plans'[1] = w2

LEMMA ImportLeads ==
  ASSUME Ready, NEW m \in Manifests, NEW onCollision, NEW perEntity, Import(m, onCollision, perEntity)
  PROVE  /\ PlansOK(play, plans') /\ waived \subseteq waived'
         /\ \E gs : Leads(gs) /\ ImportedAs(gs) /\ projectionFindings(T, At(gs)) = {}
<1> DEFINE order == Kept(m, onCollision)
           writes == [j \in DOMAIN order |-> Built(m, order[j])]
           I == {order[j] : j \in DOMAIN order}
           W == {w \in FileOf(play) : w.area = None}
           gs == {e \in files : \A j \in DOMAIN writes : writes[j].uid # e.uid} \cup ToSet(writes)
<1>1. ManifestOK(m) /\ DistinctEntries(m)
  BY ManifestFacts DEF Import, DistinctEntries
<1>2. order \in Seq(DOMAIN m) /\ Len(order) \in 0..2 /\ (Len(order) = 2 => order[1] # order[2])
  BY <1>1, KeptFacts DEF ManifestOK
<1>3. \A i \in DOMAIN m : PlainWrite(Built(m, i))
  BY <1>1, BuiltFacts DEF DistinctEntries
<1>4. /\ writes # <<>> /\ projectionFindings(T, At(gs)) = {}
      /\ plans' = (IF perEntity THEN Tail(writes) ELSE <<>>)
      /\ files' = (IF perEntity THEN Written(files, writes[1]) ELSE gs)
      /\ waived' = waived \cup {w.uid : w \in ToSet(writes)}
  BY DEF Import
<1> HIDE DEF order
<1>5. DOMAIN order = 1..Len(order) /\ \A j \in DOMAIN order : order[j] \in DOMAIN m
  BY <1>2
<1>6. /\ writes \in Seq(W) /\ Len(writes) = Len(order) /\ DOMAIN writes = DOMAIN order
      /\ \A j \in DOMAIN order : writes[j] = Built(m, order[j])
  <2>1. \A j \in 1..Len(order) : Built(m, order[j]) \in W
    BY <1>3, <1>5 DEF PlainWrite
  <2>2. writes = [j \in 1..Len(order) |-> Built(m, order[j])]
    BY <1>5
  <2> HIDE DEF W
  <2>3. Len(order) \in Nat
    BY <1>2
  <2> QED BY <1>5, <2>1, <2>2, <2>3
<1>7. gs = Imported(m, I) /\ I \in SUBSET DOMAIN m
  BY <1>5, <1>6 DEF Imported, ToSet
<1>8. Leads(gs)
  BY <1>1, <1>4, <1>7, ImportedTree, ImportedIsSound DEF Leads
<1>9. ToSet(writes) = {writes[j] : j \in 1..Len(writes)}
  BY <1>5, <1>6 DEF ToSet
<1>e. \A i \in DOMAIN m : IdOf(Built(m, i)) = IdOfEntry(m, i)
  BY <1>1, BuiltFacts DEF DistinctEntries
<1> HIDE DEF writes, I, W
<1>10. Len(writes) \in {1, 2}
  <2>1. Len(writes) # 0
    BY <1>4, <1>6, EmptySeq
  <2> QED BY <1>2, <1>6, <2>1
<1>t. PICK tail : tail = Tail(writes)
  OBVIOUS
<1>11. tail \in Seq(W) /\ Len(tail) = Len(writes) - 1 /\ \A i \in 1..Len(tail) : tail[i] = writes[i + 1]
  BY <1>4, <1>6, <1>t, HeadTailProperties
<1>12. PlansOK(play, plans')
  <2>1. plans' = tail \/ plans' = <<>>
    BY <1>4, <1>t
  <2>2. <<>> \in Seq(W) /\ Len(<<>>) = 0
    BY EmptySeq
  <2>3. Len(tail) <= 1
    BY <1>10, <1>11
  <2>4. plans' \in Seq(W) /\ Len(plans') <= 1
    <3>1. CASE plans' = tail
      BY <1>11, <2>3, <3>1
    <3>2. CASE plans' = <<>>
      <4>1. plans' \in Seq(W)
        BY <2>2, <3>2
      <4>2. Len(plans') = 0
        BY <3>2, EmptySeq
      <4> QED BY <4>1, <4>2
    <3> QED BY <2>1, <3>1, <3>2
  <2> QED BY <2>4 DEF PlansOK, W
<1>13. CASE Len(writes) = 1
  <2>1. PICK w : w = writes[1]
    OBVIOUS
  <2>2. DOMAIN writes = {1} /\ ToSet(writes) = {w}
    BY <1>5, <1>6, <1>9, <1>13, <2>1
  <2>3. gs = Written(files, w)
    BY <2>1, <2>2 DEF Written
  <2>4. PlainWrite(w)
    BY <1>3, <1>5, <1>6, <2>1, <2>2
  <2>5. tail = <<>>
    BY <1>11, <1>13, EmptySeq
  <2>6. files' = gs /\ plans' = <<>>
    BY <1>4, <1>t, <2>1, <2>3, <2>5
  <2>7. w.uid \in waived' /\ waived \subseteq waived'
    BY <1>4, <2>2
  <2> HIDE DEF gs
  <2> QED BY <1>4, <1>8, <1>12, <2>3, <2>4, <2>6, <2>7 DEF ImportedAs
<1>14. CASE Len(writes) = 2
  <2>1. PICK w1, w2 : w1 = writes[1] /\ w2 = writes[2]
    OBVIOUS
  <2>2. DOMAIN writes = {1, 2} /\ ToSet(writes) = {w1, w2} /\ 1 \in DOMAIN order /\ 2 \in DOMAIN order
    BY <1>5, <1>6, <1>9, <1>14, <2>1
  <2>3. order[1] # order[2] /\ order[1] \in DOMAIN m /\ order[2] \in DOMAIN m
    BY <1>2, <1>5, <1>6, <1>14, <2>2
  <2>4. w1 = Built(m, order[1]) /\ w2 = Built(m, order[2])
    BY <1>6, <2>1, <2>2
  <2>5. w1.uid # w2.uid
    BY <1>1, <2>3, <2>4, BuiltDistinct
  <2>6. PlainWrite(w1) /\ PlainWrite(w2)
    BY <1>3, <2>3, <2>4
  <2>7. gs = Written(Written(files, w1), w2)
    BY <2>1, <2>2, <2>5 DEF Written
  <2>8. tail[1] = w2 /\ tail # <<>>
    <3>1. Len(tail) = 1
      BY <1>11, <1>14
    <3>2. 1 \in 1..Len(tail) /\ 1 + 1 = 2
      BY <3>1
    <3>3. tail[1] = writes[2]
      BY <1>11, <3>2
    <3> QED BY <3>3, <2>1, <3>1, <3>2, EmptySeq
  <2>9. \/ files' = gs /\ plans' = <<>>
        \/ files' = Written(files, w1) /\ plans' # <<>> /\ plans'[1] = w2
    BY <1>4, <1>t, <2>1, <2>8
  <2>10. w1.uid \in waived' /\ w2.uid \in waived' /\ waived \subseteq waived'
    BY <1>4, <2>2
  <2>11. IdOf(w1) # IdOf(w2)
    BY <1>1, <1>e, <2>3, <2>4 DEF DistinctEntries
  <2> HIDE DEF gs
  <2> QED BY <1>4, <1>8, <1>12, <2>5, <2>6, <2>7, <2>9, <2>10, <2>11 DEF ImportedAs
<1> QED BY <1>10, <1>13, <1>14

-----------------------------------------------------------------------------
(* The kinds of step there are.                                             *)
AreaValid(v, members) == v # None => IsValidAreaValue(v, members)

RewriteStep ==
  /\ Ready /\ UNCHANGED <<play, plans, halted, merged>>
  /\ Leads(files') /\ InPlace(files', files) /\ YamlOK(play, yaml')
  /\ yaml'.validators = yaml.validators /\ yaml'.bindings = yaml.bindings
  /\ AreasDeclared => \A e \in files' : AreaValid(e.area, yaml'.areas)
AddStep ==
  /\ Ready /\ UNCHANGED <<play, plans, halted, merged>>
  /\ Leads(files') /\ YamlOK(play, yaml') /\ \E u, v, w : u \in Uids /\ Added(u, v, w)
RenumberStep ==
  /\ Ready /\ UNCHANGED <<play, yaml, plans, halted, merged>>
  /\ "reallocate" \in play.verbs /\ Leads(files') /\ Renumbers /\ AreasKept(files')
Sourced(b) == \E e \in files : e.uid = b.means /\ e.kind = "contract" /\ e.n = b.n
Validated(y) == \A b \in y.bindings : b.validator \in y.validators
YamlStep ==
  /\ Ready /\ UNCHANGED <<play, files, plans, halted, merged>>
  /\ "contract" \in play.verbs /\ YamlOK(play, yaml') /\ yaml'.areas = yaml.areas
  /\ \A b \in yaml'.bindings : b \in yaml.bindings \/ Sourced(b)
  /\ Validated(yaml) => Validated(yaml')
ImportStep ==
  /\ Ready /\ UNCHANGED <<play, yaml, halted, merged>>
  /\ "import" \in play.verbs /\ PlansOK(play, plans') /\ \E gs : Leads(gs) /\ ImportedAs(gs)
MergeStep ==
  /\ Ready /\ UNCHANGED <<play, yaml, plans, halted>>
  /\ TreeOK(play, files') /\ merged' # {}
  /\ \E w \in FileOf(play) : files' = files \cup {w} /\ w.area = None /\ w.prior = {}
Stutter == UNCHANGED <<play, files, yaml, plans, halted, merged>>

LEMMA SameAreasStayValid ==
  ASSUME AreasKept(files'), yaml' = yaml, AreasDeclared
  PROVE  \A e \in files' : AreaValid(e.area, yaml'.areas)
BY DEF AreasKept, AreasDeclared, AreaValid

LEMMA RewriteKinds ==
  ASSUME Ready, UNCHANGED <<play, plans, halted, merged, yaml>>,
         Leads(files'), InPlace(files', files), AreasKept(files')
  PROVE  RewriteStep
BY SameAreasStayValid DEF RewriteStep, Ready, TypeInv

LEMMA PromoteIsRewrite ==
  ASSUME Inv, NEW id \in IDs, NEW to \in Statuses(id.kind), NEW force \in BOOLEAN,
         NEW o \in FlagsFor(id.kind, to), Promote(id, to, o, force)
  PROVE  RewriteStep
<1>1. Ready
  BY VerbIsReady DEF Promote
<1>2. UNCHANGED <<play, plans, halted, merged, yaml>>
  BY DEF Promote, Commit
<1>3. Leads(files') /\ InPlace(files', files) /\ AreasKept(files')
  BY <1>1, PromoteLeads
<1> QED BY <1>1, <1>2, <1>3, RewriteKinds

LEMMA CancelIsRewrite ==
  ASSUME Inv, NEW id \in IDs, Cancel(id)
  PROVE  RewriteStep
<1>1. Ready
  BY VerbIsReady DEF Cancel
<1>2. UNCHANGED <<play, plans, halted, merged, yaml>>
  BY DEF Cancel, Commit
<1>3. Leads(files') /\ InPlace(files', files) /\ AreasKept(files')
  BY <1>1, CancelLeads
<1> QED BY <1>1, <1>2, <1>3, RewriteKinds

LEMMA DependsIsRewrite ==
  ASSUME Inv, NEW id \in IDs, NEW deps \in SUBSET OfKind("milestone"), MilestoneDependsOn(id, deps)
  PROVE  RewriteStep
<1>1. Ready
  BY VerbIsReady DEF MilestoneDependsOn
<1>2. UNCHANGED <<play, plans, halted, merged, yaml>>
  BY DEF MilestoneDependsOn, Commit
<1>3. Leads(files') /\ InPlace(files', files) /\ AreasKept(files')
  BY <1>1, DependsLeads
<1> QED BY <1>1, <1>2, <1>3, RewriteKinds

LEMMA PriorityIsRewrite ==
  ASSUME Inv, NEW id \in IDs, NEW level \in Levels \cup {None}, SetPriority(id, level)
  PROVE  RewriteStep
<1>1. Ready
  BY VerbIsReady DEF SetPriority
<1>2. UNCHANGED <<play, plans, halted, merged, yaml>>
  BY DEF SetPriority, Commit
<1>3. Leads(files') /\ InPlace(files', files) /\ AreasKept(files')
  BY <1>1, PriorityLeads
<1> QED BY <1>1, <1>2, <1>3, RewriteKinds

LEMMA SweepIsRewrite ==
  ASSUME Inv, ArchiveSweep
  PROVE  RewriteStep
<1>1. Ready
  BY VerbIsReady DEF ArchiveSweep
<1>2. UNCHANGED <<play, plans, halted, merged, yaml>>
  BY DEF ArchiveSweep, Commit
<1>3. Leads(files') /\ InPlace(files', files) /\ AreasKept(files')
  BY <1>1, SweepLeads
<1> QED BY <1>1, <1>2, <1>3, RewriteKinds

LEMMA AreaIsRewrite ==
  ASSUME Inv, NEW id \in IDs, NEW v \in yaml.areas \cup {AreaGlobal, None}, SetArea(id, v)
  PROVE  RewriteStep
<1>1. Ready
  BY VerbIsReady DEF SetArea
<1>2. UNCHANGED <<play, plans, halted, merged, yaml>> /\ (v = None \/ IsValidAreaValue(v, yaml.areas))
  BY DEF SetArea, Commit
<1>3. /\ Leads(files') /\ InPlace(files', files)
      /\ \A x \in files' : x.area = v \/ x \in files
  BY <1>1, AreaLeads
<1>4. AreasDeclared => \A e \in files' : AreaValid(e.area, yaml'.areas)
  BY <1>2, <1>3 DEF AreasDeclared, AreaValid
<1> QED BY <1>1, <1>2, <1>3, <1>4 DEF RewriteStep, Ready, TypeInv

(* The new name is a member where the old one was.                          *)
LEMMA RenameAreaIsRewrite ==
  ASSUME Inv, NEW old \in play.names, NEW new \in play.names, RenameArea(old, new)
  PROVE  RewriteStep
<1>1. Ready
  BY VerbIsReady DEF RenameArea
<1>2. UNCHANGED <<play, plans, halted, merged>>
  BY DEF RenameArea, Commit
<1>3. /\ Leads(files') /\ InPlace(files', files) /\ YamlOK(play, yaml')
      /\ yaml' = [yaml EXCEPT !.areas = (yaml.areas \ {old}) \cup {new}]
      /\ \A x \in files' : x.area = new \/ (x \in files /\ x.area # old)
  BY <1>1, RenameAreaLeads
<1>4. /\ yaml'.areas = (yaml.areas \ {old}) \cup {new}
      /\ yaml'.validators = yaml.validators /\ yaml'.bindings = yaml.bindings
  BY <1>1, <1>3 DEF Ready, TypeInv, YamlOK
<1>5. AreasDeclared => \A e \in files' : AreaValid(e.area, yaml'.areas)
  BY <1>3, <1>4 DEF AreasDeclared, AreaValid, IsValidAreaValue
<1> QED BY <1>1, <1>2, <1>3, <1>4, <1>5 DEF RewriteStep
LEMMA AddIsAdd ==
  ASSUME Inv, NEW u \in FreshUids, NEW refs \in RefFlags(play.cast[u]),
         NEW v \in yaml.validators \cup {None}, Add(u, refs, v)
  PROVE  AddStep
<1>1. Ready
  BY VerbIsReady DEF Add
<1>2. UNCHANGED <<play, plans, halted, merged>>
  BY DEF Add, Commit
<1>3. Leads(files') /\ \E w : Added(u, v, w)
  BY <1>1, AddLeads
<1>4. PICK w : Added(u, v, w)
  BY <1>3
<1>5. play \in Scenarios /\ YamlOK(play, yaml) /\ u \in Uids /\ u \in DOMAIN play.cast
  BY <1>1 DEF Ready, TypeInv, FreshUids, Uids
<1>6. w.n \in 1..MaxNum
  BY <1>4, <1>5, FileFacts DEF Added
<1>7. YamlOK(play, yaml')
  <2>1. CASE yaml' = yaml
    BY <1>5, <2>1
  <2>2. CASE /\ v \in yaml.validators
             /\ yaml' = [yaml EXCEPT !.bindings =
                            yaml.bindings \cup {[n |-> w.n, validator |-> v, means |-> u]}]
    BY <1>5, <1>6, <2>2 DEF YamlOK, Binding
  <2> QED BY <1>4, <2>1, <2>2 DEF Added
<1> QED BY <1>1, <1>2, <1>3, <1>4, <1>5, <1>7 DEF AddStep

LEMMA ReallocateIsRenumber ==
  ASSUME Inv, NEW e \in files, Reallocate(e)
  PROVE  RenumberStep
<1>1. Ready
  BY VerbIsReady DEF Reallocate
<1>2. UNCHANGED <<play, plans, halted, merged, yaml>> /\ "reallocate" \in play.verbs
  BY DEF Reallocate, Commit, On
<1>3. Leads(files') /\ Renumbers /\ AreasKept(files')
  BY <1>1, ReallocateLeads
<1> QED BY <1>1, <1>2, <1>3 DEF RenumberStep

(* The edits of aiwf.yaml on its own.                                       *)
LEMMA BindIsYaml ==
  ASSUME Inv, NEW id \in IDs, NEW v \in yaml.validators, NEW force \in BOOLEAN, ContractBind(id, v, force)
  PROVE  YamlStep
<1> DEFINE e == ByID(T, id)
           new == [n |-> id.n, validator |-> v, means |-> e.uid]
           bs == (yaml.bindings \ BindingsOf(id.n)) \cup {new}
<1>1. Ready
  BY VerbIsReady DEF ContractBind
<1>2. /\ UNCHANGED <<play, files, plans, halted, merged>> /\ "contract" \in play.verbs
      /\ yaml' = [yaml EXCEPT !.bindings = bs] /\ e.kind = "contract"
  BY DEF ContractBind, CommitYaml, On
<1>3. /\ play \in Scenarios /\ YamlOK(play, yaml) /\ e \in files /\ IdOf(e) = id /\ e \in FileOf(play)
  BY <1>1, HeldID DEF Ready, TypeInv, TreeOK
<1> HIDE DEF e
<1>4. e.n = id.n /\ e.n \in 1..MaxNum /\ e.uid \in DOMAIN play.cast
  <2>1. e.n \in 1..MaxNum /\ e.uid \in DOMAIN play.cast
    BY <1>3, FileFacts
  <2> QED BY <1>3, <2>1 DEF IdOf
<1>5. Sourced(new) /\ new.validator = v
  BY <1>2, <1>3, <1>4 DEF Sourced
<1>6. new \in Binding(play)
  <2>1. v \in play.tools
    BY <1>3 DEF YamlOK
  <2> QED BY <1>4, <2>1 DEF Binding
<1>7. bs \in SUBSET Binding(play)
  BY <1>3, <1>6 DEF YamlOK
<1>8. \A b \in bs : b \in yaml.bindings \/ (Sourced(b) /\ b.validator \in yaml.validators)
  BY <1>5
<1> HIDE DEF bs
<1>9. /\ yaml'.areas = yaml.areas /\ yaml'.validators = yaml.validators /\ yaml'.bindings = bs
      /\ YamlOK(play, yaml')
  BY <1>2, <1>3, <1>7 DEF YamlOK
<1> QED BY <1>1, <1>2, <1>8, <1>9 DEF YamlStep, Validated

LEMMA UnbindIsYaml ==
  ASSUME Inv, NEW n \in 1..MaxNum, ContractUnbind(n)
  PROVE  YamlStep
<1> DEFINE bs == yaml.bindings \ BindingsOf(n)
<1>1. Ready
  BY VerbIsReady DEF ContractUnbind
<1>2. /\ UNCHANGED <<play, files, plans, halted, merged>> /\ "contract" \in play.verbs
      /\ yaml' = [yaml EXCEPT !.bindings = bs]
  BY DEF ContractUnbind, CommitYaml, On
<1>3. YamlOK(play, yaml)
  BY <1>1 DEF Ready, TypeInv
<1>4. bs \in SUBSET Binding(play) /\ bs \subseteq yaml.bindings
  BY <1>3 DEF YamlOK
<1> HIDE DEF bs
<1>5. /\ yaml'.areas = yaml.areas /\ yaml'.validators = yaml.validators /\ yaml'.bindings = bs
      /\ YamlOK(play, yaml')
  BY <1>2, <1>3, <1>4 DEF YamlOK
<1> QED BY <1>1, <1>2, <1>4, <1>5 DEF YamlStep, Validated

LEMMA InstallIsYaml ==
  ASSUME Inv, NEW v \in play.tools, RecipeInstall(v)
  PROVE  YamlStep
<1> DEFINE vs == yaml.validators \cup {v}
<1>1. Ready
  BY VerbIsReady DEF RecipeInstall
<1>2. /\ UNCHANGED <<play, files, plans, halted, merged>> /\ "contract" \in play.verbs
      /\ yaml' = [yaml EXCEPT !.validators = vs]
  BY DEF RecipeInstall, CommitYaml, On
<1>3. YamlOK(play, yaml)
  BY <1>1 DEF Ready, TypeInv
<1>4. vs \in SUBSET play.tools /\ yaml.validators \subseteq vs
  BY <1>3 DEF YamlOK
<1> HIDE DEF vs
<1>5. /\ yaml'.areas = yaml.areas /\ yaml'.validators = vs /\ yaml'.bindings = yaml.bindings
      /\ YamlOK(play, yaml')
  BY <1>2, <1>3, <1>4 DEF YamlOK
<1> QED BY <1>1, <1>2, <1>4, <1>5 DEF YamlStep, Validated

(* recipe remove asks the bindings first.                                   *)
LEMMA RemoveIsYaml ==
  ASSUME Inv, NEW v \in play.tools, RecipeRemove(v)
  PROVE  YamlStep
<1> DEFINE vs == yaml.validators \ {v}
<1>1. Ready
  BY VerbIsReady DEF RecipeRemove
<1>2. /\ UNCHANGED <<play, files, plans, halted, merged>> /\ "contract" \in play.verbs
      /\ yaml' = [yaml EXCEPT !.validators = vs] /\ \A b \in yaml.bindings : b.validator # v
  BY DEF RecipeRemove, CommitYaml, On, bindingsReferencing
<1>3. YamlOK(play, yaml)
  BY <1>1 DEF Ready, TypeInv
<1>4. vs \in SUBSET play.tools /\ \A x \in yaml.validators : x # v => x \in vs
  BY <1>3 DEF YamlOK
<1> HIDE DEF vs
<1>5. /\ yaml'.areas = yaml.areas /\ yaml'.validators = vs /\ yaml'.bindings = yaml.bindings
      /\ YamlOK(play, yaml')
  BY <1>2, <1>3, <1>4 DEF YamlOK
<1> QED BY <1>1, <1>2, <1>4, <1>5 DEF YamlStep, Validated

LEMMA ImportIsImport ==
  ASSUME Inv, NEW m \in Manifests, NEW onCollision, NEW perEntity, Import(m, onCollision, perEntity)
  PROVE  ImportStep
<1>1. Ready
  BY VerbIsReady DEF Import
<1>2. UNCHANGED <<play, yaml, halted, merged>> /\ "import" \in play.verbs
  BY DEF Import, On
<1>3. PlansOK(play, plans') /\ \E gs : Leads(gs) /\ ImportedAs(gs)
  BY <1>1, ImportLeads, Zenon
<1> QED BY <1>1, <1>2, <1>3 DEF ImportStep

LEMMA MergeIsMerge ==
  ASSUME Inv, NEW u \in FreshUids, NEW n \in 1..MaxNum, NEW refs \in RefFlags(play.cast[u]), MergeIn(u, n, refs)
  PROVE  MergeStep
<1>1. Ready
  BY VerbIsReady DEF MergeIn
<1>2. UNCHANGED <<play, yaml, plans, halted>>
  BY DEF MergeIn, Commit
<1>3. /\ TreeOK(play, files') /\ merged' # {}
      /\ \E w \in FileOf(play) : files' = files \cup {w} /\ w.area = None /\ w.prior = {}
  BY <1>1, MergeLeads
<1> QED BY <1>1, <1>2, <1>3 DEF MergeStep

(* Every step is of one of these kinds.                                     *)
LEMMA StepKinds ==
  ASSUME Inv, [Next]_vars
  PROVE  \/ RewriteStep \/ AddStep \/ RenumberStep \/ YamlStep \/ ImportStep
         \/ ImportNext \/ ImportStop \/ MergeStep \/ Stutter
<1>1. CASE \E u \in FreshUids : \E refs \in RefFlags(play.cast[u]), v \in yaml.validators \cup {None} : Add(u, refs, v)
  BY <1>1, AddIsAdd
<1>2. CASE \E id \in IDs : \E to \in Statuses(id.kind), force \in BOOLEAN :
             \E o \in FlagsFor(id.kind, to) : Promote(id, to, o, force)
  BY <1>2, PromoteIsRewrite
<1>3. CASE \E id \in IDs : Cancel(id)
  BY <1>3, CancelIsRewrite
<1>4. CASE \E id \in IDs : \E deps \in SUBSET OfKind("milestone") : MilestoneDependsOn(id, deps)
  BY <1>4, DependsIsRewrite
<1>5. CASE \E id \in IDs, v \in yaml.areas \cup {AreaGlobal, None} : SetArea(id, v)
  BY <1>5, AreaIsRewrite
<1>6. CASE \E old, new \in play.names : RenameArea(old, new)
  BY <1>6, RenameAreaIsRewrite
<1>7. CASE \E id \in IDs, level \in Levels \cup {None} : SetPriority(id, level)
  BY <1>7, PriorityIsRewrite
<1>8. CASE ArchiveSweep
  BY <1>8, SweepIsRewrite
<1>9. CASE \E e \in files : Reallocate(e)
  BY <1>9, ReallocateIsRenumber
<1>10. CASE \E id \in IDs, v \in yaml.validators, force \in BOOLEAN : ContractBind(id, v, force)
  BY <1>10, BindIsYaml
<1>11. CASE \E n \in 1..MaxNum : ContractUnbind(n)
  BY <1>11, UnbindIsYaml
<1>12. CASE \E v \in play.tools : RecipeInstall(v) \/ RecipeRemove(v)
  BY <1>12, InstallIsYaml, RemoveIsYaml
<1>13. CASE \E m \in Manifests, onCollision \in {"fail", "skip", "update"}, perEntity \in BOOLEAN :
              Import(m, onCollision, perEntity)
  BY <1>13, ImportIsImport
<1>14. CASE \E u \in FreshUids, n \in 1..MaxNum : \E refs \in RefFlags(play.cast[u]) : MergeIn(u, n, refs)
  BY <1>14, MergeIsMerge
<1>15. CASE ImportNext \/ ImportStop
  BY <1>15
<1>16. CASE UNCHANGED vars
  BY <1>16 DEF vars, Stutter
<1> QED
  BY <1>1, <1>2, <1>3, <1>4, <1>5, <1>6, <1>7, <1>8, <1>9, <1>10, <1>11, <1>12, <1>13, <1>14, <1>15, <1>16
  DEF Next
-----------------------------------------------------------------------------
(* The start: numbers are given out in order within a kind.                 *)
LEMMA StartNumbers ==
  ASSUME NEW p \in Scenarios
  PROVE  /\ \A u \in 1..p.start : StartNumber(p, u) \in 1..MaxNum
         /\ \A u, w \in 1..p.start :
              u < w /\ p.cast[u] = p.cast[w] => StartNumber(p, u) < StartNumber(p, w)
         /\ 1 <= p.start => StartNumber(p, 1) = 1
<1> DEFINE Same(u) == {v \in 1..u : p.cast[v] = p.cast[u]}
<1>1. p.start \in Nat /\ MaxNum \in Nat /\ p.start <= MaxNum
  BY ScenarioFacts
<1>2. \A u : StartNumber(p, u) = Cardinality(Same(u))
  BY DEF StartNumber
<1>3. \A u \in 1..p.start : u \in Nat /\ u >= 1 /\ u <= p.start /\ u \in Same(u) /\ Same(u) \subseteq 1..u
  BY <1>1
<1>4. ASSUME NEW u \in 1..p.start
      PROVE  IsFiniteSet(Same(u)) /\ Cardinality(Same(u)) \in Nat /\ Cardinality(Same(u)) <= u
  <2>1. IsFiniteSet(1..u) /\ Cardinality(1..u) = u
    BY <1>3, FS_Interval
  <2>2. Same(u) \in SUBSET (1..u)
    BY <1>3
  <2> HIDE DEF Same
  <2>3. IsFiniteSet(Same(u)) /\ Cardinality(Same(u)) <= u
    BY <2>1, <2>2, FS_Subset
  <2> QED BY <2>3, FS_CardinalityType
<1>5. ASSUME NEW u \in 1..p.start, NEW w \in 1..p.start, u < w, p.cast[u] = p.cast[w]
      PROVE  Cardinality(Same(u)) < Cardinality(Same(w))
  <2>1. Same(u) \in SUBSET Same(w) /\ w \in Same(w) /\ w \notin Same(u)
    BY <1>3, <1>5
  <2> HIDE DEF Same
  <2>2. IsFiniteSet(Same(w)) /\ Cardinality(Same(w)) \in Nat /\ Cardinality(Same(u)) \in Nat
    BY <1>4
  <2>3. Cardinality(Same(u)) <= Cardinality(Same(w)) /\ Cardinality(Same(w)) # Cardinality(Same(u))
    BY <2>1, <2>2, FS_Subset
  <2> QED BY <2>2, <2>3
<1>6. ASSUME NEW u \in 1..p.start PROVE Cardinality(Same(u)) \in 1..MaxNum
  <2>1. {u} \in SUBSET Same(u)
    BY <1>3
  <2> HIDE DEF Same
  <2>2. Cardinality({u}) = 1 /\ Cardinality({u}) <= Cardinality(Same(u))
    BY <1>4, <2>1, FS_Subset, FS_Singleton
  <2> QED BY <1>1, <1>3, <1>4, <2>2
<1>7. ASSUME 1 <= p.start PROVE Cardinality(Same(1)) = 1
  <2>1. 1 \in 1..p.start
    BY <1>1, <1>7
  <2> HIDE DEF Same
  <2>2. Cardinality(Same(1)) \in 1..MaxNum /\ Cardinality(Same(1)) <= 1
    BY <1>4, <1>6, <2>1
  <2> QED BY <1>1, <2>2
<1> HIDE DEF Same
<1> QED BY <1>2, <1>5, <1>6, <1>7

LEMMA StartFields ==
  \A s, u : LET e == StartFile(s, u)
            IN /\ e.uid = u /\ e.kind = s.cast[u] /\ e.n = StartNumber(s, u) /\ e.slug = u
               /\ e.status = InitialStatus[s.cast[u]] /\ e.area = None /\ e.prior = {} /\ e.arch = FALSE
BY DEF StartFile

LEMMA StartFileOK ==
  ASSUME NEW p \in Scenarios, NEW u \in 1..p.start
  PROVE  StartFile(p, u) \in FileOf(p)
<1> DEFINE e == StartFile(p, u)
           n == StartNumber(p, u)
           k == p.cast[u]
           rs == IF k = "milestone" THEN {Ref("parent", p.parent.kind, p.parent.n, 0, 1)} ELSE {}
<1>1. /\ u \in DOMAIN p.cast /\ 1 \in DOMAIN p.cast /\ n \in 1..MaxNum /\ 1 \in 1..MaxNum
      /\ p.parent.kind = "epic" /\ p.parent.n = 1
  <2>0. p.start \in 0..Len(p.cast) /\ Len(p.cast) \in Nat
    BY ScenarioFacts
  <2>1. p.start \in Nat /\ u \in Nat /\ u >= 1 /\ u <= p.start /\ p.start <= Len(p.cast) /\ Len(p.cast) \in Nat
    BY <2>0
  <2>2. DOMAIN p.cast = 1..Len(p.cast)
    BY ScenarioFacts
  <2>3. 1 \in 1..MaxNum
    BY ScenarioFacts
  <2>4. u \in 1..Len(p.cast) /\ 1 \in 1..Len(p.cast)
    BY <2>1
  <2> QED BY <2>2, <2>3, <2>4, StartNumbers, ScenarioFacts
<1>2. k \in Kinds /\ InitialStatus[k] \in Statuses(k)
  BY <1>1, ScenarioFacts, InitialStatuses
<1>3. rs \in SUBSET Reference(p)
  <2>1. Ref("parent", p.parent.kind, p.parent.n, 0, 1) \in Reference(p)
    BY <1>1 DEF Ref, Reference, RewrittenFields, Kinds
  <2> QED BY <2>1
<1>4. e = [uid |-> u, kind |-> k, n |-> n, narrow |-> FALSE, slug |-> u,
           parses |-> TRUE, status |-> InitialStatus[k], arch |-> FALSE, area |-> None,
           prio |-> None, prior |-> {}, byCommit |-> FALSE, acs |-> {}, refs |-> rs]
  BY DEF StartFile
<1>5. /\ e.uid = u /\ e.kind = k /\ e.n = n /\ e.slug = u /\ e.status = InitialStatus[k] /\ e.prior = {}
  BY <1>4
<1> HIDE DEF n, k, rs, e
<1>6. InitialStatus[k] \in UNION {Statuses(x) : x \in Kinds} /\ {} \in SUBSET (1..MaxNum) /\ {} \in {{}}
  BY <1>2
<1>7. e \in Shape(p)
  BY <1>1, <1>2, <1>3, <1>4, <1>6 DEF Shape
<1>8. e \in FileOf(p)
  BY <1>2, <1>5, <1>7 DEF FileOf, k
<1> QED BY <1>8 DEF e

LEMMA StartIsSound ==
  ASSUME NEW p \in Scenarios
  PROVE  /\ TreeOK(p, {StartFile(p, u) : u \in 1..p.start})
         /\ Sound({StartFile(p, u) : u \in 1..p.start})
<1> DEFINE fs == {StartFile(p, u) : u \in 1..p.start}
<1>1. p.start \in Nat
  BY ScenarioFacts
<1>2. TreeOK(p, fs)
  <2>1. fs \subseteq FileOf(p)
    BY StartFileOK
  <2>2. OneFileEach(fs)
    BY StartFields DEF OneFileEach
  <2> QED BY <2>1, <2>2 DEF TreeOK
<1>3. IdsDistinct(fs)
  <2> SUFFICES ASSUME NEW u \in 1..p.start, NEW w \in 1..p.start,
                      IdOf(StartFile(p, u)) = IdOf(StartFile(p, w))
               PROVE  u = w
    BY DEF IdsDistinct
  <2>1. p.cast[u] = p.cast[w] /\ StartNumber(p, u) = StartNumber(p, w)
    BY StartFields DEF IdOf
  <2>2. StartNumber(p, u) \in Nat /\ StartNumber(p, w) \in Nat
    BY StartNumbers
  <2>3. ~(u < w) /\ ~(w < u)
    BY <2>1, <2>2, StartNumbers
  <2> QED BY <1>1, <2>3
<1>4. RefsHold(fs)
  <2> SUFFICES ASSUME NEW u \in 1..p.start, NEW r \in StartFile(p, u).refs
               PROVE  \E o \in fs : IdOf(o) = IdOf(r) /\ o.uid = r.means
    BY DEF RefsHold
  <2>1. p.cast[u] = "milestone" /\ r = Ref("parent", p.parent.kind, p.parent.n, 0, 1)
    <3>1. StartFile(p, u).refs = IF p.cast[u] = "milestone"
                                 THEN {Ref("parent", p.parent.kind, p.parent.n, 0, 1)} ELSE {}
      BY DEF StartFile
    <3> QED BY <3>1
  <2>2. p.cast[1] = "epic" /\ p.parent.kind = "epic" /\ p.parent.n = 1
    BY <2>1, ScenarioFacts
  <2>3. 1 <= p.start /\ 1 \in 1..p.start
    BY <1>1
  <2>4. StartFile(p, 1) \in fs /\ StartFile(p, 1).uid = 1 /\ StartFile(p, 1).kind = "epic" /\ StartFile(p, 1).n = 1
    BY <2>2, <2>3, StartFields, StartNumbers
  <2>5. r.kind = "epic" /\ r.n = 1 /\ r.means = 1
    BY <2>1, <2>2 DEF Ref
  <2> QED BY <2>4, <2>5 DEF IdOf
<1> QED BY <1>2, <1>3, <1>4 DEF Sound
-----------------------------------------------------------------------------
(* The invariant holds at the start and no step breaks it.                  *)
LEMMA NoPlans == \A p \in Scenarios : PlansOK(p, <<>>)
<1> SUFFICES ASSUME NEW p \in Scenarios PROVE PlansOK(p, <<>>)
  OBVIOUS
<1> DEFINE W == {w \in FileOf(p) : w.area = None}
<1> HIDE DEF W
<1>1. <<>> \in Seq(W) /\ Len(<<>>) = 0
  BY EmptySeq
<1> QED BY <1>1 DEF PlansOK, W

LEMMA InitInv == Init => Inv
<1> SUFFICES ASSUME Init PROVE Inv
  OBVIOUS
<1>1. play \in Scenarios /\ files = {StartFile(play, u) : u \in 1..play.start} /\ plans = <<>>
  BY DEF Init
<1>2. TreeOK(play, files) /\ Sound(files)
  BY <1>1, StartIsSound
<1>3. YamlOK(play, yaml)
  BY <1>1, ScenarioFacts DEF Init, YamlOK
<1>4. PlansOK(play, plans)
  BY <1>1, NoPlans
<1> QED BY <1>1, <1>2, <1>3, <1>4 DEF Inv, TypeInv, SoundInv, FinalOf

LEMMA WrittenTree ==
  ASSUME NEW p \in Scenarios, NEW fs, TreeOK(p, fs), NEW w \in FileOf(p)
  PROVE  TreeOK(p, Written(fs, w))
BY DEF TreeOK, OneFileEach, Written

LEMMA VerbEnds ==
  ASSUME Ready, UNCHANGED <<play, plans, halted, merged>>, Leads(files'), YamlOK(play, yaml')
  PROVE  Inv'
BY DEF Ready, Leads, Inv, TypeInv, SoundInv, FinalOf

\* The one plan still to come.
LEMMA NextPlan ==
  ASSUME Inv, ImportNext
  PROVE  /\ plans[1] \in FileOf(play) /\ plans[1].area = None
         /\ files' = FinalOf(files, plans) /\ plans' = <<>>
<1> DEFINE W == {w \in FileOf(play) : w.area = None}
<1>1. plans \in Seq(W) /\ Len(plans) <= 1 /\ plans # <<>>
  BY DEF ImportNext, Inv, TypeInv, PlansOK
<1> HIDE DEF W
<1>2. Len(plans) = 1
  <2>1. PICK ps : ps = plans
    OBVIOUS
  <2>2. ps \in Seq(W) /\ Len(ps) <= 1 /\ ps # <<>>
    BY <1>1, <2>1
  <2>3. Len(ps) \in Nat /\ Len(ps) # 0
    BY <2>2, EmptySeq
  <2>4. PICK l : l = Len(ps)
    OBVIOUS
  <2>5. l \in Nat /\ l <= 1 /\ l # 0
    BY <2>2, <2>3, <2>4
  <2>6. l = 1
    BY <2>5
  <2> QED BY <2>1, <2>4, <2>6
<1>3. plans[1] \in W
  BY <1>1, <1>2
<1>4. PICK tail : tail = Tail(plans)
  OBVIOUS
<1>5. tail \in Seq(W) /\ Len(tail) = 0
  <2>1. tail \in Seq(W) /\ Len(tail) = Len(plans) - 1
    BY <1>1, <1>4, HeadTailProperties
  <2> QED BY <1>2, <2>1
<1>6. tail = <<>>
  BY <1>5, EmptySeq
<1> QED BY <1>1, <1>3, <1>4, <1>6 DEF ImportNext, FinalOf, W

\* What an import leaves of the tree it works towards.
LEMMA ImportFinal ==
  ASSUME NEW gs, ImportedAs(gs)
  PROVE  /\ FinalOf(files', plans') = gs
         /\ files' = gs \/ \E w : PlainWrite(w) /\ files' = Written(files, w)
BY DEF ImportedAs, FinalOf

LEMMA NextInv ==
  ASSUME Inv, [Next]_vars
  PROVE  Inv'
<1>1. CASE RewriteStep
  BY <1>1, VerbEnds DEF RewriteStep
<1>2. CASE AddStep
  BY <1>2, VerbEnds DEF AddStep
<1>3. CASE RenumberStep
  <2>1. YamlOK(play, yaml')
    BY <1>3 DEF RenumberStep, Ready, TypeInv
  <2> QED BY <1>3, <2>1, VerbEnds DEF RenumberStep
<1>4. CASE YamlStep
  <2>1. Leads(files')
    BY <1>4 DEF YamlStep, Ready, TypeInv, Leads
  <2> QED BY <1>4, <2>1, VerbEnds DEF YamlStep
<1>5. CASE ImportStep
  <2>1. PICK gs : Leads(gs) /\ ImportedAs(gs)
    BY <1>5 DEF ImportStep
  <2>2. /\ play \in Scenarios /\ TreeOK(play, files) /\ YamlOK(play, yaml) /\ PlansOK(play, plans')
        /\ UNCHANGED <<play, yaml, halted, merged>>
    BY <1>5 DEF ImportStep, Ready, TypeInv
  <2>3. FinalOf(files', plans') = gs
    BY <2>1, ImportFinal
  <2>4. TreeOK(play, files')
    <3>1. CASE files' = gs
      BY <2>1, <3>1 DEF Leads
    <3>2. CASE \E w : PlainWrite(w) /\ files' = Written(files, w)
      BY <2>2, <3>2, WrittenTree DEF PlainWrite
    <3> QED BY <2>1, <3>1, <3>2, ImportFinal
  <2>5. TypeInv'
    BY <2>2, <2>4 DEF TypeInv
  <2>6. SoundInv'
    BY <2>1, <2>2, <2>3 DEF SoundInv, Leads
  <2> QED BY <2>5, <2>6 DEF Inv
<1>6. CASE ImportNext
  <2>1. plans[1] \in FileOf(play) /\ files' = FinalOf(files, plans) /\ plans' = <<>> /\ plans # <<>>
    BY <1>6, NextPlan DEF ImportNext
  <2>2. /\ play \in Scenarios /\ TreeOK(play, files) /\ YamlOK(play, yaml)
        /\ UNCHANGED <<play, yaml, halted, merged>>
    BY <1>6 DEF ImportNext, Inv, TypeInv
  <2>3. TreeOK(play, files')
    BY <2>1, <2>2, WrittenTree DEF FinalOf
  <2>4. PlansOK(play, plans')
    BY <2>1, <2>2, NoPlans
  <2>5. FinalOf(files', plans') = FinalOf(files, plans)
    BY <2>1 DEF FinalOf
  <2> QED BY <2>2, <2>3, <2>4, <2>5 DEF Inv, TypeInv, SoundInv
<1>7. CASE ImportStop
  <2>1. plans' = <<>> /\ halted' = TRUE /\ UNCHANGED <<play, files, yaml>> /\ play \in Scenarios
    BY <1>7 DEF ImportStop, Inv, TypeInv
  <2>2. PlansOK(play, plans')
    BY <2>1, NoPlans
  <2> QED BY <2>1, <2>2 DEF Inv, TypeInv, SoundInv
<1>8. CASE MergeStep
  BY <1>8 DEF MergeStep, Ready, Inv, TypeInv, SoundInv
<1>9. CASE Stutter
  BY <1>9 DEF Stutter, Inv, TypeInv, SoundInv
<1> QED BY <1>1, <1>2, <1>3, <1>4, <1>5, <1>6, <1>7, <1>8, <1>9, StepKinds

LEMMA Invariance == Spec => []Inv
<1>1. Inv /\ [Next]_vars => Inv'
  BY NextInv
<1> QED BY <1>1, InitInv, PTL DEF Spec

-----------------------------------------------------------------------------
(* Every file is a well-formed record, one per uid, with a status its kind  *)
(* has, and every binding runs a validator the scenario offers, whatever    *)
(* verbs ran, were refused or stopped half way (internal/verb).             *)
THEOREM TypeCorrect == Spec => []TypeOK
<1>1. ASSUME Inv PROVE TypeOK
  <2>1. /\ play \in Scenarios /\ files \subseteq FileOf(play) /\ OneFileEach(files) /\ YamlOK(play, yaml)
    BY <1>1 DEF Inv, TypeInv, TreeOK
  <2>2. Reference(play) \subseteq
          [field : RewrittenFields \cup {"linked_adrs"}, kind : Kinds, n : 1..MaxNum, ac : Nat,
           means : Uids \cup {0}]
    BY DEF Reference, Uids
  <2>3. Shape(play) \subseteq FileType
    BY <2>2 DEF Shape, FileType, Uids
  <2>4. files \in SUBSET FileType
    BY <2>1, <2>3, ShapeOf
  <2>5. \A e \in files : e.status \in Statuses(e.kind) /\ e.kind = play.cast[e.uid]
    BY <2>1, FileFacts
  <2>6. yaml.areas \subseteq play.names /\ yaml.validators \subseteq play.tools
    BY <2>1 DEF YamlOK
  <2>7. \A b \in yaml.bindings : b.n \in 1..MaxNum /\ b.validator \in play.tools
    BY <2>1 DEF YamlOK, Binding
  <2> QED BY <2>1, <2>4, <2>5, <2>6, <2>7 DEF TypeOK, OneFileEach
<1> QED BY <1>1, Invariance, PTL

(* As long as no merge brought a collision, ids are one entity's each and a *)
(* reference of a live file names the entity it was made for, through       *)
(* renumbering, sweeps, resolutions and imports (verb.Reallocate,           *)
(* projectionFindings).                                                     *)
THEOREM ReferencesKeepTheirReferent == Spec => []RefsKeepTheirReferent
<1>1. ASSUME Inv PROVE RefsKeepTheirReferent
  <2> SUFFICES ASSUME merged = {}, Whole
               PROVE  /\ \A e, o \in files : e # o => IdOf(e) # IdOf(o)
                      /\ \A e \in files : ~e.arch =>
                           \A r \in e.refs : r.means # 0 /\ Designated(files, IdOf(r)) = r.means
    BY DEF RefsKeepTheirReferent
  <2>1. play \in Scenarios /\ TreeOK(play, files) /\ Sound(files)
    BY <1>1 DEF Inv, TypeInv, SoundInv, FinalOf, Whole
  <2>2. \A e, o \in files : e # o => IdOf(e) # IdOf(o)
    BY <2>1 DEF Sound, IdsDistinct
  <2>3. ASSUME NEW e \in files, ~e.arch, NEW r \in e.refs
        PROVE  r.means # 0 /\ Designated(files, IdOf(r)) = r.means
    <3>1. PICK o \in files : IdOf(o) = IdOf(r) /\ o.uid = r.means
      BY <2>1, <2>3 DEF Sound, RefsHold
    <3>2. Designated(files, IdOf(o)) = o.uid
      BY <2>1, LookupUnique DEF Sound
    <3>3. o.uid >= 1 /\ o.uid \in Nat
      BY <2>1, UidFacts DEF TreeOK
    <3> QED BY <3>1, <3>2, <3>3
  <2> QED BY <2>2, <2>3
<1> QED BY <1>1, Invariance, PTL
-----------------------------------------------------------------------------
(* Only add calls itself add.                                               *)
LEMMA OnlyAddAdds ==
  ASSUME Inv, Next, step' = "add"
  PROVE  AddStep
<1>1. ~\E id \in IDs : \E to \in Statuses(id.kind), force \in BOOLEAN :
         \E o \in FlagsFor(id.kind, to) : Promote(id, to, o, force)
  BY DEF Promote, Commit
<1>2. ~\E id \in IDs : Cancel(id)
  BY DEF Cancel, Commit
<1>3. ~\E id \in IDs : \E deps \in SUBSET OfKind("milestone") : MilestoneDependsOn(id, deps)
  BY DEF MilestoneDependsOn, Commit
<1>4. ~\E id \in IDs, v \in yaml.areas \cup {AreaGlobal, None} : SetArea(id, v)
  BY DEF SetArea, Commit
<1>5. ~\E old, new \in play.names : RenameArea(old, new)
  BY DEF RenameArea, Commit
<1>6. ~\E id \in IDs, level \in Levels \cup {None} : SetPriority(id, level)
  BY DEF SetPriority, Commit
<1>7. ~ArchiveSweep
  BY DEF ArchiveSweep, Commit
<1>8. ~\E e \in files : Reallocate(e)
  BY DEF Reallocate, Commit
<1>9. ~\E id \in IDs, v \in yaml.validators, force \in BOOLEAN : ContractBind(id, v, force)
  BY DEF ContractBind, CommitYaml
<1>10. ~\E n \in 1..MaxNum : ContractUnbind(n)
  BY DEF ContractUnbind, CommitYaml
<1>11. ~\E v \in play.tools : RecipeInstall(v) \/ RecipeRemove(v)
  BY DEF RecipeInstall, RecipeRemove, CommitYaml
<1>12. ~\E m \in Manifests, onCollision \in {"fail", "skip", "update"}, perEntity \in BOOLEAN :
          Import(m, onCollision, perEntity)
  BY DEF Import
<1>13. ~ImportNext /\ ~ImportStop
  BY DEF ImportNext, ImportStop
<1>14. ~\E u \in FreshUids, n \in 1..MaxNum : \E refs \in RefFlags(play.cast[u]) : MergeIn(u, n, refs)
  BY DEF MergeIn, Commit
<1>15. \E u \in FreshUids : \E refs \in RefFlags(play.cast[u]), v \in yaml.validators \cup {None} : Add(u, refs, v)
  BY <1>1, <1>2, <1>3, <1>4, <1>5, <1>6, <1>7, <1>8, <1>9, <1>10, <1>11, <1>12, <1>13, <1>14 DEF Next
<1> QED BY <1>15, AddIsAdd

(* A number a renumbered entity gave up, or one in use, is never handed out *)
(* again: what add allocates is above both (entity.AllocateID,              *)
(* verb.Reallocate's prior_ids).                                            *)
THEOREM NumbersAreNotReused == Spec => PriorIDsStayRetired
<1> DEFINE A == \A e \in files' : (\A o \in files : o.uid # e.uid) /\ step' = "add" =>
                   \A o \in files : o.kind = e.kind => e.n \notin o.prior \cup {o.n}
<1>1. ASSUME Inv, [Next]_vars PROVE [A]_vars
  <2> SUFFICES ASSUME Next, NEW e \in files', \A o \in files : o.uid # e.uid, step' = "add",
                      NEW o \in files, o.kind = e.kind
               PROVE  e.n \notin o.prior \cup {o.n}
    BY <1>1
  <2>1. PICK u, v, w : Added(u, v, w)
    BY <1>1, OnlyAddAdds DEF AddStep
  <2>2. e = w
    BY <2>1 DEF Added
  <2>3. o.n < e.n /\ play \in Scenarios /\ o \in FileOf(play) /\ e \in FileOf(play)
    BY <1>1, <2>1, <2>2 DEF Added, Inv, TypeInv, TreeOK
  <2>4. \A m \in o.prior : m \in Nat /\ m < o.n
    <3>1. o.prior \subseteq 1..MaxNum /\ \A m \in o.prior : m < o.n
      BY <2>3, FileFacts
    <3> QED BY <3>1, ScenarioFacts
  <2>5. o.n \in Nat /\ e.n \in Nat
    BY <2>3, NumberFacts
  <2> QED BY <2>3, <2>4, <2>5
<1>2. PriorIDsStayRetired <=> [][A]_vars
  BY DEF PriorIDsStayRetired
<1> HIDE DEF A
<1> QED BY <1>1, <1>2, Invariance, PTL DEF Spec

-----------------------------------------------------------------------------
(* What aiwf.yaml says.  An area a file carries is a member of the list or  *)
(* the global one; written files carry none.                                *)
LEMMA AreasStayDeclared ==
  ASSUME Inv, [Next]_vars, AreasDeclared
  PROVE  AreasDeclared'
<1> DEFINE Valid(fs) == \A e \in fs : AreaValid(e.area, yaml.areas)
<1>1. Valid(files)
  BY DEF AreasDeclared, AreaValid
<1>2. \A w : w.area = None => AreaValid(w.area, yaml.areas)
  BY DEF AreaValid
<1>3. CASE RewriteStep
  BY <1>3 DEF RewriteStep, AreasDeclared, AreaValid
<1>4. CASE AddStep
  <2>1. PICK u, v, w : Added(u, v, w)
    BY <1>4 DEF AddStep
  <2>2. yaml'.areas = yaml.areas
    <3>1. YamlOK(play, yaml)
      BY DEF Inv, TypeInv
    <3> QED BY <2>1, <3>1 DEF Added, YamlOK
  <2>3. \A e \in files' : e.area = None \/ e \in files
    BY <2>1 DEF Added
  <2> QED BY <1>1, <2>2, <2>3 DEF AreasDeclared, AreaValid
<1>5. CASE RenumberStep
  BY <1>5, SameAreasStayValid DEF RenumberStep, AreasDeclared, AreaValid
<1>6. CASE YamlStep
  BY <1>1, <1>6 DEF YamlStep, AreasDeclared, AreaValid
<1>7. CASE ImportStep
  <2>1. \A e \in files' : e.area = None \/ e \in files
    BY <1>7, ImportFinal DEF ImportStep, ImportedAs, PlainWrite, Written
  <2> QED BY <1>1, <1>7, <2>1 DEF ImportStep, AreasDeclared, AreaValid
<1>8. CASE ImportNext
  <2>1. \A e \in files' : e.area = None \/ e \in files
    BY <1>8, NextPlan DEF ImportNext, Written
  <2> QED BY <1>1, <1>8, <2>1 DEF ImportNext, AreasDeclared, AreaValid
<1>9. CASE ImportStop
  BY <1>9 DEF ImportStop, AreasDeclared
<1>10. CASE MergeStep
  <2>1. \A e \in files' : e.area = None \/ e \in files
    BY <1>10 DEF MergeStep
  <2> QED BY <1>1, <1>10, <2>1 DEF MergeStep, AreasDeclared, AreaValid
<1>11. CASE Stutter
  BY <1>11 DEF Stutter, AreasDeclared
<1> QED BY <1>3, <1>4, <1>5, <1>6, <1>7, <1>8, <1>9, <1>10, <1>11, StepKinds
(* A binding holds in a tree that has its contract, still with the number   *)
(* it was bound by unless it was renumbered.  An update by import writes    *)
(* the frontmatter afresh, prior_ids too, so a renumbered contract it       *)
(* updates no longer shows that it was: Apart says that no scenario binds,  *)
(* renumbers and imports.                                                   *)
Apart == \A s \in Scenarios : ~({"import", "contract", "reallocate"} \subseteq s.verbs)

Held(b, fs) == \E e \in fs : e.uid = b.means /\ e.kind = "contract" /\ (e.prior = {} => e.n = b.n)
NoPrior(fs) == \A e \in fs : e.prior = {}
TreesHold(bs, fs) ==
  /\ "reallocate" \notin play.verbs => NoPrior(fs)
  /\ \A b \in bs : Held(b, fs)
BindInv ==
  /\ Validated(yaml)
  /\ "contract" \notin play.verbs => yaml.validators = {} /\ yaml.bindings = {}
  /\ TreesHold(yaml.bindings, files) /\ TreesHold(yaml.bindings, FinalOf(files, plans))

LEMMA HeldInPlace ==
  ASSUME NEW fs, NEW gs, InPlace(gs, fs), NEW bs, TreesHold(bs, fs)
  PROVE  TreesHold(bs, gs)
<1>1. NoPrior(fs) => NoPrior(gs)
  BY DEF InPlace, Kin, NoPrior
<1>2. ASSUME NEW b, Held(b, fs) PROVE Held(b, gs)
  <2>1. PICK e \in fs : e.uid = b.means /\ e.kind = "contract" /\ (e.prior = {} => e.n = b.n)
    BY <1>2 DEF Held
  <2>2. PICK x \in gs : Kin(x, e)
    BY DEF InPlace
  <2> QED BY <2>1, <2>2 DEF Kin, Held
<1> QED BY <1>1, <1>2 DEF TreesHold

LEMMA HeldWithMore ==
  ASSUME NEW fs, NEW w, w.prior = {}, NEW bs, TreesHold(bs, fs)
  PROVE  TreesHold(bs, fs \cup {w})
<1>1. NoPrior(fs) => NoPrior(fs \cup {w})
  BY DEF NoPrior
<1>2. \A b : Held(b, fs) => Held(b, fs \cup {w})
  BY DEF Held
<1> QED BY <1>1, <1>2 DEF TreesHold

\* Without renumbering, a write of the same id keeps what is held.
LEMMA HeldWritten ==
  ASSUME NEW fs, NEW w, w.prior = {}, \A e \in fs : e.uid = w.uid => IdOf(e) = IdOf(w),
         NEW bs, TreesHold(bs, fs), "reallocate" \notin play.verbs \/ bs = {}
  PROVE  TreesHold(bs, Written(fs, w))
<1>1. NoPrior(fs) => NoPrior(Written(fs, w))
  BY DEF NoPrior, Written
<1>2. ASSUME NEW b, Held(b, fs), NoPrior(fs) PROVE Held(b, Written(fs, w))
  <2>1. PICK e \in fs : e.uid = b.means /\ e.kind = "contract" /\ e.n = b.n
    BY <1>2 DEF Held, NoPrior
  <2>2. CASE e.uid = w.uid
    <3>1. w.uid = b.means /\ w.kind = "contract" /\ w.n = b.n
      BY <2>1, <2>2 DEF IdOf
    <3> QED BY <3>1 DEF Held, Written
  <2>3. CASE e.uid # w.uid
    BY <2>1, <2>3 DEF Held, Written
  <2> QED BY <2>2, <2>3
<1> QED BY <1>1, <1>2 DEF TreesHold

LEMMA BindInit == Init => BindInv
<1> SUFFICES ASSUME Init PROVE BindInv
  OBVIOUS
<1>1. yaml.validators = {} /\ yaml.bindings = {} /\ plans = <<>>
  BY DEF Init
<1>2. NoPrior(files)
  BY StartFields DEF Init, NoPrior
<1> QED BY <1>1, <1>2 DEF BindInv, Validated, TreesHold, FinalOf

\* What a verb leaves when no import is under way.
LEMMA VerbBinds ==
  ASSUME Ready, UNCHANGED <<play, plans>>, TreesHold(yaml'.bindings, files'),
         Validated(yaml'), "contract" \notin play.verbs => yaml'.validators = {} /\ yaml'.bindings = {}
  PROVE  BindInv'
BY DEF Ready, BindInv, FinalOf, TreesHold

LEMMA BindNext ==
  ASSUME Apart, Inv, BindInv, [Next]_vars
  PROVE  BindInv'
<1>1. CASE RewriteStep
  <2>1. Ready /\ UNCHANGED <<play, plans>> /\ InPlace(files', files)
    BY <1>1 DEF RewriteStep
  <2>2. yaml'.validators = yaml.validators /\ yaml'.bindings = yaml.bindings
    BY <1>1 DEF RewriteStep
  <2>3. TreesHold(yaml.bindings, files')
    BY <2>1, HeldInPlace DEF BindInv
  <2> QED BY <2>1, <2>2, <2>3, VerbBinds DEF BindInv, Validated
<1>2. CASE AddStep
  <2>1. PICK u, v, w : Added(u, v, w)
    BY <1>2 DEF AddStep
  <2>2. Ready /\ UNCHANGED <<play, plans>> /\ YamlOK(play, yaml)
    BY <1>2 DEF AddStep, Ready, TypeInv
  <2>3. TreesHold(yaml.bindings, files')
    BY <2>1, HeldWithMore DEF BindInv, Added
  <2>4. CASE yaml' = yaml
    BY <2>2, <2>3, <2>4, VerbBinds DEF BindInv
  <2>5. CASE /\ w.kind = "contract" /\ v \in yaml.validators
             /\ yaml' = [yaml EXCEPT !.bindings =
                            yaml.bindings \cup {[n |-> w.n, validator |-> v, means |-> u]}]
    <3> DEFINE new == [n |-> w.n, validator |-> v, means |-> u]
    <3>1. yaml'.validators = yaml.validators /\ yaml'.bindings = yaml.bindings \cup {new}
      BY <2>2, <2>5 DEF YamlOK
    <3>2. new.n = w.n /\ new.validator = v /\ new.means = u
      OBVIOUS
    <3> HIDE DEF new
    <3>3. Held(new, files')
      BY <2>1, <2>5, <3>2 DEF Added, Held
    <3>4. TreesHold(yaml'.bindings, files')
      BY <2>3, <3>1, <3>3 DEF TreesHold
    <3>5. Validated(yaml')
      BY <2>5, <3>1, <3>2 DEF BindInv, Validated
    <3>6. "contract" \in play.verbs
      BY <2>5 DEF BindInv
    <3> QED BY <2>2, <3>4, <3>5, <3>6, VerbBinds
  <2> QED BY <2>1, <2>4, <2>5 DEF Added
<1>3. CASE RenumberStep
  <2>1. Ready /\ UNCHANGED <<play, yaml, plans>> /\ "reallocate" \in play.verbs /\ Renumbers
    BY <1>3 DEF RenumberStep
  <2>2. ASSUME NEW b \in yaml.bindings PROVE Held(b, files')
    <3>1. PICK e \in files : e.uid = b.means /\ e.kind = "contract" /\ (e.prior = {} => e.n = b.n)
      BY DEF BindInv, TreesHold, Held
    <3>2. PICK x \in files' : /\ x.uid = e.uid /\ x.kind = e.kind
                              /\ (x.prior = {} => e.prior = {} /\ x.n = e.n)
      BY <2>1 DEF Renumbers
    <3> QED BY <3>1, <3>2 DEF Held
  <2>3. TreesHold(yaml.bindings, files')
    BY <2>1, <2>2 DEF TreesHold
  <2> QED BY <2>1, <2>3, VerbBinds DEF BindInv
<1>4. CASE YamlStep
  <2>1. Ready /\ UNCHANGED <<play, files, plans>> /\ "contract" \in play.verbs /\ Validated(yaml')
    BY <1>4 DEF YamlStep, BindInv
  <2>2. ASSUME NEW b \in yaml'.bindings PROVE Held(b, files)
    <3>1. b \in yaml.bindings \/ Sourced(b)
      BY <1>4 DEF YamlStep
    <3> QED BY <3>1 DEF BindInv, TreesHold, Sourced, Held
  <2>3. TreesHold(yaml'.bindings, files')
    BY <2>1, <2>2 DEF BindInv, TreesHold
  <2> QED BY <2>1, <2>3, VerbBinds
<1>5. CASE ImportStep
  <2>1. PICK gs : ImportedAs(gs)
    BY <1>5 DEF ImportStep
  <2>2. UNCHANGED <<play, yaml>> /\ play \in Scenarios /\ "import" \in play.verbs
    BY <1>5 DEF ImportStep, Ready, TypeInv
  <2>3. "reallocate" \notin play.verbs \/ yaml.bindings = {}
    BY <2>2 DEF Apart, BindInv
  <2>4. ASSUME NEW w, PlainWrite(w) PROVE TreesHold(yaml.bindings, Written(files, w))
    BY <2>3, <2>4, HeldWritten DEF PlainWrite, BindInv
  <2>5. ASSUME NEW w1, NEW w2, PlainWrite(w1), PlainWrite(w2), w1.uid # w2.uid
        PROVE  TreesHold(yaml.bindings, Written(Written(files, w1), w2))
    <3>1. \A e \in Written(files, w1) : e.uid = w2.uid => IdOf(e) = IdOf(w2)
      BY <2>5 DEF Written, PlainWrite
    <3>2. w2.prior = {} /\ TreesHold(yaml.bindings, Written(files, w1))
      BY <2>4, <2>5 DEF PlainWrite
    <3> QED BY <2>3, <3>1, <3>2, HeldWritten
  <2>6. TreesHold(yaml.bindings, gs)
    BY <2>1, <2>4, <2>5 DEF ImportedAs
  <2>7. FinalOf(files', plans') = gs /\ (files' = gs \/ \E w : PlainWrite(w) /\ files' = Written(files, w))
    BY <2>1, ImportFinal
  <2>8. TreesHold(yaml.bindings, files')
    BY <2>4, <2>6, <2>7
  <2> QED BY <2>2, <2>6, <2>7, <2>8 DEF BindInv, TreesHold
<1>6. CASE ImportNext
  <2>1. files' = FinalOf(files, plans) /\ plans' = <<>> /\ UNCHANGED <<play, yaml>>
    BY <1>6, NextPlan DEF ImportNext
  <2>2. FinalOf(files', plans') = files'
    BY <2>1 DEF FinalOf
  <2> QED BY <2>1, <2>2 DEF BindInv, TreesHold
<1>7. CASE ImportStop
  <2>1. plans' = <<>> /\ UNCHANGED <<play, files, yaml>>
    BY <1>7 DEF ImportStop
  <2>2. FinalOf(files', plans') = files
    BY <2>1 DEF FinalOf
  <2> QED BY <2>1, <2>2 DEF BindInv, TreesHold
<1>8. CASE MergeStep
  <2>1. Ready /\ UNCHANGED <<play, yaml, plans>>
    BY <1>8 DEF MergeStep
  <2>2. PICK w : files' = files \cup {w} /\ w.prior = {}
    BY <1>8 DEF MergeStep
  <2>3. TreesHold(yaml.bindings, files')
    BY <2>2, HeldWithMore DEF BindInv
  <2> QED BY <2>1, <2>3, VerbBinds DEF BindInv
<1>9. CASE Stutter
  BY <1>9 DEF Stutter, BindInv, TreesHold
<1> QED BY <1>1, <1>2, <1>3, <1>4, <1>5, <1>6, <1>7, <1>8, <1>9, StepKinds

(* aiwf.yaml and the tree agree: every binding runs a declared validator    *)
(* and names the contract it was made for until that one is renumbered, and *)
(* every area a file carries is declared, whatever the verbs did in between *)
(* (RecipeRemove, atomicContractBind, contractMutationGate, RenameArea), in *)
(* every scenario that does not bind, renumber and import contracts.        *)
THEOREM YamlAgreesWithTheTree == Apart => (Spec => []ConfigurationAgrees)
<1>1. Init => AreasDeclared
  <2>1. ASSUME Init, NEW e \in files PROVE e.area = None
    BY <2>1, StartFields DEF Init
  <2> QED BY <2>1 DEF AreasDeclared
<1>2. ASSUME Inv, BindInv PROVE BindingsHold
  <2>1. play \in Scenarios /\ TreeOK(play, files) /\ Validated(yaml)
    BY <1>2 DEF Inv, TypeInv, BindInv
  <2>2. ASSUME NEW b \in yaml.bindings, merged = {}, Whole, \A e \in files : e.uid = b.means => e.prior = {}
        PROVE  Designated(files, [kind |-> "contract", n |-> b.n]) = b.means
    <3>1. PICK e \in files : e.uid = b.means /\ e.kind = "contract" /\ e.n = b.n
      BY <1>2, <2>2 DEF BindInv, TreesHold, Held
    <3>2. Sound(files)
      BY <1>2, <2>2 DEF Inv, SoundInv, FinalOf, Whole
    <3>3. Designated(files, IdOf(e)) = e.uid
      BY <2>1, <3>2, LookupUnique DEF Sound
    <3> QED BY <3>1, <3>3 DEF IdOf
  <2> QED BY <2>1, <2>2 DEF BindingsHold, Validated
<1>3. ASSUME Apart PROVE BindInv /\ Inv /\ [Next]_vars => BindInv'
  BY <1>3, BindNext
<1>4. AreasDeclared /\ Inv /\ [Next]_vars => AreasDeclared'
  BY AreasStayDeclared
<1>5. BindInv /\ Inv /\ AreasDeclared => ConfigurationAgrees
  BY <1>2 DEF ConfigurationAgrees
<1> SUFFICES ASSUME Apart PROVE Spec => []ConfigurationAgrees
  OBVIOUS
<1>6. BindInv /\ Inv /\ [Next]_vars => BindInv'
  BY <1>3
<1> QED BY <1>1, <1>4, <1>5, <1>6, BindInit, Invariance, PTL DEF Spec
-----------------------------------------------------------------------------
(* The table of legal requests.  Only promote and cancel call themselves so.*)
LEMMA OnlyTheyAnswer ==
  ASSUME Next, step' \in {"promote", "cancel"}
  PROVE  \/ /\ step' = "promote"
            /\ \E id \in IDs : \E to \in Statuses(id.kind), force \in BOOLEAN :
                 \E o \in FlagsFor(id.kind, to) : Promote(id, to, o, force)
         \/ step' = "cancel" /\ \E id \in IDs : Cancel(id)
<1>1. ~\E u \in FreshUids : \E refs \in RefFlags(play.cast[u]), v \in yaml.validators \cup {None} : Add(u, refs, v)
  BY DEF Add, Commit
<1>2. (\E id \in IDs : \E to \in Statuses(id.kind), force \in BOOLEAN :
         \E o \in FlagsFor(id.kind, to) : Promote(id, to, o, force)) => step' = "promote"
  BY DEF Promote, Commit
<1>3. (\E id \in IDs : Cancel(id)) => step' = "cancel"
  BY DEF Cancel, Commit
<1>4. ~\E id \in IDs : \E deps \in SUBSET OfKind("milestone") : MilestoneDependsOn(id, deps)
  BY DEF MilestoneDependsOn, Commit
<1>5. ~\E id \in IDs, v \in yaml.areas \cup {AreaGlobal, None} : SetArea(id, v)
  BY DEF SetArea, Commit
<1>6. ~\E old, new \in play.names : RenameArea(old, new)
  BY DEF RenameArea, Commit
<1>7. ~\E id \in IDs, level \in Levels \cup {None} : SetPriority(id, level)
  BY DEF SetPriority, Commit
<1>8. ~ArchiveSweep
  BY DEF ArchiveSweep, Commit
<1>9. ~\E e \in files : Reallocate(e)
  BY DEF Reallocate, Commit
<1>10. ~\E id \in IDs, v \in yaml.validators, force \in BOOLEAN : ContractBind(id, v, force)
  BY DEF ContractBind, CommitYaml
<1>11. ~\E n \in 1..MaxNum : ContractUnbind(n)
  BY DEF ContractUnbind, CommitYaml
<1>12. ~\E v \in play.tools : RecipeInstall(v) \/ RecipeRemove(v)
  BY DEF RecipeInstall, RecipeRemove, CommitYaml
<1>13. ~\E m \in Manifests, onCollision \in {"fail", "skip", "update"}, perEntity \in BOOLEAN :
          Import(m, onCollision, perEntity)
  BY DEF Import
<1>14. ~ImportNext /\ ~ImportStop
  BY DEF ImportNext, ImportStop
<1>15. ~\E u \in FreshUids, n \in 1..MaxNum : \E refs \in RefFlags(play.cast[u]) : MergeIn(u, n, refs)
  BY DEF MergeIn, Commit
<1> QED BY <1>1, <1>2, <1>3, <1>4, <1>5, <1>6, <1>7, <1>8, <1>9, <1>10, <1>11, <1>12, <1>13, <1>14, <1>15 DEF Next

(* A change of status the FSM allows is in the table, once a resolution has *)
(* its resolver and a cancellation its own target.                          *)
LEMMA FileRequests ==
  ASSUME NEW p \in Scenarios, NEW e \in FileOf(p), e.kind # "epic", NEW y,
         NEW verb \in {"promote", "cancel"}, ValidateTransition(e.kind, e.status, y.status),
         verb = "cancel" => y.status = CancelTarget(e.kind, e.status) /\ y.status # None,
         verb = "promote" /\ e.kind = "gap" /\ y.status = "addressed" => HasResolver(y),
         verb = "promote" /\ e.kind = "adr" /\ y.status = "superseded" => Targets(y, "superseded_by") # {}
  PROVE  MayEnd(e.kind, e.status, verb, y.status, FileContext(y), "Legal")
<1> DEFINE c == FileContext(y)
<1>1. /\ c.acs = {} /\ c.superseded_by = Targets(y, "superseded_by")
      /\ HasResolver(y) => c.addressed_by # {}
  BY DEF FileContext, NoContext
<1>2. e.kind \in {"milestone", "adr", "decision", "gap", "contract"} /\ e.status \in Statuses(e.kind)
  BY FileFacts DEF Kinds
<1> HIDE DEF c
<1>3. CASE e.kind = "milestone"
  <2>1. verb = "cancel" => y.status = "cancelled"
    BY <1>3 DEF CancelTarget
  <2>2. \A s \in c.acs : s # "open"
    BY <1>1
  <2>3. MayEnd("milestone", e.status, verb, y.status, c, "Legal")
    BY <1>2, <1>3, <2>1, <2>2, MilestoneRequests
  <2> QED BY <1>3, <2>3 DEF c
<1>4. CASE e.kind \in {"adr", "decision"}
  <2>1. verb = "cancel" => e.status = "proposed" /\ y.status = "rejected"
    BY <1>4 DEF CancelTarget
  <2>2. e.kind = "adr" /\ y.status = "superseded" => c.superseded_by # {}
    BY <1>1, <2>1
  <2>3. MayEnd(e.kind, e.status, verb, y.status, c, "Legal")
    BY <1>2, <1>4, <2>1, <2>2, RulingRequests
  <2> QED BY <2>3 DEF c
<1>5. CASE e.kind = "gap"
  <2>1. verb = "cancel" => y.status = "wontfix"
    BY <1>5 DEF CancelTarget
  <2>2. y.status = "addressed" => c.addressed_by # {}
    BY <1>1, <1>5, <2>1
  <2>3. MayEnd("gap", e.status, verb, y.status, c, "Legal")
    BY <1>2, <1>5, <2>1, <2>2, GapRequests
  <2> QED BY <1>5, <2>3 DEF c
<1>6. CASE e.kind = "contract"
  <2>1. MayEnd("contract", e.status, verb, y.status, c, "Legal")
    BY <1>2, <1>6, ContractRequests
  <2> QED BY <1>6, <2>1 DEF c
<1> QED BY <1>2, <1>3, <1>4, <1>5, <1>6

(* What the resolver flags leave in the file.                               *)
LEMMA FlagsResolve ==
  ASSUME NEW k, NEW to, NEW o \in FlagsFor(k, to), isResolutionClass(k, to), HasFlag(o),
         NEW p \in Scenarios, NEW moved \in FileOf(p)
  PROVE  LET new == applyResolverFlags(moved, o) IN
         /\ k = "gap" => HasResolver(new)
         /\ k = "adr" => Targets(new, "superseded_by") # {}
<1> DEFINE new == applyResolverFlags(moved, o)
           replaced == {r \in moved.refs : \/ r.field = "addressed_by" /\ o.by # {}
                                           \/ r.field = "superseded_by" /\ o.sup # {}}
           rs == (moved.refs \ replaced) \cup o.by \cup o.sup
<1>1. new = [moved EXCEPT !.refs = rs, !.byCommit = moved.byCommit \/ o.commit]
  BY DEF applyResolverFlags
<1>2. \A f, ids : \A b \in OptionalRef(f, ids) : b # {} => \E r \in b : r.field = f
  BY DEF OptionalRef, RefTo, Ref
<1>3. moved \in Shape(p)
  BY ShapeOf
<1>4. o.by \cup o.sup \subseteq rs
  OBVIOUS
<1> HIDE DEF rs
<1>5. new.refs = rs /\ new.byCommit = (moved.byCommit \/ o.commit)
  BY <1>1, <1>3 DEF Shape
<1> HIDE DEF new
<1>6. CASE k = "gap"
  <2>1. PICK b \in OptionalRef("addressed_by", AllIDs), c \in BOOLEAN : o = [by |-> b, commit |-> c, sup |-> {}]
    BY <1>6 DEF FlagsFor, isResolutionClass
  <2>2. o.by # {} \/ o.commit = TRUE
    BY <2>1 DEF HasFlag, NoFlags
  <2>3. ASSUME o.by # {} PROVE HasResolver(new)
    <3>1. PICK r \in o.by : r.field = "addressed_by"
      BY <1>2, <2>1, <2>3
    <3>2. r \in new.refs
      BY <1>4, <1>5
    <3>3. Targets(new, "addressed_by") # {}
      BY <3>1, <3>2 DEF Targets
    <3> QED BY <3>3 DEF HasResolver
  <2>4. ASSUME o.commit = TRUE PROVE HasResolver(new)
    <3>1. new.byCommit
      BY <1>5, <2>4, Zenon
    <3> QED BY <3>1, Zenon DEF HasResolver
  <2> QED BY <1>6, <2>2, <2>3, <2>4 DEF new
<1>7. CASE k = "adr"
  <2>1. PICK s \in OptionalRef("superseded_by", OfKind("adr")) : o = [NoFlags EXCEPT !.sup = s]
    BY <1>7 DEF FlagsFor, isResolutionClass
  <2>2. o.sup = s /\ s # {}
    BY <2>1 DEF HasFlag, NoFlags
  <2>3. Targets(new, "superseded_by") # {}
    BY <1>2, <1>4, <1>5, <2>1, <2>2 DEF Targets
  <2> QED BY <1>7, <2>3 DEF new
<1> QED BY <1>6, <1>7 DEF isResolutionClass

LEMMA PromoteKeeps ==
  ASSUME Ready, NEW id \in IDs, NEW to \in Statuses(id.kind), NEW force \in BOOLEAN,
         NEW o \in FlagsFor(id.kind, to), Promote(id, to, o, force),
         NEW x \in files, NEW y \in files', x.uid = y.uid, x.status # y.status, x.uid \notin waived'
  PROVE  MayEnd(x.kind, x.status, "promote", y.status, FileContext(y), "Legal")
<1> DEFINE e == ByID(T, id)
           moved == [e EXCEPT !.status = to]
           new == applyResolverFlags(moved, o)
           backs == Reciprocal(files, e, o)
<1>1. /\ e \in files /\ play \in Scenarios /\ OneFileEach(files) /\ files \subseteq FileOf(play)
      /\ e.kind = id.kind
  BY HeldID DEF Ready, TypeInv, TreeOK
<1>2. /\ files' = ((files \ {e}) \ backs) \cup {new} \cup {BackLinked(b, e) : b \in backs}
      /\ e.kind # "epic"
      /\ force => waived' = waived \cup {e.uid}
      /\ force \/ (e.status = to /\ isResolutionClass(e.kind, to) /\ needsResolverBackfill(e, o))
               \/ ValidateTransition(e.kind, e.status, to)
      /\ force \/ requireResolver(e.kind, to, o)
  BY DEF Promote, Commit
<1>3. backs \subseteq files
  BY DEF Reciprocal
<1> HIDE DEF e
<1>4. moved \in FileOf(play) /\ moved.uid = e.uid /\ moved.status = to
  BY <1>1, StatusUpdate DEF Kin
<1>5. isResolutionClass(e.kind, to) /\ HasFlag(o) =>
         /\ e.kind = "gap" => HasResolver(new)
         /\ e.kind = "adr" => Targets(new, "superseded_by") # {}
  BY <1>1, <1>4, FlagsResolve
<1>6. new.uid = e.uid /\ new.status = to
  <2>1. moved \in Shape(play)
    BY <1>4, ShapeOf
  <2> QED BY <1>4, <2>1 DEF applyResolverFlags, Shape
<1> HIDE DEF new, moved, backs
<1>7. ASSUME NEW b \in backs PROVE BackLinked(b, e).uid = b.uid /\ BackLinked(b, e).status = b.status
  <2>1. b \in Shape(play)
    BY <1>1, <1>3, ShapeOf
  <2> QED BY <2>1 DEF BackLinked, Shape
<1>8. y = new /\ x = e
  <2>1. y \notin files
    BY <1>1 DEF OneFileEach
  <2>2. ~\E b \in backs : y = BackLinked(b, e)
    BY <1>1, <1>3, <1>7 DEF OneFileEach
  <2>3. y = new
    BY <1>2, <2>1, <2>2
  <2> QED BY <1>1, <1>6, <2>3 DEF OneFileEach
<1>9. ValidateTransition(e.kind, e.status, y.status) /\ requireResolver(e.kind, y.status, o)
  BY <1>2, <1>6, <1>8
<1>10. /\ e.kind = "gap" /\ y.status = "addressed" => HasResolver(y)
       /\ e.kind = "adr" /\ y.status = "superseded" => Targets(y, "superseded_by") # {}
  BY <1>5, <1>6, <1>8, <1>9 DEF requireResolver, isResolutionClass
<1> QED BY <1>1, <1>2, <1>8, <1>9, <1>10, FileRequests

\* What cancel does is a move of the FSM, for a file that is not terminal.
LEMMA CancelIsAMove ==
  ASSUME NEW k \in Kinds, NEW from \in Statuses(k), ~IsTerminal(k, from), CancelTarget(k, from) # None
  PROVE  ValidateTransition(k, from, CancelTarget(k, from))
BY DEF Kinds, IsTerminal, ValidateTransition, AllowedTransitions, CancelTarget, Statuses, transitions,
       EpicFSM, MilestoneFSM, RulingFSM, GapFSM, ContractFSM

LEMMA CancelKeeps ==
  ASSUME Ready, NEW id \in IDs, Cancel(id),
         NEW x \in files, NEW y \in files', x.uid = y.uid, x.status # y.status
  PROVE  MayEnd(x.kind, x.status, "cancel", y.status, FileContext(y), "Legal")
<1> DEFINE e == ByID(T, id)
           to == CancelTarget(e.kind, e.status)
           new == [e EXCEPT !.status = to]
<1>1. /\ e \in files /\ play \in Scenarios /\ OneFileEach(files) /\ files \subseteq FileOf(play)
  BY HeldID DEF Ready, TypeInv, TreeOK
<1>2. files' = Replace(files, e, new) /\ e.kind # "epic" /\ ~IsTerminal(e.kind, e.status) /\ to # None
  BY DEF Cancel, Commit
<1> HIDE DEF e
<1>3. e.kind \in Kinds /\ e.status \in Statuses(e.kind)
  BY <1>1, FileFacts
<1>4. ValidateTransition(e.kind, e.status, to) /\ to \in Statuses(e.kind)
  BY <1>2, <1>3, CancelIsAMove, CancelTargets
<1> HIDE DEF to
<1>5. new.uid = e.uid /\ new.status = to
  BY <1>1, <1>4, StatusUpdate DEF Kin
<1> HIDE DEF new
<1>6. y = new /\ x = e
  BY <1>1, <1>2, <1>5 DEF OneFileEach, Replace
<1>7. y.status = to
  BY <1>5, <1>6
<1>8. y.status = CancelTarget(e.kind, e.status) /\ y.status # None
  BY <1>2, <1>7 DEF to
<1> QED BY <1>1, <1>2, <1>4, <1>6, <1>7, <1>8, FileRequests

(* Whatever was renumbered, swept or superseded before, no unforced promote *)
(* or cancel goes against the repository's own table of legal requests      *)
(* (internal/workflows/spec; verb.Promote's and verb.Cancel's guards).      *)
THEOREM StatusesFollowTheTable == Spec => VerbsKeepToTheTable
<1> DEFINE A == step' \in {"promote", "cancel"} =>
                  \A e \in files, new \in files' :
                    e.uid = new.uid /\ e.status # new.status /\ e.uid \notin waived' =>
                      MayEnd(e.kind, e.status, step', new.status, FileContext(new), "Legal")
<1>1. ASSUME Inv, Next PROVE A
  <2> SUFFICES ASSUME step' \in {"promote", "cancel"}, NEW e \in files, NEW new \in files',
                      e.uid = new.uid, e.status # new.status, e.uid \notin waived'
               PROVE  MayEnd(e.kind, e.status, step', new.status, FileContext(new), "Legal")
    OBVIOUS
  <2>1. CASE /\ step' = "promote"
             /\ \E id \in IDs : \E to \in Statuses(id.kind), force \in BOOLEAN :
                  \E o \in FlagsFor(id.kind, to) : Promote(id, to, o, force)
    <3>1. PICK id \in IDs : \E to \in Statuses(id.kind), force \in BOOLEAN :
                 \E o \in FlagsFor(id.kind, to) : Promote(id, to, o, force)
      BY <2>1
    <3>2. PICK to \in Statuses(id.kind), force \in BOOLEAN :
                 \E o \in FlagsFor(id.kind, to) : Promote(id, to, o, force)
      BY <3>1
    <3>3. PICK o \in FlagsFor(id.kind, to) : Promote(id, to, o, force)
      BY <3>2
    <3>4. Ready
      BY <1>1, <3>3, VerbIsReady DEF Promote
    <3>5. MayEnd(e.kind, e.status, "promote", new.status, FileContext(new), "Legal")
      BY <3>3, <3>4, PromoteKeeps
    <3> QED BY <2>1, <3>5
  <2>2. CASE step' = "cancel" /\ \E id \in IDs : Cancel(id)
    <3>1. PICK id \in IDs : Cancel(id)
      BY <2>2
    <3>2. Ready
      BY <1>1, <3>1, VerbIsReady DEF Cancel
    <3>3. MayEnd(e.kind, e.status, "cancel", new.status, FileContext(new), "Legal")
      BY <3>1, <3>2, CancelKeeps
    <3> QED BY <2>2, <3>3
  <2> QED BY <1>1, <2>1, <2>2, OnlyTheyAnswer
<1>2. Inv /\ [Next]_vars => [A]_vars
  <2> HIDE DEF A
  <2> QED BY <1>1
<1>3. VerbsKeepToTheTable <=> [][A]_vars
  BY DEF VerbsKeepToTheTable
<1> HIDE DEF A
<1> QED BY <1>2, <1>3, Invariance, PTL DEF Spec
-----------------------------------------------------------------------------
(* What depends on what, and what superseded what, as the verbs leave it.   *)
Lawful(fs) == AllFit(fs) /\ (merged = {} => Paired(fs, waived))
LawInv ==
  /\ Lawful(files) /\ Lawful(FinalOf(files, plans))
  /\ merged = {} /\ ~halted => Orderly(FinalOf(files, plans))

\* Where a verb starts from, and where it leads.
Law == Lawful(files) /\ (merged = {} /\ ~halted => Orderly(files))
KeepsLaw(gs) ==
  AllFit(gs) /\ (merged = {} => Paired(gs, waived')) /\ (merged = {} /\ ~halted => Orderly(gs))

LEMMA VerbIsLawful == ASSUME LawInv, NEW verb, On(verb) PROVE Law
BY DEF LawInv, FinalOf, On, Law

LEMMA LawEnds ==
  ASSUME Ready, UNCHANGED <<plans, halted, merged>>, KeepsLaw(files')
  PROVE  LawInv'
BY DEF Ready, KeepsLaw, LawInv, Lawful, FinalOf

LEMMA OrderKept ==
  ASSUME Ready, Law, merged = {}, ~halted, NEW gs, TreeOK(play, gs), AllFit(gs), IdsDistinct(gs),
         projectionFindings(T, At(gs)) = {}
  PROVE  Orderly(gs)
<1>1. /\ play \in Scenarios /\ TreeOK(play, files) /\ IdsDistinct(files) /\ AllFit(files) /\ Orderly(files)
      /\ projectionFindings(At(files), At(gs)) = {}
  BY DEF Ready, TypeInv, Law, Lawful, Paired, T
<1> QED BY <1>1, OrderGate

(* A label or a sweep.                                                      *)
LEMMA PlainIsTame ==
  ASSUME NEW e, NEW f, Kin(f, e), Plain(f, e), f.arch => e.arch \/ IsTerminal(f.kind, f.status)
  PROVE  Tame(f, e)
<1>1. \A x : Targets(f, x) = Targets(e, x)
  BY DEF Targets, Plain
<1>2. HasResolver(e) => HasResolver(f)
  BY <1>1, Zenon DEF HasResolver, Plain
<1>3. f.kind = e.kind /\ f.status = e.status
  BY DEF Kin, Plain
<1>4. Settled(e) => Settled(f)
  BY <1>1, <1>2, <1>3 DEF Settled
<1> QED BY <1>1, <1>4 DEF Tame

LEMMA PlainFits ==
  ASSUME NEW e, NEW f, Kin(f, e), Plain(f, e), Fits(e), f.arch => e.arch \/ e.kind # "milestone"
  PROVE  Fits(f)
BY DEF Kin, Plain, Fits

(* The verbs that write files where they are and leave resolutions alone.   *)
LEMMA TameKeepsLaw ==
  ASSUME Ready, Law, waived' = waived, NEW h, NEW gs, gs = {h[e] : e \in files},
         \A e \in files : h[e] \in FileOf(play) /\ Kin(h[e], e) /\ Tame(h[e], e) /\ Fits(h[e]),
         \/ \A e \in files : h[e].refs = e.refs /\ h[e].status = e.status
         \/ projectionFindings(T, At(gs)) = {}
  PROVE  KeepsLaw(gs)
<1>1. play \in Scenarios /\ TreeOK(play, files) /\ AllFit(gs)
  BY DEF Ready, TypeInv, AllFit
<1>2. ASSUME merged = {} PROVE Paired(gs, waived')
  <2>1. Paired(files, waived)
    BY <1>2 DEF Law, Lawful
  <2>2. \A e \in files : h[e] \in FileOf(play) /\ Kin(h[e], e) /\ Tame(h[e], e)
    OBVIOUS
  <2>3. Paired({h[e] : e \in files}, waived)
    BY <1>1, <2>1, <2>2, TamePairs
  <2> QED BY <2>3
<1>3. ASSUME merged = {}, ~halted PROVE Orderly(gs)
  <2>1. CASE \A e \in files : h[e].refs = e.refs /\ h[e].status = e.status
    <3>1. \A e \in files : Alike(h[e], e)
      BY <2>1 DEF Alike, Kin
    <3>2. SameOrder(gs, files)
      BY <3>1 DEF SameOrder
    <3> QED BY <1>3, <3>2, OrderUntouched DEF Law
  <2>2. CASE projectionFindings(T, At(gs)) = {}
    <3>1. TreeOK(play, gs)
      <4>1. \A e \in files : h[e] \in FileOf(play) /\ Kin(h[e], e)
        OBVIOUS
      <4>2. /\ TreeOK(play, {h[e] : e \in files}) /\ InPlace({h[e] : e \in files}, files)
            /\ \A x \in {h[e] : e \in files}, o \in files : x.uid = o.uid => x = h[o]
        BY <1>1, <4>1, Rewriting, Zenon
      <4> QED BY <4>2
    <3>2. IdsDistinct(gs)
      BY <1>2, <1>3 DEF Paired
    <3> QED BY <1>1, <1>3, <2>2, <3>1, <3>2, OrderKept
  <2> QED BY <2>1, <2>2
<1> QED BY <1>1, <1>2, <1>3 DEF KeepsLaw

LEMMA LawOfOne ==
  ASSUME Ready, Law, waived' = waived, NEW e \in files, NEW new \in FileOf(play),
         Kin(new, e), Tame(new, e), Fits(new),
         \/ new.refs = e.refs /\ new.status = e.status
         \/ projectionFindings(T, At(Replace(files, e, new))) = {}
  PROVE  KeepsLaw(Replace(files, e, new))
<1> DEFINE h == [x \in files |-> IF x = e THEN new ELSE x]
           gs == Replace(files, e, new)
<1>1. h[e] = new /\ \A x \in files : x # e => h[x] = x
  OBVIOUS
<1>2. gs = {h[x] : x \in files}
  BY DEF Replace
<1>3. \A x : Kin(x, x) /\ Tame(x, x)
  BY DEF Kin, Tame
<1>4. \A x \in files : h[x] \in FileOf(play) /\ Kin(h[x], x) /\ Tame(h[x], x) /\ Fits(h[x])
  BY <1>1, <1>3 DEF Ready, TypeInv, TreeOK, Law, Lawful, AllFit
<1>5. \/ \A x \in files : h[x].refs = x.refs /\ h[x].status = x.status
      \/ projectionFindings(T, At(gs)) = {}
  BY <1>1
<1> HIDE DEF h, gs
<1>6. KeepsLaw(gs)
  BY <1>2, <1>4, <1>5, TameKeepsLaw
<1> QED BY <1>6 DEF gs

LEMMA LawOfSome ==
  ASSUME Ready, Law, waived' = waived, NEW S \in SUBSET files, NEW g,
         \A e \in S : /\ g[e] \in FileOf(play) /\ Kin(g[e], e) /\ Tame(g[e], e) /\ Fits(g[e])
                      /\ g[e].refs = e.refs /\ g[e].status = e.status
  PROVE  KeepsLaw((files \ S) \cup {g[e] : e \in S})
<1> DEFINE h == [x \in files |-> IF x \in S THEN g[x] ELSE x]
           gs == (files \ S) \cup {g[e] : e \in S}
<1>1. \A x \in files : h[x] = IF x \in S THEN g[x] ELSE x
  OBVIOUS
<1>2. gs = {h[x] : x \in files}
  OBVIOUS
<1>3. \A x : Kin(x, x) /\ Tame(x, x)
  BY DEF Kin, Tame
<1>4. \A x \in files : /\ h[x] \in FileOf(play) /\ Kin(h[x], x) /\ Tame(h[x], x) /\ Fits(h[x])
                       /\ h[x].refs = x.refs /\ h[x].status = x.status
  BY <1>1, <1>3 DEF Ready, TypeInv, TreeOK, Law, Lawful, AllFit
<1> HIDE DEF h, gs
<1>5. KeepsLaw(gs)
  BY <1>2, <1>4, TameKeepsLaw
<1> QED BY <1>5 DEF gs

LEMMA PriorityKeepsLaw ==
  ASSUME Ready, Law, NEW id \in IDs, NEW l \in Levels \cup {None}, SetPriority(id, l)
  PROVE  KeepsLaw(files')
<1> DEFINE e == ByID(T, id)
           new == [e EXCEPT !.prio = l]
<1>1. e \in files /\ play \in Scenarios /\ e \in FileOf(play) /\ Fits(e)
  BY HeldID DEF Ready, TypeInv, TreeOK, Law, Lawful, AllFit
<1>2. files' = Replace(files, e, new) /\ waived' = waived
  BY DEF SetPriority, Commit
<1> HIDE DEF e
<1>3. new \in FileOf(play) /\ Kin(new, e) /\ Plain(new, e) /\ new.arch = e.arch
  BY <1>1, PriorityUpdate
<1> HIDE DEF new
<1>4. Tame(new, e) /\ Fits(new) /\ new.refs = e.refs /\ new.status = e.status
  BY <1>1, <1>3, PlainIsTame, PlainFits DEF Plain
<1> QED BY <1>1, <1>2, <1>3, <1>4, LawOfOne

LEMMA AreaKeepsLaw ==
  ASSUME Ready, Law, NEW id \in IDs, NEW v \in yaml.areas \cup {AreaGlobal, None}, SetArea(id, v)
  PROVE  KeepsLaw(files')
<1> DEFINE e == ByID(T, id)
           new == [e EXCEPT !.area = v]
<1>1. e \in files /\ play \in Scenarios /\ e \in FileOf(play) /\ Fits(e)
  BY HeldID DEF Ready, TypeInv, TreeOK, Law, Lawful, AllFit
<1>2. files' = Replace(files, e, new) /\ waived' = waived
  BY DEF SetArea, Commit
<1>3. v \in play.names \cup {None, AreaGlobal}
  BY DEF Ready, TypeInv, YamlOK
<1> HIDE DEF e
<1>4. new \in FileOf(play) /\ Kin(new, e) /\ Plain(new, e) /\ new.arch = e.arch
  BY <1>1, <1>3, AreaUpdate
<1> HIDE DEF new
<1>5. Tame(new, e) /\ Fits(new) /\ new.refs = e.refs /\ new.status = e.status
  BY <1>1, <1>4, PlainIsTame, PlainFits DEF Plain
<1> QED BY <1>1, <1>2, <1>4, <1>5, LawOfOne

LEMMA RenameAreaKeepsLaw ==
  ASSUME Ready, Law, NEW old \in play.names, NEW new \in play.names, RenameArea(old, new)
  PROVE  KeepsLaw(files')
<1> DEFINE tagged == {e \in files : e.area = old}
           g == [e \in tagged |-> [e EXCEPT !.area = new]]
<1>1. files' = (files \ tagged) \cup {[e EXCEPT !.area = new] : e \in tagged} /\ waived' = waived
  BY DEF RenameArea, Commit
<1>2. \A e \in tagged : e \in FileOf(play) /\ Fits(e)
  BY DEF Ready, TypeInv, TreeOK, Law, Lawful, AllFit
<1>3. \A e \in tagged : g[e] \in FileOf(play) /\ Kin(g[e], e) /\ Plain(g[e], e) /\ g[e].arch = e.arch
  BY <1>2, AreaUpdate DEF Ready, TypeInv
<1>4. files' = (files \ tagged) \cup {g[e] : e \in tagged} /\ tagged \in SUBSET files
  BY <1>1
<1> HIDE DEF g, tagged
<1>5. \A e \in tagged : Tame(g[e], e) /\ Fits(g[e]) /\ g[e].refs = e.refs /\ g[e].status = e.status
  BY <1>2, <1>3, PlainIsTame, PlainFits DEF Plain
<1> QED BY <1>1, <1>3, <1>4, <1>5, LawOfSome

LEMMA SweepKeepsLaw ==
  ASSUME Ready, Law, ArchiveSweep
  PROVE  KeepsLaw(files')
<1> DEFINE swept == {e \in files : isPendingSweep(e)}
           g == [e \in swept |-> [e EXCEPT !.arch = TRUE]]
<1>1. files' = (files \ swept) \cup {[e EXCEPT !.arch = TRUE] : e \in swept} /\ waived' = waived
  BY DEF ArchiveSweep, Commit
<1>2. \A e \in swept : e \in FileOf(play) /\ Fits(e) /\ IsTerminal(e.kind, e.status) /\ e.kind # "milestone"
  BY DEF Ready, TypeInv, TreeOK, Law, Lawful, AllFit, isPendingSweep
<1>3. \A e \in swept : g[e] \in FileOf(play) /\ Kin(g[e], e) /\ Plain(g[e], e)
  BY <1>2, ArchiveUpdate DEF Ready, TypeInv
<1>4. files' = (files \ swept) \cup {g[e] : e \in swept} /\ swept \in SUBSET files
  BY <1>1
<1> HIDE DEF g, swept
<1>5. \A e \in swept : Tame(g[e], e) /\ Fits(g[e]) /\ g[e].refs = e.refs /\ g[e].status = e.status
  <2> SUFFICES ASSUME NEW e \in swept
               PROVE  Tame(g[e], e) /\ Fits(g[e]) /\ g[e].refs = e.refs /\ g[e].status = e.status
    OBVIOUS
  <2>1. PICK f : f = g[e]
    OBVIOUS
  <2>2. Kin(f, e) /\ Plain(f, e) /\ f.kind = e.kind /\ f.status = e.status /\ f.refs = e.refs
    BY <1>3, <2>1 DEF Kin, Plain
  <2>3. Tame(f, e) /\ Fits(f)
    BY <1>2, <2>2, PlainIsTame, PlainFits
  <2> QED BY <2>1, <2>2, <2>3
<1>6. \A e \in swept : /\ g[e] \in FileOf(play) /\ Kin(g[e], e) /\ Tame(g[e], e) /\ Fits(g[e])
                       /\ g[e].refs = e.refs /\ g[e].status = e.status
  BY <1>3, <1>5
<1>7. KeepsLaw((files \ swept) \cup {g[e] : e \in swept})
  <2>1. waived' = waived /\ swept \in SUBSET files
    BY <1>1, <1>4
  <2> QED BY <1>6, <2>1, LawOfSome, Zenon
<1> QED BY <1>4, <1>7, Zenon

(* Cancelling.  What is archived is done, and cancel has nothing to do.     *)
LEMMA CancelKinds ==
  ASSUME NEW k \in Kinds, NEW status \in Statuses(k), ~IsTerminal(k, status), CancelTarget(k, status) # None
  PROVE  /\ CancelTarget(k, status) \notin {"addressed", "superseded"}
         /\ IsTerminal(k, CancelTarget(k, status))
BY DEF Kinds, IsTerminal, AllowedTransitions, CancelTarget, Statuses, transitions,
       EpicFSM, MilestoneFSM, RulingFSM, GapFSM, ContractFSM

LEMMA CancelKeepsLaw ==
  ASSUME Ready, Law, NEW id \in IDs, Cancel(id)
  PROVE  KeepsLaw(files')
<1> DEFINE e == ByID(T, id)
           to == CancelTarget(e.kind, e.status)
           new == [e EXCEPT !.status = to]
<1>1. e \in files /\ play \in Scenarios /\ e \in FileOf(play) /\ Fits(e)
  BY HeldID DEF Ready, TypeInv, TreeOK, Law, Lawful, AllFit
<1>2. /\ to # None /\ files' = Replace(files, e, new) /\ waived' = waived /\ ~IsTerminal(e.kind, e.status)
      /\ projectionFindings(T, At(Replace(files, e, new))) = {}
  BY DEF Cancel, Commit, ReplacePasses
<1> HIDE DEF e
<1>3. to \in Statuses(e.kind) /\ to \notin {"addressed", "superseded"} /\ IsTerminal(e.kind, to)
  BY <1>1, <1>2, FileFacts, CancelTargets, CancelKinds
<1> HIDE DEF to
<1>4. /\ new \in FileOf(play) /\ Kin(new, e) /\ new.refs = e.refs /\ new.arch = e.arch
      /\ new.status = to /\ new.kind = e.kind
  BY <1>1, <1>3, StatusUpdate DEF Kin
<1> HIDE DEF new
<1>5. Tame(new, e)
  BY <1>3, <1>4 DEF Tame, Targets, Settled
<1>6. Fits(new)
  BY <1>1, <1>4 DEF Fits
<1> QED BY <1>1, <1>2, <1>4, <1>5, <1>6, LawOfOne

LEMMA DependsKeepsLaw ==
  ASSUME Ready, Law, NEW id \in IDs, NEW deps \in SUBSET OfKind("milestone"), MilestoneDependsOn(id, deps)
  PROVE  KeepsLaw(files')
<1> DEFINE e == ByID(T, id)
           refs == {RefTo("depends_on", d, 0) : d \in deps}
           rs == (e.refs \ Targets(e, "depends_on")) \cup refs
           new == [e EXCEPT !.refs = rs]
<1>1. e \in files /\ play \in Scenarios /\ TreeOK(play, files) /\ e \in FileOf(play) /\ Fits(e)
  BY HeldID DEF Ready, TypeInv, TreeOK, Law, Lawful, AllFit
<1>2. /\ files' = Replace(files, e, new) /\ projectionFindings(T, At(Replace(files, e, new))) = {}
      /\ e.kind = "milestone" /\ waived' = waived
  BY DEF MilestoneDependsOn, Commit, ReplacePasses
<1>3. \A r \in refs : Made(r) /\ r.field = "depends_on" /\ r.kind = "milestone"
  <2>1. "depends_on" \in Fields /\ deps \subseteq AllIDs /\ \A d \in deps : d.kind = "milestone"
    BY DEF Fields, RewrittenFields, OfKind
  <2> QED BY <1>1, <2>1, FlagIsMade
<1> HIDE DEF e, refs
<1>4. rs \in SUBSET Reference(play)
  BY <1>1, <1>3, FileFacts DEF Made
<1>5. \A r \in rs : FieldFits(e.kind, r)
  BY <1>1, <1>2, <1>3 DEF Fits, FieldFits
<1>6. \A f : f # "depends_on" => {r \in rs : r.field = f} = Targets(e, f)
  BY <1>3 DEF Targets
<1> HIDE DEF rs
<1>7. /\ new \in FileOf(play) /\ Kin(new, e) /\ new.refs = rs /\ new.kind = e.kind
      /\ new.arch = e.arch /\ new.status = e.status /\ new.byCommit = e.byCommit
  BY <1>1, <1>4, RefsUpdate DEF Kin
<1> HIDE DEF new
<1>8. Tame(new, e)
  <2>1. \A f : f # "depends_on" => Targets(new, f) = Targets(e, f)
    BY <1>6, <1>7 DEF Targets
  <2>2. Settled(e) => Settled(new)
    BY <1>2, <1>7 DEF Settled
  <2> QED BY <2>1, <2>2 DEF Tame
<1>9. Fits(new)
  BY <1>1, <1>5, <1>7 DEF Fits
<1> QED BY <1>1, <1>2, <1>7, <1>8, <1>9, LawOfOne

-----------------------------------------------------------------------------
(* Promoting, with resolvers: what a file's references are afterwards.      *)
LinkedAs(y, x, e, o) ==
  /\ Targets(x, "supersedes") \subseteq Targets(y, "supersedes")
  /\ \A s \in Targets(y, "supersedes") \ Targets(x, "supersedes") :
       x \in Reciprocal(files, e, o) /\ x # e /\ s = Superseding(e)
  /\ Targets(y, "superseded_by") = IF x = e /\ o.sup # {} THEN o.sup ELSE Targets(x, "superseded_by")
  /\ x # e => Targets(y, "addressed_by") = Targets(x, "addressed_by")

LEMMA ResolvedTargets ==
  ASSUME Ready, NEW e \in files, NEW to, NEW o \in FlagsFor(e.kind, to), NEW h, Resolves(h, e, to, o), NEW x \in files
  PROVE  LinkedAs(h[x], x, e, o)
<1>1. /\ play \in Scenarios /\ TreeOK(play, files)
      /\ \A r \in o.by : r.field = "addressed_by"
      /\ \A r \in o.sup : r.field = "superseded_by"
  BY ResolverFlagsAreMade DEF Ready, TypeInv
<1>2. Superseding(e).field = "supersedes"
  BY DEF Superseding, Ref
<1>3. CASE x = e
  <2>1. h[x].refs = Answered(x.refs, o)
    BY <1>3 DEF Resolves
  <2> QED BY <1>1, <1>3, <2>1 DEF Answered, Targets, LinkedAs
<1>4. CASE x # e /\ x \in Reciprocal(files, e, o)
  <2>1. h[x].refs = x.refs \cup {Superseding(e)}
    BY <1>4 DEF Resolves
  <2> QED BY <1>2, <1>4, <2>1 DEF Targets, LinkedAs
<1>5. CASE x # e /\ x \notin Reciprocal(files, e, o)
  <2>1. h[x].refs = x.refs
    BY <1>5 DEF Resolves
  <2> QED BY <1>5, <2>1 DEF Targets, LinkedAs
<1> QED BY <1>3, <1>4, <1>5

LEMMA ResolvedFit ==
  ASSUME Ready, AllFit(files), NEW e \in files, NEW to, NEW o \in FlagsFor(e.kind, to), NEW h, Resolves(h, e, to, o)
  PROVE  AllFit(files')
<1>1. /\ play \in Scenarios /\ TreeOK(play, files) /\ (o.sup # {} => e.kind = "adr")
      /\ \A r \in o.by : r.field = "addressed_by"
      /\ \A r \in o.sup : r.field = "superseded_by" /\ r.kind = "adr"
  BY ResolverFlagsAreMade DEF Ready, TypeInv
<1>2. Superseding(e).field = "supersedes" /\ Superseding(e).kind = "adr"
  BY DEF Superseding, Ref
<1>3. ASSUME NEW x \in files PROVE Fits(h[x])
  <2>1. h[x].kind = x.kind /\ h[x].arch = x.arch
    BY DEF Resolves, Kin
  <2>2. Fits(x)
    BY DEF AllFit
  <2>3. ASSUME NEW r \in h[x].refs PROVE FieldFits(x.kind, r)
    <3>1. CASE r \in x.refs
      BY <2>2, <3>1 DEF Fits
    <3>2. CASE x = e /\ r \in o.by \cup o.sup
      <4>1. \/ r.field = "addressed_by"
            \/ r.field = "superseded_by" /\ r.kind = "adr" /\ x.kind = "adr"
        BY <1>1, <3>2
      <4> QED BY <4>1 DEF FieldFits
    <3>3. CASE x \in Reciprocal(files, e, o) /\ r = Superseding(e)
      <4>1. x.kind = "adr"
        BY <3>3 DEF Reciprocal
      <4> QED BY <1>2, <3>3, <4>1 DEF FieldFits
    <3>4. \/ r \in x.refs \/ (x = e /\ r \in o.by \cup o.sup)
          \/ (x \in Reciprocal(files, e, o) /\ r = Superseding(e))
      <4>1. CASE x = e
        <5>1. h[x].refs = Answered(x.refs, o)
          BY <4>1 DEF Resolves
        <5> QED BY <2>3, <4>1, <5>1 DEF Answered
      <4>2. CASE x # e
        <5>1. h[x].refs = IF x \in Reciprocal(files, e, o) THEN x.refs \cup {Superseding(e)} ELSE x.refs
          BY <4>2 DEF Resolves
        <5> QED BY <2>3, <5>1
      <4> QED BY <4>1, <4>2
    <3> QED BY <3>1, <3>2, <3>3, <3>4
  <2> QED BY <2>1, <2>2, <2>3 DEF Fits
<1>4. files' = {h[x] : x \in files}
  BY DEF Resolves
<1> QED BY <1>3, <1>4 DEF AllFit

\* What is archived is settled, and a settled resolution is not filled in later.
LEMMA UnforcedIsLive ==
  ASSUME NEW p \in Scenarios, NEW e \in FileOf(p), Settled(e), NEW to, NEW o,
         \/ e.status = to /\ isResolutionClass(e.kind, to) /\ needsResolverBackfill(e, o)
         \/ ValidateTransition(e.kind, e.status, to)
  PROVE  ~e.arch
<1>1. ~(e.status = to /\ isResolutionClass(e.kind, to) /\ needsResolverBackfill(e, o))
  BY DEF Settled, isResolutionClass, needsResolverBackfill
<1>2. ~IsTerminal(e.kind, e.status)
  BY <1>1 DEF ValidateTransition, IsTerminal
<1> QED BY <1>2 DEF Settled

(* What an unforced promote leaves of its own file.                         *)
LEMMA ResolvedIsSettled ==
  ASSUME Ready, NEW e \in files, NEW to \in Statuses(e.kind), NEW o \in FlagsFor(e.kind, to), NEW h,
         Resolves(h, e, to, o), ~e.arch, requireResolver(e.kind, to, o)
  PROVE  Settled(h[e])
<1> DEFINE moved == [e EXCEPT !.status = to]
<1>1. play \in Scenarios /\ e \in FileOf(play)
  BY DEF Ready, TypeInv, TreeOK
<1>2. moved \in FileOf(play)
  BY <1>1, StatusUpdate
<1>3. h[e] = applyResolverFlags(moved, o) /\ h[e].status = to /\ h[e].kind = e.kind /\ h[e].arch = e.arch
  BY DEF Resolves, Kin
<1> HIDE DEF moved
<1>4. isResolutionClass(e.kind, to) =>
         /\ e.kind = "gap" => HasResolver(h[e])
         /\ e.kind = "adr" => Targets(h[e], "superseded_by") # {}
  BY <1>1, <1>2, <1>3, FlagsResolve DEF requireResolver
<1> QED BY <1>3, <1>4 DEF Settled, isResolutionClass

(* What it is superseded by exists, is another, and is told so.             *)
LEMMA ResolvedIsListed ==
  ASSUME Ready, AllFit(files), Paired(files, waived), NEW e \in files, e.uid \notin waived, ~e.arch,
         NEW to, NEW o \in FlagsFor(e.kind, to), NEW h, Resolves(h, e, to, o),
         projectionFindings(T, At(files')) = {}, TreeOK(play, files'), AcyclicIn(files', "superseded_by", "adr"),
         NEW r \in o.sup
  PROVE  Superseded(h[e], r, files', waived')
<1>1. /\ play \in Scenarios /\ TreeOK(play, files) /\ e.kind = "adr" /\ r.field = "superseded_by"
      /\ r.kind = "adr" /\ OneFileEach(files)
  BY ResolverFlagsAreMade DEF Ready, TypeInv, TreeOK
<1>2. \A x \in files : h[x] \in files' /\ h[x].uid = x.uid /\ h[x].kind = x.kind /\ h[x].n = x.n
  BY DEF Resolves, Kin
<1>3. r \in Targets(h[e], "superseded_by") /\ r \in h[e].refs
  <2>1. Targets(h[e], "superseded_by") = o.sup
    BY ResolvedTargets DEF LinkedAs
  <2> QED BY <2>1 DEF Targets
<1>4. PICK y \in files' : IdOf(y) = IdOf(r)
  <2>1. h[e] \in files' /\ ~h[e].arch
    BY <1>2 DEF Resolves
  <2>2. \A x \in files : x.uid = h[e].uid =>
            \A q \in x.refs : Text(q) = Text(r) => \E b \in files : IdOf(b) = IdOf(q)
    <3> SUFFICES ASSUME NEW q \in e.refs, Text(q) = Text(r) PROVE \E b \in files : IdOf(b) = IdOf(q)
      BY <1>1, <1>2 DEF OneFileEach
    <3>1. q \in Reference(play) /\ r \in Reference(play)
      BY <1>1, <1>3, FileFacts DEF TreeOK, Resolves
    <3>2. q.field = r.field
      BY <3>1 DEF Text, Reference
    <3>3. q \in Targets(e, "superseded_by")
      BY <1>1, <3>2 DEF Targets
    <3> QED BY <3>3 DEF Paired, Superseded
  <2> QED BY <1>1, <1>3, <2>1, <2>2, DanglingGate DEF T
<1>5. PICK z \in files : y = h[z]
  BY DEF Resolves
<1>6. IdOf(z) = IdOf(r) /\ z.kind = "adr" /\ z.n = r.n
  BY <1>1, <1>2, <1>4, <1>5 DEF IdOf
<1>7. z.n # e.n
  <2> SUFFICES ASSUME r.n = e.n PROVE FALSE
    BY <1>6
  <2>1. {e.n} \in SUBSET Numbers(files', "adr")
    BY <1>1, <1>2 DEF Numbers
  <2>2. e.n \in Leading(files', "superseded_by", e.n, "adr")
    BY <1>1, <1>2, <1>3 DEF Leading
  <2> QED BY <2>1, <2>2 DEF AcyclicIn
<1>8. z # e /\ z.uid # e.uid
  BY <1>1, <1>7 DEF OneFileEach
<1>9. HasID(At(files), IdOf(r)) /\ ByID(At(files), IdOf(r)) = z
  BY <1>1, <1>6, LookupUnique DEF Paired
<1>10. \E s \in Targets(h[z], "supersedes") : s.means = e.uid
  <2>1. CASE z \in Reciprocal(files, e, o)
    <3>1. h[z].refs = z.refs \cup {Superseding(e)}
      BY <1>8, <2>1 DEF Resolves
    <3>2. Superseding(e) \in Targets(h[z], "supersedes") /\ Superseding(e).means = e.uid
      BY <3>1 DEF Targets, Superseding, Ref
    <3> QED BY <3>2
  <2>2. CASE z \notin Reciprocal(files, e, o)
    <3>1. PICK s \in Targets(z, "supersedes") : s.n = e.n
      BY <1>6, <1>7, <1>9, <2>2 DEF Reciprocal
    <3>2. PICK b \in files : IdOf(b) = IdOf(s) /\ b.uid = s.means
      BY DEF Paired, Supersedes
    <3>3. s.kind = "adr"
      BY DEF AllFit, Fits, FieldFits, Targets
    <3>4. IdOf(b) = IdOf(e)
      BY <1>1, <3>1, <3>2, <3>3 DEF IdOf
    <3>5. b = e
      BY <3>4 DEF Paired, IdsDistinct
    <3>6. s \in Targets(h[z], "supersedes")
      BY ResolvedTargets DEF LinkedAs
    <3> QED BY <3>2, <3>5, <3>6
  <2> QED BY <2>1, <2>2
<1>11. y.uid # h[e].uid /\ Acknowledged(h[e], y, waived')
  BY <1>2, <1>5, <1>8, <1>10 DEF Acknowledged
<1> QED BY <1>4, <1>11 DEF Superseded

(* The others' resolutions stay as they were.                               *)
LEMMA OthersStayListed ==
  ASSUME Ready, Paired(files, waived), waived \subseteq waived', NEW e \in files,
         NEW to, NEW o \in FlagsFor(e.kind, to), NEW h, Resolves(h, e, to, o),
         NEW x \in files, x.uid \notin waived, NEW r \in Targets(x, "superseded_by")
  PROVE  Superseded(h[x], r, files', waived')
<1>1. PICK b \in files : IdOf(b) = IdOf(r) /\ b.uid # x.uid /\ Acknowledged(x, b, waived)
  BY DEF Paired, Superseded
<1>2. /\ h[b] \in files' /\ h[b].uid = b.uid /\ IdOf(h[b]) = IdOf(b) /\ h[x].uid = x.uid
  BY DEF Resolves, Kin, IdOf
<1>3. Targets(b, "supersedes") \subseteq Targets(h[b], "supersedes")
  BY ResolvedTargets DEF LinkedAs
<1>4. Acknowledged(h[x], h[b], waived')
  BY <1>1, <1>2, <1>3 DEF Acknowledged
<1> QED BY <1>1, <1>2, <1>4 DEF Superseded

LEMMA OthersStaySettled ==
  ASSUME Ready, NEW e \in files, NEW to, NEW o \in FlagsFor(e.kind, to), NEW h, Resolves(h, e, to, o),
         NEW x \in files \ {e}, Settled(x)
  PROVE  Settled(h[x])
<1>1. /\ h[x].kind = x.kind /\ h[x].status = x.status /\ h[x].byCommit = x.byCommit /\ h[x].arch = x.arch
  BY DEF Resolves, Kin
<1>2. /\ Targets(h[x], "superseded_by") = Targets(x, "superseded_by")
      /\ Targets(h[x], "addressed_by") = Targets(x, "addressed_by")
  <2>1. LinkedAs(h[x], x, e, o)
    BY ResolvedTargets
  <2> QED BY <2>1 DEF LinkedAs
<1>3. HasResolver(x) => HasResolver(h[x])
  BY <1>1, <1>2, Zenon DEF HasResolver
<1> QED BY <1>1, <1>2, <1>3 DEF Settled

LEMMA ResolvedSupersedes ==
  ASSUME Ready, Paired(files, waived), NEW e \in files, NEW to, NEW o \in FlagsFor(e.kind, to), NEW h,
         Resolves(h, e, to, o), NEW x \in files, NEW s \in Targets(h[x], "supersedes")
  PROVE  Supersedes(h[x], s, files')
<1>1. \A y \in files : h[y] \in files' /\ h[y].uid = y.uid /\ IdOf(h[y]) = IdOf(y)
  BY DEF Resolves, Kin, IdOf
<1>2. CASE s \in Targets(x, "supersedes")
  <2>1. s.means # x.uid /\ \E b \in files : IdOf(b) = IdOf(s) /\ b.uid = s.means
    BY <1>2 DEF Paired, Supersedes
  <2> QED BY <1>1, <2>1 DEF Supersedes
<1>3. CASE s \notin Targets(x, "supersedes")
  <2>1. x \in Reciprocal(files, e, o) /\ x # e /\ s = Superseding(e)
    <3>1. LinkedAs(h[x], x, e, o)
      BY ResolvedTargets
    <3> QED BY <1>3, <3>1 DEF LinkedAs
  <2>2. e.kind = "adr"
    <3>1. o.sup # {}
      BY <2>1 DEF Reciprocal
    <3> QED BY <3>1, ResolverFlagsAreMade DEF Ready, TypeInv
  <2>3. IdOf(s) = IdOf(e) /\ s.means = e.uid
    BY <2>1, <2>2 DEF Superseding, Ref, IdOf
  <2>4. x.uid # e.uid
    BY <2>1 DEF Ready, TypeInv, TreeOK, OneFileEach
  <2> QED BY <1>1, <2>3, <2>4 DEF Supersedes
<1> QED BY <1>2, <1>3

LEMMA PromoteKeepsLaw ==
  ASSUME Ready, Law, NEW id \in IDs, NEW to \in Statuses(id.kind), NEW force \in BOOLEAN,
         NEW o \in FlagsFor(id.kind, to), Promote(id, to, o, force)
  PROVE  KeepsLaw(files')
<1> DEFINE e == ByID(T, id)
<1>1. /\ e \in files /\ play \in Scenarios /\ TreeOK(play, files) /\ e \in FileOf(play) /\ AllFit(files)
      /\ to \in Statuses(e.kind) /\ o \in FlagsFor(e.kind, to)
  BY HeldID DEF Ready, TypeInv, TreeOK, Law, Lawful
<1>2. /\ projectionFindings(T, At(files')) = {}
      /\ waived' = IF force THEN waived \cup {e.uid} ELSE waived
      /\ \/ force
         \/ e.status = to /\ isResolutionClass(e.kind, to) /\ needsResolverBackfill(e, o)
         \/ ValidateTransition(e.kind, e.status, to)
      /\ force \/ requireResolver(e.kind, to, o)
  BY DEF Promote, Commit, ReplacePasses
<1>3. PICK h : Resolves(h, e, to, o)
  BY PromoteWrites
<1> HIDE DEF e
<1>4. TreeOK(play, files') /\ InPlace(files', files)
  <2>1. \A x \in files : h[x] \in FileOf(play) /\ Kin(h[x], x)
    BY <1>3 DEF Resolves
  <2>r. play \in Scenarios /\ TreeOK(play, files)
    BY <1>1
  <2>2. /\ TreeOK(play, {h[x] : x \in files}) /\ InPlace({h[x] : x \in files}, files)
        /\ \A y \in {h[x] : x \in files}, x \in files : y.uid = x.uid => y = h[x]
    BY <2>1, <2>r, Rewriting, Zenon
  <2> QED BY <1>3, <2>2 DEF Resolves
<1>5. AllFit(files')
  BY <1>1, <1>3, ResolvedFit
<1>6. ASSUME merged = {} PROVE Paired(files', waived')
  <2>1. Paired(files, waived) /\ waived \subseteq waived'
    BY <1>2, <1>6 DEF Law, Lawful
  <2>2. IdsDistinct(files')
    BY <1>1, <1>4, <2>1, InPlaceIsDistinct DEF Paired
  <2>3. AcyclicIn(files', "superseded_by", "adr")
    BY <1>1, <1>2, <1>4, <2>1, <2>2, CycleGate DEF Paired, T
  <2>4. \A b \in files' : \A s \in Targets(b, "supersedes") : Supersedes(b, s, files')
    <3>1. \A x \in files : \A s \in Targets(h[x], "supersedes") : Supersedes(h[x], s, files')
      BY <1>1, <1>3, <2>1, ResolvedSupersedes
    <3> QED BY <1>3, <3>1 DEF Resolves
  <2>k. \A x \in files : LinkedAs(h[x], x, e, o)
    BY <1>1, <1>3, ResolvedTargets
  <2>5. ASSUME NEW x \in files, x.uid \notin waived'
        PROVE  Settled(h[x]) /\ \A r \in Targets(h[x], "superseded_by") : Superseded(h[x], r, files', waived')
    <3>1. x.uid \notin waived /\ Settled(x)
      BY <2>1, <2>5 DEF Paired
    <3>2. CASE x # e
      <4>1. Settled(h[x])
        BY <1>1, <1>3, <3>1, <3>2, OthersStaySettled
      <4>2. Targets(h[x], "superseded_by") = Targets(x, "superseded_by")
        BY <2>k, <3>2 DEF LinkedAs
      <4>3. \A r \in Targets(x, "superseded_by") : Superseded(h[x], r, files', waived')
        BY <1>1, <1>3, <2>1, <3>1, OthersStayListed
      <4> QED BY <4>1, <4>2, <4>3
    <3>3. CASE x = e
      <4>1. ~force
        BY <1>2, <2>5, <3>3
      <4>2. ~e.arch
        BY <1>1, <1>2, <3>1, <3>3, <4>1, UnforcedIsLive
      <4>3. Settled(h[e])
        BY <1>1, <1>2, <1>3, <4>1, <4>2, ResolvedIsSettled
      <4>4. CASE o.sup # {}
        <5>1. Targets(h[e], "superseded_by") = o.sup
          <6>1. LinkedAs(h[e], e, e, o)
            BY <1>1, <2>k
          <6> QED BY <4>4, <6>1 DEF LinkedAs
        <5>2. \A r \in o.sup : Superseded(h[e], r, files', waived')
          BY <1>1, <1>2, <1>3, <1>4, <2>1, <2>3, <3>1, <3>3, <4>2, ResolvedIsListed
        <5> QED BY <3>3, <4>3, <5>1, <5>2
      <4>5. CASE o.sup = {}
        <5>1. Targets(h[e], "superseded_by") = Targets(e, "superseded_by")
          <6>1. LinkedAs(h[e], e, e, o)
            BY <1>1, <2>k
          <6> QED BY <4>5, <6>1 DEF LinkedAs
        <5>2. \A r \in Targets(e, "superseded_by") : Superseded(h[e], r, files', waived')
          BY <1>1, <1>3, <2>1, <3>1, <3>3, OthersStayListed
        <5> QED BY <3>3, <4>3, <5>1, <5>2
      <4> QED BY <4>4, <4>5
    <3> QED BY <3>2, <3>3
  <2>6. \A b \in files' : b.uid \notin waived' =>
           Settled(b) /\ \A r \in Targets(b, "superseded_by") : Superseded(b, r, files', waived')
    <3>1. \A x \in files : h[x].uid = x.uid
      BY <1>3 DEF Resolves, Kin
    <3> QED BY <1>3, <2>5, <3>1 DEF Resolves
  <2> QED BY <2>2, <2>3, <2>4, <2>6 DEF Paired
<1>7. ASSUME merged = {}, ~halted PROVE Orderly(files')
  <2>1. IdsDistinct(files')
    BY <1>6, <1>7 DEF Paired
  <2> QED BY <1>2, <1>4, <1>5, <1>7, <2>1, OrderKept
<1> QED BY <1>5, <1>6, <1>7 DEF KeepsLaw

-----------------------------------------------------------------------------
(* The verbs that write a new file.                                         *)
LEMMA FlaggedFits ==
  ASSUME NEW w, \A r \in w.refs : Flagged(w.kind, r), w.arch => w.kind # "milestone"
  PROVE  Fits(w) /\ Unlinked(w)
BY DEF Flagged, Fits, FieldFits, Unlinked

LEMMA NewIsSettled ==
  ASSUME NEW w, w.status = InitialStatus[w.kind], w.arch = FALSE
  PROVE  Settled(w)
BY DEF Settled, InitialStatus

LEMMA AddKeepsLaw ==
  ASSUME Ready, Law, NEW u \in FreshUids, NEW refs \in RefFlags(play.cast[u]),
         NEW v \in yaml.validators \cup {None}, Add(u, refs, v)
  PROVE  KeepsLaw(files')
<1>1. PICK w : Added(u, v, w)
  BY AddLeads
<1>2. /\ play \in Scenarios /\ TreeOK(play, files) /\ TreeOK(play, files')
      /\ projectionFindings(T, At(files')) = {} /\ waived' = waived /\ AllFit(files)
  BY AddLeads DEF Ready, TypeInv, Leads, Law, Lawful, Add, AddPasses, Commit
<1>3. files' = files \cup {w} /\ Fits(w) /\ Unlinked(w) /\ Settled(w)
  BY <1>1, FlaggedFits, NewIsSettled DEF Added
<1>4. AllFit(files')
  BY <1>2, <1>3 DEF AllFit
<1>5. ASSUME merged = {} PROVE Paired(files', waived')
  <2>1. Paired(files, waived)
    BY <1>5 DEF Law, Lawful
  <2>2. ASSUME NEW e \in files PROVE e.uid # w.uid /\ IdOf(e) # IdOf(w)
    <3>1. e \in FileOf(play) /\ w \in FileOf(play)
      BY <1>1, <1>2 DEF TreeOK, Added
    <3>2. e.n \in 1..MaxNum /\ w.n \in 1..MaxNum
      BY <1>2, <3>1, FileFacts
    <3>3. ~(e.kind = w.kind /\ e.n = w.n)
      BY <1>1, <1>2, <3>2, ScenarioFacts DEF Added
    <3> QED BY <1>1, <3>3 DEF Added, IdOf
  <2>3. files' = Written(files, w)
    BY <1>3, <2>2 DEF Written
  <2>4. Paired(Written(files, w), waived)
    BY <1>3, <2>1, <2>2, WrittenPairs
  <2> QED BY <1>2, <2>3, <2>4
<1>6. ASSUME merged = {}, ~halted PROVE Orderly(files')
  <2>1. IdsDistinct(files')
    BY <1>5, <1>6 DEF Paired
  <2> QED BY <1>2, <1>4, <1>6, <2>1, OrderKept
<1> QED BY <1>4, <1>5, <1>6 DEF KeepsLaw

\* A file of a manifest, in place of its own or new.
LEMMA PlainWriteFits ==
  ASSUME AllFit(files), NEW w, PlainWrite(w)
  PROVE  Fits(w) /\ Unlinked(w)
<1>1. w.arch => w.kind # "milestone"
  <2>1. CASE \E e \in files : IdOf(e) = IdOf(w) /\ e.uid = w.uid
    <3>1. PICK e \in files : IdOf(e) = IdOf(w) /\ e.uid = w.uid
      BY <2>1
    <3>2. e.arch = w.arch /\ e.kind = w.kind
      BY <3>1 DEF PlainWrite, IdOf
    <3> QED BY <3>2 DEF AllFit, Fits
  <2>2. CASE w.arch = FALSE
    BY <2>2
  <2> QED BY <2>1, <2>2 DEF PlainWrite
<1>2. \A r \in w.refs : Flagged(w.kind, r)
  BY DEF PlainWrite
<1> QED BY <1>1, <1>2, FlaggedFits

LEMMA PlainWriteIds ==
  ASSUME IdsDistinct(files), NEW w, PlainWrite(w), NEW e \in files
  PROVE  IdOf(e) = IdOf(w) <=> e.uid = w.uid
BY DEF IdsDistinct, PlainWrite

LEMMA ImportKeepsLaw ==
  ASSUME Ready, Law, NEW m \in Manifests, NEW onCollision, NEW perEntity, Import(m, onCollision, perEntity)
  PROVE  LawInv'
<1>1. PICK gs : Leads(gs) /\ ImportedAs(gs) /\ projectionFindings(T, At(gs)) = {}
  BY ImportLeads, Zenon
<1>2. /\ waived \subseteq waived' /\ UNCHANGED <<halted, merged>> /\ AllFit(files)
      /\ merged = {} => Paired(files, waived')
  <2>1. waived \subseteq waived'
    BY ImportLeads, Zenon
  <2> QED BY <2>1, PairedWithMore DEF Import, Law, Lawful
<1> DEFINE Good(fs) == AllFit(fs) /\ (merged = {} => Paired(fs, waived'))
<1>3. Good(files') /\ Good(gs)
  <2>1. CASE \E w : /\ PlainWrite(w) /\ w.uid \in waived'
                    /\ gs = Written(files, w) /\ files' = gs /\ plans' = <<>>
    <3>1. PICK w : /\ PlainWrite(w) /\ w.uid \in waived'
                   /\ gs = Written(files, w) /\ files' = gs /\ plans' = <<>>
      BY <2>1
    <3>2. Fits(w) /\ Unlinked(w)
      BY <1>2, <3>1, PlainWriteFits
    <3>3. AllFit(Written(files, w))
      BY <1>2, <3>2 DEF AllFit, Written
    <3>4. ASSUME merged = {} PROVE Paired(Written(files, w), waived')
      <4>1. Paired(files, waived') /\ \A e \in files : IdOf(e) = IdOf(w) <=> e.uid = w.uid
        BY <1>2, <3>1, <3>4, PlainWriteIds DEF Paired
      <4> QED BY <3>1, <3>2, <4>1, WrittenPairs
    <3> QED BY <3>1, <3>3, <3>4
  <2>2. CASE \E w1, w2 : /\ PlainWrite(w1) /\ PlainWrite(w2) /\ w1.uid # w2.uid /\ IdOf(w1) # IdOf(w2)
                         /\ w1.uid \in waived' /\ w2.uid \in waived'
                         /\ gs = Written(Written(files, w1), w2)
                         /\ \/ files' = gs /\ plans' = <<>>
                            \/ files' = Written(files, w1) /\ plans' # <<>> /\ plans'[1] = w2
    <3>1. PICK w1, w2 : /\ PlainWrite(w1) /\ PlainWrite(w2) /\ w1.uid # w2.uid /\ IdOf(w1) # IdOf(w2)
                        /\ w1.uid \in waived' /\ w2.uid \in waived'
                        /\ gs = Written(Written(files, w1), w2)
                        /\ \/ files' = gs
                           \/ files' = Written(files, w1)
      BY <2>2
    <3>2. Fits(w1) /\ Unlinked(w1) /\ Fits(w2) /\ Unlinked(w2)
      BY <1>2, <3>1, PlainWriteFits
    <3>3. AllFit(Written(files, w1)) /\ AllFit(Written(Written(files, w1), w2))
      BY <1>2, <3>2 DEF AllFit, Written
    <3>4. ASSUME merged = {}
          PROVE  Paired(Written(files, w1), waived') /\ Paired(Written(Written(files, w1), w2), waived')
      <4>1. /\ Paired(files, waived')
            /\ \A e \in files : IdOf(e) = IdOf(w1) <=> e.uid = w1.uid
            /\ \A e \in files : IdOf(e) = IdOf(w2) <=> e.uid = w2.uid
        BY <1>2, <3>1, <3>4, PlainWriteIds DEF Paired
      <4>2. Paired(Written(files, w1), waived')
        BY <3>1, <3>2, <4>1, WrittenPairs
      <4>3. \A e \in Written(files, w1) : IdOf(e) = IdOf(w2) <=> e.uid = w2.uid
        BY <3>1, <4>1 DEF Written
      <4>4. Paired(Written(Written(files, w1), w2), waived')
        BY <3>1, <3>2, <4>2, <4>3, WrittenPairs
      <4> QED BY <4>2, <4>4
    <3> QED BY <3>1, <3>3, <3>4
  <2> QED BY <1>1, <2>1, <2>2 DEF ImportedAs
<1>4. ASSUME merged = {}, ~halted PROVE Orderly(gs)
  <2>1. IdsDistinct(gs) /\ AllFit(gs)
    BY <1>3, <1>4 DEF Paired
  <2> QED BY <1>1, <1>4, <2>1, OrderKept DEF Leads
<1>5. FinalOf(files', plans') = gs
  BY <1>1, ImportFinal
<1> QED BY <1>2, <1>3, <1>4, <1>5 DEF LawInv, Lawful

-----------------------------------------------------------------------------
(* Renumbering: resolutions follow.                                         *)
LEMMA FollowsField ==
  ASSUME NEW p \in Scenarios, NEW r \in Reference(p), NEW old, NEW n \in 1..MaxNum
  PROVE  /\ Follow(r, old, n).field = r.field /\ Follow(r, old, n).kind = r.kind
         /\ Follow(r, old, n).means = r.means
         /\ IdOf(r) # old => IdOf(Follow(r, old, n)) = IdOf(r)
         /\ IdOf(r) = old /\ r.field \in RewrittenFields => IdOf(Follow(r, old, n)) = [kind |-> old.kind, n |-> n]
<1>1. ~IsComposite(r)
  BY ReferenceFacts
<1>2. CASE Follow(r, old, n) = r
  <2>1. IdOf(r) = old /\ r.field \in RewrittenFields => Follow(r, old, n) = [r EXCEPT !.n = n]
    BY <1>1 DEF Follow
  <2>2. IdOf(r) = old /\ r.field \in RewrittenFields => r.n = n
    BY <1>2, <2>1 DEF Reference
  <2> QED BY <1>2, <2>2 DEF IdOf
<1>3. CASE Follow(r, old, n) # r
  <2>1. Follow(r, old, n) = [r EXCEPT !.n = n] /\ IdOf(r) = old
    BY <1>3 DEF Follow
  <2>2. /\ Follow(r, old, n).field = r.field /\ Follow(r, old, n).kind = r.kind
        /\ Follow(r, old, n).means = r.means /\ Follow(r, old, n).n = n
    BY <2>1 DEF Reference
  <2> QED BY <2>1, <2>2 DEF IdOf
<1> QED BY <1>2, <1>3

Carry(q, o, e, n) == IF o = e THEN q ELSE Follow(q, IdOf(e), n)
Carried(g, o, e, n, field) ==
  /\ \A r \in Targets(g[o], field) : \E q \in Targets(o, field) : r = Carry(q, o, e, n)
  /\ \A q \in Targets(o, field) : \E r \in Targets(g[o], field) : r = Carry(q, o, e, n)

LEMMA RenumberedTargets ==
  ASSUME Ready, NEW e \in files, NEW n \in 1..MaxNum, NEW g, Renumbering(g, e, n), NEW o \in files, NEW field
  PROVE  Carried(g, o, e, n, field)
<1>1. play \in Scenarios /\ \A q \in o.refs : q \in Reference(play)
  BY FileFacts DEF Ready, TypeInv, TreeOK
<1>2. \A q \in o.refs : Follow(q, IdOf(e), n).field = q.field
  BY <1>1, FollowsField
<1>3. CASE o = e
  <2>1. g[o].refs = o.refs
    BY <1>3 DEF Renumbering
  <2> QED BY <1>3, <2>1 DEF Targets, Carried, Carry
<1>4. CASE o # e
  <2>1. g[o].refs = {Follow(q, IdOf(e), n) : q \in o.refs}
    BY <1>4 DEF Renumbering
  <2>2. ASSUME NEW r \in Targets(g[o], field) PROVE \E q \in Targets(o, field) : r = Follow(q, IdOf(e), n)
    <3>1. PICK q \in o.refs : r = Follow(q, IdOf(e), n)
      BY <2>1 DEF Targets
    <3> QED BY <1>2, <3>1 DEF Targets
  <2>3. ASSUME NEW q \in Targets(o, field) PROVE \E r \in Targets(g[o], field) : r = Follow(q, IdOf(e), n)
    <3>1. q \in o.refs /\ q.field = field
      BY DEF Targets
    <3>2. Follow(q, IdOf(e), n) \in g[o].refs /\ Follow(q, IdOf(e), n).field = field
      BY <1>2, <2>1, <3>1
    <3> QED BY <3>2 DEF Targets
  <2> QED BY <1>4, <2>2, <2>3 DEF Carried, Carry
<1> QED BY <1>3, <1>4

LEMMA RenumberedIds ==
  ASSUME Ready, IdsDistinct(files), NEW e \in files, NEW n \in 1..MaxNum, NEW g, Renumbering(g, e, n)
  PROVE  /\ \A o \in files : o # e => IdOf(o) # IdOf(e) /\ IdOf(g[o]) = IdOf(o)
         /\ IdOf(g[e]) = [kind |-> e.kind, n |-> n] /\ \A o \in files : IdOf(o) # [kind |-> e.kind, n |-> n]
         /\ IdsDistinct(files')
<1>1. \A o \in files : o # e => IdOf(o) # IdOf(e) /\ IdOf(g[o]) = IdOf(o)
  BY DEF Renumbering, IdsDistinct, IdOf
<1>2. IdOf(g[e]) = [kind |-> e.kind, n |-> n]
  BY DEF Renumbering, IdOf
<1>3. ASSUME NEW o \in files PROVE IdOf(o) # [kind |-> e.kind, n |-> n]
  <2>1. o.n \in 1..MaxNum /\ MaxNum \in Nat
    BY FileFacts, ScenarioFacts DEF Ready, TypeInv, TreeOK
  <2>2. o.kind = e.kind => o.n < n
    BY DEF Renumbering
  <2>3. ~(o.kind = e.kind /\ o.n = n)
    BY <2>1, <2>2
  <2> QED BY <2>3 DEF IdOf
<1>4. IdsDistinct(files')
  <2>1. \A x \in files' : \E o \in files : x = g[o]
    BY DEF Renumbering
  <2>2. ASSUME NEW a \in files, NEW b \in files, IdOf(g[a]) = IdOf(g[b]) PROVE a = b
    <3>1. CASE a = e
      BY <1>1, <1>2, <1>3, <2>2, <3>1
    <3>2. CASE b = e
      BY <1>1, <1>2, <1>3, <2>2, <3>2
    <3>3. CASE a # e /\ b # e
      BY <1>1, <2>2, <3>3 DEF IdsDistinct
    <3> QED BY <3>1, <3>2, <3>3
  <2> QED BY <2>1, <2>2 DEF IdsDistinct
<1> QED BY <1>1, <1>2, <1>3, <1>4

LEMMA RenumberedFollow ==
  ASSUME Ready, IdsDistinct(files), NEW e \in files, NEW n \in 1..MaxNum, NEW g, Renumbering(g, e, n),
         NEW o \in files, NEW field \in {"superseded_by", "supersedes"}
  PROVE  Followed(g, o, field, files)
<1>1. play \in Scenarios /\ OneFileEach(files) /\ (\A q \in o.refs : q \in Reference(play)) /\ field \in RewrittenFields
  BY FileFacts DEF Ready, TypeInv, TreeOK, RewrittenFields
<1>2. Carried(g, o, e, n, field)
  BY RenumberedTargets
<1>3. /\ \A b \in files : b # e => IdOf(b) # IdOf(e) /\ IdOf(g[b]) = IdOf(b)
      /\ IdOf(g[e]) = [kind |-> e.kind, n |-> n]
  BY RenumberedIds
<1>4. ASSUME NEW q \in Targets(o, field), NEW r, r = Carry(q, o, e, n)
      PROVE  /\ q.means = r.means
             /\ \A b \in files : b.uid # o.uid /\ IdOf(b) = IdOf(q) => IdOf(g[b]) = IdOf(r)
  <2>1. q \in Reference(play) /\ q.field = field
    BY <1>1 DEF Targets
  <2>2. CASE o = e
    BY <1>3, <1>4, <2>2 DEF Carry
  <2>3. CASE o # e
    <3>1. /\ r.means = q.means /\ (IdOf(q) # IdOf(e) => IdOf(r) = IdOf(q))
          /\ IdOf(q) = IdOf(e) => IdOf(r) = [kind |-> IdOf(e).kind, n |-> n]
      BY <1>1, <1>4, <2>1, <2>3, FollowsField DEF Carry
    <3>2. IdOf(e).kind = e.kind
      BY DEF IdOf
    <3> QED BY <1>3, <3>1, <3>2
  <2> QED BY <2>2, <2>3
<1> QED BY <1>2, <1>4 DEF Followed, Carried

LEMMA ReallocateKeepsLaw ==
  ASSUME Ready, Law, NEW e \in files, Reallocate(e)
  PROVE  KeepsLaw(files')
<1>1. PICK n \in 1..MaxNum : \E g : Renumbering(g, e, n)
  BY ReallocateLeads
<1>2. PICK g : Renumbering(g, e, n)
  BY <1>1
<1>3. /\ play \in Scenarios /\ TreeOK(play, files) /\ TreeOK(play, files') /\ AllFit(files)
      /\ projectionFindings(T, At(files')) = {} /\ waived' = waived
  BY ReallocateLeads DEF Ready, TypeInv, Leads, Law, Lawful, Reallocate, Commit
<1>4. files' = {g[o] : o \in files}
  BY <1>2 DEF Renumbering
<1>5. AllFit(files')
  <2> SUFFICES ASSUME NEW o \in files PROVE Fits(g[o])
    BY <1>4 DEF AllFit
  <2>1. Fits(o) /\ g[o].kind = o.kind /\ g[o].arch = o.arch
    BY <1>2, <1>3 DEF AllFit, Renumbering
  <2>2. \A q \in o.refs : Follow(q, IdOf(e), n).field = q.field /\ Follow(q, IdOf(e), n).kind = q.kind
    <3>1. \A q \in o.refs : q \in Reference(play)
      BY <1>3, FileFacts DEF TreeOK
    <3> QED BY <1>3, <3>1, FollowsField
  <2>3. g[o].refs = o.refs \/ g[o].refs = {Follow(q, IdOf(e), n) : q \in o.refs}
    BY <1>2 DEF Renumbering
  <2> QED BY <2>1, <2>2, <2>3 DEF Fits, FieldFits
<1>6. ASSUME merged = {} PROVE Paired(files', waived')
  <2>1. Paired(files, waived) /\ IdsDistinct(files)
    BY <1>6 DEF Law, Lawful, Paired
  <2>2. IdsDistinct(files')
    BY <1>2, <2>1, RenumberedIds
  <2>3. AcyclicIn(files', "superseded_by", "adr")
    BY <1>3, <2>1, <2>2, CycleGate DEF Paired, T
  <2>4. ASSUME NEW o \in files
        PROVE  Followed(g, o, "superseded_by", files) /\ Followed(g, o, "supersedes", files)
    BY <1>2, <2>1, RenumberedFollow
  <2>5. ASSUME NEW o \in files, Settled(o) PROVE Settled(g[o])
    <3>1. /\ g[o].kind = o.kind /\ g[o].status = o.status /\ g[o].byCommit = o.byCommit /\ g[o].arch = o.arch
      BY <1>2 DEF Renumbering
    <3>2. ASSUME NEW field, Targets(o, field) # {} PROVE Targets(g[o], field) # {}
      <4>1. PICK q \in Targets(o, field) : TRUE
        BY <3>2
      <4>2. Carried(g, o, e, n, field)
        BY <1>2, RenumberedTargets
      <4> QED BY <4>2 DEF Carried
    <3>3. HasResolver(o) => HasResolver(g[o])
      BY <3>1, <3>2, Zenon DEF HasResolver
    <3>4. Targets(o, "superseded_by") # {} => Targets(g[o], "superseded_by") # {}
      BY <3>2
    <3> QED BY <2>5, <3>1, <3>3, <3>4 DEF Settled
  <2>6. \A o \in files : g[o].uid = o.uid
    BY <1>2 DEF Renumbering
  <2>7. Paired(files', waived)
    BY <1>4, <2>1, <2>2, <2>3, <2>4, <2>5, <2>6, PairsFollow
  <2> QED BY <1>3, <2>7
<1>7. ASSUME merged = {}, ~halted PROVE Orderly(files')
  <2>1. IdsDistinct(files')
    BY <1>6, <1>7 DEF Paired
  <2> QED BY <1>3, <1>5, <1>7, <2>1, OrderKept
<1> QED BY <1>5, <1>6, <1>7 DEF KeepsLaw

-----------------------------------------------------------------------------
(* A merge brings what add could have written, and ends what is promised of *)
(* ids and of what they designate.                                          *)
LEMMA MergeKeepsLaw ==
  ASSUME Ready, Law, NEW u \in FreshUids, NEW n \in 1..MaxNum, NEW refs \in RefFlags(play.cast[u]), MergeIn(u, n, refs)
  PROVE  LawInv'
<1> DEFINE k == play.cast[u]
           w == NewFile(u, n, InitialStatus[k], refs)
<1>1. /\ play \in Scenarios /\ TreeOK(play, files) /\ u \in Uids /\ k \in Kinds
  BY ScenarioFacts DEF Ready, TypeInv, FreshUids, Uids
<1>2. \A r \in refs : Flagged(k, r)
  BY <1>1, RefFlagsAreMade
<1>3. files' = files \cup {w} /\ merged' # {} /\ plans' = <<>>
  BY DEF MergeIn, Commit, Ready
<1>4. w.kind = k /\ w.refs = refs /\ w.arch = FALSE
  BY NewFileFields
<1> HIDE DEF w
<1>5. Fits(w)
  BY <1>2, <1>4, FlaggedFits
<1>6. AllFit(files')
  BY <1>3, <1>5 DEF Law, Lawful, AllFit
<1> QED BY <1>3, <1>6 DEF LawInv, Lawful, FinalOf

LEMMA StartIsLawful == Init => LawInv
<1> SUFFICES ASSUME Init PROVE LawInv
  OBVIOUS
<1>1. /\ play \in Scenarios /\ files = {StartFile(play, u) : u \in 1..play.start} /\ plans = <<>>
  BY DEF Init
<1>2. IdsDistinct(files)
  BY <1>1, StartIsSound DEF Sound
<1>3. ASSUME NEW e \in files
      PROVE  /\ \A r \in e.refs : r.field = "parent"
             /\ e.arch = FALSE /\ e.status = InitialStatus[e.kind]
  <2>1. PICK u \in 1..play.start : e = StartFile(play, u)
    BY <1>1
  <2>2. e.refs = IF play.cast[u] = "milestone" THEN {Ref("parent", play.parent.kind, play.parent.n, 0, 1)} ELSE {}
    BY <2>1 DEF StartFile
  <2>3. \A r \in e.refs : r.field = "parent"
    BY <2>2 DEF Ref
  <2>4. e.arch = FALSE /\ e.status = InitialStatus[e.kind]
    BY <2>1, StartFields
  <2> QED BY <2>3, <2>4
<1>4. \A e \in files : /\ Targets(e, "depends_on") = {} /\ Targets(e, "superseded_by") = {}
                       /\ Targets(e, "supersedes") = {}
  BY <1>3 DEF Targets
<1>5. AllFit(files)
  BY <1>3 DEF AllFit, Fits, FieldFits
<1>6. ASSUME NEW field \in {"depends_on", "superseded_by"}, NEW k PROVE AcyclicIn(files, field, k)
  <2>1. \A n : Leading(files, field, n, k) = {}
    BY <1>4 DEF Leading
  <2> QED BY <2>1 DEF AcyclicIn
<1>7. \A e \in files : Settled(e)
  BY <1>3, NewIsSettled
<1>8. Paired(files, waived)
  BY <1>2, <1>4, <1>6, <1>7 DEF Paired
<1>9. Orderly(files)
  BY <1>4, <1>6 DEF Orderly, LiveIn
<1> QED BY <1>1, <1>5, <1>8, <1>9 DEF LawInv, Lawful, FinalOf

\* The steps that leave the tree it works towards alone.
LEMMA QuietKeepsLaw ==
  ASSUME LawInv, UNCHANGED <<files, plans, halted, merged, waived>>
  PROVE  LawInv'
BY DEF LawInv, Lawful, FinalOf

LEMMA ImportNextKeepsLaw ==
  ASSUME Inv, LawInv, ImportNext
  PROVE  LawInv'
<1>1. files' = FinalOf(files, plans) /\ plans' = <<>> /\ UNCHANGED <<halted, merged, waived>>
  BY NextPlan DEF ImportNext
<1>2. FinalOf(files', plans') = FinalOf(files, plans)
  BY <1>1 DEF FinalOf
<1> QED BY <1>1, <1>2 DEF LawInv, Lawful

LEMMA ImportStopKeepsLaw ==
  ASSUME LawInv, ImportStop
  PROVE  LawInv'
<1>1. plans' = <<>> /\ halted' = TRUE /\ UNCHANGED <<files, merged, waived>>
  BY DEF ImportStop
<1>2. FinalOf(files', plans') = files'
  BY <1>1 DEF FinalOf
<1> QED BY <1>1, <1>2 DEF LawInv, Lawful

\* A verb that commits its plan at once.
LEMMA LawfulVerbs ==
  ASSUME Inv, LawInv, NEW verb, On(verb)
  PROVE  Ready /\ Law
BY VerbIsReady, VerbIsLawful

LEMMA NextLaw ==
  ASSUME Inv, LawInv, [Next]_vars
  PROVE  LawInv'
<1>1. ASSUME NEW u \in FreshUids, NEW refs \in RefFlags(play.cast[u]), NEW v \in yaml.validators \cup {None},
             Add(u, refs, v)
      PROVE  LawInv'
  <2>1. Ready /\ Law /\ UNCHANGED <<plans, halted, merged>>
    BY <1>1, LawfulVerbs DEF Add, Commit
  <2> QED BY <1>1, <2>1, AddKeepsLaw, LawEnds
<1>2. ASSUME NEW id \in IDs, NEW to \in Statuses(id.kind), NEW force \in BOOLEAN, NEW o \in FlagsFor(id.kind, to),
             Promote(id, to, o, force)
      PROVE  LawInv'
  <2>1. Ready /\ Law /\ UNCHANGED <<plans, halted, merged>>
    BY <1>2, LawfulVerbs DEF Promote, Commit
  <2> QED BY <1>2, <2>1, PromoteKeepsLaw, LawEnds
<1>3. ASSUME NEW id \in IDs, Cancel(id) PROVE LawInv'
  <2>1. Ready /\ Law /\ UNCHANGED <<plans, halted, merged>>
    BY <1>3, LawfulVerbs DEF Cancel, Commit
  <2> QED BY <1>3, <2>1, CancelKeepsLaw, LawEnds
<1>4. ASSUME NEW id \in IDs, NEW deps \in SUBSET OfKind("milestone"), MilestoneDependsOn(id, deps) PROVE LawInv'
  <2>1. Ready /\ Law /\ UNCHANGED <<plans, halted, merged>>
    BY <1>4, LawfulVerbs DEF MilestoneDependsOn, Commit
  <2> QED BY <1>4, <2>1, DependsKeepsLaw, LawEnds
<1>5. ASSUME NEW id \in IDs, NEW v \in yaml.areas \cup {AreaGlobal, None}, SetArea(id, v) PROVE LawInv'
  <2>1. Ready /\ Law /\ UNCHANGED <<plans, halted, merged>>
    BY <1>5, LawfulVerbs DEF SetArea, Commit
  <2> QED BY <1>5, <2>1, AreaKeepsLaw, LawEnds
<1>6. ASSUME NEW old \in play.names, NEW new \in play.names, RenameArea(old, new) PROVE LawInv'
  <2>1. Ready /\ Law /\ UNCHANGED <<plans, halted, merged>>
    BY <1>6, LawfulVerbs DEF RenameArea, Commit
  <2> QED BY <1>6, <2>1, RenameAreaKeepsLaw, LawEnds
<1>7. ASSUME NEW id \in IDs, NEW level \in Levels \cup {None}, SetPriority(id, level) PROVE LawInv'
  <2>1. Ready /\ Law /\ UNCHANGED <<plans, halted, merged>>
    BY <1>7, LawfulVerbs DEF SetPriority, Commit
  <2> QED BY <1>7, <2>1, PriorityKeepsLaw, LawEnds
<1>8. ASSUME ArchiveSweep PROVE LawInv'
  <2>1. Ready /\ Law /\ UNCHANGED <<plans, halted, merged>>
    BY <1>8, LawfulVerbs DEF ArchiveSweep, Commit
  <2> QED BY <1>8, <2>1, SweepKeepsLaw, LawEnds
<1>9. ASSUME NEW e \in files, Reallocate(e) PROVE LawInv'
  <2>1. Ready /\ Law /\ UNCHANGED <<plans, halted, merged>>
    BY <1>9, LawfulVerbs DEF Reallocate, Commit
  <2> QED BY <1>9, <2>1, ReallocateKeepsLaw, LawEnds
<1>10. ASSUME NEW id \in IDs, NEW v \in yaml.validators, NEW force \in BOOLEAN, ContractBind(id, v, force) PROVE LawInv'
  BY <1>10, QuietKeepsLaw DEF ContractBind, CommitYaml
<1>11. ASSUME NEW n \in 1..MaxNum, ContractUnbind(n) PROVE LawInv'
  BY <1>11, QuietKeepsLaw DEF ContractUnbind, CommitYaml
<1>12. ASSUME NEW v \in play.tools, RecipeInstall(v) \/ RecipeRemove(v) PROVE LawInv'
  BY <1>12, QuietKeepsLaw DEF RecipeInstall, RecipeRemove, CommitYaml
<1>13. ASSUME NEW m \in Manifests, NEW onCollision \in {"fail", "skip", "update"}, NEW perEntity \in BOOLEAN,
              Import(m, onCollision, perEntity)
       PROVE  LawInv'
  <2>1. Ready /\ Law
    BY <1>13, LawfulVerbs DEF Import
  <2> QED BY <1>13, <2>1, ImportKeepsLaw
<1>14. ASSUME NEW u \in FreshUids, NEW n \in 1..MaxNum, NEW refs \in RefFlags(play.cast[u]), MergeIn(u, n, refs)
       PROVE  LawInv'
  <2>1. Ready /\ Law
    BY <1>14, LawfulVerbs DEF MergeIn
  <2> QED BY <1>14, <2>1, MergeKeepsLaw
<1>15. CASE ImportNext
  BY <1>15, ImportNextKeepsLaw
<1>16. CASE ImportStop
  BY <1>16, ImportStopKeepsLaw
<1>17. CASE UNCHANGED vars
  BY <1>17, QuietKeepsLaw DEF vars
<1> QED
  BY <1>1, <1>2, <1>3, <1>4, <1>5, <1>6, <1>7, <1>8, <1>9, <1>10, <1>11, <1>12, <1>13, <1>14, <1>15, <1>16, <1>17
  DEF Next

LEMMA LawInvariance == Spec => []LawInv
<1>1. Inv /\ LawInv /\ [Next]_vars => LawInv'
  BY NextLaw
<1> QED BY <1>1, StartIsLawful, Invariance, PTL DEF Spec

-----------------------------------------------------------------------------
(* What depends on what stays an order that can be worked through: as long  *)
(* as no merge brought a collision, neither depends_on nor superseded_by    *)
(* goes round, and no milestone still to be done waits for a cancelled one  *)
(* (check.noCycles and check.dependsOnCancelled behind projectionFindings). *)
THEOREM DependenciesStaySound == Spec => []DependenciesSound
<1>1. ASSUME Inv, LawInv PROVE DependenciesSound
  <2> SUFFICES ASSUME merged = {}, Whole
               PROVE  /\ Acyclic("depends_on", "milestone") /\ Acyclic("superseded_by", "adr")
                      /\ \A e \in files : \A r \in Targets(e, "depends_on") :
                           ~IsTerminal(e.kind, e.status) => ByID(T, IdOf(r)).status # "cancelled"
    BY DEF DependenciesSound, NoCycles, LiveDependenciesCanBeMet
  <2>1. FinalOf(files, plans) = files /\ ~halted
    BY DEF FinalOf, Whole
  <2>2. /\ play \in Scenarios /\ TreeOK(play, files) /\ Sound(files)
        /\ AllFit(files) /\ Paired(files, waived) /\ Orderly(files)
    BY <1>1, <2>1 DEF Inv, TypeInv, SoundInv, LawInv, Lawful
  <2>3. \A field, k : Acyclic(field, k) <=> AcyclicIn(files, field, k)
    BY DEF Acyclic, AcyclicIn, Successors, Leading, Numbers
  <2>4. ASSUME NEW e \in files, NEW r \in Targets(e, "depends_on"), ~IsTerminal(e.kind, e.status)
        PROVE  ByID(T, IdOf(r)).status # "cancelled"
    <3>1. e.kind = "milestone" /\ ~e.arch /\ r \in e.refs
      <4>1. r \in e.refs /\ r.field = "depends_on"
        BY DEF Targets
      <4>2. e.kind = "milestone"
        BY <2>2, <4>1 DEF AllFit, Fits, FieldFits
      <4>3. ~e.arch
        BY <2>2, <4>2 DEF AllFit, Fits
      <4> QED BY <4>1, <4>2, <4>3
    <3>2. PICK o \in files : IdOf(o) = IdOf(r)
      BY <2>2, <3>1 DEF Sound, RefsHold
    <3>3. o.status # "cancelled"
      BY <2>2, <2>4, <3>2 DEF Orderly, LiveIn
    <3>4. ByID(At(files), IdOf(o)) = o
      BY <2>2, LookupUnique DEF Sound
    <3> QED BY <3>2, <3>3, <3>4 DEF T
  <2> QED BY <2>2, <2>3, <2>4 DEF Orderly, Paired
<1> QED BY <1>1, Invariance, LawInvariance, PTL

(* An ADR that says what superseded it is listed there, and a gap closed as *)
(* addressed has its resolver, unless a --force or an import wrote it,      *)
(* through renumbering, sweeps and imports stopped half way                 *)
(* (reciprocalSupersedesOp; requireResolverForResolutionClass).             *)
THEOREM ResolutionsStayTwoSided == Spec => []ResolutionsAreTwoSided
<1>1. ASSUME Inv, LawInv PROVE ResolutionsAreTwoSided
  <2> SUFFICES ASSUME merged = {}, NEW e \in files, e.uid \notin waived
               PROVE  /\ e.kind = "gap" /\ e.status = "addressed" => HasResolver(e)
                      /\ \A r \in Targets(e, "superseded_by") :
                           \/ ByID(T, IdOf(r)).uid \in waived
                           \/ \E s \in Targets(ByID(T, IdOf(r)), "supersedes") : s.means = e.uid
    BY DEF ResolutionsAreTwoSided
  <2>1. play \in Scenarios /\ TreeOK(play, files) /\ Paired(files, waived)
    BY <1>1 DEF Inv, TypeInv, LawInv, Lawful
  <2>2. Settled(e) /\ \A r \in Targets(e, "superseded_by") : Superseded(e, r, files, waived)
    BY <2>1 DEF Paired
  <2>3. ASSUME NEW r \in Targets(e, "superseded_by")
        PROVE  \/ ByID(T, IdOf(r)).uid \in waived
               \/ \E s \in Targets(ByID(T, IdOf(r)), "supersedes") : s.means = e.uid
    <3>1. PICK o \in files : IdOf(o) = IdOf(r) /\ Acknowledged(e, o, waived)
      BY <2>2 DEF Superseded
    <3>2. ByID(At(files), IdOf(o)) = o
      BY <2>1, LookupUnique DEF Paired
    <3>3. ByID(T, IdOf(r)) = o
      BY <3>1, <3>2 DEF T
    <3> QED BY <3>1, <3>3 DEF Acknowledged
  <2> QED BY <2>2, <2>3 DEF Settled
<1> QED BY <1>1, Invariance, LawInvariance, PTL
=============================================================================
