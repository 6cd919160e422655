---------------------------- MODULE BranchProofs ----------------------------
(***************************************************************************)
(* Proofs about Branches: what reaches the published trunk is sound, and   *)
(* worktrees collide in a race only, for any number of checkouts,          *)
(* decisions and commits.                                                  *)
(***************************************************************************)
EXTENDS Branches, Inductions

-----------------------------------------------------------------------------
(* The records.  Every file is a decision, never narrow or archived; which   *)
(* commit touched it last says nothing of its path, id or references.        *)
RefRecord == [field : {"relates_to"}, kind : {"decision"}, n : Nat, ac : {0}, means : {0}]
File ==
  [uid : Nat, kind : {"decision"}, n : Nat, narrow : {FALSE}, slug : Nat, parses : {TRUE},
   status : {"proposed"}, arch : {FALSE}, area : {None}, prio : {None}, refs : SUBSET RefRecord,
   prior : SUBSET Nat, byCommit : {FALSE}, acs : {{}}, ver : Nat]

LEMMA FileFacts ==
  ASSUME NEW e \in File
  PROVE  /\ e.uid \in Nat /\ e.n \in Nat /\ e.slug \in Nat /\ e.ver \in Nat
         /\ e.kind = "decision" /\ e.narrow = FALSE /\ e.parses = TRUE /\ e.arch = FALSE
         /\ e.refs \subseteq RefRecord /\ e.prior \subseteq Nat
BY DEF File

LEMMA SamePath ==
  ASSUME NEW e \in File, NEW o \in File
  PROVE  /\ IdOf(e) = IdOf(o) <=> e.n = o.n
         /\ SameRawID(e, o) <=> e.n = o.n
         /\ PathOf(e) = PathOf(o) <=> (e.n = o.n /\ e.slug = o.slug)
<1>1. IdOf(e) = IdOf(o) <=> e.n = o.n
  BY FileFacts DEF IdOf
<1>2. SameRawID(e, o) <=> e.n = o.n
  BY <1>1, FileFacts DEF SameRawID
<1>3. ActiveForm(e) = ActiveForm(o) <=> (e.n = o.n /\ e.slug = o.slug)
  BY FileFacts DEF ActiveForm
<1>4. PathOf(e) = PathOf(o) <=> ActiveForm(e) = ActiveForm(o)
  BY FileFacts DEF PathOf
<1> QED
  BY <1>1, <1>2, <1>3, <1>4

LEMMA Stamped ==
  ASSUME NEW e \in File, NEW k \in Nat
  PROVE  LET f == [e EXCEPT !.ver = k] IN
         f \in File /\ f.uid = e.uid /\ f.n = e.n /\ f.slug = e.slug /\ f.refs = e.refs
BY DEF File

(* No two files have one path; of two decisions with one id the walk meets   *)
(* one first.                                                                *)
PathsDistinct(fs) == \A e, o \in fs : PathOf(e) = PathOf(o) => e = o

LEMMA BeforeTotal ==
  ASSUME NEW e \in File, NEW o \in File, e.n = o.n, PathOf(e) # PathOf(o)
  PROVE  Before(e, o) \/ Before(o, e)
<1>1. e.slug < o.slug \/ o.slug < e.slug
  <2>1. e.slug # o.slug
    BY SamePath
  <2>2. e.slug \in Nat /\ o.slug \in Nat
    BY FileFacts
  <2> QED
    BY <2>1, <2>2
<1>2. ASSUME NEW a \in File, NEW b \in File, a.slug < b.slug PROVE Before(a, b)
  <2>1. /\ a.parses = TRUE /\ b.parses = TRUE /\ a.arch = FALSE /\ b.arch = FALSE
        /\ a.narrow = FALSE /\ b.narrow = FALSE
    BY FileFacts
  <2>2. <<0, 0, 0, a.slug>>[4] < <<0, 0, 0, b.slug>>[4]
    BY <1>2
  <2>3. \A j \in 1..(4 - 1) : <<0, 0, 0, a.slug>>[j] = <<0, 0, 0, b.slug>>[j]
    OBVIOUS
  <2>4. \E i \in 1..4 : /\ <<0, 0, 0, a.slug>>[i] < <<0, 0, 0, b.slug>>[i]
                        /\ \A j \in 1..(i - 1) : <<0, 0, 0, a.slug>>[j] = <<0, 0, 0, b.slug>>[j]
    BY <2>2, <2>3
  <2> DEFINE key(e1) == <<IF e1.parses THEN 0 ELSE 1, IF e1.arch THEN 1 ELSE 0,
                          IF e1.narrow THEN 1 ELSE 0, e1.slug>>
  <2>5. key(a) = <<0, 0, 0, a.slug>> /\ key(b) = <<0, 0, 0, b.slug>>
    BY <2>1
  <2>6. Before(a, b) <=> \E i \in 1..4 : key(a)[i] < key(b)[i] /\ \A j \in 1..(i - 1) : key(a)[j] = key(b)[j]
    BY DEF Before
  <2> HIDE DEF key
  <2> QED
    BY <2>4, <2>5, <2>6
<1> QED
  BY <1>1, <1>2

-----------------------------------------------------------------------------
(* The log.  A commit holds files of well-formed decisions under distinct    *)
(* paths, whose numbers are no higher than its own; it reaches itself and    *)
(* whatever a commit it reaches does.                                        *)
IsSeq(l) == \E S : l \in Seq(S)
FilesIn(l, k) == IF k = 0 THEN {} ELSE l[k].files
ReachIn(l, k) == IF k = 0 THEN {} ELSE l[k].reach

FilesOK(fs, top) == fs \subseteq File /\ PathsDistinct(fs) /\ \A e \in fs : e.n \in 1..top
LogOK(l) ==
  /\ IsSeq(l)
  /\ \A k \in 1..Len(l) :
       /\ FilesOK(l[k].files, k)
       /\ l[k].reach \subseteq 1..k /\ k \in l[k].reach
       /\ \A j \in l[k].reach : l[j].reach \subseteq l[k].reach

LEMMA SeqFacts ==
  ASSUME NEW l, IsSeq(l), NEW x
  PROVE  /\ Len(l) \in Nat /\ DOMAIN l = 1..Len(l)
         /\ IsSeq(Append(l, x)) /\ Len(Append(l, x)) = Len(l) + 1
         /\ \A k \in 1..Len(l) : Append(l, x)[k] = l[k]
         /\ Append(l, x)[Len(l) + 1] = x
<1>1. PICK S : l \in Seq(S)
  BY DEF IsSeq
<1>2. l \in Seq(S \cup {x}) /\ x \in S \cup {x}
  BY <1>1
<1> DEFINE R == S \cup {x}
<1>3. l \in Seq(R) /\ x \in R
  BY <1>2
<1> HIDE DEF R
<1>4. Append(l, x) \in Seq(R)
  BY <1>3
<1> QED
  BY <1>3, <1>4 DEF IsSeq

LEMMA Appended ==
  ASSUME NEW l, LogOK(l), NEW x, FilesOK(x.files, Len(l) + 1),
         NEW a \in 0..Len(l), NEW b \in 0..Len(l),
         x.reach = ReachIn(l, a) \cup ReachIn(l, b) \cup {Len(l) + 1}
  PROVE  LET m == Append(l, x) IN
         /\ LogOK(m) /\ Len(m) = Len(l) + 1
         /\ \A k \in 0..Len(l) : FilesIn(m, k) = FilesIn(l, k) /\ ReachIn(m, k) = ReachIn(l, k)
         /\ FilesIn(m, Len(l) + 1) = x.files /\ ReachIn(m, Len(l) + 1) = x.reach
<1> DEFINE m == Append(l, x)
           n == Len(l) + 1
<1>1. /\ IsSeq(l) /\ Len(l) \in Nat /\ n \in Nat \ {0} /\ IsSeq(m) /\ Len(m) = n /\ m[n] = x
      /\ \A k \in 1..Len(l) : m[k] = l[k]
  BY SeqFacts DEF LogOK
<1> HIDE DEF m
<1>2. /\ \A k \in 0..Len(l) : FilesIn(m, k) = FilesIn(l, k) /\ ReachIn(m, k) = ReachIn(l, k)
      /\ FilesIn(m, n) = x.files /\ ReachIn(m, n) = x.reach
  BY <1>1 DEF FilesIn, ReachIn
<1>3. ASSUME NEW k \in 1..Len(l)
      PROVE  /\ FilesOK(m[k].files, k)
             /\ m[k].reach \subseteq 1..k /\ k \in m[k].reach
             /\ \A j \in m[k].reach : m[j].reach \subseteq m[k].reach
  <2>1. /\ FilesOK(l[k].files, k) /\ l[k].reach \subseteq 1..k /\ k \in l[k].reach
        /\ \A j \in l[k].reach : l[j].reach \subseteq l[k].reach
    BY DEF LogOK
  <2>2. m[k] = l[k]
    BY <1>1
  <2>3. ASSUME NEW j \in l[k].reach PROVE m[j] = l[j]
    BY <1>1, <2>1
  <2> QED
    BY <2>1, <2>2, <2>3
<1>4. ASSUME NEW c \in 0..Len(l)
      PROVE  /\ ReachIn(l, c) \subseteq 1..Len(l)
             /\ \A j \in ReachIn(l, c) : m[j].reach \subseteq ReachIn(l, c)
  <2>1. CASE c = 0
    BY <2>1 DEF ReachIn
  <2>2. CASE c # 0
    <3>1. c \in 1..Len(l) /\ ReachIn(l, c) = l[c].reach /\ m[c] = l[c]
      BY <1>1, <2>2 DEF ReachIn
    <3> QED
      BY <1>1, <1>3, <3>1
  <2> QED
    BY <2>1, <2>2
<1>5. /\ FilesOK(m[n].files, n) /\ m[n].reach \subseteq 1..n /\ n \in m[n].reach
      /\ \A j \in m[n].reach : m[j].reach \subseteq m[n].reach
  <2>1. m[n].reach = ReachIn(l, a) \cup ReachIn(l, b) \cup {n}
    BY <1>1
  <2>2. ReachIn(l, a) \subseteq 1..Len(l) /\ ReachIn(l, b) \subseteq 1..Len(l)
    BY <1>4
  <2>3. ASSUME NEW j \in m[n].reach PROVE m[j].reach \subseteq m[n].reach
    BY <1>4, <2>1
  <2> QED
    BY <1>1, <2>1, <2>2, <2>3
<1>6. LogOK(m)
  <2>1. \A k \in 1..n : k \in 1..Len(l) \/ k = n
    BY <1>1
  <2> QED
    BY <1>1, <1>3, <1>5, <2>1 DEF LogOK
<1> QED
  BY <1>1, <1>2, <1>6 DEF m

-----------------------------------------------------------------------------
(* The invariant.                                                            *)
Remotes(n) == [trunk : 1..n, branch : [Checkouts -> 0..n]]

(* Types, and a plan's files are no older than its checkout's branch.        *)
ShapeInv ==
  /\ play \in Scenarios
  /\ LogOK(log)
  /\ tip \in [Checkouts -> 1..Len(log)]
  /\ origin \in Remotes(Len(log))
  /\ tracked \in [Checkouts -> Remotes(Len(log))]
  /\ planned \in [Checkouts -> [verb : {"", "add", "rename", "reallocate"},
                                files : SUBSET File, seen : 0..Len(log)]]
  /\ raced \in BOOLEAN
  /\ \A c \in Checkouts : ~Idle(c) =>
       FilesOK(planned[c].files, planned[c].seen + 1) /\ tip[c] <= planned[c].seen

(* What a repository knows of the remote is of its past.                     *)
RemoteOK(l, org, trk) ==
  \A c \in Checkouts :
    /\ trk[c].trunk \in ReachIn(l, org.trunk)
    /\ \A d \in Checkouts : trk[c].branch[d] \in {0, org.branch[d]}

(* No decision of the one set has the number of another of the other.        *)
Apart(fs, gs) == \A e \in fs, o \in gs : e.uid # o.uid => e.n # o.n

(* The trunk's numbers are apart, and what it cites is published.            *)
Published(l, org) == ReachIn(l, org.trunk) \cup UNION {ReachIn(l, org.branch[c]) : c \in Checkouts}
Cited(l, ks, r) == \E k \in ks : \E o \in FilesIn(l, k) : IdOf(o) = IdOf(r)
TrunkOK(l, org) ==
  /\ Apart(FilesIn(l, org.trunk), FilesIn(l, org.trunk))
  /\ \A e \in FilesIn(l, org.trunk) : \A r \in e.refs : Cited(l, Published(l, org), r)

(* Of worktrees.  A ref newer than a plan came from a branch that its owner  *)
(* has moved since; as long as no verb raced another, all refs are apart,    *)
(* and a plan is from those no newer than itself.                            *)
RefsOf(t, org) == {t[d] : d \in Checkouts} \cup {org.trunk} \cup {org.branch[d] : d \in Checkouts}
CurrentOK(t, org, p) ==
  \A c \in Checkouts : p[c] # NoPlan =>
    \A k \in RefsOf(t, org) : k <= p[c].seen \/ \E d \in Checkouts \ {c} : t[d] > p[c].seen
DistinctOK(l, t, org, p) ==
  /\ \A k, j \in RefsOf(t, org) : Apart(FilesIn(l, k), FilesIn(l, j))
  /\ \A c \in Checkouts : p[c] # NoPlan =>
       /\ Apart(p[c].files, p[c].files)
       /\ \A k \in RefsOf(t, org) : k <= p[c].seen => Apart(p[c].files, FilesIn(l, k))

BranchInv ==
  /\ ShapeInv
  /\ RemoteOK(log, origin, tracked)
  /\ TrunkOK(log, origin)
  /\ play.layout = "worktrees" =>
       /\ \A c \in Checkouts : tracked[c] = origin
       /\ CurrentOK(tip, origin, planned)
       /\ ~raced => DistinctOK(log, tip, origin, planned)

-----------------------------------------------------------------------------
(* Reading the state.                                                        *)
LEMMA FilesAt ==
  ASSUME ShapeInv, NEW k \in 0..Len(log)
  PROVE  /\ Files(k) = FilesIn(log, k) /\ Reach(k) = ReachIn(log, k)
         /\ Len(log) \in Nat /\ DOMAIN log = 1..Len(log)
         /\ FilesOK(Files(k), Len(log)) /\ Reach(k) \subseteq 1..k
         /\ k # 0 => k \in Reach(k)
         /\ \A j \in Reach(k) : Reach(j) \subseteq Reach(k)
<1>1. LogOK(log) /\ Len(log) \in Nat /\ DOMAIN log = 1..Len(log)
  BY SeqFacts DEF ShapeInv, LogOK
<1>2. Files(k) = FilesIn(log, k) /\ Reach(k) = ReachIn(log, k)
  BY DEF Files, Reach, FilesIn, ReachIn
<1>3. CASE k = 0
  <2>1. Files(k) = {} /\ Reach(k) = {}
    BY <1>3 DEF Files, Reach
  <2> QED
    BY <1>1, <1>2, <1>3, <2>1 DEF FilesOK, PathsDistinct
<1>4. CASE k # 0
  <2>1. k \in 1..Len(log) /\ Files(k) = log[k].files /\ Reach(k) = log[k].reach
    BY <1>1, <1>4 DEF Files, Reach
  <2>2. /\ FilesOK(log[k].files, k) /\ log[k].reach \subseteq 1..k /\ k \in log[k].reach
        /\ \A j \in log[k].reach : log[j].reach \subseteq log[k].reach
    BY <1>1, <2>1 DEF LogOK
  <2>3. FilesOK(log[k].files, Len(log))
    BY <1>1, <2>1, <2>2 DEF FilesOK
  <2>4. \A j \in Reach(k) : Reach(j) = log[j].reach
    BY <2>1, <2>2 DEF Reach
  <2> QED
    BY <1>1, <1>2, <2>1, <2>2, <2>3, <2>4
<1> QED
  BY <1>3, <1>4

LEMMA RefFacts ==
  ASSUME ShapeInv, NEW c \in Checkouts
  PROVE  /\ tip[c] \in 1..Len(log) /\ tracked[c].trunk \in 1..Len(log)
         /\ origin.trunk \in 1..Len(log) /\ Len(log) \in Nat
         /\ \A d \in Checkouts : origin.branch[d] \in 0..Len(log) /\ tracked[c].branch[d] \in 0..Len(log)
         /\ planned[c].seen \in 0..Len(log) /\ planned[c].files \subseteq File
         /\ tip[c] \in 0..Len(log) /\ tracked[c].trunk \in 0..Len(log) /\ origin.trunk \in 0..Len(log)
<1>1. Len(log) \in Nat
  BY FilesAt, SeqFacts DEF ShapeInv, LogOK
<1>2. /\ tip[c] \in 1..Len(log) /\ tracked[c] \in Remotes(Len(log)) /\ origin \in Remotes(Len(log))
      /\ planned[c].seen \in 0..Len(log) /\ planned[c].files \subseteq File
  BY DEF ShapeInv
<1> QED
  BY <1>1, <1>2 DEF Remotes

(* What a checkout looks at when it allocates.                               *)
InView(c) == LocalBranchRefs(c) \cup RemoteTrackingRefs(c)

LEMMA InViewFacts ==
  ASSUME ShapeInv, NEW c \in Checkouts
  PROVE  InView(c) \subseteq 0..Len(log) /\ tip[c] \in InView(c)
<1>1. RepoOf(c) \subseteq Checkouts /\ c \in RepoOf(c)
  BY DEF RepoOf
<1>2. \A d \in Checkouts : tip[d] \in 0..Len(log)
  BY RefFacts
<1>3. RemoteTrackingRefs(c) \subseteq 0..Len(log)
  BY RefFacts DEF RemoteTrackingRefs
<1> QED
  BY <1>1, <1>2, <1>3 DEF InView, LocalBranchRefs

LEMMA LoadFacts ==
  ASSUME NEW c
  PROVE  LET t == LoadTreeWithTrunk(c) IN
         /\ t.files = Files(tip[c]) /\ t.trunk = Files(tracked[c].trunk)
         /\ t.hits = ScanCrossBranch(c)
         /\ t.hasRemotes = TRUE /\ t.scanned = TRUE
BY DEF LoadTreeWithTrunk, Read

LEMMA ScanFacts ==
  ASSUME NEW c
  PROVE  /\ \A h \in ScanCrossBranch(c) :
              \E k \in InView(c) : \E e \in Files(k) : h.n = e.n /\ h.kind = e.kind
         /\ \A h \in ScanCrossBranch(c) : h.remote =>
              \E k \in RemoteTrackingRefs(c) : \E e \in Files(k) : h.n = e.n /\ h.kind = e.kind
         /\ \A k \in InView(c) : \A e \in Files(k) :
              \E h \in ScanCrossBranch(c) : h.n = e.n /\ h.kind = e.kind
<1> DEFINE content(e) == [e EXCEPT !.ver = 0, !.arch = FALSE]
           here(e) == [kind |-> e.kind, n |-> e.n, remote |-> FALSE, content |-> content(e)]
           away(e) == [kind |-> e.kind, n |-> e.n, remote |-> TRUE, content |-> content(e)]
           local == UNION {Files(k) : k \in LocalBranchRefs(c)}
           there == UNION {Files(k) : k \in RemoteTrackingRefs(c)}
<1>1. ScanCrossBranch(c) = {here(e) : e \in local} \cup {away(e) : e \in there}
  BY DEF ScanCrossBranch, refHits
<1>2. /\ \A e : here(e).kind = e.kind /\ here(e).n = e.n /\ ~here(e).remote
      /\ \A e : away(e).kind = e.kind /\ away(e).n = e.n
  OBVIOUS
<1>3. /\ \A e : e \in local <=> \E k \in LocalBranchRefs(c) : e \in Files(k)
      /\ \A e : e \in there <=> \E k \in RemoteTrackingRefs(c) : e \in Files(k)
  OBVIOUS
<1> HIDE DEF here, away, local, there
<1>4. \A k : k \in InView(c) <=> k \in LocalBranchRefs(c) \/ k \in RemoteTrackingRefs(c)
  BY DEF InView
<1>5. \A h : h \in ScanCrossBranch(c) <=> (\E e \in local : h = here(e)) \/ (\E e \in there : h = away(e))
  BY <1>1
<1>6. ASSUME NEW h \in ScanCrossBranch(c)
      PROVE  /\ \E k \in InView(c) : \E e \in Files(k) : h.n = e.n /\ h.kind = e.kind
             /\ h.remote => \E k \in RemoteTrackingRefs(c) : \E e \in Files(k) : h.n = e.n /\ h.kind = e.kind
  <2>1. CASE \E e \in local : h = here(e)
    BY <1>2, <1>3, <1>4, <2>1
  <2>2. CASE \E e \in there : h = away(e)
    BY <1>2, <1>3, <1>4, <2>2
  <2> QED
    BY <1>5, <2>1, <2>2
<1>7. ASSUME NEW k \in InView(c), NEW e \in Files(k)
      PROVE  \E h \in ScanCrossBranch(c) : h.n = e.n /\ h.kind = e.kind
  <2>1. e \in local \/ e \in there
    BY <1>3, <1>4
  <2>2. here(e) \in ScanCrossBranch(c) \/ away(e) \in ScanCrossBranch(c)
    BY <1>5, <2>1
  <2> QED
    BY <1>2, <2>2
<1> QED
  BY <1>6, <1>7

LEMMA MaxFacts ==
  ASSUME NEW S, S \subseteq Nat, 0 \in S, NEW b \in Nat, \A s \in S : s <= b
  PROVE  Max(S) \in S /\ \A s \in S : s <= Max(S)
<1>1. \E x \in S : \A y \in S : y <= x
  BY GreatestElement
<1>2. \E x \in S : \A y \in S : x >= y
  BY <1>1
<1>3. Max(S) \in S /\ \A y \in S : Max(S) >= y
  BY <1>2 DEF Max
<1> QED
  BY <1>3

(* The number add and reallocate take is above every one in view.            *)
LEMMA Allocation ==
  ASSUME ShapeInv, NEW c \in Checkouts
  PROVE  LET t == LoadTreeWithTrunk(c)
             n == AllocateID(t, "decision", AllocationIDs(t))
         IN /\ n \in 1..(Len(log) + 1)
            /\ \A k \in InView(c) : \A e \in Files(k) : e.n < n
<1> DEFINE t == LoadTreeWithTrunk(c)
           N == {e.n : e \in ByKind(t, "decision")}
           M == {i.n : i \in {i \in AllocationIDs(t) : i.kind = "decision"}}
           S == {0} \cup N \cup M
           within(fs) == \A e \in fs : e.n \in 1..Len(log) /\ e.kind = "decision" /\ e \in File
<1>1. /\ t.files = Files(tip[c]) /\ t.trunk = Files(tracked[c].trunk)
      /\ t.hits = ScanCrossBranch(c)
  BY LoadFacts
<1> HIDE DEF t
<1>0. Len(log) \in Nat
  BY RefFacts
<1>2. Len(log) \in Nat /\ \A k \in 0..Len(log) : within(Files(k))
  BY FilesAt, FileFacts, RefFacts DEF FilesOK
<1>3. /\ InView(c) \subseteq 0..Len(log) /\ tip[c] \in InView(c)
      /\ tip[c] \in 0..Len(log) /\ tracked[c].trunk \in 0..Len(log)
  BY InViewFacts, RefFacts
<1>4. \A i \in AllocationIDs(t) : i.n \in 0..Len(log)
  <2>1. ASSUME NEW e \in t.trunk PROVE IdOf(e).n \in 0..Len(log)
    BY <1>1, <1>2, <1>3 DEF IdOf
  <2>2. ASSUME NEW h \in t.hits PROVE IdOf(h).n \in 0..Len(log)
    <3>1. PICK k \in InView(c) : \E e \in Files(k) : h.n = e.n
      BY <1>1, ScanFacts
    <3> QED
      BY <1>2, <1>3, <3>1 DEF IdOf
  <2> QED
    BY <2>1, <2>2 DEF AllocationIDs
<1>5. \A n \in N : n \in 0..Len(log)
  BY <1>1, <1>2, <1>3 DEF ByKind, Entities
<1>6. S \subseteq Nat /\ 0 \in S /\ \A s \in S : s <= Len(log)
  BY <1>2, <1>4, <1>5
<1>7. ASSUME NEW k \in InView(c), NEW e \in Files(k) PROVE e.n \in S
  <2>1. e.kind = "decision"
    BY <1>2, <1>3
  <2>2. PICK h \in t.hits : h.n = e.n /\ h.kind = "decision"
    BY <1>1, <2>1, ScanFacts
  <2>3. IdOf(h) \in AllocationIDs(t)
    BY DEF AllocationIDs
  <2>4. IdOf(h).n = e.n /\ IdOf(h).kind = "decision"
    BY <2>2 DEF IdOf
  <2> QED
    BY <2>3, <2>4
<1>8. AllocateID(t, "decision", AllocationIDs(t)) = Max(S) + 1
  BY Zenon DEF AllocateID
<1> HIDE DEF S
<1>9. Max(S) \in S /\ \A s \in S : s <= Max(S)
  BY <1>2, <1>6, MaxFacts
<1>10. Max(S) \in 0..Len(log)
  <2>1. Max(S) \in S
    BY <1>9
  <2>2. Max(S) \in Nat
    BY <1>6, <2>1
  <2>3. Max(S) <= Len(log)
    BY <1>6, <2>1
  <2> QED
    BY <1>0, <2>2, <2>3
<1>11. \A k \in InView(c) : \A e \in Files(k) : e.n < Max(S) + 1
  <2> SUFFICES ASSUME NEW k \in InView(c), NEW e \in Files(k) PROVE e.n < Max(S) + 1
    OBVIOUS
  <2>1. e.n <= Max(S) /\ e.n \in Nat
    BY <1>6, <1>7, <1>9
  <2> QED
    BY <1>10, <2>1
<1> QED
  BY <1>2, <1>8, <1>10, <1>11 DEF t

-----------------------------------------------------------------------------
(* What the verbs plan: files of the branch, one of which may be new or      *)
(* have a new number, above all in view.                                     *)
Derived(c, fs) ==
  /\ FilesOK(fs, Len(log) + 1)
  /\ \E h : \A f \in fs :
       \/ f = h /\ \A k \in InView(c) : \A e \in Files(k) : e.n < f.n
       \/ \E e \in Files(tip[c]) : f.uid = e.uid /\ f.n = e.n

LEMMA OneHigher ==
  ASSUME ShapeInv, NEW c \in Checkouts, NEW gs \in SUBSET File, NEW h \in File,
         h.n \in 1..(Len(log) + 1), \A k \in InView(c) : \A e \in Files(k) : e.n < h.n,
         PathsDistinct(gs),
         \A g \in gs : \E e \in Files(tip[c]) : g.uid = e.uid /\ g.n = e.n
  PROVE  Derived(c, gs \cup {h})
<1>1. /\ tip[c] \in InView(c) /\ tip[c] \in 0..Len(log) /\ Len(log) \in Nat
  BY InViewFacts, RefFacts
<1>2. \A e \in Files(tip[c]) : e.n \in 1..Len(log)
  BY <1>1, FilesAt DEF FilesOK
<1>3. \A g \in gs : g.n \in 1..Len(log) /\ g.n < h.n
  BY <1>1, <1>2
<1>4. \A g \in gs : PathOf(g) # PathOf(h)
  BY <1>3, SamePath
<1>5. FilesOK(gs \cup {h}, Len(log) + 1)
  BY <1>1, <1>3, <1>4 DEF FilesOK, PathsDistinct
<1> QED
  BY <1>5 DEF Derived

LEMMA CitableRefs == ASSUME ShapeInv PROVE \A refs \in RefSets : refs \subseteq RefRecord
<1>1. \A k \in Commits : FilesOK(Files(k), Len(log))
  <2>1. Commits = 1..Len(log) /\ Len(log) \in Nat
    BY SeqFacts DEF Commits, ShapeInv, LogOK
  <2> QED
    BY <2>1, FilesAt
<1>2. ASSUME NEW id \in AllIDs PROVE id.kind = "decision" /\ id.n \in Nat
  <2>1. PICK e \in UNION {Files(k) : k \in Commits} : id = IdOf(e)
    BY DEF AllIDs
  <2>2. e \in File
    BY <1>1 DEF FilesOK
  <2> QED
    BY <2>1, <2>2, FileFacts DEF IdOf
<1>3. ASSUME NEW id \in AllIDs PROVE Ref("relates_to", id.kind, id.n, 0, 0) \in RefRecord
  BY <1>2 DEF Ref, RefRecord
<1> QED
  BY <1>3 DEF RefSets

LEMMA AddDerived ==
  ASSUME ShapeInv, NEW c \in Checkouts, NEW u \in Fresh, NEW refs \in RefSets,
         NEW n, n = AllocateID(LoadTreeWithTrunk(c), "decision", AllocationIDs(LoadTreeWithTrunk(c)))
  PROVE  Derived(c, Files(tip[c]) \cup {NewFile(u, n, refs)})
<1>1. n \in 1..(Len(log) + 1) /\ \A k \in InView(c) : \A e \in Files(k) : e.n < n
  BY Allocation
<1>2. Len(log) \in Nat /\ tip[c] \in 0..Len(log)
  BY RefFacts
<1>3. u \in Nat
  <2>1. play \in Scenarios
    BY DEF ShapeInv
  <2>2. play.uids \in Nat
    BY <2>1, BranchesAssumption
  <2> QED
    BY <2>2 DEF Fresh
<1>4. refs \subseteq RefRecord
  BY CitableRefs
<1>5. NewFile(u, n, refs) \in File /\ NewFile(u, n, refs).n = n
  BY <1>1, <1>2, <1>3, <1>4 DEF NewFile, File
<1>6. Files(tip[c]) \subseteq File /\ PathsDistinct(Files(tip[c]))
  BY <1>2, FilesAt DEF FilesOK
<1> QED
  BY <1>1, <1>5, <1>6, OneHigher

LEMMA RetitleDerived ==
  ASSUME ShapeInv, NEW c \in Checkouts, NEW e \in Files(tip[c]),
         \A o \in Files(tip[c]) \ {e} : ~SameRawID(o, e)
  PROVE  Derived(c, (Files(tip[c]) \ {e}) \cup {[e EXCEPT !.slug = @ + 10]})
<1> DEFINE fs == Files(tip[c])
           r == [e EXCEPT !.slug = @ + 10]
<1>1. FilesOK(fs, Len(log)) /\ Len(log) \in Nat
  BY RefFacts, FilesAt
<1>2. r \in File /\ r.n = e.n /\ r.uid = e.uid
  <2>1. e \in File
    BY <1>1 DEF FilesOK
  <2>s. e.slug \in Nat
    BY <2>1, FileFacts
  <2>2. PICK s \in Nat : s = e.slug + 10
    BY <2>s
  <2>3. /\ [e EXCEPT !.slug = s] \in File
        /\ [e EXCEPT !.slug = s].n = e.n /\ [e EXCEPT !.slug = s].uid = e.uid
    BY <2>1 DEF File
  <2> QED
    BY <2>2, <2>3
<1>3. \A o \in fs \ {e} : o.n # r.n
  BY <1>1, <1>2, SamePath DEF FilesOK
<1> HIDE DEF fs, r
<1>4. \A o \in fs \ {e} : PathOf(o) # PathOf(r)
  BY <1>1, <1>2, <1>3, SamePath DEF FilesOK
<1>5. e \in fs
  BY DEF fs
<1>6. FilesOK((fs \ {e}) \cup {r}, Len(log) + 1)
  BY <1>1, <1>2, <1>4, <1>5 DEF FilesOK, PathsDistinct
<1>7. \A f \in (fs \ {e}) \cup {r} : \E o \in fs : f.uid = o.uid /\ f.n = o.n
  BY <1>2, <1>5
<1> QED
  BY <1>6, <1>7 DEF Derived, fs, r

LEMMA RewriteFacts ==
  ASSUME NEW o \in File, NEW old, NEW n \in Nat
  PROVE  LET f == rewriteEntityRefs(o, old, n) IN
         f \in File /\ f.uid = o.uid /\ f.n = o.n /\ f.slug = o.slug
<1> DEFINE refs == {IF r.field \in RewrittenFields /\ IdOf(r) = old /\ ~IsComposite(r)
                    THEN [r EXCEPT !.n = n] ELSE r : r \in o.refs}
<1>1. \A r \in RefRecord : [r EXCEPT !.n = n] \in RefRecord
  BY DEF RefRecord
<1>2. refs \subseteq RefRecord
  BY <1>1, FileFacts
<1>3. rewriteEntityRefs(o, old, n) = [o EXCEPT !.refs = refs]
  BY DEF rewriteEntityRefs
<1> HIDE DEF refs
<1> QED
  BY <1>2, <1>3 DEF File

LEMMA ReallocateDerived ==
  ASSUME ShapeInv, NEW c \in Checkouts, NEW e \in Files(tip[c])
  PROVE  Derived(c, ReallocatedTree(LoadTreeWithTrunk(c), e).files)
<1> DEFINE t == LoadTreeWithTrunk(c)
           fs == Files(tip[c])
<1>1. FilesOK(fs, Len(log)) /\ Len(log) \in Nat /\ e \in File /\ e.kind = "decision"
  BY RefFacts, FilesAt, FileFacts DEF FilesOK
<1>2. PICK n : n = AllocateID(t, "decision", AllocationIDs(t))
  OBVIOUS
<1>3. n \in 1..(Len(log) + 1) /\ n \in Nat /\ \A k \in InView(c) : \A o \in Files(k) : o.n < n
  BY <1>1, <1>2, Allocation
<1> DEFINE gs == {rewriteEntityRefs(o, IdOf(e), n) : o \in fs \ {e}}
           h == Renumbered(e, n)
<1>4. ReallocatedTree(t, e).files = gs \cup {h}
  <2>1. ReallocatedTree(t, e).files = Reallocated(fs, e, n)
    BY <1>1, <1>2 DEF ReallocatedTree, LoadTreeWithTrunk
  <2> QED
    BY <2>1 DEF Reallocated
<1>5. h \in File /\ h.n = n
  BY <1>1, <1>3 DEF Renumbered, File
<1>6. \A g \in gs : g \in File /\ \E o \in fs : /\ g.uid = o.uid /\ g.n = o.n /\ g.slug = o.slug
                                             /\ g = rewriteEntityRefs(o, IdOf(e), n)
  BY <1>1, <1>3, RewriteFacts DEF FilesOK
<1>7. PathsDistinct(gs)
  <2> SUFFICES ASSUME NEW a \in gs, NEW b \in gs, PathOf(a) = PathOf(b) PROVE a = b
    BY DEF PathsDistinct
  <2>1. PICK x \in fs : a.n = x.n /\ a.slug = x.slug /\ a = rewriteEntityRefs(x, IdOf(e), n)
    BY <1>6
  <2>2. PICK y \in fs : b.n = y.n /\ b.slug = y.slug /\ b = rewriteEntityRefs(y, IdOf(e), n)
    BY <1>6
  <2>3. a.n = b.n /\ a.slug = b.slug
    BY <1>6, SamePath
  <2>4. PathOf(x) = PathOf(y)
    BY <1>1, <2>1, <2>2, <2>3, SamePath DEF FilesOK
  <2> QED
    BY <1>1, <2>1, <2>2, <2>4 DEF FilesOK, PathsDistinct
<1>8. Derived(c, gs \cup {h})
  <2> HIDE DEF gs, h, t
  <2>1. gs \in SUBSET File /\ \A g \in gs : \E o \in fs : g.uid = o.uid /\ g.n = o.n
    BY <1>6
  <2>2. h.n \in 1..(Len(log) + 1) /\ \A k \in InView(c) : \A o \in Files(k) : o.n < h.n
    BY <1>3, <1>5
  <2> QED
    BY <1>5, <1>7, <2>1, <2>2, OneHigher
<1> QED
  BY <1>4, <1>8

LEMMA TargetFacts ==
  ASSUME NEW c, NEW id
  PROVE  resolveReallocateTarget(c, id) \subseteq Files(tip[c])
<1>1. ByIDAll(LoadTreeWithTrunk(c), id) \subseteq Files(tip[c])
  BY LoadFacts DEF ByIDAll, Entities
<1> QED
  BY <1>1 DEF resolveReallocateTarget

-----------------------------------------------------------------------------
(* Moving a branch.                                                          *)
LEMMA ApartFacts ==
  ASSUME NEW fs, NEW gs, Apart(fs, gs)
  PROVE  /\ Apart(gs, fs)
         /\ \A hs : (\A h \in hs : \E e \in fs : h.uid = e.uid /\ h.n = e.n) => Apart(hs, gs)
BY DEF Apart

(* A log that grew still holds what it held.                                 *)
Grew(l, m) ==
  /\ Len(l) \in Nat /\ Len(m) \in Nat /\ Len(l) <= Len(m)
  /\ \A k \in 0..Len(l) : /\ FilesIn(m, k) = FilesIn(l, k) /\ ReachIn(m, k) = ReachIn(l, k)
                          /\ ReachIn(l, k) \subseteq 0..Len(l)

LEMMA GrewFacts ==
  ASSUME ShapeInv
  PROVE  /\ Grew(log, log)
         /\ \A m : (/\ Len(m) = Len(log) + 1
                    /\ \A k \in 0..Len(log) : FilesIn(m, k) = FilesIn(log, k) /\ ReachIn(m, k) = ReachIn(log, k))
                   => Grew(log, m)
<1>1. Len(log) \in Nat
  BY SeqFacts DEF ShapeInv, LogOK
<1>2. \A k \in 0..Len(log) : ReachIn(log, k) \subseteq 0..Len(log)
  <2> SUFFICES ASSUME NEW k \in 0..Len(log) PROVE ReachIn(log, k) \subseteq 0..Len(log)
    OBVIOUS
  <2>1. Reach(k) = ReachIn(log, k) /\ Reach(k) \subseteq 1..k
    BY FilesAt
  <2> QED
    BY <1>1, <2>1
<1> QED
  BY <1>1, <1>2 DEF Grew

LEMMA GrewRemote ==
  ASSUME NEW l, NEW m, Grew(l, m), NEW org \in Remotes(Len(l)), NEW trk
  PROVE  /\ RemoteOK(l, org, trk) => RemoteOK(m, org, trk)
         /\ TrunkOK(l, org) => TrunkOK(m, org)
<1>1. /\ org.trunk \in 0..Len(l) /\ \A c \in Checkouts : org.branch[c] \in 0..Len(l)
  BY DEF Remotes, Grew
<1>2. FilesIn(m, org.trunk) = FilesIn(l, org.trunk) /\ ReachIn(m, org.trunk) = ReachIn(l, org.trunk)
  BY <1>1 DEF Grew
<1>3. Published(m, org) = Published(l, org)
  <2>1. \A c \in Checkouts : ReachIn(m, org.branch[c]) = ReachIn(l, org.branch[c])
    BY <1>1 DEF Grew
  <2> QED
    BY <1>2, <2>1 DEF Published
<1>4. \A k \in Published(l, org) : FilesIn(m, k) = FilesIn(l, k)
  <2>1. \A k \in Published(l, org) : k \in 0..Len(l)
    BY <1>1 DEF Published, Grew
  <2> QED
    BY <2>1 DEF Grew
<1> QED
  BY <1>2, <1>3, <1>4 DEF RemoteOK, TrunkOK, Cited

(* A branch is moved up, to another ref or to a new commit, by a checkout    *)
(* that has no plan any more.                                                *)
Moved(l, t, org, p, c, new, t2, p2) ==
  /\ t2 = [t EXCEPT ![c] = new] /\ t[c] <= new
  /\ new \in RefsOf(t, org) \/ new = Len(l) + 1
  /\ p2[c] = NoPlan /\ \A d \in Checkouts \ {c} : p2[d] = p[d]
  /\ Len(l) \in Nat /\ new \in Nat
  /\ t \in [Checkouts -> 1..Len(l)] /\ RefsOf(t, org) \subseteq 0..Len(l)
  /\ \A d \in Checkouts : p[d].seen \in 0..Len(l)

LEMMA MovedRefs ==
  ASSUME NEW l, NEW t, NEW org, NEW p, NEW c \in Checkouts, NEW new, NEW t2, NEW p2,
         Moved(l, t, org, p, c, new, t2, p2)
  PROVE  /\ RefsOf(t2, org) \subseteq RefsOf(t, org) \cup {new}
         /\ t2[c] = new /\ \A d \in Checkouts : t[d] <= t2[d] /\ t[d] \in Nat /\ t2[d] \in Nat
         /\ \A d \in Checkouts : new <= p[d].seen => new \in RefsOf(t, org)
<1>1. /\ t2 = [t EXCEPT ![c] = new] /\ t[c] <= new /\ t \in [Checkouts -> 1..Len(l)]
      /\ new \in RefsOf(t, org) \/ new = Len(l) + 1
      /\ Len(l) \in Nat /\ new \in Nat /\ \A d \in Checkouts : p[d].seen \in 0..Len(l)
  BY DEF Moved
<1>2. t2[c] = new /\ \A d \in Checkouts \ {c} : t2[d] = t[d]
  BY <1>1
<1>3. \A d \in Checkouts : t[d] <= t2[d] /\ t[d] \in Nat /\ t2[d] \in Nat
  BY <1>1, <1>2
<1>4. RefsOf(t2, org) \subseteq RefsOf(t, org) \cup {new}
  BY <1>2 DEF RefsOf
<1>5. \A d \in Checkouts : new <= p[d].seen => new \in RefsOf(t, org)
  BY <1>1
<1> QED
  BY <1>2, <1>3, <1>4, <1>5

LEMMA MovedCurrent ==
  ASSUME NEW l, NEW t, NEW org, NEW p, NEW c \in Checkouts, NEW new, NEW t2, NEW p2,
         Moved(l, t, org, p, c, new, t2, p2), CurrentOK(t, org, p)
  PROVE  CurrentOK(t2, org, p2)
<1> SUFFICES ASSUME NEW d \in Checkouts, p2[d] # NoPlan, NEW k \in RefsOf(t2, org)
             PROVE  k <= p2[d].seen \/ \E x \in Checkouts \ {d} : t2[x] > p2[d].seen
  BY DEF CurrentOK
<1>1. /\ RefsOf(t2, org) \subseteq RefsOf(t, org) \cup {new}
      /\ t2[c] = new /\ \A x \in Checkouts : t[x] <= t2[x] /\ t[x] \in Nat /\ t2[x] \in Nat
      /\ \A x \in Checkouts : new <= p[x].seen => new \in RefsOf(t, org)
  BY MovedRefs, Zenon
<1>2. d # c /\ p2[d] = p[d] /\ p[d].seen \in Nat /\ new \in Nat
  BY DEF Moved
<1>3. CASE k \in RefsOf(t, org)
  <2>1. k <= p[d].seen \/ \E x \in Checkouts \ {d} : t[x] > p[d].seen
    BY <1>2, <1>3 DEF CurrentOK
  <2>2. CASE \E x \in Checkouts \ {d} : t[x] > p[d].seen
    <3>1. PICK x \in Checkouts \ {d} : t[x] > p[d].seen
      BY <2>2
    <3>2. t2[x] > p[d].seen
      BY <1>1, <1>2, <3>1
    <3> QED
      BY <1>2, <3>2
  <2> QED
    BY <1>2, <2>1, <2>2
<1>4. CASE k = new /\ k \notin RefsOf(t, org)
  <2>1. new > p[d].seen
    BY <1>1, <1>2, <1>4
  <2> QED
    BY <1>1, <1>2, <2>1
<1> QED
  BY <1>1, <1>3, <1>4

LEMMA MovedDistinct ==
  ASSUME NEW l, NEW m, Grew(l, m), NEW t, NEW org, NEW p, NEW c \in Checkouts, NEW new, NEW t2, NEW p2,
         Moved(l, t, org, p, c, new, t2, p2), DistinctOK(l, t, org, p),
         Apart(FilesIn(m, new), FilesIn(m, new)),
         \A k \in RefsOf(t, org) : Apart(FilesIn(m, new), FilesIn(l, k))
  PROVE  DistinctOK(m, t2, org, p2)
<1>1. /\ RefsOf(t2, org) \subseteq RefsOf(t, org) \cup {new}
      /\ \A x \in Checkouts : new <= p[x].seen => new \in RefsOf(t, org)
  BY MovedRefs, Zenon
<1>0. RefsOf(t, org) \subseteq 0..Len(l)
  BY DEF Moved
<1>2. \A k \in RefsOf(t, org) : FilesIn(m, k) = FilesIn(l, k)
  BY <1>0 DEF Grew
<1>3. ASSUME NEW k \in RefsOf(t2, org), NEW j \in RefsOf(t2, org)
      PROVE  Apart(FilesIn(m, k), FilesIn(m, j))
  <2>1. CASE k \in RefsOf(t, org) /\ j \in RefsOf(t, org)
    BY <1>2, <2>1 DEF DistinctOK
  <2>2. CASE k = new /\ j \in RefsOf(t, org)
    BY <1>2, <2>2
  <2>3. CASE k \in RefsOf(t, org) /\ j = new
    BY <1>2, <2>3, ApartFacts
  <2>4. CASE k = new /\ j = new
    BY <2>4
  <2> QED
    BY <1>1, <2>1, <2>2, <2>3, <2>4
<1>4. ASSUME NEW d \in Checkouts, p2[d] # NoPlan
      PROVE  /\ Apart(p2[d].files, p2[d].files)
             /\ \A k \in RefsOf(t2, org) : k <= p2[d].seen => Apart(p2[d].files, FilesIn(m, k))
  <2>1. p2[d] = p[d] /\ p[d] # NoPlan
    BY <1>4 DEF Moved
  <2>2. /\ Apart(p[d].files, p[d].files)
        /\ \A k \in RefsOf(t, org) : k <= p[d].seen => Apart(p[d].files, FilesIn(l, k))
    BY <2>1 DEF DistinctOK
  <2>3. ASSUME NEW k \in RefsOf(t2, org), k <= p[d].seen PROVE Apart(p[d].files, FilesIn(m, k))
    <3>1. k \in RefsOf(t, org)
      BY <1>1, <2>3
    <3> QED
      BY <1>2, <2>2, <2>3, <3>1
  <2> QED
    BY <2>1, <2>2, <2>3
<1> QED
  BY <1>3, <1>4 DEF DistinctOK

LEMMA RemotesGrow ==
  ASSUME NEW n \in Nat, NEW m \in Nat, n <= m
  PROVE  Remotes(n) \subseteq Remotes(m)
<1>1. 1..n \subseteq 1..m /\ 0..n \subseteq 0..m
  OBVIOUS
<1>2. [Checkouts -> 0..n] \subseteq [Checkouts -> 0..m]
  BY <1>1
<1> QED
  BY <1>1, <1>2 DEF Remotes

LEMMA RefsFacts ==
  ASSUME ShapeInv
  PROVE  /\ Len(log) \in Nat /\ LogOK(log)
         /\ RefsOf(tip, origin) \subseteq 0..Len(log)
         /\ \A c \in Checkouts : /\ tip[c] \in RefsOf(tip, origin) /\ tip[c] \in 1..Len(log)
                                /\ planned[c].seen \in 0..Len(log) /\ planned[c].files \subseteq File
         /\ origin \in Remotes(Len(log)) /\ origin.trunk \in RefsOf(tip, origin)
<1>1. Len(log) \in Nat /\ LogOK(log)
  BY SeqFacts DEF ShapeInv, LogOK
<1>2. /\ tip \in [Checkouts -> 1..Len(log)] /\ origin \in Remotes(Len(log))
      /\ origin.trunk \in 1..Len(log) /\ origin.branch \in [Checkouts -> 0..Len(log)]
  BY DEF ShapeInv, Remotes
<1>3. \A c \in Checkouts : planned[c].seen \in 0..Len(log) /\ planned[c].files \subseteq File
  BY DEF ShapeInv
<1> QED
  BY <1>1, <1>2, <1>3 DEF RefsOf

LEMMA MoveStep ==
  ASSUME BranchInv, NEW c \in Checkouts, NEW new \in 1..Len(log'),
         LogOK(log'), Grew(log, log'), tip' = [tip EXCEPT ![c] = new], tip[c] <= new,
         planned' = [planned EXCEPT ![c] = NoPlan], raced' \in BOOLEAN, raced => raced',
         UNCHANGED <<play, origin, tracked>>,
         play.layout = "worktrees" => new \in RefsOf(tip, origin) \/ new = Len(log) + 1,
         play.layout = "worktrees" /\ ~raced' =>
           /\ Apart(FilesIn(log', new), FilesIn(log', new))
           /\ \A k \in RefsOf(tip, origin) : Apart(FilesIn(log', new), FilesIn(log, k))
  PROVE  BranchInv'
<1>1. PICK m : m = log'
  OBVIOUS
<1>2. PICK t2 : t2 = tip'
  OBVIOUS
<1>3. PICK p2 : p2 = planned'
  OBVIOUS
<1>s. ShapeInv
  BY DEF BranchInv
<1>4. /\ Grew(log, m) /\ LogOK(m) /\ Len(log) \in Nat /\ Len(m) \in Nat /\ Len(log) <= Len(m)
      /\ new \in 1..Len(m) /\ t2 = [tip EXCEPT ![c] = new] /\ p2 = [planned EXCEPT ![c] = NoPlan]
  BY <1>1, <1>2, <1>3 DEF Grew
<1>5. ShapeInv'
  <2>1. origin' \in Remotes(Len(m)) /\ tracked' \in [Checkouts -> Remotes(Len(m))]
    BY <1>s, <1>4, RemotesGrow DEF ShapeInv
  <2>2. t2 \in [Checkouts -> 1..Len(m)]
    <3>1. tip \in [Checkouts -> 1..Len(log)]
      BY <1>s DEF ShapeInv
    <3>2. 1..Len(log) \subseteq 1..Len(m)
      BY <1>4
    <3>3. tip \in [Checkouts -> 1..Len(m)]
      BY <3>1, <3>2
    <3> QED
      BY <1>4, <3>3
  <2>3. p2 \in [Checkouts -> [verb : {"", "add", "rename", "reallocate"},
                              files : SUBSET File, seen : 0..Len(m)]]
    <3>1. NoPlan \in [verb : {"", "add", "rename", "reallocate"}, files : SUBSET File, seen : 0..Len(m)]
      <4>1. 0 \in 0..Len(m)
        BY <1>4
      <4>2. {} \in SUBSET File
        OBVIOUS
      <4> QED
        BY <4>1, <4>2 DEF NoPlan
    <3>2. 0..Len(log) \subseteq 0..Len(m)
      BY <1>4
    <3>3. planned \in [Checkouts -> [verb : {"", "add", "rename", "reallocate"},
                                     files : SUBSET File, seen : 0..Len(m)]]
      BY <1>s, <3>2 DEF ShapeInv
    <3> QED
      BY <1>4, <3>1, <3>3
  <2>4. \A d \in Checkouts : p2[d] # NoPlan =>
          FilesOK(p2[d].files, p2[d].seen + 1) /\ t2[d] <= p2[d].seen
    <3> SUFFICES ASSUME NEW d \in Checkouts, p2[d] # NoPlan
                 PROVE  FilesOK(p2[d].files, p2[d].seen + 1) /\ t2[d] <= p2[d].seen
      OBVIOUS
    <3>1. planned \in [Checkouts -> [verb : {"", "add", "rename", "reallocate"},
                                     files : SUBSET File, seen : 0..Len(log)]]
          /\ tip \in [Checkouts -> 1..Len(log)]
      BY <1>s DEF ShapeInv
    <3>2. d # c /\ p2[d] = planned[d] /\ t2[d] = tip[d]
      BY <1>4, <3>1
    <3> QED
      BY <1>s, <3>2 DEF ShapeInv, Idle
  <2>5. play' \in Scenarios
    BY <1>s DEF ShapeInv
  <2> QED
    BY <1>1, <1>2, <1>3, <1>4, <2>1, <2>2, <2>3, <2>4, <2>5 DEF ShapeInv, Idle
<1>6. RemoteOK(m, origin, tracked) /\ TrunkOK(m, origin)
  BY <1>s, <1>4, GrewRemote, RefsFacts DEF BranchInv
<1>7. ASSUME play.layout = "worktrees"
      PROVE  /\ \A d \in Checkouts : tracked'[d] = origin'
             /\ CurrentOK(t2, origin, p2)
             /\ ~raced' => DistinctOK(m, t2, origin, p2)
  <2>1. Moved(log, tip, origin, planned, c, new, t2, p2)
    <3>1. p2[c] = NoPlan /\ \A d \in Checkouts \ {c} : p2[d] = planned[d]
      BY <1>s, <1>4 DEF ShapeInv
    <3>2. tip \in [Checkouts -> 1..Len(log)]
      BY <1>s DEF ShapeInv
    <3> QED
      BY <1>s, <1>4, <1>7, <3>1, <3>2, RefsFacts DEF Moved
  <2>2. /\ \A d \in Checkouts : tracked[d] = origin
        /\ CurrentOK(tip, origin, planned)
        /\ ~raced => DistinctOK(log, tip, origin, planned)
    BY <1>7 DEF BranchInv
  <2>3. CurrentOK(t2, origin, p2)
    BY <2>1, <2>2, MovedCurrent
  <2>4. ASSUME ~raced' PROVE DistinctOK(m, t2, origin, p2)
    <3>1. DistinctOK(log, tip, origin, planned)
      BY <2>2, <2>4
    <3>2. /\ Apart(FilesIn(m, new), FilesIn(m, new))
          /\ \A k \in RefsOf(tip, origin) : Apart(FilesIn(m, new), FilesIn(log, k))
      BY <1>1, <1>7, <2>4
    <3> QED
      BY <1>4, <2>1, <3>1, <3>2, MovedDistinct
  <2> QED
    BY <2>2, <2>3, <2>4
<1> QED
  BY <1>1, <1>2, <1>3, <1>5, <1>6, <1>7 DEF BranchInv

(* A verb plans.                                                             *)
LEMMA PlanStep ==
  ASSUME BranchInv, NEW c \in Checkouts, NEW verb \in {"add", "rename", "reallocate"}, NEW fs,
         Derived(c, fs), Plan(c, verb, fs)
  PROVE  BranchInv'
<1> DEFINE plan == [verb |-> verb, files |-> fs, seen |-> Len(log)]
<1>s. ShapeInv
  BY DEF BranchInv
<1>1. /\ planned' = [planned EXCEPT ![c] = plan]
      /\ UNCHANGED <<play, log, origin, tracked, tip, raced>>
  BY DEF Plan
<1>2. Len(log) \in Nat /\ tip[c] <= Len(log) /\ RefsOf(tip, origin) \subseteq 0..Len(log)
  <2>1. tip[c] \in 1..Len(log) /\ Len(log) \in Nat /\ RefsOf(tip, origin) \subseteq 0..Len(log)
    BY <1>s, RefsFacts
  <2> QED
    BY <2>1
<1>f. FilesOK(fs, Len(log) + 1)
  BY DEF Derived
<1>p. planned \in [Checkouts -> [verb : {"", "add", "rename", "reallocate"},
                                 files : SUBSET File, seen : 0..Len(log)]]
  BY <1>s DEF ShapeInv
<1>3. PICK p2 : p2 = planned'
  OBVIOUS
<1>4. /\ p2[c] = plan /\ \A d \in Checkouts \ {c} : p2[d] = planned[d]
      /\ plan.files = fs /\ plan.seen = Len(log)
  BY <1>1, <1>p, <1>3
<1>5. p2 \in [Checkouts -> [verb : {"", "add", "rename", "reallocate"},
                            files : SUBSET File, seen : 0..Len(log)]]
  <2>1. plan \in [verb : {"", "add", "rename", "reallocate"}, files : SUBSET File, seen : 0..Len(log)]
    <3>1. Len(log) \in 0..Len(log)
      BY <1>2
    <3>2. fs \in SUBSET File
      BY <1>f DEF FilesOK
    <3> QED
      BY <3>1, <3>2
  <2> HIDE DEF plan
  <2> QED
    BY <1>1, <1>p, <1>3, <2>1
<1> HIDE DEF plan
<1>6. ShapeInv'
  <2>1. ASSUME NEW d \in Checkouts, p2[d] # NoPlan
        PROVE  FilesOK(p2[d].files, p2[d].seen + 1) /\ tip[d] <= p2[d].seen
    BY <1>s, <1>f, <1>2, <1>4, <2>1 DEF ShapeInv, Idle
  <2> QED
    BY <1>s, <1>1, <1>3, <1>5, <2>1 DEF ShapeInv, Idle
<1>7. ASSUME play.layout = "worktrees" PROVE CurrentOK(tip, origin, p2)
  <2>1. CurrentOK(tip, origin, planned)
    BY <1>7 DEF BranchInv
  <2> SUFFICES ASSUME NEW d \in Checkouts, p2[d] # NoPlan, NEW k \in RefsOf(tip, origin)
               PROVE  k <= p2[d].seen \/ \E x \in Checkouts \ {d} : tip[x] > p2[d].seen
    BY DEF CurrentOK
  <2>2. CASE d = c
    <3>1. k \in 0..Len(log)
      BY <1>2
    <3> QED
      BY <1>2, <1>4, <2>2, <3>1
  <2>3. CASE d # c
    BY <1>4, <2>1, <2>3 DEF CurrentOK
  <2> QED
    BY <2>2, <2>3
<1>8. ASSUME play.layout = "worktrees", ~raced PROVE DistinctOK(log, tip, origin, p2)
  <2>1. DistinctOK(log, tip, origin, planned) /\ \A d \in Checkouts : tracked[d] = origin
    BY <1>8 DEF BranchInv
  <2>2. InView(c) = RefsOf(tip, origin)
    BY <1>8, <2>1 DEF InView, LocalBranchRefs, RepoOf, RemoteTrackingRefs, RefsOf
  <2>3. PICK h : \A f \in fs :
                   \/ f = h /\ \A k \in InView(c) : \A e \in Files(k) : e.n < f.n
                   \/ \E e \in Files(tip[c]) : f.uid = e.uid /\ f.n = e.n
    BY DEF Derived
  <2>4. \A k \in RefsOf(tip, origin) : /\ Files(k) = FilesIn(log, k)
                                      /\ \A e \in Files(k) : e.n \in Nat
    <3> SUFFICES ASSUME NEW k \in RefsOf(tip, origin)
                 PROVE  Files(k) = FilesIn(log, k) /\ \A e \in Files(k) : e.n \in Nat
      OBVIOUS
    <3>1. k \in 0..Len(log)
      BY <1>2
    <3>2. Files(k) = FilesIn(log, k) /\ FilesOK(Files(k), Len(log))
      BY <1>s, <3>1, FilesAt
    <3> QED
      BY <3>2, FileFacts DEF FilesOK
  <2>5. \A f \in fs : f.n \in Nat
    BY <1>f, FileFacts DEF FilesOK
  <2>6. tip[c] \in RefsOf(tip, origin)
    BY DEF RefsOf
  <2>7. ASSUME NEW k \in RefsOf(tip, origin) PROVE Apart(fs, FilesIn(log, k))
    <3> SUFFICES ASSUME NEW f \in fs, NEW o \in Files(k), f.uid # o.uid PROVE f.n # o.n
      BY <2>4 DEF Apart
    <3>1. CASE f = h /\ \A j \in InView(c) : \A e \in Files(j) : e.n < f.n
      BY <2>2, <2>4, <2>5, <3>1
    <3>2. CASE \E e \in Files(tip[c]) : f.uid = e.uid /\ f.n = e.n
      BY <2>1, <2>4, <2>6, <3>2 DEF DistinctOK, Apart
    <3> QED
      BY <2>3, <3>1, <3>2
  <2>8. Apart(fs, fs)
    <3> SUFFICES ASSUME NEW f \in fs, NEW g \in fs, f.uid # g.uid PROVE f.n # g.n
      BY DEF Apart
    <3>1. CASE \E e \in Files(tip[c]) : f.uid = e.uid /\ f.n = e.n
      <4>1. PICK e \in Files(tip[c]) : f.uid = e.uid /\ f.n = e.n
        BY <3>1
      <4>2. g.n # e.n
        BY <2>4, <2>6, <2>7, <4>1 DEF Apart
      <4> QED
        BY <4>1, <4>2
    <3>2. CASE \E e \in Files(tip[c]) : g.uid = e.uid /\ g.n = e.n
      BY <2>4, <2>6, <2>7, <3>2 DEF Apart
    <3> QED
      BY <2>3, <3>1, <3>2
  <2> SUFFICES ASSUME NEW d \in Checkouts, p2[d] # NoPlan
               PROVE  /\ Apart(p2[d].files, p2[d].files)
                      /\ \A k \in RefsOf(tip, origin) : k <= p2[d].seen => Apart(p2[d].files, FilesIn(log, k))
    BY <2>1 DEF DistinctOK
  <2>9. CASE d = c
    BY <1>4, <2>7, <2>8, <2>9
  <2>10. CASE d # c
    BY <1>4, <2>1, <2>10 DEF DistinctOK
  <2> QED
    BY <2>9, <2>10
<1> QED
  BY <1>1, <1>3, <1>6, <1>7, <1>8 DEF BranchInv

(* A verb commits.  The commit holds the planned files, stamped.              *)
LEMMA CommitFacts ==
  ASSUME ShapeInv, NEW c \in Checkouts, Commit(c)
  PROVE  /\ Len(log') = Len(log) + 1 /\ LogOK(log') /\ Grew(log, log')
         /\ tip' = [tip EXCEPT ![c] = Len(log) + 1]
         /\ \A f \in FilesIn(log', Len(log) + 1) : \E e \in planned[c].files : f.uid = e.uid /\ f.n = e.n
<1> DEFINE k == Len(log) + 1
           fs == planned[c].files
           old == Files(tip[c])
           stamp(e) == IF e \in old \/ e.ver = k THEN e ELSE [e EXCEPT !.ver = k]
           stamped == {stamp(e) : e \in fs}
<1>1. PICK renames : /\ log' = Append(log, [files |-> stamped, reach |-> Reach(tip[c]) \cup {} \cup {k},
                                             renames |-> renames,
                                             adds |-> {PathOf(e) : e \in stamped} \ {PathOf(e) : e \in old}])
                     /\ tip' = [tip EXCEPT ![c] = k]
  BY DEF Commit, Extend
<1>2. /\ Len(log) \in Nat /\ k \in Nat /\ tip[c] \in 0..Len(log) /\ planned[c].seen \in 0..Len(log)
      /\ 0 \in 0..Len(log)
  BY RefFacts
<1>3. FilesOK(fs, planned[c].seen + 1)
  BY DEF ShapeInv, Commit
<1>4. FilesOK(fs, k)
  <2>1. 1..(planned[c].seen + 1) \subseteq 1..k
    BY <1>2
  <2> QED
    BY <1>3, <2>1 DEF FilesOK
<1>5. ASSUME NEW e \in fs
      PROVE  stamp(e) \in File /\ stamp(e).uid = e.uid /\ stamp(e).n = e.n /\ stamp(e).slug = e.slug
  <2>1. e \in File
    BY <1>4 DEF FilesOK
  <2>2. LET f == [e EXCEPT !.ver = k] IN
        f \in File /\ f.uid = e.uid /\ f.n = e.n /\ f.slug = e.slug /\ f.refs = e.refs
    BY <1>2, <2>1, Stamped
  <2> QED
    BY <2>1, <2>2
<1>6. \A f : f \in stamped <=> \E e \in fs : f = stamp(e)
  OBVIOUS
<1> HIDE DEF stamp, stamped
<1>7. FilesOK(stamped, k)
  <2>1. stamped \subseteq File /\ \A f \in stamped : f.n \in 1..k
    BY <1>4, <1>5, <1>6 DEF FilesOK
  <2>2. PathsDistinct(stamped)
    <3> SUFFICES ASSUME NEW a \in stamped, NEW b \in stamped, PathOf(a) = PathOf(b) PROVE a = b
      BY DEF PathsDistinct
    <3>1. PICK x \in fs : a = stamp(x) /\ a.n = x.n /\ a.slug = x.slug
      BY <1>5, <1>6
    <3>2. PICK y \in fs : b = stamp(y) /\ b.n = y.n /\ b.slug = y.slug
      BY <1>5, <1>6
    <3>3. a.n = b.n /\ a.slug = b.slug
      BY <2>1, SamePath
    <3>4. PathOf(x) = PathOf(y)
      BY <1>4, <3>1, <3>2, <3>3, SamePath DEF FilesOK
    <3> QED
      BY <1>4, <3>1, <3>2, <3>4 DEF FilesOK, PathsDistinct
  <2> QED
    BY <2>1, <2>2 DEF FilesOK
<1>8. PICK x : log' = Append(log, x) /\ x.files = stamped /\ x.reach = ReachIn(log, tip[c]) \cup ReachIn(log, 0) \cup {k}
  <2>1. Reach(tip[c]) = ReachIn(log, tip[c]) /\ ReachIn(log, 0) = {}
    BY <1>2, FilesAt DEF ReachIn
  <2> QED
    BY <1>1, <2>1
<1>9. LogOK(log)
  BY DEF ShapeInv
<1>10. LET m == Append(log, x) IN
       /\ LogOK(m) /\ Len(m) = Len(log) + 1
       /\ \A j \in 0..Len(log) : FilesIn(m, j) = FilesIn(log, j) /\ ReachIn(m, j) = ReachIn(log, j)
       /\ FilesIn(m, Len(log) + 1) = x.files /\ ReachIn(m, Len(log) + 1) = x.reach
  <2>1. FilesOK(x.files, Len(log) + 1) /\ x.reach = ReachIn(log, tip[c]) \cup ReachIn(log, 0) \cup {Len(log) + 1}
    BY <1>7, <1>8
  <2> QED
    BY <1>2, <1>8, <1>9, <2>1, Appended
<1>11. Grew(log, log')
  BY <1>8, <1>10, GrewFacts
<1>12. \A f \in FilesIn(log', Len(log) + 1) : \E e \in fs : f.uid = e.uid /\ f.n = e.n
  BY <1>5, <1>6, <1>8, <1>10
<1> QED
  BY <1>1, <1>8, <1>10, <1>11, <1>12

LEMMA CommitStep ==
  ASSUME BranchInv, NEW c \in Checkouts, Commit(c)
  PROVE  BranchInv'
<1>s. ShapeInv
  BY DEF BranchInv
<1>1. /\ Len(log') = Len(log) + 1 /\ LogOK(log') /\ Grew(log, log')
      /\ tip' = [tip EXCEPT ![c] = Len(log) + 1]
      /\ \A f \in FilesIn(log', Len(log) + 1) : \E e \in planned[c].files : f.uid = e.uid /\ f.n = e.n
  BY <1>s, CommitFacts
<1>2. /\ planned[c] # NoPlan /\ planned' = [planned EXCEPT ![c] = NoPlan]
      /\ raced' = (raced \/ \E d \in RepoOf(c) \ {c} : tip[d] > planned[c].seen)
      /\ UNCHANGED <<play, origin, tracked>>
  BY DEF Commit, Idle
<1>3. PICK new : new = Len(log) + 1
  OBVIOUS
<1>4. new \in 1..Len(log') /\ tip[c] <= new /\ Len(log) \in Nat /\ new \in Nat
  BY <1>s, <1>1, <1>3, RefFacts
<1>5. raced' \in BOOLEAN /\ (raced => raced')
  BY <1>s, <1>2 DEF ShapeInv
<1>6. ASSUME play.layout = "worktrees", ~raced'
      PROVE  /\ Apart(FilesIn(log', new), FilesIn(log', new))
             /\ \A k \in RefsOf(tip, origin) : Apart(FilesIn(log', new), FilesIn(log, k))
  <2>1. CurrentOK(tip, origin, planned) /\ DistinctOK(log, tip, origin, planned)
    BY <1>2, <1>6 DEF BranchInv
  <2>2. ~ \E d \in Checkouts \ {c} : tip[d] > planned[c].seen
    BY <1>2, <1>6 DEF RepoOf
  <2>3. \A k \in RefsOf(tip, origin) : k <= planned[c].seen
    BY <1>2, <2>1, <2>2 DEF CurrentOK
  <2>4. /\ Apart(planned[c].files, planned[c].files)
        /\ \A k \in RefsOf(tip, origin) : Apart(planned[c].files, FilesIn(log, k))
    BY <1>2, <2>1, <2>3 DEF DistinctOK
  <2>5. PICK gs : gs = FilesIn(log', new) /\ \A f \in gs : \E e \in planned[c].files : f.uid = e.uid /\ f.n = e.n
    BY <1>1, <1>3
  <2>6. Apart(gs, gs)
    BY <2>4, <2>5 DEF Apart
  <2>7. \A k \in RefsOf(tip, origin) : Apart(gs, FilesIn(log, k))
    BY <2>4, <2>5 DEF Apart
  <2> QED
    BY <2>5, <2>6, <2>7
<1> QED
  BY <1>1, <1>2, <1>3, <1>4, <1>5, <1>6, MoveStep

(* A branch takes another ref in, as it is or by a commit of both files.      *)
LEMMA NewerFacts ==
  ASSUME NEW k, NEW l, NEW u \in Uids(Files(k)) \cup Uids(Files(l))
  PROVE  Newer(k, l, u) \subseteq Files(k) \cup Files(l)
<1>1. \A fs : u \in Uids(fs) => Holder(fs, u) \in fs
  BY DEF Uids, Holder
<1>2. u \in Uids(Files(k)) => Holder(Files(k), u) \in Files(k)
  BY <1>1
<1>3. u \in Uids(Files(l)) => Holder(Files(l), u) \in Files(l)
  BY <1>1
<1>4. PICK ours : ours = Holder(Files(k), u)
  OBVIOUS
<1>5. PICK theirs : theirs = Holder(Files(l), u)
  OBVIOUS
<1>6. Newer(k, l, u) = IF u \notin Uids(Files(l)) THEN {ours}
                       ELSE IF u \notin Uids(Files(k)) THEN {theirs}
                       ELSE IF theirs.ver \in Reach(k) THEN {ours}
                       ELSE IF ours.ver \in Reach(l) THEN {theirs}
                       ELSE {}
  BY <1>4, <1>5, Zenon DEF Newer
<1> QED
  BY <1>2, <1>3, <1>4, <1>5, <1>6

LEMMA MergeFacts ==
  ASSUME ShapeInv, NEW c \in Checkouts, NEW ref \in 0..Len(log), MergeRef(c, ref)
  PROVE  \E new \in 1..Len(log') :
           /\ LogOK(log') /\ Grew(log, log') /\ tip' = [tip EXCEPT ![c] = new] /\ tip[c] <= new
           /\ \/ new = ref /\ log' = log
              \/ /\ new = Len(log) + 1
                 /\ \A f \in FilesIn(log', new) : f \in Files(tip[c]) \cup Files(ref)
<1> DEFINE all == Uids(Files(tip[c])) \cup Uids(Files(ref))
           fs == UNION {Newer(tip[c], ref, u) : u \in all}
<1>1. /\ ref # 0 /\ \A e, o \in fs : PathOf(e) = PathOf(o) => e = o
      /\ IF tip[c] \in Reach(ref)
         THEN tip' = [tip EXCEPT ![c] = ref] /\ UNCHANGED log
         ELSE /\ log' = Append(log, [files |-> fs, reach |-> Reach(tip[c]) \cup Reach(ref) \cup {Len(log) + 1},
                                     renames |-> {}, adds |-> {}])
              /\ tip' = [tip EXCEPT ![c] = Len(log) + 1]
  BY DEF MergeRef
<1>2. Len(log) \in Nat /\ tip[c] \in 1..Len(log) /\ tip[c] \in 0..Len(log) /\ LogOK(log) /\ Grew(log, log)
  BY RefFacts, RefsFacts, GrewFacts
<1>3. \A f \in fs : f \in Files(tip[c]) \cup Files(ref)
  BY NewerFacts
<1>4. CASE tip[c] \in Reach(ref)
  <2>1. Reach(ref) \subseteq 1..ref
    BY FilesAt
  <2>2. ref \in 1..Len(log') /\ tip[c] <= ref /\ log' = log /\ tip' = [tip EXCEPT ![c] = ref]
    BY <1>1, <1>2, <1>4, <2>1
  <2> QED
    BY <1>2, <2>2
<1>5. CASE tip[c] \notin Reach(ref)
  <2>1. PICK x : /\ log' = Append(log, x) /\ x.files = fs
                 /\ x.reach = Reach(tip[c]) \cup Reach(ref) \cup {Len(log) + 1}
    BY <1>1, <1>5
  <2>2. tip' = [tip EXCEPT ![c] = Len(log) + 1]
    BY <1>1, <1>5
  <2>3. Reach(tip[c]) = ReachIn(log, tip[c]) /\ Reach(ref) = ReachIn(log, ref)
    BY <1>2, FilesAt
  <2>4. FilesOK(fs, Len(log) + 1)
    <3>1. FilesOK(Files(tip[c]), Len(log)) /\ FilesOK(Files(ref), Len(log))
      BY <1>2, FilesAt
    <3>2. PathsDistinct(fs)
      BY <1>1 DEF PathsDistinct
    <3> HIDE DEF fs
    <3>3. \A f \in fs : f \in File /\ f.n \in 1..Len(log)
      BY <1>3, <3>1 DEF FilesOK
    <3>4. 1..Len(log) \subseteq 1..(Len(log) + 1)
      BY <1>2
    <3> QED
      BY <3>2, <3>3, <3>4 DEF FilesOK
  <2> HIDE DEF fs
  <2>5. LET m == Append(log, x) IN
        /\ LogOK(m) /\ Len(m) = Len(log) + 1
        /\ \A j \in 0..Len(log) : FilesIn(m, j) = FilesIn(log, j) /\ ReachIn(m, j) = ReachIn(log, j)
        /\ FilesIn(m, Len(log) + 1) = x.files /\ ReachIn(m, Len(log) + 1) = x.reach
    <3>1. FilesOK(x.files, Len(log) + 1)
          /\ x.reach = ReachIn(log, tip[c]) \cup ReachIn(log, ref) \cup {Len(log) + 1}
      BY <2>1, <2>3, <2>4
    <3> QED
      BY <1>2, <3>1, Appended
  <2>6. Grew(log, log')
    BY <2>1, <2>5, GrewFacts
  <2>7. PICK new : new = Len(log) + 1
    OBVIOUS
  <2>8. new \in 1..Len(log') /\ tip[c] <= new /\ tip' = [tip EXCEPT ![c] = new] /\ LogOK(log')
    BY <1>2, <2>1, <2>2, <2>5, <2>7
  <2>9. \A f \in FilesIn(log', new) : f \in Files(tip[c]) \cup Files(ref)
    BY <1>3, <2>1, <2>5, <2>7
  <2> QED
    BY <2>6, <2>7, <2>8, <2>9
<1> QED
  BY <1>4, <1>5

LEMMA MergeStep ==
  ASSUME BranchInv, NEW c \in Checkouts, NEW ref \in 0..Len(log), MergeRef(c, ref),
         play.layout = "worktrees" => ref \in RefsOf(tip, origin)
  PROVE  BranchInv'
<1>s. ShapeInv
  BY DEF BranchInv
<1>1. PICK new \in 1..Len(log') :
        /\ LogOK(log') /\ Grew(log, log') /\ tip' = [tip EXCEPT ![c] = new] /\ tip[c] <= new
        /\ \/ new = ref /\ log' = log
           \/ /\ new = Len(log) + 1
              /\ \A f \in FilesIn(log', new) : f \in Files(tip[c]) \cup Files(ref)
  BY <1>s, MergeFacts
<1>2. Idle(c) /\ UNCHANGED <<play, origin, tracked, planned, raced>>
  BY DEF MergeRef
<1>3. planned' = [planned EXCEPT ![c] = NoPlan]
  <2>1. planned[c] = NoPlan
    BY <1>2 DEF Idle
  <2>2. planned = [d \in Checkouts |-> planned[d]]
    BY <1>s DEF ShapeInv
  <2> QED
    BY <1>2, <2>1, <2>2
<1>4. raced' \in BOOLEAN /\ (raced => raced')
  BY <1>s, <1>2 DEF ShapeInv
<1>5. play.layout = "worktrees" => new \in RefsOf(tip, origin) \/ new = Len(log) + 1
  BY <1>1
<1>6. ASSUME play.layout = "worktrees", ~raced'
      PROVE  /\ Apart(FilesIn(log', new), FilesIn(log', new))
             /\ \A k \in RefsOf(tip, origin) : Apart(FilesIn(log', new), FilesIn(log, k))
  <2>1. \A k, j \in RefsOf(tip, origin) : Apart(FilesIn(log, k), FilesIn(log, j))
    BY <1>2, <1>6 DEF BranchInv, DistinctOK
  <2>2. tip[c] \in RefsOf(tip, origin) /\ ref \in RefsOf(tip, origin)
    BY <1>6 DEF RefsOf
  <2>3. CASE new = ref /\ log' = log
    BY <2>1, <2>2, <2>3
  <2>4. CASE \A f \in FilesIn(log', new) : f \in Files(tip[c]) \cup Files(ref)
    <3>0. PICK gs : gs = FilesIn(log', new)
      OBVIOUS
    <3>1. \A f \in gs : f \in FilesIn(log, tip[c]) \cup FilesIn(log, ref)
      BY <2>4, <3>0 DEF Files, FilesIn
    <3>2. \A k \in RefsOf(tip, origin) : Apart(gs, FilesIn(log, k))
      BY <2>1, <2>2, <3>1 DEF Apart
    <3>3. Apart(gs, gs)
      <4>1. Apart(gs, FilesIn(log, tip[c])) /\ Apart(gs, FilesIn(log, ref))
        BY <2>2, <3>2
      <4> QED
        BY <3>1, <4>1 DEF Apart
    <3> QED
      BY <3>0, <3>2, <3>3
  <2> QED
    BY <1>1, <2>3, <2>4
<1> QED
  BY <1>1, <1>2, <1>3, <1>4, <1>5, <1>6, MoveStep

LEMMA MergeTrunkStep ==
  ASSUME BranchInv, NEW c \in Checkouts, MergeTrunk(c)
  PROVE  BranchInv'
<1>1. ShapeInv /\ (play.layout = "worktrees" => tracked[c] = origin)
  BY DEF BranchInv
<1>2. tracked[c].trunk \in 0..Len(log)
  BY <1>1, RefFacts
<1>3. play.layout = "worktrees" => tracked[c].trunk \in RefsOf(tip, origin)
  BY <1>1 DEF RefsOf
<1>4. MergeRef(c, tracked[c].trunk)
  BY DEF MergeTrunk
<1> QED
  BY <1>2, <1>3, <1>4, MergeStep

LEMMA MergeOtherStep ==
  ASSUME BranchInv, NEW c \in Checkouts, MergeOther(c)
  PROVE  BranchInv'
<1>1. ShapeInv
  BY DEF BranchInv
<1>2. PICK d \in Checkouts \ {c} :
        MergeRef(c, IF play.layout = "worktrees" THEN tip[d] ELSE tracked[c].branch[d])
  BY DEF MergeOther
<1>3. PICK ref : ref = IF play.layout = "worktrees" THEN tip[d] ELSE tracked[c].branch[d]
  OBVIOUS
<1>4. ref \in 0..Len(log) /\ MergeRef(c, ref)
  BY <1>1, <1>2, <1>3, RefFacts
<1>5. play.layout = "worktrees" => ref \in RefsOf(tip, origin)
  BY <1>3 DEF RefsOf
<1> QED
  BY <1>4, <1>5, MergeStep

-----------------------------------------------------------------------------
(* What the pre-push check shows.                                            *)
LEMMA CleanIsApart ==
  ASSUME ShapeInv, NEW c \in Checkouts, prePush(c)
  PROVE  Apart(Files(tip[c]), Files(tip[c]))
<1> DEFINE t == LoadTreeWithTrunk(c)
           about(e) == PathOf(First({o \in t.files : SameRawID(o, e)}))
           bad(e) == Finding("ids-unique", None, e, about(e))
<1>1. FilesOK(Files(tip[c]), Len(log))
  BY RefFacts, FilesAt
<1>2. t.files = Files(tip[c])
  BY LoadFacts
<1>3. ASSUME NEW e \in t.files, NEW o \in t.files, SameRawID(o, e), Before(o, e) PROVE FALSE
  <2>1. bad(e) \in {bad(x) : x \in {x \in t.files : \E y \in t.files : SameRawID(y, x) /\ Before(y, x)}}
    BY <1>3
  <2>2. bad(e) \in idsUnique(t)
    BY <2>1 DEF idsUnique
  <2>3. bad(e).code = "ids-unique" /\ bad(e).sub = None
    BY DEF Finding
  <2> HIDE DEF t, bad
  <2>4. ~IsWarning(bad(e))
    BY <2>3 DEF IsWarning, None
  <2>5. bad(e) \in ErrorsOf(t)
    BY <2>2, <2>4 DEF ErrorsOf, Run
  <2> QED
    BY <2>5 DEF prePush, t
<1> HIDE DEF t
<1> SUFFICES ASSUME NEW e \in Files(tip[c]), NEW o \in Files(tip[c]), e.uid # o.uid, e.n = o.n PROVE FALSE
  BY DEF Apart
<1>4. e \in File /\ o \in File /\ PathOf(e) # PathOf(o)
  BY <1>1 DEF FilesOK, PathsDistinct
<1>5. SameRawID(e, o) /\ SameRawID(o, e)
  BY <1>4, SamePath
<1>6. Before(e, o) \/ Before(o, e)
  BY <1>4, BeforeTotal
<1> QED
  BY <1>2, <1>3, <1>5, <1>6

LEMMA CleanCites ==
  ASSUME ShapeInv, NEW c \in Checkouts, prePush(c), NEW e \in Files(tip[c]), NEW r \in e.refs
  PROVE  \E k \in {tip[c]} \cup RemoteTrackingRefs(c) : \E o \in Files(k) : IdOf(o) = IdOf(r)
<1> DEFINE t == LoadTreeWithTrunk(c)
           bad == Finding("refs-resolve", resolveRef(t, e, r), e, Text(r))
<1>1. e \in File
  BY RefFacts, FilesAt DEF FilesOK
<1>2. t.files = Files(tip[c]) /\ t.hits = ScanCrossBranch(c) /\ t.hasRemotes = TRUE
  BY LoadFacts
<1>3. e \in Entities(t) /\ ~e.arch /\ ~IsComposite(r)
  <2>1. r \in RefRecord /\ e.parses = TRUE /\ e.arch = FALSE
    BY <1>1, FileFacts
  <2> QED
    BY <1>2, <2>1 DEF Entities, IsComposite, RefRecord
<1>4. resolveRef(t, e, r) \notin {"unresolved", "cross-branch-local-only"}
  <2> SUFFICES ASSUME resolveRef(t, e, r) \in {"unresolved", "cross-branch-local-only"} PROVE FALSE
    OBVIOUS
  <2>1. resolveRef(t, e, r) # None
    BY DEF None
  <2> DEFINE finding(p) == Finding("refs-resolve", resolveRef(t, p[1], p[2]), p[1], Text(p[2]))
             pairs == {p \in UNION {{x} \X x.refs : x \in Entities(t)} :
                         ~p[1].arch /\ resolveRef(t, p[1], p[2]) # None}
  <2>2. <<e, r>> \in pairs
    <3>1. <<e, r>> \in UNION {{x} \X x.refs : x \in Entities(t)}
      <4> HIDE DEF t
      <4> QED
        BY <1>3
    <3>2. ~<<e, r>>[1].arch /\ resolveRef(t, <<e, r>>[1], <<e, r>>[2]) # None
      BY <1>3, <2>1
    <3> QED
      BY <3>1, <3>2
  <2>3. finding(<<e, r>>) = bad
    OBVIOUS
  <2>4. refsResolve(t) = {finding(p) : p \in pairs}
    BY DEF refsResolve
  <2>5. bad \in refsResolve(t)
    <3> HIDE DEF finding, pairs, bad, t
    <3> QED
      BY <2>2, <2>3, <2>4
  <2>6. bad.code = "refs-resolve" /\ bad.sub \in {"unresolved", "cross-branch-local-only"}
    BY DEF Finding
  <2> HIDE DEF bad, t
  <2>7. ~IsWarning(bad)
    BY <2>6 DEF IsWarning
  <2>8. bad \in ErrorsOf(t)
    BY <2>5, <2>7 DEF ErrorsOf, Run
  <2> QED
    BY <2>8 DEF prePush, t
<1>5. CASE InIndex(t, IdOf(r))
  BY <1>2, <1>5 DEF InIndex
<1>6. CASE ~InIndex(t, IdOf(r))
  <2> HIDE DEF t
  <2>1. PICK hits : hits = crossBranchIndex(t, IdOf(r))
    OBVIOUS
  <2>2. resolveRef(t, e, r) = IF hits = {} THEN "unresolved"
                              ELSE IF t.hasRemotes /\ ~RemoteVisible(hits) THEN "cross-branch-local-only"
                              ELSE IF Cardinality({h.content : h \in hits}) > 1 THEN "cross-branch-collision"
                              ELSE "cross-branch-pending"
    BY <1>3, <1>6, <2>1, Zenon DEF resolveRef
  <2>3. RemoteVisible(hits)
    BY <1>2, <1>4, <2>2
  <2>4. PICK h \in hits : h.remote
    BY <2>3 DEF RemoteVisible
  <2>5. h \in ScanCrossBranch(c) /\ IdOf(h) = IdOf(r)
    BY <1>2, <2>1 DEF crossBranchIndex
  <2>6. PICK k \in RemoteTrackingRefs(c) : \E o \in Files(k) : h.n = o.n /\ h.kind = o.kind
    BY <2>4, <2>5, ScanFacts
  <2>7. PICK o \in Files(k) : h.n = o.n /\ h.kind = o.kind
    BY <2>6
  <2>8. IdOf(o) = IdOf(r)
    BY <2>5, <2>7 DEF IdOf
  <2> QED
    BY <2>6, <2>8
<1> QED
  BY <1>5, <1>6

(* The remote takes what a checkout publishes.                               *)
LEMMA ReachTransitive ==
  ASSUME ShapeInv, NEW k \in 1..Len(log), NEW j \in ReachIn(log, k)
  PROVE  /\ ReachIn(log, j) \subseteq ReachIn(log, k) /\ k \in ReachIn(log, k)
         /\ j \in 1..Len(log)
<1>1. Len(log) \in Nat /\ k \in 0..Len(log) /\ k # 0
  BY RefsFacts
<1>2. /\ Reach(k) = ReachIn(log, k) /\ Reach(k) \subseteq 1..k /\ k \in Reach(k)
      /\ \A i \in Reach(k) : Reach(i) \subseteq Reach(k)
  BY <1>1, FilesAt
<1>3. j \in 1..Len(log)
  BY <1>1, <1>2
<1>4. Reach(j) = ReachIn(log, j)
  BY DEF Reach, ReachIn
<1> QED
  BY <1>2, <1>3, <1>4

LEMMA PublishStep ==
  ASSUME BranchInv, NEW c \in Checkouts, NEW o \in Remotes(Len(log)), Publish(c, o),
         origin.trunk \in ReachIn(log, o.trunk), TrunkOK(log, o),
         \A d \in Checkouts : origin.branch[d] \in {0, o.branch[d]},
         \A d \in Checkouts \ {c} : o.branch[d] = origin.branch[d],
         RefsOf(tip, o) \subseteq RefsOf(tip, origin)
  PROVE  BranchInv'
<1>s. ShapeInv
  BY DEF BranchInv
<1>1. /\ origin' = o /\ UNCHANGED <<play, log, tip, planned, raced>>
      /\ tracked' = [d \in Checkouts |->
                       IF d \notin RepoOf(c) THEN tracked[d]
                       ELSE [trunk |-> IF o.trunk # origin.trunk THEN o.trunk ELSE tracked[d].trunk,
                             branch |-> [tracked[d].branch EXCEPT ![c] = o.branch[c]]]]
  BY DEF Publish
<1>2. PICK trk : trk = tracked'
  OBVIOUS
<1>3. \A d \in Checkouts : tracked[d] \in Remotes(Len(log))
  BY <1>s DEF ShapeInv
<1>4. /\ o.trunk \in 1..Len(log) /\ o.branch \in [Checkouts -> 0..Len(log)]
      /\ origin.trunk \in 1..Len(log) /\ origin.branch \in [Checkouts -> 0..Len(log)]
  BY <1>s DEF ShapeInv, Remotes
<1>5. ASSUME NEW d \in Checkouts
      PROVE  /\ trk[d] \in Remotes(Len(log))
             /\ trk[d].trunk \in ReachIn(log, o.trunk)
             /\ \A x \in Checkouts : trk[d].branch[x] \in {0, o.branch[x]}
  <2>1. /\ tracked[d].trunk \in 1..Len(log) /\ tracked[d].branch \in [Checkouts -> 0..Len(log)]
    BY <1>3 DEF Remotes
  <2>2. /\ tracked[d].trunk \in ReachIn(log, origin.trunk)
        /\ \A x \in Checkouts : tracked[d].branch[x] \in {0, origin.branch[x]}
    BY DEF BranchInv, RemoteOK
  <2>3. o.trunk \in ReachIn(log, o.trunk) /\ tracked[d].trunk \in ReachIn(log, o.trunk)
    <3>1. ReachIn(log, origin.trunk) \subseteq ReachIn(log, o.trunk) /\ o.trunk \in ReachIn(log, o.trunk)
      BY <1>s, <1>4, ReachTransitive
    <3> QED
      BY <2>2, <3>1
  <2>4. \A x \in Checkouts : tracked[d].branch[x] \in {0, o.branch[x]}
    BY <2>2
  <2>5. CASE d \notin RepoOf(c)
    <3>1. trk[d] = tracked[d]
      BY <1>1, <1>2, <2>5
    <3> QED
      BY <1>3, <2>3, <2>4, <3>1
  <2>6. CASE d \in RepoOf(c)
    <3>1. trk[d] = [trunk |-> IF o.trunk # origin.trunk THEN o.trunk ELSE tracked[d].trunk,
                    branch |-> [tracked[d].branch EXCEPT ![c] = o.branch[c]]]
      BY <1>1, <1>2, <2>6
    <3>2. trk[d].trunk \in {o.trunk, tracked[d].trunk}
      BY <3>1
    <3>3. PICK b : b = [tracked[d].branch EXCEPT ![c] = o.branch[c]] /\ trk[d].branch = b
      BY <3>1
    <3>4. \A x \in Checkouts : b[x] \in {0, o.branch[x]}
      BY <2>1, <2>4, <3>3
    <3>5. b \in [Checkouts -> 0..Len(log)]
      BY <1>4, <2>1, <3>3
    <3>6. trk[d] \in Remotes(Len(log))
      <4>1. trk[d] = [trunk |-> trk[d].trunk, branch |-> b]
        BY <3>1, <3>3
      <4>2. trk[d].trunk \in 1..Len(log)
        BY <1>4, <2>1, <3>2
      <4> QED
        BY <3>5, <4>1, <4>2 DEF Remotes
    <3> QED
      BY <2>3, <3>2, <3>3, <3>4, <3>6
  <2> QED
    BY <2>5, <2>6
<1>6. ShapeInv'
  <2>1. trk \in [Checkouts -> Remotes(Len(log))]
    BY <1>1, <1>2, <1>5
  <2> QED
    BY <1>s, <1>1, <1>2, <2>1 DEF ShapeInv, Idle
<1>7. RemoteOK(log, o, trk)
  BY <1>5 DEF RemoteOK
<1>8. ASSUME play.layout = "worktrees"
      PROVE  /\ \A d \in Checkouts : trk[d] = o
             /\ CurrentOK(tip, o, planned)
             /\ ~raced => DistinctOK(log, tip, o, planned)
  <2>1. /\ \A d \in Checkouts : tracked[d] = origin
        /\ CurrentOK(tip, origin, planned)
        /\ ~raced => DistinctOK(log, tip, origin, planned)
    BY <1>8 DEF BranchInv
  <2>2. ASSUME NEW d \in Checkouts PROVE trk[d] = o
    <3>1. trk[d] = [trunk |-> IF o.trunk # origin.trunk THEN o.trunk ELSE origin.trunk,
                    branch |-> [origin.branch EXCEPT ![c] = o.branch[c]]]
      BY <1>1, <1>2, <1>8, <2>1 DEF RepoOf
    <3>2. PICK b : b = [origin.branch EXCEPT ![c] = o.branch[c]]
      OBVIOUS
    <3>3. b = o.branch
      BY <1>4, <3>2
    <3>4. o = [trunk |-> o.trunk, branch |-> o.branch]
      BY DEF Remotes
    <3> QED
      BY <3>1, <3>2, <3>3, <3>4
  <2>3. CurrentOK(tip, o, planned)
    BY <2>1 DEF CurrentOK
  <2>4. ~raced => DistinctOK(log, tip, o, planned)
    BY <2>1 DEF DistinctOK
  <2> QED
    BY <2>2, <2>3, <2>4
<1> QED
  BY <1>1, <1>2, <1>6, <1>7, <1>8 DEF BranchInv

LEMMA FetchStep ==
  ASSUME BranchInv, NEW c \in Checkouts, Fetch(c)
  PROVE  BranchInv'
<1>s. ShapeInv
  BY DEF BranchInv
<1>1. /\ tracked[c] # origin /\ UNCHANGED <<play, log, origin, tip, planned, raced>>
      /\ tracked' = [d \in Checkouts |-> IF d \in RepoOf(c) THEN origin ELSE tracked[d]]
  BY DEF Fetch
<1>2. PICK trk : trk = tracked'
  OBVIOUS
<1>3. play.layout # "worktrees"
  BY <1>1 DEF BranchInv
<1>4. origin.trunk \in ReachIn(log, origin.trunk)
  BY <1>s, RefFacts, ReachTransitive, FilesAt
<1>5. \A d \in Checkouts : trk[d] = origin \/ trk[d] = tracked[d]
  BY <1>1, <1>2
<1>6. RemoteOK(log, origin, trk)
  BY <1>4, <1>5 DEF BranchInv, RemoteOK
<1>7. ShapeInv'
  <2>1. trk \in [Checkouts -> Remotes(Len(log))]
    BY <1>s, <1>1, <1>2, <1>5 DEF ShapeInv
  <2> QED
    BY <1>s, <1>1, <1>2, <2>1 DEF ShapeInv, Idle
<1> QED
  BY <1>1, <1>2, <1>3, <1>6, <1>7 DEF BranchInv

LEMMA PushTrunkStep ==
  ASSUME BranchInv, NEW c \in Checkouts, PushTrunk(c)
  PROVE  BranchInv'
<1>s. ShapeInv
  BY DEF BranchInv
<1>1. PICK o : o = [origin EXCEPT !.trunk = tip[c]]
  OBVIOUS
<1>2. origin.trunk \in Reach(tip[c]) /\ prePush(c) /\ Publish(c, o)
  BY <1>1 DEF PushTrunk
<1>3. /\ tip[c] \in 1..Len(log) /\ tip[c] \in 0..Len(log) /\ origin \in Remotes(Len(log))
      /\ \A d \in Checkouts : origin.branch[d] \in 0..Len(log)
  BY <1>s, RefFacts, RefsFacts
<1>4. o \in Remotes(Len(log)) /\ o.trunk = tip[c] /\ o.branch = origin.branch
  BY <1>1, <1>3 DEF Remotes
<1>5. /\ origin.trunk \in ReachIn(log, o.trunk) /\ Files(tip[c]) = FilesIn(log, o.trunk)
      /\ tip[c] \in ReachIn(log, o.trunk) /\ Reach(tip[c]) = ReachIn(log, o.trunk)
  <2>1. /\ Reach(tip[c]) = ReachIn(log, tip[c]) /\ Files(tip[c]) = FilesIn(log, tip[c])
        /\ tip[c] # 0 => tip[c] \in Reach(tip[c])
    BY <1>s, <1>3, FilesAt
  <2>2. tip[c] # 0
    BY <1>3
  <2> QED
    BY <1>2, <1>4, <2>1, <2>2
<1>6. Apart(FilesIn(log, o.trunk), FilesIn(log, o.trunk))
  BY <1>s, <1>2, <1>5, CleanIsApart
<1>7. ASSUME NEW e \in FilesIn(log, o.trunk), NEW r \in e.refs
      PROVE  Cited(log, Published(log, o), r)
  <2>1. PICK k \in {tip[c]} \cup RemoteTrackingRefs(c) : \E x \in Files(k) : IdOf(x) = IdOf(r)
    BY <1>s, <1>2, <1>5, <1>7, CleanCites
  <2>2. Files(k) = FilesIn(log, k)
    BY DEF Files, FilesIn
  <2>3. CASE k = tip[c]
    BY <1>5, <2>1, <2>2, <2>3 DEF Published, Cited
  <2>4. CASE k = tracked[c].trunk
    <3>1. tracked[c].trunk \in ReachIn(log, origin.trunk)
      BY DEF BranchInv, RemoteOK
    <3>2. ReachIn(log, origin.trunk) \subseteq ReachIn(log, o.trunk)
      <4>1. o.trunk \in 1..Len(log)
        BY <1>3, <1>4
      <4> QED
        BY <1>s, <1>5, <4>1, ReachTransitive
    <3> QED
      BY <2>1, <2>2, <2>4, <3>1, <3>2 DEF Published, Cited
  <2>5. CASE \E d \in Checkouts : k = tracked[c].branch[d]
    <3>1. PICK d \in Checkouts : k = tracked[c].branch[d]
      BY <2>5
    <3>2. k \in {0, origin.branch[d]}
      BY <3>1 DEF BranchInv, RemoteOK
    <3>3. k # 0
      BY <2>1 DEF Files
    <3>4. k = origin.branch[d] /\ k \in 0..Len(log)
      BY <1>3, <3>2, <3>3
    <3>5. k \in ReachIn(log, o.branch[d])
      BY <1>s, <1>4, <3>3, <3>4, FilesAt
    <3> QED
      BY <2>1, <2>2, <3>5 DEF Published, Cited
  <2> QED
    BY <2>1, <2>3, <2>4, <2>5 DEF RemoteTrackingRefs
<1>8. RefsOf(tip, o) \subseteq RefsOf(tip, origin)
  BY <1>4 DEF RefsOf
<1>9. TrunkOK(log, o)
  BY <1>6, <1>7 DEF TrunkOK
<1> QED
  BY <1>2, <1>4, <1>5, <1>8, <1>9, PublishStep

LEMMA PushBranchStep ==
  ASSUME BranchInv, NEW c \in Checkouts, PushBranch(c)
  PROVE  BranchInv'
<1>s. ShapeInv
  BY DEF BranchInv
<1>1. PICK o : o = [origin EXCEPT !.branch[c] = tip[c]]
  OBVIOUS
<1>2. (\A d \in Checkouts : origin.branch[d] = 0) /\ Publish(c, o)
  BY <1>1 DEF PushBranch
<1>3. /\ tip[c] \in 1..Len(log) /\ tip[c] \in 0..Len(log) /\ origin \in Remotes(Len(log))
      /\ origin.trunk \in 1..Len(log) /\ origin.branch \in [Checkouts -> 0..Len(log)]
  BY <1>s, RefFacts, RefsFacts DEF Remotes
<1>4. PICK b : b = [origin.branch EXCEPT ![c] = tip[c]]
  OBVIOUS
<1>5. o.trunk = origin.trunk /\ o.branch = b /\ o = [trunk |-> origin.trunk, branch |-> b]
  BY <1>1, <1>3, <1>4 DEF Remotes
<1>6. b \in [Checkouts -> 0..Len(log)] /\ b[c] = tip[c] /\ \A d \in Checkouts \ {c} : b[d] = origin.branch[d]
  BY <1>3, <1>4
<1>7. o \in Remotes(Len(log))
  BY <1>3, <1>5, <1>6 DEF Remotes
<1>8. origin.trunk \in ReachIn(log, o.trunk)
  BY <1>s, <1>3, <1>5, FilesAt
<1>9. TrunkOK(log, o)
  <2>1. TrunkOK(log, origin)
    BY DEF BranchInv
  <2>2. Published(log, origin) \subseteq Published(log, o)
    BY <1>2, <1>5 DEF Published, ReachIn
  <2> QED
    BY <1>5, <2>1, <2>2 DEF TrunkOK, Cited
<1>10. \A d \in Checkouts : origin.branch[d] \in {0, o.branch[d]}
  BY <1>2
<1>11. RefsOf(tip, o) \subseteq RefsOf(tip, origin)
  BY <1>5, <1>6 DEF RefsOf
<1>12. \A d \in Checkouts \ {c} : o.branch[d] = origin.branch[d]
  BY <1>5, <1>6
<1> QED
  BY <1>2, <1>7, <1>8, <1>9, <1>10, <1>11, <1>12, PublishStep

-----------------------------------------------------------------------------
(* The invariant holds of every reachable state.                             *)
LEMMA InitInv == Init => BranchInv
<1> SUFFICES ASSUME Init PROVE BranchInv
  OBVIOUS
<1> DEFINE e == [NewFile(1, 1, {}) EXCEPT !.ver = 1]
<1>1. PICK x : log = <<x>> /\ x.files = {e} /\ x.reach = {1}
  BY DEF Init
<1>2. /\ play \in Scenarios /\ origin = [trunk |-> 1, branch |-> [c \in Checkouts |-> 0]]
      /\ tracked = [c \in Checkouts |-> origin] /\ tip = [c \in Checkouts |-> 1]
      /\ planned = [c \in Checkouts |-> NoPlan] /\ raced = FALSE
  BY DEF Init
<1>3. e \in File /\ e.n = 1
  BY DEF File, NewFile
<1> HIDE DEF e
<1>4. Len(log) = 1 /\ log[1] = x /\ IsSeq(log)
  <2>1. <<x>> \in Seq({x})
    OBVIOUS
  <2> QED
    BY <1>1, <2>1 DEF IsSeq
<1>5. LogOK(log)
  <2>1. FilesOK({e}, 1)
    BY <1>3 DEF FilesOK, PathsDistinct
  <2>2. \A k \in 1..Len(log) : log[k] = x /\ k = 1
    BY <1>4
  <2>3. \A j \in {1} : log[j].reach = {1}
    BY <1>1, <1>4
  <2> QED
    BY <1>1, <1>4, <2>1, <2>2, <2>3 DEF LogOK
<1>6. origin \in Remotes(1)
  BY <1>2 DEF Remotes
<1>7. NoPlan \in [verb : {"", "add", "rename", "reallocate"}, files : SUBSET File, seen : 0..1]
  <2>1. {} \in SUBSET File /\ 0 \in 0..1
    OBVIOUS
  <2> QED
    BY <2>1 DEF NoPlan
<1>8. ShapeInv
  <2>1. tip \in [Checkouts -> 1..Len(log)] /\ origin \in Remotes(Len(log))
    BY <1>2, <1>4, <1>6
  <2>2. tracked \in [Checkouts -> Remotes(Len(log))]
    BY <1>2, <1>4, <1>6
  <2>3. planned \in [Checkouts -> [verb : {"", "add", "rename", "reallocate"},
                                   files : SUBSET File, seen : 0..Len(log)]]
    <3> HIDE DEF NoPlan
    <3> QED
      BY <1>2, <1>4, <1>7
  <2>4. \A c \in Checkouts : Idle(c)
    BY <1>2 DEF Idle
  <2> QED
    BY <1>2, <1>5, <2>1, <2>2, <2>3, <2>4 DEF ShapeInv
<1>9. FilesIn(log, 0) = {} /\ FilesIn(log, 1) = {e} /\ ReachIn(log, 1) = {1}
  BY <1>1, <1>4 DEF FilesIn, ReachIn
<1>10. RemoteOK(log, origin, tracked)
  BY <1>2, <1>9 DEF RemoteOK
<1>11. TrunkOK(log, origin)
  <2>1. e.refs = {}
    BY DEF e, NewFile
  <2>2. origin.trunk = 1
    BY <1>2
  <2> QED
    BY <1>9, <2>1, <2>2 DEF TrunkOK, Apart
<1>12. CurrentOK(tip, origin, planned)
  BY <1>2 DEF CurrentOK
<1>13. DistinctOK(log, tip, origin, planned)
  <2>1. RefsOf(tip, origin) \subseteq {0, 1}
    BY <1>2 DEF RefsOf
  <2>2. \A k, j \in {0, 1} : Apart(FilesIn(log, k), FilesIn(log, j))
    BY <1>9 DEF Apart
  <2> QED
    BY <1>2, <2>1, <2>2 DEF DistinctOK
<1> QED
  BY <1>2, <1>8, <1>10, <1>11, <1>12, <1>13 DEF BranchInv

LEMMA AddStep ==
  ASSUME BranchInv, NEW c \in Checkouts, NEW u \in Fresh, NEW refs \in RefSets, Add(c, u, refs)
  PROVE  BranchInv'
<1>1. ShapeInv
  BY DEF BranchInv
<1>2. PICK n : n = AllocateID(LoadTreeWithTrunk(c), "decision", AllocationIDs(LoadTreeWithTrunk(c)))
  OBVIOUS
<1>3. PICK fs : fs = Files(tip[c]) \cup {NewFile(u, n, refs)}
  OBVIOUS
<1>4. Plan(c, "add", fs)
  BY <1>2, <1>3, LoadFacts DEF Add
<1>5. Derived(c, fs)
  BY <1>1, <1>2, <1>3, AddDerived
<1> QED
  BY <1>4, <1>5, PlanStep

LEMMA RetitleStep ==
  ASSUME BranchInv, NEW c \in Checkouts, NEW e \in Files(tip[c]), Retitle(c, e)
  PROVE  BranchInv'
<1>1. ShapeInv
  BY DEF BranchInv
<1>2. PICK fs : fs = (Files(tip[c]) \ {e}) \cup {[e EXCEPT !.slug = @ + 10]}
  OBVIOUS
<1>3. Load(c).files = Files(tip[c])
  BY DEF Load
<1>4. Plan(c, "rename", fs) /\ \A o \in Files(tip[c]) \ {e} : ~SameRawID(o, e)
  BY <1>2, <1>3 DEF Retitle, Rename
<1>5. Derived(c, fs)
  BY <1>1, <1>2, <1>4, RetitleDerived
<1> QED
  BY <1>4, <1>5, PlanStep

LEMMA ReallocateStep ==
  ASSUME BranchInv, NEW c \in Checkouts, NEW e \in Files(tip[c]), Reallocate(c, e)
  PROVE  BranchInv'
<1>1. ShapeInv
  BY DEF BranchInv
<1>2. Plan(c, "reallocate", ReallocatedTree(LoadTreeWithTrunk(c), e).files)
  BY DEF Reallocate
<1>3. Derived(c, ReallocatedTree(LoadTreeWithTrunk(c), e).files)
  BY <1>1, ReallocateDerived
<1> QED
  BY <1>2, <1>3, PlanStep

LEMMA NextInv == BranchInv /\ [Next]_vars => BranchInv'
<1> SUFFICES ASSUME BranchInv, [Next]_vars PROVE BranchInv'
  OBVIOUS
<1>1. CASE UNCHANGED vars
  BY <1>1 DEF vars, BranchInv, ShapeInv, Idle, RemoteOK, TrunkOK, CurrentOK, DistinctOK
<1>2. CASE Next
  <2>1. PICK c \in Checkouts :
          \/ \E u \in Fresh : u = Min(Fresh) /\ \E refs \in RefSets : Add(c, u, refs)
          \/ \E e \in Files(tip[c]) : Retitle(c, e)
          \/ ReallocateByID(c) \/ ReallocateByPath(c) \/ Commit(c)
          \/ MergeTrunk(c) \/ MergeOther(c)
          \/ Fetch(c) \/ PushTrunk(c) \/ PushBranch(c)
    BY <1>2 DEF Next
  <2>2. CASE \E u \in Fresh : \E refs \in RefSets : Add(c, u, refs)
    BY <2>2, AddStep
  <2>3. CASE \E e \in Files(tip[c]) : Retitle(c, e)
    BY <2>3, RetitleStep
  <2>4. CASE ReallocateByID(c)
    <3>1. PICK id \in AllIDs : \E e \in resolveReallocateTarget(c, id) : Reallocate(c, e)
      BY <2>4 DEF ReallocateByID
    <3>2. \E e \in Files(tip[c]) : Reallocate(c, e)
      BY <3>1, TargetFacts
    <3> QED
      BY <3>2, ReallocateStep
  <2>5. CASE ReallocateByPath(c)
    <3>1. \E e \in Files(tip[c]) : Reallocate(c, e)
      BY <2>5 DEF ReallocateByPath
    <3> QED
      BY <3>1, ReallocateStep
  <2>6. CASE Commit(c)
    BY <2>6, CommitStep
  <2>7. CASE MergeTrunk(c)
    BY <2>7, MergeTrunkStep
  <2>8. CASE MergeOther(c)
    BY <2>8, MergeOtherStep
  <2>9. CASE Fetch(c)
    BY <2>9, FetchStep
  <2>10. CASE PushTrunk(c)
    BY <2>10, PushTrunkStep
  <2>11. CASE PushBranch(c)
    BY <2>11, PushBranchStep
  <2> QED
    BY <2>1, <2>2, <2>3, <2>4, <2>5, <2>6, <2>7, <2>8, <2>9, <2>10, <2>11
<1> QED
  BY <1>1, <1>2

LEMMA AlwaysInv == Spec => []BranchInv
BY InitInv, NextInv, PTL DEF Spec

(* With any number of checkouts, in one repository or as clones, however     *)
(* their adds, renames, renumberings, merges and fetches interleave: the     *)
(* trunk that the pre-push check (check.idsUnique, check.refsResolve) let    *)
(* through never holds two decisions under one id, and cites no id that is   *)
(* on no published ref.                                                      *)
THEOREM TrunkStaysSound == Spec => []TrunkIsSound
<1>1. BranchInv => TrunkIsSound
  <2> SUFFICES ASSUME BranchInv PROVE TrunkIsSound
    OBVIOUS
  <2>1. ShapeInv /\ TrunkOK(log, origin)
    BY DEF BranchInv
  <2>2. \A k : Files(k) = FilesIn(log, k) /\ Reach(k) = ReachIn(log, k)
    BY DEF Files, Reach, FilesIn, ReachIn
  <2>3. origin.trunk \in 0..Len(log)
    BY <2>1, RefsFacts DEF Remotes
  <2>4. FilesOK(Files(origin.trunk), Len(log))
    BY <2>1, <2>3, FilesAt
  <2>5. PublishedIdsUnique
    <3>1. Apart(Files(origin.trunk), Files(origin.trunk))
      BY <2>1, <2>2 DEF TrunkOK
    <3> QED
      BY <2>4, <3>1, SamePath DEF PublishedIdsUnique, Apart, FilesOK
  <2>6. CitationsArePublished
    <3> SUFFICES ASSUME NEW e \in Files(origin.trunk), NEW r \in e.refs
                 PROVE  \E k \in Reach(origin.trunk) \cup UNION {Reach(origin.branch[c]) : c \in Checkouts} :
                          \E o \in Files(k) : IdOf(o) = IdOf(r)
      BY DEF CitationsArePublished
    <3>1. PICK k \in Published(log, origin) : \E o \in FilesIn(log, k) : IdOf(o) = IdOf(r)
      BY <2>1, <2>2 DEF TrunkOK, Cited
    <3>2. k \in Reach(origin.trunk) \cup UNION {Reach(origin.branch[c]) : c \in Checkouts}
      BY <2>2 DEF Published
    <3> QED
      BY <2>2, <3>1, <3>2
  <2> QED
    BY <2>5, <2>6 DEF TrunkIsSound
<1> QED
  BY <1>1, AlwaysInv, PTL

(* Worktrees of one repository, any number of them: as long as no worktree   *)
(* committed between another verb's load and its commit, no two of their     *)
(* branches ever use one id for different decisions.  The lock is per        *)
(* worktree (repolock), so nothing more holds.                               *)
THEOREM OnlyRacesCollide == Spec => []OnlyARaceCollides
<1>1. BranchInv => OnlyARaceCollides
  <2> SUFFICES ASSUME BranchInv, play.layout = "worktrees", ~raced,
                      NEW c \in Checkouts, NEW d \in Checkouts,
                      NEW e \in Files(tip[c]), NEW o \in Files(tip[d]), e.uid # o.uid
               PROVE  IdOf(e) # IdOf(o)
    BY DEF OnlyARaceCollides
  <2>1. ShapeInv /\ DistinctOK(log, tip, origin, planned)
    BY DEF BranchInv
  <2>2. tip[c] \in RefsOf(tip, origin) /\ tip[d] \in RefsOf(tip, origin)
    BY DEF RefsOf
  <2>3. Apart(FilesIn(log, tip[c]), FilesIn(log, tip[d]))
    BY <2>1, <2>2 DEF DistinctOK
  <2>4. e.n # o.n
    BY <2>3 DEF Apart, Files, FilesIn
  <2>5. e \in File /\ o \in File
    BY <2>1, RefFacts, FilesAt DEF FilesOK
  <2> QED
    BY <2>4, <2>5, SamePath
<1> QED
  BY <1>1, AlwaysInv, PTL
=============================================================================
