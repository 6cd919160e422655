----------------------------- MODULE ScopeProofs -----------------------------
(***************************************************************************)
(* What ScopeLog guarantees for any number of entities, agents and         *)
(* commits: the replays, the renumberings, the gate and the audit agree on *)
(* the scopes of a history.                                                *)
(***************************************************************************)
EXTENDS ScopeLog, Inductions

USE ScopeAssumption

Verbs == {"authorize", "act", "promote", "move", "add", "reallocate"}

Commit ==
  [verb : Verbs, entity : Ids, actor : Actors, to : Actors,
   scope : {"", "opened", "paused", "resumed"}, ends : SUBSET Nat,
   prior : Ids \cup {None}, auth : Nat, force : BOOLEAN]

LEMMA IdFacts ==
  /\ \A x \in Ids : /\ x = <<x[1], x[2]>> /\ Kind(x) \in Kinds /\ Kind(x) = x[1]
                    /\ x[2] \in 1..Room(Kind(x)) /\ x[2] \in Nat
  /\ \A k \in Kinds : Room(k) \in Nat /\ \A n \in 1..Room(k) : <<k, n>> \in Ids /\ Kind(<<k, n>>) = k
  /\ None \notin Ids
<1>1. \A k \in Kinds : Room(k) \in Nat
  BY DEF Kinds, Room
<1>2. ASSUME NEW x \in Ids
      PROVE  /\ x = <<x[1], x[2]>> /\ x[1] \in Kinds /\ x[2] \in 1..Room(x[1])
  BY DEF Ids
<1>3. ASSUME NEW k \in Kinds, NEW n \in 1..Room(k) PROVE <<k, n>> \in Ids
  BY DEF Ids
<1>4. \A x \in Ids : x # <<>>
  BY <1>2
<1> QED BY <1>1, <1>2, <1>3, <1>4 DEF Kind, None

(* The highest of some bounded numbers.                                    *)
LEMMA LatestFacts ==
  ASSUME NEW m \in Nat, NEW S \in SUBSET (0..m), S # {}
  PROVE  Latest(S) \in S /\ \A n \in S : n <= Latest(S)
<1> DEFINE T == {m - n : n \in S}
<1>1. T \subseteq Nat /\ T # {}
  OBVIOUS
<1>2. PICK d \in T : \A e \in T : d <= e
  <2> HIDE DEF T
  <2> QED BY <1>1, LeastElement
<1>3. PICK n \in S : d = m - n
  OBVIOUS
<1>4. \A o \in S : o <= n
  <2> TAKE o \in S
  <2>1. m - n <= m - o
    BY <1>2, <1>3
  <2>2. n \in 0..m /\ o \in 0..m
    OBVIOUS
  <2> QED BY <2>1, <2>2
<1>5. Latest(S) = CHOOSE h \in S : \A o \in S : o <= h
  BY DEF Latest
<1> QED BY <1>4, <1>5
-----------------------------------------------------------------------------
(* The replay.                                                             *)

ScopeSets == [active : SUBSET Nat, paused : SUBSET Nat, ended : SUBSET Nat]

Disjoint(s) == /\ s.active \cap s.paused = {} /\ s.active \cap s.ended = {}
               /\ s.paused \cap s.ended = {}

(* Putting scopes in a state takes them out of the others.                 *)
LEMMA PutFacts ==
  ASSUME NEW s \in ScopeSets, NEW P \in SUBSET Nat, NEW to \in {"active", "paused", "ended"}
  PROVE  /\ Put(s, P, to) \in ScopeSets
         /\ Disjoint(s) => Disjoint(Put(s, P, to))
         /\ Opened(Put(s, P, to)) = Opened(s) \cup P
BY DEF Put, ScopeSets, Disjoint, Opened

LEMMA MostRecentFacts ==
  ASSUME NEW s \in ScopeSets
  PROVE  /\ mostRecent(s, "active") \subseteq s.active
         /\ mostRecent(s, "paused") \subseteq s.paused
         /\ mostRecent(s, "active") \in SUBSET Nat
         /\ mostRecent(s, "paused") \in SUBSET Nat
BY DEF mostRecent, ScopeSets

(* What one commit of the entity does, by its trailers: `moved` is what    *)
(* its aiwf-scope trailer does.                                            *)
LEMMA ReplayCommitCases ==
  ASSUME NEW s \in ScopeSets, NEW c \in Commit, NEW k \in Nat
  PROVE  \E moved \in ScopeSets :
           /\ ReplayCommit(s, c, k) = Put(moved, c.ends \cap Opened(s), "ended")
           /\ Disjoint(s) => Disjoint(moved)
           /\ c.scope = "opened" => moved = Put(s, {k}, "active")
           /\ c.scope = "paused" => moved = Put(s, mostRecent(s, "active"), "paused")
           /\ c.scope = "resumed" => moved = Put(s, mostRecent(s, "paused"), "active")
           /\ c.scope = "" => moved = s
           /\ Opened(s) \subseteq Opened(moved)
           /\ Opened(moved) \subseteq Opened(s) \cup (IF c.scope = "opened" THEN {k} ELSE {})
<1> DEFINE moved == CASE c.scope = "opened"  -> Put(s, {k}, "active")
                 [] c.scope = "paused"  -> Put(s, mostRecent(s, "active"), "paused")
                 [] c.scope = "resumed" -> Put(s, mostRecent(s, "paused"), "active")
                 [] OTHER               -> s
<1>1. ReplayCommit(s, c, k) = Put(moved, c.ends \cap Opened(s), "ended")
  BY DEF ReplayCommit
<1>2. /\ c.scope = "opened" => moved = Put(s, {k}, "active")
      /\ c.scope = "paused" => moved = Put(s, mostRecent(s, "active"), "paused")
      /\ c.scope = "resumed" => moved = Put(s, mostRecent(s, "paused"), "active")
      /\ c.scope = "" => moved = s
  OBVIOUS
<1>3. c.scope \in {"", "opened", "paused", "resumed"}
  BY DEF Commit
<1> HIDE DEF moved
<1>4. mostRecent(s, "active") \subseteq Opened(s) /\ mostRecent(s, "paused") \subseteq Opened(s)
  BY MostRecentFacts DEF Opened
<1>5. /\ Put(s, {k}, "active") \in ScopeSets
      /\ Disjoint(s) => Disjoint(Put(s, {k}, "active"))
      /\ Opened(Put(s, {k}, "active")) = Opened(s) \cup {k}
  BY PutFacts
<1>6. /\ Put(s, mostRecent(s, "active"), "paused") \in ScopeSets
      /\ Disjoint(s) => Disjoint(Put(s, mostRecent(s, "active"), "paused"))
      /\ Opened(Put(s, mostRecent(s, "active"), "paused")) = Opened(s) \cup mostRecent(s, "active")
  BY MostRecentFacts, PutFacts
<1>7. /\ Put(s, mostRecent(s, "paused"), "active") \in ScopeSets
      /\ Disjoint(s) => Disjoint(Put(s, mostRecent(s, "paused"), "active"))
      /\ Opened(Put(s, mostRecent(s, "paused"), "active")) = Opened(s) \cup mostRecent(s, "paused")
  BY MostRecentFacts, PutFacts
<1>8. moved \in ScopeSets /\ (Disjoint(s) => Disjoint(moved))
  BY <1>2, <1>3, <1>5, <1>6, <1>7
<1>9. /\ Opened(s) \subseteq Opened(moved)
      /\ Opened(moved) \subseteq Opened(s) \cup (IF c.scope = "opened" THEN {k} ELSE {})
  BY <1>2, <1>3, <1>4, <1>5, <1>6, <1>7
<1> QED BY <1>1, <1>2, <1>8, <1>9

LEMMA ReplayCommitType ==
  ASSUME NEW s \in ScopeSets, NEW c \in Commit, NEW k \in Nat
  PROVE  /\ ReplayCommit(s, c, k) \in ScopeSets
         /\ Disjoint(s) => Disjoint(ReplayCommit(s, c, k))
         /\ Opened(s) \subseteq Opened(ReplayCommit(s, c, k))
         /\ Opened(ReplayCommit(s, c, k)) \subseteq
              Opened(s) \cup (IF c.scope = "opened" THEN {k} ELSE {})
<1>1. PICK moved \in ScopeSets :
        /\ ReplayCommit(s, c, k) = Put(moved, c.ends \cap Opened(s), "ended")
        /\ Disjoint(s) => Disjoint(moved)
        /\ Opened(s) \subseteq Opened(moved)
        /\ Opened(moved) \subseteq Opened(s) \cup (IF c.scope = "opened" THEN {k} ELSE {})
  BY ReplayCommitCases
<1> DEFINE E == c.ends \cap Opened(s)
<1>2. E \in SUBSET Nat /\ E \subseteq Opened(moved)
  BY <1>1 DEF Commit
<1> HIDE DEF E
<1>3. /\ Put(moved, E, "ended") \in ScopeSets
      /\ Disjoint(moved) => Disjoint(Put(moved, E, "ended"))
      /\ Opened(Put(moved, E, "ended")) = Opened(moved) \cup E
  BY <1>2, PutFacts
<1> QED BY <1>1, <1>2, <1>3 DEF E

(* The replay satisfies its recursion.                                     *)
LEMMA ReplayUnfold ==
  ASSUME NEW h \in Seq(Commit), NEW x
  PROVE  /\ Replayed(h, x) \in [0..Len(h) -> ScopeSets]
         /\ Replayed(h, x)[0] = NoScopes
         /\ \A k \in 1..Len(h) :
              Replayed(h, x)[k] = IF h[k].entity = x THEN ReplayCommit(Replayed(h, x)[k - 1], h[k], k)
                                  ELSE Replayed(h, x)[k - 1]
<1> DEFINE n == Len(h)
           Right(f) == f = [k \in 0..n |->
                             IF k = 0 THEN NoScopes
                             ELSE IF h[k].entity = x THEN ReplayCommit(f[k - 1], h[k], k)
                             ELSE f[k - 1]]
           step == [k \in 1..n |-> [s \in ScopeSets |->
                                     IF h[k].entity = x THEN ReplayCommit(s, h[k], k) ELSE s]]
<1>1. n \in Nat /\ \A k \in 1..n : h[k] \in Commit /\ k \in Nat
  OBVIOUS
<1>2. step \in [1..n -> [ScopeSets -> ScopeSets]]
  BY <1>1, ReplayCommitType
<1>3. NoScopes \in ScopeSets
  BY DEF NoScopes, ScopeSets
<1>4. PICK f \in [0..n -> ScopeSets] : Recurs(f, n, NoScopes, step)
  <2> HIDE DEF step, n
  <2> QED BY <1>1, <1>2, <1>3, RecursionOnInterval
<1>5. ASSUME NEW k \in 1..n
      PROVE  step[k][f[k - 1]] = IF h[k].entity = x THEN ReplayCommit(f[k - 1], h[k], k) ELSE f[k - 1]
  <2>1. f[k - 1] \in ScopeSets
    BY <1>1
  <2> QED BY <2>1
<1>6. \A k \in 0..n : f[k] = IF k = 0 THEN NoScopes
                             ELSE IF h[k].entity = x THEN ReplayCommit(f[k - 1], h[k], k)
                             ELSE f[k - 1]
  <2>1. f[0] = NoScopes /\ \A k \in 1..n : f[k] = step[k][f[k - 1]]
    BY <1>4 DEF Recurs
  <2> HIDE DEF step
  <2>2. \A k \in 0..n : k = 0 \/ k \in 1..n
    BY <1>1
  <2> QED BY <1>5, <2>1, <2>2
<1> HIDE DEF step
<1>r. Right(f)
  BY <1>6
<1>7. Replayed(h, x) = CHOOSE g : Right(g)
  BY DEF Replayed
<1>8. Right(Replayed(h, x))
  <2> HIDE DEF Right
  <2> QED BY <1>r, <1>7
<1>9. Replayed(h, x) = f
  <2> DEFINE g == Replayed(h, x)
             S == {k \in Nat : k \in 0..n => g[k] = f[k]}
  <2>1. \A i \in 0..n : g[i] = IF i = 0 THEN NoScopes
                               ELSE IF h[i].entity = x THEN ReplayCommit(g[i - 1], h[i], i)
                               ELSE g[i - 1]
    BY <1>8
  <2>2. \A i \in 0..n : f[i] = IF i = 0 THEN NoScopes
                               ELSE IF h[i].entity = x THEN ReplayCommit(f[i - 1], h[i], i)
                               ELSE f[i - 1]
    BY <1>6
  <2>3. g = [i \in 0..n |-> g[i]]
    BY <1>8
  <2> HIDE DEF g
  <2>4. 0 \in S
    BY <2>1, <2>2, <1>1
  <2>5. \A k \in Nat : k \in S => k + 1 \in S
    BY <2>1, <2>2, <1>1
  <2>6. Nat \subseteq S
    <3> HIDE DEF S
    <3> QED BY <2>4, <2>5, SetInduction
  <2>7. \A i \in 0..n : g[i] = f[i]
    BY <2>6, <1>1
  <2>8. f = [i \in 0..n |-> f[i]]
    OBVIOUS
  <2>9. g = f
    BY <2>3, <2>7, <2>8
  <2> QED BY <2>9 DEF g
<1>10. f[0] = NoScopes /\ \A k \in 1..n : f[k] = IF h[k].entity = x THEN ReplayCommit(f[k - 1], h[k], k)
                                               ELSE f[k - 1]
  BY <1>1, <1>6
<1> QED BY <1>9, <1>10

(* A replay knows each scope once, and only scopes opened on the entity.   *)
LEMMA ReplayFacts ==
  ASSUME NEW h \in Seq(Commit), NEW x
  PROVE  /\ ReplayScopes(h, x) \in ScopeSets
         /\ Disjoint(ReplayScopes(h, x))
         /\ \A p \in Opened(ReplayScopes(h, x)) :
              p \in 1..Len(h) /\ h[p].scope = "opened" /\ h[p].entity = x
<1> DEFINE f == Replayed(h, x)
           Good(p, k) == p \in 1..k /\ h[p].scope = "opened" /\ h[p].entity = x
           S == {k \in Nat : k <= Len(h) => Disjoint(f[k]) /\ \A p \in Opened(f[k]) : Good(p, k)}
<1>1. /\ f \in [0..Len(h) -> ScopeSets]
      /\ f[0] = NoScopes
      /\ \A k \in 1..Len(h) :
           f[k] = IF h[k].entity = x THEN ReplayCommit(f[k - 1], h[k], k) ELSE f[k - 1]
  BY ReplayUnfold
<1> HIDE DEF f
<1>2. 0 \in S
  BY <1>1 DEF NoScopes, Disjoint, Opened
<1>3. ASSUME NEW k \in Nat, k \in S PROVE k + 1 \in S
  <2> SUFFICES ASSUME k + 1 <= Len(h)
               PROVE  Disjoint(f[k + 1]) /\ \A p \in Opened(f[k + 1]) : Good(p, k + 1)
    OBVIOUS
  <2>1. /\ f[k] \in ScopeSets /\ h[k + 1] \in Commit
        /\ f[k + 1] = IF h[k + 1].entity = x THEN ReplayCommit(f[k], h[k + 1], k + 1) ELSE f[k]
    <3>1. Len(h) \in Nat /\ k \in 0..Len(h) /\ k + 1 \in 1..Len(h) /\ (k + 1) - 1 = k
      OBVIOUS
    <3>2. h[k + 1] \in Commit
      BY <3>1
    <3> QED BY <1>1, <3>1, <3>2
  <2>2. Disjoint(f[k]) /\ \A p \in Opened(f[k]) : Good(p, k)
    BY <1>3
  <2>3. CASE h[k + 1].entity = x
    <3>1. /\ Disjoint(f[k + 1])
          /\ Opened(f[k + 1]) \subseteq Opened(f[k]) \cup (IF h[k + 1].scope = "opened" THEN {k + 1} ELSE {})
      <4>1. k + 1 \in Nat
        OBVIOUS
      <4> DEFINE r == ReplayCommit(f[k], h[k + 1], k + 1)
      <4>2. /\ Disjoint(f[k]) => Disjoint(r)
            /\ Opened(r) \subseteq Opened(f[k]) \cup (IF h[k + 1].scope = "opened" THEN {k + 1} ELSE {})
        BY <2>1, <4>1, ReplayCommitType
      <4>3. f[k + 1] = r
        BY <2>1, <2>3
      <4> HIDE DEF r
      <4> QED BY <2>2, <4>2, <4>3
    <3> QED BY <2>2, <2>3, <3>1
  <2>4. CASE h[k + 1].entity # x
    BY <2>1, <2>2, <2>4
  <2> QED BY <2>3, <2>4
<1>4. Nat \subseteq S
  <2> HIDE DEF S
  <2> QED BY <1>2, <1>3, SetInduction
<1>5. Len(h) \in S
  BY <1>4
<1> QED BY <1>1, <1>5 DEF ReplayScopes, f

(* One more commit.                                                        *)
LEMMA ReplayAppend ==
  ASSUME NEW h \in Seq(Commit), NEW c \in Commit, NEW x
  PROVE  ReplayScopes(Append(h, c), x) =
           IF c.entity = x THEN ReplayCommit(ReplayScopes(h, x), c, Len(h) + 1)
           ELSE ReplayScopes(h, x)
<1> DEFINE n == Len(h)
           hh == Append(h, c)
           f == Replayed(h, x)
           g == Replayed(hh, x)
           S == {k \in Nat : k <= n => g[k] = f[k]}
<1>1. hh \in Seq(Commit) /\ Len(hh) = n + 1 /\ hh[n + 1] = c /\ (\A k \in 1..n : hh[k] = h[k]) /\ n \in Nat
  OBVIOUS
<1>2. /\ f[0] = NoScopes
      /\ \A k \in 1..n : f[k] = IF h[k].entity = x THEN ReplayCommit(f[k - 1], h[k], k) ELSE f[k - 1]
  BY ReplayUnfold
<1> HIDE DEF hh, f
<1>3. /\ g[0] = NoScopes
      /\ \A k \in 1..Len(hh) : g[k] = IF hh[k].entity = x THEN ReplayCommit(g[k - 1], hh[k], k) ELSE g[k - 1]
  BY <1>1, ReplayUnfold
<1> HIDE DEF g
<1>4. 0 \in S
  BY <1>2, <1>3
<1>5. ASSUME NEW k \in Nat, k \in S PROVE k + 1 \in S
  <2> SUFFICES ASSUME k + 1 <= n PROVE g[k + 1] = f[k + 1]
    OBVIOUS
  <2>1. k + 1 \in 1..n /\ k + 1 \in 1..Len(hh) /\ (k + 1) - 1 = k /\ k <= n
    BY <1>1
  <2>2. g[k] = f[k] /\ hh[k + 1] = h[k + 1]
    BY <1>1, <1>5, <2>1
  <2>3. f[k + 1] = IF h[k + 1].entity = x THEN ReplayCommit(f[k], h[k + 1], k + 1) ELSE f[k]
    BY <1>2, <2>1
  <2>4. g[k + 1] = IF hh[k + 1].entity = x THEN ReplayCommit(g[k], hh[k + 1], k + 1) ELSE g[k]
    BY <1>3, <2>1
  <2> QED BY <2>2, <2>3, <2>4
<1>6. Nat \subseteq S
  <2> HIDE DEF S
  <2> QED BY <1>4, <1>5, SetInduction
<1>7. g[n] = f[n]
  BY <1>1, <1>6
<1>8. g[n + 1] = IF c.entity = x THEN ReplayCommit(f[n], c, n + 1) ELSE f[n]
  <2>1. n + 1 \in 1..Len(hh) /\ (n + 1) - 1 = n
    BY <1>1
  <2> QED BY <1>1, <1>3, <1>7, <2>1
<1> QED BY <1>1, <1>8 DEF ReplayScopes, hh, f, g

(* The scopes that are neither ended.                                      *)
Endable(s) == s.active \cup s.paused

(* What one commit does to the scopes of its entity that can end, and to   *)
(* the ended ones.                                                         *)
LEMMA ReplayCommitMoves ==
  ASSUME NEW s \in ScopeSets, Disjoint(s), NEW c \in Commit, NEW k \in Nat, k \notin Opened(s),
         c.scope # "" => c.ends = {}, c.ends \subseteq Endable(s)
  PROVE  LET t == ReplayCommit(s, c, k) IN
         /\ t.ended = s.ended \cup c.ends
         /\ Endable(t) = (Endable(s) \ c.ends) \cup (IF c.scope = "opened" THEN {k} ELSE {})
         /\ c.scope = "opened" => s.active \subseteq t.active /\ s.paused = t.paused
         /\ c.scope = "paused" =>
              t.active = s.active \ mostRecent(s, "active") /\ s.paused \subseteq t.paused
         /\ c.scope = "resumed" =>
              t.paused = s.paused \ mostRecent(s, "paused") /\ s.active \subseteq t.active
         /\ c.scope = "" => t.active = s.active \ c.ends /\ t.paused = s.paused \ c.ends
<1>0. PICK moved \in ScopeSets :
           /\ ReplayCommit(s, c, k) = Put(moved, c.ends \cap Opened(s), "ended")
           /\ Disjoint(s) => Disjoint(moved)
           /\ c.scope = "opened" => moved = Put(s, {k}, "active")
           /\ c.scope = "paused" => moved = Put(s, mostRecent(s, "active"), "paused")
           /\ c.scope = "resumed" => moved = Put(s, mostRecent(s, "paused"), "active")
           /\ c.scope = "" => moved = s
           /\ Opened(s) \subseteq Opened(moved)
           /\ Opened(moved) \subseteq Opened(s) \cup (IF c.scope = "opened" THEN {k} ELSE {})
  BY ReplayCommitCases
<1> DEFINE t == ReplayCommit(s, c, k)
           ma == mostRecent(s, "active")
           mp == mostRecent(s, "paused")
<1>1. /\ t = Put(moved, c.ends \cap Opened(s), "ended")
      /\ c.scope = "opened" => moved = Put(s, {k}, "active")
      /\ c.scope = "paused" => moved = Put(s, ma, "paused")
      /\ c.scope = "resumed" => moved = Put(s, mp, "active")
      /\ c.scope = "" => moved = s
  BY <1>0
<1>2. ma \subseteq s.active /\ mp \subseteq s.paused
  BY MostRecentFacts
<1>3. c.ends \cap Opened(s) = c.ends
  BY DEF Endable, Opened
<1>4. t = [active |-> moved.active \ c.ends, paused |-> moved.paused \ c.ends,
           ended |-> moved.ended \cup c.ends]
  BY <1>1, <1>3 DEF Put
<1> HIDE DEF t, ma, mp
<1>5. c.scope \in {"", "opened", "paused", "resumed"}
  BY DEF Commit
<1>6. CASE c.scope = "opened"
  <2>1. /\ moved.active = s.active \cup {k} /\ moved.paused = s.paused \ {k}
        /\ moved.ended = s.ended \ {k} /\ c.ends = {}
    BY <1>1, <1>6 DEF Put
  <2> QED BY <1>4, <1>6, <2>1 DEF Endable, Opened, t, ma, mp
<1>7. CASE c.scope = "paused"
  <2>1. /\ moved.active = s.active \ ma /\ moved.paused = s.paused \cup ma
        /\ moved.ended = s.ended \ ma /\ c.ends = {}
    BY <1>1, <1>7 DEF Put
  <2> QED BY <1>2, <1>4, <1>7, <2>1 DEF Endable, Disjoint, t, ma, mp
<1>8. CASE c.scope = "resumed"
  <2>1. /\ moved.active = s.active \cup mp /\ moved.paused = s.paused \ mp
        /\ moved.ended = s.ended \ mp /\ c.ends = {}
    BY <1>1, <1>8 DEF Put
  <2> QED BY <1>2, <1>4, <1>8, <2>1 DEF Endable, Disjoint, t, ma, mp
<1>9. CASE c.scope = ""
  <2>1. t = [active |-> s.active \ c.ends, paused |-> s.paused \ c.ends,
             ended |-> s.ended \cup c.ends]
    BY <1>1, <1>4, <1>9
  <2>2. /\ t.active = s.active \ c.ends /\ t.paused = s.paused \ c.ends
        /\ t.ended = s.ended \cup c.ends
    BY <2>1
  <2>3. Endable(t) = Endable(s) \ c.ends
    BY <2>2 DEF Endable
  <2> QED BY <1>9, <2>2, <2>3 DEF t
<1> QED BY <1>5, <1>6, <1>7, <1>8, <1>9
-----------------------------------------------------------------------------
(* Renumberings.                                                           *)

Above(y, x) == Kind(y) = Kind(x) /\ y[2] > x[2]

(* Induction from the highest number of each kind down.                    *)
LEMMA FromTheTop ==
  ASSUME NEW S, \A x \in Ids : (\A y \in Ids : Above(y, x) => y \in S) => x \in S
  PROVE  Ids \subseteq S
<1> DEFINE left(x) == Room(Kind(x)) - x[2]
           T == {n \in Nat : \A x \in Ids : left(x) < n => x \in S}
<1>1. \A x \in Ids : left(x) \in Nat /\ Room(Kind(x)) \in Nat /\ x[2] \in Nat
  <2> TAKE x \in Ids
  <2>1. Room(Kind(x)) \in Nat /\ x[2] \in 1..Room(Kind(x))
    BY IdFacts
  <2> QED BY <2>1
<1>2. 0 \in T
  <2> HIDE DEF left
  <2> QED BY <1>1
<1>3. ASSUME NEW n \in Nat, n \in T PROVE n + 1 \in T
  <2> SUFFICES ASSUME NEW x \in Ids, left(x) < n + 1 PROVE x \in S
    OBVIOUS
  <2>1. ASSUME NEW y \in Ids, Above(y, x) PROVE left(y) < n
    BY <1>1, <2>1 DEF Above
  <2>2. \A y \in Ids : left(y) < n => y \in S
    BY <1>3
  <2> HIDE DEF left
  <2> QED BY <2>1, <2>2
<1>4. Nat \subseteq T
  <2> HIDE DEF T
  <2> QED BY <1>2, <1>3, SetInduction
<1>5. ASSUME NEW x \in Ids PROVE x \in S
  <2>1. left(x) + 1 \in T /\ left(x) < left(x) + 1
    <3> HIDE DEF T, left
    <3> QED BY <1>1, <1>4
  <2> HIDE DEF left
  <2> QED BY <2>1
<1> QED BY <1>5

(* Every renumbering in the history takes a higher number of the kind.     *)
Climbs(h) == \A k \in 1..Len(h) : h[k].prior # None => Above(h[k].entity, h[k].prior)

(* The id a renumbering gave x, if it was renumbered.                      *)
LEMMA NextFacts ==
  ASSUME NEW h \in Seq(Commit), Climbs(h), NEW x \in Ids
  PROVE  /\ NextID(h, x) \in Ids
         /\ (\A k \in 1..Len(h) : h[k].prior # x) => NextID(h, x) = x
         /\ (\E k \in 1..Len(h) : h[k].prior = x) =>
              /\ Above(NextID(h, x), x)
              /\ \E k \in 1..Len(h) : h[k].prior = x /\ NextID(h, x) = h[k].entity
<1> DEFINE R == {k \in Commits(h) : h[k].prior = x}
<1>1. Commits(h) = 1..Len(h) /\ Len(h) \in Nat
  BY DEF Commits
<1>2. x # None
  BY IdFacts
<1>3. R = {} => NextID(h, x) = x
  BY DEF NextID
<1>4. ASSUME R # {} PROVE Latest(R) \in R /\ NextID(h, x) = h[Latest(R)].entity
  <2>1. R \in SUBSET (0..Len(h))
    BY <1>1
  <2>2. NextID(h, x) = h[Latest(R)].entity
    BY <1>4 DEF NextID
  <2> HIDE DEF R
  <2> QED BY <1>1, <1>4, <2>1, <2>2, LatestFacts
<1>5. ASSUME NEW k \in R PROVE h[k].entity \in Ids /\ Above(h[k].entity, x)
  <2>1. k \in 1..Len(h) /\ h[k].prior = x /\ h[k] \in Commit
    BY <1>1
  <2>2. h[k].entity \in Ids
    BY <2>1 DEF Commit
  <2> QED BY <1>2, <2>1, <2>2 DEF Climbs
<1> QED BY <1>1, <1>3, <1>4, <1>5

(* The current id is the current id of the next one.                       *)
LEMMA CurrentUnfold ==
  ASSUME NEW h \in Seq(Commit), Climbs(h)
  PROVE  \A x \in Ids : CurrentID(h, x) = IF NextID(h, x) = x THEN x ELSE CurrentID(h, NextID(h, x))
<1> DEFINE N == MaxEpics + MaxMilestones + MaxLedgers + 1
           next(y) == NextID(h, y)
           Right(c) == c = [y \in Ids |-> IF next(y) = y THEN y ELSE c[next(y)]]
           D == [Ids -> Ids]
           step == [i \in 1..N |-> [c \in D |-> [y \in Ids |-> c[next(y)]]]]
           self == [y \in Ids |-> y]
<1>1. N \in Nat /\ \A x \in Ids : Room(Kind(x)) - x[2] \in 0..(N - 1)
  <2>1. \A x \in Ids : Room(Kind(x)) \in 0..(N - 1) /\ x[2] \in 1..Room(Kind(x))
    BY IdFacts DEF Kinds, Room
  <2>2. N \in Nat
    OBVIOUS
  <2> HIDE DEF N
  <2> QED BY <2>1, <2>2
<1>2. \A y \in Ids : next(y) \in Ids /\ (next(y) = y \/ Above(next(y), y))
  BY NextFacts
<1> HIDE DEF N, next
<1>3. self \in D /\ step \in [1..N -> [D -> D]]
  BY <1>2
<1>4. PICK g \in [0..N -> D] : Recurs(g, N, self, step)
  <2> HIDE DEF step, self, D
  <2> QED BY <1>1, <1>3, RecursionOnInterval
<1>5. /\ \A y \in Ids : g[0][y] = y
      /\ \A i \in 1..N : \A y \in Ids : g[i][y] = g[i - 1][next(y)]
  <2>1. g[0] = self /\ \A i \in 1..N : g[i] = step[i][g[i - 1]]
    BY <1>4 DEF Recurs
  <2>2. \A i \in 1..N : g[i - 1] \in D
    BY <1>1
  <2>3. \A i \in 1..N : g[i] = [y \in Ids |-> g[i - 1][next(y)]]
    BY <2>1, <2>2
  <2>4. \A y \in Ids : g[0][y] = y
    BY <2>1
  <2>5. ASSUME NEW i \in 1..N, NEW y \in Ids PROVE g[i][y] = g[i - 1][next(y)]
    <3> HIDE DEF step, self
    <3> QED BY <2>3
  <2> QED BY <2>4, <2>5
<1> HIDE DEF step, self
<1>6. \A i \in 0..N : \A y \in Ids : next(y) = y => g[i][y] = y
  <2> DEFINE S == {i \in Nat : i <= N => \A y \in Ids : next(y) = y => g[i][y] = y}
  <2>1. 0 \in S
    BY <1>5
  <2>2. ASSUME NEW i \in Nat, i \in S PROVE i + 1 \in S
    <3>1. i + 1 <= N => i + 1 \in 1..N /\ (i + 1) - 1 = i
      BY <1>1
    <3> QED BY <1>1, <1>5, <2>2, <3>1
  <2>3. Nat \subseteq S
    <3> HIDE DEF S
    <3> QED BY <2>1, <2>2, SetInduction
  <2> QED BY <1>1, <2>3
<1>7. \A i \in 0..(N - 1) : \A y \in Ids : Room(Kind(y)) - y[2] <= i => g[i + 1][y] = g[i][y]
  <2> DEFINE left(y) == Room(Kind(y)) - y[2]
             S == {i \in Nat : i <= N - 1 => \A y \in Ids : left(y) <= i => g[i + 1][y] = g[i][y]}
  <2>1. \A y \in Ids : left(y) \in Nat /\ \A z \in Ids : Above(z, y) => left(z) < left(y)
    <3>1. \A y \in Ids : Room(Kind(y)) \in Nat /\ y[2] \in 1..Room(Kind(y)) /\ y[2] \in Nat
      BY IdFacts
    <3> QED BY <3>1 DEF Above
  <2> HIDE DEF left
  <2>2. ASSUME NEW i \in 0..(N - 1), NEW y \in Ids, next(y) = y PROVE g[i + 1][y] = g[i][y]
    <3>1. i \in 0..N /\ i + 1 \in 0..N
      BY <1>1
    <3> QED BY <1>6, <2>2, <3>1
  <2>3. 0 \in S
    <3> SUFFICES ASSUME 0 <= N - 1, NEW y \in Ids, left(y) <= 0 PROVE g[0 + 1][y] = g[0][y]
      OBVIOUS
    <3>1. ~Above(next(y), y)
      BY <1>2, <2>1
    <3>2. 0 \in 0..(N - 1)
      BY <1>1
    <3> QED BY <1>2, <2>2, <3>1, <3>2
  <2>4. ASSUME NEW i \in Nat, i \in S PROVE i + 1 \in S
    <3> SUFFICES ASSUME i + 1 <= N - 1, NEW y \in Ids, left(y) <= i + 1
                 PROVE  g[(i + 1) + 1][y] = g[i + 1][y]
      OBVIOUS
    <3>1. i + 1 \in 0..(N - 1) /\ i <= N - 1 /\ i + 1 \in 1..N /\ (i + 1) + 1 \in 1..N
          /\ (i + 1) - 1 = i /\ ((i + 1) + 1) - 1 = i + 1
      BY <1>1
    <3>2. CASE next(y) = y
      BY <2>2, <3>1, <3>2
    <3>3. CASE Above(next(y), y)
      <4>1. left(next(y)) <= i
        <5>1. left(next(y)) \in Nat /\ left(y) \in Nat /\ left(next(y)) < left(y)
          BY <1>2, <2>1, <3>3
        <5> QED BY <5>1
      <4>2. g[i + 1][next(y)] = g[i][next(y)]
        BY <1>2, <2>4, <3>1, <4>1
      <4>3. g[(i + 1) + 1][y] = g[i + 1][next(y)] /\ g[i + 1][y] = g[i][next(y)]
        BY <1>5, <3>1
      <4> QED BY <4>2, <4>3
    <3> QED BY <1>2, <3>2, <3>3
  <2>5. Nat \subseteq S
    <3> HIDE DEF S
    <3> QED BY <2>3, <2>4, SetInduction
  <2> QED BY <1>1, <2>5 DEF left
<1> DEFINE c == [y \in Ids |-> g[N - 1][y]]
<1>8. N - 1 \in 0..(N - 1) /\ N - 1 \in 0..N /\ N \in 1..N /\ (N - 1) + 1 = N
  <2>1. N >= 1
    BY DEF N
  <2> QED BY <1>1, <2>1
<1>9. \A y \in Ids : c[y] = IF next(y) = y THEN y ELSE c[next(y)]
  <2> TAKE y \in Ids
  <2>1. CASE next(y) = y
    BY <1>6, <1>8, <2>1
  <2>2. CASE next(y) # y
    <3>1. g[N][y] = g[N - 1][y]
      <4>1. Room(Kind(y)) - y[2] <= N - 1
        BY <1>1
      <4> QED BY <1>7, <1>8, <4>1
    <3>2. g[N][y] = g[N - 1][next(y)]
      BY <1>5, <1>8
    <3> QED BY <1>2, <2>2, <3>1, <3>2
  <2> QED BY <2>1, <2>2
<1>10. Right(c)
  <2> HIDE DEF c
  <2>1. c = [y \in Ids |-> c[y]]
    BY DEF c
  <2> QED BY <1>9, <2>1
<1> DEFINE cc == CHOOSE d : Right(d)
<1>11. Right(cc)
  <2> HIDE DEF Right, c
  <2> QED BY <1>10
<1>12. \A x \in Ids : CurrentID(h, x) = cc[x]
  BY DEF CurrentID, next
<1> HIDE DEF cc
<1>13. \A x \in Ids : cc[x] = IF next(x) = x THEN x ELSE cc[next(x)]
  BY <1>11
<1> QED BY <1>2, <1>12, <1>13 DEF next
-----------------------------------------------------------------------------
(* The inductive invariant.                                                *)

(* The entity exists, or was renumbered.                                   *)
Known(x) == Exists(x) \/ \E k \in 1..Len(log) : log[k].prior = x

(* No id of the kind from x's number up is allocated any more.             *)
Used(x) == \E y \in Ids : Exists(y) /\ Kind(y) = Kind(x) /\ x[2] <= y[2]

TypeInv ==
  /\ tree \in [Ids -> Entity]
  /\ log \in Seq(Commit) /\ Len(log) <= MaxLog
  /\ \A k \in 1..Len(log) : log[k].ends \subseteq 1..Len(log) /\ log[k].auth \in 0..Len(log)

(* A milestone is in an epic, a gap is discovered in an epic or a          *)
(* milestone, and a prior id is a lower number out of use.                 *)
ShapeInv ==
  \A x \in Ids :
    /\ ~Exists(x) => tree[x] = Absent
    /\ tree[x].parent # None =>
         Kind(x) = "milestone" /\ Kind(tree[x].parent) = "epic" /\ Exists(tree[x].parent)
    /\ tree[x].discoveredIn # None =>
         Kind(x) = "gap" /\ Scopable(tree[x].discoveredIn) /\ Exists(tree[x].discoveredIn)
    /\ \A y \in tree[x].priorIDs : ~Exists(y) /\ Above(x, y)

(* Numbers only rise: a renumbered id is never allocated again, and what   *)
(* it was renumbered to exists or was renumbered in turn.                  *)
Sound(c) ==
  /\ Used(c.entity)
  /\ c.prior # None => ~Exists(c.prior) /\ Known(c.entity) /\ Above(c.entity, c.prior)
  /\ c.scope = "opened" => c.verb = "authorize" /\ Known(c.entity)

LogInv == \A k \in 1..Len(log) : Sound(log[k])

(* What a commit ended is ended in the replay of the entity it was opened  *)
(* on.                                                                     *)
EndsInv ==
  \A k \in 1..Len(log) : \A p \in log[k].ends :
    p \in ReplayScopes(log, log[p].entity).ended

ScopeInv == TypeInv /\ ShapeInv /\ LogInv /\ EndsInv
-----------------------------------------------------------------------------
(* The gate.                                                               *)

LEMMA TrailersType ==
  ASSUME NEW verb \in Verbs, NEW x \in Ids, NEW a \in Actors
  PROVE  Trailers(verb, x, a) \in Commit
<1>1. Human \in Actors
  BY DEF Actors
<1> QED BY <1>1 DEF Trailers, Commit

(* d is c with the scope it names, and nothing else changed.               *)
Decorated(d, c) ==
  /\ d \in Commit
  /\ d.verb = c.verb /\ d.entity = c.entity /\ d.actor = c.actor /\ d.to = c.to
  /\ d.scope = c.scope /\ d.ends = c.ends /\ d.prior = c.prior /\ d.force = c.force

(* What the gate assures of a commit of that actor: a human's names no     *)
(* scope, an agent's names an opened one that allows the verb and that no  *)
(* commit has ended.                                                       *)
Cleared(d, in) ==
  /\ d.actor = Human => d.auth = 0
  /\ d.actor # Human =>
       /\ d.auth \in Openers(log)
       /\ scopeAllowsAct(CurrentID(log, log[d.auth].entity), in)
       /\ \A e \in 1..Len(log) : d.auth \notin log[e].ends

LEMMA GateFacts ==
  ASSUME TypeInv, LogInv, EndsInv, NEW actor \in Actors, NEW in, NEW c \in Commit,
         c.auth = 0, c.actor = actor, NEW d \in gateAndDecorate(actor, in, c)
  PROVE  Decorated(d, c) /\ Cleared(d, in)
<1>1. log \in Seq(Commit)
  BY DEF TypeInv
<1>2. CASE actor = Human
  <2>1. d = c
    BY <1>2 DEF gateAndDecorate
  <2> QED BY <1>2, <2>1 DEF Decorated, Cleared
<1>3. CASE actor # Human
  <2>1. PICK p \in Allow(actor, in) : d = [c EXCEPT !.auth = p]
    BY <1>3 DEF gateAndDecorate
  <2>2. p \in ActiveScopes(actor) /\ scopeAllowsAct(CurrentID(log, log[p].entity), in)
    BY <2>1 DEF Allow
  <2>3. PICK x \in Scoped(log) : p \in ScopesOf(x).active
    BY <2>2 DEF ActiveScopes
  <2>4. /\ ScopesOf(x) \in ScopeSets /\ Disjoint(ScopesOf(x))
        /\ p \in 1..Len(log) /\ log[p].scope = "opened" /\ log[p].entity = x
    <3>1. p \in Opened(ReplayScopes(log, x))
      BY <2>3 DEF Opened, ScopesOf
    <3> QED BY <1>1, <3>1, ReplayFacts DEF ScopesOf
  <2>5. p \in Openers(log) /\ p \in Nat
    BY <2>4 DEF LogInv, Sound, Openers, Commits
  <2>6. ASSUME NEW e \in 1..Len(log), p \in log[e].ends PROVE FALSE
    <3>1. p \in ScopesOf(x).ended
      BY <2>4, <2>6 DEF EndsInv, ScopesOf
    <3> QED BY <2>3, <2>4, <3>1 DEF Disjoint
  <2>7. Decorated(d, c) /\ d.auth = p
    <3>1. d \in Commit
      BY <2>1, <2>5 DEF Commit
    <3>2. c = [verb |-> c.verb, entity |-> c.entity, actor |-> c.actor, to |-> c.to,
               scope |-> c.scope, ends |-> c.ends, prior |-> c.prior, auth |-> c.auth,
               force |-> c.force]
      BY DEF Commit
    <3>3. d = [verb |-> c.verb, entity |-> c.entity, actor |-> c.actor, to |-> c.to,
               scope |-> c.scope, ends |-> c.ends, prior |-> c.prior, auth |-> p,
               force |-> c.force]
      BY <2>1, <3>2
    <3> QED BY <3>1, <3>3 DEF Decorated
  <2>8. d.actor # Human
    BY <1>3, <2>7 DEF Decorated
  <2> QED BY <2>2, <2>5, <2>6, <2>7, <2>8 DEF Cleared
<1> QED BY <1>2, <1>3
-----------------------------------------------------------------------------
(* One step.                                                               *)

(* The commit a step writes, if it is kept.                                *)
Writes(c) ==
  /\ c \in Commit /\ Exists(c.entity)'
  /\ c.ends \subseteq Endable(ScopesOf(c.entity)) /\ (c.scope # "" => c.ends = {})
  /\ c.auth \in {0} \cup Openers(log)
  /\ c.scope = "opened" => c.verb = "authorize"
  /\ c.prior # None => Exists(c.prior) /\ ~Exists(c.prior)' /\ Above(c.entity, c.prior)
  /\ Kept(c) => Len(log) < MaxLog
  /\ log' = IF Kept(c) THEN Append(log, c) ELSE log

(* New entities have unused numbers, and only a renumbering retires one.   *)
Grows(c) ==
  /\ tree' \in [Ids -> Entity]
  /\ \A x \in Ids : Exists(x)' /\ ~Exists(x) => ~Used(x)
  /\ \A x \in Ids : Exists(x) /\ ~Exists(x)' => c.prior = x

LEMMA UsedStays ==
  ASSUME NEW c, Writes(c), Grows(c), NEW x \in Ids
  PROVE  Used(x) => Used(x)'
<1> SUFFICES ASSUME NEW y \in Ids, Exists(y), Kind(y) = Kind(x), x[2] <= y[2] PROVE Used(x)'
  BY DEF Used
<1>1. CASE Exists(y)'
  BY <1>1 DEF Used
<1>2. CASE ~Exists(y)'
  <2>1. c.prior = y /\ y # None
    BY <1>2, IdFacts DEF Grows
  <2>2. Above(c.entity, y) /\ Exists(c.entity)' /\ c.entity \in Ids
    BY <2>1 DEF Writes, Commit
  <2>3. Kind(c.entity) = Kind(x) /\ x[2] <= c.entity[2]
    <3>1. x[2] \in Nat /\ y[2] \in Nat /\ c.entity[2] \in Nat
      BY <2>2, IdFacts
    <3> QED BY <2>2, <3>1 DEF Above
  <2> QED BY <2>2, <2>3 DEF Used
<1> QED BY <1>1, <1>2

LEMMA ExistsIsUsed ==
  ASSUME NEW x \in Ids
  PROVE  (Exists(x) => Used(x)) /\ (Exists(x)' => Used(x)')
<1>1. x[2] <= x[2]
  BY IdFacts
<1> QED BY <1>1 DEF Used

(* What is out of use stays so.                                            *)
LEMMA RetiredStays ==
  ASSUME NEW c, Writes(c), Grows(c), NEW x \in Ids, Used(x), ~Exists(x)
  PROVE  ~Exists(x)'
BY DEF Grows

LEMMA KnownStays ==
  ASSUME TypeInv, NEW c, Writes(c), Grows(c), NEW x \in Ids, Known(x)
  PROVE  Known(x)'
<1>1. log \in Seq(Commit) /\ c \in Commit /\ log' = IF Kept(c) THEN Append(log, c) ELSE log
  BY DEF TypeInv, Writes
<1>2. CASE Exists(x)'
  BY <1>2 DEF Known
<1>3. CASE Exists(x) /\ ~Exists(x)'
  <2>1. c.prior = x /\ x # None
    BY <1>3, IdFacts DEF Grows
  <2>2. Kept(c)
    BY <2>1 DEF Kept
  <2>3. Len(log') = Len(log) + 1 /\ log'[Len(log) + 1] = c /\ Len(log) \in Nat
    BY <1>1, <2>2
  <2>4. Len(log) + 1 \in 1..Len(log')
    BY <2>3
  <2> QED BY <2>1, <2>3, <2>4 DEF Known
<1>4. CASE ~Exists(x)
  <2>1. PICK k \in 1..Len(log) : log[k].prior = x
    BY <1>4 DEF Known
  <2>2. k \in 1..Len(log') /\ log'[k] = log[k]
    BY <1>1
  <2> QED BY <2>1, <2>2 DEF Known
<1> QED BY <1>2, <1>3, <1>4

(* The commits after a step.                                               *)
LEMMA LogAfter ==
  ASSUME TypeInv, NEW c, Writes(c)
  PROVE  /\ log' \in Seq(Commit) /\ Len(log') <= MaxLog /\ Len(log) <= Len(log')
         /\ Len(log) \in Nat /\ Len(log') \in Nat
         /\ \A k \in 1..Len(log) : log'[k] = log[k]
         /\ \A k \in 1..Len(log') : k \in 1..Len(log) \/ (Kept(c) /\ k = Len(log) + 1 /\ log'[k] = c)
         /\ Kept(c) => Len(log') = Len(log) + 1 /\ log' = Append(log, c) /\ log'[Len(log) + 1] = c
         /\ ~Kept(c) => log' = log
<1>1. log \in Seq(Commit) /\ c \in Commit /\ MaxLog \in Nat /\ Len(log) <= MaxLog
      /\ (Kept(c) => Len(log) < MaxLog) /\ log' = IF Kept(c) THEN Append(log, c) ELSE log
  BY DEF TypeInv, Writes
<1>2. CASE Kept(c)
  BY <1>1, <1>2
<1>3. CASE ~Kept(c)
  BY <1>1, <1>3
<1> QED BY <1>2, <1>3

LEMMA OpenerFacts ==
  ASSUME TypeInv
  PROVE  \A p \in Openers(log) : p \in 1..Len(log) /\ log[p] \in Commit /\ log[p].entity \in Ids
                                 /\ log[p].scope = "opened" /\ log[p].verb = "authorize"
<1>1. log \in Seq(Commit)
  BY DEF TypeInv
<1>2. ASSUME NEW p \in Openers(log)
      PROVE  /\ p \in 1..Len(log) /\ log[p] \in Commit
             /\ log[p].scope = "opened" /\ log[p].verb = "authorize"
  BY <1>1 DEF Openers, Commits
<1>3. \A c \in Commit : c.entity \in Ids
  BY DEF Commit
<1> QED BY <1>2, <1>3

(* Ending is final: the replay keeps what it ended, and adds what the      *)
(* commit ends.                                                            *)
LEMMA ScopesAfter ==
  ASSUME TypeInv, NEW c, Writes(c), NEW x
  PROVE  LET s == ReplayScopes(log, x)
             t == ReplayScopes(log, x)' IN
         /\ s \in ScopeSets /\ Disjoint(s) /\ t \in ScopeSets /\ Disjoint(t)
         /\ x # c.entity \/ ~Kept(c) => t = s
         /\ x = c.entity /\ Kept(c) =>
              /\ t.ended = s.ended \cup c.ends
              /\ Endable(t) = (Endable(s) \ c.ends)
                              \cup (IF c.scope = "opened" THEN {Len(log) + 1} ELSE {})
              /\ c.scope = "opened" => s.active \subseteq t.active /\ s.paused = t.paused
              /\ c.scope = "paused" =>
                   t.active = s.active \ mostRecent(s, "active") /\ s.paused \subseteq t.paused
              /\ c.scope = "resumed" =>
                   t.paused = s.paused \ mostRecent(s, "paused") /\ s.active \subseteq t.active
              /\ c.scope = "" => t.active = s.active \ c.ends /\ t.paused = s.paused \ c.ends
<1> DEFINE s == ReplayScopes(log, x)
           t == ReplayScopes(log', x)
<1>1. log \in Seq(Commit) /\ log' \in Seq(Commit) /\ c \in Commit /\ Len(log) \in Nat
  BY LogAfter DEF TypeInv, Writes
<1>2. s \in ScopeSets /\ Disjoint(s) /\ \A p \in Opened(s) : p \in 1..Len(log)
  BY <1>1, ReplayFacts
<1>3. t \in ScopeSets /\ Disjoint(t)
  BY <1>1, ReplayFacts
<1>4. ASSUME ~Kept(c) PROVE t = s
  BY <1>4, LogAfter
<1>5. ASSUME Kept(c) PROVE t = IF c.entity = x THEN ReplayCommit(s, c, Len(log) + 1) ELSE s
  <2>1. log' = Append(log, c)
    BY <1>5, LogAfter
  <2>2. ReplayScopes(Append(log, c), x) = IF c.entity = x THEN ReplayCommit(s, c, Len(log) + 1) ELSE s
    BY <1>1, ReplayAppend
  <2> QED BY <2>1, <2>2
<1>6. ASSUME c.entity = x, Kept(c)
      PROVE  /\ t.ended = s.ended \cup c.ends
             /\ Endable(t) = (Endable(s) \ c.ends)
                             \cup (IF c.scope = "opened" THEN {Len(log) + 1} ELSE {})
             /\ c.scope = "opened" => s.active \subseteq t.active /\ s.paused = t.paused
             /\ c.scope = "paused" =>
                  t.active = s.active \ mostRecent(s, "active") /\ s.paused \subseteq t.paused
             /\ c.scope = "resumed" =>
                  t.paused = s.paused \ mostRecent(s, "paused") /\ s.active \subseteq t.active
             /\ c.scope = "" => t.active = s.active \ c.ends /\ t.paused = s.paused \ c.ends
  <2>1. c.ends \subseteq Endable(s) /\ (c.scope # "" => c.ends = {})
    BY <1>6 DEF Writes, ScopesOf
  <2>2. Len(log) + 1 \in Nat /\ Len(log) + 1 \notin Opened(s)
    BY <1>1, <1>2
  <2> DEFINE n == Len(log) + 1
             u == ReplayCommit(s, c, n)
  <2>3. t = u
    BY <1>5, <1>6
  <2> HIDE DEF s, n
  <2>4. /\ u.ended = s.ended \cup c.ends
        /\ Endable(u) = (Endable(s) \ c.ends) \cup (IF c.scope = "opened" THEN {n} ELSE {})
        /\ c.scope = "opened" => s.active \subseteq u.active /\ s.paused = u.paused
        /\ c.scope = "paused" =>
             u.active = s.active \ mostRecent(s, "active") /\ s.paused \subseteq u.paused
        /\ c.scope = "resumed" =>
             u.paused = s.paused \ mostRecent(s, "paused") /\ s.active \subseteq u.active
        /\ c.scope = "" => u.active = s.active \ c.ends /\ u.paused = s.paused \ c.ends
    BY <1>1, <1>2, <2>1, <2>2, ReplayCommitMoves DEF n
  <2> HIDE DEF t, u
  <2> QED BY <2>3, <2>4 DEF n
<1> QED BY <1>2, <1>3, <1>4, <1>5, <1>6

LEMMA LogInvStep ==
  ASSUME TypeInv, LogInv, NEW c, Writes(c), Grows(c)
  PROVE  LogInv'
<1>1. log \in Seq(Commit) /\ log' \in Seq(Commit) /\ c \in Commit
  BY LogAfter DEF TypeInv, Writes
<1>2. ASSUME NEW k \in 1..Len(log) PROVE \E e : e = log[k] /\ Sound(e)'
  <2>1. PICK e : e = log[k]
    OBVIOUS
  <2>2. e \in Commit /\ Sound(e)
    BY <1>1, <2>1 DEF LogInv
  <2>3. e.entity \in Ids /\ e.prior \in Ids \cup {None}
    BY <2>2 DEF Commit
  <2>4. Used(e.entity)'
    BY <2>2, <2>3, UsedStays DEF Sound
  <2>5. Known(e.entity) => Known(e.entity)'
    BY <2>3, KnownStays
  <2>6. ASSUME e.prior # None PROVE ~Exists(e.prior)'
    <3>1. e.prior \in Ids /\ ~Exists(e.prior) /\ Above(e.entity, e.prior) /\ Used(e.entity)
      BY <2>2, <2>3, <2>6 DEF Sound
    <3>2. Used(e.prior)
      <4>1. PICK w \in Ids : Exists(w) /\ Kind(w) = Kind(e.entity) /\ e.entity[2] <= w[2]
        BY <3>1 DEF Used
      <4>2. e.prior[2] \in Nat /\ e.entity[2] \in Nat /\ w[2] \in Nat
        BY <2>3, <3>1, IdFacts
      <4>3. Kind(w) = Kind(e.prior) /\ e.prior[2] <= w[2]
        BY <3>1, <4>1, <4>2 DEF Above
      <4> QED BY <4>1, <4>3 DEF Used
    <3> QED BY <3>1, <3>2, RetiredStays
  <2>7. Sound(e)'
    BY <2>2, <2>4, <2>5, <2>6 DEF Sound
  <2> QED BY <2>1, <2>7
<1>3. Sound(c)'
  <2>1. Exists(c.entity)' /\ c.entity \in Ids
    BY <1>1 DEF Writes, Commit
  <2>2. Used(c.entity)'
    BY <2>1, ExistsIsUsed
  <2>3. Known(c.entity)'
    BY <2>1 DEF Known
  <2> QED BY <2>2, <2>3 DEF Writes, Sound
<1>4. ASSUME NEW k \in 1..Len(log') PROVE \E e : e = log'[k] /\ Sound(e)'
  BY <1>2, <1>3, LogAfter
<1>5. ASSUME NEW k \in 1..Len(log') PROVE Sound(log[k])'
  <2>1. PICK e : e = log'[k] /\ Sound(e)'
    BY <1>4
  <2> QED BY <2>1 DEF Sound, Used, Known, Exists
<1> QED BY <1>5 DEF LogInv

LEMMA TypeInvStep ==
  ASSUME TypeInv, NEW c, Writes(c), Grows(c)
  PROVE  TypeInv'
<1>1. /\ log' \in Seq(Commit) /\ Len(log') <= MaxLog /\ Len(log) <= Len(log')
      /\ Len(log) \in Nat /\ Len(log') \in Nat
      /\ \A k \in 1..Len(log) : log'[k] = log[k]
      /\ \A k \in 1..Len(log') : k \in 1..Len(log) \/ (Kept(c) /\ k = Len(log) + 1 /\ log'[k] = c)
  BY LogAfter
<1>2. \A k \in 1..Len(log) : log[k].ends \subseteq 1..Len(log) /\ log[k].auth \in 0..Len(log)
  BY DEF TypeInv
<1>3. c.ends \subseteq 1..Len(log)
  <2>1. c.ends \subseteq Opened(ReplayScopes(log, c.entity))
    BY DEF Writes, ScopesOf, Endable, Opened
  <2>2. \A p \in Opened(ReplayScopes(log, c.entity)) : p \in 1..Len(log)
    BY ReplayFacts DEF TypeInv
  <2> QED BY <2>1, <2>2
<1>4. c.auth \in 0..Len(log)
  <2>1. \A p \in Openers(log) : p \in 1..Len(log)
    BY OpenerFacts
  <2>2. c.auth = 0 \/ c.auth \in 1..Len(log)
    BY <2>1 DEF Writes
  <2> QED BY <1>1, <2>2
<1>5. \A k \in 1..Len(log') : log'[k].ends \subseteq 1..Len(log') /\ log'[k].auth \in 0..Len(log')
  <2> TAKE k \in 1..Len(log')
  <2>1. log'[k].ends \subseteq 1..Len(log) /\ log'[k].auth \in 0..Len(log)
    BY <1>1, <1>2, <1>3, <1>4
  <2>2. 1..Len(log) \subseteq 1..Len(log') /\ 0..Len(log) \subseteq 0..Len(log')
    BY <1>1
  <2> QED BY <2>1, <2>2
<1> QED BY <1>1, <1>5 DEF TypeInv, Grows

LEMMA EndsInvStep ==
  ASSUME TypeInv, EndsInv, NEW c, Writes(c)
  PROVE  EndsInv'
<1>1. /\ log \in Seq(Commit) /\ Len(log) \in Nat
      /\ \A k \in 1..Len(log) : log'[k] = log[k]
      /\ \A k \in 1..Len(log') : k \in 1..Len(log) \/ (Kept(c) /\ k = Len(log) + 1 /\ log'[k] = c)
  BY LogAfter DEF TypeInv
<1>2. \A x : ReplayScopes(log, x).ended \subseteq ReplayScopes(log', x).ended
  <2> TAKE x
  <2>1. /\ x # c.entity \/ ~Kept(c) => ReplayScopes(log', x) = ReplayScopes(log, x)
        /\ x = c.entity /\ Kept(c) =>
             ReplayScopes(log', x).ended = ReplayScopes(log, x).ended \cup c.ends
    BY ScopesAfter
  <2> QED BY <2>1
<1>3. ASSUME NEW k \in 1..Len(log), NEW p \in log[k].ends
      PROVE  p \in ReplayScopes(log', log'[p].entity).ended
  <2>1. p \in 1..Len(log) /\ p \in ReplayScopes(log, log[p].entity).ended
    BY DEF TypeInv, EndsInv
  <2> QED BY <1>1, <1>2, <2>1
<1>4. ASSUME Kept(c), NEW p \in c.ends PROVE p \in ReplayScopes(log', log'[p].entity).ended
  <2>1. p \in Opened(ReplayScopes(log, c.entity))
    BY <1>4 DEF Writes, ScopesOf, Endable, Opened
  <2>2. p \in 1..Len(log) /\ log[p].entity = c.entity
    BY <1>1, <2>1, ReplayFacts
  <2>3. c.entity = c.entity /\ Kept(c) =>
          ReplayScopes(log', c.entity).ended = ReplayScopes(log, c.entity).ended \cup c.ends
    BY ScopesAfter
  <2>4. log'[p].entity = c.entity
    BY <1>1, <2>2
  <2> QED BY <1>4, <2>3, <2>4
<1>5. ASSUME NEW k \in 1..Len(log'), NEW p \in log'[k].ends
      PROVE  p \in ReplayScopes(log', log'[p].entity).ended
  <2>1. CASE k \in 1..Len(log)
    BY <1>1, <1>3, <2>1
  <2>2. CASE Kept(c) /\ log'[k] = c
    BY <1>4, <2>2
  <2> QED BY <1>1, <2>1, <2>2
<1> QED BY <1>5 DEF EndsInv

(* An id that is in use, or was renumbered to one that is, resolves to one *)
(* in use.                                                                 *)
LEMMA CurrentIsInUse ==
  ASSUME NEW h \in Seq(Commit), Climbs(h), NEW E \in SUBSET Ids,
         \A k \in 1..Len(h) : h[k].prior # None =>
           h[k].entity \in E \/ \E j \in 1..Len(h) : h[j].prior = h[k].entity,
         NEW x \in Ids, x \in E \/ \E j \in 1..Len(h) : h[j].prior = x
  PROVE  CurrentID(h, x) \in E
<1> DEFINE known(y) == y \in E \/ \E j \in 1..Len(h) : h[j].prior = y
           S == {y \in Ids : known(y) => CurrentID(h, y) \in E}
<1>1. ASSUME NEW y \in Ids, \A z \in Ids : Above(z, y) => z \in S
      PROVE  y \in S
  <2> SUFFICES ASSUME known(y) PROVE CurrentID(h, y) \in E
    OBVIOUS
  <2>1. CurrentID(h, y) = IF NextID(h, y) = y THEN y ELSE CurrentID(h, NextID(h, y))
    BY CurrentUnfold
  <2>2. CASE \A k \in 1..Len(h) : h[k].prior # y
    <3>1. NextID(h, y) = y
      BY <2>2, NextFacts
    <3> QED BY <2>1, <2>2, <3>1
  <2>3. CASE \E k \in 1..Len(h) : h[k].prior = y
    <3>1. PICK k \in 1..Len(h) : h[k].prior = y /\ NextID(h, y) = h[k].entity
      BY <2>3, NextFacts
    <3>2. NextID(h, y) \in Ids /\ Above(NextID(h, y), y)
      BY <2>3, NextFacts
    <3>3. NextID(h, y) # y
      <4>1. y[2] \in Nat
        BY IdFacts
      <4> QED BY <3>2, <4>1 DEF Above
    <3>4. y # None
      BY IdFacts
    <3>5. known(NextID(h, y))
      BY <3>1, <3>4
    <3>6. NextID(h, y) \in S
      BY <1>1, <3>2
    <3> HIDE DEF known
    <3> QED BY <2>1, <3>3, <3>5, <3>6
  <2> QED BY <2>2, <2>3
<1>2. Ids \subseteq S
  <2> HIDE DEF S
  <2> QED BY <1>1, FromTheTop
<1> QED BY <1>2

(* The gate resolves a known id to an existing entity.                     *)
LEMMA KnownIsFollowed ==
  ASSUME TypeInv, LogInv, NEW x \in Ids, Known(x)
  PROVE  CurrentID(log, x) \in Ids /\ Exists(CurrentID(log, x))
<1> DEFINE E == {y \in Ids : Exists(y)}
<1>1. log \in Seq(Commit) /\ Climbs(log)
  BY DEF TypeInv, LogInv, Climbs, Sound
<1>2. \A k \in 1..Len(log) : log[k].prior # None =>
        log[k].entity \in E \/ \E j \in 1..Len(log) : log[j].prior = log[k].entity
  <2>1. \A k \in 1..Len(log) : log[k].entity \in Ids
    <3>1. \A d \in Commit : d.entity \in Ids
      BY DEF Commit
    <3> QED BY <1>1, <3>1
  <2> QED BY <2>1 DEF LogInv, Sound, Known
<1>3. x \in E \/ \E j \in 1..Len(log) : log[j].prior = x
  BY DEF Known
<1>4. CurrentID(log, x) \in E
  <2> HIDE DEF E
  <2>1. E \in SUBSET Ids
    BY DEF E
  <2> QED BY <1>1, <1>2, <1>3, <2>1, CurrentIsInUse
<1> QED BY <1>4

LEMMA Followed ==
  TypeInv /\ LogInv => ScopesFollowRenumbering
<1> SUFFICES ASSUME TypeInv, LogInv, NEW p \in Openers(log)
             PROVE  Exists(CurrentID(log, log[p].entity))
  BY DEF ScopesFollowRenumbering
<1>1. p \in 1..Len(log) /\ log[p].entity \in Ids /\ log[p].scope = "opened"
  BY OpenerFacts
<1>2. Known(log[p].entity)
  BY <1>1 DEF LogInv, Sound
<1> QED BY <1>1, <1>2, KnownIsFollowed

-----------------------------------------------------------------------------
(* What a step does to the replays.                                        *)

LEMMA MovesStep ==
  ASSUME TypeInv, LogInv, NEW c, Writes(c), Kept(c)
  PROVE  MovesAlongFSM /\ PickedDepart
<1>1. log \in Seq(Commit) /\ c \in Commit /\ log'[Len(log')] = c
  BY LogAfter DEF TypeInv, Writes
<1>2. ASSUME NEW x \in Scoped(log)
      PROVE  \A from, to \in DOMAIN ReplayScopes(log, x) :
               ReplayScopes(log, x)[from] \cap ReplayScopes(log', x)[to] # {}
                 => from = to \/ IsLegalScopeTransition(from, to)
  <2> DEFINE s == ReplayScopes(log, x)
             t == ReplayScopes(log', x)
  <2>1. /\ s \in ScopeSets /\ Disjoint(s) /\ t \in ScopeSets /\ Disjoint(t)
        /\ x # c.entity \/ ~Kept(c) => t = s
        /\ x = c.entity /\ Kept(c) => t.ended = s.ended \cup c.ends
    BY ScopesAfter
  <2> HIDE DEF s, t
  <2>2. s.ended \subseteq t.ended
    BY <2>1
  <2>3. DOMAIN s = {"active", "paused", "ended"}
    BY <2>1 DEF ScopeSets
  <2>4. s.ended \cap t.active = {} /\ s.ended \cap t.paused = {}
    BY <2>1, <2>2 DEF Disjoint
  <2>5. ASSUME NEW from \in {"active", "paused", "ended"}, NEW to \in {"active", "paused", "ended"},
               s[from] \cap t[to] # {}
        PROVE  from = to \/ IsLegalScopeTransition(from, to)
    BY <2>4, <2>5 DEF IsLegalScopeTransition
  <2> QED BY <2>3, <2>5 DEF s, t
<1>3. \A x : x # c.entity => Departed(x) = {}
  <2> TAKE x
  <2> HAVE x # c.entity
  <2>1. ReplayScopes(log', x) = ReplayScopes(log, x)
    BY ScopesAfter
  <2> QED BY <2>1 DEF Departed
<1> DEFINE x == c.entity
           s == ReplayScopes(log, x)
           t == ReplayScopes(log', x)
           Picked == CASE c.scope = "paused"  -> mostRecent(s, "active")
                       [] c.scope = "resumed" -> mostRecent(s, "paused")
                       [] OTHER               -> c.ends
<1>4. /\ s \in ScopeSets /\ Disjoint(s) /\ t \in ScopeSets /\ Disjoint(t)
      /\ t.ended = s.ended \cup c.ends
      /\ c.scope = "opened" => s.active \subseteq t.active /\ s.paused = t.paused
      /\ c.scope = "paused" =>
           t.active = s.active \ mostRecent(s, "active") /\ s.paused \subseteq t.paused
      /\ c.scope = "resumed" =>
           t.paused = s.paused \ mostRecent(s, "paused") /\ s.active \subseteq t.active
      /\ c.scope = "" => t.active = s.active \ c.ends /\ t.paused = s.paused \ c.ends
  BY ScopesAfter
<1>5. /\ c.ends \subseteq Endable(s) /\ (c.scope # "" => c.ends = {})
      /\ c.scope \in {"", "opened", "paused", "resumed"}
  BY <1>1 DEF Writes, ScopesOf, Commit
<1>6. mostRecent(s, "active") \subseteq s.active /\ mostRecent(s, "paused") \subseteq s.paused
  BY <1>4, MostRecentFacts
<1>7. Departed(x) = (s.active \ t.active) \cup (s.paused \ t.paused) \cup (s.ended \ t.ended)
  <2>1. DOMAIN s = {"active", "paused", "ended"}
    BY <1>4 DEF ScopeSets
  <2>2. Departed(x) = UNION {s[state] \ t[state] : state \in DOMAIN s}
    BY DEF Departed
  <2> HIDE DEF s, t
  <2> QED BY <2>1, <2>2
<1>8. Departed(x) = Picked
  <2> HIDE DEF s, t, x
  <2>1. CASE c.scope = "opened"
    BY <1>4, <1>5, <1>7, <2>1
  <2>2. CASE c.scope = "paused"
    BY <1>4, <1>5, <1>6, <1>7, <2>2
  <2>3. CASE c.scope = "resumed"
    BY <1>4, <1>5, <1>6, <1>7, <2>3
  <2>4. CASE c.scope = ""
    BY <1>4, <1>5, <1>7, <2>4 DEF Endable
  <2> QED BY <1>5, <2>1, <2>2, <2>3, <2>4
<1>9. x \in Scoped(log) \/ Picked = {}
  <2>1. ASSUME NEW p \in Opened(s) PROVE x \in Scoped(log)
    <3>1. p \in 1..Len(log) /\ log[p].scope = "opened" /\ log[p].entity = x
      BY <1>1, ReplayFacts
    <3>2. p \in Openers(log)
      BY <3>1 DEF LogInv, Sound, Openers, Commits
    <3> QED BY <3>1, <3>2 DEF Scoped
  <2>2. Picked \subseteq Opened(s)
    <3> HIDE DEF s
    <3> QED BY <1>5, <1>6 DEF Endable, Opened
  <2> HIDE DEF Picked
  <2> QED BY <2>1, <2>2
<1>10. UNION {Departed(y) : y \in Scoped(log)} = Picked
  <2> HIDE DEF x, Picked
  <2>1. \A y : y # x => Departed(y) = {}
    BY <1>3 DEF x
  <2> QED BY <1>8, <1>9, <2>1
<1>11. PickedDepart
  BY <1>1, <1>10 DEF PickedDepart, mostRecentScopeInState, ScopesOf
<1>12. MovesAlongFSM
  BY <1>2 DEF MovesAlongFSM
<1> QED BY <1>11, <1>12

(* How a step may close an entity: the commit ends what can still end.     *)
Closes(c) ==
  /\ c.scope = "opened" => ((tree[c.entity].status = "terminal")' => c.force)
  /\ \A x \in Ids : (tree[x].status = "terminal")' =>
       \/ tree[x].status = "terminal"
       \/ c.entity = x /\ c.scope = "" /\ c.ends = Endable(ScopesOf(x))
       \/ ~Used(x)

LEMMA ClosedStep ==
  ASSUME TypeInv, LogInv, ClosedMeansEnded, NEW c, Writes(c), Closes(c)
  PROVE  ClosedMeansEnded'
<1>1. /\ log \in Seq(Commit) /\ log' \in Seq(Commit) /\ Len(log) \in Nat /\ c \in Commit
      /\ \A k \in 1..Len(log) : log'[k] = log[k]
      /\ Kept(c) => Len(log') = Len(log) + 1 /\ log'[Len(log) + 1] = c
  BY LogAfter DEF TypeInv, Writes
<1>2. SUFFICES ASSUME NEW x \in Ids, tree'[x].status = "terminal",
                      NEW p \in Endable(ReplayScopes(log', x))
               PROVE  log'[p].force
  <2>1. ASSUME NEW x \in Scoped(log') PROVE x \in Ids
    <3>1. \A d \in Commit : d.entity \in Ids
      BY DEF Commit
    <3>2. PICK p \in DOMAIN log' : x = log'[p].entity
      BY <2>1 DEF Scoped, Openers, Commits
    <3> QED BY <1>1, <3>1, <3>2
  <2> QED BY <2>1 DEF ClosedMeansEnded, ScopesOf, Endable
<1> DEFINE s == ReplayScopes(log, x)
           t == ReplayScopes(log', x)
<1>3. /\ x # c.entity \/ ~Kept(c) => t = s
      /\ x = c.entity /\ Kept(c) =>
           Endable(t) = (Endable(s) \ c.ends) \cup (IF c.scope = "opened" THEN {Len(log) + 1} ELSE {})
  BY ScopesAfter
<1>4. ASSUME p \in Endable(s), p \notin c.ends \/ c.entity # x PROVE log'[p].force
  <2>1. p \in 1..Len(log) /\ log[p].scope = "opened" /\ log[p].entity = x
    <3>1. p \in Opened(s)
      BY <1>4 DEF Endable, Opened
    <3> QED BY <1>1, <3>1, ReplayFacts
  <2>2. p \in Openers(log) /\ Used(log[p].entity)
    BY <1>1, <2>1 DEF LogInv, Sound, Openers, Commits
  <2>3. x \in Scoped(log) /\ Used(x)
    <3>1. x \in Scoped(log)
      BY <2>1, <2>2 DEF Scoped
    <3>2. Used(x)
      BY <2>1, <2>2 DEF Used
    <3> QED BY <3>1, <3>2
  <2>4. tree[x].status = "terminal"
    BY <1>2, <1>4, <2>3 DEF Closes, ScopesOf
  <2>5. log[p].force
    BY <1>4, <2>3, <2>4 DEF ClosedMeansEnded, ScopesOf, Endable
  <2> QED BY <1>1, <2>1, <2>5
<1>5. CASE x # c.entity
  BY <1>2, <1>3, <1>4, <1>5
<1>6. CASE x = c.entity /\ ~Kept(c)
  <2>1. c.ends = {}
    BY <1>6 DEF Kept
  <2> QED BY <1>2, <1>3, <1>4, <1>6, <2>1
<1>7. CASE x = c.entity /\ Kept(c)
  <2>1. CASE p \in Endable(s) \ c.ends
    BY <1>4, <2>1
  <2>2. CASE c.scope = "opened" /\ p = Len(log) + 1
    <3>1. c.force
      BY <1>2, <1>7, <2>2 DEF Closes
    <3> QED BY <1>1, <1>7, <2>2, <3>1
  <2> HIDE DEF t, s
  <2>3. p \in Endable(t)
    BY <1>2 DEF t
  <2>4. p \in (Endable(s) \ c.ends) \/ (c.scope = "opened" /\ p = Len(log) + 1)
    BY <1>3, <1>7, <2>3
  <2> QED BY <2>1, <2>2, <2>4
<1> QED BY <1>5, <1>6, <1>7
-----------------------------------------------------------------------------
(* What a step does to the renumberings.                                   *)

LEMMA NextAfter ==
  ASSUME NEW h \in Seq(Commit), NEW c \in Commit, NEW y \in Ids
  PROVE  NextID(Append(h, c), y) = IF c.prior = y THEN c.entity ELSE NextID(h, y)
<1> DEFINE hh == Append(h, c)
           n == Len(h)
           R == {k \in Commits(h) : h[k].prior = y}
           RR == {k \in Commits(hh) : hh[k].prior = y}
<1>1. n \in Nat /\ Commits(h) = 1..n /\ Commits(hh) = 1..(n + 1) /\ hh[n + 1] = c
      /\ (\A k \in 1..n : hh[k] = h[k])
  BY DEF Commits
<1>2. NextID(hh, y) = IF RR = {} THEN y ELSE hh[Latest(RR)].entity
  BY DEF NextID
<1>3. NextID(h, y) = IF R = {} THEN y ELSE h[Latest(R)].entity
  BY DEF NextID
<1> HIDE DEF hh
<1>4. CASE c.prior = y
  <2>1. n + 1 \in RR /\ RR \in SUBSET (0..(n + 1))
    BY <1>1, <1>4
  <2>2. Latest(RR) \in RR /\ \A k \in RR : k <= Latest(RR)
    <3> HIDE DEF RR
    <3>1. n + 1 \in Nat
      BY <1>1
    <3> QED BY <2>1, <3>1, LatestFacts
  <2>3. Latest(RR) = n + 1
    <3> DEFINE l == Latest(RR)
    <3>1. l \in 0..(n + 1) /\ n + 1 <= l
      BY <2>1, <2>2
    <3> HIDE DEF l
    <3>2. l = n + 1
      BY <1>1, <3>1
    <3> QED BY <3>2 DEF l
  <2> QED BY <1>1, <1>2, <1>4, <2>1, <2>3 DEF hh
<1>5. CASE c.prior # y
  <2>1. RR = R
    BY <1>1, <1>5
  <2>2. R # {} => Latest(R) \in 1..n
    <3>1. R \in SUBSET (0..n) /\ R \subseteq 1..n
      BY <1>1
    <3> HIDE DEF R
    <3> QED BY <1>1, <3>1, LatestFacts
  <2> HIDE DEF R, RR
  <2> QED BY <1>1, <1>2, <1>3, <1>5, <2>1, <2>2 DEF hh
<1> QED BY <1>4, <1>5

(* A commit that renumbers nothing changes no current id; one that         *)
(* renumbers z to its entity changes those that were z.                    *)
LEMMA CurrentAfter ==
  ASSUME NEW h \in Seq(Commit), Climbs(h), NEW c \in Commit,
         c.prior # None => /\ Above(c.entity, c.prior)
                           /\ \A k \in 1..Len(h) : h[k].prior \notin {c.prior, c.entity}
  PROVE  \A y \in Ids : CurrentID(Append(h, c), y) =
                         IF c.prior # None /\ CurrentID(h, y) = c.prior THEN c.entity
                         ELSE CurrentID(h, y)
<1> DEFINE hh == Append(h, c)
           after(y) == IF c.prior # None /\ CurrentID(h, y) = c.prior THEN c.entity
                       ELSE CurrentID(h, y)
           S == {y \in Ids : CurrentID(hh, y) = after(y)}
<1>1. hh \in Seq(Commit) /\ Climbs(hh)
  BY DEF Climbs
<1>2. \A y \in Ids : NextID(hh, y) = IF c.prior = y THEN c.entity ELSE NextID(h, y)
  BY NextAfter
<1>3. \A y \in Ids : CurrentID(hh, y) = IF NextID(hh, y) = y THEN y ELSE CurrentID(hh, NextID(hh, y))
  BY <1>1, CurrentUnfold
<1>4. \A y \in Ids : CurrentID(h, y) = IF NextID(h, y) = y THEN y ELSE CurrentID(h, NextID(h, y))
  BY CurrentUnfold
<1>5. \A y \in Ids : NextID(h, y) \in Ids /\ (NextID(h, y) = y \/ Above(NextID(h, y), y))
  BY NextFacts
<1>6. c.entity \in Ids /\ c.prior \in Ids \cup {None} /\ None \notin Ids
  BY IdFacts DEF Commit
<1>7. \A x, y \in Ids : Above(x, y) => x # y
  <2>1. \A x \in Ids : x[2] \in Nat
    BY IdFacts
  <2> QED BY <2>1 DEF Above
<1>8. c.prior # None => NextID(h, c.prior) = c.prior /\ NextID(h, c.entity) = c.entity
  BY <1>6, NextFacts
<1> HIDE DEF hh
<1>9. ASSUME NEW y \in Ids, \A z \in Ids : Above(z, y) => z \in S
      PROVE  y \in S
  <2>1. CASE c.prior = y
    <3>1. c.prior # None /\ CurrentID(h, y) = y
      BY <1>4, <1>6, <1>8, <2>1
    <3>2. c.entity # y
      BY <1>6, <1>7, <2>1, <3>1
    <3>3. NextID(hh, c.entity) = c.entity
      BY <1>2, <1>6, <1>8, <2>1, <3>1, <3>2
    <3>4. CurrentID(hh, c.entity) = c.entity
      BY <1>3, <1>6, <3>3
    <3>5. CurrentID(hh, y) = c.entity
      BY <1>2, <1>3, <2>1, <3>2, <3>4
    <3> QED BY <2>1, <3>1, <3>5
  <2>2. CASE c.prior # y /\ NextID(h, y) = y
    <3>1. CurrentID(hh, y) = y /\ CurrentID(h, y) = y
      BY <1>2, <1>3, <1>4, <2>2
    <3> QED BY <2>2, <3>1
  <2>3. CASE c.prior # y /\ NextID(h, y) # y
    <3> DEFINE w == NextID(h, y)
    <3>1. w \in Ids /\ w \in S
      BY <1>5, <1>9, <2>3
    <3>2. CurrentID(hh, w) = after(w)
      BY <3>1
    <3>3. CurrentID(hh, y) = CurrentID(hh, w) /\ CurrentID(h, y) = CurrentID(h, w)
      BY <1>2, <1>3, <1>4, <2>3
    <3> HIDE DEF w
    <3> QED BY <3>2, <3>3
  <2> QED BY <2>1, <2>2, <2>3
<1>10. Ids \subseteq S
  <2> HIDE DEF S
  <2> QED BY <1>9, FromTheTop
<1> QED BY <1>10 DEF hh
-----------------------------------------------------------------------------
(* What a step does to the audit.                                          *)

(* What the audit asks of a commit that names a scope, once it is written: *)
(* the entity is the scope's or reaches it.                                *)
Within(c) ==
  c.auth # 0 =>
    \E r : /\ r = CurrentID(log', log[c.auth].entity)
           /\ c.entity = r \/ ReachesScope(c.entity, r)'

(* What the audit asks of its commit: an agent's names a scope, and that   *)
(* scope is opened, not ended, and has the entity within it.               *)
Answers(c) ==
  /\ c.actor \in Agents => c.auth # 0
  /\ c.auth # 0 => \A e \in 1..Len(log) : c.auth \notin log[e].ends
  /\ Within(c)

LEMMA LineageOfExisting ==
  ASSUME ShapeInv', NEW x \in Ids, Exists(x)'
  PROVE  Lineage(x)' = x
<1>1. \A y \in Ids : x \notin tree'[y].priorIDs
  BY DEF ShapeInv, Exists
<1> QED BY <1>1 DEF Lineage

LEMMA AnswersStep ==
  ASSUME TypeInv, ShapeInv', LogInv', TypeInv', NEW c, Writes(c), Kept(c), Answers(c)
  PROVE  (AuditFindings(Len(log)))' = {}
<1>1. /\ log \in Seq(Commit) /\ log' \in Seq(Commit) /\ Len(log) \in Nat /\ c \in Commit
      /\ \A k \in 1..Len(log) : log'[k] = log[k]
      /\ Len(log') = Len(log) + 1 /\ log'[Len(log')] = c
  BY LogAfter DEF TypeInv, Writes
<1>2. c.actor \in Actors /\ c.entity \in Ids
  BY <1>1 DEF Commit
<1> DEFINE n == Len(log')
           p == c.auth
<1>3. c.actor \in Agents => p # 0
  BY DEF Answers
<1>4. ASSUME p # 0 PROVE p \in Openers(log') /\ p \in 1..Len(log) /\ log'[p] = log[p]
  <2>1. p \in Openers(log)
    BY <1>4 DEF Writes
  <2>2. p \in 1..Len(log) /\ log[p].scope = "opened" /\ log[p].verb = "authorize"
    BY <2>1, OpenerFacts
  <2>3. log'[p] = log[p] /\ p \in 1..Len(log')
    BY <1>1, <2>2
  <2>4. p \in Openers(log')
    BY <1>1, <2>2, <2>3 DEF Openers, Commits
  <2> QED BY <2>2, <2>3, <2>4
<1>5. ASSUME p \in Openers(log') PROVE p # 0
  BY <1>1, <1>5 DEF Openers, Commits
<1>6. ASSUME p # 0 PROVE ~EndedBefore(p, Len(log))'
  <2>1. \A e \in 1..Len(log) : p \notin log'[e].ends
    BY <1>1, <1>6 DEF Answers
  <2>2. n - 1 = Len(log)
    BY <1>1
  <2> QED BY <2>1, <2>2 DEF EndedBefore
<1>7. ASSUME p # 0
      PROVE  \E r : /\ r = Lineage(CurrentID(log, log[p].entity))'
                    /\ Lineage(c.entity)' = c.entity
                    /\ c.entity = r \/ ReachesScope(c.entity, r)'
  <2>1. PICK r : /\ r = CurrentID(log', log[p].entity)
                 /\ c.entity = r \/ ReachesScope(c.entity, r)'
    BY <1>7 DEF Answers, Within
  <2>2. log'[p].entity = log[p].entity
    BY <1>4, <1>7
  <2>3. r \in Ids /\ Exists(r)'
    <3> DEFINE E == {y \in Ids : Exists(y)'}
               x == log'[p].entity
    <3>1. Climbs(log')
      BY DEF LogInv, Sound, Climbs
    <3>2. \A k \in 1..Len(log') : log'[k].entity \in Ids
      <4>1. \A d \in Commit : d.entity \in Ids
        BY DEF Commit
      <4> QED BY <1>1, <4>1
    <3>3. \A k \in 1..Len(log') : log'[k].prior # None =>
            log'[k].entity \in E \/ \E j \in 1..Len(log') : log'[j].prior = log'[k].entity
      BY <3>2 DEF LogInv, Sound, Known, Exists
    <3>4. p \in 1..Len(log') /\ log'[p].scope = "opened"
      BY <1>4, <1>7 DEF Openers, Commits
    <3>5. x \in Ids /\ (x \in E \/ \E j \in 1..Len(log') : log'[j].prior = x)
      BY <3>2, <3>4 DEF LogInv, Sound, Known, Exists
    <3>6. CurrentID(log', x) \in E
      <4> HIDE DEF E, x
      <4>1. E \in SUBSET Ids
        BY DEF E
      <4> QED BY <1>1, <3>1, <3>3, <3>5, <4>1, CurrentIsInUse
    <3> QED BY <2>1, <2>2, <3>6
  <2>4. Lineage(r)' = r
    BY <2>3, LineageOfExisting
  <2>5. Exists(c.entity)'
    BY DEF Writes
  <2>6. Lineage(c.entity)' = c.entity
    BY <1>2, <2>5, LineageOfExisting
  <2>7. CurrentID(log, log[p].entity)' = r
    BY <2>1, <2>2
  <2>8. Lineage(CurrentID(log, log[p].entity))' = r
    BY <2>4, <2>7 DEF Lineage
  <2> QED BY <2>1, <2>6, <2>8
<1>8. ASSUME NEW code \in {"no-active-scope", "missing", "ended", "out-of-scope"},
             code \in (AuditFindings(Len(log)))'
      PROVE  FALSE
  <2>1. CASE code = "no-active-scope"
    BY <1>1, <1>3, <1>8, <2>1 DEF AuditFindings
  <2>2. CASE code = "missing"
    BY <1>1, <1>4, <1>8, <2>2 DEF AuditFindings
  <2>3. CASE code = "ended"
    <3>1. p \in Openers(log') /\ EndedBefore(p, Len(log))'
      BY <1>1, <1>8, <2>3 DEF AuditFindings, EndedBefore
    <3> QED BY <1>5, <1>6, <3>1
  <2>4. CASE code = "out-of-scope"
    <3>1. p \in Openers(log')
      BY <1>1, <1>8, <2>4 DEF AuditFindings
    <3>2. PICK r : /\ r = Lineage(CurrentID(log, log[p].entity))'
                   /\ Lineage(c.entity)' = c.entity
                   /\ c.entity = r \/ ReachesScope(c.entity, r)'
      BY <1>5, <1>7, <3>1
    <3>3. PICK q, e : q = p /\ e = c.entity
      OBVIOUS
    <3>4. log'[Len(log')].auth = q /\ log'[Len(log')].entity = e
      BY <1>1, <3>3
    <3>5. Lineage(e)' = e /\ r = Lineage(CurrentID(log, log[q].entity))'
      BY <3>2, <3>3
    <3>6. ~(e = r \/ ReachesScope(e, r)')
      BY <1>8, <2>4, <3>4, <3>5 DEF AuditFindings, ReachesScope, parentChainReaches
    <3> QED BY <3>2, <3>3, <3>6
  <2> QED BY <2>1, <2>2, <2>3, <2>4
<1>9. (AuditFindings(Len(log)))' \subseteq {"no-active-scope", "missing", "ended", "out-of-scope"}
  BY DEF AuditFindings
<1> QED BY <1>8, <1>9
-----------------------------------------------------------------------------
(* The operations.                                                         *)

(* What each step does, by the commit it writes.                           *)
Step(c) == Writes(c) /\ Grows(c) /\ ShapeInv' /\ Closes(c)

(* A number just allocated is above all in use, and no prior id.           *)
LEMMA Allocated ==
  ASSUME ShapeInv, NEW k \in Kinds, AllocateID(k) \in Ids
  PROVE  LET x == AllocateID(k) IN
         /\ Kind(x) = k /\ ~Exists(x) /\ ~Used(x)
         /\ \A y \in Ids : Exists(y) /\ Kind(y) = k => Above(x, y)
         /\ \A y \in Ids : x \notin tree[y].priorIDs
<1> DEFINE S == {n \in 1..Room(k) : Exists(<<k, n>>)}
           x == AllocateID(k)
<1>1. S \in SUBSET (0..Room(k)) /\ Room(k) \in Nat
  BY IdFacts
<1>2. x = <<k, 1 + Latest(S)>> /\ Kind(x) = k /\ x[2] = 1 + Latest(S)
  BY DEF AllocateID, Kind
<1>3. Latest(S) \in Nat /\ \A n \in S : n <= Latest(S)
  <2>1. CASE S = {}
    BY <2>1 DEF Latest
  <2>2. CASE S # {}
    <3> HIDE DEF S
    <3>1. Latest(S) \in S /\ \A n \in S : n <= Latest(S)
      BY <1>1, <2>2, LatestFacts
    <3>2. Latest(S) \in 0..Room(k)
      BY <1>1, <3>1
    <3> QED BY <3>1, <3>2
  <2> QED BY <2>1, <2>2
<1>4. ASSUME NEW y \in Ids, Exists(y), Kind(y) = k PROVE Above(x, y)
  <2>1. y = <<k, y[2]>> /\ y[2] \in 1..Room(k) /\ y[2] \in Nat
    BY <1>4, IdFacts
  <2>2. y[2] \in S
    BY <1>4, <2>1
  <2> HIDE DEF S, x
  <2>3. y[2] <= Latest(S)
    BY <1>3, <2>2
  <2> QED BY <1>2, <1>3, <1>4, <2>1, <2>3 DEF Above
<1>5. \A y \in Ids : y[2] \in Nat
  BY IdFacts
<1> HIDE DEF x, S
<1>6. ~Used(x)
  <2>1. SUFFICES ASSUME NEW y \in Ids, Exists(y), Kind(y) = Kind(x), x[2] <= y[2] PROVE FALSE
    BY DEF Used
  <2>2. Above(x, y)
    BY <1>2, <1>4, <2>1
  <2>3. x[2] \in Nat /\ y[2] \in Nat
    BY <1>2, <1>3, <1>5
  <2> QED BY <2>1, <2>2, <2>3 DEF Above
<1>7. x \in Ids
  BY DEF x
<1>8. ~Exists(x)
  BY <1>6, <1>7, ExistsIsUsed
<1>9. ASSUME NEW y \in Ids, x \in tree[y].priorIDs PROVE FALSE
  <2>1. Above(y, x)
    BY <1>9 DEF ShapeInv
  <2>2. Exists(y)
    <3> SUFFICES ASSUME ~Exists(y) PROVE FALSE
      OBVIOUS
    <3>1. tree[y] = Absent
      BY DEF ShapeInv
    <3> QED BY <1>9, <3>1 DEF Absent
  <2>3. Above(x, y)
    BY <1>2, <1>4, <2>1, <2>2 DEF Above
  <2> QED BY <1>5, <1>7, <2>1, <2>3 DEF Above
<1> QED BY <1>2, <1>4, <1>6, <1>8, <1>9 DEF x

(* Standing may change, nothing else.                                      *)
SameShape ==
  /\ tree' \in [Ids -> Entity]
  /\ \A y \in Ids :
       /\ Exists(y)' <=> Exists(y)
       /\ tree'[y].parent = tree[y].parent /\ tree'[y].discoveredIn = tree[y].discoveredIn
       /\ tree'[y].priorIDs = tree[y].priorIDs
       /\ ~Exists(y) => tree'[y] = tree[y]

LEMMA EntityFacts ==
  ASSUME TypeInv
  PROVE  \A x \in Ids : /\ tree[x] \in Entity /\ tree[x].parent \in Ids \cup {None}
                        /\ tree[x].discoveredIn \in Ids \cup {None}
                        /\ tree[x].priorIDs \in SUBSET Ids
BY DEF TypeInv, Entity

(* ShapeInv, one entity at a time: en is what x becomes.                   *)
Shaped(x, en) ==
  /\ ~Exists(x)' => en = Absent
  /\ en.parent # None => Kind(x) = "milestone" /\ Kind(en.parent) = "epic" /\ Exists(en.parent)'
  /\ en.discoveredIn # None =>
       Kind(x) = "gap" /\ Scopable(en.discoveredIn) /\ Exists(en.discoveredIn)'
  /\ \A y \in en.priorIDs : ~Exists(y)' /\ Above(x, y)

LEMMA ShapedFacts ==
  ASSUME \A x \in Ids : \E en : en = tree'[x] /\ Shaped(x, en)
  PROVE  ShapeInv'
<1>1. ASSUME NEW x \in Ids
      PROVE  /\ ~Exists(x)' => tree'[x] = Absent
             /\ tree'[x].parent # None =>
                  Kind(x) = "milestone" /\ Kind(tree'[x].parent) = "epic" /\ Exists(tree[x].parent)'
             /\ tree'[x].discoveredIn # None =>
                  /\ Kind(x) = "gap" /\ Scopable(tree'[x].discoveredIn)
                  /\ Exists(tree[x].discoveredIn)'
             /\ \A y \in tree'[x].priorIDs : ~Exists(y)' /\ Above(x, y)
  BY DEF Shaped, Exists
<1> QED BY <1>1 DEF ShapeInv, Exists

LEMMA SameShapeFacts ==
  ASSUME TypeInv, ShapeInv, SameShape
  PROVE  /\ ShapeInv'
         /\ \A x \in Ids : \A s : ReachesScope(x, s)' <=> ReachesScope(x, s)
<1>1. \A x \in Ids : /\ tree[x].parent \in Ids \cup {None} /\ tree[x].priorIDs \in SUBSET Ids
                     /\ tree[x].discoveredIn \in Ids \cup {None}
  BY EntityFacts
<1>2. ShapeInv'
  <2>1. ASSUME NEW x \in Ids PROVE \E en : en = tree'[x] /\ Shaped(x, en)
    <3> PICK en, old : en = tree'[x] /\ old = tree[x]
      OBVIOUS
    <3>1. /\ en.parent = old.parent /\ en.discoveredIn = old.discoveredIn
          /\ en.priorIDs = old.priorIDs /\ (~Exists(x) => en = old)
      BY DEF SameShape
    <3>2. /\ old.parent \in Ids \cup {None} /\ old.discoveredIn \in Ids \cup {None}
          /\ old.priorIDs \in SUBSET Ids
      BY <1>1
    <3>3. /\ ~Exists(x) => old = Absent
          /\ old.parent # None =>
               Kind(x) = "milestone" /\ Kind(old.parent) = "epic" /\ Exists(old.parent)
          /\ old.discoveredIn # None =>
               Kind(x) = "gap" /\ Scopable(old.discoveredIn) /\ Exists(old.discoveredIn)
          /\ \A y \in old.priorIDs : ~Exists(y) /\ Above(x, y)
      BY DEF ShapeInv
    <3>4. \A y \in Ids : Exists(y)' <=> Exists(y)
      BY DEF SameShape
    <3>5. Shaped(x, en)
      BY <3>1, <3>2, <3>3, <3>4 DEF Shaped
    <3> QED BY <3>5
  <2> QED BY <2>1, ShapedFacts
<1>3. ASSUME NEW x \in Ids, NEW s PROVE ReachesScope(x, s)' <=> ReachesScope(x, s)
  <2>1. \A y \in Ids \cup {None} : parentChainReaches(y, s)' <=> parentChainReaches(y, s)
    BY DEF parentChainReaches, SameShape
  <2>2. tree'[x].discoveredIn = tree[x].discoveredIn
    BY DEF SameShape
  <2> QED BY <1>1, <2>1, <2>2 DEF ReachesScope, parentChainReaches
<1> QED BY <1>2, <1>3

(* A commit through the gate.                                              *)
LEMMA GatedWrites ==
  ASSUME TypeInv, LogInv, EndsInv, NEW actor \in Actors, NEW in, NEW c \in Commit,
         c.auth = 0, c.actor = actor, c.scope = "", Exists(c.entity)',
         c.ends \subseteq Endable(ScopesOf(c.entity)),
         c.prior # None => Exists(c.prior) /\ ~Exists(c.prior)' /\ Above(c.entity, c.prior),
         NEW d \in gateAndDecorate(actor, in, c), Record(d)
  PROVE  Writes(d) /\ Decorated(d, c) /\ Cleared(d, in)
<1>1. Decorated(d, c) /\ Cleared(d, in)
  BY GateFacts
<1>2. d.auth \in {0} \cup Openers(log)
  BY <1>1 DEF Cleared
<1>3. /\ d \in Commit /\ d.entity = c.entity /\ d.ends = c.ends /\ d.scope = "" /\ d.prior = c.prior
  BY <1>1 DEF Decorated
<1>4. Exists(d.entity)'
  BY <1>3 DEF Exists
<1>5. d.prior # None => Exists(d.prior) /\ ~Exists(d.prior)' /\ Above(d.entity, d.prior)
  BY <1>3 DEF Exists
<1>6. d.ends \subseteq Endable(ScopesOf(d.entity))
  BY <1>3
<1>7. (Kept(d) => Len(log) < MaxLog) /\ log' = IF Kept(d) THEN Append(log, d) ELSE log
  BY DEF Record
<1> QED BY <1>1, <1>2, <1>3, <1>4, <1>5, <1>6, <1>7 DEF Writes

LEMMA CurrentStays ==
  ASSUME TypeInv, LogInv, NEW c, Writes(c), c.prior = None, NEW y \in Ids
  PROVE  CurrentID(log', y) = CurrentID(log, y)
<1>1. log \in Seq(Commit) /\ Climbs(log) /\ c \in Commit
  BY DEF TypeInv, LogInv, Climbs, Sound, Writes
<1>2. CASE Kept(c)
  <2>1. log' = Append(log, c)
    BY <1>2, LogAfter
  <2>2. CurrentID(Append(log, c), y) = CurrentID(log, y)
    BY <1>1, CurrentAfter
  <2> QED BY <2>1, <2>2
<1>3. CASE ~Kept(c)
  BY <1>3, LogAfter
<1> QED BY <1>2, <1>3

(* A step that keeps the shape answers the audit when the gate cleared the *)
(* entity it acts on.                                                      *)
LEMMA ActAnswers ==
  ASSUME TypeInv, ShapeInv, LogInv, SameShape, NEW d, Writes(d), d.prior = None,
         Cleared(d, Acting(d.entity))
  PROVE  Answers(d)
<1>1. d.actor \in Actors /\ d.entity \in Ids
  BY DEF Writes, Commit
<1>2. ASSUME d.actor # Human PROVE d.auth # 0 /\ \A e \in 1..Len(log) : d.auth \notin log[e].ends
  <2>1. d.auth \in 1..Len(log)
    BY <1>2, OpenerFacts DEF Cleared
  <2> QED BY <1>2, <2>1 DEF Cleared
<1>3. ASSUME d.auth # 0 PROVE d.actor # Human
  BY <1>3 DEF Cleared
<1>4. ASSUME d.auth # 0
      PROVE  \E r : r = CurrentID(log', log[d.auth].entity) /\ ReachesScope(d.entity, r)'
  <2>1. d.auth \in Openers(log) /\ scopeAllowsAct(CurrentID(log, log[d.auth].entity), Acting(d.entity))
    BY <1>3, <1>4 DEF Cleared
  <2>2. log[d.auth].entity \in Ids
    BY <2>1, OpenerFacts
  <2>3. PICK r : r = CurrentID(log, log[d.auth].entity)
    OBVIOUS
  <2>4. r = CurrentID(log', log[d.auth].entity)
    BY <2>2, <2>3, CurrentStays
  <2>5. ReachesScope(d.entity, r)
    BY <2>1, <2>3 DEF scopeAllowsAct, Acting
  <2>6. ReachesScope(d.entity, r)'
    BY <1>1, <2>5, SameShapeFacts
  <2> QED BY <2>4, <2>6
<1>5. Human \notin Agents
  OBVIOUS
<1> QED BY <1>2, <1>3, <1>4, <1>5 DEF Answers, Within

LEMMA SameShapeGrows ==
  ASSUME SameShape, NEW c
  PROVE  Grows(c)
BY DEF SameShape, Grows

LEMMA HumanAnswers ==
  ASSUME NEW c, c.actor = Human, c.auth = 0
  PROVE  Answers(c)
BY DEF Answers, Within

(* A human's commit on an entity that stays as it is.                      *)
LEMMA AuthorizeStep ==
  ASSUME TypeInv, ShapeInv, NEW x \in Ids, Exists(x), NEW c \in Commit,
         c.entity = x, c.actor = Human, c.auth = 0, c.prior = None, c.verb = "authorize",
         c.ends \subseteq Endable(ScopesOf(x)), c.scope # "" => c.ends = {},
         c.scope = "opened" /\ ~Live(x) => c.force,
         Record(c), UNCHANGED tree
  PROVE  Step(c) /\ Answers(c)
<1>1. SameShape
  BY DEF SameShape, TypeInv, Exists
<1>2. Exists(c.entity)'
  BY DEF Exists
<1>3. Writes(c)
  <2>1. (Kept(c) => Len(log) < MaxLog) /\ log' = IF Kept(c) THEN Append(log, c) ELSE log
    BY DEF Record
  <2> QED BY <1>2, <2>1 DEF Writes
<1>4. Closes(c)
  BY DEF Closes, Live
<1> QED BY <1>1, <1>3, <1>4, SameShapeFacts, SameShapeGrows, HumanAnswers DEF Step

LEMMA AuthorizedFacts ==
  ASSUME NEW x \in Ids, NEW scope \in {"", "opened", "paused", "resumed"}
  PROVE  LET c == Authorized(x, scope) IN
         /\ c \in Commit /\ c.entity = x /\ c.actor = Human /\ c.auth = 0 /\ c.prior = None
         /\ c.verb = "authorize" /\ c.ends = {} /\ c.scope = scope
<1>1. Trailers("authorize", x, Human) \in Commit
  BY TrailersType DEF Verbs, Actors
<1> QED BY <1>1 DEF Authorized, Commit, Trailers

LEMMA OpenStep ==
  ASSUME TypeInv, ShapeInv, NEW x \in Ids, NEW a \in Agents, AuthorizeOpen(x, a)
  PROVE  \E c : Step(c) /\ Answers(c)
<1> DEFINE b == Authorized(x, "opened")
<1>1. /\ b \in Commit /\ b.entity = x /\ b.actor = Human /\ b.auth = 0 /\ b.prior = None
      /\ b.verb = "authorize" /\ b.ends = {} /\ b.scope = "opened"
  BY AuthorizedFacts
<1>2. Exists(x) /\ Record([b EXCEPT !.to = a, !.force = ~Live(x)]) /\ UNCHANGED tree
  BY DEF AuthorizeOpen
<1> HIDE DEF b
<1>3. PICK f \in BOOLEAN : f = ~Live(x)
  BY DEF Live
<1> DEFINE c == [b EXCEPT !.to = a, !.force = f]
<1>4. /\ c \in Commit /\ c.entity = x /\ c.actor = Human /\ c.auth = 0 /\ c.prior = None
      /\ c.verb = "authorize" /\ c.ends = {} /\ c.scope = "opened" /\ c.force = f
  BY <1>1 DEF Commit, Actors
<1>5. Record(c)
  BY <1>2, <1>3
<1> HIDE DEF c
<1>6. Step(c) /\ Answers(c)
  BY <1>2, <1>3, <1>4, <1>5, AuthorizeStep
<1> QED BY <1>6

LEMMA PauseStep ==
  ASSUME TypeInv, ShapeInv, NEW x \in Ids, Exists(x),
         NEW scope \in {"", "opened", "paused", "resumed"}, scope # "opened",
         Record(Authorized(x, scope)), UNCHANGED tree
  PROVE  \E c : Step(c) /\ Answers(c)
<1> DEFINE c == Authorized(x, scope)
<1>1. /\ c \in Commit /\ c.entity = x /\ c.actor = Human /\ c.auth = 0 /\ c.prior = None
      /\ c.verb = "authorize" /\ c.ends = {} /\ c.scope = scope
  <2>1. Trailers("authorize", x, Human) \in Commit
    BY TrailersType DEF Verbs, Actors
  <2> QED BY <2>1 DEF Authorized, Commit, Trailers
<1>2. Record(c)
  OBVIOUS
<1> HIDE DEF c
<1>3. c.scope # "opened"
  BY <1>1
<1>4. Step(c) /\ Answers(c)
  BY <1>1, <1>2, <1>3, AuthorizeStep
<1> QED BY <1>4

LEMMA EndStep ==
  ASSUME TypeInv, ShapeInv, NEW x \in Ids, NEW p, AuthorizeEnd(x, p)
  PROVE  \E c : Step(c) /\ Answers(c)
<1> DEFINE b == Authorized(x, "")
           c == [b EXCEPT !.ends = {p}]
<1>1. /\ b \in Commit /\ b.entity = x /\ b.actor = Human /\ b.auth = 0 /\ b.prior = None
      /\ b.verb = "authorize" /\ b.scope = ""
  BY AuthorizedFacts
<1>2. Exists(x) /\ p \in Endable(ScopesOf(x)) /\ Record(c) /\ UNCHANGED tree
  BY DEF AuthorizeEnd, Endable
<1>3. p \in Nat
  <2>1. ReplayScopes(log, x) \in ScopeSets
    BY ReplayFacts DEF TypeInv
  <2> QED BY <1>2, <2>1 DEF ScopesOf, Endable, ScopeSets
<1> HIDE DEF b
<1>4. /\ c \in Commit /\ c.entity = x /\ c.actor = Human /\ c.auth = 0 /\ c.prior = None
      /\ c.verb = "authorize" /\ c.ends = {p} /\ c.scope = ""
  BY <1>1, <1>3 DEF Commit
<1> HIDE DEF c
<1>5. c.ends \subseteq Endable(ScopesOf(x))
  BY <1>2, <1>4
<1>6. Step(c) /\ Answers(c)
  BY <1>2, <1>4, <1>5, AuthorizeStep
<1> QED BY <1>6

LEMMA ReopenStep ==
  ASSUME TypeInv, ShapeInv, NEW x \in Ids, Reopen(x)
  PROVE  \E c : Step(c) /\ Answers(c)
<1> DEFINE c == Trailers("act", x, Human)
<1>1. /\ c \in Commit /\ c.entity = x /\ c.actor = Human /\ c.auth = 0 /\ c.prior = None
      /\ c.scope = "" /\ c.ends = {}
  <2>1. c \in Commit
    BY TrailersType DEF Verbs, Actors
  <2> QED BY <2>1 DEF Trailers
<1>2. tree[x].status = "terminal" /\ tree' = [tree EXCEPT ![x].status = "live"] /\ log' = log
  BY DEF Reopen
<1>3. tree \in [Ids -> Entity]
  BY DEF TypeInv
<1>4. SameShape
  <2>1. tree' \in [Ids -> Entity]
    <3>1. [tree[x] EXCEPT !.status = "live"] \in Entity
      BY <1>3 DEF Entity
    <3> QED BY <1>2, <1>3, <3>1
  <2>2. tree'[x] = [tree[x] EXCEPT !.status = "live"] /\ \A y \in Ids : y # x => tree'[y] = tree[y]
    BY <1>2, <1>3
  <2>3. /\ tree'[x].status = "live" /\ tree'[x].parent = tree[x].parent
        /\ tree'[x].discoveredIn = tree[x].discoveredIn /\ tree'[x].priorIDs = tree[x].priorIDs
    BY <1>3, <2>2 DEF Entity
  <2>4. Exists(x) /\ Exists(x)'
    BY <1>2, <2>3 DEF Exists
  <2>5. \A y \in Ids : y # x => (Exists(y)' <=> Exists(y))
    BY <2>2 DEF Exists
  <2> QED BY <2>1, <2>2, <2>3, <2>4, <2>5 DEF SameShape
<1>5. tree'[x].status = "live" /\ \A y \in Ids : y # x => tree'[y] = tree[y]
  BY <1>2, <1>3 DEF Entity
<1>6. ~Kept(c)
  BY <1>1 DEF Kept
<1> HIDE DEF c
<1>7. Exists(c.entity)'
  BY <1>1, <1>5 DEF Exists
<1>8. Writes(c)
  BY <1>1, <1>2, <1>6, <1>7 DEF Writes
<1>9. Closes(c)
  BY <1>1, <1>5 DEF Closes
<1>10. Step(c) /\ Answers(c)
  BY <1>1, <1>4, <1>8, <1>9, SameShapeFacts, SameShapeGrows, HumanAnswers DEF Step
<1> QED BY <1>10

LEMMA ActStep ==
  ASSUME ScopeInv, NEW a \in Agents, NEW x \in Ids, Act(a, x)
  PROVE  \E c : Step(c) /\ Answers(c)
<1> USE DEF ScopeInv
<1> DEFINE b == Trailers("act", x, a)
<1>1. /\ b \in Commit /\ b.entity = x /\ b.actor = a /\ b.auth = 0 /\ b.prior = None
      /\ b.scope = "" /\ b.ends = {}
  <2>1. b \in Commit
    BY TrailersType DEF Verbs, Actors
  <2> QED BY <2>1 DEF Trailers
<1>2. PICK d \in gateAndDecorate(a, Acting(x), b) : Record(d)
  BY DEF Act
<1>3. Exists(x) /\ UNCHANGED tree
  BY DEF Act
<1> HIDE DEF b
<1>4. Exists(b.entity)'
  BY <1>1, <1>3 DEF Exists
<1>5. Writes(d) /\ Decorated(d, b) /\ Cleared(d, Acting(x))
  BY <1>1, <1>2, <1>4, GatedWrites DEF Actors
<1>6. d.entity = x /\ d.prior = None /\ d.scope = ""
  BY <1>1, <1>5 DEF Decorated
<1>7. SameShape
  BY <1>3 DEF SameShape, TypeInv, Exists
<1>8. Closes(d)
  BY <1>3, <1>6 DEF Closes
<1>9. Answers(d)
  BY <1>5, <1>6, <1>7, ActAnswers
<1> QED BY <1>5, <1>7, <1>8, <1>9, SameShapeFacts, SameShapeGrows DEF Step

LEMMA CloseStep ==
  ASSUME ScopeInv, NEW actor \in Actors, NEW x \in Ids, Close(actor, x)
  PROVE  \E c : Step(c) /\ Answers(c)
<1> USE DEF ScopeInv
<1>1. PICK E : E = Endable(ScopesOf(x))
  OBVIOUS
<1> DEFINE a == Trailers("promote", x, actor)
           b == [a EXCEPT !.ends = E]
<1>2. E \in SUBSET Nat
  <2>1. ReplayScopes(log, x) \in ScopeSets
    BY ReplayFacts DEF TypeInv
  <2> QED BY <1>1, <2>1 DEF ScopesOf, Endable, ScopeSets
<1>3. /\ b \in Commit /\ b.entity = x /\ b.actor = actor /\ b.auth = 0 /\ b.prior = None
      /\ b.scope = "" /\ b.ends = E
  <2>1. a \in Commit
    BY TrailersType DEF Verbs
  <2>2. a.entity = x /\ a.actor = actor /\ a.auth = 0 /\ a.prior = None /\ a.scope = ""
    BY DEF Trailers
  <2> HIDE DEF a
  <2> QED BY <1>2, <2>1, <2>2 DEF Commit
<1>4. PICK d \in gateAndDecorate(actor, Acting(x), b) : Record(d)
  BY <1>1 DEF Close, loadEndableScopeAuthSHAsForEntity, Endable
<1>5. Exists(x) /\ tree' = [tree EXCEPT ![x].status = "terminal"]
  BY DEF Close
<1> HIDE DEF b
<1>6. tree \in [Ids -> Entity]
  BY DEF TypeInv
<1>7. /\ tree'[x] = [tree[x] EXCEPT !.status = "terminal"]
      /\ \A y \in Ids : y # x => tree'[y] = tree[y]
  BY <1>5, <1>6
<1>8. /\ tree'[x].status = "terminal" /\ tree'[x].parent = tree[x].parent
      /\ tree'[x].discoveredIn = tree[x].discoveredIn /\ tree'[x].priorIDs = tree[x].priorIDs
  BY <1>6, <1>7 DEF Entity
<1>9. SameShape
  <2>1. tree' \in [Ids -> Entity]
    <3>1. [tree[x] EXCEPT !.status = "terminal"] \in Entity
      BY <1>6 DEF Entity
    <3> QED BY <1>5, <1>6, <3>1
  <2>2. Exists(x)'
    BY <1>8 DEF Exists
  <2>3. \A y \in Ids : y # x => (Exists(y)' <=> Exists(y))
    BY <1>7 DEF Exists
  <2> QED BY <1>5, <1>7, <1>8, <2>1, <2>2, <2>3 DEF SameShape
<1>10. Exists(b.entity)'
  BY <1>3, <1>8 DEF Exists
<1>11. b.ends \subseteq Endable(ScopesOf(b.entity))
  BY <1>1, <1>3
<1>12. Writes(d) /\ Decorated(d, b) /\ Cleared(d, Acting(x))
  BY <1>3, <1>4, <1>10, <1>11, GatedWrites
<1>13. d.entity = x /\ d.prior = None /\ d.scope = "" /\ d.ends = E
  BY <1>3, <1>12 DEF Decorated
<1>14. Closes(d)
  BY <1>1, <1>7, <1>13 DEF Closes
<1>15. Answers(d)
  BY <1>9, <1>12, <1>13, ActAnswers
<1> QED BY <1>9, <1>12, <1>14, <1>15, SameShapeFacts, SameShapeGrows DEF Step

LEMMA ClearedFacts ==
  ASSUME TypeInv, LogInv, NEW d, NEW in, Cleared(d, in), d.actor \in Actors
  PROVE  /\ d.actor \in Agents => d.auth # 0
         /\ d.auth # 0 =>
              /\ \A e \in 1..Len(log) : d.auth \notin log[e].ends
              /\ \E y, s \in Ids : /\ y = log[d.auth].entity /\ s = CurrentID(log, y)
                                   /\ Exists(s) /\ scopeAllowsAct(s, in)
<1>1. Human \notin Agents
  OBVIOUS
<1>2. ASSUME d.actor # Human
      PROVE  /\ d.auth # 0 /\ \A e \in 1..Len(log) : d.auth \notin log[e].ends
             /\ \E y, s \in Ids : /\ y = log[d.auth].entity /\ s = CurrentID(log, y)
                                  /\ Exists(s) /\ scopeAllowsAct(s, in)
  <2>1. /\ d.auth \in Openers(log) /\ scopeAllowsAct(CurrentID(log, log[d.auth].entity), in)
        /\ \A e \in 1..Len(log) : d.auth \notin log[e].ends
    BY <1>2 DEF Cleared
  <2>2. d.auth \in 1..Len(log) /\ log[d.auth].entity \in Ids /\ log[d.auth].scope = "opened"
    BY <2>1, OpenerFacts
  <2>3. PICK y \in Ids : y = log[d.auth].entity
    BY <2>2
  <2>4. Known(y)
    <3>1. Known(log[d.auth].entity)
      BY <2>2 DEF LogInv, Sound
    <3> QED BY <2>3, <3>1
  <2>5. PICK s \in Ids : s = CurrentID(log, y) /\ Exists(s)
    BY <2>4, KnownIsFollowed
  <2> QED BY <2>1, <2>2, <2>3, <2>5
<1>3. d.auth # 0 => d.actor # Human
  BY DEF Cleared
<1> QED BY <1>1, <1>2, <1>3

LEMMA MoveStep ==
  ASSUME ScopeInv, NEW actor \in Actors, NEW m \in Ids, NEW e \in Ids,
         Kind(m) = "milestone", Kind(e) = "epic", Move(actor, m, e)
  PROVE  \E c : Step(c) /\ Answers(c)
<1> USE DEF ScopeInv
<1>1. PICK source : source = tree[m].parent
  OBVIOUS
<1> DEFINE b == Trailers("move", m, actor)
<1>2. /\ b \in Commit /\ b.entity = m /\ b.actor = actor /\ b.auth = 0 /\ b.prior = None
      /\ b.scope = "" /\ b.ends = {}
  <2>1. b \in Commit
    BY TrailersType DEF Verbs
  <2> QED BY <2>1 DEF Trailers
<1>3. PICK d \in gateAndDecorate(actor, Moving(source, e), b) : Record(d)
  BY <1>1 DEF Move
<1>4. Exists(m) /\ Exists(e) /\ tree' = [tree EXCEPT ![m].parent = e]
  BY DEF Move
<1> HIDE DEF b
<1>5. tree \in [Ids -> Entity] /\ m # e
  BY DEF TypeInv
<1>6. tree'[m] = [tree[m] EXCEPT !.parent = e] /\ \A y \in Ids : y # m => tree'[y] = tree[y]
  BY <1>4, <1>5
<1>7. /\ tree'[m].status = tree[m].status /\ tree'[m].parent = e
      /\ tree'[m].discoveredIn = tree[m].discoveredIn /\ tree'[m].priorIDs = tree[m].priorIDs
  BY <1>5, <1>6 DEF Entity
<1>8. tree' \in [Ids -> Entity]
  <2>1. [tree[m] EXCEPT !.parent = e] \in Entity
    BY <1>5 DEF Entity
  <2> QED BY <1>4, <1>5, <2>1
<1>9. \A y \in Ids : Exists(y)' <=> Exists(y)
  BY <1>6, <1>7 DEF Exists
<1>10. Exists(b.entity)'
  BY <1>2, <1>4, <1>9
<1>11. Writes(d) /\ Decorated(d, b) /\ Cleared(d, Moving(source, e))
  BY <1>2, <1>3, <1>10, GatedWrites
<1>12. d.entity = m /\ d.prior = None /\ d.scope = "" /\ d.actor \in Actors
  BY <1>2, <1>11 DEF Decorated
<1>13. Grows(d)
  BY <1>8, <1>9 DEF Grows
<1>14. Closes(d)
  BY <1>6, <1>7, <1>12 DEF Closes
<1>15. ShapeInv'
  <2>1. ASSUME NEW x \in Ids PROVE \E en : en = tree'[x] /\ Shaped(x, en)
    <3> PICK en, old : en = tree'[x] /\ old = tree[x]
      OBVIOUS
    <3>1. /\ old.parent \in Ids \cup {None} /\ old.discoveredIn \in Ids \cup {None}
          /\ old.priorIDs \in SUBSET Ids
      BY EntityFacts
    <3>2. /\ ~Exists(x) => old = Absent
          /\ old.parent # None =>
               Kind(x) = "milestone" /\ Kind(old.parent) = "epic" /\ Exists(old.parent)
          /\ old.discoveredIn # None =>
               Kind(x) = "gap" /\ Scopable(old.discoveredIn) /\ Exists(old.discoveredIn)
          /\ \A y \in old.priorIDs : ~Exists(y) /\ Above(x, y)
      BY DEF ShapeInv
    <3>3. CASE x # m
      <4>1. en = old
        BY <1>6, <3>3
      <4> QED BY <1>9, <3>1, <3>2, <4>1 DEF Shaped
    <3>4. CASE x = m
      <4>1. /\ en.parent = e /\ en.discoveredIn = old.discoveredIn /\ en.priorIDs = old.priorIDs
            /\ Exists(m)' /\ Exists(e)'
        BY <1>4, <1>7, <1>9, <3>4
      <4> QED BY <1>9, <3>1, <3>2, <3>4, <4>1 DEF Shaped
    <3> QED BY <3>3, <3>4
  <2> QED BY <2>1, ShapedFacts
<1>16. Answers(d)
  <2>1. /\ d.actor \in Agents => d.auth # 0
        /\ d.auth # 0 =>
             /\ \A k \in 1..Len(log) : d.auth \notin log[k].ends
             /\ \E y, s \in Ids : /\ y = log[d.auth].entity /\ s = CurrentID(log, y)
                                  /\ Exists(s) /\ scopeAllowsAct(s, Moving(source, e))
    BY <1>11, <1>12, ClearedFacts
  <2>2. ASSUME d.auth # 0
        PROVE  \E r : r = CurrentID(log', log[d.auth].entity) /\ ReachesScope(m, r)'
    <3>1. PICK y, s \in Ids : /\ y = log[d.auth].entity /\ s = CurrentID(log, y)
                              /\ scopeAllowsAct(s, Moving(source, e))
      BY <2>1, <2>2
    <3>2. s = CurrentID(log', log[d.auth].entity)
      BY <1>11, <1>12, <3>1, CurrentStays
    <3>3. ReachesScope(e, s)
      BY <3>1 DEF scopeAllowsAct, Moving
    <3>4. tree[e].parent = None /\ tree[e].discoveredIn = None
      BY DEF ShapeInv
    <3>5. s = e
      BY <3>3, <3>4, IdFacts DEF ReachesScope, parentChainReaches
    <3>6. ReachesScope(m, s)'
      BY <1>7, <3>5 DEF ReachesScope, parentChainReaches
    <3> QED BY <3>2, <3>6
  <2> QED BY <1>12, <2>1, <2>2 DEF Answers, Within
<1> QED BY <1>11, <1>13, <1>14, <1>15, <1>16 DEF Step

LEMMA AddStep ==
  ASSUME ScopeInv, NEW actor \in Actors, NEW k \in Creates, NEW link \in Ids, Add(actor, k, link)
  PROVE  \E c : Step(c) /\ (k # "decision" => Answers(c))
<1> USE DEF ScopeInv
<1>1. k \in Kinds /\ k \in {"milestone", "gap", "decision"}
  BY DEF Kinds
<1>2. PICK x \in Ids : x = AllocateID(k)
  BY DEF Add
<1>3. /\ Kind(x) = k /\ ~Exists(x) /\ ~Used(x)
      /\ \A y \in Ids : x \notin tree[y].priorIDs
  BY <1>1, <1>2, Allocated
<1> DEFINE b == Trailers("add", x, actor)
           new == [status |-> "live", parent |-> IF k = "milestone" THEN link ELSE None,
                   discoveredIn |-> IF k = "gap" THEN link ELSE None, priorIDs |-> {}]
<1>4. /\ b \in Commit /\ b.entity = x /\ b.actor = actor /\ b.auth = 0 /\ b.prior = None
      /\ b.scope = "" /\ b.ends = {}
  <2>1. b \in Commit
    BY TrailersType DEF Verbs
  <2> QED BY <2>1 DEF Trailers
<1>5. PICK d \in gateAndDecorate(actor, Creating({link}), b) : Record(d)
  BY <1>2 DEF Add
<1>6. /\ Exists(link) /\ (k = "milestone" => Kind(link) = "epic") /\ (k = "gap" => Scopable(link))
      /\ tree' = [tree EXCEPT ![x] = new]
  BY <1>2 DEF Add
<1> HIDE DEF b
<1>7. tree \in [Ids -> Entity] /\ new \in Entity
  BY DEF TypeInv, Entity
<1>8. tree'[x] = new /\ \A y \in Ids : y # x => tree'[y] = tree[y]
  BY <1>6, <1>7
<1>9. tree' \in [Ids -> Entity]
  BY <1>6, <1>7
<1>10. /\ Exists(x)' /\ \A y \in Ids : y # x => (Exists(y)' <=> Exists(y))
  BY <1>8 DEF Exists
<1>11. Writes(d) /\ Decorated(d, b) /\ Cleared(d, Creating({link}))
  BY <1>4, <1>5, <1>10, GatedWrites
<1>12. d.entity = x /\ d.prior = None /\ d.scope = "" /\ d.actor \in Actors
  BY <1>4, <1>11 DEF Decorated
<1>13. Grows(d)
  BY <1>3, <1>9, <1>10 DEF Grows
<1>14. Closes(d)
  <2>1. tree'[x].status = "live"
    BY <1>8
  <2> QED BY <1>8, <1>12, <2>1 DEF Closes
<1>15. link # x
  BY <1>3, <1>6
<1>16. ShapeInv'
  <2>1. ASSUME NEW y \in Ids PROVE \E en : en = tree'[y] /\ Shaped(y, en)
    <3> PICK en, old : en = tree'[y] /\ old = tree[y]
      OBVIOUS
    <3>1. CASE y = x
      <4>1. en = new
        BY <1>8, <3>1
      <4>2. Exists(link)'
        BY <1>6, <1>10, <1>15
      <4>3. /\ en.parent # None => k = "milestone" /\ en.parent = link
            /\ en.discoveredIn # None => k = "gap" /\ en.discoveredIn = link
            /\ en.priorIDs = {}
        BY <4>1
      <4> QED BY <1>3, <1>6, <1>10, <3>1, <4>2, <4>3 DEF Shaped
    <3>2. CASE y # x
      <4>1. en = old
        BY <1>8, <3>2
      <4>2. /\ old.parent \in Ids \cup {None} /\ old.discoveredIn \in Ids \cup {None}
            /\ old.priorIDs \in SUBSET Ids /\ x \notin old.priorIDs
        BY <1>3, EntityFacts
      <4>3. /\ ~Exists(y) => old = Absent
            /\ old.parent # None =>
                 Kind(y) = "milestone" /\ Kind(old.parent) = "epic" /\ Exists(old.parent)
            /\ old.discoveredIn # None =>
                 Kind(y) = "gap" /\ Scopable(old.discoveredIn) /\ Exists(old.discoveredIn)
            /\ \A z \in old.priorIDs : ~Exists(z) /\ Above(y, z)
        BY DEF ShapeInv
      <4>4. \A z \in Ids : Exists(z) => Exists(z)'
        BY <1>10
      <4>5. \A z \in old.priorIDs : ~Exists(z)'
        BY <1>10, <4>2, <4>3
      <4>6. ~Exists(y)' => ~Exists(y)
        BY <1>10
      <4>7. Shaped(y, old)
        BY <4>2, <4>3, <4>4, <4>5, <4>6 DEF Shaped
      <4> QED BY <4>1, <4>7
    <3> QED BY <3>1, <3>2
  <2> QED BY <2>1, ShapedFacts
<1>17. ASSUME k # "decision" PROVE Answers(d)
  <2>1. /\ d.actor \in Agents => d.auth # 0
        /\ d.auth # 0 =>
             /\ \A e \in 1..Len(log) : d.auth \notin log[e].ends
             /\ \E y, s \in Ids : /\ y = log[d.auth].entity /\ s = CurrentID(log, y)
                                  /\ Exists(s) /\ scopeAllowsAct(s, Creating({link}))
    BY <1>11, <1>12, ClearedFacts
  <2>2. ASSUME d.auth # 0
        PROVE  \E r : r = CurrentID(log', log[d.auth].entity) /\ ReachesScope(x, r)'
    <3>1. PICK y, s \in Ids : /\ y = log[d.auth].entity /\ s = CurrentID(log, y)
                              /\ Exists(s) /\ scopeAllowsAct(s, Creating({link}))
      BY <2>1, <2>2
    <3>2. s = CurrentID(log', log[d.auth].entity)
      BY <1>11, <1>12, <3>1, CurrentStays
    <3>3. ReachesScope(link, s)
      BY <3>1 DEF scopeAllowsAct, Creating
    <3>4. link # None
      BY IdFacts
    <3>5. tree'[link] = tree[link]
      BY <1>8, <1>15
    <3>6. CASE k = "milestone"
      <4>1. tree[link].parent = None /\ tree[link].discoveredIn = None
        BY <1>6, <3>6 DEF ShapeInv
      <4>2. s = link
        BY <3>3, <4>1, IdFacts DEF ReachesScope, parentChainReaches
      <4>3. tree'[x].parent = s
        BY <1>8, <3>6, <4>2
      <4> QED BY <3>2, <4>3 DEF ReachesScope, parentChainReaches
    <3>7. CASE k = "gap"
      <4>1. tree[link].discoveredIn = None
        BY <1>6, <3>7 DEF ShapeInv, Scopable
      <4>2. parentChainReaches(link, s)
        BY <3>3, <4>1 DEF ReachesScope
      <4>3. link = s \/ tree'[link].parent = s
        BY <3>5, <4>2 DEF parentChainReaches
      <4>4. tree'[x].discoveredIn = link
        BY <1>8, <3>7
      <4>5. ReachesScope(x, s)'
        BY <3>4, <4>3, <4>4 DEF ReachesScope, parentChainReaches
      <4> QED BY <3>2, <4>5
    <3> QED BY <1>1, <1>17, <3>6, <3>7
  <2> QED BY <1>12, <2>1, <2>2 DEF Answers, Within
<1> QED BY <1>11, <1>13, <1>14, <1>16, <1>17 DEF Step

LEMMA PriorsAreUsed ==
  ASSUME TypeInv, LogInv, NEW k \in 1..Len(log), log[k].prior # None
  PROVE  ~Exists(log[k].prior) /\ Used(log[k].prior)
<1>1. PICK e : e = log[k]
  OBVIOUS
<1>2. e \in Commit
  BY <1>1 DEF TypeInv
<1>3. e.prior \in Ids /\ e.entity \in Ids
  BY <1>1, <1>2 DEF Commit
<1>4. ~Exists(e.prior) /\ Above(e.entity, e.prior) /\ Used(e.entity)
  <2>1. Sound(log[k])
    BY DEF LogInv
  <2> QED BY <1>1, <2>1 DEF Sound, Exists, Used
<1>5. PICK w \in Ids : Exists(w) /\ Kind(w) = Kind(e.entity) /\ e.entity[2] <= w[2]
  BY <1>4 DEF Used
<1>6. e.prior[2] \in Nat /\ e.entity[2] \in Nat /\ w[2] \in Nat
  BY <1>3, IdFacts
<1>7. Kind(w) = Kind(e.prior) /\ e.prior[2] <= w[2]
  BY <1>4, <1>5, <1>6 DEF Above
<1>8. Used(e.prior)
  BY <1>5, <1>7 DEF Used
<1> QED BY <1>1, <1>4, <1>8 DEF Used, Exists

LEMMA ReallocateStep ==
  ASSUME ScopeInv, NEW actor \in Actors, NEW x \in Ids, Reallocate(actor, x)
  PROVE  \E c : Step(c) /\ Answers(c)
<1> USE DEF ScopeInv
<1>1. Kind(x) \in Kinds /\ x # None
  BY IdFacts
<1>2. PICK new \in Ids : new = AllocateID(Kind(x))
  BY DEF Reallocate
<1>3. /\ Kind(new) = Kind(x) /\ ~Exists(new) /\ ~Used(new)
      /\ \A y \in Ids : Exists(y) /\ Kind(y) = Kind(x) => Above(new, y)
      /\ \A y \in Ids : new \notin tree[y].priorIDs
  BY <1>1, <1>2, Allocated
<1> DEFINE a == Trailers("reallocate", new, actor)
           b == [a EXCEPT !.prior = x]
           ren(y) == IF y = x THEN new ELSE y
           moved == [tree EXCEPT ![new] = [tree[x] EXCEPT !.priorIDs = @ \cup {x}], ![x] = Absent]
<1>4. /\ b \in Commit /\ b.entity = new /\ b.actor = actor /\ b.auth = 0 /\ b.prior = x
      /\ b.scope = "" /\ b.ends = {}
  <2>1. a \in Commit
    BY TrailersType DEF Verbs
  <2>2. a.entity = new /\ a.actor = actor /\ a.auth = 0 /\ a.scope = "" /\ a.ends = {}
    BY DEF Trailers
  <2> HIDE DEF a
  <2> QED BY <2>1, <2>2 DEF Commit
<1>5. PICK d \in gateAndDecorate(actor, Acting(x), b) : Record(d)
  BY <1>2 DEF Reallocate
<1>6. /\ Exists(x) /\ Renumbering
      /\ tree' = [y \in Ids |-> [moved[y] EXCEPT !.parent = ren(@), !.discoveredIn = ren(@)]]
  <2>1. Exists(x) /\ Renumbering /\ tree' = Renumbered(x, new)
    BY <1>2 DEF Reallocate
  <2> QED BY <2>1 DEF Renumbered
<1> HIDE DEF b
<1>7. tree \in [Ids -> Entity] /\ x # new
  BY <1>3, <1>6 DEF TypeInv
<1>8. PICK old : old = tree[x]
  OBVIOUS
<1>9. /\ moved[x] = Absent /\ moved[new] = [old EXCEPT !.priorIDs = @ \cup {x}]
      /\ \A y \in Ids : y # x /\ y # new => moved[y] = tree[y]
  BY <1>7, <1>8
<1>10. \A y \in Ids : tree'[y] = [moved[y] EXCEPT !.parent = ren(@), !.discoveredIn = ren(@)]
  BY <1>6
<1> HIDE DEF moved
<1>11. ren(None) = None /\ \A y \in Ids \cup {None} : ren(y) \in Ids \cup {None}
  BY <1>1
<1>12. old \in Entity /\ Absent \in Entity
  BY <1>7, <1>8 DEF Entity, Absent
<1>13. tree'[x] = Absent
  <2>1. tree'[x] = [Absent EXCEPT !.parent = ren(@), !.discoveredIn = ren(@)]
    BY <1>9, <1>10
  <2> HIDE DEF ren
  <2> QED BY <1>11, <2>1 DEF Absent
<1>14. /\ tree'[new].status = old.status /\ tree'[new].parent = ren(old.parent)
       /\ tree'[new].discoveredIn = ren(old.discoveredIn)
       /\ tree'[new].priorIDs = old.priorIDs \cup {x} /\ tree'[new] \in Entity
  <2>1. PICK e : e = [old EXCEPT !.priorIDs = @ \cup {x}]
    OBVIOUS
  <2>2. /\ e \in Entity /\ e.status = old.status /\ e.parent = old.parent
        /\ e.discoveredIn = old.discoveredIn /\ e.priorIDs = old.priorIDs \cup {x}
    BY <1>12, <2>1 DEF Entity
  <2>3. moved[new] = e
    BY <1>9, <2>1
  <2>4. tree'[new] = [e EXCEPT !.parent = ren(@), !.discoveredIn = ren(@)]
    BY <1>10, <2>3
  <2>5. e.parent \in Ids \cup {None} /\ e.discoveredIn \in Ids \cup {None}
    BY <2>2 DEF Entity
  <2> HIDE DEF ren
  <2>6. ren(e.parent) \in Ids \cup {None} /\ ren(e.discoveredIn) \in Ids \cup {None}
    BY <1>11, <2>5
  <2> QED BY <2>2, <2>4, <2>6 DEF Entity
<1>15. ASSUME NEW y \in Ids, y # x, y # new
       PROVE  /\ tree'[y].status = tree[y].status /\ tree'[y].parent = ren(tree[y].parent)
              /\ tree'[y].discoveredIn = ren(tree[y].discoveredIn)
              /\ tree'[y].priorIDs = tree[y].priorIDs /\ tree'[y] \in Entity
  <2>1. PICK e \in Entity : e = tree[y]
    BY <1>7
  <2>2. tree'[y] = [e EXCEPT !.parent = ren(@), !.discoveredIn = ren(@)]
    BY <1>9, <1>10, <1>15, <2>1
  <2>3. e.parent \in Ids \cup {None} /\ e.discoveredIn \in Ids \cup {None}
    BY <2>1 DEF Entity
  <2> HIDE DEF ren
  <2>4. ren(e.parent) \in Ids \cup {None} /\ ren(e.discoveredIn) \in Ids \cup {None}
    BY <1>11, <2>3
  <2> QED BY <2>1, <2>2, <2>4 DEF Entity
<1>16. tree' \in [Ids -> Entity]
  <2>1. \A y \in Ids : tree'[y] \in Entity
    BY <1>12, <1>13, <1>14, <1>15
  <2>2. tree' = [y \in Ids |-> tree'[y]]
    BY <1>6
  <2> QED BY <2>1, <2>2
<1>17. /\ ~Exists(x)' /\ Exists(new)'
       /\ \A y \in Ids : y # x /\ y # new => (Exists(y)' <=> Exists(y))
  BY <1>6, <1>8, <1>13, <1>14, <1>15 DEF Exists, Absent
<1> HIDE DEF ren
<1>18. Above(new, x)
  BY <1>3, <1>6
<1>19. Writes(d) /\ Decorated(d, b) /\ Cleared(d, Acting(x))
  BY <1>4, <1>5, <1>6, <1>17, <1>18, GatedWrites
<1>20. d.entity = new /\ d.prior = x /\ d.scope = "" /\ d.actor \in Actors
  BY <1>4, <1>19 DEF Decorated
<1>21. Grows(d)
  BY <1>3, <1>16, <1>17, <1>20 DEF Grows
<1>22. Closes(d)
  <2>1. tree'[x].status = "absent"
    BY <1>13 DEF Absent
  <2>2. \A y \in Ids : y # x /\ y # new => tree'[y].status = tree[y].status
    BY <1>15
  <2> QED BY <1>3, <1>20, <2>1, <2>2 DEF Closes
(* A rewritten reference names an entity of the same kind that exists.     *)
<1>23. \A y \in Ids : /\ Exists(y) => Exists(ren(y))' /\ ren(y) \in Ids
                      /\ Kind(ren(y)) = Kind(y) /\ (Scopable(y) => Scopable(ren(y)))
  BY <1>3, <1>17 DEF ren, Scopable
<1>24. ShapeInv'
  <2>1. ASSUME NEW y \in Ids PROVE \E en : en = tree'[y] /\ Shaped(y, en)
    <3> PICK en : en = tree'[y]
      OBVIOUS
    <3>1. CASE y = x
      BY <1>13, <3>1 DEF Shaped, Absent
    <3>2. ASSUME NEW z \in Ids, NEW e, e = tree[z], y # x, Kind(y) = Kind(z),
                 en.parent = ren(e.parent), en.discoveredIn = ren(e.discoveredIn),
                 en.priorIDs \subseteq e.priorIDs \cup {x}, x \in en.priorIDs => y = new,
                 Exists(y)' \/ en = Absent, \A p \in e.priorIDs : Above(y, p)
          PROVE  Shaped(y, en)
      <4>1. /\ e.parent \in Ids \cup {None} /\ e.discoveredIn \in Ids \cup {None}
            /\ e.priorIDs \in SUBSET Ids /\ new \notin e.priorIDs
        BY <1>3, <3>2, EntityFacts
      <4>2. /\ e.parent # None =>
                 Kind(z) = "milestone" /\ Kind(e.parent) = "epic" /\ Exists(e.parent)
            /\ e.discoveredIn # None =>
                 Kind(z) = "gap" /\ Scopable(e.discoveredIn) /\ Exists(e.discoveredIn)
            /\ \A p \in e.priorIDs : ~Exists(p)
        BY <3>2 DEF ShapeInv
      <4>3. en.parent # None =>
              Kind(y) = "milestone" /\ Kind(en.parent) = "epic" /\ Exists(en.parent)'
        <5> SUFFICES ASSUME en.parent # None
                     PROVE  \E p : /\ p = en.parent /\ Kind(y) = "milestone" /\ Kind(p) = "epic"
                                   /\ Exists(p)'
          BY DEF Exists
        <5>1. PICK p : p = e.parent
          OBVIOUS
        <5>2. p \in Ids /\ p # None /\ Exists(p) /\ Kind(z) = "milestone" /\ Kind(p) = "epic"
          BY <1>11, <3>2, <4>1, <4>2, <5>1 DEF Exists
        <5>3. Exists(ren(p))' /\ Kind(ren(p)) = "epic"
          BY <1>23, <5>2
        <5> QED BY <3>2, <5>1, <5>2, <5>3
      <4>4. en.discoveredIn # None =>
              Kind(y) = "gap" /\ Scopable(en.discoveredIn) /\ Exists(en.discoveredIn)'
        <5> SUFFICES ASSUME en.discoveredIn # None
                     PROVE  \E p : /\ p = en.discoveredIn /\ Kind(y) = "gap" /\ Scopable(p)
                                   /\ Exists(p)'
          BY DEF Exists, Scopable
        <5>1. PICK p : p = e.discoveredIn
          OBVIOUS
        <5>2. p \in Ids /\ p # None /\ Exists(p) /\ Kind(z) = "gap" /\ Scopable(p)
          BY <1>11, <3>2, <4>1, <4>2, <5>1 DEF Exists
        <5>3. Exists(ren(p))' /\ Scopable(ren(p))
          BY <1>23, <5>2
        <5> QED BY <3>2, <5>1, <5>2, <5>3
      <4>5. \A p \in en.priorIDs : ~Exists(p)' /\ Above(y, p)
        <5> TAKE p \in en.priorIDs
        <5>1. CASE p = x
          BY <1>17, <1>18, <3>2, <5>1
        <5>2. CASE p # x
          <6>1. p \in e.priorIDs /\ p \in Ids /\ p # new
            BY <3>2, <4>1, <5>2
          <6> QED BY <1>17, <3>2, <4>2, <5>2, <6>1
        <5> QED BY <5>1, <5>2
      <4> QED BY <3>2, <4>3, <4>4, <4>5 DEF Shaped
    <3>3. CASE y = new
      <4>1. \A p \in old.priorIDs : Above(new, p)
        <5>1. \A p \in old.priorIDs : Above(x, p) /\ p \in Ids
          BY <1>8, EntityFacts DEF ShapeInv
        <5>2. \A p \in Ids : p[2] \in Nat
          BY IdFacts
        <5> QED BY <1>18, <5>1, <5>2 DEF Above
      <4>2. /\ en.parent = ren(old.parent) /\ en.discoveredIn = ren(old.discoveredIn)
            /\ en.priorIDs = old.priorIDs \cup {x}
        BY <1>14, <3>3
      <4> QED BY <1>3, <1>7, <1>8, <1>17, <3>2, <3>3, <4>1, <4>2
    <3>4. CASE y # x /\ y # new
      <4>1. PICK e : e = tree[y]
        OBVIOUS
      <4>2. /\ en.parent = ren(e.parent) /\ en.discoveredIn = ren(e.discoveredIn)
            /\ en.priorIDs = e.priorIDs
        BY <1>15, <3>4, <4>1
      <4>3. x \notin e.priorIDs /\ \A p \in e.priorIDs : Above(y, p)
        BY <1>6, <4>1 DEF ShapeInv
      <4>4. Exists(y)' \/ en = Absent
        <5> SUFFICES ASSUME ~Exists(y) PROVE en = Absent
          BY <1>17, <3>4
        <5>1. tree[y] = Absent
          BY DEF ShapeInv
        <5>2. tree'[y] = [Absent EXCEPT !.parent = ren(@), !.discoveredIn = ren(@)]
          <6>1. moved[y] = Absent
            BY <1>9, <3>4, <5>1
          <6> QED BY <1>10, <6>1
        <5> QED BY <1>11, <5>2 DEF Absent
      <4> QED BY <3>2, <3>4, <4>1, <4>2, <4>3, <4>4
    <3> QED BY <3>1, <3>3, <3>4
  <2> QED BY <2>1, ShapedFacts
<1>25. \A y \in Ids : CurrentID(log', y) = ren(CurrentID(log, y))
  <2>1. log \in Seq(Commit) /\ Climbs(log) /\ d \in Commit
    BY <1>19 DEF TypeInv, LogInv, Climbs, Sound, Writes
  <2>2. Kept(d)
    BY <1>1, <1>20 DEF Kept
  <2>3. log' = Append(log, d)
    BY <1>19, <2>2, LogAfter
  <2>4. \A k \in 1..Len(log) : log[k].prior \notin {x, new}
    <3> TAKE k \in 1..Len(log)
    <3>1. PICK p : p = log[k].prior
      OBVIOUS
    <3>2. p # None => ~Exists(p) /\ Used(p)
      BY <3>1, PriorsAreUsed DEF Exists, Used
    <3>3. p # x /\ p # new
      BY <1>1, <1>3, <1>6, <3>2, IdFacts
    <3> QED BY <3>1, <3>3
  <2>5. \A y \in Ids : CurrentID(Append(log, d), y) =
                        IF d.prior # None /\ CurrentID(log, y) = d.prior THEN d.entity
                        ELSE CurrentID(log, y)
    BY <1>18, <1>20, <2>1, <2>4, CurrentAfter
  <2> QED BY <1>1, <1>20, <2>3, <2>5 DEF ren
<1>26. Answers(d)
  <2>1. /\ d.actor \in Agents => d.auth # 0
        /\ d.auth # 0 =>
             /\ \A k \in 1..Len(log) : d.auth \notin log[k].ends
             /\ \E y, s \in Ids : /\ y = log[d.auth].entity /\ s = CurrentID(log, y)
                                  /\ Exists(s) /\ scopeAllowsAct(s, Acting(x))
    BY <1>19, <1>20, ClearedFacts
  <2>2. ASSUME d.auth # 0
        PROVE  \E r : r = CurrentID(log', log[d.auth].entity) /\ (new = r \/ ReachesScope(new, r)')
    <3>1. PICK y, s \in Ids : /\ y = log[d.auth].entity /\ s = CurrentID(log, y)
                              /\ Exists(s) /\ scopeAllowsAct(s, Acting(x))
      BY <2>1, <2>2
    <3>2. ren(s) = CurrentID(log', log[d.auth].entity)
      BY <1>25, <3>1
    <3>3. ReachesScope(x, s)
      BY <3>1 DEF scopeAllowsAct, Acting
    <3>4. CASE s = x
      <4>1. ren(s) = new
        BY <3>4 DEF ren
      <4> QED BY <3>2, <4>1
    <3>5. CASE s # x /\ old.parent = s
      <4>1. ren(s) = s /\ tree'[new].parent = s
        BY <1>14, <3>5 DEF ren
      <4>2. ReachesScope(new, s)'
        BY <4>1 DEF ReachesScope, parentChainReaches
      <4> QED BY <3>2, <4>1, <4>2
    <3>6. CASE s # x /\ old.discoveredIn # None /\ parentChainReaches(old.discoveredIn, s)
      <4>1. PICK g : g = old.discoveredIn
        OBVIOUS
      <4>2. g \in Ids /\ g # None /\ Scopable(g) /\ Exists(g) /\ Kind(x) = "gap"
        BY <1>8, <3>6, <4>1, EntityFacts DEF ShapeInv, Exists, Scopable
      <4>3. g # x /\ g # new
        BY <1>3, <4>2 DEF Scopable
      <4>4. ren(s) = s /\ ren(g) = g
        BY <3>6, <4>3 DEF ren
      <4>5. tree'[new].discoveredIn = g
        BY <1>14, <4>1, <4>4
      <4>6. g = s \/ tree'[g].parent = s
        BY <1>15, <3>6, <4>1, <4>2, <4>3, <4>4 DEF parentChainReaches
      <4>7. ReachesScope(new, s)'
        BY <4>2, <4>5, <4>6 DEF ReachesScope, parentChainReaches
      <4> QED BY <3>2, <4>4, <4>7
    <3> QED BY <1>8, <3>3, <3>4, <3>5, <3>6 DEF ReachesScope, parentChainReaches
  <2> QED BY <1>20, <2>1, <2>2 DEF Answers, Within
<1> QED BY <1>19, <1>21, <1>22, <1>24, <1>26 DEF Step

LEMMA StepsWrite ==
  ASSUME ScopeInv, Next
  PROVE  \E c : Step(c) /\ ("decision" \notin Creates => Answers(c))
<1> USE DEF ScopeInv
<1>1. CASE \E x \in Ids : Authorize(x)
  <2>1. PICK x \in Ids : Authorize(x)
    BY <1>1
  <2>2. CASE \E a \in Agents : AuthorizeOpen(x, a)
    BY <2>2, OpenStep
  <2>3. CASE AuthorizePause(x)
    <3>1. Exists(x) /\ Record(Authorized(x, "paused")) /\ UNCHANGED tree
      BY <2>3 DEF AuthorizePause
    <3> QED BY <3>1, PauseStep
  <2>4. CASE AuthorizeResume(x)
    <3>1. Exists(x) /\ Record(Authorized(x, "resumed")) /\ UNCHANGED tree
      BY <2>4 DEF AuthorizeResume
    <3> QED BY <3>1, PauseStep
  <2>5. CASE \E p \in Openers(log) : AuthorizeEnd(x, p)
    BY <2>5, EndStep
  <2> QED BY <2>1, <2>2, <2>3, <2>4, <2>5 DEF Authorize
<1>2. CASE \E x \in Ids : Reopen(x)
  BY <1>2, ReopenStep
<1>3. CASE \E a \in Agents, x \in Ids : Act(a, x)
  BY <1>3, ActStep
<1>4. CASE \E actor \in Actors : Verb(actor)
  <2>1. PICK actor \in Actors : Verb(actor)
    BY <1>4
  <2>2. CASE \E x \in Ids : Close(actor, x)
    BY <2>2, CloseStep
  <2>3. CASE \E x \in Ids : Reallocate(actor, x)
    BY <2>3, ReallocateStep
  <2>4. CASE \E m, e \in Ids : Kind(m) = "milestone" /\ Kind(e) = "epic" /\ Move(actor, m, e)
    BY <2>4, MoveStep
  <2>5. CASE \E k \in Creates, link \in Ids : Add(actor, k, link)
    <3>1. PICK k \in Creates, link \in Ids : Add(actor, k, link)
      BY <2>5
    <3>2. \E c : Step(c) /\ (k # "decision" => Answers(c))
      BY <3>1, AddStep
    <3> QED BY <3>2
  <2> QED BY <2>1, <2>2, <2>3, <2>4, <2>5 DEF Verb
<1> QED BY <1>1, <1>2, <1>3, <1>4 DEF Next
-----------------------------------------------------------------------------
(* The theorems.                                                           *)

LEMMA InitScopeInv == Init => ScopeInv /\ ClosedMeansEnded
<1> SUFFICES ASSUME Init PROVE ScopeInv /\ ClosedMeansEnded
  OBVIOUS
<1> DEFINE e1 == <<"epic", 1>>
           e2 == <<"epic", 2>>
           m1 == <<"milestone", 1>>
           b == Authorized(e1, "opened")
<1>1. e1 \in Ids /\ e2 \in Ids /\ m1 \in Ids /\ e1 # m1 /\ e2 # m1
  <2>1. 1 \in 1..Room("epic") /\ 2 \in 1..Room("epic") /\ 1 \in 1..Room("milestone")
    BY DEF Room
  <2> QED BY <2>1, IdFacts DEF Kinds
<1>2. None # e1 /\ None \notin Ids
  BY <1>1, IdFacts
<1>3. tree = [x \in Ids |-> CASE x \in {e1, e2} -> [Absent EXCEPT !.status = "live", !.parent = None]
                              [] x = m1 -> [Absent EXCEPT !.status = "live", !.parent = e1]
                              [] OTHER -> Absent]
  BY DEF Init
<1>4. /\ \A x \in {e1, e2} : tree[x] = [status |-> "live", parent |-> None, discoveredIn |-> None,
                                        priorIDs |-> {}]
      /\ tree[m1] = [status |-> "live", parent |-> e1, discoveredIn |-> None, priorIDs |-> {}]
      /\ \A x \in Ids : x \notin {e1, e2, m1} => tree[x] = Absent
  <2> HIDE DEF e1, e2, m1
  <2> QED BY <1>1, <1>3 DEF Absent
<1>5. PICK a \in Agents : log = <<[b EXCEPT !.to = a]>>
  BY DEF Init
<1>6. /\ b \in Commit /\ b.entity = e1 /\ b.actor = Human /\ b.auth = 0 /\ b.prior = None
      /\ b.verb = "authorize" /\ b.ends = {} /\ b.scope = "opened"
  BY <1>1, AuthorizedFacts
<1> DEFINE c == [b EXCEPT !.to = a]
<1> HIDE DEF b, e1, e2, m1
<1>7. /\ c \in Commit /\ c.entity = e1 /\ c.auth = 0 /\ c.prior = None
      /\ c.verb = "authorize" /\ c.ends = {} /\ c.scope = "opened"
  BY <1>6 DEF Commit, Actors
<1>8. log = <<c>>
  BY <1>5
<1> HIDE DEF c
<1>9. log \in Seq(Commit) /\ Len(log) = 1 /\ \A k \in 1..Len(log) : log[k] = c
  BY <1>7, <1>8
<1>10. Exists(e1) /\ Exists(e2) /\ Exists(m1)
  BY <1>4 DEF Exists
<1>11. Kind(e1) = "epic" /\ Kind(m1) = "milestone"
  BY DEF Kind, e1, m1
<1>12. TypeInv
  <2>1. \A x \in Ids : tree[x] \in Entity
    BY <1>1, <1>4 DEF Entity, Absent
  <2>2. tree \in [Ids -> Entity]
    BY <1>3, <2>1
  <2>3. \A k \in 1..Len(log) : log[k].ends \subseteq 1..Len(log) /\ log[k].auth \in 0..Len(log)
    BY <1>7, <1>9
  <2> QED BY <1>9, <2>2, <2>3 DEF TypeInv
<1>13. ShapeInv
  <2>1. ASSUME NEW x \in Ids
        PROVE  /\ ~Exists(x) => tree[x] = Absent
               /\ tree[x].parent # None => x = m1 /\ tree[x].parent = e1
               /\ tree[x].discoveredIn = None /\ tree[x].priorIDs = {}
    BY <1>1, <1>4, <1>10 DEF Absent
  <2> QED BY <1>10, <1>11, <2>1 DEF ShapeInv
<1>14. LogInv
  <2>1. Used(e1) /\ Known(e1)
    BY <1>1, <1>10, ExistsIsUsed DEF Known
  <2>2. Sound(c)
    BY <1>7, <2>1 DEF Sound
  <2> QED BY <1>9, <2>2 DEF LogInv
<1>15. EndsInv
  BY <1>7, <1>9 DEF EndsInv
<1>16. ClosedMeansEnded
  <2>1. \A x \in Ids : tree[x].status # "terminal"
    BY <1>1, <1>4 DEF Absent
  <2>2. Scoped(log) \subseteq Ids
    BY <1>1, <1>7, <1>9 DEF Scoped, Openers, Commits
  <2> QED BY <2>1, <2>2 DEF ClosedMeansEnded
<1> QED BY <1>12, <1>13, <1>14, <1>15, <1>16 DEF ScopeInv

LEMMA NextScopeInv == ScopeInv /\ ClosedMeansEnded /\ [Next]_vars => ScopeInv' /\ ClosedMeansEnded'
<1> SUFFICES ASSUME ScopeInv, ClosedMeansEnded, [Next]_vars PROVE ScopeInv' /\ ClosedMeansEnded'
  OBVIOUS
<1>1. CASE Next
  <2>1. PICK c : Step(c)
    BY <1>1, StepsWrite
  <2>2. TypeInv /\ ShapeInv /\ LogInv /\ EndsInv
    BY DEF ScopeInv
  <2>3. Writes(c) /\ Grows(c) /\ ShapeInv' /\ Closes(c)
    BY <2>1 DEF Step
  <2>4. TypeInv' /\ LogInv' /\ EndsInv' /\ ClosedMeansEnded'
    BY <2>2, <2>3, TypeInvStep, LogInvStep, EndsInvStep, ClosedStep
  <2> QED BY <2>3, <2>4 DEF ScopeInv
<1>2. CASE UNCHANGED vars
  BY <1>2 DEF vars, ScopeInv, TypeInv, ShapeInv, LogInv, EndsInv, ClosedMeansEnded, Sound, Known,
              Used, Exists, ScopesOf
<1> QED BY <1>1, <1>2

LEMMA ScopeInvHolds == Spec => [](ScopeInv /\ ClosedMeansEnded)
<1>1. ScopeInv /\ ClosedMeansEnded /\ [Next]_vars => (ScopeInv /\ ClosedMeansEnded)'
  BY NextScopeInv
<1> QED BY <1>1, InitScopeInv, PTL DEF Spec

LEMMA InvTypeOK == ScopeInv => TypeOK
<1> SUFFICES ASSUME ScopeInv PROVE TypeOK
  OBVIOUS
<1>1. TypeInv /\ ShapeInv
  BY DEF ScopeInv
<1>2. tree \in [Ids -> Entity] /\ log \in Seq(Commit) /\ Len(log) <= MaxLog /\ Commits(log) = 1..Len(log)
  BY <1>1 DEF TypeInv, Commits
<1>3. \A x \in Ids : \A y \in {tree[x].parent, tree[x].discoveredIn} \ {None} : Exists(y)
  BY <1>1 DEF ShapeInv
<1>4. ASSUME NEW k \in Commits(log) PROVE CommitOK(log[k])
  <2>1. PICK c : c = log[k]
    OBVIOUS
  <2>2. c \in Commit
    BY <1>2, <2>1
  <2>3. c.ends \subseteq Commits(log) /\ c.auth \in {0} \cup Commits(log)
    <3>1. log[k].ends \subseteq 1..Len(log) /\ log[k].auth \in 0..Len(log)
      BY <1>1, <1>2 DEF TypeInv
    <3>2. Len(log) \in Nat
      BY <1>2
    <3> QED BY <1>2, <2>1, <3>1, <3>2
  <2>4. /\ c.entity \in Ids /\ c.actor \in Actors /\ c.to \in Actors
        /\ c.scope \in {"", "opened", "paused", "resumed"}
        /\ c.prior \in Ids \cup {None} /\ c.force \in BOOLEAN
    BY <2>2 DEF Commit
  <2> QED BY <2>1, <2>3, <2>4 DEF CommitOK
<1> QED BY <1>2, <1>3, <1>4 DEF TypeOK

(* The planning tree and the history stay well formed: every reference of  *)
(* an entity names one that exists, through every renumbering              *)
(* (verb/reallocate.go), and a commit ends and names only scopes opened    *)
(* before it.                                                              *)
THEOREM TypeCorrect == Spec => []TypeOK
<1> QED BY ScopeInvHolds, InvTypeOK, PTL

(* A closed entity has no scope that can still authorize anything, unless  *)
(* it was forced open on it: the closing commit ends the active and the    *)
(* paused ones alike (cli/cliutil/scopes.go).                              *)
THEOREM ClosingEndsScopes == Spec => []ClosedMeansEnded
<1> QED BY ScopeInvHolds, PTL

(* However often an entity is renumbered, the id the gate resolves for a   *)
(* scope opened on it names an existing entity (ResolveCurrentEntityID).   *)
THEOREM ScopesAreFollowed == Spec => []ScopesFollowRenumbering
<1>1. ScopeInv => ScopesFollowRenumbering
  BY Followed DEF ScopeInv
<1> QED BY <1>1, ScopeInvHolds, PTL

(* A commit moves exactly the scopes its verb picked, along the scope FSM, *)
(* and what was ended stays ended (LoadEntityScopes).                      *)
THEOREM OnlyPickedScopesMove == Spec => OnlyThePickedMove
<1>1. ScopeInv /\ [Next]_vars => [MovesAlongFSM /\ PickedDepart]_log
  <2> SUFFICES ASSUME ScopeInv, [Next]_vars, log' # log PROVE MovesAlongFSM /\ PickedDepart
    OBVIOUS
  <2>1. PICK c : Step(c)
    BY StepsWrite DEF vars
  <2>2. TypeInv /\ LogInv
    BY DEF ScopeInv
  <2>3. Writes(c) /\ Kept(c)
    BY <2>1 DEF Step, Writes
  <2> QED BY <2>2, <2>3, MovesStep
<1> QED BY <1>1, ScopeInvHolds, PTL DEF Spec, OnlyThePickedMove

(* A commit the gate let through passes the audit when it is written: its  *)
(* scope is open, was not ended before, and reaches the entity in the tree *)
(* the verb left.  That is so unless agents create decisions: a decision's *)
(* relates_to satisfies the gate (verb/allow.go) and is no edge of the     *)
(* audit's (check/provenance.go).                                          *)
THEOREM GateSatisfiesAudit == "decision" \notin Creates => (Spec => AuditAgreesWithGate)
<1> SUFFICES ASSUME "decision" \notin Creates PROVE Spec => AuditAgreesWithGate
  OBVIOUS
<1>1. ScopeInv /\ ScopeInv' /\ [Next]_vars => [(AuditFindings(Len(log)))' = {}]_log
  <2> SUFFICES ASSUME ScopeInv, ScopeInv', [Next]_vars, log' # log
               PROVE  (AuditFindings(Len(log)))' = {}
    OBVIOUS
  <2>1. PICK c : Step(c) /\ Answers(c)
    BY StepsWrite DEF vars
  <2>2. TypeInv /\ TypeInv' /\ ShapeInv' /\ LogInv'
    BY DEF ScopeInv
  <2>3. Writes(c) /\ Kept(c)
    BY <2>1 DEF Step, Writes
  <2> QED BY <2>1, <2>2, <2>3, AnswersStep
<1> QED BY <1>1, ScopeInvHolds, PTL DEF Spec, AuditAgreesWithGate
=============================================================================
