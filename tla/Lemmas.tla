------------------------------- MODULE Lemmas -------------------------------
(***************************************************************************)
(* Facts that several proofs rest on.  They are about natural numbers,     *)
(* finite sets, sequences and chains of nodes, and about no part of qmem   *)
(* in particular.                                                          *)
(***************************************************************************)
EXTENDS Integers, Sequences, FiniteSetsExt, FiniteSetTheorems, WellFoundedInduction,
        TLAPS

(* A set of natural numbers that is not empty has a smallest element.  All *)
(* inductions below are of the form: take the smallest counterexample.     *)
LEMMA NatMinimum ==
  ASSUME NEW S \in SUBSET Nat, S # {}
  PROVE  \E m \in S : \A x \in S : m =< x
<1> DEFINE R == OpToRel(<, Nat)
<1>1. IsWellFoundedOn(R, Nat)
  BY NatLessThanWellFounded
<1>2. PICK m \in S : \A y \in S : ~(<<y, m>> \in R)
  <2> HIDE DEF R
  <2> QED BY <1>1, WFMin
<1>3. ASSUME NEW x \in S PROVE m =< x
  <2>1. ~(x < m)
    BY <1>2 DEF OpToRel
  <2> QED BY <2>1
<1> QED BY <1>3

(* It is what Min returns. *)
LEMMA MinIsLeast ==
  ASSUME NEW S \in SUBSET Nat, S # {}
  PROVE  Min(S) \in S /\ \A x \in S : Min(S) =< x
<1>1. \E m \in S : \A x \in S : m =< x
  BY NatMinimum
<1> QED BY <1>1 DEF Min

(* And a greatest one, if it has a bound. *)
LEMMA MaxIsGreatest ==
  ASSUME NEW S \in SUBSET Nat, S # {}, NEW b \in Nat, \A x \in S : x =< b
  PROVE  Max(S) \in S /\ \A x \in S : x =< Max(S)
<1> DEFINE T == {y \in Nat : b - y \in S}
<1>1. T # {}
  <2>1. PICK x \in S : TRUE
    OBVIOUS
  <2>2. x \in Nat /\ b - x \in Nat /\ b - (b - x) = x
    OBVIOUS
  <2> QED BY <2>2
<1>2. PICK m \in T : \A y \in T : m =< y
  <2> HIDE DEF T
  <2>1. T \in SUBSET Nat
    BY DEF T
  <2> QED BY <1>1, <2>1, NatMinimum
<1>3. ASSUME NEW x \in S PROVE b - m >= x
  <2>1. x \in Nat /\ b - x \in Nat /\ b - (b - x) = x
    OBVIOUS
  <2>2. m =< b - x
    BY <1>2, <2>1
  <2>3. m \in Nat
    OBVIOUS
  <2> HIDE DEF T
  <2> QED BY <2>1, <2>2, <2>3
<1>4. b - m \in S
  OBVIOUS
<1>5. \E z \in S : \A x \in S : z >= x
  BY <1>3, <1>4
<1>6. Max(S) \in S /\ \A x \in S : Max(S) >= x
  BY <1>5 DEF Max
<1> QED BY <1>6

(* A new element above all others is the greatest. *)
LEMMA MaxOfNew ==
  ASSUME NEW S \in SUBSET Int, NEW p \in Int, \A x \in S : x < p
  PROVE  Max(S \cup {p}) = p
<1>1. \A x \in S \cup {p} : p >= x
  OBVIOUS
<1>2. \A z \in S \cup {p} : (\A x \in S \cup {p} : z >= x) => z = p
  OBVIOUS
<1> QED BY <1>1, <1>2 DEF Max

(* A set has as many elements as its image under an injective function. *)
LEMMA SameSize ==
  ASSUME NEW S, IsFiniteSet(S), NEW f, DOMAIN f = S,
         \A x, y \in S : f[x] = f[y] => x = y
  PROVE  LET T == {f[x] : x \in S} IN IsFiniteSet(T) /\ Cardinality(T) = Cardinality(S)
<1> DEFINE T == {f[x] : x \in S}
           g == [x \in S |-> f[x]]
<1>1. g \in [S -> T] /\ DOMAIN g = S /\ \A x \in S : g[x] = f[x]
  OBVIOUS
<1>2. \A x, y \in S : g[x] = g[y] => x = y
  BY <1>1
<1>3. \A z \in T : \E x \in S : g[x] = z
  BY <1>1
<1> HIDE DEF g, T
<1>4. g \in Bijection(S, T)
  BY <1>1, <1>2, <1>3 DEF Bijection, Injection, Surjection, IsInjective
<1>5. ExistsBijection(S, T)
  BY <1>4 DEF ExistsBijection
<1> QED BY <1>5, FS_Bijection DEF T

(* The smaller of two numbers. *)
LEMMA MinOfTwo ==
  ASSUME NEW a \in Int, NEW b \in Int
  PROVE  Min({a, b}) = IF a =< b THEN a ELSE b
<1>1. CASE a =< b
  BY <1>1 DEF Min
<1>2. CASE a > b
  BY <1>2 DEF Min
<1> QED BY <1>1, <1>2

(* An index that has passed the end of an array once. *)
LEMMA Wrap ==
  ASSUME NEW K \in Nat \ {0}, NEW x \in Int, 0 =< x, x < 2 * K
  PROVE  x % K = IF x < K THEN x ELSE x - K
<1>1. CASE x < K
  BY <1>1
<1>2. CASE x >= K
  BY <1>2
<1> QED BY <1>1, <1>2

(* The elements of a sequence. *)
LEMMA ElementIn ==
  ASSUME NEW S, NEW s \in Seq(S)
  PROVE  Len(s) \in Nat /\ \A j \in 1 .. Len(s) : s[j] \in S
OBVIOUS

(* Where x stands in a sequence. *)
Places(s, x) == {k \in 1 .. Len(s) : s[k] = x}

(* There are finitely many such places. *)
LEMMA PlacesFinite ==
  ASSUME NEW S, NEW s \in Seq(S), NEW x
  PROVE  IsFiniteSet(Places(s, x)) /\ Cardinality(Places(s, x)) \in Nat
<1>1. IsFiniteSet(1 .. Len(s))
  BY FS_Interval
<1>2. IsFiniteSet(Places(s, x))
  BY <1>1, FS_Subset DEF Places
<1> QED BY <1>2, FS_CardinalityType

(* One more element at the end. *)
LEMMA PlacesAppend ==
  ASSUME NEW S, NEW s \in Seq(S), NEW y \in S, NEW x
  PROVE  Cardinality(Places(Append(s, y), x)) =
           Cardinality(Places(s, x)) + (IF x = y THEN 1 ELSE 0)
<1>1. /\ Len(Append(s, y)) = Len(s) + 1 /\ Len(s) \in Nat
      /\ Append(s, y)[Len(s) + 1] = y
      /\ \A k \in 1 .. Len(s) : Append(s, y)[k] = s[k]
  OBVIOUS
<1>2. IsFiniteSet(Places(s, x)) /\ Cardinality(Places(s, x)) \in Nat
  BY PlacesFinite
<1>3. CASE x = y
  <2>1. Places(Append(s, y), x) = Places(s, x) \cup {Len(s) + 1}
    BY <1>1, <1>3 DEF Places
  <2>2. Len(s) + 1 \notin Places(s, x)
    BY <1>1 DEF Places
  <2> QED BY <1>2, <1>3, <2>1, <2>2, FS_AddElement
<1>4. CASE x # y
  <2>1. Places(Append(s, y), x) = Places(s, x)
    BY <1>1, <1>4 DEF Places
  <2> QED BY <1>2, <1>4, <2>1
<1> QED BY <1>3, <1>4

-----------------------------------------------------------------------------
(* A chain is linked through nodes 0 .. K - 1 by their field next; -1 ends *)
(* it.                                                                     *)
Links(K) == (0 .. K - 1) \cup {-1}

(* Every link leads to a smaller index. *)
Descending(K, nodes) ==
  \A n \in 0 .. K - 1 : nodes[n].next \in Links(K) /\ nodes[n].next < n

(* Two functions are defined by recursion along the links: the search for  *)
(* p, and the set of nodes of the chain.  x is the value at the next node. *)
Visit(what, nodes, p, n, x) ==
  IF what = "search" THEN IF nodes[n].pid = p THEN n ELSE x ELSE {n} \cup x

AtEnd(what) == IF what = "search" THEN -1 ELSE {}

FollowsLinks(f, what, K, nodes, p) ==
  f = [n \in Links(K) |-> IF n = -1 THEN AtEnd(what)
                          ELSE Visit(what, nodes, p, n, f[nodes[n].next])]

(* On descending chains the recursion is well founded: there is a function *)
(* that satisfies its equation.                                            *)
LEMMA FollowerExists ==
  ASSUME NEW K \in Nat, NEW what, NEW nodes, NEW p, Descending(K, nodes)
  PROVE  \E f : FollowsLinks(f, what, K, nodes, p)
<1> DEFINE Upto(k) == {n \in Links(K) : n < k}
           Step(g, n) == IF n = -1 THEN AtEnd(what)
                         ELSE Visit(what, nodes, p, n, g[nodes[n].next])
           Partial(g, k) == g = [n \in Upto(k) |-> Step(g, n)]
           S == {k \in Nat : ~ \E g : Partial(g, k)}
<1>1. S = {}
  <2> SUFFICES ASSUME S # {} PROVE FALSE
    OBVIOUS
  <2>1. PICK k \in S : \A x \in S : k =< x
    <3> HIDE DEF S
    <3>1. S \in SUBSET Nat
      BY DEF S
    <3> QED BY <3>1, NatMinimum
  <2>2. CASE k = 0
    <3>1. \A n \in Upto(k) : n = -1
      BY <2>2 DEF Links
    <3> DEFINE g == [n \in Upto(k) |-> AtEnd(what)]
    <3>2. Partial(g, k)
      BY <3>1
    <3> QED BY <3>2, <2>1
  <2>3. CASE k # 0
    <3>1. k \in Nat /\ k - 1 \in Nat
      BY <2>1, <2>3
    <3>2. k - 1 \notin S
      <4> HIDE DEF S
      <4> QED BY <2>1, <3>1
    <3>3. PICK g : Partial(g, k - 1)
      BY <3>1, <3>2
    <3> DEFINE h == [n \in Upto(k) |-> IF n < k - 1 THEN g[n] ELSE Step(g, n)]
    <3>4. ASSUME NEW n \in Upto(k) PROVE h[n] = Step(h, n)
      <4>1. n \in Links(K) /\ n \in Int /\ n < k /\ k \in Int
        BY <3>1 DEF Links
      <4>2. n < k - 1 => g[n] = Step(g, n)
        <5>1. n < k - 1 => n \in Upto(k - 1)
          BY <4>1
        <5> QED BY <5>1, <3>3
      <4>3. h[n] = Step(g, n)
        BY <4>2
      <4>4. CASE n = -1
        BY <4>3, <4>4
      <4>5. CASE n # -1
        <5>1. n \in 0 .. K - 1
          BY <4>1, <4>5 DEF Links
        <5>2. nodes[n].next \in Links(K) /\ nodes[n].next < n /\ nodes[n].next \in Int
          BY <5>1 DEF Descending, Links
        <5>3. nodes[n].next \in Upto(k) /\ nodes[n].next < k - 1
          BY <5>2, <4>1
        <5>4. h[nodes[n].next] = g[nodes[n].next]
          BY <5>3
        <5> QED BY <5>4, <4>3
      <4> QED BY <4>4, <4>5
    <3>5. h = [n \in Upto(k) |-> Step(h, n)]
      <4> DEFINE hh == [n \in Upto(k) |-> Step(h, n)]
      <4>1. h = hh
        BY <3>4
      <4> QED BY <4>1
    <3> QED BY <3>5, <2>1
  <2> QED BY <2>2, <2>3
<1>2. PICK f : Partial(f, K)
  BY <1>1
<1>3. Upto(K) = Links(K)
  BY DEF Links
<1> QED BY <1>2, <1>3 DEF FollowsLinks

(* What it takes for f to be the search for p, started anywhere. *)
IsWalk(f, K, nodes, p) ==
  f = [n \in Links(K) |-> IF n = -1 THEN -1
                          ELSE IF nodes[n].pid = p THEN n ELSE f[nodes[n].next]]

(* The search for p in the chain that begins at h. *)
Search(K, nodes, h, p) ==
  LET walk[n \in Links(K)] ==
        IF n = -1 THEN -1
        ELSE IF nodes[n].pid = p THEN n ELSE walk[nodes[n].next]
  IN  walk[h]

(* So the search satisfies its equation. *)
LEMMA SearchIsWalk ==
  ASSUME NEW K \in Nat, NEW nodes, NEW p, Descending(K, nodes)
  PROVE  \E f : IsWalk(f, K, nodes, p) /\ \A h : Search(K, nodes, h, p) = f[h]
<1> DEFINE W == CHOOSE f : IsWalk(f, K, nodes, p)
<1>1. IsWalk(W, K, nodes, p)
  <2>1. \A f : FollowsLinks(f, "search", K, nodes, p) <=> IsWalk(f, K, nodes, p)
    BY DEF FollowsLinks, IsWalk, Visit, AtEnd
  <2> QED BY <2>1, FollowerExists
<1>2. \A h : Search(K, nodes, h, p) = W[h]
  BY DEF Search, IsWalk
<1> QED BY <1>1, <1>2

(* One step of a search. *)
LEMMA SearchStep ==
  ASSUME NEW K \in Nat, NEW nodes, NEW p, Descending(K, nodes), NEW h \in Links(K)
  PROVE  Search(K, nodes, h, p) =
           IF h = -1 THEN -1
           ELSE IF nodes[h].pid = p THEN h ELSE Search(K, nodes, nodes[h].next, p)
<1>1. PICK f : IsWalk(f, K, nodes, p) /\ \A n : Search(K, nodes, n, p) = f[n]
  BY SearchIsWalk
<1>2. f[h] = IF h = -1 THEN -1 ELSE IF nodes[h].pid = p THEN h ELSE f[nodes[h].next]
  BY <1>1 DEF IsWalk
<1> QED BY <1>1, <1>2

(* A search ends at the end of the chain or at a node that holds p, and    *)
(* never behind where it started.                                          *)
LEMMA SearchFinds ==
  ASSUME NEW K \in Nat, NEW nodes, NEW p, Descending(K, nodes), NEW h \in Links(K)
  PROVE  LET n == Search(K, nodes, h, p)
         IN  n \in Links(K) /\ n =< h /\ (n # -1 => nodes[n].pid = p)
<1> DEFINE Good(m) == LET n == Search(K, nodes, m, p)
                      IN  n \in Links(K) /\ n =< m /\ (n # -1 => nodes[n].pid = p)
           S == {m \in 0 .. K - 1 : ~Good(m)}
<1>1. Good(-1)
  <2>1. Search(K, nodes, -1, p) = -1
    BY SearchStep DEF Links
  <2> QED BY <2>1 DEF Links
<1>2. S = {}
  <2> SUFFICES ASSUME S # {} PROVE FALSE
    OBVIOUS
  <2>1. PICK m \in S : \A x \in S : m =< x
    <3> HIDE DEF S
    <3>1. S \in SUBSET Nat
      BY DEF S
    <3> QED BY <3>1, NatMinimum
  <2>2. m \in 0 .. K - 1 /\ m \in Links(K) /\ ~Good(m)
    BY <2>1 DEF Links
  <2> DEFINE next == nodes[m].next
  <2>3. next \in Links(K) /\ next < m
    BY <2>2 DEF Descending
  <2>4. Good(next)
    <3>1. next \in 0 .. K - 1 => next \notin S
      <4> HIDE DEF S
      <4> QED BY <2>1, <2>2, <2>3
    <3>2. CASE next \in 0 .. K - 1
      <4> HIDE DEF Good
      <4> QED BY <3>1, <3>2
    <3>3. CASE next = -1
      <4> HIDE DEF Good
      <4> QED BY <1>1, <3>3
    <3> QED BY <2>3, <3>2, <3>3 DEF Links
  <2>5. Search(K, nodes, m, p) = IF nodes[m].pid = p THEN m ELSE Search(K, nodes, next, p)
    BY <2>2, SearchStep
  <2>6. Good(m)
    <3>1. CASE nodes[m].pid = p
      BY <2>2, <2>5, <3>1
    <3>2. CASE nodes[m].pid # p
      <4>1. Search(K, nodes, m, p) = Search(K, nodes, next, p)
        BY <2>5, <3>2
      <4> DEFINE r == Search(K, nodes, next, p)
      <4>2. r \in Links(K) /\ r =< next /\ (r # -1 => nodes[r].pid = p)
        BY <2>4
      <4>3. r \in Int /\ next \in Int /\ m \in Int
        BY <2>2, <2>3, <4>2 DEF Links
      <4>4. r =< m
        <5> HIDE DEF r, next
        <5> QED BY <2>3, <4>2, <4>3
      <4> QED BY <4>1, <4>2, <4>4
    <3> QED BY <3>1, <3>2
  <2> QED BY <2>2, <2>6
<1>3. CASE h = -1
  BY <1>1, <1>3
<1>4. CASE h \in 0 .. K - 1
  BY <1>2, <1>4
<1> QED BY <1>3, <1>4 DEF Links

(* Two arrays of nodes agree below k. *)
Agree(K, a, b, k) == \A n \in 0 .. K - 1 : n < k => a[n] = b[n]

(* A search depends only on the nodes below where it starts. *)
LEMMA SearchFrame ==
  ASSUME NEW K \in Nat, NEW a, NEW b, NEW p, Descending(K, a), Descending(K, b),
         NEW k \in Int, Agree(K, a, b, k),
         NEW h \in Links(K), h < k
  PROVE  Search(K, a, h, p) = Search(K, b, h, p)
<1> DEFINE S == {m \in 0 .. K - 1 : m < k /\ Search(K, a, m, p) # Search(K, b, m, p)}
<1>1. Search(K, a, -1, p) = Search(K, b, -1, p)
  BY SearchStep DEF Links
<1>2. S = {}
  <2> SUFFICES ASSUME S # {} PROVE FALSE
    OBVIOUS
  <2>1. PICK m \in S : \A x \in S : m =< x
    <3> HIDE DEF S
    <3>1. S \in SUBSET Nat
      BY DEF S
    <3> QED BY <3>1, NatMinimum
  <2>2. m \in 0 .. K - 1 /\ m \in Links(K) /\ m < k /\ Search(K, a, m, p) # Search(K, b, m, p)
    BY <2>1 DEF Links
  <2> DEFINE next == a[m].next
  <2>3. next \in Links(K) /\ next < m /\ a[m] = b[m]
    BY <2>2 DEF Descending, Agree
  <2>4. Search(K, a, next, p) = Search(K, b, next, p)
    <3>1. CASE next \in 0 .. K - 1
      <4>1. next \notin S
        <5> HIDE DEF S
        <5> QED BY <2>1, <2>2, <2>3, <3>1
      <4>2. next < k
        BY <2>2, <2>3, <3>1
      <4> QED BY <3>1, <4>1, <4>2
    <3>2. CASE next = -1
      BY <1>1, <3>2
    <3> QED BY <2>3, <3>1, <3>2 DEF Links
  <2>5. Search(K, a, m, p) = IF a[m].pid = p THEN m ELSE Search(K, a, a[m].next, p)
    BY <2>2, SearchStep
  <2>6. Search(K, b, m, p) = IF b[m].pid = p THEN m ELSE Search(K, b, b[m].next, p)
    BY <2>2, SearchStep
  <2> QED BY <2>2, <2>3, <2>4, <2>5, <2>6
<1>3. CASE h = -1
  BY <1>1, <1>3
<1>4. CASE h \in 0 .. K - 1
  BY <1>2, <1>4
<1> QED BY <1>3, <1>4 DEF Links
(* A new node at the head of a chain: p is found there, and everything     *)
(* else is found where it was.                                             *)
LEMMA SearchNewNode ==
  ASSUME NEW K \in Nat, NEW a, NEW b, NEW q, Descending(K, a), Descending(K, b),
         NEW k \in 0 .. K - 1, Agree(K, a, b, k)
  PROVE  Search(K, b, k, q) = IF b[k].pid = q THEN k ELSE Search(K, a, b[k].next, q)
<1> DEFINE h == b[k].next
<1>1. k \in Links(K) /\ k \in Int /\ k # -1 /\ h \in Links(K) /\ h < k
  BY DEF Links, Descending
<1>2. Search(K, b, k, q) = IF b[k].pid = q THEN k ELSE Search(K, b, h, q)
  BY <1>1, SearchStep
<1>3. Search(K, b, h, q) = Search(K, a, h, q)
  <2> HIDE DEF h
  <2> QED BY <1>1, SearchFrame
<1> QED BY <1>2, <1>3

-----------------------------------------------------------------------------
(* The nodes of the chain that begins at h. *)
Trail(K, nodes, h) ==
  LET chain[n \in Links(K)] == IF n = -1 THEN {} ELSE {n} \cup chain[nodes[n].next]
  IN  chain[h]

(* One step along a chain. *)
LEMMA TrailStep ==
  ASSUME NEW K \in Nat, NEW nodes, Descending(K, nodes), NEW h \in Links(K)
  PROVE  Trail(K, nodes, h) =
           IF h = -1 THEN {} ELSE {h} \cup Trail(K, nodes, nodes[h].next)
<1> DEFINE IsTrail(f) == f = [n \in Links(K) |-> IF n = -1 THEN {}
                                                 ELSE {n} \cup f[nodes[n].next]]
           W == CHOOSE f : IsTrail(f)
<1>1. IsTrail(W)
  <2>1. \A f : FollowsLinks(f, "trail", K, nodes, 0) <=> IsTrail(f)
    BY DEF FollowsLinks, Visit, AtEnd
  <2>2. \E f : FollowsLinks(f, "trail", K, nodes, 0)
    BY FollowerExists
  <2> HIDE DEF IsTrail
  <2> QED BY <2>1, <2>2
<1>2. \A x : Trail(K, nodes, x) = W[x]
  BY DEF Trail
<1>3. W[h] = IF h = -1 THEN {} ELSE {h} \cup W[nodes[h].next]
  <2> HIDE DEF W
  <2> QED BY <1>1
<1> HIDE DEF W
<1> QED BY <1>2, <1>3

(* Where two nodes of a chain are linked directly and neither has been     *)
(* handed out again, that is, both are at least low, they are in the same  *)
(* of B buckets.                                                           *)
SameBucket(K, nodes, B, low, high) ==
  \A n \in 0 .. K - 1 :
    low =< n /\ n < high /\ low =< nodes[n].next =>
      nodes[nodes[n].next].pid % B = nodes[n].pid % B

(* The nodes of a chain are none beyond its head, and those at least low   *)
(* are all in the bucket of the head.                                      *)
LEMMA TrailHolds ==
  ASSUME NEW K \in Nat, NEW nodes, Descending(K, nodes), NEW B,
         NEW low \in Nat, NEW high \in Int, SameBucket(K, nodes, B, low, high),
         NEW h \in Links(K), h < high
  PROVE  \A n \in Trail(K, nodes, h) :
           /\ n \in 0 .. K - 1 /\ n =< h
           /\ low =< n => nodes[n].pid % B = nodes[h].pid % B
<1> DEFINE Good(m) == \A n \in Trail(K, nodes, m) :
                        /\ n \in 0 .. K - 1 /\ n =< m
                        /\ low =< n => nodes[n].pid % B = nodes[m].pid % B
           S == {m \in 0 .. K - 1 : m < high /\ ~Good(m)}
<1>1. Good(-1)
  <2>1. Trail(K, nodes, -1) = {}
    BY TrailStep DEF Links
  <2> QED BY <2>1
<1>2. S = {}
  <2> SUFFICES ASSUME S # {} PROVE FALSE
    OBVIOUS
  <2>1. PICK m \in S : \A x \in S : m =< x
    <3> HIDE DEF S
    <3>1. S \in SUBSET Nat
      BY DEF S
    <3> QED BY <3>1, NatMinimum
  <2>2. m \in 0 .. K - 1 /\ m \in Links(K) /\ m < high /\ ~Good(m) /\ m # -1
    BY <2>1 DEF Links
  <2> DEFINE next == nodes[m].next
  <2>3. next \in Links(K) /\ next < m /\ next \in Int
    BY <2>2 DEF Descending, Links
  <2>4. Good(next)
    <3>1. CASE next \in 0 .. K - 1
      <4>1. next \notin S /\ next < high
        <5> HIDE DEF S
        <5> QED BY <2>1, <2>2, <2>3, <3>1
      <4> HIDE DEF Good
      <4> QED BY <3>1, <4>1
    <3>2. CASE next = -1
      <4> HIDE DEF Good
      <4> QED BY <1>1, <3>2
    <3> QED BY <2>3, <3>1, <3>2 DEF Links
  <2>5. Trail(K, nodes, m) = {m} \cup Trail(K, nodes, next)
    BY <2>2, TrailStep
  <2>6. ASSUME NEW n \in Trail(K, nodes, next)
        PROVE  /\ n \in 0 .. K - 1 /\ n =< m
               /\ low =< n => nodes[n].pid % B = nodes[m].pid % B
    <3>1. /\ n \in 0 .. K - 1 /\ n =< next
          /\ low =< n => nodes[n].pid % B = nodes[next].pid % B
      BY <2>4
    <3> HIDE DEF next
    <3>2. n =< m /\ (low =< n => low =< next /\ low =< m)
      BY <2>2, <2>3, <3>1
    <3>3. low =< n => nodes[next].pid % B = nodes[m].pid % B
      BY <2>2, <3>2 DEF SameBucket, next
    <3> QED BY <3>1, <3>2, <3>3
  <2>7. Good(m)
    <3>1. m =< m
      BY <2>2
    <3> HIDE DEF next
    <3> QED BY <2>2, <2>5, <2>6, <3>1
  <2> QED BY <2>2, <2>7
<1>3. CASE h = -1
  BY <1>1, <1>3
<1>4. CASE h \in 0 .. K - 1
  BY <1>2, <1>4
<1> QED BY <1>3, <1>4 DEF Links
-----------------------------------------------------------------------------
(* Two hash tables of B buckets whose chains are linked through one pool   *)
(* of K nodes, as PidTable describes them: cur holds the processes of this *)
(* collection, prev those of the previous one, idx nodes are handed out.   *)
PoolNode(K, P, V) == [pid : P \cup {0}, val : V \cup {0}, next : Links(K)]

(* The nodes link downwards, and cur only leads to nodes handed out.       *)
PoolLinked(K, B, P, V, nodes, idx, cur, prev) ==
  /\ nodes \in [0 .. K - 1 -> PoolNode(K, P, V)]
  /\ \A n \in 0 .. K - 1 : nodes[n].next < n
  /\ idx \in 0 .. K
  /\ cur \in [0 .. B - 1 -> Links(K)] /\ \A b \in 0 .. B - 1 : cur[b] < idx
  /\ prev \in [0 .. B - 1 -> Links(K)]

(* The nodes from i to below k hold these readings. *)
HoldReadings(K, nodes, i, k, readings) ==
  \A n \in 0 .. K - 1 :
    i =< n /\ n < k => nodes[n].pid \in DOMAIN readings /\ nodes[n].val = readings[nodes[n].pid]

(* A lookup finds exactly the processes that were read, with what was read.*)
FindReadings(K, B, P, nodes, heads, readings) ==
  \A p \in P :
    LET n == Search(K, nodes, heads[p % B], p)
    IN  IF p \in DOMAIN readings THEN n # -1 /\ nodes[n].val = readings[p] ELSE n = -1

(* cur is as it should be; of the nodes prev leads to, the ones that were  *)
(* not handed out again hold the readings of the previous collection.      *)
TwoTables(K, B, P, V, nodes, idx, cur, prev, now, before) ==
  /\ PoolLinked(K, B, P, V, nodes, idx, cur, prev)
  /\ HoldReadings(K, nodes, 0, idx, now)
  /\ FindReadings(K, B, P, nodes, cur, now)
  /\ \E k \in 0 .. K :
       /\ \A b \in 0 .. B - 1 : prev[b] < k
       /\ HoldReadings(K, nodes, idx, k, before)

(* A hash is the index of a bucket. *)
LEMMA HashInRange ==
  ASSUME NEW B \in Nat \ {0}, NEW p \in Nat
  PROVE  p % B \in 0 .. B - 1
OBVIOUS

(* Such nodes form chains. *)
LEMMA PoolDescends ==
  ASSUME NEW K \in Nat, NEW B, NEW P, NEW V, NEW nodes, NEW idx, NEW cur, NEW prev,
         PoolLinked(K, B, P, V, nodes, idx, cur, prev)
  PROVE  Descending(K, nodes)
<1>1. \A n \in 0 .. K - 1 : nodes[n] \in PoolNode(K, P, V)
  BY DEF PoolLinked
<1>2. \A n \in 0 .. K - 1 : nodes[n].next \in Links(K)
  BY <1>1 DEF PoolNode
<1> QED BY <1>2 DEF PoolLinked, Descending

(* Empty tables find nobody. *)
LEMMA EmptyFinds ==
  ASSUME NEW K \in Nat, NEW B \in Nat \ {0}, NEW P \in SUBSET Nat, NEW nodes,
         Descending(K, nodes), NEW empty, empty = [b \in 0 .. B - 1 |-> -1],
         NEW none, DOMAIN none = {}
  PROVE  FindReadings(K, B, P, nodes, empty, none)
<1> SUFFICES ASSUME NEW p \in P PROVE Search(K, nodes, empty[p % B], p) = -1
  BY DEF FindReadings
<1>1. empty[p % B] = -1
  BY HashInRange
<1>2. Search(K, nodes, -1, p) = -1
  BY SearchStep DEF Links
<1> QED BY <1>1, <1>2

(* memset leaves two empty tables. *)
LEMMA TablesBegin ==
  ASSUME NEW K \in Nat, NEW B \in Nat \ {0}, NEW P \in SUBSET Nat, NEW V,
         NEW nodes, nodes = [n \in 0 .. K - 1 |-> [pid |-> 0, val |-> 0, next |-> -1]],
         NEW empty, empty = [b \in 0 .. B - 1 |-> -1],
         NEW none, DOMAIN none = {}
  PROVE  TwoTables(K, B, P, V, nodes, 0, empty, empty, none, none)
<1> DEFINE node == [pid |-> 0, val |-> 0, next |-> -1]
<1>1. node \in PoolNode(K, P, V) /\ node.next = -1 /\ -1 \in Links(K)
  BY DEF PoolNode, Links
<1>2. empty \in [0 .. B - 1 -> Links(K)] /\ \A b \in 0 .. B - 1 : empty[b] < 0
  BY <1>1
<1>3. nodes \in [0 .. K - 1 -> PoolNode(K, P, V)] /\ \A n \in 0 .. K - 1 : nodes[n] = node
  <2> HIDE DEF node
  <2> QED BY <1>1 DEF node
<1>4. \A n \in 0 .. K - 1 : nodes[n].next < n
  BY <1>1, <1>3
<1>5. PoolLinked(K, B, P, V, nodes, 0, empty, empty)
  BY <1>2, <1>3, <1>4 DEF PoolLinked
<1>6. HoldReadings(K, nodes, 0, 0, none)
  BY DEF HoldReadings
<1>7. FindReadings(K, B, P, nodes, empty, none)
  BY <1>5, PoolDescends, EmptyFinds
<1>8. 0 \in 0 .. K
  OBVIOUS
<1> QED BY <1>2, <1>5, <1>6, <1>7, <1>8 DEF TwoTables

(* The tables are swapped: cur becomes prev, and every node is free.       *)
LEMMA TablesSwap ==
  ASSUME NEW K \in Nat, NEW B \in Nat \ {0}, NEW P \in SUBSET Nat, NEW V,
         NEW nodes, NEW idx, NEW cur, NEW prev, NEW now, NEW before,
         TwoTables(K, B, P, V, nodes, idx, cur, prev, now, before),
         NEW empty, empty = [b \in 0 .. B - 1 |-> -1],
         NEW none, DOMAIN none = {}
  PROVE  TwoTables(K, B, P, V, nodes, 0, empty, cur, none, now)
<1>1. PoolLinked(K, B, P, V, nodes, idx, cur, prev)
  BY DEF TwoTables
<1>2. PoolLinked(K, B, P, V, nodes, 0, empty, cur)
  <2>1. -1 \in Links(K)
    BY DEF Links
  <2>2. empty \in [0 .. B - 1 -> Links(K)] /\ \A b \in 0 .. B - 1 : empty[b] < 0
    BY <2>1
  <2> QED BY <1>1, <2>2 DEF PoolLinked
<1>3. HoldReadings(K, nodes, 0, 0, none)
  BY DEF HoldReadings
<1>4. FindReadings(K, B, P, nodes, empty, none)
  BY <1>1, PoolDescends, EmptyFinds
<1>5. idx \in 0 .. K /\ \A b \in 0 .. B - 1 : cur[b] < idx
  BY <1>1 DEF PoolLinked
<1>6. HoldReadings(K, nodes, 0, idx, now)
  BY DEF TwoTables
<1> QED BY <1>2, <1>3, <1>4, <1>5, <1>6 DEF TwoTables

(* The node at idx is filled and put in front of its chain. *)
NodeStored(B, nodes, idx, cur, p, v, nodes1, cur1) ==
  /\ nodes1 = [nodes EXCEPT ![idx] = [pid |-> p, val |-> v, next |-> cur[p % B]]]
  /\ cur1 = [cur EXCEPT ![p % B] = idx]

(* What that means for each of the nodes and buckets. *)
NodeAdded(K, B, nodes, idx, cur, p, v, nodes1, cur1) ==
  /\ idx \in 0 .. K - 1 /\ p % B \in 0 .. B - 1
  /\ nodes1[idx] = [pid |-> p, val |-> v, next |-> cur[p % B]]
  /\ \A n \in 0 .. K - 1 : n # idx => nodes1[n] = nodes[n]
  /\ cur1[p % B] = idx
  /\ \A b \in 0 .. B - 1 : b # p % B => cur1[b] = cur[b]

(* One more process is read. *)
ReadToo(now, p, v) == [q \in DOMAIN now \cup {p} |-> IF q = p THEN v ELSE now[q]]

(* A new node has a larger index than everything cur reaches; that a chain *)
(* of prev may run through it does not matter.                             *)
LEMMA StoredLinks ==
  ASSUME NEW K \in Nat, NEW B \in Nat \ {0}, NEW P \in SUBSET Nat, NEW V,
         NEW nodes, NEW idx, NEW cur, NEW prev,
         PoolLinked(K, B, P, V, nodes, idx, cur, prev), idx < K,
         NEW p \in P, NEW v \in V,
         NEW nodes1, NEW cur1, NodeStored(B, nodes, idx, cur, p, v, nodes1, cur1)
  PROVE  /\ PoolLinked(K, B, P, V, nodes1, idx + 1, cur1, prev)
         /\ NodeAdded(K, B, nodes, idx, cur, p, v, nodes1, cur1)
<1> DEFINE h == p % B
           node == [pid |-> p, val |-> v, next |-> cur[h]]
<1>1. h \in 0 .. B - 1 /\ idx \in 0 .. K - 1 /\ idx \in Nat /\ idx + 1 \in 0 .. K
  BY HashInRange DEF PoolLinked
<1> HIDE DEF h
<1>2. cur[h] \in Links(K) /\ cur[h] < idx
  BY <1>1 DEF PoolLinked
<1>3. node \in PoolNode(K, P, V) /\ node.next = cur[h]
  BY <1>2 DEF PoolNode
<1>4. nodes1 = [nodes EXCEPT ![idx] = node] /\ cur1 = [cur EXCEPT ![h] = idx]
  BY DEF NodeStored, h
<1> HIDE DEF node
<1>5. /\ nodes1 \in [0 .. K - 1 -> PoolNode(K, P, V)]
      /\ nodes1[idx] = node
      /\ \A n \in 0 .. K - 1 : n # idx => nodes1[n] = nodes[n]
  BY <1>1, <1>3, <1>4 DEF PoolLinked
<1>6. ASSUME NEW n \in 0 .. K - 1 PROVE nodes1[n].next < n
  <2>1. CASE n = idx
    BY <1>2, <1>3, <1>5, <2>1
  <2>2. CASE n # idx
    BY <1>5, <2>2 DEF PoolLinked
  <2> QED BY <2>1, <2>2
<1>7. idx \in Links(K)
  BY <1>1 DEF Links
<1>8. /\ cur1 \in [0 .. B - 1 -> Links(K)] /\ cur1[h] = idx
      /\ \A b \in 0 .. B - 1 : b # h => cur1[b] = cur[b]
  BY <1>1, <1>4, <1>7 DEF PoolLinked
<1>9. ASSUME NEW b \in 0 .. B - 1 PROVE cur1[b] < idx + 1
  <2>1. cur[b] \in Int /\ cur[b] < idx
    BY DEF PoolLinked, Links
  <2> QED BY <1>1, <1>8, <2>1
<1>10. PoolLinked(K, B, P, V, nodes1, idx + 1, cur1, prev)
  BY <1>1, <1>5, <1>6, <1>8, <1>9 DEF PoolLinked
<1> QED BY <1>1, <1>5, <1>8, <1>10 DEF node, h, NodeAdded

(* It is found from now on, and everybody else is found as before.         *)
LEMMA StoredFinds ==
  ASSUME NEW K \in Nat, NEW B \in Nat \ {0}, NEW P \in SUBSET Nat, NEW V,
         NEW nodes, NEW idx, NEW cur, NEW prev, NEW now,
         PoolLinked(K, B, P, V, nodes, idx, cur, prev), idx < K,
         FindReadings(K, B, P, nodes, cur, now),
         NEW p \in P, NEW v \in V, p \notin DOMAIN now,
         NEW nodes1, NEW cur1, NodeStored(B, nodes, idx, cur, p, v, nodes1, cur1)
  PROVE  FindReadings(K, B, P, nodes1, cur1, ReadToo(now, p, v))
<1> DEFINE new == ReadToo(now, p, v)
<1> SUFFICES ASSUME NEW q \in P
             PROVE  LET n == Search(K, nodes1, cur1[q % B], q)
                    IN  IF q \in DOMAIN new THEN n # -1 /\ nodes1[n].val = new[q]
                        ELSE n = -1
  BY DEF FindReadings
<1> DEFINE h == cur[q % B]
           n == Search(K, nodes, h, q)
<1>0. /\ PoolLinked(K, B, P, V, nodes1, idx + 1, cur1, prev)
      /\ NodeAdded(K, B, nodes, idx, cur, p, v, nodes1, cur1)
  BY StoredLinks
<1>1. /\ idx \in 0 .. K - 1 /\ p % B \in 0 .. B - 1
      /\ nodes1[idx] = [pid |-> p, val |-> v, next |-> cur[p % B]]
      /\ \A m \in 0 .. K - 1 : m # idx => nodes1[m] = nodes[m]
      /\ cur1[p % B] = idx
      /\ \A b \in 0 .. B - 1 : b # p % B => cur1[b] = cur[b]
  BY <1>0 DEF NodeAdded
<1>2. Descending(K, nodes) /\ Descending(K, nodes1)
  BY <1>0, PoolDescends
<1>3. Agree(K, nodes, nodes1, idx)
  BY <1>1 DEF Agree
<1>4. q % B \in 0 .. B - 1
  BY HashInRange
<1>5. h \in Links(K) /\ h < idx /\ idx \in Int /\ h \in Int
  BY <1>1, <1>4 DEF PoolLinked, Links
<1>6. Search(K, nodes1, idx, q) = IF p = q THEN idx ELSE Search(K, nodes, cur[p % B], q)
  BY <1>1, <1>2, <1>3, SearchNewNode
<1>7. CASE q = p
  <2>1. DOMAIN new = DOMAIN now \cup {p} /\ new[p] = v
    BY DEF ReadToo
  <2> QED BY <1>1, <1>6, <1>7, <2>1
<1>8. CASE q # p
  <2>1. Search(K, nodes1, cur1[q % B], q) = n
    <3>1. CASE q % B = p % B
      BY <1>1, <1>6, <1>8, <3>1
    <3>2. CASE q % B # p % B
      <4>1. cur1[q % B] = h
        BY <1>1, <1>4, <3>2
      <4> HIDE DEF h
      <4>2. Search(K, nodes, h, q) = Search(K, nodes1, h, q)
        BY <1>2, <1>3, <1>5, SearchFrame
      <4> QED BY <4>1, <4>2
    <3> QED BY <3>1, <3>2
  <2>2. n \in Links(K) /\ n =< h
    <3> HIDE DEF h
    <3> QED BY <1>2, <1>5, SearchFinds
  <2> HIDE DEF h
  <2>3. n # -1 => nodes1[n] = nodes[n]
    <3> HIDE DEF n
    <3>1. n \in Int /\ n < idx
      BY <1>5, <2>2 DEF Links
    <3> QED BY <1>1, <2>2, <3>1 DEF Links
  <2>4. IF q \in DOMAIN now THEN n # -1 /\ nodes[n].val = now[q] ELSE n = -1
    BY DEF FindReadings, h
  <2>5. (q \in DOMAIN new <=> q \in DOMAIN now) /\ (q \in DOMAIN now => new[q] = now[q])
    BY <1>8 DEF ReadToo
  <2> HIDE DEF n, new
  <2> QED BY <2>1, <2>3, <2>4, <2>5
<1> QED BY <1>7, <1>8

(* So a process that was not read yet can be stored. *)
LEMMA TablesStore ==
  ASSUME NEW K \in Nat, NEW B \in Nat \ {0}, NEW P \in SUBSET Nat, NEW V,
         NEW nodes, NEW idx, NEW cur, NEW prev, NEW now, NEW before,
         TwoTables(K, B, P, V, nodes, idx, cur, prev, now, before), idx < K,
         NEW p \in P, NEW v \in V, p \notin DOMAIN now,
         NEW nodes1, NEW cur1, NodeStored(B, nodes, idx, cur, p, v, nodes1, cur1)
  PROVE  TwoTables(K, B, P, V, nodes1, idx + 1, cur1, prev, ReadToo(now, p, v), before)
<1> DEFINE new == ReadToo(now, p, v)
<1>1. PoolLinked(K, B, P, V, nodes, idx, cur, prev) /\ FindReadings(K, B, P, nodes, cur, now)
  BY DEF TwoTables
<1>0. /\ PoolLinked(K, B, P, V, nodes1, idx + 1, cur1, prev)
      /\ NodeAdded(K, B, nodes, idx, cur, p, v, nodes1, cur1)
  BY <1>1, StoredLinks
<1>2. /\ idx \in 0 .. K - 1
      /\ nodes1[idx] = [pid |-> p, val |-> v, next |-> cur[p % B]]
      /\ \A n \in 0 .. K - 1 : n # idx => nodes1[n] = nodes[n]
  BY <1>0 DEF NodeAdded
<1>3. FindReadings(K, B, P, nodes1, cur1, new)
  BY <1>1, StoredFinds
<1>4. /\ DOMAIN new = DOMAIN now \cup {p} /\ new[p] = v
      /\ \A q \in DOMAIN now : q # p => new[q] = now[q]
  BY DEF ReadToo
<1> HIDE DEF new
<1>5. HoldReadings(K, nodes1, 0, idx + 1, new)
  <2> SUFFICES ASSUME NEW n \in 0 .. K - 1, n < idx + 1
               PROVE  nodes1[n].pid \in DOMAIN new /\ nodes1[n].val = new[nodes1[n].pid]
    BY DEF HoldReadings
  <2>1. CASE n = idx
    BY <1>2, <1>4, <2>1
  <2>2. CASE n # idx
    <3>1. 0 =< n /\ n < idx /\ nodes1[n] = nodes[n]
      BY <1>2, <2>2
    <3>2. nodes[n].pid \in DOMAIN now /\ nodes[n].val = now[nodes[n].pid]
      BY <3>1 DEF TwoTables, HoldReadings
    <3> QED BY <1>4, <3>1, <3>2
  <2> QED BY <2>1, <2>2
<1>6. PICK k \in 0 .. K : /\ \A b \in 0 .. B - 1 : prev[b] < k
                          /\ HoldReadings(K, nodes, idx, k, before)
  BY DEF TwoTables
<1>7. HoldReadings(K, nodes1, idx + 1, k, before)
  <2> SUFFICES ASSUME NEW n \in 0 .. K - 1, idx + 1 =< n, n < k
               PROVE  nodes1[n].pid \in DOMAIN before /\ nodes1[n].val = before[nodes1[n].pid]
    BY DEF HoldReadings
  <2>1. n # idx /\ idx =< n
    BY <1>2
  <2> QED BY <1>2, <1>6, <2>1 DEF HoldReadings
<1> QED BY <1>0, <1>3, <1>5, <1>6, <1>7 DEF TwoTables, new

(* What a lookup in prev can yield: this collection's reading of p or the  *)
(* previous one's.                                                         *)
FindEither(K, B, P, nodes, heads, now, before) ==
  \A p \in P :
    LET n == Search(K, nodes, heads[p % B], p)
    IN  n # -1 => \/ p \in DOMAIN now /\ nodes[n].val = now[p]
                  \/ p \in DOMAIN before /\ nodes[n].val = before[p]

(* It never yields anything else. *)
LEMMA PreviousFinds ==
  ASSUME NEW K \in Nat, NEW B \in Nat \ {0}, NEW P \in SUBSET Nat, NEW V,
         NEW nodes, NEW idx, NEW cur, NEW prev, NEW now, NEW before,
         TwoTables(K, B, P, V, nodes, idx, cur, prev, now, before)
  PROVE  FindEither(K, B, P, nodes, prev, now, before)
<1> SUFFICES ASSUME NEW p \in P, NEW n, n = Search(K, nodes, prev[p % B], p), n # -1
             PROVE  \/ p \in DOMAIN now /\ nodes[n].val = now[p]
                    \/ p \in DOMAIN before /\ nodes[n].val = before[p]
  BY DEF FindEither
<1> DEFINE h == prev[p % B]
<1>1. PoolLinked(K, B, P, V, nodes, idx, cur, prev) /\ p % B \in 0 .. B - 1
  BY HashInRange DEF TwoTables
<1>2. h \in Links(K) /\ idx \in 0 .. K /\ Descending(K, nodes)
  BY <1>1, PoolDescends DEF PoolLinked
<1>3. PICK k \in 0 .. K : /\ \A b \in 0 .. B - 1 : prev[b] < k
                          /\ HoldReadings(K, nodes, idx, k, before)
  BY DEF TwoTables
<1>4. h < k
  BY <1>1, <1>3
<1> HIDE DEF h
<1>5. n \in Links(K) /\ n =< h /\ nodes[n].pid = p
  BY <1>2, SearchFinds DEF h
<1>6. n \in 0 .. K - 1 /\ n < k
  BY <1>2, <1>4, <1>5 DEF Links
<1>7. CASE n < idx
  <2>1. 0 =< n
    BY <1>6
  <2> QED BY <1>5, <1>6, <1>7, <2>1 DEF TwoTables, HoldReadings
<1>8. CASE idx =< n
  BY <1>3, <1>5, <1>6, <1>8 DEF HoldReadings
<1> QED BY <1>2, <1>6, <1>7, <1>8

(* What a collection can read: a value for each of some processes. *)
Readings(P, V) == UNION {[Q -> V] : Q \in SUBSET P}

(* The processes and values of a reading. *)
LEMMA ReadingParts ==
  ASSUME NEW P, NEW V, NEW r \in Readings(P, V)
  PROVE  DOMAIN r \in SUBSET P /\ \A q \in DOMAIN r : r[q] \in V
<1>1. PICK Q \in SUBSET P : r \in [Q -> V]
  BY DEF Readings
<1> QED BY <1>1

(* No process, and one process more. *)
LEMMA ReadingGrows ==
  ASSUME NEW P, NEW V
  PROVE  /\ \A r : r = [p \in {} |-> 0] => r \in Readings(P, V) /\ DOMAIN r = {}
         /\ \A r \in Readings(P, V), p \in P, v \in V : ReadToo(r, p, v) \in Readings(P, V)
<1>1. ASSUME NEW r, r = [p \in {} |-> 0] PROVE r \in Readings(P, V) /\ DOMAIN r = {}
  <2>1. r \in [{} -> V] /\ DOMAIN r = {}
    BY <1>1
  <2> QED BY <2>1 DEF Readings
<1>2. ASSUME NEW r \in Readings(P, V), NEW p \in P, NEW v \in V
      PROVE  ReadToo(r, p, v) \in Readings(P, V)
  <2>1. DOMAIN r \in SUBSET P /\ \A q \in DOMAIN r : r[q] \in V
    BY ReadingParts
  <2>2. ReadToo(r, p, v) \in [DOMAIN r \cup {p} -> V] /\ DOMAIN r \cup {p} \in SUBSET P
    BY <2>1 DEF ReadToo
  <2> QED BY <2>2 DEF Readings
<1> QED BY <1>1, <1>2

(* The difference that is computed for a process that was just read: what  *)
(* a lookup in prev yields is this collection's own reading, so that the   *)
(* difference is 0, or the previous one.                                   *)
LEMMA DifferenceIsTrue ==
  ASSUME NEW P, NEW V \in SUBSET Nat,
         NEW now \in Readings(P, V), NEW before \in Readings(P, V),
         NEW p \in DOMAIN now,
         NEW d, \/ d = 0 \/ d = now[p] - now[p]
                \/ p \in DOMAIN before /\ d = now[p] - before[p]
  PROVE  /\ d \in {v - w : v, w \in V} \cup {0}
         /\ d # 0 => p \in DOMAIN before /\ d = now[p] - before[p]
<1>0. \A x \in V : x \in Int
  OBVIOUS
<1>1. now[p] \in V /\ now[p] \in Int
  <2>1. \A q \in DOMAIN now : now[q] \in V
    BY ReadingParts, Zenon
  <2> QED BY <1>0, <2>1
<1>2. p \in DOMAIN before => before[p] \in V /\ before[p] \in Int
  <2>1. \A q \in DOMAIN before : before[q] \in V
    BY ReadingParts, Zenon
  <2> QED BY <1>0, <2>1
<1>3. CASE d = 0
  BY <1>3
<1>4. CASE d = now[p] - now[p]
  <2>1. d = 0
    BY <1>1, <1>4
  <2> QED BY <2>1
<1>5. CASE p \in DOMAIN before /\ d = now[p] - before[p]
  <2>1. d = now[p] - before[p]
    BY <1>5
  <2> QED BY <1>1, <1>2, <1>5, <2>1
<1> QED BY <1>3, <1>4, <1>5

(* A row that says what two collections read of a process, and rows that   *)
(* do, one for each of some processes.                                     *)
TrueRow(c, now, before) ==
  /\ c.pid \in DOMAIN now /\ c.rss = now[c.pid]
  /\ c.delta # 0 => c.pid \in DOMAIN before /\ c.delta = now[c.pid] - before[c.pid]

TrueRows(C, now, before) ==
  /\ \A c \in C : TrueRow(c, now, before)
  /\ \A c, d \in C : c.pid = d.pid => c = d

(* They stay true when another process is read, and its row may be added.  *)
LEMMA RowAdded ==
  ASSUME NEW C, NEW now, NEW before, TrueRows(C, now, before),
         NEW p, p \notin DOMAIN now, NEW v,
         NEW row, row.pid = p, TrueRow(row, ReadToo(now, p, v), before)
  PROVE  /\ TrueRows(C, ReadToo(now, p, v), before)
         /\ TrueRows(C \cup {row}, ReadToo(now, p, v), before)
<1> DEFINE new == ReadToo(now, p, v)
<1>1. \A q \in DOMAIN now : q \in DOMAIN new /\ new[q] = now[q]
  BY DEF ReadToo
<1> HIDE DEF new
<1>2. \A c \in C : TrueRow(c, new, before) /\ c.pid # p
  BY <1>1 DEF TrueRows, TrueRow
<1> QED BY <1>2 DEF TrueRows, new

(* A set with a limited number of elements to which one is added only      *)
(* below the limit.                                                        *)
LEMMA AddedWithin ==
  ASSUME NEW C, IsFiniteSet(C), NEW M \in Nat, Cardinality(C) =< M,
         NEW x, NEW D, D = IF Cardinality(C) < M THEN C \cup {x} ELSE C
  PROVE  IsFiniteSet(D) /\ Cardinality(D) =< M
<1>1. Cardinality(C) \in Nat
  BY FS_CardinalityType
<1>2. IsFiniteSet(C \cup {x}) /\ Cardinality(C \cup {x}) \in Nat
  BY FS_AddElement, FS_CardinalityType
<1>3. \/ Cardinality(C \cup {x}) = Cardinality(C)
      \/ Cardinality(C \cup {x}) = Cardinality(C) + 1
  BY FS_AddElement
<1> QED BY <1>1, <1>2, <1>3

(* The largest n of the elements of a finite set. *)
LEMMA PartWithin ==
  ASSUME NEW S, IsFiniteSet(S), NEW D \in SUBSET S, NEW n \in Nat, NEW T \in SUBSET D,
         Cardinality(T) = Min({n, Cardinality(D)})
  PROVE  T \subseteq S /\ IsFiniteSet(T) /\ Cardinality(T) =< n
<1>1. IsFiniteSet(D) /\ IsFiniteSet(T)
  BY FS_Subset
<1>2. Cardinality(D) \in Nat
  BY <1>1, FS_CardinalityType
<1> QED BY <1>1, <1>2, MinOfTwo

(* The rows of a collection's processes: they are true, and at most M.     *)
ChangeRow(P, V) == [pid : P, rss : V, delta : {v - w : v, w \in V} \cup {0}]

ChangeRows(P, V, M, C, now, before) ==
  /\ C \subseteq ChangeRow(P, V) /\ IsFiniteSet(C) /\ Cardinality(C) =< M
  /\ TrueRows(C, now, before)

(* A process is read: its row, with the difference to what prev yields, is *)
(* added if there is room.                                                 *)
LEMMA RowRead ==
  ASSUME NEW P, NEW V \in SUBSET Nat, NEW M \in Nat,
         NEW now \in Readings(P, V), NEW before \in Readings(P, V),
         NEW C, ChangeRows(P, V, M, C, now, before),
         NEW p \in P, NEW v \in V, p \notin DOMAIN now,
         NEW new, new = ReadToo(now, p, v),
         NEW d, \/ d = 0 \/ d = new[p] - new[p]
                \/ p \in DOMAIN before /\ d = new[p] - before[p],
         NEW row, row = [pid |-> p, rss |-> v, delta |-> d],
         NEW D, D = IF Cardinality(C) < M THEN C \cup {row} ELSE C
  PROVE  ChangeRows(P, V, M, D, new, before)
<1>1. new \in Readings(P, V) /\ p \in DOMAIN new /\ new[p] = v
  <2>1. new \in Readings(P, V)
    BY ReadingGrows
  <2> QED BY <2>1 DEF ReadToo
<1>2. /\ d \in {x - w : x, w \in V} \cup {0}
      /\ d # 0 => p \in DOMAIN before /\ d = new[p] - before[p]
  BY <1>1, DifferenceIsTrue
<1>3. row.pid = p /\ row.rss = v /\ row.delta = d
  OBVIOUS
<1>4. TrueRow(row, new, before)
  BY <1>1, <1>2, <1>3 DEF TrueRow
<1>5. TrueRows(C, now, before)
  BY DEF ChangeRows
<1>6. TrueRows(C, new, before) /\ TrueRows(C \cup {row}, new, before)
  BY <1>3, <1>4, <1>5, RowAdded
<1>7. row \in ChangeRow(P, V)
  BY <1>2 DEF ChangeRow
<1>8. IsFiniteSet(D) /\ Cardinality(D) =< M
  <2>1. IsFiniteSet(C) /\ Cardinality(C) =< M
    BY DEF ChangeRows
  <2> QED BY <2>1, AddedWithin
<1>9. D \subseteq ChangeRow(P, V) /\ TrueRows(D, new, before)
  BY <1>6, <1>7 DEF ChangeRows
<1> QED BY <1>8, <1>9 DEF ChangeRows

(* A list that takes n of the rows at most. *)
LEMMA RowsTaken ==
  ASSUME NEW P, NEW V, NEW M, NEW C, NEW now, NEW before,
         ChangeRows(P, V, M, C, now, before),
         NEW D \in SUBSET C, NEW n \in Nat, NEW T \in SUBSET D,
         Cardinality(T) = Min({n, Cardinality(D)})
  PROVE  T \subseteq C /\ T \subseteq ChangeRow(P, V) /\ IsFiniteSet(T) /\ Cardinality(T) =< n
<1>1. IsFiniteSet(C) /\ C \subseteq ChangeRow(P, V)
  BY DEF ChangeRows
<1>2. T \subseteq C /\ IsFiniteSet(T) /\ Cardinality(T) =< n
  BY <1>1, PartWithin
<1> QED BY <1>1, <1>2

(* No row yet. *)
LEMMA NoRows ==
  ASSUME NEW P, NEW V, NEW M \in Nat, NEW now, NEW before
  PROVE  ChangeRows(P, V, M, {}, now, before) /\ TrueRows({}, now, before)
BY FS_EmptySet DEF ChangeRows, TrueRows

-----------------------------------------------------------------------------
(* seqs one after the other, up to each of them. *)
IsFlat(g, seqs, n) ==
  g = [i \in 1 .. n |-> IF i = 1 THEN seqs[i] ELSE g[i - 1] \o seqs[i]]

(* There is such a function. *)
LEMMA FlatExists ==
  ASSUME NEW seqs, NEW n \in Nat
  PROVE  \E g : IsFlat(g, seqs, n)
<1> DEFINE B == {k \in Nat : ~ \E g : IsFlat(g, seqs, k)}
<1> SUFFICES ASSUME B # {} PROVE FALSE
  OBVIOUS
<1>1. PICK k \in B : \A x \in B : k =< x
  <2> HIDE DEF B
  <2>1. B \in SUBSET Nat
    BY DEF B
  <2> QED BY <2>1, NatMinimum
<1>2. k \in Nat /\ ~ \E g : IsFlat(g, seqs, k)
  OBVIOUS
<1>3. CASE k = 0
  <2> DEFINE g == [i \in 1 .. k |-> seqs[i]]
  <2>1. 1 .. k = {}
    BY <1>3
  <2>2. IsFlat(g, seqs, k)
    BY <2>1 DEF IsFlat
  <2> QED BY <1>2, <2>2
<1>4. CASE k # 0
  <2>1. k - 1 \in Nat /\ k - 1 \notin B
    <3> HIDE DEF B
    <3> QED BY <1>1, <1>2, <1>4
  <2>2. PICK g : IsFlat(g, seqs, k - 1)
    BY <2>1
  <2> DEFINE F(f, i) == IF i = 1 THEN seqs[i] ELSE f[i - 1] \o seqs[i]
             h == [i \in 1 .. k |-> F(g, i)]
  <2>3. \A i \in 1 .. k - 1 : g[i] = F(g, i)
    BY <2>2 DEF IsFlat
  <2>4. \A i \in 1 .. k - 1 : h[i] = g[i]
    BY <1>2, <2>3
  <2>5. \A i \in 1 .. k : i # 1 => i - 1 \in 1 .. k - 1
    BY <1>2
  <2> HIDE DEF h
  <2>6. \A i \in 1 .. k : F(g, i) = F(h, i)
    BY <2>4, <2>5
  <2>7. h = [i \in 1 .. k |-> F(h, i)]
    BY <2>6 DEF h
  <2>8. IsFlat(h, seqs, k)
    BY <2>7 DEF IsFlat
  <2> QED BY <1>2, <2>8
<1> QED BY <1>3, <1>4

(* Where the second of two parts lies, *)
LEMMA InSecond ==
  ASSUME NEW x \in Nat, NEW y \in Nat, NEW m \in 1 .. y
  PROVE  x + m \in 1 .. x + y
OBVIOUS

(* and the first. *)
LEMMA InFirst ==
  ASSUME NEW x \in Nat, NEW y \in Nat, NEW q \in 1 .. x
  PROVE  q \in 1 .. x + y
OBVIOUS

(* The elements of two sequences, one after the other. *)
LEMMA Joined ==
  ASSUME NEW T, NEW s \in Seq(T), NEW t \in Seq(T)
  PROVE  /\ s \o t \in Seq(T)
         /\ Len(s \o t) = Len(s) + Len(t)
         /\ \A q \in 1 .. Len(s) : (s \o t)[q] = s[q]
         /\ \A m \in 1 .. Len(t) : (s \o t)[Len(s) + m] = t[m]
<1>1. s \o t \in Seq(T) /\ Len(s \o t) = Len(s) + Len(t)
  OBVIOUS
<1>2. ASSUME NEW q \in 1 .. Len(s) PROVE (s \o t)[q] = s[q]
  OBVIOUS
<1>3. ASSUME NEW m \in 1 .. Len(t) PROVE (s \o t)[Len(s) + m] = t[m]
  OBVIOUS
<1> QED BY <1>1, <1>2, <1>3

(* Where the parts of flat end: part i is behind b[i - 1], up to b[i]. *)
Blocks(b, seqs, flat) ==
  /\ \A i \in 0 .. Len(seqs) : b[i] \in Nat
  /\ b[0] = 0 /\ b[Len(seqs)] = Len(flat)
  /\ \A i \in 1 .. Len(seqs) : b[i] = b[i - 1] + Len(seqs[i])
  /\ \A i \in 1 .. Len(seqs) : \A m \in 1 .. Len(seqs[i]) : flat[b[i - 1] + m] = seqs[i][m]

(* The ends ascend. *)
LEMMA BlocksAscend ==
  ASSUME NEW n \in Nat, NEW b, \A i \in 0 .. n : b[i] \in Nat,
         \A i \in 1 .. n : b[i - 1] =< b[i], NEW i \in 0 .. n, NEW k \in i .. n
  PROVE  b[i] =< b[k]
<1> DEFINE B == {x \in i .. n : b[i] > b[x]}
<1> SUFFICES ASSUME B # {} PROVE FALSE
  OBVIOUS
<1>1. PICK x \in B : \A y \in B : x =< y
  <2> HIDE DEF B
  <2>1. B \in SUBSET Nat
    BY DEF B
  <2> QED BY <2>1, NatMinimum
<1>2. x \in i .. n /\ b[i] > b[x]
  OBVIOUS
<1>3. x # i
  BY <1>2
<1>4. x - 1 \in i .. n /\ x \in 1 .. n /\ x - 1 \in 0 .. n /\ x \in 0 .. n
  BY <1>2, <1>3
<1>5. x - 1 \notin B
  <2> HIDE DEF B
  <2> QED BY <1>1, <1>4
<1>6. b[i] =< b[x - 1] /\ b[x - 1] =< b[x]
  BY <1>4, <1>5
<1>7. b[i] \in Nat /\ b[x - 1] \in Nat /\ b[x] \in Nat
  BY <1>4
<1> QED BY <1>2, <1>6, <1>7

(* seqs and flat are sequences of elements of T, flat the parts of seqs.   *)
Flat(T, seqs, flat, b) ==
  /\ seqs \in Seq(Seq(T)) /\ flat \in Seq(T)
  /\ Blocks(b, seqs, flat)

(* The borders of the parts are natural numbers. *)
LEMMA FlatNumbers ==
  ASSUME NEW T, NEW seqs, NEW flat, NEW b, Flat(T, seqs, flat, b)
  PROVE  /\ Len(seqs) \in Nat /\ Len(flat) \in Nat
         /\ \A i \in 1 .. Len(seqs) : seqs[i] \in Seq(T) /\ Len(seqs[i]) \in Nat
         /\ \A i \in 1 .. Len(seqs) : b[i - 1] =< b[i]
         /\ \A i \in 1 .. Len(seqs) : b[i - 1] \in Nat /\ b[i] \in Nat
<1>1. Len(seqs) \in Nat /\ Len(flat) \in Nat
  BY DEF Flat
<1>2. \A i \in 1 .. Len(seqs) : seqs[i] \in Seq(T) /\ Len(seqs[i]) \in Nat
  BY DEF Flat
<1>3. ASSUME NEW i \in 1 .. Len(seqs)
      PROVE  b[i - 1] \in Nat /\ b[i] \in Nat /\ b[i - 1] =< b[i]
  <2>1. i \in 0 .. Len(seqs) /\ i - 1 \in 0 .. Len(seqs)
    BY <1>1
  <2>2. b[i - 1] \in Nat /\ b[i] \in Nat
    BY <2>1 DEF Flat, Blocks
  <2>3. b[i] = b[i - 1] + Len(seqs[i])
    BY DEF Flat, Blocks
  <2> QED BY <1>2, <2>2, <2>3
<1> QED BY <1>1, <1>2, <1>3

(* Position p of flat is position m of part i. *)
InPart(b, seqs, flat, p, i, m) ==
  /\ i \in 1 .. Len(seqs) /\ m \in 1 .. Len(seqs[i])
  /\ p = b[i - 1] + m /\ flat[p] = seqs[i][m]

(* Every position is in one of the parts. *)
LEMMA BlockOf ==
  ASSUME NEW T, NEW seqs, NEW flat, NEW b, Flat(T, seqs, flat, b), NEW p \in 1 .. Len(flat)
  PROVE  \E i, m : InPart(b, seqs, flat, p, i, m)
<1> DEFINE n == Len(seqs)
           B == {i \in 1 .. n : p =< b[i]}
<1>1. /\ n \in Nat /\ Len(flat) \in Nat
      /\ \A i \in 1 .. n : Len(seqs[i]) \in Nat /\ b[i - 1] \in Nat /\ b[i] \in Nat
  BY FlatNumbers
<1>2. /\ b[0] = 0 /\ b[n] = Len(flat)
      /\ \A i \in 1 .. n : b[i] = b[i - 1] + Len(seqs[i])
      /\ \A i \in 1 .. n : \A m \in 1 .. Len(seqs[i]) : flat[b[i - 1] + m] = seqs[i][m]
  BY DEF Flat, Blocks
<1> HIDE DEF n
<1>3. n # 0
  BY <1>1, <1>2
<1>4. n \in B
  BY <1>1, <1>2, <1>3
<1>5. PICK i \in B : \A x \in B : i =< x
  <2> HIDE DEF B
  <2>1. B \in SUBSET Nat
    BY <1>1 DEF B
  <2> QED BY <1>4, <2>1, NatMinimum
<1>6. i \in 1 .. n /\ p =< b[i]
  OBVIOUS
<1>7. b[i - 1] < p
  <2>1. CASE i = 1
    BY <1>2, <2>1
  <2>2. CASE i # 1
    <3>1. i - 1 \in 1 .. n
      BY <1>1, <1>6, <2>2
    <3>2. i - 1 \notin B
      <4> HIDE DEF B
      <4> QED BY <1>5, <1>6
    <3> QED BY <1>1, <3>1, <3>2
  <2> QED BY <2>1, <2>2
<1>8. PICK x \in Nat : x = b[i - 1]
  BY <1>1, <1>6
<1>9. PICK y \in Nat : y = Len(seqs[i])
  BY <1>1, <1>6
<1>10. p - x \in 1 .. y /\ p = x + (p - x)
  <2>1. p =< x + y /\ x < p
    BY <1>2, <1>6, <1>7, <1>8, <1>9
  <2>2. p \in Nat
    BY <1>1
  <2> QED BY <2>1, <2>2
<1>11. InPart(b, seqs, flat, p, i, p - x)
  BY <1>2, <1>6, <1>8, <1>9, <1>10 DEF n, InPart
<1> QED BY <1>11

(* Of two positions, the earlier is in the earlier part or in the same. *)
LEMMA BlockOrder ==
  ASSUME NEW T, NEW seqs, NEW flat, NEW b, Flat(T, seqs, flat, b),
         NEW p, NEW i, NEW m, InPart(b, seqs, flat, p, i, m),
         NEW q, NEW k, NEW l, InPart(b, seqs, flat, q, k, l), p =< q
  PROVE  i =< k
<1>0. /\ i \in 1 .. Len(seqs) /\ m \in 1 .. Len(seqs[i])
      /\ k \in 1 .. Len(seqs) /\ l \in 1 .. Len(seqs[k])
      /\ b[i - 1] + m =< b[k - 1] + l
  BY DEF InPart
<1> SUFFICES ASSUME k < i PROVE FALSE
  BY <1>0, FlatNumbers
<1> DEFINE n == Len(seqs)
<1>1. n \in Nat /\ \A x \in 1 .. n : b[x - 1] =< b[x]
  BY FlatNumbers
<1>2. /\ \A x \in 0 .. n : b[x] \in Nat
      /\ b[k] = b[k - 1] + Len(seqs[k])
  BY <1>0 DEF Flat, Blocks
<1>3. i - 1 \in k .. n /\ k \in 0 .. n
  BY <1>0, <1>1
<1>4. b[k] =< b[i - 1]
  <2> HIDE DEF n
  <2> QED BY <1>1, <1>2, <1>3, BlocksAscend
<1>5. b[k] \in Nat /\ b[k - 1] \in Nat /\ b[i - 1] \in Nat /\ Len(seqs[k]) \in Nat
      /\ Len(seqs[i]) \in Nat
  BY <1>0, FlatNumbers
<1>6. m \in Nat /\ m >= 1 /\ l \in Nat /\ l =< Len(seqs[k])
  BY <1>0, <1>5
<1>7. PICK x \in Nat, y \in Nat, z \in Nat : x = b[k - 1] /\ y = b[i - 1] /\ z = Len(seqs[k])
  BY <1>5
<1>8. y + m =< x + l /\ x + z =< y
  BY <1>0, <1>2, <1>4, <1>7
<1>9. m \in Nat /\ m >= 1 /\ l \in Nat /\ l =< z
  BY <1>6, <1>7
<1>10. ~ (y + m =< x + l /\ x + z =< y)
  BY <1>9
<1> QED BY <1>8, <1>10

(* A position of a part. *)
LEMMA BlockAt ==
  ASSUME NEW T, NEW seqs, NEW flat, NEW b, Flat(T, seqs, flat, b),
         NEW i \in 1 .. Len(seqs), NEW m \in 1 .. Len(seqs[i])
  PROVE  \E p \in 1 .. Len(flat) : InPart(b, seqs, flat, p, i, m)
<1> DEFINE n == Len(seqs)
<1>1. n \in Nat /\ \A x \in 1 .. n : b[x - 1] =< b[x]
  BY FlatNumbers
<1>2. /\ \A x \in 0 .. n : b[x] \in Nat
      /\ b[i] = b[i - 1] + Len(seqs[i]) /\ b[n] = Len(flat)
      /\ flat[b[i - 1] + m] = seqs[i][m]
  BY DEF Flat, Blocks
<1>3. n \in i .. n /\ i \in 0 .. n
  BY <1>1
<1>4. b[i] =< b[n]
  <2> HIDE DEF n
  <2> QED BY <1>1, <1>2, <1>3, BlocksAscend
<1>5. b[i] \in Nat /\ b[i - 1] \in Nat /\ Len(seqs[i]) \in Nat /\ b[n] \in Nat
  BY <1>2, <1>3, FlatNumbers
<1>6. b[i - 1] + m \in 1 .. b[n]
  <2> HIDE DEF n
  <2>1. PICK x \in Nat, y \in Nat, z \in Nat : x = b[i - 1] /\ y = b[n] /\ z = Len(seqs[i])
    BY <1>5
  <2>2. x + z =< y /\ m \in 1 .. z
    BY <1>2, <1>4, <2>1
  <2>3. x + m \in 1 .. y
    BY <2>2
  <2> QED BY <2>1, <2>3
<1> QED BY <1>2, <1>6 DEF InPart

(* How many elements of S are below i. *)
Below(S, i) == {l \in S : l < i}

(* Few numbers of a set are below a number. *)
LEMMA BelowFinite ==
  ASSUME NEW I \in SUBSET Nat, NEW x \in Nat
  PROVE  IsFiniteSet(Below(I, x)) /\ Cardinality(Below(I, x)) \in Nat
<1>1. Below(I, x) \subseteq 0 .. x
  <2> SUFFICES ASSUME NEW y \in I, y < x PROVE y \in 0 .. x
    BY DEF Below
  <2> QED OBVIOUS
<1>2. IsFiniteSet(0 .. x)
  BY FS_Interval
<1> QED BY <1>1, <1>2, FS_Subset, FS_CardinalityType

(* More are below a greater element. *)
LEMMA BelowGrows ==
  ASSUME NEW S \in SUBSET Nat, NEW i \in S, NEW x \in S, i < x
  PROVE  /\ Cardinality(Below(S, i)) \in Nat /\ Cardinality(Below(S, x)) \in Nat
         /\ Cardinality(Below(S, i)) < Cardinality(Below(S, x))
<1>1. Below(S, x) \subseteq S /\ Below(S, i) \subseteq Below(S, x) /\ i \in Below(S, x)
      /\ i \notin Below(S, i)
  <2>1. Below(S, x) \subseteq S /\ i \in Below(S, x) /\ i \notin Below(S, i)
    BY DEF Below
  <2>2. ASSUME NEW l \in Below(S, i) PROVE l \in Below(S, x)
    <3>1. l \in S /\ l < i /\ l \in Nat /\ i \in Nat /\ x \in Nat
      BY DEF Below
    <3>2. l < x
      BY <3>1
    <3> QED BY <3>1, <3>2 DEF Below
  <2> QED BY <2>1, <2>2
<1>2. IsFiniteSet(Below(S, x))
  BY BelowFinite
<1>3. IsFiniteSet(Below(S, i)) /\ Cardinality(Below(S, i)) =< Cardinality(Below(S, x))
      /\ (Cardinality(Below(S, i)) = Cardinality(Below(S, x)) => Below(S, i) = Below(S, x))
  BY <1>1, <1>2, FS_Subset
<1>4. Below(S, i) # Below(S, x)
  BY <1>1
<1>5. Cardinality(Below(S, i)) \in Nat /\ Cardinality(Below(S, x)) \in Nat
  BY <1>2, <1>3, FS_CardinalityType
<1> QED BY <1>3, <1>4, <1>5

(* So an element is known by how many are below it. *)
LEMMA BelowTells ==
  ASSUME NEW S \in SUBSET Nat, NEW i \in S, NEW x \in S,
         Cardinality(Below(S, i)) = Cardinality(Below(S, x))
  PROVE  i = x
<1>1. CASE i < x
  BY <1>1, BelowGrows
<1>2. CASE x < i
  BY <1>2, BelowGrows
<1> QED BY <1>1, <1>2

(* For every k up to the size of S an element has k - 1 others below it. *)
LEMMA BelowAll ==
  ASSUME NEW S \in SUBSET Nat, IsFiniteSet(S)
  PROVE  /\ Cardinality(S) \in Nat
         /\ \A k \in 1 .. Cardinality(S) : \E i \in S : Cardinality(Below(S, i)) = k - 1
<1> DEFINE n == Cardinality(S)
           f == [i \in S |-> Cardinality(Below(S, i)) + 1]
<1>1. n \in Nat
  BY FS_CardinalityType
<1>2. ASSUME NEW i \in S PROVE Cardinality(Below(S, i)) \in Nat /\ Cardinality(Below(S, i)) < n
  <2>1. Below(S, i) \subseteq S /\ i \notin Below(S, i)
    BY DEF Below
  <2>2. IsFiniteSet(Below(S, i)) /\ Cardinality(Below(S, i)) =< n
        /\ (Cardinality(Below(S, i)) = n => Below(S, i) = S)
    BY <2>1, FS_Subset
  <2>3. Cardinality(Below(S, i)) \in Nat
    BY <2>2, FS_CardinalityType
  <2> QED BY <1>1, <2>1, <2>2, <2>3
<1>3. f \in [S -> 1 .. n] /\ \A i \in S : f[i] = Cardinality(Below(S, i)) + 1
  BY <1>1, <1>2
<1> HIDE DEF f, n
<1>4. \A i, x \in S : f[i] = f[x] => i = x
  <2>1. ASSUME NEW i \in S, NEW x \in S, f[i] = f[x]
        PROVE  Cardinality(Below(S, i)) = Cardinality(Below(S, x))
    BY <1>2, <1>3, <2>1
  <2> QED BY <2>1, BelowTells
<1>5. f \in Injection(S, 1 .. n)
  BY <1>3, <1>4 DEF Injection, IsInjective
<1>6. IsFiniteSet(1 .. n) /\ Cardinality(1 .. n) = n
  <2>1. 0 + 1 \in Int /\ n \in Int
    BY <1>1
  <2> QED BY <1>1, FS_Interval
<1>7. f \in Surjection(S, 1 .. n)
  <2>1. Cardinality(S) = Cardinality(1 .. n)
    BY <1>6 DEF n
  <2> QED BY <1>5, <1>6, <2>1, FS_Injection
<1>8. ASSUME NEW k \in 1 .. n PROVE \E i \in S : Cardinality(Below(S, i)) = k - 1
  <2>1. PICK i \in S : f[i] = k
    BY <1>7 DEF Surjection
  <2> QED BY <1>2, <1>3, <2>1
<1> QED BY <1>1, <1>8 DEF n

(* A sequence with one more element in front. *)
LEMMA Headed ==
  ASSUME NEW T, NEW h \in T, NEW F \in Seq(T)
  PROVE  /\ <<h>> \o F \in Seq(T) /\ Len(<<h>> \o F) = Len(F) + 1 /\ Len(F) \in Nat
         /\ (<<h>> \o F)[1] = h
         /\ \A p \in 2 .. Len(F) + 1 : p - 1 \in 1 .. Len(F) /\ (<<h>> \o F)[p] = F[p - 1]
<1>1. <<h>> \in Seq(T) /\ Len(<<h>>) = 1 /\ <<h>>[1] = h /\ Len(F) \in Nat
  OBVIOUS
<1>2. PICK s \in Seq(T) : s = <<h>>
  BY <1>1
<1>3. /\ s \o F \in Seq(T)
      /\ Len(s \o F) = Len(s) + Len(F)
      /\ \A q \in 1 .. Len(s) : (s \o F)[q] = s[q]
      /\ \A m \in 1 .. Len(F) : (s \o F)[Len(s) + m] = F[m]
  BY Joined
<1>4. Len(s) = 1 /\ s[1] = h
  BY <1>1, <1>2
<1>5. (s \o F)[1] = h /\ Len(s \o F) = Len(F) + 1
  BY <1>1, <1>3, <1>4
<1>6. ASSUME NEW p \in 2 .. Len(F) + 1 PROVE p - 1 \in 1 .. Len(F) /\ (s \o F)[p] = F[p - 1]
  <2>1. p - 1 \in 1 .. Len(F) /\ 1 + (p - 1) = p
    BY <1>1
  <2> QED BY <1>3, <1>4, <2>1
<1> QED BY <1>1, <1>2, <1>3, <1>5, <1>6
=============================================================================
