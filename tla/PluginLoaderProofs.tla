------------------------- MODULE PluginLoaderProofs -------------------------
(***************************************************************************)
(* Libraries, slots and registrations stay in step through every load,     *)
(* reload and unload, and daemon_shutdown destroys whatever was            *)
(* initialised: proved for every set of files, libraries and plugin names, *)
(* every table size and every use of the plugin directory.  For an orderly *)
(* use of it, hot reload ends with the directory's plugins loaded.         *)
(***************************************************************************)
EXTENDS PluginLoader, Lemmas

(* svc_manager_unregister takes exactly one entry out of the table and     *)
(* moves the ones behind it down.                                          *)
LEMMA RemoveAtFacts ==
  ASSUME NEW S, NEW s \in Seq(S), NEW j \in 1 .. Len(s)
  PROVE  /\ RemoveAt(s, j) \in Seq(S) /\ Len(RemoveAt(s, j)) = Len(s) - 1
         /\ \A k \in 1 .. Len(s) - 1 :
              RemoveAt(s, j)[k] = IF k < j THEN s[k] ELSE s[k + 1]
<1> DEFINE a == SubSeq(s, 1, j - 1)
           b == SubSeq(s, j + 1, Len(s))
<1>1. Len(s) \in Nat /\ j \in Nat /\ 1 =< j /\ j =< Len(s)
  OBVIOUS
<1>2. a \in Seq(S) /\ Len(a) = j - 1 /\ \A k \in 1 .. j - 1 : a[k] = s[k]
  BY <1>1
<1>3. b \in Seq(S) /\ Len(b) = Len(s) - j /\ \A k \in 1 .. Len(s) - j : b[k] = s[j + k]
  BY <1>1
<1>4. RemoveAt(s, j) = a \o b
  BY DEF RemoveAt
<1> HIDE DEF a, b
<1>5. a \o b \in Seq(S) /\ Len(a \o b) = Len(s) - 1
  <2>1. a \o b \in Seq(S) /\ Len(a \o b) = Len(a) + Len(b)
    <3>1. a \in Seq(S) /\ b \in Seq(S)
      BY <1>2, <1>3
    <3> QED BY <3>1
  <2>2. Len(a) + Len(b) = Len(s) - 1
    BY <1>1, <1>2, <1>3
  <2> QED BY <2>1, <2>2
<1>6. ASSUME NEW k \in 1 .. Len(s) - 1
      PROVE  (a \o b)[k] = IF k < j THEN s[k] ELSE s[k + 1]
  <2>1. CASE k < j
    BY <1>1, <1>2, <1>3, <2>1
  <2>2. CASE ~(k < j)
    <3>1. (a \o b)[k] = b[k - (j - 1)]
      BY <1>1, <1>2, <1>3, <2>2
    <3>2. k - (j - 1) \in 1 .. Len(s) - j /\ j + (k - (j - 1)) = k + 1
      BY <1>1, <2>2
    <3>3. b[k - (j - 1)] = s[j + (k - (j - 1))]
      BY <1>3, <3>2
    <3> QED BY <2>2, <3>1, <3>2, <3>3
  <2> QED BY <2>1, <2>2
<1> QED BY <1>4, <1>5, <1>6

(* One place less holds the entry taken out; no other entry is lost. *)
LEMMA PlacesRemoveAt ==
  ASSUME NEW S, NEW s \in Seq(S), NEW j \in 1 .. Len(s), NEW x
  PROVE  Cardinality(Places(RemoveAt(s, j), x)) =
           Cardinality(Places(s, x)) - (IF x = s[j] THEN 1 ELSE 0)
<1> DEFINE t == RemoveAt(s, j)
           P == Places(s, x) \ {j}
           T == Places(t, x)
           f == [k \in P |-> IF k < j THEN k ELSE k - 1]
<1>1. /\ Len(s) \in Nat /\ j \in Nat /\ 1 =< j /\ j =< Len(s)
      /\ Len(t) = Len(s) - 1
      /\ \A k \in 1 .. Len(s) - 1 : t[k] = IF k < j THEN s[k] ELSE s[k + 1]
  <2>1. Len(s) \in Nat /\ j \in Nat /\ 1 =< j /\ j =< Len(s)
    OBVIOUS
  <2> QED BY <2>1, RemoveAtFacts
<1>2. IsFiniteSet(Places(s, x)) /\ Cardinality(Places(s, x)) \in Nat
  BY PlacesFinite
<1>3. IsFiniteSet(P) /\ Cardinality(P) = Cardinality(Places(s, x))
                                         - (IF x = s[j] THEN 1 ELSE 0)
  <2>1. j \in Places(s, x) <=> x = s[j]
    BY DEF Places
  <2> QED BY <1>2, <2>1, FS_RemoveElement
<1> HIDE DEF t
<1>4. \A k \in P : k \in 1 .. Len(s) /\ k # j /\ s[k] = x
  BY DEF Places
<1>5. f \in [P -> T]
  <2> SUFFICES ASSUME NEW k \in P PROVE f[k] \in T
    OBVIOUS
  <2>1. k \in 1 .. Len(s) /\ k # j /\ s[k] = x
    BY <1>4
  <2>2. CASE k < j
    <3>1. f[k] = k /\ k \in 1 .. Len(t) /\ t[k] = s[k]
      BY <1>1, <2>1, <2>2
    <3> QED BY <2>1, <3>1 DEF Places
  <2>3. CASE ~(k < j)
    <3>1. f[k] = k - 1 /\ k - 1 \in 1 .. Len(t) /\ ~(k - 1 < j) /\ (k - 1) + 1 = k
      BY <1>1, <2>1, <2>3
    <3>2. t[k - 1] = s[(k - 1) + 1]
      BY <1>1, <3>1
    <3> QED BY <2>1, <3>1, <3>2 DEF Places
  <2> QED BY <2>2, <2>3
<1>6. \A k, m \in P : f[k] = f[m] => k = m
  <2> SUFFICES ASSUME NEW k \in P, NEW m \in P, f[k] = f[m] PROVE k = m
    OBVIOUS
  <2>1. k \in Int /\ m \in Int /\ j \in Int /\ k # j /\ m # j
    BY <1>4
  <2>2. /\ f[k] = IF k < j THEN k ELSE k - 1
        /\ f[m] = IF m < j THEN m ELSE m - 1
    OBVIOUS
  <2> HIDE DEF f, P
  <2>3. CASE k < j /\ m < j
    BY <2>2, <2>3
  <2>4. CASE k < j /\ ~(m < j)
    <3>1. k = m - 1
      BY <2>2, <2>4
    <3> QED BY <2>1, <2>4, <3>1
  <2>5. CASE ~(k < j) /\ m < j
    <3>1. m = k - 1
      BY <2>2, <2>5
    <3> QED BY <2>1, <2>5, <3>1
  <2>6. CASE ~(k < j) /\ ~(m < j)
    <3>1. k - 1 = m - 1
      BY <2>2, <2>6
    <3> QED BY <2>1, <3>1
  <2> QED BY <2>3, <2>4, <2>5, <2>6
<1>7. \A n \in T : \E k \in P : f[k] = n
  <2> SUFFICES ASSUME NEW n \in T PROVE \E k \in P : f[k] = n
    OBVIOUS
  <2>1. n \in 1 .. Len(s) - 1 /\ t[n] = x
    BY <1>1 DEF Places
  <2>2. CASE n < j
    <3>1. n \in 1 .. Len(s) /\ s[n] = x /\ n # j
      BY <1>1, <2>1, <2>2
    <3>2. n \in P
      BY <3>1 DEF Places
    <3> QED BY <2>2, <3>2
  <2>3. CASE ~(n < j)
    <3>1. n + 1 \in 1 .. Len(s) /\ s[n + 1] = x /\ n + 1 # j /\ ~(n + 1 < j)
          /\ (n + 1) - 1 = n
      BY <1>1, <2>1, <2>3
    <3>2. n + 1 \in P
      BY <3>1 DEF Places
    <3>3. f[n + 1] = n
      BY <3>1, <3>2
    <3> QED BY <3>2, <3>3
  <2> QED BY <2>2, <2>3
<1>8. ExistsBijection(P, T)
  <2> HIDE DEF f, P, T
  <2>1. DOMAIN f = P
    BY <1>5
  <2>2. f \in Bijection(P, T)
    BY <1>5, <1>6, <1>7, <2>1 DEF Bijection, Injection, Surjection, IsInjective
  <2> QED BY <2>2 DEF ExistsBijection
<1>9. Cardinality(T) = Cardinality(P)
  <2> HIDE DEF P, T
  <2> QED BY <1>3, <1>8, FS_Bijection
<1> QED BY <1>3, <1>9 DEF t

-----------------------------------------------------------------------------
(* The loaded slots that hold an image. *)
Held(slots, i) == {k \in 1 .. Len(slots) : slots[k].loaded /\ slots[k].image = i}

(* The loaded slots of an image are finitely many. *)
LEMMA HeldFinite ==
  ASSUME NEW slots \in Seq(Slot), NEW i
  PROVE  IsFiniteSet(Held(slots, i)) /\ Cardinality(Held(slots, i)) \in Nat
<1>1. IsFiniteSet(1 .. Len(slots))
  BY FS_Interval
<1>2. IsFiniteSet(Held(slots, i))
  BY <1>1, FS_Subset DEF Held
<1> QED BY <1>2, FS_CardinalityType

(* A lookup yields a slot or 0. *)
LEMMA FindInRange ==
  ASSUME NEW s, s.slots \in Seq(Slot), NEW x
  PROVE  /\ FindByPath(s, x) \in 0 .. Len(s.slots)
         /\ FindByName(s, x) \in 0 .. Len(s.slots)
<1>1. Len(s.slots) \in Nat
  BY ElementIn
<1>2. ASSUME NEW I \in SUBSET (1 .. Len(s.slots))
      PROVE  (IF I # {} THEN Min(I) ELSE 0) \in 0 .. Len(s.slots)
  <2>1. I \in SUBSET Nat
    BY <1>1
  <2>2. I # {} => Min(I) \in I
    BY <2>1, MinIsLeast
  <2>3. CASE I # {}
    <3>1. Min(I) \in 1 .. Len(s.slots)
      BY <2>2, <2>3
    <3> QED BY <1>1, <2>3, <3>1
  <2>4. CASE I = {}
    BY <1>1, <2>4
  <2> QED BY <2>3, <2>4
<1> DEFINE P == {k \in 1 .. Len(s.slots) : s.slots[k].path = x}
           N == {k \in 1 .. Len(s.slots) : s.slots[k].name = x}
<1>3. FindByPath(s, x) = IF P # {} THEN Min(P) ELSE 0
  BY DEF FindByPath, SelectInSeq
<1>4. FindByName(s, x) = IF N # {} THEN Min(N) ELSE 0
  BY DEF FindByName, SelectInSeq
<1>5. P \in SUBSET (1 .. Len(s.slots)) /\ N \in SUBSET (1 .. Len(s.slots))
  OBVIOUS
<1> HIDE DEF P, N
<1> QED BY <1>2, <1>3, <1>4, <1>5

(* The state of the loader, and what balances it: slots, open handles,     *)
(* table entries and successful initialisations agree for every image.     *)
Table == Seq(Images)
Slots == Seq(Slot)
Loader == [slots : Slots, refs : [Images -> Int],
           svc : [table : Table, live : [Images -> Int]]]

Even(s, i) ==
  /\ s.refs[i] = Cardinality(Held(s.slots, i))
  /\ s.svc.live[i] = Cardinality(Held(s.slots, i))
  /\ Cardinality(Places(s.svc.table, i)) = Cardinality(Held(s.slots, i))

Balanced(s) == s \in Loader /\ \A i \in Images : Even(s, i)

(* Nothing is loaded at first. *)
LEMMA InitBalanced ==
  Balanced([slots |-> << >>, refs |-> [i \in Images |-> 0], svc |-> SvcInit])
<1> DEFINE s == [slots |-> << >>, refs |-> [i \in Images |-> 0], svc |-> SvcInit]
<1>1. << >> \in Slots /\ << >> \in Table
  BY DEF Slots, Table
<1>2. s \in Loader
  BY <1>1, LoaderAssumption DEF Loader, SvcInit
<1>3. ASSUME NEW i \in Images PROVE Even(s, i)
  <2>1. /\ s.refs[i] = 0 /\ s.svc.live[i] = 0 /\ s.slots = << >> /\ s.svc.table = << >>
    BY LoaderAssumption DEF SvcInit
  <2>2. Held(s.slots, i) = {} /\ Places(s.svc.table, i) = {}
    BY <2>1 DEF Held, Places
  <2> QED BY <2>1, <2>2, FS_EmptySet DEF Even
<1> QED BY <1>2, <1>3 DEF Balanced

(* A slot that was not loaded takes a library. *)
LEMMA StoreHeld ==
  ASSUME NEW s, s.slots \in Slots, NEW k \in 0 .. Len(s.slots), ~IsLoaded(s, k),
         NEW x \in Slot, x.loaded
  PROVE  /\ StoreSlot(s, k, x) \in Slots
         /\ \A i : Cardinality(Held(StoreSlot(s, k, x), i)) =
                     Cardinality(Held(s.slots, i)) + (IF x.image = i THEN 1 ELSE 0)
<1> DEFINE old == s.slots
           new == StoreSlot(s, k, x)
<1>0. old \in Seq(Slot) /\ Len(old) \in Nat
  BY ElementIn DEF Slots
<1>1. /\ new \in Seq(Slot)
      /\ \E m \in Nat \ {0} :
           /\ m \in 1 .. Len(old) => ~old[m].loaded
           /\ m \in 1 .. Len(new) /\ new[m] = x
           /\ \A n : n \in 1 .. Len(new) /\ n # m <=> n \in 1 .. Len(old) /\ n # m
           /\ \A n \in 1 .. Len(old) : n # m => new[n] = old[n]
  <2>1. CASE k # 0
    <3>1. new = [old EXCEPT ![k] = x] /\ k \in 1 .. Len(old) /\ ~old[k].loaded
      BY <1>0, <2>1 DEF StoreSlot, IsLoaded
    <3>2. new \in Seq(Slot) /\ Len(new) = Len(old) /\ new[k] = x
          /\ \A n \in 1 .. Len(old) : n # k => new[n] = old[n]
      BY <1>0, <3>1
    <3> HIDE DEF new, old
    <3> QED BY <1>0, <3>1, <3>2
  <2>2. CASE k = 0
    <3>1. new = Append(old, x)
      BY <2>2 DEF StoreSlot
    <3>2. new \in Seq(Slot) /\ Len(new) = Len(old) + 1 /\ new[Len(old) + 1] = x
          /\ \A n \in 1 .. Len(old) : new[n] = old[n]
      BY <1>0, <3>1
    <3>3. /\ Len(old) + 1 \in Nat \ {0} /\ Len(old) + 1 \notin 1 .. Len(old)
          /\ Len(old) + 1 \in 1 .. Len(new)
          /\ \A n : n \in 1 .. Len(new) /\ n # Len(old) + 1
                      <=> n \in 1 .. Len(old) /\ n # Len(old) + 1
      BY <1>0, <3>2
    <3> HIDE DEF new, old
    <3> QED BY <3>2, <3>3
  <2> QED BY <2>1, <2>2
<1>2. PICK m \in Nat \ {0} :
           /\ m \in 1 .. Len(old) => ~old[m].loaded
           /\ m \in 1 .. Len(new) /\ new[m] = x
           /\ \A n : n \in 1 .. Len(new) /\ n # m <=> n \in 1 .. Len(old) /\ n # m
           /\ \A n \in 1 .. Len(old) : n # m => new[n] = old[n]
  BY <1>1
<1> HIDE DEF new, old
<1>3. ASSUME NEW i
      PROVE  Cardinality(Held(new, i)) =
               Cardinality(Held(old, i)) + (IF x.image = i THEN 1 ELSE 0)
  <2>1. m \notin Held(old, i)
    BY <1>2 DEF Held
  <2>2. Held(new, i) = IF x.image = i THEN Held(old, i) \cup {m} ELSE Held(old, i)
    <3>1. m \in Held(new, i) <=> x.image = i
      BY <1>2 DEF Held
    <3>2. \A n : n # m => (n \in Held(new, i) <=> n \in Held(old, i))
      BY <1>2 DEF Held
    <3> QED BY <2>1, <3>1, <3>2
  <2>3. IsFiniteSet(Held(old, i)) /\ Cardinality(Held(old, i)) \in Nat
    BY <1>0, HeldFinite
  <2>4. CASE x.image = i
    <3>1. Cardinality(Held(old, i) \cup {m}) = Cardinality(Held(old, i)) + 1
      BY <2>1, <2>3, FS_AddElement
    <3> QED BY <2>2, <2>4, <3>1
  <2>5. CASE x.image # i
    BY <2>2, <2>3, <2>5
  <2> QED BY <2>4, <2>5
<1> QED BY <1>1, <1>3 DEF new, old, Slots

(* plugin_loader_load keeps the balance, whether it succeeds or gives up.  *)
LEMMA LoadBalanced ==
  ASSUME NEW s, Balanced(s), NEW p \in Paths, NEW image \in Images \cup {NoFile},
         NEW initOK
  PROVE  Balanced(Load(s, p, image, initOK))
<1> DEFINE k == FindByPath(s, p)
           x == [path |-> p, name |-> NameOf[image], image |-> image, loaded |-> TRUE]
           new == [slots |-> StoreSlot(s, k, x),
                   refs  |-> [s.refs EXCEPT ![image] = @ + 1],
                   svc   |-> Register(s.svc, image)]
<1>1. CASE Load(s, p, image, initOK) = s
  BY <1>1
<1>2. CASE Load(s, p, image, initOK) # s
  <2>1. /\ Load(s, p, image, initOK) = new
        /\ ~IsLoaded(s, k) /\ image # NoFile /\ NameOf[image] # Broken
    BY <1>2 DEF Load
  <2>2. /\ s.slots \in Slots /\ s.refs \in [Images -> Int] /\ s.svc.table \in Seq(Images)
        /\ s.svc.live \in [Images -> Int] /\ image \in Images
    BY <2>1 DEF Balanced, Loader, Table
  <2>3. k \in 0 .. Len(s.slots)
    BY <2>2, FindInRange DEF Slots
  <2>4. x \in Slot /\ x.loaded /\ x.image = image
    BY <2>1, <2>2 DEF Slot, Names
  <2> HIDE DEF k, x
  <2>5. /\ StoreSlot(s, k, x) \in Slots
        /\ \A i : Cardinality(Held(StoreSlot(s, k, x), i)) =
                    Cardinality(Held(s.slots, i)) + (IF image = i THEN 1 ELSE 0)
    BY <2>1, <2>2, <2>3, <2>4, StoreHeld
  <2>6. /\ new.svc.table = Append(s.svc.table, image)
        /\ new.svc.live = [s.svc.live EXCEPT ![image] = @ + 1]
        /\ new.refs = [s.refs EXCEPT ![image] = @ + 1]
        /\ new.slots = StoreSlot(s, k, x)
    BY DEF Register
  <2>7. new \in Loader
    <3>1. Append(s.svc.table, image) \in Table
      BY <2>2 DEF Table
    <3>2. /\ [s.svc.live EXCEPT ![image] = @ + 1] \in [Images -> Int]
          /\ [s.refs EXCEPT ![image] = @ + 1] \in [Images -> Int]
      BY <2>2
    <3> QED BY <2>5, <3>1, <3>2 DEF Loader, Register
  <2> HIDE DEF new
  <2>8. ASSUME NEW i \in Images PROVE Even(new, i)
    <3> DEFINE d == IF image = i THEN 1 ELSE 0
               h == Cardinality(Held(s.slots, i))
    <3>1. /\ s.refs[i] = h /\ s.svc.live[i] = h
          /\ Cardinality(Places(s.svc.table, i)) = h
      BY DEF Balanced, Even
    <3>2. Cardinality(Held(new.slots, i)) = h + d
      BY <2>5, <2>6
    <3>3. new.refs[i] = h + d /\ new.svc.live[i] = h + d
      <4>1. h \in Int
        BY <2>2, HeldFinite DEF Slots
      <4>2. CASE image = i
        BY <2>2, <2>6, <3>1, <4>2
      <4>3. CASE image # i
        <5>1. new.refs[i] = s.refs[i] /\ new.svc.live[i] = s.svc.live[i]
          BY <2>2, <2>6, <4>3
        <5> QED BY <3>1, <4>1, <4>3, <5>1
      <4> QED BY <4>2, <4>3
    <3>4. Cardinality(Places(new.svc.table, i)) = h + d
      <4>1. Cardinality(Places(Append(s.svc.table, image), i)) =
              Cardinality(Places(s.svc.table, i)) + (IF i = image THEN 1 ELSE 0)
        BY <2>2, PlacesAppend
      <4> QED BY <2>6, <3>1, <4>1
    <3> HIDE DEF h, d
    <3> QED BY <3>2, <3>3, <3>4 DEF Even
  <2> QED BY <2>1, <2>7, <2>8 DEF Balanced
<1> QED BY <1>1, <1>2

(* plugin_loader_unload keeps it, too. *)
LEMMA UnloadBalanced ==
  ASSUME NEW s, Balanced(s), NEW n
  PROVE  Balanced(Unload(s, n))
<1> DEFINE k == FindByName(s, n)
           image == s.slots[k].image
           j == SelectInSeq(s.svc.table, LAMBDA v : v = image)
           new == [slots |-> [s.slots EXCEPT ![k].loaded = FALSE],
                   refs  |-> [s.refs EXCEPT ![image] = @ - 1],
                   svc   |-> Unregister(s.svc, image)]
<1>1. CASE Unload(s, n) = s
  BY <1>1
<1>2. CASE Unload(s, n) # s
  <2>1. Unload(s, n) = new /\ k # 0 /\ s.slots[k].loaded
    BY <1>2 DEF Unload, IsLoaded
  <2>2. /\ s.slots \in Seq(Slot) /\ s.refs \in [Images -> Int]
        /\ s.svc.table \in Seq(Images) /\ s.svc.live \in [Images -> Int]
    BY DEF Balanced, Loader, Table, Slots
  <2>3. k \in 1 .. Len(s.slots) /\ Len(s.slots) \in Nat
    <3>1. k \in 0 .. Len(s.slots)
      BY <2>2, FindInRange
    <3>2. Len(s.slots) \in Nat
      BY <2>2, ElementIn
    <3> QED BY <2>1, <3>1, <3>2
  <2>4. s.slots[k] \in Slot /\ image \in Images
    <3>1. s.slots[k] \in Slot
      BY <2>2, <2>3, ElementIn
    <3> QED BY <3>1 DEF Slot
  <2> HIDE DEF k, image
  <2>5. /\ [s.slots EXCEPT ![k].loaded = FALSE] \in Slots
        /\ \A i : Cardinality(Held([s.slots EXCEPT ![k].loaded = FALSE], i)) =
                    Cardinality(Held(s.slots, i)) - (IF i = image THEN 1 ELSE 0)
    <3> DEFINE t == [s.slots EXCEPT ![k].loaded = FALSE]
    <3>1. t = [s.slots EXCEPT ![k] = [s.slots[k] EXCEPT !.loaded = FALSE]]
      OBVIOUS
    <3>2. [s.slots[k] EXCEPT !.loaded = FALSE] \in Slot
      BY <2>4 DEF Slot
    <3>3. /\ t \in Seq(Slot) /\ Len(t) = Len(s.slots)
          /\ t[k] = [s.slots[k] EXCEPT !.loaded = FALSE]
          /\ \A m \in 1 .. Len(s.slots) : m # k => t[m] = s.slots[m]
      BY <2>2, <2>3, <3>1, <3>2
    <3>4. ~t[k].loaded
      BY <2>4, <3>3 DEF Slot
    <3> HIDE DEF t
    <3>5. ASSUME NEW i
          PROVE  Cardinality(Held(t, i)) =
                   Cardinality(Held(s.slots, i)) - (IF i = image THEN 1 ELSE 0)
      <4>1. Held(t, i) = Held(s.slots, i) \ {k}
        BY <2>3, <3>3, <3>4 DEF Held
      <4>2. k \in Held(s.slots, i) <=> i = image
        BY <2>1, <2>3 DEF Held, image
      <4>3. IsFiniteSet(Held(s.slots, i)) /\ Cardinality(Held(s.slots, i)) \in Nat
        BY <2>2, HeldFinite
      <4>4. CASE i = image
        <5>1. Cardinality(Held(s.slots, i) \ {k}) = Cardinality(Held(s.slots, i)) - 1
          BY <4>2, <4>3, <4>4, FS_RemoveElement
        <5> QED BY <4>1, <4>4, <5>1
      <4>5. CASE i # image
        <5>1. Held(t, i) = Held(s.slots, i)
          BY <4>1, <4>2, <4>5
        <5> QED BY <4>3, <4>5, <5>1
      <4> QED BY <4>4, <4>5
    <3> QED BY <3>3, <3>5 DEF t, Slots
  <2>6. j \in 1 .. Len(s.svc.table) /\ s.svc.table[j] = image /\ Contains(s.svc.table, image)
    <3>1. k \in Held(s.slots, image)
      BY <2>1, <2>3 DEF Held, image
    <3>2. Cardinality(Held(s.slots, image)) # 0
      BY <2>2, <3>1, HeldFinite, FS_EmptySet
    <3>3. Cardinality(Places(s.svc.table, image)) # 0
      BY <2>4, <3>2 DEF Balanced, Even
    <3>4. Places(s.svc.table, image) # {}
      BY <3>3, FS_EmptySet
    <3>5. Places(s.svc.table, image) \in SUBSET Nat
      BY <2>2, ElementIn DEF Places
    <3>6. j = Min(Places(s.svc.table, image))
      BY <3>4 DEF SelectInSeq, Places
    <3>7. j \in Places(s.svc.table, image)
      <4> HIDE DEF j
      <4> QED BY <3>4, <3>5, <3>6, MinIsLeast
    <3> QED BY <3>7 DEF Places, Contains
  <2>7. /\ new.svc.table = RemoveAt(s.svc.table, j)
        /\ new.svc.live = [s.svc.live EXCEPT ![image] = @ - 1]
        /\ new.refs = [s.refs EXCEPT ![image] = @ - 1]
        /\ new.slots = [s.slots EXCEPT ![k].loaded = FALSE]
    BY <2>6 DEF Unregister, RemoveFirst, Contains
  <2> HIDE DEF j
  <2>8. new \in Loader
    <3>1. RemoveAt(s.svc.table, j) \in Table
      BY <2>2, <2>6, RemoveAtFacts DEF Table
    <3>2. /\ [s.svc.live EXCEPT ![image] = @ - 1] \in [Images -> Int]
          /\ [s.refs EXCEPT ![image] = @ - 1] \in [Images -> Int]
      BY <2>2, <2>4
    <3>3. new.svc = [table |-> RemoveAt(s.svc.table, j),
                     live |-> [s.svc.live EXCEPT ![image] = @ - 1]]
      BY <2>6 DEF Unregister, RemoveFirst, Contains, j
    <3> QED BY <2>5, <2>7, <3>1, <3>2, <3>3 DEF Loader
  <2> HIDE DEF new
  <2>9. ASSUME NEW i \in Images PROVE Even(new, i)
    <3> DEFINE d == IF i = image THEN 1 ELSE 0
               h == Cardinality(Held(s.slots, i))
    <3>1. /\ s.refs[i] = h /\ s.svc.live[i] = h
          /\ Cardinality(Places(s.svc.table, i)) = h
      BY DEF Balanced, Even
    <3>2. Cardinality(Held(new.slots, i)) = h - d
      BY <2>5, <2>7
    <3>3. new.refs[i] = h - d /\ new.svc.live[i] = h - d
      <4>1. h \in Int
        BY <2>2, HeldFinite
      <4>2. CASE i = image
        BY <2>2, <2>7, <3>1, <4>2
      <4>3. CASE i # image
        <5>1. new.refs[i] = s.refs[i] /\ new.svc.live[i] = s.svc.live[i]
          BY <2>2, <2>7, <4>3
        <5> QED BY <3>1, <4>1, <4>3, <5>1
      <4> QED BY <4>2, <4>3
    <3>4. Cardinality(Places(new.svc.table, i)) = h - d
      <4>1. Cardinality(Places(RemoveAt(s.svc.table, j), i)) =
              Cardinality(Places(s.svc.table, i)) - (IF i = image THEN 1 ELSE 0)
        BY <2>2, <2>6, PlacesRemoveAt
      <4> QED BY <2>7, <3>1, <4>1
    <3> HIDE DEF h, d
    <3> QED BY <3>2, <3>3, <3>4 DEF Even
  <2> QED BY <2>1, <2>8, <2>9 DEF Balanced
<1> QED BY <1>1, <1>2

-----------------------------------------------------------------------------
(* plugin_loader_reload, and a deletion. *)
LEMMA UnloadPathBalanced ==
  ASSUME NEW s, Balanced(s), NEW p
  PROVE  Balanced(UnloadPath(s, p))
BY UnloadBalanced DEF UnloadPath

(* plugin_loader_reload, whatever ops->init answers, keeps the balance. *)
LEMMA ReloadsBalanced ==
  ASSUME NEW s, Balanced(s), NEW p \in Paths, NEW image \in Images \cup {NoFile},
         NEW t \in Reloads(s, p, image)
  PROVE  Balanced(t)
<1>1. PICK ok \in InitOutcomes : t = Load(UnloadPath(s, p), p, image, ok)
  BY DEF Reloads
<1>2. Balanced(UnloadPath(s, p))
  BY UnloadPathBalanced
<1> QED BY <1>1, <1>2, LoadBalanced

(* The inductive invariant: the directory and the event queues are what    *)
(* they should be, and the loader is in balance until the services are     *)
(* stopped.                                                                *)
Queue == Seq(Event)

IInv ==
  /\ files \in [Paths -> Images \cup {NoFile}]
  /\ events \in Queue /\ batch \in Queue
  /\ phase # "down" => Balanced(ld)
  /\ EveryInitDestroyed

(* The invariant holds at the start, *)
LEMMA InitIInv == Init => IInv
<1> SUFFICES ASSUME Init PROVE IInv
  OBVIOUS
<1>1. << >> \in Queue
  BY DEF Queue
<1>2. Balanced(ld) /\ phase = "loading"
  BY InitBalanced DEF Init
<1> QED BY <1>1, <1>2 DEF Init, IInv, EveryInitDestroyed

(* every step keeps it, *)
LEMMA NextIInv == IInv /\ [Next]_vars => IInv'
<1> SUFFICES ASSUME IInv, [Next]_vars PROVE IInv'
  OBVIOUS
<1>1. ASSUME UNCHANGED <<files, events, batch>>, phase' # "down", Balanced(ld')
      PROVE  IInv'
  BY <1>1 DEF IInv, EveryInitDestroyed
<1>2. phase # "down" => Balanced(ld)
  BY DEF IInv
<1>3. ASSUME NEW p \in Paths, LoadEntry(p) PROVE IInv'
  <2>1. PICK ok \in InitOutcomes : ld' = Load(ld, p, files[p], ok)
    BY <1>3 DEF LoadEntry
  <2>2. /\ phase = "loading" /\ UNCHANGED <<phase, files, events, batch>>
    BY <1>3 DEF LoadEntry
  <2>3. files[p] \in Images \cup {NoFile}
    BY DEF IInv
  <2>4. Balanced(ld')
    BY <1>2, <2>1, <2>2, <2>3, LoadBalanced
  <2> QED BY <1>1, <2>2, <2>4
<1>4. CASE LoadAllDone
  BY <1>1, <1>2, <1>4 DEF LoadAllDone
<1>5. CASE StartWatcher
  BY <1>1, <1>2, <1>5 DEF StartWatcher
<1>6. CASE ReadEvents
  <2>1. /\ phase = "running" /\ UNCHANGED <<phase, files, ld>>
    BY <1>6 DEF ReadEvents
  <2>2. events \in Seq(Event) /\ Len(events) \in Nat
    BY ElementIn DEF IInv, Queue
  <2>3. PICK n \in 0 .. Len(events) :
          batch' = SubSeq(events, 1, n) /\ events' = SubSeq(events, n + 1, Len(events))
    <3> DEFINE n == IF Len(events) < BatchSize THEN Len(events) ELSE BatchSize
    <3>1. n \in 0 .. Len(events)
      BY <2>2, LoaderAssumption
    <3>2. batch' = SubSeq(events, 1, n) /\ events' = SubSeq(events, n + 1, Len(events))
      BY <1>6 DEF ReadEvents
    <3> HIDE DEF n
    <3> QED BY <3>1, <3>2
  <2>4. batch' \in Queue /\ events' \in Queue
    BY <2>2, <2>3 DEF Queue
  <2> QED BY <1>2, <2>1, <2>4 DEF IInv, EveryInitDestroyed
<1>7. CASE HandleEvent
  <2> DEFINE e == Head(batch)
  <2>1. /\ phase = "running" /\ batch # << >> /\ batch' = Tail(batch)
        /\ UNCHANGED <<phase, files, events>>
        /\ \/ ld' = UnloadPath(ld, e.path)
           \/ ld' \in Reloads(ld, e.path, files[e.path])
    BY <1>7 DEF HandleEvent
  <2>2. e \in Event /\ batch' \in Queue
    BY <2>1 DEF IInv, Queue
  <2>3. e.path \in Paths /\ files[e.path] \in Images \cup {NoFile}
    BY <2>2 DEF IInv, Event
  <2> HIDE DEF e
  <2>4. Balanced(ld')
    BY <1>2, <2>1, <2>3, UnloadPathBalanced, ReloadsBalanced
  <2> QED BY <2>1, <2>2, <2>4 DEF IInv, EveryInitDestroyed
<1>8. CASE UnloadSlot
  <2>1. /\ phase = "unloading" /\ UNCHANGED <<phase, files, events, batch>>
        /\ ld' = ld \/ ld' = Unload(ld, ld.slots[cursor].name)
    BY <1>8 DEF UnloadSlot
  <2>2. Balanced(ld')
    BY <1>2, <2>1, UnloadBalanced
  <2> QED BY <1>1, <2>1, <2>2
<1>9. CASE UnloadDone
  BY <1>1, <1>2, <1>9 DEF UnloadDone
<1>10. CASE StopServices
  <2>1. /\ phase = "stopping" /\ phase' = "down" /\ UNCHANGED <<files, events, batch>>
        /\ ld' = [ld EXCEPT !.svc = SvcShutdown(ld.svc)]
    BY <1>10 DEF StopServices
  <2>2. Balanced(ld)
    BY <1>2, <2>1
  <2>3. ld'.svc = SvcShutdown(ld.svc)
    BY <2>1, <2>2 DEF Balanced, Loader
  <2>4. ASSUME NEW i \in Images PROVE ld'.svc.live[i] = 0
    <3>1. ld'.svc.live[i] = ld.svc.live[i] - Cardinality(Places(ld.svc.table, i))
      BY <2>3, LoaderAssumption DEF SvcShutdown, Registrations, Places
    <3>2. /\ ld.svc.live[i] = Cardinality(Held(ld.slots, i))
          /\ Cardinality(Places(ld.svc.table, i)) = Cardinality(Held(ld.slots, i))
      BY <2>2 DEF Balanced, Even
    <3>3. Cardinality(Held(ld.slots, i)) \in Nat
      BY <2>2, HeldFinite DEF Balanced, Loader, Slots
    <3> QED BY <3>1, <3>2, <3>3
  <2> QED BY <2>1, <2>4 DEF IInv, EveryInitDestroyed
<1>11. CASE Terminate
  <2>1. << >> \in Queue
    BY DEF Queue
  <2> QED BY <1>2, <1>11, <2>1 DEF Terminate, IInv, EveryInitDestroyed
<1>12. ASSUME NEW op, FileOp(op), files' \in [Paths -> Images \cup {NoFile}],
              events' \in Queue
       PROVE  IInv'
  BY <1>2, <1>12 DEF FileOp, IInv, EveryInitDestroyed
<1>13. ASSUME NEW kind \in {"CLOSE_WRITE", "MOVED_TO", "DELETE"}, NEW p \in Paths,
              Notify(kind, p)
       PROVE  events' \in Queue
  <2> DEFINE e == [path |-> p, kind |-> kind]
  <2>1. e \in Event
    BY DEF Event
  <2>2. events' = events \/ events' = Append(events, e)
    BY <1>13 DEF Notify
  <2> HIDE DEF e
  <2> QED BY <2>1, <2>2 DEF IInv, Queue
<1>14. ASSUME NEW p \in Paths, NEW i \in Images, Write(p, i) PROVE IInv'
  <2>1. FileOp("write") /\ Notify("CLOSE_WRITE", p) /\ files' = [files EXCEPT ![p] = i]
    BY <1>14 DEF Write
  <2>2. files' \in [Paths -> Images \cup {NoFile}]
    BY <2>1 DEF IInv
  <2> QED BY <1>12, <1>13, <2>1, <2>2
<1>15. ASSUME NEW p \in Paths, Delete(p) PROVE IInv'
  <2>1. FileOp("delete") /\ Notify("DELETE", p) /\ files' = [files EXCEPT ![p] = NoFile]
    BY <1>15 DEF Delete
  <2>2. files' \in [Paths -> Images \cup {NoFile}]
    BY <2>1 DEF IInv
  <2> QED BY <1>12, <1>13, <2>1, <2>2
<1>16. ASSUME NEW p \in Paths, MoveOut(p) PROVE IInv'
  <2>1. FileOp("moveout") /\ UNCHANGED events /\ files' = [files EXCEPT ![p] = NoFile]
    BY <1>16 DEF MoveOut
  <2>2. files' \in [Paths -> Images \cup {NoFile}] /\ events' \in Queue
    BY <2>1 DEF IInv
  <2> QED BY <1>12, <2>1, <2>2
<1>17. ASSUME NEW p \in Paths, NEW q \in Paths, Rename(p, q) PROVE IInv'
  <2>1. FileOp("rename") /\ Notify("MOVED_TO", q)
        /\ files' = [files EXCEPT ![p] = NoFile, ![q] = files[p]]
    BY <1>17 DEF Rename
  <2>2. files' \in [Paths -> Images \cup {NoFile}]
    BY <2>1 DEF IInv
  <2> QED BY <1>12, <1>13, <2>1, <2>2
<1>18. CASE UNCHANGED vars
  BY <1>18 DEF vars, IInv, EveryInitDestroyed
<1> QED
  BY <1>3, <1>4, <1>5, <1>6, <1>7, <1>8, <1>9, <1>10, <1>11, <1>14, <1>15, <1>16,
     <1>17, <1>18 DEF Next, Main, Users, Done

(* so it holds throughout. *)
LEMMA Invariance == Spec => []IInv
BY InitIInv, NextIInv, PTL DEF Spec

(* As long as services run, each library is held open and registered once  *)
(* for every loaded slot that holds it: no service pointer outlives its    *)
(* library, whatever happens in the plugin directory.                      *)
THEOREM OwnershipBalancedHolds == Spec => []OwnershipBalanced
<1>1. IInv => OwnershipBalanced
  <2> SUFFICES ASSUME IInv, phase # "down", NEW i \in Images
               PROVE  LET held == Cardinality({k \in LoadedSlots : ld.slots[k].image = i})
                      IN  ld.refs[i] = held /\ Registrations(ld.svc, i) = held
    BY DEF OwnershipBalanced
  <2>1. {k \in LoadedSlots : ld.slots[k].image = i} = Held(ld.slots, i)
    BY DEF LoadedSlots, Held
  <2>2. Even(ld, i)
    BY DEF IInv, Balanced
  <2> QED BY <2>1, <2>2 DEF Even, Registrations, Places
<1> QED BY <1>1, Invariance, PTL

(* After daemon_shutdown every successful ops->init has had its            *)
(* ops->destroy, even where plugin_loader_shutdown missed a slot.          *)
THEOREM EveryInitDestroyedHolds == Spec => []EveryInitDestroyed
<1>1. IInv => EveryInitDestroyed
  BY DEF IInv
<1> QED BY <1>1, Invariance, PTL

-----------------------------------------------------------------------------
(* Ordinary use of the plugin directory: files are written and deleted     *)
(* while the watcher runs, a plugin name belongs to one file name, there   *)
(* is a slot to spare and ops->init succeeds.                              *)
Orderly ==
  /\ FileOps \subseteq {"write", "delete"} /\ ~EarlyChanges /\ ~InitMayFail
  /\ IsFiniteSet(Paths) /\ Cardinality(Paths) < MaxPlugins
  /\ Cardinality(Paths) =< MaxServices
  /\ \A p, q \in Paths : p # q =>
       \A i \in Candidates[p] : \A k \in Candidates[q] :
         NameOf[i] = NameOf[k] => NameOf[i] = Broken

(* The files that something is loaded from, and what is. *)
From(slots) == {slots[k].path : k \in {m \in 1 .. Len(slots) : slots[m].loaded}}

Of(slots, p) ==
  {slots[k].image : k \in {m \in 1 .. Len(slots) : slots[m].loaded /\ slots[m].path = p}}

(* A slot for each path, a table entry for each loaded slot. *)
OneEach(s) ==
  /\ \A k \in 1 .. Len(s.slots) :
       /\ s.slots[k].image \in Candidates[s.slots[k].path]
       /\ s.slots[k].name = NameOf[s.slots[k].image]
  /\ \A k, m \in 1 .. Len(s.slots) : s.slots[k].path = s.slots[m].path => k = m
  /\ Len(s.svc.table) = Cardinality(From(s.slots))

(* What a lookup yields. *)
LEMMA FindFacts ==
  ASSUME NEW s, s.slots \in Slots, NEW x
  PROVE  /\ IF FindByPath(s, x) = 0 THEN \A m \in 1 .. Len(s.slots) : s.slots[m].path # x
            ELSE FindByPath(s, x) \in 1 .. Len(s.slots) /\ s.slots[FindByPath(s, x)].path = x
         /\ IF FindByName(s, x) = 0 THEN \A m \in 1 .. Len(s.slots) : s.slots[m].name # x
            ELSE FindByName(s, x) \in 1 .. Len(s.slots) /\ s.slots[FindByName(s, x)].name = x
<1>1. Len(s.slots) \in Nat
  BY ElementIn DEF Slots
<1> DEFINE P == {k \in 1 .. Len(s.slots) : s.slots[k].path = x}
           N == {k \in 1 .. Len(s.slots) : s.slots[k].name = x}
<1>2. ASSUME NEW I \in SUBSET (1 .. Len(s.slots))
      PROVE  IF I = {} THEN (IF I # {} THEN Min(I) ELSE 0) = 0
             ELSE (IF I # {} THEN Min(I) ELSE 0) \in I /\ (IF I # {} THEN Min(I) ELSE 0) # 0
  <2>1. I \in SUBSET Nat /\ 0 \notin I
    BY <1>1
  <2>2. I # {} => Min(I) \in I
    BY <2>1, MinIsLeast
  <2> QED BY <2>1, <2>2
<1>3. FindByPath(s, x) = IF P # {} THEN Min(P) ELSE 0
  BY DEF FindByPath, SelectInSeq
<1>4. FindByName(s, x) = IF N # {} THEN Min(N) ELSE 0
  BY DEF FindByName, SelectInSeq
<1>5. P \in SUBSET (1 .. Len(s.slots)) /\ N \in SUBSET (1 .. Len(s.slots))
  OBVIOUS
<1>6. IF P = {} THEN FindByPath(s, x) = 0 ELSE FindByPath(s, x) \in P /\ FindByPath(s, x) # 0
  <2> HIDE DEF P, N
  <2> QED BY <1>2, <1>3, <1>5
<1>7. IF N = {} THEN FindByName(s, x) = 0 ELSE FindByName(s, x) \in N /\ FindByName(s, x) # 0
  <2> HIDE DEF P, N
  <2> QED BY <1>2, <1>4, <1>5
<1>8. FindByPath(s, x) = 0 => \A m \in 1 .. Len(s.slots) : s.slots[m].path # x
  BY <1>6
<1>9. FindByName(s, x) = 0 => \A m \in 1 .. Len(s.slots) : s.slots[m].name # x
  BY <1>7
<1> QED BY <1>6, <1>7, <1>8, <1>9

(* A name leads to one path. *)
LEMMA NameTellsPath ==
  ASSUME Orderly, NEW s, s.slots \in Slots, OneEach(s), NEW k \in 1 .. Len(s.slots),
         NEW p \in Paths, NEW i \in Candidates[p], s.slots[k].name = NameOf[i]
  PROVE  s.slots[k].path = p
<1>1. s.slots[k] \in Slot
  BY ElementIn DEF Slots
<1>2. s.slots[k].path \in Paths /\ s.slots[k].name # Broken
  BY <1>1 DEF Slot, Names
<1>3. s.slots[k].image \in Candidates[s.slots[k].path]
      /\ s.slots[k].name = NameOf[s.slots[k].image]
  BY DEF OneEach
<1> QED BY <1>2, <1>3 DEF Orderly

(* There is room for a file that nothing is loaded from. *)
LEMMA RoomForOne ==
  ASSUME Orderly, NEW s \in Loader, OneEach(s), NEW p \in Paths
  PROVE  /\ Len(s.slots) < MaxPlugins
         /\ p \notin From(s.slots) => CanRegister(s.svc, TRUE)
<1> DEFINE n == Len(s.slots)
           f == [k \in 1 .. n |-> s.slots[k].path]
           R == {f[k] : k \in 1 .. n}
<1>1. s.slots \in Seq(Slot) /\ n \in Nat
  BY ElementIn DEF Loader, Slots
<1>2. \A k \in 1 .. n : s.slots[k].path \in Paths
  <2> SUFFICES ASSUME NEW k \in 1 .. n PROVE s.slots[k].path \in Paths
    OBVIOUS
  <2>1. s.slots[k] \in Slot
    BY <1>1, ElementIn
  <2> QED BY <2>1 DEF Slot
<1>3. IsFiniteSet(Paths) /\ Cardinality(Paths) \in Nat
      /\ Cardinality(Paths) < MaxPlugins /\ Cardinality(Paths) =< MaxServices
      /\ MaxPlugins \in Nat /\ MaxServices \in Nat
  BY FS_CardinalityType, LoaderAssumption, MaxServicesAssumption DEF Orderly
<1>4. Len(s.slots) < MaxPlugins
  <2>1. IsFiniteSet(1 .. n) /\ Cardinality(1 .. n) = n
    BY <1>1, FS_Interval, SMTT(30)
  <2>2. DOMAIN f = 1 .. n /\ \A k, m \in 1 .. n : f[k] = f[m] => k = m
    BY DEF OneEach
  <2>3. R \subseteq Paths
    BY <1>2
  <2> HIDE DEF f
  <2>4. Cardinality(R) = n
    <3> DEFINE I == 1 .. n
    <3>1. IsFiniteSet(I) /\ DOMAIN f = I /\ \A k, m \in I : f[k] = f[m] => k = m
      BY <2>1, <2>2
    <3> HIDE DEF I
    <3>2. Cardinality({f[k] : k \in I}) = Cardinality(I)
      BY <3>1, SameSize
    <3> QED BY <2>1, <3>2 DEF I
  <2>5. Cardinality(R) =< Cardinality(Paths)
    BY <1>3, <2>3, FS_Subset
  <2> QED BY <1>1, <1>3, <2>4, <2>5
<1>5. ASSUME p \notin From(s.slots) PROVE CanRegister(s.svc, TRUE)
  <2>1. From(s.slots) \subseteq Paths \ {p}
    BY <1>2, <1>5 DEF From
  <2>2. IsFiniteSet(Paths \ {p}) /\ Cardinality(Paths \ {p}) = Cardinality(Paths) - 1
    BY <1>3, FS_RemoveElement
  <2>3. Cardinality(From(s.slots)) =< Cardinality(Paths \ {p}) /\ Cardinality(From(s.slots)) \in Nat
    BY <2>1, <2>2, FS_Subset, FS_CardinalityType
  <2>4. Len(s.svc.table) < MaxServices
    BY <1>3, <2>2, <2>3 DEF OneEach
  <2> QED BY <2>4 DEF CanRegister
<1> QED BY <1>4, <1>5

(* What is loaded from a path, and from which paths. *)
LEMMA OfFrom ==
  ASSUME NEW slots
  PROVE  /\ \A p, i : i \in Of(slots, p) <=>
              \E k \in 1 .. Len(slots) : slots[k].loaded /\ slots[k].path = p /\ slots[k].image = i
         /\ \A p : p \in From(slots) <=>
              \E k \in 1 .. Len(slots) : slots[k].loaded /\ slots[k].path = p
         /\ \A p : p \in From(slots) <=> Of(slots, p) # {}
BY DEF Of, From

(* A loaded library is registered, and unregistering takes one entry out. *)
LEMMA UnregisterLen ==
  ASSUME NEW s, Balanced(s), NEW k \in 1 .. Len(s.slots), s.slots[k].loaded
  PROVE  Len(Unregister(s.svc, s.slots[k].image).table) = Len(s.svc.table) - 1
<1> DEFINE image == s.slots[k].image
           m == SelectInSeq(s.svc.table, LAMBDA v : v = image)
<1>1. s.slots \in Seq(Slot) /\ s.svc.table \in Seq(Images)
  BY DEF Balanced, Loader, Table, Slots
<1>2. image \in Images
  <2>1. s.slots[k] \in Slot
    BY <1>1, ElementIn
  <2> QED BY <2>1 DEF Slot
<1>3. k \in Held(s.slots, image)
  BY DEF Held
<1>4. Cardinality(Held(s.slots, image)) # 0
  BY <1>1, <1>3, HeldFinite, FS_EmptySet
<1>5. Cardinality(Places(s.svc.table, image)) # 0
  BY <1>2, <1>4 DEF Balanced, Even
<1>6. Places(s.svc.table, image) # {}
  BY <1>5, FS_EmptySet
<1>7. Places(s.svc.table, image) \in SUBSET Nat
  BY <1>1, ElementIn DEF Places
<1>8. m = Min(Places(s.svc.table, image))
  BY <1>6 DEF SelectInSeq, Places
<1>9. m \in Places(s.svc.table, image)
  <2> HIDE DEF m
  <2> QED BY <1>6, <1>7, <1>8, MinIsLeast
<1>10. m \in 1 .. Len(s.svc.table) /\ Contains(s.svc.table, image)
  BY <1>9 DEF Places, Contains
<1>11. Unregister(s.svc, image).table = RemoveAt(s.svc.table, m)
  BY <1>10 DEF Unregister, RemoveFirst, Contains
<1> HIDE DEF m
<1> QED BY <1>1, <1>10, <1>11, RemoveAtFacts

(* From s to t, what is loaded from a path becomes W and nothing else      *)
(* changes.                                                                *)
Becomes(s, t, p, W) ==
  /\ OneEach(t)
  /\ Of(t.slots, p) = W
  /\ \A q : q # p => Of(t.slots, q) = Of(s.slots, q)

(* A deletion, and the first half of a reload: nothing is loaded from the  *)
(* path any more, and nothing else changes.                                *)
LEMMA UnloadPathFacts ==
  ASSUME Orderly, NEW s, Balanced(s), OneEach(s), NEW p
  PROVE  Becomes(s, UnloadPath(s, p), p, {})
<1> DEFINE u == UnloadPath(s, p)
           k == FindByPath(s, p)
<1>1. s.slots \in Slots /\ Len(s.slots) \in Nat /\ s.slots \in Seq(Slot)
  BY ElementIn DEF Balanced, Loader, Slots
<1>2. IF k = 0 THEN \A m \in 1 .. Len(s.slots) : s.slots[m].path # p
      ELSE k \in 1 .. Len(s.slots) /\ s.slots[k].path = p
  BY <1>1, FindFacts
<1> HIDE DEF k
<1>3. CASE ~IsLoaded(s, k)
  <2>1. u = s
    BY <1>3 DEF UnloadPath, k
  <2>2. ASSUME NEW m \in 1 .. Len(s.slots), s.slots[m].path = p PROVE ~s.slots[m].loaded
    <3>1. m = k
      BY <1>2, <2>2 DEF OneEach
    <3> QED BY <1>1, <1>3, <2>2, <3>1 DEF IsLoaded
  <2>3. Of(s.slots, p) = {}
    BY <2>2, OfFrom
  <2> QED BY <2>1, <2>3 DEF Becomes
<1>4. CASE IsLoaded(s, k)
  <2>1. k \in 1 .. Len(s.slots) /\ s.slots[k].path = p /\ s.slots[k].loaded
    BY <1>2, <1>4 DEF IsLoaded
  <2>2. s.slots[k] \in Slot /\ p \in Paths
    <3>1. s.slots[k] \in Slot
      BY <1>1, <2>1, ElementIn
    <3> QED BY <2>1, <3>1 DEF Slot
  <2> DEFINE n == FindByName(s, s.slots[k].name)
  <2>3. n \in 1 .. Len(s.slots) /\ s.slots[n].name = s.slots[k].name
    BY <1>1, <2>1, FindFacts
  <2>4. n = k
    <3> HIDE DEF n
    <3>1. s.slots[k].image \in Candidates[p] /\ s.slots[k].name = NameOf[s.slots[k].image]
      BY <2>1 DEF OneEach
    <3>2. s.slots[n].path = p
      BY <1>1, <2>2, <2>3, <3>1, NameTellsPath
    <3> QED BY <2>1, <2>3, <3>2 DEF OneEach
  <2> DEFINE t == [s.slots EXCEPT ![k].loaded = FALSE]
             svc == Unregister(s.svc, s.slots[k].image)
  <2>5. u.slots = t /\ u.svc = svc
    <3>1. u = Unload(s, s.slots[k].name)
      BY <1>4 DEF UnloadPath, k
    <3>2. Unload(s, s.slots[k].name) =
            [slots |-> t, refs |-> [s.refs EXCEPT ![s.slots[k].image] = @ - 1], svc |-> svc]
      BY <1>4, <2>4 DEF Unload
    <3> QED BY <3>1, <3>2
  <2>6. Len(svc.table) = Len(s.svc.table) - 1
    BY <2>1, UnregisterLen
  <2> HIDE DEF svc, n, u
  <2>7. /\ Len(t) = Len(s.slots)
        /\ \A m \in 1 .. Len(s.slots) :
             /\ t[m].path = s.slots[m].path /\ t[m].name = s.slots[m].name
             /\ t[m].image = s.slots[m].image
             /\ t[m].loaded = (s.slots[m].loaded /\ m # k)
    <3>1. t = [s.slots EXCEPT ![k] = [s.slots[k] EXCEPT !.loaded = FALSE]]
      OBVIOUS
    <3>2. Len(t) = Len(s.slots) /\ t[k] = [s.slots[k] EXCEPT !.loaded = FALSE]
          /\ \A m \in 1 .. Len(s.slots) : m # k => t[m] = s.slots[m]
      BY <1>1, <2>1, <3>1
    <3> HIDE DEF t
    <3> SUFFICES ASSUME NEW m \in 1 .. Len(s.slots)
                 PROVE  /\ t[m].path = s.slots[m].path /\ t[m].name = s.slots[m].name
                        /\ t[m].image = s.slots[m].image
                        /\ t[m].loaded = (s.slots[m].loaded /\ m # k)
      BY <3>2
    <3>3. CASE m = k
      BY <2>2, <3>2, <3>3 DEF Slot
    <3>4. CASE m # k
      <4>1. s.slots[m] \in Slot
        BY <1>1, ElementIn
      <4>2. s.slots[m].loaded \in BOOLEAN
        BY <4>1 DEF Slot
      <4> QED BY <3>2, <3>4, <4>2
    <3> QED BY <3>3, <3>4
  <2> HIDE DEF t
  <2>8. \A m \in 1 .. Len(s.slots) : s.slots[m].path = p <=> m = k
    BY <2>1 DEF OneEach
  <2>9. Of(t, p) = {} /\ \A q : q # p => Of(t, q) = Of(s.slots, q)
    <3>1. ASSUME NEW q, NEW i
          PROVE  i \in Of(t, q) <=>
                   \E m \in 1 .. Len(s.slots) :
                     s.slots[m].loaded /\ m # k /\ s.slots[m].path = q /\ s.slots[m].image = i
      <4>1. i \in Of(t, q) <=>
              \E m \in 1 .. Len(s.slots) : t[m].loaded /\ t[m].path = q /\ t[m].image = i
        BY <2>7, OfFrom
      <4> QED BY <2>7, <4>1
    <3>2. ASSUME NEW q, NEW i
          PROVE  i \in Of(s.slots, q) <=>
                   \E m \in 1 .. Len(s.slots) :
                     s.slots[m].loaded /\ s.slots[m].path = q /\ s.slots[m].image = i
      BY OfFrom
    <3>3. \A i : i \notin Of(t, p)
      BY <2>8, <3>1
    <3>4. ASSUME NEW q, q # p, NEW i PROVE i \in Of(t, q) <=> i \in Of(s.slots, q)
      BY <2>8, <3>1, <3>2, <3>4
    <3> QED BY <3>3, <3>4
  <2>10. Len(svc.table) = Cardinality(From(t))
    <3>1. From(t) = From(s.slots) \ {p}
      BY <2>9, OfFrom
    <3>2. p \in From(s.slots)
      BY <2>1, OfFrom
    <3>3. IsFiniteSet(From(s.slots))
      <4>1. From(s.slots) \subseteq Paths
        <5>1. \A m \in 1 .. Len(s.slots) : s.slots[m].path \in Paths
          <6> SUFFICES ASSUME NEW m \in 1 .. Len(s.slots) PROVE s.slots[m].path \in Paths
            OBVIOUS
          <6>1. s.slots[m] \in Slot
            BY <1>1, ElementIn
          <6> QED BY <6>1 DEF Slot
        <5> QED BY <5>1, OfFrom
      <4> QED BY <4>1, FS_Subset DEF Orderly
    <3>4. Cardinality(From(t)) = Cardinality(From(s.slots)) - 1
      BY <3>1, <3>2, <3>3, FS_RemoveElement
    <3> QED BY <2>6, <3>4 DEF OneEach
  <2>11. OneEach(u)
    <3>1. \A m \in 1 .. Len(t) : t[m].image \in Candidates[t[m].path]
                                 /\ t[m].name = NameOf[t[m].image]
      BY <2>7 DEF OneEach
    <3>2. \A m, l \in 1 .. Len(t) : t[m].path = t[l].path => m = l
      BY <2>7 DEF OneEach
    <3> QED BY <2>5, <2>10, <3>1, <3>2 DEF OneEach
  <2> QED BY <2>5, <2>9, <2>11 DEF u, Becomes
<1> QED BY <1>3, <1>4

(* Where a library is stored. *)
LEMMA StoredAt ==
  ASSUME NEW s, s.slots \in Slots, NEW k \in 0 .. Len(s.slots), NEW x \in Slot
  PROVE  LET new == StoreSlot(s, k, x)
             m   == IF k # 0 THEN k ELSE Len(s.slots) + 1
         IN  /\ \A l : l \in 1 .. Len(new) <=> l \in 1 .. Len(s.slots) \/ l = m
             /\ new[m] = x
             /\ \A l \in 1 .. Len(s.slots) : l # m => new[l] = s.slots[l]
<1> DEFINE old == s.slots
           new == StoreSlot(s, k, x)
<1>0. old \in Seq(Slot) /\ Len(old) \in Nat
  BY ElementIn DEF Slots
<1>1. CASE k # 0
  <2>1. new = [old EXCEPT ![k] = x] /\ k \in 1 .. Len(old)
    BY <1>0, <1>1 DEF StoreSlot
  <2>2. Len(new) = Len(old) /\ new[k] = x
        /\ \A l \in 1 .. Len(old) : l # k => new[l] = old[l]
    BY <1>0, <2>1
  <2> HIDE DEF new, old
  <2> QED BY <1>1, <2>1, <2>2 DEF old, new
<1>2. CASE k = 0
  <2>1. new = Append(old, x)
    BY <1>2 DEF StoreSlot
  <2>2. Len(new) = Len(old) + 1 /\ new[Len(old) + 1] = x
        /\ \A l \in 1 .. Len(old) : new[l] = old[l]
    BY <1>0, <2>1
  <2> HIDE DEF new, old
  <2>3. \A l : l \in 1 .. Len(new) <=> l \in 1 .. Len(old) \/ l = Len(old) + 1
    BY <1>0, <2>2
  <2> QED BY <1>2, <2>2, <2>3 DEF old, new
<1> QED BY <1>1, <1>2

(* What should be loaded from a file with this contents. *)
Wanted(image) == IF image = NoFile \/ NameOf[image] = Broken THEN {} ELSE {image}

(* plugin_loader_load of a file that nothing is loaded from: what the file *)
(* holds is loaded unless it is no plugin, and nothing else changes.       *)
LEMMA LoadFacts ==
  ASSUME Orderly, NEW s, Balanced(s), OneEach(s), NEW p \in Paths, Of(s.slots, p) = {},
         NEW image, image = NoFile \/ (image \in Images /\ image \in Candidates[p])
  PROVE  Becomes(s, Load(s, p, image, TRUE), p, Wanted(image))
<1> DEFINE t == Load(s, p, image, TRUE)
           k == FindByPath(s, p)
<1>1. s.slots \in Slots /\ Len(s.slots) \in Nat /\ s.slots \in Seq(Slot) /\ s \in Loader
      /\ s.svc.table \in Seq(Images)
  BY ElementIn DEF Balanced, Loader, Slots, Table
<1>2. IF k = 0 THEN \A m \in 1 .. Len(s.slots) : s.slots[m].path # p
      ELSE k \in 1 .. Len(s.slots) /\ s.slots[k].path = p
  BY <1>1, FindFacts
<1>3. \A m \in 1 .. Len(s.slots) : s.slots[m].path = p => ~s.slots[m].loaded
  BY OfFrom, SMTT(30)
<1>4. CASE image = NoFile \/ NameOf[image] = Broken
  <2>1. t = s
    BY <1>4 DEF Load
  <2> QED BY <1>4, <2>1 DEF Becomes, Wanted
<1>5. CASE ~(image = NoFile \/ NameOf[image] = Broken)
  <2> DEFINE n == FindByName(s, NameOf[image])
             x == [path |-> p, name |-> NameOf[image], image |-> image, loaded |-> TRUE]
             new == StoreSlot(s, k, x)
             at == IF k # 0 THEN k ELSE Len(s.slots) + 1
  <2>1. ~IsLoaded(s, k)
    <3> HIDE DEF k
    <3> QED BY <1>2, <1>3 DEF IsLoaded
  <2>2. ~IsLoaded(s, n)
    <3>1. IF n = 0 THEN TRUE ELSE n \in 1 .. Len(s.slots) /\ s.slots[n].name = NameOf[image]
      BY <1>1, FindFacts
    <3> HIDE DEF n
    <3>2. n # 0 => s.slots[n].path = p
      BY <1>1, <1>5, <3>1, NameTellsPath
    <3> QED BY <1>3, <3>1, <3>2 DEF IsLoaded
  <2>3. ~(Len(s.slots) >= MaxPlugins) /\ CanRegister(s.svc, TRUE)
    <3>1. p \notin From(s.slots)
      BY OfFrom
    <3>2. Len(s.slots) < MaxPlugins /\ CanRegister(s.svc, TRUE)
      BY <1>1, <3>1, RoomForOne
    <3>3. MaxPlugins \in Nat
      BY LoaderAssumption
    <3>4. Len(s.slots) \in Nat
      BY <1>1
    <3>5. ~(Len(s.slots) >= MaxPlugins)
      BY <3>2, <3>3, <3>4
    <3> QED BY <3>2, <3>5
  <2>4. t = [slots |-> new, refs |-> [s.refs EXCEPT ![image] = @ + 1],
             svc |-> Register(s.svc, image)]
    BY <1>5, <2>1, <2>2, <2>3 DEF Load
  <2>5. t.slots = new /\ Len(t.svc.table) = Len(s.svc.table) + 1
    <3> HIDE DEF t, new
    <3>1. t.slots = new /\ t.svc.table = Append(s.svc.table, image)
      BY <2>4 DEF Register
    <3>2. image \in Images
      BY <1>5
    <3>3. Len(Append(s.svc.table, image)) = Len(s.svc.table) + 1
      BY <1>1, <3>2
    <3> QED BY <3>1, <3>3
  <2>6. x \in Slot /\ image \in Candidates[p]
    BY <1>5 DEF Slot, Names
  <2>7. /\ \A l : l \in 1 .. Len(new) <=> l \in 1 .. Len(s.slots) \/ l = at
        /\ new[at] = x
        /\ \A l \in 1 .. Len(s.slots) : l # at => new[l] = s.slots[l]
    <3>1. k \in 0 .. Len(s.slots)
      BY <1>1, FindInRange
    <3> HIDE DEF k, x
    <3> QED BY <1>1, <2>6, <3>1, StoredAt
  <2>8. x.path = p /\ x.image = image /\ x.name = NameOf[image] /\ x.loaded = TRUE
    OBVIOUS
  <2>9. \A l \in 1 .. Len(s.slots) : s.slots[l].path = p <=> l = at
    <3>1. CASE k = 0
      BY <1>1, <1>2, <3>1
    <3>2. CASE k # 0
      BY <1>2, <3>2 DEF OneEach
    <3> QED BY <3>1, <3>2
  <2> HIDE DEF x, new, t, at, k, n
  <2>10. Of(new, p) = {image}
    <3>1. \A i : i \in Of(new, p) <=> i = image
      <4> SUFFICES ASSUME NEW i PROVE i \in Of(new, p) <=> i = image
        OBVIOUS
      <4>1. i \in Of(new, p) <=>
              \E l \in 1 .. Len(new) : new[l].loaded /\ new[l].path = p /\ new[l].image = i
        BY DEF Of
      <4>2. at \in 1 .. Len(new)
        BY <2>7
      <4>3. \A l \in 1 .. Len(new) : new[l].path = p => l = at
        BY <2>7, <2>9
      <4> QED BY <2>7, <2>8, <4>1, <4>2, <4>3
    <3> QED BY <3>1
  <2>11. ASSUME NEW q, q # p PROVE Of(new, q) = Of(s.slots, q)
    <3> SUFFICES ASSUME NEW i PROVE i \in Of(new, q) <=> i \in Of(s.slots, q)
      OBVIOUS
    <3>1. i \in Of(new, q) <=>
            \E l \in 1 .. Len(new) : new[l].loaded /\ new[l].path = q /\ new[l].image = i
      BY OfFrom
    <3>2. i \in Of(s.slots, q) <=>
            \E l \in 1 .. Len(s.slots) :
              s.slots[l].loaded /\ s.slots[l].path = q /\ s.slots[l].image = i
      BY OfFrom
    <3>3. \A l \in 1 .. Len(new) : new[l].path = q => l \in 1 .. Len(s.slots) /\ new[l] = s.slots[l]
      BY <2>7, <2>8, <2>11
    <3>4. \A l \in 1 .. Len(s.slots) : s.slots[l].path = q => l \in 1 .. Len(new) /\ new[l] = s.slots[l]
      BY <2>7, <2>9, <2>11
    <3> QED BY <3>1, <3>2, <3>3, <3>4
  <2>12. Len(t.svc.table) = Cardinality(From(new))
    <3>1. From(new) = From(s.slots) \cup {p} /\ p \notin From(s.slots)
      <4>1. \A q : q \in From(new) <=> Of(new, q) # {}
        BY OfFrom
      <4>2. \A q : q \in From(s.slots) <=> Of(s.slots, q) # {}
        BY OfFrom
      <4>3. \A q : q \in From(new) <=> q \in From(s.slots) \/ q = p
        BY <2>10, <2>11, <4>1, <4>2
      <4> QED BY <4>2, <4>3
    <3>2. IsFiniteSet(From(s.slots))
      <4>1. \A m \in 1 .. Len(s.slots) : s.slots[m].path \in Paths
        <5> SUFFICES ASSUME NEW m \in 1 .. Len(s.slots) PROVE s.slots[m].path \in Paths
          OBVIOUS
        <5>1. s.slots[m] \in Slot
          BY <1>1, ElementIn
        <5> QED BY <5>1 DEF Slot
      <4>2. From(s.slots) \subseteq Paths
        BY <4>1, OfFrom
      <4> QED BY <4>2, FS_Subset DEF Orderly
    <3>3. Cardinality(From(new)) = Cardinality(From(s.slots)) + 1
      BY <3>1, <3>2, FS_AddElement
    <3> QED BY <2>5, <3>3 DEF OneEach
  <2>13. OneEach(t)
    <3>1. ASSUME NEW l \in 1 .. Len(new)
          PROVE  new[l].image \in Candidates[new[l].path] /\ new[l].name = NameOf[new[l].image]
      <4>1. CASE l = at
        BY <2>6, <2>7, <2>8, <4>1
      <4>2. CASE l # at
        BY <2>7, <4>2 DEF OneEach
      <4> QED BY <4>1, <4>2
    <3>2. ASSUME NEW l \in 1 .. Len(new), NEW m \in 1 .. Len(new), new[l].path = new[m].path
          PROVE  l = m
      <4>1. CASE l = at \/ m = at
        BY <2>7, <2>8, <2>9, <3>2, <4>1
      <4>2. CASE l # at /\ m # at
        BY <2>7, <3>2, <4>2 DEF OneEach
      <4> QED BY <4>1, <4>2
    <3> QED BY <2>5, <2>12, <3>1, <3>2 DEF OneEach
  <2> QED BY <1>5, <2>5, <2>10, <2>11, <2>13 DEF t, Becomes, Wanted
<1> QED BY <1>4, <1>5

-----------------------------------------------------------------------------
(* Events that were read and events still queued are one queue: reading    *)
(* does not change it,                                                     *)
LEMMA QueueRead ==
  ASSUME NEW S, NEW s \in Seq(S), NEW n \in 0 .. Len(s)
  PROVE  SubSeq(s, 1, n) \o SubSeq(s, n + 1, Len(s)) = << >> \o s
<1> DEFINE a == SubSeq(s, 1, n)
           b == SubSeq(s, n + 1, Len(s))
<1>1. Len(s) \in Nat /\ n \in Nat /\ n =< Len(s)
  OBVIOUS
<1>2. a \in Seq(S) /\ Len(a) = n /\ \A k \in 1 .. n : a[k] = s[k]
  BY <1>1
<1>3. b \in Seq(S) /\ Len(b) = Len(s) - n /\ \A k \in 1 .. Len(s) - n : b[k] = s[n + k]
  BY <1>1
<1> HIDE DEF a, b
<1>4. a \o b \in Seq(S) /\ Len(a \o b) = Len(s)
  <2>1. a \o b \in Seq(S) /\ Len(a \o b) = Len(a) + Len(b)
    <3>1. a \in Seq(S) /\ b \in Seq(S)
      BY <1>2, <1>3
    <3> QED BY <3>1
  <2> QED BY <1>1, <1>2, <1>3, <2>1
<1>5. ASSUME NEW k \in 1 .. Len(s) PROVE (a \o b)[k] = s[k]
  <2>1. CASE k =< n
    BY <1>1, <1>2, <1>3, <2>1
  <2>2. CASE ~(k =< n)
    <3>1. (a \o b)[k] = b[k - n]
      BY <1>1, <1>2, <1>3, <2>2
    <3>2. k - n \in 1 .. Len(s) - n /\ n + (k - n) = k
      BY <1>1, <2>2
    <3>3. b[k - n] = s[n + (k - n)]
      BY <1>3, <3>2
    <3> QED BY <3>1, <3>2, <3>3
  <2> QED BY <2>1, <2>2
<1>6. << >> \o s = s
  OBVIOUS
<1>7. a \o b = s
  <2> DEFINE c == a \o b
  <2>1. c \in Seq(S) /\ Len(c) = Len(s) /\ \A k \in 1 .. Len(s) : c[k] = s[k]
    BY <1>4, <1>5
  <2> HIDE DEF c
  <2>2. c = s
    BY <2>1
  <2> QED BY <2>2 DEF c
<1> QED BY <1>6, <1>7 DEF a, b

(* handling takes the first event out, *)
LEMMA QueueHandled ==
  ASSUME NEW S, NEW s \in Seq(S), NEW t \in Seq(S), s # << >>
  PROVE  LET q == s \o t
             r == Tail(s) \o t
         IN  /\ Len(q) > 0 /\ Head(s) = q[1] /\ Len(r) = Len(q) - 1
             /\ \A k \in 1 .. Len(r) : r[k] = q[k + 1]
<1> DEFINE q == s \o t
           u == Tail(s)
           r == u \o t
<1>1. /\ Len(s) \in Nat /\ Len(s) > 0 /\ Len(t) \in Nat
      /\ u \in Seq(S) /\ Len(u) = Len(s) - 1
      /\ \A k \in 1 .. Len(s) - 1 : u[k] = s[k + 1]
  OBVIOUS
<1>2. Len(q) = Len(s) + Len(t) /\ Head(s) = s[1] /\ q[1] = s[1]
  BY <1>1
<1> HIDE DEF u
<1>3. Len(r) = Len(q) - 1
  <2>1. Len(r) = Len(u) + Len(t)
    <3>1. u \in Seq(S)
      BY <1>1
    <3> QED BY <3>1
  <2> QED BY <1>1, <1>2, <2>1
<1>4. ASSUME NEW k \in 1 .. Len(r) PROVE r[k] = q[k + 1]
  <2>1. k \in Nat /\ 1 =< k /\ k =< Len(s) + Len(t) - 1
    BY <1>1, <1>2, <1>3
  <2>2. CASE k =< Len(s) - 1
    BY <1>1, <2>1, <2>2
  <2>3. CASE ~(k =< Len(s) - 1)
    <3>1. r[k] = t[k - Len(u)]
      BY <1>1, <2>1, <2>3
    <3>2. q[k + 1] = t[(k + 1) - Len(s)]
      BY <1>1, <2>1, <2>3
    <3>3. (k + 1) - Len(s) = k - Len(u)
      BY <1>1, <2>1
    <3> QED BY <3>1, <3>2, <3>3
  <2> QED BY <2>2, <2>3
<1> HIDE DEF q, r
<1>5. Len(q) > 0
  BY <1>1, <1>2
<1> QED BY <1>2, <1>3, <1>4, <1>5 DEF q, r, u

(* and a notification adds one at the end. *)
LEMMA QueueAdded ==
  ASSUME NEW S, NEW s \in Seq(S), NEW t \in Seq(S), NEW e \in S
  PROVE  /\ Len(s \o Append(t, e)) = Len(s \o t) + 1
         /\ \A k \in 1 .. Len(s \o t) : (s \o Append(t, e))[k] = (s \o t)[k]
         /\ (s \o Append(t, e))[Len(s \o t) + 1] = e
         /\ t # << >> => Len(s \o t) > 0 /\ (s \o t)[Len(s \o t)] = Last(t)
<1> DEFINE u == Append(t, e)
<1>1. /\ Len(s) \in Nat /\ Len(t) \in Nat /\ u \in Seq(S) /\ Len(u) = Len(t) + 1
      /\ u[Len(t) + 1] = e /\ \A k \in 1 .. Len(t) : u[k] = t[k]
      /\ Len(s \o t) = Len(s) + Len(t)
  OBVIOUS
<1> HIDE DEF u
<1>2. Len(s \o u) = Len(s) + Len(t) + 1
  <2>1. Len(s \o u) = Len(s) + Len(u)
    BY <1>1
  <2> QED BY <1>1, <2>1
<1>3. ASSUME NEW k \in 1 .. Len(s) + Len(t) PROVE (s \o u)[k] = (s \o t)[k]
  <2>1. CASE k =< Len(s)
    BY <1>1, <2>1
  <2>2. CASE ~(k =< Len(s))
    <3>1. k - Len(s) \in 1 .. Len(t)
      BY <1>1, <2>2
    <3>2. (s \o u)[k] = u[k - Len(s)]
      BY <1>1, <2>2
    <3>3. (s \o t)[k] = t[k - Len(s)]
      BY <1>1, <2>2
    <3> QED BY <1>1, <3>1, <3>2, <3>3
  <2> QED BY <2>1, <2>2
<1>4. (s \o u)[Len(s) + Len(t) + 1] = e
  <2>1. (s \o u)[Len(s) + Len(t) + 1] = u[(Len(s) + Len(t) + 1) - Len(s)]
    BY <1>1
  <2>2. (Len(s) + Len(t) + 1) - Len(s) = Len(t) + 1
    BY <1>1
  <2> QED BY <1>1, <2>1, <2>2
<1>5. ASSUME t # << >> PROVE Len(s \o t) > 0 /\ (s \o t)[Len(s \o t)] = Last(t)
  <2>1. Len(t) > 0
    BY <1>5
  <2>2. Len(s) + Len(t) > 0 /\ (Len(s) + Len(t)) - Len(s) = Len(t)
    BY <1>1, <2>1
  <2>3. (s \o t)[Len(s) + Len(t)] = t[(Len(s) + Len(t)) - Len(s)]
    BY <1>1, <2>1
  <2> QED BY <1>1, <2>2, <2>3 DEF Last
<1> QED BY <1>1, <1>2, <1>3, <1>4, <1>5 DEF u

(* The last event of a file is queued, and is no deletion if it exists. *)
LastTells(q, f, p) ==
  \E k \in 1 .. Len(q) :
    /\ q[k].path = p
    /\ \A m \in k + 1 .. Len(q) : q[m].path # p
    /\ f[p] # NoFile => q[k].kind # "DELETE"

(* Either the file is in sync and no event of it is pending, or the last   *)
(* pending one will bring it in sync.                                      *)
Follows(q, f, slots, p) ==
  \/ Of(slots, p) = Wanted(f[p]) /\ \A k \in 1 .. Len(q) : q[k].path # p
  \/ LastTells(q, f, p)

(* It stays so when the first event is handled, *)
LEMMA FollowsHandled ==
  ASSUME NEW q, Len(q) \in Nat, NEW r, Len(r) = Len(q) - 1, Len(q) > 0,
         \A k \in 1 .. Len(r) : r[k] = q[k + 1],
         NEW f, NEW old, NEW new, NEW p, Follows(q, f, old, p),
         p # q[1].path => Of(new, p) = Of(old, p),
         p = q[1].path /\ (f[p] # NoFile => q[1].kind # "DELETE") => Of(new, p) = Wanted(f[p])
  PROVE  Follows(r, f, new, p)
<1>1. Len(r) \in Nat /\ Len(q) = Len(r) + 1 /\ \A k \in 1 .. Len(r) : k + 1 \in 1 .. Len(q)
  OBVIOUS
<1>2. CASE Of(old, p) = Wanted(f[p]) /\ \A k \in 1 .. Len(q) : q[k].path # p
  <2>1. p # q[1].path /\ \A k \in 1 .. Len(r) : r[k].path # p
    BY <1>1, <1>2
  <2> QED BY <1>2, <2>1 DEF Follows
<1>3. CASE LastTells(q, f, p)
  <2>1. PICK k \in 1 .. Len(q) :
          /\ q[k].path = p
          /\ \A m \in k + 1 .. Len(q) : q[m].path # p
          /\ f[p] # NoFile => q[k].kind # "DELETE"
    BY <1>3 DEF LastTells
  <2>2. CASE k = 1
    <3>1. Of(new, p) = Wanted(f[p])
      BY <2>1, <2>2
    <3>2. ASSUME NEW m \in 1 .. Len(r) PROVE r[m].path # p
      <4>1. m + 1 \in k + 1 .. Len(q)
        BY <1>1, <2>2
      <4> QED BY <2>1, <4>1
    <3> QED BY <3>1, <3>2 DEF Follows
  <2>3. CASE k # 1
    <3> DEFINE l == k - 1
    <3>1. l \in 1 .. Len(r) /\ l + 1 = k
      BY <1>1, <2>3
    <3>2. r[l] = q[k]
      BY <3>1
    <3>3. ASSUME NEW m \in l + 1 .. Len(r) PROVE r[m].path # p
      <4>1. m \in 1 .. Len(r) /\ m + 1 \in k + 1 .. Len(q)
        BY <1>1, <3>1
      <4> QED BY <2>1, <4>1
    <3> HIDE DEF l
    <3> QED BY <2>1, <3>1, <3>2, <3>3 DEF Follows, LastTells
  <2> QED BY <2>2, <2>3
<1> QED BY <1>2, <1>3 DEF Follows

(* and when a file changes and its event is queued, or equals the last.    *)
LEMMA FollowsNotified ==
  ASSUME NEW q, Len(q) \in Nat, NEW r, NEW e,
         \/ /\ Len(r) = Len(q) + 1 /\ r[Len(q) + 1] = e
            /\ \A k \in 1 .. Len(q) : r[k] = q[k]
         \/ r = q /\ Len(q) > 0 /\ q[Len(q)] = e,
         NEW f, NEW g, NEW slots, NEW p, Follows(q, f, slots, p),
         p # e.path => f[p] = g[p],
         p = e.path /\ g[p] # NoFile => e.kind # "DELETE"
  PROVE  Follows(r, g, slots, p)
<1>1. /\ Len(r) \in Nat /\ Len(r) > 0 /\ r[Len(r)] = e
      /\ Len(q) =< Len(r) /\ Len(r) =< Len(q) + 1
      /\ \A k \in 1 .. Len(q) : r[k] = q[k]
  OBVIOUS
<1>2. CASE p = e.path
  <2>1. Len(r) \in 1 .. Len(r) /\ Len(r) + 1 .. Len(r) = {}
    BY <1>1
  <2>2. LastTells(r, g, p)
    BY <1>1, <1>2, <2>1 DEF LastTells
  <2> QED BY <2>2 DEF Follows
<1>3. CASE p # e.path
  <2>1. ASSUME NEW k \in 1 .. Len(r) PROVE r[k].path = p => k \in 1 .. Len(q)
    <3>1. k = Len(r) => r[k].path # p
      BY <1>1, <1>3
    <3>2. k # Len(r) => k \in 1 .. Len(q)
      BY <1>1
    <3> QED BY <3>1, <3>2
  <2>2. f[p] = g[p] /\ Wanted(f[p]) = Wanted(g[p])
    BY <1>3 DEF Wanted
  <2>3. CASE Of(slots, p) = Wanted(f[p]) /\ \A k \in 1 .. Len(q) : q[k].path # p
    <3>1. \A k \in 1 .. Len(r) : r[k].path # p
      BY <1>1, <2>1, <2>3
    <3> QED BY <2>2, <2>3, <3>1 DEF Follows
  <2>4. CASE LastTells(q, f, p)
    <3>1. PICK k \in 1 .. Len(q) :
            /\ q[k].path = p
            /\ \A m \in k + 1 .. Len(q) : q[m].path # p
            /\ f[p] # NoFile => q[k].kind # "DELETE"
      BY <2>4 DEF LastTells
    <3>2. k \in 1 .. Len(r) /\ r[k] = q[k]
      BY <1>1
    <3>3. ASSUME NEW m \in k + 1 .. Len(r) PROVE r[m].path # p
      <4>1. m \in 1 .. Len(r)
        BY <1>1
      <4>2. CASE m \in 1 .. Len(q)
        <5>1. m \in k + 1 .. Len(q)
          BY <4>2
        <5> QED BY <1>1, <3>1, <4>2, <5>1
      <4>3. CASE m \notin 1 .. Len(q)
        BY <2>1, <4>1, <4>3
      <4> QED BY <4>2, <4>3
    <3> QED BY <2>2, <3>1, <3>2, <3>3 DEF Follows, LastTells
  <2> QED BY <2>3, <2>4 DEF Follows
<1> QED BY <1>2, <1>3

-----------------------------------------------------------------------------
(* The inductive invariant: while plugins are loaded, a file is loaded     *)
(* when load_all has reached it; once the watcher runs, every file that is *)
(* not in sync has an event pending.                                       *)
SyncInv ==
  /\ \A p \in Paths : files[p] = NoFile \/ files[p] \in Candidates[p]
  /\ phase \in {"loading", "arming", "running"} => OneEach(ld)
  /\ phase \in {"loading", "arming"} =>
       /\ ~watching /\ events = << >> /\ batch = << >>
       /\ \A p \in Paths : Of(ld.slots, p) = IF p \in todo THEN {} ELSE Wanted(files[p])
  /\ phase = "arming" => todo = {}
  /\ phase = "running" /\ watching =>
       \A p \in Paths : Follows(batch \o events, files, ld.slots, p)

(* Nothing is loaded at first, *)
LEMMA InitSync == Init => SyncInv
<1> SUFFICES ASSUME Init PROVE SyncInv
  OBVIOUS
<1>1. \A p \in Paths : files[p] = NoFile \/ files[p] \in Candidates[p]
  BY DEF Init
<1>2. phase = "loading" /\ ~watching /\ events = << >> /\ batch = << >> /\ todo = Paths
      /\ ld.slots = << >> /\ ld.svc.table = << >>
  BY DEF Init, SvcInit
<1>3. From(ld.slots) = {} /\ \A p : Of(ld.slots, p) = {}
  BY <1>2 DEF From, Of
<1>4. OneEach(ld)
  <2>1. Len(ld.slots) = 0 /\ Len(ld.svc.table) = 0 /\ Cardinality(From(ld.slots)) = 0
    BY <1>2, <1>3, FS_EmptySet
  <2>2. 1 .. Len(ld.slots) = {}
    BY <2>1
  <2> QED BY <2>1, <2>2 DEF OneEach
<1> QED BY <1>1, <1>2, <1>3, <1>4 DEF SyncInv

(* plugin_loader_reload brings a file in sync. *)
LEMMA ReloadFacts ==
  ASSUME Orderly, NEW s, Balanced(s), OneEach(s), NEW p \in Paths,
         NEW image, image = NoFile \/ (image \in Images /\ image \in Candidates[p]),
         NEW t \in Reloads(s, p, image)
  PROVE  Becomes(s, t, p, Wanted(image))
<1> DEFINE u == UnloadPath(s, p)
<1>1. t = Load(u, p, image, TRUE)
  BY DEF Reloads, InitOutcomes, Orderly
<1>2. Balanced(u) /\ Becomes(s, u, p, {})
  BY UnloadPathBalanced, UnloadPathFacts
<1> HIDE DEF u
<1>3. Becomes(u, t, p, Wanted(image))
  <2>1. OneEach(u) /\ Of(u.slots, p) = {}
    BY <1>2 DEF Becomes
  <2> QED BY <1>1, <1>2, <2>1, LoadFacts
<1> QED BY <1>2, <1>3 DEF Becomes

(* and every step of an orderly use keeps the invariant. *)
LEMMA NextSync ==
  ASSUME Orderly, IInv, SyncInv, [Next]_vars
  PROVE  SyncInv'
<1> DEFINE q == batch \o events
<1>1. /\ events \in Seq(Event) /\ batch \in Seq(Event)
      /\ files \in [Paths -> Images \cup {NoFile}]
      /\ \A p \in Paths : files[p] = NoFile \/ (files[p] \in Images /\ files[p] \in Candidates[p])
  BY DEF IInv, Queue, SyncInv
<1>2. ASSUME NEW p \in Paths, LoadEntry(p) PROVE SyncInv'
  <2>1. PICK ok \in InitOutcomes : ld' = Load(ld, p, files[p], ok)
    BY <1>2 DEF LoadEntry
  <2>2. phase = "loading" /\ p \in todo /\ todo' = todo \ {p}
        /\ UNCHANGED <<phase, files, events, batch, watching>>
    BY <1>2 DEF LoadEntry
  <2>3. ok = TRUE
    BY DEF InitOutcomes, Orderly
  <2>4. Balanced(ld) /\ OneEach(ld) /\ Of(ld.slots, p) = {}
    BY <2>2 DEF IInv, SyncInv
  <2>5. Becomes(ld, ld', p, Wanted(files[p]))
    BY <1>1, <2>1, <2>3, <2>4, LoadFacts
  <2>6. ASSUME NEW x \in Paths
        PROVE  Of(ld'.slots, x) = IF x \in todo' THEN {} ELSE Wanted(files[x])
    <3>1. CASE x = p
      BY <2>2, <2>5, <3>1 DEF Becomes
    <3>2. CASE x # p
      BY <2>2, <2>5, <3>2 DEF Becomes, SyncInv
    <3> QED BY <3>1, <3>2
  <2> HIDE DEF q
  <2> QED BY <2>2, <2>5, <2>6 DEF SyncInv, Becomes
<1>3. CASE LoadAllDone
  BY <1>3 DEF LoadAllDone, SyncInv
<1>4. CASE StartWatcher
  <2>1. phase = "arming" /\ phase' = "running" /\ UNCHANGED <<files, events, batch, todo, ld>>
    BY <1>4 DEF StartWatcher
  <2>2. events = << >> /\ batch = << >> /\ OneEach(ld)
        /\ \A p \in Paths : Of(ld.slots, p) = Wanted(files[p])
    BY <2>1 DEF SyncInv
  <2>3. Len(batch' \o events') = 0
    BY <2>1, <2>2
  <2>4. \A p \in Paths : Follows(batch' \o events', files', ld'.slots, p)
    BY <2>1, <2>2, <2>3 DEF Follows
  <2> QED BY <2>1, <2>2, <2>4 DEF SyncInv
<1>5. CASE ReadEvents
  <2>1. phase = "running" /\ batch = << >> /\ UNCHANGED <<phase, files, watching, ld>>
    BY <1>5 DEF ReadEvents
  <2>2. batch' \o events' = q
    <3> DEFINE n == IF Len(events) < BatchSize THEN Len(events) ELSE BatchSize
    <3>1. n \in 0 .. Len(events)
      BY <1>1, LoaderAssumption
    <3>2. batch' = SubSeq(events, 1, n) /\ events' = SubSeq(events, n + 1, Len(events))
      BY <1>5 DEF ReadEvents
    <3> HIDE DEF n
    <3>3. SubSeq(events, 1, n) \o SubSeq(events, n + 1, Len(events)) = << >> \o events
      BY <1>1, <3>1, QueueRead
    <3> QED BY <2>1, <3>2, <3>3
  <2>3. OneEach(ld) /\ (watching => \A p \in Paths : Follows(q, files, ld.slots, p))
    BY <2>1 DEF SyncInv
  <2> HIDE DEF q
  <2>4. watching' => \A p \in Paths : Follows(batch' \o events', files', ld'.slots, p)
    BY <2>1, <2>2, <2>3
  <2>5. \A p \in Paths : files'[p] = NoFile \/ files'[p] \in Candidates[p]
    BY <1>1, <2>1
  <2> QED BY <2>1, <2>3, <2>4, <2>5 DEF SyncInv
<1>6. CASE HandleEvent
  <2> DEFINE e == Head(batch)
             r == batch' \o events'
  <2>1. /\ phase = "running" /\ batch # << >> /\ batch' = Tail(batch)
        /\ UNCHANGED <<phase, files, events, watching>>
        /\ IF e.kind = "DELETE" THEN ld' = UnloadPath(ld, e.path)
           ELSE ld' \in Reloads(ld, e.path, files[e.path])
    BY <1>6 DEF HandleEvent
  <2>2. /\ Len(q) > 0 /\ e = q[1] /\ Len(r) = Len(q) - 1
        /\ \A k \in 1 .. Len(r) : r[k] = q[k + 1]
    BY <1>1, <2>1, QueueHandled
  <2>3. Len(q) \in Nat
    BY <1>1
  <2>4. Balanced(ld) /\ OneEach(ld) /\ (watching => \A p \in Paths : Follows(q, files, ld.slots, p))
    BY <2>1 DEF IInv, SyncInv
  <2>5. e.path \in Paths
    <3>1. e \in Event
      BY <1>1, <2>1
    <3> QED BY <3>1 DEF Event
  <2> HIDE DEF e, q, r
  <2>6. /\ OneEach(ld')
        /\ \A x : x # e.path => Of(ld'.slots, x) = Of(ld.slots, x)
        /\ (files[e.path] # NoFile => e.kind # "DELETE") =>
             Of(ld'.slots, e.path) = Wanted(files[e.path])
    <3>1. CASE e.kind = "DELETE"
      <4>1. ld' = UnloadPath(ld, e.path)
        BY <2>1, <3>1
      <4>2. Becomes(ld, ld', e.path, {})
        BY <2>4, <4>1, UnloadPathFacts
      <4> QED BY <3>1, <4>2 DEF Becomes, Wanted
    <3>2. CASE e.kind # "DELETE"
      <4>1. ld' \in Reloads(ld, e.path, files[e.path])
        BY <2>1, <3>2
      <4>2. Becomes(ld, ld', e.path, Wanted(files[e.path]))
        BY <1>1, <2>4, <2>5, <4>1, ReloadFacts
      <4> QED BY <4>2 DEF Becomes
    <3> QED BY <3>1, <3>2
  <2>7. ASSUME watching, NEW p \in Paths PROVE Follows(r, files, ld'.slots, p)
    <3>1. Follows(q, files, ld.slots, p)
      BY <2>4, <2>7
    <3> QED BY <2>2, <2>3, <2>6, <3>1, FollowsHandled
  <2>8. watching' => \A p \in Paths : Follows(batch' \o events', files', ld'.slots, p)
    BY <2>1, <2>7 DEF r
  <2>9. \A p \in Paths : files'[p] = NoFile \/ files'[p] \in Candidates[p]
    BY <1>1, <2>1
  <2> QED BY <2>1, <2>6, <2>8, <2>9 DEF SyncInv
<1>7. ASSUME UNCHANGED files, phase' \notin {"loading", "arming", "running"} PROVE SyncInv'
  BY <1>7 DEF SyncInv
<1>8. CASE Terminate \/ UnloadSlot \/ UnloadDone \/ StopServices
  BY <1>7, <1>8 DEF Terminate, UnloadSlot, UnloadDone, StopServices
<1>9. ASSUME NEW op, FileOp(op)
      PROVE  /\ phase = "running" /\ watching /\ op \in {"write", "delete"}
             /\ UNCHANGED <<phase, batch, watching, todo, ld>>
             /\ OneEach(ld)
             /\ \A p \in Paths : Follows(q, files, ld.slots, p)
  <2>1. /\ op \in FileOps /\ watching /\ UNCHANGED <<phase, batch, watching, todo, ld>>
        /\ phase \in {"loading", "arming", "running"}
    BY <1>9 DEF FileOp, Orderly
  <2>2. phase = "running"
    BY <2>1 DEF SyncInv
  <2> QED BY <2>1, <2>2 DEF Orderly, SyncInv
<1>10. ASSUME NEW kind \in {"CLOSE_WRITE", "DELETE"}, NEW p \in Paths, NEW op, FileOp(op),
              Notify(kind, p), NEW i, i = NoFile \/ i \in Candidates[p],
              files' = [files EXCEPT ![p] = i], i # NoFile => kind # "DELETE"
       PROVE  SyncInv'
  <2> DEFINE e == [path |-> p, kind |-> kind]
             r == batch' \o events'
  <2>1. /\ phase = "running" /\ watching
        /\ UNCHANGED <<phase, batch, watching, todo, ld>>
        /\ OneEach(ld)
        /\ \A x \in Paths : Follows(q, files, ld.slots, x)
    BY <1>9, <1>10
  <2>2. e \in Event /\ e.path = p /\ e.kind = kind
    BY DEF Event
  <2>3. \/ events' = events /\ events # << >> /\ Last(events) = e
        \/ events' = Append(events, e)
    BY <1>10, <2>1 DEF Notify
  <2> HIDE DEF e
  <2>4. \/ /\ Len(r) = Len(q) + 1 /\ r[Len(q) + 1] = e
           /\ \A k \in 1 .. Len(q) : r[k] = q[k]
        \/ r = q /\ Len(q) > 0 /\ q[Len(q)] = e
    <3>1. CASE events' = Append(events, e)
      <4>1. r = batch \o Append(events, e)
        BY <2>1, <3>1
      <4>2. /\ Len(batch \o Append(events, e)) = Len(batch \o events) + 1
            /\ \A k \in 1 .. Len(batch \o events) :
                 (batch \o Append(events, e))[k] = (batch \o events)[k]
            /\ (batch \o Append(events, e))[Len(batch \o events) + 1] = e
        BY <1>1, <2>2, QueueAdded
      <4> HIDE DEF r
      <4> QED BY <4>1, <4>2
    <3>2. CASE events' = events /\ events # << >> /\ Last(events) = e
      <4>1. r = q
        BY <2>1, <3>2
      <4>2. Len(batch \o events) > 0 /\ (batch \o events)[Len(batch \o events)] = Last(events)
        BY <1>1, <2>2, <3>2, QueueAdded
      <4> HIDE DEF r
      <4> QED BY <3>2, <4>1, <4>2
    <3> QED BY <2>3, <3>1, <3>2
  <2>5. Len(q) \in Nat
    BY <1>1
  <2> HIDE DEF q, r
  <2>6. files'[p] = i /\ \A x \in Paths : x # p => files'[x] = files[x]
    BY <1>1, <1>10
  <2>7. ASSUME NEW x \in Paths PROVE Follows(r, files', ld.slots, x)
    <3>1. Follows(q, files, ld.slots, x)
      BY <2>1
    <3>2. (x # e.path => files[x] = files'[x])
          /\ (x = e.path /\ files'[x] # NoFile => e.kind # "DELETE")
      BY <1>10, <2>2, <2>6
    <3> QED BY <2>4, <2>5, <3>1, <3>2, FollowsNotified
  <2>8. \A x \in Paths : files'[x] = NoFile \/ files'[x] \in Candidates[x]
    BY <1>1, <1>10, <2>6
  <2>9. \A x \in Paths : Follows(batch' \o events', files', ld'.slots, x)
    BY <2>1, <2>7 DEF r
  <2> QED BY <2>1, <2>8, <2>9 DEF SyncInv
<1>11. ASSUME NEW p \in Paths, NEW i \in Images, Write(p, i) PROVE SyncInv'
  <2>1. FileOp("write") /\ Notify("CLOSE_WRITE", p) /\ i \in Candidates[p]
        /\ files' = [files EXCEPT ![p] = i]
    BY <1>11 DEF Write
  <2> QED BY <1>10, <2>1
<1>12. ASSUME NEW p \in Paths, Delete(p) PROVE SyncInv'
  <2>1. FileOp("delete") /\ Notify("DELETE", p) /\ files' = [files EXCEPT ![p] = NoFile]
    BY <1>12 DEF Delete
  <2> QED BY <1>10, <2>1
<1>13. ASSUME NEW p \in Paths, MoveOut(p) PROVE FALSE
  <2>1. FileOp("moveout")
    BY <1>13 DEF MoveOut
  <2> QED BY <1>9, <2>1
<1>14. ASSUME NEW p \in Paths, NEW x \in Paths, Rename(p, x) PROVE FALSE
  <2>1. FileOp("rename")
    BY <1>14 DEF Rename
  <2> QED BY <1>9, <2>1
<1>15. CASE UNCHANGED vars
  BY <1>15 DEF vars, SyncInv
<1> QED
  BY <1>2, <1>3, <1>4, <1>5, <1>6, <1>8, <1>11, <1>12, <1>13, <1>14, <1>15
  DEF Next, Main, Users, Done

(* Hot reload: whenever the watcher has no work left, the loaded plugins   *)
(* are exactly the libraries in the directory, however writes and          *)
(* deletions interleave with the reading and handling of their events.     *)
THEOREM HotReloadInSyncHolds == Orderly => (Spec => []HotReloadInSync)
<1> SUFFICES ASSUME Orderly PROVE Spec => []HotReloadInSync
  OBVIOUS
<1>1. IInv /\ SyncInv /\ [Next]_vars => SyncInv'
  BY NextSync
<1>2. IInv /\ SyncInv => HotReloadInSync
  <2> SUFFICES ASSUME IInv, SyncInv, phase = "running", watching, events = << >>,
                      batch = << >>
               PROVE  InSync
    BY DEF HotReloadInSync
  <2>1. Len(batch \o events) = 0
    OBVIOUS
  <2>2. \A p \in Paths : Of(ld.slots, p) = Wanted(files[p])
    BY <2>1 DEF SyncInv, Follows, LastTells
  <2>3. ld.slots \in Seq(Slot)
    BY DEF IInv, Balanced, Loader, Slots
  <2>4. ASSUME NEW k \in LoadedSlots
        PROVE  LET p == ld.slots[k].path IN
               /\ p \in Paths /\ files[p] # NoFile /\ NameOf[files[p]] # Broken
               /\ ld.slots[k].image = files[p]
    <3> DEFINE p == ld.slots[k].path
    <3>1. k \in 1 .. Len(ld.slots) /\ ld.slots[k].loaded
      BY DEF LoadedSlots
    <3>2. ld.slots[k] \in Slot
      BY <2>3, <3>1, ElementIn
    <3>3. p \in Paths
      BY <3>2 DEF Slot
    <3>4. ld.slots[k].image \in Of(ld.slots, p)
      BY <3>1 DEF Of
    <3> HIDE DEF p
    <3>5. ld.slots[k].image \in Wanted(files[p])
      BY <2>2, <3>3, <3>4
    <3> QED BY <3>3, <3>5 DEF Wanted, p
  <2>5. ASSUME NEW p \in Paths, files[p] # NoFile, NameOf[files[p]] # Broken
        PROVE  \E k \in LoadedSlots : ld.slots[k].path = p /\ ld.slots[k].image = files[p]
    <3>1. files[p] \in Of(ld.slots, p)
      BY <2>2, <2>5 DEF Wanted
    <3> QED BY <3>1 DEF Of, LoadedSlots
  <2> QED BY <2>4, <2>5 DEF InSync
<1> QED BY <1>1, <1>2, InitSync, Invariance, PTL DEF Spec
=============================================================================
