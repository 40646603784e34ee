---------------------------- MODULE ProcMemProofs ---------------------------
(***************************************************************************)
(* The lookups of procmem always terminate and find what they should, and  *)
(* no delta is made up, whatever was scanned before: proved for every set  *)
(* of processes, pool size and number of buckets.                          *)
(***************************************************************************)
EXTENDS ProcMem, Lemmas

(* find_in_hash is a search of the chain its bucket begins with. *)
LEMMA FindIsSearch ==
  ASSUME NEW nodes, NEW heads, NEW p
  PROVE  Find(nodes, heads, p) = Search(PoolSize, nodes, heads[p % Buckets], p)
BY DEF Find, Search, Links, Ref, Nodes, NIL, Hash

(* The constants, as the lemmas about two tables want them. *)
LEMMA TableConstants ==
  /\ PoolSize \in Nat /\ Buckets \in Nat \ {0}
  /\ Pids \in SUBSET Nat /\ Values \in SUBSET Nat
  /\ MaxProcs \in Nat /\ TopN \in Nat
BY TableAssumption, ProcMemAssumption

(* What a collection can read. *)
LEMMA ReadingsHere == Reading = Readings(Pids, Values)
BY DEF Reading, Readings

(* The two tables, and what the last two collections read. *)
Tables == TwoTables(PoolSize, Buckets, Pids, Values, pool, poolIdx, current, previous,
                    seen, seenBefore)

(* Then they have their types, and every chain ends. *)
LEMMA TablesTyped == Tables => TableTypeOK /\ ChainsDescend
BY DEF Tables, TwoTables, PoolLinked, PoolNode, Links, TableTypeOK, ChainsDescend, Heads,
       Node, Ref, Nodes, NIL

Listed == IF scan = "scan" THEN changes ELSE growers \cup shrinkers \cup topRss

(* The inductive invariant.  The lists a collection is still to replace    *)
(* are about an earlier one; todo holds no process that was read already.  *)
IInv ==
  /\ Tables
  /\ scan \in {"idle", "scan"} /\ todo \subseteq Pids /\ hasPrevious \in BOOLEAN
  /\ seen \in Reading /\ seenBefore \in Reading
  /\ DOMAIN seen \cap todo = {}
  /\ ChangeRows(Pids, Values, MaxProcs, changes, seen, seenBefore)
  /\ \A S \in {growers, shrinkers, topRss} : S \subseteq Change /\ Cardinality(S) =< TopN
  /\ TrueRows(Listed, seen, seenBefore)

(* procmem_init establishes it. *)
LEMMA InitIInv == Init => IInv
<1> SUFFICES ASSUME Init PROVE IInv
  OBVIOUS
<1>1. /\ pool = [n \in 0 .. PoolSize - 1 |-> [pid |-> 0, val |-> 0, next |-> -1]]
      /\ poolIdx = 0 /\ current = [b \in 0 .. Buckets - 1 |-> -1] /\ previous = current
      /\ seen = [p \in {} |-> 0] /\ seenBefore = seen
  BY DEF Init, TableInit, EmptyHeads, Nodes, NIL, Nothing
<1>2. seen \in Reading /\ seenBefore \in Reading /\ DOMAIN seen = {}
  BY <1>1, ReadingGrows, ReadingsHere
<1>3. Tables
  BY <1>1, <1>2, TablesBegin, TableConstants DEF Tables
<1>4. /\ ChangeRows(Pids, Values, MaxProcs, {}, seen, seenBefore)
      /\ TrueRows({}, seen, seenBefore) /\ Cardinality({}) = 0
  BY NoRows, TableConstants, FS_EmptySet
<1>5. Listed = {}
  BY DEF Init, Listed
<1>6. \A S \in {growers, shrinkers, topRss} : S \subseteq Change /\ Cardinality(S) =< TopN
  BY <1>4, TableConstants DEF Init
<1> QED BY <1>2, <1>3, <1>4, <1>5, <1>6 DEF Init, IInv

(* Every step keeps the invariant. *)
LEMMA NextIInv == IInv /\ [Next]_vars => IInv'
<1> SUFFICES ASSUME IInv, [Next]_vars PROVE IInv'
  OBVIOUS
<1>1. CASE BeginCollect
  <2>1. /\ pool' = pool /\ poolIdx' = 0 /\ current' = [b \in 0 .. Buckets - 1 |-> -1]
        /\ previous' = current /\ seenBefore' = seen /\ seen' = [p \in {} |-> 0]
        /\ scan' = "scan" /\ todo' \in {Pids, {}} /\ changes' = {}
        /\ UNCHANGED <<hasPrevious, growers, shrinkers, topRss>>
    BY <1>1 DEF BeginCollect, Swap, EmptyHeads, NIL, Nothing
  <2>2. seen' \in Reading /\ DOMAIN seen' = {}
    BY <2>1, ReadingGrows, ReadingsHere
  <2>3. Tables'
    <3>1. TwoTables(PoolSize, Buckets, Pids, Values, pool, 0, current', current, seen', seen)
      BY <2>1, <2>2, TablesSwap, TableConstants DEF IInv, Tables
    <3> QED BY <2>1, <3>1 DEF Tables
  <2>4. /\ ChangeRows(Pids, Values, MaxProcs, {}, seen', seenBefore')
        /\ TrueRows({}, seen', seenBefore')
    BY NoRows, TableConstants
  <2>5. Listed' = {}
    BY <2>1 DEF Listed
  <2> QED BY <2>1, <2>2, <2>3, <2>4, <2>5 DEF IInv
<1>2. ASSUME UNCHANGED <<pool, poolIdx, current, previous, scan, changes, hasPrevious,
                         growers, shrinkers, topRss, seen, seenBefore>>,
             todo' \subseteq todo
      PROVE  IInv'
  BY <1>2 DEF IInv, Tables, Listed
<1>3. CASE SkipPid
  BY <1>2, <1>3 DEF SkipPid, tableVars, resultVars
<1>4. CASE PoolExhausted
  BY <1>2, <1>4 DEF PoolExhausted, tableVars, resultVars
<1>5. CASE UNCHANGED vars
  BY <1>2, <1>5 DEF vars
<1>6. CASE EndCollect
  <2>1. /\ growers' \in Top([c \in {x \in changes : x.delta > 0} |-> c.delta])
        /\ shrinkers' \in Top([c \in {x \in changes : x.delta < 0} |-> -c.delta])
        /\ topRss' \in Top([c \in changes |-> c.rss])
        /\ hasPrevious' = TRUE /\ scan' = "idle" /\ changes' = {} /\ scan = "scan"
        /\ UNCHANGED <<pool, poolIdx, current, previous, todo, seen, seenBefore>>
    BY <1>6 DEF EndCollect, tableVars
  <2>2. ASSUME NEW key, DOMAIN key \in SUBSET changes, NEW T \in Top(key)
        PROVE  T \subseteq changes /\ T \subseteq Change /\ Cardinality(T) =< TopN
    <3>1. T \in SUBSET DOMAIN key /\ Cardinality(T) = Min({TopN, Cardinality(DOMAIN key)})
      BY <2>2 DEF Top
    <3>2. ChangeRows(Pids, Values, MaxProcs, changes, seen, seenBefore)
      BY DEF IInv
    <3>3. T \subseteq changes /\ T \subseteq ChangeRow(Pids, Values) /\ Cardinality(T) =< TopN
      BY <2>2, <3>1, <3>2, RowsTaken, TableConstants
    <3> QED BY <3>3 DEF ChangeRow, Change, Delta
  <2>3. \A S \in {growers', shrinkers', topRss'} :
          S \subseteq changes /\ S \subseteq Change /\ Cardinality(S) =< TopN
    <3>1. /\ DOMAIN [c \in {x \in changes : x.delta > 0} |-> c.delta] \in SUBSET changes
          /\ DOMAIN [c \in {x \in changes : x.delta < 0} |-> -c.delta] \in SUBSET changes
          /\ DOMAIN [c \in changes |-> c.rss] \in SUBSET changes
      OBVIOUS
    <3>2. growers' \subseteq changes /\ growers' \subseteq Change /\ Cardinality(growers') =< TopN
      BY <2>1, <2>2, <3>1
    <3>3. /\ shrinkers' \subseteq changes /\ shrinkers' \subseteq Change
          /\ Cardinality(shrinkers') =< TopN
      BY <2>1, <2>2, <3>1
    <3>4. topRss' \subseteq changes /\ topRss' \subseteq Change /\ Cardinality(topRss') =< TopN
      BY <2>1, <2>2, <3>1
    <3> QED BY <3>2, <3>3, <3>4
  <2>4. TrueRows(Listed', seen', seenBefore')
    <3>1. Listed' \subseteq Listed
      BY <2>1, <2>3 DEF Listed
    <3> QED BY <2>1, <3>1 DEF IInv, TrueRows
  <2>5. ChangeRows(Pids, Values, MaxProcs, changes', seen', seenBefore')
    BY <2>1, NoRows, TableConstants
  <2> QED BY <2>1, <2>3, <2>4, <2>5 DEF IInv, Tables
<1>7. ASSUME NEW v \in Values, ReadPid(v) PROVE IInv'
  <2> DEFINE p == Min(todo)
             n == Search(PoolSize, pool', previous[p % Buckets], p)
             d == IF hasPrevious /\ n # -1 THEN v - pool'[n].val ELSE 0
             row == [pid |-> p, rss |-> v, delta |-> d]
  <2>1. /\ scan = "scan" /\ todo # {} /\ poolIdx < PoolSize /\ todo' = todo \ {p}
        /\ NodeStored(Buckets, pool, poolIdx, current, p, v, pool', current')
        /\ poolIdx' = poolIdx + 1 /\ previous' = previous
        /\ changes' = IF Cardinality(changes) < MaxProcs THEN changes \cup {row}
                      ELSE changes
        /\ seen' = ReadToo(seen, p, v)
        /\ UNCHANGED <<scan, hasPrevious, growers, shrinkers, topRss, seenBefore>>
    BY <1>7, FindIsSearch
       DEF ReadPid, resultVars, HasRoom, Insert, Hash, NodeStored, ReadToo, DeltaOf, NIL
  <2>2. p \in todo /\ p \in Pids /\ p \notin DOMAIN seen
    <3>1. todo \in SUBSET Nat
      BY TableConstants DEF IInv
    <3>2. p \in todo
      BY <2>1, <3>1, MinIsLeast
    <3> QED BY <3>2 DEF IInv
  <2> HIDE DEF p
  <2>3. /\ TwoTables(PoolSize, Buckets, Pids, Values, pool', poolIdx + 1, current', previous,
                     seen', seenBefore)
        /\ FindEither(PoolSize, Buckets, Pids, pool', previous, seen', seenBefore)
        /\ seen' \in Reading /\ DOMAIN seen' = DOMAIN seen \cup {p} /\ seen'[p] = v
    <3>1. /\ seen \in Readings(Pids, Values)
          /\ TwoTables(PoolSize, Buckets, Pids, Values, pool, poolIdx, current, previous,
                       seen, seenBefore)
      BY ReadingsHere DEF IInv, Tables
    <3>2. /\ poolIdx < PoolSize /\ seen' = ReadToo(seen, p, v)
          /\ NodeStored(Buckets, pool, poolIdx, current, p, v, pool', current')
      BY <2>1
    <3> HIDE DEF n, d, row
    <3> DEFINE new == ReadToo(seen, p, v)
    <3>3. TwoTables(PoolSize, Buckets, Pids, Values, pool', poolIdx + 1, current', previous,
                    new, seenBefore)
      BY <2>2, <3>1, <3>2, TablesStore, TableConstants
    <3>4. FindEither(PoolSize, Buckets, Pids, pool', previous, new, seenBefore)
      BY <3>3, PreviousFinds, TableConstants
    <3>5. new \in Readings(Pids, Values)
      BY <2>2, <3>1, ReadingGrows
    <3>6. DOMAIN new = DOMAIN seen \cup {p} /\ new[p] = v
      BY DEF ReadToo
    <3> HIDE DEF new
    <3> QED BY <3>2, <3>3, <3>4, <3>5, <3>6, ReadingsHere DEF new
  <2>4. ChangeRows(Pids, Values, MaxProcs, changes', seen', seenBefore)
    <3>1. \/ d = 0 \/ d = seen'[p] - seen'[p]
          \/ p \in DOMAIN seenBefore /\ d = seen'[p] - seenBefore[p]
      BY <2>2, <2>3 DEF FindEither
    <3>2. /\ seen \in Readings(Pids, Values) /\ seenBefore \in Readings(Pids, Values)
          /\ ChangeRows(Pids, Values, MaxProcs, changes, seen, seenBefore)
      BY ReadingsHere DEF IInv
    <3> HIDE DEF d
    <3> QED BY <2>1, <2>2, <3>1, <3>2, RowRead, TableConstants
  <2>5. Tables' /\ seen' \in Reading /\ seenBefore' \in Reading
    BY <2>1, <2>3, ReadingsHere DEF IInv, Tables
  <2>6. TrueRows(Listed', seen', seenBefore')
    <3>1. Listed' = changes'
      BY <2>1 DEF Listed
    <3> QED BY <2>1, <2>4, <3>1 DEF ChangeRows
  <2>7. DOMAIN seen' \cap todo' = {} /\ todo' \subseteq Pids
    BY <2>1, <2>3 DEF IInv
  <2> QED BY <2>1, <2>4, <2>5, <2>6, <2>7 DEF IInv
<1> QED BY <1>1, <1>3, <1>4, <1>5, <1>6, <1>7 DEF Next

-----------------------------------------------------------------------------
(* Every chain of procmem's two tables ends, during and between            *)
(* collections, although previous is rewritten through the shared pool.    *)
THEOREM ChainsDescendHolds == Spec => []ChainsDescend
<1>1. IInv => ChainsDescend
  BY TablesTyped DEF IInv
<1> QED BY <1>1, InitIInv, NextIInv, PTL DEF Spec

(* procmem's arrays never overflow: all_changes stays within MAX_PROCS,    *)
(* the lists within TOP_N, and every delta is the difference of readings.  *)
THEOREM TypeCorrect == Spec => []TypeOK
<1>1. IInv => TypeOK
  BY TablesTyped DEF IInv, ChangeRows, ChangeRow, Change, Delta, TypeOK
<1> QED BY <1>1, InitIInv, NextIInv, PTL DEF Spec

(* procmem_get_pid_info finds exactly the processes of the last            *)
(* collection, with the memory it read.                                    *)
THEOREM CurrentFaithfulHolds == Spec => []CurrentFaithful
<1>1. IInv => CurrentFaithful
  BY FindIsSearch
     DEF IInv, Tables, TwoTables, FindReadings, CurrentFaithful, Known, PidInfo, NIL
<1> QED BY <1>1, InitIInv, NextIInv, PTL DEF Spec

(* Neither a list nor procmem_get_pid_info ever shows a delta other than 0 *)
(* that is not the difference of the last two readings of the process,     *)
(* although half the nodes of previous may have been rewritten.            *)
THEOREM DeltaNeverInventedHolds == Spec => []DeltaNeverInvented
<1>1. IInv => DeltaNeverInvented
  <2> SUFFICES ASSUME IInv,
                      NEW c \in Listed \cup {PidInfo(p) : p \in {q \in Pids : Known(q)}},
                      c.delta # 0
               PROVE  /\ c.pid \in DOMAIN seen \cap DOMAIN seenBefore
                      /\ c.delta = seen[c.pid] - seenBefore[c.pid]
    BY DEF DeltaNeverInvented, Listed
  <2>1. CASE c \in Listed
    BY <2>1 DEF IInv, TrueRows, TrueRow
  <2>2. ASSUME NEW p \in Pids, Known(p), c = PidInfo(p)
        PROVE  /\ c.pid \in DOMAIN seen \cap DOMAIN seenBefore
               /\ c.delta = seen[c.pid] - seenBefore[c.pid]
    <3> DEFINE m == Search(PoolSize, pool, current[p % Buckets], p)
               n == Search(PoolSize, pool, previous[p % Buckets], p)
    <3>1. m # -1 /\ p \in DOMAIN seen /\ pool[m].val = seen[p]
      BY <2>2, FindIsSearch DEF IInv, Tables, TwoTables, FindReadings, Known, NIL
    <3>2. c.pid = p /\ c.delta = IF hasPrevious /\ n # -1 THEN seen[p] - pool[n].val ELSE 0
      BY <2>2, <3>1, FindIsSearch DEF PidInfo, DeltaOf, NIL
    <3>3. FindEither(PoolSize, Buckets, Pids, pool, previous, seen, seenBefore)
      BY PreviousFinds, TableConstants DEF IInv, Tables
    <3>4. \/ c.delta = 0 \/ c.delta = seen[p] - seen[p]
          \/ p \in DOMAIN seenBefore /\ c.delta = seen[p] - seenBefore[p]
      BY <3>2, <3>3 DEF FindEither
    <3>5. seen \in Readings(Pids, Values) /\ seenBefore \in Readings(Pids, Values)
      BY ReadingsHere DEF IInv
    <3> HIDE DEF m, n
    <3>6. p \in DOMAIN seenBefore /\ c.delta = seen[p] - seenBefore[p]
      BY <3>1, <3>4, <3>5, DifferenceIsTrue, TableConstants
    <3> QED BY <3>1, <3>2, <3>6
  <2> QED BY <2>1, <2>2
<1> QED BY <1>1, InitIInv, NextIInv, PTL DEF Spec
=============================================================================
