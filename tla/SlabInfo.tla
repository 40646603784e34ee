------------------------------ MODULE SlabInfo ------------------------------
(***************************************************************************)
(* The slabinfo service (src/services/slabinfo.c): the size of every slab  *)
(* cache, and the caches that grew and shrank most between two readings of *)
(* /proc/slabinfo.  A reading may fail; caches come and go; only the first *)
(* MaxSlabs lines are kept.                                                *)
(***************************************************************************)
EXTENDS Integers, FiniteSets, FiniteSetsExt

CONSTANTS
  Caches,     \* slab caches, numbered in the order of /proc/slabinfo
  Sizes,      \* sizes of a cache
  MaxSlabs,   \* MAX_SLABS
  MinDelta,   \* MIN_DELTA_BYTES
  TopN        \* TOP_N

ASSUME SlabAssumption ==
  /\ Caches \subseteq Nat /\ IsFiniteSet(Caches) /\ Sizes \subseteq Nat
  /\ MaxSlabs \in Nat /\ MinDelta \in Nat \ {0} /\ TopN \in Nat

VARIABLES
  slabCurrent, slabPrevious,   \* size by cache
  slabHasPrevious,
  slabGrowers, slabShrinkers,
  slabNewer, slabOlder         \* ghosts: the last two successful readings

slabVars == <<slabCurrent, slabPrevious, slabHasPrevious, slabGrowers, slabShrinkers,
              slabNewer, slabOlder>>

SlabReading == UNION {[C -> Sizes] : C \in SUBSET Caches}
SlabNothing == [c \in {} |-> 0]
SlabEntry == [cache : Caches, size : Sizes, delta : {v - w : v, w \in Sizes}]

SlabTypeOK ==
  /\ \A r \in {slabCurrent, slabPrevious} :
       r \in SlabReading /\ Cardinality(DOMAIN r) <= MaxSlabs
  /\ slabHasPrevious \in BOOLEAN
  /\ \A S \in {slabGrowers, slabShrinkers} :
       S \subseteq SlabEntry /\ Cardinality(S) <= TopN

SlabInit ==
  /\ slabCurrent = SlabNothing /\ slabPrevious = SlabNothing /\ slabHasPrevious = FALSE
  /\ slabGrowers = {} /\ slabShrinkers = {}
  /\ slabNewer = SlabNothing /\ slabOlder = SlabNothing

(* parse_slabinfo stops when the array is full. *)
Kept(r) ==
  [c \in {x \in DOMAIN r : Cardinality({y \in DOMAIN r : y < x}) < MaxSlabs} |-> r[c]]

Abs(n) == IF n < 0 THEN -n ELSE n

\* A slip: a cache that was not there before counts from 0.
SlabChangesFromZero(prev, cur) ==
  {[cache |-> c, size |-> cur[c],
    delta |-> cur[c] - IF c \in DOMAIN prev THEN prev[c] ELSE 0] : c \in DOMAIN cur}

(* all_changes: the caches present in both readings that changed enough. *)
SlabChanges(prev, cur) ==
  {e \in {[cache |-> c, size |-> cur[c], delta |-> cur[c] - prev[c]] :
            c \in DOMAIN cur \cap DOMAIN prev} : Abs(e.delta) >= MinDelta}

(* The first TopN of the keyed entries, largest first; equal keys in any   *)
(* order.                                                                  *)
SlabTop(key) ==
  {T \in SUBSET DOMAIN key :
     /\ Cardinality(T) = Min({TopN, Cardinality(DOMAIN key)})
     /\ \A x \in T, y \in DOMAIN key \ T : key[x] >= key[y]}

(* slabinfo_collect *)
SlabCollect(r) ==
  LET cur == Kept(r)
      all == IF slabHasPrevious THEN SlabChanges(slabCurrent, cur) ELSE {}
  IN  /\ slabPrevious' = slabCurrent /\ slabCurrent' = cur
      /\ slabGrowers' \in SlabTop([e \in {x \in all : x.delta > 0} |-> e.delta])
      /\ slabShrinkers' \in SlabTop([e \in {x \in all : x.delta < 0} |-> -e.delta])
      /\ slabHasPrevious' = TRUE
      /\ slabOlder' = slabNewer /\ slabNewer' = cur

(* slabinfo_collect when the file cannot be read: the copy to previous[]   *)
(* has been made, everything else stays, the lists included.               *)
SlabCollectFailed ==
  /\ slabPrevious' = slabCurrent
  /\ UNCHANGED <<slabCurrent, slabHasPrevious, slabGrowers, slabShrinkers,
                 slabNewer, slabOlder>>

SlabNext == (\E r \in SlabReading : SlabCollect(r)) \/ SlabCollectFailed

SlabSpec == SlabInit /\ [][SlabNext]_slabVars

(* slabinfo_get_top_consumers before it sorts and cuts: every cache that   *)
(* is not empty, with its change since previous[].  memleak calls it after *)
(* a collection.                                                           *)
SlabConsumers ==
  {[cache |-> c, size |-> slabCurrent[c],
    delta |-> IF slabHasPrevious /\ c \in DOMAIN slabPrevious
              THEN slabCurrent[c] - slabPrevious[c] ELSE 0] :
     c \in {d \in DOMAIN slabCurrent : slabCurrent[d] # 0}}

-----------------------------------------------------------------------------
(* Failed readings do not disturb the comparison: the lists always compare *)
(* the last two readings that succeeded, hold no cache that changed by     *)
(* less than the threshold, and miss none while they have room.  The       *)
(* consumers, computed on demand from the arrays, show those changes too,  *)
(* or none at all once a reading has failed.                               *)
ListsSpanReadings ==
  LET delta(c) == slabNewer[c] - slabOlder[c]
      common == DOMAIN slabNewer \cap DOMAIN slabOlder
      grown == {c \in common : delta(c) >= MinDelta}
      shrunk == {c \in common : delta(c) <= -MinDelta}
  IN  /\ \A e \in slabGrowers \cup slabShrinkers :
           /\ e.cache \in common
           /\ e.delta = delta(e.cache) /\ e.size = slabNewer[e.cache]
           /\ Abs(e.delta) >= MinDelta
      /\ Cardinality(slabGrowers) = Min({TopN, Cardinality(grown)})
      /\ Cardinality(slabShrinkers) = Min({TopN, Cardinality(shrunk)})
      /\ \A e \in SlabConsumers :
           /\ e.size = slabNewer[e.cache]
           /\ e.delta # 0 => e.cache \in common /\ e.delta = delta(e.cache)
=============================================================================
