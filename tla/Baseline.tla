------------------------------ MODULE Baseline ------------------------------
(***************************************************************************)
(* What fdmon and heapmon (src/services/fdmon.c, heapmon.c) share: arrays  *)
(* of samples searched linearly by pid, a pool of first-seen samples that  *)
(* only ever grows, and lists of the largest entries.                      *)
(***************************************************************************)
EXTENDS Integers, Sequences, FiniteSets, SequencesExt, FiniteSetsExt

(* find_previous: the position of pid p in the array, 0 for NULL. *)
Find(samples, p) == SelectInSeq(samples, LAMBDA x : x.pid = p)

\* A slip: an existing entry is brought up to date.
FindOrCreateUpdating(pool, max, sample) ==
  LET k == Find(pool, sample.pid) IN
  IF k # 0 THEN [pool EXCEPT ![k] = sample]
  ELSE IF Len(pool) < max THEN Append(pool, sample) ELSE pool

\* A slip: a full pool grows by one.
FindOrCreateOverrun(pool, max, sample) ==
  IF Find(pool, sample.pid) # 0 THEN pool
  ELSE IF Len(pool) <= max THEN Append(pool, sample) ELSE pool

(* find_or_create_initial: the pool afterwards. *)
FindOrCreate(pool, max, sample) ==
  IF Find(pool, sample.pid) # 0 \/ Len(pool) >= max THEN pool
  ELSE Append(pool, sample)

(* The baseline a sample is compared with: itself when the pool is full.   *)
InitialOf(pool, max, sample) ==
  LET new == FindOrCreate(pool, max, sample)
      k   == Find(new, sample.pid)
  IN  IF k # 0 THEN new[k] ELSE sample

(* The first n of the keyed elements sorted by key, largest first; equal   *)
(* keys in any order.                                                      *)
Largest(key, n) ==
  {T \in SUBSET DOMAIN key :
     /\ Cardinality(T) = Min({n, Cardinality(DOMAIN key)})
     /\ \A x \in T, y \in DOMAIN key \ T : key[x] >= key[y]}
=============================================================================
