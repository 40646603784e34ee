------------------------------ MODULE ProcMem -------------------------------
(***************************************************************************)
(* The procmem service (src/services/procmem.c): resident memory per       *)
(* process, and the largest growers, shrinkers and consumers of each       *)
(* collection.  VmData is handled exactly like VmRSS and left out.  A scan *)
(* of /proc visits the pids in ascending order and reads each process once;*)
(* what it finds is chosen here, process by process.                       *)
(***************************************************************************)
EXTENDS PidTable, FiniteSetsExt

CONSTANTS
  MaxProcs,   \* MAX_PROCS
  TopN        \* TOP_N

ASSUME ProcMemAssumption ==
  /\ MaxProcs \in Nat \ {0} /\ TopN \in Nat \ {0}
  /\ PoolSize = 2 * MaxProcs

VARIABLES
  scan,         \* "idle" between collections, "scan" inside one
  todo,         \* pids proc_iterate_pids has not reached
  changes,      \* all_changes
  hasPrevious,  \* has_previous
  growers, shrinkers, topRss,
  seen,         \* what this collection read (for the properties)
  seenBefore    \* what the previous collection read

resultVars == <<growers, shrinkers, topRss>>
vars == <<pool, poolIdx, current, previous, scan, todo, changes, hasPrevious,
          growers, shrinkers, topRss, seen, seenBefore>>

Delta == {v - w : v, w \in Values} \cup {0}
Change == [pid : Pids, rss : Values, delta : Delta]
Reading == UNION {[P -> Values] : P \in SUBSET Pids}

TypeOK ==
  /\ TableTypeOK
  /\ scan \in {"idle", "scan"}
  /\ todo \subseteq Pids
  /\ \A S \in {changes, growers, shrinkers, topRss} : S \subseteq Change
  /\ Cardinality(changes) <= MaxProcs
  /\ \A S \in {growers, shrinkers, topRss} : Cardinality(S) <= TopN
  /\ hasPrevious \in BOOLEAN
  /\ seen \in Reading /\ seenBefore \in Reading

Nothing == [p \in {} |-> 0]

(* procmem_init *)
Init ==
  /\ TableInit
  /\ scan = "idle" /\ todo = {} /\ hasPrevious = FALSE
  /\ changes = {} /\ growers = {} /\ shrinkers = {} /\ topRss = {}
  /\ seen = Nothing /\ seenBefore = Nothing

(* procmem_collect up to proc_iterate_pids, which finds nothing when /proc *)
(* cannot be opened.                                                       *)
BeginCollect ==
  /\ scan = "idle"
  /\ Swap
  /\ scan' = "scan"
  /\ todo' \in {Pids, {}}
  /\ changes' = {}
  /\ seenBefore' = seen /\ seen' = Nothing
  /\ UNCHANGED <<hasPrevious, growers, shrinkers, topRss>>

(* collect_callback for a process that is gone, or a kernel thread. *)
SkipPid ==
  /\ scan = "scan" /\ todo # {}
  /\ todo' = todo \ {Min(todo)}
  /\ UNCHANGED <<tableVars, scan, changes, hasPrevious, resultVars, seen, seenBefore>>

\* A slip: a process without an entry is compared with node 0.
DeltaFromFirstNode(nodes, p, v) ==
  LET prev == Find(nodes, previous, p)
  IN  IF hasPrevious THEN v - nodes[IF prev = NIL THEN 0 ELSE prev].val ELSE 0

(* The delta of a process, looked up after its new node is in place. *)
DeltaOf(nodes, p, v) ==
  LET prev == Find(nodes, previous, p)
  IN  IF hasPrevious /\ prev # NIL THEN v - nodes[prev].val ELSE 0

(* collect_callback for a process whose memory could be read. *)
ReadPid(v) ==
  /\ scan = "scan" /\ todo # {} /\ HasRoom
  /\ LET p == Min(todo) IN
     /\ todo' = todo \ {p}
     /\ Insert(p, v)
     /\ changes' = IF Cardinality(changes) < MaxProcs
                   THEN changes \cup {[pid |-> p, rss |-> v,
                                       delta |-> DeltaOf(pool', p, v)]}
                   ELSE changes
     /\ seen' = [q \in DOMAIN seen \cup {p} |-> IF q = p THEN v ELSE seen[q]]
  /\ UNCHANGED <<scan, hasPrevious, resultVars, seenBefore>>

(* collect_callback when the pool is exhausted: the scan stops. *)
PoolExhausted ==
  /\ scan = "scan" /\ todo # {} /\ ~HasRoom
  /\ todo' = {}
  /\ UNCHANGED <<tableVars, scan, changes, hasPrevious, resultVars, seen, seenBefore>>

(* The first TopN of the keyed changes sorted by key, largest first; qsort *)
(* may order equal keys as it likes.                                       *)
Top(key) ==
  {T \in SUBSET DOMAIN key :
     /\ Cardinality(T) = Min({TopN, Cardinality(DOMAIN key)})
     /\ \A x \in T, y \in DOMAIN key \ T : key[x] >= key[y]}

(* The rest of procmem_collect: sort and take the three lists. *)
EndCollect ==
  /\ scan = "scan" /\ todo = {}
  /\ growers' \in Top([c \in {x \in changes : x.delta > 0} |-> c.delta])
  /\ shrinkers' \in Top([c \in {x \in changes : x.delta < 0} |-> -c.delta])
  /\ topRss' \in Top([c \in changes |-> c.rss])
  /\ hasPrevious' = TRUE
  /\ scan' = "idle"
  /\ changes' = {}
  /\ UNCHANGED <<tableVars, todo, seen, seenBefore>>

Next ==
  \/ BeginCollect \/ SkipPid \/ PoolExhausted \/ EndCollect
  \/ \E v \in Values : ReadPid(v)

Spec == Init /\ [][Next]_vars

(* procmem_get_pid_info, for a process it finds; heapmon calls it between  *)
(* collections.                                                            *)
Known(p) == Find(pool, current, p) # NIL

PidInfo(p) ==
  LET v == pool[Find(pool, current, p)].val
  IN  [pid |-> p, rss |-> v, delta |-> DeltaOf(pool, p, v)]

-----------------------------------------------------------------------------
(* procmem_get_pid_info finds exactly the processes of the last collection *)
(* and their last reading, in spite of the shared pool.                    *)
CurrentFaithful ==
  \A p \in Pids :
    IF p \in DOMAIN seen THEN Known(p) /\ PidInfo(p).rss = seen[p] ELSE ~Known(p)

(* A delta is never made up, neither in the lists nor in the answers of    *)
(* procmem_get_pid_info: a node that was rewritten shows the process       *)
(* itself (delta 0), any other still holds the previous reading.           *)
DeltaNeverInvented ==
  \A c \in (IF scan = "scan" THEN changes ELSE growers \cup shrinkers \cup topRss)
           \cup {PidInfo(p) : p \in {q \in Pids : Known(q)}} :
    c.delta # 0 =>
      /\ c.pid \in DOMAIN seen \cap DOMAIN seenBefore
      /\ c.delta = seen[c.pid] - seenBefore[c.pid]

(* What procmem.h promises of procmem_get_top_growers, "Get top N RSS      *)
(* growers": as long as the list has room, a process that both of the last *)
(* two collections read is in it when it has grown between them.           *)
GrowersListed ==
  (scan = "idle" /\ Cardinality(growers) < TopN) =>
    \A p \in DOMAIN seen \cap DOMAIN seenBefore :
      seen[p] > seenBefore[p] => \E c \in growers : c.pid = p
=============================================================================
