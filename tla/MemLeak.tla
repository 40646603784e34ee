------------------------------ MODULE MemLeak -------------------------------
(***************************************************************************)
(* The memleak service (src/services/memleak.c): it owns copies of procmem,*)
(* slabinfo, heapmon and meminfo and collects them one after the other.    *)
(* heapmon takes its targets from procmem's lists and the resident size of *)
(* a target from procmem's table, so the order matters; slabinfo and       *)
(* meminfo share nothing with the other two and are left out.              *)
(***************************************************************************)
EXTENDS Integers, SequencesExt

CONSTANTS
  LeakPids,       \* processes procmem finds
  LeakSizes,      \* resident sizes procmem reads
  LeakHeaps,      \* resident sizes of a heap
  LeakTargets,    \* MAX_TARGETS of heapmon.c
  LeakBaselines,  \* entries of initial[] in heapmon.c
  LeakMaxProcs,   \* MAX_PROCS of procmem.c
  LeakTopN,       \* TOP_N of procmem.c
  Shown           \* entries per list of the snapshot, 10

ASSUME MemLeakAssumption ==
  /\ LeakPids \subseteq Nat \ {0} /\ LeakSizes \subseteq Nat /\ LeakHeaps \subseteq Nat
  /\ LeakTargets \in Nat /\ LeakTargets % 2 = 0 /\ LeakBaselines \in Nat
  /\ LeakMaxProcs \in Nat \ {0} /\ LeakTopN \in Nat \ {0} /\ Shown \in Nat

VARIABLES
  mlStage,        \* position in CollectOrder, 0 between collections
  mlPool, mlPoolIdx, mlCurrent, mlPrevious, mlScan, mlTodo, mlChanges,
  mlHasPrevious, mlGrowers, mlShrinkers, mlTopRss, mlSeen, mlSeenBefore,
  mlHeapPhase, mlTargets, mlHeapCurrent, mlHeapPrevious, mlHeapInitial, mlResults

Mem == INSTANCE ProcMem WITH
         Pids <- LeakPids, Values <- LeakSizes, Buckets <- 1,
         PoolSize <- 2 * LeakMaxProcs, MaxProcs <- LeakMaxProcs, TopN <- LeakTopN,
         pool <- mlPool, poolIdx <- mlPoolIdx, current <- mlCurrent,
         previous <- mlPrevious, scan <- mlScan, todo <- mlTodo,
         changes <- mlChanges, hasPrevious <- mlHasPrevious, growers <- mlGrowers,
         shrinkers <- mlShrinkers, topRss <- mlTopRss,
         seen <- mlSeen, seenBefore <- mlSeenBefore

Heap == INSTANCE HeapMon WITH
          HeapPids <- LeakPids, Heaps <- LeakHeaps, Totals <- LeakSizes \cup {0},
          MaxTargets <- LeakTargets, HeapPoolSize <- LeakBaselines,
          heapPhase <- mlHeapPhase, heapTargets <- mlTargets,
          heapCurrent <- mlHeapCurrent, heapPrevious <- mlHeapPrevious,
          heapInitial <- mlHeapInitial, heapResults <- mlResults

leakMemVars == <<mlPool, mlPoolIdx, mlCurrent, mlPrevious, mlScan, mlTodo, mlChanges,
                 mlHasPrevious, mlGrowers, mlShrinkers, mlTopRss, mlSeen, mlSeenBefore>>
leakHeapVars == <<mlHeapPhase, mlTargets, mlHeapCurrent, mlHeapPrevious, mlHeapInitial,
                  mlResults>>
leakVars == <<mlStage, leakMemVars, leakHeapVars>>

\* A slip: the heaps are looked at before the processes are scanned.
HeapsFirst == <<"heapmon", "procmem">>

(* memleak_collect *)
CollectOrder == <<"procmem", "heapmon">>

LeakTypeOK == mlStage \in 0 .. Len(CollectOrder) /\ Mem!TypeOK /\ Heap!HeapTypeOK

(* memleak_init *)
LeakInit == mlStage = 0 /\ Mem!Init /\ Heap!HeapInit

At(service) == mlStage # 0 /\ CollectOrder[mlStage] = service

Advance == mlStage' = (mlStage + 1) % (Len(CollectOrder) + 1)

LeakBegin ==
  /\ mlStage = 0 /\ Advance
  /\ UNCHANGED <<leakMemVars, leakHeapVars>>

(* procmem_collect *)
LeakProcMem ==
  /\ At("procmem")
  /\ Mem!Next
  /\ IF mlScan' = "idle" THEN Advance ELSE UNCHANGED mlStage
  /\ UNCHANGED leakHeapVars

(* procmem_get_top_growers and procmem_get_top_rss: the first entries of a *)
(* list that is sorted by key, largest first.                              *)
FirstPids(key) ==
  {[i \in 1 .. Min({Len(s), LeakTargets \div 2}) |-> s[i].pid] :
     s \in {t \in [1 .. Cardinality(DOMAIN key) -> DOMAIN key] :
              /\ IsInjective(t)
              /\ \A i, j \in DOMAIN t : i < j => key[t[i]] >= key[t[j]]}}

(* What procmem_get_pid_info says of a process, 0 if it has none. *)
RssOf(p) == IF Mem!Known(p) THEN Mem!PidInfo(p).rss ELSE 0

(* heapmon_collect, on procmem's lists and table *)
LeakHeapMon ==
  /\ At("heapmon")
  /\ \/ \E growers \in FirstPids([c \in mlGrowers |-> c.delta]),
          top \in FirstPids([c \in mlTopRss |-> c.rss]) :
         Heap!HeapBeginCollect(Heap!TargetsOf(growers, top))
     \/ Heap!HeapSkipTarget
     \/ /\ mlTargets # << >>
        /\ \E h \in LeakHeaps : Heap!HeapScanTarget(h, RssOf(Head(mlTargets)))
     \/ Heap!HeapEndCollect
  /\ IF mlHeapPhase' = "idle" THEN Advance ELSE UNCHANGED mlStage
  /\ UNCHANGED leakMemVars

LeakNext == LeakBegin \/ LeakProcMem \/ LeakHeapMon

(* heapmon_get_entries, "user_leaks" of memleak_snapshot *)
UserLeaks == SubSeq(mlResults, 1, Min({Len(mlResults), Shown}))

(* An entry of heapmon_get_top_consumers *)
Usage(cur) ==
  [pid |-> cur.pid, heap |-> cur.heap,
   rss |-> IF Mem!Known(cur.pid) THEN Mem!PidInfo(cur.pid).rss ELSE cur.heap]

(* compare_consumers: x is sorted before y *)
Before(x, y) == x.heap > y.heap \/ (x.heap = y.heap /\ x.rss > y.rss)

(* heapmon_get_top_consumers, "process_usage" of memleak_snapshot, but for *)
(* the order of its entries                                                *)
ProcessUsage ==
  LET all == {Usage(mlHeapCurrent[i]) : i \in 1 .. Len(mlHeapCurrent)}
  IN  {x \in all : Cardinality({y \in all : Before(y, x)}) < Shown}

-----------------------------------------------------------------------------
(* The two process lists of a snapshot are about one and the same          *)
(* collection: every size in them is what procmem read for that process in *)
(* this collection, so a process that is in both shows the same numbers.   *)
LeaksOfThisCollection ==
  mlStage = 0 =>
    \A e \in ToSet(UserLeaks) \cup ProcessUsage :
      /\ e.pid \in DOMAIN mlSeen /\ e.rss = mlSeen[e.pid]
      /\ \A u \in ProcessUsage : u.pid = e.pid => u.heap = e.heap
=============================================================================
