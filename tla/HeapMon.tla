------------------------------ MODULE HeapMon -------------------------------
(***************************************************************************)
(* The heapmon service (src/services/heapmon.c): it takes the processes    *)
(* procmem reports as growing most and as largest, reads the heap of each  *)
(* from smaps, and ranks them by what they gained since they were first    *)
(* looked at.  Heap size and private dirty memory are handled like the     *)
(* heap's resident size and left out, and so is procmem's RSS delta, which *)
(* the results pass on.                                                    *)
(***************************************************************************)
EXTENDS Baseline

CONSTANTS
  HeapPids,
  Heaps,       \* resident sizes of a heap, in KB
  Totals,      \* resident sizes of a process, in KB; 0 when procmem has none
  MaxTargets,  \* MAX_TARGETS
  HeapPoolSize     \* entries of initial[], MAX_TARGETS * 4

ASSUME HeapMonAssumption ==
  /\ Heaps \subseteq Nat /\ Totals \subseteq Nat /\ HeapPoolSize \in Nat
  /\ MaxTargets \in Nat /\ MaxTargets % 2 = 0

VARIABLES
  heapPhase,      \* "idle", "scan"
  heapTargets,    \* targets[] from the one being scanned on
  heapCurrent, heapPrevious, heapInitial,
  heapResults

heapVars == <<heapPhase, heapTargets, heapCurrent, heapPrevious, heapInitial, heapResults>>

HeapSample == [pid : HeapPids, heap : Heaps]
HeapBase == [pid : HeapPids, heap : Heaps, rss : Totals]
HeapResult == [pid : HeapPids, heap : Heaps, rss : Totals,
           heapDelta : {v - w : v, w \in Heaps} \cup {0},
           initialHeap : Heaps, initialRss : Totals]

HeapTypeOK ==
  /\ heapPhase \in {"idle", "scan"}
  /\ heapTargets \in Seq(HeapPids) /\ Len(heapTargets) <= MaxTargets
  /\ heapCurrent \in Seq(HeapSample) /\ heapPrevious \in Seq(HeapSample)
  /\ heapInitial \in Seq(HeapBase)
  /\ Len(heapCurrent) <= MaxTargets /\ Len(heapInitial) <= HeapPoolSize
  /\ heapResults \in Seq(HeapResult) /\ Len(heapResults) = Len(heapCurrent)

HeapInit ==
  /\ heapPhase = "idle" /\ heapTargets = << >>
  /\ heapCurrent = << >> /\ heapPrevious = << >>
  /\ heapInitial = << >> /\ heapResults = << >>

(* A list procmem_get_top_growers or procmem_get_top_rss may return: no    *)
(* process twice, and at most half of the targets.                         *)
Lists == {s \in SeqOf(HeapPids, MaxTargets \div 2) : IsInjective(s)}

\* A slip: a process on both lists becomes a target twice.
TargetsOfBoth(growers, top) == growers \o top

(* One of the largest, unless it is a target already or there is no room. *)
AddTarget(targets, p) ==
  IF Contains(targets, p) \/ Len(targets) >= MaxTargets THEN targets
  ELSE Append(targets, p)

(* The growers, then the largest that are not yet among them. *)
TargetsOf(growers, top) == FoldLeft(AddTarget, growers, top)

(* heapmon_collect up to the scan *)
HeapBeginCollect(targets) ==
  /\ heapPhase = "idle" /\ heapPhase' = "scan"
  /\ heapPrevious' = heapCurrent
  /\ heapTargets' = targets
  /\ heapCurrent' = << >> /\ heapResults' = << >>
  /\ UNCHANGED heapInitial

(* parse_heap_smaps fails: the process has exited. *)
HeapSkipTarget ==
  /\ heapPhase = "scan" /\ heapTargets # << >>
  /\ heapTargets' = Tail(heapTargets)
  /\ UNCHANGED <<heapPhase, heapCurrent, heapPrevious, heapInitial, heapResults>>

(* The heap of the next target has h KB resident, the process r KB by      *)
(* procmem_get_pid_info (0 when that does not find the process).           *)
HeapScanTarget(h, r) ==
  /\ heapPhase = "scan" /\ heapTargets # << >>
  /\ LET p == Head(heapTargets)
         s == [pid |-> p, heap |-> h, rss |-> r]
         k == Find(heapPrevious, p)
         base == InitialOf(heapInitial, HeapPoolSize, s)
     IN  /\ heapCurrent' = Append(heapCurrent, [pid |-> p, heap |-> h])
         /\ heapInitial' = FindOrCreate(heapInitial, HeapPoolSize, s)
         /\ heapResults' = Append(heapResults,
              [pid |-> p, heap |-> h, rss |-> r,
               heapDelta |-> IF k # 0 THEN h - heapPrevious[k].heap ELSE 0,
               initialHeap |-> base.heap, initialRss |-> base.rss])
  /\ heapTargets' = Tail(heapTargets)
  /\ UNCHANGED <<heapPhase, heapPrevious>>

Gain(e) == e.rss - e.initialRss

(* The two nested loops that sort the results: for every i, every j > i is *)
(* compared with position i and exchanged when it gained more.             *)
Exchanged(r, i, j) ==
  IF i < j /\ Gain(r[j]) > Gain(r[i]) THEN [r EXCEPT ![i] = r[j], ![j] = r[i]]
  ELSE r

Pass(r, i) == FoldLeftDomain(LAMBDA q, j : Exchanged(q, i, j), r, r)

Sorted(s) == FoldLeftDomain(Pass, s, s)

HeapEndCollect ==
  /\ heapPhase = "scan" /\ heapTargets = << >>
  /\ heapResults' = Sorted(heapResults)
  /\ heapPhase' = "idle"
  /\ UNCHANGED <<heapTargets, heapCurrent, heapPrevious, heapInitial>>

HeapNext ==
  \/ \E targets \in {TargetsOf(growers, top) : growers, top \in Lists} :
       HeapBeginCollect(targets)
  \/ HeapSkipTarget \/ HeapEndCollect
  \/ \E h \in Heaps, r \in Totals : HeapScanTarget(h, r)

HeapSpec == HeapInit /\ [][HeapNext]_heapVars

-----------------------------------------------------------------------------
(* Whatever procmem's two lists have in common and whoever exits before    *)
(* its turn, the published results hold each process that was scanned      *)
(* exactly once, and the exchange sort ranks them by gain.                 *)
RankedByGain ==
  heapPhase = "idle" =>
    /\ \A j, k \in 1 .. Len(heapResults) :
         j < k => /\ Gain(heapResults[j]) >= Gain(heapResults[k])
                  /\ heapResults[j].pid # heapResults[k].pid
    /\ {heapResults[k].pid : k \in 1 .. Len(heapResults)}
         = {heapCurrent[k].pid : k \in 1 .. Len(heapCurrent)}
=============================================================================
