------------------------------ MODULE MemInfo -------------------------------
(***************************************************************************)
(* The meminfo and vmstat services (src/services/meminfo.c, vmstat.c): the *)
(* fields of /proc/meminfo with their change since the previous collection,*)
(* and the page counts of /proc/vmstat without.  The fields of a file are  *)
(* all handled alike; a file's text may lack some of them (another kernel, *)
(* or more text than the buffer holds).                                    *)
(***************************************************************************)
EXTENDS Integers

CONSTANTS
  MemFields,         \* fields of /proc/meminfo that are kept
  Kilobytes          \* what a field may hold

ASSUME MemInfoAssumption == Kilobytes \subseteq Nat

VARIABLES
  memCurrent, memPrevious,  \* current and previous of meminfo
  memHasPrevious,           \* has_previous
  vmCurrent,                \* current of vmstat, one field of it
  memReported               \* sum of the deltas shown so far (for the properties)

memVars == <<memCurrent, memPrevious, memHasPrevious, vmCurrent, memReported>>

MemData == [MemFields -> Kilobytes \cup {0}]

MemTypeOK ==
  /\ memCurrent \in MemData /\ memPrevious \in MemData
  /\ memHasPrevious \in BOOLEAN
  /\ vmCurrent \in Kilobytes \cup {0}
  /\ memReported \in [MemFields -> Int]

NoMemory == [f \in MemFields |-> 0]

(* meminfo_init and vmstat_init *)
MemInit ==
  /\ memCurrent = NoMemory /\ memPrevious = NoMemory /\ memHasPrevious = FALSE
  /\ vmCurrent = 0
  /\ memReported = NoMemory

(* parse_meminfo: everything is cleared first, so that a field that is not *)
(* in the text is 0.                                                       *)
ParseMeminfo(text) ==
  [f \in MemFields |-> IF f \in DOMAIN text THEN text[f] ELSE 0]

(* What write_delta shows of a field in a snapshot. *)
MemDelta(cur, prev, hasPrev) ==
  [f \in MemFields |-> IF hasPrev THEN cur[f] - prev[f] ELSE 0]

\* A slip: the previous values are kept until a reading succeeds.
MemCollectKeepingPrevious(text, ok) ==
  /\ memPrevious' = IF ok THEN memCurrent ELSE memPrevious
  /\ memHasPrevious' = TRUE
  /\ memCurrent' = IF ok THEN ParseMeminfo(text) ELSE memCurrent

(* meminfo_collect; parse_meminfo fails before it touches current. *)
MemCollect(text, ok) ==
  /\ memPrevious' = memCurrent
  /\ memHasPrevious' = TRUE
  /\ memCurrent' = IF ok THEN ParseMeminfo(text) ELSE memCurrent

(* vmstat_collect *)
VmCollect(pages, ok) == vmCurrent' = IF ok THEN pages ELSE vmCurrent

MemTexts == UNION {[F -> Kilobytes] : F \in SUBSET MemFields}

(* A collection by the daemon and the snapshot that follows it; the        *)
(* snapshot is taken whatever collect returned.                            *)
MemNext ==
  /\ \E text \in MemTexts, ok \in BOOLEAN : MemCollect(text, ok)
  /\ \E pages \in Kilobytes, ok \in BOOLEAN : VmCollect(pages, ok)
  /\ memReported' = [f \in MemFields |-> memReported[f] +
                       MemDelta(memCurrent', memPrevious', memHasPrevious')[f]]

-----------------------------------------------------------------------------
(* The deltas a reader of the snapshots has been shown add up to the value *)
(* that is shown: no change is missed or counted twice, whichever reads    *)
(* failed, and the first delta is the value itself, since has_previous is  *)
(* set before there is a previous reading.                                 *)
DeltasAddUp == \A f \in MemFields : memReported[f] = memCurrent[f]
=============================================================================
