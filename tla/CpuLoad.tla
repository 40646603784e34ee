------------------------------ MODULE CpuLoad -------------------------------
(***************************************************************************)
(* The cpuload service (src/services/cpuload.c): the share of the processor*)
(* each process used between two collections.  utime and stime are always  *)
(* added up and are one counter of clock ticks here; as in C it is unsigned*)
(* and wraps.  The total of /proc/stat is kept as the number of collection *)
(* intervals since it was last read, which is what a difference of two     *)
(* totals measures.                                                        *)
(***************************************************************************)
EXTENDS Integers, FiniteSets, FiniteSetsExt

CONSTANTS
  CpuPids,
  TickRange,      \* the counters are 0 .. TickRange - 1
  CpuMaxProcs,    \* MAX_PROCS
  CpuTopN,        \* TOP_N
  CpuFloor,       \* ticks per interval that are still "near-zero"
  MaxUnread       \* bound on the failures of /proc/stat in a row

ASSUME CpuLoadAssumption ==
  /\ CpuPids \subseteq Nat \ {0}
  /\ TickRange \in Nat \ {0} /\ CpuMaxProcs \in Nat \ {0}
  /\ CpuTopN \in Nat /\ CpuFloor \in Nat /\ MaxUnread \in Nat

VARIABLES
  cpuPool, cpuPoolIdx, cpuCurrent, cpuPrevious,
  cpuScan,        \* "idle" or "scan"
  cpuTodo,        \* pids readdir has not reached
  cpuHasPrevious, \* has_previous
  cpuUnread,      \* collections since curr_sys was read
  cpuSpan,        \* total_delta, in collection intervals
  cpuSystem,      \* the interval system_stats is about, 0 before the first
  cpuEntries,     \* all_entries
  cpuTop,         \* top_consumers
  cpuSeen, cpuSeenBefore  \* readings of this and the previous scan (for the properties)

Ticks == 0 .. TickRange - 1

CpuTable == INSTANCE PidTable WITH
       Pids <- CpuPids, Values <- Ticks, Buckets <- 1, PoolSize <- 2 * CpuMaxProcs,
       pool <- cpuPool, poolIdx <- cpuPoolIdx,
       current <- cpuCurrent, previous <- cpuPrevious

cpuTableVars == <<cpuPool, cpuPoolIdx, cpuCurrent, cpuPrevious>>
cpuVars == <<cpuPool, cpuPoolIdx, cpuCurrent, cpuPrevious, cpuScan, cpuTodo,
             cpuHasPrevious, cpuUnread, cpuSpan, cpuSystem, cpuEntries, cpuTop,
             cpuSeen, cpuSeenBefore>>

CpuEntry == [pid : CpuPids, delta : Ticks, span : 1 .. MaxUnread + 1]
CpuReading == UNION {[P -> Ticks] : P \in SUBSET CpuPids}

CpuTypeOK ==
  /\ CpuTable!TableTypeOK
  /\ cpuScan \in {"idle", "scan"} /\ cpuTodo \subseteq CpuPids
  /\ cpuHasPrevious \in BOOLEAN
  /\ cpuUnread \in 0 .. MaxUnread
  /\ cpuSpan \in 0 .. MaxUnread + 1 /\ cpuSystem \in 0 .. MaxUnread + 1
  /\ cpuEntries \subseteq CpuEntry /\ Cardinality(cpuEntries) <= CpuMaxProcs
  /\ cpuTop \subseteq CpuEntry /\ Cardinality(cpuTop) <= CpuTopN
  /\ cpuSeen \in CpuReading /\ cpuSeenBefore \in CpuReading

NoReading == [p \in {} |-> 0]

(* cpuload_init *)
CpuInit ==
  /\ CpuTable!TableInit
  /\ cpuScan = "idle" /\ cpuTodo = {} /\ cpuHasPrevious = FALSE
  /\ cpuUnread = 0 /\ cpuSpan = 0 /\ cpuSystem = 0
  /\ cpuEntries = {} /\ cpuTop = {}
  /\ cpuSeen = NoReading /\ cpuSeenBefore = NoReading

(* "Save previous system stats" to "Calculate system percentages": a read  *)
(* that fails leaves both totals equal, and the next one that succeeds     *)
(* spans the intervals in between.                                         *)
ReadSystem(ok) ==
  /\ cpuUnread' = IF ok THEN 0 ELSE cpuUnread + 1
  /\ cpuSpan' = IF ok THEN cpuUnread + 1 ELSE 0
  /\ cpuSystem' = IF ok /\ cpuHasPrevious THEN cpuUnread + 1 ELSE cpuSystem
  /\ ok \/ cpuUnread < MaxUnread

\* A slip: the tables are swapped only once /proc is open.
CpuBeginCollectSwapLate(statOk, procOk) ==
  /\ cpuScan = "idle"
  /\ ReadSystem(statOk)
  /\ IF procOk THEN CpuTable!Swap ELSE UNCHANGED cpuTableVars
  /\ cpuSeenBefore' = cpuSeen /\ cpuSeen' = NoReading
  /\ cpuScan' = IF procOk THEN "scan" ELSE "idle"
  /\ cpuTodo' = IF procOk THEN CpuPids ELSE {}
  /\ cpuEntries' = {}
  /\ UNCHANGED <<cpuHasPrevious, cpuTop>>

(* cpuload_collect up to the scan; without /proc it returns once the       *)
(* tables are swapped.                                                     *)
CpuBeginCollect(statOk, procOk) ==
  /\ cpuScan = "idle"
  /\ ReadSystem(statOk)
  /\ CpuTable!Swap
  /\ cpuSeenBefore' = cpuSeen /\ cpuSeen' = NoReading
  /\ cpuScan' = IF procOk THEN "scan" ELSE "idle"
  /\ cpuTodo' = IF procOk THEN CpuPids ELSE {}
  /\ cpuEntries' = {}
  /\ UNCHANGED <<cpuHasPrevious, cpuTop>>

(* The loop's condition; alloc_entry finds a node as long as it holds,     *)
(* unless processes that are not listed have used up the pool.             *)
MoreEntries == cpuTodo # {} /\ Cardinality(cpuEntries) < CpuMaxProcs

(* parse_pid_stat fails: the process is gone. *)
CpuSkipPid ==
  /\ cpuScan = "scan" /\ MoreEntries
  /\ cpuTodo' = cpuTodo \ {Min(cpuTodo)}
  /\ UNCHANGED <<cpuTableVars, cpuScan, cpuHasPrevious, cpuUnread, cpuSpan, cpuSystem,
                 cpuEntries, cpuTop, cpuSeen, cpuSeenBefore>>

(* The entry a process with t ticks adds, looked up after its node is in   *)
(* place: none without a previous reading or if it used next to nothing.   *)
EntriesOf(nodes, p, t) ==
  LET prev == CpuTable!Find(nodes, cpuPrevious, p)
      delta == (t - nodes[prev].val) % TickRange
  IN  IF cpuHasPrevious /\ cpuSpan > 0 /\ prev # CpuTable!NIL /\ delta > CpuFloor * cpuSpan
      THEN {[pid |-> p, delta |-> delta, span |-> cpuSpan]}
      ELSE {}

(* One process of the scan.  Its ticks need not be more than before: the   *)
(* pid may belong to a new process.                                        *)
CpuReadPid(t) ==
  /\ cpuScan = "scan" /\ MoreEntries /\ CpuTable!HasRoom
  /\ LET p == Min(cpuTodo) IN
     /\ cpuTodo' = cpuTodo \ {p}
     /\ CpuTable!Insert(p, t)
     /\ cpuEntries' = cpuEntries \cup EntriesOf(cpuPool', p, t)
     /\ cpuSeen' = [q \in DOMAIN cpuSeen \cup {p} |-> IF q = p THEN t ELSE cpuSeen[q]]
  /\ UNCHANGED <<cpuScan, cpuHasPrevious, cpuUnread, cpuSpan, cpuSystem, cpuTop,
                 cpuSeenBefore>>

(* "Sort and take top N" by percentage; all entries of a collection have   *)
(* the same span, and equal ones come in any order.                        *)
CpuEndCollect ==
  /\ cpuScan = "scan"
  /\ ~MoreEntries \/ ~CpuTable!HasRoom
  /\ \E top \in SUBSET cpuEntries :
       /\ Cardinality(top) = Min({CpuTopN, Cardinality(cpuEntries)})
       /\ \A x \in top, y \in cpuEntries \ top : x.delta >= y.delta
       /\ cpuTop' = top
  /\ cpuScan' = "idle" /\ cpuHasPrevious' = TRUE
  /\ cpuTodo' = {} /\ cpuEntries' = {}
  /\ UNCHANGED <<cpuTableVars, cpuUnread, cpuSpan, cpuSystem, cpuSeen, cpuSeenBefore>>

CpuNext ==
  \/ \E statOk, procOk \in BOOLEAN : CpuBeginCollect(statOk, procOk)
  \/ CpuSkipPid \/ CpuEndCollect
  \/ \E t \in Ticks : CpuReadPid(t)

CpuSpec == CpuInit /\ [][CpuNext]_cpuVars

-----------------------------------------------------------------------------
(* Whenever the list of consumers is replaced, each of its entries         *)
(* compares two readings of its pid in adjacent collections, and divides by*)
(* a total that covers at least that interval: no failed read of /proc or  *)
(* /proc/stat and no rewritten node makes a share too large.  (A pid that  *)
(* was reused in between still wraps around: cpuload.c:250.)               *)
CpuShareSpansReadings ==
  [][\A e \in cpuTop' :
       cpuScan = "scan" /\ cpuScan' = "idle" =>
         /\ e.pid \in DOMAIN cpuSeen \cap DOMAIN cpuSeenBefore
         /\ e.delta = (cpuSeen[e.pid] - cpuSeenBefore[e.pid]) % TickRange
         /\ e.span >= 1]_cpuVars
=============================================================================
