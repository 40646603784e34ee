------------------------------- MODULE FdMon --------------------------------
(***************************************************************************)
(* The fdmon service (src/services/fdmon.c): open descriptors per process, *)
(* compared with the last collection and with the first sight of the       *)
(* process.  A scan of /proc visits the pids in ascending order; what it   *)
(* finds is chosen process by process.  The breakdown by descriptor type   *)
(* is left out.                                                            *)
(***************************************************************************)
EXTENDS Baseline

CONSTANTS
  FdPids,        \* pids that may be in use
  Counts,      \* descriptor counts
  MaxProcs,    \* MAX_PROCS
  FdPoolSize,    \* entries of initial[], MAX_PROCS * 2
  TopCount     \* TOP_COUNT

ASSUME FdMonAssumption ==
  /\ FdPids \subseteq Nat /\ Counts \subseteq Nat
  /\ MaxProcs \in Nat \ {0} /\ FdPoolSize \in Nat /\ TopCount \in Nat

VARIABLES
  fdScan,       \* "idle" between collections, "scan" inside one
  fdTodo,       \* directory entries of /proc not read yet
  fdCurrent, fdPrevious, fdInitial,  \* arrays of samples
  fdAll,        \* all_procs
  consumers, leakers, summary, \* the results
  fdFirst       \* ghost: the first count ever read for a pid, -1: none

fdArrays == <<fdCurrent, fdPrevious, fdInitial>>
fdResults == <<consumers, leakers, summary>>
fdVars == <<fdScan, fdTodo, fdArrays, fdAll, fdResults, fdFirst>>

FdSample == [pid : FdPids, n : Counts]
FdDiff == {v - w : v, w \in Counts} \cup {0}
FdEntry == [pid : FdPids, n : Counts, baseline : Counts, delta : FdDiff,
            change : FdDiff]
FdZero == [fds |-> 0, procs |-> 0, leaks |-> 0]

FdTypeOK ==
  /\ fdScan \in {"idle", "scan"} /\ fdTodo \subseteq FdPids
  /\ \A a \in {fdCurrent, fdPrevious, fdInitial} : a \in Seq(FdSample)
  /\ Len(fdCurrent) <= MaxProcs /\ Len(fdInitial) <= FdPoolSize
  /\ fdAll \subseteq FdEntry /\ Cardinality(fdAll) <= MaxProcs
  /\ consumers \subseteq FdEntry /\ leakers \subseteq FdEntry
  /\ summary.procs \in 0 .. MaxProcs /\ summary.leaks \in 0 .. summary.procs
  /\ fdFirst \in [FdPids -> Counts \cup {-1}]

FdInit ==
  /\ fdScan = "idle" /\ fdTodo = {}
  /\ fdCurrent = << >> /\ fdPrevious = << >> /\ fdInitial = << >>
  /\ fdAll = {} /\ consumers = {} /\ leakers = {} /\ summary = FdZero
  /\ fdFirst = [p \in FdPids |-> -1]

(* fdmon_collect up to the scan; when /proc cannot be opened the           *)
(* collection ends here, with nothing collected.                           *)
FdBeginCollect ==
  /\ fdScan = "idle"
  /\ fdPrevious' = fdCurrent /\ fdCurrent' = << >>
  /\ fdAll' = {} /\ consumers' = {} /\ leakers' = {} /\ summary' = FdZero
  /\ \/ fdScan' = "scan" /\ fdTodo' = FdPids
     \/ UNCHANGED <<fdScan, fdTodo>>
  /\ UNCHANGED <<fdInitial, fdFirst>>

FdScanning == fdScan = "scan" /\ fdTodo # {} /\ Cardinality(fdAll) < MaxProcs
FdPid == Min(fdTodo)

(* count_fds fails: no such process. *)
FdSkipPid ==
  /\ FdScanning
  /\ fdTodo' = fdTodo \ {FdPid}
  /\ UNCHANGED <<fdScan, fdArrays, fdAll, fdResults, fdFirst>>

(* A process with v descriptors. *)
FdReadPid(v) ==
  /\ FdScanning
  /\ LET s == [pid |-> FdPid, n |-> v]
         k == Find(fdPrevious, FdPid)
         base == InitialOf(fdInitial, FdPoolSize, s)
         e == [pid |-> FdPid, n |-> v, baseline |-> base.n, change |-> v - base.n,
               delta |-> IF k # 0 THEN v - fdPrevious[k].n ELSE 0]
     IN  /\ fdCurrent' = Append(fdCurrent, s)
         /\ fdInitial' = FindOrCreate(fdInitial, FdPoolSize, s)
         /\ fdAll' = fdAll \cup {e}
         /\ summary' = [fds |-> summary.fds + v, procs |-> summary.procs + 1,
                        leaks |-> summary.leaks + IF e.change > 0 THEN 1 ELSE 0]
  /\ fdFirst' = [fdFirst EXCEPT ![FdPid] = IF @ = -1 THEN v ELSE @]
  /\ fdTodo' = fdTodo \ {FdPid}
  /\ UNCHANGED <<fdScan, fdPrevious, consumers, leakers>>

(* The rest of fdmon_collect: sort twice, take the two lists. *)
FdEndCollect ==
  /\ fdScan = "scan" /\ ~FdScanning
  /\ consumers' \in Largest([e \in fdAll |-> e.n], TopCount)
  /\ leakers' \in Largest([e \in {x \in fdAll : x.change > 0} |-> e.change], TopCount)
  /\ fdScan' = "idle" /\ fdTodo' = {} /\ fdAll' = {}
  /\ UNCHANGED <<fdArrays, summary, fdFirst>>

FdNext ==
  \/ FdBeginCollect \/ FdSkipPid \/ FdEndCollect
  \/ \E v \in Counts : FdReadPid(v)

FdSpec == FdInit /\ [][FdNext]_fdVars

-----------------------------------------------------------------------------
(* A change is always relative to the first count ever read for the pid,   *)
(* however often the process was missed or the lists were rebuilt since;   *)
(* only a process that found the pool full is reported as unchanged.       *)
LeakersTruthful ==
  \A e \in fdAll \cup consumers \cup leakers :
    e.change = IF Find(fdInitial, e.pid) # 0 THEN e.n - fdFirst[e.pid] ELSE 0
=============================================================================
