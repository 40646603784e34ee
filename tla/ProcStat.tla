------------------------------ MODULE ProcStat ------------------------------
(***************************************************************************)
(* The procstat service (src/services/procstat.c): how many processes are  *)
(* in which state, and a list of those blocked on I/O (state D) with their *)
(* blocked threads.  A scan of /proc visits the pids in ascending order;   *)
(* what each process and its threads are doing is chosen as it is reached. *)
(* Commands and wait channels are left out.                                *)
(***************************************************************************)
EXTENDS Integers, SequencesExt

CONSTANTS
  StatPids,
  Tids,         \* thread ids other than the process's own
  States,       \* letters of /proc/pid/stat
  MaxBlocked    \* MAX_BLOCKED

ASSUME ProcStatAssumption ==
  /\ StatPids \subseteq Nat /\ Tids \subseteq Nat /\ StatPids \cap Tids = {}
  /\ MaxBlocked \in Nat

VARIABLES
  statScan,     \* "idle" or "scan"
  statTodo,     \* pids readdir has not reached
  statTotal,    \* summary.total
  statCounts,   \* the other counters of summary
  blocked,      \* blocked[], blocked_count
  statSeen      \* state of every process read in this scan (for the properties)

statVars == <<statScan, statTodo, statTotal, statCounts, blocked, statSeen>>

(* The counters of procstat_summary_t, by the letter they count; the      *)
(* switch in procstat_collect has no case for idle and dead ones.          *)
Counters == {"R", "S", "D", "Z", "T"}

CounterOf(s) == IF s = "t" THEN "T" ELSE s

BlockedEntry == [pid : StatPids, tid : StatPids \cup Tids]

StatTypeOK ==
  /\ statScan \in {"idle", "scan"} /\ statTodo \subseteq StatPids
  /\ statTotal \in Nat /\ statCounts \in [Counters -> Nat]
  /\ blocked \in Seq(BlockedEntry)
  /\ statSeen \in UNION {[P -> States] : P \in SUBSET StatPids}

NoStates == [p \in {} |-> "D"]

(* procstat_init *)
StatInit ==
  /\ statScan = "idle" /\ statTodo = {}
  /\ statTotal = 0 /\ statCounts = [s \in Counters |-> 0]
  /\ blocked = << >> /\ statSeen = NoStates

(* procstat_collect up to the scan; without /proc it stops here. *)
StatBeginCollect(procOk) ==
  /\ statScan = "idle"
  /\ statTotal' = 0 /\ statCounts' = [s \in Counters |-> 0]
  /\ blocked' = << >>
  /\ statScan' = IF procOk THEN "scan" ELSE "idle"
  /\ statTodo' = IF procOk THEN StatPids ELSE {}
  /\ statSeen' = NoStates

(* read_proc_state fails: the process is gone. *)
StatSkipPid ==
  /\ statScan = "scan" /\ statTodo # {}
  /\ statTodo' = statTodo \ {Min(statTodo)}
  /\ UNCHANGED <<statScan, statTotal, statCounts, blocked, statSeen>>

\* A slip: the threads of a process are added without looking at the limit.
WithBlockedUnlimited(list, p, tids) ==
  IF Len(list) < MaxBlocked
  THEN list \o [i \in 1 .. Len(tids) + 1 |->
                  [pid |-> p, tid |-> IF i = 1 THEN p ELSE tids[i - 1]]]
  ELSE list

(* A process in state D and its threads in state D, as far as there is     *)
(* room: the process first, then its threads in directory order.           *)
WithBlocked(list, p, tids) ==
  LET entries == [i \in 1 .. Len(tids) + 1 |->
                    [pid |-> p, tid |-> IF i = 1 THEN p ELSE tids[i - 1]]]
  IN  list \o SubSeq(entries, 1, Min({Len(entries), MaxBlocked - Len(list)}))

(* One process of the scan, in state s, with the threads tids in state D.  *)
(* Its threads are looked at only when it is in state D itself.            *)
StatReadPid(s, tids) ==
  /\ statScan = "scan" /\ statTodo # {}
  /\ LET p == Min(statTodo) IN
     /\ statTodo' = statTodo \ {p}
     /\ statTotal' = statTotal + 1
     /\ statCounts' = [c \in Counters |-> statCounts[c] + IF CounterOf(s) = c THEN 1 ELSE 0]
     /\ blocked' = IF s = "D" THEN WithBlocked(blocked, p, tids) ELSE blocked
     /\ statSeen' = [q \in DOMAIN statSeen \cup {p} |-> IF q = p THEN s ELSE statSeen[q]]
  /\ UNCHANGED statScan

StatEndCollect ==
  /\ statScan = "scan" /\ statTodo = {}
  /\ statScan' = "idle"
  /\ UNCHANGED <<statTodo, statTotal, statCounts, blocked, statSeen>>

StatNext ==
  \/ \E procOk \in BOOLEAN : StatBeginCollect(procOk)
  \/ StatSkipPid \/ StatEndCollect
  \/ \E s \in States, tids \in {t \in SeqOf(Tids, Cardinality(Tids)) : IsInjective(t)} :
       StatReadPid(s, tids)

-----------------------------------------------------------------------------
(* The list of blocked processes and the summary tell the same story: the  *)
(* list stays within blocked[], shows only processes this scan found in    *)
(* state D, none of them twice, leaves one out only when it is full, and   *)
(* then disk_sleep still counts them all.                                  *)
BlockedAgreesWithSummary ==
  LET inD == {p \in DOMAIN statSeen : statSeen[p] = "D"}
      mains == {e \in ToSet(blocked) : e.tid = e.pid}
  IN  /\ Len(blocked) <= MaxBlocked
      /\ {e.pid : e \in ToSet(blocked)} = {e.pid : e \in mains}
      /\ {e.pid : e \in mains} \subseteq inD
      /\ IsInjective(blocked)
      /\ statCounts["D"] = Cardinality(inD)
      /\ Cardinality(mains) < statCounts["D"] => Len(blocked) = MaxBlocked
      /\ statTotal = Cardinality(DOMAIN statSeen)
=============================================================================
