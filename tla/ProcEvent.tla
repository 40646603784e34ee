----------------------------- MODULE ProcEvent ------------------------------
(***************************************************************************)
(* The procevent service (src/services/procevent.c): fork and exit events  *)
(* derived by comparing two scans of /proc, kept in a ring of MaxEvents    *)
(* entries with totals beside it.  A scan visits the pids in ascending     *)
(* order; which of them it finds is chosen here.                           *)
(***************************************************************************)
EXTENDS Integers, SequencesExt

CONSTANTS
  EvPids,
  EvBuckets,       \* HASH_SIZE
  EvPoolSize,      \* nodes in the pool
  MaxEvents,       \* MAX_EVENTS
  NoEvent,
  MaxCollections   \* bound on the number of collections

ASSUME ProcEventAssumption ==
  /\ EvPids \subseteq Nat \ {0}
  /\ EvBuckets \in Nat \ {0} /\ EvPoolSize \in Nat \ {0}
  /\ MaxEvents \in Nat \ {0}
  /\ MaxCollections \in Nat

VARIABLES
  evPool, evPoolIdx, evCurrent, evPrevious,
  evScan,               \* "idle", "scan", or "exits" while prev_pids is walked
  evTodo,               \* pids readdir has not reached
  evBucket,             \* loop index of the walk over prev_pids
  evHasPrevious,        \* has_previous
  ring,                 \* events[], event_head, event_count
  counters,             \* counters.forks and counters.exits
  evLog,                \* every event so far, oldest first (for the properties)
  evMark,               \* Len(evLog) when this collection began
  evSeen, evSeenBefore, \* the pids of this and of the previous collection
  evCollections

EvTable == INSTANCE PidTable WITH
             Pids <- EvPids, Values <- {0}, Buckets <- EvBuckets,
             PoolSize <- EvPoolSize, pool <- evPool, poolIdx <- evPoolIdx,
             current <- evCurrent, previous <- evPrevious

evTableVars == <<evPool, evPoolIdx, evCurrent, evPrevious>>
eventVars == <<ring, counters, evLog>>
evVars == <<evPool, evPoolIdx, evCurrent, evPrevious, evScan, evTodo, evBucket,
            evHasPrevious, ring, counters, evLog, evMark, evSeen, evSeenBefore,
            evCollections>>

Event == [type : {"FORK", "EXIT"}, pid : EvPids]

EvTypeOK ==
  /\ EvTable!TableTypeOK
  /\ evScan \in {"idle", "scan", "exits"}
  /\ evTodo \subseteq EvPids
  /\ evBucket \in 0 .. EvBuckets
  /\ evHasPrevious \in BOOLEAN
  /\ ring.slots \in [0 .. MaxEvents - 1 -> Event \cup {NoEvent}]
  /\ ring.head \in 0 .. MaxEvents - 1 /\ ring.count \in 0 .. MaxEvents
  /\ counters \in [forks : Nat, exits : Nat]
  /\ evLog \in Seq(Event) /\ evMark \in 0 .. Len(evLog)
  /\ evSeen \subseteq EvPids /\ evSeenBefore \subseteq EvPids
  /\ evCollections \in 0 .. MaxCollections

(* procevent_init *)
EvInit ==
  /\ EvTable!TableInit
  /\ evScan = "idle" /\ evTodo = {} /\ evBucket = 0 /\ evHasPrevious = FALSE
  /\ ring = [slots |-> [i \in 0 .. MaxEvents - 1 |-> NoEvent],
             head |-> 0, count |-> 0]
  /\ counters = [forks |-> 0, exits |-> 0]
  /\ evLog = << >> /\ evMark = 0
  /\ evSeen = {} /\ evSeenBefore = {}
  /\ evCollections = 0

-----------------------------------------------------------------------------
\* A slip: the head stops at the last slot.
PutSticking(r, e) ==
  [slots |-> [r.slots EXCEPT ![r.head] = e],
   head  |-> IF r.head + 1 < MaxEvents THEN r.head + 1 ELSE r.head,
   count |-> IF r.count < MaxEvents THEN r.count + 1 ELSE r.count]

(* add_event on the ring *)
Put(r, e) ==
  [slots |-> [r.slots EXCEPT ![r.head] = e],
   head  |-> (r.head + 1) % MaxEvents,
   count |-> IF r.count < MaxEvents THEN r.count + 1 ELSE r.count]

(* add_event for a sequence of events, totals included. *)
AddEvents(es) ==
  /\ ring' = FoldLeft(Put, ring, es)
  /\ counters' =
       [forks |-> counters.forks + Cardinality({i \in 1 .. Len(es) : es[i].type = "FORK"}),
        exits |-> counters.exits + Cardinality({i \in 1 .. Len(es) : es[i].type = "EXIT"})]
  /\ evLog' = evLog \o es

(* procevent_collect up to the scan; with /proc unreadable it returns      *)
(* after the tables were swapped.                                          *)
EvBeginCollect(procReadable) ==
  /\ evScan = "idle"
  /\ evCollections < MaxCollections
  /\ evCollections' = evCollections + 1
  /\ EvTable!Swap
  /\ evScan' = IF procReadable THEN "scan" ELSE "idle"
  /\ evTodo' = IF procReadable THEN EvPids ELSE {}
  /\ evSeenBefore' = evSeen /\ evSeen' = {}
  /\ evMark' = Len(evLog)
  /\ evBucket' = 0
  /\ UNCHANGED <<evHasPrevious, eventVars>>

EvNotRunning ==
  /\ evScan = "scan" /\ evTodo # {}
  /\ evTodo' = evTodo \ {Min(evTodo)}
  /\ UNCHANGED <<evTableVars, evScan, evBucket, evHasPrevious, eventVars, evMark, evSeen,
                 evSeenBefore, evCollections>>

(* One directory entry: store it, then look for it in the previous table. *)
EvReadPid ==
  /\ evScan = "scan" /\ evTodo # {} /\ EvTable!HasRoom
  /\ LET p == Min(evTodo) IN
     /\ evTodo' = evTodo \ {p}
     /\ EvTable!Insert(p, 0)
     /\ evSeen' = evSeen \cup {p}
     /\ IF evHasPrevious /\ EvTable!Find(evPool', evPrevious, p) = EvTable!NIL
        THEN AddEvents(<<[type |-> "FORK", pid |-> p]>>)
        ELSE UNCHANGED eventVars
  /\ UNCHANGED <<evScan, evBucket, evHasPrevious, evMark, evSeenBefore, evCollections>>

(* The end of the directory, or of the pool. *)
EvEndScan ==
  /\ evScan = "scan"
  /\ evTodo = {} \/ ~EvTable!HasRoom
  /\ evScan' = "exits" /\ evTodo' = {}
  /\ UNCHANGED <<evTableVars, evBucket, evHasPrevious, eventVars, evMark, evSeen, evSeenBefore,
                 evCollections>>

\* A slip: the walk looks processes up in the table it is walking.
GoneFromPrevious(n) == EvTable!Find(evPool, evPrevious, evPool[n].pid) = EvTable!NIL

Gone(n) == EvTable!Find(evPool, evCurrent, evPool[n].pid) = EvTable!NIL

(* The order in which a chain is walked: from larger to smaller pool       *)
(* indexes.                                                                *)
Downwards(S) ==
  {w \in [1 .. Cardinality(S) -> S] : \A i, j \in DOMAIN w : i < j => w[i] > w[j]}

(* "Find exited processes": one bucket of prev_pids, in chain order. *)
WalkBucket ==
  /\ evScan = "exits" /\ evHasPrevious /\ evBucket < EvBuckets
  /\ \E walk \in Downwards({n \in EvTable!Chain(evPool, evPrevious[evBucket]) : Gone(n)}) :
       AddEvents([i \in 1 .. Len(walk) |->
                    [type |-> "EXIT", pid |-> evPool[walk[i]].pid]])
  /\ evBucket' = evBucket + 1
  /\ UNCHANGED <<evTableVars, evScan, evTodo, evHasPrevious, evMark, evSeen, evSeenBefore,
                 evCollections>>

EvEndCollect ==
  /\ evScan = "exits" /\ (~evHasPrevious \/ evBucket = EvBuckets)
  /\ evScan' = "idle" /\ evHasPrevious' = TRUE
  /\ UNCHANGED <<evTableVars, evTodo, evBucket, eventVars, evMark, evSeen, evSeenBefore,
                 evCollections>>

EvDone == evCollections = MaxCollections /\ evScan = "idle" /\ UNCHANGED evVars

EvNext ==
  \/ \E procReadable \in BOOLEAN : EvBeginCollect(procReadable)
  \/ EvNotRunning \/ EvReadPid \/ EvEndScan \/ WalkBucket \/ EvEndCollect
  \/ EvDone

EvSpec == EvInit /\ [][EvNext]_evVars

(* procevent_get_recent and procevent_snapshot: the i-th newest event. *)
Recent(i) == ring.slots[(ring.head - 1 - i + MaxEvents) % MaxEvents]

-----------------------------------------------------------------------------
Reported(type) ==
  {evLog[i].pid : i \in {j \in evMark + 1 .. Len(evLog) : evLog[j].type = type}}

(* An exit event is never false and never repeated: the process was in the *)
(* previous scan and is not in this one, although the walk over prev_pids  *)
(* runs through nodes this scan has rewritten.                             *)
ExitsTruthful ==
  /\ Reported("EXIT") \subseteq evSeenBefore \ evSeen
  /\ \A i, j \in evMark + 1 .. Len(evLog) :
       evLog[i].type = "EXIT" /\ evLog[i] = evLog[j] => i = j

(* procevent_get_recent and the snapshot show the latest events, newest    *)
(* first, and the totals count every event there ever was.                 *)
RingHoldsLatest ==
  /\ ring.count = Min({MaxEvents, Len(evLog)})
  /\ \A i \in 0 .. ring.count - 1 : Recent(i) = evLog[Len(evLog) - i]
  /\ counters.forks + counters.exits = Len(evLog)

(* After a collection every process that exited since the previous one has *)
(* been reported.                                                          *)
ExitsReported ==
  evScan = "idle" /\ evHasPrevious /\ evTodo = {} /\ evCollections > 1 /\ evBucket = EvBuckets
    => evSeenBefore \ evSeen \subseteq Reported("EXIT")
=============================================================================
