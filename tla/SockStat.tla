------------------------------ MODULE SockStat ------------------------------
(***************************************************************************)
(* The sockstat service (src/services/sockstat.c): the TCP sockets of      *)
(* /proc/net/tcp, each with the process that holds its inode, and totals.  *)
(* The processes are scanned after the table was read, descriptor by       *)
(* descriptor; which sockets of the table a process holds by then, and for *)
(* which of them it can still be asked for its name, is chosen here.       *)
(* Addresses, queues and the breakdown by state are left out, and the UDP  *)
(* and UNIX counts are one.                                                *)
(***************************************************************************)
EXTENDS Integers, SequencesExt

CONSTANTS
  Inodes,
  SockPids,
  MaxSockets,   \* MAX_SOCKETS
  LineCounts    \* lines /proc/net/udp and the like may have

ASSUME SockStatAssumption ==
  /\ Inodes \subseteq Nat \ {0} /\ SockPids \subseteq Nat \ {0}
  /\ MaxSockets \in Nat /\ LineCounts \subseteq Nat

VARIABLES
  sockPhase,    \* "idle", or "map" inside map_inodes_to_pids
  sockets,      \* sockets[], the slots beyond socket_count included
  socketCount,  \* socket_count
  sockTodo,     \* processes the scan has not reached
  sockSummary, sockPrevious,  \* summary and previous_summary
  sockTable,    \* inodes in /proc/net/tcp at this collection (for the properties)
  sockHeld      \* the holders the scan met, per inode (for the properties)

sockVars == <<sockPhase, sockets, socketCount, sockTodo, sockSummary, sockPrevious,
              sockTable, sockHeld>>

\* cmd is the process whose name the slot shows, 0 while it is empty.
Socket == [inode : Inodes \cup {0}, pid : SockPids \cup {0},
           cmd : SockPids \cup {0}]
SockTotals == [tcp : 0 .. MaxSockets, others : LineCounts \cup {0}]

SockTypeOK ==
  /\ sockPhase \in {"idle", "map"}
  /\ sockets \in [1 .. MaxSockets -> Socket]
  /\ socketCount \in 0 .. MaxSockets
  /\ sockTodo \subseteq SockPids
  /\ sockSummary \in SockTotals /\ sockPrevious \in SockTotals
  /\ sockTable \in Seq(Inodes)
  /\ sockHeld \in [Inodes -> SUBSET SockPids]

(* sockstat_init *)
SockInit ==
  /\ sockPhase = "idle" /\ socketCount = 0 /\ sockTodo = {}
  /\ sockets = [i \in 1 .. MaxSockets |-> [inode |-> 0, pid |-> 0, cmd |-> 0]]
  /\ sockSummary = [tcp |-> 0, others |-> 0] /\ sockPrevious = sockSummary
  /\ sockTable = << >> /\ sockHeld = [i \in Inodes |-> {}]

\* A slip: a slot keeps its owner when another socket is stored in it.
StoreKeepingOwner(slot, inode) == [slot EXCEPT !.inode = inode]

(* "Store detailed info" in parse_tcp_detailed *)
Store(slot, inode) == [inode |-> inode, pid |-> 0, cmd |-> 0]

(* sockstat_collect up to map_inodes_to_pids.  Both files may be missing:  *)
(* the table is then empty, and no process is scanned.                     *)
SockBeginCollect(table, procOk) ==
  LET n == Min({Len(table), MaxSockets})
  IN  /\ sockPhase = "idle" /\ sockPhase' = "map"
      /\ sockPrevious' = sockSummary
      /\ sockSummary' = [tcp |-> n, others |-> 0]
      /\ socketCount' = n
      /\ sockets' = [i \in 1 .. MaxSockets |->
                       IF i <= n THEN Store(sockets[i], table[i]) ELSE sockets[i]]
      /\ sockTodo' = IF procOk THEN SockPids ELSE {}
      /\ sockTable' = table /\ sockHeld' = [i \in Inodes |-> {}]

(* map_inodes_to_pids for one process that holds the sockets held; its name*)
(* could be read for the ones in named, before it exited.                  *)
MapProcess(held, named) ==
  /\ sockPhase = "map" /\ sockTodo # {}
  /\ LET p == Min(sockTodo) IN
     /\ sockTodo' = sockTodo \ {p}
     /\ sockets' = [i \in 1 .. MaxSockets |->
          IF i <= socketCount /\ sockets[i].inode \in held
          THEN [sockets[i] EXCEPT !.pid = p,
                                  !.cmd = IF sockets[i].inode \in named THEN p ELSE @]
          ELSE sockets[i]]
     /\ sockHeld' = [i \in Inodes |-> sockHeld[i] \cup (IF i \in held THEN {p} ELSE {})]
  /\ UNCHANGED <<sockPhase, socketCount, sockSummary, sockPrevious, sockTable>>

(* The rest of sockstat_collect: "Count others". *)
SockEndCollect(lines) ==
  /\ sockPhase = "map" /\ sockTodo = {}
  /\ sockPhase' = "idle"
  /\ sockSummary' = [sockSummary EXCEPT !.others = lines]
  /\ UNCHANGED <<sockets, socketCount, sockTodo, sockPrevious, sockTable, sockHeld>>

(* Tables of up to one socket more than there is room for. *)
SockTables == {s \in SeqOf(Inodes, MaxSockets + 1) : IsInjective(s)}

SockNext ==
  \/ \E table \in SockTables, procOk \in BOOLEAN : SockBeginCollect(table, procOk)
  \/ \E held \in SUBSET ToSet(sockTable) : \E named \in SUBSET held : MapProcess(held, named)
  \/ \E lines \in LineCounts : SockEndCollect(lines)

-----------------------------------------------------------------------------
(* A published socket is a row of this collection's table, in its place;   *)
(* its process is the last one the scan met holding it, or none if there   *)
(* was none; and the name beside it is that of a process that held it too, *)
(* though not always the same one.  Nothing of the socket that was in the  *)
(* slot at an earlier collection shows.                                    *)
OwnersOfThisScan ==
  sockPhase = "idle" =>
    /\ sockSummary.tcp = socketCount
    /\ \A i \in 1 .. socketCount :
         LET s == sockets[i]
             holders == sockHeld[s.inode]
         IN  /\ s.inode = sockTable[i]
             /\ s.pid = IF holders = {} THEN 0 ELSE Max(holders)
             /\ s.cmd \in holders \cup {0}
=============================================================================
