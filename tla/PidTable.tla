------------------------------ MODULE PidTable ------------------------------
(***************************************************************************)
(* The per-process tables of procmem.c, procevent.c and cpuload.c.  Each   *)
(* keeps two hash tables, one for this collection and one for the previous *)
(* one, whose chains are linked through nodes of ONE pool.  A collection   *)
(* copies the bucket heads of current to previous, clears current and      *)
(* starts handing out the pool from its first node again: the nodes that   *)
(* previous still points to are rewritten while /proc is scanned.          *)
(***************************************************************************)
EXTENDS Integers, FiniteSets

CONSTANTS
  Pids,      \* process identifiers
  Values,    \* what is read for a process (VmRSS; nothing for procevent)
  Buckets,   \* HASH_SIZE
  PoolSize   \* nodes in the pool

ASSUME TableAssumption ==
  /\ Pids \subseteq Nat \ {0}
  /\ Values \subseteq Nat
  /\ Buckets \in Nat \ {0}
  /\ PoolSize \in Nat \ {0}

VARIABLES
  pool,      \* pool[]
  poolIdx,   \* pool_idx: nodes handed out in this collection
  current,   \* bucket heads of this collection
  previous   \* bucket heads of the previous collection

tableVars == <<pool, poolIdx, current, previous>>

NIL == -1
Nodes == 0 .. PoolSize - 1
Ref == Nodes \cup {NIL}
Heads == [0 .. Buckets - 1 -> Ref]
Node == [pid : Pids \cup {0}, val : Values \cup {0}, next : Ref]

TableTypeOK ==
  /\ pool \in [Nodes -> Node]
  /\ poolIdx \in 0 .. PoolSize
  /\ current \in Heads
  /\ previous \in Heads

EmptyHeads == [b \in 0 .. Buckets - 1 |-> NIL]

(* memset in the services' init functions *)
TableInit ==
  /\ pool = [n \in Nodes |-> [pid |-> 0, val |-> 0, next |-> NIL]]
  /\ poolIdx = 0
  /\ current = EmptyHeads
  /\ previous = EmptyHeads

(* hash_pid *)
Hash(p) == p % Buckets

(* find_in_hash, find_pid: the first node of p's chain that holds p. *)
Find(nodes, heads, p) ==
  LET walk[n \in Ref] ==
        IF n = NIL THEN NIL
        ELSE IF nodes[n].pid = p THEN n ELSE walk[nodes[n].next]
  IN  walk[heads[Hash(p)]]

(* The nodes of one chain, as the loop over prev_pids visits them. *)
Chain(nodes, n0) ==
  LET chain[n \in Ref] ==
        IF n = NIL THEN {} ELSE {n} \cup chain[nodes[n].next]
  IN  chain[n0]

(* "Swap current to previous", the first lines of every collection. *)
Swap ==
  /\ previous' = current
  /\ current' = EmptyHeads
  /\ poolIdx' = 0
  /\ UNCHANGED pool

\* A slip: a new node forgets the rest of its bucket.
InsertDroppingChain(p, v) ==
  /\ pool' = [pool EXCEPT ![poolIdx] = [pid |-> p, val |-> v, next |-> NIL]]
  /\ current' = [current EXCEPT ![Hash(p)] = poolIdx]
  /\ poolIdx' = poolIdx + 1
  /\ UNCHANGED previous

\* A slip: a new node is linked in front of the previous table's chain.
InsertIntoPrevious(p, v) ==
  /\ pool' = [pool EXCEPT ![poolIdx] =
                [pid |-> p, val |-> v, next |-> previous[Hash(p)]]]
  /\ current' = [current EXCEPT ![Hash(p)] = poolIdx]
  /\ poolIdx' = poolIdx + 1
  /\ UNCHANGED previous

\* A slip: one node too many is handed out.
HasRoomOneMore == poolIdx <= PoolSize

(* alloc_entry followed by insert_hash (insert_pid); callers check         *)
(* HasRoom, the condition under which alloc_entry returns a node.          *)
HasRoom == poolIdx < PoolSize

Insert(p, v) ==
  /\ pool' = [pool EXCEPT ![poolIdx] =
                [pid |-> p, val |-> v, next |-> current[Hash(p)]]]
  /\ current' = [current EXCEPT ![Hash(p)] = poolIdx]
  /\ poolIdx' = poolIdx + 1
  /\ UNCHANGED previous

-----------------------------------------------------------------------------
(* Although previous shares its nodes with current, every chain runs to    *)
(* smaller pool indexes and so ends: no lookup loops, whatever the scans   *)
(* before and the rewriting so far.  current only points to nodes of this  *)
(* collection.                                                             *)
ChainsDescend ==
  /\ \A n \in Nodes : pool[n].next < n
  /\ \A b \in 0 .. Buckets - 1 : current[b] < poolIdx
=============================================================================
