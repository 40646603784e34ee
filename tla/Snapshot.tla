------------------------------ MODULE Snapshot ------------------------------
(***************************************************************************)
(* What the monitoring loop shares with the server threads, without a      *)
(* lock: g_current_snapshot, rebuilt in place by every turn of daemon_run  *)
(* (src/daemon/daemon.c) through the JSON builder (src/common/json.c), and *)
(* the history ring.  The IPC thread (src/daemon/ipc_server.c) and the     *)
(* HTTP thread (src/web/http_server.c, api.c) read them while the loop     *)
(* writes.  A memory access is one step, in program order.  The text of a  *)
(* json_write is one cell; a cell holds the number of the snapshot it      *)
(* belongs to, or 0 for the terminating NUL.                               *)
(***************************************************************************)
EXTENDS Integers, Sequences

CONSTANTS
  Size,         \* cells of g_current_snapshot
  MaxParts,     \* json_write calls of the longest snapshot
  Readers,      \* server threads, a subset of {"ipc", "http"}
  Room,         \* cells that fit into an IPC reply
  Kinds,        \* requests sent, a subset of {"snapshot", "history"}
  Asks,         \* history lengths asked for
  Capacity,     \* of the ring buffer
  MaxSnapshots, \* bound on the turns of daemon_run
  MaxRequests   \* bound on the requests of a reader

ASSUME SnapshotAssumption ==
  /\ Size \in Nat \ {0} /\ MaxParts \in Nat \ {0} /\ Capacity \in Nat \ {0}
  /\ Room \in Nat /\ MaxSnapshots \in Nat /\ MaxRequests \in Nat
  /\ Readers \subseteq {"ipc", "http"} /\ Kinds \subseteq {"snapshot", "history"}
  /\ Asks \subseteq Nat

VARIABLES
  main,     \* where daemon_run is
  gen,      \* number of the snapshot being or last built
  left,     \* json_write calls to come
  pos, error,  \* of the json builder
  cells,    \* g_current_snapshot
  entries, head, count,  \* g_history
  log,      \* ghost: the snapshots pushed so far, newest first
  rd        \* per reader: its locals; ghosts: quiet and then

ring == <<entries, head, count>>
vars == <<main, gen, left, pos, error, cells, ring, log, rd>>

R == INSTANCE RingBuffer
       WITH Data <- 1 .. MaxSnapshots, Time <- 1 .. MaxSnapshots, NULL <- 0,
            allocated <- TRUE

Cells == 0 .. Size - 1
Snapshots == 0 .. MaxSnapshots

Idle == [pc |-> "idle", kind |-> "none", served |-> 0, n |-> 0, i |-> 0,
         at |-> 0, out |-> << >>, quiet |-> TRUE, then |-> << >>]

TypeOK ==
  /\ main \in {"begin", "put", "terminate", "alloc", "stamp", "head", "count"}
  /\ gen \in Snapshots /\ left \in 0 .. MaxParts
  /\ pos \in 0 .. Size /\ error \in BOOLEAN
  /\ cells \in [Cells -> Snapshots]
  /\ R!RingTypeOK
  /\ \A r \in Readers :
       /\ rd[r].pc \in {"idle", "strlen", "copy", "locate", "read"}
       /\ rd[r].served \in 0 .. MaxRequests
       /\ rd[r].i \in 0 .. Size + Capacity
       /\ rd[r].at \in R!Slots
       /\ rd[r].out \in Seq(Snapshots)

Init ==
  /\ main = "begin" /\ gen = 0 /\ left = 0
  /\ pos = 0 /\ error = FALSE
  /\ cells = [c \in Cells |-> 0]
  /\ entries = R!Zeroed /\ head = 0 /\ count = 0 /\ log = << >>
  /\ rd = [r \in Readers |-> Idle]

-----------------------------------------------------------------------------
(* daemon_run.  A write to the live buffer disturbs the requests being     *)
(* answered.                                                               *)

SetCell(c, v) ==
  /\ cells' = [cells EXCEPT ![c] = v]
  /\ rd' = [r \in Readers |-> [rd[r] EXCEPT !.quiet = FALSE]]

(* json_init; the number of services, hence of writes, varies.             *)
Begin ==
  /\ main = "begin" /\ gen < MaxSnapshots
  /\ gen' = gen + 1
  /\ left' \in 1 .. MaxParts
  /\ pos' = 0 /\ error' = FALSE
  /\ SetCell(0, 0)
  /\ main' = "put"
  /\ UNCHANGED <<ring, log>>

\* A slip: no cell is kept for the NUL.
FitsExactly == pos + 1 <= Size

(* The guard of json_write. *)
Fits == ~error /\ pos + 1 < Size

(* json_write copies the text over the NUL ... *)
Put ==
  /\ main = "put" /\ left > 0 /\ Fits
  /\ SetCell(pos, gen)
  /\ left' = left - 1
  /\ main' = "terminate"
  /\ UNCHANGED <<gen, pos, error, ring, log>>

\* A slip: the NUL of json_init and of the static buffer are relied on.
TerminateNot ==
  /\ main = "terminate"
  /\ pos' = pos + 1
  /\ main' = "put"
  /\ UNCHANGED <<gen, left, error, cells, ring, log, rd>>

(* ... and then writes a new one. *)
Terminate ==
  /\ main = "terminate"
  /\ pos' = pos + 1
  /\ SetCell(pos + 1, 0)
  /\ main' = "put"
  /\ UNCHANGED <<gen, left, error, ring, log>>

(* json_write when the text does not fit: nothing is written any more.     *)
PutFails ==
  /\ main = "put" /\ left > 0 /\ ~Fits
  /\ error' = TRUE
  /\ left' = left - 1
  /\ UNCHANGED <<main, gen, pos, cells, ring, log, rd>>

(* ringbuf_push frees the old data and allocates the new.  The pointer     *)
(* never is NULL in between.                                               *)
PushAlloc ==
  /\ main = "put" /\ left = 0
  /\ \/ entries' = [entries EXCEPT ![head].data = gen] /\ main' = "stamp"
     \/ entries' = [entries EXCEPT ![head].data = 0] /\ main' = "begin"
  /\ UNCHANGED <<gen, left, pos, error, cells, head, count, log, rd>>

PushStamp ==
  /\ main = "stamp" /\ main' = "head"
  /\ entries' = [entries EXCEPT ![head].timestamp = gen]
  /\ UNCHANGED <<gen, left, pos, error, cells, head, count, log, rd>>

PushHead ==
  /\ main = "head" /\ main' = "count"
  /\ head' = R!NextHead(head)
  /\ log' = <<gen>> \o log
  /\ UNCHANGED <<gen, left, pos, error, cells, entries, count, rd>>

PushCount ==
  /\ main = "count" /\ main' = "begin"
  /\ count' = IF count < Capacity THEN count + 1 ELSE count
  /\ UNCHANGED <<gen, left, pos, error, cells, entries, head, log, rd>>

Main == \/ Begin \/ Put \/ Terminate \/ PutFails
        \/ PushAlloc \/ PushStamp \/ PushHead \/ PushCount

-----------------------------------------------------------------------------
(* The readers *)

Shared == <<main, gen, left, pos, error, cells, ring, log>>

Become(r, new) == rd' = [rd EXCEPT ![r] = new] /\ UNCHANGED Shared

(* handle_client of either server has read a request for the snapshot. *)
AskSnapshot(r) ==
  /\ rd[r].pc = "idle" /\ rd[r].served < MaxRequests /\ "snapshot" \in Kinds
  /\ Become(r, [Idle EXCEPT !.pc = "strlen", !.kind = "snapshot",
                         !.served = rd[r].served + 1])

(* strlen of the live buffer; an IPC reply that would not fit stays empty. *)
Scan(r) ==
  LET me == rd[r] IN
  /\ me.pc = "strlen"
  /\ Become(r, IF cells[me.i] # 0 THEN [me EXCEPT !.i = @ + 1]
               ELSE [me EXCEPT !.pc = "copy", !.i = 0,
                               !.n = IF r = "ipc" /\ me.i >= Room THEN 0 ELSE me.i])

(* memcpy into the reply, or send() of the buffer itself. *)
Copy(r) ==
  LET me == rd[r] IN
  /\ me.pc = "copy"
  /\ Become(r, IF me.i < me.n
               THEN [me EXCEPT !.out = Append(@, cells[me.i]), !.i = @ + 1]
               ELSE [me EXCEPT !.pc = "idle"])

(* get_history_callback: the length is clamped to ringbuf_count. *)
AskHistory(r) ==
  /\ rd[r].pc = "idle" /\ rd[r].served < MaxRequests /\ "history" \in Kinds
  /\ r = "ipc"
  /\ \E ask \in Asks :
       Become(r, [Idle EXCEPT !.pc = "locate", !.kind = "history",
                              !.served = rd[r].served + 1,
                              !.n = IF ask > count THEN count ELSE ask,
                              !.then = log])

\* A slip: the entry is located from the write position.
LocateAtHead(r) ==
  LET me == rd[r] IN
  /\ me.pc = "locate"
  /\ Become(r, IF me.i < me.n
               THEN [me EXCEPT !.pc = "read", !.at = R!RecentPosAtHead(me.i)]
               ELSE [me EXCEPT !.pc = "idle"])

(* ringbuf_get_recent, for the next index. *)
Locate(r) ==
  LET me == rd[r] IN
  /\ me.pc = "locate"
  /\ Become(r, IF me.i < me.n
               THEN [me EXCEPT !.pc = "read", !.at = R!RecentPos(me.i)]
               ELSE [me EXCEPT !.pc = "idle"])

(* The entry's time stamp goes into the reply unless its data is NULL. *)
Read(r) ==
  LET me == rd[r]
      e  == entries[me.at]
  IN  /\ me.pc = "read"
      /\ Become(r, [me EXCEPT !.pc = "locate", !.i = @ + 1,
                              !.out = IF e.data # 0
                                      THEN Append(@, e.timestamp) ELSE @])

Reader(r) ==
  \/ AskSnapshot(r) \/ Scan(r) \/ Copy(r)
  \/ AskHistory(r) \/ Locate(r) \/ Read(r)

Done ==
  /\ main = "begin" /\ gen = MaxSnapshots
  /\ \A r \in Readers : rd[r].pc = "idle" /\ rd[r].served = MaxRequests
  /\ UNCHANGED vars

Next == Main \/ (\E r \in Readers : Reader(r)) \/ Done

Spec == Init /\ [][Next]_vars

-----------------------------------------------------------------------------
(* strlen never leaves the buffer, not even while json_write has           *)
(* overwritten the NUL and not yet written the next one.                   *)
StrlenStops ==
  \A r \in Readers :
    rd[r].pc = "strlen" => \E c \in rd[r].i .. Size - 1 : cells[c] = 0

(* A snapshot request no write overlaps gets what the last completed turn  *)
(* built, to the last cell, or nothing when it exceeds an IPC reply.       *)
Answered(r) == rd[r].pc = "idle" /\ rd[r].kind = "snapshot"
Building == main = "terminate" \/ left > 0

QuietReplyExact ==
  \A r \in Readers :
    (Answered(r) /\ rd[r].quiet /\ ~Building) =>
      rd[r].out = IF r = "ipc" /\ pos >= Room THEN << >> ELSE [k \in 1 .. pos |-> gen]

(* A history reply, however many pushes it overlaps, never reports a       *)
(* snapshot older than the one pushed this many pushes before it began,    *)
(* and never one that was not taken.                                       *)
HistoryNotOlder ==
  \A r \in Readers :
    (rd[r].pc = "read" /\ entries[rd[r].at].data # 0) =>
      /\ entries[rd[r].at].timestamp > 0
      /\ entries[rd[r].at].timestamp >= rd[r].then[rd[r].i + 1]

(* Every reply to a snapshot request is a full snapshot: all its cells     *)
(* belong to the same one.                                                 *)
FullSnapshot ==
  \A r \in Readers :
    Answered(r) => \A j, k \in 1 .. Len(rd[r].out) : rd[r].out[j] = rd[r].out[k]
=============================================================================
