----------------------------- MODULE RingBuffer -----------------------------
(***************************************************************************)
(* The snapshot history of the daemon (src/daemon/ringbuffer.c): an array  *)
(* of Capacity entries, the next write position and the number of valid    *)
(* entries.  Every allocation may fail.  The pointer rb is NULL until      *)
(* ringbuf_create succeeds and after ringbuf_destroy.                      *)
(***************************************************************************)
EXTENDS Integers, Sequences

CONSTANTS
  Capacity,   \* rb->capacity, from max_snapshots
  Data,       \* the snapshots that may be stored
  Time,       \* the values time(NULL) may return
  NULL        \* a NULL data pointer

ASSUME CapacityAssumption == Capacity \in Nat \ {0}
ASSUME NullAssumption == NULL \notin Data

VARIABLES
  allocated,  \* rb # NULL
  entries,    \* rb->entries
  head,       \* rb->head
  count       \* rb->count

ringVars == <<allocated, entries, head, count>>

Slots == 0 .. Capacity - 1
Entry == [data : Data \cup {NULL}, timestamp : Time \cup {0}]

RingTypeOK ==
  /\ allocated \in BOOLEAN
  /\ entries \in [Slots -> Entry]
  /\ head \in Slots
  /\ count \in 0 .. Capacity

Zeroed == [i \in Slots |-> [data |-> NULL, timestamp |-> 0]]

RingInit ==
  /\ allocated = FALSE
  /\ entries = Zeroed
  /\ head = 0
  /\ count = 0

-----------------------------------------------------------------------------
(* Where an entry lives: ringbuf_get counts from the oldest,               *)
(* ringbuf_get_recent from the newest.                                     *)

\* A slip: the newest entry is taken to be at head itself.
RecentPosAtHead(i) == (head - i + Capacity) % Capacity

GetPos(i) == (head - count + i + Capacity) % Capacity
RecentPos(i) == (head - 1 - i + Capacity) % Capacity

\* A slip: the write position wraps one slot early.
NextHeadEarly(h) == IF h + 2 >= Capacity THEN 0 ELSE h + 1

NextHead(h) == (h + 1) % Capacity

-----------------------------------------------------------------------------
(* ringbuf_create: the array comes zeroed from calloc. *)
Create ==
  /\ ~allocated
  /\ allocated' = TRUE
  /\ entries' = Zeroed
  /\ head' = 0
  /\ count' = 0

(* ringbuf_push when malloc succeeds: the entry at head is freed and       *)
(* replaced, then head and count advance.                                  *)
Push(d, t) ==
  /\ allocated
  /\ entries' = [entries EXCEPT ![head] = [data |-> d, timestamp |-> t]]
  /\ head' = NextHead(head)
  /\ count' = IF count < Capacity THEN count + 1 ELSE count
  /\ UNCHANGED allocated

\* A slip: head and count advance although nothing was stored.
PushFailedAdvancing ==
  /\ allocated
  /\ entries' = [entries EXCEPT ![head].data = NULL]
  /\ head' = NextHead(head)
  /\ count' = IF count < Capacity THEN count + 1 ELSE count
  /\ UNCHANGED allocated

(* ringbuf_push when malloc fails: the old data is already freed, data is  *)
(* NULL, the timestamp stays, head and count stay.                         *)
PushFailed ==
  /\ allocated
  /\ entries' = [entries EXCEPT ![head].data = NULL]
  /\ UNCHANGED <<allocated, head, count>>

\* A slip: the entries keep their data when the buffer is cleared.
ClearedKeepingData == entries

(* The entries ringbuf_clear leaves behind: every data pointer freed, the  *)
(* timestamps untouched.                                                   *)
Cleared ==
  [i \in Slots |-> [data |-> NULL, timestamp |-> entries[i].timestamp]]

Clear ==
  /\ allocated
  /\ entries' = Cleared
  /\ head' = 0
  /\ count' = 0
  /\ UNCHANGED allocated

(* ringbuf_destroy clears, then frees the array and the buffer. *)
Destroy ==
  /\ allocated
  /\ allocated' = FALSE
  /\ entries' = Zeroed
  /\ head' = 0
  /\ count' = 0

RingNext ==
  \/ Create
  \/ \E d \in Data, t \in Time : Push(d, t)
  \/ PushFailed
  \/ Clear
  \/ Destroy

RingSpec == RingInit /\ [][RingNext]_ringVars

-----------------------------------------------------------------------------
(* What the readers see, oldest first: ringbuf_get(rb, 0 .. count - 1). *)
Contents == [i \in 1 .. count |-> entries[GetPos(i - 1)]]

(* The layout behind the index arithmetic.  While the buffer fills up the  *)
(* write position is the count and exactly the slots below it own data;    *)
(* once it is full only the slot about to be overwritten may have lost     *)
(* its data.                                                               *)
Layout ==
  /\ count < Capacity =>
       /\ head = count
       /\ \A s \in Slots : entries[s].data # NULL <=> s < count
  /\ count = Capacity =>
       \A s \in Slots \ {head} : entries[s].data # NULL

(* A failed allocation in ringbuf_push costs at most the oldest snapshot   *)
(* of a full buffer: every other entry ringbuf_get returns has its data.   *)
OnlyOldestLost ==
  \A i \in 0 .. count - 1 :
    entries[GetPos(i)].data = NULL => i = 0 /\ count = Capacity

(* ringbuf_get and ringbuf_get_recent agree on the order of the entries:   *)
(* the i-th newest is the (count - 1 - i)-th oldest.                       *)
RecentMirrorsGet ==
  \A i \in 0 .. count - 1 : RecentPos(i) = GetPos(count - 1 - i)

(* The buffer implements the history the readers expect. *)
Hist == INSTANCE History WITH hist <- Contents
Refinement == Hist!HistorySpec
=============================================================================
