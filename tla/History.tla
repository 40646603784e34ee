------------------------------ MODULE History ------------------------------
(***************************************************************************)
(* What the snapshot history promises its readers: the last Capacity       *)
(* snapshots, oldest first.  The oldest one may lose its data (an          *)
(* allocation for its successor failed); nothing else may be lost,         *)
(* duplicated or reordered.  RingBuffer implements this specification.     *)
(***************************************************************************)
EXTENDS Naturals, Sequences

CONSTANTS Capacity, Data, Time, NULL

VARIABLE hist

Snapshot == [data : Data \cup {NULL}, timestamp : Time \cup {0}]

HistoryInit == hist = << >>

(* A new snapshot arrives; the oldest makes room when the history is full. *)
Record ==
  \E d \in Data, t \in Time :
    LET longer == Append(hist, [data |-> d, timestamp |-> t])
    IN  hist' = IF Len(longer) > Capacity THEN Tail(longer) ELSE longer

(* The oldest snapshot of a full history gave up its data. *)
LoseOldest ==
  /\ Len(hist) = Capacity
  /\ hist' = [hist EXCEPT ![1] = [data |-> NULL, timestamp |-> @.timestamp]]

Forget == hist' = << >>

HistoryNext == Record \/ LoseOldest \/ Forget

HistorySpec == HistoryInit /\ [][HistoryNext]_hist
=============================================================================
