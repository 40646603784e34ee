--------------------------- MODULE SnapshotProofs ---------------------------
(***************************************************************************)
(* What the server threads may rely on although they read the live         *)
(* snapshot and the history without a lock: proved for every buffer size,  *)
(* ring capacity, reply size and number of turns and requests.             *)
(***************************************************************************)
EXTENDS Snapshot, Lemmas

USE DEF Cells

(* The buffer daemon_run builds.  Its last cell is never written: that is  *)
(* the NUL strlen can rely on.                                             *)
Buffer ==
  /\ main \in {"begin", "put", "terminate", "stamp", "head", "count"}
  /\ gen \in Nat /\ left \in Nat /\ pos \in Nat /\ pos < Size
  /\ main # "begin" => gen > 0
  /\ pos > 0 => gen > 0
  /\ main = "terminate" => pos + 1 < Size
  /\ cells \in [Cells -> Nat]
  /\ cells[Size - 1] = 0
  /\ \A c \in Cells : c < pos => cells[c] = gen
  /\ cells[pos] = IF main = "terminate" THEN gen ELSE 0

(* The static buffer is zeroed. *)
LEMMA BufferInit == Init => Buffer
BY SnapshotAssumption DEF Init, Buffer

(* json_init, json_write and the push keep it in shape. *)
LEMMA BufferStep == Buffer /\ [Next]_vars => Buffer'
<1> SUFFICES ASSUME Buffer, [Next]_vars PROVE Buffer'
  OBVIOUS
<1> USE SnapshotAssumption
<1>1. CASE Begin
  <2>1. /\ gen' = gen + 1 /\ left' \in Nat /\ pos' = 0 /\ main' = "put"
        /\ cells' = [cells EXCEPT ![0] = 0]
    BY <1>1 DEF Begin, SetCell
  <2> QED BY <2>1 DEF Buffer
<1>2. CASE Put
  <2>1. /\ main = "put" /\ pos + 1 < Size /\ left' \in Nat /\ main' = "terminate"
        /\ cells' = [cells EXCEPT ![pos] = gen]
        /\ gen' = gen /\ pos' = pos
    BY <1>2 DEF Put, SetCell, Fits, Buffer
  <2>2. cells' \in [Cells -> Nat] /\ cells'[Size - 1] = 0
    BY <2>1 DEF Buffer
  <2>3. \A c \in Cells : c < pos => cells'[c] = gen
    BY <2>1 DEF Buffer
  <2>4. cells'[pos'] = gen
    BY <2>1 DEF Buffer
  <2> QED BY <2>1, <2>2, <2>3, <2>4 DEF Buffer
<1>3. CASE Terminate
  <2>1. /\ main = "terminate" /\ main' = "put" /\ pos' = pos + 1
        /\ cells' = [cells EXCEPT ![pos + 1] = 0]
        /\ gen' = gen /\ left' = left
    BY <1>3 DEF Terminate, SetCell
  <2>2. pos + 1 \in Cells /\ pos \in Cells /\ cells[pos] = gen
    BY <2>1 DEF Buffer
  <2>3. cells' \in [Cells -> Nat] /\ cells'[Size - 1] = 0 /\ cells'[pos'] = 0
    BY <2>1, <2>2 DEF Buffer
  <2>4. ASSUME NEW c \in Cells, c < pos' PROVE cells'[c] = gen
    <3>1. c # pos + 1 /\ (c = pos \/ c < pos)
      BY <2>1, <2>4 DEF Buffer
    <3> QED BY <2>1, <2>2, <3>1 DEF Buffer
  <2> QED BY <2>1, <2>3, <2>4 DEF Buffer
<1>4. CASE PutFails
  BY <1>4 DEF PutFails, Buffer
<1>5. CASE PushAlloc
  BY <1>5 DEF PushAlloc, Buffer
<1>6. CASE PushStamp
  BY <1>6 DEF PushStamp, Buffer
<1>7. CASE PushHead
  BY <1>7 DEF PushHead, Buffer
<1>8. CASE PushCount
  BY <1>8 DEF PushCount, Buffer
<1>9. ASSUME UNCHANGED <<main, gen, left, pos, cells>> PROVE Buffer'
  BY <1>9 DEF Buffer
<1>10. ASSUME NEW r \in Readers, Reader(r) PROVE Buffer'
  <2>1. UNCHANGED Shared
    BY <1>10 DEF Reader, AskSnapshot, Scan, Copy, AskHistory, Locate, Read, Become
  <2> QED BY <1>9, <2>1 DEF Shared
<1>11. CASE UNCHANGED vars
  BY <1>9, <1>11 DEF vars
<1> QED
  BY <1>1, <1>2, <1>3, <1>4, <1>5, <1>6, <1>7, <1>8, <1>10, <1>11
     DEF Next, Main, Done

-----------------------------------------------------------------------------
(* Where ringbuf_get_recent looks for the entry pushed i pushes before the *)
(* newest, when the write position is h.                                   *)
Place(h, i) == (h - 1 - i + Capacity) % Capacity

(* A push moves every entry one place away from the newest. *)
LEMMA PlaceMoves ==
  ASSUME NEW h \in R!Slots
  PROVE  /\ R!NextHead(h) \in R!Slots
         /\ Place(R!NextHead(h), 0) = h
         /\ \A i \in 0 .. Capacity - 1 :
              /\ Place(h, i) \in R!Slots
              /\ i > 0 => Place(R!NextHead(h), i) = Place(h, i - 1)
<1>1. Capacity \in Nat \ {0} /\ h \in Int /\ 0 =< h /\ h < Capacity
  BY SnapshotAssumption DEF R!Slots
<1>2. R!NextHead(h) = IF h + 1 < Capacity THEN h + 1 ELSE 0
  <2> DEFINE x == h + 1
  <2>1. x \in Int /\ 0 =< x /\ x < 2 * Capacity
    BY <1>1
  <2>2. x % Capacity = IF x < Capacity THEN x ELSE x - Capacity
    <3> HIDE DEF x
    <3> QED BY <1>1, <2>1, Wrap
  <2> QED BY <1>1, <2>2 DEF R!NextHead
<1>3. ASSUME NEW g \in Int, 0 =< g, g < Capacity, NEW i \in Int, 0 =< i, i < Capacity
      PROVE  Place(g, i) = IF i < g THEN g - 1 - i ELSE g - 1 - i + Capacity
  <2> DEFINE x == g - 1 - i + Capacity
  <2>1. x \in Int /\ 0 =< x /\ x < 2 * Capacity
    BY <1>1, <1>3
  <2>2. x % Capacity = IF x < Capacity THEN x ELSE x - Capacity
    <3> HIDE DEF x
    <3> QED BY <1>1, <2>1, Wrap
  <2> QED BY <1>1, <1>3, <2>2 DEF Place
<1>4. R!NextHead(h) \in Int /\ 0 =< R!NextHead(h) /\ R!NextHead(h) < Capacity
  BY <1>1, <1>2
<1>5. Place(R!NextHead(h), 0) = h
  BY <1>1, <1>2, <1>3, <1>4
<1>6. ASSUME NEW i \in 0 .. Capacity - 1
      PROVE  /\ Place(h, i) \in R!Slots
             /\ i > 0 => Place(R!NextHead(h), i) = Place(h, i - 1)
  <2>1. i \in Int /\ 0 =< i /\ i < Capacity
    BY <1>1
  <2>2. Place(h, i) = IF i < h THEN h - 1 - i ELSE h - 1 - i + Capacity
    BY <1>1, <1>3, <2>1
  <2>3. Place(R!NextHead(h), i) = IF i < R!NextHead(h) THEN R!NextHead(h) - 1 - i
                                  ELSE R!NextHead(h) - 1 - i + Capacity
    BY <1>3, <1>4, <2>1
  <2>4. i > 0 => Place(h, i - 1) = IF i - 1 < h THEN h - i ELSE h - i + Capacity
    BY <1>1, <1>3, <2>1
  <2>5. Place(h, i) \in R!Slots
    BY <1>1, <2>1, <2>2 DEF R!Slots
  <2> QED BY <1>1, <1>2, <2>1, <2>3, <2>4, <2>5
<1> QED BY <1>1, <1>4, <1>5, <1>6 DEF R!Slots

(* The history.  An entry is never older than the push it stands for; it   *)
(* may be newer while its slot is being written again.                     *)
Ring ==
  /\ entries \in [R!Slots -> [data : Nat, timestamp : Nat]]
  /\ head \in R!Slots /\ count \in 0 .. Capacity
  /\ log \in Seq(Nat) /\ count =< Len(log)
  /\ main = "count" => count < Len(log)
  /\ \A j \in 1 .. Len(log) : 0 < log[j] /\ log[j] =< gen
  /\ \A j \in 1 .. Len(log) : j > 1 => log[j] =< log[j - 1]
  /\ \A s \in R!Slots : entries[s].timestamp =< gen
  /\ main = "head" => entries[head].timestamp = gen
  /\ \A i \in 0 .. Capacity - 1 :
       i < Len(log) => log[i + 1] =< entries[Place(head, i)].timestamp

(* ringbuf_create hands out an empty, zeroed ring. *)
LEMMA RingInit == Init => Ring
<1> SUFFICES ASSUME Init PROVE Ring
  OBVIOUS
<1>1. entries = [s \in R!Slots |-> [data |-> 0, timestamp |-> 0]]
  BY DEF Init, R!Zeroed
<1>2. log = << >> /\ Len(log) = 0 /\ head = 0 /\ count = 0 /\ gen = 0 /\ main = "begin"
  BY DEF Init
<1>3. log \in Seq(Nat) /\ head \in R!Slots /\ count \in 0 .. Capacity
  BY <1>2, SnapshotAssumption DEF R!Slots
<1>4. \A s \in R!Slots : entries[s].timestamp = 0 /\ entries[s] \in [data : Nat, timestamp : Nat]
  BY <1>1
<1> QED BY <1>1, <1>2, <1>3, <1>4, SnapshotAssumption DEF Ring

(* Every access of ringbuf_push keeps the history in order. *)
LEMMA RingStep == Buffer /\ Ring /\ [Next]_vars => Ring'
<1> SUFFICES ASSUME Buffer, Ring, [Next]_vars PROVE Ring'
  OBVIOUS
<1> USE SnapshotAssumption
<1>1. CASE Begin
  <2>1. gen' = gen + 1 /\ gen \in Nat /\ main' = "put"
        /\ UNCHANGED <<entries, head, count, log>>
    BY <1>1 DEF Begin, ring, Buffer
  <2>2. \A j \in 1 .. Len(log) : 0 < log[j] /\ log[j] =< gen'
    BY <2>1 DEF Ring
  <2>3. \A s \in R!Slots : entries[s].timestamp =< gen'
    BY <2>1 DEF Ring
  <2> QED BY <2>1, <2>2, <2>3 DEF Ring
<1>2. ASSUME UNCHANGED <<entries, head, count, log, gen>>,
             main' \notin {"head", "count"} \/ UNCHANGED main
      PROVE  Ring'
  BY <1>2 DEF Ring
<1>3. CASE Put
  BY <1>2, <1>3 DEF Put, ring
<1>4. CASE Terminate
  BY <1>2, <1>4 DEF Terminate, ring
<1>5. CASE PutFails
  BY <1>2, <1>5 DEF PutFails, ring
<1>6. CASE PushAlloc
  <2>1. PICK d \in Nat : entries' = [entries EXCEPT ![head].data = d]
    BY <1>6 DEF PushAlloc, Buffer
  <2>2. main' \notin {"head", "count"} /\ UNCHANGED <<gen, head, count, log>>
    BY <1>6 DEF PushAlloc
  <2>3. /\ entries' \in [R!Slots -> [data : Nat, timestamp : Nat]]
        /\ \A s \in R!Slots : entries'[s].timestamp = entries[s].timestamp
    BY <2>1 DEF Ring
  <2>4. \A i \in 0 .. Capacity - 1 : Place(head, i) \in R!Slots
    BY PlaceMoves DEF Ring
  <2> QED BY <2>2, <2>3, <2>4 DEF Ring
<1>7. CASE PushStamp
  <2>1. /\ entries' = [entries EXCEPT ![head].timestamp = gen]
        /\ UNCHANGED <<gen, head, count, log>> /\ gen \in Nat /\ main' = "head"
    BY <1>7 DEF PushStamp, Buffer
  <2>2. /\ entries' \in [R!Slots -> [data : Nat, timestamp : Nat]]
        /\ entries'[head].timestamp = gen
        /\ \A s \in R!Slots : entries[s].timestamp =< entries'[s].timestamp
        /\ \A s \in R!Slots : entries'[s].timestamp =< gen
    <3>1. entries' = [entries EXCEPT ![head] = [entries[head] EXCEPT !.timestamp = gen]]
      BY <2>1
    <3>2. head \in R!Slots /\ entries \in [R!Slots -> [data : Nat, timestamp : Nat]]
      BY DEF Ring
    <3>3. [entries[head] EXCEPT !.timestamp = gen] \in [data : Nat, timestamp : Nat]
      BY <2>1, <3>2
    <3>4. entries' \in [R!Slots -> [data : Nat, timestamp : Nat]]
      BY <3>1, <3>2, <3>3
    <3>5. entries'[head].timestamp = gen
      BY <3>1, <3>2
    <3>6. \A s \in R!Slots : s # head => entries'[s] = entries[s]
      BY <3>1, <3>2
    <3>7. \A s \in R!Slots : entries[s].timestamp =< gen /\ entries[s].timestamp \in Nat
      BY <3>2 DEF Ring
    <3> QED BY <2>1, <3>4, <3>5, <3>6, <3>7
  <2>3. ASSUME NEW i \in 0 .. Capacity - 1, i < Len(log)
        PROVE  log[i + 1] =< entries'[Place(head, i)].timestamp
    <3>1. Place(head, i) \in R!Slots
      BY PlaceMoves DEF Ring
    <3>2. log[i + 1] =< entries[Place(head, i)].timestamp
      BY <2>3 DEF Ring
    <3>3. /\ entries[Place(head, i)].timestamp \in Nat
          /\ entries'[Place(head, i)].timestamp \in Nat /\ log[i + 1] \in Nat
      BY <2>2, <2>3, <3>1, SMTT(30) DEF Ring
    <3> QED BY <2>2, <3>1, <3>2, <3>3
  <2> QED BY <2>1, <2>2, <2>3 DEF Ring
<1>8. CASE PushHead
  <2>1. /\ main = "head" /\ main' = "count" /\ head' = R!NextHead(head)
        /\ log' = <<gen>> \o log /\ UNCHANGED <<gen, entries, count>>
    BY <1>8 DEF PushHead
  <2>2. /\ log' \in Seq(Nat) /\ Len(log') = Len(log) + 1 /\ log'[1] = gen
        /\ \A j \in 2 .. Len(log) + 1 : log'[j] = log[j - 1]
    BY <2>1 DEF Ring, Buffer
  <2>3. head' \in R!Slots
    BY <2>1, PlaceMoves DEF Ring
  <2>4. \A j \in 1 .. Len(log') : 0 < log'[j] /\ log'[j] =< gen
    <3> SUFFICES ASSUME NEW j \in 1 .. Len(log') PROVE 0 < log'[j] /\ log'[j] =< gen
      OBVIOUS
    <3>1. CASE j = 1
      BY <2>1, <2>2, <3>1 DEF Buffer
    <3>2. CASE j # 1
      <4>1. j - 1 \in 1 .. Len(log) /\ log'[j] = log[j - 1]
        BY <2>2, <3>2, SMTT(30) DEF Ring
      <4> QED BY <4>1 DEF Ring
    <3> QED BY <3>1, <3>2
  <2>5. \A j \in 1 .. Len(log') : j > 1 => log'[j] =< log'[j - 1]
    <3> SUFFICES ASSUME NEW j \in 1 .. Len(log'), j > 1 PROVE log'[j] =< log'[j - 1]
      OBVIOUS
    <3>1. j - 1 \in 1 .. Len(log) /\ log'[j] = log[j - 1]
      BY <2>2, SMTT(30) DEF Ring
    <3>2. CASE j = 2
      BY <2>2, <3>1, <3>2 DEF Ring
    <3>3. CASE j # 2
      <4>1. j - 1 \in 2 .. Len(log) + 1 /\ j - 1 > 1
        BY <3>1, <3>3 DEF Ring
      <4>2. log'[j - 1] = log[(j - 1) - 1]
        BY <2>2, <4>1
      <4> QED BY <3>1, <4>1, <4>2 DEF Ring
    <3> QED BY <3>2, <3>3
  <2>6. ASSUME NEW i \in 0 .. Capacity - 1, i < Len(log')
        PROVE  log'[i + 1] =< entries'[Place(head', i)].timestamp
    <3>1. CASE i = 0
      <4>1. Place(head', 0) = head
        BY <2>1, PlaceMoves DEF Ring
      <4> QED BY <2>1, <2>2, <3>1, <4>1 DEF Ring, Buffer
    <3>2. CASE i # 0
      <4>1. Place(head', i) = Place(head, i - 1)
        BY <2>1, <3>2, PlaceMoves DEF Ring
      <4>2. i - 1 \in 0 .. Capacity - 1 /\ i - 1 < Len(log) /\ log'[i + 1] = log[i]
        <5>1. Len(log) \in Nat /\ i \in Nat
          BY DEF Ring
        <5>2. i + 1 \in 2 .. Len(log) + 1 /\ (i + 1) - 1 = i /\ i - 1 < Len(log)
          BY <2>2, <2>6, <3>2, <5>1
        <5>3. log'[i + 1] = log[i]
          BY <2>2, <5>2
        <5>4. i - 1 \in 0 .. Capacity - 1
          BY <3>2
        <5> QED BY <5>2, <5>3, <5>4
      <4>3. log[i] =< entries[Place(head, i - 1)].timestamp
        <5>1. log[(i - 1) + 1] =< entries[Place(head, i - 1)].timestamp
          BY <4>2 DEF Ring
        <5> QED BY <5>1
      <4> QED BY <2>1, <4>1, <4>2, <4>3
    <3> QED BY <3>1, <3>2
  <2>7. count' < Len(log')
    BY <2>1, <2>2 DEF Ring
  <2>8. count' =< Len(log') /\ count' \in 0 .. Capacity
    BY <2>1, <2>2 DEF Ring
  <2> QED BY <2>1, <2>2, <2>3, <2>4, <2>5, <2>6, <2>7, <2>8 DEF Ring
<1>9. CASE PushCount
  <2>1. main = "count" /\ main' = "begin" /\ UNCHANGED <<gen, entries, head, log>>
    BY <1>9 DEF PushCount
  <2>2. count' \in 0 .. Capacity /\ count' =< Len(log)
    BY <1>9, <2>1 DEF PushCount, Ring
  <2> QED BY <2>1, <2>2 DEF Ring
<1>10. ASSUME NEW r \in Readers, Reader(r) PROVE Ring'
  <2>1. UNCHANGED Shared
    BY <1>10 DEF Reader, AskSnapshot, Scan, Copy, AskHistory, Locate, Read, Become
  <2> QED BY <1>2, <2>1 DEF Shared, ring
<1>11. CASE UNCHANGED vars
  BY <1>2, <1>11 DEF vars, ring
<1> QED
  BY <1>1, <1>3, <1>4, <1>5, <1>6, <1>7, <1>8, <1>9, <1>10, <1>11
     DEF Next, Main, Done

-----------------------------------------------------------------------------
(* The locals of a server thread. *)
Numbers == Seq(Nat)
Local ==
  [pc : {"idle", "strlen", "copy", "locate", "read"},
   kind : {"none", "snapshot", "history"}, served : Nat, n : Nat, i : Nat,
   at : Nat, out : Numbers, quiet : BOOLEAN, then : Numbers]

(* A thread that answers a snapshot request stays inside the buffer. *)
Inside(me) ==
  /\ me.pc \in {"strlen", "copy"} => me.kind = "snapshot"
  /\ me.pc \in {"locate", "read"} => me.kind = "history"
  /\ me.pc = "strlen" => me.i < Size /\ me.out = << >>
  /\ me.pc = "copy" => me.n < Size /\ me.i =< me.n

(* What one without interference has found out so far about a snapshot of  *)
(* p cells with number g.                                                  *)
Fitting(r, p) == IF r = "ipc" /\ p >= Room THEN 0 ELSE p
Copies(g, n) == [k \in 1 .. n |-> g]
Exact(r, me, p, g) ==
  /\ me.pc = "strlen" => me.i =< p
  /\ me.pc = "copy" => me.n = Fitting(r, p) /\ me.out = Copies(g, me.i)
  /\ me.pc = "idle" /\ me.kind = "snapshot" => me.out = Copies(g, Fitting(r, p))

(* A thread that answers a history request: the pushes since it began have *)
(* only brought newer snapshots to each place.                             *)
Recalls(me, l, e) ==
  me.pc \in {"locate", "read"} =>
    /\ me.i =< me.n /\ me.n =< Capacity
    /\ me.n =< Len(me.then) /\ Len(me.then) =< Len(l)
    /\ \A j \in 1 .. Len(me.then) : 0 < me.then[j] /\ me.then[j] =< l[j]
    /\ me.pc = "read" => /\ me.i < me.n /\ me.at \in R!Slots
                         /\ me.then[me.i + 1] =< e[me.at].timestamp

Served(r) ==
  /\ Inside(rd[r])
  /\ rd[r].quiet /\ main # "terminate" => Exact(r, rd[r], pos, gen)
  /\ Recalls(rd[r], log, entries)

Threads == rd \in [Readers -> Local] /\ \A r \in Readers : Served(r)

(* One more cell is copied. *)
LEMMA CopyOneMore ==
  ASSUME NEW g \in Nat, NEW n \in Nat
  PROVE  Append(Copies(g, n), g) = Copies(g, n + 1)
<1>1. Copies(g, n) \in Seq(Nat) /\ Len(Copies(g, n)) = n
  BY DEF Copies
<1>2. Append(Copies(g, n), g) \in Seq(Nat) /\ Len(Append(Copies(g, n), g)) = n + 1
  BY <1>1
<1>3. Copies(g, n + 1) \in Seq(Nat) /\ Len(Copies(g, n + 1)) = n + 1
  BY DEF Copies
<1>4. ASSUME NEW k \in 1 .. n + 1
      PROVE  Append(Copies(g, n), g)[k] = Copies(g, n + 1)[k]
  <2>1. Copies(g, n + 1)[k] = g /\ (k =< n => Copies(g, n)[k] = g)
    BY DEF Copies
  <2>2. CASE k = n + 1
    BY <1>1, <2>1, <2>2
  <2>3. CASE k # n + 1
    BY <1>1, <2>1, <2>3
  <2> QED BY <2>2, <2>3
<1> QED BY <1>2, <1>3, <1>4

(* What a thread recalls survives a push. *)
LEMMA RecallsGrows ==
  ASSUME NEW me \in Local, NEW l1 \in Seq(Nat), NEW l2 \in Seq(Nat),
         NEW e1 \in [R!Slots -> [data : Nat, timestamp : Nat]],
         NEW e2 \in [R!Slots -> [data : Nat, timestamp : Nat]],
         Len(l1) =< Len(l2), \A j \in 1 .. Len(l1) : l1[j] =< l2[j],
         \A s \in R!Slots : e1[s].timestamp =< e2[s].timestamp,
         Recalls(me, l1, e1)
  PROVE  Recalls(me, l2, e2)
<1> SUFFICES ASSUME me.pc \in {"locate", "read"}
             PROVE  /\ me.i =< me.n /\ me.n =< Capacity
                    /\ me.n =< Len(me.then) /\ Len(me.then) =< Len(l2)
                    /\ \A j \in 1 .. Len(me.then) : 0 < me.then[j] /\ me.then[j] =< l2[j]
                    /\ me.pc = "read" => /\ me.i < me.n /\ me.at \in R!Slots
                                         /\ me.then[me.i + 1] =< e2[me.at].timestamp
  BY DEF Recalls
<1>1. /\ me.i =< me.n /\ me.n =< Capacity
      /\ me.n =< Len(me.then) /\ Len(me.then) =< Len(l1)
      /\ \A j \in 1 .. Len(me.then) : 0 < me.then[j] /\ me.then[j] =< l1[j]
      /\ me.pc = "read" => /\ me.i < me.n /\ me.at \in R!Slots
                           /\ me.then[me.i + 1] =< e1[me.at].timestamp
  BY DEF Recalls
<1>2. me.then \in Seq(Nat) /\ me.i \in Nat /\ me.n \in Nat
  BY DEF Local, Numbers
<1> DEFINE t == me.then
<1>a. /\ t \in Seq(Nat) /\ Len(t) \in Nat /\ Len(l1) \in Nat /\ Len(l2) \in Nat
      /\ \A j \in 1 .. Len(t) : t[j] \in Nat
      /\ \A j \in 1 .. Len(l1) : l1[j] \in Nat
      /\ \A j \in 1 .. Len(l2) : l2[j] \in Nat
  BY <1>2, ElementIn
<1>3. Len(me.then) =< Len(l2)
  BY <1>1, <1>a
<1>4. ASSUME NEW j \in 1 .. Len(me.then) PROVE 0 < me.then[j] /\ me.then[j] =< l2[j]
  <2>1. j \in 1 .. Len(l1) /\ j \in 1 .. Len(l2)
    BY <1>1, <1>a, SMTT(30)
  <2>2. me.then[j] \in Nat /\ l1[j] \in Nat /\ l2[j] \in Nat
    BY <1>a, <2>1
  <2>3. 0 < me.then[j] /\ me.then[j] =< l1[j] /\ l1[j] =< l2[j]
    BY <1>1, <2>1
  <2> QED BY <2>2, <2>3, SMTT(30)
<1>5. ASSUME me.pc = "read" PROVE me.then[me.i + 1] =< e2[me.at].timestamp
  <2>1. me.i + 1 \in 1 .. Len(me.then) /\ me.at \in R!Slots
    <3>1. me.i < me.n /\ me.n =< Len(me.then) /\ me.at \in R!Slots
      BY <1>1, <1>5
    <3>2. me.i \in Nat /\ me.n \in Nat /\ Len(me.then) \in Nat
      BY <1>2, <1>a
    <3>3. \A i, n, m \in Nat : i < n /\ n =< m => i + 1 \in 1 .. m
      OBVIOUS
    <3> QED BY <3>1, <3>2, <3>3, Zenon
  <2>2. me.then[me.i + 1] \in Nat
    BY <1>a, <2>1
  <2>3. e1[me.at].timestamp \in Nat /\ e2[me.at].timestamp \in Nat
    BY <2>1
  <2>4. /\ me.then[me.i + 1] =< e1[me.at].timestamp
        /\ e1[me.at].timestamp =< e2[me.at].timestamp
    BY <1>1, <1>5, <2>1
  <2> QED BY <2>2, <2>3, <2>4
<1> QED BY <1>1, <1>3, <1>4, <1>5

(* Both threads start idle. *)
LEMMA ThreadsInit == Init => Threads
<1> SUFFICES ASSUME Init PROVE Threads
  OBVIOUS
<1>1. Idle \in Local
  <2>1. << >> \in Numbers
    BY DEF Numbers
  <2> QED BY <2>1 DEF Idle, Local
<1>2. rd = [r \in Readers |-> Idle]
  BY DEF Init
<1>3. rd \in [Readers -> Local]
  BY <1>1, <1>2
<1>4. ASSUME NEW r \in Readers PROVE Served(r)
  <2>1. rd[r].pc = "idle" /\ rd[r].kind = "none"
    BY <1>2 DEF Idle
  <2> QED BY <2>1 DEF Served, Inside, Exact, Recalls
<1> QED BY <1>3, <1>4 DEF Threads

(* A step of daemon_run ... *)
LEMMA MainServes ==
  ASSUME Buffer, Ring, Threads, Main, Ring'
  PROVE  Threads'
<1> USE SnapshotAssumption
<1>1. ASSUME rd' = [r \in Readers |-> [rd[r] EXCEPT !.quiet = FALSE]],
             UNCHANGED <<log, entries>>
      PROVE  Threads'
  <2>1. ASSUME NEW r \in Readers PROVE rd'[r] \in Local /\ Served(r)'
    <3>1. rd[r] \in Local /\ Served(r)
      BY DEF Threads
    <3>2. rd'[r] = [rd[r] EXCEPT !.quiet = FALSE]
      BY <1>1
    <3>3. rd'[r] \in Local /\ ~rd'[r].quiet
      BY <3>1, <3>2 DEF Local
    <3>4. /\ rd'[r].pc = rd[r].pc /\ rd'[r].kind = rd[r].kind /\ rd'[r].n = rd[r].n
          /\ rd'[r].i = rd[r].i /\ rd'[r].at = rd[r].at /\ rd'[r].out = rd[r].out
          /\ rd'[r].then = rd[r].then
      BY <3>1, <3>2 DEF Local
    <3>5. Inside(rd'[r])
      BY <3>1, <3>4 DEF Served, Inside
    <3>6. Recalls(rd'[r], log', entries')
      BY <1>1, <3>1, <3>4 DEF Served, Recalls
    <3> QED BY <3>3, <3>5, <3>6 DEF Served
  <2>2. rd' \in [Readers -> Local]
    BY <1>1, <2>1
  <2> QED BY <2>1, <2>2 DEF Threads
<1>2. ASSUME UNCHANGED <<rd, pos, gen>>, main # "terminate",
             Len(log) =< Len(log'), \A j \in 1 .. Len(log) : log[j] =< log'[j],
             \A s \in R!Slots : entries[s].timestamp =< entries'[s].timestamp
      PROVE  Threads'
  <2>1. ASSUME NEW r \in Readers PROVE Served(r)'
    <3>1. rd[r] \in Local /\ Served(r)
      BY DEF Threads
    <3>2. Recalls(rd[r], log', entries')
      <4>1. /\ log \in Seq(Nat) /\ log' \in Seq(Nat)
            /\ entries \in [R!Slots -> [data : Nat, timestamp : Nat]]
            /\ entries' \in [R!Slots -> [data : Nat, timestamp : Nat]]
        BY DEF Ring
      <4>2. Recalls(rd[r], log, entries)
        BY <3>1 DEF Served
      <4> QED BY <1>2, <3>1, <4>1, <4>2, RecallsGrows
    <3> QED BY <1>2, <3>1, <3>2 DEF Served
  <2> QED BY <1>2, <2>1 DEF Threads
<1>3. /\ \A j \in 1 .. Len(log) : log[j] =< log[j]
      /\ \A s \in R!Slots : entries[s].timestamp =< entries[s].timestamp
      /\ Len(log) =< Len(log)
  <2>1. \A j \in 1 .. Len(log) : log[j] \in Nat
    BY SMTT(30) DEF Ring
  <2>2. \A s \in R!Slots : entries[s].timestamp \in Nat
    BY DEF Ring
  <2>3. Len(log) \in Nat
    BY DEF Ring
  <2> QED BY <2>1, <2>2, <2>3
<1>4. CASE Begin
  BY <1>1, <1>4 DEF Begin, SetCell, ring
<1>5. CASE Put
  BY <1>1, <1>5 DEF Put, SetCell, ring
<1>6. CASE Terminate
  BY <1>1, <1>6 DEF Terminate, SetCell, ring
<1>7. CASE PutFails
  <2>1. UNCHANGED <<rd, pos, gen, log, entries>> /\ main # "terminate"
    BY <1>7 DEF PutFails, ring
  <2> QED BY <1>2, <1>3, <2>1
<1>8. CASE PushAlloc
  <2>1. UNCHANGED <<rd, pos, gen, log>> /\ main # "terminate"
    BY <1>8 DEF PushAlloc
  <2>2. PICK d : entries' = [entries EXCEPT ![head].data = d]
    BY <1>8 DEF PushAlloc
  <2>3. \A s \in R!Slots : entries'[s].timestamp = entries[s].timestamp
    BY <2>2 DEF Ring
  <2> QED BY <1>2, <1>3, <2>1, <2>3
<1>9. CASE PushStamp
  <2>1. UNCHANGED <<rd, pos, gen, log>> /\ main # "terminate"
        /\ entries' = [entries EXCEPT ![head].timestamp = gen]
    BY <1>9 DEF PushStamp
  <2>2. \A s \in R!Slots : entries[s].timestamp =< entries'[s].timestamp
    <3>1. \A s \in R!Slots : entries[s].timestamp =< gen
      BY DEF Ring
    <3>2. \A s \in R!Slots : \/ entries'[s].timestamp = entries[s].timestamp
                             \/ entries'[s].timestamp = gen
      BY <2>1 DEF Ring
    <3> QED BY <1>3, <3>1, <3>2
  <2> QED BY <1>2, <1>3, <2>1, <2>2
<1>10. CASE PushHead
  <2>1. UNCHANGED <<rd, pos, gen, entries>> /\ main # "terminate" /\ log' = <<gen>> \o log
    BY <1>10 DEF PushHead
  <2>2. /\ Len(log') = Len(log) + 1 /\ Len(log) \in Nat /\ log'[1] = gen
        /\ \A j \in 2 .. Len(log) : log'[j] = log[j - 1]
    BY <2>1, SMTT(30) DEF Ring, Buffer
  <2>3. ASSUME NEW j \in 1 .. Len(log) PROVE log[j] =< log'[j]
    <3>1. CASE j = 1
      BY <2>2, <3>1 DEF Ring
    <3>2. CASE j # 1
      <4>1. j > 1 /\ j \in 2 .. Len(log)
        BY <2>2, <3>2
      <4> QED BY <2>2, <4>1 DEF Ring
    <3> QED BY <3>1, <3>2
  <2>4. Len(log) =< Len(log')
    BY <2>2
  <2> QED BY <1>2, <1>3, <2>1, <2>3, <2>4
<1>11. CASE PushCount
  <2>1. UNCHANGED <<rd, pos, gen, log, entries>> /\ main # "terminate"
    BY <1>11 DEF PushCount
  <2> QED BY <1>2, <1>3, <2>1
<1> QED BY <1>4, <1>5, <1>6, <1>7, <1>8, <1>9, <1>10, <1>11 DEF Main

(* ... and a step of a server thread. *)
LEMMA ReaderServes ==
  ASSUME Buffer, Ring, Threads, NEW r \in Readers, Reader(r)
  PROVE  Threads'
<1> USE SnapshotAssumption
<1> DEFINE me == rd[r]
           OK(new) == /\ new \in Local /\ Inside(new) /\ Recalls(new, log, entries)
                      /\ new.quiet /\ main # "terminate" => Exact(r, new, pos, gen)
<1>0. me \in Local /\ OK(me)
  BY DEF Threads, Served
<1>1. ASSUME NEW new, Become(r, new), OK(new) PROVE Threads'
  <2>1. rd' = [rd EXCEPT ![r] = new] /\ UNCHANGED <<main, gen, pos, log, entries>>
    BY <1>1 DEF Become, Shared, ring
  <2>2. rd' \in [Readers -> Local]
    BY <1>1, <2>1 DEF Threads
  <2>3. ASSUME NEW q \in Readers PROVE Served(q)'
    <3>1. CASE q = r
      <4>1. rd'[q] = new
        BY <2>1, <3>1 DEF Threads
      <4> QED BY <1>1, <2>1, <3>1, <4>1 DEF Served
    <3>2. CASE q # r
      <4>1. rd'[q] = rd[q] /\ Served(q)
        BY <2>1, <3>2 DEF Threads
      <4> QED BY <2>1, <4>1 DEF Served
    <3> QED BY <3>1, <3>2
  <2> QED BY <2>2, <2>3 DEF Threads
<1> HIDE DEF me
<1>2. CASE AskSnapshot(r)
  <2> DEFINE new == [Idle EXCEPT !.pc = "strlen", !.kind = "snapshot",
                                 !.served = me.served + 1]
  <2>1. Become(r, new)
    BY <1>2 DEF AskSnapshot, me
  <2>2. new \in Local /\ new.pc = "strlen" /\ new.kind = "snapshot" /\ new.i = 0
        /\ new.out = << >>
    <3>1. << >> \in Numbers /\ me.served + 1 \in Nat
      BY <1>0 DEF Numbers, Local
    <3> QED BY <3>1 DEF Idle, Local
  <2> HIDE DEF new
  <2>3. OK(new)
    BY <2>2 DEF Inside, Recalls, Exact, Buffer
  <2> HIDE DEF OK
  <2> QED BY <1>1, <2>1, <2>3
<1>3. CASE Scan(r)
  <2>0. me.pc = "strlen" /\ me.i < Size /\ me.i \in Nat /\ me.out = << >>
        /\ me.kind = "snapshot"
    BY <1>0, <1>3 DEF Scan, me, Inside, Local
  <2>1. CASE cells[me.i] # 0
    <3> DEFINE new == [me EXCEPT !.i = @ + 1]
    <3>1. Become(r, new)
      BY <1>3, <2>1 DEF Scan, me
    <3>2. me.i # Size - 1
      BY <2>1 DEF Buffer
    <3>3. new \in Local /\ new.pc = "strlen" /\ new.i = me.i + 1 /\ new.out = << >>
          /\ new.kind = "snapshot" /\ new.quiet = me.quiet
      BY <1>0, <2>0, SMTT(30) DEF Local
    <3>4. Inside(new) /\ Recalls(new, log, entries)
      BY <2>0, <3>2, <3>3 DEF Inside, Recalls
    <3>5. ASSUME new.quiet, main # "terminate" PROVE Exact(r, new, pos, gen)
      <4>1. me.i =< pos
        BY <1>0, <2>0, <3>3, <3>5 DEF Exact
      <4>2. me.i # pos
        BY <2>1, <3>5 DEF Buffer
      <4>3. new.i =< pos
        BY <2>0, <3>3, <4>1, <4>2 DEF Buffer
      <4> HIDE DEF new
      <4> QED BY <3>3, <4>3 DEF Exact
    <3> HIDE DEF new
    <3> QED BY <1>1, <3>1, <3>3, <3>4, <3>5
  <2>2. CASE cells[me.i] = 0
    <3> DEFINE m == IF r = "ipc" /\ me.i >= Room THEN 0 ELSE me.i
               new == [me EXCEPT !.pc = "copy", !.i = 0, !.n = m]
    <3>1. Become(r, new)
      BY <1>3, <2>2 DEF Scan, me
    <3>2. m \in Nat /\ m < Size
      BY <2>0
    <3>3. new \in Local /\ new.pc = "copy" /\ new.i = 0 /\ new.out = << >>
          /\ new.kind = "snapshot" /\ new.quiet = me.quiet /\ new.n = m
      <4> HIDE DEF m
      <4> QED BY <1>0, <2>0, <3>2 DEF Local
    <3>4. Inside(new) /\ Recalls(new, log, entries)
      BY <3>2, <3>3 DEF Inside, Recalls
    <3>5. ASSUME new.quiet, main # "terminate" PROVE Exact(r, new, pos, gen)
      <4>1. me.i =< pos
        BY <1>0, <2>0, <3>3, <3>5 DEF Exact
      <4>2. ~(me.i < pos)
        BY <2>0, <2>2 DEF Buffer
      <4>3. me.i = pos
        BY <2>0, <4>1, <4>2 DEF Buffer
      <4>4. m = Fitting(r, pos)
        BY <4>3 DEF Fitting
      <4>5. << >> = Copies(gen, 0)
        BY DEF Copies
      <4> HIDE DEF new, m
      <4> QED BY <3>3, <4>4, <4>5 DEF Exact
    <3> HIDE DEF new
    <3> QED BY <1>1, <3>1, <3>3, <3>4, <3>5
  <2> QED BY <2>1, <2>2
<1>4. CASE Copy(r)
  <2>0. me.pc = "copy" /\ me.n < Size /\ me.i =< me.n /\ me.kind = "snapshot"
        /\ me.n \in Nat /\ me.i \in Nat
    BY <1>0, <1>4 DEF Copy, me, Inside, Local
  <2>1. CASE me.i < me.n
    <3> DEFINE new == [me EXCEPT !.out = Append(@, cells[me.i]), !.i = @ + 1]
    <3>1. Become(r, new)
      BY <1>4, <2>1 DEF Copy, me
    <3>2. cells[me.i] \in Nat
      BY <2>0, <2>1 DEF Buffer
    <3>3. new \in Local /\ new.pc = "copy" /\ new.i = me.i + 1 /\ new.kind = "snapshot"
          /\ new.out = Append(me.out, cells[me.i]) /\ new.quiet = me.quiet /\ new.n = me.n
      <4>1. Append(me.out, cells[me.i]) \in Numbers /\ me.i + 1 \in Nat
        BY <1>0, <2>0, <3>2 DEF Local, Numbers
      <4> QED BY <1>0, <2>0, <4>1 DEF Local
    <3> HIDE DEF new
    <3>4. Inside(new) /\ Recalls(new, log, entries)
      BY <2>0, <2>1, <3>3 DEF Inside, Recalls
    <3>5. ASSUME new.quiet, main # "terminate" PROVE Exact(r, new, pos, gen)
      <4>1. me.n = Fitting(r, pos) /\ me.out = Copies(gen, me.i)
        BY <1>0, <2>0, <3>3, <3>5 DEF Exact
      <4>2. me.n =< pos
        BY <4>1 DEF Fitting, Buffer
      <4>3. cells[me.i] = gen
        BY <2>0, <2>1, <4>2 DEF Buffer
      <4>4. new.out = Copies(gen, new.i)
        <5>1. gen \in Nat
          BY DEF Buffer
        <5>2. Append(Copies(gen, me.i), gen) = Copies(gen, me.i + 1)
          BY <2>0, <5>1, CopyOneMore
        <5> QED BY <3>3, <4>1, <4>3, <5>2
      <4> HIDE DEF new
      <4> QED BY <3>3, <4>1, <4>4 DEF Exact
    <3> HIDE DEF new
    <3> QED BY <1>1, <3>1, <3>3, <3>4, <3>5
  <2>2. CASE ~(me.i < me.n)
    <3> DEFINE new == [me EXCEPT !.pc = "idle"]
    <3>1. Become(r, new)
      BY <1>4, <2>2 DEF Copy, me
    <3>2. new \in Local /\ new.pc = "idle" /\ new.kind = "snapshot"
          /\ new.out = me.out /\ new.quiet = me.quiet
      BY <1>0, <2>0 DEF Local
    <3>3. Inside(new) /\ Recalls(new, log, entries)
      BY <3>2 DEF Inside, Recalls
    <3>4. ASSUME new.quiet, main # "terminate" PROVE Exact(r, new, pos, gen)
      <4>1. me.n = Fitting(r, pos) /\ me.out = Copies(gen, me.i)
        BY <1>0, <2>0, <3>2, <3>4 DEF Exact
      <4>2. me.i = me.n
        BY <2>0, <2>2
      <4> HIDE DEF new
      <4> QED BY <3>2, <4>1, <4>2 DEF Exact
    <3> HIDE DEF new
    <3> QED BY <1>1, <3>1, <3>2, <3>3, <3>4
  <2> QED BY <2>1, <2>2
<1>5. CASE AskHistory(r)
  <2>1. PICK ask \in Asks :
          Become(r, [Idle EXCEPT !.pc = "locate", !.kind = "history",
                                 !.served = me.served + 1,
                                 !.n = IF ask > count THEN count ELSE ask,
                                 !.then = log])
    BY <1>5 DEF AskHistory, me
  <2> DEFINE m == IF ask > count THEN count ELSE ask
             new == [Idle EXCEPT !.pc = "locate", !.kind = "history",
                                 !.served = me.served + 1, !.n = m, !.then = log]
  <2>2. m \in Nat /\ m =< count /\ count \in 0 .. Capacity
        /\ log \in Seq(Nat) /\ count =< Len(log) /\ me.served \in Nat
    BY <1>0 DEF Ring, Local
  <2>3. new \in Local /\ new.pc = "locate" /\ new.kind = "history" /\ new.i = 0
        /\ new.n = m /\ new.then = log
    <3>1. << >> \in Numbers /\ log \in Numbers /\ me.served + 1 \in Nat
      BY <2>2 DEF Numbers
    <3> HIDE DEF m
    <3> QED BY <2>2, <3>1 DEF Local, Idle
  <2>4. Become(r, new)
    BY <2>1
  <2>5. Inside(new) /\ (new.quiet /\ main # "terminate" => Exact(r, new, pos, gen))
    <3> HIDE DEF new
    <3> QED BY <2>3 DEF Inside, Exact
  <2>6. Recalls(new, log, entries)
    <3>1. \A j \in 1 .. Len(log) : 0 < log[j] /\ log[j] =< log[j]
      BY DEF Ring
    <3>2. m =< Capacity /\ m =< Len(log) /\ 0 =< m /\ Len(log) =< Len(log)
      <4> HIDE DEF m
      <4> QED BY <2>2
    <3> HIDE DEF new, m
    <3> QED BY <2>3, <3>1, <3>2 DEF Recalls
  <2> HIDE DEF new
  <2> QED BY <1>1, <2>3, <2>4, <2>5, <2>6
<1>6. CASE Locate(r)
  <2>0. /\ me.pc = "locate" /\ me.kind = "history" /\ me.i \in Nat /\ me.n \in Nat
        /\ me.i =< me.n /\ me.n =< Capacity /\ me.then \in Seq(Nat)
        /\ me.n =< Len(me.then) /\ Len(me.then) =< Len(log)
        /\ \A j \in 1 .. Len(me.then) : 0 < me.then[j] /\ me.then[j] =< log[j]
    BY <1>0, <1>6 DEF Locate, me, Inside, Local, Numbers, Recalls
  <2>1. CASE me.i < me.n
    <3> DEFINE x == R!RecentPos(me.i)
               new == [me EXCEPT !.pc = "read", !.at = x]
    <3>1. Become(r, new)
      BY <1>6, <2>1 DEF Locate, me
    <3>2. me.i \in 0 .. Capacity - 1 /\ me.i < Len(log) /\ me.i + 1 \in 1 .. Len(me.then)
          /\ me.i + 1 \in 1 .. Len(log)
      <4>1. Len(log) \in Nat /\ Len(me.then) \in Nat
        BY <2>0, ElementIn DEF Ring
      <4> QED BY <2>0, <2>1, <4>1
    <3>3. x = Place(head, me.i)
      BY DEF R!RecentPos, Place
    <3>4. x \in R!Slots /\ x \in Nat
      <4>1. head \in R!Slots
        BY DEF Ring
      <4>2. x \in R!Slots
        BY <3>2, <3>3, <4>1, PlaceMoves
      <4> QED BY <4>2 DEF R!Slots
    <3>5. me.then[me.i + 1] =< entries[x].timestamp
      <4>1. log[me.i + 1] =< entries[x].timestamp
        BY <3>2, <3>3 DEF Ring
      <4>2. me.then[me.i + 1] =< log[me.i + 1]
        BY <2>0, <3>2
      <4>3. /\ me.then[me.i + 1] \in Nat /\ log[me.i + 1] \in Nat
            /\ entries[x].timestamp \in Nat
        <5>1. me.then[me.i + 1] \in Nat
          BY <2>0, <3>2, ElementIn
        <5>2. log[me.i + 1] \in Nat
          BY <3>2, ElementIn DEF Ring
        <5>3. entries[x].timestamp \in Nat
          BY <3>4 DEF Ring
        <5> QED BY <5>1, <5>2, <5>3
      <4> HIDE DEF x
      <4> QED BY <4>1, <4>2, <4>3
    <3> HIDE DEF x
    <3>6. new \in Local /\ new.pc = "read" /\ new.kind = "history" /\ new.i = me.i
          /\ new.n = me.n /\ new.then = me.then /\ new.at = x
      BY <1>0, <2>0, <3>4 DEF Local
    <3> HIDE DEF new
    <3>7. Inside(new) /\ (new.quiet /\ main # "terminate" => Exact(r, new, pos, gen))
      BY <3>6 DEF Inside, Exact
    <3>8. Recalls(new, log, entries)
      BY <2>0, <2>1, <3>4, <3>5, <3>6 DEF Recalls
    <3> QED BY <1>1, <3>1, <3>6, <3>7, <3>8 DEF x
  <2>2. CASE ~(me.i < me.n)
    <3> DEFINE new == [me EXCEPT !.pc = "idle"]
    <3>1. Become(r, new)
      BY <1>6, <2>2 DEF Locate, me
    <3>2. new \in Local /\ new.pc = "idle" /\ new.kind = "history"
      BY <1>0, <2>0 DEF Local
    <3> HIDE DEF new
    <3>3. OK(new)
      BY <3>2 DEF Inside, Recalls, Exact
    <3> HIDE DEF OK
    <3> QED BY <1>1, <3>1, <3>3
  <2> QED BY <2>1, <2>2
<1>7. CASE Read(r)
  <2>0. /\ me.pc = "read" /\ me.kind = "history" /\ me.i \in Nat /\ me.n \in Nat
        /\ me.i < me.n /\ me.n =< Capacity /\ me.then \in Seq(Nat) /\ me.at \in R!Slots
        /\ me.n =< Len(me.then) /\ Len(me.then) =< Len(log)
        /\ \A j \in 1 .. Len(me.then) : 0 < me.then[j] /\ me.then[j] =< log[j]
    BY <1>0, <1>7 DEF Read, me, Inside, Local, Numbers, Recalls
  <2> DEFINE o == IF entries[me.at].data # 0 THEN Append(me.out, entries[me.at].timestamp)
                  ELSE me.out
             new == [me EXCEPT !.pc = "locate", !.i = @ + 1, !.out = o]
  <2>1. Become(r, new)
    BY <1>7 DEF Read, me
  <2>2. o \in Numbers
    <3>1. me.out \in Seq(Nat) /\ entries[me.at].timestamp \in Nat
      BY <1>0, <2>0 DEF Local, Numbers, Ring
    <3> QED BY <3>1 DEF Numbers
  <2> HIDE DEF o
  <2>3. new \in Local /\ new.pc = "locate" /\ new.kind = "history" /\ new.i = me.i + 1
        /\ new.n = me.n /\ new.then = me.then
    <3>1. me.i + 1 \in Nat
      BY <2>0
    <3>2. me \in Local /\ me.kind = "history"
      BY <1>0, <2>0
    <3> HIDE DEF OK
    <3> QED BY <2>2, <3>1, <3>2 DEF Local
  <2> HIDE DEF new
  <2>4. OK(new)
    <3>1. me.i + 1 =< me.n
      BY <2>0
    <3> QED BY <2>0, <2>3, <3>1 DEF Inside, Recalls, Exact
  <2> HIDE DEF OK
  <2> QED BY <1>1, <2>1, <2>4 DEF new, o
<1> QED BY <1>2, <1>3, <1>4, <1>5, <1>6, <1>7 DEF Reader

-----------------------------------------------------------------------------
IInv == Buffer /\ Ring /\ Threads

(* The three parts together are inductive. *)
LEMMA Invariance == Spec => []IInv
<1>1. Init => IInv
  BY BufferInit, RingInit, ThreadsInit DEF IInv
<1>2. IInv /\ [Next]_vars => IInv'
  <2> SUFFICES ASSUME IInv, [Next]_vars PROVE IInv'
    OBVIOUS
  <2>1. Buffer' /\ Ring'
    BY BufferStep, RingStep DEF IInv
  <2>2. CASE Main
    BY <2>1, <2>2, MainServes DEF IInv
  <2>3. ASSUME NEW r \in Readers, Reader(r) PROVE IInv'
    BY <2>1, <2>3, ReaderServes DEF IInv
  <2>4. CASE UNCHANGED vars
    BY <2>1, <2>4 DEF vars, ring, IInv, Threads, Served
  <2> QED BY <2>2, <2>3, <2>4 DEF Next, Done
<1> QED BY <1>1, <1>2, PTL DEF Spec

(* strlen of the live buffer always finds a NUL before the buffer's end,   *)
(* whatever json_write is doing meanwhile.                                 *)
THEOREM StrlenStopsHolds == Spec => []StrlenStops
<1>1. IInv => StrlenStops
  <2> SUFFICES ASSUME IInv, NEW r \in Readers, rd[r].pc = "strlen"
               PROVE  \E c \in rd[r].i .. Size - 1 : cells[c] = 0
    BY DEF StrlenStops
  <2>1. rd[r].i \in Nat /\ rd[r].i < Size
    BY DEF IInv, Threads, Served, Inside, Local
  <2>2. Size - 1 \in rd[r].i .. Size - 1
    BY <2>1, SnapshotAssumption
  <2> QED BY <2>2 DEF IInv, Buffer
<1> QED BY <1>1, Invariance, PTL

(* A snapshot reply that no write overlaps is the last completed snapshot, *)
(* to the last cell, or empty when it exceeds an IPC reply.                *)
THEOREM QuietReplyExactHolds == Spec => []QuietReplyExact
<1>1. IInv => QuietReplyExact
  <2> SUFFICES ASSUME IInv, NEW r \in Readers, Answered(r), rd[r].quiet, ~Building
               PROVE  rd[r].out = IF r = "ipc" /\ pos >= Room THEN << >>
                                  ELSE [k \in 1 .. pos |-> gen]
    BY DEF QuietReplyExact
  <2>1. main # "terminate" /\ rd[r].pc = "idle" /\ rd[r].kind = "snapshot"
    BY DEF Building, Answered
  <2>2. Exact(r, rd[r], pos, gen)
    BY <2>1 DEF IInv, Threads, Served
  <2>3. rd[r].out = Copies(gen, Fitting(r, pos))
    BY <2>1, <2>2 DEF Exact
  <2>4. Copies(gen, 0) = << >>
    BY DEF Copies
  <2> QED BY <2>3, <2>4 DEF Fitting, Copies
<1> QED BY <1>1, Invariance, PTL

(* A history reply that overlaps any number of pushes never reports an     *)
(* older snapshot than asked for, nor one that was not taken.              *)
THEOREM HistoryNotOlderHolds == Spec => []HistoryNotOlder
<1>1. IInv => HistoryNotOlder
  <2> SUFFICES ASSUME IInv, NEW r \in Readers, rd[r].pc = "read"
               PROVE  /\ entries[rd[r].at].timestamp > 0
                      /\ entries[rd[r].at].timestamp >= rd[r].then[rd[r].i + 1]
    BY DEF HistoryNotOlder
  <2> DEFINE me == rd[r]
  <2>1. /\ me.i < me.n /\ me.n =< Len(me.then) /\ me.at \in R!Slots
        /\ \A j \in 1 .. Len(me.then) : 0 < me.then[j]
        /\ me.then[me.i + 1] =< entries[me.at].timestamp
    BY DEF IInv, Threads, Served, Recalls
  <2>2. me.i \in Nat /\ me.n \in Nat /\ me.then \in Seq(Nat)
    BY DEF IInv, Threads, Local, Numbers
  <2> HIDE DEF me
  <2>a. Len(me.then) \in Nat /\ \A j \in 1 .. Len(me.then) : me.then[j] \in Nat
    BY <2>2, ElementIn
  <2>3. me.i + 1 \in 1 .. Len(me.then)
    BY <2>1, <2>2, <2>a
  <2>b. entries[me.at].timestamp \in Nat
    BY <2>1 DEF IInv, Ring
  <2>4. 0 < me.then[me.i + 1] /\ me.then[me.i + 1] \in Nat
        /\ entries[me.at].timestamp \in Nat
    BY <2>1, <2>3, <2>a, <2>b
  <2>5. entries[me.at].timestamp > 0 /\ entries[me.at].timestamp >= me.then[me.i + 1]
    BY <2>1, <2>4
  <2> QED BY <2>5 DEF me
<1> QED BY <1>1, Invariance, PTL
=============================================================================
