-------------------------- MODULE RingBufferProofs --------------------------
(***************************************************************************)
(* Proofs about RingBuffer for every capacity, every set of snapshots and  *)
(* every clock.                                                            *)
(***************************************************************************)
EXTENDS RingBuffer, SequenceTheorems, TLAPS

(* The arithmetic of the write position: one step of % Capacity. *)
LEMMA ModWrap ==
  ASSUME NEW x \in Int, 0 <= x, x < 2 * Capacity
  PROVE  x % Capacity = IF x < Capacity THEN x ELSE x - Capacity
<1>1. CASE x < Capacity
  BY <1>1, CapacityAssumption
<1>2. CASE x >= Capacity
  BY <1>2, CapacityAssumption
<1> QED BY <1>1, <1>2, CapacityAssumption

(* Where NextHead, GetPos and RecentPos point, without %. *)
LEMMA NextHeadValue ==
  ASSUME RingTypeOK
  PROVE  /\ NextHead(head) \in Slots
         /\ NextHead(head) = IF head + 1 < Capacity THEN head + 1 ELSE 0
BY ModWrap, CapacityAssumption DEF RingTypeOK, NextHead, Slots

(* Where ringbuf_get reads. *)
LEMMA GetPosValue ==
  ASSUME RingTypeOK, Layout, NEW i \in Int, 0 <= i, i < count
  PROVE  /\ GetPos(i) \in Slots
         /\ count < Capacity => GetPos(i) = i
         /\ count = Capacity =>
              GetPos(i) = IF head + i < Capacity THEN head + i
                          ELSE head + i - Capacity
<1>1. CASE count < Capacity
  <2>1. head - count + i + Capacity = i + Capacity
    BY <1>1, CapacityAssumption DEF RingTypeOK, Layout, Slots
  <2>2. (i + Capacity) % Capacity = i
    <3> DEFINE x == i + Capacity
    <3>1. x \in Int /\ 0 <= x /\ x < 2 * Capacity /\ ~(x < Capacity)
      BY <1>1, CapacityAssumption DEF RingTypeOK
    <3>2. x % Capacity = x - Capacity
      <4> HIDE DEF x
      <4> QED BY <3>1, ModWrap
    <3> QED BY <3>2, CapacityAssumption
  <2> QED BY <1>1, <2>1, <2>2, CapacityAssumption DEF RingTypeOK, GetPos, Slots
<1>2. CASE count = Capacity
  <2>1. head - count + i + Capacity = head + i
    BY <1>2, CapacityAssumption DEF RingTypeOK, Slots
  <2> DEFINE x == head + i
  <2>2. x \in Int /\ 0 <= x /\ x < 2 * Capacity
    BY <1>2, CapacityAssumption DEF RingTypeOK, Slots
  <2>3. x % Capacity = IF x < Capacity THEN x ELSE x - Capacity
    <3> HIDE DEF x
    <3> QED BY <2>2, ModWrap
  <2>4. GetPos(i) = x % Capacity
    BY <2>1 DEF GetPos
  <2> QED BY <1>2, <2>2, <2>3, <2>4, CapacityAssumption DEF RingTypeOK, Slots
<1> QED BY <1>1, <1>2, CapacityAssumption DEF RingTypeOK

(* Where ringbuf_get_recent reads. *)
LEMMA RecentPosValue ==
  ASSUME RingTypeOK, NEW i \in Int, 0 <= i, i < count
  PROVE  RecentPos(i) = IF i < head THEN head - 1 - i
                        ELSE head - 1 - i + Capacity
<1> DEFINE x == head - 1 - i + Capacity
<1>1. /\ x \in Int
      /\ 0 <= x
      /\ x < 2 * Capacity
      /\ x < Capacity <=> i >= head
  BY CapacityAssumption DEF RingTypeOK, Slots
<1>2. x % Capacity = IF x < Capacity THEN x ELSE x - Capacity
  <2> HIDE DEF x
  <2> QED BY <1>1, ModWrap
<1> QED BY <1>1, <1>2, CapacityAssumption DEF RingTypeOK, RecentPos, Slots

(* The array as calloc leaves it. *)
LEMMA ZeroedType == Zeroed \in [Slots -> Entry]
<1>1. [data |-> NULL, timestamp |-> 0] \in Entry
  BY DEF Entry
<1> QED BY <1>1 DEF Zeroed

-----------------------------------------------------------------------------
(* Every operation of ringbuffer.c keeps the types: in particular head is  *)
(* always a valid index and count never exceeds the capacity.              *)
THEOREM RingTypeCorrect == RingSpec => []RingTypeOK
<1>1. RingInit => RingTypeOK
  <2>1. RingInit => allocated \in BOOLEAN
    BY Zenon DEF RingInit
  <2> QED BY <2>1, ZeroedType, CapacityAssumption DEF RingInit, RingTypeOK, Slots
<1>2. RingTypeOK /\ [RingNext]_ringVars => RingTypeOK'
  <2> SUFFICES ASSUME RingTypeOK, [RingNext]_ringVars PROVE RingTypeOK'
    OBVIOUS
  <2>1. CASE Create
    BY <2>1, ZeroedType, CapacityAssumption DEF Create, RingTypeOK, Slots
  <2>2. ASSUME NEW d \in Data, NEW t \in Time, Push(d, t) PROVE RingTypeOK'
    BY <2>2, NextHeadValue, CapacityAssumption DEF Push, RingTypeOK, Slots, Entry
  <2>3. CASE PushFailed
    BY <2>3 DEF PushFailed, RingTypeOK, Entry
  <2>4. CASE Clear
    BY <2>4, CapacityAssumption DEF Clear, Cleared, RingTypeOK, Slots, Entry
  <2>5. CASE Destroy
    <3>1. allocated' \in BOOLEAN
      BY <2>5, Zenon DEF Destroy
    <3> QED BY <2>5, <3>1, ZeroedType, CapacityAssumption
            DEF Destroy, RingTypeOK, Slots
  <2>6. CASE UNCHANGED ringVars
    BY <2>6 DEF ringVars, RingTypeOK
  <2> QED BY <2>1, <2>2, <2>3, <2>4, <2>5, <2>6 DEF RingNext
<1> QED BY <1>1, <1>2, PTL DEF RingSpec

(* RingInit and every step establish Layout, given the types. *)
LEMMA LayoutInit == RingInit => Layout
BY CapacityAssumption DEF RingInit, Layout, Zeroed, Slots

(* Every push and clear keeps the layout. *)
LEMMA LayoutStep == RingTypeOK /\ Layout /\ [RingNext]_ringVars => Layout'
<1> SUFFICES ASSUME RingTypeOK, Layout, [RingNext]_ringVars PROVE Layout'
  OBVIOUS
<1>1. CASE Create
  BY <1>1, CapacityAssumption DEF Create, Layout, Zeroed, Slots
<1>2. ASSUME NEW d \in Data, NEW t \in Time, Push(d, t) PROVE Layout'
  <2>1. CASE count < Capacity
    <3>1. count' = count + 1 /\ head = count
      BY <1>2, <2>1 DEF Push, Layout
    <3>2. count' < Capacity => head' = count'
      BY <1>2, <3>1, NextHeadValue, CapacityAssumption DEF Push, RingTypeOK, Slots
    <3>3. \A s \in Slots : entries'[s].data # NULL <=> s < count'
      BY <1>2, <2>1, <3>1, NullAssumption DEF Push, Layout, RingTypeOK, Slots
    <3> QED BY <3>1, <3>2, <3>3, CapacityAssumption
            DEF Layout, RingTypeOK, Slots
  <2>2. CASE count = Capacity
    <3>1. count' = Capacity
      BY <1>2, <2>2, CapacityAssumption DEF Push
    <3>2. \A s \in Slots : entries'[s].data # NULL
      BY <1>2, <2>2, NullAssumption DEF Push, Layout, RingTypeOK
    <3> QED BY <3>1, <3>2, CapacityAssumption DEF Layout
  <2> QED BY <2>1, <2>2, CapacityAssumption DEF RingTypeOK
<1>3. CASE PushFailed
  BY <1>3 DEF PushFailed, Layout, RingTypeOK, Slots, Entry
<1>4. CASE Clear
  BY <1>4, CapacityAssumption DEF Clear, Cleared, Layout, Slots
<1>5. CASE Destroy
  BY <1>5, CapacityAssumption DEF Destroy, Layout, Zeroed, Slots
<1>6. CASE UNCHANGED ringVars
  BY <1>6 DEF ringVars, Layout
<1> QED BY <1>1, <1>2, <1>3, <1>4, <1>5, <1>6 DEF RingNext

(* The layout of the buffer: the write position and the count agree, and   *)
(* only the slot about to be overwritten may be without data.              *)
THEOREM LayoutHolds == RingSpec => []Layout
BY RingTypeCorrect, LayoutInit, LayoutStep, PTL DEF RingSpec

(* A failed malloc in ringbuf_push costs at most the oldest snapshot of a  *)
(* full buffer.                                                            *)
THEOREM OnlyOldestLostHolds == RingSpec => []OnlyOldestLost
<1>1. RingTypeOK /\ Layout => OnlyOldestLost
  <2> SUFFICES ASSUME RingTypeOK, Layout, NEW i \in 0 .. count - 1,
                      entries[GetPos(i)].data = NULL
               PROVE  i = 0 /\ count = Capacity
    BY DEF OnlyOldestLost
  <2>1. i \in Int /\ 0 <= i /\ i < count
    BY DEF RingTypeOK
  <2>2. CASE count < Capacity
    BY <2>1, <2>2, GetPosValue DEF Layout
  <2>3. CASE count = Capacity
    <3>1. GetPos(i) = head
      BY <2>1, <2>3, GetPosValue DEF Layout
    <3> QED BY <2>1, <2>3, <3>1, GetPosValue, CapacityAssumption
            DEF RingTypeOK, Slots
  <2> QED BY <2>2, <2>3, CapacityAssumption DEF RingTypeOK
<1> QED BY <1>1, RingTypeCorrect, LayoutHolds, PTL

(* ringbuf_get and ringbuf_get_recent enumerate the same entries, in       *)
(* opposite orders.                                                        *)
THEOREM RecentMirrorsGetHolds == RingSpec => []RecentMirrorsGet
<1>1. RingTypeOK /\ Layout => RecentMirrorsGet
  <2> SUFFICES ASSUME RingTypeOK, Layout, NEW i \in 0 .. count - 1
               PROVE  RecentPos(i) = GetPos(count - 1 - i)
    BY DEF RecentMirrorsGet
  <2>1. /\ i \in Int /\ 0 <= i /\ i < count
        /\ count - 1 - i \in Int /\ 0 <= count - 1 - i /\ count - 1 - i < count
    BY DEF RingTypeOK
  <2>2. CASE count < Capacity
    BY <2>1, <2>2, GetPosValue, RecentPosValue, CapacityAssumption
       DEF Layout, RingTypeOK, Slots
  <2>3. CASE count = Capacity
    <3> DEFINE j == count - 1 - i
    <3>1. GetPos(j) = IF head + j < Capacity THEN head + j
                      ELSE head + j - Capacity
      <4> HIDE DEF j
      <4> QED BY <2>1, <2>3, GetPosValue DEF j
    <3>2. RecentPos(i) = IF i < head THEN head - 1 - i
                         ELSE head - 1 - i + Capacity
      BY <2>1, RecentPosValue
    <3> QED BY <2>1, <2>3, <3>1, <3>2, CapacityAssumption DEF RingTypeOK, Slots
  <2> QED BY <2>2, <2>3, CapacityAssumption DEF RingTypeOK
<1> QED BY <1>1, RingTypeCorrect, LayoutHolds, PTL

-----------------------------------------------------------------------------
(* Contents for any value of the fields, and where its i-th entry lives.   *)
(* Stated about constants, the facts apply before and after a step.        *)
View(en, h, c) == [i \in 1 .. c |-> en[(h - c + (i - 1) + Capacity) % Capacity]]

Place(h, c, i) ==
  IF c < Capacity THEN i - 1
  ELSE IF h + i - 1 < Capacity THEN h + i - 1 ELSE h + i - 1 - Capacity

(* The slot of an entry, as a number. *)
LEMMA PlaceValue ==
  ASSUME NEW h \in Slots, NEW c \in 0 .. Capacity, c < Capacity => h = c,
         NEW i \in 1 .. c
  PROVE  /\ (h - c + (i - 1) + Capacity) % Capacity = Place(h, c, i)
         /\ Place(h, c, i) \in Slots
<1> DEFINE x == h - c + (i - 1) + Capacity
<1>1. x \in Int /\ 0 <= x /\ x < 2 * Capacity
  BY CapacityAssumption DEF Slots
<1>2. x % Capacity = IF x < Capacity THEN x ELSE x - Capacity
  <2> HIDE DEF x
  <2> QED BY <1>1, ModWrap
<1>3. (IF x < Capacity THEN x ELSE x - Capacity) = Place(h, c, i)
  BY CapacityAssumption DEF Place, Slots
<1>4. Place(h, c, i) \in Slots
  BY CapacityAssumption DEF Place, Slots
<1> QED BY <1>2, <1>3, <1>4

(* The view holds c entries, each read from its slot. *)
LEMMA ViewProperties ==
  ASSUME NEW en \in [Slots -> Entry], NEW h \in Slots, NEW c \in 0 .. Capacity,
         c < Capacity => h = c
  PROVE  /\ View(en, h, c) \in Seq(Entry)
         /\ Len(View(en, h, c)) = c
         /\ \A i \in 1 .. c : View(en, h, c)[i] = en[Place(h, c, i)]
<1>1. \A i \in 1 .. c :
        en[(h - c + (i - 1) + Capacity) % Capacity] = en[Place(h, c, i)]
  BY PlaceValue
<1>2. \A i \in 1 .. c : en[Place(h, c, i)] \in Entry
  BY PlaceValue
<1>3. View(en, h, c) = [i \in 1 .. c |-> en[Place(h, c, i)]]
  BY <1>1 DEF View
<1>4. c \in Nat
  BY CapacityAssumption
<1> QED
  <2> DEFINE e(i) == en[Place(h, c, i)]
  <2>1. \A i \in 1 .. c : e(i) \in Entry
    BY <1>2
  <2>2. View(en, h, c) = [i \in 1 .. c |-> e(i)]
    BY <1>3
  <2> HIDE DEF e
  <2> QED BY <1>4, <2>1, <2>2 DEF e

(* A successful push appends to the history and drops the oldest entry of  *)
(* a full one.                                                             *)
LEMMA PushRecords ==
  ASSUME RingTypeOK, Layout, NEW d \in Data, NEW t \in Time, Push(d, t)
  PROVE  Hist!Record
<1> DEFINE e == [data |-> d, timestamp |-> t]
           old == View(entries, head, count)
           new == View(entries', head', count')
           longer == Append(old, e)
           kept == IF Len(longer) > Capacity THEN Tail(longer) ELSE longer
<1>1. e \in Entry
  BY DEF Entry
<1>2. /\ entries \in [Slots -> Entry] /\ head \in Slots
      /\ count \in 0 .. Capacity /\ (count < Capacity => head = count)
  BY DEF RingTypeOK, Layout
<1>3. /\ entries' = [entries EXCEPT ![head] = e]
      /\ head' = IF head + 1 < Capacity THEN head + 1 ELSE 0
      /\ count' = IF count < Capacity THEN count + 1 ELSE count
  BY NextHeadValue DEF Push
<1>4. /\ entries' \in [Slots -> Entry] /\ head' \in Slots
      /\ count' \in 0 .. Capacity /\ (count' < Capacity => head' = count')
  BY <1>1, <1>2, <1>3, CapacityAssumption DEF Slots
<1>5. /\ old \in Seq(Entry) /\ Len(old) = count
      /\ \A i \in 1 .. count : old[i] = entries[Place(head, count, i)]
  BY <1>2, ViewProperties
<1>6. /\ new \in Seq(Entry) /\ Len(new) = count'
      /\ \A i \in 1 .. count' : new[i] = entries'[Place(head', count', i)]
  BY <1>4, ViewProperties
<1> HIDE DEF e, old, new
<1>7. /\ longer \in Seq(Entry) /\ longer # << >> /\ Len(longer) = count + 1
      /\ \A i \in 1 .. count : longer[i] = old[i]
      /\ longer[count + 1] = e
  BY <1>1, <1>5, AppendProperties
<1> HIDE DEF longer
<1>8. ASSUME count < Capacity PROVE new = kept
  <2>1. kept = longer
    BY <1>7, <1>8, <1>2, CapacityAssumption
  <2>2. Len(new) = Len(longer)
    BY <1>3, <1>6, <1>7, <1>8
  <2>3. ASSUME NEW i \in 1 .. Len(new) PROVE new[i] = longer[i]
    <3>1. i \in 1 .. count + 1 /\ count' = count + 1 /\ head = count
      BY <1>2, <1>3, <1>6, <1>8, <2>3
    <3>2. Place(head', count', i) = i - 1
      BY <1>2, <1>3, <1>8, <3>1, CapacityAssumption DEF Place, Slots
    <3>3. new[i] = entries'[i - 1]
      BY <1>6, <3>1, <3>2
    <3>4. CASE i = count + 1
      BY <1>2, <1>3, <1>7, <3>1, <3>3, <3>4
    <3>5. CASE i # count + 1
      <4>1. i \in 1 .. count /\ i - 1 # head /\ i - 1 \in Slots
        BY <1>2, <1>8, <3>1, <3>5, CapacityAssumption DEF Slots
      <4>2. longer[i] = entries[i - 1]
        BY <1>5, <1>7, <1>8, <4>1 DEF Place
      <4> QED BY <1>2, <1>3, <3>3, <4>1, <4>2
    <3> QED BY <3>4, <3>5
  <2> QED BY <1>6, <1>7, <2>1, <2>2, <2>3, SeqEqual
<1>9. ASSUME count = Capacity PROVE new = kept
  <2>1. kept = Tail(longer)
    BY <1>7, <1>9, CapacityAssumption
  <2>2. /\ Tail(longer) \in Seq(Entry) /\ Len(Tail(longer)) = count
        /\ \A i \in 1 .. count : Tail(longer)[i] = longer[i + 1]
    BY <1>2, <1>7, HeadTailProperties, CapacityAssumption
  <2>3. count' = count
    BY <1>3, <1>9, CapacityAssumption
  <2>4. ASSUME NEW i \in 1 .. count PROVE new[i] = longer[i + 1]
    <3>1. new[i] = entries'[Place(head', count, i)]
      BY <1>6, <2>3
    <3>2. CASE i = count
      <4>1. Place(head', count, i) = head
        BY <1>2, <1>3, <1>9, <3>2, CapacityAssumption DEF Place, Slots
      <4> QED BY <1>2, <1>3, <1>7, <3>1, <3>2, <4>1
    <3>3. CASE i # count
      <4>1. i + 1 \in 1 .. count
        BY <1>2, <3>3, CapacityAssumption
      <4>2. /\ Place(head', count, i) = Place(head, count, i + 1)
            /\ Place(head, count, i + 1) # head
            /\ Place(head, count, i + 1) \in Slots
        BY <1>2, <1>3, <1>9, <3>3, CapacityAssumption DEF Place, Slots
      <4>3. longer[i + 1] = entries[Place(head, count, i + 1)]
        BY <1>5, <1>7, <4>1
      <4> QED BY <1>2, <1>3, <3>1, <4>2, <4>3
    <3> QED BY <3>2, <3>3
  <2> QED BY <1>6, <2>1, <2>2, <2>3, <2>4, SeqEqual
<1>10. new = kept
  BY <1>2, <1>8, <1>9, CapacityAssumption
<1> QED BY <1>10 DEF Hist!Record, Contents, GetPos, View, old, new, longer, e

(* A push whose allocation fails takes the data of the oldest entry of a   *)
(* full history and changes nothing a reader of a filling one can see.     *)
LEMMA PushFailedLosesOldest ==
  ASSUME RingTypeOK, Layout, PushFailed
  PROVE  Hist!LoseOldest \/ UNCHANGED Contents
<1> DEFINE old == View(entries, head, count)
           new == View(entries', head, count)
           lost(x) == [data |-> NULL, timestamp |-> x.timestamp]
<1>1. /\ entries \in [Slots -> Entry] /\ head \in Slots
      /\ count \in 0 .. Capacity /\ (count < Capacity => head = count)
  BY DEF RingTypeOK, Layout
<1>2. head' = head /\ count' = count
  BY DEF PushFailed
<1>3. /\ entries'[head] = lost(entries[head])
      /\ \A s \in Slots \ {head} : entries'[s] = entries[s]
      /\ entries' \in [Slots -> Entry]
  BY <1>1 DEF PushFailed, Entry
<1>4. /\ old \in Seq(Entry) /\ Len(old) = count
      /\ \A i \in 1 .. count : old[i] = entries[Place(head, count, i)]
  BY <1>1, ViewProperties
<1>5. /\ new \in Seq(Entry) /\ Len(new) = count
      /\ \A i \in 1 .. count : new[i] = entries'[Place(head, count, i)]
  BY <1>1, <1>3, ViewProperties
<1>6. Contents = old /\ Contents' = new
  BY <1>2 DEF Contents, GetPos, View
<1> HIDE DEF old, new, lost
<1>7. ASSUME count < Capacity PROVE new = old
  <2>1. ASSUME NEW i \in 1 .. count PROVE new[i] = old[i]
    <3>1. Place(head, count, i) \in Slots \ {head}
      BY <1>1, <1>7, CapacityAssumption DEF Place, Slots
    <3> QED BY <1>3, <1>4, <1>5, <3>1
  <2> QED BY <1>4, <1>5, <2>1, SeqEqual
<1>8. ASSUME count = Capacity PROVE new = [old EXCEPT ![1] = lost(@)]
  <2> DEFINE exc == [old EXCEPT ![1] = lost(@)]
  <2>1. 1 \in 1 .. Len(old) /\ old[1] \in Entry
    BY <1>1, <1>4, <1>8, CapacityAssumption
  <2>2. lost(old[1]) \in Entry
    BY <2>1 DEF lost, Entry
  <2>3. /\ exc \in Seq(Entry) /\ Len(exc) = Len(old)
        /\ \A j \in 1 .. Len(old) :
             exc[j] = IF j = 1 THEN lost(old[1]) ELSE old[j]
    BY <1>4, <2>1, <2>2, ExceptSeq
  <2> HIDE DEF exc
  <2>4. ASSUME NEW j \in 1 .. count PROVE new[j] = exc[j]
    <3>1. CASE j = 1
      <4>1. Place(head, count, j) = head
        BY <1>1, <1>8, <3>1, CapacityAssumption DEF Place, Slots
      <4> QED BY <1>3, <1>4, <1>5, <2>3, <3>1, <4>1
    <3>2. CASE j # 1
      <4>1. Place(head, count, j) \in Slots \ {head}
        BY <1>1, <1>8, <3>2, CapacityAssumption DEF Place, Slots
      <4> QED BY <1>3, <1>4, <1>5, <2>3, <3>2, <4>1
    <3> QED BY <3>1, <3>2
  <2>5. new = exc
    BY <1>4, <1>5, <2>3, <2>4, SeqEqual
  <2> QED BY <2>5 DEF exc
<1> QED
  <2>1. CASE count < Capacity
    BY <1>6, <1>7, <2>1
  <2>2. CASE count = Capacity
    BY <1>4, <1>6, <1>8, <2>2 DEF Hist!LoseOldest, lost
  <2> QED BY <1>1, <2>1, <2>2, CapacityAssumption

(* The ring buffer implements History: whatever the capacity, a reader of  *)
(* ringbuf_get sees the last pushed snapshots in order.                    *)
THEOREM RingBufferImplementsHistory == RingSpec => Refinement
<1>1. RingInit => Hist!HistoryInit
  <2>1. RingInit => Contents = [i \in 1 .. 0 |-> entries[GetPos(i - 1)]]
    BY DEF RingInit, Contents
  <2> QED BY <2>1 DEF Hist!HistoryInit
<1>2. RingTypeOK /\ Layout /\ [RingNext]_ringVars => [Hist!HistoryNext]_Contents
  <2> SUFFICES ASSUME RingTypeOK, Layout, [RingNext]_ringVars
               PROVE  Hist!HistoryNext \/ UNCHANGED Contents
    OBVIOUS
  <2>1. ASSUME count' = 0 PROVE Hist!Forget
    <3>1. Contents' = [i \in 1 .. 0 |-> entries'[GetPos(i - 1)']]
      BY <2>1 DEF Contents
    <3> QED BY <3>1 DEF Hist!Forget
  <2>2. CASE Create \/ Clear \/ Destroy
    BY <2>1, <2>2 DEF Create, Clear, Destroy, Hist!HistoryNext
  <2>3. ASSUME NEW d \in Data, NEW t \in Time, Push(d, t)
        PROVE  Hist!HistoryNext
    BY <2>3, PushRecords DEF Hist!HistoryNext
  <2>4. CASE PushFailed
    BY <2>4, PushFailedLosesOldest DEF Hist!HistoryNext
  <2>5. CASE UNCHANGED ringVars
    BY <2>5 DEF ringVars, Contents, GetPos
  <2> QED BY <2>2, <2>3, <2>4, <2>5 DEF RingNext
<1> QED BY <1>1, <1>2, RingTypeCorrect, LayoutHolds, PTL
        DEF RingSpec, Refinement, Hist!HistorySpec
=============================================================================
