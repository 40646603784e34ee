------------------------------ MODULE NetStat -------------------------------
(***************************************************************************)
(* The netstat service (src/services/netstat.c): byte counters of the      *)
(* network interfaces, their change since the last reading and the rate.   *)
(* Received bytes stand for the four counters.  A reading of /proc/net/dev *)
(* may fail; the service then keeps what it holds.  Interfaces come and    *)
(* go, counters restart.  The rate is kept as a change and the seconds it  *)
(* is divided by.                                                          *)
(***************************************************************************)
EXTENDS Integers, FiniteSets, FiniteSetsExt

CONSTANTS
  Ifaces,      \* interfaces, numbered in the order of /proc/net/dev
  MaxIfaces,   \* MAX_INTERFACES
  Bytes,       \* values of a counter
  Times        \* values of time(NULL)

ASSUME NetStatAssumption ==
  /\ Ifaces \subseteq Nat /\ Bytes \subseteq Nat /\ Times \subseteq Nat
  /\ MaxIfaces \in Nat

VARIABLES
  netCurrent, netPrevious,  \* current[] and previous[], by interface
  netHasPrevious, lastCollect,
  reading      \* ghost: the last reading but one, its time and the next one's

netVars == <<netCurrent, netPrevious, netHasPrevious, lastCollect, reading>>

NetEntry == [bytes : Bytes, delta : Int, seconds : Nat]
NoEntries == [i \in {} |-> 0]

NetTypeOK ==
  /\ \A a \in {netCurrent, netPrevious} :
       /\ DOMAIN a \subseteq Ifaces /\ Cardinality(DOMAIN a) <= MaxIfaces
       /\ \A i \in DOMAIN a : a[i] \in NetEntry
  /\ netHasPrevious \in BOOLEAN /\ lastCollect \in Times \cup {0}

(* netstat_init *)
NetInit ==
  /\ netCurrent = NoEntries /\ netPrevious = NoEntries
  /\ netHasPrevious = FALSE /\ lastCollect = 0
  /\ reading = [bytes |-> NoEntries, at |-> 0, now |-> 0]

(* parse_net_dev fills the array in the file's order until it is full. *)
Visible(I) == {i \in I : Cardinality({k \in I : k < i}) < MaxIfaces}

(* The contents /proc/net/dev may have. *)
NetFiles == UNION {[I -> Bytes] : I \in SUBSET Ifaces}

Elapsed(now) == Max({now - lastCollect, 1})

(* The change of an interface; seconds is 0 when there is no rate. *)
NetChange(prev, i, bytes, now) ==
  IF netHasPrevious /\ i \in DOMAIN prev
  THEN [bytes |-> bytes, delta |-> bytes - prev[i].bytes, seconds |-> Elapsed(now)]
  ELSE [bytes |-> bytes, delta |-> 0, seconds |-> 0]

(* netstat_collect *)
NetCollect(file, now) ==
  /\ netPrevious' = netCurrent
  /\ netCurrent' = [i \in Visible(DOMAIN file) |->
                      NetChange(netPrevious', i, file[i], now)]
  /\ lastCollect' = now
  /\ netHasPrevious' = TRUE
  /\ reading' = [bytes |-> [i \in DOMAIN netCurrent |-> netCurrent[i].bytes],
                 at |-> reading.now, now |-> now]

\* A slip: the time is taken before the file is read.
NetCollectFailedStamping(now) ==
  /\ netPrevious' = netCurrent
  /\ lastCollect' = now
  /\ UNCHANGED <<netCurrent, netHasPrevious, reading>>

(* netstat_collect when /proc/net/dev cannot be read: only previous[] has  *)
(* been touched.                                                           *)
NetCollectFailed(now) ==
  /\ netPrevious' = netCurrent
  /\ UNCHANGED <<netCurrent, netHasPrevious, lastCollect, reading>>

NetNext ==
  \E now \in Times :
    (\E file \in NetFiles : NetCollect(file, now)) \/ NetCollectFailed(now)

NetSpec == NetInit /\ [][NetNext]_netVars

-----------------------------------------------------------------------------
(* However many readings failed in between, a change and the time it is    *)
(* divided by span the same two readings, the last two that succeeded, and *)
(* the divisor is never 0.                                                 *)
RateSpansReadings ==
  \A i \in DOMAIN netCurrent :
    netCurrent[i].seconds # 0 =>
      /\ i \in DOMAIN reading.bytes
      /\ netCurrent[i].delta = netCurrent[i].bytes - reading.bytes[i]
      /\ netCurrent[i].seconds = Max({reading.now - reading.at, 1})
=============================================================================
