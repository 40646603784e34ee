----------------------------- MODULE Standalone -----------------------------
(***************************************************************************)
(* The parts of qmem that work on their own: the ring buffer (Snapshot has *)
(* it among threads), the configuration, the JSON builder, the services    *)
(* that are collected by nobody but the service manager, memleak with the  *)
(* services it contains as one of them, and the commands of qmemctl.  They *)
(* share no state, so no step of one can enable, disable or change a step  *)
(* of another, and it suffices to let one of them work at a time: active   *)
(* names it and the others stay as initialised.                            *)
(***************************************************************************)
EXTENDS RingBuffer, Config, JsonBuilder, FdMon, HeapMon, NetStat, SlabInfo, CpuLoad,
        MemInfo, SockStat, ProcStat, ProcEvent, MemLeak, Commands

VARIABLE active

Parts == {"ringbuffer", "config", "json", "fdmon", "heapmon", "netstat", "slabinfo",
          "cpuload", "meminfo", "sockstat", "procstat", "procevent", "memleak", "commands"}

vars == <<active, ringVars, configVars, jsonVars, fdVars, heapVars, netVars, slabVars,
          cpuVars, memVars, sockVars, statVars, evVars, leakVars, cmdVars>>

TypeOK ==
  /\ active \in Parts
  /\ RingTypeOK /\ ConfigTypeOK /\ JsonTypeOK
  /\ FdTypeOK /\ HeapTypeOK /\ NetTypeOK /\ SlabTypeOK /\ CpuTypeOK /\ MemTypeOK
  /\ SockTypeOK /\ StatTypeOK /\ EvTypeOK /\ LeakTypeOK /\ CmdTypeOK

Init ==
  /\ active \in Parts
  /\ RingInit /\ ConfigInit /\ JsonInit
  /\ FdInit /\ HeapInit /\ NetInit /\ SlabInit /\ CpuInit /\ MemInit
  /\ SockInit /\ StatInit /\ EvInit /\ LeakInit /\ CmdInit

(* The state v belongs to one part and is left alone by the others. *)
OwnedBy(part, v) == IF active = part THEN TRUE ELSE UNCHANGED v

Next ==
  /\ \/ active = "ringbuffer" /\ RingNext
     \/ active = "config" /\ ConfigNext
     \/ active = "json" /\ JsonNext
     \/ active = "fdmon" /\ FdNext
     \/ active = "heapmon" /\ HeapNext
     \/ active = "netstat" /\ NetNext
     \/ active = "slabinfo" /\ SlabNext
     \/ active = "cpuload" /\ CpuNext
     \/ active = "meminfo" /\ MemNext
     \/ active = "sockstat" /\ SockNext
     \/ active = "procstat" /\ StatNext
     \/ active = "procevent" /\ EvNext
     \/ active = "memleak" /\ LeakNext
     \/ active = "commands" /\ CmdNext
  /\ UNCHANGED active
  /\ OwnedBy("ringbuffer", ringVars)
  /\ OwnedBy("config", configVars) /\ OwnedBy("json", jsonVars)
  /\ OwnedBy("fdmon", fdVars) /\ OwnedBy("heapmon", heapVars)
  /\ OwnedBy("netstat", netVars) /\ OwnedBy("slabinfo", slabVars)
  /\ OwnedBy("cpuload", cpuVars) /\ OwnedBy("meminfo", memVars)
  /\ OwnedBy("sockstat", sockVars) /\ OwnedBy("procstat", statVars)
  /\ OwnedBy("procevent", evVars) /\ OwnedBy("memleak", leakVars)
  /\ OwnedBy("commands", cmdVars)

Spec == Init /\ [][Next]_vars
=============================================================================
