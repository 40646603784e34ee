---------------------------- MODULE DaemonProofs ----------------------------
(***************************************************************************)
(* Proofs about Daemon: the order of start-up and shutdown protects what   *)
(* the server threads use, for any interval and however many clients       *)
(* connect and signals arrive.                                             *)
(***************************************************************************)
EXTENDS Daemon, TLAPS

(* Where the main thread is before server s is started, while it stops it, *)
(* and once its thread is known to be gone.                                *)
Before(s) ==
  {"daemonize", "write_pidfile", "create_history", "start_ipc"}
    \cup (IF s = "http" THEN {"start_http"} ELSE {})

After(s) ==
  {"services_down", "free_history", "unlink_pidfile", "exited"}
    \cup (IF s = "http" THEN {"unload", "stop_ipc", "close_ipc", "join_ipc"} ELSE {})

NotStarted == [running |-> FALSE, open |-> FALSE, thread |-> "none"]

(* What main's position says of a server.                                  *)
NotYet(s) == main \in Before(s) => srv[s] = NotStarted

NoThread(s) ==
  main \notin {CloseAt(s), JoinAt(s)} \cup After(s) /\ ~srv[s].running
    => srv[s].thread = "none"

ClosedInTime(s) ==
  main # CloseAt(s) /\ ~srv[s].running => ~srv[s].open

Gone(s) ==
  /\ main \in {CloseAt(s), JoinAt(s)} \cup After(s) => ~srv[s].running
  /\ main \in After(s) => ~Alive(s)

(* ... and of the history buffer and of the files.                         *)
HistoryLives ==
  main \notin {"daemonize", "write_pidfile", "create_history", "unlink_pidfile",
               "exited"} <=> history = TRUE

FilesGone ==
  /\ main \in After("ipc") /\ Ended("ipc") => sockfile = FALSE
  /\ main = "exited" /\ exitcode = 0 => pidfile = FALSE

Ordered ==
  /\ \A s \in Servers : NotYet(s) /\ NoThread(s) /\ ClosedInTime(s) /\ Gone(s)
  /\ HistoryLives
  /\ FilesGone

-----------------------------------------------------------------------------
(* The types hold initially. *)
LEMMA TypeInit == Init => TypeOK
<1> SUFFICES ASSUME Init PROVE TypeOK
  OBVIOUS
<1>1. /\ running \in BOOLEAN /\ reload \in BOOLEAN /\ history \in BOOLEAN
      /\ pidfile \in BOOLEAN /\ sockfile \in BOOLEAN
  BY Zenon DEF Init
<1> QED BY <1>1, DaemonAssumption DEF Init, TypeOK, Boot, ThreadStates

(* What there is to know of a server. *)
Server == [running : BOOLEAN, open : BOOLEAN, thread : ThreadStates]

(* The record a start writes is one. *)
LEMMA StartedType == Started \in Server
BY DEF Started, Server, ThreadStates

(* No server has more connections waiting than were made. *)
Waiting == \A s \in Servers : backlog[s] <= clients

(* Each step keeps the types and the bound on the queues. *)
LEMMA TypeStep == TypeOK /\ Waiting /\ [Next]_vars => TypeOK' /\ Waiting'
<1> SUFFICES ASSUME TypeOK, Waiting, [Next]_vars PROVE TypeOK' /\ Waiting'
  OBVIOUS
<1> USE DEF TypeOK, Waiting, files, counters
<1>1. CASE Daemonize
  BY <1>1 DEF Daemonize, InitFails, Boot
<1>2. CASE WritePidfile
  BY <1>2 DEF WritePidfile, Goto, Boot
<1>3. CASE CreateHistory
  BY <1>3 DEF CreateHistory, InitFails, Boot
<1>4. CASE StartIpc
  <2>1. srv' \in [Servers -> Server]
    BY <1>4, StartedType DEF StartIpc, Server
  <2>2. sockfile' \in BOOLEAN
    BY <1>4, Zenon DEF StartIpc
  <2> QED BY <1>4, <2>1, <2>2 DEF StartIpc, Goto, Boot, Server
<1>5. CASE StartHttp
  <2>1. srv' \in [Servers -> Server]
    BY <1>5, StartedType DEF StartHttp, Server
  <2> QED BY <1>5, <2>1 DEF StartHttp, Goto, Boot, Server
<1>6. CASE LoadPlugins \/ Run \/ LoopTest \/ Collect \/ Publish \/ HandleReload
  BY <1>6, ZenonT(30) DEF LoadPlugins, Run, LoopTest, Collect, Publish, HandleReload, Goto, Loop,
     Shutdown, StopAt, Servers
<1>7. CASE CheckUpdates \/ Sleep
  BY <1>7, DaemonAssumption DEF CheckUpdates, Sleep, Goto, Loop
<1>8. ASSUME NEW s \in Servers, StopServer(s) PROVE TypeOK' /\ Waiting'
  <2>1. main' \in Shutdown
    BY <1>8 DEF StopServer, AfterStop, CloseAt, Shutdown, Servers
  <2>2. srv' \in [Servers -> Server]
    BY <1>8 DEF StopServer, Server
  <2> QED BY <1>8, <2>1, <2>2 DEF StopServer, Server
<1>9. ASSUME NEW s \in Servers, CloseServer(s) PROVE TypeOK' /\ Waiting'
  <2>1. main' \in Shutdown
    BY <1>9 DEF CloseServer, Goto, JoinAt, Shutdown, Servers
  <2>2. srv' \in [Servers -> Server]
    BY <1>9 DEF CloseServer, Server
  <2> QED BY <1>9, <2>1, <2>2, DaemonAssumption DEF CloseServer, Server
<1>10. ASSUME NEW s \in Servers, JoinServer(s) PROVE TypeOK' /\ Waiting'
  <2>1. main' \in Shutdown
    BY <1>10 DEF JoinServer, Goto, AfterStop, Shutdown, Servers
  <2>2. sockfile' \in BOOLEAN
    BY <1>10, Zenon DEF JoinServer
  <2> QED BY <1>10, <2>1, <2>2 DEF JoinServer
<1>11. CASE StopServices \/ FreeHistory \/ UnlinkPidfile
  BY <1>11 DEF StopServices, FreeHistory, UnlinkPidfile, Goto, Shutdown, StopAt, Servers
<1>12. ASSUME NEW s \in Servers, Serve(s) \/ AcceptFails(s) \/ PollFails(s) PROVE TypeOK' /\ Waiting'
  BY <1>12, DaemonAssumption DEF Serve, ServerTest, Poll, Accept, ReadHistory,
     AcceptFails, PollFails, Thread, ThreadStates
<1>13. ASSUME NEW s \in Servers, Connect(s) PROVE TypeOK' /\ Waiting'
  BY <1>13, DaemonAssumption DEF Connect
<1>14. ASSUME NEW s \in Servers, Client(s) PROVE TypeOK' /\ Waiting'
  BY <1>14 DEF Client, Request, Receive, Thread, ThreadStates
<1>15. ASSUME NEW t \in Servers \cup {"main"}, Signal(t) PROVE TypeOK' /\ Waiting'
  <2>1. srv' \in [Servers -> Server]
    BY <1>15 DEF Signal, Interrupt, Server, ThreadStates
  <2>2. running' \in BOOLEAN /\ reload' \in BOOLEAN
    BY <1>15, Zenon DEF Signal
  <2> QED BY <1>15, <2>1, <2>2, DaemonAssumption DEF Signal, Server
<1>16. CASE Done \/ UNCHANGED vars
  BY <1>16 DEF Done, vars
<1> QED BY <1>1, <1>2, <1>3, <1>4, <1>5, <1>6, <1>7, <1>8, <1>9, <1>10, <1>11, <1>12,
        <1>13, <1>14, <1>15, <1>16 DEF Next, Main

(* Whatever the clients and signals do, each variable keeps its type; in   *)
(* particular no queue holds more than the connections made.               *)
THEOREM TypeCorrect == Spec => []TypeOK
<1>1. Init => Waiting
  BY DEF Init, Waiting
<1> QED BY <1>1, TypeInit, TypeStep, PTL DEF Spec

-----------------------------------------------------------------------------
(* Nothing is started in the initial state. *)
LEMMA OrderedInit == Init => Ordered
BY DEF Init, Ordered, NotYet, NoThread, ClosedInTime, Gone, Alive, HistoryLives,
   FilesGone, NotStarted, Ended, After

(* The steps of a server's thread, of its clients and of the environment   *)
(* leave main where it is and move no thread that is not alive.            *)
LEMMA OutsideKeepsOrder ==
  ASSUME TypeOK, Ordered, UNCHANGED <<main, history, files, exitcode>>,
         srv' \in [Servers -> Server],
         \A s \in Servers : /\ srv'[s].running = srv[s].running
                            /\ srv'[s].open = srv[s].open
                            /\ ~Alive(s) => srv'[s] = srv[s]
  PROVE  Ordered'
<1>1. ASSUME NEW s \in Servers
      PROVE  (NotYet(s) /\ NoThread(s) /\ ClosedInTime(s) /\ Gone(s))'
  BY <1>1 DEF Ordered, NotYet, NoThread, ClosedInTime, Gone, Alive, Ended, NotStarted
<1>2. HistoryLives'
  BY DEF Ordered, HistoryLives
<1>3. FilesGone'
  BY DEF Ordered, FilesGone, Gone, Alive, Ended, files, Servers
<1> QED BY <1>1, <1>2, <1>3 DEF Ordered

(* Each step keeps the order: main moves through it, the others wait. *)
LEMMA OrderedStep == TypeOK /\ Ordered /\ [Next]_vars => Ordered'
<1> SUFFICES ASSUME TypeOK, Ordered, [Next]_vars PROVE Ordered'
  OBVIOUS
<1> USE DEF TypeOK, Ordered, NotYet, NoThread, ClosedInTime, Gone, Alive, Ended, NotStarted,
     HistoryLives, FilesGone, Before, After, CloseAt, JoinAt, StopAt, AfterStop, Goto,
     Servers, files
<1>1. CASE Daemonize
  BY <1>1 DEF Daemonize, InitFails
<1>2. CASE WritePidfile
  BY <1>2 DEF WritePidfile
<1>3. CASE CreateHistory
  BY <1>3 DEF CreateHistory, InitFails
<1>4. CASE StartIpc
  <2>1. \/ srv' = srv
        \/ /\ srv'["http"] = srv["http"] /\ srv'["ipc"].running /\ srv'["ipc"].open
    BY <1>4 DEF StartIpc, Started
  <2>2. ASSUME NEW s \in Servers
        PROVE  (NotYet(s) /\ NoThread(s) /\ ClosedInTime(s) /\ Gone(s))'
    BY <1>4, <2>1, <2>2 DEF StartIpc
  <2>3. (HistoryLives /\ FilesGone)'
    BY <1>4 DEF StartIpc
  <2> QED BY <2>2, <2>3
<1>5. CASE StartHttp
  BY <1>5 DEF StartHttp, Started
<1>6. CASE LoadPlugins \/ Run
  BY <1>6 DEF LoadPlugins, Run
<1>7. CASE LoopTest
  BY <1>7 DEF LoopTest
<1>8. CASE Collect \/ Publish \/ HandleReload \/ CheckUpdates \/ Sleep
  BY <1>8 DEF Collect, Publish, HandleReload, CheckUpdates, Sleep
<1>9. ASSUME NEW s \in Servers, StopServer(s) PROVE Ordered'
  BY <1>9 DEF StopServer
<1>10. ASSUME NEW s \in Servers, CloseServer(s) PROVE Ordered'
  BY <1>10 DEF CloseServer
<1>11. ASSUME NEW s \in Servers, JoinServer(s) PROVE Ordered'
  <2>1. /\ srv' = srv /\ Ended(s) /\ main = JoinAt(s) /\ main' = AfterStop(s)
        /\ UNCHANGED <<history, pidfile, exitcode>>
    BY <1>11 DEF JoinServer
  <2>2. s = "ipc" => sockfile' = FALSE
    BY <1>11, Zenon DEF JoinServer
  <2>3. ASSUME NEW z \in Servers
        PROVE  (NotYet(z) /\ NoThread(z) /\ ClosedInTime(z) /\ Gone(z))'
    BY <2>1, <2>3
  <2>4. HistoryLives'
    BY <2>1
  <2>5. FilesGone'
    BY <2>1, <2>2
  <2> QED BY <2>3, <2>4, <2>5
<1>12. CASE StopServices
  BY <1>12 DEF StopServices
<1>13. CASE FreeHistory
  BY <1>13 DEF FreeHistory
<1>14. CASE UnlinkPidfile
  BY <1>14 DEF UnlinkPidfile
<1>15. ASSUME NEW s \in Servers, Serve(s) \/ AcceptFails(s) \/ PollFails(s) \/ Client(s)
       PROVE  Ordered'
  <2>1. PICK from, to \in ThreadStates :
          Thread(s, from, to) /\ from \notin {"none", "done", "failed"}
    BY <1>15 DEF Serve, ServerTest, Poll, Accept, AcceptFails, ReadHistory, PollFails, Client, Request,
       Receive, ThreadStates
  <2>2. /\ UNCHANGED <<main, history, files, exitcode>>
        /\ srv' = [srv EXCEPT ![s].thread = to] /\ Alive(s)
    BY <2>1 DEF Thread
  <2>3. srv' \in [Servers -> Server]
    BY <2>2 DEF Server
  <2>4. \A z \in Servers : /\ srv'[z].running = srv[z].running
                           /\ srv'[z].open = srv[z].open
                           /\ ~Alive(z) => srv'[z] = srv[z]
    BY <2>2
  <2> HIDE DEF TypeOK, Ordered, Alive, Servers
  <2> QED BY <2>2, <2>3, <2>4, OutsideKeepsOrder
<1>16. ASSUME NEW s \in Servers, Connect(s) PROVE Ordered'
  BY <1>16, OutsideKeepsOrder DEF Connect, Server
<1>17. ASSUME NEW t \in Servers \cup {"main"}, Signal(t) PROVE Ordered'
  <2>1. srv' \in [Servers -> Server]
    BY <1>17 DEF Signal, Interrupt, Server, ThreadStates
  <2>2. \A z \in Servers : /\ srv'[z].running = srv[z].running
                           /\ srv'[z].open = srv[z].open
                           /\ ~Alive(z) => srv'[z] = srv[z]
    BY <1>17 DEF Signal, Interrupt
  <2>3. UNCHANGED <<main, history, files, exitcode>>
    BY <1>17 DEF Signal
  <2> HIDE DEF TypeOK, Ordered, Alive, Servers
  <2> QED BY <2>1, <2>2, <2>3, OutsideKeepsOrder
<1>18. CASE Done \/ UNCHANGED vars
  BY <1>18, OutsideKeepsOrder DEF Done, vars, Server
<1> QED BY <1>1, <1>2, <1>3, <1>4, <1>5, <1>6, <1>7, <1>8, <1>9, <1>10, <1>11, <1>12,
        <1>13, <1>14, <1>15, <1>16, <1>17, <1>18 DEF Next, Main

(* The IPC thread walks the history buffer only while it exists: main      *)
(* creates the buffer before it starts the thread and joins the thread     *)
(* before it frees the buffer, however start-up and shutdown go.           *)
THEOREM HistoryAliveHolds == Spec => []HistoryAlive
<1>1. TypeOK /\ Ordered => HistoryAlive
  BY DEF TypeOK, Ordered, HistoryAlive, NotYet, Gone, Alive, Ended, NotStarted,
     HistoryLives, Before, After, Servers
<1> QED BY <1>1, TypeCorrect, OrderedInit, OrderedStep, PTL DEF Spec

(* A regular end leaves no thread, no listening socket, no history buffer  *)
(* and none of the files of a started daemon behind.                       *)
THEOREM CleanExitHolds == Spec => []CleanExit
<1>1. TypeOK /\ Ordered => CleanExit
  BY DEF TypeOK, Ordered, CleanExit, ClosedInTime, Gone, FilesGone, HistoryLives,
     After, CloseAt, Servers
<1> QED BY <1>1, TypeCorrect, OrderedInit, OrderedStep, PTL DEF Spec
=============================================================================
