------------------------------- MODULE Daemon -------------------------------
(***************************************************************************)
(* The life of qmemd (src/daemon/main.c, daemon.c) and of the threads of   *)
(* its IPC and HTTP servers (src/daemon/ipc_server.c,                      *)
(* src/web/http_server.c): start-up with its failures, the monitoring      *)
(* loop, signals, clients, and the shutdown sequence.  What the loop       *)
(* writes and the servers read is the subject of module Snapshot, what     *)
(* the plugin steps do that of PluginLoader.                               *)
(***************************************************************************)
EXTENDS Naturals

CONSTANTS
  Interval,     \* interval_sec, in turns of the sleep loop
  MaxClients,   \* bound on the connections made
  MaxSignals    \* bound on the signals sent

ASSUME DaemonAssumption ==
  Interval \in Nat /\ MaxClients \in Nat /\ MaxSignals \in Nat

Servers == {"ipc", "http"}

VARIABLES
  main,      \* where the main thread is
  running,   \* g_running of daemon.c
  reload,    \* g_reload
  ticks,     \* turns left in the sleep loop
  srv,       \* per server: its g_running, its listening socket, its thread
  backlog,   \* per server: connections waiting for accept()
  history,   \* g_history # NULL
  pidfile, sockfile, \* what exists in the file system
  exitcode,  \* of main(): 0, 1
  clients, signals  \* connections and signals so far

files == <<pidfile, sockfile>>
counters == <<clients, signals>>
vars == <<main, running, reload, ticks, srv, backlog, history, files,
          exitcode, counters>>

StopAt(s)  == IF s = "http" THEN "stop_http" ELSE "stop_ipc"
CloseAt(s) == IF s = "http" THEN "close_http" ELSE "close_ipc"
JoinAt(s)  == IF s = "http" THEN "join_http" ELSE "join_ipc"
AfterStop(s) == IF s = "http" THEN "unload" ELSE "services_down"

Boot == {"daemonize", "write_pidfile", "create_history", "start_ipc",
         "start_http", "load"}
Loop == {"test", "collect", "snapshot", "push", "reload", "update", "sleep"}
Shutdown == {StopAt(s) : s \in Servers} \cup {CloseAt(s) : s \in Servers}
              \cup {JoinAt(s) : s \in Servers}
              \cup {"unload", "services_down", "free_history", "unlink_pidfile"}

ThreadStates == {"none", "test", "poll", "accept", "recv", "history", "send", "done",
                 "failed"}

TypeOK ==
  /\ main \in Boot \cup {"run"} \cup Loop \cup Shutdown \cup {"exited"}
  /\ running \in BOOLEAN /\ reload \in BOOLEAN
  /\ ticks \in 0 .. Interval
  /\ srv \in [Servers -> [running : BOOLEAN, open : BOOLEAN, thread : ThreadStates]]
  /\ backlog \in [Servers -> 0 .. MaxClients]
  /\ history \in BOOLEAN /\ pidfile \in BOOLEAN /\ sockfile \in BOOLEAN
  /\ exitcode \in {0, 1}
  /\ clients \in 0 .. MaxClients /\ signals \in 0 .. MaxSignals

(* daemon_init has installed the signal handlers; an earlier run may have  *)
(* left its files behind.  The configuration names a pid file.             *)
Init ==
  /\ main = "daemonize"
  /\ running = FALSE /\ reload = FALSE /\ ticks = 0
  /\ srv = [s \in Servers |-> [running |-> FALSE, open |-> FALSE, thread |-> "none"]]
  /\ backlog = [s \in Servers |-> 0]
  /\ history = FALSE
  /\ pidfile \in BOOLEAN /\ sockfile \in BOOLEAN
  /\ exitcode = 0
  /\ clients = 0 /\ signals = 0

(* The thread has returned, at the end of its loop or because poll failed. *)
Ended(s) == srv[s].thread \in {"done", "failed"}

Alive(s) == srv[s].thread # "none" /\ ~Ended(s)

Goto(from, to) == main = from /\ main' = to

-----------------------------------------------------------------------------
(* daemon_init *)

InitFails == main' = "exited" /\ exitcode' = 1

(* daemonize: each fork and setsid may fail. *)
Daemonize ==
  /\ main = "daemonize"
  /\ \/ main' = "write_pidfile" /\ UNCHANGED exitcode
     \/ InitFails
  /\ UNCHANGED <<running, reload, ticks, srv, backlog, history, files, counters>>

(* write_pidfile: its failure is ignored. *)
WritePidfile ==
  /\ Goto("write_pidfile", "create_history")
  /\ pidfile' \in {pidfile, TRUE}
  /\ UNCHANGED <<running, reload, ticks, srv, backlog, history, sockfile,
                 exitcode, counters>>

(* ringbuf_create, then svc_manager_init, which cannot fail. *)
CreateHistory ==
  /\ main = "create_history"
  /\ \/ main' = "start_ipc" /\ history' = TRUE /\ UNCHANGED exitcode
     \/ InitFails /\ UNCHANGED history
  /\ UNCHANGED <<running, reload, ticks, srv, backlog, files, counters>>

Started == [running |-> TRUE, open |-> TRUE, thread |-> "test"]

(* ipc_server_start: socket() or bind() may fail once the old socket file  *)
(* is gone, listen() or pthread_create() once the new one exists.          *)
(* daemon_init only logs a failure.                                        *)
StartIpc ==
  /\ Goto("start_ipc", "start_http")
  /\ \/ srv' = [srv EXCEPT !["ipc"] = Started] /\ sockfile' = TRUE
     \/ srv' = srv /\ sockfile' \in BOOLEAN
  /\ UNCHANGED <<running, reload, ticks, backlog, history, pidfile, exitcode, counters>>

(* http_server_start: the web server may be disabled, or fail to start. *)
StartHttp ==
  /\ Goto("start_http", "load")
  /\ srv' \in {srv, [srv EXCEPT !["http"] = Started]}
  /\ UNCHANGED <<running, reload, ticks, backlog, history, files, exitcode, counters>>

(* plugin_loader_init, load_all and start_watcher (module PluginLoader). *)
LoadPlugins ==
  /\ Goto("load", "run")
  /\ UNCHANGED <<running, reload, ticks, srv, backlog, history, files, exitcode, counters>>

-----------------------------------------------------------------------------
(* daemon_run *)

Run ==
  /\ Goto("run", "test")
  /\ running' = TRUE
  /\ UNCHANGED <<reload, ticks, srv, backlog, history, files, exitcode, counters>>

LoopTest ==
  /\ main = "test"
  /\ main' = IF running THEN "collect" ELSE StopAt("http")
  /\ UNCHANGED <<running, reload, ticks, srv, backlog, history, files, exitcode, counters>>

(* svc_manager_collect_all *)
Collect ==
  /\ Goto("collect", "snapshot")
  /\ UNCHANGED <<running, reload, ticks, srv, backlog, history, files, exitcode, counters>>

(* svc_manager_snapshot_all, ringbuf_push *)
Publish ==
  /\ Goto("snapshot", "push") \/ Goto("push", "reload")
  /\ UNCHANGED <<running, reload, ticks, srv, backlog, history, files, exitcode, counters>>

(* The flag is cleared; the configuration is not read again (a TODO). *)
HandleReload ==
  /\ Goto("reload", "update")
  /\ reload' = FALSE
  /\ UNCHANGED <<running, ticks, srv, backlog, history, files, exitcode, counters>>

\* A slip: the sleep loop runs once too often.
CheckUpdatesSleepingLonger ==
  /\ Goto("update", "sleep")
  /\ ticks' = Interval + 1
  /\ UNCHANGED <<running, reload, srv, backlog, history, files, exitcode, counters>>

(* plugin_loader_check_updates; the sleep loop starts. *)
CheckUpdates ==
  /\ Goto("update", "sleep")
  /\ ticks' = Interval
  /\ UNCHANGED <<running, reload, srv, backlog, history, files, exitcode, counters>>

\* A slip: the loop variable is not advanced.
SleepStuck ==
  /\ main = "sleep"
  /\ main' = IF ticks > 0 /\ running THEN "sleep" ELSE "test"
  /\ UNCHANGED <<running, reload, ticks, srv, backlog, history, files, exitcode, counters>>

(* One turn of the sleep loop, or its end. *)
Sleep ==
  /\ main = "sleep"
  /\ IF ticks > 0 /\ running
     THEN main' = main /\ ticks' = ticks - 1
     ELSE main' = "test" /\ ticks' = 0
  /\ UNCHANGED <<running, reload, srv, backlog, history, files, exitcode, counters>>

-----------------------------------------------------------------------------
(* daemon_shutdown *)

\* A slip: the server's flag is left set.
StopServerSilently(s) ==
  /\ main = StopAt(s)
  /\ main' = IF srv[s].running THEN CloseAt(s) ELSE AfterStop(s)
  /\ running' = FALSE
  /\ UNCHANGED <<srv, reload, ticks, backlog, history, files, exitcode, counters>>

(* http_server_stop and ipc_server_stop return at once when the server was *)
(* never started.                                                          *)
StopServer(s) ==
  /\ main = StopAt(s)
  /\ main' = IF srv[s].running THEN CloseAt(s) ELSE AfterStop(s)
  /\ srv' = [srv EXCEPT ![s].running = FALSE]
  /\ running' = FALSE
  /\ UNCHANGED <<reload, ticks, backlog, history, files, exitcode, counters>>

(* shutdown() and close() of the listening socket drop its backlog. *)
CloseServer(s) ==
  /\ Goto(CloseAt(s), JoinAt(s))
  /\ srv' = [srv EXCEPT ![s].open = FALSE]
  /\ backlog' = [backlog EXCEPT ![s] = 0]
  /\ UNCHANGED <<running, reload, ticks, history, files, exitcode, counters>>

\* A slip: the thread is not waited for.
JoinServerDetached(s) ==
  /\ Goto(JoinAt(s), AfterStop(s))
  /\ sockfile' = IF s = "ipc" THEN FALSE ELSE sockfile
  /\ UNCHANGED <<running, reload, ticks, srv, backlog, history, pidfile, exitcode, counters>>

\* A slip: the socket file is left behind.
JoinServerKeepingSocket(s) ==
  /\ Ended(s)
  /\ Goto(JoinAt(s), AfterStop(s))
  /\ UNCHANGED <<running, reload, ticks, srv, backlog, history, files, exitcode, counters>>

(* pthread_join, then unlink of the socket. *)
JoinServer(s) ==
  /\ Ended(s)
  /\ Goto(JoinAt(s), AfterStop(s))
  /\ sockfile' = IF s = "ipc" THEN FALSE ELSE sockfile
  /\ UNCHANGED <<running, reload, ticks, srv, backlog, history, pidfile, exitcode, counters>>

(* plugin_loader_shutdown, svc_manager_shutdown *)
StopServices ==
  /\ Goto("unload", StopAt("ipc")) \/ Goto("services_down", "free_history")
  /\ UNCHANGED <<running, reload, ticks, srv, backlog, history, files, exitcode, counters>>

(* ringbuf_destroy *)
FreeHistory ==
  /\ Goto("free_history", "unlink_pidfile")
  /\ history' = FALSE
  /\ UNCHANGED <<running, reload, ticks, srv, backlog, files, exitcode, counters>>

UnlinkPidfile ==
  /\ Goto("unlink_pidfile", "exited")
  /\ pidfile' = FALSE
  /\ UNCHANGED <<running, reload, ticks, srv, backlog, history, sockfile, exitcode, counters>>

Main ==
  \/ Daemonize \/ WritePidfile \/ CreateHistory \/ StartIpc \/ StartHttp
  \/ LoadPlugins \/ Run \/ LoopTest \/ Collect \/ Publish \/ HandleReload
  \/ CheckUpdates \/ Sleep
  \/ \E s \in Servers : StopServer(s) \/ CloseServer(s) \/ JoinServer(s)
  \/ StopServices \/ FreeHistory \/ UnlinkPidfile

-----------------------------------------------------------------------------
(* A server's thread.  It dies with the process. *)

Thread(s, from, to) ==
  /\ main # "exited"
  /\ srv[s].thread = from
  /\ srv' = [srv EXCEPT ![s].thread = to]
  /\ UNCHANGED <<main, running, reload, ticks, history, files, exitcode, counters>>

(* while (g_running) *)
ServerTest(s) ==
  /\ Thread(s, "test", IF srv[s].running THEN "poll" ELSE "done")
  /\ UNCHANGED backlog

\* A slip: a timeout ends the loop.
PollTimingOut(s) ==
  /\ Thread(s, "poll", IF backlog[s] > 0 THEN "accept" ELSE "done")
  /\ UNCHANGED backlog

(* poll() reports a connection, or times out, or was interrupted. *)
Poll(s) ==
  /\ Thread(s, "poll", IF backlog[s] > 0 THEN "accept" ELSE "test")
  /\ UNCHANGED backlog

(* accept() on the global descriptor: by now the socket may be closed. *)
Accept(s) ==
  IF srv[s].open /\ backlog[s] > 0
  THEN /\ Thread(s, "accept", "recv")
       /\ backlog' = [backlog EXCEPT ![s] = @ - 1]
  ELSE Thread(s, "accept", "test") /\ UNCHANGED backlog

(* get_history_callback has walked the ring buffer. *)
ReadHistory(s) == Thread(s, "history", "send") /\ UNCHANGED backlog

Serve(s) == ServerTest(s) \/ Poll(s) \/ Accept(s) \/ ReadHistory(s)

(* accept() fails although the connection is there; the loop goes on. *)
AcceptFails(s) == srv[s].open /\ Thread(s, "accept", "test") /\ UNCHANGED backlog

(* poll() fails for good: the thread ends, its g_running stays set. *)
PollFails(s) == Thread(s, "poll", "failed") /\ UNCHANGED backlog

-----------------------------------------------------------------------------
(* The environment *)

Connect(s) ==
  /\ main # "exited" /\ srv[s].open
  /\ clients < MaxClients
  /\ clients' = clients + 1
  /\ backlog' = [backlog EXCEPT ![s] = @ + 1]
  /\ UNCHANGED <<main, running, reload, ticks, srv, history, files, exitcode, signals>>

(* recv() in handle_client returns: a request for the snapshot (or one     *)
(* answered from constants), a request for the history (IPC only),         *)
(* garbage or end of file, after which the connection is closed.           *)
Request(s) ==
  /\ \/ Thread(s, "recv", "send")
     \/ s = "ipc" /\ Thread(s, "recv", "history")
     \/ Thread(s, "recv", "test")
  /\ UNCHANGED backlog

(* send() returns: the client has read the reply or gone away. *)
Receive(s) == Thread(s, "send", "test") /\ UNCHANGED backlog

Client(s) == Request(s) \/ Receive(s)

(* signal_handler, run by any thread; a blocking recv() or send() of that  *)
(* thread fails, and handle_client returns.                                *)
Interrupt(t) ==
  srv' = IF t \in Servers /\ srv[t].thread \in {"recv", "send"}
         THEN [srv EXCEPT ![t].thread = "test"] ELSE srv

Signal(t) ==
  /\ main # "exited"
  /\ t \in Servers => Alive(t)
  /\ signals < MaxSignals
  /\ signals' = signals + 1
  /\ Interrupt(t)
  /\ \/ running' = FALSE /\ UNCHANGED reload
     \/ reload' = TRUE /\ UNCHANGED running
  /\ UNCHANGED <<main, ticks, backlog, history, files, exitcode, clients>>

Done == main = "exited" /\ UNCHANGED vars

Next ==
  \/ Main
  \/ \E s \in Servers : \/ Serve(s) \/ AcceptFails(s) \/ PollFails(s)
                        \/ Connect(s) \/ Client(s)
  \/ \E t \in Servers \cup {"main"} : Signal(t)
  \/ Done

Spec == Init /\ [][Next]_vars

(* Every thread that can run is scheduled; poll() and sleep() return.      *)
FairSpec ==
  /\ Spec
  /\ WF_vars(Main)
  /\ \A s \in Servers : WF_vars(Serve(s))

(* In addition clients do not keep a connection open without speaking, and *)
(* accept() does not fail every time.                                      *)
CooperativeSpec ==
  FairSpec /\ \A s \in Servers : WF_vars(Client(s)) /\ SF_vars(Accept(s))

-----------------------------------------------------------------------------
(* The IPC thread never walks the history buffer while it is not there:    *)
(* it starts after ringbuf_create and is joined before ringbuf_destroy.    *)
HistoryAlive == srv["ipc"].thread = "history" => history

(* When main() returns 0 no server thread is left that could touch the     *)
(* state being torn down, nothing listens, and the pid file and the socket *)
(* of a server that was started are gone.                                  *)
CleanExit ==
  main = "exited" /\ exitcode = 0 =>
    /\ \A s \in Servers : ~Alive(s) /\ ~srv[s].open
    /\ Ended("ipc") => ~sockfile
    /\ ~pidfile /\ ~history

(* A request to stop that reaches the running loop ends the process: the   *)
(* joins do not wait for ever.                                             *)
ShutdownCompletes == (main \in Loop /\ ~running) ~> (main = "exited")

(* The loop keeps collecting until it is told to stop. *)
KeepsCollecting ==
  (main \in Loop \ {"collect"}) ~> (main = "collect" \/ ~running)

(* Every waiting connection is accepted, however long the queue and the    *)
(* answers before it, unless poll() failed or the server is being stopped. *)
ClientsAccepted ==
  \A s \in Servers :
    (backlog[s] > 0) ~> (backlog[s] = 0 \/ ~srv[s].running
                          \/ srv[s].thread = "failed")
=============================================================================
