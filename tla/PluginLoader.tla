---------------------------- MODULE PluginLoader ----------------------------
(***************************************************************************)
(* The plugin loader (src/daemon/plugin_loader.c) on top of the service    *)
(* manager, from daemon_init to daemon_shutdown, with the plugin directory *)
(* and its inotify queue as the environment.  A shared library is an image *)
(* (an inode); it carries a plugin name, or Broken when plugin_loader_load *)
(* must reject it (not loadable, no qmem_plugin_info, wrong API version).  *)
(* The service of an image is identified with the image.                   *)
(***************************************************************************)
EXTENDS ServiceManager, FiniteSets

CONSTANTS
  Paths,        \* the .so file names in the plugin directory
  Images,       \* the library files that may be put there
  NameOf,       \* the plugin name an image exports
  Broken,       \* NameOf of an image that cannot be loaded
  Candidates,   \* for each path, the images that may be installed there
  NoFile,
  MaxPlugins,   \* MAX_PLUGINS
  BatchSize,    \* events one read() of check_updates returns
  FileOps,      \* what users do to the directory
  EarlyChanges, \* whether they do it before the watcher runs, too
  InitMayFail,  \* whether ops->init of a service may fail
  MaxChanges    \* bound on the number of file operations

ASSUME LoaderAssumption ==
  /\ MaxPlugins \in Nat \ {0}
  /\ BatchSize \in Nat \ {0}
  /\ MaxChanges \in Nat
  /\ Images = Services
  /\ NoFile \notin Images
  /\ FileOps \subseteq {"write", "delete", "rename", "moveout"}
  /\ EarlyChanges \in BOOLEAN /\ InitMayFail \in BOOLEAN

VARIABLES
  phase,     \* where the main thread is between daemon_init and exit
  files,     \* directory contents
  events,    \* the kernel's inotify queue
  batch,     \* events read by check_updates and not handled yet
  watching,  \* inotify_fd >= 0
  todo,      \* directory entries load_all has not reached
  cursor,    \* loop index of plugin_loader_shutdown
  ld,        \* slots, dlopen reference counts and the service manager
  changes    \* file operations so far

vars == <<phase, files, events, batch, watching, todo, cursor, ld, changes>>

Names == {NameOf[i] : i \in Images} \ {Broken}
Slot == [path : Paths, name : Names, image : Images, loaded : BOOLEAN]
Event == [path : Paths, kind : {"CLOSE_WRITE", "MOVED_TO", "DELETE"}]

TypeOK ==
  /\ phase \in {"loading", "arming", "running", "unloading", "stopping", "down"}
  /\ files \in [Paths -> Images \cup {NoFile}]
  /\ events \in Seq(Event) /\ batch \in Seq(Event)
  /\ watching \in BOOLEAN
  /\ todo \subseteq Paths
  /\ cursor \in 1 .. MaxPlugins + 1
  /\ ld.slots \in Seq(Slot) /\ Len(ld.slots) <= MaxPlugins
  /\ ld.refs \in [Images -> Nat]
  /\ ManagerOK(ld.svc)
  /\ changes \in 0 .. MaxChanges

-----------------------------------------------------------------------------
(* The loader's state is the record ld = [slots, refs, svc]:               *)
(*    slots  g_loader.plugins[0 .. plugin_count - 1]                       *)
(*    refs   open dlopen handles per image; 0 means not mapped             *)
(*    svc    the service manager                                           *)

(* find_plugin_by_path, find_plugin_by_name: the first slot that matches,  *)
(* loaded or not; 0 when there is none.                                    *)
FindByPath(s, p) == SelectInSeq(s.slots, LAMBDA x : x.path = p)
FindByName(s, n) == SelectInSeq(s.slots, LAMBDA x : x.name = n)

IsLoaded(s, k) == k # 0 /\ s.slots[k].loaded

(* The slot of an earlier load of this path is used again. *)
StoreSlot(s, k, slot) ==
  IF k # 0 THEN [s.slots EXCEPT ![k] = slot] ELSE Append(s.slots, slot)

(* plugin_loader_load.  Every rejection after dlopen ends in dlclose, so a *)
(* rejected library leaves no trace; the capacity check comes before the   *)
(* slot of an earlier load is considered.                                  *)
Load(s, p, image, initOK) ==
  LET k == FindByPath(s, p) IN
  IF \/ IsLoaded(s, k)
     \/ Len(s.slots) >= MaxPlugins
     \/ image = NoFile
     \/ NameOf[image] = Broken
     \/ IsLoaded(s, FindByName(s, NameOf[image]))
     \/ ~CanRegister(s.svc, initOK)
  THEN s
  ELSE [slots |-> StoreSlot(s, k, [path |-> p, name |-> NameOf[image],
                                   image |-> image, loaded |-> TRUE]),
        refs  |-> [s.refs EXCEPT ![image] = @ + 1],
        svc   |-> Register(s.svc, image)]

\* A slip: the library is closed and its service stays registered.
UnloadKeepingService(s, n) ==
  LET k == FindByName(s, n) IN
  IF ~IsLoaded(s, k) THEN s
  ELSE [s EXCEPT !.slots[k].loaded = FALSE,
                 !.refs[s.slots[k].image] = @ - 1]

(* plugin_loader_unload: the first slot with this name, if it is loaded. *)
Unload(s, n) ==
  LET k == FindByName(s, n) IN
  IF ~IsLoaded(s, k) THEN s
  ELSE [slots |-> [s.slots EXCEPT ![k].loaded = FALSE],
        refs  |-> [s.refs EXCEPT ![s.slots[k].image] = @ - 1],
        svc   |-> Unregister(s.svc, s.slots[k].image)]

(* What plugin_loader_reload and the handling of a deletion begin with:    *)
(* find the slot by path, then unload by that slot's name.                 *)
UnloadPath(s, p) ==
  LET k == FindByPath(s, p) IN
  IF IsLoaded(s, k) THEN Unload(s, s.slots[k].name) ELSE s

InitOutcomes == IF InitMayFail THEN BOOLEAN ELSE {TRUE}

(* The outcomes of plugin_loader_reload. *)
Reloads(s, p, image) ==
  {Load(u, p, image, ok) : u \in {UnloadPath(s, p)}, ok \in InitOutcomes}

-----------------------------------------------------------------------------
(* plugin_loader_init and svc_manager_init; load_all opens the directory. *)
Init ==
  /\ phase = "loading"
  /\ files \in {f \in [Paths -> Images \cup {NoFile}] :
                  \A p \in Paths : f[p] \in Candidates[p] \cup {NoFile}}
  /\ events = << >> /\ batch = << >> /\ watching = FALSE
  /\ todo = Paths
  /\ cursor = 1
  /\ ld = [slots |-> << >>, refs |-> [i \in Images |-> 0], svc |-> SvcInit]
  /\ changes = 0

(* plugin_loader_load_all: one directory entry, in readdir's order. *)
LoadEntry(p) ==
  /\ phase = "loading" /\ p \in todo
  /\ \E ok \in InitOutcomes : ld' = Load(ld, p, files[p], ok)
  /\ todo' = todo \ {p}
  /\ UNCHANGED <<phase, files, events, batch, watching, cursor, changes>>

LoadAllDone ==
  /\ phase = "loading" /\ todo = {}
  /\ phase' = "arming"
  /\ UNCHANGED <<files, events, batch, watching, todo, cursor, ld, changes>>

(* plugin_loader_start_watcher: inotify may be unavailable. *)
StartWatcher ==
  /\ phase = "arming"
  /\ phase' = "running"
  /\ watching' \in BOOLEAN
  /\ UNCHANGED <<files, events, batch, todo, cursor, ld, changes>>

\* A slip: the buffer is handled only when it is full.
ReadEventsFullBuffer ==
  /\ phase = "running" /\ watching
  /\ batch = << >> /\ Len(events) >= BatchSize
  /\ batch' = SubSeq(events, 1, BatchSize)
  /\ events' = SubSeq(events, BatchSize + 1, Len(events))
  /\ UNCHANGED <<phase, files, watching, todo, cursor, ld, changes>>

(* plugin_loader_check_updates: one read() of the queue, then the events   *)
(* of the buffer one by one.                                               *)
ReadEvents ==
  /\ phase = "running" /\ watching
  /\ batch = << >> /\ events # << >>
  /\ LET n == IF Len(events) < BatchSize THEN Len(events) ELSE BatchSize
     IN  /\ batch' = SubSeq(events, 1, n)
         /\ events' = SubSeq(events, n + 1, Len(events))
  /\ UNCHANGED <<phase, files, watching, todo, cursor, ld, changes>>

\* A slip: deletions are not handled.
HandleEventIgnoringDelete ==
  /\ phase = "running" /\ batch # << >>
  /\ LET e == Head(batch) IN
     IF e.kind = "DELETE" THEN ld' = ld
     ELSE ld' \in Reloads(ld, e.path, files[e.path])
  /\ batch' = Tail(batch)
  /\ UNCHANGED <<phase, files, events, watching, todo, cursor, changes>>

HandleEvent ==
  /\ phase = "running" /\ batch # << >>
  /\ LET e == Head(batch) IN
     IF e.kind = "DELETE" THEN ld' = UnloadPath(ld, e.path)
     ELSE ld' \in Reloads(ld, e.path, files[e.path])
  /\ batch' = Tail(batch)
  /\ UNCHANGED <<phase, files, events, watching, todo, cursor, changes>>

(* daemon_run's loop ends, daemon_shutdown calls plugin_loader_shutdown,   *)
(* which closes the inotify descriptor first.                              *)
Terminate ==
  /\ phase = "running" /\ batch = << >>
  /\ phase' = "unloading"
  /\ watching' = FALSE /\ events' = << >>
  /\ UNCHANGED <<files, batch, todo, cursor, ld, changes>>

(* One turn of plugin_loader_shutdown's loop over the slots. *)
UnloadSlot ==
  /\ phase = "unloading" /\ cursor <= Len(ld.slots)
  /\ ld' = IF ld.slots[cursor].loaded
           THEN Unload(ld, ld.slots[cursor].name) ELSE ld
  /\ cursor' = cursor + 1
  /\ UNCHANGED <<phase, files, events, batch, watching, todo, changes>>

UnloadDone ==
  /\ phase = "unloading" /\ cursor > Len(ld.slots)
  /\ phase' = "stopping"
  /\ UNCHANGED <<files, events, batch, watching, todo, cursor, ld, changes>>

\* A slip: the services are left to the plugin loader.
StopServicesSkipped ==
  /\ phase = "stopping"
  /\ phase' = "down"
  /\ UNCHANGED <<files, events, batch, watching, todo, cursor, ld, changes>>

(* svc_manager_shutdown *)
StopServices ==
  /\ phase = "stopping"
  /\ ld' = [ld EXCEPT !.svc = SvcShutdown(ld.svc)]
  /\ phase' = "down"
  /\ UNCHANGED <<files, events, batch, watching, todo, cursor, changes>>

Main ==
  \/ \E p \in Paths : LoadEntry(p)
  \/ LoadAllDone \/ StartWatcher
  \/ ReadEvents \/ HandleEvent
  \/ UnloadSlot \/ UnloadDone \/ StopServices

-----------------------------------------------------------------------------
(* The plugin directory.  The watch covers IN_CLOSE_WRITE, IN_MOVED_TO and *)
(* IN_DELETE; the kernel drops an event equal to the last one queued.      *)
Notify(kind, p) ==
  LET e == [path |-> p, kind |-> kind]
  IN  events' = IF ~watching \/ (events # << >> /\ Last(events) = e)
                THEN events ELSE Append(events, e)

FileOp(op) ==
  /\ op \in FileOps
  /\ phase \in {"loading", "arming", "running"}
  /\ EarlyChanges \/ watching
  /\ changes < MaxChanges
  /\ changes' = changes + 1
  /\ UNCHANGED <<phase, batch, watching, todo, cursor, ld>>

Write(p, i) ==
  /\ FileOp("write")
  /\ i \in Candidates[p]
  /\ files' = [files EXCEPT ![p] = i]
  /\ Notify("CLOSE_WRITE", p)

Delete(p) ==
  /\ FileOp("delete")
  /\ files[p] # NoFile
  /\ files' = [files EXCEPT ![p] = NoFile]
  /\ Notify("DELETE", p)

Rename(p, q) ==
  /\ FileOp("rename")
  /\ p # q /\ files[p] # NoFile
  /\ files' = [files EXCEPT ![p] = NoFile, ![q] = files[p]]
  /\ Notify("MOVED_TO", q)

MoveOut(p) ==
  /\ FileOp("moveout")
  /\ files[p] # NoFile
  /\ files' = [files EXCEPT ![p] = NoFile]
  /\ UNCHANGED events

Users ==
  \/ \E p \in Paths : \E i \in Images : Write(p, i)
  \/ \E p \in Paths : Delete(p) \/ MoveOut(p)
  \/ \E p, q \in Paths : Rename(p, q)

Done == phase = "down" /\ UNCHANGED vars

Next == Main \/ Terminate \/ Users \/ Done

Spec == Init /\ [][Next]_vars

(* daemon_run calls check_updates in every turn of its loop; nothing is    *)
(* owed by the users, and no one has to stop the daemon.                   *)
FairSpec == Spec /\ WF_vars(ReadEvents) /\ WF_vars(HandleEvent)

-----------------------------------------------------------------------------
LoadedSlots == {k \in 1 .. Len(ld.slots) : ld.slots[k].loaded}

(* Libraries, slots and registrations stay in step through every load,     *)
(* rejected load, reload and unload: an image is registered and held open  *)
(* once for each loaded slot that holds it.  So every service pointer that *)
(* svc_manager_collect_all follows points into a mapped library.           *)
OwnershipBalanced ==
  phase # "down" =>
    \A i \in Images :
      LET held == Cardinality({k \in LoadedSlots : ld.slots[k].image = i})
      IN  ld.refs[i] = held /\ Registrations(ld.svc, i) = held

(* After daemon_shutdown every successful ops->init has had its            *)
(* ops->destroy, even for plugins that plugin_loader_shutdown could not    *)
(* find by name.                                                           *)
EveryInitDestroyed ==
  phase = "down" => \A s \in Images : ld.svc.live[s] = 0

(* Hot reload: when the watcher has no work left, the loaded plugins are   *)
(* exactly the libraries in the directory.                                 *)
InSync ==
  {<<ld.slots[k].path, ld.slots[k].image>> : k \in LoadedSlots}
    = {<<p, files[p]>> : p \in {q \in Paths : files[q] # NoFile
                                              /\ NameOf[files[q]] # Broken}}

HotReloadInSync ==
  (phase = "running" /\ watching /\ events = << >> /\ batch = << >>) => InSync

(* ... and it does get there: the loop drains the queue.                   *)
HotReloadConverges ==
  (phase = "running" /\ watching) ~> (InSync \/ phase # "running")

(* plugin_loader_shutdown leaves no plugin loaded. *)
ShutdownUnloadsAll == phase = "stopping" => LoadedSlots = {}
=============================================================================
