# A TLA+ model of qmem

qmem is a memory monitor for Linux: the daemon `qmemd` collects data from
`/proc` through services that are loaded as plugins, publishes a JSON snapshot
over a Unix socket and HTTP, and keeps a history; the CLI `qmem` asks it for
both. This directory holds TLA+ modules translated from the C source, TLC
configurations that check them on small instances, and proofs checked by TLAPS.
`PROJECT.json` maps every definition to the lines it models.

## 1. Inventory

| part | state | operations | hard behaviour | what makes it correct |
|---|---|---|---|---|
| ring buffer (`daemon/ringbuffer.c`) | array, head, count | create, push, get, get_recent, clear, destroy | wrap-around, failing malloc | keeps the last N snapshots in order |
| daemon (`daemon/daemon.c`, `main.c`) | run and reload flags, pid file, history, threads | init, run, shutdown, signal handler | signals at any point, failing start-up steps, order of tear-down | no use of freed state, clean exit, shutdown ends |
| IPC server (`daemon/ipc_server.c`) | run flag, socket, one thread | start, serve, stop | blocking recv/send against join | every client served; replies whole |
| HTTP server (`web/http_server.c`, `api.c`) | same | same, routes | sends the live buffer | replies whole |
| plugin loader (`daemon/plugin_loader.c`) | slots, dlopen handles, inotify descriptor | load, unload, reload, load_all, check_updates, shutdown | files change while events are queued; equal names | loaded = installed; nothing dangles |
| service manager (`daemon/service_manager.c`) | table of service pointers | register, unregister, collect_all, snapshot_all, shutdown | table full, init fails | every init has one destroy |
| procmem, procevent (`services/`) | two hash tables over one node pool, lists, event ring | collect, snapshot, get_* | nodes rewritten while still referenced | deltas and events true |
| fdmon, heapmon | current, previous, first-seen pool | collect | bounded pool, processes that vanish | growth measured from first sight |
| netstat, slabinfo | current, previous | collect | failed readings, things that come and go | deltas span two readings |
| cpuload | two hash tables over one pool, system totals | collect | unsigned tick counters, failed readings of one file and not the other | shares divide matching differences |
| meminfo, vmstat | current; previous in meminfo | collect | failed readings, missing fields | meminfo's deltas add up to the value shown |
| sockstat | sockets, totals | collect | owners looked up after the table was read | an owner belongs to the socket it is shown with |
| procstat | counters, bounded list | collect | list full in the middle of a process's threads | list and summary agree |
| memleak | copies of procmem, slabinfo, heapmon, meminfo | collect, snapshot | one service reads another's tables | both process lists are of one collection |
| configuration (`daemon/config.c`) | `qmem_config_t` | defaults, load, parse_args | two passes over the arguments with the file in between | options win over the file, the last of several wins |
| JSON builder (`common/json.c`) | buffer, position, comma flag, error | json_* | buffer exhausted mid-document | well-formed or cut, never garbled |
| client (`cli/client.c`) | socket, buffer | connect, request | early end of stream, size limits | whole reply; call returns |
| commands (`cli/commands.c`, `main.c`) | none but the reply | status, top, slab, sockets, memleak, fdmon, services, watch | the reply is searched, not parsed; it may end anywhere | a row shows its own values |

How they interact: the main thread runs `daemon_run`, which calls the service
manager, which calls the services of the loaded plugins; it writes
`g_current_snapshot` through the JSON builder and pushes a copy into the ring
buffer. The two server threads call back into `daemon.c` and read the snapshot
buffer and the ring directly. **There is no lock anywhere in the daemon**; the
only synchronisation is `pthread_create`, `pthread_join` and the flags. heapmon
calls procmem's getters; memleak contains a copy of both and collects them in
turn. Users change the plugin directory; the kernel queues
inotify events which the main thread reads once per turn. The CLI talks to the
IPC thread, one connection per call.

Not modelled, and why: logging, number formatting, the layout of the CLI's
output, its command `raw` and the dump of a section (`print_json_section`), the
HTML page (pure output); the text parsing of the `/proc` readers and of the HTTP
request line, of which only the outcomes are modelled; `procstat_get_threads`
and `heapmon_set_targets`, which nobody calls; test programs, kernel module,
packaging.

## 2. Modules

| module | models | notes |
|---|---|---|
| `History` | what the history promises | abstract: a sequence of at most Capacity snapshots |
| `RingBuffer` | `ringbuffer.c` | `Refinement` maps the array onto `History!hist`; a part of `Standalone` |
| `RingBufferProofs` | | TLAPS proofs for every Capacity, Data, Time |
| `Daemon` | `daemon.c`, `main.c`, life of both server threads | `main` is the program counter of the main thread |
| `DaemonProofs` | | TLAPS proofs of the start-up/shutdown order |
| `Snapshot` | memory shared by loop and servers | instantiates `RingBuffer` for its index operators |
| `SnapshotProofs` | | TLAPS proofs for every buffer, ring and reply size and every interleaving |
| `IpcExchange` | `client.c` against `handle_client` | byte streams as sequences of units |
| `ServiceManager` | `service_manager.c` | operators on a record, used by the loader |
| `PluginLoader`, `MCPluginLoader` | `plugin_loader.c`, plugin directory, inotify | the MC module gives names to libraries |
| `PluginLoaderProofs` | | TLAPS proofs: nothing dangles in any use, in sync in an orderly one |
| `PidTable` | the hash tables of procmem, procevent (and cpuload) | nodes of one pool, heads of two tables |
| `Lemmas` | | TLAPS facts about numbers, finite sets, sequences and chains of nodes, and the theory of two tables over one pool that procmem, cpuload and memleak share |
| `ProcMem`, `ProcEvent` | the two services on `PidTable` | |
| `ProcMemProofs` | | TLAPS proofs that procmem's lookups end and find what they should, and that no delta is made up |
| `Baseline`, `FdMon`, `HeapMon` | `fdmon.c`, `heapmon.c` | first-seen pools |
| `NetStat`, `SlabInfo` | `netstat.c`, `slabinfo.c` | previous/current readings |
| `Config` | `config.c` | both passes over the arguments; a file is a sequence of lines |
| `JsonBuilder` | `json.c` | tokens with widths, against a JSON automaton |
| `CpuLoad` | `cpuload.c` | instantiates `PidTable`; counters modulo TickRange |
| `MemInfo` | `meminfo.c`, `vmstat.c` | |
| `SockStat` | `sockstat.c` | the scan for owners is one step per process |
| `ProcStat` | `procstat.c` | |
| `MemLeak` | `memleak.c` | composes `ProcMem` and `HeapMon` by INSTANCE |
| `Commands` | `commands.c`, `cli/main.c`, and the order of keys in every `*_snapshot` that is published | text as a sequence of keys with their places |
| `ClientProofs` | | TLAPS proofs about the CLI: a reply fits the client's buffer, and the commands find in it what they look for |
| `Standalone` | the fourteen parts that share no state | one of them works at a time |
| `StandaloneProofs` | | TLAPS proofs, part by part |

Definitions named as slips (each introduced by a comment "A slip: ...") are
plausible mistakes in the code they stand next to. They are used by no
specification; replacing the real definition by the slip makes TLC find the
property violated that the slip is paired with in `PROJECT.json`, which shows
that the property is sensitive to the code.

Conventions: a memory access that another thread can observe is one step of
`Snapshot`, in program order. The C program has data races there; the model
takes them to be accesses that are neither torn nor reordered, as on the
machines and compilers the build targets (gcc on x86-64, word-sized fields).
Time stamps in `Snapshot` are snapshot numbers: `time()` is monotonic at the
scale of the loop. Ghost variables (marked as such) record what was read or
pushed, for the properties only.

## 3. Runs

* **Daemon** (Interval 2, two clients, two signals). Start-up with every
  failure, signals to any thread at any point, both servers, `poll` and `accept`
  failing. Two clients make
  a queue behind a client being served; two signals make one arrive during the
  handling of the other. `HistoryAlive` and `CleanExit` are about the order of
  tear-down; `ShutdownCompletes`, `KeepsCollecting`, `ClientsAccepted` are the
  liveness properties.
* **Snapshot** (a buffer of three cells, four snapshots, a history of two, both readers). Snapshot
  lengths on both sides of the buffer's end and of an IPC reply's. `StrlenStops`
  holds although the NUL is overwritten before the next is written, because the
  guard of `json_write` always leaves the last cell alone. `QuietReplyExact`
  says a request no write overlaps gets the last snapshot exactly.
  `HistoryNotOlder` bounds what a history request that overlaps pushes may see.
* **SnapshotTorn** (expected violation). `protocol.h` calls the request "Get
  full snapshot"; a reply can mix two of them.
* **IpcExchange** (texts around the message limit). With and without the daemon
  being stopped or the send interrupted.
* **PluginSafety** (three paths, three libraries of which one is broken, three
  slots, two services, four file changes at any time). `OwnershipBalanced` ties
  slots, `dlopen` handles and registrations together.
* **PluginHotReload** (two paths, four libraries, three slots, four writes and
  deletions). Assumes what the installation does: a plugin name belongs
  to one file, files are not moved out, changes happen while the watcher runs,
  tables are large enough, and inits succeed. Then the loaded plugins are the
  installed ones whenever the queue is empty, and the queue is drained.
* **PluginShutdown** (expected violation). `plugin_loader.h` says shutdown
  unloads all plugins; with one name under two files a slot can be left.
* **ProcMem** (five pids, four nodes, two buckets, unbounded collections).
  Buckets collide and the pool overflows. `ChainsDescend` is why lookups end
  although both tables share rewritten nodes; `DeltaNeverInvented` says that
  what is reported is true.
* **ProcMemGrowth** (expected violation). It is not complete: a process that
  grew from one collection to the next is missing from the growers, since its
  previous node was rewritten before the two were compared.
* **ProcEventExits** (expected violation). What is true is not complete: exits
  are missed, because the walk over `prev_pids` runs through rewritten nodes.
* **Standalone**. The parts share no variable, so every behaviour of their
  product restricted to one part is a behaviour of that part, and letting only
  one move loses nothing. The questions, part by part:
  * RingBuffer (Capacity 3), all orders of create, push, failing push, clear and
    destroy. `Layout` is the invariant behind the modulo arithmetic;
    `OnlyOldestLost` says what a failed malloc may cost; `RecentMirrorsGet`
    relates the two readers; `Refinement` is the abstract specification. Three
    slots are enough to tell first, middle and last position apart.
  * Config: `Precedence`, with two arguments, every kind of option among them,
    so that `-c` stands before and behind an option and twice; files of up to
    three lines over a section the parser knows and one it does not, so that a
    key stands in its own section, in another, in none, and twice.
    The two settings of `[plugins]` are pinned to their defaults.
  * JsonBuilder: `WellFormed`, `CutNotGarbled`; its buffer
    ends in the middle of documents up to three levels deep.
  * FdMon: `LeakersTruthful`, with three processes in a table of two.
    HeapMon: `RankedByGain`. NetStat: `RateSpansReadings`. SlabInfo:
    `ListsSpanReadings`, the list of consumers included. Slabs and interfaces
    overflow their arrays.
  * ProcEvent: `ExitsTruthful` and `RingHoldsLatest`. Three collections, because
    the log of events is a ghost; four pids, three nodes, two buckets.
  * CpuLoad: `CpuShareSpansReadings`, over collections in which `/proc` or
    `/proc/stat` cannot be read. Three pids against two entries; counters of one
    bit, so that every difference wraps for some pair of readings. One chain
    holds all nodes; colliding and separate buckets and an exhausted pool are
    the business of the ProcMem run, on the same module.
  * MemInfo: `DeltasAddUp` (about meminfo; vmstat shows no deltas), with any field
    missing from any reading.
  * SockStat: `OwnersOfThisScan`. Three inodes for two slots, so that a slot is
    reused by another socket; two processes that may hold the same one.
  * ProcStat: `BlockedAgreesWithSummary`. Three processes with two threads each
    and a list of three: it fills in the middle of a process and between two.
  * MemLeak: `LeaksOfThisCollection`. Two processes and one entry per list, so
    that a process leaves a list while its baseline stays.
  * Commands: `RowsAreOwn` for tables of rows, `FiguresAreOwn` for single values.
    Every service alone and every ordered pair of sockstat, procstat and fdmon,
    which share the names `summary`, `sockets` and `pid`; lists of zero to two
    rows, sockets with and without an owner, and a reply that ends behind any
    key. Both say of every cell where its value comes from: from the row or
    section itself if that has the key, else from the first place behind it that
    has the key, and from nowhere only if there is none.
* **ConfigDocumented** (expected violation). `README.md` (145, 159-161) documents
  `enabled` and `dir` of a section `[plugins]`; `config_load` has no branch for it
  and ignores both. `DocumentedTakesEffect` is `Precedence` without the exception.

## 4. Fairness

`Daemon!FairSpec`: the main thread and each server thread are scheduled (weak
fairness of `Main` and `Serve`); `poll` has a timeout of a second and `sleep` of
one, so both return. `CooperativeSpec` adds that a client that has connected
sends something or leaves, and reads its reply or leaves, and that `accept` does
not fail every time there is a connection to accept (strong fairness of
`Accept`; a failing `accept` is logged and tried again). The first is an assumption
about clients, which the CLI satisfies; the code itself does not enforce it
(`recv` and `send` have no timeout). Without it `ShutdownCompletes` and
`ClientsAccepted` are false: `pthread_join` waits for a thread blocked in
`recv`. `PluginLoader!FairSpec`: `daemon_run` calls `check_updates` every turn.
`IpcExchange!Spec`: both processes run; nothing is assumed of `Killed`.

## 5. Proofs

`RingBufferProofs`, from `CapacityAssumption` (Capacity is a positive integer)
and `NullAssumption`:

* `RingTypeCorrect`: RingSpec => []RingTypeOK.
* `LayoutHolds`: RingSpec => []Layout. `Layout` together with the type invariant is
  inductive: below capacity the write position equals the count, so the modulo
  never wraps; at capacity every slot but the one at head owns data, because
  only `PushFailed` drops data and it does so at head without moving it.
* `OnlyOldestLostHolds`, `RecentMirrorsGetHolds`: consequences of the invariant
  and of lemmas about `%` (`ModWrap` and those after it): in both cases the
  position is computed by adding capacity once and reducing once.
* `RingBufferImplementsHistory`: RingSpec => Refinement. RingInit maps to the empty
  sequence; `Push` is `Record` (below capacity it appends, at capacity it drops
  the oldest), `PushFailed` is `LoseOldest` on a full ring and a stutter
  otherwise, `Clear`, `Create` and `Destroy` are `Forget`.

`RingAlone` in `StandaloneProofs` shows that a behaviour of `Standalone`, which the
run checks, is one of `RingSpec`.

`DaemonProofs`, from `DaemonAssumption`, for every interval and any number of
clients and signals:

* `TypeCorrect`. The type invariant alone is not inductive: `Connect` needs
  that no queue is longer than the connections made (`Waiting`).
* `HistoryAliveHolds` and `CleanExitHolds`. Neither is inductive; the invariant
  `Ordered` says what the position of the main thread implies. A server is in
  its initial state until it is started (`NotYet`); outside its stop sequence a
  cleared run flag means there was never a thread (`NoThread`), and outside its
  close step that nothing listens (`ClosedInTime`); from the first step of its
  stop sequence on the flag is clear, and after the join the thread has ended
  (`Gone`); the history exists exactly from `create_history` to `free_history`
  (`HistoryLives`); a joined IPC server has no socket file (`FilesGone`).
  `OutsideKeepsOrder` disposes of all steps of threads, clients and signals at
  once: they leave main alone and move no thread that is not alive.

`ProcMemProofs`, from `TableAssumption` and `ProcMemAssumption`:

* `ChainsDescendHolds`, Spec => []ChainsDescend. `Insert` hands out a node above
  everything `current` reaches, and `Swap` empties `current` before the pool
  restarts, so a chain of `previous` that runs into rewritten nodes still
  descends.
* `CurrentFaithfulHolds`, `DeltaNeverInventedHolds`, `TypeCorrect`. The inductive
  invariant `IInv` adds what the nodes hold. It is stated in `Lemmas` about any
  two tables over one pool (`TwoTables`): links descend (`PoolLinked`), the nodes
  below the pool index are the readings of this scan and those above it that
  `previous` can still reach are of the one before (`HoldReadings`), and a search
  in `current` finds exactly what was read (`FindReadings`). A search in
  `previous` therefore ends in an old reading or in a new one of the same
  process (`PreviousFinds`), and the difference is true or 0 (`TrueRows`).
  `TablesBegin`, `TablesSwap` and `TablesStore` are the three things a scan does to the
  tables; cpuload and the procmem inside memleak use the same lemmas.

`SnapshotProofs`, from `SnapshotAssumption`: `StrlenStopsHolds`,
`QuietReplyExactHolds`, `HistoryNotOlderHolds`. The invariant has three parts.
`Buffer`: the last cell is never anything but NUL, and the writer's position
says which prefix is of the snapshot being built. `Ring`: an entry of the
history is no older than the log of pushes says of its place, also between the
assignments of a push. `Threads`: what a reader in the middle of its request holds, relative to
what it saw when it began.

`ClientProofs`, from `ExchangeAssumption` and `CommandsAssumption`:

* `NothingClippedHolds`. Once the daemon has closed its end, the message is
  either still on its way as a whole or with the client, and the client's limit
  is no smaller than what the daemon sends.
* `RowsAreOwnHolds`, for any services in any order and any number of rows, where
  the run has two of each. The text is understood from the inside out: a row
  (`RowLaid`), a section (`SectionLaid`), a service (`ServicePart`), a snapshot,
  each of them parts one after the other (`Flattened`, `Blocks`). What a command
  relies on is gathered in `Laid`: the two searches for service and section end
  at the section's own heading, from there to any of its rows nothing else opens
  with the same key, and the keys of a row stay together. This is where the keys
  the services really write matter: `PublishedIs` and `TablesAre` go through them
  one by one (no key is the name of a service, no searched section has its name
  used before it). A cell whose key the row lacks is found by the same search
  behind the row; `CellRight` states the outcome for either case, so no cell is left
  free. The beginning of such a text is such a text (`LaidCut`), so
  that the reply may end anywhere. `CmdInv` says that the screen is what the
  command running makes of such a reply. The theorem is about the commands'
  own `CmdInit` and `CmdNext`; `CommandsAlone` in `StandaloneProofs` shows that a
  behaviour of `Standalone` is one of these.

`PluginLoaderProofs`, from `LoaderAssumption` and `MaxServicesAssumption`:

* `OwnershipBalancedHolds`, `EveryInitDestroyedHolds`, for any use of the plugin
  directory. `Balanced` counts for each library the loaded slots, the open
  handles, the entries of the service table and the inits not yet destroyed,
  and says that the four are equal. The lemmas follow `plugin_loader_load`,
  `_unload` and `_reload`, and that `svc_manager_unregister` takes out one entry.
* `HotReloadInSyncHolds`, under `Orderly`, which states what the PluginHotReload
  run assumes: files are written and deleted while the watcher runs, a plugin
  name belongs to one file, there are more slots than files and as many service
  entries, inits succeed. Each of these is needed, and the two bounds are tight:
  with any one of them given up TLC finds a counterexample on the instance of
  that run. `SyncInv` is about the events read and those
  still queued as one queue: a file is in sync and has no event in it, or its
  last event in it is no deletion if the file exists. It is this last event
  that decides, because a reload reads the file as it is by then.

`StandaloneProofs`, from the assumptions of the parts. `PartSteps` reduces a step
of `Standalone` to one of the part; each part has its own invariant:

* `DeltasAddUpHolds` (`MemInv`), `RateSpansReadingsHolds` (`NetInv`),
  `ListsSpanReadingsHolds` (`SlabInv`): what is shown is about the last readings
  that succeeded, whatever fails in between.
* `PrecedenceHolds` (`ConfigInv`): the file found by the first pass is the one the
  last `-c` names (`FileFound`), and the settings are as intended as far as the
  file and then the arguments have been read (`Reached`): line by line by
  `LineStep`, argument by argument by `TakeStep`.
* `CutNotGarbledHolds` (`JsonInv`): every call is made on two builders, the real
  one and one whose buffer suffices; they write the same until the real one
  fails, and nothing more from then on. `WellFormedHolds` (`WriterInv`): where the
  JSON automaton stands after the text is a function of the caller's nesting
  and of the comma flag; the key and value functions move it by one.
* `LeakersTruthfulHolds` (`FdInv`): a baseline in the pool is the first count, and
  a process without one found the pool full.
* `RankedByGainHolds` (`HeapInv`): one row for each process scanned; the exchange
  sort, loop by loop, keeps them and orders them.
* `OwnersOfThisScanHolds` (`SockInv`): the scan is in ascending order, so the last
  holder is the largest.
* `BlockedAgreesWithSummaryHolds` (`StatInv`): each blocked process adds its own
  entry first, and only a full list refuses one.
* `RingHoldsLatestHolds` (`RingInv`), `ExitsTruthfulHolds` (`EvInv`): the ring is the
  end of the log; a walk over `prev_pids` meets only processes of the previous
  scan that were not read since, and each in one bucket only.
* `CpuShareSpansReadingsHolds` (`CpuInv`), an action property: as for procmem, in
  tables of one bucket; a process that meets its own new reading has a
  difference of 0 and is not listed.
* `LeaksOfThisCollectionHolds` (`LeakInv`): memleak's procmem keeps `TwoTables`, so
  all it lists was read in this collection and is found with the same size
  (`LeakMemInv`); its heapmon scans only what procmem listed, and scans it after
  procmem is done, so each entry has the size procmem read. The pids it takes
  from a list are different ones (`FirstDiffer`). The facts about heapmon are
  stated about any variables and used for heapmon alone and inside memleak.
* `TypeCorrect`: every array within its bounds. It rests on the invariants above
  and on what they do not say: a list cut to its first n by rank has n entries
  at most (`FirstFew`); while fdmon scans, its two arrays have an entry for each
  process counted (`FdCounted`); every call leaves the JSON builder inside its
  buffer, at the caller's depth (`Inside`); a search along the path of a table
  ends in the reply or nowhere (`DescendWithin`), and no path is empty
  (`TablesPathed`).

How induction over data is done where it is needed: as the choice of a smallest
counterexample (`NatMinimum` in `Lemmas`), for walks through chains
(`SearchFinds`, `FollowerExists`) and for recursive functions. A fold of the
community modules is unfolded into the sequence of its intermediate values, and
the facts about it are proved for each of them in that way. No theorem of an
instantiated module can be cited, so what `ProcMem`, `ProcEvent`, `CpuLoad` and
`MemLeak` share is stated in `Lemmas` about arbitrary functions, and the operators
of an instance are shown to be these by expanding both.

## 6. Only model-checked

Every invariant and every action property of the runs that pass is a theorem,
with one exception. What is left to TLC:

* `FiguresAreOwn`. That the search for a section ends at its own heading is part
  of the proof of `RowsAreOwn` (`Laid`), but only for sections with rows.
* Liveness and fairness, out of the prover's reach: `ShutdownCompletes`,
  `KeepsCollecting`, `ClientsAccepted`, `ExchangeEnds`, `HotReloadConverges`.
* The five expected violations, which are counterexamples.

## 7. Observed, without a run

Met while modelling; none contradicts a sentence of the repository sharply
enough for an expected violation, or the model leaves the detail out.

* `max_snapshots = 0` is not rejected, and the ring's arithmetic modulo capacity
  is then undefined. Model and proofs assume a positive capacity.
* A SIGTERM between the installation of the handlers and `daemon.c:245` is
  lost, since `daemon_run` sets `g_running` again.
* SIGHUP clears the flag and does nothing else (a TODO, `daemon.c:267`).
* `[services]` settings have no effect (`daemon.c:203` is compiled out), and
  neither have those of `[thresholds]` in the services, which have constants of
  their own: `slab_min_delta_kb` (`qmem.conf.example:24`) is ignored by
  `slabinfo.c:15`, whose `MIN_DELTA_BYTES` happens to be the default.
* `Snapshot!Read` takes the test of an entry for NULL and the reading of its time
  stamp (`daemon.c:143,146`) as one access. `HistoryNotOlder` speaks of the time
  stamp only, which is the later of the two.
* A plugin reloaded while the slot table is full is unloaded and not loaded
  again (`plugin_loader.c:94` comes before the search for its old slot).
* A reply cut short by the end of the daemon is returned by the client as a
  success (`client.c:69`).
* After a failed reading slabinfo and netstat publish the old lists again; the
  deltas of `slabinfo_get_top_consumers` are then 0.

Services:

* cpuload shares procmem's blindness: a process that keeps its position in the
  scan is compared with its own new reading. It has no `QMEM_PLUGIN_DEFINE`
  either, so `cpuload.so` cannot be loaded.
* A pid that is used again between two collections makes the difference of
  ticks wrap (`cpuload.c:250`); `CpuShareSpansReadings` allows it.
* meminfo's first delta is the value itself, as `has_previous` is set before
  there is a reading (`meminfo.c:85`).
* heapmon is registered with `enabled = false` (`heapmon.c:307`), and nothing sets
  the flag, so that `service_manager.c:99,129` pass it over: alone it is neither
  collected nor published. The flag is not modelled as state; `Published`
  leaves heapmon out, and `HeapMon` is what memleak calls.
* `heapmon.so` contains a procmem of its own that nobody collects, so that alone
  it has no targets; the heapmon inside memleak has. `heapmon_set_targets` has
  no caller, and `heapmon_collect` would overwrite what it set, contrary to its
  comment in `heapmon.h`.
* The change of resident size of one process can differ between memleak's
  `user_leaks` (since heapmon first saw it) and `process_usage` (procmem's).
* sockstat can show the name of one holder of a socket beside the pid of
  another: the name is kept when that of the later one cannot be read.
* `SockTables` has no inode 0 and no inode twice, as the rows of TIME_WAIT sockets
  have; nobody owns them, so they show no owner, and no property is about them.
* The tables of `CpuLoad` have one bucket where `cpuload.c:21` has 8192.
* procstat looks for blocked threads only in processes that are blocked.

Commands (`commands.c`); the model shows the cell that is found, and `RowsAreOwn`
and `FiguresAreOwn` say which one that is also for keys a row or section lacks:

* A table runs on into the rows of later sections that open with the same key.
  In particular "POSSIBLE USER LEAKS DETECTED!" appears with an empty
  `user_leaks`, because the rows of `process_usage` follow it.
* A socket without an owner shows the owner of the next socket that has one, or
  of whatever follows. `cmd_status` asks for `blocked` in the summary of procstat
  and finds the heading of the list behind it.
* `cmd_memleak` asks for `initial_rss_kb` and `initial_heap_rss_kb`, `cmd_status`
  for `rx_bytes` and its like. No service that is published writes them, so that
  0 is shown.
* `cmd_status` asks for "Total" with a key that has quotes of its own
  (`commands.c:360`) and is never found; 0 is shown.
* No command asks for a key of vmstat; its keys are left out of the text.
* `cmd_services` does not list memleak and fdmon.

## 8. Plan

Done in this order: RingBuffer and History with proofs; Daemon; Snapshot;
ServiceManager and PluginLoader; PidTable with ProcMem and ProcEvent;
IpcExchange; the first stand-alone parts; proofs for Daemon and for PidTable's
chains; the remaining services, memleak as the composition of procmem and
heapmon; the commands; proofs for ProcMem, Snapshot, IpcExchange, PluginLoader
and eleven of the stand-alone parts; proofs for memleak and the commands, and
the types of all stand-alone parts; both passes of the configuration, and the
exact cells of the commands.

Next: an abstract specification of the plugin loader (a map from paths to
libraries) that `PluginLoader` implements under `Orderly`; `SyncInv` and the
lemmas about `Becomes` are what its proof needs. A proof of `FiguresAreOwn`.
