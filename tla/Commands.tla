------------------------------ MODULE Commands ------------------------------
(***************************************************************************)
(* The commands of qmemctl (src/cli/commands.c, src/cli/main.c).  They do  *)
(* not parse the snapshot but search its text: a key, from there another   *)
(* key, and from there every place where a row opens, to the end of the    *)
(* text.  The text is a sequence of keys, each with the place it belongs   *)
(* to; values need no name of their own: a cell is the position of the key *)
(* whose value it shows, 0 when none was found.  Keys no command asks for, *)
(* the layout of the output, raw and the dump of a section by status are   *)
(* left out.                                                               *)
(***************************************************************************)
EXTENDS Integers, SequencesExt

CONSTANTS
  CmdServices,   \* services that are published together
  MaxPublished,  \* services in one snapshot
  MaxRows        \* rows of a list in one snapshot

VARIABLES
  cmd,        \* the command that runs, "none" if none does
  watching,   \* "no", or what cmd_watch repeats: "all" or a "target"
  reply,      \* the text client_get_snapshot returned
  screen      \* what the command printed: a list of rows for each table

cmdVars == <<cmd, watching, reply, screen>>

-----------------------------------------------------------------------------
(* What the *_snapshot functions write: the sections of a service and the  *)
(* keys of each, for a list those of one row.                              *)
Block(name, keys) == [name |-> name, keys |-> keys, list |-> FALSE]
List(name, keys) == [name |-> name, keys |-> keys, list |-> TRUE]

ProcRow == <<"pid", "cmd", "rss_kb", "data_kb", "rss_delta_kb">>
SlabRow == <<"name", "size_bytes", "delta_bytes">>
HeapRow == <<"pid", "cmd", "rss_kb", "rss_delta_kb", "heap_rss_kb", "heap_size_kb">>
FdRow == <<"pid", "cmd", "fd_count", "initial_fd_count", "fd_change">>
Owner == <<"pid", "cmd">>

meminfo_snapshot ==
  <<Block("usage_percent", << >>), Block("memory", << >>),
    Block("total_kb", <<"value", "delta">>), Block("available_kb", <<"value", "delta">>),
    Block("free_kb", <<"value", "delta">>), Block("cached_kb", <<"value", "delta">>)>>

cpuload_snapshot ==
  <<Block("system", <<"user_percent", "system_percent", "idle_percent", "iowait_percent">>),
    List("top_consumers", Owner)>>

netstat_snapshot == <<List("interfaces", <<"name">>)>>

(* The rows of sockets nobody owns lack the last two keys. *)
sockstat_snapshot ==
  <<Block("tcp", <<"total", "total_delta", "established", "established_delta",
                   "time_wait", "time_wait_delta", "listen">>),
    Block("udp_total", << >>), Block("udp_total_delta", << >>),
    Block("unix_total", << >>), Block("unix_total_delta", << >>),
    List("sockets", <<"local", "remote", "state", "tx_q", "rx_q">> \o Owner)>>

procstat_snapshot ==
  <<Block("summary", <<"total", "running", "sleeping", "zombie">>),
    List("blocked", Owner \o <<"state">>)>>

procevent_snapshot ==
  <<Block("counters", <<"forks", "exits">>), List("recent_events", Owner \o <<"type">>)>>

procmem_snapshot ==
  <<List("top_growers", ProcRow), List("top_shrinkers", ProcRow), List("top_rss", ProcRow)>>

slabinfo_snapshot == <<List("top_growers", SlabRow), List("top_shrinkers", SlabRow)>>

(* No command asks for one of its keys, only for the service. *)
vmstat_snapshot == << >>

fdmon_snapshot ==
  <<Block("summary", <<"total_fds", "proc_count", "potential_leaks">>),
    List("top_consumers", FdRow \o <<"files", "sockets", "pipes", "eventfds", "other">>),
    List("leakers", FdRow)>>

memleak_snapshot ==
  <<Block("memory_summary", <<"total_kb", "free_kb", "available_kb", "cached_kb">>),
    List("kernel_leaks", <<"cache", "delta_bytes", "total_bytes">>),
    List("user_leaks", HeapRow), List("process_usage", HeapRow),
    List("kernel_usage", <<"cache", "total_bytes", "delta_bytes", "active_objs",
                           "delta_objs">>)>>

(* What svc_manager_snapshot_all writes; heapmon is registered with        *)
(* enabled = false, which nothing changes, and is passed over.             *)
Published ==
  [meminfo |-> meminfo_snapshot, cpuload |-> cpuload_snapshot,
   netstat |-> netstat_snapshot, sockstat |-> sockstat_snapshot,
   procstat |-> procstat_snapshot, procevent |-> procevent_snapshot,
   procmem |-> procmem_snapshot, slabinfo |-> slabinfo_snapshot,
   vmstat |-> vmstat_snapshot, fdmon |-> fdmon_snapshot, memleak |-> memleak_snapshot]

ASSUME CommandsAssumption ==
  CmdServices \subseteq DOMAIN Published /\ MaxPublished \in Nat /\ MaxRows \in Nat

(* The keys of row i of a section; a socket nobody owns has no owner. *)
RowKeys(section, i, owned) ==
  IF section.name = "sockets" /\ i \notin owned
  THEN SubSeq(section.keys, 1, Len(section.keys) - Len(Owner)) ELSE section.keys

Token(key, opens, place) == [key |-> key, opens |-> opens, place |-> place]

RowText(svc, section, i, owned) ==
  LET keys == RowKeys(section, i, owned)
  IN  [n \in 1 .. Len(keys) |->
         Token(keys[n], section.list /\ n = 1, <<svc, section.name, i>>)]

SectionText(svc, section, rows, owned) ==
  <<Token(section.name, FALSE, <<svc, section.name, 0>>)>>
  \o FlattenSeq([i \in 1 .. (IF section.list THEN rows ELSE 1) |->
                   RowText(svc, section, i, owned)])

ServiceText(svc, rows, owned) ==
  <<Token(svc, FALSE, <<svc, "none", 0>>)>>
  \o FlattenSeq([s \in 1 .. Len(Published[svc]) |->
                   SectionText(svc, Published[svc][s], rows, owned)])

(* Plugins are registered in any order; every service is tried alone, too. *)
Orders ==
  {<<s>> : s \in DOMAIN Published}
  \cup UNION {{s \in [1 .. n -> CmdServices] : IsInjective(s)} : n \in 0 .. MaxPublished}

SnapshotText(order, rows, owned) ==
  FlattenSeq([k \in 1 .. Len(order) |-> ServiceText(order[k], rows, owned)])

Snapshots ==
  UNION {{SnapshotText(order, rows, owned) : owned \in SUBSET (1 .. rows)}
         : order \in Orders, rows \in 0 .. MaxRows}

-----------------------------------------------------------------------------
(* json_find_key and the strstr for a row: the first match at or behind    *)
(* from, 0 if there is none.                                               *)
FindKey(text, from, key) ==
  LET at == {i \in from .. Len(text) : text[i].key = key}
  IN  IF from = 0 \/ at = {} THEN 0 ELSE Min(at)

\* A slip: each key is searched from the beginning of the text.
DescendFromStart(text, path) ==
  FoldLeft(LAMBDA from, key : FindKey(text, IF from = 0 THEN 0 ELSE 1, key), 1, path)

(* Where the keys of a path lead, each searched from the one before. *)
Descend(text, path) ==
  FoldLeft(LAMBDA from, key : FindKey(text, from, key), 1, path)

(* The numbers of a set, in ascending order. *)
Ascending(S) ==
  [k \in 1 .. Cardinality(S) |->
     CHOOSE i \in S : Cardinality({l \in S : l < i}) = k - 1]

(* How many of n rows a loop comes to that may stop at a limit. *)
NoLimit == 0
UpTo(limit, n) == IF limit = NoLimit THEN n ELSE Min({limit, n})

(* The loop over "{"<key>":" that starts behind a '['. *)
RowStarts(text, from, key, limit) ==
  LET all == Ascending({i \in from + 1 .. Len(text) : text[i].opens /\ text[i].key = key})
  IN  IF from = 0 THEN << >> ELSE SubSeq(all, 1, UpTo(limit, Len(all)))

(* json_get_int, json_get_double and the searches for a string, from where *)
(* the row starts.                                                         *)
Row(text, start, fields) ==
  [at |-> start, cells |-> [f \in fields |-> FindKey(text, start, f)]]

(* A table of a command: where it is, the key its rows open with, "none"   *)
(* if it has no rows, the fields it shows and the most rows it shows.      *)
Table(path, first, fields, limit) ==
  [path |-> path, first |-> first, fields |-> fields, limit |-> limit]

Figures(path, fields) == Table(path, "none", fields, 1)

(* "POSSIBLE USER LEAKS DETECTED!" is printed when a row is found. *)
LeakWarning == Table(<<"memleak", "user_leaks">>, "pid", {}, 1)

MemleakTables ==
  <<Figures(<<"memleak", "memory_summary">>,
            {"total_kb", "available_kb", "free_kb", "cached_kb"}),
    Table(<<"memleak", "process_usage">>, "pid",
          {"pid", "cmd", "rss_kb", "initial_rss_kb", "heap_rss_kb",
           "initial_heap_rss_kb", "heap_size_kb"}, NoLimit),
    Table(<<"memleak", "kernel_usage">>, "cache",
          {"cache", "total_bytes", "delta_bytes", "active_objs", "delta_objs"}, NoLimit),
    LeakWarning>>

(* The key cmd_status asks for as "Total" has quotes of its own. *)
QuotedValue == "quoted value"

(* cmd_status in its two halves: the machine, and what runs on it. *)
MachineTables ==
  <<Figures(<<"meminfo">>, {"usage_percent"}),
    Figures(<<"meminfo", "memory">>, {QuotedValue}),
    Figures(<<"meminfo", "memory", "available_kb">>, {"value", "delta"}),
    Figures(<<"cpuload", "system">>,
            {"user_percent", "system_percent", "idle_percent", "iowait_percent"}),
    Table(<<"netstat", "interfaces">>, "name",
          {"name", "rx_bytes", "tx_bytes", "rx_bytes_delta", "tx_bytes_delta"}, NoLimit)>>

ActivityTables ==
  <<Figures(<<"sockstat", "tcp">>,
            {"total", "established", "time_wait", "listen", "total_delta",
             "established_delta", "time_wait_delta"}),
    Figures(<<"sockstat">>,
            {"udp_total", "unix_total", "udp_total_delta", "unix_total_delta"}),
    Figures(<<"procstat", "summary">>,
            {"total", "running", "sleeping", "blocked", "zombie"}),
    Figures(<<"procevent", "counters">>, {"forks", "exits"}),
    Table(<<"procevent", "recent_events">>, "pid", {"pid", "cmd", "type"}, 5)>>

TopTables ==
  <<Table(<<"procmem", "top_growers">>, "pid",
          {"pid", "rss_kb", "rss_delta_kb", "cmd"}, NoLimit),
    Table(<<"procmem", "top_rss">>, "pid", {"pid", "rss_kb", "data_kb", "cmd"}, NoLimit)>>

SlabTables ==
  <<Table(<<"slabinfo", "top_growers">>, "name",
          {"name", "size_bytes", "delta_bytes"}, NoLimit)>>

SocketsTables ==
  <<Table(<<"sockstat", "sockets">>, "local",
          {"local", "remote", "state", "tx_q", "rx_q", "pid", "cmd"}, NoLimit)>>

FdmonTables ==
  <<Figures(<<"fdmon", "summary">>, {"total_fds", "proc_count", "potential_leaks"}),
    Table(<<"fdmon", "top_consumers">>, "pid",
          {"pid", "fd_count", "initial_fd_count", "fd_change", "files", "sockets",
           "pipes", "other", "eventfds", "cmd"}, 15),
    Table(<<"fdmon", "leakers">>, "pid",
          {"pid", "fd_count", "initial_fd_count", "fd_change", "cmd"}, 10)>>

ServicesTables ==
  [n \in 1 .. 10 |->
     Figures(<<(<<"meminfo", "slabinfo", "procmem", "heapmon", "vmstat", "cpuload",
                  "netstat", "procstat", "sockstat", "procevent">>)[n]>>, {})]

Tables == [status |-> MachineTables \o ActivityTables, top |-> TopTables,
           slab |-> SlabTables, sockets |-> SocketsTables, memleak |-> MemleakTables,
           fdmon |-> FdmonTables, services |-> ServicesTables]

Starts(text, t) ==
  LET from == Descend(text, t.path)
  IN  IF t.first = "none" THEN (IF from = 0 THEN << >> ELSE <<from>>)
      ELSE RowStarts(text, from, t.first, t.limit)

\* A slip: the cells are searched from the beginning of the section.
ShowFromSection(text, t) ==
  LET starts == Starts(text, t)
  IN  [k \in 1 .. Len(starts) |->
         [at |-> starts[k], cells |-> Row(text, Descend(text, t.path), t.fields).cells]]

(* What a command prints of a table. *)
Show(text, t) ==
  LET starts == Starts(text, t)
  IN  [k \in 1 .. Len(starts) |-> Row(text, starts[k], t.fields)]

-----------------------------------------------------------------------------
CmdTypeOK ==
  /\ cmd \in DOMAIN Tables \cup {"none"} /\ watching \in {"no", "all", "target"}
  /\ Len(screen) \in {0} \cup {Len(Tables[c]) : c \in DOMAIN Tables}
  /\ \A k \in DOMAIN screen : \A r \in ToSet(screen[k]) : r.at \in DOMAIN reply

CmdInit == cmd = "none" /\ watching = "no" /\ reply = << >> /\ screen = << >>

(* cmd_status hands these over to the command of that name. *)
Targets == {"sockets", "top", "slab", "memleak", "services"}

(* main: a command, by its name or as the target of status, or watch with  *)
(* or without a target.                                                    *)
CmdStart(c, w) ==
  /\ cmd = "none"
  /\ w = "all" => c = "status"
  /\ w = "target" => c \in Targets
  /\ cmd' = c /\ watching' = w
  /\ UNCHANGED <<reply, screen>>

(* What runs next: cmd_watch without a target alternates status and top.   *)
Following ==
  CASE watching = "no" -> "none"
    [] watching = "target" -> cmd
    [] watching = "all" -> IF cmd = "status" THEN "top" ELSE "status"

(* A command with the snapshot the daemon answered, which ends anywhere    *)
(* when it filled its buffer.                                              *)
CmdShow(text, end) ==
  /\ cmd # "none" /\ screen = << >>
  /\ reply' = SubSeq(text, 1, end)
  /\ screen' = [k \in DOMAIN Tables[cmd] |-> Show(reply', Tables[cmd][k])]
  /\ UNCHANGED <<cmd, watching>>

(* No daemon, or no answer: an error message; watch goes on. *)
CmdNoReply ==
  /\ cmd # "none" /\ screen = << >>
  /\ cmd' = Following
  /\ UNCHANGED <<watching, reply, screen>>

(* The command returns. *)
CmdReturn ==
  /\ cmd # "none" /\ screen # << >>
  /\ cmd' = Following
  /\ reply' = << >> /\ screen' = << >>
  /\ UNCHANGED watching

CmdNext ==
  \/ \E c \in DOMAIN Tables, w \in {"no", "all", "target"} : CmdStart(c, w)
  \/ \E text \in Snapshots : \E end \in 0 .. Len(text) : CmdShow(text, end)
  \/ CmdNoReply \/ CmdReturn

-----------------------------------------------------------------------------
(* Where the rows of a table's own section open in the text. *)
OwnStarts(t) ==
  Ascending({i \in 1 .. Len(reply) : /\ reply[i].opens
                                     /\ reply[i].place[1] = t.path[1]
                                     /\ reply[i].place[2] = Last(t.path)})

(* The cells of a row whose keys are at mine: a cell shows the row's own   *)
(* value when the row has the key; else what the first place behind the    *)
(* row has under that key, and nothing only if none has.                   *)
CellsOf(row, fields, mine) ==
  \A f \in fields :
    LET own == {i \in mine : reply[i].key = f}
        behind == {i \in DOMAIN reply : reply[i].key = f /\ \A j \in mine : j < i}
    IN  IF own # {} THEN row.cells[f] \in own
        ELSE row.cells[f] = IF behind = {} THEN 0 ELSE Min(behind)

(* Although nothing but the text is searched, wherever the snapshot was    *)
(* cut off and whatever follows the section: a table of rows begins with   *)
(* the rows of its own section, in their order, none left out below the    *)
(* limit, and a value the row has is shown in its cell.  A cell whose key  *)
(* the row lacks, as a socket nobody owns lacks an owner, is completed     *)
(* from the first place behind the row that has the key, the next row that *)
(* does or another section.  (Rows of later sections that open with the    *)
(* same key may follow, too.)                                              *)
RowsAreOwn ==
  \A n \in DOMAIN screen :
    LET t == Tables[cmd][n]
        own == OwnStarts(t)
    IN  \A k \in 1 .. UpTo(t.limit, Len(own)) :
          LET row == screen[n][k]
              mine == {i \in DOMAIN reply : reply[i].place = reply[own[k]].place}
          IN  Len(screen[n]) >= k /\ row.at = own[k] /\ CellsOf(row, t.fields, mine)

(* The same of figures: they are shown just when the heading of their own  *)
(* service or section is in the reply, also when other services have a     *)
(* section or keys of the same name, and come from there.                  *)
FiguresAreOwn ==
  \A n \in DOMAIN screen :
    LET t == Tables[cmd][n]
        whole == Len(t.path) = 1
        heading == {i \in DOMAIN reply : reply[i].place =
                      <<t.path[1], IF whole THEN "none" ELSE Last(t.path), 0>>}
        mine == {i \in DOMAIN reply : /\ reply[i].place[1] = t.path[1]
                                      /\ whole \/ reply[i].place[2] = Last(t.path)}
    IN  t.first = "none" =>
          /\ {screen[n][k].at : k \in DOMAIN screen[n]} = heading
          /\ \A k \in DOMAIN screen[n] : CellsOf(screen[n][k], t.fields, mine)
=============================================================================
