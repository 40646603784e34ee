------------------------------- MODULE Config -------------------------------
(***************************************************************************)
(* The configuration of qmemd (src/daemon/config.c): defaults, then a file *)
(* named by -c, then the other options, all into one qmem_config_t.  The   *)
(* arguments are read twice, once for -c and once for the rest.  A setting *)
(* is a key of a section; its values are small numbers, 0 being the        *)
(* default.  A file is its text, a sequence of lines; parsing of one line  *)
(* is left out: it is a section header or a setting.  A file that cannot   *)
(* be opened counts as empty.                                              *)
(***************************************************************************)
EXTENDS Naturals, Sequences, FiniteSetsExt

CONSTANTS
  Sections, Keys,  \* names that may occur in a file
  Values,          \* values that may be written there
  MaxLines,        \* bound on the length of a file
  MaxArgs          \* bound on the arguments given

ASSUME ConfigAssumption ==
  {0, 1} \subseteq Values /\ Values \subseteq Nat /\ MaxLines \in Nat /\ MaxArgs \in Nat

(* The settings config_load compares a key with, by section. *)
Known ==
  {<<"daemon", k>> : k \in {"interval", "foreground", "pidfile", "socket", "log_level"}}
  \cup {<<"thresholds", k>> : k \in {"proc_min_delta_kb", "slab_min_delta_kb",
                                     "proc_top_n", "slab_top_n", "heap_scan_top_n"}}
  \cup {<<"services", k>> : k \in {"meminfo", "slabinfo", "procmem", "heapmon", "vmstat"}}
  \cup {<<"web", k>> : k \in {"enabled", "listen", "port"}}
  \cup {<<"history", "max_snapshots">>}

(* The settings that README.md and config/qmem.conf.example list, each     *)
(* with a field of qmem_config_t: those of config_load and two more.       *)
Settings == Known \cup {<<"plugins", "enabled">>, <<"plugins", "dir">>}

(* The options of config_parse_args that set something. *)
Options == {<<"daemon", "foreground">>, <<"daemon", "interval">>, <<"daemon", "socket">>,
            <<"web", "port">>, <<"daemon", "log_level">>}

(* -c, and what stands for -h and for all that getopt_long does not know. *)
ConfigFile == <<"option", "config">>
Unknown == <<"option", "unknown">>

(* -f and -d take no argument: they set foreground and the debug level.    *)
Flags == {<<"daemon", "foreground">>, <<"daemon", "log_level">>}

Lines == [header : {TRUE}, name : Sections, to : {0}]
         \cup [header : {FALSE}, name : Keys, to : Values]
Texts == UNION {[1 .. n -> Lines] : n \in 0 .. MaxLines}

(* What an argument is for, the value it gives, the file it names. *)
Arguments ==
  [set : Options \ Flags, to : Values, file : {<< >>}]
  \cup [set : Flags, to : {1}, file : {<< >>}]
  \cup [set : {ConfigFile}, to : {0}, file : Texts]
  \cup [set : {Unknown}, to : {0}, file : {<< >>}]

VARIABLES
  configPhase,     \* "scan", "file", "args", "done", "rejected"
  cfg,             \* qmem_config_t
  configArgs,      \* argv, as far as the first pass has read it
  configFile,      \* the argument config_file points to, 0: NULL
  configSection,   \* the section config_load is in
  configLines,     \* lines read so far
  configTaken      \* arguments the second pass has read

configVars == <<configPhase, cfg, configArgs, configFile, configSection, configLines,
                configTaken>>

NoSection == ""

ConfigTypeOK ==
  /\ configPhase \in {"scan", "file", "args", "done", "rejected"}
  /\ cfg \in [Settings -> Values]
  /\ Len(configArgs) <= MaxArgs
  /\ \A k \in 1 .. Len(configArgs) : configArgs[k] \in Arguments
  /\ configFile \in 0 .. Len(configArgs)
  /\ configSection \in Sections \cup {NoSection}
  /\ configLines \in 0 .. MaxLines
  /\ configTaken \in 0 .. Len(configArgs)

(* config_init_defaults, and config_parse_args is entered. *)
ConfigInit ==
  /\ configPhase = "scan"
  /\ cfg = [s \in Settings |-> 0]
  /\ configArgs = << >> /\ configFile = 0
  /\ configSection = NoSection /\ configLines = 0
  /\ configTaken = 0

\* A slip: -c is looked for in front of the other options only.
ScanArgumentLeading(a) ==
  /\ configPhase = "scan" /\ Len(configArgs) < MaxArgs
  /\ configArgs' = Append(configArgs, a)
  /\ configFile' = IF a.set = ConfigFile /\ configFile = Len(configArgs)
                   THEN Len(configArgs) + 1 ELSE configFile
  /\ UNCHANGED <<configPhase, cfg, configSection, configLines, configTaken>>

(* The first pass, one argument: what -c names is kept, all else ignored,  *)
(* errors too.                                                             *)
ScanArgument(a) ==
  /\ configPhase = "scan" /\ Len(configArgs) < MaxArgs
  /\ configArgs' = Append(configArgs, a)
  /\ configFile' = IF a.set = ConfigFile THEN Len(configArgs) + 1 ELSE configFile
  /\ UNCHANGED <<configPhase, cfg, configSection, configLines, configTaken>>

(* The first pass ends; the file is loaded if one was named. *)
EndOfScan ==
  /\ configPhase = "scan"
  /\ configPhase' = IF configFile # 0 THEN "file" ELSE "args"
  /\ UNCHANGED <<cfg, configArgs, configFile, configSection, configLines, configTaken>>

LoadedText == configArgs[configFile].file

(* The settings a key of a section assigns. *)
Sets(s, k) == {x \in Known : x = <<s, k>>}

(* config_load, one line: a section header, or key = value.  An unknown    *)
(* key is ignored; a log_level that is not one of the four names is        *)
(* ignored in the same way.                                                *)
ReadLine ==
  /\ configPhase = "file" /\ configLines < Len(LoadedText)
  /\ configLines' = configLines + 1
  /\ LET line == LoadedText[configLines + 1]
     IN  IF line.header
         THEN configSection' = line.name /\ cfg' = cfg
         ELSE /\ cfg' = [x \in Settings |-> IF x \in Sets(configSection, line.name)
                                           THEN line.to ELSE cfg[x]]
              /\ configSection' = configSection
  /\ UNCHANGED <<configPhase, configArgs, configFile, configTaken>>

EndOfFile ==
  /\ configPhase = "file" /\ configLines = Len(LoadedText)
  /\ configPhase' = "args"
  /\ UNCHANGED <<cfg, configArgs, configFile, configSection, configLines, configTaken>>

(* The second pass, one argument: an option is applied, -c passed over;    *)
(* -h or an unknown option ends the process.                               *)
TakeArgument ==
  /\ configPhase = "args" /\ configTaken < Len(configArgs)
  /\ configTaken' = configTaken + 1
  /\ LET a == configArgs[configTaken + 1]
     IN  /\ configPhase' = IF a.set = Unknown THEN "rejected" ELSE "args"
         /\ cfg' = IF a.set \in Options THEN [cfg EXCEPT ![a.set] = a.to] ELSE cfg
  /\ UNCHANGED <<configArgs, configFile, configSection, configLines>>

(* config_parse_args returns 0. *)
EndOfArgs ==
  /\ configPhase = "args" /\ configTaken = Len(configArgs)
  /\ configPhase' = "done"
  /\ UNCHANGED <<cfg, configArgs, configFile, configSection, configLines, configTaken>>

(* Nothing more happens to the configuration. *)
ConfigDone == configPhase \in {"done", "rejected"} /\ UNCHANGED configVars

ConfigNext ==
  \/ \E a \in Arguments : ScanArgument(a)
  \/ EndOfScan \/ ReadLine \/ EndOfFile \/ TakeArgument \/ EndOfArgs
  \/ ConfigDone

ConfigSpec == ConfigInit /\ [][ConfigNext]_configVars

-----------------------------------------------------------------------------
(* What a setting should be, read off the arguments and the files alone.   *)

(* Which of the first n arguments give x. *)
Given(x, n) == {k \in 1 .. n : configArgs[k].set = x}

(* The text of the file asked for: the last -c counts, wherever it stands. *)
AskedText ==
  LET given == Given(ConfigFile, Len(configArgs))
  IN  IF given = {} THEN << >> ELSE configArgs[Max(given)].file

(* The section line n of a text stands in. *)
SectionOf(text, n) ==
  LET headers == {i \in 1 .. n : text[i].header}
  IN  IF headers = {} THEN NoSection ELSE text[Max(headers)].name

(* The lines that set x, among the first n of a text. *)
Stated(text, x, n) ==
  {i \in 1 .. n : ~text[i].header /\ x = <<SectionOf(text, i), text[i].name>>}

StatedValue(text, x, n) ==
  IF Stated(text, x, n) = {} THEN 0 ELSE text[Max(Stated(text, x, n))].to

(* The last option that sets x, else the last line of the file under its   *)
(* section, else the default.                                              *)
Intended(x) ==
  LET given == Given(x, Len(configArgs))
  IN  IF given # {} THEN configArgs[Max(given)].to
      ELSE StatedValue(AskedText, x, Len(AskedText))

(* When config_parse_args succeeds, every setting config_load knows is as  *)
(* intended, in whatever order -c and the other options stand on the       *)
(* command line and sections and keys in the file: options win over the    *)
(* file wherever -c is, of several -c only the last counts, a key counts   *)
(* in its own section only, the last of several wins.  The two settings of *)
(* [plugins], which config_load does not know, keep their defaults.        *)
Precedence ==
  configPhase = "done" =>
    \A x \in Settings : cfg[x] = IF x \in Known THEN Intended(x) ELSE 0

(* README.md lists the settings of a configuration file, [plugins] enabled *)
(* and dir among them (159-161): each of them should be as intended, too.  *)
DocumentedTakesEffect ==
  configPhase = "done" => \A x \in Settings : cfg[x] = Intended(x)
=============================================================================
