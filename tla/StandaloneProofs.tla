-------------------------- MODULE StandaloneProofs --------------------------
(***************************************************************************)
(* Proofs about the parts of qmem that work on their own.  Each has its    *)
(* inductive invariant; that a step of Standalone is a step of the part    *)
(* or leaves its state alone is proved once for all of them.               *)
(***************************************************************************)
EXTENDS Standalone, RingBufferProofs, Lemmas

(* A step is a step of the part, or the part's state stays. *)
LEMMA PartSteps ==
  ASSUME [Next]_vars
  PROVE  /\ RingNext \/ UNCHANGED ringVars
         /\ ConfigNext \/ UNCHANGED configVars
         /\ JsonNext \/ UNCHANGED jsonVars
         /\ FdNext \/ UNCHANGED fdVars
         /\ HeapNext \/ UNCHANGED heapVars
         /\ NetNext \/ UNCHANGED netVars
         /\ SlabNext \/ UNCHANGED slabVars
         /\ CpuNext \/ UNCHANGED cpuVars
         /\ MemNext \/ UNCHANGED memVars
         /\ SockNext \/ UNCHANGED sockVars
         /\ StatNext \/ UNCHANGED statVars
         /\ EvNext \/ UNCHANGED evVars
         /\ LeakNext \/ UNCHANGED leakVars
         /\ CmdNext \/ UNCHANGED cmdVars
<1>1. CASE UNCHANGED vars
  BY <1>1, Zenon DEF vars
<1>2. CASE Next
  BY <1>2, Zenon DEF Next, OwnedBy
<1> QED BY <1>1, <1>2, Zenon

-----------------------------------------------------------------------------
(* meminfo: the numbers are numbers. *)
MemNumbers ==
  /\ memCurrent \in [MemFields -> Int]
  /\ memPrevious \in [MemFields -> Int]

MemInv == MemNumbers /\ memReported = memCurrent

(* What parse_meminfo returns. *)
LEMMA ParseType ==
  ASSUME NEW text \in MemTexts
  PROVE  ParseMeminfo(text) \in [MemFields -> Int]
<1>1. PICK F \in SUBSET MemFields : text \in [F -> Kilobytes]
  BY DEF MemTexts
<1>2. ASSUME NEW f \in F PROVE text[f] \in Int
  <2>1. text[f] \in Kilobytes
    BY <1>1, <1>2
  <2>2. \A x \in Kilobytes : x \in Int
    BY MemInfoAssumption
  <2> QED BY <2>1, <2>2
<1>3. ASSUME NEW f \in MemFields
      PROVE  (IF f \in DOMAIN text THEN text[f] ELSE 0) \in Int
  BY <1>1, <1>2
<1> QED BY <1>3 DEF ParseMeminfo

(* A collection preserves MemInv: its delta is the value now less the one  *)
(* before, which is what has been reported so far.                         *)
LEMMA MemStep ==
  ASSUME MemInv, MemNext
  PROVE  MemInv'
<1>1. PICK text \in MemTexts, ok \in BOOLEAN : MemCollect(text, ok)
  BY DEF MemNext
<1>2. memCurrent' \in [MemFields -> Int]
  BY <1>1, ParseType DEF MemCollect, MemInv, MemNumbers
<1>3. memPrevious' = memCurrent /\ memHasPrevious' = TRUE
  BY <1>1 DEF MemCollect
<1>4. memReported' = [f \in MemFields |-> memReported[f] + (memCurrent'[f] - memPrevious'[f])]
  BY <1>3 DEF MemNext, MemDelta
<1>5. ASSUME NEW f \in MemFields
      PROVE  memReported[f] + (memCurrent'[f] - memPrevious'[f]) = memCurrent'[f]
  <2>1. memCurrent[f] \in Int /\ memCurrent'[f] \in Int
    BY <1>2 DEF MemInv, MemNumbers
  <2> QED BY <2>1, <1>3 DEF MemInv
<1>6. memReported' = memCurrent'
  BY <1>2, <1>4, <1>5
<1> QED BY <1>2, <1>3, <1>6 DEF MemInv, MemNumbers

(* The deltas meminfo_snapshot shows add up to the value shown, for any    *)
(* fields and values and whichever readings fail.                          *)
THEOREM DeltasAddUpHolds == Spec => []DeltasAddUp
<1>1. Init => MemInv
  BY DEF Init, MemInit, MemInv, MemNumbers, NoMemory
<1>2. MemInv /\ [Next]_vars => MemInv'
  <2>1. CASE UNCHANGED memVars
    BY <2>1 DEF memVars, MemInv, MemNumbers
  <2> QED BY <2>1, MemStep, PartSteps
<1>3. MemInv => DeltasAddUp
  BY DEF MemInv, DeltasAddUp
<1> QED BY <1>1, <1>2, <1>3, PTL DEF Spec

-----------------------------------------------------------------------------
(* netstat: the time of the last collection is that of the last reading,   *)
(* the counters are numbers, and every rate is one of the two readings.    *)
NetNumbers == \A i \in DOMAIN netCurrent : netCurrent[i].bytes \in Int

NetInv ==
  /\ NetNumbers
  /\ lastCollect = reading.now
  /\ RateSpansReadings

(* A reading that succeeds compares with what the last one left. *)
LEMMA NetStep ==
  ASSUME NetInv, NetNext
  PROVE  NetInv'
<1>1. PICK now \in Times :
        (\E file \in NetFiles : NetCollect(file, now)) \/ NetCollectFailed(now)
  BY DEF NetNext
<1>2. CASE NetCollectFailed(now)
  BY <1>2 DEF NetCollectFailed, NetInv, NetNumbers, RateSpansReadings
<1>3. ASSUME NEW file \in NetFiles, NetCollect(file, now)
      PROVE  NetInv'
  <2>1. PICK I \in SUBSET Ifaces : file \in [I -> Bytes]
    BY DEF NetFiles
  <2>2. DOMAIN netCurrent' \subseteq I /\ netPrevious' = netCurrent
    <3>1. DOMAIN file = I /\ DOMAIN netCurrent' = Visible(DOMAIN file)
      BY <1>3, <2>1 DEF NetCollect
    <3> QED BY <1>3, <3>1 DEF NetCollect, Visible
  <2>3. /\ reading'.bytes = [i \in DOMAIN netCurrent |-> netCurrent[i].bytes]
        /\ reading'.at = reading.now /\ reading'.now = now /\ lastCollect' = now
    BY <1>3 DEF NetCollect
  <2>4. ASSUME NEW i \in DOMAIN netCurrent'
        PROVE  /\ netCurrent'[i] = NetChange(netCurrent, i, file[i], now)
               /\ file[i] \in Int
    <3>1. i \in Visible(DOMAIN file) /\ file[i] \in Bytes
      BY <1>3, <2>1, <2>2 DEF NetCollect
    <3>2. netCurrent'[i] = NetChange(netPrevious', i, file[i], now)
      BY <1>3, <3>1 DEF NetCollect
    <3>3. \A x \in Bytes : x \in Int
      BY NetStatAssumption
    <3> QED BY <2>2, <3>1, <3>2, <3>3
  <2>5. NetNumbers'
    BY <2>4 DEF NetChange, NetNumbers
  <2>6. ASSUME NEW i \in DOMAIN netCurrent', netCurrent'[i].seconds # 0
        PROVE  /\ i \in DOMAIN reading'.bytes
               /\ netCurrent'[i].delta = netCurrent'[i].bytes - reading'.bytes[i]
               /\ netCurrent'[i].seconds = Max({reading'.now - reading'.at, 1})
    <3>1. netHasPrevious /\ i \in DOMAIN netCurrent
      BY <2>4, <2>6 DEF NetChange
    <3>2. netCurrent'[i] = [bytes |-> file[i], delta |-> file[i] - netCurrent[i].bytes,
                            seconds |-> Elapsed(now)]
      BY <2>4, <3>1 DEF NetChange
    <3>3. Elapsed(now) = Max({reading'.now - reading'.at, 1})
      BY <2>3 DEF Elapsed, NetInv
    <3> QED BY <2>3, <3>1, <3>2, <3>3
  <2>7. RateSpansReadings'
    BY <2>6 DEF RateSpansReadings
  <2> QED BY <2>3, <2>5, <2>7 DEF NetInv
<1> QED BY <1>1, <1>2, <1>3

(* A rate and the time it is divided by span the same two readings, the    *)
(* last two of /proc/net/dev that succeeded.                               *)
THEOREM RateSpansReadingsHolds == Spec => []RateSpansReadings
<1>1. Init => NetInv
  BY DEF Init, NetInit, NoEntries, NetInv, NetNumbers, RateSpansReadings
<1>2. NetInv /\ [Next]_vars => NetInv'
  <2>1. CASE UNCHANGED netVars
    BY <2>1 DEF netVars, NetInv, NetNumbers, RateSpansReadings
  <2> QED BY <2>1, NetStep, PartSteps
<1>3. NetInv => RateSpansReadings
  BY DEF NetInv
<1> QED BY <1>1, <1>2, <1>3, PTL DEF Spec

-----------------------------------------------------------------------------
(* config: how far the two passes and the file have brought each setting.  *)

(* An option sets something config_load knows; -c sets nothing. *)
LEMMA OptionsKnown ==
  /\ Options \subseteq Known /\ Known \subseteq Settings
  /\ ConfigFile \notin Known /\ Unknown \notin Known /\ ConfigFile # Unknown
BY DEF Options, Known, Settings, ConfigFile, Unknown

(* What a line is. *)
LEMMA LineIs ==
  ASSUME NEW l \in Lines
  PROVE  /\ l.header \in BOOLEAN /\ l.to \in Values
         /\ l.header => l.name \in Sections
<1>1. CASE l \in [header : {TRUE}, name : Sections, to : {0}]
  BY <1>1, ConfigAssumption
<1>2. CASE l \in [header : {FALSE}, name : Keys, to : Values]
  BY <1>2
<1> QED BY <1>1, <1>2 DEF Lines

(* What a text is. *)
LEMMA TextIs ==
  ASSUME NEW t \in Texts
  PROVE  /\ Len(t) \in 0 .. MaxLines
         /\ \A i \in 1 .. Len(t) : t[i] \in Lines
<1>1. PICK n \in 0 .. MaxLines : t \in [1 .. n -> Lines]
  BY DEF Texts
<1>2. n \in Nat
  BY ConfigAssumption
<1>3. Len(t) = n
  BY <1>1, <1>2
<1> QED BY <1>1, <1>3

(* What an argument is. *)
LEMMA ArgumentIs ==
  ASSUME NEW a \in Arguments
  PROVE  a.to \in Values /\ a.file \in Texts
<1>1. << >> \in Texts
  <2>1. << >> \in [1 .. 0 -> Lines] /\ 0 \in 0 .. MaxLines
    BY ConfigAssumption
  <2> QED BY <2>1 DEF Texts
<1>2. 0 \in Values /\ 1 \in Values
  BY ConfigAssumption
<1>3. CASE a \in [set : Options \ Flags, to : Values, file : {<< >>}]
  BY <1>1, <1>3
<1>4. CASE a \in [set : Flags, to : {1}, file : {<< >>}]
  BY <1>1, <1>2, <1>4
<1>5. CASE a \in [set : {ConfigFile}, to : {0}, file : Texts]
  BY <1>2, <1>5
<1>6. CASE a \in [set : {Unknown}, to : {0}, file : {<< >>}]
  BY <1>1, <1>2, <1>6
<1> QED BY <1>3, <1>4, <1>5, <1>6 DEF Arguments

(* The last of some numbers up to n, before and after n + 1 joins them. *)
LEMMA OneMore ==
  ASSUME NEW n \in Nat, NEW S \in SUBSET (1 .. n)
  PROVE  (S # {} => Max(S) \in S) /\ Max(S \cup {n + 1}) = n + 1
<1>1. S \in SUBSET Nat /\ S \in SUBSET Int /\ \A i \in S : i =< n /\ i < n + 1
  OBVIOUS
<1>2. S # {} => Max(S) \in S
  BY <1>1, MaxIsGreatest
<1>3. PICK p \in Int : p = n + 1 /\ \A i \in S : i < p
  BY <1>1
<1>4. Max(S \cup {p}) = p
  BY <1>1, <1>3, MaxOfNew
<1> QED BY <1>2, <1>3, <1>4

(* One line more of a text: a header makes the section. *)
LEMMA HeaderMore ==
  ASSUME NEW t, NEW n \in Nat, NEW x, t[n + 1].header = TRUE
  PROVE  /\ SectionOf(t, n + 1) = t[n + 1].name
         /\ StatedValue(t, x, n + 1) = StatedValue(t, x, n)
<1> DEFINE h(m) == {i \in 1 .. m : t[i].header}
<1>1. 1 .. n + 1 = (1 .. n) \cup {n + 1} /\ n + 1 \notin 1 .. n
  OBVIOUS
<1>2. h(n + 1) = h(n) \cup {n + 1} /\ h(n) \in SUBSET (1 .. n)
  BY <1>1
<1>3. Max(h(n + 1)) = n + 1 /\ h(n + 1) # {}
  <2> HIDE DEF h
  <2> QED BY <1>2, OneMore
<1>4. Stated(t, x, n + 1) = Stated(t, x, n)
  BY <1>1 DEF Stated
<1> QED BY <1>3, <1>4 DEF SectionOf, StatedValue

(* A setting is the last line that states its value. *)
LEMMA LineMore ==
  ASSUME NEW t, NEW n \in Nat, NEW x, t[n + 1].header = FALSE
  PROVE  /\ SectionOf(t, n + 1) = SectionOf(t, n)
         /\ StatedValue(t, x, n + 1) =
              IF x = <<SectionOf(t, n), t[n + 1].name>> THEN t[n + 1].to
              ELSE StatedValue(t, x, n)
<1> DEFINE h(m) == {i \in 1 .. m : t[i].header}
<1>1. 1 .. n + 1 = (1 .. n) \cup {n + 1} /\ n + 1 \notin 1 .. n
  OBVIOUS
<1>2. h(n + 1) = h(n)
  BY <1>1
<1>3. SectionOf(t, n + 1) = SectionOf(t, n)
  BY <1>2 DEF SectionOf
<1>4. CASE x = <<SectionOf(t, n), t[n + 1].name>>
  <2>1. /\ Stated(t, x, n + 1) = Stated(t, x, n) \cup {n + 1}
        /\ Stated(t, x, n) \in SUBSET (1 .. n)
    BY <1>1, <1>3, <1>4 DEF Stated
  <2>2. Max(Stated(t, x, n + 1)) = n + 1 /\ Stated(t, x, n + 1) # {}
    BY <2>1, OneMore
  <2> QED BY <1>3, <1>4, <2>2 DEF StatedValue
<1>5. CASE x # <<SectionOf(t, n), t[n + 1].name>>
  <2>1. Stated(t, x, n + 1) = Stated(t, x, n)
    BY <1>1, <1>3, <1>5 DEF Stated
  <2> QED BY <1>3, <1>5, <2>1 DEF StatedValue
<1> QED BY <1>4, <1>5

(* Where config_file points to: the last -c read. *)
FileFound ==
  LET given == Given(ConfigFile, Len(configArgs))
  IN  configFile = IF given = {} THEN 0 ELSE Max(given)

(* What the arguments and lines taken so far make of x. *)
Reached(x) ==
  IF Given(x, configTaken) # {} THEN configArgs[Max(Given(x, configTaken))].to
  ELSE StatedValue(AskedText, x, configLines)

ConfigInv ==
  /\ configPhase \in {"scan", "file", "args", "done", "rejected"}
  /\ cfg \in [Settings -> Values]
  /\ configArgs \in Seq(Arguments) /\ Len(configArgs) =< MaxArgs
  /\ configFile \in 0 .. Len(configArgs) /\ FileFound
  /\ configSection \in Sections \cup {NoSection}
  /\ configLines \in 0 .. Len(AskedText) /\ configTaken \in 0 .. Len(configArgs)
  /\ configPhase = "scan" => configLines = 0 /\ configSection = NoSection
  /\ configPhase = "file" =>
       configFile # 0 /\ configSection = SectionOf(AskedText, configLines)
  /\ configPhase \in {"scan", "file"} => configTaken = 0
  /\ configPhase \in {"args", "done"} => configLines = Len(AskedText)
  /\ configPhase = "done" => configTaken = Len(configArgs)
  /\ \A x \in Known : cfg[x] = Reached(x)
  /\ \A x \in Settings \ Known : cfg[x] = 0

(* The text that is loaded is the one asked for. *)
LEMMA AskedIsLoaded ==
  ASSUME ConfigInv
  PROVE  /\ AskedText = IF configFile = 0 THEN << >> ELSE LoadedText
         /\ AskedText \in Texts
<1> DEFINE G == Given(ConfigFile, Len(configArgs))
<1>1. configArgs \in Seq(Arguments) /\ Len(configArgs) \in Nat
      /\ configFile = IF G = {} THEN 0 ELSE Max(G)
  BY DEF ConfigInv, FileFound
<1>2. G \in SUBSET (1 .. Len(configArgs))
  BY DEF Given
<1>3. CASE G = {}
  <2>1. << >> \in [1 .. 0 -> Lines] /\ 0 \in 0 .. MaxLines
    BY ConfigAssumption
  <2>2. << >> \in Texts
    BY <2>1 DEF Texts
  <2> QED BY <1>1, <1>3, <2>2 DEF AskedText
<1>4. CASE G # {}
  <2>1. configFile \in G
    <3> HIDE DEF G
    <3> QED BY <1>1, <1>2, <1>4, OneMore
  <2>2. configFile \in 1 .. Len(configArgs) /\ configFile # 0
    BY <1>1, <1>2, <2>1
  <2>3. configArgs[configFile] \in Arguments
    BY <1>1, <2>2
  <2>4. AskedText = LoadedText
    BY <1>1, <1>4 DEF AskedText, LoadedText
  <2> QED BY <2>2, <2>3, <2>4, ArgumentIs DEF LoadedText
<1> QED BY <1>3, <1>4

(* Nothing has been taken: the defaults. *)
LEMMA NothingReached ==
  ASSUME NEW t, NEW x
  PROVE  Given(x, 0) = {} /\ SectionOf(t, 0) = NoSection /\ StatedValue(t, x, 0) = 0
<1>1. 1 .. 0 = {}
  OBVIOUS
<1>2. \A i \in 1 .. 0 : FALSE
  OBVIOUS
<1> QED BY <1>1, <1>2 DEF Given, SectionOf, StatedValue, Stated

(* The first pass meets an argument. *)
LEMMA ScanStep ==
  ASSUME ConfigInv, NEW a \in Arguments, ScanArgument(a)
  PROVE  ConfigInv'
<1> DEFINE n == Len(configArgs)
<1>1. /\ configPhase = "scan" /\ configPhase' = "scan" /\ n < MaxArgs
      /\ configArgs' = Append(configArgs, a)
      /\ configFile' = IF a.set = ConfigFile THEN n + 1 ELSE configFile
      /\ UNCHANGED <<cfg, configSection, configLines, configTaken>>
      /\ configLines = 0 /\ configTaken = 0 /\ configSection = NoSection
      /\ configFile \in 0 .. n
  BY DEF ScanArgument, ConfigInv
<1>2. configArgs \in Seq(Arguments) /\ n \in Nat
  BY DEF ConfigInv
<1>3. /\ configArgs' \in Seq(Arguments) /\ Len(configArgs') = n + 1
      /\ configArgs'[n + 1] = a
      /\ \A i \in 1 .. n : configArgs'[i] = configArgs[i]
  BY <1>1, <1>2
<1>4. /\ Given(ConfigFile, n) \in SUBSET (1 .. n)
      /\ Given(ConfigFile, Len(configArgs))' =
           IF a.set = ConfigFile THEN Given(ConfigFile, n) \cup {n + 1}
           ELSE Given(ConfigFile, n)
  <2>1. 1 .. n + 1 = (1 .. n) \cup {n + 1}
    BY <1>2
  <2> QED BY <1>3, <2>1 DEF Given
<1>5. FileFound'
  <2> DEFINE G == Given(ConfigFile, n)
  <2>1. configFile = IF G = {} THEN 0 ELSE Max(G)
    BY DEF ConfigInv, FileFound
  <2>2. Max(G \cup {n + 1}) = n + 1
    <3> HIDE DEF G, n
    <3> QED BY <1>2, <1>4, OneMore DEF G
  <2>3. FileFound' <=> configFile' = IF Given(ConfigFile, Len(configArgs))' = {} THEN 0
                                     ELSE Max(Given(ConfigFile, Len(configArgs))')
    BY DEF FileFound
  <2> QED BY <1>1, <1>4, <2>1, <2>2, <2>3
<1>6. /\ configFile' \in 0 .. Len(configArgs') /\ Len(configArgs') =< MaxArgs
      /\ configTaken' \in 0 .. Len(configArgs')
  BY <1>1, <1>2, <1>3, ConfigAssumption
<1>7. ASSUME NEW x \in Known PROVE cfg'[x] = Reached(x)'
  <2>1. cfg[x] = 0
    BY <1>1, NothingReached DEF ConfigInv, Reached
  <2>2. Given(x, 0)' = {} /\ StatedValue(AskedText', x, 0) = 0
    <3>1. \A i \in 1 .. 0 : FALSE
      OBVIOUS
    <3> QED BY <3>1, NothingReached DEF Given
  <2>3. Reached(x)' = 0
    BY <1>1, <2>2 DEF Reached
  <2> QED BY <1>1, <2>1, <2>3
<1>8. 0 \in 0 .. Len(AskedText')
  <2>1. AskedText' = << >> \/ AskedText' \in Texts
    <3> DEFINE G == Given(ConfigFile, Len(configArgs))'
    <3>1. AskedText' = IF G = {} THEN << >> ELSE configArgs'[Max(G)].file
      BY DEF AskedText
    <3>2. G \in SUBSET (1 .. n + 1) /\ n + 1 \in Nat
      BY <1>2, <1>3 DEF Given
    <3>3. G # {} => configArgs'[Max(G)] \in Arguments
      <4> SUFFICES ASSUME G # {} PROVE configArgs'[Max(G)] \in Arguments
        OBVIOUS
      <4>1. Max(G) \in 1 .. n + 1
        <5> HIDE DEF G
        <5>1. PICK m \in Nat : m = n + 1
          BY <3>2
        <5> QED BY <3>2, <5>1, OneMore
      <4> QED BY <1>3, <4>1
    <3> QED BY <3>1, <3>3, ArgumentIs
  <2> QED BY <2>1, TextIs
<1>9. ConfigInv' <=>
        /\ FileFound' /\ configLines' \in 0 .. Len(AskedText')
        /\ \A x \in Known : cfg'[x] = Reached(x)'
  BY <1>1, <1>3, <1>6 DEF ConfigInv
<1> QED BY <1>1, <1>5, <1>7, <1>8, <1>9

(* config_load reads a line. *)
LEMMA LineStep ==
  ASSUME ConfigInv, ReadLine
  PROVE  ConfigInv'
<1> DEFINE t == AskedText
           n == configLines
<1>1. /\ configPhase = "file" /\ configPhase' = "file" /\ configFile # 0
      /\ configTaken = 0 /\ configSection = SectionOf(t, n)
      /\ UNCHANGED <<configArgs, configFile, configTaken>>
      /\ cfg \in [Settings -> Values] /\ configSection \in Sections \cup {NoSection}
  BY DEF ReadLine, ConfigInv
<1>2. t = LoadedText /\ t \in Texts /\ AskedText' = t
  <2>1. AskedText' = AskedText
    BY <1>1 DEF AskedText, Given
  <2> QED BY <1>1, <2>1, AskedIsLoaded
<1> DEFINE l == t[n + 1]
<1>3. n < Len(t) /\ configLines' = n + 1 /\ n \in Nat /\ n + 1 \in 1 .. Len(t)
  BY <1>2 DEF ReadLine, ConfigInv
<1>4. l \in Lines
  BY <1>2, <1>3, TextIs
<1>5. IF l.header
      THEN configSection' = l.name /\ cfg' = cfg
      ELSE /\ cfg' = [x \in Settings |-> IF x \in Sets(configSection, l.name)
                                         THEN l.to ELSE cfg[x]]
           /\ configSection' = configSection
  BY <1>2 DEF ReadLine
<1> HIDE DEF t, l
<1>6. l.header \in BOOLEAN /\ l.to \in Values /\ (l.header => l.name \in Sections)
  BY <1>4, LineIs
<1>7. /\ cfg' \in [Settings -> Values] /\ configSection' \in Sections \cup {NoSection}
      /\ \A x \in Settings \ Known : cfg'[x] = cfg[x]
  BY <1>1, <1>5, <1>6 DEF Sets
<1>8. configSection' = SectionOf(t, n + 1)
  <2>1. CASE t[n + 1].header = TRUE
    BY <1>3, <1>5, <2>1, HeaderMore DEF l
  <2>2. CASE t[n + 1].header = FALSE
    BY <1>1, <1>3, <1>5, <2>2, LineMore DEF l
  <2> QED BY <1>6, <2>1, <2>2 DEF l
<1>9. ASSUME NEW x \in Known PROVE cfg'[x] = StatedValue(t, x, n + 1)
  <2>1. cfg[x] = StatedValue(t, x, n) /\ x \in Settings
    BY <1>1, NothingReached, OptionsKnown DEF ConfigInv, Reached, t
  <2>2. CASE l.header
    <3>1. t[n + 1].header = TRUE
      BY <1>6, <2>2 DEF l
    <3>2. StatedValue(t, x, n + 1) = StatedValue(t, x, n)
      BY <1>3, <3>1, HeaderMore
    <3>3. cfg' = cfg
      BY <1>5, <2>2
    <3> QED BY <2>1, <3>2, <3>3
  <2>3. CASE ~l.header
    <3>1. cfg'[x] = IF x = <<configSection, l.name>> THEN l.to ELSE cfg[x]
      BY <1>5, <2>1, <2>3 DEF Sets
    <3>2. StatedValue(t, x, n + 1) = IF x = <<SectionOf(t, n), l.name>> THEN l.to
                                     ELSE StatedValue(t, x, n)
      <4>1. t[n + 1].header = FALSE
        BY <1>6, <2>3 DEF l
      <4> QED BY <1>3, <4>1, LineMore DEF l
    <3> QED BY <1>1, <2>1, <3>1, <3>2
  <2> QED BY <1>6, <2>2, <2>3
<1>10. ASSUME NEW x \in Known PROVE cfg'[x] = Reached(x)'
  <2>1. Given(x, 0)' = {}
    <3>1. \A i \in 1 .. 0 : FALSE
      OBVIOUS
    <3> QED BY <3>1 DEF Given
  <2>2. Reached(x)' = StatedValue(t, x, n + 1)
    BY <1>1, <1>2, <1>3, <2>1 DEF Reached, t
  <2> QED BY <1>9, <2>2
<1>11. FileFound'
  BY <1>1 DEF ConfigInv, FileFound, Given
<1>12. configLines' \in 0 .. Len(AskedText')
  BY <1>2, <1>3 DEF t
<1>13. configSection' = SectionOf(AskedText', configLines')
  BY <1>2, <1>3, <1>8 DEF t
<1>14. \A x \in Settings \ Known : cfg'[x] = 0
  BY <1>7 DEF ConfigInv
<1> QED BY <1>1, <1>7, <1>10, <1>11, <1>12, <1>13, <1>14 DEF ConfigInv

(* The second pass meets an argument. *)
LEMMA TakeStep ==
  ASSUME ConfigInv, TakeArgument
  PROVE  ConfigInv'
<1> DEFINE n == configTaken
           a == configArgs[n + 1]
<1>1. /\ configPhase = "args" /\ n < Len(configArgs) /\ configTaken' = n + 1
      /\ configPhase' \in {"args", "rejected"}
      /\ cfg' = IF a.set \in Options THEN [cfg EXCEPT ![a.set] = a.to] ELSE cfg
      /\ UNCHANGED <<configArgs, configFile, configSection, configLines>>
  BY DEF TakeArgument
<1>2. /\ configArgs \in Seq(Arguments) /\ n \in Nat /\ n + 1 \in 1 .. Len(configArgs)
      /\ cfg \in [Settings -> Values]
  BY <1>1 DEF ConfigInv
<1>3. a \in Arguments
  BY <1>2
<1> HIDE DEF a
<1>4. a.to \in Values
  BY <1>3, ArgumentIs
<1>5. /\ cfg' \in [Settings -> Values]
      /\ \A x \in Settings : cfg'[x] = IF x = a.set /\ x \in Options THEN a.to ELSE cfg[x]
  BY <1>1, <1>2, <1>4, OptionsKnown
<1>6. AskedText' = AskedText /\ FileFound'
  BY <1>1 DEF AskedText, Given, ConfigInv, FileFound
<1>7. ASSUME NEW x \in Known PROVE cfg'[x] = Reached(x)'
  <2>1. /\ Given(x, n) \in SUBSET (1 .. n)
        /\ Given(x, configTaken)' = IF a.set = x THEN Given(x, n) \cup {n + 1}
                                    ELSE Given(x, n)
    <3>1. 1 .. n + 1 = (1 .. n) \cup {n + 1}
      BY <1>2
    <3> QED BY <1>1, <3>1 DEF Given, a
  <2>2. x \in Settings /\ cfg[x] = Reached(x)
    BY OptionsKnown DEF ConfigInv
  <2>3. CASE a.set = x
    <3>1. x \in Options
      BY <1>3, <2>3, OptionsKnown DEF Arguments, Flags, Options
    <3>2. Max(Given(x, n) \cup {n + 1}) = n + 1
      BY <1>2, <2>1, OneMore
    <3>3. Reached(x)' = a.to
      BY <1>1, <2>1, <2>3, <3>2 DEF Reached, a
    <3> QED BY <1>5, <2>2, <2>3, <3>1, <3>3
  <2>4. CASE a.set # x
    <3>1. Reached(x)' = Reached(x)
      BY <1>1, <1>6, <2>1, <2>4 DEF Reached
    <3> QED BY <1>5, <2>2, <2>4, <3>1
  <2> QED BY <2>3, <2>4
<1>8. configTaken' \in 0 .. Len(configArgs') /\ configLines' \in 0 .. Len(AskedText')
  BY <1>1, <1>2, <1>6 DEF ConfigInv
<1>9. \A x \in Settings \ Known : cfg'[x] = 0
  BY <1>5, OptionsKnown DEF ConfigInv
<1>10. configPhase' = "args" => configLines' = Len(AskedText')
  BY <1>1, <1>6 DEF ConfigInv
<1> QED BY <1>1, <1>2, <1>5, <1>6, <1>7, <1>8, <1>9, <1>10 DEF ConfigInv

(* The steps between the passes leave all but the phase alone. *)
LEMMA PhaseStep ==
  ASSUME ConfigInv, EndOfScan \/ EndOfFile \/ EndOfArgs
  PROVE  ConfigInv'
<1>1. UNCHANGED <<cfg, configArgs, configFile, configSection, configLines, configTaken>>
  BY DEF EndOfScan, EndOfFile, EndOfArgs
<1>2. AskedText' = AskedText /\ FileFound' = FileFound /\ \A x \in Known : Reached(x)' = Reached(x)
  BY <1>1 DEF AskedText, FileFound, Reached, Given
<1>3. AskedText = IF configFile = 0 THEN << >> ELSE LoadedText
  BY AskedIsLoaded
<1>4. /\ configPhase' \in {"file", "args", "done"}
      /\ configPhase' = "file" =>
           /\ configFile # 0 /\ configTaken = 0
           /\ configSection = SectionOf(AskedText, configLines)
      /\ configPhase' \in {"args", "done"} => configLines = Len(AskedText)
      /\ configPhase' = "done" => configTaken = Len(configArgs)
  <2>1. CASE EndOfScan
    <3>1. /\ configLines = 0 /\ configTaken = 0 /\ configSection = NoSection
          /\ configPhase' = IF configFile # 0 THEN "file" ELSE "args"
      BY <2>1 DEF EndOfScan, ConfigInv
    <3>2. Len(<< >>) = 0
      OBVIOUS
    <3> QED BY <1>3, <3>1, <3>2, NothingReached
  <2>2. CASE EndOfFile
    BY <1>3, <2>2 DEF EndOfFile, ConfigInv
  <2>3. CASE EndOfArgs
    BY <2>3 DEF EndOfArgs, ConfigInv
  <2> QED BY <2>1, <2>2, <2>3
<1> QED BY <1>1, <1>2, <1>4 DEF ConfigInv

(* All of it together. *)
LEMMA ConfigAlways == Spec => []ConfigInv
<1>1. Init => ConfigInv
  <2> SUFFICES ASSUME ConfigInit PROVE ConfigInv
    BY DEF Init
  <2>1. /\ configPhase = "scan" /\ cfg \in [Settings -> Values] /\ configArgs = << >>
        /\ \A x \in Settings : cfg[x] = 0
        /\ configFile = 0 /\ configSection = NoSection /\ configLines = 0 /\ configTaken = 0
    BY ConfigAssumption DEF ConfigInit
  <2>2. Len(configArgs) = 0 /\ configArgs \in Seq(Arguments)
    BY <2>1
  <2>3. FileFound /\ AskedText = << >>
    BY <2>1, <2>2, NothingReached DEF FileFound, AskedText
  <2>4. \A x \in Known : cfg[x] = Reached(x)
    BY <2>1, NothingReached, OptionsKnown DEF Reached
  <2> QED BY <2>1, <2>2, <2>3, <2>4, ConfigAssumption DEF ConfigInv
<1>2. ConfigInv /\ [Next]_vars => ConfigInv'
  <2> SUFFICES ASSUME ConfigInv, ConfigNext \/ UNCHANGED configVars PROVE ConfigInv'
    BY PartSteps
  <2>1. CASE UNCHANGED configVars
    BY <2>1 DEF configVars, ConfigInv, FileFound, AskedText, Reached, Given
  <2>2. CASE ConfigDone
    BY <2>1, <2>2 DEF ConfigDone
  <2> QED BY <2>1, <2>2, ScanStep, LineStep, TakeStep, PhaseStep DEF ConfigNext
<1> QED BY <1>1, <1>2, PTL DEF Spec

(* Every setting ends up as intended, for any sections, keys and values,   *)
(* any number of lines, files and arguments, wherever -c stands among      *)
(* them; only the two of [plugins] stay as they were.                      *)
THEOREM PrecedenceHolds == Spec => []Precedence
<1>1. ConfigInv => Precedence
  <2> SUFFICES ASSUME ConfigInv, configPhase = "done"
               PROVE  \A x \in Settings : cfg[x] = IF x \in Known THEN Intended(x) ELSE 0
    BY DEF Precedence
  <2>1. configTaken = Len(configArgs) /\ configLines = Len(AskedText)
    BY DEF ConfigInv
  <2>2. \A x \in Known : Reached(x) = Intended(x)
    BY <2>1 DEF Reached, Intended
  <2> QED BY <2>2 DEF ConfigInv
<1> QED BY <1>1, ConfigAlways, PTL

(* The configuration: settings have values, sections are known or none. *)
LEMMA ConfigTyped == Spec => []ConfigTypeOK
<1>1. ConfigInv => ConfigTypeOK
  <2> SUFFICES ASSUME ConfigInv PROVE ConfigTypeOK
    OBVIOUS
  <2>1. configLines \in 0 .. Len(AskedText) /\ Len(AskedText) \in 0 .. MaxLines
    BY AskedIsLoaded, TextIs DEF ConfigInv
  <2>2. PICK m \in Nat : m = Len(AskedText) /\ m =< MaxLines
    BY <2>1, ConfigAssumption
  <2>3. configLines \in 0 .. MaxLines
    BY <2>1, <2>2, ConfigAssumption
  <2> QED BY <2>3 DEF ConfigInv, ConfigTypeOK
<1> QED BY <1>1, ConfigAlways, PTL

-----------------------------------------------------------------------------
(* sockstat: the slots and what the scan has met. *)
SockNumbers ==
  /\ socketCount \in 0 .. MaxSockets
  /\ sockets \in [1 .. MaxSockets -> Socket]
  /\ sockTodo \subseteq SockPids
  /\ sockHeld \in [Inodes -> SUBSET SockPids]
  /\ DOMAIN sockSummary = {"tcp", "others"}
  /\ sockSummary.tcp = socketCount

(* The holders met so far come before the processes still to be scanned. *)
ScanAscends == \A i \in Inodes : \A h \in sockHeld[i], p \in sockTodo : h < p

(* Slot i is as OwnersOfThisScan says. *)
SlotOwned(i) ==
  LET s == sockets[i]
      holders == sockHeld[s.inode]
  IN  /\ s.inode \in Inodes /\ s.inode = sockTable[i]
      /\ s.pid = IF holders = {} THEN 0 ELSE Max(holders)
      /\ s.cmd \in holders \cup {0}

SockInv ==
  /\ SockNumbers /\ ScanAscends
  /\ \A x \in ToSet(sockTable) : x \in Inodes
  /\ \A i \in 1 .. socketCount : SlotOwned(i)

(* What the slots look like when the table was read. *)
LEMMA SockBeginStep ==
  ASSUME SockInv, NEW table \in SockTables, NEW procOk \in BOOLEAN,
         SockBeginCollect(table, procOk)
  PROVE  SockInv'
<1> DEFINE n == Min({Len(table), MaxSockets})
<1>1. PICK m \in 0 .. MaxSockets + 1 : table \in [1 .. m -> Inodes]
  BY DEF SockTables, SeqOf
<1>2. Len(table) = m /\ m \in Nat /\ MaxSockets \in Nat
  BY <1>1, SockStatAssumption
<1>3. n \in 0 .. MaxSockets /\ n =< m
  BY <1>2, MinOfTwo
<1> HIDE DEF n
<1>4. /\ socketCount' = n /\ sockTable' = table
      /\ sockSummary' = [tcp |-> n, others |-> 0]
      /\ sockHeld' = [i \in Inodes |-> {}]
      /\ sockTodo' \subseteq SockPids
      /\ sockets' = [i \in 1 .. MaxSockets |->
                       IF i <= n THEN Store(sockets[i], table[i]) ELSE sockets[i]]
  BY DEF SockBeginCollect, n
<1>5. ASSUME NEW i \in 1 .. MaxSockets, i <= n
      PROVE  /\ sockets'[i] = [inode |-> table[i], pid |-> 0, cmd |-> 0]
             /\ table[i] \in Inodes
  BY <1>1, <1>2, <1>3, <1>4, <1>5 DEF Store
<1>6. ASSUME NEW i \in 1 .. MaxSockets PROVE sockets'[i] \in Socket
  <2>1. CASE i <= n
    <3>1. sockets'[i] = [inode |-> table[i], pid |-> 0, cmd |-> 0] /\ table[i] \in Inodes
      BY <1>5, <2>1
    <3>2. \A y \in Inodes : [inode |-> y, pid |-> 0, cmd |-> 0] \in Socket
      BY DEF Socket
    <3> QED BY <3>1, <3>2
  <2>2. CASE ~(i <= n)
    BY <1>4, <2>2 DEF SockInv, SockNumbers
  <2> QED BY <2>1, <2>2
<1>7. sockets' \in [1 .. MaxSockets -> Socket]
  BY <1>4, <1>6
<1>8. SockNumbers'
  BY <1>3, <1>4, <1>7 DEF SockNumbers
<1>9. ScanAscends'
  BY <1>4 DEF ScanAscends
<1>10. ASSUME NEW i \in 1 .. socketCount' PROVE SlotOwned(i)'
  <2>1. i \in 1 .. MaxSockets /\ i <= n
    BY <1>2, <1>3, <1>4
  <2>2. sockets'[i] = [inode |-> table[i], pid |-> 0, cmd |-> 0] /\ table[i] \in Inodes
    BY <1>5, <2>1
  <2>3. /\ sockets'[i].inode = table[i] /\ sockets'[i].pid = 0 /\ sockets'[i].cmd = 0
        /\ sockHeld'[table[i]] = {}
    BY <1>4, <2>2
  <2> QED BY <1>4, <2>2, <2>3 DEF SlotOwned
<1>11. \A x \in ToSet(table) : x \in Inodes
  BY <1>1 DEF ToSet
<1> QED BY <1>4, <1>8, <1>9, <1>10, <1>11 DEF SockInv

(* A process that is scanned comes after all holders met so far, so it is  *)
(* the last holder of what it holds.                                       *)
LEMMA MapStep ==
  ASSUME SockInv, NEW held \in SUBSET ToSet(sockTable), NEW named \in SUBSET held,
         MapProcess(held, named)
  PROVE  SockInv'
<1> DEFINE p == Min(sockTodo)
<1>1. /\ sockTodo # {} /\ sockTodo' = sockTodo \ {p}
      /\ sockHeld' = [i \in Inodes |-> sockHeld[i] \cup (IF i \in held THEN {p} ELSE {})]
      /\ UNCHANGED <<socketCount, sockSummary, sockTable>>
      /\ sockets' = [i \in 1 .. MaxSockets |->
           IF i <= socketCount /\ sockets[i].inode \in held
           THEN [sockets[i] EXCEPT !.pid = p,
                                   !.cmd = IF sockets[i].inode \in named THEN p ELSE @]
           ELSE sockets[i]]
  BY DEF MapProcess
<1>2. p \in sockTodo /\ \A q \in sockTodo : p =< q
  <2>1. sockTodo \in SUBSET Nat
    BY SockStatAssumption DEF SockInv, SockNumbers
  <2> QED BY <1>1, <2>1, MinIsLeast
<1> HIDE DEF p
<1>3. p \in SockPids /\ p \in Nat \ {0} /\ \A q \in SockPids : q \in Nat \ {0}
  BY <1>2, SockStatAssumption DEF SockInv, SockNumbers
<1>4. ASSUME NEW i \in 1 .. MaxSockets
      PROVE  /\ sockets[i] \in Socket /\ sockets'[i] \in Socket
             /\ sockets'[i].inode = sockets[i].inode
             /\ i <= socketCount /\ sockets[i].inode \in held =>
                  sockets'[i].pid = p /\ sockets'[i].cmd \in {p, sockets[i].cmd}
             /\ ~(i <= socketCount /\ sockets[i].inode \in held) => sockets'[i] = sockets[i]
  <2>1. sockets[i] \in Socket
    BY DEF SockInv, SockNumbers
  <2>2. CASE i <= socketCount /\ sockets[i].inode \in held
    <3>1. CASE sockets[i].inode \in named
      <4>1. sockets'[i] = [sockets[i] EXCEPT !.pid = p, !.cmd = p]
        BY <1>1, <2>2, <3>1
      <4> QED BY <1>3, <2>1, <2>2, <4>1 DEF Socket
    <3>2. CASE sockets[i].inode \notin named
      <4>1. sockets'[i] = [sockets[i] EXCEPT !.pid = p]
        BY <1>1, <2>1, <2>2, <3>2 DEF Socket
      <4> QED BY <1>3, <2>1, <2>2, <4>1 DEF Socket
    <3> QED BY <3>1, <3>2
  <2>3. CASE ~(i <= socketCount /\ sockets[i].inode \in held)
    BY <1>1, <2>1, <2>3
  <2> QED BY <2>1, <2>2, <2>3
<1>5. SockNumbers'
  <2>1. sockets' \in [1 .. MaxSockets -> Socket]
    BY <1>1, <1>4
  <2>2. sockHeld' \in [Inodes -> SUBSET SockPids]
    BY <1>1, <1>3 DEF SockInv, SockNumbers
  <2> QED BY <1>1, <2>1, <2>2 DEF SockInv, SockNumbers
<1>6. ASSUME NEW i \in Inodes
      PROVE  sockHeld[i] \in SUBSET Int /\ \A h \in sockHeld[i] : h < p
  <2>1. sockHeld[i] \in SUBSET SockPids
    BY DEF SockInv, SockNumbers
  <2>2. \A h \in sockHeld[i] : h < p
    BY <1>2 DEF SockInv, ScanAscends
  <2>3. \A h \in SockPids : h \in Int
    BY SockStatAssumption
  <2>4. \A h \in sockHeld[i] : h \in Int
    BY <2>1, <2>3, Zenon
  <2> QED BY <2>2, <2>4, Zenon
<1>7. ScanAscends'
  <2> SUFFICES ASSUME NEW i \in Inodes, NEW h \in sockHeld'[i], NEW q \in sockTodo'
               PROVE  h < q
    BY DEF ScanAscends
  <2>1. q \in sockTodo /\ p < q
    <3>1. q \in sockTodo /\ q # p
      BY <1>1
    <3>2. p =< q
      BY <1>2, <3>1
    <3>3. p \in Nat /\ q \in Nat
      BY <1>3, <3>1 DEF SockInv, SockNumbers
    <3> QED BY <3>1, <3>2, <3>3
  <2>2. CASE h = p
    BY <2>1, <2>2
  <2>3. CASE h \in sockHeld[i]
    BY <2>1, <2>3 DEF SockInv, ScanAscends
  <2> QED BY <1>1, <2>2, <2>3
<1>8. ASSUME NEW i \in 1 .. socketCount' PROVE SlotOwned(i)'
  <2>1. i \in 1 .. MaxSockets /\ i \in 1 .. socketCount /\ i <= socketCount
    <3>1. socketCount \in 0 .. MaxSockets /\ MaxSockets \in Nat
      BY SockStatAssumption DEF SockInv, SockNumbers
    <3>2. i \in 1 .. socketCount
      BY <1>1
    <3> QED BY <3>1, <3>2
  <2> DEFINE x == sockets[i].inode
  <2>2. /\ x \in Inodes /\ x = sockTable[i]
        /\ sockets[i].pid = IF sockHeld[x] = {} THEN 0 ELSE Max(sockHeld[x])
        /\ sockets[i].cmd \in sockHeld[x] \cup {0}
    BY <2>1 DEF SockInv, SlotOwned
  <2>3. sockets'[i].inode = x
    BY <1>4, <2>1
  <2>4. CASE x \in held
    <3>1. sockHeld'[x] = sockHeld[x] \cup {p}
      BY <1>1, <2>2, <2>4
    <3>2. Max(sockHeld[x] \cup {p}) = p
      <4>1. x \in Inodes /\ p \in Int
        BY <1>3, <2>2
      <4>2. sockHeld[x] \in SUBSET Int /\ \A h \in sockHeld[x] : h < p
        BY <1>6, <4>1
      <4> HIDE DEF x
      <4> QED BY <4>1, <4>2, MaxOfNew
    <3>3. sockets'[i].pid = p /\ sockets'[i].cmd \in {p, sockets[i].cmd}
      BY <1>4, <2>1, <2>4
    <3> QED BY <1>1, <2>2, <2>3, <3>1, <3>2, <3>3 DEF SlotOwned
  <2>5. CASE x \notin held
    <3>1. sockHeld'[x] = sockHeld[x]
      BY <1>1, <2>2, <2>5
    <3>2. sockets'[i] = sockets[i]
      BY <1>4, <2>1, <2>5
    <3> QED BY <1>1, <2>2, <3>1, <3>2 DEF SlotOwned
  <2> QED BY <2>4, <2>5
<1> QED BY <1>1, <1>5, <1>7, <1>8 DEF SockInv

(* Every step of sockstat keeps its invariant. *)
LEMMA SockAlways == Spec => []SockInv
<1>1. Init => SockInv
  <2> SUFFICES ASSUME SockInit PROVE SockInv
    BY DEF Init
  <2>1. SockNumbers
    BY SockStatAssumption DEF SockInit, SockNumbers, Socket
  <2> QED BY <2>1 DEF SockInit, SockInv, ScanAscends, ToSet, SlotOwned
<1>2. SockInv /\ [Next]_vars => SockInv'
  <2> SUFFICES ASSUME SockInv, SockNext \/ UNCHANGED sockVars PROVE SockInv'
    BY PartSteps
  <2>1. ASSUME UNCHANGED <<sockets, socketCount, sockTodo, sockTable, sockHeld>>,
               DOMAIN sockSummary' = {"tcp", "others"}, sockSummary'.tcp = sockSummary.tcp
        PROVE  SockInv'
    BY <2>1 DEF SockInv, SockNumbers, ScanAscends, SlotOwned
  <2>2. CASE UNCHANGED sockVars
    BY <2>1, <2>2 DEF sockVars, SockInv, SockNumbers
  <2>3. ASSUME NEW lines \in LineCounts, SockEndCollect(lines) PROVE SockInv'
    BY <2>1, <2>3 DEF SockEndCollect, SockInv, SockNumbers
  <2> QED BY <2>2, <2>3, SockBeginStep, MapStep DEF SockNext
<1> QED BY <1>1, <1>2, PTL DEF Spec

(* A published socket is a row of this collection's table with the last    *)
(* process of this scan that held it, however many sockets, processes and  *)
(* collections there are.                                                  *)
THEOREM OwnersOfThisScanHolds == Spec => []OwnersOfThisScan
<1>1. SockInv => OwnersOfThisScan
  BY DEF SockInv, SockNumbers, SlotOwned, OwnersOfThisScan
<1> QED BY <1>1, SockAlways, PTL

-----------------------------------------------------------------------------
(* json: what a builder is made of. *)
Text == Seq(Tokens)

Builder == [text : Text, size : Nat, pos : Nat, depth : Int,
            comma : BOOLEAN, error : BOOLEAN]

(* Two builders that were given the same calls: the first may have run out *)
(* of room, the second has room for n bytes more.                          *)
Paired(a, b, n) ==
  /\ a \in Builder /\ b \in Builder /\ n \in Nat
  /\ a.depth = b.depth /\ a.comma = b.comma
  /\ ~b.error /\ b.pos + n < b.size
  /\ ~a.error => a.text = b.text
  /\ Len(a.text) =< Len(b.text)
  /\ \A k \in 1 .. Len(a.text) : a.text[k] = b.text[k]

(* Room that is not used. *)
LEMMA PairedLess ==
  ASSUME NEW a, NEW b, NEW n, Paired(a, b, n), NEW m \in Nat, m =< n
  PROVE  Paired(a, b, m)
<1>1. b.pos \in Nat /\ b.size \in Nat /\ n \in Nat /\ b.pos + n < b.size
  BY DEF Paired, Builder
<1>2. b.pos + m < b.size
  BY <1>1
<1> QED BY <1>2 DEF Paired

(* What json_write does when there is room. *)
LEMMA WriteFits ==
  ASSUME NEW b \in Builder, NEW t \in Tokens, ~b.error, b.pos + 2 < b.size
  PROVE  /\ json_write(b, t) \in Builder
         /\ json_write(b, t) = [b EXCEPT !.text = Append(b.text, t),
                                         !.pos = b.pos + Width(t)]
         /\ Width(t) \in 1 .. 2
<1>1. Width(t) \in 1 .. 2
  BY DEF Width
<1>2. /\ b.text \in Text /\ b.size \in Nat /\ b.pos \in Nat /\ b.depth \in Int
      /\ b.comma \in BOOLEAN /\ b.error \in BOOLEAN
  BY DEF Builder
<1>3. Append(b.text, t) \in Text
  BY <1>2 DEF Text
<1>4. ~(b.pos + Width(t) >= b.size)
  BY <1>1, <1>2
<1>5. json_write(b, t) = [b EXCEPT !.text = Append(b.text, t), !.pos = b.pos + Width(t)]
  BY <1>4 DEF json_write
<1>6. b.pos + Width(t) \in Nat
  BY <1>1, <1>2
<1> QED BY <1>1, <1>3, <1>5, <1>6 DEF Builder

(* json_write in both builders: the first one either writes the same, or   *)
(* nothing from now on.                                                    *)
LEMMA PairedWrite ==
  ASSUME NEW a, NEW b, NEW n \in Nat, Paired(a, b, n + 2), NEW t \in Tokens
  PROVE  Paired(json_write(a, t), json_write(b, t), n)
<1> DEFINE c == json_write(a, t)
           d == json_write(b, t)
<1>1. /\ a \in Builder /\ b \in Builder /\ a.depth = b.depth /\ a.comma = b.comma
      /\ ~b.error /\ b.pos + (n + 2) < b.size
      /\ ~a.error => a.text = b.text
      /\ Len(a.text) =< Len(b.text)
      /\ \A k \in 1 .. Len(a.text) : a.text[k] = b.text[k]
  BY DEF Paired
<1>2. /\ a.text \in Text /\ a.pos \in Nat /\ a.size \in Nat /\ a.error \in BOOLEAN
      /\ b.text \in Text /\ b.pos \in Nat /\ b.size \in Nat
  BY <1>1 DEF Builder
<1>3. /\ d \in Builder /\ Width(t) \in 1 .. 2
      /\ d = [b EXCEPT !.text = Append(b.text, t), !.pos = b.pos + Width(t)]
  <2>1. b.pos + 2 < b.size
    BY <1>1, <1>2
  <2> QED BY <1>1, <2>1, WriteFits
<1>4. /\ d.text = Append(b.text, t) /\ d.pos = b.pos + Width(t) /\ d.size = b.size
      /\ d.depth = b.depth /\ d.comma = b.comma /\ d.error = b.error
  <2> HIDE DEF d
  <2> QED BY <1>1, <1>3 DEF Builder
<1>5. d.pos + n < d.size /\ ~d.error
  <2> HIDE DEF d
  <2> QED BY <1>1, <1>2, <1>3, <1>4
<1>6. /\ Len(a.text) \in Nat /\ Len(b.text) \in Nat /\ Len(d.text) = Len(b.text) + 1
      /\ \A k \in 1 .. Len(b.text) : d.text[k] = b.text[k]
  <2> HIDE DEF d
  <2> QED BY <1>2, <1>4 DEF Text
<1>7. ASSUME c \in Builder, c.text = a.text, c.error, c.depth = a.depth, c.comma = a.comma
      PROVE  Paired(c, d, n)
  <2> HIDE DEF c, d
  <2>1. Len(c.text) =< Len(d.text) /\ \A k \in 1 .. Len(c.text) : c.text[k] = d.text[k]
    BY <1>1, <1>6, <1>7
  <2> QED BY <1>1, <1>3, <1>4, <1>5, <1>7, <2>1 DEF Paired
<1>8. CASE a.error
  <2>1. c = a
    BY <1>8 DEF json_write
  <2> QED BY <1>1, <1>7, <1>8, <2>1
<1>9. CASE ~a.error /\ a.pos + Width(t) >= a.size
  <2>1. c = [a EXCEPT !.error = TRUE]
    BY <1>9 DEF json_write
  <2>2. c \in Builder /\ c.text = a.text /\ c.error /\ c.depth = a.depth /\ c.comma = a.comma
    BY <1>1, <2>1 DEF Builder
  <2> QED BY <1>7, <2>2
<1>10. CASE ~a.error /\ ~(a.pos + Width(t) >= a.size)
  <2>1. c = [a EXCEPT !.text = Append(a.text, t), !.pos = a.pos + Width(t)]
    BY <1>10 DEF json_write
  <2>2. Append(a.text, t) \in Text /\ a.pos + Width(t) \in Nat
    BY <1>2, <1>3 DEF Text
  <2>3. /\ c \in Builder /\ c.text = Append(a.text, t)
        /\ c.depth = a.depth /\ c.comma = a.comma /\ c.error = a.error
    <3> HIDE DEF c
    <3> QED BY <1>1, <2>1, <2>2 DEF Builder
  <2>4. c.text = d.text
    BY <1>1, <1>4, <1>10, <2>3
  <2> HIDE DEF c, d
  <2>5. Len(c.text) =< Len(d.text)
    BY <1>6, <2>4
  <2>6. Paired(c, d, n)
    BY <1>1, <1>3, <1>4, <1>5, <2>3, <2>4, <2>5 DEF Paired
  <2> QED BY <2>6 DEF c, d
<1> QED BY <1>2, <1>8, <1>9, <1>10

(* The flag is set alike. *)
LEMMA PairedFlag ==
  ASSUME NEW a, NEW b, NEW n, Paired(a, b, n), NEW f \in BOOLEAN
  PROVE  Paired([a EXCEPT !.comma = f], [b EXCEPT !.comma = f], n)
<1> DEFINE c == [a EXCEPT !.comma = f]
           d == [b EXCEPT !.comma = f]
<1>1. a \in Builder /\ b \in Builder
  BY DEF Paired
<1>2. /\ c \in Builder /\ c.text = a.text /\ c.depth = a.depth /\ c.comma = f
      /\ c.error = a.error
      /\ d \in Builder /\ d.text = b.text /\ d.depth = b.depth /\ d.comma = f
      /\ d.error = b.error /\ d.pos = b.pos /\ d.size = b.size
  BY <1>1 DEF Builder
<1> HIDE DEF c, d
<1>3. Paired(c, d, n)
  BY <1>2 DEF Paired
<1> QED BY <1>3 DEF c, d

(* And so is the depth. *)
LEMMA PairedDepth ==
  ASSUME NEW a, NEW b, NEW n, Paired(a, b, n), NEW f \in BOOLEAN
  PROVE  /\ Paired([a EXCEPT !.depth = a.depth + 1, !.comma = f],
                   [b EXCEPT !.depth = b.depth + 1, !.comma = f], n)
         /\ Paired([a EXCEPT !.depth = a.depth - 1, !.comma = f],
                   [b EXCEPT !.depth = b.depth - 1, !.comma = f], n)
<1>1. /\ a \in Builder /\ b \in Builder /\ a.depth = b.depth
      /\ a.depth + 1 \in Int /\ a.depth - 1 \in Int
  BY DEF Paired, Builder
<1>2. ASSUME NEW z \in Int
      PROVE  Paired([a EXCEPT !.depth = z, !.comma = f], [b EXCEPT !.depth = z, !.comma = f], n)
  <2> DEFINE c == [a EXCEPT !.depth = z, !.comma = f]
             d == [b EXCEPT !.depth = z, !.comma = f]
  <2>1. /\ c \in Builder /\ c.text = a.text /\ c.depth = z /\ c.comma = f
        /\ c.error = a.error
        /\ d \in Builder /\ d.text = b.text /\ d.depth = z /\ d.comma = f
        /\ d.error = b.error /\ d.pos = b.pos /\ d.size = b.size
    BY <1>1 DEF Builder
  <2> HIDE DEF c, d
  <2>2. Paired(c, d, n)
    BY <2>1 DEF Paired
  <2> QED BY <2>2 DEF c, d
<1> QED BY <1>1, <1>2

(* json_comma_if_needed *)
LEMMA PairedComma ==
  ASSUME NEW a, NEW b, NEW n \in Nat, Paired(a, b, n + 2)
  PROVE  Paired(json_comma_if_needed(a), json_comma_if_needed(b), n)
<1>1. a.comma = b.comma /\ a.comma \in BOOLEAN
  BY DEF Paired, Builder
<1>2. "," \in Tokens
  BY DEF Tokens, Punctuation
<1>3. CASE a.comma
  <2>1. Paired(json_write(a, ","), json_write(b, ","), n)
    BY <1>2, PairedWrite
  <2>2. Paired([json_write(a, ",") EXCEPT !.comma = FALSE],
               [json_write(b, ",") EXCEPT !.comma = FALSE], n)
    BY <2>1, PairedFlag
  <2> QED BY <1>1, <1>3, <2>2 DEF json_comma_if_needed
<1>4. CASE ~a.comma
  <2>1. Paired(a, b, n)
    BY PairedLess
  <2>2. Paired([a EXCEPT !.comma = FALSE], [b EXCEPT !.comma = FALSE], n)
    BY <2>1, PairedFlag
  <2> QED BY <1>1, <1>4, <2>2 DEF json_comma_if_needed
<1> QED BY <1>1, <1>3, <1>4

(* Three texts in a row, as for a key or a string: what the fold computes. *)
LEMMA WriteThree ==
  ASSUME NEW b, NEW t1, NEW t2, NEW t3
  PROVE  WriteAll(b, <<t1, t2, t3>>) = json_write(json_write(json_write(b, t1), t2), t3)
<1> DEFINE s == <<t1, t2, t3>>
           D == {1, 2, 3}
           First(S) == IF 1 \in S THEN json_write(b, t1) ELSE b
           Second(S) == IF 2 \in S THEN json_write(First(S), t2) ELSE First(S)
           Third(S) == IF 3 \in S THEN json_write(Second(S), t3) ELSE Second(S)
           Is(f) == f = [S \in SUBSET D |-> IF S = {} THEN b
                                            ELSE json_write(f[S \ {Max(S)}], s[Max(S)])]
           g == [S \in SUBSET D |-> Third(S)]
<1>1. ASSUME NEW S \in SUBSET D
      PROVE  /\ 3 \in S => Max(S) = 3
             /\ 3 \notin S /\ 2 \in S => Max(S) = 2
             /\ 3 \notin S /\ 2 \notin S /\ 1 \in S => Max(S) = 1
  <2>1. ASSUME NEW p \in D, p \in S, \A x \in S : x =< p PROVE Max(S) = p
    <3>1. S = (S \ {p}) \cup {p} /\ S \ {p} \in SUBSET Int /\ p \in Int
      BY <2>1
    <3>2. \A x \in S \ {p} : x < p
      BY <2>1, <3>1
    <3> QED BY <3>1, <3>2, MaxOfNew
  <2>2. CASE 3 \in S
    BY <2>1, <2>2
  <2>3. CASE 3 \notin S /\ 2 \in S
    BY <2>1, <2>3
  <2>4. CASE 3 \notin S /\ 2 \notin S /\ 1 \in S
    BY <2>1, <2>4
  <2> QED BY <2>2, <2>3, <2>4
<1>2. s[1] = t1 /\ s[2] = t2 /\ s[3] = t3 /\ DOMAIN s = D
  OBVIOUS
<1>3. ASSUME NEW S \in SUBSET D
      PROVE  g[S] = IF S = {} THEN b ELSE json_write(g[S \ {Max(S)}], s[Max(S)])
  <2>1. CASE 3 \in S
    <3>1. Max(S) = 3 /\ S \ {3} \in SUBSET D
      BY <1>1, <2>1
    <3>2. g[S] = json_write(Second(S), t3)
      BY <2>1
    <3>3. g[S \ {3}] = Second(S)
      BY <3>1
    <3> QED BY <1>2, <2>1, <3>1, <3>2, <3>3
  <2>2. CASE 3 \notin S /\ 2 \in S
    <3>1. Max(S) = 2 /\ S \ {2} \in SUBSET D
      BY <1>1, <2>2
    <3>2. g[S] = json_write(First(S), t2)
      BY <2>2
    <3>3. g[S \ {2}] = First(S)
      BY <2>2, <3>1
    <3> QED BY <1>2, <2>2, <3>1, <3>2, <3>3
  <2>3. CASE 3 \notin S /\ 2 \notin S /\ 1 \in S
    <3>1. Max(S) = 1 /\ S \ {1} = {}
      BY <1>1, <2>3
    <3>2. g[S] = json_write(b, t1)
      BY <2>3
    <3>3. g[S \ {1}] = b
      BY <3>1
    <3> QED BY <1>2, <2>3, <3>1, <3>2, <3>3
  <2>4. CASE S = {}
    BY <2>4
  <2> QED BY <2>1, <2>2, <2>3, <2>4
<1>4. Is(g)
  <2> DEFINE G(S) == IF S = {} THEN b ELSE json_write(g[S \ {Max(S)}], s[Max(S)])
  <2>1. \A S \in SUBSET D : Third(S) = G(S)
    BY <1>3
  <2>2. g = [S \in SUBSET D |-> G(S)]
    <3> HIDE DEF G, Third
    <3> QED BY <2>1
  <2> QED BY <2>2
<1> DEFINE f == CHOOSE f : Is(f)
<1>5. Is(f)
  <2> HIDE DEF g, Is
  <2> QED BY <1>4
<1>6. WriteAll(b, s) = f[D]
  BY <1>2 DEF WriteAll, FoldLeft, MapThenFoldSet
<1>7. /\ f[{}] = b /\ f[{1}] = json_write(f[{}], t1)
      /\ f[{1, 2}] = json_write(f[{1}], t2)
      /\ f[{1, 2, 3}] = json_write(f[{1, 2}], t3)
  <2>1. \A S \in SUBSET D : f[S] = IF S = {} THEN b
                                   ELSE json_write(f[S \ {Max(S)}], s[Max(S)])
    <3> HIDE DEF f, s
    <3> QED BY <1>5
  <2>2. /\ {} \in SUBSET D /\ {1} \in SUBSET D /\ {1, 2} \in SUBSET D /\ D \in SUBSET D
        /\ {1} # {} /\ {1, 2} # {} /\ D # {}
    OBVIOUS
  <2>3. Max({1}) = 1 /\ Max({1, 2}) = 2 /\ Max(D) = 3
    BY <1>1, <2>2
  <2>4. {1} \ {1} = {} /\ {1, 2} \ {2} = {1} /\ D \ {3} = {1, 2}
    OBVIOUS
  <2> HIDE DEF f, s
  <2>5. f[{}] = b
    BY <2>1, <2>2
  <2>6. f[{1}] = json_write(f[{1} \ {Max({1})}], s[Max({1})])
    BY <2>1, <2>2
  <2>7. f[{1, 2}] = json_write(f[{1, 2} \ {Max({1, 2})}], s[Max({1, 2})])
    BY <2>1, <2>2
  <2>8. f[D] = json_write(f[D \ {Max(D)}], s[Max(D)])
    BY <2>1, <2>2
  <2> QED BY <1>2, <2>3, <2>4, <2>5, <2>6, <2>7, <2>8, Zenon
<1> QED BY <1>6, <1>7

(* Three texts in both builders. *)
LEMMA PairedThree ==
  ASSUME NEW a, NEW b, NEW n \in Nat, Paired(a, b, n + 6),
         NEW t1 \in Tokens, NEW t2 \in Tokens, NEW t3 \in Tokens
  PROVE  Paired(WriteAll(a, <<t1, t2, t3>>), WriteAll(b, <<t1, t2, t3>>), n)
<1>1. /\ n + 6 = (n + 4) + 2 /\ n + 4 \in Nat
      /\ n + 4 = (n + 2) + 2 /\ n + 2 \in Nat
  OBVIOUS
<1>2. Paired(json_write(a, t1), json_write(b, t1), n + 4)
  BY <1>1, PairedWrite
<1>3. Paired(json_write(json_write(a, t1), t2), json_write(json_write(b, t1), t2), n + 2)
  BY <1>1, <1>2, PairedWrite
<1>4. Paired(json_write(json_write(json_write(a, t1), t2), t3),
             json_write(json_write(json_write(b, t1), t2), t3), n)
  BY <1>3, PairedWrite
<1> QED BY <1>4, WriteThree

(* Every call of the interface, in both builders. *)
LEMMA PairedCalls ==
  ASSUME NEW a, NEW b, NEW n \in Nat, Paired(a, b, n + 20)
  PROVE  /\ Paired(json_object_start(a), json_object_start(b), n)
         /\ Paired(json_array_start(a), json_array_start(b), n)
         /\ Paired(json_object_end(a), json_object_end(b), n)
         /\ Paired(json_array_end(a), json_array_end(b), n)
         /\ Paired(json_key(a), json_key(b), n)
         /\ Paired(json_string(a), json_string(b), n)
         /\ Paired(json_literal(a), json_literal(b), n)
         /\ Paired(json_kv(a), json_kv(b), n)
         /\ Paired(json_kv_string(a), json_kv_string(b), n)
<1>1. Tokens = {"{", "}", "[", "]", ",", "key quote", "key text", "key colon",
                "quote", "text", "unquote", "literal"}
  BY DEF Tokens, Punctuation
<1>2. ASSUME NEW x, NEW y, Paired(x, y, n + 4), NEW t \in Tokens
      PROVE  Paired(JsonStart(x, t), JsonStart(y, t), n)
  <2>1. n + 4 = (n + 2) + 2 /\ n + 2 \in Nat
    OBVIOUS
  <2>2. Paired(json_comma_if_needed(x), json_comma_if_needed(y), n + 2)
    BY <1>2, <2>1, PairedComma
  <2>3. Paired(json_write(json_comma_if_needed(x), t),
               json_write(json_comma_if_needed(y), t), n)
    BY <2>2, PairedWrite
  <2> DEFINE u == json_write(json_comma_if_needed(x), t)
             v == json_write(json_comma_if_needed(y), t)
  <2>4. Paired([u EXCEPT !.depth = u.depth + 1, !.comma = FALSE],
               [v EXCEPT !.depth = v.depth + 1, !.comma = FALSE], n)
    <3> HIDE DEF u, v
    <3> QED BY <2>3, PairedDepth DEF u, v
  <2> QED BY <2>4 DEF JsonStart
<1>3. ASSUME NEW x, NEW y, Paired(x, y, n + 2), NEW t \in Tokens
      PROVE  Paired([json_write(x, t) EXCEPT !.depth = @ - 1, !.comma = TRUE],
                    [json_write(y, t) EXCEPT !.depth = @ - 1, !.comma = TRUE], n)
  <2> DEFINE u == json_write(x, t)
             v == json_write(y, t)
  <2>1. Paired(u, v, n)
    BY <1>3, PairedWrite
  <2>2. Paired([u EXCEPT !.depth = u.depth - 1, !.comma = TRUE],
               [v EXCEPT !.depth = v.depth - 1, !.comma = TRUE], n)
    <3> HIDE DEF u, v
    <3> QED BY <2>1, PairedDepth
  <2> QED BY <2>2
<1>4. ASSUME NEW x, NEW y, NEW m \in Nat, Paired(x, y, m + 8)
      PROVE  Paired(json_key(x), json_key(y), m)
  <2>1. m + 8 = (m + 6) + 2 /\ m + 6 \in Nat
    OBVIOUS
  <2>2. Paired(json_comma_if_needed(x), json_comma_if_needed(y), m + 6)
    BY <1>4, <2>1, PairedComma
  <2> QED BY <1>1, <2>2, PairedThree, ZenonT(30) DEF json_key
<1>5. ASSUME NEW x, NEW y, NEW m \in Nat, Paired(x, y, m + 8)
      PROVE  Paired(json_string(x), json_string(y), m)
  <2>1. m + 8 = (m + 6) + 2 /\ m + 6 \in Nat
    OBVIOUS
  <2>2. Paired(json_comma_if_needed(x), json_comma_if_needed(y), m + 6)
    BY <1>5, <2>1, PairedComma
  <2>3. Paired(WriteAll(json_comma_if_needed(x), <<"quote", "text", "unquote">>),
               WriteAll(json_comma_if_needed(y), <<"quote", "text", "unquote">>), m)
    BY <1>1, <2>2, PairedThree, ZenonT(30)
  <2> QED BY <2>3, PairedFlag DEF json_string
<1>6. ASSUME NEW x, NEW y, NEW m \in Nat, Paired(x, y, m + 4)
      PROVE  Paired(json_literal(x), json_literal(y), m)
  <2>1. m + 4 = (m + 2) + 2 /\ m + 2 \in Nat
    OBVIOUS
  <2>2. Paired(json_comma_if_needed(x), json_comma_if_needed(y), m + 2)
    BY <1>6, <2>1, PairedComma
  <2>3. Paired(json_write(json_comma_if_needed(x), "literal"),
               json_write(json_comma_if_needed(y), "literal"), m)
    BY <1>1, <2>2, PairedWrite
  <2> QED BY <2>3, PairedFlag DEF json_literal
<1>7. Paired(a, b, n + 2) /\ Paired(a, b, n + 4) /\ Paired(a, b, n + 8)
  BY PairedLess
<1>8. Paired([json_key(a) EXCEPT !.comma = FALSE], [json_key(b) EXCEPT !.comma = FALSE], n + 12)
  <2>1. n + 20 = (n + 12) + 8 /\ n + 12 \in Nat
    OBVIOUS
  <2>2. Paired(json_key(a), json_key(b), n + 12)
    BY <1>4, <2>1
  <2> QED BY <2>2, PairedFlag
<1>9. Paired([json_key(a) EXCEPT !.comma = FALSE], [json_key(b) EXCEPT !.comma = FALSE], n + 8)
  BY <1>8, PairedLess
<1>10. Paired([json_key(a) EXCEPT !.comma = FALSE], [json_key(b) EXCEPT !.comma = FALSE], n + 4)
  BY <1>8, PairedLess
<1>11. Paired(json_kv(a), json_kv(b), n)
  BY <1>6, <1>10 DEF json_kv
<1>12. Paired(json_kv_string(a), json_kv_string(b), n)
  BY <1>5, <1>9 DEF json_kv_string
<1>13. /\ Paired(json_object_start(a), json_object_start(b), n)
       /\ Paired(json_array_start(a), json_array_start(b), n)
  BY <1>1, <1>2, <1>7 DEF json_object_start, json_array_start
<1>14. /\ Paired(json_object_end(a), json_object_end(b), n)
       /\ Paired(json_array_end(a), json_array_end(b), n)
  BY <1>1, <1>3, <1>7 DEF json_object_end, json_array_end
<1>15. /\ Paired(json_key(a), json_key(b), n)
       /\ Paired(json_string(a), json_string(b), n)
       /\ Paired(json_literal(a), json_literal(b), n)
  BY <1>4, <1>5, <1>6, <1>7
<1> QED BY <1>11, <1>12, <1>13, <1>14, <1>15

(* The builder and the ideal one are paired, and the ideal one has room    *)
(* for all calls to come.                                                  *)
RoomLeft(calls) == 20 * (JsonMaxCalls - calls)

JsonInv ==
  /\ jsonCalls \in 0 .. JsonMaxCalls
  /\ Paired(j, ideal, RoomLeft(jsonCalls))

(* Every call of the caller leaves room for the rest. *)
LEMMA JsonStep ==
  ASSUME JsonInv, JsonNext
  PROVE  JsonInv'
<1>1. CASE JsonDone
  BY <1>1 DEF JsonDone, jsonVars, JsonInv
<1>2. CASE ~JsonDone
  <2> DEFINE m == RoomLeft(jsonCalls + 1)
  <2>1. jsonCalls < JsonMaxCalls /\ jsonCalls' = jsonCalls + 1
    BY <1>2 DEF JsonNext, ObjectStart, ArrayStart, ObjectEnd, ArrayEnd, JsonKey, JsonValue,
                KeyValue, JsonCall
  <2>2. /\ jsonCalls' \in 0 .. JsonMaxCalls /\ m \in Nat
        /\ RoomLeft(jsonCalls) = m + 20
    BY <2>1, JsonAssumption DEF JsonInv, RoomLeft
  <2>3. Paired(j, ideal, m + 20)
    BY <2>2 DEF JsonInv
  <2> HIDE DEF m
  <2>4. Paired(j', ideal', m)
    BY <1>2, <2>2, <2>3, PairedCalls
       DEF JsonNext, ObjectStart, ArrayStart, ObjectEnd, ArrayEnd, JsonKey, JsonValue,
           KeyValue, JsonCall
  <2> QED BY <2>1, <2>2, <2>4 DEF JsonInv, m
<1> QED BY <1>1, <1>2

(* The builders as they are initialised. *)
LEMMA JsonBegins == Init => JsonInv
<1> SUFFICES ASSUME JsonInit PROVE JsonInv
  BY DEF Init
<1>1. << >> \in Text
  BY DEF Text
<1>2. ASSUME NEW n \in Nat PROVE json_init(n) \in Builder
  BY <1>1, <1>2 DEF json_init, Builder
<1>3. JsonSize \in Nat /\ Unlimited \in Nat /\ RoomLeft(0) \in Nat
      /\ 0 + RoomLeft(0) < Unlimited
  BY JsonAssumption DEF Unlimited, RoomLeft
<1>4. j \in Builder /\ ideal \in Builder
  BY <1>2, <1>3 DEF JsonInit
<1>5. /\ j.text = << >> /\ j.depth = 0 /\ j.comma = FALSE /\ j.error = FALSE
      /\ ideal.text = << >> /\ ideal.depth = 0 /\ ideal.comma = FALSE
      /\ ideal.error = FALSE /\ ideal.pos = 0 /\ ideal.size = Unlimited
  BY DEF JsonInit, json_init
<1>6. Paired(j, ideal, RoomLeft(0))
  <2>1. Len(j.text) = 0 /\ Len(ideal.text) = 0 /\ 1 .. Len(j.text) = {}
    BY <1>5
  <2>2. ideal.pos + RoomLeft(0) < ideal.size
    BY <1>3, <1>5
  <2>3. /\ j.depth = ideal.depth /\ j.comma = ideal.comma /\ ~ideal.error
        /\ j.text = ideal.text
    BY <1>5
  <2>4. /\ Len(j.text) =< Len(ideal.text)
        /\ \A k \in 1 .. Len(j.text) : j.text[k] = ideal.text[k]
    BY <2>1, <2>3
  <2> QED BY <1>3, <1>4, <2>2, <2>3, <2>4 DEF Paired
<1> QED BY <1>6, JsonAssumption DEF JsonInit, JsonInv

(* Running out of room only cuts the document off, whatever the size of    *)
(* the buffer, the nesting and the calls.                                  *)
THEOREM CutNotGarbledHolds == Spec => []CutNotGarbled
<1>1. Init => JsonInv
  BY JsonBegins
<1>2. JsonInv /\ [Next]_vars => JsonInv'
  <2>1. CASE UNCHANGED jsonVars
    BY <2>1 DEF jsonVars, JsonInv
  <2> QED BY <2>1, JsonStep, PartSteps
<1>3. JsonInv => CutNotGarbled
  <2> SUFFICES ASSUME JsonInv PROVE CutNotGarbled
    OBVIOUS
  <2>1. /\ j.text \in Text /\ ideal.text \in Text
        /\ Len(j.text) =< Len(ideal.text)
        /\ \A k \in 1 .. Len(j.text) : j.text[k] = ideal.text[k]
        /\ ~j.error => j.text = ideal.text
    BY DEF JsonInv, Paired, Builder
  <2>2. SubSeq(j.text, 1, Len(j.text)) = SubSeq(ideal.text, 1, Len(j.text))
    BY <2>1 DEF Text
  <2> QED BY <2>1, <2>2 DEF CutNotGarbled, IsPrefix
<1> QED BY <1>1, <1>2, <1>3, PTL DEF Spec

-----------------------------------------------------------------------------
(* json: where the automaton that reads the text starts. *)
Start == [stack |-> << >>, next |-> "value"]

(* heapmon: AddTarget, for M targets at most. *)
TargetAdded(M, targets, p) ==
  IF Contains(targets, p) \/ Len(targets) >= M THEN targets ELSE Append(targets, p)

(* FoldLeft, step by step.  The provers cannot be given an operator, so    *)
(* the operators that are folded in the parts have names; a is what else   *)
(* the operator depends on.                                                *)
Step(kind, a, x, y) ==
  CASE kind = "parse"    -> Accept(x, y)
    [] kind = "put"      -> Put(x, y)
    [] kind = "target"   -> TargetAdded(a, x, y)
    [] kind = "exchange" -> Exchanged(x, a, y)
    [] kind = "pass"     -> Pass(x, y)
    [] kind = "seek"     -> FindKey(a, x, y)

(* The function a fold of the first k elements of s is defined by. *)
IsFold(f, kind, a, base, s, k) ==
  f = [S \in SUBSET (1 .. k) |->
         IF S = {} THEN base ELSE Step(kind, a, f[S \ {Max(S)}], s[Max(S)])]

(* There is such a function. *)
LEMMA FoldExists ==
  ASSUME NEW kind, NEW a, NEW base, NEW s, NEW n \in Nat
  PROVE  \E f : IsFold(f, kind, a, base, s, n)
<1> DEFINE B == {k \in Nat : ~ \E f : IsFold(f, kind, a, base, s, k)}
<1> SUFFICES ASSUME B # {} PROVE FALSE
  OBVIOUS
<1>1. PICK k \in B : \A x \in B : k =< x
  <2> HIDE DEF B
  <2>1. B \in SUBSET Nat
    BY DEF B
  <2> QED BY <2>1, NatMinimum
<1>2. k \in Nat /\ ~ \E f : IsFold(f, kind, a, base, s, k)
  OBVIOUS
<1>3. CASE k = 0
  <2> DEFINE g == [S \in SUBSET (1 .. k) |-> base]
  <2>1. \A S \in SUBSET (1 .. k) : S = {}
    BY <1>3
  <2>2. IsFold(g, kind, a, base, s, k)
    BY <2>1 DEF IsFold
  <2> QED BY <1>2, <2>2
<1>4. CASE k # 0
  <2>1. k - 1 \in Nat /\ k - 1 \notin B
    <3> HIDE DEF B
    <3> QED BY <1>1, <1>2, <1>4
  <2>2. PICK g : IsFold(g, kind, a, base, s, k - 1)
    BY <2>1
  <2> DEFINE h == [S \in SUBSET (1 .. k) |->
                     IF k \in S THEN Step(kind, a, g[S \ {k}], s[k]) ELSE g[S]]
             H(S) == IF S = {} THEN base
                     ELSE Step(kind, a, h[S \ {Max(S)}], s[Max(S)])
  <2>3. ASSUME NEW S \in SUBSET (1 .. k) PROVE h[S] = H(S)
    <3>1. CASE k \in S
      <4>1. S = (S \ {k}) \cup {k} /\ S \ {k} \in SUBSET Int /\ k \in Int
            /\ \A x \in S \ {k} : x < k
        BY <1>2, <3>1
      <4>2. Max(S) = k
        BY <4>1, MaxOfNew
      <4>3. S \ {k} \in SUBSET (1 .. k) /\ k \notin S \ {k} /\ S # {}
        BY <3>1
      <4>4. h[S \ {k}] = g[S \ {k}]
        BY <4>3
      <4>5. h[S] = Step(kind, a, g[S \ {k}], s[k])
        BY <3>1
      <4> HIDE DEF h
      <4> QED BY <4>2, <4>3, <4>4, <4>5
    <3>2. CASE k \notin S
      <4>1. S \in SUBSET (1 .. k - 1)
        BY <1>2, <3>2
      <4>2. g[S] = IF S = {} THEN base
                   ELSE Step(kind, a, g[S \ {Max(S)}], s[Max(S)])
        BY <2>2, <4>1 DEF IsFold
      <4>3. h[S] = g[S]
        BY <3>2
      <4>4. h[S \ {Max(S)}] = g[S \ {Max(S)}]
        BY <3>2
      <4> HIDE DEF h
      <4> QED BY <4>2, <4>3, <4>4
    <3> QED BY <3>1, <3>2
  <2>4. h = [S \in SUBSET (1 .. k) |-> H(S)]
    <3>1. h = [S \in SUBSET (1 .. k) |-> h[S]]
      OBVIOUS
    <3> HIDE DEF h, H
    <3> QED BY <2>3, <3>1
  <2>5. IsFold(h, kind, a, base, s, k)
    <3> HIDE DEF h
    <3> QED BY <2>4 DEF IsFold
  <2> QED BY <1>2, <2>5
<1> QED BY <1>3, <1>4

(* What the fold has reached after k elements, for k up to n. *)
InSteps(g, kind, a, base, s, n) ==
  /\ g[0] = base
  /\ \A k \in 1 .. n : g[k] = Step(kind, a, g[k - 1], s[k])

(* A fold goes through its argument in steps. *)
LEMMA FoldSteps ==
  ASSUME NEW kind, NEW a, NEW base, NEW s, NEW n \in Nat, NEW f,
         IsFold(f, kind, a, base, s, n)
  PROVE  \E g : InSteps(g, kind, a, base, s, n) /\ f[1 .. n] = g[n]
<1> DEFINE g == [k \in 0 .. n |-> f[1 .. k]]
<1>1. ASSUME NEW k \in 0 .. n
      PROVE  f[1 .. k] = IF k = 0 THEN base ELSE Step(kind, a, f[1 .. k - 1], s[k])
  <2>1. 1 .. k \in SUBSET (1 .. n)
    OBVIOUS
  <2>2. f[1 .. k] = IF 1 .. k = {} THEN base
                    ELSE Step(kind, a, f[(1 .. k) \ {Max(1 .. k)}], s[Max(1 .. k)])
    BY <2>1 DEF IsFold
  <2>3. CASE k = 0
    BY <2>2, <2>3
  <2>4. CASE k # 0
    <3>1. 1 .. k = (1 .. k - 1) \cup {k} /\ 1 .. k - 1 \in SUBSET Int /\ k \in Int
          /\ \A x \in 1 .. k - 1 : x < k
      BY <2>4
    <3>2. Max(1 .. k) = k
      BY <3>1, MaxOfNew
    <3>3. (1 .. k) \ {k} = 1 .. k - 1 /\ 1 .. k # {}
      <4>1. k \notin 1 .. k - 1
        OBVIOUS
      <4> QED BY <3>1, <4>1, Zenon
    <3> QED BY <2>2, <2>4, <3>2, <3>3
  <2> QED BY <2>3, <2>4
<1>2. \A k \in 0 .. n : g[k] = f[1 .. k]
  OBVIOUS
<1> HIDE DEF g
<1>3. InSteps(g, kind, a, base, s, n)
  <2>1. g[0] = base
    BY <1>1, <1>2
  <2>2. ASSUME NEW k \in 1 .. n PROVE g[k] = Step(kind, a, g[k - 1], s[k])
    <3>1. k \in 0 .. n /\ k - 1 \in 0 .. n /\ k # 0
      OBVIOUS
    <3> QED BY <1>1, <1>2, <3>1
  <2> QED BY <2>1, <2>2 DEF InSteps
<1> QED BY <1>2, <1>3

(* The folds of the parts. *)
LEMMA ParseInSteps ==
  ASSUME NEW s \in Text
  PROVE  \E g : InSteps(g, "parse", 0, Start, s, Len(s)) /\ Parse(s) = g[Len(s)]
<1> DEFINE n == Len(s)
           Reads(f) == f = [S \in SUBSET (1 .. n) |->
                              IF S = {} THEN Start ELSE Accept(f[S \ {Max(S)}], s[Max(S)])]
           f == CHOOSE f : Reads(f)
<1>1. n \in Nat /\ DOMAIN s = 1 .. n
  BY DEF Text
<1>2. \A h : IsFold(h, "parse", 0, Start, s, n) <=> Reads(h)
  BY DEF IsFold, Step
<1>3. Reads(f)
  BY <1>1, <1>2, FoldExists
<1>4. Parse(s) = f[1 .. n]
  BY <1>1 DEF Parse, FoldLeft, MapThenFoldSet, Start
<1> HIDE DEF f, Reads
<1>5. IsFold(f, "parse", 0, Start, s, n)
  BY <1>2, <1>3
<1>6. \E g : InSteps(g, "parse", 0, Start, s, n) /\ f[1 .. n] = g[n]
  BY <1>1, <1>5, FoldSteps
<1> QED BY <1>4, <1>6

(* add_event, called for each of a list of events. *)
LEMMA PutInSteps ==
  ASSUME NEW S, NEW s \in Seq(S), NEW base
  PROVE  \E g : InSteps(g, "put", 0, base, s, Len(s)) /\ FoldLeft(Put, base, s) = g[Len(s)]
<1> DEFINE n == Len(s)
           Reads(f) == f = [T \in SUBSET (1 .. n) |->
                              IF T = {} THEN base ELSE Put(f[T \ {Max(T)}], s[Max(T)])]
           f == CHOOSE f : Reads(f)
<1>1. n \in Nat /\ DOMAIN s = 1 .. n
  OBVIOUS
<1>2. \A h : IsFold(h, "put", 0, base, s, n) <=> Reads(h)
  BY DEF IsFold, Step
<1>3. Reads(f)
  BY <1>1, <1>2, FoldExists
<1>4. FoldLeft(Put, base, s) = f[1 .. n]
  BY <1>1 DEF FoldLeft, MapThenFoldSet
<1> HIDE DEF f, Reads
<1>5. IsFold(f, "put", 0, base, s, n)
  BY <1>2, <1>3
<1>6. \E g : InSteps(g, "put", 0, base, s, n) /\ f[1 .. n] = g[n]
  BY <1>1, <1>5, FoldSteps
<1> QED BY <1>4, <1>6

(* The targets heapmon takes from its two lists. *)
LEMMA TargetInSteps ==
  ASSUME NEW S, NEW s \in Seq(S), NEW base
  PROVE  \E g : /\ InSteps(g, "target", MaxTargets, base, s, Len(s))
                /\ TargetsOf(base, s) = g[Len(s)]
<1> DEFINE n == Len(s)
           Reads(f) ==
             f = [T \in SUBSET (1 .. n) |->
                    IF T = {} THEN base
                    ELSE TargetAdded(MaxTargets, f[T \ {Max(T)}], s[Max(T)])]
           f == CHOOSE f : Reads(f)
<1>1. n \in Nat /\ DOMAIN s = 1 .. n
  OBVIOUS
<1>2. \A h : IsFold(h, "target", MaxTargets, base, s, n) <=> Reads(h)
  BY DEF IsFold, Step
<1>3. Reads(f)
  BY <1>1, <1>2, FoldExists
<1>4. TargetsOf(base, s) = f[1 .. n]
  BY <1>1 DEF TargetAdded, TargetsOf, AddTarget, FoldLeft, MapThenFoldSet
<1> HIDE DEF f, Reads
<1>5. IsFold(f, "target", MaxTargets, base, s, n)
  BY <1>2, <1>3
<1>6. \E g : InSteps(g, "target", MaxTargets, base, s, n) /\ f[1 .. n] = g[n]
  BY <1>1, <1>5, FoldSteps
<1> QED BY <1>4, <1>6

(* The same for the heapmon that memleak contains. *)
LEMMA LeakTargetInSteps ==
  ASSUME NEW S, NEW s \in Seq(S), NEW base
  PROVE  \E g : /\ InSteps(g, "target", LeakTargets, base, s, Len(s))
                /\ Heap!TargetsOf(base, s) = g[Len(s)]
<1> DEFINE n == Len(s)
           Reads(f) ==
             f = [T \in SUBSET (1 .. n) |->
                    IF T = {} THEN base
                    ELSE TargetAdded(LeakTargets, f[T \ {Max(T)}], s[Max(T)])]
           f == CHOOSE f : Reads(f)
<1>1. n \in Nat /\ DOMAIN s = 1 .. n
  OBVIOUS
<1>2. \A h : IsFold(h, "target", LeakTargets, base, s, n) <=> Reads(h)
  BY DEF IsFold, Step
<1>3. Reads(f)
  BY <1>1, <1>2, FoldExists
<1>4. Heap!TargetsOf(base, s) = f[1 .. n]
  BY <1>1 DEF TargetAdded, Heap!TargetsOf, Heap!AddTarget, Heap!FoldLeft,
         Heap!MapThenFoldSet, Heap!Max, Heap!Contains, Contains, Max
<1> HIDE DEF f, Reads
<1>5. IsFold(f, "target", LeakTargets, base, s, n)
  BY <1>2, <1>3
<1>6. \E g : InSteps(g, "target", LeakTargets, base, s, n) /\ f[1 .. n] = g[n]
  BY <1>1, <1>5, FoldSteps
<1> QED BY <1>4, <1>6

(* The positions of a sequence of length n, in order. *)
Indexes(n) == [l \in 1 .. n |-> l]

(* The inner loop of heapmon's sort. *)
LEMMA PassInSteps ==
  ASSUME NEW S, NEW r \in Seq(S), NEW i
  PROVE  \E g : /\ InSteps(g, "exchange", i, r, Indexes(Len(r)), Len(r))
                /\ Pass(r, i) = g[Len(r)]
<1> DEFINE n == Len(r)
           s == Indexes(n)
           Reads(f) == f = [T \in SUBSET (1 .. n) |->
                              IF T = {} THEN r ELSE Exchanged(f[T \ {Max(T)}], i, s[Max(T)])]
           f == CHOOSE f : Reads(f)
<1>1. n \in Nat /\ DOMAIN r = 1 .. n /\ s = [l \in DOMAIN r |-> l] /\ DOMAIN s = 1 .. n
  BY DEF Indexes
<1>2. \A h : IsFold(h, "exchange", i, r, s, n) <=> Reads(h)
  BY DEF IsFold, Step
<1>3. Reads(f)
  <2>1. n \in Nat
    OBVIOUS
  <2>2. \E h : IsFold(h, "exchange", i, r, s, n)
    <3> HIDE DEF n, s
    <3> QED BY <2>1, FoldExists
  <2> HIDE DEF Reads
  <2> QED BY <1>2, <2>2
<1>4. Pass(r, i) = f[1 .. n]
  <2>1. Pass(r, i) = FoldLeft(LAMBDA q, l : Exchanged(q, i, l), r, s)
    BY <1>1 DEF Pass, FoldLeftDomain
  <2> HIDE DEF s
  <2> QED BY <1>1, <2>1 DEF FoldLeft, MapThenFoldSet
<1> HIDE DEF f, Reads, s
<1>5. IsFold(f, "exchange", i, r, s, n)
  BY <1>2, <1>3
<1>6. \E g : InSteps(g, "exchange", i, r, s, n) /\ f[1 .. n] = g[n]
  <2>1. n \in Nat
    OBVIOUS
  <2> HIDE DEF n
  <2> QED BY <1>5, <2>1, FoldSteps
<1> QED BY <1>4, <1>6 DEF s

(* The outer loop of heapmon's sort. *)
LEMMA SortedInSteps ==
  ASSUME NEW S, NEW r \in Seq(S)
  PROVE  \E g : /\ InSteps(g, "pass", 0, r, Indexes(Len(r)), Len(r))
                /\ Sorted(r) = g[Len(r)]
<1> DEFINE n == Len(r)
           s == Indexes(n)
           Reads(f) == f = [T \in SUBSET (1 .. n) |->
                              IF T = {} THEN r ELSE Pass(f[T \ {Max(T)}], s[Max(T)])]
           f == CHOOSE f : Reads(f)
<1>1. n \in Nat /\ DOMAIN r = 1 .. n /\ s = [l \in DOMAIN r |-> l] /\ DOMAIN s = 1 .. n
  BY DEF Indexes
<1>2. \A h : IsFold(h, "pass", 0, r, s, n) <=> Reads(h)
  BY DEF IsFold, Step
<1>3. Reads(f)
  <2>1. n \in Nat
    OBVIOUS
  <2>2. \E h : IsFold(h, "pass", 0, r, s, n)
    <3> HIDE DEF n, s
    <3> QED BY <2>1, FoldExists
  <2> HIDE DEF Reads
  <2> QED BY <1>2, <2>2
<1>4. Sorted(r) = f[1 .. n]
  <2>1. Sorted(r) = FoldLeft(Pass, r, s)
    BY <1>1 DEF Sorted, FoldLeftDomain
  <2> HIDE DEF s
  <2> QED BY <1>1, <2>1 DEF FoldLeft, MapThenFoldSet
<1> HIDE DEF f, Reads, s
<1>5. IsFold(f, "pass", 0, r, s, n)
  BY <1>2, <1>3
<1>6. \E g : InSteps(g, "pass", 0, r, s, n) /\ f[1 .. n] = g[n]
  <2>1. n \in Nat
    OBVIOUS
  <2> HIDE DEF n
  <2> QED BY <1>5, <2>1, FoldSteps
<1> QED BY <1>4, <1>6 DEF s

-----------------------------------------------------------------------------
(* json: one token more is one step of the automaton more. *)
LEMMA ParseAppend ==
  ASSUME NEW s \in Text, NEW t \in Tokens
  PROVE  Parse(Append(s, t)) = Accept(Parse(s), t)
<1> DEFINE n == Len(s)
           r == Append(s, t)
<1>1. /\ n \in Nat /\ r \in Text /\ Len(r) = n + 1 /\ r[n + 1] = t
      /\ \A i \in 1 .. n : r[i] = s[i]
  BY DEF Text
<1>2. PICK f : InSteps(f, "parse", 0, Start, s, n) /\ Parse(s) = f[n]
  BY ParseInSteps
<1>3. PICK g : InSteps(g, "parse", 0, Start, r, n + 1) /\ Parse(r) = g[n + 1]
  BY <1>1, ParseInSteps
<1> HIDE DEF n, r
<1>4. f[0] = Start /\ g[0] = Start
  BY <1>2, <1>3 DEF InSteps
<1>5. \A k \in 1 .. n : f[k] = Accept(f[k - 1], s[k])
  BY <1>2 DEF InSteps, Step
<1>6. \A k \in 1 .. n + 1 : g[k] = Accept(g[k - 1], r[k])
  BY <1>3 DEF InSteps, Step
<1> DEFINE B == {k \in 0 .. n : f[k] # g[k]}
<1>7. B = {}
  <2> SUFFICES ASSUME B # {} PROVE FALSE
    OBVIOUS
  <2>1. PICK k \in B : \A x \in B : k =< x
    <3> HIDE DEF B
    <3>1. B \in SUBSET Nat
      BY <1>1 DEF B
    <3> QED BY <3>1, NatMinimum
  <2>2. k \in 1 .. n /\ k \in 1 .. n + 1 /\ k - 1 \in 0 .. n /\ f[k] # g[k]
    BY <1>1, <1>4
  <2>3. k - 1 \notin B
    <3> HIDE DEF B
    <3> QED BY <1>1, <2>1, <2>2
  <2>4. f[k - 1] = g[k - 1] /\ s[k] = r[k]
    BY <1>1, <2>2, <2>3
  <2> QED BY <1>5, <1>6, <2>2, <2>4
<1>8. f[n] = g[n]
  BY <1>1, <1>7
<1>9. g[n + 1] = Accept(g[n], r[n + 1])
  <2>1. n + 1 \in 1 .. n + 1 /\ (n + 1) - 1 = n
    BY <1>1
  <2> QED BY <1>6, <2>1
<1> QED BY <1>1, <1>2, <1>3, <1>8, <1>9 DEF r

-----------------------------------------------------------------------------
(* A builder with room for n bytes more, and where the automaton is once   *)
(* it has read what is written.                                            *)
Ready(b, n) == b \in Builder /\ n \in Nat /\ ~b.error /\ b.pos + n < b.size

State(stack, next) == [stack |-> stack, next |-> next]

(* Room that is not used. *)
LEMMA ReadyLess ==
  ASSUME NEW b, NEW n, Ready(b, n), NEW m \in Nat, m =< n
  PROVE  Ready(b, m)
<1>1. b.pos \in Nat /\ b.size \in Nat /\ n \in Nat /\ b.pos + n < b.size
  BY DEF Ready, Builder
<1>2. b.pos + m < b.size
  BY <1>1
<1> QED BY <1>2 DEF Ready

(* One text. *)
LEMMA ReadWrite ==
  ASSUME NEW b, NEW n \in Nat, Ready(b, n + 2), NEW t \in Tokens
  PROVE  /\ Ready(json_write(b, t), n)
         /\ json_write(b, t).comma = b.comma
         /\ Parse(json_write(b, t).text) = Accept(Parse(b.text), t)
<1> DEFINE d == json_write(b, t)
<1>1. b \in Builder /\ ~b.error /\ b.pos \in Nat /\ b.size \in Nat /\ b.text \in Text
      /\ b.pos + (n + 2) < b.size
  BY DEF Ready, Builder
<1>2. b.pos + 2 < b.size
  BY <1>1
<1>3. /\ d \in Builder /\ Width(t) \in 1 .. 2
      /\ d = [b EXCEPT !.text = Append(b.text, t), !.pos = b.pos + Width(t)]
  BY <1>1, <1>2, WriteFits
<1> HIDE DEF d
<1>4. /\ d.text = Append(b.text, t) /\ d.pos = b.pos + Width(t) /\ d.size = b.size
      /\ d.comma = b.comma /\ d.error = b.error
  BY <1>1, <1>3 DEF Builder
<1>5. d.pos + n < d.size
  BY <1>1, <1>3, <1>4
<1>6. Parse(d.text) = Accept(Parse(b.text), t)
  BY <1>1, <1>4, ParseAppend
<1> QED BY <1>1, <1>3, <1>4, <1>5, <1>6 DEF Ready, d

(* The flags and the depth do not matter to the reader. *)
LEMMA ReadSet ==
  ASSUME NEW b, NEW n, Ready(b, n), NEW f \in BOOLEAN
  PROVE  /\ Ready([b EXCEPT !.comma = f], n)
         /\ [b EXCEPT !.comma = f].comma = f /\ [b EXCEPT !.comma = f].text = b.text
         /\ \A e \in Int : LET c == [b EXCEPT !.depth = e, !.comma = f]
                           IN  Ready(c, n) /\ c.comma = f /\ c.text = b.text
<1>1. b \in Builder
  BY DEF Ready
<1> DEFINE c == [b EXCEPT !.comma = f]
<1>2. /\ c \in Builder /\ c.text = b.text /\ c.comma = f /\ c.error = b.error
      /\ c.pos = b.pos /\ c.size = b.size
  BY <1>1 DEF Builder
<1>3. Ready(c, n)
  <2> HIDE DEF c
  <2> QED BY <1>2 DEF Ready
<1>4. ASSUME NEW e \in Int
      PROVE  LET d == [b EXCEPT !.depth = e, !.comma = f]
             IN  Ready(d, n) /\ d.comma = f /\ d.text = b.text
  <2> DEFINE d == [b EXCEPT !.depth = e, !.comma = f]
  <2>1. /\ d \in Builder /\ d.text = b.text /\ d.comma = f /\ d.error = b.error
        /\ d.pos = b.pos /\ d.size = b.size
    BY <1>1 DEF Builder
  <2> HIDE DEF d
  <2>2. Ready(d, n)
    BY <2>1 DEF Ready
  <2> QED BY <2>1, <2>2 DEF d
<1> QED BY <1>2, <1>3, <1>4

(* json_comma_if_needed *)
LEMMA ReadComma ==
  ASSUME NEW b, NEW n \in Nat, Ready(b, n + 2)
  PROVE  LET c == json_comma_if_needed(b)
         IN  /\ Ready(c, n) /\ c.comma = FALSE
             /\ Parse(c.text) = IF b.comma THEN Accept(Parse(b.text), ",")
                                ELSE Parse(b.text)
<1>1. "," \in Tokens
  BY DEF Tokens, Punctuation
<1>2. b.comma \in BOOLEAN /\ b.pos \in Nat /\ b.size \in Nat
  BY DEF Ready, Builder
<1>3. CASE b.comma
  <2> DEFINE d == json_write(b, ",")
  <2>1. Ready(d, n) /\ Parse(d.text) = Accept(Parse(b.text), ",")
    BY <1>1, ReadWrite
  <2>2. json_comma_if_needed(b) = [d EXCEPT !.comma = FALSE]
    BY <1>3 DEF json_comma_if_needed
  <2> HIDE DEF d
  <2>3. /\ Ready([d EXCEPT !.comma = FALSE], n) /\ [d EXCEPT !.comma = FALSE].comma = FALSE
        /\ [d EXCEPT !.comma = FALSE].text = d.text
    BY <2>1, ReadSet
  <2> QED BY <1>3, <2>1, <2>2, <2>3
<1>4. CASE ~b.comma
  <2>1. Ready(b, n)
    BY <1>2 DEF Ready
  <2>2. json_comma_if_needed(b) = [b EXCEPT !.comma = FALSE]
    BY <1>4 DEF json_comma_if_needed
  <2>3. /\ Ready([b EXCEPT !.comma = FALSE], n) /\ [b EXCEPT !.comma = FALSE].comma = FALSE
        /\ [b EXCEPT !.comma = FALSE].text = b.text
    BY <2>1, ReadSet
  <2> QED BY <1>4, <2>2, <2>3
<1> QED BY <1>2, <1>3, <1>4

(* Three texts in a row. *)
LEMMA ReadThree ==
  ASSUME NEW b, NEW n \in Nat, Ready(b, n + 6),
         NEW t1 \in Tokens, NEW t2 \in Tokens, NEW t3 \in Tokens
  PROVE  LET c == WriteAll(b, <<t1, t2, t3>>)
         IN  /\ Ready(c, n) /\ c.comma = b.comma
             /\ Parse(c.text) = Accept(Accept(Accept(Parse(b.text), t1), t2), t3)
<1>1. /\ n + 6 = (n + 4) + 2 /\ n + 4 \in Nat
      /\ n + 4 = (n + 2) + 2 /\ n + 2 \in Nat
  OBVIOUS
<1> DEFINE b1 == json_write(b, t1)
           b2 == json_write(b1, t2)
           b3 == json_write(b2, t3)
<1>2. Ready(b1, n + 4) /\ b1.comma = b.comma /\ Parse(b1.text) = Accept(Parse(b.text), t1)
  BY <1>1, ReadWrite
<1>3. Ready(b2, n + 2) /\ b2.comma = b1.comma /\ Parse(b2.text) = Accept(Parse(b1.text), t2)
  <2> HIDE DEF b1
  <2> QED BY <1>1, <1>2, ReadWrite
<1>4. Ready(b3, n) /\ b3.comma = b2.comma /\ Parse(b3.text) = Accept(Parse(b2.text), t3)
  <2> HIDE DEF b2
  <2> QED BY <1>1, <1>3, ReadWrite
<1>5. WriteAll(b, <<t1, t2, t3>>) = b3
  BY WriteThree
<1> HIDE DEF b1, b2, b3
<1> QED BY <1>2, <1>3, <1>4, <1>5

-----------------------------------------------------------------------------
(* Where a value may come: at once, or behind a comma in an array. *)
Due(b, stack) ==
  \/ ~b.comma /\ Parse(b.text) \in {State(stack, "value"), State(stack, "first value")}
  \/ b.comma /\ Parse(b.text) = State(stack, "sep") /\ Last(stack) = "arr"

(* Where a key may come: in an object, behind a comma unless it is the     *)
(* first.                                                                  *)
KeyDue(b, stack) ==
  Parse(b.text) = State(stack, IF b.comma THEN "sep" ELSE "first key") /\ Last(stack) = "obj"

(* A value after the comma it may need. *)
LEMMA CommaDue ==
  ASSUME NEW b, NEW stack, NEW n \in Nat, Ready(b, n + 2), Due(b, stack)
  PROVE  LET c == json_comma_if_needed(b)
         IN  /\ Ready(c, n) /\ ~c.comma
             /\ Parse(c.text) \in {State(stack, "value"), State(stack, "first value")}
<1>1. b.comma \in BOOLEAN
  BY DEF Ready, Builder
<1>2. Last(stack) = "arr" => Accept(State(stack, "sep"), ",") = State(stack, "value")
  BY DEF Accept, State
<1> QED BY <1>1, <1>2, ReadComma DEF Due

(* json_key *)
LEMMA ReadKey ==
  ASSUME NEW b, NEW stack, NEW n \in Nat, Ready(b, n + 8), KeyDue(b, stack)
  PROVE  LET c == json_key(b)
         IN  Ready(c, n) /\ ~c.comma /\ Parse(c.text) = State(stack, "value")
<1>1. n + 8 = (n + 6) + 2 /\ n + 6 \in Nat /\ b.comma \in BOOLEAN
  BY DEF Ready, Builder
<1> DEFINE c == json_comma_if_needed(b)
           d == WriteAll(c, <<"key quote", "key text", "key colon">>)
<1>2. /\ Ready(c, n + 6) /\ c.comma = FALSE
      /\ Parse(c.text) = IF b.comma THEN Accept(Parse(b.text), ",") ELSE Parse(b.text)
  BY <1>1, ReadComma
<1>3. Parse(c.text) \in {State(stack, "key"), State(stack, "first key")}
  <2>1. Last(stack) = "obj" => Accept(State(stack, "sep"), ",") = State(stack, "key")
    BY DEF Accept, State
  <2> HIDE DEF c
  <2> QED BY <1>1, <1>2, <2>1 DEF KeyDue
<1>4. "key quote" \in Tokens /\ "key text" \in Tokens /\ "key colon" \in Tokens
  BY DEF Tokens
<1>5. /\ Ready(d, n) /\ d.comma = c.comma
      /\ Parse(d.text) =
           Accept(Accept(Accept(Parse(c.text), "key quote"), "key text"), "key colon")
  <2>1. Ready(c, n + 6)
    BY <1>2
  <2> HIDE DEF c
  <2>2. ASSUME NEW t1 \in Tokens, NEW t2 \in Tokens, NEW t3 \in Tokens
        PROVE  LET x == WriteAll(c, <<t1, t2, t3>>)
               IN  /\ Ready(x, n) /\ x.comma = c.comma
                   /\ Parse(x.text) = Accept(Accept(Accept(Parse(c.text), t1), t2), t3)
    BY <2>1, ReadThree
  <2> QED BY <1>4, <2>2, Zenon
<1>6. /\ \A x \in {"key", "first key"} :
           Accept(State(stack, x), "key quote") = State(stack, "key text")
      /\ Accept(State(stack, "key text"), "key text") = State(stack, "key colon")
      /\ Accept(State(stack, "key colon"), "key colon") = State(stack, "value")
  BY DEF Accept, State
<1>7. Parse(d.text) = State(stack, "value")
  <2> HIDE DEF c, d
  <2> QED BY <1>3, <1>5, <1>6
<1> QED BY <1>2, <1>5, <1>7 DEF json_key

(* json_string and json_literal: a value that is whole. *)
LEMMA ReadValue ==
  ASSUME NEW b, NEW stack, NEW n \in Nat, Ready(b, n + 8), Due(b, stack)
  PROVE  /\ LET c == json_string(b)
            IN  Ready(c, n) /\ c.comma = TRUE /\ Parse(c.text) = Whole(stack)
         /\ LET c == json_literal(b)
            IN  Ready(c, n) /\ c.comma = TRUE /\ Parse(c.text) = Whole(stack)
<1>1. n + 8 = (n + 6) + 2 /\ n + 6 \in Nat
  OBVIOUS
<1> DEFINE c == json_comma_if_needed(b)
           d == WriteAll(c, <<"quote", "text", "unquote">>)
           e == json_write(c, "literal")
<1>2. /\ Ready(c, n + 6)
      /\ Parse(c.text) \in {State(stack, "value"), State(stack, "first value")}
  BY <1>1, CommaDue
<1>3. "quote" \in Tokens /\ "text" \in Tokens /\ "unquote" \in Tokens /\ "literal" \in Tokens
  BY DEF Tokens
<1>4. /\ \A x \in {"value", "first value"} :
           /\ Accept(State(stack, x), "quote") = State(stack, "text")
           /\ Accept(State(stack, x), "literal") = Whole(stack)
      /\ Accept(State(stack, "text"), "text") = State(stack, "unquote")
      /\ Accept(State(stack, "unquote"), "unquote") = Whole(stack)
  BY DEF Accept, AfterValue, State
<1>5. /\ Ready(d, n)
      /\ Parse(d.text) = Accept(Accept(Accept(Parse(c.text), "quote"), "text"), "unquote")
  <2>1. Ready(c, n + 6)
    BY <1>2
  <2> HIDE DEF c
  <2> QED BY <1>3, <2>1, ReadThree
<1>6. Parse(d.text) = Whole(stack)
  <2> HIDE DEF c, d
  <2> QED BY <1>2, <1>4, <1>5
<1>7. Ready(e, n) /\ Parse(e.text) = Accept(Parse(c.text), "literal")
  <2> HIDE DEF c
  <2>1. Ready(c, n + 2)
    <3>1. Ready(c, n + 6)
      BY <1>2
    <3>2. n + 2 \in Nat /\ n + 2 =< n + 6
      OBVIOUS
    <3> QED BY <3>1, <3>2, ReadyLess
  <2> QED BY <1>3, <2>1, ReadWrite
<1>8. Parse(e.text) = Whole(stack)
  <2> HIDE DEF c, e
  <2> QED BY <1>2, <1>4, <1>7
<1>9. json_string(b) = [d EXCEPT !.comma = TRUE] /\ json_literal(b) = [e EXCEPT !.comma = TRUE]
  BY DEF json_string, json_literal
<1> HIDE DEF d, e
<1>10. /\ Ready([d EXCEPT !.comma = TRUE], n) /\ [d EXCEPT !.comma = TRUE].comma = TRUE
       /\ [d EXCEPT !.comma = TRUE].text = d.text
  BY <1>5, ReadSet
<1>11. /\ Ready([e EXCEPT !.comma = TRUE], n) /\ [e EXCEPT !.comma = TRUE].comma = TRUE
       /\ [e EXCEPT !.comma = TRUE].text = e.text
  BY <1>7, ReadSet
<1> QED BY <1>6, <1>8, <1>9, <1>10, <1>11

-----------------------------------------------------------------------------
(* Where an element may come in an array. *)
ItemDue(b, stack) ==
  Parse(b.text) = State(stack, IF b.comma THEN "sep" ELSE "first value") /\ Last(stack) = "arr"

(* json_object_start and json_array_start *)
LEMMA ReadStart ==
  ASSUME NEW b, NEW stack, NEW n \in Nat, Ready(b, n + 4), Due(b, stack)
  PROVE  /\ LET c == json_object_start(b)
            IN  /\ Ready(c, n) /\ ~c.comma
                /\ Parse(c.text) = State(Append(stack, "obj"), "first key")
         /\ LET c == json_array_start(b)
            IN  /\ Ready(c, n) /\ ~c.comma
                /\ Parse(c.text) = State(Append(stack, "arr"), "first value")
<1>1. n + 4 = (n + 2) + 2 /\ n + 2 \in Nat
  OBVIOUS
<1> DEFINE c == json_comma_if_needed(b)
<1>2. /\ Ready(c, n + 2)
      /\ Parse(c.text) \in {State(stack, "value"), State(stack, "first value")}
  BY <1>1, CommaDue
<1>3. ASSUME NEW x \in {"value", "first value"}
      PROVE  /\ Accept(State(stack, x), "{") = State(Append(stack, "obj"), "first key")
             /\ Accept(State(stack, x), "[") = State(Append(stack, "arr"), "first value")
  BY DEF Accept, AfterValue, State
<1>4. ASSUME NEW t \in Tokens
      PROVE  LET d == JsonStart(b, t)
             IN  Ready(d, n) /\ ~d.comma /\ Parse(d.text) = Accept(Parse(c.text), t)
  <2> DEFINE e == json_write(c, t)
             z == e.depth + 1
  <2>1. Ready(e, n) /\ Parse(e.text) = Accept(Parse(c.text), t)
    <3> HIDE DEF c
    <3> QED BY <1>2, ReadWrite
  <2>2. JsonStart(b, t) = [e EXCEPT !.depth = z, !.comma = FALSE]
    BY DEF JsonStart
  <2>3. z \in Int
    <3> HIDE DEF e
    <3> QED BY <2>1 DEF Ready, Builder
  <2> HIDE DEF c, e, z
  <2>4. LET d == [e EXCEPT !.depth = z, !.comma = FALSE]
        IN  Ready(d, n) /\ d.comma = FALSE /\ d.text = e.text
    BY <2>1, <2>3, ReadSet
  <2> QED BY <2>1, <2>2, <2>4
<1>5. "{" \in Tokens /\ "[" \in Tokens
  BY DEF Tokens, Punctuation
<1> HIDE DEF c
<1>6. /\ Accept(Parse(c.text), "{") = State(Append(stack, "obj"), "first key")
      /\ Accept(Parse(c.text), "[") = State(Append(stack, "arr"), "first value")
  BY <1>2, <1>3
<1> QED BY <1>4, <1>5, <1>6 DEF json_object_start, json_array_start

(* json_object_end and json_array_end *)
LEMMA ReadEnd ==
  ASSUME NEW b, NEW stack, NEW n \in Nat, Ready(b, n + 2)
  PROVE  /\ LET c == json_object_end(b)
            IN  /\ Ready(c, n) /\ c.comma = TRUE
                /\ KeyDue(b, stack) => Parse(c.text) = Whole(Front(stack))
         /\ LET c == json_array_end(b)
            IN  /\ Ready(c, n) /\ c.comma = TRUE
                /\ ItemDue(b, stack) => Parse(c.text) = Whole(Front(stack))
<1>1. ASSUME NEW t \in Tokens
      PROVE  LET d == [json_write(b, t) EXCEPT !.depth = @ - 1, !.comma = TRUE]
             IN  Ready(d, n) /\ d.comma = TRUE /\ Parse(d.text) = Accept(Parse(b.text), t)
  <2> DEFINE e == json_write(b, t)
             z == e.depth - 1
  <2>1. Ready(e, n) /\ Parse(e.text) = Accept(Parse(b.text), t)
    BY ReadWrite
  <2> HIDE DEF e
  <2>2. z \in Int
    BY <2>1 DEF Ready, Builder
  <2> HIDE DEF z
  <2>3. LET d == [e EXCEPT !.depth = z, !.comma = TRUE]
        IN  Ready(d, n) /\ d.comma = TRUE /\ d.text = e.text
    BY <2>1, <2>2, ReadSet
  <2> QED BY <2>1, <2>3 DEF e, z
<1>2. "}" \in Tokens /\ "]" \in Tokens
  BY DEF Tokens, Punctuation
<1>3. ASSUME Last(stack) = "obj", NEW x \in {"sep", "first key"}
      PROVE  Accept(State(stack, x), "}") = Whole(Front(stack))
  BY <1>3, ZenonT(30) DEF Accept, Closed, State
<1>4. ASSUME Last(stack) = "arr", NEW x \in {"sep", "first value"}
      PROVE  Accept(State(stack, x), "]") = Whole(Front(stack))
  BY <1>4, ZenonT(30) DEF Accept, Closed, State
<1>5. KeyDue(b, stack) => Accept(Parse(b.text), "}") = Whole(Front(stack))
  BY <1>3 DEF KeyDue
<1>6. ItemDue(b, stack) => Accept(Parse(b.text), "]") = Whole(Front(stack))
  BY <1>4 DEF ItemDue
<1>7. LET c == json_object_end(b)
      IN  Ready(c, n) /\ c.comma = TRUE /\ Parse(c.text) = Accept(Parse(b.text), "}")
  BY <1>1, <1>2 DEF json_object_end
<1>8. LET c == json_array_end(b)
      IN  Ready(c, n) /\ c.comma = TRUE /\ Parse(c.text) = Accept(Parse(b.text), "]")
  BY <1>1, <1>2 DEF json_array_end
<1> QED BY <1>5, <1>6, <1>7, <1>8

(* json_kv and json_kv_string *)
LEMMA ReadPair ==
  ASSUME NEW b, NEW stack, NEW n \in Nat, Ready(b, n + 20), KeyDue(b, stack)
  PROVE  /\ json_kv(b).comma = TRUE /\ Parse(json_kv(b).text) = Whole(stack)
         /\ json_kv_string(b).comma = TRUE /\ Parse(json_kv_string(b).text) = Whole(stack)
<1> DEFINE c == json_key(b)
           d == [c EXCEPT !.comma = FALSE]
<1>1. n + 20 = (n + 12) + 8 /\ n + 12 \in Nat /\ n + 8 \in Nat /\ n + 8 =< n + 12
  OBVIOUS
<1>2. Ready(c, n + 12) /\ ~c.comma /\ Parse(c.text) = State(stack, "value")
  BY <1>1, ReadKey
<1>3. Ready(d, n + 12) /\ d.comma = FALSE /\ d.text = c.text
  <2> HIDE DEF c
  <2> QED BY <1>2, ReadSet
<1>4. Due(d, stack)
  <2> HIDE DEF c, d
  <2> QED BY <1>2, <1>3 DEF Due
<1>5. Ready(d, n + 8)
  <2> HIDE DEF d
  <2> QED BY <1>1, <1>3, ReadyLess
<1>6. /\ json_string(d).comma = TRUE /\ Parse(json_string(d).text) = Whole(stack)
      /\ json_literal(d).comma = TRUE /\ Parse(json_literal(d).text) = Whole(stack)
  <2> HIDE DEF d
  <2> QED BY <1>4, <1>5, ReadValue
<1> QED BY <1>6 DEF json_kv, json_kv_string

-----------------------------------------------------------------------------
(* The caller's nesting, and what has to come next in it. *)
Nesting == Seq({"obj", "arr"})

Placed(b, open, keyed, calls) ==
  /\ keyed => /\ open # << >> /\ Last(open) = "obj"
              /\ ~b.comma /\ Parse(b.text) = State(open, "value")
  /\ ~keyed /\ open = << >> /\ calls = 0 =>
       ~b.comma /\ Parse(b.text) = State(open, "value")
  /\ ~keyed /\ open = << >> /\ calls # 0 => Parse(b.text) = State(open, "end")
  /\ ~keyed /\ open # << >> => KeyDue(b, open) \/ ItemDue(b, open)

WriterInv ==
  /\ JsonInv
  /\ jsonOpen \in Nesting /\ jsonKeyed \in BOOLEAN
  /\ Placed(ideal, jsonOpen, jsonKeyed, jsonCalls)

(* A value that is whole leaves the reader where the caller is. *)
LEMMA WholePlaced ==
  ASSUME NEW b, NEW open \in Nesting, NEW calls, calls # 0,
         b.comma = TRUE, Parse(b.text) = Whole(open)
  PROVE  Placed(b, open, FALSE, calls)
<1>1. CASE open = << >>
  BY <1>1 DEF Placed, Whole, State
<1>2. CASE open # << >>
  <2>1. Last(open) \in {"obj", "arr"}
    BY <1>2 DEF Nesting, Last
  <2>2. Parse(b.text) = State(open, "sep")
    BY <1>2 DEF Whole, State
  <2> QED BY <1>2, <2>1, <2>2 DEF Placed, KeyDue, ItemDue
<1> QED BY <1>1, <1>2

-----------------------------------------------------------------------------
(* Every call of a caller that nests properly is where the reader wants    *)
(* it.                                                                     *)
LEMMA WriterStep ==
  ASSUME WriterInv, JsonNext
  PROVE  WriterInv'
<1>1. JsonInv'
  BY JsonStep DEF WriterInv
<1>2. CASE JsonDone
  <2>1. UNCHANGED <<ideal, jsonOpen, jsonKeyed, jsonCalls>>
    BY <1>2 DEF JsonDone, jsonVars
  <2> QED BY <1>1, <2>1 DEF WriterInv
<1>3. CASE ~JsonDone
  <2> DEFINE m == RoomLeft(jsonCalls + 1)
  <2>1. jsonCalls < JsonMaxCalls /\ jsonCalls' = jsonCalls + 1
    BY <1>3 DEF JsonNext, ObjectStart, ArrayStart, ObjectEnd, ArrayEnd, JsonKey, JsonValue,
                KeyValue, JsonCall
  <2>2. m \in Nat /\ RoomLeft(jsonCalls) = m + 20 /\ jsonCalls' # 0 /\ jsonCalls \in Nat
    BY <2>1, JsonAssumption DEF WriterInv, JsonInv, RoomLeft
  <2> HIDE DEF m
  <2>3. Ready(ideal, m + 20)
    BY <2>2 DEF WriterInv, JsonInv, Paired, Ready
  <2>4. Ready(ideal, m + 2) /\ Ready(ideal, m + 4) /\ Ready(ideal, m + 8)
    <3>1. /\ m + 2 \in Nat /\ m + 4 \in Nat /\ m + 8 \in Nat
          /\ m + 2 =< m + 20 /\ m + 4 =< m + 20 /\ m + 8 =< m + 20
      BY <2>2
    <3> QED BY <2>3, <3>1, ReadyLess
  <2>5. jsonOpen \in Nesting /\ jsonKeyed \in BOOLEAN
        /\ Placed(ideal, jsonOpen, jsonKeyed, jsonCalls) /\ ideal.comma \in BOOLEAN
    BY <2>3 DEF WriterInv, Ready, Builder
  <2>6. InObject /\ ~jsonKeyed => KeyDue(ideal, jsonOpen)
    BY <2>5 DEF InObject, Placed, KeyDue, ItemDue
  <2>7. InArray => ~jsonKeyed /\ ItemDue(ideal, jsonOpen)
    BY <2>5 DEF InArray, Placed, KeyDue, ItemDue
  <2>8. ValueDue => Due(ideal, jsonOpen)
    <3>1. CASE jsonKeyed
      BY <2>5, <3>1 DEF Placed, Due
    <3>2. CASE InArray
      BY <2>5, <2>7, <3>2 DEF ItemDue, Due
    <3>3. CASE ~jsonKeyed /\ jsonOpen = << >> /\ jsonCalls = 0
      BY <2>5, <3>3 DEF Placed, Due
    <3> QED BY <2>5, <3>1, <3>2, <3>3 DEF ValueDue
  <2>9. ASSUME NEW k \in {"obj", "arr"}
        PROVE  /\ Append(jsonOpen, k) \in Nesting /\ Append(jsonOpen, k) # << >>
               /\ Last(Append(jsonOpen, k)) = k
    BY <2>5 DEF Nesting, Last
  <2>10. jsonOpen # << >> => Front(jsonOpen) \in Nesting
    BY <2>5 DEF Nesting, Front
  <2> SUFFICES /\ jsonOpen' \in Nesting /\ jsonKeyed' \in BOOLEAN
               /\ Placed(ideal', jsonOpen', jsonKeyed', jsonCalls')
    BY <1>1 DEF WriterInv
  <2>11. CASE ObjectStart
    <3>1. /\ ValueDue /\ jsonOpen' = Append(jsonOpen, "obj") /\ jsonKeyed' = FALSE
          /\ ideal' = json_object_start(ideal)
      BY <2>11 DEF ObjectStart, Opens, JsonCall
    <3>2. ~ideal'.comma /\ Parse(ideal'.text) = State(jsonOpen', "first key")
      BY <2>2, <2>4, <2>8, <3>1, ReadStart
    <3>3. KeyDue(ideal', jsonOpen') /\ jsonOpen' \in Nesting /\ jsonOpen' # << >>
      BY <2>9, <3>1, <3>2 DEF KeyDue
    <3> QED BY <3>1, <3>3 DEF Placed
  <2>12. CASE ArrayStart
    <3>1. /\ ValueDue /\ jsonOpen' = Append(jsonOpen, "arr") /\ jsonKeyed' = FALSE
          /\ ideal' = json_array_start(ideal)
      BY <2>12 DEF ArrayStart, Opens, JsonCall
    <3>2. ~ideal'.comma /\ Parse(ideal'.text) = State(jsonOpen', "first value")
      BY <2>2, <2>4, <2>8, <3>1, ReadStart
    <3>3. ItemDue(ideal', jsonOpen') /\ jsonOpen' \in Nesting /\ jsonOpen' # << >>
      BY <2>9, <3>1, <3>2 DEF ItemDue
    <3> QED BY <3>1, <3>3 DEF Placed
  <2>13. CASE ObjectEnd
    <3>1. /\ InObject /\ ~jsonKeyed /\ jsonOpen' = Front(jsonOpen) /\ jsonKeyed' = jsonKeyed
          /\ ideal' = json_object_end(ideal)
      BY <2>13 DEF ObjectEnd, Closes, JsonCall
    <3>2. ideal'.comma = TRUE /\ Parse(ideal'.text) = Whole(jsonOpen')
      BY <2>2, <2>4, <2>6, <3>1, ReadEnd
    <3>3. jsonOpen' \in Nesting /\ jsonKeyed' = FALSE
      BY <2>5, <2>10, <3>1 DEF InObject
    <3> QED BY <2>2, <3>2, <3>3, WholePlaced
  <2>14. CASE ArrayEnd
    <3>1. /\ InArray /\ jsonOpen' = Front(jsonOpen) /\ jsonKeyed' = jsonKeyed
          /\ ideal' = json_array_end(ideal)
      BY <2>14 DEF ArrayEnd, Closes, JsonCall
    <3>2. ideal'.comma = TRUE /\ Parse(ideal'.text) = Whole(jsonOpen')
      BY <2>2, <2>4, <2>7, <3>1, ReadEnd
    <3>3. jsonOpen' \in Nesting /\ jsonKeyed' = FALSE
      BY <2>5, <2>7, <2>10, <3>1 DEF InArray
    <3> QED BY <2>2, <3>2, <3>3, WholePlaced
  <2>15. CASE JsonKey
    <3>1. /\ InObject /\ ~jsonKeyed /\ jsonOpen' = jsonOpen /\ jsonKeyed' = TRUE
          /\ ideal' = json_key(ideal)
      BY <2>15 DEF JsonKey, JsonCall
    <3>2. ~ideal'.comma /\ Parse(ideal'.text) = State(jsonOpen', "value")
      BY <2>2, <2>4, <2>6, <3>1, ReadKey
    <3> QED BY <2>5, <3>1, <3>2 DEF Placed, InObject
  <2>16. CASE JsonValue
    <3>1. /\ ValueDue /\ jsonOpen' = jsonOpen /\ jsonKeyed' = FALSE
          /\ ideal' = json_string(ideal) \/ ideal' = json_literal(ideal)
      BY <2>16 DEF JsonValue, JsonCall
    <3>2. ideal'.comma = TRUE /\ Parse(ideal'.text) = Whole(jsonOpen')
      BY <2>2, <2>4, <2>8, <3>1, ReadValue
    <3> QED BY <2>2, <2>5, <3>1, <3>2, WholePlaced
  <2>17. CASE KeyValue
    <3>1. /\ InObject /\ ~jsonKeyed /\ jsonOpen' = jsonOpen /\ jsonKeyed' = jsonKeyed
          /\ ideal' = json_kv(ideal) \/ ideal' = json_kv_string(ideal)
      BY <2>17 DEF KeyValue, JsonCall
    <3>2. ideal'.comma = TRUE /\ Parse(ideal'.text) = Whole(jsonOpen')
      BY <2>2, <2>3, <2>6, <3>1, ReadPair
    <3>3. jsonKeyed' = FALSE
      BY <2>5, <3>1
    <3> QED BY <2>2, <2>5, <3>1, <3>2, <3>3, WholePlaced
  <2> QED BY <1>3, <2>11, <2>12, <2>13, <2>14, <2>15, <2>16, <2>17 DEF JsonNext
<1> QED BY <1>2, <1>3

(* The writer stays where the text says. *)
LEMMA WriterAlways == Spec => []WriterInv
<1>1. Init => WriterInv
  <2> SUFFICES ASSUME Init PROVE WriterInv
    OBVIOUS
  <2>1. JsonInv
    BY JsonBegins
  <2>2. /\ ideal.text = << >> /\ ideal.comma = FALSE /\ jsonOpen = << >>
        /\ jsonKeyed = FALSE /\ jsonCalls = 0
    BY DEF Init, JsonInit, json_init
  <2>3. << >> \in Text /\ Len(<< >>) = 0 /\ << >> \in Nesting
    BY DEF Text, Nesting
  <2>4. Parse(<< >>) = Start
    <3>1. PICK g : InSteps(g, "parse", 0, Start, << >>, 0) /\ Parse(<< >>) = g[0]
      BY <2>3, ParseInSteps
    <3>2. g[0] = Start
      BY <3>1 DEF InSteps
    <3> QED BY <3>1, <3>2
  <2>5. Placed(ideal, jsonOpen, jsonKeyed, jsonCalls)
    BY <2>2, <2>4 DEF Placed, Start, State
  <2> QED BY <2>1, <2>2, <2>3, <2>5 DEF WriterInv
<1>2. WriterInv /\ [Next]_vars => WriterInv'
  <2>1. CASE UNCHANGED jsonVars
    BY <2>1 DEF jsonVars, JsonInv, WriterInv
  <2> QED BY <2>1, WriterStep, PartSteps
<1> QED BY <1>1, <1>2, PTL DEF Spec

(* As long as the buffer suffices the text is JSON with the caller's       *)
(* nesting, for any calls and any depth.                                   *)
THEOREM WellFormedHolds == Spec => []WellFormed
<1>1. WriterInv => WellFormed
  <2> SUFFICES ASSUME WriterInv PROVE WellFormed
    OBVIOUS
  <2>1. /\ jsonCalls \in Nat /\ jsonKeyed \in BOOLEAN
        /\ Placed(ideal, jsonOpen, jsonKeyed, jsonCalls)
    BY DEF WriterInv, JsonInv
  <2>2. \E x \in {"value", "end", "sep", "first key", "first value"} :
          Parse(ideal.text) = State(jsonOpen, x)
    BY <2>1 DEF Placed, KeyDue, ItemDue
  <2>3. jsonOpen = << >> /\ jsonCalls > 0 => Parse(ideal.text) = State(jsonOpen, "end")
    BY <2>1 DEF Placed
  <2>4. /\ Parse(ideal.text).next # "bad"
        /\ Parse(ideal.text).stack = jsonOpen
        /\ jsonOpen = << >> /\ jsonCalls > 0 => Parse(ideal.text).next = "end"
    <3>1. ASSUME NEW x PROVE State(jsonOpen, x).next = x /\ State(jsonOpen, x).stack = jsonOpen
      BY DEF State
    <3>2. PICK x \in {"value", "end", "sep", "first key", "first value"} :
            Parse(ideal.text) = State(jsonOpen, x)
      BY <2>2
    <3>3. Parse(ideal.text).next = x /\ Parse(ideal.text).stack = jsonOpen
      BY <3>1, <3>2
    <3>4. jsonOpen = << >> /\ jsonCalls > 0 => Parse(ideal.text).next = "end"
      BY <2>3, <3>1
    <3> QED BY <3>3, <3>4
  <2> QED BY <2>4 DEF WellFormed
<1> QED BY <1>1, WriterAlways, PTL

-----------------------------------------------------------------------------
(* fdmon: what the linear search in find_previous and                      *)
(* find_or_create_initial finds.                                           *)
Holds(samples, p) == \E k \in 1 .. Len(samples) : samples[k].pid = p

(* Find finds the process if it is there, and returns 0 if not. *)
LEMMA FindHolds ==
  ASSUME NEW S, NEW samples \in Seq(S), NEW p
  PROVE  LET k == Find(samples, p)
         IN  IF Holds(samples, p) THEN k \in 1 .. Len(samples) /\ samples[k].pid = p
             ELSE k = 0
<1> DEFINE I == {k \in 1 .. Len(samples) : samples[k].pid = p}
<1>1. Find(samples, p) = IF I # {} THEN Min(I) ELSE 0
  BY DEF Find, SelectInSeq
<1>2. Holds(samples, p) <=> I # {}
  BY DEF Holds
<1>3. I # {} => Min(I) \in I
  <2>1. I \in SUBSET Nat
    OBVIOUS
  <2> HIDE DEF I
  <2> QED BY <2>1, MinIsLeast
<1> QED BY <1>1, <1>2, <1>3

FdSamples == Seq(FdSample)

(* Every sample of the pool is the first one of its process. *)
FirstKept ==
  \A k \in 1 .. Len(fdInitial) :
    fdInitial[k].n = fdFirst[fdInitial[k].pid] /\ fdFirst[fdInitial[k].pid] # -1

(* A process that was read is in the pool, or came when it was full. *)
SeenOrFull ==
  \A p \in FdPids : fdFirst[p] # -1 => Holds(fdInitial, p) \/ Len(fdInitial) >= FdPoolSize

(* An entry is about a process that was read, and truthful. *)
EntryTruthful(e, pool, first) ==
  /\ e.pid \in FdPids /\ first[e.pid] # -1
  /\ e.change = IF Holds(pool, e.pid) THEN e.n - first[e.pid] ELSE 0

FdInv ==
  /\ fdTodo \subseteq FdPids
  /\ fdInitial \in FdSamples
  /\ fdFirst \in [FdPids -> Counts \cup {-1}]
  /\ FirstKept /\ SeenOrFull
  /\ \A e \in fdAll \cup consumers \cup leakers : EntryTruthful(e, fdInitial, fdFirst)

(* A process is read: the baseline it is compared with is its first count, *)
(* unless the pool is full and has none of it.                             *)
LEMMA FdReadStep ==
  ASSUME FdInv, NEW v \in Counts, FdReadPid(v)
  PROVE  FdInv'
<1> DEFINE p == Min(fdTodo)
           s == [pid |-> p, n |-> v]
           base == InitialOf(fdInitial, FdPoolSize, s)
           k == Find(fdPrevious, p)
           e == [pid |-> p, n |-> v, baseline |-> base.n, change |-> v - base.n,
                 delta |-> IF k # 0 THEN v - fdPrevious[k].n ELSE 0]
           held == Holds(fdInitial, p)
           room == ~held /\ ~(Len(fdInitial) >= FdPoolSize)
<1>1. /\ fdTodo # {} /\ fdTodo' = fdTodo \ {p}
      /\ fdInitial' = FindOrCreate(fdInitial, FdPoolSize, s)
      /\ fdAll' = fdAll \cup {e}
      /\ fdFirst' = [fdFirst EXCEPT ![p] = IF @ = -1 THEN v ELSE @]
      /\ consumers' = consumers /\ leakers' = leakers
  BY DEF FdReadPid, FdScanning, FdPid
<1>2. /\ fdTodo \subseteq FdPids /\ fdInitial \in FdSamples
      /\ fdFirst \in [FdPids -> Counts \cup {-1}]
      /\ FirstKept /\ SeenOrFull
  BY DEF FdInv
<1>3. p \in FdPids
  <2>1. fdTodo \in SUBSET Nat
    BY <1>2, FdMonAssumption
  <2> QED BY <1>1, <1>2, <2>1, MinIsLeast
<1>4. s \in FdSample /\ s.pid = p /\ s.n = v /\ v \in Nat /\ v # -1 /\ FdPoolSize \in Nat
  BY <1>3, FdMonAssumption DEF FdSample
<1>5. Len(fdInitial) \in Nat
  BY <1>2 DEF FdSamples
<1>6. Find(fdInitial, p) # 0 <=> held
  BY <1>2, FindHolds DEF FdSamples
<1>7. e.pid = p /\ e.n = v /\ e.change = v - base.n
  OBVIOUS
<1> HIDE DEF e
<1>8. CASE ~room
  <2>1. fdInitial' = fdInitial
    BY <1>1, <1>4, <1>6, <1>8 DEF FindOrCreate
  <2>2. base = IF held THEN fdInitial[Find(fdInitial, p)] ELSE s
    BY <1>4, <1>6, <1>8 DEF InitialOf, FindOrCreate
  <2>3. held => base.n = fdFirst[p] /\ fdFirst[p] # -1
    <3> SUFFICES ASSUME held PROVE base.n = fdFirst[p] /\ fdFirst[p] # -1
      OBVIOUS
    <3>1. Find(fdInitial, p) \in 1 .. Len(fdInitial) /\ fdInitial[Find(fdInitial, p)].pid = p
      BY <1>2, FindHolds DEF FdSamples
    <3> QED BY <1>2, <2>2, <3>1 DEF FirstKept
  <2> HIDE DEF base, s
  <2>4. ASSUME NEW q \in FdPids, fdFirst[q] # -1 PROVE fdFirst'[q] = fdFirst[q]
    BY <1>1, <1>2, <1>3, <2>4
  <2>5. fdFirst'[p] # -1
    BY <1>1, <1>2, <1>3, <1>4
  <2>6. fdFirst' \in [FdPids -> Counts \cup {-1}]
    BY <1>1, <1>2, <1>3
  <2>7. FirstKept'
    <3> SUFFICES ASSUME NEW i \in 1 .. Len(fdInitial)
                 PROVE  /\ fdInitial[i].n = fdFirst'[fdInitial[i].pid]
                        /\ fdFirst'[fdInitial[i].pid] # -1
      BY <2>1 DEF FirstKept
    <3>1. fdInitial[i].pid \in FdPids
      <4>1. fdInitial[i] \in FdSample
        BY <1>2 DEF FdSamples
      <4> QED BY <4>1 DEF FdSample
    <3>2. /\ fdInitial[i].n = fdFirst[fdInitial[i].pid]
          /\ fdFirst[fdInitial[i].pid] # -1
      BY <1>2 DEF FirstKept
    <3> QED BY <2>4, <3>1, <3>2
  <2>8. SeenOrFull'
    <3> SUFFICES ASSUME NEW q \in FdPids, fdFirst'[q] # -1
                 PROVE  Holds(fdInitial, q) \/ Len(fdInitial) >= FdPoolSize
      BY <2>1 DEF SeenOrFull
    <3>1. CASE q = p
      BY <1>8, <3>1
    <3>2. CASE q # p
      <4>1. fdFirst'[q] = fdFirst[q]
        BY <1>1, <1>2, <1>3, <3>2
      <4> QED BY <1>2, <4>1 DEF SeenOrFull
    <3> QED BY <3>1, <3>2
  <2>9. EntryTruthful(e, fdInitial', fdFirst')
    <3>1. CASE held
      <4>1. fdFirst'[p] = fdFirst[p] /\ base.n = fdFirst'[p]
        BY <1>3, <2>3, <2>4, <3>1
      <4>2. Holds(fdInitial', e.pid)
        BY <1>7, <2>1, <3>1
      <4> QED BY <1>3, <1>7, <2>5, <4>1, <4>2 DEF EntryTruthful
    <3>2. CASE ~held
      <4>1. base.n = v
        BY <1>4, <2>2, <3>2
      <4>2. v - base.n = 0
        BY <1>4, <4>1
      <4>3. ~Holds(fdInitial', e.pid)
        BY <1>7, <2>1, <3>2
      <4> QED BY <1>3, <1>7, <2>5, <4>2, <4>3 DEF EntryTruthful
    <3> QED BY <3>1, <3>2
  <2>10. ASSUME NEW x \in fdAll \cup consumers \cup leakers PROVE EntryTruthful(x, fdInitial', fdFirst')
    <3>1. EntryTruthful(x, fdInitial, fdFirst)
      BY DEF FdInv
    <3>2. x.pid \in FdPids /\ fdFirst'[x.pid] = fdFirst[x.pid]
      BY <2>4, <3>1 DEF EntryTruthful
    <3> QED BY <2>1, <3>1, <3>2 DEF EntryTruthful
  <2> QED BY <1>1, <1>2, <2>1, <2>6, <2>7, <2>8, <2>9, <2>10 DEF FdInv
<1>9. CASE room
  <2>1. fdInitial' = Append(fdInitial, s)
    BY <1>1, <1>4, <1>6, <1>9 DEF FindOrCreate
  <2>2. /\ fdInitial' \in FdSamples /\ Len(fdInitial') = Len(fdInitial) + 1
        /\ fdInitial'[Len(fdInitial) + 1] = s
        /\ \A i \in 1 .. Len(fdInitial) : fdInitial'[i] = fdInitial[i]
    <3> HIDE DEF s
    <3> QED BY <1>2, <1>4, <2>1 DEF FdSamples
  <2>3. ASSUME NEW q PROVE Holds(fdInitial', q) <=> Holds(fdInitial, q) \/ q = p
    <3>1. 1 .. Len(fdInitial') = (1 .. Len(fdInitial)) \cup {Len(fdInitial) + 1}
      BY <1>5, <2>2
    <3> QED BY <1>4, <2>2, <3>1 DEF Holds
  <2>4. fdFirst[p] = -1
    BY <1>2, <1>3, <1>9 DEF SeenOrFull
  <2>5. fdFirst' = [fdFirst EXCEPT ![p] = v]
    BY <1>1, <1>2, <1>3, <2>4
  <2>6. fdFirst'[p] = v /\ \A q \in FdPids : q # p => fdFirst'[q] = fdFirst[q]
    BY <1>2, <1>3, <2>5
  <2>7. fdFirst' \in [FdPids -> Counts \cup {-1}]
    BY <1>2, <1>3, <2>5
  <2>8. base.n = v
    <3> DEFINE m == Find(fdInitial', p)
    <3>1. Holds(fdInitial', p)
      BY <2>3
    <3>2. m \in 1 .. Len(fdInitial') /\ fdInitial'[m].pid = p
      BY <2>2, <3>1, FindHolds DEF FdSamples
    <3>3. m = Len(fdInitial) + 1
      <4> SUFFICES ASSUME m # Len(fdInitial) + 1 PROVE FALSE
        OBVIOUS
      <4>1. m \in 1 .. Len(fdInitial)
        <5> HIDE DEF m
        <5> QED BY <1>5, <2>2, <3>2
      <4>2. Holds(fdInitial, p)
        <5> HIDE DEF m
        <5> QED BY <2>2, <3>2, <4>1 DEF Holds
      <4> QED BY <1>9, <4>2
    <3>4. base = s
      <4>1. m # 0
        BY <1>5, <3>3
      <4>2. base = IF m # 0 THEN fdInitial'[m] ELSE s
        BY <1>1, <1>4 DEF InitialOf
      <4> QED BY <2>2, <3>3, <4>1, <4>2
    <3> QED BY <1>4, <3>4
  <2> HIDE DEF base, s
  <2>9. FirstKept'
    <3> SUFFICES ASSUME NEW i \in 1 .. Len(fdInitial')
                 PROVE  /\ fdInitial'[i].n = fdFirst'[fdInitial'[i].pid]
                        /\ fdFirst'[fdInitial'[i].pid] # -1
      BY DEF FirstKept
    <3>1. CASE i = Len(fdInitial) + 1
      BY <1>4, <2>2, <2>6, <3>1
    <3>2. CASE i \in 1 .. Len(fdInitial)
      <4>1. fdInitial[i].pid \in FdPids
        <5>1. fdInitial[i] \in FdSample
          BY <1>2, <3>2 DEF FdSamples
        <5> QED BY <5>1 DEF FdSample
      <4>2. /\ fdInitial[i].n = fdFirst[fdInitial[i].pid]
            /\ fdFirst[fdInitial[i].pid] # -1
        BY <1>2, <3>2 DEF FirstKept
      <4>3. fdInitial[i].pid # p
        BY <1>9, <3>2 DEF Holds
      <4> QED BY <2>2, <2>6, <3>2, <4>1, <4>2, <4>3
    <3> QED BY <1>5, <2>2, <3>1, <3>2
  <2>10. SeenOrFull'
    <3> SUFFICES ASSUME NEW q \in FdPids, fdFirst'[q] # -1
                 PROVE  Holds(fdInitial', q) \/ Len(fdInitial') >= FdPoolSize
      BY DEF SeenOrFull
    <3>1. CASE q = p
      BY <2>3, <3>1
    <3>2. CASE q # p
      <4>1. fdFirst[q] # -1
        BY <2>6, <3>2
      <4>2. Holds(fdInitial, q) \/ Len(fdInitial) >= FdPoolSize
        BY <1>2, <4>1 DEF SeenOrFull
      <4> QED BY <1>4, <1>5, <2>2, <2>3, <4>2
    <3> QED BY <3>1, <3>2
  <2>11. EntryTruthful(e, fdInitial', fdFirst')
    <3>1. Holds(fdInitial', e.pid)
      BY <1>7, <2>3
    <3> QED BY <1>3, <1>4, <1>7, <2>6, <2>8, <3>1 DEF EntryTruthful
  <2>12. ASSUME NEW x \in fdAll \cup consumers \cup leakers PROVE EntryTruthful(x, fdInitial', fdFirst')
    <3>1. EntryTruthful(x, fdInitial, fdFirst)
      BY DEF FdInv
    <3>2. x.pid \in FdPids /\ x.pid # p /\ fdFirst'[x.pid] = fdFirst[x.pid]
      BY <2>4, <2>6, <3>1 DEF EntryTruthful
    <3>3. Holds(fdInitial', x.pid) <=> Holds(fdInitial, x.pid)
      BY <2>3, <3>2
    <3> QED BY <3>1, <3>2, <3>3 DEF EntryTruthful
  <2> QED BY <1>1, <1>2, <2>2, <2>7, <2>9, <2>10, <2>11, <2>12 DEF FdInv
<1> QED BY <1>8, <1>9

(* Every step of fdmon keeps its invariant. *)
LEMMA FdAlways == Spec => []FdInv
<1>1. Init => FdInv
  <2> SUFFICES ASSUME FdInit PROVE FdInv
    BY DEF Init
  <2>1. /\ fdTodo \subseteq FdPids /\ fdInitial \in FdSamples
        /\ fdFirst \in [FdPids -> Counts \cup {-1}] /\ Len(fdInitial) = 0
        /\ \A p \in FdPids : fdFirst[p] = -1
    BY DEF FdInit, FdSamples
  <2>2. fdAll \cup consumers \cup leakers = {}
    BY DEF FdInit
  <2> QED BY <2>1, <2>2 DEF FdInv, FirstKept, SeenOrFull
<1>2. FdInv /\ [Next]_vars => FdInv'
  <2> SUFFICES ASSUME FdInv, FdNext \/ UNCHANGED fdVars PROVE FdInv'
    BY PartSteps
  <2>1. ASSUME UNCHANGED <<fdInitial, fdFirst>>, fdTodo' \subseteq FdPids,
               fdAll' \cup consumers' \cup leakers' \subseteq fdAll \cup consumers \cup leakers
        PROVE  FdInv'
    BY <2>1 DEF FdInv, FirstKept, SeenOrFull, EntryTruthful
  <2>2. CASE UNCHANGED fdVars
    BY <2>1, <2>2 DEF fdVars, fdArrays, fdResults, FdInv
  <2>3. CASE FdBeginCollect
    BY <2>1, <2>3 DEF FdBeginCollect, FdInv
  <2>4. CASE FdSkipPid
    BY <2>1, <2>4 DEF FdSkipPid, fdArrays, fdResults, FdInv
  <2>5. CASE FdEndCollect
    <3>1. /\ UNCHANGED <<fdInitial, fdFirst>> /\ fdTodo' = {} /\ fdAll' = {}
          /\ consumers' \in Largest([e \in fdAll |-> e.n], TopCount)
          /\ leakers' \in Largest([e \in {x \in fdAll : x.change > 0} |-> e.change], TopCount)
      BY <2>5 DEF FdEndCollect, fdArrays
    <3>2. consumers' \subseteq fdAll /\ leakers' \subseteq fdAll
      BY <3>1 DEF Largest
    <3> QED BY <2>1, <3>1, <3>2
  <2> QED BY <2>2, <2>3, <2>4, <2>5, FdReadStep DEF FdNext
<1> QED BY <1>1, <1>2, PTL DEF Spec

(* A change of descriptors is relative to the first count ever read for    *)
(* the process, for any processes, pool and limits.                        *)
THEOREM LeakersTruthfulHolds == Spec => []LeakersTruthful
<1>1. FdInv => LeakersTruthful
  <2> SUFFICES ASSUME FdInv, NEW e \in fdAll \cup consumers \cup leakers
               PROVE  e.change = IF Find(fdInitial, e.pid) # 0 THEN e.n - fdFirst[e.pid] ELSE 0
    BY DEF LeakersTruthful
  <2>1. Find(fdInitial, e.pid) # 0 <=> Holds(fdInitial, e.pid)
    BY FindHolds DEF FdInv, FdSamples
  <2> QED BY <2>1 DEF FdInv, EntryTruthful
<1> QED BY <1>1, FdAlways, PTL
-----------------------------------------------------------------------------
(* heapmon: what it keeps of processes P with heaps H and totals T. *)
SampleOf(P, H) == [pid : P, heap : H]
BaseOf(P, H, T) == [pid : P, heap : H, rss : T]
RowOf(P, H, T) == [pid : P, heap : H, rss : T,
                   heapDelta : {v - w : v, w \in H} \cup {0},
                   initialHeap : H, initialRss : T]

(* The gain of a row is a number. *)
LEMMA RowGain ==
  ASSUME NEW P, NEW H, NEW T \in SUBSET Nat
  PROVE  \A x \in RowOf(P, H, T) : Gain(x) \in Int
<1> SUFFICES ASSUME NEW x \in RowOf(P, H, T) PROVE Gain(x) \in Int
  OBVIOUS
<1>1. x.rss \in T /\ x.initialRss \in T
  BY DEF RowOf
<1>2. \A v, w \in T : v - w \in Int
  OBVIOUS
<1>3. x.rss - x.initialRss \in Int
  <2> HIDE DEF RowOf
  <2> QED BY <1>1, <1>2
<1> QED BY <1>3 DEF Gain

(* What a sequence holds, and the processes it is about. *)
Entries(s) == {s[k] : k \in 1 .. Len(s)}
PidsOf(s) == {s[k].pid : k \in 1 .. Len(s)}

(* n rows of R, those in E, about different processes. *)
RowsOf(R, r, n, E) ==
  /\ r \in Seq(R) /\ Len(r) = n
  /\ \A l, k \in 1 .. n : r[l].pid = r[k].pid => l = k
  /\ {r[k] : k \in 1 .. n} = E

(* The loops of the sort have come to i and l: what is before i is in      *)
(* order and above all that follows, and i is above what it has been       *)
(* compared with.                                                          *)
SortedTo(r, n, i, l) ==
  /\ \A a, k \in 1 .. n : a < k /\ a < i => Gain(r[a]) >= Gain(r[k])
  /\ \A k \in 1 .. n : 0 < i /\ i < k /\ k =< l => Gain(r[i]) >= Gain(r[k])

(* One comparison of the inner loop, with its exchange. *)
LEMMA ExchangeStep ==
  ASSUME NEW R, \A x \in R : Gain(x) \in Int,
         NEW r, NEW n \in Nat, NEW E, NEW i \in 1 .. n, NEW l \in 1 .. n,
         RowsOf(R, r, n, E), SortedTo(r, n, i, l - 1)
  PROVE  RowsOf(R, Exchanged(r, i, l), n, E) /\ SortedTo(Exchanged(r, i, l), n, i, l)
<1> DEFINE q == Exchanged(r, i, l)
<1>1. /\ r \in Seq(R) /\ Len(r) = n
      /\ \A k \in 1 .. n : r[k] \in R /\ Gain(r[k]) \in Int
  BY DEF RowsOf
<1>2. CASE i < l /\ Gain(r[l]) > Gain(r[i])
  <2>1. q = [r EXCEPT ![i] = r[l], ![l] = r[i]]
    BY <1>2 DEF Exchanged
  <2>2. q \in Seq(R) /\ Len(q) = n
    BY <1>1, <2>1
  <2>3. /\ q[i] = r[l] /\ q[l] = r[i]
        /\ \A k \in 1 .. n : k # i /\ k # l => q[k] = r[k]
    BY <1>1, <1>2, <2>1
  <2> HIDE DEF q
  <2>4. ASSUME NEW a \in 1 .. n, NEW k \in 1 .. n, q[a].pid = q[k].pid PROVE a = k
    <3>1. \A x, y \in 1 .. n : r[x].pid = r[y].pid => x = y
      BY DEF RowsOf
    <3> QED BY <2>3, <2>4, <3>1
  <2>5. {q[k] : k \in 1 .. n} = {r[k] : k \in 1 .. n}
    <3>1. \A k \in 1 .. n : \E x \in 1 .. n : q[k] = r[x]
      BY <2>3
    <3>2. \A k \in 1 .. n : \E x \in 1 .. n : r[k] = q[x]
      BY <2>3
    <3>3. ASSUME NEW y \in {q[k] : k \in 1 .. n} PROVE y \in {r[k] : k \in 1 .. n}
      BY <3>1
    <3>4. ASSUME NEW y \in {r[k] : k \in 1 .. n} PROVE y \in {q[k] : k \in 1 .. n}
      BY <3>2
    <3> QED BY <3>3, <3>4
  <2>6. RowsOf(R, q, n, E)
    BY <2>2, <2>4, <2>5 DEF RowsOf
  <2>7. ASSUME NEW a \in 1 .. n, NEW k \in 1 .. n, a < k, a < i
        PROVE  Gain(q[a]) >= Gain(q[k])
    <3>1. q[a] = r[a] /\ a < l
      BY <1>2, <2>3, <2>7
    <3>2. PICK x \in 1 .. n : q[k] = r[x] /\ a < x
      <4>1. CASE k = i
        BY <2>3, <3>1, <4>1
      <4>2. CASE k = l
        BY <2>3, <2>7, <4>2
      <4>3. CASE k # i /\ k # l
        BY <2>3, <2>7, <4>3
      <4> QED BY <4>1, <4>2, <4>3
    <3> QED BY <2>7, <3>1, <3>2 DEF SortedTo
  <2>8. ASSUME NEW k \in 1 .. n, i < k, k =< l PROVE Gain(q[i]) >= Gain(q[k])
    <3>1. CASE k = l
      BY <1>1, <1>2, <2>3, <3>1
    <3>2. CASE k # l
      <4>1. q[k] = r[k] /\ k =< l - 1
        BY <2>3, <2>8, <3>2
      <4>2. Gain(r[i]) >= Gain(r[k])
        BY <2>8, <4>1 DEF SortedTo
      <4>3. Gain(r[i]) \in Int /\ Gain(r[k]) \in Int /\ Gain(r[l]) \in Int
        BY <1>1
      <4> QED BY <1>2, <2>3, <4>1, <4>2, <4>3
    <3> QED BY <3>1, <3>2
  <2> QED BY <2>6, <2>7, <2>8 DEF SortedTo, q
<1>3. CASE ~(i < l /\ Gain(r[l]) > Gain(r[i]))
  <2>1. q = r
    BY <1>3 DEF Exchanged
  <2> HIDE DEF q
  <2>2. ASSUME NEW k \in 1 .. n, i < k, k =< l PROVE Gain(r[i]) >= Gain(r[k])
    <3>1. CASE k = l
      BY <1>1, <1>3, <2>2, <3>1
    <3>2. CASE k # l
      <4>1. k =< l - 1
        BY <2>2, <3>2
      <4> QED BY <2>2, <4>1 DEF SortedTo
    <3> QED BY <3>1, <3>2
  <2> QED BY <2>1, <2>2 DEF SortedTo, q
<1> QED BY <1>2, <1>3

(* The inner loop. *)
LEMMA PassStep ==
  ASSUME NEW R, \A x \in R : Gain(x) \in Int,
         NEW r, NEW n \in Nat, NEW E, NEW i \in 1 .. n,
         RowsOf(R, r, n, E), SortedTo(r, n, i - 1, n)
  PROVE  RowsOf(R, Pass(r, i), n, E) /\ SortedTo(Pass(r, i), n, i, n)
<1>1. r \in Seq(R) /\ Len(r) = n
  BY DEF RowsOf
<1>2. PICK g : InSteps(g, "exchange", i, r, Indexes(n), n) /\ Pass(r, i) = g[n]
  BY <1>1, PassInSteps
<1>3. g[0] = r /\ \A k \in 1 .. n : g[k] = Exchanged(g[k - 1], i, k)
  BY <1>2 DEF InSteps, Step, Indexes
<1>4. SortedTo(r, n, i, 0)
  <2>1. ASSUME NEW a \in 1 .. n, NEW k \in 1 .. n, a < k, a < i
        PROVE  Gain(r[a]) >= Gain(r[k])
    <3>1. CASE a = i - 1
      BY <2>1, <3>1 DEF SortedTo
    <3>2. CASE a # i - 1
      <4>1. a < i - 1
        BY <2>1, <3>2
      <4> QED BY <2>1, <4>1 DEF SortedTo
    <3> QED BY <3>1, <3>2
  <2>2. \A k \in 1 .. n : ~(k =< 0)
    OBVIOUS
  <2> QED BY <2>1, <2>2 DEF SortedTo
<1> DEFINE S == {k \in 0 .. n : ~(RowsOf(R, g[k], n, E) /\ SortedTo(g[k], n, i, k))}
<1>5. S = {}
  <2> SUFFICES ASSUME S # {} PROVE FALSE
    OBVIOUS
  <2>1. PICK k \in S : \A x \in S : k =< x
    <3> HIDE DEF S
    <3>1. S \in SUBSET Nat
      BY DEF S
    <3> QED BY <3>1, NatMinimum
  <2>2. /\ k \in 1 .. n /\ k - 1 \in 0 .. n
        /\ ~(RowsOf(R, g[k], n, E) /\ SortedTo(g[k], n, i, k))
    BY <1>3, <1>4
  <2>3. k - 1 \notin S
    <3> HIDE DEF S
    <3> QED BY <2>1, <2>2
  <2>4. RowsOf(R, g[k - 1], n, E) /\ SortedTo(g[k - 1], n, i, k - 1)
    BY <2>2, <2>3
  <2> HIDE DEF S
  <2> QED BY <1>3, <2>2, <2>4, ExchangeStep
<1>6. n \in 0 .. n /\ n \notin S
  BY <1>5
<1> QED BY <1>2, <1>6

(* The outer loop. *)
LEMMA SortedRanks ==
  ASSUME NEW R, \A x \in R : Gain(x) \in Int,
         NEW r, NEW n \in Nat, NEW E, RowsOf(R, r, n, E)
  PROVE  /\ RowsOf(R, Sorted(r), n, E)
         /\ \A a, k \in 1 .. n : a < k => Gain(Sorted(r)[a]) >= Gain(Sorted(r)[k])
<1>1. r \in Seq(R) /\ Len(r) = n
  BY DEF RowsOf
<1>2. PICK g : InSteps(g, "pass", 0, r, Indexes(n), n) /\ Sorted(r) = g[n]
  BY <1>1, SortedInSteps
<1>3. g[0] = r /\ \A k \in 1 .. n : g[k] = Pass(g[k - 1], k)
  BY <1>2 DEF InSteps, Step, Indexes
<1>4. SortedTo(r, n, 0, n)
  <2>1. \A a \in 1 .. n : ~(a < 0)
    OBVIOUS
  <2> QED BY <2>1 DEF SortedTo
<1> DEFINE S == {k \in 0 .. n : ~(RowsOf(R, g[k], n, E) /\ SortedTo(g[k], n, k, n))}
<1>5. S = {}
  <2> SUFFICES ASSUME S # {} PROVE FALSE
    OBVIOUS
  <2>1. PICK k \in S : \A x \in S : k =< x
    <3> HIDE DEF S
    <3>1. S \in SUBSET Nat
      BY DEF S
    <3> QED BY <3>1, NatMinimum
  <2>2. /\ k \in 1 .. n /\ k - 1 \in 0 .. n
        /\ ~(RowsOf(R, g[k], n, E) /\ SortedTo(g[k], n, k, n))
    BY <1>3, <1>4
  <2>3. k - 1 \notin S
    <3> HIDE DEF S
    <3> QED BY <2>1, <2>2
  <2>4. RowsOf(R, g[k - 1], n, E) /\ SortedTo(g[k - 1], n, k - 1, n)
    BY <2>2, <2>3
  <2> HIDE DEF S
  <2> QED BY <1>3, <2>2, <2>4, PassStep
<1>6. n \in 0 .. n /\ n \notin S
  BY <1>5
<1>7. RowsOf(R, Sorted(r), n, E) /\ SortedTo(Sorted(r), n, n, n)
  BY <1>2, <1>6
<1> QED BY <1>7 DEF SortedTo

-----------------------------------------------------------------------------
(* heapmon: a list of targets that names no process twice. *)
OneEach(P, t) == t \in Seq(P) /\ \A l, k \in 1 .. Len(t) : t[l] = t[k] => l = k

(* A target is added only if it is new and there is room. *)
LEMMA TargetAddedStep ==
  ASSUME NEW P, NEW M \in Nat, NEW t, OneEach(P, t), Len(t) =< M, NEW p \in P
  PROVE  OneEach(P, TargetAdded(M, t, p)) /\ Len(TargetAdded(M, t, p)) =< M
<1> DEFINE s == Append(t, p)
<1>1. CASE Contains(t, p) \/ Len(t) >= M
  BY <1>1 DEF TargetAdded
<1>2. CASE ~(Contains(t, p) \/ Len(t) >= M)
  <2>1. TargetAdded(M, t, p) = s
    BY <1>2 DEF TargetAdded
  <2>2. /\ s \in Seq(P) /\ Len(s) = Len(t) + 1 /\ Len(t) \in Nat /\ s[Len(t) + 1] = p
        /\ \A k \in 1 .. Len(t) : s[k] = t[k]
    BY DEF OneEach
  <2>3. \A k \in 1 .. Len(t) : t[k] # p
    BY <1>2 DEF Contains
  <2> HIDE DEF s
  <2>4. 1 .. Len(s) = (1 .. Len(t)) \cup {Len(t) + 1}
    BY <2>2
  <2>5. ASSUME NEW l \in 1 .. Len(s), NEW k \in 1 .. Len(s), s[l] = s[k] PROVE l = k
    BY <2>2, <2>3, <2>4, <2>5 DEF OneEach
  <2>6. Len(s) =< M
    BY <1>2, <2>2
  <2> QED BY <2>1, <2>2, <2>5, <2>6 DEF OneEach
<1> QED BY <1>1, <1>2

(* So the targets of a collection are different processes. *)
LEMMA TargetsDiffer ==
  ASSUME NEW P, NEW M \in Nat, NEW growers, OneEach(P, growers), Len(growers) =< M,
         NEW top \in Seq(P), NEW targets,
         \E g : InSteps(g, "target", M, growers, top, Len(top)) /\ targets = g[Len(top)]
  PROVE  OneEach(P, targets) /\ Len(targets) =< M
<1> DEFINE n == Len(top)
<1>1. PICK g : InSteps(g, "target", M, growers, top, n) /\ targets = g[n]
  OBVIOUS
<1>2. g[0] = growers /\ \A k \in 1 .. n : g[k] = TargetAdded(M, g[k - 1], top[k])
  BY <1>1 DEF InSteps, Step
<1>3. n \in Nat /\ \A k \in 1 .. n : top[k] \in P
  OBVIOUS
<1> HIDE DEF n
<1> DEFINE S == {k \in 0 .. n : ~(OneEach(P, g[k]) /\ Len(g[k]) =< M)}
<1>4. S = {}
  <2> SUFFICES ASSUME S # {} PROVE FALSE
    OBVIOUS
  <2>1. PICK k \in S : \A x \in S : k =< x
    <3> HIDE DEF S
    <3>1. S \in SUBSET Nat
      BY <1>3 DEF S
    <3> QED BY <3>1, NatMinimum
  <2>2. k \in 1 .. n /\ k - 1 \in 0 .. n /\ ~(OneEach(P, g[k]) /\ Len(g[k]) =< M)
    BY <1>2, <1>3
  <2>3. k - 1 \notin S
    <3> HIDE DEF S
    <3> QED BY <1>3, <2>1, <2>2
  <2>4. OneEach(P, g[k - 1]) /\ Len(g[k - 1]) =< M
    BY <2>2, <2>3
  <2> HIDE DEF S
  <2>5. g[k] = TargetAdded(M, g[k - 1], top[k]) /\ top[k] \in P
    BY <1>2, <1>3, <2>2
  <2> QED BY <2>2, <2>4, <2>5, TargetAddedStep
<1>5. n \in 0 .. n /\ n \notin S
  BY <1>3, <1>4
<1> QED BY <1>1, <1>5

-----------------------------------------------------------------------------
(* The state of heapmon: it has M targets and I baselines at most, the     *)
(* processes scanned so far have one row each, with the heap that was      *)
(* found, and are no targets any more.                                     *)
HeapKept(P, H, T, M, I, targets, cur, prev, init, rows) ==
  /\ OneEach(P, targets) /\ Len(cur) + Len(targets) =< M
  /\ init \in Seq(BaseOf(P, H, T)) /\ Len(init) =< I
  /\ prev \in Seq(SampleOf(P, H)) /\ cur \in Seq(SampleOf(P, H))
  /\ RowsOf(RowOf(P, H, T), rows, Len(cur), Entries(rows))
  /\ {[pid |-> x.pid, heap |-> x.heap] : x \in Entries(rows)} = Entries(cur)
  /\ \A l \in 1 .. Len(targets) : targets[l] \notin PidsOf(cur)

(* An entry more. *)
LEMMA EntriesAppend ==
  ASSUME NEW S, NEW s \in Seq(S), NEW x \in S
  PROVE  /\ Entries(Append(s, x)) = Entries(s) \cup {x}
         /\ PidsOf(Append(s, x)) = PidsOf(s) \cup {x.pid}
<1> DEFINE t == Append(s, x)
<1>1. /\ Len(s) \in Nat /\ Len(t) = Len(s) + 1 /\ t[Len(s) + 1] = x
      /\ \A k \in 1 .. Len(s) : t[k] = s[k]
  OBVIOUS
<1> HIDE DEF t
<1>2. 1 .. Len(t) = (1 .. Len(s)) \cup {Len(s) + 1}
  BY <1>1
<1>3. Entries(t) = Entries(s) \cup {x}
  BY <1>1, <1>2 DEF Entries
<1>4. PidsOf(t) = PidsOf(s) \cup {x.pid}
  BY <1>1, <1>2 DEF PidsOf
<1> QED BY <1>3, <1>4 DEF t

(* Nothing is kept at first. *)
LEMMA HeapEmpty ==
  ASSUME NEW P, NEW H, NEW T, NEW M \in Nat, NEW I \in Nat
  PROVE  HeapKept(P, H, T, M, I, << >>, << >>, << >>, << >>, << >>)
<1>1. PICK e : e = << >>
  OBVIOUS
<1>2. /\ Len(e) = 0 /\ Entries(e) = {} /\ PidsOf(e) = {}
      /\ \A S : e \in Seq(S)
  BY <1>1 DEF Entries, PidsOf
<1>3. OneEach(P, e)
  BY <1>2 DEF OneEach
<1>4. RowsOf(RowOf(P, H, T), e, 0, {})
  BY <1>2 DEF RowsOf
<1>5. {[pid |-> x.pid, heap |-> x.heap] : x \in {}} = {} /\ 0 + 0 =< M /\ 1 .. 0 = {}
  OBVIOUS
<1>6. HeapKept(P, H, T, M, I, e, e, e, e, e)
  BY <1>2, <1>3, <1>4, <1>5 DEF HeapKept
<1> QED BY <1>1, <1>6

(* A collection begins with these targets. *)
LEMMA HeapBegun ==
  ASSUME NEW P, NEW H, NEW T, NEW M \in Nat, NEW I \in Nat,
         NEW targets, NEW cur, NEW prev, NEW init, NEW rows,
         HeapKept(P, H, T, M, I, targets, cur, prev, init, rows),
         NEW t, OneEach(P, t), Len(t) =< M
  PROVE  HeapKept(P, H, T, M, I, t, << >>, cur, init, << >>)
<1>1. /\ Len(<< >>) = 0 /\ Entries(<< >>) = {} /\ PidsOf(<< >>) = {}
      /\ \A S : << >> \in Seq(S)
  BY DEF Entries, PidsOf
<1>2. RowsOf(RowOf(P, H, T), << >>, 0, {})
  BY <1>1 DEF RowsOf
<1>3. 0 + Len(t) =< M
  BY DEF OneEach
<1>4. {[pid |-> x.pid, heap |-> x.heap] : x \in {}} = {}
  OBVIOUS
<1> QED BY <1>1, <1>2, <1>3, <1>4 DEF HeapKept

(* A list of targets without its first. *)
LEMMA TargetsTail ==
  ASSUME NEW P, NEW t, OneEach(P, t), t # << >>
  PROVE  /\ OneEach(P, Tail(t)) /\ Len(Tail(t)) = Len(t) - 1 /\ Len(t) \in Nat
         /\ Head(t) \in P /\ 1 \in 1 .. Len(t) /\ Head(t) = t[1]
         /\ \A l \in 1 .. Len(Tail(t)) :
              l + 1 \in 1 .. Len(t) /\ Tail(t)[l] = t[l + 1] /\ t[l + 1] # Head(t)
<1>1. /\ Len(t) \in Nat /\ Len(t) > 0 /\ Head(t) = t[1]
      /\ Tail(t) \in Seq(P) /\ Len(Tail(t)) = Len(t) - 1
      /\ \A l \in 1 .. Len(t) - 1 : Tail(t)[l] = t[l + 1]
  BY DEF OneEach
<1>2. 1 \in 1 .. Len(t) /\ t[1] \in P
  BY <1>1 DEF OneEach
<1>3. ASSUME NEW l \in 1 .. Len(Tail(t))
      PROVE  l \in Int /\ l + 1 \in 1 .. Len(t) /\ Tail(t)[l] = t[l + 1] /\ l + 1 # 1
  BY <1>1
<1>4. ASSUME NEW l \in 1 .. Len(Tail(t)) PROVE t[l + 1] # t[1]
  BY <1>2, <1>3 DEF OneEach
<1>5. ASSUME NEW i \in 1 .. Len(Tail(t)), NEW l \in 1 .. Len(Tail(t)), Tail(t)[i] = Tail(t)[l]
      PROVE  i = l
  <2>1. i + 1 = l + 1
    BY <1>3, <1>5 DEF OneEach
  <2> QED BY <1>3, <2>1
<1> QED BY <1>1, <1>2, <1>3, <1>4, <1>5 DEF OneEach

(* A target has exited. *)
LEMMA HeapSkipped ==
  ASSUME NEW P, NEW H, NEW T, NEW M \in Nat, NEW I \in Nat,
         NEW targets, NEW cur, NEW prev, NEW init, NEW rows,
         HeapKept(P, H, T, M, I, targets, cur, prev, init, rows), targets # << >>
  PROVE  HeapKept(P, H, T, M, I, Tail(targets), cur, prev, init, rows)
<1>1. /\ OneEach(P, targets) /\ Len(cur) + Len(targets) =< M /\ Len(cur) \in Nat
      /\ \A l \in 1 .. Len(targets) : targets[l] \notin PidsOf(cur)
  BY DEF HeapKept
<1>2. /\ OneEach(P, Tail(targets)) /\ Len(Tail(targets)) = Len(targets) - 1
      /\ Len(targets) \in Nat
      /\ \A l \in 1 .. Len(Tail(targets)) :
           l + 1 \in 1 .. Len(targets) /\ Tail(targets)[l] = targets[l + 1]
  BY <1>1, TargetsTail
<1>3. Len(cur) + Len(Tail(targets)) =< M
  BY <1>1, <1>2
<1>4. \A l \in 1 .. Len(Tail(targets)) : Tail(targets)[l] \notin PidsOf(cur)
  BY <1>1, <1>2
<1> QED BY <1>2, <1>3, <1>4 DEF HeapKept

(* The results are sorted. *)
LEMMA HeapRanked ==
  ASSUME NEW P, NEW H, NEW T \in SUBSET Nat, NEW M, NEW I,
         NEW targets, NEW cur, NEW prev, NEW init, NEW rows,
         HeapKept(P, H, T, M, I, targets, cur, prev, init, rows)
  PROVE  /\ HeapKept(P, H, T, M, I, targets, cur, prev, init, Sorted(rows))
         /\ Entries(Sorted(rows)) = Entries(rows) /\ Len(Sorted(rows)) = Len(cur)
         /\ \A l, k \in 1 .. Len(cur) :
              l < k => Gain(Sorted(rows)[l]) >= Gain(Sorted(rows)[k])
<1> DEFINE n == Len(cur)
           R == RowOf(P, H, T)
           q == Sorted(rows)
<1>1. n \in Nat /\ RowsOf(R, rows, n, Entries(rows))
  BY DEF HeapKept
<1>2. \A x \in R : Gain(x) \in Int
  BY RowGain
<1> HIDE DEF n, R
<1>3. /\ RowsOf(R, q, n, Entries(rows))
      /\ \A l, k \in 1 .. n : l < k => Gain(q[l]) >= Gain(q[k])
  BY <1>1, <1>2, SortedRanks
<1> HIDE DEF q
<1>4. Entries(q) = Entries(rows) /\ Len(q) = n
  BY <1>3 DEF RowsOf, Entries
<1>5. HeapKept(P, H, T, M, I, targets, cur, prev, init, q)
  BY <1>3, <1>4 DEF HeapKept, n, R
<1> QED BY <1>3, <1>4, <1>5 DEF n, q

(* find_or_create_initial and the baseline that is used. *)
LEMMA BaselineType ==
  ASSUME NEW B, NEW pool \in Seq(B), NEW max \in Nat, Len(pool) =< max, NEW s \in B
  PROVE  /\ FindOrCreate(pool, max, s) \in Seq(B) /\ Len(FindOrCreate(pool, max, s)) =< max
         /\ InitialOf(pool, max, s) \in B
<1> DEFINE new == FindOrCreate(pool, max, s)
           k == Find(new, s.pid)
<1>1. new \in Seq(B) /\ Len(new) =< max
  <2>1. Len(pool) \in Nat /\ Append(pool, s) \in Seq(B) /\ Len(Append(pool, s)) = Len(pool) + 1
    OBVIOUS
  <2> QED BY <2>1 DEF FindOrCreate
<1>2. InitialOf(pool, max, s) = IF k # 0 THEN new[k] ELSE s
  BY DEF InitialOf
<1> HIDE DEF new
<1>3. k # 0 => k \in 1 .. Len(new)
  BY <1>1, FindHolds
<1> HIDE DEF k
<1>4. k # 0 => new[k] \in B
  BY <1>1, <1>3
<1> QED BY <1>1, <1>2, <1>4 DEF new

(* What a target's scan adds to the arrays. *)
SampleFound(p, h) == [pid |-> p, heap |-> h]

RowFound(I, prev, init, p, h, r) ==
  LET k == Find(prev, p)
      base == InitialOf(init, I, [pid |-> p, heap |-> h, rss |-> r])
  IN  [pid |-> p, heap |-> h, rss |-> r,
       heapDelta |-> IF k # 0 THEN h - prev[k].heap ELSE 0,
       initialHeap |-> base.heap, initialRss |-> base.rss]

(* The row of a target. *)
LEMMA RowFoundType ==
  ASSUME NEW P, NEW H, NEW T, NEW I \in Nat,
         NEW prev \in Seq(SampleOf(P, H)), NEW init \in Seq(BaseOf(P, H, T)), Len(init) =< I,
         NEW p \in P, NEW h \in H, NEW r \in T
  PROVE  /\ RowFound(I, prev, init, p, h, r) \in RowOf(P, H, T)
         /\ RowFound(I, prev, init, p, h, r).pid = p
         /\ RowFound(I, prev, init, p, h, r).heap = h
         /\ RowFound(I, prev, init, p, h, r).rss = r
<1> DEFINE s == [pid |-> p, heap |-> h, rss |-> r]
           k == Find(prev, p)
           base == InitialOf(init, I, s)
           d == IF k # 0 THEN h - prev[k].heap ELSE 0
           row == [pid |-> p, heap |-> h, rss |-> r, heapDelta |-> d,
                   initialHeap |-> base.heap, initialRss |-> base.rss]
<1>1. s \in BaseOf(P, H, T)
  BY DEF BaseOf
<1>2. base \in BaseOf(P, H, T)
  <2> HIDE DEF s
  <2> QED BY <1>1, BaselineType
<1>3. base.heap \in H /\ base.rss \in T
  <2> HIDE DEF base
  <2> QED BY <1>2 DEF BaseOf
<1>4. d \in {v - w : v, w \in H} \cup {0}
  <2>1. CASE k = 0
    BY <2>1
  <2>2. CASE k # 0
    <3>1. k \in 1 .. Len(prev)
      BY <2>2, FindHolds
    <3> HIDE DEF k
    <3>2. prev[k] \in SampleOf(P, H)
      BY <3>1
    <3>3. prev[k].heap \in H
      BY <3>2 DEF SampleOf
    <3> QED BY <2>2, <3>3
  <2> QED BY <2>1, <2>2
<1>5. row \in RowOf(P, H, T)
  <2> HIDE DEF d, base
  <2> QED BY <1>3, <1>4 DEF RowOf
<1>6. RowFound(I, prev, init, p, h, r) = row
  BY DEF RowFound
<1> QED BY <1>5, <1>6

(* The arrays afterwards. *)
ScannedTo(I, cur, prev, init, rows, p, h, r, row, cur1, init1, rows1) ==
  /\ row = RowFound(I, prev, init, p, h, r)
  /\ cur1 = Append(cur, SampleFound(p, h))
  /\ init1 = FindOrCreate(init, I, [pid |-> p, heap |-> h, rss |-> r])
  /\ rows1 = Append(rows, row)

(* The next target is scanned. *)
LEMMA HeapScanned ==
  ASSUME NEW P, NEW H, NEW T, NEW M \in Nat, NEW I \in Nat,
         NEW targets, NEW cur, NEW prev, NEW init, NEW rows,
         HeapKept(P, H, T, M, I, targets, cur, prev, init, rows), targets # << >>,
         NEW h \in H, NEW r \in T,
         NEW p, p = Head(targets), NEW row, NEW cur1, NEW init1, NEW rows1,
         ScannedTo(I, cur, prev, init, rows, p, h, r, row, cur1, init1, rows1)
  PROVE  HeapKept(P, H, T, M, I, Tail(targets), cur1, prev, init1, rows1)
<1> DEFINE s == [pid |-> p, heap |-> h, rss |-> r]
           sample == SampleFound(p, h)
           R == RowOf(P, H, T)
           n == Len(cur)
           tail == Tail(targets)
<1>0. /\ row = RowFound(I, prev, init, p, h, r) /\ rows1 = Append(rows, row)
      /\ cur1 = Append(cur, sample) /\ init1 = FindOrCreate(init, I, s)
  BY DEF ScannedTo
<1>1. /\ OneEach(P, targets) /\ n + Len(targets) =< M /\ n \in Nat
      /\ init \in Seq(BaseOf(P, H, T)) /\ Len(init) =< I
      /\ prev \in Seq(SampleOf(P, H)) /\ cur \in Seq(SampleOf(P, H))
      /\ RowsOf(R, rows, n, Entries(rows))
      /\ {[pid |-> x.pid, heap |-> x.heap] : x \in Entries(rows)} = Entries(cur)
      /\ \A l \in 1 .. Len(targets) : targets[l] \notin PidsOf(cur)
  BY DEF HeapKept
<1>2. /\ OneEach(P, tail) /\ Len(tail) = Len(targets) - 1 /\ Len(targets) \in Nat
      /\ p \in P /\ 1 \in 1 .. Len(targets) /\ p = targets[1]
      /\ \A l \in 1 .. Len(tail) :
           l + 1 \in 1 .. Len(targets) /\ tail[l] = targets[l + 1] /\ targets[l + 1] # p
  BY <1>1, TargetsTail
<1>3. p \notin PidsOf(cur)
  BY <1>1, <1>2
<1>4. init1 \in Seq(BaseOf(P, H, T)) /\ Len(init1) =< I
  <2>1. s \in BaseOf(P, H, T)
    BY <1>2 DEF BaseOf
  <2> HIDE DEF s
  <2> QED BY <1>0, <1>1, <2>1, BaselineType
<1>5. row \in R /\ row.pid = p /\ row.heap = h
  BY <1>0, <1>1, <1>2, RowFoundType
<1>6. sample \in SampleOf(P, H) /\ sample.pid = p /\ sample = [pid |-> row.pid, heap |-> row.heap]
  BY <1>2, <1>5 DEF SampleOf, SampleFound
<1> HIDE DEF sample, s, tail, R
<1>7. /\ cur1 \in Seq(SampleOf(P, H)) /\ Len(cur1) = n + 1
      /\ Entries(cur1) = Entries(cur) \cup {sample} /\ PidsOf(cur1) = PidsOf(cur) \cup {p}
  <2>1. Entries(cur1) = Entries(cur) \cup {sample} /\ PidsOf(cur1) = PidsOf(cur) \cup {sample.pid}
    BY <1>0, <1>1, <1>6, EntriesAppend
  <2> QED BY <1>0, <1>1, <1>6, <2>1
<1>8. rows \in Seq(R) /\ Len(rows) = n
  BY <1>1 DEF RowsOf
<1>9. Entries(rows1) = Entries(rows) \cup {row}
  BY <1>0, <1>5, <1>8, EntriesAppend
<1>10. /\ rows1 \in Seq(R) /\ Len(rows1) = n + 1 /\ rows1[n + 1] = row
       /\ \A l \in 1 .. n : rows1[l] = rows[l]
  BY <1>0, <1>1, <1>5, <1>8
<1>11. \A l \in 1 .. n : rows[l].pid # p
  <2> SUFFICES ASSUME NEW l \in 1 .. n PROVE rows[l].pid \in PidsOf(cur)
    BY <1>3
  <2>1. rows[l] \in Entries(rows)
    BY <1>8 DEF Entries
  <2>2. [pid |-> rows[l].pid, heap |-> rows[l].heap] \in Entries(cur)
    BY <1>1, <2>1
  <2>3. PICK k \in 1 .. n : cur[k] = [pid |-> rows[l].pid, heap |-> rows[l].heap]
    BY <2>2 DEF Entries
  <2> QED BY <2>3 DEF PidsOf
<1> HIDE DEF n
<1>12. RowsOf(R, rows1, n + 1, Entries(rows1))
  <2>1. 1 .. n + 1 = (1 .. n) \cup {n + 1}
    BY <1>1
  <2>2. ASSUME NEW i \in 1 .. n + 1, NEW l \in 1 .. n + 1, rows1[i].pid = rows1[l].pid
        PROVE  i = l
    <3>1. \A x, y \in 1 .. n : rows[x].pid = rows[y].pid => x = y
      BY <1>1 DEF RowsOf
    <3> QED BY <1>5, <1>10, <1>11, <2>1, <2>2, <3>1
  <2> QED BY <1>10, <2>2 DEF RowsOf, Entries
<1>13. {[pid |-> x.pid, heap |-> x.heap] : x \in Entries(rows1)} = Entries(cur1)
  <2>1. {[pid |-> x.pid, heap |-> x.heap] : x \in Entries(rows) \cup {row}}
          = {[pid |-> x.pid, heap |-> x.heap] : x \in Entries(rows)}
            \cup {[pid |-> row.pid, heap |-> row.heap]}
    OBVIOUS
  <2> QED BY <1>1, <1>6, <1>7, <1>9, <2>1
<1>14. n + 1 + Len(tail) =< M
  BY <1>1, <1>2
<1>15. ASSUME NEW l \in 1 .. Len(tail) PROVE tail[l] \notin PidsOf(cur) \cup {p}
  BY <1>1, <1>2
<1>16. HeapKept(P, H, T, M, I, tail, cur1, prev, init1, rows1)
  BY <1>1, <1>2, <1>4, <1>7, <1>12, <1>13, <1>14, <1>15 DEF HeapKept, R
<1> QED BY <1>16 DEF tail

(* The invariant of heapmon. *)
HeapInv ==
  /\ HeapKept(HeapPids, Heaps, Totals, MaxTargets, HeapPoolSize,
              heapTargets, heapCurrent, heapPrevious, heapInitial, heapResults)
  /\ heapPhase \in {"idle", "scan"}
  /\ heapPhase = "idle" =>
       /\ heapTargets = << >>
       /\ \A l, k \in 1 .. Len(heapCurrent) :
            l < k => Gain(heapResults[l]) >= Gain(heapResults[k])

(* The lists that procmem returns. *)
LEMMA ListsDiffer ==
  ASSUME NEW s \in Lists
  PROVE  OneEach(HeapPids, s) /\ Len(s) =< MaxTargets
<1>1. s \in SeqOf(HeapPids, MaxTargets \div 2) /\ IsInjective(s)
  BY DEF Lists
<1>2. PICK m \in 0 .. MaxTargets \div 2 : s \in [1 .. m -> HeapPids]
  BY <1>1 DEF SeqOf
<1>3. m \in Nat /\ m =< MaxTargets
  <2>1. MaxTargets \div 2 \in Int /\ MaxTargets \div 2 =< MaxTargets /\ MaxTargets \in Nat
    BY HeapMonAssumption
  <2> QED BY <2>1
<1>4. s \in Seq(HeapPids) /\ Len(s) = m
  BY <1>2, <1>3
<1>5. \A l, k \in 1 .. m : s[l] = s[k] => l = k
  BY <1>1, <1>2 DEF IsInjective
<1> QED BY <1>3, <1>4, <1>5 DEF OneEach

(* Every step of heapmon keeps the invariant. *)
LEMMA HeapStep ==
  ASSUME HeapInv, [Next]_vars
  PROVE  HeapInv'
<1>0. MaxTargets \in Nat /\ HeapPoolSize \in Nat /\ Totals \in SUBSET Nat
  BY HeapMonAssumption
<1>1. CASE UNCHANGED heapVars
  BY <1>1 DEF heapVars, HeapInv
<1>2. ASSUME NEW growers \in Lists, NEW top \in Lists,
             HeapBeginCollect(TargetsOf(growers, top))
      PROVE  HeapInv'
  <2>1. /\ heapPhase' = "scan" /\ heapPrevious' = heapCurrent
        /\ heapTargets' = TargetsOf(growers, top) /\ heapCurrent' = << >>
        /\ heapResults' = << >> /\ heapInitial' = heapInitial
    BY <1>2 DEF HeapBeginCollect
  <2>2. OneEach(HeapPids, growers) /\ Len(growers) =< MaxTargets /\ top \in Seq(HeapPids)
    BY ListsDiffer DEF OneEach
  <2>3. OneEach(HeapPids, heapTargets') /\ Len(heapTargets') =< MaxTargets
    <3>1. \E g : /\ InSteps(g, "target", MaxTargets, growers, top, Len(top))
                 /\ heapTargets' = g[Len(top)]
      BY <2>1, <2>2, TargetInSteps
    <3> QED BY <1>0, <2>2, <3>1, TargetsDiffer
  <2> QED BY <1>0, <2>1, <2>3, HeapBegun DEF HeapInv
<1>3. CASE HeapSkipTarget
  <2>1. /\ heapPhase = "scan" /\ heapTargets # << >> /\ heapTargets' = Tail(heapTargets)
        /\ UNCHANGED <<heapPhase, heapCurrent, heapPrevious, heapInitial, heapResults>>
    BY <1>3 DEF HeapSkipTarget
  <2> QED BY <1>0, <2>1, HeapSkipped DEF HeapInv
<1>4. CASE HeapEndCollect
  <2>1. /\ heapTargets = << >> /\ heapResults' = Sorted(heapResults) /\ heapPhase' = "idle"
        /\ UNCHANGED <<heapTargets, heapCurrent, heapPrevious, heapInitial>>
    BY <1>4 DEF HeapEndCollect
  <2> QED BY <1>0, <2>1, HeapRanked DEF HeapInv
<1>5. ASSUME NEW h \in Heaps, NEW r \in Totals, HeapScanTarget(h, r) PROVE HeapInv'
  <2> DEFINE p == Head(heapTargets)
  <2>1. /\ heapPhase = "scan" /\ heapTargets # << >> /\ heapPhase' = heapPhase
        /\ heapTargets' = Tail(heapTargets) /\ heapPrevious' = heapPrevious
        /\ heapCurrent' = Append(heapCurrent, SampleFound(p, h))
        /\ heapInitial' = FindOrCreate(heapInitial, HeapPoolSize,
                                       [pid |-> p, heap |-> h, rss |-> r])
        /\ heapResults' = Append(heapResults,
                                 RowFound(HeapPoolSize, heapPrevious, heapInitial, p, h, r))
    BY <1>5 DEF HeapScanTarget, SampleFound, RowFound
  <2>2. ScannedTo(HeapPoolSize, heapCurrent, heapPrevious, heapInitial, heapResults, p, h, r,
                  RowFound(HeapPoolSize, heapPrevious, heapInitial, p, h, r),
                  heapCurrent', heapInitial', heapResults')
    BY <2>1 DEF ScannedTo
  <2> QED BY <1>0, <2>1, <2>2, HeapScanned DEF HeapInv
<1>6. HeapNext \/ UNCHANGED heapVars
  BY PartSteps
<1> QED BY <1>1, <1>2, <1>3, <1>4, <1>5, <1>6 DEF HeapNext

(* It holds at the start. *)
LEMMA HeapBegins == Init => HeapInv
<1> SUFFICES ASSUME HeapInit PROVE HeapInv
  BY DEF Init
<1>1. MaxTargets \in Nat /\ HeapPoolSize \in Nat
  BY HeapMonAssumption
<1> QED BY <1>1, HeapEmpty DEF HeapInit, HeapInv

(* The published results hold each process that was scanned exactly once,  *)
(* and the exchange sort ranks them by gain, for any number of targets.    *)
THEOREM RankedByGainHolds == Spec => []RankedByGain
<1>1. HeapInv => RankedByGain
  <2> SUFFICES ASSUME HeapInv, heapPhase = "idle"
               PROVE  /\ \A l, k \in 1 .. Len(heapResults) :
                           l < k => /\ Gain(heapResults[l]) >= Gain(heapResults[k])
                                    /\ heapResults[l].pid # heapResults[k].pid
                      /\ {heapResults[k].pid : k \in 1 .. Len(heapResults)}
                           = {heapCurrent[k].pid : k \in 1 .. Len(heapCurrent)}
    BY DEF RankedByGain
  <2> DEFINE n == Len(heapCurrent)
  <2>1. /\ n \in Nat /\ Len(heapResults) = n
        /\ \A l, k \in 1 .. n : heapResults[l].pid = heapResults[k].pid => l = k
        /\ {[pid |-> x.pid, heap |-> x.heap] : x \in Entries(heapResults)} = Entries(heapCurrent)
    BY DEF HeapInv, HeapKept, RowsOf
  <2>2. \A l, k \in 1 .. n : l < k => Gain(heapResults[l]) >= Gain(heapResults[k])
    BY DEF HeapInv
  <2>3. \A l, k \in 1 .. n : l < k => heapResults[l].pid # heapResults[k].pid
    BY <2>1
  <2>4. {heapResults[k].pid : k \in 1 .. n} = {heapCurrent[k].pid : k \in 1 .. n}
    <3>1. ASSUME NEW k \in 1 .. n PROVE \E l \in 1 .. n : heapResults[k].pid = heapCurrent[l].pid
      <4>1. [pid |-> heapResults[k].pid, heap |-> heapResults[k].heap] \in Entries(heapCurrent)
        BY <2>1 DEF Entries
      <4> QED BY <4>1 DEF Entries
    <3>2. ASSUME NEW k \in 1 .. n PROVE \E l \in 1 .. n : heapCurrent[k].pid = heapResults[l].pid
      <4>1. heapCurrent[k] \in Entries(heapCurrent)
        BY DEF Entries
      <4>2. PICK x \in Entries(heapResults) : heapCurrent[k] = [pid |-> x.pid, heap |-> x.heap]
        BY <2>1, <4>1
      <4>3. PICK l \in 1 .. n : x = heapResults[l]
        BY <2>1, <4>2 DEF Entries
      <4>4. heapCurrent[k].pid = x.pid
        BY <4>2
      <4> QED BY <4>3, <4>4
    <3> QED BY <3>1, <3>2
  <2> QED BY <2>1, <2>2, <2>3, <2>4
<1> QED BY <1>1, HeapBegins, HeapStep, PTL DEF Spec

-----------------------------------------------------------------------------
(* procevent: the ring r holds the latest events of the log. *)
RingOf(r, log) ==
  /\ r.slots \in [0 .. MaxEvents - 1 -> Event \cup {NoEvent}]
  /\ r.head \in 0 .. MaxEvents - 1
  /\ r.count = IF Len(log) < MaxEvents THEN Len(log) ELSE MaxEvents
  /\ \A i \in 0 .. r.count - 1 :
       r.slots[(r.head - 1 - i + MaxEvents) % MaxEvents] = log[Len(log) - i]

(* The lists of events. *)
Events == Seq(Event)

(* add_event puts an event where procevent_get_recent looks for the newest,*)
(* and shifts all others by one; in a full ring the oldest makes room.     *)
LEMMA PutHolds ==
  ASSUME NEW r, NEW log \in Events, NEW e \in Event, RingOf(r, log)
  PROVE  RingOf(Put(r, e), Append(log, e))
<1> DEFINE N == MaxEvents
           n == Len(log)
           new == Put(r, e)
           log1 == Append(log, e)
<1>1. N \in Nat /\ N > 0 /\ n \in Nat
  BY ProcEventAssumption DEF Events
<1>2. /\ Len(log1) = n + 1 /\ log1[n + 1] = e
      /\ \A i \in 1 .. n : log1[i] = log[i]
  BY DEF Events
<1>3. /\ new.slots = [r.slots EXCEPT ![r.head] = e]
      /\ new.head = (r.head + 1) % N
      /\ new.count = IF r.count < N THEN r.count + 1 ELSE r.count
  BY DEF Put
<1> HIDE DEF new, log1, n
<1>4. /\ DOMAIN r.slots = 0 .. N - 1 /\ r.head \in 0 .. N - 1
      /\ r.count = IF n < N THEN n ELSE N
  BY DEF RingOf, n
<1>5. /\ DOMAIN new.slots = 0 .. N - 1 /\ new.slots[r.head] = e
      /\ \A k \in 0 .. N - 1 : k # r.head => new.slots[k] = r.slots[k]
  BY <1>3, <1>4
<1>6. new.head = IF r.head + 1 < N THEN r.head + 1 ELSE 0
  <2>1. r.head + 1 \in Int /\ 0 =< r.head + 1 /\ r.head + 1 < 2 * N
    BY <1>1, <1>4
  <2>2. (r.head + 1) % N = IF r.head + 1 < N THEN r.head + 1 ELSE (r.head + 1) - N
    BY <1>1, <2>1, Wrap
  <2>3. ~(r.head + 1 < N) => (r.head + 1) - N = 0
    BY <1>1, <1>4
  <2> QED BY <1>3, <2>2, <2>3
<1>7. new.count = IF n + 1 < N THEN n + 1 ELSE N
  BY <1>1, <1>3, <1>4
<1>8. ASSUME NEW i \in 0 .. new.count - 1
      PROVE  new.slots[(new.head - 1 - i + N) % N] = log1[(n + 1) - i]
  <2>1. i \in Nat /\ i < N /\ i =< n
    BY <1>1, <1>7
  <2>2. CASE i = 0
    <3>1. (new.head - 1 - i + N) % N = r.head
      <4>1. new.head - 1 - i + N = IF r.head + 1 < N THEN r.head + N ELSE N - 1
        BY <1>1, <1>4, <1>6, <2>2
      <4>2. CASE r.head + 1 < N
        BY <1>1, <1>4, <4>1, <4>2, Wrap
      <4>3. CASE ~(r.head + 1 < N)
        <5>1. r.head = N - 1
          BY <1>1, <1>4, <4>3
        <5>2. (N - 1) % N = N - 1
          BY <1>1, Wrap
        <5> QED BY <4>1, <4>3, <5>1, <5>2
      <4> QED BY <4>2, <4>3
    <3> QED BY <1>1, <1>2, <1>5, <2>2, <3>1
  <2>3. CASE i # 0
    <3> DEFINE old == r.head - 1 - (i - 1) + N
    <3>1. i - 1 \in 0 .. r.count - 1
      BY <1>1, <1>4, <2>1, <2>3
    <3>2. r.slots[old % N] = log[n - (i - 1)]
      BY <3>1 DEF RingOf, n
    <3>3. log1[(n + 1) - i] = log[n - (i - 1)]
      <4>1. (n + 1) - i = n - (i - 1) /\ (n + 1) - i \in 1 .. n
        BY <1>1, <2>1, <2>3
      <4> QED BY <1>2, <4>1
    <3>4. old % N = (IF r.head - i < 0 THEN r.head - i + N ELSE r.head - i)
      <4>1. old = r.head - i + N /\ old \in Int /\ 0 =< old /\ old < 2 * N
        BY <1>1, <1>4, <2>1
      <4> HIDE DEF old
      <4>2. old % N = IF old < N THEN old ELSE old - N
        BY <1>1, <4>1, Wrap
      <4> QED BY <1>1, <1>4, <2>1, <4>1, <4>2, SMTT(30)
    <3>5. (new.head - 1 - i + N) % N = old % N
      <4>1. CASE r.head + 1 < N
        <5>1. new.head - 1 - i + N = old
          BY <1>1, <1>4, <1>6, <2>1, <4>1
        <5> QED BY <5>1
      <4>2. CASE ~(r.head + 1 < N)
        <5>1. r.head = N - 1 /\ new.head - 1 - i + N = N - 1 - i
          BY <1>1, <1>4, <1>6, <2>1, <4>2
        <5>2. (N - 1 - i) % N = N - 1 - i
          BY <1>1, <2>1, Wrap
        <5> QED BY <1>1, <2>1, <3>4, <5>1, <5>2
      <4> QED BY <4>1, <4>2
    <3>6. old % N \in 0 .. N - 1 /\ old % N # r.head
      <4> DEFINE w == old % N
      <4>1. w = (IF r.head - i < 0 THEN r.head - i + N ELSE r.head - i)
        BY <3>4
      <4>2. r.head \in Int /\ 0 =< r.head /\ r.head =< N - 1
        BY <1>1, <1>4
      <4> HIDE DEF w
      <4>3. w \in 0 .. N - 1 /\ w # r.head
        BY <1>1, <2>1, <2>3, <4>1, <4>2
      <4> QED BY <4>3 DEF w
    <3> HIDE DEF old
    <3> QED BY <1>5, <3>2, <3>3, <3>5, <3>6
  <2> QED BY <2>2, <2>3
<1>9. new.head \in 0 .. N - 1
  BY <1>1, <1>4, <1>6
<1>10. new.slots \in [0 .. N - 1 -> Event \cup {NoEvent}]
  BY <1>3, <1>4 DEF RingOf
<1> QED BY <1>2, <1>7, <1>8, <1>9, <1>10 DEF RingOf, new, log1

(* So does add_event for any number of events. *)
LEMMA PutsHold ==
  ASSUME NEW r, NEW log \in Events, NEW es \in Events, RingOf(r, log)
  PROVE  RingOf(FoldLeft(Put, r, es), log \o es)
<1> DEFINE n == Len(es)
           upto(k) == log \o SubSeq(es, 1, k)
<1>1. n \in Nat
  BY DEF Events
<1>2. PICK g : InSteps(g, "put", 0, r, es, n) /\ FoldLeft(Put, r, es) = g[n]
  BY PutInSteps DEF Events
<1>3. g[0] = r /\ \A k \in 1 .. n : g[k] = Put(g[k - 1], es[k])
  BY <1>2 DEF InSteps, Step
<1>4. upto(0) = log /\ upto(n) = log \o es
  BY DEF Events
<1>5. ASSUME NEW k \in 1 .. n
      PROVE  /\ upto(k - 1) \in Events /\ es[k] \in Event
             /\ upto(k) = Append(upto(k - 1), es[k])
  BY DEF Events
<1> HIDE DEF n, upto
<1> DEFINE S == {k \in 0 .. n : ~RingOf(g[k], upto(k))}
<1>6. S = {}
  <2> SUFFICES ASSUME S # {} PROVE FALSE
    OBVIOUS
  <2>1. PICK k \in S : \A x \in S : k =< x
    <3> HIDE DEF S
    <3>1. S \in SUBSET Nat
      BY <1>1 DEF S
    <3> QED BY <3>1, NatMinimum
  <2>2. k \in 1 .. n /\ k - 1 \in 0 .. n /\ ~RingOf(g[k], upto(k))
    BY <1>1, <1>3, <1>4
  <2>3. k - 1 \notin S
    <3> HIDE DEF S
    <3> QED BY <1>1, <2>1, <2>2
  <2>4. RingOf(g[k - 1], upto(k - 1))
    BY <2>2, <2>3
  <2> HIDE DEF S
  <2>5. RingOf(Put(g[k - 1], es[k]), Append(upto(k - 1), es[k]))
    BY <1>5, <2>2, <2>4, PutHolds
  <2> QED BY <1>3, <1>5, <2>2, <2>5
<1>7. RingOf(g[n], upto(n))
  <2>1. n \in 0 .. n /\ n \notin S
    BY <1>1, <1>6
  <2> QED BY <2>1
<1> QED BY <1>2, <1>4, <1>7

(* Every event is counted in one of the two totals. *)
LEMMA EventsCounted ==
  ASSUME NEW es \in Events
  PROVE  LET tally(type) == Cardinality({i \in 1 .. Len(es) : es[i].type = type})
         IN  /\ tally("FORK") \in Nat /\ tally("EXIT") \in Nat
             /\ tally("FORK") + tally("EXIT") = Len(es)
<1> DEFINE F == {i \in 1 .. Len(es) : es[i].type = "FORK"}
           X == {i \in 1 .. Len(es) : es[i].type = "EXIT"}
<1>1. Len(es) \in Nat /\ \A i \in 1 .. Len(es) : es[i].type \in {"FORK", "EXIT"}
  <2>1. \A i \in 1 .. Len(es) : es[i] \in Event
    BY DEF Events
  <2> QED BY <2>1 DEF Events, Event
<1>2. IsFiniteSet(1 .. Len(es)) /\ Cardinality(1 .. Len(es)) = Len(es)
  <2> DEFINE n == Len(es)
  <2>1. n \in Nat /\ n \in Int /\ 1 \in Int
    BY <1>1
  <2> HIDE DEF n
  <2>2. IsFiniteSet(1 .. n) /\ Cardinality(1 .. n) = IF 1 > n THEN 0 ELSE n - 1 + 1
    BY <2>1, FS_Interval
  <2>3. Cardinality(1 .. n) = n
    BY <2>1, <2>2
  <2> QED BY <2>2, <2>3 DEF n
<1>3. IsFiniteSet(F) /\ IsFiniteSet(X) /\ F \cap X = {} /\ F \cup X = 1 .. Len(es)
  BY <1>1, <1>2, FS_Subset
<1>4. Cardinality(F \cup X) = Cardinality(F) + Cardinality(X) - Cardinality(F \cap X)
  BY <1>3, FS_Union
<1>5. Cardinality(F) \in Nat /\ Cardinality(X) \in Nat /\ Cardinality(F \cap X) = 0
  BY <1>3, FS_CardinalityType, FS_EmptySet
<1>6. Cardinality(F) + Cardinality(X) = Len(es)
  <2> DEFINE f == Cardinality(F)
             x == Cardinality(X)
             c == Cardinality(F \cap X)
  <2>1. f \in Nat /\ x \in Nat /\ c = 0 /\ Len(es) = f + x - c
    BY <1>2, <1>3, <1>4, <1>5
  <2> HIDE DEF f, x, c
  <2>2. f + x = Len(es)
    BY <2>1
  <2> QED BY <2>2, Zenon DEF f, x
<1> HIDE DEF F, X
<1> QED BY <1>5, <1>6 DEF F, X

(* The ring holds the end of the log, and the totals tally all of it. *)
RingInv ==
  /\ evLog \in Events /\ RingOf(ring, evLog)
  /\ counters \in [forks : Nat, exits : Nat]
  /\ counters.forks + counters.exits = Len(evLog)

(* Events are added. *)
LEMMA AddEventsStep ==
  ASSUME RingInv, NEW es \in Events, AddEvents(es)
  PROVE  RingInv'
<1> DEFINE tally(type) == Cardinality({i \in 1 .. Len(es) : es[i].type = type})
<1>1. /\ ring' = FoldLeft(Put, ring, es) /\ evLog' = evLog \o es
      /\ counters' = [forks |-> counters.forks + tally("FORK"),
                      exits |-> counters.exits + tally("EXIT")]
      /\ DOMAIN counters' = {"forks", "exits"}
  BY DEF AddEvents
<1>2. RingOf(ring', evLog')
  BY <1>1, PutsHold DEF RingInv
<1>3. /\ tally("FORK") \in Nat /\ tally("EXIT") \in Nat
      /\ tally("FORK") + tally("EXIT") = Len(es)
  BY EventsCounted
<1> HIDE DEF tally
<1>4. evLog' \in Events /\ Len(evLog') = Len(evLog) + Len(es) /\ Len(evLog) \in Nat
      /\ Len(es) \in Nat
  BY <1>1 DEF RingInv, Events
<1>5. /\ counters.forks \in Nat /\ counters.exits \in Nat
      /\ counters.forks + counters.exits = Len(evLog)
  BY DEF RingInv
<1>6. /\ counters'.forks = counters.forks + tally("FORK")
      /\ counters'.exits = counters.exits + tally("EXIT")
  BY <1>1
<1>7. /\ counters'.forks \in Nat /\ counters'.exits \in Nat
      /\ counters'.forks + counters'.exits = Len(evLog')
  <2> DEFINE f == counters.forks
             x == counters.exits
             a == tally("FORK")
             b == tally("EXIT")
  <2>1. f \in Nat /\ x \in Nat /\ a \in Nat /\ b \in Nat /\ f + x = Len(evLog)
        /\ a + b = Len(es)
    BY <1>3, <1>5
  <2>2. counters'.forks = f + a /\ counters'.exits = x + b
    BY <1>6
  <2> HIDE DEF f, x, a, b
  <2> QED BY <1>4, <2>1, <2>2
<1>8. counters' \in [forks : Nat, exits : Nat]
  <2>1. PICK f, x : counters' = [forks |-> f, exits |-> x]
    BY <1>1
  <2>2. f \in Nat /\ x \in Nat
    BY <1>7, <2>1
  <2> QED BY <2>1, <2>2
<1> QED BY <1>2, <1>4, <1>7, <1>8 DEF RingInv

-----------------------------------------------------------------------------
(* The tables of procevent.  Their nodes link downwards. *)
EvTyped(nodes, idx, cur, prev) ==
  /\ nodes \in [0 .. EvPoolSize - 1 -> [pid : EvPids \cup {0}, val : {0}, next : Links(EvPoolSize)]]
  /\ \A n \in 0 .. EvPoolSize - 1 : nodes[n].next < n
  /\ idx \in 0 .. EvPoolSize
  /\ cur \in [0 .. EvBuckets - 1 -> Links(EvPoolSize)]
  /\ prev \in [0 .. EvBuckets - 1 -> Links(EvPoolSize)]

(* The first idx nodes hold the processes of this scan, each once and in   *)
(* the chain of its bucket, where a lookup finds it.                       *)
Scanned(nodes, idx, cur, seen) ==
  /\ \A n \in 0 .. EvPoolSize - 1 : n < idx => nodes[n].pid \in seen
  /\ \A m, n \in 0 .. EvPoolSize - 1 :
       m < idx /\ n < idx /\ nodes[m].pid = nodes[n].pid => m = n
  /\ SameBucket(EvPoolSize, nodes, EvBuckets, 0, idx)
  /\ \A b \in 0 .. EvBuckets - 1 :
       /\ cur[b] < idx
       /\ 0 =< cur[b] => nodes[cur[b]].pid % EvBuckets = b
  /\ \A p \in seen : Search(EvPoolSize, nodes, cur[p % EvBuckets], p) # -1

(* prev points into the first k nodes; those of them not handed out again  *)
(* since still hold the processes of the previous scan, in the same way.   *)
LeftOver(nodes, idx, prev, before, k) ==
  /\ \A n \in 0 .. EvPoolSize - 1 : idx =< n /\ n < k => nodes[n].pid \in before
  /\ \A m, n \in 0 .. EvPoolSize - 1 :
       /\ idx =< m /\ m < k /\ idx =< n /\ n < k
       /\ nodes[m].pid = nodes[n].pid
       => m = n
  /\ SameBucket(EvPoolSize, nodes, EvBuckets, idx, k)
  /\ \A b \in 0 .. EvBuckets - 1 :
       /\ prev[b] < k
       /\ idx =< prev[b] => nodes[prev[b]].pid % EvBuckets = b

(* The links of the pool go downwards, so every chain ends. *)
LEMMA EvDescending ==
  ASSUME NEW nodes, NEW idx, NEW cur, NEW prev, EvTyped(nodes, idx, cur, prev)
  PROVE  Descending(EvPoolSize, nodes)
<1>1. \A n \in 0 .. EvPoolSize - 1 :
        nodes[n] \in [pid : EvPids \cup {0}, val : {0}, next : Links(EvPoolSize)]
  BY DEF EvTyped
<1> QED BY <1>1 DEF EvTyped, Descending

(* A process has a bucket. *)
LEMMA EvHash ==
  ASSUME NEW p \in EvPids
  PROVE  p % EvBuckets \in 0 .. EvBuckets - 1
<1>1. p \in Nat /\ EvBuckets \in Nat /\ EvBuckets > 0
  BY ProcEventAssumption
<1> QED BY <1>1

(* The tables are swapped: what was this scan is the previous one. *)
LEMMA SwapScanned ==
  ASSUME NEW nodes, NEW idx, NEW cur, NEW prev, NEW seen, NEW empty,
         EvTyped(nodes, idx, cur, prev), Scanned(nodes, idx, cur, seen),
         empty = [b \in 0 .. EvBuckets - 1 |-> -1]
  PROVE  /\ EvTyped(nodes, 0, empty, cur)
         /\ Scanned(nodes, 0, empty, {})
         /\ idx \in 0 .. EvPoolSize /\ LeftOver(nodes, 0, cur, seen, idx)
<1>1. EvPoolSize \in Nat /\ idx \in 0 .. EvPoolSize
  BY ProcEventAssumption DEF EvTyped
<1>2. EvTyped(nodes, 0, empty, cur)
  BY <1>1 DEF EvTyped, Links
<1>3. Scanned(nodes, 0, empty, {})
  BY <1>1 DEF Scanned, SameBucket
<1>4. LeftOver(nodes, 0, cur, seen, idx)
  BY <1>1 DEF Scanned, LeftOver
<1> QED BY <1>1, <1>2, <1>3, <1>4

(* insert_pid: the node is filled and put at the head of its bucket. *)
StoredFirst(nodes, idx, cur, p, nodes1, cur1) ==
  /\ nodes1 = [nodes EXCEPT ![idx] =
                 [pid |-> p, val |-> 0, next |-> cur[p % EvBuckets]]]
  /\ cur1 = [cur EXCEPT ![p % EvBuckets] = idx]

(* One process is stored. *)
LEMMA InsertScanned ==
  ASSUME NEW nodes, NEW idx, NEW cur, NEW prev, NEW seen \in SUBSET EvPids, NEW before,
         NEW k \in 0 .. EvPoolSize, NEW p \in EvPids, p \notin seen, idx < EvPoolSize,
         EvTyped(nodes, idx, cur, prev), Scanned(nodes, idx, cur, seen),
         LeftOver(nodes, idx, prev, before, k),
         NEW nodes1, NEW cur1,
         StoredFirst(nodes, idx, cur, p, nodes1, cur1)
  PROVE  /\ EvTyped(nodes1, idx + 1, cur1, prev)
         /\ Scanned(nodes1, idx + 1, cur1, seen \cup {p})
         /\ LeftOver(nodes1, idx + 1, prev, before, k)
<1> DEFINE K == EvPoolSize
           b0 == p % EvBuckets
           h == cur[b0]
           new == [pid |-> p, val |-> 0, next |-> h]
<1>1. K \in Nat /\ K > 0 /\ idx \in Nat /\ idx \in 0 .. K - 1 /\ idx + 1 \in 0 .. K
      /\ k \in Nat
  BY ProcEventAssumption DEF EvTyped
<1>2. b0 \in 0 .. EvBuckets - 1 /\ \A q \in seen : q % EvBuckets \in 0 .. EvBuckets - 1
  BY EvHash
<1>3. h \in Links(K) /\ h < idx /\ h \in Int
  BY <1>2 DEF EvTyped, Scanned, Links
<1>4. /\ nodes1[idx] = new /\ \A n \in 0 .. K - 1 : n # idx => nodes1[n] = nodes[n]
      /\ cur1[b0] = idx /\ \A b \in 0 .. EvBuckets - 1 : b # b0 => cur1[b] = cur[b]
  BY <1>1, <1>2 DEF EvTyped, StoredFirst
<1>5. new.pid = p /\ new.next = h
  OBVIOUS
<1>6. \A n \in 0 .. K - 1 : /\ nodes[n].next < n /\ nodes[n].next \in Int
                            /\ nodes[n].next \in Links(K)
  <2>1. Descending(K, nodes)
    BY EvDescending
  <2> QED BY <2>1 DEF Descending, Links
<1>7. EvTyped(nodes1, idx + 1, cur1, prev)
  <2>1. new \in [pid : EvPids \cup {0}, val : {0}, next : Links(K)]
    BY <1>3
  <2> HIDE DEF new
  <2>2. nodes1 \in [0 .. K - 1 -> [pid : EvPids \cup {0}, val : {0}, next : Links(K)]]
    <3>1. nodes1 = [nodes EXCEPT ![idx] = new]
      BY DEF new, StoredFirst
    <3> QED BY <1>1, <2>1, <3>1 DEF EvTyped
  <2>3. \A n \in 0 .. K - 1 : nodes1[n].next < n
    BY <1>1, <1>3, <1>4, <1>5, <1>6
  <2>4. idx \in Links(K)
    BY <1>1 DEF Links
  <2>5. cur1 \in [0 .. EvBuckets - 1 -> Links(K)]
    BY <1>2, <2>4 DEF EvTyped, StoredFirst
  <2> QED BY <1>1, <2>2, <2>3, <2>5 DEF EvTyped
<1> HIDE DEF new
<1>8. Scanned(nodes1, idx + 1, cur1, seen \cup {p})
  <2>1. \A n \in 0 .. K - 1 : n < idx + 1 => nodes1[n].pid \in seen \cup {p}
    <3> SUFFICES ASSUME NEW n \in 0 .. K - 1, n < idx + 1
                 PROVE  nodes1[n].pid \in seen \cup {p}
      OBVIOUS
    <3>1. CASE n = idx
      BY <1>4, <1>5, <3>1
    <3>2. CASE n # idx
      BY <1>1, <1>4, <3>2 DEF Scanned
    <3> QED BY <3>1, <3>2
  <2>2. ASSUME NEW m \in 0 .. K - 1, NEW n \in 0 .. K - 1, m < idx + 1, n < idx + 1,
               nodes1[m].pid = nodes1[n].pid
        PROVE  m = n
    <3>1. CASE m # idx /\ n # idx
      BY <1>1, <1>4, <2>2, <3>1 DEF Scanned
    <3>2. CASE m = idx /\ n # idx
      <4>1. nodes1[n].pid \in seen
        BY <1>1, <1>4, <2>2, <3>2 DEF Scanned
      <4> QED BY <1>4, <1>5, <2>2, <3>2, <4>1
    <3>3. CASE m # idx /\ n = idx
      <4>1. nodes1[m].pid \in seen
        BY <1>1, <1>4, <2>2, <3>3 DEF Scanned
      <4> QED BY <1>4, <1>5, <2>2, <3>3, <4>1
    <3> QED BY <3>1, <3>2, <3>3
  <2>3. SameBucket(K, nodes1, EvBuckets, 0, idx + 1)
    <3> SUFFICES ASSUME NEW n \in 0 .. K - 1, n < idx + 1, 0 =< nodes1[n].next
                 PROVE  nodes1[nodes1[n].next].pid % EvBuckets = nodes1[n].pid % EvBuckets
      BY DEF SameBucket
    <3>1. CASE n = idx
      <4>1. nodes1[n].next = h /\ nodes1[n].pid = p
        BY <1>4, <1>5, <3>1
      <4>2. 0 =< h /\ nodes[h].pid % EvBuckets = b0 /\ h \in 0 .. K - 1 /\ h # idx
        <5>1. 0 =< h
          BY <4>1
        <5>2. nodes[h].pid % EvBuckets = b0
          BY <1>2, <5>1 DEF Scanned
        <5> HIDE DEF h
        <5> QED BY <1>1, <1>3, <5>1, <5>2
      <4> HIDE DEF h
      <4> QED BY <1>4, <4>1, <4>2
    <3>2. CASE n # idx
      <4>1. nodes1[n] = nodes[n] /\ n < idx /\ 0 =< nodes[n].next
        BY <1>1, <1>4, <3>2
      <4>2. nodes[n].next \in 0 .. K - 1 /\ nodes[n].next # idx
        BY <1>1, <1>6, <4>1
      <4>3. nodes[nodes[n].next].pid % EvBuckets = nodes[n].pid % EvBuckets
        BY <1>1, <4>1 DEF Scanned, SameBucket
      <4> QED BY <1>4, <4>1, <4>2, <4>3
    <3> QED BY <3>1, <3>2
  <2>4. ASSUME NEW b \in 0 .. EvBuckets - 1
        PROVE  /\ cur1[b] < idx + 1
               /\ 0 =< cur1[b] => nodes1[cur1[b]].pid % EvBuckets = b
    <3>1. CASE b = b0
      BY <1>1, <1>4, <1>5, <3>1
    <3>2. CASE b # b0
      <4>1. cur1[b] = cur[b] /\ cur[b] \in Links(K) /\ cur[b] < idx /\ cur[b] \in Int
        BY <1>4, <3>2 DEF EvTyped, Scanned, Links
      <4>2. 0 =< cur[b] => cur[b] \in 0 .. K - 1 /\ cur[b] # idx
        BY <1>1, <4>1
      <4>3. 0 =< cur[b] => nodes[cur[b]].pid % EvBuckets = b
        BY DEF Scanned
      <4> QED BY <1>1, <1>4, <4>1, <4>2, <4>3
    <3> QED BY <3>1, <3>2
  <2>5. ASSUME NEW q \in seen \cup {p}
        PROVE  Search(K, nodes1, cur1[q % EvBuckets], q) # -1
    <3>1. Descending(K, nodes) /\ Descending(K, nodes1)
      BY <1>7, EvDescending
    <3>2. Agree(K, nodes, nodes1, idx)
      BY <1>1, <1>4 DEF Agree
    <3>3. Search(K, nodes1, idx, q) = IF p = q THEN idx ELSE Search(K, nodes, h, q)
      <4>1. nodes1[idx].next = h /\ nodes1[idx].pid = p
        BY <1>4, <1>5
      <4>2. K \in Nat /\ idx \in 0 .. K - 1
        BY <1>1
      <4> HIDE DEF h, K
      <4>3. Search(K, nodes1, idx, q)
              = IF nodes1[idx].pid = q THEN idx ELSE Search(K, nodes, nodes1[idx].next, q)
        BY <3>1, <3>2, <4>2, SearchNewNode
      <4> QED BY <4>1, <4>3
    <3>4. CASE q = p
      BY <1>1, <1>4, <3>3, <3>4
    <3>5. CASE q # p
      <4>1. q \in seen /\ q % EvBuckets \in 0 .. EvBuckets - 1
        BY <1>2, <3>5
      <4>2. Search(K, nodes, cur[q % EvBuckets], q) # -1
        BY <4>1 DEF Scanned
      <4>3. CASE q % EvBuckets = b0
        BY <1>4, <3>3, <3>5, <4>2, <4>3
      <4>4. CASE q % EvBuckets # b0
        <5> DEFINE g == cur[q % EvBuckets]
        <5>1. cur1[q % EvBuckets] = g /\ g \in Links(K) /\ g < idx /\ idx \in Int
          BY <1>1, <1>4, <4>1, <4>4 DEF EvTyped, Scanned
        <5> HIDE DEF g
        <5>2. Search(K, nodes, g, q) = Search(K, nodes1, g, q)
          BY <1>1, <3>1, <3>2, <5>1, SearchFrame
        <5> QED BY <4>2, <5>1, <5>2 DEF g
      <4> QED BY <4>3, <4>4
    <3> QED BY <3>4, <3>5
  <2> QED BY <2>1, <2>2, <2>3, <2>4, <2>5 DEF Scanned
<1>9. LeftOver(nodes1, idx + 1, prev, before, k)
  <2>1. \A n \in 0 .. K - 1 : idx + 1 =< n => nodes1[n] = nodes[n] /\ idx =< n
    BY <1>1, <1>4
  <2>2. \A n \in 0 .. K - 1 : idx + 1 =< n /\ n < k => nodes1[n].pid \in before
    BY <2>1 DEF LeftOver
  <2>3. \A m, n \in 0 .. K - 1 :
          /\ idx + 1 =< m /\ m < k /\ idx + 1 =< n /\ n < k
          /\ nodes1[m].pid = nodes1[n].pid
          => m = n
    BY <2>1 DEF LeftOver
  <2>4. SameBucket(K, nodes1, EvBuckets, idx + 1, k)
    <3> SUFFICES ASSUME NEW n \in 0 .. K - 1, idx + 1 =< n, n < k, idx + 1 =< nodes1[n].next
                 PROVE  nodes1[nodes1[n].next].pid % EvBuckets = nodes1[n].pid % EvBuckets
      BY DEF SameBucket
    <3>1. nodes1[n] = nodes[n] /\ idx =< n /\ idx + 1 =< nodes[n].next /\ idx =< nodes[n].next
      BY <1>1, <1>6, <2>1
    <3>2. nodes[n].next \in 0 .. K - 1
      BY <1>1, <1>6, <3>1
    <3>3. nodes[nodes[n].next].pid % EvBuckets = nodes[n].pid % EvBuckets
      BY <3>1 DEF LeftOver, SameBucket
    <3> QED BY <2>1, <3>1, <3>2, <3>3
  <2>5. ASSUME NEW b \in 0 .. EvBuckets - 1
        PROVE  /\ prev[b] < k
               /\ idx + 1 =< prev[b] => nodes1[prev[b]].pid % EvBuckets = b
    <3>1. prev[b] \in Int /\ prev[b] < k
      BY DEF EvTyped, LeftOver, Links
    <3>2. ASSUME idx + 1 =< prev[b] PROVE nodes1[prev[b]].pid % EvBuckets = b
      <4>1. prev[b] \in 0 .. K - 1 /\ idx =< prev[b]
        BY <1>1, <3>1, <3>2
      <4> QED BY <2>1, <3>2, <4>1 DEF LeftOver
    <3> QED BY <3>1, <3>2
  <2> QED BY <2>2, <2>3, <2>4, <2>5 DEF LeftOver
<1> QED BY <1>7, <1>8, <1>9

-----------------------------------------------------------------------------
(* The exits logged since mark are true, distinct, and from the buckets    *)
(* that have been walked.                                                  *)
ExitLog(log, mark, before, seen, bucket) ==
  /\ mark \in 0 .. Len(log)
  /\ \A i \in mark + 1 .. Len(log) :
       log[i].type = "EXIT" => /\ log[i].pid \in before \ seen
                               /\ log[i].pid % EvBuckets < bucket
  /\ \A i, l \in mark + 1 .. Len(log) :
       log[i].type = "EXIT" /\ log[i] = log[l] => i = l

(* As long as no bucket has been walked there are none. *)
LEMMA NoExitYet ==
  ASSUME NEW log \in Events, NEW mark \in Nat, NEW before, NEW seen,
         ExitLog(log, mark, before, seen, 0)
  PROVE  \A i \in mark + 1 .. Len(log) : log[i].type # "EXIT"
<1> SUFFICES ASSUME NEW i \in mark + 1 .. Len(log), log[i].type = "EXIT" PROVE FALSE
  OBVIOUS
<1>1. log[i] \in Event
  BY DEF Events
<1>2. log[i].pid \in EvPids
  BY <1>1 DEF Event
<1>3. log[i].pid % EvBuckets \in 0 .. EvBuckets - 1
  BY <1>2, EvHash
<1>4. log[i].pid % EvBuckets < 0
  BY DEF ExitLog
<1> QED BY <1>3, <1>4, ProcEventAssumption

(* Forks may be logged then, and more processes be seen. *)
LEMMA LogFork ==
  ASSUME NEW log \in Events, NEW mark \in Nat, NEW before, NEW seen, NEW seen1,
         ExitLog(log, mark, before, seen, 0),
         NEW es \in Events, \A i \in 1 .. Len(es) : es[i].type # "EXIT"
  PROVE  ExitLog(log \o es, mark, before, seen1, 0)
<1>1. /\ Len(log) \in Nat /\ Len(es) \in Nat /\ Len(log \o es) = Len(log) + Len(es)
      /\ \A i \in 1 .. Len(log) : (log \o es)[i] = log[i]
      /\ \A i \in 1 .. Len(es) : (log \o es)[Len(log) + i] = es[i]
  BY DEF Events
<1>2. mark =< Len(log)
  BY DEF ExitLog
<1>3. ASSUME NEW i \in mark + 1 .. Len(log \o es) PROVE (log \o es)[i].type # "EXIT"
  <2>1. CASE i =< Len(log)
    BY <1>1, <2>1, NoExitYet
  <2>2. CASE i > Len(log)
    <3>1. i - Len(log) \in 1 .. Len(es) /\ Len(log) + (i - Len(log)) = i
      BY <1>1, <2>2
    <3> QED BY <1>1, <3>1
  <2> QED BY <1>1, <2>1, <2>2
<1> QED BY <1>1, <1>2, <1>3 DEF ExitLog

(* The exits of one bucket are logged. *)
LEMMA LogExits ==
  ASSUME NEW log \in Events, NEW mark \in Nat, NEW before, NEW seen, NEW b \in Nat,
         ExitLog(log, mark, before, seen, b), NEW es \in Events,
         \A i \in 1 .. Len(es) : es[i].pid \in before \ seen /\ es[i].pid % EvBuckets = b,
         \A i, l \in 1 .. Len(es) : es[i] = es[l] => i = l
  PROVE  ExitLog(log \o es, mark, before, seen, b + 1)
<1> DEFINE n == Len(log)
           all == log \o es
<1>1. /\ n \in Nat /\ Len(es) \in Nat /\ Len(all) = n + Len(es)
      /\ \A i \in 1 .. n : all[i] = log[i]
      /\ \A i \in 1 .. Len(es) : all[n + i] = es[i]
  BY DEF Events
<1>2. mark =< n
  BY DEF ExitLog
<1>3. ASSUME NEW i \in mark + 1 .. n
      PROVE  /\ all[i] = log[i]
             /\ log[i].type = "EXIT" => /\ log[i].pid \in before \ seen
                                        /\ log[i].pid % EvBuckets < b
                                        /\ log[i].pid % EvBuckets \in Nat
  <2>1. log[i] \in Event
    BY DEF Events
  <2>2. log[i].pid % EvBuckets \in 0 .. EvBuckets - 1
    BY <2>1, EvHash DEF Event
  <2>3. log[i].pid % EvBuckets \in Nat
    BY <2>2
  <2> QED BY <1>1, <2>3 DEF ExitLog
<1>4. ASSUME NEW i \in mark + 1 .. Len(all), i > n
      PROVE  i - n \in 1 .. Len(es) /\ all[i] = es[i - n]
  <2>1. i - n \in 1 .. Len(es) /\ n + (i - n) = i
    BY <1>1, <1>4
  <2> QED BY <1>1, <2>1
<1>5. ASSUME NEW i \in mark + 1 .. Len(all) PROVE i \in mark + 1 .. n \/ i > n
  BY <1>1
<1> HIDE DEF n, all
<1>6. ASSUME NEW i \in mark + 1 .. Len(all), all[i].type = "EXIT"
      PROVE  all[i].pid \in before \ seen /\ all[i].pid % EvBuckets < b + 1
  <2>1. CASE i \in mark + 1 .. n
    BY <1>3, <1>6, <2>1
  <2>2. CASE i > n
    BY <1>4, <1>6, <2>2
  <2> QED BY <1>5, <2>1, <2>2
<1>7. ASSUME NEW i \in mark + 1 .. Len(all), NEW l \in mark + 1 .. Len(all),
             all[i].type = "EXIT", all[i] = all[l]
      PROVE  i = l
  <2>1. CASE i \in mark + 1 .. n /\ l \in mark + 1 .. n
    BY <1>3, <1>7, <2>1 DEF ExitLog, n
  <2>2. CASE i > n /\ l > n
    <3>1. i - n = l - n
      BY <1>4, <1>7, <2>2
    <3> QED BY <1>1, <3>1
  <2>3. CASE i \in mark + 1 .. n /\ l > n
    BY <1>3, <1>4, <1>7, <2>3
  <2>4. CASE i > n /\ l \in mark + 1 .. n
    BY <1>3, <1>4, <1>7, <2>4
  <2> QED BY <1>5, <2>1, <2>2, <2>3, <2>4
<1>8. mark \in 0 .. Len(all)
  BY <1>1, <1>2
<1> QED BY <1>6, <1>7, <1>8 DEF ExitLog, all

-----------------------------------------------------------------------------
(* The processes of this scan, of the last one, and those to be read. *)
EvSets ==
  /\ evSeen \in SUBSET EvPids /\ evSeenBefore \in SUBSET EvPids
  /\ evTodo \in SUBSET EvPids /\ evTodo \cap evSeen = {}

(* The inductive invariant of procevent. *)
EvInv ==
  /\ EvTyped(evPool, evPoolIdx, evCurrent, evPrevious)
  /\ Scanned(evPool, evPoolIdx, evCurrent, evSeen)
  /\ \E k \in 0 .. EvPoolSize : LeftOver(evPool, evPoolIdx, evPrevious, evSeenBefore, k)
  /\ EvSets /\ RingInv
  /\ evBucket \in Nat /\ (evScan = "scan" => evBucket = 0)
  /\ ExitLog(evLog, evMark, evSeenBefore, evSeen, evBucket)

(* It holds at the start, *)
LEMMA EvBegins == Init => EvInv
<1> SUFFICES ASSUME EvInit PROVE EvInv
  BY DEF Init
<1> DEFINE node == [pid |-> 0, val |-> 0, next |-> -1]
<1>1. /\ evPool = [n \in 0 .. EvPoolSize - 1 |-> node] /\ evPoolIdx = 0
      /\ evCurrent = [b \in 0 .. EvBuckets - 1 |-> -1]
      /\ evPrevious = [b \in 0 .. EvBuckets - 1 |-> -1]
  BY DEF EvInit, EvTable!TableInit, EvTable!Nodes, EvTable!NIL, EvTable!EmptyHeads
<1>2. /\ evTodo = {} /\ evSeen = {} /\ evSeenBefore = {} /\ evBucket = 0 /\ evLog = << >>
      /\ evMark = 0 /\ counters.forks = 0 /\ counters.exits = 0
      /\ ring.slots \in [0 .. MaxEvents - 1 -> Event \cup {NoEvent}]
      /\ ring.head = 0 /\ ring.count = 0 /\ counters \in [forks : Nat, exits : Nat]
  BY DEF EvInit
<1>3. node \in [pid : EvPids \cup {0}, val : {0}, next : Links(EvPoolSize)] /\ node.next = -1
  BY DEF Links
<1> HIDE DEF node
<1>4. EvPoolSize \in Nat /\ MaxEvents \in Nat /\ MaxEvents > 0
  BY ProcEventAssumption
<1>5. EvTyped(evPool, evPoolIdx, evCurrent, evPrevious)
  BY <1>1, <1>3, <1>4 DEF EvTyped, Links
<1>6. Scanned(evPool, 0, evCurrent, {})
  BY <1>1, <1>4 DEF Scanned, SameBucket
<1>7. LeftOver(evPool, 0, evPrevious, {}, 0)
  BY <1>1, <1>4 DEF LeftOver, SameBucket
<1>8. RingInv
  BY <1>2, <1>4 DEF RingInv, RingOf, Events
<1>9. ExitLog(<< >>, 0, {}, {}, 0)
  BY DEF ExitLog
<1>10. /\ Scanned(evPool, evPoolIdx, evCurrent, evSeen)
       /\ LeftOver(evPool, evPoolIdx, evPrevious, evSeenBefore, 0)
       /\ ExitLog(evLog, evMark, evSeenBefore, evSeen, evBucket)
  BY <1>1, <1>2, <1>6, <1>7, <1>9, Zenon
<1>11. EvSets /\ evBucket \in Nat /\ evBucket = 0 /\ 0 \in 0 .. EvPoolSize
  BY <1>2, <1>4 DEF EvSets
<1> QED BY <1>5, <1>8, <1>10, <1>11 DEF EvInv

(* A collection begins. *)
LEMMA EvBeginStep ==
  ASSUME EvInv, NEW procReadable \in BOOLEAN, EvBeginCollect(procReadable)
  PROVE  EvInv'
<1>1. /\ evPool' = evPool /\ evPoolIdx' = 0 /\ evPrevious' = evCurrent
      /\ evCurrent' = [b \in 0 .. EvBuckets - 1 |-> -1]
  BY DEF EvBeginCollect, EvTable!Swap, EvTable!EmptyHeads, EvTable!NIL
<1>2. /\ evTodo' \in SUBSET EvPids /\ evSeen' = {} /\ evSeenBefore' = evSeen
      /\ evBucket' = 0 /\ evMark' = Len(evLog)
      /\ evLog' = evLog /\ ring' = ring /\ counters' = counters
  BY DEF EvBeginCollect, eventVars
<1>3. /\ EvTyped(evPool, 0, evCurrent', evCurrent)
      /\ Scanned(evPool, 0, evCurrent', {})
      /\ evPoolIdx \in 0 .. EvPoolSize /\ LeftOver(evPool, 0, evCurrent, evSeen, evPoolIdx)
  <2> DEFINE empty == evCurrent'
  <2>1. empty = [b \in 0 .. EvBuckets - 1 |-> -1]
    BY <1>1
  <2> HIDE DEF empty
  <2>2. EvTyped(evPool, evPoolIdx, evCurrent, evPrevious) /\ Scanned(evPool, evPoolIdx, evCurrent, evSeen)
    BY DEF EvInv
  <2>3. /\ EvTyped(evPool, 0, empty, evCurrent)
        /\ Scanned(evPool, 0, empty, {})
        /\ evPoolIdx \in 0 .. EvPoolSize /\ LeftOver(evPool, 0, evCurrent, evSeen, evPoolIdx)
    BY <2>1, <2>2, SwapScanned
  <2> QED BY <2>3 DEF empty
<1>4. RingInv'
  BY <1>2 DEF EvInv, RingInv
<1>5. ExitLog(evLog, Len(evLog), evSeen, {}, 0)
  <2>1. Len(evLog) \in Nat
    BY DEF EvInv, RingInv, Events
  <2> QED BY <2>1 DEF ExitLog
<1>6. EvSets'
  BY <1>2 DEF EvInv, EvSets
<1>7. \E k \in 0 .. EvPoolSize : LeftOver(evPool, 0, evCurrent, evSeen, k)
  BY <1>3
<1> QED BY <1>1, <1>2, <1>3, <1>4, <1>5, <1>6, <1>7 DEF EvInv

(* A process is read. *)
LEMMA EvReadStep ==
  ASSUME EvInv, EvReadPid
  PROVE  EvInv'
<1> DEFINE p == Min(evTodo)
           fork == <<[type |-> "FORK", pid |-> p]>>
<1>1. /\ evScan = "scan" /\ evTodo # {} /\ evPoolIdx < EvPoolSize
      /\ evTodo' = evTodo \ {p} /\ evSeen' = evSeen \cup {p}
      /\ evPool' = [evPool EXCEPT ![evPoolIdx] =
                      [pid |-> p, val |-> 0, next |-> evCurrent[p % EvBuckets]]]
      /\ evCurrent' = [evCurrent EXCEPT ![p % EvBuckets] = evPoolIdx]
      /\ evPoolIdx' = evPoolIdx + 1 /\ evPrevious' = evPrevious
      /\ AddEvents(fork) \/ UNCHANGED <<ring, counters, evLog>>
      /\ evBucket' = evBucket /\ evMark' = evMark /\ evSeenBefore' = evSeenBefore
      /\ evScan' = evScan
  BY DEF EvReadPid, EvTable!Insert, EvTable!HasRoom, EvTable!Hash, eventVars
<1>2. /\ EvSets /\ RingInv /\ evBucket = 0
      /\ EvTyped(evPool, evPoolIdx, evCurrent, evPrevious)
      /\ Scanned(evPool, evPoolIdx, evCurrent, evSeen)
      /\ ExitLog(evLog, evMark, evSeenBefore, evSeen, 0)
  BY <1>1 DEF EvInv
<1>3. p \in evTodo /\ p \in EvPids /\ p \notin evSeen
  <2>1. evTodo \in SUBSET Nat
    BY <1>2, ProcEventAssumption DEF EvSets
  <2> QED BY <1>1, <1>2, <2>1, MinIsLeast DEF EvSets
<1>4. PICK k \in 0 .. EvPoolSize : LeftOver(evPool, evPoolIdx, evPrevious, evSeenBefore, k)
  BY DEF EvInv
<1>5. /\ EvTyped(evPool', evPoolIdx + 1, evCurrent', evPrevious)
      /\ Scanned(evPool', evPoolIdx + 1, evCurrent', evSeen \cup {p})
      /\ LeftOver(evPool', evPoolIdx + 1, evPrevious, evSeenBefore, k)
  <2> HIDE DEF p
  <2>1. StoredFirst(evPool, evPoolIdx, evCurrent, p, evPool', evCurrent')
    BY <1>1 DEF StoredFirst
  <2>2. evSeen \in SUBSET EvPids
    BY <1>2 DEF EvSets
  <2>3. evPoolIdx < EvPoolSize
    BY <1>1
  <2> QED BY <1>2, <1>3, <1>4, <2>1, <2>2, <2>3, InsertScanned
<1>6. fork \in Events /\ Len(fork) = 1 /\ \A i \in 1 .. Len(fork) : fork[i].type # "EXIT"
  <2> DEFINE e == [type |-> "FORK", pid |-> p]
  <2>1. e \in Event /\ e.type # "EXIT"
    BY <1>3 DEF Event
  <2> HIDE DEF e
  <2>2. <<e>> \in Seq(Event) /\ Len(<<e>>) = 1 /\ <<e>>[1] = e
    BY <2>1
  <2>3. \A i \in 1 .. 1 : i = 1
    OBVIOUS
  <2> QED BY <2>1, <2>2, <2>3 DEF e, Events
<1> HIDE DEF fork
<1>7. RingInv'
  <2>1. CASE AddEvents(fork)
    BY <1>2, <1>6, <2>1, AddEventsStep
  <2>2. CASE UNCHANGED <<ring, counters, evLog>>
    BY <1>2, <2>2 DEF RingInv
  <2> QED BY <1>1, <2>1, <2>2
<1>8. ExitLog(evLog', evMark, evSeenBefore, evSeen \cup {p}, 0)
  <2>1. evLog \in Events /\ evMark \in Nat
    BY <1>2 DEF RingInv, ExitLog
  <2>2. CASE AddEvents(fork)
    <3>1. evLog' = evLog \o fork
      BY <2>2 DEF AddEvents
    <3> QED BY <1>2, <1>6, <2>1, <3>1, LogFork
  <2>3. CASE UNCHANGED <<ring, counters, evLog>>
    <3>1. \A i \in evMark + 1 .. Len(evLog) : evLog[i].type # "EXIT"
      BY <1>2, <2>1, NoExitYet
    <3> QED BY <1>2, <2>3, <3>1 DEF ExitLog
  <2> QED BY <1>1, <2>2, <2>3
<1>9. EvSets'
  <2> HIDE DEF p
  <2> QED BY <1>1, <1>2, <1>3 DEF EvSets
<1>10. \E x \in 0 .. EvPoolSize :
         LeftOver(evPool', evPoolIdx + 1, evPrevious, evSeenBefore, x)
  BY <1>4, <1>5
<1> HIDE DEF p
<1> QED BY <1>1, <1>2, <1>5, <1>7, <1>8, <1>9, <1>10 DEF EvInv

(* A bucket of prev_pids is walked. *)
LEMMA EvWalkStep ==
  ASSUME EvInv, WalkBucket
  PROVE  EvInv'
<1> DEFINE K == EvPoolSize
           b == evBucket
           h == evPrevious[b]
           G == {n \in Trail(K, evPool, h) :
                   Search(K, evPool, evCurrent[evPool[n].pid % EvBuckets], evPool[n].pid) = -1}
<1>1. /\ evScan = "exits" /\ b < EvBuckets /\ evBucket' = b + 1
      /\ UNCHANGED <<evPool, evPoolIdx, evCurrent, evPrevious, evScan, evTodo, evMark, evSeen,
                     evSeenBefore>>
  BY DEF WalkBucket, evTableVars
<1>2. PICK walk \in Downwards(G) :
        AddEvents([i \in 1 .. Len(walk) |-> [type |-> "EXIT", pid |-> evPool[walk[i]].pid]])
  BY DEF WalkBucket, Gone, Trail, Search, Links, EvTable!Chain, EvTable!Find, EvTable!Ref,
         EvTable!Nodes, EvTable!NIL, EvTable!Hash
<1>3. /\ EvTyped(evPool, evPoolIdx, evCurrent, evPrevious)
      /\ Scanned(evPool, evPoolIdx, evCurrent, evSeen)
      /\ EvSets /\ RingInv /\ b \in 0 .. EvBuckets - 1
      /\ ExitLog(evLog, evMark, evSeenBefore, evSeen, b)
  BY <1>1, ProcEventAssumption DEF EvInv
<1>4. PICK k \in 0 .. K : LeftOver(evPool, evPoolIdx, evPrevious, evSeenBefore, k)
  BY DEF EvInv
<1>5. /\ Descending(K, evPool) /\ K \in Nat /\ evPoolIdx \in Nat /\ k \in Int
      /\ h \in Links(K) /\ h < k /\ SameBucket(K, evPool, EvBuckets, evPoolIdx, k)
  <2>1. Descending(K, evPool)
    BY <1>3, EvDescending
  <2>2. K \in Nat /\ evPoolIdx \in Nat /\ k \in Int
    BY <1>3, ProcEventAssumption DEF EvTyped
  <2>3. h \in Links(K)
    BY <1>3 DEF EvTyped
  <2>4. h < k /\ SameBucket(K, evPool, EvBuckets, evPoolIdx, k)
    BY <1>3, <1>4 DEF LeftOver
  <2> QED BY <2>1, <2>2, <2>3, <2>4
<1>6. ASSUME NEW n \in Trail(K, evPool, h)
      PROVE  /\ n \in 0 .. K - 1 /\ n =< h
             /\ evPoolIdx =< n => evPool[n].pid % EvBuckets = evPool[h].pid % EvBuckets
  <2> HIDE DEF K, h
  <2> QED BY <1>5, TrailHolds
<1>7. ASSUME NEW n \in G
      PROVE  /\ n \in 0 .. K - 1 /\ evPoolIdx =< n /\ n < k
             /\ evPool[n].pid \in evSeenBefore \ evSeen /\ evPool[n].pid \in EvPids
             /\ evPool[n].pid % EvBuckets = b
  <2>1. /\ n \in 0 .. K - 1 /\ n =< h
        /\ evPoolIdx =< n => evPool[n].pid % EvBuckets = evPool[h].pid % EvBuckets
    BY <1>6
  <2>2. evPool[n].pid \notin evSeen
    BY <1>3 DEF Scanned
  <2>3. evPoolIdx =< n
    <3>1. ~(n < evPoolIdx)
      BY <1>3, <2>1, <2>2 DEF Scanned
    <3> QED BY <1>5, <2>1, <3>1
  <2>4. n < k /\ evPoolIdx =< h
    <3>1. h \in Int
      BY <1>5 DEF Links
    <3> HIDE DEF h
    <3> QED BY <1>5, <2>1, <2>3, <3>1
  <2>5. evPool[n].pid \in evSeenBefore
    BY <1>4, <2>1, <2>3, <2>4 DEF LeftOver
  <2>6. evPool[h].pid % EvBuckets = b
    BY <1>3, <1>4, <2>4 DEF LeftOver
  <2> HIDE DEF G, h
  <2> QED BY <1>3, <2>1, <2>2, <2>3, <2>4, <2>5, <2>6 DEF EvSets
<1> HIDE DEF G
<1>8. IsFiniteSet(G) /\ Cardinality(G) \in Nat
  <2>1. IsFiniteSet(0 .. K - 1)
    BY <1>5, FS_Interval
  <2>2. G \in SUBSET (0 .. K - 1)
    BY <1>7
  <2>3. IsFiniteSet(G)
    BY <2>1, <2>2, FS_Subset
  <2> QED BY <2>3, FS_CardinalityType
<1> DEFINE c == Cardinality(G)
           es == [i \in 1 .. c |-> [type |-> "EXIT", pid |-> evPool[walk[i]].pid]]
<1>9. /\ walk \in [1 .. c -> G] /\ Len(walk) = c
      /\ \A i, l \in 1 .. c : i < l => walk[i] > walk[l]
  BY <1>8 DEF Downwards
<1>10. ASSUME NEW i \in 1 .. c
       PROVE  /\ es[i] = [type |-> "EXIT", pid |-> evPool[walk[i]].pid]
              /\ walk[i] \in G /\ es[i] \in Event /\ es[i].pid = evPool[walk[i]].pid
              /\ es[i].pid \in evSeenBefore \ evSeen /\ es[i].pid % EvBuckets = b
  <2>1. walk[i] \in G
    BY <1>9
  <2>2. evPool[walk[i]].pid \in evSeenBefore \ evSeen /\ evPool[walk[i]].pid \in EvPids
        /\ evPool[walk[i]].pid % EvBuckets = b
    BY <1>7, <2>1
  <2>3. es[i] = [type |-> "EXIT", pid |-> evPool[walk[i]].pid]
    OBVIOUS
  <2> HIDE DEF es
  <2> QED BY <2>1, <2>2, <2>3 DEF Event
<1>11. es \in Events /\ Len(es) = c /\ AddEvents(es)
  <2>1. es \in [1 .. c -> Event]
    <3>1. es = [i \in 1 .. c |-> es[i]]
      OBVIOUS
    <3> HIDE DEF es
    <3> QED BY <1>10, <3>1
  <2>2. AddEvents(es)
    BY <1>2, <1>9
  <2> HIDE DEF es, c
  <2>3. c \in Nat
    BY <1>8 DEF c
  <2> QED BY <2>1, <2>2, <2>3 DEF Events
<1>12. ASSUME NEW i \in 1 .. c, NEW l \in 1 .. c, es[i] = es[l] PROVE i = l
  <2>1. evPool[walk[i]].pid = evPool[walk[l]].pid
    <3> HIDE DEF es
    <3> QED BY <1>10, <1>12
  <2>2. walk[i] \in G /\ walk[l] \in G
    BY <1>9
  <2>3. walk[i] = walk[l]
    BY <1>4, <1>7, <2>1, <2>2 DEF LeftOver
  <2>4. walk[i] \in Int /\ i \in Int /\ l \in Int
    BY <1>7, <1>8, <2>2
  <2> HIDE DEF es, c
  <2>5. ~(i < l) /\ ~(l < i)
    BY <1>9, <2>3, <2>4
  <2> QED BY <2>4, <2>5
<1> HIDE DEF es, c
<1>13. RingInv'
  BY <1>3, <1>11, AddEventsStep
<1>14. ExitLog(evLog', evMark, evSeenBefore, evSeen, b + 1)
  <2>1. evLog' = evLog \o es /\ evLog \in Events /\ evMark \in Nat /\ b \in Nat
    BY <1>3, <1>11 DEF AddEvents, RingInv, ExitLog
  <2>2. \A i \in 1 .. Len(es) : es[i].pid \in evSeenBefore \ evSeen /\ es[i].pid % EvBuckets = b
    BY <1>10, <1>11
  <2>3. \A i, l \in 1 .. Len(es) : es[i] = es[l] => i = l
    BY <1>11, <1>12
  <2> HIDE DEF b
  <2> QED BY <1>3, <1>11, <2>1, <2>2, <2>3, LogExits
<1>15. b + 1 \in Nat
  BY <1>3
<1> QED BY <1>1, <1>3, <1>4, <1>13, <1>14, <1>15 DEF EvInv, EvSets

(* and every step keeps it. *)
LEMMA EvStep ==
  ASSUME EvInv, [Next]_vars
  PROVE  EvInv'
<1>1. ASSUME UNCHANGED <<evPool, evPoolIdx, evCurrent, evPrevious, ring, counters, evLog, evMark,
                         evSeen, evSeenBefore, evBucket>>,
             evTodo' \subseteq evTodo, evScan' = "scan" => evScan = "scan"
      PROVE  EvInv'
  BY <1>1 DEF EvInv, EvSets, RingInv
<1>2. CASE UNCHANGED evVars
  BY <1>1, <1>2 DEF evVars
<1>3. CASE EvNotRunning
  BY <1>1, <1>3 DEF EvNotRunning, evTableVars, eventVars
<1>4. CASE EvEndScan
  BY <1>1, <1>4 DEF EvEndScan, evTableVars, eventVars
<1>5. CASE EvEndCollect
  BY <1>1, <1>5 DEF EvEndCollect, evTableVars, eventVars
<1>6. CASE EvDone
  BY <1>1, <1>6 DEF EvDone, evVars
<1>7. EvNext \/ UNCHANGED evVars
  BY PartSteps
<1> QED BY <1>2, <1>3, <1>4, <1>5, <1>6, <1>7, EvBeginStep, EvReadStep, EvWalkStep DEF EvNext

(* procevent_get_recent and the snapshot show the latest events, newest    *)
(* first, and the totals count all of them, for every size of the ring.    *)
THEOREM RingHoldsLatestHolds == Spec => []RingHoldsLatest
<1>1. EvInv => RingHoldsLatest
  <2> SUFFICES ASSUME RingInv PROVE RingHoldsLatest
    BY DEF EvInv
  <2>1. Len(evLog) \in Nat /\ MaxEvents \in Nat
    BY ProcEventAssumption DEF RingInv, Events
  <2>2. Min({MaxEvents, Len(evLog)}) = IF MaxEvents =< Len(evLog) THEN MaxEvents ELSE Len(evLog)
    BY <2>1, MinOfTwo
  <2>3. ring.count = Min({MaxEvents, Len(evLog)})
    BY <2>1, <2>2 DEF RingInv, RingOf
  <2> QED BY <2>3 DEF RingHoldsLatest, RingInv, RingOf, Recent
<1> QED BY <1>1, EvBegins, EvStep, PTL DEF Spec

(* An exit event is never false and never repeated, for any processes,     *)
(* buckets and nodes.                                                      *)
THEOREM ExitsTruthfulHolds == Spec => []ExitsTruthful
<1>1. EvInv => ExitsTruthful
  <2> SUFFICES ASSUME ExitLog(evLog, evMark, evSeenBefore, evSeen, evBucket)
               PROVE  ExitsTruthful
    BY DEF EvInv
  <2>1. Reported("EXIT") \subseteq evSeenBefore \ evSeen
    BY DEF Reported, ExitLog
  <2> QED BY <2>1 DEF ExitsTruthful, ExitLog
<1> QED BY <1>1, EvBegins, EvStep, PTL DEF Spec

-----------------------------------------------------------------------------
(* procstat: the list of blocked threads, and the entry of a process. *)
BlockedList == Seq(BlockedEntry)

Own(p) == [pid |-> p, tid |-> p]

(* What a process in state D adds: its own entry first, then some of its   *)
(* threads, each once; nothing only if the list is full.                   *)
Extends(new, list, p) ==
  /\ new \in BlockedList /\ Len(list) =< Len(new) /\ Len(new) =< MaxBlocked
  /\ Len(list) = Len(new) => Len(new) = MaxBlocked
  /\ \A k \in 1 .. Len(list) : new[k] = list[k]
  /\ \A k \in Len(list) + 1 .. Len(new) :
       /\ new[k].pid = p
       /\ k = Len(list) + 1 => new[k] = Own(p)
  /\ \A k, m \in Len(list) + 1 .. Len(new) : new[k] = new[m] => k = m

(* That is what WithBlocked does. *)
LEMMA WithBlockedExtends ==
  ASSUME NEW list \in BlockedList, Len(list) =< MaxBlocked, NEW p \in StatPids,
         NEW n \in Nat, NEW tids \in [1 .. n -> Tids], IsInjective(tids)
  PROVE  Extends(WithBlocked(list, p, tids), list, p)
<1> DEFINE given == [i \in 1 .. Len(tids) + 1 |->
                         [pid |-> p, tid |-> IF i = 1 THEN p ELSE tids[i - 1]]]
           r == Min({Len(given), MaxBlocked - Len(list)})
           added == SubSeq(given, 1, r)
           new == list \o added
<1>1. Len(tids) = n /\ Len(list) \in Nat /\ MaxBlocked \in Nat
  BY ProcStatAssumption DEF BlockedList
<1>2. ASSUME NEW i \in 1 .. n + 1
      PROVE  given[i] \in BlockedEntry
  <2>1. CASE i = 1
    BY <1>1, <2>1 DEF BlockedEntry
  <2>2. CASE i # 1
    <3>1. i - 1 \in 1 .. n
      BY <2>2
    <3>2. tids[i - 1] \in Tids
      BY <3>1
    <3> QED BY <1>1, <2>2, <3>2 DEF BlockedEntry
  <2> QED BY <2>1, <2>2
<1>3. /\ given \in BlockedList /\ Len(given) = n + 1
      /\ given[1] = Own(p)
      /\ \A i \in 1 .. n + 1 : given[i].pid = p
  BY <1>1, <1>2 DEF BlockedList, Own
<1>4. ASSUME NEW i \in 1 .. n + 1, NEW k \in 1 .. n + 1, given[i] = given[k]
      PROVE  i = k
  <2>1. given[i].tid = given[k].tid
    BY <1>4
  <2>2. \A x \in 1 .. n + 1 : given[x].tid = IF x = 1 THEN p ELSE tids[x - 1]
    BY <1>1
  <2>3. \A x \in 1 .. n + 1 : x # 1 => x - 1 \in DOMAIN tids /\ tids[x - 1] # p
    BY ProcStatAssumption
  <2>4. i # 1 /\ k # 1 => tids[i - 1] = tids[k - 1]
    BY <2>1, <2>2
  <2> HIDE DEF given
  <2>5. CASE i = 1 \/ k = 1
    BY <2>1, <2>2, <2>3, <2>5
  <2>6. CASE i # 1 /\ k # 1
    <3>1. i - 1 = k - 1
      BY <2>3, <2>4, <2>6 DEF IsInjective
    <3> QED BY <3>1
  <2> QED BY <2>5, <2>6
<1>5. WithBlocked(list, p, tids) = new
  BY Zenon DEF WithBlocked
<1> HIDE DEF given
<1>6. r = IF n + 1 =< MaxBlocked - Len(list) THEN n + 1 ELSE MaxBlocked - Len(list)
  <2>1. n + 1 \in Int /\ MaxBlocked - Len(list) \in Int
    BY <1>1
  <2> QED BY <1>3, <2>1, MinOfTwo
<1>7. /\ r \in Nat /\ r =< n + 1 /\ Len(list) + r =< MaxBlocked
      /\ r = 0 => Len(list) = MaxBlocked
  <2> HIDE DEF r
  <2> QED BY <1>1, <1>6
<1> HIDE DEF r
<1>8. /\ added \in BlockedList /\ Len(added) = r
      /\ \A i \in 1 .. r : added[i] = given[i]
  BY <1>3, <1>7 DEF BlockedList
<1> HIDE DEF added
<1>9. /\ new \in BlockedList /\ Len(new) = Len(list) + r
      /\ \A k \in 1 .. Len(list) : new[k] = list[k]
      /\ \A k \in 1 .. Len(list) + r : k > Len(list) => new[k] = added[k - Len(list)]
  BY <1>1, <1>7, <1>8 DEF BlockedList
<1> HIDE DEF new
<1>10. ASSUME NEW k \in Len(list) + 1 .. Len(new)
       PROVE  k - Len(list) \in 1 .. n + 1 /\ new[k] = given[k - Len(list)]
  <2>1. k \in 1 .. Len(list) + r /\ k > Len(list) /\ k - Len(list) \in 1 .. r
    BY <1>1, <1>7, <1>9
  <2> QED BY <1>7, <1>8, <1>9, <2>1
<1>11. ASSUME NEW k \in Len(list) + 1 .. Len(new)
       PROVE  new[k].pid = p /\ (k = Len(list) + 1 => new[k] = Own(p))
  <2>1. k = Len(list) + 1 => k - Len(list) = 1
    BY <1>1
  <2> QED BY <1>3, <1>10, <2>1
<1>12. ASSUME NEW k \in Len(list) + 1 .. Len(new), NEW m \in Len(list) + 1 .. Len(new),
              new[k] = new[m]
       PROVE  k = m
  <2>1. k - Len(list) = m - Len(list)
    BY <1>4, <1>10, <1>12
  <2> QED BY <1>1, <2>1
<1>13. Len(list) =< Len(new) /\ Len(new) =< MaxBlocked
       /\ (Len(list) = Len(new) => Len(new) = MaxBlocked)
  BY <1>1, <1>7, <1>9
<1> QED BY <1>5, <1>9, <1>11, <1>12, <1>13 DEF Extends

(* The list is about the processes in D, none of them missing its own      *)
(* entry, all of them there unless the list is full.                       *)
ListOf(list, D) ==
  /\ list \in BlockedList /\ Len(list) =< MaxBlocked
  /\ \A k \in 1 .. Len(list) :
       /\ list[k].pid \in D
       /\ \E m \in 1 .. Len(list) : list[m] = Own(list[k].pid)
  /\ \A k, m \in 1 .. Len(list) : list[k] = list[m] => k = m
  /\ Len(list) < MaxBlocked => \A p \in D : \E k \in 1 .. Len(list) : list[k] = Own(p)

(* It stays so when a process in state D is added. *)
LEMMA ListExtended ==
  ASSUME NEW list, NEW D, ListOf(list, D), NEW p, p \notin D,
         NEW new, Extends(new, list, p)
  PROVE  ListOf(new, D \cup {p})
<1>1. Len(list) \in Nat /\ Len(new) \in Nat /\ MaxBlocked \in Nat /\ new \in BlockedList
      /\ Len(list) =< Len(new) /\ Len(new) =< MaxBlocked
  BY ProcStatAssumption DEF ListOf, Extends, BlockedList
<1>2. \A k \in 1 .. Len(new) : k \in 1 .. Len(list) \/ k \in Len(list) + 1 .. Len(new)
  BY <1>1
<1>3. \A k \in 1 .. Len(list) : k \in 1 .. Len(new)
  BY <1>1
<1>4. ASSUME NEW k \in 1 .. Len(new)
      PROVE  /\ new[k].pid \in D \cup {p}
             /\ \E m \in 1 .. Len(new) : new[m] = Own(new[k].pid)
  <2>1. CASE k \in 1 .. Len(list)
    <3>1. new[k] = list[k] /\ list[k].pid \in D
      BY <2>1 DEF ListOf, Extends
    <3>2. PICK m \in 1 .. Len(list) : list[m] = Own(list[k].pid)
      BY <2>1 DEF ListOf
    <3>3. m \in 1 .. Len(new) /\ new[m] = list[m]
      BY <1>3, <3>2 DEF Extends
    <3> QED BY <3>1, <3>2, <3>3
  <2>2. CASE k \in Len(list) + 1 .. Len(new)
    <3> DEFINE m == Len(list) + 1
    <3>1. m \in 1 .. Len(new) /\ m \in Len(list) + 1 .. Len(new)
      BY <1>1, <2>2
    <3>2. new[k].pid = p /\ new[m] = Own(p)
      BY <2>2, <3>1 DEF Extends
    <3> QED BY <3>1, <3>2
  <2> QED BY <1>2, <2>1, <2>2
<1>5. ASSUME NEW k \in 1 .. Len(new), NEW m \in 1 .. Len(new), new[k] = new[m]
      PROVE  k = m
  <2>1. ASSUME NEW x \in 1 .. Len(list)
        PROVE  new[x].pid # p
    <3>1. new[x] = list[x]
      BY DEF Extends
    <3>2. list[x].pid \in D
      BY DEF ListOf
    <3> QED BY <3>1, <3>2
  <2>2. \A x \in Len(list) + 1 .. Len(new) : new[x].pid = p
    BY DEF Extends
  <2>3. CASE k \in 1 .. Len(list)
    <3>1. m \in 1 .. Len(list)
      BY <1>2, <1>5, <2>1, <2>2, <2>3
    <3>2. list[k] = list[m]
      BY <1>5, <2>3, <3>1 DEF Extends
    <3> QED BY <2>3, <3>1, <3>2 DEF ListOf
  <2>4. CASE k \in Len(list) + 1 .. Len(new)
    <3>1. m \in Len(list) + 1 .. Len(new)
      BY <1>2, <1>5, <2>1, <2>2, <2>4
    <3> QED BY <1>5, <2>4, <3>1 DEF Extends
  <2> QED BY <1>2, <2>3, <2>4
<1>6. ASSUME Len(new) < MaxBlocked, NEW q \in D \cup {p}
      PROVE  \E k \in 1 .. Len(new) : new[k] = Own(q)
  <2>1. Len(list) < Len(new) /\ Len(list) < MaxBlocked
    BY <1>1, <1>6 DEF Extends
  <2>2. CASE q \in D
    <3>1. PICK k \in 1 .. Len(list) : list[k] = Own(q)
      BY <2>1, <2>2 DEF ListOf
    <3> QED BY <1>3, <3>1 DEF Extends
  <2>3. CASE q = p
    <3> DEFINE m == Len(list) + 1
    <3>1. m \in 1 .. Len(new) /\ m \in Len(list) + 1 .. Len(new)
      BY <1>1, <2>1
    <3>2. new[m] = Own(p)
      BY <3>1 DEF Extends
    <3> QED BY <2>3, <3>1, <3>2
  <2> QED BY <2>2, <2>3
<1> QED BY <1>1, <1>4, <1>5, <1>6 DEF ListOf

-----------------------------------------------------------------------------
(* The processes this scan found in state D. *)
InD(seen) == {p \in DOMAIN seen : seen[p] = "D"}

(* The inductive invariant of procstat. *)
StatInv ==
  /\ statTodo \in SUBSET StatPids
  /\ DOMAIN statSeen \in SUBSET StatPids /\ DOMAIN statSeen \cap statTodo = {}
  /\ IsFiniteSet(DOMAIN statSeen)
  /\ DOMAIN statCounts = Counters
  /\ statCounts["D"] = Cardinality(InD(statSeen))
  /\ statTotal = Cardinality(DOMAIN statSeen)
  /\ ListOf(blocked, InD(statSeen))

(* An empty scan. *)
LEMMA StatEmpty ==
  ASSUME statTodo \in SUBSET StatPids, statSeen = NoStates, statTotal = 0,
         statCounts = [s \in Counters |-> 0], blocked = << >>
  PROVE  StatInv
<1>1. DOMAIN statSeen = {} /\ InD(statSeen) = {}
  BY DEF NoStates, InD
<1>2. IsFiniteSet({}) /\ Cardinality({}) = 0
  BY FS_EmptySet
<1>3. DOMAIN statCounts = Counters /\ statCounts["D"] = 0
  BY DEF Counters
<1>4. << >> \in BlockedList /\ Len(<< >>) = 0
  BY DEF BlockedList
<1>5. ListOf(<< >>, {})
  BY <1>4, ProcStatAssumption DEF ListOf
<1> QED BY <1>1, <1>2, <1>3, <1>5 DEF StatInv

(* A process is read. *)
LEMMA StatReadStep ==
  ASSUME StatInv, NEW s \in States, NEW n \in Nat, NEW tids \in [1 .. n -> Tids],
         IsInjective(tids), StatReadPid(s, tids)
  PROVE  StatInv'
<1> DEFINE p == Min(statTodo)
           P == DOMAIN statSeen
           D == InD(statSeen)
<1>1. /\ statTodo # {} /\ statTodo' = statTodo \ {p} /\ statTotal' = statTotal + 1
      /\ statCounts' = [c \in Counters |-> statCounts[c] + IF CounterOf(s) = c THEN 1 ELSE 0]
      /\ blocked' = IF s = "D" THEN WithBlocked(blocked, p, tids) ELSE blocked
      /\ statSeen' = [q \in P \cup {p} |-> IF q = p THEN s ELSE statSeen[q]]
  BY DEF StatReadPid
<1>2. p \in statTodo
  <2>1. statTodo \in SUBSET Nat
    BY ProcStatAssumption DEF StatInv
  <2> QED BY <1>1, <2>1, MinIsLeast
<1> HIDE DEF p
<1>3. p \in StatPids /\ p \notin P
  BY <1>2 DEF StatInv
<1>4. IsFiniteSet(P) /\ Cardinality(P) \in Nat /\ statTotal = Cardinality(P)
  BY FS_CardinalityType DEF StatInv
<1>5. D \subseteq P /\ p \notin D
  BY <1>3 DEF InD
<1>6. IsFiniteSet(D) /\ Cardinality(D) \in Nat
  BY <1>4, <1>5, FS_Subset, FS_CardinalityType
<1>7. DOMAIN statSeen' = P \cup {p}
  BY <1>1
<1>8. IsFiniteSet(P \cup {p}) /\ Cardinality(P \cup {p}) = Cardinality(P) + 1
  BY <1>3, <1>4, FS_AddElement
<1>9. InD(statSeen') = IF s = "D" THEN D \cup {p} ELSE D
  <2>1. \A q \in P \cup {p} : statSeen'[q] = IF q = p THEN s ELSE statSeen[q]
    BY <1>1
  <2>2. \A q : q \in InD(statSeen') <=> q \in P \cup {p} /\ statSeen'[q] = "D"
    BY <1>7 DEF InD
  <2>3. \A q : q \in D <=> q \in P /\ statSeen[q] = "D"
    BY DEF InD
  <2> HIDE DEF D, P
  <2> QED BY <1>3, <2>1, <2>2, <2>3
<1>10. DOMAIN statCounts' = Counters
       /\ statCounts'["D"] = statCounts["D"] + IF s = "D" THEN 1 ELSE 0
  <2>1. "D" \in Counters /\ (CounterOf(s) = "D" <=> s = "D")
    BY DEF Counters, CounterOf
  <2> QED BY <1>1, <2>1
<1>11. statCounts["D"] = Cardinality(D) /\ ListOf(blocked, D)
  BY DEF StatInv
<1>12. statCounts'["D"] = Cardinality(InD(statSeen'))
  <2>1. CASE s = "D"
    <3>1. Cardinality(D \cup {p}) = Cardinality(D) + 1
      BY <1>5, <1>6, FS_AddElement
    <3> QED BY <1>9, <1>10, <1>11, <2>1, <3>1
  <2>2. CASE s # "D"
    BY <1>6, <1>9, <1>10, <1>11, <2>2
  <2> QED BY <2>1, <2>2
<1> HIDE DEF P, D
<1>13. ListOf(blocked', InD(statSeen'))
  <2>1. CASE s = "D"
    <3>1. blocked \in BlockedList /\ Len(blocked) =< MaxBlocked
      BY <1>11 DEF ListOf
    <3>2. Extends(blocked', blocked, p)
      BY <1>1, <1>3, <2>1, <3>1, WithBlockedExtends
    <3> QED BY <1>5, <1>9, <1>11, <2>1, <3>2, ListExtended
  <2>2. CASE s # "D"
    BY <1>1, <1>9, <1>11, <2>2
  <2> QED BY <2>1, <2>2
<1>14. /\ statTodo' \in SUBSET StatPids /\ P \cup {p} \in SUBSET StatPids
       /\ (P \cup {p}) \cap statTodo' = {}
  BY <1>1, <1>3 DEF StatInv, P
<1> QED BY <1>1, <1>4, <1>7, <1>8, <1>10, <1>12, <1>13, <1>14 DEF StatInv

(* Every step of procstat keeps the invariant. *)
LEMMA StatStep ==
  ASSUME StatInv, [Next]_vars
  PROVE  StatInv'
<1>1. ASSUME UNCHANGED <<statTotal, statCounts, blocked, statSeen>>,
             statTodo' \in SUBSET statTodo
      PROVE  StatInv'
  BY <1>1 DEF StatInv, ListOf, InD
<1>2. CASE UNCHANGED statVars
  BY <1>1, <1>2 DEF statVars
<1>3. ASSUME NEW procOk \in BOOLEAN, StatBeginCollect(procOk) PROVE StatInv'
  <2>1. /\ statTodo' \in SUBSET StatPids /\ statSeen' = NoStates /\ statTotal' = 0
        /\ statCounts' = [s \in Counters |-> 0] /\ blocked' = << >>
    BY <1>3 DEF StatBeginCollect
  <2>2. (statTodo \in SUBSET StatPids /\ statSeen = NoStates /\ statTotal = 0
         /\ statCounts = [s \in Counters |-> 0] /\ blocked = << >> => StatInv)'
    BY StatEmpty, PTL
  <2> QED BY <2>1, <2>2 DEF NoStates, Counters
<1>4. CASE StatSkipPid
  BY <1>1, <1>4 DEF StatSkipPid
<1>5. CASE StatEndCollect
  BY <1>1, <1>5 DEF StatEndCollect
<1>6. ASSUME NEW s \in States,
             NEW tids \in {t \in SeqOf(Tids, Cardinality(Tids)) : IsInjective(t)},
             StatReadPid(s, tids)
      PROVE  StatInv'
  <2>1. PICK n \in Nat : tids \in [1 .. n -> Tids]
    BY DEF SeqOf
  <2> QED BY <1>6, <2>1, StatReadStep
<1>7. StatNext \/ UNCHANGED statVars
  BY PartSteps
<1> QED BY <1>2, <1>3, <1>4, <1>5, <1>6, <1>7 DEF StatNext

(* The list of blocked processes and the summary of procstat agree, for    *)
(* any number of processes and threads and every size of the list.         *)
THEOREM BlockedAgreesWithSummaryHolds == Spec => []BlockedAgreesWithSummary
<1>1. Init => StatInv
  <2> SUFFICES ASSUME StatInit PROVE StatInv
    BY DEF Init
  <2> QED BY StatEmpty DEF StatInit
<1>2. StatInv /\ [Next]_vars => StatInv'
  BY StatStep
<1>3. StatInv => BlockedAgreesWithSummary
  <2> SUFFICES ASSUME StatInv PROVE BlockedAgreesWithSummary
    OBVIOUS
  <2> DEFINE D == InD(statSeen)
             mains == {e \in ToSet(blocked) : e.tid = e.pid}
             own == {Own(p) : p \in D}
             f == [p \in D |-> Own(p)]
  <2>1. ListOf(blocked, D) /\ statCounts["D"] = Cardinality(D)
    BY DEF StatInv
  <2>2. Len(blocked) \in Nat /\ DOMAIN blocked = 1 .. Len(blocked) /\ blocked \in BlockedList
    BY <2>1 DEF ListOf, BlockedList
  <2>3. \A e : e \in ToSet(blocked) <=> \E k \in 1 .. Len(blocked) : e = blocked[k]
    BY <2>2 DEF ToSet
  <2>4. \A e \in ToSet(blocked) : /\ e \in BlockedEntry /\ e.pid \in D
                                  /\ Own(e.pid) \in ToSet(blocked)
    <3> SUFFICES ASSUME NEW e \in ToSet(blocked)
                 PROVE  e \in BlockedEntry /\ e.pid \in D /\ Own(e.pid) \in ToSet(blocked)
      OBVIOUS
    <3>1. PICK k \in 1 .. Len(blocked) : e = blocked[k]
      BY <2>3
    <3>2. blocked[k] \in BlockedEntry
      BY <2>2 DEF BlockedList
    <3>3. blocked[k].pid \in D
      BY <2>1 DEF ListOf
    <3>4. PICK m \in 1 .. Len(blocked) : blocked[m] = Own(blocked[k].pid)
      BY <2>1 DEF ListOf
    <3> QED BY <2>3, <3>1, <3>2, <3>3, <3>4
  <2>5. \A p : Own(p).pid = p /\ Own(p).tid = p
    BY DEF Own
  <2>6. \A e \in mains : e = Own(e.pid)
    <3> SUFFICES ASSUME NEW e \in BlockedEntry, e.tid = e.pid PROVE e = Own(e.pid)
      BY <2>4
    <3> QED BY DEF Own, BlockedEntry
  <2>7. {e.pid : e \in ToSet(blocked)} = {e.pid : e \in mains}
    <3>1. \A e \in ToSet(blocked) : Own(e.pid) \in mains
      BY <2>4, <2>5
    <3> QED BY <2>5, <3>1
  <2>8. {e.pid : e \in mains} \subseteq D
    BY <2>4
  <2>9. IsInjective(blocked)
    BY <2>1, <2>2 DEF ListOf, IsInjective
  <2>10. IsFiniteSet(D)
    <3>1. D \subseteq DOMAIN statSeen
      BY DEF InD
    <3> QED BY <3>1, FS_Subset DEF StatInv
  <2>11. Cardinality(own) = Cardinality(D)
    <3>1. DOMAIN f = D /\ \A x, y \in D : f[x] = f[y] => x = y
      BY <2>5
    <3>2. own = {f[x] : x \in D}
      OBVIOUS
    <3> HIDE DEF f, own, D
    <3> QED BY <2>10, <3>1, <3>2, SameSize
  <2>12. ASSUME Cardinality(mains) < statCounts["D"] PROVE Len(blocked) = MaxBlocked
    <3>1. Len(blocked) =< MaxBlocked /\ MaxBlocked \in Nat
      BY <2>1, ProcStatAssumption DEF ListOf
    <3>2. ASSUME Len(blocked) < MaxBlocked PROVE FALSE
      <4>1. \A p \in D : Own(p) \in ToSet(blocked)
        BY <2>1, <2>3, <3>2 DEF ListOf
      <4>2. mains = own
        BY <2>4, <2>5, <2>6, <4>1
      <4>3. Cardinality(D) \in Nat
        BY <2>10, FS_CardinalityType
      <4> HIDE DEF mains, own, D
      <4>4. Cardinality(D) < Cardinality(D)
        BY <2>1, <2>11, <2>12, <4>2
      <4> QED BY <4>3, <4>4
    <3> HIDE DEF mains, own, D, f
    <3>3. Len(blocked) \in Nat
      BY <2>2
    <3>4. ~(Len(blocked) < MaxBlocked)
      BY <3>2
    <3> QED BY <3>1, <3>3, <3>4
  <2>13. Len(blocked) =< MaxBlocked /\ statTotal = Cardinality(DOMAIN statSeen)
    BY <2>1 DEF ListOf, StatInv
  <2> QED BY <2>1, <2>7, <2>8, <2>9, <2>12, <2>13 DEF BlockedAgreesWithSummary, InD
<1> QED BY <1>1, <1>2, <1>3, PTL DEF Spec

-----------------------------------------------------------------------------
(* slabinfo: the row of a cache that two readings have in common. *)
CacheRow(old, new, c) == [cache |-> c, size |-> new[c], delta |-> new[c] - old[c]]

SlabCommon(old, new) == DOMAIN new \cap DOMAIN old

(* A reading and its caches. *)
LEMMA SlabReadings ==
  ASSUME NEW r \in SlabReading
  PROVE  /\ DOMAIN r \in SUBSET Caches /\ IsFiniteSet(DOMAIN r)
         /\ \A c \in DOMAIN r : r[c] \in Nat
<1>1. PICK C \in SUBSET Caches : r \in [C -> Sizes]
  BY DEF SlabReading
<1>2. DOMAIN r = C /\ \A c \in C : r[c] \in Sizes
  BY <1>1
<1>3. IsFiniteSet(C)
  BY FS_Subset, SlabAssumption
<1> QED BY <1>2, <1>3, SlabAssumption

(* Cutting a reading off gives a reading. *)
LEMMA KeptReading ==
  ASSUME NEW r \in SlabReading
  PROVE  Kept(r) \in SlabReading
<1>1. PICK C \in SUBSET Caches : r \in [C -> Sizes]
  BY DEF SlabReading
<1> DEFINE K == {x \in DOMAIN r : Cardinality({y \in DOMAIN r : y < x}) < MaxSlabs}
<1>2. K \in SUBSET Caches /\ \A c \in K : r[c] \in Sizes
  BY <1>1
<1>3. Kept(r) = [c \in K |-> r[c]]
  BY DEF Kept
<1> HIDE DEF K
<1>4. Kept(r) \in [K -> Sizes]
  BY <1>2, <1>3
<1> QED BY <1>2, <1>4 DEF SlabReading

(* A list of the rows that moved as M says: some of them, and as many as   *)
(* there is room for.                                                      *)
TopRows(list, old, new, M) ==
  /\ \A e \in list : \E c \in M : e = CacheRow(old, new, c)
  /\ Cardinality(list) = Min({TopN, Cardinality(M)})

(* Sorting and cutting off leaves rows of the caches compared. *)
LEMMA TopOfRows ==
  ASSUME NEW old, NEW new, NEW M, IsFiniteSet(M), NEW key,
         DOMAIN key = {CacheRow(old, new, c) : c \in M},
         NEW list \in SlabTop(key)
  PROVE  TopRows(list, old, new, M)
<1> DEFINE f == [c \in M |-> CacheRow(old, new, c)]
           R == {f[c] : c \in M}
<1>1. list \subseteq DOMAIN key /\ Cardinality(list) = Min({TopN, Cardinality(DOMAIN key)})
  BY DEF SlabTop
<1>2. R = DOMAIN key
  OBVIOUS
<1>3. DOMAIN f = M /\ \A x, y \in M : f[x] = f[y] => x = y
  <2>1. \A c : CacheRow(old, new, c).cache = c
    BY DEF CacheRow
  <2> QED BY <2>1
<1>4. Cardinality(R) = Cardinality(M)
  <2> HIDE DEF f
  <2> QED BY <1>3, SameSize
<1>5. \A e \in list : \E c \in M : e = CacheRow(old, new, c)
  BY <1>1
<1> HIDE DEF R, f
<1> QED BY <1>1, <1>2, <1>4, <1>5 DEF TopRows

(* The caches that grew and those that shrank. *)
Grown(old, new) == {c \in SlabCommon(old, new) : new[c] - old[c] >= MinDelta}
Shrunk(old, new) == {c \in SlabCommon(old, new) : new[c] - old[c] =< -MinDelta}

(* What SlabChanges finds, split by direction. *)
LEMMA ChangesSplit ==
  ASSUME NEW old \in SlabReading, NEW new \in SlabReading
  PROVE  LET all == SlabChanges(old, new)
         IN  /\ {x \in all : x.delta > 0} = {CacheRow(old, new, c) : c \in Grown(old, new)}
             /\ {x \in all : x.delta < 0} = {CacheRow(old, new, c) : c \in Shrunk(old, new)}
<1> DEFINE all == SlabChanges(old, new)
           C == SlabCommon(old, new)
<1>1. \A e : e \in all <=> \E c \in C : e = CacheRow(old, new, c) /\ Abs(e.delta) >= MinDelta
  BY DEF SlabChanges, CacheRow, SlabCommon
<1>2. \A c \in C : CacheRow(old, new, c).delta = new[c] - old[c] /\ new[c] - old[c] \in Int
  BY SlabReadings DEF CacheRow, SlabCommon
<1>3. MinDelta \in Int /\ MinDelta > 0
  BY SlabAssumption
<1>4. \A d \in Int : /\ Abs(d) >= MinDelta /\ d > 0 <=> d >= MinDelta
                     /\ Abs(d) >= MinDelta /\ d < 0 <=> d =< -MinDelta
  BY <1>3 DEF Abs
<1>5. \A c : /\ c \in Grown(old, new) <=> c \in C /\ new[c] - old[c] >= MinDelta
             /\ c \in Shrunk(old, new) <=> c \in C /\ new[c] - old[c] =< -MinDelta
  BY DEF Grown, Shrunk
<1> HIDE DEF all, C
<1>6. ASSUME NEW c \in C
      PROVE  LET d == CacheRow(old, new, c).delta
             IN  /\ Abs(d) >= MinDelta /\ d > 0 <=> c \in Grown(old, new)
                 /\ Abs(d) >= MinDelta /\ d < 0 <=> c \in Shrunk(old, new)
  BY <1>2, <1>4, <1>5
<1>7. {x \in all : x.delta > 0} = {CacheRow(old, new, c) : c \in Grown(old, new)}
  <2>1. ASSUME NEW x \in all, x.delta > 0
        PROVE  \E c \in Grown(old, new) : x = CacheRow(old, new, c)
    BY <1>1, <1>6, <2>1
  <2>2. ASSUME NEW c \in Grown(old, new)
        PROVE  CacheRow(old, new, c) \in all /\ CacheRow(old, new, c).delta > 0
    BY <1>1, <1>5, <1>6, <2>2
  <2> QED BY <2>1, <2>2
<1>8. {x \in all : x.delta < 0} = {CacheRow(old, new, c) : c \in Shrunk(old, new)}
  <2>1. ASSUME NEW x \in all, x.delta < 0
        PROVE  \E c \in Shrunk(old, new) : x = CacheRow(old, new, c)
    BY <1>1, <1>6, <2>1
  <2>2. ASSUME NEW c \in Shrunk(old, new)
        PROVE  CacheRow(old, new, c) \in all /\ CacheRow(old, new, c).delta < 0
    BY <1>1, <1>5, <1>6, <2>2
  <2> QED BY <2>1, <2>2
<1> QED BY <1>7, <1>8 DEF all

(* The inductive invariant of slabinfo: the arrays are the last readings,  *)
(* and the lists compare the last two that succeeded.                      *)
SlabInv ==
  /\ slabCurrent \in SlabReading /\ slabOlder \in SlabReading
  /\ slabNewer = slabCurrent /\ slabPrevious \in {slabCurrent, slabOlder}
  /\ ~slabHasPrevious => slabCurrent = SlabNothing
  /\ TopRows(slabGrowers, slabOlder, slabNewer, Grown(slabOlder, slabNewer))
  /\ TopRows(slabShrinkers, slabOlder, slabNewer, Shrunk(slabOlder, slabNewer))

(* Nothing has been read. *)
LEMMA NothingRead ==
  /\ SlabNothing \in SlabReading /\ DOMAIN SlabNothing = {}
  /\ \A r : Grown(SlabNothing, r) = {} /\ Shrunk(SlabNothing, r) = {}
  /\ \A r : SlabChanges(SlabNothing, r) = {}
<1>1. DOMAIN SlabNothing = {} /\ SlabNothing \in [{} -> Sizes]
  BY DEF SlabNothing
<1>2. SlabNothing \in SlabReading
  BY <1>1 DEF SlabReading
<1>3. \A r : SlabCommon(SlabNothing, r) = {} /\ DOMAIN r \cap DOMAIN SlabNothing = {}
  BY <1>1 DEF SlabCommon
<1> QED BY <1>1, <1>2, <1>3 DEF Grown, Shrunk, SlabChanges

(* A collection keeps the invariant, whether the file was read or not. *)
LEMMA SlabCollectStep ==
  ASSUME SlabInv, NEW r \in SlabReading, SlabCollect(r)
  PROVE  SlabInv'
<1> DEFINE cur == Kept(r)
           all == SlabChanges(slabCurrent, cur)
           up == {x \in all : x.delta > 0}
           down == {x \in all : x.delta < 0}
           G == Grown(slabCurrent, cur)
           S == Shrunk(slabCurrent, cur)
<1>1. (IF slabHasPrevious THEN SlabChanges(slabCurrent, cur) ELSE {}) = all
  BY NothingRead DEF SlabInv
<1>2. /\ slabPrevious' = slabCurrent /\ slabCurrent' = cur /\ slabHasPrevious' = TRUE
      /\ slabOlder' = slabNewer /\ slabNewer' = cur
      /\ slabGrowers' \in SlabTop([e \in up |-> e.delta])
      /\ slabShrinkers' \in SlabTop([e \in down |-> -e.delta])
  BY <1>1 DEF SlabCollect
<1>3. cur \in SlabReading /\ slabCurrent \in SlabReading /\ slabNewer = slabCurrent
  BY KeptReading DEF SlabInv
<1>4. /\ up = {CacheRow(slabCurrent, cur, c) : c \in G}
      /\ down = {CacheRow(slabCurrent, cur, c) : c \in S}
  BY <1>3, ChangesSplit
<1>5. IsFiniteSet(G) /\ IsFiniteSet(S)
  <2>1. G \subseteq DOMAIN cur /\ S \subseteq DOMAIN cur
    BY DEF Grown, Shrunk, SlabCommon
  <2>2. IsFiniteSet(DOMAIN cur)
    BY <1>3, SlabReadings
  <2> QED BY <2>1, <2>2, FS_Subset
<1> HIDE DEF cur, all, up, down, G, S
<1>6. TopRows(slabGrowers', slabCurrent, cur, G)
  <2> DEFINE key == [e \in up |-> e.delta]
  <2>1. DOMAIN key = {CacheRow(slabCurrent, cur, c) : c \in G} /\ slabGrowers' \in SlabTop(key)
    BY <1>2, <1>4
  <2> HIDE DEF key
  <2> QED BY <1>5, <2>1, TopOfRows
<1>7. TopRows(slabShrinkers', slabCurrent, cur, S)
  <2> DEFINE key == [e \in down |-> -e.delta]
  <2>1. DOMAIN key = {CacheRow(slabCurrent, cur, c) : c \in S} /\ slabShrinkers' \in SlabTop(key)
    BY <1>2, <1>4
  <2> HIDE DEF key
  <2> QED BY <1>5, <2>1, TopOfRows
<1> QED BY <1>2, <1>3, <1>6, <1>7 DEF SlabInv, G, S

(* Every step of slabinfo keeps its invariant. *)
LEMMA SlabAlways == Spec => []SlabInv
<1>1. Init => SlabInv
  <2> SUFFICES ASSUME SlabInit PROVE SlabInv
    BY DEF Init
  <2>1. TopRows({}, SlabNothing, SlabNothing, {})
    <3>1. Min({TopN, 0}) = 0
      BY MinOfTwo, SlabAssumption
    <3>2. Cardinality({}) = 0
      BY FS_EmptySet
    <3> QED BY <3>1, <3>2 DEF TopRows
  <2> QED BY <2>1, NothingRead DEF SlabInit, SlabInv
<1>2. SlabInv /\ [Next]_vars => SlabInv'
  <2> SUFFICES ASSUME SlabInv, [Next]_vars PROVE SlabInv'
    OBVIOUS
  <2>1. CASE UNCHANGED slabVars
    BY <2>1 DEF slabVars, SlabInv
  <2>2. CASE SlabCollectFailed
    BY <2>2 DEF SlabCollectFailed, SlabInv
  <2> QED BY <2>1, <2>2, SlabCollectStep, PartSteps DEF SlabNext
<1> QED BY <1>1, <1>2, PTL DEF Spec

(* The lists and the consumers of slabinfo compare the last two readings   *)
(* that succeeded, for any caches, sizes and limits.                       *)
THEOREM ListsSpanReadingsHolds == Spec => []ListsSpanReadings
<1>1. SlabInv => ListsSpanReadings
  <2> SUFFICES ASSUME SlabInv PROVE ListsSpanReadings
    OBVIOUS
  <2> DEFINE C == SlabCommon(slabOlder, slabNewer)
  <2>1. /\ slabNewer \in SlabReading /\ slabOlder \in SlabReading
        /\ slabNewer = slabCurrent /\ slabPrevious \in {slabCurrent, slabOlder}
    BY DEF SlabInv
  <2>2. \A c \in C : slabNewer[c] \in Int /\ slabOlder[c] \in Int
    BY <2>1, SlabReadings DEF SlabCommon
  <2>3. \A c : /\ c \in Grown(slabOlder, slabNewer)
                    <=> c \in C /\ slabNewer[c] - slabOlder[c] >= MinDelta
               /\ c \in Shrunk(slabOlder, slabNewer)
                    <=> c \in C /\ slabNewer[c] - slabOlder[c] =< -MinDelta
    BY DEF Grown, Shrunk
  <2>4. MinDelta \in Int /\ MinDelta > 0
    BY SlabAssumption
  <2> HIDE DEF C
  <2>5. ASSUME NEW e \in slabGrowers \cup slabShrinkers
        PROVE  /\ e.cache \in C /\ e.delta = slabNewer[e.cache] - slabOlder[e.cache]
               /\ e.size = slabNewer[e.cache] /\ Abs(e.delta) >= MinDelta
    <3>1. PICK c : /\ c \in Grown(slabOlder, slabNewer) \cup Shrunk(slabOlder, slabNewer)
                   /\ e = CacheRow(slabOlder, slabNewer, c)
      BY DEF SlabInv, TopRows
    <3>2. e.cache = c /\ e.delta = slabNewer[c] - slabOlder[c] /\ e.size = slabNewer[c]
      BY <3>1 DEF CacheRow
    <3>3. c \in C
      BY <2>3, <3>1
    <3>4. Abs(slabNewer[c] - slabOlder[c]) >= MinDelta
      <4> DEFINE d == slabNewer[c] - slabOlder[c]
      <4>1. d \in Int /\ (d >= MinDelta \/ d =< -MinDelta)
        BY <2>2, <2>3, <3>1, <3>3
      <4> HIDE DEF d
      <4>2. Abs(d) >= MinDelta
        BY <2>4, <4>1 DEF Abs
      <4> QED BY <4>2 DEF d
    <3> QED BY <3>2, <3>3, <3>4
  <2>6. ASSUME NEW e \in SlabConsumers
        PROVE  /\ e.size = slabNewer[e.cache]
               /\ e.delta # 0 =>
                    e.cache \in C /\ e.delta = slabNewer[e.cache] - slabOlder[e.cache]
    <3> DEFINE was(c) == slabHasPrevious /\ c \in DOMAIN slabPrevious
    <3>1. PICK c \in DOMAIN slabCurrent :
            e = [cache |-> c, size |-> slabCurrent[c],
                 delta |-> IF was(c) THEN slabCurrent[c] - slabPrevious[c] ELSE 0]
      BY DEF SlabConsumers
    <3>2. /\ e.cache = c /\ e.size = slabCurrent[c]
          /\ e.delta = IF was(c) THEN slabCurrent[c] - slabPrevious[c] ELSE 0
      BY <3>1
    <3>3. slabCurrent[c] \in Nat
      BY <2>1, SlabReadings
    <3>4. ASSUME e.delta # 0 PROVE c \in C /\ e.delta = slabNewer[c] - slabOlder[c]
      <4>1. was(c) /\ e.delta = slabCurrent[c] - slabPrevious[c]
        BY <3>2, <3>4
      <4>2. slabPrevious = slabOlder
        <5>1. slabPrevious # slabCurrent
          BY <3>3, <3>4, <4>1
        <5> QED BY <2>1, <5>1
      <4> QED BY <2>1, <4>1, <4>2 DEF C, SlabCommon
    <3> QED BY <2>1, <3>2, <3>4
  <2>7. /\ Cardinality(slabGrowers) = Min({TopN, Cardinality(Grown(slabOlder, slabNewer))})
        /\ Cardinality(slabShrinkers) = Min({TopN, Cardinality(Shrunk(slabOlder, slabNewer))})
    BY DEF SlabInv, TopRows
  <2> QED BY <2>5, <2>6, <2>7, Zenon DEF ListsSpanReadings, C, SlabCommon, Grown, Shrunk
<1> QED BY <1>1, SlabAlways, PTL

-----------------------------------------------------------------------------
(* cpuload: its two tables have one bucket. *)
CpuNodes == 2 * CpuMaxProcs

(* The constants, as the lemmas about two tables want them. *)
LEMMA CpuConstants ==
  /\ CpuNodes \in Nat /\ 1 \in Nat \ {0} /\ CpuPids \in SUBSET Nat
  /\ TickRange \in Nat \ {0} /\ Ticks \in SUBSET Nat /\ Ticks \in SUBSET Int
  /\ CpuReading = Readings(CpuPids, Ticks)
  /\ CpuMaxProcs \in Nat /\ CpuTopN \in Nat /\ CpuFloor \in Nat /\ MaxUnread \in Nat
BY CpuLoadAssumption DEF CpuNodes, Ticks, CpuReading, Readings

(* An entry compares two readings of its process in adjacent scans, over a *)
(* span that is not empty.                                                 *)
SpansReadings(e, now, before) ==
  /\ e.pid \in DOMAIN now \cap DOMAIN before
  /\ e.delta = (now[e.pid] - before[e.pid]) % TickRange
  /\ e.span >= 1

(* The inductive invariant of cpuload. *)
CpuInv ==
  /\ TwoTables(CpuNodes, 1, CpuPids, Ticks, cpuPool, cpuPoolIdx, cpuCurrent, cpuPrevious,
               cpuSeen, cpuSeenBefore)
  /\ cpuSeen \in CpuReading /\ cpuSeenBefore \in CpuReading
  /\ cpuTodo \in SUBSET CpuPids /\ cpuTodo \cap DOMAIN cpuSeen = {}
  /\ cpuScan \in {"idle", "scan"} /\ cpuHasPrevious \in BOOLEAN
  /\ cpuUnread \in 0 .. MaxUnread
  /\ cpuSpan \in 0 .. MaxUnread + 1 /\ cpuSystem \in 0 .. MaxUnread + 1
  /\ cpuEntries \in SUBSET CpuEntry /\ IsFiniteSet(cpuEntries)
  /\ Cardinality(cpuEntries) =< CpuMaxProcs
  /\ cpuTop \in SUBSET CpuEntry /\ Cardinality(cpuTop) =< CpuTopN
  /\ \A e \in cpuEntries : SpansReadings(e, cpuSeen, cpuSeenBefore)

(* It holds at the start. *)
LEMMA CpuBegins == Init => CpuInv
<1> SUFFICES ASSUME CpuInit PROVE CpuInv
  BY DEF Init
<1>1. /\ cpuPool = [n \in 0 .. CpuNodes - 1 |-> [pid |-> 0, val |-> 0, next |-> -1]]
      /\ cpuPoolIdx = 0 /\ cpuCurrent = [b \in 0 .. 1 - 1 |-> -1] /\ cpuPrevious = cpuCurrent
      /\ cpuSeen = [p \in {} |-> 0] /\ cpuSeenBefore = cpuSeen
  BY DEF CpuInit, CpuTable!TableInit, CpuTable!Nodes, CpuTable!NIL, CpuTable!EmptyHeads,
         CpuNodes, NoReading
<1>2. cpuSeen \in CpuReading /\ DOMAIN cpuSeen = {}
  BY <1>1, ReadingGrows, CpuConstants
<1>3. TwoTables(CpuNodes, 1, CpuPids, Ticks, cpuPool, cpuPoolIdx, cpuCurrent, cpuPrevious,
                cpuSeen, cpuSeenBefore)
  BY <1>1, <1>2, TablesBegin, CpuConstants
<1>4. IsFiniteSet({}) /\ Cardinality({}) = 0
  BY FS_EmptySet
<1> QED BY <1>1, <1>2, <1>3, <1>4, CpuConstants DEF CpuInit, CpuInv

(* A collection begins. *)
LEMMA CpuBeginStep ==
  ASSUME CpuInv, NEW statOk \in BOOLEAN, NEW procOk \in BOOLEAN,
         CpuBeginCollect(statOk, procOk)
  PROVE  CpuInv'
<1>1. /\ cpuPool' = cpuPool /\ cpuPoolIdx' = 0 /\ cpuCurrent' = [b \in 0 .. 1 - 1 |-> -1]
      /\ cpuPrevious' = cpuCurrent /\ cpuSeenBefore' = cpuSeen
      /\ cpuSeen' = [p \in {} |-> 0]
  BY DEF CpuBeginCollect, CpuTable!Swap, CpuTable!EmptyHeads, CpuTable!NIL, NoReading
<1>2. /\ cpuTodo' \in SUBSET CpuPids /\ cpuEntries' = {} /\ cpuScan' \in {"idle", "scan"}
      /\ UNCHANGED <<cpuHasPrevious, cpuTop>>
  BY DEF CpuBeginCollect
<1>3. cpuSeen' \in CpuReading /\ DOMAIN cpuSeen' = {}
  BY <1>1, ReadingGrows, CpuConstants
<1>4. TwoTables(CpuNodes, 1, CpuPids, Ticks, cpuPool, 0, cpuCurrent', cpuCurrent,
                cpuSeen', cpuSeen)
  BY <1>1, <1>3, TablesSwap, CpuConstants DEF CpuInv
<1>5. /\ cpuUnread' \in 0 .. MaxUnread
      /\ cpuSpan' \in 0 .. MaxUnread + 1 /\ cpuSystem' \in 0 .. MaxUnread + 1
  <2>1. CASE statOk
    BY <2>1, CpuConstants DEF CpuBeginCollect, ReadSystem, CpuInv
  <2>2. CASE ~statOk
    BY <2>2, CpuConstants DEF CpuBeginCollect, ReadSystem, CpuInv
  <2> QED BY <2>1, <2>2
<1>6. IsFiniteSet({}) /\ Cardinality({}) = 0
  BY FS_EmptySet
<1> QED BY <1>1, <1>2, <1>3, <1>4, <1>5, <1>6, CpuConstants DEF CpuInv

(* A process is read: its node is stored, then it is compared with what    *)
(* the previous table yields.  A difference of 0 is never listed.          *)
LEMMA CpuReadStep ==
  ASSUME CpuInv, NEW t \in Ticks, CpuReadPid(t)
  PROVE  CpuInv'
<1> DEFINE p == Min(cpuTodo)
           n == Search(CpuNodes, cpuPool', cpuPrevious[p % 1], p)
           delta == (t - cpuPool'[n].val) % TickRange
           new == ReadToo(cpuSeen, p, t)
           more == EntriesOf(cpuPool', p, t)
<1>1. /\ cpuTodo # {} /\ cpuTodo' = cpuTodo \ {p}
      /\ cpuPoolIdx < CpuNodes /\ cpuPoolIdx' = cpuPoolIdx + 1 /\ cpuPrevious' = cpuPrevious
      /\ NodeStored(1, cpuPool, cpuPoolIdx, cpuCurrent, p, t, cpuPool', cpuCurrent')
      /\ Cardinality(cpuEntries) < CpuMaxProcs
      /\ cpuEntries' = cpuEntries \cup more
      /\ cpuSeen' = new
      /\ UNCHANGED <<cpuScan, cpuHasPrevious, cpuUnread, cpuSpan, cpuSystem, cpuTop,
                     cpuSeenBefore>>
  BY DEF CpuReadPid, MoreEntries, CpuTable!Insert, CpuTable!HasRoom, CpuTable!Hash, CpuNodes,
         NodeStored, ReadToo
<1>2. more = IF cpuHasPrevious /\ cpuSpan > 0 /\ n # -1 /\ delta > CpuFloor * cpuSpan
             THEN {[pid |-> p, delta |-> delta, span |-> cpuSpan]} ELSE {}
  BY DEF EntriesOf, Search, Links, CpuTable!Find, CpuTable!Ref, CpuTable!Nodes,
         CpuTable!NIL, CpuTable!Hash, CpuNodes
<1>3. p \in CpuPids /\ p \notin DOMAIN cpuSeen
  <2>1. cpuTodo \in SUBSET Nat
    BY CpuConstants DEF CpuInv
  <2>2. p \in cpuTodo
    BY <1>1, <2>1, MinIsLeast
  <2> QED BY <2>2 DEF CpuInv
<1> HIDE DEF p, n, delta, more
<1>4. TwoTables(CpuNodes, 1, CpuPids, Ticks, cpuPool', cpuPoolIdx + 1, cpuCurrent', cpuPrevious,
                new, cpuSeenBefore)
  <2>1. cpuPoolIdx < CpuNodes
        /\ NodeStored(1, cpuPool, cpuPoolIdx, cpuCurrent, p, t, cpuPool', cpuCurrent')
        /\ TwoTables(CpuNodes, 1, CpuPids, Ticks, cpuPool, cpuPoolIdx, cpuCurrent, cpuPrevious,
                     cpuSeen, cpuSeenBefore)
    BY <1>1 DEF CpuInv
  <2> QED BY <1>3, <2>1, TablesStore, CpuConstants
<1>5. FindEither(CpuNodes, 1, CpuPids, cpuPool', cpuPrevious, new, cpuSeenBefore)
  BY <1>4, PreviousFinds, CpuConstants
<1>6. new \in CpuReading
  BY <1>3, ReadingGrows, CpuConstants DEF CpuInv
<1>7. /\ DOMAIN new = DOMAIN cpuSeen \cup {p} /\ new[p] = t
      /\ \A q \in DOMAIN cpuSeen : new[q] = cpuSeen[q]
  BY <1>3 DEF ReadToo
<1> HIDE DEF new
<1>8. ASSUME NEW e \in cpuEntries PROVE SpansReadings(e, new, cpuSeenBefore)
  <2>1. SpansReadings(e, cpuSeen, cpuSeenBefore)
    BY DEF CpuInv
  <2>2. e.pid \in DOMAIN cpuSeen /\ new[e.pid] = cpuSeen[e.pid]
    BY <1>7, <2>1 DEF SpansReadings
  <2> QED BY <1>7, <2>1, <2>2 DEF SpansReadings
<1>9. ASSUME NEW e \in more PROVE SpansReadings(e, new, cpuSeenBefore) /\ e \in CpuEntry
  <2>1. /\ cpuSpan > 0 /\ n # -1 /\ delta > CpuFloor * cpuSpan
        /\ e = [pid |-> p, delta |-> delta, span |-> cpuSpan]
    BY <1>2
  <2>2. cpuSpan \in Nat /\ cpuSpan \in 1 .. MaxUnread + 1 /\ t \in Int /\ CpuFloor \in Nat
    BY <2>1, CpuConstants DEF CpuInv
  <2>3. CpuFloor * cpuSpan >= 0
    BY <2>2, CpuConstants
  <2>4. cpuPool'[n].val = t \/ (p \in DOMAIN cpuSeenBefore /\ cpuPool'[n].val = cpuSeenBefore[p])
    BY <1>3, <1>5, <1>7, <2>1 DEF FindEither, n
  <2>5. cpuPool'[n].val # t
    <3> SUFFICES ASSUME cpuPool'[n].val = t PROVE FALSE
      OBVIOUS
    <3>1. (t - t) % TickRange = 0
      BY <2>2, CpuConstants
    <3>2. delta = 0
      BY <3>1 DEF delta
    <3> QED BY <2>1, <2>2, <2>3, <3>2
  <2>6. p \in DOMAIN cpuSeenBefore /\ cpuPool'[n].val = cpuSeenBefore[p]
    BY <2>4, <2>5
  <2>7. delta = (new[p] - cpuSeenBefore[p]) % TickRange
    BY <1>7, <2>6 DEF delta
  <2>8. delta \in Ticks
    <3>1. cpuSeenBefore[p] \in Int
      <4>1. \A q \in DOMAIN cpuSeenBefore : cpuSeenBefore[q] \in Ticks
        BY ReadingParts, CpuConstants DEF CpuInv
      <4> QED BY <2>6, <4>1, CpuConstants
    <3> QED BY <1>7, <2>2, <2>7, <3>1, CpuConstants DEF Ticks
  <2>9. e.pid = p /\ e.delta = delta /\ e.span = cpuSpan /\ cpuSpan >= 1
    BY <2>1, <2>2
  <2>10. e \in CpuEntry
    BY <1>3, <2>1, <2>2, <2>8 DEF CpuEntry
  <2> QED BY <1>7, <2>6, <2>7, <2>9, <2>10 DEF SpansReadings
<1>10. /\ \A e \in cpuEntries' : SpansReadings(e, new, cpuSeenBefore)
       /\ cpuEntries' \in SUBSET CpuEntry
  BY <1>1, <1>8, <1>9 DEF CpuInv
<1>11. IsFiniteSet(cpuEntries') /\ Cardinality(cpuEntries') =< CpuMaxProcs
  <2>1. IsFiniteSet(cpuEntries) /\ Cardinality(cpuEntries) =< CpuMaxProcs
    BY DEF CpuInv
  <2>2. CASE more = {}
    BY <1>1, <2>1, <2>2
  <2>3. CASE more # {}
    <3>1. PICK e : more = {e}
      BY <1>2, <2>3
    <3>2. cpuEntries' = IF Cardinality(cpuEntries) < CpuMaxProcs THEN cpuEntries \cup {e}
                        ELSE cpuEntries
      BY <1>1, <3>1
    <3> QED BY <2>1, <3>2, AddedWithin, CpuConstants
  <2> QED BY <2>2, <2>3
<1>12. cpuTodo' \in SUBSET CpuPids /\ cpuTodo' \cap DOMAIN new = {}
  BY <1>1, <1>7 DEF CpuInv
<1> QED BY <1>1, <1>4, <1>6, <1>10, <1>11, <1>12 DEF CpuInv

(* The entries are sorted and the first of them taken. *)
LEMMA CpuEndStep ==
  ASSUME CpuInv, CpuEndCollect
  PROVE  CpuInv'
<1>1. /\ cpuScan' = "idle" /\ cpuHasPrevious' = TRUE /\ cpuTodo' = {} /\ cpuEntries' = {}
      /\ UNCHANGED <<cpuPool, cpuPoolIdx, cpuCurrent, cpuPrevious, cpuUnread, cpuSpan,
                     cpuSystem, cpuSeen, cpuSeenBefore>>
  BY DEF CpuEndCollect, cpuTableVars
<1>2. cpuTop' \in SUBSET CpuEntry /\ Cardinality(cpuTop') =< CpuTopN
  <2>1. /\ cpuTop' \in SUBSET cpuEntries
        /\ Cardinality(cpuTop') = Min({CpuTopN, Cardinality(cpuEntries)})
    BY DEF CpuEndCollect
  <2>2. IsFiniteSet(cpuEntries) /\ cpuEntries \in SUBSET CpuEntry
    BY DEF CpuInv
  <2>3. Cardinality(cpuTop') =< CpuTopN
    BY <2>1, <2>2, PartWithin, CpuConstants
  <2> QED BY <2>1, <2>2, <2>3
<1>3. IsFiniteSet({}) /\ Cardinality({}) = 0
  BY FS_EmptySet
<1> QED BY <1>1, <1>2, <1>3, CpuConstants DEF CpuInv

(* Every step of cpuload keeps the invariant. *)
LEMMA CpuStep ==
  ASSUME CpuInv, [Next]_vars
  PROVE  CpuInv'
<1>1. ASSUME UNCHANGED <<cpuPool, cpuPoolIdx, cpuCurrent, cpuPrevious, cpuScan,
                         cpuHasPrevious, cpuUnread, cpuSpan, cpuSystem, cpuEntries, cpuTop,
                         cpuSeen, cpuSeenBefore>>,
             cpuTodo' \in SUBSET cpuTodo
      PROVE  CpuInv'
  BY <1>1 DEF CpuInv
<1>2. CASE UNCHANGED cpuVars
  BY <1>1, <1>2 DEF cpuVars
<1>3. CASE CpuSkipPid
  BY <1>1, <1>3 DEF CpuSkipPid, cpuTableVars
<1>4. CpuNext \/ UNCHANGED cpuVars
  BY PartSteps
<1> QED BY <1>2, <1>3, <1>4, CpuBeginStep, CpuReadStep, CpuEndStep DEF CpuNext

(* Whenever cpuload replaces its list of consumers, every share in it      *)
(* compares two readings of the process in adjacent collections over the   *)
(* span of the totals: for any processes, counter width and pool size.     *)
THEOREM CpuShareSpansReadingsHolds == Spec => CpuShareSpansReadings
<1> DEFINE A == \A e \in cpuTop' :
                  cpuScan = "scan" /\ cpuScan' = "idle" =>
                    /\ e.pid \in DOMAIN cpuSeen \cap DOMAIN cpuSeenBefore
                    /\ e.delta = (cpuSeen[e.pid] - cpuSeenBefore[e.pid]) % TickRange
                    /\ e.span >= 1
<1>1. CpuInv /\ [Next]_vars => CpuInv'
  BY CpuStep
<1>2. CpuInv /\ [Next]_vars => [A]_cpuVars
  <2> SUFFICES ASSUME CpuInv, [Next]_vars, cpuScan = "scan", cpuScan' = "idle",
                      NEW e \in cpuTop'
               PROVE  SpansReadings(e, cpuSeen, cpuSeenBefore)
    BY DEF SpansReadings
  <2>1. CpuEndCollect
    <3>1. CpuNext
      BY PartSteps DEF cpuVars
    <3> QED BY <3>1 DEF CpuNext, CpuBeginCollect, CpuSkipPid, CpuReadPid
  <2>2. e \in cpuEntries
    BY <2>1 DEF CpuEndCollect
  <2> QED BY <2>2 DEF CpuInv
<1> QED BY <1>1, <1>2, CpuBegins, PTL DEF Spec, CpuShareSpansReadings

-----------------------------------------------------------------------------
(* memleak: the tables of its procmem have one bucket. *)
LeakNodes == 2 * LeakMaxProcs

(* The constants, as the lemmas about the tables and the heaps want them. *)
LEMMA LeakConstants ==
  /\ LeakNodes \in Nat /\ 1 \in Nat \ {0} /\ LeakPids \in SUBSET Nat
  /\ LeakSizes \in SUBSET Nat /\ LeakSizes \cup {0} \in SUBSET Nat
  /\ LeakTargets \in Nat /\ LeakBaselines \in Nat
  /\ LeakMaxProcs \in Nat /\ LeakTopN \in Nat /\ Shown \in Nat
BY MemLeakAssumption DEF LeakNodes

(* find_in_hash of this procmem is a search of the one chain. *)
LEMMA LeakFindIsSearch ==
  ASSUME NEW nodes, NEW heads, NEW p
  PROVE  Mem!Find(nodes, heads, p) = Search(LeakNodes, nodes, heads[p % 1], p)
BY DEF Mem!Find, Search, Links, Mem!Ref, Mem!Nodes, Mem!NIL, Mem!Hash, LeakNodes

(* Counting means the same there. *)
LEMMA LeakCardinality ==
  ASSUME NEW S
  PROVE  Mem!Cardinality(S) = Cardinality(S)
BY DEF Mem!Cardinality, Cardinality

LeakListed == IF mlScan = "scan" THEN mlChanges ELSE mlGrowers \cup mlShrinkers \cup mlTopRss

(* Rows that a list of procmem may hold. *)
LeakRows(S) ==
  S \subseteq ChangeRow(LeakPids, LeakSizes) /\ IsFiniteSet(S) /\ Cardinality(S) =< LeakTopN

(* The invariant of the procmem that memleak contains. *)
LeakMemInv ==
  /\ TwoTables(LeakNodes, 1, LeakPids, LeakSizes, mlPool, mlPoolIdx, mlCurrent, mlPrevious,
               mlSeen, mlSeenBefore)
  /\ mlScan \in {"idle", "scan"} /\ mlTodo \subseteq LeakPids /\ mlHasPrevious \in BOOLEAN
  /\ mlSeen \in Readings(LeakPids, LeakSizes) /\ mlSeenBefore \in Readings(LeakPids, LeakSizes)
  /\ DOMAIN mlSeen \cap mlTodo = {}
  /\ ChangeRows(LeakPids, LeakSizes, LeakMaxProcs, mlChanges, mlSeen, mlSeenBefore)
  /\ LeakRows(mlGrowers) /\ LeakRows(mlShrinkers) /\ LeakRows(mlTopRss)
  /\ TrueRows(LeakListed, mlSeen, mlSeenBefore)

(* Its collection begins. *)
LEMMA LeakBeginStep ==
  ASSUME LeakMemInv, Mem!BeginCollect
  PROVE  LeakMemInv'
<1>1. /\ mlPool' = mlPool /\ mlPoolIdx' = 0 /\ mlCurrent' = [b \in 0 .. 1 - 1 |-> -1]
      /\ mlPrevious' = mlCurrent /\ mlSeenBefore' = mlSeen /\ mlSeen' = [p \in {} |-> 0]
      /\ mlScan' = "scan" /\ mlTodo' \in {LeakPids, {}} /\ mlChanges' = {}
      /\ UNCHANGED <<mlHasPrevious, mlGrowers, mlShrinkers, mlTopRss>>
  BY DEF Mem!BeginCollect, Mem!Swap, Mem!EmptyHeads, Mem!NIL, Mem!Nothing
<1>2. mlSeen' \in Readings(LeakPids, LeakSizes) /\ DOMAIN mlSeen' = {}
  BY <1>1, ReadingGrows
<1>3. TwoTables(LeakNodes, 1, LeakPids, LeakSizes, mlPool, 0, mlCurrent', mlCurrent,
                mlSeen', mlSeen)
  BY <1>1, <1>2, TablesSwap, LeakConstants DEF LeakMemInv
<1>4. /\ ChangeRows(LeakPids, LeakSizes, LeakMaxProcs, {}, mlSeen', mlSeenBefore')
      /\ TrueRows({}, mlSeen', mlSeenBefore')
  BY NoRows, LeakConstants
<1>5. LeakListed' = {}
  BY <1>1 DEF LeakListed
<1> QED BY <1>1, <1>2, <1>3, <1>4, <1>5 DEF LeakMemInv

(* It reads a process. *)
LEMMA LeakReadStep ==
  ASSUME LeakMemInv, NEW v \in LeakSizes, Mem!ReadPid(v)
  PROVE  LeakMemInv'
<1> DEFINE p == Min(mlTodo)
           n == Search(LeakNodes, mlPool', mlPrevious[p % 1], p)
           d == IF mlHasPrevious /\ n # -1 THEN v - mlPool'[n].val ELSE 0
           row == [pid |-> p, rss |-> v, delta |-> d]
           new == ReadToo(mlSeen, p, v)
<1>1. Mem!Min(mlTodo) = p
  BY DEF Mem!Min, Min
<1>2. /\ mlScan = "scan" /\ mlTodo # {} /\ mlPoolIdx < LeakNodes /\ mlTodo' = mlTodo \ {p}
      /\ NodeStored(1, mlPool, mlPoolIdx, mlCurrent, p, v, mlPool', mlCurrent')
      /\ mlPoolIdx' = mlPoolIdx + 1 /\ mlPrevious' = mlPrevious
      /\ mlChanges' = IF Cardinality(mlChanges) < LeakMaxProcs THEN mlChanges \cup {row}
                      ELSE mlChanges
      /\ mlSeen' = new
      /\ UNCHANGED <<mlScan, mlHasPrevious, mlGrowers, mlShrinkers, mlTopRss, mlSeenBefore>>
  <2> HIDE DEF p
  <2> QED BY <1>1, LeakFindIsSearch, LeakCardinality
         DEF Mem!ReadPid, Mem!resultVars, Mem!HasRoom, Mem!Insert, Mem!Hash, NodeStored,
             ReadToo, Mem!DeltaOf, Mem!NIL, LeakNodes
<1>3. p \in LeakPids /\ p \notin DOMAIN mlSeen
  <2>1. mlTodo \in SUBSET Nat
    BY LeakConstants DEF LeakMemInv
  <2>2. p \in mlTodo
    BY <1>2, <2>1, MinIsLeast
  <2> QED BY <2>2 DEF LeakMemInv
<1> HIDE DEF p, n, d, row
<1>4. TwoTables(LeakNodes, 1, LeakPids, LeakSizes, mlPool', mlPoolIdx + 1, mlCurrent',
                mlPrevious, new, mlSeenBefore)
  <2>1. /\ mlPoolIdx < LeakNodes
        /\ NodeStored(1, mlPool, mlPoolIdx, mlCurrent, p, v, mlPool', mlCurrent')
        /\ TwoTables(LeakNodes, 1, LeakPids, LeakSizes, mlPool, mlPoolIdx, mlCurrent,
                     mlPrevious, mlSeen, mlSeenBefore)
    BY <1>2 DEF LeakMemInv
  <2> QED BY <1>3, <2>1, TablesStore, LeakConstants
<1>5. FindEither(LeakNodes, 1, LeakPids, mlPool', mlPrevious, new, mlSeenBefore)
  BY <1>4, PreviousFinds, LeakConstants
<1>6. new \in Readings(LeakPids, LeakSizes)
  BY <1>3, ReadingGrows DEF LeakMemInv
<1>7. DOMAIN new = DOMAIN mlSeen \cup {p} /\ new[p] = v
  BY DEF ReadToo
<1>8. ChangeRows(LeakPids, LeakSizes, LeakMaxProcs, mlChanges', new, mlSeenBefore)
  <2>1. \/ d = 0 \/ d = new[p] - new[p]
        \/ p \in DOMAIN mlSeenBefore /\ d = new[p] - mlSeenBefore[p]
    <3> HIDE DEF new
    <3> QED BY <1>3, <1>5, <1>7 DEF FindEither, d, n
  <2>2. /\ mlSeen \in Readings(LeakPids, LeakSizes)
        /\ mlSeenBefore \in Readings(LeakPids, LeakSizes)
        /\ ChangeRows(LeakPids, LeakSizes, LeakMaxProcs, mlChanges, mlSeen, mlSeenBefore)
    BY DEF LeakMemInv
  <2>3. row = [pid |-> p, rss |-> v, delta |-> d]
    BY DEF row
  <2>4. mlChanges' = IF Cardinality(mlChanges) < LeakMaxProcs THEN mlChanges \cup {row}
                     ELSE mlChanges
    BY <1>2
  <2> QED BY <1>3, <2>1, <2>2, <2>3, <2>4, RowRead, LeakConstants
<1> HIDE DEF new
<1>9. LeakListed' = mlChanges' /\ TrueRows(mlChanges', new, mlSeenBefore)
  BY <1>2, <1>8 DEF LeakListed, ChangeRows
<1>10. DOMAIN new \cap mlTodo' = {} /\ mlTodo' \subseteq LeakPids
  BY <1>2, <1>7 DEF LeakMemInv
<1> QED BY <1>2, <1>4, <1>6, <1>8, <1>9, <1>10 DEF LeakMemInv

(* It takes its lists. *)
LEMMA LeakEndStep ==
  ASSUME LeakMemInv, Mem!EndCollect
  PROVE  LeakMemInv'
<1>1. /\ mlGrowers' \in Mem!Top([c \in {x \in mlChanges : x.delta > 0} |-> c.delta])
      /\ mlShrinkers' \in Mem!Top([c \in {x \in mlChanges : x.delta < 0} |-> -c.delta])
      /\ mlTopRss' \in Mem!Top([c \in mlChanges |-> c.rss])
      /\ mlHasPrevious' = TRUE /\ mlScan' = "idle" /\ mlChanges' = {} /\ mlScan = "scan"
      /\ UNCHANGED <<mlPool, mlPoolIdx, mlCurrent, mlPrevious, mlTodo, mlSeen, mlSeenBefore>>
  BY DEF Mem!EndCollect, Mem!tableVars
<1>2. ASSUME NEW key, DOMAIN key \in SUBSET mlChanges, NEW T \in Mem!Top(key)
      PROVE  T \subseteq mlChanges /\ LeakRows(T)
  <2>1. /\ T \in SUBSET DOMAIN key
        /\ Cardinality(T) = Min({LeakTopN, Cardinality(DOMAIN key)})
    BY <1>2, LeakCardinality DEF Mem!Top, Mem!Min, Min
  <2>2. ChangeRows(LeakPids, LeakSizes, LeakMaxProcs, mlChanges, mlSeen, mlSeenBefore)
    BY DEF LeakMemInv
  <2> QED BY <1>2, <2>1, <2>2, RowsTaken, LeakConstants DEF LeakRows
<1>3. /\ DOMAIN [c \in {x \in mlChanges : x.delta > 0} |-> c.delta] \in SUBSET mlChanges
      /\ DOMAIN [c \in {x \in mlChanges : x.delta < 0} |-> -c.delta] \in SUBSET mlChanges
      /\ DOMAIN [c \in mlChanges |-> c.rss] \in SUBSET mlChanges
  OBVIOUS
<1>4. mlGrowers' \subseteq mlChanges /\ LeakRows(mlGrowers')
  BY <1>1, <1>2, <1>3
<1>5. mlShrinkers' \subseteq mlChanges /\ LeakRows(mlShrinkers')
  BY <1>1, <1>2, <1>3
<1>6. mlTopRss' \subseteq mlChanges /\ LeakRows(mlTopRss')
  BY <1>1, <1>2, <1>3
<1>7. TrueRows(LeakListed', mlSeen', mlSeenBefore')
  <2>1. LeakListed' \subseteq LeakListed
    BY <1>1, <1>4, <1>5, <1>6 DEF LeakListed
  <2> QED BY <1>1, <2>1 DEF LeakMemInv, TrueRows
<1>8. ChangeRows(LeakPids, LeakSizes, LeakMaxProcs, {}, mlSeen, mlSeenBefore)
  BY NoRows, LeakConstants
<1> QED BY <1>1, <1>4, <1>5, <1>6, <1>7, <1>8 DEF LeakMemInv, LeakRows

(* Every step of this procmem keeps its invariant. *)
LEMMA LeakMemStep ==
  ASSUME LeakMemInv, Mem!Next \/ UNCHANGED leakMemVars
  PROVE  LeakMemInv'
<1>1. ASSUME UNCHANGED <<mlPool, mlPoolIdx, mlCurrent, mlPrevious, mlScan, mlChanges,
                         mlHasPrevious, mlGrowers, mlShrinkers, mlTopRss, mlSeen,
                         mlSeenBefore>>,
             mlTodo' \subseteq mlTodo
      PROVE  LeakMemInv'
  BY <1>1 DEF LeakMemInv, LeakListed, LeakRows
<1>2. CASE Mem!SkipPid
  BY <1>1, <1>2 DEF Mem!SkipPid, Mem!tableVars, Mem!resultVars
<1>3. CASE Mem!PoolExhausted
  BY <1>1, <1>3 DEF Mem!PoolExhausted, Mem!tableVars, Mem!resultVars
<1>4. CASE UNCHANGED leakMemVars
  BY <1>1, <1>4 DEF leakMemVars
<1> QED BY <1>2, <1>3, <1>4, LeakBeginStep, LeakReadStep, LeakEndStep DEF Mem!Next

(* The heapmon that memleak contains computes what heapmon does. *)
LEMMA LeakHeapSame ==
  /\ \A s, p : Heap!Find(s, p) = Find(s, p)
  /\ \A pool, max, s : Heap!FindOrCreate(pool, max, s) = FindOrCreate(pool, max, s)
  /\ \A pool, max, s : Heap!InitialOf(pool, max, s) = InitialOf(pool, max, s)
  /\ \A s : Heap!Sorted(s) = Sorted(s)
<1>1. \A s, p : Heap!Find(s, p) = Find(s, p)
  BY DEF Heap!Find, Find, SelectInSeq, Heap!SelectInSeq, Min, Heap!Min
<1>2. \A pool, max, s : Heap!FindOrCreate(pool, max, s) = FindOrCreate(pool, max, s)
  BY <1>1 DEF Heap!FindOrCreate, FindOrCreate
<1>3. \A pool, max, s : Heap!InitialOf(pool, max, s) = InitialOf(pool, max, s)
  BY <1>1, <1>2 DEF Heap!InitialOf, InitialOf
<1>4. \A s : Heap!Sorted(s) = Sorted(s)
  BY DEF Heap!Sorted, Sorted, Heap!Pass, Pass, Heap!Exchanged, Exchanged, Heap!Gain, Gain,
         FoldLeftDomain, Heap!FoldLeftDomain, FoldLeft, Heap!FoldLeft,
         MapThenFoldSet, Heap!MapThenFoldSet, Max, Heap!Max
<1> QED BY <1>1, <1>2, <1>3, <1>4

(* What its procmem says of a process that was read in this collection. *)
LEMMA LeakPidInfo ==
  ASSUME LeakMemInv, NEW p \in DOMAIN mlSeen
  PROVE  /\ Mem!Known(p) /\ Mem!PidInfo(p).rss = mlSeen[p]
         /\ p \in LeakPids /\ mlSeen[p] \in LeakSizes
<1>1. p \in LeakPids /\ mlSeen[p] \in LeakSizes
  BY ReadingParts DEF LeakMemInv
<1> DEFINE n == Search(LeakNodes, mlPool, mlCurrent[p % 1], p)
<1>2. n # -1 /\ mlPool[n].val = mlSeen[p]
  BY <1>1 DEF LeakMemInv, TwoTables, FindReadings
<1>3. Mem!Find(mlPool, mlCurrent, p) = n
  BY LeakFindIsSearch
<1> HIDE DEF n
<1> QED BY <1>1, <1>2, <1>3 DEF Mem!Known, Mem!PidInfo, Mem!NIL

(* The first processes of one of its lists are different processes that    *)
(* were read in this collection.                                           *)
LEMMA FirstDiffer ==
  ASSUME LeakMemInv, mlScan = "idle",
         NEW key, LeakRows(DOMAIN key), DOMAIN key \subseteq LeakListed,
         NEW t \in FirstPids(key)
  PROVE  OneEach(DOMAIN mlSeen, t) /\ Len(t) =< LeakTargets
<1> DEFINE n == Cardinality(DOMAIN key)
           half == LeakTargets \div 2
<1>1. n \in Nat /\ half \in Nat /\ half =< LeakTargets
  <2>1. n \in Nat
    BY FS_CardinalityType DEF LeakRows
  <2>2. half \in Nat /\ half =< LeakTargets
    BY LeakConstants
  <2> QED BY <2>1, <2>2
<1>2. PICK s \in [1 .. n -> DOMAIN key] :
        IsInjective(s) /\ t = [i \in 1 .. Min({Len(s), half}) |-> s[i].pid]
  BY DEF FirstPids
<1> HIDE DEF n, half
<1>3. Len(s) = n
  BY <1>1, <1>2
<1>4. PICK m : m = Min({n, half})
  OBVIOUS
<1>5. m \in Nat /\ m =< n /\ m =< half
  BY <1>1, <1>4, MinOfTwo
<1>6. t = [i \in 1 .. m |-> s[i].pid]
  BY <1>2, <1>3, <1>4
<1>7. ASSUME NEW i \in 1 .. m
      PROVE  i \in 1 .. n /\ s[i] \in LeakListed /\ t[i] = s[i].pid /\ s[i].pid \in DOMAIN mlSeen
  <2>1. i \in 1 .. n /\ s[i] \in LeakListed /\ t[i] = s[i].pid
    <3>1. i \in 1 .. n
      BY <1>1, <1>5
    <3>2. s[i] \in DOMAIN key
      BY <3>1
    <3>3. t[i] = s[i].pid
      BY <1>6
    <3> QED BY <3>1, <3>2, <3>3
  <2> QED BY <2>1 DEF LeakMemInv, TrueRows, TrueRow
<1>8. t \in Seq(DOMAIN mlSeen) /\ Len(t) = m
  <2>1. t \in [1 .. m -> DOMAIN mlSeen]
    BY <1>6, <1>7
  <2> QED BY <1>5, <2>1
<1>9. ASSUME NEW i \in 1 .. m, NEW l \in 1 .. m, t[i] = t[l] PROVE i = l
  <2>1. s[i] = s[l]
    BY <1>7, <1>9 DEF LeakMemInv, TrueRows
  <2>2. i \in DOMAIN s /\ l \in DOMAIN s
    BY <1>2, <1>7
  <2> QED BY <1>2, <2>1, <2>2 DEF IsInjective
<1>10. m =< LeakTargets
  BY <1>1, <1>5, LeakConstants
<1> QED BY <1>8, <1>9, <1>10 DEF OneEach

(* A row shows what procmem read of the process in this collection. *)
RowNow(e, seen) == e.pid \in DOMAIN seen /\ e.rss = seen[e.pid]

(* The inductive invariant of memleak: once heapmon's collection has begun *)
(* its results are about the collection procmem has just ended.            *)
LeakInv ==
  /\ LeakMemInv
  /\ HeapKept(LeakPids, LeakHeaps, LeakSizes \cup {0}, LeakTargets, LeakBaselines,
              mlTargets, mlHeapCurrent, mlHeapPrevious, mlHeapInitial, mlResults)
  /\ mlStage \in {0, 1, 2} /\ mlHeapPhase \in {"idle", "scan"}
  /\ mlStage = 1 \/ mlScan = "idle"
  /\ mlStage = 2 \/ mlHeapPhase = "idle"
  /\ mlHeapPhase = "idle" => mlTargets = << >>
  /\ \A l \in 1 .. Len(mlTargets) : mlTargets[l] \in DOMAIN mlSeen
  /\ mlStage = 0 \/ mlHeapPhase = "scan" => \A e \in Entries(mlResults) : RowNow(e, mlSeen)

(* The positions of CollectOrder. *)
LEMMA Stages ==
  /\ At("procmem") => mlStage = 1 \/ mlStage \notin {0, 1, 2}
  /\ At("heapmon") => mlStage = 2 \/ mlStage \notin {0, 1, 2}
  /\ Advance => /\ mlStage = 0 => mlStage' = 1
                /\ mlStage = 1 => mlStage' = 2
                /\ mlStage = 2 => mlStage' = 0
<1>1. CollectOrder[1] = "procmem" /\ CollectOrder[2] = "heapmon" /\ Len(CollectOrder) = 2
  BY DEF CollectOrder
<1> QED BY <1>1 DEF At, Advance

(* procmem works: heapmon is idle and has no targets. *)
LEMMA LeakProcMemStep ==
  ASSUME LeakInv, LeakProcMem
  PROVE  LeakInv'
<1>1. mlStage = 1 /\ mlStage' \in {1, 2} /\ (mlStage' = 1 \/ mlScan' = "idle")
  BY Stages DEF LeakInv, LeakProcMem
<1>2. /\ Mem!Next
      /\ UNCHANGED <<mlHeapPhase, mlTargets, mlHeapCurrent, mlHeapPrevious, mlHeapInitial,
                     mlResults>>
  BY DEF LeakProcMem, leakHeapVars
<1>3. LeakMemInv'
  BY <1>2, LeakMemStep DEF LeakInv
<1>4. mlHeapPhase' = "idle" /\ mlTargets' = << >>
  BY <1>1, <1>2 DEF LeakInv
<1>5. \A l \in 1 .. Len(mlTargets') : mlTargets'[l] \in DOMAIN mlSeen'
  BY <1>4
<1> QED BY <1>1, <1>2, <1>3, <1>4, <1>5 DEF LeakInv

(* heapmon takes its targets from the lists procmem has just made. *)
LEMMA LeakTargetsStep ==
  ASSUME LeakInv, mlScan = "idle",
         NEW growers \in FirstPids([c \in mlGrowers |-> c.delta]),
         NEW top \in FirstPids([c \in mlTopRss |-> c.rss]),
         NEW targets, targets = Heap!TargetsOf(growers, top)
  PROVE  /\ OneEach(DOMAIN mlSeen, targets) /\ OneEach(LeakPids, targets)
         /\ Len(targets) =< LeakTargets
<1>1. LeakMemInv /\ mlGrowers \subseteq LeakListed /\ mlTopRss \subseteq LeakListed
  BY DEF LeakInv, LeakListed
<1>2. LeakRows(mlGrowers) /\ LeakRows(mlTopRss)
  BY <1>1 DEF LeakMemInv
<1>3. OneEach(DOMAIN mlSeen, growers) /\ Len(growers) =< LeakTargets
  <2> DEFINE key == [c \in mlGrowers |-> c.delta]
  <2>1. DOMAIN key = mlGrowers /\ growers \in FirstPids(key)
    OBVIOUS
  <2> HIDE DEF key
  <2> QED BY <1>1, <1>2, <2>1, FirstDiffer
<1>4. OneEach(DOMAIN mlSeen, top)
  <2> DEFINE key == [c \in mlTopRss |-> c.rss]
  <2>1. DOMAIN key = mlTopRss /\ top \in FirstPids(key)
    OBVIOUS
  <2> HIDE DEF key
  <2> QED BY <1>1, <1>2, <2>1, FirstDiffer
<1>5. top \in Seq(DOMAIN mlSeen)
  BY <1>4 DEF OneEach
<1>6. \E g : InSteps(g, "target", LeakTargets, growers, top, Len(top)) /\ targets = g[Len(top)]
  BY <1>5, LeakTargetInSteps
<1>7. OneEach(DOMAIN mlSeen, targets) /\ Len(targets) =< LeakTargets
  BY <1>3, <1>5, <1>6, TargetsDiffer, LeakConstants
<1>8. DOMAIN mlSeen \in SUBSET LeakPids
  BY <1>1, ReadingParts DEF LeakMemInv
<1>9. OneEach(LeakPids, targets)
  BY <1>7, <1>8 DEF OneEach
<1> QED BY <1>7, <1>9

(* heapmon works: procmem is idle, and its table is that of the collection *)
(* its lists are from.                                                     *)
LEMMA LeakHeapMonStep ==
  ASSUME LeakInv, LeakHeapMon
  PROVE  LeakInv'
<1> DEFINE T == LeakSizes \cup {0}
           KeptHere(targets, cur, prev, init, rows) ==
             HeapKept(LeakPids, LeakHeaps, T, LeakTargets, LeakBaselines,
                      targets, cur, prev, init, rows)
<1>1. /\ mlStage = 2 /\ mlScan = "idle" /\ UNCHANGED leakMemVars
      /\ IF mlHeapPhase' = "idle" THEN mlStage' = 0 ELSE mlStage' = 2
  BY Stages DEF LeakInv, LeakHeapMon
<1>2. LeakMemInv' /\ LeakMemInv /\ mlSeen' = mlSeen /\ mlScan' = "idle"
  BY <1>1, LeakMemStep DEF LeakInv, leakMemVars
<1>3. KeptHere(mlTargets, mlHeapCurrent, mlHeapPrevious, mlHeapInitial, mlResults)
  BY DEF LeakInv
<1>4. /\ T \in SUBSET Nat /\ LeakTargets \in Nat /\ LeakBaselines \in Nat
  BY LeakConstants
<1> HIDE DEF T
<1>5. ASSUME NEW growers \in FirstPids([c \in mlGrowers |-> c.delta]),
             NEW top \in FirstPids([c \in mlTopRss |-> c.rss]),
             Heap!HeapBeginCollect(Heap!TargetsOf(growers, top))
      PROVE  LeakInv'
  <2>1. /\ mlHeapPhase' = "scan" /\ mlHeapPrevious' = mlHeapCurrent
        /\ mlTargets' = Heap!TargetsOf(growers, top) /\ mlHeapCurrent' = << >>
        /\ mlResults' = << >> /\ mlHeapInitial' = mlHeapInitial
    BY <1>5 DEF Heap!HeapBeginCollect
  <2>2. /\ OneEach(DOMAIN mlSeen, mlTargets') /\ OneEach(LeakPids, mlTargets')
        /\ Len(mlTargets') =< LeakTargets
    BY <1>1, <2>1, LeakTargetsStep
  <2>3. KeptHere(mlTargets', mlHeapCurrent', mlHeapPrevious', mlHeapInitial', mlResults')
    BY <1>3, <1>4, <2>1, <2>2, HeapBegun
  <2>4. \A l \in 1 .. Len(mlTargets') : mlTargets'[l] \in DOMAIN mlSeen
    BY <2>2 DEF OneEach
  <2>5. Entries(mlResults') = {}
    BY <2>1 DEF Entries
  <2> QED BY <1>1, <1>2, <2>1, <2>3, <2>4, <2>5 DEF LeakInv, T
<1>6. CASE Heap!HeapSkipTarget
  <2>1. /\ mlHeapPhase = "scan" /\ mlTargets # << >> /\ mlTargets' = Tail(mlTargets)
        /\ UNCHANGED <<mlHeapPhase, mlHeapCurrent, mlHeapPrevious, mlHeapInitial, mlResults>>
    BY <1>6 DEF Heap!HeapSkipTarget
  <2>2. KeptHere(mlTargets', mlHeapCurrent', mlHeapPrevious', mlHeapInitial', mlResults')
    BY <1>3, <1>4, <2>1, HeapSkipped
  <2>3. \A l \in 1 .. Len(mlTargets') : mlTargets'[l] \in DOMAIN mlSeen
    <3>1. OneEach(LeakPids, mlTargets)
      BY <1>3 DEF HeapKept
    <3>2. \A l \in 1 .. Len(mlTargets') :
            l + 1 \in 1 .. Len(mlTargets) /\ mlTargets'[l] = mlTargets[l + 1]
      BY <2>1, <3>1, TargetsTail
    <3> QED BY <3>2 DEF LeakInv
  <2> QED BY <1>1, <1>2, <2>1, <2>2, <2>3 DEF LeakInv, T
<1>7. ASSUME mlTargets # << >>, NEW h \in LeakHeaps,
             Heap!HeapScanTarget(h, RssOf(Head(mlTargets)))
      PROVE  LeakInv'
  <2> DEFINE p == Head(mlTargets)
             r == mlSeen[p]
             row == RowFound(LeakBaselines, mlHeapPrevious, mlHeapInitial, p, h, r)
  <2>1. /\ OneEach(LeakPids, mlTargets)
        /\ mlHeapInitial \in Seq(BaseOf(LeakPids, LeakHeaps, T))
        /\ Len(mlHeapInitial) =< LeakBaselines
        /\ mlHeapPrevious \in Seq(SampleOf(LeakPids, LeakHeaps))
        /\ RowsOf(RowOf(LeakPids, LeakHeaps, T), mlResults, Len(mlHeapCurrent),
                  Entries(mlResults))
    BY <1>3 DEF HeapKept
  <2>2. /\ 1 \in 1 .. Len(mlTargets) /\ p = mlTargets[1]
        /\ \A l \in 1 .. Len(Tail(mlTargets)) :
             l + 1 \in 1 .. Len(mlTargets) /\ Tail(mlTargets)[l] = mlTargets[l + 1]
    BY <1>7, <2>1, TargetsTail
  <2>3. p \in DOMAIN mlSeen
    BY <2>2 DEF LeakInv
  <2> HIDE DEF p
  <2>4. RssOf(p) = r /\ r \in T /\ p \in LeakPids
    BY <1>2, <2>3, LeakPidInfo DEF RssOf, T
  <2>5. /\ mlHeapPhase = "scan" /\ mlHeapPhase' = mlHeapPhase
        /\ mlTargets' = Tail(mlTargets) /\ mlHeapPrevious' = mlHeapPrevious
        /\ mlHeapCurrent' = Append(mlHeapCurrent, SampleFound(p, h))
        /\ mlHeapInitial' = FindOrCreate(mlHeapInitial, LeakBaselines,
                                         [pid |-> p, heap |-> h, rss |-> r])
        /\ mlResults' = Append(mlResults, row)
    BY <1>7, <2>4, LeakHeapSame DEF Heap!HeapScanTarget, SampleFound, RowFound, p
  <2>6. row.pid = p /\ row.rss = r /\ row \in RowOf(LeakPids, LeakHeaps, T)
    BY <1>4, <2>1, <2>4, RowFoundType
  <2>7. /\ KeptHere(mlTargets', mlHeapCurrent', mlHeapPrevious', mlHeapInitial', mlResults')
        /\ Entries(mlResults') = Entries(mlResults) \cup {row}
    <3> HIDE DEF r
    <3>1. p = Head(mlTargets) /\ r \in T /\ h \in LeakHeaps /\ mlTargets # << >>
      BY <1>7, <2>4 DEF p
    <3>2. ScannedTo(LeakBaselines, mlHeapCurrent, mlHeapPrevious, mlHeapInitial, mlResults,
                    p, h, r, row, mlHeapCurrent', mlHeapInitial', mlResults')
      BY <2>5 DEF ScannedTo
    <3> HIDE DEF row
    <3>3. KeptHere(Tail(mlTargets), mlHeapCurrent', mlHeapPrevious, mlHeapInitial', mlResults')
      BY <1>3, <1>4, <3>1, <3>2, HeapScanned
    <3>4. Entries(mlResults') = Entries(mlResults) \cup {row}
      BY <2>1, <2>5, <2>6, EntriesAppend DEF RowsOf
    <3> QED BY <2>5, <3>3, <3>4
  <2> HIDE DEF row
  <2>8. \A e \in Entries(mlResults') : RowNow(e, mlSeen)
    BY <2>3, <2>5, <2>6, <2>7 DEF LeakInv, RowNow
  <2>9. \A l \in 1 .. Len(mlTargets') : mlTargets'[l] \in DOMAIN mlSeen
    BY <2>2, <2>5 DEF LeakInv
  <2> QED BY <1>1, <1>2, <2>5, <2>7, <2>8, <2>9 DEF LeakInv, T
<1>8. CASE Heap!HeapEndCollect
  <2>1. /\ mlTargets = << >> /\ mlResults' = Sorted(mlResults) /\ mlHeapPhase' = "idle"
        /\ mlHeapPhase = "scan"
        /\ UNCHANGED <<mlTargets, mlHeapCurrent, mlHeapPrevious, mlHeapInitial>>
    BY <1>8, LeakHeapSame DEF Heap!HeapEndCollect
  <2>2. /\ KeptHere(mlTargets', mlHeapCurrent', mlHeapPrevious', mlHeapInitial', mlResults')
        /\ Entries(mlResults') = Entries(mlResults)
    <3>1. /\ KeptHere(mlTargets, mlHeapCurrent, mlHeapPrevious, mlHeapInitial,
                     Sorted(mlResults))
          /\ Entries(Sorted(mlResults)) = Entries(mlResults)
      BY <1>3, <1>4, HeapRanked
    <3> QED BY <2>1, <3>1
  <2>3. \A l \in 1 .. Len(mlTargets') : mlTargets'[l] \in DOMAIN mlSeen
    BY <2>1
  <2> QED BY <1>1, <1>2, <2>1, <2>2, <2>3 DEF LeakInv, T
<1> QED BY <1>5, <1>6, <1>7, <1>8 DEF LeakHeapMon

(* Every step of memleak keeps the invariant. *)
LEMMA LeakStep ==
  ASSUME LeakInv, [Next]_vars
  PROVE  LeakInv'
<1>1. CASE LeakBegin
  <2>1. mlStage = 0 /\ mlStage' = 1 /\ UNCHANGED leakMemVars /\ UNCHANGED leakHeapVars
    BY <1>1, Stages DEF LeakBegin
  <2>2. LeakMemInv'
    BY <2>1, LeakMemStep DEF LeakInv
  <2> QED BY <2>1, <2>2 DEF LeakInv, leakMemVars, leakHeapVars
<1>2. CASE UNCHANGED leakVars
  <2>1. mlStage' = mlStage /\ UNCHANGED leakMemVars /\ UNCHANGED leakHeapVars
    BY <1>2 DEF leakVars
  <2>2. LeakMemInv'
    BY <2>1, LeakMemStep DEF LeakInv
  <2> QED BY <2>1, <2>2 DEF LeakInv, leakMemVars, leakHeapVars
<1>3. LeakNext \/ UNCHANGED leakVars
  BY PartSteps
<1> QED BY <1>1, <1>2, <1>3, LeakProcMemStep, LeakHeapMonStep DEF LeakNext

(* It holds at the start. *)
LEMMA LeakBegins == Init => LeakInv
<1> SUFFICES ASSUME LeakInit PROVE LeakInv
  BY DEF Init
<1>1. /\ mlPool = [n \in 0 .. LeakNodes - 1 |-> [pid |-> 0, val |-> 0, next |-> -1]]
      /\ mlPoolIdx = 0 /\ mlCurrent = [b \in 0 .. 1 - 1 |-> -1] /\ mlPrevious = mlCurrent
      /\ mlSeen = [p \in {} |-> 0] /\ mlSeenBefore = mlSeen
  BY DEF LeakInit, Mem!Init, Mem!TableInit, Mem!EmptyHeads, Mem!Nodes, Mem!NIL, Mem!Nothing,
         LeakNodes
<1>2. /\ mlScan = "idle" /\ mlTodo = {} /\ mlHasPrevious = FALSE /\ mlChanges = {}
      /\ mlGrowers = {} /\ mlShrinkers = {} /\ mlTopRss = {} /\ mlStage = 0
  BY DEF LeakInit, Mem!Init
<1>3. /\ mlHeapPhase = "idle" /\ mlTargets = << >> /\ mlHeapCurrent = << >>
      /\ mlHeapPrevious = << >> /\ mlHeapInitial = << >> /\ mlResults = << >>
  BY DEF LeakInit, Heap!HeapInit
<1>4. mlSeen \in Readings(LeakPids, LeakSizes) /\ DOMAIN mlSeen = {}
  BY <1>1, ReadingGrows
<1>5. TwoTables(LeakNodes, 1, LeakPids, LeakSizes, mlPool, mlPoolIdx, mlCurrent, mlPrevious,
                mlSeen, mlSeenBefore)
  BY <1>1, <1>4, TablesBegin, LeakConstants
<1>6. /\ ChangeRows(LeakPids, LeakSizes, LeakMaxProcs, {}, mlSeen, mlSeenBefore)
      /\ TrueRows({}, mlSeen, mlSeenBefore)
  BY NoRows, LeakConstants
<1>7. LeakRows({}) /\ LeakListed = {}
  <2>1. IsFiniteSet({}) /\ Cardinality({}) = 0
    BY FS_EmptySet
  <2> QED BY <1>2, <2>1, LeakConstants DEF LeakRows, LeakListed
<1>8. LeakMemInv
  BY <1>1, <1>2, <1>4, <1>5, <1>6, <1>7 DEF LeakMemInv
<1>9. HeapKept(LeakPids, LeakHeaps, LeakSizes \cup {0}, LeakTargets, LeakBaselines,
               << >>, << >>, << >>, << >>, << >>)
  BY HeapEmpty, LeakConstants
<1>10. Entries(<< >>) = {} /\ 1 .. Len(<< >>) = {}
  BY DEF Entries
<1> QED BY <1>2, <1>3, <1>8, <1>9, <1>10 DEF LeakInv

(* The two process lists of a memleak snapshot are about one and the same  *)
(* collection: every size is what procmem read for the process in this     *)
(* collection, whatever processes come, go and grow between collections,   *)
(* and however large the pools and the lists are.                          *)
THEOREM LeaksOfThisCollectionHolds == Spec => []LeaksOfThisCollection
<1>1. LeakInv => LeaksOfThisCollection
  <2> SUFFICES ASSUME LeakInv, mlStage = 0, NEW e \in ToSet(UserLeaks) \cup ProcessUsage
               PROVE  /\ RowNow(e, mlSeen)
                      /\ \A u \in ProcessUsage : u.pid = e.pid => u.heap = e.heap
    BY DEF LeaksOfThisCollection, RowNow
  <2> DEFINE n == Len(mlHeapCurrent)
  <2>1. /\ mlHeapCurrent \in Seq(SampleOf(LeakPids, LeakHeaps)) /\ n \in Nat
        /\ RowsOf(RowOf(LeakPids, LeakHeaps, LeakSizes \cup {0}), mlResults, n,
                  Entries(mlResults))
        /\ {[pid |-> x.pid, heap |-> x.heap] : x \in Entries(mlResults)} = Entries(mlHeapCurrent)
    BY DEF LeakInv, HeapKept
  <2>2. /\ Len(mlResults) = n
        /\ \A x, y \in Entries(mlResults) : x.pid = y.pid => x = y
    BY <2>1 DEF RowsOf, Entries
  <2>3. \A x \in Entries(mlResults) : RowNow(x, mlSeen)
    BY DEF LeakInv
  <2>4. ASSUME NEW u \in ProcessUsage
        PROVE  /\ RowNow(u, mlSeen)
               /\ \E x \in Entries(mlResults) : x.pid = u.pid /\ x.heap = u.heap
    <3>1. PICK i \in 1 .. n : u = Usage(mlHeapCurrent[i])
      BY DEF ProcessUsage
    <3>2. mlHeapCurrent[i] \in Entries(mlHeapCurrent)
      BY DEF Entries
    <3>3. PICK x \in Entries(mlResults) : mlHeapCurrent[i] = [pid |-> x.pid, heap |-> x.heap]
      BY <2>1, <3>2
    <3>4. x.pid \in DOMAIN mlSeen /\ LeakMemInv
      BY <2>3 DEF RowNow, LeakInv
    <3>5. Mem!Known(x.pid) /\ Mem!PidInfo(x.pid).rss = mlSeen[x.pid]
      BY <3>4, LeakPidInfo
    <3>6. u = [pid |-> x.pid, heap |-> x.heap, rss |-> mlSeen[x.pid]]
      BY <3>1, <3>3, <3>5 DEF Usage
    <3> QED BY <3>4, <3>6 DEF RowNow
  <2>5. ASSUME e \in ToSet(UserLeaks) PROVE e \in Entries(mlResults)
    <3> DEFINE m == Min({Len(mlResults), Shown})
    <3>1. m \in Nat /\ m =< n
      BY <2>1, <2>2, MinOfTwo, LeakConstants
    <3> HIDE DEF m
    <3>2. PICK R : mlResults \in Seq(R)
      BY <2>1 DEF RowsOf
    <3>3. UserLeaks = SubSeq(mlResults, 1, m)
      BY DEF UserLeaks, m
    <3>4. /\ Len(SubSeq(mlResults, 1, m)) = m /\ DOMAIN SubSeq(mlResults, 1, m) = 1 .. m
          /\ \A i \in 1 .. m : SubSeq(mlResults, 1, m)[i] = mlResults[i]
      BY <2>1, <2>2, <3>1, <3>2
    <3>5. PICK i \in 1 .. m : e = mlResults[i]
      BY <2>5, <3>3, <3>4 DEF ToSet
    <3> QED BY <2>1, <2>2, <3>1, <3>5 DEF Entries
  <2>6. RowNow(e, mlSeen) /\ \E x \in Entries(mlResults) : x.pid = e.pid /\ x.heap = e.heap
    BY <2>3, <2>4, <2>5
  <2> QED BY <2>2, <2>4, <2>6
<1> QED BY <1>1, LeakBegins, LeakStep, PTL DEF Spec

-----------------------------------------------------------------------------
(***************************************************************************)
(* The types of all parts.  Those of their arrays are bounds: nothing is   *)
(* written behind the end of one.                                          *)
(***************************************************************************)
(* The first n of a set of numbers. *)
FirstOf(n, I) == {x \in I : Cardinality({y \in I : y < x}) < n}

(* They are n at most: the one among them with the most numbers below it   *)
(* has less than n of these, and the others are there.                     *)
LEMMA FirstFew ==
  ASSUME NEW I \in SUBSET Nat, NEW n \in Nat
  PROVE  FirstOf(n, I) \in SUBSET I /\ Cardinality(FirstOf(n, I)) =< n
<1> DEFINE B(x) == Below(I, x)
           F == FirstOf(n, I)
           C == {Cardinality(B(x)) : x \in F}
<1>1. F \in SUBSET I /\ \A x \in F : x \in Nat /\ Cardinality(B(x)) < n
  BY DEF FirstOf, Below
<1>2. CASE F = {}
  BY <1>2, FS_EmptySet
<1> HIDE DEF F
<1>3. ASSUME F # {} PROVE Cardinality(F) =< n
  <2>1. C \in SUBSET Nat /\ C # {} /\ \A c \in C : c =< n
    <3>1. \A x \in F : Cardinality(B(x)) \in Nat /\ Cardinality(B(x)) =< n
      BY <1>1, BelowFinite
    <3> HIDE DEF B
    <3> QED BY <1>3, <3>1
  <2>2. Max(C) \in C /\ \A c \in C : c =< Max(C)
    <3> HIDE DEF C
    <3> QED BY <2>1, MaxIsGreatest
  <2>3. PICK m \in F : \A x \in F : Cardinality(B(x)) =< Cardinality(B(m))
    BY <2>2
  <2>4. /\ IsFiniteSet(B(m)) /\ Cardinality(B(m)) \in Nat /\ Cardinality(B(m)) < n
        /\ m \notin B(m) /\ m \in I
    <3>1. IsFiniteSet(B(m)) /\ Cardinality(B(m)) \in Nat /\ Cardinality(B(m)) < n
      BY <1>1, BelowFinite
    <3> QED BY <1>1, <3>1 DEF Below
  <2>5. /\ IsFiniteSet(B(m) \cup {m})
        /\ Cardinality(B(m) \cup {m}) = Cardinality(B(m)) + 1
    <3> HIDE DEF B
    <3> QED BY <2>4, FS_AddElement
  <2>6. ASSUME NEW x \in F PROVE x \in B(m) \cup {m}
    <3>1. ~(m < x)
      BY <1>1, <2>3, <2>4, BelowGrows
    <3> QED BY <1>1, <3>1 DEF Below
  <2>7. F \in SUBSET (B(m) \cup {m})
    BY <2>6
  <2> HIDE DEF B
  <2>8. /\ IsFiniteSet(F) /\ Cardinality(F) =< Cardinality(B(m) \cup {m})
        /\ Cardinality(F) \in Nat
    BY <2>5, <2>7, FS_Subset, FS_CardinalityType
  <2> QED BY <2>4, <2>5, <2>8
<1> QED BY <1>1, <1>2, <1>3 DEF F

-----------------------------------------------------------------------------
(* meminfo and vmstat: a reading has all fields. *)
LEMMA MemTyped == Spec => []MemTypeOK
<1>1. Init => MemTypeOK
  <2> SUFFICES ASSUME MemInit PROVE MemTypeOK
    BY Zenon DEF Init
  <2>1. NoMemory \in [MemFields -> Kilobytes \cup {0}] /\ NoMemory \in [MemFields -> Int]
    BY DEF NoMemory
  <2> QED BY <2>1 DEF MemInit, MemTypeOK, MemData
<1>2. MemTypeOK /\ [Next]_vars => MemTypeOK'
  <2> SUFFICES ASSUME MemTypeOK, MemNext \/ UNCHANGED memVars PROVE MemTypeOK'
    BY PartSteps
  <2>1. CASE UNCHANGED memVars
    BY <2>1 DEF memVars, MemTypeOK
  <2>2. CASE MemNext
    <3>1. PICK text \in MemTexts, ok \in BOOLEAN : MemCollect(text, ok)
      BY <2>2 DEF MemNext
    <3>2. ParseMeminfo(text) \in MemData
      <4>1. PICK F \in SUBSET MemFields : text \in [F -> Kilobytes]
        BY DEF MemTexts
      <4> QED BY <4>1 DEF ParseMeminfo, MemData
    <3>3. /\ memCurrent' \in MemData /\ memPrevious' \in MemData
          /\ memHasPrevious' = TRUE
      BY <3>1, <3>2 DEF MemCollect, MemTypeOK
    <3>4. vmCurrent' \in Kilobytes \cup {0}
      BY <2>2 DEF MemNext, VmCollect, MemTypeOK
    <3>5. ASSUME NEW f \in MemFields PROVE memReported[f] +
                       MemDelta(memCurrent', memPrevious', memHasPrevious')[f] \in Int
      <4>1. memCurrent'[f] \in Int /\ memPrevious'[f] \in Int /\ memReported[f] \in Int
        <5>1. \A x \in Kilobytes \cup {0} : x \in Int
          BY MemInfoAssumption
        <5> QED BY <3>3, <5>1 DEF MemData, MemTypeOK
      <4> QED BY <3>3, <4>1 DEF MemDelta
    <3>6. memReported' \in [MemFields -> Int]
      BY <2>2, <3>5 DEF MemNext
    <3> QED BY <3>3, <3>4, <3>6 DEF MemTypeOK
  <2> QED BY <2>1, <2>2
<1> QED BY <1>1, <1>2, PTL DEF Spec

(* netstat: current[] never overflows. *)
LEMMA NetTyped == Spec => []NetTypeOK
<1> DEFINE Ok(a) == /\ DOMAIN a \subseteq Ifaces /\ Cardinality(DOMAIN a) <= MaxIfaces
                    /\ \A i \in DOMAIN a : a[i] \in NetEntry
<1>1. Init => NetTypeOK
  <2>1. DOMAIN NoEntries = {} /\ Cardinality({}) = 0 /\ MaxIfaces \in Nat
    BY FS_EmptySet, NetStatAssumption DEF NoEntries
  <2> SUFFICES ASSUME NetInit PROVE NetTypeOK
    BY Zenon DEF Init
  <2>2. netCurrent = NoEntries /\ netPrevious = NoEntries /\ netHasPrevious = FALSE
        /\ lastCollect = 0
    BY DEF NetInit
  <2>3. Ok(netCurrent) /\ Ok(netPrevious)
    BY <2>1, <2>2
  <2> QED BY <2>2, <2>3 DEF NetTypeOK
<1>2. NetTypeOK /\ [Next]_vars => NetTypeOK'
  <2> SUFFICES ASSUME NetTypeOK, NetNext \/ UNCHANGED netVars PROVE NetTypeOK'
    BY PartSteps
  <2>1. CASE UNCHANGED netVars
    BY <2>1 DEF netVars, NetTypeOK
  <2>2. ASSUME NEW now \in Times, NetCollectFailed(now) PROVE NetTypeOK'
    BY <2>2 DEF NetCollectFailed, NetTypeOK
  <2>3. ASSUME NEW now \in Times, NEW file \in NetFiles, NetCollect(file, now)
        PROVE  NetTypeOK'
    <3>1. PICK I \in SUBSET Ifaces : file \in [I -> Bytes]
      BY DEF NetFiles
    <3>2. /\ netPrevious' = netCurrent /\ lastCollect' = now /\ netHasPrevious' = TRUE
          /\ netCurrent' = [i \in Visible(I) |-> NetChange(netCurrent, i, file[i], now)]
      BY <2>3, <3>1 DEF NetCollect
    <3>3. I \in SUBSET Nat /\ MaxIfaces \in Nat
      BY NetStatAssumption
    <3>4. Visible(I) \subseteq I /\ Cardinality(Visible(I)) <= MaxIfaces
      BY <3>3, FirstFew DEF Visible, FirstOf
    <3>5. ASSUME NEW i \in Visible(I) PROVE NetChange(netCurrent, i, file[i], now) \in NetEntry
      <4>1. file[i] \in Bytes /\ file[i] \in Int
        <5>1. i \in I /\ \A x \in Bytes : x \in Int
          BY <3>4, NetStatAssumption
        <5> QED BY <3>1, <5>1
      <4>2. Elapsed(now) \in Nat
        <5>1. lastCollect \in Int /\ now \in Int
          BY NetStatAssumption DEF NetTypeOK
        <5>2. \A y \in {now - lastCollect, 1} : y =< IF now - lastCollect >= 1 THEN now - lastCollect ELSE 1
          BY <5>1
        <5>3. \E x \in {now - lastCollect, 1} : \A y \in {now - lastCollect, 1} : x >= y
          BY <5>1
        <5>4. Max({now - lastCollect, 1}) >= 1 /\ Max({now - lastCollect, 1}) \in {now - lastCollect, 1}
          BY <5>3 DEF Max
        <5> QED BY <5>1, <5>4 DEF Elapsed
      <4>3. CASE netHasPrevious /\ i \in DOMAIN netCurrent
        <5>1. netCurrent[i].bytes \in Int
          <6>1. netCurrent[i] \in NetEntry
            BY <4>3 DEF NetTypeOK
          <6> QED BY <6>1, NetStatAssumption DEF NetEntry
        <5> QED BY <4>1, <4>2, <4>3, <5>1 DEF NetChange, NetEntry
      <4>4. CASE ~(netHasPrevious /\ i \in DOMAIN netCurrent)
        BY <4>1, <4>4 DEF NetChange, NetEntry
      <4> QED BY <4>3, <4>4
    <3>6. Ok(netCurrent')
      BY <3>2, <3>4, <3>5
    <3>7. Ok(netPrevious')
      BY <3>2 DEF NetTypeOK
    <3> QED BY <3>2, <3>6, <3>7 DEF NetTypeOK
  <2> QED BY <2>1, <2>2, <2>3 DEF NetNext
<1> QED BY <1>1, <1>2, PTL DEF Spec

(* sockstat: the totals count what the arrays hold. *)
LEMMA SockTyped == Spec => []SockTypeOK
<1> DEFINE Inv == /\ sockPhase \in {"idle", "map"}
                  /\ sockSummary \in SockTotals /\ sockPrevious \in SockTotals
                  /\ sockTable \in Seq(Inodes)
<1>1. Init => Inv
  <2> SUFFICES ASSUME SockInit PROVE Inv
    BY Zenon DEF Init
  <2> QED BY SockStatAssumption DEF SockInit, SockTotals
<1>2. SockInv /\ Inv /\ [Next]_vars => Inv'
  <2> SUFFICES ASSUME SockInv, Inv, SockNext \/ UNCHANGED sockVars PROVE Inv'
    BY PartSteps
  <2>1. CASE UNCHANGED sockVars
    BY <2>1 DEF sockVars
  <2>2. ASSUME NEW table \in SockTables, NEW procOk \in BOOLEAN, SockBeginCollect(table, procOk)
        PROVE  Inv'
    <3>1. PICK m \in Nat : table \in [1 .. m -> Inodes]
      BY DEF SockTables, SeqOf
    <3>2. table \in Seq(Inodes) /\ Len(table) = m /\ MaxSockets \in Nat
      BY <3>1, SockStatAssumption
    <3>3. Min({Len(table), MaxSockets}) \in 0 .. MaxSockets
      BY <3>2, MinOfTwo
    <3>4. [tcp |-> Min({Len(table), MaxSockets}), others |-> 0] \in SockTotals
      BY <3>3 DEF SockTotals
    <3> QED BY <2>2, <3>2, <3>4 DEF SockBeginCollect
  <2>3. ASSUME NEW held, NEW named, MapProcess(held, named) PROVE Inv'
    BY <2>3 DEF MapProcess
  <2>4. ASSUME NEW lines \in LineCounts, SockEndCollect(lines) PROVE Inv'
    BY <2>4 DEF SockEndCollect, SockTotals
  <2> QED BY <2>1, <2>2, <2>3, <2>4 DEF SockNext
<1>3. SockInv /\ Inv => SockTypeOK
  BY DEF SockInv, SockNumbers, SockTypeOK
<1> QED BY <1>1, <1>2, <1>3, SockAlways, PTL DEF Spec

(* slabinfo: neither the arrays nor the lists overflow. *)
LEMMA SlabTyped == Spec => []SlabTypeOK
<1> DEFINE Inv == /\ Cardinality(DOMAIN slabCurrent) <= MaxSlabs
                  /\ Cardinality(DOMAIN slabPrevious) <= MaxSlabs
                  /\ slabHasPrevious \in BOOLEAN
<1>1. Init => Inv
  <2> SUFFICES ASSUME SlabInit PROVE Inv
    BY Zenon DEF Init
  <2>1. Cardinality({}) = 0 /\ MaxSlabs \in Nat
    BY FS_EmptySet, SlabAssumption
  <2>2. DOMAIN slabCurrent = {} /\ DOMAIN slabPrevious = {} /\ slabHasPrevious = FALSE
    BY NothingRead DEF SlabInit
  <2>3. Cardinality(DOMAIN slabCurrent) = 0 /\ Cardinality(DOMAIN slabPrevious) = 0
    BY <2>1, <2>2, Zenon
  <2>4. Cardinality(DOMAIN slabCurrent) <= MaxSlabs /\ Cardinality(DOMAIN slabPrevious) <= MaxSlabs
    BY <2>1, <2>3
  <2> QED BY <2>2, <2>4, Zenon
<1>2. Inv /\ [Next]_vars => Inv'
  <2> SUFFICES ASSUME Inv, SlabNext \/ UNCHANGED slabVars PROVE Inv'
    BY PartSteps
  <2>1. CASE UNCHANGED slabVars
    BY <2>1 DEF slabVars
  <2>2. CASE SlabCollectFailed
    BY <2>2 DEF SlabCollectFailed
  <2>3. ASSUME NEW r \in SlabReading, SlabCollect(r) PROVE Inv'
    <3>1. /\ slabPrevious' = slabCurrent /\ slabCurrent' = Kept(r)
          /\ slabHasPrevious' = TRUE
      BY <2>3 DEF SlabCollect
    <3>2. DOMAIN r \in SUBSET Nat /\ MaxSlabs \in Nat
      BY SlabReadings, SlabAssumption
    <3>3. DOMAIN Kept(r) = FirstOf(MaxSlabs, DOMAIN r)
      BY DEF Kept, FirstOf
    <3>4. Cardinality(DOMAIN Kept(r)) <= MaxSlabs
      BY <3>2, <3>3, FirstFew
    <3> QED BY <3>1, <3>4
  <2> QED BY <2>1, <2>2, <2>3 DEF SlabNext
<1>3. SlabInv /\ Inv => SlabTypeOK
  <2> SUFFICES ASSUME SlabInv, Inv PROVE SlabTypeOK
    OBVIOUS
  <2>1. /\ slabCurrent \in SlabReading /\ slabOlder \in SlabReading
        /\ slabPrevious \in SlabReading /\ slabNewer = slabCurrent
    BY DEF SlabInv
  <2>2. ASSUME NEW list, NEW M \in SUBSET SlabCommon(slabOlder, slabNewer),
               TopRows(list, slabOlder, slabNewer, M)
        PROVE  list \subseteq SlabEntry /\ Cardinality(list) <= TopN
    <3>1. PICK C \in SUBSET Caches, D \in SUBSET Caches :
            slabOlder \in [C -> Sizes] /\ slabNewer \in [D -> Sizes]
      BY <2>1 DEF SlabReading
    <3>2. ASSUME NEW e \in list PROVE e \in SlabEntry
      <4>1. PICK c \in M : e = CacheRow(slabOlder, slabNewer, c)
        BY <2>2 DEF TopRows
      <4>2. c \in C /\ c \in D /\ c \in Caches
        BY <3>1 DEF SlabCommon
      <4>3. slabOlder[c] \in Sizes /\ slabNewer[c] \in Sizes
        BY <3>1, <4>2
      <4> QED BY <4>1, <4>2, <4>3 DEF CacheRow, SlabEntry
    <3>3. IsFiniteSet(M)
      <4>1. M \in SUBSET DOMAIN slabNewer
        BY DEF SlabCommon
      <4> QED BY <2>1, <4>1, SlabReadings, FS_Subset
    <3>4. Cardinality(list) = Min({TopN, Cardinality(M)}) /\ Cardinality(M) \in Nat /\ TopN \in Nat
      BY <2>2, <3>3, FS_CardinalityType, SlabAssumption DEF TopRows
    <3> QED BY <3>2, <3>4, MinOfTwo
  <2>3. /\ slabGrowers \subseteq SlabEntry /\ Cardinality(slabGrowers) <= TopN
        /\ slabShrinkers \subseteq SlabEntry /\ Cardinality(slabShrinkers) <= TopN
    <3>1. /\ Grown(slabOlder, slabNewer) \in SUBSET SlabCommon(slabOlder, slabNewer)
          /\ Shrunk(slabOlder, slabNewer) \in SUBSET SlabCommon(slabOlder, slabNewer)
      BY DEF Grown, Shrunk
    <3> QED BY <2>2, <3>1 DEF SlabInv
  <2> QED BY <2>1, <2>3 DEF SlabTypeOK
<1> QED BY <1>1, <1>2, <1>3, SlabAlways, PTL DEF Spec

(* heapmon: its invariant says it. *)
LEMMA HeapTyped == Spec => []HeapTypeOK
<1>1. HeapInv => HeapTypeOK
  <2> SUFFICES ASSUME HeapInv PROVE HeapTypeOK
    OBVIOUS
  <2>1. /\ HeapSample = SampleOf(HeapPids, Heaps) /\ HeapBase = BaseOf(HeapPids, Heaps, Totals)
        /\ HeapResult = RowOf(HeapPids, Heaps, Totals)
    BY DEF HeapSample, HeapBase, HeapResult, SampleOf, BaseOf, RowOf
  <2>2. /\ heapTargets \in Seq(HeapPids) /\ Len(heapCurrent) + Len(heapTargets) =< MaxTargets
        /\ heapInitial \in Seq(HeapBase) /\ Len(heapInitial) =< HeapPoolSize
        /\ heapPrevious \in Seq(HeapSample) /\ heapCurrent \in Seq(HeapSample)
        /\ heapResults \in Seq(HeapResult) /\ Len(heapResults) = Len(heapCurrent)
    BY <2>1 DEF HeapInv, HeapKept, OneEach, RowsOf
  <2>3. Len(heapCurrent) =< MaxTargets /\ Len(heapTargets) =< MaxTargets
    <3>1. Len(heapCurrent) \in Nat /\ Len(heapTargets) \in Nat
      BY <2>2
    <3>2. MaxTargets \in Nat
      BY HeapMonAssumption
    <3> QED BY <2>2, <3>1, <3>2
  <2> QED BY <2>2, <2>3 DEF HeapInv, HeapTypeOK
<1> QED BY <1>1, HeapBegins, HeapStep, PTL DEF Spec

(* fdmon: no array overflows.  While a scan runs, all_procs and current[]  *)
(* have an entry each for every process counted.                           *)
FdCounted ==
  /\ IsFiniteSet(fdAll) /\ \A e \in fdAll : e.pid \notin fdTodo
  /\ fdScan = "scan" => /\ Len(fdCurrent) = Cardinality(fdAll)
                        /\ summary.procs = Cardinality(fdAll)
  /\ Cardinality(fdAll) =< MaxProcs
  /\ fdCurrent \in FdSamples /\ Len(fdCurrent) =< MaxProcs
  /\ summary.procs \in 0 .. MaxProcs /\ summary.leaks \in 0 .. summary.procs

FdArrays ==
  /\ fdScan \in {"idle", "scan"} /\ fdPrevious \in FdSamples
  /\ Len(fdInitial) =< FdPoolSize
  /\ fdAll \in SUBSET FdEntry /\ consumers \in SUBSET FdEntry /\ leakers \in SUBSET FdEntry

(* A process is read. *)
LEMMA FdReadTyped ==
  ASSUME FdInv, FdArrays, FdCounted, NEW v \in Counts, FdReadPid(v)
  PROVE  FdArrays' /\ FdCounted'
<1> DEFINE p == Min(fdTodo)
           s == [pid |-> p, n |-> v]
           base == InitialOf(fdInitial, FdPoolSize, s)
           k == Find(fdPrevious, p)
           e == [pid |-> p, n |-> v, baseline |-> base.n, change |-> v - base.n,
                 delta |-> IF k # 0 THEN v - fdPrevious[k].n ELSE 0]
           c == Cardinality(fdAll)
<1>1. /\ fdTodo # {} /\ fdTodo' = fdTodo \ {p} /\ fdScan = "scan" /\ c < MaxProcs
      /\ fdInitial' = FindOrCreate(fdInitial, FdPoolSize, s)
      /\ fdCurrent' = Append(fdCurrent, s) /\ fdAll' = fdAll \cup {e}
      /\ UNCHANGED <<fdScan, fdPrevious, consumers, leakers>>
  BY DEF FdReadPid, FdScanning, FdPid
<1>2. /\ summary'.procs = summary.procs + 1
      /\ summary'.leaks = summary.leaks + IF e.change > 0 THEN 1 ELSE 0
  BY DEF FdReadPid, FdPid
<1>3. p \in FdPids /\ p \in fdTodo
  <2>1. fdTodo \in SUBSET Nat /\ fdTodo \in SUBSET FdPids
    BY FdMonAssumption DEF FdInv
  <2> QED BY <1>1, <2>1, MinIsLeast
<1>4. s \in FdSample /\ s.pid = p /\ FdPoolSize \in Nat /\ MaxProcs \in Nat
  BY <1>3, FdMonAssumption DEF FdSample
<1>5. \A x \in FdSample : x.n \in Counts
  BY DEF FdSample
<1> HIDE DEF s
<1>6. base \in FdSample /\ Len(fdInitial') =< FdPoolSize
  BY <1>1, <1>4, BaselineType DEF FdInv, FdArrays, FdSamples
<1>7. k # 0 => fdPrevious[k].n \in Counts
  <2>1. k # 0 => k \in 1 .. Len(fdPrevious)
    BY FindHolds DEF FdArrays, FdSamples
  <2> HIDE DEF k
  <2> QED BY <1>5, <2>1 DEF FdArrays, FdSamples
<1>8. e \in FdEntry /\ e.pid = p
  <2>1. base.n \in Counts
    BY <1>5, <1>6
  <2> HIDE DEF base, k, p
  <2>2. v - base.n \in FdDiff /\ (IF k # 0 THEN v - fdPrevious[k].n ELSE 0) \in FdDiff
    BY <1>7, <2>1 DEF FdDiff
  <2> QED BY <1>3, <2>1, <2>2 DEF FdEntry
<1> HIDE DEF e, base, k, p
<1>9. e \notin fdAll
  BY <1>3, <1>8 DEF FdCounted
<1>10. IsFiniteSet(fdAll') /\ Cardinality(fdAll') = c + 1 /\ c \in Nat
  <2>1. IsFiniteSet(fdAll)
    BY DEF FdCounted
  <2> QED BY <1>1, <1>9, <2>1, FS_AddElement, FS_CardinalityType
<1>11. /\ fdCurrent' \in FdSamples /\ Len(fdCurrent') = Len(fdCurrent) + 1
       /\ Len(fdCurrent) = c /\ summary.procs = c
  BY <1>1, <1>4 DEF FdCounted, FdSamples
<1>12. FdArrays'
  BY <1>1, <1>6, <1>8 DEF FdArrays
<1>13. \A x \in fdAll' : x.pid \notin fdTodo'
  BY <1>1, <1>8 DEF FdCounted
<1>14. summary'.procs \in 0 .. MaxProcs /\ summary'.leaks \in 0 .. summary'.procs
  <2>1. summary.leaks \in 0 .. c
    BY <1>11 DEF FdCounted
  <2> HIDE DEF c
  <2> QED BY <1>1, <1>2, <1>4, <1>10, <1>11, <2>1
<1> HIDE DEF c
<1>15. Cardinality(fdAll') =< MaxProcs /\ Len(fdCurrent') =< MaxProcs
  BY <1>1, <1>4, <1>10, <1>11
<1> QED BY <1>1, <1>2, <1>10, <1>11, <1>12, <1>13, <1>14, <1>15 DEF FdCounted

(* So do all steps of fdmon. *)
LEMMA FdTyped == Spec => []FdTypeOK
<1> DEFINE Inv == FdArrays /\ FdCounted
<1>0. IsFiniteSet({}) /\ Cardinality({}) = 0 /\ MaxProcs \in Nat /\ FdPoolSize \in Nat
  BY FS_EmptySet, FdMonAssumption
<1>a. << >> \in FdSamples /\ Len(<< >>) = 0
  BY DEF FdSamples
<1>b. FdZero.procs = 0 /\ FdZero.leaks = 0
  BY DEF FdZero
<1>1. Init => Inv
  <2> SUFFICES ASSUME FdInit PROVE Inv
    BY Zenon DEF Init
  <2> QED BY <1>0, <1>a, <1>b DEF FdInit, FdArrays, FdCounted
<1>2. FdInv /\ Inv /\ [Next]_vars => Inv'
  <2> SUFFICES ASSUME FdInv, Inv, FdNext \/ UNCHANGED fdVars PROVE Inv'
    BY PartSteps
  <2>1. CASE UNCHANGED fdVars
    BY <2>1 DEF fdVars, fdArrays, fdResults, FdArrays, FdCounted
  <2>2. CASE FdBeginCollect
    <3>1. /\ fdPrevious' = fdCurrent /\ fdCurrent' = << >> /\ fdInitial' = fdInitial
          /\ fdAll' = {} /\ consumers' = {} /\ leakers' = {} /\ summary' = FdZero
          /\ fdScan' \in {"idle", "scan"}
      BY <2>2 DEF FdBeginCollect, FdArrays
    <3> QED BY <1>0, <1>a, <1>b, <3>1 DEF FdArrays, FdCounted
  <2>3. CASE FdSkipPid
    BY <2>3 DEF FdSkipPid, fdArrays, fdResults, FdArrays, FdCounted
  <2>4. CASE FdEndCollect
    <3>1. /\ UNCHANGED <<fdCurrent, fdPrevious, fdInitial, summary>> /\ fdAll' = {}
          /\ fdScan' = "idle"
          /\ consumers' \in Largest([e \in fdAll |-> e.n], TopCount)
          /\ leakers' \in Largest([e \in {x \in fdAll : x.change > 0} |-> e.change], TopCount)
      BY <2>4 DEF FdEndCollect, fdArrays
    <3>2. consumers' \subseteq fdAll /\ leakers' \subseteq fdAll
      BY <3>1 DEF Largest
    <3> QED BY <1>0, <3>1, <3>2 DEF FdArrays, FdCounted
  <2> QED BY <2>1, <2>2, <2>3, <2>4, FdReadTyped DEF FdNext
<1>3. FdInv /\ Inv => FdTypeOK
  BY DEF FdInv, FdArrays, FdCounted, FdSamples, FdTypeOK
<1> QED BY <1>1, <1>2, <1>3, FdAlways, PTL DEF Spec

(* cpuload: both lists of a collection stay below their limits. *)
LEMMA CpuTyped == Spec => []CpuTypeOK
<1>1. CpuInv => CpuTypeOK
  <2> SUFFICES ASSUME CpuInv PROVE CpuTypeOK
    OBVIOUS
  <2>1. CpuTable!TableTypeOK
    BY CpuConstants
       DEF CpuInv, TwoTables, PoolLinked, PoolNode, Links, CpuTable!TableTypeOK, CpuTable!Nodes,
           CpuTable!Node, CpuTable!Heads, CpuTable!Ref, CpuTable!NIL, CpuNodes
  <2> QED BY <2>1 DEF CpuInv, CpuTypeOK
<1> QED BY <1>1, CpuBegins, CpuStep, PTL DEF Spec

(* procevent: the ring's index and its entries. *)
LEMMA EvTypedAlways == Spec => []EvTypeOK
<1> DEFINE Inv == /\ evScan \in {"idle", "scan", "exits"}
                  /\ evBucket \in 0 .. EvBuckets
                  /\ evHasPrevious \in BOOLEAN
                  /\ evCollections \in 0 .. MaxCollections
<1>0. EvBuckets \in Nat /\ MaxCollections \in Nat /\ MaxEvents \in Nat
  BY ProcEventAssumption
<1>1. Init => Inv
  <2> SUFFICES ASSUME EvInit PROVE Inv
    BY Zenon DEF Init
  <2>1. evScan = "idle" /\ evBucket = 0 /\ evHasPrevious = FALSE /\ evCollections = 0
    BY Zenon DEF EvInit
  <2>2. 0 \in 0 .. EvBuckets /\ 0 \in 0 .. MaxCollections
    BY <1>0
  <2> QED BY <2>1, <2>2, Zenon
<1>2. Inv /\ [Next]_vars => Inv'
  <2> SUFFICES ASSUME Inv, EvNext \/ UNCHANGED evVars PROVE Inv'
    BY PartSteps
  <2>1. CASE UNCHANGED evVars
    BY <2>1 DEF evVars
  <2>2. ASSUME NEW procReadable \in BOOLEAN, EvBeginCollect(procReadable) PROVE Inv'
    BY <1>0, <2>2 DEF EvBeginCollect
  <2>3. CASE EvNotRunning \/ EvReadPid \/ EvEndScan
    BY <2>3 DEF EvNotRunning, EvReadPid, EvEndScan
  <2>4. CASE WalkBucket
    BY <1>0, <2>4 DEF WalkBucket
  <2>5. CASE EvEndCollect
    BY <2>5 DEF EvEndCollect
  <2>6. CASE EvDone
    BY <2>6 DEF EvDone, evVars
  <2> QED BY <2>1, <2>2, <2>3, <2>4, <2>5, <2>6 DEF EvNext
<1>3. EvInv /\ Inv => EvTypeOK
  <2> SUFFICES ASSUME EvInv, Inv PROVE EvTypeOK
    OBVIOUS
  <2>1. EvTable!TableTypeOK
    BY DEF EvInv, EvTyped, Links, EvTable!TableTypeOK, EvTable!Nodes, EvTable!Node,
           EvTable!Heads, EvTable!Ref, EvTable!NIL
  <2>2. /\ ring.slots \in [0 .. MaxEvents - 1 -> Event \cup {NoEvent}]
        /\ ring.head \in 0 .. MaxEvents - 1 /\ ring.count \in 0 .. MaxEvents
    BY <1>0 DEF EvInv, RingInv, RingOf, Events
  <2>3. evMark \in 0 .. Len(evLog) /\ evLog \in Seq(Event)
    BY DEF EvInv, RingInv, Events, ExitLog
  <2> QED BY <2>1, <2>2, <2>3 DEF EvInv, EvSets, RingInv, EvTypeOK
<1> QED BY <1>1, <1>2, <1>3, EvBegins, EvStep, PTL DEF Spec

(* procstat: its counters and its list. *)
LEMMA StatTyped == Spec => []StatTypeOK
<1> DEFINE Inv == /\ statScan \in {"idle", "scan"}
                  /\ statCounts \in [Counters -> Nat]
                  /\ \A p \in DOMAIN statSeen : statSeen[p] \in States
                  /\ statSeen = [p \in DOMAIN statSeen |-> statSeen[p]]
<1>1. Init => Inv
  <2> SUFFICES ASSUME StatInit PROVE Inv
    BY Zenon DEF Init
  <2> QED BY DEF StatInit, NoStates
<1>2. Inv /\ [Next]_vars => Inv'
  <2> SUFFICES ASSUME Inv, StatNext \/ UNCHANGED statVars PROVE Inv'
    BY PartSteps
  <2>1. CASE UNCHANGED statVars
    BY <2>1 DEF statVars
  <2>2. ASSUME NEW procOk \in BOOLEAN, StatBeginCollect(procOk) PROVE Inv'
    BY <2>2 DEF StatBeginCollect, NoStates
  <2>3. CASE StatSkipPid \/ StatEndCollect
    BY <2>3 DEF StatSkipPid, StatEndCollect
  <2>4. ASSUME NEW s \in States, NEW tids, StatReadPid(s, tids) PROVE Inv'
    <3> DEFINE p == Min(statTodo)
    <3>1. /\ statCounts' = [c \in Counters |-> statCounts[c] + IF CounterOf(s) = c THEN 1 ELSE 0]
          /\ statSeen' = [q \in DOMAIN statSeen \cup {p} |-> IF q = p THEN s ELSE statSeen[q]]
          /\ statScan' = statScan
      BY <2>4 DEF StatReadPid
    <3> HIDE DEF p
    <3>2. statCounts' \in [Counters -> Nat]
      BY <3>1
    <3> QED BY <3>1, <3>2
  <2> QED BY <2>1, <2>2, <2>3, <2>4 DEF StatNext
<1>3. StatInv /\ Inv => StatTypeOK
  <2> SUFFICES ASSUME StatInv, Inv PROVE StatTypeOK
    OBVIOUS
  <2>1. statSeen \in [DOMAIN statSeen -> States] /\ DOMAIN statSeen \in SUBSET StatPids
    BY DEF StatInv
  <2>2. statSeen \in UNION {[P -> States] : P \in SUBSET StatPids}
    BY <2>1
  <2>3. statTotal \in Nat
    BY FS_CardinalityType DEF StatInv
  <2> QED BY <2>2, <2>3 DEF StatInv, ListOf, BlockedList, StatTypeOK
<1>4. Init => StatInv
  <2> SUFFICES ASSUME StatInit PROVE StatInv
    BY Zenon DEF Init
  <2> QED BY StatEmpty DEF StatInit
<1>5. StatInv /\ [Next]_vars => StatInv'
  BY StatStep
<1> QED BY <1>1, <1>2, <1>3, <1>4, <1>5, PTL DEF Spec

(* memleak: the arrays of its procmem and of its heapmon. *)
LEMMA LeakTyped == Spec => []LeakTypeOK
<1>1. LeakInv => LeakTypeOK
  <2> SUFFICES ASSUME LeakInv PROVE LeakTypeOK
    OBVIOUS
  <2>1. Mem!TableTypeOK
    BY DEF LeakInv, LeakMemInv, TwoTables, PoolLinked, PoolNode, Links, Mem!TableTypeOK, Mem!Nodes,
           Mem!Node, Mem!Heads, Mem!Ref, Mem!NIL, LeakNodes
  <2>2. Mem!TypeOK
    BY <2>1, LeakCardinality
       DEF LeakInv, LeakMemInv, LeakRows, ChangeRows, ChangeRow, Readings, Mem!Reading,
           Mem!Change, Mem!Delta, Mem!TypeOK
  <2>3. /\ Heap!HeapSample = SampleOf(LeakPids, LeakHeaps)
        /\ Heap!HeapBase = BaseOf(LeakPids, LeakHeaps, LeakSizes \cup {0})
        /\ Heap!HeapResult = RowOf(LeakPids, LeakHeaps, LeakSizes \cup {0})
    BY DEF Heap!HeapSample, Heap!HeapBase, Heap!HeapResult, SampleOf, BaseOf, RowOf
  <2>4. /\ mlTargets \in Seq(LeakPids) /\ Len(mlHeapCurrent) + Len(mlTargets) =< LeakTargets
        /\ mlHeapInitial \in Seq(Heap!HeapBase) /\ Len(mlHeapInitial) =< LeakBaselines
        /\ mlHeapPrevious \in Seq(Heap!HeapSample) /\ mlHeapCurrent \in Seq(Heap!HeapSample)
        /\ mlResults \in Seq(Heap!HeapResult) /\ Len(mlResults) = Len(mlHeapCurrent)
    BY <2>3 DEF LeakInv, HeapKept, OneEach, RowsOf
  <2>5. Len(mlHeapCurrent) =< LeakTargets /\ Len(mlTargets) =< LeakTargets
    <3>1. Len(mlHeapCurrent) \in Nat /\ Len(mlTargets) \in Nat
      BY <2>4
    <3> QED BY <2>4, <3>1, LeakConstants
  <2>6. Heap!HeapTypeOK
    BY <2>4, <2>5 DEF LeakInv, Heap!HeapTypeOK
  <2>7. mlStage \in 0 .. Len(CollectOrder)
    BY DEF LeakInv, CollectOrder
  <2> QED BY <2>2, <2>6, <2>7 DEF LeakTypeOK
<1> QED BY <1>1, LeakBegins, LeakStep, PTL DEF Spec

(* A builder whose text ends inside its buffer, NUL included, at depth d. *)
Inside(b, d) == b \in Builder /\ b.pos < b.size /\ b.depth = d

(* json_write stays inside, whether there is room or not. *)
LEMMA InsideWrite ==
  ASSUME NEW b, NEW d, Inside(b, d), NEW t \in Tokens
  PROVE  Inside(json_write(b, t), d)
<1>1. /\ b \in Builder /\ b.pos < b.size /\ b.depth = d /\ b.text \in Text
      /\ b.pos \in Nat /\ b.size \in Nat /\ Width(t) \in Nat
  BY DEF Inside, Builder, Width
<1>2. CASE b.error
  BY <1>2 DEF json_write
<1>3. CASE ~b.error /\ b.pos + Width(t) >= b.size
  <2>1. json_write(b, t) = [b EXCEPT !.error = TRUE]
    BY <1>3 DEF json_write
  <2>2. Inside([b EXCEPT !.error = TRUE], d)
    BY <1>1 DEF Inside, Builder
  <2> QED BY <2>1, <2>2
<1>4. CASE ~b.error /\ ~(b.pos + Width(t) >= b.size)
  <2> DEFINE s == Append(b.text, t)
             n == b.pos + Width(t)
  <2>1. json_write(b, t) = [b EXCEPT !.text = s, !.pos = n]
    BY <1>4 DEF json_write
  <2>2. s \in Text /\ n \in Nat /\ n < b.size
    BY <1>1, <1>4 DEF Text
  <2> HIDE DEF s, n
  <2>3. Inside([b EXCEPT !.text = s, !.pos = n], d)
    BY <1>1, <2>2 DEF Inside, Builder
  <2> QED BY <2>1, <2>3
<1> QED BY <1>2, <1>3, <1>4

(* The flag and the depth. *)
LEMMA InsideSet ==
  ASSUME NEW b, NEW d \in Int, Inside(b, d), NEW f \in BOOLEAN
  PROVE  /\ Inside([b EXCEPT !.comma = f], d)
         /\ Inside([b EXCEPT !.depth = @ + 1, !.comma = f], d + 1)
         /\ Inside([b EXCEPT !.depth = @ - 1, !.comma = f], d - 1)
<1>1. b \in Builder /\ b.pos < b.size /\ b.depth = d
  BY DEF Inside
<1>2. ASSUME NEW e \in Int, NEW c, c = [b EXCEPT !.depth = e, !.comma = f]
      PROVE  Inside(c, e)
  <2>1. c \in Builder
    BY <1>1, <1>2 DEF Builder
  <2>2. c.pos = b.pos /\ c.size = b.size /\ c.depth = e
    BY <1>1, <1>2 DEF Builder
  <2> QED BY <1>1, <2>1, <2>2 DEF Inside
<1>3. ASSUME NEW c, c = [b EXCEPT !.comma = f] PROVE Inside(c, d)
  <2>1. c \in Builder
    BY <1>1, <1>3 DEF Builder
  <2>2. c.pos = b.pos /\ c.size = b.size /\ c.depth = d
    BY <1>1, <1>3 DEF Builder
  <2> QED BY <1>1, <2>1, <2>2 DEF Inside
<1>4. b.depth + 1 = d + 1 /\ b.depth - 1 = d - 1 /\ d + 1 \in Int /\ d - 1 \in Int
  BY <1>1
<1> QED BY <1>2, <1>3, <1>4, Zenon

(* Every call of the interface stays inside and keeps the depth, but for   *)
(* those that open or close.                                               *)
LEMMA InsideCalls ==
  ASSUME NEW b, NEW d \in Int, Inside(b, d)
  PROVE  /\ Inside(json_object_start(b), d + 1) /\ Inside(json_array_start(b), d + 1)
         /\ Inside(json_object_end(b), d - 1) /\ Inside(json_array_end(b), d - 1)
         /\ Inside(json_key(b), d) /\ Inside(json_string(b), d) /\ Inside(json_literal(b), d)
         /\ Inside(json_kv(b), d) /\ Inside(json_kv_string(b), d)
<1>1. Tokens = {"{", "}", "[", "]", ",", "key quote", "key text", "key colon",
                "quote", "text", "unquote", "literal"}
  BY DEF Tokens, Punctuation
<1>2. ASSUME NEW x, Inside(x, d) PROVE Inside(json_comma_if_needed(x), d)
  <2>1. Inside(json_write(x, ","), d)
    BY <1>1, <1>2, InsideWrite
  <2>2. CASE x.comma
    BY <2>1, <2>2, InsideSet DEF json_comma_if_needed
  <2>3. CASE ~x.comma
    BY <1>2, <2>3, InsideSet DEF json_comma_if_needed
  <2> QED BY <2>2, <2>3
<1>3. ASSUME NEW x, Inside(x, d), NEW t1 \in Tokens, NEW t2 \in Tokens, NEW t3 \in Tokens
      PROVE  Inside(WriteAll(x, <<t1, t2, t3>>), d)
  <2>1. Inside(json_write(x, t1), d)
    BY <1>3, InsideWrite
  <2>2. Inside(json_write(json_write(x, t1), t2), d)
    BY <2>1, InsideWrite
  <2>3. Inside(json_write(json_write(json_write(x, t1), t2), t3), d)
    BY <2>2, InsideWrite
  <2> QED BY <2>3, WriteThree
<1>4. ASSUME NEW x, Inside(x, d) PROVE Inside(json_key(x), d)
  BY <1>1, <1>2, <1>3, <1>4, ZenonT(30) DEF json_key
<1>5. ASSUME NEW x, Inside(x, d) PROVE Inside(json_string(x), d)
  <2>1. Inside(WriteAll(json_comma_if_needed(x), <<"quote", "text", "unquote">>), d)
    BY <1>1, <1>2, <1>3, <1>5, ZenonT(30)
  <2> QED BY <2>1, InsideSet DEF json_string
<1>6. ASSUME NEW x, Inside(x, d) PROVE Inside(json_literal(x), d)
  <2>1. Inside(json_write(json_comma_if_needed(x), "literal"), d)
    BY <1>1, <1>2, <1>6, InsideWrite
  <2> QED BY <2>1, InsideSet DEF json_literal
<1>7. ASSUME NEW t \in Tokens PROVE Inside(JsonStart(b, t), d + 1)
  <2>1. Inside(json_write(json_comma_if_needed(b), t), d)
    BY <1>2, <1>7, InsideWrite
  <2> QED BY <2>1, InsideSet DEF JsonStart
<1>8. Inside(json_object_start(b), d + 1) /\ Inside(json_array_start(b), d + 1)
  BY <1>1, <1>7 DEF json_object_start, json_array_start
<1>9. Inside(json_object_end(b), d - 1) /\ Inside(json_array_end(b), d - 1)
  <2>1. Inside(json_write(b, "}"), d) /\ Inside(json_write(b, "]"), d)
    BY <1>1, InsideWrite
  <2> QED BY <2>1, InsideSet DEF json_object_end, json_array_end
<1>10. Inside([json_key(b) EXCEPT !.comma = FALSE], d)
  BY <1>4, InsideSet
<1>11. Inside(json_kv(b), d) /\ Inside(json_kv_string(b), d)
  BY <1>5, <1>6, <1>10 DEF json_kv, json_kv_string
<1> QED BY <1>4, <1>5, <1>6, <1>8, <1>9, <1>11

(* json: the builder's depth is that of the caller. *)
LEMMA JsonTyped == Spec => []JsonTypeOK
<1> DEFINE Inv == Inside(j, Len(jsonOpen))
<1>1. Init => Inv
  <2> SUFFICES ASSUME JsonInit PROVE Inv
    BY Zenon DEF Init
  <2>1. j \in Builder
    <3>1. << >> \in Text /\ JsonSize \in Nat
      BY JsonAssumption DEF Text
    <3> QED BY <3>1 DEF JsonInit, json_init, Builder
  <2>2. j.pos = 0 /\ j.size = JsonSize /\ j.depth = 0 /\ jsonOpen = << >>
    BY DEF JsonInit, json_init
  <2> QED BY <2>1, <2>2, JsonAssumption DEF Inside
<1>2. WriterInv /\ Inv /\ [Next]_vars => Inv'
  <2> SUFFICES ASSUME WriterInv, Inv, JsonNext \/ UNCHANGED jsonVars PROVE Inv'
    BY PartSteps
  <2> DEFINE d == Len(jsonOpen)
  <2>1. d \in Int /\ jsonOpen \in Nesting
    BY DEF WriterInv, Nesting
  <2>2. ASSUME NEW kind \in {"obj", "arr"}, Opens(kind) PROVE Len(jsonOpen') = d + 1
    BY <2>1, <2>2 DEF Opens, Nesting
  <2>3. ASSUME jsonOpen # << >>, Closes PROVE Len(jsonOpen') = d - 1
    <3>1. PICK s \in Nesting : s = jsonOpen
      BY <2>1
    <3>2. jsonOpen' = SubSeq(s, 1, Len(s) - 1) /\ s # << >>
      BY <2>3, <3>1 DEF Closes, Front
    <3>3. PICK n \in Nat : n = Len(s) - 1
      BY <3>2 DEF Nesting
    <3>4. Len(SubSeq(s, 1, n)) = n
      OBVIOUS
    <3> QED BY <3>1, <3>2, <3>3, <3>4
  <2>4. CASE UNCHANGED jsonVars \/ JsonDone
    BY <2>4 DEF jsonVars, JsonDone
  <2>5. CASE ObjectStart \/ ArrayStart
    BY <2>1, <2>2, <2>5, InsideCalls DEF ObjectStart, ArrayStart, JsonCall
  <2>6. CASE ObjectEnd \/ ArrayEnd
    BY <2>1, <2>3, <2>6, InsideCalls DEF ObjectEnd, ArrayEnd, InObject, InArray, JsonCall
  <2>7. CASE JsonKey \/ JsonValue \/ KeyValue
    BY <2>1, <2>7, InsideCalls DEF JsonKey, JsonValue, KeyValue, JsonCall
  <2> QED BY <2>4, <2>5, <2>6, <2>7 DEF JsonNext
<1>3. WriterInv /\ Inv => JsonTypeOK
  <2> SUFFICES ASSUME WriterInv, Inv PROVE JsonTypeOK
    OBVIOUS
  <2>1. /\ j \in Builder /\ ideal \in Builder /\ ideal.depth = Len(jsonOpen)
        /\ j.depth = Len(jsonOpen) /\ j.pos < j.size
        /\ RoomLeft(jsonCalls) \in Nat /\ ideal.pos + RoomLeft(jsonCalls) < ideal.size
    BY DEF WriterInv, JsonInv, Paired, Inside
  <2>2. /\ j.pos \in Nat /\ j.size \in Nat /\ ideal.pos \in Nat /\ ideal.size \in Nat
        /\ j.text \in Text /\ ideal.text \in Text
        /\ j.comma \in BOOLEAN /\ j.error \in BOOLEAN
        /\ ideal.comma \in BOOLEAN /\ ideal.error \in BOOLEAN
    BY <2>1 DEF Builder
  <2>3. j.pos \in 0 .. j.size - 1 /\ ideal.pos \in 0 .. ideal.size - 1
    BY <2>1, <2>2
  <2> QED BY <2>1, <2>2, <2>3 DEF WriterInv, JsonInv, Nesting, Text, JsonTypeOK
<1> QED BY <1>1, <1>2, <1>3, WriterAlways, PTL DEF Spec

(* commands: a search ends in the text, or nowhere. *)
LEMMA FindKeyWithin ==
  ASSUME NEW text, Len(text) \in Nat, NEW from \in Nat, NEW key
  PROVE  FindKey(text, from, key) \in 0 .. Len(text)
<1> DEFINE at == {i \in from .. Len(text) : text[i].key = key}
<1>1. CASE from = 0 \/ at = {}
  BY <1>1 DEF FindKey
<1>2. CASE ~(from = 0 \/ at = {})
  <2>1. FindKey(text, from, key) = Min(at)
    BY <1>2 DEF FindKey
  <2>2. at \in SUBSET (0 .. Len(text)) /\ at \in SUBSET Nat /\ at # {}
    BY <1>2
  <2> HIDE DEF at
  <2>3. Min(at) \in at
    BY <2>2, MinIsLeast
  <2> QED BY <2>1, <2>2, <2>3
<1> QED BY <1>1, <1>2

(* The searches along a path. *)
LEMMA DescendInSteps ==
  ASSUME NEW text, NEW S, NEW s \in Seq(S)
  PROVE  \E g : InSteps(g, "seek", text, 1, s, Len(s)) /\ Descend(text, s) = g[Len(s)]
<1> DEFINE n == Len(s)
           Reads(f) ==
             f = [T \in SUBSET (1 .. n) |->
                    IF T = {} THEN 1 ELSE FindKey(text, f[T \ {Max(T)}], s[Max(T)])]
           f == CHOOSE f : Reads(f)
<1>1. n \in Nat /\ DOMAIN s = 1 .. n
  OBVIOUS
<1>2. \A h : IsFold(h, "seek", text, 1, s, n) <=> Reads(h)
  BY DEF IsFold, Step
<1>3. Reads(f)
  BY <1>1, <1>2, FoldExists
<1>4. Descend(text, s) = f[1 .. n]
  BY <1>1 DEF Descend, FoldLeft, MapThenFoldSet
<1> HIDE DEF f, Reads
<1>5. IsFold(f, "seek", text, 1, s, n)
  BY <1>2, <1>3
<1>6. \E g : InSteps(g, "seek", text, 1, s, n) /\ f[1 .. n] = g[n]
  BY <1>1, <1>5, FoldSteps
<1> QED BY <1>4, <1>6

(* So does a search along a path. *)
LEMMA DescendWithin ==
  ASSUME NEW text, Len(text) \in Nat, NEW S, NEW s \in Seq(S), s # << >>
  PROVE  Descend(text, s) \in 0 .. Len(text)
<1>1. PICK g : InSteps(g, "seek", text, 1, s, Len(s)) /\ Descend(text, s) = g[Len(s)]
  BY DescendInSteps
<1>2. Len(s) \in Nat /\ Len(s) # 0
  OBVIOUS
<1>3. \A k \in 1 .. Len(s) : g[k] = FindKey(text, g[k - 1], s[k])
  BY <1>1 DEF InSteps, Step
<1> DEFINE B == {k \in 1 .. Len(s) : g[k] \notin 0 .. Len(text)}
<1>4. B = {}
  <2> SUFFICES ASSUME B # {} PROVE FALSE
    OBVIOUS
  <2>1. PICK k \in B : \A x \in B : k =< x
    <3>1. B \in SUBSET Nat
      OBVIOUS
    <3> HIDE DEF B
    <3> QED BY <3>1, NatMinimum
  <2>2. g[k - 1] \in Nat
    <3>1. CASE k = 1
      BY <1>1, <3>1 DEF InSteps
    <3>2. CASE k # 1
      <4>1. k - 1 \in 1 .. Len(s) /\ ~(k =< k - 1)
        BY <1>2, <3>2
      <4>2. k - 1 \notin B
        BY <2>1, <4>1
      <4> QED BY <4>1, <4>2
    <3> QED BY <3>1, <3>2
  <2>3. FindKey(text, g[k - 1], s[k]) \in 0 .. Len(text)
    BY <2>2, FindKeyWithin
  <2> QED BY <1>3, <2>3
<1>5. Len(s) \in 1 .. Len(s)
  BY <1>2
<1> QED BY <1>1, <1>4, <1>5

(* A table that can be searched for. *)
Pathed(t) == (\E S : t.path \in Seq(S)) /\ t.path # << >> /\ t.limit \in Nat
AllPathed(ts) == ts \in Seq(ToSet(ts)) /\ \A k \in 1 .. Len(ts) : Pathed(ts[k])

(* Its rows start in the text. *)
LEMMA StartsWithin ==
  ASSUME NEW text, Len(text) \in Nat, NEW t, Pathed(t)
  PROVE  Starts(text, t) \in Seq(1 .. Len(text))
<1> DEFINE from == Descend(text, t.path)
<1>1. from \in 0 .. Len(text)
  BY DescendWithin DEF Pathed
<1> HIDE DEF from
<1>2. CASE t.first = "none"
  <2>1. Starts(text, t) = IF from = 0 THEN << >> ELSE <<from>>
    BY <1>2 DEF Starts, from
  <2>2. PICK T : T = 1 .. Len(text)
    OBVIOUS
  <2>3. << >> \in Seq(T) /\ (from # 0 => <<from>> \in Seq(T))
    BY <1>1, <2>2
  <2> QED BY <2>1, <2>2, <2>3
<1>3. CASE t.first # "none"
  <2> DEFINE S == {i \in from + 1 .. Len(text) : text[i].opens /\ text[i].key = t.first}
             all == Ascending(S)
             m == UpTo(t.limit, Len(all))
  <2>1. Starts(text, t) = IF from = 0 THEN << >> ELSE SubSeq(all, 1, m)
    BY <1>3 DEF Starts, RowStarts, from
  <2>2. S \in SUBSET Nat /\ S \subseteq 1 .. Len(text)
    BY <1>1
  <2>3. IsFiniteSet(S)
    <3> HIDE DEF S
    <3>1. IsFiniteSet(1 .. Len(text))
      BY FS_Interval
    <3> QED BY <2>2, <3>1, FS_Subset
  <2> HIDE DEF S
  <2>4. all = [k \in 1 .. Cardinality(S) |-> CHOOSE i \in S : Cardinality(Below(S, i)) = k - 1]
    BY DEF Ascending, Below
  <2> HIDE DEF all
  <2>5. Cardinality(S) \in Nat /\ \A k \in 1 .. Cardinality(S) : all[k] \in S
    BY <2>2, <2>3, <2>4, BelowAll
  <2>6. all \in [1 .. Cardinality(S) -> 1 .. Len(text)]
    BY <2>2, <2>4, <2>5
  <2>7. all \in Seq(1 .. Len(text)) /\ Len(all) \in Nat
    BY <2>5, <2>6
  <2>8. m \in Nat /\ m =< Len(all)
    <3>1. t.limit \in Nat
      BY DEF Pathed
    <3>2. PICK x \in Nat, y \in Nat : x = t.limit /\ y = Len(all)
      BY <2>7, <3>1
    <3>3. m = IF x = NoLimit \/ y < x THEN y ELSE x
      BY <3>2, MinOfTwo DEF UpTo
    <3> QED BY <3>2, <3>3
  <2> HIDE DEF m
  <2>9. SubSeq(all, 1, m) \in Seq(1 .. Len(text))
    BY <2>7, <2>8
  <2>10. << >> \in Seq(1 .. Len(text))
    <3>1. PICK T : T = 1 .. Len(text)
      OBVIOUS
    <3> QED BY <3>1
  <2> QED BY <2>1, <2>9, <2>10
<1> QED BY <1>2, <1>3

(* What is shown of a table. *)
LEMMA ShownWithin ==
  ASSUME NEW text, Len(text) \in Nat, NEW t, Pathed(t), NEW r \in ToSet(Show(text, t))
  PROVE  r.at \in 1 .. Len(text)
<1> DEFINE s == Starts(text, t)
<1>1. s \in Seq(1 .. Len(text))
  BY StartsWithin
<1> HIDE DEF s
<1>2. Show(text, t) = [k \in 1 .. Len(s) |-> Row(text, s[k], t.fields)]
  BY DEF Show, s
<1>3. PICK k \in 1 .. Len(s) : r = Row(text, s[k], t.fields)
  BY <1>2 DEF ToSet
<1>4. r.at = s[k]
  BY <1>3 DEF Row
<1> QED BY <1>1, <1>3, <1>4

(* Tables are put together like those of a command. *)
LEMMA AllPathedIs ==
  /\ \A a : Pathed(a) => AllPathed(<<a>>)
  /\ \A a, b : Pathed(a) /\ Pathed(b) => AllPathed(<<a, b>>)
  /\ \A a, b, c : Pathed(a) /\ Pathed(b) /\ Pathed(c) => AllPathed(<<a, b, c>>)
  /\ \A a, b, c, d : Pathed(a) /\ Pathed(b) /\ Pathed(c) /\ Pathed(d) =>
                       AllPathed(<<a, b, c, d>>)
<1>1. ASSUME NEW a, Pathed(a) PROVE AllPathed(<<a>>)
  BY <1>1 DEF AllPathed, ToSet
<1>2. ASSUME NEW a, NEW b, Pathed(a), Pathed(b) PROVE AllPathed(<<a, b>>)
  BY <1>2 DEF AllPathed, ToSet
<1>3. ASSUME NEW a, NEW b, NEW c, Pathed(a), Pathed(b), Pathed(c) PROVE AllPathed(<<a, b, c>>)
  BY <1>3 DEF AllPathed, ToSet
<1>4. ASSUME NEW a, NEW b, NEW c, NEW d, Pathed(a), Pathed(b), Pathed(c), Pathed(d)
      PROVE  AllPathed(<<a, b, c, d>>)
  BY <1>4 DEF AllPathed, ToSet
<1> QED BY <1>1, <1>2, <1>3, <1>4

(* The halves of status. *)
LEMMA FivePathed ==
  ASSUME NEW a, NEW b, NEW c, NEW d, NEW e,
         Pathed(a), Pathed(b), Pathed(c), Pathed(d), Pathed(e)
  PROVE  AllPathed(<<a, b, c, d, e>>)
BY DEF AllPathed, ToSet

(* The two of them together. *)
LEMMA PathedJoined ==
  ASSUME NEW s, NEW t, AllPathed(s), AllPathed(t)
  PROVE  AllPathed(s \o t)
<1>1. PICK T : T = ToSet(s) \cup ToSet(t)
  OBVIOUS
<1>2. s \in Seq(T) /\ t \in Seq(T)
  BY <1>1 DEF AllPathed
<1>3. PICK u : u = s \o t
  OBVIOUS
<1>4. /\ u \in Seq(T) /\ Len(u) = Len(s) + Len(t) /\ Len(s) \in Nat /\ Len(t) \in Nat
      /\ \A q \in 1 .. Len(s) : u[q] = s[q]
      /\ \A m \in 1 .. Len(t) : u[Len(s) + m] = t[m]
  BY <1>2, <1>3, Joined
<1>5. u \in Seq(ToSet(u))
  BY <1>4 DEF ToSet
<1>6. ASSUME NEW k \in 1 .. Len(u) PROVE Pathed(u[k])
  <2>1. CASE k =< Len(s)
    <3>1. k \in 1 .. Len(s)
      BY <1>4, <2>1
    <3> QED BY <1>4, <3>1 DEF AllPathed
  <2>2. CASE ~ (k =< Len(s))
    <3>1. k - Len(s) \in 1 .. Len(t) /\ Len(s) + (k - Len(s)) = k
      BY <1>4, <2>2
    <3>2. PICK m \in 1 .. Len(t) : Len(s) + m = k
      BY <3>1
    <3> QED BY <1>4, <3>2 DEF AllPathed
  <2> QED BY <2>1, <2>2
<1>7. AllPathed(u)
  BY <1>5, <1>6 DEF AllPathed
<1> QED BY <1>3, <1>7

(* All tables of all commands can be searched for. *)
LEMMA TablesPathed ==
  /\ DOMAIN Tables = {"status", "top", "slab", "sockets", "memleak", "fdmon", "services"}
  /\ \A c \in DOMAIN Tables : AllPathed(Tables[c])
<1>1. ASSUME NEW S, NEW path \in Seq(S), path # << >>, NEW first, NEW fields, NEW limit \in Nat
      PROVE  Pathed(Table(path, first, fields, limit)) /\ Pathed(Figures(path, fields))
  <2>1. Pathed(Table(path, first, fields, limit))
    BY <1>1 DEF Pathed, Table
  <2>2. Pathed(Table(path, "none", fields, 1))
    BY <1>1 DEF Pathed, Table
  <2> QED BY <2>1, <2>2 DEF Figures
<1>2. ASSUME NEW a, NEW b, NEW c, NEW first, NEW fields, NEW limit \in Nat
      PROVE  /\ Pathed(Table(<<a, b>>, first, fields, limit))
             /\ Pathed(Figures(<<a>>, fields)) /\ Pathed(Figures(<<a, b>>, fields))
             /\ Pathed(Figures(<<a, b, c>>, fields))
  <2>1. PICK T : T = {a, b, c}
    OBVIOUS
  <2>2. /\ <<a>> \in Seq(T) /\ <<a>> # << >>
        /\ <<a, b>> \in Seq(T) /\ <<a, b>> # << >>
        /\ <<a, b, c>> \in Seq(T) /\ <<a, b, c>> # << >>
    BY <2>1
  <2> QED BY <1>1, <2>2
<1>3. NoLimit \in Nat /\ 1 \in Nat /\ 5 \in Nat /\ 10 \in Nat /\ 15 \in Nat
  BY DEF NoLimit
<1>4. AllPathed(MachineTables)
  BY <1>2, <1>3, FivePathed DEF MachineTables
<1>5. AllPathed(ActivityTables)
  BY <1>2, <1>3, FivePathed DEF ActivityTables
<1>6. AllPathed(TopTables) /\ AllPathed(SlabTables) /\ AllPathed(SocketsTables)
  BY <1>2, <1>3, AllPathedIs DEF TopTables, SlabTables, SocketsTables
<1>7. AllPathed(MemleakTables)
  BY <1>2, <1>3, AllPathedIs DEF MemleakTables, LeakWarning
<1>8. AllPathed(FdmonTables)
  BY <1>2, <1>3, AllPathedIs DEF FdmonTables
<1>9. AllPathed(ServicesTables)
  <2>1. ASSUME NEW k \in 1 .. 10 PROVE Pathed(ServicesTables[k])
    <3>1. PICK a : ServicesTables[k] = Figures(<<a>>, {})
      BY DEF ServicesTables
    <3> QED BY <1>2, <3>1
  <2>2. ServicesTables \in [1 .. 10 -> ToSet(ServicesTables)]
    BY DEF ServicesTables, ToSet
  <2>3. ServicesTables \in Seq(ToSet(ServicesTables)) /\ Len(ServicesTables) = 10
    <3>1. PICK n \in Nat : n = 10
      OBVIOUS
    <3>2. PICK T, ts : T = ToSet(ServicesTables) /\ ts = ServicesTables
      OBVIOUS
    <3>3. ts \in [1 .. n -> T]
      BY <2>2, <3>1, <3>2
    <3>4. ts \in Seq(T) /\ Len(ts) = n
      BY <3>3
    <3> QED BY <3>1, <3>2, <3>4
  <2> QED BY <2>1, <2>3 DEF AllPathed
<1>10. PICK st : st = MachineTables \o ActivityTables
  OBVIOUS
<1>11. AllPathed(st)
  BY <1>4, <1>5, <1>10, PathedJoined
<1>12. Tables = [status |-> st, top |-> TopTables, slab |-> SlabTables,
                 sockets |-> SocketsTables, memleak |-> MemleakTables,
                 fdmon |-> FdmonTables, services |-> ServicesTables]
  BY <1>10, Zenon DEF Tables
<1>13. DOMAIN Tables = {"status", "top", "slab", "sockets", "memleak", "fdmon", "services"}
  BY <1>12
<1>14. /\ Tables["status"] = st /\ Tables["top"] = TopTables /\ Tables["slab"] = SlabTables
       /\ Tables["sockets"] = SocketsTables /\ Tables["memleak"] = MemleakTables
       /\ Tables["fdmon"] = FdmonTables /\ Tables["services"] = ServicesTables
  BY <1>12
<1> QED BY <1>6, <1>7, <1>8, <1>9, <1>11, <1>13, <1>14

(* What is on the screen was found in the text that was received. *)
LEMMA CmdTyped == Spec => []CmdTypeOK
<1> DEFINE Inv ==
             /\ cmd \in DOMAIN Tables \cup {"none"} /\ watching \in {"no", "all", "target"}
             /\ screen # << >> =>
                  /\ cmd \in DOMAIN Tables
                  /\ Len(reply) \in Nat /\ DOMAIN reply = 1 .. Len(reply)
                  /\ screen = [k \in DOMAIN Tables[cmd] |-> Show(reply, Tables[cmd][k])]
<1>0. "none" \notin DOMAIN Tables /\ {"status", "top"} \subseteq DOMAIN Tables
  BY TablesPathed
<1>1. Init => Inv
  <2> SUFFICES ASSUME CmdInit PROVE Inv
    BY Zenon DEF Init
  <2> QED BY DEF CmdInit
<1>2. Inv /\ [Next]_vars => Inv'
  <2> SUFFICES ASSUME Inv, CmdNext \/ UNCHANGED cmdVars PROVE Inv'
    BY PartSteps
  <2>1. CASE UNCHANGED cmdVars
    BY <2>1 DEF cmdVars
  <2>2. ASSUME NEW c \in DOMAIN Tables, NEW w \in {"no", "all", "target"}, CmdStart(c, w)
        PROVE  Inv'
    <3>1. cmd' = c /\ watching' = w /\ screen' = screen /\ cmd = "none"
      BY <2>2 DEF CmdStart
    <3>2. screen = << >>
      BY <1>0, <3>1
    <3> QED BY <3>1, <3>2
  <2>3. ASSUME NEW text \in Snapshots, NEW end \in 0 .. Len(text), CmdShow(text, end)
        PROVE  Inv'
    <3>1. /\ cmd \in DOMAIN Tables /\ cmd' = cmd /\ watching' = watching
          /\ reply' = SubSeq(text, 1, end)
          /\ screen' = [k \in DOMAIN Tables[cmd] |-> Show(reply', Tables[cmd][k])]
      BY <2>3 DEF CmdShow
    <3>2. Len(SubSeq(text, 1, end)) = end /\ DOMAIN SubSeq(text, 1, end) = 1 .. end
          /\ end \in Nat
      OBVIOUS
    <3> QED BY <3>1, <3>2
  <2>4. ASSUME CmdNoReply \/ CmdReturn PROVE Inv'
    <3>1. cmd' = Following /\ watching' = watching /\ screen' = << >>
      BY <2>4 DEF CmdNoReply, CmdReturn
    <3>2. Following \in DOMAIN Tables \cup {"none"}
      BY <1>0 DEF Following
    <3> QED BY <3>1, <3>2
  <2> QED BY <2>1, <2>2, <2>3, <2>4 DEF CmdNext
<1>3. Inv => CmdTypeOK
  <2> SUFFICES ASSUME Inv PROVE CmdTypeOK
    OBVIOUS
  <2>1. CASE screen = << >>
    <3>1. Len(screen) = 0 /\ DOMAIN screen = {}
      BY <2>1
    <3> QED BY <3>1 DEF CmdTypeOK
  <2>2. CASE screen # << >>
    <3>1. PICK ts : ts = Tables[cmd]
      OBVIOUS
    <3>2. AllPathed(ts) /\ cmd \in DOMAIN Tables
      BY <2>2, <3>1, TablesPathed
    <3>3. PICK n \in Nat : n = Len(ts) /\ DOMAIN ts = 1 .. n
      BY <3>2 DEF AllPathed
    <3>4. screen = [k \in 1 .. n |-> Show(reply, ts[k])]
      BY <2>2, <3>1, <3>3
    <3>5. Len(screen) = n
      BY <3>4
    <3>6. Len(screen) \in {Len(Tables[c]) : c \in DOMAIN Tables}
      BY <3>1, <3>2, <3>3, <3>5
    <3>7. ASSUME NEW k \in DOMAIN screen, NEW r \in ToSet(screen[k])
          PROVE  r.at \in DOMAIN reply
      <4>1. k \in 1 .. n /\ screen[k] = Show(reply, ts[k])
        BY <3>4, <3>7
      <4>2. Pathed(ts[k])
        BY <3>2, <3>3, <4>1 DEF AllPathed
      <4>3. r.at \in 1 .. Len(reply)
        BY <2>2, <3>7, <4>1, <4>2, ShownWithin
      <4> QED BY <2>2, <4>3
    <3> QED BY <3>6, <3>7 DEF CmdTypeOK
  <2> QED BY <2>1, <2>2
<1> QED BY <1>1, <1>2, <1>3, PTL DEF Spec

(* The ring buffer works on its own, too: a behaviour of all parts is one  *)
(* of its own.  So what RingBufferProofs shows of it holds here.           *)
THEOREM RingAlone == Spec => RingSpec
<1>1. Init => RingInit
  BY Zenon DEF Init
<1>2. [Next]_vars => [RingNext]_ringVars
  BY PartSteps
<1> QED BY <1>1, <1>2, PTL DEF Spec, RingSpec

(* Every variable of every part keeps its type.  Most of this is about     *)
(* bounds: no service writes behind the end of one of its arrays, the JSON *)
(* builder stays inside its buffer with the caller's depth, and commands   *)
(* show only what is in the reply, for any sizes and limits.               *)
THEOREM TypeCorrect == Spec => []TypeOK
<1> DEFINE Inv == active \in Parts
<1>1. Spec => []Inv
  <2>1. Init => Inv
    BY Zenon DEF Init
  <2>2. Inv /\ [Next]_vars => Inv'
    BY Zenon DEF Next, vars
  <2> QED BY <2>1, <2>2, PTL DEF Spec
<1>2. /\ Inv /\ RingTypeOK /\ ConfigTypeOK /\ JsonTypeOK /\ FdTypeOK /\ HeapTypeOK /\ NetTypeOK
      /\ SlabTypeOK /\ CpuTypeOK /\ MemTypeOK /\ SockTypeOK /\ StatTypeOK /\ EvTypeOK
      /\ LeakTypeOK /\ CmdTypeOK
      => TypeOK
  BY Zenon DEF TypeOK
<1> QED
  BY <1>1, <1>2, RingAlone, RingTypeCorrect, ConfigTyped, JsonTyped, FdTyped, HeapTyped, NetTyped, SlabTyped,
     CpuTyped, MemTyped, SockTyped, StatTyped, EvTypedAlways, LeakTyped, CmdTyped, PTL

-----------------------------------------------------------------------------
(* The commands work on their own, too: a behaviour of all parts is one of *)
(* theirs.  So what ClientProofs shows of them holds here.                 *)
THEOREM CommandsAlone == Spec => CmdInit /\ [][CmdNext]_cmdVars
<1>1. Init => CmdInit
  BY Zenon DEF Init
<1>2. [Next]_vars => [CmdNext]_cmdVars
  BY PartSteps
<1> QED BY <1>1, <1>2, PTL DEF Spec
=============================================================================
