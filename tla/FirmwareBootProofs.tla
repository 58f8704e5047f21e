------------------------- MODULE FirmwareBootProofs -------------------------
(***************************************************************************)
(* The start of the firmware, for any firmwares, numbers of arguments and  *)
(* sizes of memory and caches: what comes before what, the memory of the   *)
(* arguments, and that the code of every loaded module is fetched.         *)
(*                                                                         *)
(* The caches come first: that code which was synchronised is fetched, and *)
(* that the caches start right, for lines, windows, caches and log buffers *)
(* of any size.  These lemmas are about the actions of CodeCaches, so that *)
(* the module that has more actions can use them.                          *)
(***************************************************************************)
EXTENDS FirmwareBoot, TLAPS

USE DEF Range

-----------------------------------------------------------------------------
(***************************************************************************)
(* Lines.                                                                  *)
(***************************************************************************)

LEMMA Divided == ASSUME NEW x \in Nat
                 PROVE  /\ x \div LineBytes \in Nat
                        /\ x % LineBytes \in 0 .. LineBytes - 1
                        /\ x = LineBytes * (x \div LineBytes) + (x % LineBytes)
BY LinesAssumption, SMTT(30)

LEMMA Multiple == ASSUME NEW q \in Nat PROVE (LineBytes * q) % LineBytes = 0
BY LinesAssumption, SMTT(30)

\* A line begins at FirstLine, not behind the address.
LEMMA FirstLineFacts == ASSUME NEW x \in Nat
                        PROVE  /\ FirstLine(x) \in Nat /\ FirstLine(x) <= x
                               /\ FirstLine(x) % LineBytes = 0
<1>1. x - (x % LineBytes) = LineBytes * (x \div LineBytes)
  BY Divided, LinesAssumption
<1>2. (x - (x % LineBytes)) % LineBytes = 0
  BY <1>1, Multiple, Divided
<1>. QED
  BY <1>2, Divided, LinesAssumption DEF FirstLine

LEMMA NextLine == ASSUME NEW x \in Nat, x % LineBytes = 0
                  PROVE  (x + LineBytes) % LineBytes = 0
<1>1. x = LineBytes * (x \div LineBytes) /\ x \div LineBytes \in Nat
  BY Divided, LinesAssumption
<1>2. x + LineBytes = LineBytes * (x \div LineBytes + 1)
  BY <1>1, LinesAssumption, SMTT(30)
<1>. QED
  BY <1>1, <1>2, Multiple

\* Between a multiple and the next one lies only what it divides into.
LEMMA SameQuotient ==
    ASSUME NEW p \in Nat, NEW q \in Nat, NEW r \in 0 .. LineBytes - 1,
           LineBytes * p <= LineBytes * q + r,
           LineBytes * q + r < LineBytes * p + LineBytes
    PROVE  q = p
<1>1. ~(q < p)
  <2>. SUFFICES ASSUME q + 1 <= p PROVE FALSE
    OBVIOUS
  <2>. DEFINE d == p - q - 1
  <2>1. d \in Nat /\ p = q + 1 + d
    OBVIOUS
  <2>2. LineBytes * p = LineBytes * q + LineBytes + LineBytes * d
    BY <2>1, LinesAssumption, SMTT(30)
  <2>3. LineBytes * d \in Nat /\ LineBytes * q \in Nat
    BY <2>1, LinesAssumption
  <2>. QED
    BY <2>2, <2>3, LinesAssumption
<1>2. ~(p < q)
  <2>. SUFFICES ASSUME p + 1 <= q PROVE FALSE
    OBVIOUS
  <2>. DEFINE d == q - p - 1
  <2>1. d \in Nat /\ q = p + 1 + d
    OBVIOUS
  <2>2. LineBytes * q = LineBytes * p + LineBytes + LineBytes * d
    BY <2>1, LinesAssumption, SMTT(30)
  <2>3. LineBytes * d \in Nat /\ LineBytes * p \in Nat
    BY <2>1, LinesAssumption
  <2>. QED
    BY <2>2, <2>3, LinesAssumption
<1>. QED
  BY <1>1, <1>2

\* DCCMVAU cleans everything from the beginning of a line to that of the next.
LEMMA LineFrom == ASSUME NEW x \in Nat, x % LineBytes = 0, NEW a \in Addresses,
                         x <= a, a < x + LineBytes
                  PROVE  a \in Line(x)
<1>1. x = LineBytes * (x \div LineBytes) /\ x \div LineBytes \in Nat
  BY Divided, LinesAssumption
<1>2. a = LineBytes * (a \div LineBytes) + (a % LineBytes)
      /\ a \div LineBytes \in Nat /\ a % LineBytes \in 0 .. LineBytes - 1
  BY Divided, LinesAssumption DEF Addresses
<1>. DEFINE p == x \div LineBytes
           q == a \div LineBytes
           r == a % LineBytes
<1>3. /\ p \in Nat /\ q \in Nat /\ r \in 0 .. LineBytes - 1
      /\ LineBytes * p <= LineBytes * q + r
      /\ LineBytes * q + r < LineBytes * p + LineBytes
  BY <1>1, <1>2
<1>. HIDE DEF p, q, r
<1>4. q = p
  BY <1>3, SameQuotient
<1>. QED
  BY <1>4 DEF Line, p, q

\* Rounded up, the lines of n bytes hold n bytes.
LEMMA RoundedUp == ASSUME NEW n \in Nat
                   PROVE  /\ (n + LineBytes - 1) \div LineBytes \in Nat
                          /\ ((n + LineBytes - 1) \div LineBytes) * LineBytes >= n
<1>1. n + LineBytes - 1 \in Nat
  BY LinesAssumption
<1>2. /\ (n + LineBytes - 1) \div LineBytes \in Nat
      /\ n + LineBytes - 1 = LineBytes * ((n + LineBytes - 1) \div LineBytes)
                             + ((n + LineBytes - 1) % LineBytes)
      /\ (n + LineBytes - 1) % LineBytes \in 0 .. LineBytes - 1
  BY <1>1, Divided
<1>. QED
  BY <1>2, LinesAssumption, SMTT(30)

-----------------------------------------------------------------------------
(***************************************************************************)
(* The invariant.                                                          *)
(***************************************************************************)

\* A cache that is off holds nothing; one that is on may differ from the
\* memory where that is cached.
CachesHold ==
    /\ "i" \notin caches => older = {}
    /\ "d" \notin caches => current = Addresses
    /\ Addresses \ Cached \subseteq current
    /\ older \subseteq Cached

\* How far Dmod_SyncCode has come.
SyncInv ==
    /\ code.at + code.size <= Bytes
    /\ sync = "clean" =>
          /\ line % LineBytes = 0 /\ FirstLine(code.at) <= line
          /\ \A a \in Code : a < line => a \in current
    /\ sync \in {"invalidate", "items"} => Code \subseteq current
    /\ sync \in {"writeback", "items"} => line = FirstLine(code.at)

\* What low_level_init_1 has done before a cache is on.
StartInv ==
    /\ port = "lx7" => boot = "main"
    /\ boot # "main" => "d" \notin caches
    /\ port = "m7" /\ (boot = "dcache" \/ "d" \in caches) =>
           uncached = Range(logs.start, logs.size)

CachesInv ==
    /\ CachesTypeOK
    /\ CachesHold /\ SyncInv /\ CodeIsFetched
    /\ StartInv /\ CachesStartRight

LEMMA CodeType == ASSUME CachesTypeOK, SyncInv
                  PROVE  /\ code.at \in Nat /\ code.size \in Nat /\ End \in Nat
                         /\ code.at <= End /\ End <= Bytes
                         /\ Code \subseteq Addresses
                         /\ \A a \in Code : a \in Nat /\ code.at <= a /\ a < End
BY LinesAssumption DEF CachesTypeOK, SyncInv, Code, End, Addresses

LEMMA CachedType == Cached \subseteq Addresses
BY DEF Cached

LEMMA InitCaches == CachesInit => CachesInv
<1>. SUFFICES ASSUME CachesInit PROVE CachesInv
  OBVIOUS
<1>1. CachesTypeOK
  BY LinesAssumption DEF CachesInit, CachesTypeOK, Addresses
<1>2. CachesHold /\ SyncInv /\ CodeIsFetched
  BY LinesAssumption, CachedType
     DEF CachesInit, CachesHold, SyncInv, CodeIsFetched, Code
<1>3. StartInv /\ CachesStartRight
  BY DEF CachesInit, StartInv, CachesStartRight, NoJunkIsServed, DebuggerSeesLogs
<1>. QED
  BY <1>1, <1>2, <1>3 DEF CachesInv

-----------------------------------------------------------------------------
(***************************************************************************)
(* low_level_init_1, and the log.                                          *)
(***************************************************************************)

LEMMA RegionIsTheBuffer ==
    ASSUME CachesTypeOK, FitsRegion(logs.start, logs.size)
    PROVE  Region(logs.start, logs.size) = Range(logs.start, logs.size)
BY LogsAssumption DEF CachesTypeOK, FitsRegion, Region

LEMMA RegionType == ASSUME NEW s \in Int, NEW n \in Int PROVE Range(s, n) \subseteq Int
OBVIOUS

\* Startup and the log leave alone what Dmod_SyncCode works on.
LEMMA StartCaches ==
    CachesInv /\ (enable_icache \/ logs_uncached \/ enable_dcache \/ WriteLog)
        => CachesInv'
<1>. SUFFICES ASSUME CachesInv,
                     enable_icache \/ logs_uncached \/ enable_dcache \/ WriteLog
              PROVE  CachesInv'
  OBVIOUS
<1>. USE DEF CachesInv
<1>0. logs.start \in Int /\ logs.size \in Int
  BY LogsAssumption DEF CachesTypeOK
<1>1. CachesTypeOK' /\ (CachesStartRight /\ StartInv)'
  <2>. USE <1>0 DEF CachesTypeOK, StartInv, CachesStartRight, NoJunkIsServed,
                    DebuggerSeesLogs
  <2>1. CASE enable_icache
    BY <2>1 DEF enable_icache
  <2>2. CASE logs_uncached
    BY <2>2, RegionIsTheBuffer DEF logs_uncached
  <2>3. CASE enable_dcache
    BY <2>3 DEF enable_dcache, DCacheInvalidated
  <2>4. CASE WriteLog
    BY <2>4 DEF WriteLog, cacheBoot
  <2>. QED
    BY <2>1, <2>2, <2>3, <2>4
<1>2. UNCHANGED <<port, current, older, sync, code, line>> /\ caches \subseteq caches'
  BY DEF enable_icache, logs_uncached, enable_dcache, WriteLog, cacheBoot
<1>3. (CachesHold /\ SyncInv /\ CodeIsFetched)'
  BY <1>2 DEF CachesHold, SyncInv, CodeIsFetched, Cached, Code
<1>. QED
  BY <1>1, <1>3

-----------------------------------------------------------------------------
(***************************************************************************)
(* Dmod_SyncCode, and the caches by themselves.                            *)
(***************************************************************************)

\* None of it concerns the start.
LEMMA SyncLeavesStart ==
    CachesInv /\ UNCHANGED <<cacheBoot, unseen>> => (StartInv /\ CachesStartRight)'
BY DEF CachesInv, StartInv, CachesStartRight, NoJunkIsServed, DebuggerSeesLogs,
       cacheBoot

LEMMA StoreCaches == ASSUME NEW p \in Places
                     PROVE  CachesInv /\ StoreCode(p[1], p[2]) => CachesInv'
<1>. SUFFICES ASSUME CachesInv, StoreCode(p[1], p[2]) PROVE CachesInv'
  OBVIOUS
<1>. USE DEF CachesInv, StoreCode
<1>1. /\ p[1] \in Addresses /\ p[2] \in 1 .. Bytes /\ p[1] + p[2] <= Bytes
      /\ Range(p[1], p[2]) \subseteq Addresses
  BY LinesAssumption DEF Places, Addresses
<1>2. CachesTypeOK'
  BY <1>1, CachedType, LinesAssumption DEF CachesTypeOK, cacheBoot
<1>3. CachesHold' /\ SyncInv' /\ CodeIsFetched'
  <2>1. Cached' = Cached
    BY DEF Cached, cacheBoot
  <2>. QED
    BY <1>1, <2>1, CachedType
       DEF CachesHold, SyncInv, CodeIsFetched, CachesTypeOK, cacheBoot
<1>. QED
  BY <1>2, <1>3, SyncLeavesStart

LEMMA SyncCaches == CachesInv /\ Sync => CachesInv'
<1>. SUFFICES ASSUME CachesInv, Sync PROVE CachesInv'
  OBVIOUS
<1>. USE DEF CachesInv
<1>0. /\ UNCHANGED <<cacheBoot, unseen, code>>
      /\ Code' = Code /\ End' = End /\ Cached' = Cached
      /\ caches' = caches /\ code' = code
  BY DEF Sync, SyncCode, CleanLine, InvalidateAll, WritebackAll, InvalidateItems,
         cacheBoot, Code, End, Cached
<1>1. (StartInv /\ CachesStartRight)'
  BY <1>0, SyncLeavesStart
<1>2. /\ code.at \in Nat /\ code.size \in Nat /\ End \in Nat
      /\ code.at <= End /\ End <= Bytes /\ Code \subseteq Addresses
      /\ \A a \in Code : a \in Nat /\ code.at <= a /\ a < End
  BY CodeType
<1>3. FirstLine(code.at) \in Nat /\ FirstLine(code.at) <= code.at
      /\ FirstLine(code.at) % LineBytes = 0
  BY <1>2, FirstLineFacts
<1>. USE <1>0, <1>2, <1>3, LinesAssumption
<1>4. (CachesTypeOK /\ CachesHold /\ SyncInv /\ CodeIsFetched)'
  <2>1. CASE SyncCode
    <3>1. CachesTypeOK' /\ CachesHold'
      BY <2>1 DEF SyncCode, CachesTypeOK, CachesHold, cacheBoot
    <3>2. SyncInv'
      BY <2>1 DEF SyncCode, SyncInv, CachesHold
    <3>3. CodeIsFetched'
      BY <2>1, WindowAssumption
         DEF SyncCode, CodeIsFetched, CachesHold, Cached, CachesTypeOK, cacheBoot
    <3>. QED
      BY <3>1, <3>2, <3>3
  <2>2. CASE CleanLine
    <3>0. line \in Nat
      BY DEF CachesTypeOK
    <3>1. CachesTypeOK' /\ CachesHold'
      <4>1. /\ current \subseteq current' /\ current' \subseteq Addresses
            /\ UNCHANGED older /\ sync' \in {"clean", "invalidate"}
        BY <2>2 DEF CleanLine, CachesTypeOK, Line
      <4>2. line' \in 0 .. Bytes + LineBytes
        BY <2>2, <3>0 DEF CleanLine, CachesTypeOK
      <4>3. CachesTypeOK'
        BY <4>1, <4>2 DEF CachesTypeOK, cacheBoot
      <4>. QED
        BY <4>1, <4>3 DEF CachesHold
    <3>2. CASE line < End
      <4>1. (line + LineBytes) % LineBytes = 0
        BY <2>2, <3>0, NextLine DEF CleanLine, SyncInv
      <4>2. \A a \in Code : a < line + LineBytes => a \in current'
        BY <2>2, <3>0, <3>2, LineFrom DEF CleanLine, SyncInv
      <4>. QED
        BY <2>2, <3>0, <3>1, <3>2, <4>1, <4>2 DEF CleanLine, SyncInv, CodeIsFetched
    <3>3. CASE ~(line < End)
      BY <2>2, <3>0, <3>1, <3>3 DEF CleanLine, SyncInv, CodeIsFetched
    <3>. QED
      BY <3>2, <3>3
  <2>3. CASE InvalidateAll
    BY <2>3 DEF InvalidateAll, CachesTypeOK, CachesHold, SyncInv, CodeIsFetched,
                cacheBoot
  <2>4. CASE WritebackAll
    BY <2>4, CachedType DEF WritebackAll, CachesTypeOK, CachesHold, SyncInv,
                CodeIsFetched, cacheBoot
  <2>5. CASE InvalidateItems
    <3>0. line = FirstLine(code.at) /\ line \in Nat /\ End - line \in Nat
      BY <2>5 DEF InvalidateItems, SyncInv
    <3>1. Items \in Nat /\ Items * LineBytes \in Nat /\ Items * LineBytes >= End - line
      BY <3>0, RoundedUp, SMTT(30) DEF Items
    <3>2. Code \subseteq Range(line, Items * LineBytes)
      <4>. DEFINE covered == Items * LineBytes
      <4>1. covered \in Nat /\ covered >= End - line
        BY <3>1
      <4>. HIDE DEF covered
      <4>2. Code \subseteq Range(line, covered)
        BY <3>0, <4>1
      <4>. QED
        BY <4>2 DEF covered
    <3>3. CachesTypeOK' /\ CachesHold'
      BY <2>5 DEF InvalidateItems, CachesTypeOK, CachesHold, cacheBoot
    <3>4. SyncInv' /\ CodeIsFetched'
      BY <2>5, <3>2 DEF InvalidateItems, SyncInv, CodeIsFetched
    <3>. QED
      BY <3>3, <3>4
  <2>. QED
    BY <2>1, <2>2, <2>3, <2>4, <2>5 DEF Sync
<1>. QED
  BY <1>1, <1>4

LEMMA OwnCaches == CachesInv /\ (Evict \/ Prefetch) => CachesInv'
<1>. SUFFICES ASSUME CachesInv, Evict \/ Prefetch PROVE CachesInv'
  OBVIOUS
<1>. USE DEF CachesInv
<1>0. /\ UNCHANGED <<cacheBoot, unseen, sync, code, line>>
      /\ Code' = Code /\ Cached' = Cached /\ caches' = caches
  BY DEF Evict, Prefetch, cacheBoot, Code, Cached
<1>1. (StartInv /\ CachesStartRight)'
  BY <1>0, SyncLeavesStart
<1>2. /\ current \subseteq current' /\ current' \subseteq Addresses
      /\ older' \subseteq Addresses /\ older' \subseteq older \cup (Addresses \ current)
      /\ "i" \notin caches => older' = older
      /\ "d" \notin caches => current' = current
  BY DEF Evict, Prefetch, CachesTypeOK, Line
<1>3. CachesTypeOK'
  BY <1>0, <1>2 DEF CachesTypeOK, cacheBoot
<1>4. (CachesHold /\ SyncInv /\ CodeIsFetched)'
  BY <1>0, <1>2 DEF CachesHold, SyncInv, CodeIsFetched
<1>. QED
  BY <1>1, <1>3, <1>4

LEMMA StutterCaches == CachesInv /\ UNCHANGED cacheVars => CachesInv'
BY DEF CachesInv, CachesTypeOK, CachesHold, SyncInv, CodeIsFetched, StartInv,
       CachesStartRight, NoJunkIsServed, DebuggerSeesLogs, cacheVars, cacheBoot,
       Cached, Code

LEMMA NextCaches == CachesInv /\ [CachesNext]_cacheVars => CachesInv'
BY StartCaches, StoreCaches, SyncCaches, OwnCaches, StutterCaches DEF CachesNext

\* Whenever Dmod_SyncCode has returned, the code is in the memory and no older
\* byte of it in the instruction cache, for lines and code of any size.
THEOREM CodeIsFetchedAfterSync == CachesSpec => []CodeIsFetched
<1>1. CachesInv => CodeIsFetched
  BY DEF CachesInv
<1>. QED
  BY <1>1, InitCaches, NextCaches, PTL DEF CachesSpec

HIDE DEF Range

-----------------------------------------------------------------------------
(***************************************************************************)
(* The start.                                                              *)
(***************************************************************************)

\* What the steps of FirmwareBoot do to main, the boot thread and the shell.
MainNext ==
    \/ GoesOn \/ Waits \/ LoadReturns(TRUE) \/ LoadReturns(FALSE)
    \/ UnloadCommand \/ JoinWorker

LEMMA StepOfMain == [BootNext]_bootVars => [MainNext]_mainVars
BY DEF BootNext, CachesStep, MainStep, StoreModule, SyncModule, LoadEnds,
       UnloadModule, JoinStep, bootVars, MainNext

-----------------------------------------------------------------------------
(***************************************************************************)
(* Types.                                                                  *)
(***************************************************************************)

LEMMA PartFacts ==
    /\ Part = {"log", "dma", "heap", "env", "irq", "dmod", "vfs", "vars"}
    /\ DOMAIN Parts = 1 .. 8
BY DEF Part, Parts

LEMMA FollowingFacts ==
    /\ Following("log") = "dma" /\ Following("dma") = "heap"
    /\ Following("heap") = "env" /\ Following("env") = "irq"
    /\ Following("irq") = "dmod" /\ Following("dmod") = "vfs"
    /\ Following("vfs") = "vars" /\ Following("vars") = "modules"
<1>1. \A i \in 1 .. 8 :
        /\ Parts[i] = "log" <=> i = 1
        /\ Parts[i] = "dma" <=> i = 2
        /\ Parts[i] = "heap" <=> i = 3
        /\ Parts[i] = "env" <=> i = 4
        /\ Parts[i] = "irq" <=> i = 5
        /\ Parts[i] = "dmod" <=> i = 6
        /\ Parts[i] = "vfs" <=> i = 7
  BY DEF Parts
<1>2. /\ (CHOOSE i \in DOMAIN Parts : Parts[i] = "log") = 1
      /\ (CHOOSE i \in DOMAIN Parts : Parts[i] = "dma") = 2
      /\ (CHOOSE i \in DOMAIN Parts : Parts[i] = "heap") = 3
      /\ (CHOOSE i \in DOMAIN Parts : Parts[i] = "env") = 4
      /\ (CHOOSE i \in DOMAIN Parts : Parts[i] = "irq") = 5
      /\ (CHOOSE i \in DOMAIN Parts : Parts[i] = "dmod") = 6
      /\ (CHOOSE i \in DOMAIN Parts : Parts[i] = "vfs") = 7
  BY <1>1, PartFacts
<1>. QED
  BY <1>2 DEF Following, Parts

LEMMA InitMainType == MainInit => MainTypeOK
BY ArgsAssumption, PartFacts DEF MainInit, MainTypeOK, Parts, NoArgv, Argv

LEMMA AfterMountType ==
    \A place_ \in MountPoints \cup {"/dev again"} :
        AfterMount(place_) \in (MountPoints \ {"/"}) \cup {"startup"}
BY DEF MountPoints, AfterMount

\* Whatever is allocated and freed, the arrays keep their type, and no entry
\* is beyond the number of arguments.
EntriesInv ==
    \A who \in {"boot", "shell"} :
        argv[who].entries \subseteq 0 .. argv[who].argc - 1

LEMMA ArgvUpdate ==
    ASSUME MainTypeOK, EntriesInv, NEW who \in {"boot", "shell"}, NEW a \in Argv,
           a.entries \subseteq 0 .. a.argc - 1, argv' = [argv EXCEPT ![who] = a]
    PROVE  /\ argv' \in [{"boot", "shell"} -> Argv] /\ EntriesInv'
           /\ argv'[who] = a
           /\ \A other \in {"boot", "shell"} : other # who => argv'[other] = argv[other]
BY DEF MainTypeOK, EntriesInv

\* One more piece of memory, as it is allocated.
Bigger(a, b) ==
    \/ b = [a EXCEPT !.array = TRUE]
    \/ \E i \in Missing(a) : b = [a EXCEPT !.entries = @ \cup {i}]

LEMMA BiggerType ==
    ASSUME NEW a \in Argv, a.entries \subseteq 0 .. a.argc - 1, NEW b, Bigger(a, b)
    PROVE  b \in Argv /\ b.entries \subseteq 0 .. b.argc - 1
<1>1. CASE b = [a EXCEPT !.array = TRUE]
  BY <1>1 DEF Argv
<1>2. ASSUME NEW i \in Missing(a), b = [a EXCEPT !.entries = @ \cup {i}]
      PROVE  b \in Argv /\ b.entries \subseteq 0 .. b.argc - 1
  <2>1. i \in 0 .. a.argc - 1 /\ i \in 0 .. MaxArgs - 1
    BY <1>2, ArgsAssumption DEF Missing, ToFill, Argv
  <2>2. b = [argc |-> a.argc, array |-> a.array, entries |-> a.entries \cup {i}]
    BY <1>2 DEF Argv
  <2>. QED
    BY <2>1, <2>2 DEF Argv
<1>. QED
  BY <1>1, <1>2 DEF Bigger

LEMMA NoArgvType == NoArgv \in Argv /\ NoArgv.entries \subseteq 0 .. NoArgv.argc - 1
BY ArgsAssumption DEF NoArgv, Argv

LEMMA AllocateType ==
    ASSUME MainTypeOK, EntriesInv, NEW who \in {"boot", "shell"}, Allocate(who)
    PROVE  /\ argv' \in [{"boot", "shell"} -> Argv] /\ EntriesInv'
           /\ \A other \in {"boot", "shell"} : other # who => argv'[other] = argv[other]
<1>1. PICK b : Bigger(argv[who], b) /\ argv' = [argv EXCEPT ![who] = b]
  BY DEF Allocate, Bigger
<1>2. argv[who] \in Argv /\ argv[who].entries \subseteq 0 .. argv[who].argc - 1
  BY DEF MainTypeOK, EntriesInv
<1>. QED
  BY <1>1, <1>2, BiggerType, ArgvUpdate

LEMMA FreedType ==
    ASSUME MainTypeOK, EntriesInv, NEW who \in {"boot", "shell"},
           argv' = [argv EXCEPT ![who] = Freed(@)]
    PROVE  /\ argv' \in [{"boot", "shell"} -> Argv] /\ EntriesInv'
           /\ argv'[who] = NoArgv
           /\ \A other \in {"boot", "shell"} : other # who => argv'[other] = argv[other]
BY NoArgvType, ArgvUpdate DEF Freed

LEMMA CountType ==
    ASSUME MainTypeOK, EntriesInv, NEW who \in {"boot", "shell"}, NEW n \in 1 .. MaxArgs,
           argv[who] = NoArgv, argv' = [argv EXCEPT ![who].argc = n]
    PROVE  /\ argv' \in [{"boot", "shell"} -> Argv] /\ EntriesInv'
           /\ \A other \in {"boot", "shell"} : other # who => argv'[other] = argv[other]
<1>. DEFINE b == [NoArgv EXCEPT !.argc = n]
<1>1. b \in Argv /\ b.entries \subseteq 0 .. b.argc - 1
  <2>1. b = [argc |-> n, array |-> NoArgv.array, entries |-> NoArgv.entries]
    BY NoArgvType DEF Argv
  <2>2. NoArgv.entries = {} /\ NoArgv.array \in BOOLEAN
    BY DEF NoArgv
  <2>. QED
    BY <2>1, <2>2, ArgsAssumption DEF Argv
<1>2. argv' = [argv EXCEPT ![who] = b]
  OBVIOUS
<1>. HIDE DEF b
<1>. QED
  BY <1>1, <1>2, ArgvUpdate

-----------------------------------------------------------------------------
(***************************************************************************)
(* What comes before what.                                                 *)
(***************************************************************************)

Optional == {"dma", "irq"}

Earlier(part) ==
    {Parts[j] : j \in {k \in DOMAIN Parts :
                          \E i \in DOMAIN Parts : k < i /\ Parts[i] = part}}

LEMMA EarlierFacts ==
    /\ Earlier("log") = {}
    /\ \A part \in Part \ {"vars"} :
          /\ Following(part) \in Part
          /\ Earlier(Following(part)) = Earlier(part) \cup {part}
    /\ Part = Earlier("vars") \cup {"vars"}
<1>1. \A i \in 1 .. 8 :
        /\ Parts[i] = "log" <=> i = 1
        /\ Parts[i] = "dma" <=> i = 2
        /\ Parts[i] = "heap" <=> i = 3
        /\ Parts[i] = "env" <=> i = 4
        /\ Parts[i] = "irq" <=> i = 5
        /\ Parts[i] = "dmod" <=> i = 6
        /\ Parts[i] = "vfs" <=> i = 7
        /\ Parts[i] = "vars" <=> i = 8
  BY DEF Parts
<1>. DEFINE upto(n) == {Parts[j] : j \in 1 .. n - 1}
<1>2. /\ Earlier("log") = upto(1) /\ Earlier("dma") = upto(2)
      /\ Earlier("heap") = upto(3) /\ Earlier("env") = upto(4)
      /\ Earlier("irq") = upto(5) /\ Earlier("dmod") = upto(6)
      /\ Earlier("vfs") = upto(7) /\ Earlier("vars") = upto(8)
  BY <1>1, PartFacts DEF Earlier
<1>3. \A n \in 1 .. 8 : upto(n + 1) = upto(n) \cup {Parts[n]}
  OBVIOUS
<1>4. upto(1) = {}
  OBVIOUS
<1>5. Part = upto(9)
  BY PartFacts DEF Part
<1>6. Parts[1] = "log" /\ Parts[2] = "dma" /\ Parts[3] = "heap" /\ Parts[4] = "env"
      /\ Parts[5] = "irq" /\ Parts[6] = "dmod" /\ Parts[7] = "vfs" /\ Parts[8] = "vars"
  BY DEF Parts
<1>. HIDE DEF upto
<1>7. upto(2) = upto(1) \cup {"log"} /\ upto(3) = upto(2) \cup {"dma"}
      /\ upto(4) = upto(3) \cup {"heap"} /\ upto(5) = upto(4) \cup {"env"}
      /\ upto(6) = upto(5) \cup {"irq"} /\ upto(7) = upto(6) \cup {"dmod"}
      /\ upto(8) = upto(7) \cup {"vfs"} /\ upto(9) = upto(8) \cup {"vars"}
  BY <1>3, <1>6
<1>. QED
  BY <1>2, <1>4, <1>5, <1>7, PartFacts, FollowingFacts

\* Nothing that has to be there was passed over.
UpInv ==
    /\ main \in Part => Earlier(main) \ Optional \subseteq up
    /\ main \notin Part \cup {"halted"} \/ sched # "off" =>
           Part \ Optional \subseteq up

\* Where the boot thread can be while main is somewhere, and who loads.
OrderInv ==
    /\ main \in Part \cup {"modules", "create"} => worker = "none" /\ sched = "off"
    /\ sched = "off" => worker \in {"none", "/", "cut"} /\ running = {}
    /\ main = "scheduler" => worker \notin {"none", "cut"}
    /\ main \in Shell \cup {"join"} => sched # "off"
    /\ main \in Shell \cup {"returned", "halted"} => worker \in {"none", "done", "cut"}
    /\ worker = "cut" => sched # "on"
    /\ loading = "modules" => main = "modules"
    /\ loading = "startup" => worker = "startup"
    /\ loading = "named" => main = "load"

\* What of the arguments is there at each point.
ArgvInv ==
    /\ EntriesInv
    /\ worker # "done" => "modules" \notin running
    /\ worker \notin {"argv", "run", "done", "halted", "cut"} => argv["boot"] = NoArgv
    /\ worker = "run" => Prepared(argv["boot"])
    /\ worker \in {"done", "halted"} =>
           argv["boot"] = NoArgv \/ Prepared(argv["boot"])
    /\ main \notin {"argv", "run", "free"} => argv["shell"] = NoArgv
    /\ main \in {"run", "free"} => Prepared(argv["shell"])

MainInv == MainTypeOK /\ UpInv /\ OrderInv /\ ArgvInv

LEMMA InitMain == MainInit => MainInv
<1>. SUFFICES ASSUME MainInit PROVE MainInv
  OBVIOUS
<1>1. main = "log" /\ "log" \in Part
  BY PartFacts DEF MainInit, Parts
<1>2. UpInv /\ OrderInv
  BY <1>1, EarlierFacts, PartFacts DEF MainInit, UpInv, OrderInv, Shell
<1>3. ArgvInv
  BY <1>1, NoArgvType DEF MainInit, ArgvInv, EntriesInv
<1>. QED
  BY <1>2, <1>3, InitMainType DEF MainInv

\* main, up to the shell.
LEMMA MainStepsInv ==
    MainInv /\ (\/ Initialise \/ LoadModules \/ CreateWorker
                \/ StartScheduler \/ StopScheduler \/ JoinWorker) => MainInv'
<1>. SUFFICES ASSUME MainInv, \/ Initialise \/ LoadModules \/ CreateWorker
                              \/ StartScheduler \/ StopScheduler \/ JoinWorker
              PROVE  MainInv'
  OBVIOUS
<1>. USE PartFacts DEF MainInv, Shell, MountPoints, Modules
<1>1. UNCHANGED <<rom, argv, running, loaded, backend>>
  BY DEF Initialise, LoadModules, CreateWorker, StartScheduler, StopScheduler,
         JoinWorker
<1>2. CASE Initialise
  <2>1. /\ UNCHANGED <<sched, worker, loading>> /\ main \in Part
        /\ main' \in Part \cup {"modules", "halted"} /\ up' \subseteq Part
    BY <1>2, EarlierFacts, FollowingFacts DEF Initialise, MainTypeOK
  <2>2. MainTypeOK' /\ OrderInv'
    BY <1>1, <2>1 DEF MainTypeOK, OrderInv
  <2>3. UpInv'
    <3>1. sched = "off" /\ sched' = "off"
      BY <2>1 DEF OrderInv
    <3>2. main' = "halted" \/ (main' = Following(main) /\ up \cup ({main} \ Optional) \subseteq up')
      BY <1>2, <2>1 DEF Initialise, IsThere, CanFail, Required, Optional
    <3>3. Earlier(main) \ Optional \subseteq up
      BY <2>1 DEF UpInv
    <3>4. CASE main = "vars"
      BY <3>1, <3>2, <3>3, <3>4, EarlierFacts, FollowingFacts DEF UpInv
    <3>5. CASE main # "vars"
      BY <2>1, <3>1, <3>2, <3>3, <3>5, EarlierFacts DEF UpInv
    <3>. QED
      BY <3>4, <3>5
  <2>4. ArgvInv'
    BY <1>1, <2>1 DEF ArgvInv, EntriesInv
  <2>. QED
    BY <2>2, <2>3, <2>4
<1>3. CASE LoadModules
  BY <1>1, <1>3 DEF LoadModules, MainTypeOK, UpInv, OrderInv, ArgvInv, EntriesInv
<1>4. CASE CreateWorker
  BY <1>1, <1>4 DEF CreateWorker, MainTypeOK, UpInv, OrderInv, ArgvInv, EntriesInv
<1>5. CASE StartScheduler
  <2>1. /\ main = "scheduler" /\ sched = "off" /\ UNCHANGED <<up, loading>>
        /\ \/ /\ sched' = "on" /\ main' \in {"scheduler", "join"}
              /\ UNCHANGED worker
           \/ /\ worker' = "cut" /\ main' \in {"halted", "returned"}
              /\ UNCHANGED sched
    BY <1>5 DEF StartScheduler
  <2>2. worker \in {"none", "/", "cut"} /\ running = {} /\ loading = "none"
    BY <2>1 DEF OrderInv, MainTypeOK
  <2>3. MainTypeOK' /\ UpInv'
    BY <1>1, <2>1 DEF MainTypeOK, UpInv
  <2>4. OrderInv'
    BY <1>1, <2>1, <2>2 DEF OrderInv
  <2>5. ArgvInv'
    BY <1>1, <2>1, <2>2 DEF ArgvInv, EntriesInv
  <2>. QED
    BY <2>3, <2>4, <2>5
<1>6. CASE StopScheduler
  BY <1>1, <1>6 DEF StopScheduler, MainTypeOK, UpInv, OrderInv, ArgvInv, EntriesInv
<1>7. CASE JoinWorker
  <2>1. /\ main = "join" /\ main' = "prompt" /\ UNCHANGED <<up, sched>>
        /\ loading' = "none"
        /\ \/ worker' = "done" /\ worker = "done"
           \/ worker' = "cut" /\ worker # "done" /\ sched # "on"
    BY <1>7 DEF JoinWorker, WorkerIsOver
  <2>2. MainTypeOK' /\ UpInv' /\ OrderInv'
    BY <1>1, <2>1 DEF MainTypeOK, UpInv, OrderInv
  <2>3. ArgvInv'
    BY <1>1, <2>1 DEF ArgvInv, EntriesInv
  <2>. QED
    BY <2>2, <2>3
<1>. QED
  BY <1>2, <1>3, <1>4, <1>5, <1>6, <1>7

\* The boot thread.
LEMMA WorkerStepsInv ==
    MainInv /\ (\/ MountNext \/ LoadStartup \/ StartupEnds \/ StartMainModule
                \/ prepare_main_module_argv \/ RunMainModule) => MainInv'
<1>. SUFFICES ASSUME MainInv, \/ MountNext \/ LoadStartup \/ StartupEnds
                              \/ StartMainModule \/ prepare_main_module_argv
                              \/ RunMainModule
              PROVE  MainInv'
  OBVIOUS
<1>. USE DEF MainInv, Shell, MountPoints, Modules
<1>1. /\ UNCHANGED <<rom, main, up, sched, loaded, backend>> /\ sched = "on"
      /\ worker \notin {"none", "cut", "done", "halted"}
  BY DEF MountNext, LoadStartup, StartupEnds, StartMainModule,
         prepare_main_module_argv, RunMainModule, Scheduled
<1>2. UpInv'
  BY <1>1 DEF UpInv
<1>3. main \notin Part \cup Shell \cup {"modules", "create", "returned", "halted"}
  BY <1>1 DEF OrderInv
<1>4. CASE MountNext
  <2>1. worker' \in (MountPoints \ {"/"}) \cup {"startup", "/dev again"}
    BY <1>4, AfterMountType DEF MountNext
  <2>2. UNCHANGED <<loading, running, argv>> /\ worker \in MountPoints \cup {"/dev again"}
    BY <1>4 DEF MountNext
  <2>. QED
    BY <1>1, <1>2, <1>3, <2>1, <2>2 DEF MainTypeOK, OrderInv, ArgvInv, EntriesInv
<1>5. CASE LoadStartup
  BY <1>1, <1>2, <1>3, <1>5 DEF LoadStartup, MainTypeOK, OrderInv, ArgvInv, EntriesInv
<1>6. CASE StartupEnds
  BY <1>1, <1>2, <1>3, <1>6 DEF StartupEnds, MainTypeOK, OrderInv, ArgvInv, EntriesInv
<1>7. CASE StartMainModule
  <2>0. worker = "main module" /\ UNCHANGED loading /\ argv["boot"] = NoArgv
    BY <1>7 DEF StartMainModule, ArgvInv
  <2>1. ASSUME NEW n \in 1 .. MaxArgs, argv' = [argv EXCEPT !["boot"].argc = n],
               worker' = "argv", UNCHANGED running
        PROVE  MainInv'
    <3>1. /\ argv' \in [{"boot", "shell"} -> Argv] /\ EntriesInv'
          /\ argv'["shell"] = argv["shell"]
      BY <2>0, <2>1, CountType DEF ArgvInv
    <3>. QED
      BY <1>1, <1>2, <1>3, <2>0, <2>1, <3>1 DEF MainTypeOK, OrderInv, ArgvInv
  <2>2. ASSUME worker' = "done", UNCHANGED argv,
               running' \in {running, running \cup {"modules"}}
        PROVE  MainInv'
    BY <1>1, <1>2, <1>3, <2>0, <2>2 DEF MainTypeOK, OrderInv, ArgvInv, EntriesInv
  <2>. QED
    BY <1>7, <2>1, <2>2 DEF StartMainModule, ModuleTypes
<1>8. CASE prepare_main_module_argv
  <2>0. worker = "argv" /\ UNCHANGED <<loading, running>>
    BY <1>8 DEF prepare_main_module_argv
  <2>1. CASE Allocate("boot") /\ UNCHANGED worker
    <3>1. /\ argv' \in [{"boot", "shell"} -> Argv] /\ EntriesInv'
          /\ argv'["shell"] = argv["shell"]
      BY <2>1, AllocateType DEF ArgvInv
    <3>. QED
      BY <1>1, <1>2, <1>3, <2>0, <2>1, <3>1 DEF MainTypeOK, OrderInv, ArgvInv
  <2>2. CASE OutOfMemory("boot") /\ WorkerAsserts
    <3>1. /\ argv' \in [{"boot", "shell"} -> Argv] /\ EntriesInv'
          /\ argv'["boot"] = NoArgv /\ argv'["shell"] = argv["shell"]
      BY <2>2, FreedType DEF ArgvInv, OutOfMemory
    <3>. QED
      BY <1>1, <1>2, <1>3, <2>0, <2>2, <3>1
         DEF MainTypeOK, OrderInv, ArgvInv, WorkerAsserts
  <2>3. CASE Prepared(argv["boot"]) /\ worker' = "run" /\ UNCHANGED argv
    BY <1>1, <1>2, <1>3, <2>0, <2>3 DEF MainTypeOK, OrderInv, ArgvInv, EntriesInv
  <2>. QED
    BY <1>8, <2>1, <2>2, <2>3 DEF prepare_main_module_argv
<1>9. CASE RunMainModule
  BY <1>1, <1>2, <1>3, <1>9
     DEF RunMainModule, WorkerAsserts, MainTypeOK, OrderInv, ArgvInv, EntriesInv
<1>. QED
  BY <1>4, <1>5, <1>6, <1>7, <1>8, <1>9

\* What is loaded for main, the boot thread and the shell.
LEMMA LoadReturnsInv == ASSUME NEW ok \in BOOLEAN
                        PROVE  MainInv /\ LoadReturns(ok) => MainInv'
<1>. SUFFICES ASSUME MainInv, LoadReturns(ok) PROVE MainInv'
  OBVIOUS
<1>. USE PartFacts DEF MainInv, Shell, MountPoints, Modules
<1>1. /\ UNCHANGED <<rom, backend, up, sched, argv>> /\ loading' = "none"
      /\ loaded' \subseteq Modules
  BY DEF LoadReturns, MainTypeOK
<1>2. CASE loading = "modules"
  <2>1. main = "modules" /\ main' = "create" /\ UNCHANGED <<worker, running>>
    BY <1>2 DEF LoadReturns, OrderInv
  <2>. QED
    BY <1>1, <2>1 DEF MainTypeOK, UpInv, OrderInv, ArgvInv, EntriesInv
<1>3. CASE loading = "startup"
  <2>1. /\ worker = "startup" /\ sched = "on" /\ UNCHANGED main
        /\ worker' \in {"main module", "startup app"}
        /\ running' \in {running, running \cup {"startup"}}
    BY <1>3 DEF LoadReturns, OrderInv, Scheduled, AfterStartup, NotLoaded
  <2>. QED
    BY <1>1, <2>1 DEF MainTypeOK, UpInv, OrderInv, ArgvInv, EntriesInv
<1>4. CASE loading = "named"
  <2>1. main = "load" /\ main' = "prompt" /\ UNCHANGED <<worker, running>>
    BY <1>4 DEF LoadReturns, OrderInv
  <2>. QED
    BY <1>1, <2>1 DEF MainTypeOK, UpInv, OrderInv, ArgvInv, EntriesInv
<1>. QED
  BY <1>2, <1>3, <1>4 DEF LoadReturns, MainTypeOK

\* The shell.
LEMMA ShellStepsInv ==
    MainInv /\ (\/ LoadCommand \/ UnloadCommand \/ RunCommand
                \/ prepare_argv_for_run \/ RunModule \/ FreeArgv \/ ExitCommand)
        => MainInv'
<1>. SUFFICES ASSUME MainInv, \/ LoadCommand \/ UnloadCommand \/ RunCommand
                              \/ prepare_argv_for_run \/ RunModule \/ FreeArgv
                              \/ ExitCommand
              PROVE  MainInv'
  OBVIOUS
<1>. USE PartFacts DEF MainInv, Shell, Modules
<1>1. /\ UNCHANGED <<rom, up, sched, worker, backend>>
      /\ main \in Shell /\ main' \in Shell \cup {"returned"} /\ sched # "off"
      /\ loaded' \subseteq Modules /\ running' \subseteq Modules
      /\ "modules" \in running' <=> "modules" \in running
  BY DEF LoadCommand, UnloadCommand, RunCommand, prepare_argv_for_run, RunModule,
         FreeArgv, ExitCommand, MainTypeOK, OrderInv
<1>2. UpInv'
  BY <1>1 DEF UpInv
<1>3. CASE LoadCommand \/ UnloadCommand \/ RunModule \/ ExitCommand
  BY <1>1, <1>2, <1>3
     DEF LoadCommand, UnloadCommand, RunModule, ExitCommand, MainTypeOK, OrderInv,
         ArgvInv, EntriesInv
<1>4. CASE RunCommand
  <2>0. main = "prompt" /\ main' = "argv" /\ UNCHANGED <<loading, running>>
        /\ argv["shell"] = NoArgv
    BY <1>4 DEF RunCommand, ArgvInv
  <2>1. PICK n \in 1 .. MaxArgs : argv' = [argv EXCEPT !["shell"].argc = n]
    BY <1>4 DEF RunCommand
  <2>2. /\ argv' \in [{"boot", "shell"} -> Argv] /\ EntriesInv'
        /\ argv'["boot"] = argv["boot"]
    BY <2>0, <2>1, CountType DEF ArgvInv
  <2>. QED
    BY <1>1, <1>2, <2>0, <2>2 DEF MainTypeOK, OrderInv, ArgvInv
<1>5. CASE prepare_argv_for_run
  <2>0. main = "argv" /\ UNCHANGED <<loading, running>>
    BY <1>5 DEF prepare_argv_for_run
  <2>1. CASE Allocate("shell") /\ UNCHANGED main
    <3>1. /\ argv' \in [{"boot", "shell"} -> Argv] /\ EntriesInv'
          /\ argv'["boot"] = argv["boot"]
      BY <2>1, AllocateType DEF ArgvInv
    <3>. QED
      BY <1>1, <1>2, <2>0, <2>1, <3>1 DEF MainTypeOK, OrderInv, ArgvInv
  <2>2. CASE OutOfMemory("shell") /\ main' = "prompt"
    <3>1. /\ argv' \in [{"boot", "shell"} -> Argv] /\ EntriesInv'
          /\ argv'["shell"] = NoArgv /\ argv'["boot"] = argv["boot"]
      BY <2>2, FreedType DEF ArgvInv, OutOfMemory
    <3>. QED
      BY <1>1, <1>2, <2>0, <2>2, <3>1 DEF MainTypeOK, OrderInv, ArgvInv
  <2>3. CASE Prepared(argv["shell"]) /\ main' = "run" /\ UNCHANGED argv
    BY <1>1, <1>2, <2>0, <2>3 DEF MainTypeOK, OrderInv, ArgvInv, EntriesInv
  <2>. QED
    BY <1>5, <2>1, <2>2, <2>3 DEF prepare_argv_for_run
<1>6. CASE FreeArgv
  <2>1. /\ argv' \in [{"boot", "shell"} -> Argv] /\ EntriesInv'
        /\ argv'["shell"] = NoArgv /\ argv'["boot"] = argv["boot"]
    BY <1>6, FreedType DEF ArgvInv, FreeArgv
  <2>. QED
    BY <1>1, <1>2, <1>6, <2>1 DEF FreeArgv, MainTypeOK, OrderInv, ArgvInv
<1>. QED
  BY <1>3, <1>4, <1>5, <1>6

LEMMA NextMain == MainInv /\ [BootNext]_bootVars => MainInv'
<1>. SUFFICES ASSUME MainInv, [MainNext]_mainVars PROVE MainInv'
  BY StepOfMain
<1>1. CASE UNCHANGED mainVars
  <2>1. (MainTypeOK /\ UpInv /\ OrderInv)'
    BY <1>1 DEF mainVars, MainInv, MainTypeOK, UpInv, OrderInv
  <2>2. ArgvInv'
    BY <1>1 DEF mainVars, MainInv, ArgvInv, EntriesInv
  <2>. QED
    BY <2>1, <2>2 DEF MainInv
<1>2. CASE MainNext
  BY <1>2, MainStepsInv, WorkerStepsInv, LoadReturnsInv, ShellStepsInv
     DEF MainNext, GoesOn, Waits
<1>. QED
  BY <1>1, <1>2

\* The shell never works beside the boot thread, and nothing is mounted or
\* started before there is a scheduler and all that main sets up.
THEOREM BootIsOrdered == BootSpec => []BootIsInOrder
<1>1. MainInv => BootIsInOrder
  BY PartFacts DEF MainInv, OrderInv, UpInv, Optional, BootIsInOrder, ShellIsAlone,
                   StartsUnderTheScheduler, MainTypeOK
<1>. QED
  BY <1>1, InitMain, NextMain, PTL DEF BootSpec, BootInit

\* Applications have all of their arguments for as long as they run, and the
\* memory comes back, wherever it has run out in between.
THEOREM ArgvIsLentOnly == BootSpec => []ArgvIsLent
<1>1. ASSUME NEW a \in Argv, a.entries \subseteq 0 .. a.argc - 1, Prepared(a)
      PROVE  a.array /\ a.entries = 0 .. a.argc - 1
  BY <1>1 DEF Prepared, Missing, ToFill
<1>2. NoArgv.entries = 0 .. NoArgv.argc - 1 /\ NoArgv.argc = 0
  BY DEF NoArgv
<1>3. ASSUME MainInv PROVE ArgvIsLent
  <2>1. \A who \in {"boot", "shell"} :
          /\ argv[who] \in Argv
          /\ argv[who].entries \subseteq 0 .. argv[who].argc - 1
    BY <1>3 DEF MainInv, MainTypeOK, ArgvInv, EntriesInv
  <2>2. ArgvIsComplete
    BY <1>1, <1>2, <1>3, <2>1 DEF MainInv, ArgvInv, ArgvIsComplete
  <2>3. ArgvIsGivenBack
    BY <1>1, <1>2, <1>3, <2>1 DEF MainInv, ArgvInv, ArgvIsGivenBack
  <2>. QED
    BY <2>2, <2>3 DEF ArgvIsLent
<1>. QED
  BY <1>3, InitMain, NextMain, PTL DEF BootSpec, BootInit

-----------------------------------------------------------------------------
(***************************************************************************)
(* The code that is loaded.                                                *)
(***************************************************************************)

\* The shell takes over, and what was being loaded is not synchronised.
LEMMA JoinCaches == CachesInv /\ JoinStep => CachesInv'
<1>. SUFFICES ASSUME CachesInv, JoinStep PROVE CachesInv'
  OBVIOUS
<1>. USE DEF CachesInv
<1>0. /\ UNCHANGED <<cacheBoot, unseen, current, older, code, line>>
      /\ sync' \in {sync, "idle"} /\ Code' = Code /\ Cached' = Cached
  BY DEF JoinStep, Code, Cached, cacheBoot
<1>1. CachesTypeOK'
  BY <1>0 DEF CachesTypeOK, cacheBoot
<1>2. (CachesHold /\ SyncInv /\ CodeIsFetched)'
  BY <1>0 DEF CachesHold, SyncInv, CodeIsFetched, cacheBoot
<1>. QED
  BY <1>0, <1>1, <1>2, SyncLeavesStart

LEMMA NextBootCaches == CachesInv /\ [BootNext]_bootVars => CachesInv'
<1>. SUFFICES ASSUME CachesInv, [BootNext]_bootVars PROVE CachesInv'
  OBVIOUS
<1>1. CASE CachesStep
  BY <1>1, StartCaches, OwnCaches DEF CachesStep
<1>2. CASE StoreModule
  BY <1>2, StoreCaches DEF StoreModule
<1>3. CASE SyncModule
  BY <1>3, SyncCaches DEF SyncModule
<1>4. CASE UNCHANGED cacheVars
  BY <1>4, StutterCaches
<1>5. CASE JoinStep
  BY <1>5, JoinCaches
<1>. QED
  BY <1>1, <1>2, <1>3, <1>4, <1>5
     DEF BootNext, MainStep, LoadEnds, UnloadModule, bootVars

\* What is being loaded was not loaded before.
NewInv ==
    /\ main \in Part \cup {"modules"} => "modules" \notin loaded
    /\ worker \in MountPoints \cup {"none", "/dev again", "startup"} =>
           "startup" \notin loaded
    /\ main = "load" => "named" \notin loaded

LEMMA NextNew == MainInv /\ NewInv /\ [BootNext]_bootVars => NewInv'
<1>. SUFFICES ASSUME MainInv, NewInv, [MainNext]_mainVars PROVE NewInv'
  BY StepOfMain
<1>. USE PartFacts DEF NewInv, MountPoints
<1>1. CASE UNCHANGED mainVars
  BY <1>1 DEF mainVars
<1>2. CASE Initialise \/ LoadModules \/ CreateWorker \/ StartScheduler
           \/ StopScheduler \/ JoinWorker
  <2>1. /\ UNCHANGED loaded /\ main' # "load"
        /\ main' \in Part \cup {"modules"} => main \in Part \cup {"modules"}
        /\ worker' \in MountPoints \cup {"none", "/dev again", "startup"} =>
               worker' = worker \/ worker = "none"
    <3>1. CASE Initialise
      BY <3>1, EarlierFacts, FollowingFacts DEF Initialise
    <3>2. CASE LoadModules \/ CreateWorker \/ StartScheduler \/ StopScheduler
               \/ JoinWorker
      BY <3>2 DEF LoadModules, CreateWorker, StartScheduler, StopScheduler, JoinWorker,
                  MainInv, OrderInv
    <3>. QED
      BY <1>2, <3>1, <3>2
  <2>. QED
    BY <2>1
<1>3. CASE MountNext \/ LoadStartup \/ StartupEnds \/ StartMainModule
           \/ prepare_main_module_argv \/ RunMainModule
  BY <1>3 DEF MountNext, LoadStartup, StartupEnds, StartMainModule,
              prepare_main_module_argv, RunMainModule, WorkerAsserts
<1>4. CASE LoadCommand \/ UnloadCommand \/ RunCommand \/ prepare_argv_for_run
           \/ RunModule \/ FreeArgv \/ ExitCommand
  BY <1>4 DEF LoadCommand, UnloadCommand, RunCommand, prepare_argv_for_run,
              RunModule, FreeArgv, ExitCommand
<1>5. ASSUME NEW ok \in BOOLEAN, LoadReturns(ok) PROVE NewInv'
  <2>1. loaded' \subseteq loaded \cup {loading}
    BY <1>5 DEF LoadReturns
  <2>2. CASE loading = "modules"
    BY <1>5, <2>1, <2>2 DEF LoadReturns, MainInv, OrderInv
  <2>3. CASE loading = "startup"
    BY <1>5, <2>1, <2>3 DEF LoadReturns, MainInv, OrderInv, AfterStartup, NotLoaded
  <2>4. CASE loading = "named"
    BY <1>5, <2>1, <2>4 DEF LoadReturns, MainInv, OrderInv
  <2>. QED
    BY <1>5, <2>2, <2>3, <2>4 DEF LoadReturns, MainInv, MainTypeOK, Modules
<1>. QED
  BY <1>1, <1>2, <1>3, <1>4, <1>5 DEF MainNext, GoesOn, Waits

PlaceInv == place \in [Modules -> SUBSET Addresses] /\ LoadedCodeIsFetched

BootInv == MainInv /\ CachesInv /\ NewInv /\ PlaceInv

LEMMA InitBoot == BootInit => BootInv
<1>. SUFFICES ASSUME BootInit PROVE BootInv
  OBVIOUS
<1>1. NewInv /\ PlaceInv
  BY DEF BootInit, MainInit, NewInv, PlaceInv, LoadedCodeIsFetched
<1>. QED
  BY <1>1, InitMain, InitCaches DEF BootInit, BootInv

\* What a step of the caches may do to code that it does not write.
LEMMA CodeStays ==
    ASSUME PlaceInv, UNCHANGED <<place, loaded>>,
           \A m \in loaded : /\ place[m] \cap current \subseteq current'
                             /\ place[m] \cap older' \subseteq older \cup (Addresses \ current)
    PROVE  PlaceInv'
BY DEF PlaceInv, LoadedCodeIsFetched

LEMMA NextPlace == BootInv /\ [BootNext]_bootVars => PlaceInv'
<1>. SUFFICES ASSUME BootInv, [BootNext]_bootVars PROVE PlaceInv'
  OBVIOUS
<1>. USE DEF BootInv
<1>1. CASE CachesStep
  BY <1>1, CodeStays
     DEF CachesStep, enable_icache, logs_uncached, enable_dcache, WriteLog, Evict,
         Prefetch, mainVars, cacheBoot, Line
<1>2. CASE SyncModule
  <2>1. current \cap Addresses \subseteq current' /\ older' \subseteq older
    BY <1>2 DEF SyncModule, Sync, SyncCode, CleanLine, InvalidateAll, WritebackAll,
                InvalidateItems, CachesInv, CachesTypeOK
  <2>2. UNCHANGED <<place, loaded>>
    BY <1>2 DEF SyncModule, mainVars
  <2>. QED
    BY <2>1, <2>2, CodeStays DEF CachesInv, CachesTypeOK
<1>3. CASE StoreModule
  <2>1. loading \in Modules /\ loading \notin loaded /\ UNCHANGED loaded
    BY <1>3 DEF StoreModule, mainVars, MainInv, MainTypeOK, OrderInv, NewInv, Modules,
                MountPoints
  <2>2. PICK p \in Places :
          /\ Free(p) /\ StoreCode(p[1], p[2])
          /\ place' = [place EXCEPT ![loading] = Range(p[1], p[2])]
    BY <1>3 DEF StoreModule
  <2>3. Range(p[1], p[2]) \subseteq Addresses
    BY LinesAssumption DEF Places, Addresses, Range
  <2>4. \A m \in loaded : /\ place'[m] = place[m]
                          /\ Range(p[1], p[2]) \cap place[m] = {}
    BY <2>1, <2>2 DEF PlaceInv, Free, MainInv, MainTypeOK
  <2>5. /\ current \ Range(p[1], p[2]) \subseteq current'
        /\ older' \subseteq older \cup Range(p[1], p[2])
    BY <2>2 DEF StoreCode
  <2>. QED
    BY <2>1, <2>2, <2>3, <2>4, <2>5 DEF PlaceInv, LoadedCodeIsFetched
<1>4. CASE LoadEnds
  <2>1. UNCHANGED <<current, older>> /\ loading \in Modules
    BY <1>4 DEF LoadEnds, cacheVars, MainInv, MainTypeOK
  <2>2. CASE LoadReturns(TRUE) /\ Synced /\ UNCHANGED place
    <3>1. place[loading] \subseteq current /\ place[loading] \cap older = {}
      BY <2>2 DEF Synced, CachesInv, CodeIsFetched
    <3>2. loaded' = loaded \cup {loading}
      BY <2>2 DEF LoadReturns
    <3>. QED
      BY <2>1, <2>2, <3>1, <3>2 DEF PlaceInv, LoadedCodeIsFetched
  <2>3. CASE LoadReturns(FALSE) /\ place' = [place EXCEPT ![loading] = {}]
    <3>1. loaded' = loaded
      BY <2>3 DEF LoadReturns
    <3>. QED
      BY <2>1, <2>3, <3>1 DEF PlaceInv, LoadedCodeIsFetched, MainInv, MainTypeOK
  <2>. QED
    BY <1>4, <2>2, <2>3 DEF LoadEnds
<1>5. CASE UnloadModule
  BY <1>5 DEF UnloadModule, UnloadCommand, cacheVars, PlaceInv, LoadedCodeIsFetched,
              MainInv, MainTypeOK, Modules
<1>6. CASE UNCHANGED bootVars
  BY <1>6, CodeStays DEF bootVars, mainVars, cacheVars
<1>7. CASE JoinStep
  BY <1>7, CodeStays DEF JoinStep, JoinWorker
<1>8. CASE MainStep(GoesOn) \/ MainStep(Waits)
  <2>1. UNCHANGED <<current, older, place, loaded>>
    BY <1>8 DEF MainStep, cacheVars, GoesOn, Waits, Initialise, LoadModules,
                CreateWorker, StartScheduler, MountNext, LoadStartup, StartMainModule,
                prepare_main_module_argv, RunMainModule, prepare_argv_for_run,
                RunModule, StopScheduler, StartupEnds, FreeArgv, LoadCommand,
                RunCommand, ExitCommand
  <2>. QED
    BY <2>1, CodeStays
<1>. QED
  BY <1>1, <1>2, <1>3, <1>4, <1>5, <1>6, <1>7, <1>8 DEF BootNext

LEMMA NextBoot == BootInv /\ [BootNext]_bootVars => BootInv'
BY NextMain, NextBootCaches, NextNew, NextPlace DEF BootInv

\* Every variable of the start keeps its type (main.c, caches.c).
THEOREM BootTypeCorrect == BootSpec => []BootTypeOK
<1>1. BootInv => BootTypeOK
  BY DEF BootInv, MainInv, CachesInv, PlaceInv, BootTypeOK
<1>. QED
  BY <1>1, InitBoot, NextBoot, PTL DEF BootSpec

\* Every module that was loaded can be run: its code is in the memory and not
\* older in the instruction cache, whatever was loaded beside it or given up.
THEOREM LoadedCodeIsAlwaysFetched == BootSpec => []LoadedCodeIsFetched
<1>1. BootInv => LoadedCodeIsFetched
  BY DEF BootInv, PlaceInv
<1>. QED
  BY <1>1, InitBoot, NextBoot, PTL DEF BootSpec

\* The caches are on without what was there at the reset, and the log is not
\* hidden from the debugger (low_level_init_1).
THEOREM CachesAlwaysStartRight == BootSpec => []CachesStartRight
<1>1. BootInv => CachesStartRight
  BY DEF BootInv, CachesInv
<1>. QED
  BY <1>1, InitBoot, NextBoot, PTL DEF BootSpec

=============================================================================
