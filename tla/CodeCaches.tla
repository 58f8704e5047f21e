----------------------------- MODULE CodeCaches -----------------------------
(***************************************************************************)
(* The caches of the processor and the code of the modules.                *)
(*                                                                         *)
(* low_level_init_1 of src/arch/armv7/cortex-m7/caches.c turns the caches  *)
(* on before main and takes the log buffer out of them; Dmod_SyncCode, of  *)
(* that file and of src/arch/xtensa/lx7/caches.c, brings code that was     *)
(* just written to the instruction fetch.                                  *)
(*                                                                         *)
(* A cache may fill any line and write any line back at any time.  So only *)
(* what can be wrong is kept: the addresses at which the memory has what   *)
(* was written last, and those at which the instruction cache may hold     *)
(* something older.                                                        *)
(***************************************************************************)
EXTENDS Integers

CONSTANTS
    Bytes,          \* the addresses are 0 .. Bytes - 1, of which 0 is NULL
    LineBytes,      \* CACHE_LINE; on Xtensa what the ROM says
    WindowLow, WindowHigh,  \* Xtensa: the memory that is behind the caches
    SetsField, WaysField,   \* CCSIDR: sets and ways, each less one
    MinRegion,      \* the least size of an MPU region
    LogBuffers      \* where the log buffer may be: [start, size]

ASSUME LinesAssumption ==
    /\ LineBytes \in Nat \ {0} /\ Bytes \in Nat \ {0} /\ Bytes % LineBytes = 0
ASSUME WindowAssumption ==
    /\ WindowLow \in 0 .. Bytes /\ WindowHigh \in 0 .. Bytes
    /\ WindowLow % LineBytes = 0 /\ WindowHigh % LineBytes = 0
ASSUME FieldsAssumption ==
    SetsField \in Nat /\ WaysField \in Nat /\ MinRegion \in Nat \ {0}
ASSUME LogsAssumption == LogBuffers \subseteq [start: Nat, size: Nat]

Addresses == 0 .. Bytes - 1
Line(a) == {b \in Addresses : a \div LineBytes = b \div LineBytes}
Range(first, n) == first .. first + n - 1

VARIABLES
    port,       \* "m7" or "lx7"
    logs,       \* the log buffer: where it starts and how long it is
    boot,       \* where startup.s is with the caches
    caches,     \* those that are on, of "i" and "d"
    junkI,      \* the instruction cache holds what was in it at the reset
    junkD,      \* so do these set/way of the data cache
    uncached,   \* the MPU region of the logs
    unseen,     \* the part of the log that is only in the data cache
    current,    \* where the memory has what was written last
    older,      \* where the instruction cache may hold something older
    sync,       \* where Dmod_SyncCode is: "synced" when it has returned
    code,       \* the code that was written: its address and its size
    line        \* the local of the Cortex-M7's Dmod_SyncCode

SetWays == (0 .. SetsField) \X (0 .. WaysField)

cacheBoot == <<port, logs, boot, caches, junkI, junkD, uncached>>
cacheVars == <<cacheBoot, unseen, current, older, sync, code, line>>

CachesInit ==
    /\ port \in {"m7", "lx7"}
    /\ logs \in LogBuffers
    /\ boot = IF port = "m7" THEN "reset" ELSE "main"
    /\ caches = IF port = "m7" THEN {} ELSE {"i", "d"}
    /\ junkI = (port = "m7")
    /\ junkD = IF port = "m7" THEN SetWays ELSE {}
    /\ uncached = {}
    /\ unseen = {}
    /\ current = Addresses
    /\ older = {}
    /\ sync = "idle"
    /\ code = [at |-> 0, size |-> 0]
    /\ line = 0

-----------------------------------------------------------------------------
(***************************************************************************)
(* low_level_init_1.                                                       *)
(***************************************************************************)

enable_icache ==
    /\ boot = "reset"
    /\ junkI' = FALSE
    /\ caches' = caches \cup {"i"}
    /\ boot' = "icache"
    /\ UNCHANGED <<port, logs, junkD, uncached, unseen, current, older, sync, code,
                   line>>

\* size & (size - 1)
PowerOfTwo(n) == \E k \in 0 .. n : 2 ^ k = n

\* Mutant: the start is not looked at.
FitsAnywhere(start, size) == size >= MinRegion /\ PowerOfTwo(size)
FitsRegion(start, size) ==
    size >= MinRegion /\ PowerOfTwo(size) /\ start % size = 0

\* The region that RBAR and RASR describe: the MPU does not look at the bits
\* of the address below the size.
Region(start, size) == Range(start - (start % size), size)

\* An MPU has no region, the buffer is not like one, or it is made one.
logs_uncached ==
    /\ boot = "icache"
    /\ \/ /\ FitsRegion(logs.start, logs.size)
          /\ uncached' = Region(logs.start, logs.size)
          /\ boot' = "dcache"
       \/ /\ uncached' = {}
          /\ boot' = "main"
    /\ UNCHANGED <<port, logs, caches, junkI, junkD, unseen, current, older, sync,
                   code, line>>

\* The loops over the sets and the ways.
DCacheInvalidated == junkD \ SetWays

enable_dcache ==
    /\ boot = "dcache"
    /\ junkD' = DCacheInvalidated
    /\ caches' = caches \cup {"d"}
    /\ boot' = "main"
    /\ UNCHANGED <<port, logs, junkI, uncached, unseen, current, older, sync, code,
                   line>>

\* The firmware writes to its log (the logs of the ESP32-S3 are in the memory
\* without a cache); the debugger reads the memory.
WriteLog ==
    /\ boot = "main" /\ port = "m7"
    /\ \E a \in Range(logs.start, logs.size) :
          unseen' = IF "d" \in caches /\ a \notin uncached
                    THEN unseen \cup {a} ELSE unseen
    /\ UNCHANGED <<cacheBoot, current, older, sync, code, line>>

-----------------------------------------------------------------------------
(***************************************************************************)
(* Dmod_SyncCode( Address, Size ), called once a module is in place.       *)
(***************************************************************************)

Cached == IF port = "m7" THEN Addresses
          ELSE {a \in Addresses : WindowLow <= a /\ a < WindowHigh}
Code == Range(code.at, code.size)
End == code.at + code.size

\* The loader writes a module, or another one over it.
StoreCode(at, n) ==
    /\ boot = "main" /\ sync \in {"idle", "synced"}
    /\ code' = [at |-> at, size |-> n]
    /\ current' = IF "d" \in caches
                  THEN current \ (Range(at, n) \cap Cached) ELSE current
    /\ older' = IF "i" \in caches
                THEN older \cup (Range(at, n) \cap Cached) ELSE older
    /\ sync' = "stored"
    /\ UNCHANGED <<cacheBoot, unseen, line>>

\* Mutant: the first line begins where the code begins.
NotAligned(at) == at
FirstLine(at) == at - (at % LineBytes)

\* What the call has to do depends on the port and on the caches that are on.
SyncCode ==
    /\ sync = "stored"
    /\ line' = FirstLine(code.at)
    /\ sync' = IF port = "m7"
               THEN IF "d" \in caches THEN "clean" ELSE "invalidate"
               ELSE IF End > WindowLow /\ code.at < WindowHigh
                    THEN "writeback" ELSE "synced"
    /\ UNCHANGED <<cacheBoot, unseen, current, older, code>>

\* Cortex-M7: DCCMVAU line by line ...
CleanLine ==
    /\ sync = "clean"
    /\ IF line < End
       THEN /\ current' = current \cup Line(line)
            /\ line' = line + LineBytes
            /\ UNCHANGED sync
       ELSE /\ sync' = "invalidate"
            /\ UNCHANGED <<current, line>>
    /\ UNCHANGED <<cacheBoot, unseen, older, code>>

\* ... and ICIALLU.
InvalidateAll ==
    /\ sync = "invalidate"
    /\ older' = IF "i" \in caches THEN {} ELSE older
    /\ sync' = "synced"
    /\ UNCHANGED <<cacheBoot, unseen, current, code, line>>

\* ESP32-S3: the whole data cache is written back ...
WritebackAll ==
    /\ sync = "writeback"
    /\ current' = Addresses
    /\ sync' = "items"
    /\ UNCHANGED <<cacheBoot, unseen, older, code, line>>

Items == (End - line + LineBytes - 1) \div LineBytes

\* ... and as many lines of the instruction cache are invalidated.
InvalidateItems ==
    /\ sync = "items"
    /\ older' = older \ Range(line, Items * LineBytes)
    /\ sync' = "synced"
    /\ UNCHANGED <<cacheBoot, unseen, current, code, line>>

Sync ==
    \/ SyncCode \/ CleanLine \/ InvalidateAll
    \/ WritebackAll \/ InvalidateItems

-----------------------------------------------------------------------------
(***************************************************************************)
(* What the caches do by themselves.                                       *)
(***************************************************************************)

Places == {p \in (Addresses \ {0}) \X (1 .. Bytes) : p[1] + p[2] <= Bytes}

Evict ==
    /\ "d" \in caches
    /\ \E a \in Cached : current' = current \cup Line(a)
    /\ UNCHANGED <<cacheBoot, unseen, older, sync, code, line>>

Prefetch ==
    /\ "i" \in caches
    /\ \E a \in Cached : older' = older \cup (Line(a) \ current)
    /\ UNCHANGED <<cacheBoot, unseen, current, sync, code, line>>

CachesNext ==
    \/ enable_icache \/ logs_uncached \/ enable_dcache \/ WriteLog
    \/ \E p \in Places : StoreCode(p[1], p[2])
    \/ Sync \/ Evict \/ Prefetch

CachesSpec == CachesInit /\ [][CachesNext]_cacheVars

-----------------------------------------------------------------------------
(***************************************************************************)
(* What is right.                                                          *)
(***************************************************************************)

CachesTypeOK ==
    /\ port \in {"m7", "lx7"}
    /\ logs \in LogBuffers
    /\ boot \in {"reset", "icache", "dcache", "main"}
    /\ caches \subseteq {"i", "d"}
    /\ junkI \in BOOLEAN /\ junkD \subseteq SetWays
    /\ uncached \subseteq Int /\ unseen \subseteq Int
    /\ current \subseteq Addresses /\ older \subseteq Addresses
    /\ sync \in {"idle", "stored", "clean", "invalidate", "writeback", "items",
                 "synced"}
    /\ code \in [at: Addresses, size: 0 .. Bytes]
    /\ line \in 0 .. Bytes + LineBytes

\* Dmod_SyncCode has returned: every byte of the module is in the memory, and
\* the instruction cache holds no older one, whatever it fetched meanwhile.
CodeIsFetched ==
    sync = "synced" => Code \subseteq current /\ Code \cap older = {}

\* A cache that is on holds nothing from before the reset.
NoJunkIsServed ==
    /\ "i" \in caches => ~junkI
    /\ "d" \in caches => junkD = {}

\* What the firmware logs can be read by the debugger: the data cache is on
\* only when the log buffer is out of it.
DebuggerSeesLogs == unseen = {}

\* low_level_init_1 leaves caches that neither serve what was there before nor
\* hide what is logged.
CachesStartRight == NoJunkIsServed /\ DebuggerSeesLogs

=============================================================================
