---------------------------- MODULE XtensaFlash ----------------------------
(***************************************************************************)
(* Erasing and programming the flash of the ESP32-S3 while the firmware    *)
(* runs from it (src/arch/xtensa/lx7/flash.c), and the table of interrupt  *)
(* handlers that it shares with the modules (dmboot_xtensa_irq_init of     *)
(* src/arch/xtensa/lx7/shim/port_shim.c).                                  *)
(*                                                                         *)
(* One core and one call at a time (the mutex of dmflash).  Around it are  *)
(* the interrupts and the other threads: whatever runs needs the caches,   *)
(* and may enable an interrupt for itself.  The flash is addressed in      *)
(* words; the data to program at the address a is a, so that a word in the *)
(* wrong place shows.  Numbers are unsigned and wrap at Wrap.              *)
(***************************************************************************)
EXTENDS Integers

CONSTANTS
    ChipWords,      \* FLASH_SIZE
    SectorWords,    \* SECTOR_SIZE
    PageWords,      \* PAGE_SIZE, which is also the size of work.page
    LineWords,      \* a line of the data cache
    Wrap,           \* 2^32
    Lines,          \* the interrupts of the CPU are 0 .. Lines - 1
    FlashLine,      \* FLASH_CPU_INTR
    PortLines,      \* those that the port of the RTOS took
    Blank           \* a word that is erased

ASSUME SizesAssumption ==
    /\ PageWords \in Nat \ {0} /\ LineWords \in Nat \ {0}
    /\ SectorWords \in Nat \ {0} /\ ChipWords \in Nat \ {0}
    /\ ChipWords % SectorWords = 0 /\ SectorWords % PageWords = 0
    /\ ChipWords % LineWords = 0
    /\ Wrap \in Nat /\ Wrap > ChipWords
ASSUME LinesAssumption ==
    /\ Lines \in Nat
    /\ FlashLine \in 0 .. Lines - 1
    /\ PortLines \subseteq 0 .. Lines - 1 /\ FlashLine \notin PortLines
ASSUME BlankAssumption == Blank \notin Int

Words == 0 .. ChipWords - 1
CPULines == 0 .. Lines - 1
Numbers == 0 .. Wrap - 1
Top == 15               \* rsil 15

VARIABLES
    chip,           \* the flash
    stale,          \* the words whose copy in the data cache may be old
    suspended,      \* the caches that do not serve
    level,          \* PS.INTLEVEL
    intenable,      \* INTENABLE
    wanted,         \* history: the interrupts that somebody has enabled
    quiet,          \* nobody enables one while a call is under way
    handler,        \* _xt_interrupt_table
    pending,        \* the software interrupt is set
    work,           \* flash_work_t: what to do
    done,           \* work.done
    result,         \* work.result is 0
    pc,             \* where the caller is
    wpc,            \* where flash_work is
    asked,          \* the parameters of the call, when they are accepted
    offset, size,   \* the locals of the call: what is still to do (a local
                    \* that is not used any more is reset)
    enable,         \* run: INTENABLE as it was read
    ps,             \* flash_work: PS as it was
    told,           \* what the last call returned
    crashed         \* something was fetched while the caches did not serve

flash == <<chip, stale, suspended, crashed>>
interrupts == <<intenable, wanted, quiet, handler, pending>>
locals == <<asked, offset, size, enable, told>>
vars == <<flash, level, interrupts, work, done, result, pc, wpc, locals, ps>>

Range(first, n) == first .. first + n - 1
\* The lines of the cache that some of these words are in.
InLines(words) ==
    {a \in Words : \E b \in words : a \div LineWords = b \div LineWords}

NoWork == [kind |-> "erase", at |-> 0, size |-> 0]

Init ==
    /\ chip = [a \in Words |-> a]
    /\ stale = {}
    /\ suspended = {}
    /\ crashed = FALSE
    /\ level = 0
    /\ intenable = PortLines
    /\ wanted = PortLines
    /\ quiet \in BOOLEAN
    /\ handler = [l \in CPULines |->
                    IF l \in PortLines THEN "port" ELSE "unhandled"]
    /\ pending = FALSE
    /\ work = NoWork
    /\ done = FALSE
    /\ result = TRUE
    /\ pc = "reset"
    /\ wpc = "none"
    /\ asked = NoWork
    /\ offset = 0
    /\ size = 0
    /\ enable = {}
    /\ ps = 0
    /\ told = "none"

Free(l) == handler[l] = "unhandled"

\* dmboot_xtensa_irq_init( count ), which main calls before the scheduler.
IrqInit ==
    /\ pc = "reset"
    /\ \E count \in 0 .. Lines :
          handler' = [l \in CPULines |->
                        IF l < count /\ Free(l) THEN "modules" ELSE handler[l]]
    /\ pc' = "idle"
    /\ UNCHANGED <<flash, level, intenable, wanted, quiet, pending, work, done,
                   result, wpc, locals, ps>>

-----------------------------------------------------------------------------
(***************************************************************************)
(* _flash_erase and _flash_program, by a thread that may be in a critical  *)
(* section.                                                                *)
(***************************************************************************)

\* Nothing that could be interrupted goes on while the software interrupt is
\* to be taken, or is being served.
Interruptible == level = 0 /\ pending /\ FlashLine \in intenable
Caller == ~crashed /\ wpc = "none" /\ ~Interruptible
Goes(from, to) == Caller /\ pc = from /\ pc' = to

Outside(first, n) == first > ChipWords \/ n > ChipWords - first

\* How a loop goes on or the call returns 0.
Continues(kind) == IF kind = "erase" THEN "erase" ELSE "fill"
GoOn(kind, at, n) ==
    /\ offset' = IF n = 0 THEN 0 ELSE at
    /\ size' = n
    /\ pc' = IF n = 0 THEN "idle" ELSE Continues(kind)
    /\ told' = IF n = 0 THEN "OK" ELSE "none"

\* The range does not fit, sectors are not whole; also when there is no data,
\* or bytes that are not words.
Refuse ==
    /\ Caller /\ pc = "idle"
    /\ told' = "EINVAL"
    /\ asked' = NoWork
    /\ UNCHANGED <<flash, level, interrupts, work, done, result, pc, wpc,
                   offset, size, enable, ps>>

Call(kind, first, n) ==
    /\ Caller /\ pc = "idle"
    /\ ~Outside(first, n)
    /\ GoOn(kind, first, n)
    /\ asked' = [kind |-> kind, at |-> first, size |-> n]
    /\ UNCHANGED <<flash, level, interrupts, work, done, result, wpc, enable,
                   ps>>

Erase ==
    \E first, n \in Numbers :
        /\ first % SectorWords = 0 /\ n % SectorWords = 0
        /\ Call("erase", first, n)

\* "The part erased before": what is to be programmed is blank.
Program ==
    \E first, n \in Numbers :
        /\ \A a \in Words \cap Range(first, n) : chip[a] = Blank
        /\ Call("program", first, n)

\* The next sector.
EraseStep ==
    /\ Goes("erase", "prepare")
    /\ work' = [kind |-> "erase", at |-> offset, size |-> SectorWords]
    /\ UNCHANGED <<flash, level, interrupts, done, result, wpc, locals, ps>>

\* Mutant: a whole page, wherever it begins.
WholePage == PageWords
\* "Up to the end of the page of the chip".
ToEndOfPage == PageWords - (offset % PageWords)
\* Mutant: not less when less is left.
ChunkUnlimited == ToEndOfPage
Chunk == IF ToEndOfPage > size THEN size ELSE ToEndOfPage

FillPage ==
    /\ Goes("fill", "prepare")
    /\ work' = [kind |-> "program", at |-> offset, size |-> Chunk]
    /\ UNCHANGED <<flash, level, interrupts, done, result, wpc, locals, ps>>

(***************************************************************************)
(* run.                                                                    *)
(***************************************************************************)

\* Mutant: done is left from the last time.
DoneAsItWas == done
NotDone == FALSE

Prepare ==
    /\ Goes("prepare", "read")
    /\ done' = NotDone
    /\ handler' = [handler EXCEPT ![FlashLine] = "flash"]
    /\ UNCHANGED <<flash, level, intenable, wanted, quiet, pending, work,
                   result, wpc, locals, ps>>

ReadEnable ==
    /\ Goes("read", "write")
    /\ enable' = intenable
    /\ UNCHANGED <<flash, level, interrupts, work, done, result, wpc, asked,
                   offset, size, told, ps>>

\* Mutant: only the software interrupt is enabled.
OnlyFlash == {FlashLine}
\* Mutant: the line is taken to be enabled.
NotEnabled == enable
Enabled == enable \cup {FlashLine}

WriteEnable ==
    /\ Goes("write", "set")
    /\ intenable' = Enabled
    /\ enable' = {}
    /\ UNCHANGED <<flash, level, wanted, quiet, handler, pending, work, done,
                   result, wpc, asked, offset, size, told, ps>>

SetInterrupt ==
    /\ Goes("set", "wait")
    /\ pending' = TRUE
    /\ UNCHANGED <<flash, level, intenable, wanted, quiet, handler, work, done,
                   result, wpc, locals, ps>>

\* The loop sees work.done; the work may have failed.
Wait ==
    /\ Caller /\ pc = "wait"
    /\ done
    /\ IF result
       THEN GoOn(work.kind, offset + work.size, size - work.size)
       ELSE /\ pc' = "idle" /\ told' = "EIO"
            /\ offset' = 0 /\ size' = 0
    /\ UNCHANGED <<flash, level, interrupts, work, done, result, wpc, asked,
                   enable, ps>>

-----------------------------------------------------------------------------
(***************************************************************************)
(* flash_work, in the handler of the software interrupt.                   *)
(***************************************************************************)

WorkGoes(from, to) == ~crashed /\ wpc = from /\ wpc' = to

\* The vector of the port clears the interrupt and calls the handler.
TakeInterrupt ==
    /\ Interruptible
    /\ handler[FlashLine] = "flash"
    /\ WorkGoes("none", "mask")
    /\ level' = 1
    /\ pending' = FALSE
    /\ UNCHANGED <<flash, intenable, wanted, quiet, handler, work, done,
                   result, pc, locals, ps>>

\* Mutant: only interrupts of the level of the work are held back.
MaskedLow == level
Masked == Top

Mask ==
    /\ WorkGoes("mask", "suspendD")
    /\ ps' = level
    /\ level' = Masked
    /\ UNCHANGED <<flash, interrupts, work, done, result, pc, locals>>

Suspend(cache, from, to) ==
    /\ WorkGoes(from, to)
    /\ suspended' = suspended \cup {cache}
    /\ UNCHANGED <<chip, stale, crashed, level, interrupts, work, done, result,
                   pc, locals, ps>>

WorkRange == Range(work.at, work.size)
AfterWork(a) == IF work.kind = "erase" THEN Blank ELSE a

\* The ROM erases or programs; when it says that it failed it may have done it
\* or not.
Spi ==
    /\ WorkGoes("spi", "invalidate")
    /\ \/ /\ chip' = [a \in Words |->
                        IF a \in WorkRange THEN AfterWork(a) ELSE chip[a]]
          /\ stale' = stale \cup (WorkRange \cap Words)
          /\ result' \in BOOLEAN
       \/ /\ UNCHANGED <<chip, stale>>
          /\ result' = FALSE
    /\ UNCHANGED <<suspended, crashed, level, interrupts, work, done, pc,
                   locals, ps>>

\* What ROM_CACHE_INVALIDATE_ADDR is asked for.
Invalidated == WorkRange

Invalidate ==
    /\ WorkGoes("invalidate", "resumeI")
    /\ stale' = stale \ InLines(Invalidated \cap Words)
    /\ UNCHANGED <<chip, suspended, crashed, level, interrupts, work, done,
                   result, pc, locals, ps>>

Resume(cache, from, to) ==
    /\ WorkGoes(from, to)
    /\ suspended' = suspended \ {cache}
    /\ UNCHANGED <<chip, stale, crashed, level, interrupts, work, done, result,
                   pc, locals, ps>>

Restore ==
    /\ WorkGoes("restore", "done")
    /\ level' = ps
    /\ ps' = 0
    /\ UNCHANGED <<flash, interrupts, work, done, result, pc, locals>>

Finish ==
    /\ WorkGoes("done", "return")
    /\ done' = TRUE
    /\ UNCHANGED <<flash, level, interrupts, work, result, pc, locals, ps>>

ReturnFromInterrupt ==
    /\ WorkGoes("return", "none")
    /\ level' = 0
    /\ UNCHANGED <<flash, interrupts, work, done, result, pc, locals, ps>>

FlashWork ==
    \/ Mask
    \/ Suspend("d", "suspendD", "suspendI") \/ Suspend("i", "suspendI", "spi")
    \/ Spi \/ Invalidate
    \/ Resume("i", "resumeI", "resumeD") \/ Resume("d", "resumeD", "restore")
    \/ Restore \/ Finish \/ ReturnFromInterrupt

-----------------------------------------------------------------------------
(***************************************************************************)
(* What is around it.                                                      *)
(***************************************************************************)

\* Another interrupt is served, or another thread runs: both need the caches,
\* and may enable interrupts.
OtherCode ==
    /\ level < Top /\ ~crashed
    /\ crashed' = (suspended # {})
    /\ \E lines \in SUBSET (CPULines \ {FlashLine}) :
          /\ quiet => lines = {} \/ pc = "idle"
          /\ intenable' = intenable \cup lines
          /\ wanted' = wanted \cup lines
    /\ UNCHANGED <<chip, stale, suspended, level, quiet, handler, pending, work,
                   done, result, pc, wpc, locals, ps>>

\* Between two calls the thread enters or leaves a critical section.
CriticalSection ==
    /\ Caller /\ pc = "idle"
    /\ level' = IF level = 0 THEN Top ELSE 0
    /\ UNCHANGED <<flash, interrupts, work, done, result, pc, wpc, locals, ps>>

Calling ==
    \/ EraseStep \/ FillPage \/ Prepare \/ ReadEnable \/ WriteEnable
    \/ SetInterrupt \/ Wait

Next ==
    \/ IrqInit \/ Refuse \/ Erase \/ Program \/ Calling
    \/ TakeInterrupt \/ FlashWork
    \/ OtherCode \/ CriticalSection

Spec == Init /\ [][Next]_vars
\* The processor goes on with the call and with the interrupt.
FairSpec == Spec /\ WF_vars(Calling) /\ WF_vars(TakeInterrupt \/ FlashWork)

-----------------------------------------------------------------------------
(***************************************************************************)
(* What is right.                                                          *)
(***************************************************************************)

Work == [kind: {"erase", "program"}, at: Numbers, size: Numbers]

\* The types; a chunk of a program is in one page of the chip, which is what
\* work.page has room for, and no sector or word behind the chip is ever asked
\* for.
TypeOK ==
    /\ chip \in [Words -> Words \cup {Blank}]
    /\ stale \subseteq Words
    /\ suspended \subseteq {"d", "i"}
    /\ crashed \in BOOLEAN
    /\ level \in {0, 1, Top} /\ ps \in {0, 1}
    /\ intenable \subseteq CPULines /\ wanted \subseteq CPULines
    /\ enable \subseteq CPULines
    /\ quiet \in BOOLEAN
    /\ handler \in [CPULines -> {"unhandled", "port", "modules", "flash"}]
    /\ pending \in BOOLEAN /\ done \in BOOLEAN /\ result \in BOOLEAN
    /\ work \in Work /\ asked \in Work
    /\ work.at + work.size <= ChipWords
    /\ work.kind = "program" =>
            (work.at % PageWords) + work.size <= PageWords
    /\ offset \in 0 .. ChipWords /\ size \in 0 .. ChipWords
    /\ pc \in {"reset", "idle", "erase", "fill", "prepare", "read", "write",
               "set", "wait"}
    /\ wpc \in {"none", "mask", "suspendD", "suspendI", "spi", "invalidate",
                "resumeI", "resumeD", "restore", "done", "return"}
    /\ told \in {"none", "OK", "EINVAL", "EIO"}

\* The caller goes on at the level it had: outside of a critical section at 0.
LevelComesBack ==
    /\ wpc = "none" => level # 1
    /\ wpc \in {"done", "return"} => level = 1

\* While the SPI works on the flash neither cache can serve anybody: nothing
\* else runs from the time that the first one is suspended until both are back,
\* and then everything runs again.
NothingRunsInTheWork ==
    /\ ~crashed
    /\ wpc \in {"spi", "invalidate"} => suspended = {"d", "i"} /\ level = Top
    /\ LevelComesBack

\* When the caches serve, no line of the data cache is older than the flash.
CacheFollowsFlash == "d" \notin suspended => stale = {}

\* A call that returned 0 has done all of it: each word of the range is erased,
\* or is the one of the data that belongs there.
OkMeansDone ==
    pc = "idle" /\ told = "OK" =>
        \A a \in Range(asked.at, asked.size) :
            chip[a] = IF asked.kind = "erase" THEN Blank ELSE a

\* Who reads the flash behind a call reads what the call has said of it, and
\* behind one that failed what is there.
ReadsAreRight == CacheFollowsFlash /\ OkMeansDone

\* Only words of the range that was asked for change, also in a call that
\* fails, and nothing at all after a refusal.
OnlyTheRangeChanges ==
    [][\A a \in Words :
        chip'[a] # chip[a] =>
            /\ a \in Range(asked.at, asked.size)
            /\ pc = "wait"]_vars

\* The interrupts that others have enabled stay enabled, and the tick of the
\* port keeps its handler.  The first holds as long as nobody enables one
\* between the two instructions that read and write INTENABLE.
LinesAreKept ==
    /\ quiet => wanted \subseteq intenable
    /\ \A l \in PortLines : handler[l] = "port"

\* A call made outside of a critical section returns.  (Inside of one the
\* software interrupt is never taken and the caller waits for ever.)
CallsReturn == (pc # "idle" /\ pc # "reset" /\ level # Top) ~> pc = "idle"

=============================================================================
