-------------------------- MODULE XtensaFlashProofs --------------------------
(***************************************************************************)
(* The flash of the ESP32-S3 at run time, for chips, sectors, pages, lines *)
(* and interrupts of any number: nothing runs while the caches are off, a  *)
(* call does what it says and nothing else, and interrupts are kept.       *)
(***************************************************************************)
EXTENDS XtensaFlash, TLAPS

-----------------------------------------------------------------------------
(***************************************************************************)
(* Whole sectors.                                                          *)
(***************************************************************************)

LEMMA Sizes ==
    /\ PageWords \in Nat /\ PageWords > 0 /\ SectorWords \in Nat /\ SectorWords > 0
    /\ ChipWords \in Nat /\ Wrap \in Nat /\ ChipWords < Wrap /\ ChipWords > 0
BY SizesAssumption

LEMMA Divided == ASSUME NEW x \in Nat
                 PROVE  /\ x \div SectorWords \in Nat
                        /\ x = SectorWords * (x \div SectorWords) + (x % SectorWords)
BY Sizes, SMTT(30)

LEMMA Multiple == ASSUME NEW q \in Nat PROVE (SectorWords * q) % SectorWords = 0
BY Sizes, SMTT(30)

\* One sector more or less is whole sectors again.
LEMMA WholeSectors ==
    ASSUME NEW x \in Nat, x % SectorWords = 0
    PROVE  /\ (x + SectorWords) % SectorWords = 0
           /\ x > 0 => x >= SectorWords /\ (x - SectorWords) % SectorWords = 0
<1>. DEFINE q == x \div SectorWords
<1>1. q \in Nat /\ x = SectorWords * q
  BY Divided, Sizes
<1>. HIDE DEF q
<1>2. x + SectorWords = SectorWords * (q + 1)
  BY <1>1, Sizes, SMTT(30)
<1>3. ASSUME x > 0
      PROVE  x >= SectorWords /\ (x - SectorWords) % SectorWords = 0
  <2>1. q # 0
    BY <1>1, <1>3, Sizes
  <2>. DEFINE p == q - 1
  <2>2. p \in Nat /\ q = p + 1
    BY <1>1, <2>1
  <2>. HIDE DEF p
  <2>3. x = SectorWords * p + SectorWords /\ SectorWords * p \in Nat
    BY <1>1, <2>2, Sizes, SMTT(30)
  <2>4. x - SectorWords = SectorWords * p
    BY <2>3, Sizes
  <2>. QED
    BY <2>2, <2>3, <2>4, Multiple, Sizes
<1>4. (SectorWords * (q + 1)) % SectorWords = 0
  BY <1>1, Multiple
<1>. QED
  BY <1>2, <1>3, <1>4

LEMMA InPage == ASSUME NEW x \in Nat PROVE x % PageWords \in 0 .. PageWords - 1
BY Sizes, SMTT(30)

\* What is written to one page lies in it.
LEMMA ChunkFacts ==
    ASSUME offset \in Nat, size \in Nat, size > 0
    PROVE  /\ Chunk \in Nat /\ 0 < Chunk /\ Chunk <= size
           /\ (offset % PageWords) + Chunk <= PageWords
BY InPage, Sizes DEF Chunk, ToEndOfPage

-----------------------------------------------------------------------------
(***************************************************************************)
(* The invariant.                                                          *)
(***************************************************************************)

Busy == {"erase", "fill", "prepare", "read", "write", "set", "wait"}
Prepared == {"prepare", "read", "write", "set", "wait"}
BothOff == {"spi", "invalidate", "resumeI"}
Worked == {"invalidate", "resumeI", "resumeD", "restore", "done", "return"}

\* Where the work in the interrupt is: with what level, and which caches.
WorkInv ==
    /\ ~crashed
    /\ wpc = "none" => level # 1
    /\ wpc \in {"mask", "done", "return"} => level = 1
    /\ wpc \notin {"none", "mask", "done", "return"} => level = Top /\ ps = 1
    /\ wpc \in BothOff => suspended = {"d", "i"}
    /\ wpc \in {"suspendI", "resumeD"} => suspended = {"d"}
    /\ wpc \notin BothOff \cup {"suspendI", "resumeD"} => suspended = {}
    /\ IF wpc = "invalidate" THEN stale \subseteq WorkRange ELSE stale = {}

\* How the call hands the work over and takes it back.
HandInv ==
    /\ pc \in {"read", "write", "set"} => ~done /\ ~pending
    /\ pending => pc = "wait" /\ ~done /\ wpc = "none"
    /\ wpc # "none" => pc = "wait" /\ (done <=> wpc = "return")
    /\ pc = "wait" /\ wpc = "none" => pending \/ done

\* How far the call has come in its range.
RangeInv ==
    /\ asked.at + asked.size <= ChipWords
    /\ pc \in Busy =>
          /\ size > 0 /\ asked.at <= offset
          /\ offset + size = asked.at + asked.size
          /\ asked.kind = "erase" => offset % SectorWords = 0 /\ size % SectorWords = 0
    /\ pc = "erase" => asked.kind = "erase"
    /\ pc = "fill" => asked.kind = "program"
    /\ pc \in Prepared =>
          /\ work.kind = asked.kind /\ work.at = offset
          /\ 0 < work.size /\ work.size <= size
          /\ work.kind = "erase" => work.size = SectorWords

AsAsked(a) == chip[a] = IF asked.kind = "erase" THEN Blank ELSE a

\* What was passed is done; so is the piece of work that came back well.
DoneInv ==
    /\ pc \in Busy => \A a \in asked.at .. offset - 1 : AsAsked(a)
    /\ pc = "wait" /\ result /\ (wpc \in Worked \/ (wpc = "none" /\ done)) =>
          \A a \in WorkRange : AsAsked(a)
    /\ OkMeansDone
    /\ pc \in Busy \cup {"reset"} => told = "none"

\* What run has read of INTENABLE is what it will write.
KeptInv ==
    /\ LinesAreKept
    /\ pc = "write" /\ quiet => wanted \subseteq enable

FlashInv ==
    /\ TypeOK /\ WorkInv /\ HandInv /\ RangeInv /\ DoneInv /\ KeptInv

LEMMA InitInv == Init => FlashInv
<1>. SUFFICES ASSUME Init PROVE FlashInv
  OBVIOUS
<1>. USE Sizes, LinesAssumption DEF Init, NoWork
<1>1. TypeOK
  <2>1. 0 % PageWords \in 0 .. PageWords - 1 /\ NoWork \in Work
    BY InPage DEF Work, Numbers
  <2>2. /\ chip \in [Words -> Words \cup {Blank}] /\ stale \subseteq Words
        /\ handler \in [CPULines -> {"unhandled", "port", "modules", "flash"}]
        /\ intenable \subseteq CPULines /\ wanted \subseteq CPULines
    BY DEF CPULines
  <2>3. /\ work \in Work /\ asked \in Work /\ work.at + work.size <= ChipWords
        /\ work.kind # "program" /\ offset \in 0 .. ChipWords
        /\ size \in 0 .. ChipWords
    BY <2>1
  <2>. HIDE DEF NoWork
  <2>. QED
    BY <2>2, <2>3 DEF TypeOK
<1>2. WorkInv /\ HandInv /\ KeptInv
  BY DEF WorkInv, HandInv, KeptInv, LinesAreKept, BothOff, CPULines
<1>3. RangeInv /\ DoneInv
  BY DEF RangeInv, DoneInv, OkMeansDone, Busy, Prepared
<1>. QED
  BY <1>1, <1>2, <1>3 DEF FlashInv

-----------------------------------------------------------------------------
(***************************************************************************)
(* Each part of it is kept.                                                *)
(***************************************************************************)

CallerNext == IrqInit \/ Refuse \/ Erase \/ Program \/ Calling

LEMMA CallerFrame ==
    CallerNext => /\ UNCHANGED <<flash, level, result, wpc, ps, quiet, wanted>>
                  /\ IrqInit \/ Caller
BY DEF CallerNext, IrqInit, Refuse, Erase, Program, Call, Calling, EraseStep, FillPage,
       Prepare, ReadEnable, WriteEnable, SetInterrupt, Wait, Goes, Caller, interrupts

LEMMA WorkFrame ==
    FlashWork => UNCHANGED <<interrupts, work, pc, locals>>
BY DEF FlashWork, Mask, Suspend, Spi, Invalidate, Resume, Restore, Finish,
       ReturnFromInterrupt, WorkGoes

\* Levels and caches.
LEMMA NextWork == TypeOK /\ WorkInv /\ HandInv /\ [Next]_vars => WorkInv'
<1>. SUFFICES ASSUME TypeOK, WorkInv, HandInv, [Next]_vars PROVE WorkInv'
  OBVIOUS
<1>. USE DEF WorkInv, BothOff, Top
<1>1. CASE UNCHANGED vars
  BY <1>1 DEF vars, flash, WorkRange
<1>2. CASE CallerNext
  <2>1. wpc = "none" /\ wpc' = "none"
    BY <1>2, CallerFrame DEF Caller, IrqInit, HandInv
  <2>. QED
    BY <1>2, <2>1, CallerFrame DEF flash
<1>3. CASE TakeInterrupt \/ Mask \/ Restore \/ Finish \/ ReturnFromInterrupt
  <2>1. UNCHANGED <<stale, suspended, crashed>> /\ suspended = {} /\ stale = {}
    BY <1>3 DEF TakeInterrupt, Mask, Restore, Finish, ReturnFromInterrupt, WorkGoes,
                flash
  <2>2. /\ wpc' \in {"none", "mask", "suspendD", "done", "return"}
        /\ wpc' = "none" => level' # 1
        /\ wpc' \in {"mask", "done", "return"} => level' = 1
        /\ wpc' = "suspendD" => level' = Top /\ ps' = 1
    BY <1>3 DEF TakeInterrupt, Mask, Masked, Restore, Finish, ReturnFromInterrupt,
                WorkGoes
  <2>. QED
    BY <2>1, <2>2
<1>4. CASE Suspend("d", "suspendD", "suspendI")
  BY <1>4 DEF Suspend, WorkGoes
<1>5. CASE Suspend("i", "suspendI", "spi")
  BY <1>5 DEF Suspend, WorkGoes
<1>6. CASE Spi
  BY <1>6 DEF Spi, WorkGoes, WorkRange
<1>7. CASE Invalidate
  <2>1. stale \subseteq InLines(WorkRange \cap Words)
    BY <1>7 DEF Invalidate, WorkGoes, InLines, TypeOK
  <2>. QED
    BY <1>7, <2>1 DEF Invalidate, Invalidated, WorkGoes
<1>8. CASE Resume("i", "resumeI", "resumeD")
  BY <1>8 DEF Resume, WorkGoes
<1>9. CASE Resume("d", "resumeD", "restore")
  BY <1>9 DEF Resume, WorkGoes
<1>10. CASE OtherCode
  <2>1. wpc \in {"none", "mask", "done", "return"} /\ suspended = {}
    BY <1>10 DEF OtherCode
  <2>. QED
    BY <1>10, <2>1 DEF OtherCode
<1>11. CASE CriticalSection
  BY <1>11 DEF CriticalSection, Caller, flash
<1>. QED
  BY <1>1, <1>2, <1>3, <1>4, <1>5, <1>6, <1>7, <1>8, <1>9, <1>10, <1>11
     DEF Next, CallerNext, FlashWork

\* The hand-over.
LEMMA NextHand == HandInv /\ [Next]_vars => HandInv'
<1>. SUFFICES ASSUME HandInv, [Next]_vars PROVE HandInv'
  OBVIOUS
<1>. USE DEF HandInv
<1>1. CASE UNCHANGED vars \/ OtherCode \/ CriticalSection \/ IrqInit
  BY <1>1 DEF vars, interrupts, OtherCode, CriticalSection, IrqInit, Caller
<1>2. CASE Refuse \/ Erase \/ Program \/ Wait
  BY <1>2 DEF Refuse, Erase, Program, Call, Wait, GoOn, Continues, Caller, interrupts
<1>3. CASE EraseStep \/ FillPage \/ Prepare \/ ReadEnable \/ WriteEnable \/ SetInterrupt
  BY <1>3 DEF EraseStep, FillPage, Prepare, NotDone, ReadEnable, WriteEnable,
              SetInterrupt, Goes, Caller, interrupts
<1>4. CASE TakeInterrupt
  BY <1>4 DEF TakeInterrupt, Interruptible, WorkGoes
<1>5. CASE FlashWork
  <2>1. UNCHANGED <<pc, pending>>
    BY <1>5, WorkFrame DEF interrupts
  <2>2. wpc # "none" /\ (done' <=> wpc' \in {"return", "none"})
    BY <1>5 DEF FlashWork, Mask, Suspend, Spi, Invalidate, Resume, Restore, Finish,
                ReturnFromInterrupt, WorkGoes
  <2>. QED
    BY <2>1, <2>2
<1>. QED
  BY <1>1, <1>2, <1>3, <1>4, <1>5 DEF Next, Calling

\* The interrupts of others.
LEMMA NextKept == TypeOK /\ KeptInv /\ [Next]_vars => KeptInv'
<1>. SUFFICES ASSUME TypeOK, KeptInv, [Next]_vars PROVE KeptInv'
  OBVIOUS
<1>. USE LinesAssumption DEF KeptInv, LinesAreKept
<1>1. CASE FlashWork \/ UNCHANGED vars \/ TakeInterrupt \/ CriticalSection
  <2>1. UNCHANGED <<intenable, wanted, quiet, handler, enable, pc>>
    BY <1>1, WorkFrame DEF vars, TakeInterrupt, CriticalSection, interrupts, locals
  <2>. QED
    BY <2>1
<1>2. CASE OtherCode
  BY <1>2 DEF OtherCode, locals
<1>3. CASE IrqInit
  BY <1>3 DEF IrqInit, Free, TypeOK, CPULines
<1>4. CASE Refuse \/ Erase \/ Program \/ EraseStep \/ FillPage \/ SetInterrupt \/ Wait
  <2>1. UNCHANGED <<intenable, wanted, quiet, handler>> /\ pc' # "write"
    BY <1>4 DEF Refuse, Erase, Program, Call, EraseStep, FillPage, SetInterrupt, Wait,
                GoOn, Continues, Goes, interrupts
  <2>. QED
    BY <2>1
<1>5. CASE Prepare
  BY <1>5 DEF Prepare, Goes, TypeOK, CPULines
<1>6. CASE ReadEnable
  BY <1>6 DEF ReadEnable, Goes, interrupts
<1>7. CASE WriteEnable
  BY <1>7 DEF WriteEnable, Enabled, Goes
<1>. QED
  BY <1>1, <1>2, <1>3, <1>4, <1>5, <1>6, <1>7 DEF Next, Calling

\* Types, in three parts: the call, the flash and the interrupts.
CallType ==
    /\ work \in Work /\ asked \in Work
    /\ work.at + work.size <= ChipWords
    /\ work.kind = "program" => (work.at % PageWords) + work.size <= PageWords
    /\ offset \in 0 .. ChipWords /\ size \in 0 .. ChipWords
    /\ pc \in Busy \cup {"reset", "idle"}
    /\ told \in {"none", "OK", "EINVAL", "EIO"}

FlashType ==
    /\ chip \in [Words -> Words \cup {Blank}] /\ stale \subseteq Words
    /\ suspended \subseteq {"d", "i"} /\ crashed \in BOOLEAN
    /\ level \in {0, 1, Top} /\ ps \in {0, 1} /\ result \in BOOLEAN
    /\ wpc \in BothOff \cup Worked \cup {"none", "mask", "suspendD", "suspendI"}

LineType ==
    /\ intenable \subseteq CPULines /\ wanted \subseteq CPULines
    /\ enable \subseteq CPULines /\ quiet \in BOOLEAN
    /\ handler \in [CPULines -> {"unhandled", "port", "modules", "flash"}]
    /\ pending \in BOOLEAN /\ done \in BOOLEAN

LEMMA TypeParts == TypeOK <=> CallType /\ FlashType /\ LineType
BY DEF TypeOK, CallType, FlashType, LineType, Busy, BothOff, Worked

\* No sector, page or word is asked for that is not there.
LEMMA NextCallType ==
    CallType /\ RangeInv /\ [Next]_vars => CallType'
<1>. SUFFICES ASSUME CallType, RangeInv, [Next]_vars PROVE CallType'
  OBVIOUS
<1>. USE Sizes DEF CallType, Busy
<1>1. CASE UNCHANGED <<work, asked, offset, size, pc, told>>
  BY <1>1
<1>2. CASE IrqInit
  BY <1>2 DEF IrqInit, locals
<1>3. CASE Refuse
  BY <1>3 DEF Refuse, NoWork, Work, Numbers
<1>4. CASE Erase \/ Program
  <2>1. PICK kind \in {"erase", "program"}, first, n \in Numbers : Call(kind, first, n)
    BY <1>4 DEF Erase, Program
  <2>2. first \in 0 .. ChipWords /\ n \in 0 .. ChipWords
    BY <2>1 DEF Call, Outside, Numbers
  <2>. QED
    BY <2>1, <2>2 DEF Call, GoOn, Continues, Work, Numbers
<1>5. CASE EraseStep
  <2>1. SectorWords <= size /\ size > 0 /\ offset + size <= ChipWords
    BY <1>5, WholeSectors DEF EraseStep, Goes, RangeInv
  <2>. QED
    BY <1>5, <2>1 DEF EraseStep, Goes, locals, Work, Numbers
<1>6. CASE FillPage
  <2>1. size > 0 /\ offset + size <= ChipWords
    BY <1>6 DEF FillPage, Goes, RangeInv
  <2>2. /\ Chunk \in Nat /\ 0 < Chunk /\ Chunk <= size
        /\ (offset % PageWords) + Chunk <= PageWords
    BY <2>1, ChunkFacts
  <2>. QED
    BY <1>6, <2>1, <2>2 DEF FillPage, Goes, locals, Work, Numbers
<1>7. CASE Prepare \/ ReadEnable \/ WriteEnable \/ SetInterrupt
  <2>1. UNCHANGED <<work, asked, offset, size, told>> /\ pc' \in Busy
    BY <1>7 DEF Prepare, ReadEnable, WriteEnable, SetInterrupt, Goes, locals
  <2>. QED
    BY <2>1
<1>8. CASE Wait
  <2>1. /\ work.size <= size /\ work.size > 0 /\ offset + size <= ChipWords
        /\ work.size \in Nat
    BY <1>8 DEF Wait, RangeInv, Prepared, Work, Numbers
  <2>2. offset + work.size \in 0 .. ChipWords /\ size - work.size \in 0 .. ChipWords
    BY <2>1
  <2>. QED
    BY <1>8, <2>2 DEF Wait, GoOn, Continues
<1>. QED
  BY <1>1, <1>2, <1>3, <1>4, <1>5, <1>6, <1>7, <1>8, WorkFrame
     DEF Next, Calling, vars, locals, TakeInterrupt, OtherCode, CriticalSection

LEMMA NextFlashType == FlashType /\ WorkInv /\ [Next]_vars => FlashType'
<1>. SUFFICES ASSUME FlashType, WorkInv, [Next]_vars PROVE FlashType'
  OBVIOUS
<1>. USE DEF FlashType, BothOff, Worked
<1>1. CASE CallerNext \/ UNCHANGED vars
  BY <1>1, CallerFrame DEF vars, flash
<1>2. CASE TakeInterrupt \/ OtherCode \/ CriticalSection
  <2>1. /\ UNCHANGED <<chip, stale, suspended, ps, result>> /\ crashed' \in BOOLEAN
        /\ level' \in {0, 1, Top} /\ wpc' \in {wpc, "mask"}
    BY <1>2 DEF TakeInterrupt, OtherCode, CriticalSection, WorkGoes, flash
  <2>. QED
    BY <2>1
<1>3. CASE Mask \/ Restore \/ Finish \/ ReturnFromInterrupt
  <2>1. /\ UNCHANGED <<flash, result>>
        /\ level' \in {0, 1, Top} /\ ps' \in {0, 1}
        /\ wpc' \in {"suspendD", "done", "return", "none"}
    BY <1>3 DEF Mask, Masked, Restore, Finish, ReturnFromInterrupt, WorkGoes, WorkInv
  <2>. QED
    BY <2>1 DEF flash
<1>4. CASE \/ Suspend("d", "suspendD", "suspendI") \/ Suspend("i", "suspendI", "spi")
           \/ Invalidate
           \/ Resume("i", "resumeI", "resumeD") \/ Resume("d", "resumeD", "restore")
  <2>1. /\ UNCHANGED <<chip, crashed, level, ps, result>>
        /\ stale' \subseteq Words /\ suspended' \subseteq {"d", "i"}
        /\ wpc' \in BothOff \cup Worked \cup {"suspendI"}
    BY <1>4 DEF Suspend, Invalidate, Resume, WorkGoes
  <2>. QED
    BY <2>1
<1>5. CASE Spi
  <2>1. chip' \in [Words -> Words \cup {Blank}] /\ stale' \subseteq Words
    BY <1>5 DEF Spi, AfterWork
  <2>. QED
    BY <1>5, <2>1 DEF Spi, WorkGoes
<1>. QED
  BY <1>1, <1>2, <1>3, <1>4, <1>5 DEF Next, CallerNext, FlashWork

LEMMA NextLineType == LineType /\ [Next]_vars => LineType'
<1>. SUFFICES ASSUME LineType, [Next]_vars PROVE LineType'
  OBVIOUS
<1>. USE LinesAssumption DEF LineType
<1>1. CASE UNCHANGED <<interrupts, enable>> /\ done' \in BOOLEAN
  BY <1>1 DEF interrupts
<1>2. CASE IrqInit \/ Prepare
  <2>1. /\ handler' \in [CPULines -> {"unhandled", "port", "modules", "flash"}]
        /\ UNCHANGED <<intenable, wanted, quiet, pending, enable>> /\ done' \in BOOLEAN
    BY <1>2 DEF IrqInit, Prepare, NotDone, locals
  <2>. QED
    BY <2>1
<1>3. CASE ReadEnable \/ WriteEnable \/ SetInterrupt
  <2>1. /\ intenable' \subseteq CPULines /\ enable' \subseteq CPULines
        /\ UNCHANGED <<wanted, quiet, handler, done>> /\ pending' \in BOOLEAN
    BY <1>3 DEF ReadEnable, WriteEnable, Enabled, SetInterrupt, locals, interrupts,
                CPULines
  <2>. QED
    BY <2>1
<1>4. CASE TakeInterrupt
  BY <1>4 DEF TakeInterrupt, locals
<1>5. CASE OtherCode
  BY <1>5 DEF OtherCode, locals
<1>6. CASE FlashWork
  <2>1. done' \in BOOLEAN
    BY <1>6 DEF FlashWork, Mask, Suspend, Spi, Invalidate, Resume, Restore, Finish,
                ReturnFromInterrupt
  <2>. QED
    BY <1>1, <1>6, <2>1, WorkFrame DEF locals
<1>7. CASE \/ Refuse \/ Erase \/ Program \/ EraseStep \/ FillPage \/ Wait
           \/ CriticalSection \/ UNCHANGED vars
  <2>1. UNCHANGED <<interrupts, enable, done>>
    BY <1>7 DEF Refuse, Erase, Program, Call, EraseStep, FillPage, Wait,
                CriticalSection, vars, locals
  <2>. QED
    BY <1>1, <2>1
<1>. QED
  BY <1>2, <1>3, <1>4, <1>5, <1>6, <1>7 DEF Next, Calling

\* How far the call has come.
LEMMA NextRange == TypeOK /\ HandInv /\ RangeInv /\ [Next]_vars => RangeInv'
<1>. SUFFICES ASSUME TypeOK, HandInv, RangeInv, [Next]_vars PROVE RangeInv'
  OBVIOUS
<1>. USE Sizes DEF RangeInv, Busy, Prepared
<1>1. CASE UNCHANGED <<asked, offset, size, work, pc>>
  BY <1>1
<1>2. CASE IrqInit
  BY <1>2 DEF IrqInit, locals
<1>3. CASE Refuse
  BY <1>3 DEF Refuse, NoWork
<1>4. CASE Erase \/ Program
  <2>1. PICK kind \in {"erase", "program"}, first, n \in Numbers :
          /\ Call(kind, first, n)
          /\ kind = "erase" => first % SectorWords = 0 /\ n % SectorWords = 0
    BY <1>4 DEF Erase, Program
  <2>2. first \in Nat /\ n \in Nat /\ first + n <= ChipWords
    BY <2>1 DEF Call, Outside, Numbers
  <2>. QED
    BY <2>1, <2>2 DEF Call, GoOn, Continues
<1>5. CASE EraseStep
  <2>1. SectorWords <= size
    BY <1>5, WholeSectors DEF EraseStep, Goes, TypeOK
  <2>. QED
    BY <1>5, <2>1 DEF EraseStep, Goes, locals
<1>6. CASE FillPage
  <2>1. Chunk \in Nat /\ 0 < Chunk /\ Chunk <= size
    BY <1>6, ChunkFacts DEF FillPage, Goes, TypeOK
  <2>. QED
    BY <1>6, <2>1 DEF FillPage, Goes, locals
<1>7. CASE Prepare \/ ReadEnable \/ WriteEnable \/ SetInterrupt
  BY <1>7 DEF Prepare, ReadEnable, WriteEnable, SetInterrupt, Goes, locals
<1>8. CASE Wait
  <2>1. /\ pc = "wait" /\ UNCHANGED <<asked, work>>
        /\ work.size \in Nat /\ asked.at \in Nat /\ asked.size \in Nat
    BY <1>8 DEF Wait, TypeOK, Work, Numbers
  <2>2. CASE pc' = "idle"
    BY <2>1, <2>2
  <2>3. CASE pc' # "idle"
    <3>1. /\ size - work.size > 0 /\ offset' = offset + work.size
          /\ size' = size - work.size /\ pc' = Continues(work.kind)
      BY <1>8, <2>1, <2>3 DEF Wait, GoOn, TypeOK
    <3>2. asked.kind = "erase" =>
            (offset + work.size) % SectorWords = 0 /\ (size - work.size) % SectorWords = 0
      BY <2>1, WholeSectors DEF TypeOK
    <3>. QED
      BY <2>1, <3>1, <3>2 DEF Continues, TypeOK, Work
  <2>. QED
    BY <2>2, <2>3
<1>. QED
  BY <1>1, <1>2, <1>3, <1>4, <1>5, <1>6, <1>7, <1>8, WorkFrame
     DEF Next, Calling, vars, locals, TakeInterrupt, OtherCode, CriticalSection

\* The ROM changes nothing but what it was asked for.
LEMMA SpiFacts ==
    ASSUME Spi, NEW a \in Words, a \notin WorkRange PROVE chip'[a] = chip[a]
BY DEF Spi

\* What has been done of the range.
LEMMA NextDone ==
    TypeOK /\ HandInv /\ RangeInv /\ DoneInv /\ [Next]_vars => DoneInv'
<1>. SUFFICES ASSUME TypeOK, HandInv, RangeInv, DoneInv, [Next]_vars PROVE DoneInv'
  OBVIOUS
<1>. DEFINE Passed == asked.at .. offset - 1
            Back == pc = "wait" /\ result /\ (wpc \in Worked \/ (wpc = "none" /\ done))
<1>0. /\ asked.at \in Nat /\ asked.size \in Nat /\ work.at \in Nat
      /\ work.size \in Nat /\ offset \in Nat /\ size \in Nat
      /\ asked.kind \in {"erase", "program"}
      /\ Range(asked.at, asked.size) \subseteq Words
  BY Sizes DEF TypeOK, Work, Numbers, RangeInv, Range, Words
<1>1. ASSUME UNCHANGED <<chip, asked, work, offset>>,
             pc \in Busy \/ pc' \notin Busy, pc' # "idle" \/ pc = "idle",
             told' = told, pc' \in Busy \cup {"reset"} => pc \in Busy \cup {"reset"},
             Back' => Back
      PROVE  DoneInv'
  BY <1>1 DEF DoneInv, OkMeansDone, AsAsked, WorkRange
<1>2. CASE UNCHANGED vars \/ OtherCode \/ CriticalSection
  BY <1>1, <1>2 DEF vars, flash, locals, OtherCode, CriticalSection
<1>3. CASE IrqInit
  BY <1>3 DEF IrqInit, flash, locals, DoneInv, OkMeansDone, Busy
<1>4. CASE Refuse
  BY <1>4 DEF Refuse, DoneInv, OkMeansDone, Busy
<1>5. CASE Erase \/ Program
  <2>1. PICK kind \in {"erase", "program"}, first, n \in Numbers : Call(kind, first, n)
    BY <1>5 DEF Erase, Program
  <2>2. /\ asked'.at = first /\ asked'.size = n
        /\ IF n = 0 THEN pc' = "idle"
           ELSE offset' = first /\ pc' \in {"erase", "fill"} /\ told' = "none"
    BY <2>1 DEF Call, GoOn, Continues
  <2>. QED
    BY <2>2 DEF DoneInv, OkMeansDone, Busy, Range, Numbers
<1>6. CASE EraseStep \/ FillPage \/ Prepare \/ ReadEnable \/ WriteEnable
  <2>1. /\ UNCHANGED <<chip, asked, offset, told>> /\ pc \in Busy
        /\ pc' \in Busy \ {"wait"} /\ pc' # "idle"
    BY <1>6 DEF EraseStep, FillPage, Prepare, ReadEnable, WriteEnable, Goes, flash,
                locals, Busy
  <2>. QED
    BY <2>1 DEF DoneInv, OkMeansDone, AsAsked
<1>7. CASE SetInterrupt
  <2>1. ~Back' /\ pc \in Busy /\ pc' \in Busy /\ pc' # "idle"
    BY <1>7 DEF SetInterrupt, Goes, Caller, HandInv, Busy, Worked
  <2>. QED
    BY <1>1, <1>7, <2>1 DEF SetInterrupt, flash, locals
<1>8. CASE Wait
  <2>1. /\ pc = "wait" /\ UNCHANGED <<chip, asked, work>>
        /\ work.at = offset /\ work.size <= size
        /\ offset + size = asked.at + asked.size /\ asked.at <= offset
    BY <1>8 DEF Wait, flash, RangeInv, Busy, Prepared
  <2>2. CASE ~result
    BY <1>8, <2>2 DEF Wait, DoneInv, OkMeansDone, Busy
  <2>3. CASE result
    <3>1. \A a \in WorkRange : AsAsked(a)
      BY <1>8, <2>1, <2>3 DEF Wait, Caller, DoneInv
    <3>2. \A a \in asked.at .. offset + work.size - 1 : AsAsked(a)
      BY <1>0, <2>1, <3>1 DEF DoneInv, Busy, WorkRange, Range
    <3>3. CASE size - work.size = 0
      <4>1. pc' = "idle"
        BY <1>8, <2>3, <3>3 DEF Wait, GoOn
      <4>2. \A a \in Range(asked.at, asked.size) : AsAsked(a)
        BY <1>0, <2>1, <3>2, <3>3 DEF Range
      <4>. QED
        BY <2>1, <4>1, <4>2 DEF DoneInv, OkMeansDone, AsAsked, Busy
    <3>4. CASE size - work.size # 0
      <4>1. /\ offset' = offset + work.size /\ told' = "none"
            /\ pc' \in {"erase", "fill"}
        BY <1>8, <2>3, <3>4 DEF Wait, GoOn, Continues
      <4>2. ASSUME NEW a \in asked'.at .. offset' - 1 PROVE AsAsked(a)'
        <5>1. a \in asked.at .. offset + work.size - 1
          BY <1>0, <2>1, <4>1, <4>2
        <5>2. AsAsked(a)
          BY <3>2, <5>1
        <5>. QED
          BY <2>1, <5>2 DEF AsAsked
      <4>. QED
        BY <4>1, <4>2 DEF DoneInv, OkMeansDone, Busy
    <3>. QED
      BY <3>3, <3>4
  <2>. QED
    BY <2>2, <2>3
<1>9. CASE TakeInterrupt
  BY <1>1, <1>9 DEF TakeInterrupt, WorkGoes, flash, locals, Worked
<1>10. CASE Spi
  <2>1. /\ wpc = "spi" /\ pc = "wait" /\ UNCHANGED <<pc, asked, offset, work, told>>
        /\ work.at = offset /\ work.kind = asked.kind
    BY <1>10 DEF Spi, WorkGoes, locals, HandInv, RangeInv, Prepared
  <2>2. \A a \in Words \ WorkRange : chip'[a] = chip[a]
    BY <1>10, SpiFacts
  <2>3. WorkRange \subseteq Words /\ Passed \subseteq Words \ WorkRange
    BY <1>0, <2>1, Sizes DEF WorkRange, Range, Words, TypeOK
  <2>4. \A a \in Passed : AsAsked(a)'
    BY <2>1, <2>2, <2>3 DEF DoneInv, AsAsked, Busy
  <2>5. result' => \A a \in WorkRange : AsAsked(a)'
    BY <1>10, <2>1, <2>3 DEF Spi, AsAsked, AfterWork
  <2>. QED
    BY <2>1, <2>4, <2>5 DEF DoneInv, OkMeansDone, WorkRange, Busy
<1>11. CASE FlashWork /\ ~Spi
  <2>1. UNCHANGED <<chip, work, pc, locals, result>>
    BY <1>11, WorkFrame
       DEF FlashWork, Mask, Suspend, Invalidate, Resume, Restore, Finish,
           ReturnFromInterrupt, flash
  <2>2. /\ wpc # "none" /\ pc' = pc /\ result' = result
        /\ wpc' \in Worked \cup {"none"} => wpc \in Worked
    BY <1>11, <2>1
       DEF FlashWork, Mask, Suspend, Invalidate, Resume, Restore, Finish,
           ReturnFromInterrupt, WorkGoes, Worked
  <2>3. Back' => Back
    <3>1. result \in BOOLEAN
      BY DEF TypeOK
    <3>. QED
      BY <2>2, <3>1
  <2>. QED
    BY <1>1, <2>1, <2>3 DEF locals
<1>. QED
  BY <1>2, <1>3, <1>4, <1>5, <1>6, <1>7, <1>8, <1>9, <1>10, <1>11
     DEF Next, Calling

LEMMA NextInv == FlashInv /\ [Next]_vars => FlashInv'
<1>1. FlashInv /\ [Next]_vars => TypeOK'
  <2>1. (CallType /\ FlashType /\ LineType)' => TypeOK'
    BY DEF TypeOK, CallType, FlashType, LineType, Busy, BothOff, Worked
  <2>. QED
    BY <2>1, TypeParts, NextCallType, NextFlashType, NextLineType DEF FlashInv
<1>. QED
  BY <1>1, NextWork, NextHand, NextRange, NextDone, NextKept DEF FlashInv

-----------------------------------------------------------------------------
(***************************************************************************)
(* The theorems.                                                           *)
(***************************************************************************)

LEMMA FlashInvariant == Spec => []FlashInv
BY InitInv, NextInv, PTL DEF Spec

\* Every variable keeps its type; no piece of work is outside of the chip, and
\* no page of a program is longer than work.page (_flash_erase, _flash_program).
THEOREM FlashTypeCorrect == Spec => []TypeOK
<1>1. FlashInv => TypeOK
  BY DEF FlashInv
<1>. QED
  BY <1>1, FlashInvariant, PTL

\* While the ROM works on the flash the caches are off and nothing else runs;
\* then the level is the one from before (flash_work).
THEOREM NothingEverRunsInTheWork == Spec => []NothingRunsInTheWork
<1>1. FlashInv => NothingRunsInTheWork
  BY DEF FlashInv, WorkInv, BothOff, NothingRunsInTheWork, LevelComesBack
<1>. QED
  BY <1>1, FlashInvariant, PTL

\* No line of the data cache that serves is older than the flash, and a call
\* that returns 0 has done all of its range.
THEOREM ReadsAreAlwaysRight == Spec => []ReadsAreRight
<1>1. FlashInv => ReadsAreRight
  BY DEF FlashInv, WorkInv, BothOff, DoneInv, ReadsAreRight, CacheFollowsFlash
<1>. QED
  BY <1>1, FlashInvariant, PTL

\* The interrupts that others have enabled stay enabled while nobody enables
\* one in between, and the handlers of the port are never replaced (run,
\* dmboot_xtensa_irq_init).
THEOREM LinesAreAlwaysKept == Spec => []LinesAreKept
<1>1. FlashInv => LinesAreKept
  BY DEF FlashInv, KeptInv
<1>. QED
  BY <1>1, FlashInvariant, PTL

\* A call changes no word outside of its range, and nothing changes without one.
THEOREM NothingElseChanges == Spec => OnlyTheRangeChanges
<1>1. ASSUME FlashInv, Next, NEW a \in Words, chip'[a] # chip[a]
      PROVE  a \in Range(asked.at, asked.size) /\ pc = "wait"
  <2>1. Spi
    BY <1>1, CallerFrame
       DEF Next, CallerNext, FlashWork, Mask, Suspend, Invalidate, Resume, Restore,
           Finish, ReturnFromInterrupt, TakeInterrupt, OtherCode, CriticalSection, flash
  <2>2. pc = "wait" /\ a \in WorkRange
    BY <1>1, <2>1, SpiFacts DEF FlashInv, HandInv, Spi, WorkGoes
  <2>3. /\ work.at = offset /\ work.size <= size /\ asked.at <= offset
        /\ offset + size = asked.at + asked.size
    BY <1>1, <2>2 DEF FlashInv, RangeInv, Prepared, Busy
  <2>. QED
    BY <1>1, <2>2, <2>3 DEF FlashInv, TypeOK, Work, Numbers, WorkRange, Range
<1>2. FlashInv /\ [Next]_vars =>
        [ \A a \in Words :
            chip'[a] # chip[a] =>
                /\ a \in Range(asked.at, asked.size)
                /\ pc = "wait" ]_vars
  BY <1>1
<1>. QED
  BY <1>2, FlashInvariant, PTL DEF Spec, OnlyTheRangeChanges

=============================================================================
