------------------------- MODULE FirmwareSalProofs -------------------------
(***************************************************************************)
(* What TLAPS proves about FirmwareSal, for any number of threads and of   *)
(* blocks of memory, and any versions of the bank info.                    *)
(***************************************************************************)
EXTENDS FirmwareSal, TLAPS

\* What is told of a code of the selector is an errno.
LEMMA ErrnoType == \A code \in Codes : to_errno(code) \in Answers \ {"OTHER"}
BY DEF Codes, to_errno, Answers

\* No field behind the caller's is written, and none of both is a zero.
LEMMA CopiedFields ==
    ASSUME fields \in [firmware: 1 .. MaxFields, selector: 1 .. MaxFields],
           NEW size \in 0 .. MaxFields, NEW i \in 1 .. MaxFields
    PROVE  /\ i > size => i > Copied(size)
           /\ FromSelector(i) \in Origins
           /\ FromSelector(i) = "zero" => i > fields.selector
           /\ FromSelector(i) # "caller"
BY FieldsAssumption DEF Copied, Least, FromSelector, Origins

-----------------------------------------------------------------------------
\* The memory at the start and the layout of the info.
LEMMA InitType == Init => TypeOK
<1>1. /\ NoInfo \in [size: 0 .. MaxFields, from: [1 .. MaxFields -> Origins]]
      /\ info = NoInfo => InfoFitsTheCaller
  BY FieldsAssumption DEF NoInfo, InfoFitsTheCaller, Origins
<1>2. "OK" \in Answers \ {"OTHER"}
  BY DEF Answers, Codes
<1>. QED
  BY <1>1, <1>2 DEF Init, TypeOK, Places

LEMMA TableType ==
    ASSUME TypeOK, NEW t \in Threads, GetTable(t)
    PROVE  TypeOK'
<1>. USE DEF TypeOK, Goes, Returns, built, memory
<1>1. CASE Enter(t)
  BY <1>1, FieldsAssumption DEF Enter, NoInfo, Places, InfoFitsTheCaller, Origins
<1>2. CASE TableKnown(t)
  BY <1>2 DEF TableKnown, FirstStep, Places, Answers, InfoFitsTheCaller, Codes
<1>3. CASE FirstCall(t)
  BY <1>3 DEF FirstCall, Places, InfoFitsTheCaller
<1>4. CASE LookAtTable(t)
  BY <1>4 DEF LookAtTable, Places, Answers, InfoFitsTheCaller, Codes
<1>5. CASE BeginInit(t)
  BY <1>5 DEF BeginInit, Places, Answers, InfoFitsTheCaller, Codes
<1>6. CASE EndInit(t)
  BY <1>6 DEF EndInit, Places, InfoFitsTheCaller
<1>7. CASE Publish(t)
  BY <1>7 DEF Publish, FirstStep, Places, InfoFitsTheCaller
<1>. QED
  BY <1>1, <1>2, <1>3, <1>4, <1>5, <1>6, <1>7 DEF GetTable

LEMMA ScratchType ==
    ASSUME TypeOK, NEW t \in Threads, WithScratch(t)
    PROVE  TypeOK'
<1>. USE DEF TypeOK, Goes, Returns, built, memory
<1>1. CASE AllocateFails(t)
  BY <1>1 DEF AllocateFails, Places, Answers, InfoFitsTheCaller, Codes
<1>2. CASE Allocate(t)
  BY <1>2 DEF Allocate, Places, InfoFitsTheCaller
<1>3. CASE Lend(t)
  BY <1>3 DEF Lend, Lent, Places, InfoFitsTheCaller
<1>4. CASE WriteRecord(t)
  BY <1>4, ErrnoType DEF WriteRecord, Places, InfoFitsTheCaller
<1>5. CASE CopyStore(t)
  BY <1>5 DEF CopyStore, Places, InfoFitsTheCaller
<1>6. CASE EraseStore(t)
  BY <1>6 DEF EraseStore, Places, InfoFitsTheCaller
<1>7. CASE ProgramStore(t)
  BY <1>7 DEF ProgramStore, Places, InfoFitsTheCaller
<1>8. CASE TakeBack(t)
  BY <1>8 DEF TakeBack, Places, InfoFitsTheCaller
<1>9. CASE Free(t)
  BY <1>9 DEF Free, Freed, Places, InfoFitsTheCaller
<1>. QED
  BY <1>1, <1>2, <1>3, <1>4, <1>5, <1>6, <1>7, <1>8, <1>9 DEF WithScratch

LEMMA ReadsType ==
    ASSUME TypeOK, NEW t \in Threads, Reads(t)
    PROVE  TypeOK'
<1>. USE DEF TypeOK, Goes, Returns, built, memory
<1>1. CASE ReadPersistency(t)
  BY <1>1 DEF ReadPersistency, Places, Answers, InfoFitsTheCaller, Codes
<1>2. CASE AskBanks(t)
  BY <1>2 DEF AskBanks, Places, Answers, InfoFitsTheCaller, Codes
<1>3. CASE GetBankInfo(t)
  <2>1. PICK size \in 0 .. MaxFields :
          info' = [size |-> size,
                   from |-> [i \in 1 .. MaxFields |->
                       IF i > Copied(size) THEN "caller" ELSE FromSelector(i)]]
    BY <1>3 DEF GetBankInfo
  <2>2. info' \in [size: 0 .. MaxFields, from: [1 .. MaxFields -> Origins]]
    BY <2>1, CopiedFields DEF Origins
  <2>3. InfoFitsTheCaller'
    BY <2>1, CopiedFields, <1>3 DEF InfoFitsTheCaller, GetBankInfo
  <2>. QED
    BY <1>3, <2>2, <2>3 DEF GetBankInfo, Places, Answers, Codes
<1>4. CASE BankInfoRefused(t)
  BY <1>4, ErrnoType
     DEF BankInfoRefused, Places, Answers, InfoFitsTheCaller, Codes
<1>. QED
  BY <1>1, <1>2, <1>3, <1>4 DEF Reads

LEMMA NextType == TypeOK /\ [Next]_vars => TypeOK'
<1>1. TypeOK /\ UNCHANGED vars => TypeOK'
  BY DEF TypeOK, vars, built, memory, InfoFitsTheCaller
<1>. QED
  BY <1>1, TableType, ScratchType, ReadsType DEF Next

\* Whatever the callers do, every variable keeps its type: the errno of a call
\* is one that the SAL has, and the bank info fits its caller (to_errno,
\* Dmod_FirmwareGetBankInfo).
THEOREM SalTypeCorrect == Spec => []TypeOK
BY InitType, NextType, PTL DEF Spec

-----------------------------------------------------------------------------
(***************************************************************************)
(* The buffers.  That all of them come back is inductive beside the types, *)
(* once it is said that a call that holds one has it from the heap.        *)
(***************************************************************************)

BuffersInv ==
    /\ BuffersAreGivenBack
    /\ \A t \in Threads : pc[t] \in Holding => mine[t] \in Buffers

LEMMA InitBuffers == Init => BuffersInv
BY DEF Init, BuffersInv, BuffersAreGivenBack, Holding

LEMMA NextBuffers == TypeOK /\ BuffersInv /\ [Next]_vars => BuffersInv'
<1>. SUFFICES ASSUME TypeOK, BuffersInv, [Next]_vars PROVE BuffersInv'
  OBVIOUS
<1>. USE DEF TypeOK, BuffersInv, BuffersAreGivenBack, Holding, Goes, Returns,
            built, memory
<1>1. CASE UNCHANGED vars
  BY <1>1 DEF vars
<1>2. ASSUME NEW t \in Threads, GetTable(t) PROVE BuffersInv'
  BY <1>2 DEF GetTable, Enter, TableKnown, FirstCall, LookAtTable, BeginInit,
              EndInit, Publish, FirstStep
<1>3. ASSUME NEW t \in Threads, Reads(t) PROVE BuffersInv'
  BY <1>3 DEF Reads, ReadPersistency, AskBanks, GetBankInfo, BankInfoRefused
<1>4. ASSUME NEW t \in Threads, Allocate(t) PROVE BuffersInv'
  BY <1>4, BuffersAssumption DEF Allocate
<1>5. ASSUME NEW t \in Threads, Free(t) PROVE BuffersInv'
  BY <1>5, BuffersAssumption DEF Free, Freed
<1>6. ASSUME NEW t \in Threads,
             \/ AllocateFails(t) \/ Lend(t) \/ WriteRecord(t) \/ CopyStore(t)
             \/ EraseStore(t) \/ ProgramStore(t) \/ TakeBack(t)
      PROVE  BuffersInv'
  BY <1>6 DEF AllocateFails, Lend, WriteRecord, CopyStore, EraseStore,
              ProgramStore, TakeBack
<1>. QED
  BY <1>1, <1>2, <1>3, <1>4, <1>5, <1>6 DEF Next, WithScratch

-----------------------------------------------------------------------------
(***************************************************************************)
(* What it means to take turns: which threads can be in which calls.       *)
(***************************************************************************)

Starts(t) == pc[t] \in {"first", "init", "reading", "publish"}

TurnsAreTaken ==
    /\ discipline = "turns" =>
          \A t, u \in Threads : Busy(t) /\ Busy(u) => t = u
    /\ ~initialized => \A t, u \in Threads : Busy(t) /\ Busy(u) => t = u
    /\ \A t, u \in Threads : InTable(t) /\ InTable(u) => t = u
    /\ \A t, u \in Threads : Writes(t) /\ Writes(u) => t = u
    /\ \A t, u \in Threads : Starts(t) /\ Busy(u) => t = u

\* What a thread is at tells what it was called for.
CallsAreServed ==
    \A t \in Threads :
        /\ pc[t] \in Holding \cup {"allocate"} => call[t] = "write"
        /\ pc[t] = "read" => call[t] = "read"
        /\ pc[t] = "info" => call[t] = "info"

\* The table is known when, and only when, it was looked at and is there; who
\* has come past get_table has it, with the state behind it.
Past == {"allocate", "read", "info"} \cup Holding

TableInv ==
    /\ table => initialized /\ selector = "there" /\ state = "ready"
    /\ initialized /\ selector = "there" /\ ~table =>
          \E t \in Threads : pc[t] \in {"init", "reading", "publish"}
    /\ \A t \in Threads :
          /\ Starts(t) => ~table
          /\ pc[t] \in {"init", "reading", "publish"} => initialized
          /\ pc[t] \in {"reading", "publish"} => selector = "there"
          /\ pc[t] = "publish" => state = "ready"
          /\ pc[t] \in Past => table
          /\ told[t] = "NOSYS" => selector # "there"

\* The scratch is the one of the call that writes, from Lend to TakeBack.
Lending == {"write", "copied", "erased", "reset"}

ScratchInv ==
    /\ \A t \in Threads :
          /\ pc[t] \in Lending => scratch = mine[t]
          /\ pc[t] \in {"copied", "erased"} => out[t] = mine[t]
    /\ (\A t \in Threads : pc[t] \notin Lending) => scratch \in {Dummy, None}

\* The store is erased only while its copy is in the scratch.
StoreInv ==
    /\ store # "lost"
    /\ (\A t \in Threads : pc[t] # "erased") => store = "whole"
    /\ \A t \in Threads : pc[t] \in {"copied", "erased"} => mine[t] \in copy
    /\ discipline = "turns" =>
          \A t \in Threads : call[t] = "read" => told[t] # "NOENT" \/ Busy(t)

SalInv ==
    /\ TypeOK /\ BuffersInv /\ CallsAreServed
    /\ Disciplined => TurnsAreTaken /\ TableInv /\ ScratchInv /\ StoreInv

LEMMA InitInv == Init => SalInv
<1>1. Init => TurnsAreTaken /\ TableInv /\ CallsAreServed
  BY DEF Init, TurnsAreTaken, TableInv, CallsAreServed, Busy, InTable, Writes,
         Starts, Past, Holding
<1>2. Init => ScratchInv /\ StoreInv
  BY DEF Init, ScratchInv, StoreInv, Lending
<1>. QED
  BY <1>1, <1>2, InitType, InitBuffers DEF SalInv

LEMMA NextCalls ==
    TypeOK /\ CallsAreServed /\ [Next]_vars => CallsAreServed'
<1>. SUFFICES ASSUME TypeOK, CallsAreServed, [Next]_vars PROVE CallsAreServed'
  OBVIOUS
<1>. USE DEF TypeOK, CallsAreServed, Holding, Goes, Returns, built, memory
<1>1. CASE UNCHANGED vars
  BY <1>1 DEF vars
<1>2. ASSUME NEW t \in Threads, GetTable(t) PROVE CallsAreServed'
  BY <1>2 DEF GetTable, Enter, TableKnown, FirstCall, LookAtTable, BeginInit,
              EndInit, Publish, FirstStep
<1>3. ASSUME NEW t \in Threads, Reads(t) PROVE CallsAreServed'
  BY <1>3 DEF Reads, ReadPersistency, AskBanks, GetBankInfo, BankInfoRefused
<1>4. ASSUME NEW t \in Threads, WithScratch(t) PROVE CallsAreServed'
  BY <1>4 DEF WithScratch, AllocateFails, Allocate, Lend, WriteRecord, CopyStore,
              EraseStore, ProgramStore, TakeBack, Free
<1>. QED
  BY <1>1, <1>2, <1>3, <1>4 DEF Next

\* Only Enter makes a thread busy; everything else of a call changes neither
\* what was called nor who else is in the table.
LEMMA NextTurns ==
    TypeOK /\ Disciplined /\ TurnsAreTaken /\ [Next]_vars => TurnsAreTaken'
<1>. SUFFICES ASSUME TypeOK, Disciplined, TurnsAreTaken, [Next]_vars
              PROVE  TurnsAreTaken'
  OBVIOUS
<1>. USE DEF TypeOK, TurnsAreTaken, Goes, Returns, built, memory, Busy, InTable,
            Writes, Starts
<1>1. CASE UNCHANGED vars
  BY <1>1 DEF vars
<1>2. ASSUME NEW t \in Threads, Enter(t) PROVE TurnsAreTaken'
  <2>1. PICK c \in {"write", "read", "info"} :
            MayCall(t, c) /\ call' = [call EXCEPT ![t] = c]
    BY <1>2 DEF Enter
  <2>2. discipline = "turns" \/ discipline = "writers"
    BY DEF Disciplined
  <2>3. /\ \A u \in Threads : ~InTable(u)
        /\ ~initialized \/ discipline = "turns" => \A u \in Threads : ~Busy(u)
        /\ c = "write" => \A u \in Threads : ~Writes(u)
    BY <2>1, <2>2 DEF MayCall
  <2>4. /\ pc[t] = "idle" /\ pc' = [pc EXCEPT ![t] = "get"]
        /\ UNCHANGED <<discipline, initialized>>
    BY <1>2 DEF Enter
  <2>. QED
    BY <2>1, <2>3, <2>4
<1>3. ASSUME NEW t \in Threads, FirstCall(t) PROVE TurnsAreTaken'
  BY <1>3 DEF FirstCall, NotInitialized
<1>4. ASSUME NEW t \in Threads,
             TableKnown(t) \/ LookAtTable(t) \/ BeginInit(t)
      PROVE  TurnsAreTaken'
  BY <1>4 DEF TableKnown, LookAtTable, BeginInit, FirstStep
<1>5. ASSUME NEW t \in Threads, EndInit(t) \/ Publish(t) PROVE TurnsAreTaken'
  BY <1>5 DEF EndInit, Publish, FirstStep
<1>6. ASSUME NEW t \in Threads, Reads(t) PROVE TurnsAreTaken'
  BY <1>6 DEF Reads, ReadPersistency, AskBanks, GetBankInfo, BankInfoRefused
<1>7. ASSUME NEW t \in Threads,
             \/ AllocateFails(t) \/ Allocate(t) \/ Lend(t) \/ WriteRecord(t)
             \/ CopyStore(t)
      PROVE  TurnsAreTaken'
  BY <1>7 DEF AllocateFails, Allocate, Lend, WriteRecord, CopyStore
<1>8. ASSUME NEW t \in Threads,
             EraseStore(t) \/ ProgramStore(t) \/ TakeBack(t) \/ Free(t)
      PROVE  TurnsAreTaken'
  BY <1>8 DEF EraseStore, ProgramStore, TakeBack, Free
<1>. QED
  BY <1>1, <1>2, <1>3, <1>4, <1>5, <1>6, <1>7, <1>8
     DEF Next, GetTable, WithScratch

LEMMA NextTable ==
    TypeOK /\ TurnsAreTaken /\ TableInv /\ [Next]_vars => TableInv'
<1>. SUFFICES ASSUME TypeOK, TurnsAreTaken, TableInv, [Next]_vars
              PROVE  TableInv'
  OBVIOUS
<1>. USE DEF TypeOK, TurnsAreTaken, TableInv, Goes, Returns, built, memory,
            Starts, Past, Holding
<1>1. CASE UNCHANGED vars
  BY <1>1 DEF vars
<1>2. ASSUME NEW t \in Threads, Enter(t) \/ FirstCall(t) PROVE TableInv'
  BY <1>2 DEF Enter, FirstCall, NotInitialized
<1>3. ASSUME NEW t \in Threads, TableKnown(t) PROVE TableInv'
  BY <1>3 DEF TableKnown, FirstStep, InTable
<1>4. ASSUME NEW t \in Threads, LookAtTable(t) PROVE TableInv'
  BY <1>4 DEF LookAtTable
<1>5. ASSUME NEW t \in Threads, BeginInit(t) PROVE TableInv'
  BY <1>5 DEF BeginInit, Busy
<1>6. ASSUME NEW t \in Threads, EndInit(t) PROVE TableInv'
  BY <1>6 DEF EndInit
<1>7. ASSUME NEW t \in Threads, Publish(t) PROVE TableInv'
  BY <1>7 DEF Publish, FirstStep, Busy
<1>8. ASSUME NEW t \in Threads, Reads(t) PROVE TableInv'
  BY <1>8 DEF Reads, ReadPersistency, AskBanks, GetBankInfo, BankInfoRefused,
              to_errno
<1>9. ASSUME NEW t \in Threads,
             \/ AllocateFails(t) \/ Allocate(t) \/ Lend(t) \/ WriteRecord(t)
             \/ CopyStore(t)
      PROVE  TableInv'
  BY <1>9 DEF AllocateFails, Allocate, Lend, WriteRecord, CopyStore, to_errno,
              Codes
<1>10. ASSUME NEW t \in Threads,
             EraseStore(t) \/ ProgramStore(t) \/ TakeBack(t) \/ Free(t)
      PROVE  TableInv'
  BY <1>10 DEF EraseStore, ProgramStore, TakeBack, Free
<1>. QED
  BY <1>1, <1>2, <1>3, <1>4, <1>5, <1>6, <1>7, <1>8, <1>9, <1>10
     DEF Next, GetTable, WithScratch

\* There is one call that writes; dmsel_init, which resets the pointer too, has
\* no other call beside it.
LEMMA NextScratch ==
    SalInv /\ Disciplined /\ [Next]_vars => ScratchInv'
<1>. SUFFICES ASSUME SalInv, Disciplined, [Next]_vars PROVE ScratchInv'
  OBVIOUS
<1>1. TypeOK /\ CallsAreServed /\ TurnsAreTaken /\ ScratchInv
  BY DEF SalInv
<1>2. \A t, u \in Threads :
          pc[t] \in Holding /\ pc[u] \in Holding => t = u
  BY <1>1 DEF CallsAreServed, TurnsAreTaken, Writes, Busy, Holding
<1>3. \A t, u \in Threads : pc[t] = "init" /\ pc[u] \in Holding => FALSE
  BY <1>1 DEF TurnsAreTaken, Starts, Busy, Holding
<1>. USE <1>1, <1>2, <1>3
     DEF TypeOK, ScratchInv, Lending, Holding, Goes, Returns, built, memory
<1>4. CASE UNCHANGED vars
  BY <1>4 DEF vars
<1>5. ASSUME NEW t \in Threads, GetTable(t) PROVE ScratchInv'
  BY <1>5 DEF GetTable, Enter, TableKnown, FirstCall, LookAtTable, BeginInit,
              EndInit, Publish, FirstStep
<1>6. ASSUME NEW t \in Threads, Reads(t) PROVE ScratchInv'
  BY <1>6 DEF Reads, ReadPersistency, AskBanks, GetBankInfo, BankInfoRefused
<1>7. ASSUME NEW t \in Threads, WithScratch(t) PROVE ScratchInv'
  BY <1>7 DEF WithScratch, AllocateFails, Allocate, Lend, Lent, WriteRecord,
              CopyStore, EraseStore, ProgramStore, TakeBack, Free
<1>. QED
  BY <1>4, <1>5, <1>6, <1>7 DEF Next

LEMMA NextStore ==
    SalInv /\ Disciplined /\ [Next]_vars => StoreInv'
<1>. SUFFICES ASSUME SalInv, Disciplined, [Next]_vars PROVE StoreInv'
  OBVIOUS
<1>1. /\ TypeOK /\ CallsAreServed /\ BuffersInv
      /\ TurnsAreTaken /\ ScratchInv /\ StoreInv
  BY DEF SalInv
<1>2. \A t, u \in Threads :
          pc[t] \in Holding /\ pc[u] \in Holding => t = u
  BY <1>1 DEF CallsAreServed, TurnsAreTaken, Writes, Busy, Holding
<1>3. \A t \in Threads : pc[t] \in Holding => mine[t] \in heap
  BY <1>1 DEF BuffersInv, BuffersAreGivenBack
<1>4. discipline = "turns" =>
          \A t, u \in Threads : Busy(t) /\ Busy(u) => t = u
  BY <1>1 DEF TurnsAreTaken
<1>. USE <1>1, <1>2, <1>3, <1>4
     DEF TypeOK, ScratchInv, StoreInv, Lending, Holding, Goes, Returns, built,
         memory, Busy
<1>5. CASE UNCHANGED vars
  BY <1>5 DEF vars
<1>6. ASSUME NEW t \in Threads, GetTable(t) PROVE StoreInv'
  BY <1>6 DEF GetTable, Enter, TableKnown, FirstCall, LookAtTable, BeginInit,
              EndInit, Publish, FirstStep
<1>7. ASSUME NEW t \in Threads, Reads(t) PROVE StoreInv'
  BY <1>7 DEF Reads, ReadPersistency, AskBanks, GetBankInfo, BankInfoRefused,
              CallsAreServed
<1>8. ASSUME NEW t \in Threads, WithScratch(t) PROVE StoreInv'
  <2>1. call[t] = "write"
    BY <1>8 DEF WithScratch, AllocateFails, Allocate, Lend, WriteRecord,
                CopyStore, EraseStore, ProgramStore, TakeBack, Free,
                CallsAreServed
  <2>2. CASE AllocateFails(t) \/ Allocate(t) \/ Lend(t)
    BY <2>1, <2>2 DEF AllocateFails, Allocate, Lend
  <2>3. CASE WriteRecord(t) \/ TakeBack(t) \/ Free(t)
    BY <2>1, <2>3 DEF WriteRecord, TakeBack, Free
  <2>4. CASE CopyStore(t)
    BY <2>1, <2>4 DEF CopyStore
  <2>5. CASE EraseStore(t)
    BY <2>1, <2>5 DEF EraseStore
  <2>6. CASE ProgramStore(t)
    BY <2>1, <2>6 DEF ProgramStore
  <2>. QED
    BY <1>8, <2>2, <2>3, <2>4, <2>5, <2>6 DEF WithScratch
<1>. QED
  BY <1>5, <1>6, <1>7, <1>8 DEF Next

LEMMA NextInv == SalInv /\ [Next]_vars => SalInv'
<1>1. [Next]_vars => (Disciplined' <=> Disciplined)
  BY DEF Next, vars, Disciplined, built, GetTable, WithScratch, Reads, Enter,
         TableKnown, FirstCall, LookAtTable, BeginInit, EndInit, Publish,
         AllocateFails, Allocate, Lend, WriteRecord, CopyStore, EraseStore,
         ProgramStore, TakeBack, Free, ReadPersistency, AskBanks, GetBankInfo,
         BankInfoRefused
<1>2. SalInv /\ Disciplined => TurnsAreTaken /\ TableInv
  BY DEF SalInv
<1>. QED
  BY <1>1, <1>2, NextType, NextBuffers, NextCalls, NextTurns, NextTable,
     NextScratch, NextStore DEF SalInv

THEOREM SalInvariant == Spec => []SalInv
BY InitInv, NextInv, PTL DEF Spec

\* Every buffer that a call has taken comes back with the call, whatever other
\* callers do; and with writers that take turns the selector works in the
\* buffer of the call, while it is allocated (WITH_SCRATCH).
THEOREM ScratchIsLentOnly == Spec => []ScratchIsLent
<1>1. SalInv => ScratchIsLent
  <2>. SUFFICES ASSUME SalInv PROVE ScratchIsLent
    OBVIOUS
  <2>1. \A t \in Threads : pc[t] \in Holding => mine[t] \in heap
    BY DEF SalInv, BuffersInv, BuffersAreGivenBack
  <2>2. ASSUME Disciplined PROVE ScratchInv
    BY <2>2 DEF SalInv
  <2>3. ASSUME Disciplined PROVE WorksInItsScratch
    BY <2>1, <2>2, <2>3 DEF WorksInItsScratch, ScratchInv, Lending, Holding
  <2>4. ASSUME Disciplined PROVE scratch \in heap \cup {Dummy, None}
    BY <2>1, <2>2, <2>4 DEF ScratchInv, Lending, Holding
  <2>. QED
    BY <2>3, <2>4 DEF SalInv, BuffersInv, ScratchIsLent, ScratchInTurns
<1>. QED
  BY <1>1, SalInvariant, PTL

\* With a first call that was alone, -ENOSYS means that there is no selector,
\* and nobody works on a state that was not read yet (get_table).
THEOREM TableMeansItsState == Spec => []TableMeansState
<1>1. SalInv => TableMeansState
  BY DEF SalInv, TableInv, TableMeansState, NosysIsTrue, StateIsReadWhenUsed,
         Past, Holding
<1>. QED
  BY <1>1, SalInvariant, PTL

\* A compaction brings the store back, for any number of writers that take
\* turns, and readers who take part in the turns find what was stored.
THEOREM StoreIsNeverLost == Spec => []StoreIsKept
<1>1. SalInv => StoreIsKept
  <2>. SUFFICES ASSUME SalInv PROVE StoreIsKept
    OBVIOUS
  <2>1. ASSUME Disciplined PROVE StoreSurvives
    <3>1. \A t \in Threads : pc[t] = "erased" => Writes(t)
      BY DEF SalInv, CallsAreServed, Writes, Busy, Holding
    <3>. QED
      BY <2>1, <3>1 DEF SalInv, StoreInv, StoreSurvives
  <2>2. StoredIsFound
    BY DEF SalInv, StoreInv, StoredIsFound, Disciplined
  <2>. QED
    BY <2>1, <2>2 DEF StoreIsKept, StoreSurvives
<1>. QED
  BY <1>1, SalInvariant, PTL

=============================================================================
