---------------------------- MODULE FirmwareSal ----------------------------
(***************************************************************************)
(* The firmware interface of the SAL (src/firmware/dmboot_firmware.c):     *)
(* Dmod_Firmware* and Dmod_*Persistency, called by the threads of the      *)
(* firmware over one dmsel_t, one table and one pointer to a scratch.      *)
(*                                                                         *)
(* There is no lock in that file.  "discipline" is what the callers do     *)
(* about it: nothing ("free"), the calls that write take turns and none    *)
(* overlaps the first use of the table ("writers"), all calls take turns   *)
(* ("turns").                                                              *)
(*                                                                         *)
(* Of what the selector does behind the table only the parts that meet     *)
(* other threads are kept: dmsel_init empties the dmsel_t and fills it     *)
(* again, a write may compact the store (copy it to the scratch, erase,    *)
(* program it back), a read walks the store.  The log itself, with a flash *)
(* that fails and resets, is in DmselStore.                                *)
(***************************************************************************)
EXTENDS Naturals

CONSTANTS
    Threads,    \* the threads that call the SAL
    Buffers,    \* the blocks of the heap
    Dummy,      \* g_dummy_scratch, a single byte
    None,       \* a local pointer that is not set
    MaxFields   \* the fields of Dmod_FirmwareBankInfo_t in its longest version

ASSUME BuffersAssumption == Dummy \notin Buffers /\ None \notin Buffers \cup {Dummy}
ASSUME FieldsAssumption == MaxFields \in Nat

VARIABLES
    selector,       \* what is at DMSEL_TABLE_ADDRESS: "none" that fits, one
                    \* that "refuses" to initialise, or one that is "there"
    fields,         \* the fields that firmware and selector were built with
    discipline,     \* what the callers do
    initialized,    \* g_initialized
    table,          \* g_table # NULL
    state,          \* g_state: "empty" or "ready"
    scratch,        \* g_state.scratch
    heap,           \* the blocks that are allocated
    copy,           \* the blocks that hold all that was in the store
    store,          \* what is in the store: "whole", "erased" or "lost"
    pc,             \* where each thread is
    call,           \* what it called: "write", "read", "info"
    mine,           \* WITH_SCRATCH: the local scratch
    out,            \* compact: the local out
    told,           \* what the last call of a thread returned
    info            \* the Dmod_FirmwareBankInfo_t of the last call, if it was
                    \* for one: what the caller said of its size, and where
                    \* its fields come from

built == <<selector, fields, discipline>>
memory == <<heap, copy, store>>
vars == <<built, initialized, table, state, scratch, memory, pc, call, mine,
          out, told, info>>

Codes == {"OK", "PARAM", "NOENT", "NOSPACE", "IO", "EMPTY", "BAD", "OTHER"}

\* DMSEL_ERR_* to -EINVAL, -ENOENT, ...; what is not known is an -EIO.
to_errno(code) == IF code = "OTHER" THEN "IO" ELSE code

NoInfo == [size |-> 0, from |-> [i \in 1 .. MaxFields |-> "caller"]]

Init ==
    /\ selector \in {"none", "refuses", "there"}
    /\ fields \in [firmware: 1 .. MaxFields, selector: 1 .. MaxFields]
    /\ discipline \in {"free", "writers", "turns"}
    /\ initialized = FALSE
    /\ table = FALSE
    /\ state = "empty"
    /\ scratch = None
    /\ heap = {}
    /\ copy = {}
    /\ store = "whole"
    /\ pc = [t \in Threads |-> "idle"]
    /\ call = [t \in Threads |-> "read"]
    /\ mine = [t \in Threads |-> None]
    /\ out = [t \in Threads |-> None]
    /\ told = [t \in Threads |-> "OK"]
    /\ info = NoInfo

Goes(t, from, to) == pc[t] = from /\ pc' = [pc EXCEPT ![t] = to]
Returns(t, from, code) ==
    /\ Goes(t, from, "idle")
    /\ told' = [told EXCEPT ![t] = code]
    /\ out' = [out EXCEPT ![t] = None]

Busy(t) == pc[t] # "idle"
Writes(t) == Busy(t) /\ call[t] = "write"
InTable(t) == pc[t] \in {"get", "first", "init", "reading", "publish"}

-----------------------------------------------------------------------------
(***************************************************************************)
(* get_table.                                                              *)
(***************************************************************************)

\* What the discipline leaves to a caller that wants to make a call.
MayCall(t, c) ==
    CASE discipline = "free"    -> TRUE
      [] discipline = "turns"   -> \A u \in Threads : ~Busy(u)
      [] discipline = "writers" ->
            /\ \A u \in Threads : ~InTable(u)
            /\ initialized \/ \A u \in Threads : ~Busy(u)
            /\ c = "write" => \A u \in Threads : ~Writes(u)

Enter(t) ==
    /\ Goes(t, "idle", "get")
    /\ \E c \in {"write", "read", "info"} :
            /\ MayCall(t, c)
            /\ call' = [call EXCEPT ![t] = c]
    /\ info' = NoInfo
    /\ UNCHANGED <<built, initialized, table, state, scratch, memory, mine,
                   out, told>>

\* The call of each function of the SAL behind its get_table.
FirstStep(t) == IF call[t] = "write" THEN "allocate" ELSE call[t]

\* g_initialized is set, which it stays: g_table is what it is then.
TableKnown(t) ==
    /\ initialized
    /\ \/ /\ table
          /\ Goes(t, "get", FirstStep(t))
          /\ UNCHANGED <<told, out>>
       \/ /\ ~table
          /\ Returns(t, "get", "NOSYS")
    /\ UNCHANGED <<built, initialized, table, state, scratch, memory, call,
                   mine, info>>

\* Mutant: the state is read for every call.
ReadForEveryCall == TRUE
NotInitialized == ~initialized

FirstCall(t) ==
    /\ NotInitialized
    /\ Goes(t, "get", "first")
    /\ UNCHANGED <<built, initialized, table, state, scratch, memory, call,
                   mine, out, told, info>>

\* magic, abi and state_size of the table are as the firmware was built.
LookAtTable(t) ==
    /\ initialized' = TRUE
    /\ \/ /\ selector = "none"
          /\ Returns(t, "first", "NOSYS")
       \/ /\ selector # "none"
          /\ Goes(t, "first", "init")
          /\ UNCHANGED <<told, out>>
    /\ UNCHANGED <<built, table, state, scratch, memory, call, mine, info>>

\* dmsel_init: memset, the pointers ...
BeginInit(t) ==
    /\ \/ /\ selector = "refuses"
          /\ Returns(t, "init", "NOSYS")
          /\ UNCHANGED <<state, scratch>>
       \/ /\ selector = "there"
          /\ Goes(t, "init", "reading")
          /\ state' = "empty"
          /\ scratch' = Dummy
          /\ UNCHANGED <<told, out>>
    /\ UNCHANGED <<built, initialized, table, memory, call, mine, info>>

\* ... and load_state.
EndInit(t) ==
    /\ Goes(t, "reading", "publish")
    /\ state' = "ready"
    /\ UNCHANGED <<built, initialized, table, scratch, memory, call, mine,
                   out, told, info>>

Publish(t) ==
    /\ Goes(t, "publish", FirstStep(t))
    /\ table' = TRUE
    /\ UNCHANGED <<built, initialized, state, scratch, memory, call, mine,
                   out, told, info>>

GetTable(t) ==
    \/ Enter(t) \/ TableKnown(t) \/ FirstCall(t) \/ LookAtTable(t)
    \/ BeginInit(t) \/ EndInit(t) \/ Publish(t)

-----------------------------------------------------------------------------
(***************************************************************************)
(* WITH_SCRATCH( call ), for Dmod_FirmwareReady, Dmod_FirmwareVerifyBank,  *)
(* Dmod_FirmwareSelectBank and Dmod_WritePersistency.                      *)
(***************************************************************************)

AllocateFails(t) ==
    /\ Returns(t, "allocate", "NOMEM")
    /\ UNCHANGED <<built, initialized, table, state, scratch, memory, call,
                   mine, info>>

Allocate(t) ==
    /\ Goes(t, "allocate", "lend")
    /\ \E b \in Buffers \ heap :
            /\ heap' = heap \cup {b}
            /\ copy' = copy \ {b}
            /\ mine' = [mine EXCEPT ![t] = b]
    /\ UNCHANGED <<built, initialized, table, state, scratch, store, call,
                   out, told, info>>

\* Mutant: the selector keeps the pointer it has.
LentLate(t) == scratch
Lent(t) == mine[t]

Lend(t) ==
    /\ Goes(t, "lend", "write")
    /\ scratch' = Lent(t)
    /\ UNCHANGED <<built, initialized, table, state, memory, call, mine, out,
                   told, info>>

\* A write that has room in the log, or an error before it comes to that.
WriteRecord(t) ==
    /\ Goes(t, "write", "reset")
    /\ \E code \in Codes : told' = [told EXCEPT ![t] = to_errno(code)]
    /\ UNCHANGED <<built, initialized, table, state, scratch, memory, call,
                   mine, out, info>>

\* compact reads s->scratch once ...
CopyStore(t) ==
    /\ Goes(t, "write", "copied")
    /\ out' = [out EXCEPT ![t] = scratch]
    /\ copy' = IF store = "whole" THEN copy \cup {scratch} ELSE copy \ {scratch}
    /\ UNCHANGED <<built, initialized, table, state, scratch, heap, store,
                   call, mine, told, info>>

EraseStore(t) ==
    /\ Goes(t, "copied", "erased")
    /\ store' = "erased"
    /\ UNCHANGED <<built, initialized, table, state, scratch, heap, copy, call,
                   mine, out, told, info>>

\* ... and programs what is there then.  dmsel_select saves twice: a second
\* compaction may follow.
ProgramStore(t) ==
    /\ Goes(t, "erased", "write")
    /\ store' = IF out[t] \in heap \cap copy THEN "whole" ELSE "lost"
    /\ out' = [out EXCEPT ![t] = None]
    /\ UNCHANGED <<built, initialized, table, state, scratch, heap, copy, call,
                   mine, told, info>>

\* The pointer goes back to the single byte.
TakeBack(t) ==
    /\ Goes(t, "reset", "free")
    /\ scratch' = Dummy
    /\ UNCHANGED <<built, initialized, table, state, memory, call, mine, out,
                   told, info>>

\* Mutant: the buffer is given back only when the call succeeded.
FreedOnSuccess(t) == IF told[t] = "OK" THEN {mine[t]} ELSE {}
Freed(t) == {mine[t]}

Free(t) ==
    /\ Goes(t, "free", "idle")
    /\ heap' = heap \ Freed(t)
    /\ mine' = [mine EXCEPT ![t] = None]
    /\ out' = [out EXCEPT ![t] = None]
    /\ UNCHANGED <<built, initialized, table, state, scratch, copy, store,
                   call, told, info>>

WithScratch(t) ==
    \/ AllocateFails(t) \/ Allocate(t) \/ Lend(t) \/ WriteRecord(t)
    \/ CopyStore(t) \/ EraseStore(t) \/ ProgramStore(t)
    \/ TakeBack(t) \/ Free(t)

-----------------------------------------------------------------------------
(***************************************************************************)
(* The calls that only read.                                               *)
(***************************************************************************)

\* Dmod_ReadPersistency of an item that was stored.
ReadPersistency(t) ==
    /\ Returns(t, "read", IF store = "whole" THEN "OK" ELSE "NOENT")
    /\ UNCHANGED <<built, initialized, table, state, scratch, memory, call,
                   mine, info>>

Least(a, b) == IF a < b THEN a ELSE b

\* Mutant: as many fields as the firmware has, whatever the caller said.
CopiedAll(size) == fields.firmware
\* The fields that reach the caller's structure.
Copied(size) == Least(size, fields.firmware)

\* dmsel_get_info fills what firmware and selector both have of the structure
\* of the SAL, which was zeroed.
FromSelector(i) == IF i <= fields.selector THEN "selector" ELSE "zero"

\* Dmod_FirmwareGetBankInfo.
GetBankInfo(t) ==
    /\ \E size \in 0 .. MaxFields :
          info' = [size |-> size,
                   from |-> [i \in 1 .. MaxFields |->
                       IF i > Copied(size) THEN "caller" ELSE FromSelector(i)]]
    /\ Returns(t, "info", "OK")
    /\ UNCHANGED <<built, initialized, table, state, scratch, memory, call,
                   mine>>

\* Dmod_FirmwareGetBankCount, Dmod_FirmwareGetRunningBank.
AskBanks(t) ==
    /\ Returns(t, "info", "OK")
    /\ UNCHANGED <<built, initialized, table, state, scratch, memory, call,
                   mine, info>>

\* Info is NULL, or the bank does not exist.
BankInfoRefused(t) ==
    /\ Returns(t, "info", to_errno("PARAM"))
    /\ UNCHANGED <<built, initialized, table, state, scratch, memory, call,
                   mine, info>>

Reads(t) ==
    \/ ReadPersistency(t) \/ AskBanks(t) \/ GetBankInfo(t)
    \/ BankInfoRefused(t)

Next == \E t \in Threads : GetTable(t) \/ WithScratch(t) \/ Reads(t)

Spec == Init /\ [][Next]_vars

-----------------------------------------------------------------------------
(***************************************************************************)
(* What is right.                                                          *)
(***************************************************************************)

Places == {"idle", "get", "first", "init", "reading", "publish", "allocate",
           "lend", "write", "copied", "erased", "reset", "free", "read",
           "info"}
Answers == Codes \cup {"NOSYS", "NOMEM"}
Origins == {"caller", "selector", "zero"}

\* Firmware, selector and caller may be built with different versions of the
\* bank info: nothing is written behind the caller's, and what all three have
\* comes from the selector.
InfoFitsTheCaller ==
    \A i \in 1 .. MaxFields :
        /\ i > info.size => info.from[i] = "caller"
        /\ info.from[i] = "zero" => i > fields.selector

\* The types: what is told is an errno of the SAL, never a code of the
\* selector that to_errno does not know, and the bank info of a caller is what
\* its declaration has room for.
TypeOK ==
    /\ selector \in {"none", "refuses", "there"}
    /\ fields \in [firmware: 1 .. MaxFields, selector: 1 .. MaxFields]
    /\ discipline \in {"free", "writers", "turns"}
    /\ initialized \in BOOLEAN /\ table \in BOOLEAN
    /\ state \in {"empty", "ready"}
    /\ scratch \in Buffers \cup {Dummy, None}
    /\ heap \subseteq Buffers
    /\ copy \subseteq Buffers \cup {Dummy, None}
    /\ store \in {"whole", "erased", "lost"}
    /\ pc \in [Threads -> Places]
    /\ call \in [Threads -> {"write", "read", "info"}]
    /\ mine \in [Threads -> Buffers \cup {None}]
    /\ out \in [Threads -> Buffers \cup {Dummy, None}]
    /\ told \in [Threads -> Answers \ {"OTHER"}]
    /\ info \in [size: 0 .. MaxFields, from: [1 .. MaxFields -> Origins]]
    /\ InfoFitsTheCaller

Disciplined == discipline # "free"
Holding == {"lend", "write", "copied", "erased", "reset", "free"}

\* WITH_SCRATCH takes the buffer "from the heap for the time of the call
\* only": with every return, of every thread, all that was allocated is given
\* back, and no two calls hold the same block - whatever the callers do.
BuffersAreGivenBack ==
    /\ heap = {mine[t] : t \in {u \in Threads : pc[u] \in Holding}}
    /\ \A t, u \in Threads :
           t # u /\ pc[t] \in Holding /\ pc[u] \in Holding => mine[t] # mine[u]

\* A call that writes to the store "needs the scratch for its time": the
\* selector works in the block of this call, which is still allocated.
WorksInItsScratch ==
    \A t \in Threads :
        /\ pc[t] = "write" => scratch = mine[t]
        /\ pc[t] \in {"copied", "erased"} => out[t] = mine[t]
        /\ pc[t] \in {"write", "copied", "erased"} => mine[t] \in heap

\* It is enough for that when the calls that write take turns and the first
\* call has come back before others begin.  Between the calls the pointer is
\* not one to a block that was given back.
ScratchInTurns ==
    Disciplined => WorksInItsScratch /\ scratch \in heap \cup {Dummy, None}

\* The scratch is there for the time of the call and for that only.
ScratchIsLent == BuffersAreGivenBack /\ ScratchInTurns

\* -ENOSYS says that there is no selector; it is not the answer to a call that
\* came while another one was still reading the state.
NosysIsTrue ==
    Disciplined => \A t \in Threads : told[t] = "NOSYS" => selector # "there"

\* Nobody uses the dmsel_t while dmsel_init empties and fills it.
StateIsReadWhenUsed ==
    Disciplined =>
        \A t \in Threads :
            pc[t] \in {"read", "info", "lend", "write", "copied", "erased"}
                => state = "ready"

\* get_table, with a first call that was alone: whoever has the table has the
\* state behind it, and whoever does not get it is on a board without one.
TableMeansState == NosysIsTrue /\ StateIsReadWhenUsed

\* A compaction brings everything back: what was stored is there when no call
\* that writes is under way.
StoreSurvives ==
    Disciplined =>
        /\ store # "lost"
        /\ (\A t \in Threads : ~Writes(t)) => store = "whole"

\* When all calls take turns, Dmod_ReadPersistency finds what was stored; the
\* readers have to take part in the turns, a compaction empties the store.
StoredIsFound ==
    discipline = "turns" =>
        \A t \in Threads : call[t] = "read" => told[t] # "NOENT" \/ Busy(t)

\* Compactions lose nothing, neither for the next call nor for a reader.
StoreIsKept == StoreSurvives /\ StoredIsFound

=============================================================================
