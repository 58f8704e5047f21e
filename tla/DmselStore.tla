----------------------------- MODULE DmselStore -----------------------------
(***************************************************************************)
(* The store of the selector (selector/src/dmsel.c): a log of records in   *)
(* the flash, one word after the other.  A record is its header and its    *)
(* payload; it counts when all of its words are there (that is what the    *)
(* CRC stands for).  The log ends at the first place where no record       *)
(* counts.                                                                 *)
(*                                                                         *)
(* A call runs through append, compact, write_record and the erase and     *)
(* program of the port.  The words reach the flash one by one, so the      *)
(* power can go between any two of them; a word or a sector in progress is *)
(* garbage then.                                                           *)
(***************************************************************************)
EXTENDS Integers, Sequences, FiniteSets

CONSTANTS
    States,         \* the states of the banks (payload of a state record)
    BlankState,     \* the one of dmsel_init
    Ids,            \* the ids of the persistent items
    Values,         \* their values; the empty one has no words
    DataWords,      \* the length of each value in words
    StateWords,     \* STATE_SIZE in words
    StoreWords,     \* layout->store_size in words
    SectorWords,    \* the size of a sector of the flash in words
    FlashErrors,    \* may erase() and program() of the port fail?
    Blank, Garbage, \* words that were erased, and spoilt
    NoState, NoValue, Nothing

HeaderWords == 2    \* REC_HDR
Sectors == StoreWords \div SectorWords

ASSUME SizesAssumption ==
    /\ StateWords \in Nat /\ StoreWords \in Nat /\ SectorWords \in Nat \ {0}
    /\ DataWords \in [Values -> Nat]
    /\ StoreWords = Sectors * SectorWords
    /\ HeaderWords + StateWords <= StoreWords
ASSUME StatesAssumption == BlankState \in States /\ NoState \notin States
ASSUME ValuesAssumption == NoValue \notin Values
ASSUME NothingAssumption ==
    Nothing \notin [state : States, items : [Ids -> Values \cup {NoValue}]]
ASSUME SwitchAssumption == FlashErrors \in BOOLEAN

\* The records.  A REC_DELETE is an item without a value.
StateRecord(st) == [type |-> "STATE", state |-> st]
ItemRecord(id, v) == [type |-> "ITEM", id |-> id, value |-> v]
Records == {StateRecord(st) : st \in States}
        \cup {ItemRecord(i, v) : i \in Ids, v \in Values \cup {NoValue}}

\* REC_HDR + pad4(len).
Size(r) == HeaderWords + (IF r.type = "STATE" THEN StateWords
                          ELSE IF r.value = NoValue THEN 1
                          ELSE 1 + DataWords[r.value])

\* The words of the record r: <<r, 1>>, <<r, 2>>, ... in a sequence.
Words(r) == [i \in 1 .. Size(r) |-> <<r, i>>]
Header(r) == SubSeq(Words(r), 1, HeaderWords)
Payload(r) == SubSeq(Words(r), HeaderWords + 1, Size(r))

Offsets == 0 .. StoreWords - 1
Cells == {<<r, i>> : r \in Records, i \in 1 .. StoreWords} \cup {Blank, Garbage}

ASSUME CellsAssumption ==
    /\ Blank # Garbage
    /\ {Blank, Garbage} \cap {<<r, i>> : r \in Records, i \in 1 .. StoreWords} = {}

VARIABLES
    flash,      \* the words of the store
    state,      \* dmsel_t: the state of the banks
    storeEnd,   \* dmsel_t: store_end
    pc,         \* where the call is
    rec,        \* the record that is to be appended
    attempt,    \* append: attempt
    off,        \* load_state, compact: off
    scratch,    \* compact: the words in scratch; their number is o
    seen,       \* history: a state record was passed in this compaction
    sector,     \* erase: the next sector
    at, todo,   \* program: where the next word goes, and the words
    after,      \* what the program is for
    result      \* what the last call returned

vars == <<flash, state, storeEnd, pc, rec, attempt, off, scratch, seen,
          sector, at, todo, after, result>>
ram == <<state, storeEnd>>
compaction == <<off, scratch, seen, sector>>
programming == <<at, todo, after>>

-----------------------------------------------------------------------------
(***************************************************************************)
(* Reading the log.                                                        *)
(***************************************************************************)

\* rec_read returned 1: the record at the offset o is whole.
Readable(o) ==
    /\ o + HeaderWords <= StoreWords
    /\ flash[o] \notin {Blank, Garbage}
    /\ LET r == flash[o][1]
       IN  /\ o + Size(r) <= StoreWords
           /\ \A i \in 1 .. Size(r) : flash[o + i - 1] = <<r, i>>

RecordAt(o) == flash[o][1]

\* The offsets of the records of the log, from the offset o on.
LogFrom[o \in 0 .. StoreWords] ==
    IF Readable(o) THEN {o} \cup LogFrom[o + Size(RecordAt(o))] ELSE {}

Log == LogFrom[0]
Latest(log) == CHOOSE o \in log : \A p \in log : p <= o

LogEnd == IF Log = {} THEN 0 ELSE Latest(Log) + Size(RecordAt(Latest(Log)))

\* The latest state record.
StateOffsets == {o \in Log : RecordAt(o).type = "STATE"}
StoredState ==
    IF StateOffsets = {} THEN NoState ELSE RecordAt(Latest(StateOffsets)).state

\* dmsel_persist_read: the latest record of an item.
IsItem(r, id) == r.type = "ITEM" /\ r.id = id
ItemOffsets(id) == {o \in Log : IsItem(RecordAt(o), id)}
Item(id) ==
    IF ItemOffsets(id) = {} THEN NoValue ELSE RecordAt(Latest(ItemOffsets(id))).value

\* later_item.
LaterItem(o, id) == \E p \in LogFrom[o] : IsItem(RecordAt(p), id)

-----------------------------------------------------------------------------
\* After the installation the store is erased.
Init ==
    /\ flash = [o \in Offsets |-> Blank]
    /\ state = BlankState /\ storeEnd = 0
    /\ pc = "load"
    /\ rec = StateRecord(BlankState) /\ attempt = 0
    /\ off = 0 /\ scratch = <<>> /\ seen = FALSE /\ sector = 0
    /\ at = 0 /\ todo = <<>> /\ after = "none"
    /\ result = "none"

(***************************************************************************)
(* dmsel_init: load_state reads the log, the latest state record wins.     *)
(***************************************************************************)
LoadRecord ==
    /\ pc = "load" /\ Readable(off)
    /\ LET r == RecordAt(off)
       IN  /\ state' = IF r.type = "STATE" THEN r.state ELSE state
           /\ off' = off + Size(r)
    /\ UNCHANGED <<flash, storeEnd, pc, rec, attempt, scratch, seen, sector,
                   programming, result>>

LoadEnd ==
    /\ pc = "load" /\ ~Readable(off)
    /\ pc' = "idle"
    /\ storeEnd' = off
    /\ off' = 0
    /\ UNCHANGED <<flash, state, rec, attempt, scratch, seen, sector,
                   programming, result>>

(***************************************************************************)
(* The calls.  A call ends with Return; what it worked with is forgotten.  *)
(***************************************************************************)
Forget ==
    /\ off' = 0 /\ scratch' = <<>> /\ seen' = FALSE /\ sector' = 0
    /\ at' = 0 /\ todo' = <<>> /\ after' = "none"

Return(r) ==
    /\ pc' = "idle"
    /\ result' = r
    /\ attempt' = 0
    /\ Forget

AppendRecord(r) ==
    /\ rec' = r
    /\ pc' = "append"
    /\ result' = "none"
    /\ UNCHANGED <<attempt, compaction, programming>>

\* save_state, after its caller has changed the state of the banks.
SaveState(st) ==
    /\ pc = "idle"
    /\ state' = st
    /\ AppendRecord(StateRecord(st))
    /\ UNCHANGED <<flash, storeEnd>>

\* dmsel_persist_write: nothing is written for a value that is there already,
\* except for the empty one; v = NoValue deletes the item (data == NULL).
WriteItem(id, v) ==
    /\ pc = "idle"
    /\ IF Item(id) = v /\ (v = NoValue \/ DataWords[v] > 0)
         THEN /\ rec' = ItemRecord(id, v)
              /\ Return("OK")
         ELSE AppendRecord(ItemRecord(id, v))
    /\ UNCHANGED <<flash, ram>>

\* Mutant: only the place for the header has to be erased.
FitsHeader ==
    /\ storeEnd + Size(rec) <= StoreWords
    /\ \A o \in storeEnd .. storeEnd + HeaderWords - 1 : flash[o] = Blank
\* Mutant: off by one at the end of the store.
FitsBeyond ==
    /\ storeEnd + Size(rec) <= StoreWords + 1
    /\ \A o \in (storeEnd .. storeEnd + Size(rec) - 1) \cap Offsets :
          flash[o] = Blank
\* append: there is place, and it is erased.
Fits ==
    /\ storeEnd + Size(rec) <= StoreWords
    /\ \A o \in storeEnd .. storeEnd + Size(rec) - 1 : flash[o] = Blank

\* port->program for the words w at the offset o.
Program(o, w, purpose) ==
    /\ pc' = "program"
    /\ at' = o /\ todo' = w /\ after' = purpose

\* The record has its place: the payload first.
StartWrite ==
    /\ pc = "append" /\ Size(rec) <= StoreWords /\ Fits
    /\ Program(storeEnd + HeaderWords, Payload(rec), "payload")
    /\ UNCHANGED <<flash, ram, rec, attempt, compaction, result>>

\* Mutant: the store is compacted until the record fits.
MayCompactAgain == TRUE
\* append: the first of its two attempts.
MayCompact == attempt = 0

\* The record has no place: once, the store is compacted.
StartCompaction ==
    /\ pc = "append" /\ Size(rec) <= StoreWords /\ ~Fits /\ MayCompact
    /\ pc' = "scan"
    /\ scratch' = Words(StateRecord(state))
    /\ off' = 0 /\ seen' = FALSE
    /\ UNCHANGED <<flash, ram, rec, attempt, sector, programming, result>>

NoSpace ==
    /\ pc = "append"
    /\ Size(rec) > StoreWords \/ (~Fits /\ ~MayCompact)
    /\ Return("NOSPACE")
    /\ UNCHANGED <<flash, ram, rec>>

(***************************************************************************)
(* compact.                                                                *)
(***************************************************************************)

\* Mutant: every record of an item is kept.
KeptAll(o) == LET r == RecordAt(o) IN r.type = "ITEM" /\ r.value # NoValue
\* Mutant: what does not belong to an item is kept, too.
KeptStates(o) ==
    LET r == RecordAt(o) IN r.type = "STATE" \/ ~LaterItem(o + Size(r), r.id)
\* The record at o is the latest one of an item that was not deleted.
Kept(o) ==
    LET r == RecordAt(o)
    IN  r.type = "ITEM" /\ r.value # NoValue /\ ~LaterItem(o + Size(r), r.id)

ScanRecord ==
    /\ pc = "scan" /\ Readable(off)
    /\ LET r == RecordAt(off)
       IN  /\ scratch' = IF Kept(off) THEN scratch \o Words(r) ELSE scratch
           /\ seen' = (seen \/ r.type = "STATE")
           /\ off' = off + Size(r)
    /\ UNCHANGED <<flash, ram, pc, rec, attempt, sector, programming, result>>

ScanEnd ==
    /\ pc = "scan" /\ ~Readable(off)
    /\ pc' = "erase"
    /\ sector' = 0
    /\ UNCHANGED <<flash, ram, rec, attempt, off, scratch, seen, programming,
                   result>>

SectorOf(s) == s * SectorWords .. (s + 1) * SectorWords - 1
Filled(cells, word) == [o \in Offsets |-> IF o \in cells THEN word ELSE flash[o]]

\* erase of the port: sector by sector.
AfterErase == Filled(SectorOf(sector), Blank)

EraseSector ==
    /\ pc = "erase" /\ sector < Sectors
    /\ flash' = AfterErase
    /\ sector' = sector + 1
    /\ UNCHANGED <<ram, pc, rec, attempt, off, scratch, seen, programming,
                   result>>

\* program of the port refuses what is not inside the store.
Erased ==
    /\ pc = "erase" /\ sector = Sectors
    /\ IF Len(scratch) <= StoreWords
         THEN /\ Program(0, scratch, "compacted")
              /\ UNCHANGED <<rec, attempt, compaction, result>>
         ELSE Return("IO") /\ UNCHANGED rec
    /\ UNCHANGED <<flash, ram>>

(***************************************************************************)
(* program of the port, word by word.                                      *)
(***************************************************************************)

\* A word can only be programmed on erased flash.
Programmed(o, word) ==
    IF flash[o] = Blank THEN word ELSE IF flash[o] = word THEN word ELSE Garbage

AfterWord == [flash EXCEPT ![at] = Programmed(at, Head(todo))]

ProgramWord ==
    /\ pc = "program" /\ todo # <<>>
    /\ flash' = AfterWord
    /\ at' = at + 1
    /\ todo' = Tail(todo)
    /\ UNCHANGED <<ram, pc, rec, attempt, compaction, after, result>>

Written(purpose) == pc = "program" /\ todo = <<>> /\ after = purpose

\* write_record: the header last, a record is there only when its header is.
PayloadWritten ==
    /\ Written("payload")
    /\ Program(storeEnd, Header(rec), "header")
    /\ UNCHANGED <<flash, ram, rec, attempt, compaction, result>>

RecordWritten ==
    /\ Written("header")
    /\ storeEnd' = storeEnd + Size(rec)
    /\ Return("OK")
    /\ UNCHANGED <<flash, state, rec>>

\* Mutant: the end of the log is forgotten.
CompactedEnd == storeEnd
\* compact: the new end of the log is o.
EndOfCompacted == Len(scratch)

Compacted ==
    /\ Written("compacted")
    /\ storeEnd' = EndOfCompacted
    /\ pc' = "append" /\ attempt' = 1
    /\ Forget
    /\ UNCHANGED <<flash, state, rec, result>>

(***************************************************************************)
(* The flash fails, or the power goes.  The word or the sector in progress *)
(* is as it was or garbage, or done.                                      *)
(***************************************************************************)
Erasing == pc = "erase" /\ sector < Sectors
Programming == pc = "program" /\ todo # <<>>

Spoilt ==
    CASE Erasing -> Filled(SectorOf(sector), Garbage)
      [] Programming -> Filled({at}, Garbage)
      [] OTHER -> flash
Done == IF Erasing THEN AfterErase ELSE AfterWord

\* compact and write_record return DMSEL_ERR_IO at once.
Fail ==
    /\ FlashErrors
    /\ Erasing \/ Programming
    /\ flash' \in {flash, Spoilt, Done}
    /\ Return("IO")
    /\ UNCHANGED <<ram, rec>>

PowerCut ==
    /\ pc' = "load"
    /\ flash' \in {flash, Spoilt}
    /\ state' = BlankState /\ storeEnd' = 0
    /\ rec' = StateRecord(BlankState) /\ attempt' = 0
    /\ Forget
    /\ result' = "none"

Step ==
    \/ LoadRecord \/ LoadEnd
    \/ StartWrite \/ StartCompaction \/ NoSpace
    \/ ScanRecord \/ ScanEnd \/ EraseSector \/ Erased
    \/ ProgramWord \/ PayloadWritten \/ RecordWritten \/ Compacted

Call ==
    \/ \E st \in States : SaveState(st)
    \/ \E id \in Ids, v \in Values \cup {NoValue} : WriteItem(id, v)

Next == Call \/ Step \/ Fail \/ PowerCut

Spec == Init /\ [][Next]_vars

\* A call that was made goes on.
FairSpec == Spec /\ WF_vars(Step)

-----------------------------------------------------------------------------
(***************************************************************************)
(* Properties.                                                             *)
(***************************************************************************)

\* Every variable has a value of its type, and the words that are programmed
\* are inside the store.
TypeOK ==
    /\ flash \in [Offsets -> Cells]
    /\ state \in States
    /\ storeEnd \in 0 .. StoreWords
    /\ pc \in {"load", "idle", "append", "scan", "erase", "program"}
    /\ rec \in Records
    /\ attempt \in {0, 1}
    /\ off \in 0 .. StoreWords
    /\ scratch \in Seq(Cells)
    /\ seen \in BOOLEAN
    /\ sector \in 0 .. Sectors
    /\ at \in Nat
    /\ todo \in Seq(Cells)
    /\ at + Len(todo) <= StoreWords
    /\ after \in {"none", "payload", "header", "compacted"}
    /\ result \in {"none", "OK", "NOSPACE", "IO"}

\* What the store has of the last call is what the call was for, when it
\* returned DMSEL_OK - also when the store was compacted on the way
\* (append, dmsel_persist_write).
OkMeansStored ==
    pc = "idle" /\ result = "OK" =>
        IF rec.type = "STATE" THEN StoredState = rec.state
                              ELSE Item(rec.id) = rec.value

\* The words of what the store has to keep.
LiveRecords ==
    {StateRecord(state)}
        \cup {ItemRecord(id, Item(id)) : id \in {i \in Ids : Item(i) # NoValue}}
LiveWords == UNION {{<<r, i>> : i \in 1 .. Size(r)} : r \in LiveRecords}

\* A call returns DMSEL_ERR_NOSPACE only when its record does not fit beside
\* the state and the latest values: old records never fill the store (append).
NoSpaceMeansFull ==
    pc = "idle" /\ result = "NOSPACE" => Cardinality(LiveWords) + Size(rec) > StoreWords

\* A word is programmed only on erased flash, as the port demands it
\* (selector/include/dmsel.h:99): whatever an interrupted call has left.
ProgramsErasedWords == Programming => flash[at] = Blank

\* Between the calls store_end is the end of the log in the flash, so that the
\* next record continues the log.
StoreEndIsLogEnd == pc = "idle" => storeEnd = LogEnd

\* Records are only ever added behind the log, on erased words, so that the
\* next load_state reads all of them, also behind interrupted calls.
AppendsToTheLog == ProgramsErasedWords /\ StoreEndIsLogEnd

\* A compaction fits into the scratch memory once the log holds a state record
\* (compact, which does not look at the size of scratch).
CompactionFits == seen => Len(scratch) <= StoreWords

\* The scratch of layout->store_size bytes is enough for a compaction
\* (selector/include/dmsel.h:117).
ScratchHolds == Len(scratch) <= StoreWords

\* The store implements what StoreSpec promises.
Moving == pc = "erase" \/ (pc = "program" /\ after = "compacted")
InScratch == {scratch[i][1] : i \in DOMAIN scratch}
Moved ==
    [state |-> (CHOOSE r \in InScratch : r.type = "STATE").state,
     items |-> [id \in Ids |->
                  IF \E r \in InScratch : IsItem(r, id)
                    THEN (CHOOSE r \in InScratch : IsItem(r, id)).value
                    ELSE NoValue]]

Abstract == INSTANCE StoreSpec WITH
    working <- IF pc = "load" THEN BlankState ELSE state,
    state <- StoredState,
    items <- [id \in Ids |-> Item(id)],
    moved <- IF Moving THEN Moved ELSE Nothing

\* Each step of the program is a step of StoreSpec or changes nothing there: a
\* write is atomic, a compaction loses nothing unless it is interrupted, and
\* what is lost does not come back.
Implements == Abstract!Spec

\* "The latest valid record of a kind wins" (selector/src/dmsel.c:5): an item
\* changes only to the value that is being written, or it is lost.
LatestRecordWins ==
    [][ \A id \in Ids :
          \/ Item(id)' \in {Item(id), NoValue}
          \/ IsItem(rec, id) /\ Item(id)' = rec.value
          \/ pc = "program" /\ after = "compacted" ]_vars

\* "The latest valid record of a kind wins" (selector/src/dmsel.c:5): the state
\* that is read from the store changes only to the one in RAM, or it is lost.
LatestStateWins == [][ StoredState' \in {StoredState, state, NoState} ]_vars

\* Every call returns.
CallsReturn == pc \notin {"load", "idle"} ~> pc \in {"load", "idle"}

=============================================================================
