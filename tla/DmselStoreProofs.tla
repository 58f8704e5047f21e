-------------------------- MODULE DmselStoreProofs --------------------------
(***************************************************************************)
(* Proofs about DmselStore.                                                *)
(*                                                                         *)
(* For stores, sectors and records of any size, and also when the flash    *)
(* fails: every variable keeps its type and no word is programmed outside  *)
(* the store or on a word that is not erased, and a compaction fits into   *)
(* the scratch memory once the log holds a state record.                   *)
(*                                                                         *)
(* For a store of one sector on a flash that does not fail, as long as no  *)
(* compaction overflows the scratch memory: the log is always whole, what  *)
(* a call returns tells what is stored, and the next record continues it.  *)
(***************************************************************************)
EXTENDS DmselStore, TLAPS, FiniteSetTheorems, WellFoundedInduction

StateSize == HeaderWords + StateWords

\* What is copied to the scratch memory was passed in the log, but for the
\* state record that comes first.
ScratchIsFromTheLog ==
    /\ seen => Len(scratch) <= off
    /\ Len(scratch) <= off + StateSize

\* The place of the record was checked before its payload is programmed.
RecordHasItsPlace ==
    after \in {"payload", "header"} => storeEnd + Size(rec) <= StoreWords

CompactionHasItsPlace == after = "compacted" => Len(scratch) <= StoreWords

NothingIsLeftOver ==
    /\ pc \in {"load", "idle", "append"} => scratch = <<>>
    /\ pc # "program" => after = "none"

StoreInv ==
    /\ TypeOK
    /\ NothingIsLeftOver
    /\ ScratchIsFromTheLog
    /\ RecordHasItsPlace
    /\ CompactionHasItsPlace

USE DEF HeaderWords

\* The size of a record is a number, and not less than that of its header.
LEMMA SizeType == ASSUME NEW r \in Records
                  PROVE  /\ Size(r) \in Nat /\ Size(r) > HeaderWords - 1
                         /\ r.type = "STATE" => Size(r) = StateSize
<1>1. CASE \E st \in States : r = StateRecord(st)
  BY <1>1, SizesAssumption DEF StateRecord, Size, StateSize
<1>2. CASE \E id \in Ids, v \in Values \cup {NoValue} : r = ItemRecord(id, v)
  <2>1. PICK id \in Ids, v \in Values \cup {NoValue} : r = ItemRecord(id, v)
    BY <1>2
  <2>2. r.type = "ITEM" /\ r.value = v
    BY <2>1 DEF ItemRecord
  <2>3. CASE v = NoValue
    BY <2>2, <2>3 DEF Size
  <2>4. CASE v \in Values
    <3>1. DataWords[v] \in Nat
      BY <2>4, SizesAssumption
    <3>2. v # NoValue
      BY <2>4, ValuesAssumption
    <3> QED BY <2>2, <3>1, <3>2 DEF Size
  <2> QED BY <2>3, <2>4
<1> QED BY <1>1, <1>2 DEF Records

\* A state record can always be read back.
LEMMA StateRecordType == ASSUME NEW st \in States
                         PROVE  /\ StateRecord(st) \in Records
                                /\ Size(StateRecord(st)) = StateSize
                                /\ StateSize \in Nat /\ StateSize <= StoreWords
  BY SizesAssumption DEF Records, StateRecord, Size, StateSize

\* The words of a record that fits into the store are words of a store.
LEMMA WordsType == ASSUME NEW r \in Records, Size(r) <= StoreWords
                   PROVE  Words(r) \in Seq(Cells) /\ Len(Words(r)) = Size(r)
<1>1. Size(r) \in Nat
  BY SizeType
<1>2. \A i \in 1 .. Size(r) : <<r, i>> \in Cells
  BY <1>1, SizesAssumption DEF Cells
<1>3. Words(r) \in [1 .. Size(r) -> Cells]
  BY <1>2 DEF Words
<1>4. Words(r) \in Seq(Cells)
  BY <1>1, <1>3
<1> QED BY <1>1, <1>3, <1>4

\* Its header and its payload, too.
LEMMA PartsType == ASSUME NEW r \in Records, Size(r) <= StoreWords
                   PROVE  /\ Header(r) \in Seq(Cells)
                          /\ Len(Header(r)) = HeaderWords
                          /\ Payload(r) \in Seq(Cells)
                          /\ Len(Payload(r)) = Size(r) - HeaderWords
  BY WordsType, SizeType DEF Header, Payload

\* What rec_read finds is a record that lies inside the store.
LEMMA ReadableType == ASSUME TypeOK, NEW o \in 0 .. StoreWords, Readable(o)
                      PROVE  /\ RecordAt(o) \in Records
                             /\ o + Size(RecordAt(o)) \in 0 .. StoreWords
                             /\ Size(RecordAt(o)) <= StoreWords
<1>1. o \in Offsets
  BY SizesAssumption DEF Readable, Offsets
<1>2. flash[o] \in Cells /\ flash[o] \notin {Blank, Garbage}
  BY <1>1 DEF TypeOK, Readable
<1>3. RecordAt(o) \in Records
  BY <1>2 DEF Cells, RecordAt
<1>4. o + Size(RecordAt(o)) <= StoreWords
  BY DEF Readable, RecordAt
<1> QED BY <1>3, <1>4, SizeType, SizesAssumption

\* A store has a whole number of sectors.
LEMMA SectorsType == Sectors \in Nat
  BY SizesAssumption DEF Sectors

\* The invariant holds after the installation.
LEMMA InitInv == Init => StoreInv
<1> SUFFICES ASSUME Init PROVE StoreInv
  OBVIOUS
<1> USE DEF Init
<1>1. TypeOK
  <2>1. flash \in [Offsets -> Cells]
    BY DEF Cells
  <2>2. state \in States /\ rec \in Records
    BY StateRecordType, StatesAssumption
  <2>3. 0 \in 0 .. StoreWords /\ 0 \in 0 .. Sectors
    BY SizesAssumption, SectorsType
  <2>4. scratch \in Seq(Cells) /\ todo \in Seq(Cells) /\ at + Len(todo) <= StoreWords
    BY <2>3
  <2> QED BY <2>1, <2>2, <2>3, <2>4 DEF TypeOK
<1>2. ScratchIsFromTheLog
  BY StateRecordType, StatesAssumption DEF ScratchIsFromTheLog
<1> QED BY <1>1, <1>2 DEF StoreInv, RecordHasItsPlace, CompactionHasItsPlace,
           NothingIsLeftOver

\* What a call worked with has its type when it is forgotten.
LEMMA ForgetInv == ASSUME Forget
                   PROVE  /\ off' \in 0 .. StoreWords /\ scratch' \in Seq(Cells)
                          /\ seen' \in BOOLEAN /\ sector' \in 0 .. Sectors
                          /\ at' \in Nat /\ todo' \in Seq(Cells)
                          /\ at' + Len(todo') <= StoreWords
                          /\ after' = "none"
                          /\ ScratchIsFromTheLog'
                          /\ RecordHasItsPlace' /\ CompactionHasItsPlace'
                          /\ NothingIsLeftOver'
<1>1. 0 \in 0 .. StoreWords /\ 0 \in 0 .. Sectors
  BY SizesAssumption, SectorsType
<1>2. StateSize \in Nat
  BY StateRecordType, StatesAssumption
<1> USE DEF Forget
<1>3. off' \in 0 .. StoreWords /\ seen' \in BOOLEAN /\ sector' \in 0 .. Sectors
  BY <1>1
<1>4. /\ scratch' \in Seq(Cells) /\ Len(scratch') = 0
      /\ todo' \in Seq(Cells) /\ Len(todo') = 0
  OBVIOUS
<1>5. at' \in Nat /\ at' + Len(todo') <= StoreWords
  BY <1>1, <1>4
<1>6. ScratchIsFromTheLog'
  BY <1>2, <1>4 DEF ScratchIsFromTheLog
<1> QED BY <1>3, <1>4, <1>5, <1>6
        DEF RecordHasItsPlace, CompactionHasItsPlace, NothingIsLeftOver

\* load_state keeps the invariant.
LEMMA LoadInv == StoreInv /\ (LoadRecord \/ LoadEnd) => StoreInv'
<1> SUFFICES ASSUME StoreInv PROVE LoadRecord \/ LoadEnd => StoreInv'
  OBVIOUS
<1> USE DEF StoreInv
<1>1. CASE LoadRecord
  <2> DEFINE r == RecordAt(off)
  <2>1. r \in Records /\ off + Size(r) \in 0 .. StoreWords /\ Size(r) \in Nat
    BY <1>1, ReadableType, SizeType DEF TypeOK, LoadRecord
  <2>2. r.type = "STATE" => r.state \in States
    BY <2>1 DEF Records, StateRecord, ItemRecord
  <2>3. state' \in States /\ off' = off + Size(r)
    BY <1>1, <2>2 DEF LoadRecord, TypeOK
  <2>4. TypeOK'
    BY <1>1, <2>1, <2>3 DEF LoadRecord, TypeOK, programming
  <2>5. ScratchIsFromTheLog'
    <3>1. scratch' = <<>>
      BY <1>1 DEF LoadRecord, NothingIsLeftOver
    <3>3. off' = off + Size(r) /\ off + Size(r) \in Nat
      BY <2>1, <2>3, SizesAssumption
    <3>2. StateSize \in Nat
      BY StateRecordType, StatesAssumption
    <3> QED BY <3>1, <3>2, <3>3 DEF ScratchIsFromTheLog
  <2>6. after' = "none" /\ scratch' = <<>>
    BY <1>1 DEF LoadRecord, NothingIsLeftOver, programming
  <2> QED BY <2>4, <2>5, <2>6 DEF RecordHasItsPlace, CompactionHasItsPlace,
             NothingIsLeftOver
<1>2. CASE LoadEnd
  <2>1. 0 \in 0 .. StoreWords
    BY SizesAssumption
  <2>2. TypeOK'
    BY <1>2, <2>1 DEF LoadEnd, TypeOK, programming
  <2>3. ScratchIsFromTheLog'
    <3>1. scratch' = <<>> /\ off' = 0
      BY <1>2 DEF LoadEnd, NothingIsLeftOver
    <3>2. StateSize \in Nat
      BY StateRecordType, StatesAssumption
    <3> QED BY <3>1, <3>2 DEF ScratchIsFromTheLog
  <2>4. after' = "none" /\ scratch' = <<>>
    BY <1>2 DEF LoadEnd, NothingIsLeftOver, programming
  <2> QED BY <2>2, <2>3, <2>4 DEF RecordHasItsPlace, CompactionHasItsPlace,
             NothingIsLeftOver
<1> QED BY <1>1, <1>2

\* A call keeps the invariant when it begins, and when it returns at once.
LEMMA CallInv == StoreInv /\ Call => StoreInv'
<1> SUFFICES ASSUME StoreInv, Call PROVE StoreInv'
  OBVIOUS
<1> USE DEF StoreInv
<1>1. ASSUME NEW st \in States, SaveState(st) PROVE StoreInv'
  <2>1. StateRecord(st) \in Records
    BY StateRecordType
  <2>2. TypeOK'
    BY <1>1, <2>1 DEF SaveState, AppendRecord, TypeOK, compaction, programming
  <2>3. /\ after' = "none" /\ scratch' = scratch /\ scratch = <<>>
        /\ off' = off /\ seen' = seen
    BY <1>1 DEF SaveState, AppendRecord, NothingIsLeftOver, compaction, programming
  <2> QED BY <2>2, <2>3 DEF ScratchIsFromTheLog, RecordHasItsPlace,
             CompactionHasItsPlace, NothingIsLeftOver
<1>2. ASSUME NEW id \in Ids, NEW v \in Values \cup {NoValue}, WriteItem(id, v)
      PROVE  StoreInv'
  <2>1. ItemRecord(id, v) \in Records
    BY DEF Records
  <2>2. CASE Return("OK") /\ rec' = ItemRecord(id, v)
    <3>1. Forget
      BY <2>2 DEF Return
    <3>2. TypeOK'
      BY <1>2, <2>1, <2>2, <3>1, ForgetInv DEF WriteItem, Return, TypeOK, ram
    <3>3. scratch' = <<>>
      BY <3>1 DEF Forget
    <3> QED BY <2>2, <3>1, <3>2, <3>3, ForgetInv DEF NothingIsLeftOver
  <2>3. CASE AppendRecord(ItemRecord(id, v))
    <3>1. TypeOK'
      BY <1>2, <2>1, <2>3 DEF WriteItem, AppendRecord, TypeOK, ram, compaction,
                              programming
    <3>2. /\ after' = "none" /\ scratch' = scratch /\ scratch = <<>>
          /\ off' = off /\ seen' = seen
      BY <1>2, <2>3 DEF WriteItem, AppendRecord, NothingIsLeftOver, compaction,
                        programming
    <3> QED BY <3>1, <3>2 DEF ScratchIsFromTheLog, RecordHasItsPlace,
               CompactionHasItsPlace, NothingIsLeftOver
  <2> QED BY <1>2, <2>2, <2>3 DEF WriteItem
<1> QED BY <1>1, <1>2 DEF Call

\* append keeps the invariant.
LEMMA AppendInv == StoreInv /\ (StartWrite \/ StartCompaction \/ NoSpace) => StoreInv'
<1> SUFFICES ASSUME StoreInv
             PROVE  StartWrite \/ StartCompaction \/ NoSpace => StoreInv'
  OBVIOUS
<1> USE DEF StoreInv
<1>1. CASE StartWrite
  <2>1. /\ rec \in Records /\ Size(rec) <= StoreWords
        /\ storeEnd + Size(rec) <= StoreWords /\ storeEnd \in Nat
    BY <1>1, SizesAssumption DEF StartWrite, Fits, TypeOK
  <2>2. Payload(rec) \in Seq(Cells) /\ Len(Payload(rec)) = Size(rec) - HeaderWords
    BY <2>1, PartsType
  <2>3. Size(rec) \in Nat
    BY <2>1, SizeType
  <2>4. at' \in Nat /\ todo' \in Seq(Cells) /\ at' + Len(todo') <= StoreWords
    BY <1>1, <2>1, <2>2, <2>3 DEF StartWrite, Program
  <2>5. TypeOK'
    BY <1>1, <2>4 DEF StartWrite, Program, TypeOK, ram, compaction
  <2>6. RecordHasItsPlace' /\ CompactionHasItsPlace' /\ NothingIsLeftOver'
    BY <1>1, <2>1 DEF StartWrite, Program, RecordHasItsPlace,
                      CompactionHasItsPlace, NothingIsLeftOver, ram
  <2>7. ScratchIsFromTheLog'
    BY <1>1 DEF StartWrite, ScratchIsFromTheLog, compaction
  <2> QED BY <2>5, <2>6, <2>7
<1>2. CASE StartCompaction
  <2>1. state \in States
    BY DEF TypeOK
  <2>2. /\ scratch' \in Seq(Cells) /\ Len(scratch') = StateSize
        /\ StateSize \in Nat
    BY <1>2, <2>1, StateRecordType, WordsType DEF StartCompaction
  <2>3. off' = 0 /\ seen' = FALSE /\ 0 \in 0 .. StoreWords
    BY <1>2, SizesAssumption DEF StartCompaction
  <2>4. TypeOK'
    BY <1>2, <2>2, <2>3 DEF StartCompaction, TypeOK, ram, programming
  <2>5. after' = "none" /\ pc' = "scan"
    BY <1>2 DEF StartCompaction, NothingIsLeftOver, programming
  <2> QED BY <2>2, <2>3, <2>4, <2>5 DEF ScratchIsFromTheLog, RecordHasItsPlace,
             CompactionHasItsPlace, NothingIsLeftOver
<1>3. CASE NoSpace
  <2>1. Forget
    BY <1>3 DEF NoSpace, Return
  <2>2. TypeOK'
    BY <1>3, <2>1, ForgetInv DEF NoSpace, Return, TypeOK, ram
  <2>3. scratch' = <<>>
    BY <2>1 DEF Forget
  <2> QED BY <2>1, <2>2, <2>3, ForgetInv DEF NothingIsLeftOver
<1> QED BY <1>1, <1>2, <1>3

\* The scan of compact keeps the invariant: what it copies it has passed.
LEMMA ScanInv == StoreInv /\ (ScanRecord \/ ScanEnd) => StoreInv'
<1> SUFFICES ASSUME StoreInv PROVE ScanRecord \/ ScanEnd => StoreInv'
  OBVIOUS
<1> USE DEF StoreInv
<1>1. CASE ScanRecord
  <2> DEFINE r == RecordAt(off)
  <2>1. /\ r \in Records /\ Size(r) <= StoreWords
        /\ off + Size(r) \in 0 .. StoreWords /\ off \in Nat
    BY <1>1, ReadableType, SizesAssumption DEF TypeOK, ScanRecord
  <2>2. /\ Size(r) \in Nat
        /\ r.type = "STATE" => Size(r) = StateSize
        /\ StateSize \in Nat
    BY <2>1, SizeType, StateRecordType, StatesAssumption
  <2>3. Words(r) \in Seq(Cells) /\ Len(Words(r)) = Size(r)
    BY <2>1, WordsType
  <2>4. /\ scratch' = IF Kept(off) THEN scratch \o Words(r) ELSE scratch
        /\ seen' = (seen \/ r.type = "STATE")
        /\ off' = off + Size(r)
    BY <1>1 DEF ScanRecord
  <2>5. /\ scratch' \in Seq(Cells)
        /\ Kept(off) => Len(scratch') = Len(scratch) + Size(r)
        /\ ~Kept(off) => Len(scratch') = Len(scratch)
        /\ Len(scratch) \in Nat
    BY <2>3, <2>4 DEF TypeOK
  <2>6. Kept(off) => r.type # "STATE"
    BY DEF Kept
  <2>7. TypeOK'
    BY <1>1, <2>1, <2>4, <2>5 DEF ScanRecord, TypeOK, ram, programming
  <2>8. ScratchIsFromTheLog'
    <3>1. CASE Kept(off)
      <4>1. seen' = seen
        BY <2>4, <2>6, <3>1 DEF TypeOK
      <4> QED BY <2>1, <2>2, <2>4, <2>5, <3>1, <4>1 DEF ScratchIsFromTheLog
    <3>2. CASE ~Kept(off)
      <4>1. /\ scratch' = scratch /\ off' = off + Size(r)
            /\ seen => Len(scratch) <= off
            /\ Len(scratch) <= off + StateSize
        BY <2>4, <3>2 DEF ScratchIsFromTheLog
      <4>2. Len(scratch) <= off + Size(r) + StateSize
        BY <2>1, <2>2, <2>5, <4>1
      <4>4. seen' => seen \/ r.type = "STATE"
        BY <2>4
      <4>3. seen' => Len(scratch) <= off + Size(r)
        <5>1. CASE seen
          BY <2>1, <2>2, <2>5, <4>1, <5>1
        <5>2. CASE r.type = "STATE"
          BY <2>1, <2>2, <2>5, <4>1, <5>2
        <5> QED BY <4>4, <5>1, <5>2
      <4> QED BY <4>1, <4>2, <4>3 DEF ScratchIsFromTheLog
    <3> QED BY <3>1, <3>2
  <2>9. after' = "none" /\ pc' = "scan"
    BY <1>1 DEF ScanRecord, NothingIsLeftOver, programming
  <2> QED BY <2>7, <2>8, <2>9 DEF RecordHasItsPlace, CompactionHasItsPlace,
             NothingIsLeftOver
<1>2. CASE ScanEnd
  <2>1. TypeOK'
    BY <1>2, SectorsType DEF ScanEnd, TypeOK, ram, programming
  <2>2. ScratchIsFromTheLog'
    BY <1>2 DEF ScanEnd, ScratchIsFromTheLog
  <2>3. after' = "none" /\ pc' = "erase"
    BY <1>2 DEF ScanEnd, NothingIsLeftOver, programming
  <2> QED BY <2>1, <2>2, <2>3 DEF RecordHasItsPlace, CompactionHasItsPlace,
             NothingIsLeftOver
<1> QED BY <1>1, <1>2

\* What the erase and a spoilt word leave are words of a store.
LEMMA FilledType == ASSUME TypeOK, NEW cells, NEW word \in {Blank, Garbage}
                    PROVE  Filled(cells, word) \in [Offsets -> Cells]
  BY DEF TypeOK, Filled, Cells

\* What a programmed word leaves, too, and the next word is inside the store.
LEMMA AfterWordType == ASSUME TypeOK, Programming
                       PROVE  /\ AfterWord \in [Offsets -> Cells]
                              /\ at + 1 \in Nat /\ Tail(todo) \in Seq(Cells)
                              /\ at + 1 + Len(Tail(todo)) <= StoreWords
<1>1. /\ todo \in Seq(Cells) /\ todo # <<>> /\ at \in Nat
      /\ at + Len(todo) <= StoreWords
  BY DEF TypeOK, Programming
<1>2. /\ Head(todo) \in Cells /\ Tail(todo) \in Seq(Cells)
      /\ Len(Tail(todo)) = Len(todo) - 1 /\ Len(todo) \in Nat
  BY <1>1
<1>3. Programmed(at, Head(todo)) \in Cells
  BY <1>2 DEF Programmed, Cells
<1>4. AfterWord \in [Offsets -> Cells]
  BY <1>3 DEF AfterWord, TypeOK
<1> QED BY <1>1, <1>2, <1>4

\* The rest of compact keeps the invariant.
LEMMA CompactInv == StoreInv /\ (EraseSector \/ Erased \/ Compacted) => StoreInv'
<1> SUFFICES ASSUME StoreInv
             PROVE  EraseSector \/ Erased \/ Compacted => StoreInv'
  OBVIOUS
<1> USE DEF StoreInv
<1>1. CASE EraseSector
  <2>1. flash' \in [Offsets -> Cells]
    BY <1>1, FilledType DEF EraseSector, AfterErase
  <2>2. sector + 1 \in 0 .. Sectors
    BY <1>1, SectorsType DEF EraseSector, TypeOK
  <2>3. TypeOK'
    BY <1>1, <2>1, <2>2 DEF EraseSector, TypeOK, ram, programming
  <2>4. ScratchIsFromTheLog'
    BY <1>1 DEF EraseSector, ScratchIsFromTheLog
  <2>5. after' = "none" /\ pc' = "erase"
    BY <1>1 DEF EraseSector, NothingIsLeftOver, programming
  <2> QED BY <2>3, <2>4, <2>5 DEF RecordHasItsPlace, CompactionHasItsPlace,
             NothingIsLeftOver
<1>2. CASE Erased
  <2>1. CASE Len(scratch) <= StoreWords
    <3>1. Program(0, scratch, "compacted") /\ UNCHANGED <<rec, attempt, compaction, result>>
      BY <1>2, <2>1 DEF Erased
    <3>2. TypeOK'
      BY <1>2, <2>1, <3>1 DEF Erased, Program, TypeOK, ram, compaction
    <3>3. ScratchIsFromTheLog'
      BY <3>1 DEF ScratchIsFromTheLog, compaction
    <3> QED BY <2>1, <3>1, <3>2, <3>3 DEF Program, compaction, RecordHasItsPlace,
               CompactionHasItsPlace, NothingIsLeftOver
  <2>2. CASE ~(Len(scratch) <= StoreWords)
    <3>1. Return("IO") /\ UNCHANGED rec
      BY <1>2, <2>2 DEF Erased
    <3>2. Forget
      BY <3>1 DEF Return
    <3>3. TypeOK'
      BY <1>2, <3>1, <3>2, ForgetInv DEF Erased, Return, TypeOK, ram
    <3> QED BY <3>2, <3>3, ForgetInv DEF NothingIsLeftOver, Forget
  <2> QED BY <2>1, <2>2
<1>3. CASE Compacted
  <2>1. Forget
    BY <1>3 DEF Compacted
  <2>2. Len(scratch) \in 0 .. StoreWords
    BY <1>3, SizesAssumption DEF Compacted, Written, CompactionHasItsPlace, TypeOK
  <2>3. TypeOK'
    BY <1>3, <2>1, <2>2, ForgetInv DEF Compacted, EndOfCompacted, TypeOK
  <2> QED BY <2>1, <2>3, ForgetInv DEF NothingIsLeftOver, Forget
<1> QED BY <1>1, <1>2, <1>3

\* write_record and the program of the port keep the invariant.
LEMMA WriteInv == StoreInv /\ (ProgramWord \/ PayloadWritten \/ RecordWritten)
                    => StoreInv'
<1> SUFFICES ASSUME StoreInv
             PROVE  ProgramWord \/ PayloadWritten \/ RecordWritten => StoreInv'
  OBVIOUS
<1> USE DEF StoreInv
<1>1. CASE ProgramWord
  <2>1. Programming
    BY <1>1 DEF ProgramWord, Programming
  <2>2. /\ flash' \in [Offsets -> Cells]
        /\ at' \in Nat /\ todo' \in Seq(Cells)
        /\ at' + Len(todo') <= StoreWords
    BY <1>1, <2>1, AfterWordType DEF ProgramWord
  <2>3. TypeOK'
    BY <1>1, <2>2 DEF ProgramWord, TypeOK, ram, compaction
  <2> QED BY <1>1, <2>3 DEF ProgramWord, ScratchIsFromTheLog, RecordHasItsPlace,
             CompactionHasItsPlace, NothingIsLeftOver, ram, compaction
<1>2. CASE PayloadWritten
  <2>1. /\ rec \in Records /\ storeEnd \in Nat /\ Size(rec) \in Nat
        /\ Size(rec) > HeaderWords - 1
        /\ storeEnd + Size(rec) <= StoreWords
    BY <1>2, SizeType DEF PayloadWritten, Written, RecordHasItsPlace, TypeOK
  <2>2. Header(rec) \in Seq(Cells) /\ Len(Header(rec)) = HeaderWords
    BY <2>1, PartsType, SizesAssumption
  <2>5. storeEnd + Len(Header(rec)) <= StoreWords
    BY <2>1, <2>2, SizesAssumption
  <2>3. TypeOK'
    BY <1>2, <2>1, <2>2, <2>5 DEF PayloadWritten, Program, TypeOK, ram, compaction
  <2>4. ScratchIsFromTheLog'
    BY <1>2 DEF PayloadWritten, ScratchIsFromTheLog, compaction
  <2> QED BY <1>2, <2>1, <2>3, <2>4 DEF PayloadWritten, Program, ram,
             RecordHasItsPlace, CompactionHasItsPlace, NothingIsLeftOver
<1>3. CASE RecordWritten
  <2>1. Forget
    BY <1>3 DEF RecordWritten, Return
  <2>2. storeEnd + Size(rec) \in 0 .. StoreWords
    BY <1>3, SizeType DEF RecordWritten, Written, RecordHasItsPlace, TypeOK
  <2>3. TypeOK'
    BY <1>3, <2>1, <2>2, ForgetInv DEF RecordWritten, Return, TypeOK
  <2> QED BY <2>1, <2>3, ForgetInv DEF NothingIsLeftOver, Forget
<1> QED BY <1>1, <1>2, <1>3

\* An error of the flash and a power cut keep the invariant.
LEMMA InterruptInv == StoreInv /\ (Fail \/ PowerCut) => StoreInv'
<1> SUFFICES ASSUME StoreInv PROVE Fail \/ PowerCut => StoreInv'
  OBVIOUS
<1> USE DEF StoreInv
<1>1. Spoilt \in [Offsets -> Cells]
  BY FilledType DEF Spoilt, TypeOK
<1>2. Erasing \/ Programming => Done \in [Offsets -> Cells]
  BY FilledType, AfterWordType DEF Done, AfterErase
<1>3. CASE Fail
  <2>1. Forget
    BY <1>3 DEF Fail, Return
  <2>2. flash' \in [Offsets -> Cells]
    BY <1>1, <1>2, <1>3 DEF Fail, TypeOK
  <2>3. TypeOK'
    BY <1>3, <2>1, <2>2, ForgetInv DEF Fail, Return, TypeOK, ram
  <2> QED BY <2>1, <2>3, ForgetInv DEF NothingIsLeftOver, Forget
<1>4. CASE PowerCut
  <2>1. Forget
    BY <1>4 DEF PowerCut
  <2>2. flash' \in [Offsets -> Cells]
    BY <1>1, <1>4 DEF PowerCut, TypeOK
  <2>3. BlankState \in States /\ StateRecord(BlankState) \in Records
        /\ 0 \in 0 .. StoreWords
    BY StateRecordType, StatesAssumption, SizesAssumption
  <2>4. TypeOK'
    BY <1>4, <2>1, <2>2, <2>3, ForgetInv DEF PowerCut, TypeOK
  <2> QED BY <2>1, <2>4, ForgetInv DEF NothingIsLeftOver, Forget
<1> QED BY <1>3, <1>4

\* A step that changes nothing keeps the invariant.
LEMMA StutterInv == StoreInv /\ UNCHANGED vars => StoreInv'
  BY DEF StoreInv, TypeOK, ScratchIsFromTheLog, RecordHasItsPlace,
         CompactionHasItsPlace, NothingIsLeftOver, vars

\* The invariant holds in every state of every behaviour.
LEMMA InvHolds == Spec => []StoreInv
<1>1. StoreInv /\ [Next]_vars => StoreInv'
  BY CallInv, LoadInv, AppendInv, ScanInv, CompactInv, WriteInv, InterruptInv,
     StutterInv
  DEF Next, Step
<1> QED BY InitInv, <1>1, PTL DEF Spec

\* Every variable of the store keeps its type, and the port is never asked to
\* program a word outside the store (write_record, compact, append).
THEOREM StoreTypeCorrect == Spec => []TypeOK
<1>1. StoreInv => TypeOK
  BY DEF StoreInv
<1> QED BY InvHolds, <1>1, PTL

\* A compaction fits into the scratch memory once the log holds a state record,
\* however long the records are (compact).
THEOREM CompactionsFit == Spec => []CompactionFits
<1>1. StoreInv => CompactionFits
  BY SizesAssumption
  DEF StoreInv, ScratchIsFromTheLog, CompactionFits, TypeOK
<1> QED BY InvHolds, <1>1, PTL

-----------------------------------------------------------------------------
(***************************************************************************)
(* Where a word is programmed, the flash is erased.                        *)
(***************************************************************************)

\* What is erased: the sectors behind the erase, the place of the words that are
\* still to be programmed, and that of the header.
ErasedInv ==
    /\ pc = "program" => after # "none"
    /\ pc = "erase" => \A o \in Offsets : o < sector * SectorWords => flash[o] = Blank
    /\ after # "none" => \A o \in at .. at + Len(todo) - 1 : flash[o] = Blank
    /\ after = "payload" =>
         /\ storeEnd + HeaderWords <= at
         /\ \A o \in storeEnd .. storeEnd + HeaderWords - 1 : flash[o] = Blank

\* It stays erased until it is programmed, also when the flash fails.
LEMMA ErasedStep ==
  ASSUME StoreInv, StoreInv', ErasedInv, [Next]_vars
  PROVE  ErasedInv'
<1>t. TypeOK /\ TypeOK' /\ NothingIsLeftOver'
  BY DEF StoreInv
<1>0. /\ StoreWords \in Nat /\ storeEnd \in Nat /\ at \in Nat /\ todo \in Seq(Cells)
      /\ SectorWords \in Nat /\ SectorWords > 0 /\ Sectors \in Nat
      /\ StoreWords = Sectors * SectorWords /\ sector \in Nat
  BY <1>t, SizesAssumption, SectorsType DEF TypeOK
<1>1. CASE UNCHANGED vars
  BY <1>1 DEF vars, ErasedInv
<1>2. CASE Call \/ LoadRecord \/ LoadEnd \/ StartCompaction \/ NoSpace \/ ScanRecord
             \/ RecordWritten \/ Compacted \/ Fail \/ PowerCut
  <2>1. pc' \in {"load", "idle", "append", "scan"}
    BY <1>2 DEF Call, SaveState, WriteItem, AppendRecord, Return, LoadRecord, LoadEnd,
           StartCompaction, NoSpace, ScanRecord, RecordWritten, Compacted, Fail, PowerCut
  <2>2. after' = "none"
    BY <1>t, <2>1 DEF NothingIsLeftOver
  <2> QED BY <2>1, <2>2 DEF ErasedInv
<1>3. CASE StartWrite
  <2>1. /\ after' = "payload" /\ pc' = "program" /\ at' = storeEnd + HeaderWords
        /\ todo' = Payload(rec) /\ flash' = flash /\ storeEnd' = storeEnd
        /\ Size(rec) <= StoreWords
        /\ \A o \in storeEnd .. storeEnd + Size(rec) - 1 : flash[o] = Blank
    BY <1>3 DEF StartWrite, Program, ram, Fits
  <2>2. Size(rec) \in Nat /\ Size(rec) > 1 /\ Len(Payload(rec)) = Size(rec) - HeaderWords
    BY <1>t, <2>1, SizeType, PartsType DEF TypeOK
  <2>3. /\ \A o \in at' .. at' + Len(todo') - 1 : o \in storeEnd .. storeEnd + Size(rec) - 1
        /\ \A o \in storeEnd .. storeEnd + HeaderWords - 1 :
             o \in storeEnd .. storeEnd + Size(rec) - 1
    BY <1>0, <2>1, <2>2
  <2>4. storeEnd' + HeaderWords <= at'
    BY <1>0, <2>1
  <2> QED BY <2>1, <2>3, <2>4 DEF ErasedInv
<1>4. CASE ScanEnd
  <2>1. pc' = "erase" /\ sector' = 0
    BY <1>4 DEF ScanEnd
  <2>2. after' = "none" /\ \A o \in Offsets : ~(o < 0 * SectorWords)
    BY <1>t, <1>0, <2>1 DEF NothingIsLeftOver, Offsets
  <2> QED BY <2>1, <2>2 DEF ErasedInv
<1>5. CASE EraseSector
  <2>1. pc = "erase" /\ pc' = "erase" /\ sector' = sector + 1 /\ flash' = AfterErase
    BY <1>5 DEF EraseSector
  <2>2. after' = "none"
    BY <1>t, <2>1 DEF NothingIsLeftOver
  <2>3. ASSUME NEW o \in Offsets, o < (sector + 1) * SectorWords PROVE flash'[o] = Blank
    <3> DEFINE n == sector * SectorWords
               m == (sector + 1) * SectorWords
    <3>1. n \in Nat /\ m \in Nat /\ o \in Nat
      BY <1>0 DEF Offsets
    <3>2. CASE o < n
      BY <2>1, <2>3, <3>2 DEF ErasedInv, AfterErase, Filled
    <3>3. CASE ~(o < n)
      <4>1. o \in n .. m - 1
        <5> HIDE DEF n
        <5> QED BY <2>3, <3>1, <3>3
      <4>2. o \in SectorOf(sector)
        BY <4>1 DEF SectorOf
      <4> QED BY <2>1, <4>2 DEF AfterErase, Filled
    <3> QED BY <3>2, <3>3
  <2> QED BY <2>1, <2>2, <2>3 DEF ErasedInv
<1>6. CASE Erased
  <2>1. CASE pc' = "idle"
    BY <1>t, <2>1 DEF ErasedInv, NothingIsLeftOver
  <2>2. CASE pc' # "idle"
    <3>1. /\ pc' = "program" /\ at' = 0 /\ todo' = scratch /\ after' = "compacted"
          /\ flash' = flash /\ pc = "erase" /\ sector = Sectors
          /\ Len(scratch) <= StoreWords
      BY <1>6, <2>2 DEF Erased, Program, Return
    <3>2. \A o \in Offsets : flash[o] = Blank
      BY <1>0, <3>1 DEF ErasedInv, Offsets
    <3>3. \A o \in 0 .. 0 + Len(scratch) - 1 : o \in Offsets
      BY <1>t, <1>0, <3>1 DEF Offsets, TypeOK
    <3> QED BY <3>1, <3>2, <3>3 DEF ErasedInv
  <2> QED BY <2>1, <2>2
<1>7. CASE ProgramWord
  <2>1. /\ pc = "program" /\ pc' = pc /\ after' = after /\ at' = at + 1
        /\ todo' = Tail(todo) /\ flash' = AfterWord /\ storeEnd' = storeEnd /\ todo # <<>>
    BY <1>7 DEF ProgramWord, ram
  <2>2. Len(todo') = Len(todo) - 1 /\ Len(todo) \in Nat /\ Len(todo) > 0
    BY <1>0, <2>1
  <2>3. \A o \in Offsets : o # at => flash'[o] = flash[o]
    BY <1>t, <2>1 DEF AfterWord, TypeOK
  <2>4. \A o \in at' .. at' + Len(todo') - 1 : o \in at .. at + Len(todo) - 1 /\ o # at
    BY <1>0, <2>1, <2>2
  <2>5. \A o \in at .. at + Len(todo) - 1 : o \in Offsets
    BY <1>t, <1>0, <2>2 DEF TypeOK, Offsets
  <2>6. after # "none" => \A o \in at' .. at' + Len(todo') - 1 : flash'[o] = Blank
    BY <2>3, <2>4, <2>5 DEF ErasedInv
  <2>7. ASSUME after = "payload"
        PROVE  /\ storeEnd + HeaderWords <= at'
               /\ \A o \in storeEnd .. storeEnd + HeaderWords - 1 : flash'[o] = Blank
    <3>1. storeEnd + HeaderWords <= at
      BY <2>7 DEF ErasedInv
    <3>2. \A o \in storeEnd .. storeEnd + HeaderWords - 1 :
             o \in Offsets /\ o # at /\ flash[o] = Blank
      BY <1>t, <1>0, <2>2, <2>7, <3>1 DEF ErasedInv, TypeOK, Offsets
    <3> QED BY <1>0, <2>1, <2>3, <3>1, <3>2
  <2> QED BY <2>1, <2>6, <2>7 DEF ErasedInv
<1>8. CASE PayloadWritten
  <2>1. /\ pc' = "program" /\ after = "payload" /\ after' = "header" /\ at' = storeEnd
        /\ todo' = Header(rec) /\ flash' = flash
    BY <1>8 DEF PayloadWritten, Written, Program
  <2>2. Len(Header(rec)) = HeaderWords
    <3>1. rec \in Records /\ storeEnd + Size(rec) <= StoreWords /\ Size(rec) \in Nat
      BY <1>t, <2>1, SizeType DEF StoreInv, RecordHasItsPlace, TypeOK
    <3>2. Size(rec) <= StoreWords
      BY <1>0, <3>1
    <3> QED BY <3>1, <3>2, PartsType
  <2> QED BY <2>1, <2>2 DEF ErasedInv
<1> QED BY <1>1, <1>2, <1>3, <1>4, <1>5, <1>6, <1>7, <1>8 DEF Next, Step

\* Whatever the size of the store and of its sectors, whatever an interrupted
\* call has left and also when the flash fails: write_record and compact program
\* erased words only, as the port demands it (selector/include/dmsel.h:99).
THEOREM ErasedWordsAreProgrammed == Spec => []ProgramsErasedWords
<1>1. Init => ErasedInv
  BY DEF Init, ErasedInv
<1>2. StoreInv /\ StoreInv' /\ ErasedInv /\ [Next]_vars => ErasedInv'
  BY ErasedStep
<1>3. StoreInv /\ ErasedInv => ProgramsErasedWords
  <2> SUFFICES ASSUME StoreInv, ErasedInv, Programming PROVE flash[at] = Blank
    BY DEF ProgramsErasedWords
  <2>1. /\ pc = "program" /\ todo # <<>> /\ at \in Nat /\ todo \in Seq(Cells)
    BY DEF Programming, StoreInv, TypeOK
  <2>2. at \in at .. at + Len(todo) - 1
    BY <2>1
  <2> QED BY <2>1, <2>2 DEF ErasedInv
<1> QED BY <1>1, <1>2, <1>3, InvHolds, PTL DEF Spec

-----------------------------------------------------------------------------
(***************************************************************************)
(* The log in the flash: what can be read at an offset, where the log ends, *)
(* and what is read from it (rec_read, load_state, later_item).            *)
(***************************************************************************)

\* The records that can be read, where each ends, and the offsets that begin a
\* record in the flash, whole or not.
EndOf(o) == o + Size(RecordAt(o))
Heads == {o \in Offsets : Readable(o)}
First(o) == flash[o] \notin {Blank, Garbage} /\ flash[o][2] = 1

\* The first e words are whole records, and the log ends there.
Whole(e) ==
    \A o \in 0 .. e - 1 : \E s \in Heads : s <= o /\ o < EndOf(s) /\ EndOf(s) <= e
LogIs(e) == Whole(e) /\ ~Readable(e) /\ \A o \in Offsets : First(o) => o <= e

IsState(o) == RecordAt(o).type = "STATE"
LatestState(o) == IsState(o) /\ \A p \in Heads : IsState(p) => p <= o
LatestOf(o, id) ==
    IsItem(RecordAt(o), id) /\ \A p \in Heads : IsItem(RecordAt(p), id) => p <= o

\* A set of natural numbers has a least element ...
LEMMA LeastOf == ASSUME NEW T \in SUBSET Nat, T # {}
                 PROVE  \E m \in T : \A n \in T : m <= n
<1>1. IsWellFoundedOn(OpToRel(<,Nat), Nat)
  BY NatLessThanWellFounded
<1>2. PICK m \in T : \A n \in T : <<n, m>> \notin OpToRel(<,Nat)
  BY <1>1, WFMin
<1>3. ASSUME NEW n \in T PROVE m <= n
  <2>1. n \in Nat /\ m \in Nat
    OBVIOUS
  <2>2. ~(n < m)
    BY <1>2, <2>1 DEF OpToRel
  <2> QED BY <2>1, <2>2
<1> QED BY <1>3

\* ... and a bounded one a greatest.
LEMMA GreatestOf == ASSUME NEW N \in Nat, NEW T \in SUBSET (0 .. N), T # {}
                    PROVE  \E m \in T : \A n \in T : n <= m
<1> DEFINE U == {N - t : t \in T}
<1>1. U \in SUBSET Nat /\ U # {}
  <2>1. ASSUME NEW t \in T PROVE N - t \in Nat
    <3>1. t \in 0 .. N
      OBVIOUS
    <3> QED BY <3>1
  <2>2. PICK t \in T : TRUE
    OBVIOUS
  <2>3. N - t \in U
    OBVIOUS
  <2> QED BY <2>1, <2>3
<1>2. PICK u \in U : \A v \in U : u <= v
  BY <1>1, LeastOf
<1>3. PICK m \in T : u = N - m
  BY <1>2
<1>4. ASSUME NEW n \in T PROVE n <= m
  <2>1. N - n \in U
    OBVIOUS
  <2>2. N - m <= N - n
    BY <1>2, <1>3, <2>1
  <2> QED BY <2>2
<1> QED BY <1>4

\* The latest offset is the greatest one.
LEMMA LatestIs == ASSUME NEW S \in SUBSET Nat, NEW o \in S, \A p \in S : p <= o
                  PROVE  Latest(S) = o
<1>1. \E q \in S : \A p \in S : p <= q
  OBVIOUS
<1>2. Latest(S) \in S /\ \A p \in S : p <= Latest(S)
  BY <1>1 DEF Latest
<1>3. Latest(S) <= o /\ o <= Latest(S) /\ Latest(S) \in Nat /\ o \in Nat
  BY <1>2
<1> QED BY <1>3

\* What is neither blank nor garbage is a word of a record.
LEMMA CellType == ASSUME NEW c \in Cells, c \notin {Blank, Garbage}
                  PROVE  /\ c[1] \in Records /\ c[2] \in 1 .. StoreWords
                         /\ c = <<c[1], c[2]>>
  BY DEF Cells

\* A word of a record is neither blank nor garbage.
LEMMA WordIsNeither == ASSUME NEW r \in Records, NEW i \in 1 .. StoreWords
                       PROVE  <<r, i>> \notin {Blank, Garbage}
  BY CellsAssumption

\* A record that can be read: where it is and which words it has.
LEMMA HeadFacts == ASSUME TypeOK, NEW o \in Heads
                   PROVE  /\ o \in Nat /\ o \in Offsets
                          /\ RecordAt(o) \in Records
                          /\ Size(RecordAt(o)) \in Nat /\ Size(RecordAt(o)) > 1
                          /\ EndOf(o) \in 0 .. StoreWords /\ o < EndOf(o)
                          /\ \A k \in o .. EndOf(o) - 1 :
                                k \in Offsets /\ flash[k] = <<RecordAt(o), k - o + 1>>
                          /\ First(o)
<1>1. o \in 0 .. StoreWords - 1 /\ Readable(o) /\ StoreWords \in Nat
  BY SizesAssumption DEF Heads, Offsets
<1>2. RecordAt(o) \in Records /\ EndOf(o) \in 0 .. StoreWords
  BY <1>1, ReadableType DEF EndOf
<1>3. Size(RecordAt(o)) \in Nat /\ Size(RecordAt(o)) > 1
  BY <1>2, SizeType
<1>4. ASSUME NEW k \in o .. EndOf(o) - 1
      PROVE  k \in Offsets /\ flash[k] = <<RecordAt(o), k - o + 1>>
  <2>1. k \in Offsets /\ k - o + 1 \in 1 .. Size(RecordAt(o))
    BY <1>1, <1>2, <1>3 DEF Offsets, EndOf
  <2>2. flash[o + (k - o + 1) - 1] = <<RecordAt(o), k - o + 1>>
    BY <1>1, <2>1 DEF Readable, RecordAt
  <2>3. o + (k - o + 1) - 1 = k
    BY <1>1
  <2> QED BY <2>1, <2>2, <2>3
<1>5. o < EndOf(o)
  BY <1>1, <1>3 DEF EndOf
<1>6. flash[o] = <<RecordAt(o), 1>>
  <2>1. o \in o .. EndOf(o) - 1 /\ o - o + 1 = 1
    BY <1>1, <1>2, <1>5
  <2> QED BY <1>4, <2>1
<1>7. First(o)
  BY <1>1, <1>6 DEF First, Readable
<1> QED BY <1>1, <1>2, <1>3, <1>4, <1>5, <1>7 DEF Offsets

\* Records do not overlap.
LEMMA HeadsApart == ASSUME TypeOK, NEW o \in Heads, NEW p \in Offsets, o < p, First(p)
                    PROVE  EndOf(o) <= p
<1>1. o \in Nat /\ p \in Nat /\ EndOf(o) \in Nat
  BY HeadFacts, SizesAssumption DEF Offsets
<1>2. SUFFICES ASSUME p < EndOf(o) PROVE FALSE
  BY <1>1
<1>3. p \in o .. EndOf(o) - 1
  BY <1>1, <1>2
<1>4. flash[p] = <<RecordAt(o), p - o + 1>>
  BY <1>3, HeadFacts
<1>5. flash[p][2] = p - o + 1
  BY <1>4
<1> QED BY <1>1, <1>5 DEF First

\* In the log one record begins where another ends.
LEMMA NextHead == ASSUME TypeOK, NEW e \in 0 .. StoreWords, LogIs(e)
                  PROVE  /\ 0 \in Heads \cup {e}
                         /\ \A o \in Heads : /\ o < e /\ EndOf(o) <= e
                                             /\ EndOf(o) \in Heads \cup {e}
<1>0. StoreWords \in Nat /\ e \in Nat
  BY SizesAssumption
<1>1. 0 \in Heads \cup {e}
  <2>1. CASE e = 0
    BY <2>1
  <2>2. CASE e # 0
    <3>1. PICK s \in Heads : s <= 0
      BY <1>0, <2>2 DEF LogIs, Whole
    <3>2. s = 0
      BY <3>1, HeadFacts
    <3> QED BY <3>2
  <2> QED BY <2>1, <2>2
<1>2. ASSUME NEW o \in Heads
      PROVE  o < e /\ EndOf(o) <= e /\ EndOf(o) \in Heads \cup {e}
  <2>1. o \in Nat /\ o \in Offsets /\ First(o) /\ EndOf(o) \in Nat /\ o < EndOf(o)
        /\ EndOf(o) <= StoreWords
    BY HeadFacts, <1>0
  <2>2. o < e
    <3>1. o <= e
      BY <2>1 DEF LogIs
    <3>2. o # e
      BY DEF LogIs, Heads
    <3> QED BY <1>0, <2>1, <3>1, <3>2
  <2>3. EndOf(o) <= e
    <3>1. o \in 0 .. e - 1
      BY <1>0, <2>1, <2>2
    <3>2. PICK s \in Heads : s <= o /\ o < EndOf(s) /\ EndOf(s) <= e
      BY <3>1 DEF LogIs, Whole
    <3>3. s \in Nat /\ EndOf(s) \in Nat
      BY HeadFacts, <1>0
    <3>4. s < o => EndOf(s) <= o
      BY <2>1, HeadsApart
    <3>5. s = o
      BY <2>1, <3>2, <3>3, <3>4
    <3> QED BY <3>2, <3>5
  <2>4. ASSUME EndOf(o) # e PROVE EndOf(o) \in Heads
    <3>1. EndOf(o) \in 0 .. e - 1
      BY <1>0, <2>1, <2>3, <2>4
    <3>2. PICK s \in Heads : s <= EndOf(o) /\ EndOf(o) < EndOf(s)
      BY <3>1 DEF LogIs, Whole
    <3>3. s \in Nat /\ EndOf(s) \in Nat /\ s \in Offsets /\ First(s)
      BY HeadFacts, <1>0
    <3>4. o < s => EndOf(o) <= s
      BY <3>3, HeadsApart
    <3>5. s < o => EndOf(s) <= o
      BY <2>1, HeadsApart
    <3>6. s # o
      BY <2>1, <3>2, <3>3
    <3>7. s = EndOf(o)
      BY <2>1, <3>2, <3>3, <3>4, <3>5, <3>6
    <3> QED BY <3>7
  <2> QED BY <2>2, <2>3, <2>4
<1> QED BY <1>1, <1>2

\* The log as the loops of load_state and compact go through it: the function
\* is the one its recursive definition describes.
LEMMA LogEquation ==
  ASSUME TypeOK, NEW o \in 0 .. StoreWords
  PROVE  LogFrom[o] = IF Readable(o) THEN {o} \cup LogFrom[EndOf(o)] ELSE {}
<1> DEFINE All == 0 .. StoreWords
           F(f) == [x \in All |->
                      IF Readable(x) THEN {x} \cup f[x + Size(RecordAt(x))] ELSE {}]
           Closed(x, S) == x \in S /\ \A q \in S : Readable(q) => EndOf(q) \in S
           Reach == [x \in All |-> {p \in All : /\ Readable(p)
                                       /\ \A S \in SUBSET All : Closed(x, S) => p \in S}]
<1>0. ASSUME NEW x \in All, Readable(x)
      PROVE  EndOf(x) \in All
  BY <1>0, ReadableType DEF EndOf
<1>1. Reach = F(Reach)
  <2>1. ASSUME NEW x \in All PROVE Reach[x] = F(Reach)[x]
    <3>1. CASE ~Readable(x)
      <4>1. Closed(x, {x}) /\ {x} \in SUBSET All
        BY <3>1
      <4> QED BY <3>1, <4>1
    <3>2. CASE Readable(x)
      <4> DEFINE n == EndOf(x)
      <4>0. n \in All
        BY <3>2, <1>0
      <4>1. ASSUME NEW S \in SUBSET All, Closed(x, S) PROVE Closed(n, S)
        BY <4>1, <3>2
      <4>2. ASSUME NEW S \in SUBSET All, Closed(n, S)
            PROVE  Closed(x, S \cup {x}) /\ S \cup {x} \in SUBSET All
        BY <4>2, <3>2
      <4>3. Reach[n] \subseteq Reach[x]
        <5> HIDE DEF n, Closed
        <5> QED BY <4>0, <4>1
      <4>4. x \in Reach[x]
        BY <3>2
      <4>5. ASSUME NEW p \in Reach[x], p # x PROVE p \in Reach[n]
        <5> HIDE DEF n, Closed
        <5>1. ASSUME NEW S \in SUBSET All, Closed(n, S) PROVE p \in S
          <6>1. p \in S \cup {x}
            BY <5>1, <4>2, <4>5
          <6> QED BY <6>1, <4>5
        <5> QED BY <5>1, <4>5, <4>0
      <4>6. Reach[x] = {x} \cup Reach[n]
        <5> HIDE DEF n, Reach
        <5> QED BY <4>3, <4>4, <4>5
      <4>7. F(Reach)[x] = {x} \cup Reach[n]
        <5> HIDE DEF Reach
        <5> QED BY <3>2 DEF EndOf
      <4> QED BY <4>6, <4>7
    <3> QED BY <3>1, <3>2
  <2>2. Reach = [x \in All |-> Reach[x]] /\ F(Reach) = [x \in All |-> F(Reach)[x]]
    OBVIOUS
  <2> HIDE DEF Reach, F
  <2> QED BY <2>1, <2>2
<1>2. LogFrom = CHOOSE f : f = F(f)
  BY DEF LogFrom
<1>3. \E f : f = F(f)
  <2> HIDE DEF Reach, F
  <2> QED BY <1>1
<1>4. LogFrom = F(LogFrom)
  <2> HIDE DEF F
  <2> QED BY <1>2, <1>3
<1> QED BY <1>4 DEF EndOf

\* From each of its records on, the log has the records that can be read there.
LEMMA LogFromIs ==
  ASSUME TypeOK, NEW e \in 0 .. StoreWords, LogIs(e), NEW o \in Heads \cup {e}
  PROVE  LogFrom[o] = {p \in Heads : o <= p}
<1> DEFINE Right(x) == LogFrom[x] = {p \in Heads : x <= p}
           Wrong == {x \in Heads \cup {e} : ~Right(x)}
<1>0. StoreWords \in Nat /\ e \in Nat
  BY SizesAssumption
<1>1. Wrong \in SUBSET (0 .. StoreWords)
  BY <1>0, HeadFacts DEF Offsets
<1>2. SUFFICES ASSUME Wrong # {} PROVE FALSE
  OBVIOUS
<1>3. PICK x \in Wrong : \A y \in Wrong : y <= x
  <2> HIDE DEF Wrong
  <2> QED BY <1>0, <1>1, <1>2, GreatestOf
<1>4. x \in 0 .. StoreWords
  BY <1>1
<1>5. CASE x = e
  <2>1. LogFrom[x] = {}
    BY <1>4, <1>5, LogEquation DEF LogIs
  <2>2. {p \in Heads : x <= p} = {}
    <3>1. ASSUME NEW p \in Heads PROVE ~(x <= p)
      <4>1. p < e /\ p \in Nat
        BY NextHead, HeadFacts
      <4> QED BY <1>0, <1>5, <4>1
    <3> QED BY <3>1
  <2> QED BY <2>1, <2>2
<1>6. CASE x \in Heads
  <2>0. x \in Nat /\ EndOf(x) \in Nat /\ x < EndOf(x)
    BY <1>0, <1>6, HeadFacts
  <2>1. LogFrom[x] = {x} \cup LogFrom[EndOf(x)]
    BY <1>4, <1>6, LogEquation DEF Heads
  <2>2. EndOf(x) \in Heads \cup {e}
    BY <1>6, NextHead
  <2>3. Right(EndOf(x))
    <3>1. EndOf(x) \notin Wrong
      BY <1>3, <2>0
    <3> QED BY <2>2, <3>1
  <2>4. {p \in Heads : x <= p} = {x} \cup {p \in Heads : EndOf(x) <= p}
    <3>1. ASSUME NEW p \in Heads, x <= p PROVE p = x \/ EndOf(x) <= p
      <4>1. p \in Nat /\ p \in Offsets /\ First(p)
        BY HeadFacts
      <4>2. x < p => EndOf(x) <= p
        BY <1>6, <4>1, HeadsApart
      <4> QED BY <2>0, <3>1, <4>1, <4>2
    <3>2. ASSUME NEW p \in Heads, EndOf(x) <= p PROVE x <= p
      <4>1. p \in Nat
        BY HeadFacts
      <4> QED BY <2>0, <3>2, <4>1
    <3>3. x <= x
      BY <2>0
    <3> QED BY <1>6, <3>1, <3>2, <3>3
  <2> QED BY <2>1, <2>3, <2>4
<1> QED BY <1>5, <1>6

\* A record that can be read is inside the store, and none begins in another.
HeadsAreApart == \A o \in Heads :
    /\ o \in Offsets /\ EndOf(o) \in 0 .. StoreWords /\ o < EndOf(o)
    /\ RecordAt(o) \in Records /\ First(o)
    /\ \A k \in o .. EndOf(o) - 1 : flash[k] = <<RecordAt(o), k - o + 1>>
    /\ \A p \in Offsets : o < p /\ First(p) => EndOf(o) <= p

\* The log, its end and what is read from it, by the records in the flash.
LogFacts == \A e \in 0 .. StoreWords : LogIs(e) =>
    /\ LogEnd = e
    /\ \A o \in Heads : o < e /\ EndOf(o) <= e
    /\ \A o \in Heads : LatestState(o) => StoredState = RecordAt(o).state
    /\ (\A p \in Heads : ~IsState(p)) => StoredState = NoState
    /\ \A id : \A o \in Heads : LatestOf(o, id) => Item(id) = RecordAt(o).value
    /\ \A id : (\A p \in Heads : ~IsItem(RecordAt(p), id)) => Item(id) = NoValue
    /\ \A id : \A o \in Heads :
         LaterItem(EndOf(o), id) <=> \E p \in Heads : o < p /\ IsItem(RecordAt(p), id)

\* The log is what can be read, from the first word to the end.
LEMMA LogFactsHold == TypeOK => LogFacts
<1> SUFFICES ASSUME TypeOK, NEW e \in 0 .. StoreWords, LogIs(e)
             PROVE
    /\ LogEnd = e
    /\ \A o \in Heads : o < e /\ EndOf(o) <= e
    /\ \A o \in Heads : LatestState(o) => StoredState = RecordAt(o).state
    /\ (\A p \in Heads : ~IsState(p)) => StoredState = NoState
    /\ \A id : \A o \in Heads : LatestOf(o, id) => Item(id) = RecordAt(o).value
    /\ \A id : (\A p \in Heads : ~IsItem(RecordAt(p), id)) => Item(id) = NoValue
    /\ \A id : \A o \in Heads :
         LaterItem(EndOf(o), id) <=> \E p \in Heads : o < p /\ IsItem(RecordAt(p), id)
  BY DEF LogFacts
<1>0. StoreWords \in Nat /\ e \in Nat
  BY SizesAssumption
<1>1. \A o \in Heads : o \in Nat /\ EndOf(o) \in Nat /\ o < EndOf(o)
  BY <1>0, HeadFacts
<1>2. Log = Heads
  <2>1. Log = {p \in Heads : 0 <= p}
    BY NextHead, LogFromIs DEF Log
  <2> QED BY <1>1, <2>1
<1>3. LogEnd = e
  <2>1. CASE Heads = {}
    <3>1. e = 0
      BY <2>1, NextHead
    <3> QED BY <1>2, <2>1, <3>1 DEF LogEnd
  <2>2. CASE Heads # {}
    <3>1. e - 1 \in 0 .. e - 1
      BY <1>0, <1>1, <2>2, NextHead
    <3>2. PICK s \in Heads : s <= e - 1 /\ e - 1 < EndOf(s) /\ EndOf(s) <= e
      BY <3>1 DEF LogIs, Whole
    <3>3. EndOf(s) = e
      BY <1>0, <1>1, <3>2
    <3>4. ASSUME NEW p \in Heads PROVE p <= s
      <4>1. p < e /\ First(p) /\ p \in Offsets
        BY NextHead, HeadFacts
      <4>2. s < p => EndOf(s) <= p
        BY <4>1, HeadsApart
      <4> QED BY <1>0, <1>1, <3>3, <4>1, <4>2
    <3>5. Latest(Log) = s
      BY <1>1, <1>2, <3>4, LatestIs
    <3> QED BY <1>2, <2>2, <3>3, <3>5 DEF LogEnd, EndOf
  <2> QED BY <2>1, <2>2
<1>4. ASSUME NEW o \in Heads, LatestState(o)
      PROVE  StoredState = RecordAt(o).state
  <2>1. StateOffsets = {p \in Heads : IsState(p)}
    BY <1>2 DEF StateOffsets, IsState
  <2>2. Latest(StateOffsets) = o
    BY <1>1, <1>4, <2>1, LatestIs DEF LatestState
  <2> QED BY <1>4, <2>1, <2>2 DEF StoredState, LatestState
<1>5. ASSUME \A p \in Heads : ~IsState(p) PROVE StoredState = NoState
  BY <1>2, <1>5 DEF StoredState, StateOffsets, IsState
<1>6. ASSUME NEW id, NEW o \in Heads, LatestOf(o, id)
      PROVE  Item(id) = RecordAt(o).value
  <2>1. ItemOffsets(id) = {p \in Heads : IsItem(RecordAt(p), id)}
    BY <1>2 DEF ItemOffsets
  <2>2. Latest(ItemOffsets(id)) = o
    BY <1>1, <1>6, <2>1, LatestIs DEF LatestOf
  <2> QED BY <1>6, <2>1, <2>2 DEF Item, LatestOf
<1>7. ASSUME NEW id, \A p \in Heads : ~IsItem(RecordAt(p), id)
      PROVE  Item(id) = NoValue
  BY <1>2, <1>7 DEF Item, ItemOffsets
<1>8. ASSUME NEW id, NEW o \in Heads
      PROVE  LaterItem(EndOf(o), id)
               <=> \E p \in Heads : o < p /\ IsItem(RecordAt(p), id)
  <2>1. LogFrom[EndOf(o)] = {p \in Heads : EndOf(o) <= p}
    <3>1. EndOf(o) \in Heads \cup {e}
      BY NextHead
    <3> QED BY <3>1, LogFromIs
  <2>2. ASSUME NEW p \in Heads PROVE EndOf(o) <= p <=> o < p
    <3>1. p \in Offsets /\ First(p)
      BY HeadFacts
    <3>2. o < p => EndOf(o) <= p
      BY <3>1, HeadsApart
    <3> QED BY <1>1, <3>2
  <2> QED BY <2>1, <2>2 DEF LaterItem
<1>9. \A o \in Heads : o < e /\ EndOf(o) <= e
  BY NextHead
<1> QED BY <1>3, <1>4, <1>5, <1>6, <1>7, <1>8, <1>9

\* The same in the next state.
LEMMA NextFacts == TypeOK' => HeadsAreApart' /\ LogFacts'
<1>1. TypeOK => HeadsAreApart
  BY HeadFacts, HeadsApart DEF HeadsAreApart
<1>2. TypeOK => HeadsAreApart /\ LogFacts
  BY <1>1, LogFactsHold
<1>3. (TypeOK => HeadsAreApart /\ LogFacts)'
  BY <1>2, PTL
<1> QED BY <1>3

\* Of the records of a kind, when there is one, one is the latest.
LEMMA LatestExists ==
  ASSUME TypeOK
  PROVE  /\ (\A p \in Heads : ~IsState(p)) \/ \E o \in Heads : LatestState(o)
         /\ \A id : \/ \A p \in Heads : ~IsItem(RecordAt(p), id)
                    \/ \E o \in Heads : LatestOf(o, id)
<1>1. ASSUME NEW T \in SUBSET Heads, T # {}
      PROVE  \E o \in T : \A p \in T : p <= o
  <2>1. T \in SUBSET (0 .. StoreWords) /\ StoreWords \in Nat
    BY HeadFacts, SizesAssumption DEF Offsets
  <2> QED BY <1>1, <2>1, GreatestOf
<1>2. ASSUME NEW q \in Heads, IsState(q) PROVE \E o \in Heads : LatestState(o)
  <2>1. PICK o \in {p \in Heads : IsState(p)} : \A p \in {p \in Heads : IsState(p)} : p <= o
    BY <1>1, <1>2
  <2> QED BY <2>1 DEF LatestState
<1>3. ASSUME NEW id, NEW q \in Heads, IsItem(RecordAt(q), id)
      PROVE  \E o \in Heads : LatestOf(o, id)
  <2> DEFINE T == {p \in Heads : IsItem(RecordAt(p), id)}
  <2>1. PICK o \in T : \A p \in T : p <= o
    <3>1. T \in SUBSET Heads /\ T # {}
      BY <1>3
    <3> HIDE DEF T
    <3> QED BY <1>1, <3>1
  <2> QED BY <2>1 DEF LatestOf
<1> QED BY <1>2, <1>3

\* The log does not look at what is behind its end.
LEMMA HeadsKept == ASSUME TypeOK, TypeOK', NEW e \in 0 .. StoreWords, LogIs(e),
                          \A o \in 0 .. e - 1 : flash'[o] = flash[o]
                   PROVE  \A o \in Heads : /\ Readable(o)' /\ RecordAt(o)' = RecordAt(o)
                                           /\ EndOf(o)' = EndOf(o)
<1> SUFFICES ASSUME NEW o \in Heads
             PROVE  Readable(o)' /\ RecordAt(o)' = RecordAt(o) /\ EndOf(o)' = EndOf(o)
  OBVIOUS
<1>0. StoreWords \in Nat /\ e \in Nat
  BY SizesAssumption
<1>1. o \in Nat /\ EndOf(o) <= e /\ o < e /\ Size(RecordAt(o)) \in Nat /\ Size(RecordAt(o)) > 1
  BY HeadFacts, NextHead
<1>2. \A i \in 1 .. Size(RecordAt(o)) : o + i - 1 \in 0 .. e - 1
  BY <1>0, <1>1 DEF EndOf
<1>3. RecordAt(o)' = RecordAt(o)
  BY <1>0, <1>1 DEF RecordAt
<1>4. Readable(o)'
  BY <1>0, <1>1, <1>2 DEF Readable, RecordAt, Heads
<1> QED BY <1>3, <1>4 DEF EndOf

\* A step that changes nothing in the log keeps what was stored.
LEMMA LogKept ==
  ASSUME TypeOK, TypeOK', NEW e \in 0 .. StoreWords, LogIs(e),
         \A o \in 0 .. e - 1 : flash'[o] = flash[o],
         Readable(e)' = FALSE, \A o \in Offsets : First(o)' => o <= e
  PROVE  /\ LogIs(e)'
         /\ Heads' = Heads /\ \A o \in Heads : RecordAt(o)' = RecordAt(o)
         /\ StoredState' = StoredState /\ \A id : Item(id)' = Item(id)
<1>0. StoreWords \in Nat /\ e \in Nat
  BY SizesAssumption
<1>1. \A o \in Heads : /\ Readable(o)' /\ RecordAt(o)' = RecordAt(o)
                       /\ EndOf(o)' = EndOf(o)
  BY HeadsKept
<1>2. LogIs(e)'
  <2>1. \A o \in Heads : o \in Heads'
    BY <1>1 DEF Heads
  <2>2. Whole(e)'
    BY <1>1, <2>1 DEF LogIs, Whole
  <2> QED BY <2>2 DEF LogIs
<1>3. HeadsAreApart' /\ LogFacts' /\ LogFacts
  BY LogFactsHold, NextFacts
<1>4. Heads' = Heads
  <2>1. \A o \in Heads : o \in Heads'
    BY <1>1 DEF Heads
  <2>2. ASSUME NEW o \in Heads' PROVE o \in Heads
    <3>1. o < e /\ o \in Offsets /\ First(o)'
      BY <1>2, <1>3, <2>2 DEF LogFacts, HeadsAreApart
    <3>2. o \in 0 .. e - 1
      BY <1>0, <3>1 DEF Offsets
    <3>3. PICK s \in Heads : s <= o /\ o < EndOf(s)
      BY <3>2 DEF LogIs, Whole
    <3>4. s \in Heads' /\ s \in Nat /\ EndOf(s) = EndOf(s)' /\ EndOf(s) \in Nat
      BY <1>0, <1>1, <2>1, HeadFacts
    <3>5. s < o => EndOf(s) <= o
      BY <1>3, <3>1, <3>4 DEF HeadsAreApart
    <3>6. s = o
      BY <1>0, <3>2, <3>3, <3>4, <3>5
    <3> QED BY <3>6
  <2> QED BY <2>1, <2>2
<1>5. \A o \in Heads : RecordAt(o)' = RecordAt(o) /\ IsState(o)' = IsState(o)
  BY <1>1 DEF IsState
<1>6. StoredState' = StoredState
  <2>1. CASE \A p \in Heads : ~IsState(p)
    <3>1. \A p \in Heads' : ~IsState(p)'
      BY <1>4, <1>5, <2>1
    <3> QED BY <1>2, <1>3, <2>1, <3>1 DEF LogFacts
  <2>2. ASSUME NEW o \in Heads, LatestState(o) PROVE StoredState' = StoredState
    <3>1. LatestState(o)' /\ o \in Heads'
      BY <1>4, <1>5, <2>2 DEF LatestState
    <3>2. StoredState = RecordAt(o).state /\ StoredState' = RecordAt(o)'.state
      BY <1>2, <1>3, <2>2, <3>1 DEF LogFacts
    <3> QED BY <1>5, <3>2
  <2> QED BY <2>1, <2>2, LatestExists
<1>7. ASSUME NEW id PROVE Item(id)' = Item(id)
  <2>1. CASE \A p \in Heads : ~IsItem(RecordAt(p), id)
    <3>1. \A p \in Heads' : ~IsItem(RecordAt(p)', id)
      BY <1>4, <1>5, <2>1
    <3>2. Item(id) = NoValue /\ Item(id)' = NoValue
      BY <1>2, <1>3, <2>1, <3>1 DEF LogFacts
    <3> QED BY <3>2
  <2>2. ASSUME NEW o \in Heads, LatestOf(o, id) PROVE Item(id)' = Item(id)
    <3>1. LatestOf(o, id)' /\ o \in Heads'
      BY <1>4, <1>5, <2>2 DEF LatestOf
    <3>2. Item(id) = RecordAt(o).value /\ Item(id)' = RecordAt(o)'.value
      BY <1>2, <1>3, <2>2, <3>1 DEF LogFacts
    <3> QED BY <1>5, <3>2
  <2> QED BY <2>1, <2>2, LatestExists
<1> QED BY <1>2, <1>4, <1>5, <1>6, <1>7

\* A record that is complete behind the log is the latest one of its kind.
LEMMA LogGrows ==
  ASSUME TypeOK, TypeOK', NEW e \in 0 .. StoreWords, LogIs(e),
         \A o \in 0 .. e - 1 : flash'[o] = flash[o],
         Readable(e)', NEW e2 \in 0 .. StoreWords, e2 = EndOf(e)',
         Readable(e2)' = FALSE, \A o \in Offsets : First(o)' => o <= e2,
         NEW r, r = RecordAt(e)'
  PROVE  /\ LogIs(e2)'
         /\ Heads' = Heads \cup {e}
         /\ \A o \in Heads : RecordAt(o)' = RecordAt(o)
         /\ StoredState' = IF r.type = "STATE" THEN r.state ELSE StoredState
         /\ \A id : Item(id)' = IF IsItem(r, id) THEN r.value ELSE Item(id)
<1>0. StoreWords \in Nat /\ e \in Nat
  BY SizesAssumption
<1>1. \A o \in Heads : /\ Readable(o)' /\ RecordAt(o)' = RecordAt(o)
                       /\ EndOf(o)' = EndOf(o)
  BY HeadsKept
<1>2. Heads \cup {e} \subseteq Heads'
  <2>1. e \in Offsets
    BY <1>0 DEF Readable, Offsets
  <2> QED BY <1>1, <2>1 DEF Heads
<1>3. HeadsAreApart' /\ LogFacts' /\ LogFacts
  BY LogFactsHold, NextFacts
<1>4. e < e2
  BY <1>2, <1>3 DEF HeadsAreApart
<1>5. LogIs(e2)'
  <2>1. ASSUME NEW o \in 0 .. e2 - 1
        PROVE  \E s \in Heads' : s <= o /\ o < EndOf(s)' /\ EndOf(s)' <= e2
    <3>1. CASE o < e
      <4>1. o \in 0 .. e - 1
        BY <1>0, <3>1
      <4>2. PICK s \in Heads : s <= o /\ o < EndOf(s) /\ EndOf(s) <= e
        BY <4>1 DEF LogIs, Whole
      <4>3. EndOf(s) \in Nat
        BY <1>0, HeadFacts
      <4> QED BY <1>0, <1>1, <1>2, <1>4, <4>2, <4>3
    <3>2. CASE ~(o < e)
      <4>1. e <= o /\ o < EndOf(e)' /\ EndOf(e)' <= e2
        BY <1>0, <3>2
      <4> QED BY <1>2, <4>1
    <3> QED BY <3>1, <3>2
  <2> QED BY <2>1 DEF LogIs, Whole
<1>6. Heads' = Heads \cup {e}
  <2>2. ASSUME NEW o \in Heads' PROVE o \in Heads \cup {e}
    <3>1. o < e2 /\ o \in Offsets /\ First(o)' /\ o \in Nat
      BY <1>3, <1>5, <2>2 DEF LogFacts, HeadsAreApart, Offsets
    <3>2. ~(e < o)
      <4>1. e < o => e2 <= o
        BY <1>2, <1>3, <3>1 DEF HeadsAreApart
      <4> QED BY <1>0, <3>1, <4>1
    <3>3. CASE o \in 0 .. e - 1
      <4>3. PICK s \in Heads : s <= o /\ o < EndOf(s)
        BY <3>3 DEF LogIs, Whole
      <4>4. s \in Heads' /\ s \in Nat /\ EndOf(s) = EndOf(s)' /\ EndOf(s) \in Nat
        BY <1>0, <1>1, <1>2, HeadFacts
      <4>5. s < o => EndOf(s) <= o
        BY <1>3, <3>1, <4>4 DEF HeadsAreApart
      <4>6. s = o
        BY <1>0, <3>1, <4>3, <4>4, <4>5
      <4> QED BY <4>6
    <3> QED BY <1>0, <3>1, <3>2, <3>3
  <2> QED BY <1>2, <2>2
<1>7. \A o \in Heads : RecordAt(o)' = RecordAt(o) /\ IsState(o)' = IsState(o) /\ o < e /\ o \in Nat
  BY <1>1, <1>3, HeadFacts DEF IsState, LogFacts
<1>8. StoredState' = IF r.type = "STATE" THEN r.state ELSE StoredState
  <2>0. CASE r.type = "STATE"
    <3>1. LatestState(e)' /\ e \in Heads'
      BY <1>0, <1>6, <1>7, <2>0 DEF LatestState, IsState
    <3> QED BY <1>3, <1>5, <2>0, <3>1 DEF LogFacts
  <2> SUFFICES ASSUME r.type # "STATE" PROVE StoredState' = StoredState
    BY <2>0
  <2>1. CASE \A p \in Heads : ~IsState(p)
    <3>1. \A p \in Heads' : ~IsState(p)'
      BY <1>6, <1>7, <2>1 DEF IsState
    <3> QED BY <1>3, <1>5, <2>1, <3>1 DEF LogFacts
  <2>2. ASSUME NEW o \in Heads, LatestState(o) PROVE StoredState' = StoredState
    <3>1. LatestState(o)' /\ o \in Heads'
      BY <1>6, <1>7, <2>2 DEF LatestState, IsState
    <3>2. StoredState = RecordAt(o).state /\ StoredState' = RecordAt(o)'.state
      BY <1>3, <1>5, <2>2, <3>1 DEF LogFacts
    <3> QED BY <1>7, <3>2
  <2> QED BY <2>1, <2>2, LatestExists
<1>9. ASSUME NEW id PROVE Item(id)' = IF IsItem(r, id) THEN r.value ELSE Item(id)
  <2>0. CASE IsItem(r, id)
    <3>1. LatestOf(e, id)' /\ e \in Heads'
      BY <1>0, <1>6, <1>7, <2>0 DEF LatestOf
    <3> QED BY <1>3, <1>5, <2>0, <3>1 DEF LogFacts
  <2> SUFFICES ASSUME ~IsItem(r, id) PROVE Item(id)' = Item(id)
    BY <2>0
  <2>1. CASE \A p \in Heads : ~IsItem(RecordAt(p), id)
    <3>1. \A p \in Heads' : ~IsItem(RecordAt(p)', id)
      BY <1>6, <1>7, <2>1
    <3>2. Item(id) = NoValue /\ Item(id)' = NoValue
      BY <1>3, <1>5, <2>1, <3>1 DEF LogFacts
    <3> QED BY <3>2
  <2>2. ASSUME NEW o \in Heads, LatestOf(o, id) PROVE Item(id)' = Item(id)
    <3>1. LatestOf(o, id)' /\ o \in Heads'
      BY <1>6, <1>7, <2>2 DEF LatestOf
    <3>2. Item(id) = RecordAt(o).value /\ Item(id)' = RecordAt(o)'.value
      BY <1>3, <1>5, <2>2, <3>1 DEF LogFacts
    <3> QED BY <1>7, <3>2
  <2> QED BY <2>1, <2>2, LatestExists
<1> QED BY <1>5, <1>6, <1>7, <1>8, <1>9

-----------------------------------------------------------------------------
(***************************************************************************)
(* A copy of whole records is a log, up to the one that is not complete    *)
(* (compact, when it is interrupted between two words).                    *)
(***************************************************************************)

\* The record r is in the sequence of words s behind its first b words.
RecordIn(s, b, r) ==
    b + Size(r) <= Len(s) /\ \A k \in 1 .. Size(r) : s[b + k] = <<r, k>>
WholeRecords(s) ==
    \A i \in 1 .. Len(s) : \E r \in Records, b \in 0 .. i - 1 :
        RecordIn(s, b, r) /\ i <= b + Size(r)

\* The flash has the first n words of s, and nothing behind them.
CopiedTo(s, n) ==
    \A o \in Offsets : IF o < n THEN flash[o] = s[o + 1] ELSE flash[o] \in {Blank, Garbage}
\* The first e words of those are whole records, the others are not.
EndsIn(s, n, e) ==
    \/ e = n /\ n = Len(s)
    \/ e <= n /\ \E r \in Records : RecordIn(s, e, r) /\ n < e + Size(r)

CopyIsLog == \A s \in Seq(Cells), n, e \in 0 .. StoreWords :
    Len(s) <= StoreWords /\ n <= Len(s) /\ WholeRecords(s) /\ CopiedTo(s, n)
        /\ EndsIn(s, n, e) => LogIs(e)

\* What can be read begins a record.
LEMMA ReadableFirst == ASSUME TypeOK, NEW o \in 0 .. StoreWords, Readable(o)
                       PROVE  o \in Offsets /\ First(o)
<1>1. o \in Offsets
  BY SizesAssumption DEF Readable, Offsets
<1> QED BY <1>1, HeadFacts DEF Heads

\* The records of a copy can be read, up to the first one that is not whole.
LEMMA CopyLogHolds == TypeOK => CopyIsLog
<1> SUFFICES ASSUME TypeOK, NEW s \in Seq(Cells), NEW n \in 0 .. StoreWords,
                    NEW e \in 0 .. StoreWords,
                    Len(s) <= StoreWords, n <= Len(s), WholeRecords(s),
                    CopiedTo(s, n), EndsIn(s, n, e)
             PROVE  LogIs(e)
  BY DEF CopyIsLog
<1>0. /\ StoreWords \in Nat /\ e \in Nat /\ n \in Nat /\ Len(s) \in Nat /\ e <= n
  BY SizesAssumption DEF EndsIn
<1>s. \A r \in Records : Size(r) \in Nat /\ Size(r) > 1
  BY SizeType
<1>1. Whole(e)
  <2> SUFFICES ASSUME NEW o \in 0 .. e - 1
               PROVE  \E h \in Heads : h <= o /\ o < EndOf(h) /\ EndOf(h) <= e
    BY DEF Whole
  <2>1. o \in Nat /\ o + 1 \in 1 .. Len(s)
    BY <1>0
  <2>2. PICK r \in Records, b \in 0 .. (o + 1) - 1 :
             RecordIn(s, b, r) /\ o + 1 <= b + Size(r)
    BY <2>1 DEF WholeRecords
  <2>3. b \in Nat /\ b <= o /\ o < b + Size(r) /\ Size(r) \in Nat /\ Size(r) > 1
    BY <1>s, <2>1, <2>2
  <2>4. b + Size(r) <= e
    <3>1. CASE e = n /\ n = Len(s)
      BY <2>2, <3>1 DEF RecordIn
    <3>2. CASE \E q \in Records : RecordIn(s, e, q)
      <4>1. PICK q \in Records : RecordIn(s, e, q)
        BY <3>2
      <4>2. SUFFICES ASSUME e < b + Size(r) PROVE FALSE
        BY <1>0, <2>3
      <4>3. e - b + 1 \in 1 .. Size(r) /\ b + (e - b + 1) = e + 1 /\ 1 \in 1 .. Size(q)
            /\ e - b + 1 # 1
        BY <1>0, <1>s, <2>1, <2>3, <4>2
      <4>4. s[e + 1] = <<r, e - b + 1>> /\ s[e + 1] = <<q, 1>>
        BY <2>2, <4>1, <4>3 DEF RecordIn
      <4> QED BY <4>3, <4>4
    <3> QED BY <3>1, <3>2 DEF EndsIn
  <2>5. \A k \in 1 .. Size(r) : b + k - 1 \in Offsets /\ flash[b + k - 1] = <<r, k>>
    <3>1. ASSUME NEW k \in 1 .. Size(r)
          PROVE  b + k - 1 \in Offsets /\ flash[b + k - 1] = <<r, k>>
      <4>1. b + k - 1 \in Offsets /\ b + k - 1 < n /\ b + k - 1 + 1 = b + k
        BY <1>0, <2>3, <2>4 DEF Offsets
      <4>2. s[b + k] = <<r, k>>
        BY <2>2 DEF RecordIn
      <4> QED BY <4>1, <4>2 DEF CopiedTo
    <3> QED BY <3>1
  <2>6. b \in Offsets /\ flash[b] = <<r, 1>>
    <3>1. 1 \in 1 .. Size(r) /\ b + 1 - 1 = b
      BY <2>3
    <3> QED BY <2>5, <3>1
  <2>7. RecordAt(b) = r /\ EndOf(b) = b + Size(r)
    BY <2>6 DEF RecordAt, EndOf
  <2>8. flash[b] \notin {Blank, Garbage}
    <3>1. 1 \in 1 .. StoreWords
      BY <1>0, <2>6 DEF Offsets
    <3> QED BY <2>6, <3>1, WordIsNeither
  <2>9. b + Size(r) <= StoreWords /\ b + HeaderWords <= StoreWords
    BY <1>0, <2>3, <2>4
  <2>10. b \in Heads
    BY <2>5, <2>6, <2>7, <2>8, <2>9 DEF Heads, Readable, RecordAt
  <2> QED BY <2>3, <2>4, <2>7, <2>10
<1>2. ~Readable(e)
  <2> SUFFICES ASSUME Readable(e) PROVE FALSE
    OBVIOUS
  <2>1. e \in Offsets /\ flash[e] \notin {Blank, Garbage}
    BY ReadableFirst DEF First
  <2>2. e < n
    BY <1>0, <2>1 DEF CopiedTo
  <2>3. PICK r \in Records : RecordIn(s, e, r) /\ n < e + Size(r)
    BY <1>0, <2>2 DEF EndsIn
  <2>4. flash[e] = <<r, 1>>
    <3>1. 1 \in 1 .. Size(r)
      BY <1>s
    <3>2. s[e + 1] = <<r, 1>>
      BY <2>3, <3>1 DEF RecordIn
    <3> QED BY <2>1, <2>2, <3>2 DEF CopiedTo
  <2>5. n - e + 1 \in 1 .. Size(r) /\ e + (n - e + 1) - 1 = n
    BY <1>0, <1>s, <2>2, <2>3
  <2>6. flash[n] = <<r, n - e + 1>> /\ e + Size(r) <= StoreWords
    BY <2>4, <2>5 DEF Readable
  <2>7. n \in Offsets /\ n - e + 1 \in 1 .. StoreWords
    BY <1>0, <1>s, <2>2, <2>3, <2>6 DEF Offsets
  <2>8. flash[n] \in {Blank, Garbage}
    BY <1>0, <2>7 DEF CopiedTo
  <2> QED BY <2>6, <2>7, <2>8, WordIsNeither
<1>3. ASSUME NEW o \in Offsets, First(o) PROVE o <= e
  <2>1. SUFFICES ASSUME e < o PROVE FALSE
    BY <1>0 DEF Offsets
  <2>2. o < n /\ o \in Nat
    BY <1>3, <1>0 DEF CopiedTo, First, Offsets
  <2>3. PICK r \in Records : RecordIn(s, e, r) /\ n < e + Size(r)
    BY <1>0, <2>1, <2>2 DEF EndsIn
  <2>4. o - e + 1 \in 1 .. Size(r) /\ e + (o - e + 1) = o + 1
    BY <1>0, <1>s, <2>1, <2>2, <2>3
  <2>5. flash[o] = <<r, o - e + 1>>
    BY <2>2, <2>3, <2>4 DEF RecordIn, CopiedTo
  <2> QED BY <1>0, <1>3, <2>1, <2>2, <2>5 DEF First
<1> QED BY <1>1, <1>2, <1>3 DEF LogIs

\* An erased store has an empty log.
EmptyLog == (\A o \in Offsets : flash[o] \in {Blank, Garbage}) => LogIs(0)

\* Nothing can be read there.
LEMMA EmptyLogHolds == TypeOK => EmptyLog
<1> SUFFICES ASSUME TypeOK, \A o \in Offsets : flash[o] \in {Blank, Garbage}
             PROVE  LogIs(0)
  BY DEF EmptyLog
<1>1. ~Readable(0)
  BY SizesAssumption, ReadableFirst DEF First
<1> QED BY <1>1 DEF LogIs, Whole, First

\* The same in the next state.
LEMMA NextLog == TypeOK' => EmptyLog' /\ CopyIsLog'
<1>1. TypeOK => EmptyLog /\ CopyIsLog
  BY EmptyLogHolds, CopyLogHolds
<1>2. (TypeOK => EmptyLog /\ CopyIsLog)'
  BY <1>1, PTL
<1> QED BY <1>2

\* A log that nothing is written to stays.
LEMMA FlashKept ==
  ASSUME TypeOK, TypeOK', flash' = flash, NEW e \in 0 .. StoreWords, LogIs(e)
  PROVE  /\ LogIs(e)'
         /\ Heads' = Heads /\ \A o \in Heads : RecordAt(o)' = RecordAt(o)
         /\ StoredState' = StoredState /\ \A id : Item(id)' = Item(id)
<1>1. Readable(e)' = FALSE
  BY DEF LogIs, Readable
<1>2. \A o \in Offsets : First(o)' => o <= e
  BY DEF LogIs, First
<1>3. \A o \in 0 .. e - 1 : flash'[o] = flash[o]
  OBVIOUS
<1> QED BY <1>1, <1>2, <1>3, LogKept

-----------------------------------------------------------------------------
(***************************************************************************)
(* The invariant: what each place of a call knows of the log.              *)
(***************************************************************************)

\* The store is one sector of a flash that does not fail.
OneSector == SectorWords = StoreWords /\ ~FlashErrors

\* load_state has read the state from the records before off.
StateIsRead ==
    \/ state = BlankState /\ \A o \in Heads : o < off => ~IsState(o)
    \/ \E o \in Heads : /\ o < off /\ IsState(o) /\ state = RecordAt(o).state
                        /\ \A p \in Heads : p < off /\ IsState(p) => p <= o

\* The scratch memory has the state and items, everything whole and once.
ScratchIsWhole ==
    /\ WholeRecords(scratch)
    /\ \A i, j \in 1 .. Len(scratch) : scratch[i] = scratch[j] => i = j
    /\ RecordIn(scratch, 0, StateRecord(state))
    /\ \A r \in InScratch :
         /\ r \in Records
         /\ r.type = "STATE" => r = StateRecord(state)
         /\ r.type = "ITEM" => r.value # NoValue
    /\ \A r, q \in InScratch : r.type = "ITEM" /\ IsItem(q, r.id) => r = q

\* Its items are the latest ones of the log that begin before the offset n.
ItemsAreCopied(n) ==
    \A r \in Records : r.type = "ITEM" =>
        (r \in InScratch <=>
            r.value # NoValue /\ \E o \in Heads : o < n /\ RecordAt(o) = r /\ LatestOf(o, r.id))

\* After a compaction the log has the state and the items, and nothing else.
Packed ==
    /\ \A o \in Offsets : storeEnd <= o => flash[o] = Blank
    /\ \A o, p \in 0 .. storeEnd - 1 : flash[o] = flash[p] => o = p
    /\ \A o \in 0 .. storeEnd - 1 : flash[o][1] \in LiveRecords
    /\ StoredState = state

\* While a record is written, its place has the words that are programmed so
\* far: those of the payload, then those of the header.
HasWord(o) ==
    IF after = "payload" THEN storeEnd + HeaderWords <= o /\ o < at
                         ELSE o < at \/ storeEnd + HeaderWords <= o
WritingFrom == IF after = "payload" THEN storeEnd + HeaderWords ELSE storeEnd
WritingTo ==
    IF after = "payload" THEN storeEnd + Size(rec) ELSE storeEnd + HeaderWords
HeaderIsWritten == after = "header" /\ at = storeEnd + HeaderWords

IdleOK == pc = "idle" => LogIs(storeEnd) /\ OkMeansStored /\ NoSpaceMeansFull
LoadOK == pc = "load" =>
    \E e \in 0 .. StoreWords : LogIs(e) /\ off \in Heads \cup {e} /\ StateIsRead
AppendOK == pc = "append" => LogIs(storeEnd) /\ (attempt = 1 => Packed)
ScanOK == pc = "scan" =>
    /\ LogIs(storeEnd) /\ off \in Heads \cup {storeEnd}
    /\ ScratchIsWhole /\ ItemsAreCopied(off)
EraseOK == pc = "erase" =>
    /\ ScratchIsWhole
    /\ IF sector = 0 THEN LogIs(storeEnd) /\ ItemsAreCopied(storeEnd)
                     ELSE \A o \in Offsets : flash[o] = Blank
WriteOK == after \in {"payload", "header"} =>
    /\ LogIs(IF HeaderIsWritten THEN storeEnd + Size(rec) ELSE storeEnd)
    /\ WritingFrom <= at /\ at + Len(todo) = WritingTo
    /\ \A i \in 1 .. Len(todo) : todo[i] = <<rec, at - storeEnd + i>>
    /\ \A o \in storeEnd .. storeEnd + Size(rec) - 1 :
         flash[o] = IF HasWord(o) THEN <<rec, o - storeEnd + 1>> ELSE Blank
CompactOK == after = "compacted" =>
    /\ ScratchIsWhole
    /\ at + Len(todo) = Len(scratch)
    /\ \A i \in 1 .. Len(todo) : todo[i] = scratch[at + i]
    /\ \A o \in Offsets : flash[o] = IF o < at THEN scratch[o + 1] ELSE Blank
CallOK ==
    /\ pc # "idle" => result = "none"
    /\ pc \notin {"idle", "load"} /\ rec.type = "STATE" => rec.state = state
    /\ pc = "program" => after # "none"
    /\ pc \in {"idle", "load"} => attempt = 0

LogInv ==
    /\ IdleOK /\ LoadOK /\ AppendOK /\ ScanOK /\ EraseOK /\ WriteOK /\ CompactOK
    /\ CallOK

\* A store of one sector is erased at once.
LEMMA OneSectorFacts == ASSUME OneSector
                        PROVE  Sectors = 1 /\ SectorOf(0) = Offsets
<1>1. SectorWords \in Nat \ {0} /\ SectorWords = StoreWords
  BY SizesAssumption DEF OneSector
<1>2. Sectors = 1
  BY <1>1 DEF Sectors
<1>3. SectorOf(0) = 0 .. StoreWords - 1
  BY <1>1 DEF SectorOf
<1> QED BY <1>2, <1>3 DEF Offsets

\* A record is a state record or one of an item.
LEMMA RecordIs == ASSUME NEW r \in Records
                  PROVE  \/ /\ r.type = "STATE" /\ r.state \in States
                            /\ r = StateRecord(r.state)
                         \/ /\ r.type = "ITEM" /\ r.id \in Ids
                            /\ r.value \in Values \cup {NoValue}
                            /\ r = ItemRecord(r.id, r.value)
  BY DEF Records, StateRecord, ItemRecord

\* The invariant holds after the installation.
LEMMA LogInit == Init => LogInv
<1> SUFFICES ASSUME Init PROVE LogInv
  OBVIOUS
<1>1. TypeOK
  BY InitInv DEF StoreInv
<1>2. EmptyLog
  BY <1>1, EmptyLogHolds
<1>3. LogIs(0)
  BY <1>2 DEF EmptyLog, Init
<1>4. Heads = {}
  <2>1. \A o \in Offsets : ~First(o)
    BY DEF Init, First
  <2>2. \A o \in Heads : First(o) /\ o \in Offsets
    BY <1>1, HeadFacts
  <2> QED BY <2>1, <2>2
<1>5. LoadOK
  <2>1. off = 0 /\ state = BlankState
    BY DEF Init
  <2>2. 0 \in 0 .. StoreWords
    BY SizesAssumption
  <2> QED BY <1>3, <1>4, <2>1, <2>2 DEF LoadOK, StateIsRead
<1> QED BY <1>5 DEF Init, LogInv, IdleOK, AppendOK, ScanOK, EraseOK, WriteOK,
           CompactOK, CallOK

\* The steps of load_state.
LEMMA LoadSteps ==
  ASSUME StoreInv, StoreInv', LogInv, LoadRecord \/ LoadEnd
  PROVE  LogInv'
<1>t. TypeOK /\ TypeOK' /\ NothingIsLeftOver'
  BY DEF StoreInv
<1>0. pc = "load" /\ flash' = flash /\ result = "none" /\ result' = result /\ after' = after
      /\ attempt' = attempt /\ attempt = 0
  BY DEF LoadRecord, LoadEnd, LogInv, CallOK, programming
<1>1. PICK e \in 0 .. StoreWords : LogIs(e) /\ off \in Heads \cup {e} /\ StateIsRead
  BY <1>0 DEF LogInv, LoadOK
<1>2. /\ LogIs(e)' /\ Heads' = Heads /\ \A o \in Heads : RecordAt(o)' = RecordAt(o)
      /\ \A o \in Heads : IsState(o)' = IsState(o)
  BY <1>t, <1>0, <1>1, FlashKept DEF IsState
<1>a. after = "none"
  BY <1>0 DEF StoreInv, NothingIsLeftOver
<1>3. CASE LoadRecord
  <2>1. off \in Heads /\ pc' = "load"
    <3>1. off # e
      BY <1>1, <1>3 DEF LoadRecord, LogIs
    <3> QED BY <1>1, <1>3, <3>1 DEF LoadRecord
  <2>2. PICK n \in Heads : n = off
    BY <2>1
  <2>3. /\ n \in Nat /\ EndOf(n) \in Nat /\ n < EndOf(n) /\ EndOf(n) \in Heads \cup {e}
        /\ \A p \in Heads : p \in Nat /\ (p < EndOf(n) => p <= n)
    <3>1. EndOf(n) \in Heads \cup {e}
      BY <1>t, <1>1, NextHead
    <3>2. ASSUME NEW p \in Heads, p < EndOf(n) PROVE p <= n
      <4>1. p \in Nat /\ p \in Offsets /\ First(p) /\ n \in Nat /\ EndOf(n) \in Nat
        BY <1>t, HeadFacts, SizesAssumption
      <4>2. n < p => EndOf(n) <= p
        BY <1>t, <4>1, HeadsApart
      <4> QED BY <3>2, <4>1, <4>2
    <3> QED BY <1>t, <3>1, <3>2, HeadFacts, SizesAssumption
  <2>4. off' = EndOf(n) /\ state' = IF IsState(n) THEN RecordAt(n).state ELSE state
    BY <1>3, <2>2 DEF LoadRecord, EndOf, IsState
  <2>5. StateIsRead'
    <3>1. CASE IsState(n)
      BY <1>2, <2>3, <2>4, <3>1 DEF StateIsRead
    <3>2. CASE ~IsState(n)
      <4>1. \A p \in Heads : p < EndOf(n) /\ IsState(p) => p < n
        BY <2>3, <3>2
      <4>2. CASE state = BlankState /\ \A o \in Heads : o < off => ~IsState(o)
        BY <1>2, <2>2, <2>4, <3>2, <4>1, <4>2 DEF StateIsRead
      <4>3. ASSUME NEW o \in Heads, o < off, IsState(o), state = RecordAt(o).state,
                   \A p \in Heads : p < off /\ IsState(p) => p <= o
            PROVE  StateIsRead'
        <5>1. o < EndOf(n)
          BY <2>2, <2>3, <4>3
        <5>2. \A p \in Heads : p < EndOf(n) /\ IsState(p) => p <= o
          BY <2>2, <4>1, <4>3
        <5>3. state' = RecordAt(o).state
          BY <2>4, <3>2, <4>3
        <5> QED BY <1>2, <2>4, <4>3, <5>1, <5>2, <5>3 DEF StateIsRead
      <4> QED BY <1>1, <4>2, <4>3 DEF StateIsRead
    <3> QED BY <3>1, <3>2
  <2>6. LoadOK'
    BY <1>2, <2>3, <2>4, <2>5 DEF LoadOK
  <2> QED BY <1>0, <1>a, <2>1, <2>6 DEF LogInv, IdleOK, AppendOK, ScanOK, EraseOK,
             WriteOK, CompactOK, CallOK
<1>4. CASE LoadEnd
  <2>1. pc' = "idle" /\ storeEnd' = off
    BY <1>4 DEF LoadEnd
  <2>2. off = e
    BY <1>1, <1>4 DEF LoadEnd, Heads
  <2>3. LogIs(storeEnd)'
    BY <1>2, <2>1, <2>2
  <2> QED BY <1>0, <1>a, <2>1, <2>3 DEF LogInv, IdleOK, LoadOK, AppendOK, ScanOK,
             EraseOK, WriteOK, CompactOK, CallOK, OkMeansStored, NoSpaceMeansFull
<1> QED BY <1>3, <1>4

\* The calls begin.
LEMMA CallSteps ==
  ASSUME StoreInv, StoreInv', LogInv, Call
  PROVE  LogInv'
<1>t. TypeOK /\ TypeOK' /\ NothingIsLeftOver'
  BY DEF StoreInv
<1>0. pc = "idle" /\ flash' = flash /\ storeEnd' = storeEnd
  BY DEF Call, SaveState, WriteItem, ram
<1>1. PICK e \in 0 .. StoreWords : e = storeEnd
  BY <1>t DEF TypeOK
<1>2. LogIs(e)
  BY <1>0, <1>1 DEF LogInv, IdleOK
<1>3. LogIs(e)' /\ StoredState' = StoredState /\ \A id : Item(id)' = Item(id)
  BY <1>t, <1>0, <1>2, FlashKept
<1>4. LogIs(storeEnd)'
  BY <1>0, <1>1, <1>3
<1>5. attempt = 0
  BY <1>0 DEF LogInv, CallOK
<1>6. ASSUME NEW r, AppendRecord(r), r.type = "STATE" => r.state = state'
      PROVE  LogInv'
  <2>1. pc' = "append" /\ rec' = r /\ result' = "none" /\ attempt' = 0
    BY <1>5, <1>6 DEF AppendRecord
  <2>2. after' = "none"
    BY <1>t, <2>1 DEF NothingIsLeftOver
  <2> QED BY <1>4, <1>6, <2>1, <2>2 DEF LogInv, IdleOK, LoadOK, AppendOK, ScanOK,
             EraseOK, WriteOK, CompactOK, CallOK
<1>7. ASSUME NEW st \in States, SaveState(st) PROVE LogInv'
  <2>1. StateRecord(st).type = "STATE" => StateRecord(st).state = state'
    BY <1>7 DEF SaveState, StateRecord
  <2> QED BY <1>6, <1>7, <2>1 DEF SaveState
<1>8. ASSUME NEW id \in Ids, NEW v \in Values \cup {NoValue}, WriteItem(id, v)
      PROVE  LogInv'
  <2>1. CASE AppendRecord(ItemRecord(id, v))
    BY <1>6, <2>1 DEF ItemRecord
  <2>2. CASE Item(id) = v /\ rec' = ItemRecord(id, v) /\ Return("OK")
    <3>1. pc' = "idle" /\ result' = "OK" /\ after' = "none" /\ attempt' = 0
      BY <2>2 DEF Return, Forget
    <3>2. Item(id)' = v /\ rec'.type = "ITEM" /\ rec'.id = id /\ rec'.value = v
      BY <1>3, <2>2 DEF ItemRecord
    <3>3. OkMeansStored'
      BY <3>2 DEF OkMeansStored
    <3> QED BY <1>4, <3>1, <3>3 DEF LogInv, IdleOK, LoadOK, AppendOK, ScanOK,
               EraseOK, WriteOK, CompactOK, CallOK, NoSpaceMeansFull
  <2> QED BY <1>8, <2>1, <2>2 DEF WriteItem
<1> QED BY <1>7, <1>8 DEF Call

\* What the store has to keep is finite: it is in the flash, but for the state.
LEMMA LiveWordsFinite ==
  ASSUME TypeOK, NEW e \in 0 .. StoreWords, LogIs(e)
  PROVE  IsFiniteSet(LiveWords)
<1> DEFINE Here == {flash[o] : o \in Offsets}
           Mine == {<<StateRecord(state), i>> : i \in 1 .. StateSize}
<1>0. StoreWords \in Nat /\ state \in States
  BY SizesAssumption DEF TypeOK
<1>1. StateSize \in Nat /\ Size(StateRecord(state)) = StateSize
  BY <1>0, StateRecordType
<1>2. IsFiniteSet(Here)
  <2>1. IsFiniteSet(Offsets)
    BY <1>0, FS_Interval DEF Offsets
  <2>2. flash \in Surjection(Offsets, Here)
    BY DEF Surjection, TypeOK
  <2> HIDE DEF Here
  <2> QED BY <2>1, <2>2, FS_Surjection
<1>3. IsFiniteSet(Mine)
  <2>1. IsFiniteSet(1 .. StateSize)
    BY <1>1, FS_Interval
  <2>2. [i \in 1 .. StateSize |-> <<StateRecord(state), i>>]
          \in Surjection(1 .. StateSize, Mine)
    BY DEF Surjection
  <2> HIDE DEF Mine
  <2> QED BY <2>1, <2>2, FS_Surjection
<1>4. LiveWords \in SUBSET (Here \cup Mine)
  <2>1. ASSUME NEW r \in LiveRecords, NEW i \in 1 .. Size(r)
        PROVE  <<r, i>> \in Here \cup Mine
    <3>1. CASE r = StateRecord(state)
      BY <1>1, <2>1, <3>1
    <3>2. ASSUME NEW id \in Ids, Item(id) # NoValue, r = ItemRecord(id, Item(id))
          PROVE  <<r, i>> \in Here
      <4>1. PICK o \in Heads : LatestOf(o, id)
        BY <3>2, LogFactsHold, LatestExists DEF LogFacts
      <4>2. RecordAt(o).value = Item(id) /\ RecordAt(o).type = "ITEM" /\ RecordAt(o).id = id
        BY <4>1, LogFactsHold DEF LogFacts, LatestOf, IsItem
      <4>3. RecordAt(o) = r
        BY <3>2, <4>2, HeadFacts, RecordIs DEF StateRecord
      <4>4. o \in Nat /\ Size(r) \in Nat
        BY <4>3, HeadFacts
      <4>5. o + i - 1 \in o .. EndOf(o) - 1 /\ o + i - 1 - o + 1 = i
        BY <2>1, <4>3, <4>4 DEF EndOf
      <4>6. o + i - 1 \in Offsets /\ flash[o + i - 1] = <<r, i>>
        BY <4>3, <4>5, HeadFacts
      <4> QED BY <4>6
    <3> QED BY <2>1, <3>1, <3>2 DEF LiveRecords
  <2> HIDE DEF Here, Mine
  <2> QED BY <2>1 DEF LiveWords
<1> HIDE DEF Here, Mine
<1> QED BY <1>2, <1>3, <1>4, FS_Union, FS_Subset

\* After a compaction the log is as long as what the store has to keep.
LEMMA PackedSize ==
  ASSUME TypeOK, LogIs(storeEnd), Packed
  PROVE  Cardinality(LiveWords) = storeEnd
<1> DEFINE f == [i \in 1 .. storeEnd |-> flash[i - 1]]
<1>0. StoreWords \in Nat /\ storeEnd \in 0 .. StoreWords /\ storeEnd \in Nat
      /\ state \in States
  BY SizesAssumption DEF TypeOK
<1>1. \A i \in 1 .. storeEnd : i - 1 \in 0 .. storeEnd - 1
  BY <1>0
<1>2. ASSUME NEW i \in 1 .. storeEnd PROVE f[i] \in LiveWords
  <2> DEFINE o == i - 1
  <2>1. PICK s \in Heads : s <= o /\ o < EndOf(s)
    BY <1>1, <1>2 DEF LogIs, Whole
  <2>2. s \in Nat /\ EndOf(s) \in Nat /\ Size(RecordAt(s)) \in Nat
    BY <1>0, HeadFacts
  <2>3. o \in s .. EndOf(s) - 1 /\ o - s + 1 \in 1 .. Size(RecordAt(s))
    BY <1>0, <1>2, <2>1, <2>2 DEF EndOf
  <2>4. flash[o] = <<RecordAt(s), o - s + 1>>
    BY <2>3, HeadFacts
  <2>5. RecordAt(s) \in LiveRecords
    <3>1. flash[o][1] \in LiveRecords
      BY <1>1, <1>2 DEF Packed
    <3> QED BY <2>4, <3>1
  <2>6. <<RecordAt(s), o - s + 1>> \in LiveWords
    <3> HIDE DEF o
    <3> QED BY <2>3, <2>5 DEF LiveWords
  <2>7. f[i] = flash[o]
    BY <1>2
  <2> QED BY <2>4, <2>6, <2>7
<1>3. \A i, j \in 1 .. storeEnd : f[i] = f[j] => i = j
  <2> SUFFICES ASSUME NEW i \in 1 .. storeEnd, NEW j \in 1 .. storeEnd,
                      flash[i - 1] = flash[j - 1]
               PROVE  i = j
    OBVIOUS
  <2>1. i - 1 = j - 1
    BY <1>1 DEF Packed
  <2> QED BY <2>1
<1>4. ASSUME NEW r \in LiveRecords, NEW k \in 1 .. Size(r)
      PROVE  \E i \in 1 .. storeEnd : f[i] = <<r, k>>
  <2>1. \E o \in Heads : RecordAt(o) = r
    <3>1. CASE r = StateRecord(state)
      <4>1. StoredState = state /\ state # NoState
        BY <1>0, StatesAssumption DEF Packed
      <4>2. PICK o \in Heads : LatestState(o)
        BY <1>0, <4>1, LogFactsHold, LatestExists DEF LogFacts
      <4>3. RecordAt(o).state = state /\ RecordAt(o).type = "STATE"
        BY <1>0, <4>1, <4>2, LogFactsHold DEF LogFacts, LatestState, IsState
      <4> QED BY <3>1, <4>3, HeadFacts, RecordIs
    <3>2. ASSUME NEW id \in Ids, Item(id) # NoValue, r = ItemRecord(id, Item(id))
          PROVE  \E o \in Heads : RecordAt(o) = r
      <4>1. PICK o \in Heads : LatestOf(o, id)
        BY <1>0, <3>2, LogFactsHold, LatestExists DEF LogFacts
      <4>2. RecordAt(o).value = Item(id) /\ RecordAt(o).type = "ITEM" /\ RecordAt(o).id = id
        BY <1>0, <4>1, LogFactsHold DEF LogFacts, LatestOf, IsItem
      <4> QED BY <3>2, <4>2, HeadFacts, RecordIs
    <3> QED BY <1>4, <3>1, <3>2 DEF LiveRecords
  <2>2. PICK o \in Heads : RecordAt(o) = r
    BY <2>1
  <2>3. o \in Nat /\ Size(r) \in Nat /\ EndOf(o) <= storeEnd
    BY <1>0, <2>2, HeadFacts, NextHead
  <2>4. o + k - 1 \in o .. EndOf(o) - 1 /\ o + k - 1 - o + 1 = k
        /\ o + k \in 1 .. storeEnd /\ o + k - 1 = (o + k) - 1
    BY <1>0, <1>4, <2>2, <2>3 DEF EndOf
  <2>5. flash[o + k - 1] = <<r, k>>
    BY <2>2, <2>4, HeadFacts
  <2> QED BY <2>4, <2>5
<1>5. f \in Bijection(1 .. storeEnd, LiveWords)
  <2>1. f \in [1 .. storeEnd -> LiveWords]
    BY <1>2
  <2>2. \A w \in LiveWords : \E i \in 1 .. storeEnd : f[i] = w
    <3> HIDE DEF f
    <3> QED BY <1>4 DEF LiveWords
  <2> HIDE DEF f
  <2> QED BY <1>3, <2>1, <2>2 DEF Bijection, Injection, Surjection, IsInjective
<1> QED BY <1>0, <1>5, FS_CountingElements DEF ExistsBijection

\* The words of a record, one by one.
LEMMA WordsAre == ASSUME NEW r \in Records
                  PROVE  /\ Len(Words(r)) = Size(r)
                         /\ \A k \in 1 .. Size(r) : Words(r)[k] = <<r, k>>
                         /\ Size(r) <= StoreWords =>
                              /\ \A k \in 1 .. HeaderWords : Header(r)[k] = <<r, k>>
                              /\ \A k \in 1 .. Size(r) - HeaderWords :
                                    Payload(r)[k] = <<r, HeaderWords + k>>
<1>1. Size(r) \in Nat /\ Size(r) > 1
  BY SizeType
<1>2. DOMAIN Words(r) = 1 .. Size(r) /\ \A k \in 1 .. Size(r) : Words(r)[k] = <<r, k>>
  BY DEF Words
<1>3. Words(r) \in Seq({<<r, k>> : k \in 1 .. Size(r)}) /\ Len(Words(r)) = Size(r)
  BY <1>1 DEF Words
<1>4. \A k \in 1 .. HeaderWords : Header(r)[k] = Words(r)[k]
  BY <1>1, <1>3 DEF Header
<1>5. \A k \in 1 .. Size(r) - HeaderWords : Payload(r)[k] = Words(r)[HeaderWords + k]
  BY <1>1, <1>3 DEF Payload
<1> QED BY <1>1, <1>2, <1>3, <1>4, <1>5

\* append writes the record where it fits.
LEMMA StartWriteStep ==
  ASSUME StoreInv, StoreInv', LogInv, StartWrite
  PROVE  LogInv'
<1>t. TypeOK /\ TypeOK' /\ NothingIsLeftOver'
  BY DEF StoreInv
<1>0. /\ pc = "append" /\ flash' = flash /\ storeEnd' = storeEnd /\ rec' = rec
      /\ Fits /\ Size(rec) <= StoreWords /\ state' = state /\ result' = result
      /\ Program(storeEnd + HeaderWords, Payload(rec), "payload")
  BY DEF StartWrite, ram
<1>1. PICK e \in 0 .. StoreWords : e = storeEnd
  BY <1>t DEF TypeOK
<1>2. LogIs(e)
  BY <1>0, <1>1 DEF LogInv, AppendOK
<1>3. LogIs(storeEnd)'
  <2>1. LogIs(e)'
    BY <1>t, <1>0, <1>2, FlashKept
  <2> QED BY <1>0, <1>1, <2>1
<1>4. /\ rec \in Records /\ Size(rec) \in Nat /\ Size(rec) > 1 /\ storeEnd \in Nat
  BY <1>t, <1>1, SizeType, SizesAssumption DEF TypeOK
<1>5. Len(Payload(rec)) = Size(rec) - HeaderWords
  BY <1>0, <1>4, PartsType
<1>6. /\ pc' = "program" /\ after' = "payload" /\ at' = storeEnd + HeaderWords
      /\ todo' = Payload(rec)
  BY <1>0 DEF Program
<1>7. WriteOK'
  <2>1. \A i \in 1 .. Len(todo') : todo'[i] = <<rec, at' - storeEnd + i>>
    <3>1. ASSUME NEW i \in 1 .. Len(todo') PROVE todo'[i] = <<rec, HeaderWords + i>>
      BY <1>0, <1>4, <1>5, <1>6, WordsAre
    <3>2. \A i \in 1 .. Len(todo') : at' - storeEnd + i = HeaderWords + i
      BY <1>4, <1>6
    <3> QED BY <3>1, <3>2
  <2>2. ASSUME NEW o \in storeEnd .. storeEnd + Size(rec) - 1
        PROVE  flash[o] = Blank /\ HasWord(o)' = FALSE
    BY <1>0, <1>4, <1>6 DEF Fits, HasWord
  <2>3. WritingFrom' = at' /\ at' + Len(todo') = WritingTo'
    BY <1>0, <1>4, <1>5, <1>6 DEF WritingFrom, WritingTo
  <2>4. WritingFrom' <= at'
    BY <1>4, <1>6, <2>3
  <2> QED BY <1>0, <1>3, <1>6, <2>1, <2>2, <2>3, <2>4 DEF WriteOK, HeaderIsWritten
<1>8. result' = "none" /\ (rec'.type = "STATE" => rec'.state = state')
  BY <1>0 DEF LogInv, CallOK
<1> QED BY <1>6, <1>7, <1>8 DEF LogInv, IdleOK, LoadOK, AppendOK, ScanOK, EraseOK,
           CompactOK, CallOK

\* A compaction begins with the state.
LEMMA StartCompactionStep ==
  ASSUME StoreInv, StoreInv', LogInv, StartCompaction
  PROVE  LogInv'
<1>t. TypeOK /\ TypeOK' /\ NothingIsLeftOver'
  BY DEF StoreInv
<1>0. /\ pc = "append" /\ flash' = flash /\ storeEnd' = storeEnd /\ rec' = rec
      /\ state' = state /\ result' = result /\ pc' = "scan" /\ off' = 0
      /\ scratch' = Words(StateRecord(state))
  BY DEF StartCompaction, ram
<1>1. PICK e \in 0 .. StoreWords : e = storeEnd
  BY <1>t DEF TypeOK
<1>2. LogIs(e)
  BY <1>0, <1>1 DEF LogInv, AppendOK
<1>3. LogIs(e)' /\ Heads' = Heads /\ \A o \in Heads : RecordAt(o)' = RecordAt(o)
  BY <1>t, <1>0, <1>2, FlashKept
<1>4. LogIs(storeEnd)'
  BY <1>0, <1>1, <1>3
<1>5. off' \in Heads' \cup {storeEnd'}
  BY <1>t, <1>0, <1>1, <1>2, <1>3, NextHead
<1> DEFINE r == StateRecord(state)
<1>6. r \in Records /\ r.type = "STATE" /\ Size(r) \in Nat /\ Size(r) > 1
  BY <1>t, StateRecordType, SizeType DEF TypeOK, StateRecord
<1>7. Len(scratch') = Size(r) /\ \A k \in 1 .. Size(r) : scratch'[k] = <<r, k>>
  BY <1>0, <1>6, WordsAre
<1>8. DOMAIN scratch' = 1 .. Size(r)
  BY <1>0 DEF Words
<1>9. InScratch' = {r}
  <2>1. 1 \in 1 .. Size(r)
    BY <1>6
  <2>2. \A k \in 1 .. Size(r) : scratch'[k][1] = r
    BY <1>7
  <2> HIDE DEF r
  <2> QED BY <1>8, <2>1, <2>2 DEF InScratch
<1>10. ScratchIsWhole'
  <2>1. RecordIn(scratch', 0, r)
    <3> HIDE DEF r
    <3> QED BY <1>6, <1>7 DEF RecordIn
  <2>2. WholeRecords(scratch')
    <3> HIDE DEF r
    <3> QED BY <1>6, <1>7, <2>1 DEF WholeRecords
  <2>3. \A i, j \in 1 .. Len(scratch') : scratch'[i] = scratch'[j] => i = j
    <3> HIDE DEF r
    <3> QED BY <1>7
  <2>4. r = StateRecord(state')
    BY <1>0
  <2> HIDE DEF r
  <2> QED BY <1>6, <1>9, <2>1, <2>2, <2>3, <2>4 DEF ScratchIsWhole
<1>11. ItemsAreCopied(off)'
  <2>1. \A o \in Heads' : ~(o < off')
    BY <1>t, <1>0, <1>3, HeadFacts
  <2> HIDE DEF r
  <2> QED BY <1>6, <1>9, <2>1 DEF ItemsAreCopied
<1>12. ScanOK'
  BY <1>4, <1>5, <1>10, <1>11 DEF ScanOK
<1>13. result' = "none" /\ (rec'.type = "STATE" => rec'.state = state')
  BY <1>0 DEF LogInv, CallOK
<1>14. after' = "none"
  BY <1>t, <1>0 DEF NothingIsLeftOver
<1> QED BY <1>0, <1>12, <1>13, <1>14 DEF LogInv, IdleOK, LoadOK, AppendOK, EraseOK,
           WriteOK, CompactOK, CallOK

\* append gives up only when the record does not fit.
LEMMA NoSpaceStep ==
  ASSUME StoreInv, StoreInv', LogInv, NoSpace
  PROVE  LogInv'
<1>t. TypeOK /\ TypeOK' /\ NothingIsLeftOver'
  BY DEF StoreInv
<1>0. /\ pc = "append" /\ flash' = flash /\ storeEnd' = storeEnd /\ rec' = rec
      /\ state' = state /\ Return("NOSPACE")
  BY DEF NoSpace, ram
<1>1. PICK e \in 0 .. StoreWords : e = storeEnd
  BY <1>t DEF TypeOK
<1>2. LogIs(e)
  BY <1>0, <1>1 DEF LogInv, AppendOK
<1>3. LogIs(e)' /\ \A id : Item(id)' = Item(id)
  BY <1>t, <1>0, <1>2, FlashKept
<1>4. LogIs(storeEnd)'
  BY <1>0, <1>1, <1>3
<1>5. LiveWords' = LiveWords
  BY <1>0, <1>3 DEF LiveWords, LiveRecords
<1>6. Size(rec) \in Nat /\ storeEnd \in Nat /\ StoreWords \in Nat
  BY <1>t, <1>1, SizeType, SizesAssumption DEF TypeOK
<1>7. Cardinality(LiveWords) + Size(rec) > StoreWords
  <2>1. CASE Size(rec) > StoreWords
    <3>1. Cardinality(LiveWords) \in Nat
      BY <1>t, <1>2, LiveWordsFinite, FS_CardinalityType
    <3> QED BY <1>6, <2>1, <3>1
  <2>2. CASE ~Fits /\ attempt = 1
    <3>1. Packed
      BY <1>0, <2>2 DEF LogInv, AppendOK
    <3>2. Cardinality(LiveWords) = storeEnd
      BY <1>t, <1>1, <1>2, <3>1, PackedSize
    <3>3. storeEnd + Size(rec) <= StoreWords
            => \A o \in storeEnd .. storeEnd + Size(rec) - 1 : o \in Offsets /\ storeEnd <= o
      BY <1>6 DEF Offsets
    <3>4. ~(storeEnd + Size(rec) <= StoreWords)
      BY <2>2, <3>1, <3>3 DEF Fits, Packed
    <3> QED BY <1>6, <3>2, <3>4
  <2> QED BY <1>t, <2>1, <2>2 DEF NoSpace, MayCompact, TypeOK
<1>8. NoSpaceMeansFull'
  BY <1>0, <1>5, <1>7 DEF NoSpaceMeansFull
<1>9. pc' = "idle" /\ result' = "NOSPACE" /\ after' = "none" /\ attempt' = 0
  BY <1>0 DEF Return, Forget
<1> QED BY <1>4, <1>8, <1>9 DEF LogInv, IdleOK, LoadOK, AppendOK, ScanOK, EraseOK,
           WriteOK, CompactOK, CallOK, OkMeansStored

\* A record is kept when it is the latest one of an item that was not deleted.
LEMMA KeptMeansLatest ==
  ASSUME TypeOK, NEW e \in 0 .. StoreWords, LogIs(e), NEW o \in Heads
  PROVE  Kept(o) <=> /\ RecordAt(o).type = "ITEM" /\ RecordAt(o).value # NoValue
                     /\ LatestOf(o, RecordAt(o).id)
<1> DEFINE r == RecordAt(o)
<1>1. LaterItem(EndOf(o), r.id) <=> \E p \in Heads : o < p /\ IsItem(RecordAt(p), r.id)
  BY LogFactsHold DEF LogFacts
<1>2. Kept(o) <=> r.type = "ITEM" /\ r.value # NoValue /\ ~LaterItem(EndOf(o), r.id)
  BY DEF Kept, EndOf
<1>3. \A p \in Heads : p \in Nat
  BY HeadFacts
<1>4. r.type = "ITEM" => IsItem(r, r.id)
  BY DEF IsItem
<1> QED BY <1>1, <1>2, <1>3, <1>4 DEF LatestOf

\* Two sequences of words, one behind the other.
LEMMA ConcatIs == ASSUME NEW s \in Seq(Cells), NEW t \in Seq(Cells)
                  PROVE  /\ Len(s \o t) = Len(s) + Len(t)
                         /\ \A i \in 1 .. Len(s) : (s \o t)[i] = s[i]
                         /\ \A k \in 1 .. Len(t) : (s \o t)[Len(s) + k] = t[k]
<1>1. ASSUME NEW k \in 1 .. Len(t) PROVE (s \o t)[Len(s) + k] = t[k]
  <2>1. Len(s) \in Nat /\ Len(t) \in Nat
    OBVIOUS
  <2>2. /\ Len(s) + k \in 1 .. Len(s) + Len(t) /\ ~(Len(s) + k <= Len(s))
        /\ Len(s) + k - Len(s) = k
    BY <2>1
  <2> QED BY <2>2
<1> QED BY <1>1

\* A record that is not in the scratch memory is copied behind the others.
LEMMA ScratchGrows ==
  ASSUME TypeOK, TypeOK', ScratchIsWhole, state' = state,
         NEW r \in Records, r.type = "ITEM", r.value # NoValue,
         scratch' = scratch \o Words(r), Words(r) \in Seq(Cells),
         \A q \in InScratch : ~IsItem(q, r.id)
  PROVE  ScratchIsWhole' /\ InScratch' = InScratch \cup {r}
<1> DEFINE n == Len(scratch)
<1>0. Size(r) \in Nat /\ Size(r) > 1 /\ n \in Nat /\ scratch \in Seq(Cells)
  BY SizeType DEF TypeOK
<1>1. Len(Words(r)) = Size(r) /\ \A k \in 1 .. Size(r) : Words(r)[k] = <<r, k>>
  BY WordsAre
<1>2. /\ Len(scratch') = n + Size(r)
      /\ \A i \in 1 .. n : scratch'[i] = scratch[i]
      /\ \A k \in 1 .. Size(r) : scratch'[n + k] = <<r, k>>
  BY <1>0, <1>1, ConcatIs
<1>3. DOMAIN scratch = 1 .. n /\ DOMAIN scratch' = 1 .. n + Size(r)
  BY <1>0, <1>2 DEF TypeOK
<1>c. \A i \in 1 .. n + Size(r) : i \in 1 .. n \/ \E k \in 1 .. Size(r) : i = n + k
  <2> SUFFICES ASSUME NEW i \in 1 .. n + Size(r), i \notin 1 .. n
               PROVE  \E k \in 1 .. Size(r) : i = n + k
    OBVIOUS
  <2>1. i - n \in 1 .. Size(r) /\ i = n + (i - n)
    BY <1>0
  <2> QED BY <2>1
<1>4. InScratch' = InScratch \cup {r}
  <2>1. ASSUME NEW i \in 1 .. n + Size(r) PROVE scratch'[i][1] \in InScratch \cup {r}
    <3>1. CASE i \in 1 .. n
      BY <1>2, <1>3, <3>1 DEF InScratch
    <3>2. ASSUME NEW k \in 1 .. Size(r), i = n + k PROVE scratch'[i][1] = r
      BY <1>2, <3>2
    <3> QED BY <1>c, <3>1, <3>2
  <2>2. ASSUME NEW i \in 1 .. n
        PROVE  i \in 1 .. n + Size(r) /\ scratch'[i][1] = scratch[i][1]
    BY <1>0, <1>2
  <2>3. n + 1 \in 1 .. n + Size(r) /\ scratch'[n + 1][1] = r
    <3>1. 1 \in 1 .. Size(r)
      BY <1>0
    <3> QED BY <1>0, <1>2, <3>1
  <2> HIDE DEF n
  <2> QED BY <1>3, <2>1, <2>2, <2>3 DEF InScratch
<1>5. \A q \in Records, b \in 0 .. n : RecordIn(scratch, b, q) => RecordIn(scratch', b, q)
  <2> SUFFICES ASSUME NEW q \in Records, NEW b \in 0 .. n, RecordIn(scratch, b, q)
               PROVE  RecordIn(scratch', b, q)
    OBVIOUS
  <2>1. Size(q) \in Nat
    BY SizeType
  <2>2. \A k \in 1 .. Size(q) : b + k \in 1 .. n
    BY <1>0, <2>1 DEF RecordIn
  <2> QED BY <1>0, <1>2, <2>1, <2>2 DEF RecordIn
<1>6. RecordIn(scratch', n, r)
  BY <1>0, <1>2 DEF RecordIn
<1>7. WholeRecords(scratch')
  <2> SUFFICES ASSUME NEW i \in 1 .. n + Size(r)
               PROVE  \E q \in Records, b \in 0 .. i - 1 :
                          RecordIn(scratch', b, q) /\ i <= b + Size(q)
    BY <1>2 DEF WholeRecords
  <2>1. CASE i \in 1 .. n
    <3>1. PICK q \in Records, b \in 0 .. i - 1 : RecordIn(scratch, b, q) /\ i <= b + Size(q)
      BY <2>1 DEF ScratchIsWhole, WholeRecords
    <3>2. b \in 0 .. n
      BY <1>0, <2>1
    <3> QED BY <1>5, <3>1, <3>2
  <2>2. CASE i \notin 1 .. n
    <3>1. n \in 0 .. i - 1 /\ i <= n + Size(r)
      BY <1>0, <2>2
    <3> QED BY <1>6, <3>1
  <2> QED BY <2>1, <2>2
<1>8. r \notin InScratch
  BY DEF IsItem
<1>9. \A i, j \in 1 .. Len(scratch') : scratch'[i] = scratch'[j] => i = j
  <2> SUFFICES ASSUME NEW i \in 1 .. n + Size(r), NEW j \in 1 .. n + Size(r),
                      scratch'[i] = scratch'[j]
               PROVE  i = j
    BY <1>2
  <2>1. \A x \in 1 .. n : scratch'[x][1] # r
    BY <1>2, <1>3, <1>8 DEF InScratch
  <2>2. ASSUME NEW x \in 1 .. n + Size(r), x \notin 1 .. n
        PROVE  \E k \in 1 .. Size(r) : x = n + k /\ scratch'[x] = <<r, k>>
    <3>1. PICK k \in 1 .. Size(r) : x = n + k
      BY <1>c, <2>2
    <3>2. scratch'[n + k] = <<r, k>>
      BY <1>2
    <3> QED BY <3>1, <3>2
  <2>3. CASE i \in 1 .. n /\ j \in 1 .. n
    BY <1>2, <2>3 DEF ScratchIsWhole
  <2>4. CASE i \in 1 .. n /\ j \notin 1 .. n
    <3>1. PICK k \in 1 .. Size(r) : scratch'[j] = <<r, k>>
      BY <2>2, <2>4
    <3>2. scratch'[i][1] = r
      BY <3>1
    <3> QED BY <2>1, <2>4, <3>2
  <2>5. CASE i \notin 1 .. n /\ j \in 1 .. n
    <3>1. PICK k \in 1 .. Size(r) : scratch'[i] = <<r, k>>
      BY <2>2, <2>5
    <3>2. scratch'[j][1] = r
      BY <3>1
    <3> QED BY <2>1, <2>5, <3>2
  <2>6. CASE i \notin 1 .. n /\ j \notin 1 .. n
    <3>1. PICK k \in 1 .. Size(r) : i = n + k /\ scratch'[i] = <<r, k>>
      BY <2>2, <2>6
    <3>2. PICK l \in 1 .. Size(r) : j = n + l /\ scratch'[j] = <<r, l>>
      BY <2>2, <2>6
    <3>3. <<r, k>> = <<r, l>>
      BY <3>1, <3>2
    <3>4. k = l
      BY <3>3
    <3> QED BY <3>1, <3>2, <3>4
  <2> QED BY <2>3, <2>4, <2>5, <2>6
<1>10. RecordIn(scratch', 0, StateRecord(state'))
  <2>1. StateRecord(state) \in Records /\ 0 \in 0 .. n
    BY <1>0, StateRecordType DEF TypeOK
  <2> QED BY <1>5, <2>1 DEF ScratchIsWhole
<1>11. \A q \in InScratch' :
         /\ q \in Records
         /\ q.type = "STATE" => q = StateRecord(state')
         /\ q.type = "ITEM" => q.value # NoValue
  BY <1>4 DEF ScratchIsWhole
<1>12. \A p, q \in InScratch' : p.type = "ITEM" /\ IsItem(q, p.id) => p = q
  <2> SUFFICES ASSUME NEW p \in InScratch', NEW q \in InScratch',
                      p.type = "ITEM", IsItem(q, p.id)
               PROVE  p = q
    OBVIOUS
  <2>1. CASE p \in InScratch /\ q \in InScratch
    BY <2>1 DEF ScratchIsWhole
  <2>2. CASE p = r /\ q \in InScratch
    BY <2>2
  <2>3. CASE p \in InScratch /\ q = r
    BY <2>3 DEF IsItem
  <2> QED BY <1>4, <2>1, <2>2, <2>3
<1> QED BY <1>4, <1>7, <1>9, <1>10, <1>11, <1>12 DEF ScratchIsWhole

\* compact copies what it has to keep.
LEMMA ScanRecordStep ==
  ASSUME StoreInv, StoreInv', LogInv, ScanRecord
  PROVE  LogInv'
<1>t. TypeOK /\ TypeOK' /\ NothingIsLeftOver'
  BY DEF StoreInv
<1>0. /\ pc = "scan" /\ pc' = "scan" /\ flash' = flash /\ storeEnd' = storeEnd
      /\ state' = state /\ rec' = rec /\ result' = result /\ Readable(off)
  BY DEF ScanRecord, ram
<1>1. PICK e \in 0 .. StoreWords : e = storeEnd
  BY <1>t DEF TypeOK
<1>2. LogIs(e) /\ off \in Heads \cup {e} /\ ScratchIsWhole /\ ItemsAreCopied(off)
  BY <1>0, <1>1 DEF LogInv, ScanOK
<1>3. LogIs(e)' /\ Heads' = Heads /\ \A o \in Heads : RecordAt(o)' = RecordAt(o)
  BY <1>t, <1>0, <1>2, FlashKept
<1>4. PICK o \in Heads : o = off
  BY <1>0, <1>2 DEF LogIs
<1> DEFINE r == RecordAt(o)
<1>5. /\ o \in Nat /\ r \in Records /\ Size(r) <= StoreWords /\ EndOf(o) \in Nat
      /\ o < EndOf(o) /\ EndOf(o) \in Heads \cup {e} /\ o \in 0 .. StoreWords
      /\ StoreWords \in Nat
  <2>1. o \in Nat /\ EndOf(o) \in 0 .. StoreWords /\ Size(r) \in Nat /\ o < EndOf(o)
        /\ r \in Records
    BY <1>t, HeadFacts
  <2>2. Size(r) <= StoreWords /\ o \in 0 .. StoreWords
    BY <2>1, SizesAssumption DEF EndOf
  <2> QED BY <1>t, <1>2, <2>1, <2>2, NextHead, SizesAssumption
<1>6. \A p \in Heads : p < EndOf(o) <=> p < o \/ p = o
  <2> SUFFICES ASSUME NEW p \in Heads PROVE p < EndOf(o) <=> p < o \/ p = o
    OBVIOUS
  <2>1. p \in Nat /\ p \in Offsets /\ First(p)
    BY <1>t, HeadFacts
  <2>2. o < p => EndOf(o) <= p
    BY <1>t, <2>1, HeadsApart
  <2> QED BY <1>5, <2>1, <2>2
<1>7. off' = EndOf(o) /\ scratch' = IF Kept(o) THEN scratch \o Words(r) ELSE scratch
  BY <1>4 DEF ScanRecord, EndOf
<1>8. Kept(o) <=> r.type = "ITEM" /\ r.value # NoValue /\ LatestOf(o, r.id)
  BY <1>t, <1>2, KeptMeansLatest
<1>9. \A q \in Records, p \in Heads : LatestOf(p, q.id)' <=> LatestOf(p, q.id)
  BY <1>3 DEF LatestOf
<1>10. ScratchIsWhole' /\ InScratch' = IF Kept(o) THEN InScratch \cup {r} ELSE InScratch
  <2>1. CASE Kept(o)
    <3>1. \A q \in InScratch : ~IsItem(q, r.id)
      <4> SUFFICES ASSUME NEW q \in InScratch, IsItem(q, r.id) PROVE FALSE
        OBVIOUS
      <4>1. q \in Records /\ q.type = "ITEM" /\ q.id = r.id
        BY <1>2 DEF ScratchIsWhole, IsItem
      <4>2. PICK p \in Heads : p < off /\ LatestOf(p, r.id)
        BY <1>2, <4>1 DEF ItemsAreCopied
      <4>3. p \in Nat /\ o <= p
        BY <1>t, <1>8, <2>1, <4>2, HeadFacts DEF LatestOf
      <4> QED BY <1>4, <1>5, <4>2, <4>3
    <3>2. Words(r) \in Seq(Cells)
      BY <1>5, WordsType
    <3> HIDE DEF r
    <3> QED BY <1>t, <1>0, <1>2, <1>5, <1>7, <1>8, <2>1, <3>1, <3>2, ScratchGrows
  <2>2. CASE ~Kept(o)
    <3>1. scratch' = scratch /\ state' = state
      BY <1>0, <1>7, <2>2
    <3> QED BY <1>2, <2>2, <3>1 DEF ScratchIsWhole, InScratch, WholeRecords
  <2> QED BY <2>1, <2>2
<1>11. ItemsAreCopied(off)'
  <2> SUFFICES ASSUME NEW q \in Records, q.type = "ITEM"
               PROVE  q \in InScratch' <=>
                        /\ q.value # NoValue
                        /\ \E p \in Heads : /\ p < EndOf(o) /\ RecordAt(p) = q
                                            /\ LatestOf(p, q.id)
    BY <1>3, <1>7, <1>9 DEF ItemsAreCopied
  <2>1. q \in InScratch <=>
          q.value # NoValue /\ \E p \in Heads : p < o /\ RecordAt(p) = q /\ LatestOf(p, q.id)
    BY <1>2, <1>4 DEF ItemsAreCopied
  <2>2. (\E p \in Heads : p < EndOf(o) /\ RecordAt(p) = q /\ LatestOf(p, q.id))
          <=> \/ \E p \in Heads : p < o /\ RecordAt(p) = q /\ LatestOf(p, q.id)
              \/ r = q /\ LatestOf(o, q.id)
    BY <1>6
  <2> QED BY <1>8, <1>10, <2>1, <2>2
<1>12. ScanOK'
  <2>1. LogIs(storeEnd)'
    BY <1>0, <1>1, <1>3
  <2>2. off' \in Heads' \cup {storeEnd'}
    BY <1>0, <1>1, <1>3, <1>5, <1>7
  <2> QED BY <1>10, <1>11, <2>1, <2>2 DEF ScanOK
<1>13. result' = "none" /\ (rec'.type = "STATE" => rec'.state = state')
  BY <1>0 DEF LogInv, CallOK
<1>14. after' = "none"
  BY <1>t, <1>0 DEF NothingIsLeftOver
<1> QED BY <1>0, <1>12, <1>13, <1>14 DEF LogInv, IdleOK, LoadOK, AppendOK, EraseOK,
           WriteOK, CompactOK, CallOK

\* At the end of the log everything is copied.
LEMMA ScanEndStep ==
  ASSUME StoreInv, StoreInv', LogInv, ScanEnd
  PROVE  LogInv'
<1>t. TypeOK /\ TypeOK' /\ NothingIsLeftOver'
  BY DEF StoreInv
<1>0. /\ pc = "scan" /\ pc' = "erase" /\ flash' = flash /\ storeEnd' = storeEnd
      /\ state' = state /\ rec' = rec /\ result' = result /\ ~Readable(off)
      /\ scratch' = scratch /\ sector' = 0
  BY DEF ScanEnd, ram
<1>1. PICK e \in 0 .. StoreWords : e = storeEnd
  BY <1>t DEF TypeOK
<1>2. LogIs(e) /\ off \in Heads \cup {e} /\ ScratchIsWhole /\ ItemsAreCopied(off)
  BY <1>0, <1>1 DEF LogInv, ScanOK
<1>3. LogIs(e)' /\ Heads' = Heads /\ \A o \in Heads : RecordAt(o)' = RecordAt(o)
  BY <1>t, <1>0, <1>2, FlashKept
<1>4. off = e
  BY <1>0, <1>2 DEF Heads
<1>5. \A q \in Records, p \in Heads : LatestOf(p, q.id)' <=> LatestOf(p, q.id)
  BY <1>3 DEF LatestOf
<1>6. InScratch' = InScratch /\ ScratchIsWhole'
  BY <1>0, <1>2 DEF ScratchIsWhole, InScratch, WholeRecords
<1>7. ItemsAreCopied(storeEnd)'
  BY <1>0, <1>1, <1>2, <1>3, <1>4, <1>5, <1>6 DEF ItemsAreCopied
<1>8. EraseOK'
  <2>1. LogIs(storeEnd)'
    BY <1>0, <1>1, <1>3
  <2> QED BY <1>0, <1>6, <1>7, <2>1 DEF EraseOK
<1>9. result' = "none" /\ (rec'.type = "STATE" => rec'.state = state')
  BY <1>0 DEF LogInv, CallOK
<1>10. after' = "none"
  BY <1>t, <1>0 DEF NothingIsLeftOver
<1> QED BY <1>0, <1>8, <1>9, <1>10 DEF LogInv, IdleOK, LoadOK, AppendOK, ScanOK,
           WriteOK, CompactOK, CallOK

\* A record is being written: the next word belongs to it, and goes on an
\* erased word.
LEMMA WriteWord ==
  ASSUME StoreInv, LogInv, after \in {"payload", "header"}, todo # <<>>,
         NEW e \in 0 .. StoreWords, e = storeEnd
  PROVE  /\ LogIs(e) /\ ~HeaderIsWritten
         /\ rec \in Records /\ Size(rec) \in Nat /\ Size(rec) > 1
         /\ e + Size(rec) <= StoreWords /\ StoreWords \in Nat
         /\ at \in Nat /\ e <= at /\ at < WritingTo /\ at < e + Size(rec)
         /\ at \in Offsets
         /\ Len(todo) \in Nat /\ Len(todo) > 0 /\ at + Len(todo) = WritingTo
         /\ Len(Tail(todo)) = Len(todo) - 1
         /\ \A i \in 1 .. Len(Tail(todo)) : Tail(todo)[i] = todo[i + 1]
         /\ Head(todo) = <<rec, at - e + 1>>
         /\ flash[at] = Blank
         /\ AfterWord = [flash EXCEPT ![at] = <<rec, at - e + 1>>]
<1>t. TypeOK
  BY DEF StoreInv
<1>0. /\ rec \in Records /\ StoreWords \in Nat /\ at \in Nat /\ todo \in Seq(Cells)
      /\ e \in Nat
  BY <1>t, SizesAssumption DEF TypeOK
<1>1. Size(rec) \in Nat /\ Size(rec) > 1
  BY <1>0, SizeType
<1>2. e + Size(rec) <= StoreWords
  BY DEF StoreInv, RecordHasItsPlace
<1>3. /\ LogIs(IF HeaderIsWritten THEN storeEnd + Size(rec) ELSE storeEnd)
      /\ WritingFrom <= at /\ at + Len(todo) = WritingTo
      /\ \A i \in 1 .. Len(todo) : todo[i] = <<rec, at - storeEnd + i>>
      /\ \A o \in storeEnd .. storeEnd + Size(rec) - 1 :
           flash[o] = IF HasWord(o) THEN <<rec, o - storeEnd + 1>> ELSE Blank
  BY DEF LogInv, WriteOK
<1>4. /\ Len(todo) \in Nat /\ Len(todo) > 0 /\ Len(Tail(todo)) = Len(todo) - 1
      /\ \A i \in 1 .. Len(Tail(todo)) : Tail(todo)[i] = todo[i + 1]
      /\ Head(todo) = todo[1]
  BY <1>0
<1>5. at < WritingTo
  BY <1>0, <1>3, <1>4 DEF WritingTo
<1>6. e <= at /\ at < e + Size(rec) /\ at \in Offsets
  BY <1>0, <1>1, <1>2, <1>3, <1>5 DEF WritingFrom, WritingTo, Offsets
<1>7. ~HeaderIsWritten
  BY <1>0, <1>5 DEF HeaderIsWritten, WritingTo
<1>8. Head(todo) = <<rec, at - e + 1>>
  BY <1>3, <1>4
<1>9. flash[at] = Blank
  <2>1. ~HasWord(at)
    BY <1>0, <1>3, <1>5 DEF HasWord, WritingFrom, WritingTo
  <2>2. at \in storeEnd .. storeEnd + Size(rec) - 1
    BY <1>0, <1>1, <1>6
  <2> QED BY <1>3, <2>1, <2>2
<1>10. AfterWord = [flash EXCEPT ![at] = <<rec, at - e + 1>>]
  BY <1>8, <1>9 DEF AfterWord, Programmed
<1> QED BY <1>0, <1>1, <1>2, <1>3, <1>4, <1>5, <1>6, <1>7, <1>8, <1>9, <1>10

\* Before its header is complete a record does not count.
LEMMA WriteUnseen ==
  ASSUME StoreInv, StoreInv', LogInv, after \in {"payload", "header"}, todo # <<>>,
         flash' = AfterWord \/ flash' = Filled({at}, Garbage),
         after = "header" /\ at = storeEnd + 1 => flash' # AfterWord,
         NEW e \in 0 .. StoreWords, e = storeEnd
  PROVE  /\ LogIs(e)'
         /\ StoredState' = StoredState /\ \A id : Item(id)' = Item(id)
<1>t. TypeOK /\ TypeOK'
  BY DEF StoreInv
<1>1. /\ LogIs(e) /\ rec \in Records /\ Size(rec) \in Nat /\ Size(rec) > 1
      /\ e + Size(rec) <= StoreWords /\ StoreWords \in Nat /\ e \in Nat
      /\ at \in Nat /\ e <= at /\ at \in Offsets /\ at < e + Size(rec)
      /\ AfterWord = [flash EXCEPT ![at] = <<rec, at - e + 1>>]
  BY WriteWord
<1>2. \A o \in Offsets : o # at => flash'[o] = flash[o]
  BY <1>t, <1>1 DEF Filled, TypeOK
<1>3. flash'[at] = Garbage \/ flash'[at] = <<rec, at - e + 1>>
  BY <1>t, <1>1 DEF Filled, TypeOK
<1>4. \A o \in 0 .. e - 1 : flash'[o] = flash[o]
  BY <1>1, <1>2 DEF Offsets
<1>5. e \in Offsets /\ e + 1 \in Offsets
  BY <1>1 DEF Offsets
<1>6. \A o \in e .. e + Size(rec) - 1 :
         flash[o] = IF HasWord(o) THEN <<rec, o - e + 1>> ELSE Blank
  BY DEF LogInv, WriteOK
<1>7. WritingFrom <= at /\ at < WritingTo
  BY WriteWord DEF LogInv, WriteOK
<1>8. Readable(e)' = FALSE
  <2>1. CASE after = "payload"
    <3>1. at # e /\ ~HasWord(e)
      BY <1>1, <1>7, <2>1 DEF WritingFrom, HasWord
    <3>2. e \in e .. e + Size(rec) - 1
      BY <1>1
    <3>3. flash'[e] = Blank
      BY <1>2, <1>5, <1>6, <3>1, <3>2
    <3> QED BY <3>3 DEF Readable
  <2>2. CASE after = "header" /\ at = e
    <3>1. e + 1 \in e .. e + Size(rec) - 1 /\ ~HasWord(e + 1) /\ e + 1 # at
      BY <1>1, <2>2 DEF HasWord
    <3>2. flash'[e + 1] = Blank
      BY <1>2, <1>5, <1>6, <3>1
    <3>3. SUFFICES ASSUME flash'[e] = <<rec, 1>>, Readable(e)' PROVE FALSE
      BY <1>1, <1>3, <2>2 DEF Readable
    <3>4. 2 \in 1 .. Size(rec) /\ e + 2 - 1 = e + 1
      BY <1>1
    <3>5. flash'[e + 1] = <<rec, 2>>
      BY <3>3, <3>4 DEF Readable
    <3>6. 2 \in 1 .. StoreWords
      BY <1>1
    <3> QED BY <1>1, <3>2, <3>5, <3>6, WordIsNeither
  <2>3. CASE after = "header" /\ at = e + 1
    <3>1. flash'[e + 1] = Garbage
      BY <1>t, <1>1, <2>3 DEF Filled
    <3>2. SUFFICES ASSUME Readable(e)' PROVE FALSE
      OBVIOUS
    <3>3. flash'[e] = flash[e]
      BY <1>1, <1>2, <1>5, <2>3
    <3>4. flash[e] = <<rec, 1>>
      <4>1. e \in e .. e + Size(rec) - 1 /\ HasWord(e) /\ e - e + 1 = 1
        BY <1>1, <2>3 DEF HasWord
      <4> QED BY <1>1, <1>6, <4>1
    <3>5. 2 \in 1 .. Size(rec) /\ e + 2 - 1 = e + 1
      BY <1>1
    <3>6. flash'[e + 1] = <<rec, 2>>
      BY <3>2, <3>3, <3>4, <3>5 DEF Readable
    <3>7. 2 \in 1 .. StoreWords
      BY <1>1
    <3> QED BY <1>1, <3>1, <3>6, <3>7, WordIsNeither
  <2>4. after = "header" => at = e \/ at = e + 1
    BY <1>1, <1>7 DEF WritingTo
  <2> QED BY <2>1, <2>2, <2>3, <2>4
<1>9. ASSUME NEW o \in Offsets, First(o)' PROVE o <= e
  <2>1. CASE o # at
    <3>1. First(o)
      BY <1>2, <1>9, <2>1 DEF First
    <3> QED BY <1>1, <3>1 DEF LogIs
  <2>2. CASE o = at
    <3>1. flash'[o] = <<rec, at - e + 1>>
      BY <1>3, <1>9, <2>2 DEF First
    <3>2. at - e + 1 = 1
      BY <1>9, <3>1 DEF First
    <3> QED BY <1>1, <2>2, <3>2
  <2> QED BY <2>1, <2>2
<1> QED BY <1>t, <1>1, <1>4, <1>8, <1>9, LogKept

\* With the last word of its header it is the latest one.
LEMMA WriteSeen ==
  ASSUME StoreInv, StoreInv', LogInv, after = "header", at = storeEnd + 1,
         todo # <<>>, flash' = AfterWord,
         NEW e \in 0 .. StoreWords, e = storeEnd,
         NEW e2 \in 0 .. StoreWords, e2 = storeEnd + Size(rec)
  PROVE  /\ LogIs(e2)'
         /\ Heads' = Heads \cup {e} /\ RecordAt(e)' = rec
         /\ StoredState' = IF rec.type = "STATE" THEN rec.state ELSE StoredState
         /\ \A id : Item(id)' = IF IsItem(rec, id) THEN rec.value ELSE Item(id)
<1>t. TypeOK /\ TypeOK'
  BY DEF StoreInv
<1>1. /\ LogIs(e) /\ rec \in Records /\ Size(rec) \in Nat /\ Size(rec) > 1
      /\ e + Size(rec) <= StoreWords /\ StoreWords \in Nat /\ e \in Nat
      /\ at \in Nat /\ e <= at /\ at \in Offsets /\ at < e + Size(rec)
      /\ AfterWord = [flash EXCEPT ![at] = <<rec, at - e + 1>>]
      /\ flash[at] = Blank
  BY WriteWord
<1>2. \A o \in Offsets : o # at => flash'[o] = flash[o]
  BY <1>t, <1>1 DEF TypeOK
<1>3. flash'[at] = <<rec, at - e + 1>>
  BY <1>t, <1>1 DEF TypeOK
<1>4. \A o \in 0 .. e - 1 : flash'[o] = flash[o]
  BY <1>1, <1>2 DEF Offsets
<1>5. \A o \in e .. e + Size(rec) - 1 : o \in Offsets /\ flash'[o] = <<rec, o - e + 1>>
  <2>1. ASSUME NEW o \in e .. e + Size(rec) - 1
        PROVE  o \in Offsets /\ flash'[o] = <<rec, o - e + 1>>
    <3>1. o \in Offsets
      BY <1>1 DEF Offsets
    <3>2. CASE o = at
      BY <1>3, <3>1, <3>2
    <3>3. CASE o # at
      <4>1. HasWord(o)
        BY <1>1, <3>3 DEF HasWord
      <4>2. flash[o] = <<rec, o - e + 1>>
        BY <4>1 DEF LogInv, WriteOK
      <4> QED BY <1>2, <3>1, <3>3, <4>2
    <3> QED BY <3>2, <3>3
  <2> QED BY <2>1
<1>6. flash'[e] = <<rec, 1>> /\ e \in Offsets
  <2>1. e \in e .. e + Size(rec) - 1 /\ e - e + 1 = 1
    BY <1>1
  <2> QED BY <1>5, <2>1
<1>7. RecordAt(e)' = rec /\ e2 = EndOf(e)'
  BY <1>6 DEF RecordAt, EndOf
<1>8. Readable(e)'
  <2>1. flash'[e] \notin {Blank, Garbage}
    <3>1. 1 \in 1 .. StoreWords
      BY <1>1
    <3> QED BY <1>1, <1>6, <3>1, WordIsNeither
  <2>2. ASSUME NEW i \in 1 .. Size(rec) PROVE flash'[e + i - 1] = <<rec, i>>
    <3>1. e + i - 1 \in e .. e + Size(rec) - 1 /\ e + i - 1 - e + 1 = i
      BY <1>1
    <3> QED BY <1>5, <3>1
  <2>3. e + HeaderWords <= StoreWords
    BY <1>1
  <2> QED BY <1>1, <1>6, <2>1, <2>2, <2>3 DEF Readable
<1>9. ASSUME NEW o \in Offsets, First(o)' PROVE o <= e
  <2>1. CASE o # at
    <3>1. First(o)
      BY <1>2, <1>9, <2>1 DEF First
    <3> QED BY <1>1, <3>1 DEF LogIs
  <2>2. CASE o = at
    <3>1. flash'[o] = <<rec, at - e + 1>>
      BY <1>3, <2>2
    <3>2. at - e + 1 = 1
      BY <1>9, <3>1 DEF First
    <3> QED BY <1>1, <2>2, <3>2
  <2> QED BY <2>1, <2>2
<1>10. Readable(e2)' = FALSE
  <2> SUFFICES ASSUME Readable(e2)' PROVE FALSE
    OBVIOUS
  <2>1. HeadsAreApart'
    BY <1>t, NextFacts
  <2>2. e2 \in Offsets
    BY <1>1 DEF Readable, Offsets
  <2>3. e2 \in Heads'
    BY <2>2 DEF Heads
  <2>4. First(e2)'
    BY <2>1, <2>3 DEF HeadsAreApart
  <2> QED BY <1>1, <1>9, <2>2, <2>4
<1>11. \A o \in Offsets : First(o)' => o <= e2
  BY <1>1, <1>9 DEF Offsets
<1> QED BY <1>t, <1>1, <1>4, <1>7, <1>8, <1>10, <1>11, LogGrows

\* The words of a record go to the flash.
LEMMA WriteWordStep ==
  ASSUME StoreInv, StoreInv', LogInv, ProgramWord, after \in {"payload", "header"}
  PROVE  LogInv'
<1>t. TypeOK /\ TypeOK'
  BY DEF StoreInv
<1>0. /\ pc = "program" /\ pc' = pc /\ after' = after /\ rec' = rec /\ state' = state
      /\ storeEnd' = storeEnd /\ at' = at + 1 /\ todo' = Tail(todo)
      /\ todo # <<>> /\ flash' = AfterWord /\ result' = result
  BY DEF ProgramWord, ram
<1>1. PICK e \in 0 .. StoreWords : e = storeEnd
  BY <1>t DEF TypeOK
<1>2. /\ LogIs(e) /\ ~HeaderIsWritten /\ rec \in Records /\ Size(rec) \in Nat
      /\ Size(rec) > 1 /\ e + Size(rec) <= StoreWords /\ StoreWords \in Nat
      /\ e \in Nat /\ at \in Nat /\ e <= at /\ at < WritingTo /\ at < e + Size(rec)
      /\ Len(todo) \in Nat /\ Len(todo) > 0 /\ at + Len(todo) = WritingTo
      /\ Len(Tail(todo)) = Len(todo) - 1
      /\ \A i \in 1 .. Len(Tail(todo)) : Tail(todo)[i] = todo[i + 1]
      /\ AfterWord = [flash EXCEPT ![at] = <<rec, at - e + 1>>]
  BY <1>0, <1>1, WriteWord
<1>3. WritingFrom <= at
  BY DEF LogInv, WriteOK
<1>4. HeaderIsWritten' <=> after = "header" /\ at = e + 1
  BY <1>0, <1>1, <1>2 DEF HeaderIsWritten
<1>5. LogIs(IF HeaderIsWritten THEN storeEnd + Size(rec) ELSE storeEnd)'
  <2>1. CASE after = "header" /\ at = e + 1
    <3>1. PICK e2 \in 0 .. StoreWords : e2 = storeEnd + Size(rec)
      BY <1>1, <1>2
    <3>2. LogIs(e2)'
      BY <1>0, <1>1, <2>1, <3>1, WriteSeen
    <3> QED BY <1>0, <1>4, <2>1, <3>1, <3>2
  <2>2. CASE ~(after = "header" /\ at = e + 1)
    <3>1. LogIs(e)'
      BY <1>0, <1>1, <2>2, WriteUnseen
    <3> QED BY <1>0, <1>1, <1>4, <2>2, <3>1
  <2> QED BY <2>1, <2>2
<1>6. WritingFrom' = WritingFrom /\ WritingTo' = WritingTo
  BY <1>0 DEF WritingFrom, WritingTo
<1>7. WritingFrom' <= at' /\ at' + Len(todo') = WritingTo'
  <2>1. WritingFrom \in Nat
    BY <1>1, <1>2 DEF WritingFrom
  <2>2. Len(todo') = Len(todo) - 1 /\ at' = at + 1
    BY <1>0, <1>2
  <2>3. at' + Len(todo') = at + Len(todo)
    BY <1>2, <2>2
  <2> QED BY <1>2, <1>3, <1>6, <2>1, <2>2, <2>3
<1>8. ASSUME NEW i \in 1 .. Len(todo') PROVE todo'[i] = <<rec, at' - storeEnd + i>>
  <2>1. i + 1 \in 1 .. Len(todo) /\ at - storeEnd + (i + 1) = at' - storeEnd + i
    BY <1>0, <1>1, <1>2
  <2>2. todo[i + 1] = <<rec, at - storeEnd + (i + 1)>>
    BY <2>1 DEF LogInv, WriteOK
  <2> QED BY <1>0, <1>2, <2>1, <2>2
<1>9. ASSUME NEW o \in e .. e + Size(rec) - 1
      PROVE  flash'[o] = IF HasWord(o)' THEN <<rec, o - e + 1>> ELSE Blank
  <2>1. o \in Offsets
    BY <1>2 DEF Offsets
  <2>2. flash[o] = IF HasWord(o) THEN <<rec, o - e + 1>> ELSE Blank
    BY <1>1 DEF LogInv, WriteOK
  <2>3. CASE o = at
    <3>1. HasWord(o)'
      BY <1>0, <1>1, <1>2, <1>3, <2>3 DEF HasWord, WritingFrom
    <3> QED BY <1>t, <1>0, <1>2, <2>1, <2>3, <3>1 DEF TypeOK
  <2>4. CASE o # at
    <3>1. HasWord(o)' <=> HasWord(o)
      BY <1>0, <1>1, <1>2, <2>4 DEF HasWord
    <3> QED BY <1>0, <1>2, <2>2, <2>4, <3>1
  <2> QED BY <2>3, <2>4
<1>10. WriteOK'
  BY <1>0, <1>1, <1>5, <1>7, <1>8, <1>9 DEF WriteOK
<1>11. result' = "none" /\ (rec'.type = "STATE" => rec'.state = state')
  BY <1>0 DEF LogInv, CallOK
<1> QED BY <1>0, <1>10, <1>11 DEF LogInv, IdleOK, LoadOK, AppendOK, ScanOK,
           EraseOK, CompactOK, CallOK

\* What is in the scratch memory is there from its first word on.
LEMMA ScratchRecord ==
  ASSUME TypeOK, ScratchIsWhole, NEW r \in InScratch
  PROVE  \E b \in 0 .. Len(scratch) - 1 : RecordIn(scratch, b, r)
<1>0. scratch \in Seq(Cells) /\ Len(scratch) \in Nat
  BY DEF TypeOK
<1>1. PICK i \in 1 .. Len(scratch) : r = scratch[i][1]
  BY <1>0 DEF InScratch
<1>2. PICK q \in Records, b \in 0 .. i - 1 : RecordIn(scratch, b, q) /\ i <= b + Size(q)
  BY DEF ScratchIsWhole, WholeRecords
<1>3. Size(q) \in Nat
  BY SizeType
<1>4. i - b \in 1 .. Size(q) /\ b + (i - b) = i
  BY <1>0, <1>2, <1>3
<1>5. scratch[i] = <<q, i - b>>
  BY <1>2, <1>4 DEF RecordIn
<1>6. q = r
  BY <1>1, <1>5
<1>7. b \in 0 .. Len(scratch) - 1
  BY <1>0
<1> QED BY <1>2, <1>6, <1>7

\* The records that can be read during a compaction are those that are back.
LEMMA CompactHeads ==
  ASSUME StoreInv, LogInv, after = "compacted"
  PROVE  /\ ScratchIsWhole /\ CopiedTo(scratch, at)
         /\ at \in Nat /\ at <= Len(scratch) /\ Len(scratch) <= StoreWords
         /\ \A o \in Offsets, r \in Records :
              RecordIn(scratch, o, r) /\ o + Size(r) <= at => o \in Heads /\ RecordAt(o) = r
         /\ \A o \in Heads : /\ RecordIn(scratch, o, RecordAt(o)) /\ EndOf(o) <= at
                             /\ RecordAt(o) \in InScratch
         /\ \A o, p \in Heads : RecordAt(o) = RecordAt(p) => o = p
<1>t. TypeOK
  BY DEF StoreInv
<1>0. /\ scratch \in Seq(Cells) /\ Len(scratch) \in Nat /\ at \in Nat /\ StoreWords \in Nat
      /\ Len(scratch) <= StoreWords /\ Len(todo) \in Nat /\ at + Len(todo) = Len(scratch)
  BY <1>t, SizesAssumption DEF TypeOK, StoreInv, CompactionHasItsPlace, LogInv, CompactOK
<1>1. at <= Len(scratch)
  BY <1>0
<1>2. ScratchIsWhole /\ \A o \in Offsets : flash[o] = IF o < at THEN scratch[o + 1] ELSE Blank
  BY DEF LogInv, CompactOK
<1>3. CopiedTo(scratch, at)
  BY <1>2 DEF CopiedTo
<1>4. ASSUME NEW o \in Offsets, NEW r \in Records, RecordIn(scratch, o, r), o + Size(r) <= at
      PROVE  o \in Heads /\ RecordAt(o) = r
  <2>1. Size(r) \in Nat /\ Size(r) > 1 /\ o \in Nat
    BY SizeType DEF Offsets
  <2>2. ASSUME NEW i \in 1 .. Size(r) PROVE flash[o + i - 1] = <<r, i>>
    <3>1. o + i - 1 \in Offsets /\ o + i - 1 < at /\ o + i - 1 + 1 = o + i
      BY <1>0, <1>1, <1>4, <2>1 DEF Offsets
    <3>2. scratch[o + i] = <<r, i>>
      BY <1>4 DEF RecordIn
    <3> QED BY <1>2, <3>1, <3>2
  <2>3. flash[o] = <<r, 1>>
    <3>1. 1 \in 1 .. Size(r) /\ o + 1 - 1 = o
      BY <2>1
    <3> QED BY <2>2, <3>1
  <2>4. flash[o] \notin {Blank, Garbage}
    <3>1. 1 \in 1 .. StoreWords
      BY <1>0, <1>1, <1>4, <2>1
    <3> QED BY <2>3, <3>1, WordIsNeither
  <2>5. o + HeaderWords <= StoreWords /\ o + Size(r) <= StoreWords
    BY <1>0, <1>1, <1>4, <2>1
  <2> QED BY <2>2, <2>3, <2>4, <2>5 DEF Heads, Readable, RecordAt
<1>5. ASSUME NEW o \in Heads
      PROVE  /\ RecordIn(scratch, o, RecordAt(o)) /\ EndOf(o) <= at
             /\ RecordAt(o) \in InScratch /\ o + 1 \in 1 .. Len(scratch)
             /\ scratch[o + 1] = <<RecordAt(o), 1>>
  <2> DEFINE r == RecordAt(o)
  <2>1. /\ o \in Nat /\ r \in Records /\ Size(r) \in Nat /\ Size(r) > 1
        /\ EndOf(o) = o + Size(r)
        /\ \A k \in o .. EndOf(o) - 1 : k \in Offsets /\ flash[k] = <<r, k - o + 1>>
    BY <1>t, HeadFacts DEF EndOf
  <2>2. ASSUME NEW i \in 1 .. Size(r)
        PROVE  o + i - 1 < at /\ scratch[o + i] = <<r, i>>
    <3>1. /\ o + i - 1 \in o .. EndOf(o) - 1 /\ o + i - 1 - o + 1 = i
          /\ o + i - 1 + 1 = o + i
      BY <2>1
    <3>2. o + i - 1 \in Offsets /\ flash[o + i - 1] = <<r, i>>
      BY <2>1, <3>1
    <3>3. i \in 1 .. StoreWords
      BY <1>0, <2>1, <3>2 DEF Offsets
    <3>4. flash[o + i - 1] # Blank
      BY <2>1, <3>2, <3>3, WordIsNeither
    <3> HIDE DEF r
    <3> QED BY <1>2, <3>1, <3>2, <3>4
  <2>3. Size(r) \in 1 .. Size(r) /\ 1 \in 1 .. Size(r)
    BY <2>1
  <2>4. o + Size(r) - 1 < at /\ scratch[o + 1] = <<r, 1>>
    BY <2>2, <2>3
  <2>5. o + Size(r) <= at /\ o + 1 \in 1 .. Len(scratch)
    BY <1>0, <1>1, <2>1, <2>4
  <2>6. o + Size(r) <= Len(scratch)
    BY <1>0, <1>1, <2>1, <2>5
  <2>7. RecordIn(scratch, o, r)
    BY <2>2, <2>6 DEF RecordIn
  <2>8. r \in InScratch
    <3>1. scratch[o + 1][1] = r
      BY <2>4
    <3> QED BY <1>0, <2>5, <3>1 DEF InScratch
  <2> QED BY <2>1, <2>4, <2>5, <2>7, <2>8
<1>6. ASSUME NEW o \in Heads, NEW p \in Heads, RecordAt(o) = RecordAt(p) PROVE o = p
  <2>1. scratch[o + 1] = scratch[p + 1] /\ o + 1 \in 1 .. Len(scratch)
        /\ p + 1 \in 1 .. Len(scratch)
    BY <1>5, <1>6
  <2>2. o + 1 = p + 1 /\ o \in Nat /\ p \in Nat
    BY <1>t, <1>2, <2>1, HeadFacts DEF ScratchIsWhole
  <2> QED BY <2>2
<1> QED BY <1>0, <1>1, <1>2, <1>3, <1>4, <1>5, <1>6

\* In the moment between two words of a compaction the flash has a log, too.
LEMMA CompactLog ==
  ASSUME StoreInv, LogInv, after = "compacted"
  PROVE  \E e \in 0 .. StoreWords : EndsIn(scratch, at, e) /\ LogIs(e)
<1>t. TypeOK
  BY DEF StoreInv
<1>0. /\ scratch \in Seq(Cells) /\ Len(scratch) \in Nat /\ at \in Nat /\ StoreWords \in Nat
      /\ at <= Len(scratch) /\ Len(scratch) <= StoreWords
      /\ WholeRecords(scratch) /\ CopiedTo(scratch, at)
  BY <1>t, CompactHeads, SizesAssumption DEF TypeOK, ScratchIsWhole
<1>1. \E e \in 0 .. StoreWords : EndsIn(scratch, at, e)
  <2>1. CASE at = Len(scratch)
    BY <1>0, <2>1 DEF EndsIn
  <2>2. CASE at # Len(scratch)
    <3>1. at + 1 \in 1 .. Len(scratch)
      BY <1>0, <2>2
    <3>2. PICK r \in Records, b \in 0 .. (at + 1) - 1 :
               RecordIn(scratch, b, r) /\ at + 1 <= b + Size(r)
      BY <1>0, <3>1 DEF WholeRecords
    <3>3. b \in 0 .. StoreWords /\ b <= at /\ at < b + Size(r)
      BY <1>0, <3>2, SizeType
    <3> QED BY <3>2, <3>3 DEF EndsIn
  <2> QED BY <2>1, <2>2
<1>2. PICK e \in 0 .. StoreWords : EndsIn(scratch, at, e)
  BY <1>1
<1>3. LogIs(e)
  <2>1. at \in 0 .. StoreWords
    BY <1>0
  <2> QED BY <1>t, <1>0, <1>2, <2>1, CopyLogHolds DEF CopyIsLog
<1> QED BY <1>2, <1>3

\* The records that are back are the only ones of their kind.
LEMMA CompactValues ==
  ASSUME StoreInv, LogInv, after = "compacted"
  PROVE  /\ StoredState = IF 0 \in Heads THEN state ELSE NoState
         /\ \A o \in Heads : IsState(o) => o = 0
         /\ 0 \in Heads => RecordAt(0) = StateRecord(state)
         /\ \A id : \A o \in Heads : IsItem(RecordAt(o), id) => Item(id) = RecordAt(o).value
         /\ \A id : (\A o \in Heads : ~IsItem(RecordAt(o), id)) => Item(id) = NoValue
<1>t. TypeOK
  BY DEF StoreInv
<1>1. PICK e \in 0 .. StoreWords : LogIs(e)
  BY CompactLog
<1>2. \A o \in Heads : RecordAt(o) \in InScratch /\ o \in Nat /\ RecordAt(o) \in Records
  BY <1>t, CompactHeads, HeadFacts
<1>3. \A o, p \in Heads : RecordAt(o) = RecordAt(p) => o = p
  BY CompactHeads
<1>4. /\ \A r \in InScratch : r.type = "STATE" => r = StateRecord(state)
      /\ \A r, q \in InScratch : r.type = "ITEM" /\ IsItem(q, r.id) => r = q
      /\ RecordIn(scratch, 0, StateRecord(state))
  BY CompactHeads DEF ScratchIsWhole
<1>5. 0 \in Heads => RecordAt(0) = StateRecord(state)
  <2>1. ASSUME 0 \in Heads PROVE RecordAt(0) = StateRecord(state)
    <3>1. RecordIn(scratch, 0, RecordAt(0)) /\ Size(RecordAt(0)) \in Nat
          /\ Size(RecordAt(0)) > 1
      BY <1>t, <2>1, CompactHeads, HeadFacts
    <3>2. StateRecord(state) \in Records /\ 1 \in 1 .. Size(StateRecord(state))
      BY <1>t, StateRecordType, SizeType DEF TypeOK
    <3>3. 1 \in 1 .. Size(RecordAt(0))
      BY <3>1
    <3>4. scratch[0 + 1] = <<RecordAt(0), 1>> /\ scratch[0 + 1] = <<StateRecord(state), 1>>
      BY <1>4, <3>1, <3>2, <3>3 DEF RecordIn
    <3>5. <<RecordAt(0), 1>> = <<StateRecord(state), 1>>
      BY <3>4
    <3> QED BY <3>5
  <2> QED BY <2>1
<1>6. ASSUME NEW o \in Heads, IsState(o) PROVE o = 0
  <2>1. RecordAt(o) = StateRecord(state)
    BY <1>2, <1>4, <1>6 DEF IsState
  <2>2. 0 \in Heads
    <3>1. Size(StateRecord(state)) <= at
      <4>1. EndOf(o) <= at /\ o \in Nat /\ Size(StateRecord(state)) \in Nat /\ at \in Nat
        BY <1>t, <2>1, CompactHeads, HeadFacts
      <4> QED BY <2>1, <4>1 DEF EndOf
    <3>2. StateRecord(state) \in Records /\ 0 \in Offsets
      BY <1>2, <2>1, SizesAssumption DEF Offsets
    <3>3. 0 + Size(StateRecord(state)) <= at
      BY <1>t, <2>1, <3>1, HeadFacts
    <3> QED BY <1>4, <3>2, <3>3, CompactHeads
  <2> QED BY <1>3, <1>5, <2>1, <2>2
<1>7. StoredState = IF 0 \in Heads THEN state ELSE NoState
  <2>1. CASE 0 \in Heads
    <3>1. LatestState(0)
      BY <1>5, <1>6, <2>1 DEF LatestState, IsState, StateRecord
    <3>2. RecordAt(0).state = state
      BY <1>5, <2>1 DEF StateRecord
    <3> QED BY <1>t, <1>1, <2>1, <3>1, <3>2, LogFactsHold DEF LogFacts
  <2>2. CASE 0 \notin Heads
    <3>1. \A p \in Heads : ~IsState(p)
      BY <1>6, <2>2
    <3> QED BY <1>t, <1>1, <2>2, <3>1, LogFactsHold DEF LogFacts
  <2> QED BY <2>1, <2>2
<1>8. ASSUME NEW id, NEW o \in Heads, IsItem(RecordAt(o), id)
      PROVE  Item(id) = RecordAt(o).value
  <2>1. ASSUME NEW p \in Heads, IsItem(RecordAt(p), id) PROVE p = o
    BY <1>2, <1>3, <1>4, <1>8, <2>1 DEF IsItem
  <2>2. LatestOf(o, id)
    BY <1>2, <1>8, <2>1 DEF LatestOf
  <2> QED BY <1>t, <1>1, <2>2, LogFactsHold DEF LogFacts
<1>9. \A id : (\A o \in Heads : ~IsItem(RecordAt(o), id)) => Item(id) = NoValue
  BY <1>t, <1>1, LogFactsHold DEF LogFacts
<1> QED BY <1>5, <1>6, <1>7, <1>8, <1>9

\* In one sector the erase is a single step.
LEMMA EraseSteps ==
  ASSUME OneSector, StoreInv, StoreInv', ScratchHolds, LogInv, EraseSector \/ Erased
  PROVE  LogInv'
<1>t. TypeOK /\ TypeOK' /\ NothingIsLeftOver'
  BY DEF StoreInv
<1>0. /\ pc = "erase" /\ storeEnd' = storeEnd /\ state' = state /\ result = "none"
      /\ ScratchIsWhole /\ (rec.type = "STATE" => rec.state = state)
      /\ Sectors = 1 /\ SectorOf(0) = Offsets
  BY OneSectorFacts DEF EraseSector, Erased, ram, LogInv, EraseOK, CallOK
<1>1. CASE EraseSector
  <2>1. /\ pc' = "erase" /\ sector = 0 /\ sector' = 1 /\ scratch' = scratch
        /\ rec' = rec /\ result' = result /\ flash' = AfterErase /\ attempt' = attempt
    BY <1>t, <1>0, <1>1 DEF EraseSector, compaction, TypeOK
  <2>2. \A o \in Offsets : flash'[o] = Blank
    BY <1>0, <2>1 DEF AfterErase, Filled
  <2>3. ScratchIsWhole'
    BY <1>0, <2>1 DEF ScratchIsWhole, InScratch, WholeRecords
  <2>4. after' = "none"
    BY <1>t, <2>1 DEF NothingIsLeftOver
  <2> QED BY <1>0, <2>1, <2>2, <2>3, <2>4 DEF LogInv, IdleOK, LoadOK, AppendOK,
             ScanOK, EraseOK, WriteOK, CompactOK, CallOK
<1>2. CASE Erased
  <2>1. /\ pc' = "program" /\ at' = 0 /\ todo' = scratch /\ after' = "compacted"
        /\ scratch' = scratch /\ rec' = rec /\ result' = result /\ flash' = flash
        /\ sector = 1
    BY <1>0, <1>2 DEF Erased, Program, compaction, ScratchHolds
  <2>2. \A o \in Offsets : flash[o] = Blank /\ ~(o < 0)
    BY <2>1, <1>0, SizesAssumption DEF LogInv, EraseOK, Offsets
  <2>3. ScratchIsWhole'
    BY <1>0, <2>1 DEF ScratchIsWhole, InScratch, WholeRecords
  <2>4. Len(scratch) \in Nat /\ \A i \in 1 .. Len(scratch) : 0 + i = i
    BY <1>t DEF TypeOK
  <2>5. CompactOK'
    BY <2>1, <2>2, <2>3, <2>4 DEF CompactOK
  <2> QED BY <1>0, <2>1, <2>5 DEF LogInv, IdleOK, LoadOK, AppendOK,
             ScanOK, EraseOK, WriteOK, CallOK
<1> QED BY <1>1, <1>2

\* The next word of a compaction goes on an erased word.
LEMMA CompactWord ==
  ASSUME StoreInv, LogInv, after = "compacted", todo # <<>>
  PROVE  /\ at \in Nat /\ at \in Offsets /\ at + 1 <= Len(scratch)
         /\ Len(Tail(todo)) = Len(todo) - 1 /\ Len(todo) \in Nat
         /\ \A i \in 1 .. Len(Tail(todo)) : Tail(todo)[i] = todo[i + 1]
         /\ flash[at] = Blank
         /\ AfterWord = [flash EXCEPT ![at] = scratch[at + 1]]
<1>t. TypeOK
  BY DEF StoreInv
<1>0. /\ at \in Nat /\ at <= Len(scratch) /\ Len(scratch) <= StoreWords
      /\ StoreWords \in Nat /\ todo \in Seq(Cells) /\ Len(scratch) \in Nat
      /\ at + Len(todo) = Len(scratch)
      /\ \A i \in 1 .. Len(todo) : todo[i] = scratch[at + i]
      /\ \A o \in Offsets : flash[o] = IF o < at THEN scratch[o + 1] ELSE Blank
  BY <1>t, CompactHeads, SizesAssumption DEF TypeOK, LogInv, CompactOK
<1>1. /\ Len(todo) \in Nat /\ Len(todo) > 0 /\ Len(Tail(todo)) = Len(todo) - 1
      /\ \A i \in 1 .. Len(Tail(todo)) : Tail(todo)[i] = todo[i + 1]
      /\ Head(todo) = todo[1]
  BY <1>0
<1>2. at + 1 <= Len(scratch) /\ at \in Offsets
  BY <1>0, <1>1 DEF Offsets
<1>3. flash[at] = Blank
  BY <1>0, <1>2
<1>4. Head(todo) = scratch[at + 1]
  BY <1>0, <1>1
<1>5. AfterWord = [flash EXCEPT ![at] = scratch[at + 1]]
  BY <1>3, <1>4 DEF AfterWord, Programmed
<1> QED BY <1>0, <1>1, <1>2, <1>3, <1>5

\* The words of a compaction go to the flash.
LEMMA CompactWordStep ==
  ASSUME StoreInv, StoreInv', LogInv, ProgramWord, after = "compacted"
  PROVE  LogInv'
<1>t. TypeOK /\ TypeOK'
  BY DEF StoreInv
<1>0. /\ pc = "program" /\ pc' = pc /\ after' = after /\ rec' = rec /\ state' = state
      /\ storeEnd' = storeEnd /\ at' = at + 1 /\ todo' = Tail(todo)
      /\ todo # <<>> /\ flash' = AfterWord /\ result' = result /\ scratch' = scratch
  BY DEF ProgramWord, ram, compaction
<1>1. /\ at \in Nat /\ at \in Offsets /\ at + 1 <= Len(scratch)
      /\ Len(Tail(todo)) = Len(todo) - 1 /\ Len(todo) \in Nat
      /\ \A i \in 1 .. Len(Tail(todo)) : Tail(todo)[i] = todo[i + 1]
      /\ AfterWord = [flash EXCEPT ![at] = scratch[at + 1]]
  BY <1>0, CompactWord
<1>2. /\ ScratchIsWhole /\ at + Len(todo) = Len(scratch)
      /\ \A i \in 1 .. Len(todo) : todo[i] = scratch[at + i]
      /\ \A o \in Offsets : flash[o] = IF o < at THEN scratch[o + 1] ELSE Blank
  BY DEF LogInv, CompactOK
<1>3. ScratchIsWhole'
  BY <1>0, <1>2 DEF ScratchIsWhole, InScratch, WholeRecords
<1>4. at' + Len(todo') = Len(scratch')
  BY <1>0, <1>1, <1>2
<1>5. ASSUME NEW i \in 1 .. Len(todo') PROVE todo'[i] = scratch'[at' + i]
  <2>1. i + 1 \in 1 .. Len(todo) /\ at + (i + 1) = at' + i
    BY <1>0, <1>1
  <2> QED BY <1>0, <1>1, <1>2, <2>1
<1>6. ASSUME NEW o \in Offsets
      PROVE  flash'[o] = IF o < at' THEN scratch'[o + 1] ELSE Blank
  <2>1. o \in Nat
    BY DEF Offsets
  <2>2. CASE o = at
    <3>1. flash'[o] = scratch[at + 1] /\ o < at'
      BY <1>t, <1>0, <1>1, <2>1, <2>2 DEF TypeOK
    <3> QED BY <1>0, <2>2, <3>1
  <2>3. CASE o # at
    <3>1. flash'[o] = flash[o] /\ (o < at' <=> o < at)
      BY <1>t, <1>0, <1>1, <2>1, <2>3 DEF TypeOK
    <3> QED BY <1>0, <1>2, <3>1
  <2> QED BY <2>2, <2>3
<1>7. CompactOK'
  BY <1>3, <1>4, <1>5, <1>6 DEF CompactOK
<1>8. result' = "none" /\ (rec'.type = "STATE" => rec'.state = state')
  BY <1>0 DEF LogInv, CallOK
<1> QED BY <1>0, <1>7, <1>8 DEF LogInv, IdleOK, LoadOK, AppendOK, ScanOK,
           EraseOK, WriteOK, CallOK

\* The payload is there, the header follows.
LEMMA PayloadStep ==
  ASSUME StoreInv, StoreInv', LogInv, PayloadWritten
  PROVE  LogInv'
<1>t. TypeOK /\ TypeOK'
  BY DEF StoreInv
<1>0. /\ pc' = "program" /\ after = "payload" /\ after' = "header" /\ todo = <<>>
      /\ flash' = flash /\ storeEnd' = storeEnd /\ rec' = rec /\ state' = state
      /\ result' = result /\ at' = storeEnd /\ todo' = Header(rec) /\ pc = "program"
  BY DEF PayloadWritten, Written, Program, ram
<1>1. PICK e \in 0 .. StoreWords : e = storeEnd
  BY <1>t DEF TypeOK
<1>2. /\ rec \in Records /\ Size(rec) \in Nat /\ Size(rec) > 1 /\ e \in Nat
      /\ StoreWords \in Nat /\ e + Size(rec) <= StoreWords /\ at \in Nat
  BY <1>t, <1>0, <1>1, SizeType, SizesAssumption DEF TypeOK, StoreInv, RecordHasItsPlace
<1>3. /\ LogIs(e) /\ at = e + Size(rec)
      /\ \A o \in e .. e + Size(rec) - 1 :
           flash[o] = IF HasWord(o) THEN <<rec, o - e + 1>> ELSE Blank
  <2>1. ~HeaderIsWritten /\ WritingTo = e + Size(rec) /\ Len(todo) = 0
    BY <1>0, <1>1 DEF HeaderIsWritten, WritingTo
  <2>2. at + 0 = e + Size(rec)
    BY <1>0, <2>1 DEF LogInv, WriteOK
  <2> QED BY <1>0, <1>1, <1>2, <2>1, <2>2 DEF LogInv, WriteOK
<1>4. LogIs(e)'
  BY <1>t, <1>0, <1>3, FlashKept
<1>5. Size(rec) <= StoreWords
  BY <1>2
<1>6. Len(Header(rec)) = HeaderWords
  BY <1>2, <1>5, PartsType
<1>7. ASSUME NEW i \in 1 .. Len(todo') PROVE todo'[i] = <<rec, at' - storeEnd + i>>
  <2>1. i \in 1 .. HeaderWords /\ at' - storeEnd + i = i
    BY <1>0, <1>1, <1>2, <1>6
  <2>2. Header(rec)[i] = <<rec, i>>
    BY <1>2, <1>5, <2>1, WordsAre
  <2> QED BY <1>0, <2>1, <2>2
<1>8. ASSUME NEW o \in e .. e + Size(rec) - 1
      PROVE  flash'[o] = IF HasWord(o)' THEN <<rec, o - e + 1>> ELSE Blank
  <2>1. HasWord(o)' <=> HasWord(o)
    BY <1>0, <1>1, <1>2, <1>3 DEF HasWord
  <2> QED BY <1>0, <1>3, <2>1
<1>9. HeaderIsWritten' = FALSE /\ WritingFrom' = at' /\ at' + Len(todo') = WritingTo'
      /\ at' <= at'
  BY <1>0, <1>1, <1>2, <1>6 DEF HeaderIsWritten, WritingFrom, WritingTo
<1>10. WriteOK'
  BY <1>0, <1>1, <1>4, <1>7, <1>8, <1>9 DEF WriteOK
<1>11. result' = "none" /\ (rec'.type = "STATE" => rec'.state = state')
  BY <1>0 DEF LogInv, CallOK
<1> QED BY <1>0, <1>10, <1>11 DEF LogInv, IdleOK, LoadOK, AppendOK, ScanOK,
           EraseOK, CompactOK, CallOK

\* The record that was written is the latest one of its kind.
LEMMA WrittenRecord ==
  ASSUME StoreInv, LogInv, after = "header", todo = <<>>,
         NEW e \in 0 .. StoreWords, e = storeEnd
  PROVE  /\ LogIs(storeEnd + Size(rec)) /\ storeEnd + Size(rec) \in 0 .. StoreWords
         /\ e \in Heads /\ RecordAt(e) = rec
         /\ IF rec.type = "STATE" THEN StoredState = rec.state
                                  ELSE Item(rec.id) = rec.value
<1>t. TypeOK
  BY DEF StoreInv
<1>1. /\ rec \in Records /\ Size(rec) \in Nat /\ Size(rec) > 1 /\ e \in Nat
      /\ StoreWords \in Nat /\ e + Size(rec) <= StoreWords /\ at \in Nat
  BY <1>t, SizeType, SizesAssumption DEF TypeOK, StoreInv, RecordHasItsPlace
<1>2. at = e + HeaderWords
  <2>1. WritingTo = e + HeaderWords /\ Len(todo) = 0
    BY DEF WritingTo
  <2>2. at + 0 = e + HeaderWords
    BY <2>1 DEF LogInv, WriteOK
  <2> QED BY <1>1, <2>2
<1>3. LogIs(storeEnd + Size(rec))
  BY <1>2 DEF LogInv, WriteOK, HeaderIsWritten
<1>4. ASSUME NEW i \in 1 .. Size(rec) PROVE flash[e + i - 1] = <<rec, i>>
  <2>1. PICK o \in e .. e + Size(rec) - 1 : o = e + i - 1 /\ o - e + 1 = i
    BY <1>1
  <2>3. HasWord(o)
    BY <1>1, <1>2, <2>1 DEF HasWord
  <2>2. \A p \in e .. e + Size(rec) - 1 :
           flash[p] = IF HasWord(p) THEN <<rec, p - e + 1>> ELSE Blank
    BY DEF LogInv, WriteOK
  <2>4. flash[o] = <<rec, i>>
    BY <2>1, <2>2, <2>3
  <2> QED BY <2>1, <2>4
<1>5. flash[e] = <<rec, 1>>
  <2>1. 1 \in 1 .. Size(rec) /\ e + 1 - 1 = e
    BY <1>1
  <2> QED BY <1>4, <2>1
<1>6. e \in Heads /\ RecordAt(e) = rec
  <2>1. 1 \in 1 .. StoreWords /\ e \in Offsets /\ e + HeaderWords <= StoreWords
    BY <1>1 DEF Offsets
  <2>2. flash[e] \notin {Blank, Garbage}
    BY <1>1, <1>5, <2>1, WordIsNeither
  <2>3. flash[e][1] = rec
    BY <1>5
  <2> QED BY <1>1, <1>4, <2>1, <2>2, <2>3 DEF Heads, Readable, RecordAt
<1>7. PICK e2 \in 0 .. StoreWords : e2 = storeEnd + Size(rec)
  BY <1>1
<1>8. LogIs(e2)
  BY <1>3, <1>7
<1>9. ASSUME NEW p \in Heads PROVE p <= e
  <2>1. p < e2 /\ p \in Nat /\ p \in Offsets /\ First(p)
    BY <1>t, <1>8, NextHead, HeadFacts
  <2>2. e < p => EndOf(e) <= p
    BY <1>t, <1>6, <2>1, HeadsApart
  <2>3. EndOf(e) = e2
    BY <1>6, <1>7 DEF EndOf
  <2> QED BY <1>1, <1>7, <2>1, <2>2, <2>3
<1>10. CASE rec.type = "STATE"
  <2>1. LatestState(e)
    BY <1>6, <1>9, <1>10 DEF LatestState, IsState
  <2> QED BY <1>t, <1>1, <1>3, <1>6, <1>8, <1>10, <2>1, LogFactsHold DEF LogFacts
<1>11. CASE rec.type # "STATE"
  <2>1. IsItem(rec, rec.id)
    BY <1>1, <1>11, RecordIs DEF IsItem
  <2>2. LatestOf(e, rec.id)
    BY <1>6, <1>9, <2>1 DEF LatestOf
  <2> QED BY <1>t, <1>1, <1>3, <1>6, <1>8, <1>11, <2>2, LogFactsHold DEF LogFacts
<1> QED BY <1>10, <1>11

\* write_record returns, and the store ends behind the record.
LEMMA RecordWrittenStep ==
  ASSUME StoreInv, StoreInv', LogInv, RecordWritten
  PROVE  LogInv'
<1>t. TypeOK /\ TypeOK'
  BY DEF StoreInv
<1>0. /\ after = "header" /\ todo = <<>> /\ flash' = flash /\ rec' = rec
      /\ storeEnd' = storeEnd + Size(rec) /\ Return("OK")
  BY DEF RecordWritten, Written
<1>1. PICK e \in 0 .. StoreWords : e = storeEnd
  BY <1>t DEF TypeOK
<1>2. /\ LogIs(storeEnd + Size(rec)) /\ storeEnd + Size(rec) \in 0 .. StoreWords
      /\ IF rec.type = "STATE" THEN StoredState = rec.state ELSE Item(rec.id) = rec.value
  BY <1>0, <1>1, WrittenRecord
<1>3. PICK e2 \in 0 .. StoreWords : e2 = storeEnd + Size(rec)
  BY <1>2
<1>4. LogIs(e2)' /\ StoredState' = StoredState /\ \A id : Item(id)' = Item(id)
  <2>1. LogIs(e2)
    BY <1>2, <1>3
  <2> QED BY <1>t, <1>0, <2>1, FlashKept
<1>5. LogIs(storeEnd)'
  BY <1>0, <1>3, <1>4
<1>6. OkMeansStored'
  <2>1. PICK id : id = rec.id
    OBVIOUS
  <2>2. rec.type # "STATE" => Item(id)' = rec.value
    BY <1>2, <1>4, <2>1
  <2> QED BY <1>0, <1>2, <1>4, <2>1, <2>2 DEF OkMeansStored
<1>7. pc' = "idle" /\ result' = "OK" /\ after' = "none" /\ attempt' = 0
  BY <1>0 DEF Return, Forget
<1> QED BY <1>5, <1>6, <1>7 DEF LogInv, IdleOK, LoadOK, AppendOK, ScanOK, EraseOK,
           WriteOK, CompactOK, CallOK, NoSpaceMeansFull

\* At the end of a compaction everything that was copied is back.
LEMMA AllIsBack ==
  ASSUME StoreInv, LogInv, after = "compacted", todo = <<>>,
         NEW n \in 0 .. StoreWords, n = Len(scratch)
  PROVE  /\ at = n /\ LogIs(n) /\ StoredState = state
         /\ \A r \in InScratch : \E o \in Heads : RecordAt(o) = r
<1>t. TypeOK
  BY DEF StoreInv
<1>0. /\ ScratchIsWhole /\ CopiedTo(scratch, at) /\ at \in Nat
      /\ scratch \in Seq(Cells) /\ Len(scratch) \in Nat /\ Len(scratch) <= StoreWords
      /\ StoreWords \in Nat
  BY <1>t, CompactHeads, SizesAssumption DEF TypeOK
<1>1. at = n
  <2>1. Len(todo) = 0
    OBVIOUS
  <2>2. at + 0 = Len(scratch)
    BY <2>1 DEF LogInv, CompactOK
  <2> QED BY <1>0, <2>2
<1>2. LogIs(n)
  <2>1. EndsIn(scratch, n, n)
    BY DEF EndsIn
  <2>2. WholeRecords(scratch) /\ CopiedTo(scratch, n) /\ n <= Len(scratch)
    BY <1>0, <1>1 DEF ScratchIsWhole
  <2> QED BY <1>t, <1>0, <2>1, <2>2, CopyLogHolds DEF CopyIsLog
<1>3. ASSUME NEW r \in Records, NEW b \in Nat, RecordIn(scratch, b, r)
      PROVE  b \in Heads /\ RecordAt(b) = r
  <2>1. Size(r) \in Nat /\ Size(r) > 1
    BY SizeType
  <2>2. b \in Offsets /\ b + Size(r) <= at
    BY <1>0, <1>1, <1>3, <2>1 DEF RecordIn, Offsets
  <2> QED BY <1>3, <2>2, CompactHeads
<1>4. ASSUME NEW r \in InScratch PROVE \E o \in Heads : RecordAt(o) = r
  <2>1. r \in Records /\ \E b \in 0 .. Len(scratch) - 1 : RecordIn(scratch, b, r)
    BY <1>t, <1>0, ScratchRecord DEF ScratchIsWhole
  <2> QED BY <1>3, <2>1
<1>5. StoredState = state
  <2>1. RecordIn(scratch, 0, StateRecord(state)) /\ StateRecord(state) \in Records
    BY <1>t, <1>0, StateRecordType DEF ScratchIsWhole, TypeOK
  <2>2. 0 \in Heads
    BY <1>3, <2>1
  <2> QED BY <2>2, CompactValues
<1> QED BY <1>1, <1>2, <1>4, <1>5

\* compact returns: the log has what has to be kept, and nothing else.
LEMMA CompactedStep ==
  ASSUME StoreInv, StoreInv', LogInv, Compacted
  PROVE  LogInv'
<1>t. TypeOK /\ TypeOK' /\ NothingIsLeftOver'
  BY DEF StoreInv
<1>0. /\ pc = "program" /\ pc' = "append" /\ after = "compacted" /\ todo = <<>>
      /\ storeEnd' = Len(scratch) /\ flash' = flash /\ state' = state /\ rec' = rec
      /\ result' = result
  BY DEF Compacted, Written, EndOfCompacted
<1>1. PICK n \in 0 .. StoreWords : n = Len(scratch)
  BY <1>t, <1>0 DEF TypeOK
<1>2. /\ at = n /\ LogIs(n) /\ StoredState = state
      /\ \A r \in InScratch : \E o \in Heads : RecordAt(o) = r
  BY <1>0, <1>1, AllIsBack
<1>3. /\ LogIs(n)' /\ StoredState' = StoredState /\ \A id : Item(id)' = Item(id)
  BY <1>t, <1>0, <1>2, FlashKept
<1>4. LogIs(storeEnd)'
  BY <1>0, <1>1, <1>3
<1>5. LiveRecords' = LiveRecords
  BY <1>0, <1>3 DEF LiveRecords
<1>6. /\ ScratchIsWhole /\ n \in Nat /\ scratch \in Seq(Cells)
      /\ \A o \in Offsets : flash[o] = IF o < n THEN scratch[o + 1] ELSE Blank
  BY <1>t, <1>0, <1>2, CompactHeads, SizesAssumption DEF TypeOK, LogInv, CompactOK
<1>7. ASSUME NEW o \in 0 .. n - 1
      PROVE  o \in Nat /\ o + 1 \in 1 .. Len(scratch) /\ flash[o] = scratch[o + 1]
  <2>1. o \in Offsets /\ o < n
    BY <1>6, SizesAssumption DEF Offsets
  <2> QED BY <1>1, <1>6, <2>1
<1>8. \A o, p \in 0 .. n - 1 : flash[o] = flash[p] => o = p
  <2> SUFFICES ASSUME NEW o \in 0 .. n - 1, NEW p \in 0 .. n - 1, flash[o] = flash[p]
               PROVE  o = p
    OBVIOUS
  <2>1. scratch[o + 1] = scratch[p + 1]
    BY <1>7
  <2>2. o + 1 = p + 1
    BY <1>6, <1>7, <2>1 DEF ScratchIsWhole
  <2> QED BY <1>7, <2>2
<1>9. ASSUME NEW o \in 0 .. n - 1 PROVE flash[o][1] \in LiveRecords
  <2>1. PICK r \in InScratch : r = flash[o][1]
    BY <1>6, <1>7 DEF InScratch
  <2>2. PICK p \in Heads : RecordAt(p) = r
    BY <1>2
  <2>3. /\ r \in Records
        /\ r.type = "STATE" => r = StateRecord(state)
        /\ r.type = "ITEM" => r.value # NoValue
    BY <1>6 DEF ScratchIsWhole
  <2>4. CASE r.type = "STATE"
    BY <2>1, <2>3, <2>4 DEF LiveRecords
  <2>5. CASE r.type = "ITEM"
    <3>1. IsItem(RecordAt(p), r.id)
      BY <2>2, <2>5 DEF IsItem
    <3>2. Item(r.id) = r.value
      BY <1>0, <2>2, <3>1, CompactValues
    <3>3. r = ItemRecord(r.id, Item(r.id)) /\ r.id \in Ids /\ Item(r.id) # NoValue
      BY <2>3, <2>5, <3>2, RecordIs
    <3> QED BY <2>1, <3>3 DEF LiveRecords
  <2> QED BY <2>3, <2>4, <2>5, RecordIs
<1>10. Packed'
  <2>1. \A o \in Offsets : n <= o => flash[o] = Blank
    BY <1>6 DEF Offsets
  <2> QED BY <1>0, <1>1, <1>2, <1>3, <1>5, <1>8, <1>9, <2>1 DEF Packed
<1>11. result' = "none" /\ (rec'.type = "STATE" => rec'.state = state')
  BY <1>0 DEF LogInv, CallOK
<1>12. after' = "none"
  BY <1>t, <1>0 DEF NothingIsLeftOver
<1> QED BY <1>0, <1>4, <1>10, <1>11, <1>12 DEF LogInv, IdleOK, LoadOK, AppendOK,
           ScanOK, EraseOK, WriteOK, CompactOK, CallOK

\* Whatever is interrupted, the flash has a log.
LEMMA LogExists ==
  ASSUME StoreInv, LogInv
  PROVE  \E e \in 0 .. StoreWords : LogIs(e)
<1>t. TypeOK /\ NothingIsLeftOver
  BY DEF StoreInv
<1>0. storeEnd \in 0 .. StoreWords /\ StoreWords \in Nat
  BY <1>t, SizesAssumption DEF TypeOK
<1>1. CASE pc \in {"idle", "load", "append", "scan"}
  BY <1>0, <1>1 DEF LogInv, IdleOK, LoadOK, AppendOK, ScanOK
<1>2. CASE pc = "erase"
  <2>1. CASE sector = 0
    BY <1>0, <1>2, <2>1 DEF LogInv, EraseOK
  <2>2. CASE sector # 0
    <3>1. LogIs(0) /\ 0 \in 0 .. StoreWords
      BY <1>t, <1>0, <1>2, <2>2, EmptyLogHolds DEF LogInv, EraseOK, EmptyLog
    <3> QED BY <3>1
  <2> QED BY <2>1, <2>2
<1>3. CASE pc = "program"
  <2>1. CASE after = "compacted"
    BY <2>1, CompactLog
  <2>2. CASE after \in {"payload", "header"}
    <3>1. storeEnd + Size(rec) \in 0 .. StoreWords
      <4>1. Size(rec) \in Nat /\ storeEnd + Size(rec) <= StoreWords
        BY <1>t, <2>2, SizeType DEF TypeOK, StoreInv, RecordHasItsPlace
      <4> QED BY <1>0, <4>1
    <3>2. LogIs(IF HeaderIsWritten THEN storeEnd + Size(rec) ELSE storeEnd)
      BY <2>2 DEF LogInv, WriteOK
    <3> QED BY <1>0, <3>1, <3>2
  <2> QED BY <1>t, <1>3, <2>1, <2>2 DEF TypeOK, LogInv, CallOK
<1> QED BY <1>t, <1>1, <1>2, <1>3 DEF TypeOK

\* A power cut leaves a log: that of before, with what was stored in it, or an
\* empty one when it happens in the erase.
LEMMA CutLog ==
  ASSUME OneSector, StoreInv, StoreInv', LogInv, PowerCut
  PROVE  /\ \E e \in 0 .. StoreWords : LogIs(e)'
         /\ \/ StoredState' = StoredState /\ \A id : Item(id)' = Item(id)
            \/ /\ pc = "erase"
               /\ StoredState' = NoState /\ \A id : Item(id)' = NoValue
<1>t. TypeOK /\ TypeOK' /\ NothingIsLeftOver
  BY DEF StoreInv
<1>0. StoreWords \in Nat /\ storeEnd \in 0 .. StoreWords
  BY <1>t, SizesAssumption DEF TypeOK
<1>1. CASE flash' = flash
  <2>1. PICK e \in 0 .. StoreWords : LogIs(e)
    BY LogExists
  <2> QED BY <1>t, <1>1, <2>1, FlashKept
<1>2. CASE flash' = Spoilt /\ Erasing
  <2>1. sector = 0 /\ SectorOf(0) = Offsets /\ pc = "erase"
    BY <1>t, <1>2, OneSectorFacts DEF Erasing, TypeOK
  <2>2. \A o \in Offsets : flash'[o] = Garbage
    <3>1. flash' = Filled(SectorOf(sector), Garbage)
      BY <1>2, <2>1 DEF Spoilt, Programming
    <3>2. flash' = Filled(Offsets, Garbage)
      BY <2>1, <3>1
    <3> QED BY <3>2 DEF Filled
  <2>3. LogIs(0)' /\ 0 \in 0 .. StoreWords
    BY <1>t, <1>0, <2>2, NextLog DEF EmptyLog
  <2>4. PICK e \in 0 .. StoreWords : e = 0
    BY <1>0
  <2>5. LogIs(e)'
    BY <2>3, <2>4
  <2>6. HeadsAreApart' /\ LogFacts'
    BY <1>t, NextFacts
  <2>7. Heads' = {}
    BY <2>2, <2>6 DEF HeadsAreApart, First
  <2> QED BY <2>1, <2>5, <2>6, <2>7 DEF LogFacts
<1>3. CASE flash' = Spoilt /\ Programming
  <2>1. flash' = Filled({at}, Garbage) /\ pc = "program" /\ todo # <<>>
    BY <1>3 DEF Spoilt, Erasing, Programming
  <2>2. CASE after \in {"payload", "header"}
    <3>1. PICK e \in 0 .. StoreWords : e = storeEnd
      BY <1>0
    <3>2. flash' # AfterWord
      <4>1. /\ AfterWord = [flash EXCEPT ![at] = <<rec, at - e + 1>>] /\ at \in Offsets
            /\ rec \in Records /\ at - e + 1 \in 1 .. StoreWords
        <5>1. /\ AfterWord = [flash EXCEPT ![at] = <<rec, at - e + 1>>] /\ at \in Offsets
              /\ rec \in Records /\ at \in Nat /\ e <= at
          BY <2>1, <2>2, <3>1, WriteWord
        <5> QED BY <1>0, <5>1 DEF Offsets
      <4>2. AfterWord[at] = <<rec, at - e + 1>> /\ flash'[at] = Garbage
        BY <1>t, <2>1, <4>1 DEF Filled, TypeOK
      <4> QED BY <4>1, <4>2, WordIsNeither
    <3> QED BY <2>1, <2>2, <3>1, <3>2, WriteUnseen
  <2>3. CASE after = "compacted"
    <3>1. PICK e \in 0 .. StoreWords : EndsIn(scratch, at, e) /\ LogIs(e)
      BY <2>3, CompactLog
    <3>2. /\ at \in 0 .. StoreWords /\ at \in Nat /\ at <= Len(scratch) /\ scratch \in Seq(Cells)
          /\ WholeRecords(scratch) /\ CopiedTo(scratch, at) /\ Len(scratch) <= StoreWords
          /\ Len(scratch) \in Nat
      BY <1>t, <1>0, <2>3, CompactHeads DEF TypeOK, ScratchIsWhole
    <3>3. e <= at
      BY <3>1, <3>2 DEF EndsIn
    <3>4. \A o \in Offsets : flash'[o] = IF o = at THEN Garbage ELSE flash[o]
      BY <2>1 DEF Filled
    <3>5. \A o \in Offsets : o < at => o # at
      BY <3>2 DEF Offsets
    <3>6. \A o \in Offsets : IF o < at THEN flash'[o] = scratch[o + 1]
                                       ELSE flash'[o] \in {Blank, Garbage}
      BY <3>2, <3>4, <3>5 DEF CopiedTo
    <3>7. PICK n \in 0 .. StoreWords : n = at
      BY <3>2
    <3>8. PICK s \in Seq(Cells) : s = scratch
      BY <3>2
    <3>9. LogIs(e)'
      <4>1. CopyIsLog'
        BY <1>t, NextLog
      <4>2. CopiedTo(s, n)'
        BY <3>6, <3>7, <3>8 DEF CopiedTo
      <4>3. WholeRecords(s) /\ EndsIn(s, n, e) /\ Len(s) <= StoreWords /\ n <= Len(s)
        BY <3>1, <3>2, <3>7, <3>8
      <4> QED BY <4>1, <4>2, <4>3 DEF CopyIsLog
    <3>10. \A o \in 0 .. e - 1 : flash'[o] = flash[o]
      BY <1>0, <3>2, <3>3, <3>4 DEF Offsets
    <3>11. Readable(e)' = FALSE
      BY <3>9 DEF LogIs
    <3>12. \A o \in Offsets : First(o)' => o <= e
      BY <3>9 DEF LogIs
    <3> QED BY <1>t, <3>1, <3>10, <3>11, <3>12, LogKept
  <2> QED BY <1>t, <2>1, <2>2, <2>3 DEF TypeOK, LogInv, CallOK
<1> QED BY <1>1, <1>2, <1>3 DEF PowerCut, Spoilt

\* dmsel_init reads the log from its first record on.
LEMMA PowerCutStep ==
  ASSUME OneSector, StoreInv, StoreInv', LogInv, PowerCut
  PROVE  LogInv'
<1>t. TypeOK /\ TypeOK' /\ NothingIsLeftOver'
  BY DEF StoreInv
<1>0. /\ pc' = "load" /\ state' = BlankState /\ storeEnd' = 0 /\ attempt' = 0 /\ off' = 0
      /\ result' = "none" /\ after' = "none"
  BY DEF PowerCut, Forget
<1>1. PICK e \in 0 .. StoreWords : LogIs(e)'
  BY CutLog
<1>2. 0 \in Heads' \cup {e}
  <2>1. CASE e # 0
    <3>1. 0 \in 0 .. e - 1 /\ StoreWords \in Nat
      BY <2>1, SizesAssumption
    <3>2. PICK p \in Heads' : p <= 0
      BY <1>1, <3>1 DEF LogIs, Whole
    <3>3. p = 0
      BY <3>1, <3>2 DEF Heads, Offsets
    <3> QED BY <3>2, <3>3
  <2> QED BY <2>1
<1>3. \A o \in Heads' : ~(o < off')
  BY <1>0 DEF Heads, Offsets
<1>4. LoadOK'
  BY <1>0, <1>1, <1>2, <1>3 DEF LoadOK, StateIsRead
<1> QED BY <1>0, <1>4 DEF LogInv, IdleOK, AppendOK, ScanOK, EraseOK, WriteOK,
           CompactOK, CallOK

\* A step that changes nothing.
LEMMA LogInvStutter ==
  ASSUME StoreInv, StoreInv', LogInv, UNCHANGED vars
  PROVE  LogInv'
<1>0. /\ flash' = flash /\ state' = state /\ storeEnd' = storeEnd /\ pc' = pc /\ rec' = rec
      /\ attempt' = attempt /\ off' = off /\ scratch' = scratch /\ sector' = sector
      /\ at' = at /\ todo' = todo /\ after' = after /\ result' = result
  BY DEF vars
<1>1. PICK e \in 0 .. StoreWords : LogIs(e)
  BY LogExists
<1>2. /\ Heads' = Heads /\ \A o \in Heads : RecordAt(o)' = RecordAt(o)
      /\ StoredState' = StoredState /\ \A id : Item(id)' = Item(id)
  BY <1>0, <1>1, FlashKept DEF StoreInv
<1>3. \A n : LogIs(n)' <=> LogIs(n)
  BY <1>0, <1>2 DEF LogIs, Whole, Readable, First, EndOf, RecordAt
<1>4. LiveRecords' = LiveRecords
  BY <1>0, <1>2 DEF LiveRecords
<1>5. IdleOK'
  BY <1>0, <1>2, <1>3, <1>4 DEF LogInv, IdleOK, OkMeansStored, NoSpaceMeansFull, LiveWords
<1>6. LoadOK'
  BY <1>0, <1>2, <1>3 DEF LogInv, LoadOK, StateIsRead, IsState
<1>7. AppendOK'
  BY <1>0, <1>2, <1>3, <1>4 DEF LogInv, AppendOK, Packed
<1>8. ScratchIsWhole' <=> ScratchIsWhole
  BY <1>0 DEF ScratchIsWhole, WholeRecords, InScratch
<1>9. \A n : ItemsAreCopied(n)' <=> ItemsAreCopied(n)
  BY <1>0, <1>2 DEF ItemsAreCopied, LatestOf, InScratch
<1>10. ScanOK' /\ EraseOK'
  BY <1>0, <1>2, <1>3, <1>8, <1>9 DEF LogInv, ScanOK, EraseOK
<1>11. WriteOK'
  BY <1>0, <1>3 DEF LogInv, WriteOK, HeaderIsWritten, HasWord, WritingFrom, WritingTo
<1>12. CompactOK' /\ CallOK'
  BY <1>0, <1>8 DEF LogInv, CompactOK, CallOK
<1> QED BY <1>5, <1>6, <1>7, <1>10, <1>11, <1>12 DEF LogInv

\* In a store of one sector, on a flash that does not fail, the invariant holds
\* as long as no compaction overflows the scratch memory.
LEMMA LogInvStep ==
  ASSUME OneSector, StoreInv, StoreInv', ScratchHolds, LogInv, [Next]_vars
  PROVE  LogInv'
<1>1. CASE UNCHANGED vars
  BY <1>1, LogInvStutter
<1>2. CASE ProgramWord
  <2>1. after \in {"payload", "header", "compacted"}
    BY <1>2 DEF ProgramWord, StoreInv, TypeOK, LogInv, CallOK
  <2> QED BY <1>2, <2>1, WriteWordStep, CompactWordStep
<1>3. ~Fail
  BY DEF Fail, OneSector
<1> QED BY <1>1, <1>2, <1>3, CallSteps, LoadSteps, StartWriteStep, StartCompactionStep,
           NoSpaceStep, ScanRecordStep, ScanEndStep, EraseSteps, PayloadStep,
           RecordWrittenStep, CompactedStep, PowerCutStep DEF Next, Step

\* What the invariant says of the properties.
LEMMA LogInvSays ==
  ASSUME StoreInv, LogInv
  PROVE  OkMeansStored /\ NoSpaceMeansFull /\ AppendsToTheLog
<1>t. TypeOK
  BY DEF StoreInv
<1>1. OkMeansStored /\ NoSpaceMeansFull
  BY DEF LogInv, IdleOK, OkMeansStored, NoSpaceMeansFull
<1>2. ProgramsErasedWords
  <2> SUFFICES ASSUME Programming PROVE flash[at] = Blank
    BY DEF ProgramsErasedWords
  <2>1. pc = "program" /\ todo # <<>>
    BY DEF Programming
  <2>2. PICK e \in 0 .. StoreWords : e = storeEnd
    BY <1>t DEF TypeOK
  <2>3. after \in {"payload", "header"} => flash[at] = Blank
    BY <2>1, <2>2, WriteWord
  <2>4. after = "compacted" => flash[at] = Blank
    BY <2>1, CompactWord
  <2> QED BY <1>t, <2>1, <2>3, <2>4 DEF TypeOK, LogInv, CallOK
<1>3. StoreEndIsLogEnd
  <2> SUFFICES ASSUME pc = "idle" PROVE storeEnd = LogEnd
    BY DEF StoreEndIsLogEnd
  <2>1. PICK e \in 0 .. StoreWords : e = storeEnd
    BY <1>t DEF TypeOK
  <2>2. LogIs(e)
    BY <2>1 DEF LogInv, IdleOK
  <2> QED BY <1>t, <2>1, <2>2, LogFactsHold DEF LogFacts
<1> QED BY <1>1, <1>2, <1>3 DEF AppendsToTheLog

\* The invariant holds in every state, as long as the scratch memory is enough.
LEMMA LogInvHolds ==
  ASSUME OneSector PROVE Spec /\ []ScratchHolds => [](StoreInv /\ LogInv)
<1>1. StoreInv /\ StoreInv' /\ ScratchHolds /\ LogInv /\ [Next]_vars => LogInv'
  BY LogInvStep
<1>2. Init => LogInv
  BY LogInit
<1> QED BY <1>1, <1>2, InvHolds, PTL DEF Spec

\* When append and dmsel_persist_write return DMSEL_OK, the store has what they
\* were called for, also when the store was compacted on the way or an earlier
\* call was cut off by a power cut.
THEOREM WritesAreStored ==
  ASSUME OneSector PROVE Spec /\ []ScratchHolds => []OkMeansStored
<1>1. StoreInv /\ LogInv => OkMeansStored
  BY LogInvSays
<1> QED BY <1>1, LogInvHolds, PTL

\* append returns DMSEL_ERR_NOSPACE only when the record does not fit beside the
\* state and the latest values: old records never fill the store.
THEOREM OldRecordsNeverFill ==
  ASSUME OneSector PROVE Spec /\ []ScratchHolds => []NoSpaceMeansFull
<1>1. StoreInv /\ LogInv => NoSpaceMeansFull
  BY LogInvSays
<1> QED BY <1>1, LogInvHolds, PTL

\* Between the calls store_end is the end of the log in the flash, and words are
\* programmed on erased flash only, whatever interrupted calls have left.
THEOREM WritesAppendToTheLog ==
  ASSUME OneSector PROVE Spec /\ []ScratchHolds => []AppendsToTheLog
<1>1. StoreInv /\ LogInv => AppendsToTheLog
  BY LogInvSays
<1> QED BY <1>1, LogInvHolds, PTL

-----------------------------------------------------------------------------
(***************************************************************************)
(* Callers that write an item only when the store has a state record never *)
(* overflow the scratch memory: the state record that comes first in it    *)
(* takes the place of the one in the log.                                  *)
(***************************************************************************)
ItemsFollowState ==
    pc = "append" /\ attempt = 0 /\ rec.type = "ITEM" => StoredState # NoState

StateIsAhead ==
    pc = "scan" /\ ~seen /\ Heads # {} => \E o \in Heads : IsState(o) /\ off <= o
ItemsAreBehindAState ==
    after \in {"payload", "header"} /\ rec.type = "ITEM" => StoredState # NoState

StateInv ==
    /\ Heads # {} => StoredState # NoState
    /\ StateIsAhead
    /\ ItemsAreBehindAState
    /\ ScratchHolds

\* A state record in the log is one that is stored.
LEMMA StateIsStored ==
  ASSUME TypeOK, NEW e \in 0 .. StoreWords, LogIs(e)
  PROVE  StoredState # NoState <=> \E o \in Heads : IsState(o)
<1>1. LogFacts
  BY LogFactsHold
<1>2. ASSUME NEW o \in Heads, LatestState(o) PROVE StoredState # NoState
  <2>1. RecordAt(o) \in Records /\ IsState(o)
    BY <1>2, HeadFacts DEF LatestState
  <2>2. RecordAt(o).state \in States
    BY <2>1, RecordIs DEF IsState
  <2>3. StoredState = RecordAt(o).state
    BY <1>1, <1>2 DEF LogFacts
  <2> QED BY <2>2, <2>3, StatesAssumption
<1>3. (\A o \in Heads : ~IsState(o)) => StoredState = NoState
  BY <1>1 DEF LogFacts
<1> QED BY <1>2, <1>3, LatestExists DEF LatestState

\* While the log is copied back it begins with the state.
LEMMA CompactStart ==
  ASSUME StoreInv, LogInv, after = "compacted"
  PROVE  Heads # {} => StoredState # NoState
<1> SUFFICES ASSUME Heads # {} PROVE StoredState # NoState
  OBVIOUS
<1>t. TypeOK /\ StoreWords \in Nat
  BY SizesAssumption DEF StoreInv
<1>1. PICK e \in 0 .. StoreWords : LogIs(e)
  BY CompactLog
<1>2. 0 \in Heads
  <2>1. e # 0
    <3>1. PICK o \in Heads : o < e
      BY <1>t, <1>1, NextHead
    <3> QED BY <1>t, <3>1, HeadFacts
  <2> QED BY <1>t, <1>1, <2>1, NextHead
<1> QED BY <1>t, <1>2, CompactValues, StatesAssumption DEF TypeOK

\* The same in the next state.
LEMMA NextStart ==
  StoreInv' /\ LogInv' /\ after' = "compacted" /\ Heads' # {} => StoredState' # NoState
<1>1. StoreInv /\ LogInv /\ after = "compacted" /\ Heads # {} => StoredState # NoState
  BY CompactStart
<1>2. (StoreInv /\ LogInv /\ after = "compacted" /\ Heads # {} => StoredState # NoState)'
  BY <1>1, PTL
<1> QED BY <1>2

\* An empty log has its end where it begins.
LEMMA EmptyEnd ==
  ASSUME TypeOK, NEW e \in 0 .. StoreWords, LogIs(e), Heads = {}
  PROVE  e = 0
  BY NextHead

\* A log that ends where it begins is empty.
LEMMA NextEmpty ==
  ASSUME TypeOK', LogIs(0)'
  PROVE  Heads' = {}
<1>1. HeadsAreApart' /\ LogFacts' /\ 0 \in 0 .. StoreWords
  BY NextFacts, SizesAssumption
<1>2. \A o \in Heads' : o \in Offsets /\ o < 0
  BY <1>1 DEF LogFacts, HeadsAreApart
<1> QED BY <1>2 DEF Offsets

\* A compaction is not longer than the log, or than the state when the log is
\* empty.
LEMMA ScanFits ==
  ASSUME StoreInv, LogInv, StateIsAhead, pc = "scan"
  PROVE  ScratchHolds
<1>t. /\ TypeOK /\ StoreWords \in Nat /\ storeEnd \in 0 .. StoreWords
      /\ off \in 0 .. StoreWords /\ StateWords \in Nat /\ Len(scratch) \in Nat
      /\ StateSize <= StoreWords /\ StateSize \in Nat
  BY SizesAssumption DEF StoreInv, TypeOK, StateSize
<1>1. (seen => Len(scratch) <= off) /\ Len(scratch) <= off + StateSize
  BY DEF StoreInv, ScratchIsFromTheLog
<1>2. PICK e \in 0 .. StoreWords : e = storeEnd
  BY <1>t
<1>3. LogIs(e) /\ off \in Heads \cup {e}
  BY <1>2 DEF LogInv, ScanOK
<1>4. CASE seen
  BY <1>t, <1>1, <1>4 DEF ScratchHolds
<1>5. CASE ~seen /\ Heads = {}
  <2>1. off = 0
    BY <1>t, <1>3, <1>5, EmptyEnd
  <2> QED BY <1>t, <1>1, <2>1 DEF ScratchHolds
<1>6. CASE ~seen /\ Heads # {}
  <2>1. PICK o \in Heads : IsState(o) /\ off <= o
    BY <1>6 DEF StateIsAhead
  <2>2. Size(RecordAt(o)) = StateSize /\ o \in Nat /\ EndOf(o) \in 0 .. StoreWords
    BY <1>t, <2>1, HeadFacts DEF IsState, Size, StateSize
  <2>3. o + StateSize <= StoreWords
    BY <1>t, <2>2 DEF EndOf
  <2> QED BY <1>t, <1>1, <2>1, <2>2, <2>3 DEF ScratchHolds
<1> QED BY <1>4, <1>5, <1>6

\* The same in the next state.
LEMMA NextScanFits ==
  StoreInv' /\ LogInv' /\ StateIsAhead' /\ pc' = "scan" => ScratchHolds'
<1>1. StoreInv /\ LogInv /\ StateIsAhead /\ pc = "scan" => ScratchHolds
  BY ScanFits
<1>2. (StoreInv /\ LogInv /\ StateIsAhead /\ pc = "scan" => ScratchHolds)'
  BY <1>1, PTL
<1> QED BY <1>2

\* It holds after the installation.
LEMMA StateInit == Init => StateInv
<1> SUFFICES ASSUME Init PROVE StateInv
  OBVIOUS
<1>1. TypeOK
  BY InitInv DEF StoreInv
<1>2. \A o \in Offsets : ~First(o)
  BY DEF Init, First
<1>3. Heads = {}
  BY <1>1, <1>2, HeadFacts
<1> QED BY <1>3, SizesAssumption DEF Init, StateInv, StateIsAhead, ItemsAreBehindAState,
           ScratchHolds

\* The steps that leave the flash alone.
LEMMA StateKept ==
  ASSUME StoreInv, StoreInv', LogInv, LogInv', StateInv, ItemsFollowState,
         flash' = flash, [Next]_vars, ~PowerCut, ~Fail, ~ProgramWord
  PROVE  StateInv'
<1>t. /\ TypeOK /\ TypeOK' /\ NothingIsLeftOver /\ NothingIsLeftOver'
      /\ StoreWords \in Nat
  BY SizesAssumption DEF StoreInv
<1>1. PICK e \in 0 .. StoreWords : LogIs(e)
  BY LogExists
<1>2. /\ Heads' = Heads /\ \A o \in Heads : RecordAt(o)' = RecordAt(o)
      /\ StoredState' = StoredState
  BY <1>t, <1>1, FlashKept
<1>3. \A o \in Heads : IsState(o)' <=> IsState(o)
  BY <1>2 DEF IsState
<1>4. (Heads # {} => StoredState # NoState)'
  BY <1>2 DEF StateInv
<1>5. ItemsAreBehindAState'
  <2>1. CASE StartWrite
    <3>1. pc = "append" /\ rec' = rec /\ attempt \in {0, 1}
      BY <1>t, <2>1 DEF StartWrite, TypeOK
    <3>2. attempt = 1 => StoredState = state
      BY <3>1 DEF LogInv, AppendOK, Packed
    <3>3. state # NoState
      BY <1>t, StatesAssumption DEF TypeOK
    <3>4. rec.type = "ITEM" => StoredState # NoState
      BY <3>1, <3>2, <3>3 DEF ItemsFollowState
    <3> QED BY <1>2, <3>1, <3>4 DEF ItemsAreBehindAState
  <2>2. CASE PayloadWritten \/ UNCHANGED vars
    <3>1. rec' = rec /\ (after' \in {"payload", "header"} => after \in {"payload", "header"})
      BY <2>2 DEF PayloadWritten, Written, vars
    <3> QED BY <1>2, <3>1 DEF StateInv, ItemsAreBehindAState
  <2>3. CASE Erased \/ EraseSector
    <3>1. after' \notin {"payload", "header"}
      BY <1>t, <2>3 DEF Erased, EraseSector, Program, Return, Forget, programming,
         NothingIsLeftOver
    <3> QED BY <3>1 DEF ItemsAreBehindAState
  <2>4. CASE \/ Call \/ LoadRecord \/ LoadEnd \/ StartCompaction \/ NoSpace
             \/ ScanRecord \/ ScanEnd \/ RecordWritten \/ Compacted
    <3>1. pc' # "program"
      BY <2>4 DEF Call, SaveState, WriteItem, AppendRecord, LoadRecord, LoadEnd,
         StartCompaction, NoSpace, Return, ScanRecord, ScanEnd, RecordWritten, Compacted
    <3> QED BY <1>t, <3>1 DEF NothingIsLeftOver, ItemsAreBehindAState
  <2> QED BY <2>1, <2>2, <2>3, <2>4 DEF Next, Step
<1>6. StateIsAhead'
  <2>1. CASE pc' # "scan"
    BY <2>1 DEF StateIsAhead
  <2>2. CASE StartCompaction
    <3>1. off' = 0
      BY <2>2 DEF StartCompaction
    <3>2. Heads # {} => \E o \in Heads : IsState(o) /\ o \in Nat
      BY <1>t, <1>1, StateIsStored, HeadFacts DEF StateInv
    <3>3. Heads # {} => \E o \in Heads : IsState(o) /\ 0 <= o
      BY <3>2
    <3> QED BY <1>2, <1>3, <3>1, <3>3 DEF StateIsAhead
  <2>3. CASE ScanRecord
    <3>1. SUFFICES ASSUME ~seen', Heads # {}
                   PROVE  \E o \in Heads : IsState(o) /\ off' <= o
      BY <1>2, <1>3 DEF StateIsAhead
    <3>2. /\ pc = "scan" /\ Readable(off) /\ off' = EndOf(off) /\ ~seen
          /\ RecordAt(off).type # "STATE"
      BY <2>3, <3>1 DEF ScanRecord, EndOf
    <3>3. PICK o \in Heads : IsState(o) /\ off <= o
      BY <3>1, <3>2 DEF StateInv, StateIsAhead
    <3>4. PICK n \in Heads : n = off
      BY <1>t, <3>2 DEF LogInv, ScanOK, LogIs
    <3>5. o \in Nat /\ o \in Offsets /\ First(o) /\ n \in Nat
      BY <1>t, HeadFacts
    <3>6. n # o
      BY <3>2, <3>3, <3>4 DEF IsState
    <3>7. n < o
      BY <3>3, <3>4, <3>5, <3>6
    <3>8. EndOf(n) <= o
      BY <1>t, <3>5, <3>7, HeadsApart
    <3> QED BY <3>2, <3>3, <3>4, <3>8
  <2>4. CASE UNCHANGED vars
    BY <1>2, <1>3, <2>4 DEF StateInv, StateIsAhead, vars
  <2>5. CASE \/ Call \/ LoadRecord \/ LoadEnd \/ StartWrite \/ NoSpace \/ ScanEnd
             \/ EraseSector \/ Erased \/ PayloadWritten \/ RecordWritten \/ Compacted
    <3>1. pc' # "scan"
      BY <2>5 DEF Call, SaveState, WriteItem, AppendRecord, LoadRecord, LoadEnd,
         StartWrite, NoSpace, Return, ScanEnd, EraseSector, Erased, Program,
         PayloadWritten, RecordWritten, Compacted
    <3> QED BY <3>1, <2>1
  <2> QED BY <2>2, <2>3, <2>4, <2>5 DEF Next, Step
<1>7. ScratchHolds'
  <2>1. CASE pc' = "scan"
    BY <1>6, <2>1, NextScanFits
  <2>2. CASE scratch' = scratch
    BY <2>2 DEF StateInv, ScratchHolds
  <2>3. CASE scratch' = <<>>
    BY <1>t, <2>3 DEF ScratchHolds
  <2>4. pc' = "scan" \/ scratch' = scratch \/ scratch' = <<>>
    BY DEF Next, Step, Call, SaveState, WriteItem, AppendRecord, LoadRecord, LoadEnd,
       StartWrite, StartCompaction, NoSpace, Return, Forget, ScanRecord, ScanEnd,
       EraseSector, Erased, Program, PayloadWritten, RecordWritten, Compacted,
       compaction, vars
  <2> QED BY <2>1, <2>2, <2>3, <2>4
<1> QED BY <1>4, <1>5, <1>6, <1>7 DEF StateInv

\* The steps that erase or program a word.
LEMMA StateWritten ==
  ASSUME OneSector, StoreInv, StoreInv', LogInv, LogInv', StateInv,
         EraseSector \/ ProgramWord
  PROVE  StateInv'
<1>t. /\ TypeOK /\ TypeOK' /\ NothingIsLeftOver /\ NothingIsLeftOver'
      /\ StoreWords \in Nat
  BY SizesAssumption DEF StoreInv
<1>1. pc' # "scan" /\ scratch' = scratch /\ after' = after /\ rec' = rec
  BY DEF EraseSector, ProgramWord, compaction, programming
<1>2. StateIsAhead' /\ ScratchHolds'
  BY <1>1 DEF StateIsAhead, StateInv, ScratchHolds
<1>3. CASE EraseSector
  <2>1. SectorOf(sector) = Offsets /\ pc' = "erase"
    BY <1>t, <1>3, OneSectorFacts DEF EraseSector, TypeOK
  <2>2. \A o \in Offsets : flash'[o] \in {Blank, Garbage}
    BY <1>3, <2>1 DEF EraseSector, AfterErase, Filled
  <2>3. Heads' = {}
    <3>1. LogIs(0)'
      BY <1>t, <2>2, NextLog DEF EmptyLog
    <3> QED BY <1>t, <3>1, NextEmpty
  <2>4. after' = "none"
    BY <1>t, <2>1 DEF NothingIsLeftOver
  <2> QED BY <1>2, <2>3, <2>4 DEF StateInv, ItemsAreBehindAState
<1>4. CASE ProgramWord /\ after = "compacted"
  BY <1>1, <1>2, <1>4, NextStart DEF StateInv, ItemsAreBehindAState
<1>5. CASE ProgramWord /\ after \in {"payload", "header"}
  <2>1. PICK e \in 0 .. StoreWords : e = storeEnd
    BY <1>t DEF TypeOK
  <2>2. /\ LogIs(e) /\ rec \in Records /\ Size(rec) \in Nat /\ e + Size(rec) <= StoreWords
        /\ todo # <<>> /\ flash' = AfterWord
    BY <1>5, <2>1, WriteWord DEF ProgramWord
  <2>3. CASE after = "header" /\ at = storeEnd + 1
    <3>1. PICK e2 \in 0 .. StoreWords : e2 = storeEnd + Size(rec)
      BY <1>t, <2>1, <2>2
    <3>2. StoredState' = IF rec.type = "STATE" THEN rec.state ELSE StoredState
      BY <2>1, <2>2, <2>3, <3>1, WriteSeen
    <3>3. StoredState' # NoState
      <4>1. rec.type = "STATE" => rec.state # NoState
        BY <2>2, RecordIs, StatesAssumption
      <4>2. rec.type = "ITEM" => StoredState # NoState
        BY <1>5 DEF StateInv, ItemsAreBehindAState
      <4> QED BY <2>2, <3>2, <4>1, <4>2, RecordIs
    <3> QED BY <1>2, <3>3 DEF StateInv, ItemsAreBehindAState
  <2>4. CASE ~(after = "header" /\ at = storeEnd + 1)
    <3>1. LogIs(e)' /\ StoredState' = StoredState
      BY <1>5, <2>1, <2>2, <2>4, WriteUnseen
    <3>2. Heads = {} => Heads' = {}
      <4>1. Heads = {} => e = 0
        BY <1>t, <2>2, EmptyEnd
      <4>2. e = 0 => LogIs(0)'
        BY <3>1
      <4> QED BY <1>t, <4>1, <4>2, NextEmpty
    <3>3. Heads' # {} => StoredState' # NoState
      BY <3>1, <3>2 DEF StateInv
    <3> QED BY <1>1, <1>2, <3>1, <3>3 DEF StateInv, ItemsAreBehindAState
  <2> QED BY <2>3, <2>4
<1>6. ProgramWord => after \in {"payload", "header", "compacted"}
  BY <1>t DEF ProgramWord, TypeOK, LogInv, CallOK
<1> QED BY <1>3, <1>4, <1>5, <1>6

\* A power cut takes a record from the log only together with all the others.
LEMMA StateCut ==
  ASSUME OneSector, StoreInv, StoreInv', LogInv, StateInv, PowerCut
  PROVE  StateInv'
<1>t. TypeOK /\ TypeOK' /\ StoreWords \in Nat
  BY SizesAssumption DEF StoreInv
<1>1. pc' = "load" /\ scratch' = <<>> /\ after' = "none"
  BY DEF PowerCut, Forget
<1>2. CASE flash' = flash
  <2>1. PICK e \in 0 .. StoreWords : LogIs(e)
    BY LogExists
  <2>2. Heads' = Heads /\ StoredState' = StoredState
    BY <1>t, <1>2, <2>1, FlashKept
  <2> QED BY <1>t, <1>1, <2>2 DEF StateInv, StateIsAhead, ItemsAreBehindAState, ScratchHolds
<1>3. CASE Erasing /\ flash' = Spoilt
  <2>1. SectorOf(sector) = Offsets
    BY <1>t, <1>3, OneSectorFacts DEF Erasing, TypeOK
  <2>2. flash' = Filled(SectorOf(sector), Garbage)
    BY <1>3 DEF Spoilt, Erasing, Programming
  <2>3. \A o \in Offsets : flash'[o] \in {Blank, Garbage}
    BY <2>1, <2>2 DEF Filled
  <2>4. Heads' = {}
    <3>1. LogIs(0)'
      BY <1>t, <2>3, NextLog DEF EmptyLog
    <3> QED BY <1>t, <3>1, NextEmpty
  <2> QED BY <1>t, <1>1, <2>4 DEF StateInv, StateIsAhead, ItemsAreBehindAState, ScratchHolds
<1>4. CASE Programming /\ flash' = Spoilt
  <2>1. pc = "program" /\ flash' = Filled({at}, Garbage)
    BY <1>4 DEF Spoilt, Erasing, Programming
  <2>2. StoredState' = StoredState
    BY <2>1, CutLog
  <2>3. \A o \in Offsets : flash'[o] # Garbage => flash'[o] = flash[o]
    BY <2>1 DEF Filled
  <2>4. Heads = {} => Heads' = {}
    <3> SUFFICES ASSUME NEW o \in Heads' PROVE o \in Heads
      OBVIOUS
    <3>1. /\ o \in Offsets /\ Readable(o)' /\ EndOf(o)' \in 0 .. StoreWords
          /\ RecordAt(o)' \in Records
      BY <1>t, NextFacts DEF HeadsAreApart, Heads
    <3>2. flash[o] = flash'[o]
      BY <2>3, <3>1 DEF Readable
    <3>3. PICK r \in Records : r = RecordAt(o)' /\ r = RecordAt(o)
      BY <3>1, <3>2 DEF RecordAt
    <3>4. /\ o \in Nat /\ Size(r) \in Nat /\ o + Size(r) <= StoreWords
          /\ \A i \in 1 .. Size(r) : flash'[o + i - 1] = <<r, i>>
      BY <1>t, <3>1, <3>3, SizeType DEF Readable, RecordAt, Offsets, EndOf
    <3>5. ASSUME NEW i \in 1 .. Size(r) PROVE flash[o + i - 1] = <<r, i>>
      <4>1. o + i - 1 \in Offsets /\ i \in 1 .. StoreWords
        BY <1>t, <3>4 DEF Offsets
      <4>2. flash'[o + i - 1] = <<r, i>> /\ <<r, i>> # Garbage
        BY <3>4, <4>1, WordIsNeither
      <4> QED BY <2>3, <4>1, <4>2
    <3>6. Readable(o)
      BY <3>1, <3>2, <3>3, <3>4, <3>5 DEF Readable, RecordAt
    <3> QED BY <3>1, <3>6 DEF Heads
  <2>5. Heads' # {} => StoredState' # NoState
    BY <2>2, <2>4 DEF StateInv
  <2> QED BY <1>t, <1>1, <2>5 DEF StateInv, StateIsAhead, ItemsAreBehindAState, ScratchHolds
<1> QED BY <1>2, <1>3, <1>4 DEF PowerCut, Spoilt

\* As long as the callers write items only behind a state - the selector does so
\* (ItemsAreWrittenBehindAState, DmselSelectorProofs) - the scratch memory of
\* layout->store_size bytes is enough for every compaction
\* (selector/include/dmsel.h:117), with power cuts in between.
THEOREM ScratchIsEnough ==
  ASSUME OneSector PROVE Spec /\ []ItemsFollowState => []ScratchHolds
<1>1. Init => LogInv /\ StateInv
  BY LogInit, StateInit
<1>2. StoreInv /\ StoreInv' /\ LogInv /\ StateInv /\ ItemsFollowState /\ [Next]_vars
        => LogInv' /\ StateInv'
  <2> SUFFICES ASSUME StoreInv, StoreInv', LogInv, StateInv, ItemsFollowState, [Next]_vars
               PROVE  LogInv' /\ StateInv'
    OBVIOUS
  <2>1. LogInv'
    BY LogInvStep DEF StateInv
  <2>2. ~Fail
    BY DEF Fail, OneSector
  <2>3. CASE PowerCut
    BY <2>1, <2>3, StateCut
  <2>4. CASE EraseSector \/ ProgramWord
    BY <2>1, <2>4, StateWritten
  <2>5. CASE ~PowerCut /\ ~EraseSector /\ ~ProgramWord
    <3>1. flash' = flash
      BY <2>2, <2>5 DEF Next, Step, Call, SaveState, WriteItem, LoadRecord, LoadEnd,
         StartWrite, StartCompaction, NoSpace, ScanRecord, ScanEnd, Erased,
         PayloadWritten, RecordWritten, Compacted, vars
    <3> QED BY <2>1, <2>2, <2>5, <3>1, StateKept
  <2> QED BY <2>1, <2>3, <2>4, <2>5
<1>3. StateInv => ScratchHolds
  BY DEF StateInv
<1> QED BY <1>1, <1>2, <1>3, InvHolds, PTL DEF Spec

=============================================================================
