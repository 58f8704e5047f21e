------------------------- MODULE DmselWritesProofs --------------------------
(***************************************************************************)
(* Proofs that the store keeps what it promises: each step of DmselStore   *)
(* is a step of StoreSpec or changes nothing there, and each call leaves   *)
(* the state of the banks as StoreContract has it, which is all that       *)
(* DmselSelector knows of the store.                                       *)
(***************************************************************************)
EXTENDS DmselWrites, DmselStoreProofs

USE DEF HeaderWords

\* The variables of StoreSpec.
Working == IF pc = "load" THEN BlankState ELSE state
Items == [id \in Ids |-> Item(id)]
Copied == IF Moving THEN Moved ELSE Nothing

\* What StoreSpec has does not change.
LEMMA SameAbstract ==
  ASSUME Working' = Working, StoredState' = StoredState, \A id : Item(id)' = Item(id),
         Copied' = Copied
  PROVE  UNCHANGED Abstract!vars
<1>1. Items' = Items
  BY DEF Items
<1> QED BY <1>1 DEF Abstract!vars, Working, Items, Copied

\* What is stored is in the flash only.
LEMMA FlashSame ==
  ASSUME StoreInv, StoreInv', LogInv, flash' = flash
  PROVE  StoredState' = StoredState /\ \A id : Item(id)' = Item(id)
<1>1. PICK e \in 0 .. StoreWords : LogIs(e)
  BY LogExists
<1> QED BY <1>1, FlashKept DEF StoreInv

\* What is in the scratch memory.
LEMMA MovedIs ==
  ASSUME TypeOK, ScratchIsWhole
  PROVE  /\ Moved.state = state /\ DOMAIN Moved.items = Ids
         /\ Moved = [state |-> Moved.state, items |-> Moved.items]
         /\ Moved.items = [id \in Ids |-> Moved.items[id]]
         /\ \A r \in InScratch : r.type = "ITEM" => Moved.items[r.id] = r.value
         /\ \A id \in Ids : (\A r \in InScratch : ~IsItem(r, id))
                              => Moved.items[id] = NoValue
         /\ Moved # Nothing
<1> DEFINE F(id) == IF \E r \in InScratch : IsItem(r, id)
                      THEN (CHOOSE r \in InScratch : IsItem(r, id)).value
                      ELSE NoValue
<1>0. state \in States /\ scratch \in Seq(Cells)
  BY DEF TypeOK
<1>1. Moved = [state |-> (CHOOSE r \in InScratch : r.type = "STATE").state,
               items |-> [id \in Ids |-> F(id)]]
  BY DEF Moved
<1>2. StateRecord(state) \in InScratch
  <2>1. RecordIn(scratch, 0, StateRecord(state)) /\ Size(StateRecord(state)) \in Nat
        /\ Size(StateRecord(state)) > 1
    BY <1>0, StateRecordType, SizeType DEF ScratchIsWhole
  <2>2. 1 \in 1 .. Size(StateRecord(state)) /\ 0 + 1 = 1
    BY <2>1
  <2>3. scratch[1] = <<StateRecord(state), 1>> /\ Size(StateRecord(state)) <= Len(scratch)
    BY <2>1, <2>2 DEF RecordIn
  <2>4. scratch[1][1] = StateRecord(state)
    BY <2>3
  <2>5. 1 \in DOMAIN scratch
    BY <1>0, <2>1, <2>3
  <2> QED BY <2>4, <2>5 DEF InScratch
<1>3. (CHOOSE r \in InScratch : r.type = "STATE").state = state
  <2>1. \E r \in InScratch : r.type = "STATE"
    BY <1>2 DEF StateRecord
  <2>2. PICK r : r = CHOOSE q \in InScratch : q.type = "STATE"
    OBVIOUS
  <2>3. r \in InScratch /\ r.type = "STATE"
    BY <2>1, <2>2
  <2>4. r = StateRecord(state)
    BY <2>3 DEF ScratchIsWhole
  <2>5. r.state = state
    BY <2>4 DEF StateRecord
  <2> QED BY <2>2, <2>5
<1>4. ASSUME NEW r \in InScratch, r.type = "ITEM" PROVE r.id \in Ids /\ F(r.id) = r.value
  <2>1. r \in Records /\ IsItem(r, r.id)
    BY <1>4 DEF ScratchIsWhole, IsItem
  <2>2. r.id \in Ids
    BY <1>4, <2>1, RecordIs
  <2>3. PICK q : q = CHOOSE x \in InScratch : IsItem(x, r.id)
    OBVIOUS
  <2>4. q \in InScratch /\ IsItem(q, r.id)
    BY <2>1, <2>3
  <2>5. r = q
    BY <1>4, <2>4 DEF ScratchIsWhole
  <2> QED BY <2>1, <2>2, <2>3, <2>5
<1>5. ASSUME NEW id, \A r \in InScratch : ~IsItem(r, id) PROVE F(id) = NoValue
  BY <1>5
<1>6. ASSUME NEW id \in Ids PROVE F(id) \in Values \cup {NoValue}
  <2>1. ASSUME NEW r \in InScratch, IsItem(r, id) PROVE F(id) \in Values \cup {NoValue}
    <3>1. r \in Records /\ r.type = "ITEM" /\ r.id = id
      BY <2>1 DEF ScratchIsWhole, IsItem
    <3>2. F(id) = r.value
      BY <1>4, <3>1
    <3>3. r.value \in Values \cup {NoValue}
      BY <3>1, RecordIs
    <3> HIDE DEF F
    <3> QED BY <3>2, <3>3
  <2>2. CASE \A r \in InScratch : ~IsItem(r, id)
    BY <1>5, <2>2
  <2> HIDE DEF F
  <2> QED BY <2>1, <2>2
<1> HIDE DEF F
<1>7. Moved = [state |-> state, items |-> [id \in Ids |-> F(id)]]
  BY <1>1, <1>3
<1>8. Moved \in [state : States, items : [Ids -> Values \cup {NoValue}]]
  BY <1>0, <1>6, <1>7
<1>9. Moved # Nothing
  BY <1>8, NothingAssumption
<1> QED BY <1>4, <1>5, <1>7, <1>9

\* The invariant says whether the scratch memory has what is moved.
LEMMA MovingScratch == ASSUME StoreInv, LogInv, Moving PROVE TypeOK /\ ScratchIsWhole
  BY DEF StoreInv, LogInv, Moving, EraseOK, CompactOK

\* At first nothing is stored.
LEMMA RefineInit == Init => Abstract!Init
<1> SUFFICES ASSUME Init PROVE Abstract!Init
  OBVIOUS
<1>1. StoreInv /\ LogInv
  BY InitInv, LogInit
<1>2. PICK e \in 0 .. StoreWords : LogIs(e)
  BY <1>1, LogExists
<1>3. Heads = {}
  <2>1. \A o \in Heads : First(o)
    BY <1>1, HeadFacts DEF StoreInv
  <2> QED BY <2>1 DEF Init, First, Heads
<1>4. StoredState = NoState /\ \A id : Item(id) = NoValue
  BY <1>1, <1>2, <1>3, LogFactsHold DEF StoreInv, LogFacts
<1>5. pc = "load" /\ state = BlankState
  BY DEF Init
<1>6. [id \in Ids |-> Item(id)] = [id \in Ids |-> NoValue]
  BY <1>4
<1> QED BY <1>4, <1>5, <1>6 DEF Abstract!Init, Abstract!NoItems, Moving

\* load_state gives the callers the state that was saved.
LEMMA RefineLoad ==
  ASSUME StoreInv, StoreInv', LogInv, LogInv', LoadRecord \/ LoadEnd
  PROVE  Abstract!Next \/ UNCHANGED Abstract!vars
<1>t. TypeOK
  BY DEF StoreInv
<1>0. flash' = flash /\ pc = "load"
  BY DEF LoadRecord, LoadEnd
<1>1. StoredState' = StoredState /\ \A id : Item(id)' = Item(id)
  BY <1>0, FlashSame
<1>2. CASE LoadRecord
  <2>1. pc' = "load"
    BY <1>2 DEF LoadRecord
  <2>2. Working' = Working /\ Copied' = Copied
    BY <1>0, <2>1 DEF Working, Copied, Moving
  <2> QED BY <1>1, <2>2, SameAbstract
<1>3. CASE LoadEnd
  <2>0. pc' = "idle" /\ state' = state /\ off \notin Heads
    BY <1>3 DEF LoadEnd, Heads
  <2>1. PICK e \in 0 .. StoreWords : LogIs(e) /\ off \in Heads \cup {e} /\ StateIsRead
    BY <1>0 DEF LogInv, LoadOK
  <2>2. off = e
    BY <2>0, <2>1
  <2>3. \A o \in Heads : o < off
    BY <1>t, <2>1, <2>2, NextHead
  <2>4. state = IF StoredState = NoState THEN BlankState ELSE StoredState
    <3>1. CASE state = BlankState /\ \A o \in Heads : o < off => ~IsState(o)
      BY <1>t, <2>1, <2>3, <3>1, LogFactsHold DEF LogFacts
    <3>2. ASSUME NEW o \in Heads, IsState(o), state = RecordAt(o).state,
                 \A p \in Heads : p < off /\ IsState(p) => p <= o
          PROVE  state = IF StoredState = NoState THEN BlankState ELSE StoredState
      <4>1. LatestState(o)
        BY <2>3, <3>2 DEF LatestState
      <4>2. StoredState = state
        BY <1>t, <2>1, <3>2, <4>1, LogFactsHold DEF LogFacts
      <4> QED BY <1>t, <4>2, StatesAssumption DEF TypeOK
    <3> QED BY <2>1, <3>1, <3>2 DEF StateIsRead
  <2>5. [id \in Ids |-> Item(id)]' = [id \in Ids |-> Item(id)]
    BY <1>1
  <2>6. Abstract!Load
    BY <1>0, <1>1, <2>0, <2>4, <2>5 DEF Abstract!Load, Moving
  <2> QED BY <2>6 DEF Abstract!Next
<1> QED BY <1>2, <1>3

\* A call changes the state of the banks, and nothing in the store.
LEMMA RefineCall ==
  ASSUME StoreInv, StoreInv', LogInv, Call
  PROVE  Abstract!Next \/ UNCHANGED Abstract!vars
<1>0. flash' = flash /\ pc = "idle" /\ pc' \in {"idle", "append"}
  BY DEF Call, SaveState, WriteItem, AppendRecord, Return
<1>1. StoredState' = StoredState /\ \A id : Item(id)' = Item(id)
  BY <1>0, FlashSame
<1>2. Copied' = Copied
  BY <1>0 DEF Copied, Moving
<1>3. ASSUME NEW st \in States, SaveState(st) PROVE Abstract!Next
  <2>1. state' = st
    BY <1>3 DEF SaveState
  <2>2. [id \in Ids |-> Item(id)]' = [id \in Ids |-> Item(id)]
    BY <1>1
  <2>3. Abstract!Change(st)
    BY <1>0, <1>1, <2>1, <2>2 DEF Abstract!Change, Moving
  <2> QED BY <2>3 DEF Abstract!Next
<1>4. ASSUME NEW id \in Ids, NEW v \in Values \cup {NoValue}, WriteItem(id, v)
      PROVE  UNCHANGED Abstract!vars
  <2>1. Working' = Working
    BY <1>0, <1>4 DEF WriteItem, Working, ram
  <2> QED BY <1>1, <1>2, <2>1, SameAbstract
<1> QED BY <1>3, <1>4 DEF Call

\* Steps that neither touch the flash nor begin or end a move.
LEMMA RefineQuiet ==
  ASSUME StoreInv, StoreInv', LogInv, 
         StartWrite \/ StartCompaction \/ NoSpace \/ ScanRecord \/ PayloadWritten
           \/ RecordWritten
  PROVE  UNCHANGED Abstract!vars
<1>1. flash' = flash /\ state' = state /\ pc # "load" /\ pc' # "load"
  BY DEF StartWrite, StartCompaction, NoSpace, ScanRecord, PayloadWritten, RecordWritten,
         Program, Return, Written, ram
<1>2. StoredState' = StoredState /\ \A id : Item(id)' = Item(id)
  BY <1>1, FlashSame
<1>3. ~Moving /\ Moving' = FALSE
  BY DEF StartWrite, StartCompaction, NoSpace, ScanRecord, PayloadWritten, RecordWritten,
         Program, Return, Written, Moving
<1>4. Working' = Working /\ Copied' = Copied
  BY <1>1, <1>3 DEF Working, Copied
<1> QED BY <1>2, <1>4, SameAbstract

\* The scratch memory has a copy of everything.
LEMMA RefineScanEnd ==
  ASSUME StoreInv, StoreInv', LogInv, LogInv', ScanEnd
  PROVE  Abstract!Copy
<1>t. TypeOK /\ TypeOK'
  BY DEF StoreInv
<1>0. /\ pc = "scan" /\ pc' = "erase" /\ flash' = flash /\ storeEnd' = storeEnd
      /\ state' = state /\ scratch' = scratch /\ ~Readable(off)
  BY DEF ScanEnd, ram
<1>1. StoredState' = StoredState /\ \A id : Item(id)' = Item(id)
  BY <1>0, FlashSame
<1>2. PICK e \in 0 .. StoreWords : e = storeEnd
  BY <1>t DEF TypeOK
<1>3. LogIs(e) /\ off = e /\ ScanOK
  BY <1>0, <1>2 DEF LogInv, ScanOK, Heads
<1>4. ScratchIsWhole /\ ItemsAreCopied(off) /\ \A o \in Heads : o < off
  BY <1>t, <1>0, <1>3, NextHead DEF ScanOK
<1>5. /\ Moved.state = state
      /\ Moved = [state |-> Moved.state, items |-> Moved.items]
      /\ Moved.items = [id \in Ids |-> Moved.items[id]]
      /\ \A r \in InScratch : r.type = "ITEM" => Moved.items[r.id] = r.value
      /\ \A id \in Ids : (\A r \in InScratch : ~IsItem(r, id))
                            => Moved.items[id] = NoValue
  BY <1>t, <1>4, MovedIs
<1>6. ASSUME NEW id \in Ids PROVE Moved.items[id] = Item(id)
  <2>1. ASSUME NEW r \in InScratch, IsItem(r, id) PROVE Moved.items[id] = Item(id)
    <3>1. r \in Records /\ r.type = "ITEM" /\ r.id = id
      BY <1>4, <2>1 DEF ScratchIsWhole, IsItem
    <3>2. PICK o \in Heads : RecordAt(o) = r /\ LatestOf(o, id)
      BY <1>4, <3>1 DEF ItemsAreCopied
    <3>3. Item(id) = r.value
      BY <1>t, <1>3, <3>2, LogFactsHold DEF LogFacts
    <3> QED BY <1>5, <3>1, <3>3
  <2>2. ASSUME \A r \in InScratch : ~IsItem(r, id) PROVE Moved.items[id] = Item(id)
    <3>1. Item(id) = NoValue
      <4>1. CASE \A p \in Heads : ~IsItem(RecordAt(p), id)
        BY <1>t, <1>3, <4>1, LogFactsHold DEF LogFacts
      <4>2. ASSUME NEW o \in Heads, LatestOf(o, id) PROVE Item(id) = NoValue
        <5>1. Item(id) = RecordAt(o).value
          BY <1>t, <1>3, <4>2, LogFactsHold DEF LogFacts
        <5>2. RecordAt(o) \in Records /\ RecordAt(o).type = "ITEM" /\ RecordAt(o).id = id
          BY <1>t, <4>2, HeadFacts DEF LatestOf, IsItem
        <5>3. PICK r \in Records : r = RecordAt(o)
          BY <5>2
        <5>4. r.value # NoValue => r \in InScratch
          BY <1>4, <4>2, <5>2, <5>3 DEF ItemsAreCopied
        <5>5. IsItem(r, id)
          BY <5>2, <5>3 DEF IsItem
        <5> QED BY <2>2, <5>1, <5>3, <5>4, <5>5
      <4> QED BY <1>t, <4>1, <4>2, LatestExists
    <3> QED BY <1>5, <2>2, <3>1
  <2> QED BY <2>1, <2>2
<1>7. Moved = [state |-> state, items |-> [id \in Ids |-> Item(id)]]
  BY <1>5, <1>6
<1>8. Moved' = Moved
  BY <1>0 DEF Moved, InScratch
<1>9. ~Moving /\ Moving'
  BY <1>0 DEF Moving
<1>10. [id \in Ids |-> Item(id)]' = [id \in Ids |-> Item(id)]
  BY <1>1
<1> QED BY <1>0, <1>1, <1>7, <1>8, <1>9, <1>10 DEF Abstract!Copy

\* The erase of the sector.
LEMMA RefineErase ==
  ASSUME OneSector, StoreInv, StoreInv', LogInv, LogInv', EraseSector \/ Erased,
         ScratchHolds
  PROVE  Abstract!Next \/ UNCHANGED Abstract!vars
<1>t. TypeOK /\ TypeOK'
  BY DEF StoreInv
<1>0. /\ pc = "erase" /\ state' = state /\ scratch' = scratch /\ pc' # "load" /\ Moving /\ Moving'
  BY DEF EraseSector, Erased, ram, compaction, Moving, ScratchHolds, Program
<1>1. Moved' = Moved /\ Copied' = Copied /\ Working' = Working
  BY <1>0 DEF Moved, InScratch, Copied, Working
<1>2. CASE Erased
  <2>1. flash' = flash
    BY <1>2 DEF Erased
  <2> QED BY <1>1, <2>1, FlashSame, SameAbstract
<1>3. CASE EraseSector
  <2>1. sector' # 0 /\ pc' = "erase"
    BY <1>t, <1>3 DEF EraseSector, TypeOK
  <2>2. \A o \in Offsets : flash'[o] = Blank
    BY <2>1 DEF LogInv, EraseOK
  <2>3. HeadsAreApart' /\ LogFacts' /\ EmptyLog'
    BY <1>t, NextFacts, NextLog
  <2>4. Heads' = {}
    BY <2>2, <2>3 DEF HeadsAreApart, First
  <2>5. PICK e \in 0 .. StoreWords : e = 0
    BY SizesAssumption
  <2>6. LogIs(e)'
    BY <2>2, <2>3, <2>5 DEF EmptyLog
  <2>7. StoredState' = NoState /\ \A id : Item(id)' = NoValue
    BY <2>3, <2>4, <2>6 DEF LogFacts
  <2>8. Moved # Nothing
    BY <1>0, MovingScratch, MovedIs
  <2>9. [id \in Ids |-> Item(id)]' = [id \in Ids |-> NoValue]
    BY <2>7
  <2>10. Abstract!Erase
    BY <1>0, <1>1, <2>1, <2>7, <2>8, <2>9 DEF Abstract!Erase, Abstract!NoItems
  <2> QED BY <2>10 DEF Abstract!Next
<1> QED BY <1>2, <1>3

\* A write takes effect with the last word of its header.
LEMMA RefineWriteWord ==
  ASSUME StoreInv, StoreInv', LogInv, ProgramWord, after \in {"payload", "header"}
  PROVE  Abstract!Next \/ UNCHANGED Abstract!vars
<1>t. TypeOK
  BY DEF StoreInv
<1>0. /\ pc = "program" /\ pc' = pc /\ after' = after /\ state' = state
      /\ todo # <<>> /\ flash' = AfterWord
  BY DEF ProgramWord, ram
<1>1. PICK e \in 0 .. StoreWords : e = storeEnd
  BY <1>t DEF TypeOK
<1>2. ~Moving /\ Moving' = FALSE
  BY <1>0 DEF Moving
<1>3. CASE ~(after = "header" /\ at = e + 1)
  <2>1. StoredState' = StoredState /\ \A id : Item(id)' = Item(id)
    BY <1>0, <1>1, <1>3, WriteUnseen
  <2>2. Working' = Working /\ Copied' = Copied
    BY <1>0, <1>2 DEF Working, Copied
  <2> QED BY <2>1, <2>2, SameAbstract
<1>4. CASE after = "header" /\ at = e + 1
  <2>1. PICK e2 \in 0 .. StoreWords : e2 = storeEnd + Size(rec)
    <3>1. Size(rec) \in Nat /\ e + Size(rec) <= StoreWords /\ StoreWords \in Nat
      BY <1>0, <1>1, <1>4, WriteWord
    <3> QED BY <1>1, <3>1
  <2>2. /\ StoredState' = IF rec.type = "STATE" THEN rec.state ELSE StoredState
        /\ \A id : Item(id)' = IF IsItem(rec, id) THEN rec.value ELSE Item(id)
    BY <1>0, <1>1, <1>4, <2>1, WriteSeen
  <2>3. rec \in Records
    BY <1>t DEF TypeOK
  <2>4. CASE rec.type = "STATE"
    <3>1. rec.state = state
      BY <1>0, <2>4 DEF LogInv, CallOK
    <3>2. \A id : ~IsItem(rec, id)
      BY <2>4 DEF IsItem
    <3>3. [id \in Ids |-> Item(id)]' = [id \in Ids |-> Item(id)]
      BY <2>2, <3>2
    <3>4. Abstract!Save
      BY <1>0, <1>2, <2>2, <2>4, <3>1, <3>3 DEF Abstract!Save
    <3> QED BY <3>4 DEF Abstract!Next
  <2>5. CASE rec.type = "ITEM"
    <3>1. PICK x \in Ids, v \in Values \cup {NoValue} : rec = ItemRecord(x, v)
      BY <2>3, <2>5, RecordIs
    <3>2. \A id : IsItem(rec, id) <=> id = x
      BY <3>1 DEF IsItem, ItemRecord
    <3>3. rec.value = v
      BY <3>1 DEF ItemRecord
    <3>4. [id \in Ids |-> Item(id)]' = [[id \in Ids |-> Item(id)] EXCEPT ![x] = v]
      BY <2>2, <3>2, <3>3
    <3>5. Abstract!Write(x, v)
      BY <1>0, <1>2, <2>2, <2>5, <3>4 DEF Abstract!Write
    <3> QED BY <3>1, <3>5 DEF Abstract!Next
  <2> QED BY <2>3, <2>4, <2>5, RecordIs
<1> QED BY <1>3, <1>4

\* What can be read during a compaction: what is back.
IsBack(o, r) == RecordIn(scratch, o, r) /\ o + Size(r) <= at
ReadsBack ==
    /\ \A o \in Offsets, r \in Records : IsBack(o, r) => o \in Heads /\ RecordAt(o) = r
    /\ \A o \in Heads : IsBack(o, RecordAt(o)) /\ RecordAt(o) \in InScratch
    /\ \A o, p \in Heads : RecordAt(o) = RecordAt(p) => o = p
    /\ StoredState = IF 0 \in Heads THEN state ELSE NoState
    /\ \A o \in Heads : IsState(o) => o = 0
    /\ 0 \in Heads => RecordAt(0) = StateRecord(state)
    /\ \A id : \A o \in Heads : IsItem(RecordAt(o), id) => Item(id) = RecordAt(o).value
    /\ \A id : (\A o \in Heads : ~IsItem(RecordAt(o), id)) => Item(id) = NoValue

\* Facts about a compaction, from the invariant ...
LEMMA ReadsBackHolds == StoreInv /\ LogInv /\ after = "compacted" => ReadsBack
  BY CompactHeads, CompactValues DEF ReadsBack, IsBack, EndOf

\* ... and in the next state.
LEMMA NextReadsBack ==
  StoreInv' /\ LogInv' /\ after' = "compacted" => ReadsBack'
<1>1. (StoreInv /\ LogInv /\ after = "compacted" => ReadsBack)'
  BY ReadsBackHolds, PTL
<1> QED BY <1>1

\* A word of a compaction ends at most one record.
LEMMA HeadsGrow ==
  ASSUME StoreInv, StoreInv', LogInv, LogInv', ProgramWord, after = "compacted"
  PROVE  /\ \A o \in Heads : RecordAt(o)' = RecordAt(o)
         /\ \/ Heads' = Heads
            \/ \E o \in Offsets, r \in InScratch :
                 /\ Heads' = Heads \cup {o} /\ o \notin Heads
                 /\ RecordAt(o)' = r /\ RecordIn(scratch, o, r) /\ o + Size(r) = at + 1
<1>0. /\ after' = "compacted" /\ at' = at + 1 /\ scratch' = scratch /\ at \in Nat
      /\ TypeOK /\ TypeOK' /\ HeadsAreApart' /\ InScratch' = InScratch
  BY NextFacts DEF ProgramWord, compaction, InScratch, StoreInv, TypeOK
<1>1. ReadsBack /\ ReadsBack'
  BY <1>0, ReadsBackHolds, NextReadsBack
<1>2. \A o \in Offsets, r \in Records :
        IsBack(o, r)' <=> RecordIn(scratch, o, r) /\ o + Size(r) <= at + 1
  BY <1>0 DEF IsBack, RecordIn
<1>3. ASSUME NEW o \in Heads PROVE o \in Heads' /\ RecordAt(o)' = RecordAt(o)
  <2>1. o \in Offsets /\ o \in Nat /\ RecordAt(o) \in Records /\ Size(RecordAt(o)) \in Nat
    BY <1>0, HeadFacts
  <2>2. PICK r \in Records : r = RecordAt(o)
    BY <2>1
  <2>3. IsBack(o, r)
    BY <1>1, <2>2 DEF ReadsBack
  <2>4. IsBack(o, r)'
    <3>1. o + Size(r) <= at + 1
      BY <1>0, <2>1, <2>2, <2>3 DEF IsBack
    <3> QED BY <1>2, <2>1, <2>3, <3>1 DEF IsBack
  <2> QED BY <1>1, <2>1, <2>2, <2>4 DEF ReadsBack
<1>4. ASSUME NEW o \in Heads', o \notin Heads
      PROVE  \E r \in InScratch : /\ RecordAt(o)' = r /\ RecordIn(scratch, o, r)
                                  /\ o + Size(r) = at + 1 /\ r \in Records /\ o \in Offsets
  <2>1. o \in Offsets /\ RecordAt(o)' \in Records
    BY <1>0, <1>4 DEF HeadsAreApart
  <2>2. PICK r \in Records : r = RecordAt(o)'
    BY <2>1
  <2>3. IsBack(o, r)' /\ r \in InScratch
    BY <1>0, <1>1, <1>4, <2>2 DEF ReadsBack
  <2>4. ~IsBack(o, r)
    BY <1>1, <1>4, <2>1 DEF ReadsBack
  <2>5. Size(r) \in Nat /\ o \in Nat
    BY <2>1, SizeType DEF Offsets
  <2>6. RecordIn(scratch, o, r) /\ o + Size(r) <= at + 1 /\ ~(o + Size(r) <= at)
    BY <1>2, <2>1, <2>3, <2>4 DEF IsBack
  <2>7. o + Size(r) = at + 1
    BY <1>0, <2>5, <2>6
  <2> QED BY <2>1, <2>2, <2>3, <2>6, <2>7
<1>5. ASSUME NEW o \in Heads', NEW p \in Heads', o \notin Heads, p \notin Heads PROVE o = p
  <2>1. PICK r \in Records : RecordAt(o)' = r /\ RecordIn(scratch, o, r) /\ o + Size(r) = at + 1
    BY <1>4, <1>5
  <2>2. PICK q \in Records : RecordAt(p)' = q /\ RecordIn(scratch, p, q) /\ p + Size(q) = at + 1
    BY <1>4, <1>5
  <2>3. Size(r) \in 1 .. Size(r) /\ Size(q) \in 1 .. Size(q)
    BY SizeType
  <2>4. scratch[at + 1] = <<r, Size(r)>> /\ scratch[at + 1] = <<q, Size(q)>>
    BY <2>1, <2>2, <2>3 DEF RecordIn
  <2>5. <<r, Size(r)>> = <<q, Size(q)>>
    BY <2>4
  <2>6. r = q
    BY <2>5
  <2> QED BY <1>1, <1>5, <2>1, <2>2, <2>6 DEF ReadsBack
<1>6. CASE \E o \in Heads' : o \notin Heads
  <2>1. PICK o \in Heads' : o \notin Heads
    BY <1>6
  <2>2. Heads' = Heads \cup {o}
    BY <1>3, <1>5, <2>1
  <2> QED BY <1>3, <1>4, <2>1, <2>2
<1> QED BY <1>3, <1>6

\* The state and the items come back one by one.
LEMMA RefineCompactWord ==
  ASSUME StoreInv, StoreInv', LogInv, LogInv', ProgramWord, after = "compacted"
  PROVE  Abstract!Next \/ UNCHANGED Abstract!vars
<1>0. /\ after' = "compacted" /\ pc = "program" /\ pc' = "program" /\ state' = state
      /\ scratch' = scratch /\ TypeOK /\ at \in Nat /\ state \in States
  BY DEF ProgramWord, compaction, ram, StoreInv, TypeOK
<1>1. ReadsBack /\ ReadsBack' /\ ScratchIsWhole
  BY <1>0, ReadsBackHolds, NextReadsBack, CompactHeads
<1>2. Moving /\ Moving' /\ Moved' = Moved /\ Working' = Working /\ Copied' = Copied
  BY <1>0 DEF Moving, Moved, InScratch, Working, Copied
<1>3. \A o \in Heads : RecordAt(o)' = RecordAt(o)
  BY HeadsGrow
<1>4. ASSUME Heads' = Heads PROVE UNCHANGED Abstract!vars
  <2>1. StoredState' = StoredState
    BY <1>0, <1>1, <1>4 DEF ReadsBack
  <2>2. ASSUME NEW id PROVE Item(id)' = Item(id)
    <3>1. CASE \A o \in Heads : ~IsItem(RecordAt(o), id)
      <4>1. \A o \in Heads' : ~IsItem(RecordAt(o)', id)
        BY <1>3, <1>4, <3>1
      <4>2. Item(id) = NoValue /\ Item(id)' = NoValue
        BY <1>1, <3>1, <4>1 DEF ReadsBack
      <4> QED BY <4>2
    <3>2. ASSUME NEW o \in Heads, IsItem(RecordAt(o), id) PROVE Item(id)' = Item(id)
      <4>1. IsItem(RecordAt(o)', id) /\ o \in Heads'
        BY <1>3, <1>4, <3>2
      <4>2. Item(id) = RecordAt(o).value /\ Item(id)' = RecordAt(o)'.value
        BY <1>1, <3>2, <4>1 DEF ReadsBack
      <4> QED BY <1>3, <4>2
    <3> QED BY <3>1, <3>2
  <2> QED BY <1>2, <2>1, <2>2, SameAbstract
<1>5. ASSUME NEW o \in Offsets, NEW r \in InScratch, Heads' = Heads \cup {o}, o \notin Heads,
             RecordAt(o)' = r, RecordIn(scratch, o, r), o + Size(r) = at + 1
      PROVE  Abstract!Next
  <2>0. /\ r \in Records /\ o \in Nat /\ Size(r) \in Nat /\ Size(r) > 1
        /\ r.type = "STATE" => r = StateRecord(state)
    BY <1>1, SizeType DEF ScratchIsWhole, Offsets
  <2>1. /\ Moved.state = state /\ Moved # Nothing
        /\ r.type = "ITEM" => Moved.items[r.id] = r.value
    BY <1>0, <1>1, MovedIs
  <2>2. ASSUME NEW id, ~IsItem(r, id) PROVE Item(id)' = Item(id)
    <3>1. CASE \A p \in Heads : ~IsItem(RecordAt(p), id)
      <4>1. \A p \in Heads' : ~IsItem(RecordAt(p)', id)
        BY <1>3, <1>5, <2>2, <3>1
      <4>2. Item(id) = NoValue /\ Item(id)' = NoValue
        BY <1>1, <3>1, <4>1 DEF ReadsBack
      <4> QED BY <4>2
    <3>2. ASSUME NEW p \in Heads, IsItem(RecordAt(p), id) PROVE Item(id)' = Item(id)
      <4>1. IsItem(RecordAt(p)', id) /\ p \in Heads'
        BY <1>3, <1>5, <3>2
      <4>2. Item(id) = RecordAt(p).value /\ Item(id)' = RecordAt(p)'.value
        BY <1>1, <3>2, <4>1 DEF ReadsBack
      <4> QED BY <1>3, <4>2
    <3> QED BY <3>1, <3>2
  <2>3. CASE r.type = "STATE"
    <3>1. o = 0
      BY <1>1, <1>5, <2>3 DEF ReadsBack, IsState
    <3>2. StoredState = NoState /\ StoredState' = state
      BY <1>0, <1>1, <1>5, <3>1 DEF ReadsBack
    <3>3. [id \in Ids |-> Item(id)]' = [id \in Ids |-> Item(id)]
      BY <2>2, <2>3 DEF IsItem
    <3>4. Abstract!PutStateBack
      BY <1>0, <1>2, <2>1, <3>2, <3>3 DEF Abstract!PutStateBack
    <3> QED BY <3>4 DEF Abstract!Next
  <2>4. CASE r.type = "ITEM"
    <3> DEFINE st == StateRecord(state)
    <3>1. /\ RecordIn(scratch, 0, st) /\ st \in Records /\ Size(st) \in Nat /\ st # r
          /\ st.type = "STATE"
      BY <1>0, <1>1, <2>4, StateRecordType, SizeType DEF ScratchIsWhole, StateRecord
    <3>2. o # 0
      <4>1. SUFFICES ASSUME o = 0 PROVE FALSE
        OBVIOUS
      <4>2. RecordAt(o)' = StateRecord(state')
        BY <1>1, <1>5, <4>1 DEF ReadsBack
      <4> QED BY <1>0, <1>5, <3>1, <4>2
    <3>3. Size(st) <= o
      <4>1. SUFFICES ASSUME o < Size(st) PROVE FALSE
        BY <2>0, <3>1
      <4>2. o + 1 \in 1 .. Size(st) /\ 0 + (o + 1) = o + 1 /\ 1 \in 1 .. Size(r)
        BY <2>0, <3>1, <4>1
      <4>3. scratch[o + 1] = <<st, o + 1>> /\ scratch[o + 1] = <<r, 1>>
        BY <1>5, <3>1, <4>2 DEF RecordIn
      <4> HIDE DEF st
      <4>4. <<st, o + 1>> = <<r, 1>>
        BY <4>3
      <4> QED BY <3>1, <4>4
    <3>4. 0 \in Heads
      <4>1. 0 + Size(st) <= at /\ 0 \in Offsets
        BY <1>0, <1>5, <2>0, <3>1, <3>3, SizesAssumption DEF Offsets
      <4>2. IsBack(0, st)
        BY <3>1, <4>1 DEF IsBack
      <4> QED BY <1>1, <3>1, <4>1, <4>2 DEF ReadsBack
    <3>5. StoredState = state /\ StoredState' = state
      BY <1>0, <1>1, <1>5, <3>4 DEF ReadsBack
    <3>6. PICK x \in Ids : x = r.id
      BY <2>0, <2>4, RecordIs
    <3>7. IsItem(r, x)
      BY <2>4, <3>6 DEF IsItem
    <3>8. Item(x) = NoValue
      <4>1. ASSUME NEW p \in Heads, IsItem(RecordAt(p), x) PROVE FALSE
        <5>1. RecordAt(p) \in InScratch
          BY <1>1 DEF ReadsBack
        <5>2. RecordAt(p) = r
          BY <1>1, <2>4, <3>6, <4>1, <5>1 DEF ScratchIsWhole
        <5>3. p = o
          BY <1>1, <1>3, <1>5, <5>2 DEF ReadsBack
        <5> QED BY <1>5, <5>3
      <4> QED BY <1>1, <4>1 DEF ReadsBack
    <3>9. Item(x)' = Moved.items[x]
      <4>1. o \in Heads' /\ IsItem(RecordAt(o)', x)
        BY <1>5, <3>7
      <4>2. Item(x)' = RecordAt(o)'.value
        BY <1>1, <4>1 DEF ReadsBack
      <4> QED BY <1>5, <2>1, <2>4, <3>6, <4>2
    <3>10. \A id : IsItem(r, id) => id = x
      BY <3>6 DEF IsItem
    <3>11. [id \in Ids |-> Item(id)]'
             = [[id \in Ids |-> Item(id)] EXCEPT ![x] = Moved.items[x]]
      BY <2>2, <3>9, <3>10
    <3>12. Abstract!PutItemBack(x)
      BY <1>0, <1>2, <2>1, <3>5, <3>8, <3>11 DEF Abstract!PutItemBack
    <3> QED BY <3>12 DEF Abstract!Next
  <2> QED BY <2>0, <2>3, <2>4, RecordIs
<1> QED BY <1>4, <1>5, HeadsGrow

\* Everything is back, and the next record follows it.
LEMMA RefineCompacted ==
  ASSUME StoreInv, StoreInv', LogInv, Compacted
  PROVE  Abstract!Moved
<1>t. TypeOK /\ TypeOK'
  BY DEF StoreInv
<1>0. /\ pc = "program" /\ pc' = "append" /\ after = "compacted" /\ todo = <<>>
      /\ flash' = flash /\ state' = state
  BY DEF Compacted, Written
<1>1. StoredState' = StoredState /\ \A id : Item(id)' = Item(id)
  BY <1>0, FlashSame
<1>2. PICK n \in 0 .. StoreWords : n = Len(scratch)
  BY <1>t, <1>0 DEF StoreInv, CompactionHasItsPlace, TypeOK
<1>3. StoredState = state /\ \A r \in InScratch : \E o \in Heads : RecordAt(o) = r
  BY <1>0, <1>2, AllIsBack
<1>4. ReadsBack /\ ScratchIsWhole
  BY <1>0, ReadsBackHolds, CompactHeads
<1>5. /\ Moved.state = state /\ Moved # Nothing
      /\ Moved.items = [id \in Ids |-> Moved.items[id]]
      /\ \A r \in InScratch : r.type = "ITEM" => Moved.items[r.id] = r.value
      /\ \A id \in Ids : (\A r \in InScratch : ~IsItem(r, id))
                            => Moved.items[id] = NoValue
  BY <1>t, <1>4, MovedIs
<1>6. ASSUME NEW id \in Ids PROVE Item(id) = Moved.items[id]
  <2>1. ASSUME NEW r \in InScratch, IsItem(r, id) PROVE Item(id) = Moved.items[id]
    <3>1. PICK o \in Heads : RecordAt(o) = r
      BY <1>3
    <3>2. Item(id) = r.value
      BY <1>4, <2>1, <3>1 DEF ReadsBack
    <3> QED BY <1>5, <2>1, <3>2 DEF IsItem
  <2>2. ASSUME \A r \in InScratch : ~IsItem(r, id) PROVE Item(id) = Moved.items[id]
    <3>1. \A o \in Heads : ~IsItem(RecordAt(o), id)
      BY <1>4, <2>2 DEF ReadsBack
    <3>2. Item(id) = NoValue
      BY <1>4, <3>1 DEF ReadsBack
    <3> QED BY <1>5, <2>2, <3>2
  <2> QED BY <2>1, <2>2
<1>7. [id \in Ids |-> Item(id)] = Moved.items
  BY <1>5, <1>6
<1>8. Moving /\ Moving' = FALSE
  BY <1>0 DEF Moving
<1>9. [id \in Ids |-> Item(id)]' = [id \in Ids |-> Item(id)]
  BY <1>1
<1> QED BY <1>0, <1>1, <1>3, <1>5, <1>7, <1>8, <1>9 DEF Abstract!Moved

\* A power cut loses nothing, or everything in the moment of the erase.
LEMMA RefinePowerCut ==
  ASSUME OneSector, StoreInv, StoreInv', LogInv, PowerCut
  PROVE  Abstract!Next
<1>0. pc' = "load" /\ Moving' = FALSE
  BY DEF PowerCut, Moving
<1>1. CASE StoredState' = StoredState /\ \A id : Item(id)' = Item(id)
  <2>1. [id \in Ids |-> Item(id)]' = [id \in Ids |-> Item(id)]
    BY <1>1
  <2>2. Abstract!Interrupt
    BY <1>0, <1>1, <2>1 DEF Abstract!Interrupt
  <2> QED BY <2>2 DEF Abstract!Next
<1>2. CASE pc = "erase" /\ StoredState' = NoState /\ \A id : Item(id)' = NoValue
  <2>1. Moving
    BY <1>2 DEF Moving
  <2>2. Moved # Nothing
    BY <2>1, MovingScratch, MovedIs
  <2>3. [id \in Ids |-> Item(id)]' = [id \in Ids |-> NoValue]
    BY <1>2
  <2>4. Abstract!LoseAll
    BY <1>0, <1>2, <2>1, <2>2, <2>3 DEF Abstract!LoseAll, Abstract!NoItems
  <2> QED BY <2>4 DEF Abstract!Next
<1> QED BY <1>1, <1>2, CutLog

\* Each step is a step of StoreSpec or changes nothing there.
LEMMA RefineNext ==
  ASSUME OneSector, StoreInv, StoreInv', ScratchHolds, LogInv, LogInv', [Next]_vars
  PROVE  [Abstract!Next]_(Abstract!vars)
<1>1. CASE UNCHANGED vars
  <2>1. /\ flash' = flash /\ pc' = pc /\ state' = state /\ scratch' = scratch
        /\ after' = after
    BY <1>1 DEF vars
  <2>2. Working' = Working /\ Copied' = Copied
    BY <2>1 DEF Working, Copied, Moving, Moved, InScratch
  <2> QED BY <2>1, <2>2, FlashSame, SameAbstract
<1>2. CASE ProgramWord
  <2>1. after \in {"payload", "header", "compacted"}
    BY <1>2 DEF ProgramWord, StoreInv, TypeOK, LogInv, CallOK
  <2> QED BY <1>2, <2>1, RefineWriteWord, RefineCompactWord
<1>3. ~Fail
  BY DEF Fail, OneSector
<1>4. CASE ScanEnd \/ Compacted
  BY <1>4, RefineScanEnd, RefineCompacted DEF Abstract!Next
<1> QED BY <1>1, <1>2, <1>3, <1>4, RefineLoad, RefineCall, RefineQuiet, RefineErase,
           RefinePowerCut DEF Next, Step

\* The store implements StoreSpec: a write takes effect at once or not at all, a
\* compaction (compact) moves everything and loses nothing unless it is
\* interrupted, and what is lost stays lost.
THEOREM StoreImplementsItsSpec ==
  ASSUME OneSector PROVE Spec /\ []ScratchHolds => Implements
<1>1. StoreInv /\ StoreInv' /\ ScratchHolds /\ LogInv /\ LogInv' /\ [Next]_vars
        => [Abstract!Next]_(Abstract!vars)
  BY RefineNext
<1> QED BY <1>1, RefineInit, LogInvHolds, PTL DEF Spec, Implements, Abstract!Spec

-----------------------------------------------------------------------------
(***************************************************************************)
(* The contract that DmselSelector has of the store.                       *)
(***************************************************************************)

\* Behind the end of the log nothing can be read.
NoneHidden == \A e \in 0 .. StoreWords : LogIs(e) => Hidden = {}

\* All that can be read is the log.
LEMMA NoneHiddenHolds == TypeOK => NoneHidden
<1> SUFFICES ASSUME TypeOK, NEW e \in 0 .. StoreWords, LogIs(e) PROVE Hidden = {}
  BY DEF NoneHidden
<1>1. Log = {p \in Heads : 0 <= p}
  <2>1. 0 \in Heads \cup {e}
    BY NextHead
  <2> QED BY <2>1, LogFromIs DEF Log
<1>2. \A p \in Heads : p \in Offsets /\ 0 <= p
  BY SizesAssumption, HeadFacts DEF Offsets
<1>3. HiddenOffsets = {}
  BY <1>1, <1>2 DEF HiddenOffsets, Heads
<1> QED BY <1>3 DEF Hidden

\* The same in the next state.
LEMMA NextNoneHidden == TypeOK' => NoneHidden'
<1>1. (TypeOK => NoneHidden)'
  BY NoneHiddenHolds, PTL
<1> QED BY <1>1

\* Between the calls the store is as the contract wants a reliable one.
LEMMA IdleStore ==
  ASSUME StoreInv, LogInv, pc = "idle"
  PROVE  Now = [saved |-> StoredState, hidden |-> {}, astray |-> FALSE]
<1>1. TypeOK /\ storeEnd \in 0 .. StoreWords /\ LogIs(storeEnd)
  BY DEF StoreInv, TypeOK, LogInv, IdleOK
<1>2. Hidden = {}
  BY <1>1, NoneHiddenHolds DEF NoneHidden
<1>3. Astray = FALSE
  BY <1>1, LogFactsHold DEF Astray, LogFacts
<1> QED BY <1>2, <1>3 DEF Now

LEMMA NextIdleStore ==
  StoreInv' /\ LogInv' /\ pc' = "idle"
    => Now' = [saved |-> StoredState', hidden |-> {}, astray |-> FALSE]
<1>1. StoreInv /\ LogInv /\ pc = "idle"
        => Now = [saved |-> StoredState, hidden |-> {}, astray |-> FALSE]
  BY IdleStore
<1>2. (StoreInv /\ LogInv /\ pc = "idle"
        => Now = [saved |-> StoredState, hidden |-> {}, astray |-> FALSE])'
  BY <1>1, PTL
<1> QED BY <1>2

\* In a call the store has the record that it had before the call, or that of
\* the RAM; while a compaction is under way it may have none.
BeforeInv == InCall =>
    /\ before = [saved |-> before.saved, hidden |-> {}, astray |-> FALSE]
    /\ StoredState \in {before.saved, state, NoState}
    /\ ~Moving => StoredState \in {before.saved, state}
    /\ ~Moving /\ attempt = 1 => StoredState = state

\* What a step of a call makes of the record of the state in the store.
LEMMA CallKeepsState ==
  ASSUME OneSector, StoreInv, StoreInv', ScratchHolds, LogInv, LogInv',
         Next, InCall, pc' # "load"
  PROVE  /\ state' = state /\ (attempt' = attempt \/ pc' = "idle" \/ Compacted)
         /\ \/ StoredState' = StoredState
            \/ StoredState' = state
            \/ StoredState' = NoState /\ Moving'
         /\ Moving /\ ~Moving' => Compacted
         /\ Compacted => StoredState' = state
<1>i. pc \notin {"load", "idle"}
  BY DEF InCall
<1>t. TypeOK /\ TypeOK'
  BY DEF StoreInv
<1>1. CASE StartWrite \/ StartCompaction \/ NoSpace \/ ScanRecord \/ PayloadWritten
             \/ RecordWritten \/ ScanEnd \/ Erased
  <2>1. flash' = flash /\ state' = state
    BY <1>1 DEF StartWrite, StartCompaction, NoSpace, ScanRecord, PayloadWritten,
           RecordWritten, ScanEnd, Erased, ram
  <2>2. attempt' = attempt \/ pc' = "idle"
    BY <1>1 DEF StartWrite, StartCompaction, NoSpace, ScanRecord, PayloadWritten,
           RecordWritten, ScanEnd, Erased, Return
  <2>3. Moving => Moving'
    BY <1>1 DEF StartWrite, StartCompaction, NoSpace, ScanRecord, PayloadWritten,
           RecordWritten, ScanEnd, Erased, Written, Moving, Program, ScratchHolds
  <2>4. ~Compacted
    BY <1>1 DEF StartWrite, StartCompaction, NoSpace, ScanRecord, PayloadWritten,
           RecordWritten, ScanEnd, Erased, Written, Compacted
  <2> QED BY <2>1, <2>2, <2>3, <2>4, FlashSame
<1>2. CASE EraseSector
  <2>1. /\ state' = state /\ attempt' = attempt /\ pc = "erase" /\ pc' = "erase"
        /\ sector' # 0
    BY <1>t, <1>2 DEF EraseSector, ram, TypeOK
  <2>2. \A o \in Offsets : flash'[o] = Blank
    BY <2>1 DEF LogInv, EraseOK
  <2>3. HeadsAreApart' /\ LogFacts' /\ EmptyLog'
    BY <1>t, NextFacts, NextLog
  <2>4. Heads' = {}
    BY <2>2, <2>3 DEF HeadsAreApart, First
  <2>5. PICK e \in 0 .. StoreWords : e = 0
    BY SizesAssumption
  <2>6. LogIs(e)'
    BY <2>2, <2>3, <2>5 DEF EmptyLog
  <2>7. StoredState' = NoState
    BY <2>3, <2>4, <2>6 DEF LogFacts
  <2> QED BY <2>1, <2>7 DEF Moving, Compacted, Written
<1>3. CASE ProgramWord
  <2>1. /\ state' = state /\ attempt' = attempt /\ pc' = pc /\ after' = after
        /\ todo # <<>> /\ flash' = AfterWord /\ pc = "program"
    BY <1>3 DEF ProgramWord, ram
  <2>2. (Moving <=> Moving') /\ ~Compacted
    BY <2>1 DEF Moving, Compacted, Written
  <2>3. CASE after = "compacted"
    <3>1. ReadsBack'
      BY <2>1, <2>3, NextReadsBack
    <3>2. Moving'
      BY <2>1, <2>3 DEF Moving
    <3> QED BY <2>1, <2>2, <3>1, <3>2 DEF ReadsBack
  <2>4. CASE after \in {"payload", "header"}
    <3>1. PICK e \in 0 .. StoreWords : e = storeEnd
      BY <1>t DEF TypeOK
    <3>2. CASE ~(after = "header" /\ at = e + 1)
      <4>1. StoredState' = StoredState
        BY <2>1, <2>4, <3>1, <3>2, WriteUnseen
      <4> QED BY <2>1, <2>2, <4>1
    <3>3. CASE after = "header" /\ at = e + 1
      <4>1. PICK e2 \in 0 .. StoreWords : e2 = storeEnd + Size(rec)
        <5>1. Size(rec) \in Nat /\ e + Size(rec) <= StoreWords /\ StoreWords \in Nat
          BY <2>1, <2>4, <3>1, WriteWord
        <5> QED BY <3>1, <5>1
      <4>2. StoredState' = IF rec.type = "STATE" THEN rec.state ELSE StoredState
        BY <2>1, <3>1, <3>3, <4>1, WriteSeen
      <4>3. rec.type = "STATE" => rec.state = state
        BY <2>1 DEF LogInv, CallOK
      <4> QED BY <2>1, <2>2, <4>2, <4>3
    <3> QED BY <3>2, <3>3
  <2> QED BY <1>t, <2>1, <2>3, <2>4 DEF TypeOK, LogInv, CallOK
<1>4. CASE Compacted
  <2>1. flash' = flash /\ state' = state /\ after = "compacted" /\ todo = <<>>
    BY <1>4 DEF Compacted, Written
  <2>2. PICK n \in 0 .. StoreWords : n = Len(scratch)
    BY <1>t, <2>1 DEF StoreInv, CompactionHasItsPlace, TypeOK
  <2>3. StoredState = state
    BY <2>1, <2>2, AllIsBack
  <2> QED BY <1>4, <2>1, <2>3, FlashSame
<1>5. ~Fail /\ ~PowerCut /\ ~Call /\ ~LoadRecord /\ ~LoadEnd
  BY <1>i DEF Fail, OneSector, PowerCut, Call, SaveState, WriteItem, LoadRecord, LoadEnd
<1> QED BY <1>1, <1>2, <1>3, <1>4, <1>5 DEF Next, Step

\* A call keeps that.
LEMMA BeforeStep ==
  ASSUME OneSector, StoreInv, StoreInv', ScratchHolds, LogInv, LogInv', BeforeInv,
         [Next /\ before' = Was]_<<vars, before>>
  PROVE  BeforeInv'
<1>t. TypeOK /\ TypeOK'
  BY DEF StoreInv
<1>1. CASE UNCHANGED <<vars, before>>
  <2>1. /\ flash' = flash /\ pc' = pc /\ state' = state /\ attempt' = attempt
        /\ after' = after /\ before' = before
    BY <1>1 DEF vars
  <2> QED BY <2>1, FlashSame DEF BeforeInv, InCall, Moving
<1>2. CASE Next /\ before' = Was /\ InCall
  <2>1. CASE InCall' = FALSE
    BY <2>1 DEF BeforeInv
  <2>2. CASE InCall'
    <3>1. pc' # "load" /\ pc' # "idle" /\ before' = before
      BY <1>2, <2>2 DEF InCall, Was
    <3>2. /\ state' = state /\ (attempt' = attempt \/ Compacted)
          /\ \/ StoredState' = StoredState
             \/ StoredState' = state
             \/ StoredState' = NoState /\ Moving'
          /\ Moving /\ ~Moving' => Compacted
          /\ Compacted => StoredState' = state
      BY <1>2, <3>1, CallKeepsState
    <3> QED BY <1>2, <3>1, <3>2 DEF BeforeInv
  <2> QED BY <2>1, <2>2 DEF InCall
<1>3. CASE Next /\ before' = Was /\ ~InCall
  <2>1. before' = Now
    BY <1>3 DEF Was
  <2>2. CASE Call
    <3>1. flash' = flash /\ (pc' = "idle" \/ attempt' = attempt) /\ pc = "idle"
          /\ pc' \in {"idle", "append"}
      BY <2>2 DEF Call, SaveState, WriteItem, AppendRecord, Return
    <3>2. attempt = 0 /\ StoredState' = StoredState
      BY <3>1, FlashSame DEF LogInv, CallOK
    <3>3. before' = [saved |-> StoredState, hidden |-> {}, astray |-> FALSE]
      BY <2>1, <3>1, IdleStore
    <3>4. before'.saved = StoredState
      BY <3>3
    <3> QED BY <3>1, <3>2, <3>3, <3>4 DEF BeforeInv, InCall
  <2>3. CASE LoadRecord \/ LoadEnd \/ PowerCut
    BY <2>3 DEF BeforeInv, InCall, LoadRecord, LoadEnd, PowerCut
  <2>4. ~Fail
    BY DEF Fail, OneSector
  <2>5. pc \in {"load", "idle"}
    BY <1>3 DEF InCall
  <2>6. CASE Step
    BY <2>3, <2>5, <2>6 DEF Step, StartWrite, StartCompaction, NoSpace, ScanRecord, ScanEnd,
           EraseSector, Erased, ProgramWord, PayloadWritten, RecordWritten, Compacted, Written
  <2> QED BY <1>3, <2>2, <2>3, <2>4, <2>6 DEF Next
<1> QED BY <1>1, <1>2, <1>3

\* How a call ends.
LEMMA EndStep ==
  ASSUME OneSector, StoreInv, StoreInv', ScratchHolds, LogInv, LogInv', BeforeInv, Next,
         InCall, pc' = "idle"
  PROVE  Contract!Outcome(Writing, state, Was, Now', result')
<1>t. TypeOK /\ TypeOK'
  BY DEF StoreInv
<1>0. Was = before /\ Writing = IF rec.type = "STATE" THEN "state" ELSE "item"
  BY DEF Was, Writing
<1>n. Now' = [saved |-> StoredState', hidden |-> {}, astray |-> FALSE]
  BY NextIdleStore
<1>b. before = [saved |-> before.saved, hidden |-> {}, astray |-> FALSE]
  BY DEF BeforeInv
<1>1. CASE NoSpace
  <2>1. /\ flash' = flash /\ result' = "NOSPACE" /\ ~Moving
        /\ (Size(rec) > StoreWords \/ attempt # 0)
    BY <1>1 DEF NoSpace, Return, Moving, MayCompact
  <2>2. StoredState' = StoredState /\ StoredState \in {before.saved, state}
        /\ (attempt = 1 => StoredState = state)
    BY <2>1, FlashSame DEF BeforeInv
  <2>3. rec.type = "STATE" => attempt = 1
    <3>1. rec.type = "STATE" => Size(rec) <= StoreWords /\ Size(rec) \in Nat
                                  /\ StoreWords \in Nat
      BY <1>t, SizeType, SizesAssumption DEF TypeOK, StateSize
    <3> QED BY <1>t, <2>1, <3>1 DEF TypeOK
  <2>4. CASE StoredState = state
    <3>1. Now' \in Contract!Compacted(state)
      BY <1>n, <2>2, <2>4 DEF Contract!Compacted
    <3> QED BY <2>1, <3>1 DEF Contract!Outcome
  <2>5. CASE StoredState # state
    <3>1. attempt # 1 /\ StoredState = before.saved
      BY <2>2, <2>5
    <3>2. Now' = Was
      BY <1>0, <1>b, <1>n, <2>2, <3>1
    <3>3. Writing = "item"
      BY <1>0, <2>3, <3>1
    <3> QED BY <2>1, <3>2, <3>3 DEF Contract!Outcome
  <2> QED BY <2>4, <2>5
<1>2. CASE RecordWritten
  <2>1. /\ flash' = flash /\ result' = "OK" /\ ~Moving /\ after = "header" /\ todo = <<>>
        /\ pc = "program"
    BY <1>2 DEF RecordWritten, Return, Moving, Written
  <2>2. PICK e \in 0 .. StoreWords : e = storeEnd
    BY <1>t DEF TypeOK
  <2>3. rec.type = "STATE" => StoredState = rec.state /\ rec.state = state
    BY <2>1, <2>2, WrittenRecord DEF LogInv, CallOK
  <2>4. StoredState' = StoredState /\ StoredState \in {before.saved, state}
    BY <2>1, FlashSame DEF BeforeInv
  <2>5. CASE StoredState = state
    <3>1. Now' \in Contract!Compacted(state)
      BY <1>n, <2>4, <2>5 DEF Contract!Compacted
    <3> QED BY <2>1, <3>1 DEF Contract!Outcome
  <2>6. CASE StoredState # state
    <3>1. Writing = "item" /\ StoredState = before.saved
      BY <1>0, <2>3, <2>4, <2>6
    <3>2. Was.saved = before.saved /\ Was.hidden = {} /\ Was.astray = FALSE
      BY <1>0, <1>b
    <3>3. Now' \in [saved : {Was.saved}, hidden : SUBSET {}, astray : {FALSE}]
      BY <1>n, <2>4, <3>1, <3>2
    <3>4. Now' \in Contract!Appended(Writing, state, Was)
      BY <3>1, <3>2, <3>3 DEF Contract!Appended
    <3> QED BY <2>1, <3>4 DEF Contract!Outcome
  <2> QED BY <2>5, <2>6
<1>3. NoSpace \/ RecordWritten
  BY DEF Next, Step, Call, SaveState, WriteItem, Fail, OneSector, PowerCut, LoadRecord,
         LoadEnd, StartWrite, StartCompaction, ScanRecord, ScanEnd, EraseSector, Erased,
         ProgramWord, PayloadWritten, Compacted, Program, InCall, ScratchHolds
<1> QED BY <1>1, <1>2, <1>3

\* What a power cut leaves.
LEMMA CutStep ==
  ASSUME OneSector, StoreInv, StoreInv', ScratchHolds, LogInv, LogInv', BeforeInv, Next,
         pc' = "load"
  PROVE  \E rest \in Contract!Remains(Writing, state, Was) :
            rest.saved = StoredState' /\ rest.hidden = Hidden'
<1>t. TypeOK /\ TypeOK'
  BY DEF StoreInv
<1>h. Hidden = {}
  BY <1>t, LogExists, NoneHiddenHolds DEF NoneHidden
<1>1. CASE PowerCut
  <2>1. /\ \E e \in 0 .. StoreWords : LogIs(e)'
        /\ StoredState' = StoredState \/ (pc = "erase" /\ StoredState' = NoState)
    BY <1>1, CutLog
  <2>2. Hidden' = {}
    BY <1>t, <2>1, NextNoneHidden DEF NoneHidden
  <2>3. CASE InCall
    <3> DEFINE rest == [saved |-> StoredState', hidden |-> {}, astray |-> FALSE]
    <3>1. /\ Was = before /\ StoredState' \in {before.saved, state, NoState}
          /\ before = [saved |-> before.saved, hidden |-> {}, astray |-> FALSE]
      BY <2>1, <2>3 DEF BeforeInv, Was
    <3>2. Was.hidden = {} /\ Was.astray = FALSE
      BY <3>1
    <3>3. rest \in Contract!NotAppended(Was) \/ rest \in Contract!Interrupted(state, Was)
      <4>1. CASE StoredState' = before.saved
        BY <3>1, <3>2, <4>1 DEF Contract!NotAppended
      <4>2. CASE StoredState' \in {state, NoState}
        BY <4>2 DEF Contract!Interrupted, OneSector
      <4> QED BY <3>1, <4>1, <4>2
    <3>4. rest \in Contract!Remains(Writing, state, Was)
      BY <2>3, <3>3 DEF Contract!Remains, Writing
    <3>5. rest.saved = StoredState' /\ rest.hidden = Hidden'
      BY <2>2
    <3> QED BY <3>4, <3>5
  <2>4. CASE ~InCall
    <3>1. Now \in Contract!Remains(Writing, state, Was)
      BY <2>4 DEF Contract!Remains, Writing, Was
    <3>2. Now.saved = StoredState' /\ Now.hidden = Hidden'
      BY <1>h, <2>1, <2>2, <2>4 DEF Now, InCall
    <3> QED BY <3>1, <3>2
  <2> QED BY <2>3, <2>4
<1>2. CASE LoadRecord
  <2>1. flash' = flash /\ pc = "load"
    BY <1>2 DEF LoadRecord
  <2>2. StoredState' = StoredState /\ \E e \in 0 .. StoreWords : LogIs(e)'
    BY <1>t, <2>1, LogExists, FlashKept
  <2>3. Hidden' = {}
    BY <1>t, <2>2, NextNoneHidden DEF NoneHidden
  <2>4. Now \in Contract!Remains(Writing, state, Was)
    BY <2>1 DEF Contract!Remains, Writing, Was, InCall
  <2>5. Now.saved = StoredState' /\ Now.hidden = Hidden'
    BY <1>h, <2>2, <2>3 DEF Now
  <2> QED BY <2>4, <2>5
<1>3. PowerCut \/ LoadRecord
  BY DEF Next, Step, Call, SaveState, WriteItem, AppendRecord, Return, Fail, LoadEnd,
         StartWrite, StartCompaction, NoSpace, ScanRecord, ScanEnd, EraseSector, Erased,
         ProgramWord, PayloadWritten, RecordWritten, Compacted, Program, Written
<1> QED BY <1>1, <1>2, <1>3

\* However a call of the store ends, with a result or in a power cut, the record
\* of the state it leaves and the result are those that StoreContract has, which
\* is what DmselSelector takes for granted of append.
THEOREM WritesKeepTheContract ==
  ASSUME OneSector PROVE SpecWrites /\ []ScratchHolds => KeepsContract
<1>0. [NextWrites]_<<vars, before>> => [Next /\ before' = Was]_<<vars, before>>
  BY DEF NextWrites, Next, Step, Call
<1>1. [NextWrites]_<<vars, before>> => [Next]_vars
  BY <1>0 DEF vars
<1>2. SpecWrites => Spec
  BY <1>1, PTL DEF SpecWrites, InitWrites, Spec
<1>3. Init => BeforeInv
  BY DEF Init, BeforeInv, InCall
<1>4. StoreInv /\ StoreInv' /\ ScratchHolds /\ LogInv /\ LogInv' /\ BeforeInv
        /\ [NextWrites]_<<vars, before>> => BeforeInv'
  BY <1>0, BeforeStep
<1>5. SpecWrites /\ []ScratchHolds => [](StoreInv /\ LogInv /\ BeforeInv)
  BY <1>2, <1>3, <1>4, LogInvHolds, PTL DEF SpecWrites, InitWrites
<1>6. StoreInv /\ StoreInv' /\ ScratchHolds /\ LogInv /\ LogInv' /\ BeforeInv
        /\ [NextWrites]_<<vars, before>>
        => [InCall /\ pc' = "idle" =>
              Contract!Outcome(Writing, state, Was, Now', result')
           ]_<<vars, before>>
  BY <1>0, EndStep
<1>7. StoreInv /\ StoreInv' /\ ScratchHolds /\ LogInv /\ LogInv' /\ BeforeInv
        /\ [NextWrites]_<<vars, before>>
        => [pc' = "load" =>
              \E rest \in Contract!Remains(Writing, state, Was) :
                 rest.saved = StoredState' /\ rest.hidden = Hidden'
           ]_<<vars, before>>
  BY <1>0, CutStep
<1> QED BY <1>5, <1>6, <1>7, PTL DEF SpecWrites, KeepsContract, EndsAsPromised, CutAsPromised

=============================================================================
