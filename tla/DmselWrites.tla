----------------------------- MODULE DmselWrites -----------------------------
(***************************************************************************)
(* DmselStore below DmselSelector.  DmselSelector has of the store the     *)
(* state records: the latest one, those behind the end of the log, and     *)
(* whether store_end is the end of the log.  What it takes for granted of  *)
(* a write (StoreContract) is checked here of the words in the flash.      *)
(***************************************************************************)
EXTENDS DmselStore

VARIABLE before     \* history: the store when the call began

Contract == INSTANCE StoreContract
    WITH NoRecord <- NoState, Reliable <- (SectorWords = StoreWords /\ ~FlashErrors)

InCall == pc \notin {"load", "idle"}

\* The last state record of a chain of records behind the end of the log.
HiddenOffsets ==
    {o \in Offsets \ Log :
        /\ Readable(o) /\ RecordAt(o).type = "STATE"
        /\ \A p \in LogFrom[o + Size(RecordAt(o))] : RecordAt(p).type # "STATE"}
Hidden == {RecordAt(o).state : o \in HiddenOffsets}

\* The next record is written, and not at the end of the log.
Astray == storeEnd \in Offsets /\ storeEnd # LogEnd /\ flash[storeEnd] = Blank

\* The store as StoreContract has it.
Now == [saved |-> StoredState, hidden |-> Hidden, astray |-> Astray]

\* "writing" of DmselSelector, and the store when it began.
Writing == IF ~InCall THEN "nothing"
           ELSE IF rec.type = "STATE" THEN "state" ELSE "item"
Was == IF InCall THEN before ELSE Now

\* DmselStore (Init, Next) with the history.
InitWrites == Init /\ before = Now

NextWrites ==
    \/ \E st \in States : SaveState(st) /\ before' = Was
    \/ \E id \in Ids, v \in Values \cup {NoValue} : WriteItem(id, v) /\ before' = Was
    \/ LoadRecord /\ before' = Was
    \/ LoadEnd /\ before' = Was
    \/ StartWrite /\ before' = Was
    \/ StartCompaction /\ before' = Was
    \/ NoSpace /\ before' = Was
    \/ ScanRecord /\ before' = Was
    \/ ScanEnd /\ before' = Was
    \/ EraseSector /\ before' = Was
    \/ Erased /\ before' = Was
    \/ ProgramWord /\ before' = Was
    \/ PayloadWritten /\ before' = Was
    \/ RecordWritten /\ before' = Was
    \/ Compacted /\ before' = Was
    \/ Fail /\ before' = Was
    \/ PowerCut /\ before' = Was

SpecWrites == InitWrites /\ [][NextWrites]_<<vars, before>>

FairSpecWrites == SpecWrites /\ WF_vars(Step)

\* A call ends as StoreWritten of DmselSelector has it: what is in the store
\* then belongs to what append returns (append, compact).
EndsAsPromised ==
    [][ InCall /\ pc' = "idle" =>
          Contract!Outcome(Writing, state, Was, Now', result')
      ]_<<vars, before>>

\* A power cut leaves the records that PowerCut of DmselSelector leaves; the
\* next dmsel_init finds the end of the log (write_record, compact, load_state).
CutAsPromised ==
    [][ pc' = "load" =>
          \E rest \in Contract!Remains(Writing, state, Was) :
             rest.saved = StoredState' /\ rest.hidden = Hidden'
      ]_<<vars, before>>

\* However a write of the store ends, DmselSelector has that end.
KeepsContract == EndsAsPromised /\ CutAsPromised

=============================================================================
