---------------------------- MODULE StoreContract ----------------------------
(***************************************************************************)
(* What append (selector/src/dmsel.c) may leave of the state records in    *)
(* the store, and what it returns then.  DmselSelector takes its writes    *)
(* from here; DmselWrites checks of the words in the flash that they do    *)
(* this.                                                                   *)
(*                                                                         *)
(* A store is a record of                                                  *)
(*   saved    the latest state record of the log, or NoRecord;             *)
(*   hidden   the state records behind the end of the log that would be    *)
(*            the latest if the log grew up to them;                       *)
(*   astray   store_end is not the end of the log and the flash is blank   *)
(*            there: the next record is not added to the log.              *)
(*                                                                         *)
(* "was" is the store before a write and "writing" what is written; "ram"  *)
(* is the state of the banks in RAM.                                       *)
(***************************************************************************)
CONSTANTS
    NoRecord,       \* the store holds no valid state record
    Reliable        \* the store is one sector of a flash that does not fail

\* The record is written at store_end.  Behind the end of the log nobody reads
\* it; at the end of the log it can close the gap to a hidden one.
Appended(writing, ram, was) ==
    LET new == IF writing = "state" THEN {ram} ELSE {}
    IN  IF was.astray
          THEN [saved : {was.saved}, hidden : SUBSET (was.hidden \cup new),
                astray : BOOLEAN]
          ELSE [saved : was.hidden \cup (IF writing = "state" THEN new ELSE {was.saved}),
                hidden : SUBSET was.hidden, astray : {FALSE}]

\* compact writes the state that is in RAM, also when the record that does not
\* fit is an item, and nothing is left of what was there.
Compacted(ram) == [saved : {ram}, hidden : {{}}, astray : {FALSE}]

\* A compaction stops behind its erase and leaves store_end where it was; of
\* several sectors only the first ones may be erased.
Interrupted(ram, was) ==
    IF Reliable
      THEN [saved : {ram, NoRecord}, hidden : {{}}, astray : {FALSE}]
      ELSE [saved : {ram}, hidden : {{}}, astray : BOOLEAN]
             \cup [saved : {NoRecord},
                   hidden : SUBSET ((was.hidden \cup {was.saved}) \ {NoRecord}),
                   astray : BOOLEAN]

\* The record is not there or only in part.
NotAppended(was) ==
    [saved : {was.saved}, hidden : {was.hidden}, astray : {was.astray, FALSE}]

\* What a write may leave that does not end well.
Remains(writing, ram, was) ==
    IF writing = "nothing"
      THEN {was}
      ELSE NotAppended(was) \cup Appended(writing, ram, was)
             \cup Compacted(ram) \cup Interrupted(ram, was)

\* How a write ends: append answers NOSPACE when the record does not fit, with
\* or without a compaction.
Outcome(writing, ram, was, is, r) ==
    \/ r = "OK" /\ is \in Appended(writing, ram, was) \cup Compacted(ram)
    \/ r = "NOSPACE" /\ is \in Compacted(ram)
    \/ r = "NOSPACE" /\ is = was /\ writing = "item"
    \/ r = "IO" /\ is \in Remains(writing, ram, was) /\ ~Reliable

=============================================================================
