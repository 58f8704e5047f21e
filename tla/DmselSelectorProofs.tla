------------------------ MODULE DmselSelectorProofs ------------------------
(***************************************************************************)
(* What TLAPS proves about DmselSelector, for any number of banks, tries   *)
(* and versions.                                                           *)
(***************************************************************************)
EXTENDS DmselSelector, TLAPS

\* The assumptions on the constants, for the leaves that need them.
LEMMA ConstantFacts ==
    /\ BankCount \in Nat /\ MaxBanks \in Nat /\ BankCount <= MaxBanks
    /\ MaxTries \in 0 .. 255
    /\ Versions \subseteq Nat
    /\ Reliable \in BOOLEAN /\ Watchdog \in BOOLEAN
    /\ NoRecord \notin Records
    /\ NoRequest \notin Requests
BY BanksAssumption, TriesAssumption, VersionsAssumption, SwitchesAssumption,
   NoRecordAssumption, NoRequestAssumption

\* No bank is a bank number, whatever the number of banks is.
LEMMA NoBank == NO_BANK \notin Banks /\ NO_BANK \in Nat
BY ConstantFacts DEF NO_BANK, Banks

\* The blank state of dmsel_init is a state of the banks.
LEMMA BlankIsARecord == BlankRecord \in Records
BY ConstantFacts DEF BlankRecord, Records, BankStates, Banks

\* load_state gives a state of the banks, with or without a record.
LEMMA LoadedType ==
    ASSUME saved \in Records \cup {NoRecord}
    PROVE  Loaded \in Records
BY BlankIsARecord DEF Loaded

\* A bank whose image is refused gets a bank state.
LEMMA RefusedType ==
    ASSUME image \in [Banks -> Images], NEW b \in Banks, ~Good(b)
    PROVE  Refused(b) \in BankStates
BY DEF Refused, BankStates

\* What rebuild finds in the banks is a state of the banks.
LEMMA RebuildType ==
    ASSUME image \in [Banks -> Images]
    PROVE  rebuild \in Records
<1>1. (IF \E b \in Banks : IsNewest(b) THEN CHOOSE b \in Banks : IsNewest(b)
       ELSE NO_BANK) \in Banks \cup {NO_BANK}
  OBVIOUS
<1>2. [b \in Banks |-> IF Good(b) THEN "VALID" ELSE Refused(b)]
        \in [Banks -> BankStates]
  BY DEF Refused, BankStates
<1>3. [b \in Banks |-> 0] \in [Banks -> 0 .. 255]
  OBVIOUS
<1>. QED
  BY <1>1, <1>2, <1>3 DEF rebuild, Records

\* Changing the state, or the state and the tries, of a bank.
LEMMA StateUpdateType ==
    ASSUME NEW r \in Records, NEW b \in Banks, NEW s \in BankStates
    PROVE  [r EXCEPT !.state[b] = s] \in Records
BY DEF Records

\* Changing the tries of one bank gives a state of the banks.
LEMMA TriesUpdateType ==
    ASSUME NEW r \in Records, NEW b \in Banks, NEW t \in 0 .. 255
    PROVE  [r EXCEPT !.tries[b] = t] \in Records
BY DEF Records

\* The counter of the tries can be zero.
LEMMA ZeroTries == 0 \in 0 .. 255
OBVIOUS

\* Changing the state and the tries of one bank gives a state of the banks.
LEMMA StateTriesUpdateType ==
    ASSUME NEW r \in Records, NEW b \in Banks, NEW s \in BankStates
    PROVE  [r EXCEPT !.state[b] = s, !.tries[b] = 0] \in Records
<1>. DEFINE r1 == [r EXCEPT !.state[b] = s]
<1>1. r1 \in Records
  BY StateUpdateType
<1>2. [r1 EXCEPT !.tries[b] = 0] \in Records
  BY <1>1, TriesUpdateType, ZeroTries
<1>3. [r1 EXCEPT !.tries[b] = 0] = [r EXCEPT !.state[b] = s, !.tries[b] = 0]
  OBVIOUS
<1>. QED
  BY <1>2, <1>3

\* What dmsel_select stores is a state of the banks.
LEMMA SelectUpdateType ==
    ASSUME NEW r \in Records, NEW b \in Banks, NEW s \in BankStates,
           NEW p \in Banks \cup {NO_BANK}
    PROVE  [r EXCEPT !.previous = p, !.state[b] = s, !.tries[b] = 0,
                     !.selected = b] \in Records
<1>. DEFINE r1 == [r EXCEPT !.previous = p]
            r2 == [r1 EXCEPT !.state[b] = s, !.tries[b] = 0]
<1>1. r1 \in Records
  BY DEF Records
<1>2. r2 \in Records
  BY <1>1, StateTriesUpdateType
<1>3. [r2 EXCEPT !.selected = b] \in Records
  BY <1>2 DEF Records
<1>. QED
  BY <1>3

-----------------------------------------------------------------------------
(***************************************************************************)
(* Type correctness.                                                       *)
(***************************************************************************)

\* The order before the first pass has its type.
LEMMA NoOrderType == NoOrder \in [Positions -> Int]
BY ConstantFacts DEF NoOrder, NO_BANK

\* Every variable has its type after the installation.
LEMMA InitType == Init => TypeOK
<1>. SUFFICES ASSUME Init PROVE TypeOK
  OBVIOUS
<1>1. image \in [Banks -> Images] /\ saved \in Records \cup {NoRecord}
  BY DEF Init
<1>2. /\ ram \in Records /\ stateValid \in BOOLEAN
      /\ running \in Banks \cup {NO_BANK}
  BY BlankIsARecord DEF Init
<1>3. /\ phase \in Phases /\ pass \in {0, 1}
      /\ order \in [Positions -> Int] /\ k \in 0 .. BankCount + 3
      /\ phase = "off"
  BY NoOrderType, ConstantFacts DEF Init, Phases
<1>4. starts \in [Banks -> Nat] /\ dropped \subseteq Banks
  BY DEF Init
<1>5. home \in Banks \cup {NO_BANK} /\ written \subseteq Banks
  BY DEF Init
<1>. QED
  BY <1>1, <1>2, <1>3, <1>4, <1>5 DEF Init, TypeOK

\* The assignments that every step of the processor going off makes.
LEMMA OffType ==
    ASSUME TypeOK, Off, image' = image, saved' \in Records \cup {NoRecord},
           hidden' \subseteq Records,
           UNCHANGED <<starts, dropped>>, home' \in Banks \cup {NO_BANK},
           written' \subseteq Banks
    PROVE  TypeOK'
<1>1. /\ ram' \in Records /\ stateValid' \in BOOLEAN
      /\ running' \in Banks \cup {NO_BANK}
  BY BlankIsARecord DEF Off
<1>2. /\ phase' \in Phases /\ pass' \in {0, 1}
      /\ order' \in [Positions -> Int] /\ k' \in 0 .. BankCount + 3
      /\ phase' = "off"
  BY NoOrderType, ConstantFacts DEF Off, Phases
<1>3. starts' \in [Banks -> Nat] /\ dropped' \subseteq Banks
  BY DEF TypeOK
<1>. QED
  BY <1>1, <1>2, <1>3 DEF Off, TypeOK

\* What the selector does after a reset.
LEMMA SelectorType ==
    ASSUME TypeOK, Selector
    PROVE  TypeOK'
<1>. USE DEF TypeOK, flash, store, choice, interface, history
<1>1. CASE PowerOn
  <2>1. ram' \in Records /\ stateValid' \in BOOLEAN /\ astray' \in BOOLEAN
    BY <1>1, LoadedType DEF PowerOn, LoadState
  <2>2. image' = image /\ saved' = saved /\ hidden' = hidden
    BY <1>1 DEF PowerOn, LoadState
  <2>3. phase' \in Phases /\ running' \in Banks \cup {NO_BANK}
    BY <1>1 DEF PowerOn, Phases
  <2>. QED
    BY <1>1, <2>1, <2>2, <2>3, ConstantFacts DEF PowerOn
<1>2. CASE BeginPass
  <2>1. ram' \in Records
    BY <1>2, RebuildType DEF BeginPass
  <2>2. order' \in [Positions -> Int]
    <3>1. ram'.selected \in Int /\ ram'.previous \in Int
      BY <2>1, ConstantFacts DEF Records, NO_BANK, Banks
    <3>2. \A i \in Positions : i - 3 \in Int
      BY ConstantFacts DEF Positions
    <3>3. order' = CandidateOrder(ram')
      BY <1>2 DEF BeginPass
    <3>. HIDE DEF TypeOK, flash, store, choice, interface, history
    <3>. QED
      BY <3>1, <3>2, <3>3 DEF CandidateOrder
  <2>. QED
    BY <1>2, <2>1, <2>2, ConstantFacts DEF BeginPass, Choosing
<1>3. CASE SkipCandidate
  BY <1>3, ConstantFacts DEF SkipCandidate, Choosing, Positions
<1>4. CASE RefuseCandidate
  <2>. DEFINE c == order[k]
  <2>1. c \in Banks
    BY <1>4 DEF RefuseCandidate, Candidate
  <2>2. ram' \in Records /\ stateValid' = TRUE /\ writing' = "state"
    <3>1. "INVALID" \in BankStates
      BY DEF BankStates
    <3>. QED
      BY <1>4, <2>1, <3>1, RefusedType, StateUpdateType
         DEF RefuseCandidate, SaveState
  <2>3. dropped' \subseteq Banks
    BY <1>4, <2>1 DEF RefuseCandidate
  <2>. QED
    BY <1>4, <2>2, <2>3, ConstantFacts
       DEF RefuseCandidate, Choosing, Positions
<1>5. CASE ChooseCandidate
  <2>. DEFINE c == order[k]
  <2>1. c \in Banks
    BY <1>5 DEF ChooseCandidate, Candidate
  <2>2. [ram EXCEPT !.selected = c, !.previous = NO_BANK] \in Records
    BY <2>1 DEF Records
  <2>3. [ram EXCEPT !.selected = c, !.tries[c] = (@ + 1) % 256] \in Records
    <3>1. (ram.tries[c] + 1) % 256 \in 0 .. 255
      BY <2>1 DEF Records
    <3>2. [ram EXCEPT !.selected = c] \in Records
      BY <2>1 DEF Records
    <3>. QED
      BY <2>1, <3>1, <3>2, TriesUpdateType
  <2>. QED
    BY <1>5, <2>1, <2>2, <2>3, ConstantFacts
       DEF ChooseCandidate, SaveState, Choosing, Phases
<1>6. CASE EndPass
  BY <1>6, ConstantFacts DEF EndPass, Choosing, Phases
<1>7. CASE Jump
  BY <1>7, ConstantFacts DEF Jump, WatchdogNeeded, OnTrial, Phases
<1>8. CASE JumpRefused
  BY <1>8, ConstantFacts DEF JumpRefused, WatchdogNeeded, OnTrial, Phases
<1>. QED
  BY <1>1, <1>2, <1>3, <1>4, <1>5, <1>6, <1>7, <1>8 DEF Selector

\* dmsel_verify, on its own or in dmsel_select.
LEMMA VerifyBankType ==
    ASSUME TypeOK, NEW b \in Banks, VerifyBank(b)
    PROVE  /\ ram' \in Records /\ stateValid' \in BOOLEAN
           /\ writing' \in {"nothing", "state", "item"}
           /\ dropped' \subseteq Banks
           /\ result' \in {"OK", "EMPTY", "BAD"}
<1>1. Verified(b) \in BankStates
  BY DEF TypeOK, Verified, Refused, BankStates, Records
<1>2. result' \in {"OK", "EMPTY", "BAD"}
  BY DEF TypeOK, VerifyBank, Images
<1>3. [ram EXCEPT !.state[b] = Verified(b), !.tries[b] = 0] \in Records
  BY <1>1, StateTriesUpdateType DEF TypeOK
<1>. QED
  BY <1>2, <1>3 DEF TypeOK, VerifyBank, SaveState

\* What the running firmware asks for.
LEMMA FirmwareType ==
    ASSUME TypeOK, FirmwareInit \/ Calls \/ SelectVerified
    PROVE  TypeOK'
<1>. USE DEF TypeOK, flash, store, choice, interface, history
<1>1. CASE FirmwareInit
  <2>1. ram' \in Records /\ stateValid' \in BOOLEAN /\ astray' \in BOOLEAN
    BY <1>1, LoadedType DEF FirmwareInit, LoadState
  <2>2. image' = image /\ saved' = saved /\ hidden' = hidden
    BY <1>1 DEF FirmwareInit, LoadState
  <2>3. phase' \in Phases /\ running' = running /\ running \in Banks
    BY <1>1 DEF FirmwareInit, Phases
  <2>. QED
    BY <1>1, <2>1, <2>2, <2>3 DEF FirmwareInit
<1>2. ASSUME NEW b \in Banks, Verify(b) PROVE TypeOK'
  BY <1>2, VerifyBankType DEF Verify, Serving
<1>3. ASSUME NEW b \in Banks, NEW trial \in BOOLEAN, Select(b, trial)
      PROVE  TypeOK'
  BY <1>3, VerifyBankType DEF Select, Serving, Requests
<1>4. CASE Ready
  <2>1. CASE OnTrial
    <3>1. "CONFIRMED" \in BankStates
      BY DEF BankStates
    <3>. DEFINE r1 == [ram EXCEPT !.state[running] = "CONFIRMED",
                                  !.tries[running] = 0]
    <3>2. r1 \in Records
      BY <2>1, <3>1, StateTriesUpdateType DEF OnTrial
    <3>3. [r1 EXCEPT !.previous = NO_BANK] \in Records
      BY <3>2 DEF Records
    <3>4. ram' \in Records
      BY <1>4, <2>1, <3>3 DEF Ready, SaveState
    <3>. QED
      BY <1>4, <2>1, <3>4 DEF Ready, SaveState, Serving
  <2>2. CASE ~OnTrial
    BY <1>4, <2>2 DEF Ready, Serving
  <2>. QED
    BY <2>1, <2>2
<1>5. CASE WritePersistency
  BY <1>5 DEF WritePersistency, Serving
<1>6. CASE SelectVerified
  <2>. DEFINE b == request.bank
  <2>1. b \in Banks /\ request.trial \in BOOLEAN
    BY <1>6 DEF SelectVerified, Requests
  <2>2. CASE result # "OK"
    BY <1>6, <2>2 DEF SelectVerified
  <2>3. CASE result = "OK"
    <3>1. Back(b) \in Banks \cup {NO_BANK}
      BY DEF Back, Records
    <3>2. ram' \in Records
      <4>. DEFINE p == IF request.trial THEN Back(b) ELSE NO_BANK
                  st == IF request.trial THEN "TRIAL" ELSE "CONFIRMED"
      <4>1. ram' = [ram EXCEPT !.previous = p, !.state[b] = st,
                               !.tries[b] = 0, !.selected = b]
        BY <1>6, <2>3 DEF SelectVerified, SaveState
      <4>2. p \in Banks \cup {NO_BANK} /\ st \in BankStates
        BY <3>1 DEF BankStates
      <4>. QED
        BY <2>1, <4>1, <4>2, SelectUpdateType
    <3>3. starts' \in [Banks -> Nat] /\ dropped' \subseteq Banks
      BY <1>6, <2>1, <2>3 DEF SelectVerified
    <3>. QED
      BY <1>6, <2>3, <3>2, <3>3 DEF SelectVerified, SaveState
  <2>. QED
    BY <2>2, <2>3
<1>. QED
  BY <1>1, <1>2, <1>3, <1>4, <1>5, <1>6 DEF Calls

\* The parts of a store that StoreContract gives.
LEMMA StoreParts ==
    ASSUME NEW A, NEW B, NEW C, NEW rest \in [saved : A, hidden : B, astray : C]
    PROVE  rest.saved \in A /\ rest.hidden \in B /\ rest.astray \in C
OBVIOUS

\* Which stores a write may leave, for a new record or none.
LEMMA RestIs ==
    ASSUME NEW rest \in Remains
    PROVE  \/ /\ rest.saved = saved /\ rest.hidden = hidden
              /\ rest.astray \in {astray, FALSE}
           \/ /\ rest.saved \in hidden \cup {saved, ram}
              /\ rest.hidden \subseteq hidden \cup (IF astray THEN {ram} ELSE {})
              /\ rest.astray \in (IF astray THEN BOOLEAN ELSE {FALSE})
           \/ /\ rest.saved \in {ram, NoRecord}
              /\ rest.hidden \subseteq (hidden \cup {saved}) \ {NoRecord}
              /\ rest.astray \in BOOLEAN
              /\ Reliable => rest.hidden = {} /\ rest.astray = FALSE
<1>. /\ Store.saved = saved /\ Store.hidden = hidden /\ Store.astray = astray
  BY DEF Store
<1>1. CASE rest \in {Store}
  BY <1>1
<1>2. CASE rest \in Contract!NotAppended(Store)
  BY <1>2, StoreParts DEF Contract!NotAppended
<1>3. CASE rest \in Contract!Appended(writing, ram, Store)
  BY <1>3, StoreParts DEF Contract!Appended
<1>4. CASE rest \in Contract!Compacted(ram)
  BY <1>4, StoreParts DEF Contract!Compacted
<1>5. CASE rest \in Contract!Interrupted(ram, Store)
  BY <1>5, StoreParts DEF Contract!Interrupted
<1>. QED
  BY <1>1, <1>2, <1>3, <1>4, <1>5 DEF Remains, Contract!Remains

\* What a write leaves in the store has its type, whatever the flash does.
LEMMA RestType ==
    ASSUME TypeOK, NEW rest \in Remains
    PROVE  /\ rest.saved \in Records \cup {NoRecord}
           /\ rest.hidden \subseteq Records
           /\ rest.astray \in BOOLEAN
<1>1. /\ saved \in Records \cup {NoRecord} /\ hidden \subseteq Records
      /\ astray \in BOOLEAN /\ ram \in Records
  BY DEF TypeOK
<1>. QED
  BY <1>1, RestIs

\* A write to the store ends, or the power goes, or the firmware hangs.
LEMMA SurroundingsType ==
    ASSUME TypeOK,
           \/ StoreWritten \/ PowerCut \/ Hang \/ WatchdogReset
           \/ \E b \in Banks : WriteBank(b) \/ Decay(b)
    PROVE  TypeOK'
<1>. USE DEF TypeOK, flash, store, choice, interface, history
<1>1. CASE StoreWritten
  <2>. PICK rest \in Remains, r \in {"OK", "NOSPACE", "IO"} :
         /\ Left(rest) /\ astray' = rest.astray
         /\ result' = Returned(r)
         /\ request' = IF r = "OK" THEN request ELSE NoRequest
         /\ NoteConfirmed(rest.saved)
    BY <1>1 DEF StoreWritten
  <2>1. /\ saved' \in Records \cup {NoRecord} /\ hidden' \subseteq Records
        /\ astray' \in BOOLEAN
    BY RestType DEF Left
  <2>2. result' \in {"none", "OK", "EMPTY", "BAD", "IO", "NOSPACE"}
    BY DEF Returned
  <2>3. home' \in Banks \cup {NO_BANK} /\ written' \subseteq Banks
    BY DEF NoteConfirmed
  <2>. QED
    BY <1>1, <2>1, <2>2, <2>3 DEF StoreWritten
<1>2. CASE PowerCut
  <2>1. saved' \in Records \cup {NoRecord} /\ hidden' \subseteq Records
    BY <1>2, RestType DEF PowerCut, Left
  <2>2. home' \in Banks \cup {NO_BANK} /\ written' \subseteq Banks
    BY <1>2 DEF PowerCut, NoteConfirmed
  <2>. QED
    BY <1>2, <2>1, <2>2, OffType DEF PowerCut
<1>3. CASE Hang
  BY <1>3 DEF Hang, Serving, Phases
<1>4. CASE WatchdogReset
  BY <1>4, OffType DEF WatchdogReset
<1>5. ASSUME NEW b \in Banks, WriteBank(b) PROVE TypeOK'
  BY <1>5 DEF WriteBank, Serving
<1>6. ASSUME NEW b \in Banks, Decay(b) PROVE TypeOK'
  BY <1>6 DEF Decay, Serving, Images
<1>. QED
  BY <1>1, <1>2, <1>3, <1>4, <1>5, <1>6

\* A step that changes nothing keeps the types.
LEMMA StutterType == TypeOK /\ UNCHANGED vars => TypeOK'
BY DEF TypeOK, vars

\* Every step keeps the types.
LEMMA NextType == TypeOK /\ [Next]_vars => TypeOK'
BY SelectorType, FirmwareType, SurroundingsType, StutterType DEF Next

\* Whatever resets, calls, failing writes and new images come, every variable
\* keeps its type, and a bank that was chosen is one.
THEOREM TypeCorrect == Spec => []TypeOK
BY InitType, NextType, PTL DEF Spec

-----------------------------------------------------------------------------
(***************************************************************************)
(* What StoreContract says of a write, when no record lies behind the end  *)
(* of the log - which is so as long as the store is one sector of a flash  *)
(* that does not fail.                                                     *)
(***************************************************************************)
Orderly == hidden = {} /\ astray = FALSE

\* A write that is cut leaves the old record, that of RAM, or none.
LEMMA RestWithoutHidden ==
    ASSUME hidden = {}, NEW rest \in Remains
    PROVE  rest.saved \in {saved, ram, NoRecord}
BY RestIs

\* So does every step that may change the record.
LEMMA SavedWithoutHidden ==
    ASSUME hidden = {}, StoreWritten \/ PowerCut \/ WatchdogReset
    PROVE  saved' \in {saved, ram, NoRecord}
BY RestWithoutHidden DEF StoreWritten, PowerCut, WatchdogReset, Left

\* A reliable store has the record of RAM when a write of the state has ended.
LEMMA WrittenFacts ==
    ASSUME Reliable, Orderly, TypeOK, StoreWritten
    PROVE  /\ saved' = ram \/ (saved' = saved /\ writing = "item")
           /\ writing # "nothing" /\ writing' = "nothing"
           /\ UNCHANGED <<image, ram, phase, running, starts, dropped>>
<1>1. PICK rest \in Remains, r \in {"OK", "NOSPACE", "IO"} :
         Outcome(rest, r) /\ Left(rest)
  BY DEF StoreWritten
<1>2. rest.saved = ram \/ (rest.saved = saved /\ writing = "item")
  <2>1. CASE rest = Store /\ writing = "item"
    BY <2>1 DEF Store
  <2>2. CASE rest \in Contract!Compacted(ram)
    BY <2>2, StoreParts DEF Contract!Compacted
  <2>3. CASE rest \in Contract!Appended(writing, ram, Store)
    <3>1. Store.saved = saved /\ Store.hidden = {} /\ Store.astray = FALSE
      BY DEF Store, Orderly
    <3>2. rest.saved \in {} \cup (IF writing = "state" THEN {ram} ELSE {saved})
      BY <2>3, <3>1, StoreParts DEF Contract!Appended
    <3>. QED
      BY <3>2 DEF StoreWritten, TypeOK
  <2>. QED
    BY <1>1, <2>1, <2>2, <2>3 DEF Outcome, Contract!Outcome
<1>. QED
  BY <1>1, <1>2 DEF StoreWritten, Left

\* Nothing that is written to a reliable store gets behind the end of its log.
LEMMA OrderlyRest ==
    ASSUME Reliable, Orderly, NEW rest \in Remains
    PROVE  rest.hidden = {} /\ rest.astray = FALSE
BY RestIs DEF Orderly

\* Every step keeps a reliable store orderly.
LEMMA OrderlyStep ==
    ASSUME Reliable, Orderly, [Next]_vars
    PROVE  Orderly'
<1>. USE DEF flash, store, Orderly
<1>1. CASE StoreWritten
  BY <1>1, OrderlyRest DEF StoreWritten, Left
<1>2. CASE PowerCut
  BY <1>2, OrderlyRest DEF PowerCut, Left, Off
<1>3. CASE Selector
  BY <1>3 DEF Selector, PowerOn, LoadState, BeginPass, SkipCandidate,
     RefuseCandidate, ChooseCandidate, EndPass, Jump, JumpRefused
<1>4. CASE FirmwareInit \/ Calls \/ SelectVerified
  BY <1>4 DEF FirmwareInit, LoadState, Calls, Verify, Select, Ready,
     WritePersistency, SelectVerified
<1>5. CASE Hang \/ WatchdogReset \/ \E b \in Banks : WriteBank(b) \/ Decay(b)
  BY <1>5 DEF Hang, WatchdogReset, Off, WriteBank, Decay
<1>6. CASE UNCHANGED vars
  BY <1>6 DEF vars
<1>. QED
  BY <1>1, <1>2, <1>3, <1>4, <1>5, <1>6 DEF Next

\* A reliable store never has a record behind the end of its log.
LEMMA StoreIsOrderly ==
    ASSUME Reliable
    PROVE  Spec => []Orderly
<1>1. Init => Orderly
  BY DEF Init, Orderly
<1>2. Orderly /\ [Next]_vars => Orderly'
  BY OrderlyStep
<1>. QED
  BY <1>1, <1>2, PTL DEF Spec

-----------------------------------------------------------------------------
(***************************************************************************)
(* The tries of an image on trial, with a reliable store.  The bound       *)
(* follows from an inductive invariant: neither the record in RAM nor the  *)
(* one in the store ever counts fewer tries than there were starts         *)
(* (TriesInv), because the jump waits for the try to be in the store.      *)
(***************************************************************************)

\* A record with no bank on trial that was just rebuilt, or is blank.
LEMMA NoTrialAfterOff ==
    ASSUME Off PROVE \A b \in Banks : ram'.state[b] # "TRIAL"
BY DEF Off, BlankRecord

\* No bank is on trial when the state was rebuilt from the banks.
LEMMA NoTrialAfterRebuild ==
    ASSUME NEW b \in Banks PROVE rebuild.state[b] # "TRIAL"
BY DEF rebuild, Refused

\* The tries of a record are numbers of 8 bits ...
LEMMA TriesOfRecord ==
    ASSUME NEW r \in Records, NEW b \in Banks
    PROVE  r.tries[b] \in 0 .. 255 /\ r.tries[b] \in Nat
<1>1. r.tries \in [Banks -> 0 .. 255]
  BY DEF Records
<1>. QED
  BY <1>1

\* ... and one more than the tries that are left does not overflow.
LEMMA OneMoreTry ==
    ASSUME NEW n \in 0 .. 255, n < MaxTries
    PROVE  (n + 1) % 256 = n + 1
<1>1. n + 1 \in 0 .. 255
  BY ConstantFacts
<1>. QED
  BY <1>1

\* The steps that change neither the records nor the starts.
LEMMA QuietTries ==
    ASSUME TypeOK, TriesInv, UNCHANGED <<saved, ram, starts>>, writing' # "item",
           phase' # "boot"
    PROVE  TriesInv'
BY DEF TypeOK, TriesInv, RamCounts, StoreCounts, SavedBeforeTheJump,
       ItemsComeFromTheFirmware, TrialStartsAreBounded

\* What is read from the store does not count less than was started.
LEMMA LoadTries ==
    ASSUME TypeOK, TriesInv, UNCHANGED <<saved, starts, writing>>, ram' = Loaded,
           writing # "item", phase' # "boot"
    PROVE  TriesInv'
<1>1. \A b \in Banks : BlankRecord.state[b] # "TRIAL"
  BY DEF BlankRecord
<1>. QED
  BY <1>1 DEF Loaded, TypeOK, TriesInv, RamCounts, StoreCounts,
     SavedBeforeTheJump, ItemsComeFromTheFirmware, TrialStartsAreBounded

\* dmsel_choose and dmsel_boot.
LEMMA SelectorTries ==
    ASSUME TypeOK, TriesInv, Selector
    PROVE  TriesInv'
<1>. USE DEF flash, store, choice, interface, history
<1>1. CASE PowerOn
  <2>1. writing # "item"
    BY <1>1 DEF PowerOn, TriesInv, ItemsComeFromTheFirmware
  <2>. QED
    BY <1>1, <2>1, LoadTries DEF PowerOn, LoadState
<1>2. CASE BeginPass
  <2>1. \A b \in Banks : ram'.state[b] = "TRIAL" => ram' = ram
    BY <1>2, NoTrialAfterRebuild DEF BeginPass
  <2>. QED
    BY <1>2, <2>1
       DEF BeginPass, Choosing, TriesInv, RamCounts, StoreCounts,
           SavedBeforeTheJump, ItemsComeFromTheFirmware, TrialStartsAreBounded
<1>3. CASE SkipCandidate
  BY <1>3, QuietTries DEF SkipCandidate, Choosing
<1>4. CASE RefuseCandidate
  <2>. DEFINE c == order[k]
  <2>1. c \in Banks
    BY <1>4 DEF RefuseCandidate, Candidate
  <2>2. \A b \in Banks : ram'.state[b] = "TRIAL" =>
           ram.state[b] = "TRIAL" /\ ram'.tries[b] = ram.tries[b]
    BY <1>4, <2>1 DEF RefuseCandidate, SaveState, Refused, TypeOK, Records
  <2>. QED
    BY <1>4, <2>2
       DEF RefuseCandidate, SaveState, Choosing, TriesInv, RamCounts,
           StoreCounts, SavedBeforeTheJump, ItemsComeFromTheFirmware,
           TrialStartsAreBounded
<1>5. CASE ChooseCandidate
  <2>. DEFINE c == order[k]
  <2>1. c \in Banks /\ running' = c /\ writing' = "state" /\ phase' = "boot"
    BY <1>5 DEF ChooseCandidate, Candidate, SaveState
  <2>2. CASE ram.state[c] = "TRIAL"
    <3>1. ram.tries[c] \in 0 .. 255 /\ ram.tries[c] < MaxTries
      <4>1. ram.tries[c] \in 0 .. 255
        BY <2>1, TriesOfRecord DEF TypeOK
      <4>2. ~TrialOver(c)
        BY <1>5 DEF ChooseCandidate
      <4>. QED
        BY <2>2, <4>1, <4>2, ConstantFacts DEF TrialOver
    <3>2. (ram.tries[c] + 1) % 256 = ram.tries[c] + 1
      BY <3>1, OneMoreTry
    <3>3. /\ ram'.state = ram.state
          /\ ram'.tries = [ram.tries EXCEPT ![c] = ram.tries[c] + 1]
      BY <1>5, <2>1, <2>2, <3>2
         DEF ChooseCandidate, SaveState, TypeOK, Records
    <3>4. RamCounts'
      <4>1. starts' = starts
        BY <1>5 DEF ChooseCandidate
      <4>2. SUFFICES ASSUME NEW b \in Banks, ram.state[b] = "TRIAL"
                     PROVE  /\ starts[b] <= ram'.tries[b]
                            /\ ram'.tries[b] <= MaxTries
                            /\ b = c => starts[b] < ram'.tries[b]
        BY <2>1, <3>3, <4>1 DEF RamCounts
      <4>3. /\ starts[b] \in Nat /\ ram.tries[b] \in Nat
            /\ starts[b] <= ram.tries[b] /\ ram.tries[b] <= MaxTries
        BY <4>2 DEF TypeOK, Records, TriesInv, RamCounts
      <4>4. ram'.tries[b] = IF b = c THEN ram.tries[b] + 1 ELSE ram.tries[b]
        BY <2>1, <3>3 DEF TypeOK, Records
      <4>. QED
        BY <3>1, <4>3, <4>4, ConstantFacts
    <3>. QED
      BY <1>5, <2>1, <3>4
         DEF ChooseCandidate, TriesInv, StoreCounts, SavedBeforeTheJump,
             ItemsComeFromTheFirmware, TrialStartsAreBounded
  <2>3. CASE ram.state[c] # "TRIAL"
    <3>1. ram'.state = ram.state /\ ram'.tries = ram.tries
      BY <1>5, <2>1, <2>3 DEF ChooseCandidate, SaveState, TypeOK, Records
    <3>. QED
      BY <1>5, <2>1, <2>3, <3>1
         DEF ChooseCandidate, TriesInv, RamCounts, StoreCounts,
             SavedBeforeTheJump, ItemsComeFromTheFirmware,
             TrialStartsAreBounded
  <2>. QED
    BY <2>2, <2>3
<1>6. CASE EndPass
  BY <1>6, QuietTries DEF EndPass, Choosing
<1>7. CASE Jump
  <2>1. saved = ram /\ ram \in Records /\ running \in Banks
    BY <1>7 DEF Jump, TriesInv, SavedBeforeTheJump, TypeOK
  <2>2. CASE OnTrial
    <3>1. /\ starts[running] < ram.tries[running]
          /\ ram.tries[running] <= MaxTries
      BY <1>7, <2>1, <2>2 DEF Jump, OnTrial, TriesInv, RamCounts
    <3>2. starts' = [starts EXCEPT ![running] = starts[running] + 1]
      BY <1>7, <2>2 DEF Jump
    <3>3. \A b \in Banks : ram.tries[b] \in Nat /\ starts[b] \in Nat
      BY <2>1 DEF Records, TypeOK
    <3>. QED
      BY <1>7, <2>1, <3>1, <3>2, <3>3, ConstantFacts
         DEF Jump, TypeOK, TriesInv, RamCounts, StoreCounts,
             SavedBeforeTheJump, ItemsComeFromTheFirmware,
             TrialStartsAreBounded
  <2>3. CASE ~OnTrial
    <3>1. phase' # "boot" /\ writing' # "item" /\ UNCHANGED <<saved, ram>>
      BY <1>7 DEF Jump
    <3>2. UNCHANGED starts
      BY <1>7, <2>3 DEF Jump
    <3>. QED
      BY <3>1, <3>2, QuietTries
  <2>. QED
    BY <2>2, <2>3
<1>8. CASE JumpRefused
  BY <1>8, QuietTries DEF JumpRefused
<1>. QED
  BY <1>1, <1>2, <1>3, <1>4, <1>5, <1>6, <1>7, <1>8 DEF Selector

\* A call that changes the state of banks but puts none on trial.
LEMMA NoNewTrial ==
    ASSUME TypeOK, TriesInv, UNCHANGED <<saved, starts>>,
           phase' = "serving", writing' # "item",
           \A b \in Banks : ram'.state[b] = "TRIAL" =>
               ram.state[b] = "TRIAL" /\ ram'.tries[b] = ram.tries[b]
    PROVE  TriesInv'
BY DEF TypeOK, TriesInv, RamCounts, StoreCounts, SavedBeforeTheJump,
       ItemsComeFromTheFirmware, TrialStartsAreBounded

\* dmsel_verify puts no bank on trial.
LEMMA VerifyBankTries ==
    ASSUME TypeOK, NEW v \in Banks, VerifyBank(v), writing = "nothing"
    PROVE  /\ writing' # "item"
           /\ \A b \in Banks : ram'.state[b] = "TRIAL" =>
                 ram.state[b] = "TRIAL" /\ ram'.tries[b] = ram.tries[b]
<1>1. CASE Verified(v) = ram.state[v]
  BY <1>1 DEF VerifyBank
<1>2. CASE Verified(v) # ram.state[v]
  <2>1. /\ ram' = [ram EXCEPT !.state[v] = Verified(v), !.tries[v] = 0]
        /\ writing' = "state"
    BY <1>2 DEF VerifyBank, SaveState
  <2>2. Verified(v) # "TRIAL"
    BY <1>2 DEF Verified, Refused
  <2>3. /\ ram'.state = [ram.state EXCEPT ![v] = Verified(v)]
        /\ ram'.tries = [ram.tries EXCEPT ![v] = 0]
    BY <2>1 DEF TypeOK, Records
  <2>4. ASSUME NEW b \in Banks, ram'.state[b] = "TRIAL"
        PROVE  ram.state[b] = "TRIAL" /\ ram'.tries[b] = ram.tries[b]
    BY <2>2, <2>3, <2>4 DEF TypeOK, Records
  <2>. QED
    BY <2>1, <2>4
<1>. QED
  BY <1>1, <1>2

\* The calls of the running firmware keep the invariant.
LEMMA FirmwareTries ==
    ASSUME TypeOK, TriesInv, FirmwareInit \/ Calls \/ SelectVerified
    PROVE  TriesInv'
<1>. USE DEF flash, store, choice, interface, history
<1>1. CASE FirmwareInit
  <2>1. writing # "item"
    BY <1>1 DEF FirmwareInit, TriesInv, ItemsComeFromTheFirmware
  <2>. QED
    BY <1>1, <2>1, LoadTries DEF FirmwareInit, LoadState
<1>2. ASSUME NEW v \in Banks, Verify(v) PROVE TriesInv'
  BY <1>2, VerifyBankTries, NoNewTrial DEF Verify, Serving
<1>3. ASSUME NEW v \in Banks, NEW trial \in BOOLEAN, Select(v, trial)
      PROVE  TriesInv'
  BY <1>3, VerifyBankTries, NoNewTrial DEF Select, Serving
<1>4. CASE Ready
  <2>1. CASE OnTrial
    <3>1. /\ ram' = [ram EXCEPT !.state[running] = "CONFIRMED",
                                !.tries[running] = 0,
                                !.previous = NO_BANK]
          /\ writing' = "state" /\ phase' = "serving"
          /\ UNCHANGED <<saved, starts>> /\ running \in Banks
      BY <1>4, <2>1 DEF Ready, SaveState, Serving, OnTrial
    <3>2. /\ ram'.state = [ram.state EXCEPT ![running] = "CONFIRMED"]
          /\ ram'.tries = [ram.tries EXCEPT ![running] = 0]
      BY <3>1 DEF TypeOK, Records
    <3>3. ASSUME NEW b \in Banks, ram'.state[b] = "TRIAL"
          PROVE  ram.state[b] = "TRIAL" /\ ram'.tries[b] = ram.tries[b]
      BY <3>1, <3>2, <3>3 DEF TypeOK, Records
    <3>. QED
      BY <3>1, <3>3, NoNewTrial
  <2>2. CASE ~OnTrial
    BY <1>4, <2>2, QuietTries DEF Ready, Serving
  <2>. QED
    BY <2>1, <2>2
<1>5. CASE WritePersistency
  BY <1>5 DEF WritePersistency, Serving, TypeOK, TriesInv, RamCounts,
     StoreCounts, SavedBeforeTheJump, ItemsComeFromTheFirmware,
     TrialStartsAreBounded
<1>6. CASE SelectVerified
  <2>. DEFINE b == request.bank
  <2>1. b \in Banks /\ phase = "serving" /\ phase' = "serving" /\ saved' = saved
    BY <1>6 DEF SelectVerified, TypeOK, Requests
  <2>2. CASE result # "OK"
    BY <1>6, <2>1, <2>2, QuietTries DEF SelectVerified
  <2>3. CASE result = "OK"
    <3>1. /\ starts' = [starts EXCEPT ![b] = 0]
          /\ writing' = "state"
          /\ ram'.tries = [ram.tries EXCEPT ![b] = 0]
          /\ \A c \in Banks : c # b => ram'.state[c] = ram.state[c]
      <4>. DEFINE p == IF request.trial THEN Back(b) ELSE NO_BANK
                  st == IF request.trial THEN "TRIAL" ELSE "CONFIRMED"
      <4>1. ram' = [ram EXCEPT !.previous = p, !.state[b] = st,
                               !.tries[b] = 0, !.selected = b]
        BY <1>6, <2>3 DEF SelectVerified, SaveState
      <4>2. /\ starts' = [starts EXCEPT ![b] = 0]
            /\ writing' = "state"
        BY <1>6, <2>3 DEF SelectVerified, SaveState
      <4>3. /\ ram'.tries = [ram.tries EXCEPT ![b] = 0]
            /\ ram'.state = [ram.state EXCEPT ![b] = st]
        BY <4>1 DEF TypeOK, Records
      <4>. QED
        BY <4>2, <4>3 DEF TypeOK, Records
    <3>2. starts'[b] = 0 /\ ram'.tries[b] = 0
      BY <2>1, <3>1 DEF TypeOK, Records
    <3>3. \A c \in Banks : c # b =>
             starts'[c] = starts[c] /\ ram'.tries[c] = ram.tries[c]
      BY <3>1 DEF TypeOK, Records
    <3>4. RamCounts'
      BY <2>1, <3>1, <3>2, <3>3, ConstantFacts DEF TriesInv, RamCounts
    <3>5. StoreCounts'
      <4>1. SUFFICES ASSUME saved # NoRecord, NEW c \in Banks,
                            saved.state[c] = "TRIAL"
                     PROVE  /\ starts'[c] <= saved.tries[c]
                            /\ saved.tries[c] <= MaxTries
        BY <2>1 DEF StoreCounts
      <4>. HIDE DEF b
      <4>2. saved \in Records
        BY <4>1 DEF TypeOK
      <4>3. saved.tries[c] \in Nat
        BY <4>2, TriesOfRecord
      <4>4. starts[c] <= saved.tries[c] /\ saved.tries[c] <= MaxTries
        BY <4>1 DEF TriesInv, StoreCounts
      <4>. QED
        BY <3>2, <3>3, <4>3, <4>4
    <3>6. TrialStartsAreBounded'
      BY <3>2, <3>3, ConstantFacts DEF TriesInv, TrialStartsAreBounded
    <3>. QED
      BY <2>1, <3>1, <3>4, <3>5, <3>6
         DEF TriesInv, SavedBeforeTheJump, ItemsComeFromTheFirmware
  <2>. QED
    BY <2>2, <2>3
<1>. QED
  BY <1>1, <1>2, <1>3, <1>4, <1>5, <1>6 DEF Calls

\* The RAM is gone, and the store holds the old record, that of RAM, or none.
LEMMA OffTries ==
    ASSUME TypeOK, TriesInv, Off, saved' \in {saved, ram, NoRecord},
           starts' = starts
    PROVE  TriesInv'
<1>1. phase' = "off" /\ writing' = "nothing"
  BY DEF Off
<1>. QED
  BY <1>1, NoTrialAfterOff
     DEF TypeOK, TriesInv, RamCounts, StoreCounts, SavedBeforeTheJump,
         ItemsComeFromTheFirmware, TrialStartsAreBounded

\* Resets, a hanging image and the update tool keep the invariant.
LEMMA SurroundingsTries ==
    ASSUME Reliable, Orderly, TypeOK, TriesInv,
           \/ StoreWritten \/ PowerCut \/ Hang \/ WatchdogReset
           \/ \E b \in Banks : WriteBank(b) \/ Decay(b)
    PROVE  TriesInv'
<1>. USE DEF flash, store, choice, interface, history
<1>1. CASE StoreWritten
  <2>1. /\ saved' = ram \/ (saved' = saved /\ writing = "item")
        /\ UNCHANGED <<ram, phase, running, starts>>
        /\ writing' = "nothing"
    BY <1>1, WrittenFacts
  <2>. QED
    BY <2>1 DEF TypeOK, TriesInv, RamCounts, StoreCounts,
       SavedBeforeTheJump, ItemsComeFromTheFirmware, TrialStartsAreBounded
<1>2. CASE PowerCut
  BY <1>2, OffTries, SavedWithoutHidden DEF PowerCut, Orderly
<1>3. CASE Hang
  BY <1>3, QuietTries DEF Hang, Serving, TriesInv, ItemsComeFromTheFirmware
<1>4. CASE WatchdogReset
  BY <1>4, OffTries DEF WatchdogReset
<1>5. ASSUME NEW b \in Banks, WriteBank(b) PROVE TriesInv'
  BY <1>5, QuietTries DEF WriteBank, Serving
<1>6. ASSUME NEW b \in Banks, Decay(b) PROVE TriesInv'
  BY <1>6, QuietTries DEF Decay, Serving, TriesInv, ItemsComeFromTheFirmware
<1>. QED
  BY <1>1, <1>2, <1>3, <1>4, <1>5, <1>6

\* A step that changes nothing keeps the invariant.
LEMMA StutterTries == TypeOK /\ TriesInv /\ UNCHANGED vars => TriesInv'
BY DEF vars, TriesInv, RamCounts, StoreCounts, SavedBeforeTheJump,
   ItemsComeFromTheFirmware, TrialStartsAreBounded

\* The invariant holds after the installation.
LEMMA InitTries == Init => TriesInv
BY ConstantFacts
   DEF Init, BlankRecord, TriesInv, RamCounts, StoreCounts,
       SavedBeforeTheJump, ItemsComeFromTheFirmware, TrialStartsAreBounded

\* With a store of one sector whose flash does not fail, an image on trial is
\* started at most MaxTries times before it is confirmed or selected again,
\* whatever resets and power cuts come between or inside the writes, for any
\* number of banks.
THEOREM TrialsAreBounded ==
    ASSUME Reliable
    PROVE  Spec => []TrialStartsAreBounded
<1>1. Init => TriesInv
  BY InitTries
<1>2. Orderly /\ TypeOK /\ TriesInv /\ [Next]_vars => TriesInv'
  BY SelectorTries, FirmwareTries, SurroundingsTries, StutterTries DEF Next
<1>3. TriesInv => TrialStartsAreBounded
  BY DEF TriesInv
<1>. QED
  BY <1>1, <1>2, <1>3, TypeCorrect, StoreIsOrderly, PTL DEF Spec

-----------------------------------------------------------------------------
(***************************************************************************)
(* What the store may rely on: an image runs only after its record was     *)
(* saved, so an item is written behind a state record.                     *)
(***************************************************************************)
RunsOnARecord ==
    phase \in {"image", "serving", "hung", "refused"} => saved # NoRecord
ItemsFollowState == writing = "item" => saved # NoRecord

\* Nothing in RAM looks like the missing record.
LEMMA RamIsARecord == TypeOK => ram # NoRecord
BY NoRecordAssumption DEF TypeOK

\* Every step keeps the record that the running image was started with.
LEMMA RunsStep ==
    ASSUME Reliable, Orderly, TypeOK, TriesInv, RunsOnARecord, [Next]_vars
    PROVE  RunsOnARecord'
<1>. USE DEF flash, store, choice, interface, history
<1>1. CASE Jump \/ JumpRefused
  <2>1. saved' = ram
    BY <1>1 DEF Jump, JumpRefused, TriesInv, SavedBeforeTheJump
  <2>. QED
    BY <2>1, RamIsARecord DEF RunsOnARecord
<1>2. CASE StoreWritten
  <2>1. phase' = phase /\ (saved' = ram \/ saved' = saved)
    BY <1>2, WrittenFacts
  <2>. QED
    BY <2>1, RamIsARecord DEF RunsOnARecord
<1>3. CASE PowerCut \/ WatchdogReset
  BY <1>3 DEF PowerCut, WatchdogReset, Off, RunsOnARecord
<1>4. CASE PowerOn \/ ChooseCandidate \/ EndPass
  BY <1>4 DEF PowerOn, ChooseCandidate, EndPass, Choosing, RunsOnARecord
<1>5. CASE BeginPass \/ SkipCandidate \/ RefuseCandidate \/ SelectVerified \/ Ready
           \/ WritePersistency \/ UNCHANGED vars
  BY <1>5 DEF BeginPass, SkipCandidate, RefuseCandidate, SelectVerified, Ready,
     WritePersistency, Serving, RunsOnARecord, vars
<1>6. CASE FirmwareInit \/ Hang
  BY <1>6 DEF FirmwareInit, LoadState, Hang, Serving, RunsOnARecord
<1>7. ASSUME NEW b \in Banks,
             \/ Verify(b) \/ WriteBank(b) \/ Decay(b)
             \/ \E trial \in BOOLEAN : Select(b, trial)
      PROVE  RunsOnARecord'
  BY <1>7 DEF Verify, Select, WriteBank, Decay, RunsOnARecord
<1>. QED
  BY <1>1, <1>2, <1>3, <1>4, <1>5, <1>6, <1>7 DEF Next, Selector, Calls

\* With a store of one sector whose flash does not fail, the firmware writes an
\* item only when the store has a state record: dmsel_choose saves the state
\* before the jump, and a power cut that takes it (in a compaction) ends the run
\* of the image as well.
THEOREM ItemsAreWrittenBehindAState ==
    ASSUME Reliable
    PROVE  Spec => []ItemsFollowState
<1>1. Init => TriesInv /\ RunsOnARecord
  BY InitTries DEF Init, RunsOnARecord
<1>2. Orderly /\ TypeOK /\ TriesInv /\ [Next]_vars => TriesInv'
  BY SelectorTries, FirmwareTries, SurroundingsTries, StutterTries DEF Next
<1>3. Orderly /\ TypeOK /\ TriesInv /\ RunsOnARecord /\ [Next]_vars => RunsOnARecord'
  BY RunsStep
<1>4. TriesInv /\ RunsOnARecord => ItemsFollowState
  BY DEF TriesInv, ItemsComeFromTheFirmware, RunsOnARecord, ItemsFollowState
<1>. QED
  BY <1>1, <1>2, <1>3, <1>4, TypeCorrect, StoreIsOrderly, PTL DEF Spec

-----------------------------------------------------------------------------
(***************************************************************************)
(* Which banks dmsel_choose gives up and when, what is started, and what   *)
(* the record says of the bank to go back to.                              *)
(***************************************************************************)

(***************************************************************************)
(* What the actions do to the state of the banks.                          *)
(***************************************************************************)

\* A candidate is a bank with something to start.
LEMMA CandidateIsABank ==
    ASSUME k \in Positions, Candidate(k)
    PROVE  order[k] \in Banks /\ Startable(ram.state[order[k]])
BY DEF Candidate

\* dmsel_choose gives up a bank: the image is not good or its trial is over.
LEMMA RefuseFacts ==
    ASSUME TypeOK, RefuseCandidate
    PROVE  /\ order[k] \in Banks /\ k \in Positions /\ k' = k + 1
           /\ ~Good(order[k]) \/ TrialOver(order[k])
           /\ ~Startable(ram'.state[order[k]])
           /\ \A b \in Banks \ {order[k]} : ram'.state[b] = ram.state[b]
           /\ ram'.tries = ram.tries /\ ram'.previous = ram.previous
           /\ dropped' \subseteq dropped \cup {order[k]}
           /\ UNCHANGED <<image, saved, phase, pass, order, running>>
<1>. DEFINE c == order[k]
            s == IF Good(c) THEN "INVALID" ELSE Refused(c)
<1>1. c \in Banks /\ ram \in Records
  BY CandidateIsABank DEF RefuseCandidate, TypeOK
<1>2. ram' = [ram EXCEPT !.state[c] = s]
  BY DEF RefuseCandidate, SaveState
<1>3. ~Startable(s)
  BY DEF Startable, Refused
<1>. HIDE DEF s
<1>4. ram'.state = [ram.state EXCEPT ![c] = s]
      /\ ram'.tries = ram.tries /\ ram'.previous = ram.previous
  BY <1>1, <1>2 DEF Records
<1>5. ram'.state[c] = s /\ \A b \in Banks \ {c} : ram'.state[b] = ram.state[b]
  BY <1>1, <1>4 DEF Records
<1>. QED
  BY <1>1, <1>3, <1>4, <1>5 DEF RefuseCandidate, flash, store, interface

\* dmsel_choose takes a bank.
LEMMA ChooseFacts ==
    ASSUME TypeOK, ChooseCandidate
    PROVE  /\ running' \in Banks /\ Good(running') /\ ~TrialOver(running')
           /\ Startable(ram.state[running'])
           /\ ram'.state = ram.state
           /\ \A b \in Banks \ {running'} : ram'.tries[b] = ram.tries[b]
           /\ ram'.previous = IF ram.state[running'] = "TRIAL" THEN ram.previous
                                                              ELSE NO_BANK
           /\ phase' = "boot" /\ writing' = "state"
           /\ UNCHANGED <<image, saved, interface, history>>
<1>1. /\ running' = order[k] /\ running' \in Banks /\ ram \in Records
      /\ Startable(ram.state[running'])
  BY CandidateIsABank DEF ChooseCandidate, TypeOK
<1>. DEFINE c == order[k]
<1>2. /\ ram'.state = ram.state
      /\ \A b \in Banks \ {c} : ram'.tries[b] = ram.tries[b]
      /\ ram'.previous = IF ram.state[c] = "TRIAL" THEN ram.previous ELSE NO_BANK
  <2>1. CASE ram.state[c] = "TRIAL"
    <3>. DEFINE t == (ram.tries[c] + 1) % 256
    <3>1. ram' = [ram EXCEPT !.selected = c, !.tries[c] = t]
      BY <2>1 DEF ChooseCandidate, SaveState
    <3>. HIDE DEF t
    <3>2. /\ ram'.state = ram.state /\ ram'.previous = ram.previous
          /\ ram'.tries = [ram.tries EXCEPT ![c] = t]
      BY <1>1, <3>1 DEF Records
    <3>. QED
      BY <1>1, <2>1, <3>2 DEF Records
  <2>2. CASE ram.state[c] # "TRIAL"
    <3>1. ram' = [ram EXCEPT !.selected = c, !.previous = NO_BANK]
      BY <2>2 DEF ChooseCandidate, SaveState
    <3>. QED
      BY <1>1, <2>2, <3>1 DEF Records
  <2>. QED
    BY <2>1, <2>2
<1>. QED
  BY <1>1, <1>2 DEF ChooseCandidate, SaveState, flash, store, interface, history

\* dmsel_verify changes the state of its bank only, and it is one to start
\* afterwards when the image is good.
LEMMA VerifyFacts ==
    ASSUME TypeOK, NEW v \in Banks, VerifyBank(v)
    PROVE  /\ \A b \in Banks \ {v} : /\ ram'.state[b] = ram.state[b]
                                     /\ ram'.tries[b] = ram.tries[b]
           /\ ram'.previous = ram.previous
           /\ Startable(ram'.state[v]) <=> Good(v)
           /\ Good(v) /\ Startable(ram.state[v]) => ram'.state[v] = ram.state[v]
           /\ result' = image[v].check
           /\ writing' = "state" \/ UNCHANGED <<ram, writing>>
           /\ (dropped' = dropped /\ ram' = ram) \/ dropped' = dropped \ {v}
<1>1. Startable(Verified(v)) <=> Good(v)
  BY DEF Verified, Startable, Refused
<1>2. Good(v) /\ Startable(ram.state[v]) => Verified(v) = ram.state[v]
  BY DEF Verified
<1>3. CASE Verified(v) = ram.state[v]
  BY <1>1, <1>2, <1>3 DEF VerifyBank
<1>4. CASE Verified(v) # ram.state[v]
  <2>1. ram' = [ram EXCEPT !.state[v] = Verified(v), !.tries[v] = 0]
    BY <1>4 DEF VerifyBank, SaveState
  <2>2. /\ ram'.state = [ram.state EXCEPT ![v] = Verified(v)]
        /\ ram'.tries = [ram.tries EXCEPT ![v] = 0]
        /\ ram'.previous = ram.previous
    BY <2>1 DEF TypeOK, Records
  <2>3. /\ ram'.state[v] = Verified(v)
        /\ \A b \in Banks \ {v} : /\ ram'.state[b] = ram.state[b]
                                  /\ ram'.tries[b] = ram.tries[b]
    BY <2>2 DEF TypeOK, Records
  <2>. QED
    BY <1>1, <1>2, <1>4, <2>2, <2>3 DEF VerifyBank, SaveState
<1>. QED
  BY <1>3, <1>4

\* The end of dmsel_select, when its bank was verified.
LEMMA SelectFacts ==
    ASSUME TypeOK, SelectVerified, result = "OK"
    PROVE  /\ request.bank \in Banks /\ writing' = "state"
           /\ ram'.state[request.bank] = IF request.trial THEN "TRIAL"
                                                          ELSE "CONFIRMED"
           /\ \A b \in Banks \ {request.bank} :
                 ram'.state[b] = ram.state[b] /\ ram'.tries[b] = ram.tries[b]
           /\ ram'.previous = IF request.trial THEN Back(request.bank)
                                               ELSE NO_BANK
           /\ dropped' = dropped \ {request.bank}
<1>. DEFINE b == request.bank
            p == IF request.trial THEN Back(b) ELSE NO_BANK
            s == IF request.trial THEN "TRIAL" ELSE "CONFIRMED"
<1>1. b \in Banks /\ ram \in Records
  BY DEF SelectVerified, TypeOK, Requests
<1>2. ram' = [ram EXCEPT !.previous = p, !.state[b] = s, !.tries[b] = 0,
                         !.selected = b]
      /\ writing' = "state" /\ dropped' = dropped \ {b}
  BY DEF SelectVerified, SaveState
<1>. HIDE DEF b, p, s
<1>3. /\ ram'.state = [ram.state EXCEPT ![b] = s]
      /\ ram'.tries = [ram.tries EXCEPT ![b] = 0]
      /\ ram'.previous = p
  BY <1>1, <1>2 DEF Records
<1>4. /\ ram'.state[b] = s
      /\ \A c \in Banks \ {b} :
            ram'.state[c] = ram.state[c] /\ ram'.tries[c] = ram.tries[c]
  BY <1>1, <1>3 DEF Records
<1>. QED
  BY <1>1, <1>2, <1>3, <1>4 DEF b, p, s

\* dmsel_ready confirms the bank on trial that runs.
LEMMA ReadyFacts ==
    ASSUME TypeOK, Ready, OnTrial
    PROVE  /\ running \in Banks /\ ram.state[running] = "TRIAL"
           /\ writing' = "state" /\ result' = "none"
           /\ ram'.state[running] = "CONFIRMED" /\ ram'.previous = NO_BANK
           /\ \A b \in Banks \ {running} :
                 ram'.state[b] = ram.state[b] /\ ram'.tries[b] = ram.tries[b]
<1>1. ram' = [ram EXCEPT !.state[running] = "CONFIRMED", !.tries[running] = 0,
                         !.previous = NO_BANK]
      /\ writing' = "state" /\ result' = "none" /\ running \in Banks
      /\ ram.state[running] = "TRIAL"
  BY DEF Ready, SaveState, OnTrial
<1>2. /\ ram'.state = [ram.state EXCEPT ![running] = "CONFIRMED"]
      /\ ram'.tries = [ram.tries EXCEPT ![running] = 0]
      /\ ram'.previous = NO_BANK
  BY <1>1 DEF TypeOK, Records
<1>. QED
  BY <1>1, <1>2 DEF TypeOK, Records

-----------------------------------------------------------------------------
(***************************************************************************)
(* A bank whose trial has ended does not run again.                        *)
(***************************************************************************)

\* The trials that RAM counts in dmsel_choose are those of the store.
TrialsAreLoaded ==
    phase = "choose" /\ saved # NoRecord =>
        \A b \in Banks : ram.state[b] = "TRIAL" =>
            saved.state[b] = "TRIAL" /\ saved.tries[b] = ram.tries[b]

\* dmsel_choose does not start the bank with this record.
Spent(record, b) ==
    \/ ~Startable(record.state[b])
    \/ record.state[b] = "TRIAL" /\ record.tries[b] >= MaxTries

\* The trial is over for RAM and for the store, also where the save that ended
\* it has failed.
DroppedInv ==
    /\ TrialsAreLoaded
    /\ \A b \in dropped : Spent(ram, b)
    /\ saved # NoRecord => \A b \in dropped : Spent(saved, b)
    /\ DroppedIsNotStarted

\* Nothing can be started with a blank record.
LEMMA BlankFacts ==
    \A b \in Banks : /\ BlankRecord.state[b] = "EMPTY"
                     /\ ~Startable(BlankRecord.state[b]) /\ Spent(BlankRecord, b)
BY DEF BlankRecord, Startable, Spent

\* The steps that leave the records, the dropped banks and what runs alone.
LEMMA QuietDropped ==
    ASSUME DroppedInv, UNCHANGED <<saved, ram, dropped, running>>,
           phase' = "choose" => phase = "choose",
           phase' \in {"boot", "image", "serving", "hung"} =>
               phase \in {"boot", "image", "serving", "hung"}
    PROVE  DroppedInv'
BY DEF DroppedInv, TrialsAreLoaded, Spent, DroppedIsNotStarted

\* A call of the firmware that spends no bank and drops none.
LEMMA CallDropped ==
    ASSUME TypeOK, DroppedInv, UNCHANGED <<saved, running>>, phase = "serving",
           phase' = "serving", dropped' \subseteq dropped,
           \A b \in dropped' : ram'.state[b] = ram.state[b]
                               /\ ram'.tries[b] = ram.tries[b]
    PROVE  DroppedInv'
BY DEF DroppedInv, TrialsAreLoaded, Spent, DroppedIsNotStarted

\* dmsel_choose and dmsel_boot.
LEMMA SelectorDropped ==
    ASSUME TypeOK, DroppedInv, Selector
    PROVE  DroppedInv'
<1>. USE DEF flash, store, choice, interface, history
<1>0. dropped \subseteq Banks
  BY DEF TypeOK
<1>1. CASE PowerOn
  <2>1. /\ ram' = Loaded /\ phase' = "choose" /\ UNCHANGED <<saved, dropped>>
    BY <1>1 DEF PowerOn, LoadState
  <2>. QED
    BY <1>0, <2>1, BlankFacts
       DEF Loaded, DroppedInv, TrialsAreLoaded, Spent, DroppedIsNotStarted
<1>2. CASE BeginPass
  <2>1. CASE pass = 1 \/ ~stateValid
    <3>1. ram' = rebuild /\ dropped' = {} /\ saved' = saved /\ phase' = "choose"
      BY <1>2, <2>1 DEF BeginPass, Choosing
    <3>. QED
      BY <3>1, NoTrialAfterRebuild
         DEF DroppedInv, TrialsAreLoaded, DroppedIsNotStarted
  <2>2. CASE ~(pass = 1 \/ ~stateValid)
    BY <1>2, <2>2, QuietDropped DEF BeginPass, Choosing
  <2>. QED
    BY <2>1, <2>2
<1>3. CASE SkipCandidate
  BY <1>3, QuietDropped DEF SkipCandidate, Choosing
<1>4. CASE RefuseCandidate
  <2>. DEFINE c == order[k]
  <2>1. /\ c \in Banks /\ phase = "choose" /\ phase' = "choose" /\ saved' = saved
        /\ ~Startable(ram'.state[c]) /\ ram'.tries = ram.tries
        /\ \A b \in Banks \ {c} : ram'.state[b] = ram.state[b]
    BY <1>4, RefuseFacts DEF RefuseCandidate, Choosing
  <2>2. dropped' = dropped \/ (dropped' = dropped \cup {c} /\ TrialOver(c))
    BY <1>4 DEF RefuseCandidate
  <2>. HIDE DEF c
  <2>3. ram'.state[c] # "TRIAL"
    BY <2>1 DEF Startable
  <2>4. TrialsAreLoaded'
    BY <2>1, <2>3 DEF DroppedInv, TrialsAreLoaded
  <2>5. \A b \in dropped' : Spent(ram', b)
    BY <1>0, <2>1, <2>2 DEF DroppedInv, Spent
  <2>6. saved # NoRecord /\ TrialOver(c) => Spent(saved, c)
    BY <2>1 DEF DroppedInv, TrialsAreLoaded, TrialOver, Spent
  <2>7. saved' # NoRecord => \A b \in dropped' : Spent(saved', b)
    BY <2>1, <2>2, <2>6 DEF DroppedInv
  <2>8. DroppedIsNotStarted'
    BY <2>1 DEF DroppedIsNotStarted
  <2>9. (\A b \in dropped : Spent(ram, b))'
    BY <2>5 DEF Spent
  <2>10. (saved # NoRecord => \A b \in dropped : Spent(saved, b))'
    BY <2>7 DEF Spent
  <2>. QED
    BY <2>4, <2>8, <2>9, <2>10 DEF DroppedInv
<1>5. CASE ChooseCandidate
  <2>1. /\ UNCHANGED <<saved, dropped>> /\ phase' = "boot" /\ ram'.state = ram.state
        /\ \A b \in Banks \ {running'} : ram'.tries[b] = ram.tries[b]
    BY <1>5, ChooseFacts
  <2>2. running' \notin dropped
    <3>1. running' \in Banks /\ ~TrialOver(running') /\ Startable(ram.state[running'])
      BY <1>5, ChooseFacts
    <3>2. ram.tries[running'] \in Nat /\ MaxTries \in Nat
      BY <3>1, TriesOfRecord, ConstantFacts DEF TypeOK
    <3>. QED
      BY <3>1, <3>2 DEF DroppedInv, Spent, TrialOver
  <2>. QED
    BY <1>0, <2>1, <2>2 DEF DroppedInv, TrialsAreLoaded, Spent, DroppedIsNotStarted
<1>6. CASE EndPass
  BY <1>6, QuietDropped DEF EndPass, Choosing
<1>7. CASE Jump
  BY <1>7, QuietDropped DEF Jump
<1>8. CASE JumpRefused
  BY <1>8, QuietDropped DEF JumpRefused
<1>. QED
  BY <1>1, <1>2, <1>3, <1>4, <1>5, <1>6, <1>7, <1>8 DEF Selector

\* The calls of the running firmware.
LEMMA FirmwareDropped ==
    ASSUME TypeOK, DroppedInv, FirmwareInit \/ Calls \/ SelectVerified
    PROVE  DroppedInv'
<1>. USE DEF flash, store, choice, interface, history
<1>0. dropped \subseteq Banks
  BY DEF TypeOK
<1>1. CASE FirmwareInit
  <2>1. /\ ram' = Loaded /\ phase = "image" /\ phase' = "serving"
        /\ UNCHANGED <<saved, dropped, running>>
    BY <1>1 DEF FirmwareInit, LoadState
  <2>. QED
    BY <1>0, <2>1, BlankFacts
       DEF Loaded, DroppedInv, TrialsAreLoaded, Spent, DroppedIsNotStarted
<1>2. ASSUME NEW v \in Banks,
             Verify(v) \/ \E trial \in BOOLEAN : Select(v, trial)
      PROVE  DroppedInv'
  <2>1. /\ VerifyBank(v) /\ phase = "serving" /\ phase' = "serving"
        /\ UNCHANGED <<saved, running>>
    BY <1>2 DEF Verify, Select, Serving
  <2>. QED
    BY <1>0, <2>1, VerifyFacts, CallDropped
<1>3. CASE Ready
  <2>1. CASE OnTrial
    <3>1. /\ phase = "serving" /\ phase' = "serving"
          /\ UNCHANGED <<saved, running, dropped>>
      BY <1>3 DEF Ready, Serving
    <3>2. running \notin dropped
      BY <3>1 DEF DroppedInv, DroppedIsNotStarted
    <3>. QED
      BY <1>0, <1>3, <2>1, <3>1, <3>2, ReadyFacts, CallDropped
  <2>2. CASE ~OnTrial
    BY <1>3, <2>2, QuietDropped DEF Ready, Serving
  <2>. QED
    BY <2>1, <2>2
<1>4. CASE WritePersistency
  BY <1>4, QuietDropped DEF WritePersistency, Serving
<1>5. CASE SelectVerified
  <2>1. CASE result = "OK"
    <3>1. /\ phase = "serving" /\ phase' = "serving" /\ UNCHANGED <<saved, running>>
      BY <1>5 DEF SelectVerified
    <3>. QED
      BY <1>0, <1>5, <2>1, <3>1, SelectFacts, CallDropped
  <2>2. CASE result # "OK"
    BY <1>5, <2>2, QuietDropped DEF SelectVerified
  <2>. QED
    BY <2>1, <2>2
<1>. QED
  BY <1>1, <1>2, <1>3, <1>4, <1>5 DEF Calls

\* Resets, writes that end, a hanging image and the update tool.
LEMMA SurroundingsDropped ==
    ASSUME hidden = {}, TypeOK, DroppedInv,
           \/ StoreWritten \/ PowerCut \/ Hang \/ WatchdogReset
           \/ \E b \in Banks : WriteBank(b) \/ Decay(b)
    PROVE  DroppedInv'
<1>. USE DEF flash, store, choice, interface, history
<1>0. dropped \subseteq Banks
  BY DEF TypeOK
<1>1. CASE StoreWritten
  <2>1. /\ saved' \in {saved, ram, NoRecord}
        /\ UNCHANGED <<ram, dropped, phase, running>>
    BY <1>1, SavedWithoutHidden DEF StoreWritten
  <2>. QED
    BY <2>1 DEF DroppedInv, TrialsAreLoaded, Spent, DroppedIsNotStarted
<1>2. CASE PowerCut \/ WatchdogReset
  <2>1. /\ saved' \in {saved, ram, NoRecord} /\ dropped' = dropped
        /\ ram' = BlankRecord /\ phase' = "off"
    BY <1>2, SavedWithoutHidden DEF PowerCut, WatchdogReset, Off
  <2>. QED
    BY <1>0, <2>1, BlankFacts
       DEF DroppedInv, TrialsAreLoaded, Spent, DroppedIsNotStarted
<1>3. CASE Hang
  BY <1>3, QuietDropped DEF Hang, Serving
<1>4. ASSUME NEW b \in Banks, WriteBank(b) \/ Decay(b) PROVE DroppedInv'
  BY <1>4, QuietDropped DEF WriteBank, Decay
<1>. QED
  BY <1>1, <1>2, <1>3, <1>4

\* A bank that was dropped at the end of its trial is not started before it is
\* verified or selected again or the state is rebuilt, whichever saves fail and
\* wherever the power goes, as long as no record is left behind the end of the
\* log (dmsel_choose, dmsel_verify, dmsel_select).
THEOREM DroppedWithoutHidden == Spec /\ [](hidden = {}) => []DroppedIsNotStarted
<1>1. Init => DroppedInv
  BY DEF Init, DroppedInv, TrialsAreLoaded, DroppedIsNotStarted
<1>2. TypeOK /\ DroppedInv /\ UNCHANGED vars => DroppedInv'
  BY QuietDropped DEF vars
<1>3. hidden = {} /\ TypeOK /\ DroppedInv /\ [Next]_vars => DroppedInv'
  BY <1>2, SelectorDropped, FirmwareDropped, SurroundingsDropped DEF Next
<1>4. DroppedInv => DroppedIsNotStarted
  BY DEF DroppedInv
<1>. QED
  BY <1>1, <1>3, <1>4, TypeCorrect, PTL DEF Spec

\* With a store of one sector whose flash does not fail, a bank that was dropped
\* is not started again: no record is ever left behind the end of the log, and
\* the save that drops the bank may be cut (compact, append, load_state).
THEOREM DroppedStaysDropped ==
    ASSUME Reliable
    PROVE  Spec => []DroppedIsNotStarted
<1>1. Orderly => hidden = {}
  BY DEF Orderly
<1>. QED
  BY <1>1, DroppedWithoutHidden, StoreIsOrderly, PTL

-----------------------------------------------------------------------------
(***************************************************************************)
(* dmsel_choose gives up last.                                             *)
(***************************************************************************)

\* Behind the position k of dmsel_choose there is nothing to start.
Behind ==
    \A i \in Positions : i < k /\ order[i] \in Banks /\ Good(order[i]) =>
        ~Startable(ram.state[order[i]])

\* The order ends with every bank, what was passed cannot be started, and in the
\* second pass every good image is one to start.
PassInv ==
    phase = "choose" /\ k # 0 =>
        /\ \A b \in Banks : order[b + 3] = b
        /\ Behind
        /\ pass = 1 => \A b \in Banks : Good(b) => ram.state[b] = "VALID"

ChoiceInv == PassInv /\ GivesUpLast

\* Every bank has a position behind the first two.
LEMMA PositionOfBank == \A b \in Banks : b + 3 \in Positions /\ b \in Int
BY ConstantFacts DEF Banks, Positions

\* A new pass has every bank in its order.
LEMMA OrderFacts ==
    ASSUME NEW st PROVE \A b \in Banks : CandidateOrder(st)[b + 3] = b
<1>. SUFFICES ASSUME NEW b \in Banks PROVE CandidateOrder(st)[b + 3] = b
  OBVIOUS
<1>1. b + 3 \in Positions /\ b \in Nat
  BY ConstantFacts DEF Banks, Positions
<1>2. b + 3 # 1 /\ b + 3 # 2 /\ (b + 3) - 3 = b
  BY <1>1
<1>. QED
  BY <1>1, <1>2 DEF CandidateOrder

\* Elsewhere nothing is chosen.
LEMMA NotChoosing ==
    ASSUME phase' \notin {"choose", "halted"} PROVE ChoiceInv'
BY DEF ChoiceInv, PassInv, GivesUpLast, HaltsOnlyWithoutImage,
       RebuildIsTheLastResort

\* The steps that leave the choice alone.
LEMMA QuietChoice ==
    ASSUME ChoiceInv, UNCHANGED <<image, ram, phase, pass, order, k>>
    PROVE  ChoiceInv'
BY DEF ChoiceInv, PassInv, Behind, GivesUpLast, HaltsOnlyWithoutImage,
       RebuildIsTheLastResort, Good

\* At the end of a pass no bank can be started.
LEMMA EndOfPass ==
    ASSUME TypeOK, ChoiceInv, EndPass
    PROVE  \A b \in Banks : Good(b) => ~Startable(ram.state[b])
<1>1. phase = "choose" /\ k # 0 /\ k \notin Positions /\ k \in 0 .. BankCount + 3
  BY DEF EndPass, Choosing, TypeOK
<1>2. \A b \in Banks : b + 3 < k
  BY <1>1, ConstantFacts DEF Banks, Positions
<1>. QED
  BY <1>1, <1>2, PositionOfBank DEF ChoiceInv, PassInv, Behind

\* dmsel_choose and dmsel_boot.
LEMMA SelectorChoice ==
    ASSUME TypeOK, ChoiceInv, Selector
    PROVE  ChoiceInv'
<1>. USE DEF flash, store, choice, interface, history
<1>0. k \in Int
  BY ConstantFacts DEF TypeOK
<1>1. CASE PowerOn
  BY <1>1 DEF PowerOn, ChoiceInv, PassInv, GivesUpLast, HaltsOnlyWithoutImage,
     RebuildIsTheLastResort
<1>2. CASE BeginPass
  <2>1. /\ phase' = "choose" /\ k' = 1 /\ order' = CandidateOrder(ram')
        /\ UNCHANGED <<image, pass>>
        /\ pass = 1 => ram' = rebuild
    BY <1>2 DEF BeginPass, Choosing
  <2>2. \A b \in Banks : order'[b + 3] = b
    BY <2>1, OrderFacts
  <2>3. \A i \in Positions : ~(i < 1)
    BY ConstantFacts DEF Positions
  <2>4. \A b \in Banks : Good(b) => rebuild.state[b] = "VALID"
    BY DEF rebuild
  <2>. QED
    BY <2>1, <2>2, <2>3, <2>4
       DEF ChoiceInv, PassInv, Behind, GivesUpLast, HaltsOnlyWithoutImage,
           RebuildIsTheLastResort, Good
<1>3. CASE SkipCandidate
  <2>1. /\ phase = "choose" /\ phase' = "choose" /\ k \in Positions /\ k' = k + 1
        /\ ~Candidate(k) /\ UNCHANGED <<image, ram, pass, order>>
    BY <1>3 DEF SkipCandidate, Choosing
  <2>2. k # 0 /\ k' # 0
    BY <2>1, ConstantFacts DEF Positions
  <2>3. Behind
    BY <2>1, <2>2 DEF ChoiceInv, PassInv
  <2>4. order[k] \in Banks /\ Good(order[k]) => ~Startable(ram.state[order[k]])
    <3>1. CASE \E j \in 1 .. k - 1 : order[j] = order[k]
      <4>1. PICK j \in 1 .. k - 1 : order[j] = order[k]
        BY <3>1
      <4>2. j \in Positions /\ j < k
        BY <2>1, ConstantFacts DEF Positions
      <4>. QED
        BY <2>3, <4>1, <4>2 DEF Behind
    <3>2. CASE ~\E j \in 1 .. k - 1 : order[j] = order[k]
      BY <2>1, <3>2 DEF Candidate
    <3>. QED
      BY <3>1, <3>2
  <2>5. \A i \in Positions : i < k' => i < k \/ i = k
    BY <1>0, <2>1 DEF Positions
  <2>6. Behind'
    BY <2>1, <2>3, <2>4, <2>5 DEF Behind, Good
  <2>. QED
    BY <2>1, <2>2, <2>6
       DEF ChoiceInv, PassInv, GivesUpLast, HaltsOnlyWithoutImage,
           RebuildIsTheLastResort, Good
<1>4. CASE RefuseCandidate
  <2>. DEFINE c == order[k]
  <2>1. /\ phase = "choose" /\ phase' = "choose" /\ k \in Positions /\ k' = k + 1
        /\ c \in Banks /\ UNCHANGED <<image, pass, order>>
        /\ ~Startable(ram'.state[c])
        /\ ~Good(c) \/ TrialOver(c)
        /\ \A b \in Banks \ {c} : ram'.state[b] = ram.state[b]
    BY <1>4, RefuseFacts DEF RefuseCandidate, Choosing
  <2>2. k # 0 /\ k' # 0
    BY <2>1, ConstantFacts DEF Positions
  <2>3. \A i \in Positions : i < k' => i < k \/ i = k
    BY <1>0, <2>1 DEF Positions
  <2>4. Behind'
    BY <2>1, <2>2, <2>3 DEF ChoiceInv, PassInv, Behind, Good
  <2>5. pass = 1 => \A b \in Banks : Good(b) => ram'.state[b] = "VALID"
    BY <2>1, <2>2 DEF ChoiceInv, PassInv, TrialOver
  <2>. QED
    BY <2>1, <2>2, <2>4, <2>5
       DEF ChoiceInv, PassInv, GivesUpLast, HaltsOnlyWithoutImage,
           RebuildIsTheLastResort, Good
<1>5. CASE ChooseCandidate
  BY <1>5, NotChoosing DEF ChooseCandidate
<1>6. CASE EndPass
  <2>1. \A b \in Banks : Good(b) => ~Startable(ram.state[b])
    BY <1>6, EndOfPass
  <2>2. CASE pass = 0
    <3>1. phase' = "choose" /\ k' = 0 /\ UNCHANGED <<image, ram>>
      BY <1>6, <2>2 DEF EndPass, Choosing
    <3>. QED
      BY <2>1, <3>1
         DEF ChoiceInv, PassInv, GivesUpLast, HaltsOnlyWithoutImage,
             RebuildIsTheLastResort, Good
  <2>3. CASE pass # 0
    <3>1. pass = 1 /\ phase = "choose" /\ k # 0 /\ phase' = "halted" /\ image' = image
      BY <1>6, <2>3 DEF EndPass, Choosing, TypeOK
    <3>2. \A b \in Banks : ~Good(b)
      BY <2>1, <3>1 DEF ChoiceInv, PassInv, Startable
    <3>. QED
      BY <3>1, <3>2
         DEF ChoiceInv, PassInv, GivesUpLast, HaltsOnlyWithoutImage,
             RebuildIsTheLastResort, Good
  <2>. QED
    BY <2>2, <2>3
<1>7. CASE Jump \/ JumpRefused
  BY <1>7, NotChoosing DEF Jump, JumpRefused
<1>. QED
  BY <1>1, <1>2, <1>3, <1>4, <1>5, <1>6, <1>7 DEF Selector

\* Everything else happens outside of the choice, or while it waits for a write.
LEMMA OtherChoice ==
    ASSUME TypeOK, ChoiceInv,
           \/ FirmwareInit \/ Calls \/ SelectVerified \/ StoreWritten
           \/ PowerCut \/ Hang \/ WatchdogReset
           \/ \E b \in Banks : WriteBank(b) \/ Decay(b)
    PROVE  ChoiceInv'
<1>. USE DEF flash, store, choice, interface, history
<1>1. CASE FirmwareInit \/ Calls \/ SelectVerified
  BY <1>1, NotChoosing
     DEF FirmwareInit, Calls, Verify, Select, Ready, WritePersistency,
         SelectVerified, Serving
<1>2. CASE StoreWritten
  BY <1>2, QuietChoice DEF StoreWritten
<1>3. CASE PowerCut \/ Hang \/ WatchdogReset
  BY <1>3, NotChoosing DEF PowerCut, Hang, WatchdogReset, Off
<1>4. ASSUME NEW b \in Banks, WriteBank(b) \/ Decay(b) PROVE ChoiceInv'
  BY <1>4, NotChoosing DEF WriteBank, Decay, Serving
<1>. QED
  BY <1>1, <1>2, <1>3, <1>4

\* With any damaged images and failed or cut saves, dmsel_choose halts only when
\* no bank holds a good image, and forgets its record only when none of the banks
\* the record calls startable does.
THEOREM TheChoiceGivesUpLast == Spec => []GivesUpLast
<1>1. Init => ChoiceInv
  BY DEF Init, ChoiceInv, PassInv, GivesUpLast, HaltsOnlyWithoutImage,
     RebuildIsTheLastResort
<1>2. ChoiceInv /\ UNCHANGED vars => ChoiceInv'
  BY QuietChoice DEF vars
<1>3. TypeOK /\ ChoiceInv /\ [Next]_vars => ChoiceInv'
  BY <1>2, SelectorChoice, OtherChoice DEF Next
<1>4. ChoiceInv => GivesUpLast
  BY DEF ChoiceInv
<1>. QED
  BY <1>1, <1>3, <1>4, TypeCorrect, PTL DEF Spec

-----------------------------------------------------------------------------
(***************************************************************************)
(* A bank that has run properly is kept, with a reliable store.            *)
(***************************************************************************)

\* What the store has as proven RAM has as startable, or the image is gone.
ProvenInRam ==
    phase # "off" /\ saved # NoRecord =>
        \A b \in Banks :
            saved.state[b] \in {"VALID", "CONFIRMED"} /\ Good(b) =>
                Startable(ram.state[b])

\* The firmware's state is that of the store when no state is being written.
RamIsSaved ==
    phase = "serving" /\ writing # "state" => saved \in {NoRecord, ram}

\* Nothing is written while the processor is off, nor by an image that has not
\* made a call.
WritersRun == writing # "nothing" => phase \in {"choose", "boot", "serving"}

ProvenInv == TrialsAreLoaded /\ ProvenInRam /\ RamIsSaved /\ WritersRun

\* The steps that change neither records nor images.
LEMMA QuietProven ==
    ASSUME ProvenInv, UNCHANGED <<image, saved, ram>>,
           phase # "off" \/ phase' = "off",
           phase' = "choose" => phase = "choose",
           phase' = "serving" => phase = "serving"
                                 /\ (writing' # "state" => writing # "state"),
           writing' # "nothing" => phase' \in {"choose", "boot", "serving"}
    PROVE  ProvenInv'
BY DEF ProvenInv, TrialsAreLoaded, ProvenInRam, RamIsSaved, WritersRun, Good

\* What is read from the store is as in the store.
LEMMA LoadProven ==
    ASSUME ram' = Loaded, UNCHANGED saved, phase' \in {"choose", "serving"}
    PROVE  ProvenInv'
BY DEF Loaded, ProvenInv, TrialsAreLoaded, ProvenInRam, RamIsSaved, WritersRun,
       Startable

\* What a call of the firmware stores gives up no good image that was proven.
LEMMA CallProven ==
    ASSUME ProvenInv, UNCHANGED <<image, saved>>, phase = "serving",
           phase' = "serving", writing' = "state",
           \A b \in Banks : Good(b) /\ Startable(ram.state[b]) =>
               Startable(ram'.state[b])
    PROVE  ProvenInv'
BY DEF ProvenInv, TrialsAreLoaded, ProvenInRam, RamIsSaved, WritersRun, Good

\* dmsel_choose and dmsel_boot.
LEMMA SelectorProven ==
    ASSUME TypeOK, ProvenInv, Selector
    PROVE  ProvenInv'
<1>. USE DEF flash, store, choice, interface, history
<1>1. CASE PowerOn
  BY <1>1, LoadProven DEF PowerOn, LoadState
<1>2. CASE BeginPass
  <2>1. CASE pass = 1 \/ ~stateValid
    <3>1. ram' = rebuild /\ UNCHANGED <<image, saved>> /\ phase' = "choose"
      BY <1>2, <2>1 DEF BeginPass, Choosing
    <3>2. \A b \in Banks : Good(b) => rebuild.state[b] = "VALID"
      BY DEF rebuild
    <3>. QED
      BY <3>1, <3>2, NoTrialAfterRebuild
         DEF ProvenInv, TrialsAreLoaded, ProvenInRam, RamIsSaved, WritersRun, Startable, Good
  <2>2. CASE ~(pass = 1 \/ ~stateValid)
    BY <1>2, <2>2, QuietProven DEF BeginPass, Choosing
  <2>. QED
    BY <2>1, <2>2
<1>3. CASE SkipCandidate
  BY <1>3, QuietProven DEF SkipCandidate, Choosing
<1>4. CASE RefuseCandidate
  <2>. DEFINE c == order[k]
  <2>1. /\ c \in Banks /\ phase = "choose" /\ phase' = "choose"
        /\ UNCHANGED <<image, saved>>
        /\ ~Startable(ram'.state[c]) /\ ram'.tries = ram.tries
        /\ ~Good(c) \/ TrialOver(c)
        /\ \A b \in Banks \ {c} : ram'.state[b] = ram.state[b]
    BY <1>4, RefuseFacts DEF RefuseCandidate, Choosing
  <2>2. saved # NoRecord /\ saved.state[c] \in {"VALID", "CONFIRMED"} => ~Good(c)
    BY <2>1 DEF ProvenInv, TrialsAreLoaded, TrialOver
  <2>3. ProvenInRam'
    BY <2>1, <2>2 DEF ProvenInv, ProvenInRam, Good
  <2>4. TrialsAreLoaded'
    BY <2>1 DEF ProvenInv, TrialsAreLoaded, Startable
  <2>. QED
    BY <2>1, <2>3, <2>4 DEF ProvenInv, RamIsSaved, WritersRun
<1>5. CASE ChooseCandidate
  <2>1. /\ UNCHANGED <<image, saved>> /\ phase = "choose" /\ phase' = "boot"
        /\ ram'.state = ram.state
    BY <1>5, ChooseFacts DEF ChooseCandidate, Choosing
  <2>. QED
    BY <2>1 DEF ProvenInv, TrialsAreLoaded, ProvenInRam, RamIsSaved, WritersRun, Good
<1>6. CASE EndPass
  BY <1>6, QuietProven DEF EndPass, Choosing
<1>7. CASE Jump \/ JumpRefused
  BY <1>7, QuietProven DEF Jump, JumpRefused
<1>. QED
  BY <1>1, <1>2, <1>3, <1>4, <1>5, <1>6, <1>7 DEF Selector

\* The calls of the running firmware.
LEMMA FirmwareProven ==
    ASSUME TypeOK, ProvenInv, FirmwareInit \/ Calls \/ SelectVerified
    PROVE  ProvenInv'
<1>. USE DEF flash, store, choice, interface, history
<1>1. CASE FirmwareInit
  BY <1>1, LoadProven DEF FirmwareInit, LoadState
<1>2. ASSUME NEW v \in Banks,
             Verify(v) \/ \E trial \in BOOLEAN : Select(v, trial)
      PROVE  ProvenInv'
  <2>1. /\ VerifyBank(v) /\ phase = "serving" /\ phase' = "serving"
        /\ UNCHANGED <<image, saved>>
    BY <1>2 DEF Verify, Select, Serving
  <2>2. CASE UNCHANGED <<ram, writing>>
    BY <2>1, <2>2, QuietProven
  <2>3. CASE writing' = "state"
    <3>1. \A b \in Banks : Good(b) /\ Startable(ram.state[b]) =>
              Startable(ram'.state[b])
      BY <2>1, VerifyFacts
    <3>. QED
      BY <2>1, <2>3, <3>1, CallProven
  <2>. QED
    BY <2>1, <2>2, <2>3, VerifyFacts
<1>3. CASE Ready
  <2>1. CASE OnTrial
    <3>1. /\ phase = "serving" /\ phase' = "serving" /\ UNCHANGED <<image, saved>>
      BY <1>3 DEF Ready, Serving
    <3>2. \A b \in Banks : Good(b) /\ Startable(ram.state[b]) =>
              Startable(ram'.state[b])
      BY <1>3, <2>1, ReadyFacts DEF Startable
    <3>. QED
      BY <1>3, <2>1, <3>1, <3>2, ReadyFacts, CallProven
  <2>2. CASE ~OnTrial
    BY <1>3, <2>2, QuietProven DEF Ready, Serving
  <2>. QED
    BY <2>1, <2>2
<1>4. CASE WritePersistency
  BY <1>4, QuietProven DEF WritePersistency, Serving
<1>5. CASE SelectVerified
  <2>1. CASE result = "OK"
    <3>1. /\ phase = "serving" /\ phase' = "serving" /\ UNCHANGED <<image, saved>>
      BY <1>5 DEF SelectVerified
    <3>2. \A b \in Banks : Good(b) /\ Startable(ram.state[b]) =>
              Startable(ram'.state[b])
      BY <1>5, <2>1, SelectFacts DEF Startable
    <3>. QED
      BY <1>5, <2>1, <3>1, <3>2, SelectFacts, CallProven
  <2>2. CASE result # "OK"
    BY <1>5, <2>2, QuietProven DEF SelectVerified
  <2>. QED
    BY <2>1, <2>2
<1>. QED
  BY <1>1, <1>2, <1>3, <1>4, <1>5 DEF Calls

\* Resets, writes that end, a hanging image and the update tool.
LEMMA SurroundingsProven ==
    ASSUME Reliable, Orderly, TypeOK, ProvenInv,
           \/ StoreWritten \/ PowerCut \/ Hang \/ WatchdogReset
           \/ \E b \in Banks : WriteBank(b) \/ Decay(b)
    PROVE  ProvenInv'
<1>. USE DEF flash, store, choice, interface, history
<1>1. CASE StoreWritten
  BY <1>1, WrittenFacts
     DEF ProvenInv, TrialsAreLoaded, ProvenInRam, RamIsSaved, WritersRun, Startable, Good
<1>2. CASE PowerCut \/ WatchdogReset
  BY <1>2 DEF PowerCut, WatchdogReset, Off, ProvenInv, TrialsAreLoaded,
     ProvenInRam, RamIsSaved, WritersRun
<1>3. CASE Hang
  BY <1>3, QuietProven DEF Hang, Serving, ProvenInv, WritersRun
<1>4. ASSUME NEW b \in Banks, WriteBank(b) PROVE ProvenInv'
  <2>1. /\ phase = "serving" /\ phase' = "serving" /\ writing = "nothing"
        /\ UNCHANGED <<saved, ram, writing>>
    BY <1>4 DEF WriteBank, Serving
  <2>. QED
    BY <2>1 DEF ProvenInv, TrialsAreLoaded, ProvenInRam, RamIsSaved, WritersRun, Startable
<1>5. ASSUME NEW b \in Banks, Decay(b) PROVE ProvenInv'
  <2>1. /\ UNCHANGED <<saved, ram, writing, phase>>
        /\ image' = [image EXCEPT ![b] = [check |-> "BAD", version |-> 0]]
    BY <1>5 DEF Decay
  <2>2. \A c \in Banks : Good(c)' => Good(c)
    BY <2>1 DEF Good, TypeOK
  <2>. QED
    BY <2>1, <2>2
       DEF ProvenInv, TrialsAreLoaded, ProvenInRam, RamIsSaved, WritersRun
<1>. QED
  BY <1>1, <1>2, <1>3, <1>4, <1>5

\* A write may give up a proven bank whose image is gone, and no other.
LEMMA WritesKeepProven ==
    ASSUME hidden = {}, TypeOK, ProvenInv, [Next]_vars, saved # NoRecord, saved' # NoRecord,
           NEW b \in Banks, saved.state[b] \in {"VALID", "CONFIRMED"},
           ~Startable(saved'.state[b])
    PROVE  ~Good(b)
<1>. USE DEF flash, store, choice, interface, history
<1>1. Startable(saved.state[b])
  BY DEF Startable
<1>2. CASE UNCHANGED saved
  BY <1>1, <1>2
<1>3. CASE StoreWritten \/ PowerCut
  <2>1. saved' \in {saved, ram, NoRecord}
    BY <1>3, SavedWithoutHidden
  <2>2. phase # "off"
    BY <1>3 DEF ProvenInv, WritersRun, StoreWritten, PowerCut
  <2>. QED
    BY <1>1, <2>1, <2>2 DEF ProvenInv, ProvenInRam
<1>4. CASE Selector
  BY <1>2, <1>4 DEF Selector, PowerOn, LoadState, BeginPass, SkipCandidate,
     RefuseCandidate, ChooseCandidate, EndPass, Jump, JumpRefused
<1>5. CASE FirmwareInit \/ Calls \/ SelectVerified
  BY <1>2, <1>5 DEF FirmwareInit, LoadState, Calls, Verify, Select, Ready, WritePersistency,
     SelectVerified
<1>6. CASE Hang \/ WatchdogReset \/ \E c \in Banks : WriteBank(c) \/ Decay(c)
  BY <1>2, <1>6 DEF Hang, WatchdogReset, WriteBank, Decay
<1>7. CASE UNCHANGED vars
  BY <1>2, <1>7 DEF vars
<1>. QED
  BY <1>3, <1>4, <1>5, <1>6, <1>7 DEF Next

\* The invariant, from the start on.
LEMMA ProvenInvariant ==
    ASSUME Reliable
    PROVE  Spec => []ProvenInv
<1>1. Init => ProvenInv
  BY DEF Init, ProvenInv, TrialsAreLoaded, ProvenInRam, RamIsSaved, WritersRun
<1>2. ProvenInv /\ UNCHANGED vars => ProvenInv'
  BY QuietProven DEF vars, ProvenInv, WritersRun
<1>3. Orderly /\ TypeOK /\ ProvenInv /\ [Next]_vars => ProvenInv'
  BY <1>2, SelectorProven, FirmwareProven, SurroundingsProven DEF Next
<1>. QED
  BY <1>1, <1>3, TypeCorrect, StoreIsOrderly, PTL DEF Spec

\* A bank that is not on trial is given up in the store only when its image is
\* damaged or gone, whoever writes the record, whenever, and wherever a power cut
\* ends the write, with a store of one sector whose flash does not fail
\* (dmsel_choose, dmsel_verify, append, compact).
THEOREM ProvenBanksAreKept ==
    ASSUME Reliable
    PROVE  Spec => ProvenBankIsKept
<1>1. Orderly /\ TypeOK /\ ProvenInv /\ [Next]_vars =>
        [ saved # NoRecord /\ saved' # NoRecord =>
            \A b \in Banks :
               saved.state[b] \in {"VALID", "CONFIRMED"}
                 /\ ~Startable(saved'.state[b]) => ~Good(b) ]_vars
  BY WritesKeepProven DEF Orderly
<1>. QED
  BY <1>1, ProvenInvariant, TypeCorrect, StoreIsOrderly, PTL DEF Spec, ProvenBankIsKept

-----------------------------------------------------------------------------
(***************************************************************************)
(* The bank to go back to has run properly, with a reliable store.         *)
(***************************************************************************)

\* The bank to go back to in a record is the one that ran properly last, or
\* neither its image nor its state lets it be started.
ProperPrevious(record) ==
    record.previous \in Banks \ written =>
        \/ record.previous = home
        \/ ~Good(record.previous) /\ ~Startable(record.state[record.previous])

\* The running bank: when it is not on trial, it has run properly, or the record
\* that says so is on its way and has no bank to go back to.
RunningIsKnown ==
    /\ ram.state[running] = "VALID" => home = running
    /\ ram.state[running] = "CONFIRMED" =>
          home = running \/ (writing = "state" /\ ram.previous = NO_BANK)
    /\ Good(running) => Startable(ram.state[running])
    /\ saved # NoRecord /\ saved.state[running] = "CONFIRMED" => home = running

\* What dmsel_choose has chosen.
ChosenIsKnown ==
    /\ Startable(ram.state[running])
    /\ ram.state[running] # "TRIAL" => ram.previous = NO_BANK

PreviousInv ==
    /\ ProperPrevious(ram)
    /\ saved # NoRecord => ProperPrevious(saved)
    /\ phase = "boot" => ChosenIsKnown
    /\ phase = "image" => saved = ram
    /\ phase \in {"image", "serving"} => RunningIsKnown
    /\ request # NoRequest => phase = "serving"
    /\ request # NoRequest /\ result = "OK" => Good(request.bank)

\* The invariants proved so far that this one needs, and what follows from them.
LEMMA Grounds ==
    ASSUME TypeOK, TriesInv, ProvenInv, PreviousInv
    PROVE  /\ phase = "boot" /\ writing = "nothing" => saved = ram /\ saved # NoRecord
           /\ phase = "image" => Loaded = ram /\ writing = "nothing"
           /\ phase \in {"boot", "image", "serving"} => running \in Banks
           /\ phase # "serving" => request = NoRequest
BY ConstantFacts
   DEF TypeOK, TriesInv, SavedBeforeTheJump, ProvenInv, WritersRun, PreviousInv,
       Loaded

\* The steps that change neither records nor images nor history.
LEMMA QuietPrevious ==
    ASSUME PreviousInv, UNCHANGED <<image, saved, ram, running, home, written>>,
           phase' \in {phase, "hung", "refused", "choose"},
           writing' = writing,
           request' = NoRequest \/ UNCHANGED <<request, result, phase>>
    PROVE  PreviousInv'
BY DEF PreviousInv, ProperPrevious, ChosenIsKnown, RunningIsKnown, Good

\* The selector reads the store.
LEMMA LoadPrevious ==
    ASSUME PreviousInv, ram' = Loaded, UNCHANGED <<image, saved, home, written>>
    PROVE  ProperPrevious(ram)' /\ (saved # NoRecord => ProperPrevious(saved))'
BY NoBank DEF Loaded, BlankRecord, PreviousInv, ProperPrevious, Good

\* dmsel_choose and dmsel_boot.
LEMMA SelectorPrevious ==
    ASSUME TypeOK, TriesInv, ProvenInv, PreviousInv, Selector
    PROVE  PreviousInv'
<1>. USE DEF flash, store, choice, interface, history
<1>1. CASE PowerOn
  <2>1. /\ phase = "off" /\ phase' = "choose" /\ ram' = Loaded
        /\ UNCHANGED <<image, saved, home, written, request>>
    BY <1>1 DEF PowerOn, LoadState
  <2>. QED
    BY <2>1, LoadPrevious, Grounds DEF PreviousInv
<1>2. CASE BeginPass
  <2>1. CASE pass = 1 \/ ~stateValid
    <3>1. /\ ram' = rebuild /\ phase = "choose" /\ phase' = "choose"
          /\ UNCHANGED <<image, saved, home, written, request>>
      BY <1>2, <2>1 DEF BeginPass, Choosing
    <3>2. ram'.previous = NO_BANK
      BY <3>1 DEF rebuild
    <3>. QED
      BY <3>1, <3>2, NoBank, Grounds DEF PreviousInv, ProperPrevious, Good
  <2>2. CASE ~(pass = 1 \/ ~stateValid)
    BY <1>2, <2>2, QuietPrevious DEF BeginPass, Choosing
  <2>. QED
    BY <2>1, <2>2
<1>3. CASE SkipCandidate
  BY <1>3, QuietPrevious DEF SkipCandidate, Choosing
<1>4. CASE RefuseCandidate
  <2>. DEFINE c == order[k]
  <2>1. /\ c \in Banks /\ phase = "choose" /\ phase' = "choose"
        /\ ~Startable(ram'.state[c]) /\ ram'.previous = ram.previous
        /\ \A b \in Banks \ {c} : ram'.state[b] = ram.state[b]
        /\ UNCHANGED <<image, saved, home, written, request>>
    BY <1>4, RefuseFacts DEF RefuseCandidate, Choosing
  <2>. QED
    BY <2>1, Grounds DEF PreviousInv, ProperPrevious, Good
<1>5. CASE ChooseCandidate
  <2>1. /\ phase = "choose" /\ phase' = "boot" /\ ram'.state = ram.state
        /\ Startable(ram.state[running'])
        /\ ram'.previous = IF ram.state[running'] = "TRIAL" THEN ram.previous
                                                           ELSE NO_BANK
        /\ UNCHANGED <<image, saved, home, written, request>>
    BY <1>5, ChooseFacts DEF ChooseCandidate, Choosing
  <2>. QED
    BY <2>1, NoBank, Grounds DEF PreviousInv, ProperPrevious, ChosenIsKnown, Good
<1>6. CASE EndPass
  <2>1. phase = "choose" /\ phase' \in {"choose", "halted"}
        /\ UNCHANGED <<image, saved, ram, home, written, request>>
    BY <1>6 DEF EndPass, Choosing
  <2>. QED
    BY <2>1, Grounds DEF PreviousInv, ProperPrevious, Good
<1>7. CASE Jump
  <2>1. /\ phase = "boot" /\ phase' = "image" /\ saved = ram /\ running \in Banks
        /\ UNCHANGED <<image, saved, ram, running, writing, request>>
        /\ ChosenIsKnown
    BY <1>7, Grounds DEF Jump, PreviousInv
  <2>2. CASE OnTrial
    <3>1. UNCHANGED <<home, written>> /\ ram.state[running] = "TRIAL"
      BY <1>7, <2>2 DEF Jump, OnTrial
    <3>. QED
      BY <2>1, <3>1, Grounds
         DEF PreviousInv, ProperPrevious, RunningIsKnown, ChosenIsKnown, Good
  <2>3. CASE ~OnTrial
    <3>1. home' = running /\ ram.previous = NO_BANK
      BY <1>7, <2>1, <2>3 DEF Jump, OnTrial, ChosenIsKnown
    <3>. QED
      BY <2>1, <3>1, NoBank, Grounds
         DEF PreviousInv, ProperPrevious, RunningIsKnown, ChosenIsKnown, Good
  <2>. QED
    BY <2>2, <2>3
<1>8. CASE JumpRefused
  BY <1>8, QuietPrevious, Grounds DEF JumpRefused
<1>. QED
  BY <1>1, <1>2, <1>3, <1>4, <1>5, <1>6, <1>7, <1>8 DEF Selector

\* The calls of the running firmware.
LEMMA FirmwarePrevious ==
    ASSUME TypeOK, TriesInv, ProvenInv, PreviousInv,
           FirmwareInit \/ Calls \/ SelectVerified
    PROVE  PreviousInv'
<1>. USE DEF flash, store, choice, interface, history
<1>1. CASE FirmwareInit
  <2>1. /\ phase = "image" /\ phase' = "serving" /\ ram' = ram
        /\ UNCHANGED <<image, saved, home, written, running, writing, request>>
    BY <1>1, Grounds DEF FirmwareInit, LoadState
  <2>. QED
    BY <2>1, Grounds DEF PreviousInv, ProperPrevious, RunningIsKnown, Good
<1>2. ASSUME NEW v \in Banks,
             Verify(v) \/ \E trial \in BOOLEAN : Select(v, trial)
      PROVE  PreviousInv'
  <2>1. /\ VerifyBank(v) /\ phase = "serving" /\ phase' = "serving"
        /\ writing = "nothing" /\ request = NoRequest /\ running \in Banks
        /\ UNCHANGED <<image, saved, home, written, running>>
        /\ request' = NoRequest \/ request'.bank = v
    BY <1>2, Grounds DEF Verify, Select, Serving
  <2>2. /\ ram'.previous = ram.previous /\ result' = image[v].check
        /\ Startable(ram'.state[v]) <=> Good(v)
        /\ Good(v) /\ Startable(ram.state[v]) => ram'.state[v] = ram.state[v]
        /\ \A b \in Banks \ {v} : ram'.state[b] = ram.state[b]
    BY <2>1, VerifyFacts
  <2>3. ProperPrevious(ram)'
    BY <2>1, <2>2 DEF PreviousInv, ProperPrevious, Good
  <2>4. ram'.state[running] \in {"VALID", "CONFIRMED"} =>
            ram'.state[running] = ram.state[running]
    BY <2>1, <2>2 DEF PreviousInv, RunningIsKnown, Startable
  <2>5. RunningIsKnown'
    BY <2>1, <2>2, <2>4 DEF PreviousInv, RunningIsKnown, Good
  <2>. QED
    BY <2>1, <2>2, <2>3, <2>5 DEF PreviousInv, ProperPrevious, Good
<1>3. CASE Ready
  <2>0. /\ phase = "serving" /\ phase' = "serving" /\ request = NoRequest
        /\ UNCHANGED <<image, saved, home, written, running, request>>
    BY <1>3 DEF Ready, Serving
  <2>1. CASE OnTrial
    <3>1. /\ ram'.previous = NO_BANK /\ ram'.state[running] = "CONFIRMED"
          /\ writing' = "state"
      BY <1>3, <2>1, ReadyFacts
    <3>. QED
      BY <2>0, <3>1, NoBank
         DEF PreviousInv, ProperPrevious, RunningIsKnown, Startable, Good
  <2>2. CASE ~OnTrial
    BY <1>3, <2>0, <2>2, QuietPrevious DEF Ready
  <2>. QED
    BY <2>1, <2>2
<1>4. CASE WritePersistency
  <2>1. /\ phase = "serving" /\ phase' = "serving" /\ request' = NoRequest
        /\ writing = "nothing"
        /\ UNCHANGED <<image, saved, ram, home, written, running>>
    BY <1>4 DEF WritePersistency, Serving
  <2>. QED
    BY <2>1 DEF PreviousInv, ProperPrevious, RunningIsKnown, Good
<1>5. CASE SelectVerified
  <2>0. /\ phase = "serving" /\ phase' = "serving" /\ writing = "nothing"
        /\ request # NoRequest /\ request' = NoRequest /\ running \in Banks
        /\ UNCHANGED <<image, saved, home, written, running>>
    BY <1>5, Grounds DEF SelectVerified
  <2>1. CASE result = "OK"
    <3>. DEFINE b == request.bank
    <3>1. /\ b \in Banks /\ writing' = "state" /\ Good(b)
          /\ ram'.state[b] = IF request.trial THEN "TRIAL" ELSE "CONFIRMED"
          /\ \A c \in Banks \ {b} : ram'.state[c] = ram.state[c]
          /\ ram'.previous = IF request.trial THEN Back(b) ELSE NO_BANK
      BY <1>5, <2>0, <2>1, SelectFacts DEF PreviousInv
    <3>. HIDE DEF b
    <3>2. RunningIsKnown'
      BY <2>0, <3>1 DEF PreviousInv, RunningIsKnown, Startable, Good
    <3>3. ASSUME request.trial, Back(b) \in Banks \ written
          PROVE  \/ Back(b) = home
                 \/ ~Good(Back(b)) /\ ~Startable(ram.state[Back(b)])
      <4>1. CASE ram.state[running] = "TRIAL"
        <5>1. Back(b) = ram.previous
          BY <2>0, <3>3, <4>1, NoBank DEF Back
        <5>. QED
          BY <3>3, <5>1 DEF PreviousInv, ProperPrevious
      <4>2. CASE ram.state[running] # "TRIAL"
        <5>1. Back(b) = running
          BY <2>0, <3>3, <4>2, NoBank DEF Back
        <5>2. ram.state[running] \in BankStates
          BY <2>0 DEF TypeOK, Records
        <5>. QED
          BY <2>0, <4>2, <5>1, <5>2
             DEF PreviousInv, RunningIsKnown, BankStates, Startable
      <4>. QED
        BY <4>1, <4>2
    <3>4. ProperPrevious(ram)'
      BY <2>0, <3>1, <3>3, NoBank DEF ProperPrevious, Good
    <3>. QED
      BY <2>0, <3>2, <3>4 DEF PreviousInv, ProperPrevious, Good
  <2>2. CASE result # "OK"
    BY <1>5, <2>0, <2>2, QuietPrevious DEF SelectVerified
  <2>. QED
    BY <2>1, <2>2
<1>. QED
  BY <1>1, <1>2, <1>3, <1>4, <1>5 DEF Calls

\* When a confirmation reaches the store, what the records say stays right.
LEMMA NotedPrevious ==
    ASSUME TypeOK, ProvenInv, PreviousInv, saved' \in {saved, ram, NoRecord},
           image' = image,
           NoteConfirmed(saved'), phase = "serving" => running \in Banks
    PROVE  /\ (saved # NoRecord => ProperPrevious(saved))'
           /\ ram' = ram /\ saved' = ram => ProperPrevious(ram)'
<1>1. saved' \in {saved, ram, NoRecord}
  OBVIOUS
<1>2. ProperPrevious(ram) /\ (saved # NoRecord => ProperPrevious(saved))
  BY DEF PreviousInv
<1>3. CASE ~Confirmed(saved')
  <2>1. UNCHANGED <<home, written>>
    BY <1>3 DEF NoteConfirmed
  <2>. QED
    BY <1>1, <1>2, <2>1 DEF ProperPrevious, Good
<1>4. CASE Confirmed(saved')
  <2>1. /\ home' = running /\ written' = written \ {running}
        /\ phase = "serving" /\ saved' # NoRecord
        /\ saved'.state[running] = "CONFIRMED" /\ RunningIsKnown
    BY <1>4 DEF NoteConfirmed, Confirmed, PreviousInv
  <2>2. home = running \/ saved'.previous = NO_BANK
    BY <1>1, <2>1 DEF RunningIsKnown
  <2>. QED
    BY <1>1, <1>2, <2>1, <2>2, NoBank DEF ProperPrevious, Good
<1>. QED
  BY <1>3, <1>4

\* Resets, writes that end, a hanging image and the update tool.
LEMMA SurroundingsPrevious ==
    ASSUME Reliable, Orderly, TypeOK, TriesInv, ProvenInv, PreviousInv,
           \/ StoreWritten \/ PowerCut \/ Hang \/ WatchdogReset
           \/ \E b \in Banks : WriteBank(b) \/ Decay(b)
    PROVE  PreviousInv'
<1>. USE DEF flash, store, choice, interface, history
<1>0. phase = "serving" => running \in Banks
  BY Grounds
<1>1. CASE StoreWritten
  <2>1. /\ saved' = ram \/ (saved' = saved /\ writing = "item")
        /\ writing # "nothing" /\ writing' = "nothing"
        /\ UNCHANGED <<image, ram, phase, running>>
        /\ NoteConfirmed(saved')
    BY <1>1, WrittenFacts DEF StoreWritten, Left
  <2>2. /\ phase # "image"
        /\ writing = "item" => phase = "serving" /\ saved \in {NoRecord, ram}
    BY <2>1 DEF ProvenInv, WritersRun, RamIsSaved, TriesInv,
       ItemsComeFromTheFirmware
  <2>3. request' # NoRequest => request' = request /\ result' = result
    BY <1>1, Grounds DEF StoreWritten, Returned
  <2>4. (saved # NoRecord => ProperPrevious(saved))'
    BY <1>0, <2>1, NotedPrevious
  <2>5. ProperPrevious(ram)'
    <3>1. CASE saved' = ram
      BY <1>0, <2>1, <3>1, NotedPrevious
    <3>2. CASE saved' = NoRecord
      BY <2>1, <3>2 DEF NoteConfirmed, Confirmed, PreviousInv, ProperPrevious, Good
    <3>. QED
      BY <2>1, <2>2, <3>1, <3>2
  <2>6. ASSUME phase = "serving" PROVE RunningIsKnown'
    <3>1. RunningIsKnown /\ (saved' = ram \/ (saved' = NoRecord /\ writing = "item"))
      BY <2>1, <2>2, <2>6 DEF PreviousInv
    <3>. QED
      BY <2>1, <2>6, <3>1, ConstantFacts
         DEF RunningIsKnown, NoteConfirmed, Confirmed, Good, TypeOK
  <2>. QED
    BY <2>1, <2>2, <2>3, <2>4, <2>5, <2>6 DEF PreviousInv, ChosenIsKnown, Good
<1>2. CASE PowerCut
  <2>1. /\ (saved # NoRecord => ProperPrevious(saved))'
        /\ ram' = BlankRecord /\ phase' = "off" /\ request' = NoRequest
    BY <1>0, <1>2, NotedPrevious, SavedWithoutHidden DEF PowerCut, Left, Off, Orderly
  <2>2. ram'.previous = NO_BANK
    BY <2>1 DEF BlankRecord
  <2>. QED
    BY <2>1, <2>2, NoBank DEF PreviousInv, ProperPrevious
<1>3. CASE WatchdogReset
  <2>1. /\ UNCHANGED <<image, saved, home, written>>
        /\ ram' = BlankRecord /\ phase' = "off" /\ request' = NoRequest
    BY <1>3 DEF WatchdogReset, Off
  <2>2. ram'.previous = NO_BANK
    BY <2>1 DEF BlankRecord
  <2>. QED
    BY <2>1, <2>2, NoBank DEF PreviousInv, ProperPrevious, Good
<1>4. CASE Hang
  BY <1>4, QuietPrevious, Grounds DEF Hang, Serving
<1>5. ASSUME NEW b \in Banks, WriteBank(b) PROVE PreviousInv'
  <2>1. /\ phase = "serving" /\ phase' = "serving" /\ request = NoRequest
        /\ b # running /\ written' = written \cup {b}
        /\ UNCHANGED <<saved, ram, running, writing, home, request>>
    BY <1>5 DEF WriteBank, Serving
  <2>2. \A c \in Banks \ {b} : Good(c)' = Good(c)
    BY <1>5 DEF WriteBank, Good, TypeOK
  <2>3. running \in Banks \ {b}
    BY <1>0, <2>1
  <2>. QED
    BY <2>1, <2>2, <2>3 DEF PreviousInv, ProperPrevious, RunningIsKnown
<1>6. ASSUME NEW b \in Banks, Decay(b) PROVE PreviousInv'
  <2>1. /\ phase = "off" \/ phase = "serving"
        /\ request = NoRequest
        /\ UNCHANGED <<saved, ram, phase, running, writing, home, written, request>>
        /\ image' = [image EXCEPT ![b] = [check |-> "BAD", version |-> 0]]
    BY <1>6, Grounds DEF Decay, Serving
  <2>2. \A c \in Banks : Good(c)' => Good(c)
    BY <2>1 DEF Good, TypeOK
  <2>. QED
    BY <1>0, <2>1, <2>2 DEF PreviousInv, ProperPrevious, RunningIsKnown
<1>. QED
  BY <1>1, <1>2, <1>3, <1>4, <1>5, <1>6

\* While a bank on trial is selected, the bank to go back to - if it can be
\* started and nobody wrote to it since - is the one that was last known to run
\* properly, with a store of one sector whose flash does not fail (dmsel_select,
\* dmsel_ready, dmsel_choose).
THEOREM PreviousRanIndeed ==
    ASSUME Reliable
    PROVE  Spec => []PreviousRanProperly
<1>1. Init => PreviousInv
  BY NoBank DEF Init, BlankRecord, PreviousInv, ProperPrevious
<1>2. PreviousInv /\ UNCHANGED vars => PreviousInv'
  BY QuietPrevious DEF vars
<1>3. Orderly /\ TypeOK /\ TriesInv /\ ProvenInv /\ PreviousInv /\ [Next]_vars
        => PreviousInv'
  BY <1>2, SelectorPrevious, FirmwarePrevious, SurroundingsPrevious DEF Next
<1>4. PreviousInv => PreviousRanProperly
  BY DEF PreviousInv, ProperPrevious, PreviousRanProperly
<1>5. Spec => []TriesInv
  <2>1. Orderly /\ TypeOK /\ TriesInv /\ [Next]_vars => TriesInv'
    BY SelectorTries, FirmwareTries, SurroundingsTries, StutterTries DEF Next
  <2>. QED
    BY <2>1, InitTries, TypeCorrect, StoreIsOrderly, PTL DEF Spec
<1>. QED
  BY <1>1, <1>3, <1>4, <1>5, ProvenInvariant, TypeCorrect, StoreIsOrderly, PTL
     DEF Spec

=============================================================================
