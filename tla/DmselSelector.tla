--------------------------- MODULE DmselSelector ---------------------------
(***************************************************************************)
(* The selector (selector/src/dmsel.c): which bank is started after a     *)
(* reset, and how the calls of the running firmware (Dmod_Firmware* over   *)
(* the selector's table) change that choice.                               *)
(*                                                                         *)
(* The flash keeps the images of the banks and the state records of the    *)
(* store; everything else is RAM and is gone after a reset.  A call that   *)
(* writes the store is two steps here: RAM is changed and the write        *)
(* begins, then the write ends.  The power can go in between.  What the    *)
(* store has then and what a write returns is in StoreContract; DmselStore *)
(* models the store itself.                                                *)
(***************************************************************************)
EXTENDS Integers

CONSTANTS
    BankCount,      \* layout->bank_count
    MaxBanks,       \* DMSEL_MAX_BANKS, which also stands for "no bank"
    MaxTries,       \* layout->max_tries
    Versions,       \* the versions an image can have
    NoRecord,       \* the store holds no valid state record
    NoRequest,      \* no dmsel_select is waiting for its dmsel_verify
    Reliable,       \* the store is one sector of a flash that does not fail
    Watchdog        \* layout->watchdog_ms # 0, and the port has a watchdog

Banks == 0 .. BankCount - 1
NO_BANK == MaxBanks

ASSUME BanksAssumption ==
    BankCount \in Nat /\ MaxBanks \in Nat /\ BankCount <= MaxBanks
ASSUME TriesAssumption == MaxTries \in 0 .. 255  \* the counter is a uint8_t
ASSUME VersionsAssumption == Versions \subseteq Nat
ASSUME SwitchesAssumption == Reliable \in BOOLEAN /\ Watchdog \in BOOLEAN

BankStates == {"EMPTY", "VALID", "TRIAL", "CONFIRMED", "INVALID"}

\* What check_image finds in a bank.
Images == [check: {"EMPTY", "BAD"}, version: {0}]
            \cup [check: {"OK"}, version: Versions]

\* The state of the banks: the part of dmsel_t that a state record holds.
Records == [selected: Banks \cup {NO_BANK}, previous: Banks \cup {NO_BANK},
            state: [Banks -> BankStates], tries: [Banks -> 0 .. 255]]

Requests == [bank: Banks, trial: BOOLEAN]

ASSUME NoRecordAssumption == NoRecord \notin Records
ASSUME NoRequestAssumption == NoRequest \notin Requests

VARIABLES
    image,      \* flash: the image of each bank
    saved,      \* flash: the latest state record of the store
    hidden,     \* flash: state records behind the end of the log
    astray,     \* dmsel_t: store_end is a blank place that is not that end
    ram,        \* dmsel_t: selected, previous, state[], tries[]
    stateValid, \* dmsel_t: a state record was found in the store
    running,    \* dmsel_t: the bank that was started
    phase,      \* where the processor is
    pass,       \* dmsel_choose: the pass
    order,      \* dmsel_choose: the banks in the order they are tried
    k,          \* dmsel_choose: position in order, 0 before the pass begins
    writing,    \* the write to the store that is under way
    request,    \* dmsel_select after its call of dmsel_verify
    call,       \* the last call of the firmware ...
    result,     \* ... and what it returned (while it runs: its local r)
    armed,      \* the watchdog runs (it cannot be stopped)
    starts,     \* history: starts of a bank on trial since it was selected
    dropped,    \* history: banks dropped at the end of their trial
    home,       \* history: last bank started not on trial, or confirmed
    written     \* history: banks written by the update tool since then

store == <<saved, hidden, astray>>
flash == <<image, store>>
choice == <<pass, order, k>>
interface == <<request, call, result>>
history == <<starts, dropped, home, written>>
vars == <<image, saved, hidden, astray, ram, stateValid, running, phase, pass,
          order, k, writing, request, call, result, armed, starts, dropped,
          home, written>>

Phases == {"off", "choose", "boot", "image", "serving", "hung", "halted",
           "refused"}
Positions == 1 .. BankCount + 2
BlankRecord == [selected |-> NO_BANK, previous |-> NO_BANK,
                state |-> [b \in Banks |-> "EMPTY"],
                tries |-> [b \in Banks |-> 0]]
NoOrder == [i \in Positions |-> NO_BANK]

Good(b) == image[b].check = "OK"

\* Mutant: a bank that was given up is tried again.
StartableUnlessEmpty(st) == st # "EMPTY"
\* dmsel_choose tries the banks in the other states.
Startable(st) == st \notin {"EMPTY", "INVALID"}

\* Mutant: the result of check_image is kept as the state of the bank.
RefusedAsResult(b) == image[b].check
\* The bank state of an image that check_image refuses.
Refused(b) == IF image[b].check = "EMPTY" THEN "EMPTY" ELSE "INVALID"

Init ==
    /\ image \in [Banks -> Images]
    /\ saved = NoRecord /\ hidden = {} /\ astray = FALSE
    /\ ram = BlankRecord
    /\ stateValid = FALSE
    /\ running = NO_BANK
    /\ phase = "off"
    /\ pass = 0 /\ order = NoOrder /\ k = 0
    /\ writing = "nothing"
    /\ request = NoRequest /\ call = "none" /\ result = "none"
    /\ armed = FALSE
    /\ starts = [b \in Banks |-> 0]
    /\ dropped = {}
    /\ home = NO_BANK
    /\ written = {}

-----------------------------------------------------------------------------
(***************************************************************************)
(* The selector after a reset: dmsel_init, dmsel_choose, dmsel_boot.       *)
(***************************************************************************)

\* dmsel_init: the record of the store, or the blank state.
Loaded == IF saved = NoRecord THEN BlankRecord ELSE saved

\* load_state: the record, and the end of the log for store_end.
LoadState ==
    /\ ram' = Loaded
    /\ stateValid' = (saved # NoRecord)
    /\ astray' = FALSE
    /\ UNCHANGED <<image, saved, hidden>>

\* main of the selector up to dmsel_choose.
PowerOn ==
    /\ phase = "off"
    /\ phase' = "choose"
    /\ LoadState
    /\ running' = NO_BANK
    /\ pass' = 0 /\ k' = 0
    /\ UNCHANGED <<order, writing, interface, armed, history>>

\* The newest good image, the first of them when several are as new.
IsNewest(b) ==
    /\ Good(b)
    /\ \A c \in Banks : Good(c) =>
          \/ image[c].version < image[b].version
          \/ image[c].version = image[b].version /\ b <= c

\* Mutant: only the banks that were startable before are taken.
RebuildOfStartable ==
    [BlankRecord EXCEPT !.state =
        [b \in Banks |-> IF Startable(ram.state[b]) THEN "VALID" ELSE "EMPTY"]]
\* rebuild: every good image counts, the newest is selected.
rebuild ==
    [selected |-> IF \E b \in Banks : IsNewest(b)
                    THEN CHOOSE b \in Banks : IsNewest(b)
                    ELSE NO_BANK,
     previous |-> NO_BANK,
     state |-> [b \in Banks |-> IF Good(b) THEN "VALID" ELSE Refused(b)],
     tries |-> [b \in Banks |-> 0]]

\* dmsel_choose's order[]: selected, previous, then every bank.
CandidateOrder(st) ==
    [i \in Positions |-> IF i = 1 THEN st.selected
                         ELSE IF i = 2 THEN st.previous
                         ELSE i - 3]

Choosing == phase = "choose" /\ writing = "nothing"

\* The head of dmsel_choose's outer loop.
BeginPass ==
    /\ Choosing /\ k = 0
    /\ LET lost == pass = 1 \/ ~stateValid
       IN  /\ ram' = IF lost THEN rebuild ELSE ram
           /\ dropped' = IF lost THEN {} ELSE dropped
    /\ order' = CandidateOrder(ram')
    /\ k' = 1
    /\ UNCHANGED <<flash, stateValid, running, phase, pass, writing,
                   interface, armed, starts, home, written>>

\* A bank that was not tried yet and has something to start.
Candidate(i) ==
    /\ order[i] \in Banks
    /\ \A j \in 1 .. i - 1 : order[j] # order[i]
    /\ Startable(ram.state[order[i]])

SkipCandidate ==
    /\ Choosing /\ k \in Positions /\ ~Candidate(k)
    /\ k' = k + 1
    /\ UNCHANGED <<flash, ram, stateValid, running, phase, pass, order,
                   writing, interface, armed, history>>

\* save_state: RAM counts as valid, the record is on its way to the store.
SaveState(st) ==
    /\ ram' = st
    /\ stateValid' = TRUE
    /\ writing' = "state"

\* Mutant: one try too many.
TrialOverLate(b) == ram.state[b] = "TRIAL" /\ ram.tries[b] > MaxTries
\* The image had its tries and did not confirm.
TrialOver(b) == ram.state[b] = "TRIAL" /\ ram.tries[b] >= MaxTries

\* The image of the candidate is damaged or gone, or its trial is over.
RefuseCandidate ==
    /\ Choosing /\ k \in Positions /\ Candidate(k)
    /\ LET c == order[k]
       IN  \/ /\ ~Good(c)
              /\ SaveState([ram EXCEPT !.state[c] = Refused(c)])
              /\ dropped' = dropped
           \/ /\ Good(c) /\ TrialOver(c)
              /\ SaveState([ram EXCEPT !.state[c] = "INVALID"])
              /\ dropped' = dropped \cup {c}
    /\ k' = k + 1
    /\ UNCHANGED <<flash, running, phase, pass, order, interface, armed,
                   starts, home, written>>

\* The candidate is chosen; a start on trial is counted before it happens.
ChooseCandidate ==
    /\ Choosing /\ k \in Positions /\ Candidate(k)
    /\ LET c == order[k]
       IN  /\ Good(c) /\ ~TrialOver(c)
           /\ SaveState(IF ram.state[c] = "TRIAL"
                          THEN [ram EXCEPT !.selected = c,
                                           !.tries[c] = (@ + 1) % 256]
                          ELSE [ram EXCEPT !.selected = c,
                                           !.previous = NO_BANK])
           /\ running' = c
    /\ phase' = "boot"
    /\ UNCHANGED <<flash, pass, order, k, interface, armed, history>>

\* Every candidate was refused: the second pass, then nothing to start.
EndPass ==
    /\ Choosing /\ k \notin Positions /\ k # 0
    /\ IF pass = 0
         THEN pass' = 1 /\ k' = 0 /\ phase' = phase
         ELSE phase' = "halted" /\ UNCHANGED <<pass, k>>
    /\ UNCHANGED <<flash, ram, stateValid, running, order, writing,
                   interface, armed, history>>

OnTrial == running \in Banks /\ ram.state[running] = "TRIAL"

\* Mutant: the watchdog for every image.
WatchdogAlways == Watchdog
\* An image that hangs before it confirms is reset by the watchdog.
WatchdogNeeded == OnTrial /\ Watchdog

\* dmsel_boot after dmsel_choose: the watchdog, then the jump ...
Jump ==
    /\ phase = "boot" /\ writing = "nothing" /\ Good(running)
    /\ armed' = WatchdogNeeded
    /\ starts' = IF OnTrial THEN [starts EXCEPT ![running] = @ + 1]
                            ELSE starts
    /\ home' = IF OnTrial THEN home ELSE running
    /\ written' = IF OnTrial THEN written ELSE written \ {running}
    /\ phase' = "image"
    /\ UNCHANGED <<flash, ram, stateValid, running, choice, writing,
                   interface, dropped>>

\* ... which returns when the chip cannot bring the image into the memory.
JumpRefused ==
    /\ phase = "boot" /\ writing = "nothing" /\ Good(running)
    /\ armed' = WatchdogNeeded
    /\ phase' = "refused"
    /\ UNCHANGED <<flash, ram, stateValid, running, choice, writing,
                   interface, history>>

-----------------------------------------------------------------------------
(***************************************************************************)
(* The running firmware.                                                   *)
(***************************************************************************)

\* table_init at the first call: a dmsel_t of the firmware's own.
FirmwareInit ==
    /\ phase = "image"
    /\ phase' = "serving"
    /\ LoadState
    /\ UNCHANGED <<running, choice, writing, interface, armed,
                   history>>

Serving == phase = "serving" /\ writing = "nothing" /\ request = NoRequest

\* dmsel_verify's verdict on a bank.
Verified(b) ==
    IF Good(b)
      THEN IF Startable(ram.state[b]) THEN ram.state[b] ELSE "VALID"
      ELSE Refused(b)

\* dmsel_verify, on its own or as the beginning of dmsel_select.
VerifyBank(b) ==
    /\ IF Verified(b) = ram.state[b]
         THEN UNCHANGED <<ram, stateValid, writing, dropped>>
         ELSE /\ SaveState([ram EXCEPT !.state[b] = Verified(b),
                                       !.tries[b] = 0])
              /\ dropped' = dropped \ {b}
    /\ result' = image[b].check

Verify(b) ==
    /\ Serving
    /\ VerifyBank(b)
    /\ call' = "verify"
    /\ UNCHANGED <<flash, running, phase, choice, request, armed, starts,
                   home, written>>

Select(b, trial) ==
    /\ Serving
    /\ VerifyBank(b)
    /\ call' = "select"
    /\ request' = [bank |-> b, trial |-> trial]
    /\ UNCHANGED <<flash, running, phase, choice, armed, starts, home,
                   written>>

\* Mutant: the running bank, although it is on trial itself.
BackToRunning(b) ==
    LET back == IF running \in Banks THEN running ELSE ram.selected
    IN  IF back = b \/ back \notin Banks THEN NO_BANK ELSE back
\* dmsel_select: the bank to go back to from a bank on trial.
Back(b) ==
    LET back == IF running \in Banks THEN running ELSE ram.selected
    IN  IF back = b \/ back \notin Banks THEN NO_BANK
        ELSE IF ram.state[back] = "TRIAL" THEN ram.previous
        ELSE back

\* dmsel_select after dmsel_verify.
SelectVerified ==
    /\ phase = "serving" /\ writing = "nothing" /\ request # NoRequest
    /\ request' = NoRequest
    /\ LET b == request.bank
       IN  IF result # "OK"
             THEN UNCHANGED <<ram, stateValid, writing, result, starts,
                              dropped>>
             ELSE /\ SaveState(
                       [ram EXCEPT
                          !.previous = IF request.trial THEN Back(b)
                                                        ELSE NO_BANK,
                          !.state[b] = IF request.trial THEN "TRIAL"
                                                        ELSE "CONFIRMED",
                          !.tries[b] = 0,
                          !.selected = b])
                  /\ starts' = [starts EXCEPT ![b] = 0]
                  /\ dropped' = dropped \ {b}
                  /\ result' = "none"
    /\ UNCHANGED <<flash, running, phase, choice, call, armed, home,
                   written>>

Ready ==
    /\ Serving
    /\ call' = "ready"
    /\ IF OnTrial
         THEN /\ SaveState([ram EXCEPT !.state[running] = "CONFIRMED",
                                       !.tries[running] = 0,
                                       !.previous = NO_BANK])
              /\ result' = "none"
         ELSE /\ result' = "OK"
              /\ UNCHANGED <<ram, stateValid, writing>>
    /\ UNCHANGED <<flash, running, phase, choice, request, armed, history>>

\* dmsel_persist_write, when it appends a record: the store may be compacted.
WritePersistency ==
    /\ Serving
    /\ writing' = "item"
    /\ call' = "persist" /\ result' = "none"
    /\ UNCHANGED <<flash, ram, stateValid, running, phase, choice, request,
                   armed, history>>

-----------------------------------------------------------------------------
(***************************************************************************)
(* The end of a write to the store.                                        *)
(***************************************************************************)

Contract == INSTANCE StoreContract

\* The store as StoreContract has it.
Store == [saved |-> saved, hidden |-> hidden, astray |-> astray]

\* What an interrupted write leaves.
Remains == Contract!Remains(writing, ram, Store)

\* Mutant: a record that was not written counts as written.
OutcomeUnwritten(rest, r) ==
    rest.saved \in {saved, ram} /\ r \in {"OK", "NOSPACE"}
\* append: what it leaves in the store and what it returns.
Outcome(rest, r) == Contract!Outcome(writing, ram, Store, rest, r)

\* The store has come to this.
Left(rest) ==
    /\ saved' = rest.saved
    /\ hidden' = rest.hidden

\* dmsel_verify turns every failure of its save into DMSEL_ERR_IO.
Returned(r) ==
    CASE phase # "serving" -> result
      [] phase = "serving" /\ (call = "verify" \/ request # NoRequest) ->
            IF r = "OK" THEN result ELSE "IO"
      [] OTHER -> r

\* The store has it that the running bank is confirmed.
Confirmed(record) ==
    /\ phase = "serving"
    /\ record # NoRecord
    /\ record.state[running] = "CONFIRMED"

NoteConfirmed(record) ==
    /\ home' = IF Confirmed(record) THEN running ELSE home
    /\ written' = IF Confirmed(record) THEN written \ {running} ELSE written

StoreWritten ==
    /\ writing # "nothing"
    /\ \E rest \in Remains, r \in {"OK", "NOSPACE", "IO"} :
          /\ Outcome(rest, r)
          /\ Left(rest)
          /\ astray' = rest.astray
          /\ result' = Returned(r)
          /\ request' = IF r = "OK" THEN request ELSE NoRequest
          /\ NoteConfirmed(rest.saved)
    /\ writing' = "nothing"
    /\ UNCHANGED <<image, ram, stateValid, running, phase, choice, call,
                   armed, starts, dropped>>

-----------------------------------------------------------------------------
(***************************************************************************)
(* What happens around the program.                                        *)
(***************************************************************************)

\* The RAM is gone.
Off ==
    /\ phase' = "off"
    /\ astray' = FALSE
    /\ ram' = BlankRecord /\ stateValid' = FALSE /\ running' = NO_BANK
    /\ pass' = 0 /\ order' = NoOrder /\ k' = 0
    /\ writing' = "nothing"
    /\ request' = NoRequest /\ call' = "none" /\ result' = "none"
    /\ armed' = FALSE

\* A reset or a power cut, at any moment.
PowerCut ==
    /\ phase # "off"
    /\ \E rest \in Remains : Left(rest) /\ NoteConfirmed(rest.saved)
    /\ Off
    /\ UNCHANGED <<image, starts, dropped>>

\* The image stops doing anything useful.
Hang ==
    /\ phase = "image" \/ Serving
    /\ phase' = "hung"
    /\ UNCHANGED <<flash, ram, stateValid, running, choice, writing,
                   interface, armed, history>>

WatchdogReset ==
    /\ armed /\ phase \in {"hung", "refused"}
    /\ Off
    /\ UNCHANGED <<image, saved, hidden, history>>

\* The update tool erases and writes banks other than the running one.
WriteBank(b) ==
    /\ Serving /\ b # running
    /\ \E i \in Images : image' = [image EXCEPT ![b] = i]
    /\ written' = written \cup {b}
    /\ UNCHANGED <<store, ram, stateValid, running, phase, choice, writing,
                   interface, armed, starts, dropped, home>>

\* A bit of an image flips.
Decay(b) ==
    /\ phase = "off" \/ Serving
    /\ Good(b)
    /\ image' = [image EXCEPT ![b] = [check |-> "BAD", version |-> 0]]
    /\ UNCHANGED <<store, ram, stateValid, running, phase, choice, writing,
                   interface, armed, history>>

Selector ==
    \/ PowerOn \/ BeginPass \/ SkipCandidate \/ RefuseCandidate
    \/ ChooseCandidate \/ EndPass \/ Jump \/ JumpRefused

Calls ==
    \/ \E b \in Banks : Verify(b) \/ (\E trial \in BOOLEAN : Select(b, trial))
    \/ Ready
    \/ WritePersistency

Next ==
    \/ Selector
    \/ FirmwareInit \/ Calls \/ SelectVerified \/ StoreWritten
    \/ PowerCut \/ Hang \/ WatchdogReset
    \/ \E b \in Banks : WriteBank(b) \/ Decay(b)

Spec == Init /\ [][Next]_vars

\* The power comes back, the processor goes on, a write to the flash ends, and
\* a watchdog that nobody feeds resets the chip.  No image has to do anything.
Fairness ==
    /\ WF_vars(Selector)
    /\ WF_vars(StoreWritten)
    /\ WF_vars(WatchdogReset)

FairSpec == Spec /\ Fairness

-----------------------------------------------------------------------------
(***************************************************************************)
(* Properties.                                                             *)
(***************************************************************************)

\* Every variable has a value of its type; a choice that was made is a bank,
\* and a call is under way only in the firmware.
TypeOK ==
    /\ image \in [Banks -> Images]
    /\ saved \in Records \cup {NoRecord}
    /\ hidden \subseteq Records
    /\ astray \in BOOLEAN
    /\ ram \in Records
    /\ stateValid \in BOOLEAN
    /\ running \in Banks \cup {NO_BANK}
    /\ phase \in Phases
    /\ pass \in {0, 1}
    /\ order \in [Positions -> Int]
    /\ k \in 0 .. BankCount + 3
    /\ writing \in {"nothing", "state", "item"}
    /\ request \in Requests \cup {NoRequest}
    /\ call \in {"none", "verify", "select", "ready", "persist"}
    /\ result \in {"none", "OK", "EMPTY", "BAD", "IO", "NOSPACE"}
    /\ armed \in BOOLEAN
    /\ starts \in [Banks -> Nat]
    /\ dropped \subseteq Banks
    /\ home \in Banks \cup {NO_BANK}
    /\ written \subseteq Banks
    /\ phase \in {"boot", "image", "serving", "hung", "refused"}
          => running \in Banks

\* An image on trial is started at most MaxTries times before it is confirmed
\* or selected again: the try is in the store before the jump (dmsel_choose),
\* whatever resets, power cuts and calls come in between.
TrialStartsAreBounded == \A b \in Banks : starts[b] <= MaxTries

\* The selector gives up only when no bank holds a good image: what the first
\* pass of dmsel_choose cannot start, the second finds in the banks.
HaltsOnlyWithoutImage ==
    phase = "halted" => \A b \in Banks : ~Good(b)

\* A record that is there is given up for the banks (second pass) only when
\* no bank it calls startable holds a good image.
RebuildIsTheLastResort ==
    phase = "choose" /\ pass = 1 /\ k = 0 =>
        \A b \in Banks : Good(b) => ~Startable(ram.state[b])

\* The choice gives up neither the record nor the banks before it has to,
\* with damaged images, cut and failed saves behind it (dmsel_choose).
GivesUpLast == HaltsOnlyWithoutImage /\ RebuildIsTheLastResort

\* A bank that was dropped at the end of its trial does not run again until
\* it is verified or selected again, or the state is rebuilt from the banks.
DroppedIsNotStarted ==
    phase \in {"boot", "image", "serving", "hung"} => running \notin dropped

\* While a bank on trial is selected, the bank to go back to is the one that
\* was last known to run properly (dmsel_select, dmsel_ready).
PreviousRanProperly ==
    phase = "serving" /\ writing = "nothing"
      /\ ram.selected \in Banks /\ ram.state[ram.selected] = "TRIAL"
      /\ ram.previous \in Banks /\ Startable(ram.state[ram.previous])
      /\ ram.previous \notin written =>
        ram.previous = home

\* A bank that is not on trial is given up in the store only when its image
\* is damaged or gone, whenever its record was made and written.
ProvenBankIsKept ==
    [][ saved # NoRecord /\ saved' # NoRecord =>
          \A b \in Banks :
             saved.state[b] \in {"VALID", "CONFIRMED"}
               /\ ~Startable(saved'.state[b]) => ~Good(b) ]_vars

\* dmsel_t.previous is the "bank to go back to when the one on trial does not
\* confirm" (selector/include/dmsel.h:111): another bank than that one.
PreviousIsAnotherBank ==
    Serving /\ ram.selected \in Banks
      /\ ram.state[ram.selected] = "TRIAL" =>
        ram.previous # ram.selected

\* When dmsel_ready has returned DMSEL_OK the confirmation survives a reset
\* (selector/tests/test_selector.c:134-139).
ReadyIsDurable ==
    Serving /\ call = "ready" /\ result = "OK"
      /\ ram.state[running] = "CONFIRMED" =>
        saved # NoRecord /\ saved.state[running] = "CONFIRMED"

\* dmsel_choose comes to an end, and with a good image in a bank it ends with
\* a jump into an image, unless the power goes.
GoodImageIsStarted ==
    phase = "choose" /\ (\E b \in Banks : Good(b))
        ~> phase \in {"off", "image", "refused"}

\* With a watchdog, an image that was started on trial and hangs each time is
\* left for good after some starts, without anybody's help.
HungTrialIsLeft ==
    <>[][~Calls]_vars => <>[](phase = "hung" => ~armed)

-----------------------------------------------------------------------------
(***************************************************************************)
(* The inductive invariant behind TrialStartsAreBounded, for a reliable    *)
(* store: the starts never run ahead of the tries, neither of those in RAM *)
(* nor of those in the store.                                              *)
(***************************************************************************)
RamCounts ==
    \A b \in Banks : ram.state[b] = "TRIAL" =>
        /\ starts[b] <= ram.tries[b]
        /\ ram.tries[b] <= MaxTries
        /\ phase = "boot" /\ running = b => starts[b] < ram.tries[b]

StoreCounts ==
    saved # NoRecord =>
        \A b \in Banks : saved.state[b] = "TRIAL" =>
            starts[b] <= saved.tries[b] /\ saved.tries[b] <= MaxTries

\* The try is in the store before the jump.
SavedBeforeTheJump == phase = "boot" /\ writing = "nothing" => saved = ram
ItemsComeFromTheFirmware == writing = "item" => phase = "serving"

TriesInv ==
    /\ RamCounts
    /\ StoreCounts
    /\ SavedBeforeTheJump
    /\ ItemsComeFromTheFirmware
    /\ TrialStartsAreBounded

=============================================================================
