# Verification of dmod-boot

dmod-boot is the boot firmware of the DMOD system for STM32F7 and ESP32-S3 boards. A small program, the *selector*, runs
after every reset: it keeps the state of two (up to four) banks with firmware images, decides which one is started, puts a
new image on trial and falls back when the image does not confirm. The firmware itself (`src/main.c` and `src/arch`) brings
up the heaps, the file systems and the scheduler, and reaches the selector through a table of functions.

This directory holds TLA+ models of the parts where the order of events decides whether the program is right, the TLC runs
that check them on small instances, and proofs for every value of the constants. Paths below are those of the repository.

## 1. Inventory

| Component | Source | State | Operations | Status |
| --- | --- | --- | --- | --- |
| Choice of the bank | `selector/src/dmsel.c` 310-606 | `dmsel_t`: `selected`, `previous`, `running`, `state_valid`, `state[]`, `tries[]` | `dmsel_init`, `dmsel_choose`, `dmsel_boot`, `dmsel_verify`, `dmsel_select`, `dmsel_ready` | `DmselSelector` |
| Store | `selector/src/dmsel.c` 112-308, 608-680 | the log in the flash, `store_end`, `scratch` | `load_state`, `append`, `compact`, `save_state`, `dmsel_persist_read`, `dmsel_persist_write` | `DmselStore`, `StoreSpec` |
| Start and table of the selector | `selector/fw/main.c`, `selector/include/dmsel_table.h` | the selector's own `dmsel_t` | `main`, `table_init`, `port_jump` | in `DmselSelector` |
| Flash of the chips | `selector/mcu/*/*/flash.c` | the flash | `erase`, `program` | in `DmselStore` (order of sectors and words) |
| Watchdog, image window | `selector/mcu/*/*/watchdog.c`, `image.c` | a running watchdog | start, prepare the jump | in `DmselSelector` (as events) |
| Firmware SAL | `src/firmware/dmboot_firmware.c` | `g_state`, `g_table`, `g_initialized`, the scratch pointer | `get_table`, `Dmod_Firmware*`, `Dmod_*Persistency` | `FirmwareSal` |
| Boot of the firmware | `src/main.c` | heaps, mounts, the boot thread, the shell's argv | `main`, `startup_devices`, `boot_shell` | `DmbootMain`, `FirmwareBoot` |
| Critical sections | `src/arch/*/dmod_critical.c` | `critical_nesting`, `saved_ps` | enter, exit | `DmodCritical` |
| Flash at run time (ESP32-S3) | `src/arch/xtensa/lx7/flash.c`, `shim/port_shim.c` | `work`, INTENABLE | `run`, `flash_work`, erase, program | `XtensaFlash` |
| Files to the device | `scripts/ymodem_send.py` | packet number, attempts | `wait_for`, `send_packet`, `send_file`, the batch in `main` | `YmodemSend` |
| Caches | `src/arch/armv7/cortex-m7/caches.c`, `src/arch/xtensa/lx7/caches.c` | which caches are on, the MPU region of the logs | `low_level_init_1`, `Dmod_SyncCode` | `CodeCaches`, `FirmwareBoot` |
| Jump, startup, reboot, console, system | `selector/arch`, `selector/mcu`, `src/arch/armv7/dmod_reboot.c` | registers | - | not modelled: straight lines of register writes |
| Build, packages, emulator models, developer scripts | `CMakeLists.txt`, `configs`, `scripts`, `docker` | - | - | not modelled: no program of the device |
| dmod, dmosi, dmvfs, dmlog, dmheap | other repositories | - | - | external; modelled by what `src/` relies on |

How they interact: the selector and the firmware never run at the same time. They share the flash (the banks and the
store) and the code of `dmsel.c`; the firmware has a `dmsel_t` of its own, filled from the store at its first call. The
update tool writes the image of a bank that does not run and then asks for it with `dmsel_select`. A reset can happen at
any moment and leaves only the flash.

What is hard, and what makes it right:

* **Choice of the bank.** Power cuts between a counted try and the jump, between two saves, in the middle of a compaction;
  saves that fail while the RAM keeps the change; sequences of calls (selecting from a bank that is itself on trial,
  confirming while another bank is selected, verifying a bank that was dropped). It is right when a trial ends after
  `max_tries` starts, a good image is always found, a dropped bank stays dropped, a proven bank is not given up, and the
  bank to go back to has run properly.
* **Store.** Power cuts and failures at every word; a store full of old records; the size of the scratch memory; a log that
  goes on where `store_end` says. It is right when what was acknowledged is there, an interrupted write leaves the old or
  the new value, an old value never comes back, and only erased words are programmed.
* **Critical sections.** One counter and one saved level for all threads and all handlers, which interrupts and the scheduler
  reach between any two instructions. It is right when nothing else runs inside a section, interrupts come back at the level
  they had and not earlier, and a call that has no section to leave is told from one that has.
* **Firmware SAL.** Threads in `get_table` at the same time, one `dmsel_t` and one scratch pointer for all of them, and no lock.
  It is right when every buffer comes back, a call that writes works in its own buffer, `-ENOSYS` means that there is no
  selector, and what was stored is found - and for which callers each of these holds.
* **Start of the firmware.** Nearly every step can fail; `dmosi_init` may return while the boot thread runs or only when the
  scheduler is gone; arrays of arguments whose memory runs out half way. It is right when the start ends, nothing runs before
  its time, the shell is alone, and arguments are complete where they are used and free where they are not.
* **Caches.** They fill and write back lines whenever they like, and modules share lines. They are right when the code of a
  module that was loaded is what is fetched, nothing of before the reset is served, and the debugger can read the log.
* **Flash at run time.** The work runs in an interrupt that the caller waits for, with both caches off and work area, flag
  and INTENABLE shared. It is right when nothing else runs meanwhile, only the range changes, the data cache follows, and the
  call returns.
* **Files to the device.** Packets and answers are lost, garbled, repeated and late, numbers wrap. It is right when the files on
  the device are those that were sent, `ok` means that they are all there, and the script ends.

All hazards, each at its line and with the properties that watch it, are in `PROJECT.json`.

## 2. Modules

| Module | What it is |
| --- | --- |
| `DmselSelector` | the choice of the bank, from power on to the calls of the firmware; writes to the store are one begin and one end |
| `MCDmselSelector` | the same for TLC, with a view that leaves out the history, and bounds on the records behind the end of the log |
| `DmselSelectorProofs` | type correctness, the bound on the starts of a trial, what `dmsel_choose` gives up and starts, what a record says of proven banks and of the bank to go back to, and that items are written behind a state record |
| `StoreSpec` | what the store promises: a state and items, atomic writes, now and then everything moved |
| `DmselStore` | the store as it is: a log of records written word by word; refines `StoreSpec` |
| `MCDmselStore` | the same for TLC, with the sizes of the values |
| `StoreContract` | what a write may leave of the state records, in the log and behind its end, and what it returns: the operators that both sides use |
| `DmselWrites`, `MCDmselWrites` | `DmselStore` with the records of before the call; its writes keep `StoreContract` |
| `DmselStoreProofs` | type correctness (nothing is programmed outside the store), the size of a compaction, which callers never overflow `scratch`, and what the log has when a call returns |
| `DmselWritesProofs` | for a store of one sector whose flash does not fail: that it implements `StoreSpec`, and that its writes keep `StoreContract` |
| `DmodCritical`, `MCDmodCritical` | enter and exit of critical sections on both architectures, with threads, nested interrupts and sections of the kernel |
| `DmodCriticalProofs` | exclusion, the restored level, and that the assertion is exact |
| `FirmwareSal`, `MCFirmwareSal` | the calls of the firmware's SAL, made by several threads over one `dmsel_t`, table and scratch pointer |
| `FirmwareSalProofs` | type correctness of the SAL, and what holds for callers that take turns |
| `CodeCaches` | the caches of the Cortex-M7 and the ESP32-S3: how they are turned on, and `Dmod_SyncCode` |
| `DmbootMain` | `main`, the boot thread and the shell |
| `FirmwareBoot`, `MCFirmwareBoot` | the two together: the start from the reset on, with modules that are loaded, synchronised, unloaded and run |
| `FirmwareBootProofs` | that synchronised code is fetched, by lemmas about the actions of `CodeCaches`; type correctness of the start, its order, the memory of the arguments, and the code of every loaded module |
| `XtensaFlash`, `MCXtensaFlash` | erase and program at run time on the ESP32-S3, with the software interrupt and the table of handlers |
| `XtensaFlashProofs` | everything that the run `xtensa_flash` checks, but that calls return, for chips of any size |
| `YmodemSend`, `MCYmodemSend` | the script that sends files, a line that fails, and a receiver |
| `YmodemSendProofs` | everything that the run `ymodem` checks, but that the script ends, for files and numbers of any size |

### `DmselSelector` and the code

| Variables | Code |
| --- | --- |
| `image`, `saved` | the flash: for each bank what `check_image` finds (EMPTY, BAD, OK and a version), and the latest valid state record |
| `hidden` | the flash: state records behind the end of the log, which `load_state` does not reach |
| `astray` | `store_end` is not the end of the log, and the flash is blank there: the next record is hidden |
| `ram`, `stateValid`, `running` | `dmsel_t` |
| `phase` | where the processor is: off, in `dmsel_choose`, in `dmsel_boot`, in an image that has not used the table yet, in one that serves calls, hung, with nothing to start, or back from a jump that failed |
| `pass`, `order`, `k` | the locals of `dmsel_choose` |
| `writing` | a write to the store that has begun and not ended, for the state or for an item |
| `request`, `call`, `result` | a `dmsel_select` between its `dmsel_verify` and its own save; the last call and what it returned |
| `armed` | the watchdog |
| `starts`, `dropped`, `home`, `written` | history: nothing in the program depends on them |

`dmsel_choose` is one action per turn of its loop (`BeginPass`, `SkipCandidate`, `RefuseCandidate`, `ChooseCandidate`,
`EndPass`), so that the power can go between the saves it makes. `SaveState` changes the RAM and begins a write;
`StoreWritten` ends it with every outcome that `append` has: the record is there, it did not fit (after a compaction, which
has stored the RAM anyway), or the flash failed. A write for an *item* can store the state as well, because a compaction
writes the state that is in RAM: that is how a state whose save has failed gets into the store later. `PowerCut` is possible
in every state. What a write leaves, ended or cut, is in `StoreContract` (below). `LoadState` sets `store_end` to the end of the log,
so nothing is `astray` behind it; what is `hidden` stays.

Wrong arguments, the calls that only read and the log are left out. `dmsel_boot` checks the image a second time right after
`dmsel_choose` did; nothing can change it in between, so `Jump` only requires it.

### `DmselStore` and the code

The flash of the store is an array of words. The word *i* of the record *r* is the pair `<<r, i>>`, a blank word is erased, a
garbage word was interrupted. `Readable` is `rec_read`: the record counts when all of its words are there, which is what the
CRC is for. `Log` is the set of the offsets at which the loops over `rec_read` find a record; that of the greatest offset is the
latest one. `off`, `attempt`, `scratch` are the locals and the buffer of `load_state`, `append` and `compact`; `sector`, `at`,
`todo`, `after` are where the port's `erase` and `program` are, and what the words are for. `LogFrom` walks the log as the loops
over `rec_read` do, and `Item`, `StoredState`, `LogEnd` are what these loops find.

`DmselSelector` has, in place of this log, its state records: the latest one (`saved`), those behind the end of the log that
would be the latest if the log grew up to them (`hidden`), and whether `store_end` is another place than this end and blank
(`astray`). What may become of the three in a write, and what `append` returns then, are the operators of `StoreContract`, by
which `StoreWritten` and `PowerCut` are defined:

* `Appended`: the record is at `store_end`. At the end of the log it is the latest, or it closes the gap to a hidden record, which
  is the latest then; elsewhere it is hidden itself.
* `Compacted`: the state in RAM is the only one, and nothing is behind it.
* `Interrupted`: a compaction that has stopped behind its erase (`dmsel.c:259-263`). The state in RAM is back, or there is none; `store_end`
  is where it was. Of several sectors only the first may be erased: old records are hidden behind the new beginning.
* `NotAppended`: the header of the record is not there. Garbage may be in its place, so nothing is put there again.

In one sector of a flash that does not fail (`Reliable`) nothing is ever hidden or astray. `DmselWrites` checks that the words in
the flash keep the contract: it reads the three off the words of `DmselStore` (`Now`), adds what they were when the call began,
and states the two uses - a call ends, the power goes - as action properties. `store_fails` checks them for two sectors of a
flash that may fail; for one sector of a flash that does not, they are proved. The two passing runs of the store take its steps from
`NextWrites`, those of `DmselStore` with this history, which no step depends on.

`StoreSpec` has four variables: the state that the callers have, the state and the items that are saved, and what is in RAM
while everything is moved. The refinement mapping reads the last three off the flash and `scratch`. It is `Abstract` in
`DmselStore`.

### `DmodCritical` and the code

`nesting` and `savedPS` are the two static variables, `ps` and `read` the registers of `Dmod_EnterCritical` and
`Dmod_ExitCritical`, `pc` where a context is in them. The mask, the read and the write of the counter, and the end of the mask
are actions of their own. `level` is the level up to which the processor holds back interrupts: `PS.INTLEVEL` on Xtensa, on
ARM what `PRIMASK`, the priority of the handler and `BASEPRI` amount to. `port` says which of the two files was built in.
`Interrupt`, `Return`, `Switch` and `KernelSection` are the processor and the RTOS, which are not part of the repository: an
interrupt comes when its level is above `level`, a handler returns to what it has interrupted, and threads are switched at
level 0 only. Callers are free to nest sections, and to leave one section too many.

### `FirmwareSal` and the code

`initialized`, `table`, `state`, `scratch` are `g_initialized`, `g_table`, and of `g_state` whether `dmsel_init` has filled it and the
scratch pointer; `mine` is the local of `WITH_SCRATCH`, `out` the one of `compact`. Every access to what the threads share is an
action: `get_table` has five (the flag, the table, the `memset` of `dmsel_init`, its `load_state`, `g_table`), a call that writes
has the allocation, the loan of the pointer, any number of compactions of three steps each, the return of the pointer, the
free. What is in the store is kept as whole, erased or lost: `CopyStore` copies to the scratch of that moment, and
`ProgramStore` brings the store back when that block is still allocated and still holds the copy. `discipline` is the callers' part,
because the file has no lock: callers that do nothing, callers whose writes take turns behind a first call that was alone, and
callers that take turns in all calls. `info` follows the fields of `Dmod_FirmwareBankInfo_t` from a selector and a firmware
that were built with different lengths to a caller with a third one.

### `DmbootMain`, `CodeCaches`, `FirmwareBoot` and the code

`main`, `worker` are where `main` (then `boot_shell`) and the boot thread are; `up` what has been initialised; `sched`, `backend` the
scheduler and the two kinds of `dmosi_init` that the comment at `main.c:700` names; `rom` which packages, file systems and options
a firmware was built with; `argv` of the shell and of the boot thread: the array, the entries that are allocated, and how many
it shall have. Each allocation is an action and can fail. `DMOD_ASSERT_MSG` halts or, compiled out, goes on (`halted`,
`returned`, or the thread that ends).

A cache may fill any line and write any line back at any time, so their contents are not followed: `current` is where the memory
has what was written last, `older` where the instruction cache may hold something older. `Evict` and `Prefetch` are free to
happen at any moment. `SyncCode`, `CleanLine`, `InvalidateAll` and `WritebackAll`, `InvalidateItems` are the two `Dmod_SyncCode` with their
address arithmetic. `enable_icache`, `logs_uncached`, `enable_dcache` are `low_level_init_1`; `junkI`, `junkD` what the caches
hold from before the reset.

`FirmwareBoot` joins the two: `Dmod_Load` stores a module at any free place (`StoreModule`), synchronises it (`SyncModule`) and comes
back (`LoadEnds`), for `main`, the boot thread and the shell; `place` is where each module is. A scheduler that stops while the
boot thread loads leaves the load where it is (`JoinStep`).

### `XtensaFlash` and the code

`work`, `done`, `result` are `flash_work_t`, `handler` is `_xt_interrupt_table`, `enable`, `ps`, `offset`, `size` are locals.
`run` is five actions (the flag and the handler, the read of INTENABLE, its write, the software interrupt, the loop),
`flash_work` ten. `OtherCode` is any other code, possible whenever the level allows an interrupt: it must not meet a
suspended cache, and may enable interrupts of the CPU. One call at a time: the callers come through the lock of `dmflash`.
The data that is programmed at an address is the address, so that a word in the wrong place shows.

### `YmodemSend` and the code

`step` is where the script is - which answer it waits for, in which call - with `file`, `number` and `attempt` as its loops have
them. `ReadAnswer` is one byte in `wait_for` with everything that follows until the next wait. `Timeout` comes when nothing is on
its way any more, unless `late`. `line` and `answers` are the two directions; `Lose` drops or garbles, `Leave` takes the device away.
The receiver is not in this repository: it is what `send_file` relies on (a packet with the number of the last one is acknowledged
again and not stored, EOT is answered with ACK or first with NAK, C is said until something comes).

## 3. Runs

| Run | Module, configuration | Bounds | Shows |
| --- | --- | --- | --- |
| `selector_two_banks` | `MCDmselSelector`, `SelectorTwoBanks.cfg` | 2 banks, 2 tries, 2 versions, one sector of a flash that does not fail | `TypeOK`, `TrialStartsAreBounded`, `PreviousRanProperly`, `DroppedIsNotStarted`, `ProvenBankIsKept` |
| `selector_flash_errors` | `SelectorFlashErrors.cfg` | 2 banks, 1 try, 1 version, any write may fail, at most one hidden record | `GivesUpLast` (it halts only when there is no image, and forgets what it knows only before that) |
| `selector_liveness` | `SelectorLiveness.cfg` | 2 banks, 1 try, 1 version, one sector of a flash that does not fail | `GoodImageIsStarted`, `HungTrialIsLeft` |
| `store_one_sector` | `MCDmselWrites`, `StoreOneSector.cfg` | 10 words, one sector, no more than `scratch` holds, 2 states, 2 items with 3 values, a flash that does not fail | `TypeOK`, `OkMeansStored`, `NoSpaceMeansFull`, `AppendsToTheLog` (only erased words are programmed, behind the end of the log), `CompactionFits`, `Implements` |
| `critical_sections` | `MCDmodCritical`, `CriticalSections.cfg` | 2 threads, 3 levels of interrupts, kernel at level 2, sections nested twice, both ports | `TypeOK`, `Exclusive`, `LevelIsRestored`, `ExcessExitIsCaught` |
| `store_fails` | `MCDmselWrites`, `StoreFails.cfg` | 10 words in 2 sectors, flash may fail, 2 states, 1 item | `KeepsContract` (the writes are those that `DmselSelector` has), `CallsReturn` |
| `firmware_sal` | `MCFirmwareSal`, `SalTurns.cfg` | 2 threads, 2 blocks of the heap, infos of up to 2 fields, all three kinds of callers | `TypeOK` (an info fits into the caller's struct), `ScratchIsLent` (and given back), `TableMeansState`, `StoreIsKept` |
| `firmware_boot` | `MCFirmwareBoot`, `FirmwareBoot.cfg` | 4 bytes in lines of 2, 2 sets of 1 way, 2 arguments, two log buffers, four kinds of firmware on both ports | `BootTypeOK`, `LoadedCodeIsFetched`, `CachesStartRight` (no junk, and the debugger sees the logs), `BootIsInOrder` (the shell is alone, and nothing starts before the scheduler), `ArgvIsLent` (complete in use, then given back), `BootEnds` |
| `xtensa_flash` | `MCXtensaFlash`, `XtensaFlash.cfg` | 4 words, sectors, pages and cache lines of 2, numbers modulo 6, 3 interrupts | `TypeOK`, `NothingRunsInTheWork`, `ReadsAreRight` (what OK was returned for can be read), `LinesAreKept`, `OnlyTheRangeChanges`, `CallsReturn` |
| `ymodem` | `MCYmodemSend`, `Ymodem.cfg` | 3 files of 5, 0 and 1 blocks, numbers modulo 4, 3 tries, 3 failures of the line | `TypeOK`, `FilesArrive` (in order, and OK means all of it), `FailsForACause`, `ScriptEnds` |

Why these bounds are enough. Two banks are what both boards have; with them there is a bank on trial and one to go back to,
and every order of the candidates. Two tries are the least for which the first and the last start of a trial differ; where no
property counts the starts, one is enough to end a trial. Two versions decide which image is the newest. The view of
`selector_flash_errors` leaves out the last call, its result and the history, which `GivesUpLast` does not read and the actions do
not depend on; of the RAM it keeps what the phase still reads. Its constraints leave hidden records one at a time (`OneHidden`) and
behind a log without a state record (`HiddenAlone`), where the next save can bring them back, and no bank empty (`NoEmptyBank`): an
empty bank is passed over like a damaged one. `GivesUpLast` depends on RAM and images only, and is proved without these
bounds. A state record of the model has three words and an item three or four, so a store of ten words is full
after two or three records: compactions happen with and without a state record in the log, with a record that fits behind
them and with one that does not (the state and two items of ten or eleven words in all), and a value that is longer than the
store is refused. In `store_fails` a state has three words, a value five and a deleted one three, and a sector five: records lie
across the sectors, the log can end before, at and behind what an erase or a failed compaction has left, and after a compaction
a state or a deletion may have no place. Hidden records, a `store_end` that is astray and records that come back - at the end
of a write and after a reset - all occur in it. The constraint `ScratchHolds` of `store_one_sector` ends
the run where a compaction of a log without a state record is longer than `scratch`: what the C code does from there on is undefined. `CompactionsFit` proves that this needs a log without a
state record, `ScratchIsEnough` that callers as the selector and its firmware never get there. With three levels there are
handlers that the kernel holds back, one at its level and one above it, and a handler that interrupts a handler; two threads
and a section in a section are the least that can disturb each other. The run may deadlock where the program halts: an
assertion has failed. The threads are symmetric, nothing tells one from the other.

Two threads and two blocks are the least with which one call can take the place or the memory of another one; a third thread adds
no new pair of accesses. Three modules that share two lines of two bytes, none at address 0, begin and end in the middle of a
line and next to each other; the window of the ESP32-S3 is the second line, so a module can lie before it, in it and across
its beginning. With two arguments an array can fail before, between and behind its entries. The erases and programs
of a chip of four words are all that there are, refused ones included, and with numbers modulo 6 the sum of offset and size wraps
for some. Five blocks with four numbers reach the one that has the number of the header and the one whose number comes again;
an empty file has a header and an end only. Three failures are as many as there are tries: a packet can be lost in all of
them. The runs of `FirmwareBoot`, `XtensaFlash` and `YmodemSend` may end where the program does (halted, no flash call comes back
from a critical section, script over), so they do not check for deadlocks.

Fairness. `DmselSelector` assumes that the processor goes on in the selector, that a write to the flash ends, that the power
comes back, and that a watchdog nobody feeds resets the chip - nothing is assumed of the image that was started.
`DmselStore` assumes that a call that was made goes on. `FirmwareBoot` assumes that `main`, the boot thread and a load go on where
nothing but the processor is needed; nothing is assumed of the modules that run, of the caches and of who types in the shell.
`XtensaFlash` assumes that the caller and the interrupt go on, `YmodemSend` that the script reads, its timeouts come, and what is on the
line arrives. All are weak: once enabled, such a step stays enabled until it is
taken or the power goes. `HungTrialIsLeft` needs a watchdog; by default there is none (`selector/fw/CMakeLists.txt`,
`DMSEL_WATCHDOG_MS` is 0), and the one of the ESP32-S3 is a stub (`docs/esp32s3-selector.md`).

### Where the code differs from what is said of it

Two of these are runs, with one property each, that end with a counterexample:

| Run | Configuration, property | What happens |
| --- | --- | --- |
| `store_stale_end` | `StoreStaleEnd.cfg`, `OkMeansStored` | The flash fails in a compaction behind the erase; `store_end` stays, and the next record is written behind the end of the log with `DMSEL_OK` (`dmsel.c:262`). |
| `store_sectors` | `StoreSectors.cfg`, `LatestRecordWins` | The power goes between the erases of two sectors (the ESP32-S3 has eight in the store); the new log ends where an old record begins, and old values are back (`dmsel.c:259`). |

Others are found with a configuration of a run and a line or two changed:

| Take | with | What happens |
| --- | --- | --- |
| `SelectorTwoBanks.cfg` | `INVARIANT PreviousIsAnotherBank` | A bank on trial selects the bank it came from, on trial: that bank becomes the one to go back to from itself (`dmsel.c:577`). |
| `StoreStaleEnd.cfg` | `PROPERTY LatestStateWins` as the only one | The record that is written behind the end of the log (`store_stale_end`) is a state. After a reset the log goes on at its real end, and when a record ends exactly where that one begins, the older state is the latest again (`dmsel.c:279`). |
| `SelectorFlashErrors.cfg` | `INVARIANT DroppedIsNotStarted`, no `VIEW`, no `HiddenAlone` | What follows for the banks. A compaction fails behind its erase and behind the state of a bank on trial; `dmsel_ready` saves behind the end of the log. Resets; the try is counted, the trial is over, the bank is dropped - with this record the log reaches the other one, in which the bank was not dropped, and the bank is started without having been verified or selected (`dmsel.c:262`, `:411`). |
| `SelectorFlashErrors.cfg` | `INVARIANT TrialStartsAreBounded`, no `VIEW` | The save of a try fails, the image is started all the same, and the try is forgotten at the next reset (`dmsel.c:464`). |
| `SelectorFlashErrors.cfg` | `INVARIANT ReadyIsDurable`, no `VIEW` | `dmsel_ready` fails to save and keeps its change in RAM; called again it returns `DMSEL_OK` and writes nothing (`dmsel.c:598`). |
| `StoreOneSector.cfg` | `INVARIANT ScratchHolds`, no `CONSTRAINT` | Items alone fill the store - there is no state record as long as no bank was chosen, which the selector does before it starts an image (`ItemsAreWrittenBehindAState`) - and the compaction adds one: more than `store_size` bytes are copied to `scratch` (`dmsel.c:252`). |
| `SalTurns.cfg` | `ScratchInTurns`, `NosysIsTrue`, `StateIsReadWhenUsed`, `StoreSurvives` without `Disciplined =>` | Callers that do not take turns: a second first call gets `-ENOSYS` or works on an empty `dmsel_t`, a second writer takes the scratch away from the first one's compaction and the store is lost (`dmboot_firmware.c:44`, `:68`). |
| `XtensaFlash.cfg` | `LinesAreKept` without `quiet =>` | An interrupt that is enabled between the read and the write of INTENABLE is switched off (`flash.c:101`). |
| `XtensaFlash.cfg` | `CallsReturn` without `level # Top` | A call in a critical section waits for ever (`flash.c:104`). |
| `Ymodem.cfg` | `StoredInOrder`, `OkMeansStored`, `FailsForACause` without `~late` | An ACK that is late acknowledges the next packet; when that one is lost, a block is missing, or blocks of one file end up in the one before (`ymodem_send.py:196`). |

The last four are what the code asks of its callers and of the line, and the properties of the runs say so. The trace of
`DroppedIsNotStarted` can be followed in the words of `DmselStore`, in a store of twelve words (a state has three, so has an empty
item): a state and two items are in the log; a third item fails and leaves garbage at `store_end` (9); the save of `dmsel_select`
does not find this place blank, compacts, and the flash fails behind the state; the save of `dmsel_ready` finds place 9 blank.
After a reset the log is the state of the trial (0 to 2), the one that counts the try (3 to 5) and the one that drops the bank
(6 to 8), and then the one at 9.

## 4. Proofs

`TypeCorrect` (`DmselSelectorProofs`): `Spec => []TypeOK`, for every number of banks, tries up to 255 and versions, with and
without a flash that fails. The invariant is inductive as it stands. The lemmas about record updates (`StateUpdateType` and so
on) are used in every action; there is one lemma for the selector, one for the firmware and one for what happens around it.

`TrialsAreBounded` (`DmselSelectorProofs`): `ASSUME Reliable PROVE Spec => []TrialStartsAreBounded`. A bound on the starts is not
inductive: whether there can be one more start depends on the tries in RAM, these come from the store after a reset, and the
store is written later than the RAM. `TriesInv` therefore says that the starts are never ahead of the tries in RAM
(`RamCounts`) nor of those in the store (`StoreCounts`), that the record is in the store before the jump
(`SavedBeforeTheJump`), and that writes of items come from the firmware only. The last one is needed because the end of
such a write may leave the old record while the RAM is ahead. The assumption is necessary, see the counterexample above; that nothing
is hidden or astray under it is an invariant of its own (`StoreIsOrderly`).

`DroppedStaysDropped` is for a `Reliable` store and follows from `DroppedWithoutHidden`, which is for every store and a flash that
may fail, as long as no state record lies behind the end of the log: the failing saves of one sector or of several are in it,
what is left out is exactly a record that comes back. In `dmsel_choose` the trials of RAM are those of the store (`TrialsAreLoaded`), so a save
that fails cannot bring a trial back with fewer tries: a bank that was dropped is `Spent` for RAM and for the store. Without the
assumption the code does start a dropped bank, see the table in section 3.

`TheChoiceGivesUpLast` is for any store and a flash that may fail, hidden records included. `PassInv` is the invariant of the
loop: `Behind` the position `k` nothing can be started, the order ends with every bank, and in the second pass every good image counts as `VALID`, so that
`halted` means that there is none.

`ProvenBanksAreKept` and `PreviousRanIndeed` (`DmselSelectorProofs`), both for a `Reliable` store. An interrupted write may put
what is in RAM into the store at any moment, so the first is about RAM (`ProvenInRam`): what the store has as proven and whose
image is good can be started according to RAM. It needs that the firmware's RAM is what the store has when no write is under
way (`RamIsSaved`): an image can be written into a bank only then. For the second, both records name the bank that ran
properly last, or one that is neither good nor startable (`ProperPrevious`): a bank that was damaged while it ran can be named,
but the update tool must have written to it before it can be started again. `RunningIsKnown` says what is known of the image
that runs while its confirmation is on its way to the store.

`StoreTypeCorrect` and `CompactionsFit` (`DmselStoreProofs`), for stores, sectors and records of any size and a flash that may
fail, both from `StoreInv`. What is in `scratch` was passed in the log, but for the state record that a compaction begins
with: `Len(scratch) <= off` once a state record has been passed, because that one is not copied and is as long as the one
put in front (`ScratchIsFromTheLog`). `CompactionsFit` follows since `off` never leaves the store. `StoreTypeCorrect` says
of `at` and `todo` that no word is programmed outside the store, for which `append` must have checked the place of the record
(`RecordHasItsPlace`).

`ErasedWordsAreProgrammed`, for any store and any flash. `append` looks at the place of a record before it programs it, but
between the look and the last word lie many steps; `ErasedInv` says that what is left to program is erased, that the header
of a record that is being written is erased as long as its payload is, and that a compaction has erased all sectors before `sector`.

`WritesAreStored`, `OldRecordsNeverFill` and `WritesAppendToTheLog` are for a store of one sector on a flash that does not
fail (`OneSector`) and behaviours in which `scratch` is never exceeded; states, items, records and stores are of any number and
size, and the power may go at any word. The assumptions are needed: the two counterexamples of section 3 are one for each part of
`OneSector`, and the third part is the table's `ScratchHolds`.

`ScratchIsEnough` and `ItemsAreWrittenBehindAState` say who meets that part. `ItemsFollowState` is a condition on the callers
of the store: an item is appended only when the store has a state record. `StateInv` then keeps that a log which is not
empty has a state record, and that a compaction which has not passed it yet (`~seen`) has it ahead (`StateIsAhead`), so that
what was copied and the record in front have the place of what was passed and of this one. A power cut can take records from the
log, but not the state alone (`StateCut`): an interrupted erase takes all, an interrupted compaction puts the state back first.
On the side of `DmselSelector` an image runs only on a state record (`RunsOnARecord`), which `dmsel_choose` has saved before
the jump, and items are written by the image. Together the theorems on the store hold of this selector and its firmware, on a
flash that does not fail; the counterexample of section 3 needs a caller that writes items without having chosen a bank, or
a flash that fails.

What a loop over `rec_read` finds is a recursive function of the flash, about which nothing can be proved by induction; so
the invariant is not about it but about the words. `Heads` are the offsets at which a record can be read, `Whole(e)` says
that the first *e* words are records without a gap, and `LogIs(e)` that nothing begins behind them. `LogFromIs` shows that
the function gives the heads from an offset on, by the greatest offset at which it would not (`GreatestOf`, from `WFMin`),
and `LogFacts` is what follows for the end of the log, the state and the items. With this `LogInv` says for each point of a
call what the words are: the log in front of the place and in it the words of the record that are programmed so far
(`WriteOK`), in `scratch` the state and the latest items of what was passed (`ScanOK`), of these the first `at` words back in
the flash (`CompactOK`). That an interrupted header leaves no record needs that the words of a record differ (`HeadsApart`);
that `DMSEL_ERR_NOSPACE` means a full store needs that the log after a compaction has every live word once (`Packed`), and
counting them (`PackedSize`). After a power cut `load_state` finds some log (`LoadOK`), whichever word was cut.

`StoreImplementsItsSpec` and `WritesKeepTheContract` (`DmselWritesProofs`) are under the same assumptions. For the first,
most steps leave the log as it is and are stutters of `StoreSpec`; the last word of a header is its `Save` or `Write`, the
end of the scan its `Copy`, and in a compaction the last word of each record its `PutStateBack` or `PutItemBack`. For the
second, `BeforeInv` says that the record of the state is that of before the call or that of RAM while nothing is moved, and
that of RAM once something was moved; that nothing is hidden or astray follows from `LogInv` (`NoneHidden`, `IdleStore`).
`DmselSelector` is built from `StoreContract`, so what is proved of it for a `Reliable` store holds of the store below it. For
several sectors and a flash that fails the contract is not proved: there it rests on `store_fails`.

`CriticalInvariant` (`DmodCriticalProofs`), for any threads, levels and nesting, and from it `CriticalSectionsAreExclusive`,
`LevelsAreRestored` and `ExcessExitsAreCaught`. None of the three is inductive: that nothing runs inside a section needs that
`level` is at the top in a section (`LevelIsKnown`), this needs that the counter reaches zero with the section of the context
that runs and not with that of another one (`CountsTheRunning`), and that a handler finds and leaves the level of the context
it has interrupted needs the order in which handlers lie on each other (`HandlersAreStacked`): a handler that is active is
not above the one that runs, so none is entered a second time.

`SalInvariant` (`FirmwareSalProofs`), for any number of threads and blocks of the heap, and from it `SalTypeCorrect`,
`ScratchIsLentOnly`, `TableMeansItsState` and `StoreIsNeverLost`. That a buffer comes back (`BuffersInv`) holds whatever the
callers do: a block belongs to the one call that has allocated it. The rest is only true of callers that take turns, and the
invariant is about who may be where: `TurnsAreTaken` (no two calls that write are on their way, the first call is alone),
from which `TableInv` (who is past `get_table` has a table whose `dmsel_t` has been read), `ScratchInv` (the selector's pointer is
the block of the writer in it) and `StoreInv` (only the writer in a compaction has the store erased).

`CodeIsFetchedAfterSync` (`FirmwareBootProofs`), for lines, windows and code of any size. `CachesInv` says how far a synchronisation
has come: up to `line`, which is the beginning of a line, the code is in the memory (`SyncInv`), and older code is only in a
cache that is on and only where there is one (`CachesHold`). The arithmetic is in lemmas: a line goes from a multiple of `LineBytes`
to the next (`LineFrom`, from `SameQuotient`), and rounding up covers the code (`RoundedUp`). The lemmas are about actions and not
about the specification, so the proofs about `FirmwareBoot` use them for its own steps.

`LoadedCodeIsAlwaysFetched`, `CachesAlwaysStartRight`, `BootIsOrdered`, `ArgvIsLentOnly` and `BootTypeCorrect` (`FirmwareBootProofs`),
for any firmwares, arguments, memories and log buffers. `BootInv` has four parts. `UpInv` and `OrderInv` say where the boot
thread can be while `main` is somewhere, and who is loading; the order of the shell and the boot thread follows. `ArgvInv` says
what of the arguments is there at each point. `NewInv` says that what is being loaded was not loaded before, which
`PlaceInv` needs: a module that is written is written over no loaded one, and a loaded one is in the memory already, so that a line
which is fetched later brings nothing older.

`FlashTypeCorrect`, `NothingEverRunsInTheWork`, `ReadsAreAlwaysRight`, `LinesAreAlwaysKept` and `NothingElseChanges`
(`XtensaFlashProofs`), for chips, sectors, pages and interrupts of any number. `FlashInv` joins five parts. `WorkInv` says which
caches are off and which level there is at each step of `flash_work`, `HandInv` how `run` hands the work over: it waits
exactly while the interrupt is pending, the work is under way, or `done` is set. `RangeInv` says how far the call is - what is passed
and what is left are the range that was asked for, whole sectors in an erase - and `DoneInv` that what is passed is done, with the
piece of work that came back well. `KeptInv` says that what `run` will write to INTENABLE is all that is enabled. The
arithmetic of sectors and pages is in `WholeSectors` and `ChunkFacts`.

`SendTypeCorrect`, `FilesAlwaysArrive` and `SendFailsForACause` (`YmodemSendProofs`), for files of any number and size, numbers
modulo anything above 1, and any number of tries and failures. `SendTypeCorrect` is for late answers too; the other two are,
as their properties are, for answers that come before the timeout. Neither property is inductive: what an ACK means depends on what
is still under way. `LineInv` says that at most one packet is, or one answer to a packet, and any number of `C`s that are an answer to
nothing; so the ACK that is read belongs to what was sent last. `FilesInv` says how much of each file is on the device: all of
the files before, nothing of those behind, and of the one that is sent the blocks before `number`, with or without that one.
`DeviceInv` decides which: as long as there is no ACK, the device may have the number before (`Waiting`), and `NumberFacts` - the
numbers of two blocks that follow each other differ - makes it store the block once. `Undisturbed` is for a line that has not failed
yet: what the script waits for is on its way, so there is no timeout. That NAK to the last EOT of the loop is not taken for an ACK
needs `EndTries > 1` (it is 10).

Assumptions: those on the constants, each named in the module that declares it, and for the store the ones that its theorems
state. The proofs use no others.

Only model-checked: liveness (`GoodImageIsStarted`, `HungTrialIsLeft`, both `CallsReturn`, `BootEnds`, `ScriptEnds`), which
the prover cannot conclude from fairness. All invariants and step properties of the runs that pass are proved, those of the
store under the assumptions above; what a store of several sectors or a flash that fails does with them is what `store_fails` and the
two runs with a violation show.

## 5. What is not modelled

* A partial erase leaves the sector as it was, blank, or garbage as a whole. A sector of which only some words have become
  unreadable is not distinguished: the first unreadable word ends the log.
* A word whose value happens to be that of an erased one is not distinguished from a word of a record.
* The ESP32-S3 programs pages of 256 bytes; their words are taken to reach the flash in order.
* When `scratch` overflows, what is overwritten behind it is not followed: the port refuses to program so many bytes, and
  the call returns `DMSEL_ERR_IO`.
* A thread that gives up the processor by itself inside a critical section, and code that masks interrupts by other means
  inside of one.
* `DMSEL_RUNNING_STARTED`, the log and the self test.
* `FirmwareSal`: resets and a flash that fails (both in `DmselStore`), and the selector's other states (in `DmselSelector`).
* `DmbootMain`: the strings - commands, module names, arguments, the environment - and the commands that only print. An array of
  arguments has entries, not characters.
* `CodeCaches`: two cores, and code that is written by other ways than the loader.
* `XtensaFlash`: two callers at once; `dmflash`, which is not in this repository, has the lock.
* `YmodemSend`: the ports, the command line, the search for the directory of the files on the device, the wait for the first C.
* The parts that the inventory lists as not modelled.

## 6. What could follow

1. The contract between `DmselSelector` and `DmselStore` proved for several sectors and a flash that fails; it is checked for
   them in a small store (`store_fails`).
2. What the store keeps in several sectors when no erase is cut, for which `LogInv` would have to follow the erase sector by sector.
3. A `FirmwareSal` with a lock as an abstract specification, once the file has one.
