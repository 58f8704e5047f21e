---------------------------- MODULE FirmwareBoot ----------------------------
(***************************************************************************)
(* The start of the firmware with the caches of its processor: startup.s   *)
(* turns them on before main; a module that main, the boot thread or the   *)
(* shell loads is written through the data cache and fetched through the   *)
(* other one, and Dmod_SyncCode stands between the two.                    *)
(***************************************************************************)
EXTENDS DmbootMain, CodeCaches

VARIABLE
    place       \* of each module, the addresses at which it was stored

bootVars == <<mainVars, cacheVars, place>>

BootInit ==
    /\ MainInit /\ CachesInit
    /\ "irq" \in rom <=> port = "lx7"
    /\ place = [m \in Modules |-> {}]

\* low_level_init_1 and the memory as the caches leave it.
CachesStep ==
    /\ \/ enable_icache \/ logs_uncached \/ enable_dcache \/ Evict \/ Prefetch
       \/ WriteLog
    /\ UNCHANGED <<mainVars, place>>

\* main and the boot thread, between the loads.
MainStep(step) ==
    /\ boot = "main" /\ step
    /\ UNCHANGED <<cacheVars, place>>

\* Dmod_Load has found room on the heap and writes the module there ...
Free(p) ==
    \A m \in Modules : Range(p[1], p[2]) \cap place[m] = {}

StoreModule ==
    /\ loading # "none" /\ place[loading] = {}
    /\ \E p \in Places :
          /\ Free(p) /\ StoreCode(p[1], p[2])
          /\ place' = [place EXCEPT ![loading] = Range(p[1], p[2])]
    /\ UNCHANGED mainVars

SyncModule == Sync /\ UNCHANGED <<mainVars, place>>

\* ... and calls Dmod_SyncCode, or has given up before.
Synced == sync = "synced" /\ place[loading] = Code

LoadEnds ==
    /\ loading # "none"
    /\ \/ LoadReturns(TRUE) /\ Synced /\ UNCHANGED place
       \/ /\ LoadReturns(FALSE) /\ sync \in {"idle", "synced"}
          /\ place' = [place EXCEPT ![loading] = {}]
    /\ UNCHANGED cacheVars

UnloadModule ==
    /\ UnloadCommand
    /\ place' = [place EXCEPT !["named"] = {}]
    /\ UNCHANGED cacheVars

\* The scheduler has stopped while the boot thread was loading: the shell
\* loads what it is asked for, and what was begun stays where it is.
JoinStep ==
    /\ JoinWorker
    /\ sync' = IF loading = "none" THEN sync ELSE "idle"
    /\ UNCHANGED <<cacheBoot, unseen, current, older, code, line, place>>

BootNext ==
    \/ CachesStep \/ MainStep(GoesOn) \/ MainStep(Waits)
    \/ StoreModule \/ SyncModule \/ LoadEnds \/ UnloadModule \/ JoinStep

BootSpec == BootInit /\ [][BootNext]_bootVars

\* The processor goes on in what it was doing.  Nothing is assumed of the
\* modules that run, of who types, and of the caches.
BootFairSpec ==
    /\ BootSpec
    /\ WF_bootVars(enable_icache /\ CachesStep)
    /\ WF_bootVars(logs_uncached /\ CachesStep)
    /\ WF_bootVars(enable_dcache /\ CachesStep)
    /\ WF_bootVars(MainStep(GoesOn)) /\ WF_bootVars(JoinStep)
    /\ WF_bootVars(SyncModule) /\ WF_bootVars(LoadEnds)

-----------------------------------------------------------------------------
BootTypeOK ==
    /\ MainTypeOK /\ CachesTypeOK
    /\ place \in [Modules -> SUBSET Addresses]

\* A module that was loaded can be run: every byte of it is in the memory and
\* none in the instruction cache is older, also after other modules were
\* written to the same cache lines or loads were given up in between.
LoadedCodeIsFetched ==
    \A m \in loaded : place[m] \subseteq current /\ place[m] \cap older = {}

\* Whatever fails, the firmware starts: in the end main has stopped at
\* something it cannot do without, the boot thread is over, the application
\* in startup.dmp has the processor, or the scheduler is gone.
BootEnds ==
    <>(\/ main \in {"halted", "returned"} \/ sched = "stopped"
       \/ worker \in {"startup app", "done", "halted", "cut"})

=============================================================================
