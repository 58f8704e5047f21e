----------------------------- MODULE DmbootMain -----------------------------
(***************************************************************************)
(* The start of the firmware, src/main.c: main initialises one part after  *)
(* the other, loads modules.dmp, creates the boot thread and starts the    *)
(* scheduler.  The boot thread mounts the file systems, runs startup.dmp   *)
(* and starts the main module.  When the scheduler is gone or the boot     *)
(* thread is done, main is the shell.                                      *)
(*                                                                         *)
(* Nearly every step can fail; what then goes on, and with what memory, is *)
(* what is modelled.  The modules themselves, the heap, dmosi, dmvfs and   *)
(* dmod are not in this repository.                                        *)
(***************************************************************************)
EXTENDS Integers, FiniteSets

\* What a firmware may have; "irq": it is for Xtensa.
Options == {"dma", "irq", "modules", "startup", "license", "secret"}

CONSTANTS
    MaxArgs,        \* bound on the arguments of a module, argv[0] included
    Roms            \* the firmwares there are

ASSUME ArgsAssumption == MaxArgs \in Nat \ {0}
ASSUME RomsAssumption == Roms \subseteq SUBSET Options

VARIABLES
    rom,        \* what this firmware has
    backend,    \* dmosi_init "returns", or "stays" until the scheduler stops
    main,       \* where main is, in the shell too
    up,         \* what has been initialised
    sched,      \* the scheduler
    worker,     \* where the boot thread is
    loading,    \* what Dmod_Load is reading, or "none"
    loaded,     \* the modules in memory
    running,    \* the applications that were started
    argv        \* by whom it was allocated: the array and its entries

mainVars == <<rom, backend, main, up, sched, worker, loading, loaded,
              running, argv>>

Modules == {"modules", "startup", "named"}
ModuleTypes == {"library", "application", "other"}

Parts == <<"log", "dma", "heap", "env", "irq", "dmod", "vfs", "vars">>
Part == {Parts[i] : i \in DOMAIN Parts}
Shell == {"prompt", "load", "unload", "argv", "run", "free"}

NoArgv == [argc |-> 0, array |-> FALSE, entries |-> {}]

MainInit ==
    /\ rom \in Roms /\ backend \in {"returns", "stays"}
    /\ main = Parts[1] /\ up = {}
    /\ sched = "off" /\ worker = "none"
    /\ loading = "none" /\ loaded = {} /\ running = {}
    /\ argv = [who \in {"boot", "shell"} |-> NoArgv]

-----------------------------------------------------------------------------
(***************************************************************************)
(* main, up to the scheduler.                                              *)
(***************************************************************************)

Following(part) ==
    IF part = "vars" THEN "modules"
    ELSE Parts[1 + CHOOSE i \in DOMAIN Parts : Parts[i] = part]

\* What is there on this target; nobody looks at the result of dmlog_create
\* and of dmenv_set.
IsThere(part) == part \in {"dma", "irq"} => part \in rom
CanFail == {"dma", "heap", "env", "dmod", "vfs"}

Required == CanFail \ {"dma"}

Initialise ==
    /\ main \in Part
    /\ \/ /\ IsThere(main)
          /\ up' = up \cup {main} /\ main' = Following(main)
       \/ /\ main \in CanFail \/ ~IsThere(main)
          /\ main' = IF main \in Required THEN "halted" ELSE Following(main)
          /\ UNCHANGED up
    /\ UNCHANGED <<rom, backend, sched, worker, loading, loaded,
                   running, argv>>

\* load_embedded_modules_dmp
LoadModules ==
    /\ main = "modules" /\ loading = "none"
    /\ IF "modules" \in rom THEN loading' = "modules" /\ UNCHANGED main
       ELSE main' = "create" /\ UNCHANGED loading
    /\ UNCHANGED <<rom, backend, up, sched, worker, loaded, running,
                   argv>>

\* DMOD_ASSERT_MSG halts, or comes back when it is not compiled in.
CreateWorker ==
    /\ main = "create"
    /\ \/ worker' = "/" /\ main' = "scheduler"
       \/ main' \in {"halted", "returned"} /\ UNCHANGED worker
    /\ UNCHANGED <<rom, backend, up, sched, loading, loaded, running,
                   argv>>

\* dmosi_init fails, or the scheduler is there: dmosi_init returns to the code
\* that joins, or not before the scheduler stops.
StartScheduler ==
    /\ main = "scheduler" /\ sched = "off"
    /\ \/ /\ sched' = "on"
          /\ main' = IF backend = "returns" THEN "join" ELSE main
          /\ UNCHANGED worker
       \/ /\ worker' = "cut" /\ main' \in {"halted", "returned"}
          /\ UNCHANGED sched
    /\ UNCHANGED <<rom, backend, up, loading, loaded, running, argv>>

StopScheduler ==
    /\ main = "scheduler" /\ sched = "on"
    /\ sched' = "stopped" /\ main' = "join"
    /\ UNCHANGED <<rom, backend, up, worker, loading, loaded, running,
                   argv>>

\* Mutant: the boot thread is not waited for.
DoNotWait == TRUE
WorkerIsOver == sched = "on" => worker = "done"

\* dmosi_thread_join, if there is a scheduler, and dmosi_thread_destroy.
JoinWorker ==
    /\ main = "join" /\ WorkerIsOver
    /\ worker' = IF worker = "done" THEN worker ELSE "cut"
    /\ loading' = "none"
    /\ main' = "prompt"
    /\ UNCHANGED <<rom, backend, up, sched, loaded, running, argv>>

-----------------------------------------------------------------------------
(***************************************************************************)
(* argv: an array and as many entries, each allocated for itself.          *)
(***************************************************************************)

\* Mutant: the loop ends one entry late.
OneTooMany(a) == 0 .. a.argc
ToFill(a) == 0 .. a.argc - 1

Missing(a) == ToFill(a) \ a.entries
Prepared(a) == a.array /\ Missing(a) = {}

\* Mutant: only the array is freed.
ArrayFreed(a) == [a EXCEPT !.argc = 0, !.array = FALSE]
Freed(a) == NoArgv

Allocate(who) ==
    LET a == argv[who]
    IN  \/ /\ ~a.array
           /\ argv' = [argv EXCEPT ![who].array = TRUE]
        \/ /\ a.array
           /\ \E i \in Missing(a) :
                 /\ \A j \in Missing(a) : i <= j
                 /\ argv' = [argv EXCEPT ![who].entries = @ \cup {i}]

OutOfMemory(who) ==
    /\ ~Prepared(argv[who])
    /\ argv' = [argv EXCEPT ![who] = Freed(@)]

-----------------------------------------------------------------------------
(***************************************************************************)
(* The boot thread, startup_devices.                                       *)
(***************************************************************************)

\* A thread runs as long as there is a scheduler.
Scheduled == sched = "on"

MountPoints == {"/", "/cfg", "/eviews", "/lic", "/dev"}

AfterMount(place) ==
    CASE place = "/" -> "/cfg"
      [] place = "/cfg" -> "/eviews"
      [] place = "/eviews" -> IF "license" \in rom THEN "/lic" ELSE "/dev"
      [] place = "/lic" -> "/dev"
      [] OTHER -> "startup"

WithSecret == IF "secret" \in rom THEN {"/dev"} ELSE {}

\* A mount that fails is only logged; /dev is tried once more without the
\* secret of the device.
MountNext ==
    /\ Scheduled /\ worker \in MountPoints \cup {"/dev again"}
    /\ \/ worker' = AfterMount(worker)
       \/ worker \in WithSecret /\ worker' = "/dev again"
    /\ UNCHANGED <<rom, backend, main, up, sched, loading, loaded, running,
                   argv>>

LoadStartup ==
    /\ Scheduled /\ worker = "startup" /\ loading = "none"
    /\ IF "startup" \in rom THEN loading' = "startup" /\ UNCHANGED worker
       ELSE worker' = "main module" /\ UNCHANGED loading
    /\ UNCHANGED <<rom, backend, main, up, sched, loaded, running,
                   argv>>

\* Dmod_Run comes back when the application has ended, or did not start.
StartupEnds ==
    /\ Scheduled /\ worker = "startup app"
    /\ worker' = "main module" /\ running' = running \ {"startup"}
    /\ UNCHANGED <<rom, backend, main, up, sched, loading, loaded,
                   argv>>

\* start_main_module; a NULL context has no type.
StartMainModule ==
    /\ Scheduled /\ worker = "main module"
    /\ \E type \in IF "modules" \in loaded THEN ModuleTypes ELSE {"other"} :
          IF type = "application"
          THEN /\ \E n \in 1 .. MaxArgs : argv' = [argv EXCEPT !["boot"].argc = n]
               /\ worker' = "argv" /\ UNCHANGED running
          ELSE /\ worker' = "done" /\ UNCHANGED argv
               /\ running' \in IF type = "library"
                               THEN {running, running \cup {"modules"}}
                               ELSE {running}
    /\ UNCHANGED <<rom, backend, main, up, sched, loading, loaded>>

\* An assertion in the thread: it is over, or it goes on to its end.
WorkerAsserts == worker' \in {"halted", "done"}

prepare_main_module_argv ==
    /\ Scheduled /\ worker = "argv"
    /\ \/ Allocate("boot") /\ UNCHANGED worker
       \/ OutOfMemory("boot") /\ WorkerAsserts
       \/ Prepared(argv["boot"]) /\ worker' = "run" /\ UNCHANGED argv
    /\ UNCHANGED <<rom, backend, main, up, sched, loading, loaded,
                   running>>

\* Dmod_RunDetached: the array goes with the application.
RunMainModule ==
    /\ Scheduled /\ worker = "run"
    /\ \/ worker' = "done" /\ running' = running \cup {"modules"}
       \/ WorkerAsserts /\ UNCHANGED running
    /\ UNCHANGED <<rom, backend, main, up, sched, loading, loaded,
                   argv>>

-----------------------------------------------------------------------------
(***************************************************************************)
(* Dmod_Load comes back, to main, to the boot thread or to the shell.      *)
(***************************************************************************)

\* Mutant: startup.dmp is tried until it loads.
TryAgain == "startup"
NotLoaded == "main module"

\* What the worker does with startup.dmp, as its type says.
AfterStartup(ok) ==
    IF ~ok THEN worker' = NotLoaded /\ UNCHANGED running
    ELSE \/ worker' = "startup app" /\ running' = running \cup {"startup"}
         \/ worker' = "main module" /\ running' \in
               {running, running \cup {"startup"}}

LoadReturns(ok) ==
    /\ loading # "none"
    /\ loaded' = IF ok THEN loaded \cup {loading} ELSE loaded
    /\ loading' = "none"
    /\ CASE loading = "modules" ->
               main' = "create" /\ UNCHANGED <<worker, running>>
         [] loading = "startup" ->
               Scheduled /\ AfterStartup(ok) /\ UNCHANGED main
         [] loading = "named" ->
               main' = "prompt" /\ UNCHANGED <<worker, running>>
    /\ UNCHANGED <<rom, backend, up, sched, argv>>

-----------------------------------------------------------------------------
(***************************************************************************)
(* boot_shell.  Commands that only print are left out.                     *)
(***************************************************************************)

LoadCommand ==
    /\ main = "prompt" /\ "named" \notin loaded
    /\ main' = "load" /\ loading' = "named"
    /\ UNCHANGED <<rom, backend, up, sched, worker, loaded, running,
                   argv>>

UnloadCommand ==
    /\ main = "prompt" /\ "named" \in loaded
    /\ loaded' = loaded \ {"named"}
    /\ UNCHANGED <<rom, backend, main, up, sched, worker, loading,
                   running, argv>>

\* The name of the module is the first entry of its array.
RunCommand ==
    /\ main = "prompt"
    /\ \E n \in 1 .. MaxArgs : argv' = [argv EXCEPT !["shell"].argc = n]
    /\ main' = "argv"
    /\ UNCHANGED <<rom, backend, up, sched, worker, loading, loaded,
                   running>>

prepare_argv_for_run ==
    /\ main = "argv"
    /\ \/ Allocate("shell") /\ UNCHANGED main
       \/ OutOfMemory("shell") /\ main' = "prompt"
       \/ Prepared(argv["shell"]) /\ main' = "run" /\ UNCHANGED argv
    /\ UNCHANGED <<rom, backend, up, sched, worker, loading, loaded,
                   running>>

\* Dmod_RunModule, with a module that is loaded or not.
RunModule ==
    /\ main = "run"
    /\ \/ "named" \in loaded /\ running' = running \cup {"named"}
       \/ UNCHANGED running
    /\ main' = "free"
    /\ UNCHANGED <<rom, backend, up, sched, worker, loading, loaded,
                   argv>>

\* It has ended; free_argv.
FreeArgv ==
    /\ main = "free"
    /\ argv' = [argv EXCEPT !["shell"] = Freed(@)]
    /\ running' = running \ {"named"}
    /\ main' = "prompt"
    /\ UNCHANGED <<rom, backend, up, sched, worker, loading, loaded>>

ExitCommand ==
    /\ main = "prompt" /\ main' = "returned"
    /\ UNCHANGED <<rom, backend, up, sched, worker, loading, loaded,
                   running, argv>>

-----------------------------------------------------------------------------
\* The steps in which no code is loaded, but for the shell's unload: those
\* that the processor takes once it may, and those that depend on others.
GoesOn ==
    \/ Initialise \/ LoadModules \/ CreateWorker \/ StartScheduler
    \/ MountNext \/ LoadStartup \/ StartMainModule
    \/ prepare_main_module_argv \/ RunMainModule
    \/ prepare_argv_for_run \/ RunModule

Waits ==
    \/ StopScheduler \/ StartupEnds \/ FreeArgv
    \/ LoadCommand \/ RunCommand \/ ExitCommand

-----------------------------------------------------------------------------
(***************************************************************************)
(* What is right.                                                          *)
(***************************************************************************)

Argv == [argc: 0 .. MaxArgs, array: BOOLEAN, entries: SUBSET (0 .. MaxArgs - 1)]

MainTypeOK ==
    /\ rom \in Roms /\ backend \in {"returns", "stays"}
    /\ main \in Part \cup Shell \cup
          {"modules", "create", "scheduler", "join", "halted", "returned"}
    /\ up \subseteq Part
    /\ sched \in {"off", "on", "stopped"}
    /\ worker \in MountPoints \cup
          {"none", "/dev again", "startup", "startup app", "main module",
           "argv", "run", "done", "halted", "cut"}
    /\ loading \in Modules \cup {"none"}
    /\ loaded \subseteq Modules /\ running \subseteq Modules
    /\ argv \in [{"boot", "shell"} -> Argv]

\* The shell never works beside a boot thread that can still take a step, and
\* no thread is destroyed while it can.
ShellIsAlone ==
    main \in Shell \cup {"returned", "halted"} =>
        worker \in {"none", "done"} \/ sched # "on"

\* "it mounts /dev and starts applications only after the scheduler is
\* running": nothing is mounted and no module of the firmware runs before, and
\* then all that main sets up is there, but for the heap for DMA.
StartsUnderTheScheduler ==
    worker \notin {"none", "/", "cut"} \/ running # {} =>
        sched # "off" /\ Part \ {"dma", "irq"} \subseteq up

\* Nothing comes before its time: neither the applications nor the shell.
BootIsInOrder == ShellIsAlone /\ StartsUnderTheScheduler

\* Whoever starts an application hands over an array with all of its entries,
\* which stay there as long as it may run.
ArgvIsComplete ==
    /\ main = "free" => argv["shell"].array
                        /\ argv["shell"].entries = 0 .. argv["shell"].argc - 1
    /\ "modules" \in running /\ argv["boot"].argc > 0 =>
           argv["boot"].array
           /\ argv["boot"].entries = 0 .. argv["boot"].argc - 1

\* Back at the prompt the shell holds no memory of the command.  Without a
\* main module that runs, the boot thread holds none either - or all of it,
\* when the assertion on Dmod_RunDetached has failed, after which nobody frees.
ArgvIsGivenBack ==
    /\ main \in {"prompt", "load", "returned"} => argv["shell"] = NoArgv
    /\ worker \in {"done", "halted"} /\ "modules" \notin running =>
           argv["boot"].entries = 0 .. argv["boot"].argc - 1

\* The arguments are there as long as they are used, and then they are not,
\* wherever the memory has run out in between.
ArgvIsLent == ArgvIsComplete /\ ArgvIsGivenBack

=============================================================================
