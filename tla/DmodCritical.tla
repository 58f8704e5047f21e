---------------------------- MODULE DmodCritical ----------------------------
(***************************************************************************)
(* The critical sections of the firmware (src/arch/armv7/dmod_critical.c   *)
(* and src/arch/xtensa/dmod_critical.c), under threads and interrupts.     *)
(*                                                                         *)
(* One core.  "level" is the level up to which interrupts are held back: 0 *)
(* in a thread, l in the handler of level l, Top when all of them are      *)
(* masked.  On Xtensa this is PS.INTLEVEL; on ARM it is what PRIMASK, the  *)
(* priority of the handler and BASEPRI give together.  A thread can be     *)
(* switched only at level 0, and the sections of the kernel raise the      *)
(* level to that of the kernel.                                            *)
(***************************************************************************)
EXTENDS Integers

CONSTANTS
    Threads,        \* the threads
    Levels,         \* interrupts have the levels 1 .. Levels
    KernelLevel,    \* the level that the sections of the kernel hold back
    MaxDepth        \* bound: how deep sections are nested

ASSUME LevelsAssumption == Levels \in Nat /\ KernelLevel \in 1 .. Levels
ASSUME DepthAssumption == MaxDepth \in Nat

Handlers == 1 .. Levels
Contexts == Threads \cup Handlers
Top == Levels + 1
Ports == {"armv7", "xtensa"}

ASSUME ThreadsAssumption == Threads # {} /\ Threads \cap Int = {}

VARIABLES
    port,       \* the architecture of the build; it never changes
    level,      \* the processor: up to which level interrupts are held back
    running,    \* the context that has the processor
    active,     \* the handlers that have begun and not returned
    below,      \* for each handler the context it has interrupted ...
    levelBelow, \* ... and the level to go back to
    kernel,     \* the contexts that are in a section of the kernel
    nesting,    \* critical_nesting
    savedPS,    \* saved_ps (Xtensa)
    pc,         \* where each context is in Dmod_EnterCritical, Dmod_ExitCritical
    ps,         \* Dmod_EnterCritical: ps, the level before it was raised
    read,       \* the register that critical_nesting was read into
    depth,      \* history: the sections that each context is in
    halted      \* an assertion has failed

processor == <<level, running, active, below, levelBelow>>
sections == <<nesting, savedPS, ps, read, depth>>
vars == <<port, processor, kernel, sections, pc, halted>>

\* The level of a context outside of all sections, and that outside of the
\* critical sections only.
Level(c) == IF c \in Threads THEN 0 ELSE c
OwnLevel(c) == IF kernel[c] /\ KernelLevel > Level(c) THEN KernelLevel
                                                      ELSE Level(c)

\* The critical section begins with the mask and ends with it.
Inside(c) == depth[c] > 0 \/ pc[c] # "out"

Init ==
    /\ port \in Ports
    /\ level = 0
    /\ running \in Threads
    /\ active = {}
    /\ below = [l \in Handlers |-> running]
    /\ levelBelow = [l \in Handlers |-> 0]
    /\ kernel = [c \in Contexts |-> FALSE]
    /\ nesting = 0
    /\ savedPS = 0
    /\ pc = [c \in Contexts |-> "out"]
    /\ ps = [c \in Contexts |-> 0]
    /\ read = [c \in Contexts |-> 0]
    /\ depth = [c \in Contexts |-> 0]
    /\ halted = FALSE

Runs(c) == running = c /\ ~halted
Goes(c, from, to) == Runs(c) /\ pc[c] = from /\ pc' = [pc EXCEPT ![c] = to]

-----------------------------------------------------------------------------
(***************************************************************************)
(* Dmod_EnterCritical.                                                     *)
(***************************************************************************)

\* Mutant: the interrupts stay as they are.
NotMasked == level
\* CPSID i, rsil 15.
Masked == Top

EnterMask(c) ==
    /\ Goes(c, "out", "masked")
    /\ depth[c] < MaxDepth
    /\ ps' = [ps EXCEPT ![c] = level]
    /\ level' = Masked
    /\ UNCHANGED <<port, running, active, below, levelBelow, kernel, nesting,
                   savedPS, read, depth, halted>>

\* Mutant: the level is saved by every section.
SavesAlways == port = "xtensa"
\* Xtensa saves the level of the outermost section only.
Saves == port = "xtensa" /\ nesting = 0

\* critical_nesting++ reads the counter ...
EnterRead(c) ==
    /\ Goes(c, "masked", "counting")
    /\ savedPS' = IF Saves THEN ps[c] ELSE savedPS
    /\ read' = [read EXCEPT ![c] = nesting]
    /\ UNCHANGED <<port, processor, kernel, nesting, ps, depth, halted>>

\* ... and writes it.
EnterCount(c) ==
    /\ Goes(c, "counting", "out")
    /\ nesting' = read[c] + 1
    /\ depth' = [depth EXCEPT ![c] = @ + 1]
    /\ UNCHANGED <<port, processor, kernel, savedPS, ps, read, halted>>

(***************************************************************************)
(* Dmod_ExitCritical, also when it is called once too often.               *)
(***************************************************************************)

\* Mutant: the counter is not looked at.
MayExitAlways == TRUE
\* The assertion, and the condition behind it.
MayExit == nesting > 0

\* critical_nesting-- reads the counter, or the assertion halts the system.
ExitRead(c) ==
    /\ Runs(c) /\ pc[c] = "out"
    /\ IF MayExit
         THEN /\ pc' = [pc EXCEPT ![c] = "leaving"]
              /\ read' = [read EXCEPT ![c] = nesting]
              /\ UNCHANGED halted
         ELSE halted' = TRUE /\ UNCHANGED <<pc, read>>
    /\ UNCHANGED <<port, processor, kernel, nesting, savedPS, ps, depth>>

\* Mutant: off by one, the section that is left is still counted.
IsOuter(n) == n <= 1
\* The section that is left was the outermost one.
IsOutermost(n) == n = 0

ExitCount(c) ==
    /\ Goes(c, "leaving", IF IsOutermost(read[c] - 1) THEN "unmasking" ELSE "out")
    /\ nesting' = read[c] - 1
    /\ depth' = [depth EXCEPT ![c] = @ - 1]
    /\ UNCHANGED <<port, processor, kernel, savedPS, ps, read, halted>>

\* CPSIE i clears PRIMASK, what else holds back interrupts on ARM stays;
\* on Xtensa wsr PS restores the whole level.
ExitUnmask(c) ==
    /\ Goes(c, "unmasking", "out")
    /\ level' = IF port = "armv7" THEN OwnLevel(c) ELSE savedPS
    /\ UNCHANGED <<port, running, active, below, levelBelow, kernel, sections,
                   halted>>

-----------------------------------------------------------------------------
(***************************************************************************)
(* The processor and the kernel.                                           *)
(***************************************************************************)

\* An interrupt of a level that is not held back.
Interrupt(l) ==
    /\ ~halted /\ l > level
    /\ running' = l
    /\ active' = active \cup {l}
    /\ below' = [below EXCEPT ![l] = running]
    /\ levelBelow' = [levelBelow EXCEPT ![l] = level]
    /\ level' = l
    /\ UNCHANGED <<port, kernel, sections, pc, halted>>

\* A handler returns with all that it has entered left again.
Return(l) ==
    /\ Runs(l) /\ ~Inside(l) /\ ~kernel[l]
    /\ running' = below[l]
    /\ active' = active \ {l}
    /\ level' = levelBelow[l]
    /\ UNCHANGED <<port, below, levelBelow, kernel, sections, pc, halted>>

\* The scheduler gives the processor to another thread.
Switch(t) ==
    /\ ~halted /\ running \in Threads /\ level = 0
    /\ running' = t
    /\ UNCHANGED <<port, level, active, below, levelBelow, kernel, sections, pc,
                   halted>>

\* Sections of the kernel, around critical sections (BASEPRI, PS.INTLEVEL).
KernelSection(c) ==
    /\ Runs(c) /\ ~Inside(c)
    /\ kernel' = [kernel EXCEPT ![c] = ~kernel[c]]
    /\ level' = IF kernel'[c] /\ KernelLevel > Level(c) THEN KernelLevel
                                                        ELSE Level(c)
    /\ UNCHANGED <<port, running, active, below, levelBelow, sections, pc,
                   halted>>

Section(c) ==
    \/ EnterMask(c) \/ EnterRead(c) \/ EnterCount(c)
    \/ ExitRead(c) \/ ExitCount(c) \/ ExitUnmask(c)

Next ==
    \/ \E c \in Contexts : Section(c) \/ KernelSection(c)
    \/ \E l \in Handlers : Interrupt(l) \/ Return(l)
    \/ \E t \in Threads : Switch(t)

Spec == Init /\ [][Next]_vars

-----------------------------------------------------------------------------
(***************************************************************************)
(* Properties.                                                             *)
(***************************************************************************)

\* Every variable has a value of its type: the counter, which is unsigned, is
\* never decremented below zero.
TypeOK ==
    /\ port \in Ports
    /\ level \in 0 .. Top
    /\ running \in Contexts
    /\ active \subseteq Handlers
    /\ below \in [Handlers -> Contexts]
    /\ levelBelow \in [Handlers -> 0 .. Top]
    /\ kernel \in [Contexts -> BOOLEAN]
    /\ nesting \in Nat
    /\ savedPS \in 0 .. Top
    /\ pc \in [Contexts -> {"out", "masked", "counting", "leaving", "unmasking"}]
    /\ ps \in [Contexts -> 0 .. Top]
    /\ read \in [Contexts -> Nat]
    /\ depth \in [Contexts -> Nat]
    /\ halted \in BOOLEAN

\* While a context is in a critical section nothing else runs, no other thread
\* and no handler, however deep the sections are nested: "Interrupts are only
\* re-enabled when exiting the outermost critical section".
Exclusive == \A c \in Contexts : Inside(c) => running = c

\* Behind the outermost critical section interrupts are held back exactly as
\* before it: in a thread, in a handler, in a section of the kernel.
LevelIsRestored == ~Inside(running) => level = OwnLevel(running)

\* The assertion of Dmod_ExitCritical, which has one counter for all contexts,
\* fails for the call that has no section to leave, and for no other.
ExcessExitIsCaught ==
    [][ \A c \in Contexts :
          Runs(c) /\ pc[c] = "out" /\ ExitRead(c) =>
              (halted' <=> depth[c] = 0) ]_vars

(***************************************************************************)
(* The inductive invariant behind them.                                    *)
(***************************************************************************)

\* The one counter counts the sections of the context that runs, all others
\* are in none.
CountsTheRunning ==
    /\ \A c \in Contexts : c # running => depth[c] = 0 /\ pc[c] = "out"
    /\ nesting = depth[running]
    /\ pc[running] \in {"counting", "leaving"} => read[running] = nesting
    /\ pc[running] = "leaving" => nesting > 0
    /\ pc[running] = "unmasking" => nesting = 0

\* The level is that of the section, and the one to restore is that of the
\* context.
LevelIsKnown ==
    /\ level = IF Inside(running) THEN Top ELSE OwnLevel(running)
    /\ pc[running] = "masked" /\ nesting = 0 => ps[running] = OwnLevel(running)
    /\ port = "xtensa"
         /\ (nesting > 0 \/ pc[running] \in {"counting", "unmasking"}) =>
            savedPS = OwnLevel(running)

\* Handlers lie on each other in the order of their levels, and each goes back
\* to the level of the context below.  Who is in a section of the kernel runs or
\* was interrupted.
HandlersAreStacked ==
    /\ running \in Handlers => running \in active
    /\ \A l \in active :
          /\ l <= Level(running)
          /\ Level(below[l]) < l
          /\ below[l] \in Handlers => below[l] \in active
          /\ levelBelow[l] = OwnLevel(below[l])
          /\ \A m \in active : m < l => m <= Level(below[l])
    /\ \A c \in Contexts : kernel[c] =>
          c = running \/ \E l \in active : below[l] = c

CriticalInv ==
    TypeOK /\ CountsTheRunning /\ LevelIsKnown /\ HandlersAreStacked

=============================================================================
