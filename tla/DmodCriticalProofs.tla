------------------------- MODULE DmodCriticalProofs -------------------------
(***************************************************************************)
(* What TLAPS proves about DmodCritical, for any threads and any levels of *)
(* interrupts, on both architectures.                                      *)
(***************************************************************************)
EXTENDS DmodCritical, TLAPS

\* Threads have the level 0 and handlers the one they are named for, and
\* everything has a level below the mask.
LEMMA LevelFacts ==
    /\ Top \in Nat /\ 0 \in 0 .. Top
    /\ \A c \in Threads : c \in Contexts /\ Level(c) = 0
    /\ \A l \in Handlers : l \in Contexts /\ Level(l) = l /\ l \in 0 .. Top
    /\ \A c \in Contexts : Level(c) \in 0 .. Levels
BY LevelsAssumption, ThreadsAssumption
   DEF Top, Level, Contexts, Handlers

\* The level of a context outside of critical sections is below the mask.
LEMMA OwnLevelFacts ==
    ASSUME kernel \in [Contexts -> BOOLEAN], NEW c \in Contexts
    PROVE  OwnLevel(c) \in 0 .. Levels /\ Level(c) <= OwnLevel(c)
BY LevelsAssumption, LevelFacts DEF OwnLevel

-----------------------------------------------------------------------------
\* Nothing is entered when the system starts.
LEMMA InitInv == Init => CriticalInv
<1>. SUFFICES ASSUME Init PROVE CriticalInv
  OBVIOUS
<1>1. running \in Threads /\ running \in Contexts /\ running \notin Handlers
  BY ThreadsAssumption, LevelsAssumption DEF Init, Contexts, Handlers
<1>2. TypeOK
  BY <1>1, LevelFacts DEF Init, TypeOK
<1>3. CountsTheRunning
  BY <1>1 DEF Init, CountsTheRunning
<1>4. LevelIsKnown
  BY <1>1, LevelFacts DEF Init, LevelIsKnown, Inside, OwnLevel
<1>5. HandlersAreStacked
  BY <1>1 DEF Init, HandlersAreStacked, Contexts
<1>. QED
  BY <1>2, <1>3, <1>4, <1>5 DEF CriticalInv

\* The steps of Dmod_EnterCritical and Dmod_ExitCritical leave the handlers
\* alone.
LEMMA StackIsKept ==
    ASSUME HandlersAreStacked,
           UNCHANGED <<running, active, below, levelBelow, kernel>>
    PROVE  HandlersAreStacked'
BY DEF HandlersAreStacked, OwnLevel

\* The sections of one context.
LEMMA SectionInv ==
    ASSUME CriticalInv, NEW c \in Contexts, Section(c)
    PROVE  CriticalInv'
<1>. USE DEF processor, sections
<1>1. /\ running = c /\ UNCHANGED <<port, running, active, below, levelBelow, kernel>>
      /\ OwnLevel(c)' = OwnLevel(c)
  BY DEF Section, EnterMask, EnterRead, EnterCount, ExitRead, ExitCount,
         ExitUnmask, Goes, Runs, OwnLevel
<1>2. HandlersAreStacked'
  BY <1>1, StackIsKept DEF CriticalInv
<1>3. OwnLevel(c) \in 0 .. Levels /\ Levels \in Nat /\ OwnLevel(c) \in 0 .. Top
  BY OwnLevelFacts, LevelsAssumption DEF CriticalInv, TypeOK, Top
<1>4. CASE EnterMask(c)
  <2>1. TypeOK'
    BY <1>4, <1>1, LevelFacts DEF CriticalInv, TypeOK, EnterMask, Goes, Masked
  <2>2. CountsTheRunning'
    BY <1>4, <1>1 DEF CriticalInv, TypeOK, CountsTheRunning, EnterMask, Goes
  <2>3. LevelIsKnown'
    BY <1>4, <1>1, <1>3
       DEF CriticalInv, TypeOK, CountsTheRunning, LevelIsKnown, EnterMask, Goes,
           Masked, Inside
  <2>. QED
    BY <1>2, <2>1, <2>2, <2>3 DEF CriticalInv
<1>5. CASE EnterRead(c)
  <2>1. TypeOK'
    BY <1>5, <1>1 DEF CriticalInv, TypeOK, EnterRead, Goes
  <2>2. CountsTheRunning'
    BY <1>5, <1>1 DEF CriticalInv, TypeOK, CountsTheRunning, EnterRead, Goes
  <2>3. LevelIsKnown'
    BY <1>5, <1>1, <1>3
       DEF CriticalInv, TypeOK, CountsTheRunning, LevelIsKnown, EnterRead, Goes,
           Saves, Inside
  <2>. QED
    BY <1>2, <2>1, <2>2, <2>3 DEF CriticalInv
<1>6. CASE EnterCount(c)
  <2>1. TypeOK'
    BY <1>6, <1>1 DEF CriticalInv, TypeOK, EnterCount, Goes
  <2>2. CountsTheRunning'
    BY <1>6, <1>1 DEF CriticalInv, TypeOK, CountsTheRunning, EnterCount, Goes
  <2>3. LevelIsKnown'
    BY <1>6, <1>1, <1>3
       DEF CriticalInv, TypeOK, CountsTheRunning, LevelIsKnown, EnterCount, Goes,
           Inside
  <2>. QED
    BY <1>2, <2>1, <2>2, <2>3 DEF CriticalInv
<1>7. CASE ExitRead(c)
  <2>1. TypeOK'
    BY <1>7, <1>1 DEF CriticalInv, TypeOK, ExitRead
  <2>2. CountsTheRunning'
    BY <1>7, <1>1
       DEF CriticalInv, TypeOK, CountsTheRunning, ExitRead, MayExit, Runs
  <2>3. LevelIsKnown'
    BY <1>7, <1>1, <1>3
       DEF CriticalInv, TypeOK, CountsTheRunning, LevelIsKnown, ExitRead, Runs,
           MayExit, Inside
  <2>. QED
    BY <1>2, <2>1, <2>2, <2>3 DEF CriticalInv
<1>8. CASE ExitCount(c)
  <2>1. read[c] = nesting /\ nesting = depth[c] /\ nesting \in Nat /\ nesting > 0
    BY <1>8, <1>1 DEF CriticalInv, TypeOK, CountsTheRunning, ExitCount, Goes
  <2>2. TypeOK'
    BY <1>8, <1>1, <2>1 DEF CriticalInv, TypeOK, ExitCount, Goes
  <2>3. CountsTheRunning'
    BY <1>8, <1>1, <2>1
       DEF CriticalInv, TypeOK, CountsTheRunning, ExitCount, Goes, IsOutermost
  <2>4. LevelIsKnown'
    BY <1>8, <1>1, <1>3, <2>1
       DEF CriticalInv, TypeOK, LevelIsKnown, ExitCount, Goes, IsOutermost,
           Inside
  <2>. QED
    BY <1>2, <2>2, <2>3, <2>4 DEF CriticalInv
<1>9. CASE ExitUnmask(c)
  <2>1. TypeOK'
    BY <1>9, <1>1, <1>3 DEF CriticalInv, TypeOK, ExitUnmask, Goes
  <2>2. CountsTheRunning'
    BY <1>9, <1>1 DEF CriticalInv, TypeOK, CountsTheRunning, ExitUnmask, Goes
  <2>3. LevelIsKnown'
    BY <1>9, <1>1, <1>3
       DEF CriticalInv, TypeOK, CountsTheRunning, LevelIsKnown, ExitUnmask, Goes,
           Inside, Ports
  <2>. QED
    BY <1>2, <2>1, <2>2, <2>3 DEF CriticalInv
<1>. QED
  BY <1>4, <1>5, <1>6, <1>7, <1>8, <1>9 DEF Section

\* A section of the kernel is begun or ended outside of critical sections.
LEMMA KernelInv ==
    ASSUME CriticalInv, NEW c \in Contexts, KernelSection(c)
    PROVE  CriticalInv'
<1>. USE DEF sections
<1>1. running = c /\ ~Inside(c) /\ running' = c /\ pc' = pc
      /\ UNCHANGED <<port, active, below, levelBelow, sections, halted>>
  BY DEF KernelSection, Runs
<1>2. /\ kernel' = [kernel EXCEPT ![c] = ~kernel[c]]
      /\ kernel' \in [Contexts -> BOOLEAN]
      /\ level' = OwnLevel(c)'
  BY <1>1 DEF KernelSection, CriticalInv, TypeOK, OwnLevel, Level
<1>3. \A d \in Contexts : d # c => OwnLevel(d)' = OwnLevel(d)
  BY <1>2 DEF OwnLevel, Level, CriticalInv, TypeOK
<1>4. TypeOK'
  <2>1. level' \in 0 .. Top
    BY <1>2, LevelFacts, LevelsAssumption DEF OwnLevel, Top
  <2>. QED
    BY <1>1, <1>2, <2>1 DEF CriticalInv, TypeOK
<1>5. CountsTheRunning'
  BY <1>1 DEF CriticalInv, CountsTheRunning
<1>6. LevelIsKnown'
  <2>1. pc[c] = "out" /\ nesting = 0
    BY <1>1 DEF Inside, CriticalInv, TypeOK, CountsTheRunning
  <2>. QED
    BY <1>1, <1>2, <2>1 DEF LevelIsKnown, Inside
<1>7. HandlersAreStacked'
  <2>1. \A l \in active : below[l] \in Contexts /\ below[l] # c /\ l \in Handlers
    BY <1>1, LevelFacts, LevelsAssumption
       DEF CriticalInv, TypeOK, HandlersAreStacked, Handlers
  <2>2. ASSUME NEW d \in Contexts, kernel'[d]
        PROVE  d = running' \/ \E l \in active' : below'[l] = d
    BY <1>1, <1>2, <2>2 DEF CriticalInv, TypeOK, HandlersAreStacked
  <2>3. \A l \in active : levelBelow'[l] = OwnLevel(below[l])'
    BY <1>1, <1>3, <2>1 DEF CriticalInv, HandlersAreStacked
  <2>. QED
    BY <1>1, <1>2, <2>1, <2>2, <2>3, LevelFacts
       DEF CriticalInv, TypeOK, HandlersAreStacked, Level
<1>. QED
  BY <1>4, <1>5, <1>6, <1>7 DEF CriticalInv

\* An interrupt comes only when nothing is in a critical section, and its
\* handler lies above all others.
LEMMA InterruptInv ==
    ASSUME CriticalInv, NEW l \in Handlers, Interrupt(l)
    PROVE  CriticalInv'
<1>. USE DEF sections
<1>1. /\ running' = l /\ active' = active \cup {l} /\ level' = l
      /\ below' = [below EXCEPT ![l] = running]
      /\ levelBelow' = [levelBelow EXCEPT ![l] = level]
      /\ UNCHANGED <<port, kernel, sections, pc>>
      /\ l > level
  BY DEF Interrupt
<1>2. /\ l \in Contexts /\ Level(l) = l /\ l \in Nat /\ l < Top
      /\ running \in Contexts /\ kernel \in [Contexts -> BOOLEAN]
  BY LevelFacts, LevelsAssumption DEF CriticalInv, TypeOK, Handlers, Top
<1>3. ~Inside(running) /\ level = OwnLevel(running)
  <2>1. level \in Nat /\ Top \in Nat /\ level # Top
    BY <1>1, <1>2, LevelFacts DEF CriticalInv, TypeOK
  <2>. QED
    BY <2>1 DEF CriticalInv, LevelIsKnown
<1>4. Level(running) \in Nat /\ Level(running) < l
  BY <1>1, <1>2, <1>3, OwnLevelFacts, LevelFacts, LevelsAssumption
<1>5. \A m \in active : m \in Handlers /\ m \in Nat /\ m <= Level(running) /\ m < l
  BY <1>2, <1>4, LevelsAssumption
     DEF CriticalInv, TypeOK, HandlersAreStacked, Handlers
<1>6. l # running /\ l \notin active
  BY <1>2, <1>4, <1>5
<1>7. ~kernel[l] /\ OwnLevel(l) = l
  <2>1. \A m \in active : below[m] # l
    BY <1>6 DEF CriticalInv, HandlersAreStacked
  <2>2. ~kernel[l]
    BY <1>2, <1>6, <2>1 DEF CriticalInv, HandlersAreStacked
  <2>. QED
    BY <1>2, <2>2 DEF OwnLevel
<1>8. TypeOK'
  <2>1. level' \in 0 .. Top /\ running' \in Contexts /\ active' \subseteq Handlers
    BY <1>1, <1>2, LevelFacts DEF CriticalInv, TypeOK
  <2>2. /\ below' \in [Handlers -> Contexts]
        /\ levelBelow' \in [Handlers -> 0 .. Top]
    BY <1>1, <1>2 DEF CriticalInv, TypeOK
  <2>3. halted' \in BOOLEAN
    BY DEF Interrupt, CriticalInv, TypeOK
  <2>. QED
    BY <1>1, <2>1, <2>2, <2>3 DEF CriticalInv, TypeOK
<1>9. \A c \in Contexts : depth[c] = 0 /\ pc[c] = "out"
  BY <1>2, <1>3 DEF CriticalInv, TypeOK, CountsTheRunning, Inside
<1>10. CountsTheRunning'
  BY <1>1, <1>2, <1>9 DEF CriticalInv, CountsTheRunning
<1>11. LevelIsKnown'
  <2>1. nesting = 0 /\ nesting' = 0
    BY <1>1, <1>2, <1>9 DEF CriticalInv, CountsTheRunning
  <2>2. OwnLevel(l)' = l
    BY <1>1, <1>7 DEF OwnLevel
  <2>. QED
    BY <1>1, <1>2, <1>9, <2>1, <2>2 DEF LevelIsKnown, Inside
<1>12. HandlersAreStacked'
  <2>1. \A m \in active : below'[m] = below[m] /\ levelBelow'[m] = levelBelow[m]
    BY <1>1, <1>5, <1>6 DEF CriticalInv, TypeOK
  <2>2. below'[l] = running /\ levelBelow'[l] = level
    BY <1>1 DEF CriticalInv, TypeOK
  <2>3. \A c : OwnLevel(c)' = OwnLevel(c)
    BY <1>1 DEF OwnLevel
  <2>4. \A c : Level(c)' = Level(c)
    BY DEF Level
  <2>5. ASSUME NEW c \in Contexts, kernel'[c]
        PROVE  c = running' \/ \E m \in active' : below'[m] = c
    BY <1>1, <2>1, <2>2, <2>5 DEF CriticalInv, HandlersAreStacked
  <2>6. running' \in Handlers => running' \in active'
    BY <1>1
  <2>7. ASSUME NEW m \in active', m = l
        PROVE  /\ m <= Level(running')
               /\ Level(below'[m]) < m
               /\ below'[m] \in Handlers => below'[m] \in active'
               /\ levelBelow'[m] = OwnLevel(below'[m])
               /\ \A n \in active' : n < m => n <= Level(below'[m])
    <3>1. m <= Level(running') /\ Level(below'[m]) < m
      BY <1>1, <1>2, <1>4, <2>2, <2>7
    <3>2. below'[m] \in Handlers => below'[m] \in active'
      BY <1>1, <2>2, <2>7 DEF CriticalInv, HandlersAreStacked
    <3>3. levelBelow'[m] = OwnLevel(below'[m])
      BY <1>3, <2>2, <2>7
    <3>4. \A n \in active' : n < m => n \in active
      BY <1>1, <1>2, <2>7
    <3>. QED
      BY <1>5, <2>2, <2>7, <3>1, <3>2, <3>3, <3>4
  <2>8. ASSUME NEW m \in active', m # l
        PROVE  /\ m <= Level(running')
               /\ Level(below'[m]) < m
               /\ below'[m] \in Handlers => below'[m] \in active'
               /\ levelBelow'[m] = OwnLevel(below'[m])
               /\ \A n \in active' : n < m => n <= Level(below'[m])
    <3>1. m \in active /\ m \in Nat /\ m < l
      BY <1>1, <1>5, <2>8
    <3>2. m <= Level(running')
      BY <1>1, <1>2, <3>1
    <3>3. \A n \in active' : n < m => n \in active
      BY <1>1, <1>2, <3>1
    <3>4. below'[m] = below[m] /\ levelBelow'[m] = levelBelow[m]
      BY <2>1, <3>1
    <3>5. /\ Level(below[m]) < m
          /\ below[m] \in Handlers => below[m] \in active
          /\ levelBelow[m] = OwnLevel(below[m])
          /\ \A n \in active : n < m => n <= Level(below[m])
      BY <3>1 DEF CriticalInv, HandlersAreStacked
    <3>. QED
      BY <1>1, <3>2, <3>3, <3>4, <3>5
  <2>9. ASSUME NEW m \in active'
        PROVE  /\ m <= Level(running)'
               /\ Level(below[m])' < m
               /\ below'[m] \in Handlers => below'[m] \in active'
               /\ levelBelow'[m] = OwnLevel(below[m])'
               /\ \A n \in active' : n < m => n <= Level(below[m])'
    BY <2>3, <2>4, <2>7, <2>8 DEF Level, OwnLevel
  <2>. QED
    BY <2>5, <2>6, <2>9 DEF HandlersAreStacked
<1>. QED
  BY <1>8, <1>10, <1>11, <1>12 DEF CriticalInv

\* A handler returns to the context that it has interrupted, at its level.
LEMMA ReturnInv ==
    ASSUME CriticalInv, NEW l \in Handlers, Return(l)
    PROVE  CriticalInv'
<1>. USE DEF sections
<1>. DEFINE b == below[l]
<1>1. /\ running = l /\ ~Inside(l) /\ ~kernel[l]
      /\ running' = b /\ active' = active \ {l} /\ level' = levelBelow[l]
      /\ UNCHANGED <<port, below, levelBelow, kernel, sections, pc>>
  BY DEF Return, Runs
<1>2. /\ l \in active /\ b \in Contexts /\ l \in Contexts
      /\ Level(l) = l /\ l \in Nat /\ Level(b) < l
      /\ levelBelow[l] = OwnLevel(b)
  BY <1>1, LevelFacts, LevelsAssumption
     DEF CriticalInv, TypeOK, HandlersAreStacked, Handlers
<1>3. \A c : OwnLevel(c)' = OwnLevel(c)
  BY <1>1 DEF OwnLevel
<1>4. \A c \in Contexts : depth[c] = 0 /\ pc[c] = "out"
  BY <1>1, <1>2 DEF CriticalInv, TypeOK, CountsTheRunning, Inside
<1>5. TypeOK'
  <2>1. active' \subseteq Handlers /\ level' \in 0 .. Top /\ halted' = halted
    BY <1>1 DEF CriticalInv, TypeOK, Return
  <2>. QED
    BY <1>1, <1>2, <2>1 DEF CriticalInv, TypeOK
<1>6. CountsTheRunning'
  BY <1>1, <1>2, <1>4 DEF CriticalInv, CountsTheRunning
<1>7. LevelIsKnown'
  <2>1. nesting = 0 /\ nesting' = 0
    BY <1>1, <1>2, <1>4 DEF CriticalInv, CountsTheRunning
  <2>. QED
    BY <1>1, <1>2, <1>3, <1>4, <2>1 DEF LevelIsKnown, Inside
<1>8. HandlersAreStacked'
  <2>1. \A m \in active : m \in Nat /\ m <= l
    BY <1>1, <1>2, LevelsAssumption
       DEF CriticalInv, TypeOK, HandlersAreStacked, Handlers
  <2>2. \A m \in active' : m \in active /\ m < l /\ m <= Level(b)
    BY <1>1, <1>2, <2>1 DEF CriticalInv, HandlersAreStacked
  <2>3. b \in Handlers => b \in active'
    BY <1>1, <1>2 DEF CriticalInv, HandlersAreStacked
  <2>4. ASSUME NEW m \in active', below[m] \in Handlers
        PROVE  below[m] \in active'
    <3>1. below[m] \in active /\ Level(below[m]) < m /\ Level(below[m]) = below[m]
      BY <2>2, <2>4, LevelFacts DEF CriticalInv, HandlersAreStacked
    <3>2. below[m] < m /\ m < l
      BY <2>2, <3>1
    <3>3. m \in Nat /\ below[m] \in Nat /\ l \in Nat
      BY <1>2, <2>1, <2>2, <3>1
    <3>4. below[m] # l
      BY ONLY <3>2, <3>3
    <3>. QED
      BY <1>1, <3>1, <3>4
  <2>5. ASSUME NEW m \in active'
        PROVE  /\ Level(below[m]) < m
               /\ levelBelow[m] = OwnLevel(below[m])
               /\ \A n \in active' : n < m => n <= Level(below[m])
    BY <2>2, <2>5 DEF CriticalInv, HandlersAreStacked
  <2>6. \A m \in active' :
           /\ m <= Level(running)'
           /\ Level(below[m])' < m
           /\ below'[m] \in Handlers => below'[m] \in active'
           /\ levelBelow'[m] = OwnLevel(below[m])'
           /\ \A n \in active' : n < m => n <= Level(below[m])'
    BY <1>1, <2>2, <2>4, <2>5 DEF Level, OwnLevel
  <2>7. ASSUME NEW c \in Contexts, kernel'[c]
        PROVE  c = running' \/ \E m \in active' : below'[m] = c
    BY <1>1, <2>7 DEF CriticalInv, HandlersAreStacked
  <2>. QED
    BY <1>1, <2>3, <2>6, <2>7 DEF HandlersAreStacked
<1>. QED
  BY <1>5, <1>6, <1>7, <1>8 DEF CriticalInv

\* The scheduler switches only when there is nothing to disturb.
LEMMA SwitchInv ==
    ASSUME CriticalInv, NEW t \in Threads, Switch(t)
    PROVE  CriticalInv'
<1>. USE DEF sections
<1>1. /\ running \in Threads /\ running' = t /\ level = 0
      /\ UNCHANGED <<port, level, active, below, levelBelow, kernel, sections, pc>>
  BY DEF Switch
<1>2. /\ t \in Contexts /\ running \in Contexts
      /\ Level(t) = 0 /\ Level(running) = 0 /\ Top > 0
      /\ t \notin Handlers /\ running \notin Handlers
  BY <1>1, LevelFacts, LevelsAssumption, ThreadsAssumption
     DEF Contexts, Top, Handlers
<1>3. ~Inside(running) /\ OwnLevel(running) = 0
  BY <1>1, <1>2 DEF CriticalInv, LevelIsKnown
<1>4. active = {}
  BY <1>2, LevelsAssumption
     DEF CriticalInv, TypeOK, HandlersAreStacked, Handlers
<1>5. \A c \in Contexts : depth[c] = 0 /\ pc[c] = "out"
  BY <1>2, <1>3 DEF CriticalInv, TypeOK, CountsTheRunning, Inside
<1>6. ~kernel[t] /\ OwnLevel(t)' = 0
  <2>1. ~kernel[running]
    BY <1>2, <1>3, LevelsAssumption DEF OwnLevel
  <2>2. ~kernel[t]
    BY <1>2, <1>4, <2>1 DEF CriticalInv, HandlersAreStacked
  <2>. QED
    BY <1>1, <1>2, <2>2 DEF OwnLevel, Level
<1>7. TypeOK'
  BY <1>1, <1>2 DEF CriticalInv, TypeOK, Switch
<1>8. CountsTheRunning'
  BY <1>1, <1>2, <1>5 DEF CriticalInv, CountsTheRunning
<1>9. LevelIsKnown'
  <2>1. nesting = 0
    BY <1>2, <1>5 DEF CriticalInv, CountsTheRunning
  <2>. QED
    BY <1>1, <1>2, <1>5, <1>6, <2>1 DEF LevelIsKnown, Inside
<1>10. HandlersAreStacked'
  <2>1. \A c \in Contexts : ~kernel[c]
    BY <1>2, <1>3, <1>4, LevelsAssumption
       DEF CriticalInv, HandlersAreStacked, OwnLevel
  <2>. QED
    BY <1>1, <1>2, <1>4, <2>1 DEF HandlersAreStacked
<1>. QED
  BY <1>7, <1>8, <1>9, <1>10 DEF CriticalInv

\* A step that changes nothing keeps the invariant.
LEMMA StutterInv == CriticalInv /\ UNCHANGED vars => CriticalInv'
BY DEF vars, processor, sections, CriticalInv, TypeOK, CountsTheRunning,
       LevelIsKnown, HandlersAreStacked, Inside, OwnLevel

\* Every step keeps the invariant.
LEMMA NextInv == CriticalInv /\ [Next]_vars => CriticalInv'
<1>1. \A c \in Handlers \cup Threads : c \in Contexts
  BY DEF Contexts
<1>. QED
  BY <1>1, SectionInv, KernelInv, InterruptInv, ReturnInv, SwitchInv, StutterInv
     DEF Next

\* At each moment the one counter counts the sections of the context that runs,
\* and the level to go back to is known (Dmod_EnterCritical, Dmod_ExitCritical).
THEOREM CriticalInvariant == Spec => []CriticalInv
BY InitInv, NextInv, PTL DEF Spec

\* Every variable keeps its type: critical_nesting, which is unsigned, is never
\* decremented below zero (Dmod_ExitCritical).
THEOREM CriticalTypeCorrect == Spec => []TypeOK
<1>1. CriticalInv => TypeOK
  BY DEF CriticalInv
<1>. QED
  BY <1>1, CriticalInvariant, PTL

\* A critical section is never interrupted and never left by a switch of
\* threads, however deep it is nested.
THEOREM CriticalSectionsAreExclusive == Spec => []Exclusive
<1>1. CriticalInv => Exclusive
  BY DEF CriticalInv, TypeOK, CountsTheRunning, Exclusive, Inside
<1>. QED
  BY <1>1, CriticalInvariant, PTL

\* Behind the outermost section interrupts are held back as before it.
THEOREM LevelsAreRestored == Spec => []LevelIsRestored
<1>1. CriticalInv => LevelIsRestored
  BY DEF CriticalInv, LevelIsKnown, LevelIsRestored
<1>. QED
  BY <1>1, CriticalInvariant, PTL

\* The assertion of Dmod_ExitCritical fails for the calls that have no section
\* to leave, and for no others.
THEOREM ExcessExitsAreCaught == Spec => ExcessExitIsCaught
<1>1. ASSUME CriticalInv, NEW c \in Contexts, Runs(c), ExitRead(c)
      PROVE  halted' <=> depth[c] = 0
  BY <1>1 DEF CriticalInv, TypeOK, CountsTheRunning, Runs, ExitRead, MayExit
<1>2. CriticalInv /\ [Next]_vars =>
        [ \A c \in Contexts :
            Runs(c) /\ pc[c] = "out" /\ ExitRead(c) =>
                (halted' <=> depth[c] = 0) ]_vars
  BY <1>1
<1>. QED
  BY <1>2, CriticalInvariant, PTL DEF Spec, ExcessExitIsCaught

=============================================================================
