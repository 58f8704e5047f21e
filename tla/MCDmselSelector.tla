-------------------------- MODULE MCDmselSelector --------------------------
(***************************************************************************)
(* DmselSelector for TLC.                                                  *)
(***************************************************************************)
EXTENDS DmselSelector, FiniteSets

\* What the next states depend on: the dmsel_t of the phases that read it, the
\* locals of dmsel_choose while it runs, dmsel_select's r; not the history, the
\* last call and what it returned.  Sound for GivesUpLast, which speaks of the
\* images, and of ram and choice in dmsel_choose.
Kernel ==
    <<image, saved, hidden, phase, running, writing, request,
      IF phase \in {"choose", "boot", "serving"} THEN <<ram, astray>> ELSE <<>>,
      IF phase = "choose" THEN <<choice, stateValid>> ELSE <<>>,
      IF request = NoRequest THEN "none" ELSE result>>

\* At most one record behind the end of the log ...
OneHidden == Cardinality(hidden) <= 1

\* ... and of a log without one: the next save can make it the latest.
HiddenAlone == hidden # {} => saved = NoRecord

\* An empty bank is left aside like a damaged one.
NoEmptyBank == \A b \in Banks : image[b].check # "EMPTY"

=============================================================================
