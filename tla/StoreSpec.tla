------------------------------ MODULE StoreSpec ------------------------------
(***************************************************************************)
(* What the store of the selector promises to its callers: it keeps the    *)
(* state of the banks and a value for each persistent item.  A write takes *)
(* effect at once or not at all.  Now and then everything is moved to the  *)
(* RAM, the flash is erased and everything is put back: only when that is  *)
(* interrupted is something lost, and what is lost stays lost.             *)
(***************************************************************************)
CONSTANTS
    States,     \* the states of the banks that can be saved
    BlankState, \* what the callers have when no state was saved
    Ids,        \* the ids of the persistent items
    Values,     \* their values
    NoState,    \* no state was saved
    NoValue,    \* there is no such item
    Nothing     \* nothing is being moved

VARIABLES
    working,    \* the state of the banks, as the callers have it
    state,      \* the state that was saved
    items,      \* the items
    moved       \* what is in RAM only, while everything is moved

vars == <<working, state, items, moved>>

NoItems == [id \in Ids |-> NoValue]

Init ==
    /\ working = BlankState
    /\ state = NoState
    /\ items = NoItems
    /\ moved = Nothing

\* After a reset the callers read what was saved.
Load ==
    /\ working' = IF state = NoState THEN BlankState ELSE state
    /\ UNCHANGED <<state, items, moved>>

\* The callers change the state of the banks ...
Change(st) ==
    /\ working' = st
    /\ UNCHANGED <<state, items, moved>>

\* ... and save it.
Save ==
    /\ moved = Nothing
    /\ state' = working
    /\ UNCHANGED <<working, items, moved>>

\* An item gets a value, or none.
Write(id, v) ==
    /\ moved = Nothing
    /\ items' = [items EXCEPT ![id] = v]
    /\ UNCHANGED <<working, state, moved>>

\* Everything is copied to the RAM, with the state that the callers have ...
Copy ==
    /\ moved = Nothing
    /\ moved' = [state |-> working, items |-> items]
    /\ UNCHANGED <<working, state, items>>

\* ... and erased.
Erase ==
    /\ moved # Nothing
    /\ state' = NoState
    /\ items' = NoItems
    /\ UNCHANGED <<working, moved>>

\* The state comes back first ...
PutStateBack ==
    /\ moved # Nothing
    /\ state = NoState
    /\ state' = moved.state
    /\ UNCHANGED <<working, items, moved>>

\* ... the items one by one.
PutItemBack(id) ==
    /\ moved # Nothing
    /\ state = moved.state
    /\ items[id] = NoValue
    /\ items' = [items EXCEPT ![id] = moved.items[id]]
    /\ UNCHANGED <<working, state, moved>>

\* Everything is back.
Moved ==
    /\ moved # Nothing
    /\ state = moved.state /\ items = moved.items
    /\ moved' = Nothing
    /\ UNCHANGED <<working, state, items>>

\* The power goes, or the flash fails: what is not back yet is lost ...
Interrupt ==
    /\ working' \in {working, BlankState}
    /\ moved' = Nothing
    /\ UNCHANGED <<state, items>>

\* ... and that is everything when it happens in the moment of the erase.
LoseAll ==
    /\ moved # Nothing
    /\ working' \in {working, BlankState}
    /\ state' = NoState /\ items' = NoItems
    /\ moved' = Nothing

Next ==
    \/ Load \/ Save \/ Copy \/ Erase \/ PutStateBack \/ Moved \/ Interrupt \/ LoseAll
    \/ \E st \in States : Change(st)
    \/ \E id \in Ids : \/ PutItemBack(id)
                       \/ \E v \in Values \cup {NoValue} : Write(id, v)

Spec == Init /\ [][Next]_vars

=============================================================================
