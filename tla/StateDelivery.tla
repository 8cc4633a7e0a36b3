---- MODULE StateDelivery ----
(***************************************************************************)
(* What the publish path promises about one entity's retained state: the   *)
(* bridge keeps, for every entity, the set of entities it still owes a     *)
(* publish, and outside that set the last confirmed payload is the value   *)
(* the store holds.  PublishPath implements this module.                   *)
(***************************************************************************)
EXTENDS Naturals

CONSTANTS Entities, Values

VARIABLES
    held,       \* the store's current value of each entity
    confirmed,  \* the payload of the last publish that succeeded
    owed        \* entities whose held value may not be the confirmed one

vars == <<held, confirmed, owed>>

Init ==
    /\ held \in [Entities -> Values]
    /\ confirmed = held
    /\ owed = {}

\* A new value makes its entity owed, whatever was owed before.
Change(e) ==
    /\ \E v \in Values : v >= held[e] /\ held' = [held EXCEPT ![e] = v]
    /\ owed' = owed \cup {e}
    /\ UNCHANGED confirmed

\* Only a publish of the current value may settle the debt.
Confirm(e) ==
    /\ confirmed' = [confirmed EXCEPT ![e] = held[e]]
    /\ owed' \in {owed, owed \ {e}}
    /\ UNCHANGED held

\* A publish of an older value may succeed, but leaves the entity owed.
ConfirmOutdated(e) ==
    /\ e \in owed
    /\ \E v \in Values : v <= held[e] /\ confirmed' = [confirmed EXCEPT ![e] = v]
    /\ UNCHANGED <<held, owed>>

Next == \E e \in Entities : Change(e) \/ Confirm(e) \/ ConfirmOutdated(e)

Spec == Init /\ [][Next]_vars
====
