----------------------- MODULE SubscriptionLifecycle -----------------------
(***************************************************************************)
(* What the clients of the registry are promised when none of them sends a *)
(* PUT: a subscription opens at most once, is found only while it is open, *)
(* is closed by one DELETE at most that says so, and stays closed.  Each   *)
(* of these is one instant; requests, awaits, faults and the pages of a    *)
(* Scan are not known here.                                                *)
(***************************************************************************)
CONSTANTS Ids, Rows, Deletes, Publishes, Null

VARIABLES
    table,    \* id -> its row while it is open, else Null
    over,     \* the ids that will not be open again
    removed,  \* Deletes -> the id it answered to have closed, else Null
    found     \* Publishes -> the rows it is delivered for

registryVars == <<table, over, removed, found>>

Init ==
    /\ table = [id \in Ids |-> Null]
    /\ over = {}
    /\ removed = [d \in Deletes |-> Null]
    /\ found = [e \in Publishes |-> {}]

IsOpen(id) == table[id] # Null

Open(id, row) ==
    /\ ~IsOpen(id) /\ id \notin over
    /\ row.id = id
    /\ table' = [table EXCEPT ![id] = row]
    /\ UNCHANGED <<over, removed, found>>

(* The POST was refused, or failed for good: it is free to say so.         *)
Refuse(id) ==
    /\ ~IsOpen(id)
    /\ over' = over \cup {id}
    /\ UNCHANGED <<table, removed, found>>

(* A DELETE whose answer is lost closes the subscription all the same.     *)
Close(id) ==
    /\ IsOpen(id)
    /\ table' = [table EXCEPT ![id] = Null]
    /\ over' = over \cup {id}
    /\ \/ removed' = removed
       \/ \E d \in Deletes :
              removed[d] = Null /\ removed' = [removed EXCEPT ![d] = id]
    /\ UNCHANGED found

Find(e, id) ==
    /\ IsOpen(id)
    /\ found' = [found EXCEPT ![e] = @ \cup {table[id]}]
    /\ UNCHANGED <<table, over, removed>>

Next ==
    \/ \E id \in Ids, row \in Rows : Open(id, row)
    \/ \E id \in Ids : Refuse(id) \/ Close(id)
    \/ \E e \in Publishes, id \in Ids : Find(e, id)

Spec == Init /\ [][Next]_registryVars
=============================================================================
