------------------------------ MODULE JobStore ------------------------------
(***************************************************************************)
(* What a job store promises (IJobStore): one row per job id, replaced in  *)
(* one step by the rule of Lifecycle.  StoreBackends is shown to implement *)
(* it.                                                                     *)
(***************************************************************************)
EXTENDS Lifecycle

CONSTANTS
    Ids,        \* job ids
    Versions    \* the versions a record handed to put may carry

VARIABLE rows   \* the row of each id, NoRow when there is none

Init == rows = [id \in Ids |-> NoRow]

Put(id, s, v) == rows' = [rows EXCEPT ![id] = put(@, s, v)]

Delete(id) == rows' = [rows EXCEPT ![id] = NoRow]

Clear == rows' = [id \in Ids |-> NoRow]

Next ==
    \/ \E id \in Ids, s \in Status, v \in Versions : Put(id, s, v)
    \/ \E id \in Ids : Delete(id)
    \/ Clear

Spec == Init /\ [][Next]_rows
=============================================================================
