-------------------------- MODULE MCStoreBackends --------------------------
(* Instances of StoreBackends for TLC.                                     *)
EXTENDS StoreBackends, TLC

(* Every status where a put is one step; a dispatcher's, a worker's and a  *)
(* canceller's snapshots for SQL; two, one of which the fence puts before  *)
(* the other, for MongoDB, whose put has one statement more.               *)
SmallStatuses ==
    [b \in Backends |->
        CASE b = "memory"  -> Status
          [] b = "sql"     -> {"Scheduled", "InProgress", "Cancelled"}
          [] b = "mongodb" -> {"Scheduled", "Cancelled"}]

SmallVersions == 1..2

Symmetry == Permutations(Clients)
============================================================================
