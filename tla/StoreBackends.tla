--------------------------- MODULE StoreBackends ---------------------------
(***************************************************************************)
(* The three job stores.  InMemoryJobStore does a put under its lock, in   *)
(* one step.  SqlJobStore and MongoJobStore: clients in several processes  *)
(* or threads share one table or collection, and a put is up to four       *)
(* statements: a gated update, an insert, the update again when the insert *)
(* finds the id taken, and (MongoDB) a look at what is there.  Each        *)
(* statement is atomic in the database and sees the last committed rows; a *)
(* put writes in its last statement, so its commit is part of that step.   *)
(***************************************************************************)
EXTENDS Lifecycle

CONSTANTS
    Backends,   \* which stores: a subset of {"memory", "sql", "mongodb"}
    Clients,    \* the callers of put, one call each at a time
    Ids,        \* job ids
    NoId,       \* what a client at rest holds
    Statuses,   \* Statuses[b]: the statuses clients put into backend b
    Versions    \* the versions their records carry

ASSUME StoreConstantsAssumption ==
    /\ Backends \subseteq {"memory", "sql", "mongodb"}
    /\ NoId \notin Ids
    /\ Statuses \in [Backends -> SUBSET Status]
    /\ Versions \subseteq Nat

VARIABLES
    backend,    \* the store in use, chosen once
    rows,       \* the table or collection
    call,       \* call[c]: the statement c is about to issue, its record, its last answer
    seen,       \* history: what a put in one piece would have met during c's call
    won         \* history: won[id][v] updates from version v were written since the insert

vars == <<backend, rows, call, seen, won>>

Answers == {"True", "False", "RuntimeError", "-"}

Call == [pc      : {"idle", "update", "insert", "retry", "find"},
         id      : Ids \cup {NoId},
         status  : Status \cup {None},
         version : Versions \cup {0},
         answer  : Answers]

NoWins == [v \in Versions |-> 0]

AtRest(answer) == [pc |-> "idle", id |-> NoId, status |-> None, version |-> 0, answer |-> answer]

Init ==
    /\ backend \in Backends
    /\ rows = [id \in Ids |-> NoRow]
    /\ call = [c \in Clients |-> AtRest("-")]
    /\ seen = [c \in Clients |-> {}]
    /\ won = [id \in Ids |-> NoWins]

-----------------------------------------------------------------------------
(* What the rows r would make of the record of call k.                     *)
Verdict(k, r) ==
    IF put_may_write(r[k.id], k.status, k.version) THEN "applies" ELSE "refuses"

Vanishes(id) == rows[id].status # None /\ rows'[id].status = None

Watch ==
    seen' = [c \in Clients |->
                IF call[c].pc = "idle" THEN seen[c]
                ELSE seen[c] \cup {Verdict(call[c], rows')}
                             \cup (IF Vanishes(call[c].id) THEN {"gone"} ELSE {})]

At(c, pc) == call[c].pc = pc

Goto(c, pc) == call' = [call EXCEPT ![c].pc = pc]

Answer(c, answer) == call' = [call EXCEPT ![c] = AtRest(answer)]

(* Mutant: the update is not gated by the version.                         *)
Gated_FenceOnly(k) ==
    rows[k.id].status # None /\ put_applies(rows[k.id].status, k.status)

(* The WHERE clause of the update: the id, an allowed status, the version. *)
Gated(k) ==
    /\ rows[k.id].status # None
    /\ put_applies(rows[k.id].status, k.status)
    /\ rows[k.id].version = k.version

(* Mutant: the update leaves the version column alone.                     *)
Updated_KeepsVersion(k) ==
    [rows EXCEPT ![k.id] = [status |-> k.status, version |-> k.version]]

(* The rows the update leaves.                                             *)
Updated(k) == [rows EXCEPT ![k.id] = [status |-> k.status, version |-> k.version + 1]]

(* The rows an insert leaves: the record keeps its version.                *)
Inserted(k) == [rows EXCEPT ![k.id] = [status |-> k.status, version |-> k.version]]

Counted(k) == [won EXCEPT ![k.id][k.version] = @ + 1]

Recounted(k) == [won EXCEPT ![k.id] = NoWins]

Record(pc, id, s, v) == [pc |-> pc, id |-> id, status |-> s, version |-> v, answer |-> "-"]

(* InMemoryJobStore.put: everything under the lock.                        *)
PutLocked(c, id, s, v) ==
    /\ backend = "memory"
    /\ At(c, "idle")
    /\ LET k == Record("idle", id, s, v) IN
       /\ rows' = [rows EXCEPT ![id] = put(@, s, v)]
       /\ Answer(c, IF put_may_write(rows[id], s, v) THEN "True" ELSE "False")
       /\ seen' = [seen EXCEPT ![c] = {Verdict(k, rows)}]
       /\ won' = CASE rows[id].status = None -> Recounted(k)
                   [] rows[id].status # None /\ put_may_write(rows[id], s, v) -> Counted(k)
                   [] OTHER -> won
    /\ UNCHANGED backend

(* The two databases: put begins.                                          *)
Put(c, id, s, v) ==
    /\ backend \in {"sql", "mongodb"}
    /\ At(c, "idle")
    /\ LET k == Record("update", id, s, v) IN
       /\ call' = [call EXCEPT ![c] = k]
       /\ seen' = [seen EXCEPT ![c] = {Verdict(k, rows)}]
    /\ UNCHANGED <<backend, rows, won>>

Update(c) ==
    /\ At(c, "update")
    /\ \/ Gated(call[c]) /\ rows' = Updated(call[c]) /\ won' = Counted(call[c]) /\ Answer(c, "True")
       \/ ~Gated(call[c]) /\ UNCHANGED <<rows, won>> /\ Goto(c, "insert")
    /\ UNCHANGED backend
    /\ Watch

(* Mutant: an id that is taken is taken for a skip.                        *)
Insert_NoRetry(c) ==
    /\ At(c, "insert")
    /\ \/ /\ rows[call[c].id].status = None
          /\ rows' = Inserted(call[c]) /\ won' = Recounted(call[c])
          /\ Answer(c, "True")
       \/ rows[call[c].id].status # None /\ UNCHANGED <<rows, won>> /\ Answer(c, "False")
    /\ UNCHANGED backend
    /\ Watch

(* The primary key makes an insert of a present id fail.                   *)
Insert(c) ==
    /\ At(c, "insert")
    /\ \/ /\ rows[call[c].id].status = None
          /\ rows' = Inserted(call[c]) /\ won' = Recounted(call[c])
          /\ Answer(c, "True")
       \/ rows[call[c].id].status # None /\ UNCHANGED <<rows, won>> /\ Goto(c, "retry")
    /\ UNCHANGED backend
    /\ Watch

Retry(c) ==
    /\ At(c, "retry")
    /\ \/ Gated(call[c]) /\ rows' = Updated(call[c]) /\ won' = Counted(call[c]) /\ Answer(c, "True")
       \/ ~Gated(call[c]) /\ backend = "sql" /\ UNCHANGED <<rows, won>> /\ Answer(c, "False")
       \/ ~Gated(call[c]) /\ backend = "mongodb" /\ UNCHANGED <<rows, won>> /\ Goto(c, "find")
    /\ UNCHANGED backend
    /\ Watch

Find(c) ==
    /\ At(c, "find")
    /\ Answer(c, IF rows[call[c].id].status = None THEN "RuntimeError" ELSE "False")
    /\ UNCHANGED <<backend, rows, won>>
    /\ Watch

Delete(id) ==
    /\ rows' = [rows EXCEPT ![id] = NoRow]
    /\ won' = [won EXCEPT ![id] = NoWins]
    /\ UNCHANGED <<backend, call>>
    /\ Watch

(* One statement in SQL, one step under the lock in memory.  MongoDB       *)
(* deletes document by document, which is a Delete of each.                *)
Clear ==
    /\ backend \in {"memory", "sql"}
    /\ rows' = [id \in Ids |-> NoRow]
    /\ won' = [id \in Ids |-> NoWins]
    /\ UNCHANGED <<backend, call>>
    /\ Watch

Next ==
    \/ \E c \in Clients :
        \/ \E id \in Ids, s \in Statuses[backend], v \in Versions :
            Put(c, id, s, v) \/ PutLocked(c, id, s, v)
        \/ Update(c) \/ Insert(c) \/ Retry(c) \/ Find(c)
    \/ \E id \in Ids : Delete(id)
    \/ Clear

Spec == Init /\ [][Next]_vars

-----------------------------------------------------------------------------
TypeOK ==
    /\ backend \in Backends
    /\ rows \in [Ids -> Row]
    /\ call \in [Clients -> Call]
    /\ \A c \in Clients : call[c].pc # "idle" =>
            call[c].id \in Ids /\ call[c].status \in Status /\ call[c].version \in Versions
    /\ won \in [Ids -> [Versions -> Nat]]
    /\ seen \in [Clients -> SUBSET {"applies", "refuses", "gone"}]

(* put answers False only for a record the rows refused at some moment of  *)
(* the call, or whose row was deleted under it; MongoJobStore raises its   *)
(* RuntimeError only in the second case.  A put that lost the race of two  *)
(* first inserts is not such a moment: the second update must catch it.    *)
SkipsAreJustified ==
    \A c \in Clients :
        /\ call[c].answer = "False" => seen[c] \cap {"refuses", "gone"} # {}
        /\ call[c].answer = "RuntimeError" => "gone" \in seen[c]

(* Optimistic concurrency: of the clients that read one version of a row,  *)
(* whatever the order of their statements, at most one has its update      *)
(* written, and the others learn it from a False.                          *)
NoLostUpdate ==
    \A id \in Ids, v \in Versions : won[id][v] <= 1

HasRow(id) == rows[id].status # None

(* A row that survives a step moves only along a path of FSM events: the   *)
(* fence table of store/lifecycle.py and the transition table of events.py *)
(* are maintained by hand in two files and must describe the same order,   *)
(* and no statement of a put may get round the fence.                      *)
FollowsFSM ==
    [][\A id \in Ids : HasRow(id) /\ HasRow(id)' =>
            FSMLeads(rows[id].status, rows'[id].status)]_vars

(* Statement by statement, the stores do what JobStore does in one step:   *)
(* other clients only ever see whole puts.                                 *)
Store == INSTANCE JobStore

ImplementsJobStore == Store!Spec
=============================================================================
