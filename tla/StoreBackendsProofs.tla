------------------------ MODULE StoreBackendsProofs ------------------------
(***************************************************************************)
(* Theorems about StoreBackends: its rows change as those of JobStore, a   *)
(* put that is skipped was skipped for a reason, and no update overwrites  *)
(* one it has not seen or leads where the FSM does not.                    *)
(***************************************************************************)
EXTENDS StoreBackends, TLAPS

(* The history of a call in progress is up to date: it has no answer yet,  *)
(* the verdict on the present rows is among those seen, a row that is      *)
(* missing after the insert found it was deleted, and a client that only   *)
(* looks why it was refused had been.                                      *)
InCall(c) == call[c].pc # "idle"

CallInv(c) ==
    InCall(c) =>
        /\ call[c].answer = "-"
        /\ Verdict(call[c], rows) \in seen[c]
        /\ call[c].pc \in {"retry", "find"} => rows[call[c].id].status # None \/ "gone" \in seen[c]
        /\ call[c].pc = "find" => seen[c] \cap {"refuses", "gone"} # {}

AnswerInv(c) ==
    /\ call[c].answer = "False" => seen[c] \cap {"refuses", "gone"} # {}
    /\ call[c].answer = "RuntimeError" => "gone" \in seen[c]

(* Under the lock nobody is ever in the middle of a put.                   *)
LockInv == backend = "memory" => \A c \in Clients : ~InCall(c)

(* An update from version v is written once: the row is past v ever after. *)
WonInv == \A id \in Ids, v \in Versions :
              won[id][v] <= 1 /\ (won[id][v] = 1 => v < rows[id].version)

Inv == TypeOK /\ LockInv /\ WonInv /\ \A c \in Clients : CallInv(c) /\ AnswerInv(c)

-----------------------------------------------------------------------------
LEMMA NoneIsNoStatus == None \notin Status
BY DEF None, Status, NonTerminal, Terminal

(* Before its verdict changes, a record that is not let through by the     *)
(* gated update is refused by a row, or there is none.                     *)
LEMMA NotGated ==
    ASSUME NEW c \in Clients, ~Gated(call[c]), rows[call[c].id].status # None
    PROVE  Verdict(call[c], rows) = "refuses"
BY DEF Gated, Verdict, put_may_write

(* Watching a step that leaves the record of c's call alone keeps the      *)
(* history of that call up to date.                                        *)
LEMMA WatchKeeps ==
    ASSUME Watch, NEW c \in Clients, InCall(c)
    PROVE  /\ seen[c] \subseteq seen'[c]
           /\ Verdict(call[c], rows') \in seen'[c]
           /\ rows[call[c].id].status # None /\ rows'[call[c].id].status = None => "gone" \in seen'[c]
BY DEF Watch, InCall, Vanishes

(* Clients that do not move keep their part of the invariant.              *)
LEMMA OthersKeep ==
    ASSUME Inv, Watch, NEW c \in Clients, call'[c] = call[c]
    PROVE  CallInv(c)' /\ AnswerInv(c)'
<1>1. CASE InCall(c)
  <2>1. Verdict(call[c], rows)' = Verdict(call[c], rows')
    BY DEF Verdict
  <2> QED
    BY <1>1, <2>1, WatchKeeps DEF Inv, CallInv, AnswerInv, InCall
<1>2. CASE ~InCall(c)
  <2>1. seen'[c] = seen[c]
    BY <1>2 DEF Watch, InCall
  <2> QED
    BY <1>2, <2>1 DEF Inv, CallInv, AnswerInv, InCall
<1> QED
  BY <1>1, <1>2

LEMMA WatchType ==
    ASSUME TypeOK, Watch
    PROVE  seen' \in [Clients -> SUBSET {"applies", "refuses", "gone"}]
BY DEF TypeOK, Watch, Verdict

-----------------------------------------------------------------------------
(* What a gated update or an insert leaves is what put leaves.             *)
LEMMA UpdatedIsPut ==
    ASSUME TypeOK, NEW c \in Clients, InCall(c), Gated(call[c])
    PROVE  Updated(call[c]) = [rows EXCEPT ![call[c].id] = put(@, call[c].status, call[c].version)]
<1>1. call[c].id \in Ids /\ rows[call[c].id] \in Row
    BY DEF TypeOK, InCall
<1>2. put(rows[call[c].id], call[c].status, call[c].version)
        = [status |-> call[c].status, version |-> call[c].version + 1]
    BY <1>1 DEF Gated, put, put_may_write, Row
<1> QED
    BY <1>1, <1>2 DEF Updated, TypeOK

LEMMA InsertIsPut ==
    ASSUME TypeOK, NEW c \in Clients, InCall(c), rows[call[c].id].status = None
    PROVE  Inserted(call[c])
             = [rows EXCEPT ![call[c].id] = put(@, call[c].status, call[c].version)]
BY DEF TypeOK, InCall, put, Inserted

(* JobStore's put is the one of this module.                               *)
LEMMA SamePut ==
    /\ Store!Status = Status /\ Store!NoRow = NoRow
    /\ \A row, s, v : Store!put(row, s, v) = put(row, s, v)
<1>1. Store!NonTerminal = NonTerminal /\ Store!Terminal = Terminal /\ Store!None = None
  BY DEF Store!NonTerminal, NonTerminal, Store!Terminal, Terminal, Store!None, None
<1>2. Store!Status = Status /\ Store!NoRow = NoRow
  BY <1>1 DEF Store!Status, Status, Store!NoRow, NoRow
<1>3. \A s : Store!existing_statuses_put_may_replace(s) = existing_statuses_put_may_replace(s)
  BY <1>1, Zenon DEF Store!existing_statuses_put_may_replace, existing_statuses_put_may_replace
<1>4. \A e, s : Store!put_applies(e, s) <=> put_applies(e, s)
  BY <1>1, <1>3 DEF Store!put_applies, put_applies
<1>5. \A row, s, v : Store!put_may_write(row, s, v) <=> put_may_write(row, s, v)
  BY <1>1, <1>4 DEF Store!put_may_write, put_may_write
<1>6. \A row, s, v : Store!put(row, s, v) = put(row, s, v)
  BY <1>1, <1>5 DEF Store!put, put
<1> QED
  BY <1>2, <1>6

(* A statement that writes is one put of the abstract store.               *)
LEMMA PutMaps ==
    ASSUME TypeOK, NEW c \in Clients, InCall(c),
           rows' = [rows EXCEPT ![call[c].id] = put(@, call[c].status, call[c].version)]
    PROVE  Store!Next
<1>1. call[c].id \in Ids /\ call[c].status \in Status /\ call[c].version \in Versions
    BY StoreConstantsAssumption DEF TypeOK, InCall
<1>2. Store!Put(call[c].id, call[c].status, call[c].version)
    BY SamePut DEF Store!Put
<1> QED
    BY <1>1, <1>2, SamePut DEF Store!Next

(* Every step of the two stores is a step of JobStore or leaves the rows.  *)
LEMMA StepMaps ==
    ASSUME TypeOK, [Next]_vars
    PROVE  [Store!Next]_rows
<1>1. ASSUME NEW c \in Clients, Update(c) \/ Insert(c) \/ Retry(c) PROVE [Store!Next]_rows
  <2>1. InCall(c)
    BY <1>1 DEF Update, Insert, Retry, At, InCall
  <2>2. CASE Gated(call[c]) /\ rows' = Updated(call[c])
    BY <2>1, <2>2, UpdatedIsPut, PutMaps
  <2>3. CASE rows[call[c].id].status = None /\ rows' = Inserted(call[c])
    BY <2>1, <2>3, InsertIsPut, PutMaps
  <2> QED
    BY <1>1, <2>2, <2>3 DEF Update, Insert, Retry
<1>2. ASSUME NEW id \in Ids, Delete(id) PROVE Store!Next
  BY <1>2, SamePut DEF Delete, Store!Next, Store!Delete
<1>3. ASSUME Clear PROVE Store!Next
  BY <1>3, SamePut DEF Clear, Store!Next, Store!Clear
<1>4. ASSUME NEW c \in Clients, NEW id \in Ids, NEW s \in Statuses[backend], NEW v \in Versions,
             Put(c, id, s, v) \/ PutLocked(c, id, s, v)
      PROVE  [Store!Next]_rows
  <2>1. CASE Put(c, id, s, v)
    BY <2>1 DEF Put
  <2>2. CASE PutLocked(c, id, s, v)
    <3>1. s \in Status
      BY StoreConstantsAssumption DEF TypeOK
    <3>2. Store!Put(id, s, v)
      BY <2>2, SamePut DEF PutLocked, Store!Put
    <3> QED
      BY <3>1, <3>2, SamePut DEF Store!Next
  <2> QED
    BY <1>4, <2>1, <2>2
<1> QED
  BY <1>1, <1>2, <1>3, <1>4 DEF Next, Find, vars

-----------------------------------------------------------------------------
LEMMA InitInv == Init => Inv
BY DEF Init, Inv, TypeOK, CallInv, AnswerInv, LockInv, WonInv, NoWins, InCall, AtRest, Call, Answers,
   Row, NoRow, None

(* A put leaves a row in the place of a row.                               *)
LEMMA PutIsRow ==
    ASSUME NEW row \in Row, NEW s \in Status, NEW v \in Nat
    PROVE  put(row, s, v) \in Row
BY DEF put, Row

(* The rows keep their type.                                               *)
LEMMA RowsType ==
    ASSUME TypeOK, [Next]_vars
    PROVE  rows' \in [Ids -> Row]
<1>1. ASSUME NEW c \in Clients, Update(c) \/ Insert(c) \/ Retry(c) PROVE rows' \in [Ids -> Row]
  <2>1. call[c].id \in Ids /\ call[c].status \in Status /\ call[c].version \in Nat
    BY <1>1, StoreConstantsAssumption DEF Update, Insert, Retry, At, TypeOK
  <2>2. \/ rows' = rows
        \/ rows' = [rows EXCEPT ![call[c].id] = [status |-> call[c].status, version |-> call[c].version + 1]]
        \/ rows' = [rows EXCEPT ![call[c].id] = [status |-> call[c].status, version |-> call[c].version]]
    BY <1>1 DEF Update, Insert, Retry, Updated, Inserted
  <2> QED
    BY <2>1, <2>2 DEF TypeOK, Row
<1>2. ASSUME (\E id \in Ids : Delete(id)) \/ Clear PROVE rows' \in [Ids -> Row]
  <2>1. NoRow \in Row
    BY DEF NoRow, Row
  <2> QED
    BY <1>2, <2>1 DEF Delete, Clear, TypeOK
<1>3. ASSUME NEW c \in Clients, (\E id \in Ids : \E s, v : Put(c, id, s, v)) \/ Find(c)
      PROVE  rows' = rows
  BY <1>3 DEF Put, Find
<1>4. ASSUME NEW c \in Clients, NEW id \in Ids, NEW s \in Statuses[backend], NEW v \in Versions,
             PutLocked(c, id, s, v)
      PROVE  rows' \in [Ids -> Row]
  <2>1. s \in Status /\ v \in Nat
    BY StoreConstantsAssumption DEF TypeOK
  <2>2. rows' = [rows EXCEPT ![id] = put(rows[id], s, v)]
    BY <1>4 DEF PutLocked
  <2> QED
    BY <2>1, <2>2, PutIsRow DEF TypeOK
<1> QED
  BY <1>1, <1>2, <1>3, <1>4 DEF Next, TypeOK, vars

(* The wins of an id: of an update that is let through, of an insert, and  *)
(* of a row that goes.                                                     *)
LEMMA WinsKeep ==
    ASSUME TypeOK, WonInv, rows' \in [Ids -> Row],
           \/ UNCHANGED <<rows, won>>
           \/ \E k : /\ k.id \in Ids /\ k.version \in Versions /\ rows[k.id].version = k.version
                      /\ rows' = Updated(k) /\ won' = Counted(k)
           \/ \E k : k.id \in Ids /\ rows' = Inserted(k) /\ won' = Recounted(k)
           \/ \E id \in Ids : rows' = [rows EXCEPT ![id] = NoRow] /\ won' = [won EXCEPT ![id] = NoWins]
           \/ won' = [id \in Ids |-> NoWins]
    PROVE  won' \in [Ids -> [Versions -> Nat]] /\ WonInv'
<1>1. NoWins \in [Versions -> Nat] /\ \A v \in Versions : NoWins[v] = 0
  BY DEF NoWins
<1>2. Versions \subseteq Nat
  BY StoreConstantsAssumption
<1>3. CASE UNCHANGED <<rows, won>>
  BY <1>3 DEF TypeOK, WonInv
<1>4. ASSUME NEW k, k.id \in Ids, k.version \in Versions, rows[k.id].version = k.version,
             rows' = Updated(k), won' = Counted(k)
      PROVE  won' \in [Ids -> [Versions -> Nat]] /\ WonInv'
  <2>1. won[k.id][k.version] \in Nat /\ won[k.id][k.version] = 0
    <3>1. won[k.id][k.version] \in Nat /\ k.version \in Nat
      BY <1>2, <1>4 DEF TypeOK
    <3>2. /\ won[k.id][k.version] <= 1
          /\ won[k.id][k.version] = 1 => k.version < rows[k.id].version
      BY <1>4 DEF WonInv
    <3> QED
      BY <1>4, <3>1, <3>2
  <2>2. won' = [won EXCEPT ![k.id] = [won[k.id] EXCEPT ![k.version] = won[k.id][k.version] + 1]]
    BY <1>4 DEF Counted
  <2>3. [won[k.id] EXCEPT ![k.version] = won[k.id][k.version] + 1] \in [Versions -> Nat]
    BY <1>4, <2>1 DEF TypeOK
  <2>4. won' \in [Ids -> [Versions -> Nat]]
    BY <1>4, <2>2, <2>3 DEF TypeOK
  <2>5. rows'[k.id].version = k.version + 1 /\ \A id \in Ids : id # k.id => rows'[id] = rows[id]
    BY <1>4 DEF Updated, TypeOK
  <2>6. ASSUME NEW id \in Ids, NEW v \in Versions
        PROVE  won'[id][v] <= 1 /\ (won'[id][v] = 1 => v < rows'[id].version)
    <3>1. CASE id # k.id
      BY <1>4, <2>2, <2>5, <3>1 DEF TypeOK, WonInv
    <3>2. CASE id = k.id /\ v = k.version
      <4>1. won'[id][v] = 1
        BY <1>4, <2>1, <2>2, <3>2 DEF TypeOK
      <4> QED
        BY <1>2, <2>5, <3>2, <4>1
    <3>3. CASE id = k.id /\ v # k.version
      <4>1. won'[id][v] = won[id][v]
        BY <1>4, <2>2, <3>3 DEF TypeOK
      <4>2. won[id][v] <= 1 /\ (won[id][v] = 1 => v < k.version)
        BY <1>4, <3>3 DEF WonInv
      <4>3. v \in Nat /\ k.version \in Nat
        BY <1>2, <1>4
      <4>4. v < k.version => v < k.version + 1
        BY <4>3
      <4> QED
        BY <2>5, <3>3, <4>1, <4>2, <4>4
    <3> QED
      BY <3>1, <3>2, <3>3
  <2> QED
    BY <2>4, <2>6 DEF WonInv
<1>5. ASSUME NEW id \in Ids, \A i \in Ids : i # id => rows'[i] = rows[i],
             won' = [won EXCEPT ![id] = NoWins]
      PROVE  won' \in [Ids -> [Versions -> Nat]] /\ WonInv'
  <2>1. won' \in [Ids -> [Versions -> Nat]]
    BY <1>1, <1>5 DEF TypeOK
  <2>2. ASSUME NEW i \in Ids, NEW v \in Versions
        PROVE  won'[i][v] <= 1 /\ (won'[i][v] = 1 => v < rows'[i].version)
    BY <1>1, <1>5 DEF TypeOK, WonInv
  <2> QED
    BY <2>1, <2>2 DEF WonInv
<1>6. ASSUME NEW k, k.id \in Ids, rows' = Inserted(k), won' = Recounted(k)
      PROVE  won' \in [Ids -> [Versions -> Nat]] /\ WonInv'
  <2>1. won' = [won EXCEPT ![k.id] = NoWins] /\ \A i \in Ids : i # k.id => rows'[i] = rows[i]
    BY <1>6 DEF Inserted, Recounted, TypeOK
  <2> QED
    BY <1>5, <1>6, <2>1
<1>7. ASSUME NEW id \in Ids, rows' = [rows EXCEPT ![id] = NoRow], won' = [won EXCEPT ![id] = NoWins]
      PROVE  won' \in [Ids -> [Versions -> Nat]] /\ WonInv'
  BY <1>5, <1>7 DEF TypeOK
<1>8. CASE won' = [id \in Ids |-> NoWins]
  BY <1>1, <1>8 DEF WonInv
<1> QED
  BY <1>3, <1>4, <1>6, <1>7, <1>8

(* A statement of client c.                                                *)
LEMMA StatementKeeps ==
    ASSUME Inv, NEW c \in Clients, Update(c) \/ Insert(c) \/ Retry(c) \/ Find(c)
    PROVE  Inv'
<1>1. InCall(c) /\ Watch /\ backend' = backend
  BY DEF Update, Insert, Retry, Find, At, InCall
<1>2. rows' \in [Ids -> Row]
  BY RowsType DEF Inv, Next
<1>3. \/ \E p \in {"insert", "retry", "find"} : Goto(c, p)
      \/ \E a \in Answers : Answer(c, a)
  BY DEF Update, Insert, Retry, Find, Answers
<1>7. won' \in [Ids -> [Versions -> Nat]] /\ WonInv'
  <2>1. call[c].id \in Ids /\ call[c].version \in Versions
    BY <1>1 DEF Inv, TypeOK, InCall
  <2>2. Gated(call[c]) => rows[call[c].id].version = call[c].version
    BY DEF Gated
  <2> QED
    BY <1>2, <2>1, <2>2, WinsKeep DEF Inv, Update, Insert, Retry, Find
<1>8. LockInv'
  <2>1. backend # "memory"
    BY <1>1 DEF Inv, LockInv
  <2> QED
    BY <1>1, <2>1 DEF LockInv
<1>4. TypeOK'
  <2>1. seen' \in [Clients -> SUBSET {"applies", "refuses", "gone"}]
    BY <1>1, WatchType DEF Inv
  <2>2. call' \in [Clients -> Call] /\ \A d \in Clients : call'[d].pc # "idle" =>
            call'[d].id \in Ids /\ call'[d].status \in Status /\ call'[d].version \in Versions
    <3>1. CASE \E p \in {"insert", "retry", "find"} : Goto(c, p)
      BY <1>1, <3>1 DEF Goto, Inv, TypeOK, Call, InCall
    <3>2. CASE \E a \in Answers : Answer(c, a)
      BY <3>2 DEF Answer, AtRest, Inv, TypeOK, Call
    <3> QED
      BY <1>3, <3>1, <3>2
  <2> QED
    BY <1>1, <1>2, <1>7, <2>1, <2>2 DEF Inv, TypeOK
<1>5. ASSUME NEW d \in Clients, d # c PROVE CallInv(d)' /\ AnswerInv(d)'
  <2>1. call'[d] = call[d]
    BY <1>3, <1>5 DEF Goto, Answer, Inv, TypeOK
  <2> QED
    BY <1>1, <2>1, OthersKeep
<1>6. CallInv(c)' /\ AnswerInv(c)'
  <2>1. /\ seen[c] \subseteq seen'[c]
        /\ Verdict(call[c], rows') \in seen'[c]
    BY <1>1, WatchKeeps
  <2>2. call[c].answer = "-" /\ Verdict(call[c], rows) \in seen[c]
    BY <1>1 DEF Inv, CallInv
  <2>3. ASSUME NEW p \in {"insert", "retry", "find"}, Goto(c, p), rows' = rows,
               p # "insert" => rows[call[c].id].status # None \/ "gone" \in seen[c],
               p = "find" => seen[c] \cap {"refuses", "gone"} # {}
        PROVE  CallInv(c)' /\ AnswerInv(c)'
    <3>1. call'[c] = [call[c] EXCEPT !.pc = p]
      BY <2>3 DEF Goto, Inv, TypeOK
    <3>2. call[c] \in Call
      BY DEF Inv, TypeOK
    <3>3. /\ call'[c].pc = p /\ call'[c].id = call[c].id /\ call'[c].status = call[c].status
          /\ call'[c].version = call[c].version /\ call'[c].answer = "-"
      BY <2>2, <3>1, <3>2 DEF Call
    <3>4. Verdict(call[c], rows)' = Verdict(call[c], rows')
      BY <3>3 DEF Verdict
    <3> QED
      BY <2>1, <2>3, <3>3, <3>4 DEF CallInv, AnswerInv, InCall
  <2>4. ASSUME NEW a \in Answers, Answer(c, a),
               a = "False" => seen[c] \cap {"refuses", "gone"} # {},
               a = "RuntimeError" => "gone" \in seen[c]
        PROVE  CallInv(c)' /\ AnswerInv(c)'
    <3>1. call'[c] = AtRest(a)
      BY <2>4 DEF Answer, Inv, TypeOK
    <3> QED
      BY <2>1, <2>4, <3>1 DEF CallInv, AnswerInv, InCall, AtRest
  <2>5. CASE Update(c)
    BY <2>3, <2>4, <2>5 DEF Update, Answers
  <2>6. CASE Insert(c)
    BY <2>3, <2>4, <2>6 DEF Insert, Answers
  <2>7. CASE Retry(c)
    <3>1. ~Gated(call[c]) => seen[c] \cap {"refuses", "gone"} # {}
      BY <1>1, <2>2, <2>7, NotGated DEF Retry, At, Inv, CallInv
    <3>2. rows[call[c].id].status # None \/ "gone" \in seen[c]
      BY <1>1, <2>7 DEF Retry, At, Inv, CallInv
    <3> QED
      BY <2>3, <2>4, <2>7, <3>1, <3>2 DEF Retry, Answers
  <2>8. CASE Find(c)
    <3>1. seen[c] \cap {"refuses", "gone"} # {} /\ (rows[call[c].id].status # None \/ "gone" \in seen[c])
      BY <1>1, <2>8 DEF Find, At, Inv, CallInv
    <3> QED
      BY <2>4, <2>8, <3>1 DEF Find, Answers
  <2> QED
    BY <2>5, <2>6, <2>7, <2>8
<1> QED
  BY <1>4, <1>5, <1>6, <1>7, <1>8 DEF Inv

(* A put under the lock.                                                   *)
LEMMA LockedKeeps ==
    ASSUME Inv, NEW c \in Clients, NEW id \in Ids, NEW s \in Statuses[backend], NEW v \in Versions,
           PutLocked(c, id, s, v)
    PROVE  Inv'
<1> DEFINE k == Record("idle", id, s, v)
           a == IF put_may_write(rows[id], s, v) THEN "True" ELSE "False"
<1>1. /\ backend = "memory" /\ backend' = backend /\ rows' = [rows EXCEPT ![id] = put(rows[id], s, v)]
      /\ call' = [call EXCEPT ![c] = AtRest(a)] /\ seen' = [seen EXCEPT ![c] = {Verdict(k, rows)}]
  BY DEF PutLocked, Answer
<1>2. /\ won' = CASE rows[id].status = None -> Recounted(k)
                  [] rows[id].status # None /\ put_may_write(rows[id], s, v) -> Counted(k)
                  [] OTHER -> won
  BY DEF PutLocked
<1>3. k.id = id /\ k.status = s /\ k.version = v
  BY DEF Record
<1>4. rows' \in [Ids -> Row]
  BY RowsType DEF Inv, Next
<1>5. won' \in [Ids -> [Versions -> Nat]] /\ WonInv'
  <2>1. CASE rows[id].status = None
    <3>1. rows' = Inserted(k) /\ won' = Recounted(k)
      BY <1>1, <1>2, <1>3, <2>1 DEF Inserted, put
    <3> QED
      BY <1>3, <1>4, <3>1, WinsKeep DEF Inv
  <2>2. CASE rows[id].status # None /\ put_may_write(rows[id], s, v)
    <3>1. rows[id].version = v
      BY <2>2 DEF put_may_write
    <3>2. rows' = Updated(k) /\ won' = Counted(k)
      BY <1>1, <1>2, <1>3, <2>2, <3>1 DEF Updated, put
    <3> QED
      BY <1>3, <1>4, <3>1, <3>2, WinsKeep DEF Inv
  <2>3. CASE rows[id].status # None /\ ~put_may_write(rows[id], s, v)
    <3>1. rows' = rows /\ won' = won
      BY <1>1, <1>2, <2>3 DEF put, Inv, TypeOK
    <3> QED
      BY <1>4, <3>1, WinsKeep DEF Inv
  <2> QED
    BY <2>1, <2>2, <2>3
<1>6. ASSUME NEW d \in Clients PROVE ~InCall(d) /\ ~InCall(d)'
  <2>1. ~InCall(d)
    BY <1>1 DEF Inv, LockInv
  <2> QED
    BY <1>1, <2>1 DEF Inv, TypeOK, InCall, AtRest
<1>7. a \in Answers /\ AtRest(a) \in Call /\ Verdict(k, rows) \in {"applies", "refuses"}
  BY DEF Answers, AtRest, Call, Verdict
<1>8. TypeOK'
  BY <1>1, <1>4, <1>5, <1>6, <1>7 DEF Inv, TypeOK, InCall
<1>9. ASSUME NEW d \in Clients PROVE CallInv(d)' /\ AnswerInv(d)'
  <2>1. CASE d # c
    <3>1. call'[d] = call[d] /\ seen'[d] = seen[d]
      BY <1>1, <2>1 DEF Inv, TypeOK
    <3> QED
      BY <1>6, <3>1 DEF Inv, CallInv, AnswerInv
  <2>2. CASE d = c
    <3>1. call'[d].answer = a /\ seen'[d] = {Verdict(k, rows)}
      BY <1>1, <2>2 DEF Inv, TypeOK, AtRest
    <3>2. Verdict(k, rows) = IF put_may_write(rows[id], s, v) THEN "applies" ELSE "refuses"
      BY <1>3 DEF Verdict
    <3> QED
      BY <1>6, <3>1, <3>2 DEF CallInv, AnswerInv
  <2> QED
    BY <2>1, <2>2
<1> QED
  BY <1>5, <1>6, <1>8, <1>9 DEF Inv, LockInv

LEMMA NextInv == Inv /\ [Next]_vars => Inv'
<1> SUFFICES ASSUME Inv, [Next]_vars PROVE Inv'
  OBVIOUS
<1>1. ASSUME NEW c \in Clients, Update(c) \/ Insert(c) \/ Retry(c) \/ Find(c) PROVE Inv'
  BY <1>1, StatementKeeps
<1>2. ASSUME NEW c \in Clients, NEW id \in Ids, NEW s \in Statuses[backend], NEW v \in Versions,
             Put(c, id, s, v)
      PROVE  Inv'
  <2> DEFINE k == Record("update", id, s, v)
  <2>1. call' = [call EXCEPT ![c] = k] /\ seen' = [seen EXCEPT ![c] = {Verdict(k, rows)}]
        /\ rows' = rows /\ backend' = backend /\ won' = won
    BY <1>2 DEF Put
  <2>2. /\ k \in Call /\ Verdict(k, rows) \in {"applies", "refuses"}
        /\ k.id \in Ids /\ k.status \in Status /\ k.version \in Versions /\ k.answer = "-"
    <3>1. s \in Status
      BY StoreConstantsAssumption DEF Inv, TypeOK
    <3> QED
      BY <3>1 DEF Call, Answers, Verdict, Record
  <2>3. TypeOK'
    <3> HIDE DEF k
    <3> QED
      BY <2>1, <2>2 DEF Inv, TypeOK
  <2>6. LockInv' /\ WonInv'
    BY <1>2, <2>1 DEF Put, Inv, LockInv, WonInv
  <2>4. ASSUME NEW d \in Clients, d # c PROVE CallInv(d)' /\ AnswerInv(d)'
    <3>1. call'[d] = call[d] /\ seen'[d] = seen[d]
      BY <2>1, <2>4 DEF Inv, TypeOK
    <3> QED
      BY <2>1, <3>1 DEF Inv, CallInv, AnswerInv, InCall, Verdict
  <2>5. CallInv(c)' /\ AnswerInv(c)'
    <3>1. call'[c] = k /\ seen'[c] = {Verdict(k, rows)}
      BY <2>1 DEF Inv, TypeOK
    <3>2. Verdict(call[c], rows)' = Verdict(k, rows)
      BY <2>1, <3>1 DEF Verdict
    <3> QED
      BY <3>1, <3>2 DEF CallInv, AnswerInv, InCall, Record
  <2> QED
    BY <2>3, <2>4, <2>5, <2>6 DEF Inv
<1>3. ASSUME (\E id \in Ids : Delete(id)) \/ Clear PROVE Inv'
  <2>1. Watch /\ call' = call /\ backend' = backend
    BY <1>3 DEF Delete, Clear
  <2>2. won' \in [Ids -> [Versions -> Nat]] /\ WonInv'
    BY <1>3, RowsType, WinsKeep DEF Inv, Delete, Clear
  <2>3. TypeOK'
    BY <2>1, <2>2, WatchType, RowsType DEF Inv, TypeOK
  <2>4. LockInv'
    BY <2>1 DEF Inv, LockInv, InCall
  <2> QED
    BY <2>1, <2>2, <2>3, <2>4, OthersKeep DEF Inv
<1>4. ASSUME UNCHANGED vars PROVE Inv'
  BY <1>4 DEF Inv, TypeOK, LockInv, WonInv, CallInv, AnswerInv, InCall, Verdict, vars
<1> QED
  BY <1>1, <1>2, <1>3, <1>4, LockedKeeps DEF Next

-----------------------------------------------------------------------------
(* InMemoryJobStore.put, and the statements of SqlJobStore.put and         *)
(* MongoJobStore.put interleaved in any way with those of other clients    *)
(* and with deletes, change the rows exactly as an atomic put, delete or   *)
(* clear would.                                                            *)
THEOREM BackendsImplementJobStore == Spec => ImplementsJobStore
<1>1. Init => Store!Init
  BY SamePut DEF Init, Store!Init
<1>2. Inv /\ [Next]_vars => [Store!Next]_rows
  BY StepMaps DEF Inv
<1> QED
  BY <1>1, <1>2, InitInv, NextInv, PTL DEF Spec, ImplementsJobStore, Store!Spec

(* put answers False, or raises RuntimeError, only when a row refused the  *)
(* record or was deleted while the call ran, for any number of clients.    *)
THEOREM SkipsJustified == Spec => []SkipsAreJustified
<1>1. Inv => SkipsAreJustified
  BY DEF Inv, AnswerInv, SkipsAreJustified
<1> QED
  BY <1>1, InitInv, NextInv, PTL DEF Spec

(* Of the clients that hold one version of a row at most one gets its      *)
(* update written, in any of the three stores and for any number of        *)
(* clients, ids and versions.                                              *)
THEOREM UpdatesAreNotLost == Spec => []NoLostUpdate
<1>1. Inv => NoLostUpdate
  BY DEF Inv, WonInv, NoLostUpdate
<1> QED
  BY <1>1, InitInv, NextInv, PTL DEF Spec

-----------------------------------------------------------------------------
(* The fence of store/lifecycle.py allows only what the transition table   *)
(* of events.py can reach.                                                 *)
LEMMA FenceFollowsFSM ==
    ASSUME NEW s \in Status, NEW e \in existing_statuses_put_may_replace(s)
    PROVE  FSMLeads(e, s)
<1>1. /\ <<"Unknown", "Initializing">> \in Moves
      /\ <<"Initializing", "Scheduled">> \in Moves
      /\ <<"Scheduled", "InProgress">> \in Moves
      /\ <<"InProgress", "Failed">> \in Moves
      /\ <<"InProgress", "Completed">> \in Moves
      /\ <<"InProgress", "Cancelled">> \in Moves
  BY DEF Moves, EventSteps, Transitions
<1>2. \A t \in Status : <<t, t>> \in Moves
  BY DEF Moves
<1>3. \A a, b, c \in Status :
        <<e, a>> \in Moves /\ <<a, b>> \in Moves /\ <<b, c>> \in Moves /\ <<c, s>> \in Moves
            => FSMLeads(e, s)
  <2>1. e \in Status
    BY DEF existing_statuses_put_may_replace, Status, NonTerminal, Terminal
  <2> QED
    BY <2>1 DEF FSMLeads, FSMPaths
<1>4. /\ e \in Status
      /\ s = "Unknown" => e = s
      /\ s = "Initializing" => e \in {"Unknown", "Initializing"}
      /\ s = "Scheduled" => e \in {"Unknown", "Initializing", "Scheduled"}
      /\ s = "InProgress" => e \in NonTerminal
      /\ s \in Terminal => e \in NonTerminal \cup {s}
  BY DEF existing_statuses_put_may_replace, Status, NonTerminal, Terminal
<1>5. {"Unknown", "Initializing", "Scheduled", "InProgress"} \subseteq Status
  BY DEF Status, NonTerminal
<1>6. s \in NonTerminal \/ s \in Terminal
  BY DEF Status
<1>7. s \in Terminal => <<"InProgress", s>> \in Moves
  BY <1>1 DEF Terminal
<1>8. CASE e = s
  BY <1>2, <1>3, <1>8
<1>9. CASE s = "Initializing" /\ e = "Unknown"
  BY <1>1, <1>2, <1>3, <1>5, <1>9
<1>10. CASE s = "Scheduled" /\ e \in {"Unknown", "Initializing"}
  BY <1>1, <1>2, <1>3, <1>5, <1>10
<1>11. CASE s = "InProgress" /\ e \in {"Unknown", "Initializing", "Scheduled"}
  BY <1>1, <1>2, <1>3, <1>5, <1>11
<1>12. CASE s \in Terminal /\ e \in NonTerminal
  <2>1. CASE e = "Unknown"
    BY <1>1, <1>3, <1>5, <1>7, <1>12, <2>1
  <2>2. CASE e = "Initializing"
    BY <1>1, <1>2, <1>3, <1>5, <1>7, <1>12, <2>2
  <2>3. CASE e = "Scheduled"
    BY <1>1, <1>2, <1>3, <1>5, <1>7, <1>12, <2>3
  <2>4. CASE e = "InProgress"
    BY <1>1, <1>2, <1>3, <1>5, <1>7, <1>12, <2>4
  <2> QED
    BY <1>12, <2>1, <2>2, <2>3, <2>4 DEF NonTerminal
<1> QED
  BY <1>4, <1>6, <1>8, <1>9, <1>10, <1>11, <1>12 DEF NonTerminal

(* A row that lives moves only forward along the events of the FSM: the    *)
(* two hand-written tables agree (existing_statuses_put_may_replace,       *)
(* events.py's transitions), and no statement writes round the fence.      *)
THEOREM FenceIsSound == Spec => FollowsFSM
<1>1. ASSUME Inv, [Next]_vars, NEW id \in Ids, HasRow(id), HasRow(id)'
      PROVE  FSMLeads(rows[id].status, rows'[id].status)
  <2>1. rows[id].status \in Status
    BY <1>1 DEF Inv, TypeOK, Row, HasRow
  <2>2. CASE rows'[id].status = rows[id].status
    BY <2>1, <2>2 DEF FSMLeads, FSMPaths, Moves
  <2>3. CASE rows'[id].status # rows[id].status
    <3>1. Store!Next
      BY <1>1, <2>3, StepMaps DEF Inv
    <3>2. PICK s \in Status, v \in Versions : rows'[id] = put(rows[id], s, v)
      BY <1>1, <2>3, <3>1, SamePut DEF Store!Next, Store!Put, Store!Delete, Store!Clear, NoRow, HasRow,
         Inv, TypeOK
    <3>3. put_may_write(rows[id], s, v) /\ rows'[id].status = s
      BY <1>1, <2>3, <3>2 DEF put, HasRow
    <3>4. rows[id].status \in existing_statuses_put_may_replace(s)
      BY <1>1, <3>3 DEF put_may_write, put_applies, HasRow
    <3> QED
      BY <3>3, <3>4, FenceFollowsFSM
  <2> QED
    BY <2>2, <2>3
<1>2. Inv /\ [Next]_vars =>
        [\A id \in Ids : HasRow(id) /\ HasRow(id)' =>
            FSMLeads(rows[id].status, rows'[id].status)]_vars
  BY <1>1
<1> QED
  BY <1>2, InitInv, NextInv, PTL DEF Spec, FollowsFSM
============================================================================
