-------------------------- MODULE SchedulerProofs --------------------------
(***************************************************************************)
(* Proofs about Scheduler for every set of jobs, workers and cancellers,   *)
(* every capacity, any number of store errors, threads or one event loop.  *)
(***************************************************************************)
EXTENDS SchedulerInvariant, TLAPS

-----------------------------------------------------------------------------
(* The initial state satisfies the inductive invariant.                    *)
LEMMA InitInv == Init => IInv
<1> SUFFICES ASSUME Init PROVE IInv
  OBVIOUS
<1> USE DEF Init
<1>1. TypeOK
  <2>1. \A j \in Jobs \cup {NoJob}, pc \in Pcs : Blank(pc, j) \in Actor
    BY DEF Actor, Blank
  <2>2. act \in [Actors -> Actor]
    BY <2>1, ConstantsAssumption
       DEF Pcs, OwnerPcs, WorkerPcs, CancellerPcs
  <2>3. rows \in [Ids -> Row]
    BY DEF Row, NoRow
  <2>4. fsm \in [Jobs -> Status] /\ version \in [Jobs -> Nat] /\ runs \in [Jobs -> Nat]
    BY DEF Status, NonTerminal
  <2>5. cancelEvent \in [Jobs -> BOOLEAN] /\ stop \in BOOLEAN
    OBVIOUS
  <2>6. queue \in Seq(Jobs) /\ Len(queue) = 0
    OBVIOUS
  <2>7. faults \in 0..MaxFaults /\ MaxSize \in Nat
    BY ConstantsAssumption
  <2> QED
    BY <2>2, <2>3, <2>4, <2>5, <2>6, <2>7 DEF TypeOK
<1>2. LocalsOK
  BY ConstantsAssumption DEF LocalsOK, Locals, OwnerLocals, CancellerLocals, WorkerLocals,
     Actors, Blank
<1>3. ~\E j \in Jobs : Queued(j)
  BY DEF Queued
<1>4. FreshIsUntouched /\ AcceptedIsLate /\ SendIsLate
  BY <1>3, ConstantsAssumption
     DEF FreshIsUntouched, AcceptedIsLate, SendIsLate, Fresh, Actors, Blank, None
<1>5. OnePlace /\ QueuedNotRun /\ HeldNotRun /\ RunsAtMostOnce
  BY <1>3, ConstantsAssumption
     DEF OnePlace, QueuedNotRun, HeldNotRun, RunsAtMostOnce, NotStarted, Taken, BeforeRun,
         Actors, Blank, Queued
<1> QED
  BY <1>1, <1>2, <1>4, <1>5 DEF IInv, TokenInv

-----------------------------------------------------------------------------
(* The frame of the steps that move no job and start no workflow: one      *)
(* actor a goes to r; a fresh job may stop being fresh, never the reverse. *)
LEMMA Frame ==
    ASSUME IInv, TypeOK',
           NEW a \in Actors, NEW r \in Actor,
           act' = [act EXCEPT ![a] = r], queue' = queue, runs' = runs,
           Locals(a, r),
           a \in Workers => r.job \in {act[a].job, NoJob},
           a \in Workers /\ NotStarted(r) => NotStarted(act[a]),
           \A j \in Jobs : j # a => fsm'[j] = fsm[j] \/ fsm'[j] \notin Early,
           a \in Jobs =>
             /\ Fresh(fsm'[a], r) => Fresh(fsm[a], act[a])
             /\ ~Fresh(fsm'[a], r) \/ r.pc = "send" => fsm'[a] \notin Early
    PROVE  IInv'
<1> USE ConstantsAssumption
<1>1. /\ act'[a] = r
      /\ \A b \in Actors : b # a => act'[b] = act[b]
  BY DEF IInv, TypeOK
<1>2. LocalsOK'
  BY <1>1 DEF IInv, TokenInv, LocalsOK
<1>3. \A j \in Jobs : Queued(j)' <=> Queued(j)
  BY DEF Queued
<1>4. \A w \in Workers : act'[w].job \in {act[w].job, NoJob}
  BY <1>1 DEF Actors
<1>5. \A j \in Jobs : j # a => act'[j] = act[j]
  BY <1>1 DEF Actors
<1>6. \A j \in Jobs : Fresh(fsm'[j], act'[j]) => Fresh(fsm[j], act[j])
  BY <1>1, <1>5 DEF Fresh, Early
<1>7. FreshIsUntouched'
  BY <1>3, <1>4, <1>6 DEF IInv, TokenInv, FreshIsUntouched, Actors
<1>8. AcceptedIsLate'
  <2>1. ASSUME NEW j \in Jobs, ~Fresh(fsm'[j], act'[j])
        PROVE  fsm'[j] \notin Early
    <3>1. CASE j = a
      BY <1>1, <2>1, <3>1
    <3>2. CASE j # a /\ fsm'[j] = fsm[j]
      BY <1>5, <2>1, <3>2 DEF IInv, TokenInv, AcceptedIsLate
    <3> QED
      BY <3>1, <3>2
  <2> QED
    BY <2>1 DEF AcceptedIsLate
<1>9. SendIsLate'
  BY <1>1, <1>5 DEF IInv, TokenInv, SendIsLate
<1>10. OnePlace'
  <2>1. \A i, k \in 1..Len(queue') : queue'[i] = queue'[k] => i = k
    BY DEF IInv, TokenInv, OnePlace
  <2>2. ~Queued(NoJob)
    BY DEF IInv, TypeOK, Queued, Actors
  <2>3. \A w \in Workers : ~\E i \in 1..Len(queue') : queue'[i] = act'[w].job
    BY <1>4, <2>2 DEF IInv, TokenInv, OnePlace, Queued
  <2>4. \A v, w \in Workers : act'[v].job = act'[w].job /\ act'[v].job \in Jobs => v = w
    BY <1>4 DEF IInv, TokenInv, OnePlace, Actors
  <2> QED
    BY <2>1, <2>3, <2>4 DEF OnePlace, Queued
<1>11. QueuedNotRun' /\ RunsAtMostOnce'
  BY <1>3 DEF IInv, TokenInv, QueuedNotRun, RunsAtMostOnce
<1>12. HeldNotRun'
  <2>1. a \in Workers /\ NotStarted(r) => r.job # NoJob
    BY DEF Locals, WorkerLocals, NotStarted, Taken, BeforeRun, SavePcs, Actors
  <2> QED
    BY <1>1, <2>1 DEF IInv, TokenInv, HeldNotRun, Actors
<1> QED
  BY <1>2, <1>7, <1>8, <1>9, <1>10, <1>11, <1>12 DEF IInv, TokenInv

(* The same for a step that leaves an owner's prev_state alone.            *)
LEMMA LocalFrame ==
    ASSUME IInv, TypeOK',
           NEW a \in Actors, NEW r \in Actor,
           act' = [act EXCEPT ![a] = r], queue' = queue, runs' = runs,
           Locals(a, r),
           a \in Workers => r.job \in {act[a].job, NoJob},
           a \in Workers /\ NotStarted(r) => NotStarted(act[a]),
           \A j \in Jobs : fsm'[j] = fsm[j] \/ fsm'[j] \notin Early,
           a \in Jobs => r.prev = act[a].prev /\ r.pc # "send"
    PROVE  IInv'
<1>1. ASSUME a \in Jobs
      PROVE  /\ Fresh(fsm'[a], r) => Fresh(fsm[a], act[a])
             /\ ~Fresh(fsm'[a], r) => fsm'[a] \notin Early
  BY <1>1 DEF Fresh, Early, IInv, TokenInv, AcceptedIsLate
<1> QED
  BY <1>1, Frame

-----------------------------------------------------------------------------
(* The records actors go to are of their type, and keep what they keep.    *)
LEMMA Records ==
    ASSUME TypeOK, NEW a \in Actors
    PROVE  /\ act[a] \in Actor
           /\ AtRest(a) \in Actor
           /\ \A pc \in Pcs, j \in Jobs \cup {NoJob} : Blank(pc, j) \in Actor
           /\ \A pc \in Pcs :
                LET r == [act[a] EXCEPT !.pc = pc, !.snap = None, !.res = "-"]
                IN  /\ r \in Actor
                    /\ r.pc = pc /\ r.job = act[a].job /\ r.prev = act[a].prev
                    /\ r.n = act[a].n /\ r.ret = act[a].ret
           /\ \A pc, ret \in Pcs \cup {"return"} : pc # "return" =>
                LET r == [act[a] EXCEPT !.pc = pc, !.ret = ret]
                IN  /\ r \in Actor
                    /\ r.pc = pc /\ r.job = act[a].job /\ r.prev = act[a].prev
                    /\ r.n = act[a].n /\ r.ret = ret /\ r.snap = act[a].snap
<1>1. act[a] \in Actor
  BY DEF TypeOK
<1>2. \A pc \in Pcs, j \in Jobs \cup {NoJob} : Blank(pc, j) \in Actor
  BY DEF Actor, Blank
<1>3. AtRest(a) \in Actor
  BY <1>1 DEF AtRest, Actor, Blank, Pcs, OwnerPcs, WorkerPcs
<1>4. ASSUME NEW pc \in Pcs
      PROVE  LET r == [act[a] EXCEPT !.pc = pc, !.snap = None, !.res = "-"]
             IN  /\ r \in Actor
                 /\ r.pc = pc /\ r.job = act[a].job /\ r.prev = act[a].prev
                 /\ r.n = act[a].n /\ r.ret = act[a].ret
  BY <1>1 DEF Actor
<1>5. ASSUME NEW pc \in Pcs \cup {"return"}, NEW ret \in Pcs \cup {"return"}, pc # "return"
      PROVE  LET r == [act[a] EXCEPT !.pc = pc, !.ret = ret]
             IN  /\ r \in Actor
                 /\ r.pc = pc /\ r.job = act[a].job /\ r.prev = act[a].prev
                 /\ r.n = act[a].n /\ r.ret = ret /\ r.snap = act[a].snap
  <2>1. pc \in Pcs /\ ret \in Pcs \cup {"return", "-"}
    BY <1>5
  <2> QED
    BY <1>1, <2>1 DEF Actor
<1> QED
  BY <1>1, <1>2, <1>3, <1>4, <1>5, Zenon

(* A step that changes one actor only keeps the types.                     *)
LEMMA TypeFrame ==
    ASSUME TypeOK, NEW a \in Actors, NEW r \in Actor,
           act' = [act EXCEPT ![a] = r], UNCHANGED shared
    PROVE  TypeOK'
  BY DEF TypeOK, shared

(* An actor that is done with its call, its handler or its job comes to    *)
(* rest; an owner does so with nothing left to roll back.                  *)
LEMMA ReturnInv ==
    ASSUME IInv, TypeOK', NEW a \in Actors,
           act' = [act EXCEPT ![a] = AtRest(a)], queue' = queue, runs' = runs,
           a \in Jobs => act[a].prev = None,
           \A j \in Jobs : fsm'[j] = fsm[j] \/ fsm'[j] \notin Early
    PROVE  IInv'
<1> DEFINE r == AtRest(a)
<1>1. r \in Actor
  BY Records DEF IInv
<1>2. /\ a \in Jobs => r.job = a /\ r.pc = "idle" /\ r.prev = None
      /\ a \in Workers => r.job = NoJob /\ r.pc = "receive"
      /\ a \in Cancellers => r.job = NoJob /\ r.pc = "idle"
  BY ConstantsAssumption DEF AtRest, Blank
<1>3. Locals(a, r)
  BY <1>2, ConstantsAssumption DEF Locals, OwnerLocals, CancellerLocals, WorkerLocals, Actors
<1>4. ~(a \in Workers /\ NotStarted(r))
  BY <1>2 DEF NotStarted, Taken, BeforeRun, SavePcs
<1>5. act' = [act EXCEPT ![a] = r]
  OBVIOUS
<1> HIDE DEF r
<1> QED
  BY <1>1, <1>2, <1>3, <1>4, <1>5, LocalFrame

(* A worker decides where to go on, with its job in hand.                  *)
LEMMA WorkerGoesOn ==
    ASSUME IInv, NEW w \in Workers, NEW pc \in WorkerPcs, NEW next \in WorkerPcs,
           Step(w, pc, next), act[w].job \in Jobs,
           \/ pc = "process" /\ next = "begin"
           \/ /\ BeforeRun(act[w])
              /\ next \in {"run", "reheal", "skipped", "fail_or_restore", "force_failed",
                           "restore_check", "restore"}
           \/ next \in {"failed", "fail", "finish", "complete", "follow_cancel", "ensure"}
           \/ pc = "running" /\ next = "workflows"
    PROVE  IInv'
<1> DEFINE r == [act[w] EXCEPT !.pc = next, !.snap = None, !.res = "-"]
<1>1. w \in Actors /\ w \notin Jobs /\ w \notin Cancellers /\ next \in Pcs
  BY ConstantsAssumption DEF Actors, Pcs
<1>2. act' = [act EXCEPT ![w] = r] /\ UNCHANGED shared /\ act[w].pc = pc
  BY DEF Step, At, Jump, Goto, WorkerPcs
<1>3. /\ r \in Actor
      /\ r.pc = next /\ r.job = act[w].job /\ r.prev = act[w].prev /\ r.n = act[w].n
  BY <1>1, Records DEF IInv
<1> HIDE DEF r
<1>4. WorkerLocals(act[w])
  BY <1>1 DEF IInv, TokenInv, LocalsOK, Locals
<1>5. Locals(w, r)
  BY <1>1, <1>3 DEF Locals, WorkerLocals, Taken, BeforeRun, AfterRun
<1>6. NotStarted(r) => NotStarted(act[w])
  BY <1>2, <1>3, <1>4 DEF NotStarted, WorkerLocals, Taken, BeforeRun, AfterRun, SavePcs
<1>7. TypeOK'
  BY <1>1, <1>2, <1>3, TypeFrame DEF IInv
<1> QED
  BY <1>1, <1>2, <1>3, <1>5, <1>6, <1>7, LocalFrame DEF shared

-----------------------------------------------------------------------------
(* Who is inside save(), and where it goes on.                             *)
LEMMA SaveCallers ==
    ASSUME IInv, NEW a \in Actors, act[a].pc \in SavePcs
    PROVE  /\ act[a].job \in Jobs
           /\ a \in Jobs => act[a].ret = "sched_saved" /\ act[a].prev = None
           /\ a \in Cancellers => act[a].ret = "cancel_saved"
           /\ a \in Workers =>
                \/ BeforeRun(act[a]) /\ act[a].ret \in {"healed", "run_saved", "failed_saved"}
                \/ act[a].ret \in {"return", "redelivery_full", "redelivery_stopped"}
<1>1. Locals(a, act[a])
  BY DEF IInv, TokenInv, LocalsOK
<1> QED
  BY <1>1 DEF Locals, OwnerLocals, CancellerLocals, WorkerLocals, Taken, BeforeRun, AfterRun,
     SavePcs, Actors

(* A step inside save().                                                   *)
LEMMA SaveGoesOn ==
    ASSUME IInv, TypeOK', NEW a \in Actors, NEW r \in Actor,
           act' = [act EXCEPT ![a] = r], fsm' = fsm, queue' = queue, runs' = runs,
           act[a].pc \in SavePcs, r.pc \in SavePcs,
           r.ret = act[a].ret, r.job = act[a].job, r.prev = act[a].prev,
           r.pc \in {"record", "put"} => r.snap \in Status
    PROVE  IInv'
<1>1. Locals(a, r)
  BY SaveCallers, ConstantsAssumption
     DEF Locals, OwnerLocals, CancellerLocals, WorkerLocals, BeforeRun, AfterRun, SavePcs,
         Actors, IInv, TokenInv, LocalsOK
<1>2. a \in Workers /\ NotStarted(r) => NotStarted(act[a])
  BY DEF NotStarted, Taken, BeforeRun, SavePcs
<1>3. r.pc # "send"
  BY DEF SavePcs
<1> QED
  BY <1>1, <1>2, <1>3, LocalFrame

(* save() ends, and its caller goes on.                                    *)
LEMMA SaveEndsInv ==
    ASSUME IInv, NEW a \in Actors, NEW res \in {"ok", "skip", "exc"},
           act[a].pc \in SavePcs, SaveEnds(a, res),
           fsm' = fsm, queue' = queue, runs' = runs,
           act' \in [Actors -> Actor] => TypeOK'
    PROVE  IInv'
<1> DEFINE r == [act[a] EXCEPT !.pc = act[a].ret, !.ret = "-", !.snap = None, !.ver = 0,
                               !.res = res]
<1>1. CASE act[a].ret = "return"
  <2>1. act' = [act EXCEPT ![a] = AtRest(a)]
    BY <1>1 DEF SaveEnds, Goto
  <2>2. a \notin Jobs
    BY <1>1, SaveCallers
  <2>3. TypeOK'
    BY <2>1, Records DEF IInv, TypeOK
  <2> QED
    BY <2>1, <2>2, <2>3, ReturnInv
<1>2. CASE act[a].ret # "return"
  <2>1. act' = [act EXCEPT ![a] = r]
    BY <1>2 DEF SaveEnds, Goto
  <2>2. act[a].ret \in {"sched_saved", "cancel_saved", "healed", "run_saved", "failed_saved",
                        "redelivery_full", "redelivery_stopped"}
    BY <1>2, SaveCallers DEF Actors
  <2>3. /\ r \in Actor
        /\ r.pc = act[a].ret /\ r.job = act[a].job /\ r.prev = act[a].prev /\ r.n = act[a].n
    <3>1. act[a] \in Actor
      BY Records DEF IInv
    <3>2. act[a].ret \in Pcs
      BY <2>2 DEF Pcs, OwnerPcs, WorkerPcs, CancellerPcs
    <3> QED
      BY <3>1, <3>2 DEF Actor
  <2> HIDE DEF r
  <2>4. Locals(a, r)
    BY <1>2, <2>2, <2>3, SaveCallers, ConstantsAssumption
       DEF Locals, OwnerLocals, CancellerLocals, WorkerLocals, BeforeRun, AfterRun, Actors,
           IInv, TokenInv, LocalsOK
  <2>5. a \in Workers /\ NotStarted(r) => NotStarted(act[a])
    BY <1>2, <2>2, <2>3, SaveCallers DEF NotStarted, Taken, BeforeRun, SavePcs
  <2>6. TypeOK'
    BY <2>1, <2>3 DEF IInv, TypeOK
  <2> QED
    BY <2>1, <2>2, <2>3, <2>4, <2>5, <2>6, LocalFrame
<1> QED
  BY <1>1, <1>2

-----------------------------------------------------------------------------
(* put() returns a row.                                                    *)
LEMMA PutType ==
    ASSUME NEW row \in Row, NEW s \in Status, NEW v \in Nat
    PROVE  put(row, s, v) \in Row
  BY DEF put, Row

(* The steps of Job.save() that end without an exception.                  *)
LEMMA SaveInv ==
    ASSUME IInv, NEW a \in Actors,
           SaveStatus(a) \/ SaveRecord(a) \/ SavePut(a) \/ SaveGet(a) \/ SaveRefresh(a)
    PROVE  IInv'
<1>1. act[a].pc \in SavePcs
  BY DEF SaveStatus, SaveRecord, SavePut, SaveGet, SaveRefresh, At, SavePcs
<1>2. act[a] \in Actor /\ J(a) \in Jobs /\ IdOf[J(a)] \in Ids
  BY <1>1, SaveCallers, Records, ConstantsAssumption DEF J, IInv
<1>3. RowOf(a) \in Row /\ fsm[J(a)] \in Status /\ version[J(a)] \in Nat
  BY <1>2 DEF RowOf, IInv, TypeOK
<1>4. SavePcs \subseteq Pcs
  BY DEF Pcs
<1>5. CASE SaveStatus(a)
  <2> DEFINE r == [act[a] EXCEPT !.pc = "record", !.snap = fsm[J(a)]]
  <2>1. r \in Actor /\ r.pc = "record" /\ r.snap \in Status
        /\ r.ret = act[a].ret /\ r.job = act[a].job /\ r.prev = act[a].prev
    BY <1>2, <1>3, <1>4 DEF Actor, SavePcs
  <2>2. act' = [act EXCEPT ![a] = r] /\ UNCHANGED shared
    BY <1>5 DEF SaveStatus, Goto
  <2> HIDE DEF r
  <2>3. TypeOK'
    BY <2>1, <2>2, TypeFrame DEF IInv
  <2> QED
    BY <1>1, <2>1, <2>2, <2>3, SaveGoesOn DEF shared, SavePcs
<1>6. CASE SaveRecord(a)
  <2> DEFINE r == [act[a] EXCEPT !.pc = "put", !.ver = version[J(a)]]
  <2>1. r \in Actor /\ r.pc = "put" /\ r.snap = act[a].snap
        /\ r.ret = act[a].ret /\ r.job = act[a].job /\ r.prev = act[a].prev
    BY <1>2, <1>3, <1>4 DEF Actor, SavePcs
  <2>2. act' = [act EXCEPT ![a] = r] /\ UNCHANGED shared /\ act[a].pc = "record"
    BY <1>6 DEF SaveRecord, Goto, At
  <2> HIDE DEF r
  <2>3. TypeOK'
    BY <2>1, <2>2, TypeFrame DEF IInv
  <2>4. act[a].snap \in Status
    BY <2>2 DEF IInv, TokenInv, LocalsOK, Locals
  <2> QED
    BY <1>1, <2>1, <2>2, <2>3, <2>4, SaveGoesOn DEF shared, SavePcs
<1>7. CASE SavePut(a)
  <2>1. act[a].pc = "put" /\ act[a].snap \in Status /\ act[a].ver \in Nat
    BY <1>2, <1>7 DEF SavePut, At, IInv, TokenInv, LocalsOK, Locals, Actor
  <2>2. put(RowOf(a), act[a].snap, act[a].ver) \in Row
    BY <1>3, <2>1, PutType
  <2>3. /\ rows' = [rows EXCEPT ![IdOf[J(a)]] = put(RowOf(a), act[a].snap, act[a].ver)]
        /\ UNCHANGED <<fsm, version, cancelEvent, queue, stop, faults, runs>>
    BY <1>7 DEF SavePut, RowOf
  <2>4. act' \in [Actors -> Actor] => TypeOK'
    BY <1>2, <2>2, <2>3 DEF IInv, TypeOK
  <2>5. CASE SaveEnds(a, "skip")
    BY <1>1, <2>3, <2>4, <2>5, SaveEndsInv
  <2>6. CASE Goto(a, [act[a] EXCEPT !.pc = "get", !.snap = None, !.ver = 0])
    <3> DEFINE r == [act[a] EXCEPT !.pc = "get", !.snap = None, !.ver = 0]
    <3>1. r \in Actor /\ r.pc = "get"
          /\ r.ret = act[a].ret /\ r.job = act[a].job /\ r.prev = act[a].prev
      BY <1>2, <1>4 DEF Actor, SavePcs
    <3>2. act' = [act EXCEPT ![a] = r]
      BY <2>6 DEF Goto
    <3> HIDE DEF r
    <3>3. TypeOK'
      BY <2>4, <3>1, <3>2 DEF IInv, TypeOK
    <3> QED
      BY <1>1, <2>3, <3>1, <3>2, <3>3, SaveGoesOn DEF SavePcs
  <2> QED
    BY <1>7, <2>5, <2>6 DEF SavePut
<1>8. CASE SaveGet(a)
  <2> DEFINE r == [act[a] EXCEPT !.pc = "refresh", !.ver = RowOf(a).version]
  <2>1. r \in Actor /\ r.pc = "refresh"
        /\ r.ret = act[a].ret /\ r.job = act[a].job /\ r.prev = act[a].prev
    BY <1>2, <1>3, <1>4 DEF Actor, SavePcs, Row
  <2>2. act' = [act EXCEPT ![a] = r] /\ UNCHANGED shared
    BY <1>8 DEF SaveGet, Goto
  <2> HIDE DEF r
  <2>3. TypeOK'
    BY <2>1, <2>2, TypeFrame DEF IInv
  <2> QED
    BY <1>1, <2>1, <2>2, <2>3, SaveGoesOn DEF shared, SavePcs
<1>9. CASE SaveRefresh(a)
  <2>1. act[a].ver \in Nat
    BY <1>2 DEF Actor
  <2>2. /\ version' = [version EXCEPT ![J(a)] = act[a].ver] /\ SaveEnds(a, "ok")
        /\ UNCHANGED <<fsm, cancelEvent, rows, queue, stop, faults, runs>>
    BY <1>9 DEF SaveRefresh
  <2>3. act' \in [Actors -> Actor] => TypeOK'
    BY <1>2, <2>1, <2>2 DEF IInv, TypeOK
  <2> QED
    BY <1>1, <2>2, <2>3, SaveEndsInv
<1> QED
  BY <1>5, <1>6, <1>7, <1>8, <1>9

-----------------------------------------------------------------------------
(* Where each event leads.                                                 *)
LEMMA TargetOf ==
    ASSUME NEW e, NEW s, NEW t \in Targets(e, s)
    PROVE  /\ t \in Status
           /\ e = "INIT" => s = "Unknown" /\ t = "Initializing"
           /\ e = "SCHEDULE" => t = "Scheduled"
           /\ e \notin {"INIT", "SCHEDULE"} => t \in Late
<1>1. PICK u \in Transitions : u.event = e /\ s \in u.from /\ t = u.to
  BY DEF Targets
<1> QED
  BY <1>1 DEF Transitions, Status, NonTerminal, Terminal, Late

(* The lookup of Job.apply_event.                                          *)
LEMMA ApplyLookupInv ==
    ASSUME IInv, NEW a \in Actors, ApplyLookup(a)
    PROVE  IInv'
<1>1. PICK s \in Sites :
        /\ At(a, s.at)
        /\ \/ Targets(s.event, fsm[J(a)]) = {} /\ Jump(a, s.fail)
           \/ \E t \in Targets(s.event, fsm[J(a)]) :
                Goto(a, [act[a] EXCEPT !.pc = "commit", !.ret = s.at, !.snap = t])
  BY DEF ApplyLookup
<1>2. UNCHANGED shared /\ act[a].pc = s.at /\ act[a] \in Actor /\ Locals(a, act[a])
  BY <1>1, Records DEF ApplyLookup, At, IInv, TokenInv, LocalsOK
<1>3. /\ a \in Jobs => s.at \in {"init", "schedule"} /\ s.fail = "rollback"
      /\ a \in Cancellers => s.at = "cancel" /\ s.fail = "return"
      /\ a \in Workers => s.at \in {"run", "follow_cancel", "fail", "complete"} /\ s.fail = "return"
  BY <1>2, ConstantsAssumption
     DEF Sites, Locals, OwnerLocals, CancellerLocals, WorkerLocals, Taken, BeforeRun, AfterRun,
         SavePcs, Actors
<1>4. s.at \in Pcs /\ s.fail \in Pcs \cup {"return"}
  BY DEF Sites, Pcs, OwnerPcs, WorkerPcs, CancellerPcs
<1>5. CASE Jump(a, s.fail)
  <2>1. CASE a \in Jobs
    <3> DEFINE r == [act[a] EXCEPT !.pc = "rollback", !.snap = None, !.res = "-"]
    <3>1. act' = [act EXCEPT ![a] = r]
      BY <1>3, <1>5, <2>1 DEF Jump, Goto
    <3>2. r \in Actor /\ r.pc = "rollback" /\ r.job = act[a].job /\ r.prev = act[a].prev
      BY <1>2, <1>3, <1>4, <2>1 DEF Actor
    <3> HIDE DEF r
    <3>3. Locals(a, r)
      BY <1>2, <1>3, <2>1, <3>2, ConstantsAssumption
         DEF Locals, OwnerLocals, Status, NonTerminal, SavePcs
    <3>4. TypeOK'
      BY <1>2, <3>1, <3>2, TypeFrame DEF IInv
    <3> QED
      BY <1>2, <2>1, <3>1, <3>2, <3>3, <3>4, ConstantsAssumption, LocalFrame DEF shared
  <2>2. CASE a \notin Jobs
    <3>1. act' = [act EXCEPT ![a] = AtRest(a)]
      BY <1>3, <1>5, <2>2 DEF Jump, Goto, Actors
    <3>2. TypeOK'
      BY <1>2, <3>1, Records, TypeFrame DEF IInv
    <3> QED
      BY <1>2, <2>2, <3>1, <3>2, ReturnInv DEF shared
  <2> QED
    BY <2>1, <2>2
<1>6. ASSUME NEW t \in Targets(s.event, fsm[J(a)]),
             Goto(a, [act[a] EXCEPT !.pc = "commit", !.ret = s.at, !.snap = t])
      PROVE  IInv'
  <2> DEFINE r == [act[a] EXCEPT !.pc = "commit", !.ret = s.at, !.snap = t]
  <2>1. act' = [act EXCEPT ![a] = r]
    BY <1>6 DEF Goto
  <2>2. /\ s.event = "INIT" <=> s.at = "init"
        /\ s.event = "SCHEDULE" <=> s.at = "schedule"
    BY DEF Sites
  <2>3. /\ t \in Status
        /\ s.at = "init" => fsm[J(a)] = "Unknown" /\ t = "Initializing"
        /\ s.at = "schedule" => t = "Scheduled"
        /\ s.at \notin {"init", "schedule"} => t \in Late
    BY <2>2, TargetOf
  <2>4. /\ r \in Actor
        /\ r.pc = "commit" /\ r.ret = s.at /\ r.snap = t
        /\ r.job = act[a].job /\ r.prev = act[a].prev
    BY <1>2, <1>4, <2>3 DEF Actor, Pcs
  <2> HIDE DEF r
  <2>5. CASE a \in Jobs
    <3>1. act[a].prev = "Unknown"
      <4>1. CASE s.at = "init"
        <5>1. fsm[a] = "Unknown" /\ act[a].prev \in Status
          BY <1>2, <2>3, <2>5, <4>1 DEF Locals, OwnerLocals, J, SavePcs
        <5>2. Fresh(fsm[a], act[a])
          BY <2>5, <5>1 DEF IInv, TokenInv, AcceptedIsLate, Early
        <5> QED
          BY <5>1, <5>2 DEF Fresh, None, Status, NonTerminal, Terminal
      <4>2. CASE s.at = "schedule"
        BY <1>2, <2>5, <4>2 DEF Locals, OwnerLocals, SavePcs
      <4> QED
        BY <1>3, <2>5, <4>1, <4>2
    <3>2. Locals(a, r)
      BY <1>2, <1>3, <2>3, <2>4, <2>5, <3>1, ConstantsAssumption DEF Locals, OwnerLocals
    <3>3. TypeOK'
      BY <1>2, <2>1, <2>4, TypeFrame DEF IInv
    <3> QED
      BY <1>2, <2>1, <2>4, <2>5, <3>2, <3>3, ConstantsAssumption, LocalFrame DEF shared
  <2>6. CASE a \notin Jobs
    <3>1. act[a].job \in Jobs /\ t \in Late
      BY <1>2, <1>3, <2>3, <2>6 DEF Locals, CancellerLocals, WorkerLocals, Actors
    <3>2. Locals(a, r)
      BY <1>2, <1>3, <2>4, <2>6, <3>1, ConstantsAssumption
         DEF Locals, CancellerLocals, WorkerLocals, Taken, BeforeRun, AfterRun, SavePcs
    <3>3. NotStarted(r) /\ a \in Workers => NotStarted(act[a])
      BY <1>2, <1>3, <2>4 DEF NotStarted, Taken, BeforeRun, SavePcs
    <3>4. TypeOK'
      BY <1>2, <2>1, <2>4, TypeFrame DEF IInv
    <3> QED
      BY <1>2, <2>1, <2>4, <2>6, <3>2, <3>3, <3>4, LocalFrame DEF shared
  <2> QED
    BY <2>5, <2>6
<1> QED
  BY <1>1, <1>5, <1>6

(* Its assignment.                                                         *)
LEMMA ApplyCommitInv ==
    ASSUME IInv, NEW a \in Actors, ApplyCommit(a)
    PROVE  IInv'
<1>1. PICK s \in Sites :
        /\ s.at = act[a].ret
        /\ Goto(a, [act[a] EXCEPT !.pc = s.next, !.ret = s.ret, !.snap = None])
  BY DEF ApplyCommit
<1>2. /\ act[a].pc = "commit" /\ act[a] \in Actor /\ Locals(a, act[a])
      /\ fsm' = [fsm EXCEPT ![J(a)] = act[a].snap]
      /\ UNCHANGED <<version, cancelEvent, rows, queue, stop, faults, runs>>
  BY Records DEF ApplyCommit, At, IInv, TokenInv, LocalsOK
<1> DEFINE r == [act[a] EXCEPT !.pc = s.next, !.ret = s.ret, !.snap = None]
<1>3. act' = [act EXCEPT ![a] = r]
  BY <1>1 DEF Goto
<1>4. s.next \in Pcs /\ s.ret \in Pcs \cup {"return", "-"}
  BY DEF Sites, Pcs, OwnerPcs, WorkerPcs, CancellerPcs, SavePcs
<1>5. /\ r \in Actor
      /\ r.pc = s.next /\ r.ret = s.ret
      /\ r.job = act[a].job /\ r.prev = act[a].prev /\ r.n = act[a].n
  BY <1>2, <1>4 DEF Actor
<1> HIDE DEF r
<1>6. J(a) \in Jobs /\ act[a].snap \in Status
  BY <1>2 DEF J, Locals, OwnerLocals, CancellerLocals, WorkerLocals, Taken, BeforeRun, AfterRun,
     SavePcs, Actors, Late, Status, NonTerminal, Terminal
<1>7. TypeOK'
  BY <1>2, <1>3, <1>5, <1>6 DEF IInv, TypeOK
<1>8. CASE a \in Jobs
  <2>1. J(a) = a /\ act[a].prev = "Unknown"
    BY <1>2, <1>8 DEF J, Locals, OwnerLocals, SavePcs
  <2>2. \/ s.at = "init" /\ s.next = "schedule" /\ act[a].snap = "Initializing"
        \/ s.at = "schedule" /\ s.next = "send" /\ act[a].snap = "Scheduled"
    BY <1>1, <1>2, <1>8 DEF Sites, Locals, OwnerLocals, SavePcs
  <2>3. Locals(a, r)
    BY <1>2, <1>5, <1>8, <2>1, <2>2, ConstantsAssumption DEF Locals, OwnerLocals
  <2>4. fsm'[a] = act[a].snap /\ \A j \in Jobs : j # a => fsm'[j] = fsm[j]
    BY <1>2, <1>8, <2>1 DEF IInv, TypeOK
  <2>5. Fresh(fsm[a], act[a]) /\ Fresh(fsm'[a], r)
    BY <1>5, <2>1 DEF Fresh
  <2>6. r.pc = "send" => fsm'[a] \notin Early
    BY <1>5, <2>2, <2>4 DEF Early
  <2> QED
    BY <1>2, <1>3, <1>5, <1>7, <1>8, <2>3, <2>4, <2>5, <2>6, ConstantsAssumption, Frame
<1>9. CASE a \notin Jobs
  <2>1. act[a].snap \in Late
    BY <1>2, <1>9 DEF Locals, CancellerLocals, WorkerLocals, Taken, BeforeRun, AfterRun,
       SavePcs, Actors
  <2>2. \A j \in Jobs : fsm'[j] = fsm[j] \/ fsm'[j] \notin Early
    BY <1>2, <2>1 DEF Late, Early, IInv, TypeOK
  <2>3. Locals(a, r)
    BY <1>1, <1>2, <1>5, <1>9, ConstantsAssumption
       DEF Sites, Locals, CancellerLocals, WorkerLocals, Taken, BeforeRun, AfterRun, SavePcs
  <2>4. a \in Workers /\ NotStarted(r) => NotStarted(act[a])
    BY <1>1, <1>2, <1>5 DEF Sites, Locals, WorkerLocals, NotStarted, Taken, BeforeRun, AfterRun,
       SavePcs
  <2> QED
    BY <1>2, <1>3, <1>5, <1>7, <1>9, <2>2, <2>3, <2>4, LocalFrame
<1> QED
  BY <1>8, <1>9

(* A store call raises.                                                    *)
LEMMA StoreRaisesInv ==
    ASSUME IInv, NEW a \in Actors, StoreRaises(a)
    PROVE  IInv'
<1>1. /\ faults' \in 0..MaxFaults
      /\ UNCHANGED <<fsm, version, cancelEvent, rows, queue, stop, runs>>
  BY ConstantsAssumption DEF StoreRaises, Raise, IInv, TypeOK
<1>2. act' \in [Actors -> Actor] => TypeOK'
  BY <1>1 DEF IInv, TypeOK
<1>3. act[a] \in Actor /\ Locals(a, act[a])
  BY Records DEF IInv, TokenInv, LocalsOK
<1>4. CASE act[a].pc \in SavePcs /\ SaveEnds(a, "exc")
  BY <1>1, <1>2, <1>4, SaveEndsInv
<1>5. CASE act[a].pc \in {"heal", "reheal"} /\ Jump(a, "fail_or_restore")
  <2> DEFINE r == [act[a] EXCEPT !.pc = "fail_or_restore", !.snap = None, !.res = "-"]
  <2>1. act' = [act EXCEPT ![a] = r]
    BY <1>5 DEF Jump, Goto
  <2>2. r \in Actor /\ r.pc = "fail_or_restore" /\ r.job = act[a].job /\ r.prev = act[a].prev
    <3>1. "fail_or_restore" \in Pcs
      BY DEF Pcs, WorkerPcs
    <3> QED
      BY <1>3, <3>1 DEF Actor
  <2> HIDE DEF r
  <2>3. a \in Workers /\ a \notin Jobs /\ a \notin Cancellers
        /\ act[a].job \in Jobs /\ BeforeRun(act[a])
    BY <1>3, <1>5, ConstantsAssumption
       DEF Locals, OwnerLocals, CancellerLocals, WorkerLocals, Taken, AfterRun, SavePcs, Actors
  <2>4. Locals(a, r) /\ NotStarted(act[a])
    BY <2>2, <2>3 DEF Locals, WorkerLocals, BeforeRun, NotStarted
  <2>5. TypeOK'
    BY <1>2, <2>1, <2>2 DEF IInv, TypeOK
  <2> QED
    BY <1>1, <2>1, <2>2, <2>3, <2>4, <2>5, LocalFrame
<1>6. CASE act[a].pc \in {"skipped", "ensure"} /\ Jump(a, "return")
  <2>1. act' = [act EXCEPT ![a] = AtRest(a)]
    BY <1>6 DEF Jump, Goto
  <2>2. a \notin Jobs
    BY <1>3, <1>6 DEF Locals, OwnerLocals, SavePcs
  <2>3. TypeOK'
    BY <1>2, <2>1, Records DEF IInv, TypeOK
  <2> QED
    BY <1>1, <2>1, <2>2, <2>3, ReturnInv
<1> QED
  BY <1>4, <1>5, <1>6 DEF StoreRaises, At, SavePcs

-----------------------------------------------------------------------------
(* The queue after a send, and after a receive.                            *)
LEMMA SendQueue ==
    ASSUME TypeOK, NEW j \in Jobs, ~Queued(j), SendResult = "ok", queue' = Append(queue, j),
           \A i, k \in 1..Len(queue) : queue[i] = queue[k] => i = k
    PROVE  /\ queue' \in Seq(Jobs)
           /\ MaxSize > 0 => Len(queue') <= MaxSize
           /\ \A i, k \in 1..Len(queue') : queue'[i] = queue'[k] => i = k
           /\ \A x : (\E i \in 1..Len(queue') : queue'[i] = x) => Queued(x) \/ x = j
<1>1. queue \in Seq(Jobs) /\ MaxSize \in Nat
  BY ConstantsAssumption DEF TypeOK
<1>2. queue' \in Seq(Jobs) /\ Len(queue') = Len(queue) + 1
  BY <1>1
<1>3. /\ queue'[Len(queue) + 1] = j
      /\ \A i \in 1..Len(queue) : queue'[i] = queue[i]
  BY <1>1
<1>4. \A i \in 1..Len(queue') : i \in 1..Len(queue) \/ i = Len(queue) + 1
  BY <1>1, <1>2
<1>5. MaxSize > 0 => Len(queue') <= MaxSize
  BY <1>1, <1>2 DEF SendResult
<1> QED
  BY <1>2, <1>3, <1>4, <1>5 DEF Queued

LEMMA ReceiveQueue ==
    ASSUME TypeOK, queue # <<>>, queue' = Tail(queue),
           \A i, k \in 1..Len(queue) : queue[i] = queue[k] => i = k
    PROVE  /\ queue' \in Seq(Jobs)
           /\ MaxSize > 0 => Len(queue') <= MaxSize
           /\ \A i, k \in 1..Len(queue') : queue'[i] = queue'[k] => i = k
           /\ \A x : (\E i \in 1..Len(queue') : queue'[i] = x) => Queued(x) /\ x # Head(queue)
           /\ Head(queue) \in Jobs /\ Queued(Head(queue))
<1>1. queue \in Seq(Jobs) /\ MaxSize \in Nat
  BY ConstantsAssumption DEF TypeOK
<1>2. queue' \in Seq(Jobs) /\ Len(queue') = Len(queue) - 1 /\ Len(queue) > 0
  BY <1>1
<1>3. \A i \in 1..Len(queue') : i + 1 \in 1..Len(queue) /\ queue'[i] = queue[i + 1]
  BY <1>1, <1>2
<1>4. Head(queue) = queue[1] /\ 1 \in 1..Len(queue) /\ Head(queue) \in Jobs
  BY <1>1, <1>2
<1>5. MaxSize > 0 => Len(queue') <= MaxSize
  BY <1>1, <1>2 DEF TypeOK
<1>6. \A i, k \in 1..Len(queue') : queue'[i] = queue'[k] => i = k
  <2> SUFFICES ASSUME NEW i \in 1..Len(queue'), NEW k \in 1..Len(queue'), queue'[i] = queue'[k]
               PROVE  i = k
    OBVIOUS
  <2>1. i + 1 = k + 1
    BY <1>3
  <2> QED
    BY <2>1
<1>7. \A i \in 1..Len(queue') : Queued(queue'[i]) /\ queue'[i] # Head(queue)
  <2> SUFFICES ASSUME NEW i \in 1..Len(queue')
               PROVE  Queued(queue'[i]) /\ queue'[i] # Head(queue)
    OBVIOUS
  <2>1. i + 1 # 1
    OBVIOUS
  <2> QED
    BY <1>3, <1>4, <2>1 DEF Queued
<1>8. Queued(Head(queue))
  BY <1>4 DEF Queued
<1> QED
  BY <1>2, <1>4, <1>5, <1>6, <1>7, <1>8

-----------------------------------------------------------------------------
(* The owner of a job takes the version of its row.                        *)
LEMMA FromRecordInv ==
    ASSUME IInv, NEW j \in Jobs, FromRecord(j)
    PROVE  IInv'
<1> DEFINE r == [act[j] EXCEPT !.pc = "idle", !.snap = None, !.res = "-"]
<1>1. j \in Actors /\ IdOf[j] \in Ids /\ "idle" \in Pcs
  BY ConstantsAssumption DEF Actors, Pcs, OwnerPcs
<1>2. /\ act[j].pc = "from_record" /\ act[j] \in Actor /\ Locals(j, act[j])
      /\ act' = [act EXCEPT ![j] = r]
      /\ version' = [version EXCEPT ![j] = rows[IdOf[j]].version]
      /\ UNCHANGED <<fsm, cancelEvent, rows, queue, stop, faults, runs>>
  BY <1>1, Records DEF FromRecord, At, Jump, Goto, IInv, TokenInv, LocalsOK
<1>3. r \in Actor /\ r.pc = "idle" /\ r.job = act[j].job /\ r.prev = act[j].prev
  BY <1>1, <1>2 DEF Actor
<1> HIDE DEF r
<1>4. rows[IdOf[j]].version \in Nat
  BY <1>1 DEF IInv, TypeOK, Row
<1>5. TypeOK'
  BY <1>1, <1>2, <1>3, <1>4 DEF IInv, TypeOK
<1>6. Locals(j, r)
  BY <1>2, <1>3, ConstantsAssumption DEF Locals, OwnerLocals, SavePcs
<1> QED
  BY <1>1, <1>2, <1>3, <1>5, <1>6, ConstantsAssumption, LocalFrame

(* scheduled() is called, and keeps the state it found as prev_state.      *)
LEMMA ScheduledInv ==
    ASSUME IInv, NEW j \in Jobs, Scheduled(j)
    PROVE  IInv'
<1> DEFINE r == [act[j] EXCEPT !.pc = "init", !.prev = fsm[j]]
<1>1. j \in Actors /\ "init" \in Pcs /\ fsm[j] \in Status
  BY DEF Actors, Pcs, OwnerPcs, IInv, TypeOK
<1>2. /\ act[j].pc = "idle" /\ act[j] \in Actor /\ Locals(j, act[j])
      /\ act' = [act EXCEPT ![j] = r] /\ UNCHANGED shared
  BY <1>1, Records DEF Scheduled, At, Goto, IInv, TokenInv, LocalsOK
<1>3. r \in Actor /\ r.pc = "init" /\ r.job = act[j].job /\ r.prev = fsm[j]
  BY <1>1, <1>2 DEF Actor
<1> HIDE DEF r
<1>4. act[j].prev = None /\ act[j].job = j
  BY <1>2 DEF Locals, OwnerLocals, SavePcs
<1>5. fsm[j] # "Unknown" => fsm[j] \notin Early
  BY <1>4 DEF IInv, TokenInv, AcceptedIsLate, Fresh, None
<1>6. Locals(j, r)
  BY <1>1, <1>3, <1>4, <1>5, ConstantsAssumption DEF Locals, OwnerLocals, Early
<1>7. /\ Fresh(fsm[j], r) => Fresh(fsm[j], act[j])
      /\ ~Fresh(fsm[j], r) => fsm[j] \notin Early
  BY <1>1, <1>3, <1>4, <1>5 DEF Fresh, Status, NonTerminal, Terminal, None
<1>8. TypeOK'
  BY <1>1, <1>2, <1>3, TypeFrame DEF IInv
<1> QED
  BY <1>1, <1>2, <1>3, <1>6, <1>7, <1>8, ConstantsAssumption, Frame DEF shared

(* The channel accepts a job: the one step that takes its freshness.       *)
LEMMA SendInv ==
    ASSUME IInv, NEW j \in Jobs, Send(j)
    PROVE  IInv'
<1>1. j \in Actors
  BY DEF Actors
<1>2. /\ act[j].pc = "send" /\ act[j] \in Actor /\ Locals(j, act[j])
      /\ UNCHANGED <<fsm, version, cancelEvent, rows, stop, faults, runs>>
  BY <1>1, Records DEF Send, At, IInv, TokenInv, LocalsOK
<1>3. act[j].prev = "Unknown" /\ act[j].job = j
  BY <1>2 DEF Locals, OwnerLocals, SavePcs
<1>4. CASE queue' = queue /\ Jump(j, "rollback")
  <2> DEFINE r == [act[j] EXCEPT !.pc = "rollback", !.snap = None, !.res = "-"]
  <2>1. act' = [act EXCEPT ![j] = r] /\ UNCHANGED shared
    BY <1>2, <1>4 DEF Jump, Goto, shared
  <2>2. "rollback" \in Pcs
    BY DEF Pcs, OwnerPcs
  <2>3. r \in Actor /\ r.pc = "rollback" /\ r.job = j /\ r.prev = act[j].prev
    BY <1>2, <1>3, <2>2 DEF Actor
  <2> HIDE DEF r
  <2>4. Locals(j, r)
    BY <1>3, <2>3, ConstantsAssumption DEF Locals, OwnerLocals, Status, NonTerminal
  <2>5. TypeOK'
    BY <1>1, <2>1, <2>3, TypeFrame DEF IInv
  <2> QED
    BY <1>1, <2>1, <2>3, <2>4, <2>5, ConstantsAssumption, LocalFrame DEF shared
<1>5. CASE /\ SendResult = "ok"
           /\ queue' = Append(queue, j)
           /\ Goto(j, [act[j] EXCEPT !.pc = "save", !.ret = "sched_saved", !.prev = None, !.n = 1])
  <2> DEFINE r == [act[j] EXCEPT !.pc = "save", !.ret = "sched_saved", !.prev = None, !.n = 1]
  <2>1. act' = [act EXCEPT ![j] = r]
    BY <1>5 DEF Goto
  <2>2. "save" \in Pcs /\ "sched_saved" \in Pcs
    BY DEF Pcs, SavePcs, OwnerPcs
  <2>3. r \in Actor /\ r.pc = "save" /\ r.ret = "sched_saved" /\ r.job = j /\ r.prev = None
    BY <1>2, <1>3, <2>2 DEF Actor
  <2> HIDE DEF r
  <2>4. act'[j] = r /\ \A b \in Actors : b # j => act'[b] = act[b]
    BY <1>1, <2>1 DEF IInv, TypeOK
  <2>5. ~Queued(j) /\ runs[j] = 0 /\ (\A w \in Workers : act[w].job # j) /\ fsm[j] \notin Early
    BY <1>2, <1>3 DEF IInv, TokenInv, FreshIsUntouched, SendIsLate, Fresh
  <2>6. /\ queue' \in Seq(Jobs)
        /\ MaxSize > 0 => Len(queue') <= MaxSize
        /\ \A i, k \in 1..Len(queue') : queue'[i] = queue'[k] => i = k
        /\ \A x : (\E i \in 1..Len(queue') : queue'[i] = x) => Queued(x) \/ x = j
    BY <1>5, <2>5, SendQueue DEF IInv, TokenInv, OnePlace
  <2>7. TypeOK'
    BY <1>1, <1>2, <2>1, <2>3, <2>6 DEF IInv, TypeOK
  <2>8. Locals(j, r)
    BY <2>3, ConstantsAssumption DEF Locals, OwnerLocals, SavePcs
  <2>9. LocalsOK'
    BY <2>4, <2>8 DEF IInv, TokenInv, LocalsOK
  <2>10. ~Fresh(fsm[j], r)
    BY <2>3, <2>5 DEF Fresh, Early, None
  <2>11. \A w \in Workers : act'[w] = act[w]
    BY <2>4, ConstantsAssumption DEF Actors
  <2>12. \A k \in Jobs : k # j => act'[k] = act[k]
    BY <2>4 DEF Actors
  <2>13. FreshIsUntouched'
    <3> SUFFICES ASSUME NEW k \in Jobs, Fresh(fsm'[k], act'[k])
                 PROVE  ~Queued(k)' /\ runs'[k] = 0 /\ \A w \in Workers : act'[w].job # k
      BY DEF FreshIsUntouched
    <3>1. k # j /\ Fresh(fsm[k], act[k])
      BY <1>2, <2>4, <2>10, <2>12
    <3>2. ~Queued(k) /\ runs[k] = 0 /\ \A w \in Workers : act[w].job # k
      BY <3>1 DEF IInv, TokenInv, FreshIsUntouched
    <3>3. ~Queued(k)'
      BY <2>6, <3>1, <3>2 DEF Queued
    <3> QED
      BY <1>2, <2>11, <3>2, <3>3
  <2>14. AcceptedIsLate' /\ SendIsLate'
    BY <1>2, <2>3, <2>4, <2>5, <2>12 DEF IInv, TokenInv, AcceptedIsLate, SendIsLate
  <2>15. OnePlace'
    <3>1. \A w \in Workers : ~\E i \in 1..Len(queue') : queue'[i] = act'[w].job
      BY <2>5, <2>6, <2>11 DEF IInv, TokenInv, OnePlace
    <3>2. \A v, w \in Workers : act'[v].job = act'[w].job /\ act'[v].job \in Jobs => v = w
      BY <2>11 DEF IInv, TokenInv, OnePlace
    <3> QED
      BY <2>6, <3>1, <3>2 DEF OnePlace, Queued
  <2>16. QueuedNotRun'
    BY <1>2, <2>5, <2>6 DEF IInv, TokenInv, QueuedNotRun, Queued
  <2>17. HeldNotRun' /\ RunsAtMostOnce'
    BY <1>2, <2>11 DEF IInv, TokenInv, HeldNotRun, RunsAtMostOnce
  <2> QED
    BY <2>7, <2>9, <2>13, <2>14, <2>15, <2>16, <2>17 DEF IInv, TokenInv
<1> QED
  BY <1>4, <1>5 DEF Send

(* An attempt to persist Scheduled ended.                                  *)
LEMMA SchedSavedInv ==
    ASSUME IInv, NEW j \in Jobs, SchedSaved(j)
    PROVE  IInv'
<1>1. j \in Actors
  BY DEF Actors
<1>2. act[j].pc = "sched_saved" /\ act[j] \in Actor /\ Locals(j, act[j]) /\ UNCHANGED shared
  BY <1>1, Records DEF SchedSaved, At, IInv, TokenInv, LocalsOK
<1>3. act[j].prev = None /\ act[j].job = j
  BY <1>2 DEF Locals, OwnerLocals, SavePcs
<1>4. CASE Jump(j, "return")
  <2>1. act' = [act EXCEPT ![j] = AtRest(j)]
    BY <1>4 DEF Jump, Goto
  <2>2. TypeOK'
    BY <1>1, <1>2, <2>1, Records, TypeFrame DEF IInv
  <2> QED
    BY <1>1, <1>2, <1>3, <2>1, <2>2, ReturnInv DEF shared
<1>5. CASE Goto(j, [act[j] EXCEPT !.pc = "save", !.ret = "sched_saved", !.res = "-", !.n = @ + 1])
  <2> DEFINE r == [act[j] EXCEPT !.pc = "save", !.ret = "sched_saved", !.res = "-", !.n = @ + 1]
  <2>1. act' = [act EXCEPT ![j] = r]
    BY <1>5 DEF Goto
  <2>2. "save" \in Pcs /\ "sched_saved" \in Pcs
    BY DEF Pcs, SavePcs, OwnerPcs
  <2>3. r \in Actor /\ r.pc = "save" /\ r.ret = "sched_saved" /\ r.job = j /\ r.prev = None
    <3>1. act[j].n + 1 \in Nat
      BY <1>2 DEF Actor
    <3> QED
      BY <1>2, <1>3, <2>2, <3>1 DEF Actor
  <2> HIDE DEF r
  <2>4. Locals(j, r)
    BY <2>3, ConstantsAssumption DEF Locals, OwnerLocals, SavePcs
  <2>5. TypeOK'
    BY <1>1, <1>2, <2>1, <2>3, TypeFrame DEF IInv
  <2> QED
    BY <1>1, <1>2, <1>3, <2>1, <2>3, <2>4, <2>5, ConstantsAssumption, LocalFrame DEF shared
<1> QED
  BY <1>4, <1>5 DEF SchedSaved

(* dispatch() rolls the FSM back: an instance that was accepted before     *)
(* does not become Unknown again.                                          *)
LEMMA RollbackInv ==
    ASSUME IInv, NEW j \in Jobs, Rollback(j)
    PROVE  IInv'
<1> DEFINE r == AtRest(j)
<1>1. j \in Actors
  BY DEF Actors
<1>2. /\ act[j].pc = "rollback" /\ Locals(j, act[j])
      /\ act' = [act EXCEPT ![j] = r] /\ fsm' = [fsm EXCEPT ![j] = act[j].prev]
      /\ UNCHANGED <<version, cancelEvent, rows, queue, stop, faults, runs>>
  BY <1>1 DEF Rollback, At, Jump, Goto, IInv, TokenInv, LocalsOK
<1>3. act[j].prev \in Status \ {"Initializing"}
  BY <1>2 DEF Locals, OwnerLocals, SavePcs
<1>4. r \in Actor /\ r.job = j /\ r.pc = "idle" /\ r.prev = None
  BY <1>1, Records DEF IInv, AtRest, Blank
<1> HIDE DEF r
<1>5. Locals(j, r)
  BY <1>4, ConstantsAssumption DEF Locals, OwnerLocals
<1>6. TypeOK'
  BY <1>1, <1>2, <1>3, <1>4 DEF IInv, TypeOK
<1>7. fsm'[j] = act[j].prev /\ \A k \in Jobs : k # j => fsm'[k] = fsm[k]
  BY <1>2 DEF IInv, TypeOK
<1>8. /\ Fresh(fsm'[j], r) => Fresh(fsm[j], act[j])
      /\ ~Fresh(fsm'[j], r) => fsm'[j] \notin Early
  BY <1>3, <1>4, <1>7 DEF Fresh, Early, None
<1> QED
  BY <1>1, <1>2, <1>4, <1>5, <1>6, <1>7, <1>8, ConstantsAssumption, Frame

-----------------------------------------------------------------------------
(* A canceller calls cancel(), leaves it, or calls save() again.           *)
LEMMA CancelInv ==
    ASSUME IInv, NEW c \in Cancellers, NEW j \in Jobs, Cancel(c, j)
    PROVE  IInv'
<1> DEFINE r == Blank("cancel", j)
<1>1. c \in Actors /\ c \notin Jobs /\ c \notin Workers /\ "cancel" \in Pcs
  BY ConstantsAssumption DEF Actors, Pcs, CancellerPcs
<1>2. /\ act' = [act EXCEPT ![c] = r] /\ cancelEvent' = [cancelEvent EXCEPT ![j] = TRUE]
      /\ UNCHANGED <<fsm, version, rows, queue, stop, faults, runs>>
  BY DEF Cancel, Goto
<1>3. r \in Actor /\ r.pc = "cancel" /\ r.job = j
  BY <1>1, Records DEF IInv, Blank
<1> HIDE DEF r
<1>4. Locals(c, r)
  BY <1>1, <1>3 DEF Locals, CancellerLocals
<1>5. TypeOK'
  BY <1>1, <1>2, <1>3 DEF IInv, TypeOK
<1> QED
  BY <1>1, <1>2, <1>3, <1>4, <1>5, LocalFrame

LEMMA SaveAgainInv ==
    ASSUME IInv, NEW c \in Cancellers, NEW j \in Jobs, SaveAgain(c, j)
    PROVE  IInv'
<1>1. c \in Actors /\ c \notin Jobs /\ c \notin Workers /\ "save" \in Pcs /\ "cancel_saved" \in Pcs
  BY ConstantsAssumption DEF Actors, Pcs, CancellerPcs, SavePcs
<1>2. PICK b \in Actor : b = Blank("save", j)
  BY <1>1, Records DEF IInv
<1>3. PICK r : r = [b EXCEPT !.ret = "cancel_saved"]
  OBVIOUS
<1>4. r \in Actor /\ r.ret = "cancel_saved"
  BY <1>1, <1>3 DEF Actor
<1>5. b.pc = "save" /\ b.job = j
  BY <1>2 DEF Blank
<1>6. r.pc = "save" /\ r.job = j
  BY <1>3, <1>5 DEF Actor
<1>7. act' = [act EXCEPT ![c] = r] /\ UNCHANGED shared
  BY <1>2, <1>3 DEF SaveAgain, Goto
<1>8. Locals(c, r)
  BY <1>1, <1>4, <1>6 DEF Locals, CancellerLocals, SavePcs
<1>9. TypeOK'
  BY <1>1, <1>4, <1>7, TypeFrame DEF IInv
<1> QED
  BY <1>1, <1>4, <1>6, <1>7, <1>8, <1>9, LocalFrame DEF shared

LEMMA CancelSavedInv ==
    ASSUME IInv, NEW c \in Cancellers, CancelSaved(c)
    PROVE  IInv'
<1>1. c \in Actors /\ c \notin Jobs /\ c \notin Workers
  BY ConstantsAssumption DEF Actors
<1>2. act[c].pc = "cancel_saved" /\ act[c] \in Actor /\ Locals(c, act[c]) /\ UNCHANGED shared
  BY <1>1, Records DEF CancelSaved, Step, At, IInv, TokenInv, LocalsOK
<1>3. act' = [act EXCEPT ![c] = AtRest(c)]
  BY DEF CancelSaved, Step, Jump, Goto
<1>4. TypeOK'
  BY <1>1, <1>2, <1>3, Records, TypeFrame DEF IInv
<1> QED
  BY <1>1, <1>2, <1>3, <1>4, ReturnInv DEF shared

-----------------------------------------------------------------------------
(* Workers.  What holds of a worker with a job in hand.                    *)
LEMMA WorkerFacts ==
    ASSUME IInv, NEW w \in Workers
    PROVE  /\ w \in Actors /\ w \notin Jobs /\ w \notin Cancellers
           /\ act[w] \in Actor /\ WorkerLocals(act[w])
           /\ act[w].pc \notin {"receive", "raised", "returned"} => act[w].job \in Jobs
           /\ act[w].job \in Jobs =>
                ~Queued(act[w].job) /\ ~Fresh(fsm[act[w].job], act[act[w].job])
           /\ NotStarted(act[w]) => act[w].job \in Jobs /\ runs[act[w].job] = 0
<1>1. w \in Actors /\ w \notin Jobs /\ w \notin Cancellers
  BY ConstantsAssumption DEF Actors
<1>2. act[w] \in Actor /\ WorkerLocals(act[w])
  BY <1>1, Records DEF IInv, TokenInv, LocalsOK, Locals
<1>3. act[w].pc \notin {"receive", "raised", "returned"} => act[w].job \in Jobs
  BY <1>2 DEF WorkerLocals
<1>4. act[w].job \in Jobs => ~Queued(act[w].job) /\ ~Fresh(fsm[act[w].job], act[act[w].job])
  BY DEF IInv, TokenInv, OnePlace, FreshIsUntouched
<1>5. NotStarted(act[w]) => act[w].job \in Jobs /\ runs[act[w].job] = 0
  BY <1>3 DEF IInv, TokenInv, HeldNotRun, NotStarted, Taken, BeforeRun, SavePcs
<1> QED
  BY <1>1, <1>2, <1>3, <1>4, <1>5

(* A worker goes to r with the job in its hand, and moves no job.          *)
LEMMA WorkerFrame ==
    ASSUME IInv, NEW w \in Workers, NEW r \in Actor,
           act' = [act EXCEPT ![w] = r],
           UNCHANGED <<version, cancelEvent, rows, queue, stop, faults, runs>>,
           r.job = act[w].job, r.job \in Jobs,
           Taken(r) \/ BeforeRun(r) \/ AfterRun(r),
           r.pc \in {"record", "put"} => r.snap \in Status,
           NotStarted(r) => NotStarted(act[w]),
           \/ fsm' = fsm
           \/ \E s \in Status \ Early : fsm' = [fsm EXCEPT ![act[w].job] = s]
    PROVE  IInv'
<1>1. w \in Actors /\ w \notin Jobs /\ w \notin Cancellers
  BY WorkerFacts
<1>2. TypeOK'
  <2>1. fsm' \in [Jobs -> Status]
    BY DEF IInv, TypeOK
  <2>2. act' \in [Actors -> Actor]
    BY <1>1 DEF IInv, TypeOK
  <2> QED
    BY <2>1, <2>2 DEF IInv, TypeOK
<1>3. Locals(w, r)
  BY <1>1 DEF Locals, WorkerLocals
<1>4. \A j \in Jobs : fsm'[j] = fsm[j] \/ fsm'[j] \notin Early
  BY DEF IInv, TypeOK
<1> QED
  BY <1>1, <1>2, <1>3, <1>4, LocalFrame

(* A worker that is done with its job lets go of it.                       *)
LEMMA WorkerReturns ==
    ASSUME IInv, NEW w \in Workers, Jump(w, "return"),
           UNCHANGED <<version, cancelEvent, rows, queue, stop, faults, runs>>,
           \/ fsm' = fsm
           \/ \E s \in Status \ Early : fsm' = [fsm EXCEPT ![act[w].job] = s]
    PROVE  IInv'
<1>1. act' = [act EXCEPT ![w] = AtRest(w)] /\ w \in Actors /\ w \notin Jobs
  BY WorkerFacts DEF Jump, Goto
<1>2. fsm' \in [Jobs -> Status] /\ \A j \in Jobs : fsm'[j] = fsm[j] \/ fsm'[j] \notin Early
  BY DEF IInv, TypeOK
<1>3. act' \in [Actors -> Actor]
  BY <1>1, Records DEF IInv, TypeOK
<1>4. TypeOK'
  BY <1>2, <1>3 DEF IInv, TypeOK
<1> QED
  BY <1>1, <1>2, <1>4, ReturnInv

(* A worker that holds a job and is before RUN, by its place.              *)
LEMMA AtBeforeRun ==
    ASSUME IInv, NEW w \in Workers,
           act[w].pc \in {"heal", "healed", "reheal", "run", "run_saved", "skipped", "follow",
                          "fail_or_restore", "force_failed", "failed_saved", "restore_check",
                          "restore", "requeue"}
    PROVE  BeforeRun(act[w]) /\ act[w].job \in Jobs /\ NotStarted(act[w])
  BY WorkerFacts DEF WorkerLocals, Taken, AfterRun, SavePcs, NotStarted

(* The steps of a worker that only decide where to go on.                  *)
LEMMA DecisionInv ==
    ASSUME IInv, NEW w \in Workers,
           \/ Process(w) \/ Healed(w) \/ Reheal(w) \/ WorkflowReturns(w) \/ WorkflowRaises(w)
           \/ Failed(w) \/ Finish(w) \/ FailOrRestore(w) \/ FailedSaved(w) \/ RestoreCheck(w)
    PROVE  IInv'
<1>1. PICK pc \in WorkerPcs, next \in WorkerPcs \cup {"return"} :
        /\ Step(w, pc, next)
        /\ \/ pc = "process" /\ next \in {"begin", "ensure"}
           \/ /\ pc \in {"healed", "reheal", "fail_or_restore", "failed_saved", "restore_check"}
              /\ next \in {"run", "reheal", "fail_or_restore", "force_failed", "restore_check",
                           "restore", "ensure", "return"}
           \/ pc = "running" /\ next \in {"workflows", "failed"}
           \/ pc = "failed" /\ next \in {"ensure", "fail"}
           \/ pc = "finish" /\ next \in {"ensure", "complete"}
  BY DEF Process, Healed, Reheal, WorkflowReturns, WorkflowRaises, Failed, Finish, FailOrRestore,
     FailedSaved, RestoreCheck, WorkerPcs
<1>2. act[w].pc = pc /\ act[w].job \in Jobs
  BY <1>1, WorkerFacts DEF Step, At
<1>3. CASE next = "return"
  BY <1>1, <1>3, WorkerReturns DEF Step, shared
<1>4. CASE next # "return"
  BY <1>1, <1>2, <1>4, AtBeforeRun, WorkerGoesOn
<1> QED
  BY <1>3, <1>4

(* _process keeps the state it found as prev_state: not an early one.      *)
LEMMA BeginInv ==
    ASSUME IInv, NEW w \in Workers, Begin(w)
    PROVE  IInv'
<1> DEFINE r == [act[w] EXCEPT !.pc = "heal", !.prev = fsm[J(w)]]
<1>1. act[w].pc = "begin" /\ act' = [act EXCEPT ![w] = r] /\ UNCHANGED shared
  BY DEF Begin, At, Goto
<1>2. J(w) = act[w].job /\ J(w) \in Jobs /\ act[w] \in Actor
  BY <1>1, WorkerFacts DEF J
<1>3. fsm[J(w)] \in Status \ Early
  BY <1>2, WorkerFacts DEF IInv, TypeOK, TokenInv, AcceptedIsLate
<1>4. "heal" \in Pcs
  BY DEF Pcs, WorkerPcs
<1>5. r \in Actor /\ r.pc = "heal" /\ r.job = act[w].job /\ r.prev = fsm[J(w)]
  BY <1>2, <1>3, <1>4 DEF Actor
<1> HIDE DEF r
<1>6. BeforeRun(r) /\ NotStarted(act[w])
  BY <1>1, <1>3, <1>5 DEF BeforeRun, NotStarted, Taken
<1> QED
  BY <1>1, <1>2, <1>5, <1>6, WorkerFrame DEF shared

(* A worker calls save(), with the FSM as it is or forced to Failed.       *)
LEMMA WorkerCallsSave ==
    ASSUME IInv, NEW w \in Workers, NEW ret \in Pcs \cup {"return"}, Call(w, "save", ret),
           UNCHANGED <<version, cancelEvent, rows, queue, stop, faults, runs>>,
           fsm' = fsm \/ fsm' = [fsm EXCEPT ![act[w].job] = "Failed"],
           act[w].job \in Jobs,
           \/ BeforeRun(act[w]) /\ NotStarted(act[w]) /\ ret \in {"healed", "failed_saved"}
           \/ ret \in {"return", "redelivery_full", "redelivery_stopped"}
    PROVE  IInv'
<1> DEFINE r == [act[w] EXCEPT !.pc = "save", !.ret = ret]
<1>1. act' = [act EXCEPT ![w] = r]
  BY DEF Call, Goto
<1>2. "save" \in Pcs /\ act[w] \in Actor
  BY WorkerFacts DEF Pcs, SavePcs
<1>3. r \in Actor /\ r.pc = "save" /\ r.ret = ret /\ r.job = act[w].job /\ r.prev = act[w].prev
  BY <1>2 DEF Actor
<1> HIDE DEF r
<1>4. BeforeRun(r) \/ AfterRun(r)
  BY <1>3 DEF BeforeRun, AfterRun, SavePcs
<1>5. NotStarted(r) => NotStarted(act[w])
  BY <1>3 DEF NotStarted, Taken, BeforeRun, SavePcs
<1>6. "Failed" \in Status \ Early
  BY DEF Status, Terminal, Early
<1> QED
  BY <1>1, <1>3, <1>4, <1>5, <1>6, WorkerFrame

(* Healing, the check of a cancelled row, and the two forced Failed.       *)
LEMMA SaveCallsInv ==
    ASSUME IInv, NEW w \in Workers,
           Heal(w) \/ Ensure(w) \/ ForceFailed(w) \/ Undeliverable(w)
    PROVE  IInv'
<1>1. CASE Heal(w)
  <2>1. act[w].pc = "heal" /\ UNCHANGED shared
    BY <1>1 DEF Heal, At
  <2>2. BeforeRun(act[w]) /\ act[w].job \in Jobs /\ NotStarted(act[w])
    BY <2>1, AtBeforeRun
  <2>3. CASE Call(w, "save", "healed")
    <3>1. "healed" \in Pcs
      BY DEF Pcs, WorkerPcs
    <3> QED
      BY <2>1, <2>2, <2>3, <3>1, WorkerCallsSave DEF shared
  <2>4. CASE Jump(w, "run")
    <3>1. Step(w, "heal", "run") /\ "heal" \in WorkerPcs /\ "run" \in WorkerPcs
      BY <1>1, <2>1, <2>4 DEF Heal, Step, WorkerPcs
    <3> QED
      BY <2>2, <3>1, WorkerGoesOn
  <2> QED
    BY <1>1, <2>3, <2>4 DEF Heal
<1>2. CASE Ensure(w)
  <2>1. act[w].pc = "ensure" /\ UNCHANGED shared
    BY <1>2 DEF Ensure, At
  <2>2. act[w].job \in Jobs
    BY <2>1, WorkerFacts
  <2>3. CASE Jump(w, "return")
    BY <2>1, <2>3, WorkerReturns DEF shared
  <2>4. CASE Call(w, "save", "return")
    BY <2>1, <2>2, <2>4, WorkerCallsSave DEF shared
  <2> QED
    BY <1>2, <2>3, <2>4 DEF Ensure
<1>3. CASE ForceFailed(w)
  <2>1. /\ act[w].pc = "force_failed" /\ Call(w, "save", "failed_saved")
        /\ fsm' = [fsm EXCEPT ![act[w].job] = "Failed"]
        /\ UNCHANGED <<version, cancelEvent, rows, queue, stop, faults, runs>>
    BY <1>3 DEF ForceFailed, At, J
  <2>2. BeforeRun(act[w]) /\ act[w].job \in Jobs /\ NotStarted(act[w])
    BY <2>1, AtBeforeRun
  <2>3. "failed_saved" \in Pcs
    BY DEF Pcs, WorkerPcs
  <2> QED
    BY <2>1, <2>2, <2>3, WorkerCallsSave
<1>4. CASE Undeliverable(w)
  <2>1. /\ act[w].pc = "undeliverable" /\ Call(w, "save", act[w].ret)
        /\ fsm' = [fsm EXCEPT ![act[w].job] = "Failed"]
        /\ UNCHANGED <<version, cancelEvent, rows, queue, stop, faults, runs>>
    BY <1>4 DEF Undeliverable, At, J
  <2>2. act[w].job \in Jobs /\ act[w].ret \in {"redelivery_full", "redelivery_stopped"}
    BY <2>1, WorkerFacts DEF WorkerLocals, Taken, BeforeRun, AfterRun, SavePcs
  <2>3. act[w].ret \in Pcs
    BY <2>2 DEF Pcs, WorkerPcs
  <2> QED
    BY <2>1, <2>2, <2>3, WorkerCallsSave
<1> QED
  BY <1>1, <1>2, <1>3, <1>4

(* The persist of RUN ended: only a saved one leads to the workflows.      *)
LEMMA RunSavedInv ==
    ASSUME IInv, NEW w \in Workers, RunSaved(w)
    PROVE  IInv'
<1>1. act[w].pc = "run_saved" /\ UNCHANGED shared /\ act[w] \in Actor
  BY WorkerFacts DEF RunSaved, At
<1>2. BeforeRun(act[w]) /\ act[w].job \in Jobs /\ NotStarted(act[w])
  BY <1>1, AtBeforeRun
<1>3. CASE Goto(w, [act[w] EXCEPT !.pc = "workflows", !.prev = None, !.res = "-"])
  <2> DEFINE r == [act[w] EXCEPT !.pc = "workflows", !.prev = None, !.res = "-"]
  <2>1. act' = [act EXCEPT ![w] = r]
    BY <1>3 DEF Goto
  <2>2. "workflows" \in Pcs
    BY DEF Pcs, WorkerPcs
  <2>3. r \in Actor /\ r.pc = "workflows" /\ r.job = act[w].job
    BY <1>1, <2>2 DEF Actor
  <2> HIDE DEF r
  <2>4. AfterRun(r)
    BY <2>3 DEF AfterRun
  <2> QED
    BY <1>1, <1>2, <2>1, <2>3, <2>4, WorkerFrame DEF shared
<1>4. CASE Jump(w, "skipped") \/ Jump(w, "fail_or_restore")
  <2>1. Step(w, "run_saved", "skipped") \/ Step(w, "run_saved", "fail_or_restore")
    BY <1>1, <1>4 DEF RunSaved, Step
  <2>2. {"run_saved", "skipped", "fail_or_restore"} \subseteq WorkerPcs
    BY DEF WorkerPcs
  <2> QED
    BY <1>2, <2>1, <2>2, WorkerGoesOn
<1> QED
  BY <1>3, <1>4 DEF RunSaved

(* The row that won is read, and followed.                                 *)
LEMMA SkippedInv ==
    ASSUME IInv, NEW w \in Workers, Skipped(w)
    PROVE  IInv'
<1> DEFINE r == [act[w] EXCEPT !.pc = "follow", !.snap = RowOf(w).status]
<1>1. /\ act[w].pc = "skipped" /\ UNCHANGED shared /\ act[w] \in Actor
      /\ act' = [act EXCEPT ![w] = r]
  BY WorkerFacts DEF Skipped, At, Goto
<1>2. BeforeRun(act[w]) /\ act[w].job \in Jobs /\ NotStarted(act[w])
  BY <1>1, AtBeforeRun
<1>3. RowOf(w).status \in Status \cup {None} /\ "follow" \in Pcs
  BY <1>2, ConstantsAssumption DEF RowOf, J, IInv, TypeOK, Row, Pcs, WorkerPcs
<1>4. r \in Actor /\ r.pc = "follow" /\ r.job = act[w].job /\ r.prev = act[w].prev
  BY <1>1, <1>3 DEF Actor
<1> HIDE DEF r
<1>5. BeforeRun(r)
  BY <1>2, <1>4 DEF BeforeRun
<1> QED
  BY <1>1, <1>2, <1>4, <1>5, WorkerFrame DEF shared

LEMMA FollowInv ==
    ASSUME IInv, NEW w \in Workers, Follow(w)
    PROVE  IInv'
<1>1. /\ At(w, "follow") /\ act[w].pc = "follow" /\ J(w) = act[w].job
      /\ UNCHANGED <<version, cancelEvent, rows, queue, stop, faults, runs>>
  BY DEF Follow, At, J
<1>2. BeforeRun(act[w]) /\ act[w].job \in Jobs
  BY <1>1, AtBeforeRun
<1>3. CASE /\ fsm' = fsm
           /\ \E next \in {"ensure", "follow_cancel", "fail_or_restore"} : Jump(w, next)
  <2>1. PICK next \in {"ensure", "follow_cancel", "fail_or_restore"} : Step(w, "follow", next)
    BY <1>1, <1>3 DEF Step, shared
  <2>2. {"follow", "ensure", "follow_cancel", "fail_or_restore"} \subseteq WorkerPcs
    BY DEF WorkerPcs
  <2> QED
    BY <1>2, <2>1, <2>2, WorkerGoesOn
<1>4. CASE /\ act[w].snap \in {"InProgress", "Failed", "Completed"}
           /\ Jump(w, "return")
           /\ fsm' = [fsm EXCEPT ![J(w)] = act[w].snap]
  <2>1. act[w].snap \in Status \ Early
    BY <1>4 DEF Status, NonTerminal, Terminal, Early
  <2> QED
    BY <1>1, <1>4, <2>1, WorkerReturns
<1> QED
  BY <1>3, <1>4 DEF Follow

(* The workflows start: the one step that counts a run.                    *)
LEMMA WorkflowLoopInv ==
    ASSUME IInv, NEW w \in Workers, WorkflowLoop(w)
    PROVE  IInv'
<1>1. /\ At(w, "workflows") /\ act[w].pc = "workflows" /\ act[w] \in Actor /\ act[w].n \in Nat
      /\ UNCHANGED <<fsm, version, cancelEvent, rows, queue, stop, faults>>
  BY WorkerFacts DEF WorkflowLoop, At, Actor
<1>2. J(w) = act[w].job /\ J(w) \in Jobs /\ w \in Actors
  BY <1>1, WorkerFacts DEF J
<1>3. CASE runs' = runs /\ (Jump(w, "finish") \/ Jump(w, "ensure"))
  <2>1. Step(w, "workflows", "finish") \/ Step(w, "workflows", "ensure")
    BY <1>1, <1>3 DEF Step, shared
  <2>2. {"workflows", "finish", "ensure"} \subseteq WorkerPcs
    BY DEF WorkerPcs
  <2> QED
    BY <1>2, <2>1, <2>2, WorkerGoesOn
<1>4. CASE /\ Goto(w, [act[w] EXCEPT !.pc = "running", !.n = @ + 1])
           /\ runs' = IF act[w].n = 0 THEN [runs EXCEPT ![J(w)] = @ + 1] ELSE runs
  <2> DEFINE r == [act[w] EXCEPT !.pc = "running", !.n = @ + 1]
  <2>1. act' = [act EXCEPT ![w] = r]
    BY <1>4 DEF Goto
  <2>2. r \in Actor /\ r.pc = "running" /\ r.job = act[w].job /\ r.n > 0
    <3>1. "running" \in Pcs /\ act[w].n + 1 \in Nat /\ act[w].n + 1 > 0
      BY <1>1 DEF Pcs, WorkerPcs
    <3> QED
      BY <1>1, <3>1 DEF Actor
  <2> HIDE DEF r
  <2>3. AfterRun(r) /\ ~NotStarted(r)
    BY <2>2 DEF AfterRun, NotStarted, Taken, BeforeRun, SavePcs
  <2>4. CASE act[w].n # 0
    BY <1>1, <1>2, <1>4, <2>1, <2>2, <2>3, <2>4, WorkerFrame
  <2>5. CASE act[w].n = 0
    <3> DEFINE j == act[w].job
    <3>1. j \in Jobs /\ ~Queued(j) /\ ~Fresh(fsm[j], act[j]) /\ runs[j] = 0
      BY <1>1, <1>2, <2>5, WorkerFacts DEF NotStarted
    <3>2. runs'[j] = 1 /\ \A k \in Jobs : k # j => runs'[k] = runs[k]
      BY <1>2, <1>4, <2>5, <3>1 DEF IInv, TypeOK
    <3>3. runs' \in [Jobs -> Nat]
      BY <1>2, <1>4, <2>5 DEF IInv, TypeOK
    <3>4. act'[w] = r /\ \A b \in Actors : b # w => act'[b] = act[b]
      BY <1>2, <2>1 DEF IInv, TypeOK
    <3>5. TypeOK'
      BY <1>1, <1>2, <2>1, <2>2, <3>3 DEF IInv, TypeOK
    <3>6. (\A k \in Jobs : act'[k] = act[k]) /\ \A v \in Workers : act'[v].job = act[v].job
      BY <2>2, <3>4, ConstantsAssumption DEF Actors
    <3>7. LocalsOK'
      <4>1. Locals(w, r)
        BY <1>2, <2>2, <2>3, WorkerFacts DEF Locals, WorkerLocals
      <4> QED
        BY <3>4, <4>1 DEF IInv, TokenInv, LocalsOK
    <3>8. FreshIsUntouched'
      BY <1>1, <3>1, <3>2, <3>6 DEF IInv, TokenInv, FreshIsUntouched, Queued
    <3>9. AcceptedIsLate' /\ SendIsLate'
      BY <1>1, <3>6 DEF IInv, TokenInv, AcceptedIsLate, SendIsLate
    <3>10. OnePlace'
      BY <1>1, <3>6 DEF IInv, TokenInv, OnePlace, Queued
    <3>11. QueuedNotRun'
      BY <1>1, <3>1, <3>2 DEF IInv, TokenInv, QueuedNotRun, Queued
    <3>12. HeldNotRun'
      <4> SUFFICES ASSUME NEW v \in Workers, NotStarted(act'[v])
                   PROVE  runs'[act'[v].job] = 0
        BY DEF HeldNotRun
      <4>1. v # w /\ v \in Actors
        BY <2>3, <3>4 DEF Actors
      <4>2. NotStarted(act[v]) /\ act'[v] = act[v]
        BY <3>4, <4>1
      <4>3. act[v].job \in Jobs /\ runs[act[v].job] = 0
        BY <4>2, WorkerFacts
      <4>4. act[v].job # j
        BY <3>1, <4>1 DEF IInv, TokenInv, OnePlace
      <4> QED
        BY <3>2, <4>2, <4>3, <4>4
    <3>13. RunsAtMostOnce'
      BY <3>2 DEF IInv, TokenInv, RunsAtMostOnce
    <3> QED
      BY <3>5, <3>7, <3>8, <3>9, <3>10, <3>11, <3>12, <3>13 DEF IInv, TokenInv
  <2> QED
    BY <2>4, <2>5
<1> QED
  BY <1>3, <1>4 DEF WorkflowLoop

(* The worker restores the state it found.                                 *)
LEMMA RestoreInv ==
    ASSUME IInv, NEW w \in Workers, Restore(w)
    PROVE  IInv'
<1> DEFINE r == [act[w] EXCEPT !.pc = "requeue", !.snap = None, !.res = "-"]
<1>1. /\ act[w].pc = "restore" /\ act[w] \in Actor
      /\ act' = [act EXCEPT ![w] = r] /\ fsm' = [fsm EXCEPT ![act[w].job] = act[w].prev]
      /\ UNCHANGED <<version, cancelEvent, rows, queue, stop, faults, runs>>
  BY WorkerFacts DEF Restore, At, Jump, Goto, J
<1>2. BeforeRun(act[w]) /\ act[w].job \in Jobs /\ NotStarted(act[w])
  BY <1>1, AtBeforeRun
<1>3. "requeue" \in Pcs
  BY DEF Pcs, WorkerPcs
<1>4. r \in Actor /\ r.pc = "requeue" /\ r.job = act[w].job /\ r.prev = act[w].prev
  BY <1>1, <1>3 DEF Actor
<1> HIDE DEF r
<1>5. BeforeRun(r) /\ act[w].prev \in Status \ Early
  BY <1>2, <1>4 DEF BeforeRun
<1> QED
  BY <1>1, <1>2, <1>4, <1>5, WorkerFrame

-----------------------------------------------------------------------------
(* A job goes from the head of the queue into a worker's hand.             *)
LEMMA ReceiveInv ==
    ASSUME IInv, NEW w \in Workers, Receive(w)
    PROVE  IInv'
<1> DEFINE h == Head(queue)
           r == [act[w] EXCEPT !.pc = "process", !.job = h]
<1>1. /\ queue # <<>> /\ queue' = Tail(queue) /\ act' = [act EXCEPT ![w] = r]
      /\ UNCHANGED <<fsm, version, cancelEvent, rows, stop, faults, runs>>
  BY DEF Receive, Goto
<1>2. /\ queue' \in Seq(Jobs)
      /\ MaxSize > 0 => Len(queue') <= MaxSize
      /\ \A i, k \in 1..Len(queue') : queue'[i] = queue'[k] => i = k
      /\ \A x : (\E i \in 1..Len(queue') : queue'[i] = x) => Queued(x) /\ x # h
      /\ h \in Jobs /\ Queued(h)
  BY <1>1, ReceiveQueue DEF IInv, TokenInv, OnePlace
<1>3. w \in Actors /\ w \notin Jobs /\ w \notin Cancellers /\ act[w] \in Actor
  BY WorkerFacts
<1>4. r \in Actor /\ r.pc = "process" /\ r.job = h
  <2>1. "process" \in Pcs
    BY DEF Pcs, WorkerPcs
  <2> QED
    BY <1>2, <1>3, <2>1 DEF Actor
<1> HIDE DEF h, r
<1>5. act'[w] = r /\ \A b \in Actors : b # w => act'[b] = act[b]
  BY <1>1, <1>3 DEF IInv, TypeOK
<1>6. \A k \in Jobs : act'[k] = act[k]
  BY <1>3, <1>5 DEF Actors
<1>7. \A v \in Workers : v # w => act'[v] = act[v] /\ act[v].job # h
  BY <1>2, <1>5 DEF Actors, IInv, TokenInv, OnePlace
<1>8. runs[h] = 0 /\ ~Fresh(fsm[h], act[h])
  BY <1>2 DEF IInv, TokenInv, QueuedNotRun, FreshIsUntouched
<1>9. TypeOK'
  BY <1>1, <1>2, <1>3, <1>4 DEF IInv, TypeOK
<1>10. LocalsOK'
  <2>1. Locals(w, r)
    BY <1>2, <1>3, <1>4 DEF Locals, WorkerLocals, Taken
  <2> QED
    BY <1>5, <2>1 DEF IInv, TokenInv, LocalsOK
<1>11. FreshIsUntouched'
  <2> SUFFICES ASSUME NEW k \in Jobs, Fresh(fsm'[k], act'[k])
               PROVE  ~Queued(k)' /\ runs'[k] = 0 /\ \A v \in Workers : act'[v].job # k
    BY DEF FreshIsUntouched
  <2>1. k # h /\ Fresh(fsm[k], act[k])
    BY <1>1, <1>6, <1>8
  <2>2. ~Queued(k) /\ runs[k] = 0 /\ \A v \in Workers : act[v].job # k
    BY <2>1 DEF IInv, TokenInv, FreshIsUntouched
  <2>3. ~Queued(k)'
    BY <1>2, <2>2 DEF Queued
  <2>4. \A v \in Workers : act'[v].job # k
    BY <1>4, <1>5, <1>7, <2>1, <2>2
  <2> QED
    BY <1>1, <2>2, <2>3, <2>4
<1>12. AcceptedIsLate' /\ SendIsLate'
  BY <1>1, <1>6 DEF IInv, TokenInv, AcceptedIsLate, SendIsLate
<1>13. OnePlace'
  <2>1. \A v \in Workers : ~\E i \in 1..Len(queue') : queue'[i] = act'[v].job
    BY <1>2, <1>4, <1>5, <1>7 DEF IInv, TokenInv, OnePlace
  <2>2. \A u, v \in Workers : act'[u].job = act'[v].job /\ act'[u].job \in Jobs => u = v
    BY <1>4, <1>5, <1>7 DEF IInv, TokenInv, OnePlace
  <2> QED
    BY <1>2, <2>1, <2>2 DEF OnePlace, Queued
<1>14. QueuedNotRun' /\ RunsAtMostOnce'
  BY <1>1, <1>2 DEF IInv, TokenInv, QueuedNotRun, RunsAtMostOnce, Queued
<1>15. HeldNotRun'
  BY <1>1, <1>4, <1>5, <1>7, <1>8 DEF IInv, TokenInv, HeldNotRun
<1> QED
  BY <1>9, <1>10, <1>11, <1>12, <1>13, <1>14, <1>15 DEF IInv, TokenInv

(* And back, before its workflows started.                                 *)
LEMMA RequeueInv ==
    ASSUME IInv, NEW w \in Workers, Requeue(w)
    PROVE  IInv'
<1>1. /\ act[w].pc = "requeue" /\ act[w] \in Actor /\ w \in Actors /\ w \notin Jobs
      /\ w \notin Cancellers
      /\ UNCHANGED <<fsm, version, cancelEvent, rows, stop, faults, runs>>
  BY WorkerFacts DEF Requeue, At
<1> DEFINE j == act[w].job
<1>2. j \in Jobs /\ J(w) = j /\ ~Queued(j) /\ ~Fresh(fsm[j], act[j]) /\ runs[j] = 0
  BY <1>1, AtBeforeRun, WorkerFacts DEF J
<1>3. ASSUME NEW ret \in {"redelivery_full", "redelivery_stopped"},
             queue' = queue, Call(w, "undeliverable", ret)
      PROVE  IInv'
  <2> DEFINE r == [act[w] EXCEPT !.pc = "undeliverable", !.ret = ret]
  <2>1. act' = [act EXCEPT ![w] = r]
    BY <1>3 DEF Call, Goto
  <2>2. "undeliverable" \in Pcs /\ ret \in Pcs
    BY DEF Pcs, WorkerPcs
  <2>3. r \in Actor /\ r.pc = "undeliverable" /\ r.ret = ret /\ r.job = act[w].job
    BY <1>1, <2>2 DEF Actor
  <2> HIDE DEF r
  <2>4. AfterRun(r) /\ ~NotStarted(r)
    BY <2>3 DEF AfterRun, NotStarted, Taken, BeforeRun, SavePcs
  <2> QED
    BY <1>1, <1>2, <1>3, <2>1, <2>3, <2>4, WorkerFrame
<1>4. CASE SendResult = "ok" /\ queue' = Append(queue, j) /\ Goto(w, Blank("raised", NoJob))
  <2> DEFINE r == Blank("raised", NoJob)
  <2>1. act' = [act EXCEPT ![w] = r]
    BY <1>4 DEF Goto
  <2>2. r \in Actor /\ r.pc = "raised" /\ r.job = NoJob
    <3>1. "raised" \in Pcs
      BY DEF Pcs, WorkerPcs
    <3> QED
      BY <1>1, <3>1, Records DEF IInv, Blank
  <2> HIDE DEF r
  <2>3. /\ queue' \in Seq(Jobs)
        /\ MaxSize > 0 => Len(queue') <= MaxSize
        /\ \A i, k \in 1..Len(queue') : queue'[i] = queue'[k] => i = k
        /\ \A x : (\E i \in 1..Len(queue') : queue'[i] = x) => Queued(x) \/ x = j
    BY <1>2, <1>4, SendQueue DEF IInv, TokenInv, OnePlace
  <2> HIDE DEF j
  <2>4. act'[w] = r /\ \A b \in Actors : b # w => act'[b] = act[b]
    BY <1>1, <2>1 DEF IInv, TypeOK
  <2>5. \A k \in Jobs : act'[k] = act[k]
    BY <1>1, <2>4 DEF Actors
  <2>6. \A v \in Workers : v # w => act'[v] = act[v] /\ act[v].job # j
    BY <1>2, <2>4 DEF j, Actors, IInv, TokenInv, OnePlace
  <2>7. ~Queued(NoJob) /\ NoJob \notin Jobs
    BY ConstantsAssumption DEF IInv, TypeOK, Queued, Actors
  <2>8. TypeOK'
    BY <1>1, <2>1, <2>2, <2>3 DEF IInv, TypeOK
  <2>9. LocalsOK'
    <3>1. Locals(w, r)
      BY <1>1, <2>2 DEF Locals, WorkerLocals
    <3> QED
      BY <2>4, <3>1 DEF IInv, TokenInv, LocalsOK
  <2>10. FreshIsUntouched'
    <3> SUFFICES ASSUME NEW k \in Jobs, Fresh(fsm'[k], act'[k])
                 PROVE  ~Queued(k)' /\ runs'[k] = 0 /\ \A v \in Workers : act'[v].job # k
      BY DEF FreshIsUntouched
    <3>1. k # j /\ Fresh(fsm[k], act[k])
      BY <1>1, <1>2, <2>5
    <3>2. ~Queued(k) /\ runs[k] = 0 /\ \A v \in Workers : act[v].job # k
      BY <3>1 DEF IInv, TokenInv, FreshIsUntouched
    <3>3. ~Queued(k)'
      BY <2>3, <3>1, <3>2 DEF Queued
    <3>4. \A v \in Workers : act'[v].job # k
      BY <2>2, <2>4, <2>6, <2>7, <3>2
    <3> QED
      BY <1>1, <3>2, <3>3, <3>4
  <2>11. AcceptedIsLate' /\ SendIsLate'
    BY <1>1, <2>5 DEF IInv, TokenInv, AcceptedIsLate, SendIsLate
  <2>12. OnePlace'
    <3>1. \A v \in Workers : ~\E i \in 1..Len(queue') : queue'[i] = act'[v].job
      BY <1>2, <2>2, <2>3, <2>4, <2>6, <2>7 DEF IInv, TokenInv, OnePlace
    <3>2. \A u, v \in Workers : act'[u].job = act'[v].job /\ act'[u].job \in Jobs => u = v
      BY <2>2, <2>4, <2>6, <2>7 DEF IInv, TokenInv, OnePlace
    <3> QED
      BY <2>3, <3>1, <3>2 DEF OnePlace, Queued
  <2>13. QueuedNotRun' /\ RunsAtMostOnce'
    BY <1>1, <1>2, <2>3 DEF IInv, TokenInv, QueuedNotRun, RunsAtMostOnce, Queued
  <2>14. HeldNotRun'
    <3>1. ~NotStarted(r)
      BY <2>2 DEF NotStarted, Taken, BeforeRun, SavePcs
    <3> QED
      BY <1>1, <2>4, <2>6, <3>1 DEF IInv, TokenInv, HeldNotRun
  <2> QED
    BY <2>8, <2>9, <2>10, <2>11, <2>12, <2>13, <2>14 DEF IInv, TokenInv
<1> QED
  BY <1>2, <1>3, <1>4 DEF Requeue

(* run_forever leaves, raises, or starts again, with empty hands.          *)
LEMMA LoopInv ==
    ASSUME IInv, NEW w \in Workers, ReceiveNone(w) \/ Redelivery(w) \/ Restart(w)
    PROVE  IInv'
<1>1. w \in Actors /\ w \notin Jobs /\ w \notin Cancellers /\ UNCHANGED shared
  BY WorkerFacts DEF ReceiveNone, Redelivery, Restart
<1>2. PICK r \in Actor : /\ act' = [act EXCEPT ![w] = r]
                         /\ r.pc \in {"receive", "raised", "returned"} /\ r.job = NoJob
  <2>1. {"receive", "raised", "returned"} \subseteq Pcs
    BY DEF Pcs, WorkerPcs
  <2>2. \A pc \in {"receive", "raised", "returned"} :
          Blank(pc, NoJob) \in Actor /\ Blank(pc, NoJob).pc = pc /\ Blank(pc, NoJob).job = NoJob
    BY <2>1 DEF Actor, Blank
  <2> DEFINE kept == [Blank("receive", NoJob) EXCEPT !.redelivery = TRUE]
  <2>3. kept \in Actor /\ kept.pc = "receive" /\ kept.job = NoJob
    BY <2>1 DEF Actor, Blank
  <2>4. \/ \E pc \in {"receive", "raised", "returned"} :
             act' = [act EXCEPT ![w] = Blank(pc, NoJob)]
        \/ act' = [act EXCEPT ![w] = kept]
    BY Zenon DEF ReceiveNone, Redelivery, Restart, Goto
  <2> HIDE DEF kept
  <2> QED
    BY <2>2, <2>3, <2>4
<1>3. Locals(w, r) /\ ~NotStarted(r)
  BY <1>1, <1>2 DEF Locals, WorkerLocals, NotStarted, Taken, BeforeRun, SavePcs
<1>4. TypeOK'
  BY <1>1, <1>2, TypeFrame DEF IInv
<1> QED
  BY <1>1, <1>2, <1>3, <1>4, LocalFrame DEF shared

-----------------------------------------------------------------------------
(* Every step keeps the inductive invariant.                               *)
LEMMA NextInv == IInv /\ [Next]_vars => IInv'
<1> SUFFICES ASSUME IInv, [Next]_vars PROVE IInv'
  OBVIOUS
<1>1. ASSUME NEW a \in Actors, SharedStep(a) PROVE IInv'
  BY <1>1, ApplyLookupInv, ApplyCommitInv, SaveInv, StoreRaisesInv DEF SharedStep
<1>2. ASSUME NEW j \in Jobs, FromRecord(j) \/ Scheduled(j) \/ OwnerStep(j) PROVE IInv'
  BY <1>1, <1>2, FromRecordInv, ScheduledInv, SendInv, SchedSavedInv, RollbackInv
     DEF OwnerStep, Actors
<1>3. ASSUME NEW c \in Cancellers, (\E j \in Jobs : Cancel(c, j) \/ SaveAgain(c, j)) \/ CancellerStep(c) PROVE IInv'
  BY <1>1, <1>3, CancelInv, SaveAgainInv, CancelSavedInv DEF CancellerStep, Actors
<1>4. ASSUME NEW w \in Workers, WorkerStep(w) PROVE IInv'
  BY <1>1, <1>4, DecisionInv, BeginInv, SaveCallsInv, RunSavedInv, SkippedInv, FollowInv,
     WorkflowLoopInv, RestoreInv, ReceiveInv, RequeueInv, LoopInv
     DEF WorkerStep, Actors
<1>5. CASE RequestStop
  BY <1>5 DEF RequestStop, IInv, TypeOK, TokenInv, LocalsOK, FreshIsUntouched, AcceptedIsLate,
     SendIsLate, OnePlace, QueuedNotRun, HeldNotRun, RunsAtMostOnce, Queued
<1>6. CASE UNCHANGED vars
  BY <1>6 DEF vars, IInv, TypeOK, TokenInv, LocalsOK, FreshIsUntouched, AcceptedIsLate,
     SendIsLate, OnePlace, QueuedNotRun, HeldNotRun, RunsAtMostOnce, Queued
<1> QED
  BY <1>2, <1>3, <1>4, <1>5, <1>6 DEF Next

(* The invariant holds in every reachable state.                           *)
THEOREM Invariant == Spec => []IInv
  BY InitInv, NextInv, PTL DEF Spec

(* Every variable keeps its type and the channel never exceeds its         *)
(* capacity (Channel.send under the lock, worker.py's requeue).            *)
THEOREM TypeCorrect == Spec => []TypeOK
<1>1. IInv => TypeOK
  BY DEF IInv
<1> QED
  BY <1>1, Invariant, PTL

(* No retry, requeue, redelivery, cancel or repeated scheduled() makes a   *)
(* worker start the workflows of one Job instance a second time            *)
(* (Worker._process, Dispatcher.dispatch), in threads or one event loop,   *)
(* with any number of store errors.                                        *)
THEOREM RunsOnce == Spec => []RunsAtMostOnce
<1>1. IInv => RunsAtMostOnce
  BY DEF IInv, TokenInv
<1> QED
  BY <1>1, Invariant, PTL

-----------------------------------------------------------------------------
(* One event loop.  Only a is between two awaits; a step that changes the  *)
(* FSM, version and row of j alone; j between two calls.                   *)
Alone(a) == \A b \in Actors \ {a} : act[b].pc \in AwaitPoints

Touches(j) ==
    /\ \A k \in Jobs : k # j => fsm'[k] = fsm[k] /\ version'[k] = version[k]
    /\ \A id \in Ids : id # IdOf[j] => rows'[id] = rows[id]
    /\ faults' = 0 => faults = 0

Rests(j) == Settled(fsm[j], rows[IdOf[j]], version[j], faults)

Placed(a, j) == Place(a, act[a], fsm[j], rows[IdOf[j]], version[j], faults)

(* The initial state satisfies the invariant of the event loop.            *)
LEMMA InitCoop == Init => CoopInv
<1> SUFFICES ASSUME Init PROVE CoopInv
  OBVIOUS
<1> USE DEF Init
<1>1. \A a \in Actors : ~Busy(a) /\ act[a].pc \notin {"process", "running"}
  BY DEF Busy, AwaitPoints, Blank
<1>2. \A j \in Jobs : ~Queued(j)
  BY DEF Queued
<1>3. \A j \in Jobs : Settled(fsm[j], rows[IdOf[j]], version[j], faults)
  BY ConstantsAssumption DEF Settled, NoRow
<1>4. WaitingIsScheduled
  BY <1>1, <1>2 DEF WaitingIsScheduled, Actors
<1>5. Located /\ RowsAreOwned
  BY DEF Located, RowsAreOwned, NoRow
<1> QED
  BY <1>1, <1>3, <1>4, <1>5 DEF CoopInv, OneBusy, BusyIsPlaced, IdleIsSettled

(* The frame of a step of the event loop: actor a goes to r, and only the  *)
(* job j changes.                                                          *)
LEMMA CoopFrame ==
    ASSUME Cooperative, IInv, CoopInv, IInv',
           NEW a \in Actors, NEW j \in Jobs, NEW r \in Actor,
           act' = [act EXCEPT ![a] = r], Alone(a), Touches(j),
           \A k \in Jobs : k # j => (Queued(k)' <=> Queued(k)),
           Busy(a) => act[a].job = j,
           a \in Jobs => a = j,
           a \in Workers => act[a].job \in {j, NoJob} /\ r.job \in {j, NoJob},
           r.pc \in AwaitPoints => Rests(j)',
           r.pc \notin AwaitPoints => r.job = j /\ Placed(a, j)',
           Queued(j)' => fsm'[j] \in {"Scheduled", "Cancelled"},
           \A w \in Workers : w # a /\ act[w].job = j => fsm'[j] \in {fsm[j], "Cancelled"},
           a \in Workers =>
             /\ r.pc = "process" => r.job = j /\ fsm'[j] \in {"Scheduled", "Cancelled"}
             /\ r.pc = "running" => r.job = j /\ fsm'[j] \in {"InProgress", "Cancelled"},
           fsm'[j] \in {"Scheduled", "InProgress"} =>
             Queued(j)' \/ (\E w \in Workers : act'[w].job = j) \/ act'[j].prev = "Unknown"
    PROVE  CoopInv'
<1> USE ConstantsAssumption
<1>1. act'[a] = r /\ \A b \in Actors : b # a => act'[b] = act[b]
  BY DEF IInv, TypeOK
<1>2. \A b \in Actors : b # a => ~Busy(b) /\ ~Busy(b)'
  BY <1>1 DEF Alone, Busy
<1>3. Busy(a)' <=> r.pc \notin AwaitPoints
  BY <1>1 DEF Busy
<1>4. OneBusy'
  BY <1>2 DEF OneBusy
<1>5. BusyIsPlaced'
  BY <1>1, <1>2, <1>3 DEF BusyIsPlaced, Placed, J, RowOf
<1>6. \A k \in Jobs : k # j =>
        /\ fsm'[k] = fsm[k] /\ version'[k] = version[k]
        /\ rows'[IdOf[k]] = rows[IdOf[k]]
  BY DEF Touches, Cooperative
<1>7. IdleIsSettled'
  <2> SUFFICES ASSUME NEW k \in Jobs, \A b \in Actors : act'[b].job = k => ~Busy(b)'
               PROVE  Settled(fsm'[k], rows'[IdOf[k]], version'[k], faults')
    BY DEF IdleIsSettled, J
  <2>1. CASE k = j
    BY <1>1, <1>3, <2>1 DEF Rests
  <2>2. CASE k # j
    <3>1. \A b \in Actors : J(b) = k => ~Busy(b)
      BY <1>2, <2>2 DEF J
    <3>2. Settled(fsm[k], rows[IdOf[k]], version[k], faults)
      BY <3>1 DEF CoopInv, IdleIsSettled
    <3> QED
      BY <1>6, <2>2, <3>2 DEF Settled, Touches
  <2> QED
    BY <2>1, <2>2
<1>8. \A w \in Workers : w \in Actors /\ (w # a => act'[w] = act[w])
  BY <1>1 DEF Actors
<1>9. \A w \in Workers : act[w].pc \in {"process", "running"} => act[w].job \in Jobs
  BY WorkerFacts
<1>10. WaitingIsScheduled'
  <2>1. \A k \in Jobs : Queued(k)' => fsm'[k] \in {"Scheduled", "Cancelled"}
    BY <1>6 DEF CoopInv, WaitingIsScheduled
  <2>2. \A w \in Workers : act'[w].pc = "process" => fsm'[act'[w].job] \in {"Scheduled", "Cancelled"}
    BY <1>1, <1>6, <1>8, <1>9 DEF CoopInv, WaitingIsScheduled, J
  <2>3. \A w \in Workers : act'[w].pc = "running" => fsm'[act'[w].job] \in {"InProgress", "Cancelled"}
    BY <1>1, <1>6, <1>8, <1>9 DEF CoopInv, WaitingIsScheduled, J
  <2> QED
    BY <2>1, <2>2, <2>3 DEF WaitingIsScheduled, J
<1>11. Located'
  <2> SUFFICES ASSUME NEW k \in Jobs, fsm'[k] \in {"Scheduled", "InProgress"}
               PROVE  Queued(k)' \/ (\E w \in Workers : act'[w].job = k) \/ act'[k].prev = "Unknown"
    BY DEF Located, J
  <2>1. CASE k = j
    BY <2>1
  <2>2. CASE k # j
    <3>1. Queued(k) \/ (\E w \in Workers : act[w].job = k) \/ act[k].prev = "Unknown"
      BY <1>6, <2>2 DEF CoopInv, Located, J
    <3>2. act'[k] = act[k]
      BY <1>1, <2>2 DEF Actors
    <3>3. \A w \in Workers : act[w].job = k => act'[w] = act[w]
      BY <1>8, <2>2 DEF Actors
    <3> QED
      BY <2>2, <3>1, <3>2, <3>3
  <2> QED
    BY <2>1, <2>2
<1>12. RowsAreOwned'
  BY DEF CoopInv, RowsAreOwned, Touches
<1> QED
  BY <1>4, <1>5, <1>7, <1>10, <1>11, <1>12 DEF CoopInv

(* A step of worker w with its job j in hand, which may let go of it.      *)
LEMMA CoopWorker ==
    ASSUME Cooperative, IInv, CoopInv, IInv',
           NEW w \in Workers, NEW j \in Jobs, NEW r \in Actor,
           act' = [act EXCEPT ![w] = r], Alone(w), Touches(j), queue' = queue,
           act[w].job = j, r.job \in {j, NoJob},
           r.pc \in AwaitPoints => Rests(j)',
           r.pc \notin AwaitPoints =>
             r.job = j /\ WorkerPlace(r, fsm'[j], rows'[IdOf[j]], version'[j], faults'),
           r.pc # "process",
           r.pc = "running" => r.job = j /\ fsm'[j] \in {"InProgress", "Cancelled"},
           r.job = NoJob => fsm'[j] \notin {"Scheduled", "InProgress"}
    PROVE  CoopInv'
<1>1. w \in Actors /\ w \notin Jobs /\ w \notin Cancellers /\ ~Queued(j)
  BY WorkerFacts
<1>2. act'[w] = r
  BY <1>1 DEF IInv, TypeOK
<1>3. \A k \in Jobs : Queued(k)' <=> Queued(k)
  BY DEF Queued
<1>4. \A v \in Workers : v # w => act[v].job # j
  BY DEF IInv, TokenInv, OnePlace
<1>5. r.pc \notin AwaitPoints => r.job = j /\ Placed(w, j)'
  BY <1>1, <1>2 DEF Placed, Place
<1> QED
  BY <1>1, <1>2, <1>3, <1>4, <1>5, CoopFrame

(* A step of canceller c inside its cancel() of j.                         *)
LEMMA CoopCanceller ==
    ASSUME Cooperative, IInv, CoopInv, IInv',
           NEW c \in Cancellers, NEW j \in Jobs, NEW r \in Actor,
           act' = [act EXCEPT ![c] = r], Alone(c), Touches(j), queue' = queue,
           Busy(c) => act[c].job = j,
           r.pc \in AwaitPoints => Rests(j)',
           r.pc \notin AwaitPoints =>
             r.job = j /\ CancellerPlace(r, fsm'[j], rows'[IdOf[j]], version'[j], faults'),
           fsm'[j] \in {fsm[j], "Cancelled"}
    PROVE  CoopInv'
<1>1. c \in Actors /\ c \notin Jobs /\ c \notin Workers
  BY ConstantsAssumption DEF Actors
<1>2. act'[c] = r /\ (\A w \in Workers : act'[w] = act[w]) /\ act'[j] = act[j]
  BY <1>1 DEF IInv, TypeOK, Actors
<1>3. \A k \in Jobs : Queued(k)' <=> Queued(k)
  BY DEF Queued
<1>4. Queued(j) => fsm[j] \in {"Scheduled", "Cancelled"}
  BY DEF CoopInv, WaitingIsScheduled
<1>5. r.pc \notin AwaitPoints => r.job = j /\ Placed(c, j)'
  BY <1>1, <1>2 DEF Placed, Place
<1>6. fsm'[j] \in {"Scheduled", "InProgress"} =>
        Queued(j)' \/ (\E w \in Workers : act'[w].job = j) \/ act'[j].prev = "Unknown"
  BY <1>2, <1>3 DEF CoopInv, Located, J
<1> QED
  BY <1>1, <1>2, <1>3, <1>4, <1>5, <1>6, CoopFrame

(* A step of the owner of j that does not send it.                         *)
LEMMA CoopOwner ==
    ASSUME Cooperative, IInv, CoopInv, IInv',
           NEW j \in Jobs, NEW r \in Actor,
           act' = [act EXCEPT ![j] = r], Alone(j), Touches(j), queue' = queue,
           r.pc \in AwaitPoints => Rests(j)',
           r.pc \notin AwaitPoints =>
             r.job = j /\ OwnerPlace(r, fsm'[j], rows'[IdOf[j]], version'[j], faults'),
           \/ fsm'[j] = fsm[j] /\ (act[j].prev = "Unknown" => r.prev = "Unknown")
           \/ /\ act[j].prev = "Unknown"
              /\ fsm'[j] \in {"Scheduled", "InProgress"} => r.prev = "Unknown"
    PROVE  CoopInv'
<1>1. j \in Actors /\ j \notin Workers /\ j \notin Cancellers
  BY ConstantsAssumption DEF Actors
<1>2. act'[j] = r /\ (\A w \in Workers : act'[w] = act[w])
  BY <1>1 DEF IInv, TypeOK, Actors
<1>3. \A k \in Jobs : Queued(k)' <=> Queued(k)
  BY DEF Queued
<1>4. Queued(j) => fsm[j] \in {"Scheduled", "Cancelled"}
  BY DEF CoopInv, WaitingIsScheduled
<1>5. r.pc \notin AwaitPoints => r.job = j /\ Placed(j, j)'
  BY <1>1, <1>2 DEF Placed, Place
<1>6. act[j].prev = "Unknown" => ~Queued(j) /\ \A w \in Workers : act[w].job # j
  BY DEF IInv, TokenInv, FreshIsUntouched, Fresh
<1>7. act[j].job = j
  BY <1>1 DEF IInv, TokenInv, LocalsOK, Locals, OwnerLocals
<1>8. fsm'[j] \in {"Scheduled", "InProgress"} =>
        Queued(j)' \/ (\E w \in Workers : act'[w].job = j) \/ act'[j].prev = "Unknown"
  BY <1>2, <1>3 DEF CoopInv, Located, J
<1> QED
  BY <1>1, <1>2, <1>3, <1>4, <1>5, <1>6, <1>7, <1>8, CoopFrame

(* A step that moves no job and touches none.                              *)
LEMMA CoopIdle ==
    ASSUME Cooperative, IInv, CoopInv, UNCHANGED <<fsm, version, rows, queue, faults>>,
           \/ act' = act
           \/ \E w \in Workers, r \in Actor :
                /\ act' = [act EXCEPT ![w] = r]
                /\ act[w].job = NoJob /\ r.job = NoJob
                /\ r.pc \in {"receive", "raised", "returned"}
    PROVE  CoopInv'
<1>1. \A a \in Actors :
        \/ act'[a] = act[a]
        \/ /\ a \in Workers /\ ~Busy(a)' /\ act'[a].pc \notin {"process", "running"}
           /\ act[a].job = NoJob /\ act'[a].job = NoJob
  BY DEF IInv, TypeOK, Busy, AwaitPoints, Actors
<1>2. NoJob \notin Jobs /\ Workers \subseteq Actors /\ Jobs \subseteq Actors /\ Jobs \cap Workers = {}
  BY ConstantsAssumption DEF Actors
<1>3. \A a \in Actors : Busy(a)' => Busy(a) /\ act'[a] = act[a]
  BY <1>1 DEF Busy
<1>4. OneBusy' /\ BusyIsPlaced'
  BY <1>3 DEF CoopInv, OneBusy, BusyIsPlaced, J, RowOf
<1>5. \A j \in Jobs, a \in Actors : act'[a].job = j <=> act[a].job = j
  BY <1>1, <1>2
<1>6. IdleIsSettled'
  BY <1>1, <1>2, <1>3, <1>5 DEF CoopInv, IdleIsSettled, J, Busy
<1>7. WaitingIsScheduled'
  BY <1>1, <1>2 DEF CoopInv, WaitingIsScheduled, Queued, J
<1>8. Located'
  BY <1>1, <1>2, <1>5 DEF CoopInv, Located, Queued, J
<1>9. RowsAreOwned'
  BY DEF CoopInv, RowsAreOwned
<1> QED
  BY <1>4, <1>6, <1>7, <1>8, <1>9 DEF CoopInv

(* A worker with a job, when it is its turn.                               *)
LEMMA WorkerTurn ==
    ASSUME Cooperative, IInv, CoopInv, NEW w \in Workers, NEW pc, At(w, pc),
           pc \notin {"receive", "raised", "returned"}
    PROVE  /\ Alone(w) /\ act[w] \in Actor /\ act[w].pc = pc /\ J(w) = act[w].job
           /\ act[w].job \in Jobs /\ IdOf[act[w].job] \in Ids /\ WorkerLocals(act[w])
           /\ pc \notin AwaitPoints =>
                WorkerPlace(act[w], fsm[act[w].job], RowOf(w), version[act[w].job], faults)
           /\ pc \in AwaitPoints => Rests(act[w].job)
           /\ pc = "process" => fsm[act[w].job] \in {"Scheduled", "Cancelled"}
           /\ pc = "running" => fsm[act[w].job] \in {"InProgress", "Cancelled"}
<1>1. Alone(w) /\ act[w].pc = pc /\ J(w) = act[w].job
  BY DEF At, Alone, Cooperative, J
<1>2. w \in Actors /\ act[w] \in Actor /\ act[w].job \in Jobs /\ WorkerLocals(act[w])
  BY <1>1, WorkerFacts
<1>3. IdOf[act[w].job] \in Ids
  BY <1>2, ConstantsAssumption
<1>4. pc \notin AwaitPoints =>
        WorkerPlace(act[w], fsm[act[w].job], RowOf(w), version[act[w].job], faults)
  BY <1>1, <1>2 DEF CoopInv, BusyIsPlaced, Busy, Place
<1>5. pc \in AwaitPoints => Rests(act[w].job)
  BY <1>1, <1>2 DEF CoopInv, IdleIsSettled, Busy, Alone, Rests
<1> QED
  BY <1>1, <1>2, <1>3, <1>4, <1>5 DEF CoopInv, WaitingIsScheduled

(* What puts a worker at each place.                                       *)
LEMMA WorkerPlaces ==
    ASSUME NEW r, NEW s, NEW row, NEW v, NEW f
    PROVE  /\ r.pc = "begin" /\ s = "Scheduled" /\ Settled(s, row, v, f)
                => WorkerPlace(r, s, row, v, f)
           /\ r.pc = "heal" /\ r.prev = "Scheduled" /\ s = "Scheduled" /\ Settled(s, row, v, f)
                => WorkerPlace(r, s, row, v, f)
           /\ r.pc = "run" /\ r.prev = "Scheduled" /\ s = "Scheduled" /\ row.status = "Scheduled"
              /\ Synced(row, v)
                => WorkerPlace(r, s, row, v, f)
           /\ r.pc \in {"fail_or_restore", "force_failed"} /\ r.prev = "Scheduled"
              /\ s \in {"Scheduled", "InProgress"} /\ Stuck(row, v, f)
                => WorkerPlace(r, s, row, v, f)
           /\ r.pc \in {"restore_check", "restore"} /\ r.prev = "Scheduled" /\ s = "Failed"
              /\ Stuck(row, v, f)
                => WorkerPlace(r, s, row, v, f)
           /\ r.pc \in {"requeue", "undeliverable"} /\ r.prev = "Scheduled" /\ s = "Scheduled"
              /\ Stuck(row, v, f)
                => WorkerPlace(r, s, row, v, f)
           /\ r.pc \in {"workflows", "finish", "failed"} /\ s \in {"InProgress", "Cancelled"}
              /\ Settled(s, row, v, f)
                => WorkerPlace(r, s, row, v, f)
           /\ r.pc \in {"fail", "complete"} /\ s = "InProgress" /\ Settled(s, row, v, f)
                => WorkerPlace(r, s, row, v, f)
           /\ r.pc = "ensure" /\ s = "Cancelled" /\ Settled(s, row, v, f)
                => WorkerPlace(r, s, row, v, f)
  BY DEF WorkerPlace, BeforeRun, SavePcs

(* The worker decides where to go on, and does not await anything.         *)
LEMMA CoopGoesOn ==
    ASSUME Cooperative, IInv, CoopInv, IInv', NEW w \in Workers,
           NEW pc, NEW next \in WorkerPcs \ AwaitPoints, Step(w, pc, next),
           pc \notin {"receive", "raised", "returned"},
           \A r \in Actor : r.pc = next /\ r.prev = act[w].prev =>
             WorkerPlace(r, fsm[act[w].job], RowOf(w), version[act[w].job], faults)
    PROVE  CoopInv'
<1>1. PICK j \in Jobs : j = act[w].job
  BY WorkerTurn DEF Step
<1>2. Alone(w) /\ J(w) = j /\ w \in Actors
  BY <1>1, WorkerTurn, WorkerFacts DEF Step
<1>3. PICK r \in Actor : r = [act[w] EXCEPT !.pc = next, !.snap = None, !.res = "-"]
  <2>1. next \in Pcs
    BY DEF Pcs
  <2> QED
    BY <1>2, <2>1, Records DEF IInv
<1>4. r.pc = next /\ r.prev = act[w].prev /\ r.job = j
  BY <1>1, <1>2, <1>3, WorkerFacts DEF Actor
<1>5. act' = [act EXCEPT ![w] = r] /\ UNCHANGED shared
  BY <1>3 DEF Step, Jump, Goto, WorkerPcs
<1>6. Touches(j)
  BY <1>5 DEF Touches, shared
<1>7. WorkerPlace(r, fsm'[j], rows'[IdOf[j]], version'[j], faults')
  BY <1>1, <1>2, <1>4, <1>5 DEF shared, RowOf
<1>8. r.pc \notin {"process", "running"} /\ r.job # NoJob
  BY <1>4, ConstantsAssumption DEF AwaitPoints, Actors
<1> QED
  BY <1>1, <1>2, <1>4, <1>5, <1>6, <1>7, <1>8, CoopWorker DEF shared

(* The worker is done with its job.                                        *)
LEMMA CoopReturns ==
    ASSUME Cooperative, IInv, CoopInv, IInv', NEW w \in Workers,
           NEW pc, Step(w, pc, "return"),
           pc \notin {"receive", "raised", "returned"},
           Settled(fsm[act[w].job], RowOf(w), version[act[w].job], faults),
           fsm[act[w].job] \notin {"Scheduled", "InProgress"}
    PROVE  CoopInv'
<1>1. PICK j \in Jobs : j = act[w].job
  BY WorkerTurn DEF Step
<1>2. Alone(w) /\ J(w) = j /\ w \in Actors /\ w \notin Jobs
  BY <1>1, WorkerTurn, WorkerFacts DEF Step
<1>3. PICK r \in Actor : r = AtRest(w)
  BY <1>2, Records DEF IInv
<1>4. r.pc = "receive" /\ r.job = NoJob
  BY <1>2, <1>3 DEF AtRest, Blank
<1>5. act' = [act EXCEPT ![w] = r] /\ UNCHANGED shared
  BY <1>3 DEF Step, Jump, Goto
<1>6. Touches(j)
  BY <1>5 DEF Touches, shared
<1>7. Rests(j)'
  BY <1>1, <1>2, <1>5 DEF shared, RowOf, Rests
<1>8. r.pc \in AwaitPoints /\ r.pc \notin {"process", "running"}
  BY <1>4 DEF AwaitPoints
<1> QED
  BY <1>1, <1>2, <1>4, <1>5, <1>6, <1>7, <1>8, CoopWorker DEF shared

(* The decisions of a worker on its way to RUN.                            *)
LEMMA CoopDecisions ==
    ASSUME Cooperative, IInv, CoopInv, IInv', NEW w \in Workers,
           \/ Process(w) \/ Healed(w) \/ Reheal(w) \/ WorkflowReturns(w) \/ WorkflowRaises(w)
           \/ Failed(w) \/ Finish(w) \/ FailOrRestore(w) \/ FailedSaved(w) \/ RestoreCheck(w)
    PROVE  CoopInv'
<1>1. PICK pc \in {"process", "healed", "reheal", "running", "failed", "finish",
                   "fail_or_restore", "failed_saved", "restore_check"},
           next \in {"ensure", "begin", "run", "reheal", "fail_or_restore", "workflows",
                     "failed", "fail", "complete", "restore_check", "force_failed",
                     "return", "restore"} :
        /\ Step(w, pc, next)
        /\ pc = "process" => next = IF is_cancelled(J(w)) THEN "ensure" ELSE "begin"
        /\ pc = "healed" => \/ act[w].res = "ok" /\ next = "run"
                            \/ act[w].res = "skip" /\ next = "reheal"
                            \/ act[w].res = "exc" /\ next = "fail_or_restore"
        /\ pc = "running" => next \in {"workflows", "failed"}
        /\ pc = "failed" => next = IF is_cancelled(J(w)) THEN "ensure" ELSE "fail"
        /\ pc = "finish" => next = IF is_cancelled(J(w)) THEN "ensure" ELSE "complete"
        /\ pc = "fail_or_restore" =>
             next = IF is_cancelled(J(w)) THEN "restore_check" ELSE "force_failed"
        /\ pc = "failed_saved" => next = IF act[w].res = "ok" THEN "return" ELSE "restore_check"
        /\ pc = "restore_check" => next = IF is_cancelled(J(w)) THEN "ensure" ELSE "restore"
  BY DEF Process, Healed, Reheal, WorkflowReturns, WorkflowRaises, Failed, Finish, FailOrRestore,
     FailedSaved, RestoreCheck
<1>2. /\ act[w].pc = pc /\ J(w) = act[w].job /\ act[w].job \in Jobs /\ WorkerLocals(act[w])
      /\ pc \notin {"process", "running"} =>
           WorkerPlace(act[w], fsm[act[w].job], RowOf(w), version[act[w].job], faults)
      /\ pc \in {"process", "running"} => Rests(act[w].job)
      /\ pc = "process" => fsm[act[w].job] \in {"Scheduled", "Cancelled"}
      /\ pc = "running" => fsm[act[w].job] \in {"InProgress", "Cancelled"}
  BY <1>1, WorkerTurn DEF Step, AwaitPoints
<1> DEFINE s == fsm[act[w].job]
           row == RowOf(w)
           v == version[act[w].job]
<1>3. pc \in {"process", "running"} => Settled(s, row, v, faults)
  BY <1>2 DEF Rests, RowOf
<1>4. pc \in {"healed", "fail_or_restore", "failed_saved", "restore_check"}
        => act[w].prev = "Scheduled"
  BY <1>2, AtBeforeRun DEF WorkerPlace
<1>5. pc # "reheal" /\ ~(pc = "healed" /\ act[w].res = "skip")
  BY <1>2 DEF WorkerPlace, Saved
<1>6. is_cancelled(J(w)) <=> s = "Cancelled"
  BY <1>2 DEF is_cancelled
<1>7. CASE next = "return"
  <2>1. s = "Failed" /\ Settled(s, row, v, faults)
    BY <1>1, <1>2, <1>7 DEF WorkerPlace, Saved, Settled, Early, Terminal
  <2> QED
    BY <1>1, <1>7, <2>1, CoopReturns
<1>8. CASE next # "return"
  <2>1. ASSUME NEW r \in Actor, r.pc = next, r.prev = act[w].prev
        PROVE  WorkerPlace(r, s, row, v, faults)
    <3>1. CASE pc \in {"process", "running"}
      BY <1>1, <1>2, <1>3, <1>6, <2>1, <3>1, WorkerPlaces
    <3>2. CASE pc = "healed"
      <4>1. s = "Scheduled" /\ Saved(act[w], s, row, v, faults, {None})
        BY <1>2, <3>2 DEF WorkerPlace
      <4>2. \/ next = "run" /\ row.status = "Scheduled" /\ Synced(row, v)
            \/ next = "fail_or_restore" /\ Stuck(row, v, faults)
        BY <1>1, <1>5, <3>2, <4>1 DEF Saved, Stuck
      <4> QED
        BY <1>4, <2>1, <3>2, <4>1, <4>2, WorkerPlaces
    <3>3. CASE pc \in {"failed", "finish"}
      <4>1. s \in {"InProgress", "Cancelled"} /\ Settled(s, row, v, faults)
        BY <1>2, <3>3 DEF WorkerPlace
      <4> QED
        BY <1>1, <1>6, <2>1, <3>3, <4>1, WorkerPlaces
    <3>4. CASE pc = "fail_or_restore"
      <4>1. s \in {"Scheduled", "InProgress"} /\ Stuck(row, v, faults)
        BY <1>2, <3>4 DEF WorkerPlace
      <4> QED
        BY <1>1, <1>4, <1>6, <2>1, <3>4, <4>1, WorkerPlaces
    <3>5. CASE pc = "failed_saved"
      <4>1. s = "Failed" /\ Saved(act[w], s, row, v, faults, {None, "Scheduled"}) /\ faults > 0
        BY <1>2, <3>5 DEF WorkerPlace
      <4>2. next = "restore_check" /\ Stuck(row, v, faults)
        BY <1>1, <1>8, <3>5, <4>1 DEF Saved, Stuck
      <4> QED
        BY <1>4, <2>1, <3>5, <4>1, <4>2, WorkerPlaces
    <3>6. CASE pc = "restore_check"
      <4>1. s = "Failed" /\ Stuck(row, v, faults)
        BY <1>2, <3>6 DEF WorkerPlace
      <4> QED
        BY <1>1, <1>4, <1>6, <2>1, <3>6, <4>1, WorkerPlaces
    <3> QED
      BY <1>5, <3>1, <3>2, <3>3, <3>4, <3>5, <3>6
  <2>2. next \in WorkerPcs \ AwaitPoints
    BY <1>8 DEF WorkerPcs, AwaitPoints
  <2> QED
    BY <1>1, <2>1, <2>2, CoopGoesOn
<1> QED
  BY <1>7, <1>8

(* What puts a worker at the start of save().                              *)
LEMMA WorkerSavePlaces ==
    ASSUME NEW r, NEW s, NEW row \in Row, NEW v, NEW f, r.pc = "save"
    PROVE  /\ r.ret = "healed" /\ r.prev = "Scheduled" /\ s = "Scheduled" /\ row.status = None
                => WorkerPlace(r, s, row, v, f)
           /\ r.ret = "run_saved" /\ r.prev = "Scheduled" /\ s = "InProgress"
              /\ row.status = "Scheduled" /\ Synced(row, v)
                => WorkerPlace(r, s, row, v, f)
           /\ r.ret = "failed_saved" /\ r.prev = "Scheduled" /\ s = "Failed" /\ Stuck(row, v, f)
                => WorkerPlace(r, s, row, v, f)
           /\ r.ret \in {"redelivery_full", "redelivery_stopped"} /\ s = "Failed"
              /\ Stuck(row, v, f)
                => WorkerPlace(r, s, row, v, f)
           /\ r.ret = "return" /\ s \in {"Failed", "Completed"} /\ row.status = "InProgress"
              /\ Synced(row, v)
                => WorkerPlace(r, s, row, v, f)
           /\ r.ret = "return" /\ s = "Cancelled" /\ Settled(s, row, v, f)
                => WorkerPlace(r, s, row, v, f)
<1> USE DEF WorkerPlace, BeforeRun, SavePcs, Saving
<1>1. s = "Cancelled" /\ Settled(s, row, v, f) => Synced(row, v) /\ row.status \in Replaceable
  BY DEF Settled, Replaceable, Row, Status, Terminal
<1>2. row.status = None => Synced(row, v)
  BY DEF Synced
<1> QED
  BY <1>1, <1>2 DEF Stuck

(* A worker calls save(), with the FSM as it is or forced to Failed.       *)
LEMMA CoopCallsSave ==
    ASSUME Cooperative, IInv, CoopInv, IInv', NEW w \in Workers, NEW pc, At(w, pc),
           pc \notin {"receive", "raised", "returned"},
           NEW ret \in Pcs \cup {"return"}, Call(w, "save", ret),
           UNCHANGED <<version, rows, queue, faults>>,
           NEW s \in Status, fsm' = [fsm EXCEPT ![act[w].job] = s],
           \A r \in Actor : r.pc = "save" /\ r.ret = ret /\ r.prev = act[w].prev =>
             WorkerPlace(r, s, RowOf(w), version[act[w].job], faults)
    PROVE  CoopInv'
<1>1. PICK j \in Jobs : j = act[w].job
  BY WorkerTurn
<1>2. Alone(w) /\ J(w) = j /\ w \in Actors /\ act[w] \in Actor
  BY <1>1, WorkerTurn, WorkerFacts
<1>3. PICK r \in Actor : r = [act[w] EXCEPT !.pc = "save", !.ret = ret]
  <2>1. "save" \in Pcs
    BY DEF Pcs, SavePcs
  <2> QED
    BY <1>2, <2>1 DEF Actor
<1>4. r.pc = "save" /\ r.ret = ret /\ r.prev = act[w].prev /\ r.job = j
  BY <1>1, <1>2, <1>3 DEF Actor
<1>5. act' = [act EXCEPT ![w] = r]
  BY <1>3 DEF Call, Goto
<1>6. fsm'[j] = s /\ Touches(j)
  BY <1>1 DEF Touches, IInv, TypeOK
<1>7. WorkerPlace(r, fsm'[j], rows'[IdOf[j]], version'[j], faults')
  BY <1>1, <1>2, <1>4, <1>6 DEF RowOf
<1>8. r.pc \notin AwaitPoints /\ r.job # NoJob
  BY <1>4, ConstantsAssumption DEF AwaitPoints, Actors
<1> QED
  BY <1>1, <1>2, <1>4, <1>5, <1>6, <1>7, <1>8, CoopWorker

(* The two forced Failed, and the check of a cancelled row.                *)
LEMMA CoopForces ==
    ASSUME Cooperative, IInv, CoopInv, IInv', NEW w \in Workers,
           Heal(w) \/ Ensure(w) \/ ForceFailed(w) \/ Undeliverable(w)
    PROVE  CoopInv'
<1> DEFINE s == fsm[act[w].job]
           row == RowOf(w)
           v == version[act[w].job]
<1>1. PICK pc \in {"heal", "ensure", "force_failed", "undeliverable"} : At(w, pc)
  BY DEF Heal, Ensure, ForceFailed, Undeliverable
<1>2. /\ act[w].pc = pc /\ J(w) = act[w].job /\ act[w].job \in Jobs /\ IdOf[act[w].job] \in Ids
      /\ WorkerLocals(act[w])
      /\ WorkerPlace(act[w], s, row, v, faults)
  BY <1>1, WorkerTurn DEF AwaitPoints
<1>3. s \in Status /\ row \in Row
  BY <1>2 DEF IInv, TypeOK, RowOf
<1>4. fsm = [fsm EXCEPT ![act[w].job] = s]
  BY DEF IInv, TypeOK
<1>5. CASE Heal(w)
  <2>0. /\ pc = "heal" /\ At(w, "heal") /\ UNCHANGED shared /\ act[w].prev = "Scheduled"
        /\ s = "Scheduled" /\ Settled(s, row, v, faults)
    BY <1>2, <1>5, AtBeforeRun DEF Heal, At, WorkerPlace
  <2>1. pc = "heal" /\ At(w, "heal") /\ UNCHANGED shared
    BY <2>0
  <2>2. CASE row.status = None
    <3>1. PICK ret \in Pcs : Call(w, "save", ret) /\ ret = "healed"
      BY <1>5, <2>2 DEF Heal, Pcs, WorkerPcs
    <3>2. \A r \in Actor : r.pc = "save" /\ r.ret = ret /\ r.prev = act[w].prev =>
            WorkerPlace(r, s, row, v, faults)
      BY <1>3, <2>0, <2>2, <3>1, WorkerSavePlaces
    <3>3. fsm' = [fsm EXCEPT ![act[w].job] = s]
      BY <1>4, <2>1 DEF shared
    <3> HIDE DEF s, row, v
    <3> QED
      BY <1>3, <2>1, <3>1, <3>2, <3>3, CoopCallsSave, ZenonT(40) DEF shared, row, v
  <2>3. CASE row.status # None
    <3>1. Step(w, "heal", "run") /\ "run" \in WorkerPcs \ AwaitPoints
      BY <1>5, <2>1, <2>3 DEF Heal, Step, WorkerPcs, AwaitPoints
    <3>2. row.status = "Scheduled" /\ Synced(row, v)
      BY <2>0, <2>3 DEF Settled
    <3> QED
      BY <2>0, <3>1, <3>2, WorkerPlaces, CoopGoesOn
  <2> QED
    BY <2>2, <2>3
<1>6. CASE Ensure(w)
  <2>1. /\ pc = "ensure" /\ At(w, "ensure") /\ UNCHANGED shared
        /\ s = "Cancelled" /\ Settled(s, row, v, faults)
    BY <1>2, <1>6 DEF Ensure, At, WorkerPlace
  <2>2. CASE row.status = "Cancelled"
    <3>1. Step(w, "ensure", "return")
      BY <1>6, <2>1, <2>2 DEF Ensure, Step
    <3> QED
      BY <2>1, <3>1, CoopReturns
  <2>3. CASE row.status # "Cancelled"
    <3>1. Call(w, "save", "return")
      BY <1>6, <2>3 DEF Ensure
    <3>2. \A r \in Actor : r.pc = "save" /\ r.ret = "return" /\ r.prev = act[w].prev =>
            WorkerPlace(r, s, row, v, faults)
      BY <1>3, <2>1, WorkerSavePlaces
    <3>3. fsm' = [fsm EXCEPT ![act[w].job] = s]
      BY <1>4, <2>1 DEF shared
    <3> HIDE DEF s, row, v
    <3> QED
      BY <1>3, <2>1, <3>1, <3>2, <3>3, CoopCallsSave, ZenonT(40) DEF shared, row, v
  <2> QED
    BY <2>2, <2>3
<1>7. CASE ForceFailed(w)
  <2>0. act[w].prev = "Scheduled" /\ Stuck(row, v, faults)
    BY <1>2, <1>7, AtBeforeRun DEF ForceFailed, At, WorkerPlace
  <2>1. /\ pc = "force_failed" /\ At(w, "force_failed")
        /\ Call(w, "save", "failed_saved") /\ fsm' = [fsm EXCEPT ![act[w].job] = "Failed"]
        /\ UNCHANGED <<version, rows, queue, faults>>
    BY <1>2, <1>7 DEF ForceFailed, At
  <2>2. PICK ret \in Pcs : Call(w, "save", ret) /\ ret = "failed_saved" /\ "Failed" \in Status
    BY <2>1 DEF Pcs, WorkerPcs, Status, Terminal
  <2>3. \A r \in Actor : r.pc = "save" /\ r.ret = ret /\ r.prev = act[w].prev =>
          WorkerPlace(r, "Failed", row, v, faults)
    BY <1>3, <2>0, <2>2, WorkerSavePlaces
  <2> QED
    BY <2>1, <2>2, <2>3, CoopCallsSave, ZenonT(40)
<1>8. CASE Undeliverable(w)
  <2>1. /\ pc = "undeliverable" /\ At(w, "undeliverable") /\ Stuck(row, v, faults)
        /\ Call(w, "save", act[w].ret) /\ fsm' = [fsm EXCEPT ![act[w].job] = "Failed"]
        /\ UNCHANGED <<version, rows, queue, faults>>
    BY <1>2, <1>8 DEF Undeliverable, At, WorkerPlace
  <2>2. PICK ret \in {"redelivery_full", "redelivery_stopped"} : ret = act[w].ret
    BY <1>2, <2>1 DEF WorkerLocals, Taken, BeforeRun, AfterRun, SavePcs
  <2>3. ret \in Pcs /\ "Failed" \in Status
    BY DEF Pcs, WorkerPcs, Status, Terminal
  <2>4. \A r \in Actor : r.pc = "save" /\ r.ret = ret /\ r.prev = act[w].prev =>
          WorkerPlace(r, "Failed", row, v, faults)
    BY <1>3, <2>1, WorkerSavePlaces
  <2> QED
    BY <2>1, <2>2, <2>3, <2>4, CoopCallsSave
<1> QED
  BY <1>5, <1>6, <1>7, <1>8

(* The row that won is never followed: on one event loop every save() that *)
(* does not raise is written.                                              *)
LEMMA CoopNeverFollows ==
    ASSUME Cooperative, IInv, CoopInv, NEW w \in Workers, Skipped(w) \/ Follow(w)
    PROVE  FALSE
<1>1. PICK pc \in {"skipped", "follow"} : At(w, pc)
  BY DEF Skipped, Follow
<1> QED
  BY <1>1, WorkerTurn DEF AwaitPoints, WorkerPlace

(* _process keeps Scheduled as prev_state, and restores it.                *)
LEMMA CoopBegin ==
    ASSUME Cooperative, IInv, CoopInv, IInv', NEW w \in Workers, Begin(w)
    PROVE  CoopInv'
<1>1. At(w, "begin") /\ UNCHANGED shared
  BY DEF Begin
<1>2. PICK j \in Jobs : j = act[w].job
  BY <1>1, WorkerTurn
<1>3. /\ Alone(w) /\ J(w) = j /\ w \in Actors /\ act[w] \in Actor
      /\ WorkerPlace(act[w], fsm[j], rows[IdOf[j]], version[j], faults) /\ act[w].pc = "begin"
  BY <1>1, <1>2, WorkerTurn, WorkerFacts DEF AwaitPoints, RowOf
<1>4. fsm[j] = "Scheduled" /\ Settled(fsm[j], rows[IdOf[j]], version[j], faults)
  BY <1>3 DEF WorkerPlace
<1>5. PICK r \in Actor : r = [act[w] EXCEPT !.pc = "heal", !.prev = fsm[J(w)]]
  <2>1. "heal" \in Pcs /\ fsm[J(w)] \in Status
    BY <1>3 DEF Pcs, WorkerPcs, IInv, TypeOK
  <2> QED
    BY <1>3, <2>1 DEF Actor
<1>6. r.pc = "heal" /\ r.prev = "Scheduled" /\ r.job = j
  BY <1>2, <1>3, <1>4, <1>5 DEF Actor
<1>7. act' = [act EXCEPT ![w] = r]
  BY <1>5 DEF Begin, Goto
<1>8. WorkerPlace(r, fsm'[j], rows'[IdOf[j]], version'[j], faults') /\ Touches(j)
  BY <1>1, <1>4, <1>6, WorkerPlaces DEF shared, Touches
<1>9. r.pc \notin AwaitPoints /\ r.job # NoJob
  BY <1>6, ConstantsAssumption DEF AwaitPoints, Actors
<1> QED
  BY <1>1, <1>2, <1>3, <1>6, <1>7, <1>8, <1>9, CoopWorker DEF shared

LEMMA CoopRestore ==
    ASSUME Cooperative, IInv, CoopInv, IInv', NEW w \in Workers, Restore(w)
    PROVE  CoopInv'
<1>1. At(w, "restore") /\ UNCHANGED <<version, rows, queue, faults>>
  BY DEF Restore
<1>2. PICK j \in Jobs : j = act[w].job
  BY <1>1, WorkerTurn
<1>3. /\ Alone(w) /\ J(w) = j /\ w \in Actors /\ act[w] \in Actor
      /\ WorkerPlace(act[w], fsm[j], rows[IdOf[j]], version[j], faults) /\ act[w].pc = "restore"
  BY <1>1, <1>2, WorkerTurn, WorkerFacts DEF AwaitPoints, RowOf
<1>4. act[w].prev = "Scheduled" /\ Stuck(rows[IdOf[j]], version[j], faults)
  BY <1>3, AtBeforeRun DEF WorkerPlace
<1>5. PICK r \in Actor : r = [act[w] EXCEPT !.pc = "requeue", !.snap = None, !.res = "-"]
  <2>1. "requeue" \in Pcs
    BY DEF Pcs, WorkerPcs
  <2> QED
    BY <1>3, <2>1 DEF Actor
<1>6. r.pc = "requeue" /\ r.prev = "Scheduled" /\ r.job = j
  BY <1>2, <1>3, <1>4, <1>5 DEF Actor
<1>7. act' = [act EXCEPT ![w] = r] /\ fsm' = [fsm EXCEPT ![j] = "Scheduled"]
  BY <1>3, <1>4, <1>5 DEF Restore, Jump, Goto
<1>8. fsm'[j] = "Scheduled" /\ Touches(j)
  BY <1>1, <1>7 DEF Touches, IInv, TypeOK
<1>9. WorkerPlace(r, fsm'[j], rows'[IdOf[j]], version'[j], faults')
  BY <1>1, <1>4, <1>6, <1>8, WorkerPlaces
<1>10. r.pc \notin AwaitPoints /\ r.job # NoJob
  BY <1>6, ConstantsAssumption DEF AwaitPoints, Actors
<1> QED
  BY <1>1, <1>2, <1>3, <1>6, <1>7, <1>8, <1>9, <1>10, CoopWorker

(* The persist of RUN was written, or raised.                              *)
LEMMA CoopRunSaved ==
    ASSUME Cooperative, IInv, CoopInv, IInv', NEW w \in Workers, RunSaved(w)
    PROVE  CoopInv'
<1>1. At(w, "run_saved") /\ UNCHANGED shared
  BY DEF RunSaved
<1>2. PICK j \in Jobs : j = act[w].job
  BY <1>1, WorkerTurn
<1>3. /\ Alone(w) /\ J(w) = j /\ w \in Actors /\ act[w] \in Actor /\ RowOf(w) = rows[IdOf[j]]
      /\ WorkerPlace(act[w], fsm[j], rows[IdOf[j]], version[j], faults) /\ act[w].pc = "run_saved"
  BY <1>1, <1>2, WorkerTurn, WorkerFacts DEF AwaitPoints, RowOf
<1>4. /\ act[w].prev = "Scheduled" /\ fsm[j] = "InProgress"
      /\ Saved(act[w], fsm[j], rows[IdOf[j]], version[j], faults, {"Scheduled"})
  BY <1>3, AtBeforeRun DEF WorkerPlace
<1>5. CASE act[w].res = "ok"
  <2>1. PICK r \in Actor : r = [act[w] EXCEPT !.pc = "workflows", !.prev = None, !.res = "-"]
    <3>1. "workflows" \in Pcs
      BY DEF Pcs, WorkerPcs
    <3> QED
      BY <1>3, <3>1 DEF Actor
  <2>2. r.pc = "workflows" /\ r.job = j
    BY <1>2, <1>3, <2>1 DEF Actor
  <2>3. act' = [act EXCEPT ![w] = r]
    BY <1>5, <2>1 DEF RunSaved, Goto
  <2>4. Settled(fsm[j], rows[IdOf[j]], version[j], faults)
    BY <1>4, <1>5 DEF Saved, Settled, Early, Terminal
  <2>5. WorkerPlace(r, fsm'[j], rows'[IdOf[j]], version'[j], faults') /\ Touches(j)
    BY <1>1, <1>4, <2>2, <2>4, WorkerPlaces DEF shared, Touches
  <2>6. r.pc \notin AwaitPoints /\ r.job # NoJob
    BY <2>2, ConstantsAssumption DEF AwaitPoints, Actors
  <2> QED
    BY <1>1, <1>2, <1>3, <2>2, <2>3, <2>5, <2>6, CoopWorker DEF shared
<1>6. CASE act[w].res = "exc"
  <2>1. Step(w, "run_saved", "fail_or_restore")
    BY <1>1, <1>6 DEF RunSaved, Step
  <2>2. Stuck(rows[IdOf[j]], version[j], faults)
    BY <1>4, <1>6 DEF Saved, Stuck
  <2>3. \A r \in Actor : r.pc = "fail_or_restore" /\ r.prev = act[w].prev =>
          WorkerPlace(r, fsm[act[w].job], RowOf(w), version[act[w].job], faults)
    BY <1>2, <1>3, <1>4, <2>2, WorkerPlaces
  <2>4. "fail_or_restore" \in WorkerPcs \ AwaitPoints
    BY DEF WorkerPcs, AwaitPoints
  <2> QED
    BY <2>1, <2>3, <2>4, CoopGoesOn
<1> QED
  BY <1>4, <1>5, <1>6 DEF Saved

(* The worker awaits a workflow, or leaves their loop.                     *)
LEMMA CoopWorkflowLoop ==
    ASSUME Cooperative, IInv, CoopInv, IInv', NEW w \in Workers, WorkflowLoop(w)
    PROVE  CoopInv'
<1>1. At(w, "workflows") /\ UNCHANGED <<fsm, version, cancelEvent, rows, queue, stop, faults>>
  BY DEF WorkflowLoop
<1>2. PICK j \in Jobs : j = act[w].job
  BY <1>1, WorkerTurn
<1>3. /\ Alone(w) /\ J(w) = j /\ w \in Actors /\ act[w] \in Actor /\ RowOf(w) = rows[IdOf[j]]
      /\ WorkerPlace(act[w], fsm[j], rows[IdOf[j]], version[j], faults) /\ act[w].pc = "workflows"
  BY <1>1, <1>2, WorkerTurn, WorkerFacts DEF AwaitPoints, RowOf
<1>4. /\ fsm[j] \in {"InProgress", "Cancelled"}
      /\ Settled(fsm[j], rows[IdOf[j]], version[j], faults)
  BY <1>3 DEF WorkerPlace
<1>5. CASE \E next \in {"finish", "ensure"} :
             Jump(w, next) /\ runs' = runs /\ (next = "ensure" => is_cancelled(J(w)))
  <2>1. PICK next \in {"finish", "ensure"} :
          Step(w, "workflows", next) /\ (next = "ensure" => fsm[j] = "Cancelled")
    BY <1>1, <1>3, <1>5 DEF Step, shared, is_cancelled
  <2>2. \A r \in Actor : r.pc = next /\ r.prev = act[w].prev =>
          WorkerPlace(r, fsm[act[w].job], RowOf(w), version[act[w].job], faults)
    BY <1>2, <1>3, <1>4, <2>1, WorkerPlaces
  <2>3. next \in WorkerPcs \ AwaitPoints
    BY DEF WorkerPcs, AwaitPoints
  <2> QED
    BY <2>1, <2>2, <2>3, CoopGoesOn
<1>6. CASE Goto(w, [act[w] EXCEPT !.pc = "running", !.n = @ + 1])
  <2>1. PICK r \in Actor : r = [act[w] EXCEPT !.pc = "running", !.n = @ + 1]
    <3>1. "running" \in Pcs /\ act[w].n + 1 \in Nat
      BY <1>3 DEF Pcs, WorkerPcs, Actor
    <3> QED
      BY <1>3, <3>1 DEF Actor
  <2>2. r.pc = "running" /\ r.job = j
    BY <1>2, <1>3, <2>1 DEF Actor
  <2>3. act' = [act EXCEPT ![w] = r]
    BY <1>6, <2>1 DEF Goto
  <2>4. Rests(j)' /\ Touches(j) /\ fsm'[j] \in {"InProgress", "Cancelled"}
    BY <1>1, <1>4 DEF Rests, Touches
  <2>5. r.pc \in AwaitPoints /\ r.job # NoJob
    BY <2>2, ConstantsAssumption DEF AwaitPoints, Actors
  <2> QED
    BY <1>1, <1>2, <1>3, <2>2, <2>3, <2>4, <2>5, CoopWorker
<1> QED
  BY <1>5, <1>6 DEF WorkflowLoop

(* A send and a receive keep the other jobs on the queue.                  *)
LEMMA SendKeeps ==
    ASSUME TypeOK, NEW j \in Jobs, queue' = Append(queue, j)
    PROVE  Queued(j)' /\ \A k \in Jobs : k # j => (Queued(k)' <=> Queued(k))
<1>1. queue \in Seq(Jobs)
  BY DEF TypeOK
<1>2. queue' \in Seq(Jobs) /\ Len(queue') = Len(queue) + 1 /\ Len(queue) \in Nat
  BY <1>1
<1>3. /\ queue'[Len(queue) + 1] = j
      /\ \A i \in 1..Len(queue) : queue'[i] = queue[i] /\ i \in 1..Len(queue')
  BY <1>1, <1>2
<1>4. \A i \in 1..Len(queue') : i \in 1..Len(queue) \/ i = Len(queue) + 1
  BY <1>1, <1>2
<1>5. Len(queue) + 1 \in 1..Len(queue')
  BY <1>2
<1> QED
  BY <1>3, <1>4, <1>5 DEF Queued

LEMMA ReceiveKeeps ==
    ASSUME TypeOK, queue # <<>>, queue' = Tail(queue)
    PROVE  \A k \in Jobs : k # Head(queue) => (Queued(k)' <=> Queued(k))
<1>1. queue \in Seq(Jobs)
  BY DEF TypeOK
<1>2. Len(queue') = Len(queue) - 1 /\ Len(queue) \in Nat /\ Len(queue) > 0 /\ Head(queue) = queue[1]
  BY <1>1
<1>3. \A i \in 1..Len(queue') : i + 1 \in 1..Len(queue) /\ queue'[i] = queue[i + 1]
  BY <1>1, <1>2
<1>4. \A i \in 1..Len(queue) : i # 1 => i - 1 \in 1..Len(queue') /\ queue'[i - 1] = queue[i]
  <2> SUFFICES ASSUME NEW i \in 1..Len(queue), i # 1
               PROVE  i - 1 \in 1..Len(queue') /\ queue'[i - 1] = queue[i]
    OBVIOUS
  <2>1. i - 1 \in 1..Len(queue') /\ (i - 1) + 1 = i
    BY <1>2
  <2> QED
    BY <1>3, <2>1
<1> QED
  BY <1>2, <1>3, <1>4, ZenonT(40) DEF Queued

(* A worker takes a job.                                                   *)
LEMMA CoopReceive ==
    ASSUME Cooperative, IInv, CoopInv, IInv', NEW w \in Workers, Receive(w)
    PROVE  CoopInv'
<1>1. /\ At(w, "receive") /\ queue # <<>> /\ queue' = Tail(queue)
      /\ UNCHANGED <<fsm, version, cancelEvent, rows, stop, faults, runs>>
  BY DEF Receive
<1>2. PICK j \in Jobs : j = Head(queue) /\ Queued(j) /\ ~Queued(j)'
  <2>1. /\ \A x : (\E i \in 1..Len(queue') : queue'[i] = x) => Queued(x) /\ x # Head(queue)
        /\ Head(queue) \in Jobs /\ Queued(Head(queue))
    BY <1>1, ReceiveQueue DEF IInv, TokenInv, OnePlace
  <2> QED
    BY <2>1 DEF Queued
<1>3. \A k \in Jobs : k # j => (Queued(k)' <=> Queued(k))
  BY <1>1, <1>2, ReceiveKeeps DEF IInv
<1>4. w \in Actors /\ w \notin Jobs /\ act[w] \in Actor /\ act[w].pc = "receive" /\ Alone(w)
      /\ WorkerLocals(act[w])
  BY <1>1, WorkerFacts DEF At, Alone, Cooperative
<1>5. act[w].job = NoJob
  BY <1>4 DEF WorkerLocals, Taken, BeforeRun, AfterRun, SavePcs
<1>6. PICK r \in Actor : r = [act[w] EXCEPT !.pc = "process", !.job = Head(queue)]
  <2>1. "process" \in Pcs
    BY DEF Pcs, WorkerPcs
  <2> QED
    BY <1>2, <1>4, <2>1 DEF Actor
<1>7. r.pc = "process" /\ r.job = j
  BY <1>2, <1>4, <1>6 DEF Actor
<1>8. act' = [act EXCEPT ![w] = r]
  BY <1>6 DEF Receive, Goto
<1>9. act'[w] = r
  BY <1>4, <1>8 DEF IInv, TypeOK
<1>10. \A v \in Workers : act[v].job # j
  BY <1>2 DEF IInv, TokenInv, OnePlace
<1>11. fsm[j] \in {"Scheduled", "Cancelled"}
  BY <1>2 DEF CoopInv, WaitingIsScheduled
<1>12. ~Busy(w) /\ r.pc \in AwaitPoints
  BY <1>4, <1>7 DEF Busy, AwaitPoints
<1>13. Rests(j)'
  <2>1. \A b \in Actors : ~Busy(b)
    BY <1>4, <1>12 DEF Alone, Busy
  <2>2. Rests(j)
    BY <2>1 DEF CoopInv, IdleIsSettled, Rests
  <2> QED
    BY <1>1, <2>2 DEF Rests
<1>14. Touches(j)
  BY <1>1 DEF Touches
<1> QED
  BY <1>1, <1>2, <1>3, <1>4, <1>5, <1>7, <1>8, <1>9, <1>10, <1>11, <1>12, <1>13, <1>14,
     CoopFrame

(* A worker gives its job back to the channel, or finds that it cannot.    *)
LEMMA CoopRequeue ==
    ASSUME Cooperative, IInv, CoopInv, IInv', NEW w \in Workers, Requeue(w)
    PROVE  CoopInv'
<1>1. At(w, "requeue") /\ UNCHANGED <<fsm, version, cancelEvent, rows, stop, faults, runs>>
  BY DEF Requeue
<1>2. PICK j \in Jobs : j = act[w].job
  BY <1>1, WorkerTurn
<1>3. /\ Alone(w) /\ J(w) = j /\ w \in Actors /\ w \notin Jobs /\ act[w] \in Actor
      /\ WorkerPlace(act[w], fsm[j], rows[IdOf[j]], version[j], faults) /\ act[w].pc = "requeue"
  BY <1>1, <1>2, WorkerTurn, WorkerFacts DEF AwaitPoints, RowOf
<1>4. /\ act[w].prev = "Scheduled" /\ fsm[j] = "Scheduled"
      /\ Stuck(rows[IdOf[j]], version[j], faults)
  BY <1>3, AtBeforeRun DEF WorkerPlace
<1>5. Touches(j)
  BY <1>1 DEF Touches
<1>6. CASE queue' = Append(queue, j) /\ Goto(w, Blank("raised", NoJob))
  <2>1. PICK r \in Actor : r = Blank("raised", NoJob)
    <3>1. "raised" \in Pcs
      BY DEF Pcs, WorkerPcs
    <3> QED
      BY <1>3, <3>1, Records DEF IInv
  <2>2. r.pc = "raised" /\ r.job = NoJob /\ r.pc \in AwaitPoints
    BY <2>1 DEF Blank, AwaitPoints
  <2>3. act' = [act EXCEPT ![w] = r]
    BY <1>6, <2>1 DEF Goto
  <2>4. Queued(j)' /\ \A k \in Jobs : k # j => (Queued(k)' <=> Queued(k))
    BY <1>6, SendKeeps DEF IInv
  <2>5. Rests(j)'
    BY <1>1, <1>4 DEF Rests, Settled, Stuck, Early, Terminal, None
  <2>6. \A v \in Workers : v # w => act[v].job # j
    BY <1>2 DEF IInv, TokenInv, OnePlace
  <2> QED
    BY <1>1, <1>2, <1>3, <1>4, <1>5, <2>2, <2>3, <2>4, <2>5, <2>6, CoopFrame
<1>7. ASSUME NEW ret \in {"redelivery_full", "redelivery_stopped"},
             queue' = queue, Call(w, "undeliverable", ret)
      PROVE  CoopInv'
  <2>1. PICK r \in Actor : r = [act[w] EXCEPT !.pc = "undeliverable", !.ret = ret]
    <3>1. "undeliverable" \in Pcs /\ ret \in Pcs
      BY DEF Pcs, WorkerPcs
    <3> QED
      BY <1>3, <3>1 DEF Actor
  <2>2. r.pc = "undeliverable" /\ r.prev = act[w].prev /\ r.job = j
    BY <1>2, <1>3, <2>1 DEF Actor
  <2>3. act' = [act EXCEPT ![w] = r]
    BY <1>7, <2>1 DEF Call, Goto
  <2>4. WorkerPlace(r, fsm'[j], rows'[IdOf[j]], version'[j], faults')
    BY <1>1, <1>4, <2>2, WorkerPlaces
  <2>5. r.pc \notin AwaitPoints /\ r.job # NoJob
    BY <2>2, ConstantsAssumption DEF AwaitPoints, Actors
  <2> QED
    BY <1>2, <1>3, <1>5, <1>7, <2>2, <2>3, <2>4, <2>5, CoopWorker
<1> QED
  BY <1>3, <1>6, <1>7 DEF Requeue

(* run_forever leaves, raises, or starts again, with empty hands.          *)
LEMMA CoopLoop ==
    ASSUME Cooperative, IInv, CoopInv, IInv', NEW w \in Workers,
           ReceiveNone(w) \/ Redelivery(w) \/ Restart(w)
    PROVE  CoopInv'
<1>1. w \in Actors /\ w \notin Jobs /\ UNCHANGED shared /\ WorkerLocals(act[w])
  BY WorkerFacts DEF ReceiveNone, Redelivery, Restart
<1>2. PICK r \in Actor : /\ act' = [act EXCEPT ![w] = r]
                         /\ r.pc \in {"receive", "raised", "returned"} /\ r.job = NoJob
  <2>1. {"receive", "raised", "returned"} \subseteq Pcs
    BY DEF Pcs, WorkerPcs
  <2>2. \A pc \in {"receive", "raised", "returned"} :
          Blank(pc, NoJob) \in Actor /\ Blank(pc, NoJob).pc = pc /\ Blank(pc, NoJob).job = NoJob
    BY <2>1 DEF Actor, Blank
  <2> DEFINE kept == [Blank("receive", NoJob) EXCEPT !.redelivery = TRUE]
  <2>3. kept \in Actor /\ kept.pc = "receive" /\ kept.job = NoJob
    BY <2>1 DEF Actor, Blank
  <2>4. \/ \E pc \in {"receive", "raised", "returned"} :
             act' = [act EXCEPT ![w] = Blank(pc, NoJob)]
        \/ act' = [act EXCEPT ![w] = kept]
    BY Zenon DEF ReceiveNone, Redelivery, Restart, Goto
  <2> HIDE DEF kept
  <2> QED
    BY <2>2, <2>3, <2>4
<1>3. CASE ReceiveNone(w) \/ Restart(w)
  <2>1. act[w].pc \in {"receive", "raised"}
    BY <1>3 DEF ReceiveNone, Restart, At
  <2>2. act[w].job = NoJob
    BY <1>1, <2>1 DEF WorkerLocals, Taken, BeforeRun, AfterRun, SavePcs
  <2> QED
    BY <1>1, <1>2, <2>2, CoopIdle DEF shared
<1>4. CASE Redelivery(w)
  <2>1. PICK pc \in {"redelivery_full", "redelivery_stopped"} : At(w, pc)
    BY <1>4 DEF Redelivery
  <2>2. PICK j \in Jobs : j = act[w].job
    BY <2>1, WorkerTurn
  <2>3. /\ Alone(w) /\ act[w].pc = pc
        /\ WorkerPlace(act[w], fsm[j], rows[IdOf[j]], version[j], faults)
    BY <2>1, <2>2, WorkerTurn DEF AwaitPoints, RowOf
  <2>4. /\ fsm[j] = "Failed" /\ faults > 0
        /\ Saved(act[w], fsm[j], rows[IdOf[j]], version[j], faults, {None, "Scheduled"})
    BY <2>3 DEF WorkerPlace
  <2>5. Settled(fsm[j], rows[IdOf[j]], version[j], faults)
    BY <2>4 DEF Saved, Settled, Early, Terminal, None
  <2>6. Rests(j)' /\ Touches(j) /\ fsm'[j] = "Failed"
    BY <1>1, <2>4, <2>5 DEF Rests, Touches, shared
  <2>7. r.pc \in AwaitPoints
    BY <1>2 DEF AwaitPoints
  <2> QED
    BY <1>1, <1>2, <2>2, <2>3, <2>6, <2>7, CoopWorker DEF shared
<1> QED
  BY <1>3, <1>4

-----------------------------------------------------------------------------
(* Any actor inside a call, when it is its turn.                           *)
LEMMA ActorTurn ==
    ASSUME Cooperative, IInv, CoopInv, NEW a \in Actors, NEW pc, At(a, pc), pc \notin AwaitPoints
    PROVE  /\ Alone(a) /\ act[a] \in Actor /\ act[a].pc = pc /\ J(a) = act[a].job
           /\ act[a].job \in Jobs /\ IdOf[act[a].job] \in Ids /\ RowOf(a) \in Row
           /\ Locals(a, act[a])
           /\ Place(a, act[a], fsm[act[a].job], RowOf(a), version[act[a].job], faults)
           /\ a \in Jobs => act[a].job = a
<1>1. Alone(a) /\ act[a].pc = pc /\ J(a) = act[a].job
  BY DEF At, Alone, Cooperative, J
<1>2. act[a] \in Actor /\ Locals(a, act[a])
  BY Records DEF IInv, TokenInv, LocalsOK
<1>3. act[a].job \in Jobs /\ (a \in Jobs => act[a].job = a)
  BY <1>1, <1>2 DEF Locals, OwnerLocals, CancellerLocals, WorkerLocals, Actors, AwaitPoints
<1>4. IdOf[act[a].job] \in Ids
  BY <1>3, ConstantsAssumption
<1>5. RowOf(a) \in Row
  BY <1>1, <1>4 DEF RowOf, IInv, TypeOK
<1>6. Place(a, act[a], fsm[act[a].job], RowOf(a), version[act[a].job], faults)
  BY <1>1 DEF CoopInv, BusyIsPlaced, Busy
<1> QED
  BY <1>1, <1>2, <1>3, <1>4, <1>5, <1>6

(* A step of any actor that leaves the FSM and the queue alone.            *)
LEMMA CoopActs ==
    ASSUME Cooperative, IInv, CoopInv, IInv',
           NEW a \in Actors, NEW j \in Jobs, NEW r \in Actor,
           act' = [act EXCEPT ![a] = r], Alone(a), Touches(j), queue' = queue, fsm' = fsm,
           act[a].job = j, a \in Jobs => a = j /\ r.prev = act[a].prev,
           r.job \in {j, NoJob}, r.pc \notin {"process", "running"},
           r.pc \in AwaitPoints => Rests(j)',
           r.pc \notin AwaitPoints =>
             r.job = j /\ Place(a, r, fsm[j], rows'[IdOf[j]], version'[j], faults'),
           a \in Workers /\ r.job = NoJob => fsm[j] \notin {"Scheduled", "InProgress"}
    PROVE  CoopInv'
<1>1. CASE a \in Workers
  BY <1>1, CoopWorker DEF Place
<1>2. CASE a \in Cancellers
  BY <1>2, CoopCanceller DEF Place
<1>3. CASE a \in Jobs
  BY <1>3, CoopOwner DEF Place
<1> QED
  BY <1>1, <1>2, <1>3 DEF Actors

(* A step inside save() keeps its caller's place.                          *)
LEMMA SavePlace ==
    ASSUME NEW a \in Actors, NEW x, NEW r, NEW s, NEW row, NEW row2, NEW v, NEW f,
           Locals(a, x), Place(a, x, s, row, v, f),
           x.pc \in SavePcs, r.pc \in SavePcs, r.ret = x.ret, r.prev = x.prev,
           \A old : Saving(x, s, row, v, old) => Saving(r, s, row2, v, old)
    PROVE  Place(a, r, s, row2, v, f)
<1>1. a \in Jobs => OwnerPlace(r, s, row2, v, f)
  BY DEF Place, OwnerPlace, SavePcs
<1>2. a \in Cancellers => CancellerPlace(r, s, row2, v, f)
  BY DEF Place, CancellerPlace, SavePcs
<1>3. a \in Workers => WorkerPlace(r, s, row2, v, f)
  BY DEF Place, WorkerPlace, SavePcs, BeforeRun
<1> QED
  BY <1>1, <1>2, <1>3 DEF Place

(* What save() finds is something the fence lets it replace, and the       *)
(* versions agree: the put is never skipped.                               *)
LEMMA PutIsWritten ==
    ASSUME NEW a \in Actors, NEW x, NEW s, NEW row \in Row, NEW v, NEW f,
           Locals(a, x), Place(a, x, s, row, v, f), x.pc = "put"
    PROVE  x.snap = s /\ x.ver = v /\ s \in Status /\ put_may_write(row, s, v)
<1>1. PICK old : /\ Saving(x, s, row, v, old)
                 /\ \/ s = "Scheduled" /\ old = {None, "Scheduled"}
                    \/ s = "Scheduled" /\ old = {None}
                    \/ s = "InProgress" /\ old = {"Scheduled"}
                    \/ s = "Failed" /\ old = {None, "Scheduled"}
                    \/ s \in {"Failed", "Completed"} /\ old = {"InProgress"}
                    \/ s = "Cancelled" /\ old = Replaceable
  <2>1. CASE a \in Jobs
    BY <2>1 DEF Place, OwnerPlace, SavePcs
  <2>2. CASE a \in Cancellers
    BY <2>2 DEF Place, CancellerPlace, SavePcs
  <2>3. CASE a \in Workers
    <3>1. x.ret \in {"healed", "run_saved", "failed_saved", "return", "redelivery_full",
                     "redelivery_stopped"}
      BY <2>3 DEF Locals, WorkerLocals, Taken, BeforeRun, AfterRun
    <3> QED
      BY <2>3, <3>1 DEF Place, WorkerPlace, SavePcs
  <2> QED
    BY <2>1, <2>2, <2>3 DEF Actors
<1>2. x.snap = s /\ x.ver = v /\ Synced(row, v) /\ row.status \in old
  BY <1>1 DEF Saving
<1>3. s \in Status
  BY <1>1 DEF Status, NonTerminal, Terminal
<1>4. row.status = None \/ row.status \in existing_statuses_put_may_replace(s)
  BY <1>1, <1>2 DEF Replaceable, existing_statuses_put_may_replace, NonTerminal, Terminal, None
<1> QED
  BY <1>2, <1>3, <1>4 DEF put_may_write, put_applies, Synced

(* save() ends: its caller goes on, or returns with a settled job.         *)
LEMMA SaveEndsPlace ==
    ASSUME NEW a \in Actors, NEW x, NEW s, NEW row, NEW v, NEW v2,
           NEW f \in Nat, NEW f2 \in Nat, NEW res,
           Locals(a, x), Place(a, x, s, row, v, f), x.pc \in SavePcs, f <= f2,
           Synced(row, v2),
           \/ res = "ok" /\ row.status = s
           \/ res = "exc" /\ f2 > 0 /\ x.pc = "put"
    PROVE  /\ x.ret = "return" => /\ a \in Workers /\ s \notin {"Scheduled", "InProgress"}
                                  /\ Settled(s, row, v2, f2)
           /\ x.ret # "return" =>
                \A r : r.pc = x.ret /\ r.prev = x.prev /\ r.res = res
                    => Place(a, r, s, row, v2, f2)
<1>0. f > 0 => f2 > 0
  OBVIOUS
<1>1. CASE a \in Jobs
  <2>1. /\ x.ret = "sched_saved" /\ s = "Scheduled" /\ a \notin Workers /\ a \notin Cancellers
        /\ Saving(x, s, row, v, {None, "Scheduled"})
    BY <1>1, ConstantsAssumption DEF Locals, OwnerLocals, Place, OwnerPlace, SavePcs
  <2>2. ASSUME NEW r, r.res = res PROVE Saved(r, s, row, v2, f2, {None, "Scheduled"})
    BY <2>1, <2>2 DEF Saving, Saved
  <2> QED
    BY <1>1, <2>1, <2>2 DEF Place, OwnerPlace, SavePcs
<1>2. CASE a \in Cancellers
  <2>1. /\ x.ret = "cancel_saved" /\ s = "Cancelled" /\ a \notin Workers /\ a \notin Jobs
        /\ Saving(x, s, row, v, Replaceable)
    BY <1>2, ConstantsAssumption DEF Locals, CancellerLocals, Place, CancellerPlace, SavePcs
  <2>2. ASSUME NEW r, r.res = res PROVE Saved(r, s, row, v2, f2, Replaceable)
    BY <2>1, <2>2 DEF Saving, Saved
  <2> QED
    BY <1>2, <2>1, <2>2 DEF Place, CancellerPlace, SavePcs
<1>3. CASE a \in Workers
  <2>1. a \notin Jobs /\ a \notin Cancellers /\ WorkerLocals(x) /\ WorkerPlace(x, s, row, v, f)
    BY <1>3, ConstantsAssumption DEF Locals, Place
  <2>2. CASE x.ret = "return"
    <3>1. \/ s \in {"Failed", "Completed"} /\ Saving(x, s, row, v, {"InProgress"})
          \/ s = "Cancelled" /\ Saving(x, s, row, v, Replaceable)
      BY <2>1, <2>2 DEF WorkerPlace
    <3> QED
      BY <1>3, <2>2, <3>1 DEF Saving, Settled, Early, Terminal, NonTerminal, Replaceable, SavePcs, None
  <2>3. CASE x.ret = "healed"
    <3>1. s = "Scheduled" /\ Saving(x, s, row, v, {None}) /\ x.prev = "Scheduled"
      BY <2>1, <2>3 DEF WorkerPlace, WorkerLocals, Taken, BeforeRun, AfterRun, SavePcs
    <3>2. ASSUME NEW r, r.res = res PROVE Saved(r, s, row, v2, f2, {None})
      BY <3>1, <3>2 DEF Saving, Saved
    <3> QED
      BY <2>1, <2>3, <3>1, <3>2 DEF Place, WorkerPlace, SavePcs
  <2>4. CASE x.ret = "run_saved"
    <3>1. s = "InProgress" /\ Saving(x, s, row, v, {"Scheduled"}) /\ x.prev = "Scheduled"
      BY <2>1, <2>4 DEF WorkerPlace, WorkerLocals, Taken, BeforeRun, AfterRun, SavePcs
    <3>2. ASSUME NEW r, r.res = res PROVE Saved(r, s, row, v2, f2, {"Scheduled"})
      BY <3>1, <3>2 DEF Saving, Saved
    <3> QED
      BY <2>1, <2>4, <3>1, <3>2 DEF Place, WorkerPlace, SavePcs
  <2>5. CASE x.ret \in {"failed_saved", "redelivery_full", "redelivery_stopped"}
    <3>1. /\ s = "Failed" /\ Saving(x, s, row, v, {None, "Scheduled"}) /\ f > 0
          /\ x.ret = "failed_saved" => x.prev = "Scheduled"
      BY <2>1, <2>5 DEF WorkerPlace, WorkerLocals, Taken, BeforeRun, AfterRun, SavePcs
    <3>2. ASSUME NEW r, r.res = res PROVE Saved(r, s, row, v2, f2, {None, "Scheduled"})
      BY <3>1, <3>2 DEF Saving, Saved
    <3> QED
      BY <1>0, <2>1, <2>5, <3>1, <3>2 DEF Place, WorkerPlace, SavePcs, BeforeRun
  <2>6. x.ret \in {"healed", "run_saved", "failed_saved", "return", "redelivery_full",
                   "redelivery_stopped"}
    BY <2>1 DEF WorkerLocals, Taken, BeforeRun, AfterRun, SavePcs
  <2> QED
    BY <2>2, <2>3, <2>4, <2>5, <2>6
<1> QED
  BY <1>1, <1>2, <1>3 DEF Actors

(* save() ends for actor a, with a version that agrees with the row.       *)
LEMMA CoopSaveEnds ==
    ASSUME Cooperative, IInv, CoopInv, IInv', NEW a \in Actors, NEW pc \in SavePcs, At(a, pc),
           NEW res \in {"ok", "exc"}, SaveEnds(a, res),
           NEW j \in Jobs, j = act[a].job,
           Touches(j), UNCHANGED <<fsm, rows, queue>>, faults <= faults',
           Synced(rows[IdOf[j]], version'[j]),
           \/ res = "ok" /\ rows[IdOf[j]].status = fsm[j]
           \/ res = "exc" /\ faults' > 0 /\ pc = "put"
    PROVE  CoopInv'
<1>1. pc \notin AwaitPoints
  BY DEF SavePcs, AwaitPoints
<1>2. /\ Alone(a) /\ act[a] \in Actor /\ act[a].pc = pc /\ Locals(a, act[a])
      /\ Place(a, act[a], fsm[j], rows[IdOf[j]], version[j], faults)
      /\ a \in Jobs => j = a
  BY <1>1, ActorTurn DEF RowOf
<1>3. faults \in Nat /\ faults' \in Nat
  BY ConstantsAssumption DEF IInv, TypeOK
<1>4. /\ act[a].ret = "return" =>
           /\ a \in Workers /\ fsm[j] \notin {"Scheduled", "InProgress"}
           /\ Settled(fsm[j], rows[IdOf[j]], version'[j], faults')
      /\ act[a].ret # "return" =>
           \A r : r.pc = act[a].ret /\ r.prev = act[a].prev /\ r.res = res
               => Place(a, r, fsm[j], rows[IdOf[j]], version'[j], faults')
  BY <1>2, <1>3, SaveEndsPlace
<1>5. CASE act[a].ret = "return"
  <2>1. PICK r \in Actor : r = AtRest(a)
    BY Records DEF IInv
  <2>2. a \notin Jobs /\ r.pc = "receive" /\ r.job = NoJob
    BY <1>4, <1>5, <2>1, ConstantsAssumption DEF AtRest, Blank
  <2>3. act' = [act EXCEPT ![a] = r]
    BY <1>5, <2>1 DEF SaveEnds, Goto
  <2>4. Rests(j)'
    BY <1>4, <1>5 DEF Rests
  <2>5. r.pc \in AwaitPoints
    BY <2>2 DEF AwaitPoints
  <2> QED
    BY <1>2, <1>4, <1>5, <2>2, <2>3, <2>4, <2>5, CoopActs
<1>6. CASE act[a].ret # "return"
  <2>1. act[a].ret \in {"sched_saved", "cancel_saved", "healed", "run_saved", "failed_saved",
                        "redelivery_full", "redelivery_stopped"}
    BY <1>2, <1>6, SaveCallers DEF Actors
  <2>2. PICK r \in Actor : r = [act[a] EXCEPT !.pc = act[a].ret, !.ret = "-", !.snap = None,
                                              !.ver = 0, !.res = res]
    <3>1. act[a].ret \in Pcs
      BY <2>1 DEF Pcs, OwnerPcs, WorkerPcs, CancellerPcs
    <3> QED
      BY <1>2, <3>1 DEF Actor
  <2>3. r.pc = act[a].ret /\ r.prev = act[a].prev /\ r.res = res /\ r.job = j
    BY <1>2, <2>2 DEF Actor
  <2>4. act' = [act EXCEPT ![a] = r]
    BY <1>6, <2>2 DEF SaveEnds, Goto
  <2>5. Place(a, r, fsm[j], rows'[IdOf[j]], version'[j], faults')
    BY <1>4, <1>6, <2>3
  <2>6. r.pc \notin AwaitPoints /\ r.pc \notin {"process", "running"} /\ r.job # NoJob
    BY <2>1, <2>3, ConstantsAssumption DEF AwaitPoints, Actors
  <2> QED
    BY <1>2, <2>3, <2>4, <2>5, <2>6, CoopActs
<1> QED
  BY <1>5, <1>6

(* A step of save() before its end.                                        *)
LEMMA CoopSaveGoesOn ==
    ASSUME Cooperative, IInv, CoopInv, IInv', NEW a \in Actors, NEW pc \in SavePcs, At(a, pc),
           NEW j \in Jobs, j = act[a].job, NEW r \in Actor, act' = [act EXCEPT ![a] = r],
           Touches(j), UNCHANGED <<fsm, version, queue, faults>>,
           r.pc \in SavePcs, r.ret = act[a].ret, r.prev = act[a].prev, r.job = j,
           \A old : Saving(act[a], fsm[j], rows[IdOf[j]], version[j], old) =>
                      Saving(r, fsm[j], rows'[IdOf[j]], version[j], old)
    PROVE  CoopInv'
<1>1. pc \notin AwaitPoints /\ r.pc \notin AwaitPoints /\ r.pc \notin {"process", "running"}
  BY DEF SavePcs, AwaitPoints
<1>2. /\ Alone(a) /\ act[a] \in Actor /\ act[a].pc = pc /\ Locals(a, act[a])
      /\ Place(a, act[a], fsm[j], rows[IdOf[j]], version[j], faults)
      /\ a \in Jobs => j = a
  BY <1>1, ActorTurn DEF RowOf
<1>3. Place(a, r, fsm[j], rows'[IdOf[j]], version[j], faults)
  BY <1>2, SavePlace
<1>4. r.job # NoJob
  BY ConstantsAssumption DEF Actors
<1> QED
  BY <1>1, <1>2, <1>3, <1>4, CoopActs

(* The steps of Job.save().                                                *)
LEMMA CoopSave ==
    ASSUME Cooperative, IInv, CoopInv, IInv', NEW a \in Actors,
           SaveStatus(a) \/ SaveRecord(a) \/ SavePut(a) \/ SaveGet(a) \/ SaveRefresh(a)
    PROVE  CoopInv'
<1>1. PICK pc \in SavePcs : At(a, pc)
  BY DEF SaveStatus, SaveRecord, SavePut, SaveGet, SaveRefresh, SavePcs
<1>2. pc \notin AwaitPoints
  BY DEF SavePcs, AwaitPoints
<1>3. PICK j \in Jobs : j = act[a].job
  BY <1>1, <1>2, ActorTurn
<1> DEFINE s == fsm[j]
           row == rows[IdOf[j]]
           v == version[j]
<1>4. /\ act[a] \in Actor /\ act[a].pc = pc /\ J(a) = j /\ Locals(a, act[a]) /\ IdOf[j] \in Ids
      /\ row \in Row /\ RowOf(a) = row /\ s \in Status /\ v \in Nat
      /\ Place(a, act[a], s, row, v, faults)
  BY <1>1, <1>2, <1>3, ActorTurn DEF RowOf, IInv, TypeOK
<1>5. SavePcs \subseteq Pcs
  BY DEF Pcs
<1> HIDE DEF s, row, v
<1>6. CASE SaveStatus(a)
  <2>1. PICK r \in Actor : r = [act[a] EXCEPT !.pc = "record", !.snap = fsm[J(a)]]
    BY <1>4, <1>5 DEF Actor, SavePcs, s
  <2>2. /\ r.pc = "record" /\ r.snap = s /\ r.ret = act[a].ret /\ r.prev = act[a].prev
        /\ r.job = j
    BY <1>3, <1>4, <2>1 DEF Actor, s
  <2>3. act' = [act EXCEPT ![a] = r] /\ UNCHANGED shared /\ act[a].pc = "save"
    BY <1>6, <2>1 DEF SaveStatus, Goto, At
  <2>4. \A old : Saving(act[a], s, row, v, old) => Saving(r, s, row, v, old)
    BY <2>2, <2>3 DEF Saving
  <2>5. Touches(j) /\ r.pc \in SavePcs /\ row = rows'[IdOf[j]]
    BY <2>2, <2>3 DEF Touches, shared, SavePcs, row
  <2> QED
    BY <1>1, <1>3, <2>2, <2>3, <2>4, <2>5, CoopSaveGoesOn DEF shared, s, row, v
<1>7. CASE SaveRecord(a)
  <2>1. PICK r \in Actor : r = [act[a] EXCEPT !.pc = "put", !.ver = version[J(a)]]
    BY <1>4, <1>5 DEF Actor, SavePcs, v
  <2>2. /\ r.pc = "put" /\ r.ver = v /\ r.ret = act[a].ret /\ r.prev = act[a].prev
        /\ r.job = j /\ r.snap = act[a].snap
    BY <1>3, <1>4, <2>1 DEF Actor, v
  <2>3. act' = [act EXCEPT ![a] = r] /\ UNCHANGED shared /\ act[a].pc = "record"
    BY <1>7, <2>1 DEF SaveRecord, Goto, At
  <2>4. \A old : Saving(act[a], s, row, v, old) => Saving(r, s, row, v, old)
    BY <2>2, <2>3 DEF Saving
  <2>5. Touches(j) /\ r.pc \in SavePcs /\ row = rows'[IdOf[j]]
    BY <2>2, <2>3 DEF Touches, shared, SavePcs, row
  <2> QED
    BY <1>1, <1>3, <2>2, <2>3, <2>4, <2>5, CoopSaveGoesOn DEF shared, s, row, v
<1>8. CASE SavePut(a)
  <2>1. /\ act[a].pc = "put" /\ UNCHANGED <<fsm, version, queue, faults>>
        /\ rows' = [rows EXCEPT ![IdOf[j]] = put(row, act[a].snap, act[a].ver)]
    BY <1>4, <1>8 DEF SavePut, At, row
  <2>2. act[a].snap = s /\ act[a].ver = v /\ put_may_write(row, s, v)
    BY <1>4, <2>1, PutIsWritten
  <2>3. PICK r \in Actor : r = [act[a] EXCEPT !.pc = "get", !.snap = None, !.ver = 0]
    BY <1>4, <1>5 DEF Actor, SavePcs
  <2>4. r.pc = "get" /\ r.ret = act[a].ret /\ r.prev = act[a].prev /\ r.job = j
    BY <1>3, <1>4, <2>3 DEF Actor
  <2>5. act' = [act EXCEPT ![a] = r]
    BY <1>4, <1>8, <2>2, <2>3 DEF SavePut, Goto
  <2>6. put(row, s, v).status = s
    BY <2>2 DEF put
  <2>7. rows'[IdOf[j]].status = s /\ Touches(j)
    BY <1>4, <2>1, <2>2, <2>6 DEF Touches, IInv, TypeOK
  <2>8. \A old : Saving(act[a], s, row, v, old) => Saving(r, s, rows'[IdOf[j]], v, old)
    BY <2>4, <2>7 DEF Saving
  <2> QED
    BY <1>1, <1>3, <2>1, <2>4, <2>5, <2>7, <2>8, CoopSaveGoesOn DEF s, row, v, SavePcs
<1>9. CASE SaveGet(a)
  <2>1. PICK r \in Actor : r = [act[a] EXCEPT !.pc = "refresh", !.ver = RowOf(a).version]
    BY <1>4, <1>5 DEF Actor, SavePcs, Row
  <2>2. /\ r.pc = "refresh" /\ r.ver = row.version /\ r.ret = act[a].ret /\ r.prev = act[a].prev
        /\ r.job = j
    BY <1>3, <1>4, <2>1 DEF Actor
  <2>3. act' = [act EXCEPT ![a] = r] /\ UNCHANGED shared /\ act[a].pc = "get"
    BY <1>9, <2>1 DEF SaveGet, Goto, At
  <2>4. \A old : Saving(act[a], s, row, v, old) => Saving(r, s, row, v, old)
    BY <2>2, <2>3 DEF Saving
  <2>5. Touches(j) /\ r.pc \in SavePcs /\ row = rows'[IdOf[j]]
    BY <2>2, <2>3 DEF Touches, shared, SavePcs, row
  <2> QED
    BY <1>1, <1>3, <2>2, <2>3, <2>4, <2>5, CoopSaveGoesOn DEF shared, s, row, v
<1>10. CASE SaveRefresh(a)
  <2>1. /\ act[a].pc = "refresh" /\ At(a, "refresh") /\ SaveEnds(a, "ok")
        /\ version' = [version EXCEPT ![j] = act[a].ver]
        /\ UNCHANGED <<fsm, rows, queue, faults>>
    BY <1>4, <1>10 DEF SaveRefresh, At
  <2>2. \E old : Saving(act[a], s, row, v, old)
    <3>1. CASE a \in Jobs
      BY <1>4, <2>1, <3>1 DEF Place, OwnerPlace, SavePcs
    <3>2. CASE a \in Cancellers
      BY <1>4, <2>1, <3>2 DEF Place, CancellerPlace, SavePcs
    <3>3. CASE a \in Workers
      <4>1. act[a].ret \in {"healed", "run_saved", "failed_saved", "return", "redelivery_full",
                            "redelivery_stopped"}
        BY <2>1, <3>3, SaveCallers DEF SavePcs
      <4> QED
        BY <1>4, <2>1, <3>3, <4>1 DEF Place, WorkerPlace, SavePcs
    <3> QED
      BY <3>1, <3>2, <3>3 DEF Actors
  <2>3. row.status = s /\ act[a].ver = row.version
    BY <2>1, <2>2 DEF Saving
  <2>4. version'[j] = row.version /\ Touches(j)
    BY <2>1, <2>3 DEF Touches, IInv, TypeOK
  <2>5. Synced(rows[IdOf[j]], version'[j]) /\ rows[IdOf[j]].status = fsm[j]
    BY <2>3, <2>4 DEF Synced, row, s
  <2>6. faults <= faults'
    BY <2>1, ConstantsAssumption DEF IInv, TypeOK
  <2>7. "refresh" \in SavePcs
    BY DEF SavePcs
  <2> QED
    BY <1>3, <2>1, <2>4, <2>5, <2>6, <2>7, CoopSaveEnds
<1> QED
  BY <1>6, <1>7, <1>8, <1>9, <1>10

(* A put raises; nothing else does.                                        *)
LEMMA CoopStoreRaises ==
    ASSUME Cooperative, IInv, CoopInv, IInv', NEW a \in Actors, StoreRaises(a)
    PROVE  CoopInv'
<1>1. /\ At(a, "put") /\ SaveEnds(a, "exc") /\ faults' = faults + 1
      /\ UNCHANGED <<fsm, version, rows, queue>>
  BY DEF StoreRaises, Raise, Cooperative
<1>2. PICK j \in Jobs : j = act[a].job
  BY <1>1, ActorTurn DEF AwaitPoints
<1>3. /\ Locals(a, act[a]) /\ Place(a, act[a], fsm[j], rows[IdOf[j]], version[j], faults)
      /\ act[a].pc = "put" /\ rows[IdOf[j]] \in Row
  BY <1>1, <1>2, ActorTurn DEF AwaitPoints, RowOf
<1>4. put_may_write(rows[IdOf[j]], fsm[j], version[j])
  BY <1>3, PutIsWritten
<1>5. Synced(rows[IdOf[j]], version'[j])
  BY <1>1, <1>4 DEF put_may_write, Synced
<1>6. faults \in Nat /\ faults' > 0 /\ faults <= faults' /\ Touches(j)
  BY <1>1, ConstantsAssumption DEF IInv, TypeOK, Touches
<1>7. "put" \in SavePcs
  BY DEF SavePcs
<1> QED
  BY <1>1, <1>2, <1>5, <1>6, <1>7, CoopSaveEnds

-----------------------------------------------------------------------------
(* Which events the FSM accepts, and where they lead.                      *)
LEMMA TargetsAre ==
    ASSUME NEW s
    PROVE  /\ Targets("INIT", s) = IF s = "Unknown" THEN {"Initializing"} ELSE {}
           /\ Targets("SCHEDULE", s) = IF s = "Initializing" THEN {"Scheduled"} ELSE {}
           /\ Targets("RUN", s) = IF s = "Scheduled" THEN {"InProgress"} ELSE {}
           /\ Targets("FAIL", s) = IF s = "InProgress" THEN {"Failed"} ELSE {}
           /\ Targets("COMPLETE", s) = IF s = "InProgress" THEN {"Completed"} ELSE {}
           /\ Targets("CANCEL", s) = IF s \in {"Scheduled", "InProgress"} THEN {"Cancelled"} ELSE {}
<1>1. ASSUME NEW e, NEW t
      PROVE  t \in Targets(e, s) <=>
               \/ e = "INIT" /\ s = "Unknown" /\ t = "Initializing"
               \/ e = "SCHEDULE" /\ s = "Initializing" /\ t = "Scheduled"
               \/ e = "RUN" /\ s = "Scheduled" /\ t = "InProgress"
               \/ e = "FAIL" /\ s = "InProgress" /\ t = "Failed"
               \/ e = "COMPLETE" /\ s = "InProgress" /\ t = "Completed"
               \/ e = "CANCEL" /\ s \in {"Scheduled", "InProgress"} /\ t = "Cancelled"
  <2>1. t \in Targets(e, s) <=> \E u \in Transitions : u.event = e /\ s \in u.from /\ t = u.to
    BY DEF Targets
  <2>2. ASSUME NEW u \in Transitions, u.event = e, s \in u.from, t = u.to
        PROVE  \/ e = "INIT" /\ s = "Unknown" /\ t = "Initializing"
               \/ e = "SCHEDULE" /\ s = "Initializing" /\ t = "Scheduled"
               \/ e = "RUN" /\ s = "Scheduled" /\ t = "InProgress"
               \/ e = "FAIL" /\ s = "InProgress" /\ t = "Failed"
               \/ e = "COMPLETE" /\ s = "InProgress" /\ t = "Completed"
               \/ e = "CANCEL" /\ s \in {"Scheduled", "InProgress"} /\ t = "Cancelled"
    BY <2>2 DEF Transitions
  <2>3. \A from, to : [event |-> e, from |-> from, to |-> to] \in Transitions /\ s \in from /\ t = to
                       => t \in Targets(e, s)
    BY <2>1
  <2>4. /\ e = "INIT" /\ s = "Unknown" /\ t = "Initializing" => t \in Targets(e, s)
        /\ e = "SCHEDULE" /\ s = "Initializing" /\ t = "Scheduled" => t \in Targets(e, s)
        /\ e = "RUN" /\ s = "Scheduled" /\ t = "InProgress" => t \in Targets(e, s)
        /\ e = "FAIL" /\ s = "InProgress" /\ t = "Failed" => t \in Targets(e, s)
        /\ e = "COMPLETE" /\ s = "InProgress" /\ t = "Completed" => t \in Targets(e, s)
        /\ e = "CANCEL" /\ s \in {"Scheduled", "InProgress"} /\ t = "Cancelled" => t \in Targets(e, s)
    <3>1. /\ [event |-> "INIT", from |-> {"Unknown"}, to |-> "Initializing"] \in Transitions
          /\ [event |-> "SCHEDULE", from |-> {"Initializing"}, to |-> "Scheduled"] \in Transitions
          /\ [event |-> "RUN", from |-> {"Scheduled"}, to |-> "InProgress"] \in Transitions
          /\ [event |-> "FAIL", from |-> {"InProgress"}, to |-> "Failed"] \in Transitions
          /\ [event |-> "COMPLETE", from |-> {"InProgress"}, to |-> "Completed"] \in Transitions
          /\ [event |-> "CANCEL", from |-> {"Scheduled", "InProgress"}, to |-> "Cancelled"] \in Transitions
      BY DEF Transitions
    <3> QED
      BY <2>3, <3>1, Zenon
  <2> QED
    BY <2>1, <2>2, <2>4
<1> QED
  BY <1>1

(* The lookup of Job.apply_event.                                          *)
LEMMA CoopLookup ==
    ASSUME Cooperative, IInv, CoopInv, IInv', NEW a \in Actors, ApplyLookup(a)
    PROVE  CoopInv'
<1>1. PICK site \in Sites :
        /\ At(a, site.at)
        /\ \/ Targets(site.event, fsm[J(a)]) = {} /\ Jump(a, site.fail)
           \/ \E t \in Targets(site.event, fsm[J(a)]) :
                Goto(a, [act[a] EXCEPT !.pc = "commit", !.ret = site.at, !.snap = t])
  BY DEF ApplyLookup
<1>2. site.at \notin AwaitPoints /\ site.at \in Pcs
  BY DEF Sites, AwaitPoints, Pcs, OwnerPcs, WorkerPcs, CancellerPcs
<1>3. PICK j \in Jobs : j = act[a].job
  BY <1>1, <1>2, ActorTurn
<1> DEFINE s == fsm[j]
           row == rows[IdOf[j]]
           v == version[j]
<1>4. /\ Alone(a) /\ act[a] \in Actor /\ act[a].pc = site.at /\ J(a) = j /\ Locals(a, act[a])
      /\ Place(a, act[a], s, row, v, faults)
      /\ a \in Jobs => a = j
  BY <1>1, <1>2, <1>3, ActorTurn DEF RowOf
<1>5. UNCHANGED shared /\ Touches(j)
  BY DEF ApplyLookup, shared, Touches
<1>6. \/ /\ a \in Workers /\ a \notin Jobs /\ a \notin Cancellers /\ site.fail = "return"
         /\ \/ /\ site.at = "run" /\ site.event = "RUN" /\ s = "Scheduled"
               /\ act[a].prev = "Scheduled" /\ row.status = "Scheduled" /\ Synced(row, v)
            \/ site.at = "fail" /\ site.event = "FAIL" /\ s = "InProgress" /\ Settled(s, row, v, faults)
            \/ /\ site.at = "complete" /\ site.event = "COMPLETE" /\ s = "InProgress"
               /\ Settled(s, row, v, faults)
      \/ /\ a \in Cancellers /\ a \notin Jobs /\ a \notin Workers /\ site.fail = "return"
         /\ site.at = "cancel" /\ site.event = "CANCEL" /\ Settled(s, row, v, faults)
      \/ /\ a \in Jobs /\ a \notin Workers /\ a \notin Cancellers /\ site.fail = "rollback"
         /\ \/ /\ site.at = "init" /\ site.event = "INIT" /\ act[a].prev = s
               /\ Settled(s, row, v, faults)
            \/ /\ site.at = "schedule" /\ site.event = "SCHEDULE" /\ act[a].prev = "Unknown"
               /\ s = "Initializing" /\ row.status = None
  <2>1. CASE a \in Workers
    <3>1. /\ a \notin Jobs /\ a \notin Cancellers
          /\ WorkerLocals(act[a]) /\ WorkerPlace(act[a], s, row, v, faults)
      BY <1>4, <2>1, ConstantsAssumption DEF Locals, Place
    <3>2. site.at \in {"run", "fail", "complete"}
      BY <1>4, <3>1 DEF Sites, WorkerLocals, Taken, BeforeRun, AfterRun, SavePcs, WorkerPlace
    <3>3. site.at = "run" => act[a].prev = "Scheduled"
      BY <1>4, <2>1, <3>1, AtBeforeRun DEF WorkerPlace
    <3> QED
      BY <1>4, <2>1, <3>1, <3>2, <3>3 DEF WorkerPlace, Sites
  <2>2. CASE a \in Cancellers
    <3>1. /\ a \notin Jobs /\ a \notin Workers
          /\ CancellerLocals(act[a]) /\ CancellerPlace(act[a], s, row, v, faults)
      BY <1>4, <2>2, ConstantsAssumption DEF Locals, Place
    <3> QED
      BY <1>4, <2>2, <3>1 DEF CancellerLocals, CancellerPlace, Sites, SavePcs
  <2>3. CASE a \in Jobs
    <3>1. /\ a \notin Workers /\ a \notin Cancellers
          /\ OwnerLocals(a, act[a]) /\ OwnerPlace(act[a], s, row, v, faults)
      BY <1>4, <2>3, ConstantsAssumption DEF Locals, Place
    <3>2. site.at \in {"init", "schedule"}
      BY <1>4, <3>1 DEF OwnerLocals, Sites, SavePcs
    <3> QED
      BY <1>4, <2>3, <3>1, <3>2 DEF OwnerPlace, OwnerLocals, Sites, SavePcs
  <2> QED
    BY <2>1, <2>2, <2>3 DEF Actors
<1>7. rows'[IdOf[j]] = row /\ version'[j] = v /\ faults' = faults /\ queue' = queue /\ fsm' = fsm
  BY <1>5 DEF shared
<1>8. j # NoJob
  BY ConstantsAssumption DEF Actors
<1> HIDE DEF s, row, v
<1>9. CASE Targets(site.event, s) = {} /\ Jump(a, site.fail)
  <2>1. CASE a \in Jobs
    <3>1. PICK r \in Actor : r = [act[a] EXCEPT !.pc = "rollback", !.snap = None, !.res = "-"]
      <4>1. "rollback" \in Pcs
        BY DEF Pcs, OwnerPcs
      <4> QED
        BY <1>4, <4>1 DEF Actor
    <3>2. r.pc = "rollback" /\ r.prev = act[a].prev /\ r.job = j
      BY <1>3, <1>4, <3>1 DEF Actor
    <3>3. act' = [act EXCEPT ![a] = r]
      BY <1>6, <1>9, <2>1, <3>1 DEF Jump, Goto
    <3>4. Place(a, r, s, row, v, faults)
      BY <1>6, <2>1, <3>2 DEF Place, OwnerPlace, SavePcs
    <3>5. r.pc \notin AwaitPoints /\ r.pc \notin {"process", "running"}
      BY <3>2 DEF AwaitPoints
    <3> QED
      BY <1>3, <1>4, <1>5, <1>7, <1>8, <3>2, <3>3, <3>4, <3>5, CoopActs DEF s
  <2>2. CASE a \notin Jobs
    <3>1. a \in Cancellers /\ Settled(s, row, v, faults) /\ a \notin Workers
      BY <1>6, <1>9, <2>2, TargetsAre
    <3>2. PICK r \in Actor : r = AtRest(a)
      BY Records DEF IInv
    <3>3. r.pc = "idle" /\ r.job = NoJob
      BY <2>2, <3>1, <3>2 DEF AtRest, Blank
    <3>4. act' = [act EXCEPT ![a] = r]
      BY <1>6, <1>9, <2>2, <3>2 DEF Jump, Goto
    <3>5. Rests(j)' /\ r.pc \in AwaitPoints
      BY <1>7, <3>1, <3>3 DEF Rests, AwaitPoints, s
    <3> QED
      BY <1>3, <1>4, <1>5, <1>7, <2>2, <3>1, <3>3, <3>4, <3>5, CoopActs
  <2> QED
    BY <2>1, <2>2
<1>10. ASSUME NEW t \in Targets(site.event, s),
              Goto(a, [act[a] EXCEPT !.pc = "commit", !.ret = site.at, !.snap = t])
       PROVE  CoopInv'
  <2>1. PICK r \in Actor : r = [act[a] EXCEPT !.pc = "commit", !.ret = site.at, !.snap = t]
    <3>1. t \in Status /\ "commit" \in Pcs
      BY TargetOf DEF Pcs
    <3> QED
      BY <1>2, <1>4, <3>1 DEF Actor
  <2>2. /\ r.pc = "commit" /\ r.ret = site.at /\ r.snap = t
        /\ r.prev = act[a].prev /\ r.job = j
    BY <1>3, <1>4, <2>1 DEF Actor
  <2>3. act' = [act EXCEPT ![a] = r]
    BY <1>10, <2>1 DEF Goto
  <2>4. /\ site.event = "RUN" => t = "InProgress"
        /\ site.event = "FAIL" => t = "Failed"
        /\ site.event = "COMPLETE" => t = "Completed"
        /\ site.event = "CANCEL" => s \in {"Scheduled", "InProgress"} /\ t = "Cancelled"
        /\ site.event = "INIT" => s = "Unknown"
    BY TargetsAre
  <2>5. s = "Unknown" /\ Settled(s, row, v, faults) => row.status = None
    BY DEF Settled, Early
  <2>6. Place(a, r, s, row, v, faults)
    BY <1>6, <2>2, <2>4, <2>5 DEF Place, WorkerPlace, CancellerPlace, OwnerPlace, SavePcs, BeforeRun
  <2>7. r.pc \notin AwaitPoints /\ r.pc \notin {"process", "running"}
    BY <2>2 DEF AwaitPoints
  <2> QED
    BY <1>3, <1>4, <1>5, <1>7, <1>8, <2>2, <2>3, <2>6, <2>7, CoopActs DEF s
<1> QED
  BY <1>1, <1>4, <1>9, <1>10 DEF s

(* Its assignment.                                                         *)
LEMMA CoopCommit ==
    ASSUME Cooperative, IInv, CoopInv, IInv', NEW a \in Actors, ApplyCommit(a)
    PROVE  CoopInv'
<1>1. PICK site \in Sites :
        /\ site.at = act[a].ret
        /\ Goto(a, [act[a] EXCEPT !.pc = site.next, !.ret = site.ret, !.snap = None])
  BY DEF ApplyCommit
<1>2. At(a, "commit") /\ UNCHANGED <<version, rows, queue, faults>>
  BY DEF ApplyCommit
<1>3. PICK j \in Jobs : j = act[a].job
  BY <1>2, ActorTurn DEF AwaitPoints
<1> DEFINE s == fsm[j]
           row == rows[IdOf[j]]
           v == version[j]
<1>4. /\ Alone(a) /\ act[a] \in Actor /\ act[a].pc = "commit" /\ J(a) = j /\ Locals(a, act[a])
      /\ Place(a, act[a], s, row, v, faults) /\ row \in Row
      /\ a \in Jobs => a = j
  BY <1>2, <1>3, ActorTurn DEF RowOf, AwaitPoints
<1>5. fsm' = [fsm EXCEPT ![j] = act[a].snap]
  BY <1>4 DEF ApplyCommit
<1>6. fsm'[j] = act[a].snap /\ Touches(j)
  BY <1>2, <1>5 DEF Touches, IInv, TypeOK
<1>7. site.next \in Pcs \ AwaitPoints /\ site.ret \in Pcs \cup {"return", "-"}
  BY DEF Sites, Pcs, OwnerPcs, WorkerPcs, CancellerPcs, SavePcs, AwaitPoints
<1>8. PICK r \in Actor : r = [act[a] EXCEPT !.pc = site.next, !.ret = site.ret, !.snap = None]
  BY <1>4, <1>7 DEF Actor
<1>9. r.pc = site.next /\ r.ret = site.ret /\ r.prev = act[a].prev /\ r.job = j
  BY <1>3, <1>4, <1>8 DEF Actor
<1>10. act' = [act EXCEPT ![a] = r]
  BY <1>1, <1>8 DEF Goto
<1>11. rows'[IdOf[j]] = row /\ version'[j] = v /\ faults' = faults /\ queue' = queue
  BY <1>2
<1>12. j # NoJob /\ r.pc \notin AwaitPoints
  BY <1>7, <1>9, ConstantsAssumption DEF Actors
<1> HIDE DEF s, row, v
<1>13. CASE a \in Workers
  <2>1. /\ a \notin Jobs /\ a \notin Cancellers
        /\ WorkerLocals(act[a]) /\ WorkerPlace(act[a], s, row, v, faults)
    BY <1>4, <1>13, ConstantsAssumption DEF Locals, Place
  <2>2. \/ /\ site.at = "run" /\ site.next = "save" /\ site.ret = "run_saved"
           /\ act[a].snap = "InProgress" /\ act[a].prev = "Scheduled"
           /\ row.status = "Scheduled" /\ Synced(row, v)
        \/ /\ site.at \in {"fail", "complete"} /\ site.next = "save" /\ site.ret = "return"
           /\ act[a].snap \in {"Failed", "Completed"} /\ s = "InProgress"
           /\ Settled(s, row, v, faults)
    <3>1. site.at \in {"run", "fail", "complete"}
      BY <1>1, <1>4, <2>1 DEF WorkerPlace
    <3>2. site.at = "run" => act[a].prev = "Scheduled"
      BY <1>1, <1>4, <2>1 DEF WorkerPlace, WorkerLocals, Taken, BeforeRun, AfterRun, SavePcs
    <3> QED
      BY <1>1, <1>4, <2>1, <3>1, <3>2 DEF WorkerPlace, Sites
  <2>3. s = "InProgress" /\ Settled(s, row, v, faults) => row.status = "InProgress" /\ Synced(row, v)
    BY DEF Settled
  <2>4. WorkerPlace(r, act[a].snap, row, v, faults)
    BY <1>4, <1>9, <2>2, <2>3, WorkerSavePlaces
  <2>5. r.pc # "process" /\ r.pc # "running"
    BY <1>9, <2>2
  <2> QED
    BY <1>3, <1>4, <1>6, <1>9, <1>10, <1>11, <1>12, <1>13, <2>4, <2>5, CoopWorker
<1>14. CASE a \in Cancellers
  <2>1. /\ a \notin Jobs /\ a \notin Workers
        /\ CancellerLocals(act[a]) /\ CancellerPlace(act[a], s, row, v, faults)
    BY <1>4, <1>14, ConstantsAssumption DEF Locals, Place
  <2>2. /\ site.next = "save" /\ site.ret = "cancel_saved" /\ act[a].snap = "Cancelled"
        /\ s \in {"Scheduled", "InProgress"} /\ Settled(s, row, v, faults)
    BY <1>1, <1>4, <2>1 DEF CancellerPlace, CancellerLocals, Sites, SavePcs
  <2>3. Synced(row, v) /\ row.status \in Replaceable
    BY <2>2 DEF Settled, Replaceable, NonTerminal, Early
  <2>4. CancellerPlace(r, act[a].snap, row, v, faults)
    BY <1>9, <2>2, <2>3 DEF CancellerPlace, Saving, SavePcs
  <2> QED
    BY <1>3, <1>4, <1>6, <1>9, <1>10, <1>11, <1>12, <1>14, <2>2, <2>4, CoopCanceller
<1>15. CASE a \in Jobs
  <2>1. /\ a \notin Workers /\ a \notin Cancellers
        /\ OwnerLocals(a, act[a]) /\ OwnerPlace(act[a], s, row, v, faults)
    BY <1>4, <1>15, ConstantsAssumption DEF Locals, Place
  <2>2. /\ act[a].prev = "Unknown" /\ row.status = None
        /\ \/ site.next = "schedule" /\ act[a].snap = "Initializing"
           \/ site.next = "send" /\ act[a].snap = "Scheduled"
    BY <1>1, <1>4, <2>1 DEF OwnerPlace, OwnerLocals, Sites, SavePcs
  <2>3. OwnerPlace(r, act[a].snap, row, v, faults)
    BY <1>9, <2>2 DEF OwnerPlace, SavePcs
  <2> QED
    BY <1>3, <1>4, <1>6, <1>9, <1>10, <1>11, <1>12, <1>15, <2>2, <2>3, CoopOwner
<1> QED
  BY <1>13, <1>14, <1>15 DEF Actors

-----------------------------------------------------------------------------
(* An actor that is at an await point finds every job settled.             *)
LEMMA AllSettled ==
    ASSUME Cooperative, IInv, CoopInv, NEW a \in Actors, NEW pc \in AwaitPoints, At(a, pc)
    PROVE  Alone(a) /\ ~Busy(a) /\ act[a].pc = pc /\ \A j \in Jobs : Rests(j)
<1>1. Alone(a) /\ ~Busy(a) /\ act[a].pc = pc
  BY DEF At, Alone, Busy, Cooperative
<1>2. \A b \in Actors : ~Busy(b)
  BY <1>1 DEF Alone, Busy
<1> QED
  BY <1>1, <1>2 DEF CoopInv, IdleIsSettled, Rests

(* from_record takes the version of the row; scheduled() starts.           *)
LEMMA CoopOwnerStarts ==
    ASSUME Cooperative, IInv, CoopInv, IInv', NEW j \in Jobs, FromRecord(j) \/ Scheduled(j)
    PROVE  CoopInv'
<1>1. j \in Actors /\ IdOf[j] \in Ids
  BY ConstantsAssumption DEF Actors
<1>2. PICK pc \in {"from_record", "idle"} : At(j, pc)
  BY DEF FromRecord, Scheduled
<1>3. Alone(j) /\ act[j].pc = pc /\ Rests(j)
  BY <1>1, <1>2, AllSettled DEF AwaitPoints
<1>4. act[j] \in Actor /\ act[j].job = j /\ act[j].prev = None
  BY <1>1, <1>3, Records DEF IInv, TokenInv, LocalsOK, Locals, OwnerLocals, SavePcs
<1>5. CASE FromRecord(j)
  <2>1. PICK r \in Actor : r = [act[j] EXCEPT !.pc = "idle", !.snap = None, !.res = "-"]
    <3>1. "idle" \in Pcs
      BY DEF Pcs, OwnerPcs
    <3> QED
      BY <1>4, <3>1 DEF Actor
  <2>2. r.pc = "idle" /\ r.prev = act[j].prev /\ r.pc \in AwaitPoints
    BY <1>4, <2>1 DEF Actor, AwaitPoints
  <2>3. /\ act' = [act EXCEPT ![j] = r] /\ version' = [version EXCEPT ![j] = rows[IdOf[j]].version]
        /\ UNCHANGED <<fsm, rows, queue, faults>>
    BY <1>5, <2>1 DEF FromRecord, Jump, Goto
  <2>4. version'[j] = rows[IdOf[j]].version /\ Touches(j)
    BY <2>3 DEF Touches, IInv, TypeOK
  <2>5. Rests(j)'
    BY <1>3, <2>3, <2>4 DEF Rests, Settled, Synced
  <2> QED
    BY <1>3, <2>2, <2>3, <2>4, <2>5, CoopOwner
<1>6. CASE Scheduled(j)
  <2>1. PICK r \in Actor : r = [act[j] EXCEPT !.pc = "init", !.prev = fsm[j]]
    <3>1. "init" \in Pcs /\ fsm[j] \in Status
      BY DEF Pcs, OwnerPcs, IInv, TypeOK
    <3> QED
      BY <1>4, <3>1 DEF Actor
  <2>2. r.pc = "init" /\ r.prev = fsm[j] /\ r.job = j /\ r.pc \notin AwaitPoints
    BY <1>4, <2>1 DEF Actor, AwaitPoints
  <2>3. act' = [act EXCEPT ![j] = r] /\ UNCHANGED shared
    BY <1>6, <2>1 DEF Scheduled, Goto
  <2>4. OwnerPlace(r, fsm'[j], rows'[IdOf[j]], version'[j], faults') /\ Touches(j)
    BY <1>3, <2>2, <2>3 DEF Rests, OwnerPlace, shared, SavePcs, Touches
  <2>5. act[j].prev # "Unknown"
    BY <1>4 DEF None
  <2> QED
    BY <1>3, <2>2, <2>3, <2>4, <2>5, CoopOwner DEF shared
<1> QED
  BY <1>5, <1>6

(* The owner at a place inside dispatch().                                 *)
LEMMA OwnerTurn ==
    ASSUME Cooperative, IInv, CoopInv, NEW j \in Jobs, NEW pc, At(j, pc), pc \notin AwaitPoints
    PROVE  /\ Alone(j) /\ act[j] \in Actor /\ act[j].pc = pc /\ act[j].job = j
           /\ OwnerLocals(j, act[j])
           /\ OwnerPlace(act[j], fsm[j], rows[IdOf[j]], version[j], faults)
<1>1. j \in Actors
  BY DEF Actors
<1> QED
  BY <1>1, ActorTurn DEF Place, Locals, RowOf

(* The channel accepts the job, or dispatch() goes on to roll back.        *)
LEMMA CoopSend ==
    ASSUME Cooperative, IInv, CoopInv, IInv', NEW j \in Jobs, Send(j)
    PROVE  CoopInv'
<1>1. /\ Alone(j) /\ act[j] \in Actor /\ act[j].pc = "send" /\ act[j].job = j
      /\ OwnerLocals(j, act[j])
      /\ OwnerPlace(act[j], fsm[j], rows[IdOf[j]], version[j], faults)
  BY OwnerTurn DEF Send, AwaitPoints
<1>2. act[j].prev = "Unknown" /\ fsm[j] = "Scheduled" /\ rows[IdOf[j]].status = None
  BY <1>1 DEF OwnerLocals, OwnerPlace, SavePcs
<1>3. UNCHANGED <<fsm, version, rows, faults>> /\ Touches(j)
  BY DEF Send, Touches
<1>4. j \in Actors /\ j \notin Workers /\ j \notin Cancellers /\ j # NoJob
  BY ConstantsAssumption DEF Actors
<1>5. CASE queue' = queue /\ Jump(j, "rollback")
  <2>1. PICK r \in Actor : r = [act[j] EXCEPT !.pc = "rollback", !.snap = None, !.res = "-"]
    <3>1. "rollback" \in Pcs
      BY DEF Pcs, OwnerPcs
    <3> QED
      BY <1>1, <3>1 DEF Actor
  <2>2. r.pc = "rollback" /\ r.prev = "Unknown" /\ r.job = j /\ r.pc \notin AwaitPoints
    BY <1>1, <1>2, <2>1 DEF Actor, AwaitPoints
  <2>3. act' = [act EXCEPT ![j] = r]
    BY <1>5, <2>1 DEF Jump, Goto
  <2>4. OwnerPlace(r, fsm'[j], rows'[IdOf[j]], version'[j], faults')
    BY <1>2, <1>3, <2>2 DEF OwnerPlace, SavePcs
  <2> QED
    BY <1>1, <1>3, <1>5, <2>2, <2>3, <2>4, CoopOwner
<1>6. CASE /\ queue' = Append(queue, j)
           /\ Goto(j, [act[j] EXCEPT !.pc = "save", !.ret = "sched_saved", !.prev = None, !.n = 1])
  <2>1. PICK r \in Actor :
          r = [act[j] EXCEPT !.pc = "save", !.ret = "sched_saved", !.prev = None, !.n = 1]
    <3>1. "save" \in Pcs /\ "sched_saved" \in Pcs
      BY DEF Pcs, SavePcs, OwnerPcs
    <3> QED
      BY <1>1, <3>1 DEF Actor
  <2>2. r.pc = "save" /\ r.ret = "sched_saved" /\ r.job = j /\ r.pc \notin AwaitPoints
    BY <1>1, <2>1 DEF Actor, AwaitPoints
  <2>3. act' = [act EXCEPT ![j] = r]
    BY <1>6, <2>1 DEF Goto
  <2>4. act'[j] = r
    BY <1>4, <2>3 DEF IInv, TypeOK
  <2>5. Queued(j)' /\ \A k \in Jobs : k # j => (Queued(k)' <=> Queued(k))
    BY <1>6, SendKeeps DEF IInv
  <2>6. OwnerPlace(r, fsm'[j], rows'[IdOf[j]], version'[j], faults')
    BY <1>2, <1>3, <2>2 DEF OwnerPlace, Saving, Synced, SavePcs
  <2>7. Placed(j, j)'
    BY <1>4, <2>4, <2>6 DEF Placed, Place
  <2> QED
    BY <1>1, <1>2, <1>3, <1>4, <2>2, <2>3, <2>5, <2>7, CoopFrame
<1> QED
  BY <1>5, <1>6 DEF Send

(* An attempt to persist Scheduled ended; dispatch() rolls back.           *)
LEMMA CoopOwnerEnds ==
    ASSUME Cooperative, IInv, CoopInv, IInv', NEW j \in Jobs, SchedSaved(j) \/ Rollback(j)
    PROVE  CoopInv'
<1>1. PICK pc \in {"sched_saved", "rollback"} : At(j, pc)
  BY DEF SchedSaved, Rollback
<1>2. /\ Alone(j) /\ act[j] \in Actor /\ act[j].pc = pc /\ act[j].job = j
      /\ OwnerLocals(j, act[j])
      /\ OwnerPlace(act[j], fsm[j], rows[IdOf[j]], version[j], faults)
  BY <1>1, OwnerTurn DEF AwaitPoints
<1>3. j \in Actors /\ j # NoJob
  BY ConstantsAssumption DEF Actors
<1>4. PICK rest \in Actor : /\ rest = AtRest(j) /\ rest.pc = "idle"
                            /\ rest.pc \in AwaitPoints /\ rest.prev = None
  BY <1>3, Records DEF IInv, AtRest, Blank, AwaitPoints
<1>5. CASE SchedSaved(j)
  <2>1. /\ act[j].prev = None /\ fsm[j] = "Scheduled" /\ UNCHANGED shared /\ Touches(j)
        /\ Saved(act[j], fsm[j], rows[IdOf[j]], version[j], faults, {None, "Scheduled"})
    BY <1>2, <1>5 DEF SchedSaved, At, OwnerLocals, OwnerPlace, SavePcs, shared, Touches
  <2>2. act[j].prev # "Unknown"
    BY <2>1 DEF None
  <2>3. CASE Jump(j, "return")
    <3>1. act' = [act EXCEPT ![j] = rest]
      BY <1>4, <2>3 DEF Jump, Goto
    <3>2. Rests(j)'
      BY <2>1 DEF Rests, Saved, Settled, Early, Terminal, None, shared
    <3> QED
      BY <1>2, <1>4, <2>1, <2>2, <3>1, <3>2, CoopOwner DEF shared
  <2>4. CASE Goto(j, [act[j] EXCEPT !.pc = "save", !.ret = "sched_saved", !.res = "-", !.n = @ + 1])
    <3>1. PICK r \in Actor :
            r = [act[j] EXCEPT !.pc = "save", !.ret = "sched_saved", !.res = "-", !.n = @ + 1]
      <4>1. "save" \in Pcs /\ "sched_saved" \in Pcs /\ act[j].n + 1 \in Nat
        BY <1>2 DEF Pcs, SavePcs, OwnerPcs, Actor
      <4> QED
        BY <1>2, <4>1 DEF Actor
    <3>2. r.pc = "save" /\ r.ret = "sched_saved" /\ r.job = j /\ r.pc \notin AwaitPoints
      BY <1>2, <3>1 DEF Actor, AwaitPoints
    <3>3. act' = [act EXCEPT ![j] = r]
      BY <2>4, <3>1 DEF Goto
    <3>4. OwnerPlace(r, fsm'[j], rows'[IdOf[j]], version'[j], faults')
      BY <2>1, <3>2 DEF OwnerPlace, Saving, Saved, SavePcs, shared
    <3> QED
      BY <1>2, <2>1, <2>2, <3>2, <3>3, <3>4, CoopOwner DEF shared
  <2> QED
    BY <1>5, <2>3, <2>4 DEF SchedSaved
<1>6. CASE Rollback(j)
  <2>1. /\ act' = [act EXCEPT ![j] = rest] /\ fsm' = [fsm EXCEPT ![j] = act[j].prev]
        /\ UNCHANGED <<version, rows, queue, faults>> /\ act[j].pc = "rollback"
    BY <1>4, <1>6 DEF Rollback, At, Jump, Goto
  <2>2. fsm'[j] = act[j].prev /\ Touches(j)
    BY <2>1 DEF Touches, IInv, TypeOK
  <2>3. CASE act[j].prev = fsm[j] /\ Settled(fsm[j], rows[IdOf[j]], version[j], faults)
             /\ act[j].prev # "Unknown"
    <3>1. Rests(j)'
      BY <2>1, <2>2, <2>3 DEF Rests
    <3> QED
      BY <1>2, <1>4, <2>1, <2>2, <2>3, <3>1, CoopOwner
  <2>4. CASE act[j].prev = "Unknown" /\ rows[IdOf[j]].status = None
    <3>1. Rests(j)'
      BY <2>1, <2>2, <2>4 DEF Rests, Settled
    <3> QED
      BY <1>2, <1>4, <2>1, <2>2, <2>4, <3>1, CoopOwner
  <2> QED
    BY <1>2, <2>1, <2>3, <2>4 DEF OwnerPlace, Settled, Early
<1> QED
  BY <1>5, <1>6

(* cancel() starts; its save() ended.                                      *)
LEMMA CoopCancel ==
    ASSUME Cooperative, IInv, CoopInv, IInv', NEW c \in Cancellers, NEW j \in Jobs, Cancel(c, j)
    PROVE  CoopInv'
<1>1. c \in Actors /\ UNCHANGED <<fsm, version, rows, queue, faults>> /\ Touches(j)
  BY DEF Cancel, Actors, Touches
<1>2. Alone(c) /\ ~Busy(c) /\ Rests(j)
  BY <1>1, AllSettled DEF Cancel, AwaitPoints
<1>3. PICK r \in Actor : r = Blank("cancel", j)
  <2>1. "cancel" \in Pcs
    BY DEF Pcs, CancellerPcs
  <2> QED
    BY <1>1, <2>1, Records DEF IInv
<1>4. r.pc = "cancel" /\ r.job = j /\ r.pc \notin AwaitPoints
  BY <1>3 DEF Blank, AwaitPoints
<1>5. act' = [act EXCEPT ![c] = r]
  BY <1>3 DEF Cancel, Goto
<1>6. CancellerPlace(r, fsm'[j], rows'[IdOf[j]], version'[j], faults')
  BY <1>1, <1>2, <1>4 DEF CancellerPlace, Rests, SavePcs
<1> QED
  BY <1>1, <1>2, <1>4, <1>5, <1>6, CoopCanceller

LEMMA CoopSaveAgain ==
    ASSUME Cooperative, IInv, CoopInv, IInv', NEW c \in Cancellers, NEW j \in Jobs, SaveAgain(c, j)
    PROVE  CoopInv'
<1>1. c \in Actors /\ UNCHANGED <<fsm, version, rows, queue, faults>> /\ Touches(j)
  BY DEF SaveAgain, Actors, Touches, shared
<1>2. Alone(c) /\ ~Busy(c) /\ Rests(j) /\ fsm[j] = "Cancelled"
  BY <1>1, AllSettled DEF SaveAgain, AwaitPoints, is_cancelled
<1>3. PICK b \in Actor : b = Blank("save", j)
  <2>1. "save" \in Pcs
    BY DEF Pcs, SavePcs
  <2> QED
    BY <1>1, <2>1, Records DEF IInv
<1>4. PICK r \in Actor : r = [b EXCEPT !.ret = "cancel_saved"]
  <2>1. "cancel_saved" \in Pcs
    BY DEF Pcs, CancellerPcs
  <2> QED
    BY <2>1 DEF Actor
<1>5. b.pc = "save" /\ b.job = j
  BY <1>3 DEF Blank
<1>6. r.pc = "save" /\ r.job = j /\ r.pc \notin AwaitPoints
  BY <1>4, <1>5 DEF Actor, AwaitPoints
<1>7. act' = [act EXCEPT ![c] = r]
  BY <1>3, <1>4 DEF SaveAgain, Goto
<1>8. Synced(rows[IdOf[j]], version[j]) /\ rows[IdOf[j]].status \in Replaceable
  <2>1. rows[IdOf[j]] \in Row
    BY ConstantsAssumption DEF IInv, TypeOK
  <2> QED
    BY <1>2, <2>1 DEF Rests, Settled, Replaceable, Row, Status, Terminal
<1>9. CancellerPlace(r, fsm'[j], rows'[IdOf[j]], version'[j], faults')
  BY <1>1, <1>2, <1>6, <1>8 DEF CancellerPlace, Saving, SavePcs
<1> QED
  BY <1>1, <1>2, <1>6, <1>7, <1>9, CoopCanceller

LEMMA CoopCancelSaved ==
    ASSUME Cooperative, IInv, CoopInv, IInv', NEW c \in Cancellers, CancelSaved(c)
    PROVE  CoopInv'
<1>1. c \in Actors /\ c \notin Jobs /\ c \notin Workers /\ At(c, "cancel_saved") /\ UNCHANGED shared
  BY ConstantsAssumption DEF CancelSaved, Step, Actors
<1>2. PICK j \in Jobs : j = act[c].job
  BY <1>1, ActorTurn DEF AwaitPoints
<1>3. /\ Alone(c) /\ act[c] \in Actor /\ act[c].pc = "cancel_saved"
      /\ CancellerPlace(act[c], fsm[j], rows[IdOf[j]], version[j], faults) /\ Touches(j)
  BY <1>1, <1>2, ActorTurn DEF AwaitPoints, Place, RowOf, Touches, shared
<1>4. fsm[j] = "Cancelled" /\ Saved(act[c], fsm[j], rows[IdOf[j]], version[j], faults, Replaceable)
  BY <1>3 DEF CancellerPlace
<1>5. PICK r \in Actor : r = AtRest(c)
  BY <1>1, Records DEF IInv
<1>6. r.pc = "idle" /\ r.pc \in AwaitPoints
  BY <1>1, <1>5 DEF AtRest, Blank, AwaitPoints
<1>7. act' = [act EXCEPT ![c] = r]
  BY <1>5 DEF CancelSaved, Step, Jump, Goto
<1>8. Rests(j)'
  BY <1>1, <1>4 DEF Rests, Saved, Settled, Early, Replaceable, NonTerminal, Terminal, None, shared
<1> QED
  BY <1>1, <1>2, <1>3, <1>6, <1>7, <1>8, CoopCanceller DEF shared

-----------------------------------------------------------------------------
(* Every step of the event loop keeps its invariant.                       *)
LEMMA NextCoop ==
    ASSUME Cooperative, IInv, CoopInv, [Next]_vars
    PROVE  CoopInv'
<1>1. IInv'
  BY NextInv
<1>2. ASSUME NEW a \in Actors, SharedStep(a) PROVE CoopInv'
  BY <1>1, <1>2, CoopLookup, CoopCommit, CoopSave, CoopStoreRaises DEF SharedStep
<1>3. ASSUME NEW j \in Jobs, FromRecord(j) \/ Scheduled(j) \/ OwnerStep(j) PROVE CoopInv'
  BY <1>1, <1>2, <1>3, CoopOwnerStarts, CoopSend, CoopOwnerEnds DEF OwnerStep, Actors
<1>4. ASSUME NEW c \in Cancellers, (\E j \in Jobs : Cancel(c, j) \/ SaveAgain(c, j)) \/ CancellerStep(c) PROVE CoopInv'
  BY <1>1, <1>2, <1>4, CoopCancel, CoopSaveAgain, CoopCancelSaved DEF CancellerStep, Actors
<1>5. ASSUME NEW w \in Workers, WorkerStep(w) PROVE CoopInv'
  BY <1>1, <1>2, <1>5, CoopDecisions, CoopBegin, CoopForces, CoopRunSaved, CoopNeverFollows,
     CoopWorkflowLoop, CoopRestore, CoopReceive, CoopRequeue, CoopLoop
     DEF WorkerStep, Actors
<1>6. CASE RequestStop \/ UNCHANGED vars
  BY <1>6, CoopIdle DEF RequestStop, vars
<1> QED
  BY <1>3, <1>4, <1>5, <1>6 DEF Next

(* On one event loop, with a store that answers every get, an actor has    *)
(* its job to itself between two awaits, every save() that does not raise  *)
(* is written, and a job nobody works on is settled (Job.save, Worker).    *)
THEOREM EventLoopInvariant ==
    ASSUME Cooperative
    PROVE  Spec => []CoopInv
<1>1. Init => CoopInv
  BY InitCoop
<1>2. IInv /\ CoopInv /\ [Next]_vars => CoopInv'
  BY NextCoop
<1> QED
  BY <1>1, <1>2, Invariant, PTL DEF Spec

-----------------------------------------------------------------------------
(* A job that nobody works on is settled.                                  *)
LEMMA QuietIsSettled ==
    ASSUME CoopInv, NEW j \in Jobs, Quiet(j)
    PROVE  Settled(fsm[j], rows[IdOf[j]], version[j], faults)
<1>1. \A a \in Actors : J(a) = j => ~Busy(a)
  BY DEF Quiet, HeldBy, J, Busy, AwaitPoints
<1> QED
  BY <1>1 DEF CoopInv, IdleIsSettled

(* No error path of the worker, no rollback and no cancel drops a job that *)
(* is scheduled or in progress (worker.py restores and redelivers it).     *)
THEOREM JobsAreNotLost ==
    ASSUME Cooperative
    PROVE  Spec => []NoJobLost
<1>1. IInv /\ CoopInv => NoJobLost
  <2> SUFFICES ASSUME IInv, CoopInv, NEW j \in Jobs, fsm[j] \in {"Scheduled", "InProgress"}, Quiet(j)
               PROVE  FALSE
    BY DEF NoJobLost
  <2>1. CASE Queued(j)
    BY <2>1 DEF Quiet
  <2>2. CASE \E w \in Workers : J(w) = j
    <3>1. PICK w \in Workers : J(w) = j
      BY <2>2
    <3>2. w \in Actors /\ WorkerLocals(act[w])
      BY WorkerFacts
    <3>3. act[w].pc \notin {"from_record", "idle"}
      BY <3>2 DEF WorkerLocals, Taken, BeforeRun, AfterRun, SavePcs
    <3> QED
      BY <3>1, <3>2, <3>3 DEF Quiet, HeldBy, J
  <2>3. CASE act[j].prev = "Unknown"
    <3>1. j \in Actors /\ OwnerLocals(j, act[j])
      BY DEF Actors, IInv, TokenInv, LocalsOK, Locals
    <3>2. HeldBy(j, j)
      BY <2>3, <3>1 DEF OwnerLocals, HeldBy, SavePcs, None
    <3> QED
      BY <3>1, <3>2 DEF Quiet
  <2> QED
    BY <2>1, <2>2, <2>3 DEF CoopInv, Located
<1> QED
  BY <1>1, Invariant, EventLoopInvariant, PTL

(* Once nobody works on a job, its row agrees with its FSM: a terminal row *)
(* always, and any row when no put raised (Job.save after every event).    *)
THEOREM SnapshotsAgree ==
    ASSUME Cooperative
    PROVE  Spec => []SnapshotAgrees
<1>1. CoopInv => SnapshotAgrees
  BY QuietIsSettled DEF SnapshotAgrees, Settled
<1> QED
  BY <1>1, EventLoopInvariant, PTL

(* No row is written for a job the channel did not accept: dispatch()      *)
(* persists after the send and rolls back before any save().               *)
THEOREM NoGhostRows ==
    ASSUME Cooperative
    PROVE  Spec => []NoGhostRow
<1>1. IInv /\ CoopInv => NoGhostRow
  <2> SUFFICES ASSUME IInv, CoopInv, NEW j \in Jobs, fsm[j] \in Early
               PROVE  rows[IdOf[j]].status = None
    BY DEF NoGhostRow, CoopInv, RowsAreOwned, Early
  <2>1. CASE \A a \in Actors : J(a) = j => ~Busy(a)
    BY <2>1 DEF CoopInv, IdleIsSettled, Settled
  <2>2. ASSUME NEW a \in Actors, J(a) = j, Busy(a) PROVE rows[IdOf[j]].status = None
    <3>1. Place(a, act[a], fsm[j], rows[IdOf[j]], version[j], faults) /\ Locals(a, act[a])
          /\ act[a].pc \notin AwaitPoints
      BY <2>2 DEF CoopInv, BusyIsPlaced, RowOf, Busy, IInv, TokenInv, LocalsOK
    <3>2. CASE a \in Jobs
      BY <3>1, <3>2 DEF Place, OwnerPlace, Locals, OwnerLocals, Settled, Early, SavePcs, AwaitPoints
    <3>3. CASE a \in Cancellers
      BY <3>1, <3>3 DEF Place, CancellerPlace, Locals, CancellerLocals, Settled, Early,
        SavePcs, AwaitPoints
    <3>4. CASE a \in Workers
      <4>1. act[a].job \in Jobs
        BY <3>1, <3>4, WorkerFacts DEF AwaitPoints
      <4>2. fsm[j] \notin Early
        BY <2>2, <3>4, <4>1, WorkerFacts DEF J, IInv, TokenInv, AcceptedIsLate
      <4> QED
        BY <4>2
    <3> QED
      BY <3>2, <3>3, <3>4 DEF Actors
  <2> QED
    BY <2>1, <2>2
<1> QED
  BY <1>1, Invariant, EventLoopInvariant, PTL

(* When the workflows of a job ran, no put raised and nobody works on it,  *)
(* its row is terminal (worker.py saves after COMPLETE and FAIL).          *)
THEOREM FinishedJobsAreDurable ==
    ASSUME Cooperative
    PROVE  Spec => []FinishedIsDurable
<1>1. IInv /\ CoopInv /\ NoJobLost => FinishedIsDurable
  <2> SUFFICES ASSUME IInv, CoopInv, NoJobLost, NEW j \in Jobs, Quiet(j), runs[j] > 0, faults = 0
               PROVE  rows[IdOf[j]].status \in Terminal
    BY DEF FinishedIsDurable
  <2>1. fsm[j] \notin Early /\ fsm[j] \in Status
    BY DEF IInv, TypeOK, TokenInv, FreshIsUntouched, AcceptedIsLate
  <2>2. fsm[j] \notin {"Scheduled", "InProgress"}
    BY DEF NoJobLost
  <2>3. rows[IdOf[j]].status = fsm[j]
    BY <2>1, QuietIsSettled DEF Settled, Early
  <2> QED
    BY <2>1, <2>2, <2>3 DEF Status, NonTerminal, Terminal, Early
<1> QED
  BY <1>1, Invariant, EventLoopInvariant, JobsAreNotLost, PTL

(* A step of the event loop changes the FSM of no job that is Completed or *)
(* Cancelled.                                                              *)
LEMMA StepKeepsFinal ==
    ASSUME Cooperative, IInv, CoopInv, [Next]_vars,
           NEW k \in Jobs, fsm[k] \in {"Completed", "Cancelled"}
    PROVE  fsm'[k] = fsm[k]
<1>1. ASSUME NEW a \in Actors, ApplyCommit(a) PROVE fsm'[k] = fsm[k]
  <2>1. At(a, "commit") /\ fsm' = [fsm EXCEPT ![J(a)] = act[a].snap]
    BY <1>1 DEF ApplyCommit
  <2>2. /\ Locals(a, act[a]) /\ act[a].pc = "commit" /\ J(a) = act[a].job
        /\ Place(a, act[a], fsm[act[a].job], RowOf(a), version[act[a].job], faults)
    BY <2>1, ActorTurn DEF AwaitPoints
  <2>3. fsm[act[a].job] \notin {"Completed", "Cancelled"}
    <3>1. CASE a \in Jobs
      BY <2>2, <3>1 DEF Place, OwnerPlace, Locals, OwnerLocals, SavePcs
    <3>2. CASE a \in Cancellers
      BY <2>2, <3>2 DEF Place, CancellerPlace
    <3>3. CASE a \in Workers
      BY <2>2, <3>3 DEF Place, WorkerPlace
    <3> QED
      BY <3>1, <3>2, <3>3 DEF Actors
  <2> QED
    BY <2>1, <2>2, <2>3 DEF IInv, TypeOK
<1>2. ASSUME NEW j \in Jobs, Rollback(j) PROVE fsm'[k] = fsm[k]
  <2>1. At(j, "rollback") /\ fsm' = [fsm EXCEPT ![j] = act[j].prev]
    BY <1>2 DEF Rollback
  <2>2. fsm[j] \notin {"Completed", "Cancelled"} \/ act[j].prev = fsm[j]
    BY <2>1, OwnerTurn DEF AwaitPoints, OwnerPlace
  <2> QED
    BY <2>1, <2>2 DEF IInv, TypeOK
<1>3. ASSUME NEW w \in Workers, ForceFailed(w) \/ Restore(w) \/ Undeliverable(w)
      PROVE  fsm'[k] = fsm[k]
  <2>1. PICK pc \in {"force_failed", "restore", "undeliverable"} : At(w, pc)
    BY <1>3 DEF ForceFailed, Restore, Undeliverable
  <2>2. PICK t : fsm' = [fsm EXCEPT ![J(w)] = t]
    BY <1>3 DEF ForceFailed, Restore, Undeliverable
  <2>3. fsm[J(w)] \notin {"Completed", "Cancelled"}
    BY <2>1, WorkerTurn DEF AwaitPoints, WorkerPlace
  <2> QED
    BY <2>2, <2>3 DEF IInv, TypeOK
<1>4. ASSUME NEW a \in Actors, SharedStep(a), ~ApplyCommit(a) PROVE fsm' = fsm
  BY <1>4 DEF SharedStep, ApplyLookup, SaveStatus, SaveRecord, SavePut, SaveGet, SaveRefresh,
     StoreRaises, shared
<1>5. ASSUME NEW a \in Actors, SharedStep(a) PROVE fsm'[k] = fsm[k]
  BY <1>1, <1>4, <1>5
<1>6. ASSUME NEW j \in Jobs, FromRecord(j) \/ Scheduled(j) \/ Send(j) \/ SchedSaved(j)
      PROVE  fsm' = fsm
  BY <1>6 DEF FromRecord, Scheduled, Send, SchedSaved, shared
<1>7. ASSUME NEW c \in Cancellers, (\E j \in Jobs : Cancel(c, j) \/ SaveAgain(c, j)) \/ CancelSaved(c)
      PROVE  fsm' = fsm
  BY <1>7 DEF Cancel, SaveAgain, CancelSaved, Step, shared
<1>8. ASSUME NEW w \in Workers, WorkerStep(w), ~SharedStep(w), ~Follow(w),
             ~(ForceFailed(w) \/ Restore(w) \/ Undeliverable(w))
      PROVE  fsm' = fsm
  BY <1>8 DEF WorkerStep, Receive, ReceiveNone, Process, Begin, Heal, Healed, Reheal, RunSaved,
     Skipped, WorkflowLoop, WorkflowReturns, WorkflowRaises, Failed, Finish, Ensure,
     FailOrRestore, FailedSaved, RestoreCheck, Requeue, Redelivery, Restart, Step, shared
<1>9. ASSUME NEW w \in Workers, WorkerStep(w) PROVE fsm'[k] = fsm[k]
  BY <1>3, <1>5, <1>8, <1>9, CoopNeverFollows DEF Actors
<1>10. RequestStop \/ UNCHANGED vars => fsm' = fsm
  BY DEF RequestStop, vars
<1> QED
  BY <1>2, <1>5, <1>6, <1>7, <1>9, <1>10 DEF Next, OwnerStep, CancellerStep, Actors

(* Completed and Cancelled are final for the FSM of a job on one event     *)
(* loop: no restore, rollback or forced Failed takes them back.            *)
THEOREM FinalStaysFinal ==
    ASSUME Cooperative
    PROVE  Spec => TerminalIsFinal
<1>1. IInv /\ CoopInv /\ [Next]_vars =>
        [\A j \in Jobs : fsm[j] \in {"Completed", "Cancelled"} => fsm'[j] = fsm[j]]_vars
  BY StepKeepsFinal
<1> QED
  BY <1>1, Invariant, EventLoopInvariant, PTL DEF Spec, TerminalIsFinal

-----------------------------------------------------------------------------
(* The cancel Event: both ways to be Signalled last, so that a step only   *)
(* has to account for the Cancelled it brings.                             *)

LEMMA InitSignal == Init => SignalInv
<1> SUFFICES ASSUME Init PROVE SignalInv
  OBVIOUS
<1>1. \A j \in Jobs : fsm[j] # "Cancelled"
  BY DEF Init
<1>2. \A a \in Actors : /\ act[a].prev = None /\ act[a].pc # "commit"
                        /\ a \in Cancellers => act[a].job = NoJob
  BY ConstantsAssumption DEF Init, Blank, Actors
<1>3. NoJob \notin Jobs /\ None # "Cancelled"
  BY ConstantsAssumption DEF Actors, None
<1> QED
  BY <1>1, <1>2, <1>3 DEF SignalInv, is_cancelled, BringsCancel, J, Actors

(* The frame of every step: what a step of actor a, which goes to r, may   *)
(* not do.                                                                 *)
LEMMA SignalFrame ==
    ASSUME IInv, SignalInv, NEW a \in Actors, NEW r,
           act' = [act EXCEPT ![a] = r],
           \A j \in Jobs : cancelEvent[j] = TRUE => cancelEvent'[j] = TRUE,
           \A j \in Jobs : fsm'[j] = "Cancelled" =>
               fsm[j] = "Cancelled" \/ (j = act[a].job /\ BringsCancel(act[a])),
           \A j \in Jobs : j # a => fsm'[j] = fsm[j] \/ fsm'[j] \notin Early,
           a \in Jobs => (Fresh(fsm'[a], r) => Fresh(fsm[a], act[a])),
           \A j \in Jobs : (\E i \in 1..Len(queue') : queue'[i] = j) =>
               Queued(j) \/ (j = act[a].job /\ act[a].pc \in {"send", "requeue"}),
           a \in Workers => r.job \in {act[a].job, NoJob} \/ Queued(r.job),
           a \in Workers /\ Leaving(act[a]) => r.job = NoJob \/ Leaving(r),
           a \in Workers /\ Unread(r) => r.prev = None,
           a \in Cancellers /\ r.job \in Jobs => r.job = act[a].job \/ cancelEvent'[r.job] = TRUE,
           r.job \in Jobs /\ BringsCancel(r) =>
               /\ r.job = act[a].job
               /\ \/ BringsCancel(act[a]) \/ fsm[r.job] = "Cancelled" \/ a \in Cancellers
                  \/ a \in Workers /\ act[a].pc = "follow_cancel" /\ Leaving(r)
    PROVE  SignalInv'
<1> USE ConstantsAssumption
<1>1. act'[a] = r /\ \A b \in Actors : b # a => act'[b] = act[b]
  BY DEF IInv, TypeOK
<1>2. \A j \in Jobs : Fresh(fsm'[j], act'[j]) => Fresh(fsm[j], act[j])
  BY <1>1 DEF Fresh, Early, Actors
<1>3. NoJob \notin Jobs
  BY DEF Actors
<1>4. ASSUME NEW j \in Jobs, Spent(j) PROVE Spent(j)'
  <2>1. ~Fresh(fsm[j], act[j]) /\ ~Queued(j)
        /\ \A w \in Workers : act[w].job = j => Leaving(act[w])
    BY <1>4 DEF Spent
  <2>2. a = j => act[a].pc # "send"
    BY <2>1 DEF IInv, TokenInv, LocalsOK, Locals, OwnerLocals, Fresh, SavePcs
  <2>3. a \in Workers /\ act[a].job = j => act[a].pc \notin {"send", "requeue"}
    BY <2>1 DEF Leaving, SavePcs
  <2>4. a \in Cancellers => act[a].pc \notin {"send", "requeue"}
    BY DEF IInv, TokenInv, LocalsOK, Locals, CancellerLocals, SavePcs
  <2>5. a \in Jobs => act[a].job = a /\ act[a].pc # "requeue"
    BY DEF IInv, TokenInv, LocalsOK, Locals, OwnerLocals, SavePcs
  <2>6. ~\E i \in 1..Len(queue') : queue'[i] = j
    BY <2>1, <2>2, <2>3, <2>4, <2>5 DEF Actors
  <2>7. ASSUME NEW w \in Workers, act'[w].job = j PROVE Leaving(act'[w])
    BY <1>1, <1>3, <2>1, <2>7 DEF Actors
  <2>8. ~Fresh(fsm'[j], act'[j])
    BY <1>2, <2>1
  <2> QED
    BY <2>6, <2>7, <2>8 DEF Spent, Queued
<1>5. ASSUME NEW j \in Jobs, Signalled(j) PROVE Signalled(j)'
  BY <1>4, <1>5 DEF Signalled
<1>6. ASSUME NEW j \in Jobs, fsm'[j] = "Cancelled" PROVE Signalled(j)'
  <2>1. Signalled(j)
    BY <1>6 DEF SignalInv, is_cancelled, J
  <2> QED
    BY <1>5, <2>1
<1>7. ASSUME NEW b \in Actors, NEW j \in Jobs, act'[b].job = j, BringsCancel(act'[b])
      PROVE  Signalled(j)'
  <2>2. CASE b # a
    <3>1. act'[b] = act[b]
      BY <1>1, <2>2
    <3>2. Signalled(j)
      BY <1>7, <3>1 DEF SignalInv, J
    <3> QED
      BY <1>5, <3>2
  <2>3. CASE b = a
    <3>1. r.job = j /\ act[a].job = j /\ BringsCancel(r)
      BY <1>1, <1>7, <2>3
    <3>2. CASE BringsCancel(act[a]) \/ fsm[j] = "Cancelled"
      <4>1. Signalled(j)
        BY <3>1, <3>2 DEF SignalInv, is_cancelled, J
      <4> QED
        BY <1>5, <4>1
    <3>3. CASE a \in Cancellers
      <4>1. Signalled(j)
        BY <3>1, <3>3 DEF SignalInv, J, Signalled
      <4> QED
        BY <1>5, <4>1
    <3>4. CASE a \in Workers /\ act[a].pc = "follow_cancel" /\ Leaving(r)
      <4>1. ~Fresh(fsm[j], act[j])
        BY <3>1, <3>4 DEF IInv, TokenInv, FreshIsUntouched
      <4>2. ~Queued(j) /\ \A w \in Workers : act[w].job = j => w = a
        BY <3>1, <3>4 DEF IInv, TokenInv, OnePlace
      <4>3. ~Fresh(fsm'[j], act'[j])
        BY <1>2, <4>1
      <4>4. ~\E i \in 1..Len(queue') : queue'[i] = j
        BY <3>4, <4>2
      <4>5. \A w \in Workers : act'[w].job = j => Leaving(act'[w])
        BY <1>1, <3>4, <4>2 DEF Actors
      <4> QED
        BY <4>3, <4>4, <4>5 DEF Signalled, Spent, Queued
    <3> QED
      BY <3>1, <3>2, <3>3, <3>4
  <2> QED
    BY <2>2, <2>3
<1>8. \A c \in Cancellers : act'[c].job \in Jobs => cancelEvent'[act'[c].job] = TRUE
  BY <1>1 DEF SignalInv, J, Actors
<1>9. \A w \in Workers : Unread(act'[w]) => act'[w].prev = None
  BY <1>1 DEF SignalInv, Actors
<1> QED
  BY <1>6, <1>7, <1>8, <1>9 DEF SignalInv, is_cancelled, J

(* A step that moves no job.                                               *)
LEMMA SignalLocal ==
    ASSUME IInv, SignalInv, NEW a \in Actors, NEW r,
           act' = [act EXCEPT ![a] = r], cancelEvent' = cancelEvent, queue' = queue,
           \/ fsm' = fsm
           \/ \E t \in {"InProgress", "Failed", "Completed"} : fsm' = [fsm EXCEPT ![J(a)] = t],
           a \in Jobs => fsm' = fsm /\ r.prev \in {act[a].prev, None, fsm[a]},
           r.job \in {act[a].job, NoJob},
           a \in Workers /\ Leaving(act[a]) => r.job = NoJob \/ Leaving(r),
           a \in Workers /\ Unread(r) => r.prev = None,
           r.job \in Jobs /\ BringsCancel(r) =>
               \/ BringsCancel(act[a]) \/ fsm[r.job] = "Cancelled" \/ a \in Cancellers
               \/ a \in Workers /\ act[a].pc = "follow_cancel" /\ Leaving(r)
    PROVE  SignalInv'
<1>1. \A j \in Jobs : fsm'[j] = fsm[j] \/ fsm'[j] \in {"InProgress", "Failed", "Completed"}
  BY DEF IInv, TypeOK, J
<1>2. /\ \A j \in Jobs : fsm'[j] = "Cancelled" => fsm[j] = "Cancelled"
      /\ \A j \in Jobs : fsm'[j] = fsm[j] \/ fsm'[j] \notin Early
  BY <1>1 DEF Early
<1>3. a \in Jobs => (Fresh(fsm'[a], r) => Fresh(fsm[a], act[a]))
  <2>1. a \in Jobs /\ ~Fresh(fsm[a], act[a]) => fsm[a] # "Unknown"
    BY DEF IInv, TokenInv, AcceptedIsLate, Early
  <2> SUFFICES ASSUME a \in Jobs, Fresh(fsm'[a], r), ~Fresh(fsm[a], act[a]) PROVE FALSE
    OBVIOUS
  <2>2. fsm'[a] = fsm[a] /\ r.prev # "Unknown" /\ ~(r.prev = None /\ fsm[a] = "Unknown")
    BY <2>1 DEF Fresh, None
  <2> QED
    BY <2>2 DEF Fresh
<1>4. \A j \in Jobs : (\E i \in 1..Len(queue') : queue'[i] = j) => Queued(j)
  BY DEF Queued
<1>5. a \in Cancellers /\ r.job \in Jobs => r.job = act[a].job
  BY ConstantsAssumption DEF Actors
<1>6. r.job \in Jobs => r.job = act[a].job
  BY ConstantsAssumption DEF Actors
<1> QED
  BY <1>2, <1>3, <1>4, <1>5, <1>6, SignalFrame

(* Every actor has this shape at rest.                                     *)
LEMMA SignalReturns ==
    ASSUME IInv, SignalInv, NEW a \in Actors,
           act' = [act EXCEPT ![a] = AtRest(a)], cancelEvent' = cancelEvent, queue' = queue,
           \/ fsm' = fsm
           \/ a \in Workers /\ \E t \in {"InProgress", "Failed", "Completed"} :
                                 fsm' = [fsm EXCEPT ![J(a)] = t]
    PROVE  SignalInv'
<1> DEFINE r == AtRest(a)
<1>1. /\ r.prev = None /\ r.pc # "commit" /\ act' = [act EXCEPT ![a] = r]
      /\ a \in Jobs => r.job = a
      /\ a \notin Jobs => r.job = NoJob
  BY DEF AtRest, Blank
<1> HIDE DEF r
<1>2. ~BringsCancel(r)
  BY <1>1 DEF BringsCancel, None
<1>3. a \in Jobs => act[a].job = a
  BY DEF IInv, TokenInv, LocalsOK, Locals, OwnerLocals
<1>4. a \in Workers => a \notin Jobs
  BY ConstantsAssumption
<1> QED
  BY <1>1, <1>2, <1>3, <1>4, SignalLocal

(* An actor goes on to another place, with or without a call in between.   *)
LEMMA SignalGoesOn ==
    ASSUME IInv, SignalInv, NEW a \in Actors, NEW r \in Actor,
           act' = [act EXCEPT ![a] = r], cancelEvent' = cancelEvent, queue' = queue,
           \/ fsm' = fsm
           \/ a \in Workers /\ \E t \in {"InProgress", "Failed", "Completed"} :
                                 fsm' = [fsm EXCEPT ![J(a)] = t],
           r.job = act[a].job, r.prev \in {act[a].prev, None},
           r.pc = "commit" => r.snap # "Cancelled",
           a \in Workers /\ Leaving(act[a]) => Leaving(r),
           a \in Workers /\ Unread(r) => Unread(act[a])
    PROVE  SignalInv'
<1>1. a \in Workers => a \notin Jobs
  BY ConstantsAssumption
<1>2. BringsCancel(r) => BringsCancel(act[a])
  BY DEF BringsCancel, None
<1>3. a \in Workers /\ Unread(r) => r.prev = None
  BY DEF SignalInv
<1> QED
  BY <1>1, <1>2, <1>3, SignalLocal

(* The steps of Job.save().                                                *)
LEMMA SignalSaveEnds ==
    ASSUME IInv, SignalInv, NEW a \in Actors, NEW res, act[a].pc \in SavePcs, SaveEnds(a, res),
           cancelEvent' = cancelEvent, queue' = queue, fsm' = fsm
    PROVE  SignalInv'
<1>1. CASE act[a].ret = "return"
  BY <1>1, SignalReturns DEF SaveEnds, Goto
<1>2. CASE act[a].ret # "return"
  <2> DEFINE r == [act[a] EXCEPT !.pc = act[a].ret, !.ret = "-", !.snap = None, !.ver = 0,
                                 !.res = res]
  <2>1. act' = [act EXCEPT ![a] = r]
    BY <1>2 DEF SaveEnds, Goto
  <2>2. r.pc = act[a].ret /\ r.job = act[a].job /\ r.prev = act[a].prev
    BY Records, ZenonT(40) DEF IInv, Actor
  <2> HIDE DEF r
  <2>3. act[a].ret \in {"sched_saved", "cancel_saved", "healed", "run_saved", "failed_saved",
                        "redelivery_full", "redelivery_stopped"}
    BY <1>2, SaveCallers DEF Actors
  <2>4. ~Leaving(act[a]) /\ ~Unread(r) /\ (BringsCancel(r) => BringsCancel(act[a]))
    BY <1>2, <2>2, <2>3 DEF Leaving, Unread, BringsCancel, SavePcs
  <2> QED
    BY <2>1, <2>2, <2>4, SignalLocal
<1> QED
  BY <1>1, <1>2

LEMMA SignalSaveGoesOn ==
    ASSUME IInv, SignalInv, NEW a \in Actors, NEW r, act' = [act EXCEPT ![a] = r],
           cancelEvent' = cancelEvent, queue' = queue, fsm' = fsm,
           act[a].pc \in SavePcs, r.pc \in SavePcs,
           r.job = act[a].job, r.prev = act[a].prev, r.ret = act[a].ret
    PROVE  SignalInv'
<1>1. ~Unread(r) /\ (BringsCancel(r) => BringsCancel(act[a])) /\ (Leaving(act[a]) => Leaving(r))
  BY DEF Leaving, Unread, BringsCancel, SavePcs
<1> QED
  BY <1>1, SignalLocal

LEMMA SignalSave ==
    ASSUME IInv, SignalInv, NEW a \in Actors,
           SaveStatus(a) \/ SaveRecord(a) \/ SavePut(a) \/ SaveGet(a) \/ SaveRefresh(a)
    PROVE  SignalInv'
<1>1. act[a].pc \in SavePcs /\ UNCHANGED <<fsm, queue, cancelEvent>>
  BY DEF SaveStatus, SaveRecord, SavePut, SaveGet, SaveRefresh, At, SavePcs, shared
<1>2. act[a] \in Actor
  BY Records DEF IInv
<1>3. CASE \E res : SaveEnds(a, res)
  BY <1>1, <1>3, SignalSaveEnds
<1>4. ASSUME NEW r, Goto(a, r),
             \/ r = [act[a] EXCEPT !.pc = "record", !.snap = fsm[J(a)]]
             \/ r = [act[a] EXCEPT !.pc = "put", !.ver = version[J(a)]]
             \/ r = [act[a] EXCEPT !.pc = "get", !.snap = None, !.ver = 0]
             \/ r = [act[a] EXCEPT !.pc = "refresh", !.ver = RowOf(a).version]
      PROVE  SignalInv'
  <2>1. /\ r.pc \in SavePcs
        /\ r.job = act[a].job /\ r.prev = act[a].prev /\ r.ret = act[a].ret
    BY <1>2, <1>4 DEF Actor, SavePcs
  <2> QED
    BY <1>1, <1>4, <2>1, SignalSaveGoesOn DEF Goto
<1> QED
  BY <1>3, <1>4 DEF SaveStatus, SaveRecord, SavePut, SaveGet, SaveRefresh

LEMMA SignalStoreRaises ==
    ASSUME IInv, SignalInv, NEW a \in Actors, StoreRaises(a)
    PROVE  SignalInv'
<1>1. UNCHANGED <<fsm, queue, cancelEvent>>
  BY DEF StoreRaises
<1>2. CASE act[a].pc \in SavePcs /\ SaveEnds(a, "exc")
  BY <1>1, <1>2, SignalSaveEnds
<1>3. CASE act[a].pc \in {"heal", "reheal"} /\ Jump(a, "fail_or_restore")
  <2> DEFINE r == [act[a] EXCEPT !.pc = "fail_or_restore", !.snap = None, !.res = "-"]
  <2>1. act' = [act EXCEPT ![a] = r]
    BY <1>3 DEF Jump, Goto
  <2>2. r.pc = "fail_or_restore" /\ r.job = act[a].job /\ r.prev = act[a].prev
    BY Records, ZenonT(40) DEF IInv, Actor
  <2> HIDE DEF r
  <2>3. ~Leaving(act[a]) /\ ~Unread(r) /\ (BringsCancel(r) => BringsCancel(act[a]))
    BY <1>3, <2>2 DEF Leaving, Unread, BringsCancel, SavePcs
  <2> QED
    BY <1>1, <2>1, <2>2, <2>3, SignalLocal
<1>4. CASE Jump(a, "return")
  <2>1. act' = [act EXCEPT ![a] = AtRest(a)]
    BY <1>4 DEF Jump, Goto
  <2> QED
    BY <1>1, <2>1, SignalReturns
<1> QED
  BY <1>2, <1>3, <1>4 DEF StoreRaises, At, SavePcs

(* Only CANCEL leads to Cancelled.                                         *)
LEMMA CancelTarget ==
    ASSUME NEW e, NEW s, "Cancelled" \in Targets(e, s)
    PROVE  e = "CANCEL"
<1>1. PICK u \in Transitions : u.event = e /\ "Cancelled" = u.to
  BY DEF Targets
<1> QED
  BY <1>1 DEF Transitions

(* Job.apply_event.                                                        *)
LEMMA SignalLookup ==
    ASSUME IInv, SignalInv, NEW a \in Actors, ApplyLookup(a)
    PROVE  SignalInv'
<1>1. PICK s \in Sites :
        /\ At(a, s.at)
        /\ \/ Targets(s.event, fsm[J(a)]) = {} /\ Jump(a, s.fail)
           \/ \E t \in Targets(s.event, fsm[J(a)]) :
                Goto(a, [act[a] EXCEPT !.pc = "commit", !.ret = s.at, !.snap = t])
  BY DEF ApplyLookup
<1>2. UNCHANGED <<fsm, queue, cancelEvent>> /\ act[a].pc = s.at /\ act[a] \in Actor
  BY <1>1, Records DEF ApplyLookup, At, IInv, shared
<1>3. ~Leaving(act[a])
  BY <1>2 DEF Leaving, Sites, SavePcs
<1>4. CASE s.fail = "return" /\ Jump(a, s.fail)
  <2>1. act' = [act EXCEPT ![a] = AtRest(a)]
    BY <1>4 DEF Jump, Goto
  <2> QED
    BY <1>2, <2>1, SignalReturns
<1>5. CASE s.fail # "return" /\ Jump(a, s.fail)
  <2> DEFINE r == [act[a] EXCEPT !.pc = "rollback", !.snap = None, !.res = "-"]
  <2>1. s.fail = "rollback"
    BY <1>5 DEF Sites
  <2>2. act' = [act EXCEPT ![a] = r]
    BY <1>5, <2>1 DEF Jump, Goto
  <2>3. r.pc = "rollback" /\ r.job = act[a].job /\ r.prev = act[a].prev
    BY <1>2 DEF Actor
  <2> HIDE DEF r
  <2>4. ~Unread(r) /\ (BringsCancel(r) => BringsCancel(act[a]))
    BY <2>3 DEF Unread, BringsCancel
  <2> QED
    BY <1>2, <1>3, <2>2, <2>3, <2>4, SignalLocal
<1>6. ASSUME NEW t \in Targets(s.event, fsm[J(a)]),
             Goto(a, [act[a] EXCEPT !.pc = "commit", !.ret = s.at, !.snap = t])
      PROVE  SignalInv'
  <2> DEFINE r == [act[a] EXCEPT !.pc = "commit", !.ret = s.at, !.snap = t]
  <2>1. act' = [act EXCEPT ![a] = r]
    BY <1>6 DEF Goto
  <2>2. /\ r.pc = "commit" /\ r.ret = s.at /\ r.snap = t
        /\ r.job = act[a].job /\ r.prev = act[a].prev
    BY <1>2 DEF Actor
  <2> HIDE DEF r
  <2>3. t = "Cancelled" => s.event = "CANCEL"
    BY CancelTarget
  <2>4. s.event = "CANCEL" => s.at \in {"cancel", "follow_cancel"}
    BY DEF Sites
  <2>5. /\ s.at = "cancel" => a \in Cancellers
        /\ s.at = "follow_cancel" => a \in Workers
    BY <1>2, ConstantsAssumption
       DEF IInv, TokenInv, LocalsOK, Locals, OwnerLocals, CancellerLocals, WorkerLocals, Taken,
           BeforeRun, AfterRun, SavePcs, Actors
  <2>6. /\ ~Unread(r)
        /\ s.at = "follow_cancel" => Leaving(r)
        /\ BringsCancel(r) => BringsCancel(act[a]) \/ t = "Cancelled"
    BY <2>2 DEF Unread, Leaving, BringsCancel
  <2> QED
    BY <1>2, <1>3, <2>1, <2>2, <2>3, <2>4, <2>5, <2>6, SignalLocal
<1> QED
  BY <1>1, <1>4, <1>5, <1>6

LEMMA SignalCommit ==
    ASSUME IInv, SignalInv, NEW a \in Actors, ApplyCommit(a)
    PROVE  SignalInv'
<1>1. PICK s \in Sites :
        /\ s.at = act[a].ret
        /\ Goto(a, [act[a] EXCEPT !.pc = s.next, !.ret = s.ret, !.snap = None])
  BY DEF ApplyCommit
<1>2. /\ act[a].pc = "commit" /\ act[a] \in Actor /\ Locals(a, act[a])
      /\ fsm' = [fsm EXCEPT ![act[a].job] = act[a].snap]
      /\ UNCHANGED <<cancelEvent, queue>>
  BY Records DEF ApplyCommit, At, IInv, TokenInv, LocalsOK, J
<1> DEFINE r == [act[a] EXCEPT !.pc = s.next, !.ret = s.ret, !.snap = None]
<1>3. act' = [act EXCEPT ![a] = r]
  BY <1>1 DEF Goto
<1>4. r.pc = s.next /\ r.job = act[a].job /\ r.prev = act[a].prev
  BY <1>2 DEF Actor
<1> HIDE DEF r
<1>5. /\ r.pc \notin {"commit", "receive", "process", "begin"}
      /\ act[a].ret = "follow_cancel" => r.pc = "ensure"
  BY <1>1, <1>4 DEF Sites
<1>6. /\ ~Unread(r)
      /\ BringsCancel(r) => BringsCancel(act[a])
      /\ Leaving(act[a]) => Leaving(r)
      /\ act[a].snap = "Cancelled" => BringsCancel(act[a])
  BY <1>2, <1>4, <1>5 DEF Unread, BringsCancel, Leaving, SavePcs
<1>7. a \in Jobs => act[a].job = a /\ act[a].prev = "Unknown"
  BY <1>2 DEF Locals, OwnerLocals, SavePcs
<1>8. a \notin Jobs => act[a].snap \in Late
  BY <1>2 DEF Locals, CancellerLocals, WorkerLocals, Taken, BeforeRun, AfterRun, SavePcs, Actors
<1>9. \A j \in Jobs : fsm'[j] = fsm[j] \/ (j = act[a].job /\ fsm'[j] = act[a].snap)
  BY <1>2 DEF IInv, TypeOK
<1>10. \A j \in Jobs : j # a => fsm'[j] = fsm[j] \/ fsm'[j] \notin Early
  BY <1>7, <1>8, <1>9 DEF Late, Early
<1>11. \A j \in Jobs : fsm'[j] = "Cancelled" =>
         fsm[j] = "Cancelled" \/ (j = act[a].job /\ BringsCancel(act[a]))
  BY <1>6, <1>9
<1>12. a \in Jobs => Fresh(fsm[a], act[a])
  BY <1>7 DEF Fresh
<1>13. \A j \in Jobs : (\E i \in 1..Len(queue') : queue'[i] = j) => Queued(j)
  BY <1>2 DEF Queued
<1> QED
  BY <1>2, <1>3, <1>4, <1>6, <1>10, <1>11, <1>12, <1>13, SignalFrame

(* The owner.                                                              *)
LEMMA SignalOwner ==
    ASSUME IInv, SignalInv, NEW j \in Jobs,
           FromRecord(j) \/ Scheduled(j) \/ SchedSaved(j)
    PROVE  SignalInv'
<1>1. /\ j \in Actors /\ j \notin Workers /\ act[j] \in Actor
      /\ act[j].job = j /\ J(j) = j
  BY Records, ConstantsAssumption DEF Actors, IInv, TokenInv, LocalsOK, Locals, OwnerLocals, J
<1>2. UNCHANGED <<fsm, cancelEvent, queue>>
  BY DEF FromRecord, Scheduled, SchedSaved, shared
<1>3. CASE Jump(j, "return")
  BY <1>1, <1>2, <1>3, SignalReturns DEF Jump, Goto
<1>4. ASSUME NEW r, Goto(j, r),
             \/ r = [act[j] EXCEPT !.pc = "idle", !.snap = None, !.res = "-"]
             \/ r = [act[j] EXCEPT !.pc = "init", !.prev = fsm[j]]
             \/ r = [act[j] EXCEPT !.pc = "save", !.ret = "sched_saved", !.res = "-", !.n = @ + 1]
      PROVE  SignalInv'
  <2>1. /\ r.pc # "commit" /\ r.job = act[j].job /\ r.prev \in {act[j].prev, fsm[j]}
    BY <1>1, <1>4 DEF Actor
  <2>2. BringsCancel(r) => BringsCancel(act[j]) \/ fsm[r.job] = "Cancelled"
    BY <1>1, <2>1 DEF BringsCancel
  <2> QED
    BY <1>1, <1>2, <1>4, <2>1, <2>2, SignalLocal DEF Goto
<1> QED
  BY <1>3, <1>4 DEF FromRecord, Scheduled, SchedSaved, Jump

LEMMA SignalSend ==
    ASSUME IInv, SignalInv, NEW j \in Jobs, Send(j)
    PROVE  SignalInv'
<1>1. /\ j \in Actors /\ j \notin Workers /\ j \notin Cancellers /\ act[j] \in Actor
      /\ act[j].job = j /\ act[j].pc = "send" /\ UNCHANGED <<fsm, cancelEvent>>
  BY Records, ConstantsAssumption
     DEF Actors, IInv, TokenInv, LocalsOK, Locals, OwnerLocals, Send, At
<1>2. Fresh(fsm[j], act[j])
  BY <1>1 DEF IInv, TokenInv, LocalsOK, Locals, OwnerLocals, Fresh, SavePcs
<1>3. queue' = queue \/ queue' = Append(queue, j)
  BY DEF Send
<1>4. \A k \in Jobs : (\E i \in 1..Len(queue') : queue'[i] = k) => Queued(k) \/ k = j
  <2>1. CASE queue' = queue
    BY <2>1 DEF Queued
  <2>2. CASE queue' = Append(queue, j)
    BY <2>2, SendKeeps DEF IInv, Queued
  <2> QED
    BY <1>3, <2>1, <2>2
<1>5. PICK r : /\ act' = [act EXCEPT ![j] = r]
               /\ \/ r = [act[j] EXCEPT !.pc = "save", !.ret = "sched_saved", !.prev = None, !.n = 1]
                  \/ r = [act[j] EXCEPT !.pc = "rollback", !.snap = None, !.res = "-"]
  <2>1. \/ Goto(j, [act[j] EXCEPT !.pc = "save", !.ret = "sched_saved", !.prev = None, !.n = 1])
        \/ Goto(j, [act[j] EXCEPT !.pc = "rollback", !.snap = None, !.res = "-"])
    BY DEF Send, Jump
  <2> QED
    BY <2>1, Zenon DEF Goto
<1>6. r.pc # "commit" /\ r.job = act[j].job /\ r.prev \in {act[j].prev, None}
  BY <1>1, <1>5 DEF Actor
<1>7. BringsCancel(r) => BringsCancel(act[j])
  BY <1>6 DEF BringsCancel, None
<1> QED
  BY <1>1, <1>2, <1>4, <1>5, <1>6, <1>7, SignalFrame

LEMMA SignalRollback ==
    ASSUME IInv, SignalInv, NEW j \in Jobs, Rollback(j)
    PROVE  SignalInv'
<1> DEFINE r == AtRest(j)
<1>1. /\ j \in Actors /\ j \notin Workers /\ j \notin Cancellers
      /\ act[j].job = j /\ act[j].pc = "rollback" /\ UNCHANGED <<queue, cancelEvent>>
      /\ act' = [act EXCEPT ![j] = r] /\ fsm' = [fsm EXCEPT ![j] = act[j].prev]
  BY ConstantsAssumption
     DEF Actors, IInv, TokenInv, LocalsOK, Locals, OwnerLocals, Rollback, At, Jump, Goto
<1>2. r.job = j /\ r.prev = None /\ r.pc = "idle"
  BY DEF AtRest, Blank
<1> HIDE DEF r
<1>3. ~BringsCancel(r)
  BY <1>2 DEF BringsCancel, None
<1>4. fsm'[j] = act[j].prev /\ \A k \in Jobs : k # j => fsm'[k] = fsm[k]
  BY <1>1 DEF IInv, TypeOK
<1>5. Fresh(fsm'[j], r) => Fresh(fsm[j], act[j])
  BY <1>2, <1>4 DEF Fresh, None
<1>6. \A k \in Jobs : fsm'[k] = "Cancelled" =>
        fsm[k] = "Cancelled" \/ (k = act[j].job /\ BringsCancel(act[j]))
  BY <1>1, <1>4 DEF BringsCancel
<1>7. \A k \in Jobs : (\E i \in 1..Len(queue') : queue'[i] = k) => Queued(k)
  BY <1>1 DEF Queued
<1> QED
  BY <1>1, <1>2, <1>3, <1>4, <1>5, <1>6, <1>7, SignalFrame

(* The canceller: the Event is set before the FSM moves.                   *)
LEMMA SignalCancel ==
    ASSUME IInv, SignalInv, NEW c \in Cancellers, NEW j \in Jobs, Cancel(c, j)
    PROVE  SignalInv'
<1> DEFINE r == Blank("cancel", j)
<1>1. /\ c \in Actors /\ c \notin Workers /\ c \notin Jobs
      /\ act' = [act EXCEPT ![c] = r] /\ UNCHANGED <<fsm, queue>>
      /\ cancelEvent' = [cancelEvent EXCEPT ![j] = TRUE]
  BY ConstantsAssumption DEF Actors, Cancel, Goto
<1>2. r.job = j /\ r.prev = None /\ r.pc = "cancel"
  BY DEF Blank
<1> HIDE DEF r
<1>3. ~BringsCancel(r)
  BY <1>2 DEF BringsCancel, None
<1>4. cancelEvent'[j] = TRUE /\ \A k \in Jobs : cancelEvent[k] = TRUE => cancelEvent'[k] = TRUE
  BY <1>1 DEF IInv, TypeOK
<1>5. \A k \in Jobs : (\E i \in 1..Len(queue') : queue'[i] = k) => Queued(k)
  BY <1>1 DEF Queued
<1> QED
  BY <1>1, <1>2, <1>3, <1>4, <1>5, SignalFrame

LEMMA SignalSaveAgain ==
    ASSUME IInv, SignalInv, NEW c \in Cancellers, NEW j \in Jobs, SaveAgain(c, j)
    PROVE  SignalInv'
<1> DEFINE r == [Blank("save", j) EXCEPT !.ret = "cancel_saved"]
<1>1. /\ c \in Actors /\ c \notin Workers /\ c \notin Jobs
      /\ act' = [act EXCEPT ![c] = r] /\ UNCHANGED <<fsm, queue, cancelEvent>>
      /\ cancelEvent[j] = TRUE
  BY ConstantsAssumption DEF Actors, SaveAgain, Goto, shared, IInv, TypeOK
<1>2. r.job = j /\ r.prev = None /\ r.pc = "save"
  BY DEF Blank
<1> HIDE DEF r
<1>3. ~BringsCancel(r)
  BY <1>2 DEF BringsCancel, None
<1>4. \A k \in Jobs : (\E i \in 1..Len(queue') : queue'[i] = k) => Queued(k)
  BY <1>1 DEF Queued
<1> QED
  BY <1>1, <1>2, <1>3, <1>4, SignalFrame

LEMMA SignalCancelSaved ==
    ASSUME IInv, SignalInv, NEW c \in Cancellers, CancelSaved(c)
    PROVE  SignalInv'
<1>1. /\ c \in Actors /\ c \notin Workers /\ c \notin Jobs /\ act[c] \in Actor
      /\ UNCHANGED <<fsm, cancelEvent, queue>> /\ Jump(c, "return")
  BY Records, ConstantsAssumption DEF Actors, IInv, CancelSaved, Step, shared
<1> QED
  BY <1>1, SignalReturns DEF Jump, Goto

(* A worker decides where to go on, or calls save().                       *)
LEMMA SignalJump ==
    ASSUME IInv, SignalInv, NEW w \in Workers, NEW next \in Pcs \cup {"return"},
           Jump(w, next), UNCHANGED <<fsm, cancelEvent, queue>>,
           next \notin {"commit", "receive", "process"},
           next = "begin" => act[w].pc = "process",
           next # "return" => act[w].pc \notin {"ensure", "commit"} \cup SavePcs
    PROVE  SignalInv'
<1>1. w \in Actors /\ act[w] \in Actor
  BY WorkerFacts
<1>2. CASE next = "return"
  BY <1>1, <1>2, SignalReturns DEF Jump, Goto
<1>3. CASE next # "return"
  <2> DEFINE r == [act[w] EXCEPT !.pc = next, !.snap = None, !.res = "-"]
  <2>1. act' = [act EXCEPT ![w] = r]
    BY <1>3 DEF Jump, Goto
  <2>2. /\ r \in Actor
        /\ r.pc = next /\ r.job = act[w].job /\ r.prev = act[w].prev
    BY <1>1, <1>3 DEF Actor
  <2> HIDE DEF r
  <2>3. ~Leaving(act[w]) /\ (Unread(r) => Unread(act[w])) /\ r.pc # "commit"
    BY <1>3, <2>2 DEF Leaving, Unread
  <2> QED
    BY <1>1, <2>1, <2>2, <2>3, SignalGoesOn
<1> QED
  BY <1>2, <1>3

LEMMA SignalCall ==
    ASSUME IInv, SignalInv, NEW w \in Workers,
           NEW pc \in {"save", "undeliverable"}, NEW ret \in Pcs \cup {"return"},
           Call(w, pc, ret), UNCHANGED <<cancelEvent, queue>>,
           fsm' = fsm \/ fsm' = [fsm EXCEPT ![J(w)] = "Failed"],
           act[w].pc \notin {"commit"} \cup SavePcs,
           act[w].pc = "ensure" => pc = "save" /\ ret = "return"
    PROVE  SignalInv'
<1> DEFINE r == [act[w] EXCEPT !.pc = pc, !.ret = ret]
<1>1. w \in Actors /\ act[w] \in Actor
  BY WorkerFacts
<1>2. act' = [act EXCEPT ![w] = r]
  BY DEF Call, Goto
<1>3. pc \in Pcs
  BY DEF Pcs, SavePcs, WorkerPcs
<1>4. r \in Actor /\ r.pc = pc /\ r.ret = ret /\ r.job = act[w].job /\ r.prev = act[w].prev
  BY <1>1, <1>3 DEF Actor
<1> HIDE DEF r
<1>5. (Leaving(act[w]) => Leaving(r)) /\ ~Unread(r) /\ r.pc # "commit"
  BY <1>4 DEF Leaving, Unread, SavePcs
<1> QED
  BY <1>1, <1>2, <1>4, <1>5, SignalGoesOn

LEMMA SignalDecides ==
    ASSUME IInv, SignalInv, NEW w \in Workers,
           \/ Process(w) \/ Healed(w) \/ Reheal(w) \/ WorkflowReturns(w) \/ WorkflowRaises(w)
           \/ Failed(w) \/ Finish(w) \/ FailOrRestore(w) \/ FailedSaved(w) \/ RestoreCheck(w)
    PROVE  SignalInv'
<1>1. PICK pc \in WorkerPcs, next \in WorkerPcs \cup {"return"} :
        /\ Step(w, pc, next)
        /\ pc # "ensure" /\ next \notin {"receive", "process"}
        /\ next = "begin" => pc = "process"
  BY DEF Process, Healed, Reheal, WorkflowReturns, WorkflowRaises, Failed, Finish, FailOrRestore,
     FailedSaved, RestoreCheck, WorkerPcs
<1>2. act[w].pc = pc /\ Jump(w, next) /\ UNCHANGED <<fsm, cancelEvent, queue>>
  BY <1>1 DEF Step, At, shared
<1>3. pc \notin {"ensure", "commit"} \cup SavePcs /\ next # "commit"
      /\ next \in Pcs \cup {"return"}
  BY <1>1 DEF WorkerPcs, SavePcs, Pcs
<1> QED
  BY <1>1, <1>2, <1>3, SignalJump

LEMMA SignalSaves ==
    ASSUME IInv, SignalInv, NEW w \in Workers,
           Heal(w) \/ Ensure(w) \/ ForceFailed(w) \/ Undeliverable(w)
    PROVE  SignalInv'
<1>1. {"run", "healed", "failed_saved", "redelivery_full", "redelivery_stopped"} \subseteq Pcs
  BY DEF Pcs, WorkerPcs
<1>2. CASE Heal(w)
  <2>1. act[w].pc = "heal" /\ UNCHANGED <<fsm, cancelEvent, queue>>
    BY <1>2 DEF Heal, At, shared
  <2>2. Call(w, "save", "healed") \/ Jump(w, "run")
    BY <1>2 DEF Heal
  <2> QED
    BY <1>1, <2>1, <2>2, SignalCall, SignalJump DEF SavePcs
<1>3. CASE Ensure(w)
  <2>1. act[w].pc = "ensure" /\ UNCHANGED <<fsm, cancelEvent, queue>>
    BY <1>3 DEF Ensure, At, shared
  <2>2. Call(w, "save", "return") \/ Jump(w, "return")
    BY <1>3 DEF Ensure
  <2> QED
    BY <1>1, <2>1, <2>2, SignalCall, SignalJump DEF SavePcs
<1>4. CASE ForceFailed(w)
  <2>1. /\ act[w].pc = "force_failed" /\ UNCHANGED <<cancelEvent, queue>>
        /\ fsm' = [fsm EXCEPT ![J(w)] = "Failed"] /\ Call(w, "save", "failed_saved")
    BY <1>4 DEF ForceFailed, At
  <2> QED
    BY <1>1, <2>1, SignalCall DEF SavePcs
<1>5. CASE Undeliverable(w)
  <2>1. /\ act[w].pc = "undeliverable" /\ UNCHANGED <<cancelEvent, queue>>
        /\ fsm' = [fsm EXCEPT ![J(w)] = "Failed"] /\ Call(w, "save", act[w].ret)
    BY <1>5 DEF Undeliverable, At
  <2>2. act[w].ret \in {"redelivery_full", "redelivery_stopped"}
    BY <2>1, WorkerFacts DEF WorkerLocals, Taken, BeforeRun, AfterRun, SavePcs
  <2> QED
    BY <1>1, <2>1, <2>2, SignalCall DEF SavePcs
<1> QED
  BY <1>2, <1>3, <1>4, <1>5

(* prev_state is read.                                                     *)
LEMMA SignalBegin ==
    ASSUME IInv, SignalInv, NEW w \in Workers, Begin(w)
    PROVE  SignalInv'
<1> DEFINE r == [act[w] EXCEPT !.pc = "heal", !.prev = fsm[J(w)]]
<1>1. /\ act[w].pc = "begin" /\ act' = [act EXCEPT ![w] = r]
      /\ UNCHANGED <<fsm, cancelEvent, queue>>
  BY DEF Begin, At, Goto, shared
<1>2. w \in Actors /\ w \notin Jobs /\ act[w] \in Actor
  BY WorkerFacts
<1>3. r.pc = "heal" /\ r.job = act[w].job /\ r.prev = fsm[act[w].job]
  BY <1>2 DEF Actor, J
<1> HIDE DEF r
<1>4. /\ ~Leaving(act[w]) /\ ~Unread(r)
      /\ BringsCancel(r) => fsm[r.job] = "Cancelled"
  BY <1>1, <1>3 DEF Leaving, Unread, BringsCancel, SavePcs
<1> QED
  BY <1>1, <1>2, <1>3, <1>4, SignalLocal

LEMMA SignalRun ==
    ASSUME IInv, SignalInv, NEW w \in Workers, RunSaved(w) \/ Skipped(w) \/ WorkflowLoop(w)
    PROVE  SignalInv'
<1>1. /\ act[w].pc \in {"run_saved", "skipped", "workflows"}
      /\ UNCHANGED <<fsm, cancelEvent, queue>>
  BY DEF RunSaved, Skipped, WorkflowLoop, At, shared
<1>2. w \in Actors /\ act[w] \in Actor
  BY WorkerFacts
<1>3. ~Leaving(act[w]) /\ act[w].pc \notin {"ensure", "commit"} \cup SavePcs
  BY <1>1 DEF Leaving, SavePcs
<1>4. CASE \E next \in {"skipped", "fail_or_restore", "finish", "ensure"} : Jump(w, next)
  <2>1. {"skipped", "fail_or_restore", "finish", "ensure"} \subseteq Pcs
    BY DEF Pcs, WorkerPcs
  <2> QED
    BY <1>1, <1>3, <1>4, <2>1, SignalJump
<1>5. ASSUME NEW r, Goto(w, r),
             \/ r = [act[w] EXCEPT !.pc = "workflows", !.prev = None, !.res = "-"]
             \/ r = [act[w] EXCEPT !.pc = "follow", !.snap = RowOf(w).status]
             \/ r = [act[w] EXCEPT !.pc = "running", !.n = @ + 1]
      PROVE  SignalInv'
  <2>1. /\ r.pc \in {"workflows", "follow", "running"}
        /\ r.job = act[w].job /\ r.prev \in {act[w].prev, None}
    BY <1>2, <1>5 DEF Actor
  <2>2. ~Unread(r) /\ (BringsCancel(r) => BringsCancel(act[w]))
    BY <2>1 DEF Unread, BringsCancel, None
  <2>3. w \notin Jobs
    BY WorkerFacts
  <2> QED
    BY <1>1, <1>2, <1>3, <1>5, <2>1, <2>2, <2>3, SignalLocal DEF Goto
<1> QED
  BY <1>4, <1>5 DEF RunSaved, Skipped, WorkflowLoop

LEMMA SignalFollow ==
    ASSUME IInv, SignalInv, NEW w \in Workers, Follow(w)
    PROVE  SignalInv'
<1>1. act[w].pc = "follow" /\ UNCHANGED <<cancelEvent, queue>> /\ w \in Actors
  BY WorkerFacts DEF Follow, At
<1>2. CASE fsm' = fsm /\ \E next \in {"ensure", "follow_cancel", "fail_or_restore"} : Jump(w, next)
  <2>1. {"ensure", "follow_cancel", "fail_or_restore"} \subseteq Pcs
    BY DEF Pcs, WorkerPcs
  <2> QED
    BY <1>1, <1>2, <2>1, SignalJump DEF SavePcs
<1>3. CASE /\ act[w].snap \in {"InProgress", "Failed", "Completed"}
           /\ Jump(w, "return") /\ fsm' = [fsm EXCEPT ![J(w)] = act[w].snap]
  BY <1>1, <1>3, SignalReturns DEF Jump, Goto
<1> QED
  BY <1>2, <1>3 DEF Follow

LEMMA SignalRestore ==
    ASSUME IInv, SignalInv, NEW w \in Workers, Restore(w)
    PROVE  SignalInv'
<1> DEFINE r == [act[w] EXCEPT !.pc = "requeue", !.snap = None, !.res = "-"]
<1>1. /\ act[w].pc = "restore" /\ UNCHANGED <<cancelEvent, queue>>
      /\ act' = [act EXCEPT ![w] = r] /\ fsm' = [fsm EXCEPT ![act[w].job] = act[w].prev]
  BY DEF Restore, At, Jump, Goto, J
<1>2. w \in Actors /\ w \notin Jobs /\ w \notin Cancellers /\ act[w] \in Actor
  BY WorkerFacts
<1>3. r.pc = "requeue" /\ r.job = act[w].job /\ r.prev = act[w].prev
  BY <1>2 DEF Actor
<1> HIDE DEF r
<1>4. ~Leaving(act[w]) /\ ~Unread(r) /\ (BringsCancel(r) => BringsCancel(act[w]))
  BY <1>1, <1>3 DEF Leaving, Unread, BringsCancel, SavePcs
<1>5. act[w].prev \notin Early
  BY <1>1, AtBeforeRun DEF BeforeRun
<1>6. \A j \in Jobs : fsm'[j] = fsm[j] \/ (j = act[w].job /\ fsm'[j] = act[w].prev)
  BY <1>1 DEF IInv, TypeOK
<1>7. \A j \in Jobs : fsm'[j] = fsm[j] \/ fsm'[j] \notin Early
  BY <1>5, <1>6
<1>8. \A j \in Jobs : fsm'[j] = "Cancelled" =>
        fsm[j] = "Cancelled" \/ (j = act[w].job /\ BringsCancel(act[w]))
  BY <1>6 DEF BringsCancel
<1>9. \A j \in Jobs : (\E i \in 1..Len(queue') : queue'[i] = j) => Queued(j)
  BY <1>1 DEF Queued
<1> QED
  BY <1>1, <1>2, <1>3, <1>4, <1>7, <1>8, <1>9, SignalFrame

(* The channel.                                                            *)
LEMMA SignalReceive ==
    ASSUME IInv, SignalInv, NEW w \in Workers, Receive(w)
    PROVE  SignalInv'
<1> DEFINE r == [act[w] EXCEPT !.pc = "process", !.job = Head(queue)]
<1>1. /\ act[w].pc = "receive" /\ queue # <<>> /\ queue' = Tail(queue)
      /\ act' = [act EXCEPT ![w] = r] /\ UNCHANGED <<fsm, cancelEvent>>
  BY DEF Receive, At, Goto
<1>2. w \in Actors /\ w \notin Jobs /\ w \notin Cancellers /\ act[w] \in Actor
  BY WorkerFacts
<1>3. r.pc = "process" /\ r.job = Head(queue) /\ r.prev = act[w].prev
  BY <1>2 DEF Actor
<1> HIDE DEF r
<1>4. /\ \A x : (\E i \in 1..Len(queue') : queue'[i] = x) => Queued(x)
      /\ Queued(Head(queue))
  BY <1>1, ReceiveQueue DEF IInv, TokenInv, OnePlace
<1>5. r.prev = None
  BY <1>1, <1>3 DEF SignalInv, Unread
<1>6. ~Leaving(act[w]) /\ ~BringsCancel(r)
  BY <1>1, <1>3, <1>5 DEF Leaving, BringsCancel, SavePcs, None
<1> QED
  BY <1>1, <1>2, <1>3, <1>4, <1>5, <1>6, SignalFrame

LEMMA SignalLoop ==
    ASSUME IInv, SignalInv, NEW w \in Workers, ReceiveNone(w) \/ Redelivery(w) \/ Restart(w)
    PROVE  SignalInv'
<1>1. w \in Actors /\ w \notin Jobs /\ UNCHANGED <<fsm, cancelEvent, queue>>
  BY WorkerFacts DEF ReceiveNone, Redelivery, Restart, shared
<1>2. PICK r : act' = [act EXCEPT ![w] = r] /\ r.job = NoJob /\ r.prev = None /\ r.pc # "commit"
  <2> DEFINE kept == [Blank("receive", NoJob) EXCEPT !.redelivery = TRUE]
  <2>1. \A pc \in {"receive", "raised", "returned"} :
          /\ Blank(pc, NoJob).job = NoJob /\ Blank(pc, NoJob).prev = None
          /\ Blank(pc, NoJob).pc # "commit"
    BY DEF Blank
  <2>2. kept.job = NoJob /\ kept.prev = None /\ kept.pc # "commit"
    BY DEF Blank
  <2>3. \/ \E pc \in {"receive", "raised", "returned"} :
             act' = [act EXCEPT ![w] = Blank(pc, NoJob)]
        \/ act' = [act EXCEPT ![w] = kept]
    BY Zenon DEF ReceiveNone, Redelivery, Restart, Goto
  <2> HIDE DEF kept
  <2> QED
    BY <2>1, <2>2, <2>3
<1>3. ~BringsCancel(r)
  BY <1>2 DEF BringsCancel, None
<1> QED
  BY <1>1, <1>2, <1>3, SignalLocal

LEMMA SignalRequeue ==
    ASSUME IInv, SignalInv, NEW w \in Workers, Requeue(w)
    PROVE  SignalInv'
<1>1. act[w].pc = "requeue" /\ UNCHANGED <<fsm, cancelEvent>>
  BY DEF Requeue, At
<1>2. w \in Actors /\ w \notin Jobs /\ w \notin Cancellers /\ act[w] \in Actor /\ act[w].job \in Jobs
  BY <1>1, WorkerFacts
<1>3. CASE /\ queue' = queue
           /\ \E ret \in {"redelivery_full", "redelivery_stopped"} : Call(w, "undeliverable", ret)
  <2>1. {"redelivery_full", "redelivery_stopped"} \subseteq Pcs
    BY DEF Pcs, WorkerPcs
  <2> QED
    BY <1>1, <1>3, <2>1, SignalCall DEF SavePcs
<1>4. CASE queue' = Append(queue, J(w)) /\ Goto(w, Blank("raised", NoJob))
  <2> DEFINE r == Blank("raised", NoJob)
  <2>1. act' = [act EXCEPT ![w] = r]
    BY <1>4 DEF Goto
  <2>2. r.job = NoJob /\ r.prev = None /\ r.pc = "raised"
    BY DEF Blank
  <2> HIDE DEF r
  <2>3. ~BringsCancel(r)
    BY <2>2 DEF BringsCancel, None
  <2>4. PICK j \in Jobs : j = act[w].job
    BY <1>2
  <2>5. \A k \in Jobs : (\E i \in 1..Len(queue') : queue'[i] = k) => Queued(k) \/ k = j
    BY <1>4, <2>4, SendKeeps DEF IInv, Queued, J
  <2> QED
    BY <1>1, <1>2, <2>1, <2>2, <2>3, <2>4, <2>5, SignalFrame
<1> QED
  BY <1>3, <1>4 DEF Requeue

(* Every step keeps it.                                                    *)
LEMMA NextSignal == IInv /\ SignalInv /\ [Next]_vars => SignalInv'
<1> SUFFICES ASSUME IInv, SignalInv, [Next]_vars PROVE SignalInv'
  OBVIOUS
<1>1. ASSUME NEW a \in Actors, SharedStep(a) PROVE SignalInv'
  BY <1>1, SignalLookup, SignalCommit, SignalSave, SignalStoreRaises DEF SharedStep
<1>2. ASSUME NEW j \in Jobs, FromRecord(j) \/ Scheduled(j) \/ OwnerStep(j) PROVE SignalInv'
  BY <1>1, <1>2, SignalOwner, SignalSend, SignalRollback DEF OwnerStep, Actors
<1>3. ASSUME NEW c \in Cancellers, (\E j \in Jobs : Cancel(c, j) \/ SaveAgain(c, j)) \/ CancellerStep(c)
      PROVE  SignalInv'
  BY <1>1, <1>3, SignalCancel, SignalSaveAgain, SignalCancelSaved DEF CancellerStep, Actors
<1>4. ASSUME NEW w \in Workers, WorkerStep(w) PROVE SignalInv'
  BY <1>1, <1>4, SignalDecides, SignalSaves, SignalBegin, SignalRun, SignalFollow, SignalRestore,
     SignalReceive, SignalLoop, SignalRequeue
     DEF WorkerStep, Actors
<1>5. CASE UNCHANGED <<fsm, cancelEvent, queue, act>>
  BY <1>5 DEF SignalInv, Signalled, Spent, Queued, is_cancelled, J
<1>6. RequestStop \/ UNCHANGED vars => UNCHANGED <<fsm, cancelEvent, queue, act>>
  BY DEF RequestStop, vars
<1> QED
  BY <1>2, <1>3, <1>4, <1>5, <1>6 DEF Next

(* While a workflow of a cancelled job runs, its cancel Event is set, with *)
(* threads, store errors and shared ids: Job.cancel sets the Event before  *)
(* it applies CANCEL, and a worker that takes Cancelled over from the row  *)
(* (_follow_store_after_skip) does not run the job.                        *)
THEOREM CancelsReachTheWork == Spec => []CancelledWorkIsSignalled
<1>1. IInv /\ SignalInv => CancelledWorkIsSignalled
  <2> SUFFICES ASSUME IInv, SignalInv, NEW w \in Workers, act[w].pc = "running",
                      is_cancelled(J(w))
               PROVE  cancelEvent[J(w)]
    BY DEF CancelledWorkIsSignalled
  <2>1. PICK j \in Jobs : j = act[w].job
    BY WorkerFacts
  <2>2. Signalled(j)
    BY <2>1 DEF SignalInv, J
  <2>3. ~Leaving(act[w])
    BY DEF Leaving, SavePcs
  <2>4. cancelEvent[j] = TRUE
    BY <2>1, <2>2, <2>3 DEF Signalled, Spent
  <2> QED
    BY <2>1, <2>4 DEF J
<1> QED
  BY <1>1, Invariant, InitSignal, NextSignal, PTL DEF Spec

-----------------------------------------------------------------------------
(* Instances that share an id.                                             *)
LEMMA InitTwin == Init => TwinInv
<1> SUFFICES ASSUME Init PROVE TwinInv
  OBVIOUS
<1> USE DEF Init
<1>1. \A a \in Actors : ~Busy(a) /\ ~Claims(act[a])
  BY DEF Busy, AwaitPoints, Blank, Claims
<1>2. \A j \in Jobs : ~Claimed(j)
  <2>1. \A w \in Workers : ~Claims(act[w])
    BY <1>1 DEF Actors
  <2>2. \A j \in Jobs : ~(runs[j] > 0)
    OBVIOUS
  <2> QED
    BY <2>1, <2>2 DEF Claimed
<1>3. NoneAhead
  <2>1. \A j \in Jobs : rows[IdOf[j]] = NoRow /\ version[j] = 1
    BY ConstantsAssumption
  <2> QED
    BY <2>1 DEF NoneAhead, NoRow
<1> QED
  BY <1>1, <1>2, <1>3 DEF TwinInv, OneBusy, BusyIsCurrent, OneClaim

(* An actor whose turn it is.                                              *)
LEMMA TwinTurn ==
    ASSUME OneClaimEach, IInv, TwinInv, NEW a \in Actors, NEW pc, At(a, pc)
    PROVE  /\ Alone(a) /\ act[a] \in Actor /\ act[a].pc = pc /\ J(a) = act[a].job
           /\ pc \notin AwaitPoints =>
                /\ act[a].job \in Jobs /\ IdOf[act[a].job] \in Ids /\ RowOf(a) \in Row
                /\ RowOf(a) = rows[IdOf[act[a].job]]
                /\ Current(act[a], fsm[act[a].job], RowOf(a), version[act[a].job])
<1>1. Alone(a) /\ act[a].pc = pc /\ J(a) = act[a].job
  BY DEF At, Alone, OneClaimEach, J
<1>2. act[a] \in Actor /\ Locals(a, act[a])
  BY Records DEF IInv, TokenInv, LocalsOK
<1>3. pc \notin AwaitPoints => act[a].job \in Jobs
  BY <1>1, <1>2 DEF Locals, OwnerLocals, CancellerLocals, WorkerLocals, Actors, AwaitPoints
<1>4. act[a].job \in Jobs => IdOf[act[a].job] \in Ids
  BY ConstantsAssumption
<1>5. act[a].job \in Jobs => RowOf(a) \in Row /\ RowOf(a) = rows[IdOf[act[a].job]]
  BY <1>1, <1>4 DEF RowOf, IInv, TypeOK
<1>6. pc \notin AwaitPoints => Current(act[a], fsm[act[a].job], RowOf(a), version[act[a].job])
  BY <1>1 DEF TwinInv, BusyIsCurrent, Busy
<1> QED
  BY <1>1, <1>2, <1>3, <1>4, <1>5, <1>6

(* The frame: actor a goes to r.                                           *)
LEMMA TwinFrame ==
    ASSUME IInv, TwinInv, NEW a \in Actors, NEW r,
           act' = [act EXCEPT ![a] = r], Alone(a), NoneAhead', OneClaim',
           r.pc \notin AwaitPoints =>
             Current(r, fsm'[r.job], rows'[IdOf[r.job]], version'[r.job])
    PROVE  TwinInv'
<1>1. act'[a] = r /\ \A b \in Actors : b # a => act'[b] = act[b]
  BY DEF IInv, TypeOK
<1>2. \A b \in Actors : b # a => ~Busy(b)'
  BY <1>1 DEF Alone, Busy
<1>3. OneBusy'
  BY <1>2 DEF OneBusy
<1>4. BusyIsCurrent'
  BY <1>1, <1>2 DEF BusyIsCurrent, Busy, J, RowOf
<1> QED
  BY <1>3, <1>4 DEF TwinInv

(* A step that leaves the rows and the versions alone and claims nothing.  *)
LEMMA TwinLocal ==
    ASSUME IInv, TwinInv, NEW a \in Actors, NEW r,
           act' = [act EXCEPT ![a] = r], Alone(a), UNCHANGED <<rows, version>>,
           r.pc \in {"get", "refresh"} => act[a].pc \in {"get", "refresh"} /\ r.job = act[a].job,
           a \in Workers /\ Claims(r) => r.job = act[a].job /\ Claims(act[a]),
           \A k \in Jobs : runs'[k] > 0 => Claimed(k),
           r.pc \notin AwaitPoints =>
             Current(r, fsm'[r.job], rows[IdOf[r.job]], version[r.job])
    PROVE  TwinInv'
<1>1. act'[a] = r /\ \A b \in Actors : b # a => act'[b] = act[b]
  BY DEF IInv, TypeOK
<1>2. \A k \in Jobs : Claimed(k)' => Claimed(k)
  <2> SUFFICES ASSUME NEW k \in Jobs, NEW w \in Workers, act'[w].job = k, Claims(act'[w])
               PROVE  Claimed(k)
    BY DEF Claimed, J, Claims
  <2>1. act[w].job = k /\ Claims(act[w])
    BY <1>1 DEF Actors
  <2> QED
    BY <2>1 DEF Claimed, J
<1>3. \A k \in Jobs : Behind(k) => Behind(k)'
  BY <1>1 DEF Behind, J
<1>4. NoneAhead'
  BY DEF TwinInv, NoneAhead
<1>5. OneClaim'
  BY <1>2, <1>3 DEF TwinInv, OneClaim
<1> QED
  BY <1>4, <1>5, TwinFrame

(* The places where a read or a claim counts.                              *)
Marked(r) ==
    \/ r.pc \in {"record", "put", "get", "refresh", "run", "healed", "commit", "run_saved",
                 "workflows", "running"}
    \/ r.pc = "save" /\ r.ret = "run_saved"

LEMMA TwinPlain ==
    ASSUME IInv, TwinInv, NEW a \in Actors, NEW r,
           act' = [act EXCEPT ![a] = r], Alone(a), UNCHANGED <<rows, version, runs>>, ~Marked(r)
    PROVE  TwinInv'
<1>1. ~Claims(r) /\ r.pc \notin {"get", "refresh"}
  BY DEF Marked, Claims
<1>2. Current(r, fsm'[r.job], rows[IdOf[r.job]], version[r.job])
  BY DEF Marked, Current, NeedsRow, SavePcs
<1>3. \A k \in Jobs : runs'[k] > 0 => Claimed(k)
  BY DEF Claimed
<1> QED
  BY <1>1, <1>2, <1>3, TwinLocal

LEMMA TwinReturns ==
    ASSUME IInv, TwinInv, NEW a \in Actors, act' = [act EXCEPT ![a] = AtRest(a)],
           Alone(a), UNCHANGED <<rows, version, runs>>
    PROVE  TwinInv'
<1>1. ~Marked(AtRest(a))
  BY DEF AtRest, Blank, Marked
<1> QED
  BY <1>1, TwinPlain

-----------------------------------------------------------------------------
(* save() ends: an outcome other than "ok" claims nothing.                 *)
LEMMA TwinSaveEnds ==
    ASSUME IInv, NEW a \in Actors, NEW res, act[a].pc \in SavePcs, SaveEnds(a, res)
    PROVE  \E r : /\ act' = [act EXCEPT ![a] = r]
                  /\ \/ ~Marked(r)
                     \/ /\ r.pc = act[a].ret /\ r.pc \in {"healed", "run_saved"}
                        /\ r.job = act[a].job /\ r.res = res
<1>1. CASE act[a].ret = "return"
  <2>1. act' = [act EXCEPT ![a] = AtRest(a)]
    BY <1>1 DEF SaveEnds, Goto
  <2>2. ~Marked(AtRest(a))
    BY DEF AtRest, Blank, Marked
  <2> QED
    BY <2>1, <2>2
<1>2. CASE act[a].ret # "return"
  <2> DEFINE r == [act[a] EXCEPT !.pc = act[a].ret, !.ret = "-", !.snap = None, !.ver = 0,
                                 !.res = res]
  <2>1. act' = [act EXCEPT ![a] = r]
    BY <1>2 DEF SaveEnds, Goto
  <2>2. r.pc = act[a].ret /\ r.job = act[a].job /\ r.res = res
    BY Records, ZenonT(40) DEF IInv, Actor
  <2> HIDE DEF r
  <2>3. act[a].ret \in {"sched_saved", "cancel_saved", "healed", "run_saved", "failed_saved",
                        "redelivery_full", "redelivery_stopped"}
    BY <1>2, SaveCallers DEF Actors
  <2>4. ~Marked(r) \/ r.pc \in {"healed", "run_saved"}
    BY <2>2, <2>3 DEF Marked
  <2> QED
    BY <2>1, <2>2, <2>4
<1> QED
  BY <1>1, <1>2

LEMMA TwinSaveFails ==
    ASSUME IInv, TwinInv, NEW a \in Actors, NEW res \in {"skip", "exc"},
           act[a].pc \in SavePcs, SaveEnds(a, res), Alone(a), UNCHANGED <<rows, version, runs>>
    PROVE  TwinInv'
<1>1. PICK r : /\ act' = [act EXCEPT ![a] = r]
               /\ ~Marked(r) \/ (r.pc \in {"healed", "run_saved"} /\ r.res = res)
  BY TwinSaveEnds
<1>2. CASE ~Marked(r)
  BY <1>1, <1>2, TwinPlain
<1>3. CASE r.pc \in {"healed", "run_saved"} /\ r.res = res
  <2>1. ~Claims(r) /\ r.pc \notin {"get", "refresh"}
    BY <1>3 DEF Claims
  <2>2. Current(r, fsm'[r.job], rows[IdOf[r.job]], version[r.job])
    BY <1>3 DEF Current, NeedsRow, SavePcs
  <2>3. \A k \in Jobs : runs'[k] > 0 => Claimed(k)
    BY DEF Claimed
  <2> QED
    BY <1>1, <2>1, <2>2, <2>3, TwinLocal
<1> QED
  BY <1>1, <1>2, <1>3

(* The reads of save().                                                    *)
LEMMA TwinReads ==
    ASSUME OneClaimEach, IInv, TwinInv, NEW a \in Actors,
           SaveStatus(a) \/ SaveRecord(a) \/ SaveGet(a)
    PROVE  TwinInv'
<1>1. /\ act[a].pc \in {"save", "record", "get"} /\ At(a, act[a].pc)
      /\ UNCHANGED <<fsm, rows, version, runs>>
  BY DEF SaveStatus, SaveRecord, SaveGet, At, shared
<1>2. /\ Alone(a) /\ act[a] \in Actor /\ J(a) = act[a].job
      /\ RowOf(a) = rows[IdOf[act[a].job]]
      /\ Current(act[a], fsm[act[a].job], RowOf(a), version[act[a].job])
  BY <1>1, TwinTurn DEF AwaitPoints
<1>3. PICK r : /\ act' = [act EXCEPT ![a] = r]
               /\ \/ act[a].pc = "save" /\ r = [act[a] EXCEPT !.pc = "record", !.snap = fsm[J(a)]]
                  \/ act[a].pc = "record" /\ r = [act[a] EXCEPT !.pc = "put", !.ver = version[J(a)]]
                  \/ act[a].pc = "get" /\ r = [act[a] EXCEPT !.pc = "refresh", !.ver = RowOf(a).version]
  <2>1. \/ act[a].pc = "save" /\ Goto(a, [act[a] EXCEPT !.pc = "record", !.snap = fsm[J(a)]])
        \/ act[a].pc = "record" /\ Goto(a, [act[a] EXCEPT !.pc = "put", !.ver = version[J(a)]])
        \/ act[a].pc = "get" /\ Goto(a, [act[a] EXCEPT !.pc = "refresh", !.ver = RowOf(a).version])
    BY DEF SaveStatus, SaveRecord, SaveGet, At
  <2> QED
    BY <2>1, Zenon DEF Goto
<1>4. /\ r.job = act[a].job /\ r.ret = act[a].ret
      /\ \/ act[a].pc = "save" /\ r.pc = "record" /\ r.snap = fsm[r.job]
         \/ act[a].pc = "record" /\ r.pc = "put" /\ r.snap = act[a].snap /\ r.ver = version[r.job]
         \/ act[a].pc = "get" /\ r.pc = "refresh" /\ r.ver = RowOf(a).version
  <2>1. CASE act[a].pc = "save" /\ r = [act[a] EXCEPT !.pc = "record", !.snap = fsm[J(a)]]
    BY <1>2, <2>1 DEF Actor
  <2>2. CASE act[a].pc = "record" /\ r = [act[a] EXCEPT !.pc = "put", !.ver = version[J(a)]]
    BY <1>2, <2>2 DEF Actor
  <2>3. CASE act[a].pc = "get" /\ r = [act[a] EXCEPT !.pc = "refresh", !.ver = RowOf(a).version]
    BY <1>2, <2>3 DEF Actor
  <2> QED
    BY <1>3, <2>1, <2>2, <2>3
<1>5. /\ Claims(r) => Claims(act[a])
      /\ NeedsRow(r) => NeedsRow(act[a])
      /\ r.pc \in {"get", "refresh"} => act[a].pc \in {"get", "refresh"}
  BY <1>4 DEF Claims, NeedsRow, SavePcs
<1>6. Current(r, fsm[r.job], RowOf(a), version[r.job])
  <2>1. NeedsRow(r) => RowOf(a).status # None
    BY <1>2, <1>5 DEF Current
  <2>2. r.pc # "commit" /\ r.pc # "save"
    BY <1>4
  <2>3. r.pc \in {"record", "put"} /\ r.ret = "run_saved" => fsm[r.job] = "InProgress"
    BY <1>2, <1>4 DEF Current
  <2>4. r.pc \in {"record", "put"} /\ r.ret = "run_saved" => r.snap = "InProgress"
    BY <1>2, <1>4, <2>3 DEF Current
  <2>5. (r.pc = "put" => r.ver = version[r.job]) /\ (r.pc = "refresh" => r.ver = RowOf(a).version)
    BY <1>4
  <2> QED
    BY <2>1, <2>2, <2>3, <2>4, <2>5 DEF Current
<1>7. \A k \in Jobs : runs'[k] > 0 => Claimed(k)
  BY <1>1 DEF Claimed
<1> QED
  BY <1>1, <1>2, <1>3, <1>4, <1>5, <1>6, <1>7, TwinLocal

(* A put that writes leaves every other instance of the id behind, and a   *)
(* claimed row claimed; one that claims found nobody else's claim.         *)
LEMMA PutClaims ==
    ASSUME NEW row \in Row, NEW s \in Status, NEW v \in Nat, row.status # None,
           put_may_write(row, s, v)
    PROVE  /\ row.version = v /\ put(row, s, v) = [status |-> s, version |-> row.version + 1]
           /\ row.status \in {"InProgress"} \cup Terminal => s \in {"InProgress"} \cup Terminal
           /\ row.status \in Terminal => s = row.status
<1>1. row.version = v /\ row.status \in existing_statuses_put_may_replace(s)
  BY DEF put_may_write, put_applies
<1>2. put(row, s, v) = [status |-> s, version |-> row.version + 1]
  BY DEF put
<1>3. /\ s = "Unknown" => row.status \in {"Unknown"}
      /\ s = "Initializing" => row.status \in {"Unknown", "Initializing"}
      /\ s = "Scheduled" => row.status \in {"Unknown", "Initializing", "Scheduled"}
      /\ s = "InProgress" => row.status \in NonTerminal
      /\ s \in Terminal => row.status \in NonTerminal \cup {s}
  BY <1>1 DEF existing_statuses_put_may_replace, Terminal
<1> QED
  BY <1>1, <1>2, <1>3 DEF Status, NonTerminal, Terminal

LEMMA TwinWrites ==
    ASSUME OneClaimEach, IInv, TwinInv, NEW a \in Actors, SavePut(a),
           put_may_write(RowOf(a), act[a].snap, act[a].ver)
    PROVE  TwinInv'
<1> DEFINE r == [act[a] EXCEPT !.pc = "get", !.snap = None, !.ver = 0]
           j == act[a].job
           id == IdOf[act[a].job]
           row == RowOf(a)
           s == act[a].snap
<1>1. At(a, "put") /\ UNCHANGED <<fsm, version, runs>> /\ act' = [act EXCEPT ![a] = r]
  BY DEF SavePut, Goto
<1>2. /\ Alone(a) /\ act[a] \in Actor /\ act[a].pc = "put" /\ J(a) = j
      /\ j \in Jobs /\ id \in Ids /\ row \in Row /\ row = rows[id]
      /\ Current(act[a], fsm[j], row, version[j])
  BY <1>1, TwinTurn DEF AwaitPoints
<1>3. r.pc = "get" /\ r.job = j /\ r.ret = act[a].ret
  BY <1>2 DEF Actor
<1>4. s \in Status /\ act[a].ver = version[j] /\ version[j] \in Nat
  BY <1>2 DEF IInv, TypeOK, TokenInv, LocalsOK, Locals, Current
<1>5. rows' = [rows EXCEPT ![id] = put(row, s, version[j])] /\ put_may_write(row, s, version[j])
  BY <1>2, <1>4 DEF SavePut
<1> HIDE DEF r, j, id, row, s
<1>6. /\ rows'[id] = put(row, s, version[j])
      /\ \A x \in Ids : x # id => rows'[x] = rows[x]
      /\ act'[a] = r /\ \A b \in Actors : b # a => act'[b] = act[b]
  BY <1>1, <1>2, <1>5 DEF IInv, TypeOK
<1>7. /\ row.status = None => put(row, s, version[j]) = [status |-> s, version |-> version[j]]
      /\ row.status # None => /\ row.version = version[j]
                              /\ put(row, s, version[j]) = [status |-> s, version |-> row.version + 1]
  BY <1>2, <1>4, <1>5, PutClaims DEF put
<1>8. /\ rows'[id].status = s /\ s # None
      /\ row.status = None => rows'[id].version = version[j]
      /\ row.status # None => rows'[id].version = row.version + 1
  BY <1>4, <1>6, <1>7 DEF Status, NonTerminal, Terminal, None
<1>9. /\ row.version \in Nat
      /\ \A k \in Jobs : /\ IdOf[k] \in Ids /\ version[k] \in Nat
                         /\ IdOf[k] = id /\ row.status = None => version[k] = 1
                         /\ IdOf[k] = id /\ row.status # None => version[k] <= row.version
  BY <1>2, ConstantsAssumption DEF IInv, TypeOK, Row, TwinInv, NoneAhead
<1>10. NoneAhead'
  <2> SUFFICES ASSUME NEW k \in Jobs
               PROVE  /\ rows'[IdOf[k]].status = None => version'[k] = 1
                      /\ rows'[IdOf[k]].status # None => version'[k] <= rows'[IdOf[k]].version
    BY DEF NoneAhead
  <2>1. CASE IdOf[k] # id
    BY <1>1, <1>6, <1>9, <2>1 DEF TwinInv, NoneAhead
  <2>2. CASE IdOf[k] = id /\ row.status = None
    <3>1. version[k] = 1 /\ version[j] = 1
      BY <1>2, <1>9, <2>2 DEF id, j
    <3> QED
      BY <1>1, <1>8, <2>2, <3>1
  <2>3. CASE IdOf[k] = id /\ row.status # None
    <3>1. version[k] <= row.version /\ version[k] \in Nat
      BY <1>9, <2>3
    <3> QED
      BY <1>1, <1>8, <1>9, <2>3, <3>1
  <2> QED
    BY <2>1, <2>2, <2>3
<1>11. ASSUME NEW k \in Jobs, k # j, IdOf[k] = id, row.status # None
       PROVE  Behind(k)'
  <2>1. version[k] <= row.version /\ version[k] \in Nat
    BY <1>9, <1>11
  <2>2. version'[k] < rows'[IdOf[k]].version
    BY <1>1, <1>8, <1>9, <1>11, <2>1
  <2>3. \A b \in Actors : act'[b].job = k => act'[b].pc \notin {"get", "refresh"}
    BY <1>2, <1>3, <1>6, <1>11 DEF Alone, AwaitPoints
  <2> QED
    BY <2>2, <2>3 DEF Behind, J
<1>12. ASSUME NEW k \in Jobs, Claimed(k)'
       PROVE  Claimed(k) \/ (k = j /\ act[a].ret = "run_saved")
  <2>1. CASE runs'[k] > 0
    BY <1>1, <2>1 DEF Claimed
  <2>2. ASSUME NEW w \in Workers, act'[w].job = k, Claims(act'[w])
        PROVE  Claimed(k) \/ (k = j /\ act[a].ret = "run_saved")
    <3>1. CASE w = a
      BY <1>3, <1>6, <2>2, <3>1 DEF Claims
    <3>2. CASE w # a
      BY <1>6, <2>2, <3>2 DEF Claimed, J, Actors
    <3> QED
      BY <3>1, <3>2
  <2> QED
    BY <1>12, <2>1, <2>2 DEF Claimed, J
<1>13. act[a].ret = "run_saved" => row.status # None /\ s = "InProgress"
  BY <1>2 DEF Current, NeedsRow, SavePcs, s
<1>14. ASSUME NEW i \in Jobs, Claimed(i), IdOf[i] = id
       PROVE  /\ row.status \in {"InProgress"} \cup Terminal /\ row.status # None
              /\ s \in {"InProgress"} \cup Terminal
              /\ i # j => row.status \in Terminal /\ s = row.status
  <2>1. row.status \in {"InProgress"} \cup Terminal
    BY <1>2, <1>14 DEF TwinInv, OneClaim
  <2>2. row.status # None
    BY <2>1 DEF Terminal, None
  <2>3. /\ s \in {"InProgress"} \cup Terminal
        /\ row.status \in Terminal => s = row.status
    BY <1>2, <1>4, <1>5, <2>1, <2>2, PutClaims
  <2>4. ASSUME i # j, row.status = "InProgress" PROVE FALSE
    <3>1. Behind(j)
      BY <1>2, <1>14, <2>4 DEF TwinInv, OneClaim, id, j
    <3>2. version[j] < row.version
      BY <1>2, <3>1 DEF Behind, id, j
    <3> QED
      BY <1>4, <1>7, <1>9, <2>2, <3>2
  <2> QED
    BY <2>1, <2>2, <2>3, <2>4
<1>15. OneClaim'
  <2> SUFFICES ASSUME NEW i \in Jobs, Claimed(i)'
               PROVE  /\ rows'[IdOf[i]].status \in {"InProgress"} \cup Terminal
                      /\ \A k \in Jobs : k # i /\ IdOf[k] = IdOf[i] =>
                           ~Claimed(k)' /\ (rows'[IdOf[i]].status = "InProgress" => Behind(k)')
    BY DEF OneClaim
  <2>1. CASE IdOf[i] # id
    <3>1. i # j /\ Claimed(i) /\ rows'[IdOf[i]] = rows[IdOf[i]]
      BY <1>6, <1>9, <1>12, <2>1 DEF id, j
    <3>2. ASSUME NEW k \in Jobs, k # i, IdOf[k] = IdOf[i]
          PROVE  ~Claimed(k)' /\ (Behind(k) => Behind(k)')
      <4>1. k # j /\ ~Claimed(k)
        BY <2>1, <3>1, <3>2 DEF id, j, TwinInv, OneClaim
      <4>2. ~Claimed(k)'
        BY <1>12, <4>1
      <4>3. \A b \in Actors : act'[b].job = k => act'[b].pc \notin {"get", "refresh"}
        BY <1>2, <1>3, <1>6, <4>1 DEF Alone, AwaitPoints
      <4>4. Behind(k) => Behind(k)'
        BY <1>1, <3>1, <3>2, <4>3 DEF Behind, J
      <4> QED
        BY <4>2, <4>4
    <3> QED
      BY <3>1, <3>2 DEF TwinInv, OneClaim
  <2>2. CASE IdOf[i] = id /\ Claimed(i)
    <3>1. /\ row.status # None /\ s \in {"InProgress"} \cup Terminal
          /\ i # j => row.status \in Terminal /\ s \in Terminal
      BY <1>14, <2>2
    <3>2. ASSUME NEW k \in Jobs, k # i, IdOf[k] = IdOf[i]
          PROVE  ~Claimed(k)' /\ (s = "InProgress" => Behind(k)')
      <4>1. ~Claimed(k)
        BY <2>2, <3>2 DEF TwinInv, OneClaim
      <4>2. ~Claimed(k)'
        BY <1>12, <1>13, <3>1, <3>2, <4>1 DEF Terminal
      <4>3. s = "InProgress" => i = j
        BY <3>1 DEF Terminal
      <4> QED
        BY <1>11, <2>2, <3>1, <3>2, <4>2, <4>3
    <3> QED
      BY <1>8, <2>2, <3>1, <3>2
  <2>3. CASE IdOf[i] = id /\ ~Claimed(i)
    <3>1. i = j /\ row.status # None /\ s = "InProgress"
      BY <1>12, <1>13, <2>3
    <3>2. ASSUME NEW k \in Jobs, k # i, IdOf[k] = IdOf[i]
          PROVE  ~Claimed(k)' /\ Behind(k)'
      <4>1. ~Claimed(k)
        BY <1>14, <2>3, <3>1, <3>2 DEF Terminal
      <4>2. ~Claimed(k)'
        BY <1>12, <3>1, <3>2, <4>1
      <4> QED
        BY <1>11, <2>3, <3>1, <3>2, <4>2
    <3> QED
      BY <1>8, <2>3, <3>1, <3>2
  <2> QED
    BY <2>1, <2>2, <2>3
<1>16. Current(r, fsm'[r.job], rows'[IdOf[r.job]], version'[r.job])
  BY <1>3, <1>8 DEF Current, NeedsRow, id, j
<1> QED
  BY <1>1, <1>2, <1>10, <1>15, <1>16, TwinFrame

LEMMA TwinPut ==
    ASSUME OneClaimEach, IInv, TwinInv, NEW a \in Actors, SavePut(a)
    PROVE  TwinInv'
<1>1. CASE put_may_write(RowOf(a), act[a].snap, act[a].ver)
  BY <1>1, TwinWrites
<1>2. CASE ~put_may_write(RowOf(a), act[a].snap, act[a].ver)
  <2>1. /\ At(a, "put") /\ SaveEnds(a, "skip") /\ UNCHANGED <<version, runs>>
        /\ rows' = [rows EXCEPT ![IdOf[J(a)]] = put(RowOf(a), act[a].snap, act[a].ver)]
    BY <1>2 DEF SavePut, RowOf
  <2>2. Alone(a) /\ act[a].pc \in SavePcs
    BY <2>1, TwinTurn DEF SavePcs
  <2>3. put(RowOf(a), act[a].snap, act[a].ver) = RowOf(a)
    BY <1>2 DEF put, put_may_write
  <2>4. rows' = rows
    BY <2>1, <2>3 DEF RowOf, IInv, TypeOK
  <2> QED
    BY <2>1, <2>2, <2>4, TwinSaveFails
<1> QED
  BY <1>1, <1>2

(* An instance takes over the version of its row: no claim of another      *)
(* instance is in the way.                                                 *)
LEMMA TwinCatchesUp ==
    ASSUME IInv, TwinInv, NEW a \in Actors, NEW j \in Jobs, NEW r,
           act' = [act EXCEPT ![a] = r], Alone(a), UNCHANGED <<rows, runs>>,
           version' = [version EXCEPT ![j] = rows[IdOf[j]].version],
           rows[IdOf[j]].status # None,
           rows[IdOf[j]].status # "InProgress" \/ (act[a].pc \in {"get", "refresh"} /\ act[a].job = j),
           r.pc \notin {"get", "refresh"},
           a \in Workers /\ Claims(r) => r.job = act[a].job /\ Claims(act[a]),
           r.pc \notin AwaitPoints =>
             Current(r, fsm'[r.job], rows[IdOf[r.job]], version'[r.job])
    PROVE  TwinInv'
<1>1. act'[a] = r /\ \A b \in Actors : b # a => act'[b] = act[b]
  BY DEF IInv, TypeOK
<1>2. /\ version'[j] = rows[IdOf[j]].version /\ rows[IdOf[j]].version \in Nat
      /\ \A k \in Jobs : k # j => version'[k] = version[k]
  BY ConstantsAssumption DEF IInv, TypeOK, Row
<1>3. \A k \in Jobs : Claimed(k)' => Claimed(k)
  <2> SUFFICES ASSUME NEW k \in Jobs, NEW w \in Workers, act'[w].job = k, Claims(act'[w])
               PROVE  Claimed(k)
    BY DEF Claimed, J, Claims
  <2>1. act[w].job = k /\ Claims(act[w])
    BY <1>1 DEF Actors
  <2> QED
    BY <2>1 DEF Claimed, J
<1>4. NoneAhead'
  BY <1>2 DEF TwinInv, NoneAhead
<1>5. \A k \in Jobs : k # j /\ Behind(k) => Behind(k)'
  BY <1>1, <1>2 DEF Behind, J
<1>6. ~(rows[IdOf[j]].status = "InProgress" /\ Behind(j))
  BY DEF Behind, J
<1>7. OneClaim'
  <2> SUFFICES ASSUME NEW i \in Jobs, Claimed(i), NEW k \in Jobs, k # i, IdOf[k] = IdOf[i]
               PROVE  /\ rows[IdOf[i]].status \in {"InProgress"} \cup Terminal
                      /\ ~Claimed(k)' /\ (rows[IdOf[i]].status = "InProgress" => Behind(k)')
    BY <1>3 DEF OneClaim, TwinInv
  <2>1. /\ rows[IdOf[i]].status \in {"InProgress"} \cup Terminal
        /\ ~Claimed(k) /\ (rows[IdOf[i]].status = "InProgress" => Behind(k))
    BY DEF TwinInv, OneClaim
  <2> QED
    BY <1>3, <1>5, <1>6, <2>1
<1> QED
  BY <1>1, <1>4, <1>7, TwinFrame

LEMMA TwinRefresh ==
    ASSUME OneClaimEach, IInv, TwinInv, NEW a \in Actors, SaveRefresh(a)
    PROVE  TwinInv'
<1>1. At(a, "refresh") /\ SaveEnds(a, "ok") /\ UNCHANGED <<fsm, rows, runs>>
  BY DEF SaveRefresh
<1>2. /\ Alone(a) /\ act[a].pc = "refresh" /\ J(a) = act[a].job /\ act[a].job \in Jobs
      /\ RowOf(a) = rows[IdOf[act[a].job]]
      /\ Current(act[a], fsm[act[a].job], RowOf(a), version[act[a].job])
  BY <1>1, TwinTurn DEF AwaitPoints
<1>3. PICK j \in Jobs : j = act[a].job
  BY <1>2
<1>4. /\ rows[IdOf[j]].status # None
      /\ version' = [version EXCEPT ![j] = rows[IdOf[j]].version]
  BY <1>2, <1>3 DEF SaveRefresh, Current, NeedsRow
<1>5. PICK r : /\ act' = [act EXCEPT ![a] = r]
               /\ \/ ~Marked(r)
                  \/ /\ r.pc = act[a].ret /\ r.pc \in {"healed", "run_saved"}
                     /\ r.job = act[a].job /\ r.res = "ok"
  BY <1>1, <1>2, TwinSaveEnds DEF SavePcs
<1>6. /\ r.pc \notin {"get", "refresh"}
      /\ Claims(r) => r.job = act[a].job /\ Claims(act[a])
  BY <1>2, <1>5 DEF Marked, Claims
<1>7. Current(r, fsm'[r.job], rows[IdOf[r.job]], version'[r.job])
  <2>1. CASE ~Marked(r)
    BY <2>1 DEF Marked, Current, NeedsRow, SavePcs
  <2>2. CASE r.pc \in {"healed", "run_saved"} /\ r.job = j
    BY <1>4, <2>2 DEF Current, NeedsRow, SavePcs
  <2> QED
    BY <1>3, <1>5, <2>1, <2>2
<1> QED
  BY <1>1, <1>2, <1>3, <1>4, <1>5, <1>6, <1>7, TwinCatchesUp

-----------------------------------------------------------------------------
(* A step that decides where to go on, or calls save().                    *)
LEMMA TwinJump ==
    ASSUME IInv, TwinInv, NEW a \in Actors, NEW next, Jump(a, next), Alone(a),
           UNCHANGED <<rows, version, runs>>,
           next \notin {"save", "record", "put", "get", "refresh", "healed", "commit",
                        "run_saved", "workflows", "running"},
           next = "run" => rows[IdOf[act[a].job]].status # None
    PROVE  TwinInv'
<1>1. CASE next = "return"
  BY <1>1, TwinReturns DEF Jump, Goto
<1>2. CASE next # "return"
  <2> DEFINE r == [act[a] EXCEPT !.pc = next, !.snap = None, !.res = "-"]
  <2>1. act' = [act EXCEPT ![a] = r]
    BY <1>2 DEF Jump, Goto
  <2>2. act[a] \in Actor
    BY Records DEF IInv
  <2>3. r.pc = next /\ r.job = act[a].job
    BY <2>2 DEF Actor
  <2> HIDE DEF r
  <2>4. CASE next # "run"
    <3>1. ~Marked(r)
      BY <2>3, <2>4 DEF Marked
    <3> QED
      BY <2>1, <3>1, TwinPlain
  <2>5. CASE next = "run"
    <3>1. ~Claims(r)
      BY <2>3, <2>5 DEF Claims
    <3>2. Current(r, fsm'[r.job], rows[IdOf[r.job]], version[r.job])
      BY <2>3, <2>5 DEF Current
    <3>3. \A k \in Jobs : runs'[k] > 0 => Claimed(k)
      BY DEF Claimed
    <3> QED
      BY <2>1, <2>3, <2>5, <3>1, <3>2, <3>3, TwinLocal
  <2> QED
    BY <2>4, <2>5
<1> QED
  BY <1>1, <1>2

LEMMA TwinCall ==
    ASSUME IInv, TwinInv, NEW a \in Actors, NEW pc \in {"save", "undeliverable"}, NEW ret,
           Call(a, pc, ret), Alone(a), UNCHANGED <<rows, version, runs>>, ret # "run_saved"
    PROVE  TwinInv'
<1> DEFINE r == [act[a] EXCEPT !.pc = pc, !.ret = ret]
<1>1. act' = [act EXCEPT ![a] = r] /\ act[a] \in Actor
  BY Records DEF Call, Goto, IInv
<1>2. r.pc = pc /\ r.ret = ret
  BY <1>1 DEF Actor
<1> HIDE DEF r
<1>3. ~Marked(r)
  BY <1>2 DEF Marked
<1> QED
  BY <1>1, <1>3, TwinPlain

LEMMA TwinStep ==
    ASSUME OneClaimEach, IInv, TwinInv, NEW a \in Actors, NEW pc, NEW next, Step(a, pc, next),
           next \notin {"save", "record", "put", "get", "refresh", "healed", "commit",
                        "run_saved", "workflows", "running"},
           next = "run" => rows[IdOf[act[a].job]].status # None
    PROVE  TwinInv'
<1>1. At(a, pc) /\ Jump(a, next) /\ UNCHANGED <<rows, version, runs>>
  BY DEF Step, shared
<1>2. Alone(a)
  BY <1>1, TwinTurn
<1> QED
  BY <1>1, <1>2, TwinJump

LEMMA TwinStoreRaises ==
    ASSUME OneClaimEach, IInv, TwinInv, NEW a \in Actors, StoreRaises(a)
    PROVE  TwinInv'
<1>1. UNCHANGED <<rows, version, runs>>
  BY DEF StoreRaises
<1>2. CASE \E pc \in {"put", "get"} : At(a, pc) /\ SaveEnds(a, "exc")
  <2>1. PICK pc \in {"put", "get"} : At(a, pc) /\ SaveEnds(a, "exc")
    BY <1>2
  <2>2. Alone(a) /\ act[a].pc \in SavePcs
    BY <2>1, TwinTurn DEF SavePcs
  <2> QED
    BY <1>1, <2>1, <2>2, TwinSaveFails
<1>3. CASE \E pc \in {"heal", "reheal", "skipped", "ensure"}, next \in {"fail_or_restore", "return"} :
             At(a, pc) /\ Jump(a, next)
  <2>1. PICK pc \in {"heal", "reheal", "skipped", "ensure"}, next \in {"fail_or_restore", "return"} :
          At(a, pc) /\ Jump(a, next)
    BY <1>3
  <2>2. Alone(a)
    BY <2>1, TwinTurn
  <2> QED
    BY <1>1, <2>1, <2>2, TwinJump
<1> QED
  BY <1>2, <1>3 DEF StoreRaises

-----------------------------------------------------------------------------
(* apply_event.                                                            *)
LEMMA TwinLookup ==
    ASSUME OneClaimEach, IInv, TwinInv, NEW a \in Actors, ApplyLookup(a)
    PROVE  TwinInv'
<1>1. PICK s \in Sites :
        /\ At(a, s.at)
        /\ \/ Jump(a, s.fail)
           \/ \E t \in Targets(s.event, fsm[J(a)]) :
                Goto(a, [act[a] EXCEPT !.pc = "commit", !.ret = s.at, !.snap = t])
  BY DEF ApplyLookup
<1>2. UNCHANGED <<rows, version, runs, fsm>>
  BY DEF ApplyLookup, shared
<1>3. /\ s.at \notin AwaitPoints /\ s.fail \in {"rollback", "return"}
      /\ s.at = "run" => s.event = "RUN"
  BY DEF Sites, AwaitPoints
<1>4. /\ Alone(a) /\ act[a] \in Actor /\ act[a].pc = s.at /\ RowOf(a) = rows[IdOf[act[a].job]]
      /\ Current(act[a], fsm[act[a].job], RowOf(a), version[act[a].job])
  BY <1>1, <1>3, TwinTurn
<1>5. CASE Jump(a, s.fail)
  BY <1>2, <1>3, <1>4, <1>5, TwinJump
<1>6. ASSUME NEW t \in Targets(s.event, fsm[J(a)]),
             Goto(a, [act[a] EXCEPT !.pc = "commit", !.ret = s.at, !.snap = t])
      PROVE  TwinInv'
  <2> DEFINE r == [act[a] EXCEPT !.pc = "commit", !.ret = s.at, !.snap = t]
  <2>1. act' = [act EXCEPT ![a] = r]
    BY <1>6 DEF Goto
  <2>2. r.pc = "commit" /\ r.ret = s.at /\ r.snap = t /\ r.job = act[a].job
    BY <1>4 DEF Actor
  <2> HIDE DEF r
  <2>3. s.at = "run" => t = "InProgress"
    BY <1>3, <1>6, TargetsAre
  <2>4. s.at = "run" => RowOf(a).status # None
    BY <1>4 DEF Current, NeedsRow
  <2>5. Current(r, fsm'[r.job], rows[IdOf[r.job]], version[r.job])
    BY <1>4, <2>2, <2>3, <2>4 DEF Current, NeedsRow, SavePcs
  <2>6. ~Claims(r) /\ r.pc \notin {"get", "refresh"}
    BY <2>2 DEF Claims
  <2>7. \A k \in Jobs : runs'[k] > 0 => Claimed(k)
    BY <1>2 DEF Claimed
  <2> QED
    BY <1>2, <1>4, <2>1, <2>5, <2>6, <2>7, TwinLocal
<1> QED
  BY <1>1, <1>5, <1>6

LEMMA TwinCommit ==
    ASSUME OneClaimEach, IInv, TwinInv, NEW a \in Actors, ApplyCommit(a)
    PROVE  TwinInv'
<1>1. At(a, "commit") /\ UNCHANGED <<rows, version, runs>>
      /\ fsm' = [fsm EXCEPT ![J(a)] = act[a].snap]
  BY DEF ApplyCommit
<1>2. /\ Alone(a) /\ act[a] \in Actor /\ act[a].pc = "commit" /\ J(a) = act[a].job
      /\ act[a].job \in Jobs /\ RowOf(a) = rows[IdOf[act[a].job]]
      /\ Current(act[a], fsm[act[a].job], RowOf(a), version[act[a].job])
  BY <1>1, TwinTurn DEF AwaitPoints
<1>3. PICK s \in Sites :
        s.at = act[a].ret /\ Goto(a, [act[a] EXCEPT !.pc = s.next, !.ret = s.ret, !.snap = None])
  BY DEF ApplyCommit
<1> DEFINE r == [act[a] EXCEPT !.pc = s.next, !.ret = s.ret, !.snap = None]
<1>4. act' = [act EXCEPT ![a] = r]
  BY <1>3 DEF Goto
<1>5. r.pc = s.next /\ r.ret = s.ret /\ r.job = act[a].job
  BY <1>2 DEF Actor
<1> HIDE DEF r
<1>6. /\ s.next \in {"schedule", "send", "save", "ensure"}
      /\ s.ret = "run_saved" => s.at = "run" /\ s.next = "save"
  BY DEF Sites
<1>7. CASE s.ret # "run_saved"
  <2>1. ~Marked(r)
    BY <1>5, <1>6, <1>7 DEF Marked
  <2> QED
    BY <1>1, <1>2, <1>4, <2>1, TwinPlain
<1>8. CASE s.ret = "run_saved"
  <2>1. act[a].ret = "run" /\ RowOf(a).status # None /\ act[a].snap = "InProgress"
    BY <1>2, <1>3, <1>6, <1>8 DEF Current, NeedsRow
  <2>2. fsm'[r.job] = "InProgress"
    BY <1>1, <1>2, <1>5, <2>1 DEF IInv, TypeOK
  <2>3. Current(r, fsm'[r.job], rows[IdOf[r.job]], version[r.job])
    BY <1>2, <1>5, <1>6, <1>8, <2>1, <2>2 DEF Current
  <2>4. ~Claims(r) /\ r.pc \notin {"get", "refresh"}
    BY <1>5, <1>6, <1>8 DEF Claims
  <2>5. \A k \in Jobs : runs'[k] > 0 => Claimed(k)
    BY <1>1 DEF Claimed
  <2> QED
    BY <1>1, <1>2, <1>4, <2>3, <2>4, <2>5, TwinLocal
<1> QED
  BY <1>7, <1>8

-----------------------------------------------------------------------------
(* The owner: Job.from_record takes over the version of a row that nobody  *)
(* is in the middle of running.                                            *)
LEMMA TwinFromRecord ==
    ASSUME OneClaimEach, IInv, TwinInv, NEW j \in Jobs, FromRecord(j)
    PROVE  TwinInv'
<1> DEFINE r == [act[j] EXCEPT !.pc = "idle", !.snap = None, !.res = "-"]
<1>1. /\ j \in Actors /\ j \notin Workers /\ At(j, "from_record") /\ act[j] \in Actor
      /\ act' = [act EXCEPT ![j] = r] /\ UNCHANGED <<rows, runs>>
      /\ version' = [version EXCEPT ![j] = rows[IdOf[j]].version]
  BY Records, ConstantsAssumption DEF Actors, FromRecord, Jump, Goto, IInv
<1>2. r.pc = "idle"
  BY <1>1 DEF Actor
<1> HIDE DEF r
<1>3. rows[IdOf[j]].status # None /\ rows[IdOf[j]].status # "InProgress"
  BY ConstantsAssumption DEF FromRecord, OneClaimEach, Status, NonTerminal, Terminal, None
<1>4. Alone(j)
  BY <1>1, TwinTurn
<1> QED
  BY <1>1, <1>2, <1>3, <1>4, TwinCatchesUp DEF AwaitPoints

LEMMA TwinOwner ==
    ASSUME OneClaimEach, IInv, TwinInv, NEW j \in Jobs,
           Scheduled(j) \/ SchedSaved(j) \/ Send(j) \/ Rollback(j)
    PROVE  TwinInv'
<1>1. /\ j \in Actors /\ act[j] \in Actor /\ UNCHANGED <<rows, version, runs>>
  BY Records DEF Actors, IInv, Scheduled, SchedSaved, Send, Rollback, shared
<1>2. Alone(j)
  <2>1. \E pc : At(j, pc)
    BY DEF Scheduled, SchedSaved, Send, Rollback
  <2> QED
    BY <1>1, <2>1, TwinTurn
<1>3. CASE \E next \in {"return", "rollback"} : Jump(j, next)
  BY <1>1, <1>2, <1>3, TwinJump
<1>4. ASSUME NEW r, Goto(j, r),
             \/ r = [act[j] EXCEPT !.pc = "init", !.prev = fsm[j]]
             \/ r = [act[j] EXCEPT !.pc = "save", !.ret = "sched_saved", !.res = "-", !.n = @ + 1]
             \/ r = [act[j] EXCEPT !.pc = "save", !.ret = "sched_saved", !.prev = None, !.n = 1]
      PROVE  TwinInv'
  <2>1. r.pc = "init" \/ (r.pc = "save" /\ r.ret = "sched_saved")
    BY <1>1, <1>4 DEF Actor
  <2>2. ~Marked(r)
    BY <2>1 DEF Marked
  <2> QED
    BY <1>1, <1>2, <1>4, <2>2, TwinPlain DEF Goto
<1> QED
  BY <1>3, <1>4 DEF Scheduled, SchedSaved, Send, Rollback

LEMMA TwinCanceller ==
    ASSUME OneClaimEach, IInv, TwinInv, NEW c \in Cancellers,
           (\E j \in Jobs : Cancel(c, j) \/ SaveAgain(c, j)) \/ CancelSaved(c)
    PROVE  TwinInv'
<1>1. /\ c \in Actors /\ act[c] \in Actor /\ UNCHANGED <<rows, version, runs>>
  BY Records DEF Actors, IInv, Cancel, SaveAgain, CancelSaved, Step, shared
<1>2. Alone(c)
  <2>1. \E pc : At(c, pc)
    BY DEF Cancel, SaveAgain, CancelSaved, Step
  <2> QED
    BY <1>1, <2>1, TwinTurn
<1>3. CASE Jump(c, "return")
  BY <1>1, <1>2, <1>3, TwinJump
<1>4. ASSUME NEW r, Goto(c, r),
             \E j \in Jobs : \/ r = Blank("cancel", j)
                            \/ r = [Blank("save", j) EXCEPT !.ret = "cancel_saved"]
      PROVE  TwinInv'
  <2>1. r.pc = "cancel" \/ (r.pc = "save" /\ r.ret = "cancel_saved")
    BY <1>4 DEF Blank
  <2>2. ~Marked(r)
    BY <2>1 DEF Marked
  <2> QED
    BY <1>1, <1>2, <1>4, <2>2, TwinPlain DEF Goto
<1> QED
  BY <1>3, <1>4 DEF Cancel, SaveAgain, CancelSaved, Step

-----------------------------------------------------------------------------
(* The worker decides.                                                     *)
LEMMA TwinDecides ==
    ASSUME OneClaimEach, IInv, TwinInv, NEW w \in Workers,
           \/ Process(w) \/ WorkflowRaises(w) \/ Failed(w) \/ Finish(w)
           \/ FailOrRestore(w) \/ FailedSaved(w) \/ RestoreCheck(w)
    PROVE  TwinInv'
<1>1. w \in Actors
  BY DEF Actors
<1>2. \E pc, next : /\ Step(w, pc, next)
                    /\ next \notin {"save", "record", "put", "get", "refresh", "healed", "commit",
                                    "run_saved", "workflows", "running", "run"}
  BY DEF Process, WorkflowRaises, Failed, Finish, FailOrRestore, FailedSaved, RestoreCheck
<1> QED
  BY <1>1, <1>2, TwinStep

(* Heal: RUN is tried only for an id that has a row.                       *)
LEMMA TwinHeals ==
    ASSUME OneClaimEach, IInv, TwinInv, NEW w \in Workers, Heal(w) \/ Healed(w) \/ Reheal(w)
    PROVE  TwinInv'
<1>1. w \in Actors
  BY DEF Actors
<1>2. CASE Heal(w)
  <2>1. At(w, "heal") /\ UNCHANGED <<rows, version, runs>>
    BY <1>2 DEF Heal, shared
  <2>2. Alone(w) /\ RowOf(w) = rows[IdOf[act[w].job]]
    BY <1>1, <2>1, TwinTurn DEF AwaitPoints
  <2>3. CASE RowOf(w).status = None
    BY <1>1, <1>2, <2>1, <2>2, <2>3, TwinCall DEF Heal
  <2>4. CASE RowOf(w).status # None
    BY <1>1, <1>2, <2>1, <2>2, <2>4, TwinJump DEF Heal
  <2> QED
    BY <2>3, <2>4
<1>3. CASE Healed(w)
  <2>1. At(w, "healed")
    BY <1>3 DEF Healed, Step
  <2>2. /\ RowOf(w) = rows[IdOf[act[w].job]] /\ act[w].pc = "healed"
        /\ Current(act[w], fsm[act[w].job], RowOf(w), version[act[w].job])
    BY <1>1, <2>1, TwinTurn DEF AwaitPoints
  <2>3. act[w].res = "ok" => rows[IdOf[act[w].job]].status # None
    BY <2>2 DEF Current, NeedsRow
  <2> QED
    BY <1>1, <1>3, <2>3, TwinStep DEF Healed
<1>4. CASE Reheal(w)
  <2>1. At(w, "reheal")
    BY <1>4 DEF Reheal, Step
  <2>2. RowOf(w) = rows[IdOf[act[w].job]]
    BY <1>1, <2>1, TwinTurn DEF AwaitPoints
  <2>3. CASE RowOf(w).status = None
    BY <1>1, <1>4, <2>3, TwinStep DEF Reheal
  <2>4. CASE RowOf(w).status # None
    BY <1>1, <1>4, <2>2, <2>4, TwinStep DEF Reheal
  <2> QED
    BY <2>3, <2>4
<1> QED
  BY <1>2, <1>3, <1>4

(* The worker calls save(), or assigns the FSM's state itself.             *)
LEMMA TwinSaves ==
    ASSUME OneClaimEach, IInv, TwinInv, NEW w \in Workers,
           Ensure(w) \/ ForceFailed(w) \/ Undeliverable(w) \/ Restore(w) \/ Follow(w)
    PROVE  TwinInv'
<1>1. w \in Actors /\ UNCHANGED <<rows, version, runs>>
  BY DEF Actors, Ensure, ForceFailed, Undeliverable, Restore, Follow, shared
<1>2. Alone(w)
  <2>1. \E pc : At(w, pc)
    BY DEF Ensure, ForceFailed, Undeliverable, Restore, Follow
  <2> QED
    BY <1>1, <2>1, TwinTurn
<1>3. CASE \E next \in {"return", "requeue", "ensure", "follow_cancel", "fail_or_restore"} :
             Jump(w, next)
  BY <1>1, <1>2, <1>3, TwinJump
<1>4. CASE \E ret \in {"return", "failed_saved", "redelivery_full", "redelivery_stopped"} :
             Call(w, "save", ret)
  BY <1>1, <1>2, <1>4, TwinCall
<1>5. ASSUME Undeliverable(w)
      PROVE  act[w].ret \in {"redelivery_full", "redelivery_stopped"}
  BY <1>5, WorkerFacts DEF Undeliverable, At, WorkerLocals, Taken, BeforeRun, AfterRun, SavePcs
<1> QED
  BY <1>3, <1>4, <1>5 DEF Ensure, ForceFailed, Undeliverable, Restore, Follow

(* Steps that end at a place where nothing is claimed.                     *)
LEMMA TwinLoop ==
    ASSUME OneClaimEach, IInv, TwinInv, NEW w \in Workers,
           \/ Receive(w) \/ ReceiveNone(w) \/ Redelivery(w) \/ Restart(w)
           \/ Begin(w) \/ Skipped(w) \/ Requeue(w)
    PROVE  TwinInv'
<1>1. w \in Actors /\ act[w] \in Actor /\ UNCHANGED <<rows, version, runs>>
  BY Records DEF IInv, Actors, Receive, ReceiveNone, Redelivery, Restart, Begin, Skipped, Requeue, shared
<1>2. Alone(w)
  <2>1. \E pc : At(w, pc)
    BY DEF Receive, ReceiveNone, Redelivery, Restart, Begin, Skipped, Requeue
  <2> QED
    BY <1>1, <2>1, TwinTurn
<1>3. CASE \E ret \in {"redelivery_full", "redelivery_stopped"} : Call(w, "undeliverable", ret)
  BY <1>1, <1>2, <1>3, TwinCall
<1>4. ASSUME NEW r, Goto(w, r),
             \/ r = [act[w] EXCEPT !.pc = "process", !.job = Head(queue)]
             \/ r = [act[w] EXCEPT !.pc = "heal", !.prev = fsm[J(w)]]
             \/ r = [act[w] EXCEPT !.pc = "follow", !.snap = RowOf(w).status]
             \/ r = [Blank("receive", NoJob) EXCEPT !.redelivery = TRUE]
             \/ \E pc \in {"receive", "raised", "returned"} : r = Blank(pc, NoJob)
      PROVE  TwinInv'
  <2>1. r.pc \in {"process", "heal", "follow", "receive", "raised", "returned"}
    <3>1. CASE \/ r = [act[w] EXCEPT !.pc = "process", !.job = Head(queue)]
               \/ r = [act[w] EXCEPT !.pc = "heal", !.prev = fsm[J(w)]]
               \/ r = [act[w] EXCEPT !.pc = "follow", !.snap = RowOf(w).status]
      BY <1>1, <3>1 DEF Actor
    <3>2. CASE r = [Blank("receive", NoJob) EXCEPT !.redelivery = TRUE]
      BY <3>2 DEF Blank
    <3>3. CASE \E pc \in {"receive", "raised", "returned"} : r = Blank(pc, NoJob)
      BY <3>3 DEF Blank
    <3> QED
      BY <1>4, <3>1, <3>2, <3>3
  <2>2. ~Marked(r)
    BY <2>1 DEF Marked
  <2> QED
    BY <1>1, <1>2, <1>4, <2>2, TwinPlain DEF Goto
<1> QED
  BY <1>3, <1>4 DEF Receive, ReceiveNone, Redelivery, Restart, Begin, Skipped, Requeue

(* From a persisted RUN to the workflows: the claim is kept.               *)
LEMMA TwinRuns ==
    ASSUME OneClaimEach, IInv, TwinInv, NEW w \in Workers,
           RunSaved(w) \/ WorkflowLoop(w) \/ WorkflowReturns(w)
    PROVE  TwinInv'
<1>1. w \in Actors /\ act[w] \in Actor /\ UNCHANGED <<rows, version>>
  BY Records DEF IInv, Actors, RunSaved, WorkflowLoop, WorkflowReturns, Step, shared
<1>2. Alone(w)
  <2>1. \E pc : At(w, pc)
    BY DEF RunSaved, WorkflowLoop, WorkflowReturns, Step
  <2> QED
    BY <1>1, <2>1, TwinTurn
<1>3. CASE runs' = runs /\ \E next \in {"skipped", "fail_or_restore", "finish", "ensure"} : Jump(w, next)
  BY <1>1, <1>2, <1>3, TwinJump
<1>4. ASSUME NEW r, Goto(w, r), Claims(act[w]),
             \/ r = [act[w] EXCEPT !.pc = "workflows", !.prev = None, !.res = "-"]
             \/ r = [act[w] EXCEPT !.pc = "workflows", !.snap = None, !.res = "-"]
             \/ r = [act[w] EXCEPT !.pc = "running", !.n = @ + 1],
             runs' = runs \/ runs' = [runs EXCEPT ![J(w)] = @ + 1]
      PROVE  TwinInv'
  <2>1. r.pc \in {"workflows", "running"} /\ r.job = act[w].job
    BY <1>1, <1>4 DEF Actor
  <2>2. r.pc \notin {"get", "refresh"}
        /\ Current(r, fsm'[r.job], rows[IdOf[r.job]], version[r.job])
    BY <2>1 DEF Current, NeedsRow, SavePcs
  <2>3. \A k \in Jobs : runs'[k] > 0 => runs[k] > 0 \/ k = J(w)
    BY <1>4 DEF IInv, TypeOK
  <2>4. \A k \in Jobs : runs'[k] > 0 => Claimed(k)
    BY <1>4, <2>3 DEF Claimed
  <2> QED
    BY <1>1, <1>2, <1>4, <2>1, <2>2, <2>4, TwinLocal DEF Goto
<1>5. ASSUME act[w].pc \in {"workflows", "running"} \/ (act[w].pc = "run_saved" /\ act[w].res = "ok")
      PROVE  Claims(act[w])
  BY <1>5 DEF Claims
<1>6. CASE RunSaved(w)
  <2>1. runs' = runs /\ act[w].pc = "run_saved"
    BY <1>6 DEF RunSaved, shared, At
  <2> QED
    BY <1>3, <1>4, <1>5, <1>6, <2>1 DEF RunSaved
<1>7. CASE WorkflowLoop(w)
  <2>1. act[w].pc = "workflows"
    BY <1>7 DEF WorkflowLoop, At
  <2> QED
    BY <1>3, <1>4, <1>5, <1>7, <2>1 DEF WorkflowLoop
<1>8. CASE WorkflowReturns(w)
  <2>1. /\ act[w].pc = "running" /\ runs' = runs
        /\ Goto(w, [act[w] EXCEPT !.pc = "workflows", !.snap = None, !.res = "-"])
    BY <1>8 DEF WorkflowReturns, Step, Jump, At, shared
  <2> QED
    BY <1>4, <1>5, <2>1
<1> QED
  BY <1>6, <1>7, <1>8

(* Every step keeps it.                                                    *)
LEMMA NextTwin ==
    ASSUME OneClaimEach
    PROVE  IInv /\ TwinInv /\ [Next]_vars => TwinInv'
<1> SUFFICES ASSUME IInv, TwinInv, [Next]_vars PROVE TwinInv'
  OBVIOUS
<1>1. ASSUME NEW a \in Actors, SharedStep(a) PROVE TwinInv'
  BY <1>1, TwinLookup, TwinCommit, TwinReads, TwinPut, TwinRefresh, TwinStoreRaises DEF SharedStep
<1>2. ASSUME NEW j \in Jobs, FromRecord(j) \/ Scheduled(j) \/ OwnerStep(j) PROVE TwinInv'
  BY <1>1, <1>2, TwinFromRecord, TwinOwner DEF OwnerStep, Actors
<1>3. ASSUME NEW c \in Cancellers, (\E j \in Jobs : Cancel(c, j) \/ SaveAgain(c, j)) \/ CancellerStep(c)
      PROVE  TwinInv'
  BY <1>1, <1>3, TwinCanceller DEF CancellerStep, Actors
<1>4. ASSUME NEW w \in Workers, WorkerStep(w) PROVE TwinInv'
  BY <1>1, <1>4, TwinDecides, TwinHeals, TwinSaves, TwinLoop, TwinRuns DEF WorkerStep, Actors
<1>5. CASE UNCHANGED <<fsm, rows, version, runs, act>>
  BY <1>5 DEF TwinInv, OneBusy, BusyIsCurrent, NoneAhead, OneClaim, Claimed, Behind, Busy, J, RowOf
<1>6. RequestStop \/ UNCHANGED vars => UNCHANGED <<fsm, rows, version, runs, act>>
  BY DEF RequestStop, vars
<1> QED
  BY <1>2, <1>3, <1>4, <1>5, <1>6 DEF Next

(* On one event loop, instances that share an id start its workflows once  *)
(* between them, with any store errors, cancels, requeues and resubmits,   *)
(* and however the instances were built, as long as none is rebuilt by     *)
(* Job.from_record from a row that says InProgress: the put of InProgress  *)
(* that save() makes after RUN is refused to all but the one instance that *)
(* knows the row's version, and a refused save() makes the worker skip the *)
(* workflows.                                                              *)
THEOREM TwinsClaimOnce ==
    ASSUME OneClaimEach
    PROVE  Spec => []TwinsRunOnce
<1>1. IInv /\ TwinInv => TwinsRunOnce
  <2> SUFFICES ASSUME IInv, TwinInv, NEW i \in Jobs, NEW j \in Jobs, i # j, IdOf[i] = IdOf[j]
               PROVE  runs[i] + runs[j] <= 1
    BY DEF TwinsRunOnce
  <2>1. runs[i] \in Nat /\ runs[j] \in Nat /\ runs[i] <= 1 /\ runs[j] <= 1
    BY DEF IInv, TypeOK, TokenInv, RunsAtMostOnce
  <2>2. ~(Claimed(i) /\ Claimed(j))
    BY DEF TwinInv, OneClaim
  <2>3. runs[i] = 0 \/ runs[j] = 0
    BY <2>1, <2>2 DEF Claimed
  <2> QED
    BY <2>1, <2>3
<1> QED
  BY <1>1, Invariant, InitTwin, NextTwin, PTL DEF Spec

-----------------------------------------------------------------------------
(* Cancels that last.  A status becomes Cancelled by Job.cancel alone,     *)
(* which goes on to save(), and only while the job is with a worker or     *)
(* will get to one.                                                        *)
Pursued(j) == InHand(j) /\ \E c \in Cancellers : Persisting(c, j)

LEMMA OnlyCancelCancels ==
    ASSUME Cooperative, IInv, CoopInv, [Next]_vars,
           NEW k \in Jobs, fsm'[k] = "Cancelled", fsm[k] # "Cancelled"
    PROVE  Pursued(k)'
<1>1. ASSUME NEW a \in Actors, ApplyCommit(a) PROVE Pursued(k)'
  <2>1. At(a, "commit") /\ fsm' = [fsm EXCEPT ![J(a)] = act[a].snap]
    BY <1>1 DEF ApplyCommit
  <2>2. /\ Locals(a, act[a]) /\ act[a].pc = "commit" /\ J(a) = act[a].job /\ act[a] \in Actor
        /\ Place(a, act[a], fsm[act[a].job], RowOf(a), version[act[a].job], faults)
    BY <2>1, ActorTurn DEF AwaitPoints
  <2>3. act[a].job = k /\ act[a].snap = "Cancelled"
    BY <2>1, <2>2 DEF IInv, TypeOK
  <2>4. a \in Cancellers
    <3>1. a \notin Jobs
      BY <2>2, <2>3 DEF Locals, OwnerLocals, SavePcs
    <3>2. a \notin Workers
      BY <2>2, <2>3 DEF Place, WorkerPlace
    <3> QED
      BY <3>1, <3>2 DEF Actors
  <2>5. act[a].ret = "cancel"
    BY <2>2, <2>4 DEF Locals, CancellerLocals, SavePcs
  <2>6. PICK s \in Sites :
          s.at = "cancel" /\ act' = [act EXCEPT ![a] = [act[a] EXCEPT !.pc = s.next, !.ret = s.ret, !.snap = None]]
    BY <1>1, <2>5 DEF ApplyCommit, Goto
  <2>7. s.next = "save"
    BY <2>6 DEF Sites
  <2>8. act'[a].pc = "save" /\ act'[a].job = k
    BY <2>2, <2>3, <2>6, <2>7 DEF IInv, TypeOK, Actor
  <2>9. InHand(k)
    <3>1. fsm[k] \in {"Scheduled", "InProgress"}
      BY <2>2, <2>3, <2>4 DEF Place, CancellerPlace
    <3>2. k \in Actors /\ k # a /\ OwnerLocals(k, act[k])
      BY <2>4, ConstantsAssumption DEF Actors, IInv, TokenInv, LocalsOK, Locals
    <3>3. act[k].pc \in AwaitPoints
      BY <2>1, <3>2 DEF At, Cooperative
    <3>4. act[k].prev # "Unknown"
      BY <3>2, <3>3 DEF OwnerLocals, AwaitPoints, SavePcs, None
    <3> QED
      BY <3>1, <3>4 DEF CoopInv, Located, InHand
  <2>10. queue' = queue /\ \A w \in Workers : act'[w] = act[w]
    BY <1>1, <2>4, <2>6, ConstantsAssumption DEF ApplyCommit, Actors, IInv, TypeOK
  <2>11. InHand(k)'
    BY <2>9, <2>10 DEF InHand, Queued, J
  <2> QED
    BY <2>4, <2>8, <2>11 DEF Pursued, Persisting, SavePcs
<1>2. ASSUME NEW j \in Jobs, Rollback(j) PROVE FALSE
  <2>1. At(j, "rollback") /\ fsm' = [fsm EXCEPT ![j] = act[j].prev]
    BY <1>2 DEF Rollback
  <2>2. act[j].prev = "Unknown" \/ act[j].prev = fsm[j]
    BY <2>1, OwnerTurn DEF AwaitPoints, OwnerPlace
  <2> QED
    BY <2>1, <2>2 DEF IInv, TypeOK
<1>3. ASSUME NEW w \in Workers, ForceFailed(w) \/ Restore(w) \/ Undeliverable(w) PROVE FALSE
  <2>1. CASE Restore(w)
    <3>1. At(w, "restore") /\ fsm' = [fsm EXCEPT ![J(w)] = act[w].prev]
      BY <2>1 DEF Restore
    <3>2. act[w].prev = "Scheduled"
      BY <3>1, WorkerTurn DEF AwaitPoints, WorkerPlace, WorkerLocals, Taken, BeforeRun, AfterRun, SavePcs
    <3> QED
      BY <3>1, <3>2 DEF IInv, TypeOK
  <2>2. CASE ForceFailed(w) \/ Undeliverable(w)
    <3>1. fsm' = [fsm EXCEPT ![J(w)] = "Failed"]
      BY <2>2 DEF ForceFailed, Undeliverable
    <3> QED
      BY <3>1 DEF IInv, TypeOK
  <2> QED
    BY <1>3, <2>1, <2>2
<1>4. ASSUME NEW a \in Actors, SharedStep(a), ~ApplyCommit(a) PROVE fsm' = fsm
  BY <1>4 DEF SharedStep, ApplyLookup, SaveStatus, SaveRecord, SavePut, SaveGet, SaveRefresh,
     StoreRaises, shared
<1>5. ASSUME NEW a \in Actors, SharedStep(a) PROVE Pursued(k)'
  BY <1>1, <1>4, <1>5
<1>6. ASSUME NEW j \in Jobs, FromRecord(j) \/ Scheduled(j) \/ Send(j) \/ SchedSaved(j)
      PROVE  fsm' = fsm
  BY <1>6 DEF FromRecord, Scheduled, Send, SchedSaved, shared
<1>7. ASSUME NEW c \in Cancellers, (\E j \in Jobs : Cancel(c, j) \/ SaveAgain(c, j)) \/ CancelSaved(c)
      PROVE  fsm' = fsm
  BY <1>7 DEF Cancel, SaveAgain, CancelSaved, Step, shared
<1>8. ASSUME NEW w \in Workers, WorkerStep(w), ~SharedStep(w), ~Follow(w),
             ~(ForceFailed(w) \/ Restore(w) \/ Undeliverable(w))
      PROVE  fsm' = fsm
  BY <1>8 DEF WorkerStep, Receive, ReceiveNone, Process, Begin, Heal, Healed, Reheal, RunSaved,
     Skipped, WorkflowLoop, WorkflowReturns, WorkflowRaises, Failed, Finish, Ensure,
     FailOrRestore, FailedSaved, RestoreCheck, Requeue, Redelivery, Restart, Step, shared
<1>9. ASSUME NEW w \in Workers, WorkerStep(w) PROVE Pursued(k)'
  BY <1>3, <1>5, <1>8, <1>9, CoopNeverFollows DEF Actors
<1>10. RequestStop \/ UNCHANGED vars => fsm' = fsm
  BY DEF RequestStop, vars
<1> QED
  BY <1>2, <1>5, <1>6, <1>7, <1>9, <1>10 DEF Next, OwnerStep, CancellerStep, Actors

(* No put takes a Cancelled row back: the status fence.                    *)
LEMMA CancelledRowStays ==
    ASSUME IInv, [Next]_vars, NEW id \in Ids, rows[id].status = "Cancelled"
    PROVE  rows'[id].status = "Cancelled"
<1>1. ASSUME NEW a \in Actors, SavePut(a) PROVE rows'[id].status = "Cancelled"
  <2>1. /\ act[a].pc = "put" /\ act[a].snap \in Status
        /\ rows' = [rows EXCEPT ![IdOf[J(a)]] = put(@, act[a].snap, act[a].ver)]
    BY <1>1 DEF SavePut, At, IInv, TokenInv, LocalsOK, Locals
  <2>2. CASE id # IdOf[J(a)]
    BY <2>1, <2>2 DEF IInv, TypeOK
  <2>3. CASE id = IdOf[J(a)]
    <3>1. rows'[id] = put(rows[id], act[a].snap, act[a].ver)
      BY <2>1, <2>3 DEF IInv, TypeOK
    <3>2. "Cancelled" \in existing_statuses_put_may_replace(act[a].snap) => act[a].snap = "Cancelled"
      BY <2>1 DEF existing_statuses_put_may_replace, Status, NonTerminal, Terminal
    <3> QED
      BY <3>1, <3>2 DEF put, put_may_write, put_applies, None
  <2> QED
    BY <2>2, <2>3
<1>2. ASSUME NEW a \in Actors, SharedStep(a), ~SavePut(a) PROVE rows' = rows
  BY <1>2 DEF SharedStep, ApplyLookup, ApplyCommit, SaveStatus, SaveRecord, SaveGet, SaveRefresh,
     StoreRaises, shared
<1>3. ASSUME NEW j \in Jobs, FromRecord(j) \/ Scheduled(j) \/ Send(j) \/ SchedSaved(j) \/ Rollback(j)
      PROVE  rows' = rows
  BY <1>3 DEF FromRecord, Scheduled, Send, SchedSaved, Rollback, shared
<1>4. ASSUME NEW c \in Cancellers, (\E j \in Jobs : Cancel(c, j) \/ SaveAgain(c, j)) \/ CancelSaved(c)
      PROVE  rows' = rows
  BY <1>4 DEF Cancel, SaveAgain, CancelSaved, Step, shared
<1>5. ASSUME NEW w \in Workers, WorkerStep(w), ~SharedStep(w) PROVE rows' = rows
  BY <1>5 DEF WorkerStep, Receive, ReceiveNone, Process, Begin, Heal, Healed, Reheal, RunSaved,
     Skipped, Follow, WorkflowLoop, WorkflowReturns, WorkflowRaises, Failed, Finish, Ensure,
     FailOrRestore, ForceFailed, FailedSaved, RestoreCheck, Restore, Requeue, Undeliverable,
     Redelivery, Restart, Step, shared
<1>6. RequestStop \/ UNCHANGED vars => rows' = rows
  BY DEF RequestStop, vars
<1>7. ASSUME NEW a \in Actors, SharedStep(a) PROVE rows'[id].status = "Cancelled"
  BY <1>1, <1>2, <1>7
<1> QED
  BY <1>3, <1>4, <1>5, <1>6, <1>7 DEF Next, OwnerStep, CancellerStep, Actors

(* A canceller leaves save() with its row Cancelled, or a put has raised.  *)
LEMMA CancellerPersists ==
    ASSUME Cooperative, IInv, CoopInv, NEW c \in Cancellers, NEW k \in Jobs, Persisting(c, k),
           CancellerStep(c)
    PROVE  Persisting(c, k)' \/ rows[IdOf[k]].status = "Cancelled" \/ faults # 0
<1>1. /\ c \in Actors /\ act[c] \in Actor /\ J(c) = k /\ act[c].job = k
      /\ act[c].pc \in SavePcs \cup {"cancel_saved"}
  BY Records DEF Actors, IInv, Persisting, J
<1>2. act[c].pc \in SavePcs => act[c].ret = "cancel_saved"
  BY <1>1, SaveCallers
<1>3. ASSUME NEW r, act' = [act EXCEPT ![c] = r], r.job = k, r.pc \in SavePcs \cup {"cancel_saved"}
      PROVE  Persisting(c, k)'
  BY <1>1, <1>3 DEF Persisting, IInv, TypeOK
<1>4. ASSUME NEW res, act[c].pc \in SavePcs, SaveEnds(c, res) PROVE Persisting(c, k)'
  <2>1. PICK r : r = [act[c] EXCEPT !.pc = "cancel_saved", !.ret = "-", !.snap = None, !.ver = 0,
                                    !.res = res]
    OBVIOUS
  <2>2. act' = [act EXCEPT ![c] = r]
    BY <1>2, <1>4, <2>1 DEF SaveEnds, Goto
  <2>3. r.job = k /\ r.pc = "cancel_saved"
    BY <1>1, <2>1 DEF Actor
  <2> QED
    BY <1>3, <2>2, <2>3
<1>5. ASSUME SaveStatus(c) \/ SaveRecord(c) \/ SaveGet(c) PROVE Persisting(c, k)'
  <2>1. CASE SaveStatus(c)
    <3>1. PICK r : r = [act[c] EXCEPT !.pc = "record", !.snap = fsm[J(c)]]
      OBVIOUS
    <3>2. r.job = k /\ r.pc \in SavePcs
      BY <1>1, <3>1 DEF Actor, SavePcs
    <3> QED
      BY <1>3, <2>1, <3>1, <3>2 DEF SaveStatus, Goto
  <2>2. CASE SaveRecord(c)
    <3>1. PICK r : r = [act[c] EXCEPT !.pc = "put", !.ver = version[J(c)]]
      OBVIOUS
    <3>2. r.job = k /\ r.pc \in SavePcs
      BY <1>1, <3>1 DEF Actor, SavePcs
    <3> QED
      BY <1>3, <2>2, <3>1, <3>2 DEF SaveRecord, Goto
  <2>3. CASE SaveGet(c)
    <3>1. PICK r : r = [act[c] EXCEPT !.pc = "refresh", !.ver = RowOf(c).version]
      OBVIOUS
    <3>2. r.job = k /\ r.pc \in SavePcs
      BY <1>1, <3>1 DEF Actor, SavePcs
    <3> QED
      BY <1>3, <2>3, <3>1, <3>2 DEF SaveGet, Goto
  <2> QED
    BY <1>5, <2>1, <2>2, <2>3
<1>6. ASSUME SavePut(c) PROVE Persisting(c, k)'
  <2>1. act[c].pc \in SavePcs
    BY <1>6 DEF SavePut, At, SavePcs
  <2>2. PICK r : r = [act[c] EXCEPT !.pc = "get", !.snap = None, !.ver = 0]
    OBVIOUS
  <2>3. r.job = k /\ r.pc \in SavePcs
    BY <1>1, <2>2 DEF Actor, SavePcs
  <2> QED
    BY <1>3, <1>4, <1>6, <2>1, <2>2, <2>3 DEF SavePut, Goto
<1>7. ASSUME SaveRefresh(c) \/ StoreRaises(c) PROVE Persisting(c, k)'
  <2>1. act[c].pc \in SavePcs /\ \E res : SaveEnds(c, res)
    BY <1>1, <1>7 DEF SaveRefresh, StoreRaises, At, SavePcs
  <2> QED
    BY <1>4, <2>1
<1>8. ASSUME ApplyLookup(c) \/ ApplyCommit(c) PROVE FALSE
  <2>1. \A s \in Sites : s.at \notin SavePcs \cup {"cancel_saved"}
    BY DEF Sites, SavePcs
  <2> QED
    BY <1>1, <1>8, <2>1 DEF ApplyLookup, ApplyCommit, At, SavePcs
<1>9. ASSUME CancelSaved(c) PROVE rows[IdOf[k]].status = "Cancelled" \/ faults # 0
  <2>1. /\ act[c].pc = "cancel_saved"
        /\ Place(c, act[c], fsm[k], RowOf(c), version[k], faults)
    BY <1>1, <1>9, ActorTurn DEF CancelSaved, Step, AwaitPoints
  <2>2. CancellerPlace(act[c], fsm[k], rows[IdOf[k]], version[k], faults)
    BY <1>1, <2>1 DEF Place, RowOf
  <2> QED
    BY <2>1, <2>2 DEF CancellerPlace, Saved, IInv, TypeOK
<1> QED
  BY <1>5, <1>6, <1>7, <1>8, <1>9 DEF CancellerStep, SharedStep

(* While a canceller is inside save(), no other task has its turn.         *)
LEMMA CancellerIsAlone ==
    ASSUME Cooperative, IInv, [Next]_vars, NEW c \in Cancellers, NEW k \in Jobs, Persisting(c, k)
    PROVE  /\ CancellerStep(c) \/ act' = act
           /\ \A w \in Workers : ~WorkerStep(w)
<1>1. c \in Actors /\ act[c].pc \notin AwaitPoints
  BY DEF Actors, Persisting, SavePcs, AwaitPoints
<1>2. ASSUME NEW a \in Actors, NEW pc, At(a, pc) PROVE a = c
  BY <1>1, <1>2 DEF At, Cooperative
<1>3. ASSUME NEW a \in Actors, SharedStep(a) PROVE a = c
  BY <1>2, <1>3 DEF SharedStep, ApplyLookup, ApplyCommit, SaveStatus, SaveRecord, SavePut, SaveGet,
     SaveRefresh, StoreRaises
<1>4. ASSUME NEW j \in Jobs, FromRecord(j) \/ Scheduled(j) \/ OwnerStep(j) PROVE FALSE
  <2>1. j = c
    BY <1>2, <1>3, <1>4 DEF FromRecord, Scheduled, OwnerStep, Send, SchedSaved, Rollback, Actors
  <2> QED
    BY <2>1, ConstantsAssumption
<1>5. ASSUME NEW w \in Workers, WorkerStep(w) PROVE FALSE
  <2>1. w = c
    <3>1. w \in Actors
      BY DEF Actors
    <3>2. SharedStep(w) \/ \E pc : At(w, pc)
      BY <1>5 DEF WorkerStep, Receive, ReceiveNone, Process, Begin, Heal, Healed, Reheal, RunSaved,
         Skipped, Follow, WorkflowLoop, WorkflowReturns, WorkflowRaises, Failed, Finish, Ensure,
         FailOrRestore, ForceFailed, FailedSaved, RestoreCheck, Restore, Requeue, Undeliverable,
         Redelivery, Restart, Step
    <3> QED
      BY <1>2, <1>3, <3>1, <3>2
  <2> QED
    BY <2>1, ConstantsAssumption
<1>6. ASSUME NEW d \in Cancellers, NEW j \in Jobs, Cancel(d, j) \/ SaveAgain(d, j) PROVE FALSE
  BY <1>1, <1>2, <1>6 DEF Cancel, SaveAgain, At, Actors, AwaitPoints
<1>7. ASSUME NEW d \in Cancellers, CancellerStep(d) PROVE d = c
  BY <1>2, <1>3, <1>7 DEF CancellerStep, CancelSaved, Step, Actors
<1>8. RequestStop \/ UNCHANGED vars => act' = act
  BY DEF RequestStop, vars
<1>9. CancellerStep(c) \/ act' = act
  BY <1>4, <1>5, <1>6, <1>7, <1>8 DEF Next
<1> QED
  BY <1>5, <1>9

(* A worker lets go of a cancelled job whose row is behind only when its   *)
(* own put raises too.                                                     *)
LEMMA WorkerHolds ==
    ASSUME Cooperative, IInv, CoopInv, NEW w \in Workers, WorkerStep(w), NEW k \in Jobs,
           act[w].job = k, fsm[k] = "Cancelled", rows[IdOf[k]].status # "Cancelled", faults = 1
    PROVE  act'[w].job = k \/ faults' > 1
<1>1. /\ w \in Actors /\ act[w] \in Actor /\ w \notin Jobs /\ J(w) = k /\ RowOf(w) = rows[IdOf[k]]
      /\ act[w].pc \notin {"receive", "raised", "returned"}
  BY WorkerFacts, ConstantsAssumption DEF J, RowOf, WorkerLocals, Taken, BeforeRun, AfterRun, SavePcs,
     Actors
<1>2. ASSUME NEW r, r.job = k, Goto(w, r) PROVE act'[w].job = k
  BY <1>1, <1>2 DEF Goto, IInv, TypeOK
<1>3. ASSUME NEW pc, pc # "return", Jump(w, pc) PROVE act'[w].job = k
  <2>1. PICK r : r = [act[w] EXCEPT !.pc = pc, !.snap = None, !.res = "-"]
    OBVIOUS
  <2>2. r.job = k
    BY <1>1, <2>1 DEF Actor
  <2>3. Goto(w, r)
    BY <1>3, <2>1, Zenon DEF Jump
  <2> QED
    BY <1>2, <2>2, <2>3
<1>4. ASSUME NEW pc, NEW ret, Call(w, pc, ret) PROVE act'[w].job = k
  <2>1. PICK r : r = [act[w] EXCEPT !.pc = pc, !.ret = ret]
    OBVIOUS
  <2>2. r.job = k
    BY <1>1, <2>1 DEF Actor
  <2>3. Goto(w, r)
    BY <1>4, <2>1, Zenon DEF Call
  <2> QED
    BY <1>2, <2>2, <2>3
<1>5. ASSUME NEW pc, At(w, pc), pc \notin AwaitPoints
      PROVE  /\ act[w].pc = pc /\ WorkerLocals(act[w]) /\ Locals(w, act[w])
             /\ WorkerPlace(act[w], "Cancelled", rows[IdOf[k]], version[k], faults)
  <2>1. Locals(w, act[w])
    BY <1>1 DEF IInv, TokenInv, LocalsOK
  <2> QED
    BY <1>1, <1>5, <2>1, WorkerTurn DEF AwaitPoints
<1>6. ASSUME ApplyLookup(w) \/ ApplyCommit(w) PROVE FALSE
  <2>1. CASE ApplyLookup(w)
    <3>1. PICK s \in Sites : At(w, s.at)
      BY <2>1 DEF ApplyLookup
    <3>2. s.at \in {"init", "schedule", "cancel", "run", "follow_cancel", "fail", "complete"}
      BY DEF Sites
    <3>3. s.at \notin AwaitPoints
      BY <3>2 DEF AwaitPoints
    <3> QED
      BY <3>1, <3>2, <3>3, <1>5 DEF WorkerPlace, WorkerLocals, Taken, BeforeRun, AfterRun, SavePcs
  <2>2. CASE ApplyCommit(w)
    <3>1. At(w, "commit")
      BY <2>2 DEF ApplyCommit
    <3> QED
      BY <3>1, <1>5 DEF WorkerPlace, AwaitPoints
  <2> QED
    BY <1>6, <2>1, <2>2
<1>7. ASSUME SaveStatus(w) \/ SaveRecord(w) \/ SaveGet(w) PROVE act'[w].job = k
  <2>1. /\ [act[w] EXCEPT !.pc = "record", !.snap = fsm[J(w)]].job = k
        /\ [act[w] EXCEPT !.pc = "put", !.ver = version[J(w)]].job = k
        /\ [act[w] EXCEPT !.pc = "refresh", !.ver = RowOf(w).version].job = k
    BY <1>1 DEF Actor
  <2> QED
    BY <1>2, <1>7, <2>1 DEF SaveStatus, SaveRecord, SaveGet
<1>8. ASSUME SavePut(w) PROVE act'[w].job = k
  <2>1. act[w].pc = "put" /\ Locals(w, act[w])
        /\ WorkerPlace(act[w], "Cancelled", rows[IdOf[k]], version[k], faults)
    BY <1>5, <1>8 DEF SavePut, AwaitPoints
  <2>2. rows[IdOf[k]] \in Row /\ Place(w, act[w], "Cancelled", rows[IdOf[k]], version[k], faults)
    BY <1>1, <2>1, ConstantsAssumption DEF Place, IInv, TypeOK
  <2>3. put_may_write(RowOf(w), act[w].snap, act[w].ver)
    <3>1. /\ act[w].snap = "Cancelled" /\ act[w].ver = version[k]
          /\ put_may_write(rows[IdOf[k]], "Cancelled", version[k])
      <4> DEFINE x == act[w]
                 row == rows[IdOf[k]]
                 v == version[k]
      <4>1. w \in Actors /\ row \in Row /\ Locals(w, x) /\ x.pc = "put"
            /\ Place(w, x, "Cancelled", row, v, faults)
        BY <1>1, <2>1, <2>2
      <4> HIDE DEF x, row, v
      <4>2. x.snap = "Cancelled" /\ x.ver = v /\ put_may_write(row, "Cancelled", v)
        BY <4>1, PutIsWritten, Zenon
      <4> QED
        BY <4>2 DEF x, row, v
    <3> QED
      BY <1>1, <3>1, Zenon
  <2>4. [act[w] EXCEPT !.pc = "get", !.snap = None, !.ver = 0].job = k
    BY <1>1 DEF Actor
  <2>5. Goto(w, [act[w] EXCEPT !.pc = "get", !.snap = None, !.ver = 0])
    BY <1>8, <2>3 DEF SavePut
  <2> QED
    BY <1>2, <2>4, <2>5
<1>9. ASSUME SaveRefresh(w) PROVE FALSE
  BY <1>5, <1>9 DEF SaveRefresh, AwaitPoints, SavePcs, WorkerPlace, Saving, WorkerLocals, Taken,
     BeforeRun, AfterRun
<1>10. ASSUME StoreRaises(w) PROVE faults' > 1
  BY <1>10 DEF StoreRaises, Raise
<1>11. ASSUME SharedStep(w) PROVE act'[w].job = k \/ faults' > 1
  BY <1>6, <1>7, <1>8, <1>9, <1>10, <1>11 DEF SharedStep
<1>12. ASSUME \/ Process(w) \/ Healed(w) \/ Reheal(w) \/ WorkflowReturns(w) \/ WorkflowRaises(w)
              \/ Failed(w) \/ Finish(w) \/ FailOrRestore(w) \/ RestoreCheck(w)
              \/ Heal(w) \/ ForceFailed(w) \/ Undeliverable(w) \/ Restore(w)
       PROVE  act'[w].job = k
  BY <1>3, <1>4, <1>12 DEF Process, Healed, Reheal, WorkflowReturns, WorkflowRaises, Failed, Finish,
     FailOrRestore, RestoreCheck, Heal, ForceFailed, Undeliverable, Restore, Step
<1>13. ASSUME Begin(w) \/ RunSaved(w) \/ WorkflowLoop(w) PROVE act'[w].job = k
  <2>1. /\ [act[w] EXCEPT !.pc = "heal", !.prev = fsm[J(w)]].job = k
        /\ [act[w] EXCEPT !.pc = "workflows", !.prev = None, !.res = "-"].job = k
        /\ [act[w] EXCEPT !.pc = "running", !.n = @ + 1].job = k
    BY <1>1 DEF Actor
  <2> QED
    BY <1>2, <1>3, <1>13, <2>1 DEF Begin, RunSaved, WorkflowLoop
<1>14. ASSUME Ensure(w) PROVE act'[w].job = k
  BY <1>1, <1>4, <1>14 DEF Ensure
<1>15. ASSUME FailedSaved(w) \/ Requeue(w) \/ Redelivery(w) PROVE FALSE
  <2>1. PICK pc \in {"failed_saved", "requeue", "redelivery_full", "redelivery_stopped"} : At(w, pc)
    BY <1>15 DEF FailedSaved, Requeue, Redelivery, Step
  <2> QED
    BY <1>5, <2>1 DEF WorkerPlace, AwaitPoints
<1>16. ASSUME Receive(w) \/ ReceiveNone(w) \/ Restart(w) PROVE FALSE
  BY <1>1, <1>16 DEF Receive, ReceiveNone, Restart, At
<1> QED
  BY <1>11, <1>12, <1>13, <1>14, <1>15, <1>16, CoopNeverFollows DEF WorkerStep

(* A job on the queue stays there until a worker takes it.                 *)
LEMMA QueuedStays ==
    ASSUME IInv, [Next]_vars, NEW k \in Jobs, Queued(k)
    PROVE  InHand(k)'
<1>1. ASSUME queue' = queue \/ \E j \in Jobs : queue' = Append(queue, j) PROVE InHand(k)'
  <2>1. CASE queue' = queue
    BY <2>1 DEF InHand, Queued
  <2>2. CASE \E j \in Jobs : queue' = Append(queue, j)
    BY <2>2, SendKeeps DEF InHand, IInv
  <2> QED
    BY <1>1, <2>1, <2>2
<1>2. ASSUME NEW a \in Actors, SharedStep(a) PROVE queue' = queue
  BY <1>2 DEF SharedStep, ApplyLookup, ApplyCommit, SaveStatus, SaveRecord, SavePut, SaveGet,
     SaveRefresh, StoreRaises, shared
<1>3. ASSUME NEW j \in Jobs, FromRecord(j) \/ Scheduled(j) \/ Send(j) \/ SchedSaved(j) \/ Rollback(j)
      PROVE  queue' = queue \/ queue' = Append(queue, j)
  BY <1>3 DEF FromRecord, Scheduled, Send, SchedSaved, Rollback, shared
<1>4. ASSUME NEW c \in Cancellers, (\E j \in Jobs : Cancel(c, j) \/ SaveAgain(c, j)) \/ CancelSaved(c)
      PROVE  queue' = queue
  BY <1>4 DEF Cancel, SaveAgain, CancelSaved, Step, shared
<1>5. ASSUME NEW w \in Workers, Receive(w) PROVE InHand(k)'
  <2>1. /\ w \in Actors /\ act[w] \in Actor /\ queue # <<>> /\ queue' = Tail(queue)
        /\ act' = [act EXCEPT ![w] = [act[w] EXCEPT !.pc = "process", !.job = Head(queue)]]
    BY <1>5, WorkerFacts DEF Receive, Goto
  <2>2. CASE k # Head(queue)
    BY <2>1, <2>2, ReceiveKeeps DEF InHand, IInv
  <2>3. CASE k = Head(queue)
    <3>1. act'[w].job = k
      BY <2>1, <2>3 DEF IInv, TypeOK, Actor
    <3> QED
      BY <3>1 DEF InHand, J
  <2> QED
    BY <2>2, <2>3
<1>6. ASSUME NEW w \in Workers, Requeue(w) PROVE queue' = queue \/ \E j \in Jobs : queue' = Append(queue, j)
  <2>1. J(w) \in Jobs
    BY <1>6, WorkerFacts DEF Requeue, At, J
  <2> QED
    BY <1>6, <2>1 DEF Requeue
<1>7. ASSUME NEW w \in Workers, WorkerStep(w), ~SharedStep(w), ~Receive(w), ~Requeue(w)
      PROVE  queue' = queue
  BY <1>7 DEF WorkerStep, ReceiveNone, Process, Begin, Heal, Healed, Reheal, RunSaved,
     Skipped, Follow, WorkflowLoop, WorkflowReturns, WorkflowRaises, Failed, Finish, Ensure,
     FailOrRestore, ForceFailed, FailedSaved, RestoreCheck, Restore, Undeliverable,
     Redelivery, Restart, Step, shared
<1>8. RequestStop \/ UNCHANGED vars => queue' = queue
  BY DEF RequestStop, vars
<1>9. ASSUME NEW w \in Workers, WorkerStep(w) PROVE InHand(k)'
  BY <1>1, <1>2, <1>5, <1>6, <1>7, <1>9 DEF Actors
<1> QED
  BY <1>1, <1>2, <1>3, <1>4, <1>8, <1>9 DEF Next, OwnerStep, CancellerStep, Actors

(* Store errors are counted, never forgotten.                              *)
LEMMA FaultsGrow ==
    ASSUME IInv, [Next]_vars
    PROVE  faults \in Nat /\ faults' \in Nat /\ faults <= faults'
<1>1. faults \in Nat /\ faults' \in Nat
  BY NextInv, ConstantsAssumption DEF IInv, TypeOK
<1>2. ASSUME NEW a \in Actors, SharedStep(a) PROVE faults' = faults \/ faults' = faults + 1
  BY <1>2 DEF SharedStep, ApplyLookup, ApplyCommit, SaveStatus, SaveRecord, SavePut, SaveGet,
     SaveRefresh, StoreRaises, Raise, shared
<1>3. ASSUME NEW j \in Jobs, FromRecord(j) \/ Scheduled(j) \/ Send(j) \/ SchedSaved(j) \/ Rollback(j)
      PROVE  faults' = faults
  BY <1>3 DEF FromRecord, Scheduled, Send, SchedSaved, Rollback, shared
<1>4. ASSUME NEW c \in Cancellers, (\E j \in Jobs : Cancel(c, j) \/ SaveAgain(c, j)) \/ CancelSaved(c)
      PROVE  faults' = faults
  BY <1>4 DEF Cancel, SaveAgain, CancelSaved, Step, shared
<1>5. ASSUME NEW w \in Workers, WorkerStep(w), ~SharedStep(w) PROVE faults' = faults
  BY <1>5 DEF WorkerStep, Receive, ReceiveNone, Process, Begin, Heal, Healed, Reheal, RunSaved,
     Skipped, Follow, WorkflowLoop, WorkflowReturns, WorkflowRaises, Failed, Finish, Ensure,
     FailOrRestore, ForceFailed, FailedSaved, RestoreCheck, Restore, Requeue, Undeliverable,
     Redelivery, Restart, Step, shared
<1>6. RequestStop \/ UNCHANGED vars => faults' = faults
  BY DEF RequestStop, vars
<1>7. faults' = faults \/ faults' = faults + 1
  BY <1>2, <1>3, <1>4, <1>5, <1>6 DEF Next, OwnerStep, CancellerStep, Actors
<1> QED
  BY <1>1, <1>7

(* A step is one actor's: the others stay where they are.                  *)
LEMMA OthersStay ==
    ASSUME IInv, [Next]_vars, NEW w \in Workers, ~WorkerStep(w)
    PROVE  act'[w] = act[w]
<1>1. ASSUME NEW a \in Actors, a # w, NEW r, Goto(a, r) PROVE act'[w] = act[w]
  BY <1>1 DEF Goto, IInv, TypeOK, Actors
<1>2. ASSUME NEW a \in Actors, a # w,
             \/ \E pc : Jump(a, pc)
             \/ \E pc, ret : Call(a, pc, ret)
             \/ \E res : SaveEnds(a, res)
      PROVE  act'[w] = act[w]
  BY <1>1, <1>2 DEF Jump, Call, SaveEnds
<1>3. ASSUME NEW a \in Actors, a # w, SharedStep(a) PROVE act'[w] = act[w]
  BY <1>1, <1>2, <1>3 DEF SharedStep, ApplyLookup, ApplyCommit, SaveStatus, SaveRecord, SavePut,
     SaveGet, SaveRefresh, StoreRaises
<1>4. ASSUME NEW j \in Jobs, FromRecord(j) \/ Scheduled(j) \/ OwnerStep(j) PROVE act'[w] = act[w]
  <2>1. j \in Actors /\ j # w
    BY ConstantsAssumption DEF Actors
  <2> QED
    BY <1>1, <1>2, <1>3, <1>4, <2>1 DEF FromRecord, Scheduled, OwnerStep, Send, SchedSaved, Rollback
<1>5. ASSUME NEW c \in Cancellers, (\E j \in Jobs : Cancel(c, j) \/ SaveAgain(c, j)) \/ CancellerStep(c)
      PROVE  act'[w] = act[w]
  <2>1. c \in Actors /\ c # w
    BY ConstantsAssumption DEF Actors
  <2> QED
    BY <1>1, <1>2, <1>3, <1>5, <2>1 DEF Cancel, SaveAgain, CancellerStep, CancelSaved, Step
<1>6. ASSUME NEW v \in Workers, v # w, WorkerStep(v) PROVE act'[w] = act[w]
  <2>1. v \in Actors
    BY DEF Actors
  <2>2. SharedStep(v) \/ (\E r : Goto(v, r)) \/ (\E pc : Jump(v, pc)) \/ (\E pc, ret : Call(v, pc, ret))
    BY <1>6 DEF WorkerStep, Receive, ReceiveNone, Process, Begin, Heal, Healed, Reheal, RunSaved,
       Skipped, Follow, WorkflowLoop, WorkflowReturns, WorkflowRaises, Failed, Finish, Ensure,
       FailOrRestore, ForceFailed, FailedSaved, RestoreCheck, Restore, Requeue, Undeliverable,
       Redelivery, Restart, Step
  <2> QED
    BY <1>1, <1>2, <1>3, <1>6, <2>1, <2>2
<1>7. RequestStop \/ UNCHANGED vars => act' = act
  BY DEF RequestStop, vars
<1> QED
  BY <1>4, <1>5, <1>6, <1>7 DEF Next

LEMMA NextDurable ==
    ASSUME Cooperative
    PROVE  IInv /\ CoopInv /\ DurableInv /\ [Next]_vars => DurableInv'
<1> SUFFICES ASSUME IInv, CoopInv, DurableInv, [Next]_vars, NEW k \in Jobs, fsm'[k] = "Cancelled",
                    rows'[IdOf[k]].status # "Cancelled", faults' <= 1
             PROVE  InHand(k)' /\ (faults' = 1 \/ \E c \in Cancellers : Persisting(c, k)')
  BY DEF DurableInv, is_cancelled
<1>1. IdOf[k] \in Ids
  BY ConstantsAssumption
<1>2. rows[IdOf[k]].status # "Cancelled"
  BY <1>1, CancelledRowStays
<1>3. faults \in Nat /\ faults' \in Nat /\ faults <= 1 /\ faults <= faults'
  BY FaultsGrow
<1>4. CASE fsm[k] # "Cancelled"
  BY <1>4, OnlyCancelCancels DEF Pursued
<1>5. CASE fsm[k] = "Cancelled"
  <2>1. InHand(k) /\ (faults = 1 \/ \E c \in Cancellers : Persisting(c, k))
    BY <1>2, <1>3, <1>5 DEF DurableInv, is_cancelled
  <2>2. faults' = 1 \/ \E c \in Cancellers : Persisting(c, k)'
    <3>1. CASE faults = 1
      BY <1>3, <3>1
    <3>2. ASSUME faults # 1, NEW c \in Cancellers, Persisting(c, k) PROVE Persisting(c, k)'
      <4>1. faults = 0
        BY <1>3, <3>2
      <4>2. CASE act' = act
        BY <3>2, <4>2 DEF Persisting
      <4>3. CASE CancellerStep(c)
        BY <1>2, <3>2, <4>1, <4>3, CancellerPersists
      <4> QED
        BY <3>2, <4>2, <4>3, CancellerIsAlone
    <3> QED
      BY <2>1, <3>1, <3>2
  <2>3. InHand(k)'
    <3>1. CASE Queued(k)
      BY <3>1, QueuedStays
    <3>2. ASSUME NEW w \in Workers, J(w) = k PROVE InHand(k)'
      <4>1. CASE ~WorkerStep(w)
        BY <3>2, <4>1, OthersStay DEF InHand, J
      <4>2. CASE WorkerStep(w)
        <5>1. faults = 1
          BY <2>1, <4>2, CancellerIsAlone
        <5>2. act'[w].job = k
          BY <1>2, <1>3, <1>5, <3>2, <4>2, <5>1, WorkerHolds DEF J
        <5> QED
          BY <5>2 DEF InHand, J
      <4> QED
        BY <4>1, <4>2
    <3> QED
      BY <2>1, <3>1, <3>2 DEF InHand
  <2> QED
    BY <2>2, <2>3
<1> QED
  BY <1>4, <1>5

(* On one event loop, with a store that answers every get, a cancel        *)
(* outlives a put that raises: Job.cancel saves once and lets the error    *)
(* through, but a job that can be cancelled is queued or with a worker,    *)
(* and a worker does not let go of a cancelled job before it has seen or   *)
(* written a Cancelled row (_ensure_cancelled_persisted), unless a second  *)
(* put raises.  For any number of jobs, workers and cancellers.            *)
THEOREM CancelsAreDurable ==
    ASSUME Cooperative
    PROVE  Spec => []CancelIsDurable
<1>1. Init => DurableInv
  BY DEF Init, DurableInv, is_cancelled
<1>2. IInv /\ DurableInv => CancelIsDurable
  <2> SUFFICES ASSUME IInv, DurableInv, NEW j \in Jobs, is_cancelled(j), Quiet(j), faults <= 1,
                      rows[IdOf[j]].status # "Cancelled"
               PROVE  FALSE
    BY DEF CancelIsDurable
  <2>1. PICK w \in Workers : J(w) = j
    BY DEF DurableInv, InHand, Quiet
  <2>2. w \in Actors /\ act[w].pc \notin {"from_record", "idle"}
    BY <2>1, WorkerFacts DEF WorkerLocals, Taken, BeforeRun, AfterRun, SavePcs
  <2> QED
    BY <2>1, <2>2 DEF Quiet, HeldBy, J
<1> QED
  BY <1>1, <1>2, NextDurable, Invariant, EventLoopInvariant, PTL DEF Spec

-----------------------------------------------------------------------------
(* The end of a worker.  A stopped and empty channel stays so: send        *)
(* refuses, and receive finds nothing.                                     *)
LEMMA DrainedStays ==
    ASSUME IInv, [Next]_vars, Drained
    PROVE  Drained'
<1>1. SendResult = "stopped"
  BY DEF Drained, SendResult
<1>2. ASSUME NEW a \in Actors, SharedStep(a) PROVE UNCHANGED <<stop, queue>>
  BY <1>2 DEF SharedStep, ApplyLookup, ApplyCommit, SaveStatus, SaveRecord, SavePut, SaveGet,
     SaveRefresh, StoreRaises, shared
<1>3. ASSUME NEW j \in Jobs, FromRecord(j) \/ Scheduled(j) \/ Send(j) \/ SchedSaved(j) \/ Rollback(j)
      PROVE  UNCHANGED <<stop, queue>>
  BY <1>1, <1>3 DEF FromRecord, Scheduled, Send, SchedSaved, Rollback, shared
<1>4. ASSUME NEW c \in Cancellers, (\E j \in Jobs : Cancel(c, j) \/ SaveAgain(c, j)) \/ CancelSaved(c)
      PROVE  UNCHANGED <<stop, queue>>
  BY <1>4 DEF Cancel, SaveAgain, CancelSaved, Step, shared
<1>5. ASSUME NEW w \in Workers, Receive(w) PROVE FALSE
  BY <1>5 DEF Receive, Drained
<1>6. ASSUME NEW w \in Workers, WorkerStep(w), ~SharedStep(w) PROVE UNCHANGED <<stop, queue>>
  BY <1>1, <1>5, <1>6 DEF WorkerStep, ReceiveNone, Process, Begin, Heal, Healed, Reheal, RunSaved,
     Skipped, Follow, WorkflowLoop, WorkflowReturns, WorkflowRaises, Failed, Finish, Ensure,
     FailOrRestore, ForceFailed, FailedSaved, RestoreCheck, Restore, Requeue, Undeliverable,
     Redelivery, Restart, Step, shared
<1>7. RequestStop \/ UNCHANGED vars => stop' \in {TRUE, stop} /\ queue' = queue
  BY DEF RequestStop, vars
<1> QED
  BY <1>2, <1>3, <1>4, <1>6, <1>7 DEF Next, OwnerStep, CancellerStep, Actors, Drained

(* Where a step of a worker leads, other than out of the loop.             *)
LEMMA StaysIn ==
    ASSUME IInv, NEW w \in Workers
    PROVE  /\ \A r : r.pc # "returned" /\ Goto(w, r) => act'[w].pc # "returned"
           /\ \A pc : pc # "returned" /\ Jump(w, pc) => act'[w].pc # "returned"
           /\ \A pc, ret : pc # "returned" /\ Call(w, pc, ret) => act'[w].pc # "returned"
           /\ \A res : act[w].pc \in SavePcs /\ SaveEnds(w, res) => act'[w].pc # "returned"
<1>1. w \in Actors /\ act[w] \in Actor /\ w \notin Jobs
  BY Records, ConstantsAssumption DEF Actors, IInv
<1>2. ASSUME NEW r, r.pc # "returned", Goto(w, r) PROVE act'[w].pc # "returned"
  BY <1>1, <1>2 DEF Goto, IInv, TypeOK
<1>3. AtRest(w).pc # "returned"
  BY <1>1 DEF AtRest, Blank
<1>4. \A pc : pc # "returned" => [act[w] EXCEPT !.pc = pc, !.snap = None, !.res = "-"].pc # "returned"
  BY <1>1 DEF Actor
<1>5. \A pc, ret : pc # "returned" => [act[w] EXCEPT !.pc = pc, !.ret = ret].pc # "returned"
  BY <1>1 DEF Actor
<1>6. \A pc, res : pc # "returned" =>
        [act[w] EXCEPT !.pc = pc, !.ret = "-", !.snap = None, !.ver = 0, !.res = res].pc # "returned"
  BY <1>1 DEF Actor
<1>7. ASSUME NEW pc, pc # "returned", Jump(w, pc) PROVE act'[w].pc # "returned"
  BY <1>2, <1>3, <1>4, <1>7, Zenon DEF Jump
<1>8. ASSUME NEW pc, NEW ret, pc # "returned", Call(w, pc, ret) PROVE act'[w].pc # "returned"
  BY <1>2, <1>5, <1>8, Zenon DEF Call
<1>9. ASSUME NEW res, act[w].pc \in SavePcs, SaveEnds(w, res) PROVE act'[w].pc # "returned"
  <2>1. act[w].ret # "returned"
    BY <1>1, <1>9, SaveCallers DEF BeforeRun
  <2> QED
    BY <1>2, <1>3, <1>6, <1>9, <2>1, Zenon DEF SaveEnds
<1> QED
  BY <1>2, <1>7, <1>8, <1>9

(* run_forever returns only from a stopped and empty channel.              *)
LEMMA OnlyReceiveNoneReturns ==
    ASSUME IInv, NEW w \in Workers, WorkerStep(w), act'[w].pc = "returned"
    PROVE  Drained
<1>1. w \in Actors /\ act[w] \in Actor
  BY Records DEF Actors, IInv
<1>2. ASSUME NEW r, Goto(w, r) PROVE r.pc = "returned"
  BY <1>2, StaysIn
<1>3. ASSUME NEW pc, Jump(w, pc) PROVE pc = "returned"
  BY <1>3, StaysIn
<1>4. ASSUME NEW pc, NEW ret, Call(w, pc, ret) PROVE pc = "returned"
  BY <1>4, StaysIn
<1>5. ASSUME NEW res, SaveEnds(w, res), act[w].pc \in SavePcs PROVE FALSE
  BY <1>5, StaysIn
<1>6. ASSUME ApplyLookup(w) PROVE FALSE
  <2>1. PICK s \in Sites : \/ Jump(w, s.fail)
                           \/ \E t : Goto(w, [act[w] EXCEPT !.pc = "commit", !.ret = s.at, !.snap = t])
    BY <1>6 DEF ApplyLookup
  <2>2. s.fail # "returned"
    BY DEF Sites
  <2>3. \A t : [act[w] EXCEPT !.pc = "commit", !.ret = s.at, !.snap = t].pc # "returned"
    BY <1>1 DEF Actor
  <2> QED
    BY <1>2, <1>3, <2>1, <2>2, <2>3
<1>7. ASSUME ApplyCommit(w) PROVE FALSE
  <2>1. PICK s \in Sites : Goto(w, [act[w] EXCEPT !.pc = s.next, !.ret = s.ret, !.snap = None])
    BY <1>7 DEF ApplyCommit
  <2>2. s.next # "returned"
    BY DEF Sites
  <2>3. [act[w] EXCEPT !.pc = s.next, !.ret = s.ret, !.snap = None].pc = s.next
    BY <1>1 DEF Actor
  <2> QED
    BY <1>2, <2>1, <2>2, <2>3
<1>8. ASSUME SaveStatus(w) \/ SaveRecord(w) \/ SaveGet(w) PROVE FALSE
  <2>1. /\ [act[w] EXCEPT !.pc = "record", !.snap = fsm[J(w)]].pc = "record"
        /\ [act[w] EXCEPT !.pc = "put", !.ver = version[J(w)]].pc = "put"
        /\ [act[w] EXCEPT !.pc = "refresh", !.ver = RowOf(w).version].pc = "refresh"
    BY <1>1 DEF Actor
  <2> QED
    BY <1>2, <1>8, <2>1 DEF SaveStatus, SaveRecord, SaveGet
<1>9. ASSUME SavePut(w) PROVE FALSE
  <2>1. [act[w] EXCEPT !.pc = "get", !.snap = None, !.ver = 0].pc = "get"
    BY <1>1 DEF Actor
  <2> QED
    BY <1>2, <1>5, <1>9, <2>1 DEF SavePut, At, SavePcs
<1>10. ASSUME SaveRefresh(w) \/ StoreRaises(w) PROVE FALSE
  BY <1>3, <1>5, <1>10 DEF SaveRefresh, StoreRaises, At, SavePcs
<1>11. ~SharedStep(w)
  BY <1>6, <1>7, <1>8, <1>9, <1>10 DEF SharedStep
<1>12. ASSUME \/ Process(w) \/ Healed(w) \/ Reheal(w) \/ WorkflowReturns(w) \/ WorkflowRaises(w)
              \/ Failed(w) \/ Finish(w) \/ FailOrRestore(w) \/ FailedSaved(w) \/ RestoreCheck(w)
              \/ Heal(w) \/ Ensure(w) \/ ForceFailed(w) \/ Undeliverable(w)
              \/ Restore(w) \/ Follow(w)
       PROVE FALSE
  BY <1>3, <1>4, <1>12 DEF Process, Healed, Reheal, WorkflowReturns, WorkflowRaises, Failed, Finish,
     FailOrRestore, FailedSaved, RestoreCheck, Heal, Ensure, ForceFailed, Undeliverable, Restore,
     Follow, Step
<1>13. ASSUME \/ Receive(w) \/ Begin(w) \/ RunSaved(w) \/ Skipped(w) \/ WorkflowLoop(w)
       PROVE FALSE
  <2>1. /\ [act[w] EXCEPT !.pc = "process", !.job = Head(queue)].pc = "process"
        /\ [act[w] EXCEPT !.pc = "heal", !.prev = fsm[J(w)]].pc = "heal"
        /\ [act[w] EXCEPT !.pc = "workflows", !.prev = None, !.res = "-"].pc = "workflows"
        /\ [act[w] EXCEPT !.pc = "follow", !.snap = RowOf(w).status].pc = "follow"
        /\ [act[w] EXCEPT !.pc = "running", !.n = @ + 1].pc = "running"
    BY <1>1 DEF Actor
  <2> QED
    BY <1>2, <1>3, <1>13, <2>1 DEF Receive, Begin, RunSaved, Skipped, WorkflowLoop
<1>14. ASSUME Requeue(w) \/ Redelivery(w) \/ Restart(w) PROVE FALSE
  <2>1. /\ Blank("raised", NoJob).pc = "raised" /\ Blank("receive", NoJob).pc = "receive"
        /\ [Blank("receive", NoJob) EXCEPT !.redelivery = TRUE].pc = "receive"
    BY DEF Blank
  <2> QED
    BY <1>2, <1>4, <1>14, <2>1 DEF Requeue, Redelivery, Restart
<1>15. ReceiveNone(w)
  BY <1>11, <1>12, <1>13, <1>14 DEF WorkerStep
<1> QED
  BY <1>15 DEF ReceiveNone, Drained, IInv, TypeOK

LEMMA NextDrain == IInv /\ DrainInv /\ [Next]_vars => DrainInv'
<1> SUFFICES ASSUME IInv, DrainInv, [Next]_vars, NEW w \in Workers, act'[w].pc = "returned"
             PROVE  Drained'
  BY DEF DrainInv
<1>1. CASE WorkerStep(w)
  BY <1>1, OnlyReceiveNoneReturns, DrainedStays
<1>2. CASE ~WorkerStep(w)
  BY <1>2, OthersStay, DrainedStays DEF DrainInv
<1> QED
  BY <1>1, <1>2

(* On one event loop, whatever the store does, the last worker to return   *)
(* leaves an empty channel and no job half way: what is still Scheduled or *)
(* InProgress is with an owner whose send was or will be refused           *)
(* (Worker.run_forever drains, Channel.send refuses after request_stop).   *)
THEOREM ShutdownIsClean ==
    ASSUME Cooperative
    PROVE  Spec => []NothingLeftBehind
<1>1. Init => DrainInv
  <2>1. ASSUME Init, NEW w \in Workers PROVE act[w].pc = "receive"
    BY <2>1, ConstantsAssumption DEF Init, Blank, Actors
  <2> QED
    BY <2>1 DEF DrainInv
<1>2. IInv /\ CoopInv /\ DrainInv => NothingLeftBehind
  <2> SUFFICES ASSUME IInv, CoopInv, DrainInv, Workers # {}, \A w \in Workers : act[w].pc = "returned"
               PROVE  /\ stop /\ queue = <<>>
                      /\ \A j \in Jobs : fsm[j] \in {"Scheduled", "InProgress"} =>
                           act[j].pc \in {"send", "rollback"}
    BY DEF NothingLeftBehind
  <2>1. stop = TRUE /\ queue = <<>>
    BY DEF DrainInv, Drained
  <2>2. ASSUME NEW j \in Jobs, fsm[j] \in {"Scheduled", "InProgress"}
        PROVE  act[j].pc \in {"send", "rollback"}
    <3>1. ~Queued(j)
      BY <2>1 DEF Queued
    <3>2. \A w \in Workers : J(w) # j
      <4>1. ASSUME NEW w \in Workers PROVE act[w].job = NoJob
        BY WorkerFacts DEF WorkerLocals, Taken, BeforeRun, AfterRun, SavePcs
      <4> QED
        BY <4>1, ConstantsAssumption DEF J, Actors
    <3>3. act[j].prev = "Unknown"
      BY <2>2, <3>1, <3>2 DEF CoopInv, Located
    <3>4. j \in Actors /\ OwnerLocals(j, act[j])
      BY DEF Actors, IInv, TokenInv, LocalsOK, Locals
    <3>5. act[j].pc \in {"init", "rollback", "schedule", "send", "commit"}
      BY <3>3, <3>4 DEF OwnerLocals, None
    <3>6. OwnerPlace(act[j], fsm[j], rows[IdOf[j]], version[j], faults)
      BY <3>4, <3>5 DEF CoopInv, BusyIsPlaced, Busy, AwaitPoints, Place, OwnerLocals, J, RowOf
    <3> QED
      BY <2>2, <3>3, <3>4, <3>5, <3>6 DEF OwnerPlace, OwnerLocals, SavePcs
  <2> QED
    BY <2>1, <2>2
<1> QED
  BY <1>1, <1>2, NextDrain, Invariant, EventLoopInvariant, PTL DEF Spec
=============================================================================
