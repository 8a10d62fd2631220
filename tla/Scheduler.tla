----------------------------- MODULE Scheduler -----------------------------
(***************************************************************************)
(* The path of a job through the scheduler: an owner dispatches it on a    *)
(* channel, workers take it off, run its workflows and persist every step, *)
(* and anybody may cancel it meanwhile.  Each step below is one read or    *)
(* one write of state the actors share (a job's FSM, its version, the      *)
(* store, the channel), in the order job.py and worker.py make them.       *)
(*                                                                         *)
(* The actors are                                                          *)
(*   - the owner of each job instance, who calls Job.scheduled();          *)
(*   - the workers, each in Worker.run_forever under a supervisor;         *)
(*   - the cancellers, who call Job.cancel() on any instance.              *)
(* Two instances may carry the same id: Job.from_record rebuilds a job     *)
(* from the row of another one.                                            *)
(***************************************************************************)
EXTENDS Lifecycle, Integers, Sequences, FiniteSets

CONSTANTS
    Jobs,           \* Job instances; each one names its owner too
    Workers,        \* Worker.run_forever loops
    Cancellers,     \* callers of Job.cancel()
    NoJob,          \* what an actor at rest holds
    Ids,            \* job ids
    IdOf,           \* the id each instance carries
    Rehydrated,     \* the instances built by Job.from_record
    RehydrateFrom,  \* the row statuses from which an application does so
    Resubmit,       \* TRUE: owners may call scheduled() on a job again
    MaxSize,        \* capacity of the channel, 0 for unbounded
    Workflows,      \* workflows per job
    FaultPoints,    \* the store calls that may raise: "put", "get"
    MaxFaults,      \* bound: how many of them do raise
    Preemptive,     \* TRUE: actors are threads; FALSE: tasks of one event loop
    MaxVersion      \* bound: no cancel() once the job's row has this version

Actors == Jobs \cup Workers \cup Cancellers

ASSUME ConstantsAssumption ==
    /\ NoJob \notin Actors
    /\ Jobs \cap Workers = {} /\ Jobs \cap Cancellers = {} /\ Workers \cap Cancellers = {}
    /\ IdOf \in [Jobs -> Ids]
    /\ Rehydrated \subseteq Jobs
    /\ RehydrateFrom \subseteq Status
    /\ Resubmit \in BOOLEAN
    /\ MaxSize \in Nat
    /\ Workflows \in Nat
    /\ MaxFaults \in Nat
    /\ MaxVersion \in Nat
    /\ Preemptive \in BOOLEAN

VARIABLES
    fsm,          \* fsm[j]: the state of the job's FSM (Job.status mirrors it)
    version,      \* version[j]: Job.version
    cancelEvent,  \* cancelEvent[j]: Job._cancel_event is set
    rows,         \* the rows of the job store
    queue,        \* the channel's queue of instances
    stop,         \* the channel's stop flag
    act,          \* act[a]: where actor a is, and its local variables
    faults,       \* store calls that raised so far
    runs          \* history: how often the workflows of j were started

vars == <<fsm, version, cancelEvent, rows, queue, stop, act, faults, runs>>

(* What the actors share: all but their own places.                        *)
shared == <<fsm, version, cancelEvent, rows, queue, stop, faults, runs>>

-----------------------------------------------------------------------------
(* Actors.  pc names the next step; ret the step that follows the call of  *)
(* apply_event or save in progress; the rest are local variables of the    *)
(* handler, cleared when they are dead.                                    *)

OwnerPcs == {"from_record", "idle", "init", "schedule", "send", "rollback", "sched_saved"}

WorkerPcs ==
    {"receive", "process", "begin", "heal", "healed", "reheal", "run", "run_saved",
     "skipped", "follow", "follow_cancel", "workflows", "running", "failed", "fail",
     "finish", "complete", "ensure", "fail_or_restore", "force_failed", "failed_saved",
     "restore_check", "restore", "requeue", "undeliverable", "redelivery_full",
     "redelivery_stopped", "raised", "returned"}

CancellerPcs == {"idle", "cancel", "cancel_saved"}

SavePcs == {"save", "record", "put", "get", "refresh"}

Pcs == OwnerPcs \cup WorkerPcs \cup CancellerPcs \cup SavePcs \cup {"commit"}

(* Dispatcher.dispatch's _DISPATCH_SAVE_ATTEMPTS.                          *)
SaveAttempts == 3

Actor == [pc         : Pcs,
          ret        : Pcs \cup {"return", "-"},
          job        : Jobs \cup {NoJob},
          prev       : Status \cup {None},            \* prev_state
          snap       : Status \cup {None},            \* a status that was read
          ver        : Nat,                           \* a version that was read
          res        : {"ok", "skip", "exc", "-"},    \* what save() did
          n          : Nat,                           \* attempts, or workflows done
          redelivery : BOOLEAN]                       \* stopped_redelivery is set

Blank(pc, j) ==
    [pc |-> pc, ret |-> "-", job |-> j, prev |-> None, snap |-> None, ver |-> 0,
     res |-> "-", n |-> 0, redelivery |-> FALSE]

(* Actor a between two calls, or in front of the channel.                  *)
AtRest(a) ==
    IF a \in Jobs THEN Blank("idle", a)
    ELSE IF a \in Workers THEN [Blank("receive", NoJob) EXCEPT !.redelivery = act[a].redelivery]
    ELSE Blank("idle", NoJob)

Goto(a, r) == act' = [act EXCEPT ![a] = r]

Jump(a, pc) ==
    Goto(a, IF pc = "return" THEN AtRest(a)
            ELSE [act[a] EXCEPT !.pc = pc, !.snap = None, !.res = "-"])

Call(a, pc, ret) == Goto(a, [act[a] EXCEPT !.pc = pc, !.ret = ret])

(* save() ends with outcome r; its caller goes on.                         *)
SaveEnds(a, r) ==
    Goto(a, IF act[a].ret = "return"
            THEN AtRest(a)
            ELSE [act[a] EXCEPT !.pc = act[a].ret, !.ret = "-", !.snap = None, !.ver = 0, !.res = r])

(* Where a task of the event loop lets the others run: before and after    *)
(* each await, and outside its calls.                                      *)
AwaitPoints == {"from_record", "idle", "receive", "process", "running", "raised", "returned"}

At(a, pc) ==
    /\ act[a].pc = pc
    /\ Preemptive \/ \A b \in Actors \ {a} : act[b].pc \in AwaitPoints

(* A step that only decides where to go on.                                *)
Step(a, pc, next) == At(a, pc) /\ Jump(a, next) /\ UNCHANGED shared

J(a) == act[a].job

RowOf(a) == rows[IdOf[J(a)]]

is_cancelled(j) == fsm[j] = "Cancelled"

-----------------------------------------------------------------------------
Init ==
    /\ fsm = [j \in Jobs |-> "Unknown"]
    /\ version = [j \in Jobs |-> 1]
    /\ cancelEvent = [j \in Jobs |-> FALSE]
    /\ rows = [id \in Ids |-> NoRow]
    /\ queue = <<>>
    /\ stop = FALSE
    /\ act = [a \in Actors |->
                IF a \in Jobs THEN Blank(IF a \in Rehydrated THEN "from_record" ELSE "idle", a)
                ELSE Blank(IF a \in Workers THEN "receive" ELSE "idle", NoJob)]
    /\ faults = 0
    /\ runs = [j \in Jobs |-> 0]

-----------------------------------------------------------------------------
(* Job.apply_event: the FSM looks the transition up under the state it     *)
(* reads, and then assigns the target; nothing holds the state in between. *)

Sites ==
    { [at |-> "init",          event |-> "INIT",     next |-> "schedule", ret |-> "-",            fail |-> "rollback"],
      [at |-> "schedule",      event |-> "SCHEDULE", next |-> "send",     ret |-> "-",            fail |-> "rollback"],
      [at |-> "cancel",        event |-> "CANCEL",   next |-> "save",     ret |-> "cancel_saved", fail |-> "return"],
      [at |-> "run",           event |-> "RUN",      next |-> "save",     ret |-> "run_saved",    fail |-> "return"],
      [at |-> "follow_cancel", event |-> "CANCEL",   next |-> "ensure",   ret |-> "-",            fail |-> "return"],
      [at |-> "fail",          event |-> "FAIL",     next |-> "save",     ret |-> "return",       fail |-> "return"],
      [at |-> "complete",      event |-> "COMPLETE", next |-> "save",     ret |-> "return",       fail |-> "return"] }

ApplyLookup(a) ==
    /\ \E s \in Sites :
        /\ At(a, s.at)
        /\ \/ /\ Targets(s.event, fsm[J(a)]) = {}
              /\ Jump(a, s.fail)
           \/ \E t \in Targets(s.event, fsm[J(a)]) :
                Goto(a, [act[a] EXCEPT !.pc = "commit", !.ret = s.at, !.snap = t])
    /\ UNCHANGED shared

ApplyCommit(a) ==
    /\ At(a, "commit")
    /\ fsm' = [fsm EXCEPT ![J(a)] = act[a].snap]
    /\ \E s \in Sites :
        /\ s.at = act[a].ret
        /\ Goto(a, [act[a] EXCEPT !.pc = s.next, !.ret = s.ret, !.snap = None])
    /\ UNCHANGED <<version, cancelEvent, rows, queue, stop, faults, runs>>

-----------------------------------------------------------------------------
(* Job.save: read the status, read the version, put the record, read the   *)
(* row back, take over its version.                                        *)

SaveStatus(a) ==
    /\ At(a, "save")
    /\ Goto(a, [act[a] EXCEPT !.pc = "record", !.snap = fsm[J(a)]])
    /\ UNCHANGED shared

SaveRecord(a) ==
    /\ At(a, "record")
    /\ Goto(a, [act[a] EXCEPT !.pc = "put", !.ver = version[J(a)]])
    /\ UNCHANGED shared

SavePut(a) ==
    /\ At(a, "put")
    /\ rows' = [rows EXCEPT ![IdOf[J(a)]] = put(@, act[a].snap, act[a].ver)]
    /\ IF put_may_write(RowOf(a), act[a].snap, act[a].ver)
       THEN Goto(a, [act[a] EXCEPT !.pc = "get", !.snap = None, !.ver = 0])
       ELSE SaveEnds(a, "skip")
    /\ UNCHANGED <<fsm, version, cancelEvent, queue, stop, faults, runs>>

SaveGet(a) ==
    /\ At(a, "get")
    /\ Goto(a, [act[a] EXCEPT !.pc = "refresh", !.ver = RowOf(a).version])
    /\ UNCHANGED shared

(* Mutant: save() does not take over the stored version.                   *)
SaveRefresh_KeepsVersion(a) ==
    /\ At(a, "refresh")
    /\ SaveEnds(a, "ok")
    /\ UNCHANGED shared

SaveRefresh(a) ==
    /\ At(a, "refresh")
    /\ version' = [version EXCEPT ![J(a)] = act[a].ver]
    /\ SaveEnds(a, "ok")
    /\ UNCHANGED <<fsm, cancelEvent, rows, queue, stop, faults, runs>>

(* A store call raises.  An exception of save() is its caller's; a failed  *)
(* get_saved before RUN counts as a failed persist, any other one escapes  *)
(* to run_forever, which logs it and goes on.                              *)
Raise(point) ==
    /\ point \in FaultPoints
    /\ faults < MaxFaults
    /\ faults' = faults + 1

StoreRaises(a) ==
    /\ \/ At(a, "put") /\ Raise("put") /\ SaveEnds(a, "exc")
       \/ At(a, "get") /\ Raise("get") /\ SaveEnds(a, "exc")
       \/ \E pc \in {"heal", "reheal"}    : At(a, pc) /\ Raise("get") /\ Jump(a, "fail_or_restore")
       \/ \E pc \in {"skipped", "ensure"} : At(a, pc) /\ Raise("get") /\ Jump(a, "return")
    /\ UNCHANGED <<fsm, version, cancelEvent, rows, queue, stop, runs>>

-----------------------------------------------------------------------------
(* Mutant: the capacity test is off by one.                                *)
SendResult_OffByOne ==
    IF stop THEN "stopped"
    ELSE IF MaxSize > 0 /\ Len(queue) > MaxSize THEN "full"
    ELSE "ok"

(* Channel.send, decided under the channel's lock.                         *)
SendResult ==
    IF stop THEN "stopped"
    ELSE IF MaxSize > 0 /\ Len(queue) >= MaxSize THEN "full"
    ELSE "ok"

RequestStop ==
    /\ stop' = TRUE
    /\ UNCHANGED <<fsm, version, cancelEvent, rows, queue, act, faults, runs>>

-----------------------------------------------------------------------------
(* The owner: Job.from_record and Dispatcher.dispatch.                     *)

FromRecord(j) ==
    /\ At(j, "from_record")
    /\ rows[IdOf[j]].status \in RehydrateFrom
    /\ version' = [version EXCEPT ![j] = rows[IdOf[j]].version]
    /\ Jump(j, "idle")
    /\ UNCHANGED <<fsm, cancelEvent, rows, queue, stop, faults, runs>>

Scheduled(j) ==
    /\ At(j, "idle")
    /\ Resubmit \/ fsm[j] = "Unknown"
    /\ Goto(j, [act[j] EXCEPT !.pc = "init", !.prev = fsm[j]])
    /\ UNCHANGED shared

(* Mutant: Scheduled is persisted before the send is known to succeed.     *)
Send_PersistsFirst(j) ==
    /\ At(j, "send")
    /\ \/ /\ SendResult = "ok"
          /\ queue' = Append(queue, j)
          /\ Goto(j, [act[j] EXCEPT !.pc = "save", !.ret = "sched_saved", !.prev = None, !.n = 1])
       \/ /\ SendResult # "ok"
          /\ queue' = queue
          /\ Call(j, "save", "rollback")
    /\ UNCHANGED <<fsm, version, cancelEvent, rows, stop, faults, runs>>

(* The send is refused by a full or a stopped channel, or before it gets   *)
(* there: Processor.run raises when its caller is inside an event loop.    *)
Send(j) ==
    /\ At(j, "send")
    /\ \/ /\ SendResult = "ok"
          /\ queue' = Append(queue, j)
          /\ Goto(j, [act[j] EXCEPT !.pc = "save", !.ret = "sched_saved", !.prev = None, !.n = 1])
       \/ /\ queue' = queue
          /\ Jump(j, "rollback")
    /\ UNCHANGED <<fsm, version, cancelEvent, rows, stop, faults, runs>>

(* The job is on the channel whatever becomes of its Scheduled snapshot.   *)
SchedSaved(j) ==
    /\ At(j, "sched_saved")
    /\ IF act[j].res # "ok" /\ act[j].n < SaveAttempts
       THEN Goto(j, [act[j] EXCEPT !.pc = "save", !.ret = "sched_saved", !.res = "-", !.n = @ + 1])
       ELSE Jump(j, "return")
    /\ UNCHANGED shared

Rollback(j) ==
    /\ At(j, "rollback")
    /\ fsm' = [fsm EXCEPT ![j] = act[j].prev]
    /\ Jump(j, "return")
    /\ UNCHANGED <<version, cancelEvent, rows, queue, stop, faults, runs>>

-----------------------------------------------------------------------------
(* The canceller: Job.cancel.                                              *)

(* Mutant: cancel() does not set the Event the executors poll.             *)
Cancel_NoEvent(c, j) ==
    /\ At(c, "idle")
    /\ rows[IdOf[j]].version < MaxVersion
    /\ Goto(c, Blank("cancel", j))
    /\ UNCHANGED shared

Cancel(c, j) ==
    /\ At(c, "idle")
    /\ rows[IdOf[j]].version < MaxVersion
    /\ cancelEvent' = [cancelEvent EXCEPT ![j] = TRUE]
    /\ Goto(c, Blank("cancel", j))
    /\ UNCHANGED <<fsm, version, rows, queue, stop, faults, runs>>

(* cancel() is over, whether its save() wrote the row, was skipped or      *)
(* raised.                                                                 *)
CancelSaved(c) == Step(c, "cancel_saved", "return")

(* A caller whose cancel() raised may call save() again, as its docstring  *)
(* advises; nobody has to.                                                 *)
SaveAgain(c, j) ==
    /\ At(c, "idle")
    /\ faults > 0 /\ cancelEvent[j] /\ is_cancelled(j)
    /\ rows[IdOf[j]].version < MaxVersion
    /\ Goto(c, [Blank("save", j) EXCEPT !.ret = "cancel_saved"])
    /\ UNCHANGED shared

-----------------------------------------------------------------------------
(* The worker: run_forever and _process.                                   *)

Receive(w) ==
    /\ At(w, "receive")
    /\ queue # <<>>
    /\ queue' = Tail(queue)
    /\ Goto(w, [act[w] EXCEPT !.pc = "process", !.job = Head(queue)])
    /\ UNCHANGED <<fsm, version, cancelEvent, rows, stop, faults, runs>>

(* Mutant: stop makes the worker leave with jobs still queued.             *)
ReceiveNone_NoDrain(w) ==
    /\ At(w, "receive")
    /\ stop
    /\ Goto(w, Blank(IF act[w].redelivery THEN "raised" ELSE "returned", NoJob))
    /\ UNCHANGED shared

(* Mutant: a kept redelivery error never ends the loop.                    *)
ReceiveNone_Swallows(w) ==
    /\ At(w, "receive")
    /\ stop /\ queue = <<>>
    /\ ~act[w].redelivery
    /\ Goto(w, Blank("returned", NoJob))
    /\ UNCHANGED shared

(* Stopped and drained: run_forever raises a redelivery error it kept for  *)
(* this moment, or returns.                                                *)
ReceiveNone(w) ==
    /\ At(w, "receive")
    /\ stop /\ queue = <<>>
    /\ Goto(w, Blank(IF act[w].redelivery THEN "raised" ELSE "returned", NoJob))
    /\ UNCHANGED shared

(* Mutant: a job found cancelled is skipped without a look at its row.     *)
Process_SkipsEnsure(w) ==
    Step(w, "process", IF is_cancelled(J(w)) THEN "return" ELSE "begin")

Process(w) == Step(w, "process", IF is_cancelled(J(w)) THEN "ensure" ELSE "begin")

Begin(w) ==
    /\ At(w, "begin")
    /\ Goto(w, [act[w] EXCEPT !.pc = "heal", !.prev = fsm[J(w)]])
    /\ UNCHANGED shared

(* A job whose Scheduled snapshot never reached the store is saved now.    *)
Heal(w) ==
    /\ At(w, "heal")
    /\ IF RowOf(w).status = None THEN Call(w, "save", "healed") ELSE Jump(w, "run")
    /\ UNCHANGED shared

Healed(w) ==
    \/ act[w].res = "ok" /\ Step(w, "healed", "run")
    \/ act[w].res = "skip" /\ Step(w, "healed", "reheal")
    \/ act[w].res = "exc" /\ Step(w, "healed", "fail_or_restore")

Reheal(w) == Step(w, "reheal", IF RowOf(w).status = None THEN "fail_or_restore" ELSE "run")

RunSaved(w) ==
    /\ At(w, "run_saved")
    /\ \/ /\ act[w].res = "ok"
          /\ Goto(w, [act[w] EXCEPT !.pc = "workflows", !.prev = None, !.res = "-"])
       \/ /\ act[w].res = "skip"
          /\ Jump(w, "skipped")
       \/ /\ act[w].res = "exc"
          /\ Jump(w, "fail_or_restore")
    /\ UNCHANGED shared

Skipped(w) ==
    /\ At(w, "skipped")
    /\ Goto(w, [act[w] EXCEPT !.pc = "follow", !.snap = RowOf(w).status])
    /\ UNCHANGED shared

(* Somebody else moved the row on: follow it, and do not run.              *)
Follow(w) ==
    /\ At(w, "follow")
    /\ \/ /\ act[w].snap = "Cancelled"
          /\ Jump(w, IF is_cancelled(J(w)) THEN "ensure" ELSE "follow_cancel")
          /\ fsm' = fsm
       \/ /\ act[w].snap \in {"InProgress", "Failed", "Completed"}
          /\ Jump(w, "return")
          /\ fsm' = [fsm EXCEPT ![J(w)] = act[w].snap]
       \/ /\ act[w].snap \in {None, "Unknown", "Initializing", "Scheduled"}
          /\ Jump(w, "fail_or_restore")
          /\ fsm' = fsm
    /\ UNCHANGED <<version, cancelEvent, rows, queue, stop, faults, runs>>

WorkflowLoop(w) ==
    /\ At(w, "workflows")
    /\ \/ /\ act[w].n = Workflows
          /\ Jump(w, "finish")
          /\ runs' = runs
       \/ /\ act[w].n < Workflows
          /\ is_cancelled(J(w))
          /\ Jump(w, "ensure")
          /\ runs' = runs
       \/ /\ act[w].n < Workflows
          /\ ~is_cancelled(J(w))
          /\ Goto(w, [act[w] EXCEPT !.pc = "running", !.n = @ + 1])
          /\ runs' = IF act[w].n = 0 THEN [runs EXCEPT ![J(w)] = @ + 1] ELSE runs
    /\ UNCHANGED <<fsm, version, cancelEvent, rows, queue, stop, faults>>

(* Workflow.run in its thread returns or raises.                           *)
WorkflowReturns(w) == Step(w, "running", "workflows")

(* Mutant: a workflow that failed is restored and put back on the channel. *)
WorkflowRaises_Requeues(w) ==
    /\ At(w, "running")
    /\ Goto(w, [act[w] EXCEPT !.pc = "restore", !.prev = "Scheduled"])
    /\ UNCHANGED shared

WorkflowRaises(w) == Step(w, "running", "failed")

(* Mutant: a workflow error overrides a cancel.                            *)
Failed_IgnoresCancel(w) == Step(w, "failed", "force_failed")

Failed(w) == Step(w, "failed", IF is_cancelled(J(w)) THEN "ensure" ELSE "fail")

Finish(w) == Step(w, "finish", IF is_cancelled(J(w)) THEN "ensure" ELSE "complete")

(* _ensure_cancelled_persisted: save again unless the store agrees.        *)
Ensure(w) ==
    /\ At(w, "ensure")
    /\ IF RowOf(w).status = "Cancelled" THEN Jump(w, "return") ELSE Call(w, "save", "return")
    /\ UNCHANGED shared

-----------------------------------------------------------------------------
(* _fail_or_restore_after_run_persist: try to persist Failed; when that    *)
(* fails too, restore the state before RUN and put the job back.           *)

FailOrRestore(w) ==
    Step(w, "fail_or_restore", IF is_cancelled(J(w)) THEN "restore_check" ELSE "force_failed")

ForceFailed(w) ==
    /\ At(w, "force_failed")
    /\ fsm' = [fsm EXCEPT ![J(w)] = "Failed"]
    /\ Call(w, "save", "failed_saved")
    /\ UNCHANGED <<version, cancelEvent, rows, queue, stop, faults, runs>>

FailedSaved(w) ==
    Step(w, "failed_saved", IF act[w].res = "ok" THEN "return" ELSE "restore_check")

RestoreCheck(w) ==
    Step(w, "restore_check", IF is_cancelled(J(w)) THEN "ensure" ELSE "restore")

Restore(w) ==
    /\ At(w, "restore")
    /\ fsm' = [fsm EXCEPT ![J(w)] = act[w].prev]
    /\ Jump(w, "requeue")
    /\ UNCHANGED <<version, cancelEvent, rows, queue, stop, faults, runs>>

(* Mutant: a job the full channel rejects is dropped as it is.             *)
Requeue_Drops(w) ==
    /\ At(w, "requeue")
    /\ queue' = IF SendResult = "ok" THEN Append(queue, J(w)) ELSE queue
    /\ Goto(w, Blank("raised", NoJob))
    /\ UNCHANGED <<fsm, version, cancelEvent, rows, stop, faults, runs>>

(* Back on the channel, run_forever raises JobRequeuedError.               *)
Requeue(w) ==
    /\ At(w, "requeue")
    /\ \/ /\ SendResult = "ok"
          /\ queue' = Append(queue, J(w))
          /\ Goto(w, Blank("raised", NoJob))
       \/ /\ SendResult = "full"
          /\ queue' = queue
          /\ Call(w, "undeliverable", "redelivery_full")
       \/ /\ SendResult = "stopped"
          /\ queue' = queue
          /\ Call(w, "undeliverable", "redelivery_stopped")
    /\ UNCHANGED <<fsm, version, cancelEvent, rows, stop, faults, runs>>

Undeliverable(w) ==
    /\ At(w, "undeliverable")
    /\ fsm' = [fsm EXCEPT ![J(w)] = "Failed"]
    /\ Call(w, "save", act[w].ret)
    /\ UNCHANGED <<version, cancelEvent, rows, queue, stop, faults, runs>>

(* JobRedeliveryError stops run_forever when the channel was full; when it *)
(* was stopped the error waits until the rest is drained.                  *)
Redelivery(w) ==
    /\ \/ At(w, "redelivery_full") /\ Goto(w, Blank("raised", NoJob))
       \/ At(w, "redelivery_stopped") /\ Goto(w, [Blank("receive", NoJob) EXCEPT !.redelivery = TRUE])
    /\ UNCHANGED shared

(* The supervisor the docs ask for starts run_forever again.               *)
Restart(w) ==
    /\ At(w, "raised")
    /\ Goto(w, Blank("receive", NoJob))
    /\ UNCHANGED shared

-----------------------------------------------------------------------------
(* The steps inside a call, which the actor's thread or task goes on with, *)
(* and the calls somebody decides to make.                                 *)

SharedStep(a) ==
    \/ ApplyLookup(a) \/ ApplyCommit(a)
    \/ SaveStatus(a) \/ SaveRecord(a) \/ SavePut(a) \/ SaveGet(a) \/ SaveRefresh(a)
    \/ StoreRaises(a)

OwnerStep(j) == SharedStep(j) \/ Send(j) \/ SchedSaved(j) \/ Rollback(j)

CancellerStep(c) == SharedStep(c) \/ CancelSaved(c)

WorkerStep(w) ==
    \/ SharedStep(w)
    \/ Receive(w) \/ ReceiveNone(w) \/ Process(w) \/ Begin(w)
    \/ Heal(w) \/ Healed(w) \/ Reheal(w) \/ RunSaved(w) \/ Skipped(w) \/ Follow(w)
    \/ WorkflowLoop(w) \/ WorkflowReturns(w) \/ WorkflowRaises(w)
    \/ Failed(w) \/ Finish(w) \/ Ensure(w)
    \/ FailOrRestore(w) \/ ForceFailed(w) \/ FailedSaved(w) \/ RestoreCheck(w) \/ Restore(w)
    \/ Requeue(w) \/ Undeliverable(w) \/ Redelivery(w) \/ Restart(w)

Next ==
    \/ \E j \in Jobs : FromRecord(j) \/ Scheduled(j) \/ OwnerStep(j)
    \/ \E c \in Cancellers : (\E j \in Jobs : Cancel(c, j) \/ SaveAgain(c, j)) \/ CancellerStep(c)
    \/ \E w \in Workers : WorkerStep(w)
    \/ RequestStop

Spec == Init /\ [][Next]_vars

(* A call once made runs to its end, a worker's loop goes on, and it gets  *)
(* its turn among the tasks of the event loop however often others run.    *)
Fairness ==
    /\ \A j \in Jobs : WF_vars(OwnerStep(j))
    /\ \A c \in Cancellers : WF_vars(CancellerStep(c))
    /\ \A w \in Workers : SF_vars(WorkerStep(w))

FairSpec == Spec /\ Fairness

-----------------------------------------------------------------------------
(* Properties.                                                             *)

(* Every variable has its type, and the channel never exceeds the capacity *)
(* it was created with, although owners and workers both append to it.     *)
TypeOK ==
    /\ fsm \in [Jobs -> Status]
    /\ version \in [Jobs -> Nat]
    /\ cancelEvent \in [Jobs -> BOOLEAN]
    /\ rows \in [Ids -> Row]
    /\ queue \in Seq(Jobs)
    /\ MaxSize > 0 => Len(queue) <= MaxSize
    /\ stop \in BOOLEAN
    /\ act \in [Actors -> Actor]
    /\ faults \in 0..MaxFaults
    /\ runs \in [Jobs -> Nat]

Queued(j) == \E i \in 1..Len(queue) : queue[i] = j

HeldBy(a, j) == act[a].job = j /\ act[a].pc \notin {"from_record", "idle"}

(* No actor is in the middle of a call on j, and no worker will get it.    *)
Quiet(j) == ~Queued(j) /\ \A a \in Actors : ~HeldBy(a, j)

(* The workflows of an instance are started at most once, whatever is      *)
(* retried, requeued or redelivered (worker.py: "never re-run workflows    *)
(* solely because the terminal snapshot write failed").                    *)
RunsAtMostOnce == \A j \in Jobs : runs[j] <= 1

(* A job that is scheduled or in progress is on the channel, with a        *)
(* worker, or still with the owner that is about to send it or roll back:  *)
(* no error path of the worker drops it half way.                          *)
NoJobLost ==
    \A j \in Jobs : fsm[j] \in {"Scheduled", "InProgress"} => ~Quiet(j)

(* Once nobody works on a job any more, its row says what its FSM says: no *)
(* terminal row disagrees with the job, and without store errors the row   *)
(* is never left behind (worker.py saves after RUN, COMPLETE and FAIL,     *)
(* Job.cancel after CANCEL).                                               *)
SnapshotAgrees ==
    \A j \in Jobs :
        LET durable == rows[IdOf[j]].status IN
        Quiet(j) /\ fsm[j] # "Unknown" /\ (faults = 0 \/ durable \in Terminal)
            => durable = fsm[j]

(* When a job's workflows ran, no store call failed and nobody works on    *)
(* the job any more, its row is terminal: the worker persisted COMPLETE or *)
(* FAIL.                                                                   *)
FinishedIsDurable ==
    \A j \in Jobs :
        Quiet(j) /\ runs[j] > 0 /\ faults = 0 => rows[IdOf[j]].status \in Terminal

(* A row exists only for a job that was accepted by the channel: dispatch  *)
(* persists after the send, "so enqueue failure cannot leave a store row". *)
NoGhostRow ==
    \A id \in Ids : rows[id].status # None =>
        \E j \in Jobs : IdOf[j] = id /\ fsm[j] \notin {"Unknown", "Initializing"}

(* While a workflow of a cancelled job is still running, its cancel Event  *)
(* is set: an executor that polls it can stop.                             *)
CancelledWorkIsSignalled ==
    \A w \in Workers : act[w].pc = "running" /\ is_cancelled(J(w)) => cancelEvent[J(w)]

(* A cancel survives a store error: the save() of cancel() may raise, and  *)
(* nobody has to repeat it, but the worker that gets or has the job looks  *)
(* at the row before it lets go of it (_ensure_cancelled_persisted).  It   *)
(* takes a second error for the row of a cancelled job to stay behind.     *)
CancelIsDurable ==
    \A j \in Jobs :
        is_cancelled(j) /\ Quiet(j) /\ faults <= 1 => rows[IdOf[j]].status = "Cancelled"

(* The workers leave nothing behind: when the last of them has returned,   *)
(* the channel is empty, and a job that is scheduled or in progress is one *)
(* whose owner is yet to be told that the channel refused it.              *)
NothingLeftBehind ==
    (Workers # {} /\ \A w \in Workers : act[w].pc = "returned") =>
        /\ stop /\ queue = <<>>
        /\ \A j \in Jobs : fsm[j] \in {"Scheduled", "InProgress"} => act[j].pc \in {"send", "rollback"}

(* Instances of one id, rebuilt from its Scheduled row, run its workflows  *)
(* once between them: RUN is claimed through the store's version check.    *)
TwinsRunOnce ==
    \A i, j \in Jobs : i # j /\ IdOf[i] = IdOf[j] => runs[i] + runs[j] <= 1

(* Completed and Cancelled are final for the FSM of a job: neither the     *)
(* restore before a requeue, nor a rollback, nor following the store takes *)
(* them back.                                                              *)
TerminalIsFinal ==
    [][\A j \in Jobs : fsm[j] \in {"Completed", "Cancelled"} => fsm'[j] = fsm[j]]_vars

(* A worker never takes a cancel back that was applied before its step:    *)
(* "the Worker skips work if the job is already cancelled, and stops       *)
(* before COMPLETE" (docs/guides/scheduler.md).                            *)
WorkerKeepsCancel ==
    [][\A w \in Workers :
         act'[w] # act[w] /\ J(w) \in Jobs /\ is_cancelled(J(w)) => fsm'[J(w)] = "Cancelled"]_vars

(* A job on the channel eventually reaches a terminal status.              *)
Settles == \A j \in Jobs : Queued(j) ~> fsm[j] \in Terminal

(* The row of a cancelled job eventually says so, although the cancel's    *)
(* own save may raise, unless a second store call raises too.              *)
CancelPersists ==
    \A j \in Jobs : is_cancelled(j) ~> (rows[IdOf[j]].status = "Cancelled" \/ faults > 1)

(* After request_stop every worker drains the channel and leaves.          *)
WorkersLeave == stop ~> \A w \in Workers : act[w].pc = "returned"
=============================================================================
