------------------------------ MODULE Workflow ------------------------------
(***************************************************************************)
(* scheduler/workflow.py: Workflow.run executes its tasks one by one, each *)
(* in rounds of attempts.  An attempt with a round_timeout runs in a       *)
(* shared thread pool and is cancelled or joined when the time is over.    *)
(* Time is not modelled: a timeout may fire whenever its wait goes on.     *)
(* The tasks are built in the program or rebuilt from a job's payload      *)
(* (scheduler/job.py) with executors from the registry of executor.py.     *)
(***************************************************************************)
EXTENDS Naturals, Sequences, SequencesExt, FiniteSets

CONSTANTS
    Runners,       \* threads that call Workflow.run
    Plan,          \* the tasks each of them is to run
    ExecutorIds,   \* names executors are registered under
    PoolSize       \* _SOFT_TIMEOUT_MAX_WORKERS

(* DEFAULT_RETRY_UNTIL_MAX, which a payload without the field falls to.    *)
DefaultRetryUntilMax == 1000

NoId == "no_executor_id"

TaskSpec == [round_timeout : Nat, round_timeout_join : Nat, round_times : Nat,
             retry_count : Nat, retry_until_completed : BOOLEAN, retry_until_max : Nat,
             optional : BOOLEAN, executor_id : ExecutorIds \cup {NoId},
             executor : {"returns", "may_hang", "none"}]

(* What Task.__init__ accepts.                                             *)
ValidTask(t) == t \in TaskSpec /\ t.retry_until_max >= 1 /\ t.round_times >= 1

(* Task ids are unique: every task belongs to one runner.  (TwinsRunOnce   *)
(* of Scheduler is why two instances of one job do not run together.)      *)
ASSUME WorkflowAssumption ==
    /\ PoolSize \in Nat \ {0}
    /\ NoId \notin ExecutorIds
    /\ Plan \in [Runners -> Seq(TaskSpec)]
    /\ \A r \in Runners : \A i \in DOMAIN Plan[r] : ValidTask(Plan[r][i])

VARIABLES
    registry,    \* the executor ids that are registered
    tasks,       \* the workflow of each runner
    at,          \* where each runner is
    fut,         \* the futures each runner submitted, oldest first
    pool,        \* the pool's work queue of <<runner, number>>
    inflight,    \* _inflight: the future of each task <<r, i>>, 0 for none
    executes,    \* history: the executes of each task that started
    results      \* history: what _run_task returned, by runner

vars == <<registry, tasks, at, fut, pool, inflight, executes, results>>

TaskIds == UNION {{r} \X DOMAIN Plan[r] : r \in Runners}

Pcs == {"new", "task", "attempt", "inline", "submit", "register", "wait", "timeout",
        "cancel", "recheck", "join", "finally", "returned", "raised"}

(* i: index of the task; round and attempt count from 1; error: the        *)
(* attempt raises.                                                         *)
Place == [pc : Pcs, i : Nat, round : Nat, attempt : Nat, error : BOOLEAN]

Done == {"ok", "err", "cancelled"}

Init ==
    /\ registry = {}
    /\ tasks = [r \in Runners |-> <<>>]
    /\ at = [r \in Runners |-> [pc |-> "new", i |-> 0, round |-> 0, attempt |-> 0, error |-> FALSE]]
    /\ fut = [r \in Runners |-> <<>>]
    /\ pool = <<>>
    /\ inflight = [id \in TaskIds |-> 0]
    /\ executes = [id \in TaskIds |-> 0]
    /\ results = [r \in Runners |-> <<>>]

-----------------------------------------------------------------------------
(* The registry of executors, and a workflow's way through a payload.      *)

Register(e) ==
    /\ registry' = registry \cup {e}
    /\ UNCHANGED <<tasks, at, fut, pool, inflight, executes, results>>

Clear ==
    /\ registry # {}
    /\ registry' = {}
    /\ UNCHANGED <<tasks, at, fut, pool, inflight, executes, results>>

(* "x or d": zero falls to the default.                                    *)
Or(x, d) == IF x = 0 THEN d ELSE x

(* Job._workflows_payload: no payload, None, if an executor has no name.   *)
Serializable(wf) == wf # <<>> /\ \A i \in DOMAIN wf : wf[i].executor_id # NoId

(* Mutant: the payload's retry_count is taken for a number of attempts.    *)
FromPayload_AttemptsForRetries(t) ==
    [t EXCEPT !.round_times = Or(@, 1), !.retry_until_max = Or(@, DefaultRetryUntilMax),
              !.retry_count = @ + 1]

(* Job._workflows_from_payload, one task.                                  *)
FromPayload(t) ==
    [t EXCEPT !.round_times = Or(@, 1), !.retry_until_max = Or(@, DefaultRetryUntilMax)]

(* The workflow is built in the program.                                   *)
Construct(r) ==
    /\ at[r].pc = "new"
    /\ tasks' = [tasks EXCEPT ![r] = Plan[r]]
    /\ at' = [at EXCEPT ![r] = [at[r] EXCEPT !.pc = "task", !.i = 1]]
    /\ UNCHANGED <<registry, fut, pool, inflight, executes, results>>

(* It is rebuilt from the payload of its job: without one the job has no   *)
(* workflows; an executor_id that is not registered raises, no job.        *)
Rehydrate(r) ==
    /\ at[r].pc = "new"
    /\ IF Serializable(Plan[r])
       THEN /\ \A i \in DOMAIN Plan[r] : Plan[r][i].executor_id \in registry
            /\ tasks' = [tasks EXCEPT ![r] = [i \in DOMAIN Plan[r] |-> FromPayload(Plan[r][i])]]
       ELSE tasks' = tasks
    /\ at' = [at EXCEPT ![r] = [at[r] EXCEPT !.pc = "task", !.i = 1]]
    /\ UNCHANGED <<registry, fut, pool, inflight, executes, results>>

-----------------------------------------------------------------------------
Largest(m, n) == IF m >= n THEN m ELSE n

(* Workflow._attempts_per_round.                                           *)
Attempts(t) ==
    IF t.retry_until_completed /\ t.retry_count = 0
    THEN Largest(1, t.retry_until_max)
    ELSE Largest(1, t.retry_count + 1)

Rounds(t) == Largest(1, Or(t.round_times, 1))

T(r) == tasks[r][at[r].i]

Id(r) == <<r, at[r].i>>

(* The future of the attempt in progress: the last one submitted.          *)
F(r) == Last(fut[r])

(* The future <<r, n>> has a result, an exception or was cancelled.        *)
done(r, n) == fut[r][n].st \in Done

At(r, pc) == at[r].pc = pc

Goto(r, pc) == at' = [at EXCEPT ![r].pc = pc]

(* The attempt returns, or raises if error, through the finally clause.    *)
Leave(r, error) == at' = [at EXCEPT ![r] = [at[r] EXCEPT !.pc = "finally", !.error = error]]

(* run takes up the next task, or returns the results.                     *)
NextTask(r) ==
    /\ At(r, "task")
    /\ IF at[r].i > Len(tasks[r])
       THEN Goto(r, "returned")
       ELSE at' = [at EXCEPT ![r] = [at[r] EXCEPT !.pc = "attempt", !.round = 1, !.attempt = 1]]
    /\ UNCHANGED <<registry, tasks, fut, pool, inflight, executes, results>>

(* Where _run_task goes after an attempt that returned.                    *)
Succeeded(r) ==
    /\ results' = [results EXCEPT ![r] = Append(@, "value")]
    /\ at' = [at EXCEPT ![r] = [at[r] EXCEPT !.pc = "task", !.i = @ + 1, !.round = 0, !.attempt = 0]]

(* And after one that raised: the next attempt, the next round, the next   *)
(* task if this one is optional, and else out of run.                      *)
Failed(r) ==
    LET p == [at[r] EXCEPT !.pc = "attempt", !.error = FALSE]
    IN  \/ /\ p.attempt < Attempts(T(r))
           /\ at' = [at EXCEPT ![r] = [p EXCEPT !.attempt = @ + 1]]
           /\ results' = results
        \/ /\ p.attempt = Attempts(T(r))
           /\ p.round < Rounds(T(r))
           /\ at' = [at EXCEPT ![r] = [p EXCEPT !.attempt = 1, !.round = @ + 1]]
           /\ results' = results
        \/ /\ p.attempt = Attempts(T(r))
           /\ p.round = Rounds(T(r))
           /\ IF T(r).optional
              THEN /\ results' = [results EXCEPT ![r] = Append(@, "none")]
                   /\ at' = [at EXCEPT ![r] = [p EXCEPT !.pc = "task", !.i = @ + 1,
                                                        !.round = 0, !.attempt = 0]]
              ELSE /\ results' = results
                   /\ at' = [at EXCEPT ![r].pc = "raised"]

-----------------------------------------------------------------------------
(* _execute_once.  A task without an executor returns None at once;        *)
(* without a timeout the runner executes the task itself.                  *)
NoExecutor(r) ==
    /\ At(r, "attempt")
    /\ T(r).executor = "none"
    /\ Succeeded(r)
    /\ UNCHANGED <<registry, tasks, fut, pool, inflight, executes>>

ExecuteInline(r) ==
    /\ At(r, "attempt")
    /\ T(r).executor # "none"
    /\ T(r).round_timeout = 0
    /\ executes' = [executes EXCEPT ![Id(r)] = @ + 1]
    /\ Goto(r, "inline")
    /\ UNCHANGED <<registry, tasks, fut, pool, inflight, results>>

InlineReturns(r) ==
    /\ At(r, "inline")
    /\ Succeeded(r) \/ Failed(r)
    /\ UNCHANGED <<registry, tasks, fut, pool, inflight, executes>>

(* Mutant: an attempt whose predecessor still runs submits all the same.   *)
CheckInflight_Submits(r) ==
    /\ At(r, "attempt")
    /\ T(r).executor # "none"
    /\ T(r).round_timeout > 0
    /\ Goto(r, "submit")
    /\ inflight' = [inflight EXCEPT ![Id(r)] = 0]
    /\ UNCHANGED <<registry, tasks, fut, pool, executes, results>>

(* With one, a future of this task that still runs fails the attempt.      *)
CheckInflight(r) ==
    /\ At(r, "attempt")
    /\ T(r).executor # "none"
    /\ T(r).round_timeout > 0
    /\ IF inflight[Id(r)] # 0 /\ ~done(r, inflight[Id(r)])
       THEN Failed(r) /\ inflight' = inflight
       ELSE /\ Goto(r, "submit")
            /\ inflight' = [inflight EXCEPT ![Id(r)] = 0]
            /\ results' = results
    /\ UNCHANGED <<registry, tasks, fut, pool, executes>>

Submit(r) ==
    /\ At(r, "submit")
    /\ fut' = [fut EXCEPT ![r] = Append(@, [i |-> at[r].i, st |-> "queued"])]
    /\ pool' = Append(pool, <<r, Len(fut[r]) + 1>>)
    /\ Goto(r, "register")
    /\ UNCHANGED <<registry, tasks, inflight, executes, results>>

RegisterFuture(r) ==
    /\ At(r, "register")
    /\ inflight' = [inflight EXCEPT ![Id(r)] = Len(fut[r])]
    /\ Goto(r, "wait")
    /\ UNCHANGED <<registry, tasks, fut, pool, executes, results>>

(* future.result(timeout): the result is there in time, or it is not.      *)
Wait(r) ==
    /\ At(r, "wait")
    /\ F(r).st \in Done
    /\ Leave(r, F(r).st # "ok")
    /\ UNCHANGED <<registry, tasks, fut, pool, inflight, executes, results>>

Timeout(r) ==
    /\ At(r, "wait")
    /\ F(r).st \notin Done
    /\ Goto(r, "timeout")
    /\ UNCHANGED <<registry, tasks, fut, pool, inflight, executes, results>>

(* Both looks at future.done() after the timeout, before and after cancel. *)
DoneAfterTimeout(r) ==
    /\ at[r].pc \in {"timeout", "recheck"}
    /\ IF F(r).st \in Done THEN Leave(r, F(r).st # "ok")
       ELSE Goto(r, IF At(r, "timeout") THEN "cancel" ELSE "join")
    /\ UNCHANGED <<registry, tasks, fut, pool, inflight, executes, results>>

(* Mutant: the queued future is left in the pool.                          *)
CancelFuture_Leaves(r) ==
    /\ At(r, "cancel")
    /\ IF F(r).st = "queued"
       THEN /\ inflight' = [inflight EXCEPT ![Id(r)] = 0]
            /\ Leave(r, TRUE)
       ELSE Goto(r, "recheck") /\ UNCHANGED inflight
    /\ UNCHANGED <<registry, tasks, fut, pool, executes, results>>

(* future.cancel() takes a future that has not started; the pool drops it  *)
(* when its turn comes.                                                    *)
CancelFuture(r) ==
    /\ At(r, "cancel")
    /\ IF F(r).st = "queued"
       THEN /\ fut' = [fut EXCEPT ![r][Len(fut[r])].st = "cancelled"]
            /\ inflight' = [inflight EXCEPT ![Id(r)] = 0]
            /\ Leave(r, TRUE)
       ELSE Goto(r, "recheck") /\ UNCHANGED <<fut, inflight>>
    /\ UNCHANGED <<registry, tasks, pool, executes, results>>

(* Mutant: the join waits for the result without a bound.                  *)
Join_Forever(r) ==
    /\ At(r, "join")
    /\ F(r).st \in Done
    /\ Leave(r, TRUE)
    /\ UNCHANGED <<registry, tasks, fut, pool, inflight, executes, results>>

(* A started execute is joined: its late result is dropped, and a join     *)
(* with a bound may end before it does.                                    *)
Join(r) ==
    /\ At(r, "join")
    /\ F(r).st \in Done \/ T(r).round_timeout_join > 0
    /\ Leave(r, TRUE)
    /\ UNCHANGED <<registry, tasks, fut, pool, inflight, executes, results>>

(* Mutant: an attempt fails only if its future has failed.                 *)
Finally_StillRunning(r) ==
    /\ At(r, "finally")
    /\ inflight' = [inflight EXCEPT ![Id(r)] = IF F(r).st \in Done THEN 0 ELSE @]
    /\ IF at[r].error /\ F(r).st \in Done THEN Failed(r) ELSE Succeeded(r)
    /\ UNCHANGED <<registry, tasks, fut, pool, executes>>

Finally(r) ==
    /\ At(r, "finally")
    /\ inflight' = [inflight EXCEPT ![Id(r)] = IF F(r).st \in Done THEN 0 ELSE @]
    /\ IF at[r].error THEN Failed(r) ELSE Succeeded(r)
    /\ UNCHANGED <<registry, tasks, fut, pool, executes>>

-----------------------------------------------------------------------------
Futures == UNION {{r} \X DOMAIN fut[r] : r \in Runners}

Running == {f \in Futures : fut[f[1]][f[2]].st = "running"}

(* A pool thread takes the oldest work item and starts it unless it was    *)
(* cancelled; it is busy until the execute returns or raises.              *)
Start ==
    /\ pool # <<>>
    /\ Cardinality(Running) < PoolSize
    /\ pool' = Tail(pool)
    /\ LET r == Head(pool)[1]
           n == Head(pool)[2]
       IN  IF fut[r][n].st = "cancelled"
           THEN UNCHANGED <<fut, executes>>
           ELSE /\ fut' = [fut EXCEPT ![r][n].st = "running"]
                /\ executes' = [executes EXCEPT ![<<r, fut[r][n].i>>] = @ + 1]
    /\ UNCHANGED <<registry, tasks, at, inflight, results>>

ExecuteReturns(r) ==
    /\ \E n \in DOMAIN fut[r], st \in {"ok", "err"} :
          /\ fut[r][n].st = "running"
          /\ fut' = [fut EXCEPT ![r][n].st = st]
    /\ UNCHANGED <<registry, tasks, at, pool, inflight, executes, results>>

-----------------------------------------------------------------------------
RunnerStep(r) ==
    \/ NextTask(r) \/ NoExecutor(r) \/ ExecuteInline(r) \/ CheckInflight(r)
    \/ Submit(r) \/ RegisterFuture(r) \/ Wait(r) \/ Timeout(r) \/ DoneAfterTimeout(r)
    \/ CancelFuture(r) \/ Join(r) \/ Finally(r)

Next ==
    \/ \E e \in ExecutorIds : Register(e)
    \/ Clear
    \/ \E r \in Runners : Construct(r) \/ Rehydrate(r) \/ RunnerStep(r) \/ InlineReturns(r)
    \/ Start
    \/ \E r \in Runners : ExecuteReturns(r)

Spec == Init /\ [][Next]_vars

(* Threads run, timeouts fire, and executors return, but for those of a    *)
(* runner one of whose executors may hang.                                 *)
MayHang(r) == \E i \in DOMAIN Plan[r] : Plan[r][i].executor = "may_hang"

FairSpec ==
    /\ Spec
    /\ WF_vars(Start)
    /\ \A r \in Runners :
          /\ WF_vars(RunnerStep(r))
          /\ WF_vars(InlineReturns(r))
          /\ ~MayHang(r) => WF_vars(ExecuteReturns(r))

-----------------------------------------------------------------------------
(* A still-running execute blocks a later attempt of its task: at most one *)
(* execute of a task waits in the pool or runs there, whatever the         *)
(* timeouts, the cancel and the bounded join of its attempts do.           *)
NoOverlap ==
    \A r \in Runners : \A m, n \in DOMAIN fut[r] :
        fut[r][m].i = fut[r][n].i /\ ~done(r, m) /\ ~done(r, n) => m = n

(* A task is executed at most as often as the rounds and attempts it was   *)
(* planned with allow, also when its workflow came back from a payload.    *)
BudgetKept ==
    \A id \in TaskIds :
        LET t == Plan[id[1]][id[2]] IN executes[id] <= Rounds(t) * Attempts(t)

(* When run() is over nothing of it is left in the pool, but for executes  *)
(* that outlived a join with a bound.                                      *)
NoLeftover ==
    \A r \in Runners : at[r].pc \in {"returned", "raised"} =>
        \A n \in DOMAIN fut[r] :
            \/ fut[r][n].st \in Done
            \/ fut[r][n].st = "running" /\ Plan[r][fut[r][n].i].round_timeout_join > 0

(* A task that is reported done was done: its last execute in the pool     *)
(* returned, and none was started after it.                                *)
SuccessIsReal ==
    \A r \in Runners : \A i \in DOMAIN results[r] :
        LET mine == {n \in DOMAIN fut[r] : fut[r][n].i = i}
        IN  results[r][i] = "value" /\ mine # {} =>
                \E n \in mine : fut[r][n].st = "ok" /\ \A m \in mine : m <= n

(* run() ends although an executor never returns, holds a thread of the    *)
(* pool and leaves the work of others in the queue, as long as the task    *)
(* that hangs has a timeout and a bounded join.                            *)
Ends == \A r \in Runners : at[r].pc = "task" ~> at[r].pc \in {"returned", "raised"}
=============================================================================
