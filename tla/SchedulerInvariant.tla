------------------------- MODULE SchedulerInvariant -------------------------
(***************************************************************************)
(* The inductive invariants of Scheduler. The first, IInv, is behind       *)
(* RunsAtMostOnce, and the others stand on it: CoopInv and DurableInv      *)
(* about one event loop, TwinInv about instances of one id on it,          *)
(* SignalInv about the cancel Event, DrainInv about the end of the         *)
(* workers. The idea of the first: an instance is a token. It is fresh     *)
(* until the channel accepts it; from then on it is once on the queue, or  *)
(* with one worker, or gone for good, and no step can make it fresh again, *)
(* because nobody can bring its FSM back to Unknown. A worker gives it     *)
(* back to the queue only before it started the workflows.                 *)
(***************************************************************************)
EXTENDS Scheduler

(* The statuses before an instance is scheduled, and those that follow.    *)
Early == {"Unknown", "Initializing"}

Late == {"InProgress", "Failed", "Completed", "Cancelled"}

-----------------------------------------------------------------------------
(* What the local variables of an owner, a canceller and a worker may be   *)
(* at each place.                                                          *)

OwnerLocals(j, r) ==
    /\ r.job = j
    /\ \/ r.pc \in {"idle", "from_record", "sched_saved"} /\ r.prev = None
       \/ r.pc \in SavePcs /\ r.ret = "sched_saved" /\ r.prev = None
       \/ r.pc \in {"init", "rollback"} /\ r.prev \in Status \ {"Initializing"}
       \/ r.pc \in {"schedule", "send"} /\ r.prev = "Unknown"
       \/ r.pc = "commit" /\ r.prev = "Unknown" /\ r.ret = "init" /\ r.snap = "Initializing"
       \/ r.pc = "commit" /\ r.prev = "Unknown" /\ r.ret = "schedule" /\ r.snap = "Scheduled"

CancellerLocals(r) ==
    \/ r.pc = "idle"
    \/ /\ r.job \in Jobs
       /\ \/ r.pc \in {"cancel", "cancel_saved"}
          \/ r.pc \in SavePcs /\ r.ret = "cancel_saved"
          \/ r.pc = "commit" /\ r.ret = "cancel" /\ r.snap \in Late

(* Taken off the queue; on the way to RUN and back; past it.               *)
Taken(r) == r.pc \in {"process", "begin"}

BeforeRun(r) ==
    /\ r.prev \in Status \ Early
    /\ \/ r.pc \in {"heal", "healed", "reheal", "run", "run_saved", "skipped", "follow",
                    "fail_or_restore", "force_failed", "failed_saved", "restore_check",
                    "restore", "requeue"}
       \/ r.pc \in SavePcs /\ r.ret \in {"healed", "run_saved", "failed_saved"}
       \/ r.pc = "commit" /\ r.ret = "run" /\ r.snap \in Late

AfterRun(r) ==
    \/ r.pc \in {"workflows", "failed", "fail", "finish", "complete", "follow_cancel",
                 "ensure", "redelivery_full", "redelivery_stopped"}
    \/ r.pc = "running" /\ r.n > 0
    \/ r.pc = "undeliverable" /\ r.ret \in {"redelivery_full", "redelivery_stopped"}
    \/ r.pc \in SavePcs /\ r.ret \in {"return", "redelivery_full", "redelivery_stopped"}
    \/ r.pc = "commit" /\ r.ret \in {"follow_cancel", "fail", "complete"} /\ r.snap \in Late

WorkerLocals(r) ==
    \/ r.pc \in {"receive", "raised", "returned"} /\ r.job = NoJob
    \/ r.job \in Jobs /\ (Taken(r) \/ BeforeRun(r) \/ AfterRun(r))

Locals(a, r) ==
    /\ r.pc \in {"record", "put"} => r.snap \in Status
    /\ a \in Jobs => OwnerLocals(a, r)
    /\ a \in Cancellers => CancellerLocals(r)
    /\ a \in Workers => WorkerLocals(r)

-----------------------------------------------------------------------------
(* Not accepted yet, of an instance in status s whose owner is at r.       *)
Fresh(s, r) == r.prev = "Unknown" \/ (r.prev = None /\ s = "Unknown")

(* The worker at r has not started the workflows of its job.               *)
NotStarted(r) == Taken(r) \/ BeforeRun(r) \/ (r.pc = "workflows" /\ r.n = 0)

LocalsOK == \A a \in Actors : Locals(a, act[a])

FreshIsUntouched ==
    \A j \in Jobs : Fresh(fsm[j], act[j]) =>
        ~Queued(j) /\ runs[j] = 0 /\ \A w \in Workers : act[w].job # j

AcceptedIsLate == \A j \in Jobs : ~Fresh(fsm[j], act[j]) => fsm[j] \notin Early

SendIsLate == \A j \in Jobs : act[j].pc = "send" => fsm[j] \notin Early

OnePlace ==
    /\ \A i, k \in 1..Len(queue) : queue[i] = queue[k] => i = k
    /\ \A w \in Workers : ~Queued(act[w].job)
    /\ \A v, w \in Workers : act[v].job = act[w].job /\ act[v].job \in Jobs => v = w

QueuedNotRun == \A j \in Jobs : Queued(j) => runs[j] = 0

HeldNotRun == \A w \in Workers : NotStarted(act[w]) => runs[act[w].job] = 0

(* The inductive invariant: one place per instance, and a run count that   *)
(* is zero wherever a run may still start.                                 *)
TokenInv ==
    /\ LocalsOK
    /\ FreshIsUntouched
    /\ AcceptedIsLate
    /\ SendIsLate
    /\ OnePlace
    /\ QueuedNotRun
    /\ HeldNotRun
    /\ RunsAtMostOnce

IInv == TypeOK /\ TokenInv

-----------------------------------------------------------------------------
(* The second invariant is about one event loop.  There an actor has the   *)
(* state of its job to itself from one await to the next, so that what it  *)
(* last read or wrote still holds, and a store that answers every get      *)
(* leaves no version behind.                                               *)
Cooperative ==
    /\ Preemptive = FALSE
    /\ "get" \notin FaultPoints
    /\ \A i, j \in Jobs : IdOf[i] = IdOf[j] => i = j

(* Between two calls: the row is the last snapshot of the job, or an older *)
(* one if a put has raised, and the job has the row's version.             *)
Synced(row, v) == row.status = None \/ row.version = v

Settled(s, row, v, f) ==
    \/ s = "Unknown" /\ row.status = None
    \/ /\ s \notin Early
       /\ Synced(row, v)
       /\ row.status \in Terminal => row.status = s
       /\ f = 0 => row.status = s
       /\ s = "InProgress" => row.status = "InProgress"
       /\ s = "Scheduled" => row.status \in {None, "Scheduled"}

(* Inside save(), which finds a row in one of the statuses `old`.          *)
Saving(r, s, row, v, old) ==
    /\ r.pc \in {"save", "record", "put"} => Synced(row, v) /\ row.status \in old
    /\ r.pc \in {"record", "put"} => r.snap = s
    /\ r.pc = "put" => r.ver = v
    /\ r.pc \in {"get", "refresh"} => row.status = s
    /\ r.pc = "refresh" => r.ver = row.version

(* After save(): it is never skipped, because the versions agree.          *)
Saved(r, s, row, v, f, old) ==
    /\ Synced(row, v)
    /\ \/ r.res = "ok" /\ row.status = s
       \/ r.res = "exc" /\ f > 0 /\ row.status \in old

OwnerPlace(r, s, row, v, f) ==
    /\ r.pc = "init" => r.prev = s /\ Settled(s, row, v, f)
    /\ r.pc = "commit" /\ r.ret = "init" => s = "Unknown" /\ row.status = None
    /\ r.pc = "schedule" => s = "Initializing" /\ row.status = None
    /\ r.pc = "commit" /\ r.ret = "schedule" => s = "Initializing" /\ row.status = None
    /\ r.pc = "send" => s = "Scheduled" /\ row.status = None
    /\ r.pc = "rollback" => \/ r.prev = s /\ Settled(s, row, v, f)
                            \/ r.prev = "Unknown" /\ s \in {"Initializing", "Scheduled"} /\ row.status = None
    /\ r.pc \in SavePcs => s = "Scheduled" /\ Saving(r, s, row, v, {None, "Scheduled"})
    /\ r.pc = "sched_saved" => s = "Scheduled" /\ Saved(r, s, row, v, f, {None, "Scheduled"})

(* What a Cancelled snapshot may find and replace.                         *)
Replaceable == NonTerminal \cup {None, "Cancelled"}

CancellerPlace(r, s, row, v, f) ==
    /\ r.pc = "cancel" => Settled(s, row, v, f)
    /\ r.pc = "commit" => /\ r.snap = "Cancelled" /\ s \in {"Scheduled", "InProgress"}
                          /\ Settled(s, row, v, f)
    /\ r.pc \in SavePcs => s = "Cancelled" /\ Saving(r, s, row, v, Replaceable)
    /\ r.pc = "cancel_saved" => s = "Cancelled" /\ Saved(r, s, row, v, f, Replaceable)

(* A worker that could not persist RUN, or not even the healed row.        *)
Stuck(row, v, f) == Synced(row, v) /\ row.status \in {None, "Scheduled"} /\ f > 0

WorkerPlace(r, s, row, v, f) ==
    /\ r.pc \notin {"reheal", "skipped", "follow", "follow_cancel"}
    /\ r.pc = "commit" => r.ret \in {"run", "fail", "complete"}
    /\ BeforeRun(r) => r.prev = "Scheduled"
    /\ r.pc \in {"begin", "heal"} => s = "Scheduled" /\ Settled(s, row, v, f)
    /\ r.pc \in SavePcs /\ r.ret = "healed" => s = "Scheduled" /\ Saving(r, s, row, v, {None})
    /\ r.pc = "healed" => s = "Scheduled" /\ Saved(r, s, row, v, f, {None})
    /\ r.pc = "run" \/ (r.pc = "commit" /\ r.ret = "run") =>
         s = "Scheduled" /\ row.status = "Scheduled" /\ Synced(row, v)
    /\ r.pc = "commit" /\ r.ret = "run" => r.snap = "InProgress"
    /\ r.pc \in SavePcs /\ r.ret = "run_saved" =>
         s = "InProgress" /\ Saving(r, s, row, v, {"Scheduled"})
    /\ r.pc = "run_saved" => s = "InProgress" /\ Saved(r, s, row, v, f, {"Scheduled"})
    /\ r.pc \in {"fail_or_restore", "force_failed"} =>
         s \in {"Scheduled", "InProgress"} /\ Stuck(row, v, f)
    /\ r.pc \in SavePcs /\ r.ret \in {"failed_saved", "redelivery_full", "redelivery_stopped"} =>
         s = "Failed" /\ Saving(r, s, row, v, {None, "Scheduled"}) /\ f > 0
    /\ r.pc \in {"failed_saved", "redelivery_full", "redelivery_stopped"} =>
         s = "Failed" /\ Saved(r, s, row, v, f, {None, "Scheduled"}) /\ f > 0
    /\ r.pc \in {"restore_check", "restore"} => s = "Failed" /\ Stuck(row, v, f)
    /\ r.pc \in {"requeue", "undeliverable"} => s = "Scheduled" /\ Stuck(row, v, f)
    /\ r.pc \in {"workflows", "finish", "failed"} =>
         s \in {"InProgress", "Cancelled"} /\ Settled(s, row, v, f)
    /\ r.pc \in {"fail", "complete"} \/ (r.pc = "commit" /\ r.ret \in {"fail", "complete"}) =>
         s = "InProgress" /\ Settled(s, row, v, f)
    /\ r.pc = "commit" /\ r.ret \in {"fail", "complete"} => r.snap \in {"Failed", "Completed"}
    /\ r.pc = "ensure" => s = "Cancelled" /\ Settled(s, row, v, f)
    /\ r.pc \in SavePcs /\ r.ret = "return" =>
         \/ s \in {"Failed", "Completed"} /\ Saving(r, s, row, v, {"InProgress"})
         \/ s = "Cancelled" /\ Saving(r, s, row, v, Replaceable)

Place(a, r, s, row, v, f) ==
    /\ a \in Jobs => OwnerPlace(r, s, row, v, f)
    /\ a \in Cancellers => CancellerPlace(r, s, row, v, f)
    /\ a \in Workers => WorkerPlace(r, s, row, v, f)

Busy(a) == act[a].pc \notin AwaitPoints

(* One actor at a time is between two awaits.                              *)
OneBusy == \A a, b \in Actors : Busy(a) /\ Busy(b) => a = b

BusyIsPlaced ==
    \A a \in Actors : Busy(a) => Place(a, act[a], fsm[J(a)], RowOf(a), version[J(a)], faults)

IdleIsSettled ==
    \A j \in Jobs : (\A a \in Actors : J(a) = j => ~Busy(a))
        => Settled(fsm[j], rows[IdOf[j]], version[j], faults)

(* A job that waits for a worker was scheduled, one whose workflow runs is *)
(* in progress, unless it was cancelled meanwhile.                         *)
WaitingIsScheduled ==
    /\ \A j \in Jobs : Queued(j) => fsm[j] \in {"Scheduled", "Cancelled"}
    /\ \A w \in Workers : act[w].pc = "process" => fsm[J(w)] \in {"Scheduled", "Cancelled"}
    /\ \A w \in Workers : act[w].pc = "running" => fsm[J(w)] \in {"InProgress", "Cancelled"}

(* Whatever is scheduled or in progress is somewhere.                      *)
Located ==
    \A j \in Jobs : fsm[j] \in {"Scheduled", "InProgress"} =>
        Queued(j) \/ (\E w \in Workers : J(w) = j) \/ act[j].prev = "Unknown"

RowsAreOwned == \A id \in Ids : rows[id].status # None => \E j \in Jobs : IdOf[j] = id

(* The inductive invariant of the event loop.                              *)
CoopInv ==
    /\ OneBusy
    /\ BusyIsPlaced
    /\ IdleIsSettled
    /\ WaitingIsScheduled
    /\ Located
    /\ RowsAreOwned

-----------------------------------------------------------------------------
(* The third is about the cancel Event, threads or not.  A status of       *)
(* Cancelled comes from Job.cancel, which has set the Event, or from a     *)
(* worker that follows a Cancelled row; that worker will not start the     *)
(* workflows any more, and nobody else can.                                *)

(* The worker at r only has its cancel to persist.                         *)
Leaving(r) ==
    \/ r.pc = "ensure"
    \/ r.pc \in SavePcs /\ r.ret = "return"
    \/ r.pc = "commit" /\ r.ret = "follow_cancel"

(* No worker has j, or will have it, with its workflows still to run.      *)
Spent(j) ==
    /\ ~Fresh(fsm[j], act[j])
    /\ ~Queued(j)
    /\ \A w \in Workers : act[w].job = j => Leaving(act[w])

Signalled(j) == cancelEvent[j] = TRUE \/ Spent(j)

(* The actor at r may make its job Cancelled: it is about to assign that,  *)
(* or has it as the status to roll back to or to restore.                  *)
BringsCancel(r) ==
    \/ r.pc = "commit" /\ r.snap = "Cancelled"
    \/ r.prev = "Cancelled"

(* A worker that has not read its job's status yet.                        *)
Unread(r) == r.pc \in {"receive", "process", "begin"}

SignalInv ==
    /\ \A j \in Jobs : is_cancelled(j) => Signalled(j)
    /\ \A a \in Actors, j \in Jobs : J(a) = j /\ BringsCancel(act[a]) => Signalled(j)
    /\ \A c \in Cancellers : J(c) \in Jobs => cancelEvent[J(c)] = TRUE
    /\ \A w \in Workers : Unread(act[w]) => act[w].prev = None

-----------------------------------------------------------------------------
(* The fourth is about instances that share an id, on one event loop.  To  *)
(* start the workflows an instance must have put InProgress at the version *)
(* it knew.  That put raised the version of the row above what any other   *)
(* instance knows, and none of them can catch up while the row says        *)
(* InProgress: only a save that wrote, or Job.from_record, takes over the  *)
(* version of a row.                                                       *)
OneClaimEach ==
    /\ Preemptive = FALSE
    /\ "InProgress" \notin RehydrateFrom

(* The worker at r has put InProgress for its job.                         *)
Claims(r) ==
    \/ r.pc \in {"get", "refresh"} /\ r.ret = "run_saved"
    \/ r.pc = "run_saved" /\ r.res = "ok"
    \/ r.pc \in {"workflows", "running"}

Claimed(j) == runs[j] > 0 \/ \E w \in Workers : J(w) = j /\ Claims(act[w])

(* A put has been made for the id before the one that claims.              *)
NeedsRow(r) ==
    \/ r.pc \in {"get", "refresh", "run"}
    \/ r.pc = "healed" /\ r.res = "ok"
    \/ r.pc = "commit" /\ r.ret = "run"
    \/ r.pc \in SavePcs /\ r.ret = "run_saved"

(* What the actor at r has read of its job's status s and version v, and   *)
(* of the row, still holds.                                                *)
Current(r, s, row, v) ==
    /\ NeedsRow(r) => row.status # None
    /\ r.pc = "put" => r.ver = v
    /\ r.pc = "refresh" => r.ver = row.version
    /\ r.pc = "commit" /\ r.ret = "run" => r.snap = "InProgress"
    /\ r.pc \in {"save", "record", "put"} /\ r.ret = "run_saved" => s = "InProgress"
    /\ r.pc \in {"record", "put"} /\ r.ret = "run_saved" => r.snap = "InProgress"

BusyIsCurrent ==
    \A a \in Actors : Busy(a) => Current(act[a], fsm[J(a)], RowOf(a), version[J(a)])

(* No instance is ahead of its row, nor of the first version of one.       *)
NoneAhead ==
    \A j \in Jobs :
        /\ rows[IdOf[j]].status = None => version[j] = 1
        /\ rows[IdOf[j]].status # None => version[j] <= rows[IdOf[j]].version

(* Instance j does not know the version of its row and is not about to.    *)
Behind(j) ==
    /\ version[j] < rows[IdOf[j]].version
    /\ \A a \in Actors : J(a) = j => act[a].pc \notin {"get", "refresh"}

OneClaim ==
    \A i \in Jobs : Claimed(i) =>
        /\ rows[IdOf[i]].status \in {"InProgress"} \cup Terminal
        /\ \A j \in Jobs : j # i /\ IdOf[j] = IdOf[i] =>
             ~Claimed(j) /\ (rows[IdOf[i]].status = "InProgress" => Behind(j))

TwinInv == OneBusy /\ BusyIsCurrent /\ NoneAhead /\ OneClaim
-----------------------------------------------------------------------------
(* The fifth is about a cancel that is being persisted, on one event loop: *)
(* the row of a Cancelled job lags while the canceller is inside save(),   *)
(* or after one put has raised; and until a second one raises the job is   *)
(* on the queue or with a worker, who will look at the row.                *)
Persisting(c, j) == act[c].job = j /\ act[c].pc \in SavePcs \cup {"cancel_saved"}

InHand(j) == Queued(j) \/ \E w \in Workers : J(w) = j

DurableInv ==
    \A j \in Jobs : is_cancelled(j) /\ rows[IdOf[j]].status # "Cancelled" /\ faults <= 1 =>
        /\ InHand(j)
        /\ faults = 1 \/ \E c \in Cancellers : Persisting(c, j)

(* The sixth is about the end of a worker, threads or not: it has returned *)
(* from a stopped and empty channel, which stays so.                       *)
Drained == stop = TRUE /\ queue = <<>>

DrainInv == \A w \in Workers : act[w].pc = "returned" => Drained
=============================================================================
