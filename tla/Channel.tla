------------------------------- MODULE Channel ------------------------------
(***************************************************************************)
(* scheduler/channel.py: Channel.receive races a task that gets from the   *)
(* asyncio.Queue against one that waits for the stop event.  One action is *)
(* one turn of the event loop: what a coroutine does between two awaits.   *)
(***************************************************************************)
EXTENDS Naturals, SequencesExt

CONSTANTS Items, Consumers, MaxSize, Nothing, Stopped,
    MaxGivenUp    \* bound: receives each consumer may give up

ASSUME ChannelAssumption ==
    /\ MaxSize \in Nat /\ MaxGivenUp \in Nat
    /\ Nothing \notin Items /\ Stopped \notin Items /\ Nothing # Stopped

(* The get task of each receive a consumer makes.  One number serves all   *)
(* receives that return; a receive that is given up leaves its number, and *)
(* its task, behind.                                                       *)
Tasks == Consumers \X (0 .. MaxGivenUp)

VARIABLES
    queue,      \* _queue
    stop,       \* _stop
    event,      \* _stopped is set
    getters,    \* _queue._getters: the tasks blocked in get, in order
    task,       \* the state of each get task
    pc,         \* where the receive of each consumer is
    stopTask,   \* the stop task of each receive: "-", "running" or "done"
    result,     \* what each receive is about to return
    givenUp,    \* how many receives each consumer gave up
    sent,       \* the items send accepted
    received    \* history: the items returned to a caller

vars == <<queue, stop, event, getters, task, pc, stopTask, result, givenUp, sent, received>>

NoTask == [st |-> "none", cancel |-> FALSE, item |-> Nothing]

Task == [st     : {"none", "new", "blocked", "woken", "got", "cancelled"},
         cancel : BOOLEAN,                   \* task.cancel() was called
         item   : Items \cup {Nothing}]

(* The get task of c's receive in progress.                                *)
Mine(c) == <<c, givenUp[c]>>

Init ==
    /\ queue = <<>>
    /\ stop = FALSE
    /\ event = FALSE
    /\ getters = <<>>
    /\ task = [t \in Tasks |-> NoTask]
    /\ pc = [c \in Consumers |-> "idle"]
    /\ stopTask = [c \in Consumers |-> "-"]
    /\ result = [c \in Consumers |-> Nothing]
    /\ givenUp = [c \in Consumers |-> 0]
    /\ sent = {}
    /\ received = {}

-----------------------------------------------------------------------------
(* asyncio.Queue._wakeup_next: getters are popped up to the first that is  *)
(* not done, and its task is woken.  The getter of a cancelled task is     *)
(* done, although the task has yet to take it off the list.                *)
WakeNext(gs, ts) ==
    LET i == SelectInSeq(gs, LAMBDA t : ~ts[t].cancel)
    IN  IF i = 0
        THEN getters' = <<>> /\ task' = ts
        ELSE getters' = SubSeq(gs, i + 1, Len(gs)) /\ task' = [ts EXCEPT ![gs[i]].st = "woken"]

(* asyncio.Queue.get: a task that finds the queue empty blocks, and looks  *)
(* again when it is woken.                                                 *)
Get(t) ==
    /\ task[t].st \in {"new", "woken"}
    /\ ~task[t].cancel
    /\ IF queue = <<>>
       THEN /\ getters' = Append(getters, t)
            /\ task' = [task EXCEPT ![t].st = "blocked"]
            /\ queue' = queue
       ELSE /\ task' = [task EXCEPT ![t] = [task[t] EXCEPT !.st = "got", !.item = Head(queue)]]
            /\ queue' = Tail(queue)
            /\ getters' = getters
    /\ UNCHANGED <<stop, event, pc, stopTask, result, givenUp, sent, received>>

(* Mutant: the CancelledError swallows the wake-up.                        *)
GetCancelled_KeepsWakeUp(t) ==
    /\ task[t].cancel
    /\ task[t].st \in {"new", "blocked", "woken"}
    /\ getters' = RemoveFirst(getters, t)
    /\ task' = [task EXCEPT ![t].st = "cancelled"]
    /\ UNCHANGED <<queue, stop, event, pc, stopTask, result, givenUp, sent, received>>

(* The CancelledError arrives in get: a task that had been woken passes    *)
(* the wake-up on, unless the queue is empty.                              *)
GetCancelled(t) ==
    /\ task[t].cancel
    /\ task[t].st \in {"new", "blocked", "woken"}
    /\ LET gs == RemoveFirst(getters, t)
           ts == [task EXCEPT ![t].st = "cancelled"]
       IN  IF task[t].st = "woken" /\ queue # <<>>
           THEN WakeNext(gs, ts)
           ELSE getters' = gs /\ task' = ts
    /\ UNCHANGED <<queue, stop, event, pc, stopTask, result, givenUp, sent, received>>

StopWaited(c) ==
    /\ stopTask[c] = "running"
    /\ event
    /\ stopTask' = [stopTask EXCEPT ![c] = "done"]
    /\ UNCHANGED <<queue, stop, event, getters, task, pc, result, givenUp, sent, received>>

-----------------------------------------------------------------------------
(* Mutant: the capacity test is off by one.                                *)
Full_OffByOne == MaxSize > 0 /\ Len(queue) > MaxSize

Full == MaxSize > 0 /\ Len(queue) >= MaxSize

(* Accepted under the channel's lock.  A sender told "full" or "stopped"   *)
(* changes nothing; Scheduler models what it does next.                    *)
Send(v) ==
    /\ v \notin sent
    /\ ~stop
    /\ ~Full
    /\ sent' = sent \cup {v}
    /\ queue' = Append(queue, v)
    /\ WakeNext(getters, task)
    /\ UNCHANGED <<stop, event, pc, stopTask, result, givenUp, received>>

(* Mutant: request_stop sets the flag and not the event.                   *)
RequestStop_NoEvent ==
    /\ ~stop
    /\ stop' = TRUE
    /\ UNCHANGED <<queue, event, getters, task, pc, stopTask, result, givenUp, sent, received>>

RequestStop ==
    /\ ~stop
    /\ stop' = TRUE
    /\ event' = TRUE
    /\ UNCHANGED <<queue, getters, task, pc, stopTask, result, givenUp, sent, received>>

(* get_nowait, or None when the queue is empty.                            *)
GetNowait(c) ==
    IF queue = <<>>
    THEN queue' = queue /\ result' = [result EXCEPT ![c] = Stopped]
    ELSE queue' = Tail(queue) /\ result' = [result EXCEPT ![c] = Head(queue)]

Receive(c) ==
    /\ pc[c] = "idle"
    /\ \/ /\ stop
          /\ GetNowait(c)
          /\ pc' = [pc EXCEPT ![c] = "return"]
          /\ UNCHANGED <<task, stopTask>>
       \/ /\ ~stop
          /\ task' = [task EXCEPT ![Mine(c)] = [NoTask EXCEPT !.st = "new"]]
          /\ stopTask' = [stopTask EXCEPT ![c] = "running"]
          /\ pc' = [pc EXCEPT ![c] = "wait"]
          /\ UNCHANGED <<queue, result>>
    /\ UNCHANGED <<stop, event, getters, givenUp, sent, received>>

(* asyncio.wait returns: what is still pending is cancelled and awaited.   *)
(* A cancellation of receive itself that arrives now is suppressed with    *)
(* the CancelledError of the awaited task and changes nothing.             *)
CancelPending(c) ==
    /\ pc[c] = "wait"
    /\ task[Mine(c)].st = "got" \/ stopTask[c] = "done"
    /\ task' = [task EXCEPT ![Mine(c)].cancel = (task[Mine(c)].st # "got")]
    /\ stopTask' = [stopTask EXCEPT ![c] = "-"]
    /\ pc' = [pc EXCEPT ![c] = "cancel"]
    /\ UNCHANGED <<queue, stop, event, getters, result, givenUp, sent, received>>

(* Mutant: when stop wins a get that completed as well is forgotten.       *)
Finish_PreferStop(c) ==
    /\ pc[c] = "cancel"
    /\ task[Mine(c)].st \in {"got", "cancelled"}
    /\ IF task[Mine(c)].st = "got" /\ ~stop
       THEN result' = [result EXCEPT ![c] = task[Mine(c)].item] /\ queue' = queue
       ELSE GetNowait(c)
    /\ task' = [task EXCEPT ![Mine(c)] = NoTask]
    /\ pc' = [pc EXCEPT ![c] = "return"]
    /\ UNCHANGED <<stop, event, getters, stopTask, givenUp, sent, received>>

(* A completed get is preferred, even when stop was there too.             *)
Finish(c) ==
    /\ pc[c] = "cancel"
    /\ task[Mine(c)].st \in {"got", "cancelled"}
    /\ IF task[Mine(c)].st = "got"
       THEN result' = [result EXCEPT ![c] = task[Mine(c)].item] /\ queue' = queue
       ELSE GetNowait(c)
    /\ task' = [task EXCEPT ![Mine(c)] = NoTask]
    /\ pc' = [pc EXCEPT ![c] = "return"]
    /\ UNCHANGED <<stop, event, getters, stopTask, givenUp, sent, received>>

(* The caller has the result.                                              *)
Return(c) ==
    /\ pc[c] = "return"
    /\ received' = received \cup ({result[c]} \ {Stopped})
    /\ result' = [result EXCEPT ![c] = Nothing]
    /\ pc' = [pc EXCEPT ![c] = "idle"]
    /\ UNCHANGED <<queue, stop, event, getters, task, stopTask, givenUp, sent>>

(* The caller's task is cancelled in asyncio.wait, which leaves both tasks *)
(* running: the get task stays in line and may still take an item.         *)
GiveUp(c) ==
    /\ pc[c] = "wait"
    /\ givenUp[c] < MaxGivenUp
    /\ givenUp' = [givenUp EXCEPT ![c] = @ + 1]
    /\ stopTask' = [stopTask EXCEPT ![c] = "-"]
    /\ pc' = [pc EXCEPT ![c] = "idle"]
    /\ UNCHANGED <<queue, stop, event, getters, task, result, sent, received>>

-----------------------------------------------------------------------------
Loop ==
    \/ \E t \in Tasks : Get(t) \/ GetCancelled(t)
    \/ \E c \in Consumers : StopWaited(c) \/ CancelPending(c) \/ Finish(c)

Next ==
    \/ Loop
    \/ \E v \in Items : Send(v)
    \/ RequestStop
    \/ \E c \in Consumers : Receive(c) \/ Return(c) \/ GiveUp(c)

Spec == Init /\ [][Next]_vars

(* The event loop runs every ready task; nobody has to call anything.      *)
FairSpec ==
    /\ Spec
    /\ \A t \in Tasks : WF_vars(Get(t)) /\ WF_vars(GetCancelled(t))
    /\ \A c \in Consumers : WF_vars(StopWaited(c)) /\ WF_vars(CancelPending(c)) /\ WF_vars(Finish(c))

-----------------------------------------------------------------------------
(* Every variable has its type; the queue stays within its maxsize.        *)
TypeOK ==
    /\ queue \in Seq(Items) /\ (MaxSize > 0 => Len(queue) <= MaxSize)
    /\ stop \in BOOLEAN /\ event \in BOOLEAN
    /\ getters \in Seq(Tasks)
    /\ task \in [Tasks -> Task]
    /\ pc \in [Consumers -> {"idle", "wait", "cancel", "return"}]
    /\ stopTask \in [Consumers -> {"-", "running", "done"}]
    /\ result \in [Consumers -> Items \cup {Nothing, Stopped}]
    /\ givenUp \in [Consumers -> 0 .. MaxGivenUp]
    /\ sent \subseteq Items /\ received \subseteq sent

(* The get tasks of receives that were given up.                           *)
Ghosts == {t \in Tasks : t[2] < givenUp[t[1]]}

(* A get task that has its item fixes what its receive will return.        *)
Promised(c) ==
    IF result[c] # Nothing THEN result[c]
    ELSE IF task[Mine(c)].st = "got" THEN task[Mine(c)].item ELSE Nothing

Queue == INSTANCE JobQueue WITH
    result <- [c \in Consumers |-> Promised(c)],
    ghosts <- Cardinality({t \in Ghosts : task[t].st # "got"}),
    lost   <- {task[t].item : t \in {u \in Ghosts : task[u].st = "got"}}

(* Racing the two tasks is as good as one atomic queue: items come out in  *)
(* the order they went in, None is returned only when the channel has      *)
(* stopped and holds nothing, and the only items that are lost are those   *)
(* taken for a receive that was given up, at most one for each.            *)
QueueSpec == Queue!Spec

Woken == {t \in Tasks : task[t].st = "woken"}

(* No wake-up is lost: while a get that nobody cancelled is blocked, every *)
(* item on the queue has a getter of its own that was woken for it, also   *)
(* after request_stop let some receives cancel the get they had racing.    *)
NoWakeUpLost ==
    (\E t \in Tasks : task[t].st = "blocked" /\ ~task[t].cancel)
        => Len(queue) <= Cardinality(Woken)

(* A waiting receive is served once the channel has stopped, and as long   *)
(* as it holds an item.                                                    *)
Served ==
    \A c \in Consumers :
        (pc[c] = "wait" /\ (stop \/ queue # <<>>))
            ~> (pc[c] \in {"idle", "return"} \/ (~stop /\ queue = <<>>))
=============================================================================
