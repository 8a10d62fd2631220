-------------------------------- MODULE SSE ---------------------------------
(***************************************************************************)
(* network/http/sse: the connection manager (connection.py), the stream of *)
(* one client (stream.py) and the callbacks of its handler (handlers.py).  *)
(* All run on one event loop: an action is what a coroutine does between   *)
(* two awaits that can suspend it.  A stream is one request; it owns one   *)
(* connection object and both are called s.                                *)
(***************************************************************************)
EXTENDS Naturals, Sequences, SequencesExt, FiniteSets

CONSTANTS
    Streams,              \* requests, each made once
    Ids,                  \* connection ids
    Ips,                  \* client addresses
    IdOf, IpOf,           \* the id and the address of each request, NoIp for none
    Greeted,              \* requests whose handler's on_connect is BaseSSEHandler's
    Generating,           \* requests whose handler generates an event
    Raising,              \* requests whose handler's on_disconnect may raise
    Events,               \* the events the application broadcasts, each once
    Unnamed,              \* events without an id, broadcast or of a callback
    MaxConnections,       \* maxTotalConnections
    MaxConnectionsPerIp,  \* maxConnectionsPerIP
    MaxQueue,             \* maxQueueSize
    LogMax,               \* EVENT_LOG_MAX
    NoStream, NoEvent, NoIp

ASSUME SSEAssumption ==
    /\ IdOf \in [Streams -> Ids] /\ IpOf \in [Streams -> Ips \cup {NoIp}]
    /\ Greeted \subseteq Streams /\ Generating \subseteq Streams /\ Raising \subseteq Streams
    /\ {MaxConnections, MaxConnectionsPerIp, MaxQueue, LogMax} \subseteq Nat \ {0}
    /\ NoStream \notin Streams /\ NoEvent \notin Events /\ NoIp \notin Ips

VARIABLES
    conns,      \* _connections: the connection registered under each id
    closed,     \* _closed of each connection
    enq,        \* what was ever put into the queue of each connection
    taken,      \* how much of it the stream has taken out
    gap,        \* an event was not put because the queue was full
    recorded,   \* every event that was ever recorded for replay
    ready,      \* the sends broadcasts have scheduled, as <<stream, event>>
    st,         \* where each stream is
    gen,        \* the task that consumes the handler's events
    since       \* history: the part of recorded a connection did not ask for

vars == <<conns, closed, enq, taken, gap, recorded, ready, st, gen, since>>

(* The events of the callbacks: BaseSSEHandler welcomes a client with an   *)
(* event whose id is the connection's.                                     *)
Welcome(s) == <<"connect", IdOf[s]>>

Generated(s) == <<"event", s>>

(* They are not among the events the application broadcasts.               *)
ASSUME CallbackAssumption ==
    \A s \in Streams : Welcome(s) \notin Events /\ Generated(s) \notin Events

Init ==
    /\ conns = [id \in Ids |-> NoStream]
    /\ closed = [s \in Streams |-> FALSE]
    /\ enq = [s \in Streams |-> <<>>]
    /\ taken = [s \in Streams |-> 0]
    /\ gap = [s \in Streams |-> FALSE]
    /\ recorded = <<>>
    /\ ready = <<>>
    /\ st = [s \in Streams |-> "new"]
    /\ gen = [s \in Streams |-> "none"]
    /\ since = [s \in Streams |-> 0]

Registered == {conns[id] : id \in Ids} \ {NoStream}

-----------------------------------------------------------------------------
(* The deque keeps the last LogMax events.                                 *)
Log == SubSeq(recorded, IF Len(recorded) > LogMax THEN Len(recorded) - LogMax + 1 ELSE 1,
              Len(recorded))

(* events_after: what follows the first event of that id, nothing if the   *)
(* log does not have it.                                                   *)
EventsAfter(e) ==
    LET i == SelectInSeq(Log, LAMBDA x : x = e)
    IN  IF i = 0 THEN <<>> ELSE SubSeq(Log, i + 1, Len(Log))

(* The events connect puts in: it stops at the first the queue refuses.    *)
Replayed(e) ==
    LET es == EventsAfter(e)
    IN  IF Len(es) > MaxQueue THEN SubSeq(es, 1, MaxQueue) ELSE es

Fits(s) == Len(enq[s]) - taken[s] < MaxQueue

(* Mutant: send does not look at _closed.                                  *)
Put_Closed(s, e) ==
    IF Fits(s)
    THEN enq' = [enq EXCEPT ![s] = Append(@, e)] /\ gap' = gap
    ELSE enq' = enq /\ gap' = [gap EXCEPT ![s] = TRUE]

(* SSEConnection.send: a closed connection refuses, a full queue drops.    *)
Put(s, e) ==
    IF closed[s] THEN UNCHANGED <<enq, gap>>
    ELSE IF Fits(s)
    THEN enq' = [enq EXCEPT ![s] = Append(@, e)] /\ gap' = gap
    ELSE enq' = enq /\ gap' = [gap EXCEPT ![s] = TRUE]

Record(e) == recorded' = IF e \in Unnamed THEN recorded ELSE Append(recorded, e)

(* ... and what was put is recorded for replay, if it has an id.           *)
PutAndRecord(s, e) ==
    /\ Put(s, e)
    /\ IF ~closed[s] /\ Fits(s) THEN Record(e) ELSE recorded' = recorded

-----------------------------------------------------------------------------
(* A request whose address is not known counts only towards the total.     *)
AtCap(s) ==
    \/ Cardinality(Registered) >= MaxConnections
    \/ /\ IpOf[s] # NoIp
       /\ Cardinality({r \in Registered : IpOf[r] = IpOf[s]}) >= MaxConnectionsPerIp

Refuse(s) ==
    /\ st[s] = "new"
    /\ AtCap(s)
    /\ st' = [st EXCEPT ![s] = "ended"]
    /\ closed' = [closed EXCEPT ![s] = TRUE]
    /\ UNCHANGED <<conns, enq, taken, gap, recorded, ready, gen, since>>

(* Mutant: the connection that is replaced stays open.                     *)
CloseOld_Not(s) == closed

(* The connection that is replaced is closed; its stream goes on.          *)
CloseOld(s) == [r \in Streams |-> closed[r] \/ r = conns[IdOf[s]]]

(* connect, with the Last-Event-ID last.  The caps are tested before the   *)
(* entry of the same id is looked up.                                      *)
Connect(s, last) ==
    /\ st[s] = "new"
    /\ ~AtCap(s)
    /\ closed' = CloseOld(s)
    /\ conns' = [conns EXCEPT ![IdOf[s]] = s]
    /\ enq' = [enq EXCEPT ![s] = Replayed(last)]
    /\ gap' = [gap EXCEPT ![s] = Len(EventsAfter(last)) > MaxQueue]
    /\ since' = [since EXCEPT ![s] = Len(recorded) - Len(EventsAfter(last))]
    /\ st' = [st EXCEPT ![s] = "connected"]
    /\ UNCHANGED <<taken, recorded, ready, gen>>

(* on_connect, which may raise, and the start of the generation task.      *)
OnConnect(s) ==
    /\ st[s] = "connected"
    /\ IF s \in Greeted THEN PutAndRecord(s, Welcome(s)) ELSE UNCHANGED <<enq, gap, recorded>>
    /\ st' = [st EXCEPT ![s] = "serving"]
    /\ gen' = [gen EXCEPT ![s] = IF s \in Generating THEN "running" ELSE "done"]
    /\ UNCHANGED <<conns, closed, taken, ready, since>>

OnConnectRaises(s) ==
    /\ st[s] = "connected"
    /\ st' = [st EXCEPT ![s] = "closing"]
    /\ UNCHANGED <<conns, closed, enq, taken, gap, recorded, ready, gen, since>>

Generate(s) ==
    /\ gen[s] = "running"
    /\ PutAndRecord(s, Generated(s))
    /\ gen' = [gen EXCEPT ![s] = "done"]
    /\ UNCHANGED <<conns, closed, taken, ready, st, since>>

(* The stream takes an event and yields it.  A timeout only yields a       *)
(* heartbeat.                                                              *)
Yield(s) ==
    /\ st[s] = "serving"
    /\ taken[s] < Len(enq[s])
    /\ taken' = [taken EXCEPT ![s] = @ + 1]
    /\ UNCHANGED <<conns, closed, enq, gap, recorded, ready, st, gen, since>>

(* The loop ends, at a disconnect or an error, and cancels the task.       *)
LoopEnds(s) ==
    /\ st[s] = "serving"
    /\ st' = [st EXCEPT ![s] = "closing"]
    /\ gen' = [gen EXCEPT ![s] = "done"]
    /\ UNCHANGED <<conns, closed, enq, taken, gap, recorded, ready, since>>

(* The server cancels the stream, or closes its generator, in the loop:    *)
(* straight to the finally clause, and the task is left running.           *)
Aborted(s) ==
    /\ st[s] = "serving"
    /\ st' = [st EXCEPT ![s] = "closing"]
    /\ UNCHANGED <<conns, closed, enq, taken, gap, recorded, ready, gen, since>>

(* SSEConnectionManager.disconnect goes by the id: it closes and removes   *)
(* whatever is registered under it.                                        *)
Disconnect(id) ==
    /\ closed' = [s \in Streams |-> closed[s] \/ s = conns[id]]
    /\ conns' = [conns EXCEPT ![id] = NoStream]

Forget(s) ==
    /\ enq' = [enq EXCEPT ![s] = <<>>]
    /\ taken' = [taken EXCEPT ![s] = 0]
    /\ gap' = [gap EXCEPT ![s] = FALSE]
    /\ since' = [since EXCEPT ![s] = 0]

(* Mutant: the stream closes its connection and leaves it registered.      *)
Cleanup_ClosesOnly(s) ==
    /\ st[s] = "closing"
    /\ closed' = [closed EXCEPT ![s] = TRUE]
    /\ st' = [st EXCEPT ![s] = "ended"]
    /\ Forget(s)
    /\ UNCHANGED <<conns, recorded, ready, gen>>

(* The finally clause: on_disconnect returns, then disconnect.  The queue  *)
(* goes with the stream.                                                   *)
Cleanup(s) ==
    /\ st[s] = "closing"
    /\ Disconnect(IdOf[s])
    /\ st' = [st EXCEPT ![s] = "ended"]
    /\ Forget(s)
    /\ UNCHANGED <<recorded, ready, gen>>

(* on_disconnect raises, or is cancelled where it suspends: the stream is  *)
(* over and disconnect is never reached.                                   *)
OnDisconnectRaises(s) ==
    /\ st[s] = "closing"
    /\ s \in Raising
    /\ st' = [st EXCEPT ![s] = "raised"]
    /\ UNCHANGED <<conns, closed, enq, taken, gap, recorded, ready, gen, since>>

(* The application disconnects an id, or a handler the connection it       *)
(* generates events for.                                                   *)
Kick(id) ==
    /\ conns[id] # NoStream
    /\ Disconnect(id)
    /\ UNCHANGED <<enq, taken, gap, recorded, ready, st, gen, since>>

Close(s) ==
    /\ gen[s] = "running"
    /\ closed' = [closed EXCEPT ![s] = TRUE]
    /\ UNCHANGED <<conns, enq, taken, gap, recorded, ready, st, gen, since>>

-----------------------------------------------------------------------------
Active == {s \in Registered : ~closed[s]}

(* e has been broadcast.                                                   *)
Sent(e) ==
    \/ \E i \in DOMAIN recorded : recorded[i] = e
    \/ \E i \in DOMAIN ready : ready[i][2] = e
    \/ \E s \in Streams : \E i \in DOMAIN enq[s] : enq[s][i] = e

(* Mutant: broadcast forgets to record the event for replay.               *)
Broadcast_NoRecord(e) ==
    /\ ~Sent(e)
    /\ recorded' = recorded
    /\ ready' = ready \o SetToSeq({<<s, e>> : s \in Active})
    /\ UNCHANGED <<conns, closed, enq, taken, gap, st, gen, since>>

(* broadcast: the open connections are looked up and the event recorded    *)
(* before gather schedules one send for each.                              *)
Broadcast(e) ==
    /\ ~Sent(e)
    /\ Record(e)
    /\ ready' = ready \o SetToSeq({<<s, e>> : s \in Active})
    /\ UNCHANGED <<conns, closed, enq, taken, gap, st, gen, since>>

(* Mutant: the sends of a broadcast record the event too.                  *)
BroadcastSend_Records ==
    /\ ready # <<>>
    /\ ready' = Tail(ready)
    /\ PutAndRecord(Head(ready)[1], Head(ready)[2])
    /\ UNCHANGED <<conns, closed, taken, st, gen, since>>

(* The loop runs the scheduled sends in the order they were scheduled.     *)
BroadcastSend ==
    /\ ready # <<>>
    /\ ready' = Tail(ready)
    /\ Put(Head(ready)[1], Head(ready)[2])
    /\ UNCHANGED <<conns, closed, taken, recorded, st, gen, since>>

-----------------------------------------------------------------------------
(* The id line of an event as it is serialized, none if it has no id.      *)
WireId(e) == IF e \in Unnamed THEN NoEvent ELSE e

(* A client resumes after the last id it was sent, by this process and on  *)
(* any stream, or it has none.                                             *)
LastEventIds == {WireId(e) : e \in ToSet(recorded)} \cup {NoEvent}

StreamStep(s) ==
    \/ Refuse(s) \/ (\E last \in LastEventIds : Connect(s, last))
    \/ OnConnect(s) \/ OnConnectRaises(s) \/ Generate(s) \/ Yield(s)
    \/ LoopEnds(s) \/ Aborted(s) \/ Cleanup(s) \/ OnDisconnectRaises(s) \/ Close(s)

Next ==
    \/ \E s \in Streams : StreamStep(s)
    \/ \E id \in Ids : Kick(id)
    \/ \E e \in Events : Broadcast(e)
    \/ BroadcastSend

Spec == Init /\ [][Next]_vars

-----------------------------------------------------------------------------
(* A connection whose stream's on_disconnect raised is still open.         *)
Open(s) == st[s] \in {"connected", "serving", "closing", "raised"} /\ ~closed[s]

(* The caps bound the open connections and not just the registry: one that *)
(* was replaced, kicked or cleaned up for another no longer counts because *)
(* it can no longer receive.  One that on_disconnect left behind counts.   *)
CapsHold ==
    LET open == {s \in Streams : Open(s)}
    IN  /\ Cardinality(open) <= MaxConnections
        /\ \A ip \in Ips : Cardinality({s \in open : IpOf[s] = ip}) <= MaxConnectionsPerIp

(* No gap between replay and live events: an open connection that never    *)
(* met a full queue has, or is about to be sent, every broadcast event     *)
(* recorded since the one it resumed from.                                 *)
Seamless ==
    \A s \in Streams : Open(s) /\ ~gap[s] =>
        \A i \in since[s] + 1 .. Len(recorded) :
            recorded[i] \in Events =>
                \/ recorded[i] \in ToSet(enq[s])
                \/ <<s, recorded[i]>> \in ToSet(ready)

(* No client gets a broadcast event twice on one stream, replayed or live, *)
(* and named ones arrive in the order they were recorded.                  *)
InOrderOnce ==
    \A s \in Streams : \A i, j \in DOMAIN enq[s] :
        i < j /\ {enq[s][i], enq[s][j]} \subseteq Events \ Unnamed =>
            \E m, n \in DOMAIN recorded :
                m < n /\ recorded[m] = enq[s][i] /\ recorded[n] = enq[s][j]
                      /\ enq[s][i] # enq[s][j]

(* Nothing is put into a connection once it is closed, although sends of a *)
(* broadcast may still be scheduled for it and an aborted stream leaves    *)
(* its generation task running.                                            *)
ClosedIsQuiet == [][\A s \in Streams : closed[s] => enq'[s] \in {enq[s], <<>>}]_vars

(* A stream whose finally clause ran to its end leaves nothing behind: its *)
(* connection is closed and no longer registered, whoever removed it.  One *)
(* whose on_disconnect raised leaves an open connection only where a kick  *)
(* or a replacement of its id still finds it.                              *)
EndedIsGone ==
    \A s \in Streams :
        /\ st[s] = "ended" => closed[s] /\ s \notin Registered
        /\ st[s] = "raised" => closed[s] \/ conns[IdOf[s]] = s
=============================================================================
