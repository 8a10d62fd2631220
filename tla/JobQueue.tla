------------------------------ MODULE JobQueue ------------------------------
(***************************************************************************)
(* What a channel promises its callers: one bounded FIFO queue, emptied    *)
(* before anybody is told that it has stopped.  A receive takes effect at  *)
(* one point between call and return.  A receive its caller gives up may   *)
(* still take one item, and that item is lost; nothing else is.            *)
(***************************************************************************)
EXTENDS Naturals, Sequences

CONSTANTS
    Items,        \* what is sent, each at most once
    Consumers,    \* the callers of receive
    MaxSize,      \* capacity, 0 for unbounded
    Nothing,      \* a receive has no result yet
    Stopped       \* the None that means stopped and empty

VARIABLES
    queue,      \* the accepted items, in order
    stop,       \* request_stop was called
    result,     \* the result of each consumer's receive
    received,   \* the items that reached a consumer
    ghosts,     \* receives that were given up while they waited
    lost        \* the items such receives took

vars == <<queue, stop, result, received, ghosts, lost>>

Init ==
    /\ queue = <<>>
    /\ stop = FALSE
    /\ result = [c \in Consumers |-> Nothing]
    /\ received = {}
    /\ ghosts = 0
    /\ lost = {}

Accept(v) ==
    /\ ~stop
    /\ MaxSize = 0 \/ Len(queue) < MaxSize
    /\ queue' = Append(queue, v)
    /\ UNCHANGED <<stop, result, received, ghosts, lost>>

Stop ==
    /\ stop' = TRUE
    /\ UNCHANGED <<queue, result, received, ghosts, lost>>

Take(c) ==
    /\ result[c] = Nothing
    /\ queue # <<>>
    /\ result' = [result EXCEPT ![c] = Head(queue)]
    /\ queue' = Tail(queue)
    /\ UNCHANGED <<stop, received, ghosts, lost>>

SayStopped(c) ==
    /\ result[c] = Nothing
    /\ stop
    /\ queue = <<>>
    /\ result' = [result EXCEPT ![c] = Stopped]
    /\ UNCHANGED <<queue, stop, received, ghosts, lost>>

Deliver(c) ==
    /\ result[c] # Nothing
    /\ result' = [result EXCEPT ![c] = Nothing]
    /\ received' = received \cup ({result[c]} \ {Stopped})
    /\ UNCHANGED <<queue, stop, ghosts, lost>>

GiveUp(c) ==
    /\ \/ /\ result[c] = Nothing
          /\ ghosts' = ghosts + 1
          /\ lost' = lost
       \/ /\ result[c] \in Items
          /\ ghosts' = ghosts
          /\ lost' = lost \cup {result[c]}
    /\ result' = [result EXCEPT ![c] = Nothing]
    /\ UNCHANGED <<queue, stop, received>>

Lose ==
    /\ ghosts > 0
    /\ queue # <<>>
    /\ ghosts' = ghosts - 1
    /\ lost' = lost \cup {Head(queue)}
    /\ queue' = Tail(queue)
    /\ UNCHANGED <<stop, result, received>>

Next ==
    \/ \E v \in Items : Accept(v)
    \/ Stop
    \/ \E c \in Consumers : Take(c) \/ SayStopped(c) \/ Deliver(c) \/ GiveUp(c)
    \/ Lose

Spec == Init /\ [][Next]_vars
=============================================================================
