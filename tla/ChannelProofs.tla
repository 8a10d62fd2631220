--------------------------- MODULE ChannelProofs ----------------------------
(***************************************************************************)
(* Theorems about Channel: for any number of consumers and items the race  *)
(* of two tasks in receive implements the one queue of JobQueue, and loses *)
(* no wake-up.                                                             *)
(***************************************************************************)
EXTENDS Channel, SequenceTheorems, FiniteSetTheorems, NaturalsInduction,
        WellFoundedInduction, TLAPS

Numbers == 0 .. MaxGivenUp

(* Where a receive is, and what its task and its result are then.          *)
Paced(c) ==
    /\ pc[c] = "idle" => task[Mine(c)].st = "none" /\ result[c] = Nothing
    /\ pc[c] = "return" => task[Mine(c)].st = "none" /\ result[c] # Nothing
    /\ pc[c] = "wait" => /\ task[Mine(c)].st \in {"new", "blocked", "woken", "got"}
                         /\ task[Mine(c)].cancel = FALSE /\ result[c] = Nothing
    /\ pc[c] = "cancel" => /\ task[Mine(c)].st # "none" /\ result[c] = Nothing
                           /\ task[Mine(c)].cancel = TRUE => stop = TRUE
    /\ \A n \in Numbers : n > givenUp[c] => task[<<c, n>>].st = "none"
    /\ stopTask[c] = "done" => stop = TRUE

(* A task that was cancelled had been told; one that has an item has one   *)
(* that was sent.                                                          *)
Sound(t) ==
    /\ task[t].st = "cancelled" => task[t].cancel = TRUE
    /\ task[t].st = "got" => task[t].item \in sent

Distinct(gs) == \A i, j \in 1 .. Len(gs) : gs[i] = gs[j] => i = j

(* The line of getters: every task in it is blocked and stands there once. *)
Line(gs) ==
    /\ \A i \in 1 .. Len(gs) : task[gs[i]].st = "blocked"
    /\ Distinct(gs)

Unserved == {t \in Ghosts : task[t].st # "got"}

Inv ==
    /\ TypeOK
    /\ \A c \in Consumers : Paced(c)
    /\ \A t \in Tasks : Sound(t)
    /\ Line(getters)
    /\ \A i \in 1 .. Len(queue) : queue[i] \in sent
    /\ \A c \in Consumers : result[c] \in sent \cup {Nothing, Stopped}
    /\ event = TRUE => stop = TRUE
    /\ IsFiniteSet(Unserved)

-----------------------------------------------------------------------------
LEMMA Least ==
    ASSUME NEW I \in SUBSET Nat, I # {}
    PROVE  Min(I) \in I /\ \A j \in I : Min(I) <= j
<1> DEFINE LT == {p \in Nat \X Nat : p[1] < p[2]}
<1>1. IsWellFoundedOn(LT, Nat)
  BY NatLessThanWellFounded DEF OpToRel
<1>2. \E i \in I : \A j \in I : ~(<<j, i>> \in LT)
  <2> HIDE DEF LT
  <2> QED
    BY <1>1, WFMin
<1>3. \A i, j \in Nat : j < i => <<j, i>> \in LT
  OBVIOUS
<1> HIDE DEF LT
<1>4. PICK i \in I : \A j \in I : ~(<<j, i>> \in LT)
  BY <1>2
<1>5. \A j \in I : i <= j
  <2> SUFFICES ASSUME NEW j \in I PROVE i <= j
    OBVIOUS
  <2>1. ~(j < i)
    BY <1>3, <1>4
  <2> QED
    BY <2>1
<1> QED
  BY <1>4, <1>5 DEF Min

FirstAwake(gs, ts) == SelectInSeq(gs, LAMBDA t : ~ts[t].cancel)

(* The getter that a wake-up goes to is the first that is awake.           *)
LEMMA FirstAwakeDoes ==
    ASSUME NEW gs \in Seq(Tasks), NEW ts
    PROVE  /\ FirstAwake(gs, ts) \in 0 .. Len(gs)
           /\ FirstAwake(gs, ts) # 0 => ~ts[gs[FirstAwake(gs, ts)]].cancel
           /\ \A i \in 1 .. Len(gs) :
                 FirstAwake(gs, ts) = 0 \/ i < FirstAwake(gs, ts) => ts[gs[i]].cancel
<1> DEFINE I == {i \in 1 .. Len(gs) : ~ts[gs[i]].cancel}
<1>1. Len(gs) \in Nat
  BY LenProperties
<1>2. CASE I = {}
  BY <1>1, <1>2 DEF FirstAwake, SelectInSeq
<1>3. CASE I # {}
  <2>1. I \in SUBSET Nat
    BY <1>1
  <2>2. Min(I) \in I /\ \A i \in I : Min(I) <= i
    <3> HIDE DEF I
    <3> QED
      BY <1>3, <2>1, Least
  <2>3. FirstAwake(gs, ts) = Min(I)
    BY <1>3 DEF FirstAwake, SelectInSeq
  <2>4. PICK m \in 1 .. Len(gs) : m = FirstAwake(gs, ts) /\ ~ts[gs[m]].cancel
    BY <2>2, <2>3
  <2>5. ASSUME NEW i \in 1 .. Len(gs), i < m PROVE ts[gs[i]].cancel
    <3>1. ~(m <= i)
      BY <1>1, <2>5
    <3>2. i \notin I
      BY <2>2, <2>3, <2>4, <3>1
    <3> QED
      BY <3>2
  <2> QED
    BY <1>1, <2>4, <2>5
<1> QED
  BY <1>2, <1>3

FirstAt(gs, t) == SelectInSeq(gs, LAMBDA v : v = t)

LEMMA FirstAtDoes ==
    ASSUME NEW gs \in Seq(Tasks), NEW t, \E i \in 1 .. Len(gs) : gs[i] = t
    PROVE  FirstAt(gs, t) \in 1 .. Len(gs) /\ gs[FirstAt(gs, t)] = t
<1> DEFINE I == {i \in 1 .. Len(gs) : gs[i] = t}
<1>1. Len(gs) \in Nat
  BY LenProperties
<1>2. I # {} /\ I \in SUBSET Nat
  BY <1>1
<1>3. Min(I) \in I
  <2> HIDE DEF I
  <2> QED
    BY <1>2, Least
<1>4. FirstAt(gs, t) = Min(I)
  BY <1>2 DEF FirstAt, SelectInSeq
<1> QED
  BY <1>3, <1>4

LEMMA SubSeqKeeps ==
    ASSUME NEW gs \in Seq(Tasks), NEW m \in 1 .. Len(gs) + 1
    PROVE  /\ SubSeq(gs, m, Len(gs)) \in Seq(Tasks)
           /\ Len(SubSeq(gs, m, Len(gs))) = Len(gs) - m + 1
           /\ \A i \in 1 .. Len(gs) - m + 1 : SubSeq(gs, m, Len(gs))[i] = gs[m + i - 1]
<1>1. Len(gs) \in Nat /\ \A i \in 1 .. Len(gs) : gs[i] \in Tasks
  BY LenProperties, ElementOfSeq
<1>2. \A i \in m .. Len(gs) : gs[i] \in Tasks
  BY <1>1
<1>3. m \in Int /\ Len(gs) \in Int
  BY <1>1
<1>4. /\ SubSeq(gs, m, Len(gs)) \in Seq(Tasks)
      /\ Len(SubSeq(gs, m, Len(gs))) = IF m <= Len(gs) THEN Len(gs) - m + 1 ELSE 0
      /\ \A i \in 1 .. Len(gs) - m + 1 : SubSeq(gs, m, Len(gs))[i] = gs[m + i - 1]
  BY <1>2, <1>3, SubSeqProperties
<1> QED
  BY <1>1, <1>4

(* What is left of a line of distinct getters has distinct getters of that *)
(* line, and the one that left is not among them.                          *)
LEMMA RemoveFirstDoes ==
    ASSUME NEW gs \in Seq(Tasks), NEW t \in Tasks, Distinct(gs)
    PROVE  /\ RemoveFirst(gs, t) \in Seq(Tasks)
           /\ Distinct(RemoveFirst(gs, t))
           /\ \A i \in 1 .. Len(RemoveFirst(gs, t)) :
                 /\ RemoveFirst(gs, t)[i] # t
                 /\ \E j \in 1 .. Len(gs) : RemoveFirst(gs, t)[i] = gs[j]
           /\ \A j \in 1 .. Len(gs) : gs[j] # t =>
                 \E i \in 1 .. Len(RemoveFirst(gs, t)) : RemoveFirst(gs, t)[i] = gs[j]
<1>1. Len(gs) \in Nat /\ \A i \in 1 .. Len(gs) : gs[i] \in Tasks
  BY LenProperties, ElementOfSeq
<1>2. CASE ~\E i \in 1 .. Len(gs) : gs[i] = t
  <2>1. RemoveFirst(gs, t) = gs
    BY <1>2 DEF RemoveFirst
  <2> QED
    BY <1>2, <2>1
<1>3. CASE \E i \in 1 .. Len(gs) : gs[i] = t
  <2> DEFINE k == FirstAt(gs, t)
             a == SubSeq(gs, 1, k - 1)
             b == SubSeq(gs, k + 1, Len(gs))
  <2>1. k \in 1 .. Len(gs) /\ gs[k] = t
    BY <1>3, FirstAtDoes
  <2>2. RemoveFirst(gs, t) = a \o b
    BY <1>3 DEF RemoveFirst, RemoveAt, FirstAt
  <2> HIDE DEF k
  <2>3. a \in Seq(Tasks) /\ Len(a) = k - 1 /\ \A i \in 1 .. k - 1 : a[i] = gs[i]
    <3>1. \A i \in 1 .. k - 1 : gs[i] \in Tasks
      BY <1>1, <2>1
    <3>2. 1 \in Int /\ k - 1 \in Int
      BY <1>1, <2>1
    <3>3. /\ a \in Seq(Tasks)
          /\ Len(a) = IF 1 <= k - 1 THEN k - 1 - 1 + 1 ELSE 0
          /\ \A i \in 1 .. k - 1 - 1 + 1 : a[i] = gs[1 + i - 1]
      BY <3>1, <3>2, SubSeqProperties
    <3> HIDE DEF a
    <3> QED
      BY <1>1, <2>1, <3>3
  <2>4. /\ b \in Seq(Tasks) /\ Len(b) = Len(gs) - k
        /\ \A i \in 1 .. Len(gs) - k : b[i] = gs[k + i]
    <3>1. k + 1 \in 1 .. Len(gs) + 1
      BY <1>1, <2>1
    <3>2. /\ b \in Seq(Tasks)
          /\ Len(b) = Len(gs) - (k + 1) + 1
          /\ \A i \in 1 .. Len(gs) - (k + 1) + 1 : b[i] = gs[k + 1 + i - 1]
      BY <3>1, SubSeqKeeps
    <3> HIDE DEF b
    <3> QED
      BY <1>1, <2>1, <3>2
  <2> HIDE DEF a, b
  <2> DEFINE h == a \o b
  <2>5. /\ h \in Seq(Tasks) /\ Len(h) = Len(gs) - 1
        /\ \A i \in 1 .. Len(gs) - 1 : h[i] = gs[IF i < k THEN i ELSE i + 1]
    <3>1. /\ h \in Seq(Tasks) /\ Len(h) = Len(a) + Len(b)
          /\ \A i \in 1 .. Len(a) + Len(b) : h[i] = IF i <= Len(a) THEN a[i] ELSE b[i - Len(a)]
      BY <2>3, <2>4, ConcatProperties
    <3> HIDE DEF h
    <3>2. Len(h) = Len(gs) - 1
      BY <1>1, <2>1, <2>3, <2>4, <3>1
    <3>3. ASSUME NEW i \in 1 .. Len(gs) - 1 PROVE h[i] = gs[IF i < k THEN i ELSE i + 1]
      <4>1. CASE i < k
        <5>1. i \in 1 .. k - 1 /\ i <= Len(a) /\ i \in 1 .. Len(a) + Len(b)
          BY <1>1, <2>1, <2>3, <2>4, <4>1
        <5>2. h[i] = a[i] /\ a[i] = gs[i]
          BY <2>3, <3>1, <5>1
        <5> QED
          BY <4>1, <5>2
      <4>2. CASE ~(i < k)
        <5>1. i - (k - 1) \in 1 .. Len(gs) - k /\ k + (i - (k - 1)) = i + 1
          BY <1>1, <2>1, <4>2
        <5>2. h[i] = b[i - (k - 1)]
          BY <1>1, <2>1, <2>3, <2>4, <3>1, <4>2
        <5>3. b[i - (k - 1)] = gs[i + 1]
          BY <2>4, <5>1
        <5> QED
          BY <4>2, <5>2, <5>3
      <4> QED
        BY <4>1, <4>2
    <3> QED
      BY <3>1, <3>2, <3>3
  <2> HIDE DEF h
  <2> DEFINE f(i) == IF i < k THEN i ELSE i + 1
  <2>6. \A i \in 1 .. Len(gs) - 1 : f(i) \in 1 .. Len(gs) /\ f(i) # k /\ h[i] = gs[f(i)]
    BY <1>1, <2>1, <2>5
  <2>7. \A i, j \in 1 .. Len(gs) - 1 : f(i) = f(j) => i = j
    BY <1>1, <2>1
  <2>8. ASSUME NEW j \in 1 .. Len(gs), gs[j] # t
        PROVE  \E i \in 1 .. Len(gs) - 1 : f(i) = j
    <3>1. CASE j < k
      BY <1>1, <2>1, <3>1
    <3>2. CASE ~(j < k)
      <4>1. j # k
        BY <2>1, <2>8
      <4>2. j - 1 \in 1 .. Len(gs) - 1 /\ f(j - 1) = j
        BY <1>1, <2>1, <3>2, <4>1
      <4> QED
        BY <4>2
    <3> QED
      BY <3>1, <3>2
  <2> HIDE DEF f
  <2>9. \A j \in 1 .. Len(gs) : gs[j] # t => \E i \in 1 .. Len(gs) - 1 : h[i] = gs[j]
    BY <2>6, <2>8
  <2>10. \A i \in 1 .. Len(gs) - 1 : h[i] # t
    BY <2>1, <2>6 DEF Distinct
  <2>11. \A i, j \in 1 .. Len(gs) - 1 : h[i] = h[j] => i = j
    BY <2>6, <2>7 DEF Distinct
  <2>12. RemoveFirst(gs, t) = h
    BY <2>2 DEF h
  <2> QED
    BY <2>5, <2>6, <2>9, <2>10, <2>11, <2>12 DEF Distinct
<1> QED
  BY <1>2, <1>3

-----------------------------------------------------------------------------
States == {"none", "new", "blocked", "woken", "got", "cancelled"}

LEMMA SetSt ==
    ASSUME NEW ts \in [Tasks -> Task], NEW t \in Tasks, NEW s \in States,
           NEW us, us = [ts EXCEPT ![t].st = s]
    PROVE  /\ us \in [Tasks -> Task]
           /\ us[t].st = s /\ us[t].cancel = ts[t].cancel /\ us[t].item = ts[t].item
           /\ \A u \in Tasks : u # t => us[u] = ts[u]
<1>1. ts[t] \in Task
  OBVIOUS
<1>2. /\ [ts[t] EXCEPT !.st = s] \in Task
      /\ [ts[t] EXCEPT !.st = s].st = s
      /\ [ts[t] EXCEPT !.st = s].cancel = ts[t].cancel
      /\ [ts[t] EXCEPT !.st = s].item = ts[t].item
  BY <1>1 DEF Task, States
<1>3. us[t] = [ts[t] EXCEPT !.st = s] /\ \A u \in Tasks : u # t => us[u] = ts[u]
  OBVIOUS
<1>4. us \in [Tasks -> Task]
  BY <1>2
<1> QED
  BY <1>2, <1>3, <1>4

LEMMA SetTask ==
    ASSUME NEW ts \in [Tasks -> Task], NEW t \in Tasks, NEW r \in Task,
           NEW us, us = [ts EXCEPT ![t] = r]
    PROVE  /\ us \in [Tasks -> Task]
           /\ us[t] = r
           /\ \A u \in Tasks : u # t => us[u] = ts[u]
  OBVIOUS

(* A getter may be woken; nothing else about its task changes.             *)
Stirred(ts, t) ==
    /\ task'[t].cancel = ts[t].cancel /\ task'[t].item = ts[t].item
    /\ \/ task'[t].st = ts[t].st
       \/ ts[t].st = "blocked" /\ task'[t].st = "woken"

Woke(ts) ==
    /\ getters' \in Seq(Tasks)
    /\ task' \in [Tasks -> Task]
    /\ \A i \in 1 .. Len(getters') : task'[getters'[i]].st = "blocked"
    /\ Distinct(getters')
    /\ \A t \in Tasks : Stirred(ts, t)

LEMMA WakeNextDoes ==
    ASSUME NEW gs \in Seq(Tasks), NEW ts \in [Tasks -> Task],
           \A i \in 1 .. Len(gs) : ts[gs[i]].st = "blocked",
           Distinct(gs), WakeNext(gs, ts)
    PROVE  Woke(ts)
<1> DEFINE k == FirstAwake(gs, ts)
<1>1. Len(gs) \in Nat /\ \A i \in 1 .. Len(gs) : gs[i] \in Tasks
  BY LenProperties, ElementOfSeq
<1>2. k \in 0 .. Len(gs)
  BY FirstAwakeDoes
<1>3. IF k = 0
      THEN getters' = <<>> /\ task' = ts
      ELSE /\ getters' = SubSeq(gs, k + 1, Len(gs))
           /\ task' = [ts EXCEPT ![gs[k]].st = "woken"]
  BY DEF WakeNext, FirstAwake
<1> HIDE DEF k
<1>4. CASE k = 0
  <2>1. getters' = <<>> /\ task' = ts
    BY <1>3, <1>4
  <2>2. getters' \in Seq(Tasks) /\ Len(getters') = 0
    BY <2>1
  <2>3. \A t \in Tasks : Stirred(ts, t)
    BY <2>1 DEF Stirred
  <2> QED
    BY <2>1, <2>2, <2>3 DEF Woke, Distinct
<1>5. CASE k # 0
  <2>1. k \in 1 .. Len(gs) /\ k + 1 \in 1 .. Len(gs) + 1
    BY <1>1, <1>2, <1>5
  <2>2. PICK t \in Tasks : t = gs[k]
    BY <1>1, <2>1
  <2>3. ts[t].st = "blocked"
    BY <2>1, <2>2
  <2>4. /\ task' \in [Tasks -> Task]
        /\ task'[t].st = "woken" /\ task'[t].cancel = ts[t].cancel
        /\ task'[t].item = ts[t].item
        /\ \A u \in Tasks : u # t => task'[u] = ts[u]
    <3>1. task' = [ts EXCEPT ![t].st = "woken"]
      BY <1>3, <1>5, <2>2
    <3>2. "woken" \in States
      BY DEF States
    <3> QED
      BY <3>1, <3>2, SetSt
  <2>5. /\ getters' \in Seq(Tasks)
        /\ Len(getters') = Len(gs) - (k + 1) + 1
        /\ \A i \in 1 .. Len(gs) - (k + 1) + 1 : getters'[i] = gs[k + 1 + i - 1]
    <3>1. getters' = SubSeq(gs, k + 1, Len(gs))
      BY <1>3, <1>5
    <3>2. /\ SubSeq(gs, k + 1, Len(gs)) \in Seq(Tasks)
          /\ Len(SubSeq(gs, k + 1, Len(gs))) = Len(gs) - (k + 1) + 1
          /\ \A i \in 1 .. Len(gs) - (k + 1) + 1 :
                SubSeq(gs, k + 1, Len(gs))[i] = gs[k + 1 + i - 1]
      BY <2>1, SubSeqKeeps
    <3> QED
      BY <3>1, <3>2
  <2>6. Len(getters') = Len(gs) - k
    BY <1>1, <2>1, <2>5
  <2>7. \A i \in 1 .. Len(getters') : k + i \in 1 .. Len(gs) /\ k + i # k /\ getters'[i] = gs[k + i]
    BY <1>1, <2>1, <2>5, <2>6
  <2>8. \A i \in 1 .. Len(getters') : task'[getters'[i]].st = "blocked"
    <3> SUFFICES ASSUME NEW i \in 1 .. Len(getters') PROVE task'[getters'[i]].st = "blocked"
      OBVIOUS
    <3>1. k + i \in 1 .. Len(gs) /\ k + i # k /\ getters'[i] = gs[k + i]
      BY <2>7
    <3>2. gs[k + i] \in Tasks /\ gs[k + i] # t /\ ts[gs[k + i]].st = "blocked"
      BY <1>1, <2>1, <2>2, <3>1 DEF Distinct
    <3> QED
      BY <2>4, <3>1, <3>2
  <2>9. Distinct(getters')
    <3> SUFFICES ASSUME NEW i \in 1 .. Len(getters'), NEW j \in 1 .. Len(getters'),
                        getters'[i] = getters'[j]
                 PROVE  i = j
      BY DEF Distinct
    <3>1. k + i = k + j
      BY <2>7 DEF Distinct
    <3>2. i \in Int /\ j \in Int /\ k \in Int
      BY <2>1
    <3> QED
      BY <3>1, <3>2
  <2>10. \A u \in Tasks : Stirred(ts, u)
    BY <2>3, <2>4 DEF Stirred
  <2> QED
    BY <2>4, <2>5, <2>8, <2>9, <2>10 DEF Woke
<1> QED
  BY <1>4, <1>5

-----------------------------------------------------------------------------
LEMMA Tasking ==
    ASSUME TypeOK
    PROVE  /\ \A c \in Consumers : Mine(c) \in Tasks /\ Mine(c) \notin Ghosts
           /\ \A c \in Consumers : givenUp[c] \in Numbers
           /\ \A c \in Consumers, n \in Numbers : <<c, n>> \in Tasks
           /\ \A t \in Tasks : \E c \in Consumers, n \in Numbers : t = <<c, n>>
           /\ \A c, d \in Consumers, n \in Numbers : <<c, n>> = Mine(d) => c = d /\ n = givenUp[d]
           /\ \A c \in Consumers, n \in Numbers : <<c, n>> \in Ghosts <=> n < givenUp[c]
           /\ \A n \in Numbers : n \in Int
<1>1. \A c \in Consumers : givenUp[c] \in Numbers
  BY DEF TypeOK, Numbers
<1>2. \A n \in Numbers : n \in Int
  BY ChannelAssumption DEF Numbers
<1> QED
  BY <1>1, <1>2 DEF Mine, Tasks, Ghosts, Numbers

Waiting == {"new", "blocked", "woken"}

(* What the loop may do to a task: it blocks, is woken, takes an item that *)
(* was sent, or ends cancelled once it was told.                           *)
Drift(t) ==
    /\ task'[t].cancel = task[t].cancel
    /\ \/ task'[t].st = task[t].st /\ task'[t].item = task[t].item
       \/ task[t].st \in Waiting /\ task'[t].st \in {"blocked", "woken"}
       \/ task[t].st \in Waiting /\ task'[t].st = "got" /\ task'[t].item \in sent
       \/ task[t].st \in Waiting /\ task[t].cancel = TRUE /\ task'[t].st = "cancelled"

(* A step of somebody else, as a consumer's receive sees it.               *)
Steady(c) ==
    /\ pc'[c] = pc[c] /\ result'[c] = result[c] /\ givenUp'[c] = givenUp[c]
    /\ stop = TRUE => stop' = TRUE
    /\ stopTask'[c] = "done" => stop' = TRUE
    /\ \A n \in Numbers : Drift(<<c, n>>)

LEMMA PacedKept ==
    ASSUME TypeOK, NEW c \in Consumers, Paced(c), Steady(c)
    PROVE  Paced(c)'
<1>1. Mine(c)' = Mine(c)
  BY DEF Mine, Steady
<1>2. Drift(Mine(c))
  BY Tasking DEF Steady, Mine
<1> DEFINE m == Mine(c)
<1>3. /\ pc[c] = "idle" => task[m].st = "none" /\ result[c] = Nothing
      /\ pc[c] = "return" => task[m].st = "none" /\ result[c] # Nothing
      /\ pc[c] = "wait" => /\ task[m].st \in {"new", "blocked", "woken", "got"}
                           /\ task[m].cancel = FALSE /\ result[c] = Nothing
      /\ pc[c] = "cancel" => /\ task[m].st # "none" /\ result[c] = Nothing
                             /\ task[m].cancel = TRUE => stop = TRUE
  BY DEF Paced
<1>4. Drift(m)
  BY <1>2
<1> HIDE DEF m
<1>5. /\ pc'[c] = "idle" => task'[m].st = "none" /\ result'[c] = Nothing
      /\ pc'[c] = "return" => task'[m].st = "none" /\ result'[c] # Nothing
      /\ pc'[c] = "wait" => /\ task'[m].st \in {"new", "blocked", "woken", "got"}
                            /\ task'[m].cancel = FALSE /\ result'[c] = Nothing
      /\ pc'[c] = "cancel" => /\ task'[m].st # "none" /\ result'[c] = Nothing
                              /\ task'[m].cancel = TRUE => stop' = TRUE
  BY <1>3, <1>4 DEF Drift, Waiting, Steady
<1>6. \A n \in Numbers : n > givenUp'[c] => task'[<<c, n>>].st = "none"
  BY DEF Paced, Steady, Drift, Waiting
<1>7. Mine(c)' = m
  BY <1>1 DEF m
<1> QED
  BY <1>5, <1>6, <1>7 DEF Paced, Steady

LEMMA SoundKept ==
    ASSUME NEW t \in Tasks, Sound(t), Drift(t), sent \subseteq sent'
    PROVE  Sound(t)'
  BY DEF Sound, Drift, Waiting

LEMMA LineKept ==
    ASSUME TypeOK, Line(getters), getters' = getters,
           \A t \in Tasks : task[t].st = "blocked" => task'[t].st = "blocked"
    PROVE  Line(getters)'
<1>1. \A i \in 1 .. Len(getters) : getters[i] \in Tasks
  BY ElementOfSeq DEF TypeOK
<1> QED
  BY <1>1 DEF Line, Distinct

LEMMA UnservedKept ==
    ASSUME IsFiniteSet(Unserved), givenUp' = givenUp,
           \A t \in Ghosts : task[t].st = "got" => task'[t].st = "got"
    PROVE  IsFiniteSet(Unserved')
<1>1. Ghosts' = Ghosts
  BY DEF Ghosts
<1>2. Unserved' \subseteq Unserved
  BY <1>1 DEF Unserved
<1> QED
  BY <1>2, FS_Subset

(* The parts of the invariant that a step of the loop or of a sender keeps *)
(* whatever it does to the queue.                                          *)
Kept ==
    /\ \A c \in Consumers : Paced(c)'
    /\ \A t \in Tasks : Sound(t)'
    /\ \A c \in Consumers : result'[c] \in sent' \cup {Nothing, Stopped}
    /\ IsFiniteSet(Unserved')

LEMMA Drifting ==
    ASSUME Inv, \A t \in Tasks : Drift(t), sent \subseteq sent',
           UNCHANGED <<pc, result, givenUp>>,
           stop = TRUE => stop' = TRUE,
           \A c \in Consumers : stopTask'[c] = "done" => stop' = TRUE
    PROVE  Kept
<1>1. TypeOK
  BY DEF Inv
<1>2. \A c \in Consumers : Steady(c)
  BY <1>1, Tasking DEF Steady
<1>3. \A c \in Consumers : Paced(c)'
  BY <1>1, <1>2, PacedKept DEF Inv
<1>4. \A t \in Tasks : Sound(t)'
  BY SoundKept DEF Inv
<1>5. \A t \in Tasks : task[t].st = "got" => task'[t].st = "got"
  BY DEF Drift, Waiting
<1>6. IsFiniteSet(Unserved')
  <2>1. \A t \in Ghosts : t \in Tasks
    BY DEF Ghosts
  <2> QED
    BY <1>5, <2>1, UnservedKept DEF Inv
<1> QED
  BY <1>3, <1>4, <1>6 DEF Kept, Inv

LEMMA InvFromParts ==
    ASSUME TypeOK', Kept, Line(getters)',
           \A i \in 1 .. Len(queue') : queue'[i] \in sent',
           event' = TRUE => stop' = TRUE
    PROVE  Inv'
  BY DEF Kept, Inv

LEMMA InvInit ==
    ASSUME Init
    PROVE  Inv
<1>1. 0 \in 0 .. MaxGivenUp
  BY ChannelAssumption
<1>2. NoTask \in Task
  BY DEF NoTask, Task
<1>3. TypeOK
  <2>1. queue \in Seq(Items) /\ (MaxSize > 0 => Len(queue) <= MaxSize) /\ getters \in Seq(Tasks)
    BY ChannelAssumption DEF Init
  <2>2. task \in [Tasks -> Task]
    BY <1>2 DEF Init
  <2>3. givenUp \in [Consumers -> 0 .. MaxGivenUp]
    BY <1>1 DEF Init
  <2>4. /\ pc \in [Consumers -> {"idle", "wait", "cancel", "return"}]
        /\ stopTask \in [Consumers -> {"-", "running", "done"}]
        /\ result \in [Consumers -> Items \cup {Nothing, Stopped}]
    BY DEF Init
  <2>5. stop \in BOOLEAN /\ event \in BOOLEAN /\ sent \subseteq Items /\ received \subseteq sent
    BY DEF Init
  <2> QED
    BY <2>1, <2>2, <2>3, <2>4, <2>5 DEF TypeOK
<1>4. \A c \in Consumers, n \in Numbers : task[<<c, n>>].st = "none"
  BY <1>3, Tasking DEF Init, NoTask
<1>5. \A c \in Consumers : Mine(c) \in Tasks
  BY <1>3, Tasking
<1>6. \A c \in Consumers : Paced(c)
  BY <1>4, <1>5 DEF Paced, Init, NoTask
<1>7. \A t \in Tasks : Sound(t)
  BY DEF Init, Sound, NoTask
<1>8. Line(getters)
  BY DEF Init, Line, Distinct
<1>9. Unserved = {}
  <2>1. Ghosts = {}
    BY <1>3 DEF Init, Ghosts, Tasks
  <2> QED
    BY <2>1 DEF Unserved
<1> QED
  BY <1>3, <1>6, <1>7, <1>8, <1>9, FS_EmptySet DEF Inv, Init

-----------------------------------------------------------------------------
LEMMA TailDoes ==
    ASSUME NEW S, NEW q \in Seq(S), q # <<>>
    PROVE  /\ Head(q) \in S /\ Head(q) = q[1] /\ 1 \in 1 .. Len(q)
           /\ Tail(q) \in Seq(S) /\ Len(Tail(q)) = Len(q) - 1
           /\ \A i \in 1 .. Len(q) - 1 : Tail(q)[i] = q[i + 1] /\ i + 1 \in 1 .. Len(q)
<1>1. Len(q) \in Nat /\ Len(q) # 0
  BY LenProperties, EmptySeq
<1>2. /\ Tail(q) \in Seq(S) /\ Len(Tail(q)) = Len(q) - 1
      /\ \A i \in 1 .. Len(Tail(q)) : Tail(q)[i] = q[i + 1]
  BY HeadTailProperties
<1>3. Head(q) \in S /\ Head(q) = q[1]
  BY HeadTailProperties
<1> QED
  BY <1>1, <1>2, <1>3

(* Taking the head of the queue leaves a queue of items that were sent.    *)
LEMMA HeadLeaves ==
    ASSUME Inv, queue # <<>>, queue' = Tail(queue), sent' = sent
    PROVE  /\ Head(queue) \in sent /\ Head(queue) \in Items /\ Head(queue) # Nothing
           /\ queue' \in Seq(Items) /\ (MaxSize > 0 => Len(queue') <= MaxSize)
           /\ \A i \in 1 .. Len(queue') : queue'[i] \in sent'
<1>1. queue \in Seq(Items) /\ (MaxSize > 0 => Len(queue) <= MaxSize) /\ Len(queue) \in Nat
  BY LenProperties DEF Inv, TypeOK
<1>2. /\ Head(queue) \in Items /\ Head(queue) = queue[1] /\ 1 \in 1 .. Len(queue)
      /\ queue' \in Seq(Items) /\ Len(queue') = Len(queue) - 1
      /\ \A i \in 1 .. Len(queue) - 1 : queue'[i] = queue[i + 1] /\ i + 1 \in 1 .. Len(queue)
  BY <1>1, TailDoes
<1>3. \A i \in 1 .. Len(queue) : queue[i] \in sent
  BY DEF Inv
<1>4. Head(queue) \in sent
  BY <1>2, <1>3
<1>5. MaxSize > 0 => Len(queue') <= MaxSize
  BY <1>1, <1>2, ChannelAssumption
<1>6. \A i \in 1 .. Len(queue') : queue'[i] \in sent'
  <2> SUFFICES ASSUME NEW i \in 1 .. Len(queue') PROVE queue'[i] \in sent'
    OBVIOUS
  <2>1. queue'[i] = queue[i + 1] /\ i + 1 \in 1 .. Len(queue)
    BY <1>2
  <2> QED
    BY <1>3, <2>1
<1> QED
  BY <1>2, <1>4, <1>5, <1>6, ChannelAssumption

(* The case of get that finds an item.                                     *)
Got(t) ==
    /\ queue # <<>> /\ queue' = Tail(queue) /\ getters' = getters
    /\ task' \in [Tasks -> Task]
    /\ task'[t].st = "got" /\ task'[t].item = Head(queue)
    /\ task'[t].cancel = task[t].cancel
    /\ \A u \in Tasks : u # t => task'[u] = task[u]

LEMMA GetDoes ==
    ASSUME Inv, NEW t \in Tasks, Get(t)
    PROVE  /\ task[t].st \in {"new", "woken"} /\ task[t].cancel = FALSE
           /\ \/ Got(t)
              \/ /\ queue = <<>> /\ queue' = queue /\ getters' = Append(getters, t)
                 /\ task' \in [Tasks -> Task]
                 /\ task'[t].st = "blocked" /\ task'[t].cancel = task[t].cancel
                 /\ task'[t].item = task[t].item
                 /\ \A u \in Tasks : u # t => task'[u] = task[u]
<1>1. task \in [Tasks -> Task] /\ task[t] \in Task /\ task[t].cancel \in BOOLEAN
  BY DEF Inv, TypeOK, Task
<1>2. task[t].st \in {"new", "woken"} /\ task[t].cancel = FALSE
  BY <1>1 DEF Get
<1>3. CASE queue = <<>>
  <2>1. queue' = queue /\ getters' = Append(getters, t) /\ task' = [task EXCEPT ![t].st = "blocked"]
    BY <1>3 DEF Get
  <2>2. "blocked" \in States
    BY DEF States
  <2>3. /\ task' \in [Tasks -> Task]
        /\ task'[t].st = "blocked" /\ task'[t].cancel = task[t].cancel
        /\ task'[t].item = task[t].item
        /\ \A u \in Tasks : u # t => task'[u] = task[u]
    BY <1>1, <2>1, <2>2, SetSt
  <2> QED
    BY <1>2, <1>3, <2>1, <2>3
<1>4. CASE queue # <<>>
  <2> DEFINE r == [task[t] EXCEPT !.st = "got", !.item = Head(queue)]
  <2>1. queue' = Tail(queue) /\ getters' = getters /\ task' = [task EXCEPT ![t] = r]
    BY <1>4 DEF Get
  <2>2. Head(queue) \in Items
    BY <1>4, <2>1, HeadLeaves DEF Get
  <2>3. r \in Task /\ r.st = "got" /\ r.item = Head(queue) /\ r.cancel = task[t].cancel
    BY <1>1, <2>2 DEF Task
  <2> HIDE DEF r
  <2>4. /\ task' \in [Tasks -> Task] /\ task'[t] = r
        /\ \A u \in Tasks : u # t => task'[u] = task[u]
    BY <1>1, <2>1, <2>3, SetTask
  <2>5. Got(t)
    BY <1>4, <2>1, <2>3, <2>4 DEF Got
  <2> QED
    BY <1>2, <2>5
<1> QED
  BY <1>3, <1>4

LEMMA GetKeeps ==
    ASSUME Inv, NEW t \in Tasks, Get(t)
    PROVE  Inv'
<1>1. TypeOK /\ Line(getters)
  BY DEF Inv
<1>2. UNCHANGED <<stop, event, pc, stopTask, result, givenUp, sent, received>>
  BY DEF Get
<1>3. task[t].st \in {"new", "woken"} /\ task[t].cancel = FALSE
  BY GetDoes
<1>4. \A c \in Consumers : stopTask'[c] = "done" => stop' = TRUE
  BY <1>2 DEF Inv, Paced
<1>5. event' = TRUE => stop' = TRUE
  BY <1>2 DEF Inv
<1>6. CASE Got(t)
  <2>1. /\ Head(queue) \in sent
        /\ queue' \in Seq(Items) /\ (MaxSize > 0 => Len(queue') <= MaxSize)
        /\ \A i \in 1 .. Len(queue') : queue'[i] \in sent'
    BY <1>2, <1>6, HeadLeaves DEF Got
  <2>2. \A u \in Tasks : Drift(u)
    BY <1>3, <1>6, <2>1 DEF Got, Drift, Waiting
  <2>3. Kept
    BY <1>2, <1>4, <2>2, Drifting
  <2>4. Line(getters)'
    BY <1>1, <1>3, <1>6, LineKept DEF Got
  <2>5. TypeOK'
    BY <1>1, <1>2, <1>6, <2>1 DEF TypeOK, Got
  <2> QED
    BY <1>5, <2>1, <2>3, <2>4, <2>5, InvFromParts
<1>7. CASE /\ queue' = queue /\ getters' = Append(getters, t)
           /\ task' \in [Tasks -> Task]
           /\ task'[t].st = "blocked" /\ task'[t].cancel = task[t].cancel
           /\ task'[t].item = task[t].item
           /\ \A u \in Tasks : u # t => task'[u] = task[u]
  <2>1. \A u \in Tasks : Drift(u)
    BY <1>3, <1>7 DEF Drift, Waiting
  <2>2. Kept
    BY <1>2, <1>4, <2>1, Drifting
  <2>3. /\ getters \in Seq(Tasks) /\ Len(getters) \in Nat
        /\ \A i \in 1 .. Len(getters) : getters[i] \in Tasks /\ task[getters[i]].st = "blocked"
        /\ Distinct(getters)
    BY <1>1, LenProperties, ElementOfSeq DEF TypeOK, Line
  <2>4. /\ getters' \in Seq(Tasks) /\ Len(getters') = Len(getters) + 1
        /\ \A i \in 1 .. Len(getters) : getters'[i] = getters[i]
        /\ getters'[Len(getters) + 1] = t
    BY <1>7, <2>3, AppendProperties
  <2>5. \A i \in 1 .. Len(getters') : i = Len(getters) + 1 \/ i \in 1 .. Len(getters)
    BY <2>3, <2>4
  <2>6. \A i \in 1 .. Len(getters) : getters'[i] # t /\ task'[getters'[i]].st = "blocked"
    BY <1>3, <1>7, <2>3, <2>4
  <2>7. \A i \in 1 .. Len(getters') : task'[getters'[i]].st = "blocked"
    BY <1>7, <2>4, <2>5, <2>6
  <2>8. Distinct(getters')
    <3> SUFFICES ASSUME NEW i \in 1 .. Len(getters'), NEW j \in 1 .. Len(getters'),
                        getters'[i] = getters'[j]
                 PROVE  i = j
      BY DEF Distinct
    <3>1. CASE i \in 1 .. Len(getters) /\ j \in 1 .. Len(getters)
      BY <2>3, <2>4, <3>1 DEF Distinct
    <3>2. CASE i = Len(getters) + 1 \/ j = Len(getters) + 1
      BY <2>4, <2>5, <2>6, <3>2
    <3> QED
      BY <2>5, <3>1, <3>2
  <2>9. Line(getters)'
    BY <2>7, <2>8 DEF Line, Distinct
  <2>10. TypeOK'
    BY <1>1, <1>2, <1>7, <2>4 DEF TypeOK
  <2>11. \A i \in 1 .. Len(queue') : queue'[i] \in sent'
    BY <1>2, <1>7 DEF Inv
  <2> QED
    BY <1>5, <2>2, <2>9, <2>10, <2>11, InvFromParts
<1> QED
  BY <1>6, <1>7, GetDoes

(* A cancelled task leaves the line for good.                              *)
LEMMA GetCancelledDoes ==
    ASSUME Inv, NEW t \in Tasks, GetCancelled(t)
    PROVE  /\ task' \in [Tasks -> Task] /\ getters' \in Seq(Tasks)
           /\ \A u \in Tasks : Drift(u)
           /\ \A u \in Tasks : (task'[u].st = "got" <=> task[u].st = "got")
                               /\ task'[u].item = task[u].item
           /\ Line(getters)'
<1> DEFINE gs == RemoveFirst(getters, t)
           ts == [task EXCEPT ![t].st = "cancelled"]
<1>1. /\ task \in [Tasks -> Task] /\ task[t] \in Task /\ task[t].cancel = TRUE
      /\ task[t].st \in Waiting
  BY DEF Inv, TypeOK, Task, GetCancelled, Waiting
<1>2. "cancelled" \in States
  BY DEF States
<1>3. /\ ts \in [Tasks -> Task]
      /\ ts[t].st = "cancelled" /\ ts[t].cancel = task[t].cancel
      /\ ts[t].item = task[t].item
      /\ \A u \in Tasks : u # t => ts[u] = task[u]
  <2>1. ts = [task EXCEPT ![t].st = "cancelled"]
    OBVIOUS
  <2> HIDE DEF ts
  <2> QED
    BY <1>1, <1>2, <2>1, SetSt
<1>4. getters \in Seq(Tasks) /\ Distinct(getters)
  BY DEF Inv, TypeOK, Line
<1>5. /\ gs \in Seq(Tasks) /\ Distinct(gs)
      /\ \A i \in 1 .. Len(gs) : gs[i] # t /\ \E j \in 1 .. Len(getters) : gs[i] = getters[j]
  BY <1>4, RemoveFirstDoes
<1>6. WakeNext(gs, ts) \/ (getters' = gs /\ task' = ts)
  BY DEF GetCancelled
<1> HIDE DEF gs, ts
<1>7. \A i \in 1 .. Len(gs) : ts[gs[i]].st = "blocked"
  <2> SUFFICES ASSUME NEW i \in 1 .. Len(gs) PROVE ts[gs[i]].st = "blocked"
    OBVIOUS
  <2>1. PICK j \in 1 .. Len(getters) : gs[i] = getters[j]
    BY <1>5
  <2>2. task[getters[j]].st = "blocked"
    BY DEF Inv, Line
  <2>3. gs[i] \in Tasks /\ gs[i] # t
    BY <1>5, ElementOfSeq
  <2> QED
    BY <1>3, <2>1, <2>2, <2>3
<1>8. \A u \in Tasks : /\ ts[u].cancel = task[u].cancel /\ ts[u].item = task[u].item
                       /\ \/ ts[u].st = task[u].st
                          \/ task[u].st \in Waiting /\ task[u].cancel = TRUE /\ ts[u].st = "cancelled"
  BY <1>1, <1>3
<1>9. Woke(ts)
  <2>1. CASE WakeNext(gs, ts)
    BY <1>3, <1>5, <1>7, <2>1, WakeNextDoes
  <2>2. CASE getters' = gs /\ task' = ts
    BY <1>3, <1>5, <1>7, <2>2 DEF Woke, Stirred
  <2> QED
    BY <1>6, <2>1, <2>2
<1>10. ASSUME NEW u \in Tasks
       PROVE  Drift(u) /\ (task'[u].st = "got" <=> task[u].st = "got") /\ task'[u].item = task[u].item
  <2>1. Stirred(ts, u)
    BY <1>9 DEF Woke
  <2> QED
    BY <1>8, <2>1 DEF Stirred, Drift, Waiting
<1>11. Line(getters)'
  BY <1>9 DEF Woke, Line, Distinct
<1> QED
  BY <1>9, <1>10, <1>11 DEF Woke

LEMMA GetCancelledKeeps ==
    ASSUME Inv, NEW t \in Tasks, GetCancelled(t)
    PROVE  Inv'
<1>1. UNCHANGED <<queue, stop, event, pc, stopTask, result, givenUp, sent, received>>
  BY DEF GetCancelled
<1>2. /\ task' \in [Tasks -> Task] /\ getters' \in Seq(Tasks)
      /\ \A u \in Tasks : Drift(u)
      /\ Line(getters)'
  BY GetCancelledDoes
<1>3. \A c \in Consumers : stopTask'[c] = "done" => stop' = TRUE
  BY <1>1 DEF Inv, Paced
<1>4. Kept
  BY <1>1, <1>2, <1>3, Drifting DEF Inv
<1>5. TypeOK'
  BY <1>1, <1>2 DEF Inv, TypeOK
<1>6. (event' = TRUE => stop' = TRUE) /\ \A i \in 1 .. Len(queue') : queue'[i] \in sent'
  BY <1>1 DEF Inv
<1> QED
  BY <1>2, <1>4, <1>5, <1>6, InvFromParts

LEMMA SendDoes ==
    ASSUME Inv, NEW v \in Items, Send(v)
    PROVE  /\ task' \in [Tasks -> Task] /\ getters' \in Seq(Tasks)
           /\ \A u \in Tasks : Drift(u)
           /\ \A u \in Tasks : (task'[u].st = "got" <=> task[u].st = "got")
                               /\ task'[u].item = task[u].item
           /\ Line(getters)'
<1>1. /\ task \in [Tasks -> Task] /\ getters \in Seq(Tasks)
      /\ \A i \in 1 .. Len(getters) : task[getters[i]].st = "blocked"
      /\ Distinct(getters)
  BY DEF Inv, TypeOK, Line
<1>2. Woke(task)
  BY <1>1, WakeNextDoes DEF Send
<1>3. ASSUME NEW u \in Tasks
      PROVE  Drift(u) /\ (task'[u].st = "got" <=> task[u].st = "got") /\ task'[u].item = task[u].item
  <2>1. Stirred(task, u)
    BY <1>2 DEF Woke
  <2> QED
    BY <2>1 DEF Stirred, Drift, Waiting
<1>4. Line(getters)'
  BY <1>2 DEF Woke, Line, Distinct
<1> QED
  BY <1>2, <1>3, <1>4 DEF Woke

LEMMA SendKeeps ==
    ASSUME Inv, NEW v \in Items, Send(v)
    PROVE  Inv'
<1>1. /\ UNCHANGED <<stop, event, pc, stopTask, result, givenUp, received>>
      /\ sent' = sent \cup {v} /\ queue' = Append(queue, v) /\ ~Full
  BY DEF Send
<1>2. /\ task' \in [Tasks -> Task] /\ getters' \in Seq(Tasks)
      /\ \A u \in Tasks : Drift(u)
      /\ Line(getters)'
  BY SendDoes
<1>3. \A c \in Consumers : stopTask'[c] = "done" => stop' = TRUE
  BY <1>1 DEF Inv, Paced
<1>4. Kept
  BY <1>1, <1>2, <1>3, Drifting DEF Inv
<1>5. queue \in Seq(Items) /\ Len(queue) \in Nat
  BY LenProperties DEF Inv, TypeOK
<1>6. /\ queue' \in Seq(Items) /\ Len(queue') = Len(queue) + 1
      /\ \A i \in 1 .. Len(queue) : queue'[i] = queue[i]
      /\ queue'[Len(queue) + 1] = v
  BY <1>1, <1>5, AppendProperties
<1>7. MaxSize > 0 => Len(queue') <= MaxSize
  BY <1>1, <1>5, <1>6, ChannelAssumption DEF Full
<1>8. \A i \in 1 .. Len(queue') : queue'[i] \in sent'
  <2>1. \A i \in 1 .. Len(queue') : i = Len(queue) + 1 \/ i \in 1 .. Len(queue)
    BY <1>5, <1>6
  <2>2. \A i \in 1 .. Len(queue) : queue[i] \in sent
    BY DEF Inv
  <2> QED
    BY <1>1, <1>6, <2>1, <2>2
<1>9. TypeOK'
  BY <1>1, <1>2, <1>6, <1>7 DEF Inv, TypeOK
<1>10. event' = TRUE => stop' = TRUE
  BY <1>1 DEF Inv
<1> QED
  BY <1>2, <1>4, <1>8, <1>9, <1>10, InvFromParts

LEMMA NoDrift ==
    ASSUME task' = task
    PROVE  \A t \in Tasks : Drift(t)
  BY DEF Drift

LEMMA RequestStopKeeps ==
    ASSUME Inv, RequestStop
    PROVE  Inv'
<1>1. /\ UNCHANGED <<queue, getters, task, pc, stopTask, result, givenUp, sent, received>>
      /\ stop' = TRUE /\ event' = TRUE
  BY DEF RequestStop
<1>2. Kept
  BY <1>1, NoDrift, Drifting
<1>3. Line(getters)'
  BY <1>1, LineKept DEF Inv
<1>4. TypeOK'
  BY <1>1 DEF Inv, TypeOK
<1>5. \A i \in 1 .. Len(queue') : queue'[i] \in sent'
  BY <1>1 DEF Inv
<1> QED
  BY <1>1, <1>2, <1>3, <1>4, <1>5, InvFromParts

LEMMA StopWaitedKeeps ==
    ASSUME Inv, NEW c \in Consumers, StopWaited(c)
    PROVE  Inv'
<1>1. /\ UNCHANGED <<queue, stop, event, getters, task, pc, result, givenUp, sent, received>>
      /\ stopTask' = [stopTask EXCEPT ![c] = "done"]
  BY DEF StopWaited
<1>2. stop = TRUE
  BY DEF StopWaited, Inv, TypeOK
<1>3. Kept
  BY <1>1, <1>2, NoDrift, Drifting
<1>4. Line(getters)'
  BY <1>1, LineKept DEF Inv
<1>5. TypeOK'
  BY <1>1 DEF Inv, TypeOK
<1>6. (event' = TRUE => stop' = TRUE) /\ \A i \in 1 .. Len(queue') : queue'[i] \in sent'
  BY <1>1 DEF Inv
<1> QED
  BY <1>3, <1>4, <1>5, <1>6, InvFromParts

-----------------------------------------------------------------------------
(* The steps of c's own receive: of the tasks only its own may change.     *)
Alone(c) ==
    /\ task' \in [Tasks -> Task]
    /\ \A t \in Tasks : t # Mine(c) => task'[t] = task[t]
    /\ task[Mine(c)].st = "blocked" => task'[Mine(c)].st = "blocked"
    /\ task'[Mine(c)].st = "cancelled" => task'[Mine(c)].cancel = TRUE
    /\ task'[Mine(c)].st = "got" => task'[Mine(c)].item \in sent
    /\ UNCHANGED <<stop, event, getters, sent>>
    /\ \A d \in Consumers : d # c => /\ pc'[d] = pc[d] /\ result'[d] = result[d]
                                     /\ givenUp'[d] = givenUp[d]
                                     /\ stopTask'[d] = stopTask[d]
    /\ result'[c] \in sent \cup {Nothing, Stopped}

LEMMA AloneKeeps ==
    ASSUME Inv, NEW c \in Consumers, Alone(c), TypeOK', Paced(c)', IsFiniteSet(Unserved'),
           \A i \in 1 .. Len(queue') : queue'[i] \in sent'
    PROVE  Inv'
<1>1. TypeOK /\ Line(getters)
  BY DEF Inv
<1>2. \A t \in Tasks : t # Mine(c) => Drift(t)
  BY DEF Alone, Drift
<1>3. ASSUME NEW d \in Consumers, d # c PROVE Paced(d)'
  <2>1. \A n \in Numbers : <<d, n>> \in Tasks /\ <<d, n>> # Mine(c)
    BY <1>1, <1>3, Tasking
  <2>2. \A n \in Numbers : Drift(<<d, n>>)
    BY <1>2, <2>1
  <2>3. Steady(d)
    BY <1>3, <2>2 DEF Steady, Alone, Inv, Paced
  <2> QED
    BY <1>1, <2>3, PacedKept DEF Inv
<1>4. \A t \in Tasks : Sound(t)'
  <2> SUFFICES ASSUME NEW t \in Tasks PROVE Sound(t)'
    OBVIOUS
  <2>1. CASE t = Mine(c)
    BY <2>1 DEF Alone, Sound
  <2>2. CASE t # Mine(c)
    BY <1>2, <2>2, SoundKept DEF Alone, Inv
  <2> QED
    BY <2>1, <2>2
<1>5. Line(getters)'
  <2>1. \A t \in Tasks : task[t].st = "blocked" => task'[t].st = "blocked"
    BY DEF Alone
  <2> QED
    BY <1>1, <2>1, LineKept DEF Alone
<1>6. \A d \in Consumers : result'[d] \in sent' \cup {Nothing, Stopped}
  BY DEF Alone, Inv
<1>7. Kept
  BY <1>3, <1>4, <1>6 DEF Kept
<1>8. event' = TRUE => stop' = TRUE
  BY DEF Alone, Inv
<1> QED
  BY <1>5, <1>7, <1>8, InvFromParts

(* Paced in the next state, of a receive whose task stays m.               *)
Pace(c, m) ==
    /\ pc'[c] = "idle" => task'[m].st = "none" /\ result'[c] = Nothing
    /\ pc'[c] = "return" => task'[m].st = "none" /\ result'[c] # Nothing
    /\ pc'[c] = "wait" => /\ task'[m].st \in {"new", "blocked", "woken", "got"}
                          /\ task'[m].cancel = FALSE /\ result'[c] = Nothing
    /\ pc'[c] = "cancel" => /\ task'[m].st # "none" /\ result'[c] = Nothing
                            /\ task'[m].cancel = TRUE => stop' = TRUE
    /\ stopTask'[c] = "done" => stop' = TRUE

LEMMA PaceKeeps ==
    ASSUME Inv, NEW c \in Consumers, Alone(c), givenUp' = givenUp, Pace(c, Mine(c)), TypeOK',
           \A i \in 1 .. Len(queue') : queue'[i] \in sent'
    PROVE  Inv'
<1>1. TypeOK /\ Paced(c)
  BY DEF Inv
<1>2. Mine(c)' = Mine(c)
  BY DEF Mine
<1>3. \A n \in Numbers : n > givenUp[c] => <<c, n>> \in Tasks /\ <<c, n>> # Mine(c)
  BY <1>1, Tasking
<1>4. \A n \in Numbers : n > givenUp'[c] => task'[<<c, n>>].st = "none"
  BY <1>1, <1>3 DEF Paced, Alone
<1>5. Paced(c)'
  BY <1>2, <1>4 DEF Paced, Pace
<1>6. \A t \in Ghosts : t \in Tasks /\ t # Mine(c)
  BY <1>1, Tasking DEF Ghosts
<1>7. \A t \in Ghosts : task[t].st = "got" => task'[t].st = "got"
  BY <1>6 DEF Alone
<1>8. IsFiniteSet(Unserved')
  BY <1>7, UnservedKept DEF Inv
<1> QED
  BY <1>5, <1>8, AloneKeeps

LEMMA CancelPendingDoes ==
    ASSUME Inv, NEW c \in Consumers, CancelPending(c)
    PROVE  /\ task' \in [Tasks -> Task]
           /\ task'[Mine(c)].st = task[Mine(c)].st
           /\ task'[Mine(c)].item = task[Mine(c)].item
           /\ task'[Mine(c)].cancel = (task[Mine(c)].st # "got")
           /\ \A t \in Tasks : t # Mine(c) => task'[t] = task[t]
<1>1. PICK m \in Tasks : m = Mine(c)
  BY Tasking DEF Inv
<1>2. task \in [Tasks -> Task] /\ task[m] \in Task
  BY DEF Inv, TypeOK
<1> DEFINE b == (task[m].st # "got")
           r == [task[m] EXCEPT !.cancel = b]
<1>3. b \in BOOLEAN
  OBVIOUS
<1>4. task' = [task EXCEPT ![m] = r]
  BY <1>1, <1>2 DEF CancelPending
<1>5. r \in Task /\ r.st = task[m].st /\ r.item = task[m].item /\ r.cancel = b
  <2> HIDE DEF b
  <2> QED
    BY <1>2, <1>3 DEF Task
<1> HIDE DEF r
<1>6. task' \in [Tasks -> Task] /\ task'[m] = r /\ \A t \in Tasks : t # m => task'[t] = task[t]
  BY <1>2, <1>4, <1>5, SetTask
<1> QED
  BY <1>1, <1>5, <1>6

LEMMA CancelPendingKeeps ==
    ASSUME Inv, NEW c \in Consumers, CancelPending(c)
    PROVE  Inv'
<1>1. TypeOK /\ Paced(c)
  BY DEF Inv
<1>2. PICK m \in Tasks : m = Mine(c)
  BY <1>1, Tasking
<1>3. /\ task' \in [Tasks -> Task]
      /\ task'[m].st = task[m].st /\ task'[m].item = task[m].item
      /\ task'[m].cancel = (task[m].st # "got")
      /\ \A t \in Tasks : t # m => task'[t] = task[t]
  BY <1>2, CancelPendingDoes
<1>4. /\ UNCHANGED <<queue, stop, event, getters, result, givenUp, sent, received>>
      /\ stopTask' = [stopTask EXCEPT ![c] = "-"]
      /\ pc' = [pc EXCEPT ![c] = "cancel"]
      /\ pc[c] = "wait" /\ (task[m].st = "got" \/ stopTask[c] = "done")
  BY <1>2 DEF CancelPending
<1>5. pc'[c] = "cancel" /\ stopTask'[c] = "-"
  BY <1>1, <1>4 DEF TypeOK
<1>6. /\ task[m].st \in {"new", "blocked", "woken", "got"} /\ result[c] = Nothing
      /\ stopTask[c] = "done" => stop = TRUE
  BY <1>1, <1>2, <1>4 DEF Paced
<1>7. Sound(m)
  BY DEF Inv
<1>8. Alone(c)
  <2>1. \A d \in Consumers : d # c => /\ pc'[d] = pc[d] /\ result'[d] = result[d]
                                      /\ givenUp'[d] = givenUp[d]
                                      /\ stopTask'[d] = stopTask[d]
    BY <1>1, <1>4 DEF TypeOK
  <2> QED
    BY <1>2, <1>3, <1>4, <1>6, <1>7, <2>1 DEF Alone, Sound
<1>9. Pace(c, m)
  BY <1>3, <1>4, <1>5, <1>6 DEF Pace
<1>10. TypeOK'
  BY <1>1, <1>3, <1>4 DEF TypeOK
<1>11. \A i \in 1 .. Len(queue') : queue'[i] \in sent'
  BY <1>4 DEF Inv
<1> QED
  BY <1>2, <1>4, <1>8, <1>9, <1>10, <1>11, PaceKeeps

(* What get_nowait gives, when stop lets a receive end.                    *)
Now(c) ==
    \/ queue = <<>> /\ queue' = queue /\ result'[c] = Stopped
    \/ queue # <<>> /\ queue' = Tail(queue) /\ result'[c] = Head(queue)

LEMMA GetNowaitDoes ==
    ASSUME Inv, NEW c \in Consumers, GetNowait(c), sent' = sent
    PROVE  /\ Now(c)
           /\ queue' \in Seq(Items) /\ (MaxSize > 0 => Len(queue') <= MaxSize)
           /\ \A i \in 1 .. Len(queue') : queue'[i] \in sent'
           /\ result' \in [Consumers -> Items \cup {Nothing, Stopped}]
           /\ result'[c] # Nothing /\ result'[c] \in sent \cup {Nothing, Stopped}
           /\ \A d \in Consumers : d # c => result'[d] = result[d]
<1>1. result \in [Consumers -> Items \cup {Nothing, Stopped}]
  BY DEF Inv, TypeOK
<1>2. CASE queue = <<>>
  <2>1. queue' = queue /\ result' = [result EXCEPT ![c] = Stopped]
    BY <1>2 DEF GetNowait
  <2>2. /\ queue' \in Seq(Items) /\ (MaxSize > 0 => Len(queue') <= MaxSize)
        /\ \A i \in 1 .. Len(queue') : queue'[i] \in sent'
    BY <2>1 DEF Inv, TypeOK
  <2> QED
    BY <1>1, <1>2, <2>1, <2>2, ChannelAssumption DEF Now
<1>3. CASE queue # <<>>
  <2>1. queue' = Tail(queue) /\ result' = [result EXCEPT ![c] = Head(queue)]
    BY <1>3 DEF GetNowait
  <2>2. /\ Head(queue) \in sent /\ Head(queue) \in Items /\ Head(queue) # Nothing
        /\ queue' \in Seq(Items) /\ (MaxSize > 0 => Len(queue') <= MaxSize)
        /\ \A i \in 1 .. Len(queue') : queue'[i] \in sent'
    BY <1>3, <2>1, HeadLeaves
  <2> QED
    BY <1>1, <1>3, <2>1, <2>2 DEF Now
<1> QED
  BY <1>2, <1>3

LEMMA NoTaskDoes ==
    /\ NoTask \in Task /\ NoTask.st = "none" /\ NoTask.cancel = FALSE
    /\ LET r == [NoTask EXCEPT !.st = "new"]
       IN  r \in Task /\ r.st = "new" /\ r.cancel = FALSE
<1>1. NoTask \in Task /\ NoTask.st = "none" /\ NoTask.cancel = FALSE
  BY DEF NoTask, Task
<1> DEFINE r == [NoTask EXCEPT !.st = "new"]
<1>2. r \in Task /\ r.st = "new" /\ r.cancel = NoTask.cancel
  BY <1>1 DEF Task
<1> QED
  BY <1>1, <1>2

LEMMA ResetTask ==
    ASSUME Inv, NEW c \in Consumers, NEW r \in Task, task' = [task EXCEPT ![Mine(c)] = r]
    PROVE  /\ task' \in [Tasks -> Task]
           /\ task'[Mine(c)] = r
           /\ \A t \in Tasks : t # Mine(c) => task'[t] = task[t]
<1>1. PICK m \in Tasks : m = Mine(c)
  BY Tasking DEF Inv
<1>2. task' = [task EXCEPT ![m] = r]
  BY <1>1
<1>3. task' \in [Tasks -> Task] /\ task'[m] = r /\ \A t \in Tasks : t # m => task'[t] = task[t]
  <2>1. task \in [Tasks -> Task]
    BY DEF Inv, TypeOK
  <2> QED
    BY <1>2, <2>1
<1> QED
  BY <1>1, <1>3

LEMMA FinishDoes ==
    ASSUME Inv, NEW c \in Consumers, Finish(c)
    PROVE  /\ task' \in [Tasks -> Task]
           /\ task'[Mine(c)].st = "none" /\ task'[Mine(c)].cancel = FALSE
           /\ \A t \in Tasks : t # Mine(c) => task'[t] = task[t]
<1>1. task' = [task EXCEPT ![Mine(c)] = NoTask]
  BY DEF Finish
<1> QED
  BY <1>1, NoTaskDoes, ResetTask

(* A receive that finds no stop starts its two tasks.                      *)
Starts(c) ==
    /\ ~stop
    /\ task' \in [Tasks -> Task]
    /\ task'[Mine(c)].st = "new" /\ task'[Mine(c)].cancel = FALSE
    /\ \A t \in Tasks : t # Mine(c) => task'[t] = task[t]
    /\ stopTask' = [stopTask EXCEPT ![c] = "running"]
    /\ pc' = [pc EXCEPT ![c] = "wait"]
    /\ UNCHANGED <<queue, result>>

LEMMA ReceiveDoes ==
    ASSUME Inv, NEW c \in Consumers, Receive(c)
    PROVE  \/ /\ stop /\ GetNowait(c) /\ pc' = [pc EXCEPT ![c] = "return"]
              /\ UNCHANGED <<task, stopTask>>
           \/ Starts(c)
<1>1. CASE stop
  BY <1>1 DEF Receive
<1>2. CASE ~stop
  <2> DEFINE r == [NoTask EXCEPT !.st = "new"]
  <2>1. /\ task' = [task EXCEPT ![Mine(c)] = r]
        /\ stopTask' = [stopTask EXCEPT ![c] = "running"]
        /\ pc' = [pc EXCEPT ![c] = "wait"]
        /\ UNCHANGED <<queue, result>>
    BY <1>2 DEF Receive
  <2>2. r \in Task /\ r.st = "new" /\ r.cancel = FALSE
    BY NoTaskDoes
  <2> HIDE DEF r
  <2>3. /\ task' \in [Tasks -> Task] /\ task'[Mine(c)] = r
        /\ \A t \in Tasks : t # Mine(c) => task'[t] = task[t]
    BY <2>1, <2>2, ResetTask
  <2> QED
    BY <1>2, <2>1, <2>2, <2>3 DEF Starts
<1> QED
  BY <1>1, <1>2

LEMMA FinishKeeps ==
    ASSUME Inv, NEW c \in Consumers, Finish(c)
    PROVE  Inv'
<1>1. TypeOK /\ Paced(c)
  BY DEF Inv
<1>2. PICK m \in Tasks : m = Mine(c)
  BY <1>1, Tasking
<1>3. /\ task' \in [Tasks -> Task]
      /\ task'[m].st = "none" /\ task'[m].cancel = FALSE
      /\ \A t \in Tasks : t # m => task'[t] = task[t]
  BY <1>2, FinishDoes
<1>4. /\ UNCHANGED <<stop, event, getters, stopTask, givenUp, sent, received>>
      /\ pc' = [pc EXCEPT ![c] = "return"]
      /\ pc[c] = "cancel" /\ task[m].st \in {"got", "cancelled"}
      /\ IF task[m].st = "got"
         THEN result' = [result EXCEPT ![c] = task[m].item] /\ queue' = queue
         ELSE GetNowait(c)
  BY <1>2 DEF Finish
<1>5. /\ queue' \in Seq(Items) /\ (MaxSize > 0 => Len(queue') <= MaxSize)
      /\ \A i \in 1 .. Len(queue') : queue'[i] \in sent'
      /\ result' \in [Consumers -> Items \cup {Nothing, Stopped}]
      /\ result'[c] # Nothing /\ result'[c] \in sent \cup {Nothing, Stopped}
      /\ \A d \in Consumers : d # c => result'[d] = result[d]
  <2>1. CASE task[m].st = "got"
    <3>1. Sound(m)
      BY DEF Inv
    <3>2. task[m].item \in sent /\ task[m].item \in Items /\ task[m].item # Nothing
      BY <1>1, <2>1, <3>1, ChannelAssumption DEF Sound, TypeOK
    <3>3. result' = [result EXCEPT ![c] = task[m].item] /\ queue' = queue
      BY <1>4, <2>1
    <3>4. /\ queue' \in Seq(Items) /\ (MaxSize > 0 => Len(queue') <= MaxSize)
          /\ \A i \in 1 .. Len(queue') : queue'[i] \in sent'
      BY <1>4, <3>3 DEF Inv, TypeOK
    <3>5. /\ result' \in [Consumers -> Items \cup {Nothing, Stopped}]
          /\ result'[c] = task[m].item
          /\ \A d \in Consumers : d # c => result'[d] = result[d]
      BY <1>1, <3>2, <3>3 DEF TypeOK
    <3> QED
      BY <3>2, <3>4, <3>5
  <2>2. CASE task[m].st # "got"
    BY <1>4, <2>2, GetNowaitDoes
  <2> QED
    BY <2>1, <2>2
<1>6. pc'[c] = "return"
  BY <1>1, <1>4 DEF TypeOK
<1>7. Alone(c)
  <2>1. \A d \in Consumers : d # c => /\ pc'[d] = pc[d] /\ result'[d] = result[d]
                                      /\ givenUp'[d] = givenUp[d]
                                      /\ stopTask'[d] = stopTask[d]
    BY <1>1, <1>4, <1>5 DEF TypeOK
  <2> QED
    BY <1>2, <1>3, <1>4, <1>5, <2>1 DEF Alone
<1>8. Pace(c, m)
  BY <1>1, <1>3, <1>4, <1>5, <1>6 DEF Pace, Paced
<1>9. TypeOK'
  BY <1>1, <1>3, <1>4, <1>5 DEF TypeOK
<1> QED
  BY <1>2, <1>4, <1>5, <1>7, <1>8, <1>9, PaceKeeps

LEMMA ReceiveKeeps ==
    ASSUME Inv, NEW c \in Consumers, Receive(c)
    PROVE  Inv'
<1>1. TypeOK /\ Paced(c)
  BY DEF Inv
<1>2. PICK m \in Tasks : m = Mine(c)
  BY <1>1, Tasking
<1>3. UNCHANGED <<stop, event, getters, givenUp, sent, received>> /\ pc[c] = "idle"
  BY DEF Receive
<1>4. task[m].st = "none" /\ result[c] = Nothing /\ Sound(m)
  BY <1>1, <1>2, <1>3 DEF Paced, Inv
<1>5. CASE /\ stop /\ GetNowait(c) /\ pc' = [pc EXCEPT ![c] = "return"]
           /\ UNCHANGED <<task, stopTask>>
  <2>1. /\ queue' \in Seq(Items) /\ (MaxSize > 0 => Len(queue') <= MaxSize)
        /\ \A i \in 1 .. Len(queue') : queue'[i] \in sent'
        /\ result' \in [Consumers -> Items \cup {Nothing, Stopped}]
        /\ result'[c] # Nothing /\ result'[c] \in sent \cup {Nothing, Stopped}
        /\ \A d \in Consumers : d # c => result'[d] = result[d]
    BY <1>3, <1>5, GetNowaitDoes
  <2>2. pc'[c] = "return"
    BY <1>1, <1>5 DEF TypeOK
  <2>3. Alone(c)
    <3>1. \A d \in Consumers : d # c => /\ pc'[d] = pc[d] /\ result'[d] = result[d]
                                        /\ givenUp'[d] = givenUp[d]
                                        /\ stopTask'[d] = stopTask[d]
      BY <1>1, <1>3, <1>5, <2>1 DEF TypeOK
    <3>2. task' \in [Tasks -> Task]
      BY <1>1, <1>5 DEF TypeOK
    <3> QED
      BY <1>2, <1>3, <1>4, <1>5, <2>1, <3>1, <3>2 DEF Alone
  <2>4. Pace(c, m)
    BY <1>1, <1>3, <1>4, <1>5, <2>1, <2>2 DEF Pace, Paced
  <2>5. TypeOK'
    BY <1>1, <1>3, <1>5, <2>1 DEF TypeOK
  <2> QED
    BY <1>2, <1>3, <2>1, <2>3, <2>4, <2>5, PaceKeeps
<1>6. CASE Starts(c)
  <2>1. /\ task' \in [Tasks -> Task]
        /\ task'[m].st = "new" /\ task'[m].cancel = FALSE
        /\ \A t \in Tasks : t # m => task'[t] = task[t]
        /\ queue' = queue /\ result' = result
    BY <1>2, <1>6 DEF Starts
  <2>2. pc'[c] = "wait" /\ stopTask'[c] = "running"
    BY <1>1, <1>6 DEF TypeOK, Starts
  <2>3. Alone(c)
    <3>1. \A d \in Consumers : d # c => /\ pc'[d] = pc[d] /\ result'[d] = result[d]
                                        /\ givenUp'[d] = givenUp[d]
                                        /\ stopTask'[d] = stopTask[d]
      BY <1>1, <1>3, <1>6 DEF TypeOK, Starts
    <3> QED
      BY <1>2, <1>3, <1>4, <2>1, <3>1 DEF Alone
  <2>4. Pace(c, m)
    BY <1>4, <2>1, <2>2 DEF Pace
  <2>5. TypeOK'
    BY <1>1, <1>3, <1>6 DEF TypeOK, Starts
  <2>6. \A i \in 1 .. Len(queue') : queue'[i] \in sent'
    BY <1>3, <2>1 DEF Inv
  <2> QED
    BY <1>2, <1>3, <2>3, <2>4, <2>5, <2>6, PaceKeeps
<1> QED
  BY <1>5, <1>6, ReceiveDoes

LEMMA ReturnKeeps ==
    ASSUME Inv, NEW c \in Consumers, Return(c)
    PROVE  Inv'
<1>1. TypeOK /\ Paced(c)
  BY DEF Inv
<1>2. PICK m \in Tasks : m = Mine(c)
  BY <1>1, Tasking
<1>3. /\ UNCHANGED <<queue, stop, event, getters, task, stopTask, givenUp, sent>>
      /\ pc[c] = "return" /\ pc' = [pc EXCEPT ![c] = "idle"]
      /\ result' = [result EXCEPT ![c] = Nothing]
      /\ received' = received \cup ({result[c]} \ {Stopped})
  BY DEF Return
<1>4. /\ task[m].st = "none" /\ result[c] # Nothing
      /\ result[c] \in sent \cup {Nothing, Stopped}
  BY <1>1, <1>2, <1>3 DEF Paced, Inv
<1>5. pc'[c] = "idle" /\ result'[c] = Nothing
  BY <1>1, <1>3 DEF TypeOK
<1>6. Alone(c)
  <2>1. \A d \in Consumers : d # c => /\ pc'[d] = pc[d] /\ result'[d] = result[d]
                                      /\ givenUp'[d] = givenUp[d]
                                      /\ stopTask'[d] = stopTask[d]
    BY <1>1, <1>3 DEF TypeOK
  <2>2. task' \in [Tasks -> Task]
    BY <1>1, <1>3 DEF TypeOK
  <2> QED
    BY <1>2, <1>3, <1>4, <1>5, <2>1, <2>2 DEF Alone
<1>7. Pace(c, m)
  BY <1>1, <1>3, <1>4, <1>5 DEF Pace, Paced
<1>8. received' \subseteq sent
  BY <1>1, <1>3, <1>4 DEF TypeOK
<1>9. TypeOK'
  BY <1>1, <1>3, <1>8 DEF TypeOK
<1>10. \A i \in 1 .. Len(queue') : queue'[i] \in sent'
  BY <1>3 DEF Inv
<1> QED
  BY <1>2, <1>3, <1>6, <1>7, <1>9, <1>10, PaceKeeps

(* The receive that was given up leaves a ghost; its number is the one     *)
(* thing that changes.                                                     *)
LEMMA GiveUpDoes ==
    ASSUME Inv, NEW c \in Consumers, GiveUp(c)
    PROVE  /\ givenUp' \in [Consumers -> 0 .. MaxGivenUp]
           /\ givenUp'[c] = givenUp[c] + 1 /\ givenUp'[c] \in Numbers
           /\ \A d \in Consumers : d # c => givenUp'[d] = givenUp[d]
           /\ Ghosts' = Ghosts \cup {Mine(c)}
<1>1. givenUp \in [Consumers -> 0 .. MaxGivenUp] /\ givenUp[c] < MaxGivenUp
  BY DEF Inv, TypeOK, GiveUp
<1>2. /\ givenUp'[c] = givenUp[c] + 1
      /\ \A d \in Consumers : d # c => givenUp'[d] = givenUp[d]
  BY <1>1 DEF GiveUp
<1>3. givenUp[c] + 1 \in 0 .. MaxGivenUp
  BY <1>1, ChannelAssumption
<1>4. givenUp' \in [Consumers -> 0 .. MaxGivenUp]
  BY <1>1, <1>3 DEF GiveUp
<1>5. Ghosts' = Ghosts \cup {Mine(c)}
  <2>1. Mine(c) = <<c, givenUp[c]>> /\ Mine(c) \in Tasks
    BY Tasking DEF Inv, Mine
  <2>2. ASSUME NEW d \in Consumers, NEW n \in 0 .. MaxGivenUp
        PROVE  n < givenUp'[d] <=> (n < givenUp[d] \/ <<d, n>> = <<c, givenUp[c]>>)
    <3>1. n \in Int /\ givenUp[d] \in Int /\ givenUp[c] \in Int
      BY <1>1
    <3>2. CASE d = c
      BY <1>2, <3>1, <3>2
    <3>3. CASE d # c
      BY <1>2, <3>1, <3>3
    <3> QED
      BY <3>2, <3>3
  <2>3. ASSUME NEW t \in Tasks
        PROVE  t[2] < givenUp'[t[1]] <=> (t[2] < givenUp[t[1]] \/ t = Mine(c))
    <3>1. t[1] \in Consumers /\ t[2] \in 0 .. MaxGivenUp /\ t = <<t[1], t[2]>>
      BY DEF Tasks
    <3> QED
      BY <2>1, <2>2, <3>1
  <2> QED
    BY <2>1, <2>3 DEF Ghosts
<1> QED
  BY <1>2, <1>3, <1>4, <1>5 DEF Numbers

LEMMA GiveUpKeeps ==
    ASSUME Inv, NEW c \in Consumers, GiveUp(c)
    PROVE  Inv'
<1>1. TypeOK /\ Paced(c)
  BY DEF Inv
<1>2. PICK m \in Tasks : m = Mine(c)
  BY <1>1, Tasking
<1>3. /\ UNCHANGED <<queue, stop, event, getters, task, result, sent, received>>
      /\ pc[c] = "wait" /\ pc' = [pc EXCEPT ![c] = "idle"]
      /\ stopTask' = [stopTask EXCEPT ![c] = "-"]
  BY DEF GiveUp
<1>4. /\ givenUp' \in [Consumers -> 0 .. MaxGivenUp]
      /\ givenUp'[c] = givenUp[c] + 1 /\ givenUp'[c] \in Numbers
      /\ \A d \in Consumers : d # c => givenUp'[d] = givenUp[d]
      /\ Ghosts' = Ghosts \cup {Mine(c)}
  BY GiveUpDoes
<1>5. /\ result[c] = Nothing /\ Sound(m)
      /\ result[c] \in sent \cup {Nothing, Stopped}
  BY <1>1, <1>3 DEF Paced, Inv
<1>6. pc'[c] = "idle" /\ stopTask'[c] = "-"
  BY <1>1, <1>3 DEF TypeOK
<1>7. Alone(c)
  <2>1. \A d \in Consumers : d # c => /\ pc'[d] = pc[d] /\ result'[d] = result[d]
                                      /\ givenUp'[d] = givenUp[d]
                                      /\ stopTask'[d] = stopTask[d]
    BY <1>1, <1>3, <1>4 DEF TypeOK
  <2>2. task' \in [Tasks -> Task]
    BY <1>1, <1>3 DEF TypeOK
  <2> QED
    BY <1>2, <1>3, <1>5, <2>1, <2>2 DEF Alone, Sound
<1>8. Paced(c)'
  <2>1. givenUp[c] \in Int /\ \A n \in Numbers : n \in Int
    BY <1>1, Tasking
  <2>2. \A n \in Numbers : n > givenUp[c] => task[<<c, n>>].st = "none"
    BY <1>1 DEF Paced
  <2>3. \A n \in Numbers : n >= givenUp'[c] => task'[<<c, n>>].st = "none"
    BY <1>3, <1>4, <2>1, <2>2
  <2>4. task'[<<c, givenUp'[c]>>].st = "none"
    BY <1>4, <2>1, <2>3
  <2>5. \A n \in Numbers : n > givenUp'[c] => task'[<<c, n>>].st = "none"
    BY <1>4, <2>1, <2>3
  <2> QED
    BY <1>3, <1>5, <1>6, <2>4, <2>5 DEF Paced, Mine
<1>9. IsFiniteSet(Unserved')
  <2>1. Unserved' \subseteq Unserved \cup {Mine(c)}
    BY <1>3, <1>4 DEF Unserved
  <2>2. IsFiniteSet(Unserved \cup {Mine(c)})
    BY FS_AddElement DEF Inv
  <2> QED
    BY <2>1, <2>2, FS_Subset
<1>10. TypeOK'
  BY <1>1, <1>3, <1>4 DEF TypeOK
<1>11. \A i \in 1 .. Len(queue') : queue'[i] \in sent'
  BY <1>3 DEF Inv
<1> QED
  BY <1>7, <1>8, <1>9, <1>10, <1>11, AloneKeeps

LEMMA InvNext ==
    ASSUME Inv, [Next]_vars
    PROVE  Inv'
<1>1. CASE UNCHANGED vars
  <2>1. UNCHANGED <<queue, stop, event, getters, task, pc, stopTask, result, givenUp, sent, received>>
    BY <1>1 DEF vars
  <2>2. TypeOK' /\ Line(getters)'
    BY <2>1 DEF Inv, TypeOK, Line, Distinct
  <2>3. \A c \in Consumers : stopTask'[c] = "done" => stop' = TRUE
    BY <2>1 DEF Inv, Paced
  <2>4. Kept
    BY <2>1, <2>3, NoDrift, Drifting
  <2>5. (event' = TRUE => stop' = TRUE) /\ \A i \in 1 .. Len(queue') : queue'[i] \in sent'
    BY <2>1 DEF Inv
  <2> QED
    BY <2>2, <2>4, <2>5, InvFromParts
<1>2. CASE Next
  BY <1>2, GetKeeps, GetCancelledKeeps, StopWaitedKeeps, CancelPendingKeeps,
     FinishKeeps,
     SendKeeps, RequestStopKeeps, ReceiveKeeps, ReturnKeeps, GiveUpKeeps
     DEF Next, Loop
<1> QED
  BY <1>1, <1>2

(* Whatever the consumers, the items and the interleaving, the channel's   *)
(* state is sound: its queue keeps within maxsize and holds what send      *)
(* accepted, the tasks blocked in get stand in line once each, a receive   *)
(* has a result exactly when it returns, and stop is set before a receive  *)
(* is told that it won.                                                    *)
THEOREM ChannelInvariant == Spec => []Inv
  BY InvInit, InvNext, PTL DEF Spec

(* The state has its types; the queue stays within its maxsize.            *)
THEOREM ChannelTypes == Spec => []TypeOK
<1>1. Inv => TypeOK
  BY DEF Inv
<1> QED
  BY <1>1, ChannelInvariant, PTL

-----------------------------------------------------------------------------
(* The refinement: what JobQueue's variables are, and its steps on them.   *)
Results == [c \in Consumers |-> Promised(c)]

Lost == {task[t].item : t \in {u \in Ghosts : task[u].st = "got"}}

LEMMA QueueInit ==
    ASSUME queue = <<>>, stop = FALSE, Results = [c \in Consumers |-> Nothing],
           received = {}, Cardinality(Unserved) = 0, Lost = {}
    PROVE  Queue!Init
  BY DEF Queue!Init, Results, Unserved, Lost

LEMMA QueueStutter ==
    ASSUME UNCHANGED <<queue, stop, received>>, Results' = Results,
           Unserved' = Unserved, Lost' = Lost
    PROVE  UNCHANGED Queue!vars
  BY DEF Queue!vars, Results, Unserved, Lost

LEMMA QueueAccept ==
    ASSUME NEW v \in Items, ~stop, MaxSize = 0 \/ Len(queue) < MaxSize, queue' = Append(queue, v),
           UNCHANGED <<stop, received>>, Results' = Results, Unserved' = Unserved, Lost' = Lost
    PROVE  Queue!Next
  BY DEF Queue!Next, Queue!Accept, Results, Unserved, Lost

LEMMA QueueStop ==
    ASSUME stop' = TRUE, UNCHANGED <<queue, received>>,
           Results' = Results, Unserved' = Unserved, Lost' = Lost
    PROVE  Queue!Next
  BY DEF Queue!Next, Queue!Stop, Results, Unserved, Lost

LEMMA QueueTake ==
    ASSUME NEW c \in Consumers, Results[c] = Nothing, queue # <<>>,
           Results' = [Results EXCEPT ![c] = Head(queue)], queue' = Tail(queue),
           UNCHANGED <<stop, received>>, Unserved' = Unserved, Lost' = Lost
    PROVE  Queue!Next
  BY DEF Queue!Next, Queue!Take, Results, Unserved, Lost

LEMMA QueueSayStopped ==
    ASSUME NEW c \in Consumers, Results[c] = Nothing, stop, queue = <<>>,
           Results' = [Results EXCEPT ![c] = Stopped],
           UNCHANGED <<queue, stop, received>>, Unserved' = Unserved, Lost' = Lost
    PROVE  Queue!Next
  BY DEF Queue!Next, Queue!SayStopped, Results, Unserved, Lost

LEMMA QueueDeliver ==
    ASSUME NEW c \in Consumers, Results[c] # Nothing, Results' = [Results EXCEPT ![c] = Nothing],
           received' = received \cup ({Results[c]} \ {Stopped}),
           UNCHANGED <<queue, stop>>, Unserved' = Unserved, Lost' = Lost
    PROVE  Queue!Next
  BY DEF Queue!Next, Queue!Deliver, Results, Unserved, Lost

LEMMA QueueGiveUp ==
    ASSUME NEW c \in Consumers, Results' = [Results EXCEPT ![c] = Nothing],
           \/ /\ Results[c] = Nothing
              /\ Cardinality(Unserved') = Cardinality(Unserved) + 1
              /\ Lost' = Lost
           \/ /\ Results[c] \in Items
              /\ Unserved' = Unserved
              /\ Lost' = Lost \cup {Results[c]},
           UNCHANGED <<queue, stop, received>>
    PROVE  Queue!Next
  BY DEF Queue!Next, Queue!GiveUp, Results, Unserved, Lost

LEMMA QueueLose ==
    ASSUME Cardinality(Unserved) > 0, queue # <<>>,
           Cardinality(Unserved') = Cardinality(Unserved) - 1,
           Lost' = Lost \cup {Head(queue)}, queue' = Tail(queue),
           UNCHANGED <<stop, received>>, Results' = Results
    PROVE  Queue!Next
  BY DEF Queue!Next, Queue!Lose, Results, Unserved, Lost

-----------------------------------------------------------------------------
GotSame(t) ==
    /\ task'[t].st = "got" <=> task[t].st = "got"
    /\ task[t].st = "got" => task'[t].item = task[t].item

LEMMA PromisedSame ==
    ASSUME NEW d \in Consumers, result'[d] = result[d], givenUp'[d] = givenUp[d],
           GotSame(Mine(d))
    PROVE  Promised(d)' = Promised(d)
<1>1. Mine(d)' = Mine(d)
  BY DEF Mine
<1> QED
  BY <1>1 DEF Promised, GotSame

LEMMA GhostsSame ==
    ASSUME givenUp' = givenUp, \A t \in Ghosts : GotSame(t)
    PROVE  Unserved' = Unserved /\ Lost' = Lost
<1>1. Ghosts' = Ghosts
  BY DEF Ghosts
<1>2. Unserved' = Unserved
  BY <1>1 DEF Unserved, GotSame
<1>3. {u \in Ghosts : task[u].st = "got"}' = {u \in Ghosts : task[u].st = "got"}
  BY <1>1 DEF GotSame
<1>4. Lost' = Lost
  BY <1>3 DEF Lost, GotSame
<1> QED
  BY <1>2, <1>4

LEMMA ResultsSet ==
    ASSUME NEW c \in Consumers, NEW x, Promised(c)' = x,
           \A d \in Consumers : d # c => Promised(d)' = Promised(d)
    PROVE  Results' = [Results EXCEPT ![c] = x]
  BY DEF Results

LEMMA SameAbs ==
    ASSUME TypeOK, UNCHANGED <<givenUp, result>>, \A t \in Tasks : GotSame(t)
    PROVE  Results' = Results /\ Unserved' = Unserved /\ Lost' = Lost
<1>1. \A d \in Consumers : GotSame(Mine(d))
  BY Tasking
<1>2. \A d \in Consumers : Promised(d)' = Promised(d)
  BY <1>1, PromisedSame
<1>3. Results' = Results
  BY <1>2 DEF Results
<1>4. \A t \in Ghosts : GotSame(t)
  BY DEF Ghosts
<1> QED
  BY <1>3, <1>4, GhostsSame

(* A step of c's receive that changes no other task moves c's result only. *)
LEMMA AloneAbs ==
    ASSUME TypeOK, NEW c \in Consumers, givenUp' = givenUp,
           \A d \in Consumers : d # c => result'[d] = result[d],
           \A t \in Tasks : t # Mine(c) => task'[t] = task[t]
    PROVE  /\ Unserved' = Unserved /\ Lost' = Lost
           /\ Results' = [Results EXCEPT ![c] = Promised(c)']
<1>1. \A t \in Tasks : t # Mine(c) => GotSame(t)
  BY DEF GotSame
<1>2. \A t \in Ghosts : t \in Tasks /\ t # Mine(c)
  BY Tasking DEF Ghosts
<1>3. Unserved' = Unserved /\ Lost' = Lost
  BY <1>1, <1>2, GhostsSame
<1>4. ASSUME NEW d \in Consumers, d # c PROVE Promised(d)' = Promised(d)
  <2>1. Mine(d) \in Tasks /\ Mine(d) # Mine(c)
    BY <1>4, Tasking DEF Mine
  <2> QED
    BY <1>1, <1>4, <2>1, PromisedSame
<1>5. Results' = [Results EXCEPT ![c] = Promised(c)']
  BY <1>4 DEF Results
<1> QED
  BY <1>3, <1>5

-----------------------------------------------------------------------------
(* A task that takes an item fixes the result of its receive; the task of  *)
(* a receive that was given up loses it.                                   *)
LEMMA GetRefines ==
    ASSUME Inv, NEW t \in Tasks, Get(t)
    PROVE  [Queue!Next]_(Queue!vars)
<1>1. TypeOK
  BY DEF Inv
<1>2. UNCHANGED <<stop, result, givenUp, received, sent>>
  BY DEF Get
<1>3. task[t].st \in {"new", "woken"}
  BY GetDoes
<1>4. CASE Got(t)
  <2>1. /\ queue # <<>> /\ queue' = Tail(queue)
        /\ task'[t].st = "got" /\ task'[t].item = Head(queue)
        /\ \A u \in Tasks : u # t => task'[u] = task[u]
    BY <1>4 DEF Got
  <2>2. PICK c \in Consumers, n \in Numbers : t = <<c, n>>
    BY <1>1, Tasking
  <2>3. n \in Int /\ givenUp[c] \in Int
    BY <1>1, Tasking
  <2>4. ~(n > givenUp[c])
    BY <1>3, <2>2 DEF Inv, Paced
  <2>5. CASE n = givenUp[c]
    <3>1. t = Mine(c)
      BY <2>2, <2>5 DEF Mine
    <3>2. pc[c] \in {"idle", "wait", "cancel", "return"}
      BY <1>1 DEF TypeOK
    <3>3. result[c] = Nothing
      BY <1>3, <3>1, <3>2 DEF Inv, Paced
    <3>4. Promised(c) = Nothing
      BY <1>3, <3>1, <3>3 DEF Promised
    <3>5. Mine(c)' = t
      BY <1>2, <3>1 DEF Mine
    <3>6. Promised(c)' = Head(queue)
      BY <1>2, <2>1, <3>3, <3>5 DEF Promised
    <3>7. /\ Unserved' = Unserved /\ Lost' = Lost
          /\ Results' = [Results EXCEPT ![c] = Promised(c)']
      BY <1>1, <1>2, <2>1, <3>1, AloneAbs
    <3>8. Results' = [Results EXCEPT ![c] = Head(queue)]
      BY <3>6, <3>7
    <3>9. Results[c] = Nothing
      BY <3>4 DEF Results
    <3> QED
      BY <1>2, <2>1, <3>7, <3>8, <3>9, QueueTake
  <2>6. CASE n < givenUp[c]
    <3>1. t \in Ghosts /\ \A d \in Consumers : Mine(d) \in Tasks /\ Mine(d) # t
      BY <1>1, <2>2, <2>6, Tasking
    <3>2. \A d \in Consumers : GotSame(Mine(d))
      BY <2>1, <3>1 DEF GotSame
    <3>3. \A d \in Consumers : Promised(d)' = Promised(d)
      BY <1>2, <3>2, PromisedSame
    <3>4. Results' = Results
      BY <3>3 DEF Results
    <3>5. Ghosts' = Ghosts /\ \A u \in Ghosts : u \in Tasks
      BY <1>2 DEF Ghosts
    <3>6. t \in Unserved /\ Unserved' = Unserved \ {t}
      BY <1>3, <2>1, <3>1, <3>5 DEF Unserved
    <3>7. IsFiniteSet(Unserved)
      BY DEF Inv
    <3>8. Cardinality(Unserved') = Cardinality(Unserved) - 1
      BY <3>6, <3>7, FS_RemoveElement
    <3>9. Cardinality(Unserved) > 0
      <4>1. Cardinality(Unserved) \in Nat /\ Cardinality(Unserved) # 0
        BY <3>6, <3>7, FS_CardinalityType, FS_EmptySet
      <4> QED
        BY <4>1
    <3>10. {u \in Ghosts : task[u].st = "got"}' = {u \in Ghosts : task[u].st = "got"} \cup {t}
      BY <2>1, <3>1, <3>5
    <3>11. Lost' = Lost \cup {Head(queue)}
      <4> DEFINE G == {u \in Ghosts : task[u].st = "got"}
      <4>1. G' = G \cup {t} /\ t \notin G /\ \A u \in G : u \in Tasks
        BY <1>3, <3>5, <3>10
      <4>2. Lost' = {task'[u].item : u \in G'} /\ Lost = {task[u].item : u \in G}
        BY DEF Lost
      <4> HIDE DEF G
      <4>3. \A u \in G : task'[u].item = task[u].item
        BY <2>1, <4>1
      <4> QED
        BY <2>1, <4>1, <4>2, <4>3
    <3> QED
      BY <1>2, <2>1, <3>4, <3>8, <3>9, <3>11, QueueLose
  <2> QED
    BY <2>3, <2>4, <2>5, <2>6
<1>5. CASE /\ queue' = queue /\ getters' = Append(getters, t)
           /\ task' \in [Tasks -> Task]
           /\ task'[t].st = "blocked" /\ task'[t].cancel = task[t].cancel
           /\ task'[t].item = task[t].item
           /\ \A u \in Tasks : u # t => task'[u] = task[u]
  <2>1. \A u \in Tasks : GotSame(u)
    BY <1>3, <1>5 DEF GotSame
  <2>2. Results' = Results /\ Unserved' = Unserved /\ Lost' = Lost
    BY <1>1, <1>2, <2>1, SameAbs
  <2> QED
    BY <1>2, <1>5, <2>2, QueueStutter
<1> QED
  BY <1>4, <1>5, GetDoes

LEMMA GetCancelledRefines ==
    ASSUME Inv, NEW t \in Tasks, GetCancelled(t)
    PROVE  UNCHANGED Queue!vars
<1>1. \A u \in Tasks : GotSame(u)
  BY GetCancelledDoes DEF GotSame
<1>2. UNCHANGED <<queue, stop, result, givenUp, received>>
  BY DEF GetCancelled
<1>3. Results' = Results /\ Unserved' = Unserved /\ Lost' = Lost
  BY <1>1, <1>2, SameAbs DEF Inv
<1> QED
  BY <1>2, <1>3, QueueStutter

LEMMA SendRefines ==
    ASSUME Inv, NEW v \in Items, Send(v)
    PROVE  Queue!Next
<1>1. \A u \in Tasks : GotSame(u)
  BY SendDoes DEF GotSame
<1>2. /\ UNCHANGED <<stop, result, givenUp, received>>
      /\ ~stop /\ ~Full /\ queue' = Append(queue, v)
  BY DEF Send
<1>3. Results' = Results /\ Unserved' = Unserved /\ Lost' = Lost
  BY <1>1, <1>2, SameAbs DEF Inv
<1>4. Len(queue) \in Nat
  BY LenProperties DEF Inv, TypeOK
<1>5. MaxSize = 0 \/ Len(queue) < MaxSize
  BY <1>2, <1>4, ChannelAssumption DEF Full
<1> QED
  BY <1>2, <1>3, <1>5, QueueAccept

LEMMA UntouchedAbs ==
    ASSUME Inv, UNCHANGED <<task, result, givenUp>>
    PROVE  Results' = Results /\ Unserved' = Unserved /\ Lost' = Lost
<1>1. \A u \in Tasks : GotSame(u)
  BY DEF GotSame
<1> QED
  BY <1>1, SameAbs DEF Inv

LEMMA CancelPendingRefines ==
    ASSUME Inv, NEW c \in Consumers, CancelPending(c)
    PROVE  UNCHANGED Queue!vars
<1>1. PICK m \in Tasks : m = Mine(c)
  BY Tasking DEF Inv
<1>2. \A u \in Tasks : GotSame(u)
  BY <1>1, CancelPendingDoes DEF GotSame
<1>3. UNCHANGED <<queue, stop, result, givenUp, received>>
  BY DEF CancelPending
<1>4. Results' = Results /\ Unserved' = Unserved /\ Lost' = Lost
  BY <1>2, <1>3, SameAbs DEF Inv
<1> QED
  BY <1>3, <1>4, QueueStutter

(* get_nowait after stop takes an item, or says that there is none.        *)
LEMMA NowRefines ==
    ASSUME Inv, NEW c \in Consumers, stop, Promised(c) = Nothing, result'[c] # Nothing, Now(c),
           UNCHANGED <<stop, received, givenUp>>,
           \A d \in Consumers : d # c => result'[d] = result[d],
           \A t \in Tasks : t # Mine(c) => task'[t] = task[t]
    PROVE  Queue!Next
<1>1. Promised(c)' = result'[c]
  BY DEF Promised
<1>2. /\ Unserved' = Unserved /\ Lost' = Lost
      /\ Results' = [Results EXCEPT ![c] = Promised(c)']
  BY AloneAbs DEF Inv
<1>3. Results' = [Results EXCEPT ![c] = result'[c]]
  BY <1>1, <1>2
<1>4. Results[c] = Nothing
  BY DEF Results
<1>5. CASE queue = <<>> /\ queue' = queue /\ result'[c] = Stopped
  <2>1. Results' = [Results EXCEPT ![c] = Stopped]
    BY <1>3, <1>5
  <2> QED
    BY <1>2, <1>4, <1>5, <2>1, QueueSayStopped
<1>6. CASE queue # <<>> /\ queue' = Tail(queue) /\ result'[c] = Head(queue)
  <2>1. Results' = [Results EXCEPT ![c] = Head(queue)]
    BY <1>3, <1>6
  <2> QED
    BY <1>2, <1>4, <1>6, <2>1, QueueTake
<1> QED
  BY <1>5, <1>6 DEF Now

LEMMA ReceiveRefines ==
    ASSUME Inv, NEW c \in Consumers, Receive(c)
    PROVE  [Queue!Next]_(Queue!vars)
<1>1. TypeOK /\ Paced(c)
  BY DEF Inv
<1>2. PICK m \in Tasks : m = Mine(c)
  BY <1>1, Tasking
<1>3. UNCHANGED <<stop, givenUp, sent, received>> /\ pc[c] = "idle"
  BY DEF Receive
<1>4. task[m].st = "none" /\ result[c] = Nothing
  BY <1>1, <1>2, <1>3 DEF Paced
<1>5. CASE /\ stop /\ GetNowait(c) /\ pc' = [pc EXCEPT ![c] = "return"]
           /\ UNCHANGED <<task, stopTask>>
  <2>1. Now(c) /\ result'[c] # Nothing /\ \A d \in Consumers : d # c => result'[d] = result[d]
    BY <1>3, <1>5, GetNowaitDoes
  <2>2. Promised(c) = Nothing
    BY <1>2, <1>4 DEF Promised
  <2> QED
    BY <1>3, <1>5, <2>1, <2>2, NowRefines
<1>6. CASE Starts(c)
  <2>1. \A u \in Tasks : GotSame(u)
    BY <1>2, <1>4, <1>6 DEF Starts, GotSame
  <2>2. UNCHANGED <<queue, result>>
    BY <1>6 DEF Starts
  <2>3. Results' = Results /\ Unserved' = Unserved /\ Lost' = Lost
    BY <1>1, <1>3, <2>1, <2>2, SameAbs
  <2> QED
    BY <1>3, <2>2, <2>3, QueueStutter
<1> QED
  BY <1>5, <1>6, ReceiveDoes

(* A get that completed has fixed the result already; one that was         *)
(* cancelled was so because stop won.                                      *)
LEMMA FinishRefines ==
    ASSUME Inv, NEW c \in Consumers, Finish(c)
    PROVE  [Queue!Next]_(Queue!vars)
<1>1. TypeOK /\ Paced(c)
  BY DEF Inv
<1>2. PICK m \in Tasks : m = Mine(c)
  BY <1>1, Tasking
<1>3. /\ UNCHANGED <<stop, givenUp, sent, received>>
      /\ pc[c] = "cancel" /\ task[m].st \in {"got", "cancelled"}
      /\ IF task[m].st = "got"
         THEN result' = [result EXCEPT ![c] = task[m].item] /\ queue' = queue
         ELSE GetNowait(c)
  BY <1>2 DEF Finish
<1>4. \A t \in Tasks : t # m => task'[t] = task[t]
  BY <1>2, FinishDoes
<1>5. result[c] = Nothing /\ (task[m].cancel = TRUE => stop = TRUE) /\ Sound(m)
  BY <1>1, <1>2, <1>3 DEF Paced, Inv
<1>6. CASE task[m].st = "got"
  <2>1. task[m].item # Nothing
    BY <1>1, <1>5, <1>6, ChannelAssumption DEF Sound, TypeOK
  <2>2. queue' = queue /\ result' = [result EXCEPT ![c] = task[m].item]
    BY <1>3, <1>6
  <2>3. result'[c] = task[m].item /\ \A d \in Consumers : d # c => result'[d] = result[d]
    BY <1>1, <2>2 DEF TypeOK
  <2>4. Promised(c) = task[m].item
    BY <1>2, <1>5, <1>6 DEF Promised
  <2>5. Promised(c)' = task[m].item
    BY <2>1, <2>3 DEF Promised
  <2>6. /\ Unserved' = Unserved /\ Lost' = Lost
        /\ Results' = [Results EXCEPT ![c] = Promised(c)']
    BY <1>1, <1>2, <1>3, <1>4, <2>3, AloneAbs
  <2>7. Results' = Results
    BY <2>4, <2>5, <2>6 DEF Results
  <2> QED
    BY <1>3, <2>2, <2>6, <2>7, QueueStutter
<1>7. CASE task[m].st = "cancelled"
  <2>1. stop
    BY <1>5, <1>7 DEF Sound
  <2>2. GetNowait(c)
    BY <1>3, <1>7
  <2>3. Now(c) /\ result'[c] # Nothing /\ \A d \in Consumers : d # c => result'[d] = result[d]
    BY <1>3, <2>2, GetNowaitDoes
  <2>4. Promised(c) = Nothing
    BY <1>2, <1>5, <1>7 DEF Promised
  <2> QED
    BY <1>2, <1>3, <1>4, <2>1, <2>3, <2>4, NowRefines
<1> QED
  BY <1>3, <1>6, <1>7

LEMMA ReturnRefines ==
    ASSUME Inv, NEW c \in Consumers, Return(c)
    PROVE  Queue!Next
<1>1. TypeOK /\ Paced(c)
  BY DEF Inv
<1>2. /\ UNCHANGED <<queue, stop, task, givenUp>>
      /\ pc[c] = "return" /\ result' = [result EXCEPT ![c] = Nothing]
      /\ received' = received \cup ({result[c]} \ {Stopped})
  BY DEF Return
<1>3. task[Mine(c)].st = "none" /\ result[c] # Nothing
  BY <1>1, <1>2 DEF Paced
<1>4. result'[c] = Nothing /\ \A d \in Consumers : d # c => result'[d] = result[d]
  BY <1>1, <1>2 DEF TypeOK
<1>5. Mine(c)' = Mine(c)
  BY <1>2 DEF Mine
<1>6. Promised(c) = result[c] /\ Promised(c)' = Nothing
  BY <1>2, <1>3, <1>4, <1>5 DEF Promised
<1>7. /\ Unserved' = Unserved /\ Lost' = Lost
      /\ Results' = [Results EXCEPT ![c] = Promised(c)']
  BY <1>1, <1>2, <1>4, AloneAbs
<1>8. Results' = [Results EXCEPT ![c] = Nothing] /\ Results[c] = result[c]
  BY <1>6, <1>7 DEF Results
<1> QED
  BY <1>2, <1>3, <1>7, <1>8, QueueDeliver

LEMMA GiveUpRefines ==
    ASSUME Inv, NEW c \in Consumers, GiveUp(c)
    PROVE  Queue!Next
<1>1. TypeOK /\ Paced(c)
  BY DEF Inv
<1>2. PICK m \in Tasks : m = Mine(c)
  BY <1>1, Tasking
<1>3. UNCHANGED <<queue, stop, task, result, received>> /\ pc[c] = "wait"
  BY DEF GiveUp
<1>4. /\ givenUp'[c] = givenUp[c] + 1 /\ givenUp'[c] \in Numbers
      /\ \A d \in Consumers : d # c => givenUp'[d] = givenUp[d]
      /\ Ghosts' = Ghosts \cup {m} /\ m \notin Ghosts
  BY <1>1, <1>2, GiveUpDoes, Tasking
<1>5. result[c] = Nothing /\ Sound(m)
  BY <1>1, <1>3 DEF Paced, Inv
<1>6. ASSUME NEW d \in Consumers, d # c PROVE Promised(d)' = Promised(d)
  BY <1>3, <1>4, <1>6, PromisedSame DEF GotSame
<1>7. Promised(c)' = Nothing
  <2>1. givenUp[c] \in Int /\ \A n \in Numbers : n > givenUp[c] => task[<<c, n>>].st = "none"
    BY <1>1, Tasking DEF Paced
  <2>2. task'[<<c, givenUp'[c]>>].st = "none"
    BY <1>3, <1>4, <2>1
  <2>3. Mine(c)' = <<c, givenUp'[c]>>
    BY DEF Mine
  <2> QED
    BY <1>3, <1>5, <2>2, <2>3 DEF Promised
<1>8. Results' = [Results EXCEPT ![c] = Nothing]
  BY <1>6, <1>7, ResultsSet
<1> DEFINE G == {u \in Ghosts : task[u].st = "got"}
<1>9. Lost = {task[u].item : u \in G} /\ Lost' = {task[u].item : u \in G'}
  BY <1>3 DEF Lost
<1>10. CASE task[m].st = "got"
  <2>1. Results[c] = task[m].item
    BY <1>2, <1>5, <1>10 DEF Results, Promised
  <2>2. task[m].item \in Items
    BY <1>1, <1>5, <1>10 DEF Sound, TypeOK
  <2>3. Unserved' = Unserved
    BY <1>3, <1>4, <1>10 DEF Unserved
  <2>4. G' = G \cup {m}
    BY <1>3, <1>4, <1>10
  <2>5. Lost' = Lost \cup {task[m].item}
    <3> HIDE DEF G
    <3> QED
      BY <1>9, <2>4
  <2> QED
    BY <1>3, <1>8, <2>1, <2>2, <2>3, <2>5, QueueGiveUp
<1>11. CASE task[m].st # "got"
  <2>1. Results[c] = Nothing
    BY <1>2, <1>5, <1>11 DEF Results, Promised
  <2>2. Unserved' = Unserved \cup {m} /\ m \notin Unserved
    BY <1>3, <1>4, <1>11 DEF Unserved
  <2>3. Cardinality(Unserved') = Cardinality(Unserved) + 1
    BY <2>2, FS_AddElement DEF Inv
  <2>4. G' = G
    BY <1>3, <1>4, <1>11
  <2>5. Lost' = Lost
    <3> HIDE DEF G
    <3> QED
      BY <1>9, <2>4
  <2> QED
    BY <1>3, <1>8, <2>1, <2>3, <2>5, QueueGiveUp
<1> QED
  BY <1>10, <1>11

LEMMA InitRefines ==
    ASSUME Init
    PROVE  Queue!Init
<1>1. TypeOK
  BY InvInit DEF Inv
<1>2. \A c \in Consumers : Mine(c) \in Tasks
  BY <1>1, Tasking
<1>3. \A c \in Consumers : Promised(c) = Nothing
  BY <1>2 DEF Init, Promised, NoTask
<1>4. Results = [c \in Consumers |-> Nothing]
  BY <1>3 DEF Results
<1>5. Ghosts = {}
  BY DEF Init, Ghosts, Tasks
<1>6. Unserved = {} /\ Lost = {}
  BY <1>5 DEF Unserved, Lost
<1>7. Cardinality(Unserved) = 0
  BY <1>6, FS_EmptySet
<1> QED
  BY <1>4, <1>6, <1>7, QueueInit DEF Init

LEMMA StepRefines ==
    ASSUME Inv, [Next]_vars
    PROVE  [Queue!Next]_(Queue!vars)
<1>1. ASSUME UNCHANGED <<queue, stop, task, result, givenUp, received>>
      PROVE  UNCHANGED Queue!vars
  BY <1>1, UntouchedAbs, QueueStutter
<1>2. CASE UNCHANGED vars
  BY <1>1, <1>2 DEF vars
<1>3. CASE RequestStop
  <2>1. stop' = TRUE /\ UNCHANGED <<queue, task, result, givenUp, received>>
    BY <1>3 DEF RequestStop
  <2>2. Results' = Results /\ Unserved' = Unserved /\ Lost' = Lost
    BY <2>1, UntouchedAbs
  <2> QED
    BY <2>1, <2>2, QueueStop
<1>4. ASSUME NEW c \in Consumers, StopWaited(c) PROVE UNCHANGED Queue!vars
  BY <1>1, <1>4 DEF StopWaited
<1>5. ASSUME NEW c \in Consumers, CancelPending(c) \/ Finish(c) \/ Receive(c) \/ Return(c) \/ GiveUp(c)
      PROVE  [Queue!Next]_(Queue!vars)
  BY <1>5, CancelPendingRefines, FinishRefines, ReceiveRefines, ReturnRefines,
     GiveUpRefines
<1>6. ASSUME NEW t \in Tasks, Get(t) \/ GetCancelled(t) PROVE [Queue!Next]_(Queue!vars)
  BY <1>6, GetRefines, GetCancelledRefines
<1>7. ASSUME NEW v \in Items, Send(v) PROVE Queue!Next
  BY <1>7, SendRefines
<1> QED
  BY <1>2, <1>3, <1>4, <1>5, <1>6, <1>7 DEF Next, Loop

(* Channel.receive implements the one atomic queue of JobQueue for every   *)
(* number of consumers, of items and of receives given up: racing the get  *)
(* task against the stop task loses no item but those taken for a receive  *)
(* its caller gave up, at most one for each, keeps the order, and says     *)
(* "stopped" only when the channel has stopped and is empty.               *)
THEOREM ChannelIsAQueue == Spec => QueueSpec
<1>1. Init => Queue!Init
  BY InitRefines
<1>2. Inv /\ [Next]_vars => [Queue!Next]_(Queue!vars)
  BY StepRefines
<1> QED
  BY <1>1, <1>2, ChannelInvariant, PTL DEF Spec, QueueSpec, Queue!Spec

-----------------------------------------------------------------------------
(* No wake-up is lost.                                                     *)

(* A get that is blocked and was not cancelled.                            *)
Pending(t) == task[t].st = "blocked" /\ ~task[t].cancel

(* Every pending get stands in line, where the next wake-up finds it.      *)
InLine == \A t \in Tasks : Pending(t) => \E i \in 1 .. Len(getters) : getters[i] = t

WakeInv == InLine /\ IsFiniteSet(Woken) /\ NoWakeUpLost

LEMMA WakeInit ==
    ASSUME Init
    PROVE  WakeInv
<1>1. \A t \in Tasks : task[t].st = "none"
  BY DEF Init, NoTask
<1>2. Woken = {}
  BY <1>1 DEF Woken
<1> QED
  BY <1>1, <1>2, FS_EmptySet DEF WakeInv, InLine, Pending, NoWakeUpLost

(* A step after which no more items wait, and no more gets, for the same   *)
(* getters that were woken.                                                *)
LEMMA WakeKept ==
    ASSUME Inv, WakeInv, getters' = getters, Len(queue') \in Nat, Len(queue') <= Len(queue),
           \A t \in Tasks : /\ task'[t].st = "woken" <=> task[t].st = "woken"
                            /\ Pending(t)' => Pending(t)
    PROVE  WakeInv'
<1>1. Woken' = Woken
  BY DEF Woken
<1>2. Len(queue) \in Nat /\ Cardinality(Woken) \in Nat
  BY LenProperties, FS_CardinalityType DEF Inv, TypeOK, WakeInv
<1>3. InLine'
  BY DEF InLine, WakeInv
<1>4. ASSUME NEW t \in Tasks, Pending(t)' PROVE Len(queue') <= Cardinality(Woken')
  <2>1. Len(queue) <= Cardinality(Woken)
    BY <1>4 DEF WakeInv, NoWakeUpLost, Pending
  <2> QED
    BY <1>1, <1>2, <2>1
<1>5. NoWakeUpLost'
  BY <1>4 DEF NoWakeUpLost, Pending
<1> QED
  BY <1>1, <1>3, <1>5 DEF WakeInv

(* _wakeup_next: the first pending get of the line is woken, and the rest  *)
(* of the line is left; if there is none nothing was pending in it.        *)
Wakes(gs, ts) ==
    \/ task' = ts /\ \A i \in 1 .. Len(gs) : ts[gs[i]].cancel
    \/ \E t \in Tasks :
         /\ ts[t].st = "blocked" /\ ~ts[t].cancel
         /\ \E i \in 1 .. Len(gs) : gs[i] = t
         /\ task'[t].st = "woken"
         /\ \A u \in Tasks : u # t => task'[u] = ts[u]
         /\ \A i \in 1 .. Len(gs) : ts[gs[i]].cancel \/ gs[i] = t
               \/ \E j \in 1 .. Len(getters') : getters'[j] = gs[i]

LEMMA WakeNextWakes ==
    ASSUME NEW gs \in Seq(Tasks), NEW ts \in [Tasks -> Task],
           \A i \in 1 .. Len(gs) : ts[gs[i]].st = "blocked",
           WakeNext(gs, ts)
    PROVE  Wakes(gs, ts)
<1> DEFINE k == FirstAwake(gs, ts)
<1>1. Len(gs) \in Nat /\ \A i \in 1 .. Len(gs) : gs[i] \in Tasks
  BY LenProperties, ElementOfSeq
<1>2. /\ k \in 0 .. Len(gs)
      /\ k # 0 => ~ts[gs[k]].cancel
      /\ \A i \in 1 .. Len(gs) : k = 0 \/ i < k => ts[gs[i]].cancel
  BY FirstAwakeDoes
<1>3. IF k = 0
      THEN getters' = <<>> /\ task' = ts
      ELSE /\ getters' = SubSeq(gs, k + 1, Len(gs))
           /\ task' = [ts EXCEPT ![gs[k]].st = "woken"]
  BY DEF WakeNext, FirstAwake
<1> HIDE DEF k
<1>4. CASE k = 0
  BY <1>2, <1>3, <1>4 DEF Wakes
<1>5. CASE k # 0
  <2>1. k \in 1 .. Len(gs) /\ k + 1 \in 1 .. Len(gs) + 1
    BY <1>1, <1>2, <1>5
  <2>2. PICK t \in Tasks : t = gs[k]
    BY <1>1, <2>1
  <2>3. ts[t].st = "blocked" /\ ~ts[t].cancel
    BY <1>2, <1>5, <2>1, <2>2
  <2>4. task'[t].st = "woken" /\ \A u \in Tasks : u # t => task'[u] = ts[u]
    <3>1. task' = [ts EXCEPT ![t].st = "woken"] /\ "woken" \in States
      BY <1>3, <1>5, <2>2 DEF States
    <3> QED
      BY <3>1, SetSt
  <2>5. /\ Len(getters') = Len(gs) - (k + 1) + 1
        /\ \A i \in 1 .. Len(gs) - (k + 1) + 1 : getters'[i] = gs[k + 1 + i - 1]
    <3>1. getters' = SubSeq(gs, k + 1, Len(gs))
      BY <1>3, <1>5
    <3>2. /\ Len(SubSeq(gs, k + 1, Len(gs))) = Len(gs) - (k + 1) + 1
          /\ \A i \in 1 .. Len(gs) - (k + 1) + 1 :
                SubSeq(gs, k + 1, Len(gs))[i] = gs[k + 1 + i - 1]
      BY <2>1, SubSeqKeeps
    <3> QED
      BY <3>1, <3>2
  <2>6. ASSUME NEW i \in 1 .. Len(gs), ~ts[gs[i]].cancel, gs[i] # t
        PROVE  \E j \in 1 .. Len(getters') : getters'[j] = gs[i]
    <3>1. ~(i < k) /\ i # k
      BY <1>2, <2>2, <2>6
    <3>2. i \in Int /\ k \in Int /\ k < i /\ i <= Len(gs)
      BY <1>1, <2>1, <3>1
    <3>3. i - k \in 1 .. Len(gs) - (k + 1) + 1 /\ k + 1 + (i - k) - 1 = i
      BY <1>1, <3>2
    <3>4. getters'[i - k] = gs[k + 1 + (i - k) - 1]
      BY <2>5, <3>3
    <3> QED
      BY <2>5, <3>3, <3>4
  <2> QED
    BY <2>1, <2>2, <2>3, <2>4, <2>6 DEF Wakes
<1> QED
  BY <1>4, <1>5

-----------------------------------------------------------------------------
LEMMA SendWakes ==
    ASSUME Inv, WakeInv, NEW v \in Items, Send(v)
    PROVE  WakeInv'
<1>1. Wakes(getters, task)
  <2>1. /\ getters \in Seq(Tasks) /\ task \in [Tasks -> Task] /\ WakeNext(getters, task)
        /\ \A i \in 1 .. Len(getters) : task[getters[i]].st = "blocked"
    BY DEF Inv, TypeOK, Line, Send
  <2> QED
    BY <2>1, WakeNextWakes
<1>2. Len(queue) \in Nat /\ Len(queue') = Len(queue) + 1
  BY LenProperties, AppendProperties DEF Inv, TypeOK, Send
<1>3. IsFiniteSet(Woken) /\ Cardinality(Woken) \in Nat
  BY FS_CardinalityType DEF WakeInv
<1>4. CASE task' = task /\ \A i \in 1 .. Len(getters) : task[getters[i]].cancel
  <2>1. \A t \in Tasks : ~Pending(t)'
    BY <1>4 DEF WakeInv, InLine, Pending
  <2>2. Woken' = Woken
    BY <1>4 DEF Woken
  <2> QED
    BY <1>3, <2>1, <2>2 DEF WakeInv, InLine, NoWakeUpLost, Pending
<1>5. ASSUME NEW t \in Tasks, Pending(t), task'[t].st = "woken",
             \A u \in Tasks : u # t => task'[u] = task[u],
             \A i \in 1 .. Len(getters) : task[getters[i]].cancel \/ getters[i] = t
               \/ \E j \in 1 .. Len(getters') : getters'[j] = getters[i]
      PROVE  WakeInv'
  <2>1. Woken' = Woken \cup {t} /\ t \notin Woken
    BY <1>5 DEF Woken, Pending
  <2>2. IsFiniteSet(Woken') /\ Cardinality(Woken') = Cardinality(Woken) + 1
    BY <1>3, <2>1, FS_AddElement
  <2>3. Len(queue) <= Cardinality(Woken)
    BY <1>5 DEF WakeInv, NoWakeUpLost, Pending
  <2>4. NoWakeUpLost'
    BY <1>2, <1>3, <2>2, <2>3 DEF NoWakeUpLost
  <2>5. ASSUME NEW u \in Tasks, Pending(u)'
        PROVE  \E i \in 1 .. Len(getters') : getters'[i] = u
    <3>1. u # t /\ Pending(u)
      BY <1>5, <2>5 DEF Pending
    <3>2. PICK i \in 1 .. Len(getters) : getters[i] = u
      BY <3>1 DEF WakeInv, InLine
    <3> QED
      BY <1>5, <3>1, <3>2 DEF Pending
  <2> QED
    BY <2>2, <2>4, <2>5 DEF WakeInv, InLine
<1> QED
  BY <1>1, <1>4, <1>5 DEF Wakes, Pending

LEMMA GetWakes ==
    ASSUME Inv, WakeInv, NEW t \in Tasks, Get(t)
    PROVE  WakeInv'
<1>1. IsFiniteSet(Woken) /\ Cardinality(Woken) \in Nat
  BY FS_CardinalityType DEF WakeInv
<1>2. task[t].st \in {"new", "woken"} /\ task[t].cancel = FALSE
  BY GetDoes
<1>3. queue \in Seq(Items) /\ getters \in Seq(Tasks) /\ Len(queue) \in Nat /\ Len(getters) \in Nat
  BY LenProperties DEF Inv, TypeOK
<1>4. CASE Got(t)
  <2>1. /\ \A u \in Tasks : u # t => task'[u] = task[u]
        /\ task'[t].st = "got" /\ getters' = getters /\ queue # <<>> /\ queue' = Tail(queue)
    BY <1>4 DEF Got
  <2>2. Woken' = Woken \ {t}
    BY <2>1 DEF Woken
  <2>3. /\ IsFiniteSet(Woken') /\ Cardinality(Woken') \in Nat
        /\ Cardinality(Woken') >= Cardinality(Woken) - 1
    <3>1. /\ IsFiniteSet(Woken \ {t})
          /\ Cardinality(Woken \ {t}) \in {Cardinality(Woken), Cardinality(Woken) - 1}
      BY <1>1, FS_RemoveElement
    <3> QED
      BY <1>1, <2>2, <3>1, FS_CardinalityType
  <2>4. Len(queue') = Len(queue) - 1
    BY <1>3, <2>1, TailDoes
  <2>5. \A u \in Tasks : Pending(u)' => Pending(u)
    BY <2>1 DEF Pending
  <2>6. NoWakeUpLost'
    <3> SUFFICES ASSUME NEW u \in Tasks, Pending(u) PROVE Len(queue') <= Cardinality(Woken')
      BY <2>5 DEF NoWakeUpLost, Pending
    <3>1. Len(queue) <= Cardinality(Woken)
      BY DEF WakeInv, NoWakeUpLost, Pending
    <3> QED
      BY <1>1, <1>3, <2>3, <2>4, <3>1
  <2> QED
    BY <2>1, <2>3, <2>5, <2>6 DEF WakeInv, InLine
<1>5. CASE queue = <<>>
  <2>1. queue' = queue /\ getters' = Append(getters, t) /\ task' = [task EXCEPT ![t].st = "blocked"]
    BY <1>5 DEF Get
  <2>2. /\ task'[t].st = "blocked" /\ \A u \in Tasks : u # t => task'[u] = task[u]
    <3>1. task \in [Tasks -> Task] /\ "blocked" \in States
      BY DEF Inv, TypeOK, States
    <3> QED
      BY <2>1, <3>1, SetSt
  <2>3. Woken' = Woken \ {t}
    BY <2>2 DEF Woken
  <2>4. IsFiniteSet(Woken') /\ Cardinality(Woken') \in Nat
    BY <1>1, <2>3, FS_RemoveElement, FS_CardinalityType
  <2>5. Len(queue') = 0
    BY <1>5, <2>1
  <2>6. /\ Len(getters') = Len(getters) + 1 /\ getters'[Len(getters) + 1] = t
        /\ \A i \in 1 .. Len(getters) : getters'[i] = getters[i]
    BY <1>3, <2>1, AppendProperties
  <2>7. ASSUME NEW u \in Tasks, Pending(u)'
        PROVE  \E i \in 1 .. Len(getters') : getters'[i] = u
    <3>1. CASE u = t
      BY <1>3, <2>6, <3>1
    <3>2. CASE u # t
      <4>1. PICK i \in 1 .. Len(getters) : getters[i] = u
        BY <2>2, <2>7, <3>2 DEF WakeInv, InLine, Pending
      <4> QED
        BY <1>3, <2>6, <4>1
    <3> QED
      BY <3>1, <3>2
  <2> QED
    BY <2>4, <2>5, <2>7 DEF WakeInv, InLine, NoWakeUpLost
<1> QED
  BY <1>4, <1>5, GetDoes DEF Get

(* The wake-up that a cancelled get had is passed on.                      *)
LEMMA GetCancelledWakes ==
    ASSUME Inv, WakeInv, NEW t \in Tasks, GetCancelled(t)
    PROVE  WakeInv'
<1> DEFINE gs == RemoveFirst(getters, t)
           ts == [task EXCEPT ![t].st = "cancelled"]
<1>1. IsFiniteSet(Woken) /\ Cardinality(Woken) \in Nat
  BY FS_CardinalityType DEF WakeInv
<1>2. /\ task \in [Tasks -> Task] /\ getters \in Seq(Tasks) /\ Distinct(getters)
      /\ task[t].cancel /\ queue' = queue
  BY DEF Inv, TypeOK, Line, GetCancelled
<1>3. /\ ts \in [Tasks -> Task] /\ ts[t].st = "cancelled"
      /\ \A u \in Tasks : u # t => ts[u] = task[u]
  <2>1. ts = [task EXCEPT ![t].st = "cancelled"] /\ "cancelled" \in States
    BY DEF States
  <2> HIDE DEF ts
  <2> QED
    BY <1>2, <2>1, SetSt
<1>4. /\ gs \in Seq(Tasks)
      /\ \A i \in 1 .. Len(gs) : gs[i] # t /\ \E j \in 1 .. Len(getters) : gs[i] = getters[j]
      /\ \A j \in 1 .. Len(getters) : getters[j] # t => \E i \in 1 .. Len(gs) : gs[i] = getters[j]
  BY <1>2, RemoveFirstDoes
<1>5. IF task[t].st = "woken" /\ queue # <<>>
      THEN WakeNext(gs, ts)
      ELSE getters' = gs /\ task' = ts
  BY DEF GetCancelled
<1> HIDE DEF gs, ts
<1>6. \A i \in 1 .. Len(gs) : gs[i] \in Tasks /\ ts[gs[i]].st = "blocked"
  <2> SUFFICES ASSUME NEW i \in 1 .. Len(gs) PROVE gs[i] \in Tasks /\ ts[gs[i]].st = "blocked"
    OBVIOUS
  <2>1. PICK j \in 1 .. Len(getters) : gs[i] = getters[j]
    BY <1>4
  <2>2. task[getters[j]].st = "blocked"
    BY DEF Inv, Line
  <2>3. gs[i] \in Tasks /\ gs[i] # t
    BY <1>4, ElementOfSeq
  <2> QED
    BY <1>3, <2>1, <2>2, <2>3
<1>7. ASSUME NEW u \in Tasks, Pending(u)
      PROVE  u # t /\ ts[u] = task[u] /\ \E i \in 1 .. Len(gs) : gs[i] = u
  <2>1. u # t
    BY <1>2, <1>7 DEF Pending
  <2>2. PICK j \in 1 .. Len(getters) : getters[j] = u
    BY <1>7 DEF WakeInv, InLine
  <2> QED
    BY <1>3, <1>4, <2>1, <2>2
<1>8. CASE ~(task[t].st = "woken" /\ queue # <<>>)
  <2>1. getters' = gs /\ task' = ts
    BY <1>5, <1>8
  <2>2. \A u \in Tasks : Pending(u)' => Pending(u)
    BY <1>3, <2>1 DEF Pending
  <2>3. InLine'
    BY <1>7, <2>1, <2>2 DEF InLine
  <2>4. Woken' = Woken \ {t}
    BY <1>3, <2>1 DEF Woken
  <2>5. IsFiniteSet(Woken') /\ Cardinality(Woken') \in Nat
    BY <1>1, <2>4, FS_RemoveElement, FS_CardinalityType
  <2>6. NoWakeUpLost'
    <3>1. CASE queue = <<>>
      <4>1. Len(queue') = 0
        BY <1>2, <3>1
      <4> QED
        BY <2>5, <4>1 DEF NoWakeUpLost
    <3>2. CASE task[t].st # "woken"
      <4>1. Woken' = Woken
        BY <2>4, <3>2 DEF Woken
      <4> QED
        BY <1>2, <2>2, <4>1 DEF NoWakeUpLost, WakeInv, Pending
    <3> QED
      BY <1>8, <3>1, <3>2
  <2> QED
    BY <2>3, <2>5, <2>6 DEF WakeInv
<1>9. CASE task[t].st = "woken" /\ queue # <<>>
  <2>1. Wakes(gs, ts)
    BY <1>3, <1>4, <1>5, <1>6, <1>9, WakeNextWakes
  <2>2. /\ IsFiniteSet(Woken \ {t})
        /\ Cardinality(Woken \ {t}) = Cardinality(Woken) - 1 /\ Cardinality(Woken \ {t}) \in Nat
    <3>1. t \in Woken
      BY <1>9 DEF Woken
    <3> QED
      BY <1>1, <3>1, FS_RemoveElement, FS_CardinalityType
  <2>3. CASE task' = ts /\ \A i \in 1 .. Len(gs) : ts[gs[i]].cancel
    <3>1. Woken' = Woken \ {t}
      BY <1>3, <2>3 DEF Woken
    <3>2. \A u \in Tasks : ~Pending(u)'
      <4> SUFFICES ASSUME NEW u \in Tasks, Pending(u)' PROVE FALSE
        OBVIOUS
      <4>1. Pending(u)
        BY <1>3, <2>3 DEF Pending
      <4> QED
        BY <1>7, <2>3, <4>1 DEF Pending
    <3> QED
      BY <2>2, <3>1, <3>2 DEF WakeInv, InLine, NoWakeUpLost, Pending
  <2>4. ASSUME NEW w \in Tasks, ts[w].st = "blocked", ~ts[w].cancel, task'[w].st = "woken",
               \A u \in Tasks : u # w => task'[u] = ts[u],
               \A i \in 1 .. Len(gs) : ts[gs[i]].cancel \/ gs[i] = w
                 \/ \E j \in 1 .. Len(getters') : getters'[j] = gs[i]
        PROVE  WakeInv'
    <3>1. w # t /\ Pending(w)
      BY <1>3, <2>4 DEF Pending
    <3>2. Woken' = (Woken \ {t}) \cup {w} /\ w \notin Woken \ {t}
      BY <1>3, <2>4, <3>1 DEF Woken, Pending
    <3>3. IsFiniteSet(Woken') /\ Cardinality(Woken') = Cardinality(Woken)
      BY <1>1, <2>2, <3>2, FS_AddElement
    <3>4. NoWakeUpLost'
      BY <1>2, <3>1, <3>3 DEF WakeInv, NoWakeUpLost, Pending
    <3>5. ASSUME NEW u \in Tasks, Pending(u)'
          PROVE  \E i \in 1 .. Len(getters') : getters'[i] = u
      <4>1. u # w /\ task'[u] = ts[u]
        BY <2>4, <3>5 DEF Pending
      <4>2. Pending(u)
        BY <1>3, <3>5, <4>1 DEF Pending
      <4>3. PICK i \in 1 .. Len(gs) : gs[i] = u
        BY <1>7, <4>2
      <4> QED
        BY <2>4, <3>5, <4>1, <4>3 DEF Pending
    <3> QED
      BY <3>3, <3>4, <3>5 DEF WakeInv, InLine
  <2> QED
    BY <2>1, <2>3, <2>4 DEF Wakes
<1> QED
  BY <1>8, <1>9

(* The steps of a receive: the queue may lose its head, the one task that  *)
(* changes is not woken and does not become pending.                       *)
LEMMA QueueShrinks ==
    ASSUME Inv, queue' = queue \/ (queue # <<>> /\ queue' = Tail(queue))
    PROVE  Len(queue') \in Nat /\ Len(queue') <= Len(queue)
<1>1. queue \in Seq(Items) /\ Len(queue) \in Nat
  BY LenProperties DEF Inv, TypeOK
<1>2. CASE queue' = queue
  BY <1>1, <1>2
<1>3. CASE queue # <<>> /\ queue' = Tail(queue)
  <2>1. Len(queue') = Len(queue) - 1 /\ Tail(queue) \in Seq(Items)
    BY <1>1, <1>3, TailDoes
  <2>2. Len(queue') \in Nat
    BY <1>3, <2>1, LenProperties
  <2> QED
    BY <1>1, <2>1, <2>2
<1> QED
  BY <1>2, <1>3

LEMMA ReceivesWake ==
    ASSUME Inv, WakeInv, NEW c \in Consumers, Receive(c) \/ Finish(c) \/ CancelPending(c)
    PROVE  WakeInv'
<1>1. /\ getters' = getters
      /\ queue' = queue \/ (queue # <<>> /\ queue' = Tail(queue))
  BY DEF Receive, Finish, CancelPending, GetNowait
<1>2. PICK m \in Tasks : m = Mine(c)
  BY Tasking DEF Inv
<1>3. \A t \in Tasks : /\ task'[t].st = "woken" <=> task[t].st = "woken"
                       /\ Pending(t)' => Pending(t)
  <2>1. CASE Receive(c)
    <3>1. pc[c] = "idle" => task[m].st = "none"
      BY <1>2 DEF Inv, Paced
    <3>2. task' = task \/ (task'[m].st = "new" /\ \A t \in Tasks : t # m => task'[t] = task[t])
      BY <1>2, <2>1, ReceiveDoes DEF Starts
    <3> QED
      BY <2>1, <3>1, <3>2 DEF Receive, Pending
  <2>2. CASE Finish(c)
    <3>1. task[m].st \in {"got", "cancelled"}
      BY <1>2, <2>2 DEF Finish
    <3>2. task'[m].st = "none" /\ \A t \in Tasks : t # m => task'[t] = task[t]
      BY <1>2, <2>2, FinishDoes
    <3> QED
      BY <3>1, <3>2 DEF Pending
  <2>3. CASE CancelPending(c)
    <3>1. /\ task'[m].st = task[m].st /\ task'[m].cancel = (task[m].st # "got")
          /\ \A t \in Tasks : t # m => task'[t] = task[t]
      BY <1>2, <2>3, CancelPendingDoes
    <3>2. ~Pending(m)'
      BY <3>1 DEF Pending
    <3> QED
      BY <3>1, <3>2 DEF Pending
  <2> QED
    BY <2>1, <2>2, <2>3
<1> QED
  BY <1>1, <1>3, QueueShrinks, WakeKept

LEMMA WakeNextStep ==
    ASSUME Inv, WakeInv, [Next]_vars
    PROVE  WakeInv'
<1>1. CASE UNCHANGED <<queue, getters, task>>
  BY <1>1 DEF WakeInv, InLine, Pending, Woken, NoWakeUpLost
<1>2. ASSUME UNCHANGED vars \/ RequestStop
             \/ \E c \in Consumers : StopWaited(c) \/ Return(c) \/ GiveUp(c)
      PROVE  UNCHANGED <<queue, getters, task>>
  BY <1>2 DEF vars, RequestStop, StopWaited, Return, GiveUp
<1> QED
  BY <1>1, <1>2, GetWakes, GetCancelledWakes, SendWakes, ReceivesWake DEF Next, Loop

(* For any number of consumers and items: while a get that nobody          *)
(* cancelled is blocked, at least as many getters are woken as there are   *)
(* items on the queue, although a receive that the stop event ends cancels *)
(* a get that may have been woken already.  This is the safety half of     *)
(* Served: what is left to the event loop is to run the woken tasks.       *)
THEOREM WakeUpsAreKept == Spec => []NoWakeUpLost
<1>1. WakeInv => NoWakeUpLost
  BY DEF WakeInv
<1>2. Init => WakeInv
  BY WakeInit
<1>3. Inv /\ WakeInv /\ [Next]_vars => WakeInv'
  BY WakeNextStep
<1> QED
  BY <1>1, <1>2, <1>3, ChannelInvariant, PTL DEF Spec
=============================================================================
