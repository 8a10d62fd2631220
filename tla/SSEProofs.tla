----------------------------- MODULE SSEProofs ------------------------------
(***************************************************************************)
(* Theorems about SSE: the registry of connections and its caps, and what  *)
(* a client is sent, for any number of requests, ids and events.           *)
(***************************************************************************)
EXTENDS SSE, SequenceTheorems, FiniteSetTheorems, TLAPS

(* Every event there is.                                                   *)
Messages == Events \cup {Welcome(s) : s \in Streams} \cup {Generated(s) : s \in Streams}

TypeOK ==
    /\ conns \in [Ids -> Streams \cup {NoStream}]
    /\ closed \in [Streams -> BOOLEAN]
    /\ st \in [Streams -> {"new", "connected", "serving", "closing", "raised", "ended"}]
    /\ gen \in [Streams -> {"none", "running", "done"}]
    /\ gap \in [Streams -> BOOLEAN]
    /\ enq \in [Streams -> Seq(Messages)]
    /\ taken \in [Streams -> Nat]
    /\ since \in [Streams -> Nat]
    /\ recorded \in Seq(Messages)
    /\ ready \in Seq(Streams \X Messages)

Live == {"connected", "serving", "closing", "raised"}

(* A connection is registered under its own id, and one that is not closed *)
(* is registered: whatever takes it out of the registry closes it.         *)
Registry ==
    /\ \A id \in Ids : conns[id] # NoStream => IdOf[conns[id]] = id /\ st[conns[id]] \in Live
    /\ \A s \in Streams : Open(s) => conns[IdOf[s]] = s
    /\ \A s \in Streams : st[s] = "ended" => closed[s] = TRUE
    /\ \A s \in Streams : st[s] = "new" => closed[s] = FALSE /\ gen[s] # "running"

At(ip) == {r \in Registered : IpOf[r] = ip}

(* The registry keeps within the caps.                                     *)
Capped ==
    /\ IsFiniteSet(Registered)
    /\ Cardinality(Registered) <= MaxConnections
    /\ \A ip \in Ips : Cardinality(At(ip)) <= MaxConnectionsPerIp

-----------------------------------------------------------------------------
LEMMA LogSuffix ==
    ASSUME recorded \in Seq(Messages)
    PROVE  \E k \in Nat : /\ k <= Len(recorded)
                          /\ Log = SubSeq(recorded, k + 1, Len(recorded))
<1> DEFINE k == IF Len(recorded) > LogMax THEN Len(recorded) - LogMax ELSE 0
<1>1. Len(recorded) \in Nat /\ LogMax \in Nat
  BY LenProperties, SSEAssumption
<1>2. k \in Nat /\ k <= Len(recorded)
  BY <1>1
<1>3. Log = SubSeq(recorded, k + 1, Len(recorded))
  BY <1>1 DEF Log
<1> HIDE DEF k
<1> QED
  BY <1>2, <1>3

LEMMA Suffix ==
    ASSUME NEW S, NEW q \in Seq(S), NEW k \in Nat, k <= Len(q)
    PROVE  /\ SubSeq(q, k + 1, Len(q)) \in Seq(S)
           /\ Len(SubSeq(q, k + 1, Len(q))) = Len(q) - k
           /\ \A i \in 1 .. Len(q) - k : SubSeq(q, k + 1, Len(q))[i] = q[k + i]
<1>1. Len(q) \in Nat /\ \A i \in 1 .. Len(q) : q[i] \in S
  BY LenProperties, ElementOfSeq
<1>2. \A i \in k + 1 .. Len(q) : q[i] \in S
  BY <1>1
<1>3. k + 1 \in Int /\ Len(q) \in Int
  BY <1>1
<1>4. /\ SubSeq(q, k + 1, Len(q)) \in Seq(S)
      /\ Len(SubSeq(q, k + 1, Len(q))) = IF k + 1 <= Len(q) THEN Len(q) - (k + 1) + 1 ELSE 0
      /\ \A i \in 1 .. Len(q) - (k + 1) + 1 : SubSeq(q, k + 1, Len(q))[i] = q[(k + 1) + i - 1]
  BY <1>2, <1>3, SubSeqProperties
<1> QED
  BY <1>1, <1>4

FirstAt(q, e) == SelectInSeq(q, LAMBDA x : x = e)

LEMMA FirstIndex ==
    ASSUME NEW S, NEW q \in Seq(S), NEW e
    PROVE  FirstAt(q, e) \in 0 .. Len(q)
<1> DEFINE I == {i \in 1 .. Len(q) : q[i] = e}
<1>1. Len(q) \in Nat
  BY LenProperties
<1>2. CASE I = {}
  BY <1>1, <1>2 DEF FirstAt, SelectInSeq
<1>3. CASE I # {}
  <2>1. I \subseteq Nat /\ \A i \in I : i <= Len(q)
    BY <1>1
  <2>2. \E i \in I : \A j \in I : i <= j
    <3> DEFINE LT == {p \in Nat \X Nat : p[1] < p[2]}
    <3>1. IsWellFoundedOn(LT, Nat)
      BY NatLessThanWellFounded DEF OpToRel
    <3>2. \E i \in I : \A j \in I : ~(<<j, i>> \in LT)
      <4> HIDE DEF LT, I
      <4> QED
        BY <1>3, <2>1, <3>1, WFMin
    <3>3. \A i, j \in Nat : j < i => <<j, i>> \in LT
      OBVIOUS
    <3> HIDE DEF LT, I
    <3>4. PICK i \in I : \A j \in I : ~(<<j, i>> \in LT)
      BY <3>2
    <3>5. \A j \in I : i <= j
      <4> SUFFICES ASSUME NEW j \in I PROVE i <= j
        OBVIOUS
      <4>1. i \in Nat /\ j \in Nat
        BY <2>1
      <4>2. ~(j < i)
        BY <3>3, <3>4, <4>1
      <4> QED
        BY <4>1, <4>2
    <3> QED
      BY <3>4, <3>5
  <2>3. Min(I) \in I
    BY <2>2 DEF Min
  <2> QED
    BY <1>1, <1>3, <2>3 DEF FirstAt, SelectInSeq
<1> QED
  BY <1>2, <1>3

(* What connect replays is the end of what was recorded.                   *)
LEMMA ReplayIsSuffix ==
    ASSUME recorded \in Seq(Messages), NEW e
    PROVE  \E k \in Nat : /\ k <= Len(recorded)
                          /\ EventsAfter(e) = SubSeq(recorded, k + 1, Len(recorded))
<1>1. PICK k \in Nat : /\ k <= Len(recorded)
                       /\ Log = SubSeq(recorded, k + 1, Len(recorded))
  BY LogSuffix
<1>2. Len(recorded) \in Nat
  BY LenProperties
<1>3. /\ Log \in Seq(Messages)
      /\ Len(Log) = Len(recorded) - k
      /\ \A i \in 1 .. Len(recorded) - k : Log[i] = recorded[k + i]
  BY <1>1, Suffix
<1> DEFINE i == FirstAt(Log, e)
<1>4. i \in 0 .. Len(Log)
  BY <1>3, FirstIndex
<1>5. EventsAfter(e) = IF i = 0 THEN <<>> ELSE SubSeq(Log, i + 1, Len(Log))
  BY DEF EventsAfter, FirstAt
<1> HIDE DEF i
<1>6. CASE i = 0
  <2>1. SubSeq(recorded, Len(recorded) + 1, Len(recorded)) = <<>>
    BY <1>2, SubSeqEmpty
  <2> QED
    BY <1>2, <1>5, <1>6, <2>1
<1>7. CASE i # 0
  <2>1. i \in Nat /\ i <= Len(Log) /\ k + i \in Nat /\ k + i <= Len(recorded)
    BY <1>1, <1>2, <1>3, <1>4
  <2>2. /\ EventsAfter(e) \in Seq(Messages)
        /\ Len(EventsAfter(e)) = Len(Log) - i
        /\ \A j \in 1 .. Len(Log) - i : EventsAfter(e)[j] = Log[i + j]
    <3> DEFINE m == SubSeq(Log, i + 1, Len(Log))
    <3>1. /\ m \in Seq(Messages) /\ Len(m) = Len(Log) - i
          /\ \A j \in 1 .. Len(Log) - i : m[j] = Log[i + j]
      BY <1>3, <2>1, Suffix
    <3> QED
      BY <1>5, <1>7, <3>1
  <2> DEFINE r == SubSeq(recorded, (k + i) + 1, Len(recorded))
  <2>3. /\ r \in Seq(Messages)
        /\ Len(r) = Len(recorded) - (k + i)
        /\ \A j \in 1 .. Len(recorded) - (k + i) : r[j] = recorded[(k + i) + j]
    BY <2>1, Suffix
  <2> HIDE DEF r
  <2>4. Len(EventsAfter(e)) = Len(r)
    BY <1>2, <1>3, <2>1, <2>2, <2>3
  <2>5. \A j \in 1 .. Len(r) : EventsAfter(e)[j] = r[j]
    BY <1>1, <1>2, <1>3, <2>1, <2>2, <2>3, SMTT(20)
  <2>6. EventsAfter(e) = r
    BY <2>2, <2>3, <2>4, <2>5, SeqEqual
  <2> QED
    BY <2>1, <2>6 DEF r
<1> QED
  BY <1>6, <1>7

(* The sends of a broadcast: one for every connection it found open.       *)
LEMMA SetToSeqDoes ==
    ASSUME NEW S, IsFiniteSet(S)
    PROVE  LET q == SetToSeq(S)
           IN  /\ q \in Seq(S)
               /\ \A x \in S : \E i \in 1 .. Len(q) : q[i] = x
               /\ \A i, j \in 1 .. Len(q) : q[i] = q[j] => i = j
<1> DEFINE n == Cardinality(S)
           q == SetToSeq(S)
<1>1. n \in Nat /\ ExistsBijection(1 .. n, S)
  BY FS_CardinalityType
<1>2. \E f \in [1 .. n -> S] : IsInjective(f)
  BY <1>1 DEF ExistsBijection, Bijection, Injection
<1>3. q \in [1 .. n -> S] /\ IsInjective(q)
  BY <1>2 DEF SetToSeq
<1> HIDE DEF q
<1>4. q \in Injection(1 .. n, S)
  BY <1>3 DEF Injection
<1>5. Cardinality(1 .. n) = Cardinality(S)
  <2>1. 1 \in Int /\ n \in Int /\ n >= 0
    BY <1>1
  <2>2. Cardinality(1 .. n) = IF 1 > n THEN 0 ELSE n - 1 + 1
    BY <2>1, FS_Interval
  <2> QED
    BY <2>1, <2>2
<1>6. q \in Surjection(1 .. n, S)
  BY <1>4, <1>5, FS_Injection
<1>7. q \in Seq(S) /\ Len(q) = n
  BY <1>1, <1>3
<1> QED
  BY <1>3, <1>6, <1>7 DEF Surjection, IsInjective, q

LEMMA Elements ==
    ASSUME NEW S, NEW q \in Seq(S)
    PROVE  /\ ToSet(q) = {q[i] : i \in 1 .. Len(q)}
           /\ DOMAIN q = 1 .. Len(q) /\ Len(q) \in Nat
           /\ \A i \in 1 .. Len(q) : q[i] \in S
BY LenProperties, ElementOfSeq DEF ToSet

(* What Append, Tail and \o do, by the elements.                           *)
LEMMA AppendElements ==
    ASSUME NEW S, NEW q \in Seq(S), NEW e \in S
    PROVE  /\ Append(q, e) \in Seq(S)
           /\ ToSet(Append(q, e)) = ToSet(q) \cup {e}
<1>1. /\ Append(q, e) \in Seq(S) /\ Len(Append(q, e)) = Len(q) + 1
      /\ \A i \in 1 .. Len(q) : Append(q, e)[i] = q[i]
      /\ Append(q, e)[Len(q) + 1] = e
  BY AppendProperties
<1>2. ToSet(Append(q, e)) = {Append(q, e)[i] : i \in 1 .. Len(q) + 1}
  BY <1>1, Elements
<1>3. ToSet(q) = {q[i] : i \in 1 .. Len(q)} /\ Len(q) \in Nat
  BY Elements
<1> QED
  BY <1>1, <1>2, <1>3

LEMMA TailElements ==
    ASSUME NEW S, NEW q \in Seq(S), q # <<>>
    PROVE  /\ Tail(q) \in Seq(S) /\ Head(q) \in S
           /\ ToSet(q) = ToSet(Tail(q)) \cup {Head(q)}
<1>1. /\ Tail(q) \in Seq(S) /\ Len(Tail(q)) = Len(q) - 1 /\ Head(q) \in S
      /\ \A i \in 1 .. Len(Tail(q)) : Tail(q)[i] = q[i + 1]
  BY HeadTailProperties
<1>2. Head(q) = q[1] /\ Len(q) \in Nat \ {0}
  BY EmptySeq
<1>3. ToSet(Tail(q)) = {Tail(q)[i] : i \in 1 .. Len(q) - 1}
  BY <1>1, Elements
<1>4. ToSet(q) = {q[i] : i \in 1 .. Len(q)}
  BY Elements
<1>5. ASSUME NEW x \in ToSet(q) PROVE x \in ToSet(Tail(q)) \cup {Head(q)}
  <2>1. PICK i \in 1 .. Len(q) : x = q[i]
    BY <1>4
  <2>2. CASE i = 1
    BY <1>2, <2>1, <2>2
  <2>3. CASE i # 1
    <3>1. i - 1 \in 1 .. Len(q) - 1 /\ (i - 1) + 1 = i
      BY <1>2, <2>3
    <3> QED
      BY <1>1, <1>3, <2>1, <3>1
  <2> QED
    BY <2>2, <2>3
<1>6. ASSUME NEW x \in ToSet(Tail(q)) PROVE x \in ToSet(q)
  BY <1>1, <1>2, <1>3, <1>4
<1>7. Head(q) \in ToSet(q)
  BY <1>2, <1>4
<1> QED
  BY <1>1, <1>5, <1>6, <1>7

LEMMA ConcatElements ==
    ASSUME NEW S, NEW q \in Seq(S), NEW r \in Seq(S)
    PROVE  /\ q \o r \in Seq(S)
           /\ ToSet(q \o r) = ToSet(q) \cup ToSet(r)
<1>1. /\ q \o r \in Seq(S) /\ Len(q \o r) = Len(q) + Len(r)
      /\ \A i \in 1 .. Len(q) + Len(r) :
            (q \o r)[i] = IF i <= Len(q) THEN q[i] ELSE r[i - Len(q)]
  BY ConcatProperties
<1>2. ToSet(q \o r) = {(q \o r)[i] : i \in 1 .. Len(q) + Len(r)}
  BY <1>1, Elements
<1>3. /\ ToSet(q) = {q[i] : i \in 1 .. Len(q)} /\ Len(q) \in Nat
      /\ ToSet(r) = {r[i] : i \in 1 .. Len(r)} /\ Len(r) \in Nat
  BY Elements
<1>4. ASSUME NEW i \in 1 .. Len(r) PROVE r[i] \in ToSet(q \o r)
  <2>1. Len(q) + i \in 1 .. Len(q) + Len(r) /\ ~(Len(q) + i <= Len(q)) /\ (Len(q) + i) - Len(q) = i
    BY <1>3
  <2> QED
    BY <1>1, <1>2, <2>1
<1>5. ASSUME NEW i \in 1 .. Len(q) PROVE q[i] \in ToSet(q \o r)
  BY <1>1, <1>2, <1>3
<1>6. ASSUME NEW x \in ToSet(q \o r) PROVE x \in ToSet(q) \cup ToSet(r)
  BY <1>1, <1>2, <1>3
<1> QED
  BY <1>1, <1>3, <1>4, <1>5, <1>6

-----------------------------------------------------------------------------
(* The operators of the specification.                                     *)
LEMMA MessageOf ==
    /\ Events \subseteq Messages
    /\ \A s \in Streams : Welcome(s) \in Messages /\ Generated(s) \in Messages
BY DEF Messages

LEMMA Replays ==
    ASSUME recorded \in Seq(Messages), NEW e
    PROVE  /\ EventsAfter(e) \in Seq(Messages) /\ Replayed(e) \in Seq(Messages)
           /\ Len(EventsAfter(e)) \in Nat /\ Len(EventsAfter(e)) <= Len(recorded)
           /\ \A i \in 1 .. Len(EventsAfter(e)) :
                EventsAfter(e)[i] = recorded[(Len(recorded) - Len(EventsAfter(e))) + i]
           /\ Len(Replayed(e)) <= Len(EventsAfter(e))
           /\ \A i \in 1 .. Len(Replayed(e)) : Replayed(e)[i] = EventsAfter(e)[i]
           /\ Len(EventsAfter(e)) <= MaxQueue => Replayed(e) = EventsAfter(e)
<1> DEFINE es == EventsAfter(e)
<1>1. PICK k \in Nat : k <= Len(recorded) /\ es = SubSeq(recorded, k + 1, Len(recorded))
  BY ReplayIsSuffix
<1>2. /\ es \in Seq(Messages) /\ Len(es) = Len(recorded) - k
      /\ \A i \in 1 .. Len(recorded) - k : es[i] = recorded[k + i]
  BY <1>1, Suffix
<1>3. Len(recorded) \in Nat /\ MaxQueue \in Nat \ {0}
  BY Elements, SSEAssumption
<1>4. /\ Len(es) \in Nat /\ Len(es) <= Len(recorded)
      /\ \A i \in 1 .. Len(es) : es[i] = recorded[(Len(recorded) - Len(es)) + i]
  <2> HIDE DEF es
  <2>1. Len(es) \in Nat /\ Len(es) <= Len(recorded) /\ Len(recorded) - Len(es) = k
    BY <1>1, <1>2, <1>3
  <2> QED
    BY <1>2, <1>3, <2>1
<1>5. Replayed(e) = IF Len(es) > MaxQueue THEN SubSeq(es, 1, MaxQueue) ELSE es
  BY DEF Replayed
<1> HIDE DEF es
<1>6. CASE Len(es) <= MaxQueue
  <2>1. Replayed(e) = es
    BY <1>3, <1>4, <1>5, <1>6
  <2> QED
    BY <1>2, <1>3, <1>4, <2>1 DEF es
<1>7. CASE Len(es) > MaxQueue
  <2>1. \A i \in 1 .. MaxQueue : es[i] \in Messages
    BY <1>2, <1>3, <1>4, <1>7, Elements
  <2>2. /\ SubSeq(es, 1, MaxQueue) \in Seq(Messages)
        /\ Len(SubSeq(es, 1, MaxQueue)) = IF 1 <= MaxQueue THEN MaxQueue - 1 + 1 ELSE 0
        /\ \A i \in 1 .. MaxQueue - 1 + 1 : SubSeq(es, 1, MaxQueue)[i] = es[1 + i - 1]
    BY <1>3, <2>1, SubSeqProperties
  <2>3. Replayed(e) = SubSeq(es, 1, MaxQueue)
    BY <1>5, <1>7
  <2>4. Len(Replayed(e)) = MaxQueue /\ \A i \in 1 .. MaxQueue : Replayed(e)[i] = es[i]
    BY <1>3, <2>2, <2>3
  <2> QED
    BY <1>2, <1>3, <1>4, <1>7, <2>2, <2>3, <2>4 DEF es
<1> QED
  BY <1>3, <1>4, <1>6, <1>7

(* What an SSEConnection.send does to the queue of its connection.         *)
PutDoes(s, e) ==
    /\ enq' \in [Streams -> Seq(Messages)] /\ gap' \in [Streams -> BOOLEAN]
    /\ \A r \in Streams \ {s} : enq'[r] = enq[r] /\ gap'[r] = gap[r]
    /\ \/ closed[s] = TRUE /\ enq'[s] = enq[s] /\ gap'[s] = gap[s]
       \/ closed[s] = FALSE /\ enq'[s] = Append(enq[s], e) /\ gap'[s] = gap[s]
       \/ closed[s] = FALSE /\ enq'[s] = enq[s] /\ gap'[s] = TRUE

LEMMA PutIs ==
    ASSUME TypeOK, NEW s \in Streams, NEW e \in Messages, Put(s, e)
    PROVE  PutDoes(s, e)
<1>1. closed[s] \in BOOLEAN /\ enq[s] \in Seq(Messages)
  BY DEF TypeOK
<1>2. Append(enq[s], e) \in Seq(Messages)
  BY <1>1, AppendElements
<1>3. CASE closed[s] = TRUE
  BY <1>3 DEF Put, PutDoes, TypeOK
<1>4. CASE closed[s] = FALSE /\ Fits(s)
  BY <1>2, <1>4 DEF Put, PutDoes, TypeOK
<1>5. CASE closed[s] = FALSE /\ ~Fits(s)
  BY <1>5 DEF Put, PutDoes, TypeOK
<1> QED
  BY <1>1, <1>3, <1>4, <1>5

(* What is recorded grows by the event, or not at all.                     *)
Grows(e) == recorded' = recorded \/ recorded' = Append(recorded, e)

LEMMA GrowsIs ==
    ASSUME TypeOK, NEW e \in Messages, Grows(e)
    PROVE  recorded' \in Seq(Messages)
<1>1. recorded \in Seq(Messages)
  BY DEF TypeOK
<1>2. Append(recorded, e) \in Seq(Messages)
  BY <1>1, AppendElements
<1> QED
  BY <1>1, <1>2 DEF Grows

LEMMA PutAndRecordIs ==
    ASSUME TypeOK, NEW s \in Streams, NEW e \in Messages, PutAndRecord(s, e)
    PROVE  PutDoes(s, e) /\ Grows(e)
<1>1. PutDoes(s, e)
  BY PutIs DEF PutAndRecord
<1>2. Grows(e)
  BY DEF PutAndRecord, Record, Grows
<1> QED
  BY <1>1, <1>2

LEMMA RegisteredIs ==
    ASSUME conns \in [Ids -> Streams \cup {NoStream}]
    PROVE  /\ Registered \subseteq Streams
           /\ \A s \in Streams : s \in Registered <=> \E id \in Ids : conns[id] = s
BY SSEAssumption DEF Registered

(* The sends of a broadcast.                                               *)
Sends(q, e) ==
    /\ q \in Seq(Streams \X Messages)
    /\ \A s \in Active : <<s, e>> \in ToSet(q)
    /\ \A i \in 1 .. Len(q) : q[i] \in Active \X {e}
    /\ \A i, j \in 1 .. Len(q) : q[i][1] = q[j][1] => i = j

LEMMA SendsOf ==
    ASSUME TypeOK, IsFiniteSet(Registered), NEW e \in Messages
    PROVE  Sends(SetToSeq({<<s, e>> : s \in Active}), e)
<1> DEFINE S == {<<s, e>> : s \in Active}
           q == SetToSeq(S)
<1>1. IsFiniteSet(Active) /\ Active \subseteq Streams
  BY FS_Subset, RegisteredIs DEF Active, TypeOK
<1>2. IsFiniteSet(S)
  <2>0. IsFiniteSet({e})
    BY FS_Singleton
  <2>1. S \subseteq Active \X {e}
    OBVIOUS
  <2> QED
    <3>1. IsFiniteSet(Active \X {e})
      BY <1>1, <2>0, FS_Product
    <3> QED
      BY <2>1, <3>1, FS_Subset
<1>3. /\ q \in Seq(S)
      /\ \A x \in S : \E i \in 1 .. Len(q) : q[i] = x
      /\ \A i, j \in 1 .. Len(q) : q[i] = q[j] => i = j
  BY <1>2, SetToSeqDoes
<1>4. S \subseteq Streams \X Messages /\ S \subseteq Active \X {e}
  BY <1>1
<1> HIDE DEF q
<1>5. \A i \in 1 .. Len(q) : q[i] \in S
  BY <1>3, Elements
<1>6. q \in Seq(Streams \X Messages)
  BY <1>3, <1>4, SeqMonotonic
<1>7. \A s \in Active : <<s, e>> \in ToSet(q)
  BY <1>3, <1>6, Elements
<1>8. \A i, j \in 1 .. Len(q) : q[i][1] = q[j][1] => i = j
  <2> SUFFICES ASSUME NEW i \in 1 .. Len(q), NEW j \in 1 .. Len(q), q[i][1] = q[j][1]
               PROVE  i = j
    OBVIOUS
  <2>1. q[i] = <<q[i][1], e>> /\ q[j] = <<q[j][1], e>>
    BY <1>5
  <2> QED
    BY <1>3, <2>1
<1> QED
  BY <1>4, <1>5, <1>6, <1>7, <1>8 DEF Sends, q

-----------------------------------------------------------------------------
(* The registry and its caps.                                              *)
LEMMA CapTypes ==
    MaxConnections \in Nat \ {0} /\ MaxConnectionsPerIp \in Nat \ {0}
BY SSEAssumption

LEMMA CappedShrinks ==
    ASSUME Capped, Registered' \subseteq Registered
    PROVE  Capped'
<1>1. IsFiniteSet(Registered) /\ Cardinality(Registered) <= MaxConnections
  BY DEF Capped
<1>2. IsFiniteSet(Registered') /\ Cardinality(Registered') <= Cardinality(Registered)
  BY <1>1, FS_Subset
<1>3. Cardinality(Registered) \in Nat /\ Cardinality(Registered') \in Nat
  BY <1>1, <1>2, FS_CardinalityType
<1>4. ASSUME NEW ip \in Ips PROVE Cardinality(At(ip)') <= MaxConnectionsPerIp
  <2>1. At(ip) \subseteq Registered /\ At(ip)' \subseteq At(ip)
    BY DEF At
  <2>2. IsFiniteSet(At(ip))
    BY <1>1, <2>1, FS_Subset
  <2>3. IsFiniteSet(At(ip)') /\ Cardinality(At(ip)') <= Cardinality(At(ip))
    BY <2>1, <2>2, FS_Subset
  <2>4. Cardinality(At(ip)) \in Nat /\ Cardinality(At(ip)') \in Nat
    BY <2>2, <2>3, FS_CardinalityType
  <2>5. Cardinality(At(ip)) <= MaxConnectionsPerIp
    BY DEF Capped
  <2> QED
    BY <2>3, <2>4, <2>5, CapTypes
<1>5. Cardinality(Registered') <= MaxConnections
  BY <1>1, <1>2, <1>3, CapTypes
<1> QED
  BY <1>2, <1>4, <1>5 DEF Capped

(* One more, after the caps were found not to be reached.                  *)
LEMMA OneMore ==
    ASSUME NEW S, NEW T, NEW x, NEW n \in Nat, IsFiniteSet(S), T \subseteq S \cup {x},
           ~(Cardinality(S) >= n)
    PROVE  IsFiniteSet(T) /\ Cardinality(T) <= n
<1>1. /\ IsFiniteSet(S \cup {x})
      /\ Cardinality(S \cup {x}) = IF x \in S THEN Cardinality(S) ELSE Cardinality(S) + 1
  BY FS_AddElement
<1>2. IsFiniteSet(T) /\ Cardinality(T) <= Cardinality(S \cup {x})
  BY <1>1, FS_Subset
<1>3. Cardinality(S) \in Nat /\ Cardinality(S \cup {x}) \in Nat /\ Cardinality(T) \in Nat
  BY <1>1, <1>2, FS_CardinalityType
<1>4. Cardinality(S \cup {x}) <= Cardinality(S) + 1
  BY <1>1, <1>3
<1> QED
  BY <1>2, <1>3, <1>4

LEMMA CappedGrows ==
    ASSUME Capped, NEW s \in Streams, Registered' \subseteq Registered \cup {s}, ~AtCap(s)
    PROVE  Capped'
<1>1. IsFiniteSet(Registered)
  BY DEF Capped
<1>2. ~(Cardinality(Registered) >= MaxConnections)
  BY DEF AtCap
<1>3. IsFiniteSet(Registered') /\ Cardinality(Registered') <= MaxConnections
  BY <1>1, <1>2, CapTypes, OneMore
<1>4. ASSUME NEW ip \in Ips PROVE Cardinality(At(ip)') <= MaxConnectionsPerIp
  <2>1. At(ip) \subseteq Registered
    BY DEF At
  <2>2. IsFiniteSet(At(ip))
    BY <1>1, <2>1, FS_Subset
  <2>3. CASE ip = IpOf[s]
    <3>1. ~(Cardinality(At(ip)) >= MaxConnectionsPerIp)
      BY <2>3, SSEAssumption DEF AtCap, At
    <3>2. At(ip)' \subseteq At(ip) \cup {s}
      BY DEF At
    <3> QED
      BY <2>2, <3>1, <3>2, CapTypes, OneMore
  <2>4. CASE ip # IpOf[s]
    <3>1. At(ip)' \subseteq At(ip)
      BY <2>4 DEF At
    <3>2. IsFiniteSet(At(ip)') /\ Cardinality(At(ip)') <= Cardinality(At(ip))
      BY <2>2, <3>1, FS_Subset
    <3>3. Cardinality(At(ip)) \in Nat /\ Cardinality(At(ip)') \in Nat
      BY <2>2, <3>2, FS_CardinalityType
    <3>4. Cardinality(At(ip)) <= MaxConnectionsPerIp
      BY DEF Capped
    <3> QED
      BY <3>2, <3>3, <3>4, CapTypes
  <2> QED
    BY <2>3, <2>4
<1> QED
  BY <1>3, <1>4 DEF Capped

RegInv == TypeOK /\ Registry /\ Capped

LEMMA InitRegInv == Init => RegInv
<1> SUFFICES ASSUME Init PROVE RegInv
  OBVIOUS
<1>1. TypeOK
  <2>1. <<>> \in Seq(Messages) /\ <<>> \in Seq(Streams \X Messages)
    BY EmptySeq
  <2> QED
    BY <2>1 DEF Init, TypeOK
<1>2. Registry
  BY DEF Init, Registry, Open, Live
<1>3. Registered = {} /\ \A ip \in Ips : At(ip) = {}
  BY DEF Init, Registered, At
<1>4. Capped
  BY <1>3, FS_EmptySet, CapTypes DEF Capped
<1> QED
  BY <1>1, <1>2, <1>4 DEF RegInv

(* A step that leaves the registry alone and closes nothing else.          *)
LEMMA SameRegistry ==
    ASSUME Capped, conns' = conns
    PROVE  Capped' /\ Registered' = Registered
<1>1. Registered' = Registered
  BY DEF Registered
<1> QED
  BY <1>1, CappedShrinks

LEMMA RegRefuse ==
    ASSUME RegInv, NEW s \in Streams, Refuse(s)
    PROVE  RegInv'
<1> USE DEF RegInv, Refuse
<1>1. TypeOK'
  BY DEF TypeOK
<1>2. Registry'
  BY DEF Registry, Open, TypeOK, Live
<1> QED
  BY <1>1, <1>2, SameRegistry

LEMMA RegConnect ==
    ASSUME RegInv, NEW s \in Streams, NEW last, Connect(s, last)
    PROVE  RegInv'
<1> USE DEF RegInv, Connect
<1>0. IdOf[s] \in Ids
  BY SSEAssumption
<1>1. TypeOK'
  <2>1. /\ Replayed(last) \in Seq(Messages)
        /\ Len(recorded) - Len(EventsAfter(last)) \in Nat
        /\ (Len(EventsAfter(last)) > MaxQueue) \in BOOLEAN
    BY Replays, Elements DEF TypeOK
  <2> QED
    BY <1>0, <2>1 DEF TypeOK, CloseOld
<1>2. /\ \A id \in Ids : conns'[id] = IF id = IdOf[s] THEN s ELSE conns[id]
      /\ \A r \in Streams : st'[r] = IF r = s THEN "connected" ELSE st[r]
      /\ \A r \in Streams : closed'[r] = TRUE <=> closed[r] = TRUE \/ r = conns[IdOf[s]]
  BY <1>0 DEF TypeOK, CloseOld
<1>3. \A id \in Ids : conns[id] # s
  BY SSEAssumption DEF Registry, Live
<1>4. \A r \in Streams : Open(r)' => r = s \/ (Open(r) /\ r # conns[IdOf[s]])
  BY <1>2 DEF Open
<1>5. Registry'
  <2>1. ASSUME NEW id \in Ids, conns'[id] # NoStream
        PROVE  IdOf[conns'[id]] = id /\ st'[conns'[id]] \in Live
    BY <1>0, <1>2, <2>1 DEF Registry, TypeOK, Live
  <2>2. ASSUME NEW r \in Streams, Open(r)' PROVE conns'[IdOf[r]] = r
    <3>1. IdOf[r] \in Ids
      BY SSEAssumption
    <3> QED
      BY <1>2, <1>4, <2>2, <3>1 DEF Registry
  <2>3. ASSUME NEW r \in Streams, st'[r] = "ended" PROVE closed'[r] = TRUE
    BY <1>2, <2>3 DEF Registry
  <2>4. ASSUME NEW r \in Streams, st'[r] = "new" PROVE closed'[r] = FALSE /\ gen'[r] # "running"
    <3>1. st[r] = "new" /\ r # s
      BY <1>2, <2>4
    <3>2. r # conns[IdOf[s]]
      BY <1>0, <3>1, SSEAssumption DEF Registry, Live
    <3> QED
      BY <1>1, <1>2, <3>1, <3>2 DEF Registry, TypeOK
  <2> QED
    BY <2>1, <2>2, <2>3, <2>4 DEF Registry
<1>6. Registered' \subseteq Registered \cup {s}
  BY <1>0 DEF Registered, TypeOK
<1> QED
  BY <1>1, <1>5, <1>6, CappedGrows

(* A step that moves a stream from one live state to another.              *)
LEMMA RegCalm ==
    ASSUME RegInv, TypeOK', conns' = conns, closed' = closed,
           \A r \in Streams : st'[r] = st[r] \/ (st[r] \in Live /\ st'[r] \in Live),
           \A r \in Streams : gen'[r] = "running" => gen[r] = "running" \/ st[r] \in Live
    PROVE  RegInv'
<1>1. \A r \in Streams : Open(r)' => Open(r)
  BY DEF Open, Live, RegInv, TypeOK
<1>2. Registry'
  <2>1. \A id \in Ids : conns[id] # NoStream => conns[id] \in Streams
    BY DEF RegInv, TypeOK
  <2> QED
    BY <1>1, <2>1 DEF RegInv, Registry, Live
<1> QED
  BY <1>2, SameRegistry DEF RegInv

LEMMA RegOnConnect ==
    ASSUME RegInv, NEW s \in Streams, OnConnect(s)
    PROVE  RegInv'
<1> USE DEF RegInv, OnConnect
<1>1. \/ PutDoes(s, Welcome(s)) /\ Grows(Welcome(s))
      \/ UNCHANGED <<enq, gap, recorded>>
  BY PutAndRecordIs, MessageOf
<1>2. TypeOK'
  <2>1. recorded' \in Seq(Messages)
    BY <1>1, GrowsIs, MessageOf DEF TypeOK
  <2> QED
    BY <1>1, <2>1 DEF TypeOK, PutDoes
<1> QED
  BY <1>2, RegCalm DEF TypeOK, Live

LEMMA RegStops ==
    ASSUME RegInv, NEW s \in Streams,
           OnConnectRaises(s) \/ LoopEnds(s) \/ Aborted(s) \/ OnDisconnectRaises(s)
    PROVE  RegInv'
<1> USE DEF RegInv, OnConnectRaises, LoopEnds, Aborted, OnDisconnectRaises
<1>1. TypeOK'
  BY DEF TypeOK
<1> QED
  BY <1>1, RegCalm DEF TypeOK, Live

LEMMA RegGenerate ==
    ASSUME RegInv, NEW s \in Streams, Generate(s)
    PROVE  RegInv'
<1> USE DEF RegInv, Generate
<1>1. PutDoes(s, Generated(s)) /\ Grows(Generated(s))
  BY PutAndRecordIs, MessageOf
<1>2. TypeOK'
  <2>1. recorded' \in Seq(Messages)
    BY <1>1, GrowsIs, MessageOf
  <2> QED
    BY <1>1, <2>1 DEF TypeOK, PutDoes
<1> QED
  BY <1>2, RegCalm DEF TypeOK, Live

LEMMA RegYield ==
    ASSUME RegInv, NEW s \in Streams, Yield(s)
    PROVE  RegInv'
<1> USE DEF RegInv, Yield
<1>1. TypeOK'
  BY DEF TypeOK
<1> QED
  BY <1>1, RegCalm DEF TypeOK, Live

(* What disconnect does to the registry, whichever stream it is for.       *)
LEMMA DisconnectDoes ==
    ASSUME RegInv, NEW id \in Ids, Disconnect(id)
    PROVE  /\ conns' \in [Ids -> Streams \cup {NoStream}]
           /\ closed' \in [Streams -> BOOLEAN]
           /\ \A i \in Ids : conns'[i] = IF i = id THEN NoStream ELSE conns[i]
           /\ \A r \in Streams : closed'[r] = TRUE <=> closed[r] = TRUE \/ r = conns[id]
           /\ Registered' \subseteq Registered
           /\ Capped'
<1>1. Registered' \subseteq Registered
  BY DEF Registered, Disconnect, RegInv, TypeOK
<1> QED
  BY <1>1, CappedShrinks DEF RegInv, TypeOK, Disconnect

LEMMA RegCleanup ==
    ASSUME RegInv, NEW s \in Streams, Cleanup(s)
    PROVE  RegInv'
<1> USE DEF RegInv, Cleanup
<1>0. IdOf[s] \in Ids
  BY SSEAssumption
<1>1. /\ conns' \in [Ids -> Streams \cup {NoStream}] /\ closed' \in [Streams -> BOOLEAN]
      /\ \A i \in Ids : conns'[i] = IF i = IdOf[s] THEN NoStream ELSE conns[i]
      /\ \A r \in Streams : closed'[r] = TRUE <=> closed[r] = TRUE \/ r = conns[IdOf[s]]
      /\ Capped'
  BY <1>0, DisconnectDoes
<1>2. \A r \in Streams : st'[r] = IF r = s THEN "ended" ELSE st[r]
  BY DEF TypeOK
<1>3. TypeOK'
  <2>1. <<>> \in Seq(Messages)
    BY EmptySeq
  <2> QED
    BY <1>1, <2>1 DEF TypeOK, Forget
<1>4. closed'[s] = TRUE
  BY <1>1 DEF Registry, Open, TypeOK
<1>5. Registry'
  <2>1. ASSUME NEW id \in Ids, conns'[id] # NoStream
        PROVE  IdOf[conns'[id]] = id /\ st'[conns'[id]] \in Live
    BY <1>1, <1>2, <2>1 DEF Registry, TypeOK, Live
  <2>2. ASSUME NEW r \in Streams, Open(r)' PROVE conns'[IdOf[r]] = r
    <3>1. IdOf[r] \in Ids
      BY SSEAssumption
    <3>2. Open(r) /\ r # conns[IdOf[s]]
      BY <1>1, <1>2, <2>2 DEF Open, TypeOK
    <3> QED
      BY <1>1, <3>1, <3>2 DEF Registry
  <2>3. ASSUME NEW r \in Streams, st'[r] = "ended" PROVE closed'[r] = TRUE
    BY <1>1, <1>2, <1>4, <2>3 DEF Registry
  <2>4. ASSUME NEW r \in Streams, st'[r] = "new" PROVE closed'[r] = FALSE /\ gen'[r] # "running"
    <3>1. st[r] = "new" /\ r # s
      BY <1>2, <2>4
    <3>2. r # conns[IdOf[s]]
      BY <1>0, <3>1, SSEAssumption DEF Registry, Live
    <3> QED
      BY <1>1, <1>3, <3>1, <3>2 DEF Registry, TypeOK
  <2> QED
    BY <2>1, <2>2, <2>3, <2>4 DEF Registry
<1> QED
  BY <1>1, <1>3, <1>5

LEMMA RegKick ==
    ASSUME RegInv, NEW id \in Ids, Kick(id)
    PROVE  RegInv'
<1> USE DEF RegInv, Kick
<1>1. /\ conns' \in [Ids -> Streams \cup {NoStream}] /\ closed' \in [Streams -> BOOLEAN]
      /\ \A i \in Ids : conns'[i] = IF i = id THEN NoStream ELSE conns[i]
      /\ \A r \in Streams : closed'[r] = TRUE <=> closed[r] = TRUE \/ r = conns[id]
      /\ Capped'
  BY DisconnectDoes
<1>2. TypeOK'
  BY <1>1 DEF TypeOK
<1>3. Registry'
  <2>1. ASSUME NEW i \in Ids, conns'[i] # NoStream
        PROVE  IdOf[conns'[i]] = i /\ st'[conns'[i]] \in Live
    BY <1>1, <2>1 DEF Registry
  <2>2. ASSUME NEW r \in Streams, Open(r)' PROVE conns'[IdOf[r]] = r
    <3>1. IdOf[r] \in Ids
      BY SSEAssumption
    <3>2. Open(r) /\ r # conns[id]
      BY <1>1, <2>2 DEF Open, TypeOK
    <3> QED
      BY <1>1, <3>1, <3>2 DEF Registry
  <2>3. ASSUME NEW r \in Streams, st'[r] = "ended" PROVE closed'[r] = TRUE
    BY <1>1, <2>3 DEF Registry
  <2>4. ASSUME NEW r \in Streams, st'[r] = "new" PROVE closed'[r] = FALSE /\ gen'[r] # "running"
    <3>1. r # conns[id]
      BY <2>4, SSEAssumption DEF Registry, Live
    <3> QED
      BY <1>1, <1>2, <2>4, <3>1 DEF Registry, TypeOK
  <2> QED
    BY <2>1, <2>2, <2>3, <2>4 DEF Registry
<1> QED
  BY <1>1, <1>2, <1>3

LEMMA RegClose ==
    ASSUME RegInv, NEW s \in Streams, Close(s)
    PROVE  RegInv'
<1> USE DEF RegInv, Close
<1>1. TypeOK'
  BY DEF TypeOK
<1>2. Registry'
  BY DEF Registry, Open, TypeOK
<1> QED
  BY <1>1, <1>2, SameRegistry

LEMMA RegBroadcast ==
    ASSUME RegInv, NEW e \in Events, Broadcast(e)
    PROVE  RegInv'
<1> USE DEF RegInv, Broadcast
<1>0. e \in Messages
  BY MessageOf
<1>1. recorded' \in Seq(Messages)
  BY <1>0, GrowsIs DEF Record, Grows
<1>2. ready' \in Seq(Streams \X Messages)
  <2>1. SetToSeq({<<s, e>> : s \in Active}) \in Seq(Streams \X Messages)
    BY <1>0, SendsOf DEF Capped, Sends
  <2> QED
    BY <2>1, ConcatElements DEF TypeOK
<1>3. TypeOK'
  BY <1>1, <1>2 DEF TypeOK
<1> QED
  BY <1>3, RegCalm DEF TypeOK, Live

LEMMA NextSend ==
    ASSUME TypeOK, ready # <<>>
    PROVE  /\ Tail(ready) \in Seq(Streams \X Messages)
           /\ Head(ready)[1] \in Streams /\ Head(ready)[2] \in Messages
           /\ Head(ready) = <<Head(ready)[1], Head(ready)[2]>>
           /\ ToSet(ready) = ToSet(Tail(ready)) \cup {Head(ready)}
<1>1. /\ Tail(ready) \in Seq(Streams \X Messages) /\ Head(ready) \in Streams \X Messages
      /\ ToSet(ready) = ToSet(Tail(ready)) \cup {Head(ready)}
  BY TailElements DEF TypeOK
<1> QED
  BY <1>1

LEMMA RegBroadcastSend ==
    ASSUME RegInv, BroadcastSend
    PROVE  RegInv'
<1> USE DEF RegInv, BroadcastSend
<1>1. Head(ready)[1] \in Streams /\ Head(ready)[2] \in Messages /\ ready' \in Seq(Streams \X Messages)
  BY NextSend
<1>2. PutDoes(Head(ready)[1], Head(ready)[2])
  BY <1>1, PutIs
<1>3. TypeOK'
  BY <1>1, <1>2 DEF TypeOK, PutDoes
<1> QED
  BY <1>3, RegCalm DEF TypeOK, Live

LEMMA StepRegInv == RegInv /\ [Next]_vars => RegInv'
<1> SUFFICES ASSUME RegInv, [Next]_vars PROVE RegInv'
  OBVIOUS
<1>1. CASE UNCHANGED vars
  BY <1>1, RegCalm DEF vars, RegInv, TypeOK
<1>2. ASSUME NEW s \in Streams, StreamStep(s) PROVE RegInv'
  BY <1>2, RegRefuse, RegConnect, RegOnConnect, RegStops, RegGenerate, RegYield,
     RegCleanup, RegClose
     DEF StreamStep
<1> QED
  BY <1>1, <1>2, RegKick, RegBroadcast, RegBroadcastSend DEF Next

(* SSEConnectionManager: the registry of connections keeps its shape.      *)
THEOREM RegistryInvariant == Spec => []RegInv
BY InitRegInv, StepRegInv, PTL DEF Spec

LEMMA OpenIsRegistered ==
    ASSUME RegInv, NEW s \in Streams, Open(s)
    PROVE  s \in Registered
<1>1. conns[IdOf[s]] = s /\ IdOf[s] \in Ids
  BY SSEAssumption DEF RegInv, Registry
<1> QED
  BY <1>1, RegisteredIs DEF RegInv, TypeOK

LEMMA Within ==
    ASSUME NEW S, NEW T, NEW n \in Nat, IsFiniteSet(S), T \subseteq S, Cardinality(S) <= n
    PROVE  Cardinality(T) <= n
<1>1. IsFiniteSet(T) /\ Cardinality(T) <= Cardinality(S)
  BY FS_Subset
<1>2. Cardinality(S) \in Nat /\ Cardinality(T) \in Nat
  BY <1>1, FS_CardinalityType
<1> QED
  BY <1>1, <1>2

(* SSEConnectionManager.connect: the caps it tests on the registry bound   *)
(* the connections that are open, however the streams interleave.          *)
THEOREM CapsBoundOpenConnections == Spec => []CapsHold
<1>1. RegInv => CapsHold
  <2> SUFFICES ASSUME RegInv PROVE CapsHold
    OBVIOUS
  <2> DEFINE open == {s \in Streams : Open(s)}
  <2>1. open \subseteq Registered /\ IsFiniteSet(Registered)
    BY OpenIsRegistered DEF RegInv, Capped
  <2>2. Cardinality(open) <= MaxConnections
    BY <2>1, Within, CapTypes DEF RegInv, Capped
  <2>3. ASSUME NEW ip \in Ips
        PROVE  Cardinality({s \in open : IpOf[s] = ip}) <= MaxConnectionsPerIp
    <3>1. At(ip) \subseteq Registered /\ {s \in open : IpOf[s] = ip} \subseteq At(ip)
      BY <2>1 DEF At
    <3>2. IsFiniteSet(At(ip)) /\ Cardinality(At(ip)) <= MaxConnectionsPerIp
      BY <2>1, <3>1, FS_Subset DEF RegInv, Capped
    <3> QED
      BY <3>1, <3>2, Within, CapTypes
  <2> QED
    BY <2>2, <2>3 DEF CapsHold
<1> QED
  BY <1>1, RegistryInvariant, PTL

(* sse_stream's finally clause: a stream that went through it is closed    *)
(* and no longer registered, although disconnect goes by the id and may    *)
(* have been called by another stream, or have removed another one's       *)
(* connection; one whose on_disconnect raised is closed or registered.     *)
THEOREM EndedStreamsAreGone == Spec => []EndedIsGone
<1>1. RegInv => EndedIsGone
  <2>1. ASSUME RegInv, NEW s \in Streams, st[s] = "ended" PROVE closed[s] /\ s \notin Registered
    <3>1. closed[s] = TRUE
      BY <2>1 DEF RegInv, Registry
    <3>2. s \notin Registered
      <4> SUFFICES ASSUME NEW id \in Ids, conns[id] = s PROVE FALSE
        BY <2>1, RegisteredIs DEF RegInv, TypeOK
      <4> QED
        BY <2>1, SSEAssumption DEF RegInv, Registry, Live
    <3> QED
      BY <3>1, <3>2
  <2>2. ASSUME RegInv, NEW s \in Streams, st[s] = "raised" PROVE closed[s] \/ conns[IdOf[s]] = s
    BY <2>2 DEF RegInv, Registry, Open
  <2> QED
    BY <2>1, <2>2 DEF EndedIsGone
<1> QED
  BY <1>1, RegistryInvariant, PTL

(* SSEConnection.send: no step puts anything into a closed connection.     *)
THEOREM ClosedConnectionsAreQuiet == Spec => ClosedIsQuiet
<1> DEFINE Quiet == \A s \in Streams : closed[s] => enq'[s] \in {enq[s], <<>>}
<1>1. RegInv /\ [Next]_vars => [Quiet]_vars
  <2> SUFFICES ASSUME RegInv, Next, NEW s \in Streams, closed[s] = TRUE
               PROVE  enq'[s] \in {enq[s], <<>>}
    BY DEF RegInv, TypeOK
  <2>1. ASSUME NEW r \in Streams, NEW e \in Messages, PutDoes(r, e) PROVE enq'[s] = enq[s]
    BY <2>1 DEF PutDoes
  <2>2. ASSUME NEW r \in Streams, StreamStep(r) PROVE enq'[s] \in {enq[s], <<>>}
    <3>1. ASSUME NEW last, Connect(r, last) PROVE enq'[s] = enq[s]
      <4>1. s # r
        BY <3>1 DEF Connect, RegInv, Registry
      <4> QED
        BY <3>1, <4>1 DEF Connect, RegInv, TypeOK
    <3>2. CASE OnConnect(r)
      BY <2>1, <3>2, PutAndRecordIs, MessageOf DEF OnConnect, RegInv
    <3>3. CASE Generate(r)
      BY <2>1, <3>3, PutAndRecordIs, MessageOf DEF Generate, RegInv
    <3>4. CASE Cleanup(r)
      BY <3>4 DEF Cleanup, Forget, RegInv, TypeOK
    <3> QED
      BY <2>2, <3>1, <3>2, <3>3, <3>4
         DEF StreamStep, Refuse, OnConnectRaises, Yield, LoopEnds, Aborted, OnDisconnectRaises, Close
  <2>3. CASE BroadcastSend
    BY <2>1, <2>3, PutIs, NextSend DEF BroadcastSend, RegInv
  <2> QED
    BY <2>2, <2>3 DEF Next, Kick, Broadcast
<1>2. Spec => [][Quiet]_vars
  BY <1>1, RegistryInvariant, PTL DEF Spec
<1> QED
  BY <1>2 DEF ClosedIsQuiet

-----------------------------------------------------------------------------
(* What an open connection has been sent or is about to be.                *)
Has(s) == ToSet(enq[s]) \cup {x \in Messages : <<s, x>> \in ToSet(ready)}

SeamlessAt(s) ==
    Open(s) /\ gap[s] = FALSE =>
        \A i \in 1 .. Len(recorded) :
            i > since[s] /\ recorded[i] \in Events => recorded[i] \in Has(s)

SeamInv == RegInv /\ \A s \in Streams : SeamlessAt(s)

(* A connection that stays open keeps what it has, and is sent what is     *)
(* recorded.                                                               *)
LEMMA SeamFrame ==
    ASSUME TypeOK, NEW s \in Streams, SeamlessAt(s), NEW e \in Messages, Grows(e),
           Open(s)' => Open(s), gap'[s] = FALSE => gap[s] = FALSE, since'[s] = since[s],
           Open(s)' /\ gap'[s] = FALSE => Has(s) \subseteq Has(s)',
           recorded' # recorded /\ e \in Events /\ Open(s)' => e \in Has(s)'
    PROVE  SeamlessAt(s)'
<1> SUFFICES ASSUME Open(s)', gap'[s] = FALSE, NEW i \in 1 .. Len(recorded'),
                    i > since[s], recorded'[i] \in Events
             PROVE  recorded'[i] \in Has(s)'
  BY DEF SeamlessAt
<1>1. recorded \in Seq(Messages)
  BY DEF TypeOK
<1>2. CASE recorded' = recorded
  BY <1>2 DEF SeamlessAt
<1>3. CASE recorded' # recorded
  <2>1. /\ Len(recorded') = Len(recorded) + 1 /\ Len(recorded) \in Nat
        /\ \A j \in 1 .. Len(recorded) : recorded'[j] = recorded[j]
        /\ recorded'[Len(recorded) + 1] = e
    BY <1>1, <1>3, AppendProperties, Elements DEF Grows
  <2>2. CASE i = Len(recorded) + 1
    BY <1>3, <2>1, <2>2
  <2>3. CASE i # Len(recorded) + 1
    <3>1. i \in 1 .. Len(recorded)
      BY <2>1, <2>3
    <3> QED
      BY <2>1, <3>1 DEF SeamlessAt
  <2> QED
    BY <2>2, <2>3
<1> QED
  BY <1>2, <1>3

LEMMA SeamStill ==
    ASSUME SeamInv, NEW s \in Streams, Open(s)' => Open(s), recorded' = recorded,
           enq'[s] = enq[s], gap'[s] = gap[s], since'[s] = since[s], ready' = ready
    PROVE  SeamlessAt(s)'
<1>1. Welcome(s) \in Messages
  BY MessageOf
<1>2. Has(s)' = Has(s)
  BY DEF Has
<1> QED
  BY <1>1, <1>2, SeamFrame DEF SeamInv, RegInv, Grows

LEMMA SeamConnect ==
    ASSUME SeamInv, NEW r \in Streams, NEW last, Connect(r, last), NEW s \in Streams
    PROVE  SeamlessAt(s)'
<1> USE DEF SeamInv, RegInv, Connect
<1>1. CASE s # r
  <2>1. Open(s)' => Open(s)
    BY <1>1 DEF Open, CloseOld, TypeOK
  <2>2. enq'[s] = enq[s] /\ gap'[s] = gap[s] /\ since'[s] = since[s]
    BY <1>1 DEF TypeOK
  <2> QED
    BY <2>1, <2>2, SeamStill
<1>2. CASE s = r
  <2> DEFINE es == EventsAfter(last)
  <2>1. /\ enq'[s] = Replayed(last) /\ since'[s] = Len(recorded) - Len(es)
        /\ gap'[s] = FALSE => ~(Len(es) > MaxQueue)
    BY <1>2 DEF TypeOK
  <2>2. /\ es \in Seq(Messages) /\ Len(es) \in Nat /\ Len(es) <= Len(recorded)
        /\ \A i \in 1 .. Len(es) : es[i] = recorded[(Len(recorded) - Len(es)) + i]
        /\ Len(es) <= MaxQueue => Replayed(last) = es
    BY Replays DEF TypeOK
  <2>3. Len(recorded) \in Nat /\ MaxQueue \in Nat
    BY Elements, SSEAssumption DEF TypeOK
  <2>4. ToSet(es) = {es[i] : i \in 1 .. Len(es)}
    BY <2>2, Elements
  <2> HIDE DEF es
  <2>5. ASSUME gap'[s] = FALSE, NEW i \in 1 .. Len(recorded), i > since'[s]
        PROVE  recorded[i] \in Has(s)'
    <3>1. enq'[s] = es
      BY <2>1, <2>2, <2>3, <2>5
    <3> DEFINE j == i - (Len(recorded) - Len(es))
    <3>2. j \in 1 .. Len(es) /\ (Len(recorded) - Len(es)) + j = i
      BY <2>1, <2>2, <2>3, <2>5
    <3>3. recorded[i] \in ToSet(es)
      BY <2>2, <2>4, <3>2
    <3> QED
      BY <3>1, <3>3 DEF Has
  <2> QED
    BY <2>5 DEF SeamlessAt
<1> QED
  BY <1>1, <1>2

(* A callback sends an event of its own.                                   *)
LEMMA SeamPut ==
    ASSUME SeamInv, NEW r \in Streams, NEW m \in Messages, m \notin Events,
           PutDoes(r, m), Grows(m), ready' = ready, since' = since,
           NEW s \in Streams, Open(s)' => Open(s)
    PROVE  SeamlessAt(s)'
<1>1. ToSet(enq[s]) \subseteq ToSet(enq'[s])
  <2>1. enq[s] \in Seq(Messages)
    BY DEF SeamInv, RegInv, TypeOK
  <2>2. ToSet(Append(enq[s], m)) = ToSet(enq[s]) \cup {m}
    BY <2>1, AppendElements
  <2> QED
    BY <2>2 DEF PutDoes
<1>2. Has(s) \subseteq Has(s)'
  BY <1>1 DEF Has
<1>3. gap'[s] = FALSE => gap[s] = FALSE
  BY DEF PutDoes
<1> QED
  BY <1>2, <1>3, SeamFrame DEF SeamInv, RegInv

LEMMA SeamBroadcast ==
    ASSUME SeamInv, NEW e \in Events, Broadcast(e), NEW s \in Streams
    PROVE  SeamlessAt(s)'
<1> USE DEF SeamInv, RegInv, Broadcast
<1> DEFINE q == SetToSeq({<<t, e>> : t \in Active})
<1>1. e \in Messages
  BY MessageOf
<1>2. Sends(q, e)
  BY <1>1, SendsOf DEF Capped
<1>3. ToSet(ready') = ToSet(ready) \cup ToSet(q)
  <2>1. ready' = ready \o q /\ ready \in Seq(Streams \X Messages) /\ q \in Seq(Streams \X Messages)
    BY <1>2 DEF Sends, TypeOK
  <2> HIDE DEF q
  <2> QED
    BY <2>1, ConcatElements, ZenonT(40)
<1> HIDE DEF q
<1>4. Open(s)' => Open(s)
  BY DEF Open
<1>5. Has(s) \subseteq Has(s)'
  BY <1>3 DEF Has
<1>6. Open(s)' => e \in Has(s)'
  <2>1. Open(s) => s \in Active
    BY OpenIsRegistered DEF Active, Open
  <2> QED
    BY <1>1, <1>2, <1>3, <1>4, <2>1 DEF Sends, Has
<1>7. Grows(e)
  BY DEF Record, Grows
<1> QED
  BY <1>1, <1>4, <1>5, <1>6, <1>7, SeamFrame

LEMMA SeamBroadcastSend ==
    ASSUME SeamInv, BroadcastSend, NEW s \in Streams
    PROVE  SeamlessAt(s)'
<1> USE DEF SeamInv, RegInv, BroadcastSend
<1> DEFINE r == Head(ready)[1]
           m == Head(ready)[2]
<1>1. /\ r \in Streams /\ m \in Messages /\ Head(ready) = <<r, m>>
      /\ ToSet(ready) = ToSet(ready') \cup {<<r, m>>}
  BY NextSend
<1>2. PutDoes(r, m)
  BY <1>1, PutIs
<1> HIDE DEF r, m
<1>3. Open(s)' => Open(s)
  BY DEF Open
<1>4. gap'[s] = FALSE => gap[s] = FALSE
  BY <1>1, <1>2 DEF PutDoes
<1>5. enq[s] \in Seq(Messages)
  BY DEF TypeOK
<1>6. ToSet(Append(enq[s], m)) = ToSet(enq[s]) \cup {m}
  BY <1>1, <1>5, AppendElements
<1>7. ToSet(enq[s]) \subseteq ToSet(enq'[s])
  BY <1>2, <1>6 DEF PutDoes
<1>8. s = r /\ Open(s) /\ gap'[s] = FALSE => m \in ToSet(enq'[s])
  <2>1. gap[s] \in BOOLEAN /\ closed[s] \in BOOLEAN
    BY DEF TypeOK
  <2> SUFFICES ASSUME s = r, Open(s), gap'[s] = FALSE PROVE m \in ToSet(enq'[s])
    OBVIOUS
  <2>2. enq'[s] = Append(enq[s], m)
    BY <1>2, <2>1 DEF PutDoes, Open
  <2> QED
    BY <1>6, <2>2
<1>9. Open(s)' /\ gap'[s] = FALSE => Has(s) \subseteq Has(s)'
  BY <1>1, <1>3, <1>7, <1>8 DEF Has
<1>10. Welcome(s) \in Messages /\ Grows(Welcome(s)) /\ since'[s] = since[s] /\ recorded' = recorded
  BY MessageOf DEF Grows
<1> QED
  BY <1>3, <1>4, <1>9, <1>10, SeamFrame

LEMMA StepSeam ==
    ASSUME SeamInv, [Next]_vars, NEW s \in Streams
    PROVE  SeamlessAt(s)'
<1>1. CASE UNCHANGED vars
  BY <1>1, SeamStill DEF vars, Open
<1>2. ASSUME NEW r \in Streams, StreamStep(r) PROVE SeamlessAt(s)'
  <2> USE DEF SeamInv, RegInv, TypeOK
  <2>1. ASSUME NEW last, Connect(r, last) PROVE SeamlessAt(s)'
    BY <2>1, SeamConnect
  <2>2. CASE OnConnect(r)
    <3>1. Open(s)' => Open(s)
      BY <2>2 DEF OnConnect, Open
    <3>2. CASE r \in Greeted
      BY <2>2, <3>1, <3>2, PutAndRecordIs, MessageOf, SeamPut, CallbackAssumption
         DEF OnConnect
    <3>3. CASE r \notin Greeted
      BY <2>2, <3>1, <3>3, SeamStill DEF OnConnect
    <3> QED
      BY <3>2, <3>3
  <2>3. CASE Generate(r)
    <3>1. Open(s)' => Open(s)
      BY <2>3 DEF Generate, Open
    <3> QED
      BY <2>3, <3>1, PutAndRecordIs, MessageOf, SeamPut, CallbackAssumption
         DEF Generate
  <2>4. CASE Cleanup(r)
    <3>1. Open(s)' => Open(s) /\ s # r
      BY <2>4 DEF Cleanup, Disconnect, Open
    <3>2. CASE s = r
      BY <3>1, <3>2 DEF SeamlessAt
    <3>3. CASE s # r
      BY <2>4, <3>1, <3>3, SeamStill DEF Cleanup, Forget
    <3> QED
      BY <3>2, <3>3
  <2>5. CASE \/ Refuse(r) \/ OnConnectRaises(r) \/ Yield(r) \/ LoopEnds(r) \/ Aborted(r)
             \/ OnDisconnectRaises(r) \/ Close(r)
    <3>1. Open(s)' => Open(s)
      BY <2>5 DEF Refuse, OnConnectRaises, Yield, LoopEnds, Aborted, OnDisconnectRaises, Close, Open
    <3> QED
      BY <2>5, <3>1, SeamStill
         DEF Refuse, OnConnectRaises, Yield, LoopEnds, Aborted, OnDisconnectRaises, Close
  <2> QED
    BY <1>2, <2>1, <2>2, <2>3, <2>4, <2>5 DEF StreamStep
<1>3. ASSUME NEW id \in Ids, Kick(id) PROVE SeamlessAt(s)'
  <2>1. Open(s)' => Open(s)
    BY <1>3 DEF Kick, Disconnect, Open
  <2> QED
    BY <1>3, <2>1, SeamStill DEF Kick
<1> QED
  BY <1>1, <1>2, <1>3, SeamBroadcast, SeamBroadcastSend DEF Next

(* SSEConnectionManager.broadcast and connect: between replay and live     *)
(* events there is no gap.                                                 *)
THEOREM ReplayMeetsLive == Spec => []Seamless
<1>1. Init => SeamInv
  <2>1. Init => \A s \in Streams : SeamlessAt(s)
    BY DEF Init, SeamlessAt, Open
  <2> QED
    BY <2>1, InitRegInv DEF SeamInv
<1>2. SeamInv /\ [Next]_vars => SeamInv'
  BY StepSeam, StepRegInv DEF SeamInv
<1>3. SeamInv => Seamless
  <2> SUFFICES ASSUME SeamInv, NEW s \in Streams, Open(s), ~gap[s],
                      NEW i \in since[s] + 1 .. Len(recorded), recorded[i] \in Events
               PROVE  recorded[i] \in ToSet(enq[s]) \/ <<s, recorded[i]>> \in ToSet(ready)
    BY DEF Seamless
  <2>1. since[s] \in Nat /\ gap[s] = FALSE /\ Len(recorded) \in Nat
    BY Elements DEF SeamInv, RegInv, TypeOK
  <2>2. i \in 1 .. Len(recorded) /\ i > since[s]
    BY <2>1
  <2> QED
    BY <2>1, <2>2 DEF SeamInv, SeamlessAt, Has
<1> QED
  BY <1>1, <1>2, <1>3, PTL DEF Spec

-----------------------------------------------------------------------------
(* The order of events: x comes before y in q.                             *)
Before(q, x, y) ==
    \E m, n \in 1 .. Len(q) : m < n /\ q[m] = x /\ q[n] = y /\ x # y

Named == Events \ Unnamed

(* A broadcast event is recorded once.                                     *)
RecordedOnce ==
    \A m, n \in 1 .. Len(recorded) :
        m < n /\ recorded[m] \in Events => recorded[m] # recorded[n]

(* What is in the queue of s, what is scheduled for s and what is recorded *)
(* agree on the order, and nothing is scheduled for a request that has not *)
(* been made.                                                              *)
QueueOrdered(s) ==
    \A i, j \in 1 .. Len(enq[s]) :
        i < j /\ enq[s][i] \in Named /\ enq[s][j] \in Named => Before(recorded, enq[s][i], enq[s][j])

QueueFirst ==
    \A k \in 1 .. Len(ready) : ready[k][2] \in Named =>
        \A x \in ToSet(enq[ready[k][1]]) : x \in Named => Before(recorded, x, ready[k][2])

SendsOrdered ==
    \A k, l \in 1 .. Len(ready) :
        k < l /\ ready[k][1] = ready[l][1] /\ ready[k][2] \in Named /\ ready[l][2] \in Named
        => Before(recorded, ready[k][2], ready[l][2])

AllRecorded ==
    /\ \A s \in Streams : ToSet(enq[s]) \cap Named \subseteq ToSet(recorded)
    /\ \A k \in 1 .. Len(ready) : ready[k][2] \in Named => ready[k][2] \in ToSet(recorded)

NobodyEarly == \A k \in 1 .. Len(ready) : st[ready[k][1]] # "new"

OrderInv ==
    /\ RegInv /\ RecordedOnce /\ SendsOrdered /\ QueueFirst /\ AllRecorded
    /\ NobodyEarly
    /\ \A s \in Streams : QueueOrdered(s)

(* Nothing that was recorded changes its place.                            *)
LEMMA GrowsKeeps ==
    ASSUME TypeOK, NEW e \in Messages, Grows(e)
    PROVE  /\ \A x, y : Before(recorded, x, y) => Before(recorded', x, y)
           /\ ToSet(recorded) \subseteq ToSet(recorded)'
<1>1. recorded \in Seq(Messages) /\ recorded' \in Seq(Messages)
  BY GrowsIs DEF TypeOK
<1>2. Len(recorded) \in Nat /\ ToSet(recorded) = {recorded[i] : i \in 1 .. Len(recorded)}
  BY <1>1, Elements
<1>3. Len(recorded') \in Nat /\ ToSet(recorded') = {recorded'[i] : i \in 1 .. Len(recorded')}
  BY <1>1, Elements
<1>4. /\ Len(recorded) <= Len(recorded')
      /\ \A i \in 1 .. Len(recorded) : recorded'[i] = recorded[i]
  BY <1>1, <1>2, AppendProperties DEF Grows
<1>5. \A x, y : Before(recorded, x, y) => Before(recorded', x, y)
  BY <1>2, <1>3, <1>4 DEF Before
<1> QED
  BY <1>2, <1>3, <1>4, <1>5

LEMMA OnceGrows ==
    ASSUME TypeOK, RecordedOnce, NEW e \in Messages, Grows(e),
           e \in Events => e \notin ToSet(recorded) \/ recorded' = recorded
    PROVE  RecordedOnce'
<1>1. recorded \in Seq(Messages) /\ Len(recorded) \in Nat
      /\ ToSet(recorded) = {recorded[i] : i \in 1 .. Len(recorded)}
  BY Elements DEF TypeOK
<1>2. CASE recorded' = recorded
  BY <1>2 DEF RecordedOnce
<1>3. CASE recorded' # recorded
  <2>1. /\ Len(recorded') = Len(recorded) + 1
        /\ \A i \in 1 .. Len(recorded) : recorded'[i] = recorded[i]
        /\ recorded'[Len(recorded) + 1] = e
    BY <1>1, <1>3, AppendProperties DEF Grows
  <2> SUFFICES ASSUME NEW m \in 1 .. Len(recorded'), NEW n \in 1 .. Len(recorded'),
                      m < n, recorded'[m] \in Events, recorded'[m] = recorded'[n]
               PROVE  FALSE
    BY DEF RecordedOnce
  <2>2. m \in 1 .. Len(recorded)
    BY <1>1, <2>1
  <2>3. CASE n = Len(recorded) + 1
    BY <1>1, <1>3, <2>1, <2>2, <2>3
  <2>4. CASE n # Len(recorded) + 1
    <3>1. n \in 1 .. Len(recorded)
      BY <1>1, <2>1, <2>4
    <3> QED
      BY <2>1, <2>2, <3>1 DEF RecordedOnce
  <2> QED
    BY <2>3, <2>4
<1> QED
  BY <1>2, <1>3

(* A step that schedules and puts nothing.                                 *)
LEMMA OrderStill ==
    ASSUME OrderInv, RegInv', ready' = ready, recorded' = recorded,
           \A s \in Streams : enq'[s] = enq[s] \/ enq'[s] = <<>>,
           \A s \in Streams : st'[s] = "new" => st[s] = "new"
    PROVE  OrderInv'
<1> USE DEF OrderInv
<1>0. \A k \in 1 .. Len(ready) : ready[k][1] \in Streams
  <2>1. \A k \in 1 .. Len(ready) : ready[k] \in Streams \X Messages
    BY Elements DEF RegInv, TypeOK
  <2> QED
    BY <2>1
<1>1. \A s \in Streams : ToSet(enq'[s]) \subseteq ToSet(enq[s])
  BY DEF ToSet
<1>2. \A x, y : Before(recorded', x, y) <=> Before(recorded, x, y)
  BY DEF Before
<1>3. RecordedOnce' /\ SendsOrdered'
  BY <1>2 DEF RecordedOnce, SendsOrdered
<1>4. QueueFirst'
  BY <1>0, <1>1, <1>2 DEF QueueFirst
<1>5. AllRecorded' /\ NobodyEarly'
  BY <1>0, <1>1 DEF AllRecorded, NobodyEarly
<1>6. ASSUME NEW s \in Streams PROVE QueueOrdered(s)'
  <2>1. CASE enq'[s] = enq[s]
    BY <1>2, <2>1 DEF QueueOrdered
  <2>2. CASE enq'[s] = <<>>
    BY <2>2 DEF QueueOrdered
  <2> QED
    BY <2>1, <2>2
<1> QED
  BY <1>3, <1>4, <1>5, <1>6

LEMMA QueueAppend ==
    ASSUME TypeOK, NEW s \in Streams, NEW m \in Messages, enq'[s] = Append(enq[s], m),
           \A x, y : Before(recorded, x, y) => Before(recorded', x, y),
           m \in Named => \A x \in ToSet(enq[s]) : x \in Named => Before(recorded', x, m),
           QueueOrdered(s)
    PROVE  QueueOrdered(s)'
<1>1. enq[s] \in Seq(Messages)
  BY DEF TypeOK
<1>2. /\ Len(enq[s]) \in Nat /\ ToSet(enq[s]) = {enq[s][i] : i \in 1 .. Len(enq[s])}
      /\ Len(enq'[s]) = Len(enq[s]) + 1
      /\ \A i \in 1 .. Len(enq[s]) : enq'[s][i] = enq[s][i]
      /\ enq'[s][Len(enq[s]) + 1] = m
  BY <1>1, Elements, AppendProperties
<1> SUFFICES ASSUME NEW i \in 1 .. Len(enq'[s]), NEW j \in 1 .. Len(enq'[s]), i < j,
                    enq'[s][i] \in Named, enq'[s][j] \in Named
             PROVE  Before(recorded', enq'[s][i], enq'[s][j])
  BY DEF QueueOrdered
<1>3. i \in 1 .. Len(enq[s]) /\ enq'[s][i] = enq[s][i] /\ enq[s][i] \in ToSet(enq[s])
  BY <1>2
<1>4. CASE j = Len(enq[s]) + 1
  BY <1>2, <1>3, <1>4
<1>5. CASE j # Len(enq[s]) + 1
  <2>1. j \in 1 .. Len(enq[s])
    BY <1>2, <1>5
  <2> QED
    BY <1>2, <1>3, <2>1 DEF QueueOrdered
<1> QED
  BY <1>4, <1>5

LEMMA Scheduled ==
    ASSUME TypeOK, NEW k \in 1 .. Len(ready)
    PROVE  ready[k][1] \in Streams /\ ready[k][2] \in Messages
<1>1. ready[k] \in Streams \X Messages
  BY Elements DEF TypeOK
<1> QED
  BY <1>1

(* A callback sends an event of its own.                                   *)
LEMMA OrderPut ==
    ASSUME OrderInv, RegInv', NEW r \in Streams, NEW m \in Messages, m \notin Events,
           PutDoes(r, m), Grows(m), ready' = ready,
           \A s \in Streams : st'[s] = "new" => st[s] = "new"
    PROVE  OrderInv'
<1> USE DEF OrderInv
<1>0. m \notin Named
  BY DEF Named
<1>1. TypeOK /\ \A x, y : Before(recorded, x, y) => Before(recorded', x, y)
  BY GrowsKeeps DEF RegInv
<1>2. ToSet(recorded) \subseteq ToSet(recorded')
  BY <1>1, GrowsKeeps
<1>3. \A s \in Streams : enq'[s] = enq[s] \/ enq'[s] = Append(enq[s], m)
  BY DEF PutDoes
<1>4. \A s \in Streams : ToSet(enq'[s]) \subseteq ToSet(enq[s]) \cup {m}
  <2> SUFFICES ASSUME NEW s \in Streams PROVE ToSet(enq'[s]) \subseteq ToSet(enq[s]) \cup {m}
    OBVIOUS
  <2>1. enq[s] \in Seq(Messages)
    BY <1>1 DEF TypeOK
  <2>2. ToSet(Append(enq[s], m)) = ToSet(enq[s]) \cup {m}
    BY <2>1, AppendElements
  <2> QED
    BY <1>3, <2>2
<1>5. RecordedOnce'
  BY <1>1, OnceGrows
<1>6. SendsOrdered'
  <2> SUFFICES ASSUME NEW k \in 1 .. Len(ready), NEW l \in 1 .. Len(ready), k < l,
                      ready[k][1] = ready[l][1], ready[k][2] \in Named, ready[l][2] \in Named
               PROVE  Before(recorded', ready[k][2], ready[l][2])
    BY DEF SendsOrdered
  <2>1. Before(recorded, ready[k][2], ready[l][2])
    BY DEF SendsOrdered
  <2> QED
    BY <1>1, <2>1
<1>7. QueueFirst'
  <2> SUFFICES ASSUME NEW k \in 1 .. Len(ready), ready[k][2] \in Named,
                      NEW x \in ToSet(enq'[ready[k][1]]), x \in Named
               PROVE  Before(recorded', x, ready[k][2])
    BY DEF QueueFirst
  <2>1. x \in ToSet(enq[ready[k][1]])
    BY <1>0, <1>1, <1>4, Scheduled
  <2>2. Before(recorded, x, ready[k][2])
    BY <2>1 DEF QueueFirst
  <2> QED
    BY <1>1, <2>2
<1>8. AllRecorded'
  BY <1>0, <1>2, <1>4 DEF AllRecorded
<1>9. NobodyEarly'
  BY <1>1, Scheduled DEF NobodyEarly
<1>10. ASSUME NEW s \in Streams PROVE QueueOrdered(s)'
  <2>1. CASE enq'[s] = enq[s]
    <3> SUFFICES ASSUME NEW i \in 1 .. Len(enq[s]), NEW j \in 1 .. Len(enq[s]), i < j,
                        enq[s][i] \in Named, enq[s][j] \in Named
                 PROVE  Before(recorded', enq'[s][i], enq'[s][j])
      BY <2>1 DEF QueueOrdered
    <3>1. Before(recorded, enq[s][i], enq[s][j])
      BY DEF QueueOrdered
    <3> QED
      BY <1>1, <2>1, <3>1
  <2>2. CASE enq'[s] = Append(enq[s], m)
    BY <1>0, <1>1, <2>2, QueueAppend
  <2> QED
    BY <1>3, <2>1, <2>2
<1> QED
  BY <1>5, <1>6, <1>7, <1>8, <1>9, <1>10

LEMMA OrderConnect ==
    ASSUME OrderInv, RegInv', NEW r \in Streams, NEW last, Connect(r, last)
    PROVE  OrderInv'
<1> USE DEF OrderInv, Connect
<1>0. TypeOK
  BY DEF RegInv
<1>1. \A x, y : Before(recorded', x, y) <=> Before(recorded, x, y)
  BY DEF Before
<1>2. /\ enq'[r] = Replayed(last) /\ \A s \in Streams \ {r} : enq'[s] = enq[s]
      /\ \A s \in Streams : st'[s] = "new" => st[s] = "new" /\ s # r
  BY <1>0 DEF TypeOK
<1>3. \A k \in 1 .. Len(ready) : ready[k][1] \in Streams \ {r}
  BY <1>0, Scheduled DEF NobodyEarly
<1>4. RecordedOnce' /\ SendsOrdered'
  BY <1>1 DEF RecordedOnce, SendsOrdered
<1>5. QueueFirst'
  <2> SUFFICES ASSUME NEW k \in 1 .. Len(ready), ready[k][2] \in Named,
                      NEW x \in ToSet(enq'[ready[k][1]]), x \in Named
               PROVE  Before(recorded', x, ready[k][2])
    BY DEF QueueFirst
  <2>1. x \in ToSet(enq[ready[k][1]])
    BY <1>2, <1>3
  <2>2. Before(recorded, x, ready[k][2])
    BY <2>1 DEF QueueFirst
  <2> QED
    BY <2>2 DEF Before
<1>6. NobodyEarly'
  BY <1>2, <1>3 DEF NobodyEarly
<1> DEFINE q == Replayed(last)
           a == Len(recorded) - Len(EventsAfter(last))
<1>7. /\ q \in Seq(Messages) /\ Len(q) \in Nat /\ a \in Nat
      /\ \A i \in 1 .. Len(q) : a + i \in 1 .. Len(recorded) /\ q[i] = recorded[a + i]
  <2> DEFINE es == EventsAfter(last)
  <2>1. /\ es \in Seq(Messages) /\ q \in Seq(Messages)
        /\ Len(es) \in Nat /\ Len(es) <= Len(recorded)
        /\ \A i \in 1 .. Len(es) : es[i] = recorded[(Len(recorded) - Len(es)) + i]
        /\ Len(q) <= Len(es)
        /\ \A i \in 1 .. Len(q) : q[i] = es[i]
    BY <1>0, Replays DEF TypeOK
  <2>2. Len(recorded) \in Nat /\ Len(q) \in Nat
    BY <1>0, <2>1, Elements DEF TypeOK
  <2> HIDE DEF es, q
  <2>3. a = Len(recorded) - Len(es)
    BY DEF es
  <2> HIDE DEF a
  <2> QED
    BY <2>1, <2>2, <2>3
<1> HIDE DEF a, q
<1>8. ToSet(q) \subseteq ToSet(recorded)
  <2>1. ToSet(q) = {q[i] : i \in 1 .. Len(q)}
    BY <1>7, Elements
  <2>2. ToSet(recorded) = {recorded[i] : i \in 1 .. Len(recorded)}
    BY <1>0, Elements DEF TypeOK
  <2> QED
    BY <1>7, <2>1, <2>2
<1>9. AllRecorded'
  BY <1>2, <1>8 DEF AllRecorded, q
<1>10. QueueOrdered(r)'
  <2>0. enq'[r] = q
    BY <1>2 DEF q
  <2> SUFFICES ASSUME NEW i \in 1 .. Len(q), NEW j \in 1 .. Len(q), i < j,
                      q[i] \in Named, q[j] \in Named
               PROVE  Before(recorded, q[i], q[j])
    BY <1>1, <2>0 DEF QueueOrdered
  <2>1. /\ a + i \in 1 .. Len(recorded) /\ a + j \in 1 .. Len(recorded) /\ a + i < a + j
        /\ q[i] = recorded[a + i] /\ q[j] = recorded[a + j]
    BY <1>7
  <2>2. q[i] # q[j]
    BY <2>1 DEF RecordedOnce, Named
  <2> QED
    BY <2>1, <2>2 DEF Before
<1>11. ASSUME NEW s \in Streams \ {r} PROVE QueueOrdered(s)'
  BY <1>1, <1>2 DEF QueueOrdered
<1> QED
  BY <1>4, <1>5, <1>6, <1>9, <1>10, <1>11

(* What was recorded comes before what is recorded now.                    *)
LEMMA BeforeLast ==
    ASSUME NEW S, NEW q \in Seq(S), NEW e \in S, NEW x \in ToSet(q), x # e
    PROVE  Before(Append(q, e), x, e) /\ e \in ToSet(Append(q, e))
<1>1. /\ Len(q) \in Nat /\ ToSet(q) = {q[i] : i \in 1 .. Len(q)}
      /\ Len(Append(q, e)) = Len(q) + 1
      /\ \A i \in 1 .. Len(q) : Append(q, e)[i] = q[i]
      /\ Append(q, e)[Len(q) + 1] = e
  BY Elements, AppendProperties
<1>2. PICK m \in 1 .. Len(q) : q[m] = x
  BY <1>1
<1>3. m \in 1 .. Len(Append(q, e)) /\ Len(q) + 1 \in 1 .. Len(Append(q, e)) /\ m < Len(q) + 1
  BY <1>1
<1> QED
  BY <1>1, <1>2, <1>3, AppendElements DEF Before

LEMMA OrderBroadcast ==
    ASSUME OrderInv, RegInv', NEW e \in Events, Broadcast(e)
    PROVE  OrderInv'
<1> USE DEF OrderInv, Broadcast
<1> DEFINE q == SetToSeq({<<t, e>> : t \in Active})
           n == Len(ready)
<1>1. TypeOK /\ e \in Messages /\ Grows(e)
  BY MessageOf DEF RegInv, Record, Grows
<1>2. Sends(q, e)
  BY <1>1, SendsOf DEF RegInv, Capped
<1>3. /\ \A x, y : Before(recorded, x, y) => Before(recorded', x, y)
      /\ ToSet(recorded) \subseteq ToSet(recorded')
  BY <1>1, GrowsKeeps
<1>4. ready' = ready \o q
  OBVIOUS
<1> HIDE DEF q
<1>5. /\ n \in Nat /\ Len(q) \in Nat /\ Len(ready') = n + Len(q)
      /\ \A k \in 1 .. n : ready'[k] = ready[k]
      /\ \A k \in n + 1 .. n + Len(q) : ready'[k] = q[k - n]
  <2>1. ready \in Seq(Streams \X Messages) /\ q \in Seq(Streams \X Messages)
    BY <1>1, <1>2 DEF TypeOK, Sends
  <2>2. n \in Nat /\ Len(q) \in Nat
    BY <2>1, Elements
  <2>3. /\ Len(ready') = n + Len(q)
        /\ \A i \in 1 .. n + Len(q) : ready'[i] = IF i <= n THEN ready[i] ELSE q[i - n]
    BY <1>4, <2>1, ConcatProperties
  <2> HIDE DEF n
  <2>4. ASSUME NEW k \in 1 .. n PROVE ready'[k] = ready[k]
    <3>1. k \in 1 .. n + Len(q) /\ k <= n
      BY <2>2
    <3> QED
      BY <2>3, <3>1
  <2>5. ASSUME NEW k \in n + 1 .. n + Len(q) PROVE ready'[k] = q[k - n]
    <3>1. k \in 1 .. n + Len(q) /\ ~(k <= n)
      BY <2>2
    <3> QED
      BY <2>3, <3>1
  <2> QED
    BY <2>2, <2>3, <2>4, <2>5
<1>6. \A k \in n + 1 .. n + Len(q) : ready'[k][2] = e /\ ready'[k][1] \in Active
  <2> SUFFICES ASSUME NEW k \in n + 1 .. n + Len(q)
               PROVE  ready'[k][2] = e /\ ready'[k][1] \in Active
    OBVIOUS
  <2>1. k - n \in 1 .. Len(q) /\ ready'[k] = q[k - n]
    BY <1>5
  <2>2. q[k - n] \in Active \X {e}
    BY <1>2, <2>1 DEF Sends
  <2> QED
    BY <2>1, <2>2
<1>7. \A k \in 1 .. Len(ready') : k \in 1 .. n \/ k \in n + 1 .. n + Len(q)
  BY <1>5
<1>8. e \notin ToSet(recorded)
  BY DEF Sent, ToSet
<1>9. ASSUME e \in Named
      PROVE  /\ \A x \in ToSet(recorded) : Before(recorded', x, e)
             /\ e \in ToSet(recorded')
  <2>1. recorded' = Append(recorded, e) /\ recorded \in Seq(Messages)
    BY <1>1, <1>9 DEF Record, Named, TypeOK
  <2> QED
    BY <1>1, <1>8, <2>1, BeforeLast, AppendElements
<1>10. RecordedOnce'
  BY <1>1, <1>8, OnceGrows
<1>11. SendsOrdered'
  <2> SUFFICES ASSUME NEW k \in 1 .. Len(ready'), NEW l \in 1 .. Len(ready'), k < l,
                      ready'[k][1] = ready'[l][1],
                      ready'[k][2] \in Named, ready'[l][2] \in Named
               PROVE  Before(recorded', ready'[k][2], ready'[l][2])
    BY DEF SendsOrdered
  <2>1. CASE l \in 1 .. n
    <3>1. k \in 1 .. n
      BY <1>5, <2>1
    <3> QED
      BY <1>3, <1>5, <2>1, <3>1 DEF SendsOrdered
  <2>2. CASE l \in n + 1 .. n + Len(q) /\ k \in 1 .. n
    <3>1. ready'[l][2] = e /\ e \in Named
      BY <1>6, <2>2
    <3>2. ready'[k][2] \in ToSet(recorded)
      BY <1>5, <2>2 DEF AllRecorded
    <3> QED
      BY <1>9, <3>1, <3>2
  <2>3. CASE l \in n + 1 .. n + Len(q) /\ k \in n + 1 .. n + Len(q)
    <3>1. k - n \in 1 .. Len(q) /\ l - n \in 1 .. Len(q) /\ k - n # l - n
      BY <1>5, <2>3
    <3>2. q[k - n][1] = q[l - n][1]
      BY <1>5, <2>3
    <3> QED
      BY <1>2, <3>1, <3>2 DEF Sends
  <2> QED
    BY <1>7, <2>1, <2>2, <2>3
<1>12. QueueFirst'
  <2> SUFFICES ASSUME NEW k \in 1 .. Len(ready'), ready'[k][2] \in Named,
                      NEW x \in ToSet(enq[ready'[k][1]]), x \in Named
               PROVE  Before(recorded', x, ready'[k][2])
    BY DEF QueueFirst
  <2>1. CASE k \in 1 .. n
    BY <1>3, <1>5, <2>1 DEF QueueFirst
  <2>2. CASE k \in n + 1 .. n + Len(q)
    <3>1. ready'[k][2] = e /\ e \in Named /\ ready'[k][1] \in Streams
      BY <1>1, <1>6, <2>2, RegisteredIs DEF Active, TypeOK
    <3>2. x \in ToSet(recorded)
      BY <3>1 DEF AllRecorded
    <3> QED
      BY <1>9, <3>1, <3>2
  <2> QED
    BY <1>7, <2>1, <2>2
<1>13. AllRecorded'
  <2>1. \A s \in Streams : ToSet(enq'[s]) \cap Named \subseteq ToSet(recorded')
    BY <1>3 DEF AllRecorded
  <2>2. \A k \in 1 .. Len(ready') : ready'[k][2] \in Named => ready'[k][2] \in ToSet(recorded')
    BY <1>3, <1>5, <1>6, <1>7, <1>9 DEF AllRecorded
  <2> QED
    BY <2>1, <2>2 DEF AllRecorded
<1>14. NobodyEarly'
  <2>1. \A s \in Active : st[s] # "new"
    <3> SUFFICES ASSUME NEW s \in Active PROVE st[s] # "new"
      OBVIOUS
    <3>1. s \in Streams /\ \E id \in Ids : conns[id] = s
      BY <1>1, RegisteredIs DEF Active, TypeOK
    <3> QED
      BY <3>1, SSEAssumption DEF RegInv, Registry, Live
  <2> QED
    BY <1>5, <1>6, <1>7, <2>1 DEF NobodyEarly
<1>15. \A s \in Streams : QueueOrdered(s)'
  BY <1>3 DEF QueueOrdered
<1> QED
  BY <1>10, <1>11, <1>12, <1>13, <1>14, <1>15

LEMMA OrderBroadcastSend ==
    ASSUME OrderInv, RegInv', BroadcastSend
    PROVE  OrderInv'
<1> USE DEF OrderInv, BroadcastSend
<1> DEFINE r == Head(ready)[1]
           m == Head(ready)[2]
<1>0. TypeOK
  BY DEF RegInv
<1>1. r \in Streams /\ m \in Messages
  BY <1>0, NextSend
<1>2. PutDoes(r, m)
  BY <1>0, <1>1, PutIs
<1>3. /\ Len(ready) \in Nat \ {0} /\ Len(ready') = Len(ready) - 1
      /\ \A k \in 1 .. Len(ready') : k + 1 \in 1 .. Len(ready) /\ ready'[k] = ready[k + 1]
      /\ r = ready[1][1] /\ m = ready[1][2]
  <2>1. ready \in Seq(Streams \X Messages)
    BY <1>0 DEF TypeOK
  <2>2. Len(ready) \in Nat \ {0} /\ Head(ready) = ready[1]
    BY <2>1, EmptySeq
  <2>3. /\ Len(ready') = Len(ready) - 1
        /\ \A k \in 1 .. Len(ready') : ready'[k] = ready[k + 1]
    BY <2>1, HeadTailProperties
  <2> QED
    BY <2>2, <2>3
<1> HIDE DEF r, m
<1>4. \A x, y : Before(recorded', x, y) <=> Before(recorded, x, y)
  OBVIOUS
<1>5. \A s \in Streams : enq'[s] = enq[s] \/ (s = r /\ enq'[s] = Append(enq[s], m))
  BY <1>2 DEF PutDoes
<1>6. ASSUME NEW s \in Streams, NEW x \in ToSet(enq'[s])
      PROVE  x \in ToSet(enq[s]) \/ (s = r /\ x = m)
  <2>1. enq[s] \in Seq(Messages)
    BY <1>0 DEF TypeOK
  <2>2. ToSet(Append(enq[s], m)) = ToSet(enq[s]) \cup {m}
    BY <1>1, <2>1, AppendElements
  <2> QED
    BY <1>5, <1>6, <2>2
<1>7. RecordedOnce'
  BY DEF RecordedOnce
<1>8. SendsOrdered'
  <2> SUFFICES ASSUME NEW k \in 1 .. Len(ready'), NEW l \in 1 .. Len(ready'), k < l,
                      ready'[k][1] = ready'[l][1],
                      ready'[k][2] \in Named, ready'[l][2] \in Named
               PROVE  Before(recorded, ready'[k][2], ready'[l][2])
    BY DEF SendsOrdered
  <2>1. k + 1 \in 1 .. Len(ready) /\ l + 1 \in 1 .. Len(ready) /\ k + 1 < l + 1
    BY <1>3
  <2> QED
    BY <1>3, <2>1 DEF SendsOrdered
<1>9. QueueFirst'
  <2> SUFFICES ASSUME NEW k \in 1 .. Len(ready'), ready'[k][2] \in Named,
                      NEW x \in ToSet(enq'[ready'[k][1]]), x \in Named
               PROVE  Before(recorded, x, ready'[k][2])
    BY DEF QueueFirst
  <2>1. k + 1 \in 1 .. Len(ready) /\ ready'[k] = ready[k + 1] /\ 1 \in 1 .. Len(ready) /\ 1 < k + 1
    BY <1>3
  <2>2. ready[k + 1][1] \in Streams
    BY <1>0, <2>1, Scheduled
  <2>3. CASE x \in ToSet(enq[ready[k + 1][1]])
    BY <2>1, <2>3 DEF QueueFirst
  <2>4. CASE ready[k + 1][1] = r /\ x = m
    BY <1>3, <2>1, <2>4 DEF SendsOrdered
  <2> QED
    BY <1>6, <2>1, <2>2, <2>3, <2>4
<1>10. AllRecorded'
  <2>1. \A s \in Streams : ToSet(enq'[s]) \cap Named \subseteq ToSet(recorded)
    BY <1>3, <1>6 DEF AllRecorded
  <2>2. \A k \in 1 .. Len(ready') : ready'[k][2] \in Named => ready'[k][2] \in ToSet(recorded)
    BY <1>3 DEF AllRecorded
  <2> QED
    BY <2>1, <2>2 DEF AllRecorded
<1>11. NobodyEarly'
  BY <1>3 DEF NobodyEarly
<1>12. ASSUME NEW s \in Streams PROVE QueueOrdered(s)'
  <2>1. CASE enq'[s] = enq[s]
    BY <2>1 DEF QueueOrdered
  <2>2. CASE s = r /\ enq'[s] = Append(enq[s], m)
    <3>1. m \in Named => \A x \in ToSet(enq[s]) : x \in Named => Before(recorded', x, m)
      BY <1>3, <1>4, <2>2 DEF QueueFirst
    <3> QED
      BY <1>0, <1>1, <1>4, <2>2, <3>1, QueueAppend
  <2> QED
    BY <1>5, <2>1, <2>2
<1> QED
  BY <1>7, <1>8, <1>9, <1>10, <1>11, <1>12

LEMMA StepOrder == OrderInv /\ [Next]_vars => OrderInv'
<1> SUFFICES ASSUME OrderInv, [Next]_vars PROVE OrderInv'
  OBVIOUS
<1>0. RegInv' /\ RegInv /\ TypeOK
  BY StepRegInv DEF OrderInv, RegInv
<1>1. CASE UNCHANGED vars
  BY <1>0, <1>1, OrderStill DEF vars
<1>2. ASSUME NEW r \in Streams, StreamStep(r) PROVE OrderInv'
  <2>1. ASSUME NEW last, Connect(r, last) PROVE OrderInv'
    BY <1>0, <2>1, OrderConnect
  <2>2. CASE OnConnect(r)
    <3>1. \A s \in Streams : st'[s] = "new" => st[s] = "new"
      BY <1>0, <2>2 DEF OnConnect, TypeOK
    <3>2. CASE r \in Greeted
      BY <1>0, <2>2, <3>1, <3>2, PutAndRecordIs, MessageOf, OrderPut,
         CallbackAssumption
         DEF OnConnect
    <3>3. CASE r \notin Greeted
      BY <1>0, <2>2, <3>1, <3>3, OrderStill DEF OnConnect
    <3> QED
      BY <3>2, <3>3
  <2>3. CASE Generate(r)
    BY <1>0, <2>3, PutAndRecordIs, MessageOf, OrderPut, CallbackAssumption
       DEF Generate
  <2>4. CASE Cleanup(r)
    BY <1>0, <2>4, OrderStill DEF Cleanup, Forget, TypeOK
  <2>5. CASE \/ Refuse(r) \/ OnConnectRaises(r) \/ Yield(r) \/ LoopEnds(r) \/ Aborted(r)
             \/ OnDisconnectRaises(r) \/ Close(r)
    BY <1>0, <2>5, OrderStill
       DEF Refuse, OnConnectRaises, Yield, LoopEnds, Aborted, OnDisconnectRaises, Close, TypeOK
  <2> QED
    BY <1>2, <2>1, <2>2, <2>3, <2>4, <2>5 DEF StreamStep
<1>3. ASSUME NEW id \in Ids, Kick(id) PROVE OrderInv'
  BY <1>0, <1>3, OrderStill DEF Kick
<1> QED
  BY <1>0, <1>1, <1>2, <1>3, OrderBroadcast, OrderBroadcastSend DEF Next

(* SSEConnectionManager.broadcast, connect and SSEConnection.send: a       *)
(* stream gets a broadcast event at most once, replayed or live, and the   *)
(* named ones in the order they were recorded.                             *)
THEOREM EventsArriveInOrder == Spec => []InOrderOnce
<1>1. Init => OrderInv
  <2> SUFFICES ASSUME Init PROVE OrderInv
    OBVIOUS
  <2>1. /\ Len(recorded) = 0 /\ Len(ready) = 0 /\ \A s \in Streams : Len(enq[s]) = 0
        /\ \A s \in Streams : ToSet(enq[s]) = {}
    BY DEF Init, ToSet
  <2> QED
    BY <2>1, InitRegInv
       DEF OrderInv, RecordedOnce, SendsOrdered, QueueFirst, AllRecorded,
           NobodyEarly, QueueOrdered
<1>2. OrderInv => InOrderOnce
  <2> SUFFICES ASSUME OrderInv, NEW s \in Streams, NEW i \in DOMAIN enq[s],
                      NEW j \in DOMAIN enq[s], i < j,
                      {enq[s][i], enq[s][j]} \subseteq Events \ Unnamed
               PROVE  \E m, n \in DOMAIN recorded :
                        m < n /\ recorded[m] = enq[s][i] /\ recorded[n] = enq[s][j]
                              /\ enq[s][i] # enq[s][j]
    BY DEF InOrderOnce
  <2>1. DOMAIN enq[s] = 1 .. Len(enq[s]) /\ DOMAIN recorded = 1 .. Len(recorded)
    BY Elements DEF OrderInv, RegInv, TypeOK
  <2> QED
    BY <2>1, SMTT(20) DEF OrderInv, QueueOrdered, Before, Named
<1> QED
  BY <1>1, <1>2, StepOrder, PTL DEF Spec

=============================================================================
