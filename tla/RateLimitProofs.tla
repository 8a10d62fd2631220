-------------------------- MODULE RateLimitProofs ---------------------------
(***************************************************************************)
(* Theorems about RateLimit: what the counter of a key says of the times   *)
(* its requests were admitted, for any limit and any number of requests.   *)
(***************************************************************************)
EXTENDS RateLimit, SequenceTheorems, FiniteSetTheorems, NaturalsInduction,
        WellFoundedInduction, TLAPS

Req == [pc : {"idle", "limit", "count", "200", "401", "429", "503"},
        key : Keys \cup {NoKey}, count : Nat]

TypeOK ==
    /\ setting \in [auth : BOOLEAN, escape : BOOLEAN, limit : BOOLEAN]
    /\ cache \in [Keys -> [count : Nat, expires : Nat]]
    /\ lock \in Requests \cup {NoKey}
    /\ req \in [Requests -> Req]
    /\ now \in Nat
    /\ admits \in [Keys -> Seq(Nat)]

(* A request on its way has a key; the one that has read the counter holds *)
(* the lock.                                                               *)
Serial ==
    \A q \in Requests :
        /\ req[q].pc \in {"limit", "count"} => req[q].key \in Keys
        /\ req[q].pc = "count" => lock = q /\ setting.limit = TRUE

(* An entry that has not expired dates from the last admission of its key. *)
Dated ==
    \A k \in Keys : Alive(k) =>
        /\ setting.limit = TRUE
        /\ Len(admits[k]) > 0 /\ cache[k].expires = admits[k][Len(admits[k])] + Ttl

(* Admissions are recorded in the order of time.                           *)
Sorted(a, t) ==
    /\ \A i \in 1 .. Len(a) : a[i] <= t
    /\ \A i, j \in 1 .. Len(a) : i <= j => a[i] <= a[j]

(* The last n admissions, counted at time t, began a Ttl or more after the *)
(* ones before them.                                                       *)
Burst(a, n, t) ==
    /\ n \in 0 .. Len(a)
    /\ n < Len(a) => a[Len(a) - n] + Ttl <= (IF n = 0 THEN t ELSE a[Len(a) - n + 1])

(* Of MaxRequests + 1 admissions the first and the last are a Ttl apart.   *)
Spaced(a) ==
    \A i, j \in 1 .. Len(a) : j = i + MaxRequests => a[i] + Ttl <= a[j]

(* The counter, and what a request has read of it, cover the last burst.   *)
Counted(k) ==
    /\ Sorted(admits[k], now) /\ Spaced(admits[k])
    /\ CacheGet(k) <= MaxRequests /\ Burst(admits[k], CacheGet(k), now)
    /\ \A q \in Requests : req[q].pc = "count" /\ req[q].key = k =>
          req[q].count < MaxRequests /\ Burst(admits[k], req[q].count, now)

Inv ==
    /\ TypeOK /\ Serial /\ Dated
    /\ setting.limit = TRUE => \A k \in Keys \ evicted : Counted(k)
-----------------------------------------------------------------------------
(* Sequences of times.                                                     *)
LEMMA BoundsAre == MaxRequests \in Nat \ {0} /\ Ttl \in Nat \ {0}
BY RateLimitAssumption

LEMMA Later ==
    ASSUME NEW a \in Seq(Nat), NEW n, NEW t \in Nat, NEW u \in Nat, t <= u
    PROVE  /\ Burst(a, n, t) => Burst(a, n, u)
           /\ Sorted(a, t) => Sorted(a, u)
<1>1. Len(a) \in Nat /\ \A i \in 1 .. Len(a) : a[i] \in Nat
  BY LenProperties, ElementOfSeq
<1>2. ASSUME Burst(a, n, t) PROVE Burst(a, n, u)
  <2>1. n \in Nat /\ n <= Len(a) /\ n \in 0 .. Len(a)
    BY <1>1, <1>2 DEF Burst
  <2>2. CASE n = 0 /\ n < Len(a)
    <3>1. Len(a) - n \in 1 .. Len(a) /\ a[Len(a) - n] + Ttl <= t
      BY <1>1, <1>2, <2>2 DEF Burst
    <3>2. a[Len(a) - n] + Ttl <= u
      BY <1>1, <3>1, BoundsAre
    <3> QED
      BY <2>1, <2>2, <3>2 DEF Burst
  <2>3. CASE ~(n = 0 /\ n < Len(a))
    BY <1>2, <2>3 DEF Burst
  <2> QED
    BY <2>2, <2>3
<1>3. ASSUME Sorted(a, t) PROVE Sorted(a, u)
  BY <1>1, <1>3 DEF Sorted
<1> QED
  BY <1>2, <1>3

(* One more admission, of a key whose counter is below the limit.          *)
LEMMA Admission ==
    ASSUME NEW a \in Seq(Nat), NEW t \in Nat, NEW n, n < MaxRequests,
           Sorted(a, t), Spaced(a), Burst(a, n, t)
    PROVE  /\ Append(a, t) \in Seq(Nat)
           /\ Sorted(Append(a, t), t) /\ Spaced(Append(a, t)) /\ Burst(Append(a, t), n + 1, t)
<1> DEFINE b == Append(a, t)
           L == Len(a)
<1>1. L \in Nat /\ \A i \in 1 .. L : a[i] \in Nat
  BY LenProperties, ElementOfSeq
<1>2. /\ b \in Seq(Nat) /\ Len(b) = L + 1 /\ b[L + 1] = t
      /\ \A i \in 1 .. L : b[i] = a[i]
  BY AppendProperties
<1>3. /\ n \in Nat /\ n \in 0 .. L
      /\ n < L => a[L - n] + Ttl <= (IF n = 0 THEN t ELSE a[L - n + 1])
      /\ \A i \in 1 .. L : a[i] <= t
      /\ \A i, j \in 1 .. L : i <= j => a[i] <= a[j]
      /\ \A i, j \in 1 .. L : j = i + MaxRequests => a[i] + Ttl <= a[j]
      /\ Ttl \in Nat /\ MaxRequests \in Nat \ {0}
  BY <1>1, BoundsAre DEF Burst, Sorted, Spaced
<1> HIDE DEF b, L
<1>4. \A i \in 1 .. L + 1 : i \in 1 .. L \/ i = L + 1
  BY <1>1
<1>5. Sorted(b, t)
  <2>1. ASSUME NEW i \in 1 .. L + 1 PROVE b[i] <= t
    BY <1>2, <1>3, <1>4
  <2>2. ASSUME NEW i \in 1 .. L + 1, NEW j \in 1 .. L + 1, i <= j PROVE b[i] <= b[j]
    <3>1. CASE j = L + 1
      BY <1>2, <2>1, <3>1
    <3>2. CASE j \in 1 .. L
      <4>1. i \in 1 .. L
        BY <1>1, <2>2, <3>2
      <4> QED
        BY <1>2, <1>3, <2>2, <3>2, <4>1
    <3> QED
      BY <1>4, <3>1, <3>2
  <2> QED
    BY <1>2, <2>1, <2>2 DEF Sorted
<1>6. n < L => L - n \in 1 .. L /\ a[L - n] + Ttl <= t
  <2> SUFFICES ASSUME n < L PROVE L - n \in 1 .. L /\ a[L - n] + Ttl <= t
    OBVIOUS
  <2>1. L - n \in 1 .. L
    BY <1>1, <1>3
  <2>2. CASE n = 0
    BY <1>3, <2>1, <2>2
  <2>3. CASE n # 0
    <3>1. L - n + 1 \in 1 .. L
      BY <1>1, <1>3, <2>3
    <3>2. a[L - n] + Ttl <= a[L - n + 1] /\ a[L - n + 1] <= t
      BY <1>3, <2>3, <3>1
    <3> QED
      BY <1>1, <1>3, <2>1, <3>1, <3>2
  <2> QED
    BY <2>2, <2>3
<1>7. Spaced(b)
  <2> SUFFICES ASSUME NEW i \in 1 .. L + 1, NEW j \in 1 .. L + 1, j = i + MaxRequests
               PROVE  b[i] + Ttl <= b[j]
    BY <1>2 DEF Spaced
  <2>1. i \in 1 .. L /\ b[i] = a[i] /\ a[i] \in Nat
    BY <1>1, <1>2, <1>3, SMTT(20)
  <2>2. CASE j \in 1 .. L
    BY <1>2, <1>3, <2>1, <2>2
  <2>3. CASE j = L + 1
    <3>1. n < L /\ i <= L - n
      BY <1>1, <1>3, <2>1, <2>3
    <3>2. L - n \in 1 .. L /\ a[L - n] + Ttl <= t
      BY <1>6, <3>1
    <3>3. a[i] <= a[L - n] /\ a[L - n] \in Nat
      BY <1>1, <1>3, <2>1, <3>1, <3>2
    <3>4. a[i] + Ttl <= t
      BY <1>3, <2>1, <3>2, <3>3, SMTT(20)
    <3> QED
      BY <1>2, <2>1, <2>3, <3>4
  <2> QED
    BY <1>4, <2>2, <2>3
<1>8. Burst(b, n + 1, t)
  <2>1. n + 1 \in 0 .. L + 1 /\ n + 1 # 0
    BY <1>1, <1>3
  <2>2. ASSUME n + 1 < L + 1 PROVE b[(L + 1) - (n + 1)] + Ttl <= b[(L + 1) - (n + 1) + 1]
    <3>1. n < L /\ (L + 1) - (n + 1) = L - n /\ (L + 1) - (n + 1) + 1 = L - n + 1 /\ L - n \in 1 .. L
      BY <1>1, <1>3, <2>2
    <3>2. b[L - n] = a[L - n]
      BY <1>2, <3>1
    <3>3. CASE n = 0
      <4>1. L - n + 1 = L + 1
        BY <1>1, <3>3
      <4> QED
        BY <1>2, <1>6, <3>1, <3>2, <4>1
    <3>4. CASE n # 0
      <4>1. L - n + 1 \in 1 .. L
        BY <1>1, <1>3, <3>4
      <4> QED
        BY <1>2, <1>3, <3>1, <3>2, <3>4, <4>1
    <3> QED
      BY <3>3, <3>4
  <2> QED
    BY <1>2, <2>1, <2>2 DEF Burst
<1> QED
  BY <1>2, <1>5, <1>7, <1>8 DEF b

(* A window holds at most MaxRequests admissions.                          *)
LEMMA FewInWindow ==
    ASSUME NEW a \in Seq(Nat), NEW u \in Nat, Sorted(a, u), Spaced(a), NEW t \in Nat
    PROVE  Cardinality({i \in DOMAIN a : a[i] \in t .. t + Ttl - 1}) <= MaxRequests
<1> DEFINE S == {i \in DOMAIN a : a[i] \in t .. t + Ttl - 1}
<1>1. Len(a) \in Nat /\ DOMAIN a = 1 .. Len(a) /\ \A i \in 1 .. Len(a) : a[i] \in Nat
  BY LenProperties, ElementOfSeq
<1>2. S \subseteq 1 .. Len(a) /\ S \subseteq Nat
      /\ \A i \in S : a[i] \in Nat /\ t <= a[i] /\ a[i] < t + Ttl
  BY <1>1, BoundsAre
<1>3. CASE S = {}
  <2>1. Cardinality(S) = 0
    BY <1>3, FS_EmptySet
  <2> HIDE DEF S
  <2>2. Cardinality(S) <= MaxRequests
    BY <2>1, BoundsAre
  <2> QED
    BY <2>2 DEF S
<1>4. CASE S # {}
  <2>1. PICK m \in S : \A j \in S : m <= j
    <3> DEFINE LT == {p \in Nat \X Nat : p[1] < p[2]}
    <3>1. IsWellFoundedOn(LT, Nat)
      BY NatLessThanWellFounded DEF OpToRel
    <3>2. \A i, j \in Nat : j < i => <<j, i>> \in LT
      OBVIOUS
    <3> HIDE DEF LT, S
    <3>3. PICK m \in S : \A j \in S : ~(<<j, m>> \in LT)
      BY <1>2, <1>4, <3>1, WFMin
    <3>4. ASSUME NEW j \in S PROVE m <= j
      <4>1. j \in Nat /\ m \in Nat
        BY <1>2
      <4>2. ~(j < m)
        BY <3>2, <3>3, <4>1
      <4> QED
        BY <4>1, <4>2
    <3> QED
      BY <3>4
  <2> HIDE DEF S
  <2>2. m \in Nat /\ m \in 1 .. Len(a) /\ t <= a[m]
    BY <1>2, <2>1
  <2>3. ASSUME NEW i \in S PROVE i \in m .. m + MaxRequests - 1
    <3>1. i \in Nat /\ i \in 1 .. Len(a) /\ m <= i /\ a[i] < t + Ttl /\ a[i] \in Nat
      BY <1>2, <2>1
    <3>2. ASSUME i >= m + MaxRequests PROVE FALSE
      <4>1. m + MaxRequests \in 1 .. Len(a)
        BY <1>1, <2>2, <3>1, <3>2, BoundsAre
      <4>2. a[m] + Ttl <= a[m + MaxRequests]
        BY <2>2, <4>1 DEF Spaced
      <4>3. a[m + MaxRequests] <= a[i]
        BY <3>1, <3>2, <4>1 DEF Sorted
      <4>4. a[m] \in Nat /\ a[m + MaxRequests] \in Nat /\ Ttl \in Nat
        BY <1>1, <2>2, <4>1, BoundsAre
      <4> QED
        BY <2>2, <3>1, <4>2, <4>3, <4>4, SMTT(20)
    <3> QED
      BY <2>2, <3>1, <3>2, BoundsAre
  <2>4. IsFiniteSet(m .. m + MaxRequests - 1) /\ Cardinality(m .. m + MaxRequests - 1) = MaxRequests
    <3>1. m \in Int /\ m + MaxRequests - 1 \in Int /\ ~(m > m + MaxRequests - 1)
          /\ (m + MaxRequests - 1) - m + 1 = MaxRequests
      BY <2>2, BoundsAre
    <3> QED
      BY <3>1, FS_Interval
  <2>5. S \in SUBSET (m .. m + MaxRequests - 1)
    BY <2>3
  <2>6. Cardinality(S) <= MaxRequests
    BY <2>4, <2>5, FS_Subset
  <2> QED
    BY <2>6 DEF S
<1> QED
  BY <1>3, <1>4

-----------------------------------------------------------------------------
(* The cache and the requests.                                             *)
LEMMA TypesAre ==
    ASSUME TypeOK
    PROVE  /\ \A k \in Keys : /\ cache[k].count \in Nat /\ cache[k].expires \in Nat
                              /\ CacheGet(k) \in Nat
                              /\ admits[k] \in Seq(Nat) /\ Len(admits[k]) \in Nat
           /\ \A q \in Requests : req[q] \in Req /\ req[q].count \in Nat
<1>1. \A k \in Keys : cache[k].count \in Nat /\ cache[k].expires \in Nat
  BY DEF TypeOK
<1>2. \A k \in Keys : admits[k] \in Seq(Nat) /\ Len(admits[k]) \in Nat
  BY LenProperties DEF TypeOK
<1>3. \A k \in Keys : CacheGet(k) \in Nat
  BY <1>1 DEF CacheGet
<1>4. \A q \in Requests : req[q] \in Req /\ req[q].count \in Nat
  BY DEF TypeOK, Req
<1> QED
  BY <1>1, <1>2, <1>3, <1>4

Others(k) ==
    \A j \in Keys \ {k} :
        /\ cache'[j] = cache[j] \/ cache'[j] = NoEntry
        /\ j \notin evicted' => (Alive(j) => cache'[j] = cache[j])

LEMMA CacheSetDoes ==
    ASSUME TypeOK, NEW k \in Keys, NEW n \in Nat, CacheSet(k, n)
    PROVE  /\ cache' \in [Keys -> [count : Nat, expires : Nat]]
           /\ cache'[k].count = n /\ cache'[k].expires = now + Ttl
           /\ Others(k) /\ evicted \subseteq evicted'
<1>1. PICK victim :
         /\ evicted' = evicted \cup victim
         /\ cache' = [j \in Keys |->
                         IF j = k THEN [count |-> n, expires |-> now + Ttl]
                         ELSE IF Alive(j) /\ j \notin victim THEN cache[j]
                         ELSE NoEntry]
  BY DEF CacheSet
<1>2. now + Ttl \in Nat /\ NoEntry \in [count : Nat, expires : Nat]
  BY BoundsAre DEF TypeOK, NoEntry
<1>3. cache' \in [Keys -> [count : Nat, expires : Nat]]
  BY <1>1, <1>2 DEF TypeOK
<1>4. cache'[k] = [count |-> n, expires |-> now + Ttl]
  BY <1>1
<1>5. \A j \in Keys \ {k} :
         cache'[j] = IF Alive(j) /\ j \notin victim THEN cache[j] ELSE NoEntry
  BY <1>1
<1> QED
  BY <1>1, <1>3, <1>4, <1>5 DEF Others

(* The request is somewhere else, without the counter.                     *)
LEMMA GotoDoes ==
    ASSUME TypeOK, NEW q \in Requests, NEW r \in Req, Goto(q, r)
    PROVE  /\ req' \in [Requests -> Req] /\ req'[q] = r
           /\ \A o \in Requests \ {q} : req'[o] = req[o]
BY DEF TypeOK, Goto

(* Nothing is admitted.                                                    *)
LEMMA CountedStays ==
    ASSUME Inv, NEW k \in Keys, Counted(k), cache' = cache, now' = now, admits' = admits,
           \A o \in Requests : req'[o].pc = "count" /\ req'[o].key = k =>
              req'[o].count < MaxRequests /\ Burst(admits[k], req'[o].count, now)
    PROVE  Counted(k)'
BY DEF Counted, CacheGet, Alive

LEMMA QuietKeeps ==
    ASSUME Inv, NEW q \in Requests, NEW r \in Req, Goto(q, r), r.pc # "count",
           r.pc = "limit" => r.key \in Keys, req[q].pc # "count",
           UNCHANGED <<setting, cache, lock, now, admits, evicted>>
    PROVE  Inv'
<1>1. TypeOK /\ Serial /\ Dated
  BY DEF Inv
<1>2. /\ req' \in [Requests -> Req] /\ req'[q] = r
      /\ \A o \in Requests \ {q} : req'[o] = req[o]
  BY <1>1, GotoDoes
<1>3. TypeOK'
  BY <1>1, <1>2 DEF TypeOK
<1>4. Serial'
  BY <1>1, <1>2 DEF Serial
<1>5. Dated'
  BY <1>1 DEF Dated, Alive
<1>6. ASSUME setting.limit = TRUE, NEW k \in Keys \ evicted PROVE Counted(k)'
  <2>1. Counted(k)
    BY <1>6 DEF Inv
  <2>2. \A o \in Requests : req'[o].pc = "count" /\ req'[o].key = k =>
              req'[o].count < MaxRequests /\ Burst(admits[k], req'[o].count, now)
    BY <1>2, <2>1 DEF Counted
  <2> QED
    BY <2>1, <2>2, CountedStays
<1> QED
  BY <1>3, <1>4, <1>5, <1>6 DEF Inv

LEMMA RejectKeeps ==
    ASSUME Inv, NEW q \in Requests, NEW k, Reject(q, k)
    PROVE  Inv'
<1> DEFINE r == [Idle EXCEPT !.pc = IF Blocked THEN "503" ELSE "401"]
<1>1. r \in Req /\ r.pc \in {"503", "401"}
  BY DEF Idle, Req
<1>2. Goto(q, r) /\ req[q].pc = "idle" /\ UNCHANGED <<setting, cache, lock, now, admits, evicted>>
  BY DEF Reject
<1> HIDE DEF r
<1> QED
  BY <1>1, <1>2, QuietKeeps

LEMMA AcceptKeeps ==
    ASSUME Inv, NEW q \in Requests, NEW k \in Keys, Accept(q, k)
    PROVE  Inv'
<1> DEFINE r == [Idle EXCEPT !.pc = "limit", !.key = k]
<1>1. r \in Req /\ r.pc = "limit" /\ r.key = k
  BY DEF Idle, Req
<1>2. Goto(q, r) /\ req[q].pc = "idle" /\ UNCHANGED <<setting, cache, lock, now, admits, evicted>>
  BY DEF Accept
<1> HIDE DEF r
<1> QED
  BY <1>1, <1>2, QuietKeeps

LEMMA AnswerKeeps ==
    ASSUME Inv, NEW q \in Requests, Answer(q)
    PROVE  Inv'
<1>1. Idle \in Req /\ Idle.pc = "idle"
  BY DEF Idle, Req
<1>2. Goto(q, Idle) /\ req[q].pc # "count" /\ UNCHANGED <<setting, cache, lock, now, admits, evicted>>
  BY DEF Answer
<1> QED
  BY <1>1, <1>2, QuietKeeps

LEMMA UnlimitedKeeps ==
    ASSUME Inv, NEW q \in Requests, Unlimited(q)
    PROVE  Inv'
<1> DEFINE r == [Idle EXCEPT !.pc = "200"]
<1>1. TypeOK /\ Serial /\ Dated
  BY DEF Inv
<1>2. r \in Req /\ r.pc = "200"
  BY DEF Idle, Req
<1>3. /\ Goto(q, r) /\ req[q].pc = "limit" /\ UNCHANGED <<setting, cache, lock, now, evicted>>
      /\ setting.limit # TRUE /\ admits' = [admits EXCEPT ![req[q].key] = Append(@, now)]
  BY DEF Unlimited, Admit
<1> HIDE DEF r
<1>4. /\ req' \in [Requests -> Req] /\ req'[q] = r
      /\ \A o \in Requests \ {q} : req'[o] = req[o]
  BY <1>1, <1>2, <1>3, GotoDoes
<1>5. TypeOK'
  <2>1. req[q].key \in Keys
    BY <1>1, <1>3 DEF Serial
  <2>2. Append(admits[req[q].key], now) \in Seq(Nat)
    BY <1>1, <2>1, AppendProperties DEF TypeOK
  <2> QED
    BY <1>1, <1>3, <1>4, <2>1, <2>2 DEF TypeOK
<1>6. Serial'
  BY <1>1, <1>2, <1>3, <1>4 DEF Serial
<1>7. Dated'
  BY <1>1, <1>3 DEF Dated, Alive
<1> QED
  BY <1>3, <1>5, <1>6, <1>7 DEF Inv

LEMMA ReadCountKeeps ==
    ASSUME Inv, NEW q \in Requests, ReadCount(q)
    PROVE  Inv'
<1> DEFINE k == req[q].key
           r == [req[q] EXCEPT !.pc = "count", !.count = CacheGet(k)]
<1>1. TypeOK /\ Serial /\ Dated /\ req[q] \in Req
  BY TypesAre DEF Inv
<1>2. /\ req[q].pc = "limit" /\ setting.limit = TRUE /\ lock = NoKey /\ k \in Keys
      /\ UNCHANGED <<setting, cache, now, admits, evicted>>
  BY <1>1 DEF ReadCount, Serial, TypeOK
<1>3. CASE CacheGet(k) >= MaxRequests
  <2> DEFINE s == [req[q] EXCEPT !.pc = "429"]
  <2>1. s \in Req /\ s.pc = "429"
    BY <1>1 DEF Req
  <2>2. Goto(q, s) /\ lock' = lock
    BY <1>3 DEF ReadCount
  <2> HIDE DEF s
  <2> QED
    BY <1>2, <2>1, <2>2, QuietKeeps
<1>4. CASE ~(CacheGet(k) >= MaxRequests)
  <2>1. Goto(q, r) /\ lock' = q
    BY <1>4 DEF ReadCount
  <2>2. CacheGet(k) \in Nat /\ CacheGet(k) < MaxRequests
    BY <1>1, <1>2, <1>4, TypesAre, BoundsAre
  <2>3. r \in Req /\ r.pc = "count" /\ r.key = k /\ r.count = CacheGet(k)
    <3> DEFINE s == [req[q] EXCEPT !.pc = "count"]
    <3>1. s \in Req /\ s.pc = "count" /\ s.key = k
      BY <1>1 DEF Req
    <3>2. r = [s EXCEPT !.count = CacheGet(k)]
      OBVIOUS
    <3> HIDE DEF s, r, k
    <3> QED
      BY <2>2, <3>1, <3>2 DEF Req
  <2> HIDE DEF r
  <2>4. /\ req' \in [Requests -> Req] /\ req'[q] = r
        /\ \A o \in Requests \ {q} : req'[o] = req[o]
    BY <1>1, <2>1, <2>3, GotoDoes
  <2>5. TypeOK'
    BY <1>1, <1>2, <2>1, <2>4 DEF TypeOK
  <2>6. ASSUME NEW o \in Requests \ {q} PROVE req[o].pc # "count"
    BY <1>1, <1>2, RateLimitAssumption DEF Serial
  <2>7. Serial'
    BY <1>1, <1>2, <2>1, <2>3, <2>4, <2>6 DEF Serial
  <2>8. Dated'
    BY <1>1, <1>2 DEF Dated, Alive
  <2>9. ASSUME NEW j \in Keys \ evicted PROVE Counted(j)'
    <3>1. Counted(j)
      BY <1>2 DEF Inv
    <3>2. \A o \in Requests : req'[o].pc = "count" /\ req'[o].key = j =>
                req'[o].count < MaxRequests /\ Burst(admits[j], req'[o].count, now)
      BY <2>2, <2>3, <2>4, <2>6, <3>1 DEF Counted
    <3> QED
      BY <1>2, <3>1, <3>2, CountedStays
  <2> QED
    BY <1>2, <2>5, <2>7, <2>8, <2>9 DEF Inv
<1> QED
  BY <1>3, <1>4

LEMMA WriteCountKeeps ==
    ASSUME Inv, NEW q \in Requests, WriteCount(q)
    PROVE  Inv'
<1>1. TypeOK /\ Serial /\ Dated /\ now \in Nat
  BY DEF Inv, TypeOK
<1>2. PICK k, n : k = req[q].key /\ n = req[q].count
  OBVIOUS
<1>3. /\ req[q].pc = "count" /\ setting.limit = TRUE /\ lock = q /\ k \in Keys /\ n \in Nat
      /\ CacheSet(k, n + 1) /\ lock' = NoKey /\ UNCHANGED <<setting, now>>
      /\ admits' = [admits EXCEPT ![k] = Append(@, now)]
      /\ Goto(q, [Idle EXCEPT !.pc = "200"])
  BY <1>1, <1>2, TypesAre DEF WriteCount, Admit, Serial
<1>4. /\ req' \in [Requests -> Req] /\ req'[q].pc = "200"
      /\ \A o \in Requests \ {q} : req'[o] = req[o]
  <2> DEFINE r == [Idle EXCEPT !.pc = "200"]
  <2>1. r \in Req /\ r.pc = "200"
    BY DEF Idle, Req
  <2>2. Goto(q, r)
    BY <1>3
  <2> HIDE DEF r
  <2> QED
    BY <1>1, <2>1, <2>2, GotoDoes
<1>5. \A o \in Requests : req'[o].pc # "count"
  BY <1>1, <1>3, <1>4 DEF Serial
<1>6. /\ cache' \in [Keys -> [count : Nat, expires : Nat]]
      /\ cache'[k].count = n + 1 /\ cache'[k].expires = now + Ttl
      /\ Others(k) /\ evicted \subseteq evicted'
  <2>1. n + 1 \in Nat
    BY <1>3
  <2> QED
    BY <1>1, <1>3, <2>1, CacheSetDoes
<1> DEFINE a == admits[k]
<1>7. /\ a \in Seq(Nat) /\ Append(a, now) \in Seq(Nat) /\ admits' \in [Keys -> Seq(Nat)]
      /\ admits'[k] = Append(a, now) /\ \A j \in Keys \ {k} : admits'[j] = admits[j]
  <2>1. a \in Seq(Nat) /\ Append(a, now) \in Seq(Nat)
    BY <1>1, <1>3, AppendProperties DEF TypeOK
  <2> QED
    BY <1>1, <1>3, <2>1 DEF TypeOK
<1>8. Len(a) \in Nat /\ Len(Append(a, now)) = Len(a) + 1 /\ Append(a, now)[Len(a) + 1] = now
  BY <1>1, <1>7, AppendProperties, LenProperties
<1>9. TypeOK'
  BY <1>1, <1>3, <1>4, <1>6, <1>7 DEF TypeOK
<1>10. Serial'
  BY <1>1, <1>3, <1>4, <1>5 DEF Serial
<1> HIDE DEF a
<1>11. Dated'
  <2> SUFFICES ASSUME NEW j \in Keys, now < cache'[j].expires
               PROVE  /\ Len(admits'[j]) > 0
                      /\ cache'[j].expires = admits'[j][Len(admits'[j])] + Ttl
    BY <1>3 DEF Dated, Alive
  <2>1. CASE j = k
    BY <1>6, <1>7, <1>8, <2>1
  <2>2. CASE j # k
    <3>1. cache'[j] = cache[j]
      <4>1. NoEntry.expires = 0
        BY DEF NoEntry
      <4>2. cache'[j] # NoEntry
        BY <1>1, <4>1
      <4> QED
        BY <1>6, <2>2, <4>2 DEF Others
    <3>2. Alive(j)
      BY <3>1 DEF Alive
    <3> QED
      BY <1>1, <1>7, <2>2, <3>1, <3>2 DEF Dated
  <2> QED
    BY <2>1, <2>2
<1>12. ASSUME NEW j \in Keys \ evicted' PROVE Counted(j)'
  <2>1. Counted(j) /\ j \in Keys
    BY <1>3, <1>6 DEF Inv
  <2>2. CASE j = k
    <3>1. Sorted(a, now) /\ Spaced(a) /\ n < MaxRequests /\ Burst(a, n, now)
      BY <1>2, <1>3, <2>1, <2>2 DEF Counted, a
    <3>2. /\ Sorted(Append(a, now), now) /\ Spaced(Append(a, now))
          /\ Burst(Append(a, now), n + 1, now)
      BY <1>1, <1>7, <3>1, Admission
    <3>3. CacheGet(k)' = n + 1
      <4>1. now' < cache'[k].expires
        BY <1>1, <1>3, <1>6, BoundsAre
      <4> QED
        BY <1>6, <4>1 DEF CacheGet, Alive
    <3>4. n + 1 <= MaxRequests
      BY <1>3, <3>1, BoundsAre
    <3> QED
      BY <1>3, <1>5, <1>7, <2>2, <3>2, <3>3, <3>4 DEF Counted
  <2>3. CASE j # k
    <3>1. CacheGet(j)' = CacheGet(j)
      <4>1. CASE Alive(j)
        <5>1. cache'[j] = cache[j]
          BY <1>6, <2>1, <2>3, <4>1 DEF Others
        <5> QED
          BY <1>3, <5>1 DEF CacheGet, Alive
      <4>2. CASE ~Alive(j)
        <5>1. NoEntry.expires = 0 /\ cache[j].expires \in Nat
          BY <1>1, <2>1, TypesAre DEF NoEntry
        <5>2. ~(now' < cache'[j].expires)
          BY <1>1, <1>3, <1>6, <2>1, <2>3, <4>2, <5>1 DEF Others, Alive
        <5> QED
          BY <4>2, <5>2 DEF CacheGet, Alive
      <4> QED
        BY <4>1, <4>2
    <3>2. admits'[j] = admits[j] /\ now' = now
      BY <1>3, <1>7, <2>1, <2>3
    <3> QED
      BY <1>5, <2>1, <3>1, <3>2 DEF Counted
  <2> QED
    BY <2>2, <2>3
<1> QED
  BY <1>3, <1>9, <1>10, <1>11, <1>12 DEF Inv

LEMMA TickKeeps ==
    ASSUME Inv, Tick
    PROVE  Inv'
<1>1. TypeOK /\ Serial /\ Dated /\ now \in Nat
  BY DEF Inv, TypeOK
<1>2. now' = now + 1 /\ now' \in Nat /\ now <= now'
      /\ UNCHANGED <<setting, cache, lock, req, admits, evicted>>
  BY <1>1 DEF Tick
<1>3. TypeOK' /\ Serial'
  BY <1>1, <1>2 DEF TypeOK, Serial
<1>4. \A k \in Keys : Alive(k)' => Alive(k)
  BY <1>1, <1>2, TypesAre DEF Alive
<1>5. Dated'
  BY <1>1, <1>2, <1>4 DEF Dated
<1>6. ASSUME setting.limit = TRUE, NEW k \in Keys \ evicted PROVE Counted(k)'
  <2>1. Counted(k) /\ admits[k] \in Seq(Nat) /\ Len(admits[k]) \in Nat /\ CacheGet(k) \in Nat
        /\ cache[k].expires \in Nat
    BY <1>1, <1>6, TypesAre DEF Inv
  <2>2. Sorted(admits[k], now') /\ Burst(admits[k], CacheGet(k), now')
    BY <1>1, <1>2, <2>1, Later DEF Counted
  <2>3. \A q \in Requests : req[q].pc = "count" /\ req[q].key = k =>
           req[q].count < MaxRequests /\ Burst(admits[k], req[q].count, now')
    BY <1>1, <1>2, <2>1, Later DEF Counted
  <2>4. CacheGet(k)' <= MaxRequests /\ Burst(admits[k], CacheGet(k)', now')
    <3>1. CASE Alive(k)' \/ ~Alive(k)
      <4>1. CacheGet(k)' = CacheGet(k)
        BY <1>2, <1>4, <3>1 DEF CacheGet
      <4> QED
        BY <2>1, <2>2, <4>1 DEF Counted
    <3>2. CASE ~Alive(k)' /\ Alive(k)
      <4>1. CacheGet(k)' = 0
        BY <3>2 DEF CacheGet
      <4>2. Len(admits[k]) > 0 /\ cache[k].expires = admits[k][Len(admits[k])] + Ttl
        BY <1>1, <3>2 DEF Dated
      <4>3. cache[k].expires <= now'
        BY <1>2, <2>1, <3>2 DEF Alive
      <4>4. 0 \in 0 .. Len(admits[k]) /\ Len(admits[k]) - 0 = Len(admits[k])
        BY <2>1
      <4>5. Burst(admits[k], 0, now')
        BY <4>2, <4>3, <4>4 DEF Burst
      <4> QED
        BY <4>1, <4>5, BoundsAre
    <3> QED
      BY <3>1, <3>2
  <2> QED
    BY <1>2, <2>1, <2>2, <2>3, <2>4 DEF Counted
<1> QED
  BY <1>2, <1>3, <1>5, <1>6 DEF Inv

LEMMA NobodyMoves ==
    ASSUME Inv, UNCHANGED <<setting, cache, lock, req, now, admits, evicted>>
    PROVE  Inv'
<1>1. TypeOK' /\ Serial' /\ Dated'
  BY DEF Inv, TypeOK, Serial, Dated, Alive
<1>2. ASSUME setting.limit = TRUE, NEW k \in Keys \ evicted PROVE Counted(k)'
  BY <1>2 DEF Inv, Counted, CacheGet, Alive
<1> QED
  BY <1>1, <1>2 DEF Inv

LEMMA InitHolds == Init => Inv
<1> SUFFICES ASSUME Init PROVE Inv
  OBVIOUS
<1>1. NoEntry \in [count : Nat, expires : Nat] /\ NoEntry.expires = 0 /\ Idle \in Req
      /\ Idle.pc = "idle"
  BY DEF NoEntry, Idle, Req
<1>2. \A k \in Keys : cache[k] = NoEntry /\ admits[k] = <<>> /\ ~Alive(k)
  BY <1>1 DEF Init, Alive
<1>3. \A q \in Requests : req[q].pc = "idle"
  BY <1>1 DEF Init
<1>4. TypeOK
  BY <1>1 DEF Init, TypeOK
<1>5. Serial
  BY <1>3 DEF Serial
<1>6. Dated
  BY <1>2 DEF Dated
<1>7. ASSUME NEW k \in Keys PROVE Counted(k)
  <2>1. Len(admits[k]) = 0 /\ CacheGet(k) = 0
    BY <1>2 DEF CacheGet
  <2> QED
    BY <1>3, <2>1, BoundsAre DEF Counted, Sorted, Spaced, Burst
<1> QED
  BY <1>4, <1>5, <1>6, <1>7 DEF Inv

LEMMA NextKeeps == Inv /\ [Next]_vars => Inv'
<1> SUFFICES ASSUME Inv, [Next]_vars PROVE Inv'
  OBVIOUS
<1>1. CASE UNCHANGED vars
  BY <1>1, NobodyMoves DEF vars
<1>2. ASSUME NEW q \in Requests, NEW k, Reject(q, k) PROVE Inv'
  BY <1>2, RejectKeeps
<1>3. ASSUME NEW q \in Requests, NEW k \in Keys, Accept(q, k) PROVE Inv'
  BY <1>3, AcceptKeeps
<1>4. ASSUME NEW q \in Requests, Unlimited(q) \/ ReadCount(q) \/ WriteCount(q) \/ Answer(q)
      PROVE  Inv'
  BY <1>4, UnlimitedKeeps, ReadCountKeeps, WriteCountKeeps, AnswerKeeps
<1>5. CASE ResetWarnings
  BY <1>5, NobodyMoves DEF ResetWarnings
<1>6. CASE Tick
  BY <1>6, TickKeeps
<1> QED
  BY <1>1, <1>2, <1>3, <1>4, <1>5, <1>6 DEF Next

(* The counter of a key and the lock of _check_rate_limit: while a request *)
(* is between its read and its write nobody else is, and the counter       *)
(* covers every admission of the last Ttl.                                 *)
THEOREM RateLimitInvariant == Spec => []Inv
<1> QED
  BY InitHolds, NextKeeps, PTL DEF Spec

(* For any limit, Ttl, cache size and any number of concurrent requests:   *)
(* no key whose counter was not thrown out is admitted more than           *)
(* maxRequestsPerMinute times within a Ttl.                                *)
THEOREM WindowsAreKept == Spec => []WindowKept
<1>1. Inv => WindowKept
  <2> SUFFICES ASSUME Inv, setting.limit, NEW k \in Keys \ evicted, NEW t \in 0 .. MaxTime
               PROVE  Cardinality({i \in DOMAIN admits[k] :
                          admits[k][i] \in t .. t + Ttl - 1}) <= MaxRequests
    BY DEF WindowKept
  <2>1. TypeOK /\ setting.limit = TRUE
    BY DEF Inv, TypeOK
  <2>2. Counted(k) /\ admits[k] \in Seq(Nat) /\ now \in Nat /\ t \in Nat
    BY <2>1, TypesAre, RateLimitAssumption DEF Inv, TypeOK
  <2> QED
    BY <2>2, FewInWindow DEF Counted
<1> QED
  BY <1>1, RateLimitInvariant, PTL

-----------------------------------------------------------------------------
(* What the counter counts.  The last n admissions a, decided at times d,  *)
(* follow one another in less than a Ttl.                                  *)
Chain(a, d, n) ==
    /\ n <= Len(a)
    /\ \A i \in 1 .. Len(a) - 1 : i > Len(a) - n => d[i + 1] < a[i] + Ttl

(* A request between its read and its write has been decided and is not    *)
(* admitted yet.                                                           *)
Undecided(k) == \A q \in Requests : req[q].pc = "count" => req[q].key # k

ChainInv(k) ==
    /\ Undecided(k) => Len(decided[k]) = Len(admits[k])
    /\ Alive(k) => Chain(admits[k], decided[k], cache[k].count)
    /\ \A q \in Requests : req[q].pc = "count" /\ req[q].key = k =>
          LET a == admits[k]
              d == decided[k]
          IN  /\ Len(d) = Len(a) + 1
              /\ Chain(a, d, req[q].count)
              /\ req[q].count > 0 => d[Len(a) + 1] < a[Len(a)] + Ttl

Chained ==
    /\ decided \in [Keys -> Seq(Nat)]
    /\ setting.limit = TRUE => \A k \in Keys : ChainInv(k)

(* A decision is made: the chain is not touched by it.                     *)
LEMMA ChainDecided ==
    ASSUME NEW a \in Seq(Nat), NEW d \in Seq(Nat), NEW t \in Nat, NEW n \in Nat,
           Len(d) = Len(a), Chain(a, d, n)
    PROVE  /\ Append(d, t) \in Seq(Nat) /\ Len(Append(d, t)) = Len(a) + 1
           /\ Append(d, t)[Len(a) + 1] = t /\ Chain(a, Append(d, t), n)
<1>1. Len(a) \in Nat
  BY LenProperties
<1>2. /\ Append(d, t) \in Seq(Nat) /\ Len(Append(d, t)) = Len(a) + 1 /\ Append(d, t)[Len(a) + 1] = t
      /\ \A i \in 1 .. Len(a) : Append(d, t)[i] = d[i]
  BY AppendProperties
<1>3. ASSUME NEW i \in 1 .. Len(a) - 1, i > Len(a) - n PROVE Append(d, t)[i + 1] < a[i] + Ttl
  <2>1. i + 1 \in 1 .. Len(a)
    BY <1>1
  <2> QED
    BY <1>2, <1>3, <2>1 DEF Chain
<1> QED
  BY <1>2, <1>3 DEF Chain

(* A decided request is admitted: the chain is one longer.                 *)
LEMMA ChainAdmitted ==
    ASSUME NEW a \in Seq(Nat), NEW d \in Seq(Nat), NEW t \in Nat, NEW n \in Nat,
           Chain(a, d, n), n > 0 => d[Len(a) + 1] < a[Len(a)] + Ttl
    PROVE  Chain(Append(a, t), d, n + 1)
<1> DEFINE b == Append(a, t)
           L == Len(a)
<1>1. L \in Nat /\ Len(b) = L + 1 /\ \A i \in 1 .. L : b[i] = a[i]
  BY AppendProperties, LenProperties
<1>2. n <= L /\ \A i \in 1 .. L - 1 : i > L - n => d[i + 1] < a[i] + Ttl
  BY DEF Chain
<1>3. n > 0 => d[L + 1] < a[L] + Ttl
  OBVIOUS
<1> HIDE DEF b, L
<1>4. ASSUME NEW i \in 1 .. L, i > (L + 1) - (n + 1) PROVE d[i + 1] < b[i] + Ttl
  <2>1. i > L - n /\ b[i] = a[i]
    BY <1>1, <1>4
  <2>2. CASE i = L
    <3>1. n > 0
      BY <1>1, <2>1, <2>2
    <3> QED
      BY <1>3, <2>1, <2>2, <3>1
  <2>3. CASE i # L
    <3>1. i \in 1 .. L - 1
      BY <1>1, <2>3
    <3> QED
      BY <1>2, <2>1, <3>1
  <2> QED
    BY <2>2, <2>3
<1>5. n + 1 <= Len(b) /\ Len(b) - 1 = L
  BY <1>1, <1>2
<1> QED
  BY <1>1, <1>4, <1>5 DEF Chain, b

(* Steps that neither decide nor admit, of requests that hold no counter.  *)
LEMMA ChainQuiet ==
    ASSUME Inv, Chained, UNCHANGED <<setting, cache, decided, admits>>, now' \in Nat, now <= now',
           \A o \in Requests : /\ req[o].pc = "count" => req'[o] = req[o]
                               /\ req[o].pc # "count" => req'[o].pc # "count"
    PROVE  Chained'
<1>1. ASSUME setting.limit = TRUE, NEW k \in Keys PROVE ChainInv(k)'
  <2>1. ChainInv(k)
    BY <1>1 DEF Chained
  <2>2. Alive(k)' => Alive(k)
    <3>1. cache[k].expires \in Nat /\ now \in Nat
      BY TypesAre DEF Inv, TypeOK
    <3> QED
      BY <3>1 DEF Alive
  <2>3. Undecided(k)' => Undecided(k)
    BY DEF Undecided
  <2>4. \A q \in Requests : req'[q].pc = "count" => req'[q] = req[q]
    OBVIOUS
  <2> QED
    BY <2>1, <2>2, <2>3, <2>4 DEF ChainInv
<1> QED
  BY <1>1 DEF Chained

(* A request that goes anywhere but to the counter, from anywhere else.    *)
LEMMA ChainGoes ==
    ASSUME Inv, Chained, NEW q \in Requests, NEW r, Goto(q, r), r.pc # "count", req[q].pc # "count",
           UNCHANGED <<setting, cache, now, decided, admits>>
    PROVE  Chained'
<1>1. now' \in Nat /\ now <= now'
  BY DEF Inv, TypeOK
<1>2. \A o \in Requests : /\ req[o].pc = "count" => req'[o] = req[o]
                          /\ req[o].pc # "count" => req'[o].pc # "count"
  BY DEF Goto, Inv, TypeOK
<1> QED
  BY <1>1, <1>2, ChainQuiet

LEMMA ChainRead ==
    ASSUME Inv, Chained, NEW q \in Requests, ReadCount(q)
    PROVE  Chained'
<1>1. PICK k : k = req[q].key
  OBVIOUS
<1>2. /\ TypeOK /\ Serial /\ Dated /\ req[q] \in Req /\ now \in Nat
      /\ req[q].pc = "limit" /\ setting.limit = TRUE /\ lock = NoKey /\ k \in Keys
      /\ UNCHANGED <<setting, cache, now, admits>>
  BY <1>1, TypesAre DEF ReadCount, Serial, TypeOK, Inv
<1>3. CASE CacheGet(k) >= MaxRequests
  <2> DEFINE s == [req[q] EXCEPT !.pc = "429"]
  <2>1. s.pc = "429"
    BY <1>2 DEF Req
  <2>2. Goto(q, s) /\ decided' = decided
    BY <1>1, <1>3 DEF ReadCount
  <2> HIDE DEF s
  <2> QED
    BY <1>2, <2>1, <2>2, ChainGoes
<1>4. CASE ~(CacheGet(k) >= MaxRequests)
  <2> DEFINE a == admits[k]
             d == decided[k]
  <2>1. /\ Goto(q, [req[q] EXCEPT !.pc = "count", !.count = CacheGet(k)])
        /\ decided' = [decided EXCEPT ![k] = Append(@, now)]
    BY <1>1, <1>4 DEF ReadCount, Decide
  <2>2. req'[q].pc = "count" /\ req'[q].key = k /\ req'[q].count = CacheGet(k)
    BY <1>1, <1>2, <2>1 DEF Goto, TypeOK, Req
  <2>3. ASSUME NEW o \in Requests \ {q} PROVE req'[o] = req[o] /\ req[o].pc # "count"
    BY <1>2, <2>1, RateLimitAssumption DEF Goto, TypeOK, Serial
  <2>4. Undecided(k) /\ ChainInv(k) /\ CacheGet(k) \in Nat /\ a \in Seq(Nat) /\ d \in Seq(Nat)
    BY <1>2, <2>3, TypesAre DEF Undecided, Chained
  <2>5. Chain(a, d, CacheGet(k))
    <3>1. CASE Alive(k)
      BY <2>4, <3>1 DEF ChainInv, CacheGet
    <3>2. CASE ~Alive(k)
      <4>1. CacheGet(k) = 0 /\ Len(a) \in Nat
        BY <2>4, <3>2, LenProperties DEF CacheGet
      <4> QED
        BY <4>1 DEF Chain
    <3> QED
      BY <3>1, <3>2
  <2>6. CacheGet(k) > 0 => now < a[Len(a)] + Ttl
    BY <1>2 DEF CacheGet, Dated, Alive
  <2>7. Len(d) = Len(a)
    BY <2>4 DEF ChainInv
  <2>8. /\ Append(d, now) \in Seq(Nat) /\ Len(Append(d, now)) = Len(a) + 1
        /\ Append(d, now)[Len(a) + 1] = now /\ Chain(a, Append(d, now), CacheGet(k))
    BY <1>2, <2>4, <2>5, <2>7, ChainDecided
  <2>9. /\ decided' \in [Keys -> Seq(Nat)] /\ decided'[k] = Append(d, now)
        /\ \A j \in Keys \ {k} : decided'[j] = decided[j]
    BY <1>2, <2>1, <2>8 DEF Chained
  <2>10. Alive(k) => cache[k].count = CacheGet(k)
    BY DEF CacheGet
  <2>11. ASSUME NEW j \in Keys PROVE ChainInv(j)'
    <3>1. CASE j = k
      <4>1. ~Undecided(k)'
        BY <2>2 DEF Undecided
      <4>2. Alive(k)' => Chain(admits'[k], decided'[k], cache'[k].count)
        BY <1>2, <2>8, <2>9, <2>10 DEF Alive
      <4>3. ASSUME NEW o \in Requests, req'[o].pc = "count" PROVE o = q
        BY <2>3, <4>3
      <4> HIDE DEF a, d
      <4>4. /\ Len(decided'[k]) = Len(admits'[k]) + 1
            /\ Chain(admits'[k], decided'[k], req'[q].count)
            /\ req'[q].count > 0 => decided'[k][Len(admits'[k]) + 1] < admits'[k][Len(admits'[k])] + Ttl
        BY <1>2, <2>2, <2>6, <2>8, <2>9 DEF a
      <4> QED
        BY <3>1, <4>1, <4>2, <4>3, <4>4 DEF ChainInv
    <3>2. CASE j # k
      <4>1. decided'[j] = decided[j] /\ admits'[j] = admits[j] /\ cache'[j] = cache[j]
            /\ (Alive(j)' <=> Alive(j)) /\ ChainInv(j)
        BY <1>2, <2>9, <3>2 DEF Alive, Chained
      <4>2. \A o \in Requests : req'[o].pc = "count" => req'[o].key # j
        BY <2>2, <2>3, <3>2
      <4>3. Undecided(j)
        BY <1>2, <2>3 DEF Undecided
      <4> QED
        BY <4>1, <4>2, <4>3 DEF ChainInv
    <3> QED
      BY <3>1, <3>2
  <2> QED
    BY <2>9, <2>11 DEF Chained
<1> QED
  BY <1>3, <1>4

LEMMA ChainWrite ==
    ASSUME Inv, Chained, NEW q \in Requests, WriteCount(q)
    PROVE  Chained'
<1>1. PICK k, n : k = req[q].key /\ n = req[q].count
  OBVIOUS
<1>2. /\ TypeOK /\ Serial /\ now \in Nat /\ req[q].pc = "count" /\ setting.limit = TRUE /\ lock = q
      /\ k \in Keys /\ n \in Nat
      /\ CacheSet(k, n + 1) /\ UNCHANGED <<setting, now, decided>>
      /\ admits' = [admits EXCEPT ![k] = Append(@, now)]
      /\ Goto(q, [Idle EXCEPT !.pc = "200"])
  BY <1>1, TypesAre DEF WriteCount, Admit, Serial, Inv, TypeOK
<1>3. ASSUME NEW o \in Requests PROVE req'[o].pc # "count" /\ (o # q => req[o].pc # "count")
  BY <1>2 DEF Goto, TypeOK, Serial, Idle
<1>4. /\ cache' \in [Keys -> [count : Nat, expires : Nat]]
      /\ cache'[k].count = n + 1 /\ Others(k)
  <2>1. n + 1 \in Nat
    BY <1>2
  <2> QED
    BY <1>2, <2>1, CacheSetDoes
<1> DEFINE a == admits[k]
           d == decided[k]
<1>5. /\ a \in Seq(Nat) /\ d \in Seq(Nat) /\ admits'[k] = Append(a, now)
      /\ \A j \in Keys \ {k} : admits'[j] = admits[j]
  BY <1>2, TypesAre DEF TypeOK, Chained
<1>6. /\ Len(d) = Len(a) + 1 /\ Chain(a, d, n)
      /\ n > 0 => d[Len(a) + 1] < a[Len(a)] + Ttl
  <2>1. ChainInv(k)
    BY <1>2 DEF Chained
  <2> QED
    BY <1>1, <1>2, <2>1 DEF ChainInv
<1>7. Chain(Append(a, now), d, n + 1) /\ Len(Append(a, now)) = Len(d)
  BY <1>2, <1>5, <1>6, ChainAdmitted, AppendProperties
<1> HIDE DEF a
<1>8. ASSUME NEW j \in Keys PROVE ChainInv(j)'
  <2>1. CASE j = k
    BY <1>2, <1>3, <1>4, <1>5, <1>7, <2>1 DEF ChainInv
  <2>2. CASE j # k
    <3>1. decided'[j] = decided[j] /\ admits'[j] = admits[j] /\ now' = now /\ ChainInv(j)
      BY <1>2, <1>5, <2>2 DEF Chained
    <3>2. Undecided(j)
      BY <1>1, <1>3, <2>2 DEF Undecided
    <3>3. ASSUME Alive(j)' PROVE cache'[j] = cache[j] /\ Alive(j)
      <4>1. NoEntry.expires = 0
        BY DEF NoEntry
      <4>2. cache'[j] # NoEntry
        BY <1>2, <3>1, <3>3, <4>1 DEF Alive
      <4>3. cache'[j] = cache[j]
        BY <1>4, <2>2, <4>2 DEF Others
      <4> QED
        BY <3>1, <3>3, <4>3 DEF Alive
    <3> QED
      BY <1>3, <3>1, <3>2, <3>3 DEF ChainInv
  <2> QED
    BY <2>1, <2>2
<1> QED
  BY <1>2, <1>8 DEF Chained

LEMMA ChainInit == Init => Chained
<1> SUFFICES ASSUME Init PROVE Chained
  OBVIOUS
<1>1. /\ NoEntry.expires = 0 /\ Idle.pc = "idle" /\ decided \in [Keys -> Seq(Nat)]
      /\ now = 0 /\ \A q \in Requests : req[q].pc = "idle"
  BY DEF Init, NoEntry, Idle
<1>2. ASSUME NEW k \in Keys PROVE ~Alive(k) /\ Len(decided[k]) = Len(admits[k])
  BY <1>1 DEF Init, Alive
<1> QED
  BY <1>1, <1>2 DEF Chained, ChainInv

LEMMA ChainNext == Inv /\ Chained /\ [Next]_vars => Chained'
<1> SUFFICES ASSUME Inv, Chained, [Next]_vars PROVE Chained'
  OBVIOUS
<1>1. Idle.pc = "idle" /\ [Idle EXCEPT !.pc = "200"].pc = "200" /\ now \in Nat
  BY DEF Idle, Inv, TypeOK
<1>2. ASSUME NEW q \in Requests, NEW k, Reject(q, k) PROVE Chained'
  <2> DEFINE r == [Idle EXCEPT !.pc = IF Blocked THEN "503" ELSE "401"]
  <2>1. r.pc # "count"
    BY DEF Idle
  <2>2. Goto(q, r) /\ req[q].pc # "count" /\ UNCHANGED <<setting, cache, now, decided, admits>>
    BY <1>2 DEF Reject
  <2> HIDE DEF r
  <2> QED
    BY <2>1, <2>2, ChainGoes
<1>3. ASSUME NEW q \in Requests, NEW k \in Keys, Accept(q, k) PROVE Chained'
  <2> DEFINE r == [Idle EXCEPT !.pc = "limit", !.key = k]
  <2>1. r.pc # "count"
    BY DEF Idle
  <2>2. Goto(q, r) /\ req[q].pc # "count" /\ UNCHANGED <<setting, cache, now, decided, admits>>
    BY <1>3 DEF Accept
  <2> HIDE DEF r
  <2> QED
    BY <2>1, <2>2, ChainGoes
<1>4. ASSUME NEW q \in Requests, Answer(q) PROVE Chained'
  <2>1. Goto(q, Idle) /\ req[q].pc # "count" /\ UNCHANGED <<setting, cache, now, decided, admits>>
    BY <1>4 DEF Answer
  <2> QED
    BY <1>1, <2>1, ChainGoes
<1>5. ASSUME NEW q \in Requests, Unlimited(q) PROVE Chained'
  BY <1>5 DEF Unlimited, Chained
<1>6. CASE ResetWarnings \/ UNCHANGED vars
  <2>1. UNCHANGED <<setting, cache, req, now, decided, admits>>
    BY <1>6 DEF ResetWarnings, vars
  <2> QED
    BY <1>1, <2>1, ChainQuiet
<1>7. CASE Tick
  <2>1. UNCHANGED <<setting, cache, req, decided, admits>> /\ now' \in Nat /\ now <= now'
    BY <1>1, <1>7 DEF Tick
  <2> QED
    BY <2>1, ChainQuiet
<1> QED
  BY <1>2, <1>3, <1>4, <1>5, <1>6, <1>7, ChainRead, ChainWrite DEF Next

(* A request is refused with 429 only when the last maxRequestsPerMinute   *)
(* admissions of its key were each decided less than a Ttl after the one   *)
(* before, and the last of them is less than a Ttl old.                    *)
THEOREM RefusalsDoEnd == Spec => RefusalsEnd
<1> DEFINE Step == \A q \in Requests : req[q].pc = "limit" /\ req'[q].pc = "429" =>
            LET a == admits[req[q].key]
                d == decided[req[q].key]
            IN  /\ MaxRequests <= Len(a) /\ now < a[Len(a)] + Ttl
                /\ \A i \in Len(a) - MaxRequests + 1 .. Len(a) - 1 : d[i + 1] < a[i] + Ttl
<1>1. Inv /\ Chained /\ [Next]_vars => [Step]_vars
  <2> SUFFICES ASSUME Inv, Chained, Next, NEW q \in Requests, req[q].pc = "limit", req'[q].pc = "429",
                      NEW a, NEW d, a = admits[req[q].key], d = decided[req[q].key]
               PROVE  /\ MaxRequests <= Len(a) /\ now < a[Len(a)] + Ttl
                      /\ \A i \in Len(a) - MaxRequests + 1 .. Len(a) - 1 : d[i + 1] < a[i] + Ttl
    OBVIOUS
  <2>1. TypeOK /\ Serial /\ Dated
    BY DEF Inv
  <2>2. ASSUME NEW o \in Requests, NEW r, Goto(o, r), r.pc # "429" PROVE FALSE
    BY <2>1, <2>2 DEF Goto, TypeOK
  <2>3. Idle.pc = "idle" /\ [Idle EXCEPT !.pc = "200"].pc = "200"
    BY DEF Idle
  <2>4. ASSUME NEW o \in Requests, Unlimited(o) \/ WriteCount(o) \/ Answer(o) PROVE FALSE
    BY <2>2, <2>3, <2>4 DEF Unlimited, WriteCount, Answer
  <2>5. ASSUME NEW o \in Requests, NEW k, Reject(o, k) PROVE FALSE
    <3> DEFINE r == [Idle EXCEPT !.pc = IF Blocked THEN "503" ELSE "401"]
    <3>1. r.pc # "429" /\ Goto(o, r)
      BY <2>5 DEF Idle, Reject
    <3> HIDE DEF r
    <3> QED
      BY <2>2, <3>1
  <2>6. ASSUME NEW o \in Requests, NEW k, Accept(o, k) PROVE FALSE
    <3> DEFINE r == [Idle EXCEPT !.pc = "limit", !.key = k]
    <3>1. r.pc # "429" /\ Goto(o, r)
      BY <2>6 DEF Idle, Accept
    <3> HIDE DEF r
    <3> QED
      BY <2>2, <3>1
  <2>7. req' # req
    OBVIOUS
  <2>8. PICK o \in Requests : ReadCount(o)
    BY <2>4, <2>5, <2>6, <2>7 DEF Next, ResetWarnings, Tick
  <2>9. o = q
    <3>1. PICK r : Goto(o, r)
      BY <2>8 DEF ReadCount
    <3> QED
      BY <2>1, <3>1 DEF Goto, TypeOK
  <2>10. CacheGet(req[q].key) >= MaxRequests
    <3> SUFFICES ASSUME ~(CacheGet(req[q].key) >= MaxRequests) PROVE FALSE
      OBVIOUS
    <3> DEFINE s == [req[q] EXCEPT !.pc = "count"]
               r == [req[q] EXCEPT !.pc = "count", !.count = CacheGet(req[q].key)]
    <3>1. Goto(q, r)
      BY <2>8, <2>9 DEF ReadCount
    <3>2. s \in Req /\ s.pc = "count"
      BY <2>1, TypesAre DEF Req
    <3>3. r = [s EXCEPT !.count = CacheGet(req[q].key)]
      OBVIOUS
    <3> HIDE DEF s, r
    <3>4. r.pc = "count"
      BY <3>2, <3>3 DEF Req
    <3> QED
      BY <2>2, <3>1, <3>4
  <2>11. req[q].key \in Keys
    BY <2>1 DEF Serial
  <2>12. Alive(req[q].key)
    BY <2>10, BoundsAre DEF CacheGet
  <2> HIDE DEF Step
  <2>13. now < a[Len(a)] + Ttl /\ Len(a) \in Nat
    BY <2>1, <2>11, <2>12, TypesAre DEF Dated, Alive
  <2>14. setting.limit = TRUE /\ cache[req[q].key].count = CacheGet(req[q].key)
         /\ CacheGet(req[q].key) \in Nat
    BY <2>1, <2>11, <2>12, TypesAre DEF Dated, CacheGet
  <2>15. PICK n \in Nat : n >= MaxRequests /\ Chain(a, d, n)
    BY <2>10, <2>11, <2>12, <2>14 DEF Chained, ChainInv
  <2>16. MaxRequests <= Len(a)
    BY <2>13, <2>15, BoundsAre DEF Chain
  <2>17. ASSUME NEW i \in Len(a) - MaxRequests + 1 .. Len(a) - 1 PROVE d[i + 1] < a[i] + Ttl
    <3>1. i \in 1 .. Len(a) - 1 /\ i > Len(a) - n
      BY <2>13, <2>15, <2>16, BoundsAre
    <3> QED
      BY <2>15, <3>1 DEF Chain
  <2> QED
    BY <2>13, <2>16, <2>17
<1> QED
  BY <1>1, RateLimitInvariant, ChainInit, ChainNext, PTL DEF Spec, RefusalsEnd
=============================================================================
