----------------------------- MODULE RateLimit ------------------------------
(***************************************************************************)
(* network/http/sse/security.py: what require_sse_api_key does with a      *)
(* request before its endpoint runs, and the per-key counters it keeps in  *)
(* a Cache (common/cache.py).  Requests are handled by concurrent threads; *)
(* the check of a counter and its update are two calls of the cache.       *)
(***************************************************************************)
EXTENDS Naturals, Sequences, FiniteSets

CONSTANTS
    Requests,       \* threads that handle requests
    Keys,           \* API keys clients present
    NoKey,          \* a request without one, or with one in the query string
    ValidKeys,      \* sse.authentication.validKeys
    MaxRequests,    \* sse.rateLimit.maxRequestsPerMinute
    Ttl,            \* the cache's time to live
    MaxSize,        \* the cache's maxsize
    MaxTime,        \* bound: the last instant
    MaxAdmits       \* bound: admissions of one key

ASSUME RateLimitAssumption ==
    /\ NoKey \notin Keys \cup Requests /\ ValidKeys \subseteq Keys
    /\ {MaxRequests, Ttl, MaxSize} \subseteq Nat \ {0}
    /\ {MaxTime, MaxAdmits} \subseteq Nat

VARIABLES
    setting,    \* the configuration: auth, the escape variable, the limit
    cache,      \* the counters, expired ones included
    order,      \* the cache's links: its keys, the least recently used first
    lock,       \* the request that holds _rate_limit_lock, or NoKey
    req,        \* each request
    warned,     \* the one-shot warnings that were logged
    now,        \* the cache's timer
    decided,    \* history: when the counter let each of a key's requests through
    admits,     \* history: when each key's requests were admitted
    evicted     \* history: keys whose counter was thrown out for another

vars == <<setting, cache, order, lock, req, warned, now, decided, admits, evicted>>

NoEntry == [count |-> 0, expires |-> 0]

Idle == [pc |-> "idle", key |-> NoKey, count |-> 0]

Init ==
    /\ setting \in [auth : BOOLEAN, escape : BOOLEAN, limit : BOOLEAN]
    /\ cache = [k \in Keys |-> NoEntry]
    /\ order = <<>>
    /\ lock = NoKey
    /\ req = [q \in Requests |-> Idle]
    /\ warned = {}
    /\ now = 0
    /\ decided = [k \in Keys |-> <<>>]
    /\ admits = [k \in Keys |-> <<>>]
    /\ evicted = {}

-----------------------------------------------------------------------------
(* cachetools.TTLCache.  An entry is there until its time has come.        *)
Alive(k) == now < cache[k].expires

(* Cache.get, "or 0".                                                      *)
CacheGet(k) == IF Alive(k) THEN cache[k].count ELSE 0

(* Reading an entry makes it the most recently used one.                   *)
Touch(k) ==
    order' = IF \E i \in DOMAIN order : order[i] = k
             THEN Append(SelectSeq(order, LAMBDA j : j # k), k)
             ELSE order

(* Cache.set: expired entries go first; a new key of a full cache throws   *)
(* out the least recently used one; the key's time starts again.           *)
CacheSet(k, n) ==
    LET live   == SelectSeq(order, LAMBDA j : Alive(j))
        full   == Len(live) >= MaxSize /\ ~Alive(k)
        victim == IF full THEN {Head(live)} ELSE {}
    IN  /\ order' = Append(SelectSeq(live, LAMBDA j : j # k /\ j \notin victim), k)
        /\ evicted' = evicted \cup victim
        /\ cache' = [j \in Keys |->
                        IF j = k THEN [count |-> n, expires |-> now + Ttl]
                        ELSE IF Alive(j) /\ j \notin victim THEN cache[j]
                        ELSE NoEntry]

-----------------------------------------------------------------------------
Goto(q, r) == req' = [req EXCEPT ![q] = r]

(* The wrapper up to the rate limit: 503 with authentication off and no    *)
(* escape, 401 for a missing or unknown key.  Any key will do with the     *)
(* escape, and that is logged before.                                      *)
Blocked == ~setting.auth /\ ~setting.escape

(* _warn_auth_off_blocked_once and _warn_auth_disabled_once: each is       *)
(* logged at most once, under its lock.                                    *)
WarnBlocked == warned' = warned \cup {"blocked"}

WarnDisabled == warned' = warned \cup {"disabled"}

validate_api_key(k) == k # NoKey /\ (setting.auth => k \in ValidKeys)

Reject(q, k) ==
    /\ req[q].pc = "idle"
    /\ Blocked \/ ~validate_api_key(k)
    /\ Goto(q, [Idle EXCEPT !.pc = IF Blocked THEN "503" ELSE "401"])
    /\ IF Blocked THEN WarnBlocked ELSE UNCHANGED warned
    /\ UNCHANGED <<setting, cache, order, lock, now, decided, admits, evicted>>

Accept(q, k) ==
    /\ req[q].pc = "idle"
    /\ ~Blocked
    /\ validate_api_key(k)
    /\ Len(admits[k]) < MaxAdmits
    /\ Goto(q, [Idle EXCEPT !.pc = "limit", !.key = k])
    /\ IF setting.auth THEN UNCHANGED warned ELSE WarnDisabled
    /\ UNCHANGED <<setting, cache, order, lock, now, decided, admits, evicted>>

(* Admitted: the endpoint runs, and the thread takes another request.      *)
Admit(q) == admits' = [admits EXCEPT ![req[q].key] = Append(@, now)]

Unlimited(q) ==
    /\ req[q].pc = "limit"
    /\ ~setting.limit
    /\ Goto(q, [Idle EXCEPT !.pc = "200"])
    /\ Admit(q)
    /\ UNCHANGED <<setting, cache, order, lock, warned, now, decided, evicted>>

(* The counter lets the request through.                                   *)
Decide(q) == decided' = [decided EXCEPT ![req[q].key] = Append(@, now)]

(* Mutant: the counter is read without the lock.                           *)
ReadCount_NoLock(q) ==
    /\ req[q].pc = "limit"
    /\ setting.limit
    /\ lock' = lock
    /\ Touch(req[q].key)
    /\ IF CacheGet(req[q].key) >= MaxRequests
       THEN Goto(q, [req[q] EXCEPT !.pc = "429"]) /\ UNCHANGED decided
       ELSE Goto(q, [req[q] EXCEPT !.pc = "count", !.count = CacheGet(req[q].key)]) /\ Decide(q)
    /\ UNCHANGED <<setting, cache, warned, now, admits, evicted>>

(* _check_rate_limit, under its lock: the counter is read ...              *)
ReadCount(q) ==
    /\ req[q].pc = "limit"
    /\ setting.limit
    /\ lock = NoKey
    /\ Touch(req[q].key)
    /\ \/ /\ CacheGet(req[q].key) >= MaxRequests
          /\ Goto(q, [req[q] EXCEPT !.pc = "429"])
          /\ UNCHANGED <<lock, decided>>
       \/ /\ ~(CacheGet(req[q].key) >= MaxRequests)
          /\ Goto(q, [req[q] EXCEPT !.pc = "count", !.count = CacheGet(req[q].key)])
          /\ lock' = q
          /\ Decide(q)
    /\ UNCHANGED <<setting, cache, warned, now, admits, evicted>>

(* ... and written back.                                                   *)
WriteCount(q) ==
    /\ req[q].pc = "count"
    /\ CacheSet(req[q].key, req[q].count + 1)
    /\ Admit(q)
    /\ lock' = NoKey
    /\ Goto(q, [Idle EXCEPT !.pc = "200"])
    /\ UNCHANGED <<setting, warned, now, decided>>

(* Mutant: a refused request renews the counter's time to live.            *)
Answer_Renews(q) ==
    /\ req[q].pc \in {"200", "401", "429", "503"}
    /\ IF req[q].pc = "429"
       THEN CacheSet(req[q].key, MaxRequests)
       ELSE UNCHANGED <<cache, order, evicted>>
    /\ Goto(q, Idle)
    /\ UNCHANGED <<setting, lock, warned, now, decided, admits>>

Answer(q) ==
    /\ req[q].pc \in {"200", "401", "429", "503"}
    /\ Goto(q, Idle)
    /\ UNCHANGED <<setting, cache, order, lock, warned, now, decided, admits, evicted>>

(* reset_auth_disabled_warning.                                            *)
ResetWarnings ==
    /\ warned # {}
    /\ warned' = {}
    /\ UNCHANGED <<setting, cache, order, lock, req, now, decided, admits, evicted>>

Tick ==
    /\ now < MaxTime
    /\ now' = now + 1
    /\ UNCHANGED <<setting, cache, order, lock, req, warned, decided, admits, evicted>>

Next ==
    \/ \E q \in Requests, k \in Keys \cup {NoKey} : Reject(q, k)
    \/ \E q \in Requests, k \in Keys : Accept(q, k)
    \/ \E q \in Requests : Unlimited(q) \/ ReadCount(q) \/ WriteCount(q) \/ Answer(q)
    \/ ResetWarnings
    \/ Tick

Spec == Init /\ [][Next]_vars

-----------------------------------------------------------------------------
(* No key is admitted more than MaxRequests times within any Ttl, however  *)
(* its requests interleave, unless the full cache threw its counter out.   *)
WindowKept ==
    setting.limit =>
        \A k \in Keys \ evicted : \A t \in 0 .. MaxTime :
            Cardinality({i \in DOMAIN admits[k] : admits[k][i] \in t .. t + Ttl - 1}) <= MaxRequests

(* What a refusal rests on.  The counter never counts an admission from    *)
(* before a pause of Ttl: when a request is refused, its key was admitted  *)
(* less than Ttl ago, and each of the last MaxRequests admissions was      *)
(* decided less than Ttl after the one before it.  A refusal renews        *)
(* nothing, so a client that keeps asking is let in again.                 *)
RefusalsEnd ==
    [][\A q \in Requests : req[q].pc = "limit" /\ req'[q].pc = "429" =>
            LET a == admits[req[q].key]
                d == decided[req[q].key]
            IN  /\ MaxRequests <= Len(a) /\ now < a[Len(a)] + Ttl
                /\ \A i \in Len(a) - MaxRequests + 1 .. Len(a) - 1 : d[i + 1] < a[i] + Ttl]_vars

(* "Rate limit exceeded (max {max_requests} requests/minute)": a client is *)
(* told so only when MaxRequests of its requests were admitted within the  *)
(* last Ttl.                                                               *)
RefusedOverLimit ==
    [][\A q \in Requests : req[q].pc = "limit" /\ req'[q].pc = "429" =>
            LET a == admits[req[q].key]
            IN  MaxRequests <= Cardinality({i \in DOMAIN a : now < a[i] + Ttl})]_vars
=============================================================================
