--------------------------- MODULE WorkflowProofs ---------------------------
(***************************************************************************)
(* Theorems about Workflow: the executes of a task, its futures and what   *)
(* its run reports, for any plan, any number of runners and any pool.      *)
(***************************************************************************)
EXTENDS Workflow, SequenceTheorems, TLAPS

Future == [i : Nat, st : {"queued", "running"} \cup Done]

TypeOK ==
    /\ tasks \in [Runners -> Seq(TaskSpec)]
    /\ \A r \in Runners : tasks[r] = <<>> \/ tasks[r] = Plan[r]
    /\ at \in [Runners -> Place]
    /\ fut \in [Runners -> Seq(Future)]
    /\ pool \in Seq(Runners \X Nat)
    /\ inflight \in [TaskIds -> Nat]
    /\ executes \in [TaskIds -> Nat]
    /\ results \in [Runners -> Seq({"value", "none"})]

(* Where a runner is with a task: it has submitted its future, or it has   *)
(* taken the task up.                                                      *)
Flying == {"register", "wait", "timeout", "cancel", "recheck", "join", "finally"}

Body == {"attempt", "inline", "submit"} \cup Flying

P(r) == Plan[r][at[r].i]

Undone(r, n) == fut[r][n].st \in {"queued", "running"}

(* The task a runner is at, and how often it may still try.                *)
Whereabouts(r) ==
    /\ At(r, "new") => at[r].i = 0 /\ Len(results[r]) = 0 /\ Len(fut[r]) = 0
    /\ ~At(r, "new") => at[r].i >= 1 /\ Len(results[r]) = at[r].i - 1
    /\ at[r].pc \in Body \cup {"raised"} => at[r].i \in 1 .. Len(Plan[r]) /\ tasks[r] = Plan[r]
    /\ at[r].pc \in Body => /\ at[r].round \in 1 .. Rounds(P(r))
                            /\ at[r].attempt \in 1 .. Attempts(P(r))
    /\ At(r, "inline") => P(r).round_timeout = 0

(* The future of the attempt in progress is the last one, and what the     *)
(* runner has learned of it still holds.                                   *)
Current(r) ==
    LET k == Len(fut[r])
    IN  /\ at[r].pc \in {"submit"} \cup Flying => P(r).round_timeout > 0 /\ P(r).executor # "none"
        /\ at[r].pc \in Flying => k > 0 /\ fut[r][k].i = at[r].i
        /\ at[r].pc \in {"recheck", "join"} => fut[r][k].st # "queued"
        /\ At(r, "finally") /\ at[r].error = FALSE => fut[r][k].st = "ok"
        /\ At(r, "finally") /\ at[r].error = TRUE =>
              \/ fut[r][k].st \in Done
              \/ fut[r][k].st = "running" /\ P(r).round_timeout_join > 0

(* Futures belong to tasks that have been reached and that need the pool.  *)
Owned(r) ==
    \A n \in 1 .. Len(fut[r]) :
        /\ fut[r][n].i \in 1 .. Len(Plan[r])
        /\ fut[r][n].i <= at[r].i
        /\ at[r].pc \notin Body \cup {"raised"} => fut[r][n].i < at[r].i
        /\ Plan[r][fut[r][n].i].round_timeout > 0
        /\ Plan[r][fut[r][n].i].executor # "none"

(* _inflight knows every future that is not done, but for the one that is  *)
(* about to be entered.                                                    *)
Tracked(r) ==
    /\ \A n \in 1 .. Len(fut[r]) : Undone(r, n) =>
          \/ inflight[<<r, fut[r][n].i>>] = n
          \/ n = Len(fut[r]) /\ At(r, "register")
    /\ at[r].pc \in {"submit", "register"} => inflight[Id(r)] = 0
    /\ at[r].pc \in Flying \ {"register"} => inflight[Id(r)] \in {0, Len(fut[r])}

(* A future outlives its attempt only past a join with a bound.            *)
Joined(r) ==
    \A n \in 1 .. Len(fut[r]) : Undone(r, n) =>
        \/ n = Len(fut[r]) /\ at[r].pc \in Flying
        \/ fut[r][n].st = "running" /\ Plan[r][fut[r][n].i].round_timeout_join > 0

(* What was reported of the tasks before this one.                         *)
Reported(r) ==
    \A j \in 1 .. Len(results[r]) : results[r][j] = "value" =>
        \/ \A n \in 1 .. Len(fut[r]) : fut[r][n].i # j
        \/ \E n \in 1 .. Len(fut[r]) :
              /\ fut[r][n].i = j /\ fut[r][n].st = "ok"
              /\ \A m \in 1 .. Len(fut[r]) : fut[r][m].i = j => m <= n

(* The executes of a task and the one that waits in the pool, against the  *)
(* attempts that were begun.                                               *)
Waiting(r, j) == \E n \in 1 .. Len(fut[r]) : fut[r][n].i = j /\ fut[r][n].st = "queued"

Spent(r, j) == executes[<<r, j>>] + (IF Waiting(r, j) THEN 1 ELSE 0)

Begun(r) ==
    LET a == Attempts(P(r))
    IN  (at[r].round - 1) * a + (at[r].attempt - 1)
          + (IF at[r].pc \in {"inline"} \cup Flying THEN 1 ELSE 0)

Allowed(r, j) ==
    IF j < at[r].i \/ (j = at[r].i /\ At(r, "raised"))
    THEN Rounds(Plan[r][j]) * Attempts(Plan[r][j])
    ELSE IF j = at[r].i /\ at[r].pc \in Body THEN Begun(r) ELSE 0

Thrifty(r) == \A j \in 1 .. Len(Plan[r]) : Spent(r, j) <= Allowed(r, j)

RunnerInv(r) ==
    /\ Whereabouts(r) /\ Current(r) /\ Owned(r) /\ Tracked(r)
    /\ Joined(r) /\ Reported(r) /\ Thrifty(r)

(* The pool's queue holds futures that have not started, each once.        *)
PoolInv ==
    /\ \A a \in 1 .. Len(pool) :
          /\ pool[a][1] \in Runners /\ pool[a][2] \in 1 .. Len(fut[pool[a][1]])
          /\ fut[pool[a][1]][pool[a][2]].st \in {"queued", "cancelled"}
    /\ \A a, b \in 1 .. Len(pool) : pool[a] = pool[b] => a = b

Inv == TypeOK /\ PoolInv /\ \A r \in Runners : RunnerInv(r)
-----------------------------------------------------------------------------
(* The constants.                                                          *)
LEMMA PlanIs ==
    ASSUME NEW r \in Runners
    PROVE  /\ Plan[r] \in Seq(TaskSpec) /\ Len(Plan[r]) \in Nat
           /\ DOMAIN Plan[r] = 1 .. Len(Plan[r])
           /\ \A i \in 1 .. Len(Plan[r]) : ValidTask(Plan[r][i]) /\ Plan[r][i] \in TaskSpec
           /\ \A i : <<r, i>> \in TaskIds <=> i \in 1 .. Len(Plan[r])
<1>1. Plan[r] \in Seq(TaskSpec)
  BY WorkflowAssumption
<1>2. Len(Plan[r]) \in Nat /\ DOMAIN Plan[r] = 1 .. Len(Plan[r])
  BY <1>1, LenProperties
<1>3. \A i \in 1 .. Len(Plan[r]) : ValidTask(Plan[r][i])
  BY <1>2, WorkflowAssumption
<1>4. \A i \in 1 .. Len(Plan[r]) : Plan[r][i] \in TaskSpec
  BY <1>3 DEF ValidTask
<1>5. \A i : <<r, i>> \in TaskIds <=> i \in 1 .. Len(Plan[r])
  BY <1>2 DEF TaskIds
<1> QED
  BY <1>1, <1>2, <1>3, <1>4, <1>5

LEMMA CountsAre ==
    ASSUME NEW t \in TaskSpec
    PROVE  Attempts(t) \in Nat \ {0} /\ Rounds(t) \in Nat \ {0}
BY DEF TaskSpec, Attempts, Rounds, Largest, Or

(* A valid task comes back from a payload as it was.                       *)
LEMMA PayloadKeeps ==
    ASSUME NEW t, ValidTask(t)
    PROVE  FromPayload(t) = t
<1>1. t \in TaskSpec /\ t.round_times # 0 /\ t.retry_until_max # 0
  BY DEF ValidTask, TaskSpec
<1>2. Or(t.round_times, 1) = t.round_times
  BY <1>1 DEF Or
<1>3. Or(t.retry_until_max, DefaultRetryUntilMax) = t.retry_until_max
  BY <1>1 DEF Or
<1> QED
  BY <1>1, <1>2, <1>3 DEF FromPayload, TaskSpec

LEMMA Times ==
    ASSUME NEW R \in Nat, NEW A \in Nat, NEW n \in Nat, n <= R
    PROVE  n * A <= R * A /\ n * A \in Nat /\ R * A \in Nat /\ (n + 1) * A = n * A + A
<1>1. PICK d \in Nat : R = n + d
  <2>1. R - n \in Nat /\ R = n + (R - n)
    OBVIOUS
  <2> QED
    BY <2>1
<1>2. R * A = n * A + d * A /\ n * A \in Nat /\ d * A \in Nat
  BY <1>1
<1>3. (n + 1) * A = n * A + A
  OBVIOUS
<1> QED
  BY <1>2, <1>3

LEMMA LastIs ==
    ASSUME NEW r \in Runners, fut[r] \in Seq(Future)
    PROVE  F(r) = fut[r][Len(fut[r])]
BY DEF F, Last

-----------------------------------------------------------------------------
(* The runner moves.                                                       *)
Moved(r, pc, i, round, attempt, error) ==
    /\ at' \in [Runners -> Place]
    /\ \A s \in Runners \ {r} : at'[s] = at[s]
    /\ at'[r].pc = pc /\ at'[r].i = i /\ at'[r].round = round
    /\ at'[r].attempt = attempt /\ at'[r].error = error

LEMMA PlaceIs ==
    ASSUME TypeOK, NEW r \in Runners
    PROVE  /\ at[r].pc \in Pcs /\ at[r].i \in Nat /\ at[r].round \in Nat
           /\ at[r].attempt \in Nat /\ at[r].error \in BOOLEAN
BY DEF TypeOK, Place

LEMMA GotoDoes ==
    ASSUME TypeOK, NEW r \in Runners, NEW pc \in Pcs, Goto(r, pc)
    PROVE  Moved(r, pc, at[r].i, at[r].round, at[r].attempt, at[r].error)
BY DEF TypeOK, Place, Goto, Moved

LEMMA LeaveDoes ==
    ASSUME TypeOK, NEW r \in Runners, NEW error \in BOOLEAN, Leave(r, error)
    PROVE  Moved(r, "finally", at[r].i, at[r].round, at[r].attempt, error)
<1>1. "finally" \in Pcs
  BY DEF Pcs
<1> QED
  BY <1>1 DEF TypeOK, Place, Leave, Moved

(* The values of a place that is updated in several fields.                *)
Fields(q, pc, i, round, attempt, error) ==
    /\ q \in Place
    /\ q.pc = pc /\ q.i = i /\ q.round = round /\ q.attempt = attempt
    /\ q.error = error

LEMMA PlaceNext ==
    ASSUME NEW p \in Place
    PROVE  Fields([p EXCEPT !.pc = "task", !.i = @ + 1, !.round = 0, !.attempt = 0],
                  "task", p.i + 1, 0, 0, p.error)
<1> DEFINE a == [p EXCEPT !.pc = "task"]
           b == [a EXCEPT !.i = @ + 1]
           c == [b EXCEPT !.round = 0]
           d == [c EXCEPT !.attempt = 0]
<1>1. Fields(a, "task", p.i, p.round, p.attempt, p.error)
  BY DEF Place, Pcs, Fields
<1>2. Fields(b, "task", p.i + 1, p.round, p.attempt, p.error)
  <2> HIDE DEF a
  <2> QED
    BY <1>1 DEF Place, Fields
<1>3. Fields(c, "task", p.i + 1, 0, p.attempt, p.error)
  <2> HIDE DEF b
  <2> QED
    BY <1>2 DEF Place, Fields
<1>4. Fields(d, "task", p.i + 1, 0, 0, p.error)
  <2> HIDE DEF c
  <2> QED
    BY <1>3 DEF Place, Fields
<1>5. d = [p EXCEPT !.pc = "task", !.i = @ + 1, !.round = 0, !.attempt = 0]
  OBVIOUS
<1> QED
  BY <1>4, <1>5

LEMMA PlaceRound ==
    ASSUME NEW p \in Place
    PROVE  Fields([p EXCEPT !.attempt = 1, !.round = @ + 1],
                  p.pc, p.i, p.round + 1, 1, p.error)
<1> DEFINE a == [p EXCEPT !.attempt = 1]
           b == [a EXCEPT !.round = @ + 1]
<1>1. Fields(a, p.pc, p.i, p.round, 1, p.error)
  BY DEF Place, Fields
<1>2. Fields(b, p.pc, p.i, p.round + 1, 1, p.error)
  <2> HIDE DEF a
  <2> QED
    BY <1>1 DEF Place, Fields
<1>3. b = [p EXCEPT !.attempt = 1, !.round = @ + 1]
  OBVIOUS
<1> QED
  BY <1>2, <1>3

LEMMA PlaceTry ==
    ASSUME NEW p \in Place
    PROVE  Fields([p EXCEPT !.pc = "attempt", !.round = 1, !.attempt = 1],
                  "attempt", p.i, 1, 1, p.error)
<1> DEFINE a == [p EXCEPT !.pc = "attempt"]
           b == [a EXCEPT !.round = 1]
           c == [b EXCEPT !.attempt = 1]
<1>1. Fields(a, "attempt", p.i, p.round, p.attempt, p.error)
  BY DEF Place, Pcs, Fields
<1>2. Fields(b, "attempt", p.i, 1, p.attempt, p.error)
  <2> HIDE DEF a
  <2> QED
    BY <1>1 DEF Place, Fields
<1>3. Fields(c, "attempt", p.i, 1, 1, p.error)
  <2> HIDE DEF b
  <2> QED
    BY <1>2 DEF Place, Fields
<1>4. c = [p EXCEPT !.pc = "attempt", !.round = 1, !.attempt = 1]
  OBVIOUS
<1> QED
  BY <1>3, <1>4

LEMMA PlaceMoves ==
    ASSUME TypeOK, NEW r \in Runners, NEW q, NEW pc, NEW i, NEW round, NEW attempt,
           NEW error, Fields(q, pc, i, round, attempt, error),
           at' = [at EXCEPT ![r] = q]
    PROVE  Moved(r, pc, i, round, attempt, error)
BY DEF TypeOK, Fields, Moved

LEMMA SucceededDoes ==
    ASSUME TypeOK, NEW r \in Runners, Succeeded(r)
    PROVE  /\ Moved(r, "task", at[r].i + 1, 0, 0, at[r].error)
           /\ results' = [results EXCEPT ![r] = Append(@, "value")]
<1> DEFINE q == [at[r] EXCEPT !.pc = "task", !.i = @ + 1, !.round = 0, !.attempt = 0]
<1>1. at[r] \in Place
  BY DEF TypeOK
<1>2. Fields(q, "task", at[r].i + 1, 0, 0, at[r].error)
  BY <1>1, PlaceNext
<1>3. at' = [at EXCEPT ![r] = q] /\ results' = [results EXCEPT ![r] = Append(@, "value")]
  BY DEF Succeeded
<1> HIDE DEF q
<1> QED
  BY <1>2, <1>3, PlaceMoves

(* The four ways on from an attempt that raised.                           *)
Retries(r) ==
    /\ at[r].attempt < Attempts(T(r))
    /\ Moved(r, "attempt", at[r].i, at[r].round, at[r].attempt + 1, FALSE)
    /\ results' = results

GoesRound(r) ==
    /\ at[r].attempt = Attempts(T(r)) /\ at[r].round < Rounds(T(r))
    /\ Moved(r, "attempt", at[r].i, at[r].round + 1, 1, FALSE)
    /\ results' = results

Skips(r) ==
    /\ Moved(r, "task", at[r].i + 1, 0, 0, FALSE)
    /\ results' = [results EXCEPT ![r] = Append(@, "none")]

GivesUp(r) ==
    /\ Moved(r, "raised", at[r].i, at[r].round, at[r].attempt, at[r].error)
    /\ results' = results

LEMMA FailedDoes ==
    ASSUME TypeOK, NEW r \in Runners, Failed(r)
    PROVE  Retries(r) \/ GoesRound(r) \/ Skips(r) \/ GivesUp(r)
<1> DEFINE p == [at[r] EXCEPT !.pc = "attempt", !.error = FALSE]
<1>1. {"attempt", "task", "raised"} \subseteq Pcs
  BY DEF Pcs
<1>2. /\ p \in Place /\ p.pc = "attempt" /\ p.error = FALSE
      /\ p.i = at[r].i /\ p.round = at[r].round /\ p.attempt = at[r].attempt
      /\ p.i \in Nat /\ p.round \in Nat /\ p.attempt \in Nat
  BY <1>1 DEF TypeOK, Place
<1> HIDE DEF p
<1>3. CASE /\ p.attempt < Attempts(T(r))
           /\ at' = [at EXCEPT ![r] = [p EXCEPT !.attempt = @ + 1]]
           /\ results' = results
  <2> DEFINE q == [p EXCEPT !.attempt = @ + 1]
  <2>1. Fields(q, "attempt", at[r].i, at[r].round, at[r].attempt + 1, FALSE)
    BY <1>2 DEF Place, Fields
  <2> HIDE DEF q
  <2>2. at' = [at EXCEPT ![r] = q]
    BY <1>3 DEF q
  <2>3. Moved(r, "attempt", at[r].i, at[r].round, at[r].attempt + 1, FALSE)
    BY <2>1, <2>2, PlaceMoves
  <2> QED
    BY <1>2, <1>3, <2>3 DEF Retries
<1>4. CASE /\ p.attempt = Attempts(T(r)) /\ p.round < Rounds(T(r))
           /\ at' = [at EXCEPT ![r] = [p EXCEPT !.attempt = 1, !.round = @ + 1]]
           /\ results' = results
  <2> DEFINE q == [p EXCEPT !.attempt = 1, !.round = @ + 1]
  <2>1. Fields(q, "attempt", at[r].i, at[r].round + 1, 1, FALSE)
    BY <1>2, PlaceRound
  <2> HIDE DEF q
  <2>2. at' = [at EXCEPT ![r] = q]
    BY <1>4 DEF q
  <2>3. Moved(r, "attempt", at[r].i, at[r].round + 1, 1, FALSE)
    BY <2>1, <2>2, PlaceMoves
  <2> QED
    BY <1>2, <1>4, <2>3 DEF GoesRound
<1>5. CASE /\ results' = [results EXCEPT ![r] = Append(@, "none")]
           /\ at' = [at EXCEPT ![r] = [p EXCEPT !.pc = "task", !.i = @ + 1,
                                                !.round = 0, !.attempt = 0]]
  <2> DEFINE q == [p EXCEPT !.pc = "task", !.i = @ + 1, !.round = 0, !.attempt = 0]
  <2>1. Fields(q, "task", at[r].i + 1, 0, 0, FALSE)
    BY <1>2, PlaceNext
  <2> HIDE DEF q
  <2>2. at' = [at EXCEPT ![r] = q]
    BY <1>5 DEF q
  <2>3. Moved(r, "task", at[r].i + 1, 0, 0, FALSE)
    BY <2>1, <2>2, PlaceMoves
  <2> QED
    BY <1>5, <2>3 DEF Skips
<1>6. CASE results' = results /\ at' = [at EXCEPT ![r].pc = "raised"]
  <2>1. Goto(r, "raised")
    BY <1>6 DEF Goto
  <2> QED
    BY <1>1, <1>6, <2>1, GotoDoes DEF GivesUp
<1> QED
  BY <1>3, <1>4, <1>5, <1>6 DEF Failed, p

-----------------------------------------------------------------------------
(* What the state of a runner is made of, and when it stays as it is.      *)
LEMMA FutureIs ==
    ASSUME NEW q \in Seq(Future)
    PROVE  /\ Len(q) \in Nat
           /\ \A n \in 1 .. Len(q) : /\ q[n] \in Future /\ q[n].i \in Nat
                                     /\ q[n].st \in {"queued", "running"} \cup Done
<1>1. Len(q) \in Nat /\ \A n \in 1 .. Len(q) : q[n] \in Future
  BY LenProperties, ElementOfSeq
<1> QED
  BY <1>1 DEF Future

Same(s) ==
    /\ at'[s] = at[s] /\ fut'[s] = fut[s] /\ tasks'[s] = tasks[s]
    /\ results'[s] = results[s]
    /\ \A j \in 1 .. Len(Plan[s]) :
          inflight'[<<s, j>>] = inflight[<<s, j>>] /\ executes'[<<s, j>>] = executes[<<s, j>>]

LEMMA Frame ==
    ASSUME NEW s \in Runners, RunnerInv(s), Same(s)
    PROVE  RunnerInv(s)'
<1> USE DEF RunnerInv, Same
<1>1. Whereabouts(s)'
  BY DEF Whereabouts, At, P
<1>2. Current(s)'
  BY DEF Current, At, P
<1>3. Owned(s)'
  BY DEF Owned
<1>4. Tracked(s)'
  <2>1. Len(fut'[s]) = Len(fut[s]) /\ at'[s].pc = at[s].pc /\ at'[s].i = at[s].i
    OBVIOUS
  <2>2. ASSUME NEW n \in 1 .. Len(fut'[s]), Undone(s, n)'
        PROVE  \/ inflight'[<<s, fut'[s][n].i>>] = n
               \/ n = Len(fut'[s]) /\ At(s, "register")'
    <3>1. fut[s][n].i \in 1 .. Len(Plan[s]) /\ Undone(s, n)
      BY <2>1, <2>2 DEF Owned, Undone
    <3> QED
      BY <2>1, <3>1 DEF Tracked, At
  <2>3. at'[s].pc \in {"submit"} \cup Flying => inflight'[<<s, at'[s].i>>] = inflight[<<s, at[s].i>>]
    BY DEF Whereabouts, Body
  <2> QED
    BY <2>1, <2>2, <2>3 DEF Tracked, Flying, Id
<1>5. Joined(s)'
  BY DEF Joined, Undone
<1>6. Reported(s)'
  BY DEF Reported
<1>7. Thrifty(s)'
  <2>1. ASSUME NEW j \in 1 .. Len(Plan[s]) PROVE Spent(s, j)' = Spent(s, j)
    BY DEF Spent, Waiting
  <2>2. ASSUME NEW j \in 1 .. Len(Plan[s]) PROVE Allowed(s, j)' = Allowed(s, j)
    BY DEF Allowed, Begun, P, At
  <2> QED
    BY <2>1, <2>2 DEF Thrifty
<1> QED
  BY <1>1, <1>2, <1>3, <1>4, <1>5, <1>6, <1>7

(* A step of r leaves the other runners alone.                             *)
Aside(r) == \A s \in Runners \ {r} : Same(s)

LEMMA StepOf ==
    ASSUME Inv, NEW r \in Runners, Aside(r), TypeOK', PoolInv', RunnerInv(r)'
    PROVE  Inv'
<1>1. ASSUME NEW s \in Runners PROVE RunnerInv(s)'
  BY Frame DEF Inv, Aside
<1> QED
  BY <1>1 DEF Inv

LEMMA PoolStays ==
    ASSUME PoolInv, UNCHANGED <<fut, pool>>
    PROVE  PoolInv'
BY DEF PoolInv

-----------------------------------------------------------------------------
(* The arithmetic of the attempts.                                         *)
LEMMA SpentIs ==
    ASSUME TypeOK, NEW r \in Runners, NEW j \in 1 .. Len(Plan[r])
    PROVE  executes[<<r, j>>] \in Nat /\ Spent(r, j) \in Nat
BY PlanIs DEF TypeOK, Spent

LEMMA SpentIsNext ==
    ASSUME TypeOK', NEW r \in Runners, NEW j \in 1 .. Len(Plan[r])
    PROVE  executes'[<<r, j>>] \in Nat /\ Spent(r, j)' \in Nat
<1>1. executes'[<<r, j>>] \in Nat
  BY PlanIs DEF TypeOK
<1> QED
  BY <1>1 DEF Spent

(* The attempts up to and with the one in progress.                        *)
Tries(r, round, attempt) == (round - 1) * Attempts(P(r)) + attempt

LEMMA TriesAre ==
    ASSUME TypeOK, NEW r \in Runners, Whereabouts(r), at[r].pc \in Body
    PROVE  /\ Attempts(P(r)) \in Nat \ {0} /\ Rounds(P(r)) \in Nat \ {0}
           /\ Tries(r, at[r].round, at[r].attempt) \in Nat
           /\ Begun(r) \in Nat
           /\ Begun(r) = Tries(r, at[r].round, at[r].attempt)
                           - (IF at[r].pc \in {"inline"} \cup Flying THEN 0 ELSE 1)
           /\ Begun(r) <= Tries(r, at[r].round, at[r].attempt)
           /\ Tries(r, at[r].round, at[r].attempt) <= Rounds(P(r)) * Attempts(P(r))
           /\ Rounds(P(r)) * Attempts(P(r)) \in Nat
           /\ at[r].attempt = Attempts(P(r)) =>
                Tries(r, at[r].round + 1, 1) = Tries(r, at[r].round, at[r].attempt) + 1
           /\ Tries(r, at[r].round, at[r].attempt + 1) = Tries(r, at[r].round, at[r].attempt) + 1
<1> DEFINE A == Attempts(P(r))
           R == Rounds(P(r))
           m == at[r].round
           n == at[r].attempt
<1>1. A \in Nat \ {0} /\ R \in Nat \ {0}
  <2>1. P(r) \in TaskSpec
    BY PlanIs DEF Whereabouts, P
  <2> QED
    BY <2>1, CountsAre
<1>2. m \in 1 .. R /\ n \in 1 .. A
  BY DEF Whereabouts
<1>3. m - 1 \in Nat /\ m - 1 <= R /\ m \in Nat /\ m <= R /\ n \in Nat /\ 1 <= n /\ n <= A
  BY <1>1, <1>2
<1>4. Begun(r) = (m - 1) * A + (n - 1) + (IF at[r].pc \in {"inline"} \cup Flying THEN 1 ELSE 0)
  BY DEF Begun
<1>5. Tries(r, m, n) = (m - 1) * A + n /\ Tries(r, m, n + 1) = (m - 1) * A + (n + 1)
      /\ Tries(r, m + 1, 1) = ((m + 1) - 1) * A + 1
  BY DEF Tries
<1> HIDE DEF A, R, m, n
<1>6. (m - 1) * A \in Nat /\ R * A \in Nat /\ ((m - 1) + 1) * A = (m - 1) * A + A
  BY <1>1, <1>3, Times
<1>7. m * A <= R * A /\ m * A \in Nat
  BY <1>1, <1>3, Times
<1>8. (m - 1) + 1 = m /\ (m + 1) - 1 = m
  BY <1>3
<1>9. m * A = (m - 1) * A + A /\ Tries(r, m + 1, 1) = m * A + 1
  BY <1>5, <1>6, <1>8
<1> DEFINE x == (m - 1) * A
           y == m * A
           z == R * A
<1>10. /\ x \in Nat /\ y \in Nat /\ z \in Nat /\ y = x + A /\ y <= z
       /\ Tries(r, m, n) = x + n /\ Tries(r, m, n + 1) = x + (n + 1)
       /\ Tries(r, m + 1, 1) = y + 1
       /\ Begun(r) = x + (n - 1) + (IF at[r].pc \in {"inline"} \cup Flying THEN 1 ELSE 0)
  BY <1>4, <1>5, <1>6, <1>7, <1>9
<1> HIDE DEF x, y, z
<1>11. /\ Tries(r, m, n) \in Nat /\ Begun(r) \in Nat
       /\ Begun(r) = Tries(r, m, n) - (IF at[r].pc \in {"inline"} \cup Flying THEN 0 ELSE 1)
       /\ Begun(r) <= Tries(r, m, n) /\ Tries(r, m, n) <= z
       /\ n = A => Tries(r, m + 1, 1) = Tries(r, m, n) + 1
       /\ Tries(r, m, n + 1) = Tries(r, m, n) + 1
  BY <1>1, <1>3, <1>10
<1> QED
  BY <1>1, <1>10, <1>11 DEF A, R, m, n, z

LEMMA AllowedIs ==
    ASSUME TypeOK, NEW r \in Runners, NEW j \in 1 .. Len(Plan[r])
    PROVE  Rounds(Plan[r][j]) * Attempts(Plan[r][j]) \in Nat
<1>1. Plan[r][j] \in TaskSpec
  BY PlanIs
<1> QED
  BY <1>1, CountsAre

(* In the same task, d more attempts are begun and at most d are spent.    *)
LEMMA ThriftySame ==
    ASSUME TypeOK, TypeOK', NEW r \in Runners, Thrifty(r), NEW d \in Nat,
           at[r].pc \in Body, at'[r].pc \in Body, at'[r].i = at[r].i,
           Begun(r) \in Nat, Begun(r)' \in Nat, Begun(r) + d <= Begun(r)',
           \A j \in 1 .. Len(Plan[r]) :
              Spent(r, j)' <= Spent(r, j) + (IF j = at[r].i THEN d ELSE 0)
    PROVE  Thrifty(r)'
<1> SUFFICES ASSUME NEW j \in 1 .. Len(Plan[r]) PROVE Spent(r, j)' <= Allowed(r, j)'
  BY DEF Thrifty
<1>1. Spent(r, j) \in Nat /\ Spent(r, j)' \in Nat /\ Spent(r, j) <= Allowed(r, j)
  BY SpentIs, SpentIsNext DEF Thrifty
<1>2. at[r].pc # "raised" /\ at'[r].pc # "raised"
  BY DEF Body, Flying
<1>3. at[r].i \in Nat /\ j \in Nat
  BY PlaceIs, PlanIs
<1>4. CASE j = at[r].i
  <2>1. Allowed(r, j) = Begun(r) /\ Allowed(r, j)' = Begun(r)'
    BY <1>2, <1>3, <1>4 DEF Allowed, At
  <2> QED
    BY <1>1, <1>4, <2>1
<1>5. CASE j # at[r].i
  <2>1. Allowed(r, j)' = Allowed(r, j) /\ Allowed(r, j) \in Nat
    BY <1>3, <1>5, AllowedIs DEF Allowed, At
  <2> QED
    BY <1>1, <1>5, <2>1
<1> QED
  BY <1>4, <1>5

(* The task is over.                                                       *)
LEMMA ThriftyOver ==
    ASSUME TypeOK, TypeOK', NEW r \in Runners, Thrifty(r), Whereabouts(r),
           at[r].pc \in Body,
           \/ at'[r].pc = "task" /\ at'[r].i = at[r].i + 1
           \/ at'[r].pc = "raised" /\ at'[r].i = at[r].i,
           \A j \in 1 .. Len(Plan[r]) : Spent(r, j)' <= Spent(r, j)
    PROVE  Thrifty(r)'
<1> SUFFICES ASSUME NEW j \in 1 .. Len(Plan[r]) PROVE Spent(r, j)' <= Allowed(r, j)'
  BY DEF Thrifty
<1>1. Spent(r, j) \in Nat /\ Spent(r, j)' \in Nat /\ Spent(r, j)' <= Spent(r, j)
      /\ Spent(r, j) <= Allowed(r, j)
  BY SpentIs, SpentIsNext DEF Thrifty
<1>2. "task" \notin Body /\ "raised" \notin Body
  BY DEF Body, Flying
<1>3. at[r].i \in Nat /\ j \in Nat
  BY PlaceIs, PlanIs
<1>4. CASE j = at[r].i
  <2>1. Allowed(r, j) = Begun(r) /\ Allowed(r, j)' = Rounds(P(r)) * Attempts(P(r))
    BY <1>2, <1>3, <1>4 DEF Allowed, At, P
  <2>2. Begun(r) \in Nat /\ Begun(r) <= Rounds(P(r)) * Attempts(P(r))
        /\ Rounds(P(r)) * Attempts(P(r)) \in Nat
    <3> DEFINE z == Rounds(P(r)) * Attempts(P(r))
               y == Tries(r, at[r].round, at[r].attempt)
    <3>1. Begun(r) \in Nat /\ y \in Nat /\ z \in Nat /\ Begun(r) <= y /\ y <= z
      BY TriesAre
    <3> HIDE DEF z, y
    <3>2. Begun(r) \in Nat /\ Begun(r) <= z /\ z \in Nat
      BY <3>1
    <3> QED
      BY <3>2 DEF z
  <2> DEFINE z == Rounds(P(r)) * Attempts(P(r))
  <2> HIDE DEF z
  <2>3. Allowed(r, j) = Begun(r) /\ Allowed(r, j)' = z /\ Begun(r) \in Nat /\ Begun(r) <= z /\ z \in Nat
    BY <2>1, <2>2 DEF z
  <2> QED
    BY <1>1, <2>3
<1>5. CASE j # at[r].i
  <2>1. Allowed(r, j)' = Allowed(r, j) /\ Allowed(r, j) \in Nat
    BY <1>2, <1>3, <1>5, AllowedIs DEF Allowed, At
  <2> QED
    BY <1>1, <1>5, <2>1
<1> QED
  BY <1>4, <1>5

(* Nothing is begun.                                                       *)
LEMMA ThriftyStays ==
    ASSUME TypeOK, TypeOK', NEW r \in Runners, Thrifty(r),
           \A j \in 1 .. Len(Plan[r]) :
              /\ Spent(r, j)' <= Spent(r, j)
              /\ Allowed(r, j) \in Nat /\ Allowed(r, j)' \in Nat
              /\ Allowed(r, j) <= Allowed(r, j)'
    PROVE  Thrifty(r)'
<1> SUFFICES ASSUME NEW j \in 1 .. Len(Plan[r]) PROVE Spent(r, j)' <= Allowed(r, j)'
  BY DEF Thrifty
<1>1. Spent(r, j) \in Nat /\ Spent(r, j)' \in Nat /\ Spent(r, j) <= Allowed(r, j)
  BY SpentIs, SpentIsNext DEF Thrifty
<1> QED
  BY <1>1

-----------------------------------------------------------------------------
(* The attempt is over: what still runs of the task is entered in          *)
(* _inflight and has outlived its join.                                    *)
Settled(r) ==
    /\ UNCHANGED <<tasks, fut, pool, executes>>
    /\ inflight' \in [TaskIds -> Nat]
    /\ \A s \in Runners \ {r} : \A j \in 1 .. Len(Plan[s]) :
          inflight'[<<s, j>>] = inflight[<<s, j>>]
    /\ \A n \in 1 .. Len(fut[r]) : Undone(r, n) =>
          /\ inflight'[<<r, fut[r][n].i>>] = n
          /\ fut[r][n].st = "running" /\ Plan[r][fut[r][n].i].round_timeout_join > 0

LEMMA SettledSpends ==
    ASSUME NEW r \in Runners, TypeOK, Settled(r)
    PROVE  \A j \in 1 .. Len(Plan[r]) : Spent(r, j)' <= Spent(r, j)
<1>1. ASSUME NEW j \in 1 .. Len(Plan[r]) PROVE Spent(r, j)' = Spent(r, j) /\ Spent(r, j) \in Nat
  BY SpentIs DEF Settled, Spent, Waiting
<1>2. ASSUME NEW j \in 1 .. Len(Plan[r]) PROVE Spent(r, j)' <= Spent(r, j)
  BY <1>1
<1> QED
  BY <1>2

LEMMA SettledAside ==
    ASSUME NEW r \in Runners, Settled(r), \A s \in Runners \ {r} : at'[s] = at[s],
           \A s \in Runners \ {r} : results'[s] = results[s]
    PROVE  Aside(r)
BY DEF Aside, Same, Settled

LEMMA TriesAgain ==
    ASSUME Inv, NEW r \in Runners, at[r].pc \in Body, Settled(r), NEW m, NEW n,
           Moved(r, "attempt", at[r].i, m, n, FALSE), results' = results,
           m \in 1 .. Rounds(P(r)), n \in 1 .. Attempts(P(r)),
           Tries(r, m, n) = Tries(r, at[r].round, at[r].attempt) + 1
    PROVE  Inv'
<1>1. TypeOK /\ PoolInv /\ RunnerInv(r) /\ Whereabouts(r)
  BY DEF Inv, RunnerInv
<1>2. TypeOK'
  BY <1>1 DEF TypeOK, Moved, Settled
<1>3. PoolInv'
  BY <1>1, PoolStays DEF Settled
<1>4. Aside(r)
  BY SettledAside DEF Moved
<1>5. /\ at'[r].pc = "attempt" /\ at'[r].i = at[r].i /\ at'[r].round = m
      /\ at'[r].attempt = n /\ P(r)' = P(r) /\ fut' = fut /\ tasks' = tasks
  BY DEF Moved, P, Settled
<1>6. {"attempt", "new", "inline"} \cap ({"submit", "raised"} \cup Flying) = {} /\ "attempt" \in Body
      /\ "new" \notin Body
  BY DEF Flying, Body
<1>7. Whereabouts(r)'
  BY <1>1, <1>5, <1>6 DEF Whereabouts, At
<1>8. Current(r)'
  BY <1>5, <1>6 DEF Current, At, Flying
<1>9. Owned(r)'
  BY <1>1, <1>5, <1>6 DEF RunnerInv, Owned
<1>10. Tracked(r)'
  BY <1>5, <1>6 DEF Settled, Tracked, Undone, Flying
<1>11. Joined(r)'
  BY <1>5 DEF Settled, Joined, Undone
<1>12. Reported(r)'
  BY <1>1, <1>5 DEF RunnerInv, Reported
<1>13. Thrifty(r)'
  <2> DEFINE A == Attempts(P(r))
             t == Tries(r, at[r].round, at[r].attempt)
  <2>1. A \in Nat \ {0} /\ Rounds(P(r)) \in Nat \ {0} /\ t \in Nat /\ Begun(r) \in Nat /\ Begun(r) <= t
    BY <1>1, TriesAre
  <2>2. Begun(r)' = (m - 1) * A + (n - 1) + 0
    BY <1>5, <1>6 DEF Begun
  <2>3. (m - 1) * A + n = t + 1
    BY DEF Tries
  <2> HIDE DEF A, t
  <2>4. m - 1 \in Nat /\ n \in Nat
    BY <2>1 DEF A
  <2>5. (m - 1) * A \in Nat
    BY <2>1, <2>4, Times
  <2> DEFINE x == (m - 1) * A
  <2> HIDE DEF x
  <2>6. x \in Nat /\ Begun(r)' = x + (n - 1) + 0 /\ x + n = t + 1
    BY <2>2, <2>3, <2>5 DEF x
  <2>7. Begun(r)' \in Nat /\ Begun(r) + 0 <= Begun(r)'
    BY <2>1, <2>4, <2>6
  <2>8. \A j \in 1 .. Len(Plan[r]) :
           Spent(r, j)' <= Spent(r, j) + (IF j = at[r].i THEN 0 ELSE 0)
    <3> SUFFICES ASSUME NEW j \in 1 .. Len(Plan[r])
                 PROVE  Spent(r, j)' <= Spent(r, j) + (IF j = at[r].i THEN 0 ELSE 0)
      OBVIOUS
    <3>1. Spent(r, j)' <= Spent(r, j) /\ Spent(r, j) \in Nat
      BY <1>1, SettledSpends, SpentIs
    <3> QED
      BY <3>1
  <2> QED
    BY <1>1, <1>2, <1>5, <1>6, <2>1, <2>7, <2>8, ThriftySame DEF RunnerInv
<1>14. RunnerInv(r)'
  BY <1>7, <1>8, <1>9, <1>10, <1>11, <1>12, <1>13 DEF RunnerInv
<1> QED
  BY <1>2, <1>3, <1>4, <1>14, StepOf

(* What the runner reports is so.                                          *)
Real(r) ==
    \/ \A n \in 1 .. Len(fut[r]) : fut[r][n].i # at[r].i
    \/ \E n \in 1 .. Len(fut[r]) :
          /\ fut[r][n].i = at[r].i /\ fut[r][n].st = "ok"
          /\ \A m \in 1 .. Len(fut[r]) : fut[r][m].i = at[r].i => m <= n

LEMMA TaskEnds ==
    ASSUME Inv, NEW r \in Runners, at[r].pc \in Body, Settled(r),
           NEW v \in {"value", "none"}, NEW e, v = "value" => Real(r),
           Moved(r, "task", at[r].i + 1, 0, 0, e),
           results' = [results EXCEPT ![r] = Append(@, v)]
    PROVE  Inv'
<1>1. TypeOK /\ PoolInv /\ RunnerInv(r) /\ Whereabouts(r)
  BY DEF Inv, RunnerInv
<1>2. /\ results[r] \in Seq({"value", "none"}) /\ Len(results[r]) \in Nat
      /\ results'[r] = Append(results[r], v)
      /\ results' \in [Runners -> Seq({"value", "none"})]
      /\ \A s \in Runners \ {r} : results'[s] = results[s]
  BY <1>1, LenProperties, AppendProperties DEF TypeOK
<1>3. /\ Len(results'[r]) = Len(results[r]) + 1
      /\ \A j \in 1 .. Len(results[r]) : results'[r][j] = results[r][j]
      /\ results'[r][Len(results[r]) + 1] = v
  BY <1>2, AppendProperties
<1>4. TypeOK'
  BY <1>1, <1>2 DEF TypeOK, Moved, Settled
<1>5. PoolInv'
  BY <1>1, PoolStays DEF Settled
<1>6. Aside(r)
  BY <1>2, SettledAside DEF Moved
<1>7. /\ at'[r].pc = "task" /\ at'[r].i = at[r].i + 1
      /\ fut' = fut /\ tasks' = tasks
  BY DEF Moved, Settled
<1>8. {"task"} \cap ({"submit", "raised"} \cup Body) = {} /\ ~At(r, "new")
      /\ "task" \notin Flying
  BY DEF Flying, Body, At
<1>9. at[r].i \in Nat /\ at[r].i >= 1 /\ Len(results[r]) = at[r].i - 1
  BY <1>1, <1>8, PlaceIs DEF Whereabouts
<1>10. Whereabouts(r)'
  BY <1>3, <1>7, <1>8, <1>9 DEF Whereabouts, At
<1>11. Current(r)'
  BY <1>7, <1>8 DEF Current, At
<1>12. Owned(r)'
  <2> SUFFICES ASSUME NEW n \in 1 .. Len(fut[r])
               PROVE  /\ fut[r][n].i \in 1 .. Len(Plan[r])
                      /\ fut[r][n].i < at[r].i + 1 /\ fut[r][n].i <= at[r].i + 1
                      /\ Plan[r][fut[r][n].i].round_timeout > 0
                      /\ Plan[r][fut[r][n].i].executor # "none"
    BY <1>7, <1>9 DEF Owned
  <2> QED
    BY <1>1, <1>9, PlanIs DEF RunnerInv, Owned
<1>13. Tracked(r)'
  BY <1>7, <1>8 DEF Settled, Tracked, Undone
<1>14. Joined(r)'
  BY <1>7 DEF Settled, Joined, Undone
<1>15. Reported(r)'
  <2> SUFFICES ASSUME NEW j \in 1 .. Len(results'[r]), results'[r][j] = "value"
               PROVE  \/ \A n \in 1 .. Len(fut[r]) : fut[r][n].i # j
                      \/ \E n \in 1 .. Len(fut[r]) :
                            /\ fut[r][n].i = j /\ fut[r][n].st = "ok"
                            /\ \A m \in 1 .. Len(fut[r]) : fut[r][m].i = j => m <= n
    BY <1>7 DEF Reported
  <2>1. j \in 1 .. Len(results[r]) \/ j = Len(results[r]) + 1
    BY <1>2, <1>3
  <2>2. CASE j \in 1 .. Len(results[r])
    BY <1>1, <1>3, <2>2 DEF RunnerInv, Reported
  <2>3. CASE j = Len(results[r]) + 1
    <3>1. j = at[r].i /\ Real(r)
      BY <1>3, <1>9, <2>3
    <3> QED
      BY <3>1 DEF Real
  <2> QED
    BY <2>1, <2>2, <2>3
<1>16. Thrifty(r)'
  BY <1>1, <1>4, <1>7, SettledSpends, ThriftyOver DEF RunnerInv
<1>17. RunnerInv(r)'
  BY <1>10, <1>11, <1>12, <1>13, <1>14, <1>15, <1>16 DEF RunnerInv
<1> QED
  BY <1>4, <1>5, <1>6, <1>17, StepOf

LEMMA RunRaises ==
    ASSUME Inv, NEW r \in Runners, at[r].pc \in Body, Settled(r), GivesUp(r)
    PROVE  Inv'
<1>1. TypeOK /\ PoolInv /\ RunnerInv(r) /\ Whereabouts(r)
  BY DEF Inv, RunnerInv
<1>2. TypeOK'
  BY <1>1 DEF TypeOK, GivesUp, Moved, Settled
<1>3. PoolInv'
  BY <1>1, PoolStays DEF Settled
<1>4. Aside(r)
  BY SettledAside DEF GivesUp, Moved
<1>5. /\ at'[r].pc = "raised" /\ at'[r].i = at[r].i
      /\ fut' = fut /\ tasks' = tasks /\ results' = results
  BY DEF GivesUp, Moved, Settled
<1>6. "raised" \notin ({"submit"} \cup Body) /\ "raised" \notin Flying /\ ~At(r, "new")
  BY DEF Flying, Body, At
<1>7. Whereabouts(r)'
  BY <1>1, <1>5, <1>6 DEF Whereabouts, At
<1>8. Current(r)'
  BY <1>5, <1>6 DEF Current, At
<1>9. Owned(r)'
  BY <1>1, <1>5, <1>6 DEF RunnerInv, Owned
<1>10. Tracked(r)'
  BY <1>5, <1>6 DEF Settled, Tracked, Undone
<1>11. Joined(r)'
  BY <1>5 DEF Settled, Joined, Undone
<1>12. Reported(r)'
  BY <1>1, <1>5 DEF RunnerInv, Reported
<1>13. Thrifty(r)'
  BY <1>1, <1>2, <1>5, SettledSpends, ThriftyOver DEF RunnerInv
<1>14. RunnerInv(r)'
  BY <1>7, <1>8, <1>9, <1>10, <1>11, <1>12, <1>13 DEF RunnerInv
<1> QED
  BY <1>2, <1>3, <1>4, <1>14, StepOf

(* Whatever _run_task does after an attempt.                               *)
LEMMA FailedKeeps ==
    ASSUME Inv, NEW r \in Runners, at[r].pc \in Body, Settled(r), Failed(r)
    PROVE  Inv'
<1>1. TypeOK /\ Whereabouts(r) /\ T(r) = P(r)
  BY DEF Inv, RunnerInv, Whereabouts, T, P
<1>2. /\ at[r].round \in 1 .. Rounds(P(r)) /\ at[r].attempt \in 1 .. Attempts(P(r))
      /\ Rounds(P(r)) \in Nat \ {0} /\ Attempts(P(r)) \in Nat \ {0}
  BY <1>1, TriesAre DEF Whereabouts
<1>3. CASE Retries(r)
  <2>1. at[r].attempt + 1 \in 1 .. Attempts(P(r))
    BY <1>1, <1>2, <1>3 DEF Retries
  <2>2. Tries(r, at[r].round, at[r].attempt + 1) = Tries(r, at[r].round, at[r].attempt) + 1
    BY <1>1, TriesAre
  <2> QED
    BY <1>2, <1>3, <2>1, <2>2, TriesAgain DEF Retries
<1>4. CASE GoesRound(r)
  <2>1. at[r].round + 1 \in 1 .. Rounds(P(r)) /\ 1 \in 1 .. Attempts(P(r))
    BY <1>1, <1>2, <1>4 DEF GoesRound
  <2>2. Tries(r, at[r].round + 1, 1) = Tries(r, at[r].round, at[r].attempt) + 1
    BY <1>1, <1>4, TriesAre DEF GoesRound
  <2> QED
    BY <1>4, <2>1, <2>2, TriesAgain DEF GoesRound
<1>5. CASE Skips(r)
  BY <1>5, TaskEnds DEF Skips
<1>6. CASE GivesUp(r)
  BY <1>6, RunRaises
<1> QED
  BY <1>1, <1>3, <1>4, <1>5, <1>6, FailedDoes

LEMMA SucceededKeeps ==
    ASSUME Inv, NEW r \in Runners, at[r].pc \in Body, Settled(r), Succeeded(r), Real(r)
    PROVE  Inv'
<1>1. TypeOK
  BY DEF Inv
<1> QED
  BY <1>1, SucceededDoes, TaskEnds

-----------------------------------------------------------------------------
(* The steps before the pool is used.                                      *)
LEMMA NobodyMoves ==
    ASSUME Inv, UNCHANGED <<tasks, at, fut, pool, inflight, executes, results>>
    PROVE  Inv'
<1>1. TypeOK' /\ PoolInv'
  BY PoolStays DEF Inv, TypeOK
<1>2. ASSUME NEW s \in Runners PROVE RunnerInv(s)'
  BY Frame DEF Inv, Same
<1> QED
  BY <1>1, <1>2 DEF Inv

LEMMA Begins ==
    ASSUME Inv, NEW r \in Runners, At(r, "new"),
           tasks' = tasks \/ tasks' = [tasks EXCEPT ![r] = Plan[r]],
           at' = [at EXCEPT ![r] = [at[r] EXCEPT !.pc = "task", !.i = 1]],
           UNCHANGED <<fut, pool, inflight, executes, results>>
    PROVE  Inv'
<1>1. TypeOK /\ PoolInv /\ RunnerInv(r) /\ Whereabouts(r)
  BY DEF Inv, RunnerInv
<1>2. Moved(r, "task", 1, at[r].round, at[r].attempt, at[r].error)
  <2> DEFINE p == [at[r] EXCEPT !.pc = "task"]
             q == [p EXCEPT !.i = 1]
  <2>1. Fields(p, "task", at[r].i, at[r].round, at[r].attempt, at[r].error)
    BY <1>1 DEF TypeOK, Fields, Place, Pcs
  <2>2. Fields(q, "task", 1, at[r].round, at[r].attempt, at[r].error)
    <3> HIDE DEF p
    <3> QED
      BY <2>1 DEF Fields, Place
  <2>3. at' = [at EXCEPT ![r] = q]
    OBVIOUS
  <2> HIDE DEF q
  <2> QED
    BY <1>1, <2>2, <2>3, PlaceMoves
<1>3. TypeOK'
  <2>1. tasks' \in [Runners -> Seq(TaskSpec)]
        /\ \A s \in Runners : tasks'[s] = tasks[s] \/ tasks'[s] = Plan[s]
    BY <1>1, PlanIs DEF TypeOK
  <2> QED
    BY <1>1, <1>2, <2>1 DEF TypeOK, Moved
<1>4. PoolInv'
  BY <1>1, PoolStays
<1>5. Aside(r)
  BY <1>1, <1>2 DEF TypeOK, Aside, Same, Moved
<1>6. at'[r].pc = "task" /\ at'[r].i = 1
  BY <1>2 DEF Moved
<1>7. "task" \notin ({"submit", "raised"} \cup Body) /\ "task" \notin Flying /\ "new" \notin Body
  BY DEF Flying, Body
<1>8. Len(results[r]) = 0 /\ Len(fut[r]) = 0 /\ at[r].i = 0
  BY <1>1 DEF Whereabouts
<1>9. Whereabouts(r)'
  BY <1>6, <1>7, <1>8 DEF Whereabouts, At
<1>10. Current(r)'
  BY <1>6, <1>7 DEF Current, At
<1>11. Owned(r)' /\ Joined(r)' /\ Reported(r)'
  BY <1>8 DEF Owned, Joined, Reported
<1>12. Tracked(r)'
  BY <1>6, <1>7, <1>8 DEF Tracked
<1>13. Thrifty(r)'
  <2>1. ASSUME NEW j \in 1 .. Len(Plan[r])
        PROVE  Spent(r, j)' <= Spent(r, j) /\ Allowed(r, j) = 0 /\ Allowed(r, j)' = 0
    <3>1. Spent(r, j)' = Spent(r, j) /\ Spent(r, j) \in Nat
      BY <1>1, SpentIs DEF Spent, Waiting
    <3>2. j \in Nat /\ j >= 1
      BY PlanIs
    <3>3. Allowed(r, j) = 0
      BY <1>7, <1>8, <3>2 DEF Allowed, At
    <3>4. Allowed(r, j)' = 0
      BY <1>6, <1>7, <3>2 DEF Allowed, At
    <3> QED
      BY <3>1, <3>3, <3>4
  <2> QED
    BY <1>1, <1>3, <2>1, ThriftyStays DEF RunnerInv
<1>14. RunnerInv(r)'
  BY <1>9, <1>10, <1>11, <1>12, <1>13 DEF RunnerInv
<1> QED
  BY <1>3, <1>4, <1>5, <1>14, StepOf

(* What comes back from a payload is the plan.                             *)
LEMMA PayloadIsPlan ==
    ASSUME NEW r \in Runners
    PROVE  [i \in DOMAIN Plan[r] |-> FromPayload(Plan[r][i])] = Plan[r]
<1>1. Plan[r] \in Seq(TaskSpec) /\ DOMAIN Plan[r] = 1 .. Len(Plan[r]) /\ Len(Plan[r]) \in Nat
  BY PlanIs
<1>2. \A i \in DOMAIN Plan[r] : FromPayload(Plan[r][i]) = Plan[r][i]
  BY PlanIs, PayloadKeeps
<1>3. [i \in DOMAIN Plan[r] |-> FromPayload(Plan[r][i])] = [i \in DOMAIN Plan[r] |-> Plan[r][i]]
  BY <1>2
<1>4. Plan[r] = [i \in DOMAIN Plan[r] |-> Plan[r][i]]
  BY <1>1
<1> QED
  BY <1>3, <1>4

LEMMA BuildKeeps ==
    ASSUME Inv, NEW r \in Runners, Construct(r) \/ Rehydrate(r)
    PROVE  Inv'
<1>1. /\ At(r, "new") /\ (tasks' = tasks \/ tasks' = [tasks EXCEPT ![r] = Plan[r]])
      /\ at' = [at EXCEPT ![r] = [at[r] EXCEPT !.pc = "task", !.i = 1]]
      /\ UNCHANGED <<fut, pool, inflight, executes, results>>
  <2>1. CASE Construct(r)
    BY <2>1 DEF Construct, At
  <2>2. CASE Rehydrate(r)
    BY <2>2, PayloadIsPlan DEF Rehydrate, At
  <2> QED
    BY <2>1, <2>2
<1> QED
  BY <1>1, Begins

LEMMA NextTaskKeeps ==
    ASSUME Inv, NEW r \in Runners, NextTask(r)
    PROVE  Inv'
<1>1. TypeOK /\ PoolInv /\ RunnerInv(r) /\ Whereabouts(r)
  BY DEF Inv, RunnerInv
<1>2. at[r].pc = "task" /\ UNCHANGED <<tasks, fut, pool, inflight, executes, results>>
  BY DEF NextTask, At
<1>3. PICK pc, m, n :
         /\ Moved(r, pc, at[r].i, m, n, at[r].error)
         /\ \/ pc = "returned"
            \/ pc = "attempt" /\ m = 1 /\ n = 1 /\ at[r].i <= Len(tasks[r])
  <2>1. CASE at[r].i > Len(tasks[r])
    <3>1. "returned" \in Pcs /\ Goto(r, "returned")
      BY <2>1 DEF NextTask, Pcs
    <3>2. Moved(r, "returned", at[r].i, at[r].round, at[r].attempt, at[r].error)
      BY <1>1, <3>1, GotoDoes
    <3> QED
      BY <3>2
  <2>2. CASE ~(at[r].i > Len(tasks[r]))
    <3> DEFINE q == [at[r] EXCEPT !.pc = "attempt", !.round = 1, !.attempt = 1]
    <3>1. Fields(q, "attempt", at[r].i, 1, 1, at[r].error)
      BY <1>1, PlaceTry DEF TypeOK
    <3>2. at' = [at EXCEPT ![r] = q]
      BY <2>2 DEF NextTask
    <3> HIDE DEF q
    <3>3. Moved(r, "attempt", at[r].i, 1, 1, at[r].error)
      BY <1>1, <3>1, <3>2, PlaceMoves
    <3>4. at[r].i \in Nat /\ Len(tasks[r]) \in Nat
      BY <1>1, PlaceIs, LenProperties DEF TypeOK
    <3>5. at[r].i <= Len(tasks[r])
      BY <2>2, <3>4
    <3> QED
      BY <3>3, <3>5
  <2> QED
    BY <2>1, <2>2
<1>4. TypeOK'
  BY <1>1, <1>2, <1>3 DEF TypeOK, Moved
<1>5. PoolInv'
  BY <1>1, <1>2, PoolStays
<1>6. Aside(r)
  BY <1>2, <1>3 DEF Aside, Same, Moved
<1>7. /\ at'[r].pc = pc /\ at'[r].i = at[r].i /\ at'[r].round = m /\ at'[r].attempt = n
      /\ P(r)' = P(r) /\ at[r].i \in Nat
  BY <1>1, <1>3, PlaceIs DEF Moved, P
<1>8. /\ pc \notin {"submit", "raised", "new", "inline", "register"} /\ pc \notin Flying
      /\ "task" \notin Body \cup {"raised"}
      /\ pc \in Body <=> pc = "attempt"
  BY <1>3 DEF Flying, Body
<1>9. pc = "attempt" => /\ at[r].i \in 1 .. Len(Plan[r]) /\ tasks[r] = Plan[r]
                        /\ Rounds(P(r)) \in Nat \ {0}
                        /\ Attempts(P(r)) \in Nat \ {0}
                        /\ m = 1 /\ n = 1
  <2> SUFFICES ASSUME pc = "attempt" PROVE /\ at[r].i \in 1 .. Len(Plan[r]) /\ tasks[r] = Plan[r]
                        /\ Rounds(P(r)) \in Nat \ {0}
                        /\ Attempts(P(r)) \in Nat \ {0}
                        /\ m = 1 /\ n = 1
    OBVIOUS
  <2>1. at[r].i >= 1 /\ at[r].i <= Len(tasks[r]) /\ m = 1 /\ n = 1
    BY <1>1, <1>2, <1>3 DEF Whereabouts, At
  <2>2. tasks[r] # <<>>
    BY <1>7, <2>1
  <2>3. tasks[r] = Plan[r]
    BY <1>1, <2>2 DEF TypeOK
  <2>4. at[r].i \in 1 .. Len(Plan[r])
    BY <1>7, <2>1, <2>3, PlanIs
  <2> QED
    BY <2>1, <2>3, <2>4, PlanIs, CountsAre DEF P
<1>10. Whereabouts(r)'
  BY <1>1, <1>2, <1>7, <1>8, <1>9 DEF Whereabouts, At
<1>11. Current(r)'
  BY <1>7, <1>8 DEF Current, At, Flying
<1>12. Owned(r)'
  <2>1. \A k \in 1 .. Len(fut[r]) :
           /\ fut[r][k].i \in 1 .. Len(Plan[r]) /\ fut[r][k].i <= at[r].i
           /\ fut[r][k].i < at[r].i
           /\ Plan[r][fut[r][k].i].round_timeout > 0
           /\ Plan[r][fut[r][k].i].executor # "none"
    BY <1>1, <1>2, <1>8 DEF RunnerInv, Owned
  <2> QED
    BY <1>2, <1>7, <2>1 DEF Owned
<1>13. Tracked(r)'
  <2>1. \A k \in 1 .. Len(fut[r]) : Undone(r, k) => inflight[<<r, fut[r][k].i>>] = k
    BY <1>1, <1>2 DEF RunnerInv, Tracked, At
  <2> QED
    BY <1>2, <1>7, <1>8, <2>1 DEF Tracked, Undone
<1>14. Joined(r)'
  <2>1. "task" \notin Flying
    BY DEF Flying
  <2> QED
    BY <1>1, <1>2, <1>7, <2>1 DEF RunnerInv, Joined, Undone
<1>15. Reported(r)'
  BY <1>1, <1>2 DEF RunnerInv, Reported
<1>16. Thrifty(r)'
  <2>1. ASSUME NEW j \in 1 .. Len(Plan[r])
        PROVE  /\ Spent(r, j)' <= Spent(r, j)
               /\ Allowed(r, j) \in Nat /\ Allowed(r, j)' = Allowed(r, j)
    <3>1. Spent(r, j)' = Spent(r, j) /\ Spent(r, j) \in Nat
      BY <1>1, <1>2, SpentIs DEF Spent, Waiting
    <3>2. j \in Nat /\ Rounds(Plan[r][j]) * Attempts(Plan[r][j]) \in Nat
      BY <1>1, PlanIs, AllowedIs
    <3>3. Allowed(r, j) = IF j < at[r].i THEN Rounds(Plan[r][j]) * Attempts(Plan[r][j]) ELSE 0
      BY <1>2, <1>8, <3>2 DEF Allowed, At
    <3>4. pc = "attempt" => Begun(r)' = 0
      <4> SUFFICES ASSUME pc = "attempt" PROVE Begun(r)' = 0
        OBVIOUS
      <4>1. Begun(r)' = (1 - 1) * Attempts(P(r)) + (1 - 1) + 0
        BY <1>7, <1>8, <1>9 DEF Begun
      <4>2. (1 - 1) * Attempts(P(r)) = 0
        BY <1>9
      <4> QED
        BY <4>1, <4>2
    <3>5. Allowed(r, j)' = IF j < at[r].i THEN Rounds(Plan[r][j]) * Attempts(Plan[r][j]) ELSE 0
      BY <1>7, <1>8, <3>2, <3>4 DEF Allowed, At
    <3> QED
      BY <3>1, <3>2, <3>3, <3>5
  <2>2. ASSUME NEW j \in 1 .. Len(Plan[r])
        PROVE  /\ Spent(r, j)' <= Spent(r, j)
               /\ Allowed(r, j) \in Nat /\ Allowed(r, j)' \in Nat
               /\ Allowed(r, j) <= Allowed(r, j)'
    BY <2>1
  <2> QED
    BY <1>1, <1>4, <2>2, ThriftyStays DEF RunnerInv
<1>17. RunnerInv(r)'
  BY <1>10, <1>11, <1>12, <1>13, <1>14, <1>15, <1>16 DEF RunnerInv
<1> QED
  BY <1>4, <1>5, <1>6, <1>17, StepOf

(* Between attempts what still runs has been settled.                      *)
LEMMA AttemptSettled ==
    ASSUME Inv, NEW r \in Runners, at[r].pc \in {"attempt", "inline"},
           UNCHANGED <<tasks, fut, pool, executes, inflight>>
    PROVE  Settled(r)
<1>1. TypeOK /\ Tracked(r) /\ Joined(r)
  BY DEF Inv, RunnerInv
<1>2. at[r].pc \notin Flying /\ ~At(r, "register")
  BY DEF Flying, At
<1>3. \A n \in 1 .. Len(fut[r]) : Undone(r, n) =>
         /\ inflight'[<<r, fut[r][n].i>>] = n
         /\ fut[r][n].st = "running" /\ Plan[r][fut[r][n].i].round_timeout_join > 0
  BY <1>1, <1>2 DEF Tracked, Joined
<1> QED
  BY <1>1, <1>3 DEF Settled, TypeOK

(* A task that does not need the pool has no futures.                      *)
LEMMA NoneInPool ==
    ASSUME Inv, NEW r \in Runners, P(r).round_timeout = 0 \/ P(r).executor = "none"
    PROVE  Real(r)
<1>1. Owned(r) /\ TypeOK
  BY DEF Inv, RunnerInv
<1>2. \A n \in 1 .. Len(fut[r]) : fut[r][n].i # at[r].i
  BY <1>1 DEF Owned, P
<1> QED
  BY <1>2 DEF Real

LEMMA NoExecutorKeeps ==
    ASSUME Inv, NEW r \in Runners, NoExecutor(r)
    PROVE  Inv'
<1>1. at[r].pc = "attempt" /\ at[r].pc \in Body
  BY DEF NoExecutor, At, Body
<1>2. T(r) = P(r)
  BY <1>1 DEF Inv, RunnerInv, Whereabouts, T, P
<1>3. Real(r)
  BY <1>2, NoneInPool DEF NoExecutor
<1>4. Settled(r)
  BY <1>1, AttemptSettled DEF NoExecutor
<1> QED
  BY <1>1, <1>3, <1>4, SucceededKeeps DEF NoExecutor

LEMMA InlineReturnsKeeps ==
    ASSUME Inv, NEW r \in Runners, InlineReturns(r)
    PROVE  Inv'
<1>1. at[r].pc = "inline" /\ at[r].pc \in Body
  BY DEF InlineReturns, At, Body
<1>2. Real(r)
  BY <1>1, NoneInPool DEF Inv, RunnerInv, Whereabouts, At
<1>3. Settled(r)
  BY <1>1, AttemptSettled DEF InlineReturns
<1> QED
  BY <1>1, <1>2, <1>3, SucceededKeeps, FailedKeeps DEF InlineReturns

(* The runner goes on with the attempt.                                    *)
GoesOn(r, pc) == \E e \in BOOLEAN : Moved(r, pc, at[r].i, at[r].round, at[r].attempt, e)

LEMMA GoesOnDoes ==
    ASSUME TypeOK, NEW r \in Runners, NEW pc \in Body, GoesOn(r, pc)
    PROVE  /\ at' \in [Runners -> Place] /\ \A s \in Runners \ {r} : at'[s] = at[s]
           /\ at'[r].pc = pc /\ at'[r].i = at[r].i /\ at'[r].round = at[r].round
           /\ at'[r].attempt = at[r].attempt /\ P(r)' = P(r)
BY DEF GoesOn, Moved, P

LEMMA GotoGoesOn ==
    ASSUME TypeOK, NEW r \in Runners, NEW pc \in Body, Goto(r, pc)
    PROVE  GoesOn(r, pc)
<1>1. pc \in Pcs
  BY DEF Body, Flying, Pcs
<1> QED
  BY <1>1, GotoDoes, PlaceIs DEF GoesOn

LEMMA WhereaboutsGoOn ==
    ASSUME TypeOK, NEW r \in Runners, Whereabouts(r), at[r].pc \in Body,
           NEW pc \in Body, GoesOn(r, pc), UNCHANGED <<tasks, results>>,
           pc = "inline" => P(r).round_timeout = 0
    PROVE  Whereabouts(r)'
<1>1. "new" \notin Body
  BY DEF Body, Flying
<1> QED
  BY <1>1, GoesOnDoes DEF Whereabouts, At

LEMMA BegunGoesOn ==
    ASSUME TypeOK, NEW r \in Runners, Whereabouts(r), at[r].pc \in Body,
           NEW pc \in Body, GoesOn(r, pc)
    PROVE  /\ Begun(r) \in Nat /\ Begun(r)' \in Nat
           /\ Begun(r)' = Begun(r)
                + (IF at[r].pc \in {"inline"} \cup Flying THEN 0 ELSE 1)
                - (IF pc \in {"inline"} \cup Flying THEN 0 ELSE 1)
<1> DEFINE A == Attempts(P(r))
           m == at[r].round
           n == at[r].attempt
<1>1. /\ A \in Nat \ {0} /\ m - 1 \in Nat /\ n - 1 \in Nat /\ n \in Nat
  <2>1. A \in Nat \ {0} /\ Rounds(P(r)) \in Nat \ {0}
    BY TriesAre
  <2>2. m \in 1 .. Rounds(P(r)) /\ n \in 1 .. A
    BY DEF Whereabouts
  <2> HIDE DEF A, m, n
  <2> QED
    BY <2>1, <2>2
<1>2. Begun(r) = (m - 1) * A + (n - 1) + (IF at[r].pc \in {"inline"} \cup Flying THEN 1 ELSE 0)
  BY DEF Begun
<1>3. Begun(r)' = (m - 1) * A + (n - 1) + (IF pc \in {"inline"} \cup Flying THEN 1 ELSE 0)
  BY GoesOnDoes DEF Begun
<1> HIDE DEF A, m, n
<1>4. (m - 1) * A \in Nat
  BY <1>1, Times
<1> DEFINE x == (m - 1) * A
<1> HIDE DEF x
<1>5. /\ x \in Nat
      /\ Begun(r) = x + (n - 1) + (IF at[r].pc \in {"inline"} \cup Flying THEN 1 ELSE 0)
      /\ Begun(r)' = x + (n - 1) + (IF pc \in {"inline"} \cup Flying THEN 1 ELSE 0)
  BY <1>2, <1>3, <1>4 DEF x
<1> QED
  BY <1>1, <1>5

LEMMA SpentStays ==
    ASSUME TypeOK, NEW r \in Runners, executes' = executes, fut' = fut, NEW d \in Nat
    PROVE  \A j \in 1 .. Len(Plan[r]) :
              Spent(r, j)' <= Spent(r, j) + (IF j = at[r].i THEN d ELSE 0)
<1> SUFFICES ASSUME NEW j \in 1 .. Len(Plan[r])
             PROVE  Spent(r, j)' <= Spent(r, j) + (IF j = at[r].i THEN d ELSE 0)
  OBVIOUS
<1>1. Spent(r, j)' = Spent(r, j) /\ Spent(r, j) \in Nat
  BY SpentIs DEF Spent, Waiting
<1> QED
  BY <1>1

LEMMA ReportedStays ==
    ASSUME NEW r \in Runners, Reported(r), fut'[r] = fut[r], results'[r] = results[r]
    PROVE  Reported(r)'
BY DEF Reported

LEMMA ExecuteInlineKeeps ==
    ASSUME Inv, NEW r \in Runners, ExecuteInline(r)
    PROVE  Inv'
<1>1. TypeOK /\ PoolInv /\ RunnerInv(r) /\ Whereabouts(r)
  BY DEF Inv, RunnerInv
<1>2. /\ at[r].pc = "attempt" /\ UNCHANGED <<tasks, fut, pool, inflight, results>>
      /\ executes' = [executes EXCEPT ![Id(r)] = @ + 1] /\ Goto(r, "inline")
  BY DEF ExecuteInline, At
<1>3. at[r].pc \in Body /\ "inline" \in Body /\ "inline" \notin Flying \cup {"submit", "register"}
      /\ at[r].pc \notin Flying \cup {"submit", "register", "inline"}
  BY <1>2 DEF Body, Flying
<1>4. GoesOn(r, "inline")
  BY <1>1, <1>2, <1>3, GotoGoesOn
<1>5. at[r].i \in 1 .. Len(Plan[r]) /\ Id(r) = <<r, at[r].i>> /\ Id(r) \in TaskIds /\ T(r) = P(r)
  BY <1>1, <1>3, PlanIs DEF Whereabouts, Id, T, P
<1>6. /\ executes' \in [TaskIds -> Nat] /\ executes'[Id(r)] = executes[Id(r)] + 1
      /\ \A id \in TaskIds \ {Id(r)} : executes'[id] = executes[id]
  <2> DEFINE x == Id(r)
  <2>1. executes \in [TaskIds -> Nat] /\ x \in TaskIds
        /\ executes' = [executes EXCEPT ![x] = executes[x] + 1]
    BY <1>1, <1>2, <1>5 DEF TypeOK
  <2> HIDE DEF x
  <2>2. /\ executes' \in [TaskIds -> Nat] /\ executes'[x] = executes[x] + 1
        /\ \A id \in TaskIds \ {x} : executes'[id] = executes[id]
    BY <2>1
  <2> QED
    BY <2>2 DEF x
<1>7. /\ at' \in [Runners -> Place] /\ \A s \in Runners \ {r} : at'[s] = at[s]
      /\ at'[r].pc = "inline" /\ at'[r].i = at[r].i /\ P(r)' = P(r)
  BY <1>1, <1>3, <1>4, GoesOnDoes
<1>8. TypeOK'
  BY <1>1, <1>2, <1>6, <1>7 DEF TypeOK
<1>9. PoolInv'
  BY <1>1, <1>2, PoolStays
<1>10. Aside(r)
  <2>1. ASSUME NEW s \in Runners \ {r}, NEW j \in 1 .. Len(Plan[s])
        PROVE  executes'[<<s, j>>] = executes[<<s, j>>]
    <3>1. <<s, j>> \in TaskIds /\ <<s, j>> # Id(r)
      BY <1>5, PlanIs
    <3> QED
      BY <1>6, <3>1
  <2> QED
    BY <1>2, <1>7, <2>1 DEF Aside, Same
<1>11. Whereabouts(r)'
  BY <1>1, <1>2, <1>3, <1>4, <1>5, WhereaboutsGoOn DEF ExecuteInline
<1>12. Current(r)'
  BY <1>3, <1>7 DEF Current, At, Flying
<1>13. Owned(r)'
  BY <1>1, <1>2, <1>3, <1>7 DEF RunnerInv, Owned
<1>14. Tracked(r)'
  BY <1>1, <1>2, <1>3, <1>7 DEF RunnerInv, Tracked, Undone, At
<1>15. Joined(r)'
  BY <1>1, <1>2, <1>3, <1>7 DEF RunnerInv, Joined, Undone
<1>16. Reported(r)'
  BY <1>1, <1>2, ReportedStays DEF RunnerInv
<1>17. Thrifty(r)'
  <2>1. \A j \in 1 .. Len(Plan[r]) :
           Spent(r, j)' <= Spent(r, j) + (IF j = at[r].i THEN 1 ELSE 0)
    <3> SUFFICES ASSUME NEW j \in 1 .. Len(Plan[r])
                 PROVE  Spent(r, j)' <= Spent(r, j) + (IF j = at[r].i THEN 1 ELSE 0)
      OBVIOUS
    <3>1. Waiting(r, j)' = Waiting(r, j)
      BY <1>2 DEF Waiting
    <3>2. executes[<<r, j>>] \in Nat /\ <<r, j>> \in TaskIds
      BY <1>1, PlanIs, SpentIs
    <3>3. executes'[<<r, j>>] = executes[<<r, j>>] + (IF j = at[r].i THEN 1 ELSE 0)
      BY <1>5, <1>6, <3>2
    <3> QED
      BY <3>1, <3>2, <3>3 DEF Spent
  <2>2. Begun(r) \in Nat /\ Begun(r)' \in Nat /\ Begun(r) + 1 <= Begun(r)'
    BY <1>1, <1>3, <1>4, BegunGoesOn
  <2> QED
    BY <1>1, <1>3, <1>7, <1>8, <2>1, <2>2, ThriftySame DEF RunnerInv
<1>18. RunnerInv(r)'
  BY <1>11, <1>12, <1>13, <1>14, <1>15, <1>16, <1>17 DEF RunnerInv
<1> QED
  BY <1>8, <1>9, <1>10, <1>18, StepOf

(* A step that changes _inflight for the task in progress only.            *)
LEMMA InflightSet ==
    ASSUME TypeOK, NEW r \in Runners, at[r].i \in 1 .. Len(Plan[r]), NEW x \in Nat,
           inflight' = [inflight EXCEPT ![Id(r)] = x]
    PROVE  /\ inflight' \in [TaskIds -> Nat] /\ inflight'[<<r, at[r].i>>] = x
           /\ \A j \in 1 .. Len(Plan[r]) : j # at[r].i => inflight'[<<r, j>>] = inflight[<<r, j>>]
           /\ \A s \in Runners \ {r} : \A j \in 1 .. Len(Plan[s]) :
                 inflight'[<<s, j>>] = inflight[<<s, j>>]
<1>1. Id(r) = <<r, at[r].i>> /\ Id(r) \in TaskIds
  BY PlanIs DEF Id
<1>2. inflight' \in [TaskIds -> Nat] /\ inflight'[Id(r)] = x
      /\ \A id \in TaskIds \ {Id(r)} : inflight'[id] = inflight[id]
  BY <1>1 DEF TypeOK
<1>3. ASSUME NEW s \in Runners, NEW j \in 1 .. Len(Plan[s]), <<s, j>> # Id(r)
      PROVE  inflight'[<<s, j>>] = inflight[<<s, j>>]
  <2>1. <<s, j>> \in TaskIds
    BY PlanIs
  <2> QED
    BY <1>2, <1>3, <2>1
<1> QED
  BY <1>1, <1>2, <1>3

LEMMA UndoneIs ==
    ASSUME TypeOK, NEW r \in Runners, NEW n \in 1 .. Len(fut[r])
    PROVE  (Undone(r, n) <=> ~done(r, n)) /\ (Undone(r, n) <=> fut[r][n].st \notin Done)
<1>1. fut[r][n].st \in {"queued", "running"} \cup Done
  BY FutureIs DEF TypeOK
<1> QED
  BY <1>1 DEF Undone, done, Done

LEMMA CheckInflightKeeps ==
    ASSUME Inv, NEW r \in Runners, CheckInflight(r)
    PROVE  Inv'
<1>1. TypeOK /\ PoolInv /\ RunnerInv(r) /\ Whereabouts(r)
  BY DEF Inv, RunnerInv
<1>2. /\ at[r].pc = "attempt" /\ UNCHANGED <<tasks, fut, pool, executes>>
      /\ T(r).round_timeout > 0 /\ T(r).executor # "none"
  BY DEF CheckInflight, At
<1>3. at[r].pc \in Body /\ "submit" \in Body /\ "submit" \notin Flying
      /\ at[r].pc \notin Flying \cup {"submit", "register", "inline"}
  BY <1>2 DEF Body, Flying
<1>4. at[r].i \in 1 .. Len(Plan[r]) /\ Id(r) = <<r, at[r].i>> /\ T(r) = P(r)
  BY <1>1, <1>3 DEF Whereabouts, Id, T, P
<1>5. CASE inflight[Id(r)] # 0 /\ ~done(r, inflight[Id(r)])
  <2>1. Failed(r) /\ inflight' = inflight
    BY <1>5 DEF CheckInflight
  <2> QED
    BY <1>2, <1>3, <2>1, AttemptSettled, FailedKeeps
<1>6. CASE ~(inflight[Id(r)] # 0 /\ ~done(r, inflight[Id(r)]))
  <2>1. Goto(r, "submit") /\ inflight' = [inflight EXCEPT ![Id(r)] = 0] /\ results' = results
    BY <1>6 DEF CheckInflight
  <2>2. GoesOn(r, "submit")
    BY <1>1, <1>3, <2>1, GotoGoesOn
  <2>3. /\ at' \in [Runners -> Place] /\ \A s \in Runners \ {r} : at'[s] = at[s]
        /\ at'[r].pc = "submit" /\ at'[r].i = at[r].i /\ P(r)' = P(r)
    BY <1>1, <1>3, <2>2, GoesOnDoes
  <2>4. /\ inflight' \in [TaskIds -> Nat] /\ inflight'[<<r, at[r].i>>] = 0
        /\ \A j \in 1 .. Len(Plan[r]) : j # at[r].i => inflight'[<<r, j>>] = inflight[<<r, j>>]
        /\ \A s \in Runners \ {r} : \A j \in 1 .. Len(Plan[s]) :
              inflight'[<<s, j>>] = inflight[<<s, j>>]
    BY <1>1, <1>4, <2>1, InflightSet
  <2>5. TypeOK' /\ PoolInv' /\ Aside(r)
    BY <1>1, <1>2, <2>1, <2>3, <2>4, PoolStays DEF TypeOK, Aside, Same
  <2>6. Whereabouts(r)'
    BY <1>1, <1>2, <1>3, <2>1, <2>2, WhereaboutsGoOn
  <2>7. Current(r)'
    BY <1>2, <1>3, <1>4, <2>3 DEF Current, At, Flying
  <2>8. Owned(r)'
    BY <1>1, <1>2, <1>3, <2>3 DEF RunnerInv, Owned
  <2>9. Tracked(r)'
    <3>1. ASSUME NEW n \in 1 .. Len(fut[r]), Undone(r, n)
          PROVE  inflight'[<<r, fut[r][n].i>>] = n
      <4>1. inflight[<<r, fut[r][n].i>>] = n /\ fut[r][n].i \in 1 .. Len(Plan[r])
        BY <1>1, <1>3, <3>1 DEF RunnerInv, Tracked, Owned, At
      <4>2. ~done(r, n) /\ n # 0
        BY <1>1, <3>1, UndoneIs
      <4>3. fut[r][n].i # at[r].i
        BY <1>4, <1>6, <4>1, <4>2
      <4> QED
        BY <2>4, <4>1, <4>3
    <3> QED
      BY <1>2, <1>3, <2>3, <2>4, <3>1 DEF Tracked, Undone, Id
  <2>10. Joined(r)'
    BY <1>1, <1>2, <1>3, <2>3 DEF RunnerInv, Joined, Undone
  <2>11. Reported(r)'
    BY <1>1, <1>2, <2>1, ReportedStays DEF RunnerInv
  <2>12. Thrifty(r)'
    <3>1. Begun(r) \in Nat /\ Begun(r)' \in Nat /\ Begun(r) + 0 <= Begun(r)'
      BY <1>1, <1>3, <2>2, BegunGoesOn
    <3>2. \A j \in 1 .. Len(Plan[r]) :
             Spent(r, j)' <= Spent(r, j) + (IF j = at[r].i THEN 0 ELSE 0)
      BY <1>1, <1>2, SpentStays
    <3> QED
      BY <1>1, <1>3, <2>3, <2>5, <3>1, <3>2, ThriftySame DEF RunnerInv
  <2>13. RunnerInv(r)'
    BY <2>6, <2>7, <2>8, <2>9, <2>10, <2>11, <2>12 DEF RunnerInv
  <2> QED
    BY <2>5, <2>13, StepOf
<1> QED
  BY <1>5, <1>6

-----------------------------------------------------------------------------
(* The steps of an attempt in the pool.                                    *)
LEMMA SubmitKeeps ==
    ASSUME Inv, NEW r \in Runners, Submit(r)
    PROVE  Inv'
<1> DEFINE k == Len(fut[r])
           new == [i |-> at[r].i, st |-> "queued"]
<1>1. TypeOK /\ PoolInv /\ RunnerInv(r) /\ Whereabouts(r)
  BY DEF Inv, RunnerInv
<1>2. /\ at[r].pc = "submit" /\ UNCHANGED <<tasks, inflight, executes, results>>
      /\ fut' = [fut EXCEPT ![r] = Append(@, new)]
      /\ pool' = Append(pool, <<r, k + 1>>) /\ Goto(r, "register")
  BY DEF Submit, At
<1>3. /\ at[r].pc \in Body /\ "register" \in Body /\ "register" \in Flying
      /\ at[r].pc \notin Flying \cup {"register", "inline"}
      /\ "register" \notin {"recheck", "join", "finally", "submit"}
  BY <1>2 DEF Body, Flying
<1>4. at[r].i \in 1 .. Len(Plan[r]) /\ at[r].i \in Nat /\ Id(r) = <<r, at[r].i>>
  BY <1>1, <1>3, PlaceIs DEF Whereabouts, Id
<1>5. GoesOn(r, "register")
  BY <1>1, <1>2, <1>3, GotoGoesOn
<1>6. /\ at' \in [Runners -> Place] /\ \A s \in Runners \ {r} : at'[s] = at[s]
      /\ at'[r].pc = "register" /\ at'[r].i = at[r].i /\ P(r)' = P(r)
  BY <1>1, <1>3, <1>5, GoesOnDoes
<1>7. new \in Future /\ new.i = at[r].i /\ new.st = "queued"
  BY <1>4 DEF Future
<1>8. fut[r] \in Seq(Future) /\ k \in Nat
  BY <1>1, FutureIs DEF TypeOK
<1> HIDE DEF new
<1>9. /\ fut' \in [Runners -> Seq(Future)] /\ fut'[r] = Append(fut[r], new)
      /\ \A s \in Runners \ {r} : fut'[s] = fut[s]
  BY <1>1, <1>2, <1>7, <1>8, AppendProperties DEF TypeOK
<1>10. /\ Len(fut'[r]) = k + 1 /\ fut'[r][k + 1] = new
       /\ \A n \in 1 .. k : fut'[r][n] = fut[r][n]
  BY <1>7, <1>8, <1>9, AppendProperties
<1>11. \A n \in 1 .. Len(fut'[r]) : n \in 1 .. k \/ n = k + 1
  BY <1>8, <1>10
<1> HIDE DEF k
<1>12. /\ pool \in Seq(Runners \X Nat) /\ <<r, k + 1>> \in Runners \X Nat /\ Len(pool) \in Nat
       /\ pool' \in Seq(Runners \X Nat) /\ Len(pool') = Len(pool) + 1
       /\ pool'[Len(pool) + 1] = <<r, k + 1>>
       /\ \A a \in 1 .. Len(pool) : pool'[a] = pool[a] /\ pool[a] \in Runners \X Nat
  <2>1. pool \in Seq(Runners \X Nat) /\ <<r, k + 1>> \in Runners \X Nat
    BY <1>1, <1>8 DEF TypeOK
  <2> QED
    BY <1>2, <2>1, AppendProperties, LenProperties, ElementOfSeq
<1>13. TypeOK'
  BY <1>1, <1>2, <1>6, <1>9, <1>12 DEF TypeOK
<1>14. Aside(r)
  BY <1>2, <1>6, <1>9 DEF Aside, Same
<1>15. PoolInv'
  <2>1. \A a \in 1 .. Len(pool') : a \in 1 .. Len(pool) \/ a = Len(pool) + 1
    BY <1>12
  <2>2. ASSUME NEW a \in 1 .. Len(pool)
        PROVE  /\ pool'[a] = pool[a] /\ pool[a][1] \in Runners
               /\ pool[a][2] \in 1 .. Len(fut'[pool[a][1]])
               /\ fut'[pool[a][1]][pool[a][2]].st \in {"queued", "cancelled"}
               /\ pool[a] # <<r, k + 1>>
    <3>1. /\ pool'[a] = pool[a] /\ pool[a][1] \in Runners
          /\ pool[a][2] \in 1 .. Len(fut[pool[a][1]])
          /\ fut[pool[a][1]][pool[a][2]].st \in {"queued", "cancelled"}
      BY <1>1, <1>12 DEF PoolInv
    <3>2. CASE pool[a][1] = r
      <4>1. pool[a][2] \in 1 .. k
        BY <3>1, <3>2 DEF k
      <4> QED
        BY <1>8, <1>10, <3>1, <3>2, <4>1, SMTT(20)
    <3>3. CASE pool[a][1] # r
      BY <1>9, <3>1, <3>3
    <3> QED
      BY <3>2, <3>3
  <2>3. ASSUME NEW a \in 1 .. Len(pool')
        PROVE  /\ pool'[a][1] \in Runners /\ pool'[a][2] \in 1 .. Len(fut'[pool'[a][1]])
               /\ fut'[pool'[a][1]][pool'[a][2]].st \in {"queued", "cancelled"}
    <3>1. CASE a \in 1 .. Len(pool)
      BY <2>2, <3>1
    <3>2. CASE a = Len(pool) + 1
      <4>1. pool'[a][1] = r /\ pool'[a][2] = k + 1 /\ k + 1 \in 1 .. Len(fut'[r])
        BY <1>8, <1>10, <1>12, <3>2
      <4> QED
        BY <1>7, <1>10, <4>1
    <3> QED
      BY <2>1, <3>1, <3>2
  <2>4. ASSUME NEW a \in 1 .. Len(pool'), NEW b \in 1 .. Len(pool'), pool'[a] = pool'[b]
        PROVE  a = b
    <3>1. CASE a \in 1 .. Len(pool) /\ b \in 1 .. Len(pool)
      <4>1. pool[a] = pool[b]
        BY <2>2, <2>4, <3>1
      <4> QED
        BY <1>1, <3>1, <4>1 DEF PoolInv
    <3>2. CASE a = Len(pool) + 1 /\ b \in 1 .. Len(pool)
      BY <1>12, <2>2, <2>4, <3>2
    <3>3. CASE a \in 1 .. Len(pool) /\ b = Len(pool) + 1
      BY <1>12, <2>2, <2>4, <3>3
    <3> QED
      BY <2>1, <3>1, <3>2, <3>3
  <2> QED
    BY <2>3, <2>4 DEF PoolInv
<1>16. Whereabouts(r)'
  BY <1>1, <1>2, <1>3, <1>5, WhereaboutsGoOn
<1>17. P(r).round_timeout > 0 /\ P(r).executor # "none"
  BY <1>1, <1>2 DEF RunnerInv, Current
<1>18. Current(r)'
  BY <1>3, <1>6, <1>7, <1>8, <1>10, <1>17 DEF Current, At
<1>19. Owned(r)'
  <2> SUFFICES ASSUME NEW n \in 1 .. Len(fut'[r])
               PROVE  /\ fut'[r][n].i \in 1 .. Len(Plan[r]) /\ fut'[r][n].i <= at[r].i
                      /\ Plan[r][fut'[r][n].i].round_timeout > 0
                      /\ Plan[r][fut'[r][n].i].executor # "none"
    BY <1>3, <1>6 DEF Owned
  <2>1. CASE n \in 1 .. k
    BY <1>1, <1>10, <2>1 DEF RunnerInv, Owned, k
  <2>2. CASE n = k + 1
    <3>1. fut'[r][n].i = at[r].i
      BY <1>7, <1>10, <2>2
    <3> QED
      BY <1>4, <1>17, <3>1 DEF P
  <2> QED
    BY <1>11, <2>1, <2>2
<1>20. Tracked(r)'
  <2>1. ASSUME NEW n \in 1 .. Len(fut'[r]), Undone(r, n)'
        PROVE  inflight[<<r, fut'[r][n].i>>] = n \/ n = Len(fut'[r])
    <3>1. CASE n \in 1 .. k
      <4>1. Undone(r, n) /\ fut'[r][n] = fut[r][n] /\ n \in 1 .. Len(fut[r])
        BY <1>10, <2>1, <3>1 DEF Undone, k
      <4>2. ~At(r, "register")
        BY <1>2 DEF At
      <4> QED
        BY <1>1, <4>1, <4>2 DEF RunnerInv, Tracked
    <3> QED
      BY <1>10, <1>11, <3>1
  <2>2. inflight[<<r, at[r].i>>] = 0
    BY <1>1, <1>2, <1>4 DEF RunnerInv, Tracked
  <2> QED
    BY <1>2, <1>3, <1>6, <2>1, <2>2 DEF Tracked, Id, At
<1>21. Joined(r)'
  <2> SUFFICES ASSUME NEW n \in 1 .. Len(fut'[r]), Undone(r, n)', n # k + 1
               PROVE  fut'[r][n].st = "running" /\ Plan[r][fut'[r][n].i].round_timeout_join > 0
    BY <1>3, <1>6, <1>10 DEF Joined
  <2>1. n \in 1 .. Len(fut[r]) /\ Undone(r, n) /\ fut'[r][n] = fut[r][n]
    BY <1>10, <1>11 DEF Undone, k
  <2> QED
    BY <1>1, <1>3, <2>1 DEF RunnerInv, Joined
<1>22. Reported(r)'
  <2>1. ASSUME NEW j \in 1 .. Len(results[r])
        PROVE  j # at[r].i
    BY <1>1, <1>3, <1>4 DEF Whereabouts, At, Body, Flying
  <2> SUFFICES ASSUME NEW j \in 1 .. Len(results[r]), results[r][j] = "value"
               PROVE  \/ \A n \in 1 .. Len(fut'[r]) : fut'[r][n].i # j
                      \/ \E n \in 1 .. Len(fut'[r]) :
                            /\ fut'[r][n].i = j /\ fut'[r][n].st = "ok"
                            /\ \A m \in 1 .. Len(fut'[r]) : fut'[r][m].i = j => m <= n
    BY <1>2 DEF Reported
  <2>2. fut'[r][k + 1].i # j
    BY <1>7, <1>10, <2>1
  <2>3. CASE \A n \in 1 .. Len(fut[r]) : fut[r][n].i # j
    <3>1. \A n \in 1 .. k : fut'[r][n].i # j
      BY <1>10, <2>3 DEF k
    <3> QED
      BY <1>11, <2>2, <3>1
  <2>4. CASE \E n \in 1 .. Len(fut[r]) :
                /\ fut[r][n].i = j /\ fut[r][n].st = "ok"
                /\ \A m \in 1 .. Len(fut[r]) : fut[r][m].i = j => m <= n
    <3>1. PICK n \in 1 .. k : /\ fut'[r][n].i = j /\ fut'[r][n].st = "ok"
                              /\ \A m \in 1 .. k : fut'[r][m].i = j => m <= n
      BY <1>10, <2>4 DEF k
    <3>2. n \in 1 .. Len(fut'[r])
      BY <1>8, <1>10
    <3>3. \A m \in 1 .. Len(fut'[r]) : fut'[r][m].i = j => m <= n
      BY <1>11, <2>2, <3>1
    <3> QED
      BY <3>1, <3>2, <3>3
  <2> QED
    BY <1>1, <2>3, <2>4 DEF RunnerInv, Reported
<1>23. Thrifty(r)'
  <2>1. \A j \in 1 .. Len(Plan[r]) :
           Spent(r, j)' <= Spent(r, j) + (IF j = at[r].i THEN 1 ELSE 0)
    <3> SUFFICES ASSUME NEW j \in 1 .. Len(Plan[r])
                 PROVE  Spent(r, j)' <= Spent(r, j) + (IF j = at[r].i THEN 1 ELSE 0)
      OBVIOUS
    <3>1. executes[<<r, j>>] \in Nat /\ executes' = executes
      BY <1>1, <1>2, SpentIs
    <3>2. j # at[r].i => (Waiting(r, j)' => Waiting(r, j))
      <4> SUFFICES ASSUME j # at[r].i, NEW n \in 1 .. Len(fut'[r]),
                          fut'[r][n].i = j, fut'[r][n].st = "queued"
                   PROVE  Waiting(r, j)
        BY DEF Waiting
      <4>1. n # k + 1
        BY <1>7, <1>10
      <4>2. n \in 1 .. Len(fut[r]) /\ fut'[r][n] = fut[r][n]
        BY <1>10, <1>11, <4>1 DEF k
      <4> QED
        BY <4>2 DEF Waiting
    <3> QED
      BY <3>1, <3>2 DEF Spent
  <2>2. Begun(r) \in Nat /\ Begun(r)' \in Nat /\ Begun(r) + 1 <= Begun(r)'
    BY <1>1, <1>3, <1>5, BegunGoesOn
  <2> QED
    BY <1>1, <1>3, <1>6, <1>13, <2>1, <2>2, ThriftySame DEF RunnerInv
<1>24. RunnerInv(r)'
  BY <1>16, <1>18, <1>19, <1>20, <1>21, <1>22, <1>23 DEF RunnerInv
<1> QED
  BY <1>13, <1>14, <1>15, <1>24, StepOf

(* A future is in the air before and after the step.                       *)
LEMMA FlyingMoves ==
    ASSUME Inv, NEW r \in Runners, at[r].pc \in Flying, NEW pc \in Flying \ {"register"},
           GoesOn(r, pc), UNCHANGED <<tasks, fut, pool, executes, results>>,
           inflight' \in [TaskIds -> Nat],
           \A s \in Runners \ {r} : \A j \in 1 .. Len(Plan[s]) :
              inflight'[<<s, j>>] = inflight[<<s, j>>],
           Current(r)', Tracked(r)'
    PROVE  Inv'
<1>1. TypeOK /\ PoolInv /\ RunnerInv(r) /\ Whereabouts(r)
  BY DEF Inv, RunnerInv
<1>2. at[r].pc \in Body /\ pc \in Body /\ pc # "inline"
  BY DEF Body, Flying
<1>3. /\ at' \in [Runners -> Place] /\ \A s \in Runners \ {r} : at'[s] = at[s]
      /\ at'[r].pc = pc /\ at'[r].i = at[r].i /\ P(r)' = P(r)
  BY <1>1, <1>2, GoesOnDoes
<1>4. TypeOK'
  BY <1>1, <1>3 DEF TypeOK
<1>5. PoolInv' /\ Aside(r)
  BY <1>1, <1>3, PoolStays DEF Aside, Same
<1>6. Whereabouts(r)'
  BY <1>1, <1>2, WhereaboutsGoOn
<1>7. Owned(r)'
  BY <1>1, <1>2, <1>3 DEF RunnerInv, Owned
<1>8. Joined(r)'
  BY <1>1, <1>3 DEF RunnerInv, Joined, Undone
<1>9. Reported(r)'
  BY <1>1, ReportedStays DEF RunnerInv
<1>10. Thrifty(r)'
  <2>1. Begun(r) \in Nat /\ Begun(r)' \in Nat /\ Begun(r) + 0 <= Begun(r)'
    BY <1>1, <1>2, BegunGoesOn
  <2>2. \A j \in 1 .. Len(Plan[r]) :
           Spent(r, j)' <= Spent(r, j) + (IF j = at[r].i THEN 0 ELSE 0)
    BY <1>1, SpentStays
  <2> QED
    BY <1>1, <1>2, <1>3, <1>4, <2>1, <2>2, ThriftySame DEF RunnerInv
<1>11. RunnerInv(r)'
  BY <1>6, <1>7, <1>8, <1>9, <1>10 DEF RunnerInv
<1> QED
  BY <1>4, <1>5, <1>11, StepOf

LEMMA RegisterFutureKeeps ==
    ASSUME Inv, NEW r \in Runners, RegisterFuture(r)
    PROVE  Inv'
<1>1. TypeOK /\ RunnerInv(r) /\ Whereabouts(r) /\ Current(r) /\ Tracked(r) /\ Owned(r)
  BY DEF Inv, RunnerInv
<1>2. /\ at[r].pc = "register" /\ UNCHANGED <<tasks, fut, pool, executes, results>>
      /\ inflight' = [inflight EXCEPT ![Id(r)] = Len(fut[r])] /\ Goto(r, "wait")
  BY DEF RegisterFuture, At
<1>3. /\ at[r].pc \in Flying /\ at[r].pc \in Body /\ "wait" \in Body /\ "wait" \in Flying \ {"register"}
      /\ "wait" \notin {"recheck", "join", "finally", "submit"}
  BY <1>2 DEF Body, Flying
<1>4. GoesOn(r, "wait")
  BY <1>1, <1>2, <1>3, GotoGoesOn
<1>5. at'[r].pc = "wait" /\ at'[r].i = at[r].i /\ P(r)' = P(r)
  BY <1>1, <1>3, <1>4, GoesOnDoes
<1>6. at[r].i \in 1 .. Len(Plan[r]) /\ Len(fut[r]) \in Nat
  BY <1>1, <1>3, FutureIs DEF Whereabouts, TypeOK
<1>7. /\ inflight' \in [TaskIds -> Nat] /\ inflight'[<<r, at[r].i>>] = Len(fut[r])
      /\ \A j \in 1 .. Len(Plan[r]) : j # at[r].i => inflight'[<<r, j>>] = inflight[<<r, j>>]
      /\ \A s \in Runners \ {r} : \A j \in 1 .. Len(Plan[s]) :
            inflight'[<<s, j>>] = inflight[<<s, j>>]
  BY <1>1, <1>2, <1>6, InflightSet
<1>8. Len(fut[r]) > 0 /\ fut[r][Len(fut[r])].i = at[r].i
  BY <1>1, <1>3 DEF Current
<1>9. Current(r)'
  BY <1>1, <1>2, <1>3, <1>5, <1>8 DEF Current, At
<1>10. Tracked(r)'
  <2>1. ASSUME NEW n \in 1 .. Len(fut[r]), Undone(r, n)
        PROVE  inflight'[<<r, fut[r][n].i>>] = n
    <3>1. CASE n = Len(fut[r])
      BY <1>7, <1>8, <3>1
    <3>2. CASE n # Len(fut[r])
      <4>1. inflight[<<r, fut[r][n].i>>] = n /\ fut[r][n].i \in 1 .. Len(Plan[r]) /\ n # 0
        BY <1>1, <2>1, <3>2 DEF Tracked, Owned
      <4>2. inflight[<<r, at[r].i>>] = 0
        BY <1>1, <1>2 DEF Tracked, Id
      <4>3. fut[r][n].i # at[r].i
        BY <4>1, <4>2
      <4> QED
        BY <1>7, <4>1, <4>3
    <3> QED
      BY <3>1, <3>2
  <2> QED
    BY <1>2, <1>3, <1>5, <1>7, <2>1 DEF Tracked, Undone, Id
<1> QED
  BY <1>2, <1>3, <1>4, <1>7, <1>9, <1>10, FlyingMoves

LEMMA TrackedFlies ==
    ASSUME TypeOK, NEW r \in Runners, at[r].pc \in Flying \ {"register"}, Tracked(r),
           NEW pc \in Flying \ {"register"}, GoesOn(r, pc), UNCHANGED <<fut, inflight>>
    PROVE  Tracked(r)'
<1>1. pc \in Body /\ "submit" \notin Flying
  BY DEF Body, Flying
<1>2. at'[r].pc = pc /\ at'[r].i = at[r].i
  BY <1>1, GoesOnDoes
<1> QED
  BY <1>1, <1>2 DEF Tracked, Undone, Id, At

LEMMA LookKeeps ==
    ASSUME Inv, NEW r \in Runners, at[r].pc \in Flying \ {"register"},
           NEW pc \in Flying \ {"register"}, GoesOn(r, pc), Current(r)',
           UNCHANGED <<tasks, fut, pool, inflight, executes, results>>
    PROVE  Inv'
<1>1. TypeOK /\ Tracked(r)
  BY DEF Inv, RunnerInv
<1>2. Tracked(r)'
  BY <1>1, TrackedFlies
<1> QED
  BY <1>1, <1>2, FlyingMoves DEF TypeOK

LEMMA LeaveGoesOn ==
    ASSUME TypeOK, NEW r \in Runners, NEW e \in BOOLEAN, Leave(r, e)
    PROVE  GoesOn(r, "finally") /\ at'[r].error = e
BY LeaveDoes DEF GoesOn, Moved

(* The attempt ends with a result that is there.                           *)
LEMMA LeaveCurrent ==
    ASSUME TypeOK, NEW r \in Runners, Current(r), at[r].pc \in Flying, fut' = fut,
           NEW e \in BOOLEAN, Leave(r, e),
           e = FALSE => F(r).st = "ok",
           e = TRUE => \/ F(r).st \in Done
                       \/ F(r).st = "running" /\ P(r).round_timeout_join > 0
    PROVE  Current(r)'
<1>1. GoesOn(r, "finally") /\ at'[r].error = e /\ "finally" \in Body /\ "finally" \in Flying
  BY LeaveGoesOn DEF Body, Flying
<1>2. at'[r].pc = "finally" /\ at'[r].i = at[r].i /\ P(r)' = P(r)
  BY <1>1, GoesOnDoes
<1>3. F(r) = fut[r][Len(fut[r])]
  BY LastIs DEF TypeOK
<1> QED
  BY <1>1, <1>2, <1>3 DEF Current, At

LEMMA WaitsKeep ==
    ASSUME Inv, NEW r \in Runners,
           Wait(r) \/ Timeout(r) \/ DoneAfterTimeout(r) \/ Join(r)
    PROVE  Inv'
<1>1. TypeOK /\ Whereabouts(r) /\ Current(r) /\ F(r) = fut[r][Len(fut[r])]
  BY LastIs DEF Inv, RunnerInv, TypeOK
<1>2. UNCHANGED <<tasks, fut, pool, inflight, executes, results>>
  BY DEF Wait, Timeout, DoneAfterTimeout, Join
<1>3. at[r].pc \in {"wait", "timeout", "recheck", "join"}
  BY DEF Wait, Timeout, DoneAfterTimeout, Join, At
<1>4. at[r].pc \in Flying \ {"register"} /\ at[r].pc \in Body /\ Flying \subseteq Body
      /\ {"finally", "timeout", "cancel", "join"} \subseteq Flying \ {"register"}
  BY <1>3 DEF Flying, Body
<1>5. T(r) = P(r) /\ Len(fut[r]) \in Nat /\ Len(fut[r]) > 0
  BY <1>1, <1>4, FutureIs DEF Whereabouts, T, P, Current, TypeOK
<1>6. F(r).st \in {"queued", "running"} \cup Done
  BY <1>1, <1>5, FutureIs DEF TypeOK
<1>7. ASSUME NEW e \in BOOLEAN, Leave(r, e), e = FALSE => F(r).st = "ok",
             e = TRUE => \/ F(r).st \in Done
                         \/ F(r).st = "running" /\ P(r).round_timeout_join > 0
      PROVE  Inv'
  <2>1. GoesOn(r, "finally")
    BY <1>1, <1>7, LeaveGoesOn
  <2>2. Current(r)'
    BY <1>1, <1>2, <1>4, <1>7, LeaveCurrent
  <2> QED
    BY <1>2, <1>4, <2>1, <2>2, LookKeeps
<1>8. ASSUME NEW pc \in {"timeout", "cancel", "join"}, Goto(r, pc),
             pc = "join" => F(r).st # "queued"
      PROVE  Inv'
  <2>1. GoesOn(r, pc) /\ pc \in Flying \ {"register"} /\ pc \in Body
    BY <1>1, <1>4, <1>8, GotoGoesOn
  <2>2. at'[r].pc = pc /\ at'[r].i = at[r].i /\ P(r)' = P(r)
    BY <1>1, <2>1, GoesOnDoes
  <2>3. Current(r)'
    BY <1>1, <1>2, <1>4, <1>8, <2>1, <2>2 DEF Current, At
  <2> QED
    BY <1>2, <1>4, <2>1, <2>3, LookKeeps
<1>9. CASE Wait(r)
  <2>1. F(r).st \in Done /\ Leave(r, F(r).st # "ok")
    BY <1>9 DEF Wait
  <2> DEFINE e == F(r).st # "ok"
  <2>2. e \in BOOLEAN /\ Leave(r, e) /\ (e = FALSE => F(r).st = "ok") /\ F(r).st \in Done
    BY <2>1
  <2> HIDE DEF e
  <2> QED
    BY <1>7, <2>2
<1>10. CASE Timeout(r)
  BY <1>8, <1>10 DEF Timeout
<1>11. CASE DoneAfterTimeout(r)
  <2>1. CASE F(r).st \in Done
    <3> DEFINE e == F(r).st # "ok"
    <3>1. e \in BOOLEAN /\ Leave(r, e) /\ (e = FALSE => F(r).st = "ok")
      BY <1>11, <2>1 DEF DoneAfterTimeout
    <3> HIDE DEF e
    <3> QED
      BY <1>7, <2>1, <3>1
  <2>2. CASE F(r).st \notin Done
    <3>1. CASE at[r].pc = "timeout"
      <4>1. Goto(r, "cancel")
        BY <1>11, <2>2, <3>1 DEF DoneAfterTimeout, At
      <4> QED
        BY <1>8, <4>1
    <3>2. CASE at[r].pc # "timeout"
      <4>1. Goto(r, "join") /\ at[r].pc = "recheck"
        BY <1>11, <2>2, <3>2 DEF DoneAfterTimeout, At
      <4>2. F(r).st # "queued"
        BY <1>1, <4>1 DEF Current
      <4> QED
        BY <1>8, <4>1, <4>2
    <3> QED
      BY <3>1, <3>2
  <2> QED
    BY <2>1, <2>2
<1>12. CASE Join(r)
  <2>1. Leave(r, TRUE) /\ at[r].pc = "join"
        /\ (F(r).st \in Done \/ P(r).round_timeout_join > 0)
    BY <1>5, <1>12 DEF Join, At
  <2>2. F(r).st # "queued"
    BY <1>1, <2>1 DEF Current
  <2>3. \/ F(r).st \in Done
        \/ F(r).st = "running" /\ P(r).round_timeout_join > 0
    BY <1>6, <2>1, <2>2
  <2> QED
    BY <1>7, <2>1, <2>3
<1> QED
  BY <1>9, <1>10, <1>11, <1>12

-----------------------------------------------------------------------------
(* A future changes its state.                                             *)
StSet(r, n, x) ==
    /\ fut' \in [Runners -> Seq(Future)] /\ \A s \in Runners \ {r} : fut'[s] = fut[s]
    /\ Len(fut'[r]) = Len(fut[r]) /\ fut'[r][n].st = x
    /\ \A m \in 1 .. Len(fut[r]) : /\ fut'[r][m].i = fut[r][m].i
                                   /\ m # n => fut'[r][m].st = fut[r][m].st

LEMMA SetFut ==
    ASSUME TypeOK, NEW r \in Runners, NEW n \in 1 .. Len(fut[r]),
           NEW x \in {"queued", "running"} \cup Done,
           fut' = [fut EXCEPT ![r][n].st = x]
    PROVE  StSet(r, n, x)
<1> DEFINE q == fut[r]
           e == [q[n] EXCEPT !.st = x]
           w == [q EXCEPT ![n] = e]
<1>1. fut \in [Runners -> Seq(Future)] /\ q \in Seq(Future) /\ q[n] \in Future
  BY FutureIs DEF TypeOK
<1>2. e \in Future /\ e.i = q[n].i /\ e.st = x
  BY <1>1 DEF Future
<1>3. fut' = [fut EXCEPT ![r] = w]
  OBVIOUS
<1> HIDE DEF e, q
<1>4. /\ w \in Seq(Future) /\ Len(w) = Len(q)
      /\ \A m \in 1 .. Len(q) : w[m] = IF m = n THEN e ELSE q[m]
  BY <1>1, <1>2, ExceptSeq DEF q
<1> HIDE DEF w
<1>5. fut' \in [Runners -> Seq(Future)] /\ fut'[r] = w /\ \A s \in Runners \ {r} : fut'[s] = fut[s]
  BY <1>1, <1>3, <1>4
<1>6. \A m \in 1 .. Len(q) : w[m].i = q[m].i /\ (m # n => w[m].st = q[m].st)
  BY <1>2, <1>4
<1>7. w[n].st = x /\ n \in 1 .. Len(q)
  BY <1>2, <1>4 DEF q
<1> QED
  BY <1>4, <1>5, <1>6, <1>7 DEF StSet, q

LEMMA CancelKeeps ==
    ASSUME Inv, NEW r \in Runners, CancelFuture(r)
    PROVE  Inv'
<1> DEFINE k == Len(fut[r])
<1>1. /\ TypeOK /\ PoolInv /\ RunnerInv(r) /\ Whereabouts(r) /\ Current(r) /\ Tracked(r)
      /\ Owned(r) /\ Joined(r) /\ F(r) = fut[r][k]
  BY LastIs DEF Inv, RunnerInv, TypeOK
<1>2. at[r].pc = "cancel" /\ UNCHANGED <<tasks, pool, executes, results>>
  BY DEF CancelFuture, At
<1>3. /\ at[r].pc \in Flying \ {"register"} /\ at[r].pc \in Flying /\ at[r].pc \in Body
      /\ {"finally", "recheck"} \subseteq (Flying \ {"register"}) \cap Body
      /\ "submit" \notin Flying
  BY <1>2 DEF Flying, Body
<1>4. at[r].i \in 1 .. Len(Plan[r]) /\ k \in Nat /\ k > 0 /\ k \in 1 .. k /\ fut[r][k].i = at[r].i
  BY <1>1, <1>3, FutureIs DEF Whereabouts, Current, TypeOK
<1>5. CASE F(r).st # "queued"
  <2>1. Goto(r, "recheck") /\ UNCHANGED <<fut, inflight>>
    BY <1>5 DEF CancelFuture
  <2>2. GoesOn(r, "recheck")
    BY <1>1, <1>3, <2>1, GotoGoesOn
  <2>3. at'[r].pc = "recheck" /\ at'[r].i = at[r].i /\ P(r)' = P(r)
    BY <1>1, <1>3, <2>2, GoesOnDoes
  <2>4. Current(r)'
    BY <1>1, <1>3, <1>5, <2>1, <2>3 DEF Current, At
  <2> QED
    BY <1>2, <1>3, <2>1, <2>2, <2>4, LookKeeps
<1>6. CASE F(r).st = "queued"
  <2>1. /\ fut' = [fut EXCEPT ![r][k].st = "cancelled"]
        /\ inflight' = [inflight EXCEPT ![Id(r)] = 0] /\ Leave(r, TRUE)
    BY <1>6 DEF CancelFuture
  <2>2. StSet(r, k, "cancelled")
    BY <1>1, <1>4, <2>1, SetFut DEF Done
  <2>3. GoesOn(r, "finally") /\ at'[r].error = TRUE
    BY <1>1, <2>1, LeaveGoesOn
  <2>4. /\ at' \in [Runners -> Place] /\ \A s \in Runners \ {r} : at'[s] = at[s]
        /\ at'[r].pc = "finally" /\ at'[r].i = at[r].i /\ P(r)' = P(r)
    BY <1>1, <1>3, <2>3, GoesOnDoes
  <2>5. /\ inflight' \in [TaskIds -> Nat] /\ inflight'[<<r, at[r].i>>] = 0
        /\ \A j \in 1 .. Len(Plan[r]) : j # at[r].i => inflight'[<<r, j>>] = inflight[<<r, j>>]
        /\ \A s \in Runners \ {r} : \A j \in 1 .. Len(Plan[s]) :
              inflight'[<<s, j>>] = inflight[<<s, j>>]
    BY <1>1, <1>4, <2>1, InflightSet
  <2>6. TypeOK'
    BY <1>1, <1>2, <2>2, <2>4, <2>5 DEF TypeOK, StSet
  <2>7. Aside(r)
    BY <1>2, <2>2, <2>4, <2>5 DEF Aside, Same, StSet
  <2>8. /\ Len(fut'[r]) = k /\ fut'[r][k].st = "cancelled"
        /\ \A m \in 1 .. k : fut'[r][m].i = fut[r][m].i /\ (m # k => fut'[r][m].st = fut[r][m].st)
    BY <2>2 DEF StSet
  <2> HIDE DEF k
  <2>9. \A m \in 1 .. k : Undone(r, m)' => m # k /\ Undone(r, m) /\ fut'[r][m].st = fut[r][m].st
    BY <2>8 DEF Undone
  <2>10. PoolInv'
    <3> SUFFICES ASSUME NEW a \in 1 .. Len(pool)
                 PROVE  /\ pool[a][2] \in 1 .. Len(fut'[pool[a][1]])
                        /\ fut'[pool[a][1]][pool[a][2]].st \in {"queued", "cancelled"}
      BY <1>1, <1>2 DEF PoolInv
    <3>1. /\ pool[a][1] \in Runners /\ pool[a][2] \in 1 .. Len(fut[pool[a][1]])
          /\ fut[pool[a][1]][pool[a][2]].st \in {"queued", "cancelled"}
      BY <1>1 DEF PoolInv
    <3>2. CASE pool[a][1] = r
      <4>1. pool[a][2] \in 1 .. k /\ fut[r][pool[a][2]].st \in {"queued", "cancelled"}
        BY <3>1, <3>2 DEF k
      <4> QED
        BY <2>8, <3>2, <4>1
    <3>3. CASE pool[a][1] # r
      BY <2>2, <3>1, <3>3 DEF StSet
    <3> QED
      BY <3>2, <3>3
  <2>11. Whereabouts(r)'
    BY <1>1, <1>2, <1>3, <2>3, WhereaboutsGoOn
  <2>12. Current(r)'
    <3>1. P(r).round_timeout > 0 /\ P(r).executor # "none"
      BY <1>1, <1>3 DEF Current
    <3> QED
      BY <1>3, <1>4, <2>3, <2>4, <2>8, <3>1 DEF Current, At, Done
  <2>13. Owned(r)'
    <3>1. \A n \in 1 .. k :
             /\ fut[r][n].i \in 1 .. Len(Plan[r]) /\ fut[r][n].i <= at[r].i
             /\ Plan[r][fut[r][n].i].round_timeout > 0
             /\ Plan[r][fut[r][n].i].executor # "none"
      BY <1>1 DEF Owned, k
    <3> QED
      BY <1>3, <2>4, <2>8, <3>1 DEF Owned
  <2>14. Tracked(r)'
    <3>1. ASSUME NEW m \in 1 .. k, Undone(r, m)'
          PROVE  inflight'[<<r, fut'[r][m].i>>] = m
      <4>1. m # k /\ Undone(r, m) /\ fut'[r][m].i = fut[r][m].i /\ m # 0
        BY <1>4, <2>8, <2>9, <3>1
      <4>2. inflight[<<r, fut[r][m].i>>] = m /\ fut[r][m].i \in 1 .. Len(Plan[r])
        BY <1>1, <4>1 DEF Tracked, Owned, k
      <4>3. inflight[<<r, at[r].i>>] \in {0, k}
        BY <1>1, <1>3 DEF Tracked, Id, k
      <4>4. fut[r][m].i # at[r].i
        BY <4>1, <4>2, <4>3
      <4> QED
        BY <2>5, <4>1, <4>2, <4>4
    <3> QED
      BY <1>3, <2>4, <2>5, <2>8, <3>1 DEF Tracked, Id
  <2>15. Joined(r)'
    <3> SUFFICES ASSUME NEW m \in 1 .. k, Undone(r, m)'
                 PROVE  fut'[r][m].st = "running" /\ Plan[r][fut'[r][m].i].round_timeout_join > 0
      BY <2>8 DEF Joined
    <3>1. m # k /\ Undone(r, m) /\ fut'[r][m].i = fut[r][m].i /\ fut'[r][m].st = fut[r][m].st
      BY <2>8, <2>9
    <3> QED
      BY <1>1, <3>1 DEF Joined, k
  <2>16. Reported(r)'
    <3> SUFFICES ASSUME NEW j \in 1 .. Len(results[r]), results[r][j] = "value"
                 PROVE  \/ \A n \in 1 .. k : fut'[r][n].i # j
                        \/ \E n \in 1 .. k :
                              /\ fut'[r][n].i = j /\ fut'[r][n].st = "ok"
                              /\ \A m \in 1 .. k : fut'[r][m].i = j => m <= n
      BY <1>2, <2>8 DEF Reported
    <3>1. \/ \A n \in 1 .. k : fut[r][n].i # j
          \/ \E n \in 1 .. k : /\ fut[r][n].i = j /\ fut[r][n].st = "ok"
                               /\ \A m \in 1 .. k : fut[r][m].i = j => m <= n
      BY <1>1 DEF RunnerInv, Reported, k
    <3>2. fut[r][k].st = "queued"
      BY <1>1, <1>6
    <3>3. \A n \in 1 .. k : fut[r][n].st = "ok" => fut'[r][n].st = "ok"
      BY <2>8, <3>2
    <3> QED
      BY <2>8, <3>1, <3>3
  <2>17. Thrifty(r)'
    <3>1. Begun(r) \in Nat /\ Begun(r)' \in Nat /\ Begun(r) + 0 <= Begun(r)'
      BY <1>1, <1>3, <2>3, BegunGoesOn
    <3>2. \A j \in 1 .. Len(Plan[r]) :
             Spent(r, j)' <= Spent(r, j) + (IF j = at[r].i THEN 0 ELSE 0)
      <4> SUFFICES ASSUME NEW j \in 1 .. Len(Plan[r])
                   PROVE  Spent(r, j)' <= Spent(r, j) + (IF j = at[r].i THEN 0 ELSE 0)
        OBVIOUS
      <4>1. executes[<<r, j>>] \in Nat /\ executes' = executes
        BY <1>1, <1>2, SpentIs
      <4>2. Waiting(r, j)' => Waiting(r, j)
        <5> SUFFICES ASSUME NEW n \in 1 .. k, fut'[r][n].i = j, fut'[r][n].st = "queued"
                     PROVE  Waiting(r, j)
          BY <2>8 DEF Waiting
        <5>1. fut[r][n].i = j /\ fut[r][n].st = "queued"
          BY <2>8
        <5> QED
          BY <5>1 DEF Waiting, k
      <4> QED
        BY <4>1, <4>2 DEF Spent
    <3> QED
      BY <1>1, <1>3, <2>4, <2>6, <3>1, <3>2, ThriftySame DEF RunnerInv
  <2>18. RunnerInv(r)'
    BY <2>11, <2>12, <2>13, <2>14, <2>15, <2>16, <2>17 DEF RunnerInv
  <2> QED
    BY <2>6, <2>7, <2>10, <2>18, StepOf
<1> QED
  BY <1>5, <1>6

LEMMA FinallyKeeps ==
    ASSUME Inv, NEW r \in Runners, Finally(r)
    PROVE  Inv'
<1> DEFINE k == Len(fut[r])
           x == IF F(r).st \in Done THEN 0 ELSE inflight[Id(r)]
<1>1. /\ TypeOK /\ Whereabouts(r) /\ Current(r) /\ Tracked(r)
      /\ Owned(r) /\ Joined(r) /\ F(r) = fut[r][k]
  BY LastIs DEF Inv, RunnerInv, TypeOK
<1>2. at[r].pc = "finally" /\ UNCHANGED <<tasks, fut, pool, executes>>
  BY DEF Finally, At
<1>3. at[r].pc \in Flying /\ at[r].pc \in Flying \ {"register"} /\ at[r].pc \in Body
  BY <1>2 DEF Flying, Body
<1>4. /\ at[r].i \in 1 .. Len(Plan[r]) /\ k \in Nat /\ k > 0 /\ k \in 1 .. k
      /\ fut[r][k].i = at[r].i /\ Id(r) = <<r, at[r].i>> /\ Id(r) \in TaskIds
  <2>1. at[r].i \in 1 .. Len(Plan[r])
    BY <1>1, <1>3 DEF Whereabouts
  <2>2. k \in Nat /\ k > 0 /\ fut[r][k].i = at[r].i
    BY <1>1, <1>3, FutureIs DEF Current, TypeOK
  <2>3. k \in 1 .. k
    BY <2>2
  <2> QED
    BY <2>1, <2>2, <2>3, PlanIs DEF Id
<1>5. x \in Nat /\ inflight' = [inflight EXCEPT ![Id(r)] = x]
  BY <1>1, <1>4 DEF Finally, TypeOK
<1>6. x = IF F(r).st \in Done THEN 0 ELSE inflight[<<r, at[r].i>>]
  BY <1>4
<1> HIDE DEF x
<1>7. /\ inflight' \in [TaskIds -> Nat] /\ inflight'[<<r, at[r].i>>] = x
      /\ \A j \in 1 .. Len(Plan[r]) : j # at[r].i => inflight'[<<r, j>>] = inflight[<<r, j>>]
      /\ \A s \in Runners \ {r} : \A j \in 1 .. Len(Plan[s]) :
            inflight'[<<s, j>>] = inflight[<<s, j>>]
  BY <1>1, <1>4, <1>5, InflightSet
<1>8. ASSUME NEW n \in 1 .. k, Undone(r, n)
      PROVE  /\ inflight'[<<r, fut[r][n].i>>] = n
             /\ fut[r][n].st = "running"
             /\ Plan[r][fut[r][n].i].round_timeout_join > 0
  <2>1. inflight[<<r, fut[r][n].i>>] = n /\ fut[r][n].i \in 1 .. Len(Plan[r]) /\ n # 0
    BY <1>1, <1>2, <1>8 DEF Tracked, Owned, At
  <2>2. fut[r][n].st \notin Done
    BY <1>1, <1>8, UndoneIs
  <2>3. inflight'[<<r, fut[r][n].i>>] = n
    <3>1. CASE fut[r][n].i # at[r].i
      BY <1>7, <2>1, <3>1
    <3>2. CASE fut[r][n].i = at[r].i
      <4>1. inflight[<<r, at[r].i>>] \in {0, k}
        BY <1>1, <1>3 DEF Tracked, Id
      <4>2. n = k
        BY <2>1, <3>2, <4>1
      <4> QED
        BY <1>1, <1>6, <1>7, <2>1, <2>2, <3>2, <4>2
    <3> QED
      BY <3>1, <3>2
  <2>4. fut[r][n].st = "running" /\ Plan[r][fut[r][n].i].round_timeout_join > 0
    <3>1. CASE n = k
      <4>1. at[r].error \in BOOLEAN
        BY <1>1, PlaceIs
      <4>2. at[r].error = TRUE
        BY <1>1, <1>2, <2>2, <3>1, <4>1 DEF Current, At, Done
      <4> QED
        BY <1>1, <1>2, <1>4, <2>2, <3>1, <4>2 DEF Current, At, P
    <3>2. CASE n # k
      BY <1>1, <1>8, <3>2 DEF Joined
    <3> QED
      BY <3>1, <3>2
  <2> QED
    BY <2>3, <2>4
<1>9. Settled(r)
  BY <1>2, <1>7, <1>8 DEF Settled
<1>10. at[r].error \in BOOLEAN
  BY <1>1, PlaceIs
<1>11. CASE at[r].error = TRUE
  <2>1. Failed(r)
    BY <1>11 DEF Finally
  <2> QED
    BY <1>3, <1>9, <2>1, FailedKeeps
<1>12. CASE at[r].error = FALSE
  <2>1. Succeeded(r)
    BY <1>12 DEF Finally
  <2>2. fut[r][k].st = "ok"
    BY <1>1, <1>2, <1>12 DEF Current, At
  <2>3. \A m \in 1 .. k : m <= k
    BY <1>4
  <2>4. Real(r)
    BY <1>4, <2>2, <2>3 DEF Real
  <2> QED
    BY <1>3, <1>9, <2>1, <2>4, SucceededKeeps
<1> QED
  BY <1>10, <1>11, <1>12

-----------------------------------------------------------------------------
(* The pool.                                                               *)
LEMMA UniqueUndone ==
    ASSUME Inv, NEW r \in Runners, NEW m \in 1 .. Len(fut[r]), NEW n \in 1 .. Len(fut[r]),
           fut[r][m].i = fut[r][n].i, Undone(r, m), Undone(r, n)
    PROVE  m = n
<1>1. TypeOK /\ Current(r) /\ Tracked(r) /\ "register" \in Flying
  BY DEF Inv, RunnerInv, Flying
<1>2. m # 0 /\ n # 0
  BY <1>1, FutureIs DEF TypeOK
<1>3. CASE At(r, "register")
  <2>1. fut[r][Len(fut[r])].i = at[r].i /\ inflight[<<r, at[r].i>>] = 0
    BY <1>1, <1>3 DEF Current, Tracked, At, Id
  <2> QED
    BY <1>1, <1>2, <2>1 DEF Tracked
<1>4. CASE ~At(r, "register")
  <2>1. inflight[<<r, fut[r][m].i>>] = m /\ inflight[<<r, fut[r][n].i>>] = n
    BY <1>1, <1>4 DEF Tracked
  <2> QED
    BY <2>1
<1> QED
  BY <1>3, <1>4

LEMMA AllowedNat ==
    ASSUME TypeOK, NEW r \in Runners, Whereabouts(r), NEW j \in 1 .. Len(Plan[r])
    PROVE  Allowed(r, j) \in Nat
<1>1. Rounds(Plan[r][j]) * Attempts(Plan[r][j]) \in Nat
  BY AllowedIs
<1>2. at[r].pc \in Body => Begun(r) \in Nat
  BY TriesAre
<1> QED
  BY <1>1, <1>2 DEF Allowed

(* A future goes from queued to running or from running to its end.        *)
LEMMA StMoves ==
    ASSUME Inv, NEW r \in Runners, NEW n \in 1 .. Len(fut[r]), NEW x, StSet(r, n, x),
           \/ fut[r][n].st = "queued" /\ x = "running"
           \/ fut[r][n].st = "running" /\ x \in {"ok", "err"},
           UNCHANGED <<tasks, at, inflight, results>>,
           pool' \in Seq(Runners \X Nat), PoolInv',
           executes' \in [TaskIds -> Nat],
           \A s \in Runners \ {r} : \A j \in 1 .. Len(Plan[s]) :
              executes'[<<s, j>>] = executes[<<s, j>>],
           \A j \in 1 .. Len(Plan[r]) : Spent(r, j)' <= Spent(r, j)
    PROVE  Inv'
<1> DEFINE k == Len(fut[r])
<1>1. /\ TypeOK /\ PoolInv /\ RunnerInv(r) /\ Whereabouts(r) /\ Current(r) /\ Tracked(r)
      /\ Owned(r) /\ Joined(r) /\ Reported(r)
  BY DEF Inv, RunnerInv
<1>2. TypeOK'
  BY <1>1 DEF TypeOK, StSet
<1>3. Aside(r)
  BY DEF Aside, Same, StSet
<1>4. /\ Len(fut'[r]) = k /\ k \in Nat /\ fut'[r][n].st = x /\ n \in 1 .. k
      /\ \A m \in 1 .. k : fut'[r][m].i = fut[r][m].i /\ (m # n => fut'[r][m].st = fut[r][m].st)
  BY <1>1, FutureIs DEF StSet, TypeOK
<1>5. Undone(r, n) /\ fut[r][n].st \notin Done /\ x # "queued"
  BY DEF Undone, Done
<1>6. fut[r] \in Seq(Future) /\ \A m \in 1 .. k : Undone(r, m)' => Undone(r, m)
  BY <1>1, <1>4, <1>5 DEF Undone, TypeOK
<1> HIDE DEF k
<1>7. Whereabouts(r)'
  <2>1. At(r, "new") => k = 0
    BY <1>1 DEF Whereabouts, k
  <2>2. ~At(r, "new")
    BY <1>4, <2>1
  <2> QED
    BY <1>1, <2>2 DEF Whereabouts, At, P
<1>8. Current(r)'
  <2>1. /\ at[r].pc \in {"submit"} \cup Flying => P(r).round_timeout > 0 /\ P(r).executor # "none"
        /\ at[r].pc \in Flying => k > 0 /\ fut[r][k].i = at[r].i
        /\ at[r].pc \in {"recheck", "join"} => fut[r][k].st # "queued"
        /\ At(r, "finally") /\ at[r].error = FALSE => fut[r][k].st = "ok"
        /\ At(r, "finally") /\ at[r].error = TRUE =>
              \/ fut[r][k].st \in Done
              \/ fut[r][k].st = "running" /\ P(r).round_timeout_join > 0
    BY <1>1 DEF Current, k
  <2>2. at[r].pc \in Flying => k \in 1 .. k /\ fut'[r][k].i = fut[r][k].i
    BY <1>4, <2>1
  <2>3. {"recheck", "join", "finally"} \subseteq Flying
    BY DEF Flying
  <2>4. at[r].pc \in {"recheck", "join"} => fut'[r][k].st # "queued"
    BY <1>4, <1>5, <2>1, <2>2, <2>3
  <2>5. At(r, "finally") /\ at[r].error = FALSE => fut'[r][k].st = "ok"
    <3> SUFFICES ASSUME At(r, "finally"), at[r].error = FALSE PROVE fut'[r][k].st = "ok"
      OBVIOUS
    <3>1. fut[r][k].st = "ok" /\ k \in 1 .. k
      BY <2>1, <2>2, <2>3 DEF At
    <3>2. k # n
      BY <3>1
    <3> QED
      BY <1>4, <3>1, <3>2
  <2>6. At(r, "finally") /\ at[r].error = TRUE =>
              \/ fut'[r][k].st \in Done
              \/ fut'[r][k].st = "running" /\ P(r).round_timeout_join > 0
    <3> SUFFICES ASSUME At(r, "finally"), at[r].error = TRUE
                 PROVE  \/ fut'[r][k].st \in Done
                        \/ fut'[r][k].st = "running" /\ P(r).round_timeout_join > 0
      OBVIOUS
    <3>1. k \in 1 .. k /\ \/ fut[r][k].st \in Done
                          \/ fut[r][k].st = "running" /\ P(r).round_timeout_join > 0
      BY <2>1, <2>2, <2>3 DEF At
    <3>2. CASE k # n
      BY <1>4, <3>1, <3>2
    <3>3. CASE k = n
      <4>1. fut[r][k].st = "running" /\ P(r).round_timeout_join > 0
        BY <1>5, <3>1, <3>3
      <4>2. x \in {"ok", "err"}
        BY <3>3, <4>1
      <4> QED
        BY <1>4, <3>3, <4>2 DEF Done
    <3> QED
      BY <3>2, <3>3
  <2> QED
    BY <1>4, <2>1, <2>2, <2>4, <2>5, <2>6 DEF Current, At, P
<1>9. Owned(r)'
  <2>1. \A m \in 1 .. k :
           /\ fut[r][m].i \in 1 .. Len(Plan[r]) /\ fut[r][m].i <= at[r].i
           /\ at[r].pc \notin Body \cup {"raised"} => fut[r][m].i < at[r].i
           /\ Plan[r][fut[r][m].i].round_timeout > 0
           /\ Plan[r][fut[r][m].i].executor # "none"
    BY <1>1 DEF Owned, k
  <2> QED
    BY <1>4, <2>1 DEF Owned
<1>10. Tracked(r)'
  <2>1. /\ \A m \in 1 .. k : Undone(r, m) =>
             inflight[<<r, fut[r][m].i>>] = m \/ (m = k /\ At(r, "register"))
        /\ at[r].pc \in {"submit", "register"} => inflight[Id(r)] = 0
        /\ at[r].pc \in Flying \ {"register"} => inflight[Id(r)] \in {0, k}
    BY <1>1 DEF Tracked, k
  <2>2. \A m \in 1 .. k : Undone(r, m)' =>
             inflight[<<r, fut'[r][m].i>>] = m \/ (m = k /\ At(r, "register"))
    BY <1>4, <1>6, <2>1
  <2> QED
    BY <1>4, <2>1, <2>2 DEF Tracked, Id, At
<1>11. Joined(r)'
  <2> SUFFICES ASSUME NEW m \in 1 .. k, Undone(r, m)'
               PROVE  \/ m = k /\ at[r].pc \in Flying
                      \/ /\ fut'[r][m].st = "running"
                         /\ Plan[r][fut'[r][m].i].round_timeout_join > 0
    BY <1>4 DEF Joined
  <2>1. \/ m = k /\ at[r].pc \in Flying
        \/ fut[r][m].st = "running" /\ Plan[r][fut[r][m].i].round_timeout_join > 0
    BY <1>1, <1>6 DEF Joined, k
  <2>2. m = n => x = "running"
    BY <1>4 DEF Undone
  <2> QED
    BY <1>4, <2>1, <2>2
<1>12. Reported(r)'
  <2> SUFFICES ASSUME NEW j \in 1 .. Len(results[r]), results[r][j] = "value"
               PROVE  \/ \A a \in 1 .. k : fut'[r][a].i # j
                      \/ \E a \in 1 .. k :
                            /\ fut'[r][a].i = j /\ fut'[r][a].st = "ok"
                            /\ \A m \in 1 .. k : fut'[r][m].i = j => m <= a
    BY <1>4 DEF Reported
  <2>1. \/ \A a \in 1 .. k : fut[r][a].i # j
        \/ \E a \in 1 .. k : /\ fut[r][a].i = j /\ fut[r][a].st = "ok"
                             /\ \A m \in 1 .. k : fut[r][m].i = j => m <= a
    BY <1>1 DEF Reported, k
  <2>2. \A a \in 1 .. k : fut[r][a].st = "ok" => fut'[r][a].st = "ok"
    BY <1>4
  <2> QED
    BY <1>4, <2>1, <2>2
<1>13. Thrifty(r)'
  <2>1. ASSUME NEW j \in 1 .. Len(Plan[r])
        PROVE  Allowed(r, j)' = Allowed(r, j) /\ Allowed(r, j) \in Nat
    BY <1>1, AllowedNat DEF Allowed, Begun, P, At
  <2>2. ASSUME NEW j \in 1 .. Len(Plan[r])
        PROVE  /\ Spent(r, j)' <= Spent(r, j)
               /\ Allowed(r, j) \in Nat /\ Allowed(r, j)' \in Nat
               /\ Allowed(r, j) <= Allowed(r, j)'
    BY <2>1
  <2> QED
    BY <1>1, <1>2, <2>2, ThriftyStays DEF RunnerInv
<1>14. RunnerInv(r)'
  BY <1>7, <1>8, <1>9, <1>10, <1>11, <1>12, <1>13 DEF RunnerInv
<1> QED
  BY <1>2, <1>3, <1>14, StepOf

LEMMA ExecuteReturnsKeeps ==
    ASSUME Inv, NEW r \in Runners, ExecuteReturns(r)
    PROVE  Inv'
<1>1. TypeOK /\ PoolInv /\ fut[r] \in Seq(Future) /\ DOMAIN fut[r] = 1 .. Len(fut[r])
  BY LenProperties DEF Inv, TypeOK
<1>2. PICK n \in 1 .. Len(fut[r]), x \in {"ok", "err"} :
         fut[r][n].st = "running" /\ fut' = [fut EXCEPT ![r][n].st = x]
  BY <1>1 DEF ExecuteReturns
<1>3. UNCHANGED <<tasks, at, pool, inflight, executes, results>>
  BY DEF ExecuteReturns
<1>4. StSet(r, n, x)
  BY <1>1, <1>2, SetFut DEF Done
<1>5. PoolInv'
  <2> SUFFICES ASSUME NEW a \in 1 .. Len(pool)
               PROVE  /\ pool[a][2] \in 1 .. Len(fut'[pool[a][1]])
                      /\ fut'[pool[a][1]][pool[a][2]].st \in {"queued", "cancelled"}
    BY <1>1, <1>3 DEF PoolInv
  <2>1. /\ pool[a][1] \in Runners /\ pool[a][2] \in 1 .. Len(fut[pool[a][1]])
        /\ fut[pool[a][1]][pool[a][2]].st \in {"queued", "cancelled"}
    BY <1>1 DEF PoolInv
  <2>2. CASE pool[a][1] = r
    <3>1. pool[a][2] # n
      BY <1>2, <2>1, <2>2
    <3> QED
      BY <1>4, <2>1, <2>2, <3>1 DEF StSet
  <2>3. CASE pool[a][1] # r
    BY <1>4, <2>1, <2>3 DEF StSet
  <2> QED
    BY <2>2, <2>3
<1>6. ASSUME NEW j \in 1 .. Len(Plan[r]) PROVE Spent(r, j)' <= Spent(r, j)
  <2>1. executes[<<r, j>>] \in Nat /\ executes' = executes
    BY <1>1, <1>3, SpentIs
  <2>2. Waiting(r, j)' => Waiting(r, j)
    <3> SUFFICES ASSUME NEW m \in 1 .. Len(fut[r]), fut'[r][m].i = j, fut'[r][m].st = "queued"
                 PROVE  Waiting(r, j)
      BY <1>4 DEF Waiting, StSet
    <3>1. fut[r][m].i = j /\ fut[r][m].st = "queued"
      BY <1>2, <1>4 DEF StSet
    <3> QED
      BY <3>1 DEF Waiting
  <2> QED
    BY <2>1, <2>2 DEF Spent
<1>7. pool' \in Seq(Runners \X Nat) /\ executes' \in [TaskIds -> Nat]
  BY <1>1, <1>3 DEF TypeOK
<1> QED
  BY <1>2, <1>3, <1>4, <1>5, <1>6, <1>7, StMoves

LEMMA StartKeeps ==
    ASSUME Inv, Start
    PROVE  Inv'
<1> DEFINE L == Len(pool)
<1>1. TypeOK /\ PoolInv /\ pool \in Seq(Runners \X Nat) /\ pool # <<>>
  BY DEF Inv, TypeOK, Start
<1>2. /\ L \in Nat \ {0} /\ Head(pool) = pool[1] /\ Head(pool) \in Runners \X Nat
      /\ Tail(pool) \in Seq(Runners \X Nat) /\ Len(Tail(pool)) = L - 1
      /\ \A a \in 1 .. L - 1 : Tail(pool)[a] = pool[a + 1]
  BY <1>1, HeadTailProperties
<1>3. 1 \in 1 .. L
  BY <1>2
<1>0. PICK r \in Runners, n \in Nat : pool[1] = <<r, n>> /\ Head(pool) = <<r, n>>
  BY <1>2
<1>4. n \in 1 .. Len(fut[r]) /\ fut[r][n].st \in {"queued", "cancelled"}
  BY <1>0, <1>1, <1>3 DEF PoolInv
<1>5. UNCHANGED <<tasks, at, inflight, results>> /\ pool' = Tail(pool)
  BY DEF Start
<1>6. /\ Len(pool') = L - 1 /\ pool' \in Seq(Runners \X Nat)
      /\ \A a \in 1 .. L - 1 : a + 1 \in 1 .. L /\ pool'[a] = pool[a + 1]
      /\ \A a \in 1 .. L - 1 : pool'[a] # <<r, n>>
  <2>1. \A a \in 1 .. L - 1 : a + 1 \in 1 .. L /\ a + 1 # 1 /\ pool'[a] = pool[a + 1]
    BY <1>2, <1>5
  <2>2. \A a \in 1 .. L - 1 : pool[a + 1] # pool[1]
    BY <1>1, <1>3, <2>1 DEF PoolInv
  <2> QED
    BY <1>0, <1>2, <1>5, <2>1, <2>2
<1>7. ASSUME fut' = fut \/ StSet(r, n, "running") PROVE PoolInv'
  <2>1. ASSUME NEW a \in 1 .. L - 1
        PROVE  /\ pool'[a][1] \in Runners /\ pool'[a][2] \in 1 .. Len(fut[pool'[a][1]])
               /\ fut[pool'[a][1]][pool'[a][2]].st \in {"queued", "cancelled"}
               /\ pool'[a] = <<pool'[a][1], pool'[a][2]>>
    <3>1. a + 1 \in 1 .. L /\ pool'[a] = pool[a + 1]
      BY <1>6
    <3>2. pool[a + 1] \in Runners \X Nat
      BY <1>1, <3>1, ElementOfSeq
    <3> QED
      BY <1>1, <3>1, <3>2 DEF PoolInv
  <2>2. ASSUME NEW a \in 1 .. L - 1
        PROVE  /\ pool'[a][2] \in 1 .. Len(fut'[pool'[a][1]])
               /\ fut'[pool'[a][1]][pool'[a][2]].st \in {"queued", "cancelled"}
    <3>1. CASE fut' = fut
      BY <2>1, <3>1
    <3>2. CASE StSet(r, n, "running") /\ pool'[a][1] = r
      <4>1. pool'[a][2] # n
        BY <1>6, <2>1, <3>2
      <4> QED
        BY <2>1, <3>2, <4>1 DEF StSet
    <3>3. CASE StSet(r, n, "running") /\ pool'[a][1] # r
      BY <2>1, <3>3 DEF StSet
    <3> QED
      BY <1>7, <3>1, <3>2, <3>3
  <2>3. ASSUME NEW a \in 1 .. L - 1, NEW b \in 1 .. L - 1, pool'[a] = pool'[b]
        PROVE  a = b
    <3>1. a + 1 = b + 1
      BY <1>1, <1>6, <2>3, ZenonT(40) DEF PoolInv
    <3> QED
      BY <1>2, <3>1
  <2> QED
    BY <1>6, <2>1, <2>2, <2>3 DEF PoolInv
<1>8. CASE fut[r][n].st = "cancelled"
  <2>1. UNCHANGED <<fut, executes>>
    BY <1>0, <1>8 DEF Start
  <2>2. TypeOK' /\ PoolInv'
    BY <1>1, <1>5, <1>6, <1>7, <2>1 DEF TypeOK
  <2>3. ASSUME NEW s \in Runners PROVE RunnerInv(s)'
    BY <1>5, <2>1, Frame DEF Inv, Same
  <2> QED
    BY <2>2, <2>3 DEF Inv
<1>9. CASE fut[r][n].st # "cancelled"
  <2> DEFINE id == <<r, fut[r][n].i>>
  <2>1. fut[r][n].st = "queued"
    BY <1>4, <1>9
  <2>2. fut' = [fut EXCEPT ![r][n].st = "running"] /\ executes' = [executes EXCEPT ![id] = @ + 1]
    BY <1>0, <1>9 DEF Start
  <2> HIDE DEF L
  <2>3. StSet(r, n, "running")
    BY <1>1, <1>4, <2>2, SetFut
  <2>4. fut[r][n].i \in 1 .. Len(Plan[r]) /\ id \in TaskIds
    BY <1>4, PlanIs DEF Inv, RunnerInv, Owned
  <2>5. executes \in [TaskIds -> Nat]
    BY <1>1 DEF TypeOK
  <2> HIDE DEF id
  <2>6. /\ executes' \in [TaskIds -> Nat] /\ executes'[id] = executes[id] + 1
        /\ \A o \in TaskIds \ {id} : executes'[o] = executes[o]
    BY <2>2, <2>4, <2>5
  <2>7. ASSUME NEW s \in Runners, NEW j \in 1 .. Len(Plan[s]), <<s, j>> # id
        PROVE  executes'[<<s, j>>] = executes[<<s, j>>]
    <3>1. <<s, j>> \in TaskIds
      BY PlanIs
    <3> QED
      BY <2>6, <2>7, <3>1
  <2>8. \A s \in Runners \ {r} : \A j \in 1 .. Len(Plan[s]) :
              executes'[<<s, j>>] = executes[<<s, j>>]
    BY <2>7 DEF id
  <2>9. ASSUME NEW j \in 1 .. Len(Plan[r]) PROVE Spent(r, j)' <= Spent(r, j)
    <3>1. executes[<<r, j>>] \in Nat
      BY <1>1, <1>4, SpentIs
    <3>2. Waiting(r, j)' => \E m \in 1 .. Len(fut[r]) :
                                m # n /\ fut[r][m].i = j /\ fut[r][m].st = "queued"
      BY <2>3 DEF Waiting, StSet
    <3>3. CASE j = fut[r][n].i
      <4>1. Waiting(r, j)
        BY <1>4, <2>1, <3>3 DEF Waiting
      <4>2. ~Waiting(r, j)'
        <5> SUFFICES ASSUME NEW m \in 1 .. Len(fut[r]), m # n, fut[r][m].i = j,
                            fut[r][m].st = "queued"
                     PROVE  FALSE
          BY <3>2
        <5>1. Undone(r, m) /\ Undone(r, n)
          BY <2>1 DEF Undone
        <5> QED
          BY <1>4, <3>3, <5>1, UniqueUndone
      <4>3. executes'[<<r, j>>] = executes[<<r, j>>] + 1
        BY <2>6, <3>3 DEF id
      <4> QED
        BY <3>1, <4>1, <4>2, <4>3 DEF Spent
    <3>4. CASE j # fut[r][n].i
      <4>1. Waiting(r, j)' => Waiting(r, j)
        BY <3>2 DEF Waiting
      <4>2. executes'[<<r, j>>] = executes[<<r, j>>]
        BY <1>4, <2>7, <3>4 DEF id
      <4> QED
        BY <3>1, <4>1, <4>2 DEF Spent
    <3> QED
      BY <3>3, <3>4
  <2>10. PoolInv'
    BY <1>7, <2>3
  <2> QED
    BY <1>4, <1>5, <1>6, <2>1, <2>3, <2>6, <2>8, <2>9, <2>10, StMoves
<1> QED
  BY <1>8, <1>9

-----------------------------------------------------------------------------
LEMMA InitHolds == Init => Inv
<1> SUFFICES ASSUME Init PROVE Inv
  OBVIOUS
<1>1. /\ \A r \in Runners : tasks[r] = <<>> /\ fut[r] = <<>> /\ results[r] = <<>>
      /\ \A r \in Runners : at[r].pc = "new" /\ at[r].i = 0
      /\ pool = <<>> /\ \A id \in TaskIds : executes[id] = 0
  BY DEF Init
<1>2. TypeOK
  <2>1. [pc |-> "new", i |-> 0, round |-> 0, attempt |-> 0, error |-> FALSE] \in Place
    BY DEF Place, Pcs
  <2> QED
    BY <2>1 DEF Init, TypeOK
<1>3. PoolInv
  BY <1>1 DEF PoolInv
<1>4. ASSUME NEW r \in Runners PROVE RunnerInv(r)
  <2>1. Len(fut[r]) = 0 /\ Len(results[r]) = 0 /\ at[r].pc = "new" /\ at[r].i = 0
    BY <1>1
  <2>2. "new" \notin Body \cup {"raised", "submit"} /\ "new" \notin Flying
    BY DEF Body, Flying
  <2>3. Whereabouts(r)
    BY <2>1, <2>2 DEF Whereabouts, At
  <2>4. Current(r)
    BY <2>1, <2>2 DEF Current, At
  <2>5. Owned(r) /\ Joined(r) /\ Reported(r)
    BY <2>1 DEF Owned, Joined, Reported
  <2>6. Tracked(r)
    BY <2>1, <2>2 DEF Tracked
  <2>7. Thrifty(r)
    <3> SUFFICES ASSUME NEW j \in 1 .. Len(Plan[r]) PROVE Spent(r, j) <= Allowed(r, j)
      BY DEF Thrifty
    <3>1. <<r, j>> \in TaskIds /\ j \in Nat /\ j >= 1
      BY PlanIs
    <3>2. ~Waiting(r, j) /\ executes[<<r, j>>] = 0
      BY <1>1, <2>1, <3>1 DEF Waiting
    <3>3. Allowed(r, j) = 0
      BY <2>1, <2>2, <3>1 DEF Allowed, At
    <3> QED
      BY <3>2, <3>3 DEF Spent
  <2> QED
    BY <2>3, <2>4, <2>5, <2>6, <2>7 DEF RunnerInv
<1> QED
  BY <1>2, <1>3, <1>4 DEF Inv

LEMMA NextKeeps == Inv /\ [Next]_vars => Inv'
<1> SUFFICES ASSUME Inv, [Next]_vars PROVE Inv'
  OBVIOUS
<1>1. CASE UNCHANGED vars
  BY <1>1, NobodyMoves DEF vars
<1>2. CASE (\E e \in ExecutorIds : Register(e)) \/ Clear
  BY <1>2, NobodyMoves DEF Register, Clear
<1>3. ASSUME NEW r \in Runners, Construct(r) \/ Rehydrate(r) PROVE Inv'
  BY <1>3, BuildKeeps
<1>4. ASSUME NEW r \in Runners, RunnerStep(r) PROVE Inv'
  <2>1. CASE NextTask(r) \/ NoExecutor(r)
    BY <2>1, NextTaskKeeps, NoExecutorKeeps
  <2>2. CASE ExecuteInline(r) \/ CheckInflight(r)
    BY <2>2, ExecuteInlineKeeps, CheckInflightKeeps
  <2>3. CASE Submit(r) \/ RegisterFuture(r)
    BY <2>3, SubmitKeeps, RegisterFutureKeeps
  <2>4. CASE Wait(r) \/ Timeout(r) \/ DoneAfterTimeout(r) \/ Join(r)
    BY <2>4, WaitsKeep
  <2>5. CASE CancelFuture(r) \/ Finally(r)
    BY <2>5, CancelKeeps, FinallyKeeps
  <2> QED
    BY <1>4, <2>1, <2>2, <2>3, <2>4, <2>5 DEF RunnerStep
<1>5. ASSUME NEW r \in Runners, InlineReturns(r) PROVE Inv'
  BY <1>5, InlineReturnsKeeps
<1>6. CASE Start
  BY <1>6, StartKeeps
<1>7. ASSUME NEW r \in Runners, ExecuteReturns(r) PROVE Inv'
  BY <1>7, ExecuteReturnsKeeps
<1> QED
  BY <1>1, <1>2, <1>3, <1>4, <1>5, <1>6, <1>7 DEF Next

(* The invariant of the runners and the pool: _inflight knows every future *)
(* that is not done, what a runner has seen of its future still holds, and *)
(* no task has spent more executes than attempts were begun.               *)
THEOREM WorkflowInvariant == Spec => []Inv
<1> QED
  BY InitHolds, NextKeeps, PTL DEF Spec

(* For any plan, any timeouts and any pool size, at most one execute of a  *)
(* task waits in the pool or runs there (the _inflight check of            *)
(* _execute_once).                                                         *)
THEOREM ExecutesDoNotOverlap == Spec => []NoOverlap
<1>1. Inv => NoOverlap
  <2> SUFFICES ASSUME Inv, NEW r \in Runners, NEW m \in DOMAIN fut[r], NEW n \in DOMAIN fut[r],
                      fut[r][m].i = fut[r][n].i, ~done(r, m), ~done(r, n)
               PROVE  m = n
    BY DEF NoOverlap
  <2>1. m \in 1 .. Len(fut[r]) /\ n \in 1 .. Len(fut[r]) /\ TypeOK
    BY LenProperties DEF Inv, TypeOK
  <2>2. Undone(r, m) /\ Undone(r, n)
    BY <2>1, UndoneIs
  <2> QED
    BY <2>1, <2>2, UniqueUndone
<1> QED
  BY <1>1, WorkflowInvariant, PTL

(* The executes of a task stay within the rounds and attempts it was       *)
(* planned with, for any numbers of them, and also when the workflow came  *)
(* back from a payload.                                                    *)
THEOREM BudgetsAreKept == Spec => []BudgetKept
<1>1. Inv => BudgetKept
  <2> SUFFICES ASSUME Inv, NEW id \in TaskIds
               PROVE  executes[id] <= Rounds(Plan[id[1]][id[2]]) * Attempts(Plan[id[1]][id[2]])
    BY DEF BudgetKept
  <2>0. PICK r \in Runners : id \in {r} \X DOMAIN Plan[r]
    BY DEF TaskIds
  <2>1. PICK j \in DOMAIN Plan[r] : id = <<r, j>>
    BY <2>0
  <2>2. j \in 1 .. Len(Plan[r]) /\ id[1] = r /\ id[2] = j
    BY <2>1, PlanIs
  <2>3. TypeOK /\ Whereabouts(r) /\ Thrifty(r)
    BY DEF Inv, RunnerInv
  <2> DEFINE z == Rounds(Plan[r][j]) * Attempts(Plan[r][j])
  <2>4. executes[<<r, j>>] \in Nat /\ z \in Nat /\ Spent(r, j) <= Allowed(r, j)
        /\ Allowed(r, j) \in Nat
    BY <2>2, <2>3, SpentIs, AllowedIs, AllowedNat DEF Thrifty
  <2>5. Allowed(r, j) <= z
    <3>1. CASE j < at[r].i \/ (j = at[r].i /\ At(r, "raised"))
      <4>1. Allowed(r, j) = z
        BY <3>1 DEF Allowed
      <4> HIDE DEF z
      <4> QED
        BY <2>4, <4>1
    <3>2. CASE ~(j < at[r].i \/ (j = at[r].i /\ At(r, "raised"))) /\ j = at[r].i /\ at[r].pc \in Body
      <4> DEFINE y == Tries(r, at[r].round, at[r].attempt)
      <4>1. Allowed(r, j) = Begun(r) /\ z = Rounds(P(r)) * Attempts(P(r))
        BY <3>2 DEF Allowed, P
      <4>2. Begun(r) \in Nat /\ y \in Nat /\ Begun(r) <= y /\ y <= Rounds(P(r)) * Attempts(P(r))
        BY <2>3, <3>2, TriesAre
      <4>3. y <= z
        BY <4>1, <4>2
      <4> HIDE DEF y, z
      <4> QED
        BY <2>4, <4>1, <4>2, <4>3
    <3>3. CASE ~(j < at[r].i \/ (j = at[r].i /\ At(r, "raised"))) /\ ~(j = at[r].i /\ at[r].pc \in Body)
      <4>1. Allowed(r, j) = 0
        BY <3>3 DEF Allowed
      <4> HIDE DEF z
      <4> QED
        BY <2>4, <4>1
    <3> QED
      BY <3>1, <3>2, <3>3
  <2> HIDE DEF z
  <2>6. executes[<<r, j>>] <= z
    BY <2>4, <2>5 DEF Spent
  <2> QED
    BY <2>1, <2>2, <2>6 DEF z
<1> QED
  BY <1>1, WorkflowInvariant, PTL

(* When a run is over nothing of it is left in the pool but executes that  *)
(* outlived a join with a bound.                                           *)
THEOREM RunsLeaveNothing == Spec => []NoLeftover
<1>1. Inv => NoLeftover
  <2> SUFFICES ASSUME Inv, NEW r \in Runners, at[r].pc \in {"returned", "raised"},
                      NEW n \in DOMAIN fut[r]
               PROVE  \/ fut[r][n].st \in Done
                      \/ /\ fut[r][n].st = "running"
                         /\ Plan[r][fut[r][n].i].round_timeout_join > 0
    BY DEF NoLeftover
  <2>1. n \in 1 .. Len(fut[r]) /\ TypeOK /\ Joined(r)
    BY LenProperties DEF Inv, TypeOK, RunnerInv
  <2>2. at[r].pc \notin Flying
    BY DEF Flying
  <2> QED
    BY <2>1, <2>2, UndoneIs DEF Joined
<1> QED
  BY <1>1, WorkflowInvariant, PTL

(* A task whose result is a value either never used the pool or its last   *)
(* execute there returned.                                                 *)
THEOREM SuccessesAreReal == Spec => []SuccessIsReal
<1>1. Inv => SuccessIsReal
  <2> SUFFICES ASSUME Inv, NEW r \in Runners, NEW j \in DOMAIN results[r],
                      results[r][j] = "value", {n \in DOMAIN fut[r] : fut[r][n].i = j} # {}
               PROVE  \E n \in {k \in DOMAIN fut[r] : fut[r][k].i = j} :
                         /\ fut[r][n].st = "ok"
                         /\ \A m \in {k \in DOMAIN fut[r] : fut[r][k].i = j} : m <= n
    BY DEF SuccessIsReal
  <2>1. DOMAIN fut[r] = 1 .. Len(fut[r]) /\ DOMAIN results[r] = 1 .. Len(results[r])
    BY LenProperties DEF Inv, TypeOK
  <2>2. Reported(r)
    BY DEF Inv, RunnerInv
  <2>3. \E n \in 1 .. Len(fut[r]) :
              /\ fut[r][n].i = j /\ fut[r][n].st = "ok"
              /\ \A m \in 1 .. Len(fut[r]) : fut[r][m].i = j => m <= n
    BY <2>1, <2>2 DEF Reported
  <2> QED
    BY <2>1, <2>3
<1> QED
  BY <1>1, WorkflowInvariant, PTL
=============================================================================
