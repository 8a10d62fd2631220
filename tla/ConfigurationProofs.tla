------------------------ MODULE ConfigurationProofs -------------------------
(***************************************************************************)
(* Theorems about Configuration: the guard in front of Job.save, and the   *)
(* tracer provider, for any number of threads.                             *)
(***************************************************************************)
EXTENDS Configuration, TLAPS

(* What a thread's argument can be at each step.                           *)
Locals(t) ==
    /\ call[t].pc \in {"set", "install", "ensure", "applied", "use", "raised"}
         => call[t].arg \in {"memory", "durable"}
    /\ At(t, "mark") => call[t].arg \in {"kept", "memory", "durable"}
    /\ At(t, "applied") => call[t].arg = "durable"
    /\ At(t, "loaded") => call[t].arg = "-"

(* A call that has been alone is alone now, and as long as nothing is      *)
(* disturbed every call has been.                                          *)
AloneIsAlone ==
    \A t \in Threads :
        /\ At(t, "idle") => call[t].alone = TRUE
        /\ call[t].alone = TRUE /\ ~At(t, "idle") => \A u \in Threads \ {t} : At(u, "idle")

CalmIsAlone ==
    disturbed = FALSE => \A t \in Threads : call[t].alone = TRUE

(* What a call that has been alone knows, whatever was before it.          *)
Knows(t) ==
    /\ call[t].pc \in {"install", "mark"} /\ call[t].arg = "memory" /\ setting = "durable"
         => warned = TRUE
    /\ At(t, "mark") /\ call[t].arg = "durable" => store = "durable"
    /\ At(t, "rearm") => ack = "no"
    /\ call[t].pc \in {"ensure", "applied", "use", "raised"} => store = call[t].arg
    /\ At(t, "use") => deferred = FALSE
    /\ At(t, "raised") => deferred = TRUE /\ store = "memory"

(* A call is between two writes that belong together.                      *)
Mid(t) ==
    \/ call[t].pc \in {"loaded", "provide", "keep", "refresh", "rearm", "rewarn", "mark"}
    \/ call[t].pc \in {"flush", "detach"} /\ call[t].arg # "shutdown"

(* What holds between calls: memory is reached past the guard only if it   *)
(* was asked for, and an armed flag tells the truth.                       *)
Straight ==
    /\ setting = "durable" /\ store = "memory" /\ deferred = FALSE
         => ack = "kept" \/ (ack = "installed" /\ warned = TRUE)
    /\ deferred = TRUE => setting = "durable" /\ ack = "no"

StoreInv ==
    /\ TypeOK
    /\ \A t \in Threads : Locals(t)
    /\ AloneIsAlone
    /\ CalmIsAlone
    /\ \A t \in Threads : call[t].alone = TRUE => Knows(t)
    /\ disturbed = FALSE /\ (\A t \in Threads : ~Mid(t)) => Straight

(* As long as the calls that replace the provider do not overlap, the one  *)
(* in progress knows what is live.                                         *)
Traces(t) == call[t].pc \in TracingPcs

Clean == tracer = provider /\ live = {provider} \ {0}

(* What it knows between the first write and the last.                     *)
Half == {"detach", "provide", "keep"}

Holds(t) ==
    /\ At(t, "detach") => live = {}
    /\ At(t, "provide") => provider = 0 /\ tracer = 0 /\ live = {}
    /\ At(t, "keep") => tracer = call[t].mine /\ live = {call[t].mine} \ {0}

TracerInv ==
    tangled = FALSE =>
        /\ \A t, u \in Threads : Traces(t) /\ Traces(u) => t = u
        /\ \A t \in Threads : Holds(t)
        /\ (\A t \in Threads : call[t].pc \notin Half) => Clean

Inv == StoreInv /\ TracerInv

-----------------------------------------------------------------------------
(* The steps of a call change the record of their own thread only.         *)
Args == Declarations \cup {"kept", "shutdown", "-"}

CallRec == [pc : Pcs, arg : Args, traces : BOOLEAN, mine : 0 .. MaxProviders, alone : BOOLEAN]

Types ==
    /\ setting \in {"memory", "durable"} /\ store \in {"memory", "durable"}
    /\ deferred \in BOOLEAN /\ warned \in BOOLEAN
    /\ disturbed \in BOOLEAN /\ tangled \in BOOLEAN
    /\ provider \in 0 .. MaxProviders /\ tracer \in 0 .. MaxProviders
    /\ live \subseteq 0 .. MaxProviders
    /\ ack \in {"no", "installed", "kept"}
    /\ call \in [Threads -> CallRec]

LEMMA TypeParts == (TypeOK <=> Types) /\ (TypeOK' <=> Types')
BY DEF Types, TypeOK, CallRec, Args

LEMMA IdleRec ==
    /\ Idle \in CallRec
    /\ Idle.pc = "idle" /\ Idle.arg = "-" /\ Idle.traces = FALSE
    /\ Idle.mine = 0 /\ Idle.alone = TRUE
BY ConfigurationAssumption DEF Idle, CallRec, Pcs, Args

LEMMA SetPc ==
    ASSUME NEW c \in CallRec, NEW pc \in Pcs
    PROVE  LET r == [c EXCEPT !.pc = pc]
           IN  /\ r \in CallRec
               /\ r.pc = pc /\ r.arg = c.arg /\ r.traces = c.traces
               /\ r.mine = c.mine /\ r.alone = c.alone
BY DEF CallRec

LEMMA SetArg ==
    ASSUME NEW c \in CallRec, NEW arg \in Args
    PROVE  LET r == [c EXCEPT !.arg = arg]
           IN  /\ r \in CallRec
               /\ r.pc = c.pc /\ r.arg = arg /\ r.traces = c.traces
               /\ r.mine = c.mine /\ r.alone = c.alone
BY DEF CallRec

LEMMA SetMine ==
    ASSUME NEW c \in CallRec, NEW p \in 0 .. MaxProviders
    PROVE  LET r == [c EXCEPT !.mine = p]
           IN  /\ r \in CallRec
               /\ r.pc = c.pc /\ r.arg = c.arg /\ r.traces = c.traces
               /\ r.mine = p /\ r.alone = c.alone
BY DEF CallRec

LEMMA SetTraces ==
    ASSUME NEW c \in CallRec, NEW b \in BOOLEAN
    PROVE  LET r == [c EXCEPT !.traces = b]
           IN  /\ r \in CallRec
               /\ r.pc = c.pc /\ r.arg = c.arg /\ r.traces = b
               /\ r.mine = c.mine /\ r.alone = c.alone
BY DEF CallRec

LEMMA SetAlone ==
    ASSUME NEW c \in CallRec, NEW b \in BOOLEAN
    PROVE  LET r == [c EXCEPT !.alone = b]
           IN  /\ r \in CallRec
               /\ r.pc = c.pc /\ r.arg = c.arg /\ r.traces = c.traces
               /\ r.mine = c.mine /\ r.alone = b
BY DEF CallRec

Others(t) == \A u \in Threads \ {t} : call'[u] = call[u]

LEMMA GotoDoes ==
    ASSUME TypeOK, NEW t \in Threads, NEW pc \in Pcs, Goto(t, pc)
    PROVE  /\ call' \in [Threads -> CallRec] /\ Others(t)
           /\ call'[t].pc = pc /\ call'[t].arg = call[t].arg
           /\ call'[t].traces = call[t].traces
           /\ call'[t].mine = call[t].mine /\ call'[t].alone = call[t].alone
<1>1. call' = [call EXCEPT ![t] = [call[t] EXCEPT !.pc = pc]]
  BY DEF Goto
<1>2. [call[t] EXCEPT !.pc = pc] \in CallRec
  BY SetPc, TypeParts DEF Types
<1> QED
  BY <1>1, <1>2, SetPc, TypeParts DEF Types, Others

GotoWith(t, pc, arg) == call' = [call EXCEPT ![t].pc = pc, ![t].arg = arg]

LEMMA GotoWithDoes ==
    ASSUME TypeOK, NEW t \in Threads, NEW pc \in Pcs, NEW arg \in Args, GotoWith(t, pc, arg)
    PROVE  /\ call' \in [Threads -> CallRec] /\ Others(t)
           /\ call'[t].pc = pc /\ call'[t].arg = arg
           /\ call'[t].traces = call[t].traces
           /\ call'[t].mine = call[t].mine /\ call'[t].alone = call[t].alone
<1> DEFINE r == [call[t] EXCEPT !.pc = pc]
<1>1. r \in CallRec /\ [r EXCEPT !.arg = arg] \in CallRec
  BY SetPc, SetArg, TypeParts DEF Types
<1>2. call' = [call EXCEPT ![t] = [r EXCEPT !.arg = arg]]
  BY TypeParts DEF Types, GotoWith
<1>3. call'[t] = [r EXCEPT !.arg = arg] /\ Others(t) /\ call' \in [Threads -> CallRec]
  BY <1>1, <1>2, TypeParts DEF Types, Others
<1> QED
  BY <1>1, <1>3, SetPc, SetArg, TypeParts DEF Types

LEMMA ReturnDoes ==
    ASSUME TypeOK, NEW t \in Threads, Return(t)
    PROVE  call' \in [Threads -> CallRec] /\ Others(t) /\ call'[t] = Idle
BY TypeParts, IdleRec DEF Types, Return, Others

(* provide and keep change their own record too.                           *)
Provides(t, p) == call' = [call EXCEPT ![t].pc = "keep", ![t].mine = p]

LEMMA ProvideDoes ==
    ASSUME TypeOK, NEW t \in Threads, NEW p \in 0 .. MaxProviders, Provides(t, p)
    PROVE  /\ call' \in [Threads -> CallRec] /\ Others(t)
           /\ call'[t].pc = "keep" /\ call'[t].arg = call[t].arg
           /\ call'[t].mine = p /\ call'[t].alone = call[t].alone
<1> DEFINE r == [call[t] EXCEPT !.pc = "keep"]
<1>0. "keep" \in Pcs
  BY DEF Pcs, TracingPcs
<1>1. r \in CallRec /\ [r EXCEPT !.mine = p] \in CallRec
  BY <1>0, SetPc, SetMine, TypeParts DEF Types
<1>2. call' = [call EXCEPT ![t] = [r EXCEPT !.mine = p]]
  BY TypeParts DEF Types, Provides
<1>3. call'[t] = [r EXCEPT !.mine = p] /\ Others(t) /\ call' \in [Threads -> CallRec]
  BY <1>1, <1>2, TypeParts DEF Types, Others
<1> QED
  BY <1>0, <1>1, <1>3, SetPc, SetMine, TypeParts DEF Types

LEMMA KeepDoes ==
    ASSUME TypeOK, NEW t \in Threads, keep(t)
    PROVE  /\ call' \in [Threads -> CallRec] /\ Others(t)
           /\ call'[t].pc = "refresh" /\ call'[t].arg = call[t].arg
           /\ call'[t].alone = call[t].alone
<1> DEFINE r == [call[t] EXCEPT !.pc = "refresh"]
           q == [r EXCEPT !.mine = 0]
           o == [q EXCEPT !.traces = FALSE]
<1>0. "refresh" \in Pcs /\ 0 \in 0 .. MaxProviders
  BY ConfigurationAssumption DEF Pcs, TracingPcs
<1>1. /\ r \in CallRec /\ r.pc = "refresh" /\ r.arg = call[t].arg /\ r.alone = call[t].alone
  BY <1>0, SetPc, TypeParts DEF Types
<1>2. q \in CallRec /\ q.pc = r.pc /\ q.arg = r.arg /\ q.alone = r.alone
  BY <1>0, <1>1, SetMine
<1>3. o \in CallRec /\ o.pc = q.pc /\ o.arg = q.arg /\ o.alone = q.alone
  BY <1>2, SetTraces
<1>4. call' = [call EXCEPT ![t] = o]
  BY TypeParts DEF Types, keep
<1> QED
  BY <1>1, <1>2, <1>3, <1>4, TypeParts DEF Types, Others

(* Another call than t's that is in progress has not been alone.           *)
LEMMA OthersNotAlone ==
    ASSUME StoreInv, NEW t \in Threads, ~At(t, "idle"), NEW u \in Threads \ {t}
    PROVE  At(u, "idle") \/ call[u].alone = FALSE
BY TypeParts DEF Types, StoreInv, AloneIsAlone, CallRec

(* A step of t's call keeps the invariant if it keeps what t knows, and    *)
(* leaves things straight when it has no other write to make.              *)
LEMMA StoreFrame ==
    ASSUME StoreInv, TypeOK', NEW t \in Threads, ~At(t, "idle"), Others(t),
           IF call'[t].pc = "idle" THEN call'[t].alone = TRUE ELSE call'[t].alone = call[t].alone,
           Locals(t)',
           call[t].alone = TRUE => Knows(t)',
           disturbed' = FALSE => disturbed = FALSE \/ (call[t].alone = TRUE /\ call'[t].pc = "idle"),
           disturbed' = FALSE /\ call[t].alone = TRUE /\ ~Mid(t)' => Straight'
    PROVE  StoreInv'
<1>1. \A u \in Threads : Locals(u)'
  BY DEF StoreInv, Others, Locals, At
<1>2. AloneIsAlone'
  BY DEF StoreInv, Others, AloneIsAlone, At
<1>3. CalmIsAlone'
  BY DEF StoreInv, Others, AloneIsAlone, CalmIsAlone, At
<1>4. ASSUME NEW u \in Threads, call'[u].alone = TRUE
      PROVE  Knows(u)'
  <2>1. CASE u = t /\ call'[t].pc = "idle"
    BY <2>1 DEF Knows, At
  <2>2. CASE u = t /\ call'[t].pc # "idle"
    BY <1>4, <2>2
  <2>3. CASE u # t
    <3>1. call'[u] = call[u] /\ At(u, "idle")
      BY <1>4, <2>3, OthersNotAlone DEF Others
    <3> QED
      BY <3>1 DEF Knows, At
  <2> QED
    BY <2>1, <2>2, <2>3
<1>5. disturbed' = FALSE => call[t].alone = TRUE
  BY DEF StoreInv, CalmIsAlone
<1> QED
  BY <1>1, <1>2, <1>3, <1>4, <1>5 DEF StoreInv

LEMMA WasStraight ==
    ASSUME StoreInv, NEW t \in Threads, ~At(t, "idle"), call[t].alone = TRUE,
           disturbed = FALSE, ~Mid(t)
    PROVE  Straight
<1>1. \A u \in Threads : ~Mid(u)
  BY DEF StoreInv, AloneIsAlone, Mid, At
<1> QED
  BY <1>1 DEF StoreInv

(* As long as the calls do not overlap, a step of one of them leaves the   *)
(* tracer provider clean or knows in what state it is.                     *)
LEMMA TracerFrame ==
    ASSUME TracerInv, TypeOK', NEW t \in Threads, Others(t), tangled' = tangled,
           Traces(t)' => Traces(t),
           ~Traces(t) => UNCHANGED tracing,
           tangled = FALSE /\ Traces(t) /\ Holds(t) /\ (call[t].pc \notin Half => Clean)
             => Holds(t)' /\ (call'[t].pc \notin Half => Clean')
    PROVE  TracerInv'
<1> SUFFICES ASSUME tangled = FALSE PROVE TracerInv'
  BY DEF TracerInv
<1>1. \A u, v \in Threads : Traces(u)' /\ Traces(v)' => u = v
  BY DEF TracerInv, Traces, Others
<1>2. CASE Traces(t)
  <2>1. \A u \in Threads \ {t} : ~Traces(u) /\ ~Traces(u)' /\ call'[u].pc \notin Half
    BY <1>2 DEF TracerInv, Traces, Others, Half, TracingPcs
  <2>2. Holds(t) /\ (call[t].pc \notin Half => Clean)
    BY <2>1 DEF TracerInv, Traces, Half, TracingPcs
  <2>3. \A u \in Threads : Holds(u)'
    BY <1>2, <2>1, <2>2 DEF Holds, At, Traces, TracingPcs, Half
  <2> QED
    BY <1>1, <1>2, <2>1, <2>2, <2>3 DEF TracerInv
<1>3. CASE ~Traces(t)
  <2>1. call[t].pc \notin Half /\ call'[t].pc \notin Half
    BY <1>3 DEF Traces, Half, TracingPcs
  <2>2. UNCHANGED <<provider, tracer, live>> /\ (Clean' <=> Clean)
    BY <1>3 DEF tracing, Clean
  <2>3. \A u \in Threads : Holds(u)'
    BY <2>1, <2>2 DEF TracerInv, Holds, At, Others, Half
  <2> QED
    BY <1>1, <2>1, <2>2, <2>3 DEF TracerInv, Others
<1> QED
  BY <1>2, <1>3

LEMMA Step_load_config ==
    ASSUME Inv, NEW t \in Threads, load_config(t)
    PROVE  Inv'
<1>1. CASE Return(t) /\ UNCHANGED setting
  <2>1. /\ call' \in [Threads -> CallRec] /\ Others(t)
        /\ call'[t] = Idle
    BY <1>1, ReturnDoes DEF load_config, Inv, StoreInv
  <2>2. TypeOK'
    BY <1>1, <2>1, TypeParts DEF Types, load_config, Inv, StoreInv, tracing, stores
  <2>3. disturbed = FALSE /\ call[t].alone = TRUE => Straight
    BY <1>1, WasStraight DEF load_config, Inv, Mid, At
  <2>4. TracerInv'
    BY <1>1, <2>1, <2>2, TracerFrame, IdleRec
       DEF load_config, Inv, Traces, TracingPcs, Half, Holds, Clean, At, tracing,
           stores
  <2> QED
    BY <1>1, <2>1, <2>2, <2>4, <2>3, StoreFrame, IdleRec, TypeParts
       DEF Types, load_config, Inv, StoreInv, Locals, Knows, Mid, Straight, At,
           tracing, stores
<1>2. CASE /\ setting' = declared(call[t].arg)
           /\ call' = [call EXCEPT ![t].pc = "loaded", ![t].arg = "-"]
  <2>0. "loaded" \in Pcs /\ "-" \in Args
    BY TypeParts
       DEF Types, CallRec, Pcs, TracingPcs, Args, Declarations, Inv, StoreInv,
           load_config, declared
  <2>5. GotoWith(t, "loaded", "-")
    BY <1>2, Zenon DEF GotoWith, load_config, declared
  <2>1. /\ call' \in [Threads -> CallRec] /\ Others(t)
        /\ call'[t].pc = "loaded" /\ call'[t].arg = "-"
        /\ call'[t].alone = call[t].alone
    BY <2>0, <2>5, GotoWithDoes DEF load_config, Inv, StoreInv, declared
  <2>2. TypeOK'
    BY <1>2, <2>1, TypeParts
       DEF Types, load_config, Inv, StoreInv, tracing, stores, declared
  <2>4. TracerInv'
    BY <1>2, <2>1, <2>2, TracerFrame
       DEF load_config, Inv, Traces, TracingPcs, Half, Holds, Clean, At, tracing,
           stores, declared
  <2> QED
    BY <1>2, <2>1, <2>2, <2>4, StoreFrame, TypeParts
       DEF Types, load_config, Inv, StoreInv, Locals, Knows, Mid, Straight, At,
           tracing, stores, declared
<1> QED
  BY <1>1, <1>2 DEF load_config

LEMMA Step_log_options ==
    ASSUME Inv, NEW t \in Threads, log_options(t)
    PROVE  Inv'
<1>1. CASE Raise(t)
  <2>1. /\ call' \in [Threads -> CallRec] /\ Others(t)
        /\ call'[t] = Idle
    BY <1>1, ReturnDoes DEF log_options, Inv, StoreInv, Raise
  <2>2. TypeOK'
    BY <1>1, <2>1, TypeParts
       DEF Types, log_options, Inv, StoreInv, tracing, stores, Raise
  <2>4. TracerInv'
    BY <1>1, <2>1, <2>2, TracerFrame, IdleRec
       DEF log_options, Inv, Traces, TracingPcs, Half, Holds, Clean, At, tracing,
           stores, Raise
  <2> QED
    BY <1>1, <2>1, <2>2, <2>4, StoreFrame, IdleRec, TypeParts
       DEF Types, log_options, Inv, StoreInv, Locals, Knows, Mid, Straight, At,
           tracing, stores, Raise
<1>2. CASE Goto(t, "flush") /\ UNCHANGED <<stores, tracing>>
  <2>0. "flush" \in Pcs
    BY TypeParts
       DEF Types, CallRec, Pcs, TracingPcs, Args, Declarations, Inv, StoreInv,
           log_options
  <2>1. /\ call' \in [Threads -> CallRec] /\ Others(t)
        /\ call'[t].pc = "flush" /\ call'[t].arg = call[t].arg
        /\ call'[t].alone = call[t].alone
    BY <1>2, <2>0, GotoDoes DEF log_options, Inv, StoreInv
  <2>2. TypeOK'
    BY <1>2, <2>1, TypeParts DEF Types, log_options, Inv, StoreInv, tracing, stores
  <2>4. TracerInv'
    BY <1>2, <2>1, <2>2, TracerFrame
       DEF log_options, Inv, Traces, TracingPcs, Half, Holds, Clean, At, tracing,
           stores
  <2> QED
    BY <1>2, <2>1, <2>2, <2>4, StoreFrame, TypeParts
       DEF Types, log_options, Inv, StoreInv, Locals, Knows, Mid, Straight, At,
           tracing, stores
<1> QED
  BY <1>1, <1>2 DEF log_options

LEMMA Step_tracing_shutdown ==
    ASSUME Inv, NEW t \in Threads, tracing_shutdown(t)
    PROVE  Inv'
<1>0. "detach" \in Pcs
  BY TypeParts
     DEF Types, CallRec, Pcs, TracingPcs, Args, Declarations, Inv, StoreInv,
         tracing_shutdown
<1>1. /\ call' \in [Threads -> CallRec] /\ Others(t)
      /\ call'[t].pc = "detach" /\ call'[t].arg = call[t].arg
      /\ call'[t].alone = call[t].alone
  BY <1>0, GotoDoes DEF tracing_shutdown, Inv, StoreInv
<1>2. TypeOK'
  BY <1>1, TypeParts DEF Types, tracing_shutdown, Inv, StoreInv, tracing, stores
<1>3. disturbed = FALSE /\ call[t].alone = TRUE /\ call[t].arg = "shutdown" => Straight
  BY WasStraight DEF tracing_shutdown, Inv, Mid, At
<1>4. TracerInv'
  BY <1>1, <1>2, TracerFrame
     DEF tracing_shutdown, Inv, Traces, TracingPcs, Half, Holds, Clean, At,
         tracing, stores
<1> QED
  BY <1>1, <1>2, <1>4, <1>3, StoreFrame, TypeParts
     DEF Types, tracing_shutdown, Inv, StoreInv, Locals, Knows, Mid, Straight, At,
         tracing, stores

LEMMA Step_flush_raises ==
    ASSUME Inv, NEW t \in Threads, flush_raises(t)
    PROVE  Inv'
<1>1. CASE call[t].arg = "shutdown"
  <2>0. Return(t) /\ UNCHANGED <<stores, tracing>> /\ At(t, "flush")
    BY <1>1 DEF flush_raises
  <2>1. call' \in [Threads -> CallRec] /\ Others(t) /\ call'[t] = Idle
    BY <2>0, ReturnDoes DEF Inv, StoreInv
  <2>2. TypeOK'
    BY <2>0, <2>1, TypeParts DEF Types, Inv, StoreInv, tracing, stores
  <2>3. disturbed = FALSE /\ call[t].alone = TRUE => Straight
    BY <1>1, <2>0, WasStraight DEF Inv, Mid, At
  <2>4. TracerInv'
    BY <2>0, <2>1, <2>2, TracerFrame, IdleRec
       DEF Inv, Traces, TracingPcs, Half, Holds, Clean, At, tracing, stores
  <2> QED
    BY <1>1, <2>0, <2>1, <2>2, <2>3, <2>4, StoreFrame, IdleRec, TypeParts
       DEF Types, Inv, StoreInv, Locals, Knows, Mid, Straight, At, tracing, stores
<1>2. CASE call[t].arg # "shutdown"
  <2>0. Raise(t) /\ At(t, "flush")
    BY <1>2 DEF flush_raises
  <2>1. call' \in [Threads -> CallRec] /\ Others(t) /\ call'[t] = Idle
    BY <2>0, ReturnDoes DEF Inv, StoreInv, Raise
  <2>2. TypeOK'
    BY <2>0, <2>1, TypeParts DEF Types, Inv, StoreInv, tracing, stores, Raise
  <2>4. TracerInv'
    BY <2>0, <2>1, <2>2, TracerFrame, IdleRec
       DEF Inv, Traces, TracingPcs, Half, Holds, Clean, At, tracing, stores, Raise
  <2> QED
    BY <2>0, <2>1, <2>2, <2>4, StoreFrame, IdleRec, TypeParts
       DEF Types, Inv, StoreInv, Locals, Knows, Mid, Straight, At, tracing, stores, Raise
<1> QED
  BY <1>1, <1>2

LEMMA Step_detach ==
    ASSUME Inv, NEW t \in Threads, detach(t)
    PROVE  Inv'
<1>1. CASE call[t].arg = "shutdown"
  <2>1. /\ call' \in [Threads -> CallRec] /\ Others(t)
        /\ call'[t] = Idle
    BY <1>1, ReturnDoes DEF detach, Inv, StoreInv
  <2>2. TypeOK'
    BY <1>1, <2>1, TypeParts, ConfigurationAssumption
       DEF Types, detach, Inv, StoreInv, tracing, stores
  <2>3. disturbed = FALSE /\ call[t].alone = TRUE => Straight
    BY <1>1, WasStraight DEF detach, Inv, Mid, At
  <2>4. TracerInv'
    BY <1>1, <2>1, <2>2, TracerFrame, IdleRec
       DEF detach, Inv, Traces, TracingPcs, Half, Holds, Clean, At, tracing, stores
  <2> QED
    BY <1>1, <2>1, <2>2, <2>4, <2>3, StoreFrame, IdleRec, TypeParts
       DEF Types, detach, Inv, StoreInv, Locals, Knows, Mid, Straight, At, tracing,
           stores
<1>2. CASE call[t].arg # "shutdown"
  <2>0. (IF call[t].traces THEN "provide" ELSE "refresh") \in Pcs
    BY TypeParts
       DEF Types, CallRec, Pcs, TracingPcs, Args, Declarations, Inv, StoreInv,
           detach
  <2>1. /\ call' \in [Threads -> CallRec] /\ Others(t)
        /\ call'[t].pc = (IF call[t].traces THEN "provide" ELSE "refresh")
        /\ call'[t].arg = call[t].arg /\ call'[t].alone = call[t].alone
    BY <1>2, <2>0, GotoDoes DEF detach, Inv, StoreInv
  <2>2. TypeOK'
    BY <1>2, <2>1, TypeParts, ConfigurationAssumption
       DEF Types, detach, Inv, StoreInv, tracing, stores
  <2>4. TracerInv'
    BY <1>2, <2>1, <2>2, TracerFrame
       DEF detach, Inv, Traces, TracingPcs, Half, Holds, Clean, At, tracing, stores
  <2> QED
    BY <1>2, <2>1, <2>2, <2>4, StoreFrame, TypeParts
       DEF Types, detach, Inv, StoreInv, Locals, Knows, Mid, Straight, At, tracing,
           stores
<1> QED
  BY <1>1, <1>2 DEF detach

LEMMA Step_provide ==
    ASSUME Inv, NEW t \in Threads, provide(t)
    PROVE  Inv'
<1>1. CASE Raise(t)
  <2>1. /\ call' \in [Threads -> CallRec] /\ Others(t)
        /\ call'[t] = Idle
    BY <1>1, ReturnDoes DEF provide, Inv, StoreInv, Raise
  <2>2. TypeOK'
    BY <1>1, <2>1, TypeParts
       DEF Types, provide, Inv, StoreInv, tracing, stores, Raise
  <2>4. TracerInv'
    BY <1>1, <2>1, <2>2, TracerFrame, IdleRec
       DEF provide, Inv, Traces, TracingPcs, Half, Holds, Clean, At, tracing,
           stores, Raise
  <2> QED
    BY <1>1, <2>1, <2>2, <2>4, StoreFrame, IdleRec, TypeParts
       DEF Types, provide, Inv, StoreInv, Locals, Knows, Mid, Straight, At,
           tracing, stores, Raise
<1>2. CASE ~Raise(t)
  <2>1. PICK p \in 1 .. MaxProviders \ (live \cup {provider, tracer}) :
          /\ live' = live \cup {p}
          /\ tracer' = p
          /\ call' = [call EXCEPT ![t].pc = "keep", ![t].mine = p]
          /\ UNCHANGED <<stores, provider, tangled>>
    BY <1>2 DEF provide
  <2>2. p \in 0 .. MaxProviders
    BY ConfigurationAssumption
  <2>3. Provides(t, p)
    BY <2>1 DEF Provides
  <2>4. /\ call' \in [Threads -> CallRec] /\ Others(t) /\ call'[t].pc = "keep"
        /\ call'[t].arg = call[t].arg /\ call'[t].mine = p
        /\ call'[t].alone = call[t].alone
    BY <2>2, <2>3, ProvideDoes DEF Inv, StoreInv
  <2>5. TypeOK'
    BY <2>1, <2>2, <2>4, TypeParts DEF Types, Inv, StoreInv, stores
  <2>6. TracerInv'
    <3>1. tangled = FALSE => live = {}
      BY DEF Inv, TracerInv, Holds, provide
    <3>2. tangled = FALSE => live' = {p} /\ tracer' = p /\ p # 0
      BY <2>1, <3>1, ConfigurationAssumption
    <3>3. Holds(t)' <=> tracer' = call'[t].mine /\ live' = {call'[t].mine} \ {0}
      BY <2>4 DEF Holds, At
    <3>4. tangled = FALSE => Holds(t)'
      BY <2>4, <3>2, <3>3
    <3> QED
      BY <2>1, <2>4, <2>5, <3>4, TracerFrame
         DEF provide, Inv, Traces, TracingPcs, Half, At
  <2> QED
    BY <2>1, <2>4, <2>5, <2>6, StoreFrame
       DEF provide, Inv, Locals, Knows, Mid, At, stores
<1> QED
  BY <1>1, <1>2

LEMMA Step_keep ==
    ASSUME Inv, NEW t \in Threads, keep(t)
    PROVE  Inv'
<1>1. /\ call' \in [Threads -> CallRec] /\ Others(t)
      /\ call'[t].pc = "refresh" /\ call'[t].arg = call[t].arg
      /\ call'[t].alone = call[t].alone
  BY KeepDoes DEF keep, Inv, StoreInv
<1>2. TypeOK'
  BY <1>1, TypeParts DEF Types, keep, Inv, StoreInv, tracing, stores, CallRec
<1>4. TracerInv'
  BY <1>1, <1>2, TracerFrame
     DEF keep, Inv, Traces, TracingPcs, Half, Holds, Clean, At, tracing, stores
<1> QED
  BY <1>1, <1>2, <1>4, StoreFrame, TypeParts
     DEF Types, keep, Inv, StoreInv, Locals, Knows, Mid, Straight, At, tracing,
         stores

LEMMA Step_refresh ==
    ASSUME Inv, NEW t \in Threads, refresh(t)
    PROVE  Inv'
<1>0. "rearm" \in Pcs
  BY TypeParts
     DEF Types, CallRec, Pcs, TracingPcs, Args, Declarations, Inv, StoreInv, refresh
<1>1. /\ call' \in [Threads -> CallRec] /\ Others(t)
      /\ call'[t].pc = "rearm" /\ call'[t].arg = call[t].arg
      /\ call'[t].alone = call[t].alone
  BY <1>0, GotoDoes DEF refresh, Inv, StoreInv
<1>2. TypeOK'
  BY <1>1, TypeParts DEF Types, refresh, Inv, StoreInv, tracing, stores
<1>4. TracerInv'
  BY <1>1, <1>2, TracerFrame
     DEF refresh, Inv, Traces, TracingPcs, Half, Holds, Clean, At, tracing, stores
<1> QED
  BY <1>1, <1>2, <1>4, StoreFrame, TypeParts
     DEF Types, refresh, Inv, StoreInv, Locals, Knows, Mid, Straight, At, tracing,
         stores

LEMMA Step_rearm ==
    ASSUME Inv, NEW t \in Threads, rearm(t)
    PROVE  Inv'
<1>1. /\ call' \in [Threads -> CallRec] /\ Others(t)
      /\ call'[t] = Idle
  BY ReturnDoes DEF rearm, Inv, StoreInv, Settled
<1>2. TypeOK'
  BY <1>1, TypeParts DEF Types, rearm, Inv, StoreInv, tracing, stores, Settled
<1>4. TracerInv'
  BY <1>1, <1>2, TracerFrame, IdleRec
     DEF rearm, Inv, Traces, TracingPcs, Half, Holds, Clean, At, tracing, stores,
         Settled
<1> QED
  BY <1>1, <1>2, <1>4, StoreFrame, IdleRec, TypeParts
     DEF Types, rearm, Inv, StoreInv, Locals, Knows, Mid, Straight, At, tracing,
         stores, Settled

LEMMA Step_reset_job_store ==
    ASSUME Inv, NEW t \in Threads, reset_job_store(t)
    PROVE  Inv'
<1>0. "rewarn" \in Pcs
  BY TypeParts
     DEF Types, CallRec, Pcs, TracingPcs, Args, Declarations, Inv, StoreInv,
         reset_job_store
<1>1. /\ call' \in [Threads -> CallRec] /\ Others(t)
      /\ call'[t].pc = "rewarn" /\ call'[t].arg = call[t].arg
      /\ call'[t].alone = call[t].alone
  BY <1>0, GotoDoes DEF reset_job_store, Inv, StoreInv
<1>2. TypeOK'
  BY <1>1, TypeParts DEF Types, reset_job_store, Inv, StoreInv, tracing, stores
<1>4. TracerInv'
  BY <1>1, <1>2, TracerFrame
     DEF reset_job_store, Inv, Traces, TracingPcs, Half, Holds, Clean, At, tracing,
         stores
<1> QED
  BY <1>1, <1>2, <1>4, StoreFrame, TypeParts
     DEF Types, reset_job_store, Inv, StoreInv, Locals, Knows, Mid, Straight, At,
         tracing, stores

LEMMA Step_reset_mismatch_warning ==
    ASSUME Inv, NEW t \in Threads, reset_mismatch_warning(t)
    PROVE  Inv'
<1>0. "refresh" \in Pcs
  BY TypeParts
     DEF Types, CallRec, Pcs, TracingPcs, Args, Declarations, Inv, StoreInv,
         reset_mismatch_warning
<1>1. /\ call' \in [Threads -> CallRec] /\ Others(t)
      /\ call'[t].pc = "refresh" /\ call'[t].arg = call[t].arg
      /\ call'[t].alone = call[t].alone
  BY <1>0, GotoDoes DEF reset_mismatch_warning, Inv, StoreInv
<1>2. TypeOK'
  BY <1>1, TypeParts
     DEF Types, reset_mismatch_warning, Inv, StoreInv, tracing, stores
<1>4. TracerInv'
  BY <1>1, <1>2, TracerFrame
     DEF reset_mismatch_warning, Inv, Traces, TracingPcs, Half, Holds, Clean, At,
         tracing, stores
<1> QED
  BY <1>1, <1>2, <1>4, StoreFrame, TypeParts
     DEF Types, reset_mismatch_warning, Inv, StoreInv, Locals, Knows, Mid,
         Straight, At, tracing, stores

LEMMA Step_setup_from_config ==
    ASSUME Inv, NEW t \in Threads, setup_from_config(t)
    PROVE  Inv'
<1>1. CASE Return(t)
  <2>1. /\ call' \in [Threads -> CallRec] /\ Others(t)
        /\ call'[t] = Idle
    BY <1>1, ReturnDoes DEF setup_from_config, Inv, StoreInv
  <2>2. TypeOK'
    BY <1>1, <2>1, TypeParts
       DEF Types, setup_from_config, Inv, StoreInv, tracing, stores
  <2>3. disturbed = FALSE /\ call[t].alone = TRUE => Straight
    BY <1>1, WasStraight DEF setup_from_config, Inv, Mid, At
  <2>4. TracerInv'
    BY <1>1, <2>1, <2>2, TracerFrame, IdleRec
       DEF setup_from_config, Inv, Traces, TracingPcs, Half, Holds, Clean, At,
           tracing, stores
  <2> QED
    BY <1>1, <2>1, <2>2, <2>4, <2>3, StoreFrame, IdleRec, TypeParts, ZenonT(40)
       DEF Types, setup_from_config, Inv, StoreInv, Locals, Knows, Mid, Straight,
           At, tracing, stores
<1>2. CASE call' = [call EXCEPT ![t].pc = "mark", ![t].arg = "kept"]
  <2>0. "mark" \in Pcs /\ "kept" \in Args
    BY TypeParts
       DEF Types, CallRec, Pcs, TracingPcs, Args, Declarations, Inv, StoreInv,
           setup_from_config
  <2>5. GotoWith(t, "mark", "kept")
    BY <1>2, Zenon DEF GotoWith, setup_from_config
  <2>1. /\ call' \in [Threads -> CallRec] /\ Others(t)
        /\ call'[t].pc = "mark" /\ call'[t].arg = "kept"
        /\ call'[t].alone = call[t].alone
    BY <2>0, <2>5, GotoWithDoes DEF setup_from_config, Inv, StoreInv
  <2>2. TypeOK'
    BY <1>2, <2>1, TypeParts
       DEF Types, setup_from_config, Inv, StoreInv, tracing, stores
  <2>4. TracerInv'
    BY <1>2, <2>1, <2>2, TracerFrame
       DEF setup_from_config, Inv, Traces, TracingPcs, Half, Holds, Clean, At,
           tracing, stores
  <2> QED
    BY <1>2, <2>1, <2>2, <2>4, StoreFrame, TypeParts
       DEF Types, setup_from_config, Inv, StoreInv, Locals, Knows, Mid, Straight,
           At, tracing, stores
<1>3. CASE call' = [call EXCEPT ![t].pc = "configure",
                                ![t].arg = IF call[t].arg = "durable" THEN call[t].arg ELSE "memory"]
  <2>0. "configure" \in Pcs /\ (IF call[t].arg = "durable" THEN call[t].arg ELSE "memory") \in Args
    BY TypeParts
       DEF Types, CallRec, Pcs, TracingPcs, Args, Declarations, Inv, StoreInv,
           setup_from_config
  <2>5. GotoWith(t, "configure", (IF call[t].arg = "durable" THEN call[t].arg ELSE "memory"))
    BY <1>3, Zenon DEF GotoWith, setup_from_config
  <2>1. /\ call' \in [Threads -> CallRec] /\ Others(t)
        /\ call'[t].pc = "configure"
        /\ call'[t].arg = (IF call[t].arg = "durable" THEN call[t].arg ELSE "memory")
        /\ call'[t].alone = call[t].alone
    BY <2>0, <2>5, GotoWithDoes DEF setup_from_config, Inv, StoreInv
  <2>2. TypeOK'
    BY <1>3, <2>1, TypeParts
       DEF Types, setup_from_config, Inv, StoreInv, tracing, stores
  <2>3. disturbed = FALSE /\ call[t].alone = TRUE => Straight
    BY <1>3, WasStraight DEF setup_from_config, Inv, Mid, At
  <2>4. TracerInv'
    BY <1>3, <2>1, <2>2, TracerFrame
       DEF setup_from_config, Inv, Traces, TracingPcs, Half, Holds, Clean, At,
           tracing, stores
  <2> QED
    BY <1>3, <2>1, <2>2, <2>4, <2>3, StoreFrame, TypeParts
       DEF Types, setup_from_config, Inv, StoreInv, Locals, Knows, Mid, Straight,
           At, tracing, stores
<1> QED
  BY <1>1, <1>2, <1>3 DEF setup_from_config

LEMMA Step_configure_job_store ==
    ASSUME Inv, NEW t \in Threads, configure_job_store(t)
    PROVE  Inv'
<1>1. CASE Return(t)
  <2>1. /\ call' \in [Threads -> CallRec] /\ Others(t)
        /\ call'[t] = Idle
    BY <1>1, ReturnDoes DEF configure_job_store, Inv, StoreInv
  <2>2. TypeOK'
    BY <1>1, <2>1, TypeParts
       DEF Types, configure_job_store, Inv, StoreInv, tracing, stores
  <2>3. disturbed = FALSE /\ call[t].alone = TRUE => Straight
    BY <1>1, WasStraight DEF configure_job_store, Inv, Mid, At
  <2>4. TracerInv'
    BY <1>1, <2>1, <2>2, TracerFrame, IdleRec
       DEF configure_job_store, Inv, Traces, TracingPcs, Half, Holds, Clean, At,
           tracing, stores
  <2> QED
    BY <1>1, <2>1, <2>2, <2>4, <2>3, StoreFrame, IdleRec, TypeParts
       DEF Types, configure_job_store, Inv, StoreInv, Locals, Knows, Mid, Straight,
           At, tracing, stores
<1>2. CASE call[t].arg \in {"memory", "durable"} /\ Goto(t, "set")
  <2>0. "set" \in Pcs
    BY TypeParts
       DEF Types, CallRec, Pcs, TracingPcs, Args, Declarations, Inv, StoreInv,
           configure_job_store
  <2>1. /\ call' \in [Threads -> CallRec] /\ Others(t)
        /\ call'[t].pc = "set" /\ call'[t].arg = call[t].arg
        /\ call'[t].alone = call[t].alone
    BY <1>2, <2>0, GotoDoes DEF configure_job_store, Inv, StoreInv
  <2>2. TypeOK'
    BY <1>2, <2>1, TypeParts
       DEF Types, configure_job_store, Inv, StoreInv, tracing, stores
  <2>3. disturbed = FALSE /\ call[t].alone = TRUE => Straight
    BY <1>2, WasStraight DEF configure_job_store, Inv, Mid, At
  <2>4. TracerInv'
    BY <1>2, <2>1, <2>2, TracerFrame
       DEF configure_job_store, Inv, Traces, TracingPcs, Half, Holds, Clean, At,
           tracing, stores
  <2> QED
    BY <1>2, <2>1, <2>2, <2>4, <2>3, StoreFrame, TypeParts
       DEF Types, configure_job_store, Inv, StoreInv, Locals, Knows, Mid, Straight,
           At, tracing, stores
<1> QED
  BY <1>1, <1>2 DEF configure_job_store

LEMMA Step_set_job_store ==
    ASSUME Inv, NEW t \in Threads, set_job_store(t)
    PROVE  Inv'
<1>0. "install" \in Pcs
  BY TypeParts
     DEF Types, CallRec, Pcs, TracingPcs, Args, Declarations, Inv, StoreInv,
         set_job_store
<1>1. /\ call' \in [Threads -> CallRec] /\ Others(t)
      /\ call'[t].pc = "install" /\ call'[t].arg = call[t].arg
      /\ call'[t].alone = call[t].alone
  BY <1>0, GotoDoes DEF set_job_store, Inv, StoreInv
<1>2. TypeOK'
  BY <1>1, TypeParts DEF Types, set_job_store, Inv, StoreInv, tracing, stores
<1>3. disturbed = FALSE /\ call[t].alone = TRUE => Straight
  BY WasStraight DEF set_job_store, Inv, Mid, At
<1>4. TracerInv'
  BY <1>1, <1>2, TracerFrame
     DEF set_job_store, Inv, Traces, TracingPcs, Half, Holds, Clean, At, tracing,
         stores
<1> QED
  BY <1>1, <1>2, <1>4, <1>3, StoreFrame, TypeParts, ZenonT(40)
     DEF Types, set_job_store, Inv, StoreInv, Locals, Knows, Mid, Straight, At,
         tracing, stores

LEMMA Step_install ==
    ASSUME Inv, NEW t \in Threads, install(t)
    PROVE  Inv'
<1>0. "mark" \in Pcs
  BY TypeParts
     DEF Types, CallRec, Pcs, TracingPcs, Args, Declarations, Inv, StoreInv, install
<1>1. /\ call' \in [Threads -> CallRec] /\ Others(t)
      /\ call'[t].pc = "mark" /\ call'[t].arg = call[t].arg
      /\ call'[t].alone = call[t].alone
  BY <1>0, GotoDoes DEF install, Inv, StoreInv
<1>2. TypeOK'
  BY <1>1, TypeParts DEF Types, install, Inv, StoreInv, tracing, stores, Locals, At
<1>4. TracerInv'
  BY <1>1, <1>2, TracerFrame
     DEF install, Inv, Traces, TracingPcs, Half, Holds, Clean, At, tracing, stores
<1> QED
  BY <1>1, <1>2, <1>4, StoreFrame, TypeParts
     DEF Types, install, Inv, StoreInv, Locals, Knows, Mid, Straight, At, tracing,
         stores

LEMMA Step_mark_applied ==
    ASSUME Inv, NEW t \in Threads, mark_applied(t)
    PROVE  Inv'
<1>1. /\ call' \in [Threads -> CallRec] /\ Others(t)
      /\ call'[t] = Idle
  BY ReturnDoes DEF mark_applied, Inv, StoreInv, Settled
<1>2. TypeOK'
  BY <1>1, TypeParts
     DEF Types, mark_applied, Inv, StoreInv, tracing, stores, Settled, Locals, At
<1>4. TracerInv'
  BY <1>1, <1>2, TracerFrame, IdleRec
     DEF mark_applied, Inv, Traces, TracingPcs, Half, Holds, Clean, At, tracing,
         stores, Settled
<1> QED
  BY <1>1, <1>2, <1>4, StoreFrame, IdleRec, TypeParts
     DEF Types, mark_applied, Inv, StoreInv, Locals, Knows, Mid, Straight, At,
         tracing, stores, Settled

LEMMA Step_look ==
    ASSUME Inv, NEW t \in Threads, look(t)
    PROVE  Inv'
<1>0. "ensure" \in Pcs /\ store \in Args
  BY TypeParts
     DEF Types, CallRec, Pcs, TracingPcs, Args, Declarations, Inv, StoreInv, look
<1>5. GotoWith(t, "ensure", store)
  BY Zenon DEF GotoWith, look
<1>1. /\ call' \in [Threads -> CallRec] /\ Others(t)
      /\ call'[t].pc = "ensure" /\ call'[t].arg = store
      /\ call'[t].alone = call[t].alone
  BY <1>0, <1>5, GotoWithDoes DEF look, Inv, StoreInv
<1>2. TypeOK'
  BY <1>1, TypeParts DEF Types, look, Inv, StoreInv, tracing, stores
<1>3. disturbed = FALSE /\ call[t].alone = TRUE => Straight
  BY WasStraight DEF look, Inv, Mid, At
<1>4. TracerInv'
  BY <1>1, <1>2, TracerFrame
     DEF look, Inv, Traces, TracingPcs, Half, Holds, Clean, At, tracing, stores
<1> QED
  BY <1>1, <1>2, <1>4, <1>3, StoreFrame, TypeParts, ZenonT(40)
     DEF Types, look, Inv, StoreInv, Locals, Knows, Mid, Straight, At, tracing,
         stores

LEMMA Step_ensure_applied ==
    ASSUME Inv, NEW t \in Threads, ensure_applied(t)
    PROVE  Inv'
<1>0. (IF ~deferred THEN "use" ELSE IF call[t].arg = "memory" THEN "raised" ELSE "applied") \in Pcs
  BY TypeParts
     DEF Types, CallRec, Pcs, TracingPcs, Args, Declarations, Inv, StoreInv,
         ensure_applied
<1>1. /\ call' \in [Threads -> CallRec] /\ Others(t)
      /\ call'[t].pc = (IF ~deferred THEN "use"
                        ELSE IF call[t].arg = "memory" THEN "raised" ELSE "applied")
      /\ call'[t].arg = call[t].arg /\ call'[t].alone = call[t].alone
  BY <1>0, GotoDoes DEF ensure_applied, Inv, StoreInv
<1>2. TypeOK'
  BY <1>1, TypeParts DEF Types, ensure_applied, Inv, StoreInv, tracing, stores
<1>3. disturbed = FALSE /\ call[t].alone = TRUE => Straight
  BY WasStraight DEF ensure_applied, Inv, Mid, At
<1>4. TracerInv'
  BY <1>1, <1>2, TracerFrame
     DEF ensure_applied, Inv, Traces, TracingPcs, Half, Holds, Clean, At, tracing,
         stores
<1> QED
  BY <1>1, <1>2, <1>4, <1>3, StoreFrame, TypeParts
     DEF Types, ensure_applied, Inv, StoreInv, Locals, Knows, Mid, Straight, At,
         tracing, stores

LEMMA Step_satisfied ==
    ASSUME Inv, NEW t \in Threads, satisfied(t)
    PROVE  Inv'
<1>0. "use" \in Pcs
  BY TypeParts
     DEF Types, CallRec, Pcs, TracingPcs, Args, Declarations, Inv, StoreInv,
         satisfied
<1>1. /\ call' \in [Threads -> CallRec] /\ Others(t)
      /\ call'[t].pc = "use" /\ call'[t].arg = call[t].arg
      /\ call'[t].alone = call[t].alone
  BY <1>0, GotoDoes DEF satisfied, Inv, StoreInv
<1>2. TypeOK'
  BY <1>1, TypeParts DEF Types, satisfied, Inv, StoreInv, tracing, stores
<1>3. disturbed = FALSE /\ call[t].alone = TRUE => Straight
  BY WasStraight DEF satisfied, Inv, Mid, At
<1>4. TracerInv'
  BY <1>1, <1>2, TracerFrame
     DEF satisfied, Inv, Traces, TracingPcs, Half, Holds, Clean, At, tracing, stores
<1> QED
  BY <1>1, <1>2, <1>4, <1>3, StoreFrame, TypeParts
     DEF Types, satisfied, Inv, StoreInv, Locals, Knows, Mid, Straight, At,
         tracing, stores

LEMMA Step_use_store ==
    ASSUME Inv, NEW t \in Threads, use_store(t)
    PROVE  Inv'
<1>1. /\ call' \in [Threads -> CallRec] /\ Others(t)
      /\ call'[t] = Idle
  BY ReturnDoes DEF use_store, Inv, StoreInv
<1>2. TypeOK'
  BY <1>1, TypeParts DEF Types, use_store, Inv, StoreInv, tracing, stores
<1>3. disturbed = FALSE /\ call[t].alone = TRUE => Straight
  BY WasStraight DEF use_store, Inv, Mid, At
<1>4. TracerInv'
  BY <1>1, <1>2, TracerFrame, IdleRec
     DEF use_store, Inv, Traces, TracingPcs, Half, Holds, Clean, At, tracing, stores
<1> QED
  BY <1>1, <1>2, <1>4, <1>3, StoreFrame, IdleRec, TypeParts, ZenonT(40)
     DEF Types, use_store, Inv, StoreInv, Locals, Knows, Mid, Straight, At,
         tracing, stores

(* A call begins: t has a record of its own, and the calls in progress     *)
(* are no longer alone.                                                    *)
Began(t, pc, arg) ==
    /\ call' \in [Threads -> CallRec]
    /\ call'[t].pc = pc /\ call'[t].arg = arg
    /\ call'[t].alone = TRUE <=> \A u \in Threads \ {t} : At(u, "idle")
    /\ \A u \in Threads \ {t} :
         /\ call'[u].pc = call[u].pc /\ call'[u].arg = call[u].arg
         /\ call'[u].mine = call[u].mine
         /\ call'[u].alone = TRUE <=> call[u].alone = TRUE /\ At(u, "idle")

LEMMA CallDoes ==
    ASSUME TypeOK, NEW t \in Threads, NEW pc \in Pcs, NEW arg \in Args, NEW traces \in BOOLEAN,
           Call(t, pc, arg, traces)
    PROVE  Began(t, pc, arg)
<1> DEFINE alone == \A u \in Threads \ {t} : At(u, "idle")
           a == [Idle EXCEPT !.pc = pc]
           b == [a EXCEPT !.arg = arg]
           c == [b EXCEPT !.traces = traces]
           d == [c EXCEPT !.alone = alone]
           e(u) == [call[u] EXCEPT !.alone = call[u].alone /\ At(u, "idle")]
<1>1. a \in CallRec /\ a.pc = pc
  BY IdleRec, SetPc
<1>2. b \in CallRec /\ b.pc = pc /\ b.arg = arg
  BY <1>1, SetArg
<1>3. c \in CallRec /\ c.pc = pc /\ c.arg = arg
  BY <1>2, SetTraces
<1>4. alone \in BOOLEAN
  OBVIOUS
<1>5. d \in CallRec /\ d.pc = pc /\ d.arg = arg /\ d.alone = alone
  BY <1>3, <1>4, SetAlone
<1>6. ASSUME NEW u \in Threads
      PROVE  /\ e(u) \in CallRec
             /\ e(u).pc = call[u].pc /\ e(u).arg = call[u].arg
             /\ e(u).mine = call[u].mine
             /\ e(u).alone = (call[u].alone /\ At(u, "idle"))
  <2>1. call[u] \in CallRec /\ (call[u].alone /\ At(u, "idle")) \in BOOLEAN
    BY TypeParts DEF Types
  <2> QED
    BY <2>1, SetAlone
<1>7. call' = [u \in Threads |-> IF u = t THEN d ELSE e(u)]
  BY DEF Call
<1> HIDE DEF d, e
<1>8. call' \in [Threads -> CallRec] /\ call'[t] = d /\ \A u \in Threads \ {t} : call'[u] = e(u)
  BY <1>5, <1>6, <1>7
<1>9. \A u \in Threads : call[u].alone \in BOOLEAN
  BY TypeParts DEF Types, CallRec
<1> QED
  BY <1>5, <1>6, <1>8, <1>9 DEF Began

LEMMA Step_Call ==
    ASSUME Inv, NEW t \in Threads, NEW arg \in Args, NEW traces \in BOOLEAN,
           NEW pc \in {"load", "setup", "configure", "set", "reset", "flush", "look"},
           pc = "set" => arg \in {"memory", "durable"},
           pc = "flush" => arg = "shutdown",
           Call(t, pc, arg, traces)
    PROVE  Inv'
<1>0. pc \in Pcs
  BY DEF Pcs, TracingPcs
<1>1. TypeOK
  BY DEF Inv, StoreInv
<1>2. Began(t, pc, arg)
  BY <1>0, <1>1, CallDoes
<1>3. /\ At(t, "idle")
      /\ UNCHANGED <<setting, deferred, store, warned, ack, provider, tracer, live>>
  BY DEF Call
<1>4. disturbed' \in BOOLEAN /\ tangled' \in BOOLEAN
  BY DEF Call
<1>5. disturbed' = FALSE => disturbed = FALSE /\ \A u \in Threads \ {t} : At(u, "idle")
  BY TypeParts DEF Call, Types, Inv, StoreInv
<1>6. tangled' = FALSE =>
        tangled = FALSE /\ (pc \in TracingPcs => \A u \in Threads \ {t} : ~Traces(u))
  BY TypeParts DEF Call, Traces, Types, Inv, StoreInv
<1>7. TypeOK'
  BY <1>1, <1>2, <1>3, <1>4, TypeParts DEF Began, Types, Inv, StoreInv
<1>8. StoreInv'
  <2>1. \A u \in Threads : Locals(u)'
    BY <1>1, <1>2, <1>3 DEF Began, Inv, StoreInv, Locals, At
  <2>2. AloneIsAlone'
    BY <1>1, <1>2 DEF Began, Inv, StoreInv, AloneIsAlone, At
  <2>3. CalmIsAlone'
    BY <1>1, <1>2, <1>5 DEF Began, Inv, StoreInv, CalmIsAlone
  <2>4. \A u \in Threads : call'[u].alone = TRUE => Knows(u)'
    BY <1>1, <1>2 DEF Began, Knows, At
  <2>5. disturbed' = FALSE => Straight'
    <3>1. disturbed' = FALSE => \A u \in Threads : ~Mid(u)
      BY <1>3, <1>5 DEF Mid, At
    <3> QED
      BY <1>3, <1>5, <3>1 DEF Inv, StoreInv, Straight
  <2> QED
    BY <1>7, <2>1, <2>2, <2>3, <2>4, <2>5 DEF StoreInv
<1>9. TracerInv'
  <2> SUFFICES ASSUME tangled' = FALSE PROVE TracerInv'
    BY DEF TracerInv
  <2>1. \A u, v \in Threads : Traces(u)' /\ Traces(v)' => u = v
    BY <1>1, <1>2, <1>6 DEF Began, Inv, TracerInv, Traces
  <2>2. pc \notin Half /\ call[t].pc \notin Half
    BY <1>3 DEF Half, At
  <2>3. \A u \in Threads : Holds(u)'
    BY <1>1, <1>2, <1>3, <1>6, <2>2 DEF Began, Inv, TracerInv, Holds, At, Half
  <2>4. (\A u \in Threads : call'[u].pc \notin Half) => Clean'
    BY <1>1, <1>2, <1>3, <1>6, <2>2 DEF Began, Inv, TracerInv, Clean
  <2> QED
    BY <2>1, <2>3, <2>4 DEF TracerInv
<1> QED
  BY <1>8, <1>9 DEF Inv

LEMMA Step_Enter ==
    ASSUME Inv, NEW t \in Threads, Enter(t)
    PROVE  Inv'
<1> USE DEF Args, Declarations
<1>1. ASSUME NEW y \in Declarations, NEW traces \in BOOLEAN, Call(t, "load", y, traces)
      PROVE  Inv'
  BY <1>1, Step_Call
<1>2. ASSUME NEW y \in Declarations, Call(t, "setup", y, FALSE)
      PROVE  Inv'
  BY <1>2, Step_Call
<1>3. ASSUME NEW b \in {"memory", "durable", "unsupported"}, Call(t, "configure", b, FALSE)
      PROVE  Inv'
  BY <1>3, Step_Call
<1>4. ASSUME NEW s \in {"memory", "durable"}, Call(t, "set", s, FALSE)
      PROVE  Inv'
  BY <1>4, Step_Call
<1>5. CASE \/ Call(t, "reset", "-", FALSE) \/ Call(t, "flush", "shutdown", FALSE)
           \/ Call(t, "look", "-", FALSE)
  BY <1>5, Step_Call
<1> QED
  BY <1>1, <1>2, <1>3, <1>4, <1>5 DEF Enter

-----------------------------------------------------------------------------
LEMMA InitInv == Init => Inv
<1> SUFFICES ASSUME Init PROVE Inv
  OBVIOUS
<1> USE IdleRec DEF Init
<1>1. TypeOK
  <2>1. call \in [Threads -> CallRec]
    OBVIOUS
  <2>2. 0 \in 0 .. MaxProviders
    BY ConfigurationAssumption
  <2> QED
    BY <2>1, <2>2, TypeParts DEF Types
<1>2. StoreInv
  BY <1>1 DEF StoreInv, Locals, AloneIsAlone, CalmIsAlone, Knows, Mid, Straight, At
<1>3. TracerInv
  BY DEF TracerInv, Traces, TracingPcs, Holds, Half, Clean, At
<1> QED
  BY <1>2, <1>3 DEF Inv

LEMMA StepInv == Inv /\ [Next]_vars => Inv'
<1> SUFFICES ASSUME Inv, [Next]_vars PROVE Inv'
  OBVIOUS
<1>1. CASE UNCHANGED vars
  BY <1>1
     DEF vars, stores, tracing, Inv, StoreInv, TracerInv, TypeOK, Locals,
         AloneIsAlone, CalmIsAlone,
     Knows, Mid, Straight, Traces, Holds, Clean, At
<1>2. ASSUME NEW t \in Threads,
             \/ load_config(t) \/ log_options(t) \/ refresh(t) \/ rearm(t)
             \/ tracing_shutdown(t) \/ flush_raises(t) \/ detach(t) \/ provide(t) \/ keep(t)
             \/ reset_job_store(t) \/ reset_mismatch_warning(t)
      PROVE  Inv'
  BY <1>2, Step_load_config, Step_log_options, Step_refresh, Step_rearm,
     Step_tracing_shutdown, Step_flush_raises,
     Step_detach, Step_provide, Step_keep, Step_reset_job_store, Step_reset_mismatch_warning
<1>3. ASSUME NEW t \in Threads,
             \/ setup_from_config(t) \/ configure_job_store(t)
             \/ set_job_store(t) \/ install(t) \/ mark_applied(t)
             \/ look(t) \/ ensure_applied(t) \/ satisfied(t) \/ use_store(t)
      PROVE  Inv'
  BY <1>3, Step_setup_from_config, Step_configure_job_store, Step_set_job_store,
     Step_install,
     Step_mark_applied, Step_look, Step_ensure_applied, Step_satisfied, Step_use_store
<1> QED
  BY <1>1, <1>2, <1>3, Step_Enter DEF Next

(* The state of the configuration is what the calls that wrote it leave.   *)
THEOREM ConfigurationInvariant == Spec => []Inv
BY InitInv, StepInv, PTL DEF Spec

(* With a durable backend in the YAML, Job.save reaches a memory store     *)
(* only if the application asked for one since the last load or reset.     *)
THEOREM SavesAreNotSilent == Spec => []NoSilentMemory
<1>1. Inv => NoSilentMemory
  <2> SUFFICES ASSUME Inv, NEW t \in Threads, At(t, "use"), Undisturbed(t),
                      store = "memory", setting = "durable"
               PROVE  ack = "kept" \/ (ack = "installed" /\ warned)
    BY DEF NoSilentMemory
  <2>1. call[t].alone = TRUE /\ disturbed = FALSE
    BY TypeParts DEF Undisturbed, Inv, StoreInv, Types, CallRec
  <2>2. Straight
    BY <2>1, WasStraight DEF Inv, Mid, At
  <2>3. deferred = FALSE
    BY <2>1 DEF Inv, StoreInv, Knows
  <2> QED
    BY <2>2, <2>3 DEF Straight
<1> QED
  BY <1>1, ConfigurationInvariant, PTL

(* The guard of Job.save refuses only a save that would go to memory       *)
(* against the YAML and unasked.                                           *)
THEOREM AlarmsAreReal == Spec => []NoFalseAlarm
<1>1. Inv => NoFalseAlarm
  <2> SUFFICES ASSUME Inv, NEW t \in Threads, At(t, "raised"), Undisturbed(t)
               PROVE  store = "memory" /\ setting = "durable" /\ ack = "no"
    BY DEF NoFalseAlarm
  <2>1. call[t].alone = TRUE /\ disturbed = FALSE
    BY TypeParts DEF Undisturbed, Inv, StoreInv, Types, CallRec
  <2>2. Straight
    BY <2>1, WasStraight DEF Inv, Mid, At
  <2>3. deferred = TRUE /\ store = "memory"
    BY <2>1 DEF Inv, StoreInv, Knows
  <2> QED
    BY <2>2, <2>3 DEF Straight
<1> QED
  BY <1>1, ConfigurationInvariant, PTL

(* No load and no shutdown leaks a tracer provider, unless two of them     *)
(* overlap.                                                                *)
THEOREM ProvidersDoNotLeak == Spec => []OneProvider
<1>1. Inv => OneProvider
  <2> SUFFICES ASSUME Inv, ~tangled, \A t \in Threads : call[t].pc \notin TracingPcs
               PROVE  tracer = provider /\ live = {provider} \ {0}
    BY DEF OneProvider
  <2>1. tangled = FALSE
    BY TypeParts DEF Inv, StoreInv, Types
  <2>2. \A t \in Threads : call[t].pc \notin Half
    BY DEF Half, TracingPcs
  <2> QED
    BY <2>1, <2>2 DEF Inv, TracerInv, Clean
<1> QED
  BY <1>1, ConfigurationInvariant, PTL
=============================================================================
