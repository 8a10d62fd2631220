--------------------------- MODULE Configuration ----------------------------
(***************************************************************************)
(* What load_config sets up and what it leaves to the application.  It     *)
(* replaces the tracer provider (common/tracing/setup.py).  It installs no *)
(* job store: a durable scheduler.jobStore in the YAML only arms a flag,   *)
(* and Job.save must refuse to fall back to memory until an application    *)
(* has installed a store (common/config.py, scheduler/store/__init__.py).  *)
(* Nothing but the one-shot warning is locked: the steps are the reads and *)
(* writes of these globals.                                                *)
(***************************************************************************)
EXTENDS Naturals

CONSTANTS
    Threads,       \* callers of the configuration functions and of Job.save
    MaxProviders   \* bound: tracer providers that exist at once

ASSUME ConfigurationAssumption == MaxProviders \in Nat

(* What scheduler.jobStore of a YAML may say.  "blank" is a section with   *)
(* no backend, "odd_memory" a spelling that only strip().lower() makes     *)
(* memory, "unsupported" a durable name setup_from_config does not accept, *)
(* "Postgres" among them.                                                  *)
Declarations == {"absent", "blank", "memory", "odd_memory", "durable", "unsupported"}

VARIABLES
    setting,    \* the kind of store Config._setting declares
    deferred,   \* Config._deferred_durable_job_store_backend is not None
    store,      \* the kind of _job_store
    warned,     \* _mismatch_warned
    provider,   \* _provider, 0 for None
    tracer,     \* the global provider of the trace API, 0 for NoOp
    live,       \* the providers the trace API was given and that were not shut down
    call,       \* call[t]: where thread t is, its argument and what it read
    ack,        \* history: how memory was asked for since the last load or reset
    disturbed,  \* history: calls overlapped, or a load raised half way, and
                \* nothing that ran alone has set the store straight since
    tangled     \* history: two calls that replace the provider overlapped

stores  == <<setting, deferred, store, warned, ack, disturbed>>
tracing == <<provider, tracer, live, tangled>>
vars    == <<stores, tracing, call>>

Idle == [pc |-> "idle", arg |-> "-", traces |-> FALSE, mine |-> 0, alone |-> TRUE]

TracingPcs == {"load", "loaded", "flush", "detach", "provide", "keep"}

Pcs == TracingPcs \cup
       {"idle", "refresh", "rearm", "reset", "rewarn", "setup", "configure", "set",
        "install", "mark", "look", "ensure", "applied", "use", "raised"}

TypeOK ==
    /\ {setting, store} \subseteq {"memory", "durable"}
    /\ {deferred, warned, disturbed, tangled} \subseteq BOOLEAN
    /\ {provider, tracer} \cup live \subseteq 0 .. MaxProviders
    /\ ack \in {"no", "installed", "kept"}
    /\ call \in [Threads -> [pc : Pcs, arg : Declarations \cup {"kept", "shutdown", "-"},
                             traces : BOOLEAN, mine : 0 .. MaxProviders, alone : BOOLEAN]]

Init ==
    /\ setting = "memory"
    /\ deferred = FALSE
    /\ store = "memory"
    /\ warned = FALSE
    /\ provider = 0 /\ tracer = 0 /\ live = {}
    /\ call = [t \in Threads |-> Idle]
    /\ ack = "no"
    /\ disturbed = FALSE
    /\ tangled = FALSE

(* What a YAML declares: anything whose name, after strip().lower(), is    *)
(* neither empty nor memory counts as durable.                             *)
declared(y) == IF y \in {"durable", "unsupported"} THEN "durable" ELSE "memory"

At(t, pc) == call[t].pc = pc

Goto(t, pc) == call' = [call EXCEPT ![t].pc = pc]

Return(t) == call' = [call EXCEPT ![t] = Idle]

Settled(t) == disturbed' = (disturbed /\ ~call[t].alone)

-----------------------------------------------------------------------------
(* A thread enters one of the functions.                                   *)
Call(t, pc, arg, traces) ==
    LET others == Threads \ {t}
        alone  == \A u \in others : At(u, "idle")
    IN  /\ At(t, "idle")
        /\ call' = [u \in Threads |->
                      IF u = t THEN [Idle EXCEPT !.pc = pc, !.arg = arg, !.traces = traces, !.alone = alone]
                      ELSE [call[u] EXCEPT !.alone = @ /\ At(u, "idle")]]
        /\ disturbed' = (disturbed \/ ~alone)
        /\ tangled' = (tangled \/ (pc \in TracingPcs /\ \E u \in others : call[u].pc \in TracingPcs))
        /\ UNCHANGED <<setting, deferred, store, warned, ack, provider, tracer, live>>

(* load_config: a file that cannot be read or parsed changes nothing.      *)
load_config(t) ==
    /\ At(t, "load")
    /\ \/ Return(t) /\ UNCHANGED setting
       \/ /\ setting' = declared(call[t].arg)
          /\ call' = [call EXCEPT ![t].pc = "loaded", ![t].arg = "-"]
    /\ UNCHANGED <<deferred, store, warned, ack, disturbed, tracing>>

(* It raises between the new setting and the refresh of the flag.          *)
Raise(t) ==
    /\ Return(t)
    /\ disturbed' = TRUE
    /\ UNCHANGED <<setting, deferred, store, warned, ack, tracing>>

(* The log options come next, then the tracing setup.                      *)
log_options(t) ==
    /\ At(t, "loaded")
    /\ \/ Raise(t)
       \/ Goto(t, "flush") /\ UNCHANGED <<stores, tracing>>

(* Mutant: the old provider is not shut down.                              *)
tracing_shutdown_Keeps(t) ==
    /\ At(t, "flush")
    /\ Goto(t, "detach")
    /\ UNCHANGED <<stores, tracing>>

(* tracing.shutdown: the provider is shut down, then let go.               *)
tracing_shutdown(t) ==
    /\ At(t, "flush")
    /\ live' = live \ {provider}
    /\ Goto(t, "detach")
    /\ UNCHANGED <<stores, provider, tracer, tangled>>

(* force_flush or the provider's shutdown raises: the provider stays where *)
(* it is, and so does the rest of a load.                                  *)
flush_raises(t) ==
    /\ At(t, "flush")
    /\ provider # 0
    /\ \/ call[t].arg = "shutdown" /\ Return(t) /\ UNCHANGED <<stores, tracing>>
       \/ call[t].arg # "shutdown" /\ Raise(t)

detach(t) ==
    /\ At(t, "detach")
    /\ provider' = 0
    /\ tracer' = 0
    /\ IF call[t].arg = "shutdown" THEN Return(t)
       ELSE Goto(t, IF call[t].traces THEN "provide" ELSE "refresh")
    /\ UNCHANGED <<stores, live, tangled>>

(* A provider with its exporters, which may not be built, goes to the      *)
(* trace API first and then into _provider.                                *)
provide(t) ==
    /\ At(t, "provide")
    /\ \/ Raise(t)
       \/ \E p \in 1 .. MaxProviders \ (live \cup {provider, tracer}) :
             /\ live' = live \cup {p}
             /\ tracer' = p
             /\ call' = [call EXCEPT ![t].pc = "keep", ![t].mine = p]
             /\ UNCHANGED <<stores, provider, tangled>>

keep(t) ==
    /\ At(t, "keep")
    /\ provider' = call[t].mine
    /\ call' = [call EXCEPT ![t].pc = "refresh", ![t].mine = 0, ![t].traces = FALSE]
    /\ UNCHANGED <<stores, tracer, live, tangled>>

(* refresh_scheduler_job_store_deferred clears the flag, then sets it from *)
(* the current setting.                                                    *)
refresh(t) ==
    /\ At(t, "refresh")
    /\ deferred' = FALSE
    /\ ack' = "no"
    /\ Goto(t, "rearm")
    /\ UNCHANGED <<setting, store, warned, disturbed, tracing>>

rearm(t) ==
    /\ At(t, "rearm")
    /\ deferred' = (setting = "durable")
    /\ Return(t)
    /\ Settled(t)
    /\ UNCHANGED <<setting, store, warned, ack, tracing>>

(* reset_job_store: a fresh memory store, then the warning, then the flag. *)
reset_job_store(t) ==
    /\ At(t, "reset")
    /\ store' = "memory"
    /\ Goto(t, "rewarn")
    /\ UNCHANGED <<setting, deferred, warned, ack, disturbed, tracing>>

(* Mutant: the flag is left alone.                                         *)
reset_mismatch_warning_Only(t) ==
    /\ At(t, "rewarn")
    /\ warned' = FALSE
    /\ Return(t)
    /\ ack' = "no"
    /\ UNCHANGED <<setting, deferred, store, disturbed, tracing>>

reset_mismatch_warning(t) ==
    /\ At(t, "rewarn")
    /\ warned' = FALSE
    /\ Goto(t, "refresh")
    /\ UNCHANGED <<setting, deferred, store, ack, disturbed, tracing>>

(* setup_from_config takes the spelling as it is, keeps a memory store     *)
(* that is already there, and builds whatever else is declared.            *)
setup_from_config(t) ==
    LET y == call[t].arg
        keeps == y \in {"blank", "memory"} /\ store = "memory"
    IN  /\ At(t, "setup")
        /\ \/ /\ y \in {"absent", "odd_memory", "unsupported"}    \* returns, or raises
              /\ Return(t)
           \/ /\ keeps
              /\ call' = [call EXCEPT ![t].pc = "mark", ![t].arg = "kept"]
           \/ /\ y \in {"blank", "memory", "durable"} /\ ~keeps
              /\ call' = [call EXCEPT ![t].pc = "configure",
                                      ![t].arg = IF y = "durable" THEN y ELSE "memory"]
        /\ UNCHANGED <<stores, tracing>>

(* configure_job_store: an unsupported backend, or the constructor of a    *)
(* durable store, may raise before anything is installed.                  *)
configure_job_store(t) ==
    /\ At(t, "configure")
    /\ \/ call[t].arg # "memory" /\ Return(t)
       \/ call[t].arg \in {"memory", "durable"} /\ Goto(t, "set")
    /\ UNCHANGED <<stores, tracing>>

(* set_job_store: the warning, the store, the flag.                        *)
set_job_store(t) ==
    /\ At(t, "set")
    /\ warned' = (warned \/ (call[t].arg = "memory" /\ setting = "durable"))
    /\ Goto(t, "install")
    /\ UNCHANGED <<setting, deferred, store, ack, disturbed, tracing>>

install(t) ==
    /\ At(t, "install")
    /\ store' = call[t].arg
    /\ Goto(t, "mark")
    /\ UNCHANGED <<setting, deferred, warned, ack, disturbed, tracing>>

mark_applied(t) ==
    /\ At(t, "mark")
    /\ deferred' = FALSE
    /\ ack' = CASE call[t].arg = "kept"    -> "kept"
                [] call[t].arg = "memory"  -> "installed"
                [] call[t].arg = "durable" -> "no"
    /\ Return(t)
    /\ Settled(t)
    /\ UNCHANGED <<setting, store, warned, tracing>>

-----------------------------------------------------------------------------
(* Job.save and Job.get_saved: what store there is, whether the guard lets *)
(* the call pass, and then the store there is by then.                     *)
look(t) ==
    /\ At(t, "look")
    /\ call' = [call EXCEPT ![t].pc = "ensure", ![t].arg = store]
    /\ UNCHANGED <<stores, tracing>>

(* Mutant: the installed store is not looked at.                           *)
ensure_applied_Always(t) ==
    /\ At(t, "ensure")
    /\ Goto(t, IF deferred THEN "raised" ELSE "use")
    /\ UNCHANGED <<stores, tracing>>

ensure_applied(t) ==
    /\ At(t, "ensure")
    /\ Goto(t, IF ~deferred THEN "use" ELSE IF call[t].arg = "memory" THEN "raised" ELSE "applied")
    /\ UNCHANGED <<stores, tracing>>

(* The guard takes an installed durable store for the declared one.        *)
satisfied(t) ==
    /\ At(t, "applied")
    /\ deferred' = FALSE
    /\ Goto(t, "use")
    /\ UNCHANGED <<setting, store, warned, ack, disturbed, tracing>>

(* The put or the get itself, or the ValueError, and the call is over.     *)
use_store(t) ==
    /\ At(t, "use") \/ At(t, "raised")
    /\ Return(t)
    /\ UNCHANGED <<stores, tracing>>

Enter(t) ==
    \/ \E y \in Declarations, traces \in BOOLEAN : Call(t, "load", y, traces)
    \/ \E y \in Declarations : Call(t, "setup", y, FALSE)
    \/ \E b \in {"memory", "durable", "unsupported"} : Call(t, "configure", b, FALSE)
    \/ \E s \in {"memory", "durable"} : Call(t, "set", s, FALSE)
    \/ Call(t, "reset", "-", FALSE)
    \/ Call(t, "flush", "shutdown", FALSE)
    \/ Call(t, "look", "-", FALSE)

Next == \E t \in Threads :
    \/ Enter(t)
    \/ load_config(t) \/ log_options(t) \/ refresh(t) \/ rearm(t)
    \/ tracing_shutdown(t) \/ flush_raises(t) \/ detach(t) \/ provide(t) \/ keep(t)
    \/ reset_job_store(t) \/ reset_mismatch_warning(t)
    \/ setup_from_config(t) \/ configure_job_store(t)
    \/ set_job_store(t) \/ install(t) \/ mark_applied(t)
    \/ look(t) \/ ensure_applied(t) \/ satisfied(t) \/ use_store(t)

Spec == Init /\ [][Next]_vars

-----------------------------------------------------------------------------
(* A call that had the process to itself, when nothing before it was left  *)
(* half done.                                                              *)
Undisturbed(t) == call[t].alone /\ ~disturbed

(* Job.save never falls back to memory silently: with a durable backend in *)
(* the YAML it reaches a memory store only if the application asked for    *)
(* one since the last load or reset, either by installing it (then the     *)
(* mismatch was warned about) or by a setup_from_config that says memory.  *)
NoSilentMemory ==
    \A t \in Threads :
        At(t, "use") /\ Undisturbed(t) /\ store = "memory" /\ setting = "durable"
        => ack = "kept" \/ (ack = "installed" /\ warned)

(* The guard raises no false alarm: when it refuses a save, the YAML does  *)
(* declare a durable backend, the store is memory and nobody asked for it. *)
(* Configure before load, and a reload after setup, pass.                  *)
NoFalseAlarm ==
    \A t \in Threads :
        At(t, "raised") /\ Undisturbed(t)
        => store = "memory" /\ setting = "durable" /\ ack = "no"

(* No load leaks a tracer provider, whether it ends or raises half way:    *)
(* the one that is live is the one spans go to and the one the next        *)
(* shutdown will flush.                                                    *)
OneProvider ==
    ~tangled /\ (\A t \in Threads : call[t].pc \notin TracingPcs)
    => tracer = provider /\ live = {provider} \ {0}
=============================================================================
