----------------------------- MODULE Lifecycle -----------------------------
(***************************************************************************)
(* The lifecycle of a job: the statuses, the transition table of the       *)
(* scheduler FSM, and the rule by which a job store decides whether a      *)
(* snapshot may replace the row it already holds.  Constant operators only.*)
(***************************************************************************)
EXTENDS Naturals

(* No status: what a store holds for an id it has no row for.              *)
None == "None"

NonTerminal == {"Unknown", "Initializing", "Scheduled", "InProgress"}

Terminal == {"Failed", "Completed", "Cancelled"}

Status == NonTerminal \cup Terminal

Events == {"INIT", "SCHEDULE", "RUN", "FAIL", "COMPLETE", "CANCEL"}

(* The transition table every job's FSM is built from.                     *)
Transitions ==
    { [event |-> "INIT",     from |-> {"Unknown"},                 to |-> "Initializing"],
      [event |-> "SCHEDULE", from |-> {"Initializing"},            to |-> "Scheduled"],
      [event |-> "RUN",      from |-> {"Scheduled"},               to |-> "InProgress"],
      [event |-> "FAIL",     from |-> {"InProgress"},              to |-> "Failed"],
      [event |-> "COMPLETE", from |-> {"InProgress"},              to |-> "Completed"],
      [event |-> "CANCEL",   from |-> {"Scheduled", "InProgress"}, to |-> "Cancelled"] }

(* The states event e leads to from status s: one, or none when the FSM    *)
(* answers ERROR_INVALID_EVENT.                                            *)
Targets(e, s) == {t.to : t \in {u \in Transitions : u.event = e /\ s \in u.from}}

(* The pairs of statuses one event connects, and those it takes at most    *)
(* four events to connect: the longest path of the table.                  *)
EventSteps == UNION {{<<s, t.to>> : s \in t.from} : t \in Transitions}

Moves == EventSteps \cup {<<s, s>> : s \in Status}

FSMPaths ==
    {p \in Status \X Status : \E a, b, c \in Status :
        <<p[1], a>> \in Moves /\ <<a, b>> \in Moves /\ <<b, c>> \in Moves /\ <<c, p[2]>> \in Moves}

FSMLeads(s, t) == <<s, t>> \in FSMPaths

-----------------------------------------------------------------------------
(* The status fence.                                                       *)

(* Mutant: a terminal status may replace any other.                        *)
MayReplace_AnyTerminal(s) ==
    CASE s = "Unknown"      -> {"Unknown"}
      [] s = "Initializing" -> {"Unknown", "Initializing"}
      [] s = "Scheduled"    -> {"Unknown", "Initializing", "Scheduled"}
      [] s = "InProgress"   -> NonTerminal
      [] s \in Terminal     -> NonTerminal \cup Terminal
      [] OTHER              -> {s}

(* The statuses a put of status s is allowed to overwrite.                 *)
existing_statuses_put_may_replace(s) ==
    CASE s = "Unknown"      -> {"Unknown"}
      [] s = "Initializing" -> {"Unknown", "Initializing"}
      [] s = "Scheduled"    -> {"Unknown", "Initializing", "Scheduled"}
      [] s = "InProgress"   -> NonTerminal
      [] s \in Terminal     -> NonTerminal \cup {s}
      [] OTHER              -> {s}

put_applies(existing, s) ==
    \/ existing = None
    \/ existing \in existing_statuses_put_may_replace(s)

(* Mutant: the version is not compared.                                    *)
put_may_write_FenceOnly(existing, s, v) ==
    existing.status = None \/ put_applies(existing.status, s)

(* The fence, and the version check of an update.                          *)
put_may_write(existing, s, v) ==
    \/ existing.status = None
    \/ put_applies(existing.status, s) /\ existing.version = v

-----------------------------------------------------------------------------
(* Rows: the part of a stored JobRecord that decides anything.             *)
Row == [status : Status \cup {None}, version : Nat]

NoRow == [status |-> None, version |-> 0]

(* What put leaves in the place of row `existing`: a first insert keeps    *)
(* the record's version, an update increments the stored one.              *)
put(existing, s, v) ==
    IF existing.status = None
    THEN [status |-> s, version |-> v]
    ELSE IF put_may_write(existing, s, v)
         THEN [status |-> s, version |-> existing.version + 1]
         ELSE existing
=============================================================================
