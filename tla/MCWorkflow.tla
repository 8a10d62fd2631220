----------------------------- MODULE MCWorkflow -----------------------------
(* An instance of Workflow for TLC.                                        *)
EXTENDS Workflow

Plain == [round_timeout |-> 1, round_timeout_join |-> 0, round_times |-> 1,
          retry_count |-> 0, retry_until_completed |-> FALSE, retry_until_max |-> 1,
          optional |-> FALSE, executor_id |-> "e", executor |-> "returns"]

(* One runner has a task with two rounds that must be joined; the other a  *)
(* task that may hang, with two attempts, one without an executor and one  *)
(* without a timeout.  Only the first can go through a payload.            *)
Hanging ==
    [Plain EXCEPT !.round_timeout_join = 1, !.retry_until_completed = TRUE,
                  !.retry_until_max = 2, !.optional = TRUE, !.executor = "may_hang"]

Inline == [Plain EXCEPT !.round_timeout = 0, !.retry_count = 1, !.executor_id = NoId]

SmallPlan ==
    [r \in Runners |->
        IF r = "r1" THEN <<[Plain EXCEPT !.round_times = 2]>>
        ELSE <<Hanging, [Plain EXCEPT !.executor = "none"], Inline>>]
=============================================================================
