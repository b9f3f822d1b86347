-------------------------- MODULE MCSwarmScheduler --------------------------
(* Small instances of SwarmScheduler for TLC. *)
EXTENDS SwarmScheduler

OneAgentSpec == {[max_concurrent |-> 2]}

BaseWave == [max_concurrent |-> {1}, parent_wave |-> 0, parent_task |-> 0]

BaseTask == [wave |-> 0, parent_wave |-> 0, parent_task |-> 0, priority |-> 0,
             max_tokens |-> {}, max_duration |-> {}, max_attempts |-> 1,
             retry_on |-> {}, backoff |-> 0, exponential |-> FALSE, max_backoff |-> 0]

\* A task of a capped wave that is retried after a timeout and when its tokens are used
\* up, and a more urgent one without a wave, whose tokens are budgeted for one attempt.
MCWaveSpecs == {BaseWave}
MCTaskSpecs ==
    {[BaseTask EXCEPT !.wave = 1, !.max_duration = {1}, !.max_tokens = {1}, !.max_attempts = 2,
                      !.retry_on = {"timed_out", "budget_exhausted"}, !.backoff = 1],
     [BaseTask EXCEPT !.priority = 1, !.max_tokens = {1}]}

\* A wave below a wave and one below a task: the shapes cancel_wave walks.
TreeWaveSpecs ==
    {[BaseWave EXCEPT !.max_concurrent = {}],
     [BaseWave EXCEPT !.max_concurrent = {}, !.parent_wave = 1],
     [BaseWave EXCEPT !.max_concurrent = {}, !.parent_task = 1]}
TreeTaskSpecs ==
    {[BaseTask EXCEPT !.wave = 1],
     [BaseTask EXCEPT !.wave = 2, !.max_attempts = 2, !.retry_on = {"failed"}],
     [BaseTask EXCEPT !.parent_task = 1],
     [BaseTask EXCEPT !.parent_wave = 2]}

\* Retried and one-shot tasks of two priorities that compete for one slot.
QueueTaskSpecs ==
    {[BaseTask EXCEPT !.max_attempts = 2, !.retry_on = {"failed"}, !.backoff = 1],
     [BaseTask EXCEPT !.priority = 1]}
=============================================================================
