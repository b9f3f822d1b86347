--------------------------- MODULE SwarmScheduler ---------------------------
(***************************************************************************)
(* The cooperative swarm scheduler of src/src/axiom_qwen38_swarm_          *)
(* scheduler.cpp.  Every public operation holds the scheduler's mutex from *)
(* its first to its last line, so each is one atomic step on the state     *)
(* `sched`; the helpers of struct impl are functions from one scheduler    *)
(* state to the next, composed in the order in which the code calls them.  *)
(*                                                                         *)
(* Identifiers are positions: next_agent_id, next_wave_id and next_task_id *)
(* start at 1, grow by one and nothing is ever erased, so the std::maps    *)
(* are sequences; 0 is "no id".  An optional value is a set of at most one *)
(* element.  Time is the caller's: an operation is given a `now` that its  *)
(* caller read before it got the mutex, at most Skew behind the clock.     *)
(* Events, names, reasons and the counters no guard and no property reads  *)
(* are left out; a call the code rejects without touching the state above  *)
(* is no step.                                                             *)
(***************************************************************************)
EXTENDS Integers, Sequences, FiniteSets

CONSTANTS
    MaxConcurrent,      \* config.max_concurrent
    MaxQueued,          \* config.max_queued_tasks
    MaxDelay,           \* the largest std::chrono::milliseconds
    AgentSpecs,         \* the agents callers register
    WaveSpecs,          \* the waves callers create, without their parents
    TaskSpecs,          \* the tasks callers submit, without wave and parents
    AgentState,         \* administrative states: idle and those that are not
    Tokens,             \* the token counts workers report
    Skew,               \* how stale a caller's `now` may be
    MaxAgents, MaxWaves, MaxTasks, MaxClock     \* bounds of the model

\* What the records that callers pass can hold.  should_retry never consults the
\* policy for a success or a cancellation, so retry_on holds only the other three.
TaskSpec ==
    [wave : Nat, parent_wave : Nat, parent_task : Nat, priority : Int,
     max_tokens : SUBSET Nat, max_duration : SUBSET Int, max_attempts : Nat,
     retry_on : SUBSET {"failed", "timed_out", "budget_exhausted"},
     backoff : Int, exponential : BOOLEAN, max_backoff : Int]

ASSUME SpecsAssumption ==
    /\ AgentSpecs \subseteq [max_concurrent : Nat]
    /\ WaveSpecs \subseteq [max_concurrent : SUBSET Nat, parent_wave : Nat, parent_task : Nat]
    /\ TaskSpecs \subseteq TaskSpec
    /\ Tokens \subseteq Nat
    /\ "idle" \in AgentState

ASSUME ConfigAssumption ==
    /\ MaxConcurrent \in Nat \ {0}
    /\ {MaxQueued, MaxDelay, Skew, MaxAgents, MaxWaves, MaxTasks, MaxClock} \subseteq Nat

VARIABLES
    sched,              \* struct impl: what the mutex protects
    clock               \* the steady clock

vars == <<sched, clock>>

(***************************************************************************)
(* The records.                                                            *)
(***************************************************************************)
Outcome == {"succeeded", "failed", "timed_out", "budget_exhausted", "cancelled"}
Waiting == {"queued", "retry_wait"}
TaskState == Outcome \cup Waiting \cup {"running"}
WaveState == Outcome \cup {"pending", "running", "cancelling"}

is_terminal(state) == state \in Outcome

agent_record(spec) ==
    [spec |-> spec, administrative_state |-> "idle", active_tasks |-> 0]

wave_record(spec) ==
    [spec |-> spec, state |-> "pending", cancellation_requested |-> FALSE,
     has_started |-> FALSE, active_tasks |-> 0]

task_record(spec, seq) ==
    [spec |-> spec, state |-> "queued", queue_sequence |-> seq,
     attempts_started |-> 0, tokens_used |-> 0, agent_id |-> 0,
     cancellation_requested |-> FALSE, deadline |-> {},
     retry_not_before |-> {}]

impl == [agents |-> <<>>, waves |-> <<>>, tasks |-> <<>>, active_tasks |-> 0,
         next_queue_sequence |-> 1, final |-> [o \in Outcome |-> 0]]

TasksOf(s) == DOMAIN s.tasks
WavesOf(s) == DOMAIN s.waves
AgentsOf(s) == DOMAIN s.agents
TasksIn(s, states) == {i \in TasksOf(s) : s.tasks[i].state \in states}
queued_task_count(s) == Cardinality(TasksIn(s, Waiting))

(***************************************************************************)
(* The wave hierarchy.  A wave's parent is another wave or the wave of its *)
(* parent task; both existed before it, so the walk towards the root ends. *)
(***************************************************************************)
ParentWave(s, w) ==
    LET parent == s.waves[w].spec
    IN  IF parent.parent_wave # 0 THEN parent.parent_wave
        ELSE IF parent.parent_task # 0 THEN s.tasks[parent.parent_task].spec.wave
        ELSE 0

wave_is_descendant(s, candidate, ancestor) ==
    LET reaches[w \in 0 .. Len(s.waves)] ==
            /\ w # 0
            /\ \/ ParentWave(s, w) = ancestor
               \/ reaches[ParentWave(s, w)]
    IN  reaches[candidate]

WaveTree(s, ancestor) ==
    {w \in WavesOf(s) : w = ancestor \/ wave_is_descendant(s, w, ancestor)}

task_belongs_to_wave_tree(s, task, ancestor) ==
    LET belongs[i \in TasksOf(s)] ==
            LET spec == s.tasks[i].spec
            IN  \/ {spec.wave, spec.parent_wave} \cap WaveTree(s, ancestor) # {}
                \/ spec.parent_task # 0 /\ belongs[spec.parent_task]
    IN  belongs[task]

(***************************************************************************)
(* A wave's state follows the states of its tasks.                         *)
(***************************************************************************)
WaveVerdict(wave, states) ==
    CASE states = {} -> IF wave.cancellation_requested THEN "cancelled" ELSE wave.state
      [] states # {} /\ wave.cancellation_requested ->
             IF states \subseteq Outcome THEN "cancelled" ELSE "cancelling"
      [] states # {} /\ ~wave.cancellation_requested /\ ~(states \subseteq Outcome) ->
             IF wave.has_started THEN "running" ELSE wave.state
      [] OTHER ->
             IF "failed" \in states THEN "failed"
             ELSE IF "timed_out" \in states THEN "timed_out"
             ELSE IF "budget_exhausted" \in states THEN "budget_exhausted"
             ELSE IF "cancelled" \in states THEN "cancelled"
             ELSE "succeeded"

StatesIn(s, w) ==
    {s.tasks[i].state : i \in {j \in TasksOf(s) : s.tasks[j].spec.wave = w}}

recompute_wave(s, W) ==
    [s EXCEPT !.waves = [w \in WavesOf(s) |->
        IF w \notin W THEN s.waves[w]
        ELSE [s.waves[w] EXCEPT !.state = WaveVerdict(s.waves[w], StatesIn(s, w))]]]

(***************************************************************************)
(* The end of an attempt: a retry or a final state.                        *)
(***************************************************************************)
retry_delay(spec, completed_attempt) ==
    LET shift == completed_attempt - 1
        value == IF ~spec.exponential \/ completed_attempt <= 1 THEN spec.backoff
                 ELSE IF shift >= 63 \/ spec.backoff > MaxDelay \div 2^shift THEN MaxDelay
                 ELSE spec.backoff * 2^shift
    IN  IF spec.backoff <= 0 THEN 0
        ELSE IF spec.max_backoff > 0 /\ value > spec.max_backoff THEN spec.max_backoff
        ELSE value

\* Mutant of should_retry: one attempt too many.
should_retry_LateCutoff(task, outcome) ==
    /\ task.attempts_started <= task.spec.max_attempts
    /\ outcome \in task.spec.retry_on

should_retry(task, outcome) ==
    /\ task.attempts_started < task.spec.max_attempts
    /\ outcome \in task.spec.retry_on

FinishedTask(task, outcome, seq, now) ==
    IF should_retry(task, outcome)
    THEN [task EXCEPT !.state = "retry_wait", !.queue_sequence = seq,
                      !.tokens_used = 0, !.agent_id = 0, !.deadline = {},
                      !.cancellation_requested = FALSE,
                      !.retry_not_before = {now + retry_delay(task.spec, task.attempts_started)}]
    ELSE [task EXCEPT !.state = outcome, !.agent_id = 0, !.deadline = {},
                      !.retry_not_before = {}]

\* The code's guarded decrement of an unsigned counter, k times.
Less(n, k) == IF n > k THEN n - k ELSE 0

\* Mutant of release_resources: the wave's slot is never given back.
release_resources_KeepsWave(s, F) ==
    [s EXCEPT
        !.active_tasks = Less(@, Cardinality(F)),
        !.agents = [a \in AgentsOf(s) |-> [s.agents[a] EXCEPT !.active_tasks =
                        Less(@, Cardinality({i \in F : s.tasks[i].agent_id = a}))]]]

release_resources(s, F) ==
    [s EXCEPT
        !.active_tasks = Less(@, Cardinality(F)),
        !.agents = [a \in AgentsOf(s) |-> [s.agents[a] EXCEPT !.active_tasks =
                        Less(@, Cardinality({i \in F : s.tasks[i].agent_id = a}))]],
        !.waves = [w \in WavesOf(s) |-> [s.waves[w] EXCEPT !.active_tasks =
                        Less(@, Cardinality({i \in F : s.tasks[i].spec.wave = w}))]]]

\* Mutant of finish_attempt: an attempt that is retried counts as final too.
finish_attempt_CountsRetries(s, F, outcome, now) ==
    LET retried == {i \in F : should_retry(s.tasks[i], outcome[i])}
        seq(i)  == s.next_queue_sequence + Cardinality({j \in retried : j < i})
        ended   == [release_resources(s, F) EXCEPT
            !.tasks = [i \in TasksOf(s) |->
                IF i \in F THEN FinishedTask(s.tasks[i], outcome[i], seq(i), now)
                           ELSE s.tasks[i]],
            !.next_queue_sequence = @ + Cardinality(retried),
            !.final = [o \in Outcome |->
                s.final[o] + Cardinality({i \in F : outcome[i] = o})]]
    IN  recompute_wave(ended, {s.tasks[i].spec.wave : i \in F})

\* finish_attempt for every task of F, in ascending order of their ids; what an
\* earlier one does to the queue sequence is all that a later one sees of it.
finish_attempt(s, F, outcome, now) ==
    LET retried == {i \in F : should_retry(s.tasks[i], outcome[i])}
        seq(i)  == s.next_queue_sequence + Cardinality({j \in retried : j < i})
        ended   == [release_resources(s, F) EXCEPT
            !.tasks = [i \in TasksOf(s) |->
                IF i \in F THEN FinishedTask(s.tasks[i], outcome[i], seq(i), now)
                           ELSE s.tasks[i]],
            !.next_queue_sequence = @ + Cardinality(retried),
            !.final = [o \in Outcome |->
                s.final[o] + Cardinality({i \in F \ retried : outcome[i] = o})]]
    IN  recompute_wave(ended, {s.tasks[i].spec.wave : i \in F})

Expired(s, now) == {i \in TasksIn(s, {"running"}) : \E d \in s.tasks[i].deadline : now >= d}

\* Mutant of expire_running: a deadline forgets that the task was cancelled.
expire_running_ForgetsCancel(s, now) ==
    finish_attempt(s, Expired(s, now), [i \in Expired(s, now) |-> "timed_out"], now)

expire_running(s, now) ==
    finish_attempt(s, Expired(s, now),
        [i \in Expired(s, now) |->
            IF s.tasks[i].cancellation_requested THEN "cancelled" ELSE "timed_out"],
        now)

(***************************************************************************)
(* Cancellation: a waiting task ends at once, a running one is asked to.   *)
(***************************************************************************)
\* Mutant of CancelledTask: the early return for terminal tasks is missing.
CancelledTask_EvenTerminal(task) ==
    IF task.state # "running"
    THEN [task EXCEPT !.state = "cancelled", !.cancellation_requested = TRUE,
                      !.retry_not_before = {}]
    ELSE [task EXCEPT !.cancellation_requested = TRUE]

CancelledTask(task) ==
    IF task.state \in Waiting
    THEN [task EXCEPT !.state = "cancelled", !.cancellation_requested = TRUE,
                      !.retry_not_before = {}]
    ELSE IF task.state = "running" THEN [task EXCEPT !.cancellation_requested = TRUE]
    ELSE task

\* Mutant of cancel_task_locked: the wave is not recomputed.
cancel_task_locked_StaleWave(s, C) ==
    [s EXCEPT
        !.tasks = [i \in TasksOf(s) |->
            IF i \in C THEN CancelledTask(s.tasks[i]) ELSE s.tasks[i]],
        !.final["cancelled"] = @ + Cardinality(C \cap TasksIn(s, Waiting))]

cancel_task_locked(s, C) ==
    LET before_run == C \cap TasksIn(s, Waiting)
        cancelled  == [s EXCEPT
            !.tasks = [i \in TasksOf(s) |->
                IF i \in C THEN CancelledTask(s.tasks[i]) ELSE s.tasks[i]],
            !.final["cancelled"] = @ + Cardinality(before_run)]
    IN  recompute_wave(cancelled, {s.tasks[i].spec.wave : i \in before_run})

cancel_waves(s, W) ==
    [s EXCEPT !.waves = [w \in WavesOf(s) |->
        IF w \notin W THEN s.waves[w]
        ELSE [s.waves[w] EXCEPT !.cancellation_requested = TRUE,
                !.state = IF @ \in {"pending", "running"} THEN "cancelling" ELSE @]]]

(***************************************************************************)
(* Admission.                                                              *)
(***************************************************************************)
AgentAvailable(agent) ==
    agent.administrative_state = "idle" /\ agent.active_tasks < agent.spec.max_concurrent

\* Mutant of Eligible: the wave's limit is compared with <=.
Eligible_WaveOverrun(s, i, now) ==
    LET task == s.tasks[i]
    IN  /\ ~task.cancellation_requested
        /\ task.state \in Waiting
        /\ \A t \in task.retry_not_before : now >= t
        /\ task.spec.wave # 0 =>
              LET wave == s.waves[task.spec.wave]
              IN  /\ ~wave.cancellation_requested
                  /\ \A m \in wave.spec.max_concurrent : wave.active_tasks <= m

Eligible(s, i, now) ==
    LET task == s.tasks[i]
    IN  /\ ~task.cancellation_requested
        /\ task.state \in Waiting
        /\ \A t \in task.retry_not_before : now >= t
        /\ task.spec.wave # 0 =>
              LET wave == s.waves[task.spec.wave]
              IN  /\ ~wave.cancellation_requested
                  /\ \A m \in wave.spec.max_concurrent : wave.active_tasks < m

\* Mutant of Before: the newest task of a priority goes first.
Before_NewestFirst(s, i, j) ==
    \/ s.tasks[i].spec.priority > s.tasks[j].spec.priority
    \/ /\ s.tasks[i].spec.priority = s.tasks[j].spec.priority
       /\ s.tasks[i].queue_sequence > s.tasks[j].queue_sequence

\* The code's preference: priority, then arrival.
Before(s, i, j) ==
    \/ s.tasks[i].spec.priority > s.tasks[j].spec.priority
    \/ /\ s.tasks[i].spec.priority = s.tasks[j].spec.priority
       /\ s.tasks[i].queue_sequence < s.tasks[j].queue_sequence

Selected(s, now) ==
    {i \in TasksOf(s) : /\ Eligible(s, i, now)
                        /\ \A j \in TasksOf(s) \ {i} : Eligible(s, j, now) => Before(s, i, j)}

FirstAgent(s) ==
    {a \in AgentsOf(s) : /\ AgentAvailable(s.agents[a])
                         /\ \A b \in 1 .. a - 1 : ~AgentAvailable(s.agents[b])}

StartedTask(task, a, now) ==
    [task EXCEPT !.state = "running", !.attempts_started = @ + 1, !.tokens_used = 0,
                 !.agent_id = a, !.retry_not_before = {},
                 !.deadline = {now + d : d \in task.spec.max_duration}]

StartedWave(wave) ==
    [wave EXCEPT !.active_tasks = @ + 1, !.has_started = TRUE, !.state = "running"]

BusierAgent(agent) == [agent EXCEPT !.active_tasks = @ + 1]

Admitted(s, i, a, now) ==
    [s EXCEPT
        !.active_tasks = @ + 1,
        !.agents = [s.agents EXCEPT ![a] = BusierAgent(s.agents[a])],
        !.tasks = [s.tasks EXCEPT ![i] = StartedTask(s.tasks[i], a, now)],
        !.waves = [w \in WavesOf(s) |->
            IF w = s.tasks[i].spec.wave THEN StartedWave(s.waves[w]) ELSE s.waves[w]]]

(***************************************************************************)
(* The operations.                                                         *)
(***************************************************************************)
Init == sched = impl /\ clock = 0

\* The readings of the clock a caller may arrive with.
Now == {t \in 0 .. clock : t >= clock - Skew}

Advance ==
    /\ clock < MaxClock
    /\ clock' = clock + 1
    /\ UNCHANGED sched

register_agent(spec) ==
    /\ Len(sched.agents) < MaxAgents
    /\ spec.max_concurrent # 0
    /\ sched' = [sched EXCEPT !.agents = Append(@, agent_record(spec))]
    /\ UNCHANGED clock

KnownParents(spec) ==
    /\ spec.parent_wave \in WavesOf(sched) \cup {0}
    /\ spec.parent_task \in TasksOf(sched) \cup {0}

create_wave(spec) ==
    /\ Len(sched.waves) < MaxWaves
    /\ 0 \notin spec.max_concurrent
    /\ KnownParents(spec)
    /\ sched' = [sched EXCEPT !.waves = Append(@, wave_record(spec))]
    /\ UNCHANGED clock

\* Mutant of submit: a wave that does not exist is not refused.
submit_UnknownWave(spec) ==
    /\ Len(sched.tasks) < MaxTasks
    /\ spec.max_attempts # 0 /\ spec.backoff >= 0 /\ spec.max_backoff >= 0
    /\ \A d \in spec.max_duration : d >= 0
    /\ spec.wave \in WavesOf(sched) =>
          /\ ~is_terminal(sched.waves[spec.wave].state)
          /\ ~sched.waves[spec.wave].cancellation_requested
    /\ KnownParents(spec)
    /\ queued_task_count(sched) < MaxQueued
    /\ sched' = [sched EXCEPT
                    !.tasks = Append(@, task_record(spec, sched.next_queue_sequence)),
                    !.next_queue_sequence = @ + 1]
    /\ UNCHANGED clock

\* Mutant of submit: only terminal waves refuse a task.
submit_IntoCancelling(spec) ==
    /\ Len(sched.tasks) < MaxTasks
    /\ spec.max_attempts # 0 /\ spec.backoff >= 0 /\ spec.max_backoff >= 0
    /\ \A d \in spec.max_duration : d >= 0
    /\ spec.wave # 0 =>
          /\ spec.wave \in WavesOf(sched)
          /\ ~is_terminal(sched.waves[spec.wave].state)
    /\ KnownParents(spec)
    /\ queued_task_count(sched) < MaxQueued
    /\ sched' = [sched EXCEPT
                    !.tasks = Append(@, task_record(spec, sched.next_queue_sequence)),
                    !.next_queue_sequence = @ + 1]
    /\ UNCHANGED clock

\* Mutant of submit: the queue limit is compared with <=.
submit_OneTooMany(spec) ==
    /\ Len(sched.tasks) < MaxTasks
    /\ spec.max_attempts # 0 /\ spec.backoff >= 0 /\ spec.max_backoff >= 0
    /\ \A d \in spec.max_duration : d >= 0
    /\ spec.wave # 0 =>
          /\ spec.wave \in WavesOf(sched)
          /\ ~is_terminal(sched.waves[spec.wave].state)
          /\ ~sched.waves[spec.wave].cancellation_requested
    /\ KnownParents(spec)
    /\ queued_task_count(sched) <= MaxQueued
    /\ sched' = [sched EXCEPT
                    !.tasks = Append(@, task_record(spec, sched.next_queue_sequence)),
                    !.next_queue_sequence = @ + 1]
    /\ UNCHANGED clock

submit(spec) ==
    /\ Len(sched.tasks) < MaxTasks
    /\ spec.max_attempts # 0 /\ spec.backoff >= 0 /\ spec.max_backoff >= 0
    /\ \A d \in spec.max_duration : d >= 0
    /\ spec.wave # 0 =>
          /\ spec.wave \in WavesOf(sched)
          /\ ~is_terminal(sched.waves[spec.wave].state)
          /\ ~sched.waves[spec.wave].cancellation_requested
    /\ KnownParents(spec)
    /\ queued_task_count(sched) < MaxQueued
    /\ sched' = [sched EXCEPT
                    !.tasks = Append(@, task_record(spec, sched.next_queue_sequence)),
                    !.next_queue_sequence = @ + 1]
    /\ UNCHANGED clock

\* admit_next when its lease is for task i; without a lease it is tick.
admit_next(i, now) ==
    LET s == expire_running(sched, now)
    IN  /\ s.active_tasks < MaxConcurrent
        /\ i \in Selected(s, now)
        /\ \E a \in FirstAgent(s) : sched' = Admitted(s, i, a, now)
        /\ UNCHANGED clock

\* An accepted report; a rejected one is tick, and so is a rejected completion.
report_progress(i, tokens, now) ==
    LET s        == expire_running(sched, now)
        reported == [s EXCEPT !.tasks[i].tokens_used = tokens]
        spent    == \E m \in s.tasks[i].spec.max_tokens : tokens >= m
    IN  /\ i \in TasksIn(s, {"running"})
        /\ tokens >= s.tasks[i].tokens_used
        /\ sched' = IF spent /\ ~s.tasks[i].cancellation_requested
                    THEN finish_attempt(reported, {i}, [j \in {i} |-> "budget_exhausted"], now)
                    ELSE reported
        /\ UNCHANGED clock

complete(i, reported, tokens, now) ==
    LET s       == expire_running(sched, now)
        spent   == \E m \in s.tasks[i].spec.max_tokens : tokens > m
        outcome == IF s.tasks[i].cancellation_requested THEN "cancelled"
                   ELSE IF spent THEN "budget_exhausted"
                   ELSE reported
    IN  /\ i \in TasksIn(s, {"running"})
        /\ tokens >= s.tasks[i].tokens_used
        /\ sched' = finish_attempt([s EXCEPT !.tasks[i].tokens_used = tokens],
                                   {i}, [j \in {i} |-> outcome], now)
        /\ UNCHANGED clock

cancel_task(i, now) ==
    /\ sched' = cancel_task_locked(expire_running(sched, now), {i})
    /\ UNCHANGED clock

cancel_wave(w, include_descendants, now) ==
    LET s == expire_running(sched, now)
        W == IF include_descendants THEN WaveTree(s, w) ELSE {w}
        C == {i \in TasksOf(s) : \/ s.tasks[i].spec.wave \in W
                                 \/ /\ include_descendants
                                    /\ task_belongs_to_wave_tree(s, i, w)}
    IN  /\ sched' = recompute_wave(cancel_task_locked(cancel_waves(s, W), C), W)
        /\ UNCHANGED clock

tick(now) ==
    /\ sched' = expire_running(sched, now)
    /\ UNCHANGED clock

set_agent_state(a, state) ==
    /\ sched' = [sched EXCEPT !.agents[a].administrative_state = state]
    /\ UNCHANGED clock

Next ==
    \/ Advance
    \/ \E spec \in AgentSpecs : register_agent(spec)
    \/ \E spec \in WaveSpecs : create_wave(spec)
    \/ \E spec \in TaskSpecs : submit(spec)
    \/ \E a \in AgentsOf(sched), state \in AgentState : set_agent_state(a, state)
    \/ \E now \in Now :
          \/ tick(now)
          \/ \E i \in TasksOf(sched) :
                \/ admit_next(i, now)
                \/ cancel_task(i, now)
                \/ \E tokens \in Tokens : report_progress(i, tokens, now)
                \/ \E tokens \in Tokens, outcome \in Outcome : complete(i, outcome, tokens, now)
          \/ \E w \in WavesOf(sched), deep \in BOOLEAN : cancel_wave(w, deep, now)

Spec == Init /\ [][Next]_vars

(***************************************************************************)
(* What the scheduler promises.                                            *)
(***************************************************************************)
Agent == [spec : AgentSpecs, administrative_state : AgentState, active_tasks : Nat]
Wave == [spec : WaveSpecs, state : WaveState, cancellation_requested : BOOLEAN,
         has_started : BOOLEAN, active_tasks : Nat]
Task == [spec : TaskSpecs, state : TaskState, queue_sequence : Nat,
         attempts_started : Nat, tokens_used : Nat, agent_id : Nat,
         cancellation_requested : BOOLEAN, deadline : SUBSET Int,
         retry_not_before : SUBSET Int]
Sched == [agents : Seq(Agent), waves : Seq(Wave), tasks : Seq(Task),
          active_tasks : Nat, next_queue_sequence : Nat, final : [Outcome -> Nat]]

\* The scheduler's records keep their types, and every id a record holds names
\* an existing agent, wave or task.
TypeOK ==
    /\ sched \in Sched
    /\ clock \in 0 .. MaxClock
    /\ \A i \in TasksOf(sched) :
          /\ sched.tasks[i].agent_id \in AgentsOf(sched) \cup {0}
          /\ sched.tasks[i].spec.wave \in WavesOf(sched) \cup {0}

\* The three counters the admission guards read (the scheduler's, the agent's
\* and the wave's active_tasks) are exactly the running tasks, whatever mix of
\* completion, expiry, retry, budget and cancellation ended the others: no slot
\* leaks and none is handed out twice.
LeaseAccounting ==
    LET running == TasksIn(sched, {"running"})
    IN  /\ sched.active_tasks = Cardinality(running)
        /\ \A a \in AgentsOf(sched) : sched.agents[a].active_tasks =
              Cardinality({i \in running : sched.tasks[i].agent_id = a})
        /\ \A w \in WavesOf(sched) : sched.waves[w].active_tasks =
              Cardinality({i \in running : sched.tasks[i].spec.wave = w})
        /\ \A i \in TasksOf(sched) : i \in running <=> sched.tasks[i].agent_id # 0

\* The concurrency limits of the scheduler, of each agent and of each wave
\* bound the tasks that really run.
WithinLimits ==
    LET running == TasksIn(sched, {"running"})
    IN  /\ Cardinality(running) <= MaxConcurrent
        /\ \A a \in AgentsOf(sched) : sched.agents[a].spec.max_concurrent >=
              Cardinality({i \in running : sched.tasks[i].agent_id = a})
        /\ \A w \in WavesOf(sched) : \A m \in sched.waves[w].spec.max_concurrent :
              m >= Cardinality({i \in running : sched.tasks[i].spec.wave = w})

\* A wave that was asked to cancel holds no task that could still start: what
\* is not final is running and knows of the request, so the wave can only
\* drain.  Retries scheduled before, and submissions after, included.
CancelledWaveDrains ==
    \A i \in TasksOf(sched) :
        LET task == sched.tasks[i]
        IN  (task.spec.wave # 0 /\ ~is_terminal(task.state)) =>
                (sched.waves[task.spec.wave].cancellation_requested =>
                    task.state = "running" /\ task.cancellation_requested)

\* The state a wave reports, kept up to date incrementally by recompute_wave,
\* is the verdict over the present states of its tasks, so no operation that
\* changes a task forgets its wave.
WaveStateIsVerdict ==
    \A w \in WavesOf(sched) :
        LET wave   == sched.waves[w]
            states == StatesIn(sched, w)
            open   == states \ Outcome # {}
        IN  /\ wave.cancellation_requested =>
                  wave.state = IF open THEN "cancelling" ELSE "cancelled"
            /\ ~wave.cancellation_requested =>
                  IF states = {} \/ open
                  THEN wave.state = IF wave.has_started THEN "running" ELSE "pending"
                  ELSE /\ wave.state \in states
                       /\ wave.state = "succeeded" => states = {"succeeded"}
                       /\ wave.state = "cancelled" => states \subseteq {"succeeded", "cancelled"}
            /\ wave.has_started <=>
                  \E i \in TasksOf(sched) : sched.tasks[i].spec.wave = w
                                            /\ sched.tasks[i].attempts_started > 0

\* Retries re-enter the queue past the admission limit, yet the tasks that wait
\* or run never exceed the queue limit plus the concurrency limit.
BacklogBounded ==
    Cardinality(TasksIn(sched, Waiting \cup {"running"})) <= MaxQueued + MaxConcurrent

\* The final_* telemetry counts each ended task once, under the state it has.
TelemetryAgrees ==
    \A o \in Outcome : sched.final[o] = Cardinality(TasksIn(sched, {o}))

\* A running attempt that nobody cancelled is within its token budget and no
\* task is started more often than its retry policy allows.
BudgetHeld ==
    \A i \in TasksOf(sched) :
        LET task == sched.tasks[i]
        IN  /\ task.attempts_started <= task.spec.max_attempts
            /\ task.state = "retry_wait" => task.attempts_started < task.spec.max_attempts
            /\ (task.state = "running" /\ ~task.cancellation_requested) =>
                  \A m \in task.spec.max_tokens : task.tokens_used < m \/ task.tokens_used = 0

\* A cancellation request is never lost: the task may run on, but it is not
\* retried, not started again and ends as cancelled, even when its deadline, its
\* budget or a worker's success arrive first.
CancellationSticks ==
    [][\A i \in TasksOf(sched) :
          (sched.tasks[i].cancellation_requested /\ ~is_terminal(sched.tasks[i].state)) =>
              /\ sched'.tasks[i].cancellation_requested
              /\ sched'.tasks[i].state \in {"running", "cancelled"}]_vars

\* A task's final state is final, and a task only starts while it waits.
TerminalForever ==
    [][\A i \in TasksOf(sched) :
          /\ is_terminal(sched.tasks[i].state) => sched'.tasks[i] = sched.tasks[i]
          /\ sched'.tasks[i].attempts_started # sched.tasks[i].attempts_started =>
                /\ sched'.tasks[i].state = "running"
                /\ sched'.tasks[i].attempts_started = sched.tasks[i].attempts_started + 1]_vars

\* admit_next is FIFO within a priority: a task never overtakes one of the same
\* wave and at least its priority that was submitted earlier and still waits for
\* its first attempt.
NoOvertaking ==
    [][\A i, j \in TasksOf(sched) :
          (/\ i < j
           /\ sched.tasks[i].state = "queued"
           /\ sched.tasks[i].spec.wave = sched.tasks[j].spec.wave
           /\ sched.tasks[i].spec.priority >= sched.tasks[j].spec.priority
           /\ sched.tasks[j].state # "running")
          => sched'.tasks[j].state # "running"]_vars

\* SWARM.md: the scheduler tracks "dependencies, completion and failure
\* propagation".  Read as: a task does not start once the task it depends on (its
\* parent_task) has failed for good.
FailurePropagates ==
    [][\A i \in TasksOf(sched) :
          LET parent == sched.tasks[i].spec.parent_task
          IN  (parent # 0 /\ sched.tasks[i].state \in Waiting) =>
                  (sched.tasks[parent].state = "failed" => sched'.tasks[i].state # "running")]_vars
=============================================================================
