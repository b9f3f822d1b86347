------------------------ MODULE SwarmSchedulerProofs ------------------------
(***************************************************************************)
(* Proofs about SwarmScheduler, for every configuration and every set of   *)
(* agents, waves and tasks: the counters admit_next consults are exact and *)
(* the limits they enforce are kept.  The operations are compositions of   *)
(* the helpers of struct impl, so the invariant is stated of a scheduler   *)
(* state s, each helper is shown to preserve it, and the step of an        *)
(* operation chains those lemmas.                                          *)
(***************************************************************************)
EXTENDS SwarmScheduler, FiniteSetTheorems, TLAPS

(***************************************************************************)
(* The inductive invariant.                                                *)
(***************************************************************************)
Running(s) == TasksIn(s, {"running"})
RunningOn(s, a) == {i \in Running(s) : s.tasks[i].agent_id = a}
RunningIn(s, w) == {i \in Running(s) : s.tasks[i].spec.wave = w}

IdsKnown(s) ==
    \A i \in DOMAIN s.tasks : /\ s.tasks[i].agent_id \in DOMAIN s.agents \cup {0}
                              /\ s.tasks[i].spec.wave \in DOMAIN s.waves \cup {0}

Accounts(s) ==
    /\ s.active_tasks = Cardinality(Running(s))
    /\ \A a \in DOMAIN s.agents : s.agents[a].active_tasks = Cardinality(RunningOn(s, a))
    /\ \A w \in DOMAIN s.waves : s.waves[w].active_tasks = Cardinality(RunningIn(s, w))
    /\ \A i \in DOMAIN s.tasks : s.tasks[i].state = "running" <=> s.tasks[i].agent_id # 0

Limits(s) ==
    /\ s.active_tasks <= MaxConcurrent
    /\ \A a \in DOMAIN s.agents : s.agents[a].active_tasks <= s.agents[a].spec.max_concurrent
    /\ \A w \in DOMAIN s.waves : \A m \in s.waves[w].spec.max_concurrent :
          s.waves[w].active_tasks <= m

Good(s) == s \in Sched /\ IdsKnown(s) /\ Accounts(s) /\ Limits(s)

(***************************************************************************)
(* Finite sets and sequences.                                              *)
(***************************************************************************)
\* A function on the domain of a sequence is a sequence of the same length.
LEMMA FunctionIsSeq ==
    ASSUME NEW S, NEW T, NEW q \in Seq(T), NEW f, f \in [DOMAIN q -> S]
    PROVE  f \in Seq(S) /\ Len(f) = Len(q) /\ DOMAIN f = DOMAIN q
  OBVIOUS

\* Taking the ended tasks out of a finite set of tasks is the code's guarded
\* decrement of its counter, and brings no counter up.
LEMMA CountDrops ==
    ASSUME NEW R, IsFiniteSet(R), NEW G \in SUBSET R
    PROVE  /\ Cardinality(R \ G) = Less(Cardinality(R), Cardinality(G))
           /\ Cardinality(R \ G) <= Cardinality(R)
           /\ Cardinality(R \ G) \in Nat
  <1>1. IsFiniteSet(G) /\ IsFiniteSet(R \ G) BY FS_Subset
  <1>2. Cardinality(R) \in Nat /\ Cardinality(G) \in Nat /\ Cardinality(R \ G) \in Nat
    BY <1>1, FS_CardinalityType
  <1>3. Cardinality(R \ G) = Cardinality(R) - Cardinality(R \cap G) BY FS_Difference
  <1>4. Cardinality(R \cap G) = Cardinality(G)
    <2>1. R \cap G = G OBVIOUS
    <2> QED BY <2>1
  <1> DEFINE n == Cardinality(R)  k == Cardinality(G)  d == Cardinality(R \ G)
  <1> HIDE DEF n, k, d
  <1>5. n \in Nat /\ k \in Nat /\ d \in Nat /\ d = n - k BY <1>2, <1>3, <1>4 DEF n, k, d
  <1>6. d = Less(n, k) /\ d <= n /\ d \in Nat BY <1>5 DEF Less
  <1> QED BY <1>6 DEF n, k, d

\* The tasks in given states are finitely many.
LEMMA TasksFinite ==
    ASSUME NEW s \in Sched
    PROVE  /\ IsFiniteSet(DOMAIN s.tasks)
           /\ IsFiniteSet(Running(s))
           /\ \A a : IsFiniteSet(RunningOn(s, a))
           /\ \A w : IsFiniteSet(RunningIn(s, w))
  <1>1. DOMAIN s.tasks = 1 .. Len(s.tasks) /\ Len(s.tasks) \in Nat BY DEF Sched
  <1>2. IsFiniteSet(DOMAIN s.tasks) BY <1>1, FS_Interval
  <1>3. Running(s) \subseteq DOMAIN s.tasks BY DEF Running, TasksIn, TasksOf
  <1>4. IsFiniteSet(Running(s)) BY <1>2, <1>3, FS_Subset
  <1>5. \A a : RunningOn(s, a) \subseteq Running(s) BY DEF RunningOn
  <1>6. \A w : RunningIn(s, w) \subseteq Running(s) BY DEF RunningIn
  <1> QED BY <1>2, <1>4, <1>5, <1>6, FS_Subset

(***************************************************************************)
(* recompute_wave touches nothing but the states of waves.                 *)
(***************************************************************************)
\* The verdict of recompute_wave is one of the states of a wave.
LEMMA VerdictType ==
    ASSUME NEW wave \in Wave, NEW states, states \subseteq TaskState
    PROVE  WaveVerdict(wave, states) \in WaveState
  BY DEF WaveVerdict, Wave, WaveState, Outcome, TaskState

\* What a wave keeps when only its reported state changes.
SameWave(x, y) ==
    /\ x.spec = y.spec
    /\ x.active_tasks = y.active_tasks
    /\ x.cancellation_requested = y.cancellation_requested
    /\ x.has_started = y.has_started

\* recompute_wave changes no field of a wave but its state and its end time.
LEMMA RecomputeShape ==
    ASSUME NEW s \in Sched, NEW W
    PROVE  /\ recompute_wave(s, W) \in Sched
           /\ recompute_wave(s, W).tasks = s.tasks
           /\ recompute_wave(s, W).agents = s.agents
           /\ recompute_wave(s, W).active_tasks = s.active_tasks
           /\ DOMAIN recompute_wave(s, W).waves = DOMAIN s.waves
           /\ \A w \in DOMAIN s.waves : SameWave(recompute_wave(s, W).waves[w], s.waves[w])
  <1> DEFINE X == [w \in WavesOf(s) |->
        IF w \notin W THEN s.waves[w]
        ELSE [s.waves[w] EXCEPT !.state = WaveVerdict(s.waves[w], StatesIn(s, w))]]
  <1> HIDE DEF X
  <1>1. recompute_wave(s, W) = [s EXCEPT !.waves = X] BY DEF recompute_wave, X
  <1>2. s.waves \in Seq(Wave) /\ s.tasks \in Seq(Task) BY DEF Sched
  <1>3. \A w \in DOMAIN s.waves : s.waves[w] \in Wave BY <1>2
  <1>4. \A i \in DOMAIN s.tasks : s.tasks[i].state \in TaskState
    <2>1. \A i \in DOMAIN s.tasks : s.tasks[i] \in Task BY <1>2
    <2> QED BY <2>1 DEF Task
  <1>5. \A w : StatesIn(s, w) \subseteq TaskState
    BY <1>4 DEF StatesIn, TasksOf
  <1>6. \A w \in DOMAIN s.waves : WaveVerdict(s.waves[w], StatesIn(s, w)) \in WaveState
    BY <1>3, <1>5, VerdictType
  <1>7. \A w \in DOMAIN s.waves : X[w] \in Wave /\ SameWave(X[w], s.waves[w])
    BY <1>3, <1>6 DEF X, WavesOf, Wave, SameWave
  <1>8. X \in [DOMAIN s.waves -> Wave] BY <1>7 DEF X, WavesOf
  <1>9. X \in Seq(Wave) /\ DOMAIN X = DOMAIN s.waves BY <1>2, <1>8, FunctionIsSeq
  <1> QED BY <1>1, <1>7, <1>9 DEF Sched

\* Recomputing the states of waves keeps the accounts.
LEMMA RecomputeGood ==
    ASSUME NEW s, Good(s), NEW W
    PROVE  Good(recompute_wave(s, W))
  <1> DEFINE r == recompute_wave(s, W)
  <1>0. s \in Sched BY DEF Good
  <1>1. /\ r \in Sched
        /\ r.tasks = s.tasks /\ r.agents = s.agents /\ r.active_tasks = s.active_tasks
        /\ DOMAIN r.waves = DOMAIN s.waves
    BY <1>0, RecomputeShape
  <1>2. \A w \in DOMAIN s.waves : /\ r.waves[w].active_tasks = s.waves[w].active_tasks
                                  /\ r.waves[w].spec = s.waves[w].spec
    BY <1>0, RecomputeShape DEF SameWave
  <1> HIDE DEF r
  <1>3. Running(r) = Running(s) /\ (\A a : RunningOn(r, a) = RunningOn(s, a))
        /\ (\A w : RunningIn(r, w) = RunningIn(s, w))
    BY <1>1 DEF Running, RunningOn, RunningIn, TasksIn, TasksOf
  <1>4. IdsKnown(r) BY <1>1 DEF IdsKnown, Good
  <1>5. Accounts(r) BY <1>1, <1>2, <1>3 DEF Accounts, Good
  <1>6. Limits(r) BY <1>1, <1>2 DEF Limits, Good
  <1> QED BY <1>1, <1>4, <1>5, <1>6 DEF Good, r

(***************************************************************************)
(* finish_attempt gives back the slots of exactly the tasks it ends.       *)
(***************************************************************************)
\* retry_delay, with its doubling and its cap, is a duration.
LEMMA RetryDelayType ==
    ASSUME NEW spec \in TaskSpecs, NEW n \in Nat
    PROVE  retry_delay(spec, n) \in Int
  <1>1. spec \in TaskSpec BY SpecsAssumption
  <1>2. MaxDelay \in Int BY ConfigAssumption
  <1>3. n > 1 => 2^(n-1) \in Int OBVIOUS
  <1> QED BY <1>1, <1>2, <1>3 DEF retry_delay, TaskSpec

\* A task that finish_attempt has ended, or queued again, is a task.
LEMMA FinishedTaskType ==
    ASSUME NEW task \in Task, NEW o \in Outcome, NEW seq \in Nat, NEW now \in Int
    PROVE  /\ FinishedTask(task, o, seq, now) \in Task
           /\ FinishedTask(task, o, seq, now).agent_id = 0
           /\ FinishedTask(task, o, seq, now).state # "running"
           /\ FinishedTask(task, o, seq, now).spec = task.spec
  <1>1. retry_delay(task.spec, task.attempts_started) \in Int
    BY RetryDelayType DEF Task
  <1>2. {now + retry_delay(task.spec, task.attempts_started)} \in SUBSET Int BY <1>1
  <1>3. o \in TaskState /\ "retry_wait" \in TaskState /\ o # "running"
    BY DEF Outcome, TaskState, Waiting
  <1> QED BY <1>2, <1>3 DEF FinishedTask, Task

\* With the tasks of F no longer running, the reduced counters are exact.
LEMMA ReleaseGood ==
    ASSUME NEW s, Good(s), NEW F \in SUBSET Running(s), NEW r,
           r.tasks \in Seq(Task), DOMAIN r.tasks = DOMAIN s.tasks,
           \A i \in F : r.tasks[i].state # "running" /\ r.tasks[i].agent_id = 0,
           \A i \in DOMAIN s.tasks \ F : r.tasks[i] = s.tasks[i],
           \A i \in F : r.tasks[i].spec = s.tasks[i].spec,
           r.next_queue_sequence \in Nat, r.final \in [Outcome -> Nat],
           r = [release_resources(s, F) EXCEPT !.tasks = r.tasks,
                    !.next_queue_sequence = r.next_queue_sequence, !.final = r.final]
    PROVE  Good(r)
  <1> DEFINE A == [a \in AgentsOf(s) |-> [s.agents[a] EXCEPT !.active_tasks =
                        Less(@, Cardinality({i \in F : s.tasks[i].agent_id = a}))]]
             V == [w \in WavesOf(s) |-> [s.waves[w] EXCEPT !.active_tasks =
                        Less(@, Cardinality({i \in F : s.tasks[i].spec.wave = w}))]]
  <1> HIDE DEF A, V
  <1>0. s \in Sched BY DEF Good
  <1>1. /\ r.agents = A /\ r.waves = V
        /\ r.active_tasks = Less(s.active_tasks, Cardinality(F))
        /\ r = [agents |-> A, waves |-> V, tasks |-> r.tasks,
                active_tasks |-> Less(s.active_tasks, Cardinality(F)),
                next_queue_sequence |-> r.next_queue_sequence, final |-> r.final]
    BY <1>0 DEF release_resources, Sched, A, V
  <1>2. /\ Running(r) = Running(s) \ F
        /\ \A a : RunningOn(r, a) = RunningOn(s, a) \ {i \in F : s.tasks[i].agent_id = a}
        /\ \A w : RunningIn(r, w) = RunningIn(s, w) \ {i \in F : s.tasks[i].spec.wave = w}
    <2>1. Running(r) = Running(s) \ F BY DEF Running, TasksIn, TasksOf
    <2>2. ASSUME NEW a
          PROVE  RunningOn(r, a) = RunningOn(s, a) \ {i \in F : s.tasks[i].agent_id = a}
      BY <2>1 DEF RunningOn, Running, TasksIn, TasksOf
    <2>3. ASSUME NEW w
          PROVE  RunningIn(r, w) = RunningIn(s, w) \ {i \in F : s.tasks[i].spec.wave = w}
      BY <2>1 DEF RunningIn, Running, TasksIn, TasksOf
    <2> QED BY <2>1, <2>2, <2>3
  <1>3. /\ r.active_tasks = Cardinality(Running(r))
        /\ r.active_tasks <= s.active_tasks /\ r.active_tasks \in Nat
    BY <1>0, <1>1, <1>2, TasksFinite, CountDrops DEF Good, Accounts
  <1>4. \A a \in DOMAIN s.agents :
           /\ A[a] \in Agent /\ A[a].spec = s.agents[a].spec
           /\ A[a].active_tasks = Cardinality(RunningOn(r, a))
           /\ A[a].active_tasks <= s.agents[a].active_tasks
    <2> TAKE a \in DOMAIN s.agents
    <2> DEFINE G == {i \in F : s.tasks[i].agent_id = a}
    <2>1. G \in SUBSET RunningOn(s, a) BY DEF RunningOn
    <2>2. s.agents[a] \in Agent BY <1>0 DEF Sched
    <2>3. s.agents[a].active_tasks = Cardinality(RunningOn(s, a)) BY DEF Good, Accounts
    <2>4. /\ Cardinality(RunningOn(r, a)) = Less(s.agents[a].active_tasks, Cardinality(G))
          /\ Cardinality(RunningOn(r, a)) <= s.agents[a].active_tasks
          /\ Cardinality(RunningOn(r, a)) \in Nat
      <3>1. IsFiniteSet(RunningOn(s, a)) BY <1>0, TasksFinite
      <3>2. RunningOn(r, a) = RunningOn(s, a) \ G BY <1>2
      <3> HIDE DEF G
      <3>3. /\ Cardinality(RunningOn(s, a) \ G) = Less(Cardinality(RunningOn(s, a)), Cardinality(G))
            /\ Cardinality(RunningOn(s, a) \ G) <= Cardinality(RunningOn(s, a))
            /\ Cardinality(RunningOn(s, a) \ G) \in Nat
        BY <2>1, <3>1, CountDrops
      <3> QED BY <2>3, <3>2, <3>3
    <2>5. A[a] = [s.agents[a] EXCEPT !.active_tasks = Less(s.agents[a].active_tasks, Cardinality(G))]
      BY DEF A, AgentsOf
    <2> QED BY <2>2, <2>4, <2>5 DEF Agent
  <1>5. \A w \in DOMAIN s.waves :
           /\ V[w] \in Wave /\ V[w].spec = s.waves[w].spec
           /\ V[w].active_tasks = Cardinality(RunningIn(r, w))
           /\ V[w].active_tasks <= s.waves[w].active_tasks
    <2> TAKE w \in DOMAIN s.waves
    <2> DEFINE G == {i \in F : s.tasks[i].spec.wave = w}
    <2>1. G \in SUBSET RunningIn(s, w) BY DEF RunningIn
    <2>2. s.waves[w] \in Wave BY <1>0 DEF Sched
    <2>3. s.waves[w].active_tasks = Cardinality(RunningIn(s, w)) BY DEF Good, Accounts
    <2>4. /\ Cardinality(RunningIn(r, w)) = Less(s.waves[w].active_tasks, Cardinality(G))
          /\ Cardinality(RunningIn(r, w)) <= s.waves[w].active_tasks
          /\ Cardinality(RunningIn(r, w)) \in Nat
      <3>1. IsFiniteSet(RunningIn(s, w)) BY <1>0, TasksFinite
      <3>2. RunningIn(r, w) = RunningIn(s, w) \ G BY <1>2
      <3> HIDE DEF G
      <3>3. /\ Cardinality(RunningIn(s, w) \ G) = Less(Cardinality(RunningIn(s, w)), Cardinality(G))
            /\ Cardinality(RunningIn(s, w) \ G) <= Cardinality(RunningIn(s, w))
            /\ Cardinality(RunningIn(s, w) \ G) \in Nat
        BY <2>1, <3>1, CountDrops
      <3> QED BY <2>3, <3>2, <3>3
    <2>5. V[w] = [s.waves[w] EXCEPT !.active_tasks = Less(s.waves[w].active_tasks, Cardinality(G))]
      BY DEF V, WavesOf
    <2> QED BY <2>2, <2>4, <2>5 DEF Wave
  <1>6. s.agents \in Seq(Agent) /\ s.waves \in Seq(Wave) BY <1>0 DEF Sched
  <1>7. A \in [DOMAIN s.agents -> Agent] /\ V \in [DOMAIN s.waves -> Wave]
    BY <1>4, <1>5 DEF A, V, AgentsOf, WavesOf
  <1>8. A \in Seq(Agent) /\ DOMAIN A = DOMAIN s.agents BY <1>6, <1>7, FunctionIsSeq
  <1>9. V \in Seq(Wave) /\ DOMAIN V = DOMAIN s.waves BY <1>6, <1>7, FunctionIsSeq
  <1>10. r \in Sched BY <1>1, <1>3, <1>8, <1>9 DEF Sched
  <1>11. IdsKnown(r) BY <1>1, <1>8, <1>9 DEF IdsKnown, Good
  <1>12. \A i \in DOMAIN r.tasks : r.tasks[i].state = "running" <=> r.tasks[i].agent_id # 0
    BY DEF Good, Accounts
  <1>13. Accounts(r) BY <1>1, <1>3, <1>4, <1>5, <1>8, <1>9, <1>12 DEF Accounts
  <1>14. Limits(r)
    <2>1. r.active_tasks <= MaxConcurrent
      BY <1>0, <1>3, ConfigAssumption DEF Good, Limits, Sched
    <2>2. ASSUME NEW a \in DOMAIN r.agents
          PROVE  r.agents[a].active_tasks <= r.agents[a].spec.max_concurrent
      <3>1. s.agents[a] \in Agent /\ A[a] \in Agent /\ a \in DOMAIN s.agents BY <1>0, <1>1, <1>4, <1>8, <2>2 DEF Sched
      <3>2. s.agents[a].spec.max_concurrent \in Nat BY <3>1, SpecsAssumption DEF Agent
      <3>3. s.agents[a].active_tasks <= s.agents[a].spec.max_concurrent BY <3>1 DEF Good, Limits
      <3> QED BY <1>1, <1>4, <3>1, <3>2, <3>3 DEF Agent
    <2>3. ASSUME NEW w \in DOMAIN r.waves, NEW m \in r.waves[w].spec.max_concurrent
          PROVE  r.waves[w].active_tasks <= m
      <3>1. s.waves[w] \in Wave /\ V[w] \in Wave /\ w \in DOMAIN s.waves BY <1>0, <1>1, <1>5, <1>9, <2>3 DEF Sched
      <3>2. m \in s.waves[w].spec.max_concurrent /\ m \in Nat BY <1>1, <1>5, <3>1, SpecsAssumption DEF Wave
      <3>3. s.waves[w].active_tasks <= m BY <3>1, <3>2 DEF Good, Limits
      <3> QED BY <1>1, <1>5, <3>1, <3>2, <3>3 DEF Wave
    <2> QED BY <2>1, <2>2, <2>3 DEF Limits
  <1> QED BY <1>10, <1>11, <1>13, <1>14 DEF Good

\* finish_attempt, with the slots it gives back, keeps the accounts.
LEMMA FinishGood ==
    ASSUME NEW s, Good(s), NEW F \in SUBSET Running(s),
           NEW outcome \in [F -> Outcome], NEW now \in Int
    PROVE  Good(finish_attempt(s, F, outcome, now))
  <1> DEFINE retried == {i \in F : should_retry(s.tasks[i], outcome[i])}
             seq(i)  == s.next_queue_sequence + Cardinality({j \in retried : j < i})
             T       == [i \in TasksOf(s) |->
                            IF i \in F THEN FinishedTask(s.tasks[i], outcome[i], seq(i), now)
                                       ELSE s.tasks[i]]
             N       == s.next_queue_sequence + Cardinality(retried)
             E       == [o \in Outcome |->
                            s.final[o] + Cardinality({i \in F \ retried : outcome[i] = o})]
             ended   == [release_resources(s, F) EXCEPT !.tasks = T,
                            !.next_queue_sequence = N, !.final = E]
  <1>0. s \in Sched /\ F \subseteq DOMAIN s.tasks
    BY DEF Good, Running, TasksIn, TasksOf
  <1>1. finish_attempt(s, F, outcome, now) =
            recompute_wave(ended, {s.tasks[i].spec.wave : i \in F})
    BY <1>0 DEF finish_attempt, release_resources, Sched
  <1>2. IsFiniteSet(F) BY <1>0, TasksFinite, FS_Subset
  <1>3. ASSUME NEW G \in SUBSET F PROVE Cardinality(G) \in Nat
    BY <1>2, FS_Subset, FS_CardinalityType
  <1>4. retried \in SUBSET F OBVIOUS
  <1>5. N \in Nat
    <2>1. Cardinality(retried) \in Nat BY <1>3, <1>4
    <2>2. s.next_queue_sequence \in Nat BY <1>0 DEF Sched
    <2> HIDE DEF retried
    <2> QED BY <2>1, <2>2
  <1>6. E \in [Outcome -> Nat]
    <2>1. ASSUME NEW o \in Outcome PROVE E[o] \in Nat
      <3>1. {i \in F \ retried : outcome[i] = o} \in SUBSET F OBVIOUS
      <3>2. Cardinality({i \in F \ retried : outcome[i] = o}) \in Nat BY <1>3, <3>1
      <3>3. s.final[o] \in Nat BY <1>0 DEF Sched
      <3> QED BY <3>2, <3>3
    <2> QED BY <2>1
  <1>7. ASSUME NEW i \in F
        PROVE  /\ T[i] \in Task /\ T[i].agent_id = 0
               /\ T[i].state # "running" /\ T[i].spec = s.tasks[i].spec
    <2>1. {j \in retried : j < i} \in SUBSET F OBVIOUS
    <2>2. seq(i) \in Nat
      <3>1. Cardinality({j \in retried : j < i}) \in Nat BY <1>3, <2>1
      <3>2. s.next_queue_sequence \in Nat BY <1>0 DEF Sched
      <3> QED BY <3>1, <3>2
    <2>3. s.tasks[i] \in Task /\ i \in DOMAIN s.tasks BY <1>0 DEF Sched
    <2>4. outcome[i] \in Outcome OBVIOUS
    <2>5. T[i] = FinishedTask(s.tasks[i], outcome[i], seq(i), now) BY <2>3 DEF TasksOf
    <2> HIDE DEF seq, T
    <2> QED BY <2>2, <2>3, <2>4, <2>5, FinishedTaskType
  <1>8. \A i \in DOMAIN s.tasks \ F : T[i] = s.tasks[i] BY DEF TasksOf
  <1>9. s.tasks \in Seq(Task) /\ \A i \in DOMAIN s.tasks : s.tasks[i] \in Task BY <1>0 DEF Sched
  <1>10. T \in [DOMAIN s.tasks -> Task]
    <2>1. \A i \in DOMAIN s.tasks : T[i] \in Task BY <1>7, <1>8, <1>9
    <2> QED BY <2>1 DEF TasksOf
  <1> HIDE DEF T, N, E
  <1>11. T \in Seq(Task) /\ DOMAIN T = DOMAIN s.tasks BY <1>9, <1>10, FunctionIsSeq
  <1>12. ended.tasks = T /\ ended.next_queue_sequence = N /\ ended.final = E
    BY <1>0 DEF release_resources, Sched
  <1> HIDE DEF ended
  <1>13. ended = [release_resources(s, F) EXCEPT !.tasks = ended.tasks,
                    !.next_queue_sequence = ended.next_queue_sequence, !.final = ended.final]
    BY <1>12 DEF ended
  <1>14. Good(ended)
    <2>1. ended.tasks \in Seq(Task) /\ DOMAIN ended.tasks = DOMAIN s.tasks BY <1>11, <1>12
    <2>2. \A i \in F : ended.tasks[i].state # "running" /\ ended.tasks[i].agent_id = 0
      BY <1>7, <1>12
    <2>3. \A i \in DOMAIN s.tasks \ F : ended.tasks[i] = s.tasks[i] BY <1>8, <1>12
    <2>4. \A i \in F : ended.tasks[i].spec = s.tasks[i].spec BY <1>7, <1>12
    <2>5. ended.next_queue_sequence \in Nat /\ ended.final \in [Outcome -> Nat]
      BY <1>5, <1>6, <1>12
    <2> QED BY <1>13, <2>1, <2>2, <2>3, <2>4, <2>5, ReleaseGood
  <1> QED BY <1>1, <1>14, RecomputeGood

\* expire_running_locked ends attempts only through finish_attempt and keeps the
\* accounts.
LEMMA ExpireGood ==
    ASSUME NEW s, Good(s), NEW now \in Int
    PROVE  Good(expire_running(s, now))
  <1> DEFINE F == Expired(s, now)
             out == [i \in F |-> IF s.tasks[i].cancellation_requested
                                 THEN "cancelled" ELSE "timed_out"]
  <1>1. F \in SUBSET Running(s) BY DEF Expired, Running
  <1>2. out \in [F -> Outcome] BY DEF Outcome
  <1>3. expire_running(s, now) = finish_attempt(s, F, out, now) BY DEF expire_running
  <1> HIDE DEF F, out
  <1> QED BY <1>1, <1>2, <1>3, FinishGood

(***************************************************************************)
(* Cancellation starts and ends no attempt.                                *)
(***************************************************************************)
\* Tasks whose records change without starting or ending an attempt, and waves
\* that keep their counters, keep the accounts.
LEMMA NeutralGood ==
    ASSUME NEW s, Good(s), NEW r \in Sched,
           DOMAIN r.tasks = DOMAIN s.tasks,
           \A i \in DOMAIN s.tasks :
              /\ r.tasks[i].spec = s.tasks[i].spec
              /\ r.tasks[i].agent_id = s.tasks[i].agent_id
              /\ r.tasks[i].state = "running" <=> s.tasks[i].state = "running",
           r.agents = s.agents, r.active_tasks = s.active_tasks,
           DOMAIN r.waves = DOMAIN s.waves,
           \A w \in DOMAIN s.waves : /\ r.waves[w].spec = s.waves[w].spec
                                     /\ r.waves[w].active_tasks = s.waves[w].active_tasks
    PROVE  Good(r)
  <1>1. Running(r) = Running(s) BY DEF Running, TasksIn, TasksOf
  <1>2. ASSUME NEW a PROVE RunningOn(r, a) = RunningOn(s, a)
    BY <1>1 DEF RunningOn, Running, TasksIn, TasksOf
  <1>3. ASSUME NEW w PROVE RunningIn(r, w) = RunningIn(s, w)
    BY <1>1 DEF RunningIn, Running, TasksIn, TasksOf
  <1>4. IdsKnown(r) BY DEF IdsKnown, Good
  <1>5. Accounts(r) BY <1>1, <1>2, <1>3 DEF Accounts, Good
  <1>6. Limits(r) BY DEF Limits, Good
  <1> QED BY <1>4, <1>5, <1>6 DEF Good

\* A task that cancel_task_locked has marked or ended is a task.
LEMMA CancelledTaskType ==
    ASSUME NEW task \in Task
    PROVE  /\ CancelledTask(task) \in Task
           /\ CancelledTask(task).spec = task.spec
           /\ CancelledTask(task).agent_id = task.agent_id
           /\ CancelledTask(task).state = "running" <=> task.state = "running"
  <1>1. CASE task.state \in Waiting
    <2>1. CancelledTask(task) = [task EXCEPT !.state = "cancelled",
                    !.cancellation_requested = TRUE, !.retry_not_before = {}]
      BY <1>1 DEF CancelledTask
    <2>2. "cancelled" \in TaskState /\ task.state # "running"
      BY <1>1 DEF TaskState, Outcome, Waiting
    <2> QED BY <2>1, <2>2 DEF Task
  <1>2. CASE task.state \notin Waiting
    BY <1>2 DEF CancelledTask, Task
  <1> QED BY <1>1, <1>2

\* cancel_task_locked ends only tasks that hold no slot, so it keeps the accounts.
LEMMA CancelGood ==
    ASSUME NEW s, Good(s), NEW C
    PROVE  Good(cancel_task_locked(s, C))
  <1> DEFINE B == C \cap TasksIn(s, Waiting)
             T == [i \in TasksOf(s) |->
                        IF i \in C THEN CancelledTask(s.tasks[i]) ELSE s.tasks[i]]
             r == [s EXCEPT !.tasks = T, !.final["cancelled"] = @ + Cardinality(B)]
  <1>0. s \in Sched BY DEF Good
  <1>1. cancel_task_locked(s, C) = recompute_wave(r, {s.tasks[i].spec.wave : i \in B})
    BY DEF cancel_task_locked
  <1>2. s.tasks \in Seq(Task) /\ \A i \in DOMAIN s.tasks : s.tasks[i] \in Task BY <1>0 DEF Sched
  <1>3. B \subseteq DOMAIN s.tasks BY DEF TasksIn, TasksOf
  <1>4. \A i \in DOMAIN s.tasks :
           /\ T[i] \in Task
           /\ T[i].spec = s.tasks[i].spec
           /\ T[i].agent_id = s.tasks[i].agent_id
           /\ T[i].state = "running" <=> s.tasks[i].state = "running"
    BY <1>2, CancelledTaskType DEF TasksOf
  <1>5. T \in [DOMAIN s.tasks -> Task] BY <1>4 DEF TasksOf
  <1> HIDE DEF T
  <1>6. T \in Seq(Task) /\ DOMAIN T = DOMAIN s.tasks BY <1>2, <1>5, FunctionIsSeq
  <1>7. Cardinality(B) \in Nat BY <1>0, <1>3, TasksFinite, FS_Subset, FS_CardinalityType
  <1> HIDE DEF B
  <1>8. s.final \in [Outcome -> Nat] /\ "cancelled" \in Outcome BY <1>0 DEF Sched, Outcome
  <1>9. [s.final EXCEPT !["cancelled"] = @ + Cardinality(B)] \in [Outcome -> Nat]
    BY <1>7, <1>8
  <1>10. /\ r \in Sched /\ r.tasks = T /\ r.agents = s.agents
         /\ r.active_tasks = s.active_tasks /\ r.waves = s.waves
    BY <1>0, <1>6, <1>9 DEF Sched
  <1> HIDE DEF r
  <1>11. Good(r) BY <1>4, <1>6, <1>10, NeutralGood
  <1> QED BY <1>1, <1>11, RecomputeGood

\* Cancelling a tree of waves marks waves and cancels tasks, and keeps the accounts.
LEMMA CancelWavesGood ==
    ASSUME NEW s, Good(s), NEW W
    PROVE  Good(cancel_waves(s, W))
  <1> DEFINE V == [w \in WavesOf(s) |->
                IF w \notin W THEN s.waves[w]
                ELSE [s.waves[w] EXCEPT !.cancellation_requested = TRUE,
                        !.state = IF @ \in {"pending", "running"} THEN "cancelling" ELSE @]]
             r == [s EXCEPT !.waves = V]
  <1>0. s \in Sched /\ s.waves \in Seq(Wave) /\ (\A w \in DOMAIN s.waves : s.waves[w] \in Wave)
    BY DEF Good, Sched
  <1>1. cancel_waves(s, W) = r BY DEF cancel_waves
  <1>2. \A w \in DOMAIN s.waves : /\ V[w] \in Wave /\ V[w].spec = s.waves[w].spec
                                  /\ V[w].active_tasks = s.waves[w].active_tasks
    BY <1>0 DEF WavesOf, Wave, WaveState
  <1>3. V \in [DOMAIN s.waves -> Wave] BY <1>2 DEF WavesOf
  <1> HIDE DEF V
  <1>4. V \in Seq(Wave) /\ DOMAIN V = DOMAIN s.waves BY <1>0, <1>3, FunctionIsSeq
  <1>5. /\ r \in Sched /\ r.tasks = s.tasks /\ r.agents = s.agents
        /\ r.active_tasks = s.active_tasks /\ r.waves = V
    BY <1>0, <1>4 DEF Sched
  <1> HIDE DEF r
  <1>6. Good(r) BY <1>2, <1>4, <1>5, NeutralGood
  <1> QED BY <1>1, <1>6

(***************************************************************************)
(* Admission takes one slot of each counter, and only below its limit.     *)
(***************************************************************************)
\* Admitting a task brings the count of a finite set up by one.
LEMMA CountGrows ==
    ASSUME NEW R, IsFiniteSet(R), NEW i, i \notin R
    PROVE  Cardinality(R \cup {i}) = Cardinality(R) + 1 /\ Cardinality(R) \in Nat
  BY FS_AddElement, FS_CardinalityType

\* A task that admit_next has started is a task.
LEMMA StartedTaskType ==
    ASSUME NEW task \in Task, NEW a \in Nat, NEW now \in Int
    PROVE  /\ StartedTask(task, a, now) \in Task
           /\ StartedTask(task, a, now).state = "running"
           /\ StartedTask(task, a, now).agent_id = a
           /\ StartedTask(task, a, now).spec = task.spec
  <1>1. task.spec \in TaskSpec BY SpecsAssumption DEF Task
  <1>2. {now + d : d \in task.spec.max_duration} \in SUBSET Int BY <1>1 DEF TaskSpec
  <1>3. "running" \in TaskState BY DEF TaskState
  <1>4. task.attempts_started + 1 \in Nat BY DEF Task
  <1> QED BY <1>2, <1>3, <1>4 DEF Task, StartedTask

\* A wave whose active counter admit_next has raised is a wave.
LEMMA StartedWaveType ==
    ASSUME NEW wave \in Wave
    PROVE  /\ StartedWave(wave) \in Wave
           /\ StartedWave(wave).spec = wave.spec
           /\ StartedWave(wave).active_tasks = wave.active_tasks + 1
  <1>1. "running" \in WaveState BY DEF WaveState
  <1>2. wave.active_tasks + 1 \in Nat BY DEF Wave
  <1> QED BY <1>1, <1>2 DEF Wave, StartedWave

\* An agent whose active counter admit_next has raised is an agent.
LEMMA BusierAgentType ==
    ASSUME NEW agent \in Agent
    PROVE  /\ BusierAgent(agent) \in Agent
           /\ BusierAgent(agent).spec = agent.spec
           /\ BusierAgent(agent).active_tasks = agent.active_tasks + 1
  BY DEF Agent, BusierAgent

\* admit_next, which starts one eligible task, keeps the accounts and the limits.
LEMMA AdmitGood ==
    ASSUME NEW s, Good(s), NEW now \in Int, NEW i \in DOMAIN s.tasks, Eligible(s, i, now),
           s.active_tasks < MaxConcurrent, NEW a \in FirstAgent(s)
    PROVE  Good(Admitted(s, i, a, now))
  <1> DEFINE w == s.tasks[i].spec.wave
             t == StartedTask(s.tasks[i], a, now)
             g == BusierAgent(s.agents[a])
             T == [s.tasks EXCEPT ![i] = t]
             A == [s.agents EXCEPT ![a] = g]
             V == [v \in WavesOf(s) |->
                        IF v = w THEN StartedWave(s.waves[v]) ELSE s.waves[v]]
             r == [agents |-> A, waves |-> V, tasks |-> T, active_tasks |-> s.active_tasks + 1,
                   next_queue_sequence |-> s.next_queue_sequence, final |-> s.final]
  <1>0. /\ s \in Sched /\ s.tasks \in Seq(Task) /\ s.agents \in Seq(Agent) /\ s.waves \in Seq(Wave)
        /\ \A j \in DOMAIN s.tasks : s.tasks[j] \in Task
        /\ \A b \in DOMAIN s.agents : s.agents[b] \in Agent
        /\ \A v \in DOMAIN s.waves : s.waves[v] \in Wave
    BY DEF Good, Sched
  <1>1. a \in DOMAIN s.agents /\ s.agents[a].active_tasks < s.agents[a].spec.max_concurrent
    BY DEF FirstAgent, AgentsOf, AgentAvailable
  <1>2. a \in Nat \ {0} /\ i \in Nat BY <1>0, <1>1
  <1>3. t \in Task /\ t.state = "running" /\ t.agent_id = a /\ t.spec = s.tasks[i].spec
    <2>1. s.tasks[i] \in Task /\ a \in Nat BY <1>0, <1>2
    <2> HIDE DEF t
    <2> QED BY <2>1, StartedTaskType DEF t
  <1>4. g \in Agent /\ g.spec = s.agents[a].spec /\ g.active_tasks = s.agents[a].active_tasks + 1
    BY <1>0, <1>1, BusierAgentType
  <1>5. \A v \in DOMAIN s.waves :
           /\ V[v] \in Wave /\ V[v].spec = s.waves[v].spec
           /\ V[v].active_tasks = IF v = w THEN s.waves[v].active_tasks + 1
                                           ELSE s.waves[v].active_tasks
    BY <1>0, StartedWaveType DEF WavesOf
  <1>6. V \in [DOMAIN s.waves -> Wave] BY <1>5 DEF WavesOf
  <1>7. Admitted(s, i, a, now) = r
    <2> HIDE DEF T, A, V
    <2>1. Admitted(s, i, a, now) = [s EXCEPT !.active_tasks = @ + 1, !.agents = A,
                                             !.tasks = T, !.waves = V]
      BY DEF Admitted, A, T, V
    <2> QED BY <1>0, <2>1 DEF Sched
  <1> HIDE DEF t
  <1>8. T \in Seq(Task) /\ DOMAIN T = DOMAIN s.tasks /\ T[i] = t
        /\ \A j \in DOMAIN s.tasks \ {i} : T[j] = s.tasks[j]
    BY <1>0, <1>3
  <1> HIDE DEF g
  <1>9. A \in Seq(Agent) /\ DOMAIN A = DOMAIN s.agents /\ A[a] = g
        /\ \A b \in DOMAIN s.agents \ {a} : A[b] = s.agents[b]
    BY <1>0, <1>1, <1>4
  <1> HIDE DEF V
  <1>10. V \in Seq(Wave) /\ DOMAIN V = DOMAIN s.waves BY <1>0, <1>6, FunctionIsSeq
  <1> HIDE DEF T, A
  <1>11. /\ r \in Sched /\ r.tasks = T /\ r.agents = A /\ r.waves = V
         /\ r.active_tasks = s.active_tasks + 1
    BY <1>0, <1>8, <1>9, <1>10 DEF Sched
  <1> HIDE DEF r
  <1>12. s.tasks[i].state # "running" /\ i \notin Running(s)
    BY DEF Eligible, Waiting, Running, TasksIn
  <1>13. /\ Running(r) = Running(s) \cup {i}
    BY <1>3, <1>8, <1>11, <1>12 DEF Running, TasksIn, TasksOf
  <1>14. RunningOn(r, a) = RunningOn(s, a) \cup {i}
    BY <1>3, <1>8, <1>11, <1>12 DEF RunningOn, Running, TasksIn, TasksOf
  <1>15. ASSUME NEW b, b # a PROVE RunningOn(r, b) = RunningOn(s, b)
    BY <1>3, <1>8, <1>11, <1>12, <1>15 DEF RunningOn, Running, TasksIn, TasksOf
  <1>16. RunningIn(r, w) = RunningIn(s, w) \cup {i}
    BY <1>3, <1>8, <1>11, <1>12 DEF RunningIn, Running, TasksIn, TasksOf
  <1>17. ASSUME NEW v, v # w PROVE RunningIn(r, v) = RunningIn(s, v)
    BY <1>3, <1>8, <1>11, <1>12, <1>17 DEF RunningIn, Running, TasksIn, TasksOf
  <1>18. i \notin RunningOn(s, a) /\ i \notin RunningIn(s, w)
    BY <1>12 DEF RunningOn, RunningIn
  <1>19. IdsKnown(r)
    <2>1. IdsKnown(s) BY DEF Good
    <2> QED BY <1>1, <1>3, <1>8, <1>9, <1>10, <1>11, <2>1 DEF IdsKnown
  <1>20. r.active_tasks = Cardinality(Running(r))
    BY <1>0, <1>11, <1>12, <1>13, TasksFinite, CountGrows DEF Good, Accounts
  <1>21. ASSUME NEW b \in DOMAIN r.agents
         PROVE  r.agents[b].active_tasks = Cardinality(RunningOn(r, b))
    <2>1. s.agents[b].active_tasks = Cardinality(RunningOn(s, b))
      BY <1>9, <1>11, <1>21 DEF Good, Accounts
    <2>2. CASE b = a
      <3>1. Cardinality(RunningOn(s, a) \cup {i}) = Cardinality(RunningOn(s, a)) + 1
        BY <1>0, <1>18, TasksFinite, CountGrows
      <3> QED BY <1>4, <1>9, <1>11, <1>14, <2>1, <2>2, <3>1
    <2>3. CASE b # a BY <1>9, <1>11, <1>15, <1>21, <2>1, <2>3
    <2> QED BY <2>2, <2>3
  <1>22. ASSUME NEW v \in DOMAIN r.waves
         PROVE  r.waves[v].active_tasks = Cardinality(RunningIn(r, v))
    <2>1. s.waves[v].active_tasks = Cardinality(RunningIn(s, v))
      BY <1>10, <1>11, <1>22 DEF Good, Accounts
    <2>2. CASE v = w
      <3>1. Cardinality(RunningIn(s, w) \cup {i}) = Cardinality(RunningIn(s, w)) + 1
        BY <1>0, <1>18, TasksFinite, CountGrows
      <3> QED BY <1>5, <1>10, <1>11, <1>16, <1>22, <2>1, <2>2, <3>1
    <2>3. CASE v # w BY <1>5, <1>10, <1>11, <1>17, <1>22, <2>1, <2>3
    <2> QED BY <2>2, <2>3
  <1>23. \A j \in DOMAIN r.tasks : r.tasks[j].state = "running" <=> r.tasks[j].agent_id # 0
    BY <1>2, <1>3, <1>8, <1>11 DEF Good, Accounts
  <1>24. Accounts(r) BY <1>20, <1>21, <1>22, <1>23 DEF Accounts
  <1>25. r.active_tasks <= MaxConcurrent
    <2>1. s.active_tasks \in Nat /\ MaxConcurrent \in Nat BY <1>0, ConfigAssumption DEF Sched
    <2> QED BY <1>11, <2>1
  <1>26. ASSUME NEW b \in DOMAIN r.agents
         PROVE  r.agents[b].active_tasks <= r.agents[b].spec.max_concurrent
    <2>1. s.agents[b] \in Agent /\ b \in DOMAIN s.agents BY <1>0, <1>9, <1>11, <1>26
    <2>2. s.agents[b].spec.max_concurrent \in Nat /\ s.agents[b].active_tasks \in Nat
      BY <2>1, SpecsAssumption DEF Agent
    <2>3. s.agents[b].active_tasks <= s.agents[b].spec.max_concurrent BY <2>1 DEF Good, Limits
    <2>4. CASE b = a BY <1>1, <1>4, <1>9, <1>11, <2>2, <2>4
    <2>5. CASE b # a BY <1>9, <1>11, <2>1, <2>3, <2>5
    <2> QED BY <2>4, <2>5
  <1>27. ASSUME NEW v \in DOMAIN r.waves, NEW m \in r.waves[v].spec.max_concurrent
         PROVE  r.waves[v].active_tasks <= m
    <2>1. s.waves[v] \in Wave /\ v \in DOMAIN s.waves BY <1>0, <1>10, <1>11, <1>27
    <2>2. m \in s.waves[v].spec.max_concurrent BY <1>5, <1>11, <1>27, <2>1
    <2>3. m \in Nat /\ s.waves[v].active_tasks \in Nat BY <2>1, <2>2, SpecsAssumption DEF Wave
    <2>4. s.waves[v].active_tasks <= m BY <2>1, <2>2 DEF Good, Limits
    <2>5. CASE v = w
      <3>1. v # 0 BY <1>0, <2>1
      <3>2. s.waves[v].active_tasks < m BY <2>2, <2>5, <3>1 DEF Eligible
      <3> QED BY <1>5, <1>11, <2>1, <2>3, <2>5, <3>2
    <2>6. CASE v # w BY <1>5, <1>11, <2>1, <2>4, <2>6
    <2> QED BY <2>5, <2>6
  <1>28. Limits(r) BY <1>25, <1>26, <1>27 DEF Limits
  <1> QED BY <1>7, <1>11, <1>19, <1>24, <1>28 DEF Good

(***************************************************************************)
(* The operations.                                                         *)
(***************************************************************************)
\* A new scheduler has no tasks and counts none.
LEMMA InitGood == Init => Good(sched) /\ clock \in 0 .. MaxClock
  <1> SUFFICES ASSUME Init PROVE Good(impl) /\ 0 \in 0 .. MaxClock
    BY DEF Init
  <1>1. impl \in Sched BY DEF impl, Sched
  <1>2. Running(impl) = {} BY DEF impl, Running, TasksIn, TasksOf
  <1>3. Cardinality({}) = 0 BY FS_EmptySet
  <1>4. IdsKnown(impl) BY DEF IdsKnown, impl
  <1>5. impl.active_tasks = 0 /\ impl.agents = <<>> /\ impl.waves = <<>> /\ impl.tasks = <<>>
    BY DEF impl
  <1>6. Accounts(impl) BY <1>2, <1>3, <1>5 DEF Accounts
  <1>7. Limits(impl) BY <1>5, ConfigAssumption DEF Limits
  <1> QED BY <1>1, <1>4, <1>6, <1>7, ConfigAssumption DEF Good

\* A new agent has no tasks: no task can name an id that did not exist.
LEMMA RegisterGood ==
    ASSUME Good(sched), NEW spec \in AgentSpecs, register_agent(spec)
    PROVE  Good(sched')
  <1> DEFINE r == [sched EXCEPT !.agents = Append(@, agent_record(spec))]
             n == Len(sched.agents) + 1
  <1>0. sched \in Sched /\ sched.agents \in Seq(Agent) BY DEF Good, Sched
  <1>1. agent_record(spec) \in Agent /\ agent_record(spec).active_tasks = 0
        /\ agent_record(spec).spec.max_concurrent \in Nat
    BY SpecsAssumption DEF agent_record, Agent
  <1>2. /\ Append(sched.agents, agent_record(spec)) \in Seq(Agent)
        /\ DOMAIN Append(sched.agents, agent_record(spec)) = DOMAIN sched.agents \cup {n}
        /\ Append(sched.agents, agent_record(spec))[n] = agent_record(spec)
        /\ \A a \in DOMAIN sched.agents : Append(sched.agents, agent_record(spec))[a] = sched.agents[a]
        /\ n \notin DOMAIN sched.agents /\ n # 0
    BY <1>0, <1>1
  <1>3. /\ r \in Sched /\ r.tasks = sched.tasks /\ r.waves = sched.waves
        /\ r.active_tasks = sched.active_tasks
        /\ r.agents = Append(sched.agents, agent_record(spec))
    BY <1>0, <1>2 DEF Sched
  <1>4. sched' = r BY DEF register_agent
  <1> HIDE DEF r
  <1>5. Running(r) = Running(sched) /\ (\A a : RunningOn(r, a) = RunningOn(sched, a))
        /\ (\A w : RunningIn(r, w) = RunningIn(sched, w))
    BY <1>3 DEF Running, RunningOn, RunningIn, TasksIn, TasksOf
  <1>6. IdsKnown(r) BY <1>2, <1>3 DEF IdsKnown, Good
  <1>7. RunningOn(sched, n) = {}
    BY <1>2 DEF RunningOn, Running, TasksIn, TasksOf, IdsKnown, Good
  <1>8. Cardinality(RunningOn(r, n)) = 0 BY <1>5, <1>7, FS_EmptySet
  <1> HIDE DEF n
  <1>9. ASSUME NEW a \in DOMAIN r.agents
        PROVE  /\ r.agents[a].active_tasks = Cardinality(RunningOn(r, a))
               /\ r.agents[a].active_tasks <= r.agents[a].spec.max_concurrent
    <2>1. CASE a = n BY <1>1, <1>2, <1>3, <1>8, <2>1
    <2>2. CASE a # n
      <3>1. a \in DOMAIN sched.agents /\ r.agents[a] = sched.agents[a] BY <1>2, <1>3, <1>9, <2>2
      <3> QED BY <1>5, <3>1 DEF Good, Accounts, Limits
    <2> QED BY <2>1, <2>2
  <1>10. Accounts(r) BY <1>3, <1>5, <1>9 DEF Accounts, Good
  <1>11. Limits(r) BY <1>3, <1>9 DEF Limits, Good
  <1> QED BY <1>3, <1>4, <1>6, <1>10, <1>11 DEF Good

\* create_wave adds a wave that no task can name yet, and keeps the accounts.
LEMMA CreateGood ==
    ASSUME Good(sched), NEW spec \in WaveSpecs, create_wave(spec)
    PROVE  Good(sched')
  <1> DEFINE r == [sched EXCEPT !.waves = Append(@, wave_record(spec))]
             n == Len(sched.waves) + 1
  <1>0. sched \in Sched /\ sched.waves \in Seq(Wave) BY DEF Good, Sched
  <1>1. wave_record(spec) \in Wave /\ wave_record(spec).active_tasks = 0
        /\ wave_record(spec).spec.max_concurrent \subseteq Nat
    BY SpecsAssumption DEF wave_record, Wave, WaveState
  <1>2. /\ Append(sched.waves, wave_record(spec)) \in Seq(Wave)
        /\ DOMAIN Append(sched.waves, wave_record(spec)) = DOMAIN sched.waves \cup {n}
        /\ Append(sched.waves, wave_record(spec))[n] = wave_record(spec)
        /\ \A w \in DOMAIN sched.waves : Append(sched.waves, wave_record(spec))[w] = sched.waves[w]
        /\ n \notin DOMAIN sched.waves /\ n # 0
    BY <1>0, <1>1
  <1>3. /\ r \in Sched /\ r.tasks = sched.tasks /\ r.agents = sched.agents
        /\ r.active_tasks = sched.active_tasks
        /\ r.waves = Append(sched.waves, wave_record(spec))
    BY <1>0, <1>2 DEF Sched
  <1>4. sched' = r BY DEF create_wave
  <1> HIDE DEF r
  <1>5. Running(r) = Running(sched) /\ (\A a : RunningOn(r, a) = RunningOn(sched, a))
        /\ (\A w : RunningIn(r, w) = RunningIn(sched, w))
    BY <1>3 DEF Running, RunningOn, RunningIn, TasksIn, TasksOf
  <1>6. IdsKnown(r) BY <1>2, <1>3 DEF IdsKnown, Good
  <1>7. RunningIn(sched, n) = {}
    BY <1>2 DEF RunningIn, Running, TasksIn, TasksOf, IdsKnown, Good
  <1>8. Cardinality(RunningIn(r, n)) = 0 BY <1>5, <1>7, FS_EmptySet
  <1> HIDE DEF n
  <1>9. ASSUME NEW w \in DOMAIN r.waves
        PROVE  /\ r.waves[w].active_tasks = Cardinality(RunningIn(r, w))
               /\ \A m \in r.waves[w].spec.max_concurrent : r.waves[w].active_tasks <= m
    <2>1. CASE w = n BY <1>1, <1>2, <1>3, <1>8, <2>1
    <2>2. CASE w # n
      <3>1. w \in DOMAIN sched.waves /\ r.waves[w] = sched.waves[w] BY <1>2, <1>3, <1>9, <2>2
      <3> QED BY <1>5, <3>1 DEF Good, Accounts, Limits
    <2> QED BY <2>1, <2>2
  <1>10. Accounts(r) BY <1>3, <1>5, <1>9 DEF Accounts, Good
  <1>11. Limits(r) BY <1>3, <1>9 DEF Limits, Good
  <1> QED BY <1>3, <1>4, <1>6, <1>10, <1>11 DEF Good

\* submit adds a queued task, which holds no slot, and keeps the accounts.
LEMMA SubmitGood ==
    ASSUME Good(sched), NEW spec \in TaskSpecs, submit(spec)
    PROVE  Good(sched')
  <1> DEFINE q == sched.next_queue_sequence
             t == task_record(spec, q)
             T == Append(sched.tasks, t)
             r == [sched EXCEPT !.tasks = T, !.next_queue_sequence = @ + 1]
             n == Len(sched.tasks) + 1
  <1>0. sched \in Sched /\ sched.tasks \in Seq(Task) /\ q \in Nat BY DEF Good, Sched
  <1>1. t \in Task /\ t.state = "queued" /\ t.agent_id = 0 /\ t.spec = spec
    BY <1>0 DEF task_record, Task, TaskState, Waiting
  <1>2. spec.wave \in DOMAIN sched.waves \cup {0}
    BY DEF submit, WavesOf
  <1> HIDE DEF t, q
  <1>3. /\ T \in Seq(Task) /\ DOMAIN T = DOMAIN sched.tasks \cup {n} /\ T[n] = t
        /\ \A i \in DOMAIN sched.tasks : T[i] = sched.tasks[i]
        /\ n \notin DOMAIN sched.tasks
    BY <1>0, <1>1
  <1> HIDE DEF T, n
  <1>4. /\ r \in Sched /\ r.tasks = T /\ r.waves = sched.waves /\ r.agents = sched.agents
        /\ r.active_tasks = sched.active_tasks
    <2>1. sched.next_queue_sequence + 1 \in Nat BY <1>0 DEF q
    <2> QED BY <1>0, <1>3, <2>1 DEF Sched
  <1>5. sched' = r BY DEF submit, T, t, q
  <1> HIDE DEF r
  <1>6. Running(r) = Running(sched)
    BY <1>1, <1>3, <1>4 DEF Running, TasksIn, TasksOf
  <1>7. ASSUME NEW a PROVE RunningOn(r, a) = RunningOn(sched, a)
    BY <1>3, <1>4, <1>6 DEF RunningOn, Running, TasksIn, TasksOf
  <1>8. ASSUME NEW w PROVE RunningIn(r, w) = RunningIn(sched, w)
    BY <1>3, <1>4, <1>6 DEF RunningIn, Running, TasksIn, TasksOf
  <1>9. IdsKnown(r) BY <1>1, <1>2, <1>3, <1>4 DEF IdsKnown, Good
  <1>10. \A i \in DOMAIN r.tasks : r.tasks[i].state = "running" <=> r.tasks[i].agent_id # 0
    BY <1>1, <1>3, <1>4 DEF Good, Accounts
  <1>11. Accounts(r) BY <1>4, <1>6, <1>7, <1>8, <1>10 DEF Accounts, Good
  <1>12. Limits(r) BY <1>4 DEF Limits, Good
  <1> QED BY <1>4, <1>5, <1>9, <1>11, <1>12 DEF Good

\* A worker's token count is no lease.
LEMMA TokensGood ==
    ASSUME NEW s, Good(s), NEW i \in DOMAIN s.tasks, NEW tokens \in Nat
    PROVE  LET r == [s EXCEPT !.tasks[i].tokens_used = tokens]
           IN  Good(r) /\ Running(r) = Running(s)
  <1> DEFINE t == [s.tasks[i] EXCEPT !.tokens_used = tokens]
             T == [s.tasks EXCEPT ![i] = t]
             r == [s EXCEPT !.tasks = T]
  <1>0. s \in Sched /\ s.tasks \in Seq(Task) /\ s.tasks[i] \in Task BY DEF Good, Sched
  <1>1. [s EXCEPT !.tasks[i].tokens_used = tokens] = r OBVIOUS
  <1>2. t \in Task /\ t.spec = s.tasks[i].spec /\ t.agent_id = s.tasks[i].agent_id
        /\ t.state = s.tasks[i].state
    BY <1>0 DEF Task
  <1> HIDE DEF t
  <1>3. /\ T \in Seq(Task) /\ DOMAIN T = DOMAIN s.tasks /\ T[i] = t
        /\ \A j \in DOMAIN s.tasks \ {i} : T[j] = s.tasks[j]
    BY <1>0, <1>2
  <1> HIDE DEF T
  <1>4. /\ r \in Sched /\ r.tasks = T /\ r.waves = s.waves /\ r.agents = s.agents
        /\ r.active_tasks = s.active_tasks
    BY <1>0, <1>3 DEF Sched
  <1> HIDE DEF r
  <1>5. \A j \in DOMAIN s.tasks : /\ r.tasks[j].spec = s.tasks[j].spec
                                  /\ r.tasks[j].agent_id = s.tasks[j].agent_id
                                  /\ r.tasks[j].state = s.tasks[j].state
    BY <1>2, <1>3, <1>4
  <1>6. Good(r) BY <1>3, <1>4, <1>5, NeutralGood
  <1>7. Running(r) = Running(s) BY <1>3, <1>4, <1>5 DEF Running, TasksIn, TasksOf
  <1> QED BY <1>1, <1>6, <1>7

\* set_agent_state changes no counter.
LEMMA AgentStateGood ==
    ASSUME Good(sched), NEW a \in AgentsOf(sched), NEW state \in AgentState,
           set_agent_state(a, state)
    PROVE  Good(sched')
  <1> DEFINE g == [sched.agents[a] EXCEPT !.administrative_state = state]
             A == [sched.agents EXCEPT ![a] = g]
             r == [sched EXCEPT !.agents = A]
  <1>0. sched \in Sched /\ sched.agents \in Seq(Agent) /\ a \in DOMAIN sched.agents
        /\ sched.agents[a] \in Agent
    BY DEF Good, Sched, AgentsOf
  <1>1. sched' = r BY DEF set_agent_state
  <1>2. g \in Agent /\ g.spec = sched.agents[a].spec
        /\ g.active_tasks = sched.agents[a].active_tasks
    BY <1>0 DEF Agent
  <1> HIDE DEF g
  <1>3. /\ A \in Seq(Agent) /\ DOMAIN A = DOMAIN sched.agents /\ A[a] = g
        /\ \A b \in DOMAIN sched.agents \ {a} : A[b] = sched.agents[b]
    BY <1>0, <1>2
  <1> HIDE DEF A
  <1>4. /\ r \in Sched /\ r.tasks = sched.tasks /\ r.waves = sched.waves /\ r.agents = A
        /\ r.active_tasks = sched.active_tasks
    BY <1>0, <1>3 DEF Sched
  <1> HIDE DEF r
  <1>5. Running(r) = Running(sched) /\ (\A b : RunningOn(r, b) = RunningOn(sched, b))
        /\ (\A w : RunningIn(r, w) = RunningIn(sched, w))
    BY <1>4 DEF Running, RunningOn, RunningIn, TasksIn, TasksOf
  <1>6. \A b \in DOMAIN sched.agents : /\ A[b].spec = sched.agents[b].spec
                                       /\ A[b].active_tasks = sched.agents[b].active_tasks
    BY <1>2, <1>3
  <1>7. IdsKnown(r) BY <1>3, <1>4 DEF IdsKnown, Good
  <1>8. Accounts(r) BY <1>3, <1>4, <1>5, <1>6 DEF Accounts, Good
  <1>9. Limits(r) BY <1>3, <1>4, <1>6 DEF Limits, Good
  <1> QED BY <1>1, <1>4, <1>7, <1>8, <1>9 DEF Good

\* report_progress and complete end at most the task they are about.
LEMMA ProgressGood ==
    ASSUME Good(sched), NEW now \in Int, NEW i, NEW tokens \in Tokens,
           report_progress(i, tokens, now)
    PROVE  Good(sched')
  <1> DEFINE s == expire_running(sched, now)
             r == [s EXCEPT !.tasks[i].tokens_used = tokens]
             out == [j \in {i} |-> "budget_exhausted"]
  <1>0. tokens \in Nat BY SpecsAssumption
  <1>1. Good(s) BY ExpireGood
  <1>2. i \in Running(s) /\ i \in DOMAIN s.tasks
    BY DEF report_progress, Running, TasksIn, TasksOf
  <1>3. sched' = r \/ sched' = finish_attempt(r, {i}, out, now) BY DEF report_progress
  <1> HIDE DEF s
  <1>4. Good(r) /\ Running(r) = Running(s) BY <1>0, <1>1, <1>2, TokensGood
  <1> HIDE DEF r
  <1>5. {i} \in SUBSET Running(r) /\ out \in [{i} -> Outcome] BY <1>2, <1>4 DEF Outcome
  <1> HIDE DEF out
  <1>6. Good(finish_attempt(r, {i}, out, now)) BY <1>4, <1>5, FinishGood
  <1> QED BY <1>3, <1>4, <1>6

\* complete ends the attempt whose lease it was given, or nothing.
LEMMA CompleteGood ==
    ASSUME Good(sched), NEW now \in Int, NEW i, NEW tokens \in Tokens, NEW reported \in Outcome,
           complete(i, reported, tokens, now)
    PROVE  Good(sched')
  <1> DEFINE s == expire_running(sched, now)
             r == [s EXCEPT !.tasks[i].tokens_used = tokens]
             spent == \E m \in s.tasks[i].spec.max_tokens : tokens > m
             o == IF s.tasks[i].cancellation_requested THEN "cancelled"
                  ELSE IF spent THEN "budget_exhausted" ELSE reported
             out == [j \in {i} |-> o]
  <1>0. tokens \in Nat BY SpecsAssumption
  <1>1. Good(s) BY ExpireGood
  <1>2. i \in Running(s) /\ i \in DOMAIN s.tasks
    BY DEF complete, Running, TasksIn, TasksOf
  <1>3. sched' = finish_attempt(r, {i}, out, now) BY DEF complete
  <1> HIDE DEF s, spent
  <1>4. Good(r) /\ Running(r) = Running(s) BY <1>0, <1>1, <1>2, TokensGood
  <1> HIDE DEF r
  <1>5. o \in Outcome BY DEF Outcome
  <1> HIDE DEF o
  <1>6. {i} \in SUBSET Running(r) /\ out \in [{i} -> Outcome] BY <1>2, <1>4, <1>5
  <1> HIDE DEF out
  <1> QED BY <1>3, <1>4, <1>6, FinishGood

\* admit_next expires attempts, then starts at most one task.
LEMMA AdmitNextGood ==
    ASSUME Good(sched), NEW now \in Int, NEW i, admit_next(i, now)
    PROVE  Good(sched')
  <1> DEFINE s == expire_running(sched, now)
  <1>1. Good(s) BY ExpireGood
  <1>2. /\ s.active_tasks < MaxConcurrent /\ i \in DOMAIN s.tasks /\ Eligible(s, i, now)
        /\ \E a \in FirstAgent(s) : sched' = Admitted(s, i, a, now)
    BY DEF admit_next, Selected, TasksOf
  <1> HIDE DEF s
  <1>3. PICK a \in FirstAgent(s) : sched' = Admitted(s, i, a, now) BY <1>2
  <1> QED BY <1>1, <1>2, <1>3, AdmitGood

\* cancel_wave, for one wave or its tree, keeps the accounts.
LEMMA CancelWaveGood ==
    ASSUME Good(sched), NEW now \in Int, NEW w, NEW deep, cancel_wave(w, deep, now)
    PROVE  Good(sched')
  <1> DEFINE s == expire_running(sched, now)
             W == IF deep THEN WaveTree(s, w) ELSE {w}
             C == {i \in TasksOf(s) : \/ s.tasks[i].spec.wave \in W
                                      \/ deep /\ task_belongs_to_wave_tree(s, i, w)}
  <1>1. Good(s) BY ExpireGood
  <1>2. sched' = recompute_wave(cancel_task_locked(cancel_waves(s, W), C), W)
    BY DEF cancel_wave
  <1> HIDE DEF s, W, C
  <1>3. Good(cancel_task_locked(cancel_waves(s, W), C))
    BY <1>1, CancelWavesGood, CancelGood
  <1> QED BY <1>2, <1>3, RecomputeGood

\* Every call of the scheduler, and the passing of time, keeps the accounts.
LEMMA NextGood ==
    ASSUME Good(sched), clock \in 0 .. MaxClock, [Next]_vars
    PROVE  Good(sched') /\ clock' \in 0 .. MaxClock
  <1>0. MaxClock \in Nat /\ Skew \in Nat BY ConfigAssumption
  <1>1. CASE Advance BY <1>0, <1>1 DEF Advance
  <1>2. ASSUME NEW spec \in AgentSpecs, register_agent(spec)
        PROVE  Good(sched') /\ clock' \in 0 .. MaxClock
    BY <1>2, RegisterGood DEF register_agent
  <1>3. ASSUME NEW spec \in WaveSpecs, create_wave(spec)
        PROVE  Good(sched') /\ clock' \in 0 .. MaxClock
    BY <1>3, CreateGood DEF create_wave
  <1>4. ASSUME NEW spec \in TaskSpecs, submit(spec)
        PROVE  Good(sched') /\ clock' \in 0 .. MaxClock
    BY <1>4, SubmitGood DEF submit
  <1>5. ASSUME NEW a \in AgentsOf(sched), NEW state \in AgentState, set_agent_state(a, state)
        PROVE  Good(sched') /\ clock' \in 0 .. MaxClock
    BY <1>5, AgentStateGood DEF set_agent_state
  <1>6. ASSUME NEW now \in Now,
               \/ tick(now)
               \/ \E i \in TasksOf(sched) :
                    \/ admit_next(i, now)
                    \/ cancel_task(i, now)
                    \/ \E tokens \in Tokens : report_progress(i, tokens, now)
                    \/ \E tokens \in Tokens, outcome \in Outcome : complete(i, outcome, tokens, now)
               \/ \E w \in WavesOf(sched), deep \in BOOLEAN : cancel_wave(w, deep, now)
        PROVE  Good(sched') /\ clock' \in 0 .. MaxClock
    <2>0. now \in Int BY <1>0 DEF Now
    <2>1. CASE tick(now) BY <2>0, <2>1, ExpireGood DEF tick
    <2>2. ASSUME NEW i \in TasksOf(sched), admit_next(i, now)
          PROVE  Good(sched') /\ clock' \in 0 .. MaxClock
      BY <2>0, <2>2, AdmitNextGood DEF admit_next
    <2>3. ASSUME NEW i \in TasksOf(sched), cancel_task(i, now)
          PROVE  Good(sched') /\ clock' \in 0 .. MaxClock
      BY <2>0, <2>3, ExpireGood, CancelGood DEF cancel_task
    <2>4. ASSUME NEW i \in TasksOf(sched), NEW tokens \in Tokens, report_progress(i, tokens, now)
          PROVE  Good(sched') /\ clock' \in 0 .. MaxClock
      BY <2>0, <2>4, ProgressGood DEF report_progress
    <2>5. ASSUME NEW i \in TasksOf(sched), NEW tokens \in Tokens, NEW outcome \in Outcome,
                 complete(i, outcome, tokens, now)
          PROVE  Good(sched') /\ clock' \in 0 .. MaxClock
      BY <2>0, <2>5, CompleteGood DEF complete
    <2>6. ASSUME NEW w \in WavesOf(sched), NEW deep \in BOOLEAN, cancel_wave(w, deep, now)
          PROVE  Good(sched') /\ clock' \in 0 .. MaxClock
      BY <2>0, <2>6, CancelWaveGood DEF cancel_wave
    <2> QED BY <1>6, <2>1, <2>2, <2>3, <2>4, <2>5, <2>6
  <1>7. CASE UNCHANGED vars BY <1>7 DEF vars
  <1> QED BY <1>1, <1>2, <1>3, <1>4, <1>5, <1>6, <1>7 DEF Next

\* The strengthened invariant implies the three properties the runs check.
LEMMA GoodImplies ==
    ASSUME Good(sched), clock \in 0 .. MaxClock
    PROVE  TypeOK /\ LeaseAccounting /\ WithinLimits
  <1>1. TypeOK BY DEF TypeOK, Good, IdsKnown, TasksOf, AgentsOf, WavesOf
  <1>2. LeaseAccounting
    BY DEF LeaseAccounting, Good, Accounts, Running, RunningOn, RunningIn, TasksIn,
           TasksOf, AgentsOf, WavesOf
  <1>3. WithinLimits
    BY DEF WithinLimits, Good, Accounts, Limits, Running, RunningOn, RunningIn,
           TasksOf, AgentsOf, WavesOf
  <1> QED BY <1>1, <1>2, <1>3

(***************************************************************************)
(* The theorems.                                                           *)
(***************************************************************************)
\* The strengthened invariant holds in every reachable state.
THEOREM SchedulerInvariant == Spec => [](Good(sched) /\ clock \in 0 .. MaxClock)
  <1>1. Init => Good(sched) /\ clock \in 0 .. MaxClock BY InitGood
  <1>2. (Good(sched) /\ clock \in 0 .. MaxClock) /\ [Next]_vars
            => (Good(sched) /\ clock \in 0 .. MaxClock)'
    BY NextGood
  <1> QED BY <1>1, <1>2, PTL DEF Spec

\* Whatever the callers do, the scheduler's records keep their types and name
\* only agents and waves that exist.
THEOREM TypeCorrect == Spec => []TypeOK
  <1>1. Good(sched) /\ clock \in 0 .. MaxClock => TypeOK BY GoodImplies
  <1> QED BY <1>1, SchedulerInvariant, PTL

\* The counters that admit_next compares with the limits are, in every reachable
\* state and for every mix of agents, waves and tasks, the tasks that run.
THEOREM LeasesAccounted == Spec => []LeaseAccounting
  <1>1. Good(sched) /\ clock \in 0 .. MaxClock => LeaseAccounting BY GoodImplies
  <1> QED BY <1>1, SchedulerInvariant, PTL

\* No scheduler, agent or wave ever runs more tasks than its max_concurrent.
THEOREM LimitsHold == Spec => []WithinLimits
  <1>1. Good(sched) /\ clock \in 0 .. MaxClock => WithinLimits BY GoodImplies
  <1> QED BY <1>1, SchedulerInvariant, PTL
=============================================================================
