-------------------------- MODULE PersistenceHandoff --------------------------
(***************************************************************************)
(* How a turn passes from the request that generated it to the worker that *)
(* persists it, in src/tools/axiom_qwen38_api.cpp.                         *)
(*                                                                         *)
(* native_generate returns before its turn is durable: the model and the   *)
(* session still hold it, and a deferred job owns them until the job has   *)
(* published the turn and reset the model.  The lock of the model,         *)
(* session_mutex, is free in between, so what keeps the next request away  *)
(* is session_persistence_pending and persistence_done_cv.                 *)
(*                                                                         *)
(* A step is what a thread does between two operations on shared state.    *)
(* persistence_mutex is never held across one, so it has no variable; a    *)
(* thread that finds its wait predicate false falls asleep in the same     *)
(* step and runs again only when it is notified.  The model is the number  *)
(* of the turn whose state it holds, 0 when it has been reset.             *)
(***************************************************************************)
EXTENDS Integers, Sequences, FiniteSets

CONSTANTS
    Requests,           \* threads of handle_client
    MaxCalls,           \* calls of native_generate in one request (with thinking: up to 2)
    MaxRequests         \* bound of the model: requests accepted

ASSUME HandoffAssumption ==
    /\ MaxCalls \in Nat \ {0}
    /\ MaxRequests \in Nat

VARIABLES
    pc,                 \* where each request thread is
    calls,              \* calls of native_generate each request has made
    accepted,           \* requests accepted
    session_mutex,      \* its owner: a set of at most one thread
    request_execution_mutex,
    persistence_jobs,   \* the turns of the queued jobs
    session_persistence_pending,
    persistence_stop,
    worker,             \* where persistence_worker_loop is
    job,                \* the turn of the job it runs
    model, turn,        \* the turn the model holds; turns generated
    published,          \* the turns whose manifest was published, in order
    healthy,
    server              \* where main is

locks == <<session_mutex, request_execution_mutex>>
queue == <<persistence_jobs, session_persistence_pending, persistence_stop>>
workerVars == <<worker, job>>
modelVars == <<model, turn, published, healthy>>
requestVars == <<pc, calls, accepted>>
handoffVars == <<requestVars, locks, queue, workerVars, modelVars, server>>

Worker == "worker"

HandoffInit ==
    /\ pc = [r \in Requests |-> "idle"]
    /\ calls = [r \in Requests |-> 0]
    /\ accepted = 0
    /\ session_mutex = {}
    /\ request_execution_mutex = {}
    /\ persistence_jobs = <<>>
    /\ session_persistence_pending = 0
    /\ persistence_stop = FALSE
    /\ worker = "check"
    /\ job = 0
    /\ model = 0
    /\ turn = 0
    /\ published = <<>>
    /\ healthy = TRUE
    /\ server = "listening"

GoTo(r, step) == pc' = [pc EXCEPT ![r] = step]

--------------------------------------------------------------------------------
(* Requests *)

Accept(r) ==
    /\ server = "listening"
    /\ pc[r] = "idle"
    /\ accepted < MaxRequests
    /\ accepted' = accepted + 1
    /\ GoTo(r, "execute")
    /\ calls' = [calls EXCEPT ![r] = 0]
    /\ UNCHANGED <<locks, queue, workerVars, modelVars, server>>

LockExecution(r) ==
    /\ pc[r] = "execute"
    /\ request_execution_mutex = {}
    /\ request_execution_mutex' = {r}
    /\ GoTo(r, "acquire")
    /\ UNCHANGED <<calls, accepted, session_mutex, queue, workerVars, modelVars, server>>

\* acquire_generation_session_lock: lock, look at the counter, and unlock and wait
\* for the job when there is one.
LockSession(r) ==
    /\ pc[r] = "acquire"
    /\ session_mutex = {}
    /\ session_mutex' = {r}
    /\ GoTo(r, "locked")
    /\ UNCHANGED <<calls, accepted, request_execution_mutex, queue, workerVars, modelVars, server>>

\* Mutant: the lock alone is taken for the right to generate.
CheckPending_LockOnly(r) ==
    /\ pc[r] = "locked"
    /\ GoTo(r, "ready")
    /\ UNCHANGED <<calls, accepted, locks, queue, workerVars, modelVars, server>>

\* Mutant: a request that finds a job pending tries the lock again at once.
CheckPending_Spins(r) ==
    /\ pc[r] = "locked"
    /\ IF session_persistence_pending = 0
       THEN GoTo(r, "ready") /\ session_mutex' = session_mutex
       ELSE GoTo(r, "acquire") /\ session_mutex' = {}
    /\ UNCHANGED <<calls, accepted, request_execution_mutex, queue, workerVars, modelVars, server>>

CheckPending(r) ==
    /\ pc[r] = "locked"
    /\ IF session_persistence_pending = 0
       THEN GoTo(r, "ready") /\ session_mutex' = session_mutex
       ELSE GoTo(r, "wait") /\ session_mutex' = {}
    /\ UNCHANGED <<calls, accepted, request_execution_mutex, queue, workerVars, modelVars, server>>

WaitDone(r) ==
    /\ pc[r] = "wait"
    /\ GoTo(r, IF session_persistence_pending = 0 THEN "acquire" ELSE "asleep")
    /\ UNCHANGED <<calls, accepted, locks, queue, workerVars, modelVars, server>>

\* native_generate: an unhealthy server refuses; a healthy one resets the model and
\* generates.
Refuse(r) ==
    /\ pc[r] = "ready"
    /\ ~healthy
    /\ GoTo(r, "failed")
    /\ UNCHANGED <<calls, accepted, locks, queue, workerVars, modelVars, server>>

Generate(r) ==
    /\ pc[r] = "ready"
    /\ healthy
    /\ turn' = turn + 1
    /\ model' = turn + 1
    /\ GoTo(r, "generate")
    /\ UNCHANGED <<calls, accepted, locks, queue, workerVars, published, healthy, server>>

\* axiom_qwen38_model_reset, which can fail.
ModelReset ==
    \/ model' = 0 /\ healthy' = healthy
    \/ model' = model /\ healthy' = FALSE

GenerationFails(r) ==
    /\ pc[r] = "generate"
    /\ ModelReset
    /\ GoTo(r, "failed")
    /\ UNCHANGED <<calls, accepted, locks, queue, workerVars, turn, published, server>>

\* Mutant: the job is counted by the worker that runs it, not by the request.
Enqueue_Uncounted(r) ==
    /\ pc[r] = "generate"
    /\ ~persistence_stop
    /\ persistence_jobs' = Append(persistence_jobs, turn)
    /\ GoTo(r, "notify")
    /\ UNCHANGED <<session_persistence_pending, persistence_stop>>
    /\ UNCHANGED <<calls, accepted, locks, workerVars, modelVars, server>>

\* enqueue_persistence_job, under session_mutex.
Enqueue(r) ==
    /\ pc[r] = "generate"
    /\ ~persistence_stop
    /\ persistence_jobs' = Append(persistence_jobs, turn)
    /\ session_persistence_pending' = session_persistence_pending + 1
    /\ GoTo(r, "notify")
    /\ UNCHANGED <<persistence_stop, calls, accepted, locks, workerVars, modelVars, server>>

\* A worker that waits on persistence_cv looks at its predicate again.
Wake == IF worker = "asleep" THEN "check" ELSE worker

NotifyWorker(r) ==
    /\ pc[r] = "notify"
    /\ worker' = Wake
    /\ GoTo(r, "return")
    /\ UNCHANGED <<calls, accepted, locks, queue, job, modelVars, server>>

\* The queue refuses the job (it is stopped, or out of memory) and the request runs it
\* itself, with the lock it holds.
EnqueueFails(r) ==
    /\ pc[r] = "generate"
    /\ session_persistence_pending' = session_persistence_pending + 1
    /\ GoTo(r, "inline")
    /\ UNCHANGED <<persistence_jobs, persistence_stop>>
    /\ UNCHANGED <<calls, accepted, locks, workerVars, modelVars, server>>

\* run_deferred_persistence_job_body for turn t: the turn is published or not, and a
\* failure at any point, the reset of the model at the end included, is remembered.
PersistJob(t) ==
    \E done, well, reset \in BOOLEAN :
        /\ well => done /\ reset
        /\ published' = IF done THEN Append(published, t) ELSE published
        /\ model' = IF reset THEN 0 ELSE model
        /\ healthy' = (healthy /\ well)

\* complete_persistence_operation, up to the notification.
CountDown ==
    /\ session_persistence_pending' =
          IF session_persistence_pending = 0 THEN 0 ELSE session_persistence_pending - 1
    /\ UNCHANGED <<persistence_jobs, persistence_stop>>

\* Every request that waits on persistence_done_cv looks at its predicate again.
Woken(p) == [r \in Requests |-> IF p[r] = "asleep" THEN "wait" ELSE p[r]]

InlinePersist(r) ==
    /\ pc[r] = "inline"
    /\ PersistJob(turn)
    /\ GoTo(r, "inline_complete")
    /\ UNCHANGED <<calls, accepted, locks, queue, workerVars, turn, server>>

InlineComplete(r) ==
    /\ pc[r] = "inline_complete"
    /\ CountDown
    /\ GoTo(r, "inline_notify")
    /\ UNCHANGED <<calls, accepted, locks, workerVars, modelVars, server>>

InlineNotify(r) ==
    /\ pc[r] = "inline_notify"
    /\ pc' = [Woken(pc) EXCEPT ![r] = "return"]
    /\ UNCHANGED <<calls, accepted, locks, queue, workerVars, modelVars, server>>

\* Mutant: one call too many.
Return_OneMoreCall(r) ==
    /\ pc[r] \in {"return", "failed"}
    /\ session_mutex' = {}
    /\ calls' = [calls EXCEPT ![r] = @ + 1]
    /\ GoTo(r, IF calls[r] < MaxCalls THEN "acquire" ELSE "leave")
    /\ UNCHANGED <<accepted, request_execution_mutex, queue, workerVars, modelVars, server>>

\* native_generate returns and unlocks; native_generate_with_thinking may call it again
\* after a success.
Return(r) ==
    /\ pc[r] \in {"return", "failed"}
    /\ session_mutex' = {}
    /\ calls' = [calls EXCEPT ![r] = @ + 1]
    /\ \/ GoTo(r, "leave")
       \/ pc[r] = "return" /\ calls[r] + 1 < MaxCalls /\ GoTo(r, "acquire")
    /\ UNCHANGED <<accepted, request_execution_mutex, queue, workerVars, modelVars, server>>

Leave(r) ==
    /\ pc[r] = "leave"
    /\ request_execution_mutex' = {}
    /\ GoTo(r, "idle")
    /\ UNCHANGED <<calls, accepted, session_mutex, queue, workerVars, modelVars, server>>

--------------------------------------------------------------------------------
(* The persistence worker *)

\* Mutant: a stopped worker leaves the queue as it is.
WorkerCheck_StopFirst ==
    /\ worker = "check"
    /\ CASE persistence_stop ->
              worker' = "exited" /\ UNCHANGED <<job, persistence_jobs>>
         [] ~persistence_stop /\ persistence_jobs = <<>> ->
              worker' = "asleep" /\ UNCHANGED <<job, persistence_jobs>>
         [] OTHER ->
              /\ worker' = "lock"
              /\ job' = Head(persistence_jobs)
              /\ persistence_jobs' = Tail(persistence_jobs)
    /\ UNCHANGED <<requestVars, locks, session_persistence_pending, persistence_stop,
                   modelVars, server>>

\* Mutant: a worker that is woken without a job goes on waiting, stopped or not.
WorkerCheck_Continues ==
    /\ worker = "check"
    /\ IF persistence_jobs = <<>>
       THEN /\ worker' = IF persistence_stop THEN "check" ELSE "asleep"
            /\ UNCHANGED <<job, persistence_jobs>>
       ELSE /\ worker' = "lock"
            /\ job' = Head(persistence_jobs)
            /\ persistence_jobs' = Tail(persistence_jobs)
    /\ UNCHANGED <<requestVars, locks, session_persistence_pending, persistence_stop,
                   modelVars, server>>

\* persistence_worker_loop waits for a job, and leaves when it is stopped and there is
\* none.
WorkerCheck ==
    /\ worker = "check"
    /\ IF persistence_jobs = <<>>
       THEN /\ worker' = IF persistence_stop THEN "exited" ELSE "asleep"
            /\ UNCHANGED <<job, persistence_jobs>>
       ELSE /\ worker' = "lock"
            /\ job' = Head(persistence_jobs)
            /\ persistence_jobs' = Tail(persistence_jobs)
    /\ UNCHANGED <<requestVars, locks, session_persistence_pending, persistence_stop,
                   modelVars, server>>

WorkerLock ==
    /\ worker = "lock"
    /\ session_mutex = {}
    /\ session_mutex' = {Worker}
    /\ worker' = "persist"
    /\ UNCHANGED <<requestVars, request_execution_mutex, queue, job, modelVars, server>>

WorkerPersist ==
    /\ worker = "persist"
    /\ PersistJob(job)
    /\ session_mutex' = {}
    /\ worker' = "complete"
    /\ UNCHANGED <<requestVars, request_execution_mutex, queue, job, turn, server>>

\* Mutant: a job that has thrown is run again.
WorkerThrows_Retries ==
    /\ worker = "persist"
    /\ \E done \in BOOLEAN : published' = IF done THEN Append(published, job) ELSE published
    /\ healthy' = FALSE
    /\ session_mutex' = {}
    /\ worker' = "lock"
    /\ UNCHANGED <<requestVars, request_execution_mutex, queue, job, model, turn, server>>

\* An exception in the body: its lock is released, and taken again to reset the model.
WorkerThrows ==
    /\ worker = "persist"
    /\ \E done \in BOOLEAN : published' = IF done THEN Append(published, job) ELSE published
    /\ healthy' = FALSE
    /\ session_mutex' = {}
    /\ worker' = "recover"
    /\ UNCHANGED <<requestVars, request_execution_mutex, queue, job, model, turn, server>>

WorkerRecover ==
    /\ worker = "recover"
    /\ session_mutex = {}
    /\ model' \in {0, model}
    /\ worker' = "complete"
    /\ UNCHANGED <<requestVars, locks, queue, job, turn, published, healthy, server>>

\* complete_persistence_operation.
WorkerComplete ==
    /\ worker = "complete"
    /\ CountDown
    /\ healthy' = (healthy /\ session_persistence_pending # 0)
    /\ worker' = "notify"
    /\ UNCHANGED <<requestVars, locks, job, model, turn, published, server>>

WorkerNotify ==
    /\ worker = "notify"
    /\ pc' = Woken(pc)
    /\ worker' = "check"
    /\ job' = 0
    /\ UNCHANGED <<calls, accepted, locks, queue, modelVars, server>>

--------------------------------------------------------------------------------
(* main *)

\* g_stop: the listeners are closed.
StopSignal ==
    /\ server = "listening"
    /\ server' = "draining"
    /\ UNCHANGED <<requestVars, locks, queue, workerVars, modelVars>>

\* active_http_workers is 0: destroy_server_state stops the worker, ...
StopWorker ==
    /\ server = "draining"
    /\ \A r \in Requests : pc[r] = "idle"
    /\ persistence_stop' = TRUE
    /\ server' = "stop_notify"
    /\ UNCHANGED <<requestVars, locks, persistence_jobs, session_persistence_pending,
                   workerVars, modelVars>>

StopNotify ==
    /\ server = "stop_notify"
    /\ worker' = Wake
    /\ pc' = Woken(pc)
    /\ server' = "join"
    /\ UNCHANGED <<calls, accepted, locks, queue, job, modelVars>>

\* ... joins it and destroys the model and the tier.
Destroy ==
    /\ server = "join"
    /\ worker = "exited"
    /\ server' = "destroyed"
    /\ UNCHANGED <<requestVars, locks, queue, workerVars, modelVars>>

Request(r) ==
    \/ LockExecution(r) \/ LockSession(r) \/ CheckPending(r) \/ WaitDone(r)
    \/ Refuse(r) \/ Generate(r) \/ GenerationFails(r) \/ Enqueue(r) \/ NotifyWorker(r)
    \/ EnqueueFails(r) \/ InlinePersist(r) \/ InlineComplete(r) \/ InlineNotify(r)
    \/ Return(r) \/ Leave(r)

WorkerStep ==
    \/ WorkerCheck \/ WorkerLock \/ WorkerPersist \/ WorkerThrows \/ WorkerRecover
    \/ WorkerComplete \/ WorkerNotify

ServerStep == StopWorker \/ StopNotify \/ Destroy

Stopped == server = "destroyed" /\ UNCHANGED handoffVars

HandoffNext ==
    \/ \E r \in Requests : Accept(r) \/ Request(r)
    \/ WorkerStep
    \/ StopSignal \/ ServerStep
    \/ Stopped

HandoffSpec == HandoffInit /\ [][HandoffNext]_handoffVars

\* Threads that can run do run, and a generation ends.
HandoffFairSpec ==
    /\ HandoffSpec
    /\ \A r \in Requests : WF_handoffVars(Request(r))
    /\ WF_handoffVars(WorkerStep)
    /\ WF_handoffVars(ServerStep)

--------------------------------------------------------------------------------
(* Properties *)

Steps ==
    {"idle", "execute", "acquire", "locked", "wait", "asleep", "ready", "generate",
     "notify", "inline", "inline_complete", "inline_notify", "return", "failed", "leave"}

\* Type invariant.
HandoffTypeOK ==
    /\ pc \in [Requests -> Steps]
    /\ calls \in [Requests -> 0..MaxCalls]
    /\ accepted \in 0..MaxRequests
    /\ session_mutex \subseteq Requests \union {Worker}
    /\ request_execution_mutex \subseteq Requests
    /\ persistence_jobs \in Seq(Nat)
    /\ session_persistence_pending \in Nat
    /\ persistence_stop \in BOOLEAN
    /\ worker \in {"check", "asleep", "lock", "persist", "recover", "complete", "notify", "exited"}
    /\ {job, model, turn} \subseteq Nat
    /\ published \in Seq(Nat)
    /\ healthy \in BOOLEAN
    /\ server \in {"listening", "draining", "stop_notify", "join", "destroyed"}

\* The jobs that are not complete, queued or running.
Running == worker \in {"lock", "persist", "recover", "complete"}
Inline(r) == pc[r] \in {"inline", "inline_complete"}

\* session_persistence_pending is exact whatever thread runs the job, and never above
\* one; so its underflow branch is dead, and a zero read by a request that holds
\* session_mutex really means that nobody owns the model.
PendingExact ==
    /\ session_persistence_pending =
          Len(persistence_jobs) + (IF Running THEN 1 ELSE 0)
             + Cardinality({r \in Requests : Inline(r)})
    /\ session_persistence_pending <= 1

\* From the moment a turn is handed to a job until the job has run, the model holds that
\* turn: no other generation gets hold of it, although session_mutex is free meanwhile
\* and the worker may even drop it and take it again.
JobOwnsModel ==
    /\ \A i \in 1..Len(persistence_jobs) : model = persistence_jobs[i]
    /\ worker \in {"lock", "persist", "recover"} => model = job
    /\ \A r \in Requests : pc[r] = "inline" => model = turn

\* Manifests are published in the order in which the turns were generated, by the worker
\* or by the request itself, and no turn twice.
PublishedInOrder ==
    \A i, j \in 1..Len(published) : i < j => published[i] < published[j]

\* destroy_server_state drains the jobs before it destroys the model, the draft and the
\* tier they use.
ShutdownDrains ==
    server = "destroyed" =>
        /\ persistence_jobs = <<>>
        /\ session_persistence_pending = 0
        /\ \A r \in Requests : pc[r] = "idle"

\* A request that holds the execution lock gets the model and returns, although no
\* fairness of a mutex is assumed: it never has to win it from the worker.
RequestReturns ==
    \A r \in Requests : pc[r] = "acquire" ~> pc[r] = "leave"

\* A stopped server is destroyed: no notification is lost between the threads that wait
\* for each other.
ShutdownEnds == server = "draining" ~> server = "destroyed"
================================================================================
