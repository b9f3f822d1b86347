--------------------------- MODULE SwarmAdmission ---------------------------
(***************************************************************************)
(* How the HTTP workers of src/tools/axiom_qwen38_api.cpp share the swarm  *)
(* scheduler.  There is no dispatcher: every request thread polls, wakes   *)
(* the scheduler and may be handed the lease of another request, which it  *)
(* parks for its owner.  The scheduler has one slot and one agent; the API *)
(* uses neither waves nor retries.                                         *)
(*                                                                         *)
(* A step of a request is one call of the scheduler (its mutex makes the   *)
(* call atomic) or one critical section of swarm_lease_mutex.  The three   *)
(* reads at the top of the polling loop are one step: the flags they read  *)
(* are never cleared, so reading them later could only end the loop, and a *)
(* loop that ends does not use the time it read.                           *)
(***************************************************************************)
EXTENDS SwarmScheduler

CONSTANTS
    Requests,           \* HTTP requests, by their sequence numbers
    Priority,           \* metadata.priority
    Deadline,           \* metadata.deadline, {} if none
    QueueTimeout,       \* metadata.queue_timeout, {} if none
    ResponseOutcome,    \* what finished responses report: complete or not, sent or not
    LastArrival         \* bound of the model: no request arrives later

ASSUME RequestsAssumption ==
    /\ Requests \subseteq Nat \ {0}
    /\ Priority \in [Requests -> Int]
    /\ Deadline \in [Requests -> SUBSET Nat]
    /\ QueueTimeout \in [Requests -> SUBSET Nat]
    /\ ResponseOutcome \subseteq {"succeeded", "failed", "budget_exhausted", "cancelled"}
    /\ LastArrival \in Nat

VARIABLES
    req,                \* swarm_request_context and program counter of a request
    parked,             \* swarm_leases: tasks whose lease waits for its owner
    lease_mutex,        \* swarm_lease_mutex while it is held across two calls
    execution_mutex,    \* request_execution_mutex
    active_request,     \* active_request_sequence
    gone                \* requests whose client has disconnected

admissionVars == <<sched, clock, req, parked, lease_mutex, execution_mutex, active_request, gone>>

Polling == {"poll", "tick", "take", "admit", "park", "abandon"}
Owning == {"admitted", "waiting", "generating", "ending"}
Pc == Polling \cup Owning \cup {"arriving", "acknowledge", "done"}

\* The constructor of server_state registers the one agent.
server_state == [impl EXCEPT !.agents = <<agent_record([max_concurrent |-> 1])>>]

AdmissionInit ==
    /\ sched = server_state
    /\ clock = 0
    /\ req = [r \in Requests |-> [pc |-> "arriving", task |-> 0, current |-> 0,
                                  submitted_at |-> 0, lease |-> 0,
                                  outcome |-> ResponseOutcome, todo |-> <<>>]]
    /\ parked = {}
    /\ lease_mutex = 0
    /\ execution_mutex = 0
    /\ active_request = 0
    /\ gone = {}

TaskOf(r) == sched.tasks[req[r].task]
LiveLease(i) == sched.tasks[i].state = "running" /\ ~sched.tasks[i].cancellation_requested
DeadlinePassed(r) == \E d \in Deadline[r] : clock - req[r].submitted_at >= d

At(r, pc) == req[r].pc = pc

\* The time a round of the loop works with is forgotten when the round ends.
Goto(r, pc) ==
    req' = [req EXCEPT ![r].pc = pc, ![r].current = IF pc \in {"take", "admit"} THEN @ ELSE 0]

(***************************************************************************)
(* admit_swarm_request.                                                    *)
(***************************************************************************)
request_spec(r) ==
    [wave |-> 0, parent_wave |-> 0, parent_task |-> 0, priority |-> Priority[r],
     max_tokens |-> {}, max_duration |-> Deadline[r], max_attempts |-> 1,
     retry_on |-> {}, backoff |-> 0, exponential |-> FALSE, max_backoff |-> 0]

\* Mutant of SubmitRequest: the deadline is recorded as the time of submission.
SubmitRequest_DeadlineAsTime(r) ==
    /\ At(r, "arriving")
    /\ clock <= LastArrival
    /\ submit(request_spec(r))
    /\ \E now \in Now, d \in Deadline[r] \cup {0} :
          req' = [req EXCEPT ![r].pc = "poll", ![r].submitted_at = now + d,
                             ![r].task = Len(sched.tasks) + 1]
    /\ UNCHANGED <<parked, lease_mutex, execution_mutex, active_request, gone>>

SubmitRequest(r) ==
    /\ At(r, "arriving")
    /\ clock <= LastArrival
    /\ \E now \in Now :
          \/ /\ submit(request_spec(r))
             /\ req' = [req EXCEPT ![r].pc = "poll", ![r].submitted_at = now,
                                   ![r].task = Len(sched.tasks) + 1]
          \/ /\ queued_task_count(sched) >= MaxQueued
             /\ Goto(r, "done")
             /\ UNCHANGED <<sched, clock>>
    /\ UNCHANGED <<parked, lease_mutex, execution_mutex, active_request, gone>>

\* Mutant of Poll: a request with a deadline and no queue timeout waits on.
Poll_NoDeadline(r) ==
    /\ At(r, "poll")
    /\ LET givesUp == \/ r \in gone
                      \/ TaskOf(r).cancellation_requested
                      \/ \E q \in QueueTimeout[r] : clock - req[r].submitted_at >= q
       IN  IF givesUp THEN Goto(r, "abandon")
           ELSE req' = [req EXCEPT ![r].pc = "tick", ![r].current = clock]
    /\ UNCHANGED <<sched, clock, parked, lease_mutex, execution_mutex, active_request, gone>>

Poll(r) ==
    /\ At(r, "poll")
    /\ LET givesUp == \/ r \in gone
                      \/ TaskOf(r).cancellation_requested
                      \/ \E q \in QueueTimeout[r] : clock - req[r].submitted_at >= q
                      \/ DeadlinePassed(r)
       IN  IF givesUp THEN Goto(r, "abandon")
           ELSE req' = [req EXCEPT ![r].pc = "tick", ![r].current = clock]
    /\ UNCHANGED <<sched, clock, parked, lease_mutex, execution_mutex, active_request, gone>>

Tick(r) ==
    /\ At(r, "tick")
    /\ tick(req[r].current)
    /\ Goto(r, "take")
    /\ UNCHANGED <<parked, lease_mutex, execution_mutex, active_request, gone>>

swarm_take_parked_lease(r) ==
    /\ At(r, "take")
    /\ lease_mutex = 0
    /\ parked' = parked \ {req[r].task}
    /\ Goto(r, IF req[r].task \in parked /\ LiveLease(req[r].task) THEN "admitted" ELSE "admit")
    /\ UNCHANGED <<sched, clock, lease_mutex, execution_mutex, active_request, gone>>

\* admit_next finds no lease to give.
NoLease(now) ==
    LET s == expire_running(sched, now)
    IN  s.active_tasks >= MaxConcurrent \/ FirstAgent(s) = {} \/ Selected(s, now) = {}

\* Mutant of AdmitNext: the lease of another request is dropped, not parked.
AdmitNext_DropsOthers(r) ==
    /\ At(r, "admit")
    /\ \/ \E i \in TasksOf(sched) :
             /\ admit_next(i, req[r].current)
             /\ Goto(r, IF i = req[r].task THEN "admitted" ELSE "poll")
       \/ /\ NoLease(req[r].current)
          /\ tick(req[r].current)
          /\ Goto(r, "poll")
    /\ UNCHANGED <<parked, lease_mutex, execution_mutex, active_request, gone>>

\* Mutant of AdmitNext: whatever lease comes back is taken for the request's own.
AdmitNext_AnyLease(r) ==
    /\ At(r, "admit")
    /\ \/ /\ \E i \in TasksOf(sched) : admit_next(i, req[r].current)
          /\ Goto(r, "admitted")
       \/ /\ NoLease(req[r].current)
          /\ tick(req[r].current)
          /\ Goto(r, "poll")
    /\ UNCHANGED <<parked, lease_mutex, execution_mutex, active_request, gone>>

AdmitNext(r) ==
    /\ At(r, "admit")
    /\ \/ \E i \in TasksOf(sched) :
             /\ admit_next(i, req[r].current)
             /\ IF i = req[r].task THEN Goto(r, "admitted")
                ELSE req' = [req EXCEPT ![r].pc = "park", ![r].lease = i, ![r].current = 0]
       \/ /\ NoLease(req[r].current)
          /\ tick(req[r].current)
          /\ Goto(r, "poll")
    /\ UNCHANGED <<parked, lease_mutex, execution_mutex, active_request, gone>>

\* Mutant of swarm_park_lease: the lease is published even if its task has ended.
swarm_park_lease_Unchecked(r) ==
    /\ At(r, "park")
    /\ lease_mutex = 0
    /\ parked' = parked \cup {req[r].lease}
    /\ req' = [req EXCEPT ![r].pc = "poll", ![r].lease = 0]
    /\ UNCHANGED <<sched, clock, lease_mutex, execution_mutex, active_request, gone>>

swarm_park_lease(r) ==
    /\ At(r, "park")
    /\ lease_mutex = 0
    /\ parked' = parked \cup {i \in {req[r].lease} : LiveLease(i)}
    /\ req' = [req EXCEPT ![r].pc = "poll", ![r].lease = 0]
    /\ UNCHANGED <<sched, clock, lease_mutex, execution_mutex, active_request, gone>>

(***************************************************************************)
(* swarm_cancel_queued_request: cancel, forget the lease and, if another   *)
(* thread had already started the task, acknowledge the cancellation, all  *)
(* under swarm_lease_mutex.                                                *)
(***************************************************************************)
\* A completion; one that comes too late is rejected by the scheduler.
Complete(i, outcome) ==
    \E now \in Now :
        \/ complete(i, outcome, 0, now)
        \/ /\ i \notin TasksIn(expire_running(sched, now), {"running"})
           /\ tick(now)

\* Mutant of swarm_cancel_queued_request: the cooperative cancel is not acknowledged.
swarm_cancel_queued_request_NoAck(r) ==
    /\ At(r, "abandon")
    /\ lease_mutex = 0
    /\ \E now \in Now : cancel_task(req[r].task, now)
    /\ Goto(r, "done")
    /\ parked' = parked \ {req[r].task}
    /\ UNCHANGED <<lease_mutex, execution_mutex, active_request, gone>>

swarm_cancel_queued_request(r) ==
    /\ At(r, "abandon")
    /\ lease_mutex = 0
    /\ \E now \in Now :
          LET started == req[r].task \in TasksIn(expire_running(sched, now), {"running"})
          IN  /\ cancel_task(req[r].task, now)
              /\ Goto(r, IF started THEN "acknowledge" ELSE "done")
              /\ lease_mutex' = IF started THEN r ELSE 0
    /\ parked' = parked \ {req[r].task}
    /\ UNCHANGED <<execution_mutex, active_request, gone>>

Acknowledge(r) ==
    /\ At(r, "acknowledge")
    /\ Complete(req[r].task, "cancelled")
    /\ lease_mutex' = 0
    /\ Goto(r, "done")
    /\ UNCHANGED <<parked, execution_mutex, active_request, gone>>

(***************************************************************************)
(* The admitted request: guards, the execution lock, native generation.    *)
(***************************************************************************)
BeginRequest(r) ==
    /\ At(r, "admitted")
    /\ active_request' = r
    /\ Goto(r, "waiting")
    /\ UNCHANGED <<sched, clock, parked, lease_mutex, execution_mutex, gone>>

LockExecution(r) ==
    /\ At(r, "waiting")
    /\ execution_mutex = 0
    /\ execution_mutex' = r
    /\ Goto(r, "generating")
    /\ UNCHANGED <<sched, clock, parked, lease_mutex, active_request, gone>>

\* The outcome reported after a failed generation: the cancellation probe, read
\* again, tells a deadline from a cancellation from an error.
FailureOutcome(r) ==
    IF DeadlinePassed(r) THEN "timed_out"
    ELSE IF r \in gone \/ TaskOf(r).cancellation_requested THEN "cancelled"
    ELSE "failed"

\* A response is completed and then the destructor of active_request_guard runs;
\* after an error both are destructors, which run in the opposite order.
EndGeneration(r) ==
    /\ At(r, "generating")
    /\ execution_mutex' = 0
    /\ \/ req' = [req EXCEPT ![r].pc = "ending", ![r].todo = <<"complete", "clear">>]
       \/ \E outcome \in {FailureOutcome(r), "failed"} :
             req' = [req EXCEPT ![r].pc = "ending", ![r].outcome = {outcome},
                                ![r].todo = <<"clear", "complete">>]
    /\ UNCHANGED <<sched, clock, parked, lease_mutex, active_request, gone>>

Finish(r, item) ==
    /\ At(r, "ending")
    /\ Head(req[r].todo) = item
    /\ req' = [req EXCEPT ![r].todo = Tail(@),
                          ![r].pc = IF Tail(req[r].todo) = <<>> THEN "done" ELSE "ending"]
    /\ UNCHANGED <<parked, lease_mutex, execution_mutex, gone>>

complete_swarm_request(r) ==
    /\ Finish(r, "complete")
    /\ \E outcome \in req[r].outcome : Complete(req[r].task, outcome)
    /\ UNCHANGED active_request

ClearActive(r) ==
    /\ Finish(r, "clear")
    /\ active_request' = IF active_request = r THEN 0 ELSE active_request
    /\ UNCHANGED <<sched, clock>>

(***************************************************************************)
(* The environment: clients that leave, operators that cancel, time.       *)
(***************************************************************************)
Disconnect(r) ==
    /\ r \notin gone
    /\ req[r].pc \notin {"arriving", "done"}
    /\ gone' = gone \cup {r}
    /\ UNCHANGED <<sched, clock, req, parked, lease_mutex, execution_mutex, active_request>>

OperatorCancel(i) ==
    /\ \E now \in Now : cancel_task(i, now)
    /\ UNCHANGED <<req, parked, lease_mutex, execution_mutex, active_request, gone>>

TimePasses ==
    /\ Advance
    /\ UNCHANGED <<req, parked, lease_mutex, execution_mutex, active_request, gone>>

RequestStep(r) ==
    \/ Poll(r) \/ Tick(r) \/ swarm_take_parked_lease(r) \/ AdmitNext(r) \/ swarm_park_lease(r)
    \/ swarm_cancel_queued_request(r) \/ Acknowledge(r)
    \/ BeginRequest(r) \/ LockExecution(r) \/ EndGeneration(r)
    \/ complete_swarm_request(r) \/ ClearActive(r)

AdmissionNext ==
    \/ \E r \in Requests : SubmitRequest(r) \/ RequestStep(r) \/ Disconnect(r)
    \/ \E i \in TasksOf(sched) : OperatorCancel(i)
    \/ TimePasses

AdmissionSpec == AdmissionInit /\ [][AdmissionNext]_admissionVars

\* A request thread can take its next step unless it waits for a mutex.
CanStep(r) ==
    /\ req[r].pc \notin {"arriving", "done"}
    /\ req[r].pc \in {"take", "park", "abandon"} => lease_mutex = 0
    /\ At(r, "waiting") => execution_mutex = 0

\* Weak fairness of RequestStep(r), spelled out: CanStep(r) is when it is enabled,
\* and its steps are the ones that change req[r] once the request has arrived.
\* Every request thread keeps running, time passes, and a native generation ends:
\* it is bounded by its token limit.
FairAdmissionSpec ==
    /\ AdmissionSpec
    /\ WF_admissionVars(TimePasses)
    /\ \A r \in Requests :
          []<>~CanStep(r) \/ []<><<req'[r] # req[r]>>_admissionVars

(***************************************************************************)
(* Properties.                                                             *)
(***************************************************************************)
\* The requests' contexts and the shared state keep their types.
AdmissionTypeOK ==
    /\ sched \in Sched
    /\ req \in [Requests -> [pc : Pc, task : 0 .. Len(sched.tasks), current : 0 .. clock,
                             submitted_at : 0 .. clock, lease : 0 .. Len(sched.tasks),
                             outcome : SUBSET Outcome,
                             todo : {<<>>, <<"complete">>, <<"clear">>,
                                     <<"complete", "clear">>, <<"clear", "complete">>}]]
    /\ parked \subseteq TasksOf(sched)
    /\ {lease_mutex, execution_mutex, active_request} \subseteq Requests \cup {0}
    /\ gone \subseteq Requests

\* The lease of a started request that still polls is never lost: it is parked or
\* in the hand of the thread that is about to park it.
LeaseNotLost ==
    \A r \in Requests :
        (req[r].pc \in Polling /\ req[r].task # 0) =>
            (LiveLease(req[r].task) =>
                \/ req[r].task \in parked
                \/ \E q \in Requests : At(q, "park") /\ req[q].lease = req[r].task)

\* A scheduler slot always has a thread that will give it back: the request of a
\* running task has not ended, nor has it already reported its completion.
SlotHasOwner ==
    \A i \in TasksIn(sched, {"running"}) :
        \E r \in Requests :
            /\ req[r].task = i
            /\ ~At(r, "done")
            /\ At(r, "ending") => \E k \in DOMAIN req[r].todo : req[r].todo[k] = "complete"

\* No lease is parked for a request that is over: swarm_leases cannot grow with
\* leases nobody will take.
NoStaleLease ==
    \A r \in Requests : At(r, "done") => req[r].task \notin parked

\* The converse of SlotHasOwner: from its admission until it reports, through the wait
\* for the execution lock and the generation, a request keeps its scheduler slot unless
\* it has a deadline and the scheduler has expired its attempt.  No disconnect,
\* cancellation, timeout or completion by another thread ends the attempt under it, so
\* with one slot two requests are past admission only after such an expiry.  (The expiry
\* may come before the request's own deadline: see the README.)
SlotKept ==
    \A r \in Requests :
        (\/ At(r, "admitted") \/ At(r, "waiting") \/ At(r, "generating")
         \/ At(r, "ending") /\ "complete" \in {req[r].todo[k] : k \in DOMAIN req[r].todo})
        => \/ TaskOf(r).state = "running"
           \/ Deadline[r] # {} /\ TaskOf(r).state \in {"timed_out", "cancelled"}

\* Every request that was submitted ends: it is refused, gives up or completes,
\* whichever of the other requests are cancelled, disconnected or expired.
EveryRequestEnds ==
    \A r \in Requests : req[r].pc # "arriving" ~> req[r].pc = "done"

\* The server's comment on lifecycle GC: it "waits while native generation is
\* active".  The worker asks native_generation_active, which must therefore be
\* true whenever a request generates.
GenerationIsVisible ==
    \A r \in Requests : At(r, "generating") => active_request # 0
=============================================================================
