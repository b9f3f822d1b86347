--------------------------- MODULE SessionLifecycle ---------------------------
(***************************************************************************)
(* Whole-session retention: the namespace leases of requests and of their  *)
(* persistence jobs, the maintenance worker of axiom_qwen38_api.cpp, and   *)
(* prune_stale_sessions of axiom_qwen38_session_store.cpp, which renames a *)
(* stale namespace to a tombstone and then removes its files.              *)
(*                                                                         *)
(* A namespace is a directory under the store's root.  Directories are     *)
(* numbered, and the root says which one is live under a namespace's name  *)
(* and which ones are tombstones.  A session's files are its manifest and  *)
(* its tier.  The root and each directory are objects of the disk of their *)
(* own: a pair of what a read returns now and of what a crash may leave.   *)
(* The session that main opens at startup has no part of its own here: a   *)
(* request may name it like any other.  That main's pass protects it, and  *)
(* that main creates its directory, is left out.                           *)
(* Namespace ids are numbers, since ties in age are broken by their order. *)
(***************************************************************************)
EXTENDS SessionSelection

CONSTANTS
    Requests,           \* threads of handle_client
    Namespaces,         \* namespace ids, numbers
    Ttl,                \* session_ttl_seconds, 0 for none
    MaxSessions,        \* session_max_namespaces, 0 for no cap
    Interrupted,        \* may the process stop between a tombstone's rename and its sync?
    Times,              \* the times of the scan, numbers
    MaxDirs             \* bound of the model

ASSUME LifecycleAssumption ==
    /\ Namespaces \subseteq Nat \ {0}
    /\ {Ttl, MaxSessions, MaxDirs} \union Times \subseteq Nat
    /\ Interrupted \in BOOLEAN

VARIABLES
    pc, request,        \* where each request is, and its namespace
    session_namespace_leases,
    active,             \* active_request_sequence: a set of at most one request
    jobs,               \* queued jobs, each with its step and its lease's namespace;
                        \* the first one is the worker's
    lifecycle_gc_requested, lifecycle_gc_protected_namespace,
    gc,                 \* where the pass is, and what it has found
    starting,           \* main's own pass, before there are requests
    root, files,        \* the disk
    published           \* directories of sessions that have published a turn

requestVars == <<pc, request, active>>
leaseVars == <<session_namespace_leases>>
wanted == <<lifecycle_gc_requested, lifecycle_gc_protected_namespace>>
disk == <<root, files, published>>
lifecycleVars == <<requestVars, leaseVars, jobs, wanted, gc, starting, disk>>

Dirs == 1..MaxDirs
AllFiles == {"manifest", "kv"}
NoPass == [step |-> "wait", protect |-> {}, victims |-> {}, leftover |-> {}, dir |-> 0]

Synced(v) == [now |-> v, crash |-> {v}]
Unsynced(o, v) == [now |-> v, crash |-> o.crash \union {v}]

Holds(s, d) == d \in s.tombs \/ \E n \in Namespaces : s.live[n] = d
Live(n) == root.now.live[n]
LiveNamespaces == {n \in Namespaces : Live(n) # 0}

\* Mutant: the mutex covers only the choice of the protected namespaces.
LeasesLocked_ReleasedEarly == FALSE

\* run_session_lifecycle_gc holds session_lease_mutex from the choice of the protected
\* namespaces to the end of the pass.
LeasesLocked == gc.step \notin {"wait", "run"}

LifecycleInit ==
    /\ pc = [r \in Requests |-> "idle"]
    /\ request = [r \in Requests |-> 0]
    /\ session_namespace_leases = [n \in Namespaces |-> 0]
    /\ active = {}
    /\ jobs = <<>>
    /\ lifecycle_gc_requested = FALSE
    /\ lifecycle_gc_protected_namespace = {}
    /\ gc = [NoPass EXCEPT !.step = "run"]
    /\ starting = TRUE
    /\ root = Synced([live |-> [n \in Namespaces |-> 0], tombs |-> {}])
    /\ files = [d \in Dirs |-> Synced({})]
    /\ published = {}

--------------------------------------------------------------------------------
(* Requests and their jobs *)

AddLease(n) ==
    session_namespace_leases' = [session_namespace_leases EXCEPT ![n] = @ + 1]

DropLease(n) ==
    session_namespace_leases' = [session_namespace_leases EXCEPT ![n] = IF @ > 1 THEN @ - 1 ELSE 0]

\* handle_client leases the namespace before tokenization and admission.
Lease(r, n) ==
    /\ ~starting
    /\ pc[r] = "idle"
    /\ ~LeasesLocked
    /\ AddLease(n)
    /\ request' = [request EXCEPT ![r] = n]
    /\ pc' = [pc EXCEPT ![r] = "leased"]
    /\ UNCHANGED <<active, jobs, wanted, gc, starting, disk>>

\* The admitted request becomes the active one, or it was not admitted.
Admit(r) ==
    /\ pc[r] = "leased"
    /\ \/ pc' = [pc EXCEPT ![r] = "active"] /\ active' = {r}
       \/ pc' = [pc EXCEPT ![r] = "unlease"] /\ active' = active
    /\ UNCHANGED <<request, leaseVars, jobs, wanted, gc, starting, disk>>

\* activate_session: the namespace's directory and tier are created when they are not
\* there.
OpenSession(n) ==
    LET free == {d \in Dirs : \A s \in root.crash : ~Holds(s, d)}
        d == IF Live(n) # 0 THEN Live(n) ELSE CHOOSE x \in free : \A y \in free : x <= y
    IN /\ Live(n) = 0 => free # {}
       /\ root' = IF Live(n) # 0 THEN root ELSE Unsynced(root, [root.now EXCEPT !.live[n] = d])
       /\ files' = IF Live(n) # 0
                   THEN [files EXCEPT ![d] = Unsynced(@, @.now \union {"kv"})]
                   ELSE [files EXCEPT ![d] = Unsynced(Synced({}), {"kv"})]
       /\ published' = IF Live(n) # 0 THEN published ELSE published \ {d}

\* Mutant of Activate: only session_mutex is waited for.
Activate_LockOnly(r) ==
    /\ pc[r] = "active"
    /\ \A q \in Requests : pc[q] # "using"
    /\ OpenSession(request[r])
    /\ pc' = [pc EXCEPT ![r] = "using"]
    /\ UNCHANGED <<request, active, leaseVars, jobs, wanted, gc, starting>>

\* The model is free, nobody generates and no job is pending; then activate_session.
Activate(r) ==
    /\ pc[r] = "active"
    /\ \A k \in DOMAIN jobs : jobs[k].step # "publish"
    /\ \A q \in Requests : pc[q] # "using"
    /\ OpenSession(request[r])
    /\ pc' = [pc EXCEPT ![r] = "using"]
    /\ UNCHANGED <<request, active, leaseVars, jobs, wanted, gc, starting>>

\* A request with a thinking budget may generate once more; the model does not count.
GenerationDone(r) == \E next \in {"active", "end"} : pc' = [pc EXCEPT ![r] = next]

\* Mutant of Handover: the job relies on the lease of its request.
Handover_NoLease(r) ==
    /\ pc[r] = "using"
    /\ jobs' = Append(jobs, [step |-> "publish", namespace |-> request[r]])
    /\ GenerationDone(r)
    /\ UNCHANGED <<request, active, leaseVars, wanted, gc, starting, disk>>

\* The turn is done: a job with a lease of its own takes over.  It is pending from here
\* on, but the worker may not yet have destroyed the previous job and its lease.
Handover(r) ==
    /\ pc[r] = "using"
    /\ ~LeasesLocked
    /\ AddLease(request[r])
    /\ jobs' = Append(jobs, [step |-> "publish", namespace |-> request[r]])
    /\ GenerationDone(r)
    /\ UNCHANGED <<request, active, wanted, gc, starting, disk>>

\* The turn is published and a lifecycle pass is asked for, or persistence fails.
PublishTurn(n) ==
    \/ /\ Live(n) # 0
       /\ files' = [files EXCEPT ![Live(n)] = Synced(@.now \union {"manifest"})]
       /\ published' = published \union {Live(n)}
       /\ lifecycle_gc_requested' = TRUE
       /\ lifecycle_gc_protected_namespace' = {n}
    \/ UNCHANGED <<files, published, wanted>>

\* The job cannot be queued, and the request runs it before it leaves native_generate.
\* The lease this job holds meanwhile is left out: it begins and ends while the request
\* leases the same namespace, so whether the namespace is leased does not depend on it.
InlinePublish(r) ==
    /\ pc[r] = "using"
    /\ PublishTurn(request[r])
    /\ GenerationDone(r)
    /\ UNCHANGED <<request, active, leaseVars, jobs, gc, starting, root>>

GenerationFails(r) ==
    /\ pc[r] \in {"active", "using"}
    /\ pc' = [pc EXCEPT ![r] = "end"]
    /\ UNCHANGED <<request, active, leaseVars, jobs, wanted, gc, starting, disk>>

\* ~active_request_guard, then ~session_namespace_lease.
EndActive(r) ==
    /\ pc[r] = "end"
    /\ active' = active \ {r}
    /\ pc' = [pc EXCEPT ![r] = "unlease"]
    /\ UNCHANGED <<request, leaseVars, jobs, wanted, gc, starting, disk>>

Unlease(r) ==
    /\ pc[r] = "unlease"
    /\ ~LeasesLocked
    /\ DropLease(request[r])
    /\ request' = [request EXCEPT ![r] = 0]
    /\ pc' = [pc EXCEPT ![r] = "idle"]
    /\ UNCHANGED <<active, jobs, wanted, gc, starting, disk>>

\* The worker runs its job ...
JobPublish ==
    /\ jobs # <<>> /\ Head(jobs).step = "publish"
    /\ PublishTurn(Head(jobs).namespace)
    /\ jobs' = [jobs EXCEPT ![1].step = "unlease"]
    /\ UNCHANGED <<requestVars, leaseVars, gc, starting, root>>

\* Mutant of JobUnlease: the job's lease is never released.
JobUnlease_KeepsLease ==
    /\ jobs # <<>> /\ Head(jobs).step = "unlease"
    /\ jobs' = Tail(jobs)
    /\ UNCHANGED <<requestVars, leaseVars, wanted, gc, starting, disk>>

\* ... and destroys it, and with it its lease, before it takes the next one.
JobUnlease ==
    /\ jobs # <<>> /\ Head(jobs).step = "unlease"
    /\ ~LeasesLocked
    /\ DropLease(Head(jobs).namespace)
    /\ jobs' = Tail(jobs)
    /\ UNCHANGED <<requestVars, wanted, gc, starting, disk>>

--------------------------------------------------------------------------------
(* The maintenance worker and prune_stale_sessions *)

\* The worker has been woken and finds no generation active: it takes the request.  The
\* pass may be skipped because the last one is too recent.
GcWake ==
    /\ gc.step = "wait"
    /\ lifecycle_gc_requested
    /\ active = {}
    /\ lifecycle_gc_requested' = FALSE
    /\ lifecycle_gc_protected_namespace' = {}
    /\ gc' \in {NoPass, [NoPass EXCEPT !.step = "run",
                                       !.protect = lifecycle_gc_protected_namespace]}
    /\ UNCHANGED <<requestVars, leaseVars, jobs, starting, disk>>

\* With session_lease_mutex held: the namespaces the request for the pass names, and the
\* leased ones.
Protected == gc.protect \union {n \in Namespaces : session_namespace_leases[n] > 0}

\* The mutex is taken, the protected set built, the root scanned and the selection made.
\* One step is enough: no lease can change once the mutex is held, and what else happens
\* before the scan could as well happen before the mutex is taken.  The selection reads
\* only what the scan found, although the code removes old tombstones before it.  The
\* times found are arbitrary: the clock may have moved, or been set, in any way since the
\* sessions were used.
GcScan ==
    /\ gc.step = "run"
    /\ LET Policy(now) == [now |-> now, ttl |-> Ttl, max |-> MaxSessions] IN
       \E victims \in {Selected(found, Protected, Policy(now)) :
                           found \in [LiveNamespaces -> Times], now \in Times} :
          gc' = [NoPass EXCEPT !.step = "next", !.leftover = root.now.tombs, !.victims = victims]
    /\ UNCHANGED <<requestVars, leaseVars, jobs, wanted, starting, disk>>

\* A tombstone of an earlier pass: its files are removed at once.
GcLeftover ==
    /\ gc.step = "next"
    /\ \E d \in gc.leftover :
          gc' = [gc EXCEPT !.step = "unlink", !.leftover = @ \ {d}, !.dir = d]
    /\ UNCHANGED <<requestVars, leaseVars, jobs, wanted, starting, disk>>

\* The next victim, whichever was the oldest, is renamed to a tombstone.
GcRename ==
    /\ gc.step = "next" /\ gc.leftover = {}
    /\ \E n \in gc.victims :
          /\ root' = Unsynced(root, [live |-> [root.now.live EXCEPT ![n] = 0],
                                     tombs |-> root.now.tombs \union {Live(n)}])
          /\ gc' = [gc EXCEPT !.step = "sync", !.victims = @ \ {n}, !.dir = Live(n)]
    /\ UNCHANGED <<requestVars, leaseVars, jobs, wanted, starting, files, published>>

\* Mutant: the files go before the rename is durable.
GcSync_NoSync ==
    /\ gc.step = "sync"
    /\ gc' = [gc EXCEPT !.step = "unlink"]
    /\ UNCHANGED <<requestVars, leaseVars, jobs, wanted, starting, disk>>

GcSync ==
    /\ gc.step = "sync"
    /\ root' = Synced(root.now)
    /\ gc' = [gc EXCEPT !.step = "unlink"]
    /\ UNCHANGED <<requestVars, leaseVars, jobs, wanted, starting, files, published>>

\* remove_gc_namespace: the files in the directory's order, which is arbitrary, ...
GcUnlink ==
    /\ gc.step = "unlink"
    /\ \E f \in files[gc.dir].now :
          files' = [files EXCEPT ![gc.dir] = Unsynced(@, @.now \ {f})]
    /\ UNCHANGED <<requestVars, leaseVars, jobs, wanted, gc, starting, root, published>>

\* ... the sync of the tombstone and its removal ...
GcRmdir ==
    /\ gc.step = "unlink"
    /\ files[gc.dir].now = {}
    /\ files' = [files EXCEPT ![gc.dir] = Synced({})]
    /\ root' = Unsynced(root, [root.now EXCEPT !.tombs = @ \ {gc.dir}])
    /\ gc' = [gc EXCEPT !.step = "removed"]
    /\ UNCHANGED <<requestVars, leaseVars, jobs, wanted, starting, published>>

\* ... and the sync of the root.
GcRemoved ==
    /\ gc.step = "removed"
    /\ root' = Synced(root.now)
    /\ published' = published \ {gc.dir}
    /\ gc' = [gc EXCEPT !.step = "next", !.dir = 0]
    /\ UNCHANGED <<requestVars, leaseVars, jobs, wanted, starting, files>>

GcDone ==
    /\ gc.step = "next" /\ gc.leftover = {} /\ gc.victims = {}
    /\ gc' = NoPass
    /\ starting' = FALSE
    /\ UNCHANGED <<requestVars, leaseVars, jobs, wanted, disk>>

\* Any call may fail, which ends the pass where it is.  A failed sync of a tombstone's
\* rename leaves the rename undecided.
GcError ==
    /\ LeasesLocked
    /\ gc.step = "sync" => Interrupted
    /\ gc' = NoPass
    /\ starting' = FALSE
    /\ UNCHANGED <<requestVars, leaseVars, jobs, wanted, disk>>

--------------------------------------------------------------------------------
\* A new process: main runs a pass before it accepts requests.
Restart ==
    /\ pc' = [r \in Requests |-> "idle"]
    /\ request' = [r \in Requests |-> 0]
    /\ session_namespace_leases' = [n \in Namespaces |-> 0]
    /\ active' = {}
    /\ jobs' = <<>>
    /\ lifecycle_gc_requested' = FALSE
    /\ lifecycle_gc_protected_namespace' = {}
    /\ gc' = [NoPass EXCEPT !.step = "run"]
    /\ starting' = TRUE

\* The process ends; what it wrote stays, synced or not.
Kill ==
    /\ gc.step = "sync" => Interrupted
    /\ Restart
    /\ UNCHANGED disk

\* The machine stops: the root and each directory keep what a crash may leave of them.
Crash ==
    /\ Restart
    /\ \E s \in root.crash :
          LET lost == {d \in Dirs : ~Holds(s, d)}
              kept == [d \in Dirs |-> IF d \in lost THEN {{}} ELSE files[d].crash]
          IN /\ root' = Synced(s)
             /\ \E c \in [Dirs -> UNION {kept[d] : d \in Dirs}] :
                   /\ \A d \in Dirs : c[d] \in kept[d]
                   /\ files' = [d \in Dirs |-> Synced(c[d])]
             /\ published' = published \ lost

LifecycleNext ==
    \/ \E r \in Requests :
          \/ \E n \in Namespaces : Lease(r, n)
          \/ Admit(r) \/ Activate(r) \/ Handover(r) \/ InlinePublish(r) \/ GenerationFails(r)
          \/ EndActive(r) \/ Unlease(r)
    \/ JobPublish \/ JobUnlease
    \/ GcWake \/ GcScan \/ GcLeftover \/ GcRename \/ GcSync \/ GcUnlink
    \/ GcRmdir \/ GcRemoved \/ GcDone \/ GcError
    \/ Kill \/ Crash

LifecycleSpec == LifecycleInit /\ [][LifecycleNext]_lifecycleVars

--------------------------------------------------------------------------------
(* Properties *)

\* Type invariant.  At most two jobs exist: a request generates only when none is
\* pending, so the worker has at most one to destroy when the next is queued.
LifecycleTypeOK ==
    /\ pc \in [Requests -> {"idle", "leased", "active", "using", "end", "unlease"}]
    /\ request \in [Requests -> Namespaces \union {0}]
    /\ session_namespace_leases \in [Namespaces -> Nat]
    /\ active \subseteq Requests
    /\ Len(jobs) <= 2
    /\ \A k \in DOMAIN jobs : jobs[k] \in [step : {"publish", "unlease"}, namespace : Namespaces]
    /\ root.now \in root.crash
    /\ \A d \in Dirs : files[d].now \in files[d].crash /\ files[d].crash \subseteq SUBSET AllFiles
    /\ published \subseteq Dirs

\* A namespace has exactly as many leases as there are requests for it and queued jobs of
\* it that are not destroyed, jobs that have published included: no lease is given back
\* twice, and none stays behind, which would keep a session for ever.
LeasesCounted ==
    \A n \in Namespaces :
        session_namespace_leases[n] = Cardinality({r \in Requests : request[r] = n})
                                      + Cardinality({k \in DOMAIN jobs : jobs[k].namespace = n})

\* A request that generates, and a job that is about to publish, find the session's
\* directory and tier in place: no pass takes them away, although the request that
\* queued the job has long released its lease.
NamespaceUsable ==
    \A n \in {request[r] : r \in {q \in Requests : pc[q] = "using"}}
             \union {jobs[k].namespace : k \in {k \in DOMAIN jobs : jobs[k].step = "publish"}} :
        Live(n) # 0 /\ "kv" \in files[Live(n)].now

\* "A queued/in-flight request can never lose its cache": while a namespace stays leased
\* no step renames it away.
LeasedStays ==
    [][\A n \in Namespaces :
          session_namespace_leases[n] > 0 /\ session_namespace_leases'[n] > 0 /\ Live(n) # 0
          => Live(n)' = Live(n)]_lifecycleVars

\* A crash may leave a complete tombstone, never a half-visible live namespace: whatever
\* a crash leaves of the root and of the directories, a session that has published a turn
\* and is found under its name has its manifest and its tier.
NeverHalfVisible ==
    \A s \in root.crash, n \in Namespaces :
        s.live[n] \in published => files[s.live[n]].crash = {AllFiles}

================================================================================
