------------------------------ MODULE Kubelet ------------------------------
(***************************************************************************)
(* The kubelet of cave-home-kubelet-rs: sync_pod (kubelet.rs) over the     *)
(* volume reconciler, one pod worker per pod and the status manager.       *)
(*                                                                         *)
(* One task per pod calls sync_pod; the calls of different pods, the       *)
(* status flush and the runtime run side by side, and a task's steps end   *)
(* at its awaits.  A call to the container runtime succeeds, fails, or     *)
(* takes effect and has its answer lost.                                   *)
(*                                                                         *)
(* A volume is named by the pod that wants it.  The steps of a pass over   *)
(* the volumes, or over the containers of a listing, take their work from  *)
(* the task's todo.                                                        *)
(***************************************************************************)
EXTENDS Integers, FiniteSets

CONSTANTS
    Pods,
    Mounting,   \* the pods with a volume
    Specs,      \* by pod: the sets of container names its spec may ask for
    Restarts,   \* the pods whose restart policy is not Never
    MaxCalls,   \* bound, by pod: calls of sync_pod
    MaxFaults,  \* bound, by pod: failing calls, containers and sandboxes
    MaxFlushes  \* bound: flushes of the status manager

VARIABLES
    desired,     \* DesiredStateOfWorld: volumes of the registered pods
    mounted,     \* ActualStateOfWorld
    disk,        \* volume directories
    sandboxes,   \* the runtime's sandboxes: [id, pod, ready]
    containers,  \* the runtime's containers: [id, sandbox, name, state]
    next_id,     \* the runtime's identifiers, counted by pod
    workers,     \* Kubelet.workers: [state, sandbox_id (Nil: none)]
    tasks,       \* the call of sync_pod in progress, by pod
    life,        \* how far the caller has got with a pod
    calls, faults, flushes,
    pending,     \* State.pending: at most one status per pod
    acked,       \* State.acked
    flush,       \* statuses sync_batch still has to write
    sink,        \* the status the API server holds
    \* history variables
    latest,      \* the status set last
    unsure,      \* pods whose last write was refused for good or lost its answer
    leaked,      \* sandboxes whose clean-up or whose creation's answer failed
    excused,     \* containers that exited since the listing, or were not started
    solo,        \* the pod whose pass of the reconciler no other has overlapped
    overlapped   \* two passes have overlapped

volume_vars == <<desired, mounted, disk>>
runtime_vars == <<sandboxes, containers, next_id>>
pass_vars == <<solo, overlapped>>
status_vars == <<pending, acked, flush, sink, latest, unsure, flushes>>
vars == <<volume_vars, runtime_vars, workers, tasks, life, calls, faults, status_vars,
          leaked, excused, pass_vars>>

Nil == <<>>
New(p) == <<p, next_id[p]>>
Idle == [pc |-> "idle", work |-> "Sync", spec |-> {}, vols |-> {}, todo |-> {},
         current |-> Nil, kill |-> {}]
Worker0 == [state |-> "Idle", sandbox_id |-> Nil]

At(p, l) == tasks[p].pc = l
Goto(p, t) == tasks' = [tasks EXCEPT ![p] = t]
Jump(p, l) == Goto(p, [tasks[p] EXCEPT !.pc = l])

\* How a call ends; the last two are faults.
Ends == {"ok", "lost", "failed"}
Fault(p, end) ==
    /\ end = "ok" \/ faults[p] < MaxFaults[p]
    /\ faults' = [faults EXCEPT ![p] = IF end = "ok" THEN @ ELSE @ + 1]

\* The task goes on with t, or returns the error to the caller.
Return(p, end, t) == Goto(p, IF end = "ok" THEN t ELSE Idle)

-----------------------------------------------------------------------------
(* Reconciler::reconcile_once.                                             *)

Passing == {q \in Pods : tasks[q].pc \in {"mount", "mark", "unmount", "unmark", "reconciled"}}

\* Mutant of Surplus: the volumes of other pods are surplus.
SurplusOthers(p, t, M) == M \ {p}

\* The volumes of M, those mounted, that the snapshot lacks.
Surplus(p, t, M) == M \ t.vols

\* The pass goes on to set up volume v, past some found mounted ...
MountNext(t, v, skipped) == [t EXCEPT !.pc = "mount", !.current = v, !.todo = @ \ ({v} \cup skipped)]

\* ... or, with all of the snapshot mounted, to tear down the surplus.
Unmounts(p, t, M) ==
    [t EXCEPT !.pc = IF Surplus(p, t, M) = {} THEN "reconciled" ELSE "unmount",
              !.todo = Surplus(p, t, M), !.vols = {}]

\* From one await to the next: volumes found mounted are skipped; the first
\* that is not is set up; after the last, the surplus is torn down.
NextVolume(p, t, M) ==
    IF t.todo \subseteq M
    THEN {Unmounts(p, t, M)}
    ELSE {MountNext(t, v, skipped) : v \in t.todo \ M, skipped \in SUBSET (t.todo \cap M)}

\* A pass starts, with the snapshot V of the desired volumes.
StartPass(p, t, V) ==
    /\ \E u \in NextVolume(p, [t EXCEPT !.vols = V, !.todo = V], mounted) : Goto(p, u)
    /\ solo' = IF Passing \ {p} = {} THEN {p} ELSE {}
    /\ overlapped' = (overlapped \/ Passing \ {p} # {})

SetUp(p) ==
    /\ At(p, "mount")
    /\ \E end \in {"ok", "failed"} :
         /\ Fault(p, end)
         /\ disk' = IF end = "ok" THEN disk \cup {tasks[p].current} ELSE disk
         /\ Return(p, end, [tasks[p] EXCEPT !.pc = "mark"])
    /\ UNCHANGED <<desired, mounted, runtime_vars, workers, life, calls, status_vars, leaked,
                   excused, pass_vars>>

\* The volume is marked mounted.
MarkMounted(p) ==
    /\ At(p, "mark")
    /\ mounted' = mounted \cup {tasks[p].current}
    /\ \E u \in NextVolume(p, [tasks[p] EXCEPT !.current = Nil], mounted') : Goto(p, u)
    /\ UNCHANGED <<desired, disk, runtime_vars, workers, life, calls, faults, status_vars,
                   leaked, excused, pass_vars>>

TearDown(p) ==
    /\ At(p, "unmount")
    /\ \E v \in tasks[p].todo, end \in {"ok", "failed"} :
         /\ Fault(p, end)
         /\ disk' = IF end = "ok" THEN disk \ {v} ELSE disk
         /\ Return(p, end, [tasks[p] EXCEPT !.pc = "unmark", !.current = v, !.todo = @ \ {v}])
    /\ UNCHANGED <<desired, mounted, runtime_vars, workers, life, calls, status_vars, leaked,
                   excused, pass_vars>>

MarkUnmounted(p) ==
    /\ At(p, "unmark")
    /\ mounted' = mounted \ {tasks[p].current}
    /\ Goto(p, [tasks[p] EXCEPT !.pc = IF tasks[p].todo = {} THEN "reconciled" ELSE "unmount",
                                !.current = Nil])
    /\ UNCHANGED <<desired, disk, runtime_vars, workers, life, calls, faults, status_vars,
                   leaked, excused, pass_vars>>

-----------------------------------------------------------------------------
(* The container runtime, as its mock has it: what its calls do.           *)

In(sb) == {c \in containers : c.sandbox = sb}
Exited == {"Succeeded", "Failed"}

SetState(c, st) == (containers \ {c}) \cup {[c EXCEPT !.state = st]}

\* stop_pod_sandbox also ends its containers.
Stopped(sb) == {IF s.id = sb THEN [s EXCEPT !.ready = FALSE] ELSE s : s \in sandboxes}
StoppedContainers(sb) ==
    {IF c.sandbox = sb /\ c.state = "Running" THEN [c EXCEPT !.state = "Succeeded"] ELSE c :
        c \in containers}

\* A container exits by itself, well or badly.
ContainerExits(p) ==
    /\ Fault(p, "failed")
    /\ \E c \in containers, st \in Exited :
         /\ c.id[1] = p
         /\ c.state = "Running"
         /\ containers' = SetState(c, st)
         /\ excused' = excused \cup {c.id}
    /\ UNCHANGED <<volume_vars, sandboxes, next_id, workers, tasks, life, calls, status_vars,
                   leaked, pass_vars>>

\* A sandbox fails, and its containers with it.
SandboxFails(p) ==
    /\ Fault(p, "failed")
    /\ \E s \in sandboxes :
         /\ s.pod = p
         /\ s.ready
         /\ sandboxes' = Stopped(s.id)
         /\ containers' = StoppedContainers(s.id)
         /\ excused' = excused \cup {c.id : c \in {c \in In(s.id) : c.state = "Running"}}
    /\ UNCHANGED <<volume_vars, next_id, workers, tasks, life, calls, status_vars, leaked,
                   pass_vars>>

\* remove_pod_sandbox refuses a ready sandbox, and removes its containers.
Removed(sb) ==
    LET gone == {s.id : s \in {s \in sandboxes : s.id = sb /\ ~s.ready}}
    IN  /\ sandboxes' = {s \in sandboxes : s.id \notin gone}
        /\ containers' = {c \in containers : c.sandbox \notin gone}

-----------------------------------------------------------------------------
(* The caller of sync_pod, external: it syncs a pod until the pod is gone, *)
(* and terminates it in two phases, each repeated until it succeeds.       *)

\* A call of sync_pod, up to its first await.
Begin(p) ==
    /\ At(p, "idle")
    /\ calls[p] < MaxCalls[p]
    /\ life[p] # "gone"
    /\ calls' = [calls EXCEPT ![p] = @ + 1]
    /\ \/ \E s \in Specs[p] :
            /\ desired' = desired \cup ({p} \cap Mounting)
            /\ StartPass(p, [Idle EXCEPT !.spec = s], desired')
            /\ UNCHANGED workers
       \/ \E s \in Specs[p] :
            /\ workers' = [workers EXCEPT ![p].state = "Terminating"]
            /\ Goto(p, [Idle EXCEPT !.work = "Terminating", !.spec = s,
                                    !.pc = IF workers[p].sandbox_id = Nil THEN "compose" ELSE "list"])
            /\ UNCHANGED <<desired, pass_vars>>
       \/ /\ life[p] = "stopped"
          /\ LET t == [Idle EXCEPT !.work = "Terminated", !.pc = "list"]
             IN  IF workers[p].sandbox_id # Nil
                 THEN Goto(p, t) /\ UNCHANGED <<desired, workers, pass_vars>>
                 ELSE /\ workers' = [workers EXCEPT ![p].state = "Terminated"]
                      /\ desired' = desired \ {p}
                      /\ StartPass(p, t, desired')
    /\ UNCHANGED <<mounted, disk, runtime_vars, life, faults, status_vars, leaked, excused>>

-----------------------------------------------------------------------------
(* PodWorker.                                                              *)

\* do_sync: a terminated worker is not revived.
SyncWorker(p) ==
    /\ At(p, "reconciled")
    /\ tasks[p].work = "Sync"
    /\ IF workers[p].state = "Terminated"
       THEN Jump(p, "compose") /\ UNCHANGED workers
       ELSE /\ workers' = [workers EXCEPT ![p].state = "Syncing"]
            /\ Jump(p, IF workers[p].sandbox_id # Nil THEN "status" ELSE "run")
    /\ UNCHANGED <<volume_vars, runtime_vars, life, calls, faults, status_vars, leaked, excused,
                   pass_vars>>

\* ensure_sandbox: a cached sandbox that is ready is kept.
SandboxStatus(p) ==
    /\ At(p, "status")
    /\ \E end \in {"ok", "failed"} :
         /\ Fault(p, end)
         /\ Jump(p, IF end = "ok" /\ [id |-> workers[p].sandbox_id, pod |-> p, ready |-> TRUE] \in sandboxes
                    THEN "list" ELSE "clean_stop")
    /\ UNCHANGED <<volume_vars, runtime_vars, workers, life, calls, status_vars, leaked, excused,
                   pass_vars>>

\* Its best-effort clean-up ignores errors, so a lost answer is none.
CleanStop(p) ==
    /\ At(p, "clean_stop")
    /\ \E end \in {"ok", "failed"} :
         /\ Fault(p, end)
         /\ IF end = "failed" THEN UNCHANGED <<sandboxes, containers>>
            ELSE /\ sandboxes' = Stopped(workers[p].sandbox_id)
                 /\ containers' = StoppedContainers(workers[p].sandbox_id)
    /\ Jump(p, "clean_remove")
    /\ UNCHANGED <<volume_vars, next_id, workers, life, calls, status_vars, leaked, excused,
                   pass_vars>>

CleanRemove(p) ==
    /\ At(p, "clean_remove")
    /\ \E end \in {"ok", "failed"} :
         /\ Fault(p, end)
         /\ IF end = "failed" THEN UNCHANGED <<sandboxes, containers>> ELSE Removed(workers[p].sandbox_id)
    /\ leaked' = leaked \cup ({workers[p].sandbox_id} \cap {s.id : s \in sandboxes'})
    /\ workers' = [workers EXCEPT ![p].sandbox_id = Nil]
    /\ Jump(p, "run")
    /\ UNCHANGED <<volume_vars, next_id, life, calls, status_vars, excused, pass_vars>>

RunSandbox(p) ==
    /\ At(p, "run")
    /\ \E end \in Ends :
         /\ Fault(p, end)
         /\ IF end = "failed" THEN UNCHANGED <<sandboxes, next_id>>
            ELSE /\ sandboxes' = sandboxes \cup {[id |-> New(p), pod |-> p, ready |-> TRUE]}
                 /\ next_id' = [next_id EXCEPT ![p] = @ + 1]
         /\ leaked' = IF end = "lost" THEN leaked \cup {New(p)} ELSE leaked
         /\ workers' = IF end = "ok" THEN [workers EXCEPT ![p].sandbox_id = New(p)] ELSE workers
         /\ Return(p, end, [tasks[p] EXCEPT !.pc = "list"])
    /\ UNCHANGED <<volume_vars, containers, life, calls, status_vars, excused, pass_vars>>

\* Mutant of compute_container_action: an exited container hides a running one.
CreateAnyExited(p, L, n) ==
    LET named == {c.state : c \in {c \in L : c.name = n}}
    IN  /\ "Created" \notin named
        /\ named \cap Exited # {} => p \in Restarts
        /\ named # {"Running"}

\* Mutant of compute_container_action: what has exited stays down.
CreateOnce(p, L, n) == \A c \in L : c.name # n

\* Whether the action for name n, given the listing L, is Create.
compute_container_action(p, L, n) ==
    LET named == {c.state : c \in {c \in L : c.name = n}}
    IN  /\ named \cap {"Running", "Created"} = {}
        /\ named # {} => p \in Restarts

\* The next call of do_sync or do_terminating, or else compose_status.
Onward(t) == [t EXCEPT !.pc = IF t.todo # {} THEN "create" ELSE IF t.kill # {} THEN "kill" ELSE "compose"]

\* The listing decides what all three kinds of work go on to do.
ListContainers(p) ==
    LET L == In(workers[p].sandbox_id)
        t == tasks[p]
        Ids(P) == {c.id : c \in {c \in L : c.state \in P}}
    IN  /\ At(p, "list")
        /\ \E end \in {"ok", "failed"} :
             /\ Fault(p, end)
             /\ Return(p, end,
                  CASE t.work = "Sync" ->
                         Onward([t EXCEPT !.todo = {n \in t.spec : compute_container_action(p, L, n)},
                                          !.kill = {c.id : c \in {c \in L : c.state = "Running" /\ c.name \notin t.spec}}])
                    [] t.work = "Terminating" -> Onward([t EXCEPT !.kill = Ids({"Created", "Running"})])
                    [] t.work = "Terminated" ->
                         [t EXCEPT !.pc = "remove", !.todo = {c.id : c \in L}, !.kill = Ids({"Running"})])
        /\ excused' = excused \ Ids(Exited)
        /\ UNCHANGED <<volume_vars, runtime_vars, workers, life, calls, status_vars, leaked,
                       pass_vars>>

CreateContainer(p) ==
    /\ At(p, "create")
    /\ \E n \in tasks[p].todo, end \in Ends :
         /\ Fault(p, end)
         /\ IF end = "failed" THEN UNCHANGED <<containers, next_id>>
            ELSE /\ containers' = containers \cup
                       {[id |-> New(p), sandbox |-> workers[p].sandbox_id, name |-> n, state |-> "Created"]}
                 /\ next_id' = [next_id EXCEPT ![p] = @ + 1]
         /\ excused' = IF end = "lost" THEN excused \cup {New(p)} ELSE excused
         /\ Return(p, end, [tasks[p] EXCEPT !.pc = "start", !.current = New(p), !.todo = @ \ {n}])
    /\ UNCHANGED <<volume_vars, sandboxes, workers, life, calls, status_vars, leaked, pass_vars>>

StartContainer(p) ==
    /\ At(p, "start")
    /\ \E c \in containers, end \in Ends :
         /\ c.id = tasks[p].current
         /\ Fault(p, end)
         /\ containers' = IF end = "failed" THEN containers ELSE SetState(c, "Running")
         /\ excused' = IF end = "failed" THEN excused \cup {c.id} ELSE excused
         /\ Return(p, end, Onward([tasks[p] EXCEPT !.current = Nil]))
    /\ UNCHANGED <<volume_vars, sandboxes, next_id, workers, life, calls, status_vars, leaked,
                   pass_vars>>

\* stop_container, which lets an exited container be.
StopContainer(p) ==
    /\ tasks[p].pc \in {"kill", "remove"}
    /\ tasks[p].current = Nil
    /\ \E c \in containers, end \in Ends :
         /\ c.id \in tasks[p].kill
         /\ Fault(p, end)
         /\ containers' = IF end = "failed" \/ c.state \in Exited THEN containers ELSE SetState(c, "Succeeded")
         /\ LET t == [tasks[p] EXCEPT !.kill = @ \ {c.id}]
            IN  Return(p, end, IF At(p, "kill") THEN Onward(t) ELSE [t EXCEPT !.current = c.id])
    /\ UNCHANGED <<volume_vars, sandboxes, next_id, workers, life, calls, status_vars, leaked,
                   excused, pass_vars>>

\* do_terminated removes each container, stopped first if it was running.
RemoveContainer(p) ==
    /\ At(p, "remove")
    /\ \E c \in containers, end \in Ends :
         /\ c.id \in tasks[p].todo \ tasks[p].kill
         /\ tasks[p].current \in {Nil, c.id}
         /\ Fault(p, end)
         /\ containers' = IF end = "failed" THEN containers ELSE containers \ {c}
         /\ Return(p, end, [tasks[p] EXCEPT !.todo = @ \ {c.id}, !.current = Nil])
    /\ UNCHANGED <<volume_vars, sandboxes, next_id, workers, life, calls, status_vars, leaked,
                   excused, pass_vars>>

\* Then it stops and removes the sandbox; that it is not there is an error.
StopSandbox(p) ==
    /\ At(p, "remove")
    /\ tasks[p].todo = {}
    /\ \E end \in Ends :
         /\ Fault(p, end)
         /\ IF end = "failed" THEN UNCHANGED <<sandboxes, containers>>
            ELSE /\ sandboxes' = Stopped(workers[p].sandbox_id)
                 /\ containers' = StoppedContainers(workers[p].sandbox_id)
         /\ IF \E s \in sandboxes : s.id = workers[p].sandbox_id
            THEN Return(p, end, [tasks[p] EXCEPT !.pc = "remove_sandbox"])
            ELSE Goto(p, Idle)
    /\ UNCHANGED <<volume_vars, next_id, workers, life, calls, status_vars, leaked, excused,
                   pass_vars>>

\* With the sandbox gone the worker is done, and the volumes are let go.
RemoveSandbox(p) ==
    /\ At(p, "remove_sandbox")
    /\ \E end \in Ends :
         /\ Fault(p, end)
         /\ IF end = "failed" THEN UNCHANGED <<sandboxes, containers>> ELSE Removed(workers[p].sandbox_id)
         /\ IF end = "ok"
            THEN /\ workers' = [workers EXCEPT ![p] = [state |-> "Terminated", sandbox_id |-> Nil]]
                 /\ desired' = desired \ {p}
                 /\ StartPass(p, tasks[p], desired')
            ELSE Goto(p, Idle) /\ UNCHANGED <<workers, desired, pass_vars>>
    /\ UNCHANGED <<mounted, disk, next_id, life, calls, status_vars, leaked, excused>>

-----------------------------------------------------------------------------
(* Statuses: compose_status and PodStatusManager.                          *)

\* The phase, from the container found for each name that has one.
Phase(spec, found) ==
    LET states == {c.state : c \in found}
        all == Cardinality(found) = Cardinality(spec) /\ spec # {}
    IN  CASE "Failed" \in states -> "Failed"
          [] all /\ states \subseteq {"Succeeded"} -> "Succeeded"
          [] all /\ states \subseteq {"Running"} -> "Running"
          [] OTHER -> "Pending"

\* compose_status reports one container of each name, the first of a listing
\* in no promised order, and set_pod_status queues the status.
ComposeStatus(p) ==
    /\ At(p, "compose")
    /\ workers' = [workers EXCEPT ![p].state = IF @ = "Syncing" THEN "Waiting" ELSE @]
    /\ \E end \in {"ok", "failed"} :
         /\ Fault(p, end)
         /\ IF end = "failed" THEN UNCHANGED <<pending, latest, life>>
            ELSE LET L == {c \in In(workers[p].sandbox_id) : c.name \in tasks[p].spec}
                 IN  /\ \E found \in SUBSET L :
                           /\ \A n \in {c.name : c \in L} : Cardinality({c \in found : c.name = n}) = 1
                           /\ LET st == {[phase |-> Phase(tasks[p].spec, found), containers |-> found]}
                              IN  /\ pending' = [pending EXCEPT ![p] = st]
                                  /\ latest' = [latest EXCEPT ![p] = st]
                     /\ life' = [life EXCEPT ![p] = IF tasks[p].work = "Terminating" THEN "stopped" ELSE @]
    /\ Goto(p, Idle)
    /\ UNCHANGED <<volume_vars, runtime_vars, calls, acked, flush, sink, unsure, flushes, leaked,
                   excused, pass_vars>>

\* Mutant of forget_pod: the pending status is kept.
ForgetAcked(p) == acked' = [acked EXCEPT ![p] = {}] /\ UNCHANGED pending

forget_pod(p) == acked' = [acked EXCEPT ![p] = {}] /\ pending' = [pending EXCEPT ![p] = {}]

\* sync_pod ends the Terminated call: the status and the worker are dropped.
Finish(p) ==
    /\ At(p, "reconciled")
    /\ tasks[p].work = "Terminated"
    /\ forget_pod(p)
    /\ workers' = [workers EXCEPT ![p] = Worker0]
    /\ life' = [life EXCEPT ![p] = "gone"]
    /\ Goto(p, Idle)
    /\ UNCHANGED <<volume_vars, runtime_vars, calls, faults, flush, sink, latest, unsure, flushes,
                   leaked, excused, pass_vars>>

\* What a flush would write: the pending statuses that differ from the acked.
Unacked == {[pod |-> p, status |-> pending[p]] : p \in {p \in Pods : pending[p] # {} /\ pending[p] # acked[p]}}

\* sync_batch takes its snapshot ...
FlushStart ==
    /\ flush = {}
    /\ Unacked # {}
    /\ flushes < MaxFlushes
    /\ flushes' = flushes + 1
    /\ flush' = Unacked
    /\ UNCHANGED <<volume_vars, runtime_vars, workers, tasks, life, calls, faults, pending, acked,
                   sink, latest, unsure, leaked, excused, pass_vars>>

\* Mutant of Acked: what is pending by now is taken for written.
AckedPending(w) == [acked EXCEPT ![w.pod] = pending[w.pod]]

Acked(w) == [acked EXCEPT ![w.pod] = w.status]

\* ... and writes one status after the other; a lost answer is a transient
\* error of a write that went through.
FlushWrite ==
    /\ \E w \in flush, end \in Ends \cup {"refused"} :
         /\ Fault(w.pod, end)
         /\ flush' = flush \ {w}
         /\ sink' = IF end \in {"ok", "lost"} THEN [sink EXCEPT ![w.pod] = w.status] ELSE sink
         /\ acked' = IF end = "ok" THEN Acked(w) ELSE acked
         /\ pending' = IF end = "refused" THEN [pending EXCEPT ![w.pod] = {}] ELSE pending
         /\ unsure' = CASE end = "ok" -> unsure \ {w.pod}
                        [] end = "failed" -> unsure
                        [] OTHER -> unsure \cup {w.pod}
    /\ UNCHANGED <<volume_vars, runtime_vars, workers, tasks, life, calls, latest, flushes, leaked,
                   excused, pass_vars>>

-----------------------------------------------------------------------------
None == [p \in Pods |-> {}]

Init ==
    /\ desired = {} /\ mounted = {} /\ disk = {}
    /\ sandboxes = {} /\ containers = {} /\ next_id = [p \in Pods |-> 1]
    /\ workers = [p \in Pods |-> Worker0]
    /\ tasks = [p \in Pods |-> Idle]
    /\ life = [p \in Pods |-> "running"]
    /\ calls = [p \in Pods |-> 0] /\ faults = [p \in Pods |-> 0] /\ flushes = 0
    /\ pending = None /\ acked = None /\ sink = None /\ latest = None
    /\ flush = {} /\ unsure = {} /\ leaked = {} /\ excused = {} /\ solo = {} /\ overlapped = FALSE

Next ==
    \/ \E p \in Pods :
         \/ Begin(p)
         \/ SetUp(p) \/ MarkMounted(p) \/ TearDown(p) \/ MarkUnmounted(p)
         \/ SyncWorker(p) \/ SandboxStatus(p) \/ CleanStop(p) \/ CleanRemove(p) \/ RunSandbox(p)
         \/ ListContainers(p) \/ CreateContainer(p) \/ StartContainer(p) \/ StopContainer(p)
         \/ RemoveContainer(p) \/ StopSandbox(p) \/ RemoveSandbox(p)
         \/ ComposeStatus(p) \/ Finish(p)
         \/ ContainerExits(p) \/ SandboxFails(p)
    \/ FlushStart \/ FlushWrite

Spec == Init /\ [][Next]_vars

-----------------------------------------------------------------------------
(* Properties.                                                             *)

\* A pod runs once: across failed and repeated calls, every sandbox is the
\* one its worker remembers, and no two containers of one name run in it.
\* Sandboxes that ensure_sandbox gave up, or whose creation was not answered,
\* are apart.
NoTwins ==
    /\ \A s \in sandboxes : s.id \in leaked \/ workers[s.pod].sandbox_id = s.id
    /\ \A c, d \in containers :
         (c.state = "Running" /\ d.state = "Running" /\ c.sandbox = d.sandbox /\ c.name = d.name)
             => c.sandbox \in leaked \/ c = d

\* When do_sync returns, each container of the spec runs, save those that
\* exited since the listing, were created by a call that then failed, or
\* have exited and are not to be restarted.
SyncEffective ==
    \A p \in Pods :
        (At(p, "compose") /\ tasks[p].work = "Sync" /\ workers[p].state = "Syncing") =>
            \A n \in tasks[p].spec : \E c \in In(workers[p].sandbox_id) :
                /\ c.name = n
                /\ \/ c.state = "Running"
                   \/ c.id \in excused
                   \/ c.state \in Exited /\ p \notin Restarts

\* Once sync_pod has carried out the Terminated work, whatever failed on the
\* way, nothing of the pod is left: no sandbox but the leaked, no container
\* in one, no status to write and no wish for a volume.
NothingLeftBehind ==
    \A p \in Pods : life[p] = "gone" =>
        /\ \A s \in sandboxes : s.pod = p => s.id \in leaked
        /\ \A c \in containers : \E s \in sandboxes : s.id = c.sandbox
        /\ pending[p] = {}
        /\ p \notin desired

\* When a flush would find nothing to write, the API server holds the status
\* set last of every pod, though statuses were set while a flush was writing
\* older ones and writes failed; a write that was refused or lost its answer
\* is made good by the next that succeeds.
StatusDelivered ==
    (flush = {} /\ Unacked = {}) =>
        \A p \in Pods \ unsure : life[p] # "gone" => sink[p] = latest[p]

\* A pass of the reconciler that no other overlapped leaves exactly the
\* desired volumes mounted, and, if none ever overlapped, on disk.
Reconciled ==
    \A p \in Pods : (At(p, "reconciled") /\ p \in solo) =>
        /\ mounted = desired
        /\ overlapped \/ disk = desired

=============================================================================
