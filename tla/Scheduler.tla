----------------------------- MODULE Scheduler ------------------------------
(***************************************************************************)
(* The pod scheduler's event loop (Scheduler::run): the scheduling queue,   *)
(* the cache of nodes with the pods assumed on them, and four tasks that    *)
(* share them.  The main loop pops a pod, picks a node and drives the       *)
(* binding cycle; the pod watcher and the node watcher fold the API         *)
(* server's events into cache and queue; the flusher brings waiting pods    *)
(* back.  A step is what a task does under one lock, up to the next lock or *)
(* await; a queue method's trailing wake() is part of its step.             *)
(*                                                                         *)
(* A pod is its uid: created once, deleted once.  Filters are abstracted to *)
(* the resource fit, scores to a choice among the feasible nodes.  Of the   *)
(* two cycle numbers the code only asks whether a move ran since the last   *)
(* pop: that is `moved'.  Time is a choice: a pod that waits is still       *)
(* backing off or not, and has waited long enough for a flush or not.       *)
(***************************************************************************)
EXTENDS Naturals, Sequences, SequencesExt, FiniteSets, FiniteSetsExt, Bags, BagsExt

CONSTANTS
    Pods, Nodes,
    Request,        \* resources a pod asks for
    Offers,         \* what a node may offer, as its node object changes
    Priority,       \* spec.priority
    MaxUpdates,     \* bound: updates of pods by others than the scheduler
    MaxLag,         \* bound: unhandled pod events when others send one
    MaxNodeEvents   \* bound: node events

ASSUME ClusterAssumption ==
    /\ Request \in [Pods -> Nat] /\ Offers \in SUBSET Nat /\ IsFiniteSet(Offers) /\ Offers # {}
    /\ Priority \in [Pods -> Nat] /\ {MaxUpdates, MaxLag, MaxNodeEvents} \subseteq Nat
    /\ Pods \cap Nodes = {} /\ Nodes \cap {"none", "pending", "deleted"} = {}

VARIABLES
    api,            \* API server: where each pod is ("none", "pending", a node, "deleted")
    stream,         \* pod events sent and not yet handled
    updates, nodeEvents,  \* how many of the bounded events have happened
    nodes,          \* cache: NodeInfo of each known node
    assumed,        \* cache: AssumedPodTracker, pod to node
    podTask,        \* pod watcher: "recv", or "move" between remove_pod and the move
    nodeTask,       \* node watcher: the same
    active,         \* queue: the heap's entries, oldest first
    backoff,        \* queue: pods backing off, a bag
    unschedulable,  \* queue: parked pods, each with why it is
    moved,          \* queue: move_request_cycle >= scheduling_cycle
    notified,       \* queue: a wake() the main loop has not consumed
    main,           \* main loop: where it is, its pod, the host, why it failed
    acked,          \* history: <<pod, node>> of every bind that answered Ok
    removed         \* history: nodes ever removed from the cache

apiVars   == <<api, stream, updates, nodeEvents>>
cacheVars == <<nodes, assumed>>
queueVars == <<active, backoff, unschedulable, moved, notified>>
tasks     == <<podTask, nodeTask>>
history   == <<acked, removed>>
vars == <<apiVars, cacheVars, tasks, queueVars, main, history>>

-----------------------------------------------------------------------------
(* Cache.                                                                  *)

requested(info) == MapThenSumSet(LAMBDA p : Request[p] * info.pods[p], Pods)

\* NodeInfo::add_pod pushes a copy; remove_pod drops the first of that uid,
\* if there is one.
info_add_pod(p, n) == [nodes EXCEPT ![n].pods[p] = @ + 1]
info_remove_pod(p, n) == [nodes EXCEPT ![n].pods[p] = IF @ = 0 THEN 0 ELSE @ - 1]

\* add_pod and remove_pod of a bound pod; an unknown node is an error the
\* watcher ignores.
add_pod(p, n) == IF n \in DOMAIN nodes THEN info_add_pod(p, n) ELSE nodes
remove_pod(p, n) == IF n \in DOMAIN nodes THEN info_remove_pod(p, n) ELSE nodes

\* add_node and update_node keep the pods of a known node.
add_node(n, allocatable) ==
    [m \in DOMAIN nodes \cup {n} |->
        IF m # n THEN nodes[m]
        ELSE [allocatable |-> allocatable,
              pods |-> IF n \in DOMAIN nodes THEN nodes[n].pods ELSE [p \in Pods |-> 0]]]

remove_node(n) == [m \in DOMAIN nodes \ {n} |-> nodes[m]]

\* What assume_pod checks before it claims anything (the mutant does not ask
\* whether the pod is assumed already).
can_assume_again(p, n) == n \in DOMAIN nodes
can_assume(p, n) == p \notin DOMAIN assumed /\ n \in DOMAIN nodes

\* Mutant of assume_pod: the node's total is left to the watch event.
assume_no_claim(p, n) ==
    /\ assumed' = [q \in DOMAIN assumed \cup {p} |-> IF q = p THEN n ELSE assumed[q]]
    /\ UNCHANGED nodes

assume_pod(p, n) ==
    /\ nodes' = info_add_pod(p, n)
    /\ assumed' = [q \in DOMAIN assumed \cup {p} |-> IF q = p THEN n ELSE assumed[q]]

forget_pod(p) ==
    IF p \in DOMAIN assumed
    THEN /\ nodes' = remove_pod(p, assumed[p])
         /\ assumed' = [q \in DOMAIN assumed \ {p} |-> assumed[q]]
    ELSE UNCHANGED cacheVars

-----------------------------------------------------------------------------
(* Queue.                                                                  *)

\* Mutant of add: no wake().
add_quiet(p) ==
    /\ active' = Append(active, p)
    /\ UNCHANGED <<backoff, unschedulable, moved, notified>>

add(p) ==
    /\ active' = Append(active, p)
    /\ notified' = TRUE
    /\ UNCHANGED <<backoff, unschedulable, moved>>

\* The heap's greatest entry: highest priority, then smallest seq.
heap_top ==
    CHOOSE i \in DOMAIN active :
        \A j \in DOMAIN active :
            \/ Priority[active[i]] > Priority[active[j]]
            \/ Priority[active[i]] = Priority[active[j]] /\ i <= j

\* Mutants of add_unschedulable_if_not_present: the move that was raced is
\* not looked at; a pod that raced it is dropped.
park_always(p, why) ==
    /\ unschedulable' = [q \in DOMAIN unschedulable \cup {p} |->
           IF q \in DOMAIN unschedulable THEN unschedulable[q] ELSE why]
    /\ UNCHANGED <<active, backoff, moved, notified>>
park_or_drop(p, why) ==
    /\ IF p \in DOMAIN unschedulable \/ moved THEN UNCHANGED unschedulable
       ELSE unschedulable' = [q \in DOMAIN unschedulable \cup {p} |->
                IF q = p THEN why ELSE unschedulable[q]]
    /\ UNCHANGED <<active, backoff, moved, notified>>

add_unschedulable_if_not_present(p, why) ==
    /\ IF p \in DOMAIN unschedulable THEN UNCHANGED <<backoff, unschedulable>>
       ELSE IF moved
       THEN backoff' = BagAdd(backoff, p) /\ UNCHANGED unschedulable
       ELSE /\ unschedulable' = [q \in DOMAIN unschedulable \cup {p} |->
                   IF q = p THEN why ELSE unschedulable[q]]
            /\ UNCHANGED backoff
    /\ UNCHANGED <<active, moved, notified>>

\* Take pods out of unschedulable, in any order (a HashMap's): those of Over,
\* whose backoff is over, to active and those of Still to backoff.
take_out(Over, Still) ==
    /\ \E s \in SetToSeqs(Over) : active' = active \o s
    /\ backoff' = backoff (+) SetToBag(Still)
    /\ unschedulable' = [p \in DOMAIN unschedulable \ (Over \cup Still) |-> unschedulable[p]]

\* Every pod is registered for the wildcard event, so every parked pod moves.
move_all_to_active_or_backoff_queue ==
    /\ \E Over \in SUBSET DOMAIN unschedulable : take_out(Over, DOMAIN unschedulable \ Over)
    /\ moved' = TRUE
    /\ notified' = TRUE

\* The flushes take one entry at a time: one call that takes several does
\* these steps in a row.
flush_backoff(p) ==
    /\ active' = Append(active, p)
    /\ backoff' = BagRemove(backoff, p)
    /\ notified' = TRUE
    /\ UNCHANGED <<unschedulable, moved>>

\* The longest backoff is shorter than the leftover time, so a stale pod's is
\* over: it becomes active and wakes the main loop.
flush_unschedulable_pods_leftover(p) ==
    /\ take_out({p}, {})
    /\ notified' = TRUE
    /\ UNCHANGED moved

-----------------------------------------------------------------------------
(* The API server (external): pods come, change and go; each change is an  *)
(* event on the pod watch.                                                 *)

Event(kind, p, at) == [kind |-> kind, pod |-> p, at |-> at]

CreatePod(p) ==
    /\ api[p] = "none" /\ Len(stream) < MaxLag
    /\ api' = [api EXCEPT ![p] = "pending"]
    /\ stream' = Append(stream, Event("upsert", p, "pending"))
    /\ UNCHANGED <<updates, nodeEvents, cacheVars, tasks, queueVars, main, history>>

UpdatePod(p) ==
    /\ api[p] \notin {"none", "deleted"} /\ Len(stream) < MaxLag /\ updates < MaxUpdates
    /\ updates' = updates + 1
    /\ stream' = Append(stream, Event("upsert", p, api[p]))
    /\ UNCHANGED <<api, nodeEvents, cacheVars, tasks, queueVars, main, history>>

DeletePod(p) ==
    /\ api[p] \notin {"none", "deleted"} /\ Len(stream) < MaxLag
    /\ api' = [api EXCEPT ![p] = "deleted"]
    /\ stream' = Append(stream, Event("delete", p, api[p]))
    /\ UNCHANGED <<updates, nodeEvents, cacheVars, tasks, queueVars, main, history>>

-----------------------------------------------------------------------------
(* Pod watcher.                                                            *)

\* The PreEnqueue plugins pass the pod or gate it.
admit_pod(p) == add(p) \/ add_unschedulable_if_not_present(p, "other")

WatchPodUpsert ==
    /\ podTask = "recv" /\ stream # << >> /\ Head(stream).kind = "upsert"
    /\ LET e == Head(stream)
       IN  IF e.at = "pending"
           THEN admit_pod(e.pod) /\ UNCHANGED cacheVars
           ELSE nodes' = add_pod(e.pod, e.at) /\ UNCHANGED <<assumed, queueVars>>
    /\ stream' = Tail(stream)
    /\ UNCHANGED <<api, updates, nodeEvents, tasks, main, history>>

WatchPodDelete ==
    /\ podTask = "recv" /\ stream # << >> /\ Head(stream).kind = "delete"
    /\ LET e == Head(stream)
       IN  nodes' = IF e.at = "pending" THEN nodes ELSE remove_pod(e.pod, e.at)
    /\ stream' = Tail(stream)
    /\ podTask' = "move"
    /\ UNCHANGED <<api, updates, nodeEvents, assumed, nodeTask, queueVars, main, history>>

WatchPodMove ==
    /\ podTask = "move"
    /\ move_all_to_active_or_backoff_queue
    /\ podTask' = "recv"
    /\ UNCHANGED <<apiVars, cacheVars, nodeTask, main, history>>

-----------------------------------------------------------------------------
(* Node watcher.  Node events come from the API server in any order; add    *)
(* and update do the same.                                                  *)

NodeEvent == nodeTask = "recv" /\ nodeEvents < MaxNodeEvents /\ nodeEvents' = nodeEvents + 1

WatchNodeUpsert(n, allocatable) ==
    /\ NodeEvent
    /\ nodes' = add_node(n, allocatable)
    /\ nodeTask' = "move"
    /\ UNCHANGED <<api, stream, updates, assumed, podTask, queueVars, main, history>>

WatchNodeMove ==
    /\ nodeTask = "move"
    /\ move_all_to_active_or_backoff_queue
    /\ nodeTask' = "recv"
    /\ UNCHANGED <<apiVars, cacheVars, podTask, main, history>>

WatchNodeDelete(n) ==
    /\ NodeEvent
    /\ n \in DOMAIN nodes
    /\ nodes' = remove_node(n)
    /\ removed' = removed \cup {n}
    /\ UNCHANGED <<api, stream, updates, assumed, tasks, queueVars, main, acked>>

-----------------------------------------------------------------------------
(* Flusher: a pod's time is over.                                          *)

Flush(p) ==
    /\ \/ BagIn(p, backoff) /\ flush_backoff(p)
       \/ p \in DOMAIN unschedulable /\ flush_unschedulable_pods_leftover(p)
    /\ UNCHANGED <<apiVars, cacheVars, tasks, main, history>>

-----------------------------------------------------------------------------
(* Main loop.  It awaits each pod's binding cycle, so one pod is in flight. *)

Idle == [at |-> "poll", pod |-> {}, host |-> {}, why |-> "none"]

InFlight(p) == p \in main.pod

\* pop_wait registers for wake() and pops; popping starts a scheduling cycle
\* even when nothing is active.
PopWait ==
    /\ main.at = "poll"
    /\ moved' = FALSE
    /\ IF active # << >>
       THEN /\ main' = [Idle EXCEPT !.at = "schedule", !.pod = {active[heap_top]}]
            /\ active' = RemoveAt(active, heap_top)
            /\ notified' = FALSE
       ELSE /\ main' = [Idle EXCEPT !.at = "await"]
            /\ UNCHANGED <<active, notified>>
    /\ UNCHANGED <<apiVars, cacheVars, tasks, backoff, unschedulable, history>>

Notified ==
    /\ main.at = "await" /\ notified
    /\ main' = Idle
    /\ notified' = FALSE
    /\ UNCHANGED <<apiVars, cacheVars, tasks, active, backoff, unschedulable, moved, history>>

\* NodeResourcesFit on every node of the cache.
feasible(p) ==
    {n \in DOMAIN nodes :
        Request[p] = 0 \/ Request[p] + requested(nodes[n]) <= nodes[n].allocatable}

Fail(why) == main' = [main EXCEPT !.at = "failed", !.why = why]

\* A node is picked by score; or none fits, with or without a node nominated
\* for preemption; or a plugin fails.
ScheduleOne ==
    /\ main.at = "schedule"
    /\ \E p \in main.pod :
          \/ \E n \in feasible(p) : main' = [main EXCEPT !.at = "assume", !.host = {n}]
          \/ feasible(p) = {} /\ Fail("filter")
          \/ Fail("other")
    /\ UNCHANGED <<apiVars, cacheVars, tasks, queueVars, history>>

Assume ==
    /\ main.at = "assume"
    /\ \E p \in main.pod, n \in main.host :
          IF can_assume(p, n)
          THEN assume_pod(p, n) /\ main' = [main EXCEPT !.at = "bind"]
          ELSE Fail("other") /\ UNCHANGED cacheVars
    /\ UNCHANGED <<apiVars, tasks, queueVars, history>>

\* Reserve, Permit (with the wait for a decision or its timeout), PreBind and
\* Bind.  A stage fails; or the bind request binds the pod and emits its
\* event, and even then its answer may be lost, which is an error here.
BindingCycle ==
    /\ main.at = "bind"
    /\ \/ /\ main' = [main EXCEPT !.at = "unwind"]
          /\ UNCHANGED <<api, stream, acked>>
       \/ \E p \in main.pod, n \in main.host :
             /\ api[p] = "pending"
             /\ api' = [api EXCEPT ![p] = n]
             /\ stream' = Append(stream, Event("upsert", p, n))
             /\ \/ main' = Idle /\ acked' = acked \cup {<<p, n>>}
                \/ main' = [main EXCEPT !.at = "unwind"] /\ UNCHANGED acked
    /\ UNCHANGED <<updates, nodeEvents, cacheVars, tasks, queueVars, removed>>

Unwind ==
    /\ main.at = "unwind"
    /\ \E p \in main.pod : forget_pod(p)
    /\ Fail("other")
    /\ UNCHANGED <<apiVars, tasks, queueVars, history>>

Requeue ==
    /\ main.at = "failed"
    /\ \E p \in main.pod : add_unschedulable_if_not_present(p, main.why)
    /\ main' = Idle
    /\ UNCHANGED <<apiVars, cacheVars, tasks, history>>

-----------------------------------------------------------------------------
\* Scheduler::new, and sync has listed some nodes and no pod.
Init ==
    /\ api = [p \in Pods |-> "none"] /\ stream = << >>
    /\ updates = 0 /\ nodeEvents = 0
    /\ \E S \in SUBSET Nodes, a \in Offers :
          nodes = [n \in S |-> [allocatable |-> a, pods |-> [p \in Pods |-> 0]]]
    /\ assumed = << >>
    /\ podTask = "recv" /\ nodeTask = "recv"
    /\ active = << >> /\ backoff = EmptyBag /\ unschedulable = << >>
    /\ moved = FALSE /\ notified = FALSE
    /\ main = Idle
    /\ acked = {} /\ removed = {}

Loop ==
    PopWait \/ Notified \/ ScheduleOne \/ Assume \/ BindingCycle \/ Unwind \/ Requeue

WatchPods == WatchPodUpsert \/ WatchPodDelete \/ WatchPodMove

WatchNodes ==
    \/ \E n \in Nodes : WatchNodeDelete(n)
                          \/ \E a \in Offers : WatchNodeUpsert(n, a)
    \/ WatchNodeMove

Next ==
    \/ \E p \in Pods : CreatePod(p) \/ UpdatePod(p) \/ DeletePod(p) \/ Flush(p)
    \/ WatchPods \/ WatchNodes
    \/ Loop

Spec == Init /\ [][Next]_vars

\* The runtime runs every task that can run, and the time of every pod that
\* waits is over some day; nobody has to change a pod or a node.
FairSpec ==
    /\ Spec
    /\ WF_vars(Loop) /\ WF_vars(WatchPods) /\ WF_vars(WatchNodeMove)
    /\ \A p \in Pods : WF_vars(Flush(p))

-----------------------------------------------------------------------------
(* Properties.                                                             *)

Moving == podTask = "move" \/ nodeTask = "move"

\* A pod parked because no node had room still has no room once the watchers
\* have run their moves: a pod deleted or a node changed between the snapshot
\* it was scheduled on and its parking (add_unschedulable_if_not_present) is
\* never missed.
ParkedDoesNotFit ==
    ~Moving => \A p \in DOMAIN unschedulable :
                   unschedulable[p] = "filter" => feasible(p) = {}

Queued(p) == p \in ToSet(active) \cup BagToSet(backoff) \cup DOMAIN unschedulable

\* A pending pod the watcher has been told of is in one of the three parts of
\* the queue or in flight, whatever failed: admit_pod, the moves, the flushes
\* and the requeue after a failure lose none.
NoPodLost ==
    \A p \in Pods :
        /\ api[p] = "pending"
        /\ \A i \in DOMAIN stream : stream[i].pod # p
        => Queued(p) \/ InFlight(p)

\* The assumed pods are the ones whose bind answered Ok and the one in its
\* binding cycle: every failing stage releases its assumption, and a second
\* queue entry of a bound pod never releases the first one's or binds again.
AssumedExact ==
    DOMAIN assumed = {a[1] : a \in acked}
        \cup (IF main.at \in {"bind", "unwind"} THEN main.pod ELSE {})

\* The pods bound with an Ok answer never ask for more than a node offers,
\* though the cache follows the API server late; for a node that was never
\* removed from the cache (remove_node forgets the pods on it).
NeverOvercommits ==
    \A n \in Nodes \ removed :
        MapThenSumSet(LAMBDA p : Request[p],
                      {p \in Pods : <<p, n>> \in acked /\ api[p] = n}) <= Max(Offers)

\* A pod of the highest priority that stays pending is scheduled: it is not
\* left in backoff, among the unschedulable, or active with the loop asleep.
TopPriorityScheduled ==
    \A p \in {p \in Pods : \A q \in Pods : Priority[p] >= Priority[q]} :
        api[p] = "pending" ~> (api[p] # "pending" \/ InFlight(p))

\* What the comment on assume_pod says: add_pod, on bind success, takes over
\* from the assumption; so a node counts no pod twice.
CountedOnce == \A n \in DOMAIN nodes : \A p \in Pods : nodes[n].pods[p] <= 1

=============================================================================
