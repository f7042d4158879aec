# cave-home: TLA+ models and proofs

cave-home is a smart-home hub in one Rust binary. The binary carries its own
small Kubernetes (an etcd-like store, API server, controller manager, scheduler,
kubelet), the home-automation hub on top of it, and many device integrations.
This directory models the parts whose correctness depends on interleavings,
crashes, retries and long call sequences. TLC checks them on small instances;
TLAPS proves the central properties for every value of the constants.

## The system and its parts

```
 devices ── integrations ── hub core / automation ── MQTT broker, portal, voice
                                   │
 kubelet ── scheduler ── controller manager ── API server
                                                  │ etcd API (gRPC)
                                               kine server ── kine store (SQL)
 one process: bring-up order, supervisor, shutdown; several hubs: discovery, failover
```

Everything the cluster knows is in the kine store. The control loops reach it
through compare-and-swap transactions, list-then-watch and leases. On these ride
the API server's registry, the informer caches that mirror it, the work queue
every controller uses, the election that keeps one controller manager active,
the scheduler, and the kubelet that runs the pods. The MQTT broker carries the
messages of the home's devices.

| Part | State | Operations | What is hard | Modelled by |
|---|---|---|---|---|
| kine core (`store.rs`, `range.rs`, `watch.rs`, `compact.rs`) | revision clock, append-only rows, compaction floor | create, update, put, delete, compact, range, watch | reads and watches against a log that is trimmed under them | `KineStore` |
| kine SQLite (`sqlite.rs`) | one table, id sequence, floor row | the same, several statements each | a crash between two statements, the unique index | `KineSqlite` |
| kine transactions (`txn.rs`) | none of its own | apply with guard and branches | compare-and-swap, operations that interfere | `KineBatch`, `KineTxn` |
| kine server (`grpc.rs`, `lease.rs`) | lease table, watch streams, maintenance task | put, delete, txn, lease calls, watch polling, reaping, auto-compaction | locks released between the steps of a handler; restart forgets leases | `KineServer` |
| API server (`registry.rs`, `handler.rs`) | objects, version counter, event history | create, get, update, status, patch, delete, list, watch | optimistic concurrency, finalizers, paging | `ApiRegistry` |
| Informer (`informer.rs`) | delta queue, known keys, indexed store | add, update, delete, replace, pop | merging of deltas, relists | `Informer` |
| Registry, informer and reflector together | pages of a list, replayed events | list a page, replace, watch | a list that changes between its pages | `ListWatch` |
| Work queue (`workqueue.rs`, `reconcile.rs`) | ready line, delayed list, in-flight and dirty sets, failure counts | add, add_after, rate-limited retry, get, done | a key that changes while it is processed or delayed | `WorkQueue` |
| Leader election (`leaderelection.rs`) | the Lease, each instance's last renewal and observation | acquire, renew, release, observe | missed renewals, crashes, clocks that differ | `LeaderElection` |
| Scheduler (`scheduler.rs`, `schedule_one.rs`, `queue/`, `cache/`) | three-part queue, node cache, assumed pods, one pod in flight | schedule, assume, bind, unwind, watch events, moves, flushes | a cluster change between a pod's snapshot and its parking; lost answers | `Scheduler` |
| Kubelet (`kubelet.rs`, `podworker/`, `volume/`, `status/`) | workers, desired and mounted volumes, pending and acknowledged statuses | sync, terminate, reconcile volumes, flush statuses | no lock across awaits; half-done passes repeated; lost answers | `Kubelet` |
| MQTT broker (`broker/`, `runtime/`) | sessions, retained messages, wills, connections | connect, publish, acknowledgements, disconnect | takeover against teardown, redelivery | `MqttHub` |

`PROJECT.json` lists every crate with its status. The section "Not modelled"
says what is left out and why.

## Modelling conventions

* An action is what a task does while it holds a lock, with every call it makes
  there. A handler that releases a lock and takes it again is several actions;
  so is one that awaits a call of another component.
* A call that changes nothing (an error, `Ok(None)`) is no step.
* An `Option<X>` is a set with at most one element; an append-only vector whose
  entries carry unique increasing revisions is a set ordered by them.
* Names are the source's. A definition that starts with "Mutant of" is a variant
  with a plausible bug; no specification uses it. It documents which property
  would notice.
* History variables are only written by the actions: `hist`, `gen`, `wins`
  (kine), `owned` (leases), `wanted` (work queue), `terms`, `changed_at`
  (election), `acked`, `removed` (scheduler), `writes`, `patched` (registry), `covered`,
  `clean` (reflector), `owner`, `addressed`, `routed`, `twice`, `dropped`,
  `stale`, `raced`, `overrun` (MQTT), `latest`, `unsure`, `leaked`, `excused`, `solo`,
  `overlapped` (kubelet).

## The models

**KineStore** is the in-memory decision core. `clock`, `rows` and `compacted`
are the fields of `Store`; `Create`, `Update`, `Put`, `Delete` and `Compact` are
its writes. `execute` and `watch` are the pure reads of `range.rs` and
`watch.rs`. A key range is the set of keys it contains. `hist` keeps what
compaction removes, so that a property can compare a read with the truth.

**KineSqlite** is the store the server really runs. A call is as many steps as
it has SQL statements: an insert of a created row leaves `create_revision` 0
until `SetCreateRevision` runs, and `revoke_lease_keys` deletes key by key.
`Crash` may come between any two of them. The module instantiates KineStore
with its table as the log (`Core`) and is shown to implement it.

**KineBatch** gives the store state as a value that several writes transform in
one step. **KineTxn** builds `txn.rs` on it: `eval_compare`,
`check_disjoint_writes`, and `apply` with operations that can fail half way. An
interval runs from a key to an end, or is `AllKeys`: that one selects every key,
while the span the check compares starts at its key, as in the code. Success
branches (`Branches`) and failure branches (`Failures`) are chosen apart. The
specification mixes transactions with the single writes and compactions of
KineStore.

**KineServer** composes the store with the server's tasks. A handler that takes
the store twice is two actions: `TxnCompare` then `TxnOp`, `do_lease_revoke` then
`RevokeKeys`, `ReapForget` then `ReapDelete`, `CompactMeasure` then `CompactRun`,
`WatchCreate`, `WatchCheckFloor` and then one `WatchPoll` per poll. `Restart`
keeps the rows and loses leases, streams and tasks. A stream has the keys it
watches (`filter`), which alone move its checkpoint, and the kinds of event it
admits. `header` is the revision
`SqliteStore::current_revision` reports, which is not always `clock`. Here the
transaction is the API server's: one key, guarded by its `mod_revision`.

**ApiRegistry** has one action per request, because `serve_stream` holds the
server's mutex for all of it. A client's read-modify-write is two requests
(`Get`, then `update` or `update_status`), and `copies` is what it read. The
label map, the spec and the status are opaque; a deletion is the version it was
asked at. There are two patches. `patch` is the PATCH of `handler.rs`: merge, then
`update`. `patch_merge` stands for `patch_merge` and `patch_json`, which the
binary's REST server and pod loop call: `apply_patched` compares no version and
takes name and deletion from the merged object. So an object has the `key` it is
filed under and the `name` in its metadata, which differ once a patch renamed it.
What the binary's `apirest.rs` does to the registry is one of these calls for
each request, under a lock held for all of it.

**Informer** is `DeltaFifo` and `Store`: `Observe`, `ObserveDelete` and `replace`
queue deltas (`Coalesce` merges them), `pop` hands out a key's deltas, and
`apply_delta` applies them one by one to the store and its index.

**ListWatch** composes the two. The repository leaves the reflector between
them to the caller, so it is external: it lists page by page, replaces, then
watches from the version of the last object it got, and starts over on errors.
Lists are in the order of names; an object in two pages counts with its later
copy (`LastListed`).

**WorkQueue** has one operator per method of the queue, from queue to queue.
`Request`, `Get` and `Finish` are an event handler, a worker's `get` and the end
of a reconcile with `apply_outcome`. Times are relative to now, so no bound on
the clock is needed. `Finish` uses the `now` that `step` read before the
reconcile, which is `age` ticks old.

**LeaderElection** has one Lease object and instances with clocks a fixed offset
apart. `Try` is an attempt, `Release` the voluntary hand-over, `observe_again`
the watch on the record; instances crash and restart. An instance is `Acting` as
leader until its renew deadline has passed.

**Scheduler** is `Scheduler::run`: the main loop (`PopWait`, `Notified`,
`ScheduleOne`, `Assume`, `BindingCycle`, `Unwind`, `Requeue`), the pod and node
watchers and the flusher over the queue and the cache. `BindingCycle` may fail
at each stage, also after the API server has bound the pod. Filters are
abstracted to resource fit and scores to a choice. Of the cycle numbers only
"has a move run since the last pop" is kept, because the code asks nothing else.

**Kubelet** is `Kubelet::sync_pod` for its three kinds of work, one task per pod.
`tasks[p]` holds where the call has got and what it remembers across its awaits:
the snapshot of desired volumes, the listing's verdicts, the container being
started. `Begin` is a call up to its first await. `SetUp` to `MarkUnmounted` are
the reconciler's pass, `SyncWorker` to `StartContainer` are `do_sync`,
`StopContainer` to `RemoveSandbox` the two phases of termination. A volume step
without an await in it is merged into the one before (`NextVolume`: `MountNext`
or `Unmounts`). The
container runtime is `cri/mock.rs`; each call succeeds, fails, or takes effect
and loses its answer, and containers and sandboxes die by themselves.
`FlushStart` and `FlushWrite` are `sync_batch`, one write a step.

**MqttHub** is the router inside the server's `Hub`. The broker and the registry
of connections have a lock each, never held together. So `on_connect` is
`Connect` then `Register`, `disconnect` is `Unregister` then `NetworkDisconnect`,
and what a broker step returns waits in `acts` until `Dispatch`. There is one
topic. Clients are external: they follow the protocol, acknowledge what they
read, and send an unanswered message again on their next connection. Packet
identifiers wrap at `MaxId`. `next_id` skips the outstanding ones and loops for
ever when all are; the steps that call it have `HasId` as their guard.

## Runs

| Run | Instance | Distinct states | What it shows |
|---|---|---|---|
| `kine_sqlite` | 2 keys, 2 leases, 4 revisions | about 38 000 | the SQL store implements the core across crashes; its reads agree with the core's; its unique index never refuses a write; `old_value` and `create_revision` are right |
| `kine_txn` | 2 keys, 4 revisions, branches of up to 3 operations, with and without `AllKeys` | 20 021 | accepted reads are never stale and list-then-watch misses nothing, under single writes, multi-row transactions and compaction; guards give compare-and-swap; accepted branches do not depend on their order, but for one case (see Disagreements) |
| `server_txn` | 2 clients, 1 key, 5 revisions, 1 restart | 751 000 | guards are stale only for transactions that overlap |
| `server_watch` | 1 stream on one of 2 keys, 4 revisions, client and automatic compaction | 161 791 | no gap, convergence and progress of a stream |
| `server_lease` | 1 lease, time to 2 | 7 144 | no leased key is orphaned while the server runs, and expired ones go |
| `server_cas` | as `server_txn`, no restart | violation | see Disagreements |
| `api_informer` | 2 objects, 3 versions, 2 patches that rename or undelete, pages of 1 or none, with and without selector | 660 281 | no lost update, ordered lives of objects, an exact cache, and its convergence to the registry |
| `work_queue` | 2 keys, 2 workers, delays 0, 1, 3 | 8 357 | one place per key, no lost wake-up, exact ready times, no starvation |
| `leader_election` | 2 instances, unequal clocks and durations, time to 4 | 78 542 | never two leaders, terms distinct, a crashed leader is replaced |
| `scheduler` | pods of size 1 and 2, one node of size 2 | 202 966 | no pod lost, no event missed by a parked pod, assumptions exact, no overcommitment, progress |
| `kubelet` | 2 pods, 4 and 1 calls, 1 fault, 1 flush | 983 399 | no pod runs twice, a sync has its effect, termination leaves nothing, the last status arrives, a lone pass mounts what is desired |
| `mqtt` | a publisher and a subscriber, 3 connections, 2 packet identifiers, a QoS 1 or 2 message and a QoS 2 message, a retained will | 1 136 684 | no message forgotten, order kept, QoS 2 routed once, a session stays with its connection |

**Bounds.** Five revisions are enough for create, delete, re-create, a further
write and a compaction between any two of them; two keys for a compaction that
concerns one and not the other. Two clients suffice for a stale guard, since a
third adds no new pair. `Headroom` reserves revisions for tombstones, so that a
lease's deletion is never stopped by the bound `MaxRev`. In `MCLeaderElection`
the offset (1) is the largest that `OffsetAssumption` allows for the first
instance. `Offers = {2}` lets the two pods of the scheduler exclude each other.
`MaxLag`, `MaxUpdates`, `MaxNodeEvents`, `MaxRestarts`, `MaxNow`, `LastCrash`
and `MaxReleased` bound counters in guards; `MaxLate` bounds how long a due key or
a running reconcile waits, and is the value at which `wanted` stops counting.

A stream does not outlive a restart, and it may open at any moment, so
`server_watch` needs none.

Three versions (`MaxRv`) let an object change, and one appear or go, between two
pages and between a list and its watch. A continue token beyond the end of the
list needs four; that instance, with pages of 1, has 17 238 762 states and also
passes, in 17 minutes. A stale write to an object deleted and created again takes
four versions too: the registry alone (`ApiSpec`) with five has 305 015 states and
passes, and `NoUpdateLost` proves it for all.

The four calls of the kubelet's first pod (`MCCalls`) reach a sync after its
termination has begun and still terminate it; the second pod's call is there for
passes of the reconciler that overlap. Two larger instances pass and are too slow
to keep: both pods with a volume (2 111 307 states), and 3 calls with 2 faults
and 2 flushes (4 281 359 states).

In `mqtt` each client has up to two connections, one of them opened while the
other still serves or is torn down. The subscriber is addressed two
published messages, the will and its stored copy. With `MaxId` 2
identifiers are reused after an acknowledgement, while their old message is still
queued, and up to the point where none is left. The publisher always uses
identifier 1, so its second message reuses that of a finished handshake of QoS 1
or 2. `Leaving` names the connections that may end with DISCONNECT; with `{1, 3}`
the instance has 1 598 269 states and passes. Publishes of QoS 0 and refused ones
are in the model and not in this instance.

`CHECK_DEADLOCK FALSE` is used where a bound ends the behaviour (of revisions,
versions, time, calls or messages) or where nothing is left to do (the
scheduler, once every pod is bound or deleted). `work_queue` never ends and
checks deadlock.

**Fairness.** Weak fairness only, and only for steps no client has to decide:
tasks of the tokio runtime, whose locks queue fairly and whose timers fire
(maintenance, second halves of handlers, polls, the scheduler's loop, watchers
and flushes), workers that loop, reconciles that end, instances that retry, and
time that passes. Nothing assumes that a client, a pod or a node does anything.
The registry, the informer, the kubelet and the broker promise nothing without
their callers; their properties are about every moment at which nothing is
pending (`CaughtUp`, `Unacked = {}`) instead.

## Proofs

Eight modules of proofs hold for all values of the constants, the bounds among
them. `KineStoreProofs` and `LeaderElectionProofs` also prove properties that no
run lists (type correctness, `CurrentStateSurvives`, `WatchComplete`,
`Generations`, `OnlyForward`, `StallIsReal`).

*KineStore.* From the assumptions that keys are naturals, the empty value is a
value and 0 is a lease: `TypeCorrect`, `CurrentStateNeverDestroyed`,
`ReadsNeverStale`, `WatchesMissNothing`, `ListThenWatchCorrect`,
`GenerationsCorrect` and the action property `ForwardOnly`. They are about
KineStore's own steps; that the transactions of KineTxn keep `NoStaleRead` and
`ListThenWatch` too is what the run `kine_txn` adds. None of the properties is
inductive alone: that the compacted log reads like the full one says nothing
about which rows a later delete or compaction would uncover. The invariant
`IInv` says what compaction has removed: rows at or below the floor, older than
every kept row of their key, and never the live row of their key (`Dropped`). It
adds that revisions are unique and at most the clock (`Stamped`), that a written
key has a latest row (`HasLatest`), and how tombstones separate generations
(`Apart`). `PushStep` shows that a write keeps it and `CompactStep` that a
compaction does; the reads then follow from `IInv` in one lemma each.

*LeaderElection.* The assumptions are the ones `LeaderElectionConfig::new`
checks (0 < `renew_deadline` < `lease_duration`) and that clocks differ by less
than `lease_duration - renew_deadline`. The second is the deployment's: the code
compares times of different machines and never states how far they may drift.
`NeverTwoLeaders` needs that an acting instance is the holder of the Lease with
exactly its last renewal (`LeaderHolds`), and that a held Lease carries its
holder's duration (`ClaimOfHolder`). The Lease is then still valid by the clock
of every other instance (`ValidForOthers`), which therefore cannot take it.
`TermsNeverShared` and `StallsAreReal` need that the history of terms stays at or
below the current `lease_transitions` (`TermsSoFar`), and that an observed record
is the current or an older one (`SeenBefore`), so a record never reappears.

*ApiRegistry.* `NoUpdateLost` and `LivesAreOrdered`, for any clients, names,
bodies and patches. The invariant adds that stored objects differ in key and uid
(`Distinct`), that a version names one event and no uid is used again
(`Versioned`), that every stored object and every copy was stored by the event of
its version (`Sourced`), and that a stored object is the last state of its uid
(`Last`). A guard that holds then means that no event lies between the copy and
the write. `LivesAreOrdered` lets a name change and a deletion go only where
`apply_patched` wrote the object in between (`Repatched`); `PatchKept` shows that
such a write stays on record.

*Informer.* `CacheIsExact`: at every moment, applying what is popped and queued
to the store gives what was last observed, and the index lists exactly the
stored objects. It needs only that deltas and objects are filed under their own
key (`Keyed`). `CoalesceLast` shows that merging deltas keeps their outcome.

*MqttHub.* `SessionAlwaysHeld`, for any clients and connections. The property
speaks of a registered connection, but the broker's state is settled earlier, at
its CONNECT. `HubInv` therefore follows the connection of the last CONNECT from
the broker's lock (`pc` is "connecting") to the registry's: all the way its
session is attached to it, and no connection of its client is half-way through a
teardown, unless the two overlapped.

*Kubelet.* `StatusesDelivered`, for any pods, specs and faults. `StatusInv` says
that the pending status is the last one set, that the acknowledged one is what
the API server holds (`Mirrors`, except after a refusal or a lost answer), that a
flush holds at most one write for a pod (`FlushOnce`), and that nobody works on a
pod that is gone (`GoneIsIdle`), so that it stays gone.

`PassesReconcile`, also for any pods, specs and faults (`KubeletVolumeProofs`).
The property is about the end of a pass. `VolInv` therefore says what holds at
each of its awaits: what is missing, and later what is surplus, is still on its
list (`Progress`); and what is on disk differs from what is marked mounted by the
volume in hand only (`OnDisk`). Both hold while the pass is alone (`Alone`); the
second also needs that no earlier pass was overlapped (`NeverOverlapped`).

*Scheduler.* `AssumptionsExact`, for any pods, nodes, requests and bounds.
`AssumeInv` adds to the property that the loop carries one pod from the pop to
the end of its cycle (`Loops`), and that a pod whose bind has answered Ok is in no
binding cycle again (`NotAgain`), so that `forget_pod` never takes the assumption
of a bound pod. `BindsOnce` follows: no pod has two binds that answered Ok.

*Only model-checked.* Liveness under fairness (`WatchDelivers`, `LeaseKeysDie`,
`EveryRequestServed`, `CrashedLeaderReplaced`, `TopPriorityScheduled`) and what a
fold over a sequence of operations computes (`KineTxn`) are beyond the prover:
it has no rules for ENABLED and cannot do induction over data. The refinement
`ImplementsCore`, the invariants of KineServer and WorkQueue, `CacheConverges`,
and the other properties of Scheduler, MqttHub and Kubelet are checked on the
instances above and not proved. KineServer deletes keys by a fold and WorkQueue
filters its lines with SelectSeq, so their invariants too need induction over
data.

## Disagreements between code and comments

One has a run that shows it. `server_cas`: `do_txn` releases the store between
the guard and the operations (`grpc.rs:448`, `:482`), so two overlapping
transactions that expect the same revision both succeed. `grpc.rs:23` says a
handler holds the lock for the whole operation. `SequentialCAS` states what does
hold.

Seven are stated as properties that TLC refutes when they are added to the cfg
of the run named:

* `LeasedKeysEventuallyDeleted` (`server_lease`, with `MaxRestarts = 1`): after a
  restart a keep-alive does not bring a lease back (`grpc.rs:660`), so its keys
  are never deleted. `grpc.rs:110` says the table is rebuilt from keep-alives.
* `CountedOnce` (`scheduler`): `add_pod` counts a bound pod again on top of its
  assumption (`cache/mod.rs:81`). The comment at `cache/mod.rs:100` says it takes
  over.
* `CannotDetachNew` (`mqtt`): a teardown that has left the registry detaches the
  session by client identifier only (`runtime/mod.rs:127`), also when a new
  CONNECT has taken it over in between; eight steps. The comment on `Hub`
  (`runtime/mod.rs:32`) says the connection id prevents it. `SessionHeld` states
  what does hold.
* `WritesDisjoint` (`kine_txn`): a delete of `AllKeys` removes every key
  (`range.rs:106`), but its span starts at its key (`txn.rs:453`, `:467`). A branch
  that puts a lower key and then deletes `AllKeys` is accepted, and its result
  depends on the order. The comment on `check_disjoint_writes` (`txn.rs:413`)
  says such a branch is rejected. `OrderIrrelevant` states what does hold.
* `PatchKeepsIdentity` (`api_informer`): `apply_patched` (`registry.rs:325`) keeps
  the uid and the generation only, so a merge patch can rename an object, leave it
  under its old key, or take a deletion back; `update` does none of it.
  `registry.rs:292` says the patched object goes through the path of update.
  `LifeCycle` states what does hold.
* `IdentifiersSuffice` (`mqtt`): `next_id` does not look at the queue
  (`session.rs:55`), so after a wrap an offline session can queue two messages
  with one identifier, or one with that of an unacknowledged message. On
  resumption the later replaces the earlier in `outgoing_unacked`, which a drop of
  the connection then loses. The comment (`session.rs:47`) says the identifier is
  not in use by an in-flight message. It takes 65 535 identifiers, here two.
  `NothingForgotten` states what does hold (`overrun`).
* `AddOfQueuedIsNoOp` (`work_queue`, as a PROPERTY): `add` moves a delayed key to
  the ready line (`workqueue.rs:145`), and a comment there says so. The doc of
  `add` (`workqueue.rs:132`) says that adding a delayed key is a no-op.
  `ReadyTimeExact` states what the code does: the earliest time asked for wins.

Others were met while reading; the models contain the code's behaviour for the
modelled parts.

* A historical read at or above the floor can miss a key whose row at that
  revision was compacted (`compact.rs:77`, accepted at `range.rs:144`).
  `NoStaleRead` therefore says "no wrong row", not "every row".
* A crash between insert and fix-up leaves `create_revision` 0 for a generation
  (`sqlite.rs:202`); `CreateRevisionSound` allows exactly that.
* The header revision goes back when a tombstone at the head is compacted
  (`sqlite.rs:119`). A stream from "now" then starts below `clock`.
* A transaction's operations stay when a later one fails (`txn.rs:299`, `:379`),
  and `version_of` counts only rows that are left (`txn.rs:371`).
* A watch from revision 0 is never refused and skips compacted changes
  (`sqlite.rs:437`); `WatchConverges` shows its client still ends up right. A
  stream that starts exactly at the floor ends with an error (`grpc.rs:247`).
* The reaper deletes the keys of a lease granted again meanwhile (`grpc.rs:559`).
* `RequeueAfter` resets the failure count (`reconcile.rs:89`), and a key reported
  as dropped comes back if it is dirty (`reconcile.rs:95`).
* Scheduler: gated pods skip PreEnqueue after a move or a flush
  (`priority_queue.rs:330`, `:360`); a deleted pod stays in the queue; removing a
  node forgets its pods, so a node that flaps can be overcommitted
  (`NeverOvercommits` excludes it); a lost bind answer releases the claim; ties
  go to the last node although the comment says the first
  (`schedule_one.rs:216`, `:219`).
* API server: the continue token is an index (`registry.rs:432`), so an object
  can fall between two pages when an earlier one goes (`clean`); a Deleted event
  carries the version the object had before (`registry.rs:396`), so a reflector
  that resumes from it sees later events twice; the informer files a renamed
  object under its new name and keeps the old entry (`CacheConverges` is about
  objects that were not renamed).
* MQTT: a resumed session is sent what was queued, not what is unacknowledged
  (`broker/mod.rs:199`), which stays in the session for good, so
  `NothingForgotten` says that it is held, not that it is sent again; with every
  identifier outstanding `next_id` never returns, and the broker's lock with it
  (`session.rs:50`); a superseded
  connection is still served (`runtime/mod.rs:112`), so its DISCONNECT ends the
  new one's session (`stale`, `raced`).
* Kubelet workers: a container left Created by a failed start is skipped ever
  after, although the comment says the caller will start it (`worker.rs:243`); a
  sandbox whose clean-up failed, or whose creation's answer was lost, is
  forgotten (`worker.rs:204`; `leaked`); after a lost answer to
  `remove_pod_sandbox` every later termination fails, since stopping what is gone
  is an error; a sync after termination has begun starts containers again
  (`worker.rs:81`); `compose_status` reports the first container listed of each
  name, which may be an exited one (`kubelet.rs:165`).
* Kubelet statuses: a permanent refusal drops a newer pending status
  (`manager.rs:88`); a write that went through but answered with an error, and
  whose status then changes back to the acknowledged one, is never corrected
  (`unsure`); a flush in progress acknowledges a pod after `forget_pod`.
* Kubelet volumes: overlapping passes work from their own snapshots, so one can
  tear down a volume that is desired again, or mount that of a terminated pod
  (`reconciler.rs:47`); `Reconciled` is about passes that no other overlaps.
* Unmodelled parts: `run_manual` evaluates no conditions (automation
  `engine.rs:238`); the restart budget is reset only by a clean exit
  (`supervisor.rs:242`).

## Not modelled

Left out of the modelled parts: byte-level key ranges, ordering comparisons of
values, general transactions at the server (KineTxn has them), gRPC framing, the
other SQL drivers; several resources, namespaces and admission at the API server;
scheduler plugins beyond resource fit, preemption, and the polling drivers
`run_once` and `drain_active`; topic matching, shared subscriptions and several
topics at the broker; volumes other than emptyDir, images, probes and
`Kubelet::forget_pod`, which has no caller; the lifecycle event generator
(`pleg/generic.rs`), whose events nothing consumes yet.

Left out as a whole:

* Codecs, parsers, numeric classification, view models and command lines: most
  of the repository's crates and lines. They are functions of their input,
  without state that several actors share, and their unit tests enumerate them.
* Clients of an external peer (bridges, inverters, vehicles, UniFi): what could
  go wrong in them depends on the peer, which is not in the repository.
* Cluster failover and node discovery: decision functions without a caller. When
  they are called, and with health how old, is what a model would have to make
  up.
* The automation engine: its runs are tasks of scripts whose steps are calls of
  services registered from outside, and `wait` steps that listen on the bus from
  the moment they are reached (`script.rs:254`). The code states no policy for
  overlapping runs against which a model could be checked; `engine.rs:168` is
  listed as a hazard.
* The single binary's supervisor and pod loop: they run the modelled parts as
  tasks of one process. The loop reads the pods under the lock, runs them without
  it and marks them by name afterwards (`binary/src/lifecycle.rs:177`), with a
  merge patch. ApiRegistry has that patch (`patch_merge`), not the loop. It names
  no version: `NoLostUpdate` says that no guarded write overwrites it, not that
  it overwrites nothing.
* Bring-up order, keyring, alarm panel, lock and other sequential machines: one
  caller at a time, no failure between their steps.
