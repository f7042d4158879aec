----------------------------- MODULE KineServer -----------------------------
(***************************************************************************)
(* The etcd server of grpc.rs: request handlers, watch streams, leases and *)
(* the maintenance loop over one store behind a mutex, with the lease      *)
(* table of lease.rs behind another.                                       *)
(*                                                                         *)
(* An action is what a task does between taking and releasing a lock; a    *)
(* handler that releases the store and takes it again is two actions, and  *)
(* other tasks run in between.  The store is the decision core, with the   *)
(* header revision the SQL store reports.                                  *)
(***************************************************************************)
EXTENDS KineBatch

CONSTANTS
    Clients,     \* tasks that run transactions
    Watchers,    \* watch streams
    Filters,     \* the sets of keys that watch requests select
    LeaseIds,    \* positive lease ids, a subset of Leases
    Ttl,         \* the time to live a client asks for
    MaxNow,      \* bound: the last second the model's clock shows
    Retain,      \* CompactionConfig.retain
    ClientCompacts,  \* do clients send Compact requests of their own?
    MaxRestarts  \* bound: how often the server restarts

ASSUME LeaseIdsAssumption == LeaseIds \subseteq Leases \ {0}
ASSUME ServerAssumption ==
    /\ Ttl \in Nat \ {0} /\ MaxNow \in Nat /\ Retain \in Nat
    /\ ClientCompacts \in BOOLEAN /\ MaxRestarts \in Nat
    /\ Filters \subseteq SUBSET Keys

VARIABLES
    now,            \* the lease clock, in seconds
    leases,         \* LeaseTable: id -> expiry of the granted leases
    next_lease_id,  \* allocator for server-assigned ids
    revoking,       \* leases out of the table whose keys are not deleted yet
    maintenance,    \* the maintenance task: what it does next
    txns,           \* per client: the transaction under way
    watches,        \* per watcher: the stream
    restarts,       \* how often the server has restarted
    wins,           \* history: guarded writes that went through
    owned           \* history: revisions of rows put while their lease was granted

lease_vars == <<now, leases, next_lease_id, revoking>>
aux == <<restarts, wins, owned>>
server_vars == <<lease_vars, maintenance, txns, watches, aux>>
all_vars == <<vars, server_vars>>

StoreUnchanged == UNCHANGED vars

NoTxn == [pc |-> "idle", key |-> 0, operand |-> 0, seen |-> 0]
NoWatch == [pc |-> "closed", start |-> 0, last |-> 0,
            filter |-> {}, admits |-> {}, got |-> {},
            from |-> 0,     \* history: the first checkpoint
            base |-> 0]     \* history: the revision the events start after
Sleeping == [pc |-> "sleep", ids |-> {}, target |-> 0]

\* SqliteStore::current_revision.
header == IF rows = {} THEN 0
          ELSE CHOOSE n \in {r.mod_revision : r \in rows} :
                    \A r \in rows : r.mod_revision <= n

-----------------------------------------------------------------------------
(* KV handlers that hold the store from start to end.                      *)

\* Bound: a put leaves revisions for the tombstones of all live keys.
Headroom(k) == clock + 1 + Cardinality(live_keys(rows) \cup {k}) <= MaxRev

\* do_put; ignore_value and ignore_lease only choose which v and l are
\* written.  The lease is not looked up.
do_put(k, v, l) ==
    /\ Headroom(k)
    /\ Put(k, v, l)
    /\ owned' = IF l \in DOMAIN leases THEN owned \cup {clock + 1} ELSE owned
    /\ UNCHANGED <<lease_vars, maintenance, txns, watches, restarts, wins>>

do_delete_range(sel) ==
    /\ live_keys(rows) \cap sel # {}
    /\ Commit(DeleteKeys(Snapshot, live_keys(rows) \cap sel))
    /\ UNCHANGED server_vars

do_compact(target) ==
    /\ ClientCompacts
    /\ target <= header
    /\ Compact(target)
    /\ UNCHANGED server_vars

-----------------------------------------------------------------------------
(* do_txn: the comparisons under one lock, each operation under another.   *)
(* The transaction modelled is the apiserver's: mod_revision = operand on  *)
(* one key, a put of that key, or nothing when the guard fails.            *)

mod_revision_of(k) ==
    IF get_live(rows, k) = {} THEN 0
    ELSE (CHOOSE r \in get_live(rows, k) : TRUE).mod_revision

\* Mutant of TxnCompare: the guard is not evaluated.
TxnCompareNot(c, k, operand) ==
    /\ txns[c].pc = "idle"
    /\ txns' = [txns EXCEPT ![c] =
                    [pc |-> "ops", key |-> k, operand |-> operand, seen |-> clock]]
    /\ StoreUnchanged
    /\ UNCHANGED <<lease_vars, maintenance, watches, aux>>

TxnCompare(c, k, operand) ==
    /\ txns[c].pc = "idle"
    /\ mod_revision_of(k) = operand
    /\ txns' = [txns EXCEPT ![c] =
                    [pc |-> "ops", key |-> k, operand |-> operand, seen |-> clock]]
    /\ StoreUnchanged
    /\ UNCHANGED <<lease_vars, maintenance, watches, aux>>

\* exec_op: do_put takes the store again.
TxnOp(c, v) ==
    LET t == txns[c]
    IN  /\ t.pc = "ops"
        /\ Headroom(t.key)
        /\ Put(t.key, v, 0)
        /\ wins' = wins \cup {[client |-> c, key |-> t.key, operand |-> t.operand,
                               seen |-> t.seen, revision |-> clock + 1]}
        /\ txns' = [txns EXCEPT ![c] = NoTxn]
        /\ UNCHANGED <<lease_vars, maintenance, watches, restarts, owned>>

-----------------------------------------------------------------------------
(* Leases.                                                                 *)

Granted == DOMAIN leases

\* LeaseTable::grant: grant or renew.
grant(id) == leases' = [i \in Granted \cup {id} |-> IF i = id THEN now + Ttl ELSE leases[i]]

forget(ids) == [i \in Granted \ ids |-> leases[i]]

keys_with_lease(R, l) == {k \in Keys : \E r \in get_live(R, k) : r.lease = l}

\* revoke_lease_keys for each of the ids, in order.
RevokeAll(ids) ==
    FoldLeft(LAMBDA s, id : DeleteKeys(s, keys_with_lease(s.rows, id)),
             Snapshot, SetToSortSeq(ids, <))

\* do_lease_grant with an id of the client's choice.
do_lease_grant(id) ==
    /\ now + Ttl <= MaxNow
    /\ grant(id)
    /\ StoreUnchanged
    /\ UNCHANGED <<now, next_lease_id, revoking, maintenance, txns, watches, aux>>

\* do_lease_grant with id 0: the server allocates one.
do_lease_grant_any ==
    /\ now + Ttl <= MaxNow
    /\ next_lease_id \in LeaseIds
    /\ grant(next_lease_id)
    /\ next_lease_id' = next_lease_id + 1
    /\ StoreUnchanged
    /\ UNCHANGED <<now, revoking, maintenance, txns, watches, aux>>

\* do_lease_revoke: the table first, the keys under the other lock.
do_lease_revoke(id) ==
    /\ id \in Granted
    /\ leases' = forget({id})
    /\ revoking' = revoking \cup {id}
    /\ StoreUnchanged
    /\ UNCHANGED <<now, next_lease_id, maintenance, txns, watches, aux>>

RevokeKeys(id) ==
    /\ id \in revoking
    /\ Commit(RevokeAll({id}))
    /\ revoking' = revoking \ {id}
    /\ UNCHANGED <<now, leases, next_lease_id, maintenance, txns, watches, aux>>

\* do_keep_alive: a lease in the table is renewed; for another the answer is
\* TTL 0 and nothing changes.
do_keep_alive(id) ==
    /\ IF id \in Granted
       THEN now + Ttl <= MaxNow /\ grant(id)
       ELSE UNCHANGED leases
    /\ StoreUnchanged
    /\ UNCHANGED <<now, next_lease_id, revoking, maintenance, txns, watches, aux>>

Tick ==
    /\ now < MaxNow
    /\ now' = now + 1
    /\ StoreUnchanged
    /\ UNCHANGED <<leases, next_lease_id, revoking, maintenance, txns, watches, aux>>

-----------------------------------------------------------------------------
(* spawn_compactor: reap_expired_leases, then compact_retaining, for ever. *)

\* LeaseTable::expired: the boundary is included.
expired == {id \in Granted : now >= leases[id]}

Maintain(pc) == maintenance.pc = pc

\* Mutant of ReapForget: the expired ids are collected after they are gone.
ReapForgetFirst ==
    /\ Maintain("sleep")
    /\ leases' = forget(expired)
    /\ maintenance' = [Sleeping EXCEPT !.pc = "reap"]
    /\ StoreUnchanged
    /\ UNCHANGED <<now, next_lease_id, revoking, txns, watches, aux>>

\* Wake up; forget the expired leases under the lease lock.
ReapForget ==
    /\ Maintain("sleep")
    /\ leases' = forget(expired)
    /\ maintenance' = [Sleeping EXCEPT !.pc = "reap", !.ids = expired]
    /\ StoreUnchanged
    /\ UNCHANGED <<now, next_lease_id, revoking, txns, watches, aux>>

\* Delete their keys under the store lock.
ReapDelete ==
    /\ Maintain("reap")
    /\ Commit(RevokeAll(maintenance.ids))
    /\ maintenance' = [Sleeping EXCEPT !.pc = "measure"]
    /\ UNCHANGED <<lease_vars, txns, watches, aux>>

\* Mutant of CompactMeasure: the loop ends when there is nothing to compact.
CompactMeasureStops ==
    /\ Maintain("measure")
    /\ maintenance' = IF header - Retain > compacted
                      THEN [Sleeping EXCEPT !.pc = "compact", !.target = header - Retain]
                      ELSE [Sleeping EXCEPT !.pc = "stopped"]
    /\ StoreUnchanged
    /\ UNCHANGED <<lease_vars, txns, watches, aux>>

\* compact_retaining reads header and floor, and may have nothing to do.
CompactMeasure ==
    /\ Maintain("measure")
    /\ maintenance' = IF header - Retain > compacted
                      THEN [Sleeping EXCEPT !.pc = "compact", !.target = header - Retain]
                      ELSE Sleeping
    /\ StoreUnchanged
    /\ UNCHANGED <<lease_vars, txns, watches, aux>>

\* It compacts under a new lock; a target that is refused by now is dropped.
CompactRun ==
    /\ Maintain("compact")
    /\ \/ maintenance.target <= header /\ Compact(maintenance.target)
       \/ /\ maintenance.target > header \/ maintenance.target <= compacted
          /\ StoreUnchanged
    /\ maintenance' = Sleeping
    /\ UNCHANGED <<lease_vars, txns, watches, aux>>

-----------------------------------------------------------------------------
(* Watch streams: watch_stream_with.                                       *)

\* The created response carries the header; start 0 means "from now".
WatchCreate(w, start, filter, admits) ==
    /\ watches[w].pc = "closed"
    /\ watches' = [watches EXCEPT ![w] =
            [NoWatch EXCEPT !.pc = "created", !.start = start,
                            !.filter = filter, !.admits = admits,
                            !.last = IF start > 0 THEN start - 1 ELSE header,
                            !.from = IF start > 0 THEN start - 1 ELSE header,
                            !.base = IF start > 0 THEN start - 1 ELSE clock]]
    /\ StoreUnchanged
    /\ UNCHANGED <<lease_vars, maintenance, txns, aux>>

\* The floor is checked under a lock of its own.
WatchCheckFloor(w) ==
    /\ watches[w].pc = "created"
    /\ watches' = [watches EXCEPT ![w].pc =
            IF watches[w].start > 0 /\ watches[w].start < compacted
            THEN "canceled" ELSE "polling"]
    /\ StoreUnchanged
    /\ UNCHANGED <<lease_vars, maintenance, txns, aux>>

Kind(r) == IF r.deleted THEN "delete" ELSE "put"

\* The last revision of a batch, or `last' when the batch is empty.
Checkpoint(batch, last) ==
    IF batch = {} THEN last
    ELSE CHOOSE n \in {r.mod_revision : r \in batch} : \A r \in batch : r.mod_revision <= n

\* Mutant of WatchPoll: the checkpoint moves past delivered events only.
WatchPollFiltered(w) ==
    LET s == watches[w]
        batch == {r \in watch(s.filter, s.last) : Kind(r) \in s.admits}
    IN  /\ s.pc = "polling"
        /\ watches' = [watches EXCEPT ![w] =
                IF WatchAccepted(s.last)
                THEN [s EXCEPT !.last = Checkpoint(batch, s.last), !.got = @ \cup batch]
                ELSE [s EXCEPT !.pc = "errored"]]
        /\ StoreUnchanged
        /\ UNCHANGED <<lease_vars, maintenance, txns, aux>>

\* Mutant of WatchPoll: a poll from below the floor is not refused.
WatchPollNoGuard(w) ==
    LET s == watches[w]
        batch == watch(s.filter, s.last)
    IN  /\ s.pc = "polling"
        /\ watches' = [watches EXCEPT ![w] =
                [s EXCEPT !.last = Checkpoint(batch, s.last),
                          !.got = @ \cup {r \in batch : Kind(r) \in s.admits}]]
        /\ StoreUnchanged
        /\ UNCHANGED <<lease_vars, maintenance, txns, aux>>

\* One poll: watch_after from the checkpoint; a refused poll ends the stream
\* with an error.  The checkpoint moves over every change of the stream's keys,
\* before the events are filtered by kind; other keys do not move it.
WatchPoll(w) ==
    LET s == watches[w]
        batch == watch(s.filter, s.last)
    IN  /\ s.pc = "polling"
        /\ watches' = [watches EXCEPT ![w] =
                IF WatchAccepted(s.last)
                THEN [s EXCEPT !.last = Checkpoint(batch, s.last),
                               !.got = @ \cup {r \in batch : Kind(r) \in s.admits}]
                ELSE [s EXCEPT !.pc = "errored"]]
        /\ StoreUnchanged
        /\ UNCHANGED <<lease_vars, maintenance, txns, aux>>

\* The client cancels.
WatchCancel(w) ==
    /\ watches[w].pc = "polling"
    /\ watches' = [watches EXCEPT ![w].pc = "canceled"]
    /\ StoreUnchanged
    /\ UNCHANGED <<lease_vars, maintenance, txns, aux>>

-----------------------------------------------------------------------------
\* The server stops and starts on the same database: the rows stay, the lease
\* table, the tasks and the streams do not.
Restart ==
    /\ restarts < MaxRestarts
    /\ restarts' = restarts + 1
    /\ leases' = << >>
    /\ next_lease_id' = 1
    /\ revoking' = {}
    /\ maintenance' = Sleeping
    /\ txns' = [c \in Clients |-> NoTxn]
    /\ watches' = [w \in Watchers |-> NoWatch]
    /\ StoreUnchanged
    /\ UNCHANGED <<now, wins, owned>>

ServerInit ==
    /\ Init
    /\ now = 0
    /\ leases = << >>
    /\ next_lease_id = 1
    /\ revoking = {}
    /\ maintenance = Sleeping
    /\ txns = [c \in Clients |-> NoTxn]
    /\ watches = [w \in Watchers |-> NoWatch]
    /\ restarts = 0
    /\ wins = {}
    /\ owned = {}

ServerNext ==
    \/ \E k \in Keys, v \in Values, l \in Leases : do_put(k, v, l)
    \/ \E sel \in SUBSET Keys : do_delete_range(sel)
    \/ \E target \in 1 .. MaxRev : do_compact(target)
    \/ \E c \in Clients, k \in Keys, n \in 0 .. MaxRev : TxnCompare(c, k, n)
    \/ \E c \in Clients, v \in Values : TxnOp(c, v)
    \/ \E id \in LeaseIds : do_lease_grant(id)
    \/ do_lease_grant_any
    \/ \E id \in LeaseIds : do_lease_revoke(id)
    \/ \E id \in LeaseIds : RevokeKeys(id)
    \/ \E id \in LeaseIds : do_keep_alive(id)
    \/ Tick
    \/ ReapForget
    \/ ReapDelete
    \/ CompactMeasure
    \/ CompactRun
    \/ \E w \in Watchers, start \in 0 .. MaxRev, f \in Filters, a \in SUBSET {"put", "delete"} :
            WatchCreate(w, start, f, a)
    \/ \E w \in Watchers : WatchCheckFloor(w)
    \/ \E w \in Watchers : WatchPoll(w)
    \/ \E w \in Watchers : WatchCancel(w)
    \/ Restart

ServerSpec == ServerInit /\ [][ServerNext]_all_vars

\* Tasks that are not waiting for a client make progress: the runtime polls
\* every task, the locks are fair queues, the timers fire.
Fairness ==
    /\ WF_all_vars(Tick)
    /\ WF_all_vars(ReapForget) /\ WF_all_vars(ReapDelete)
    /\ WF_all_vars(CompactMeasure) /\ WF_all_vars(CompactRun)
    /\ \A id \in LeaseIds : WF_all_vars(RevokeKeys(id))
    /\ \A w \in Watchers : WF_all_vars(WatchCheckFloor(w)) /\ WF_all_vars(WatchPoll(w))

FairServerSpec == ServerSpec /\ Fairness

-----------------------------------------------------------------------------
(* Properties.                                                             *)

\* The guard of do_txn is stale only through transactions that overlap: if two
\* guarded writes of a key expected the same revision, each evaluated its guard
\* before the other wrote.  Clients that run one after the other get
\* compare-and-swap, also across a restart.
SequentialCAS ==
    \A w, x \in wins :
        (w # x /\ w.key = x.key /\ w.operand = x.operand /\ w.operand # 0) =>
            w.seen < x.revision /\ x.seen < w.revision

\* What the client of w should have got by now.
Due(w) ==
    {r \in hist : /\ watches[w].base < r.mod_revision
                  /\ r.mod_revision <= watches[w].last
                  /\ r.key \in watches[w].filter
                  /\ Kind(r) \in watches[w].admits}

\* A stream whose first checkpoint is positive delivers each admitted change
\* after its start exactly up to its checkpoint, whatever compactions run
\* between its polls.
WatchNoGap == \A w \in Watchers : watches[w].from > 0 => watches[w].got = Due(w)

\* A stream that has caught up leaves its client, which listed its keys at the
\* start revision, with their current state, also when it started from revision 0 and
\* intermediate changes were compacted before a poll saw them.
WatchConverges ==
    \A w \in Watchers :
        LET s == watches[w]
        IN  (/\ s.pc = "polling"
             /\ s.admits = {"put", "delete"}
             /\ watch(s.filter, s.last) = {}
             /\ s.base <= clock
             /\ WatchAccepted(s.last)) =>
                Overlay(RowsAsOf(hist, s.filter, s.base), s.got) = RowsAsOf(rows, s.filter, clock)

\* A stream gets past each change of its keys, of an admitted kind or not, or
\* ends: nothing is polled for ever.
WatchDelivers ==
    \A w \in Watchers, n \in 1 .. MaxRev :
        (/\ watches[w].pc = "polling" /\ watches[w].from > 0
         /\ \E r \in hist : r.mod_revision = n /\ r.key \in watches[w].filter)
            ~> (watches[w].last >= n \/ watches[w].pc # "polling")

\* While the server runs, a live key that was put under a granted lease is
\* never orphaned: its lease is in the table, or a task is about to delete the
\* keys of that lease.
OwnedKeysTracked ==
    \A k \in Keys : \A r \in get_live(rows, k) :
        r.mod_revision \in owned => r.lease \in Granted \cup revoking \cup maintenance.ids

\* A key whose lease has run out does not stay: it is deleted, moved off the
\* lease, or the lease is granted again.
LeaseKeysDie ==
    \A k \in Keys, id \in LeaseIds :
        (id \in expired /\ k \in keys_with_lease(rows, id))
            ~> (k \notin keys_with_lease(rows, id) \/ (id \in Granted /\ id \notin expired))

\* grpc.rs: "each handler intentionally holds the store `MutexGuard` for the
\* whole operation", so a transaction is a compare-and-swap: of the guarded
\* writes of a key that expect one revision, one goes through.
ServerCAS ==
    \A w, x \in wins :
        (w.key = x.key /\ w.operand = x.operand /\ w.operand # 0) => w = x

\* lease.rs: when a lease "is not kept alive past its TTL the lease expires and
\* **every key attached to it is deleted**"; grpc.rs: the table "is rebuilt on
\* restart from outstanding `KeepAlive`s".  Clients stop renewing before MaxNow.
LeasedKeysEventuallyDeleted ==
    \A k \in Keys :
        LET leased == \E r \in get_live(rows, k) : r.mod_revision \in owned
        IN  leased ~> ~leased

=============================================================================
