----------------------------- MODULE KineSqlite -----------------------------
(***************************************************************************)
(* SqliteStore (sqlite.rs with the statements of dialect.rs): the KineStore *)
(* log kept in one SQL table.                                               *)
(*                                                                         *)
(* What the decision core does in one step takes several statements here,  *)
(* each its own implicit transaction: a row that starts a generation is    *)
(* INSERTed with create_revision 0 and UPDATEd afterwards, and revoking a  *)
(* lease deletes its keys one by one.  The process may die between two     *)
(* statements.  While one call is under way no other one runs: each takes  *)
(* the store by exclusive reference.                                       *)
(*                                                                         *)
(* SQLite itself is modelled by what the statements rely on: AUTOINCREMENT *)
(* never reuses an id, a committed statement survives a crash, and the     *)
(* unique index on (name, prev_revision) rejects a duplicate.              *)
(***************************************************************************)
EXTENDS Integers, FiniteSets, Sequences

CONSTANTS
    Keys, Values, EmptyValue, Leases, MaxRev,  \* as in KineStore
    Payloads     \* bound: the values clients write

ASSUME PayloadsAssumption == Payloads \subseteq Values

VARIABLES
    table,   \* the rows of the kine table other than the sentinel: [name, id,
             \* created, create_revision, prev_revision, lease, value,
             \* old_value, deleted]
    seq,     \* the AUTOINCREMENT sequence: the largest id ever assigned
    floor,   \* prev_revision of the compact_rev_key sentinel row
    fixup,   \* the id of an inserted row whose create_revision is still 0
    revoke,  \* the lease being revoked (0: none) and its keys still to delete
    hist,    \* history variable: every row ever written
    gen      \* history variable: per id, the id that started its generation

vars == <<table, seq, floor, fixup, revoke, hist, gen>>

NoRevoke == [lease |-> 0, keys |-> {}]

\* No call is under way.
Idle == fixup = {} /\ revoke = NoRevoke

-----------------------------------------------------------------------------
(* Queries.                                                                *)

MaxOrZero(S) == IF S = {} THEN 0 ELSE CHOOSE n \in S : \A m \in S : m <= n

\* SELECT COALESCE(MAX(id), 0) over the real rows.
current_revision == MaxOrZero({r.id : r \in table})

\* The latest row of k, live or tombstone.
latest(k) ==
    {r \in table : r.name = k /\ \A q \in table : q.name = k => q.id <= r.id}

live(k) == {r \in latest(k) : ~r.deleted}

\* Mutant of prev_id: a new generation points at no predecessor.
prev_id_none(k) == 0

\* The prev_revision the row of a new generation of k gets: the tombstone's id.
prev_id(k) == MaxOrZero({r.id : r \in latest(k)})

keys_with_lease(l) ==
    IF l = 0 THEN {} ELSE {k \in Keys : \E r \in live(k) : r.lease = l}

\* Mutant of list_rows: the tombstones are left out before the MAX(id).
list_rows_filtered(sel, at_rev, read_rev) ==
    LET R == {r \in table : r.name \in sel /\ ~r.deleted /\ (at_rev => r.id <= read_rev)}
    IN  {r \in R : \A q \in R : q.name = r.name => q.id <= r.id}

\* The row with MAX(id) of each name in sel, bounded by the revision when one
\* was named, unless it is a tombstone.
list_rows(sel, at_rev, read_rev) ==
    LET R == {r \in table : r.name \in sel /\ (at_rev => r.id <= read_rev)}
    IN  {r \in R : ~r.deleted /\ \A q \in R : q.name = r.name => q.id <= r.id}

\* range: the possible answers, none when the request is refused.
range(sel, requested, limit) ==
    LET S == list_rows(sel, requested # 0, requested)
        page == IF limit > 0 /\ Cardinality(S) > limit
                THEN {r \in S : Cardinality({q \in S : q.name <= r.name}) <= limit}
                ELSE S
    IN  IF \/ requested < 0 \/ requested > current_revision \/ limit < 0
           \/ requested # 0 /\ requested < floor
        THEN {}
        ELSE {[revision |-> IF requested = 0 THEN current_revision ELSE requested,
               kvs |-> page, more |-> page # S, count |-> Cardinality(S)]}

\* watch_after: is a poll from `start' served, and with which rows?
watch_served(start) == start >= 0 /\ ~(start # 0 /\ start < floor)
watch_after(sel, start) == {r \in table : r.name \in sel /\ r.id > start}

-----------------------------------------------------------------------------
(* Writes.                                                                 *)

\* INSERT, refused by the unique index when the key already has a row with
\* this prev_revision; a row that starts a generation waits for its UPDATE.
insert(k, created, del, create_rev, prev, l, v, old) ==
    LET row == [name |-> k, id |-> seq + 1, created |-> created,
                create_revision |-> create_rev, prev_revision |-> prev, lease |-> l,
                value |-> v, old_value |-> old, deleted |-> del]
    IN  /\ seq < MaxRev
        /\ \A r \in table : ~(r.name = k /\ r.prev_revision = prev)
        /\ seq' = seq + 1
        /\ table' = table \cup {row}
        /\ hist' = hist \cup {row}
        /\ fixup' = IF created THEN {seq + 1} ELSE {}
        /\ gen' = Append(gen, IF created THEN seq + 1 ELSE gen[prev])
        /\ UNCHANGED floor

\* UPDATE kine SET create_revision = id, the second statement of an insert.
SetCreateRevision ==
    \E id \in fixup :
        LET fixed(R) == {IF r.id = id THEN [r EXCEPT !.create_revision = id] ELSE r : r \in R}
        IN  /\ table' = fixed(table)
            /\ hist' = fixed(hist)
            /\ fixup' = {}
            /\ UNCHANGED <<seq, floor, revoke, gen>>

create(k, v, l) ==
    /\ Idle
    /\ live(k) = {}
    /\ insert(k, TRUE, FALSE, 0, prev_id(k), l, v, EmptyValue)
    /\ UNCHANGED revoke

\* Mutants of update: the create_revision is forgotten; the previous value;
\* the generation is restarted.
update_no_create(k, v, l) ==
    /\ Idle
    /\ \E r \in live(k) : insert(k, FALSE, FALSE, 0, r.id, l, v, r.value)
    /\ UNCHANGED revoke
update_no_old(k, v, l) ==
    /\ Idle
    /\ \E r \in live(k) : insert(k, FALSE, FALSE, r.create_revision, r.id, l, v, EmptyValue)
    /\ UNCHANGED revoke
update_regenerates(k, v, l) ==
    /\ Idle
    /\ \E r \in live(k) : insert(k, TRUE, FALSE, 0, r.id, l, v, r.value)
    /\ UNCHANGED revoke

update(k, v, l) ==
    /\ Idle
    /\ \E r \in live(k) : insert(k, FALSE, FALSE, r.create_revision, r.id, l, v, r.value)
    /\ UNCHANGED revoke

put(k, v, l) ==
    /\ Idle
    /\ \/ \E r \in live(k) : insert(k, FALSE, FALSE, r.create_revision, r.id, l, v, r.value)
       \/ /\ live(k) = {}
          /\ insert(k, TRUE, FALSE, 0, prev_id(k), l, v, EmptyValue)
    /\ UNCHANGED revoke

tombstone(k) ==
    \E r \in live(k) : insert(k, FALSE, TRUE, r.create_revision, r.id, 0, EmptyValue, r.value)

delete(k) == Idle /\ tombstone(k) /\ UNCHANGED revoke

\* revoke_lease_keys collects the keys of the lease, then deletes them in
\* ascending order, one statement each.
revoke_lease_keys(l) ==
    /\ Idle
    /\ keys_with_lease(l) # {}
    /\ revoke' = [lease |-> l, keys |-> keys_with_lease(l)]
    /\ UNCHANGED <<table, seq, floor, fixup, hist, gen>>

RevokeNextKey ==
    \E k \in revoke.keys :
        /\ \A j \in revoke.keys : k <= j
        /\ tombstone(k)
        /\ revoke' = IF revoke.keys = {k} THEN NoRevoke
                     ELSE [revoke EXCEPT !.keys = @ \ {k}]

\* compact: the DELETE and the new floor in one transaction.
compact(target) ==
    /\ Idle
    /\ floor < target /\ target <= current_revision
    /\ table' = {r \in table : r.id > target \/ r \in live(r.name)}
    /\ floor' = target
    /\ UNCHANGED <<seq, fixup, revoke, hist, gen>>

\* The process dies between two statements and reopens the database: what was
\* committed stays, the rest of the call is lost.
Crash ==
    /\ ~Idle
    /\ fixup' = {}
    /\ revoke' = NoRevoke
    /\ UNCHANGED <<table, seq, floor, hist, gen>>

-----------------------------------------------------------------------------
\* bootstrap: an empty table and a sentinel at id 0 that holds floor 0.
Init ==
    /\ table = {}
    /\ seq = 0
    /\ floor = 0
    /\ fixup = {}
    /\ revoke = NoRevoke
    /\ hist = {}
    /\ gen = << >>

Next ==
    \/ \E k \in Keys, v \in Payloads, l \in Leases : create(k, v, l)
    \/ \E k \in Keys, v \in Payloads, l \in Leases : update(k, v, l)
    \/ \E k \in Keys, v \in Payloads, l \in Leases : put(k, v, l)
    \/ \E k \in Keys : delete(k)
    \/ SetCreateRevision
    \/ \E l \in Leases : revoke_lease_keys(l)
    \/ RevokeNextKey
    \/ \E target \in 0 .. MaxRev : compact(target)
    \/ Crash

Spec == Init /\ [][Next]_vars

-----------------------------------------------------------------------------
(* The decision core this store implements: a row counts as written once   *)
(* its create_revision is set or given up, and belongs to the generation   *)
(* that its key's last `created' row started.                              *)

AsRow(r) ==
    [key |-> r.name, create_revision |-> gen[r.id], mod_revision |-> r.id,
     value |-> r.value, lease |-> r.lease, deleted |-> r.deleted]

AsRows(R) == {AsRow(r) : r \in {q \in R : q.id \notin fixup}}

Core == INSTANCE KineStore
            WITH clock <- seq - Cardinality(fixup), rows <- AsRows(table),
                 compacted <- floor, hist <- AsRows(hist)

-----------------------------------------------------------------------------
(* Properties.                                                             *)

\* The SQL store is a KineStore, also when the process dies between two
\* statements: each call takes its rows through the steps of the decision
\* core, stuttering while a row waits for its create_revision, and a crash
\* loses nothing but that number.
ImplementsCore == Core!Spec

\* The prev_kv of an event is right: old_value of a row is the value the key
\* held just before it, also across deletions and compactions.
PrevValueExact ==
    \A r \in hist :
        LET before == {q \in hist : q.name = r.name /\ q.id < r.id}
            last == {q \in before : \A p \in before : p.id <= q.id}
        IN  r.old_value = IF last = {} THEN EmptyValue
                          ELSE (CHOOSE q \in last : TRUE).value

\* The create_revision column is never wrong: it is the id that started the
\* generation, or still 0 because a crash came before the UPDATE, and then it
\* is 0 in the whole generation.
CreateRevisionSound ==
    Idle => \A r \in hist :
        /\ r.create_revision \in {0, gen[r.id]}
        /\ \A q \in hist : (q.name = r.name /\ gen[q.id] = gen[r.id])
                              => q.create_revision = r.create_revision

\* The unique (name, prev_revision) index never refuses a write of this single
\* writer: whatever was deleted, re-created and compacted, the predecessor the
\* next row of a key would name is not the predecessor of a stored row.
WritesNeverRejected ==
    \A k \in Keys : \A r \in {q \in table : q.name = k} :
        IF live(k) = {} THEN r.prev_revision # prev_id(k)
        ELSE \A q \in live(k) : r.prev_revision # q.id

\* The SQL reads and polls are the core's: whatever request the store answers,
\* the core answers with the same rows, count and more flag, and a poll is
\* refused and answered alike.
Selectors == {Keys} \cup {{k} : k \in Keys}
ReadsAgree ==
    Idle =>
        /\ \A sel \in Selectors, rev \in 0 .. seq, limit \in 0 .. 1 :
             \A a \in range(sel, rev, limit) : \E b \in Core!execute(sel, rev, limit) :
                /\ AsRows(a.kvs) = b.kvs
                /\ a.more = b.more /\ a.count = b.count
        /\ \A sel \in Selectors, start \in 0 .. seq :
             /\ watch_served(start) <=> Core!WatchAccepted(start)
             /\ AsRows(watch_after(sel, start)) = Core!watch(sel, start)

=============================================================================
