------------------------------ MODULE KineStore ------------------------------
(***************************************************************************)
(* The decision core of cave-home-kine-rs: an etcd MVCC store kept as an   *)
(* append-only log of rows (store.rs), read by range.rs and watch.rs and   *)
(* trimmed by compact.rs.                                                  *)
(*                                                                         *)
(* The code keeps the rows in a vector that is only ever pushed to or      *)
(* filtered.  Every push takes a fresh revision, so the order of the       *)
(* vector is the order of mod_revision, and the model keeps a set of rows. *)
(* Keys are naturals: the code only compares keys, as byte strings in      *)
(* lexical order.  An Option<Row> of the code is a set with at most one    *)
(* element.                                                                *)
(***************************************************************************)
EXTENDS Integers, FiniteSets

CONSTANTS
    Keys,        \* non-empty keys, ordered as the code orders their bytes
    Values,      \* stored values
    EmptyValue,  \* the empty byte string: what a tombstone carries
    Leases,      \* lease ids, 0 (no lease) among them
    MaxRev       \* bound: the last revision the model's clock hands out

ASSUME KeysAssumption == Keys \subseteq Nat
ASSUME ValuesAssumption == EmptyValue \in Values
ASSUME LeasesAssumption == Leases \subseteq Int /\ 0 \in Leases
ASSUME MaxRevAssumption == MaxRev \in Nat

VARIABLES
    clock,      \* Clock.current: the last revision handed out
    rows,       \* Store.rows
    compacted,  \* Store.compacted: the compaction floor
    hist        \* history variable: every row ever written, never compacted

vars == <<clock, rows, compacted, hist>>

Row == [key : Keys, create_revision : Nat, mod_revision : Nat,
        value : Values, lease : Leases, deleted : BOOLEAN]

-----------------------------------------------------------------------------
(* The views of a log R of rows.                                           *)

\* The latest row of k in R, if k was ever written.
latest_row(R, k) ==
    {r \in R : /\ r.key = k
               /\ \A q \in R : q.key = k => q.mod_revision <= r.mod_revision}

\* The latest row of k in R, if it is not a tombstone.
get_live(R, k) == {r \in latest_row(R, k) : ~r.deleted}

\* The latest row of k written at or before revision rev.
latest_at(R, k, rev) == latest_row({r \in R : r.mod_revision <= rev}, k)

\* The keys with a live row.
live_keys(R) == {k \in Keys : get_live(R, k) # {}}

-----------------------------------------------------------------------------
(* Reads: range.rs and watch.rs are pure functions of the store.           *)

CURRENT == 0

\* The revision a request is served at; none when it is negative or ahead of
\* the clock.
resolve_read(requested) ==
    IF requested = CURRENT THEN {clock}
    ELSE {requested} \cap (0 .. clock)

\* Mutant of BelowFloor: no guard.
BelowFloorNever(requested) == FALSE

\* A request that names a revision below the floor is refused.
BelowFloor(requested) == requested # CURRENT /\ requested < compacted

\* The rows of the keys in sel that are live at the read revision.
RowsAsOf(R, sel, rev) ==
    {r \in UNION {latest_at(R, k, rev) : k \in sel} : ~r.deleted}

\* range::execute: the set of possible answers, empty when the request is
\* refused.  sel is the set of keys the request's interval contains; limit 0
\* means unlimited, and a limited answer is the first rows in key order.
execute(sel, requested, limit) ==
    LET page(S) ==
            IF limit > 0 /\ Cardinality(S) > limit
            THEN {r \in S : Cardinality({q \in S : q.key <= r.key}) <= limit}
            ELSE S
        answer(rev) ==
            LET S == RowsAsOf(rows, sel, rev)
            IN  [revision |-> rev, kvs |-> page(S),
                 more |-> page(S) # S, count |-> Cardinality(S)]
    IN  IF BelowFloor(requested) \/ limit < 0
        THEN {}
        ELSE {answer(rev) : rev \in resolve_read(requested)}

\* watch::watch: does the store serve a watch that starts after `start'?
WatchAccepted(start) == start >= 0 /\ ~BelowFloor(start)

\* The events of a watch on the keys in sel: the rows after `start', which the
\* code replays in the order of mod_revision.
watch(sel, start) == {r \in rows : r.mod_revision > start /\ r.key \in sel}

-----------------------------------------------------------------------------
(* Writes: store.rs.  Each appends exactly one row at the next revision.   *)
(* create, update and delete return Ok(None) and write nothing when their  *)
(* guard fails, which is no step of the model.                             *)

\* Clock::next followed by rows.push.
Push(row) ==
    /\ clock < MaxRev
    /\ clock' = clock + 1
    /\ rows' = rows \cup {row}
    /\ hist' = hist \cup {row}
    /\ UNCHANGED compacted

NewRow(k, create_rev, v, l, del) ==
    [key |-> k, create_revision |-> create_rev, mod_revision |-> clock + 1,
     value |-> v, lease |-> l, deleted |-> del]

Create(k, v, l) ==
    /\ get_live(rows, k) = {}
    /\ Push(NewRow(k, clock + 1, v, l, FALSE))

Update(k, v, l) ==
    \E r \in get_live(rows, k) : Push(NewRow(k, r.create_revision, v, l, FALSE))

\* Put writes whether or not the key is live, and keeps a live generation.
Put(k, v, l) ==
    \E c \in IF get_live(rows, k) = {} THEN {clock + 1}
             ELSE {r.create_revision : r \in get_live(rows, k)} :
        Push(NewRow(k, c, v, l, FALSE))

\* The tombstone keeps the dying generation's create_revision.
Delete(k) ==
    \E r \in get_live(rows, k) :
        Push(NewRow(k, r.create_revision, EmptyValue, 0, TRUE))

-----------------------------------------------------------------------------
(* Compaction: compact.rs.                                                 *)

\* Mutant of Survivors: the exception for every row that is not a tombstone.
SurvivorsNotDeleted(R, target) == {r \in R : r.mod_revision > target \/ ~r.deleted}

\* What survives a compaction at target: everything above it, and the latest
\* row of each key if that row is live.
Survivors(R, target) ==
    {r \in R : \/ r.mod_revision > target
               \/ r \in get_live(R, r.key)}

\* The target must be past the floor and not ahead of the clock.
Compact(target) ==
    /\ compacted < target
    /\ target <= clock
    /\ rows' = Survivors(rows, target)
    /\ compacted' = target
    /\ UNCHANGED <<clock, hist>>

-----------------------------------------------------------------------------
Init ==
    /\ clock = 0
    /\ rows = {}
    /\ compacted = 0
    /\ hist = {}

Next ==
    \/ \E k \in Keys, v \in Values, l \in Leases : Create(k, v, l)
    \/ \E k \in Keys, v \in Values, l \in Leases : Update(k, v, l)
    \/ \E k \in Keys, v \in Values, l \in Leases : Put(k, v, l)
    \/ \E k \in Keys : Delete(k)
    \/ \E target \in 0 .. MaxRev : Compact(target)

Spec == Init /\ [][Next]_vars

-----------------------------------------------------------------------------
(* Properties.                                                             *)

\* Types: rows of the declared shape, and the floor never past the clock.
TypeOK ==
    /\ clock \in 0 .. MaxRev
    /\ rows \subseteq Row
    /\ hist \subseteq Row
    /\ compacted \in 0 .. clock

\* Compaction keeps "the single surviving live row per key", whatever writes
\* and compactions came before: every key reads at the current revision as if
\* nothing had ever been compacted.  A lost latest row, or a tombstone dropped
\* while an older live row stays, would show here.
CurrentStateSurvives ==
    \A k \in Keys : get_live(rows, k) = get_live(hist, k)

\* A historical read that the floor does not refuse never answers with a row
\* that had already been superseded or deleted at that revision: a compacted
\* log may have lost the right row of a key, never show a wrong one.
NoStaleRead ==
    \A rev \in {n \in 0 .. clock : ~BelowFloor(n)}, k \in Keys :
        RowsAsOf(rows, {k}, rev) \subseteq RowsAsOf(hist, {k}, rev)

\* A watch that starts at or above the floor replays every change after its
\* start, also the changes that later writes have superseded.
WatchComplete ==
    \A start \in compacted .. clock :
        watch(Keys, start) = {r \in hist : r.mod_revision > start}

\* The state a client holds after applying the events E to its snapshot S.
Overlay(S, E) ==
    {r \in S : \A e \in E : e.key # r.key} \cup UNION {get_live(E, k) : k \in Keys}

\* List-then-watch: a client that read the whole store at some revision and
\* then gets a watch from that revision accepted holds the current state once
\* it has applied the events, whatever compactions ran in between.  Start 0
\* (an empty snapshot) is always accepted.
ListThenWatch ==
    \A start \in {n \in 0 .. clock : WatchAccepted(n)} :
        Overlay(RowsAsOf(hist, Keys, start), watch(Keys, start))
            = RowsAsOf(hist, Keys, clock)

\* Revisions are handed out once, and create_revision tells the generations
\* of a key apart: two rows of a key share it exactly when the key was not
\* deleted between them.
Generations ==
    \A r, q \in hist :
        /\ r.mod_revision = q.mod_revision => r = q
        /\ (r.key = q.key /\ r.mod_revision < q.mod_revision) =>
             (r.create_revision = q.create_revision) <=>
             ~ \E t \in hist : /\ t.key = r.key
                               /\ t.deleted
                               /\ r.mod_revision <= t.mod_revision
                               /\ t.mod_revision < q.mod_revision

\* The clock "never goes backwards and never repeats", the floor only moves
\* forward, and a row can only be removed by a step that moves the floor past
\* it.
OnlyForward ==
    [][ /\ clock' >= clock
        /\ compacted' >= compacted
        /\ \A r \in rows \ rows' : compacted < compacted' /\ r.mod_revision <= compacted'
        /\ \A r \in rows' \ rows : clock < r.mod_revision ]_vars

=============================================================================
