------------------------------- MODULE KineTxn -------------------------------
(***************************************************************************)
(* txn.rs: the guarded transaction over the decision core.  apply() has    *)
(* the store by exclusive reference, so it is one step here; the rows it   *)
(* writes still take consecutive revisions.                                *)
(*                                                                         *)
(* An operation of a branch is a record: a put of a key, a delete of the   *)
(* keys from `key' to `end', or a read at a revision.  Keys are numbers in *)
(* place of byte strings, so k + 1 is the immediate successor of k and the *)
(* empty key is below all of them.  RangeEnd::Single and Prefix select the *)
(* intervals [key, key + 1) and [key, prefix_upper(key)), as Explicit can. *)
(***************************************************************************)
EXTENDS KineBatch

CONSTANTS
    NoKey,      \* the empty key
    AllKeys,    \* RangeEnd::AllKeys
    Compares,   \* guards: sets of [key, target, result, operand]
    Branches,   \* success branches: sequences of operations
    Failures    \* failure branches

ASSUME NoKeyAssumption == NoKey \in Nat /\ \A k \in Keys : NoKey < k
ASSUME AllKeysAssumption == AllKeys \notin Nat

VARIABLES
    wins      \* history variable: guarded writes that went through

txn_vars == <<clock, rows, compacted, hist, wins>>

-----------------------------------------------------------------------------
(* The guard.                                                              *)

\* version_of: the rows of the key's live generation.
version_of(k) ==
    IF get_live(rows, k) = {} THEN 0
    ELSE LET g == (CHOOSE r \in get_live(rows, k) : TRUE).create_revision
         IN  Cardinality({r \in rows : r.key = k /\ r.create_revision = g /\ ~r.deleted})

\* Mutant of field: the revision compared is the generation's.
field_swapped(k, target) ==
    IF target = "version" THEN version_of(k)
    ELSE IF get_live(rows, k) = {} THEN IF target = "value" THEN EmptyValue ELSE 0
    ELSE (CHOOSE r \in get_live(rows, k) : TRUE)
             [IF target = "mod_revision" THEN "create_revision" ELSE target]

\* The compared property of k; an absent key reads as zero, or as the empty
\* value.  (Values are compared for equality only: they have no order here.)
field(k, target) ==
    IF target = "version" THEN version_of(k)
    ELSE IF get_live(rows, k) = {} THEN IF target = "value" THEN EmptyValue ELSE 0
    ELSE (CHOOSE r \in get_live(rows, k) : TRUE)[target]

eval_compare(c) ==
    LET have == field(c.key, c.target)
    IN  \/ c.result = "equal" /\ have = c.operand
        \/ c.result = "not_equal" /\ have # c.operand
        \/ c.result = "greater" /\ have > c.operand
        \/ c.result = "less" /\ have < c.operand

-----------------------------------------------------------------------------
(* The branches, run on a copy of the store.                               *)

\* RangeRequest::contains: AllKeys selects every key, whatever `key' is.
contains(op, k) == op.end = AllKeys \/ (op.key <= k /\ k < op.end)

\* The live keys selected, tombstoned one by one in key order.
delete_range(s, op) ==
    DeleteKeys(s, {k \in Keys : contains(op, k) /\ get_live(s.rows, k) # {}})

\* What the call of an operation refuses: an empty key, an interval that ends
\* before it starts, a revision ahead of the clock or below the floor.
refused(s, op) ==
    \/ op.kind = "put" /\ op.key = NoKey
    \/ op.kind = "delete" /\ op.end # AllKeys /\ (op.key = NoKey \/ op.end <= op.key)
    \/ op.kind = "range" /\ (op.revision > s.clock \/ BelowFloor(op.revision))

run_op(s, op) ==
    IF refused(s, op) THEN [s EXCEPT !.failed = TRUE]
    ELSE IF op.kind = "put" THEN WriteRow(s, op.key, op.value, op.lease, FALSE)
    ELSE IF op.kind = "delete" THEN delete_range(s, op)
    ELSE s

\* run_ops stops at the first failure and keeps what the earlier ones wrote.
run_ops(s, ops) ==
    FoldLeft(LAMBDA t, op : IF t.failed THEN t ELSE run_op(t, op), s, ops)

\* The span [lo, hi) of a write; an unbounded one has no hi.
write_span(op) ==
    [lo |-> op.key,
     hi |-> IF op.kind = "put" THEN {op.key + 1}
            ELSE IF op.end = AllKeys THEN {} ELSE {op.end}]

overlaps(a, b) == (\A h \in b.hi : a.lo < h) /\ (\A h \in a.hi : b.lo < h)

\* Mutant of check_disjoint_writes: only neighbours are compared.
disjoint_neighbours(ops) ==
    \A i \in 1 .. Len(ops) - 1 :
        (ops[i].kind # "range" /\ ops[i + 1].kind # "range")
            => ~overlaps(write_span(ops[i]), write_span(ops[i + 1]))

check_disjoint_writes(ops) ==
    \A i, j \in 1 .. Len(ops) :
        (i < j /\ ops[i].kind # "range" /\ ops[j].kind # "range")
            => ~overlaps(write_span(ops[i]), write_span(ops[j]))

-----------------------------------------------------------------------------
(* apply.                                                                  *)

store == Snapshot @@ [failed |-> FALSE]

\* The writes of a guarded transaction, for the history: the guard value of
\* each key compared for equality, and the first row written for it.
GuardedWrites(compares, s) ==
    LET new == s.hist \ hist
    IN  {[key |-> c.key, target |-> c.target, operand |-> c.operand, row |-> r] :
            <<c, r>> \in {<<c, r>> \in compares \X new :
                            /\ c.result = "equal"
                            /\ c.key = r.key
                            /\ \A q \in new : q.key = r.key => r.mod_revision <= q.mod_revision}}

apply(compares, success, failure) ==
    LET succeeded == \A c \in compares : eval_compare(c)
        valid == /\ check_disjoint_writes(success)
                 /\ check_disjoint_writes(failure)
        s == IF valid THEN run_ops(store, IF succeeded THEN success ELSE failure)
             ELSE [store EXCEPT !.failed = TRUE]
    IN  /\ Commit(s)
        /\ wins' = IF succeeded THEN wins \cup GuardedWrites(compares, s) ELSE wins

-----------------------------------------------------------------------------
TxnInit == Init /\ wins = {}

TxnNext ==
    \/ \E compares \in Compares, success \in Branches, failure \in Failures :
            apply(compares, success, failure)
    \/ Next /\ UNCHANGED wins

TxnSpec == TxnInit /\ [][TxnNext]_txn_vars

-----------------------------------------------------------------------------
(* Properties.                                                             *)

\* Compare-and-swap: of all the transactions that guard a write of a key with
\* the same mod_revision, one goes through, and one guarded by "absent" only
\* ever writes the first row of a generation.
CompareAndSwap ==
    \A w \in {x \in wins : x.target = "mod_revision"} :
        /\ w.operand = 0 => w.row.create_revision = w.row.mod_revision
        /\ w.operand # 0 =>
             \A x \in wins : (x.target = w.target /\ x.key = w.key /\ x.operand = w.operand)
                                => x.row = w.row

\* The live keys with their values: what a branch leaves for a reader.
View(s) == {[key |-> r.key, value |-> r.value, lease |-> r.lease] :
                r \in UNION {get_live(s.rows, k) : k \in Keys}}

\* check_disjoint_writes (txn.rs:413) says it rejects a branch whose writes have
\* overlapping keys, so the state an accepted branch leaves should not depend
\* on the order of its operations.
NoInterference(ops) ==
    LET s == run_ops(store, ops)
        t == run_ops(store, Reverse(ops))
    IN  (check_disjoint_writes(ops) /\ ~s.failed /\ ~t.failed) => View(s) = View(t)

\* A delete of AllKeys whose span starts above a key that the branch writes: it
\* deletes that key too, and the spans do not show it.
ReachesBelow(ops) ==
    \E i, j \in 1 .. Len(ops) :
        /\ ops[i].kind = "delete" /\ ops[i].end = AllKeys
        /\ ops[j].kind # "range" /\ ops[j].key < ops[i].key

\* The operations of an accepted branch do not interfere, unless one of them
\* deletes AllKeys from a key above another's.
OrderIrrelevant == \A ops \in Branches : ~ReachesBelow(ops) => NoInterference(ops)

\* What the comment says, without that exception; the code breaks it.
WritesDisjoint == \A ops \in Branches : NoInterference(ops)

=============================================================================
