------------------------------ MODULE KineBatch ------------------------------
(***************************************************************************)
(* Several writes of one call on a copy s = [clock, rows, hist] of the     *)
(* decision core's store, for the callers that hold the store while they   *)
(* write more than one row.                                                *)
(***************************************************************************)
EXTENDS KineStore, Sequences, SequencesExt

Snapshot == [clock |-> clock, rows |-> rows, hist |-> hist]

\* Store::put and Store::delete on the copy.
WriteRow(s, k, v, l, del) ==
    LET live == get_live(s.rows, k)
        row == [key |-> k,
                create_revision |-> IF live = {} THEN s.clock + 1
                                    ELSE (CHOOSE r \in live : TRUE).create_revision,
                mod_revision |-> s.clock + 1,
                value |-> v, lease |-> l, deleted |-> del]
    IN  [s EXCEPT !.clock = @ + 1, !.rows = @ \cup {row}, !.hist = @ \cup {row}]

\* Tombstones for the live keys in `keys', one by one in key order.
DeleteKeys(s, keys) ==
    FoldLeft(LAMBDA t, k : WriteRow(t, k, EmptyValue, 0, TRUE), s,
             SetToSortSeq(keys, <))

\* The store becomes s.
Commit(s) ==
    /\ s.clock <= MaxRev
    /\ clock' = s.clock
    /\ rows' = s.rows
    /\ hist' = s.hist
    /\ UNCHANGED compacted

=============================================================================
