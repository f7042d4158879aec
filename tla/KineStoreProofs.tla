--------------------------- MODULE KineStoreProofs ---------------------------
(***************************************************************************)
(* Proofs about KineStore for every set of keys, values and leases and     *)
(* every bound on the clock.  The inductive invariant relates the row log  *)
(* to the history variable: what compaction removed lies at or below the   *)
(* floor, is older than every kept row of its key, and is never the live   *)
(* row of its key.                                                         *)
(***************************************************************************)
EXTENDS KineStore, TLAPS

\* Every row of the history carries a revision the clock has handed out, and
\* no two rows carry the same one.
Stamped ==
    /\ \A r \in hist : /\ 1 <= r.create_revision
                       /\ r.create_revision <= r.mod_revision
                       /\ r.mod_revision <= clock
    /\ \A r, q \in hist : r.mod_revision = q.mod_revision => r = q

\* A key that was ever written has a latest row.
HasLatest == \A r \in hist : latest_row(hist, r.key) # {}

\* The compacted rows: at or below the floor, older than the kept rows of
\* their key, and not the live row of their key.
Dropped ==
    /\ rows \subseteq hist
    /\ \A h \in hist \ rows : /\ h.mod_revision <= compacted
                              /\ ~ h \in get_live(hist, h.key)
                              /\ \A r \in rows : r.key = h.key => h.mod_revision < r.mod_revision

\* Rows of a key share create_revision exactly when no tombstone lies between.
Apart(r, q) ==
    (r.key = q.key /\ r.mod_revision < q.mod_revision) =>
        ((r.create_revision = q.create_revision) <=>
         ~ \E t \in hist : /\ t.key = r.key
                           /\ t.deleted
                           /\ r.mod_revision <= t.mod_revision
                           /\ t.mod_revision < q.mod_revision)

IInv ==
    /\ TypeOK
    /\ Stamped
    /\ HasLatest
    /\ Dropped
    /\ \A r, q \in hist : Apart(r, q)

-----------------------------------------------------------------------------
(* Compacting never changes what a key reads as at the current revision.   *)
LEMMA LiveAgrees ==
    ASSUME TypeOK, Stamped, Dropped, NEW k \in Keys
    PROVE  get_live(rows, k) = get_live(hist, k)
<1>1. ASSUME NEW r \in get_live(rows, k) PROVE r \in get_live(hist, k)
  <2>1. /\ r \in rows /\ r.key = k /\ ~r.deleted
        /\ \A q \in rows : q.key = k => q.mod_revision <= r.mod_revision
    BY <1>1 DEF get_live, latest_row
  <2>2. ASSUME NEW q \in hist, q.key = k PROVE q.mod_revision <= r.mod_revision
    <3>1. CASE q \in rows
      BY <2>1, <2>2, <3>1
    <3>2. CASE q \notin rows
      <4>1. q.mod_revision < r.mod_revision
        BY <2>1, <2>2, <3>2 DEF Dropped
      <4>2. q.mod_revision \in Nat /\ r.mod_revision \in Nat
        BY <2>1 DEF TypeOK, Row
      <4> QED BY <4>1, <4>2
    <3> QED BY <3>1, <3>2
  <2> QED BY <2>1, <2>2 DEF get_live, latest_row, Dropped
<1>2. ASSUME NEW h \in get_live(hist, k) PROVE h \in get_live(rows, k)
  <2>1. /\ h \in hist /\ h.key = k /\ ~h.deleted
        /\ \A q \in hist : q.key = k => q.mod_revision <= h.mod_revision
    BY <1>2 DEF get_live, latest_row
  <2>2. h \in rows
    BY <1>2, <2>1 DEF Dropped
  <2> QED BY <2>1, <2>2 DEF get_live, latest_row, Dropped
<1> QED BY <1>1, <1>2

(* A new row is the latest of its key and leaves the other keys alone.     *)
LEMMA PushLatest ==
    ASSUME TypeOK, Stamped, NEW n \in Row, n.mod_revision = clock + 1
    PROVE  /\ latest_row(hist \cup {n}, n.key) = {n}
           /\ \A k \in Keys : k # n.key => latest_row(hist \cup {n}, k) = latest_row(hist, k)
<1>1. \A q \in hist : q.mod_revision \in Nat /\ q.mod_revision <= clock /\ clock \in Nat
  BY DEF TypeOK, Row, Stamped
<1>2. n \in latest_row(hist \cup {n}, n.key)
  BY <1>1 DEF latest_row, Row, TypeOK
<1>3. ASSUME NEW r \in latest_row(hist \cup {n}, n.key) PROVE r = n
  <2>1. r \in hist \cup {n} /\ n.mod_revision <= r.mod_revision
    BY DEF latest_row
  <2> QED BY <1>1, <2>1
<1>4. ASSUME NEW k \in Keys, k # n.key
      PROVE  latest_row(hist \cup {n}, k) = latest_row(hist, k)
  BY <1>4 DEF latest_row
<1> QED BY <1>2, <1>3, <1>4

-----------------------------------------------------------------------------
(* A push of a row at the next revision preserves the invariant, provided  *)
(* its generation is right: it continues the live row of its key, or       *)
(* starts a generation when the key has none.                              *)
LEMMA PushStep ==
    ASSUME IInv, NEW n \in Row, Push(n), n.mod_revision = clock + 1,
           \/ /\ get_live(rows, n.key) = {}
              /\ n.create_revision = clock + 1
           \/ \E r \in get_live(rows, n.key) : n.create_revision = r.create_revision
    PROVE  IInv'
<1> USE DEF IInv
<1>0. n.key \in Keys /\ clock \in Nat /\ n.create_revision \in Nat
  BY DEF Row, TypeOK
<1>1. /\ rows' = rows \cup {n} /\ hist' = hist \cup {n}
      /\ clock' = clock + 1 /\ compacted' = compacted
  BY DEF Push
<1>2. TypeOK'
  BY <1>1, MaxRevAssumption DEF TypeOK, Push
<1>3. get_live(rows, n.key) = get_live(hist, n.key)
  BY <1>0, LiveAgrees
<1>4. 1 <= n.create_revision /\ n.create_revision <= clock + 1
  <2>1. CASE n.create_revision = clock + 1
    BY <2>1, <1>0
  <2>2. CASE \E r \in get_live(rows, n.key) : n.create_revision = r.create_revision
    <3>1. PICK r \in hist : n.create_revision = r.create_revision
      BY <2>2, <1>3 DEF get_live, latest_row
    <3>2. /\ r.create_revision \in Nat /\ r.mod_revision \in Nat
          /\ 1 <= r.create_revision /\ r.create_revision <= r.mod_revision
          /\ r.mod_revision <= clock
      BY DEF Stamped, TypeOK, Row
    <3> QED BY <3>1, <3>2, <1>0
  <2> QED BY <2>1, <2>2
<1>5. Stamped'
  <2>1. \A r \in hist : /\ r.mod_revision \in Nat
                        /\ 1 <= r.create_revision
                        /\ r.create_revision <= r.mod_revision
                        /\ r.mod_revision <= clock
    BY DEF Stamped, TypeOK, Row
  <2>2. \A r \in hist' : /\ 1 <= r.create_revision
                         /\ r.create_revision <= r.mod_revision
                         /\ r.mod_revision <= clock'
    BY <2>1, <1>0, <1>1, <1>4
  <2>3. \A r, q \in hist' : r.mod_revision = q.mod_revision => r = q
    BY <2>1, <1>0, <1>1 DEF Stamped
  <2> QED BY <2>2, <2>3 DEF Stamped
<1>6. /\ latest_row(hist', n.key) = {n}
      /\ \A k \in Keys : k # n.key => latest_row(hist', k) = latest_row(hist, k)
  BY <1>1, PushLatest
<1>7. HasLatest'
  <2>1. \A r \in hist' : r.key \in Keys
    BY <1>2 DEF TypeOK, Row
  <2>2. ASSUME NEW r \in hist' PROVE latest_row(hist', r.key) # {}
    BY <1>1, <1>6, <2>1, Zenon DEF HasLatest
  <2> QED BY <2>2 DEF HasLatest
<1>8. Dropped'
  <2>1. rows' \subseteq hist'
    BY <1>1 DEF Dropped
  <2>2. ASSUME NEW h \in hist' \ rows'
        PROVE  /\ h.mod_revision <= compacted'
               /\ ~ h \in get_live(hist', h.key)
               /\ \A r \in rows' : r.key = h.key => h.mod_revision < r.mod_revision
    <3>1. h \in hist \ rows /\ h # n
      BY <1>1
    <3>2. h.key \in Keys /\ h.mod_revision \in Nat /\ h.mod_revision <= clock
      BY <3>1 DEF TypeOK, Row, Stamped
    <3>3. ~ h \in get_live(hist', h.key)
      BY <3>1, <3>2, <1>6 DEF Dropped, get_live
    <3>4. \A r \in rows' : r.key = h.key => h.mod_revision < r.mod_revision
      BY <3>1, <3>2, <1>0, <1>1 DEF Dropped
    <3> QED BY <3>1, <3>3, <3>4, <1>1 DEF Dropped
  <2> QED BY <2>1, <2>2 DEF Dropped
<1>9. ASSUME NEW r \in hist', NEW q \in hist' PROVE Apart(r, q)'
  <2> DEFINE Tomb(H, a, b) == \E t \in H : /\ t.key = r.key
                                           /\ t.deleted
                                           /\ a <= t.mod_revision
                                           /\ t.mod_revision < b
  <2> SUFFICES ASSUME r.key = q.key, r.mod_revision < q.mod_revision
               PROVE  (r.create_revision = q.create_revision)
                      <=> ~Tomb(hist', r.mod_revision, q.mod_revision)
    BY DEF Apart
  <2>1. \A x \in hist : /\ x.mod_revision \in Nat /\ x.create_revision \in Nat
                        /\ x.create_revision <= x.mod_revision
                        /\ x.mod_revision <= clock
                        /\ x.key \in Keys
    BY DEF Stamped, TypeOK, Row
  <2>2. r \in hist
    BY <1>0, <1>1, <2>1
  <2>3. Tomb(hist', r.mod_revision, q.mod_revision)
          <=> Tomb(hist, r.mod_revision, q.mod_revision)
    BY <1>0, <1>1, <2>1
  <2>4. CASE q \in hist
    BY <2>2, <2>3, <2>4 DEF Apart
  <2>5. CASE q = n /\ get_live(rows, n.key) = {} /\ n.create_revision = clock + 1
    <3>1. PICK d : d \in latest_row(hist, r.key)
      BY <2>2 DEF HasLatest
    <3>2. d \in hist /\ d.key = r.key /\ r.mod_revision <= d.mod_revision
      BY <2>2, <3>1 DEF latest_row
    <3>3. d.deleted
      BY <3>1, <3>2, <2>5, <1>3 DEF get_live
    <3>4. d.mod_revision < q.mod_revision
      BY <3>2, <2>1, <2>5, <1>0
    <3>5. Tomb(hist, r.mod_revision, q.mod_revision)
      BY <3>2, <3>3, <3>4
    <3>6. r.create_revision # q.create_revision
      BY <2>1, <2>2, <2>5, <1>0
    <3> QED BY <3>5, <3>6, <2>3
  <2>6. CASE q = n /\ \E x \in get_live(rows, n.key) : n.create_revision = x.create_revision
    <3>1. PICK x \in get_live(hist, n.key) : n.create_revision = x.create_revision
      BY <2>6, <1>3
    <3>2. /\ x \in hist /\ x.key = r.key /\ ~x.deleted
          /\ \A y \in hist : y.key = r.key => y.mod_revision <= x.mod_revision
      BY <3>1, <2>6 DEF get_live, latest_row
    <3>3. \A t \in hist : t.key = r.key /\ t.deleted => t.mod_revision < x.mod_revision
      BY <3>2, <2>1 DEF Stamped
    <3>4. x.mod_revision < q.mod_revision
      BY <3>2, <2>1, <2>6, <1>0
    <3>5. Tomb(hist, r.mod_revision, q.mod_revision)
            <=> Tomb(hist, r.mod_revision, x.mod_revision)
      BY <3>2, <3>3, <3>4, <2>1, <2>6, <1>0
    <3>6. CASE r = x
      BY <3>1, <3>5, <3>6, <2>1, <2>3, <2>6, <3>2
    <3>7. CASE r # x
      <4>1. r.mod_revision < x.mod_revision
        BY <3>2, <3>7, <2>1, <2>2 DEF Stamped
      <4>2. (r.create_revision = x.create_revision)
              <=> ~Tomb(hist, r.mod_revision, x.mod_revision)
        BY <4>1, <3>2, <2>2 DEF Apart
      <4> QED BY <4>2, <3>1, <3>5, <2>3, <2>6
    <3> QED BY <3>6, <3>7
  <2> QED BY <2>4, <2>5, <2>6, <1>1
<1> QED BY <1>2, <1>5, <1>7, <1>8, <1>9

-----------------------------------------------------------------------------
(* A compaction removes only what the invariant lets it remove.            *)
LEMMA CompactStep ==
    ASSUME IInv, NEW target \in 0 .. MaxRev, Compact(target)
    PROVE  IInv'
<1> USE DEF IInv
<1>1. /\ rows' = Survivors(rows, target) /\ hist' = hist
      /\ clock' = clock /\ compacted' = target
      /\ compacted < target /\ target <= clock
  BY DEF Compact
<1>2. rows' \subseteq rows
  BY <1>1 DEF Survivors
<1>3. TypeOK'
  BY <1>1, <1>2, MaxRevAssumption DEF TypeOK
<1>4. Stamped' /\ HasLatest'
  BY <1>1 DEF Stamped, HasLatest, latest_row
<1>5. \A x \in hist : x.key \in Keys /\ x.mod_revision \in Nat
  BY DEF TypeOK, Row
<1>6. ASSUME NEW h \in hist' \ rows'
      PROVE  /\ h.mod_revision <= compacted'
             /\ ~ h \in get_live(hist', h.key)
             /\ \A r \in rows' : r.key = h.key => h.mod_revision < r.mod_revision
  <2>1. CASE h \notin rows
    <3>1. /\ h \in hist \ rows
          /\ h.mod_revision <= compacted
          /\ ~ h \in get_live(hist, h.key)
          /\ \A r \in rows : r.key = h.key => h.mod_revision < r.mod_revision
      BY <1>1, <2>1 DEF Dropped
    <3>2. get_live(hist', h.key) = get_live(hist, h.key)
      BY <1>1 DEF get_live, latest_row
    <3> QED BY <3>1, <3>2, <1>1, <1>2, <1>5 DEF TypeOK
  <2>2. CASE h \in rows
    <3>1. h \in hist /\ ~(h.mod_revision > target) /\ h \notin get_live(rows, h.key)
      BY <1>1, <2>2 DEF Survivors
    <3>2. h.key \in Keys /\ h.mod_revision \in Nat
      BY <3>1, <1>5
    <3>3. h \notin get_live(hist', h.key)
      BY <3>1, <3>2, LiveAgrees, <1>1
    <3>4. ASSUME NEW r \in rows', r.key = h.key PROVE h.mod_revision < r.mod_revision
      <4>1. r \in hist /\ r.mod_revision \in Nat
        BY <1>2, <1>5 DEF Dropped
      <4>2. CASE r.mod_revision > target
        BY <4>1, <4>2, <3>1, <3>2
      <4>3. CASE r \in get_live(rows, r.key)
        <5>1. h.mod_revision <= r.mod_revision /\ h # r
          BY <4>3, <3>1, <3>4, <2>2 DEF get_live, latest_row
        <5> QED BY <5>1, <4>1, <3>1, <3>2 DEF Stamped
      <4> QED BY <4>2, <4>3, <1>1 DEF Survivors
    <3> QED BY <3>1, <3>2, <3>3, <3>4, <1>1
  <2> QED BY <2>1, <2>2
<1>7. Dropped'
  BY <1>1, <1>2, <1>6 DEF Dropped
<1>8. (\A r, q \in hist : Apart(r, q))'
  BY <1>1 DEF Apart
<1> QED BY <1>3, <1>4, <1>7, <1>8

LEMMA InitIInv == Init => IInv
  BY MaxRevAssumption DEF Init, IInv, TypeOK, Stamped, HasLatest, Dropped

(* Each write pushes a row of the right shape and generation.              *)
LEMMA NewRowShape ==
    ASSUME TypeOK, NEW k \in Keys, NEW c \in Nat, NEW v \in Values, NEW l \in Leases,
           NEW d \in BOOLEAN
    PROVE  /\ NewRow(k, c, v, l, d) \in Row
           /\ NewRow(k, c, v, l, d).key = k
           /\ NewRow(k, c, v, l, d).create_revision = c
           /\ NewRow(k, c, v, l, d).mod_revision = clock + 1
  BY MaxRevAssumption DEF NewRow, Row, TypeOK

LEMMA NextIInv == IInv /\ [Next]_vars => IInv'
<1> SUFFICES ASSUME IInv, [Next]_vars PROVE IInv'
  OBVIOUS
<1>0. TypeOK /\ clock \in Nat
  BY MaxRevAssumption DEF IInv, TypeOK
<1>1. ASSUME NEW k \in Keys, NEW v \in Values, NEW l \in Leases, Create(k, v, l)
      PROVE  IInv'
  <2>1. clock + 1 \in Nat
    BY <1>0
  <2>2. /\ NewRow(k, clock + 1, v, l, FALSE) \in Row
        /\ NewRow(k, clock + 1, v, l, FALSE).key = k
        /\ NewRow(k, clock + 1, v, l, FALSE).create_revision = clock + 1
        /\ NewRow(k, clock + 1, v, l, FALSE).mod_revision = clock + 1
    BY <2>1 DEF NewRow, Row
  <2> QED BY <1>1, <2>2, PushStep, Zenon DEF Create
<1>2. ASSUME NEW k \in Keys, NEW v \in Values, NEW l \in Leases, NEW d \in BOOLEAN,
             NEW r \in get_live(rows, k), Push(NewRow(k, r.create_revision, v, l, d))
      PROVE  IInv'
  <2>1. r.create_revision \in Nat
    BY <1>0 DEF get_live, latest_row, TypeOK, Row
  <2>2. /\ NewRow(k, r.create_revision, v, l, d) \in Row
        /\ NewRow(k, r.create_revision, v, l, d).key = k
        /\ NewRow(k, r.create_revision, v, l, d).create_revision = r.create_revision
        /\ NewRow(k, r.create_revision, v, l, d).mod_revision = clock + 1
    BY <1>0, <2>1, NewRowShape
  <2> QED BY <1>2, <2>2, PushStep
<1>3. ASSUME NEW k \in Keys, NEW v \in Values, NEW l \in Leases, Update(k, v, l)
      PROVE  IInv'
  BY <1>2, <1>3, Zenon DEF Update
<1>4. ASSUME NEW k \in Keys, NEW v \in Values, NEW l \in Leases, Put(k, v, l)
      PROVE  IInv'
  <2>1. CASE get_live(rows, k) = {}
    <3>1. Create(k, v, l)
      BY <1>4, <2>1, Zenon DEF Put, Create
    <3> QED BY <1>1, <3>1
  <2>2. CASE get_live(rows, k) # {}
    BY <1>2, <1>4, <2>2, Zenon DEF Put
  <2> QED BY <2>1, <2>2
<1>5. ASSUME NEW k \in Keys, Delete(k) PROVE IInv'
  BY <1>2, <1>5, ValuesAssumption, LeasesAssumption, Zenon DEF Delete
<1>6. ASSUME NEW target \in 0 .. MaxRev, Compact(target) PROVE IInv'
  BY <1>6, CompactStep
<1>7. CASE UNCHANGED vars
  <2>1. /\ clock' = clock /\ rows' = rows /\ compacted' = compacted /\ hist' = hist
    BY <1>7 DEF vars
  <2> QED BY <2>1 DEF IInv, TypeOK, Stamped, HasLatest, Dropped, Apart, latest_row, get_live
<1> QED BY <1>1, <1>3, <1>4, <1>5, <1>6, <1>7 DEF Next

-----------------------------------------------------------------------------
(* What the invariant implies.                                             *)

LEMMA NoStaleReadHolds == IInv => NoStaleRead
<1> SUFFICES ASSUME IInv, NEW rev \in 0 .. clock, NEW k \in Keys,
                    NEW r \in RowsAsOf(rows, {k}, rev)
             PROVE  r \in RowsAsOf(hist, {k}, rev)
  BY DEF NoStaleRead
<1>1. /\ r \in rows /\ r.key = k /\ ~r.deleted /\ r.mod_revision <= rev
      /\ \A q \in rows : q.key = k /\ q.mod_revision <= rev => q.mod_revision <= r.mod_revision
  BY DEF RowsAsOf, latest_at, latest_row
<1>2. ASSUME NEW q \in hist, q.key = k, q.mod_revision <= rev
      PROVE  q.mod_revision <= r.mod_revision
  <2>1. CASE q \in rows
    BY <1>1, <1>2, <2>1
  <2>2. CASE q \notin rows
    <3>1. q.mod_revision < r.mod_revision
      BY <1>1, <1>2, <2>2 DEF IInv, Dropped
    <3>2. q.mod_revision \in Nat /\ r.mod_revision \in Nat
      BY <1>1 DEF IInv, TypeOK, Row
    <3> QED BY <3>1, <3>2
  <2> QED BY <2>1, <2>2
<1>3. r \in latest_at(hist, k, rev)
  BY <1>1, <1>2 DEF IInv, Dropped, latest_at, latest_row
<1> QED BY <1>1, <1>3 DEF RowsAsOf

LEMMA WatchCompleteHolds == IInv => WatchComplete
<1> SUFFICES ASSUME IInv, NEW start \in compacted .. clock, NEW r \in hist, r.mod_revision > start
             PROVE  r \in watch(Keys, start)
  BY DEF WatchComplete, watch, IInv, Dropped
<1>1. r.key \in Keys /\ r.mod_revision \in Nat /\ compacted \in Nat /\ clock \in Nat
  BY MaxRevAssumption DEF IInv, TypeOK, Row
<1>2. r \in rows
  BY <1>1 DEF IInv, Dropped
<1> QED BY <1>1, <1>2 DEF watch

LEMMA ListThenWatchHolds == IInv => ListThenWatch
<1> SUFFICES ASSUME IInv, NEW start \in 0 .. clock, WatchAccepted(start)
             PROVE  Overlay(RowsAsOf(hist, Keys, start), watch(Keys, start))
                      = RowsAsOf(hist, Keys, clock)
  BY DEF ListThenWatch
<1> DEFINE S == RowsAsOf(hist, Keys, start)
           E == watch(Keys, start)
<1>0. /\ clock \in Nat /\ compacted \in Nat /\ start \in Nat
      /\ start = 0 \/ compacted <= start
  BY MaxRevAssumption DEF IInv, TypeOK, WatchAccepted, BelowFloor, CURRENT
<1>1. \A r \in hist : /\ r.key \in Keys /\ r.mod_revision \in Nat
                      /\ 1 <= r.mod_revision /\ r.mod_revision <= clock
  BY DEF IInv, TypeOK, Row, Stamped
<1>2. \A k \in Keys : get_live(rows, k) = get_live(hist, k)
  BY LiveAgrees DEF IInv
<1>3. \A r : r \in RowsAsOf(hist, Keys, clock) <=> r \in hist /\ r \in get_live(hist, r.key)
  BY <1>1 DEF RowsAsOf, latest_at, latest_row, get_live
<1>4. ASSUME NEW k \in Keys, NEW r \in get_live(E, k)
      PROVE  r \in RowsAsOf(hist, Keys, clock)
  <2>1. /\ r \in rows /\ r.key = k /\ ~r.deleted /\ r.mod_revision > start
        /\ \A q \in rows : q.key = k /\ q.mod_revision > start => q.mod_revision <= r.mod_revision
    BY DEF get_live, latest_row, watch
  <2>2. rows \subseteq hist
    BY DEF IInv, Dropped
  <2>3. \A q \in rows : q.key = k => q.mod_revision <= r.mod_revision
    BY <2>1, <2>2, <1>0, <1>1
  <2>4. r \in get_live(rows, k)
    BY <2>1, <2>3 DEF get_live, latest_row
  <2> QED BY <2>1, <2>2, <2>4, <1>2, <1>3
<1>5. ASSUME NEW r \in S, \A e \in E : e.key # r.key
      PROVE  r \in RowsAsOf(hist, Keys, clock)
  <2>1. /\ r \in hist /\ ~r.deleted /\ r.mod_revision <= start
        /\ \A q \in hist : q.key = r.key /\ q.mod_revision <= start => q.mod_revision <= r.mod_revision
    BY DEF RowsAsOf, latest_at, latest_row
  <2>2. start # 0
    BY <2>1, <1>0, <1>1
  <2>3. start \in compacted .. clock
    BY <2>2, <1>0
  <2>4. E = {q \in hist : q.mod_revision > start}
    BY <2>3, WatchCompleteHolds DEF WatchComplete
  <2>5. \A q \in hist : q.key = r.key => q.mod_revision <= r.mod_revision
    BY <2>1, <2>4, <1>0, <1>1, <1>5
  <2> QED BY <2>1, <2>5, <1>3 DEF get_live, latest_row
<1>6. ASSUME NEW r \in RowsAsOf(hist, Keys, clock) PROVE r \in Overlay(S, E)
  <2>1. /\ r \in hist /\ ~r.deleted /\ r.key \in Keys
        /\ r \in get_live(rows, r.key) /\ r \in rows
        /\ \A q \in hist : q.key = r.key => q.mod_revision <= r.mod_revision
    BY <1>1, <1>2, <1>3 DEF get_live, latest_row
  <2>2. E \subseteq hist
    BY DEF watch, IInv, Dropped
  <2>3. CASE r.mod_revision > start
    <3>1. r \in E
      BY <2>1, <2>3 DEF watch
    <3>2. r \in get_live(E, r.key)
      BY <2>1, <2>2, <3>1 DEF get_live, latest_row
    <3> QED BY <2>1, <3>2 DEF Overlay
  <2>4. CASE r.mod_revision <= start
    <3>1. r \in S
      BY <2>1, <2>4 DEF RowsAsOf, latest_at, latest_row
    <3>2. \A e \in E : e.key # r.key
      BY <2>1, <2>2, <2>4, <1>0, <1>1 DEF watch
    <3> QED BY <3>1, <3>2 DEF Overlay
  <2> QED BY <2>1, <2>3, <2>4, <1>0, <1>1
<1>7. ASSUME NEW r \in Overlay(S, E) PROVE r \in RowsAsOf(hist, Keys, clock)
  BY <1>4, <1>5 DEF Overlay
<1> QED BY <1>6, <1>7

-----------------------------------------------------------------------------
(* The invariant holds in every reachable state.                           *)
THEOREM Invariance == Spec => []IInv
  BY InitIInv, NextIInv, PTL DEF Spec

(* Revisions and the floor are naturals within the clock.                  *)
THEOREM TypeCorrect == Spec => []TypeOK
<1>1. IInv => TypeOK
  BY DEF IInv
<1> QED BY <1>1, Invariance, PTL

(* compact.rs: "the current state is never destroyed".                     *)
THEOREM CurrentStateNeverDestroyed == Spec => []CurrentStateSurvives
<1>1. IInv => CurrentStateSurvives
  BY LiveAgrees DEF IInv, CurrentStateSurvives
<1> QED BY <1>1, Invariance, PTL

(* range.rs: an accepted historical read never shows a superseded row.     *)
THEOREM ReadsNeverStale == Spec => []NoStaleRead
  BY NoStaleReadHolds, Invariance, PTL

(* watch.rs: a watch from the floor or above misses no change.             *)
THEOREM WatchesMissNothing == Spec => []WatchComplete
  BY WatchCompleteHolds, Invariance, PTL

(* A snapshot and an accepted watch from its revision give the current     *)
(* state.                                                                  *)
THEOREM ListThenWatchCorrect == Spec => []ListThenWatch
  BY ListThenWatchHolds, Invariance, PTL

(* store.rs: revisions are never reused and create_revision names the      *)
(* generation.                                                             *)
THEOREM GenerationsCorrect == Spec => []Generations
<1>1. IInv => Generations
  BY DEF IInv, Generations, Stamped, Apart
<1> QED BY <1>1, Invariance, PTL

(* revision.rs and compact.rs: the clock and the floor only move forward,  *)
(* and only a compaction removes rows, none of them above its target.      *)
THEOREM ForwardOnly == Spec => OnlyForward
<1> DEFINE A == /\ clock' >= clock
                /\ compacted' >= compacted
                /\ \A r \in rows \ rows' : compacted < compacted' /\ r.mod_revision <= compacted'
                /\ \A r \in rows' \ rows : clock < r.mod_revision
<1>1. ASSUME IInv, [Next]_vars PROVE [A]_vars
  <2>0. clock \in Nat /\ compacted \in Nat
    BY <1>1, MaxRevAssumption DEF IInv, TypeOK
  <2>1. ASSUME NEW n, Push(n), n.mod_revision = clock + 1 PROVE A
    BY <2>0, <2>1 DEF Push
  <2>2. ASSUME NEW k, NEW c, NEW v, NEW l, NEW d, Push(NewRow(k, c, v, l, d)) PROVE A
    <3>1. NewRow(k, c, v, l, d).mod_revision = clock + 1
      BY DEF NewRow
    <3> QED BY <2>1, <2>2, <3>1
  <2>3. ASSUME NEW k \in Keys, NEW v \in Values, NEW l \in Leases,
               Create(k, v, l) \/ Update(k, v, l) \/ Put(k, v, l) \/ Delete(k)
        PROVE  A
    BY <2>2, <2>3, Zenon DEF Create, Update, Put, Delete
  <2>4. ASSUME NEW target \in 0 .. MaxRev, Compact(target) PROVE A
    <3>1. \A r \in rows : r.mod_revision \in Nat
      BY <1>1 DEF IInv, TypeOK, Row
    <3> QED BY <2>0, <2>4, <3>1, MaxRevAssumption DEF Compact, Survivors
  <2>5. ASSUME NEW k \in Keys, Delete(k) PROVE A
    BY <2>2, <2>5, Zenon DEF Delete
  <2> QED BY <1>1, <2>3, <2>4, <2>5 DEF Next
<1>2. Spec => [][A]_vars
  BY <1>1, Invariance, PTL DEF Spec
<1> QED BY <1>2 DEF OnlyForward

=============================================================================
