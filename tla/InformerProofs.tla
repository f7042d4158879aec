--------------------------- MODULE InformerProofs ---------------------------
(***************************************************************************)
(* The informer cache is exact, for any keys, objects, index entries and   *)
(* any sequence of observations, relists, pops and applications.           *)
(***************************************************************************)
EXTENDS Informer, FiniteSetTheorems, TLAPS

Maybe == Objects \cup {NoObject}

FifoTypeOK ==
    /\ queues \in [Keys -> Seq(Delta)]
    /\ order \in Seq(Keys)
    /\ known \subseteq Keys
    /\ last_known \in [Keys -> Maybe]
    /\ popped \in Seq(Delta)
    /\ items \in [Keys -> Maybe]
    /\ index \in [IndexEntries -> SUBSET Keys]

\* A sequence of deltas of one key.
DeltasOf(q, k) == \A i \in 1 .. Len(q) : KeyOf(q[i].object) = k

\* Deltas and objects are where their key says.
Keyed ==
    /\ \A k \in Keys : DeltasOf(queues[k], k)
    /\ \A k \in Keys : last_known[k] # NoObject => KeyOf(last_known[k]) = k
    /\ popped # <<>> => DeltasOf(popped, KeyOf(popped[Len(popped)].object))

Inv == FifoTypeOK /\ Keyed /\ CacheExact

-----------------------------------------------------------------------------

\* Whatever the queue held, its last delta now leads to what d leads to.
LEMMA CoalesceLast ==
    ASSUME NEW q \in Seq(Delta), NEW d \in Delta
    PROVE  LET r == Coalesce(q, d)
           IN  /\ r \in Seq(Delta)
               /\ r # <<>>
               /\ Result(r[Len(r)]) = Result(d)
               /\ \A k : DeltasOf(q, k) /\ KeyOf(d.object) = k => DeltasOf(r, k)
<1>1. CASE q # <<>> /\ q[Len(q)].delta_type # "Deleted" /\ d.delta_type # "Deleted"
  <2> DEFINE last == [delta_type |-> IF d.delta_type = "Updated" THEN "Updated"
                                     ELSE q[Len(q)].delta_type,
                      object |-> d.object]
             r == [q EXCEPT ![Len(q)] = last]
  <2>1. Len(q) \in 1 .. Len(q) /\ q[Len(q)] \in Delta
    BY <1>1
  <2>2. /\ last \in Delta
        /\ last.object = d.object
        /\ last.delta_type # "Deleted"
    BY <1>1, <2>1 DEF Delta, DeltaType
  <2>3. Coalesce(q, d) = r
    BY <1>1 DEF Coalesce
  <2> HIDE DEF last
  <2>4. /\ r \in Seq(Delta) /\ Len(r) = Len(q) /\ r # <<>>
        /\ r[Len(q)] = last
        /\ \A i \in 1 .. Len(q) : i # Len(q) => r[i] = q[i]
    BY SMTT(60), <2>1, <2>2
  <2>5. Result(r[Len(r)]) = Result(d)
    BY <1>1, <2>2, <2>4, Zenon DEF Result
  <2> HIDE DEF r
  <2>6. \A k : DeltasOf(q, k) /\ KeyOf(d.object) = k => DeltasOf(r, k)
    BY <2>2, <2>4 DEF DeltasOf
  <2> QED
    BY <2>3, <2>4, <2>5, <2>6
<1>2. CASE ~(q # <<>> /\ q[Len(q)].delta_type # "Deleted" /\ d.delta_type # "Deleted")
  <2>1. Coalesce(q, d) = Append(q, d)
    BY <1>2 DEF Coalesce
  <2>2. /\ Append(q, d) \in Seq(Delta) /\ Len(Append(q, d)) = Len(q) + 1
        /\ Append(q, d)[Len(q) + 1] = d
        /\ \A i \in 1 .. Len(q) : Append(q, d)[i] = q[i]
    OBVIOUS
  <2>3. \A k : DeltasOf(q, k) /\ KeyOf(d.object) = k => DeltasOf(Append(q, d), k)
    BY <2>2 DEF DeltasOf
  <2>4. Append(q, d) # <<>>
    BY <2>2
  <2> QED
    BY <2>1, <2>2, <2>3, <2>4
<1> QED
  BY <1>1, <1>2

\* An observation: k is queued to become v.
LEMMA Observation ==
    ASSUME Inv, NEW k \in Keys, NEW d \in Delta, NEW v \in Maybe,
           KeyOf(d.object) = k, Result(d) = v, v # NoObject => KeyOf(v) = k,
           enqueue(k, d),
           known' = IF v = NoObject THEN known \ {k} ELSE known \cup {k},
           last_known' = [last_known EXCEPT ![k] = v],
           UNCHANGED <<popped, items, index>>
    PROVE  Inv'
<1> DEFINE r == Coalesce(queues[k], d)
<1>1. queues \in [Keys -> Seq(Delta)] /\ queues[k] \in Seq(Delta)
  BY DEF Inv, FifoTypeOK
<1>2. /\ r \in Seq(Delta) /\ r # <<>> /\ Result(r[Len(r)]) = v
      /\ DeltasOf(r, k)
  BY <1>1, CoalesceLast DEF Inv, Keyed
<1>3. queues' = [queues EXCEPT ![k] = r]
  BY DEF enqueue
<1> HIDE DEF r
<1>4. FifoTypeOK'
  <2>1. order' \in Seq(Keys)
    BY DEF Inv, FifoTypeOK, enqueue
  <2> QED
    BY <1>2, <1>3, <2>1 DEF Inv, FifoTypeOK
<1>5. queues'[k] = r /\ \A j \in Keys : j # k => queues'[j] = queues[j]
  BY <1>1, <1>3
<1>6. last_known'[k] = v /\ \A j \in Keys : j # k => last_known'[j] = last_known[j]
  BY DEF Inv, FifoTypeOK
<1>7. Keyed'
  BY <1>2, <1>5, <1>6 DEF Inv, Keyed, DeltasOf
<1>8. \A j \in Keys : Pending(j)' = last_known'[j]
  BY <1>2, <1>5, <1>6 DEF Inv, CacheExact, Pending
<1>9. \A j \in Keys : j \in known' <=> last_known'[j] # NoObject
  BY <1>6 DEF Inv, CacheExact
<1>10. CacheExact'
  BY <1>8, <1>9 DEF Inv, CacheExact, Entries
<1> QED
  BY <1>4, <1>7, <1>10 DEF Inv

\* A relist leads every key to what was listed.
LEMMA Relist ==
    ASSUME Inv, NEW f \in Listings, replace(f)
    PROVE  Inv'
<1>1. /\ queues' = [k \in Keys |-> Relisted(f, k)]
      /\ known' = {k \in Keys : f[k] # NoObject}
      /\ last_known' = f
      /\ UNCHANGED <<popped, items, index>>
  BY DEF replace, store_vars
<1>2. f \in [Keys -> Maybe] /\ \A k \in Keys : f[k] # NoObject => KeyOf(f[k]) = k
  BY DEF Listings, Maybe
<1>3. ASSUME NEW k \in Keys
      PROVE  /\ Relisted(f, k) \in Seq(Delta)
             /\ DeltasOf(Relisted(f, k), k)
             /\ IF Relisted(f, k) # <<>>
                THEN Result(Relisted(f, k)[Len(Relisted(f, k))]) = f[k]
                ELSE queues[k] = <<>> /\ f[k] = last_known[k]
  <2>1. queues[k] \in Seq(Delta) /\ DeltasOf(queues[k], k) /\ last_known[k] \in Maybe
    BY DEF Inv, FifoTypeOK, Keyed
  <2>2. CASE f[k] # NoObject
    <3> DEFINE d == [delta_type |-> "Sync", object |-> f[k]]
    <3>1. d \in Delta /\ Result(d) = f[k] /\ KeyOf(d.object) = k
      BY <1>2, <2>2 DEF Delta, DeltaType, Result, Maybe
    <3>2. Relisted(f, k) = Coalesce(queues[k], d)
      BY <2>2 DEF Relisted
    <3> HIDE DEF d
    <3> QED
      BY ZenonT(60), <2>1, <3>1, <3>2, CoalesceLast
  <2>3. CASE f[k] = NoObject /\ k \in known
    <3> DEFINE d == [delta_type |-> "Deleted", object |-> last_known[k]]
    <3>1. last_known[k] # NoObject /\ KeyOf(last_known[k]) = k
      BY <2>3 DEF Inv, CacheExact, Keyed
    <3>2. d \in Delta /\ Result(d) = NoObject /\ KeyOf(d.object) = k
      BY <2>1, <3>1 DEF Delta, DeltaType, Result, Maybe
    <3>3. Relisted(f, k) = Coalesce(queues[k], d)
      BY <2>3 DEF Relisted
    <3> HIDE DEF d
    <3>4. /\ Relisted(f, k) \in Seq(Delta) /\ Relisted(f, k) # <<>>
          /\ Result(Relisted(f, k)[Len(Relisted(f, k))]) = NoObject
          /\ DeltasOf(Relisted(f, k), k)
      BY ZenonT(60), <2>1, <3>2, <3>3, CoalesceLast
    <3> QED
      BY <2>3, <3>4
  <2>4. CASE f[k] = NoObject /\ k \notin known
    <3>1. Relisted(f, k) = queues[k]
      BY <2>4 DEF Relisted
    <3>2. last_known[k] = NoObject /\ Pending(k) = NoObject
      BY <2>4 DEF Inv, CacheExact
    <3>3. CASE queues[k] = <<>>
      BY <2>1, <2>4, <3>1, <3>2, <3>3
    <3>4. CASE queues[k] # <<>>
      <4>1. Result(queues[k][Len(queues[k])]) = NoObject
        BY <3>2, <3>4 DEF Pending
      <4> QED
        BY <2>1, <2>4, <3>1, <3>4, <4>1
    <3> QED
      BY <3>3, <3>4
  <2> QED
    BY <2>2, <2>3, <2>4
<1>4. order' \in Seq(Keys)
  <2> DEFINE S == {k \in Keys : queues[k] = <<>> /\ Relisted(f, k) # <<>>}
  <2>1. PICK s \in Orders(S) : order' = order \o s
    BY Zenon DEF replace
  <2>2. Cardinality(S) \in Nat
    BY KeysAssumption, FS_Subset, FS_CardinalityType
  <2>3. s \in [1 .. Cardinality(S) -> S]
    BY DEF Orders
  <2>4. s \in [1 .. Cardinality(S) -> Keys]
    BY <2>3
  <2> HIDE DEF S
  <2>5. s \in Seq(Keys)
    BY <2>2, <2>4
  <2> QED
    BY <2>1, <2>5 DEF Inv, FifoTypeOK
<1>5. \A k \in Keys : queues'[k] = Relisted(f, k)
  BY <1>1
<1>6. FifoTypeOK'
  BY <1>1, <1>2, <1>3, <1>4 DEF Inv, FifoTypeOK
<1>7. Keyed'
  BY <1>1, <1>2, <1>3, <1>5 DEF Inv, Keyed, DeltasOf
<1>8. \A k \in Keys : Pending(k)' = f[k]
  BY <1>1, <1>3, <1>5 DEF Inv, CacheExact, Pending
<1>9. CacheExact'
  BY <1>1, <1>8 DEF Inv, CacheExact, Entries
<1> QED
  BY <1>6, <1>7, <1>9 DEF Inv

\* pop hands the deltas of a key out, and what they lead to with them.
LEMMA Popping ==
    ASSUME Inv, pop
    PROVE  Inv'
<1>0. PICK k : k = Head(order)
  OBVIOUS
<1>1. /\ popped = <<>> /\ order # <<>>
      /\ popped' = queues[k]
      /\ queues' = [queues EXCEPT ![k] = <<>>]
      /\ order' = Tail(order)
      /\ UNCHANGED <<known, last_known, items, index>>
  BY <1>0 DEF pop, store_vars
<1>2. k \in Keys /\ order' \in Seq(Keys)
  BY <1>0, <1>1 DEF Inv, FifoTypeOK
<1>3. /\ queues'[k] = <<>>
      /\ \A j \in Keys : j # k => queues'[j] = queues[j]
      /\ queues[k] \in Seq(Delta)
  BY <1>1, <1>2 DEF Inv, FifoTypeOK
<1>4. FifoTypeOK'
  BY <1>1, <1>2, <1>3 DEF Inv, FifoTypeOK
<1>5. DeltasOf(queues[k], k)
  BY <1>2 DEF Inv, Keyed
<1>6. popped' # <<>> => KeyOf(popped'[Len(popped')].object) = k
  BY <1>1, <1>3, <1>5 DEF DeltasOf
<1>7. DeltasOf(<<>>, k)
  BY DEF DeltasOf
<1>8. Keyed'
  BY <1>1, <1>3, <1>5, <1>6, <1>7 DEF Inv, Keyed, DeltasOf
<1>9. Pending(k)' = Pending(k)
  BY <1>1, <1>3, <1>6 DEF Pending
<1>10. \A j \in Keys : j # k => Pending(j)' = Pending(j)
  BY <1>1, <1>3, <1>6 DEF Pending
<1>11. CacheExact'
  BY <1>1, <1>9, <1>10 DEF Inv, CacheExact, Entries
<1> QED
  BY <1>4, <1>8, <1>11 DEF Inv

\* Applying a delta changes its key only, in the store and in the indices.
LEMMA Application ==
    ASSUME Inv, apply_delta
    PROVE  Inv'
<1>0. PICK d, k, v : d = Head(popped) /\ k = KeyOf(d.object) /\ v = Result(d)
  OBVIOUS
<1>1. /\ popped # <<>>
      /\ items' = [items EXCEPT ![k] = v]
      /\ index' = [x \in IndexEntries |->
                      {j \in index[x] : ~(j = k /\ x \in Entries(items[k]))}
                          \cup {j \in {k} : x \in Entries(v)}]
      /\ popped' = Tail(popped)
      /\ UNCHANGED <<queues, order, known, last_known>>
  BY <1>0 DEF apply_delta, SetItem, fifo_vars
<1>2. /\ popped \in Seq(Delta) /\ d \in Delta /\ d = popped[1]
      /\ popped' \in Seq(Delta) /\ Len(popped') = Len(popped) - 1
      /\ \A i \in 1 .. Len(popped') : popped'[i] = popped[i + 1]
  BY <1>0, <1>1 DEF Inv, FifoTypeOK
<1>3. k \in Keys /\ v \in Maybe
  BY <1>0, <1>2, KeyOfAssumption DEF Delta, Result, Maybe
<1>4. DeltasOf(popped, k)
  BY <1>0, <1>1, <1>2 DEF Inv, Keyed, DeltasOf
<1>5. items'[k] = v /\ \A j \in Keys : j # k => items'[j] = items[j]
  BY <1>1, <1>3 DEF Inv, FifoTypeOK
<1>6. FifoTypeOK'
  <2>1. index' \in [IndexEntries -> SUBSET Keys]
    BY <1>1, <1>3 DEF Inv, FifoTypeOK
  <2>2. items' \in [Keys -> Maybe]
    BY <1>1, <1>3 DEF Inv, FifoTypeOK
  <2> QED
    BY <1>1, <1>2, <2>1, <2>2 DEF Inv, FifoTypeOK
<1>7. popped' # <<>> => /\ popped'[Len(popped')] = popped[Len(popped)]
                        /\ KeyOf(popped[Len(popped)].object) = k
                        /\ DeltasOf(popped', k)
  BY <1>1, <1>2, <1>4 DEF DeltasOf
<1>8. Keyed'
  BY <1>1, <1>7 DEF Inv, Keyed, DeltasOf
<1>9. \A j \in Keys : j # k => Pending(j)' = Pending(j)
  <2>1. KeyOf(popped[Len(popped)].object) = k
    BY <1>1, <1>2, <1>4 DEF DeltasOf
  <2> QED
    BY <1>1, <1>5, <1>7, <2>1 DEF Pending
<1>10. Pending(k)' = Pending(k)
  <2>1. CASE popped' = <<>>
    <3>1. Len(popped) = 1
      BY <1>2, <2>1
    <3>2. popped[Len(popped)] = d /\ KeyOf(d.object) = k
      BY <1>0, <1>2, <3>1
    <3> QED
      BY <1>0, <1>1, <1>5, <2>1, <3>2 DEF Pending
  <2>2. CASE popped' # <<>>
    BY <1>1, <1>7, <2>2 DEF Pending
  <2> QED
    BY <2>1, <2>2
<1>11. \A x \in IndexEntries : index'[x] = {j \in Keys : x \in Entries(items'[j])}
  <2> SUFFICES ASSUME NEW x \in IndexEntries
               PROVE  index'[x] = {j \in Keys : x \in Entries(items'[j])}
    OBVIOUS
  <2>1. index[x] = {j \in Keys : x \in Entries(items[j])}
    BY DEF Inv, CacheExact
  <2>2. index'[x] = {j \in index[x] : ~(j = k /\ x \in Entries(items[k]))}
                        \cup {j \in {k} : x \in Entries(v)}
    BY <1>1
  <2> QED
    BY <1>3, <1>5, <2>1, <2>2
<1>12. CacheExact'
  <2>1. \A j \in Keys : Pending(j)' = last_known'[j]
    BY <1>1, <1>9, <1>10 DEF Inv, CacheExact
  <2> QED
    BY <1>1, <1>11, <2>1 DEF Inv, CacheExact, Entries
<1> QED
  BY <1>6, <1>8, <1>12 DEF Inv

-----------------------------------------------------------------------------

\* Every reachable state satisfies Inv.
THEOREM Invariance == InformerSpec => []Inv
<1>1. InformerInit => Inv
  <2> SUFFICES ASSUME InformerInit PROVE Inv
    OBVIOUS
  <2>1. FifoTypeOK
    BY DEF InformerInit, FifoTypeOK, Maybe
  <2>2. Keyed
    BY DEF InformerInit, Keyed, DeltasOf
  <2>3. CacheExact
    BY DEF InformerInit, CacheExact, Pending, Entries
  <2> QED
    BY <2>1, <2>2, <2>3 DEF Inv
<1>2. Inv /\ [InformerNext]_informer_vars => Inv'
  <2> SUFFICES ASSUME Inv, [InformerNext]_informer_vars PROVE Inv'
    OBVIOUS
  <2>1. ASSUME NEW type \in {"Added", "Updated"}, NEW o \in Objects, Observe(type, o)
        PROVE  Inv'
    <3> DEFINE d == [delta_type |-> type, object |-> o]
    <3>1. d \in Delta /\ d.object = o /\ Result(d) = o /\ o \in Maybe /\ o # NoObject
      BY NoObjectAssumption DEF Delta, DeltaType, Result, Maybe
    <3>2. KeyOf(o) \in Keys
      BY KeyOfAssumption
    <3>3. /\ enqueue(KeyOf(o), d)
          /\ known' = known \cup {KeyOf(o)}
          /\ last_known' = [last_known EXCEPT ![KeyOf(o)] = o]
          /\ UNCHANGED <<popped, items, index>>
      BY <2>1 DEF Observe, store_vars
    <3> HIDE DEF d
    <3> QED
      BY Zenon, <3>1, <3>2, <3>3, Observation
  <2>2. ASSUME NEW o \in Objects, ObserveDelete(o) PROVE Inv'
    <3> DEFINE d == [delta_type |-> "Deleted", object |-> o]
    <3>1. d \in Delta /\ d.object = o /\ Result(d) = NoObject /\ NoObject \in Maybe
      BY DEF Delta, DeltaType, Result, Maybe
    <3>2. KeyOf(o) \in Keys
      BY KeyOfAssumption
    <3>3. /\ enqueue(KeyOf(o), d)
          /\ known' = known \ {KeyOf(o)}
          /\ last_known' = [last_known EXCEPT ![KeyOf(o)] = NoObject]
          /\ UNCHANGED <<popped, items, index>>
      BY <2>2 DEF ObserveDelete, store_vars
    <3> HIDE DEF d
    <3> QED
      BY Zenon, <3>1, <3>2, <3>3, Observation
  <2>3. ASSUME NEW f \in Listings, replace(f) PROVE Inv'
    BY <2>3, Relist
  <2>4. CASE pop
    BY <2>4, Popping
  <2>5. CASE apply_delta
    BY <2>5, Application
  <2>6. CASE UNCHANGED informer_vars
    BY <2>6 DEF informer_vars, Inv, FifoTypeOK, Keyed, DeltasOf, CacheExact, Pending, Entries
  <2> QED
    BY <2>1, <2>2, <2>3, <2>4, <2>5, <2>6 DEF InformerNext
<1> QED
  BY <1>1, <1>2, PTL DEF InformerSpec

\* Once everything pending is applied the cache is the last observation of
\* every key, and the indices match the store at all times: informer.rs
\* DeltaFifo, Store and apply_delta.
THEOREM CacheIsExact == InformerSpec => []CacheExact
BY Invariance, PTL DEF Inv

=============================================================================
