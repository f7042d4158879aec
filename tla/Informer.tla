------------------------------ MODULE Informer ------------------------------
(***************************************************************************)
(* The informer cache of cave-home-controller-manager-rs (informer.rs): a  *)
(* DeltaFifo that a caller feeds with what it observed, and an indexed     *)
(* Store that the popped deltas are applied to, one by one.                *)
(*                                                                         *)
(* Maps over keys are total functions: NoObject stands for an absent entry *)
(* of a map of objects, <<>> for an absent queue.                          *)
(***************************************************************************)
EXTENDS Integers, Sequences, FiniteSets

CONSTANTS
    Keys,         \* "namespace/name"
    Objects,      \* observed objects
    KeyOf(_),     \* Object::key
    IndexKeys(_), \* the index entries of an object: its namespace, its labels
    IndexEntries, \* all index entries
    NoObject

ASSUME KeysAssumption == IsFiniteSet(Keys)
ASSUME NoObjectAssumption == NoObject \notin Objects
ASSUME KeyOfAssumption == \A o \in Objects : KeyOf(o) \in Keys
ASSUME IndexAssumption == \A o \in Objects : IndexKeys(o) \subseteq IndexEntries

VARIABLES
    queues,      \* DeltaFifo.queues
    order,       \* DeltaFifo.order
    known,       \* DeltaFifo.known
    last_known,  \* DeltaFifo.last_known
    popped,      \* deltas popped and not applied yet
    items,       \* Store.items
    index        \* Store.by_namespace and Store.by_label

fifo_vars == <<queues, order, known, last_known>>
store_vars == <<items, index>>
informer_vars == <<queues, order, known, last_known, popped, items, index>>

DeltaType == {"Added", "Updated", "Deleted", "Sync"}
Delta == [delta_type : DeltaType, object : Objects]

-----------------------------------------------------------------------------
(* DeltaFifo.                                                              *)

\* A delta joins the queue of its key; after an add, update or sync, another
\* of these only replaces the object.
Coalesce(q, d) ==
    IF q # <<>> /\ q[Len(q)].delta_type # "Deleted" /\ d.delta_type # "Deleted"
    THEN [q EXCEPT ![Len(q)] =
            [delta_type |-> IF d.delta_type = "Updated" THEN "Updated" ELSE @.delta_type,
             object |-> d.object]]
    ELSE Append(q, d)

enqueue(k, d) ==
    /\ queues' = [queues EXCEPT ![k] = Coalesce(@, d)]
    /\ order' = IF queues[k] = <<>> THEN Append(order, k) ELSE order

\* add and update differ in the delta's type only.
Observe(type, o) ==
    LET k == KeyOf(o)
    IN  /\ known' = known \cup {k}
        /\ last_known' = [last_known EXCEPT ![k] = o]
        /\ enqueue(k, [delta_type |-> type, object |-> o])
        /\ UNCHANGED <<popped, store_vars>>

ObserveDelete(o) ==
    LET k == KeyOf(o)
    IN  /\ known' = known \ {k}
        /\ last_known' = [last_known EXCEPT ![k] = NoObject]
        /\ enqueue(k, [delta_type |-> "Deleted", object |-> o])
        /\ UNCHANGED <<popped, store_vars>>

\* The listings a relist may bring: by key, NoObject for a key without object.
Listings == {f \in [Keys -> Objects \cup {NoObject}] :
                \A k \in Keys : f[k] # NoObject => KeyOf(f[k]) = k}

\* Mutant of Relisted: vanished keys are not noticed.
RelistedOnly(f, k) ==
    IF f[k] # NoObject
    THEN Coalesce(queues[k], [delta_type |-> "Sync", object |-> f[k]])
    ELSE queues[k]

\* What a relist makes of the queue of k: a Sync for a listed object, a Deleted
\* with the last known content for a known key that is not listed.
Relisted(f, k) ==
    IF f[k] # NoObject
    THEN Coalesce(queues[k], [delta_type |-> "Sync", object |-> f[k]])
    ELSE IF k \in known
    THEN Coalesce(queues[k], [delta_type |-> "Deleted", object |-> last_known[k]])
    ELSE queues[k]

\* The orders in which the keys of S can be queued: the code goes through the
\* vanished keys and then through the list, the model tries every order.
Orders(S) == {s \in [1 .. Cardinality(S) -> S] : \A i, j \in DOMAIN s : s[i] = s[j] => i = j}

replace(f) ==
    /\ queues' = [k \in Keys |-> Relisted(f, k)]
    /\ \E s \in Orders({k \in Keys : queues[k] = <<>> /\ Relisted(f, k) # <<>>}) :
            order' = order \o s
    /\ known' = {k \in Keys : f[k] # NoObject}
    /\ last_known' = f
    /\ UNCHANGED <<popped, store_vars>>

\* The oldest key's deltas, for the caller to apply.
pop ==
    /\ popped = <<>>
    /\ order # <<>>
    /\ popped' = queues[Head(order)]
    /\ queues' = [queues EXCEPT ![Head(order)] = <<>>]
    /\ order' = Tail(order)
    /\ UNCHANGED <<known, last_known, store_vars>>

-----------------------------------------------------------------------------
(* Store.                                                                  *)

Entries(o) == IF o = NoObject THEN {} ELSE IndexKeys(o)

\* upsert and remove: deindex the old object of k, index the new one.
SetItem(k, o) ==
    /\ items' = [items EXCEPT ![k] = o]
    /\ index' = [x \in IndexEntries |->
                    {j \in index[x] : ~(j = k /\ x \in Entries(items[k]))}
                        \cup {j \in {k} : x \in Entries(o)}]

\* What a delta makes of its object.
Result(d) == IF d.delta_type = "Deleted" THEN NoObject ELSE d.object

\* The caller applies the next of the popped deltas.
apply_delta ==
    /\ popped # <<>>
    /\ SetItem(KeyOf(Head(popped).object), Result(Head(popped)))
    /\ popped' = Tail(popped)
    /\ UNCHANGED fifo_vars

-----------------------------------------------------------------------------
InformerInit ==
    /\ queues = [k \in Keys |-> <<>>]
    /\ order = <<>>
    /\ known = {}
    /\ last_known = [k \in Keys |-> NoObject]
    /\ popped = <<>>
    /\ items = [k \in Keys |-> NoObject]
    /\ index = [x \in IndexEntries |-> {}]

InformerNext ==
    \/ \E type \in {"Added", "Updated"}, o \in Objects : Observe(type, o)
    \/ \E o \in Objects : ObserveDelete(o)
    \/ \E f \in Listings : replace(f)
    \/ pop
    \/ apply_delta

InformerSpec == InformerInit /\ [][InformerNext]_informer_vars

-----------------------------------------------------------------------------
(* Properties.                                                             *)

\* What the cache will hold for k once everything queued and popped is applied.
Pending(k) ==
    IF queues[k] # <<>> THEN Result(queues[k][Len(queues[k])])
    ELSE IF popped # <<>> /\ KeyOf(popped[Len(popped)].object) = k
    THEN Result(popped[Len(popped)])
    ELSE items[k]

\* Coalescing, relists and pops in between lose nothing: for every key, what is
\* still to be applied leads the cache to the last observation, and the indices
\* "are kept consistent on every mutation".
CacheExact ==
    /\ \A k \in Keys : Pending(k) = last_known[k] /\ (k \in known <=> last_known[k] # NoObject)
    /\ \A x \in IndexEntries : index[x] = {k \in Keys : x \in Entries(items[k])}

=============================================================================
