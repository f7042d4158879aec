---------------------------- MODULE ApiRegistry ----------------------------
(***************************************************************************)
(* The API server's object store: registry.rs behind the dispatch of       *)
(* handler.rs.  serve_stream runs one request at a time under the server's *)
(* mutex, so each request is one step; a client's read-modify-write is two *)
(* requests, and those of others run in between.                           *)
(*                                                                         *)
(* One resource is modelled: the version counter is shared, the stores and *)
(* histories of two resources are otherwise independent.  An object is its *)
(* metadata and opaque spec and status; label stands for the label map and *)
(* deletion for the deletionTimestamp, which names the version it was set  *)
(* at (0: none).  The store files an object under the key of the request   *)
(* that wrote it; the name in its metadata is the same unless a patch of   *)
(* the registry's own (patch_merge) gave it another.  The event history of *)
(* the code is in the order of its versions, so the model keeps a set.     *)
(***************************************************************************)
EXTENDS Integers, FiniteSets

CONSTANTS
    Names,    \* object keys and names, "namespace/name", in the order of the list
    Bodies,   \* what clients submit: [spec, status, label, finalizers]
    Patches,  \* what patch_merge is given: a body, and the name and the
              \* deletionTimestamp it sets (the empty set: left alone)
    Clients,  \* clients that read, modify and write back
    MaxRv     \* bound: the last resource version the model hands out

ASSUME NamesAssumption == Names \subseteq Nat
ASSUME PatchesAssumption ==
    Patches \subseteq [body : Bodies, name : SUBSET Names, deletion : SUBSET Nat]
ASSUME MaxRvAssumption == MaxRv \in Nat

VARIABLES
    rv,       \* Registry.rv
    uid_seq,  \* Registry.uid_seq
    objs,     \* Registry.stores: at most one object per key
    history,  \* Registry.history: the watch events
    copies,   \* per client: the object it read last, if any
    writes,   \* history variable: the guarded writes that went through
    patched   \* history variable: the versions apply_patched made

registry_vars == <<rv, uid_seq, objs, history>>
api_vars == <<rv, uid_seq, objs, history, copies, writes, patched>>

get(n) == {o \in objs : o.key = n}

Fields(o, b) == [o EXCEPT !.spec = b.spec, !.status = b.status, !.label = b.label,
                          !.finalizers = b.finalizers]

\* next_rv, the store's insert or remove, and record.
Record(kind, S, o) ==
    /\ rv < MaxRv
    /\ rv' = rv + 1
    /\ objs' = S
    /\ history' = history \cup {[kind |-> kind, object |-> o, resource_version |-> rv + 1]}

\* An object takes the place of the one under its key.
Put(kind, o) == Record(kind, {p \in objs : p.key # o.key} \cup {o}, o)

-----------------------------------------------------------------------------
(* Requests.                                                               *)

create(n, b) ==
    /\ get(n) = {}
    /\ uid_seq' = uid_seq + 1
    /\ Put("Added", [key |-> n, name |-> n, uid |-> uid_seq + 1, resource_version |-> rv + 1,
                     generation |-> 1, deletion |-> 0, spec |-> b.spec,
                     status |-> b.status, label |-> b.label,
                     finalizers |-> b.finalizers])
    /\ UNCHANGED <<copies, writes, patched>>

Get(c, n) ==
    /\ copies' = [copies EXCEPT ![c] = get(n)]
    /\ UNCHANGED <<registry_vars, writes, patched>>

\* Mutant of Replaced: the deletion is not carried over.
ReplacedUndeleted(o, b) ==
    [Fields(o, b) EXCEPT !.resource_version = rv + 1, !.deletion = 0,
                         !.generation = IF o.spec # b.spec THEN @ + 1 ELSE @]

\* What update stores for a submission b over the current object o: the
\* body, with the server-owned metadata of o and a new version.
Replaced(o, b) ==
    [Fields(o, b) EXCEPT !.resource_version = rv + 1,
                         !.generation = IF o.spec # b.spec THEN @ + 1 ELSE @]

\* Mutant of Current: versions are not compared.
CurrentName(p, o) == p.name = o.key

\* Optimistic concurrency: the version of the copy must be the one stored under
\* its name.
Current(p, o) == p.name = o.key /\ p.resource_version = o.resource_version

Wrote(p, o) ==
    writes' = writes \cup {[base |-> p.resource_version, uid |-> o.uid, was |-> p.uid,
                            resource_version |-> rv + 1]}

\* PUT of a body built on the client's copy; a conflict changes nothing.
update(c, b) ==
    \E p \in copies[c], o \in objs :
        /\ Current(p, o)
        /\ Put("Modified", Replaced(o, b))
        /\ Wrote(p, o)
        /\ UNCHANGED <<uid_seq, copies, patched>>

\* PUT of the status subresource: only .status survives.
update_status(c, b) ==
    \E p \in copies[c], o \in objs :
        /\ Current(p, o)
        /\ Put("Modified", [o EXCEPT !.status = b.status, !.resource_version = rv + 1])
        /\ Wrote(p, o)
        /\ UNCHANGED <<uid_seq, copies, patched>>

\* PATCH of handler.rs: get, merge, update inside one request.  The merged
\* object carries the stored name and version unless the patch names others,
\* which conflicts.
patch(n, b) ==
    \E p \in get(n), o \in objs :
        /\ Current(p, o)
        /\ Put("Modified", Replaced(o, b))
        /\ UNCHANGED <<uid_seq, copies, writes, patched>>

\* The name and the deletion of o after the patch d.
Named(o, d) == IF d.name = {} THEN {o.name} ELSE d.name
Dated(o, d) == IF d.deletion = {} THEN {o.deletion} ELSE d.deletion

\* patch_merge and patch_json, the PATCH of the binary's REST server and the
\* writes of its pod loop: apply_patched compares no version and keeps of the
\* stored object only its key, its uid and its generation.
patch_merge(n, d) ==
    \E o \in get(n) : \E m \in Named(o, d), t \in Dated(o, d) :
        /\ Put("Modified", [Replaced(o, d.body) EXCEPT !.name = m, !.deletion = t])
        /\ patched' = patched \cup {rv + 1}
        /\ UNCHANGED <<uid_seq, copies, writes>>

\* DELETE: with finalizers the object is marked, once; without, it goes.  The
\* Deleted event carries the object as it was stored.
delete(n) ==
    /\ \E o \in get(n) :
         IF o.finalizers # {}
         THEN /\ o.deletion = 0
              /\ Put("Modified", [o EXCEPT !.deletion = rv + 1, !.resource_version = rv + 1])
         ELSE Record("Deleted", objs \ {o}, o)
    /\ UNCHANGED <<uid_seq, copies, writes, patched>>

\* WATCH replay.
watch_since(after) == {e \in history : e.resource_version > after}

-----------------------------------------------------------------------------
ApiInit ==
    /\ rv = 0
    /\ uid_seq = 0
    /\ objs = {}
    /\ history = {}
    /\ copies = [c \in Clients |-> {}]
    /\ writes = {}
    /\ patched = {}

ApiNext ==
    \/ \E n \in Names, b \in Bodies : create(n, b)
    \/ \E c \in Clients, n \in Names : Get(c, n)
    \/ \E c \in Clients, b \in Bodies : update(c, b)
    \/ \E c \in Clients, b \in Bodies : update_status(c, b)
    \/ \E n \in Names, b \in Bodies : patch(n, b)
    \/ \E n \in Names, d \in Patches : patch_merge(n, d)
    \/ \E n \in Names : delete(n)

ApiSpec == ApiInit /\ [][ApiNext]_api_vars

-----------------------------------------------------------------------------
(* Properties.                                                             *)

\* A read-modify-write loses nothing: between the version a client built its
\* write on and the version the write made, nobody else changed the object,
\* and it is the same object, not a later one of the same name (registry.rs:
\* "the client must supply the current rv").
NoLostUpdate ==
    \A w \in writes :
        /\ w.was = w.uid
        /\ \A e \in history :
             e.object.uid = w.uid =>
                 e.resource_version <= w.base \/ e.resource_version >= w.resource_version

\* apply_patched wrote the object u after version v, up to version w.
Repatched(u, v, w) ==
    \E g \in history :
        /\ g.object.uid = u
        /\ g.resource_version \in patched
        /\ v < g.resource_version /\ g.resource_version <= w

\* The life of an object, by its uid: its generation "is bumped only on spec
\* mutations", so equal generations mean equal specs; its key stays; its name
\* stays, and a deletion, once asked for, is never taken back by a later
\* version, unless apply_patched wrote the object in between: update,
\* update_status, the handler's patch and delete keep both.  The life ends with
\* a Deleted event, which waits for the finalizers and which no other event
\* follows.
LifeCycle ==
    \A e, f \in history :
        (e.object.uid = f.object.uid /\ e.resource_version < f.resource_version) =>
            LET o == e.object  p == f.object
            IN  /\ o.key = p.key
                /\ o.generation = p.generation => o.spec = p.spec
                /\ o.generation # p.generation => o.generation < p.generation
                /\ \/ o.name = p.name /\ (o.deletion # 0 => p.deletion = o.deletion)
                   \/ Repatched(p.uid, e.resource_version, f.resource_version)
                /\ e.kind # "Deleted"
                /\ f.kind = "Deleted" => p.finalizers = {}

\* registry.rs says of patch_merge that it runs the patched object "through the
\* same concurrency + generation path as update", which keeps the name and the
\* deletion of an object.
PatchKeepsIdentity ==
    \A e, f \in history :
        (e.object.uid = f.object.uid /\ e.resource_version < f.resource_version) =>
            /\ e.object.name = f.object.name
            /\ e.object.deletion # 0 => f.object.deletion = e.object.deletion

=============================================================================
