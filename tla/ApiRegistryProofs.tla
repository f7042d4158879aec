------------------------- MODULE ApiRegistryProofs -------------------------
(***************************************************************************)
(* The registry's guarantees for any names, bodies, clients and number of  *)
(* versions.                                                               *)
(***************************************************************************)
EXTENDS ApiRegistry, TLAPS

Object == [key : Names, name : Names, uid : Nat, resource_version : Nat, generation : Nat,
           deletion : Nat, spec : {b.spec : b \in Bodies},
           status : {b.status : b \in Bodies}, label : {b.label : b \in Bodies},
           finalizers : {b.finalizers : b \in Bodies}]

Event == [kind : {"Added", "Modified", "Deleted"}, object : Object, resource_version : Nat]

ApiTypeOK ==
    /\ rv \in Nat
    /\ uid_seq \in Nat
    /\ objs \subseteq Object
    /\ history \subseteq Event
    /\ copies \in [Clients -> SUBSET Object]
    /\ writes \subseteq [base : Nat, uid : Nat, was : Nat, resource_version : Nat]
    /\ patched \subseteq Nat

\* The stored objects differ in key and in uid.
Distinct ==
    \A o, p \in objs : o.key = p.key \/ o.uid = p.uid => o = p

\* A version names one event, a used uid is never handed out again.
Versioned ==
    /\ \A e \in history : e.resource_version <= rv /\ e.object.uid <= uid_seq
    /\ \A e, f \in history : e.resource_version = f.resource_version => e = f
    /\ \A o \in objs : o.uid <= uid_seq /\ o.resource_version <= rv
    /\ \A w \in writes : w.resource_version <= rv

\* o was stored by the event of its version.
Stored(o) == \E e \in history : e.object = o /\ e.resource_version = o.resource_version

Sourced ==
    /\ \A o \in objs : Stored(o)
    /\ \A c \in Clients : \A p \in copies[c] : Stored(p)

\* A later state of the same object.
Later(o, p) ==
    /\ o.key = p.key
    /\ o.generation = p.generation => o.spec = p.spec
    /\ o.generation <= p.generation

\* What every request except patch_merge keeps.
Kept(o, p) == o.name = p.name /\ (o.deletion # 0 => p.deletion = o.deletion)

\* Repatched, of the events H and the versions V.
PatchIn(H, V, u, v, w) ==
    \E g \in H : /\ g.object.uid = u
                 /\ g.resource_version \in V
                 /\ v < g.resource_version /\ g.resource_version <= w

\* A stored object is the last state of its uid.
Last ==
    \A o \in objs, e \in history : e.object.uid = o.uid =>
        /\ e.resource_version <= o.resource_version
        /\ e.kind # "Deleted"
        /\ Later(e.object, o)
        /\ \/ Kept(e.object, o)
           \/ PatchIn(history, patched, o.uid, e.resource_version, o.resource_version)

Inv == ApiTypeOK /\ Distinct /\ Versioned /\ Sourced /\ Last /\ NoLostUpdate /\ LifeCycle

-----------------------------------------------------------------------------

\* Later events and versions leave a patch in its place.
LEMMA PatchKept ==
    ASSUME NEW H \in SUBSET Event, NEW K, H \subseteq K, NEW V, NEW X, V \subseteq X,
           NEW u, NEW v \in Nat, NEW w \in Nat, NEW x \in Nat, w <= x,
           PatchIn(H, V, u, v, w)
    PROVE  PatchIn(K, X, u, v, x)
<1>1. PICK g \in H : /\ g.object.uid = u
                     /\ g.resource_version \in V
                     /\ v < g.resource_version /\ g.resource_version <= w
  BY DEF PatchIn
<1>2. g.resource_version \in Nat
  BY DEF Event
<1>3. g \in K /\ g.resource_version \in X /\ g.resource_version <= x
  BY <1>1, <1>2
<1> QED
  BY <1>1, <1>3 DEF PatchIn

\* A stored object o gives way to its next state p (update, the patches, the
\* status subresource, the mark of a deletion); W are the guarded writes and V
\* the versions of apply_patched it makes.
LEMMA Replacement ==
    ASSUME Inv, NEW o \in objs, NEW p \in Object, NEW W, NEW V,
           p.uid = o.uid, p.resource_version = rv + 1, Later(o, p),
           Kept(o, p) \/ rv + 1 \in V,
           V \subseteq {rv + 1}, patched' = patched \cup V,
           Put("Modified", p),
           W \subseteq {[base |-> o.resource_version, uid |-> o.uid, was |-> o.uid,
                         resource_version |-> rv + 1]},
           writes' = writes \cup W, UNCHANGED <<uid_seq, copies>>
    PROVE  Inv'
<1> DEFINE new == [kind |-> "Modified", object |-> p, resource_version |-> rv + 1]
<1>1. /\ rv' = rv + 1
      /\ objs' = {q \in objs : q.key # p.key} \cup {p}
      /\ history' = history \cup {new}
  BY DEF Put, Record
<1>2. o \in Object /\ rv \in Nat /\ new \in Event /\ history \subseteq Event /\ objs \subseteq Object
  BY DEF Inv, ApiTypeOK, Event
<1>3. \A q \in objs : q.key # p.key => q.uid # o.uid
  BY <1>2 DEF Inv, Distinct, Later
<1>4. ApiTypeOK'
  BY <1>1, <1>2 DEF Inv, ApiTypeOK, Object
<1>5. Distinct'
  BY <1>1, <1>3 DEF Inv, Distinct
<1>6. Versioned'
  <2>1. \A e \in history' : e.resource_version <= rv' /\ e.object.uid <= uid_seq'
    BY <1>1, <1>2 DEF Inv, Versioned, Event, Object
  <2>2. \A e, f \in history' : e.resource_version = f.resource_version => e = f
    BY <1>1, <1>2 DEF Inv, Versioned, Event
  <2>3. \A q \in objs' : q.uid <= uid_seq' /\ q.resource_version <= rv'
    BY <1>1, <1>2 DEF Inv, Versioned, Object
  <2>4. \A w \in writes' : w.resource_version <= rv'
    BY <1>1, <1>2 DEF Inv, Versioned, ApiTypeOK
  <2> QED
    BY <2>1, <2>2, <2>3, <2>4 DEF Versioned
<1>7. Sourced'
  <2>1. new.object = p /\ new.resource_version = p.resource_version
    OBVIOUS
  <2>2. \A q \in objs' : Stored(q)'
    BY <1>1, <2>1, ZenonT(30) DEF Inv, Sourced, Stored
  <2>3. \A c \in Clients : \A q \in copies'[c] : Stored(q)'
    BY <1>1 DEF Inv, Sourced, Stored
  <2> QED
    BY <2>2, <2>3 DEF Sourced
<1>8. /\ history \subseteq history' /\ patched \subseteq patched'
       /\ \A q \in objs : q.resource_version \in Nat /\ q.resource_version <= rv
       /\ \A e \in history : e.resource_version \in Nat
  BY <1>1, <1>2 DEF Inv, Versioned, Object, Event
<1>9. ASSUME NEW e \in history, e.object.uid = o.uid
      PROVE  /\ Later(e.object, p)
             /\ Kept(e.object, p) \/ PatchIn(history', patched', p.uid, e.resource_version, rv + 1)
  <2>1. Later(e.object, p)
    BY <1>2, <1>9 DEF Inv, Last, Later, Event, Object
  <2>2. CASE rv + 1 \in V
    <3>1. new \in history' /\ new.object.uid = p.uid /\ new.resource_version = rv + 1
      BY <1>1
    <3>2. e.resource_version < rv + 1 /\ rv + 1 <= rv + 1
      BY <1>2, <1>8, <1>9 DEF Inv, Last
    <3>3. rv + 1 \in patched'
      BY <2>2
    <3> HIDE DEF new
    <3> QED
      BY <2>1, <3>1, <3>2, <3>3 DEF PatchIn
  <2>3. CASE Kept(o, p) /\ Kept(e.object, o)
    BY <2>1, <2>3 DEF Kept
  <2>4. CASE PatchIn(history, patched, o.uid, e.resource_version, o.resource_version)
    <3>1. PatchIn(history', patched', o.uid, e.resource_version, rv + 1)
      <4>1. rv + 1 \in Nat /\ o.resource_version <= rv + 1
        BY <1>2, <1>8
      <4> QED
        BY <2>4, <1>2, <1>8, <4>1, PatchKept
    <3> QED
      BY <2>1, <3>1
  <2> QED
    BY <2>2, <2>3, <2>4, <1>9 DEF Inv, Last
<1>10. Last'
  <2> SUFFICES ASSUME NEW q \in objs', NEW e \in history', e.object.uid = q.uid
               PROVE  /\ e.resource_version <= q.resource_version
                      /\ e.kind # "Deleted"
                      /\ Later(e.object, q)
                      /\ Kept(e.object, q)
                            \/ PatchIn(history', patched', q.uid, e.resource_version, q.resource_version)
    BY Zenon DEF Last, Later, Kept
  <2>1. CASE q \in objs /\ q.key # p.key
    <3>1. e \in history
      BY <2>1, <1>1, <1>3
    <3>2. PatchIn(history, patched, q.uid, e.resource_version, q.resource_version)
            => PatchIn(history', patched', q.uid, e.resource_version, q.resource_version)
      BY <2>1, <3>1, <1>2, <1>8, PatchKept
    <3> QED
      BY <2>1, <3>1, <3>2 DEF Inv, Last
  <2>2. CASE q = p
    <3>1. CASE e = new
      BY <2>2, <3>1, <1>2 DEF Later, Kept, Object
    <3>2. CASE e \in history
      <4>1. e.object.uid = o.uid
        BY <2>2
      <4>2. e.resource_version <= rv + 1 /\ e.kind # "Deleted"
        BY <3>2, <4>1, <1>2, SMTT(60) DEF Inv, Last, Versioned, Event
      <4> QED
        BY <2>2, <3>2, <4>1, <4>2, <1>9, Zenon
    <3> QED
      BY <3>1, <3>2, <1>1
  <2> QED
    BY <2>1, <2>2, <1>1
<1>11. NoLostUpdate'
  BY <1>1, <1>2 DEF Inv, NoLostUpdate, Last, Versioned, Event, Object, ApiTypeOK
<1>12. LifeCycle'
  <2> SUFFICES ASSUME NEW e \in history', NEW f \in history',
                      e.object.uid = f.object.uid, e.resource_version < f.resource_version
               PROVE  /\ Later(e.object, f.object)
                      /\ Kept(e.object, f.object)
                            \/ PatchIn(history', patched', f.object.uid, e.resource_version, f.resource_version)
                      /\ e.kind # "Deleted"
                      /\ f.kind = "Deleted" => f.object.finalizers = {}
    <3>1. \A e \in history' : e.object.generation \in Nat
      BY <1>1, <1>2 DEF Event, Object
    <3> QED
      BY <3>1 DEF LifeCycle, Later, Kept, Repatched, PatchIn
  <2>1. e \in history
    BY <1>1, <1>2 DEF Inv, Versioned, Event
  <2>2. CASE f \in history
    <3>1. e.object.generation \in Nat /\ f.object.generation \in Nat
      BY <2>1, <2>2, <1>2 DEF Event, Object
    <3>2. PatchIn(history, patched, f.object.uid, e.resource_version, f.resource_version)
            => PatchIn(history', patched', f.object.uid, e.resource_version, f.resource_version)
      BY <2>1, <2>2, <1>2, <1>8, PatchKept
    <3> QED
      BY <2>1, <2>2, <3>1, <3>2 DEF Inv, LifeCycle, Later, Kept, Repatched, PatchIn
  <2>3. CASE f = new
    <3>1. f.object = p /\ f.resource_version = rv + 1 /\ f.kind = "Modified"
      BY <2>3
    <3>2. e.object.uid = o.uid
      BY <3>1
    <3> QED
      BY <2>1, <3>1, <3>2, <1>9, Zenon DEF Inv, Last
  <2> QED
    BY <2>2, <2>3, <1>1
<1> QED
  BY <1>4, <1>5, <1>6, <1>7, <1>10, <1>11, <1>12 DEF Inv

\* create stores the first state of a new uid.
LEMMA Creation ==
    ASSUME Inv, NEW n \in Names, NEW b \in Bodies, create(n, b)
    PROVE  Inv'
<1> DEFINE p == [key |-> n, name |-> n, uid |-> uid_seq + 1, resource_version |-> rv + 1,
                 generation |-> 1, deletion |-> 0, spec |-> b.spec,
                 status |-> b.status, label |-> b.label, finalizers |-> b.finalizers]
           new == [kind |-> "Added", object |-> p, resource_version |-> rv + 1]
<1>1. rv \in Nat /\ uid_seq \in Nat /\ objs \subseteq Object /\ history \subseteq Event
  BY SMTT(60) DEF Inv, ApiTypeOK
<1>2. /\ p \in Object
      /\ p.key = n /\ p.uid = uid_seq + 1 /\ p.resource_version = rv + 1
      /\ new \in Event
      /\ new.object = p /\ new.resource_version = rv + 1 /\ new.kind = "Added"
  BY <1>1 DEF Object, Event
<1>3. /\ rv' = rv + 1 /\ uid_seq' = uid_seq + 1
      /\ objs' = objs \cup {p}
      /\ history' = history \cup {new}
      /\ UNCHANGED <<copies, writes, patched>>
      /\ \A q \in objs : q.key # n
  BY DEF create, get, Put, Record
<1> HIDE DEF p, new
<1>4. ApiTypeOK'
  BY <1>1, <1>2, <1>3, SMTT(60) DEF Inv, ApiTypeOK
<1>5. Distinct'
  BY <1>1, <1>2, <1>3 DEF Inv, Distinct, Versioned, Object
<1>6. Versioned'
  <2>1. \A e \in history' : e.resource_version <= rv' /\ e.object.uid <= uid_seq'
    BY <1>1, <1>2, <1>3 DEF Inv, Versioned, Event, Object
  <2>2. \A e, f \in history' : e.resource_version = f.resource_version => e = f
    BY <1>1, <1>2, <1>3 DEF Inv, Versioned, Event
  <2>3. \A q \in objs' : q.uid <= uid_seq' /\ q.resource_version <= rv'
    BY <1>1, <1>2, <1>3 DEF Inv, Versioned, Object
  <2>4. \A w \in writes' : w.resource_version <= rv'
    BY <1>1, <1>3 DEF Inv, Versioned, ApiTypeOK
  <2> QED
    BY <2>1, <2>2, <2>3, <2>4 DEF Versioned
<1>7. Sourced'
  <2>1. \A q \in objs' : Stored(q)'
    BY <1>2, <1>3 DEF Inv, Sourced, Stored
  <2>2. \A c \in Clients : \A q \in copies'[c] : Stored(q)'
    BY <1>3, SMTT(60) DEF Inv, Sourced, Stored
  <2> QED
    BY <2>1, <2>2 DEF Sourced
<1>8. \A e \in history : e.object.uid # p.uid
  BY <1>1, <1>2 DEF Inv, Versioned, Event, Object
<1>9. Last'
  <2> SUFFICES ASSUME NEW q \in objs', NEW e \in history', e.object.uid = q.uid
               PROVE  /\ e.resource_version <= q.resource_version
                      /\ e.kind # "Deleted"
                      /\ Later(e.object, q)
                      /\ Kept(e.object, q)
                            \/ PatchIn(history', patched', q.uid, e.resource_version, q.resource_version)
    BY DEF Last, Later, Kept
  <2>1. CASE q = p
    BY <2>1, <1>1, <1>2, <1>3, <1>8 DEF Later, Kept, Object
  <2>2. CASE q \in objs
    <3>1. q.uid # p.uid
      BY <2>2, <1>1, <1>2 DEF Inv, Versioned, Object
    <3>2. e \in history
      BY <3>1, <1>2, <1>3
    <3>3. PatchIn(history, patched, q.uid, e.resource_version, q.resource_version)
            => PatchIn(history', patched', q.uid, e.resource_version, q.resource_version)
      BY <1>3 DEF PatchIn
    <3> QED
      BY <2>2, <3>2, <3>3 DEF Inv, Last
  <2> QED
    BY <2>1, <2>2, <1>3
<1>10. NoLostUpdate'
  BY <1>1, <1>2, <1>3 DEF Inv, NoLostUpdate, Versioned, ApiTypeOK
<1>11. LifeCycle'
  <2>1. \A u, v, w : PatchIn(history, patched, u, v, w) => PatchIn(history', patched', u, v, w)
    BY <1>3 DEF PatchIn
  <2>2. ASSUME NEW e \in history', NEW f \in history',
               e.object.uid = f.object.uid, e.resource_version < f.resource_version
        PROVE  e \in history /\ f \in history
    BY <2>2, <1>1, <1>2, <1>3, <1>8 DEF Event
  <2> QED
    <3> SUFFICES ASSUME NEW e \in history', NEW f \in history',
                        e.object.uid = f.object.uid, e.resource_version < f.resource_version
                 PROVE  /\ e.object.key = f.object.key
                        /\ e.object.generation = f.object.generation => e.object.spec = f.object.spec
                        /\ e.object.generation # f.object.generation
                               => e.object.generation < f.object.generation
                        /\ Kept(e.object, f.object)
                              \/ PatchIn(history', patched', f.object.uid, e.resource_version,
                                         f.resource_version)
                        /\ e.kind # "Deleted"
                        /\ f.kind = "Deleted" => f.object.finalizers = {}
      BY DEF LifeCycle, Kept, Repatched, PatchIn
    <3>1. e \in history /\ f \in history
      BY <2>2
    <3> QED
      BY <2>1, <3>1, ZenonT(40) DEF Inv, LifeCycle, Kept, Repatched, PatchIn
<1> QED
  BY <1>4, <1>5, <1>6, <1>7, <1>9, <1>10, <1>11 DEF Inv

\* A removal ends the uid.
LEMMA Removal ==
    ASSUME Inv, NEW o \in objs, o.finalizers = {},
           Record("Deleted", objs \ {o}, o), UNCHANGED <<uid_seq, copies, writes, patched>>
    PROVE  Inv'
<1> DEFINE new == [kind |-> "Deleted", object |-> o, resource_version |-> rv + 1]
<1>1. /\ rv \in Nat /\ uid_seq \in Nat /\ objs \subseteq Object /\ history \subseteq Event
      /\ o \in Object
  BY DEF Inv, ApiTypeOK
<1>2. /\ new \in Event
      /\ new.object = o /\ new.resource_version = rv + 1 /\ new.kind = "Deleted"
  BY <1>1 DEF Event
<1>3. /\ rv' = rv + 1
      /\ objs' = objs \ {o}
      /\ history' = history \cup {new}
      /\ UNCHANGED <<uid_seq, copies, writes, patched>>
  BY DEF Record
<1> HIDE DEF new
<1>4. ApiTypeOK'
  BY <1>1, <1>2, <1>3 DEF Inv, ApiTypeOK
<1>5. Distinct'
  BY <1>3 DEF Inv, Distinct
<1>6. Versioned'
  <2>1. \A e \in history' : e.resource_version <= rv' /\ e.object.uid <= uid_seq'
    BY <1>1, <1>2, <1>3 DEF Inv, Versioned, Event, Object
  <2>2. \A e, f \in history' : e.resource_version = f.resource_version => e = f
    BY <1>1, <1>2, <1>3 DEF Inv, Versioned, Event
  <2>3. \A q \in objs' : q.uid <= uid_seq' /\ q.resource_version <= rv'
    BY <1>1, <1>2, <1>3 DEF Inv, Versioned, Object
  <2>4. \A w \in writes' : w.resource_version <= rv'
    BY <1>1, <1>3 DEF Inv, Versioned, ApiTypeOK
  <2> QED
    BY <2>1, <2>2, <2>3, <2>4 DEF Versioned
<1>7. Sourced'
  <2>1. \A q \in objs' : Stored(q)'
    BY <1>3 DEF Inv, Sourced, Stored
  <2>2. \A c \in Clients : \A q \in copies'[c] : Stored(q)'
    BY <1>3 DEF Inv, Sourced, Stored
  <2> QED
    BY <2>1, <2>2 DEF Sourced
<1>8. \A q \in objs' : q.uid # o.uid
  BY <1>3 DEF Inv, Distinct
<1>9. Last'
  <2>1. \A u, v, w : PatchIn(history, patched, u, v, w) => PatchIn(history', patched', u, v, w)
    BY <1>3 DEF PatchIn
  <2>2. ASSUME NEW q \in objs', NEW e \in history', e.object.uid = q.uid
        PROVE  q \in objs /\ e \in history
    BY <2>2, <1>2, <1>3, <1>8
  <2> QED
    BY <2>1, <2>2 DEF Inv, Last, Later, Kept
<1>10. NoLostUpdate'
  BY <1>1, <1>2, <1>3 DEF Inv, NoLostUpdate, Versioned, ApiTypeOK
<1>11. LifeCycle'
  <2> SUFFICES ASSUME NEW e \in history', NEW f \in history',
                      e.object.uid = f.object.uid, e.resource_version < f.resource_version
               PROVE  /\ Later(e.object, f.object)
                      /\ Kept(e.object, f.object)
                            \/ PatchIn(history', patched', f.object.uid, e.resource_version, f.resource_version)
                      /\ e.kind # "Deleted"
                      /\ f.kind = "Deleted" => f.object.finalizers = {}
    <3>1. \A e \in history' : e.object.generation \in Nat
      BY <1>1, <1>2, <1>3 DEF Event, Object
    <3> QED
      BY <3>1, SMTT(60) DEF LifeCycle, Later, Kept, Repatched, PatchIn
  <2>1. e \in history
    BY <1>1, <1>2, <1>3 DEF Inv, Versioned, Event
  <2>2. CASE f \in history
    <3>1. e.object.generation \in Nat /\ f.object.generation \in Nat
      BY <2>1, <2>2, <1>1 DEF Event, Object
    <3>2. PatchIn(history, patched, f.object.uid, e.resource_version, f.resource_version)
            => PatchIn(history', patched', f.object.uid, e.resource_version, f.resource_version)
      BY <1>3 DEF PatchIn
    <3> QED
      BY <2>1, <2>2, <3>1, <3>2, SMTT(60) DEF Inv, LifeCycle, Later, Kept, Repatched, PatchIn
  <2>3. CASE f = new
    <3>1. /\ o.resource_version \in Nat /\ o.resource_version <= rv + 1
          /\ e.resource_version \in Nat
      BY <2>1, <1>1 DEF Inv, Versioned, Object, Event
    <3>2. history \subseteq history' /\ patched \subseteq patched' /\ rv + 1 \in Nat
      BY <1>1, <1>3
    <3>3. PatchIn(history, patched, o.uid, e.resource_version, o.resource_version)
            => PatchIn(history', patched', o.uid, e.resource_version, rv + 1)
      BY <1>1, <3>1, <3>2, PatchKept
    <3> QED
      BY <2>1, <2>3, <1>2, <3>3 DEF Inv, Last
  <2> QED
    BY <2>2, <2>3, <1>3
<1> QED
  BY <1>4, <1>5, <1>6, <1>7, <1>9, <1>10, <1>11 DEF Inv

\* A copy at the stored version is the stored object.
LEMMA CopyIsStored ==
    ASSUME Inv, NEW c \in Clients, NEW p \in copies[c], NEW o \in objs, Current(p, o)
    PROVE  p = o
BY DEF Inv, Sourced, Stored, Versioned, Current

\* What update, update_status and a deletion's mark store are next states.
LEMMA ReplacedLater ==
    ASSUME Inv, NEW o \in objs, NEW b \in Bodies
    PROVE  /\ Replaced(o, b) \in Object
           /\ Replaced(o, b).uid = o.uid
           /\ Replaced(o, b).resource_version = rv + 1
           /\ Later(o, Replaced(o, b))
           /\ Kept(o, Replaced(o, b))
<1> DEFINE p == Fields(o, b)
<1>1. o \in Object /\ rv + 1 \in Nat
  BY DEF Inv, ApiTypeOK
<1>2. /\ p \in Object
      /\ p.key = o.key /\ p.name = o.name /\ p.uid = o.uid /\ p.deletion = o.deletion
      /\ p.generation = o.generation /\ p.spec = b.spec
  BY <1>1, Zenon DEF Fields, Object
<1> HIDE DEF p
<1>3. CASE o.spec # b.spec
  <2>1. Replaced(o, b) = [p EXCEPT !.resource_version = rv + 1, !.generation = @ + 1]
    BY <1>3 DEF Replaced, p
  <2>2. p.generation + 1 \in Nat /\ p.generation \in Nat
    BY <1>2 DEF Object
  <2>3. Replaced(o, b) \in Object
    BY <1>1, <1>2, <2>1, <2>2, Zenon DEF Object
  <2> QED
    BY <1>1, <1>2, <2>1, <2>2, <2>3 DEF Object, Later, Kept
<1>4. CASE o.spec = b.spec
  <2>1. Replaced(o, b) = [p EXCEPT !.resource_version = rv + 1, !.generation = @]
    BY <1>4 DEF Replaced, p
  <2>2. Replaced(o, b) \in Object
    BY <1>1, <1>2, <2>1, Zenon DEF Object
  <2> QED
    BY <1>1, <1>2, <1>4, <2>1, <2>2 DEF Object, Later, Kept
<1> QED
  BY <1>3, <1>4

LEMMA StatusLater ==
    ASSUME NEW o \in Object, NEW b \in Bodies, NEW v \in Nat,
           NEW q, q = [o EXCEPT !.status = b.status, !.resource_version = v]
    PROVE  q \in Object /\ q.uid = o.uid /\ q.resource_version = v /\ Later(o, q) /\ Kept(o, q)
<1>1. q \in Object
  BY Zenon DEF Object
<1>2. q.uid = o.uid /\ q.resource_version = v /\ Later(o, q) /\ Kept(o, q)
  BY DEF Object, Later, Kept
<1> QED
  BY <1>1, <1>2

LEMMA MarkedLater ==
    ASSUME NEW o \in Object, o.deletion = 0, NEW v \in Nat,
           NEW q, q = [o EXCEPT !.deletion = v, !.resource_version = v]
    PROVE  q \in Object /\ q.uid = o.uid /\ q.resource_version = v /\ Later(o, q) /\ Kept(o, q)
<1>1. q \in Object
  BY ZenonT(40) DEF Object
<1>2. q.uid = o.uid /\ q.resource_version = v /\ Later(o, q) /\ Kept(o, q)
  BY DEF Object, Later, Kept
<1> QED
  BY <1>1, <1>2

-----------------------------------------------------------------------------

\* Every reachable state satisfies Inv.
THEOREM Invariance == ApiSpec => []Inv
<1>1. ApiInit => Inv
  <2> SUFFICES ASSUME ApiInit PROVE Inv
    OBVIOUS
  <2>1. ApiTypeOK /\ Sourced
    BY DEF ApiInit, ApiTypeOK, Sourced
  <2>2. Distinct /\ Versioned /\ Last /\ NoLostUpdate /\ LifeCycle
    BY DEF ApiInit, Distinct, Versioned, Last, NoLostUpdate, LifeCycle
  <2> QED
    BY <2>1, <2>2 DEF Inv
<1>2. Inv /\ [ApiNext]_api_vars => Inv'
  <2> SUFFICES ASSUME Inv, [ApiNext]_api_vars PROVE Inv'
    OBVIOUS
  <2>1. ASSUME NEW n \in Names, NEW b \in Bodies, create(n, b) PROVE Inv'
    BY <2>1, Creation, ZenonT(60)
  <2>2. ASSUME NEW c \in Clients, NEW n \in Names, Get(c, n) PROVE Inv'
    <3>1. /\ copies' = [copies EXCEPT ![c] = get(n)]
          /\ UNCHANGED <<rv, uid_seq, objs, history, writes, patched>>
      BY <2>2 DEF Get, registry_vars
    <3>2. get(n) \subseteq objs
      BY DEF get
    <3>3. ApiTypeOK'
      BY <3>1, <3>2 DEF Inv, ApiTypeOK
    <3>4. \A d \in Clients : \A p \in copies'[d] : p \in copies[d] \/ p \in objs
      BY <3>1, <3>2 DEF Inv, ApiTypeOK
    <3>5. Sourced'
      BY <3>1, <3>4 DEF Inv, Sourced, Stored
    <3> QED
      BY <3>1, <3>3, <3>5, SMTT(60) DEF Inv, Distinct, Versioned, Last, NoLostUpdate, LifeCycle, Later,
                                 Kept, Repatched, PatchIn
  <2>3. ASSUME NEW c \in Clients, NEW b \in Bodies, update(c, b) PROVE Inv'
    <3>1. PICK p \in copies[c], o \in objs :
            /\ Current(p, o)
            /\ Put("Modified", Replaced(o, b))
            /\ Wrote(p, o)
            /\ UNCHANGED <<uid_seq, copies, patched>>
      BY <2>3 DEF update
    <3>2. p = o
      BY <3>1, CopyIsStored
    <3>3. patched' = patched \cup {}
      BY <3>1
    <3> QED
      BY <3>1, <3>2, <3>3, ReplacedLater, Replacement, Zenon DEF Wrote
  <2>4. ASSUME NEW c \in Clients, NEW b \in Bodies, update_status(c, b) PROVE Inv'
    <3>1. PICK p \in copies[c], o \in objs :
            /\ Current(p, o)
            /\ Put("Modified", [o EXCEPT !.status = b.status, !.resource_version = rv + 1])
            /\ Wrote(p, o)
            /\ UNCHANGED <<uid_seq, copies, patched>>
      BY <2>4, Zenon DEF update_status
    <3> DEFINE q == [o EXCEPT !.status = b.status, !.resource_version = rv + 1]
    <3>2. p = o
      BY <3>1, CopyIsStored, Zenon
    <3>3. q \in Object /\ q.uid = o.uid /\ q.resource_version = rv + 1 /\ Later(o, q) /\ Kept(o, q)
      <4>1. o \in Object /\ rv + 1 \in Nat
        BY DEF Inv, ApiTypeOK
      <4> QED
        BY <4>1, StatusLater, Zenon
    <3>4. Put("Modified", q)
      BY <3>1
    <3>5. \E W : /\ W \subseteq {[base |-> o.resource_version, uid |-> o.uid, was |-> o.uid,
                                  resource_version |-> rv + 1]}
                /\ writes' = writes \cup W
      BY <3>1, <3>2, Zenon DEF Wrote
    <3>6. patched' = patched \cup {}
      BY <3>1
    <3> HIDE DEF q
    <3> QED
      BY <3>1, <3>3, <3>4, <3>5, <3>6, Replacement, Zenon
  <2>5. ASSUME NEW n \in Names, NEW b \in Bodies, patch(n, b) PROVE Inv'
    <3>1. PICK o \in objs : /\ Put("Modified", Replaced(o, b))
                            /\ UNCHANGED <<uid_seq, copies, writes, patched>>
      BY <2>5 DEF patch
    <3>2. writes' = writes \cup {} /\ patched' = patched \cup {}
      BY <3>1
    <3> QED
      BY <3>1, <3>2, ReplacedLater, Replacement, Zenon
  <2>6. ASSUME NEW n \in Names, NEW d \in Patches, patch_merge(n, d) PROVE Inv'
    <3>1. PICK o \in objs : \E m \in Named(o, d), t \in Dated(o, d) :
            /\ Put("Modified", [Replaced(o, d.body) EXCEPT !.name = m, !.deletion = t])
            /\ patched' = patched \cup {rv + 1}
            /\ UNCHANGED <<uid_seq, copies, writes>>
      BY <2>6, Zenon DEF patch_merge, get
    <3>2. PICK m \in Named(o, d), t \in Dated(o, d) :
            /\ Put("Modified", [Replaced(o, d.body) EXCEPT !.name = m, !.deletion = t])
            /\ patched' = patched \cup {rv + 1}
            /\ UNCHANGED <<uid_seq, copies, writes>>
      BY <3>1, Zenon
    <3> DEFINE q == [Replaced(o, d.body) EXCEPT !.name = m, !.deletion = t]
    <3>3. d.body \in Bodies /\ d.name \subseteq Names /\ d.deletion \subseteq Nat
      BY PatchesAssumption
    <3>4. m \in Names /\ t \in Nat
      <4>1. o \in Object
        BY DEF Inv, ApiTypeOK
      <4> QED
        BY <3>3, <4>1 DEF Named, Dated, Object
    <3>5. q \in Object /\ q.uid = o.uid /\ q.resource_version = rv + 1 /\ Later(o, q)
      <4> DEFINE r == Replaced(o, d.body)
      <4>1. r \in Object /\ r.uid = o.uid /\ r.resource_version = rv + 1 /\ Later(o, r)
        BY <3>3, ReplacedLater
      <4>2. q = [r EXCEPT !.name = m, !.deletion = t]
        OBVIOUS
      <4> HIDE DEF q, r
      <4>3. q \in Object
        BY <3>4, <4>1, <4>2, Zenon DEF Object
      <4>4. q.uid = r.uid /\ q.resource_version = r.resource_version /\ Later(o, q)
        BY <4>1, <4>2 DEF Object, Later
      <4> QED
        BY <4>1, <4>3, <4>4
    <3>6. Put("Modified", q) /\ writes' = writes \cup {}
      BY <3>2
    <3> HIDE DEF q
    <3> QED
      BY <3>2, <3>5, <3>6, Replacement, ZenonT(60)
  <2>7. ASSUME NEW n \in Names, delete(n) PROVE Inv'
    <3>1. PICK o \in objs :
            IF o.finalizers # {}
            THEN /\ o.deletion = 0
                 /\ Put("Modified", [o EXCEPT !.deletion = rv + 1, !.resource_version = rv + 1])
            ELSE Record("Deleted", objs \ {o}, o)
      BY <2>7, Zenon DEF delete, get
    <3>2. UNCHANGED <<uid_seq, copies, writes, patched>>
      BY <2>7 DEF delete
    <3>3. CASE o.finalizers = {}
      BY <3>1, <3>2, <3>3, Removal
    <3>4. CASE o.finalizers # {}
      <4> DEFINE q == [o EXCEPT !.deletion = rv + 1, !.resource_version = rv + 1]
      <4>1. q \in Object /\ q.uid = o.uid /\ q.resource_version = rv + 1 /\ Later(o, q) /\ Kept(o, q)
        <5>1. o \in Object /\ rv + 1 \in Nat /\ o.deletion = 0
          BY <3>1, <3>4 DEF Inv, ApiTypeOK
        <5> QED
          BY <5>1, MarkedLater, Zenon
      <4>2. writes' = writes \cup {} /\ patched' = patched \cup {}
        BY <3>2
      <4>3. Put("Modified", q)
        BY <3>1, <3>4, ZenonT(40)
      <4> HIDE DEF q
      <4> QED
        BY <3>2, <4>1, <4>2, <4>3, Replacement, Zenon
    <3> QED
      BY <3>3, <3>4
  <2>8. CASE UNCHANGED api_vars
    BY <2>8, SMTT(60) DEF Inv, api_vars, ApiTypeOK, Distinct, Versioned, Sourced, Stored, Last, Later, Kept,
                Repatched, PatchIn, NoLostUpdate, LifeCycle
  <2> QED
    BY <2>1, <2>2, <2>3, <2>4, <2>5, <2>6, <2>7, <2>8 DEF ApiNext
<1> QED
  BY <1>1, <1>2, PTL DEF ApiSpec

\* No guarded write (PUT of an object or of its status) is built on a state
\* that another request changed in between, nor on an earlier object of the
\* same name: registry.rs update and update_status.
THEOREM NoUpdateLost == ApiSpec => []NoLostUpdate
BY Invariance, PTL DEF Inv

\* Generations follow the spec, an object keeps its key, only apply_patched
\* changes its name or takes its deletion back, and a Deleted event is the last
\* of its uid: registry.rs update, update_status, apply_patched and delete.
THEOREM LivesAreOrdered == ApiSpec => []LifeCycle
BY Invariance, PTL DEF Inv

=============================================================================
