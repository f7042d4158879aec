--------------------------- MODULE LeaderElection ---------------------------
(***************************************************************************)
(* Leader election of the controller manager (leaderelection.rs): instances *)
(* compete for one Lease object with try_acquire_or_renew, hand it back     *)
(* with release, and watch it with observe_again.  An instance acts as      *)
(* leader from a successful attempt until its renew deadline.              *)
(*                                                                         *)
(* The Lease lives in the apiserver, so an update of it is one step.  Each  *)
(* instance passes the time of its own clock; clocks run at one speed, a    *)
(* fixed offset apart.  An Option<Lease> is a set of at most one lease.     *)
(***************************************************************************)
EXTENDS Integers

CONSTANTS
    Instances,        \* the participants' identities
    NoOne,            \* the empty holder_identity
    lease_duration,   \* LeaderElectionConfig of each instance
    renew_deadline,
    offset,           \* what the clock of each instance shows at time 0
    MaxNow,           \* bound: the last instant
    LastCrash,        \* bound: the last instant at which an instance crashes
    MaxReleased       \* bound: the last lease_transitions that is released

ASSUME InstancesAssumption == NoOne \notin Instances

\* LeaderElectionConfig::new refuses a renew_deadline that is not positive or
\* not below the lease_duration; retry_period only paces the attempts.
ASSUME ConfigAssumption ==
    /\ lease_duration \in [Instances -> Int]
    /\ renew_deadline \in [Instances -> Int]
    /\ \A p \in Instances : 0 < renew_deadline[p] /\ renew_deadline[p] < lease_duration[p]

\* The clocks differ by less than the time between deadline and expiry.
ASSUME OffsetAssumption ==
    /\ offset \in [Instances -> Int]
    /\ \A p, q \in Instances :
          offset[q] - offset[p] < lease_duration[p] - renew_deadline[p]

ASSUME BoundAssumption == MaxNow \in Nat /\ LastCrash \in Nat /\ MaxReleased \in Nat

VARIABLES
    now,         \* real time
    lease,       \* the Lease object
    last_renew,  \* per instance: when it last succeeded, by its own clock
    up,          \* per instance: is it running?
    observed,    \* per instance: its ObservedRecord
    changed_at,  \* history: when the Lease object last changed
    terms        \* history: who led with which lease_transitions

vars == <<now, lease, last_renew, up, observed, changed_at, terms>>

Lease ==
    [holder_identity : Instances \cup {NoOne}, lease_duration_secs : Int,
     acquire_time : Int, renew_time : Int, lease_transitions : Nat]

clock(p) == now + offset[p]

-----------------------------------------------------------------------------
(* Decisions.                                                              *)

\* Mutants of is_valid: the lease lasts for ever; the lease lasts as long as its holder may retry.
is_valid_forever(l, t) == TRUE
is_valid_deadline(l, t) ==
    t < l.renew_time + (IF l.holder_identity = NoOne THEN 0 ELSE renew_deadline[l.holder_identity])

is_valid(l, t) == t < l.renew_time + l.lease_duration_secs

\* The lease with which p claims leadership now.
claim(p, acquired, transitions) ==
    [holder_identity |-> p, lease_duration_secs |-> lease_duration[p],
     acquire_time |-> acquired, renew_time |-> clock(p), lease_transitions |-> transitions]

\* The lease, when p may renew it or take it over.
available(p) == {l \in lease : l.holder_identity \in {p, NoOne} \/ ~is_valid(l, clock(p))}

\* Mutant of try_acquire_or_renew: a takeover does not count the transition.
try_no_transition(p) ==
    IF lease = {} THEN {claim(p, clock(p), 0)}
    ELSE {IF l.holder_identity = p THEN claim(p, l.acquire_time, l.lease_transitions)
          ELSE claim(p, clock(p), l.lease_transitions) : l \in available(p)}

\* The lease p writes back, none when another one holds it.
try_acquire_or_renew(p) ==
    IF lease = {} THEN {claim(p, clock(p), 0)}
    ELSE {IF l.holder_identity = p THEN claim(p, l.acquire_time, l.lease_transitions)
          ELSE claim(p, clock(p), l.lease_transitions + 1) : l \in available(p)}

renew_deadline_exceeded(p, t) == clock(p) - t > renew_deadline[p]

\* p is running and has renewed recently enough to act as leader.
Acting(p) == up[p] /\ \E t \in last_renew[p] : ~renew_deadline_exceeded(p, t)

-----------------------------------------------------------------------------
(* Steps.                                                                  *)

\* The Lease object becomes L.
Write(L) ==
    /\ lease' = L
    /\ changed_at' = IF L = lease THEN changed_at ELSE now

\* An attempt: on success the lease is written back and p leads; on Lost p
\* does not lead.
Try(p) ==
    LET L == try_acquire_or_renew(p)
    IN  /\ up[p]
        /\ IF L = {}
           THEN /\ last_renew' = [last_renew EXCEPT ![p] = {}]
                /\ UNCHANGED <<lease, changed_at, terms>>
           ELSE /\ Write(L)
                /\ last_renew' = [last_renew EXCEPT ![p] = {clock(p)}]
                /\ terms' = terms \cup {<<l.lease_transitions, p>> : l \in L}
        /\ UNCHANGED <<now, up, observed>>

\* release, when p holds the lease; p stops leading.
Release(p) ==
    /\ up[p]
    /\ \E l \in lease :
        /\ l.holder_identity = p /\ l.lease_transitions <= MaxReleased
        /\ Write({[holder_identity |-> NoOne, lease_duration_secs |-> l.lease_duration_secs,
                   acquire_time |-> l.acquire_time, renew_time |-> clock(p),
                   lease_transitions |-> l.lease_transitions]})
    /\ last_renew' = [last_renew EXCEPT ![p] = {}]
    /\ UNCHANGED <<now, up, observed, terms>>

\* observe_again: the time is kept while the record is unchanged.
observe_again(p) ==
    /\ up[p]
    /\ observed[p].record # lease
    /\ observed' = [observed EXCEPT ![p] = [record |-> lease, observed_at |-> clock(p)]]
    /\ UNCHANGED <<now, lease, last_renew, up, changed_at, terms>>

\* p stops without releasing; another instance keeps running.
Crash(p) ==
    /\ up[p]
    /\ now <= LastCrash
    /\ \E q \in Instances \ {p} : up[q]
    /\ up' = [up EXCEPT ![p] = FALSE]
    /\ UNCHANGED <<now, lease, last_renew, observed, changed_at, terms>>

\* p starts again with nothing but its identity, and observes the lease.
Restart(p) ==
    /\ ~up[p]
    /\ up' = [up EXCEPT ![p] = TRUE]
    /\ last_renew' = [last_renew EXCEPT ![p] = {}]
    /\ observed' = [observed EXCEPT ![p] = [record |-> lease, observed_at |-> clock(p)]]
    /\ UNCHANGED <<now, lease, changed_at, terms>>

Tick ==
    /\ now < MaxNow
    /\ now' = now + 1
    /\ UNCHANGED <<lease, last_renew, up, observed, changed_at, terms>>

Init ==
    /\ now = 0
    /\ lease = {}
    /\ last_renew = [p \in Instances |-> {}]
    /\ up = [p \in Instances |-> TRUE]
    /\ observed = [p \in Instances |-> [record |-> {}, observed_at |-> offset[p]]]
    /\ changed_at = 0
    /\ terms = {}

Next ==
    \/ \E p \in Instances : Try(p)
    \/ \E p \in Instances : Release(p)
    \/ \E p \in Instances : observe_again(p)
    \/ \E p \in Instances : Crash(p)
    \/ \E p \in Instances : Restart(p)
    \/ Tick

Spec == Init /\ [][Next]_vars

\* A running instance attempts again and again, and time passes.
Fairness == WF_vars(Tick) /\ \A p \in Instances : WF_vars(Try(p))

FairSpec == Spec /\ Fairness

-----------------------------------------------------------------------------
(* Properties.                                                             *)

\* Types; there is at most one Lease object.
TypeOK ==
    /\ now \in Nat /\ changed_at \in Int
    /\ lease \subseteq Lease /\ \A l, m \in lease : l = m
    /\ DOMAIN last_renew = Instances
    /\ \A p \in Instances : last_renew[p] \subseteq Int
    /\ up \in [Instances -> BOOLEAN]
    /\ DOMAIN observed = Instances
    /\ \A p \in Instances : observed[p].observed_at \in Int
    /\ terms \subseteq Nat \X Instances

\* Stopping at the renew deadline "is what keeps two instances from both
\* believing they lead": whatever renewals are missed, and whoever crashes,
\* releases or takes over, at most one instance acts as leader, although their
\* clocks differ.
AtMostOneLeader ==
    \A p, q \in Instances : Acting(p) /\ Acting(q) => p = q

\* lease_transitions tells the terms of different leaders apart: no two
\* instances ever lead under one value, also after releases and restarts.
TermsDistinct ==
    \A s, t \in terms : s[1] = t[1] => s[2] = t[2]

\* The observed time is sound: while the record an instance has seen is still
\* the current one, it has not changed since the time noted with it, so an
\* instance that waits from that time really watches a stalled leader.
StallIsReal ==
    \A p \in Instances : observed[p].record = lease =>
        changed_at + offset[p] <= observed[p].observed_at

\* A leader that crashes is replaced, or comes back.
CrashedLeaderReplaced ==
    \A p \in Instances :
        (~up[p] /\ \E l \in lease : l.holder_identity = p)
            ~> (up[p] \/ \E l \in lease : l.holder_identity # p)

=============================================================================
