------------------------ MODULE LeaderElectionProofs ------------------------
(***************************************************************************)
(* Safety of LeaderElection for any set of instances, any configurations    *)
(* and clock offsets that meet the assumptions, and runs of any length.     *)
(***************************************************************************)
EXTENDS LeaderElection, TLAPS

\* The lease carries the claim of its holder, made at some time up to now.
ClaimOfHolder ==
    \A l \in lease : l.holder_identity # NoOne =>
        /\ l.renew_time <= clock(l.holder_identity)
        /\ l.lease_duration_secs = lease_duration[l.holder_identity]

\* An instance before its deadline holds the lease, renewed when it thinks.
LeaderHolds ==
    \A p \in Instances : \A t \in last_renew[p] :
        (up[p] /\ ~renew_deadline_exceeded(p, t)) =>
            \E l \in lease : l.holder_identity = p /\ l.renew_time = t

\* Terms so far are at most the current one, and that one has one leader.
TermsSoFar ==
    \A t \in terms : \E l \in lease :
        /\ t[1] <= l.lease_transitions
        /\ t[1] = l.lease_transitions => l.holder_identity \in {t[2], NoOne}

\* The order in which the Lease object goes through its values.
Older(r, l) ==
    \/ r.lease_transitions < l.lease_transitions
    \/ /\ r.lease_transitions = l.lease_transitions
       /\ r.holder_identity # NoOne
       /\ \/ l.holder_identity = NoOne
          \/ l.holder_identity = r.holder_identity /\ r.renew_time < l.renew_time

\* An observed record is the current Lease or an older value of it.
SeenBefore ==
    \A p \in Instances :
        /\ observed[p].record \subseteq Lease
        /\ \A r, s \in observed[p].record : r = s
        /\ \A r \in observed[p].record : \E l \in lease : r = l \/ Older(r, l)

IInv ==
    /\ TypeOK
    /\ changed_at <= now
    /\ ClaimOfHolder
    /\ LeaderHolds
    /\ TermsSoFar
    /\ TermsDistinct
    /\ SeenBefore
    /\ StallIsReal

-----------------------------------------------------------------------------
\* What an attempt can write: a first lease, a renewal that changes nothing but
\* the claim, or a takeover of a lease that is released or not valid any more.
LEMMA Attempt ==
    ASSUME TypeOK, NEW p \in Instances
    PROVE  \/ try_acquire_or_renew(p) = {}
           \/ \E m \in Lease :
                /\ try_acquire_or_renew(p) = {m}
                /\ m.holder_identity = p
                /\ m.renew_time = clock(p)
                /\ m.lease_duration_secs = lease_duration[p]
                /\ \/ lease = {} /\ m.lease_transitions = 0
                   \/ \E l \in lease :
                        /\ l.holder_identity = p
                        /\ m.acquire_time = l.acquire_time
                        /\ m.lease_transitions = l.lease_transitions
                   \/ \E l \in lease :
                        /\ l.holder_identity # p
                        /\ l.holder_identity = NoOne \/ ~is_valid(l, clock(p))
                        /\ m.lease_transitions = l.lease_transitions + 1
<1>0. clock(p) \in Int /\ lease_duration[p] \in Int
  BY ConfigAssumption, OffsetAssumption DEF TypeOK, clock
<1>1. ASSUME NEW a \in Int, NEW n \in Nat
      PROVE  /\ claim(p, a, n) \in Lease
             /\ claim(p, a, n).holder_identity = p
             /\ claim(p, a, n).renew_time = clock(p)
             /\ claim(p, a, n).lease_duration_secs = lease_duration[p]
             /\ claim(p, a, n).acquire_time = a
             /\ claim(p, a, n).lease_transitions = n
  BY <1>0 DEF Lease, claim
<1>2. CASE lease = {}
  <2>1. try_acquire_or_renew(p) = {claim(p, clock(p), 0)}
    BY <1>2 DEF try_acquire_or_renew
  <2> QED BY <1>0, <1>1, <1>2, <2>1
<1>3. CASE lease # {}
  <2>1. PICK l \in Lease : lease = {l}
    BY <1>3 DEF TypeOK
  <2>2. l.acquire_time \in Int /\ l.lease_transitions \in Nat /\ l.lease_transitions + 1 \in Nat
    BY DEF Lease
  <2>3. CASE l.holder_identity = p
    <3>1. try_acquire_or_renew(p) = {claim(p, l.acquire_time, l.lease_transitions)}
      BY <2>1, <2>3, <1>3 DEF try_acquire_or_renew, available
    <3> QED BY <1>1, <2>1, <2>2, <2>3, <3>1
  <2>4. CASE l.holder_identity # p /\ (l.holder_identity = NoOne \/ ~is_valid(l, clock(p)))
    <3>1. try_acquire_or_renew(p) = {claim(p, clock(p), l.lease_transitions + 1)}
      BY <2>1, <2>4, <1>3 DEF try_acquire_or_renew, available
    <3> QED BY <1>0, <1>1, <2>1, <2>2, <2>4, <3>1
  <2>5. CASE ~(l.holder_identity = p \/ l.holder_identity = NoOne \/ ~is_valid(l, clock(p)))
    BY <2>1, <2>5, <1>3 DEF try_acquire_or_renew, available
  <2> QED BY <2>3, <2>4, <2>5
<1> QED BY <1>2, <1>3

\* The lease of one that acts as leader is valid in the eyes of all others.
LEMMA ValidForOthers ==
    ASSUME IInv, NEW p \in Instances, NEW q \in Instances, q # p,
           NEW t \in last_renew[q], up[q], ~renew_deadline_exceeded(q, t),
           NEW l \in lease
    PROVE  /\ l.holder_identity = q
           /\ is_valid(l, clock(p))
<1>1. l.holder_identity = q /\ l.renew_time = t
  BY DEF IInv, LeaderHolds, TypeOK
<1>2. q # NoOne
  BY InstancesAssumption
<1>3. l.lease_duration_secs = lease_duration[q]
  BY <1>1, <1>2 DEF IInv, ClaimOfHolder
<1>4. now \in Int /\ offset[p] \in Int /\ offset[q] \in Int /\ t \in Int
      /\ renew_deadline[q] \in Int /\ lease_duration[q] \in Int
  BY ConfigAssumption, OffsetAssumption DEF IInv, TypeOK
<1>5. offset[p] - offset[q] < lease_duration[q] - renew_deadline[q]
  BY OffsetAssumption
<1>6. now + offset[q] - t <= renew_deadline[q]
  BY <1>4 DEF renew_deadline_exceeded, clock
<1>7. now + offset[p] < t + lease_duration[q]
  BY <1>4, <1>5, <1>6
<1> QED BY <1>1, <1>3, <1>7 DEF is_valid, clock

\* The Lease object never returns to an earlier value.
LEMMA OlderIsStrict ==
    ASSUME NEW r \in Lease, NEW l \in Lease, Older(r, l)
    PROVE  r # l /\ ~Older(l, r)
BY DEF Older, Lease

LEMMA OlderIsTransitive ==
    ASSUME NEW r \in Lease, NEW l \in Lease, NEW m \in Lease, Older(r, l), Older(l, m)
    PROVE  Older(r, m)
BY DEF Older, Lease

\* Writing the same or a newer Lease keeps what the observers know.
LEMMA WriteKeepsObservers ==
    ASSUME IInv, NEW m \in Lease, Write({m}), UNCHANGED <<now, observed>>,
           \A l \in lease : l = m \/ Older(l, m)
    PROVE  SeenBefore' /\ StallIsReal' /\ changed_at' <= now' /\ changed_at' \in Int
<1>1. lease' = {m} /\ changed_at' = IF {m} = lease THEN changed_at ELSE now
  BY DEF Write
<1>2. changed_at' <= now' /\ changed_at' \in Int
  BY <1>1 DEF IInv, TypeOK
<1>3. SeenBefore'
  <2> SUFFICES ASSUME NEW p \in Instances, NEW r \in observed[p].record
               PROVE  r = m \/ Older(r, m)
    BY <1>1 DEF IInv, SeenBefore
  <2>1. PICK l \in lease : r = l \/ Older(r, l)
    BY DEF IInv, SeenBefore
  <2>2. r \in Lease /\ l \in Lease
    BY DEF IInv, SeenBefore, TypeOK
  <2> QED BY <2>1, <2>2, OlderIsTransitive
<1>4. StallIsReal'
  <2> SUFFICES ASSUME NEW p \in Instances, observed[p].record = {m}
               PROVE  changed_at' + offset[p] <= observed[p].observed_at
    BY <1>1 DEF StallIsReal
  <2>1. PICK l \in lease : m = l \/ Older(m, l)
    BY DEF IInv, SeenBefore
  <2>2. l \in Lease /\ lease = {l}
    BY DEF IInv, TypeOK
  <2>3. m = l
    BY <2>1, <2>2, OlderIsStrict
  <2> QED BY <1>1, <2>2, <2>3 DEF IInv, StallIsReal
<1> QED BY <1>2, <1>3, <1>4

LEMMA InitIInv == Init => IInv
BY ConfigAssumption, OffsetAssumption
DEF Init, IInv, TypeOK, ClaimOfHolder, LeaderHolds, TermsSoFar, TermsDistinct, SeenBefore,
    StallIsReal

\* A successful attempt.
LEMMA TryKeeps ==
    ASSUME IInv, NEW p \in Instances, Try(p)
    PROVE  IInv'
<1> DEFINE L == try_acquire_or_renew(p)
<1>0. /\ now \in Int /\ clock(p) \in Int /\ p # NoOne
      /\ now' = now /\ up' = up /\ observed' = observed /\ up[p] = TRUE
  BY InstancesAssumption, OffsetAssumption DEF IInv, TypeOK, clock, Try
<1>1. CASE L = {}
  <2>1. /\ last_renew' = [last_renew EXCEPT ![p] = {}]
        /\ lease' = lease /\ changed_at' = changed_at /\ terms' = terms
    BY <1>1 DEF Try
  <2>2. TypeOK'
    BY <1>0, <2>1 DEF IInv, TypeOK
  <2>3. LeaderHolds'
    BY <1>0, <2>1 DEF IInv, TypeOK, LeaderHolds, renew_deadline_exceeded, clock
  <2> QED BY <1>0, <2>1, <2>2, <2>3
          DEF IInv, ClaimOfHolder, TermsSoFar, TermsDistinct, SeenBefore, StallIsReal, clock
<1>2. CASE L # {}
  <2>1. PICK m \in Lease :
            /\ L = {m}
            /\ m.holder_identity = p
            /\ m.renew_time = clock(p)
            /\ m.lease_duration_secs = lease_duration[p]
            /\ \/ lease = {} /\ m.lease_transitions = 0
               \/ \E l \in lease :
                    /\ l.holder_identity = p
                    /\ m.acquire_time = l.acquire_time
                    /\ m.lease_transitions = l.lease_transitions
               \/ \E l \in lease :
                    /\ l.holder_identity # p
                    /\ l.holder_identity = NoOne \/ ~is_valid(l, clock(p))
                    /\ m.lease_transitions = l.lease_transitions + 1
    BY <1>2, Attempt DEF IInv
  <2>2. /\ Write({m})
        /\ last_renew' = [last_renew EXCEPT ![p] = {clock(p)}]
        /\ terms' = terms \cup {<<l.lease_transitions, p>> : l \in {m}}
    BY <1>2, <2>1 DEF Try
  <2>3. lease' = {m} /\ terms' = terms \cup {<<m.lease_transitions, p>>}
    BY <2>2 DEF Write
  <2>4. \A l \in lease : l \in Lease
    BY DEF IInv, TypeOK
  <2>5. \A l \in lease : l = m \/ Older(l, m)
    <3> SUFFICES ASSUME NEW l \in lease PROVE l = m \/ Older(l, m)
      OBVIOUS
    <3>1. \/ m.lease_transitions = l.lease_transitions + 1
          \/ /\ l.holder_identity = p
             /\ m.acquire_time = l.acquire_time
             /\ m.lease_transitions = l.lease_transitions
      BY <2>1 DEF IInv, TypeOK
    <3>2. CASE m.lease_transitions = l.lease_transitions + 1
      BY <2>4, <3>2 DEF Older, Lease
    <3>3. CASE /\ l.holder_identity = p
               /\ m.acquire_time = l.acquire_time
               /\ m.lease_transitions = l.lease_transitions
      <4>1. l.renew_time <= m.renew_time /\ l.lease_duration_secs = m.lease_duration_secs
        BY <1>0, <2>1, <3>3 DEF IInv, ClaimOfHolder
      <4>2. CASE l.renew_time = m.renew_time
        BY <2>1, <2>4, <3>3, <4>1, <4>2 DEF Lease
      <4>3. CASE l.renew_time < m.renew_time
        BY <1>0, <2>1, <3>3, <4>3 DEF Older
      <4> QED BY <2>4, <4>1, <4>2, <4>3 DEF Lease
    <3> QED BY <3>1, <3>2, <3>3
  <2>6. SeenBefore' /\ StallIsReal' /\ changed_at' <= now' /\ changed_at' \in Int
    BY <1>0, <2>2, <2>5, WriteKeepsObservers
  <2>7. TypeOK'
    <3>1. <<m.lease_transitions, p>> \in Nat \X Instances
      BY DEF Lease
    <3> QED BY <1>0, <2>2, <2>3, <2>6, <3>1 DEF IInv, TypeOK
  <2>8. ClaimOfHolder'
    BY <1>0, <2>1, <2>3 DEF ClaimOfHolder, clock
  <2>9. LeaderHolds'
    <3> SUFFICES ASSUME NEW q \in Instances, NEW t \in last_renew'[q], up[q],
                        ~renew_deadline_exceeded(q, t)
                 PROVE  m.holder_identity = q /\ m.renew_time = t
      BY <1>0, <2>3 DEF LeaderHolds, renew_deadline_exceeded, clock
    <3>1. CASE q = p
      BY <2>1, <2>2, <3>1 DEF IInv, TypeOK
    <3>2. CASE q # p
      <4>1. t \in last_renew[q]
        BY <2>2, <3>2 DEF IInv, TypeOK
      <4>2. \A l \in lease : l.holder_identity = q /\ is_valid(l, clock(p))
        BY <3>2, <4>1, ValidForOthers
      <4>3. lease # {}
        BY <4>1 DEF IInv, LeaderHolds
      <4>4. q # NoOne
        BY InstancesAssumption
      <4> QED BY <2>1, <3>2, <4>2, <4>3, <4>4
    <3> QED BY <3>1, <3>2
  <2>10. TermsSoFar'
    <3> SUFFICES ASSUME NEW t \in terms'
                 PROVE  /\ t[1] <= m.lease_transitions
                        /\ t[1] = m.lease_transitions => t[2] = p
      BY <2>1, <2>3 DEF TermsSoFar
    <3>1. CASE t = <<m.lease_transitions, p>>
      BY <3>1 DEF Lease
    <3>2. CASE t \in terms
      <4>1. PICK l \in lease : /\ t[1] <= l.lease_transitions
                               /\ t[1] = l.lease_transitions => l.holder_identity \in {t[2], NoOne}
        BY <3>2 DEF IInv, TermsSoFar
      <4>2. t[1] \in Nat /\ l.lease_transitions \in Nat
        BY <2>4, <3>2 DEF IInv, TypeOK, Lease
      <4>3. \/ m.lease_transitions = l.lease_transitions + 1
            \/ l.holder_identity = p /\ m.lease_transitions = l.lease_transitions
        BY <2>1 DEF IInv, TypeOK
      <4> QED BY <1>0, <4>1, <4>2, <4>3
    <3> QED BY <2>3, <3>1, <3>2
  <2>11. TermsDistinct'
    <3>1. \A t \in terms : t[1] = m.lease_transitions => t[2] = p
      <4> SUFFICES ASSUME NEW t \in terms, t[1] = m.lease_transitions PROVE t[2] = p
        OBVIOUS
      <4>1. t \in terms'
        BY <2>3
      <4> QED BY <1>0, <2>1, <2>3, <2>10, <4>1 DEF TermsSoFar
    <3>2. \A t \in terms' : t \in terms \/ (t[1] = m.lease_transitions /\ t[2] = p)
      BY <2>3
    <3> QED BY <3>1, <3>2 DEF IInv, TermsDistinct
  <2> QED BY <2>6, <2>7, <2>8, <2>9, <2>10, <2>11 DEF IInv
<1> QED BY <1>1, <1>2

\* A release.
LEMMA ReleaseKeeps ==
    ASSUME IInv, NEW p \in Instances, Release(p)
    PROVE  IInv'
<1>0. /\ now \in Int /\ clock(p) \in Int /\ p # NoOne
      /\ now' = now /\ up' = up /\ observed' = observed /\ terms' = terms
      /\ last_renew' = [last_renew EXCEPT ![p] = {}]
  <2>1. now \in Int /\ clock(p) \in Int /\ p # NoOne
    BY InstancesAssumption, OffsetAssumption DEF IInv, TypeOK, clock
  <2> QED BY <2>1 DEF Release
<1> DEFINE free(l) == [holder_identity |-> NoOne, lease_duration_secs |-> l.lease_duration_secs,
                       acquire_time |-> l.acquire_time, renew_time |-> clock(p),
                       lease_transitions |-> l.lease_transitions]
<1>1. PICK l \in lease : l.holder_identity = p /\ Write({free(l)})
  BY Zenon DEF Release
<1>2. PICK m : m = free(l)
  BY Zenon
<1>3. l \in Lease /\ lease = {l}
  BY <1>1 DEF IInv, TypeOK
<1>4. m \in Lease /\ m.holder_identity = NoOne /\ m.lease_transitions = l.lease_transitions
  BY <1>0, <1>2, <1>3 DEF Lease
<1>5. Write({m}) /\ lease' = {m}
  BY <1>1, <1>2 DEF Write
<1>6. \A k \in lease : k = m \/ Older(k, m)
  BY <1>0, <1>1, <1>3, <1>4 DEF Older
<1>7. SeenBefore' /\ StallIsReal' /\ changed_at' <= now' /\ changed_at' \in Int
  BY <1>0, <1>4, <1>5, <1>6, WriteKeepsObservers
<1>8. TypeOK'
  BY <1>0, <1>4, <1>5, <1>7 DEF IInv, TypeOK
<1>9. ClaimOfHolder'
  BY <1>4, <1>5 DEF ClaimOfHolder
<1>10. LeaderHolds'
  <2> SUFFICES ASSUME NEW q \in Instances, NEW t \in last_renew'[q], up[q],
                      ~renew_deadline_exceeded(q, t)
               PROVE  FALSE
    BY <1>0 DEF LeaderHolds, renew_deadline_exceeded, clock
  <2>1. q # p /\ t \in last_renew[q]
    BY <1>0 DEF IInv, TypeOK
  <2> QED BY <1>1, <2>1, ValidForOthers
<1>11. TermsSoFar'
  BY <1>0, <1>3, <1>4, <1>5 DEF IInv, TermsSoFar
<1> QED BY <1>0, <1>7, <1>8, <1>9, <1>10, <1>11 DEF IInv, TermsDistinct

\* The steps that leave the Lease object alone.
LEMMA OtherStepsKeep ==
    ASSUME IInv,
           \/ \E p \in Instances : observe_again(p) \/ Crash(p) \/ Restart(p)
           \/ Tick
           \/ UNCHANGED vars
    PROVE  IInv'
<1> USE DEF IInv
<1>0. now \in Int
  BY DEF TypeOK
<1>1. ASSUME NEW p \in Instances, observe_again(p) \/ Crash(p) \/ Restart(p)
      PROVE  IInv'
  <2>0. /\ now' = now /\ lease' = lease /\ changed_at' = changed_at /\ terms' = terms
        /\ \/ last_renew' = last_renew
           \/ last_renew' = [last_renew EXCEPT ![p] = {}]
        /\ \/ observed' = observed
           \/ observed' = [observed EXCEPT ![p] = [record |-> lease, observed_at |-> clock(p)]]
    BY <1>1 DEF observe_again, Crash, Restart
  <2>1. \A q \in Instances : \A t \in last_renew'[q] : t \in last_renew[q] /\ (up'[q] => up[q])
    BY <1>1 DEF observe_again, Crash, Restart, TypeOK
  <2>2. clock(p) \in Int
    BY <1>0, OffsetAssumption DEF clock
  <2>3. \A q \in Instances :
            \/ observed'[q] = observed[q]
            \/ observed'[q].record = lease /\ observed'[q].observed_at = now + offset[q]
    BY <2>0 DEF TypeOK, clock
  <2>4. TypeOK'
    <3>1. up' \in [Instances -> BOOLEAN]
      BY <1>1, Zenon DEF observe_again, Crash, Restart, TypeOK
    <3> QED BY <2>0, <2>2, <3>1 DEF TypeOK
  <2>5. LeaderHolds'
    BY <2>0, <2>1 DEF LeaderHolds, renew_deadline_exceeded, clock
  <2>6. SeenBefore'
    BY <2>0, <2>3 DEF SeenBefore, TypeOK
  <2>7. StallIsReal'
    BY <1>0, <2>0, <2>3, OffsetAssumption DEF StallIsReal, TypeOK
  <2> QED BY <2>0, <2>4, <2>5, <2>6, <2>7 DEF ClaimOfHolder, TermsSoFar, TermsDistinct, clock
<1>2. CASE Tick
  <2>0. /\ now' = now + 1 /\ lease' = lease /\ last_renew' = last_renew /\ up' = up
        /\ observed' = observed /\ changed_at' = changed_at /\ terms' = terms
    BY <1>2 DEF Tick
  <2>1. TypeOK' /\ changed_at' <= now'
    BY <2>0 DEF TypeOK
  <2>2. ClaimOfHolder'
    <3> SUFFICES ASSUME NEW l \in lease, l.holder_identity # NoOne
                 PROVE  /\ l.renew_time <= now + 1 + offset[l.holder_identity]
                        /\ l.lease_duration_secs = lease_duration[l.holder_identity]
      BY <2>0 DEF ClaimOfHolder, clock
    <3>1. l.holder_identity \in Instances /\ l.renew_time \in Int
      BY DEF TypeOK, Lease
    <3>2. offset[l.holder_identity] \in Int
      BY <3>1, OffsetAssumption
    <3>3. /\ l.renew_time <= now + offset[l.holder_identity]
          /\ l.lease_duration_secs = lease_duration[l.holder_identity]
      BY DEF ClaimOfHolder, clock
    <3> QED BY <1>0, <3>1, <3>2, <3>3
  <2>3. LeaderHolds'
    <3> SUFFICES ASSUME NEW p \in Instances, NEW t \in last_renew'[p], up'[p],
                        ~renew_deadline_exceeded(p, t)'
                 PROVE  \E l \in lease' : l.holder_identity = p /\ l.renew_time = t
      BY DEF LeaderHolds
    <3>1. t \in last_renew[p] /\ up[p]
      BY <2>0
    <3>2. offset[p] \in Int /\ t \in Int /\ renew_deadline[p] \in Int
      BY <3>1, ConfigAssumption, OffsetAssumption DEF TypeOK
    <3>3. ~renew_deadline_exceeded(p, t)
      BY <1>0, <2>0, <3>2, SMTT(60) DEF renew_deadline_exceeded, clock
    <3> QED BY <2>0, <3>1, <3>3 DEF LeaderHolds
  <2> QED BY <2>0, <2>1, <2>2, <2>3 DEF TermsSoFar, TermsDistinct, SeenBefore, StallIsReal
<1>3. CASE UNCHANGED vars
  BY <1>3 DEF vars, TypeOK, ClaimOfHolder, LeaderHolds, TermsSoFar, TermsDistinct, SeenBefore,
              StallIsReal, clock, renew_deadline_exceeded
<1> QED BY <1>1, <1>2, <1>3

-----------------------------------------------------------------------------
\* The inductive invariant holds in every reachable state.
THEOREM Invariance == Spec => []IInv
<1>1. IInv /\ [Next]_vars => IInv'
  <2> SUFFICES ASSUME IInv, [Next]_vars PROVE IInv'
    OBVIOUS
  <2>1. CASE \E p \in Instances : Try(p)
    BY <2>1, TryKeeps
  <2>2. CASE \E p \in Instances : Release(p)
    BY <2>2, ReleaseKeeps
  <2>3. CASE \/ \E p \in Instances : observe_again(p) \/ Crash(p) \/ Restart(p)
             \/ Tick
             \/ UNCHANGED vars
    BY <2>3, OtherStepsKeep
  <2> QED BY <2>1, <2>2, <2>3 DEF Next
<1> QED BY InitIInv, <1>1, PTL DEF Spec

\* The state keeps its types, and there is at most one Lease object.
THEOREM TypeCorrect == Spec => []TypeOK
<1>1. IInv => TypeOK
  BY DEF IInv
<1> QED BY Invariance, <1>1, PTL

\* Never two leaders: with clocks less than lease_duration - renew_deadline
\* apart, the renew deadline keeps the terms of different instances from
\* overlapping, whatever attempts are late, missing or interleaved.
THEOREM NeverTwoLeaders == Spec => []AtMostOneLeader
<1>1. IInv => AtMostOneLeader
  <2> SUFFICES ASSUME IInv, NEW p \in Instances, NEW q \in Instances, Acting(p), Acting(q)
               PROVE  p = q
    BY DEF AtMostOneLeader
  <2>1. \A i \in {p, q} : \E l \in lease : l.holder_identity = i
    BY DEF Acting, IInv, LeaderHolds
  <2> QED BY <2>1 DEF IInv, TypeOK
<1> QED BY Invariance, <1>1, PTL

\* lease_transitions is a fencing token: one value, one leader.
THEOREM TermsNeverShared == Spec => []TermsDistinct
<1>1. IInv => TermsDistinct
  BY DEF IInv
<1> QED BY Invariance, <1>1, PTL

\* An unchanged record means an unchanged Lease since the observed time.
THEOREM StallsAreReal == Spec => []StallIsReal
<1>1. IInv => StallIsReal
  BY DEF IInv
<1> QED BY Invariance, <1>1, PTL

=============================================================================
