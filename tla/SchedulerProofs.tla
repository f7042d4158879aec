-------------------------- MODULE SchedulerProofs ---------------------------
(***************************************************************************)
(* The scheduler's assumptions are exact, for any pods, nodes, requests    *)
(* and bounds, and whatever fails in a binding cycle: the argument is      *)
(* about the main loop, the assumed pods and the binds that answered Ok.   *)
(***************************************************************************)
EXTENDS Scheduler, TLAPS

LoopFields == {"at", "pod", "host", "why"}

\* The main loop has one pod from the pop to the end of its cycle.
Loops(m) ==
    /\ m = [f \in LoopFields |-> m[f]]
    /\ m.at \in {"schedule", "assume", "bind", "unwind"} => \E p : m.pod = {p}

Acked == {a[1] : a \in acked}

\* The pod with an assumption of its own, whose bind has not answered.
Binding(m) == IF m.at \in {"bind", "unwind"} THEN m.pod ELSE {}

\* A pod whose bind has answered Ok is in no binding cycle again.
NotAgain == Binding(main) \cap Acked = {}

AssumeInv == Loops(main) /\ DOMAIN assumed = Acked \cup Binding(main) /\ NotAgain

-----------------------------------------------------------------------------

\* A step of the main loop outside the binding cycle, before and after.
LEMMA NotBinding ==
    ASSUME AssumeInv, main.at \notin {"bind", "unwind"},
           Loops(main'), main'.at \notin {"bind", "unwind"}, UNCHANGED <<assumed, acked>>
    PROVE  AssumeInv'
BY DEF AssumeInv, Acked, Binding, NotAgain

\* The steps of the other tasks leave the assumptions to the main loop.
LEMMA OtherTasks ==
    ASSUME AssumeInv, UNCHANGED <<main, assumed, acked>>
    PROVE  AssumeInv'
BY DEF AssumeInv, Acked, Binding, NotAgain

\* A loop at rest has no pod.
LEMMA IdleLoops == Loops(Idle) /\ Idle.at = "poll"
BY DEF Loops, LoopFields, Idle

\* A failed attempt, from wherever it fails.
LEMMA FailLoops ==
    ASSUME Loops(main), NEW why, Fail(why)
    PROVE  Loops(main') /\ main'.at = "failed"
<1>1. main' = [main EXCEPT !.at = "failed", !.why = why]
  BY DEF Fail
<1> QED
  BY <1>1, ZenonT(60) DEF Loops, LoopFields

\* PopWait gives the loop a pod, or lets it wait for one.
LEMMA PodPopped ==
    ASSUME AssumeInv, PopWait
    PROVE  AssumeInv'
<1>1. main.at = "poll" /\ UNCHANGED <<assumed, acked>>
  BY SMTT(60) DEF PopWait, cacheVars, history
<1>2. \/ \E p : main' = [Idle EXCEPT !.at = "schedule", !.pod = {p}]
      \/ main' = [Idle EXCEPT !.at = "await"]
  BY ZenonT(60) DEF PopWait
<1>3. Loops(main') /\ main'.at \in {"schedule", "await"}
  BY <1>2, ZenonT(60) DEF Idle, Loops, LoopFields
<1> QED
  BY SMTT(60), <1>1, <1>3, NotBinding

\* ScheduleOne picks a node or fails; neither claims anything.
LEMMA NodePicked ==
    ASSUME AssumeInv, ScheduleOne
    PROVE  AssumeInv'
<1>1. /\ main.at = "schedule" /\ Loops(main) /\ UNCHANGED <<assumed, acked>>
  BY ZenonT(60) DEF ScheduleOne, AssumeInv, cacheVars, history
<1>2. \/ \E n : main' = [main EXCEPT !.at = "assume", !.host = {n}]
      \/ \E why : Fail(why)
  BY ZenonT(60) DEF ScheduleOne
<1>3. ASSUME NEW n, main' = [main EXCEPT !.at = "assume", !.host = {n}]
      PROVE  Loops(main') /\ main'.at = "assume"
  <2>1. /\ main' = [f \in LoopFields |-> main'[f]]
        /\ main'.at = "assume" /\ main'.pod = main.pod
    BY <1>1, <1>3, ZenonT(60) DEF Loops, LoopFields
  <2> QED
    BY <1>1, <2>1, Zenon DEF Loops
<1>4. Loops(main') /\ main'.at \in {"assume", "failed"}
  BY Zenon, <1>1, <1>2, <1>3, FailLoops
<1> QED
  BY SMTT(60), <1>1, <1>4, NotBinding

\* assume_pod claims for a pod that is not assumed, hence not bound.
LEMMA PodAssumed ==
    ASSUME AssumeInv, Assume
    PROVE  AssumeInv'
<1>1. /\ main.at = "assume" /\ Loops(main) /\ acked' = acked
      /\ DOMAIN assumed = Acked
  BY DEF Assume, AssumeInv, Binding, history
<1>2. PICK p \in main.pod, n \in main.host :
        IF can_assume(p, n)
        THEN assume_pod(p, n) /\ main' = [main EXCEPT !.at = "bind"]
        ELSE Fail("other") /\ UNCHANGED cacheVars
  BY DEF Assume
<1>3. main.pod = {p}
  BY <1>1, <1>2, SMTT(60) DEF Loops
<1>4. CASE can_assume(p, n)
  <2>1. Loops(main') /\ main'.at = "bind" /\ main'.pod = {p}
    BY <1>1, <1>2, <1>3, <1>4, SMTT(60) DEF Loops, LoopFields
  <2>2. DOMAIN assumed' = DOMAIN assumed \cup {p} /\ p \notin DOMAIN assumed
    BY <1>2, <1>4, SMTT(60) DEF assume_pod, can_assume
  <2> QED
    BY <1>1, <2>1, <2>2, SMTT(60) DEF AssumeInv, Acked, Binding, NotAgain
<1>5. CASE ~can_assume(p, n)
  <2>1. Loops(main') /\ main'.at = "failed" /\ UNCHANGED <<assumed, acked>>
    BY <1>1, <1>2, <1>5, FailLoops, SMTT(60) DEF cacheVars
  <2> QED
    BY <1>1, <2>1, NotBinding, SMTT(60)
<1> QED
  BY <1>4, <1>5, SMTT(60)

\* The binding cycle ends with an answer, or is to be unwound.
LEMMA CycleEnds ==
    ASSUME AssumeInv, BindingCycle
    PROVE  AssumeInv'
<1>1. main.at = "bind" /\ Loops(main) /\ UNCHANGED assumed
  BY DEF BindingCycle, AssumeInv, cacheVars
<1>2. PICK p : main.pod = {p}
  BY <1>1, Zenon DEF Loops
<1>3. \/ main' = [main EXCEPT !.at = "unwind"] /\ UNCHANGED acked
      \/ \E n : main' = Idle /\ acked' = acked \cup {<<p, n>>}
  BY <1>2, ZenonT(60) DEF BindingCycle
<1>4. CASE main' = [main EXCEPT !.at = "unwind"] /\ UNCHANGED acked
  <2>1. Loops(main') /\ main'.at = "unwind" /\ main'.pod = main.pod
    BY <1>1, <1>2, <1>4, ZenonT(60) DEF Loops, LoopFields
  <2> QED
    BY <1>1, <1>4, <2>1, SMTT(60) DEF AssumeInv, Acked, Binding, NotAgain
<1>5. ASSUME NEW n, main' = Idle, acked' = acked \cup {<<p, n>>}
      PROVE  AssumeInv'
  <2>1. Acked' = Acked \cup {p}
    <3>1. <<p, n>>[1] = p /\ <<p, n>> \in acked'
      BY <1>5, SMTT(60)
    <3>2. \A a \in acked' : a \in acked \/ a[1] = p
      BY <1>5, <3>1, SMTT(60)
    <3>3. \A a \in acked : a \in acked'
      BY <1>5, SMTT(60)
    <3>4. \A x : x \in Acked' <=> \E a \in acked' : x = a[1]
      BY DEF Acked
    <3>5. \A x : x \in Acked <=> \E a \in acked : x = a[1]
      BY DEF Acked
    <3> QED
      BY SMTT(60), <3>1, <3>2, <3>3, <3>4, <3>5
  <2> QED
    BY <1>1, <1>2, <1>5, <2>1, IdleLoops, SMTT(60) DEF AssumeInv, Binding, NotAgain
<1> QED
  BY <1>3, <1>4, <1>5, SMTT(60)

\* forget_pod takes back the assumption of this cycle, and of no other.
LEMMA CycleUnwound ==
    ASSUME AssumeInv, Unwind
    PROVE  AssumeInv'
<1>1. main.at = "unwind" /\ Loops(main) /\ UNCHANGED acked
  BY DEF Unwind, AssumeInv, history
<1>2. PICK p : main.pod = {p}
  BY <1>1, ZenonT(60) DEF Loops
<1>3. forget_pod(p) /\ Fail("other")
  BY <1>2, SMTT(60) DEF Unwind
<1>4. DOMAIN assumed = Acked \cup {p} /\ p \notin Acked
  BY <1>1, <1>2, SMTT(60) DEF AssumeInv, Binding, NotAgain
<1>5. DOMAIN assumed' = Acked
  BY <1>3, <1>4, SMTT(60) DEF forget_pod
<1>6. Loops(main') /\ main'.at = "failed"
  BY <1>1, <1>3, FailLoops, SMTT(60)
<1> QED
  BY <1>1, <1>5, <1>6, SMTT(60) DEF AssumeInv, Acked, Binding, NotAgain

-----------------------------------------------------------------------------

\* The assumed pods are known from the binds and the main loop in every
\* reachable state.
THEOREM AssumeInvariance == Spec => []AssumeInv
<1>1. Init => AssumeInv
  BY IdleLoops, SMTT(60) DEF Init, AssumeInv, Acked, Binding, NotAgain
<1>2. AssumeInv /\ [Next]_vars => AssumeInv'
  <2> SUFFICES ASSUME AssumeInv, [Next]_vars PROVE AssumeInv'
    OBVIOUS
  <2>1. ASSUME NEW p \in Pods, CreatePod(p) \/ UpdatePod(p) \/ DeletePod(p) \/ Flush(p)
        PROVE  AssumeInv'
    BY <2>1, OtherTasks, SMTT(60) DEF CreatePod, UpdatePod, DeletePod, Flush, cacheVars, history
  <2>2. CASE WatchPods
    <3>1. CASE WatchPodUpsert
      BY <3>1, OtherTasks, SMTT(60) DEF WatchPodUpsert, cacheVars, history
    <3>2. CASE WatchPodDelete \/ WatchPodMove
      BY <3>2, OtherTasks, SMTT(60) DEF WatchPodDelete, WatchPodMove, cacheVars, history
    <3> QED
      BY <2>2, <3>1, <3>2, SMTT(60) DEF WatchPods
  <2>3. CASE WatchNodes
    BY <2>3, OtherTasks, SMTT(60)
       DEF WatchNodes, WatchNodeDelete, WatchNodeUpsert, WatchNodeMove, cacheVars, history
  <2>4. CASE PopWait
    BY <2>4, PodPopped, SMTT(60)
  <2>5. CASE Notified
    BY <2>5, IdleLoops, NotBinding, SMTT(60) DEF Notified, cacheVars, history
  <2>6. CASE ScheduleOne
    BY <2>6, NodePicked
  <2>7. CASE Assume
    BY <2>7, PodAssumed
  <2>8. CASE BindingCycle
    BY <2>8, CycleEnds
  <2>9. CASE Unwind
    BY <2>9, CycleUnwound
  <2>10. CASE Requeue
    BY <2>10, IdleLoops, NotBinding, SMTT(60) DEF Requeue, cacheVars, history
  <2>11. CASE UNCHANGED vars
    BY <2>11, OtherTasks, SMTT(60) DEF vars, cacheVars, history
  <2> QED
    BY <2>1, <2>2, <2>3, <2>4, <2>5, <2>6, <2>7, <2>8, <2>9, <2>10, <2>11, SMTT(60) DEF Next, Loop
<1> QED
  BY <1>1, <1>2, PTL DEF Spec

\* The cache's AssumedPodTracker holds the pods whose bind answered Ok and the
\* one in its binding cycle, whichever stage fails or loses its answer, and
\* although a pod may have several queue entries.
THEOREM AssumptionsExact == Spec => []AssumedExact
<1>1. AssumeInv => AssumedExact
  BY DEF AssumeInv, AssumedExact, Acked, Binding
<1> QED
  BY <1>1, AssumeInvariance, PTL

-----------------------------------------------------------------------------

\* No pod is bound twice with an Ok answer.
BoundOnce == \A a, b \in acked : a[1] = b[1] => a = b

\* A second Ok for a pod would need a second assumption, which assume_pod
\* refuses while the first one's is kept; the argument does not rest on the
\* API server's refusal to bind a bound pod.
THEOREM BindsOnce == Spec => []BoundOnce
<1>1. Init => BoundOnce
  BY DEF Init, BoundOnce
<1>2. AssumeInv /\ BoundOnce /\ [Next]_vars => BoundOnce'
  <2> SUFFICES ASSUME AssumeInv, BoundOnce, [Next]_vars PROVE BoundOnce'
    OBVIOUS
  <2>1. CASE BindingCycle
    <3>1. PICK p : main.pod = {p} /\ p \notin Acked
      BY <2>1, SMTT(60) DEF BindingCycle, AssumeInv, Loops, Binding, NotAgain
    <3>2. acked' = acked \/ \E n : acked' = acked \cup {<<p, n>>}
      BY <2>1, <3>1, ZenonT(60) DEF BindingCycle
    <3> QED
      BY <3>1, <3>2, SMTT(60) DEF BoundOnce, Acked
  <2>2. CASE ~BindingCycle
    <3>1. acked' = acked
      BY <2>2, ZenonT(60) DEF Next, Loop, CreatePod, UpdatePod, DeletePod, Flush, WatchPods, WatchPodUpsert,
                  WatchPodDelete, WatchPodMove, WatchNodes, WatchNodeDelete, WatchNodeUpsert,
                  WatchNodeMove, PopWait, Notified, ScheduleOne, Assume, Unwind, Requeue,
                  vars, history
    <3> QED
      BY <3>1, SMTT(60) DEF BoundOnce
  <2> QED
    BY SMTT(60), <2>1, <2>2
<1> QED
  BY <1>1, <1>2, AssumeInvariance, PTL DEF Spec

=============================================================================
