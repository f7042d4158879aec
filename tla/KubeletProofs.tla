--------------------------- MODULE KubeletProofs ---------------------------
(***************************************************************************)
(* The status manager delivers, for any pods, specs, volumes, bounds and   *)
(* faults: the argument is about pending, acked, flush and sink alone, and *)
(* about a pod's life, which only an ended call of sync_pod moves.         *)
(***************************************************************************)
EXTENDS Kubelet, TLAPS

ByPod(f) == f = [p \in Pods |-> f[p]]

Functions == ByPod(tasks) /\ ByPod(life) /\ ByPod(pending) /\ ByPod(acked) /\ ByPod(sink) /\ ByPod(latest)

\* Nobody works on a pod that is gone, so it stays gone.
GoneIsIdle == \A p \in Pods : life[p] = "gone" => At(p, "idle")

\* A flush writes one status a pod, of a pod that has one pending: the one
\* set last, which may be later than the one being written.
FlushOnce ==
    /\ \A w \in flush :
         /\ w.pod \in Pods
         /\ life[w.pod] # "gone" => pending[w.pod] = latest[w.pod] /\ latest[w.pod] # {}
    /\ \A w, v \in flush : w.pod = v.pod => w = v

\* The manager's maps are those of the caller and of the API server, unless
\* the last write left that open; what is pending is the status set last.
Mirrors ==
    \A p \in Pods : life[p] # "gone" =>
        /\ p \notin unsure => pending[p] = latest[p] /\ acked[p] = sink[p]
        /\ pending[p] # {} => pending[p] = latest[p]
        /\ latest[p] = {} => sink[p] = {}

StatusInv == Functions /\ GoneIsIdle /\ FlushOnce /\ Mirrors

-----------------------------------------------------------------------------

\* A step of a call of sync_pod, or of the runtime, that sets no status.
LEMMA NoStatusSet ==
    ASSUME StatusInv, NEW p \in Pods, life[p] # "gone",
           \E t : Goto(p, t), UNCHANGED <<status_vars, life>>
    PROVE  StatusInv'
<1>1. PICK t : tasks' = [tasks EXCEPT ![p] = t]
  BY Zenon DEF Goto
<1>2. Functions'
  BY <1>1, SMTT(60) DEF StatusInv, Functions, ByPod, status_vars
<1>3. \A q \in Pods : q # p => tasks'[q] = tasks[q]
  BY <1>1 DEF StatusInv, Functions, ByPod
<1>4. GoneIsIdle'
  BY <1>3 DEF StatusInv, GoneIsIdle, At
<1>5. FlushOnce' /\ Mirrors'
  BY DEF StatusInv, FlushOnce, Mirrors, status_vars
<1> QED
  BY <1>2, <1>4, <1>5 DEF StatusInv

\* A call that is not idle works on a pod that is not gone.
LEMMA BusyIsNotGone ==
    ASSUME StatusInv, NEW p \in Pods, tasks[p].pc # "idle"
    PROVE  life[p] # "gone"
BY DEF StatusInv, GoneIsIdle, At

\* compose_status and set_pod_status, after which the call is over.
LEMMA StatusSet ==
    ASSUME StatusInv, NEW p \in Pods, ComposeStatus(p)
    PROVE  StatusInv'
<1>1. life[p] # "gone"
  BY BusyIsNotGone DEF ComposeStatus, At
<1>2. CASE UNCHANGED <<pending, latest, life>>
  <2>1. \E t : Goto(p, t)
    BY DEF ComposeStatus
  <2>2. UNCHANGED <<status_vars, life>>
    BY <1>2 DEF ComposeStatus, status_vars
  <2> QED
    BY <1>1, <2>1, <2>2, NoStatusSet
<1>3. CASE ~ UNCHANGED <<pending, latest, life>>
  <2>1. PICK st : /\ pending' = [pending EXCEPT ![p] = {st}]
                  /\ latest' = [latest EXCEPT ![p] = {st}]
                  /\ life' = [life EXCEPT ![p] = IF tasks[p].work = "Terminating"
                                                 THEN "stopped" ELSE @]
    BY <1>3, Zenon DEF ComposeStatus
  <2>2. /\ tasks' = [tasks EXCEPT ![p] = Idle]
        /\ UNCHANGED <<acked, flush, sink, unsure>>
    BY DEF ComposeStatus, Goto
  <2>3. Functions'
    BY <2>1, <2>2, Zenon DEF StatusInv, Functions, ByPod
  <2>4. /\ pending'[p] = {st} /\ latest'[p] = {st} /\ life'[p] # "gone"
        /\ \A q \in Pods : q # p => /\ pending'[q] = pending[q] /\ latest'[q] = latest[q]
                                    /\ life'[q] = life[q] /\ tasks'[q] = tasks[q]
    BY <1>1, <2>1, <2>2 DEF StatusInv, Functions, ByPod
  <2>5. GoneIsIdle'
    BY <2>4 DEF StatusInv, GoneIsIdle, At
  <2>6. FlushOnce'
    <3>1. flush' = flush /\ {st} # {}
      BY <2>2
    <3>2. ASSUME NEW w \in flush
          PROVE  /\ w.pod \in Pods
                 /\ life'[w.pod] # "gone" => pending'[w.pod] = latest'[w.pod] /\ latest'[w.pod] # {}
      <4>1. w.pod \in Pods
        BY DEF StatusInv, FlushOnce
      <4>2. CASE w.pod = p
        BY Zenon, <2>4, <3>1, <4>1, <4>2
      <4>3. CASE w.pod # p
        BY <2>4, <4>1, <4>3 DEF StatusInv, FlushOnce
      <4> QED
        BY <4>1, <4>2, <4>3
    <3> QED
      BY <3>1, <3>2 DEF StatusInv, FlushOnce
  <2>7. Mirrors'
    BY <1>1, <2>2, <2>4, ZenonT(60) DEF StatusInv, Mirrors
  <2> QED
    BY <2>3, <2>5, <2>6, <2>7 DEF StatusInv
<1> QED
  BY <1>2, <1>3

\* sync_pod ends the Terminated call with forget_pod.
LEMMA PodForgotten ==
    ASSUME StatusInv, NEW p \in Pods, Finish(p)
    PROVE  StatusInv'
<1>1. /\ acked' = [acked EXCEPT ![p] = {}] /\ pending' = [pending EXCEPT ![p] = {}]
      /\ life' = [life EXCEPT ![p] = "gone"] /\ tasks' = [tasks EXCEPT ![p] = Idle]
      /\ UNCHANGED <<flush, sink, latest, unsure>>
  BY DEF Finish, forget_pod, Goto
<1>2. Functions'
  BY <1>1, Zenon DEF StatusInv, Functions, ByPod
<1>3. /\ life'[p] = "gone" /\ tasks'[p] = Idle
      /\ \A q \in Pods : q # p => /\ pending'[q] = pending[q] /\ acked'[q] = acked[q]
                                  /\ life'[q] = life[q] /\ tasks'[q] = tasks[q]
  BY <1>1 DEF StatusInv, Functions, ByPod
<1>4. GoneIsIdle'
  BY <1>3 DEF StatusInv, GoneIsIdle, At, Idle
<1>5. FlushOnce'
  BY <1>1, <1>3 DEF StatusInv, FlushOnce
<1>6. Mirrors'
  BY <1>1, <1>3 DEF StatusInv, Mirrors
<1> QED
  BY <1>2, <1>4, <1>5, <1>6 DEF StatusInv

\* sync_batch takes its snapshot.
LEMMA BatchTaken ==
    ASSUME StatusInv, FlushStart
    PROVE  StatusInv'
<1>1. /\ flush' = Unacked
      /\ UNCHANGED <<tasks, life, pending, acked, sink, latest, unsure>>
  BY DEF FlushStart
<1>2. \A w \in Unacked : /\ w = [pod |-> w.pod, status |-> pending[w.pod]]
                         /\ w.pod \in Pods /\ pending[w.pod] # {}
  BY DEF Unacked
<1>3. FlushOnce'
  BY <1>1, <1>2 DEF StatusInv, FlushOnce, Mirrors
<1> QED
  BY <1>1, <1>3 DEF StatusInv, Functions, ByPod, GoneIsIdle, At, Mirrors

\* One write of a batch, whatever comes of it.
LEMMA StatusWritten ==
    ASSUME StatusInv, FlushWrite
    PROVE  StatusInv'
<1>1. PICK w \in flush, end \in Ends \cup {"refused"} :
        /\ flush' = flush \ {w}
        /\ sink' = IF end \in {"ok", "lost"} THEN [sink EXCEPT ![w.pod] = w.status] ELSE sink
        /\ acked' = IF end = "ok" THEN [acked EXCEPT ![w.pod] = w.status] ELSE acked
        /\ pending' = IF end = "refused" THEN [pending EXCEPT ![w.pod] = {}] ELSE pending
        /\ unsure' = CASE end = "ok" -> unsure \ {w.pod}
                       [] end = "failed" -> unsure
                       [] OTHER -> unsure \cup {w.pod}
  BY Zenon DEF FlushWrite, Acked
<1>2. UNCHANGED <<tasks, life, latest>>
  BY DEF FlushWrite
<1>3. /\ w.pod \in Pods
      /\ life[w.pod] # "gone" => pending[w.pod] = latest[w.pod] /\ latest[w.pod] # {}
      /\ \A v \in flush' : v \in flush /\ v.pod \in Pods /\ v.pod # w.pod
  BY <1>1 DEF StatusInv, FlushOnce
<1>4. Functions'
  BY <1>1, <1>2, <1>3, Zenon DEF StatusInv, Functions, ByPod
<1>5. \A q \in Pods : q # w.pod => /\ pending'[q] = pending[q] /\ acked'[q] = acked[q]
                                  /\ sink'[q] = sink[q] /\ (q \in unsure' <=> q \in unsure)
  BY <1>1, <1>3 DEF StatusInv, Functions, ByPod, Ends
<1>6. FlushOnce'
  BY <1>2, <1>3, <1>5 DEF StatusInv, FlushOnce
<1>7. Mirrors'
  <2>1. ASSUME NEW q \in Pods, q = w.pod, life[q] # "gone"
        PROVE  /\ q \notin unsure' => pending'[q] = latest[q] /\ acked'[q] = sink'[q]
               /\ pending'[q] # {} => pending'[q] = latest[q]
    BY <1>1, <1>3, <2>1 DEF StatusInv, Functions, ByPod, Mirrors, Ends
  <2> QED
    BY <1>2, <1>3, <1>5, <2>1 DEF StatusInv, Mirrors
<1> QED
  BY <1>2, <1>4, <1>6, <1>7 DEF StatusInv, GoneIsIdle, At

-----------------------------------------------------------------------------

\* The steps of a call of sync_pod that set no status: all but the last.
QuietStep(p) ==
    \/ Begin(p)
    \/ SetUp(p) \/ MarkMounted(p) \/ TearDown(p) \/ MarkUnmounted(p)
    \/ SyncWorker(p) \/ SandboxStatus(p) \/ CleanStop(p) \/ CleanRemove(p) \/ RunSandbox(p)
    \/ ListContainers(p) \/ CreateContainer(p) \/ StartContainer(p) \/ StopContainer(p)
    \/ RemoveContainer(p) \/ StopSandbox(p) \/ RemoveSandbox(p)

\* They are steps of NoStatusSet, each for its own reason.
LEMMA QuietSteps ==
    ASSUME StatusInv, NEW p \in Pods, QuietStep(p)
    PROVE  StatusInv'
<1>1. CASE Begin(p)
  <2>1. life[p] # "gone" /\ UNCHANGED <<status_vars, life>>
    BY <1>1, ZenonT(60) DEF Begin
  <2>2. \E t : Goto(p, t)
    BY <1>1, Zenon DEF Begin, StartPass
  <2> QED
    BY SMTT(60), <2>1, <2>2, NoStatusSet
<1>2. CASE SetUp(p)
  <2>1. tasks[p].pc # "idle" /\ UNCHANGED <<status_vars, life>>
    BY <1>2 DEF SetUp, At
  <2>2. \E t : Goto(p, t)
    BY <1>2 DEF SetUp, Return
  <2> QED
    BY <2>1, <2>2, BusyIsNotGone, NoStatusSet
<1>3. CASE MarkMounted(p)
  <2>1. tasks[p].pc # "idle" /\ UNCHANGED <<status_vars, life>>
    BY <1>3 DEF MarkMounted, At
  <2>2. \E t : Goto(p, t)
    BY <1>3 DEF MarkMounted
  <2> QED
    BY <2>1, <2>2, BusyIsNotGone, NoStatusSet
<1>4. CASE TearDown(p)
  <2>1. tasks[p].pc # "idle" /\ UNCHANGED <<status_vars, life>>
    BY <1>4 DEF TearDown, At
  <2>2. \E t : Goto(p, t)
    BY <1>4 DEF TearDown, Return
  <2> QED
    BY <2>1, <2>2, BusyIsNotGone, NoStatusSet
<1>5. CASE MarkUnmounted(p)
  <2>1. tasks[p].pc # "idle" /\ UNCHANGED <<status_vars, life>>
    BY <1>5 DEF MarkUnmounted, At
  <2>2. \E t : Goto(p, t)
    BY <1>5 DEF MarkUnmounted
  <2> QED
    BY <2>1, <2>2, BusyIsNotGone, NoStatusSet
<1>6. CASE SyncWorker(p)
  <2>1. tasks[p].pc # "idle" /\ UNCHANGED <<status_vars, life>>
    BY <1>6 DEF SyncWorker, At
  <2>2. \E t : Goto(p, t)
    BY <1>6 DEF SyncWorker, Jump
  <2> QED
    BY <2>1, <2>2, BusyIsNotGone, NoStatusSet
<1>7. CASE SandboxStatus(p)
  <2>1. tasks[p].pc # "idle" /\ UNCHANGED <<status_vars, life>>
    BY <1>7 DEF SandboxStatus, At
  <2>2. \E t : Goto(p, t)
    BY <1>7 DEF SandboxStatus, Jump
  <2> QED
    BY <2>1, <2>2, BusyIsNotGone, NoStatusSet
<1>8. CASE CleanStop(p)
  <2>1. tasks[p].pc # "idle" /\ UNCHANGED <<status_vars, life>>
    BY <1>8 DEF CleanStop, At
  <2>2. \E t : Goto(p, t)
    BY <1>8 DEF CleanStop, Jump
  <2> QED
    BY <2>1, <2>2, BusyIsNotGone, NoStatusSet
<1>9. CASE CleanRemove(p)
  <2>1. tasks[p].pc # "idle" /\ UNCHANGED <<status_vars, life>>
    BY <1>9 DEF CleanRemove, At
  <2>2. \E t : Goto(p, t)
    BY <1>9 DEF CleanRemove, Jump
  <2> QED
    BY <2>1, <2>2, BusyIsNotGone, NoStatusSet
<1>10. CASE RunSandbox(p)
  <2>1. tasks[p].pc # "idle" /\ UNCHANGED <<status_vars, life>>
    BY <1>10 DEF RunSandbox, At
  <2>2. \E t : Goto(p, t)
    BY <1>10 DEF RunSandbox, Return
  <2> QED
    BY <2>1, <2>2, BusyIsNotGone, NoStatusSet
<1>11. CASE ListContainers(p)
  <2>1. tasks[p].pc # "idle" /\ UNCHANGED <<status_vars, life>>
    BY <1>11 DEF ListContainers, At
  <2>2. \E t : Goto(p, t)
    BY <1>11 DEF ListContainers, Return
  <2> QED
    BY <2>1, <2>2, BusyIsNotGone, NoStatusSet
<1>12. CASE CreateContainer(p)
  <2>1. tasks[p].pc # "idle" /\ UNCHANGED <<status_vars, life>>
    BY <1>12 DEF CreateContainer, At
  <2>2. \E t : Goto(p, t)
    BY <1>12 DEF CreateContainer, Return
  <2> QED
    BY <2>1, <2>2, BusyIsNotGone, NoStatusSet
<1>13. CASE StartContainer(p)
  <2>1. tasks[p].pc # "idle" /\ UNCHANGED <<status_vars, life>>
    BY <1>13 DEF StartContainer, At
  <2>2. \E t : Goto(p, t)
    BY <1>13 DEF StartContainer, Return
  <2> QED
    BY <2>1, <2>2, BusyIsNotGone, NoStatusSet
<1>14. CASE StopContainer(p)
  <2>1. tasks[p].pc # "idle" /\ UNCHANGED <<status_vars, life>>
    BY <1>14 DEF StopContainer, At
  <2>2. \E t : Goto(p, t)
    BY <1>14 DEF StopContainer, Return
  <2> QED
    BY <2>1, <2>2, BusyIsNotGone, NoStatusSet
<1>15. CASE RemoveContainer(p)
  <2>1. tasks[p].pc # "idle" /\ UNCHANGED <<status_vars, life>>
    BY <1>15 DEF RemoveContainer, At
  <2>2. \E t : Goto(p, t)
    BY <1>15 DEF RemoveContainer, Return
  <2> QED
    BY <2>1, <2>2, BusyIsNotGone, NoStatusSet
<1>16. CASE StopSandbox(p)
  <2>1. tasks[p].pc # "idle" /\ UNCHANGED <<status_vars, life>>
    BY <1>16 DEF StopSandbox, At
  <2>2. \E t : Goto(p, t)
    BY <1>16 DEF StopSandbox, Return
  <2> QED
    BY <2>1, <2>2, BusyIsNotGone, NoStatusSet
<1>17. CASE RemoveSandbox(p)
  <2>1. tasks[p].pc # "idle" /\ UNCHANGED <<status_vars, life>>
    BY <1>17 DEF RemoveSandbox, At
  <2>2. \E t : Goto(p, t)
    BY <1>17 DEF RemoveSandbox, StartPass, Return
  <2> QED
    BY <2>1, <2>2, BusyIsNotGone, NoStatusSet
<1> QED
  BY <1>1, <1>2, <1>3, <1>4, <1>5, <1>6, <1>7, <1>8, <1>9, <1>10, <1>11, <1>12, <1>13, <1>14, <1>15, <1>16, <1>17 DEF QuietStep

\* The runtime's own steps are no step of the status manager.
LEMMA RuntimeSteps ==
    ASSUME StatusInv, UNCHANGED <<tasks, life, status_vars>>
    PROVE  StatusInv'
BY Zenon DEF StatusInv, Functions, ByPod, GoneIsIdle, At, FlushOnce, Mirrors, status_vars

\* The status manager's maps agree with the caller and the API server in every
\* reachable state.
THEOREM StatusInvariance == Spec => []StatusInv
<1>1. Init => StatusInv
  BY DEF Init, None, StatusInv, Functions, ByPod, GoneIsIdle, FlushOnce, Mirrors
<1>2. StatusInv /\ [Next]_vars => StatusInv'
  <2> SUFFICES ASSUME StatusInv, [Next]_vars PROVE StatusInv'
    OBVIOUS
  <2>1. ASSUME NEW p \in Pods, QuietStep(p) PROVE StatusInv'
    BY <2>1, QuietSteps
  <2>2. ASSUME NEW p \in Pods, ComposeStatus(p) PROVE StatusInv'
    BY <2>2, StatusSet
  <2>3. ASSUME NEW p \in Pods, Finish(p) PROVE StatusInv'
    BY <2>3, PodForgotten
  <2>4. ASSUME NEW p \in Pods, ContainerExits(p) \/ SandboxFails(p) PROVE StatusInv'
    BY <2>4, RuntimeSteps DEF ContainerExits, SandboxFails
  <2>5. CASE FlushStart
    BY <2>5, BatchTaken
  <2>6. CASE FlushWrite
    BY <2>6, StatusWritten
  <2>7. CASE UNCHANGED vars
    BY <2>7, RuntimeSteps DEF vars
  <2> QED
    BY <2>1, <2>2, <2>3, <2>4, <2>5, <2>6, <2>7 DEF Next, QuietStep
<1> QED
  BY <1>1, <1>2, PTL DEF Spec

\* PodStatusManager delivers: whenever a flush would find nothing to write, the
\* API server holds the status set last of every pod that is not gone and whose
\* last write was not refused or left unanswered.
THEOREM StatusesDelivered == Spec => []StatusDelivered
<1>1. StatusInv => StatusDelivered
  <2> SUFFICES ASSUME StatusInv, Unacked = {}, NEW p \in Pods \ unsure, life[p] # "gone"
               PROVE  sink[p] = latest[p]
    BY DEF StatusDelivered
  <2>1. pending[p] = {} \/ pending[p] = acked[p]
    BY Zenon DEF Unacked
  <2> QED
    BY <2>1, Zenon DEF StatusInv, Mirrors
<1> QED
  BY <1>1, StatusInvariance, PTL

=============================================================================
