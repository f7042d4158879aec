------------------------ MODULE KubeletVolumeProofs ------------------------
(***************************************************************************)
(* A pass of the volume reconciler that no other overlaps mounts what is   *)
(* desired, for any pods, specs, bounds and faults: the argument is about  *)
(* the tasks that pass, the volumes and who has overlapped whom.           *)
(***************************************************************************)
EXTENDS Kubelet, TLAPS

TaskFields == {"pc", "work", "spec", "vols", "todo", "current", "kill"}
Task(t) == t = [f \in TaskFields |-> t[f]] /\ t.work \in {"Sync", "Terminating", "Terminated"}

PassPcs == {"mount", "mark", "unmount", "unmark", "reconciled"}

Shape == tasks = [p \in Pods |-> tasks[p]] /\ \A p \in Pods : Task(tasks[p])

\* How far a pass with record t has got, with the volumes M mounted and those
\* of D desired: what is missing, then what is surplus, is still to do.
Progress(t, M, D) ==
    CASE t.pc \in {"mount", "mark"} ->
           t.vols = D /\ t.todo \subseteq D /\ t.current \in D /\ D \subseteq M \cup t.todo \cup {t.current}
      [] t.pc = "unmount" -> M = D \cup t.todo /\ t.todo \cap D = {}
      [] t.pc = "unmark" -> /\ M = D \cup t.todo \cup {t.current}
                            /\ t.todo \cap D = {} /\ t.current \notin D \cup t.todo
      [] OTHER -> M = D

\* What is on disk while a lone pass with record t has M mounted.
OnDisk(t, M) ==
    CASE t.pc = "mark" -> M \cup {t.current}
      [] t.pc = "unmark" -> M \ {t.current}
      [] OTHER -> M

Alone == \A p \in Pods : (p \in solo /\ p \in Passing) =>
             Passing = {p} /\ Progress(tasks[p], mounted, desired)

NeverOverlapped == overlapped = FALSE =>
    /\ \A p \in Passing : p \in solo /\ disk = OnDisk(tasks[p], mounted)
    /\ Passing = {} => disk = mounted

VolInv == Shape /\ overlapped \in BOOLEAN /\ Alone /\ NeverOverlapped

-----------------------------------------------------------------------------

\* The tasks of the others are as before.
LEMMA OthersKept ==
    ASSUME Shape, NEW p \in Pods, NEW t, Task(t), Goto(p, t)
    PROVE  /\ Shape'
           /\ tasks'[p] = t
           /\ \A q \in Pods : q # p => tasks'[q] = tasks[q]
           /\ Passing' = (Passing \ {p}) \cup {q \in {p} : t.pc \in PassPcs}
<1>1. tasks' = [tasks EXCEPT ![p] = t]
  BY DEF Goto
<1>2. /\ Shape'
      /\ tasks'[p] = t
      /\ \A q \in Pods : q # p => tasks'[q] = tasks[q]
  BY <1>1 DEF Shape
<1> QED
  BY <1>2 DEF Passing, PassPcs

\* What a pass does next, whatever is mounted.
LEMMA NextVolumeShape ==
    ASSUME NEW p, NEW t, Task(t), NEW M, NEW u \in NextVolume(p, t, M)
    PROVE  Task(u) /\ u.pc \in {"mount", "unmount", "reconciled"}
<1>1. CASE u = Unmounts(p, t, M)
  BY <1>1, Zenon DEF Unmounts, Task, TaskFields
<1>2. ASSUME NEW v, NEW skipped, u = MountNext(t, v, skipped)
      PROVE  Task(u) /\ u.pc = "mount"
  BY <1>2, Zenon DEF MountNext, Task, TaskFields
<1> QED
  BY <1>1, <1>2 DEF NextVolume

\* From one await to the next, a pass makes progress.
LEMMA NextVolumeProgress ==
    ASSUME NEW p, NEW t, Task(t), NEW M, NEW D, t.vols = D, t.todo \subseteq D,
           D \subseteq M \cup t.todo, NEW u \in NextVolume(p, t, M)
    PROVE  Task(u) /\ u.pc \in {"mount", "unmount", "reconciled"} /\ Progress(u, M, D)
<1>1. CASE t.todo \subseteq M
  <2>1. u = [t EXCEPT !.pc = IF M \ D = {} THEN "reconciled" ELSE "unmount",
                      !.todo = M \ D, !.vols = {}]
    BY <1>1 DEF NextVolume, Unmounts, Surplus
  <2>2. /\ Task(u) /\ u.todo = M \ D
        /\ u.pc = IF M \ D = {} THEN "reconciled" ELSE "unmount"
    BY <2>1, Zenon DEF Task, TaskFields
  <2> QED
    BY <1>1, <2>2 DEF Progress
<1>2. CASE ~ (t.todo \subseteq M)
  <2>1. PICK v \in t.todo \ M, skipped \in SUBSET (t.todo \cap M) :
          u = MountNext(t, v, skipped)
    BY <1>2 DEF NextVolume
  <2>2. /\ Task(u) /\ u.pc = "mount" /\ u.current = v /\ u.vols = D
        /\ u.todo = t.todo \ ({v} \cup skipped)
    BY <2>1, Zenon DEF MountNext, Task, TaskFields
  <2> QED
    BY <2>2 DEF Progress
<1> QED
  BY <1>1, <1>2

\* A step of a task that is in no pass, or that leaves one between two volumes.
LEMMA OutsidePass ==
    ASSUME VolInv, NEW p \in Pods, tasks[p].pc \notin {"mark", "unmark"},
           NEW t, Task(t), t.pc \notin PassPcs, Goto(p, t), UNCHANGED <<volume_vars, pass_vars>>
    PROVE  VolInv'
<1>1. /\ Shape' /\ tasks'[p] = t
      /\ \A q \in Pods : q # p => tasks'[q] = tasks[q]
      /\ Passing' = Passing \ {p}
  BY OthersKept DEF VolInv
<1>2. UNCHANGED <<desired, mounted, disk, solo, overlapped>>
  BY DEF volume_vars, pass_vars
<1>3. Passing \subseteq Pods
  BY DEF Passing
<1>4. Alone'
  BY <1>1, <1>2, <1>3 DEF VolInv, Alone
<1>5. NeverOverlapped'
  <2> SUFFICES ASSUME overlapped = FALSE
               PROVE  /\ \A q \in Passing' : q \in solo /\ disk = OnDisk(tasks'[q], mounted)
                      /\ Passing' = {} => disk = mounted
    BY <1>2, Zenon DEF NeverOverlapped
  <2>1. \A q \in Passing : q \in solo /\ disk = OnDisk(tasks[q], mounted)
    BY DEF VolInv, NeverOverlapped
  <2>2. p \in Passing => disk = mounted
    BY <2>1 DEF OnDisk
  <2>3. p \in Passing => Passing = {p}
    BY <2>1 DEF VolInv, Alone
  <2> QED
    BY <1>1, <1>3, <2>1, <2>2, <2>3 DEF VolInv, NeverOverlapped
<1> QED
  BY <1>1, <1>2, <1>4, <1>5 DEF VolInv

\* A pass starts, with the desired volumes as they are now.
LEMMA PassStarts ==
    ASSUME VolInv, NEW p \in Pods, p \notin Passing, NEW t, Task(t),
           StartPass(p, t, desired'), UNCHANGED <<mounted, disk>>
    PROVE  VolInv'
<1> DEFINE s == [t EXCEPT !.vols = desired', !.todo = desired']
<1>1. PICK u \in NextVolume(p, s, mounted) : Goto(p, u)
  BY DEF StartPass
<1>2. Task(s) /\ s.vols = desired' /\ s.todo = desired'
  BY Zenon DEF Task, TaskFields
<1> HIDE DEF s
<1>3. Task(u) /\ u.pc \in {"mount", "unmount", "reconciled"} /\ Progress(u, mounted, desired')
  BY <1>1, <1>2, NextVolumeProgress
<1>4. /\ Shape' /\ tasks'[p] = u
      /\ \A q \in Pods : q # p => tasks'[q] = tasks[q]
      /\ Passing' = Passing \cup {p}
  BY <1>1, <1>3, OthersKept DEF VolInv, PassPcs
<1>5. /\ solo' = (IF Passing = {} THEN {p} ELSE {})
      /\ overlapped' = (overlapped \/ Passing # {})
  BY DEF StartPass
<1>6. Alone'
  BY <1>3, <1>4, <1>5 DEF Alone
<1>7. NeverOverlapped'
  <2> SUFFICES ASSUME overlapped' = FALSE
               PROVE  /\ \A q \in Passing' : q \in solo' /\ disk' = OnDisk(tasks'[q], mounted')
                      /\ Passing' = {} => disk' = mounted'
    BY Zenon DEF NeverOverlapped
  <2>1. overlapped = FALSE /\ Passing = {}
    BY <1>5, Zenon DEF VolInv
  <2>2. disk = mounted
    BY <2>1 DEF VolInv, NeverOverlapped
  <2> QED
    BY <1>3, <1>4, <1>5, <2>1, <2>2 DEF OnDisk
<1> QED
  BY <1>4, <1>5, <1>6, <1>7 DEF VolInv

-----------------------------------------------------------------------------
(* The steps of a pass.                                                    *)

Away(t) == Task(t) /\ t.pc \notin PassPcs

\* A call that has returned is in no pass.
LEMMA IdleAway == Away(Idle) /\ Idle.pc = "idle" /\ Task(Idle)
BY DEF Away, Task, TaskFields, Idle, PassPcs

\* Nor is one that goes on to a place outside the pass,
LEMMA JumpAway ==
    ASSUME NEW t, Task(t), NEW l, l \notin PassPcs
    PROVE  Away([t EXCEPT !.pc = l])
BY DEF Away, Task, TaskFields

\* or to the next container.
LEMMA OnwardAway ==
    ASSUME NEW t, Task(t)
    PROVE  Away(Onward(t))
<1> DEFINE l == IF t.todo # {} THEN "create" ELSE IF t.kill # {} THEN "kill" ELSE "compose"
<1>1. l \notin PassPcs
  BY DEF PassPcs
<1> QED
  BY <1>1, JumpAway DEF Onward

\* A step within a pass: the pass stays alone if it was, and what it has to
\* show is its progress and what is on disk.
LEMMA WithinPass ==
    ASSUME VolInv, NEW p \in Pods, p \in Passing, NEW u, Task(u), u.pc \in PassPcs, Goto(p, u),
           UNCHANGED <<desired, pass_vars>>,
           Progress(tasks[p], mounted, desired) => Progress(u, mounted', desired),
           (Progress(tasks[p], mounted, desired) /\ disk = OnDisk(tasks[p], mounted))
               => disk' = OnDisk(u, mounted')
    PROVE  VolInv'
<1>1. /\ Shape' /\ tasks'[p] = u
      /\ \A q \in Pods : q # p => tasks'[q] = tasks[q]
      /\ Passing' = Passing
  BY OthersKept DEF VolInv
<1>2. UNCHANGED <<desired, solo, overlapped>> /\ Passing \subseteq Pods
  BY DEF pass_vars, Passing
<1>3. Alone'
  <2> SUFFICES ASSUME NEW q \in Pods, q \in solo, q \in Passing
               PROVE  Passing = {q} /\ Progress(tasks'[q], mounted', desired)
    BY <1>1, <1>2 DEF Alone
  <2>1. Passing = {q} /\ Progress(tasks[q], mounted, desired)
    BY DEF VolInv, Alone
  <2>2. q = p
    BY <2>1
  <2> QED
    BY <1>1, <2>1, <2>2
<1>4. NeverOverlapped'
  <2> SUFFICES ASSUME overlapped = FALSE, NEW q \in Passing
               PROVE  q \in solo /\ disk' = OnDisk(tasks'[q], mounted')
    BY <1>1, <1>2, ZenonT(60) DEF NeverOverlapped
  <2>1. p \in solo /\ q \in solo /\ disk = OnDisk(tasks[p], mounted)
    BY DEF VolInv, NeverOverlapped
  <2>2. Passing = {p} /\ Progress(tasks[p], mounted, desired)
    BY <2>1 DEF VolInv, Alone
  <2>3. q = p
    BY <2>2
  <2> QED
    BY <1>1, <2>1, <2>2, <2>3
<1> QED
  BY <1>1, <1>2, <1>3, <1>4 DEF VolInv

\* Setting up a volume; if that fails the pass ends.
LEMMA VolumeSetUp ==
    ASSUME VolInv, NEW p \in Pods, SetUp(p)
    PROVE  VolInv'
<1> DEFINE t == tasks[p]
           u == [t EXCEPT !.pc = "mark"]
<1>1. /\ t.pc = "mount" /\ Task(t) /\ p \in Passing
      /\ UNCHANGED <<desired, mounted, pass_vars>>
  BY DEF SetUp, At, VolInv, Shape, Passing
<1>2. \/ disk' = disk \cup {t.current} /\ Goto(p, u)
      \/ disk' = disk /\ Goto(p, Idle)
  BY DEF SetUp, Return
<1>3. CASE disk' = disk \cup {t.current} /\ Goto(p, u)
  <2>1. /\ Task(u) /\ u.pc = "mark" /\ u.vols = t.vols /\ u.todo = t.todo
        /\ u.current = t.current
    BY <1>1 DEF Task, TaskFields
  <2> HIDE DEF t, u
  <2>2. Progress(t, mounted, desired) => Progress(u, mounted', desired)
    BY <1>1, <2>1 DEF Progress
  <2>3. disk = OnDisk(t, mounted) => disk' = OnDisk(u, mounted')
    BY <1>1, <1>3, <2>1 DEF OnDisk
  <2> QED
    BY <1>1, <1>3, <2>1, <2>2, <2>3, WithinPass DEF t, PassPcs
<1>4. CASE disk' = disk /\ Goto(p, Idle)
  BY <1>1, <1>4, IdleAway, OutsidePass DEF Away, volume_vars
<1> QED
  BY <1>2, <1>3, <1>4

\* The volume set up is marked mounted, and the pass goes on.
LEMMA VolumeMarked ==
    ASSUME VolInv, NEW p \in Pods, MarkMounted(p)
    PROVE  VolInv'
<1> DEFINE t == tasks[p]
           s == [t EXCEPT !.current = Nil]
<1>1. /\ t.pc = "mark" /\ Task(t) /\ p \in Passing
      /\ UNCHANGED <<desired, disk, pass_vars>> /\ mounted' = mounted \cup {t.current}
  BY DEF MarkMounted, At, VolInv, Shape, Passing
<1>2. PICK u \in NextVolume(p, s, mounted') : Goto(p, u)
  BY DEF MarkMounted
<1>3. Task(s) /\ s.vols = t.vols /\ s.todo = t.todo
  BY <1>1 DEF Task, TaskFields
<1> HIDE DEF s
<1>4. Task(u) /\ u.pc \in {"mount", "unmount", "reconciled"}
  BY <1>2, <1>3, NextVolumeShape
<1>5. Progress(t, mounted, desired) => Progress(u, mounted', desired)
  <2> HIDE DEF t
  <2> SUFFICES ASSUME Progress(t, mounted, desired) PROVE Progress(u, mounted', desired)
    OBVIOUS
  <2>1. /\ t.vols = desired /\ t.todo \subseteq desired
        /\ desired \subseteq mounted \cup t.todo \cup {t.current}
    BY <1>1 DEF Progress
  <2>2. desired \subseteq mounted' \cup s.todo
    BY <1>1, <1>3, <2>1
  <2> QED
    BY <1>2, <1>3, <2>1, <2>2, NextVolumeProgress
<1>6. disk = OnDisk(t, mounted) => disk' = OnDisk(u, mounted')
  <2> HIDE DEF t
  <2> QED
    BY <1>1, <1>4 DEF OnDisk
<1> QED
  BY <1>1, <1>2, <1>4, <1>5, <1>6, WithinPass DEF PassPcs

\* Tearing down a surplus volume; if that fails the pass ends.
LEMMA VolumeTornDown ==
    ASSUME VolInv, NEW p \in Pods, TearDown(p)
    PROVE  VolInv'
<1> DEFINE t == tasks[p]
           u(v) == [t EXCEPT !.pc = "unmark", !.current = v, !.todo = @ \ {v}]
<1>1. /\ t.pc = "unmount" /\ Task(t) /\ p \in Passing
      /\ UNCHANGED <<desired, mounted, pass_vars>>
  BY SMTT(60) DEF TearDown, At, VolInv, Shape, Passing
<1>2. PICK v \in t.todo : \/ disk' = disk \ {v} /\ Goto(p, u(v))
                          \/ disk' = disk /\ Goto(p, Idle)
  BY ZenonT(60) DEF TearDown, Return
<1>3. CASE disk' = disk \ {v} /\ Goto(p, u(v))
  <2>1. /\ Task(u(v)) /\ u(v).pc = "unmark" /\ u(v).todo = t.todo \ {v}
        /\ u(v).current = v
    BY <1>1, Zenon DEF Task, TaskFields
  <2> HIDE DEF t, u
  <2>2. Progress(t, mounted, desired) => Progress(u(v), mounted', desired)
    BY <1>1, <1>2, <2>1 DEF Progress
  <2>3. disk = OnDisk(t, mounted) => disk' = OnDisk(u(v), mounted')
    BY <1>1, <1>3, <2>1 DEF OnDisk
  <2> QED
    BY <1>1, <1>3, <2>1, <2>2, <2>3, WithinPass DEF t, PassPcs
<1>4. CASE disk' = disk /\ Goto(p, Idle)
  BY <1>1, <1>4, IdleAway, OutsidePass DEF Away, volume_vars
<1> QED
  BY <1>2, <1>3, <1>4

\* The volume torn down is no longer mounted.
LEMMA VolumeUnmarked ==
    ASSUME VolInv, NEW p \in Pods, MarkUnmounted(p)
    PROVE  VolInv'
<1> DEFINE t == tasks[p]
           u == [t EXCEPT !.pc = IF t.todo = {} THEN "reconciled" ELSE "unmount", !.current = Nil]
<1>1. /\ t.pc = "unmark" /\ Task(t) /\ p \in Passing
      /\ UNCHANGED <<desired, disk, pass_vars>> /\ mounted' = mounted \ {t.current}
      /\ Goto(p, u)
  BY DEF MarkUnmounted, At, VolInv, Shape, Passing
<1>2. /\ Task(u) /\ u.pc = (IF t.todo = {} THEN "reconciled" ELSE "unmount")
      /\ u.todo = t.todo
  BY <1>1, ZenonT(60) DEF Task, TaskFields
<1> HIDE DEF t, u
<1>3. Progress(t, mounted, desired) => Progress(u, mounted', desired)
  BY <1>1, <1>2 DEF Progress
<1>4. disk = OnDisk(t, mounted) => disk' = OnDisk(u, mounted')
  BY <1>1, <1>2 DEF OnDisk
<1> QED
  BY <1>1, <1>2, <1>3, <1>4, WithinPass DEF t, PassPcs

-----------------------------------------------------------------------------
(* The steps outside, and those that start a pass.                         *)

\* A step of a call that is in no pass afterwards, and touches no volume.
Outside(p) ==
    /\ tasks[p].pc \notin {"mark", "unmark"}
    /\ UNCHANGED <<volume_vars, pass_vars>>
    /\ \E t : Away(t) /\ Goto(p, t)

\* Such a step keeps the invariant, by OutsidePass.
LEMMA OutsideKeeps ==
    ASSUME VolInv, NEW p \in Pods, Outside(p)
    PROVE  VolInv'
BY OutsidePass DEF Outside, Away

\* Whatever a call answers, the task that goes on from it or returns is away.
LEMMA ReturnAway ==
    ASSUME NEW p, NEW end, NEW t, Away(t), Return(p, end, t)
    PROVE  \E u : Away(u) /\ Goto(p, u)
BY IdleAway DEF Return

\* sync_pod starts a pass at once, or goes to its worker.
LEMMA CallBegins ==
    ASSUME VolInv, NEW p \in Pods, Begin(p)
    PROVE  VolInv'
<1>1. tasks[p].pc = "idle" /\ p \notin Passing /\ UNCHANGED <<mounted, disk>>
  BY Zenon DEF Begin, At, Passing
<1>2. ASSUME NEW sp, StartPass(p, [Idle EXCEPT !.spec = sp], desired')
      PROVE  VolInv'
  <2>1. Task([Idle EXCEPT !.spec = sp])
    BY DEF Idle, Task, TaskFields
  <2> QED
    BY <1>1, <1>2, <2>1, PassStarts
<1>3. ASSUME NEW sp, UNCHANGED <<desired, pass_vars>>,
             Goto(p, [Idle EXCEPT !.work = "Terminating", !.spec = sp,
                                  !.pc = IF workers[p].sandbox_id = Nil THEN "compose" ELSE "list"])
      PROVE  VolInv'
  <2> DEFINE t == [Idle EXCEPT !.work = "Terminating", !.spec = sp,
                               !.pc = IF workers[p].sandbox_id = Nil THEN "compose" ELSE "list"]
  <2>1. Away(t)
    BY ZenonT(60) DEF Away, Idle, Task, TaskFields, PassPcs
  <2> HIDE DEF t
  <2>2. Goto(p, t)
    BY <1>3 DEF t
  <2> QED
    BY <1>1, <1>3, <2>1, <2>2, OutsideKeeps DEF Outside, volume_vars
<1>4. Away([Idle EXCEPT !.work = "Terminated", !.pc = "list"])
  BY Zenon DEF Away, Idle, Task, TaskFields, PassPcs
<1>5. CASE /\ Goto(p, [Idle EXCEPT !.work = "Terminated", !.pc = "list"])
           /\ UNCHANGED <<desired, pass_vars>>
  BY <1>1, <1>4, <1>5, OutsideKeeps DEF Outside, volume_vars
<1>6. CASE StartPass(p, [Idle EXCEPT !.work = "Terminated", !.pc = "list"], desired')
  BY <1>1, <1>4, <1>6, PassStarts DEF Away
<1> QED
  BY <1>2, <1>3, <1>5, <1>6, Zenon DEF Begin

\* With its sandbox gone, a terminated pod's volumes are let go in a pass.
LEMMA SandboxRemoved ==
    ASSUME VolInv, NEW p \in Pods, RemoveSandbox(p)
    PROVE  VolInv'
<1>1. /\ tasks[p].pc = "remove_sandbox" /\ p \notin Passing /\ Task(tasks[p])
      /\ UNCHANGED <<mounted, disk>>
  BY DEF RemoveSandbox, At, Passing, VolInv, Shape
<1>2. CASE StartPass(p, tasks[p], desired')
  BY <1>1, <1>2, PassStarts
<1>3. CASE Goto(p, Idle) /\ UNCHANGED <<desired, pass_vars>>
  BY <1>1, <1>3, IdleAway, OutsideKeeps DEF Outside, volume_vars
<1> QED
  BY <1>2, <1>3 DEF RemoveSandbox

\* The steps that call the container runtime or end the call.
OutsideStep(p) ==
    \/ SyncWorker(p) \/ SandboxStatus(p) \/ CleanStop(p) \/ CleanRemove(p) \/ RunSandbox(p)
    \/ ListContainers(p) \/ CreateContainer(p) \/ StartContainer(p) \/ StopContainer(p)
    \/ RemoveContainer(p) \/ StopSandbox(p) \/ ComposeStatus(p) \/ Finish(p)

\* Each of them is a step outside, from its own place.
LEMMA OutsideSteps ==
    ASSUME VolInv, NEW p \in Pods, OutsideStep(p)
    PROVE  Outside(p)
<1>1. Task(tasks[p])
  BY DEF VolInv, Shape
<1>2. \A l : l \notin PassPcs => Away([tasks[p] EXCEPT !.pc = l])
  BY <1>1, JumpAway
<1>3. ASSUME NEW l, l \notin PassPcs, Jump(p, l)
      PROVE  \E t : Away(t) /\ Goto(p, t)
  BY <1>2, <1>3 DEF Jump
<1>4. CASE SyncWorker(p)
  <2>1. PICK l \in {"compose", "status", "run"} : Jump(p, l)
    BY <1>4 DEF SyncWorker
  <2> QED
    BY <1>3, <1>4, <2>1 DEF SyncWorker, Outside, At, PassPcs
<1>5. CASE SandboxStatus(p)
  <2>1. PICK l \in {"list", "clean_stop"} : Jump(p, l)
    BY <1>5 DEF SandboxStatus
  <2> QED
    BY <1>3, <1>5, <2>1 DEF SandboxStatus, Outside, At, PassPcs
<1>6. CASE CleanStop(p)
  BY <1>3, <1>6 DEF CleanStop, Outside, At, PassPcs
<1>7. CASE CleanRemove(p)
  BY <1>3, <1>7 DEF CleanRemove, Outside, At, PassPcs
<1>8. CASE RunSandbox(p)
  <2>1. PICK end : Return(p, end, [tasks[p] EXCEPT !.pc = "list"])
    BY <1>8 DEF RunSandbox
  <2>2. Away([tasks[p] EXCEPT !.pc = "list"])
    BY <1>2 DEF PassPcs
  <2>3. \E t : Away(t) /\ Goto(p, t)
    BY <2>1, <2>2, ReturnAway
  <2> QED
    BY <1>8, <2>3 DEF RunSandbox, Outside, At
<1>9. CASE ListContainers(p)
  <2> DEFINE t == tasks[p]
             S(x, y) == Onward([t EXCEPT !.todo = x, !.kill = y])
             T(y) == Onward([t EXCEPT !.kill = y])
             R(x, y) == [t EXCEPT !.pc = "remove", !.todo = x, !.kill = y]
  <2>1. PICK x, y, z, w, v, end :
          Return(p, end, CASE t.work = "Sync" -> S(x, y)
                           [] t.work = "Terminating" -> T(z)
                           [] t.work = "Terminated" -> R(w, v))
    BY <1>9, ZenonT(60) DEF ListContainers
  <2>2. Task([t EXCEPT !.todo = x, !.kill = y]) /\ Task([t EXCEPT !.kill = z])
    BY <1>1, Zenon DEF Task, TaskFields
  <2>3. Away(S(x, y)) /\ Away(T(z))
    BY <2>2, OnwardAway
  <2>4. Away(R(w, v))
    BY <1>1, Zenon DEF Away, Task, TaskFields, PassPcs
  <2>5. t.work \in {"Sync", "Terminating", "Terminated"}
    BY <1>1 DEF Task
  <2> HIDE DEF t, S, T, R
  <2>6. Away(CASE t.work = "Sync" -> S(x, y)
               [] t.work = "Terminating" -> T(z)
               [] t.work = "Terminated" -> R(w, v))
    BY <2>3, <2>4, <2>5
  <2>7. \E u : Away(u) /\ Goto(p, u)
    BY Zenon, <2>1, <2>6, ReturnAway
  <2> QED
    BY <1>9, <2>7, SMTT(60) DEF ListContainers, Outside, At
<1>10. CASE CreateContainer(p)
  <2>1. PICK n, end :
          Return(p, end, [tasks[p] EXCEPT !.pc = "start", !.current = New(p), !.todo = @ \ {n}])
    BY <1>10, Zenon DEF CreateContainer
  <2>2. Away([tasks[p] EXCEPT !.pc = "start", !.current = New(p), !.todo = @ \ {n}])
    BY <1>1, Zenon DEF Away, Task, TaskFields, PassPcs
  <2>3. \E t : Away(t) /\ Goto(p, t)
    BY <2>1, <2>2, ReturnAway
  <2> QED
    BY <1>10, <2>3 DEF CreateContainer, Outside, At
<1>11. CASE StartContainer(p)
  <2>1. PICK end : Return(p, end, Onward([tasks[p] EXCEPT !.current = Nil]))
    BY <1>11 DEF StartContainer
  <2>2. Task([tasks[p] EXCEPT !.current = Nil])
    BY <1>1 DEF Task, TaskFields
  <2>3. \E t : Away(t) /\ Goto(p, t)
    BY <2>1, <2>2, OnwardAway, ReturnAway
  <2> QED
    BY <1>11, <2>3 DEF StartContainer, Outside, At
<1>12. CASE StopContainer(p)
  <2> DEFINE K(i) == [tasks[p] EXCEPT !.kill = @ \ {i}]
  <2>1. PICK i, end :
          Return(p, end, IF At(p, "kill") THEN Onward(K(i)) ELSE [K(i) EXCEPT !.current = i])
    BY <1>12, Zenon DEF StopContainer
  <2>2. tasks[p].pc \in {"kill", "remove"}
    BY <1>12 DEF StopContainer
  <2>3. Task(K(i)) /\ Away(K(i))
    BY <1>1, <2>2 DEF Away, Task, TaskFields, PassPcs
  <2> HIDE DEF K
  <2>4. Away([K(i) EXCEPT !.current = i])
    BY <2>3 DEF Away, Task, TaskFields
  <2>5. Away(IF At(p, "kill") THEN Onward(K(i)) ELSE [K(i) EXCEPT !.current = i])
    BY <2>3, <2>4, OnwardAway
  <2>6. \E t : Away(t) /\ Goto(p, t)
    BY <2>1, <2>5, ReturnAway
  <2> QED
    BY <1>12, <2>2, <2>6 DEF StopContainer, Outside
<1>13. CASE RemoveContainer(p)
  <2>1. PICK i, end : Return(p, end, [tasks[p] EXCEPT !.todo = @ \ {i}, !.current = Nil])
    BY <1>13, Zenon DEF RemoveContainer
  <2>2. Away([tasks[p] EXCEPT !.todo = @ \ {i}, !.current = Nil])
    BY <1>1, <1>13, Zenon DEF RemoveContainer, At, Away, Task, TaskFields, PassPcs
  <2>3. \E t : Away(t) /\ Goto(p, t)
    BY <2>1, <2>2, ReturnAway
  <2> QED
    BY <1>13, <2>3, SMTT(60) DEF RemoveContainer, Outside, At
<1>14. CASE StopSandbox(p)
  <2>1. Away([tasks[p] EXCEPT !.pc = "remove_sandbox"])
    BY <1>2 DEF PassPcs
  <2>2. PICK end : \/ Return(p, end, [tasks[p] EXCEPT !.pc = "remove_sandbox"])
                   \/ Goto(p, Idle)
    BY <1>14 DEF StopSandbox
  <2>3. \E t : Away(t) /\ Goto(p, t)
    BY <2>1, <2>2, ReturnAway, IdleAway
  <2> QED
    BY <1>14, <2>3 DEF StopSandbox, Outside, At
<1>15. CASE ComposeStatus(p)
  BY <1>15, IdleAway DEF ComposeStatus, Outside, At
<1>16. CASE Finish(p)
  BY <1>16, IdleAway DEF Finish, Outside, At
<1> QED
  BY <1>4, <1>5, <1>6, <1>7, <1>8, <1>9, <1>10, <1>11, <1>12, <1>13, <1>14, <1>15, <1>16
     DEF OutsideStep

\* The steps of the runtime and of the status manager are of no pass.
LEMMA OtherSteps ==
    ASSUME VolInv, UNCHANGED <<tasks, volume_vars, pass_vars>>
    PROVE  VolInv'
BY DEF VolInv, Shape, Alone, NeverOverlapped, Passing, volume_vars, pass_vars

\* A pass that runs alone makes progress, and what is on disk follows what is
\* marked mounted, in every reachable state.
THEOREM VolumeInvariance == Spec => []VolInv
<1>1. Init => VolInv
  <2> SUFFICES ASSUME Init PROVE VolInv
    OBVIOUS
  <2>1. tasks = [p \in Pods |-> Idle] /\ disk = mounted /\ overlapped = FALSE
    BY DEF Init
  <2>2. Shape /\ Passing = {}
    BY <2>1, IdleAway DEF Shape, Passing
  <2> QED
    BY <2>1, <2>2, ZenonT(60) DEF VolInv, Alone, NeverOverlapped
<1>2. VolInv /\ [Next]_vars => VolInv'
  <2> SUFFICES ASSUME VolInv, [Next]_vars PROVE VolInv'
    OBVIOUS
  <2>1. ASSUME NEW p \in Pods, Begin(p) PROVE VolInv'
    BY <2>1, CallBegins
  <2>2. ASSUME NEW p \in Pods, SetUp(p) PROVE VolInv'
    BY <2>2, VolumeSetUp
  <2>3. ASSUME NEW p \in Pods, MarkMounted(p) PROVE VolInv'
    BY <2>3, VolumeMarked
  <2>4. ASSUME NEW p \in Pods, TearDown(p) PROVE VolInv'
    BY <2>4, VolumeTornDown
  <2>5. ASSUME NEW p \in Pods, MarkUnmounted(p) PROVE VolInv'
    BY <2>5, VolumeUnmarked
  <2>6. ASSUME NEW p \in Pods, RemoveSandbox(p) PROVE VolInv'
    BY <2>6, SandboxRemoved
  <2>7. ASSUME NEW p \in Pods, OutsideStep(p) PROVE VolInv'
    BY <2>7, OutsideSteps, OutsideKeeps
  <2>8. ASSUME NEW p \in Pods, ContainerExits(p) \/ SandboxFails(p) PROVE VolInv'
    BY <2>8, OtherSteps DEF ContainerExits, SandboxFails
  <2>9. CASE FlushStart \/ FlushWrite
    BY <2>9, OtherSteps DEF FlushStart, FlushWrite
  <2>10. CASE UNCHANGED vars
    BY <2>10, OtherSteps DEF vars
  <2> QED
    BY <2>1, <2>2, <2>3, <2>4, <2>5, <2>6, <2>7, <2>8, <2>9, <2>10 DEF Next, OutsideStep
<1> QED
  BY <1>1, <1>2, PTL DEF Spec

\* Reconciler::reconcile_once reconciles: a pass that no other overlapped ends
\* with exactly the desired volumes mounted and, if no two passes have ever
\* overlapped, on disk, whatever failed in the passes before it.
THEOREM PassesReconcile == Spec => []Reconciled
<1>1. VolInv => Reconciled
  <2> SUFFICES ASSUME VolInv, NEW p \in Pods, tasks[p].pc = "reconciled", p \in solo
               PROVE  mounted = desired /\ (overlapped \/ disk = desired)
    BY DEF Reconciled, At
  <2>1. p \in Passing
    BY DEF Passing
  <2>2. mounted = desired
    BY <2>1 DEF VolInv, Alone, Progress
  <2>3. overlapped = FALSE => disk = mounted
    BY <2>1 DEF VolInv, NeverOverlapped, OnDisk
  <2> QED
    BY <2>2, <2>3 DEF VolInv
<1> QED
  BY <1>1, VolumeInvariance, PTL

=============================================================================
