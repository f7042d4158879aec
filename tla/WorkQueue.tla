----------------------------- MODULE WorkQueue ------------------------------
(***************************************************************************)
(* The rate-limited work queue of the controller manager (workqueue.rs) and *)
(* the loop around it (reconcile.rs): event handlers add keys while workers *)
(* hold some of them, and what a worker's reconcile answers decides when    *)
(* its key comes back.                                                      *)
(*                                                                         *)
(* A method of WorkQueue is an operator from the queue to the queue; the    *)
(* queue is used under one lock, so a method is one step.  Times are        *)
(* relative to now, so the clock needs no bound: a delayed entry holds the  *)
(* ticks until it is due.                                                   *)
(***************************************************************************)
EXTENDS Integers, Sequences, SequencesExt, FiniteSets

CONSTANTS
    Keys,         \* object keys
    Workers,      \* tasks that run step()
    Delays,       \* delays callers ask for
    base_delay, max_delay, max_retries,  \* RateLimitConfig
    MaxLate       \* bound: ticks a due key or a running reconcile may wait

ASSUME ConfigAssumption ==
    /\ Delays \subseteq Nat /\ base_delay \in Nat /\ max_delay \in Nat
    /\ max_retries \in Nat /\ MaxLate \in Nat

VARIABLES
    q,       \* the WorkQueue
    jobs,    \* per worker: its key (none when idle) and the age of its `now'
    wanted   \* history: per key, ticks until the earliest reconcile asked for
             \* since the key was last handed out

vars == <<q, jobs, wanted>>

IdleJob == [key |-> {}, age |-> 0]

\* No reconcile is asked for: later than any delay.
Never == 1 + CHOOSE n \in Delays \cup {max_delay} : \A d \in Delays \cup {max_delay} : d <= n

-----------------------------------------------------------------------------
(* Rate limiter.                                                           *)

\* base * 2^(failures - 1), clamped.
backoff_for(failures) ==
    LET d == base_delay * 2^(IF failures <= 1 THEN 0 ELSE failures - 1)
    IN  IF d < max_delay THEN d ELSE max_delay

-----------------------------------------------------------------------------
(* Methods of WorkQueue.                                                   *)

EmptyQueue ==
    [ready |-> << >>, queued |-> {}, processing |-> {}, dirty_while_processing |-> {},
     delayed |-> << >>, failures |-> [k \in Keys |-> 0]]

ready_contains(s, k) == k \in ToSet(s.ready)

\* The entry of k among the delayed ones, if any.
delayed_ready_at(s, k) == {e \in ToSet(s.delayed) : e.key = k}

remove_delayed(s, k) ==
    [s EXCEPT !.delayed = SelectSeq(@, LAMBDA e : e.key # k), !.queued = @ \ {k}]

\* Mutants of add: no look at the keys in flight; to the front of the line.
add_in_flight(s, k) ==
    IF ready_contains(s, k) THEN s
    ELSE [remove_delayed(s, k) EXCEPT !.queued = @ \cup {k}, !.ready = Append(@, k)]
add_front(s, k) ==
    IF k \in s.processing THEN [s EXCEPT !.dirty_while_processing = @ \cup {k}]
    ELSE IF ready_contains(s, k) THEN s
    ELSE [remove_delayed(s, k) EXCEPT !.queued = @ \cup {k}, !.ready = <<k>> \o @]

add(s, k) ==
    IF k \in s.processing THEN [s EXCEPT !.dirty_while_processing = @ \cup {k}]
    ELSE IF ready_contains(s, k) THEN s
    ELSE [remove_delayed(s, k) EXCEPT !.queued = @ \cup {k}, !.ready = Append(@, k)]

\* The buckets of the BTreeMap in order, each in insertion order.
schedule(D, k, at) ==
    SelectSeq(D, LAMBDA e : e.at <= at) \o <<[key |-> k, at |-> at]>>
        \o SelectSeq(D, LAMBDA e : e.at > at)

\* Mutant of add_after: the new time replaces an earlier one.
add_after_last(s, k, delay, age) ==
    IF delay = 0 THEN add(s, k)
    ELSE IF k \in s.processing THEN [s EXCEPT !.dirty_while_processing = @ \cup {k}]
    ELSE IF ready_contains(s, k) THEN s
    ELSE [remove_delayed(s, k) EXCEPT !.queued = @ \cup {k},
                                      !.delayed = schedule(@, k, delay - age)]

\* add_after(key, delay, now) with a `now' read age ticks ago.
add_after(s, k, delay, age) ==
    IF delay = 0 THEN add(s, k)
    ELSE IF k \in s.processing THEN [s EXCEPT !.dirty_while_processing = @ \cup {k}]
    ELSE IF \/ ready_contains(s, k)
            \/ \E e \in delayed_ready_at(s, k) : e.at <= delay - age
         THEN s
    ELSE [remove_delayed(s, k) EXCEPT !.queued = @ \cup {k},
                                      !.delayed = schedule(@, k, delay - age)]

exhausted(s, k) == s.failures[k] + 1 > max_retries

add_rate_limited(s, k, age) ==
    IF exhausted(s, k) THEN [s EXCEPT !.failures[k] = 0]
    ELSE add_after([s EXCEPT !.failures[k] = @ + 1], k, backoff_for(s.failures[k] + 1), age)

\* Due entries move to the ready line, in the order of their times.
flush_due(s) ==
    LET due == SelectSeq(s.delayed, LAMBDA e : e.at <= 0)
        moved == SelectSeq(due, LAMBDA e : e.key \in s.queued /\ ~ready_contains(s, e.key))
    IN  [s EXCEPT !.delayed = SelectSeq(@, LAMBDA e : e.at > 0),
                  !.ready = @ \o [i \in 1 .. Len(moved) |-> moved[i].key]]

forget(s, k) == [s EXCEPT !.failures[k] = 0]

\* Mutant of done: the dirty mark is dropped.
done_clean(s, k) ==
    [s EXCEPT !.processing = @ \ {k}, !.dirty_while_processing = @ \ {k}]

done(s, k) ==
    LET r == [s EXCEPT !.processing = @ \ {k}, !.dirty_while_processing = @ \ {k}]
    IN  IF k \in s.dirty_while_processing THEN add(r, k) ELSE r

-----------------------------------------------------------------------------
(* apply_outcome.                                                          *)

Outcomes == {[kind |-> "done"], [kind |-> "requeue"], [kind |-> "err"]}
              \cup [kind : {"after"}, delay : Delays]

apply_outcome(s, k, o, age) ==
    CASE o.kind = "done"    -> done(forget(s, k), k)
      [] o.kind = "requeue" -> add(done(forget(s, k), k), k)
      [] o.kind = "after"   -> add_after(done(forget(s, k), k), k, o.delay, age)
      [] o.kind = "err"     -> add_rate_limited(done(s, k), k, age)

-----------------------------------------------------------------------------
(* Tasks.                                                                  *)

Earlier(m, n) == IF m < n THEN m ELSE n

\* An event handler adds a key, now or after a delay.  A delay asked for a key
\* in flight is not kept: the key comes back as soon as it is done.
Request(k, delay) ==
    /\ q' = add_after(q, k, delay, 0)
    /\ wanted' = [wanted EXCEPT ![k] =
                      IF k \in q.processing THEN 0 ELSE Earlier(@, delay)]
    /\ UNCHANGED jobs

\* get: flush what is due, take the head of the line.
Get(w) ==
    LET s == flush_due(q)
    IN  /\ jobs[w] = IdleJob
        /\ s.ready # << >>
        /\ LET k == Head(s.ready)
           IN  /\ q' = [s EXCEPT !.ready = Tail(@), !.queued = @ \ {k},
                                 !.processing = @ \cup {k}]
               /\ jobs' = [jobs EXCEPT ![w] = [key |-> {k}, age |-> 0]]
               /\ wanted' = [wanted EXCEPT ![k] = Never]

\* When the loop wants the key again after its reconcile answered o.
AgainIn(k, o, age) ==
    CASE o.kind = "requeue" -> 0
      [] o.kind = "after"   -> IF o.delay = 0 THEN 0 ELSE o.delay - age
      [] o.kind = "err" /\ q.failures[k] < max_retries -> backoff_for(q.failures[k] + 1) - age
      [] OTHER              -> Never

\* The reconcile ends.  step() uses the `now' it read before the reconcile.
Finish(w, o) ==
    \E k \in jobs[w].key :
        /\ q' = apply_outcome(q, k, o, jobs[w].age)
        /\ jobs' = [jobs EXCEPT ![w] = IdleJob]
        /\ wanted' = [wanted EXCEPT ![k] = Earlier(@, AgainIn(k, o, jobs[w].age))]

\* A tick of the clock.
Tick ==
    /\ \A e \in ToSet(q.delayed) : e.at > -MaxLate
    /\ \A w \in Workers : jobs[w].age < MaxLate
    /\ q' = [q EXCEPT !.delayed = [i \in DOMAIN @ |-> [@[i] EXCEPT !.at = @ - 1]]]
    /\ jobs' = [w \in Workers |-> IF jobs[w] = IdleJob THEN IdleJob
                                  ELSE [jobs[w] EXCEPT !.age = @ + 1]]
    /\ wanted' = [k \in Keys |-> IF wanted[k] = Never \/ wanted[k] = -MaxLate
                                 THEN wanted[k] ELSE wanted[k] - 1]

Init ==
    /\ q = EmptyQueue
    /\ jobs = [w \in Workers |-> IdleJob]
    /\ wanted = [k \in Keys |-> Never]

Next ==
    \/ \E k \in Keys, d \in Delays : Request(k, d)
    \/ \E w \in Workers : Get(w)
    \/ \E w \in Workers, o \in Outcomes : Finish(w, o)
    \/ Tick

Spec == Init /\ [][Next]_vars

\* Workers loop, a reconcile ends, and time passes.
Fairness ==
    /\ \A w \in Workers : WF_vars(Get(w)) /\ WF_vars(\E o \in Outcomes : Finish(w, o))
    /\ WF_vars(Tick)

FairSpec == Spec /\ Fairness

-----------------------------------------------------------------------------
(* Properties.                                                             *)

DelayedKeys == {e.key : e \in ToSet(q.delayed)}
ReadyKeys == ToSet(q.ready)

\* A key is in one place at a time: once in the ready line, once among the
\* delayed ones, or with exactly one worker ("never processed twice at once"),
\* and the queued set of the dedup check mirrors the first two.
OnePlace ==
    /\ q.queued = ReadyKeys \cup DelayedKeys
    /\ Cardinality(q.queued) = Len(q.ready) + Len(q.delayed)
    /\ q.processing \cap q.queued = {}
    /\ q.processing = UNION {jobs[w].key : w \in Workers}
    /\ \A v, w \in Workers : v # w => jobs[v].key \cap jobs[w].key = {}
    /\ q.dirty_while_processing \subseteq q.processing

\* No wake-up is lost: a key that changed while it was queued, delayed or in
\* flight, or that must be retried, is still going to be handed out.
NoLostWakeup ==
    \A k \in Keys : wanted[k] # Never =>
        k \in ReadyKeys \cup DelayedKeys \cup q.dirty_while_processing

\* A key becomes ready at the earliest time anybody asked for and not before:
\* neither a later add_after nor the backoff of a failure postpones it, and
\* backoff is not cut short by a delay that was asked for earlier.
ReadyTimeExact ==
    /\ \A e \in ToSet(q.delayed) : e.at = wanted[e.key]
    /\ \A k \in ReadyKeys : wanted[k] <= 0

\* workqueue.rs:132 says of add: "If the key is already ready or delayed, this is
\* a no-op."  For a delayed key it is not: the code moves the key to the ready
\* line, as ReadyTimeExact says.
AddOfQueuedIsNoOp ==
    [][\A k \in Keys : (k \in ReadyKeys \cup DelayedKeys /\ Request(k, 0)) => UNCHANGED q]_vars

\* Every key that asks for a reconcile gets one, however often the others are
\* requeued.
EveryRequestServed == \A k \in Keys : (wanted[k] # Never) ~> (k \in q.processing /\ wanted[k] = Never)

=============================================================================
