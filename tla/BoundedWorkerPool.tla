-------------------------- MODULE BoundedWorkerPool --------------------------
(***************************************************************************)
(* The bounded worker pool (class BoundedWorkerPool): a ring buffer of     *)
(* tasks, worker threads that sleep on work_available_, and the controller *)
(* that closes, drains and joins it.  A step is one critical section of    *)
(* mutex_; a notification sent after the unlock is a step of its own.      *)
(***************************************************************************)
EXTENDS Integers, FiniteSets, Sequences

CONSTANTS
    Workers,    \* the threads of the pool
    Tasks,      \* tasks that callers submit, each once
    Capacity,   \* queue_capacity
    None        \* no task

ASSUME PoolAssumption ==
    /\ IsFiniteSet(Workers) /\ Capacity \in Nat \ {0} /\ None \notin Tasks

VARIABLES
    slots, head, tail, size,   \* queue_, queue_head_, queue_tail_, queue_size_
    inflight, accepting,       \* inflight_, accepting_
    state,                     \* state_ of the pool
    pc, holds,                 \* worker -> where it is, the task it runs
    notices, noticeAll,        \* notify_one and notify_all calls still to happen
    ctl,                       \* where the controller is in close, drain, join
    fate                       \* history: task -> what became of it

vars == <<slots, head, tail, size, inflight, accepting, state, pc, holds,
          notices, noticeAll, ctl, fate>>
ring == <<slots, head, tail, size>>

Init ==
    /\ slots = [i \in 0..(Capacity - 1) |-> None]
    /\ head = 0 /\ tail = 0 /\ size = 0 /\ inflight = 0
    /\ accepting = TRUE /\ state = "Running"
    /\ pc = [w \in Workers |-> "check"] /\ holds = [w \in Workers |-> None]
    /\ notices = 0 /\ noticeAll = FALSE
    /\ ctl = "up" /\ fate = [t \in Tasks |-> "new"]

After(i, n) == (i + n) % Capacity

-----------------------------------------------------------------------------
(* trySubmit *)
SubmitRefused(t) ==
    /\ fate[t] = "new"
    /\ ~accepting \/ size >= Capacity
    /\ fate' = [fate EXCEPT ![t] = "refused"]
    /\ UNCHANGED <<ring, inflight, accepting, state, pc, holds, notices, noticeAll, ctl>>

SubmitUncounted(t) ==
    /\ fate[t] = "new" /\ accepting /\ size < Capacity
    /\ slots' = [slots EXCEPT ![tail] = t]
    /\ tail' = After(tail, 1) /\ size' = size + 1
    /\ notices' = notices + 1
    /\ fate' = [fate EXCEPT ![t] = "accepted"]
    /\ UNCHANGED <<head, inflight, accepting, state, pc, holds, noticeAll, ctl>>
Submit(t) ==
    /\ fate[t] = "new" /\ accepting /\ size < Capacity
    /\ slots' = [slots EXCEPT ![tail] = t]
    /\ tail' = After(tail, 1) /\ size' = size + 1 /\ inflight' = inflight + 1
    /\ notices' = notices + 1
    /\ fate' = [fate EXCEPT ![t] = "accepted"]
    /\ UNCHANGED <<head, accepting, state, pc, holds, noticeAll, ctl>>

(* The notifications reach a sleeper, all of them, or nobody. *)
Sleepers == {w \in Workers : pc[w] = "sleep"}
NotifyOne ==
    /\ notices > 0 /\ notices' = notices - 1
    /\ \/ Sleepers = {} /\ UNCHANGED pc
       \/ \E w \in Sleepers : pc' = [pc EXCEPT ![w] = "check"]
    /\ UNCHANGED <<ring, inflight, accepting, state, holds, noticeAll, ctl, fate>>
NotifyAll ==
    /\ noticeAll /\ noticeAll' = FALSE
    /\ pc' = [w \in Workers |-> IF pc[w] = "sleep" THEN "check" ELSE pc[w]]
    /\ UNCHANGED <<ring, inflight, accepting, state, holds, notices, ctl, fate>>

-----------------------------------------------------------------------------
(* workerLoop: the predicate of the wait, an exit, or the next task; then   *)
(* the task ends, normally or with an exception.                            *)
Sleep(w) ==
    /\ pc[w] = "check" /\ accepting /\ size = 0
    /\ pc' = [pc EXCEPT ![w] = "sleep"]
    /\ UNCHANGED <<ring, inflight, accepting, state, holds, notices, noticeAll, ctl, fate>>
Wake(w) ==
    /\ pc[w] = "sleep" /\ pc' = [pc EXCEPT ![w] = "check"]
    /\ UNCHANGED <<ring, inflight, accepting, state, holds, notices, noticeAll, ctl, fate>>
LeaveEarly(w) ==
    /\ pc[w] = "check" /\ ~accepting
    /\ pc' = [pc EXCEPT ![w] = "exit"]
    /\ UNCHANGED <<ring, inflight, accepting, state, holds, notices, noticeAll, ctl, fate>>
LeaveLoop(w) ==
    /\ pc[w] = "check" /\ ~accepting /\ size = 0
    /\ pc' = [pc EXCEPT ![w] = "exit"]
    /\ UNCHANGED <<ring, inflight, accepting, state, holds, notices, noticeAll, ctl, fate>>
Take(w) ==
    /\ pc[w] = "check" /\ size > 0
    /\ holds' = [holds EXCEPT ![w] = slots[head]]
    /\ slots' = [slots EXCEPT ![head] = None]
    /\ head' = After(head, 1) /\ size' = size - 1
    /\ pc' = [pc EXCEPT ![w] = "run"]
    /\ UNCHANGED <<tail, inflight, accepting, state, notices, noticeAll, ctl, fate>>
Finish(w) ==
    /\ pc[w] = "run"
    /\ fate' = [fate EXCEPT ![holds[w]] = "done"]
    /\ holds' = [holds EXCEPT ![w] = None]
    /\ inflight' = inflight - 1
    /\ pc' = [pc EXCEPT ![w] = "check"]
    /\ UNCHANGED <<ring, accepting, state, notices, noticeAll, ctl>>

-----------------------------------------------------------------------------
(* close, drainUntil, join, called in this order by one controller. *)
CloseSilently ==
    /\ ctl = "up"
    /\ accepting' = FALSE /\ state' = "Closing" /\ ctl' = "drain"
    /\ UNCHANGED <<ring, inflight, pc, holds, notices, noticeAll, fate>>
Close ==
    /\ ctl = "up"
    /\ accepting' = FALSE /\ state' = "Closing" /\ noticeAll' = TRUE /\ ctl' = "drain"
    /\ UNCHANGED <<ring, inflight, pc, holds, notices, fate>>

DrainOk ==
    /\ ctl = "drain" /\ inflight = 0
    /\ ctl' = "drained"
    /\ UNCHANGED <<ring, inflight, accepting, state, pc, holds, notices, noticeAll, fate>>

(* The deadline passes: what is queued is taken out and destroyed. *)
Queued == {slots[After(head, i)] : i \in 0..(size - 1)}
DrainDeadline ==
    /\ ctl = "drain" /\ inflight # 0
    /\ fate' = [t \in Tasks |-> IF t \in Queued THEN "cancelled" ELSE fate[t]]
    /\ slots' = [i \in 0..(Capacity - 1) |-> None]
    /\ head' = After(head, size) /\ tail' = After(head, size) /\ size' = 0
    /\ inflight' = inflight - size
    /\ noticeAll' = TRUE /\ ctl' = "expired"
    /\ UNCHANGED <<accepting, state, pc, holds, notices>>

Join ==
    /\ ctl \in {"drained", "expired"}
    /\ \A w \in Workers : pc[w] = "exit"
    /\ state' = "Stopped" /\ ctl' = "joined"
    /\ UNCHANGED <<ring, inflight, accepting, pc, holds, notices, noticeAll, fate>>

Terminated ==
    /\ ctl = "joined" /\ notices = 0 /\ ~noticeAll /\ \A t \in Tasks : fate[t] # "new"
    /\ UNCHANGED vars

Next ==
    \/ \E t \in Tasks : Submit(t) \/ SubmitRefused(t)
    \/ NotifyOne \/ NotifyAll
    \/ \E w \in Workers : Sleep(w) \/ Wake(w) \/ LeaveLoop(w) \/ Take(w) \/ Finish(w)
    \/ Close \/ DrainOk \/ DrainDeadline \/ Join \/ Terminated

Spec == Init /\ [][Next]_vars

(* Threads run, sent notifications arrive, tasks end, and the controller,   *)
(* once it has closed the pool, goes on.  No spurious wake-up is assumed.   *)
WorkerProgress(w) == Sleep(w) \/ LeaveLoop(w) \/ Take(w) \/ Finish(w)
FairSpec ==
    /\ Spec
    /\ \A w \in Workers : WF_vars(WorkerProgress(w))
    /\ WF_vars(NotifyOne) /\ WF_vars(NotifyAll)
    /\ WF_vars(DrainOk \/ Join)

-----------------------------------------------------------------------------
Running == {w \in Workers : pc[w] = "run"}

(* Type invariant. *)
TypeOK ==
    /\ slots \in [0..(Capacity - 1) -> Tasks \cup {None}]
    /\ head \in 0..(Capacity - 1) /\ tail \in 0..(Capacity - 1) /\ size \in 0..Capacity
    /\ inflight \in Nat /\ accepting \in BOOLEAN /\ noticeAll \in BOOLEAN
    /\ state \in {"Running", "Closing", "Stopped"}
    /\ pc \in [Workers -> {"check", "sleep", "run", "exit"}]
    /\ holds \in [Workers -> Tasks \cup {None}]
    /\ notices \in Nat
    /\ ctl \in {"up", "drain", "drained", "expired", "joined"}
    /\ fate \in [Tasks -> {"new", "refused", "accepted", "done", "cancelled"}]

(* inflightCount, which the reset barrier relies on, counts exactly the     *)
(* accepted tasks that are queued or running: none before it is taken, none *)
(* after it ended or was cancelled.                                         *)
InflightExact == inflight = size + Cardinality(Running)

(* After drainUntil returned Ok, and after join, no task is queued or runs. *)
QuietAfterDrain ==
    (ctl = "drained" \/ state = "Stopped") => size = 0 /\ Running = {}

(* Every accepted task ends or is cancelled although notify_one is sent     *)
(* after the unlock and may find no sleeper.                                *)
AcceptedEnds == \A t \in Tasks : fate[t] = "accepted" ~> fate[t] \in {"done", "cancelled"}

(* A pool that is closed is eventually joined: no worker sleeps for ever.   *)
CloseLeadsToJoin == ctl = "drain" ~> state = "Stopped"
==============================================================================
