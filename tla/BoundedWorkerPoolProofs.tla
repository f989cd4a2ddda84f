----------------------- MODULE BoundedWorkerPoolProofs -----------------------
(***************************************************************************)
(* For any number of workers, tasks and slots: inflightCount is exact, and *)
(* a pool that drained or was joined is quiet.                             *)
(***************************************************************************)
EXTENDS BoundedWorkerPool, FiniteSetTheorems, TLAPS

(* What the controller's position says about the rest of the pool. *)
Phases ==
    /\ accepting = (ctl = "up")
    /\ state = "Stopped" => ctl = "joined"
    /\ ctl = "drained" => inflight = 0
    /\ ctl \in {"drained", "expired", "joined"} => size = 0
    /\ ctl = "joined" => \A w \in Workers : pc[w] = "exit"

PoolInv == TypeOK /\ InflightExact /\ Phases

(* The workers that run a task are finitely many. *)
LEMMA RunningFinite == IsFiniteSet(Running) /\ Cardinality(Running) \in Nat
  BY PoolAssumption, FS_Subset, FS_CardinalityType DEF Running

(* A new pool has empty slots and no running worker. *)
LEMMA InitPool == Init => PoolInv
<1> SUFFICES ASSUME Init PROVE PoolInv
  OBVIOUS
<1>1. TypeOK
  <2>1. 0 \in 0..(Capacity - 1) /\ 0 \in 0..Capacity
    BY PoolAssumption
  <2> QED
    BY <2>1 DEF Init, TypeOK
<1>2. Running = {}
  BY DEF Init, Running
<1>3. InflightExact
  BY <1>2, FS_EmptySet DEF Init, InflightExact
<1> QED
  BY <1>1, <1>3 DEF Init, Phases, PoolInv

(* Indices of the ring stay within its slots. *)
LEMMA RingType ==
  ASSUME NEW i \in Nat, NEW n \in Nat PROVE After(i, n) \in 0..(Capacity - 1)
  BY PoolAssumption DEF After

(* An accepted task is counted when it is queued, a refused one never. *)
LEMMA SubmitPool ==
  ASSUME PoolInv, NEW t \in Tasks, Submit(t) \/ SubmitRefused(t) PROVE PoolInv'
<1>1. Running' = Running
  BY DEF Submit, SubmitRefused, Running
<1>2. TypeOK'
  <2>1. CASE Submit(t)
    <3>1. tail' \in 0..(Capacity - 1)
      BY <2>1, RingType DEF Submit, PoolInv, TypeOK
    <3> QED
      BY <2>1, <3>1, PoolAssumption DEF Submit, PoolInv, TypeOK
  <2>2. CASE SubmitRefused(t)
    BY <2>2 DEF SubmitRefused, ring, PoolInv, TypeOK
  <2> QED
    BY <2>1, <2>2
<1>3. InflightExact'
  BY <1>1, RunningFinite DEF Submit, SubmitRefused, ring, PoolInv, TypeOK, InflightExact
<1>4. Phases'
  BY DEF Submit, SubmitRefused, ring, PoolInv, TypeOK, Phases
<1> QED
  BY <1>2, <1>3, <1>4 DEF PoolInv

(* Notifications, sleeping and leaving the loop run no task. *)
LEMMA WakePool ==
  ASSUME PoolInv,
         NotifyOne \/ NotifyAll
           \/ \E w \in Workers : Sleep(w) \/ Wake(w) \/ LeaveLoop(w)
  PROVE  PoolInv'
<1>1. TypeOK'
  <2>1. CASE NotifyOne
    BY <2>1 DEF NotifyOne, Sleepers, ring, PoolInv, TypeOK
  <2>2. CASE NotifyAll
    BY <2>2 DEF NotifyAll, ring, PoolInv, TypeOK
  <2>3. CASE \E w \in Workers : Sleep(w) \/ Wake(w) \/ LeaveLoop(w)
    BY <2>3 DEF Sleep, Wake, LeaveLoop, ring, PoolInv, TypeOK
  <2> QED
    BY <2>1, <2>2, <2>3
<1>2. Running' = Running
  BY DEF NotifyOne, NotifyAll, Sleepers, Sleep, Wake, LeaveLoop, PoolInv, TypeOK, Running
<1>3. InflightExact'
  BY <1>2 DEF NotifyOne, NotifyAll, Sleep, Wake, LeaveLoop, ring, PoolInv, InflightExact
<1>4. Phases'
  BY DEF NotifyOne, NotifyAll, Sleepers, Sleep, Wake, LeaveLoop, ring, PoolInv, TypeOK, Phases
<1> QED
  BY <1>1, <1>3, <1>4 DEF PoolInv

(* Taking a task moves its count from the queue to a worker. *)
LEMMA TakePool ==
  ASSUME PoolInv, NEW w \in Workers, Take(w) PROVE PoolInv'
<1>1. head' \in 0..(Capacity - 1)
  BY RingType DEF Take, PoolInv, TypeOK
<1>2. TypeOK'
  BY <1>1, PoolAssumption DEF Take, PoolInv, TypeOK
<1>3. Running' = Running \cup {w} /\ w \notin Running
  BY DEF Take, PoolInv, TypeOK, Running
<1>4. Cardinality(Running') = Cardinality(Running) + 1
  BY <1>3, RunningFinite, FS_AddElement
<1>5. InflightExact'
  BY <1>4, RunningFinite DEF Take, PoolInv, TypeOK, InflightExact
<1>6. Phases'
  BY DEF Take, PoolInv, TypeOK, Phases
<1> QED
  BY <1>2, <1>5, <1>6 DEF PoolInv

(* The end of a task gives its count back. *)
LEMMA FinishPool ==
  ASSUME PoolInv, NEW w \in Workers, Finish(w) PROVE PoolInv'
<1>1. Running' = Running \ {w} /\ w \in Running
  BY DEF Finish, PoolInv, TypeOK, Running
<1>2. Cardinality(Running') = Cardinality(Running) - 1
  BY <1>1, RunningFinite, FS_RemoveElement
<1>3. Cardinality(Running) # 0
  BY <1>1, RunningFinite, FS_EmptySet
<1>4. inflight > 0 /\ inflight \in Nat
  BY <1>3, RunningFinite DEF PoolInv, TypeOK, InflightExact
<1>5. TypeOK'
  <2>1. inflight' \in Nat
    BY <1>4 DEF Finish
  <2>2. fate' \in [Tasks -> {"new", "refused", "accepted", "done", "cancelled"}]
    BY DEF Finish, PoolInv, TypeOK
  <2>3. /\ pc' \in [Workers -> {"check", "sleep", "run", "exit"}]
        /\ holds' \in [Workers -> Tasks \cup {None}]
    BY DEF Finish, PoolInv, TypeOK
  <2> QED
    BY <2>1, <2>2, <2>3 DEF Finish, ring, PoolInv, TypeOK
<1>6. InflightExact'
  BY <1>2, RunningFinite DEF Finish, ring, PoolInv, TypeOK, InflightExact
<1>7. Phases'
  BY <1>4 DEF Finish, ring, PoolInv, TypeOK, Phases
<1> QED
  BY <1>5, <1>6, <1>7 DEF PoolInv

(* close, drainUntil and join: a deadline gives back all queued counts at once. *)
LEMMA ControlPool ==
  ASSUME PoolInv, Close \/ DrainOk \/ DrainDeadline \/ Join PROVE PoolInv'
<1>1. Running' = Running
  BY DEF Close, DrainOk, DrainDeadline, Join, Running
<1>2. CASE Close
  <2>1. TypeOK' /\ InflightExact'
    BY <1>1, <1>2 DEF Close, ring, PoolInv, TypeOK, InflightExact
  <2> QED
    BY <1>2, <2>1 DEF Close, ring, PoolInv, TypeOK, Phases
<1>3. CASE DrainOk
  <2>1. TypeOK' /\ InflightExact'
    BY <1>1, <1>3 DEF DrainOk, ring, PoolInv, TypeOK, InflightExact
  <2>2. size = 0
    BY <1>3, RunningFinite DEF DrainOk, PoolInv, TypeOK, InflightExact
  <2> QED
    BY <1>3, <2>1, <2>2 DEF DrainOk, ring, PoolInv, TypeOK, Phases
<1>4. CASE DrainDeadline
  <2>1. inflight - size = Cardinality(Running) /\ inflight - size \in Nat
    BY RunningFinite DEF PoolInv, TypeOK, InflightExact
  <2>2. head' \in 0..(Capacity - 1) /\ tail' \in 0..(Capacity - 1)
    BY <1>4, RingType DEF DrainDeadline, PoolInv, TypeOK
  <2>3. TypeOK'
    BY <1>4, <2>1, <2>2, PoolAssumption DEF DrainDeadline, PoolInv, TypeOK
  <2>4. InflightExact'
    BY <1>1, <1>4, <2>1, RunningFinite DEF DrainDeadline, InflightExact
  <2> QED
    BY <1>4, <2>3, <2>4 DEF DrainDeadline, PoolInv, TypeOK, Phases
<1>5. CASE Join
  <2>1. TypeOK' /\ InflightExact'
    BY <1>1, <1>5 DEF Join, ring, PoolInv, TypeOK, InflightExact
  <2> QED
    BY <1>5, <2>1 DEF Join, ring, PoolInv, TypeOK, Phases
<1> QED
  BY <1>2, <1>3, <1>4, <1>5

(* A stuttering step. *)
LEMMA StutterPool == ASSUME PoolInv, UNCHANGED vars PROVE PoolInv'
<1>1. Running' = Running
  BY DEF vars, Running
<1> QED
  BY <1>1 DEF vars, ring, PoolInv, TypeOK, InflightExact, Phases

(* A drained or joined pool is quiet: none queued, none running. *)
LEMMA Quiet == PoolInv => QuietAfterDrain
<1> SUFFICES ASSUME PoolInv, ctl = "drained" \/ state = "Stopped"
             PROVE  size = 0 /\ Running = {}
  BY DEF QuietAfterDrain
<1>1. CASE ctl = "drained"
  <2>1. size = 0 /\ Cardinality(Running) = 0
    BY <1>1, RunningFinite DEF PoolInv, TypeOK, InflightExact, Phases
  <2> QED
    BY <2>1, RunningFinite, FS_EmptySet
<1>2. CASE state = "Stopped"
  BY <1>2 DEF PoolInv, Phases, Running
<1> QED
  BY <1>1, <1>2

(* inflight_ counts exactly the queued and the running tasks, whatever the  *)
(* interleaving of submitters, workers and the draining thread, and after   *)
(* drainUntil returned Ok or join returned nothing is queued or runs.       *)
THEOREM PoolCountsExactly == Spec => [](TypeOK /\ InflightExact /\ QuietAfterDrain)
<1>1. PoolInv /\ [Next]_vars => PoolInv'
  <2> SUFFICES ASSUME PoolInv, [Next]_vars PROVE PoolInv'
    OBVIOUS
  <2>1. CASE \E t \in Tasks : Submit(t) \/ SubmitRefused(t)
    BY <2>1, SubmitPool
  <2>2. CASE NotifyOne \/ NotifyAll
               \/ \E w \in Workers : Sleep(w) \/ Wake(w) \/ LeaveLoop(w)
    BY <2>2, WakePool
  <2>3. CASE \E w \in Workers : Take(w) \/ Finish(w)
    BY <2>3, TakePool, FinishPool
  <2>4. CASE Close \/ DrainOk \/ DrainDeadline \/ Join
    BY <2>4, ControlPool
  <2>5. CASE UNCHANGED vars
    BY <2>5, StutterPool
  <2>6. CASE Terminated
    BY <2>6, StutterPool DEF Terminated
  <2> QED
    BY <2>1, <2>2, <2>3, <2>4, <2>5, <2>6 DEF Next
<1>2. PoolInv => TypeOK /\ InflightExact /\ QuietAfterDrain
  BY Quiet DEF PoolInv
<1> QED
  BY InitPool, <1>1, <1>2, PTL DEF Spec
==============================================================================
