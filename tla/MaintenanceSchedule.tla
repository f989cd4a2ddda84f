------------------------- MODULE MaintenanceSchedule -------------------------
(***************************************************************************)
(* How the two periodic jobs are kept going and are stopped: the classes   *)
(* BlacklistMaintenance and FeatureStateMaintenance around their rounds,   *)
(* the single maintenance worker they share, the timer thread that posts   *)
(* their ticks, and the part of Handler::start and join that drives them.  *)
(*                                                                         *)
(* Each method holds the mutex of its object throughout, so it is one      *)
(* step; the timer takes an event off its heap before it posts it, and     *)
(* stop cancels the timer after it released the mutex.                     *)
(***************************************************************************)
EXTENDS Integers, Sequences, FiniteSets

CONSTANTS
    Capacity,    \* queue_capacity of the maintenance pool
    SeqCycle,    \* tick sequence numbers are 1..SeqCycle, used in turn
    MaxFull      \* how often scheduleAt may answer QueueFull

ASSUME ScheduleAssumption == Capacity \in Nat \ {0} /\ SeqCycle > 2 /\ MaxFull \in Nat

VARIABLES
    job,       \* kind -> fields of the maintenance object
    armed,     \* ticks in the timer
    posting,   \* the tick the timer thread is about to post, as a set
    pool,      \* tasks queued in the maintenance pool, oldest first
    worker,    \* what the maintenance worker runs: pc and task
    ctl,       \* where Handler is
    final,     \* the final drain: "none", "queued", "done"
    full       \* QueueFull answers so far

vars == <<job, armed, posting, pool, worker, ctl, final, full>>

Kinds == {"feature", "blacklist"}
Free == [pc |-> "free", task |-> "none"]
NewJob == [running |-> FALSE, stopped |-> FALSE, active |-> 0, next |-> 1,
           inflight |-> FALSE, pending |-> FALSE]

Init ==
    /\ job = [k \in Kinds |-> NewJob]
    /\ armed = {} /\ posting = {} /\ pool = <<>> /\ worker = Free
    /\ ctl = "startFeature" /\ final = "none" /\ full = 0

-----------------------------------------------------------------------------
(* scheduleNextLocked on the fields j of kind k, with the timer's answer ok *)
Scheduled(j, ok) == [j EXCEPT !.next = (@ % SeqCycle) + 1,
                              !.active = IF ok THEN j.next ELSE @]
TimerAnswers(k, j, ok) ==
    /\ armed' = IF ok THEN armed \cup {[kind |-> k, seq |-> j.next]} ELSE armed
    /\ full' = IF ok THEN full ELSE full + 1
    /\ ok \/ full < MaxFull

(* submitRoundLocked; when the pool refuses, the blacklist remembers the    *)
(* round and feature maintenance does not.                                  *)
Submitted(k, j) ==
    IF Len(pool) < Capacity
    THEN [j EXCEPT !.inflight = TRUE, !.pending = FALSE]
    ELSE [j EXCEPT !.pending = (k = "blacklist")]
PoolAfterSubmit(k) == IF Len(pool) < Capacity THEN Append(pool, k) ELSE pool

-----------------------------------------------------------------------------
(* start of both jobs; one that cannot schedule its first tick fails, and   *)
(* failStart stops what exists: the blacklist job is created second.        *)
StartJob(k, ok) ==
    /\ TimerAnswers(k, job[k], ok)
    /\ job' = [job EXCEPT ![k] = [Scheduled(@, ok) EXCEPT !.running = ok]]
    /\ UNCHANGED <<posting, pool, worker, final>>
StartFeature(ok) ==
    /\ ctl = "startFeature" /\ StartJob("feature", ok)
    /\ ctl' = IF ok THEN "startBlacklist" ELSE "abort"
StartBlacklist(ok) ==
    /\ ctl = "startBlacklist" /\ StartJob("blacklist", ok)
    /\ ctl' = IF ok THEN "up" ELSE "stopFeature"

(* The timer thread: a tick is due, and is posted to its job. *)
TickDue(e) ==
    /\ posting = {} /\ e \in armed
    /\ armed' = armed \ {e} /\ posting' = {e}
    /\ UNCHANGED <<job, pool, worker, ctl, final, full>>

StaleTick(e) ==
    /\ e \in posting
    /\ ~job[e.kind].running \/ job[e.kind].active # e.seq
    /\ posting' = {}
    /\ UNCHANGED <<job, armed, pool, worker, ctl, final, full>>

TryPost(e, ok) ==
    LET k == e.kind
        j == [job[k] EXCEPT !.active = 0]
    IN  /\ e \in posting /\ job[k].running /\ job[k].active = e.seq
        /\ TimerAnswers(k, j, ok)
        /\ IF j.inflight
           THEN /\ job' = [job EXCEPT ![k] = [Scheduled(j, ok) EXCEPT
                              !.pending = (k = "blacklist")]]
                /\ UNCHANGED pool
           ELSE /\ job' = [job EXCEPT ![k] = Submitted(k, Scheduled(j, ok))]
                /\ pool' = PoolAfterSubmit(k)
        /\ posting' = {} /\ UNCHANGED <<worker, ctl, final>>

-----------------------------------------------------------------------------
(* The maintenance worker. *)
TakeTask ==
    /\ worker = Free /\ pool # <<>>
    /\ worker' = [pc |-> "begin", task |-> Head(pool)] /\ pool' = Tail(pool)
    /\ UNCHANGED <<job, armed, posting, ctl, final, full>>

(* FeatureStateMaintenance::runRound looks at stopped_ first. *)
SkipRound ==
    /\ worker = [pc |-> "begin", task |-> "feature"] /\ job["feature"].stopped
    /\ job' = [job EXCEPT !["feature"].inflight = FALSE] /\ worker' = Free
    /\ UNCHANGED <<armed, posting, pool, ctl, final, full>>
BeginRound ==
    /\ worker.pc = "begin" /\ worker.task \in Kinds
    /\ worker.task = "feature" => ~job["feature"].stopped
    /\ worker' = [worker EXCEPT !.pc = "body"]
    /\ UNCHANGED <<job, armed, posting, pool, ctl, final, full>>

(* The end of a round: finishRound, and the tail of runRound. *)
RearmsNever(k) == FALSE
RearmsAlways(k) == job[k].running
Rearms(k) == job[k].running /\ job[k].active = 0
Rearm(k, ok) ==
    IF Rearms(k) THEN TimerAnswers(k, job[k], ok) ELSE ok /\ UNCHANGED <<armed, full>>
EndRoundKeepsPending(k, ok) ==
    /\ worker = [pc |-> "body", task |-> k]
    /\ Rearm(k, ok)
    /\ LET j == [job[k] EXCEPT !.inflight = FALSE]
       IN  job' = [job EXCEPT ![k] = IF Rearms(k) THEN Scheduled(j, ok) ELSE j]
    /\ worker' = Free
    /\ UNCHANGED <<pool, posting, ctl, final>>
EndRound(k, ok) ==
    /\ worker = [pc |-> "body", task |-> k]
    /\ Rearm(k, ok)
    /\ LET j == [job[k] EXCEPT !.inflight = FALSE]
           r == IF Rearms(k) THEN Scheduled(j, ok) ELSE j
       IN  IF r.running /\ r.pending
           THEN job' = [job EXCEPT ![k] = Submitted(k, r)] /\ pool' = PoolAfterSubmit(k)
           ELSE job' = [job EXCEPT ![k] = r] /\ UNCHANGED pool
    /\ worker' = Free
    /\ UNCHANGED <<posting, ctl, final>>

RunFinalDrain ==
    /\ worker = [pc |-> "begin", task |-> "final"]
    /\ final' = "done" /\ worker' = Free
    /\ UNCHANGED <<job, armed, posting, pool, ctl, full>>

-----------------------------------------------------------------------------
(* Handler::join: both jobs stop, then the final drain, then the pool. *)
StopJob(k) ==
    /\ job' = [job EXCEPT ![k].stopped = TRUE, ![k].running = FALSE, ![k].active = 0]
    /\ UNCHANGED <<armed, posting, pool, worker, final, full>>
CancelTick(k) ==
    /\ armed' = {e \in armed : e.kind # k}
    /\ UNCHANGED <<job, posting, pool, worker, final, full>>
BeginStop == /\ ctl = "up" /\ ctl' = "stopFeature"
             /\ UNCHANGED <<job, armed, posting, pool, worker, final, full>>
AbortStart == ctl = "abort" /\ StopJob("feature") /\ ctl' = "closed"
StopFeature == ctl = "stopFeature" /\ StopJob("feature") /\ ctl' = "cancelFeature"
CancelFeature == ctl = "cancelFeature" /\ CancelTick("feature") /\ ctl' = "stopBlacklist"
StopBlacklist == ctl = "stopBlacklist" /\ StopJob("blacklist") /\ ctl' = "cancelBlacklist"
CancelBlacklist == ctl = "cancelBlacklist" /\ CancelTick("blacklist") /\ ctl' = "submitFinal"

SubmitFinalInFront ==
    /\ ctl = "submitFinal" /\ Len(pool) < Capacity
    /\ pool' = <<"final">> \o pool /\ final' = "queued" /\ ctl' = "awaitFinal"
    /\ UNCHANGED <<job, armed, posting, worker, full>>
SubmitFinal ==
    /\ ctl = "submitFinal"
    /\ IF Len(pool) < Capacity
       THEN pool' = Append(pool, "final") /\ final' = "queued" /\ ctl' = "awaitFinal"
       ELSE ctl' = "closed" /\ UNCHANGED <<pool, final>>
    /\ UNCHANGED <<job, armed, posting, worker, full>>

(* The wait ends with the drain or with the deadline, which also makes the  *)
(* pool drop what it still queues.                                          *)
AwaitFinal ==
    /\ ctl = "awaitFinal" /\ final = "done" /\ ctl' = "closed"
    /\ UNCHANGED <<job, armed, posting, pool, worker, final, full>>
DeadlinePassed ==
    /\ ctl = "awaitFinal" /\ final # "done"
    /\ ctl' = "closed" /\ pool' = <<>>
    /\ UNCHANGED <<job, armed, posting, worker, final, full>>
Closed == ctl = "closed" /\ pool = <<>> /\ worker = Free /\ posting = {} /\ UNCHANGED vars

TimerStep ==
    \/ \E e \in armed : TickDue(e)
    \/ \E e \in posting : StaleTick(e) \/ \E ok \in BOOLEAN : TryPost(e, ok)
WorkerStep ==
    \/ TakeTask \/ SkipRound \/ BeginRound \/ RunFinalDrain
    \/ \E k \in Kinds, ok \in BOOLEAN : EndRound(k, ok)
StopSequence == StopFeature \/ CancelFeature \/ StopBlacklist \/ CancelBlacklist
                \/ SubmitFinal \/ AwaitFinal \/ AbortStart
Next ==
    \/ \E ok \in BOOLEAN : StartFeature(ok) \/ StartBlacklist(ok)
    \/ TimerStep \/ WorkerStep \/ BeginStop \/ StopSequence \/ DeadlinePassed \/ Closed

(* The timer thread, the worker and the stopping thread run; a deadline     *)
(* need not pass and a stop need not be asked for.                          *)
Spec == Init /\ [][Next]_vars
             /\ WF_vars(TimerStep) /\ WF_vars(WorkerStep) /\ WF_vars(StopSequence)

-----------------------------------------------------------------------------
(* Type invariant. *)
TypeOK ==
    /\ job \in [Kinds -> [running : BOOLEAN, stopped : BOOLEAN, active : 0..SeqCycle,
                          next : 1..SeqCycle, inflight : BOOLEAN, pending : BOOLEAN]]
    /\ armed \subseteq [kind : Kinds, seq : 1..SeqCycle]
    /\ Cardinality(posting) <= 1
    /\ Len(pool) <= Capacity /\ full \in 0..MaxFull

Tasks(t) == Cardinality({i \in DOMAIN pool : pool[i] = t})
            + (IF worker.task = t THEN 1 ELSE 0)

(* The fields keep their types, and ticks neither pile up rounds nor get    *)
(* lost: round_inflight_ is set exactly while the one round of its job is   *)
(* queued or runs, unless the deadline dropped it, so the bounded pool      *)
(* never refuses a round or the final drain; and while round_pending_ is    *)
(* set there is a round whose end will submit the next one, so a tick that  *)
(* came during a blacklist round never waits for another tick.              *)
RoundsMerge ==
    /\ TypeOK
    /\ \A k \in Kinds : Tasks(k) <= 1 /\ (Tasks(k) = 1 => job[k].inflight)
    /\ ctl # "closed" => \A k \in Kinds : job[k].inflight => Tasks(k) = 1
    /\ Len(pool) < Capacity \/ final # "none"
    /\ job["blacklist"].running /\ job["blacklist"].pending => Tasks("blacklist") = 1

(* A job has at most one live tick: what active_sequence_ names is armed or *)
(* about to be posted.                                                      *)
OneLiveTick ==
    \A k \in Kinds : job[k].active # 0 =>
        {e \in armed \cup posting : e.kind = k} = {[kind |-> k, seq |-> job[k].active]}

(* The final drain is a fence: when it runs, no round of the blacklist is   *)
(* queued behind it, and none ever runs after it.                           *)
FinalIsLast == (final = "done" \/ worker.task = "final") => Tasks("blacklist") = 0

(* Periodic maintenance does not die of a refused reschedule: a running job *)
(* without a tick gets one again (the retry after a round).                 *)
KeepsTicking == \A k \in Kinds :
    (job[k].running /\ job[k].active = 0) ~> (job[k].active # 0 \/ ~job[k].running)
==============================================================================
