--------------------------- MODULE HandlerLifecycle ---------------------------
(***************************************************************************)
(* The process: main starts Logger, Timer and Handler and stops them in    *)
(* the opposite order.  Handler starts its components one by one, and      *)
(* takes them down after a signal (stop, then join) or when one of them    *)
(* does not start (failStart).  Components are reduced to what the order   *)
(* of these steps depends on: connections, business tasks, the candidates  *)
(* the tasks leave in the queue, and the tasks of the maintenance pool,    *)
(* which has one worker and runs its queue in order.                       *)
(***************************************************************************)
EXTENDS Integers, Sequences

CONSTANTS
    MaxConns,            \* connections at a time
    MaxTasks,            \* business tasks in a run
    MaxRounds,           \* maintenance rounds in a run
    PoolCapacity,        \* maintenance_pool.queue_capacity
    CanFail,             \* a component may not start
    PartsMayFail         \* an event loop, or the acceptor, may fail at run time

VARIABLES
    main, logger, timer,
    h,                   \* HandlerState
    step,                \* where start, stop, join or failStart is
    result,              \* of join: join_status
    late,                \* the shutdown deadline has passed
    acceptor, loops, workers, pool, feature, blacklist,
    conns,
    queued, running, tasks,              \* business tasks: waiting, at work, so far
    open, candidates, discarded, refused, \* the candidate queue
    jobs, job, rounds,   \* the maintenance pool: its queue, what runs, rounds so far
    final                \* final_drain_finished_, final_drain_result_
outer == <<main, logger, timer>>
parts == <<acceptor, loops, workers, pool, feature, blacklist>>
work == <<conns, queued, running, tasks>>
cands == <<open, candidates, discarded, refused>>
maint == <<jobs, job, rounds, final>>
vars == <<main, logger, timer, h, step, result, late, acceptor, loops, workers, pool, feature,
          blacklist, conns, queued, running, tasks, open, candidates, discarded, refused,
          jobs, job, rounds, final>>

Init ==
    /\ main = "logger" /\ logger = "off" /\ timer = "off"
    /\ h = "Constructed" /\ step = "none" /\ result = "Ok" /\ late = FALSE
    /\ acceptor = "absent" /\ loops = "absent" /\ workers = "absent" /\ pool = "absent"
    /\ feature = "absent" /\ blacklist = "absent"
    /\ conns = 0 /\ queued = 0 /\ running = 0 /\ tasks = 0
    /\ open = TRUE /\ candidates = 0 /\ discarded = 0 /\ refused = 0
    /\ jobs = <<>> /\ job = "none" /\ rounds = 0 /\ final = "none"

-----------------------------------------------------------------------------
(* main: startRuntime, the wait for a signal, stopRuntime. *)
inner == <<h, step, result, late, parts, work, cands, maint>>
Succeeds == {TRUE} \cup {~CanFail}
StartLogger ==
    /\ main = "logger"
    /\ \E ok \in Succeeds :
          main' = (IF ok THEN "timer" ELSE "exit") /\ logger' = (IF ok THEN "running" ELSE "over")
    /\ UNCHANGED <<timer, inner>>
StartTimer ==
    /\ main = "timer"
    /\ \E ok \in Succeeds :
          main' = (IF ok THEN "init" ELSE "stopLogger") /\ timer' = (IF ok THEN "running" ELSE "over")
    /\ UNCHANGED <<logger, inner>>
InitHandler ==
    /\ main = "init" /\ h = "Constructed"
    /\ \E ok \in Succeeds :
          main' = (IF ok THEN "start" ELSE "stop") /\ h' = (IF ok THEN "Initialized" ELSE h)
    /\ UNCHANGED <<logger, timer, step, result, late, parts, work, cands, maint>>
Signal ==
    /\ main = "signal" /\ main' = "stop"
    /\ UNCHANGED <<logger, timer, inner>>
StopTimer ==
    /\ main = "stopTimer" /\ main' = "stopLogger" /\ timer' = "over"
    /\ UNCHANGED <<logger, inner>>
StopLogger ==
    /\ main = "stopLogger" /\ main' = "exit" /\ logger' = "over"
    /\ UNCHANGED <<timer, inner>>

-----------------------------------------------------------------------------
(* Handler::start.  A part that throws is absent; one that does not start   *)
(* is there, and idle.                                                      *)
quiet == <<result, late, work, cands, maint>>
Outcomes(started, idle) == {started} \cup (IF CanFail THEN {"absent", idle} ELSE {})
Pools ==
    /\ main = "start" /\ step = "none" /\ h = "Initialized"
    /\ \E w \in Outcomes("open", "absent") :
          /\ workers' = w
          /\ \E p \in (IF w = "open" THEN Outcomes("open", "absent") ELSE {"absent"}) :
                pool' = p /\ step' = IF p = "open" THEN "feature" ELSE "failed"
    /\ UNCHANGED <<outer, h, acceptor, loops, feature, blacklist, quiet>>
StartFeature ==
    /\ step = "feature" /\ feature' \in Outcomes("running", "idle")
    /\ step' = IF feature' = "running" THEN "blacklist" ELSE "failed"
    /\ UNCHANGED <<outer, h, acceptor, loops, workers, pool, blacklist, quiet>>
StartBlacklist ==
    /\ step = "blacklist" /\ blacklist' \in Outcomes("running", "idle")
    /\ step' = IF blacklist' = "running" THEN "loops" ELSE "failed"
    /\ UNCHANGED <<outer, h, acceptor, loops, workers, pool, feature, quiet>>
StartLoops ==
    /\ step = "loops" /\ loops' \in Outcomes("running", "failed")
    /\ step' = IF loops' = "running" THEN "acceptor" ELSE "failed"
    /\ UNCHANGED <<outer, h, acceptor, workers, pool, feature, blacklist, quiet>>
StartAcceptor ==
    /\ step = "acceptor" /\ acceptor' \in Outcomes("running", "failed")
    /\ LET ok == acceptor' = "running"
       IN  /\ step' = (IF ok THEN "none" ELSE "failed")
           /\ h' = (IF ok THEN "Running" ELSE h) /\ main' = (IF ok THEN "signal" ELSE main)
    /\ UNCHANGED <<logger, timer, loops, workers, pool, feature, blacklist, quiet>>

(* failStart sets its own deadline.  The acceptor, the last to start, is    *)
(* not running, so its join returns at once.                                *)
FailStart ==
    /\ step = "failed" /\ step' = "beginDrain"
    /\ UNCHANGED <<outer, h, parts, quiet>>

(* Handler::stop, a call at a time; it does nothing to a handler that has   *)
(* failed, and then join only reports.                                      *)
StopHandler ==
    /\ main = "stop" /\ step = "none"
    /\ IF h = "Running"
       THEN h' = "Stopping" /\ step' = "stopAcceptor" /\ UNCHANGED main
       ELSE /\ h' = (IF h = "Failed" THEN h ELSE "Stopped") /\ main' = "stopTimer" /\ UNCHANGED step
    /\ UNCHANGED <<logger, timer, parts, quiet>>
StopAcceptor ==
    /\ step = "stopAcceptor" /\ step' = "beginDrain"
    /\ acceptor' = IF acceptor = "running" THEN "stopping" ELSE acceptor
    /\ UNCHANGED <<outer, h, loops, workers, pool, feature, blacklist, quiet>>
BeginDrain ==
    /\ step = "beginDrain" /\ step' = "closeWorkers"
    /\ loops' = IF loops = "running" THEN "draining" ELSE loops
    /\ UNCHANGED <<outer, h, acceptor, workers, pool, feature, blacklist, quiet>>
Joining == h = "Stopping"
CloseWorkers ==
    /\ step = "closeWorkers" /\ step' = IF Joining THEN "acceptorJoin" ELSE "workersDrain"
    /\ workers' = IF workers = "open" THEN "closed" ELSE workers
    /\ UNCHANGED <<outer, h, acceptor, loops, pool, feature, blacklist, quiet>>

-----------------------------------------------------------------------------
(* Handler::join, and the rest of stopStartedComponents.                    *)
WorseOverwrites(bad) == IF bad THEN "JoinFailed" ELSE "Ok"
Worse(bad) == IF bad THEN "JoinFailed" ELSE result
AcceptorJoin ==
    /\ step = "acceptorJoin" /\ acceptor \in {"over", "failed"} /\ step' = "workersDrain"
    /\ result' = Worse(acceptor = "failed")
    /\ UNCHANGED <<outer, h, late, parts, work, cands, maint>>

(* drainUntil of the business pool: when the deadline passes, what waits is *)
(* cancelled; what runs goes on.                                            *)
WorkersDrain ==
    /\ step = "workersDrain" /\ step' = "loopsDrain"
    /\ queued + running = 0 \/ late
    /\ queued' = 0
    /\ UNCHANGED <<outer, h, result, late, parts, conns, running, tasks, cands, maint>>
LoopsDrainPatient ==
    /\ step = "loopsDrain" /\ step' = "loopsStop"
    /\ loops # "draining" \/ conns = 0
    /\ result' = Worse(loops # "draining")
    /\ UNCHANGED <<outer, h, late, parts, work, cands, maint>>
LoopsDrain ==
    /\ step = "loopsDrain" /\ step' = "loopsStop"
    /\ loops # "draining" \/ conns = 0 \/ late
    /\ result' = Worse(loops # "draining")
    /\ UNCHANGED <<outer, h, late, parts, work, cands, maint>>

(* event_loops->join() != Ok || worker_pool->join() != Ok: join does not    *)
(* join the pool when the loops have failed; failStart always does.         *)
LoopsStop ==
    /\ step = "loopsStop"
    /\ step' = IF Joining /\ loops = "failed" THEN "queueClose" ELSE "workersJoin"
    /\ result' = Worse(loops = "failed")
    /\ loops' = (IF loops = "absent" THEN loops ELSE "over") /\ conns' = 0
    /\ UNCHANGED <<outer, h, late, acceptor, workers, pool, feature, blacklist, queued, running, tasks,
                   cands, maint>>
WorkersJoin ==
    /\ step = "workersJoin" /\ queued + running = 0 /\ step' = "queueClose"
    /\ workers' = IF workers = "absent" THEN workers ELSE "over"
    /\ UNCHANGED <<outer, h, acceptor, loops, pool, feature, blacklist, quiet>>
QueueClose ==
    /\ step = "queueClose" /\ step' = "finalDrain" /\ open' = FALSE
    /\ feature' = (IF feature = "absent" THEN feature ELSE "stopped")
    /\ blacklist' = (IF blacklist = "absent" THEN blacklist ELSE "stopped")
    /\ UNCHANGED <<outer, h, result, late, acceptor, loops, workers, pool, work, candidates,
                   discarded, refused, maint>>

(* finalDrainUntil puts a last task behind what the pool already has, if it *)
(* has room, and waits for it until the deadline.                           *)
FinalDrain ==
    /\ step = "finalDrain"
    /\ IF late \/ blacklist = "absent" \/ Len(jobs) = PoolCapacity
       THEN step' = "poolDrain" /\ result' = Worse(TRUE) /\ UNCHANGED jobs
       ELSE step' = "finalWait" /\ jobs' = Append(jobs, "final") /\ UNCHANGED result
    /\ UNCHANGED <<outer, h, late, parts, work, cands, job, rounds, final>>
FinalWait ==
    /\ step = "finalWait" /\ (final # "none" \/ late) /\ step' = "poolDrain"
    /\ result' = Worse(final # "done")
    /\ UNCHANGED <<outer, h, late, parts, work, cands, maint>>

(* close and drainUntil of the maintenance pool, then its join. *)
PoolDrain ==
    /\ step = "poolDrain" /\ step' = "poolJoin"
    /\ (jobs = <<>> /\ job = "none") \/ late
    /\ jobs' = <<>> /\ pool' = IF pool = "absent" THEN pool ELSE "closed"
    /\ UNCHANGED <<outer, h, result, late, acceptor, loops, workers, feature, blacklist, work, cands,
                   job, rounds, final>>
PoolJoin ==
    /\ step = "poolJoin" /\ job = "none" /\ step' = "discard"
    /\ pool' = IF pool = "absent" THEN pool ELSE "over"
    /\ UNCHANGED <<outer, h, acceptor, loops, workers, feature, blacklist, quiet>>
Discard ==
    /\ step = "discard" /\ step' = "reset"
    /\ candidates' = 0 /\ discarded' = discarded + candidates /\ result' = Worse(candidates > 0)
    /\ UNCHANGED <<outer, h, late, parts, work, open, refused, maint>>

(* resetStartedComponents.  The business pool goes last, and its destructor *)
(* joins it if nobody has.                                                  *)
Reset ==
    /\ step = "reset" /\ step' = "resetWorkers"
    /\ acceptor' = "absent" /\ loops' = "absent" /\ blacklist' = "absent" /\ feature' = "absent"
    /\ pool' = "absent"
    /\ UNCHANGED <<outer, h, workers, quiet>>
ResetWorkersAtOnce ==
    /\ step = "resetWorkers" /\ step' = "none" /\ workers' = "absent"
    /\ h' = IF Joining /\ result = "Ok" THEN "Stopped" ELSE "Failed"
    /\ result' = IF Joining THEN result ELSE "StartFailed"
    /\ main' = IF Joining THEN "stopTimer" ELSE "stop"
    /\ UNCHANGED <<logger, timer, late, acceptor, loops, pool, feature, blacklist, work, cands, maint>>
ResetWorkers ==
    /\ step = "resetWorkers" /\ queued + running = 0 /\ step' = "none" /\ workers' = "absent"
    /\ h' = IF Joining /\ result = "Ok" THEN "Stopped" ELSE "Failed"
    /\ result' = IF Joining THEN result ELSE "StartFailed"
    /\ main' = IF Joining THEN "stopTimer" ELSE "stop"
    /\ UNCHANGED <<logger, timer, late, acceptor, loops, pool, feature, blacklist, work, cands, maint>>

-----------------------------------------------------------------------------
(* The components at work. *)
frame == <<outer, h, step, result, late>>
AcceptorEnds ==
    /\ acceptor = "stopping" /\ acceptor' = "over"
    /\ UNCHANGED <<frame, loops, workers, pool, feature, blacklist, work, cands, maint>>
AcceptorFails ==
    /\ PartsMayFail /\ acceptor \in {"running", "stopping"} /\ acceptor' = "failed"
    /\ UNCHANGED <<frame, loops, workers, pool, feature, blacklist, work, cands, maint>>
Accept ==
    /\ acceptor = "running" /\ loops = "running" /\ conns < MaxConns /\ conns' = conns + 1
    /\ UNCHANGED <<frame, parts, queued, running, tasks, cands, maint>>
ConnCloses ==
    /\ conns > 0 /\ conns' = conns - 1
    /\ UNCHANGED <<frame, parts, queued, running, tasks, cands, maint>>

(* A loop that fails takes its own connections with it; the others of the   *)
(* group see the stop request after the event they are at.                  *)
LoopsFail ==
    /\ PartsMayFail /\ loops \in {"running", "draining"} /\ loops' = "failed"
    /\ conns' \in 0..conns
    /\ UNCHANGED <<frame, acceptor, workers, pool, feature, blacklist, queued, running, tasks, cands,
                   maint>>
Submit ==
    /\ loops \in {"running", "draining", "failed"} /\ conns > 0 /\ workers = "open"
    /\ tasks < MaxTasks /\ tasks' = tasks + 1 /\ queued' = queued + 1
    /\ UNCHANGED <<frame, parts, conns, running, cands, maint>>
TaskBegins ==
    /\ queued > 0 /\ queued' = queued - 1 /\ running' = running + 1
    /\ UNCHANGED <<frame, parts, conns, tasks, cands, maint>>

(* 0: nothing to propose, told to stop in time, or the queue full. *)
TaskEnds ==
    /\ running > 0 /\ running' = running - 1
    /\ \E candidate \in {0, 1} :
          /\ candidates' = candidates + (IF open THEN candidate ELSE 0)
          /\ refused' = refused + (IF open THEN 0 ELSE candidate)
    /\ UNCHANGED <<frame, parts, conns, queued, tasks, open, discarded, maint>>

(* A tick of either kind of maintenance: one round of a kind at a time, and *)
(* only while there is room in the queue.                                   *)
Kinds == {"feature", "round"}
Ticking(kind) == (IF kind = "feature" THEN feature ELSE blacklist) = "running"
InFlight(kind) == job = kind \/ \E i \in 1..Len(jobs) : jobs[i] = kind
Submitted(kind) ==
    /\ Ticking(kind) /\ pool = "open" /\ rounds < MaxRounds
    /\ Len(jobs) < PoolCapacity /\ jobs' = Append(jobs, kind) /\ rounds' = rounds + 1
Tick(kind) ==
    /\ ~InFlight(kind) /\ Submitted(kind)
    /\ UNCHANGED <<frame, parts, work, cands, job, final>>
JobBegins ==
    /\ job = "none" /\ jobs # <<>> /\ job' = Head(jobs) /\ jobs' = Tail(jobs)
    /\ UNCHANGED <<frame, parts, work, cands, rounds, final>>
FeatureEnds ==
    /\ job = "feature" /\ job' = "none"
    /\ UNCHANGED <<frame, parts, work, cands, jobs, rounds, final>>

(* A round that ends submits the next one itself when a tick came meanwhile. *)
RoundEnds ==
    /\ job = "round" /\ job' = "none" /\ candidates' \in 0..candidates
    /\ UNCHANGED <<jobs, rounds>> \/ Submitted("round")
    /\ UNCHANGED <<frame, parts, work, open, discarded, refused, final>>

(* runFinalDrain succeeds only on an empty queue, and may fail on one. *)
FinalEnds ==
    /\ job = "final" /\ job' = "none" /\ candidates' \in 0..candidates
    /\ final' \in {"failed"} \cup (IF candidates' = 0 THEN {"done"} ELSE {})
    /\ UNCHANGED <<frame, parts, work, open, discarded, refused, jobs, rounds>>
Starting == {"none", "feature", "blacklist", "loops", "acceptor", "failed"}
Deadline ==
    /\ ~late /\ step \notin Starting /\ late' = TRUE
    /\ UNCHANGED <<outer, h, step, result, parts, work, cands, maint>>

-----------------------------------------------------------------------------
MainStep ==
    \/ StartLogger \/ StartTimer \/ InitHandler \/ StopTimer \/ StopLogger
    \/ Pools \/ StartFeature \/ StartBlacklist \/ StartLoops \/ StartAcceptor \/ FailStart
    \/ StopHandler \/ StopAcceptor \/ BeginDrain \/ CloseWorkers
    \/ AcceptorJoin \/ WorkersDrain \/ LoopsDrain \/ LoopsStop \/ WorkersJoin \/ QueueClose
    \/ FinalDrain \/ FinalWait \/ PoolDrain \/ PoolJoin \/ Discard \/ Reset \/ ResetWorkers
WorkerStep == TaskBegins \/ TaskEnds
PoolStep == JobBegins \/ FeatureEnds \/ RoundEnds \/ FinalEnds
Exited == main = "exit" /\ UNCHANGED vars
Next ==
    \/ MainStep \/ WorkerStep \/ PoolStep \/ Deadline \/ Signal
    \/ AcceptorEnds \/ AcceptorFails \/ Accept \/ ConnCloses \/ LoopsFail \/ Submit
    \/ \E kind \in Kinds : Tick(kind)
    \/ Exited

Spec == Init /\ [][Next]_vars

(* Threads run, tasks end and the deadline passes.  Connections need not    *)
(* close by themselves, and a signal need not come.                         *)
FairSpec ==
    /\ Spec /\ WF_vars(MainStep) /\ WF_vars(WorkerStep) /\ WF_vars(PoolStep)
    /\ WF_vars(AcceptorEnds) /\ WF_vars(Deadline)

-----------------------------------------------------------------------------
Lives == {"off", "running", "over"}
PoolStates == {"absent", "open", "closed", "over"}
TypeOK ==
    /\ logger \in Lives /\ timer \in Lives
    /\ h \in {"Constructed", "Initialized", "Running", "Stopping", "Stopped", "Failed"}
    /\ result \in {"Ok", "JoinFailed", "StartFailed"} /\ {late, open} \subseteq BOOLEAN
    /\ acceptor \in {"absent", "running", "stopping", "failed", "over"}
    /\ loops \in {"absent", "running", "draining", "failed", "over"}
    /\ workers \in PoolStates /\ pool \in PoolStates
    /\ {feature, blacklist} \subseteq {"absent", "idle", "running", "stopped"}
    /\ conns \in 0..MaxConns /\ {queued, running, tasks} \subseteq 0..MaxTasks
    /\ {candidates, discarded, refused} \subseteq 0..MaxTasks
    /\ Len(jobs) <= PoolCapacity /\ rounds \in 0..MaxRounds
    /\ job \in Kinds \cup {"none", "final"} /\ final \in {"none", "done", "failed"}

(* The variables keep their types, and what a thread uses is there while    *)
(* the thread may use it: the acceptor has its loops; loops and both kinds  *)
(* of maintenance have the timer; tasks have their pool; a maintenance task *)
(* has its own pool and the business pool, whose load it reads; and all of  *)
(* it has the logger.  A handler that has stopped, or has failed to start   *)
(* or to stop, leaves no component, no connection and no task behind.       *)
LayersHold ==
    /\ TypeOK
    /\ acceptor \in {"running", "stopping"} => loops \notin {"absent", "over"}
    /\ loops \in {"running", "draining"} => workers # "absent" /\ timer = "running"
    /\ "running" \in {feature, blacklist} => pool # "absent" /\ timer = "running"
    /\ queued + running > 0 => workers \in {"open", "closed"} /\ logger = "running"
    /\ job # "none" => pool \in {"open", "closed"} /\ workers # "absent" /\ logger = "running"
    /\ h \in {"Stopped", "Failed"} =>
          /\ {acceptor, loops, workers, pool, feature, blacklist} = {"absent"}
          /\ conns = 0 /\ queued = 0 /\ running = 0 /\ jobs = <<>> /\ job = "none"

(* The candidate queue is closed only when no business task can offer a     *)
(* candidate any more: none is lost to a closed queue.                      *)
LastCandidatesKept == refused = 0

(* When join reports success, every candidate that was offered has been     *)
(* handed to Redis: none was thrown away at the end, none came too late.    *)
OkMeansStored == h = "Stopped" /\ result = "Ok" =>
    candidates = 0 /\ discarded = 0 /\ refused = 0

(* After the signal, or a failed start, the process ends: the deadline cuts *)
(* off every wait that does not end by itself.                              *)
ShutdownEnds == main = "stop" \/ step = "failed" ~> main = "exit"
==============================================================================
