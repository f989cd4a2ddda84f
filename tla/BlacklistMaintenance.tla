------------------------- MODULE BlacklistMaintenance -------------------------
(***************************************************************************)
(* The server's side of the blacklist: start-up (initializeBlacklistCache, *)
(* loadInitialBlacklist), the maintenance round (BlacklistMaintenanceCore),*)
(* the business tasks that feed it, and the shutdown of Handler::join as   *)
(* far as it concerns candidates.                                          *)
(*                                                                         *)
(* One maintenance worker runs one round at a time, so the round is a      *)
(* program counter; a step is one remote command, one WATCH with the reads *)
(* under it, or one access to state shared with the business workers.      *)
(***************************************************************************)
EXTENDS BlacklistStore

CONSTANTS
    Capacity, BatchSize, CounterMax,   \* of the candidate queue
    Times,          \* instants of the wall clock
    TTL,            \* life of an automatic entry, kTemporaryIpTtlMs
    MaxRequests     \* bound on the business tasks of one behaviour

VARIABLES
    queued, reserved, closed, dropped, reported, lostAtStop, taken,
    lifecycle,  \* "down", "starting", "running" or "stopping"
    srv,        \* the maintenance worker: pc and locals of the current round
    pub,        \* what BlacklistManager and BlacklistMaintenanceState hold
    tasks,      \* business tasks from acceptance to completion
    requests    \* how many business tasks were accepted so far

Server == "server"

CandidateSet == [key : Keys, exp : Nat, epoch : Nat]
Queue == INSTANCE CandidateQueue WITH
            Candidates <- CandidateSet, MaxSubmits <- MaxRequests, ledger <- {}
queueVars == <<queued, reserved, closed, dropped, reported, lostAtStop, taken>>
serverVars == <<lifecycle, srv, pub, tasks, requests>>

-----------------------------------------------------------------------------
(* The locals of a round.  mode says which of the four callers is running:  *)
(* a "round", a round that handles a reset "barrier", the "final" drain, or *)
(* the "boot" of the cache.                                                 *)
At(pc) == [pc |-> pc, mode |-> "round", token |-> 0, cleanup |-> FALSE, nowMs |-> 0,
           rev |-> 0, seen |-> <<>>, base |-> Nothing, batch |-> <<>>, rows |-> Nothing]
NotPublished == [snapshot |-> Nothing, rev |-> 0, dirty |-> FALSE, base |-> Nothing]

(* shouldStop: stop() of the maintenance follows the closing of the queue.  *)
(* Checked are the points of a round where the code looks at it.            *)
Checked == {"barrier", "reserve", "drain", "inflight2", "refresh", "remove",
            "install", "publish", "flush", "mysql", "xdel"}
StoppedAlways == closed /\ srv.pc \in Checked
Stopped == closed /\ srv.mode \in {"round", "barrier"} /\ srv.pc \in Checked
Pc(l) == lifecycle # "down" /\ srv.pc = l /\ ~Stopped
Goto(l) == srv' = [srv EXCEPT !.pc = l] /\ UNCHANGED lifecycle
Enter(l) == srv' = [At(l) EXCEPT !.mode = srv.mode] /\ UNCHANGED lifecycle

(* Leaving the current call without success: a round ends and waits for the *)
(* next tick, the final drain proceeds to the discard, start-up fails.      *)
Leave ==
    /\ srv' = At(CASE srv.mode = "boot" -> "off" [] srv.mode = "final" -> "exit"
                   [] OTHER -> "idle")
    /\ lifecycle' = IF srv.mode = "boot" THEN "down" ELSE lifecycle

(* flushOneCandidateBatch failed: a plain round ends, a drain tries again.  *)
RetryOrLeave == IF srv.mode = "round" THEN Leave ELSE Goto("drain")

-----------------------------------------------------------------------------
(* Business tasks.  inflightCount counts a task from its acceptance to its  *)
(* completion; a task submits at most one candidate, for an entity that the *)
(* current snapshot does not list.  epoch is history: the number of reset   *)
(* requests before the task was accepted.                                   *)
AcceptTask ==
    /\ lifecycle = "running" /\ requests < MaxRequests
    /\ requests' = requests + 1
    /\ tasks' = tasks \cup {[n |-> requests', epoch |-> redis.requested, done |-> FALSE]}
    /\ UNCHANGED <<storeVars, queueVars, lifecycle, srv, pub>>

EvaluateTask(t, k) ==
    /\ ~t.done
    /\ ~Listed(pub.snapshot[k], now)
    /\ Queue!TrySubmit([key |-> k, exp |-> now + TTL, epoch |-> t.epoch])
    /\ tasks' = (tasks \ {t}) \cup {[t EXCEPT !.done = TRUE]}
    /\ UNCHANGED <<storeVars, lifecycle, srv, pub, requests>>

FinishTask(t) ==
    /\ tasks' = tasks \ {t}
    /\ UNCHANGED <<storeVars, queueVars, lifecycle, srv, pub, requests>>

BusinessStep ==
    \/ AcceptTask
    \/ \E t \in tasks : FinishTask(t) \/ \E k \in Keys : EvaluateTask(t, k)

-----------------------------------------------------------------------------
(* runRound *)
RoundStart(cleanupDue) ==
    /\ Pc("idle") /\ ~closed
    /\ Queue!TakeDropped
    /\ srv' = [At("barrier") EXCEPT !.cleanup = cleanupDue, !.nowMs = now]
    /\ UNCHANGED <<storeVars, lifecycle, pub, tasks, requests>>

ReadBarrier ==
    /\ Pc("barrier")
    /\ IF ResetPending
       THEN srv' = [srv EXCEPT !.mode = "barrier", !.token = redis.requested, !.pc = "inflight"]
       ELSE srv' = [srv EXCEPT !.pc = "reserve"]
    /\ UNCHANGED <<storeVars, queueVars, lifecycle, pub, tasks, requests>>

(* handleResetBarrier: first check, drain, second check, completion. *)
FirstInflightCheck ==
    /\ Pc("inflight")
    /\ IF tasks = {}
       THEN Goto("drain") /\ Queue!TakeDropped
       ELSE Leave /\ UNCHANGED queueVars
    /\ UNCHANGED <<storeVars, pub, tasks, requests>>

SecondInflightCheck ==
    /\ Pc("inflight2")
    /\ IF tasks = {} THEN Goto("empty2") ELSE Leave
    /\ UNCHANGED <<storeVars, queueVars, pub, tasks, requests>>

SecondEmptyCheck ==
    /\ Pc("empty2")
    /\ IF Queue!QueueEmpty THEN Goto("complete") ELSE Leave
    /\ UNCHANGED <<storeVars, queueVars, pub, tasks, requests>>

CompleteWatch ==
    /\ Pc("complete")
    /\ IF CompletePrecondition(srv.token)
       THEN Goto("completeExec") /\ Watch(Server, BarrierWatched)
       ELSE Leave /\ UNCHANGED watch
    /\ UNCHANGED <<redis, mysql, now, faults, queueVars, pub, tasks, requests>>

CompleteExec(ok) ==
    /\ Pc("completeExec")
    /\ IF Conflict(Server)
       THEN Unwatch(Server) /\ Leave /\ UNCHANGED <<redis, faults>>
       ELSE /\ CompleteBarrier(Server, srv.token) /\ Reply(ok)
            /\ IF ok THEN Goto("refresh") ELSE Leave
    /\ UNCHANGED <<mysql, now, queueVars, pub, tasks, requests>>

(* flushOneCandidateBatch, in a round or in the loop of drainCandidatesUntil *)
Reserve ==
    /\ Pc("reserve")
    /\ Queue!ReserveBatch
    /\ Goto(IF reserved' = <<>> THEN "refresh" ELSE "apply")
    /\ UNCHANGED <<storeVars, pub, tasks, requests>>

Drain ==
    /\ Pc("drain")
    /\ IF Queue!QueueEmpty
       THEN Goto(IF srv.mode = "final" THEN "exit" ELSE "inflight2") /\ UNCHANGED queueVars
       ELSE Queue!ReserveBatch /\ Goto("apply")
    /\ UNCHANGED <<storeVars, pub, tasks, requests>>

ReservedMutations ==
    [i \in DOMAIN reserved |-> Upsert(reserved[i].key, reserved[i].exp)]

ApplyWatch ==
    /\ Pc("apply")
    /\ IF ApplyPrecondition
       THEN Goto("applyExec") /\ Watch(Server, ApplyWatched)
       ELSE RetryOrLeave /\ UNCHANGED watch
    /\ UNCHANGED <<redis, mysql, now, faults, queueVars, pub, tasks, requests>>

ApplyExecIgnoresConflict(ok) ==
    /\ Pc("applyExec")
    /\ IF Conflict(Server)
       THEN Unwatch(Server) /\ Goto("ack") /\ UNCHANGED <<redis, faults>>
       ELSE /\ ApplyCommit(Server, ReservedMutations) /\ Reply(ok)
            /\ IF ok THEN Goto("ack") ELSE RetryOrLeave
    /\ UNCHANGED <<mysql, now, queueVars, pub, tasks, requests>>
ApplyExec(ok) ==
    /\ Pc("applyExec")
    /\ IF Conflict(Server)
       THEN Unwatch(Server) /\ RetryOrLeave /\ UNCHANGED <<redis, faults>>
       ELSE /\ ApplyCommit(Server, ReservedMutations) /\ Reply(ok)
            /\ IF ok THEN Goto("ack") ELSE RetryOrLeave
    /\ UNCHANGED <<mysql, now, queueVars, pub, tasks, requests>>

Acknowledge ==
    /\ Pc("ack")
    /\ Queue!AcknowledgeReserved
    /\ Goto(IF srv.mode = "round" THEN "refresh" ELSE "drain")
    /\ UNCHANGED <<storeVars, pub, tasks, requests>>

-----------------------------------------------------------------------------
(* refreshSnapshotAndExpiry: any failure inside it only skips to the next   *)
(* part of the round.  The scan reads the entities one at a time.           *)
SkipRefresh == IF srv.mode = "boot" THEN Leave ELSE Enter("publish")

Refresh ==
    /\ Pc("refresh")
    /\ IF ~srv.cleanup /\ redis.revision = pub.rev THEN Enter("publish") ELSE Goto("scan")
    /\ UNCHANGED <<storeVars, queueVars, pub, tasks, requests>>

ScanBegin ==
    /\ Pc("scan")
    /\ srv' = [srv EXCEPT !.pc = "hscan", !.rev = redis.revision,
                          !.seen = <<>>, !.base = redis.hash]
    /\ UNCHANGED <<storeVars, queueVars, lifecycle, pub, tasks, requests>>

ScanKey(k) ==
    /\ Pc("hscan") /\ k \notin DOMAIN srv.seen
    /\ srv' = [srv EXCEPT !.seen = (k :> redis.hash[k]) @@ @]
    /\ UNCHANGED <<storeVars, queueVars, lifecycle, pub, tasks, requests>>

ExpiredSeen == {k \in DOMAIN srv.seen : Expired(srv.seen[k], srv.nowMs)}

ScanEndUnchecked ==
    /\ Pc("hscan") /\ DOMAIN srv.seen = Keys
    /\ Goto(IF srv.cleanup /\ ExpiredSeen # {} THEN "remove" ELSE "install")
    /\ UNCHANGED <<storeVars, queueVars, pub, tasks, requests>>
ScanEnd ==
    /\ Pc("hscan") /\ DOMAIN srv.seen = Keys
    /\ IF redis.revision # srv.rev
       THEN IF srv.mode = "boot" THEN Goto("scan") ELSE Enter("publish")
       ELSE Goto(IF srv.cleanup /\ ExpiredSeen # {} THEN "remove" ELSE "install")
    /\ UNCHANGED <<storeVars, queueVars, pub, tasks, requests>>

RemoveWatch ==
    /\ Pc("remove")
    /\ IF RemovePrecondition(srv.rev, [k \in ExpiredSeen |-> srv.seen[k]], srv.nowMs)
       THEN Goto("removeExec") /\ Watch(Server, RemoveWatched)
       ELSE Enter("publish") /\ UNCHANGED watch
    /\ UNCHANGED <<redis, mysql, now, faults, queueVars, pub, tasks, requests>>

RemoveExec(ok) ==
    /\ Pc("removeExec")
    /\ IF Conflict(Server)
       THEN Unwatch(Server) /\ Enter("publish") /\ UNCHANGED <<redis, faults>>
       ELSE /\ RemoveCommit(Server, ExpiredSeen) /\ Reply(ok)
            /\ UNCHANGED lifecycle
            /\ srv' = IF ok THEN [srv EXCEPT !.pc = "install", !.rev = @ + 1,
                                             !.base = redis'.hash]
                            ELSE [At("publish") EXCEPT !.mode = srv.mode]
    /\ UNCHANGED <<mysql, now, queueVars, pub, tasks, requests>>

(* prepareCandidate and publishCandidate; the start-up filters by the clock *)
(* of that moment, a round by the one it read when it started.              *)
Install ==
    /\ Pc("install")
    /\ LET t == IF srv.mode = "boot" THEN now ELSE srv.nowMs IN
       pub' = [snapshot |-> [k \in Keys |-> IF Listed(srv.seen[k], t)
                                            THEN srv.seen[k] ELSE NoEntry],
               rev |-> srv.rev, dirty |-> TRUE, base |-> srv.base]
    /\ Enter("publish")
    /\ UNCHANGED <<storeVars, queueVars, tasks, requests>>

(* retryPublishedRevision; at start-up it is the last step before Running.  *)
AfterPublish ==
    IF srv.mode = "boot"
    THEN srv' = At("idle") /\ lifecycle' = "running"
    ELSE Enter("flush")

Publish(ok) ==
    /\ Pc("publish")
    /\ AfterPublish
    /\ IF pub.dirty
       THEN /\ SetPublished(Server, pub.rev) /\ Reply(ok)
            /\ pub' = [pub EXCEPT !.dirty = ~ok]
       ELSE ok /\ UNCHANGED <<redis, watch, faults, pub>>
    /\ UNCHANGED <<mysql, now, queueVars, tasks, requests>>

-----------------------------------------------------------------------------
(* flushOnePendingBatch; start-up repeats the same steps until the Stream is *)
(* empty, and fails where a round only ends.                                 *)
Bad(records) == SelectSeq(records, LAMBDA r : r.op = "bad")
Valid(records) == SelectSeq(records, LAMBDA r : r.op # "bad")
AfterBatch ==
    IF srv.mode = "boot"
    THEN Enter("flush")
    ELSE Leave

FlushStopsAtBad ==
    /\ Pc("flush")
    /\ UNCHANGED lifecycle
    /\ srv' = IF PendingBatch = <<>> \/ Bad(PendingBatch) # <<>>
              THEN IF srv.mode = "boot" THEN [srv EXCEPT !.pc = "load"] ELSE At("idle")
              ELSE [srv EXCEPT !.batch = PendingBatch, !.pc = "mysql"]
    /\ UNCHANGED <<storeVars, queueVars, pub, tasks, requests>>
Flush ==
    /\ Pc("flush")
    /\ UNCHANGED lifecycle
    /\ srv' = IF PendingBatch = <<>>
              THEN IF srv.mode = "boot" THEN [srv EXCEPT !.pc = "load"] ELSE At("idle")
              ELSE [srv EXCEPT !.batch = PendingBatch,
                               !.pc = IF Bad(PendingBatch) = <<>> THEN "mysql" ELSE "purge"]
    /\ UNCHANGED <<storeVars, queueVars, pub, tasks, requests>>

Purge(ok) ==
    /\ Pc("purge")
    /\ DeletePending(Server, Ids(Bad(srv.batch))) /\ Reply(ok)
    /\ IF ~ok THEN Leave
       ELSE IF Valid(srv.batch) = <<>> THEN AfterBatch ELSE Goto("mysql")
    /\ UNCHANGED <<mysql, now, queueVars, pub, tasks, requests>>

(* The transaction may commit and still be reported as failed. *)
MysqlStep(ok) ==
    /\ Pc("mysql")
    /\ MysqlApply(Valid(srv.batch)) /\ Reply(ok)
    /\ IF ok THEN Goto("xdel") ELSE Leave
    /\ UNCHANGED <<redis, watch, now, queueVars, pub, tasks, requests>>

Xdel(ok) ==
    /\ Pc("xdel")
    /\ DeletePending(Server, Ids(Valid(srv.batch))) /\ Reply(ok)
    /\ IF ok THEN AfterBatch ELSE Leave
    /\ UNCHANGED <<mysql, now, queueVars, pub, tasks, requests>>

-----------------------------------------------------------------------------
(* initializeBlacklistCache *)
BootReadySkipsStream ==
    /\ Pc("boot")
    /\ Goto(IF redis.ready THEN "scan" ELSE "load")
    /\ UNCHANGED <<storeVars, queueVars, pub, tasks, requests>>
BootReady ==
    /\ Pc("boot")
    /\ Goto(IF redis.ready THEN "scan" ELSE "flush")
    /\ UNCHANGED <<storeVars, queueVars, pub, tasks, requests>>

BootLoad ==
    /\ Pc("load")
    /\ srv' = [srv EXCEPT !.pc = "rebuild", !.rows = LoadEnabled]
    /\ UNCHANGED <<storeVars, queueVars, lifecycle, pub, tasks, requests>>

RebuildWatch ==
    /\ Pc("rebuild")
    /\ IF redis.ready
       THEN Goto("reread") /\ UNCHANGED watch
       ELSE Goto("rebuildExec") /\ Watch(Server, RebuildWatched)
    /\ UNCHANGED <<redis, mysql, now, faults, queueVars, pub, tasks, requests>>

RebuildExec(ok) ==
    /\ Pc("rebuildExec")
    /\ IF Conflict(Server)
       THEN Unwatch(Server) /\ Goto("reread") /\ UNCHANGED <<redis, faults>>
       ELSE /\ RebuildCommit(Server, srv.rows) /\ Reply(ok)
            /\ IF ok THEN Goto("scan") ELSE Leave
    /\ UNCHANGED <<mysql, now, queueVars, pub, tasks, requests>>

BootReread ==
    /\ Pc("reread")
    /\ Goto(IF redis.ready THEN "scan" ELSE "rebuild")
    /\ UNCHANGED <<storeVars, queueVars, pub, tasks, requests>>

-----------------------------------------------------------------------------
(* A remote call that fails without an effect; a deadline; a stop request.  *)
CallFails ==
    /\ lifecycle # "down" /\ ~Stopped /\ Fails /\ Unwatch(Server)
    /\ \/ /\ srv.pc \in {"refresh", "scan", "hscan", "remove", "removeExec"}
          /\ SkipRefresh
       \/ srv.pc = "publish" /\ pub.dirty /\ AfterPublish
       \/ srv.pc \in {"apply", "applyExec"} /\ RetryOrLeave
       \/ /\ srv.pc \in {"barrier", "complete", "completeExec", "flush", "purge", "mysql",
                         "xdel", "boot", "load", "rebuild", "rebuildExec", "reread"}
          /\ Leave
    /\ UNCHANGED <<redis, mysql, now, queueVars, pub, tasks, requests>>

Deadline ==
    /\ lifecycle # "down"
    /\ srv.pc \notin {"idle", "exit", "discard", "off", "ack"}
    /\ ~(srv.mode = "boot" /\ srv.pc \in {"install", "publish"})
    /\ Fails /\ Unwatch(Server) /\ Leave
    /\ UNCHANGED <<redis, mysql, now, queueVars, pub, tasks, requests>>

StopSeen ==
    /\ Stopped /\ Leave
    /\ UNCHANGED <<storeVars, queueVars, pub, tasks, requests>>

(* Handler::stop and join: no task is accepted any more, the accepted ones  *)
(* end, the queue is closed, the final drain runs after the last round, and *)
(* what it left is discarded.                                               *)
BeginStop ==
    /\ lifecycle = "running"
    /\ lifecycle' = "stopping"
    /\ UNCHANGED <<storeVars, queueVars, srv, pub, tasks, requests>>

CloseCandidates ==
    /\ lifecycle = "stopping" /\ tasks = {} /\ ~closed
    /\ Queue!CloseQueue
    /\ UNCHANGED <<storeVars, serverVars>>

FinalDrain ==
    /\ Pc("idle") /\ closed
    /\ Queue!TakeDropped
    /\ srv' = [At("drain") EXCEPT !.mode = "final"]
    /\ UNCHANGED <<storeVars, lifecycle, pub, tasks, requests>>

ReportDropped ==
    /\ Pc("exit")
    /\ Queue!TakeDropped /\ Goto("discard")
    /\ UNCHANGED <<storeVars, pub, tasks, requests>>

Exit ==
    /\ Pc("discard")
    /\ Queue!DiscardRemaining
    /\ srv' = At("off") /\ lifecycle' = "down" /\ pub' = NotPublished
    /\ UNCHANGED <<storeVars, tasks, requests>>

NewQueue ==
    /\ queued' = <<>> /\ reserved' = <<>> /\ closed' = FALSE /\ taken' = {}
    /\ dropped' = 0 /\ reported' = 0 /\ lostAtStop' = 0

(* The process starts, or dies with everything it holds in memory. *)
Boot ==
    /\ lifecycle = "down"
    /\ lifecycle' = "starting"
    /\ srv' = [At("boot") EXCEPT !.mode = "boot"]
    /\ NewQueue
    /\ UNCHANGED <<storeVars, pub, tasks, requests>>

Crash ==
    /\ lifecycle # "down"
    /\ lifecycle' = "down" /\ srv' = At("off") /\ pub' = NotPublished /\ tasks' = {}
    /\ NewQueue
    /\ Unwatch(Server)
    /\ UNCHANGED <<redis, mysql, now, faults, requests>>

RoundStep ==
    \/ \E due \in BOOLEAN : RoundStart(due)
    \/ ReadBarrier \/ FirstInflightCheck \/ SecondInflightCheck \/ SecondEmptyCheck
    \/ CompleteWatch \/ Reserve \/ Drain \/ ApplyWatch \/ Acknowledge
    \/ Refresh \/ ScanBegin \/ ScanEnd \/ RemoveWatch \/ Install \/ Flush
    \/ \E k \in Keys : ScanKey(k)
    \/ \E ok \in BOOLEAN : CompleteExec(ok) \/ ApplyExec(ok) \/ RemoveExec(ok)
                           \/ Publish(ok) \/ Purge(ok) \/ MysqlStep(ok) \/ Xdel(ok)
BootStep ==
    \/ BootReady \/ BootLoad \/ RebuildWatch \/ BootReread
    \/ \E ok \in BOOLEAN : RebuildExec(ok)
StopStep == StopSeen \/ CloseCandidates \/ FinalDrain \/ ReportDropped \/ Exit
==============================================================================
