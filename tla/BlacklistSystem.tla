--------------------------- MODULE BlacklistSystem ---------------------------
(***************************************************************************)
(* The blacklist as a whole: one server process, the operator's command,   *)
(* Redis and MySQL, and what happens around them: the clock, a stop, a     *)
(* crash, the loss of the cache, a foreign record in the Stream, another   *)
(* process that rebuilds the cache first.                                  *)
(***************************************************************************)
EXTENDS BlacklistMaintenance, ManageBlacklist

CONSTANTS
    InitialRows,       \* contents MySQL may have at the beginning
    Events,            \* the kinds of disturbance that may happen
    MaxEvents,         \* bound on their number in one behaviour
    MaxFaults,         \* bound on the remote calls that fail
    Batches, Aliens    \* of the abstract specification

ASSUME SystemAssumption ==
    /\ Clients = {Server, Tool}
    /\ TTL \in Nat \ {0} /\ Times \subseteq Nat \ {0}

VARIABLES
    events,            \* how many disturbances happened
    quiet              \* none, and no request, since the command began (history)

vars == <<storeVars, queueVars, serverVars, toolVars, events, quiet>>

NoRedis == [hash |-> Nothing, pending |-> <<>>, lastId |-> 0, revision |-> 0,
            ready |-> FALSE, published |-> 0, requested |-> 0, completed |-> 0]

Init ==
    /\ redis = NoRedis /\ watch = [c \in Clients |-> NoWatch]
    /\ mysql \in InitialRows /\ now = 1 /\ faults = MaxFaults
    /\ Queue!QueueInit
    /\ lifecycle = "down" /\ srv = At("off") /\ pub = NotPublished
    /\ tasks = {} /\ requests = 0
    /\ tool = NoCommand /\ commands = 0 /\ events = 0 /\ quiet = TRUE

-----------------------------------------------------------------------------
Event(kind) == kind \in Events /\ events < MaxEvents /\ events' = events + 1
Elsewhere == UNCHANGED <<queueVars, serverVars, toolVars>>

Tick ==
    /\ now + 1 \in Times
    /\ now' = now + 1
    /\ UNCHANGED <<redis, watch, mysql, faults, events>> /\ Elsewhere

(* Redis loses cache_ready and some fields while no server relies on them.  *)
LoseCache(ks) ==
    /\ lifecycle = "down" \/ (lifecycle = "starting" /\ ~redis.ready)
    /\ Event("loss")
    /\ redis' = [redis EXCEPT !.ready = FALSE,
          !.hash = [k \in Keys |-> IF k \in ks THEN NoEntry ELSE redis.hash[k]]]
    /\ Writes("none", {"cache_ready", "hash"})
    /\ UNCHANGED <<mysql, now, faults>> /\ Elsewhere

(* XADD of something parseStreamMutation does not accept. *)
ForeignRecord ==
    /\ Event("alien")
    /\ redis' = [redis EXCEPT !.pending = @ \o Stamp(<<Garbage>>), !.lastId = @ + 1]
    /\ Writes("none", {"pending"})
    /\ UNCHANGED <<mysql, now, faults>> /\ Elsewhere

(* Another starter emptied the Stream and won the race for cache_ready. *)
PeerRebuild ==
    /\ ~redis.ready /\ redis.pending = <<>>
    /\ Event("peer")
    /\ RebuildCommit("none", LoadEnabled)
    /\ UNCHANGED <<mysql, now, faults>> /\ Elsewhere

StopRequested == Event("stop") /\ BeginStop /\ UNCHANGED toolVars
ServerCrash == Event("crash") /\ Crash /\ UNCHANGED toolVars

ServerStep ==
    /\ RoundStep \/ BootStep \/ StopStep \/ CallFails \/ Deadline \/ Boot
    /\ UNCHANGED <<toolVars, events>>
Traffic == BusinessStep /\ UNCHANGED <<toolVars, events>>
CommandStep == ToolStep /\ UNCHANGED <<queueVars, serverVars, events>>

Note == quiet' = (tool'.pc = "idle" \/ (quiet /\ requests' = requests /\ events' = events))

Next ==
    /\ \/ ServerStep \/ Traffic \/ CommandStep \/ Tick
       \/ \E ks \in SUBSET Keys : LoseCache(ks)
       \/ ForeignRecord \/ PeerRebuild \/ StopRequested \/ ServerCrash
    /\ Note

Spec == Init /\ [][Next]_vars
-----------------------------------------------------------------------------
(* Type invariant of the composed system. *)
TypeOK ==
    /\ redis \in RedisType /\ redis.completed <= redis.requested
    /\ watch \in [Clients -> [keys : SUBSET {"cache_ready", "pending", "revision", "hash",
                                             "reset_barrier"}, dirty : BOOLEAN]]
    /\ mysql \in [Keys -> Nat \cup {NoEntry}] /\ now \in Times /\ faults \in 0..MaxFaults
    /\ Queue!QueueTypeOK
    /\ lifecycle \in {"down", "starting", "running", "stopping"}
    /\ (lifecycle = "down") = (srv.pc = "off")
    /\ tasks \subseteq [n : 1..MaxRequests, epoch : Nat, done : BOOLEAN]
    /\ (tool.pc = "idle") = (tool = NoCommand) /\ quiet \in BOOLEAN

(* The value h the server shows for an entity is e, or nothing once e has   *)
(* expired.                                                                 *)
Shows(h, e) == h = e \/ (h = NoEntry /\ Expired(e, now))

(* The snapshot business tasks read is one state of the Redis hashes, never *)
(* a mixture of two that an HSCAN crossed, and it is the current state when *)
(* its revision is the current one (refreshSnapshotAndExpiry,               *)
(* loadStableSnapshot, loadInitialBlacklist).                               *)
SnapshotIsAtomic ==
    lifecycle \in {"running", "stopping"} =>
        /\ \A k \in Keys : Shows(pub.snapshot[k], pub.base[k])
        /\ pub.rev = redis.revision => pub.base = redis.hash

(* The variables keep their types, and published_revision never runs ahead  *)
(* of the snapshot the server decides with; it names exactly its revision   *)
(* once publication is not dirty (retryPublishedRevision,                   *)
(* loadInitialBlacklist).                                                   *)
PublishedIsVisible ==
    /\ TypeOK
    /\ lifecycle \in {"running", "stopping"} =>
          /\ redis.published <= pub.rev /\ pub.rev <= redis.revision
          /\ ~pub.dirty => redis.published = pub.rev

(* flushOneCandidateBatch acknowledges a batch only when the Stream already *)
(* holds every entry of it; it still does so then, because the maintenance  *)
(* worker is also the only one that takes records off the Stream.           *)
AckAfterStream ==
    srv.pc = "ack" =>
        \A e \in Queue!Elements(reserved) : \E i \in DOMAIN redis.pending :
            redis.pending[i].op = "upsert" /\ redis.pending[i].key = e.key
            /\ redis.pending[i].exp = e.exp

(* When reset n is completed, no candidate of a request accepted before     *)
(* reset n was asked for is still in a task, in the queue or in the         *)
(* reserved batch (handleResetBarrier).                                     *)
BarrierFlushes ==
    \A c \in tasks \cup Queue!Elements(queued) \cup taken : redis.completed <= c.epoch

(* If clear --wait reports success, and no request or disturbance came      *)
(* while it ran, Redis, the Stream, MySQL and the snapshot of the server    *)
(* are all empty (runManageBlacklistCommand, though it reads them one after *)
(* the other).                                                              *)
ResetConverged ==
    tool.pc = "converged" /\ quiet =>
        /\ redis.hash = Nothing /\ redis.pending = <<>> /\ NoneEnabled
        /\ lifecycle \in {"running", "stopping"} => pub.snapshot = Nothing
        /\ queued = <<>> /\ reserved = <<>>

(* An orderly stop during which no remote call failed and no deadline       *)
(* passed discards no candidate (Handler::join, runFinalDrain).             *)
CleanStopLosesNothing == faults = MaxFaults => lostAtStop = 0

(* The system implements the write-behind contract. *)
WB == INSTANCE WriteBehind WITH
        Entities <- Keys, hash <- redis.hash, pending <- ToSet(redis.pending),
        ready <- redis.ready,
        Times <- 1..2 * TTL + Cardinality(Times)
ImplementsWriteBehind == WB!Spec

-----------------------------------------------------------------------------
(* The maintenance worker, the workers that run accepted tasks and the      *)
(* timer that starts rounds all keep running; that a process is restarted   *)
(* is part of the deployment.  Nothing is assumed of traffic or operators.  *)
ServerProgress ==
    (RoundStep \/ BootStep \/ StopStep \/ Boot) /\ UNCHANGED <<toolVars, events>> /\ Note
TaskProgress == (\E t \in tasks : FinishTask(t)) /\ UNCHANGED <<toolVars, events>> /\ Note
FairSpec == Spec /\ WF_vars(ServerProgress) /\ WF_vars(TaskProgress)

(* Once disturbances end, every mutation reaches MySQL and the snapshot     *)
(* catches up with the last revision, and stays so.                         *)
Settles == <>[](redis.pending = <<>> /\ redis.ready /\ redis.published = redis.revision
                /\ Queue!QueueEmpty /\ redis.completed = redis.requested)
==============================================================================
