# AegisFlow: TLA+ models, checks and proofs

AegisFlow is a login risk engine: clients send length-prefixed login requests,
event loops hand them to a bounded worker pool, a policy chain judges them with
sliding-window features and a blacklist, and a pipeline behind the answer keeps
that blacklist in Redis and MySQL. This directory models the server from its
sockets to its two stores, model-checks it with TLC and proves central
invariants of it with TLAPS.

Paths below are relative to the repository; `app/x.cpp` means `src/app/x.cpp`.

## 1. The system

| part | state | operations | met by |
|---|---|---|---|
| candidate queue (`app/blacklist_candidate_queue.cpp`) | queued, reserved batch, closed, dropped counters | submit, reserve, acknowledge, close, discard, report drops | business workers, maintenance worker, shutdown |
| Redis store (`storage/blacklist_redis_store.cpp`) | three hashes, pending Stream, revision, published revision, ready flag, reset barrier | WATCH/MULTI/EXEC transactions, HSCAN, XRANGE, XDEL | maintenance, bootstrap, operator tool |
| MySQL access (`storage/mysql_dao.cpp`) | enabled rows | apply a batch in a transaction, load, count | maintenance, bootstrap, operator tool |
| bootstrap (`app/blacklist_cache_bootstrap.cpp`) | position in the start | empty the Stream, rebuild the cache | another starter |
| maintenance round (`app/blacklist_maintenance.cpp`, Core) | remembered revision, dirty flag, current backend | barrier, candidate flush, refresh, expiry, publication, write-back, final drain | all of the above |
| maintenance schedule (both `*_maintenance.cpp`) | running, active timer, round in flight, round pending | start, tick, end of round, stop, final drain | timer thread, worker, stopping thread |
| `manage_blacklist` (`tools/manage_blacklist_command.cpp`) | position in the command | add, disable, clear with barrier and wait | server through Redis |
| bounded worker pool (`runtime/bounded_worker_pool.cpp`) | ring, inflight, accepting, workers | submit, take, finish, close, drain, join | every submitter |
| handler (`app/handler.cpp`) | life cycle of all services | start, stop, join | signals |
| timer (`timer/timer_core.cpp`, `timer/timer.cpp`) | command queue, reservations, heap | schedule, cancel, run ready, stop | loops, maintenance |
| event loops (`net/event_loop*.cpp`, `net/session.cpp`, mailboxes, router) | connections, deadlines, bounded mailboxes, load counter | read, dispatch, complete, write, time out, drain | workers, timer, acceptor |
| acceptor (`net/acceptor_loop.cpp`) | listening socket, reserve descriptor | accept, shed, dispatch | event loops |
| feature store (`feature/`, `sliding_*.hpp`) | windows per user, address and device | update, read, reclaim | workers, maintenance |
| policy chain, candidate generator (`risk/`) | none | pure functions | workers |
| logger (`log/logger.cpp`) | queue, dropped counters, state | submit, write, flush, stop | everyone |
| configuration, codec, values, tools, load generator | none or local | parsing, formatting, measuring | |

What is hard here:

* a Redis transaction may be committed although its reply is lost, and is then
  retried after other clients have written;
* Redis and MySQL are two stores with no common transaction, and the process may
  stop between any two calls to them;
* hashes are scanned in pieces while clients write;
* the reset barrier reads three facts (inflight, queued, reserved) one by one;
* ticks, rounds, retries, stop and the final drain of two jobs share one worker;
* wake-ups are sent after the lock is released, and deadlines race with them;
* every queue is bounded and something must happen when it is full;
* sockets are edge-triggered: what a handler leaves in one raises no further event;
* completions and timeouts name a connection that may be gone, with its descriptor
  already used by another one;
* one login updates three windows under three locks, with a time it read before
  the first of them;
* start and shutdown go through nine parts, each of which may fail.

`PROJECT.json` lists each hazard at its line with the properties that cover it.

What must be right, part by part:

* queue: bounded, nothing lost unaccounted, a retried batch is the same batch;
* stores: MySQL plus the pending Stream is always the hash; every mutation
  reaches MySQL; a snapshot is one state; a published revision is visible;
* reset: completed means no older candidate is left, and `clear --wait` reports
  success only when everything is empty;
* pool: the inflight count is exact, accepted tasks end, join returns;
* schedule: ticks merge, periods survive congestion, the final drain is last;
* timer: dispatched once, not early, not after a cancel; never asleep past work;
* session: the frames handed out are those of the byte stream, one at a time;
* event loop: every connection ends, every answer reaches its own request, no
  event is missed, the connection count is exact;
* acceptor: the backlog is served or shed, join means a closed port;
* logger: order, accounted drops, nothing accepted lost at an orderly stop;
* features and policies: exact windows, no evidence that never existed, more
  evidence never softens a verdict;
* handler: no candidate meets a closed queue, nothing is left running, success is
  reported only when all was stored.

## 2. Modules and the code

| module | models | notes |
|---|---|---|
| `CandidateQueue` | `BlacklistCandidateQueue` | one action per method; the reserved batch is the vector the merge loop builds (`MergeIntoReserved` for each candidate), `taken` the candidates it came from (a history variable); `ledger` counts what was accepted, merged and acknowledged, for the conservation property only |
| `WriteBehind` | the promise of the two stores | abstract: no clients, no failures, the Stream is a set of numbered records |
| `BlacklistStore` | Redis keys, WATCH/EXEC, MySQL transaction | `Reply`, `CallFails`: a call may fail before or after its effect; a watched key that changes makes EXEC fail |
| `BlacklistMaintenance` | bootstrap, initial blacklist, `BlacklistMaintenanceCore`, business tasks, shutdown of candidates | one program counter, as one worker runs one round at a time; each remote call is a step |
| `ManageBlacklist` | the operator's command | barrier, transaction, convergence reads, each its own step |
| `BlacklistSystem` | all of these together with clock, crash, cache loss, foreign records, second starter, stop | states the properties of the pipeline and the refinement to `WriteBehind` |
| `BoundedWorkerPool` | `BoundedWorkerPool` | ring with head, tail and size; notifications in flight are counted, as they are sent after the unlock |
| `MaintenanceSchedule` | `BlacklistMaintenance` and `FeatureStateMaintenance` around a round, and the part of `Handler` that starts and stops them | timer thread, one worker, one stopping thread |
| `Timer` | `TimerCore` and `Timer` | one step per critical section or system call; writing the eventfd is a step after the one that queued the command; `live`, `dead` are the reservations, `heap` the nodes, `posted`, `cancelled` histories |
| `Session` | `LengthPrefixedCodec` and `Session` | pure: a session is a record, each member function an operator |
| `SessionStream` | one session with its peer and its worker | every chunking of a stream, every size of answer and of write; `Reference` decodes the whole stream at once |
| `Mailboxes` | completion, timeout and connection mailbox | pure: a mailbox is a record with its eventfd as `signal` |
| `EventLoop` | `EventLoop`, with `Session` and `Mailboxes`, the router, the timer and the workers as it meets them | each handler is an operator from a world to the worlds it may lead to; one action per event source |
| `EventLoopGroup` | `EventLoopGroup`, `ConnectionLoadCounter` | loops reduced to session counts; owner, a second stopping thread, the acceptor |
| `AcceptorLoop` | `AcceptorLoop` | thread, listening socket with its edge, reserve descriptor; closing the reserve, the accept of the recovery and opening the reserve are separate steps |
| `SlidingWindows` | `SlidingCounter`, `SlidingDistinct` | pure |
| `LoginPolicy` | policy chain, thresholds, candidate generator | pure |
| `RiskEvaluation` | `RiskService::evaluate`, `LoginFeatureStore` with reclamation | one step per shard lock |
| `Logger` | `Logger` | one step per critical section or file operation |
| `HandlerLifecycle` | `main`, `Handler` | one action per call that start, stop, join and failStart make; parts reduced to counts |
| `*Proofs` | theorems | extend their component |
| `MC*` | instances | `MCBlacklistParts` and `MCConnections` join parts that share no state, so that a behaviour is one of one part; the others give constants their values. `MCRiskEvaluation` also checks the policy chain, as assumptions that TLC evaluates |

Abstractions:

* An entity stands for its type and id; the three hashes are one function and one
  watched key. An expiry is an instant, 0 is permanent, -1 absent.
* `setPublishedRevision` is one step: the server is the only writer of that key.
* The cleanup interval is a choice in each round. A deadline may pass at any
  remote call.
* A business task reads the snapshot and submits in one step, and submits at most
  one candidate, as the generator does.
* One server process. A second starter appears as `PeerRebuild`, which wins the
  race for `cache_ready` on an empty Stream in one step; that it also writes back
  pending records while the first starter does so is not modelled.
* Redis may lose `cache_ready` and hash fields while no ready server uses them.
  Loss of the revision or of the Stream alone is outside the model.
* In `MaintenanceSchedule` a refused `scheduleAt` stands for every answer but Ok,
  the pool has 3 slots (64 in the code: two rounds and a final drain never need
  more, which `RoundsMerge` checks), and tick numbers run in a cycle of 3 (a job
  has at most one live tick and one stale one in the timer thread).
* The pool has one controller which calls close, drain and join in this order.
* Time in `EventLoop` is a flag per deadline, which may be raised at any moment
  while the deadline is armed. In `Timer` and `RiskEvaluation` it is a number.
* A byte of `Session` is a digit of base `ByteBase`, a header has `HeaderSize`
  digits. The bit streams of the runs contain every header, legal or not.
* Output is a number of bytes; what a response says is the request it answers
  (`answer`, for `AnswersOwnRequest`).
* In `EventLoop` a handler is atomic, as only the loop's thread touches sessions;
  posts to mailboxes, drain and stop flags come between handlers. The stop and
  drain flags are read once per handler.
* A key of `RiskEvaluation` has a shard of its own: sharing a lock only removes
  interleavings. A behaviour has one of the loads in `Loads`: how far time goes, how
  many requests come and run at once, how long ago one may have read the clock
  (`lag`), how often the clock steps back, how often reclamation runs and how old a
  login may be.
* An event loop runs in one of the `Settings`: what a peer sends, whether it shuts
  down its side or resets, how many connections come, which calls may fail, and
  whether the loop is stopped, drained or left alone.
* Free descriptors (`free` in `AcceptorLoop`) are none, one or many. Closing the
  reserve makes one of none, and others may take it before the acceptor does.
* `quiet` (`BlacklistSystem`) records that no request came while a reset ran, and
  `gaveUp` (`AcceptorLoop`) that accept met an error it does not know or could not
  reopen its reserve; both only serve to state properties.
* `HandlerLifecycle` keeps of each part what the order of the shutdown depends on.
  What the parts do is in their own modules, and their promises there (a drained
  pool is quiet, join means gone) are what its steps assume.

## 3. Runs

All are in `PROJECT.json`; the longest take two to three minutes with two TLC
workers. Every instance is finite without a state constraint: the bounds are in the
guards, and each has a name.

| run | instance | checks |
|---|---|---|
| `parts` | queue: 2 entities, 3 expiries, 4 slots, batches of 3, 9 submissions, counters saturating at 4; contract: 2 entities, 2 record ids, a foreign record | `TakenCovered`: in every order of arrival the merge loop keeps the longest lifetime. `Converges`: MySQL with the Stream replayed over it is the hash |
| `round` | 2 entities, 2 commands, 2 requests, 1 failed call, 2 instants, 3 of these in one behaviour | `SnapshotIsAtomic`, `PublishedIsVisible`, `BarrierFlushes`, `ResetConverged` |
| `faults` | 1 entity with a row, 1 command, 2 requests, 1 failed call, 2 of crash, cache loss, second starter, stop, foreign record; 3 of all these in one behaviour | `AckAfterStream`, `CleanStopLosesNothing`, `ImplementsWriteBehind` (refinement), `Settles` (liveness) |
| `pool` | 2 workers, 4 tasks, 2 slots | `InflightExact`, `AcceptedEnds`, `CloseLeadsToJoin` |
| `schedule` | both jobs, 1 refused reschedule | `RoundsMerge`, `OneLiveTick`, `FinalIsLast`, `KeepsTicking` |
| `congested` | both jobs, 2 refused reschedules | `KeepsTicking`, violated (section 4) |
| `timer` | 2 callers, 2 joiners, 2 timers, 1 command slot, failing calls | `DispatchSound`: once, not early, not after a cancel. `AcceptedFires`, `StopEnds` |
| `logger` | 2 producers, 2 joiners, 4 records, 2 slots, failing writes | `WrittenInOrder`, `StoppedComplete`, `AcceptedIsWritten`, `StopEnds` |
| `risk` | 3 users, 1 address and device, windows of 2 buckets with room for 2 accounts; 4 loads: 3 serial requests, 2 concurrent with a clock that steps back, 3 concurrent with old readings, 2 with a reclamation | `NeverOvercounted`, `ExactWhenSerial`, `ProposedOnlyGuilty`, `ReclaimKeepsLive`; `NeverSofter`, `NoGap` of the policy chain |
| `loop` | 5 settings: a descriptor used twice, a peer that shuts down its side, two pipelined requests with a drain, failing calls with a reset and a stop, a full business pool with an overload response | `AnswersOwnRequest`, `NoLostWakeUp`, `NothingLeaks`, `EverySessionEnds` |
| `connections` | acceptor: 3 connections, descriptors taken twice at any moment, unknown errors, a recovery that fails at each call; group: 2 loops that may fail, 2 sockets, a second stopping thread; session: all bit streams up to 8 bits in chunks of every size | `BacklogServed`; `VerdictsAreTrue`, `CallsReturn`; `RequestsMatch`, `ClosesForCause` |
| `lifecycle` | 2 connections, 3 tasks, 3 rounds, every part may fail to start or later | `LayersHold`, `OkMeansStored`, `ShutdownEnds` |

Where a property starts with `TypeOK`, it carries the type invariant of its module.

Why the bounds are enough: an interference in the pipeline needs one scan or
transaction and one write of another client in its middle. Two commands give an edit in
the middle and one after it; one failed call at every possible place gives each lost
reply and each retry; two events give a crash during the recovery of a crash or a
loss. Two entities are needed only where a state can be a mixture (`round`);
elsewhere entities do not influence each other. Three candidates of one entity with
three expiries arrive in every order within one batch, and a queue of four slots is full
while such a batch is reserved. Four tasks make a ring of two slots wrap twice. One
command slot makes every second caller of the timer meet a full queue. In `loop`, the
mailboxes of one slot overflow, and with two connections on one descriptor a
completion or timeout of the first can meet the second. Eight bits hold two frames
and part of a third, with each legal and illegal header. In `risk`, time goes one
bucket beyond the window, so entries expire and buckets are reused.

`ResetConverged` is stated for a command during which no request arrives and nothing
else disturbs the server (`quiet`). The repository's README asks for this, because a
request between the acknowledgement of the barrier and CLEAR_ALL may add an entry.

`ExactWhenSerial` is stated for requests that come one at a time, on a clock that has
not stepped back, with no more accounts than a window has room for; outside that the
windows may count less than what happened, never more (`NeverOvercounted`).

### Fairness

* `faults`: weak fairness of the maintenance worker with the timer that starts its
  rounds, and of the workers that run accepted tasks. These are threads of the
  process without a condition they may wait on for ever (`pool`, `schedule`). A
  process that is down is started again. Commands, requests, ticks of the clock,
  failures and disturbances are not fair; their number is bounded, so `Settles`
  speaks of what happens after them.
* `pool`: threads run, a sent notification arrives, tasks end, and the controller
  goes on once it has closed the pool. No spurious wake-up is assumed, no deadline
  has to pass, and nobody has to close the pool.
* `schedule`: timer thread, worker and stopping thread run. A stop need not be
  requested.
* `timer`: time passes, the thread runs, a caller that queued its command goes on to
  write the eventfd, stop and join go on. Nobody has to call anything.
* `logger`: the thread runs and join goes on. Producers owe nothing.
* `loop`: the loop's and the timer's threads run, an armed deadline passes, and the
  group closes what it began to close. Peers and workers may stall for ever.
* `connections`: the acceptor's thread, the loop threads, the owner's calls and a
  second stopping thread run. The process may stay without descriptors for ever and
  sessions need not end by themselves. The thread takes a step that fails only
  where no other is possible (a recovery without a free descriptor).
* `lifecycle`: main, workers, the maintenance pool and the acceptor run, and the
  deadline of the shutdown passes. Connections need not close and a signal need not
  come.

## 4. Where the code and its comments part

One disagreement is a run:

* `congested`. `FeatureStateMaintenance::finishRound` carries the comment that a
  reschedule meeting a congested timer must not stop the job for good and that the
  worker tries again after the task (`app/feature_state_maintenance.cpp:181`). The
  retry's result is ignored there and in `BlacklistMaintenance::runRound`. If both
  the reschedule in `tryPost` and the retry are refused, no tick is armed, no round
  runs, and nothing tries again. One refusal is survived (`schedule`), which is all
  the comment in `blacklist_maintenance.cpp:625` claims.

Others showed up as a hypothesis that a property needs. The models contain the
behaviour; the property is stated for what remains:

* After an overload response `dispatchRequest` leaves the read loop although the
  socket may hold more (`net/event_loop.cpp:704`; the comment at 675 and
  `docs/ARCHITECTURE.md:103` speak of reading until EAGAIN). `EdgeNotLost` is
  therefore required only of settings without an overload response; the session still
  ends, by its deadline (`EverySessionEnds`).
* On an error it does not know, or when the reserve descriptor cannot be opened again,
  `drainAccept` returns with connections in the backlog and no edge to come
  (`net/acceptor_loop.cpp:263` and 271; the comment at 239 speaks of accepting until
  EAGAIN). `NoneOverlooked` and `BacklogServed` exclude this by `gaveUp`.
* `recoverFromFdExhaustion` drops the error of its own accept and answers true when the
  reserve could be opened again (`net/acceptor_loop.cpp:228`), although the comment at 215
  says that one connection is accepted and dropped. If that accept fails each time,
  `drainAccept` goes round without taking anything; `BacklogServed` therefore has the
  case that shedding is refused again and again. The same happens, harmlessly for the
  property, when the process stays without descriptors and the backlog is empty: accept
  takes its descriptor first, and never gets as far as EAGAIN.
* Two requests that reach a distinct window on both sides of a bucket boundary, the
  later reading first, drop the members of the later bucket
  (`include/aegisflow/feature/sliding_distinct.hpp:134`), so concurrent requests may be undercounted.
* A peer that closes after exactly one header is reported as `PeerClosed`, not as
  `PeerTruncatedFrame` (`net/session.cpp:285`, `tests/net/session_test.cpp:108`).
* When the event loops have failed, `Handler::join` goes on to close the candidate
  queue without having joined the business pool (`app/handler.cpp:357`; the comment at
  354 and `docs/ARCHITECTURE.md:164` give the other order), so a task may find the
  queue closed. The result is then not Ok (`OkMeansStored`); `CandidatesKept` is
  proved for loops that do not fail at run time.

## 5. Proofs

| theorem | for every value of the constants | inductive invariant |
|---|---|---|
| `WriteBehindProofs!StoreConverges` | `Converges` | `TypeOK /\ UniqueIds /\ Converges` |
| `BoundedWorkerPoolProofs!PoolCountsExactly` | `InflightExact` and `QuietAfterDrain` | adds `Phases`: what each position of the controller implies |
| `CandidateQueueProofs!QueueKeepsCount` | `WithinCapacity`, `OneEntryPerKey`, `Conservation` | adds the type of the ledger and that discarding leaves a closed, empty queue |
| `CandidateQueueProofs!MergeKeepsLongest` | `TakenCovered` | the same, with `MergeInv` as the invariant of the merge loop |
| `CandidateQueueProofs!BatchIsRetried` | `RetriedUnchanged` | the same |
| `TimerProofs!DispatchIsSound` | `DispatchSound` | `CoreInv /\ FateInv`: a live timer is in the queue or the heap; each timer is live, popped, dispatched or cancelled |
| `TimerProofs!ThreadIsWoken` | `NoLostWakeUp`: a thread that waits with nothing to wake it has seen every command and armed the first deadline | `CoreInv /\ WakeInv` |
| `TimerProofs!ReservationsAreHeld` | `ReservationsHeld`: the capacity is neither exceeded nor leaked | `CoreInv /\ RoomInv` |
| `LoggerProofs!StopIsComplete` | `StoppedComplete` | `LogInv`, position of the thread by position |
| `LoggerProofs!DropsAreAccounted` | `DropsAccounted` | the same |
| `EventLoopGroupProofs!SlotsAreExact` | `SlotsExact`: a loop's counter is its queued sockets and its sessions | adds the limits of the counters |
| `AcceptorLoopProofs!NoneIsOverlooked` | `NoneOverlooked` | `EdgeInv`: where the thread is, and whether an edge is due |
| `AcceptorLoopProofs!JoinCloses` | `JoinMeansClosed` | `ClosedInv` |
| `HandlerLifecycleProofs!SuccessIsHonest` | `OkMeansStored` | `IndInv`: for each stretch of the shutdown, what has come to rest |
| `HandlerLifecycleProofs!CandidatesKept` | `LastCandidatesKept` when no event loop fails at run time | adds `LoopsGood` |

`Converges` needs `UniqueIds`, since "the last record that touches an entity" has
to be one record. The interesting step is `Trim`: the removed records are the
oldest and MySQL holds their effect, so an entity that none of the remaining
records touches has its value in MySQL, and any other is decided by a
remaining record. `Evict` may drop an entry although its records are still
pending, which is why agreement is up to expiry.

For the pool, `InflightExact` is preserved by each step on its own, but that a
drain leaves nothing behind needs to know that nothing is accepted after close
(`Phases`), and that a joined pool has only workers that left.

For the queue, all that is said of a batch rests on one loop invariant (`MergeInv`):
after n candidates the batch has at most n entries, one per entity, each of the n is
covered by an entry that expires no earlier, and each entry is one of the n. One turn
of the loop keeps it (`MergeTurn`); that a replaced entry still covers what it covered
before is where permanence, an expiry of 0, matters. The library's induction theorems
cannot be used here, so the induction over the candidates goes through the least
counterexample in a set of numbers (`UpToBound`), once to show that the recursive
function of the model exists (`MergeRuns`) and once for the invariant (`MergeLoop`).

For the timer, that nothing is dispatched after a cancel needs to follow a timer
through queue, heap and the thread's hand (`FateInv`); that the thread is woken needs
the order in which it reads the eventfd and looks at the queue (`WakeInv`).

For the logger, that no drop is unreported at the end rests on a small argument:
a record is dropped only while others are queued, and the one written last reports it
(`Drops`).

For the acceptor, a batch that is left early is left because of a stop, for good, or
has set `gaveUp`; every other one goes on until there is nothing left, also after a
recovery that shed nothing.

For the handler, success says something about candidates because each way in which a
task could be left when the queue is closed has already made the result worse than Ok
(`AtRest`), and later steps never overwrite a worse result (`Worse`).

Assumptions on constants are named and as the constructors and `config/config.cpp`
enforce them: `TimesAssumption`, `RecordsAssumption`, `PoolAssumption`,
`QueueAssumption`, `TimerAssumption`, `LoggerAssumption`, `GroupAssumption`.

Only model-checked: all liveness (fairness and ENABLED are outside the prover);
the refinement `ImplementsWriteBehind`; whatever rests on recursive or folded
definitions (the windows, the session's stream); the invariants of the pipeline, the
schedule, the event loop and the layers of the handler.

## 6. Not modelled

* Text formats and layouts: configuration files, protobuf messages, log lines, command
  line output, reply parsing of Redis, statement binding of MySQL, JSON.
  They compute no state that another part waits for, and their input is text.
* Validation and normalisation of addresses and requests, except for the bound on the
  event time.
* Socket calls as such: creating and binding sockets, options, address formats.
* The benchmark programs and the load generator.
* Memory exhaustion, and exceptions of the allocator.
* Second callers of `join` at the same time, except in the timer and the logger.
* Redis and MySQL themselves: external, modelled as their clients see them.

`PROJECT.json` says of each component how much of it is modelled.
