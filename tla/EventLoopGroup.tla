---------------------------- MODULE EventLoopGroup ----------------------------
(***************************************************************************)
(* EventLoopGroup: loop threads, their registration mailboxes, and the two *)
(* levels of ConnectionLoadCounter the acceptor admits connections by.     *)
(* The owner starts, drains, stops and joins the group; another thread     *)
(* (Stopper) may stop it at any time; the acceptor dispatches sockets.     *)
(* A loop is reduced to the number of sessions it holds: what it does with *)
(* them is EventLoop.                                                      *)
(***************************************************************************)
EXTENDS Integers, FiniteSets, FiniteSetsExt

CONSTANTS
    LoopCount,           \* loop_count
    MaxConnections,      \* max_connections
    MaxPerLoop,          \* max_connections_per_loop
    QueueCapacity,       \* connection_queue_capacity
    MaxSockets,          \* sockets accepted in a run
    Owner, Stopper,      \* the threads besides the loops that close mailboxes
    CanFail              \* threads, construction and epoll_wait may fail

Loops == 0 .. LoopCount - 1
Actors == Loops \cup {Owner, Stopper}

(* checkedGroupConfig *)
ASSUME GroupAssumption ==
    /\ {LoopCount, MaxConnections, MaxPerLoop, QueueCapacity} \subseteq Nat \ {0}
    /\ MaxSockets \in Nat /\ CanFail \in BOOLEAN
    /\ QueueCapacity <= MaxPerLoop /\ MaxConnections <= LoopCount * MaxPerLoop
    /\ Owner # Stopper /\ {Owner, Stopper} \cap Loops = {}

VARIABLES
    state,               \* EventLoopGroupState
    stopRequested, startupFailed, loopFailed,
    drain,               \* drain_control
    thread,              \* loop -> where its thread is
    failed,              \* loops whose pollOnce failed
    queue, open, signal, \* loop -> the registration mailbox
    sessions,            \* loop -> sessions of its EventLoop
    load, total,         \* loop -> its counter, and the counter of the group
    owed,                \* actor -> slots released by a loop's counter, not yet by total
    closing,             \* actor -> mailboxes it has still to close
    owner,               \* where the owner is
    verdict, joined,     \* what drainUntil and join have returned
    next, accepted       \* next_loop_index, sockets dispatched so far
counters == <<load, total, owed>>
boxes == <<queue, open, signal>>
flags == <<state, stopRequested, startupFailed, loopFailed, drain>>
vars == <<state, stopRequested, startupFailed, loopFailed, drain, thread, failed, queue, open,
          signal, sessions, load, total, owed, closing, owner, verdict, joined, next, accepted>>

Init ==
    /\ state = "Constructed" /\ stopRequested = FALSE /\ startupFailed = FALSE
    /\ loopFailed = FALSE /\ drain = FALSE /\ failed = {}
    /\ thread = [l \in Loops |-> "none"] /\ queue = [l \in Loops |-> 0]
    /\ open = [l \in Loops |-> TRUE] /\ signal = [l \in Loops |-> FALSE]
    /\ sessions = [l \in Loops |-> 0] /\ load = [l \in Loops |-> 0] /\ total = 0
    /\ owed = [a \in Actors |-> 0] /\ closing = [a \in Actors |-> {}]
    /\ owner = "idle" /\ verdict = "none" /\ joined = FALSE /\ next = 0 /\ accepted = 0

-----------------------------------------------------------------------------
(* release: the loop's counter first, clamped at zero, then its parent.     *)
Release(a, l, count) ==
    /\ load' = [load EXCEPT ![l] = IF count >= @ THEN 0 ELSE @ - count]
    /\ owed' = [owed EXCEPT ![a] = @ + (load[l] - load'[l])]
    /\ UNCHANGED total

(* A notification reaches the owner only while it sleeps in drainUntil. *)
NotifyAll == owner' = IF owner = "asleep" THEN "woken" ELSE owner
ReleaseParent(a) ==
    LET left == IF owed[a] >= total THEN 0 ELSE total - owed[a]
    IN  /\ owed[a] > 0 /\ owed' = [owed EXCEPT ![a] = 0] /\ total' = left
        /\ IF left = 0 THEN NotifyAll ELSE UNCHANGED owner
        /\ UNCHANGED <<flags, thread, failed, boxes, sessions, load, closing, verdict, joined,
                       next, accepted>>

(* closeRegistrationMailboxes, one mailbox: discard, wake, release. *)
CloseRegistrationQuietly(a, l) ==
    /\ l \in closing[a] /\ owed[a] = 0
    /\ closing' = [closing EXCEPT ![a] = @ \ {l}]
    /\ open' = [open EXCEPT ![l] = FALSE] /\ queue' = [queue EXCEPT ![l] = 0]
    /\ Release(a, l, queue[l])
    /\ UNCHANGED <<flags, thread, failed, signal, sessions, owner, verdict, joined, next, accepted>>
CloseRegistration(a, l) ==
    /\ l \in closing[a] /\ owed[a] = 0
    /\ closing' = [closing EXCEPT ![a] = @ \ {l}]
    /\ open' = [open EXCEPT ![l] = FALSE] /\ signal' = [signal EXCEPT ![l] = TRUE]
    /\ queue' = [queue EXCEPT ![l] = 0]
    /\ Release(a, l, queue[l])
    /\ UNCHANGED <<flags, thread, failed, sessions, owner, verdict, joined, next, accepted>>

(* An actor goes on once it has nothing to close or to release. *)
Free(a) == closing[a] = {} /\ owed[a] = 0

-----------------------------------------------------------------------------
(* tryDispatch, under the lock; the index advances even when the loop it    *)
(* names has no room.                                                       *)
HasRoom(l) == total < MaxConnections /\ load[l] < MaxPerLoop
Posts(l) == open[l] /\ queue[l] < QueueCapacity
TryDispatch ==
    /\ state = "Running" /\ accepted < MaxSockets
    /\ accepted' = accepted + 1
    /\ next' = IF total < MaxConnections THEN (next + 1) % LoopCount ELSE next
    /\ IF HasRoom(next) /\ Posts(next)
       THEN /\ queue' = [queue EXCEPT ![next] = @ + 1] /\ signal' = [signal EXCEPT ![next] = TRUE]
            /\ load' = [load EXCEPT ![next] = @ + 1] /\ total' = total + 1
       ELSE UNCHANGED <<queue, signal, load, total>>
    /\ UNCHANGED <<flags, thread, failed, open, sessions, owed, closing, owner, verdict, joined>>

-----------------------------------------------------------------------------
(* loopMain. *)
rest == <<closing, verdict, joined, next, accepted>>
Moves(l, from, to) == thread[l] = from /\ Free(l) /\ thread' = [thread EXCEPT ![l] = to]

LoopReady(l) ==
    /\ Moves(l, "building", "gate") /\ NotifyAll
    /\ UNCHANGED <<flags, failed, boxes, sessions, counters, rest>>
LoopBuildFails(l) ==
    /\ CanFail /\ Moves(l, "building", "unbuilt") /\ NotifyAll /\ startupFailed' = TRUE
    /\ UNCHANGED <<state, stopRequested, loopFailed, drain, failed, boxes, sessions, counters, rest>>
LoopReleased(l) ==
    /\ state # "Starting" \/ stopRequested
    /\ Moves(l, "gate", "check")
    /\ UNCHANGED <<flags, failed, boxes, sessions, counters, owner, rest>>
LoopChecks(l) ==
    /\ Moves(l, "check", IF stopRequested THEN "shutdown" ELSE "wait")
    /\ UNCHANGED <<flags, failed, boxes, sessions, counters, owner, rest>>
PollReturns(l) ==
    /\ signal[l] \/ sessions[l] > 0
    /\ Moves(l, "wait", "poll") /\ signal' = [signal EXCEPT ![l] = FALSE]
    /\ UNCHANGED <<flags, failed, queue, open, sessions, counters, owner, rest>>
PollFails(l) ==
    /\ CanFail /\ Moves(l, "wait", "shutdown") /\ failed' = failed \cup {l}
    /\ UNCHANGED <<flags, boxes, sessions, counters, owner, rest>>

(* The loop adopts a socket, or cannot and gives its slot back. *)
Adopt(l) ==
    /\ thread[l] = "poll" /\ Free(l) /\ queue[l] > 0 /\ sessions[l] < MaxPerLoop
    /\ queue' = [queue EXCEPT ![l] = @ - 1] /\ sessions' = [sessions EXCEPT ![l] = @ + 1]
    /\ UNCHANGED <<flags, thread, failed, open, signal, counters, owner, rest>>
AdoptFails(l) ==
    /\ thread[l] = "poll" /\ Free(l) /\ queue[l] > 0 /\ (CanFail \/ sessions[l] >= MaxPerLoop)
    /\ queue' = [queue EXCEPT ![l] = @ - 1] /\ Release(l, l, 1)
    /\ UNCHANGED <<flags, thread, failed, open, signal, sessions, owner, rest>>
SessionCloses(l) ==
    /\ thread[l] = "poll" /\ Free(l) /\ sessions[l] > 0
    /\ sessions' = [sessions EXCEPT ![l] = @ - 1] /\ Release(l, l, 1)
    /\ UNCHANGED <<flags, thread, failed, boxes, owner, rest>>
PollEnds(l) ==
    /\ queue[l] = 0 /\ Moves(l, "poll", "check")
    /\ UNCHANGED <<flags, failed, boxes, sessions, counters, owner, rest>>

(* EventLoop::shutdown, then the report under the lock; a loop that failed  *)
(* stops the others.                                                        *)
LoopShutsDown(l) ==
    /\ Moves(l, "shutdown", "report")
    /\ open' = [open EXCEPT ![l] = FALSE] /\ signal' = [signal EXCEPT ![l] = TRUE]
    /\ queue' = [queue EXCEPT ![l] = 0] /\ sessions' = [sessions EXCEPT ![l] = 0]
    /\ Release(l, l, queue[l] + sessions[l])
    /\ UNCHANGED <<flags, failed, owner, rest>>
LoopReports(l) ==
    /\ Moves(l, "report", "ended") /\ NotifyAll
    /\ loopFailed' = (loopFailed \/ l \in failed)
    /\ stopRequested' = (stopRequested \/ l \in failed)
    /\ state' = IF l \in failed THEN "Failed" ELSE state
    /\ closing' = [closing EXCEPT ![l] = IF l \in failed THEN Loops ELSE {}]
    /\ UNCHANGED <<startupFailed, drain, failed, boxes, sessions, counters, verdict, joined, next,
                   accepted>>

(* A thread is over, or there never was one. *)
Gone(l) == thread[l] \in {"none", "unbuilt"} \/ (thread[l] = "ended" /\ Free(l))

-----------------------------------------------------------------------------
(* The owner. *)
still == <<failed, sessions, counters, next, accepted>>

Start ==
    /\ owner = "idle" /\ state = "Constructed"
    /\ \E launched \in {Loops} \cup (IF CanFail THEN {0 .. n - 1 : n \in Loops} ELSE {}) :
          /\ thread' = [l \in Loops |-> IF l \in launched THEN "building" ELSE "none"]
          /\ IF launched = Loops
             THEN state' = "Starting" /\ startupFailed' = FALSE /\ stopRequested' = FALSE
             ELSE state' = "Stopping" /\ startupFailed' = TRUE /\ stopRequested' = TRUE
    /\ owner' = "starting"
    /\ UNCHANGED <<loopFailed, drain, boxes, closing, verdict, joined, still>>

(* start goes on when every loop is ready, or at once without a thread. *)
AllReady == \A l \in Loops : thread[l] # "building"
Started ==
    /\ owner = "starting" /\ AllReady /\ ~startupFailed
    /\ owner' = "idle" /\ state' = IF stopRequested THEN state ELSE "Running"
    /\ UNCHANGED <<stopRequested, startupFailed, loopFailed, drain, thread, boxes, closing, verdict,
                   joined, still>>
StartFailed ==
    /\ owner = "starting" /\ startupFailed
    /\ AllReady \/ \E l \in Loops : thread[l] = "none"
    /\ owner' = "failing" /\ state' = "Stopping" /\ stopRequested' = TRUE
    /\ closing' = [closing EXCEPT ![Owner] = Loops]
    /\ UNCHANGED <<startupFailed, loopFailed, drain, thread, boxes, verdict, joined, still>>
StartJoined ==
    /\ owner = "failing" /\ Free(Owner) /\ \A l \in Loops : Gone(l)
    /\ owner' = "idle" /\ state' = "Failed"
    /\ UNCHANGED <<stopRequested, startupFailed, loopFailed, drain, thread, boxes, closing, verdict,
                   joined, still>>

(* stop, by the owner or by the other thread. *)
Stop(a) ==
    /\ Free(a) /\ (a = Owner => owner = "idle")
    /\ state \in {"Constructed", "Starting", "Running", "Draining", "Failed"}
    /\ stopRequested' = TRUE
    /\ state' = CASE state = "Constructed" -> "Stopped" [] state = "Failed" -> "Failed"
                  [] OTHER -> "Stopping"
    /\ closing' = [closing EXCEPT ![a] = Loops] /\ NotifyAll
    /\ UNCHANGED <<startupFailed, loopFailed, drain, thread, boxes, verdict, joined, still>>

BeginDrain ==
    /\ owner = "idle" /\ Free(Owner) /\ state = "Running"
    /\ state' = "Draining" /\ drain' = TRUE /\ closing' = [closing EXCEPT ![Owner] = Loops]
    /\ UNCHANGED <<stopRequested, startupFailed, loopFailed, thread, boxes, owner, verdict, joined, still>>

(* drainUntil: the condition is looked at under the lock, but the counter   *)
(* reaches zero and notifies without it, so a notification between the look *)
(* and the sleep is lost; the deadline ends the wait.                       *)
Drained == total = 0 \/ state # "Draining"
Verdict == IF total = 0 THEN "Ok" ELSE IF state # "Draining" THEN "InvalidState" ELSE "Exceeded"
DrainUntil ==
    /\ owner = "idle" /\ Free(Owner) /\ state = "Draining" /\ verdict = "none"
    /\ IF total = 0 THEN verdict' = "Ok" /\ UNCHANGED owner
       ELSE owner' = "looked" /\ UNCHANGED verdict
    /\ UNCHANGED <<flags, thread, boxes, closing, joined, still>>
DrainSleeps ==
    /\ owner = "looked" /\ owner' = "asleep"
    /\ UNCHANGED <<flags, thread, boxes, closing, verdict, joined, still>>
DrainLooks ==
    /\ owner = "woken"
    /\ IF Drained THEN owner' = "idle" /\ verdict' = Verdict
       ELSE owner' = "looked" /\ UNCHANGED verdict
    /\ UNCHANGED <<flags, thread, boxes, closing, joined, still>>
DrainDeadline ==
    /\ owner \in {"looked", "asleep"} /\ owner' = "idle" /\ verdict' = Verdict
    /\ UNCHANGED <<flags, thread, boxes, closing, joined, still>>

(* join. *)
JoinEarly ==
    /\ owner = "idle" /\ Free(Owner) /\ ~joined
    /\ state \notin {"Constructed", "Starting", "Running", "Draining"}
    /\ state' = IF state = "Stopping" THEN "Stopped" ELSE state
    /\ joined' = TRUE
    /\ UNCHANGED <<stopRequested, startupFailed, loopFailed, drain, thread, boxes, closing, owner,
                   verdict, still>>
Join ==
    /\ owner = "idle" /\ Free(Owner) /\ ~joined
    /\ state \notin {"Constructed", "Starting", "Running", "Draining"}
    /\ \A l \in Loops : Gone(l)
    /\ state' = IF state = "Stopping" /\ ~loopFailed THEN "Stopped" ELSE state
    /\ joined' = TRUE
    /\ UNCHANGED <<stopRequested, startupFailed, loopFailed, drain, thread, boxes, closing, owner,
                   verdict, still>>

-----------------------------------------------------------------------------
LoopStep(l) ==
    \/ LoopReady(l) \/ LoopReleased(l) \/ LoopChecks(l) \/ PollReturns(l) \/ Adopt(l)
    \/ AdoptFails(l) \/ SessionCloses(l) \/ PollEnds(l) \/ LoopShutsDown(l) \/ LoopReports(l)
LoopFails(l) == LoopBuildFails(l) \/ PollFails(l)
ActorStep(a) == ReleaseParent(a) \/ \E l \in Loops : CloseRegistration(a, l)
OwnerStep ==
    \/ Started \/ StartFailed \/ StartJoined \/ DrainSleeps \/ DrainLooks \/ DrainDeadline
OwnerCalls == Start \/ Stop(Owner) \/ BeginDrain \/ DrainUntil \/ Join
Terminated == joined /\ (\A a \in Actors : Free(a)) /\ UNCHANGED vars

Next ==
    \/ TryDispatch \/ OwnerStep \/ OwnerCalls \/ Stop(Stopper) \/ Terminated
    \/ \E l \in Loops : LoopStep(l) \/ LoopFails(l)
    \/ \E a \in Actors : ActorStep(a)

Spec == Init /\ [][Next]_vars

(* Threads run and deadlines pass; nobody has to call anything, and nothing *)
(* has to fail.                                                             *)
FairSpec ==
    /\ Spec /\ WF_vars(OwnerStep)
    /\ \A l \in Loops : WF_vars(LoopStep(l))
    /\ \A a \in Actors : WF_vars(ActorStep(a))

-----------------------------------------------------------------------------
TypeOK ==
    /\ state \in {"Constructed", "Starting", "Running", "Draining", "Stopping", "Stopped", "Failed"}
    /\ {stopRequested, startupFailed, loopFailed, drain, joined} \subseteq BOOLEAN
    /\ thread \in [Loops -> {"none", "building", "unbuilt", "gate", "check", "wait", "poll",
                             "shutdown", "report", "ended"}]
    /\ failed \subseteq Loops /\ queue \in [Loops -> 0..QueueCapacity]
    /\ open \in [Loops -> BOOLEAN] /\ signal \in [Loops -> BOOLEAN]
    /\ sessions \in [Loops -> 0..MaxPerLoop] /\ load \in [Loops -> 0..MaxPerLoop] /\ total \in 0..MaxConnections
    /\ owed \in [Actors -> Nat] /\ closing \in [Actors -> SUBSET Loops]
    /\ owner \in {"idle", "starting", "failing", "looked", "asleep", "woken"}
    /\ verdict \in {"none", "Ok", "InvalidState", "Exceeded"}
    /\ next \in Loops /\ accepted \in 0..MaxSockets

(* The counter of a loop is the number of sockets queued for it and of      *)
(* sessions it holds, through discards, failed adoptions and shutdown, so   *)
(* that release never meets its clamp at zero and adopt never meets the     *)
(* connection limit.                                                        *)
SlotsExact == \A l \in Loops : load[l] = queue[l] + sessions[l]

(* The variables keep their types, and what the calls answer is true.  When *)
(* drainUntil has answered Ok there is no connection left anywhere, neither *)
(* in a loop nor on its way to one, and none comes after.  When join has    *)
(* returned, every loop thread is over, no socket is left in a mailbox and  *)
(* every slot has been given back.                                          *)
VerdictsAreTrue ==
    /\ TypeOK
    /\ verdict = "Ok" => \A l \in Loops : queue[l] = 0 /\ sessions[l] = 0
    /\ joined => (\A l \in Loops : Gone(l) /\ queue[l] = 0 /\ sessions[l] = 0)
                 /\ (Free(Stopper) => total = 0)

(* drainUntil returns, even when the notification of the last release was   *)
(* lost; so does start.  A stop, or the failure of one loop, ends every     *)
(* loop thread.                                                             *)
Unfinished == owner # "idle" \/ (stopRequested /\ \E l \in Loops : ~Gone(l))
CallsReturn == Unfinished ~> ~Unfinished
==============================================================================
