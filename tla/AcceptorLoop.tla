----------------------------- MODULE AcceptorLoop -----------------------------
(***************************************************************************)
(* AcceptorLoop: one thread that accepts from an edge-triggered listening  *)
(* socket until it would block, gives up one connection through a reserve  *)
(* descriptor when the process has none left, and is stopped through an    *)
(* eventfd.  Owner starts, stops and joins it; Stop may also come from     *)
(* another thread at any time.                                             *)
(***************************************************************************)
EXTENDS Integers

CONSTANTS
    MaxConnects,         \* connections peers open in a run
    MaxExhaustions,      \* times others take descriptors away from the process
    CanFail              \* creating the listener or the thread, and epoll_wait, may fail

VARIABLES
    state,               \* AcceptorLoopState
    stopRequested,
    thread,              \* where the thread is
    batch,               \* events of epoll_wait not yet handled
    backlog, edge,       \* connections to accept, and the listener's place in epoll
    wake,                \* the eventfd has been written and not returned by epoll_wait
    listening,           \* listen_fd is open
    reserve,             \* reserve_fd is valid
    free,                \* descriptors the process may still open: none, one, Many
    exhaustions,
    gaveUp,              \* drainAccept was left although accept had not answered that it would block
    dispatched,          \* sockets handed to the event loops
    connects,
    owner, joined
net == <<backlog, edge, connects>>
fds == <<reserve, free, exhaustions, gaveUp>>
vars == <<state, stopRequested, thread, batch, backlog, edge, wake, listening, reserve, free,
          exhaustions, gaveUp, dispatched, connects, owner, joined>>

(* A descriptor is opened, and closed. *)
Many == 2
Took(n) == IF n = Many THEN n ELSE n - 1
Gave(n) == IF n = Many THEN n ELSE n + 1

Init ==
    /\ state = "Constructed" /\ stopRequested = FALSE /\ thread = "none" /\ batch = {}
    /\ backlog = 0 /\ edge = FALSE /\ wake = FALSE /\ listening = FALSE /\ reserve = FALSE
    /\ free = Many /\ exhaustions = 0 /\ gaveUp = FALSE /\ dispatched = 0
    /\ connects = 0 /\ owner = "idle" /\ joined = FALSE

-----------------------------------------------------------------------------
(* The world around it. *)
Connect ==
    /\ listening /\ connects < MaxConnects
    /\ connects' = connects + 1 /\ backlog' = backlog + 1 /\ edge' = TRUE
    /\ UNCHANGED <<state, stopRequested, thread, batch, wake, listening, fds, dispatched, owner, joined>>
RunOut ==
    /\ free > 0 /\ exhaustions < MaxExhaustions
    /\ free' \in 0..(free - 1) /\ exhaustions' = exhaustions + 1
    /\ UNCHANGED <<state, stopRequested, thread, batch, net, wake, listening, reserve, gaveUp,
                   dispatched, owner, joined>>
Recovers ==
    /\ free < Many /\ free' \in (free + 1)..Many
    /\ UNCHANGED <<state, stopRequested, thread, batch, net, wake, listening, reserve, exhaustions,
                   gaveUp, dispatched, owner, joined>>

-----------------------------------------------------------------------------
(* start: the resources, the thread, and a wait until the thread has said   *)
(* who it is.                                                               *)
Start ==
    /\ owner = "idle" /\ state = "Constructed" /\ free = Many
    /\ state' = "Starting" /\ owner' = "starting" /\ stopRequested' = FALSE
    /\ listening' = TRUE /\ reserve' = TRUE /\ thread' = "born"
    /\ UNCHANGED <<batch, net, wake, free, exhaustions, gaveUp, dispatched, joined>>
StartFails ==
    /\ CanFail /\ owner = "idle" /\ state = "Constructed" /\ state' = "Failed"
    /\ UNCHANGED <<stopRequested, thread, batch, net, wake, listening, fds, dispatched, owner, joined>>
Started ==
    /\ owner = "starting" /\ thread = "gate" /\ state' = "Running" /\ owner' = "idle"
    /\ UNCHANGED <<stopRequested, thread, batch, net, wake, listening, fds, dispatched, joined>>

(* stop: nothing but a running acceptor is told to stop. *)
Stop ==
    /\ state \in {"Constructed", "Running"}
    /\ stopRequested' = TRUE
    /\ IF state = "Constructed" THEN state' = "Stopped" /\ UNCHANGED wake
       ELSE state' = "Stopping" /\ wake' = TRUE
    /\ UNCHANGED <<thread, batch, net, listening, fds, dispatched, owner, joined>>

Join ==
    /\ owner = "idle" /\ ~joined /\ state \in {"Stopping", "Stopped", "Failed"}
    /\ thread \in {"none", "ended"} /\ joined' = TRUE
    /\ UNCHANGED <<state, stopRequested, thread, batch, net, wake, listening, fds, dispatched, owner>>

-----------------------------------------------------------------------------
(* threadMain. *)
Goes(from, to) == thread = from /\ thread' = to
still == <<state, wake, owner, joined, listening>>

ThreadBegins ==
    /\ Goes("born", "gate")
    /\ UNCHANGED <<stopRequested, batch, net, fds, dispatched, still>>
ThreadReleased ==
    /\ Goes("gate", "check") /\ state # "Starting"
    /\ UNCHANGED <<stopRequested, batch, net, fds, dispatched, still>>
Check ==
    /\ Goes("check", IF stopRequested THEN "release" ELSE "wait")
    /\ UNCHANGED <<stopRequested, batch, net, fds, dispatched, still>>
EpollWait ==
    /\ Goes("wait", "batch") /\ (edge \/ wake)
    /\ batch' = (IF edge THEN {"listen"} ELSE {}) \cup (IF wake THEN {"stop"} ELSE {})
    /\ edge' = FALSE /\ wake' = FALSE
    /\ UNCHANGED <<state, stopRequested, backlog, connects, listening, fds, dispatched, owner, joined>>
EpollFails ==
    /\ CanFail /\ Goes("wait", "release") /\ batch' = {"failed"}
    /\ UNCHANGED <<stopRequested, net, fds, dispatched, still>>
BatchEnds ==
    /\ Goes("batch", "check") /\ (batch = {} \/ stopRequested) /\ batch' = {}
    /\ UNCHANGED <<stopRequested, net, fds, dispatched, still>>
StopEvent ==
    /\ Goes("batch", "check") /\ "stop" \in batch
    /\ batch' \in {{}} \cup (IF CanFail THEN {{"failed"}} ELSE {})
    /\ UNCHANGED <<stopRequested, net, fds, dispatched, still>>
ListenEvent ==
    /\ Goes("batch", "accept") /\ "listen" \in batch /\ ~stopRequested /\ batch' = batch \ {"listen"}
    /\ UNCHANGED <<stopRequested, net, fds, dispatched, still>>

(* drainAccept.  accept4 takes a descriptor before it looks at the backlog: *)
(* without one it fails even when there is nothing to accept.               *)
AcceptStopped ==
    /\ Goes("accept", "batch") /\ stopRequested
    /\ UNCHANGED <<stopRequested, batch, net, fds, dispatched, still>>
Accepts ==
    /\ Goes("accept", "dispatch") /\ ~stopRequested /\ free > 0 /\ backlog > 0
    /\ backlog' = backlog - 1 /\ free' = Took(free)
    /\ UNCHANGED <<stopRequested, batch, edge, connects, reserve, exhaustions, gaveUp, dispatched, still>>
AcceptsNothing ==
    /\ thread = "accept" /\ ~stopRequested /\ free > 0 /\ backlog > 0
    /\ backlog' = backlog - 1
    /\ UNCHANGED <<stopRequested, thread, batch, edge, connects, fds, dispatched, still>>
WouldBlockAlways ==
    /\ Goes("accept", "batch") /\ ~stopRequested /\ free > 0
    /\ UNCHANGED <<stopRequested, batch, net, fds, dispatched, still>>
WouldBlock ==
    /\ Goes("accept", "batch") /\ ~stopRequested /\ free > 0 /\ backlog = 0
    /\ UNCHANGED <<stopRequested, batch, net, fds, dispatched, still>>
UnknownError ==
    /\ Goes("accept", "batch") /\ ~stopRequested /\ gaveUp' = TRUE
    /\ UNCHANGED <<stopRequested, batch, net, reserve, free, exhaustions, dispatched, still>>

(* dispatchAccepted, under the lock. *)
Dispatch ==
    /\ Goes("dispatch", "accept")
    /\ dispatched' = IF state = "Running" /\ ~stopRequested THEN dispatched + 1 ELSE dispatched
    /\ UNCHANGED <<stopRequested, batch, net, fds, still>>

(* recoverFromFdExhaustion: the reserve is closed, accept tried again, and  *)
(* the reserve opened again.  In between, others may take the descriptor    *)
(* that was freed, and a reserve that is already lost frees none.           *)
NoDescriptor ==
    /\ Goes("accept", "recover") /\ ~stopRequested /\ free = 0
    /\ reserve' = FALSE /\ free' = IF reserve THEN Gave(free) ELSE free
    /\ UNCHANGED <<stopRequested, batch, net, exhaustions, gaveUp, dispatched, still>>
RecoveryStopped ==
    /\ Goes("recover", "reopen") /\ stopRequested
    /\ UNCHANGED <<stopRequested, batch, net, fds, dispatched, still>>
Sheds ==
    /\ Goes("recover", "reopen") /\ ~stopRequested /\ free > 0 /\ backlog > 0
    /\ backlog' = backlog - 1
    /\ UNCHANGED <<stopRequested, batch, edge, connects, fds, dispatched, still>>
NothingToShed ==
    /\ Goes("recover", "reopen") /\ ~stopRequested /\ free > 0 /\ backlog = 0
    /\ UNCHANGED <<stopRequested, batch, net, fds, dispatched, still>>
(* Any other error: accept leaves the backlog as it is, and nobody is told. *)
ShedRefused ==
    /\ Goes("recover", "reopen") /\ ~stopRequested
    /\ UNCHANGED <<stopRequested, batch, net, fds, dispatched, still>>
Reopens ==
    /\ Goes("reopen", "accept") /\ free > 0
    /\ reserve' = TRUE /\ free' = Took(free)
    /\ UNCHANGED <<stopRequested, batch, net, exhaustions, gaveUp, dispatched, still>>
ReserveLost ==
    /\ Goes("reopen", "batch") /\ gaveUp' = TRUE
    /\ UNCHANGED <<stopRequested, batch, net, reserve, free, exhaustions, dispatched, still>>

(* releaseResources and the last state, under the lock. *)
Release ==
    /\ Goes("release", "ended")
    /\ listening' = FALSE /\ reserve' = FALSE /\ free' = Many /\ backlog' = 0 /\ edge' = FALSE /\ wake' = FALSE
    /\ state' = IF "failed" \in batch THEN "Failed" ELSE "Stopped"
    /\ UNCHANGED <<stopRequested, batch, connects, exhaustions, gaveUp, dispatched, owner, joined>>

-----------------------------------------------------------------------------
ThreadStep ==
    \/ ThreadBegins \/ ThreadReleased \/ Check \/ EpollWait \/ BatchEnds \/ StopEvent
    \/ ListenEvent \/ AcceptStopped \/ Accepts \/ AcceptsNothing \/ WouldBlock \/ Dispatch
    \/ NoDescriptor \/ RecoveryStopped \/ Sheds \/ NothingToShed \/ Reopens \/ Release
    \/ free = 0 /\ (ShedRefused \/ ReserveLost)
ThreadFails == EpollFails \/ UnknownError \/ ShedRefused \/ ReserveLost
Terminated == joined /\ UNCHANGED vars
Next ==
    \/ ThreadStep \/ ThreadFails \/ Connect \/ RunOut \/ Recovers
    \/ Start \/ StartFails \/ Started \/ Stop \/ Join \/ Terminated

Spec == Init /\ [][Next]_vars

(* The thread runs; the process may stay without descriptors for ever. *)
FairSpec == Spec /\ WF_vars(ThreadStep) /\ WF_vars(Started)

-----------------------------------------------------------------------------
(* As long as accept fails only in the ways drainAccept goes on from: when  *)
(* the acceptor waits, connections in the backlog have an edge to bring it  *)
(* back, and the reserve descriptor is there for the next time the process  *)
(* runs out (drainAccept goes on until accept would block).                 *)
NoneOverlooked == ~gaveUp /\ thread = "wait" => (backlog > 0 => edge) /\ reserve

(* When join has returned the port accepts no more: the thread is over and  *)
(* its descriptors are closed (releaseResources).                           *)
JoinMeansClosed == joined => ~listening /\ ~reserve /\ thread \in {"none", "ended"}

(* Every connection in the backlog is taken, or shed while the process has  *)
(* no descriptor left, unless the acceptor gives up on it or the accept     *)
(* that should shed one is refused again and again: recoverFromFdExhaustion *)
(* answers true after such a refusal, and drainAccept goes round.           *)
BacklogServed ==
    \/ []<><<ShedRefused>>_vars
    \/ backlog > 0 ~> backlog = 0 \/ gaveUp
==============================================================================
