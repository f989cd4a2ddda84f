-------------------------------- MODULE Timer --------------------------------
(***************************************************************************)
(* The process-wide timer: TimerCore (commands, reservations, heap) and    *)
(* Timer (its thread around epoll, an eventfd and a timerfd, and start,    *)
(* stop, join).  A step is one critical section of the core's mutex, of    *)
(* the timer's mutex or one system call; what a caller does after it left  *)
(* the core, writing the eventfd, is a step of its own.                    *)
(*                                                                         *)
(* Ids are handed out once, so a timer is its id; the id's generation and  *)
(* sequence grow with it.  The two descriptors are edge-triggered, and the *)
(* thread empties what epoll_wait reported before it waits again: a flag   *)
(* "readable" stands for counter and edge.                                 *)
(***************************************************************************)
EXTENDS Integers, Sequences, FiniteSets, FiniteSetsExt, Functions

CONSTANTS
    Callers,           \* threads that schedule and cancel
    Joiners,           \* threads that call join
    MaxTimers,         \* ids handed out
    MaxTime,           \* the last instant of the steady clock
    CommandCapacity, TimerCapacity,
    CanFail            \* whether system calls of the thread may fail

ASSUME TimerAssumption ==
    /\ MaxTimers \in Nat /\ MaxTime \in Nat /\ CanFail \in BOOLEAN
    /\ CommandCapacity \in Nat \ {0} /\ TimerCapacity \in Nat \ {0}

Ids == 1..MaxTimers
Time == 0..MaxTime
Stop == 0          \* the stop command, and "no timer"
Never == -1        \* a timerfd that is not armed

VARIABLES
    now,                            \* SteadyClock::now()
    commands, live, dead, heap,     \* commands_; reservations_ active and cancelled; heap_
    accepting, stopRequested, stopped,
    deadline, next,                 \* id -> deadline; next_id_value_
    state,                          \* state_ of Timer
    pc, cycleNow, node, nextDeadline, ready,   \* the thread
    fdsOpen, event, alarm, expired, \* eventfd readable; timerfd armed for, readable
    caller,                         \* caller -> "idle", or "wake": it owes the eventfd a write
    stopper, joiner,                \* where the callers of stop and join are
    posted, cancelled               \* history: how often a timer was dispatched; cancel said Ok

core == <<commands, live, dead, heap, accepting, stopRequested, stopped, deadline, next>>
thread == <<pc, cycleNow, node, nextDeadline, ready>>
fds == <<fdsOpen, event, alarm, expired>>
control == <<stopper, joiner>>
history == <<posted, cancelled>>
vars == <<now, core, state, thread, fds, caller, control, history>>

Init ==
    /\ now = 0 /\ commands = <<>> /\ live = {} /\ dead = {} /\ heap = {}
    /\ accepting = TRUE /\ stopRequested = FALSE /\ stopped = FALSE
    /\ deadline = <<>> /\ next = 1
    /\ state = "Initialized"
    /\ pc = "none" /\ cycleNow = 0 /\ node = Stop /\ nextDeadline = Never /\ ready = {}
    /\ fdsOpen = TRUE /\ event = FALSE /\ alarm = Never /\ expired = FALSE
    /\ caller = [c \in Callers |-> "idle"]
    /\ stopper = "idle" /\ joiner = [j \in Joiners |-> "idle"]
    /\ posted = [t \in Ids |-> 0] /\ cancelled = {}

-----------------------------------------------------------------------------
(* The clock; an armed timerfd becomes readable when its time comes. *)
Tick ==
    /\ now < MaxTime /\ now' = now + 1
    /\ expired' = (expired \/ alarm = now')
    /\ alarm' = IF alarm = now' THEN Never ELSE alarm
    /\ UNCHANGED <<core, state, thread, fdsOpen, event, caller, control, history>>

-----------------------------------------------------------------------------
(* scheduleAt.  An answer other than Ok changes nothing. *)
HasRoom == Len(commands) < CommandCapacity /\ Cardinality(live \cup dead) < TimerCapacity
Schedule(c, d) ==
    /\ caller[c] = "idle" /\ state = "Running" /\ accepting /\ next <= MaxTimers
    /\ HasRoom
    /\ live' = live \cup {next} /\ commands' = Append(commands, next)
    /\ deadline' = Append(deadline, d) /\ next' = next + 1
    /\ caller' = [caller EXCEPT ![c] = "wake"]
    /\ UNCHANGED <<now, dead, heap, accepting, stopRequested, stopped, state, thread, fds, control, history>>

(* cancel of a reservation that exists; a missing one is answered NotFound. *)
Cancel(c, t) ==
    /\ caller[c] = "idle" /\ state = "Running" /\ accepting /\ t \in live
    /\ live' = live \ {t} /\ cancelled' = cancelled \cup {t}
    /\ caller' = [caller EXCEPT ![c] = "wake"]
    /\ UNCHANGED <<now, commands, dead, heap, accepting, stopRequested, stopped, deadline, next,
                   state, thread, fds, control, posted>>

(* notifyWorker, which answers WakeFailed once the descriptors are closed. *)
NotifyWorker(c) ==
    /\ caller[c] = "wake" /\ caller' = [caller EXCEPT ![c] = "idle"]
    /\ event' = (event \/ fdsOpen)
    /\ UNCHANGED <<now, core, state, thread, fdsOpen, alarm, expired, control, history>>

-----------------------------------------------------------------------------
(* The heap is ordered by deadline, then by sequence. *)
Before(t, u) == deadline[t] < deadline[u] \/ (deadline[t] = deadline[u] /\ t < u)
Top(h) == CHOOSE t \in h : \A u \in h \ {t} : Before(t, u)

(* cleanupStaleLocked: what is left of heap h when l is live. *)
Cleaned(h, l) == {t \in h : \E u \in h \cap l : u = t \/ Before(u, t)}
NextDeadline(h) == IF h = {} THEN Never ELSE deadline[Top(h)]

(* processCommands, the first half of runReady; the clock is read after it. *)
Consumed(cs, l) == heap \cup (Range(cs) \cap l)
ProcessCommands ==
    LET stops == Stop \in Range(commands)
        cancelledNow == IF stops THEN dead \cup live ELSE dead
        liveNow == IF stops THEN {} ELSE live
        h == Consumed(commands, live)
    IN  /\ commands' = <<>> /\ live' = liveNow
        /\ heap' = Cleaned(h, liveNow)
        /\ dead' = cancelledNow \ (h \ heap')
        /\ stopped' = (stopped \/ stops)
        /\ UNCHANGED <<accepting, stopRequested, deadline, next>>

BeginCycle ==
    /\ pc = "cycle" /\ ProcessCommands
    /\ cycleNow' = now /\ pc' = "pop"
    /\ UNCHANGED <<now, state, node, nextDeadline, ready, fds, caller, control, history>>

(* One turn of the loop of runReady: the next node that is due, or the end. *)
ReadyEarly(h) == h # {} /\ deadline[Top(h)] <= cycleNow + 1
Ready(h) == h # {} /\ deadline[Top(h)] <= cycleNow
ReservedAfterPop(t) == live \ {t}
PopReady ==
    LET h == Cleaned(heap, live)
    IN  /\ pc = "pop" /\ ~stopRequested /\ Ready(h)
        /\ node' = Top(h) /\ heap' = h \ {Top(h)} /\ live' = ReservedAfterPop(Top(h))
        /\ dead' = dead \ (heap \ h)
        /\ pc' = "post"
        /\ UNCHANGED <<now, commands, accepting, stopRequested, stopped, deadline, next, state,
                       cycleNow, nextDeadline, ready, fds, caller, control, history>>

(* tryPost outside the lock; the sink may be gone or refuse, which nobody sees. *)
Dispatch ==
    /\ pc = "post" /\ pc' = "pop"
    /\ posted' = [posted EXCEPT ![node] = @ + 1] /\ node' = Stop
    /\ UNCHANGED <<now, core, state, cycleNow, nextDeadline, ready, fds, caller, control, cancelled>>
EndCycle ==
    LET h == Cleaned(heap, live)
    IN  /\ pc = "pop"
        /\ stopRequested \/ ~Ready(h)
        /\ heap' = h /\ dead' = dead \ (heap \ h)
        /\ nextDeadline' = NextDeadline(h)
        /\ pc' = IF stopped THEN "close" ELSE "arm"
        /\ UNCHANGED <<now, commands, live, accepting, stopRequested, stopped, deadline, next, state,
                       cycleNow, node, ready, fds, caller, control, history>>

-----------------------------------------------------------------------------
(* The thread between two cycles: arm the timerfd, wait, empty what was     *)
(* reported.  A deadline in the past is armed for the next nanosecond.      *)
ArmFutureOnly ==
    /\ pc = "arm" /\ pc' = "wait"
    /\ alarm' = nextDeadline /\ expired' = FALSE
    /\ UNCHANGED <<now, core, state, cycleNow, node, nextDeadline, ready, fdsOpen, event, caller, control, history>>
Arm ==
    /\ pc = "arm" /\ pc' = "wait"
    /\ expired' = (nextDeadline # Never /\ nextDeadline <= now)
    /\ alarm' = IF expired' THEN Never ELSE nextDeadline
    /\ UNCHANGED <<now, core, state, cycleNow, node, nextDeadline, ready, fdsOpen, event, caller, control, history>>
Wait ==
    /\ pc = "wait" /\ pc' = "drain"
    /\ event \/ expired
    /\ ready' = {f \in {"event", "timer"} : (f = "event" /\ event) \/ (f = "timer" /\ expired)}
    /\ UNCHANGED <<now, core, state, cycleNow, node, nextDeadline, fds, caller, control, history>>
Interrupted ==
    /\ pc = "wait" /\ pc' = "cycle"
    /\ UNCHANGED <<now, core, state, cycleNow, node, nextDeadline, ready, fds, caller, control, history>>
DrainFds ==
    /\ pc = "drain" /\ pc' = "cycle" /\ ready' = {}
    /\ event' = (event /\ "event" \notin ready)
    /\ expired' = (expired /\ "timer" \notin ready)
    /\ UNCHANGED <<now, core, state, cycleNow, node, nextDeadline, fdsOpen, alarm, caller, control, history>>

(* A system call fails: requestStop, a last runReady (which dispatches      *)
(* nothing once a stop is requested), and the end.                          *)
StopCommandPushed == IF stopRequested THEN commands ELSE Append(commands, Stop)
ThreadFails ==
    /\ CanFail /\ pc \in {"arm", "wait", "drain"}
    /\ LET h == Consumed(StopCommandPushed, live)
       IN  heap' = {} /\ dead' = (dead \cup live) \ h
    /\ live' = {} /\ commands' = <<>> /\ stopped' = TRUE
    /\ accepting' = FALSE /\ stopRequested' = TRUE /\ pc' = "closeFailed"
    /\ UNCHANGED <<now, deadline, next, state, cycleNow, node, nextDeadline, ready, fds, caller, control, history>>

(* The timerfd is disarmed, which may fail as well, and all is closed. *)
CloseFds ==
    /\ pc \in {"close", "closeFailed"}
    /\ fdsOpen' = FALSE /\ event' = FALSE /\ alarm' = Never /\ expired' = FALSE
    /\ pc' \in (IF pc = "close" THEN {"end"} ELSE {}) \cup
              (IF pc = "closeFailed" \/ CanFail THEN {"endFailed"} ELSE {})
    /\ UNCHANGED <<now, core, state, cycleNow, node, nextDeadline, ready, caller, control, history>>
ThreadEnds ==
    /\ pc \in {"end", "endFailed"}
    /\ state' = IF pc = "end" THEN "Stopped" ELSE "Failed"
    /\ pc' = "exited"
    /\ UNCHANGED <<now, core, cycleNow, node, nextDeadline, ready, fds, caller, control, history>>

-----------------------------------------------------------------------------
(* start: Starting until the new thread says Running, or Failed. *)
Start ==
    /\ state = "Initialized" /\ state' = "Starting" /\ pc' = "boot"
    /\ UNCHANGED <<now, core, cycleNow, node, nextDeadline, ready, fds, caller, control, history>>
StartFails ==
    /\ CanFail /\ state = "Initialized" /\ state' = "Failed" /\ fdsOpen' = FALSE
    /\ UNCHANGED <<now, core, thread, event, alarm, expired, caller, control, history>>
ThreadBegins ==
    /\ pc = "boot" /\ state' = "Running" /\ pc' = "cycle"
    /\ UNCHANGED <<now, core, cycleNow, node, nextDeadline, ready, fds, caller, control, history>>

(* stop, with and without a thread. *)
RequestStop ==
    /\ commands' = StopCommandPushed
    /\ accepting' = FALSE /\ stopRequested' = TRUE
    /\ UNCHANGED <<live, dead, heap, stopped, deadline, next>>
StopTimer ==
    /\ stopper = "idle" /\ state \in {"Initialized", "Starting", "Running"}
    /\ stopper' = IF state = "Initialized" THEN "finish" ELSE "wake"
    /\ state' = "Stopping" /\ RequestStop
    /\ UNCHANGED <<now, thread, fds, caller, joiner, history>>
StopWakes ==
    /\ stopper = "wake" /\ stopper' = "done"
    /\ event' = (event \/ fdsOpen)
    /\ UNCHANGED <<now, core, state, thread, fdsOpen, alarm, expired, caller, joiner, history>>
StopWithoutThread ==
    /\ stopper = "finish" /\ stopper' = "done"
    /\ ProcessCommands /\ fdsOpen' = FALSE /\ state' = "Stopped"
    /\ UNCHANGED <<now, thread, event, alarm, expired, caller, joiner, history>>

(* join; a call before stop is answered InvalidState and may be repeated.   *)
(* The first caller joins the thread, a second waits for the first.         *)
Joining == \E j \in Joiners : joiner[j] = "join"
Joinable == pc # "none" /\ \A j \in Joiners : joiner[j] # "joined"
Join(j) ==
    /\ joiner[j] = "idle"
    /\ state \notin {"Initialized", "Starting", "Running"}
    /\ joiner' = [joiner EXCEPT ![j] = CASE Joining -> "await"
                                         [] ~Joining /\ Joinable -> "join"
                                         [] OTHER -> "ok"]
    /\ UNCHANGED <<now, core, state, thread, fds, caller, stopper, history>>
JoinReturnsAlone(j) ==
    /\ joiner[j] = "join" /\ pc = "exited"
    /\ joiner' = [joiner EXCEPT ![j] = "joined"]
    /\ UNCHANGED <<now, core, state, thread, fds, caller, stopper, history>>
JoinReturns(j) ==
    /\ joiner[j] = "join" /\ pc = "exited"
    /\ joiner' = [i \in Joiners |-> IF i = j THEN "joined"
                                    ELSE IF joiner[i] = "await" THEN "ok" ELSE joiner[i]]
    /\ UNCHANGED <<now, core, state, thread, fds, caller, stopper, history>>

Terminated == state \in {"Stopped", "Failed"} /\ pc \in {"none", "exited"} /\ UNCHANGED vars

-----------------------------------------------------------------------------
ThreadStep ==
    \/ ThreadBegins \/ BeginCycle \/ PopReady \/ Dispatch \/ EndCycle
    \/ Arm \/ Wait \/ DrainFds \/ CloseFds \/ ThreadEnds
CallerStep == \E c \in Callers : NotifyWorker(c)
StopStep == StopWakes \/ StopWithoutThread
Next ==
    \/ Tick \/ ThreadStep \/ Interrupted \/ ThreadFails
    \/ \E c \in Callers : \/ \E d \in Time : Schedule(c, d)
                          \/ \E t \in Ids : Cancel(c, t)
    \/ CallerStep \/ Start \/ StartFails \/ StopTimer \/ StopStep
    \/ \E j \in Joiners : Join(j) \/ JoinReturns(j)
    \/ Terminated

Spec == Init /\ [][Next]_vars

(* Time passes, the thread runs, and a call that was begun goes on. *)
FairSpec ==
    /\ Spec /\ WF_vars(Tick) /\ WF_vars(ThreadStep) /\ WF_vars(StopStep)
    /\ \A c \in Callers : WF_vars(NotifyWorker(c))
    /\ \A j \in Joiners : WF_vars(JoinReturns(j))

-----------------------------------------------------------------------------

(* A timer is dispatched at most once and never before its deadline, and    *)
(* once cancel answered Ok it is never dispatched, although cancel races    *)
(* with the command queue, the heap and the thread that is popping.         *)
DispatchSound ==
    \A t \in Ids : posted[t] > 0 =>
        posted[t] = 1 /\ deadline[t] <= now /\ t \notin cancelled

(* The thread never sleeps past work: while it waits, with nothing readable *)
(* and no caller about to write the eventfd, every command was consumed and *)
(* the timerfd is armed no later than the earliest live deadline.           *)
NoLostWakeUp ==
    (/\ pc = "wait" /\ ~event /\ ~expired
     /\ stopper # "wake" /\ \A c \in Callers : caller[c] = "idle")
    => /\ commands = <<>>
       /\ \A t \in live : alarm # Never /\ alarm <= deadline[t]

(* Capacity is not leaked: until the stop, a reservation belongs to a       *)
(* command or a heap node that will release it, and none is left cancelled. *)
ReservationsHeld ==
    ~stopped => /\ live \subseteq heap \cup Range(commands)
                /\ dead = {} /\ Cardinality(live) <= TimerCapacity

(* Every timer that was accepted is dispatched, unless it is cancelled or   *)
(* the timer is stopped.                                                    *)
AcceptedFires == \A t \in Ids : t \in live ~> (posted[t] > 0 \/ t \in cancelled \/ stopRequested)

(* A stop that found a thread, even one that is only starting and will      *)
(* still write Running over Stopping, ends it; and a join that waits, for   *)
(* the thread or for another join, returns once the thread is gone.         *)
StopEnds ==
    /\ stopper # "idle" ~> state \in {"Stopped", "Failed"}
    /\ \A j \in Joiners :
          joiner[j] \in {"join", "await"} ~> joiner[j] \in {"joined", "ok"} /\ pc = "exited"
==============================================================================
