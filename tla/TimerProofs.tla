------------------------------ MODULE TimerProofs ------------------------------
(***************************************************************************)
(* The timer for any number of callers, timers and instants and for all    *)
(* capacities: what is dispatched, how capacity is kept, and that the      *)
(* thread does not sleep past work.                                        *)
(***************************************************************************)
EXTENDS Timer, WellFoundedInduction, FiniteSetTheorems, TLAPS

Known == 1..(next - 1)

(* Types, and that a live timer can be found in the queue or in the heap. *)
CoreInv ==
    /\ now \in Nat /\ cycleNow \in Nat /\ cycleNow <= now
    /\ next \in Nat \ {0} /\ next <= MaxTimers + 1
    /\ commands \in Seq(Int)
    /\ deadline \in Seq(Nat) /\ Len(deadline) = next - 1
    /\ live \subseteq Known /\ heap \subseteq Known
    /\ live \subseteq heap \cup Range(commands)

(* What becomes of a timer: live, popped, dispatched or cancelled. *)
FateInv ==
    /\ posted \in [Ids -> Nat] /\ cancelled \subseteq Known
    /\ \A t \in live : posted[t] = 0 /\ t \notin cancelled
    /\ \A t \in Ids : posted[t] > 0 =>
          t \in Known /\ posted[t] = 1 /\ deadline[t] <= now /\ t \notin cancelled
    /\ pc = "post" =>
          /\ node \in Known \ (live \cup cancelled)
          /\ posted[node] = 0 /\ deadline[node] <= now

(* Nobody is about to wake the thread, and nothing has woken it yet. *)
Quiet == ~event /\ stopper # "wake" /\ \A c \in Callers : caller[c] = "idle"

(* The thread has seen every command that no wake-up will tell it about;   *)
(* from EndCycle on it also has the earliest deadline.                     *)
WakeInv ==
    /\ caller \in [Callers -> {"idle", "wake"}]
    /\ pc \in {"boot", "cycle", "pop", "post", "arm", "wait", "drain"} => fdsOpen
    /\ state = "Initialized" => fdsOpen
    /\ state = "Initialized" \/ stopper = "finish" => pc = "none"
    /\ ~(state = "Initialized" /\ stopper = "finish")
    /\ alarm \in Nat \cup {Never}
    /\ pc = "arm" => nextDeadline \in Nat \cup {Never}
    /\ pc \in {"pop", "post", "arm", "wait"} /\ Quiet => commands = <<>>
    /\ pc = "arm" /\ Quiet =>
          \A t \in live : nextDeadline # Never /\ nextDeadline <= deadline[t]
    /\ pc = "wait" /\ Quiet /\ ~expired =>
          \A t \in live : alarm # Never /\ alarm <= deadline[t]

-----------------------------------------------------------------------------
(* A non-empty set of naturals has a least element. *)
LEMMA LeastNat ==
    ASSUME NEW T, T \subseteq Nat, T # {}
    PROVE  \E x \in T : \A y \in T : x <= y
<1>1. PICK x \in T : \A y \in T : ~ (<<y, x>> \in OpToRel(<, Nat))
  BY NatLessThanWellFounded, WFMin, Zenon
<1>2. \A y \in T : ~ (y < x)
  BY <1>1 DEF OpToRel
<1> QED
  BY <1>2

(* The heap's order is total, so a heap that is not empty has one top.      *)
LEMMA TopIsFirst ==
    ASSUME NEW h, h \subseteq Known, h # {},
           next \in Nat, deadline \in Seq(Nat), Len(deadline) = next - 1
    PROVE  Top(h) \in h /\ \A u \in h \ {Top(h)} : Before(Top(h), u)
<1>1. \A t \in h : t \in Nat /\ deadline[t] \in Nat
  BY DEF Known
<1>2. PICK d \in {deadline[t] : t \in h} : \A e \in {deadline[t] : t \in h} : d <= e
  <2>1. {deadline[t] : t \in h} \subseteq Nat /\ {deadline[t] : t \in h} # {}
    BY <1>1
  <2> QED
    BY <2>1, LeastNat
<1>3. PICK t \in {u \in h : deadline[u] = d} : \A u \in {v \in h : deadline[v] = d} : t <= u
  <2>1. {u \in h : deadline[u] = d} \subseteq Nat /\ {u \in h : deadline[u] = d} # {}
    BY <1>1, <1>2
  <2> QED
    BY <2>1, LeastNat
<1>4. \A u \in h \ {t} : Before(t, u)
  <2> TAKE u \in h \ {t}
  <2>1. t \in Nat /\ u \in Nat /\ t # u /\ deadline[u] \in Nat /\ deadline[t] = d
    BY <1>1, <1>3
  <2>2. d \in Nat /\ d <= deadline[u]
    BY <1>1, <1>2
  <2>3. deadline[u] = d => t <= u
    BY <1>3
  <2> QED
    BY <2>1, <2>2, <2>3 DEF Before
<1> QED
  BY <1>3, <1>4 DEF Top

(* cleanupStaleLocked keeps the live nodes, and only a live one can be top. *)
LEMMA CleanedTop ==
    ASSUME NEW h, h \subseteq Known, NEW l,
           next \in Nat, deadline \in Seq(Nat), Len(deadline) = next - 1
    PROVE  /\ Cleaned(h, l) \subseteq h /\ h \cap l \subseteq Cleaned(h, l)
           /\ Cleaned(h, l) # {} =>
                 /\ Top(Cleaned(h, l)) \in h \cap l
                 /\ deadline[Top(Cleaned(h, l))] \in Nat
                 /\ \A t \in Cleaned(h, l) : deadline[Top(Cleaned(h, l))] <= deadline[t]
<1> DEFINE k == Cleaned(h, l)
<1>1. k \subseteq h /\ h \cap l \subseteq k
  BY DEF Cleaned
<1>2. ASSUME k # {}
      PROVE  Top(k) \in h \cap l /\ deadline[Top(k)] \in Nat /\ \A t \in k : deadline[Top(k)] <= deadline[t]
  <2> DEFINE top == Top(k)
  <2>1. top \in k /\ \A u \in k \ {top} : Before(top, u)
    BY <1>1, <1>2, TopIsFirst
  <2>2. \A t \in h : t \in Nat /\ deadline[t] \in Nat
    BY DEF Known
  <2>3. PICK u \in h \cap l : u = top \/ Before(u, top)
    BY <2>1 DEF Cleaned
  <2>4. u \in k
    BY <1>1
  <2>5. u = top
    BY <1>1, <2>1, <2>2, <2>3, <2>4 DEF Before
  <2>6. \A t \in k : deadline[top] <= deadline[t]
    BY <1>1, <2>1, <2>2 DEF Before
  <2> QED
    BY <2>2, <2>3, <2>5, <2>6
<1> QED
  BY <1>1, <1>2

(* What a command added to the queue, or a deadline to the table, leaves.   *)
LEMMA AppendFacts ==
    ASSUME NEW S, NEW s \in Seq(S), NEW e \in S
    PROVE  /\ Append(s, e) \in Seq(S) /\ Len(Append(s, e)) = Len(s) + 1
           /\ \A i \in 1..Len(s) : Append(s, e)[i] = s[i]
           /\ Append(s, e)[Len(s) + 1] = e
           /\ Range(s) \cup {e} \subseteq Range(Append(s, e))
<1>1. /\ Append(s, e) \in Seq(S) /\ Len(Append(s, e)) = Len(s) + 1
      /\ \A i \in 1..Len(s) : Append(s, e)[i] = s[i]
      /\ Append(s, e)[Len(s) + 1] = e
  OBVIOUS
<1>2. DOMAIN s = 1..Len(s) /\ DOMAIN Append(s, e) = 1..(Len(s) + 1) /\ Len(s) \in Nat
  BY <1>1
<1>3. \A i \in DOMAIN s : i \in DOMAIN Append(s, e) /\ Append(s, e)[i] = s[i]
  BY <1>1, <1>2
<1>4. Len(s) + 1 \in DOMAIN Append(s, e)
  BY <1>2
<1> QED
  BY <1>1, <1>3, <1>4 DEF Range

-----------------------------------------------------------------------------
(* processCommands empties the queue and keeps every live timer in the heap. *)
LEMMA ProcessCommandsFacts ==
    ASSUME CoreInv, ProcessCommands
    PROVE  /\ commands' = <<>> /\ live' \subseteq live
           /\ heap' \subseteq Known /\ live' \subseteq heap'
           /\ UNCHANGED <<deadline, next>>
<1> DEFINE h == Consumed(commands, live)
           l == IF Stop \in Range(commands) THEN {} ELSE live
<1>1. h \subseteq Known /\ live \subseteq h
  BY DEF CoreInv, Consumed
<1>2. Cleaned(h, l) \subseteq h /\ h \cap l \subseteq Cleaned(h, l)
  BY DEF Cleaned
<1>3. commands' = <<>> /\ live' = l /\ heap' = Cleaned(h, l) /\ UNCHANGED <<deadline, next>>
  BY DEF ProcessCommands
<1> QED
  BY <1>1, <1>2, <1>3

(* One turn of runReady takes a live timer that is due out of both tables. *)
LEMMA PopReadyFacts ==
    ASSUME CoreInv, PopReady
    PROVE  /\ node' \in live /\ deadline[node'] <= now
           /\ live' = live \ {node'} /\ heap' \subseteq heap
           /\ live' \cap heap \subseteq heap'
           /\ UNCHANGED <<deadline, next, commands, now, cycleNow>>
<1> DEFINE h == Cleaned(heap, live)
<1>1. h # {} /\ deadline[Top(h)] <= cycleNow
  BY DEF PopReady, Ready
<1>2. /\ h \subseteq heap /\ heap \cap live \subseteq h
      /\ Top(h) \in live /\ deadline[Top(h)] \in Nat
  BY <1>1, CleanedTop DEF CoreInv
<1>3. node' = Top(h) /\ heap' = h \ {Top(h)} /\ live' = live \ {Top(h)}
  BY DEF PopReady, ReservedAfterPop
<1>4. UNCHANGED <<deadline, next, commands, now, cycleNow>>
  BY DEF PopReady
<1> HIDE DEF h
<1>5. deadline[node'] <= now
  BY <1>1, <1>2, <1>3 DEF CoreInv
<1> QED
  BY <1>2, <1>3, <1>4, <1>5

(* The end of a cycle has the deadline of the first live timer, if any.     *)
LEMMA EndCycleFacts ==
    ASSUME CoreInv, EndCycle
    PROVE  /\ heap' \subseteq heap /\ live \cap heap \subseteq heap'
           /\ nextDeadline' \in Nat \cup {Never}
           /\ \A t \in live \cap heap : nextDeadline' # Never /\ nextDeadline' <= deadline[t]
           /\ UNCHANGED <<live, deadline, next, commands, now, cycleNow>>
<1> DEFINE h == Cleaned(heap, live)
<1>1. /\ h \subseteq heap /\ heap \cap live \subseteq h
      /\ h # {} => deadline[Top(h)] \in Nat /\ \A t \in h : deadline[Top(h)] <= deadline[t]
  BY CleanedTop DEF CoreInv
<1>2. heap' = h /\ nextDeadline' = IF h = {} THEN Never ELSE deadline[Top(h)]
  BY DEF EndCycle, NextDeadline
<1>3. UNCHANGED <<live, deadline, next, commands, now, cycleNow>>
  BY DEF EndCycle
<1> HIDE DEF h
<1> QED
  BY <1>1, <1>2, <1>3 DEF Never

(* CoreInv holds before start. *)
LEMMA InitCore == Init => CoreInv
BY TimerAssumption DEF Init, CoreInv, Known, Range

(* Every critical section of the core keeps CoreInv. *)
LEMMA NextCore == ASSUME CoreInv, [Next]_vars PROVE CoreInv'
<1>1. ASSUME NEW c \in Callers, NEW d \in Time, Schedule(c, d) PROVE CoreInv'
  <2>1. d \in Nat /\ next \in Int
    BY DEF Time, CoreInv
  <2>2. /\ commands' = Append(commands, next) /\ deadline' = Append(deadline, d)
        /\ next' = next + 1 /\ live' = live \cup {next} /\ next <= MaxTimers
        /\ UNCHANGED <<heap, now, cycleNow>>
    BY <1>1 DEF Schedule, thread
  <2>3. commands' \in Seq(Int) /\ Range(commands) \cup {next} \subseteq Range(commands')
    BY <2>1, <2>2, AppendFacts DEF CoreInv
  <2>4. deadline' \in Seq(Nat) /\ Len(deadline') = Len(deadline) + 1
    BY <2>1, <2>2, AppendFacts DEF CoreInv
  <2>5. Known' = Known \cup {next}
    BY <2>2 DEF CoreInv, Known
  <2> QED
    BY <2>2, <2>3, <2>4, <2>5, TimerAssumption DEF CoreInv
<1>2. ASSUME NEW c \in Callers, NEW t \in Ids, Cancel(c, t) PROVE CoreInv'
  BY <1>2 DEF Cancel, CoreInv, Known, thread
<1>3. CASE BeginCycle
  <2>1. ProcessCommands /\ cycleNow' = now /\ now' = now
    BY <1>3 DEF BeginCycle
  <2>2. /\ commands' = <<>> /\ live' \subseteq live
        /\ heap' \subseteq Known /\ live' \subseteq heap' /\ UNCHANGED <<deadline, next>>
    BY <2>1, ProcessCommandsFacts
  <2>3. commands' \in Seq(Int) /\ Known' = Known
    BY <2>2 DEF Known
  <2> QED
    BY <2>1, <2>2, <2>3 DEF CoreInv
<1>4. CASE PopReady
  BY <1>4, PopReadyFacts DEF CoreInv, Known
<1>5. CASE EndCycle
  BY <1>5, EndCycleFacts DEF CoreInv, Known
<1>6. CASE ThreadFails
  BY <1>6 DEF ThreadFails, CoreInv, Known
<1>7. CASE StopTimer
  <2>1. /\ commands' \in {commands, Append(commands, Stop)}
        /\ UNCHANGED <<live, heap, deadline, next, now, cycleNow>>
    BY <1>7 DEF StopTimer, RequestStop, StopCommandPushed, thread
  <2>2. commands' \in Seq(Int) /\ Range(commands) \subseteq Range(commands')
    <3>1. commands \in Seq(Int) /\ Stop \in Int
      BY DEF CoreInv, Stop
    <3>2. /\ Append(commands, Stop) \in Seq(Int)
          /\ Range(commands) \subseteq Range(Append(commands, Stop))
      BY <3>1, AppendFacts
    <3> QED
      BY <2>1, <3>1, <3>2
  <2> QED
    BY <2>1, <2>2 DEF CoreInv, Known
<1>8. CASE StopWithoutThread
  <2>1. ProcessCommands /\ UNCHANGED <<now, cycleNow>>
    BY <1>8 DEF StopWithoutThread, thread
  <2>2. /\ commands' = <<>> /\ live' \subseteq live
        /\ heap' \subseteq Known /\ live' \subseteq heap' /\ UNCHANGED <<deadline, next>>
    BY <2>1, ProcessCommandsFacts
  <2>3. commands' \in Seq(Int) /\ Known' = Known
    BY <2>2 DEF Known
  <2> QED
    BY <2>1, <2>2, <2>3 DEF CoreInv
<1>9. CASE Tick
  BY <1>9 DEF Tick, CoreInv, Known, core, thread
<1>10. ASSUME UNCHANGED <<core, now, cycleNow>> PROVE CoreInv'
  BY <1>10 DEF CoreInv, Known, core
<1>11. CASE ThreadBegins \/ Dispatch \/ Arm \/ Wait \/ Interrupted \/ DrainFds \/ CloseFds \/ ThreadEnds
  BY <1>10, <1>11 DEF ThreadBegins, Dispatch, Arm, Wait, Interrupted, DrainFds, CloseFds, ThreadEnds
<1>12. CASE Start \/ StartFails \/ StopWakes \/ Terminated \/ UNCHANGED vars
  BY <1>10, <1>12 DEF Start, StartFails, StopWakes, Terminated, vars, thread
<1>13. ASSUME NEW c \in Callers, NotifyWorker(c) PROVE CoreInv'
  BY <1>10, <1>13 DEF NotifyWorker, thread
<1>14. ASSUME NEW j \in Joiners, Join(j) \/ JoinReturns(j) PROVE CoreInv'
  BY <1>10, <1>14 DEF Join, JoinReturns, thread
<1> QED
  BY <1>1, <1>2, <1>3, <1>4, <1>5, <1>6, <1>7, <1>8, <1>9, <1>11, <1>12, <1>13, <1>14
  DEF Next, ThreadStep, CallerStep, StopStep

-----------------------------------------------------------------------------
(* FateInv holds before start. *)
LEMMA InitFate == Init => FateInv
BY DEF Init, FateInv, Known, Ids

(* A timer leaves the live ones by a cancel or by a pop, never by both; the *)
(* thread dispatches only what it popped.                                   *)
LEMMA NextFate == ASSUME CoreInv, FateInv, [Next]_vars PROVE FateInv'
<1>1. ASSUME NEW c \in Callers, NEW d \in Time, Schedule(c, d) PROVE FateInv'
  <2>1. /\ deadline' = Append(deadline, d) /\ next' = next + 1 /\ next <= MaxTimers
        /\ live' = live \cup {next} /\ UNCHANGED <<pc, node, now, posted, cancelled>>
    BY <1>1 DEF Schedule, thread, history
  <2>2. \A t \in Known : deadline'[t] = deadline[t]
    <3>1. d \in Nat /\ deadline \in Seq(Nat) /\ Known = 1..Len(deadline)
      BY DEF Time, CoreInv, Known
    <3> QED
      BY <2>1, <3>1, AppendFacts
  <2>3. Known' = Known \cup {next} /\ next \notin Known /\ next \in Ids
    BY <2>1, TimerAssumption DEF CoreInv, Known, Ids
  <2>4. posted[next] = 0 /\ next \notin cancelled
    BY <2>3 DEF FateInv
  <2> QED
    BY <2>1, <2>2, <2>3, <2>4 DEF FateInv
<1>2. ASSUME NEW c \in Callers, NEW t \in Ids, Cancel(c, t) PROVE FateInv'
  <2>1. /\ t \in live /\ live' = live \ {t} /\ cancelled' = cancelled \cup {t}
        /\ UNCHANGED <<deadline, next, pc, node, now, posted>>
    BY <1>2 DEF Cancel, thread
  <2>2. Known' = Known /\ t \in Known
    BY <2>1 DEF Known, CoreInv
  <2> QED
    BY <2>1, <2>2 DEF FateInv
<1>3. ASSUME ProcessCommands, pc' # "post", UNCHANGED <<now, posted, cancelled>> PROVE FateInv'
  <2>1. live' \subseteq live /\ UNCHANGED <<deadline, next>>
    BY <1>3, ProcessCommandsFacts
  <2> QED
    BY <1>3, <2>1 DEF FateInv, Known
<1>4. CASE BeginCycle
  BY <1>3, <1>4 DEF BeginCycle, history
<1>5. CASE PopReady
  <2>1. /\ node' \in live /\ deadline[node'] <= now /\ live' = live \ {node'}
        /\ UNCHANGED <<deadline, next, now>>
    BY <1>5, PopReadyFacts
  <2>2. UNCHANGED <<posted, cancelled>>
    BY <1>5 DEF PopReady, history
  <2> QED
    BY <2>1, <2>2 DEF FateInv, Known, CoreInv
<1>6. CASE Dispatch
  <2>1. /\ pc = "post" /\ pc' = "pop" /\ posted' = [posted EXCEPT ![node] = @ + 1]
        /\ UNCHANGED <<live, deadline, next, now, cancelled>>
    BY <1>6 DEF Dispatch, core
  <2>2. /\ node \in Known /\ node \in Ids /\ node \notin live /\ node \notin cancelled
        /\ posted[node] = 0 /\ deadline[node] <= now
    BY <2>1, TimerAssumption DEF FateInv, CoreInv, Known, Ids
  <2>3. posted' \in [Ids -> Nat] /\ posted'[node] = 1 /\ \A t \in Ids \ {node} : posted'[t] = posted[t]
    BY <2>1, <2>2 DEF FateInv
  <2>4. live \subseteq Ids
    BY TimerAssumption DEF CoreInv, Known, Ids
  <2>5. Known' = Known
    BY <2>1 DEF Known
  <2> QED
    BY <2>1, <2>2, <2>3, <2>4, <2>5 DEF FateInv
<1>7. CASE EndCycle
  BY <1>7 DEF EndCycle, FateInv, Known, history
<1>8. CASE ThreadFails
  BY <1>8 DEF ThreadFails, FateInv, Known, history
<1>9. CASE StopTimer
  BY <1>9 DEF StopTimer, RequestStop, FateInv, Known, thread, history
<1>10. CASE StopWithoutThread
  <2>1. live' \subseteq live /\ UNCHANGED <<deadline, next>>
    BY <1>10, ProcessCommandsFacts DEF StopWithoutThread
  <2> QED
    BY <1>10, <2>1 DEF StopWithoutThread, FateInv, Known, thread, history
<1>11. CASE Tick
  <2>1. now' = now + 1 /\ UNCHANGED <<live, deadline, next, pc, node, posted, cancelled>>
    BY <1>11 DEF Tick, core, thread, history
  <2>2. \A t \in Known : deadline[t] \in Nat
    BY DEF CoreInv, Known
  <2> QED
    BY <2>1, <2>2 DEF FateInv, CoreInv, Known
<1>12. ASSUME UNCHANGED <<core, now, history>>, pc' = "post" => UNCHANGED <<pc, node>> PROVE FateInv'
  BY <1>12 DEF FateInv, Known, core, history
<1>13. CASE ThreadBegins \/ Arm \/ Wait \/ Interrupted \/ DrainFds \/ CloseFds \/ ThreadEnds
  BY <1>12, <1>13 DEF ThreadBegins, Arm, Wait, Interrupted, DrainFds, CloseFds, ThreadEnds
<1>14. CASE Start \/ StartFails \/ StopWakes \/ Terminated \/ UNCHANGED vars
  BY <1>12, <1>14 DEF Start, StartFails, StopWakes, Terminated, vars, thread
<1>15. ASSUME NEW c \in Callers, NotifyWorker(c) PROVE FateInv'
  BY <1>12, <1>15 DEF NotifyWorker, thread
<1>16. ASSUME NEW j \in Joiners, Join(j) \/ JoinReturns(j) PROVE FateInv'
  BY <1>12, <1>16 DEF Join, JoinReturns, thread
<1> QED
  BY <1>1, <1>2, <1>4, <1>5, <1>6, <1>7, <1>8, <1>9, <1>10, <1>11, <1>13, <1>14, <1>15, <1>16
  DEF Next, ThreadStep, CallerStep, StopStep

(* A timer is dispatched at most once, not before its deadline and never    *)
(* after cancel answered Ok (TimerCore::runReady, cancel).                  *)
THEOREM DispatchIsSound == Spec => []DispatchSound
<1>1. FateInv => DispatchSound
  BY DEF FateInv, DispatchSound
<1> QED
  BY InitCore, NextCore, InitFate, NextFate, <1>1, PTL DEF Spec

-----------------------------------------------------------------------------
(* WakeInv holds before start. *)
LEMMA InitWake == Init => WakeInv
BY DEF Init, WakeInv, Never

(* A command is queued before its caller writes the eventfd, and the thread *)
(* reads the eventfd empty before it looks at the queue again.              *)
LEMMA NextWake == ASSUME CoreInv, WakeInv, [Next]_vars PROVE WakeInv'
<1> USE DEF WakeInv
<1>1. ASSUME NEW c \in Callers, NEW d \in Time, Schedule(c, d) PROVE WakeInv'
  <2>1. ~Quiet'
    BY <1>1 DEF Schedule, Quiet
  <2> QED
    BY <1>1, <2>1 DEF Schedule, thread, fds, control
<1>2. ASSUME NEW c \in Callers, NEW t \in Ids, Cancel(c, t) PROVE WakeInv'
  <2>1. ~Quiet'
    BY <1>2 DEF Cancel, Quiet
  <2> QED
    BY <1>2, <2>1 DEF Cancel, thread, fds, control
<1>3. CASE BeginCycle
  <2>1. commands' = <<>>
    BY <1>3 DEF BeginCycle, ProcessCommands
  <2> QED
    BY <1>3, <2>1 DEF BeginCycle, fds, control
<1>4. CASE PopReady
  BY <1>4 DEF PopReady, fds, control, Quiet
<1>5. CASE Dispatch
  BY <1>5 DEF Dispatch, fds, control, core, Quiet
<1>6. CASE EndCycle
  <2>1. /\ nextDeadline' \in Nat \cup {Never}
        /\ \A t \in live \cap heap : nextDeadline' # Never /\ nextDeadline' <= deadline[t]
        /\ UNCHANGED <<live, deadline, commands>>
    BY <1>6, EndCycleFacts
  <2>2. Quiet' = Quiet /\ pc = "pop" /\ pc' \in {"close", "arm"} /\ UNCHANGED <<fds, control, state, caller>>
    BY <1>6 DEF EndCycle, Quiet, fds, control
  <2>3. commands = <<>> => live \subseteq heap
    BY DEF CoreInv, Range
  <2> QED
    BY <2>1, <2>2, <2>3 DEF fds, control
<1>7. CASE Arm
  BY <1>7 DEF Arm, core, control, Quiet, CoreInv, Never
<1>8. CASE Wait \/ Interrupted
  BY <1>8 DEF Wait, Interrupted, core, fds, control
<1>9. CASE DrainFds \/ ThreadFails \/ CloseFds \/ ThreadEnds
  BY <1>9 DEF DrainFds, ThreadFails, CloseFds, ThreadEnds, core, fds, control
<1>10. CASE Start \/ StartFails \/ ThreadBegins
  BY <1>10 DEF Start, StartFails, ThreadBegins, core, thread, fds, control
<1>11. ASSUME NEW c \in Callers, NotifyWorker(c) PROVE WakeInv'
  <2>1. fdsOpen => ~Quiet'
    BY <1>11 DEF NotifyWorker, Quiet
  <2> QED
    BY <1>11, <2>1 DEF NotifyWorker, core, thread, control
<1>12. CASE StopTimer
  <2>1. state = "Initialized" \/ ~Quiet'
    BY <1>12 DEF StopTimer, Quiet
  <2> QED
    BY <1>12, <2>1 DEF StopTimer, RequestStop, thread, fds
<1>13. CASE StopWakes
  <2>1. fdsOpen => ~Quiet'
    BY <1>13 DEF StopWakes, Quiet
  <2> QED
    BY <1>13, <2>1 DEF StopWakes, core, thread
<1>14. CASE StopWithoutThread
  BY <1>14 DEF StopWithoutThread, thread
<1>15. CASE Tick
  <2>1. Quiet' = Quiet
    BY <1>15 DEF Tick, Quiet, control
  <2> QED
    BY <1>15, <2>1 DEF Tick, core, thread, control, CoreInv, Never
<1>16. ASSUME NEW j \in Joiners, Join(j) \/ JoinReturns(j) PROVE WakeInv'
  BY <1>16 DEF Join, JoinReturns, core, thread, fds, Quiet
<1>17. CASE Terminated \/ UNCHANGED vars
  BY <1>17 DEF Terminated, vars, core, thread, fds, control, Quiet
<1> QED
  BY <1>1, <1>2, <1>3, <1>4, <1>5, <1>6, <1>7, <1>8, <1>9, <1>10, <1>11, <1>12, <1>13, <1>14,
     <1>15, <1>16, <1>17
  DEF Next, ThreadStep, CallerStep, StopStep

(* While the thread waits with nothing to wake it, every command has been   *)
(* consumed and the timerfd is armed for the first live deadline or earlier *)
(* (Timer::workerLoop, notifyWorker).                                       *)
THEOREM ThreadIsWoken == Spec => []NoLostWakeUp
<1>1. WakeInv => NoLostWakeUp
  BY DEF WakeInv, NoLostWakeUp, Quiet
<1> QED
  BY InitCore, NextCore, InitWake, NextWake, <1>1, PTL DEF Spec

-----------------------------------------------------------------------------
(* Until a stop is processed no reservation is left cancelled, and the live *)
(* ones are within the capacity.                                            *)
RoomInv ==
    ~stopped => dead = {} /\ IsFiniteSet(live) /\ Cardinality(live) <= TimerCapacity

(* The live timers are a set that only scheduleAt makes larger. *)
LEMMA NextRoom == ASSUME CoreInv, RoomInv, [Next]_vars PROVE RoomInv'
<1>1. ASSUME live' \subseteq live, stopped => stopped', ~stopped' => dead' \subseteq dead
      PROVE  RoomInv'
  <2> SUFFICES ASSUME ~stopped' PROVE dead' = {} /\ IsFiniteSet(live') /\ Cardinality(live') <= TimerCapacity
    BY DEF RoomInv
  <2>1. dead = {} /\ IsFiniteSet(live) /\ Cardinality(live) <= TimerCapacity
    BY <1>1 DEF RoomInv
  <2>2. /\ IsFiniteSet(live') /\ Cardinality(live') <= Cardinality(live)
        /\ Cardinality(live) \in Nat /\ Cardinality(live') \in Nat
    BY <1>1, <2>1, FS_Subset, FS_CardinalityType
  <2> QED
    BY <1>1, <2>1, <2>2, TimerAssumption
<1>2. ASSUME NEW c \in Callers, NEW d \in Time, Schedule(c, d) PROVE RoomInv'
  <2> SUFFICES ASSUME ~stopped PROVE dead' = {} /\ IsFiniteSet(live') /\ Cardinality(live') <= TimerCapacity
    BY <1>2 DEF RoomInv, Schedule
  <2>1. dead = {} /\ dead' = dead /\ IsFiniteSet(live) /\ live' = live \cup {next}
    BY <1>2 DEF RoomInv, Schedule
  <2>2. Cardinality(live) < TimerCapacity
    <3>1. live \cup dead = live
      BY <2>1
    <3> QED
      BY <1>2, <3>1 DEF Schedule, HasRoom
  <2>3. next \notin live
    BY DEF CoreInv, Known
  <2>4. IsFiniteSet(live') /\ Cardinality(live') = Cardinality(live) + 1 /\ Cardinality(live) \in Nat
    BY <2>1, <2>3, FS_AddElement, FS_CardinalityType
  <2> QED
    BY <2>1, <2>2, <2>4, TimerAssumption
<1>3. ASSUME NEW c \in Callers, NEW t \in Ids, Cancel(c, t) PROVE RoomInv'
  BY <1>1, <1>3 DEF Cancel
<1>4. ASSUME ProcessCommands PROVE RoomInv'
  <2>1. live' \subseteq live
    BY <1>4, ProcessCommandsFacts
  <2>2. (stopped => stopped') /\ (~stopped' => dead' \subseteq dead)
    BY <1>4 DEF ProcessCommands
  <2> QED
    BY <1>1, <2>1, <2>2
<1>5. CASE BeginCycle \/ StopWithoutThread
  BY <1>4, <1>5 DEF BeginCycle, StopWithoutThread
<1>6. CASE PopReady
  BY <1>1, <1>6 DEF PopReady, ReservedAfterPop
<1>7. CASE EndCycle
  BY <1>1, <1>7 DEF EndCycle
<1>8. CASE ThreadFails \/ StopTimer
  BY <1>1, <1>8 DEF ThreadFails, StopTimer, RequestStop
<1>9. CASE UNCHANGED core
  BY <1>1, <1>9 DEF core
<1>10. CASE ThreadBegins \/ Dispatch \/ Arm \/ Wait \/ Interrupted \/ DrainFds \/ CloseFds \/ ThreadEnds
  BY <1>9, <1>10 DEF ThreadBegins, Dispatch, Arm, Wait, Interrupted, DrainFds, CloseFds, ThreadEnds
<1>11. CASE Tick \/ Start \/ StartFails \/ StopWakes \/ Terminated \/ UNCHANGED vars
  BY <1>9, <1>11 DEF Tick, Start, StartFails, StopWakes, Terminated, vars
<1>12. ASSUME NEW c \in Callers, NotifyWorker(c) PROVE RoomInv'
  BY <1>9, <1>12 DEF NotifyWorker
<1>13. ASSUME NEW j \in Joiners, Join(j) \/ JoinReturns(j) PROVE RoomInv'
  BY <1>9, <1>13 DEF Join, JoinReturns
<1> QED
  BY <1>2, <1>3, <1>5, <1>6, <1>7, <1>8, <1>10, <1>11, <1>12, <1>13
  DEF Next, ThreadStep, CallerStep, StopStep

(* Capacity is neither exceeded nor leaked: a live reservation belongs to a *)
(* command or a heap node (TimerCore::scheduleAt, cancel, runReady).        *)
THEOREM ReservationsAreHeld == Spec => []ReservationsHeld
<1>1. Init => RoomInv
  <2>1. IsFiniteSet({}) /\ Cardinality({}) = 0
    BY FS_EmptySet
  <2> QED
    BY <2>1, TimerAssumption DEF Init, RoomInv
<1>2. CoreInv /\ RoomInv => ReservationsHeld
  BY DEF CoreInv, RoomInv, ReservationsHeld
<1> QED
  BY InitCore, NextCore, NextRoom, <1>1, <1>2, PTL DEF Spec
================================================================================
