------------------------- MODULE EventLoopGroupProofs -------------------------
(***************************************************************************)
(* The admission counters of the loops are exact, for any number of loops, *)
(* any limits and any number of sockets.                                   *)
(***************************************************************************)
EXTENDS EventLoopGroup, TLAPS

(* The counters are numbers, the round-robin index names a loop, and no     *)
(* loop's counter passes its limit.                                         *)
Numbers ==
    /\ queue \in [Loops -> Nat] /\ sessions \in [Loops -> Nat] /\ load \in [Loops -> Nat]
    /\ next \in Loops
Bounded == \A l \in Loops : load[l] <= MaxPerLoop
SlotsInv == Numbers /\ SlotsExact /\ Bounded

(* A loop has been chosen from a non-empty range. *)
LEMMA Constants ==
    /\ LoopCount \in Nat /\ LoopCount > 0 /\ MaxPerLoop \in Nat
    /\ \A l \in Loops : l \in Nat
    /\ \A l \in Loops : (l + 1) % LoopCount \in Loops
<1>1. LoopCount \in Nat /\ LoopCount > 0 /\ MaxPerLoop \in Nat
  BY GroupAssumption
<1>2. \A l \in Loops : l \in Nat
  BY <1>1 DEF Loops
<1>3. \A n \in Nat : n % LoopCount \in 0 .. LoopCount - 1
  BY <1>1
<1> QED
  BY <1>1, <1>2, <1>3 DEF Loops

(* The release of no more than a loop holds takes exactly that much off its *)
(* counter: the clamp at zero is never met.                                 *)
LEMMA ReleaseExact ==
    ASSUME SlotsInv, NEW a, NEW l \in Loops, NEW count \in Nat, count <= load[l], Release(a, l, count)
    PROVE  load' = [load EXCEPT ![l] = @ - count] /\ load' \in [Loops -> Nat]
<1>1. load \in [Loops -> Nat] /\ load[l] \in Nat
  BY DEF SlotsInv, Numbers
<1>2. load' = [load EXCEPT ![l] = IF count >= load[l] THEN 0 ELSE load[l] - count]
  BY DEF Release
<1>3. (IF count >= load[l] THEN 0 ELSE load[l] - count) = load[l] - count /\ load[l] - count \in Nat
  BY <1>1
<1>4. load' = [load EXCEPT ![l] = load[l] - count]
  BY <1>2, <1>3
<1> QED
  BY <1>1, <1>3, <1>4

(* The slots are exact before start. *)
LEMMA InitSlots == Init => SlotsInv
BY Constants DEF Init, SlotsInv, Numbers, SlotsExact, Bounded, Loops

(* Sockets that are queued, adopted, refused, discarded or closed move the  *)
(* counter of their loop by as much as the queue and the sessions.          *)
LEMMA NextSlots == SlotsInv /\ [Next]_vars => SlotsInv'
<1> SUFFICES ASSUME SlotsInv, [Next]_vars PROVE SlotsInv'
  OBVIOUS
<1>1. CASE TryDispatch
  <2>1. CASE HasRoom(next) /\ Posts(next)
    <3>1. /\ queue' = [queue EXCEPT ![next] = @ + 1] /\ load' = [load EXCEPT ![next] = @ + 1]
          /\ sessions' = sessions /\ next' \in Loops /\ load[next] < MaxPerLoop
      BY <1>1, <2>1, Constants DEF TryDispatch, HasRoom, SlotsInv, Numbers
    <3> QED
      BY <3>1, Constants DEF SlotsInv, Numbers, SlotsExact, Bounded
  <2>2. CASE ~(HasRoom(next) /\ Posts(next))
    BY <1>1, <2>2, Constants DEF TryDispatch, SlotsInv, Numbers, SlotsExact, Bounded
  <2> QED
    BY <2>1, <2>2
<1>2. ASSUME NEW a \in Actors, NEW l \in Loops, CloseRegistration(a, l) PROVE SlotsInv'
  <2>1. queue[l] \in Nat /\ queue[l] <= load[l]
    BY DEF SlotsInv, Numbers, SlotsExact
  <2>2. load' = [load EXCEPT ![l] = @ - queue[l]] /\ load' \in [Loops -> Nat]
    BY <1>2, <2>1, ReleaseExact DEF CloseRegistration
  <2> QED
    BY <1>2, <2>1, <2>2, Constants DEF CloseRegistration, SlotsInv, Numbers, SlotsExact, Bounded
<1>3. ASSUME NEW l \in Loops, Adopt(l) PROVE SlotsInv'
  BY <1>3, Constants DEF Adopt, counters, rest, SlotsInv, Numbers, SlotsExact, Bounded
<1>4. ASSUME NEW l \in Loops, AdoptFails(l) PROVE SlotsInv'
  <2>1. 1 <= load[l]
    BY <1>4 DEF AdoptFails, SlotsInv, Numbers, SlotsExact
  <2>2. load' = [load EXCEPT ![l] = @ - 1] /\ load' \in [Loops -> Nat]
    BY <1>4, <2>1, ReleaseExact DEF AdoptFails
  <2> QED
    BY <1>4, <2>1, <2>2, Constants DEF AdoptFails, rest, SlotsInv, Numbers, SlotsExact, Bounded
<1>5. ASSUME NEW l \in Loops, SessionCloses(l) PROVE SlotsInv'
  <2>1. 1 <= load[l]
    BY <1>5 DEF SessionCloses, SlotsInv, Numbers, SlotsExact
  <2>2. load' = [load EXCEPT ![l] = @ - 1] /\ load' \in [Loops -> Nat]
    BY <1>5, <2>1, ReleaseExact DEF SessionCloses
  <2> QED
    BY <1>5, <2>1, <2>2, Constants DEF SessionCloses, boxes, rest, SlotsInv, Numbers, SlotsExact, Bounded
<1>6. ASSUME NEW l \in Loops, LoopShutsDown(l) PROVE SlotsInv'
  <2>1. queue[l] + sessions[l] \in Nat /\ queue[l] + sessions[l] <= load[l]
    BY DEF SlotsInv, Numbers, SlotsExact
  <2>2. load' = [load EXCEPT ![l] = @ - (queue[l] + sessions[l])] /\ load' \in [Loops -> Nat]
    BY <1>6, <2>1, ReleaseExact DEF LoopShutsDown
  <2> QED
    BY <1>6, <2>1, <2>2, Constants DEF LoopShutsDown, rest, SlotsInv, Numbers, SlotsExact, Bounded
<1>7. CASE UNCHANGED <<queue, sessions, load, next>>
  BY <1>7 DEF SlotsInv, Numbers, SlotsExact, Bounded
<1>8. ASSUME NEW l \in Loops,
             LoopReady(l) \/ LoopReleased(l) \/ LoopChecks(l) \/ PollReturns(l) \/ PollEnds(l)
             \/ LoopReports(l) \/ LoopFails(l)
      PROVE  UNCHANGED <<queue, sessions, load, next>>
  BY <1>8 DEF LoopReady, LoopReleased, LoopChecks, PollReturns, PollEnds, LoopReports, LoopFails,
              LoopBuildFails, PollFails, boxes, counters, rest
<1>9. ASSUME NEW a \in Actors, ReleaseParent(a) \/ Stop(a) PROVE UNCHANGED <<queue, sessions, load, next>>
  BY <1>9 DEF ReleaseParent, Stop, boxes, counters, still
<1>10. ASSUME OwnerStep \/ Start \/ BeginDrain \/ DrainUntil \/ Join
       PROVE  UNCHANGED <<queue, sessions, load, next>>
  BY <1>10 DEF OwnerStep, Started, StartFailed, StartJoined, DrainSleeps, DrainLooks, DrainDeadline,
               Start, BeginDrain, DrainUntil, Join, boxes, counters, still
<1>11. ASSUME Terminated \/ UNCHANGED vars PROVE UNCHANGED <<queue, sessions, load, next>>
  BY <1>11 DEF Terminated, vars
<1>12. Owner \in Actors /\ Stopper \in Actors
  BY DEF Actors
<1>13. ASSUME NEW l \in Loops, LoopStep(l) \/ LoopFails(l) PROVE SlotsInv'
  BY <1>3, <1>4, <1>5, <1>6, <1>7, <1>8, <1>13 DEF LoopStep
<1>14. ASSUME NEW a \in Actors, ActorStep(a) PROVE SlotsInv'
  BY <1>2, <1>7, <1>9, <1>14 DEF ActorStep
<1> QED
  BY <1>1, <1>7, <1>9, <1>10, <1>11, <1>12, <1>13, <1>14 DEF Next, OwnerCalls

(* The counter of a loop, by which tryDispatch admits, is at every moment   *)
(* the number of sockets queued for the loop and of sessions it holds.      *)
THEOREM SlotsAreExact == Spec => []SlotsExact
<1>1. SlotsInv => SlotsExact
  BY DEF SlotsInv
<1> QED
  BY InitSlots, NextSlots, <1>1, PTL DEF Spec
==============================================================================
