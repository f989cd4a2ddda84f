-------------------------- MODULE AcceptorLoopProofs --------------------------
(***************************************************************************)
(* The acceptor's edge-triggered listener and its shutdown, for any number *)
(* of connections and any number of times the process runs out of          *)
(* descriptors.                                                            *)
(***************************************************************************)
EXTENDS AcceptorLoop, TLAPS

(* Where the thread has nothing left to accept that it was told about. *)
Drained ==
    \/ thread \in {"none", "born", "gate", "wait"}
    \/ thread = "check" /\ ~stopRequested
    \/ thread = "batch" /\ "listen" \notin batch /\ ~stopRequested
Gone == thread \in {"none", "ended"}

(* What holds whichever call fails. *)
ClosedInv ==
    /\ Gone => ~listening /\ ~reserve
    /\ joined => Gone /\ state # "Constructed"
    /\ state = "Constructed" => thread = "none"

(* What holds until accept meets an unknown error or the reserve cannot be  *)
(* opened again.  A wake-up means a stop, so the batch that is left      *)
(* early is left for good.                                                  *)
EdgeHeld ==
    /\ backlog \in Nat
    /\ state = "Constructed" => thread = "none" /\ ~wake /\ batch = {}
    /\ wake \/ "stop" \in batch => stopRequested
    /\ Drained => (backlog > 0 => edge)
    /\ thread \notin {"none", "recover", "reopen", "release", "ended"} => reserve
EdgeInv == gaveUp \/ EdgeHeld

(* ClosedInv holds before start: nothing is open yet. *)
LEMMA InitClosed == Init => ClosedInv
BY DEF Init, ClosedInv, Gone

(* releaseResources closes the descriptors in the same step in which the    *)
(* thread ends, and only start opens them.                                  *)
LEMMA NextClosed == ClosedInv /\ [Next]_vars => ClosedInv'
<1> SUFFICES ASSUME ClosedInv, [Next]_vars PROVE ClosedInv'
  OBVIOUS
<1> USE DEF ClosedInv, Gone, Goes, still, net, fds
<1>1. CASE ThreadBegins \/ ThreadReleased \/ Check \/ EpollWait \/ BatchEnds \/ StopEvent \/ ListenEvent
  BY <1>1 DEF ThreadBegins, ThreadReleased, Check, EpollWait, BatchEnds, StopEvent, ListenEvent
<1>2. CASE AcceptStopped \/ Accepts \/ AcceptsNothing \/ WouldBlock \/ Dispatch
  BY <1>2 DEF AcceptStopped, Accepts, AcceptsNothing, WouldBlock, Dispatch
<1>3. CASE NoDescriptor \/ RecoveryStopped \/ Sheds \/ NothingToShed \/ Reopens \/ Release
  BY <1>3 DEF NoDescriptor, RecoveryStopped, Sheds, NothingToShed, Reopens, Release
<1>4. CASE ThreadFails
  BY <1>4 DEF ThreadFails, EpollFails, UnknownError, ShedRefused, ReserveLost
<1>5. CASE Connect \/ RunOut \/ Recovers
  BY <1>5 DEF Connect, RunOut, Recovers
<1>6. CASE Start \/ StartFails \/ Started
  BY <1>6 DEF Start, StartFails, Started
<1>7. CASE Stop \/ Join
  BY <1>7 DEF Stop, Join
<1>8. CASE Terminated \/ UNCHANGED vars
  BY <1>8 DEF Terminated, vars
<1> QED
  BY <1>1, <1>2, <1>3, <1>4, <1>5, <1>6, <1>7, <1>8 DEF Next, ThreadStep, ThreadFails

(* When join has returned, the thread is over and the listener and the      *)
(* reserve descriptor are closed (AcceptorLoop::join, releaseResources).    *)
THEOREM JoinCloses == Spec => []JoinMeansClosed
<1>1. ClosedInv => JoinMeansClosed
  BY DEF ClosedInv, JoinMeansClosed, Gone
<1> QED
  BY InitClosed, NextClosed, <1>1, PTL DEF Spec

-----------------------------------------------------------------------------
(* EdgeInv holds before start. *)
LEMMA InitEdge == Init => EdgeInv
BY DEF Init, EdgeInv, EdgeHeld, Drained

(* Each edge is followed by accepts until there is nothing left, unless the *)
(* acceptor is told to stop.                                                *)
LEMMA NextEdge == EdgeInv /\ [Next]_vars => EdgeInv'
<1> SUFFICES ASSUME EdgeInv, [Next]_vars PROVE EdgeInv'
  OBVIOUS
<1> USE DEF EdgeInv, EdgeHeld, Drained, Goes, still, net, fds
<1>1. CASE ThreadBegins \/ ThreadReleased \/ Check
  BY <1>1 DEF ThreadBegins, ThreadReleased, Check
<1>2. CASE EpollWait
  BY <1>2 DEF EpollWait
<1>3. CASE BatchEnds \/ StopEvent \/ ListenEvent
  BY <1>3 DEF BatchEnds, StopEvent, ListenEvent
<1>4. CASE AcceptStopped \/ Accepts \/ AcceptsNothing \/ WouldBlock \/ Dispatch
  BY <1>4 DEF AcceptStopped, Accepts, AcceptsNothing, WouldBlock, Dispatch
<1>5. CASE NoDescriptor \/ RecoveryStopped \/ Sheds \/ NothingToShed \/ Reopens
  BY <1>5 DEF NoDescriptor, RecoveryStopped, Sheds, NothingToShed, Reopens
<1>6. CASE Release
  BY <1>6 DEF Release
<1>7. CASE ThreadFails
  BY <1>7 DEF ThreadFails, EpollFails, UnknownError, ShedRefused, ReserveLost
<1>8. CASE Connect \/ RunOut \/ Recovers
  BY <1>8 DEF Connect, RunOut, Recovers
<1>9. CASE Start \/ StartFails \/ Started
  BY <1>9 DEF Start, StartFails, Started
<1>10. CASE Stop \/ Join
  BY <1>10 DEF Stop, Join
<1>11. CASE Terminated \/ UNCHANGED vars
  BY <1>11 DEF Terminated, vars
<1> QED
  BY <1>1, <1>2, <1>3, <1>4, <1>5, <1>6, <1>7, <1>8, <1>9, <1>10, <1>11 DEF Next, ThreadStep, ThreadFails

(* As long as accept fails only in the ways drainAccept goes on from, no    *)
(* connection stays in the backlog without an edge, however often the       *)
(* process runs out of descriptors.                                         *)
THEOREM NoneIsOverlooked == Spec => []NoneOverlooked
<1>1. Init => EdgeInv
  BY InitEdge
<1>2. EdgeInv /\ [Next]_vars => EdgeInv'
  BY NextEdge
<1>3. EdgeInv => NoneOverlooked
  BY DEF EdgeInv, EdgeHeld, NoneOverlooked, Drained
<1> QED
  BY <1>1, <1>2, <1>3, PTL DEF Spec
==============================================================================
