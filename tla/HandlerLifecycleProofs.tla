------------------------ MODULE HandlerLifecycleProofs ------------------------
(***************************************************************************)
(* What the order of the shutdown steps guarantees, for any number of      *)
(* connections, tasks and rounds.  IndInv says, for each stretch of the    *)
(* steps, what has already come to rest.                                   *)
(***************************************************************************)
EXTENDS HandlerLifecycle, TLAPS

(* The steps after candidate_queue->close(), and those after the business   *)
(* pool was closed.                                                         *)
Closed == {"finalDrain", "finalWait", "poolDrain", "poolJoin", "discard", "reset", "resetWorkers"}
Draining == {"acceptorJoin", "workersDrain", "loopsDrain", "loopsStop", "workersJoin", "queueClose"}
StartSteps == {"feature", "blacklist", "loops", "acceptor", "failed"}
Numbers ==
    /\ conns \in Nat /\ queued \in Nat /\ running \in Nat
    /\ candidates \in Nat /\ discarded \in Nat /\ refused \in Nat

(* Before start, and while its steps are taken. *)
Before ==
    /\ h \in {"Constructed", "Initialized"} /\ step = "none" =>
           workers = "absent" /\ open /\ queued = 0 /\ running = 0 /\ candidates = 0
    /\ h = "Constructed" => step = "none"
    /\ step \in StartSteps => h = "Initialized"
    /\ h \in {"Constructed", "Initialized", "Running", "Stopping", "Stopped", "Failed"}
    /\ h = "Stopping" => step # "none"

(* After the last step. *)
After ==
    h \in {"Stopped", "Failed"} => step = "none" /\ workers = "absent" /\ queued = 0 /\ running = 0

(* The queue is open until the step that closes it. *)
QueueState ==
    /\ open \in BOOLEAN
    /\ ~open => step \in Closed \/ h \in {"Stopped", "Failed"}
    /\ step \in Closed => ~open
    /\ open => refused = 0 /\ discarded = 0

(* Once it is closed no task is left, unless join has already failed. *)
AtRest ==
    /\ step \in Draining \cup Closed => workers # "open"
    /\ step \in {"queueClose"} \cup Closed /\ (h = "Stopping" => result = "Ok") =>
           queued + running = 0 /\ refused = 0
    /\ step \in Closed \ {"reset", "resetWorkers"} => discarded = 0
    /\ step \in {"reset", "resetWorkers"} =>
           candidates = 0 /\ (h = "Stopping" /\ result = "Ok" => discarded = 0)
IndInv == Numbers /\ Before /\ After /\ QueueState /\ AtRest /\ OkMeansStored

(* Without a failure at run time the loops have not failed when join asks   *)
(* them, so the business pool is always joined.                             *)
LoopsGood ==
    /\ h \in {"Running", "Stopping"} => loops # "failed"
    /\ step = "acceptor" => loops # "failed"
    /\ step \in {"queueClose"} \cup Closed => queued + running = 0
KeptInv == IndInv /\ LoopsGood /\ LastCandidatesKept

-----------------------------------------------------------------------------
(* IndInv holds at the start: nothing has been offered to the queue. *)
LEMMA InitIndInv == Init => IndInv
BY DEF Init, IndInv, Numbers, Before, After, QueueState, AtRest, OkMeansStored, Closed, Draining, StartSteps

(* Every step of main, Handler and the components keeps IndInv, whichever   *)
(* part fails.                                                              *)
LEMMA NextIndInv == IndInv /\ [Next]_vars => IndInv'
<1> SUFFICES ASSUME IndInv, [Next]_vars PROVE IndInv'
  OBVIOUS
<1> USE DEF IndInv, Numbers, Before, After, QueueState, AtRest, OkMeansStored, Closed, Draining, StartSteps
<1> USE DEF outer, parts, work, cands, maint, inner, quiet, frame, Worse, Joining
<1>1. CASE StartLogger
  BY <1>1 DEF StartLogger
<1>2. CASE StartTimer
  BY <1>2 DEF StartTimer
<1>3. CASE InitHandler
  BY <1>3 DEF InitHandler
<1>4. CASE StopTimer
  BY <1>4 DEF StopTimer
<1>5. CASE StopLogger
  BY <1>5 DEF StopLogger
<1>6. CASE Pools
  BY <1>6 DEF Pools
<1>7. CASE StartFeature
  BY <1>7 DEF StartFeature
<1>8. CASE StartBlacklist
  BY <1>8 DEF StartBlacklist
<1>9. CASE StartLoops
  BY <1>9 DEF StartLoops
<1>10. CASE StartAcceptor
  BY <1>10 DEF StartAcceptor
<1>11. CASE FailStart
  BY <1>11 DEF FailStart
<1>12. CASE StopHandler
  BY <1>12 DEF StopHandler
<1>13. CASE StopAcceptor
  BY <1>13 DEF StopAcceptor
<1>14. CASE BeginDrain
  BY <1>14 DEF BeginDrain
<1>15. CASE CloseWorkers
  BY <1>15 DEF CloseWorkers
<1>16. CASE AcceptorJoin
  BY <1>16 DEF AcceptorJoin
<1>17. CASE WorkersDrain
  BY <1>17 DEF WorkersDrain
<1>18. CASE LoopsDrain
  BY <1>18 DEF LoopsDrain
<1>19. CASE LoopsStop
  BY <1>19 DEF LoopsStop
<1>20. CASE WorkersJoin
  BY <1>20 DEF WorkersJoin
<1>21. CASE QueueClose
  BY <1>21 DEF QueueClose
<1>22. CASE FinalDrain
  BY <1>22 DEF FinalDrain
<1>23. CASE FinalWait
  BY <1>23 DEF FinalWait
<1>24. CASE PoolDrain
  BY <1>24 DEF PoolDrain
<1>25. CASE PoolJoin
  BY <1>25 DEF PoolJoin
<1>26. CASE Discard
  BY <1>26 DEF Discard
<1>27. CASE Reset
  BY <1>27 DEF Reset
<1>28. CASE ResetWorkers
  BY <1>28 DEF ResetWorkers
<1>29. CASE TaskBegins
  BY <1>29 DEF TaskBegins
<1>30. CASE TaskEnds
  BY <1>30 DEF TaskEnds
<1>31. CASE JobBegins
  BY <1>31 DEF JobBegins
<1>32. CASE FeatureEnds
  BY <1>32 DEF FeatureEnds
<1>33. CASE RoundEnds
  <2>1. candidates' \in Nat /\ candidates' <= candidates
    BY <1>33 DEF RoundEnds
  <2>2. candidates = 0 => candidates' = 0
    BY <2>1
  <2>3. UNCHANGED <<h, step, result, workers, work, open, discarded, refused>>
    BY <1>33 DEF RoundEnds
  <2> QED
    BY <2>1, <2>2, <2>3
<1>34. CASE FinalEnds
  <2>1. candidates' \in Nat /\ candidates' <= candidates
    BY <1>34 DEF FinalEnds
  <2>2. candidates = 0 => candidates' = 0
    BY <2>1
  <2>3. UNCHANGED <<h, step, result, workers, work, open, discarded, refused>>
    BY <1>34 DEF FinalEnds
  <2> QED
    BY <2>1, <2>2, <2>3
<1>35. CASE Deadline
  BY <1>35 DEF Deadline
<1>36. CASE Signal
  BY <1>36 DEF Signal
<1>37. CASE AcceptorEnds
  BY <1>37 DEF AcceptorEnds
<1>38. CASE AcceptorFails
  BY <1>38 DEF AcceptorFails
<1>39. CASE Accept
  BY <1>39 DEF Accept
<1>40. CASE ConnCloses
  BY <1>40 DEF ConnCloses
<1>41. CASE LoopsFail
  BY <1>41 DEF LoopsFail
<1>42. CASE Submit
  BY <1>42 DEF Submit
<1>43. CASE \E kind \in Kinds : Tick(kind)
  BY <1>43 DEF Tick
<1>44. CASE Exited \/ UNCHANGED vars
  BY <1>44 DEF Exited, vars
<1> QED
  BY <1>1, <1>2, <1>3, <1>4, <1>5, <1>6, <1>7, <1>8, <1>9, <1>10, <1>11, <1>12, <1>13, <1>14,
     <1>15, <1>16, <1>17, <1>18, <1>19, <1>20, <1>21, <1>22, <1>23, <1>24, <1>25, <1>26, <1>27,
     <1>28, <1>29, <1>30, <1>31, <1>32, <1>33, <1>34, <1>35, <1>36, <1>37, <1>38, <1>39, <1>40,
     <1>41, <1>42, <1>43, <1>44 DEF Next, MainStep, WorkerStep, PoolStep

(* A join that reports success has lost no candidate: none discarded at the *)
(* end, none refused by a closed queue, none left in it (Handler::join).    *)
THEOREM SuccessIsHonest == Spec => []OkMeansStored
<1>1. Init => IndInv
  BY InitIndInv
<1>2. IndInv /\ [Next]_vars => IndInv'
  BY NextIndInv
<1>3. IndInv => OkMeansStored
  BY DEF IndInv
<1> QED
  BY <1>1, <1>2, <1>3, PTL DEF Spec

-----------------------------------------------------------------------------
(* When nothing fails at run time, every step keeps the loops good and the  *)
(* queue open for as long as there is a business task.                      *)
LEMMA NextKept ==
    ASSUME PartsMayFail = FALSE, KeptInv, [Next]_vars PROVE KeptInv'
<1>0. IndInv'
  BY NextIndInv DEF KeptInv
<1> SUFFICES LoopsGood' /\ LastCandidatesKept'
  BY <1>0 DEF KeptInv
<1> USE DEF KeptInv, IndInv, Numbers, Before, After, QueueState, AtRest, LoopsGood, LastCandidatesKept,
        Closed, Draining, StartSteps
<1> USE DEF outer, parts, work, cands, maint, inner, quiet, frame, Joining
<1>1. CASE StartLogger \/ StartTimer \/ InitHandler \/ StopTimer \/ StopLogger \/ Signal
  BY <1>1 DEF StartLogger, StartTimer, InitHandler, StopTimer, StopLogger, Signal
<1>2. CASE Pools \/ StartFeature \/ StartBlacklist \/ StartLoops
  BY <1>2 DEF Pools, StartFeature, StartBlacklist, StartLoops, Outcomes
<1>3. CASE StartAcceptor \/ FailStart
  BY <1>3 DEF StartAcceptor, FailStart, Outcomes
<1>4. CASE StopHandler \/ StopAcceptor
  BY <1>4 DEF StopHandler, StopAcceptor
<1>5. CASE BeginDrain \/ CloseWorkers
  BY <1>5 DEF BeginDrain, CloseWorkers
<1>6. CASE AcceptorJoin \/ WorkersDrain \/ LoopsDrain
  BY <1>6 DEF AcceptorJoin, WorkersDrain, LoopsDrain
<1>7. CASE LoopsStop
  BY <1>7 DEF LoopsStop
<1>8. CASE WorkersJoin \/ QueueClose
  BY <1>8 DEF WorkersJoin, QueueClose
<1>9. CASE FinalDrain \/ FinalWait \/ PoolDrain
  BY <1>9 DEF FinalDrain, FinalWait, PoolDrain
<1>10. CASE PoolJoin \/ Discard \/ Reset
  BY <1>10 DEF PoolJoin, Discard, Reset
<1>11. CASE ResetWorkers
  BY <1>11 DEF ResetWorkers
<1>12. CASE TaskBegins
  BY <1>12 DEF TaskBegins
<1>13. CASE TaskEnds
  BY <1>13 DEF TaskEnds
<1>14. CASE JobBegins \/ FeatureEnds \/ RoundEnds \/ FinalEnds
  BY <1>14 DEF JobBegins, FeatureEnds, RoundEnds, FinalEnds
<1>15. CASE Deadline \/ AcceptorEnds \/ Accept \/ ConnCloses
  BY <1>15 DEF Deadline, AcceptorEnds, Accept, ConnCloses
<1>16. CASE AcceptorFails \/ LoopsFail
  BY <1>16 DEF AcceptorFails, LoopsFail
<1>17. CASE Submit
  BY <1>17 DEF Submit
<1>18. CASE \E kind \in Kinds : Tick(kind)
  BY <1>18 DEF Tick
<1>19. CASE Exited \/ UNCHANGED vars
  BY <1>19 DEF Exited, vars
<1> QED
  BY <1>0, <1>1, <1>2, <1>3, <1>4, <1>5, <1>6, <1>7, <1>8, <1>9, <1>10, <1>11, <1>12, <1>13,
     <1>14, <1>15, <1>16, <1>17, <1>18, <1>19 DEF KeptInv, Next, MainStep, WorkerStep, PoolStep

(* Handler::join and failStart close the candidate queue only when no       *)
(* business task is left that could offer to it, as long as no event loop   *)
(* fails at run time (the comment before event_loops->stop()).              *)
THEOREM CandidatesKept ==
    ASSUME PartsMayFail = FALSE PROVE Spec => []LastCandidatesKept
<1>1. Init => KeptInv
  BY InitIndInv DEF Init, KeptInv, LoopsGood, LastCandidatesKept, Closed
<1>2. KeptInv /\ [Next]_vars => KeptInv'
  BY NextKept
<1>3. KeptInv => LastCandidatesKept
  BY DEF KeptInv
<1> QED
  BY <1>1, <1>2, <1>3, PTL DEF Spec
==============================================================================
