------------------------------- MODULE Logger --------------------------------
(***************************************************************************)
(* The asynchronous logger: producers append records to a bounded queue,   *)
(* one thread swaps the queue out and writes the records, a summary of     *)
(* dropped records after a record it wrote, and flushes.  A step is one    *)
(* critical section of mutex_ or one operation on the file.                *)
(*                                                                         *)
(* A record is its number in the order of acceptance and whether its level *)
(* is ERROR.  The thread waits with a timeout, the flush interval, so its  *)
(* next turn is always possible; a stream that failed stays failed.        *)
(***************************************************************************)
EXTENDS Integers, Sequences

CONSTANTS
    Producers, Joiners,
    Capacity,      \* queue_capacity
    MaxCalls,      \* calls of log that are accepted or dropped
    CanFail        \* whether the file may fail

ASSUME LoggerAssumption == Capacity \in Nat \ {0} /\ MaxCalls \in Nat /\ CanFail \in BOOLEAN

VARIABLES
    state, queue, pending, accepted, dropped,   \* state_, queue_, pending_dropped_, counters
    producer,                       \* producer -> "idle", or "checked": it saw Running
    pc, batch, stopping, taken,     \* the thread; taken: drops it is about to report
    good, dirty, ioErrors,          \* output_ has not failed, output_dirty_, io_error_count_
    file, synced, reported,         \* records written, how many are flushed, drops reported
    joiner

service == <<state, queue, pending, accepted, dropped>>
thread == <<pc, batch, stopping, taken>>
output == <<good, dirty, ioErrors, file, synced, reported>>
vars == <<service, producer, thread, output, joiner>>

Init ==
    /\ state = "Initialized" /\ queue = <<>> /\ pending = 0 /\ accepted = 0 /\ dropped = 0
    /\ producer = [p \in Producers |-> "idle"]
    /\ pc = "none" /\ batch = <<>> /\ stopping = FALSE /\ taken = 0
    /\ good = TRUE /\ dirty = FALSE /\ ioErrors = 0
    /\ file = <<>> /\ synced = 0 /\ reported = 0
    /\ joiner = [j \in Joiners |-> "idle"]

-----------------------------------------------------------------------------
(* log: the state is looked at without the lock and again with it. *)
Begin(p) ==
    /\ producer[p] = "idle" /\ state = "Running" /\ accepted + dropped < MaxCalls
    /\ producer' = [producer EXCEPT ![p] = "checked"]
    /\ UNCHANGED <<service, thread, output, joiner>>
Return(p) == producer[p] = "checked" /\ producer' = [producer EXCEPT ![p] = "idle"]
NotRunning(p) ==
    /\ Return(p) /\ state # "Running"
    /\ UNCHANGED <<service, thread, output, joiner>>
QueueFull(p) ==
    /\ Return(p) /\ state = "Running" /\ Len(queue) >= Capacity
    /\ pending' = pending + 1 /\ dropped' = dropped + 1
    /\ UNCHANGED <<state, queue, accepted, thread, output, joiner>>
AcceptUnchecked(p, err) ==
    /\ Return(p) /\ Len(queue) < Capacity
    /\ queue' = Append(queue, [n |-> accepted + 1, err |-> err])
    /\ accepted' = accepted + 1
    /\ UNCHANGED <<state, pending, dropped, thread, output, joiner>>
Accept(p, err) ==
    /\ Return(p) /\ state = "Running" /\ Len(queue) < Capacity
    /\ queue' = Append(queue, [n |-> accepted + 1, err |-> err])
    /\ accepted' = accepted + 1
    /\ UNCHANGED <<state, pending, dropped, thread, output, joiner>>

-----------------------------------------------------------------------------
(* workerLoop.  The whole queue becomes the batch. *)
CollectKeepsQueue ==
    /\ pc = "collect"
    /\ batch' = queue /\ queue' = queue /\ stopping' = (state = "Stopping")
    /\ pc' = "write"
    /\ UNCHANGED <<state, pending, accepted, dropped, producer, taken, output, joiner>>
CollectOnStop ==
    /\ pc = "collect" /\ state = "Stopping"
    /\ batch' = queue /\ queue' = <<>> /\ stopping' = TRUE
    /\ pc' = "write"
    /\ UNCHANGED <<state, pending, accepted, dropped, producer, taken, output, joiner>>
Collect ==
    /\ pc = "collect"
    /\ batch' = queue /\ queue' = <<>> /\ stopping' = (state = "Stopping")
    /\ pc' = "write"
    /\ UNCHANGED <<state, pending, accepted, dropped, producer, taken, output, joiner>>

(* writeRecord: the record is in the stream, or the stream failed. *)
Fails == CanFail \/ ~good
WriteRecord ==
    /\ pc = "write" /\ batch # <<>> /\ good
    /\ file' = Append(file, Head(batch)) /\ dirty' = TRUE /\ pc' = "summary"
    /\ UNCHANGED <<service, producer, batch, stopping, taken, good, ioErrors, synced, reported, joiner>>
WriteFails ==
    /\ pc = "write" /\ batch # <<>> /\ Fails
    /\ good' = FALSE /\ ioErrors' = ioErrors + 1 /\ pc' = "after"
    /\ UNCHANGED <<service, producer, batch, stopping, taken, dirty, file, synced, reported, joiner>>

(* writePendingDroppedSummary *)
TakePending ==
    /\ pc = "summary"
    /\ taken' = pending /\ pending' = 0
    /\ pc' = IF pending = 0 THEN "after" ELSE "report"
    /\ UNCHANGED <<state, queue, accepted, dropped, producer, batch, stopping, output, joiner>>
Report ==
    /\ pc = "report" /\ good
    /\ reported' = reported + taken /\ taken' = 0 /\ dirty' = TRUE /\ pc' = "after"
    /\ UNCHANGED <<service, producer, batch, stopping, good, ioErrors, file, synced, joiner>>
ReportFails ==
    /\ pc = "report" /\ Fails
    /\ good' = FALSE /\ ioErrors' = ioErrors + 1 /\ pc' = "putback"
    /\ UNCHANGED <<service, producer, batch, stopping, taken, dirty, file, synced, reported, joiner>>
PutBack ==
    /\ pc = "putback" /\ pending' = pending + taken /\ taken' = 0 /\ pc' = "after"
    /\ UNCHANGED <<state, queue, accepted, dropped, producer, batch, stopping, output, joiner>>

(* flushOutput, with the answer ok of the stream. *)
Flush(ok) ==
    /\ ok \/ (dirty /\ Fails)
    /\ ok => good \/ ~dirty
    /\ dirty' = FALSE /\ good' = (good /\ ok)
    /\ ioErrors' = IF ok THEN ioErrors ELSE ioErrors + 1
    /\ synced' = IF dirty /\ ok THEN Len(file) ELSE synced
    /\ UNCHANGED <<file, reported>>

(* An ERROR record is flushed before the next record is looked at. *)
AfterRecord(ok) ==
    /\ pc = "after" /\ batch' = Tail(batch) /\ pc' = "write"
    /\ IF Head(batch).err THEN Flush(ok) ELSE ok /\ UNCHANGED output
    /\ UNCHANGED <<service, producer, stopping, taken, joiner>>

(* The end of a batch: a flush if its time has come, and another turn.      *)
EndBatchUnstoppable(flushNow, ok) ==
    /\ pc = "write" /\ batch = <<>>
    /\ IF flushNow THEN Flush(ok) ELSE ok /\ UNCHANGED output
    /\ pc' = "collect"
    /\ UNCHANGED <<service, producer, batch, stopping, taken, joiner>>
EndBatch(flushNow, ok) ==
    /\ pc = "write" /\ batch = <<>>
    /\ IF flushNow THEN Flush(ok) ELSE ok /\ UNCHANGED output
    /\ pc' = IF stopping THEN "check" ELSE "collect"
    /\ UNCHANGED <<service, producer, batch, stopping, taken, joiner>>
CheckQueue ==
    /\ pc = "check" /\ pc' = IF queue = <<>> THEN "close" ELSE "collect"
    /\ UNCHANGED <<service, producer, batch, stopping, taken, output, joiner>>
CloseOutput(ok) ==
    /\ pc = "close" /\ Flush(ok) /\ pc' = "closeFile"
    /\ UNCHANGED <<service, producer, batch, stopping, taken, joiner>>
CloseFile(ok) ==
    /\ pc = "closeFile" /\ pc' = "end"
    /\ ok \/ (CanFail /\ good)
    /\ good' = (good /\ ok) /\ ioErrors' = IF ok THEN ioErrors ELSE ioErrors + 1
    /\ UNCHANGED <<service, producer, batch, stopping, taken, dirty, file, synced, reported, joiner>>
End ==
    /\ pc = "end" /\ pc' = "exited" /\ state' = "Stopped"
    /\ UNCHANGED <<queue, pending, accepted, dropped, producer, batch, stopping, taken, output, joiner>>

-----------------------------------------------------------------------------
(* start, stop and join. *)
Start ==
    /\ state = "Initialized" /\ state' = "Running" /\ pc' = "collect"
    /\ UNCHANGED <<queue, pending, accepted, dropped, producer, batch, stopping, taken, output, joiner>>
StartFails ==
    /\ CanFail /\ state = "Initialized" /\ state' = "Failed"
    /\ UNCHANGED <<queue, pending, accepted, dropped, producer, thread, output, joiner>>
Stop ==
    /\ state \in {"Initialized", "Running"}
    /\ state' = IF state = "Initialized" THEN "Stopped" ELSE "Stopping"
    /\ UNCHANGED <<queue, pending, accepted, dropped, producer, thread, output, joiner>>

Joining == \E j \in Joiners : joiner[j] = "join"
Joinable == pc # "none" /\ \A j \in Joiners : joiner[j] # "joined"
Join(j) ==
    /\ joiner[j] = "idle" /\ state \notin {"Initialized", "Running"}
    /\ joiner' = [joiner EXCEPT ![j] = CASE Joining -> "await"
                                         [] ~Joining /\ Joinable -> "join"
                                         [] OTHER -> "ok"]
    /\ UNCHANGED <<service, producer, thread, output>>
JoinReturns(j) ==
    /\ joiner[j] = "join" /\ pc = "exited"
    /\ joiner' = [i \in Joiners |-> IF i = j THEN "joined"
                                    ELSE IF joiner[i] = "await" THEN "ok" ELSE joiner[i]]
    /\ UNCHANGED <<service, producer, thread, output>>
Terminated == state \in {"Stopped", "Failed"} /\ pc \in {"none", "exited"} /\ UNCHANGED vars

-----------------------------------------------------------------------------
Submit(p) == NotRunning(p) \/ QueueFull(p) \/ \E err \in BOOLEAN : Accept(p, err)
ThreadStep ==
    \/ Collect \/ WriteRecord \/ WriteFails \/ TakePending \/ Report \/ ReportFails
    \/ PutBack \/ CheckQueue \/ End
    \/ \E ok \in BOOLEAN : \/ AfterRecord(ok) \/ CloseOutput(ok) \/ CloseFile(ok)
                           \/ \E flushNow \in BOOLEAN : EndBatch(flushNow, ok)
Next ==
    \/ \E p \in Producers : Begin(p) \/ Submit(p)
    \/ ThreadStep \/ Start \/ StartFails \/ Stop
    \/ \E j \in Joiners : Join(j) \/ JoinReturns(j)
    \/ Terminated

Spec == Init /\ [][Next]_vars

(* The thread gets its turns and join goes on; producers owe nothing. *)
FairSpec == Spec /\ WF_vars(ThreadStep) /\ \A j \in Joiners : WF_vars(JoinReturns(j))

-----------------------------------------------------------------------------
Records == [n : Nat, err : BOOLEAN]

(* Type invariant, with the bound of the queue. *)
TypeOK ==
    /\ state \in {"Initialized", "Running", "Stopping", "Stopped", "Failed"}
    /\ queue \in Seq(Records) /\ Len(queue) <= Capacity
    /\ batch \in Seq(Records) /\ file \in Seq(Records)
    /\ pending \in Nat /\ accepted \in Nat /\ dropped \in Nat /\ taken \in Nat
    /\ ioErrors \in Nat /\ synced \in Nat /\ reported \in Nat
    /\ good \in BOOLEAN /\ dirty \in BOOLEAN /\ stopping \in BOOLEAN
    /\ producer \in [Producers -> {"idle", "checked"}]
    /\ pc \in {"none", "collect", "write", "summary", "report", "putback", "after",
               "check", "close", "closeFile", "end", "exited"}
    /\ joiner \in [Joiners -> {"idle", "join", "await", "joined", "ok"}]

(* What the thread still has to write of its batch. *)
Unwritten ==
    IF pc \in {"summary", "report", "putback", "after"} THEN Tail(batch) ELSE batch

(* The variables keep their types and the queue its bound, and while the    *)
(* file works the records written, those of the batch and those in the      *)
(* queue are all accepted records, each once, in the order accepted.        *)
WrittenInOrder ==
    /\ TypeOK
    /\ good => LET all == file \o Unwritten \o queue
               IN  /\ Len(all) = accepted
                   /\ \A i \in 1..Len(all) : all[i].n = i

(* Every drop is reported, waiting to be reported or in the thread's hand:  *)
(* none is lost when the summary fails and is put back while producers drop *)
(* more, and none is reported twice.                                        *)
DropsAccounted == dropped = reported + pending + taken

(* A logger that stopped without a file error has written and flushed every *)
(* accepted record and has reported every drop: a record is dropped only    *)
(* while others are queued, and writing one of those reports it.            *)
StoppedComplete ==
    state = "Stopped" /\ good /\ pc # "none" =>
        /\ Len(file) = accepted /\ synced = accepted
        /\ reported = dropped

(* Whatever was accepted is written, unless the file fails. *)
AcceptedIsWritten ==
    \A k \in 1..MaxCalls : accepted >= k ~> (Len(file) >= k \/ ~good)

(* A stop ends the thread, and a join that waits, for the thread or for     *)
(* another join, returns once it is gone.                                   *)
StopEnds ==
    /\ state = "Stopping" ~> state = "Stopped"
    /\ \A j \in Joiners :
          joiner[j] \in {"join", "await"} ~> joiner[j] \in {"joined", "ok"} /\ pc = "exited"
==============================================================================
