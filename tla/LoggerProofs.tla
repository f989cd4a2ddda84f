----------------------------- MODULE LoggerProofs -----------------------------
(***************************************************************************)
(* The bookkeeping of the logger, for any capacity, any number of          *)
(* producers and any number of records: drops are counted exactly, a       *)
(* logger that stopped without a file error has written everything, and    *)
(* join returns after the thread.                                          *)
(***************************************************************************)
EXTENDS Logger, TLAPS

Types ==
    /\ queue \in Seq(Records) /\ batch \in Seq(Records) /\ file \in Seq(Records)
    /\ pending \in Nat /\ accepted \in Nat /\ dropped \in Nat /\ taken \in Nat
    /\ synced \in Nat /\ reported \in Nat
    /\ good \in BOOLEAN /\ dirty \in BOOLEAN /\ stopping \in BOOLEAN

(* Where the thread and the state are, together. *)
Ending == {"close", "closeFile", "end", "exited"}
InRecord == {"summary", "report", "putback", "after"}
Phase ==
    /\ pc \in {"none", "collect", "write", "check"} \cup InRecord \cup Ending
    /\ pc = "none" => state \in {"Initialized", "Stopped", "Failed"}
    /\ pc \notin {"none", "exited"} => state \in {"Running", "Stopping"}
    /\ pc = "exited" => state = "Stopped"
    /\ stopping => state \in {"Stopping", "Stopped"}
    /\ pc \in {"check"} \cup Ending => stopping
    /\ pc = "none" => ~stopping

(* The batch is there while a record is written, and empty between batches. *)
Batch ==
    /\ pc \in InRecord => batch # <<>>
    /\ pc \in {"none", "collect", "check"} \cup Ending => batch = <<>>
    /\ pc \in {"none"} \cup Ending => queue = <<>>

(* Drops in the thread's hand, and why none is left at the end: a record is *)
(* dropped while others are queued, and the one written last reports it.    *)
Drops ==
    /\ DropsAccounted
    /\ pc \notin {"report", "putback"} => taken = 0
    /\ pc = "putback" => ~good
    /\ good /\ pending > 0 => queue # <<>> \/ Unwritten # <<>> \/ pc = "summary"

(* As long as the file works every record is in the file, in the batch or   *)
(* in the queue, and what is not flushed is marked dirty.                   *)
Counted ==
    /\ good => Len(file) + Len(Unwritten) + Len(queue) = accepted
    /\ good /\ ~dirty => synced = Len(file)
    /\ pc \in {"closeFile", "end", "exited"} => ~dirty
LogInv == Types /\ Phase /\ Batch /\ Drops /\ Counted

-----------------------------------------------------------------------------
(* LogInv holds before start. *)
LEMMA InitLog == Init => LogInv
<1> SUFFICES ASSUME Init PROVE LogInv
  OBVIOUS
<1>1. Unwritten = <<>> /\ Len(Unwritten) = 0 /\ Len(file) = 0 /\ Len(queue) = 0
  BY DEF Init, Unwritten
<1>2. Types
  <2>1. queue \in Seq(Records) /\ batch \in Seq(Records) /\ file \in Seq(Records)
    BY DEF Init
  <2>2. good \in BOOLEAN /\ dirty \in BOOLEAN /\ stopping \in BOOLEAN
    BY DEF Init
  <2> QED
    BY <2>1, <2>2 DEF Init, Types
<1>3. Phase
  BY DEF Init, Phase, InRecord, Ending
<1>4. Drops /\ Counted
  BY <1>1 DEF Init, Drops, DropsAccounted, Counted
<1>5. Batch
  BY DEF Init, Batch, InRecord, Ending
<1> QED
  BY <1>2, <1>3, <1>4, <1>5 DEF LogInv

(* What Append and Tail do to a sequence of records. *)
LEMMA SeqFacts ==
    ASSUME NEW s \in Seq(Records)
    PROVE  /\ Len(s) \in Nat
           /\ \A r \in Records : /\ Append(s, r) \in Seq(Records) /\ Append(s, r) # <<>>
                                  /\ Len(Append(s, r)) = Len(s) + 1
           /\ s # <<>> => /\ Head(s) \in Records /\ Tail(s) \in Seq(Records)
                          /\ Len(Tail(s)) = Len(s) - 1
           /\ s = <<>> <=> Len(s) = 0
<1>1. /\ Len(s) \in Nat
      /\ \A r \in Records : Append(s, r) \in Seq(Records) /\ Len(Append(s, r)) = Len(s) + 1
  OBVIOUS
<1>2. s = <<>> <=> Len(s) = 0
  OBVIOUS
<1>3. \A r \in Records : Append(s, r) # <<>>
  <2>1. \A r \in Records : Len(Append(s, r)) # 0
    BY <1>1
  <2>2. Len(<<>>) = 0
    OBVIOUS
  <2> QED
    BY <2>1, <2>2, Zenon
<1>4. s # <<>> => /\ Head(s) \in Records /\ Tail(s) \in Seq(Records)
                  /\ Len(Tail(s)) = Len(s) - 1
  OBVIOUS
<1> QED
  BY <1>1, <1>2, <1>3, <1>4

(* Steps of producers and joiners that touch none of this. *)
LEMMA Untouched ==
    ASSUME LogInv, UNCHANGED <<service, thread, output>> PROVE LogInv'
<1>1. Unwritten' = Unwritten
  BY DEF Unwritten, service, thread, output
<1>2. Types' /\ Phase' /\ Batch'
  BY DEF LogInv, Types, Phase, Batch, service, thread, output
<1>3. Drops' /\ Counted'
  BY <1>1 DEF LogInv, Drops, DropsAccounted, Counted, service, thread, output
<1> QED
  BY <1>2, <1>3 DEF LogInv

(* Every critical section and every operation on the file keeps LogInv.     *)
LEMMA NextLog == LogInv /\ [Next]_vars => LogInv'
<1> SUFFICES ASSUME LogInv, [Next]_vars PROVE LogInv'
  OBVIOUS
<1> USE LoggerAssumption DEF LogInv, InRecord, Ending, service, thread, output
<1>1. CASE \E p \in Producers : QueueFull(p)
  <2>1. /\ good' \in BOOLEAN /\ dirty' \in BOOLEAN /\ stopping' \in BOOLEAN
        /\ (good' => good)
    BY <1>1 DEF QueueFull, Return, Types
  <2>2. Types'
    BY <1>1, <2>1, SeqFacts DEF QueueFull, Return, Types, Batch, Records
  <2>3. Phase'
    BY <1>1 DEF QueueFull, Return, Phase, Types
  <2>4. Batch'
    BY <1>1, <2>2 DEF QueueFull, Return, Batch, Phase, Types
  <2>5. Drops'
    BY <1>1, <2>1, <2>2, SeqFacts DEF QueueFull, Return, Drops, DropsAccounted, Unwritten, Batch,
       Phase, Types
  <2>6. Counted'
    BY <1>1, <2>1, <2>2, SeqFacts DEF QueueFull, Return, Counted, Unwritten, Batch, Phase, Types
  <2> QED
    BY <2>2, <2>3, <2>4, <2>5, <2>6
<1>2. CASE \E p \in Producers, err \in BOOLEAN : Accept(p, err)
  <2>1. /\ good' \in BOOLEAN /\ dirty' \in BOOLEAN /\ stopping' \in BOOLEAN
        /\ (good' => good)
    BY <1>2 DEF Accept, Return, Types
  <2>2. Types'
    BY <1>2, <2>1, SeqFacts DEF Accept, Return, Types, Batch, Records
  <2>3. Phase'
    BY <1>2 DEF Accept, Return, Phase, Types
  <2>4. Batch'
    BY <1>2, <2>2 DEF Accept, Return, Batch, Phase, Types
  <2>5. Drops'
    BY <1>2, <2>1, <2>2, SeqFacts DEF Accept, Return, Drops, DropsAccounted, Unwritten, Batch,
       Phase, Types
  <2>6. Counted'
    <3>1. PICK p \in Producers, err \in BOOLEAN : Accept(p, err)
      BY <1>2
    <3>2. Len(queue') = Len(queue) + 1
      BY <3>1, SeqFacts DEF Accept, Types, Records
    <3>3. UNCHANGED <<Unwritten, file, good, dirty, synced, pc>> /\ accepted' = accepted + 1
      BY <3>1 DEF Accept, Unwritten
    <3>4. Len(file) \in Nat /\ Len(Unwritten) \in Nat /\ Len(queue) \in Nat
      BY SeqFacts DEF Types, Batch, Unwritten
    <3>5. Len(Unwritten') = Len(Unwritten) /\ Len(file') = Len(file)
      BY <3>3
    <3>6. good' => Len(file') + Len(Unwritten') + Len(queue') = accepted'
      BY <3>2, <3>3, <3>4, <3>5 DEF Counted, Types
    <3>7. (good' /\ ~dirty' => synced' = Len(file')) /\ (pc' \in {"closeFile", "end", "exited"} => ~dirty')
      BY <3>3 DEF Counted
    <3> QED
      BY <3>6, <3>7 DEF Counted
  <2> QED
    BY <2>2, <2>3, <2>4, <2>5, <2>6
<1>3. CASE Collect
  <2>1. /\ good' \in BOOLEAN /\ dirty' \in BOOLEAN /\ stopping' \in BOOLEAN
        /\ (good' => good)
    BY <1>3 DEF Collect, Types
  <2>2. Types'
    BY <1>3, <2>1, SeqFacts DEF Collect, Types, Batch, Records
  <2>3. Phase'
    BY <1>3 DEF Collect, Phase, Types
  <2>4. Batch'
    BY <1>3, <2>2 DEF Collect, Batch, Phase, Types
  <2>5. Drops'
    BY <1>3, <2>1, <2>2, SeqFacts DEF Collect, Drops, DropsAccounted, Unwritten, Batch, Phase,
       Types
  <2>6. Counted'
    BY <1>3, <2>1, <2>2, SeqFacts DEF Collect, Counted, Unwritten, Batch, Phase, Types
  <2> QED
    BY <2>2, <2>3, <2>4, <2>5, <2>6
<1>4. CASE WriteRecord
  <2>1. /\ good' \in BOOLEAN /\ dirty' \in BOOLEAN /\ stopping' \in BOOLEAN
        /\ (good' => good)
    BY <1>4 DEF WriteRecord, Types
  <2>2. Types'
    BY <1>4, <2>1, SeqFacts DEF WriteRecord, Types, Batch, Records
  <2>3. Phase'
    BY <1>4 DEF WriteRecord, Phase, Types
  <2>4. Batch'
    BY <1>4, <2>2 DEF WriteRecord, Batch, Phase, Types
  <2>5. Drops'
    BY <1>4, <2>1, <2>2, SeqFacts DEF WriteRecord, Drops, DropsAccounted, Unwritten, Batch, Phase,
       Types
  <2>6. Counted'
    BY <1>4, <2>1, <2>2, SeqFacts DEF WriteRecord, Counted, Unwritten, Batch, Phase, Types
  <2> QED
    BY <2>2, <2>3, <2>4, <2>5, <2>6
<1>5. CASE WriteFails
  <2>1. /\ good' \in BOOLEAN /\ dirty' \in BOOLEAN /\ stopping' \in BOOLEAN
        /\ (good' => good)
    BY <1>5 DEF WriteFails, Types
  <2>2. Types'
    BY <1>5, <2>1, SeqFacts DEF WriteFails, Types, Batch, Records
  <2>3. Phase'
    BY <1>5 DEF WriteFails, Phase, Types
  <2>4. Batch'
    BY <1>5, <2>2 DEF WriteFails, Batch, Phase, Types
  <2>5. Drops'
    BY <1>5, <2>1, <2>2, SeqFacts DEF WriteFails, Drops, DropsAccounted, Unwritten, Batch, Phase,
       Types
  <2>6. Counted'
    BY <1>5, <2>1, <2>2, SeqFacts DEF WriteFails, Counted, Unwritten, Batch, Phase, Types
  <2> QED
    BY <2>2, <2>3, <2>4, <2>5, <2>6
<1>6. CASE TakePending
  <2>1. /\ good' \in BOOLEAN /\ dirty' \in BOOLEAN /\ stopping' \in BOOLEAN
        /\ (good' => good)
    BY <1>6 DEF TakePending, Types
  <2>2. Types'
    BY <1>6, <2>1, SeqFacts DEF TakePending, Types, Batch, Records
  <2>3. Phase'
    BY <1>6 DEF TakePending, Phase, Types
  <2>4. Batch'
    BY <1>6, <2>2 DEF TakePending, Batch, Phase, Types
  <2>5. Drops'
    BY <1>6, <2>1, <2>2, SeqFacts DEF TakePending, Drops, DropsAccounted, Unwritten, Batch, Phase,
       Types
  <2>6. Counted'
    BY <1>6, <2>1, <2>2, SeqFacts DEF TakePending, Counted, Unwritten, Batch, Phase, Types
  <2> QED
    BY <2>2, <2>3, <2>4, <2>5, <2>6
<1>7. CASE Report
  <2>1. /\ good' \in BOOLEAN /\ dirty' \in BOOLEAN /\ stopping' \in BOOLEAN
        /\ (good' => good)
    BY <1>7 DEF Report, Types
  <2>2. Types'
    BY <1>7, <2>1, SeqFacts DEF Report, Types, Batch, Records
  <2>3. Phase'
    BY <1>7 DEF Report, Phase, Types
  <2>4. Batch'
    BY <1>7, <2>2 DEF Report, Batch, Phase, Types
  <2>5. Drops'
    BY <1>7, <2>1, <2>2, SeqFacts DEF Report, Drops, DropsAccounted, Unwritten, Batch, Phase,
       Types
  <2>6. Counted'
    BY <1>7, <2>1, <2>2, SeqFacts DEF Report, Counted, Unwritten, Batch, Phase, Types
  <2> QED
    BY <2>2, <2>3, <2>4, <2>5, <2>6
<1>8. CASE ReportFails
  <2>1. /\ good' \in BOOLEAN /\ dirty' \in BOOLEAN /\ stopping' \in BOOLEAN
        /\ (good' => good)
    BY <1>8 DEF ReportFails, Types
  <2>2. Types'
    BY <1>8, <2>1, SeqFacts DEF ReportFails, Types, Batch, Records
  <2>3. Phase'
    BY <1>8 DEF ReportFails, Phase, Types
  <2>4. Batch'
    BY <1>8, <2>2 DEF ReportFails, Batch, Phase, Types
  <2>5. Drops'
    BY <1>8, <2>1, <2>2, SeqFacts DEF ReportFails, Drops, DropsAccounted, Unwritten, Batch, Phase,
       Types
  <2>6. Counted'
    BY <1>8, <2>1, <2>2, SeqFacts DEF ReportFails, Counted, Unwritten, Batch, Phase, Types
  <2> QED
    BY <2>2, <2>3, <2>4, <2>5, <2>6
<1>9. CASE PutBack
  <2>1. /\ good' \in BOOLEAN /\ dirty' \in BOOLEAN /\ stopping' \in BOOLEAN
        /\ (good' => good)
    BY <1>9 DEF PutBack, Types
  <2>2. Types'
    BY <1>9, <2>1, SeqFacts DEF PutBack, Types, Batch, Records
  <2>3. Phase'
    BY <1>9 DEF PutBack, Phase, Types
  <2>4. Batch'
    BY <1>9, <2>2 DEF PutBack, Batch, Phase, Types
  <2>5. Drops'
    BY <1>9, <2>1, <2>2, SeqFacts DEF PutBack, Drops, DropsAccounted, Unwritten, Batch, Phase,
       Types
  <2>6. Counted'
    BY <1>9, <2>1, <2>2, SeqFacts DEF PutBack, Counted, Unwritten, Batch, Phase, Types
  <2> QED
    BY <2>2, <2>3, <2>4, <2>5, <2>6
<1>10. CASE \E ok \in BOOLEAN : AfterRecord(ok)
  <2>1. /\ good' \in BOOLEAN /\ dirty' \in BOOLEAN /\ stopping' \in BOOLEAN
        /\ (good' => good)
    BY <1>10 DEF AfterRecord, Flush, Types
  <2>2. Types'
    BY <1>10, <2>1, SeqFacts DEF AfterRecord, Flush, Types, Batch, Records
  <2>3. Phase'
    BY <1>10 DEF AfterRecord, Flush, Phase, Types
  <2>4. Batch'
    BY <1>10, <2>2 DEF AfterRecord, Flush, Batch, Phase, Types
  <2>5. Drops'
    BY <1>10, <2>1, <2>2, SeqFacts DEF AfterRecord, Flush, Drops, DropsAccounted, Unwritten,
       Batch, Phase, Types
  <2>6. Counted'
    BY <1>10, <2>1, <2>2, SeqFacts DEF AfterRecord, Flush, Counted, Unwritten, Batch, Phase, Types
  <2> QED
    BY <2>2, <2>3, <2>4, <2>5, <2>6
<1>11. CASE \E ok, flushNow \in BOOLEAN : EndBatch(flushNow, ok)
  <2>1. /\ good' \in BOOLEAN /\ dirty' \in BOOLEAN /\ stopping' \in BOOLEAN
        /\ (good' => good)
    BY <1>11 DEF EndBatch, Flush, Types
  <2>2. Types'
    BY <1>11, <2>1, SeqFacts DEF EndBatch, Flush, Types, Batch, Records
  <2>3. Phase'
    BY <1>11 DEF EndBatch, Flush, Phase, Types
  <2>4. Batch'
    BY <1>11, <2>2 DEF EndBatch, Flush, Batch, Phase, Types
  <2>5. Drops'
    BY <1>11, <2>1, <2>2, SeqFacts DEF EndBatch, Flush, Drops, DropsAccounted, Unwritten, Batch,
       Phase, Types
  <2>6. Counted'
    BY <1>11, <2>1, <2>2, SeqFacts DEF EndBatch, Flush, Counted, Unwritten, Batch, Phase, Types
  <2> QED
    BY <2>2, <2>3, <2>4, <2>5, <2>6
<1>12. CASE CheckQueue
  <2>1. /\ good' \in BOOLEAN /\ dirty' \in BOOLEAN /\ stopping' \in BOOLEAN
        /\ (good' => good)
    BY <1>12 DEF CheckQueue, Types
  <2>2. Types'
    BY <1>12, <2>1, SeqFacts DEF CheckQueue, Types, Batch, Records
  <2>3. Phase'
    BY <1>12 DEF CheckQueue, Phase, Types
  <2>4. Batch'
    BY <1>12, <2>2 DEF CheckQueue, Batch, Phase, Types
  <2>5. Drops'
    BY <1>12, <2>1, <2>2, SeqFacts DEF CheckQueue, Drops, DropsAccounted, Unwritten, Batch, Phase,
       Types
  <2>6. Counted'
    BY <1>12, <2>1, <2>2, SeqFacts DEF CheckQueue, Counted, Unwritten, Batch, Phase, Types
  <2> QED
    BY <2>2, <2>3, <2>4, <2>5, <2>6
<1>13. CASE \E ok \in BOOLEAN : CloseOutput(ok) \/ CloseFile(ok)
  <2>1. /\ good' \in BOOLEAN /\ dirty' \in BOOLEAN /\ stopping' \in BOOLEAN
        /\ (good' => good)
    BY <1>13 DEF CloseOutput, CloseFile, Flush, Types
  <2>2. Types'
    BY <1>13, <2>1, SeqFacts DEF CloseOutput, CloseFile, Flush, Types, Batch, Records
  <2>3. Phase'
    BY <1>13 DEF CloseOutput, CloseFile, Flush, Phase, Types
  <2>4. Batch'
    BY <1>13, <2>2 DEF CloseOutput, CloseFile, Flush, Batch, Phase, Types
  <2>5. Drops'
    BY <1>13, <2>1, <2>2, SeqFacts DEF CloseOutput, CloseFile, Flush, Drops, DropsAccounted,
       Unwritten, Batch, Phase, Types
  <2>6. Counted'
    BY <1>13, <2>1, <2>2, SeqFacts DEF CloseOutput, CloseFile, Flush, Counted, Unwritten, Batch,
       Phase, Types
  <2> QED
    BY <2>2, <2>3, <2>4, <2>5, <2>6
<1>14. CASE End
  <2>1. /\ good' \in BOOLEAN /\ dirty' \in BOOLEAN /\ stopping' \in BOOLEAN
        /\ (good' => good)
    BY <1>14 DEF End, Types
  <2>2. Types'
    BY <1>14, <2>1, SeqFacts DEF End, Types, Batch, Records
  <2>3. Phase'
    BY <1>14 DEF End, Phase, Types
  <2>4. Batch'
    BY <1>14, <2>2 DEF End, Batch, Phase, Types
  <2>5. Drops'
    BY <1>14, <2>1, <2>2, SeqFacts DEF End, Drops, DropsAccounted, Unwritten, Batch, Phase, Types
  <2>6. Counted'
    BY <1>14, <2>1, <2>2, SeqFacts DEF End, Counted, Unwritten, Batch, Phase, Types
  <2> QED
    BY <2>2, <2>3, <2>4, <2>5, <2>6
<1>15. CASE Start \/ StartFails \/ Stop
  <2>1. /\ good' \in BOOLEAN /\ dirty' \in BOOLEAN /\ stopping' \in BOOLEAN
        /\ (good' => good)
    BY <1>15 DEF Start, StartFails, Stop, Types
  <2>2. Types'
    BY <1>15, <2>1, SeqFacts DEF Start, StartFails, Stop, Types, Batch, Records
  <2>3. Phase'
    BY <1>15 DEF Start, StartFails, Stop, Phase, Types
  <2>4. Batch'
    BY <1>15, <2>2 DEF Start, StartFails, Stop, Batch, Phase, Types
  <2>5. Drops'
    BY <1>15, <2>1, <2>2, SeqFacts DEF Start, StartFails, Stop, Drops, DropsAccounted, Unwritten,
       Batch, Phase, Types
  <2>6. Counted'
    BY <1>15, <2>1, <2>2, SeqFacts DEF Start, StartFails, Stop, Counted, Unwritten, Batch, Phase,
       Types
  <2> QED
    BY <2>2, <2>3, <2>4, <2>5, <2>6
<1>16. CASE UNCHANGED <<service, thread, output>>
  BY <1>16, Untouched
<1> QED
  BY <1>1, <1>2, <1>3, <1>4, <1>5, <1>6, <1>7, <1>8, <1>9, <1>10, <1>11, <1>12, <1>13, <1>14,
     <1>15, <1>16
     DEF Next, Submit, ThreadStep, Begin, NotRunning, Join, JoinReturns, Terminated, vars

(* Drops are counted exactly at every moment: reported, waiting, or in the  *)
(* thread's hand (writePendingDroppedSummary).                              *)
THEOREM DropsAreAccounted == Spec => []DropsAccounted
<1>1. LogInv => DropsAccounted
  BY DEF LogInv, Drops
<1> QED
  BY InitLog, NextLog, <1>1, PTL DEF Spec

(* A logger that stopped without a file error has written and flushed every *)
(* record it accepted and has reported every one it dropped (workerLoop).   *)
THEOREM StopIsComplete == Spec => []StoppedComplete
<1>1. ASSUME LogInv PROVE StoppedComplete
  <2> SUFFICES ASSUME state = "Stopped", good, pc # "none"
               PROVE  Len(file) = accepted /\ synced = accepted /\ reported = dropped
    BY DEF StoppedComplete
  <2>1. pc = "exited"
    BY <1>1 DEF LogInv, Phase
  <2>2. batch = <<>> /\ queue = <<>> /\ Unwritten = <<>>
    BY <1>1, <2>1 DEF LogInv, Batch, Ending, Unwritten
  <2>3. pending = 0 /\ taken = 0
    BY <1>1, <2>1, <2>2 DEF LogInv, Drops, Types
  <2>4. Len(file) = accepted /\ synced = Len(file)
    BY <1>1, <2>1, <2>2 DEF LogInv, Counted, Types
  <2> QED
    BY <1>1, <2>3, <2>4 DEF LogInv, Drops, DropsAccounted, Types
<1> QED
  BY InitLog, NextLog, <1>1, PTL DEF Spec
==============================================================================
