--------------------------- MODULE CandidateQueue ---------------------------
(***************************************************************************)
(* The bounded queue between the business workers, which produce blacklist *)
(* candidates, and the single maintenance worker, which writes them to     *)
(* Redis (class BlacklistCandidateQueue).  Every method of the class holds *)
(* one mutex from its first to its last access, so each is one action.     *)
(*                                                                         *)
(* A candidate is a record with an entity "key" (type and id), an expiry   *)
(* "exp" (0 is permanent) and possibly further fields the queue ignores.   *)
(* The reserved batch is the vector of entries [key, exp] that the merge    *)
(* loop builds, candidate by candidate.                                    *)
(***************************************************************************)
EXTENDS Integers, Sequences

CONSTANTS
    Keys,          \* entities, i.e. (type, id) pairs
    Candidates,    \* the mutations that satisfy isCandidate
    Capacity,      \* candidate_queue_capacity: queued plus reserved
    BatchSize,     \* candidate_batch_size
    CounterMax,    \* the largest value of the std::uint64_t counters
    MaxSubmits     \* bound on the calls of trySubmit in one behaviour

ASSUME QueueAssumption ==
    /\ \A c \in Candidates : c.key \in Keys /\ c.exp \in Nat
    /\ Capacity \in Nat \ {0}
    /\ BatchSize \in 1..Capacity
    /\ CounterMax \in Nat /\ CounterMax >= Capacity
    /\ MaxSubmits \in Nat

VARIABLES
    queued,        \* queued_, oldest first
    reserved,      \* reserved_batch_, in the order of the vector
    closed,        \* closed_
    dropped,       \* dropped_count_
    reported,      \* reported_dropped_count_
    lostAtStop,    \* dropped_on_shutdown_count_
    taken,         \* history: the candidates the reserved batch was made from
    ledger         \* history of the closed system below: how many candidates
                   \* were submitted, accepted, merged, acknowledged

fields == <<queued, reserved, closed, dropped, reported, lostAtStop, taken>>
queueVars == <<fields, ledger>>

Entries == [key : Keys, exp : Nat]
Entry(c) == [key |-> c.key, exp |-> c.exp]
Elements(s) == {s[i] : i \in DOMAIN s}
Load == Len(queued) + Len(reserved)

-----------------------------------------------------------------------------
(* expiresLater: a permanent expiry is later than any finite one. *)
ExpiresLater(a, b) == a = 0 \/ (b # 0 /\ a > b)

(* mergeIntoReserved: find_if looks for the first item of the entity.  A    *)
(* new entity is appended; a later expiry replaces the item it found.       *)
MergeIntoReservedLatest(batch, c) ==
    LET found == {i \in DOMAIN batch : batch[i].key = c.key}
        existing == CHOOSE i \in found : \A j \in found : i <= j
    IN  CASE found = {} -> Append(batch, Entry(c))
          [] OTHER -> [batch EXCEPT ![existing] = Entry(c)]
MergeIntoReserved(batch, c) ==
    LET found == {i \in DOMAIN batch : batch[i].key = c.key}
        existing == CHOOSE i \in found : \A j \in found : i <= j
    IN  CASE found = {} -> Append(batch, Entry(c))
          [] found # {} /\ ExpiresLater(c.exp, batch[existing].exp) ->
                [batch EXCEPT ![existing] = Entry(c)]
          [] OTHER -> batch

(* The loop of reserveBatch: merged[n] is the batch after n candidates. *)
MergedBatch(s) ==
    LET merged[n \in 0..Len(s)] ==
            IF n = 0 THEN <<>> ELSE MergeIntoReserved(merged[n - 1], s[n])
    IN  merged[Len(s)]

QueueInit ==
    /\ queued = <<>> /\ reserved = <<>> /\ closed = FALSE
    /\ dropped = 0 /\ reported = 0 /\ lostAtStop = 0
    /\ taken = {}

(* trySubmit: Closed, Full or Accepted. *)
SubmitClosed ==
    /\ closed
    /\ UNCHANGED fields

SubmitFull ==
    /\ ~closed
    /\ Load >= Capacity
    /\ dropped' = IF dropped # CounterMax THEN dropped + 1 ELSE dropped
    /\ UNCHANGED <<queued, reserved, closed, reported, lostAtStop, taken>>

SubmitAccepted(c) ==
    /\ ~closed
    /\ Load < Capacity
    /\ queued' = Append(queued, c)
    /\ UNCHANGED <<reserved, closed, dropped, reported, lostAtStop, taken>>

TrySubmit(c) == SubmitClosed \/ SubmitFull \/ SubmitAccepted(c)

(* reserveBatch: an unacknowledged batch is returned as it is; otherwise at *)
(* most BatchSize candidates leave the front of the queue and are merged.   *)
TakeCount == IF BatchSize <= Len(queued) THEN BatchSize ELSE Len(queued)

ReserveBatch ==
    IF reserved # <<>>
    THEN UNCHANGED fields
    ELSE LET front == SubSeq(queued, 1, TakeCount)
         IN  /\ queued' = SubSeq(queued, TakeCount + 1, Len(queued))
             /\ reserved' = MergedBatch(front)
             /\ taken' = Elements(front)
             /\ UNCHANGED <<closed, dropped, reported, lostAtStop>>

(* acknowledgeReserved *)
AcknowledgeReserved ==
    /\ reserved' = <<>>
    /\ taken' = {}
    /\ UNCHANGED <<queued, closed, dropped, reported, lostAtStop>>

(* close *)
CloseQueue ==
    /\ closed' = TRUE
    /\ UNCHANGED <<queued, reserved, dropped, reported, lostAtStop, taken>>

(* discardRemainingOnShutdown *)
DiscardRemaining ==
    /\ queued' = <<>>
    /\ reserved' = <<>>
    /\ taken' = {}
    /\ lostAtStop' = lostAtStop + (IF Load <= CounterMax - lostAtStop
                                   THEN Load ELSE CounterMax - lostAtStop)
    /\ UNCHANGED <<closed, dropped, reported>>

(* takeDroppedSinceLastReport *)
TakeDropped ==
    /\ reported' = dropped
    /\ UNCHANGED <<queued, reserved, closed, dropped, lostAtStop, taken>>

(* empty *)
QueueEmptyQueuedOnly == queued = <<>>
QueueEmpty == queued = <<>> /\ reserved = <<>>

-----------------------------------------------------------------------------
(* The queue among its callers: business workers submit, the maintenance    *)
(* worker reserves and acknowledges only what it reserved, and Handler::join *)
(* discards only after it closed the queue.                                 *)
SubmitStep ==
    /\ ledger.submitted < MaxSubmits
    /\ \E c \in Candidates : TrySubmit(c)
    /\ ledger' = [ledger EXCEPT !.submitted = @ + 1,
                                !.accepted = @ + Len(queued') - Len(queued)]
ReserveStep == /\ ReserveBatch
               /\ ledger' = [ledger EXCEPT !.merged =
                     @ + IF reserved = <<>> THEN TakeCount - Len(reserved') ELSE 0]
AckStep == /\ reserved # <<>> /\ AcknowledgeReserved
           /\ ledger' = [ledger EXCEPT !.acked = @ + Len(reserved)]
DiscardStep == closed /\ DiscardRemaining

QueueNext ==
    \/ SubmitStep
    \/ ReserveStep
    \/ AckStep
    \/ (CloseQueue \/ DiscardStep \/ TakeDropped) /\ UNCHANGED ledger

LedgerInit == ledger = [submitted |-> 0, accepted |-> 0, merged |-> 0, acked |-> 0]
CountedInit == QueueInit /\ LedgerInit
QueueSpec == CountedInit /\ [][QueueNext]_queueVars

-----------------------------------------------------------------------------
(* Type invariant of the queue's fields. *)
QueueTypeOK ==
    /\ queued \in Seq(Candidates)
    /\ reserved \in Seq(Entries)
    /\ closed \in BOOLEAN
    /\ dropped \in 0..CounterMax /\ reported \in 0..CounterMax
    /\ lostAtStop \in 0..CounterMax
    /\ taken \in SUBSET Candidates

(* trySubmit counts the batch that maintenance holds against the capacity,  *)
(* so queued plus reserved never exceeds it, however long Redis refuses the *)
(* batch and whatever the producers do meanwhile.                           *)
WithinCapacity == Load <= Capacity

(* Whatever order candidates of one entity arrive in, the loop of           *)
(* mergeIntoReserved keeps the longest lifetime, permanence included: each  *)
(* candidate that was taken and is not yet acknowledged is covered by an    *)
(* entry of its entity that expires no earlier, and no entry promises more  *)
(* than one of these candidates asked for.                                  *)
TakenCovered ==
    /\ \A c \in taken : \E i \in DOMAIN reserved :
          /\ reserved[i].key = c.key
          /\ reserved[i].exp = c.exp \/ ~ExpiresLater(c.exp, reserved[i].exp)
    /\ \A i \in DOMAIN reserved : \E c \in taken : reserved[i] = Entry(c)

(* One batch carries at most one mutation per entity, so that the order in  *)
(* which one transaction applies it does not matter.                        *)
OneEntryPerKey ==
    \A i, j \in DOMAIN reserved : reserved[i].key = reserved[j].key => i = j

(* No candidate disappears unaccounted: an accepted candidate is queued,    *)
(* reserved, merged into another, acknowledged, or counted once as dropped  *)
(* on shutdown, even when discardRemainingOnShutdown is called repeatedly.  *)
Conservation ==
    ledger.accepted = Load + ledger.merged + ledger.acked + lostAtStop

(* A batch that was not acknowledged is retried unchanged: reserveBatch     *)
(* neither adds to it nor takes anything else off the queue until it is     *)
(* acknowledged or discarded.                                               *)
RetriedUnchanged ==
    [][reserved # <<>> =>
         \/ reserved' = <<>>
         \/ /\ reserved' = reserved /\ taken' = taken
            /\ Len(queued') >= Len(queued)
            /\ SubSeq(queued', 1, Len(queued)) = queued]_queueVars
=============================================================================
