------------------------- MODULE CandidateQueueProofs -------------------------
(***************************************************************************)
(* For every capacity, batch size and set of candidates: the queue keeps   *)
(* within its capacity, merging keeps the longest lifetime of each entity  *)
(* in one entry, no candidate is unaccounted for, and an unacknowledged    *)
(* batch is retried unchanged.                                             *)
(***************************************************************************)
EXTENDS CandidateQueue, WellFoundedInduction, SequenceTheorems, TLAPS

LedgerType == ledger \in [submitted : Nat, accepted : Nat, merged : Int, acked : Nat]

(* What was discarded was everything, and nothing follows it. *)
DiscardedAll == lostAtStop > 0 => closed /\ queued = <<>> /\ reserved = <<>>

QInv == /\ QueueTypeOK /\ LedgerType /\ WithinCapacity /\ OneEntryPerKey /\ TakenCovered
        /\ DiscardedAll /\ Conservation

(* The load of the queue and the size of a batch are natural numbers. *)
LEMMA LoadType ==
  ASSUME QueueTypeOK
  PROVE  /\ Len(queued) \in Nat /\ Len(reserved) \in Nat /\ Load \in Nat
         /\ TakeCount \in Nat /\ TakeCount <= Len(queued)
<1>1. Len(queued) \in Nat
  BY LenProperties DEF QueueTypeOK
<1>2. Len(reserved) \in Nat
  BY LenProperties DEF QueueTypeOK
<1> QED
  BY <1>1, <1>2, QueueAssumption DEF Load, TakeCount

-----------------------------------------------------------------------------
(* Induction up to a bound, from the well-foundedness of the naturals: the  *)
(* library's theorems of induction take an operator, this one takes a set.  *)
LEMMA UpToBound ==
  ASSUME NEW N \in Nat, NEW G, 0 \in G,
         \A n \in Nat : n < N /\ n \in G => n + 1 \in G
  PROVE  N \in G
<1> DEFINE T == {n \in Nat : n <= N /\ n \notin G}
<1> SUFFICES ASSUME T # {} PROVE FALSE
  OBVIOUS
<1>1. T \subseteq Nat
  OBVIOUS
<1>2. PICK x \in T : \A y \in T : ~ (<<y, x>> \in OpToRel(<, Nat))
  <2> HIDE DEF T
  <2> QED
    BY <1>1, NatLessThanWellFounded, WFMin, ZenonT(60)
<1>3. \A y \in T : ~ (y < x)
  BY <1>1, <1>2, ZenonT(60) DEF OpToRel
<1>4. x \in Nat /\ x <= N /\ x \notin G /\ x # 0
  OBVIOUS
<1>5. x - 1 \in Nat /\ x - 1 < N /\ x - 1 < x /\ (x - 1) + 1 = x
  BY <1>4
<1>6. x - 1 \in G
  BY <1>3, <1>4, <1>5
<1> QED
  BY <1>4, <1>5, <1>6

(* What the loop of reserveBatch has made of the first n candidates of s. *)
MergeInv(batch, s, n) ==
    /\ batch \in Seq(Entries) /\ Len(batch) <= n
    /\ \A i, j \in DOMAIN batch : batch[i].key = batch[j].key => i = j
    /\ \A m \in 1..n : \E i \in DOMAIN batch :
          /\ batch[i].key = s[m].key
          /\ batch[i].exp = s[m].exp \/ ~ExpiresLater(s[m].exp, batch[i].exp)
    /\ \A i \in DOMAIN batch : \E m \in 1..n : batch[i] = Entry(s[m])

(* f[n] is the batch after the first n candidates of s, for n up to k. *)
MergeRun(f, s, k) ==
    f = [n \in 0..k |-> IF n = 0 THEN <<>> ELSE MergeIntoReserved(f[n - 1], s[n])]

(* The recursive function that stands for the loop of reserveBatch exists,  *)
(* so that its equation may be used.                                        *)
LEMMA MergeRuns ==
  ASSUME NEW s, NEW N \in Nat
  PROVE  \E f : MergeRun(f, s, N)
<1> DEFINE G == {k \in Nat : \E f : MergeRun(f, s, k)}
<1>1. 0 \in G
  <2> DEFINE f == [n \in 0..0 |-> <<>>]
  <2>1. MergeRun(f, s, 0)
    BY DEF MergeRun
  <2> QED
    BY <2>1
<1>2. ASSUME NEW k \in Nat, k \in G PROVE k + 1 \in G
  <2>1. PICK f : MergeRun(f, s, k)
    BY <1>2
  <2> DEFINE g == [n \in 0..(k + 1) |-> IF n <= k THEN f[n] ELSE MergeIntoReserved(f[k], s[k + 1])]
             Step(h, n) == IF n = 0 THEN <<>> ELSE MergeIntoReserved(h[n - 1], s[n])
  <2>2. \A n \in 0..k : f[n] = Step(f, n)
    BY <2>1 DEF MergeRun
  <2>3. ASSUME NEW n \in 0..(k + 1) PROVE g[n] = Step(g, n)
    <3>1. CASE n = 0
      BY <2>2, <3>1
    <3>2. CASE n # 0 /\ n <= k
      <4>1. n - 1 \in 0..(k + 1) /\ n - 1 <= k /\ n \in 0..k
        BY <3>2
      <4>2. g[n - 1] = f[n - 1] /\ g[n] = f[n]
        BY <3>2, <4>1
      <4> QED
        BY <2>2, <3>2, <4>1, <4>2
    <3>3. CASE n = k + 1
      <4>1. k \in 0..(k + 1) /\ ~(k + 1 <= k) /\ n - 1 = k /\ n # 0 /\ k <= k
        BY <3>3
      <4>2. g[n - 1] = f[k] /\ g[n] = MergeIntoReserved(f[k], s[k + 1])
        BY <3>3, <4>1
      <4> QED
        BY <3>3, <4>1, <4>2
    <3> QED
      BY <3>1, <3>2, <3>3
  <2>4. g = [n \in 0..(k + 1) |-> Step(g, n)]
    BY <2>3
  <2>5. MergeRun(g, s, k + 1)
    BY <2>4 DEF MergeRun
  <2> QED
    BY <2>5
<1>3. N \in G
  <2> HIDE DEF G
  <2> QED
    BY <1>1, <1>2, UpToBound
<1> QED
  BY <1>3

(* One turn of the loop: a new entity is appended, an earlier expiry gives  *)
(* way to a later one, and any other candidate is dropped.                  *)
LEMMA MergeTurn ==
  ASSUME NEW s \in Seq(Candidates), NEW n \in Nat, n < Len(s),
         NEW batch, MergeInv(batch, s, n)
  PROVE  MergeInv(MergeIntoReserved(batch, s[n + 1]), s, n + 1)
<1> DEFINE c == s[n + 1]
           found == {i \in DOMAIN batch : batch[i].key = c.key}
           existing == CHOOSE i \in found : \A j \in found : i <= j
           next == MergeIntoReserved(batch, c)
           Covers(b, i, m) == b[i].key = s[m].key
                              /\ (b[i].exp = s[m].exp \/ ~ExpiresLater(s[m].exp, b[i].exp))
<1>1. /\ Len(s) \in Nat /\ \A m \in 1..Len(s) : s[m] \in Candidates
      /\ batch \in Seq(Entries) /\ Len(batch) \in Nat /\ DOMAIN batch = 1..Len(batch)
      /\ \A i \in DOMAIN batch : batch[i] \in Entries
  BY LenProperties DEF MergeInv
<1>0. /\ Len(batch) <= n
      /\ \A i, j \in DOMAIN batch : batch[i].key = batch[j].key => i = j
  BY DEF MergeInv
<1>2. \A m \in 1..(n + 1) : s[m].key \in Keys /\ s[m].exp \in Nat /\ Entry(s[m]) \in Entries
  BY <1>1, QueueAssumption DEF Entry, Entries
<1>3. c.key \in Keys /\ c.exp \in Nat /\ Entry(c) \in Entries /\ n + 1 \in 1..(n + 1)
  BY <1>2
<1>4. Entry(c).key = c.key /\ Entry(c).exp = c.exp
  BY DEF Entry
<1>5. CASE found = {}
  <2>1. next = Append(batch, Entry(c))
    BY <1>5 DEF MergeIntoReserved
  <2>2. /\ next \in Seq(Entries) /\ Len(next) = Len(batch) + 1
        /\ DOMAIN next = 1..(Len(batch) + 1)
        /\ \A i \in 1..Len(batch) : next[i] = batch[i]
        /\ next[Len(batch) + 1] = Entry(c)
    BY <1>1, <1>3, <2>1, AppendProperties, LenProperties
  <2> HIDE DEF next, c
  <2>3. Len(next) <= n + 1
    BY <1>1, <2>2 DEF MergeInv
  <2>4. \A i, j \in DOMAIN next : next[i].key = next[j].key => i = j
    <3>1. \A i \in 1..Len(batch) : next[i].key # c.key
      BY <1>1, <1>5, <2>2
    <3>2. next[Len(batch) + 1].key = c.key
      BY <1>4, <2>2
    <3>3. \A i, j \in 1..Len(batch) : next[i].key = next[j].key => i = j
      BY <1>0, <1>1, <2>2
    <3>4. \A i \in DOMAIN next : i \in 1..Len(batch) \/ i = Len(batch) + 1
      BY <1>1, <2>2
    <3> QED
      BY <3>1, <3>2, <3>3, <3>4, Zenon
  <2>5. \A m \in 1..(n + 1) : \E i \in DOMAIN next : Covers(next, i, m)
    <3> SUFFICES ASSUME NEW m \in 1..(n + 1) PROVE \E i \in DOMAIN next : Covers(next, i, m)
      OBVIOUS
    <3>1. CASE m \in 1..n
      <4>1. PICK i \in DOMAIN batch : Covers(batch, i, m)
        BY <3>1 DEF MergeInv
      <4> QED
        BY <1>1, <2>2, <4>1
    <3>2. CASE m = n + 1
      <4>1. Len(batch) + 1 \in DOMAIN next
        BY <1>1, <2>2
      <4> QED
        BY <1>4, <2>2, <3>2, <4>1 DEF c
    <3> QED
      BY <3>1, <3>2
  <2>6. \A i \in DOMAIN next : \E m \in 1..(n + 1) : next[i] = Entry(s[m])
    <3> SUFFICES ASSUME NEW i \in DOMAIN next PROVE \E m \in 1..(n + 1) : next[i] = Entry(s[m])
      OBVIOUS
    <3>1. CASE i \in DOMAIN batch
      <4>1. PICK m \in 1..n : batch[i] = Entry(s[m])
        BY <3>1 DEF MergeInv
      <4> QED
        BY <1>1, <2>2, <3>1, <4>1
    <3>2. CASE i = Len(batch) + 1
      BY <1>3, <2>2, <3>2 DEF c
    <3> QED
      BY <1>1, <2>2, <3>1, <3>2
  <2> QED
    BY <2>2, <2>3, <2>4, <2>5, <2>6 DEF MergeInv, next, c
<1>6. CASE found # {}
  <2>1. existing \in found /\ existing \in DOMAIN batch /\ batch[existing].key = c.key
    <3>1. PICK k \in DOMAIN batch : batch[k].key = c.key
      BY <1>6
    <3>2. found = {k}
      BY <1>4, <3>1 DEF MergeInv
    <3>3. existing = k
      BY <1>1, <3>2
    <3> QED
      BY <3>1, <3>2, <3>3
  <2>2. PICK e \in DOMAIN batch : e = existing /\ batch[e].key = c.key /\ batch[e].exp \in Nat
    BY <1>1, <2>1 DEF Entries
  <2>3. CASE ExpiresLater(c.exp, batch[e].exp)
    <3>1. next = [batch EXCEPT ![e] = Entry(c)]
      BY <1>6, <2>2, <2>3 DEF MergeIntoReserved
    <3>2. /\ next \in Seq(Entries) /\ Len(next) = Len(batch) /\ DOMAIN next = DOMAIN batch
          /\ next[e] = Entry(c) /\ \A i \in DOMAIN batch : i # e => next[i] = batch[i]
      BY <1>1, <1>3, <2>2, <3>1, ExceptSeq
    <3> HIDE DEF next, c, existing, found
    <3>3. \A i \in DOMAIN next : next[i].key = batch[i].key
      BY <1>4, <2>2, <3>2
    <3>4. \A m \in 1..(n + 1) : \E i \in DOMAIN next : Covers(next, i, m)
      <4> SUFFICES ASSUME NEW m \in 1..(n + 1) PROVE \E i \in DOMAIN next : Covers(next, i, m)
        OBVIOUS
      <4>1. CASE m \in 1..n
        <5>1. PICK i \in DOMAIN batch : Covers(batch, i, m)
          BY <4>1 DEF MergeInv
        <5>2. CASE i # e
          BY <3>2, <5>1, <5>2
        <5>3. CASE i = e
          <6>1. s[m].exp \in Nat /\ next[e].exp = c.exp /\ next[e].key = s[m].key
            BY <1>2, <1>4, <3>2, <3>3, <5>1, <5>3
          <6>2. c.exp = s[m].exp \/ ~ExpiresLater(s[m].exp, c.exp)
            BY <1>3, <2>2, <2>3, <5>1, <5>3, <6>1 DEF ExpiresLater
          <6> QED
            BY <3>2, <6>1, <6>2
        <5> QED
          BY <5>2, <5>3
      <4>2. CASE m = n + 1
        BY <1>4, <3>2, <4>2 DEF c
      <4> QED
        BY <4>1, <4>2
    <3>5. \A i \in DOMAIN next : \E m \in 1..(n + 1) : next[i] = Entry(s[m])
      <4> SUFFICES ASSUME NEW i \in DOMAIN next PROVE \E m \in 1..(n + 1) : next[i] = Entry(s[m])
        OBVIOUS
      <4>1. CASE i # e
        <5>1. PICK m \in 1..n : batch[i] = Entry(s[m])
          BY <3>2 DEF MergeInv
        <5> QED
          BY <3>2, <4>1, <5>1
      <4>2. CASE i = e
        BY <1>3, <3>2, <4>2 DEF c
      <4> QED
        BY <4>1, <4>2
    <3>6. Len(next) <= n + 1 /\ \A i, j \in DOMAIN next : next[i].key = next[j].key => i = j
      <4>1. Len(next) <= n + 1
        BY <1>0, <1>1, <3>2
      <4>2. \A i, j \in DOMAIN next : next[i].key = next[j].key => i = j
        BY <1>0, <3>2, <3>3, Zenon
      <4> QED
        BY <4>1, <4>2
    <3> QED
      BY <3>2, <3>4, <3>5, <3>6 DEF MergeInv, next, c
  <2>4. CASE ~ExpiresLater(c.exp, batch[e].exp)
    <3>1. next = batch
      BY <1>6, <2>2, <2>4 DEF MergeIntoReserved
    <3> HIDE DEF next, c, existing, found
    <3>2. \A m \in 1..(n + 1) : \E i \in DOMAIN batch : Covers(batch, i, m)
      <4> SUFFICES ASSUME NEW m \in 1..(n + 1) PROVE \E i \in DOMAIN batch : Covers(batch, i, m)
        OBVIOUS
      <4>1. CASE m \in 1..n
        BY <4>1 DEF MergeInv
      <4>2. CASE m = n + 1
        BY <2>2, <2>4, <4>2 DEF c
      <4> QED
        BY <4>1, <4>2
    <3>3. \A i \in DOMAIN batch : \E m \in 1..(n + 1) : batch[i] = Entry(s[m])
      <4> SUFFICES ASSUME NEW i \in DOMAIN batch PROVE \E m \in 1..(n + 1) : batch[i] = Entry(s[m])
        OBVIOUS
      <4>1. PICK m \in 1..n : batch[i] = Entry(s[m])
        BY DEF MergeInv
      <4> QED
        BY <4>1
    <3>4. Len(batch) <= n + 1
      BY <1>1 DEF MergeInv
    <3> QED
      <4>1. MergeInv(batch, s, n + 1)
        BY <1>0, <1>1, <3>2, <3>3, <3>4, Zenon DEF MergeInv
      <4> QED
        BY <3>1, <4>1, Zenon DEF next, c
  <2> QED
    BY <2>3, <2>4
<1> QED
  BY <1>5, <1>6

(* The whole loop: the batch made of s has one entry per entity, at most as *)
(* many as s has candidates, covers each of them and invents nothing.       *)
LEMMA MergeLoop ==
  ASSUME NEW s \in Seq(Candidates)
  PROVE  MergeInv(MergedBatch(s), s, Len(s))
<1>1. Len(s) \in Nat
  BY LenProperties
<1> DEFINE Run(f) == f = [n \in 0..Len(s) |-> IF n = 0 THEN <<>>
                                              ELSE MergeIntoReserved(f[n - 1], s[n])]
           merged == CHOOSE f : Run(f)
<1>2. Run(merged)
  <2>1. \E f : Run(f)
    BY <1>1, MergeRuns DEF MergeRun
  <2> HIDE DEF Run
  <2> QED
    BY <2>1
<1>3. MergedBatch(s) = merged[Len(s)]
  BY DEF MergedBatch
<1>4. /\ merged[0] = <<>>
      /\ \A n \in 0..Len(s) : n # 0 => merged[n] = MergeIntoReserved(merged[n - 1], s[n])
  <2> HIDE DEF merged
  <2>1. merged = [n \in 0..Len(s) |-> IF n = 0 THEN <<>>
                                     ELSE MergeIntoReserved(merged[n - 1], s[n])]
    BY <1>2, Zenon
  <2>2. \A n \in 0..Len(s) : merged[n] = IF n = 0 THEN <<>>
                                     ELSE MergeIntoReserved(merged[n - 1], s[n])
    BY <2>1, Zenon
  <2>3. 0 \in 0..Len(s)
    BY <1>1
  <2> QED
    BY <2>2, <2>3, Zenon
<1> HIDE DEF merged, Run
<1> DEFINE G == {n \in Nat : MergeInv(merged[n], s, n)}
<1>5. 0 \in G
  <2>1. MergeInv(<<>>, s, 0)
    BY EmptySeq DEF MergeInv
  <2> QED
    BY <1>4, <2>1
<1>6. ASSUME NEW n \in Nat, n < Len(s), n \in G PROVE n + 1 \in G
  <2>1. n + 1 \in 0..Len(s) /\ n + 1 # 0 /\ (n + 1) - 1 = n
    BY <1>1, <1>6
  <2>2. merged[n + 1] = MergeIntoReserved(merged[n], s[n + 1])
    BY <1>4, <2>1
  <2>3. MergeInv(merged[n + 1], s, n + 1)
    BY <1>6, <2>2, MergeTurn
  <2> QED
    BY <2>3
<1>7. Len(s) \in G
  <2> HIDE DEF G
  <2> QED
    BY <1>1, <1>5, <1>6, UpToBound
<1> QED
  BY <1>3, <1>7

-----------------------------------------------------------------------------
(* Accepting a candidate changes one field of the ledger. *)
LEMMA LedgerUpdate ==
  ASSUME LedgerType, NEW m \in Nat, NEW n \in Nat,
         ledger' = [ledger EXCEPT !.submitted = m, !.accepted = n]
  PROVE  /\ ledger' \in [submitted : Nat, accepted : Nat, merged : Int, acked : Nat]
         /\ ledger'.accepted = n
         /\ ledger'.merged = ledger.merged /\ ledger'.acked = ledger.acked
  BY DEF LedgerType

(* An empty queue satisfies the invariant. *)
LEMMA InitQueue == QueueInit /\ LedgerInit => QInv
<1> SUFFICES ASSUME QueueInit, LedgerInit PROVE QInv
  OBVIOUS
<1>1. reserved \in Seq(Entries) /\ Len(reserved) = 0 /\ DOMAIN reserved = {}
  BY EmptySeq DEF QueueInit
<1>2. Load = 0
  BY <1>1 DEF QueueInit, Load
<1>3. QueueTypeOK
  <2>1. queued \in Seq(Candidates)
    BY EmptySeq DEF QueueInit
  <2>2. 0 \in 0..CounterMax
    BY QueueAssumption
  <2> QED
    BY <1>1, <2>1, <2>2 DEF QueueInit, QueueTypeOK
<1> QED
  BY <1>1, <1>2, <1>3, QueueAssumption
  DEF QueueInit, LedgerInit, QInv, LedgerType, WithinCapacity, OneEntryPerKey, TakenCovered,
      DiscardedAll, Conservation

(* trySubmit adds one candidate only below the capacity, or counts a drop. *)
LEMMA SubmitQueue == ASSUME QInv, SubmitStep PROVE QInv'
<1>0. PICK c \in Candidates : TrySubmit(c)
  BY DEF SubmitStep
<1> USE DEF QInv
<1>1. CASE SubmitAccepted(c)
  <2>1. /\ queued' \in Seq(Candidates) /\ Len(queued') = Len(queued) + 1
        /\ reserved' = reserved
    BY <1>1, AppendProperties DEF SubmitAccepted, QueueTypeOK
  <2>2. Load' = Load + 1 /\ Load < Capacity /\ Load \in Nat
    BY <1>1, <2>1, LoadType DEF SubmitAccepted, Load
  <2>3. QueueTypeOK' /\ WithinCapacity' /\ OneEntryPerKey' /\ TakenCovered'
    <3>1. WithinCapacity'
      BY <2>2, QueueAssumption DEF WithinCapacity
    <3> QED
      BY <1>1, <2>1, <3>1 DEF SubmitAccepted, QueueTypeOK, OneEntryPerKey, TakenCovered
  <2>4. DiscardedAll'
    BY <1>1 DEF SubmitAccepted, DiscardedAll
  <2>5. LedgerType' /\ Conservation'
    <3>1. /\ ledger' \in [submitted : Nat, accepted : Nat, merged : Int, acked : Nat]
          /\ ledger'.accepted = ledger.accepted + 1
          /\ ledger'.merged = ledger.merged /\ ledger'.acked = ledger.acked
      <4>1. ledger.accepted + Len(queued') - Len(queued) = ledger.accepted + 1
        BY <2>1, LoadType DEF LedgerType
      <4>2. ledger' = [ledger EXCEPT !.submitted = ledger.submitted + 1,
                                     !.accepted = ledger.accepted + 1]
        BY <4>1, Zenon DEF SubmitStep
      <4>3. ledger.submitted + 1 \in Nat /\ ledger.accepted + 1 \in Nat
        BY DEF LedgerType
      <4> QED
        BY <4>2, <4>3, LedgerUpdate
    <3>2. lostAtStop' = lostAtStop /\ lostAtStop \in Int
      BY <1>1, QueueAssumption DEF SubmitAccepted, QueueTypeOK
    <3> QED
      BY <2>2, <3>1, <3>2 DEF LedgerType, Conservation
  <2> QED
    BY <2>3, <2>4, <2>5
<1>2. CASE SubmitClosed \/ SubmitFull
  <2>1. queued' = queued /\ reserved' = reserved /\ Load' = Load /\ taken' = taken
        /\ closed' = closed /\ reported' = reported /\ lostAtStop' = lostAtStop
    BY <1>2 DEF SubmitClosed, SubmitFull, fields, Load
  <2>2. dropped' \in 0..CounterMax
    BY <1>2, QueueAssumption DEF SubmitClosed, SubmitFull, fields, QueueTypeOK
  <2>3. QueueTypeOK'
    BY <2>1, <2>2 DEF QueueTypeOK
  <2>4. LedgerType' /\ Conservation'
    <3>1. /\ ledger' \in [submitted : Nat, accepted : Nat, merged : Int, acked : Nat]
          /\ ledger'.accepted = ledger.accepted
          /\ ledger'.merged = ledger.merged /\ ledger'.acked = ledger.acked
      <4>1. ledger.accepted + Len(queued') - Len(queued) = ledger.accepted
        BY <2>1, LoadType DEF LedgerType
      <4>2. ledger' = [ledger EXCEPT !.submitted = ledger.submitted + 1,
                                     !.accepted = ledger.accepted]
        BY <4>1, Zenon DEF SubmitStep
      <4>3. ledger.submitted + 1 \in Nat /\ ledger.accepted \in Nat
        BY DEF LedgerType
      <4> QED
        BY <4>2, <4>3, LedgerUpdate
    <3> QED
      BY <2>1, <3>1 DEF LedgerType, Conservation
  <2> QED
    BY <2>1, <2>3, <2>4 DEF WithinCapacity, OneEntryPerKey, TakenCovered, DiscardedAll
<1> QED
  BY <1>0, <1>1, <1>2 DEF TrySubmit

(* reserveBatch moves candidates to the batch and books those it merges. *)
LEMMA ReserveQueue == ASSUME QInv, ReserveStep PROVE QInv'
<1> USE DEF QInv
<1>1. CASE reserved # <<>>
  <2>1. UNCHANGED fields /\ Load' = Load
    BY <1>1 DEF ReserveStep, ReserveBatch, fields, Load
  <2>2. ledger' = ledger
    BY <1>1 DEF ReserveStep, LedgerType
  <2> QED
    BY <2>1, <2>2 DEF fields, QueueTypeOK, LedgerType, WithinCapacity, OneEntryPerKey, TakenCovered,
                      DiscardedAll, Conservation
<1>2. CASE reserved = <<>>
  <2> DEFINE front == SubSeq(queued, 1, TakeCount)
  <2>0. /\ queued' = SubSeq(queued, TakeCount + 1, Len(queued))
        /\ reserved' = MergedBatch(front) /\ taken' = Elements(front)
        /\ UNCHANGED <<closed, dropped, reported, lostAtStop>>
    BY <1>2 DEF ReserveStep, ReserveBatch
  <2>1. \A i \in 1..Len(queued) : queued[i] \in Candidates
    BY LenProperties DEF QueueTypeOK
  <2>2. front \in Seq(Candidates) /\ Len(front) = TakeCount
    BY <2>1, LoadType, SubSeqProperties
  <2>3. queued' \in Seq(Candidates) /\ Len(queued') = Len(queued) - TakeCount
    BY <2>0, <2>1, LoadType, SubSeqProperties
  <2>4. /\ reserved' \in Seq(Entries) /\ Len(reserved') <= TakeCount /\ Len(reserved') \in Nat
        /\ MergeInv(reserved', front, TakeCount)
    <3> HIDE DEF front
    <3>1. MergeInv(reserved', front, TakeCount)
      BY <2>0, <2>2, MergeLoop
    <3> QED
      BY <3>1, LenProperties DEF MergeInv
  <2>5. taken' \in SUBSET Candidates
    <3>1. \A i \in DOMAIN front : front[i] \in Candidates
      BY <2>2, LenProperties
    <3> HIDE DEF front
    <3> QED
      BY <2>0, <3>1 DEF Elements
  <2>6. Load = Len(queued) /\ Load' = Len(queued') + Len(reserved')
    BY <1>2, EmptySeq, LoadType DEF Load
  <2>7. QueueTypeOK' /\ WithinCapacity'
    <3>1. Load' <= Load /\ Load' \in Nat
      BY <2>3, <2>4, <2>6, LoadType
    <3> QED
      BY <2>0, <2>3, <2>4, <2>5, <3>1, LoadType, QueueAssumption DEF QueueTypeOK, WithinCapacity
  <2>8. OneEntryPerKey' /\ TakenCovered'
    <3>1. DOMAIN front = 1..TakeCount
      BY <2>2, LenProperties
    <3> HIDE DEF front
    <3>2. OneEntryPerKey'
      BY <2>4 DEF OneEntryPerKey, MergeInv
    <3>3. TakenCovered'
      <4>1. \A c \in taken' : \E i \in DOMAIN reserved' :
              /\ reserved'[i].key = c.key
              /\ reserved'[i].exp = c.exp \/ ~ExpiresLater(c.exp, reserved'[i].exp)
        <5> TAKE c \in taken'
        <5>1. PICK m \in 1..TakeCount : c = front[m]
          BY <2>0, <3>1 DEF Elements
        <5> QED
          BY <2>4, <5>1, Zenon DEF MergeInv
      <4>2. \A i \in DOMAIN reserved' : \E c \in taken' : reserved'[i] = Entry(c)
        <5> TAKE i \in DOMAIN reserved'
        <5>1. PICK m \in 1..TakeCount : reserved'[i] = Entry(front[m])
          BY <2>4, Zenon DEF MergeInv
        <5>2. front[m] \in taken'
          BY <2>0, <3>1 DEF Elements
        <5> WITNESS front[m] \in taken'
        <5> QED
          BY <5>1
      <4> QED
        BY <4>1, <4>2, Zenon DEF TakenCovered, Entry, ExpiresLater
    <3> QED
      BY <3>2, <3>3
  <2>9. ledger' = [ledger EXCEPT !.merged = @ + TakeCount - Len(reserved')]
    BY <1>2, <2>4, LoadType DEF ReserveStep, LedgerType
  <2>10. LedgerType' /\ Conservation'
    <3>1. /\ ledger' \in [submitted : Nat, accepted : Nat, merged : Int, acked : Nat]
          /\ ledger'.merged = ledger.merged + TakeCount - Len(reserved')
          /\ ledger'.accepted = ledger.accepted /\ ledger'.acked = ledger.acked
      <4>1. ledger.merged + TakeCount - Len(reserved') \in Int
        BY <2>4, LoadType DEF LedgerType
      <4> QED
        BY <2>9, <4>1 DEF LedgerType
    <3>2. lostAtStop' = lostAtStop /\ lostAtStop \in Int
      BY <2>0, QueueAssumption DEF QueueTypeOK
    <3>3. /\ Load = Len(queued) /\ Load' = Load - TakeCount + Len(reserved')
          /\ Load \in Int /\ TakeCount \in Int /\ Len(reserved') \in Int
      BY <2>3, <2>4, <2>6, LoadType
    <3>4. /\ ledger.accepted \in Int /\ ledger.merged \in Int /\ ledger.acked \in Int
          /\ ledger.accepted = Load + ledger.merged + ledger.acked + lostAtStop
      BY DEF LedgerType, Conservation
    <3>5. ledger'.accepted = Load' + ledger'.merged + ledger'.acked + lostAtStop'
      <4>1. ledger.accepted = (Load - TakeCount + Len(reserved'))
                + (ledger.merged + TakeCount - Len(reserved')) + ledger.acked + lostAtStop
        <5>1. Load + ledger.merged + ledger.acked + lostAtStop
                = (Load - TakeCount + Len(reserved'))
                    + (ledger.merged + TakeCount - Len(reserved')) + ledger.acked + lostAtStop
          <6>1. /\ Load \in Int /\ ledger.merged \in Int /\ ledger.acked \in Int
                /\ lostAtStop \in Int /\ TakeCount \in Int /\ Len(reserved') \in Int
            BY <3>2, <3>3, <3>4, Zenon
          <6> DEFINE l == Load  m == ledger.merged  a == ledger.acked
                     t == TakeCount  n == Len(reserved')
          <6>2. l \in Int /\ m \in Int /\ a \in Int /\ lostAtStop \in Int /\ t \in Int /\ n \in Int
            BY <6>1, Zenon
          <6> HIDE DEF QInv, l, m, a, t, n
          <6>3. l + m + a + lostAtStop = (l - t + n) + (m + t - n) + a + lostAtStop
            BY <6>2
          <6> QED
            BY <6>3, Zenon DEF l, m, a, t, n
        <5> QED
          BY <3>4, <5>1, Zenon
      <4> QED
        BY <3>1, <3>2, <3>3, <4>1, Zenon
    <3> QED
      BY <3>1, <3>5 DEF LedgerType, Conservation
  <2>11. DiscardedAll'
    <3>1. CASE lostAtStop > 0
      <4>1. queued = <<>> /\ Len(queued) = 0 /\ closed
        BY <3>1, EmptySeq DEF DiscardedAll
      <4>2. Len(queued') = 0 /\ Len(reserved') = 0
        BY <2>3, <2>4, <4>1, LoadType
      <4> QED
        BY <2>0, <2>3, <2>4, <4>1, <4>2, EmptySeq DEF DiscardedAll
    <3>2. CASE ~(lostAtStop > 0)
      BY <2>0, <3>2 DEF DiscardedAll
    <3> QED
      BY <3>1, <3>2
  <2> QED
    BY <2>7, <2>8, <2>10, <2>11
<1> QED
  BY <1>1, <1>2

(* acknowledgeReserved books the batch as delivered. *)
LEMMA AckQueue == ASSUME QInv, AckStep PROVE QInv'
<1> USE DEF QInv
<1>1. /\ reserved' = <<>> /\ taken' = {} /\ queued' = queued /\ closed' = closed
      /\ UNCHANGED <<dropped, reported, lostAtStop>>
  BY DEF AckStep, AcknowledgeReserved
<1>2. reserved' \in Seq(Entries) /\ Len(reserved') = 0 /\ DOMAIN reserved' = {}
  BY <1>1, EmptySeq
<1>3. Load' = Len(queued) /\ Load = Len(queued) + Len(reserved)
  BY <1>1, <1>2, LoadType DEF Load
<1>4. QueueTypeOK' /\ WithinCapacity'
  BY <1>1, <1>2, <1>3, LoadType, QueueAssumption DEF QueueTypeOK, WithinCapacity
<1>5. LedgerType' /\ Conservation'
  <2>1. /\ ledger' \in [submitted : Nat, accepted : Nat, merged : Int, acked : Nat]
        /\ ledger'.acked = ledger.acked + Len(reserved)
        /\ ledger'.accepted = ledger.accepted /\ ledger'.merged = ledger.merged
    <3> DEFINE n == ledger.acked + Len(reserved)
    <3>1. n \in Nat
      BY LoadType DEF LedgerType
    <3>2. ledger' = [ledger EXCEPT !.acked = n]
      BY DEF AckStep
    <3> HIDE DEF n
    <3>3. /\ ledger' \in [submitted : Nat, accepted : Nat, merged : Int, acked : Nat]
          /\ ledger'.acked = n
          /\ ledger'.accepted = ledger.accepted /\ ledger'.merged = ledger.merged
      BY <3>1, <3>2 DEF LedgerType
    <3> QED
      BY <3>3 DEF n
  <2>2. lostAtStop' = lostAtStop /\ lostAtStop \in Int
    BY <1>1, QueueAssumption DEF QueueTypeOK
  <2> QED
    BY <1>3, <2>1, <2>2, LoadType DEF LedgerType, Conservation
<1> QED
  BY <1>1, <1>2, <1>4, <1>5 DEF OneEntryPerKey, TakenCovered, DiscardedAll

(* close, discardRemaining and takeDroppedSinceLastReport. *)
LEMMA StopQueue ==
  ASSUME QInv, (CloseQueue \/ DiscardStep \/ TakeDropped) /\ UNCHANGED ledger
  PROVE  QInv'
<1> USE DEF QInv
<1>1. CASE CloseQueue \/ TakeDropped
  <2>1. /\ queued' = queued /\ reserved' = reserved /\ Load' = Load
        /\ lostAtStop' = lostAtStop /\ taken' = taken
    BY <1>1 DEF CloseQueue, TakeDropped, Load
  <2>2. QueueTypeOK'
    BY <1>1 DEF CloseQueue, TakeDropped, QueueTypeOK
  <2> QED
    BY <1>1, <2>1, <2>2 DEF CloseQueue, TakeDropped, LedgerType, WithinCapacity,
                            OneEntryPerKey, TakenCovered, DiscardedAll, Conservation
<1>2. CASE DiscardStep
  <2>1. /\ queued' = <<>> /\ reserved' = <<>> /\ taken' = {} /\ closed /\ closed' = closed
        /\ UNCHANGED <<dropped, reported>>
    BY <1>2 DEF DiscardStep, DiscardRemaining
  <2>2. /\ reserved' \in Seq(Entries) /\ queued' \in Seq(Candidates)
        /\ Len(reserved') = 0 /\ Len(queued') = 0 /\ DOMAIN reserved' = {}
    BY <2>1, EmptySeq
  <2>3. Load' = 0
    BY <2>2 DEF Load
  <2>4. lostAtStop' = lostAtStop + Load
    <3>1. CASE lostAtStop > 0
      <4>1. Load = 0
        BY <3>1, EmptySeq DEF DiscardedAll, Load
      <4> QED
        BY <1>2, <4>1, QueueAssumption DEF DiscardStep, DiscardRemaining, QueueTypeOK
    <3>2. CASE ~(lostAtStop > 0)
      <4>1. lostAtStop = 0 /\ Load <= CounterMax
        BY <3>2, LoadType, QueueAssumption DEF QueueTypeOK, WithinCapacity
      <4> QED
        BY <1>2, <4>1, QueueAssumption DEF DiscardStep, DiscardRemaining
    <3> QED
      BY <3>1, <3>2
  <2>5. lostAtStop' \in 0..CounterMax
    BY <1>2, LoadType, QueueAssumption DEF DiscardStep, DiscardRemaining, QueueTypeOK
  <2>6. QueueTypeOK'
    BY <2>1, <2>2, <2>5 DEF QueueTypeOK
  <2>7. LedgerType' /\ Conservation'
    BY <2>3, <2>4, LoadType DEF LedgerType, Conservation, QueueTypeOK
  <2> QED
    BY <2>1, <2>2, <2>3, <2>6, <2>7, QueueAssumption DEF WithinCapacity, OneEntryPerKey, TakenCovered, DiscardedAll
<1> QED
  BY <1>1, <1>2

(* A stuttering step. *)
LEMMA StutterQueue == ASSUME QInv, UNCHANGED queueVars PROVE QInv'
<1>1. Load' = Load
  BY DEF queueVars, fields, Load
<1> QED
  BY <1>1 DEF queueVars, fields, QInv, QueueTypeOK, LedgerType, WithinCapacity,
              OneEntryPerKey, TakenCovered, DiscardedAll, Conservation

(* Every step of the queue preserves the invariant. *)
LEMMA StepQueue == QInv /\ [QueueNext]_queueVars => QInv'
  BY SubmitQueue, ReserveQueue, AckQueue, StopQueue, StutterQueue DEF QueueNext

(* Whatever producers and maintenance do, queued plus reserved stay within  *)
(* the capacity, a batch names an entity once, and every accepted candidate *)
(* is queued, reserved, merged, acknowledged or counted as lost at stop.    *)
THEOREM QueueKeepsCount ==
  QueueSpec => [](QueueTypeOK /\ WithinCapacity /\ OneEntryPerKey /\ Conservation)
<1>1. QInv => QueueTypeOK /\ WithinCapacity /\ OneEntryPerKey /\ Conservation
  BY DEF QInv
<1> QED
  BY InitQueue, StepQueue, <1>1, PTL DEF QueueSpec, CountedInit

(* However the candidates of an entity are ordered in the queue and however *)
(* the batches are cut, the merge loop of reserveBatch keeps the longest    *)
(* lifetime among those it took, and never one that none of them had.       *)
THEOREM MergeKeepsLongest == QueueSpec => []TakenCovered
<1>1. QInv => TakenCovered
  BY DEF QInv
<1> QED
  BY InitQueue, StepQueue, <1>1, PTL DEF QueueSpec, CountedInit

Retries == reserved # <<>> =>
             \/ reserved' = <<>>
             \/ /\ reserved' = reserved /\ taken' = taken
                /\ Len(queued') >= Len(queued)
                /\ SubSeq(queued', 1, Len(queued)) = queued

(* A step that finds a batch reserved keeps it, unless it settles it. *)
LEMMA RetryStep == ASSUME QInv, QueueNext, reserved # <<>> PROVE Retries
<1>1. queued \in Seq(Candidates) /\ Len(queued) \in Nat
  BY LoadType DEF QInv, QueueTypeOK
<1>2. SubSeq(queued, 1, Len(queued)) = queued
  BY <1>1
<1>3. CASE queued' = queued /\ reserved' = reserved /\ taken' = taken
  BY <1>1, <1>2, <1>3 DEF Retries
<1>4. CASE \E c \in Candidates : SubmitAccepted(c)
  <2>1. PICK c \in Candidates : SubmitAccepted(c)
    BY <1>4
  <2>2. queued' = Append(queued, c) /\ reserved' = reserved /\ taken' = taken
    BY <2>1 DEF SubmitAccepted
  <2>3. Len(queued') = Len(queued) + 1 /\ SubSeq(queued', 1, Len(queued)) = queued
    BY <1>1, <2>2
  <2> QED
    BY <1>1, <2>2, <2>3 DEF Retries
<1>5. CASE reserved' = <<>>
  BY <1>5 DEF Retries
<1> QED
  BY <1>3, <1>4, <1>5
  DEF QueueNext, SubmitStep, TrySubmit, SubmitClosed, SubmitFull, ReserveStep, ReserveBatch,
      AckStep, AcknowledgeReserved, CloseQueue, DiscardStep, DiscardRemaining, TakeDropped, fields

(* Until it is acknowledged or discarded, the batch that reserveBatch hands *)
(* out stays the same, and the queue behind it only grows at its end.       *)
THEOREM BatchIsRetried == QueueSpec => RetriedUnchanged
<1>1. QInv /\ [QueueNext]_queueVars => [Retries]_queueVars
  BY RetryStep DEF Retries
<1> QED
  BY InitQueue, StepQueue, <1>1, PTL DEF QueueSpec, CountedInit, RetriedUnchanged, Retries
==============================================================================
