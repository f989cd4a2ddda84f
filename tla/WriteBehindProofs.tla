-------------------------- MODULE WriteBehindProofs --------------------------
(* The convergence of the write-behind store, for every set of entities and *)
(* of instants.                                                             *)
EXTENDS WriteBehind, TLAPS

Inv == TypeOK /\ UniqueIds /\ Converges

(* The value a record leaves is the state of an entity. *)
LEMMA ValueType == \A r \in Records : Value(r) \in States
BY DEF Records, Value, States

(* The initial states of the store satisfy the invariant. *)
LEMMA InitInv == Init => Inv
BY DEF Init, Inv, TypeOK, UniqueIds, Converges, Agrees

(* A transaction appends records that are younger than all pending ones, so *)
(* they decide every entity they touch and leave the others to the old ones. *)
LEMMA MutateInv == ASSUME Inv, NEW B \in Batches, Mutate(B) PROVE Inv'
<1> B \subseteq Records
  BY RecordsAssumption
<1>1. TypeOK'
  BY DEF Inv, TypeOK, Mutate
<1>2. UniqueIds'
  <2> SUFFICES ASSUME NEW r \in pending', NEW s \in pending', r.id = s.id
               PROVE  r = s
    BY DEF UniqueIds
  <2>1. r.id \in Nat /\ s.id \in Nat
    BY DEF Inv, TypeOK, Mutate, Records
  <2> QED
    BY <2>1 DEF Inv, UniqueIds, Mutate
<1>3. Converges'
  <2> SUFFICES ASSUME NEW k \in Entities
               PROVE  \/ (\A r \in pending' : ~Touches(r, k)) /\ Agrees(hash[k], mysql[k])'
                      \/ \E r \in pending' : IsLast(r, pending', k) /\ Agrees(hash[k], Value(r))'
    BY DEF Converges
  <2>1. pending' = pending \cup B /\ mysql' = mysql /\ now' = now /\ ready
    BY DEF Mutate
  <2>2. CASE (\A r \in B : ~Touches(r, k)) /\ hash'[k] = hash[k]
    <3>1. CASE (\A r \in pending : ~Touches(r, k)) /\ Agrees(hash[k], mysql[k])
      BY <2>1, <2>2, <3>1 DEF Agrees
    <3>2. CASE \E r \in pending : IsLast(r, pending, k) /\ Agrees(hash[k], Value(r))
      BY <2>1, <2>2, <3>2 DEF Agrees, IsLast
    <3> QED
      BY <2>1, <3>1, <3>2 DEF Inv, Converges
  <2>3. CASE \E r \in B : IsLast(r, B, k) /\ hash'[k] = Value(r)
    <3>1. PICK r \in B : IsLast(r, B, k) /\ hash'[k] = Value(r)
      BY <2>3
    <3>2. \A s \in pending : s.id <= r.id
      <4> SUFFICES ASSUME NEW s \in pending PROVE s.id <= r.id
        OBVIOUS
      <4>1. s.id < r.id /\ s.id \in Nat /\ r.id \in Nat
        BY DEF Mutate, Inv, TypeOK, Records
      <4> QED
        BY <4>1
    <3>3. IsLast(r, pending', k)
      BY <2>1, <3>1, <3>2 DEF IsLast
    <3> QED
      BY <2>1, <3>1, <3>3 DEF Agrees
  <2> QED
    BY <2>2, <2>3 DEF Mutate, Replays
<1> QED
  BY <1>1, <1>2, <1>3 DEF Inv

(* An entry that leaves the hash had expired, and so had its durable value. *)
LEMMA EvictInv == ASSUME Inv, NEW S \in SUBSET Entities, Evict(S) PROVE Inv'
<1>1. TypeOK'
  BY DEF Inv, TypeOK, Evict, States
<1>2. UniqueIds'
  BY DEF Inv, UniqueIds, Evict
<1>3. Converges'
  <2> SUFFICES ASSUME ready, NEW k \in Entities
               PROVE  \/ (\A r \in pending : ~Touches(r, k)) /\ Agrees(hash'[k], mysql[k])
                      \/ \E r \in pending : IsLast(r, pending, k) /\ Agrees(hash'[k], Value(r))
    BY DEF Converges, Evict, Agrees
  <2>1. \A e : Agrees(hash[k], e) => Agrees(hash'[k], e)
    <3>1. CASE k \in S
      BY <3>1 DEF Evict, Agrees, Expired, NoEntry
    <3>2. CASE k \notin S
      BY <3>2 DEF Evict, Agrees
    <3> QED
      BY <3>1, <3>2
  <2> QED
    BY <2>1 DEF Inv, Converges
<1> QED
  BY <1>1, <1>2, <1>3 DEF Inv

(* Writing back a batch changes MySQL only for entities that some pending *)
(* record still decides, so it cannot disturb the invariant.              *)
LEMMA WriteBackInv == ASSUME Inv, NEW B \in SUBSET pending, WriteBack(B) PROVE Inv'
<1>1. TypeOK' /\ UniqueIds'
  BY DEF Inv, TypeOK, UniqueIds, WriteBack
<1>2. Converges'
  <2> SUFFICES ASSUME ready, NEW k \in Entities
               PROVE  \/ (\A r \in pending : ~Touches(r, k)) /\ Agrees(hash[k], mysql'[k])
                      \/ \E r \in pending : IsLast(r, pending, k) /\ Agrees(hash[k], Value(r))
    BY DEF Converges, WriteBack, Agrees
  <2>1. (\A r \in pending : ~Touches(r, k)) => mysql'[k] = mysql[k]
    BY DEF WriteBack, InitialSegment, Replays, IsLast
  <2> QED
    BY <2>1 DEF Inv, Converges
<1> QED
  BY <1>1, <1>2 DEF Inv

(* Trimming removes records older than every one that stays.  An entity that *)
(* only removed records touch was decided by the last of them, and MySQL     *)
(* holds exactly that value because the batch was durable.                   *)
LEMMA TrimInv == ASSUME Inv, NEW B \in SUBSET pending, Trim(B) PROVE Inv'
<1>1. TypeOK' /\ UniqueIds'
  BY DEF Inv, TypeOK, UniqueIds, Trim
<1>2. Converges'
  <2> SUFFICES ASSUME ready, NEW k \in Entities
               PROVE  \/ (\A r \in pending \ B : ~Touches(r, k)) /\ Agrees(hash[k], mysql[k])
                      \/ \E r \in pending \ B :
                            IsLast(r, pending \ B, k) /\ Agrees(hash[k], Value(r))
    BY DEF Converges, Trim, Agrees
  <2>1. CASE (\A r \in pending : ~Touches(r, k)) /\ Agrees(hash[k], mysql[k])
    BY <2>1
  <2>2. CASE \E r \in pending : IsLast(r, pending, k) /\ Agrees(hash[k], Value(r))
    <3>1. PICK r \in pending : IsLast(r, pending, k) /\ Agrees(hash[k], Value(r))
      BY <2>2
    <3>2. CASE r \notin B
      BY <3>1, <3>2 DEF IsLast
    <3>3. CASE r \in B
      <4>1. IsLast(r, B, k)
        BY <3>1, <3>3 DEF IsLast, Trim, InitialSegment
      <4>2. PICK s \in B : IsLast(s, B, k) /\ mysql[k] = Value(s)
        BY <4>1 DEF Trim, Durable, IsLast
      <4>3. s = r
        <5>1. s \in pending /\ s.id \in Nat /\ r.id \in Nat
          BY <4>2, <3>1 DEF Trim, InitialSegment, Inv, TypeOK, Records
        <5>2. s.id <= r.id /\ r.id <= s.id
          BY <4>1, <4>2 DEF IsLast
        <5> QED
          BY <5>1, <5>2 DEF Inv, UniqueIds
      <4>4. \A t \in pending \ B : ~Touches(t, k)
        <5> SUFFICES ASSUME NEW t \in pending \ B, Touches(t, k) PROVE FALSE
          OBVIOUS
        <5>1. t.id <= r.id /\ t.id \in Nat /\ r.id \in Nat
          BY <3>1 DEF IsLast, Inv, TypeOK, Records
        <5>2. CASE t.id < r.id
          BY <5>2, <3>3 DEF Trim, InitialSegment
        <5>3. CASE t.id = r.id
          BY <5>3, <3>3 DEF Inv, UniqueIds
        <5> QED
          BY <5>1, <5>2, <5>3
      <4> QED
        BY <3>1, <4>2, <4>3, <4>4
    <3> QED
      BY <3>2, <3>3
  <2> QED
    BY <2>1, <2>2 DEF Inv, Converges
<1> QED
  BY <1>1, <1>2 DEF Inv

(* Records without an effect come and go without deciding any entity. *)
LEMMA BadInv ==
    ASSUME Inv,
           \/ \E B \in SUBSET pending : DropBad(B)
           \/ \E r \in Aliens : Pollute(r)
    PROVE  Inv'
<1>1. TypeOK'
  BY RecordsAssumption DEF Inv, TypeOK, DropBad, Pollute
<1>2. UniqueIds'
  <2>1. CASE \E B \in SUBSET pending : DropBad(B)
    BY <2>1 DEF Inv, UniqueIds, DropBad
  <2>2. CASE \E r \in Aliens : Pollute(r)
    <3> SUFFICES ASSUME NEW r \in Aliens, Pollute(r),
                        NEW s \in pending', NEW t \in pending', s.id = t.id
                 PROVE  s = t
      BY <2>2 DEF UniqueIds
    <3>1. s.id \in Nat /\ t.id \in Nat
      BY RecordsAssumption DEF Inv, TypeOK, Pollute, Records
    <3> QED
      BY <3>1 DEF Inv, UniqueIds, Pollute
  <2> QED
    BY <2>1, <2>2
<1>3. \A k \in Entities, r \in pending : r \notin pending' => ~Touches(r, k)
  BY DEF DropBad, Pollute, Touches
<1>4. \A k \in Entities, r \in pending' : r \notin pending => ~Touches(r, k)
  BY RecordsAssumption DEF DropBad, Pollute, Touches
<1>5. UNCHANGED <<hash, ready, mysql, now>>
  BY DEF DropBad, Pollute
<1>6. Converges'
  <2> SUFFICES ASSUME ready, NEW k \in Entities
               PROVE  \/ (\A r \in pending' : ~Touches(r, k)) /\ Agrees(hash[k], mysql[k])
                      \/ \E r \in pending' : IsLast(r, pending', k) /\ Agrees(hash[k], Value(r))
    BY <1>5 DEF Converges, Agrees
  <2>1. CASE (\A r \in pending : ~Touches(r, k)) /\ Agrees(hash[k], mysql[k])
    BY <2>1, <1>4
  <2>2. CASE \E r \in pending : IsLast(r, pending, k) /\ Agrees(hash[k], Value(r))
    BY <2>2, <1>3, <1>4 DEF IsLast
  <2> QED
    BY <2>1, <2>2 DEF Inv, Converges
<1> QED
  BY <1>1, <1>2, <1>6 DEF Inv

(* The loss of the hot copy, its rebuild and the passage of time. *)
LEMMA CacheInv == ASSUME Inv, LoseCache \/ Rebuild \/ Tick PROVE Inv'
<1>1. CASE LoseCache
  BY <1>1 DEF LoseCache, Inv, TypeOK, UniqueIds, Converges
<1>2. CASE Rebuild
  <2>1. \A r \in pending, k \in Entities : ~Touches(r, k)
    BY <1>2 DEF Rebuild, Touches
  <2> QED
    BY <1>2, <2>1 DEF Rebuild, Inv, TypeOK, UniqueIds, Converges, Agrees
<1>3. CASE Tick
  <2>1. TypeOK' /\ UniqueIds'
    BY <1>3 DEF Tick, Inv, TypeOK, UniqueIds
  <2>2. \A h \in States, e \in States : Agrees(h, e) => Agrees(h, e)'
    <3>1. now \in Nat /\ now' \in Nat /\ now <= now'
      BY <1>3, TimesAssumption DEF Tick, Inv, TypeOK
    <3>2. \A e \in States : e \in Int
      BY TimesAssumption DEF States, Expiries, NoEntry
    <3> QED
      BY <3>1, <3>2 DEF Agrees, Expired
  <2>3. \A k \in Entities : hash[k] \in States /\ mysql[k] \in States
    BY DEF Inv, TypeOK
  <2>4. Converges'
    <3> SUFFICES ASSUME ready, NEW k \in Entities
                 PROVE  \/ (\A r \in pending : ~Touches(r, k)) /\ Agrees(hash[k], mysql[k])'
                        \/ \E r \in pending : IsLast(r, pending, k) /\ Agrees(hash[k], Value(r))'
      BY <1>3 DEF Converges, Tick
    <3>1. \A r \in pending : Value(r) \in States
      BY ValueType DEF Inv, TypeOK
    <3>2. hash' = hash /\ mysql' = mysql
      BY <1>3 DEF Tick
    <3> QED
      BY <2>2, <2>3, <3>1, <3>2 DEF Inv, Converges
  <2> QED
    BY <2>1, <2>4 DEF Inv
<1> QED
  BY <1>1, <1>2, <1>3

(* The write-behind store converges: in every reachable state with a ready   *)
(* cache, MySQL plus the pending records is the hash, up to expired entries. *)
THEOREM StoreConverges == Spec => [](TypeOK /\ Converges)
<1>1. Inv /\ [Next]_wbVars => Inv'
  <2> SUFFICES ASSUME Inv, [Next]_wbVars PROVE Inv'
    OBVIOUS
  <2>1. CASE \E B \in Batches : Mutate(B)
    BY <2>1, MutateInv
  <2>2. CASE \E B \in SUBSET pending : WriteBack(B)
    BY <2>2, WriteBackInv
  <2>3. CASE \E B \in SUBSET pending : Trim(B)
    BY <2>3, TrimInv
  <2>4. CASE \/ \E B \in SUBSET pending : DropBad(B)
             \/ \E r \in Aliens : Pollute(r)
    BY <2>4, BadInv
  <2>5. CASE \E S \in SUBSET Entities : Evict(S)
    BY <2>5, EvictInv
  <2>6. CASE LoseCache \/ Rebuild \/ Tick
    BY <2>6, CacheInv
  <2>7. CASE UNCHANGED wbVars
    BY <2>7 DEF wbVars, Inv, TypeOK, UniqueIds, Converges, Agrees
  <2> QED
    BY <2>1, <2>2, <2>3, <2>4, <2>5, <2>6, <2>7 DEF Next
<1>2. Inv => TypeOK /\ Converges
  BY DEF Inv
<1> QED
  BY InitInv, <1>1, <1>2, PTL DEF Spec
==============================================================================
