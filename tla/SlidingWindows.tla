--------------------------- MODULE SlidingWindows ----------------------------
(***************************************************************************)
(* The two sliding windows of the feature store as values: SlidingCounter, *)
(* a ring of Buckets counters with their sum, and SlidingDistinct, the     *)
(* latest bucket of each member with a heap of expiry nodes.  Operators    *)
(* take bucket numbers; BucketOf turns a time into one.                    *)
(***************************************************************************)
EXTENDS Integers, FiniteSets, FiniteSetsExt, Functions

CONSTANTS
    Buckets,       \* buckets of a window (60 in the code)
    MaxMembers     \* kDistinctMaxMembers

ASSUME WindowAssumption == Buckets \in Nat \ {0} /\ MaxMembers \in Nat \ {0}

BucketOf(time, width) == time \div width

(* The oldest bucket of the window that ends with bucket b. *)
MinBucket(b) == IF b < Buckets - 1 THEN 0 ELSE b - Buckets + 1
InWindow(bucket, b) == MinBucket(b) <= bucket /\ bucket <= b

-----------------------------------------------------------------------------
Slot == 0..(Buckets - 1)
EmptySlot == [id |-> 0, count |-> 0, occupied |-> FALSE]
NewCounter == [slots |-> [i \in Slot |-> EmptySlot], total |-> 0]

(* expire: slots before the window and, after a clock step back, behind it. *)
StaleSlotsPastOnly(c, b) == {i \in Slot : c.slots[i].occupied /\ c.slots[i].id < MinBucket(b)}
StaleSlots(c, b) == {i \in Slot : c.slots[i].occupied /\ ~InWindow(c.slots[i].id, b)}
CountOf(c, S) == MapThenSumSet(LAMBDA i : c.slots[i].count, S)
CounterExpire(c, b) ==
    [slots |-> [i \in Slot |-> IF i \in StaleSlots(c, b) THEN EmptySlot ELSE c.slots[i]],
     total |-> c.total - CountOf(c, StaleSlots(c, b))]

CounterAdd(c, event, b) ==
    LET e == CounterExpire(c, b)
        i == event % Buckets
        s == e.slots[i]
        fresh == ~s.occupied \/ s.id # event
    IN  IF event > b \/ b - event >= Buckets THEN e
        ELSE [slots |-> [e.slots EXCEPT ![i] = [id |-> event, occupied |-> TRUE,
                                                count |-> IF fresh THEN 1 ELSE s.count + 1]],
              total |-> (IF fresh THEN e.total - s.count ELSE e.total) + 1]

-----------------------------------------------------------------------------
NoMembers == [m \in {} |-> 0]
NewDistinct == [seen |-> NoMembers, heap |-> {}, started |-> FALSE, last |-> 0]

(* expire: a step back of the bucket clears all; otherwise expiry nodes     *)
(* leave the heap, and a member leaves with the node of its latest bucket.  *)
DistinctExpireAnyNode(d, b) ==
    LET back == d.started /\ b < d.last
        seen == IF back THEN NoMembers ELSE d.seen
        heap == IF back THEN {} ELSE d.heap
        popped == {e \in heap : e.bucket < MinBucket(b)}
        gone == {m \in DOMAIN seen : \E e \in popped : e.member = m}
    IN  [seen |-> Restrict(seen, DOMAIN seen \ gone), heap |-> heap \ popped,
         started |-> TRUE, last |-> b]
DistinctExpire(d, b) ==
    LET back == d.started /\ b < d.last
        seen == IF back THEN NoMembers ELSE d.seen
        heap == IF back THEN {} ELSE d.heap
        popped == {e \in heap : e.bucket < MinBucket(b)}
        gone == {m \in DOMAIN seen : [member |-> m, bucket |-> seen[m]] \in popped}
    IN  [seen |-> Restrict(seen, DOMAIN seen \ gone), heap |-> heap \ popped,
         started |-> TRUE, last |-> b]

Refresh(d, m, event) ==
    [d EXCEPT !.seen = [x \in DOMAIN @ \cup {m} |-> IF x = m THEN event ELSE @[x]],
              !.heap = @ \cup {[member |-> m, bucket |-> event]}]
DistinctAdd(d, m, event, b) ==
    LET e == DistinctExpire(d, b)
    IN  CASE ~InWindow(event, b) -> e
          [] InWindow(event, b) /\ m \in DOMAIN e.seen ->
                IF event <= e.seen[m] THEN e ELSE Refresh(e, m, event)
          [] OTHER ->
                IF Cardinality(DOMAIN e.seen) >= MaxMembers THEN e ELSE Refresh(e, m, event)
DistinctCount(d) == Cardinality(DOMAIN d.seen)
==============================================================================
