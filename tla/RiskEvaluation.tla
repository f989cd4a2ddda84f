--------------------------- MODULE RiskEvaluation ----------------------------
(***************************************************************************)
(* RiskService::evaluate on the business threads, the feature store it     *)
(* updates, and the maintenance thread that reclaims cold states.          *)
(*                                                                         *)
(* A request reads the wall clock once and then takes the shard lock of    *)
(* its user, of its address and of its device, one after the other; each   *)
(* critical section is a step.  A key has a shard of its own: keys that    *)
(* share one are only further apart in time.  The log of the requests is   *)
(* both their progress and the history the properties refer to.            *)
(***************************************************************************)
EXTENDS SlidingWindows, LoginPolicy

CONSTANTS
    Users, Ips, Devices,
    UserWidth, DistinctWidth,       \* bucket widths of the two kinds of window
    UserTtl, DistinctTtl,           \* user_ttl_ms; ip_ttl_ms and device_ttl_ms
    Thresholds,                     \* LoginPolicyConfig
    Loads                           \* the bounds a behaviour may have: time, requests,
                                    \* inFlight (requests evaluated at the same time),
                                    \* lag (how long one takes at most), back (how often
                                    \* the wall clock steps back), reclaims (rounds),
                                    \* ages (how old a login may be when it is evaluated)

ASSUME RiskAssumption ==
    /\ {UserWidth, DistinctWidth} \subseteq Nat \ {0}
    /\ UserTtl >= Buckets * UserWidth /\ DistinctTtl >= Buckets * DistinctWidth
    /\ ValidThresholds(Thresholds)

VARIABLES
    max,                       \* the bounds of this behaviour
    now, back,                 \* the wall clock, and its steps back so far
    users, ips, devices,       \* the maps of the shards: key -> state
    log,                       \* the requests in the order in which they began
    outcome,                   \* what evaluate has just returned
    reclaim                    \* the reclaiming round: number, time, keys to visit

store == <<users, ips, devices>>
vars == <<max, now, back, users, ips, devices, log, outcome, reclaim>>

NoFeatures == [userFail |-> 0, ipDistinct |-> 0, ipFail |-> 0, deviceDistinct |-> 0]
NoOutcome == [action |-> "none", candidate |-> 0, request |-> 0]
Quiet == outcome' = NoOutcome
Nobody == [k \in {} |-> 0]
Idle == [round |-> 0, now |-> 0, todo |-> {}]

Init ==
    /\ max \in Loads /\ now = 0 /\ back = 0 /\ log = <<>> /\ reclaim = Idle
    /\ users = Nobody /\ ips = Nobody /\ devices = Nobody
    /\ outcome = NoOutcome

-----------------------------------------------------------------------------
InFlight == {r \in DOMAIN log : log[r].stage # "done"}

Tick ==
    /\ now < max.time /\ \A r \in InFlight : now - log[r].now < max.lag
    /\ now' = now + 1 /\ UNCHANGED <<back, store, log, reclaim>> /\ Quiet
StepBack ==
    /\ back < max.back /\ now > 0
    /\ now' = now - 1 /\ back' = back + 1 /\ UNCHANGED <<store, log, reclaim>> /\ Quiet

(* The validator only lets logins of the past through. *)
BeginRequest(u, i, d, fail, age) ==
    /\ Len(log) < max.requests /\ Cardinality(InFlight) < max.inFlight /\ age <= now
    /\ log' = Append(log, [user |-> u, ip |-> i, device |-> d, fail |-> fail, ts |-> now - age,
                           now |-> now, stage |-> "user", snap |-> NoFeatures])
    /\ UNCHANGED <<now, back, store, reclaim>> /\ Quiet

-----------------------------------------------------------------------------
WithinWindow(q, window) == q.ts <= q.now /\ q.now - q.ts < window
UserBucket(time) == BucketOf(time, UserWidth)
DistinctBucket(time) == BucketOf(time, DistinctWidth)

(* map with key k bound to v *)
With(map, k, v) == [x \in DOMAIN map \cup {k} |-> IF x = k THEN v ELSE map[x]]

(* updateUser.  A success only reads, and no state is made for it. *)
UserStateStaleSeen(q) ==
    LET old == IF q.user \in DOMAIN users THEN users[q.user]
               ELSE [counter |-> NewCounter, seen |-> q.now]
    IN  [old EXCEPT !.counter = CounterAdd(@, UserBucket(q.ts), UserBucket(q.now))]
UserState(q) ==
    LET old == IF q.user \in DOMAIN users THEN users[q.user].counter ELSE NewCounter
    IN  [counter |-> CounterAdd(old, UserBucket(q.ts), UserBucket(q.now)), seen |-> q.now]
UpdateUser(r) ==
    LET q == log[r]
        counts == q.fail /\ WithinWindow(q, Buckets * UserWidth)
        state == IF counts THEN UserState(q)
                 ELSE [users[q.user] EXCEPT !.counter = CounterExpire(@, UserBucket(q.now))]
    IN  /\ q.stage = "user"
        /\ IF counts \/ q.user \in DOMAIN users
           THEN /\ users' = With(users, q.user, state)
                /\ log' = [log EXCEPT ![r].stage = "ip",
                                      ![r].snap.userFail = state.counter.total]
           ELSE log' = [log EXCEPT ![r].stage = "ip"] /\ UNCHANGED users
        /\ UNCHANGED <<now, back, ips, devices, reclaim>> /\ Quiet

(* updateIp: the failing users of an address, and its failures. *)
IpState(q, counts) ==
    LET b == DistinctBucket(q.now)
        old == IF q.ip \in DOMAIN ips THEN ips[q.ip]
               ELSE [distinct |-> NewDistinct, counter |-> NewCounter, seen |-> q.now]
    IN  IF counts
        THEN [distinct |-> DistinctAdd(old.distinct, q.user, DistinctBucket(q.ts), b),
              counter |-> CounterAdd(old.counter, DistinctBucket(q.ts), b), seen |-> q.now]
        ELSE [old EXCEPT !.distinct = DistinctExpire(@, b), !.counter = CounterExpire(@, b)]
UpdateIp(r) ==
    LET q == log[r]
        counts == q.fail /\ WithinWindow(q, Buckets * DistinctWidth)
        state == IpState(q, counts)
    IN  /\ q.stage = "ip"
        /\ IF counts \/ q.ip \in DOMAIN ips
           THEN /\ ips' = With(ips, q.ip, state)
                /\ log' = [log EXCEPT ![r].stage = "device",
                                      ![r].snap.ipDistinct = DistinctCount(state.distinct),
                                      ![r].snap.ipFail = state.counter.total]
           ELSE log' = [log EXCEPT ![r].stage = "device"] /\ UNCHANGED ips
        /\ UNCHANGED <<now, back, users, devices, reclaim>> /\ Quiet

(* updateDevice: all accounts that use a device, whatever the result. *)
DeviceState(q, counts) ==
    LET b == DistinctBucket(q.now)
        old == IF q.device \in DOMAIN devices THEN devices[q.device]
               ELSE [distinct |-> NewDistinct, seen |-> q.now]
    IN  IF counts
        THEN [distinct |-> DistinctAdd(old.distinct, q.user, DistinctBucket(q.ts), b), seen |-> q.now]
        ELSE [old EXCEPT !.distinct = DistinctExpire(@, b)]
UpdateDevice(r) ==
    LET q == log[r]
        counts == WithinWindow(q, Buckets * DistinctWidth)
        state == DeviceState(q, counts)
    IN  /\ q.stage = "device"
        /\ IF counts \/ q.device \in DOMAIN devices
           THEN /\ devices' = With(devices, q.device, state)
                /\ log' = [log EXCEPT ![r].stage = "decide",
                                      ![r].snap.deviceDistinct = DistinctCount(state.distinct)]
           ELSE log' = [log EXCEPT ![r].stage = "decide"] /\ UNCHANGED devices
        /\ UNCHANGED <<now, back, users, ips, reclaim>> /\ Quiet

(* The rest of evaluate: the snapshot of the blacklist, whatever it says,   *)
(* the policy chain and the candidate.  What is no longer needed of the     *)
(* request is forgotten.                                                    *)
Decide(r, matches) ==
    LET q == log[r]
    IN  /\ q.stage = "decide"
        /\ log' = [log EXCEPT ![r].stage = "done", ![r].snap = NoFeatures, ![r].now = q.ts]
        /\ outcome' = [action |-> Evaluate(q.snap, matches, Thresholds).action, request |-> r,
                       candidate |-> CandidateExpiry(q.snap, matches, Thresholds, q.now)]
        /\ UNCHANGED <<now, back, store, reclaim>>

-----------------------------------------------------------------------------
(* reclaimColdStates: one clock reading, then shard after shard. *)
Keys == ({"user"} \X Users) \cup ({"ip"} \X Ips) \cup ({"device"} \X Devices)
Expired(seen, ttl) == reclaim.now >= seen /\ reclaim.now - seen >= ttl
Reclaimed(map, ttl, k) ==
    IF k \in DOMAIN map /\ Expired(map[k].seen, ttl)
    THEN Restrict(map, DOMAIN map \ {k}) ELSE map
BeginReclaim ==
    /\ reclaim.todo = {} /\ reclaim.round < max.reclaims
    /\ reclaim' = [round |-> reclaim.round + 1, now |-> now, todo |-> Keys]
    /\ UNCHANGED <<now, back, store, log>> /\ Quiet
ReclaimShard(k) ==
    /\ k \in reclaim.todo
    /\ reclaim' = [reclaim EXCEPT !.todo = @ \ {k}]
    /\ users' = IF k[1] = "user" THEN Reclaimed(users, UserTtl, k[2]) ELSE users
    /\ ips' = IF k[1] = "ip" THEN Reclaimed(ips, DistinctTtl, k[2]) ELSE ips
    /\ devices' = IF k[1] = "device" THEN Reclaimed(devices, DistinctTtl, k[2]) ELSE devices
    /\ UNCHANGED <<now, back, log>> /\ Quiet

(* The keys are visited in the order users, addresses, devices. *)
Rank(k) == CASE k[1] = "user" -> 1 [] k[1] = "ip" -> 2 [] k[1] = "device" -> 3
NextShard == CHOOSE k \in reclaim.todo : \A o \in reclaim.todo : Rank(k) <= Rank(o)

Next ==
    /\ UNCHANGED max
    /\ \/ Tick \/ StepBack \/ BeginReclaim
       \/ \E u \in Users, i \in Ips, d \in Devices, fail \in BOOLEAN, age \in max.ages :
             BeginRequest(u, i, d, fail, age)
       \/ \E r \in DOMAIN log : UpdateUser(r) \/ UpdateIp(r) \/ UpdateDevice(r)
       \/ \E r \in DOMAIN log, matches \in {{}, {"user"}} : Decide(r, matches)
       \/ reclaim.todo # {} /\ ReclaimShard(NextShard)

Spec == Init /\ [][Next]_vars

-----------------------------------------------------------------------------
(* The history of the store: requests that have passed a stage. *)
Order == [user |-> 1, ip |-> 2, device |-> 3, decide |-> 4, done |-> 5]
Past(q, stage) == Order[q.stage] > Order[stage]
Failures(stage) == {r \in DOMAIN log : log[r].fail /\ Past(log[r], stage)}
UserFailures(q) ==
    {r \in Failures("user") : log[r].user = q.user /\ InWindow(UserBucket(log[r].ts), UserBucket(q.now))}
IpFailures(q) ==
    {r \in Failures("ip") : log[r].ip = q.ip /\ InWindow(DistinctBucket(log[r].ts), DistinctBucket(q.now))}
DeviceLogins(q) ==
    {r \in DOMAIN log : /\ Past(log[r], "device") /\ log[r].device = q.device
                        /\ InWindow(DistinctBucket(log[r].ts), DistinctBucket(q.now))}
TrueFeatures(q) ==
    [userFail |-> Cardinality(UserFailures(q)), ipFail |-> Cardinality(IpFailures(q)),
     ipDistinct |-> Cardinality({log[r].user : r \in IpFailures(q)}),
     deviceDistinct |-> Cardinality({log[r].user : r \in DeviceLogins(q)})]

(* Type invariant, with the hard limit on the members of a window. *)
TypeOK ==
    /\ max \in Loads /\ now \in 0..max.time /\ back \in 0..max.back
    /\ DOMAIN users \subseteq Users /\ DOMAIN ips \subseteq Ips /\ DOMAIN devices \subseteq Devices
    /\ \A i \in DOMAIN ips : DOMAIN ips[i].distinct.seen \subseteq Users
                              /\ DistinctCount(ips[i].distinct) <= MaxMembers
    /\ \A d \in DOMAIN devices : DistinctCount(devices[d].distinct) <= MaxMembers
    /\ reclaim.todo \subseteq Keys /\ outcome.candidate \in 0..MaxExpireAt
    /\ outcome.action \in {"none", "pass", "review", "reject"}

(* The variables keep their types, and no interleaving, late login or clock *)
(* step makes a request see more than what really happened in its window:   *)
(* nobody is reviewed, rejected or proposed for the blacklist for failures  *)
(* that did not take place.                                                 *)
NeverOvercounted ==
    /\ TypeOK
    /\ \A r \in {x \in InFlight : log[x].stage # "user"} :
          LET true == TrueFeatures(log[r])
          IN  \A f \in DOMAIN true : log[r].snap[f] <= true[f]

(* An address is proposed for the blacklist only together with a verdict    *)
(* that rejects, only when its history, as it really happened, satisfies    *)
(* the stuffing rule, and for a time still to come.                         *)
ProposedOnlyGuilty ==
    [][outcome'.candidate # 0 =>
          LET q == log[outcome'.request]
          IN  /\ outcome'.action = "reject" /\ outcome'.candidate > q.now
              /\ Stuffing(TrueFeatures(q), Thresholds)]_vars

(* When requests are evaluated one at a time, the clock has not stepped     *)
(* back and a window has room for every account, the features are exactly   *)
(* those of the history, the request itself included: the N-th failure is   *)
(* the one that gets the verdict.                                           *)
ExactWhenSerial ==
    (max.inFlight = 1 /\ back = 0 /\ Cardinality({log[r].user : r \in DOMAIN log}) <= MaxMembers) =>
        \A r \in DOMAIN log : log[r].stage = "decide" => log[r].snap = TrueFeatures(log[r])

(* Reclaiming never removes a state that still counts something: the last   *)
(* use may be written by a slower request with an older clock reading, but  *)
(* a lifetime exceeds the window by more than a request takes (the default  *)
(* ones by a whole window).                                                 *)
ReclaimKeepsLive ==
    [][/\ \A u \in DOMAIN users \ DOMAIN users' :
             StaleSlots(users[u].counter, UserBucket(reclaim.now))
                 = {s \in Slot : users[u].counter.slots[s].occupied}
       /\ \A i \in DOMAIN ips \ DOMAIN ips' :
             \A m \in DOMAIN ips[i].distinct.seen :
                 ips[i].distinct.seen[m] < MinBucket(DistinctBucket(reclaim.now))]_vars

==============================================================================
