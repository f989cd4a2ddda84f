---------------------------- MODULE BlacklistStore ----------------------------
(***************************************************************************)
(* The two stores of the blacklist and the operations the code performs on *)
(* them (classes BlacklistRedisStore and MysqlDao), one definition per     *)
(* operation, to be used as a conjunct by the processes that call it.      *)
(*                                                                         *)
(* A Redis transaction is two steps of its client: WATCH with the reads    *)
(* that follow it, and EXEC.  Every write of another client to a watched   *)
(* key in between makes EXEC fail, as in Redis.  The three typed hashes    *)
(* are one function from entities to expiries and one key to watch.        *)
(***************************************************************************)
EXTENDS Integers, Sequences, FiniteSets, SequencesExt

CONSTANTS
    Keys,       \* entities: (type, id) pairs
    Clients,    \* connections to Redis
    ReadCount   \* blacklist.batch_size: records per XRANGE

ASSUME StoreAssumption == Keys # {} /\ ReadCount \in Nat \ {0}

VARIABLES
    redis,      \* the Redis keys, see RedisType
    watch,      \* client -> what it watches and whether that was modified
    mysql,      \* entity -> expiry of its enabled row, or NoEntry
    now,        \* the wall clock, in abstract milliseconds
    faults      \* how many more remote calls may fail (bounds the failures)

storeVars == <<redis, watch, mysql, now, faults>>

NoEntry == -1
AnyKey == CHOOSE k \in Keys : TRUE

(* BlacklistEntry expiry: 0 is permanent, anything else an instant. *)
Expired(e, t) == e > 0 /\ e <= t
Listed(e, t) == e # NoEntry /\ ~Expired(e, t)
Nothing == [k \in Keys |-> NoEntry]

Upsert(k, e) == [op |-> "upsert", key |-> k, exp |-> e]
Disable(k) == [op |-> "disable", key |-> k, exp |-> 0]
ClearAll == [op |-> "clear", key |-> AnyKey, exp |-> 0]
Garbage == [op |-> "bad", key |-> AnyKey, exp |-> 0]

-----------------------------------------------------------------------------
(* WATCH, and what a write by client c to the keys ks does to the others. *)
NoWatch == [keys |-> {}, dirty |-> FALSE]
Watch(c, ks) == watch' = [watch EXCEPT ![c] = [keys |-> ks, dirty |-> FALSE]]
Unwatch(c) == watch' = [watch EXCEPT ![c] = NoWatch]
Writes(c, ks) ==
    watch' = [d \in Clients |->
        IF d = c THEN NoWatch
        ELSE [watch[d] EXCEPT !.dirty = @ \/ watch[d].keys \cap ks # {}]]
Conflict(c) == watch[c].dirty

(* A remote call is answered, or fails at the cost of one fault. *)
Answered == UNCHANGED faults
Fails == faults > 0 /\ faults' = faults - 1
Reply(ok) == IF ok THEN Answered ELSE Fails

-----------------------------------------------------------------------------
(* applyMutations *)
HashAfter(h, m) ==
    CASE m.op = "upsert"  -> [h EXCEPT ![m.key] = m.exp]
      [] m.op = "disable" -> [h EXCEPT ![m.key] = NoEntry]
      [] m.op = "clear"   -> Nothing
Stamp(ms) == [i \in DOMAIN ms |->
    [id |-> redis.lastId + i, op |-> ms[i].op, key |-> ms[i].key, exp |-> ms[i].exp]]

ApplyWatched == {"cache_ready", "pending", "revision", "hash"}
ApplyPrecondition == redis.ready
ApplyCommit(c, ms) ==
    /\ redis' = [redis EXCEPT
          !.hash = FoldLeft(HashAfter, @, ms),
          !.pending = @ \o Stamp(ms),
          !.lastId = @ + Len(ms),
          !.revision = @ + 1]
    /\ Writes(c, {"hash", "pending", "revision"})

(* readPending and deletePending *)
PendingBatch == SubSeq(redis.pending, 1,
    IF ReadCount <= Len(redis.pending) THEN ReadCount ELSE Len(redis.pending))
Ids(records) == {records[i].id : i \in DOMAIN records}
DeletePending(c, ids) ==
    /\ redis' = [redis EXCEPT !.pending = SelectSeq(@, LAMBDA r : r.id \notin ids)]
    /\ Writes(c, IF Ids(redis.pending) \cap ids = {} THEN {} ELSE {"pending"})

(* removeExpiredFields: rev and scanned are what the caller's scan saw. *)
RemoveWatched == {"revision", "hash"}
RemovePrecondition(rev, scanned, t) ==
    /\ redis.revision = rev
    /\ \A k \in DOMAIN scanned :
          redis.hash[k] = scanned[k] /\ Expired(redis.hash[k], t)
RemoveCommit(c, ks) ==
    /\ redis' = [redis EXCEPT
          !.hash = [k \in Keys |-> IF k \in ks THEN NoEntry ELSE redis.hash[k]],
          !.revision = @ + 1]
    /\ Writes(c, {"hash", "revision"})

(* setPublishedRevision *)
SetPublishedCurrent(c, rev) ==
    /\ redis' = [redis EXCEPT !.published = redis.revision]
    /\ Writes(c, {"published_revision"})
SetPublished(c, rev) ==
    /\ redis' = [redis EXCEPT !.published = rev]
    /\ Writes(c, {"published_revision"})

(* requestResetBarrier, readResetBarrier, completeResetBarrier *)
RequestBarrier(c) ==
    /\ redis' = [redis EXCEPT !.requested = @ + 1]
    /\ Writes(c, {"reset_barrier"})
ResetPending == redis.requested > redis.completed
BarrierWatched == {"reset_barrier"}
CompletePrecondition(token) ==
    redis.completed <= token /\ token <= redis.requested
CompleteBarrier(c, token) ==
    /\ redis' = [redis EXCEPT !.completed = token]
    /\ Writes(c, {"reset_barrier"})

(* rebuildFromMysql: rows are what loadEnabledBlacklists returned. *)
RebuildWatched == {"cache_ready", "revision", "hash"}
RebuildCommit(c, rows) ==
    /\ redis' = [redis EXCEPT !.hash = rows, !.revision = @ + 1, !.ready = TRUE]
    /\ Writes(c, {"hash", "revision", "cache_ready"})

-----------------------------------------------------------------------------
(* MysqlDao.  applyBlacklistMutations runs the statements of one transaction *)
(* in the order given; an UPSERT enables the row with its expiry, a DISABLE  *)
(* or CLEAR_ALL leaves rows that are not enabled.                            *)
RowsAfter(rows, m) ==
    [k \in Keys |->
        IF m.op = "upsert" /\ m.key = k THEN m.exp
        ELSE IF m.op = "clear" \/ (m.op = "disable" /\ m.key = k) THEN NoEntry
        ELSE rows[k]]
MysqlApply(ms) == mysql' = FoldLeft(RowsAfter, mysql, ms)
LoadEnabled == [k \in Keys |-> IF Listed(mysql[k], now) THEN mysql[k] ELSE NoEntry]
NoneEnabled == mysql = Nothing

-----------------------------------------------------------------------------
RedisType ==
    [hash : [Keys -> Int], pending : Seq([id : Nat, op : {"upsert", "disable",
        "clear", "bad"}, key : Keys, exp : Nat]), lastId : Nat,
     revision : Nat, ready : BOOLEAN, published : Nat,
     requested : Nat, completed : Nat]
==============================================================================
