----------------------------- MODULE WriteBehind -----------------------------
(***************************************************************************)
(* What the blacklist storage promises, without its clients, transactions  *)
(* or failures: Redis is the hot copy, MySQL the durable one, and every    *)
(* mutation of the hot copy leaves a record in the pending Stream until    *)
(* MySQL holds its effect.                                                 *)
(*                                                                         *)
(* The Stream is the set of its records; a record's id gives its place.    *)
(* No operator here folds over a sequence: what a batch of records does to *)
(* an entity is what the last record that touches it says.                 *)
(***************************************************************************)
EXTENDS Integers

CONSTANTS
    Entities,   \* what may be blacklisted: (type, id) pairs
    Times,      \* instants, in milliseconds; also the finite expiries
    Batches,    \* the sets of records one transaction may append
    Aliens      \* records in the Stream that no client of the code wrote

NoEntry == -1
Expiries == {0} \cup Times
States == Expiries \cup {NoEntry}
Records == [id : Nat, op : {"upsert", "disable", "clear", "bad"},
            key : Entities, exp : Expiries]

ASSUME TimesAssumption == Times \subseteq Nat \ {0}
ASSUME RecordsAssumption ==
    /\ \A B \in Batches : B \subseteq Records
    /\ \A r \in Aliens : r \in Records /\ r.op = "bad"

VARIABLES
    hash,       \* Redis: entity -> expiry, 0 permanent, NoEntry absent
    pending,    \* Redis: the records of the pending Stream
    ready,      \* Redis: cache_ready
    mysql,      \* MySQL: entity -> expiry of its enabled row, or NoEntry
    now         \* the wall clock

wbVars == <<hash, pending, ready, mysql, now>>

(* An entry expires at its expiry; a permanent or absent one never does. *)
Expired(e, t) == e > 0 /\ e <= t

Touches(r, k) == r.op = "clear" \/ (r.op \in {"upsert", "disable"} /\ r.key = k)
Value(r) == IF r.op = "upsert" THEN r.exp ELSE NoEntry
IsLast(r, B, k) ==
    /\ r \in B /\ Touches(r, k)
    /\ \A s \in B : Touches(s, k) => s.id <= r.id

(* g is f after the records of B were applied in the order of their ids. *)
Replays(f, B, g) ==
    \A k \in Entities :
        \/ (\A r \in B : ~Touches(r, k)) /\ g[k] = f[k]
        \/ \E r \in B : IsLast(r, B, k) /\ g[k] = Value(r)

(* B is what a read from the start of the Stream returns. *)
InitialSegment(B) ==
    /\ B \subseteq pending
    /\ \A r \in pending, s \in B : r.id < s.id => r \in B

(* MySQL holds the effect of every record of B. *)
Durable(B) ==
    \A k \in Entities :
        \/ \A r \in B : ~Touches(r, k)
        \/ \E r \in B : IsLast(r, B, k) /\ mysql[k] = Value(r)

Init ==
    /\ hash \in [Entities -> States]
    /\ mysql \in [Entities -> States]
    /\ pending = {}
    /\ ready \in BOOLEAN
    /\ ready => hash = mysql
    /\ now \in Times

(* One atomic transaction changes the hash and appends its records. *)
Mutate(B) ==
    /\ ready
    /\ pending' = pending \cup B
    /\ \A r \in B, s \in pending : s.id < r.id
    /\ \A r, s \in B : r.id = s.id => r = s
    /\ hash' \in [Entities -> States] /\ Replays(hash, B, hash')
    /\ UNCHANGED <<ready, mysql, now>>

(* Expired entries leave the hash without a record. *)
Evict(S) ==
    /\ \A k \in S : Expired(hash[k], now)
    /\ hash' = [k \in Entities |-> IF k \in S THEN NoEntry ELSE hash[k]]
    /\ UNCHANGED <<pending, ready, mysql, now>>

(* One MySQL transaction applies the oldest records. *)
WriteBack(B) ==
    /\ UNCHANGED <<hash, pending, ready, now>>
    /\ InitialSegment(B)
    /\ mysql' \in [Entities -> States] /\ Replays(mysql, B, mysql')

(* Records whose effect is durable, or that have none, leave the Stream. *)
TrimEarly(B) ==
    /\ pending' = pending \ B
    /\ InitialSegment(B)
    /\ UNCHANGED <<hash, ready, mysql, now>>
Trim(B) ==
    /\ pending' = pending \ B
    /\ InitialSegment(B) /\ Durable(B)
    /\ UNCHANGED <<hash, ready, mysql, now>>

DropBad(B) ==
    /\ \A r \in B : r.op = "bad"
    /\ pending' = pending \ B
    /\ UNCHANGED <<hash, ready, mysql, now>>

(* A record that no client of the code wrote appears in the Stream. *)
Pollute(r) ==
    /\ pending' = pending \cup {r}
    /\ \A s \in pending : s.id < r.id
    /\ UNCHANGED <<hash, ready, mysql, now>>

(* The hot copy is lost, and later rebuilt from MySQL once no mutation     *)
(* pends.                                                                  *)
LoseCache ==
    /\ ready' = FALSE
    /\ hash' \in [Entities -> States]
    /\ UNCHANGED <<pending, mysql, now>>

Rebuild ==
    /\ ~ready /\ \A r \in pending : r.op = "bad"
    /\ ready' = TRUE
    /\ hash' \in [Entities -> States]
    /\ \A k \in Entities : \/ hash'[k] = mysql[k]
                           \/ hash'[k] = NoEntry /\ Expired(mysql[k], now)
    /\ UNCHANGED <<pending, mysql, now>>

Tick ==
    /\ now' \in Times /\ now' >= now
    /\ UNCHANGED <<hash, pending, ready, mysql>>

Next ==
    \/ \E B \in Batches : Mutate(B)
    \/ \E B \in SUBSET pending : WriteBack(B) \/ Trim(B) \/ DropBad(B)
    \/ \E S \in SUBSET Entities : Evict(S)
    \/ \E r \in Aliens : Pollute(r)
    \/ LoseCache \/ Rebuild \/ Tick

Spec == Init /\ [][Next]_wbVars

-----------------------------------------------------------------------------
(* Type invariant. *)
TypeOK ==
    /\ hash \in [Entities -> States] /\ mysql \in [Entities -> States]
    /\ pending \in SUBSET Records
    /\ ready \in BOOLEAN /\ now \in Times

(* Two records of the Stream never share an id. *)
UniqueIds == \A r, s \in pending : r.id = s.id => r = s

(* The value e of the durable side is what the hash may show as h: the same *)
(* value, or nothing once e has expired.                                    *)
Agrees(h, e) == h = e \/ (h = NoEntry /\ Expired(e, now))

(* While the cache is ready, MySQL with the pending records replayed over it *)
(* is the hash, except for entries that were removed because they expired:   *)
(* no mutation is lost, and a replay of records MySQL already holds changes  *)
(* nothing (applyMutations, flushOnePendingBatch, removeExpiredFields and    *)
(* initializeBlacklistCache together).                                       *)
Converges ==
    ready => \A k \in Entities :
        \/ (\A r \in pending : ~Touches(r, k)) /\ Agrees(hash[k], mysql[k])
        \/ \E r \in pending : IsLast(r, pending, k) /\ Agrees(hash[k], Value(r))
==============================================================================
