--------------------------- MODULE MCBlacklistParts ---------------------------
(* Small instances of the candidate queue, with permanent and finite        *)
(* expiries, a batch smaller than the capacity and saturating counters, and *)
(* of the write-behind contract, with single mutations and one two-record   *)
(* batch per id.  The two share nothing: a behaviour is one of the queue or *)
(* one of the contract, and leaves the other where it began.                *)
EXTENDS CandidateQueue, WriteBehind

CONSTANTS k1, k2, MaxId

VARIABLE part

MCKeys == {k1, k2}
MCCandidates == [key : MCKeys, exp : {0, 1, 2}]
MCTimes == {1, 2}
Rec(i, o, k, e) == [id |-> i, op |-> o, key |-> k, exp |-> e]
MCBatches ==
    {{Rec(i, "upsert", k, e)} : i \in 1..MaxId, k \in MCKeys, e \in {0, 2}}
    \cup {{Rec(i, "disable", k, 0)} : i \in 1..MaxId, k \in MCKeys}
    \cup {{Rec(i, "clear", k1, 0)} : i \in 1..MaxId}
    \cup {{Rec(i, "upsert", k1, 2), Rec(i + 1, "upsert", k2, 2)} : i \in 1..(MaxId - 1)}
MCAliens == {Rec(i, "bad", k1, 0) : i \in 1..MaxId}

Empty == [k \in Entities |-> NoEntry]
MCInit ==
    /\ part \in {"queue", "contract"}
    /\ CountedInit /\ Init
    /\ part = "queue" => hash = Empty /\ mysql = Empty /\ ready /\ now = 1
MCNext ==
    /\ \/ part = "queue" /\ QueueNext /\ UNCHANGED wbVars
       \/ part = "contract" /\ Next /\ UNCHANGED queueVars
    /\ UNCHANGED part
MCSpec == MCInit /\ [][MCNext]_<<queueVars, wbVars, part>>
==============================================================================
