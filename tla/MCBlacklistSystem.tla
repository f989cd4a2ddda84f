-------------------------- MODULE MCBlacklistSystem --------------------------
(* Small instances of BlacklistSystem. *)
EXTENDS BlacklistSystem

CONSTANTS
    k1, k2,
    MaxEffort      \* bound on what happens around the server in one behaviour

(* Commands, requests, disturbances, failed calls and ticks have bounds of  *)
(* their own and this joint one, so that each combination of a few happens. *)
Within == commands + requests + events + (MaxFaults - faults) + (now - 1) <= MaxEffort
MCSpec == Init /\ [][Next /\ Within']_vars
MCFairSpec == MCSpec /\ WF_vars(ServerProgress) /\ WF_vars(TaskProgress)

OneKey == {k1}
TwoKeys == {k1, k2}
MCClients == {Server, Tool}
MCTimes == 1..2
NoRows == {Nothing}
OneRow == {[Nothing EXCEPT ![k1] = 2]}

Edits == {Upsert(k1, 0), Disable(k1)}
Resets == {ClearAll}
AllCommands == Edits \cup Resets
CrashEvents == {"crash", "loss", "peer"}
StopEvents == {"stop", "alien"}
NoEvents == {}
AllEvents == CrashEvents \cup StopEvents

Rec(i, m) == [id |-> i, op |-> m.op, key |-> m.key, exp |-> m.exp]
Exps == {0} \cup {t + TTL : t \in Times}
MaxId == 6
Single(i) == {{Rec(i, m)} : m \in {Upsert(k, e) : k \in Keys, e \in Exps}
                                 \cup {Disable(k) : k \in Keys} \cup {ClearAll}}
MCBatches == UNION {Single(i) : i \in 1..MaxId}
MCAliens == {Rec(i, Garbage) : i \in 1..MaxId}
==============================================================================
