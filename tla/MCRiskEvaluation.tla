-------------------------- MODULE MCRiskEvaluation ---------------------------
(***************************************************************************)
(* A small instance of the risk evaluation, with thresholds that few       *)
(* requests reach and four kinds of load, and the policy chain by itself   *)
(* over every valid configuration with thresholds up to 2.                 *)
(***************************************************************************)
EXTENDS RiskEvaluation, TLC

Symmetry == Permutations(Users)

LowThresholds == [userFail |-> 2, ipSpray |-> 2, deviceShare |-> 2, ipReject |-> 2, ipFailReject |-> 3]

Load(time, requests, inFlight, lag, steps, reclaims, ages) ==
    [time |-> time, requests |-> requests, inFlight |-> inFlight, lag |-> lag,
     back |-> steps, reclaims |-> reclaims, ages |-> ages]
MCLoads == {Load(4, 3, 1, 0, 0, 0, {0, 1}), Load(2, 2, 2, 1, 1, 0, {0, 1}),
            Load(1, 3, 2, 1, 0, 0, {0, 1}), Load(3, 2, 2, 1, 0, 1, {0})}

-----------------------------------------------------------------------------
Threshold == 1..2
Configs ==
    {k \in [userFail : Threshold, ipSpray : Threshold, deviceShare : Threshold,
            ipReject : Threshold, ipFailReject : Threshold] : ValidThresholds(k)}
FeatureSets == [userFail : 0..2, ipDistinct : 0..2, ipFail : 0..2, deviceDistinct : 0..2]
AllMatches == SUBSET {"user", "ip", "device"}
AtMost(f, g) == \A x \in DOMAIN f : f[x] <= g[x]

(* More failures, more accounts or another match never soften the verdict   *)
(* of the chain and never lower its score; it is enough to look at one step *)
(* of one feature or one match.                                             *)
ASSUME NeverSofter ==
    \A k \in Configs, f \in FeatureSets, m \in AllMatches :
        LET d == Evaluate(f, m, k)
            Harder(e) == Severity(e.action) >= Severity(d.action) /\ e.score >= d.score
        IN  /\ \A x \in DOMAIN f : Harder(Evaluate([f EXCEPT ![x] = @ + 1], m, k))
            /\ \A y \in {"user", "ip", "device"} : Harder(Evaluate(f, m \cup {y}, k))

(* A valid configuration leaves no gap: what the stuffing rule rejects the  *)
(* spray rule reviews, and full windows make every rule fire.               *)
ASSUME NoGap ==
    \A k \in Configs, f \in FeatureSets :
        /\ Stuffing(f, k) => f.ipDistinct >= k.ipSpray
        /\ AtMost([x \in DOMAIN f |-> 2], f) => Len(PolicyHits(f, {}, k)) = 4
==============================================================================
