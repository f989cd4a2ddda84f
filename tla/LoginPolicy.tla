----------------------------- MODULE LoginPolicy -----------------------------
(***************************************************************************)
(* The login policy chain and the generator of blacklist candidates as     *)
(* functions of the features f, the blacklist matches (a set of "user",    *)
(* "ip", "device") and the thresholds k.                                   *)
(***************************************************************************)
EXTENDS Integers, Sequences, SequencesExt

CONSTANTS
    MemberCapacity,      \* kDistinctMaxMembers
    CandidateTtl,        \* kTemporaryIpTtlMs
    MaxExpireAt          \* kMaxExpireAtMs

ASSUME PolicyAssumption ==
    /\ MemberCapacity \in Nat \ {0} /\ CandidateTtl \in Nat \ {0}
    /\ MaxExpireAt \in Nat /\ CandidateTtl <= MaxExpireAt

RejectScore == 100
ReviewScore == 30

(* validateLoginPolicyConfig *)
ValidThresholds(k) ==
    /\ \A t \in {k.userFail, k.ipSpray, k.deviceShare, k.ipReject, k.ipFailReject} : t > 0
    /\ k.ipReject >= k.ipSpray
    /\ \A t \in {k.ipSpray, k.deviceShare, k.ipReject} : t <= MemberCapacity

(* The five evaluations in their fixed order, each with its condition. *)
Stuffing(f, k) == f.ipDistinct >= k.ipReject /\ f.ipFail >= k.ipFailReject
Hit(reason, action) ==
    [reason |-> reason, action |-> action,
     score |-> IF action = "reject" THEN RejectScore ELSE ReviewScore]
Rules(f, matches, k) ==
    << <<"user" \in matches, Hit("blacklisted_user", "reject")>>,
       <<"ip" \in matches, Hit("blacklisted_ip", "reject")>>,
       <<"device" \in matches, Hit("blacklisted_device", "reject")>>,
       <<Stuffing(f, k), Hit("credential_stuffing_attack", "reject")>>,
       <<f.userFail >= k.userFail, Hit("too_many_failed_login", "review")>>,
       <<f.ipDistinct >= k.ipSpray, Hit("ip_many_users_failed_login", "review")>>,
       <<f.deviceDistinct >= k.deviceShare, Hit("device_many_accounts", "review")>> >>
PolicyHits(f, matches, k) ==
    LET firing == SelectSeq(Rules(f, matches, k), LAMBDA r : r[1])
    IN  [i \in DOMAIN firing |-> firing[i][2]]

(* evaluate: the most severe action and the highest score of all hits. *)
Severity(action) == CASE action = "pass" -> 0 [] action = "review" -> 1 [] action = "reject" -> 2
Worse(d, h) ==
    [action |-> IF Severity(h.action) > Severity(d.action) THEN h.action ELSE d.action,
     score |-> IF h.score > d.score THEN h.score ELSE d.score]
Evaluate(f, matches, k) ==
    FoldLeft(Worse, [action |-> "pass", score |-> 0], PolicyHits(f, matches, k))

(* generate: the expiry of the candidate for the address, 0 for none. *)
CandidateExpiryForReject(f, matches, k, now) ==
    IF Evaluate(f, matches, k).action = "reject" /\ now <= MaxExpireAt - CandidateTtl
    THEN now + CandidateTtl ELSE 0
CandidateExpiry(f, matches, k, now) ==
    IF /\ Evaluate(f, matches, k).action = "reject" /\ matches = {}
       /\ Stuffing(f, k) /\ now <= MaxExpireAt - CandidateTtl
    THEN now + CandidateTtl ELSE 0
==============================================================================
