------------------------------ MODULE Guardrails ------------------------------
(***************************************************************************)
(* The pure checks that decide on one payment: the guardrail rules of an   *)
(* agent (proxy/src/middleware/guardrails.rs) and the limits of a session  *)
(* key (proxy/src/middleware/eip7702.rs).  They read a payment together    *)
(* with the fields of its requirements that some rule looks at:            *)
(*                                                                         *)
(*    value     the amount of the EIP-3009 authorisation (a uint256)       *)
(*    payTo     the recipient                                              *)
(*    contract, leverage, slippage                                         *)
(*              entries of requirements.extra; Absent when there is none,  *)
(*              Malformed when the JSON value is not an unsigned number    *)
(***************************************************************************)
EXTENDS Naturals

CONSTANTS
    Address,    \* addresses as they are written, in any letter case
    Lower,      \* Lower[a] is a.to_lowercase()
    Absent,     \* an Option that is None, a JSON entry that is missing
    Malformed,  \* a JSON value of the wrong type
    MaxU32,     \* u32::MAX
    MaxI64,     \* i64::MAX, the range of a Postgres BIGINT
    MaxU64      \* u64::MAX

ASSUME WidthAssumption ==
    /\ MaxU32 \in Nat /\ MaxI64 \in Nat /\ MaxU64 \in Nat
    /\ MaxI64 < MaxU64

ASSUME AddressAssumption ==
    /\ Lower \in [Address -> Address]
    /\ \A a \in Address : Lower[Lower[a]] = Lower[a]
    /\ Absent \notin Address /\ Absent \notin Nat
    /\ Malformed \notin Address /\ Malformed \notin Nat
    /\ Absent # Malformed

RuleKinds == {"MaxSpendPerTx", "MaxSpendPerDay", "AllowedContracts",
              "MaxLeverage", "MaxSlippage"}

\* A RuleType value: its kind and its one parameter, a set of addresses for
\* AllowedContracts and a number for the other kinds.
RuleType == [kind: RuleKinds \ {"AllowedContracts"}, arg: Nat]
              \cup [kind: {"AllowedContracts"}, arg: SUBSET Address]

AllowedAddress(allowed, a) == \E x \in allowed : Lower[x] = Lower[a]

-----------------------------------------------------------------------------
(* The five rules. *)

CheckMaxSpendPerTx(p, limit) == p.value <= limit

CheckMaxSpendPerDay(p, dailySpent, limit) == dailySpent + p.value <= limit

\* The target is extra.contract, or the recipient when there is none; an
\* empty whitelist allows nothing.
CheckAllowedContracts(p, allowed) ==
    AllowedAddress(allowed, IF p.contract \in Address THEN p.contract ELSE p.payTo)

\* A present value must be an unsigned number that fits in 32 bits.
WithinU32(v, max) == v # Malformed /\ v <= MaxU32 /\ v <= max

CheckMaxLeverage(p, max) == p.leverage = Absent \/ WithinU32(p.leverage, max)

CheckMaxSlippage(p, bps) == p.slippage = Absent \/ WithinU32(p.slippage, bps)

EvaluateSingle(rule, p, dailySpent) ==
    CASE rule.kind = "MaxSpendPerTx"    -> CheckMaxSpendPerTx(p, rule.arg)
      [] rule.kind = "MaxSpendPerDay"   -> CheckMaxSpendPerDay(p, dailySpent, rule.arg)
      [] rule.kind = "AllowedContracts" -> CheckAllowedContracts(p, rule.arg)
      [] rule.kind = "MaxLeverage"      -> CheckMaxLeverage(p, rule.arg)
      [] rule.kind = "MaxSlippage"      -> CheckMaxSlippage(p, rule.arg)

\* evaluate: every active rule must hold.  (The first failing rule only
\* decides the wording of the refusal.)
Evaluate(rules, p, dailySpent) ==
    \A rule \in rules : rule.active => EvaluateSingle(rule.type, p, dailySpent)

\* extract_daily_limit returns the limit of the first active MaxSpendPerDay
\* rule, or None.  The rules come from a SELECT without ORDER BY, so with
\* several such rules any of them may be the first.
DailyLimits(rules) ==
    {rule.type.arg : rule \in {x \in rules : x.active /\ x.type.kind = "MaxSpendPerDay"}}

ExtractDailyLimit(rules) ==
    IF DailyLimits(rules) = {} THEN {Absent} ELSE DailyLimits(rules)

-----------------------------------------------------------------------------
(* verify_session_key, on the row read from the session_keys table. *)

SaturatingAdd(a, b) == IF a + b > MaxU64 THEN MaxU64 ELSE a + b

\* An empty whitelist restricts nothing; a restricted key needs a contract.
KeyAllowsContract(k, contract) ==
    \/ k.allowed = {}
    \/ contract \in Address /\ AllowedAddress(k.allowed, contract)

VerifySessionKey(k, p, time) ==
    /\ ~k.revoked
    /\ time < k.expires
    /\ SaturatingAdd(k.spent, p.value) <= k.max
    /\ KeyAllowsContract(k, p.contract)
=============================================================================
