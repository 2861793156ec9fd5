---------------------------- MODULE MCPaymentProxy ----------------------------
(***************************************************************************)
(* Small instances of PaymentProxy for TLC: one agent with one session     *)
(* key, amounts of one or two units, two nonces, a day of two ticks.       *)
(***************************************************************************)
EXTENDS PaymentProxy, TLC

CONSTANTS a1, k1, n1, n2, n3

MCAddress == {"A", "a", "b"}
MCLower == [x \in MCAddress |-> IF x = "A" THEN "a" ELSE x]

Pay(agent, key, value, nonce) ==
    [agent |-> agent, key |-> key, value |-> value, nonce |-> nonce,
     form |-> "Sound", validAfter |-> 0, validBefore |-> 10, timeout |-> 1,
     payTo |-> "b", contract |-> Absent, leverage |-> Absent, slippage |-> Absent]

\* Two payments with one nonce, and one with another.
ReplayPayloads == {Pay(a1, k1, 1, n1), Pay(a1, Absent, 1, n1),
                   Pay(Absent, Absent, 1, n1), Pay(a1, k1, 1, n2)}

\* Payments of one agent, each with a nonce of its own.
SpendPayloads == {Pay(a1, Absent, 1, n1), Pay(a1, Absent, 2, n2), Pay(a1, Absent, 2, n3)}

\* Every kind of refusal: bad signature, not yet valid, expired, too wide
\* for a u64 and for a BIGINT, zero, unknown key, restricted key.
OddPayloads ==
    {Pay(a1, k1, 1, n1), [Pay(a1, k1, 1, n1) EXCEPT !.form = "Unauthorized"],
     [Pay(Absent, k1, 1, n1) EXCEPT !.contract = "A"],
     [Pay(a1, Absent, 1, n1) EXCEPT !.validAfter = 1],
     [Pay(a1, Absent, 1, n1) EXCEPT !.validBefore = 1, !.timeout = 0],
     Pay(a1, Absent, 0, n1), Pay(a1, Absent, 7, n1), Pay(a1, Absent, 9, n1),
     [Pay(a1, Absent, 1, n1) EXCEPT !.timeout = 9]}

DayRule(limit) == [kind |-> "MaxSpendPerDay", arg |-> limit]
TxRule(limit) == [kind |-> "MaxSpendPerTx", arg |-> limit]
DayRules == {DayRule(2), DayRule(3)}
AnyRules == {DayRule(2), TxRule(1), [kind |-> "AllowedContracts", arg |-> {"a"}]}

Active == [a \in Agents |-> "active"]
NoAgents == [a \in Agents |-> "none"]
NoRules == [i \in RuleIds |-> Absent]
OneDayRule == [i \in RuleIds |-> [agent |-> a1, type |-> DayRule(2), active |-> TRUE]]
NoKeys == [k \in Keys |-> Absent]
OneKey == [k \in Keys |-> [agent |-> a1, max |-> 1, spent |-> 0, expires |-> 9,
                           allowed |-> {}, revoked |-> FALSE]]
SomeKeySpecs == {[max |-> 1, expires |-> 2, allowed |-> {}],
                 [max |-> 2, expires |-> 1, allowed |-> {"a"}]}

NoOperations == {}
Failures == {"LoseNonces"}
AllOperations == {"CreateAgent", "CreateRule", "UpdateRule", "DeactivateRule",
                  "CreateSessionKey", "RevokeSessionKey", "RevokeAll", "LoseNonces"}

SymmetricRequests == Permutations(Requests)
=============================================================================
