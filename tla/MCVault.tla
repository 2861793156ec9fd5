------------------------------- MODULE MCVault -------------------------------
(***************************************************************************)
(* A small instance of Vault: an owner and a shop, each with a token       *)
(* account, an agent, a vault with its associated account and a spare one, *)
(* and a day of two ticks.                                                 *)
(***************************************************************************)
EXTENDS Vault, TLC

CONSTANTS owner, agent, other, pda, ata, spare, ownerAcc, shop

Authority == [a \in TokenAccounts |->
    CASE a \in {ata, spare} -> pda [] a = ownerAcc -> owner [] a = shop -> other]

Balances == [a \in TokenAccounts |->
    CASE a = ata -> Absent [] a = ownerAcc -> 4 [] a \in {spare, shop} -> 0]

Params(key, perTx, perDay, expires, allowed) ==
    [agent |-> key, perTx |-> perTx, perDay |-> perDay, expires |-> expires,
     allowed |-> allowed]

Update(key, perTx, perDay, expires, allowed, active) ==
    [agent |-> key, perTx |-> perTx, perDay |-> perDay, expires |-> expires,
     allowed |-> allowed, active |-> active]

Keep == Update(Absent, Absent, Absent, Absent, Absent, Absent)

\* Valid parameters, and one that breaks each check.
SomeParams ==
    {Params(agent, 1, 2, 0, {}), Params(agent, 2, 2, 2, {other}),
     Params(NoKey, 1, 2, 0, {}), Params(agent, 2, 1, 0, {}),
     Params(agent, 0, 2, 0, {}), Params(agent, 1, 2, 0, {owner, other})}

SomeUpdates ==
    {[Keep EXCEPT !.agent = agent], [Keep EXCEPT !.agent = NoKey],
     [Keep EXCEPT !.active = TRUE], [Keep EXCEPT !.active = FALSE],
     [Keep EXCEPT !.perTx = 2], [Keep EXCEPT !.perDay = 1],
     [Keep EXCEPT !.expires = 3], [Keep EXCEPT !.allowed = {shop}],
     [Keep EXCEPT !.allowed = {owner, other}]}

=============================================================================
