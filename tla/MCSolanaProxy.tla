---------------------------- MODULE MCSolanaProxy ----------------------------
(***************************************************************************)
(* Small instances of SolanaProxy: the vault of MCVault with one call, for *)
(* amounts around the cap and destinations in and out of the whitelist.    *)
(***************************************************************************)
EXTENDS SolanaProxy, TLC

CONSTANTS owner, agent, other, pda, ata, ownerAcc, shop

Authority == [a \in TokenAccounts |->
    CASE a = ata -> pda [] a = ownerAcc -> owner [] a = shop -> other]

Balances == [a \in TokenAccounts |->
    CASE a = ata -> Absent [] a = ownerAcc -> 2 [] a = shop -> 0]

Params(perTx, perDay, expires, allowed) ==
    [agent |-> agent, perTx |-> perTx, perDay |-> perDay, expires |-> expires,
     allowed |-> allowed]

SomeParams == {Params(1, 2, 1, {other})}

Keep == [agent |-> Absent, perTx |-> Absent, perDay |-> Absent, expires |-> Absent,
         allowed |-> Absent, active |-> Absent]
SomeUpdates == {[Keep EXCEPT !.allowed = {}, !.expires = 2]}

SomeArgs == [amount: {1, 2}, destination: {other}]
              \cup [amount: {0, 1}, destination: {shop}]
              \cup [amount: {1}, destination: {Absent, Malformed}]
=============================================================================
