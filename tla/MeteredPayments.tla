--------------------------- MODULE MeteredPayments ---------------------------
(***************************************************************************)
(* What the proxy promises about the payments of an agent, without how: a  *)
(* payment is first reserved, under a nonce nobody reserved before, and    *)
(* only a reserved payment is settled.  PaymentProxy implements it: the    *)
(* reservations are the rows of spend_ledger and the settled payments the  *)
(* requests that reached the upstream.                                     *)
(***************************************************************************)
CONSTANTS Requests, Nonces

VARIABLES
    reserved,   \* pairs of a request and the nonce it reserved
    settled     \* requests whose payment was handed to the upstream

vars == <<reserved, settled>>

Init == reserved = {} /\ settled = {}

Reserve(r, n) ==
    /\ \A pair \in reserved : pair[1] # r /\ pair[2] # n
    /\ reserved' = reserved \cup {<<r, n>>}
    /\ UNCHANGED settled

Settle(r) ==
    /\ r \notin settled
    /\ \E n \in Nonces : <<r, n>> \in reserved
    /\ settled' = settled \cup {r}
    /\ UNCHANGED reserved

Next == \E r \in Requests : Settle(r) \/ \E n \in Nonces : Reserve(r, n)

Spec == Init /\ [][Next]_vars
=============================================================================
