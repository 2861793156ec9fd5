----------------------------- MODULE SolanaProxy -----------------------------
(***************************************************************************)
(* The Solana flow of the proxy (forward_solana_request) beside the        *)
(* program it is a pre-flight check for: the proxy reads the vault through *)
(* the JSON-RPC of a node, at the default commitment (finalized), decides  *)
(* and forwards; the agent submits guarded_withdraw on its own.            *)
(***************************************************************************)
EXTENDS Vault

CONSTANTS
    Calls,     \* calls of POST /x402/proxy/solana in one behaviour
    CallArgs,  \* [amount, destination] a call may carry
    Malformed  \* a destination that is no public key

VARIABLES
    finalized,  \* the vault account as the RPC node returns it
    stage,      \* the await a call is at, or its answer
    args,       \* what a call carries
    seen        \* the vault a call has read

calls == <<stage, args, seen>>
proxyVars == <<vars, finalized, calls>>

Refusals == {"BadRequest", "NotFound", "Forbidden", "GuardrailViolation", "Internal"}

ASSUME CallAssumption ==
    /\ CallArgs \subseteq [amount: Nat, destination: Addresses \cup {Absent, Malformed}]
    /\ Malformed \notin Addresses \cup {Absent}

ProxyTypeOK ==
    /\ TypeOK
    /\ finalized \in VaultState \cup {Absent}
    /\ stage \in [Calls -> {"idle", "query", "forward", "Forwarded", "UpstreamFailed"}
                              \cup Refusals]
    /\ args \in [Calls -> CallArgs \cup {Absent}]
    /\ seen \in [Calls -> VaultState \cup {Absent}]

ProxyInit ==
    /\ Init
    /\ finalized = Absent
    /\ stage = [c \in Calls |-> "idle"]
    /\ args = [c \in Calls |-> Absent]
    /\ seen = [c \in Calls |-> Absent]

-----------------------------------------------------------------------------
(* The handler. *)

\* URL, network, configuration and owner key are looked at first, and are
\* either wrong or leave no trace.
ReceiveSolana(c) ==
    /\ stage[c] = "idle"
    /\ \E a \in CallArgs, s \in {"query", "BadRequest"} :
          /\ args' = [args EXCEPT ![c] = a]
          /\ stage' = [stage EXCEPT ![c] = s]
    /\ UNCHANGED <<vars, finalized, seen>>

\* Mutant of Preflight: the daily total is compared before the amount is added.
PreflightSpentOnly(v, a) ==
    IF ~v.active \/ (v.expires > 0 /\ now > v.expires) THEN "Forbidden"
    ELSE IF a.amount > v.perTx \/ v.spent > v.perDay   THEN "GuardrailViolation"
    ELSE "forward"

\* Step 5.  The agent may still use its last second, the window never rolls
\* over, and a call that names no destination passes the whitelist.
Preflight(v, a) ==
    IF ~v.active \/ (v.expires > 0 /\ now > v.expires) THEN "Forbidden"
    ELSE IF \/ a.amount > v.perTx
            \/ v.spent + a.amount > MaxU64
            \/ v.spent + a.amount > v.perDay THEN "GuardrailViolation"
    ELSE IF v.allowed = {} \/ a.destination \in v.allowed \cup {Absent} THEN "forward"
    ELSE IF a.destination = Malformed THEN "BadRequest" ELSE "GuardrailViolation"

\* Steps 4 and 5: nothing is awaited between the answer of the node and the
\* decision.
QueryVault(c) ==
    /\ stage[c] = "query"
    /\ \/ /\ stage' = [stage EXCEPT ![c] = "Internal"]
          /\ UNCHANGED seen
       \/ /\ finalized = Absent
          /\ stage' = [stage EXCEPT ![c] = "NotFound"]
          /\ UNCHANGED seen
       \/ /\ finalized # Absent
          /\ seen' = [seen EXCEPT ![c] = finalized]
          /\ stage' = [stage EXCEPT ![c] = Preflight(finalized, args[c])]
    /\ UNCHANGED <<vars, finalized, args>>

ForwardSolana(c) ==
    /\ stage[c] = "forward"
    /\ \E s \in {"Forwarded", "UpstreamFailed", "Internal"} :
          stage' = [stage EXCEPT ![c] = s]
    /\ UNCHANGED <<vars, finalized, args, seen>>

\* The slot of the last write to the vault is finalized.
Finalize ==
    /\ finalized # vault
    /\ finalized' = vault
    /\ UNCHANGED <<vars, calls>>

ProxyNext ==
    \/ Next /\ UNCHANGED <<finalized, calls>>
    \/ Finalize
    \/ \E c \in Calls : ReceiveSolana(c) \/ QueryVault(c) \/ ForwardSolana(c)

ProxySpec == ProxyInit /\ [][ProxyNext]_proxyVars

-----------------------------------------------------------------------------
(* Properties. *)

Passed(c) == stage[c] \in {"forward", "Forwarded", "UpstreamFailed"}

\* Accounts the destination of a call may mean: by address or by authority.
Destinations(c) ==
    {to \in TokenAccounts : args[c].destination \in {to, AuthorityOf[to], Absent}}

AcceptedByProgram(c) ==
    \A to \in Destinations(c) : MayWithdraw(vault, vault.agent, to, args[c].amount)

\* The two implementations of the rules agree where they claim to: a call
\* that passed, for a positive amount to a named destination, would be
\* accepted by the program for as long as the vault is the one the proxy
\* read and the agent has not expired, windows rolling over included.
PassedMeansAccepted ==
    \A c \in Calls :
        /\ Passed(c) /\ seen[c] = vault
        /\ args[c].amount > 0 /\ args[c].destination # Absent /\ NotExpired(vault)
        => AcceptedByProgram(c)
=============================================================================
