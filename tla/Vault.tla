-------------------------------- MODULE Vault --------------------------------
(***************************************************************************)
(* The Solana program x402-guard: the vault PDA of one owner, the SPL      *)
(* token accounts of one of the accepted USDC mints, and the six           *)
(* instructions.  A transaction is atomic: an instruction that fails, or   *)
(* whose CPI fails, changes nothing, so its checks are the guard of its    *)
(* action.  Transactions that write the vault are serialised by the chain. *)
(***************************************************************************)
EXTENDS Naturals, FiniteSets, FiniteSetsExt

CONSTANTS
    Signers,        \* public keys that sign transactions
    Owner,          \* owner of the vault, one of Signers
    NoKey,          \* Pubkey::default(), which nobody can sign for
    Pda,            \* address of the vault
    TokenAccounts,  \* USDC token accounts that may exist
    AuthorityOf,    \* who may move the tokens of an account
    Ata,            \* the associated token account of the vault
    Absent,         \* an account that does not exist, an Option that is None
    Amounts,        \* amounts that instructions are given
    InitParams,     \* InitializeVaultParams that initialize_vault is given
    Updates,        \* UpdateRulesParams that update_rules is given
    StartBalance,   \* balances when the behaviour starts
    MaxAllowed,     \* MAX_ALLOWED_PROGRAMS
    MaxCap,         \* bound: the largest limit in InitParams and Updates
    MaxU64,         \* u64::MAX
    Day,            \* SECONDS_PER_DAY, in clock ticks
    MaxTime         \* bound: the clock stops here

VARIABLES
    now,      \* Clock::get()?.unix_timestamp
    vault,    \* VaultState, Absent while the PDA does not exist
    balance,  \* token balances
    drawn     \* drawn[t]: what was withdrawn before tick t since the
              \* initialisation, a history variable

vars == <<now, vault, balance, drawn>>

Addresses == Signers \cup {Pda} \cup TokenAccounts
Limit == 0..MaxCap

VaultState ==
    [agent: Signers \cup {NoKey}, perTx: Limit, perDay: Limit, spent: Nat,
     windowStart: 0..MaxTime, expires: Nat, allowed: SUBSET Addresses,
     active: BOOLEAN]

InitializeVaultParams ==
    [agent: Signers \cup {NoKey}, perTx: Limit, perDay: Limit, expires: Nat,
     allowed: SUBSET Addresses]

UpdateRulesParams ==
    [agent: Signers \cup {NoKey, Absent}, perTx: Limit \cup {Absent},
     perDay: Limit \cup {Absent}, expires: Nat \cup {Absent},
     allowed: (SUBSET Addresses) \cup {Absent}, active: BOOLEAN \cup {Absent}]

ASSUME VaultAssumption ==
    /\ Owner \in Signers /\ NoKey \notin Signers /\ Pda \notin Signers
    /\ IsFiniteSet(TokenAccounts)
    /\ AuthorityOf \in [TokenAccounts -> Signers \cup {Pda}]
    /\ Ata \in TokenAccounts /\ AuthorityOf[Ata] = Pda
    /\ Amounts \subseteq Nat
    /\ InitParams \subseteq InitializeVaultParams
    /\ Updates \subseteq UpdateRulesParams
    /\ StartBalance \in [TokenAccounts -> Nat \cup {Absent}]
    /\ StartBalance[Ata] = Absent
    /\ MaxAllowed \in Nat /\ MaxCap \in Nat /\ MaxU64 \in Nat /\ MaxTime \in Nat
    /\ Day \in Nat \ {0}
    /\ Absent \notin Nat /\ Absent \notin VaultState /\ Absent \notin Signers \cup {NoKey}
    /\ Absent \notin BOOLEAN

TypeOK ==
    /\ now \in 0..MaxTime
    /\ vault \in VaultState \cup {Absent}
    /\ balance \in [TokenAccounts -> Nat \cup {Absent}]
    /\ drawn \in [0..(MaxTime + 1) -> Nat]

Init ==
    /\ now = 0
    /\ vault = Absent
    /\ balance = StartBalance
    /\ drawn = [t \in 0..(MaxTime + 1) |-> 0]

-----------------------------------------------------------------------------
(* The token program. *)

Exists(account) == balance[account] # Absent

CanTransfer(from, to, amount) ==
    Exists(from) /\ Exists(to) /\ amount <= balance[from]

Transferred(from, to, amount) ==
    IF from = to THEN balance
    ELSE [balance EXCEPT ![from] = @ - amount, ![to] = @ + amount]

-----------------------------------------------------------------------------
(* The instructions. *)

\* Mutant of ValidLimits: only the single limits are looked at.
PositiveLimits(perTx, perDay) == perTx > 0 /\ perDay > 0

ValidLimits(perTx, perDay) == perTx > 0 /\ perDay > 0 /\ perDay >= perTx

InitializeVault(p) ==
    /\ vault = Absent /\ ~Exists(Ata)
    /\ p.agent # NoKey
    /\ ValidLimits(p.perTx, p.perDay)
    /\ Cardinality(p.allowed) <= MaxAllowed
    /\ vault' = [agent |-> p.agent, perTx |-> p.perTx, perDay |-> p.perDay,
                 spent |-> 0, windowStart |-> now, expires |-> p.expires,
                 allowed |-> p.allowed, active |-> TRUE]
    /\ balance' = [balance EXCEPT ![Ata] = 0]
    /\ drawn' = [t \in 0..(MaxTime + 1) |-> 0]
    /\ UNCHANGED now

\* Anybody may deposit, into any token account the vault has.
Deposit(depositor, from, to, amount) ==
    /\ vault # Absent
    /\ AuthorityOf[from] = depositor /\ AuthorityOf[to] = Pda
    /\ amount > 0
    /\ CanTransfer(from, to, amount)
    /\ balance' = Transferred(from, to, amount)
    /\ UNCHANGED <<now, vault, drawn>>

\* The day window: it starts again with the first withdrawal after a day.
WindowElapsed(v) == now - v.windowStart >= Day
SpentInWindow(v) == IF WindowElapsed(v) THEN 0 ELSE v.spent
StartOfWindow(v) == IF WindowElapsed(v) THEN now ELSE v.windowStart

NotExpired(v) == v.expires > 0 => now < v.expires

\* An empty whitelist allows every destination; an entry is the authority
\* of the destination account or its address.
Whitelisted(v, to) == v.allowed # {} => {AuthorityOf[to], to} \cap v.allowed # {}

\* Mutant of MayWithdraw: the cap is compared with the amount alone.
MayWithdrawEachCap(v, agent, to, amount) ==
    /\ v.active /\ agent = v.agent /\ NotExpired(v)
    /\ amount > 0 /\ amount <= v.perTx /\ amount <= v.perDay
    /\ Whitelisted(v, to)

MayWithdraw(v, agent, to, amount) ==
    /\ v.active /\ agent = v.agent /\ NotExpired(v)
    /\ amount > 0 /\ amount <= v.perTx
    /\ SpentInWindow(v) + amount <= MaxU64
    /\ SpentInWindow(v) + amount <= v.perDay
    /\ Whitelisted(v, to)

\* Mutant of Charged: the window is reset after the amount was added.
ChargedThenReset(v, amount) ==
    [v EXCEPT !.spent = IF WindowElapsed(v) THEN 0 ELSE v.spent + amount,
              !.windowStart = StartOfWindow(v)]

\* Mutant of Charged: the counter is reset, the start of the window is not.
ChargedInOldWindow(v, amount) == [v EXCEPT !.spent = SpentInWindow(v) + amount]

Charged(v, amount) == [v EXCEPT !.spent = SpentInWindow(v) + amount,
                                !.windowStart = StartOfWindow(v)]

GuardedWithdraw(agent, from, to, amount) ==
    /\ vault # Absent
    /\ AuthorityOf[from] = Pda
    /\ MayWithdraw(vault, agent, to, amount)
    /\ CanTransfer(from, to, amount)
    /\ vault' = Charged(vault, amount)
    /\ balance' = Transferred(from, to, amount)
    /\ drawn' = [t \in 0..(MaxTime + 1) |-> IF t > now THEN drawn[t] + amount ELSE drawn[t]]
    /\ UNCHANGED now

Or(option, old) == IF option = Absent THEN old ELSE option

UpdateRules(u) ==
    /\ vault # Absent
    /\ u.agent # NoKey
    /\ ValidLimits(Or(u.perTx, vault.perTx), Or(u.perDay, vault.perDay))
    /\ u.allowed # Absent => Cardinality(u.allowed) <= MaxAllowed
    /\ vault' = [vault EXCEPT !.agent = Or(u.agent, @), !.perTx = Or(u.perTx, @),
                              !.perDay = Or(u.perDay, @), !.allowed = Or(u.allowed, @),
                              !.expires = Or(u.expires, @), !.active = Or(u.active, @)]
    /\ UNCHANGED <<now, balance, drawn>>

\* Mutant of RevokeAgent: the agent becomes None, not the default key.
RevokeAgentToNone ==
    /\ vault # Absent
    /\ vault' = [vault EXCEPT !.agent = Absent, !.active = FALSE, !.expires = 0]
    /\ UNCHANGED <<now, balance, drawn>>

RevokeAgent ==
    /\ vault # Absent
    /\ vault' = [vault EXCEPT !.agent = NoKey, !.active = FALSE, !.expires = 0]
    /\ UNCHANGED <<now, balance, drawn>>

\* Mutant of CloseVault: the step that closes the token account is left out.
CloseVaultLeavesAccount(account, to) ==
    /\ vault # Absent
    /\ AuthorityOf[account] = Pda /\ Exists(account)
    /\ AuthorityOf[to] = Owner /\ Exists(to)
    /\ balance' = Transferred(account, to, balance[account])
    /\ vault' = Absent
    /\ UNCHANGED <<now, drawn>>

\* The account that is drained and closed is one the owner names; any token
\* account of the vault will do.
CloseVault(account, to) ==
    /\ vault # Absent
    /\ AuthorityOf[account] = Pda /\ Exists(account)
    /\ AuthorityOf[to] = Owner /\ Exists(to)
    /\ balance' = [Transferred(account, to, balance[account]) EXCEPT ![account] = Absent]
    /\ vault' = Absent
    /\ UNCHANGED <<now, drawn>>

Tick ==
    /\ now < MaxTime
    /\ now' = now + 1
    /\ UNCHANGED <<vault, balance, drawn>>

OwnerActs ==
    \/ \E p \in InitParams : InitializeVault(p)
    \/ \E u \in Updates : UpdateRules(u)
    \/ RevokeAgent
    \/ \E account, to \in TokenAccounts : CloseVault(account, to)

Next ==
    \/ OwnerActs
    \/ \E s \in Signers, from, to \in TokenAccounts, amount \in Amounts :
          Deposit(s, from, to, amount) \/ GuardedWithdraw(s, from, to, amount)
    \/ Tick

Spec == Init /\ [][Next]_vars

-----------------------------------------------------------------------------
(* Properties. *)

\* The owner's way back to the tokens. While there is a vault its associated
\* account exists, so that close_vault can be given it whatever became of
\* agent, limits and expiry. When there is none, it can be created again, and
\* what was left in its other accounts be reached through it, unless the
\* owner closed it with another account than the associated one: that one
\* stays, initialize_vault never succeeds again, and what it holds is lost.
SideAccounts == {a \in TokenAccounts : AuthorityOf[a] = Pda /\ a # Ata}

Recoverable ==
    /\ vault # Absent => Exists(Ata)
    /\ vault = Absent /\ Exists(Ata) =>
          \E a \in SideAccounts : StartBalance[a] # Absent /\ ~Exists(a)

\* The limits of a vault stay usable and ordered through every combination
\* of partial updates.
LimitsOrdered ==
    vault # Absent =>
        /\ 0 < vault.perTx /\ vault.perTx <= vault.perDay
        /\ Cardinality(vault.allowed) <= MaxAllowed

\* What leaves the accounts of a vault that stays open is in the counter
\* afterwards, also when the window starts again with this withdrawal, and
\* the counter is then within the cap.
Held(accounts) ==
    MapThenSumSet(LAMBDA a : IF Exists(a) THEN balance[a] ELSE 0, accounts)

VaultHeld == Held({a \in TokenAccounts : AuthorityOf[a] = Pda})

WithdrawalsCharged ==
    [][vault # Absent /\ vault' # Absent /\ VaultHeld' < VaultHeld =>
          /\ VaultHeld - VaultHeld' <= vault'.spent
          /\ vault'.spent <= vault.perDay]_vars

\* The window: the counter is what was drawn since the window started; a
\* withdrawal a day or more after that would have started another one; and
\* the day before the start saw at most one window.
WindowInv ==
    vault # Absent =>
        LET start == vault.windowStart
        IN  /\ start <= now
            /\ vault.spent <= MaxCap
            /\ vault.spent + drawn[start] = drawn[now + 1]
            /\ \A t \in 0..(MaxTime + 1) : t >= start + Day => drawn[t] = drawn[now + 1]
            /\ \A t \in 0..start : t + Day >= start => drawn[start] <= drawn[t] + MaxCap

\* History is history: it grows with time and the future holds nothing.
DrawnInv ==
    /\ \A s, t \in 0..(MaxTime + 1) : s <= t => drawn[s] <= drawn[t]
    /\ \A t \in 0..(MaxTime + 1) : t > now => drawn[t] = drawn[now + 1]

\* In every 24 hours of the life of a vault at most twice the largest daily
\* cap is withdrawn.
RollingWithinTwice ==
    \A s, t \in 0..(MaxTime + 1) : s <= t /\ t <= s + Day => drawn[t] <= drawn[s] + 2 * MaxCap

IInv == TypeOK /\ WindowInv /\ DrawnInv /\ RollingWithinTwice

=============================================================================
