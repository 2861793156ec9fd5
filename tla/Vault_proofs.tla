----------------------------- MODULE Vault_proofs -----------------------------
(***************************************************************************)
(* Theorems about Vault for every value of its constants: types, the       *)
(* order of the limits, the bound on what one day can withdraw, and the    *)
(* way back to the tokens; and about SolanaProxy, the pre-flight check     *)
(* that runs beside it: it leaves the program alone, so that what is       *)
(* proved of the vault holds beside it, and what it passes the program     *)
(* accepts, where the two claim to agree.                                  *)
(***************************************************************************)
EXTENDS SolanaProxy, SumTheorems

Ticks == 0..(MaxTime + 1)

\* A transfer that the token program accepts leaves balances.
LEMMA TransferType ==
    ASSUME TypeOK, NEW from \in TokenAccounts, NEW to \in TokenAccounts,
           NEW amount \in Nat, CanTransfer(from, to, amount)
    PROVE  Transferred(from, to, amount) \in [TokenAccounts -> Nat \cup {Absent}]
<1>1. balance[from] \in Nat /\ balance[to] \in Nat /\ amount <= balance[from]
  BY DEF TypeOK, CanTransfer, Exists
<1>2. balance[from] - amount \in Nat /\ balance[to] + amount \in Nat
  BY <1>1
<1>3. QED
  BY <1>1, <1>2 DEF Transferred, TypeOK

\* The invariant speaks of the vault through two of its fields only.
LEMMA WindowFrame ==
    ASSUME IInv, vault # Absent, TypeOK', vault' # Absent, UNCHANGED <<now, drawn>>,
           vault'.spent = vault.spent, vault'.windowStart = vault.windowStart
    PROVE  IInv'
<1> USE DEF IInv
<1>1. WindowInv'
  BY DEF WindowInv
<1>2. DrawnInv' /\ RollingWithinTwice'
  BY DEF DrawnInv, RollingWithinTwice
<1>3. QED
  BY <1>1, <1>2

LEMMA InitIInv == Init => IInv
<1> SUFFICES ASSUME Init PROVE IInv
  OBVIOUS
<1>1. TypeOK
  BY VaultAssumption DEF Init, TypeOK
<1>2. WindowInv
  BY DEF Init, WindowInv
<1>3. DrawnInv /\ RollingWithinTwice
  BY VaultAssumption DEF Init, DrawnInv, RollingWithinTwice
<1>4. QED
  BY <1>1, <1>2, <1>3 DEF IInv

LEMMA InitializeIInv ==
    ASSUME IInv, NEW p \in InitParams, InitializeVault(p)
    PROVE  IInv'
<1>1. vault' \in VaultState
  BY VaultAssumption
  DEF InitializeVault, InitializeVaultParams, VaultState, IInv, TypeOK, Limit
<1>2. /\ drawn' = [t \in 0..(MaxTime + 1) |-> 0]
      /\ vault'.spent = 0 /\ vault'.windowStart = now /\ now' = now
      /\ now \in 0..MaxTime
  BY DEF InitializeVault, IInv, TypeOK
<1>3. TypeOK'
  BY <1>1, <1>2, VaultAssumption DEF InitializeVault, IInv, TypeOK
<1>4. WindowInv'
  BY <1>2, VaultAssumption DEF WindowInv
<1>5. DrawnInv' /\ RollingWithinTwice'
  BY <1>2, VaultAssumption DEF DrawnInv, RollingWithinTwice
<1>6. QED
  BY <1>3, <1>4, <1>5 DEF IInv

\* A withdrawal charges a vault and leaves a vault.
LEMMA WithdrawType ==
    ASSUME TypeOK, NEW agent \in Signers, NEW from \in TokenAccounts,
           NEW to \in TokenAccounts, NEW amount \in Amounts,
           GuardedWithdraw(agent, from, to, amount)
    PROVE  vault \in VaultState /\ vault' \in VaultState
<1>1. /\ vault \in VaultState /\ amount \in Nat /\ now \in 0..MaxTime
      /\ vault' = Charged(vault, amount)
  BY VaultAssumption DEF GuardedWithdraw, TypeOK
<1>2. SpentInWindow(vault) + amount \in Nat /\ StartOfWindow(vault) \in 0..MaxTime
  BY <1>1 DEF SpentInWindow, StartOfWindow, VaultState
<1>3. QED
  BY <1>1, <1>2 DEF Charged, VaultState

\* The case that needs WindowInv: the withdrawal falls into the current
\* window, or starts the next one a day or more after the start of the last.
LEMMA WithdrawIInv ==
    ASSUME IInv, NEW agent \in Signers, NEW from \in TokenAccounts,
           NEW to \in TokenAccounts, NEW amount \in Amounts,
           GuardedWithdraw(agent, from, to, amount)
    PROVE  IInv'
<1> DEFINE w == vault.windowStart
<1> DEFINE z == vault'.windowStart
<1>1. /\ vault \in VaultState /\ amount \in Nat /\ now \in 0..MaxTime
      /\ w \in 0..MaxTime /\ w <= now /\ vault.spent \in Nat
      /\ drawn \in [Ticks -> Nat] /\ Day \in Nat \ {0} /\ MaxTime \in Nat
      /\ MaxCap \in Nat /\ vault.perDay \in 0..MaxCap
  BY VaultAssumption DEF GuardedWithdraw, IInv, TypeOK, VaultState, Limit, WindowInv, Ticks
<1>2. /\ vault' = Charged(vault, amount) /\ now' = now
      /\ SpentInWindow(vault) + amount <= vault.perDay
      /\ drawn' = [t \in Ticks |-> IF t > now THEN drawn[t] + amount ELSE drawn[t]]
  BY DEF GuardedWithdraw, MayWithdraw, Ticks
<1>3. /\ vault' \in VaultState /\ z = StartOfWindow(vault)
      /\ vault'.spent = SpentInWindow(vault) + amount
  <2>1. SpentInWindow(vault) + amount \in Nat /\ StartOfWindow(vault) \in 0..MaxTime
    BY <1>1 DEF SpentInWindow, StartOfWindow
  <2>2. QED
    BY <1>1, <1>2, <2>1 DEF Charged, VaultState
<1>4. TypeOK'
  <2>1. drawn' \in [Ticks -> Nat]
    BY <1>1, <1>2
  <2>2. balance' \in [TokenAccounts -> Nat \cup {Absent}]
    BY <1>1, TransferType DEF GuardedWithdraw, IInv
  <2>3. QED
    BY <1>1, <1>2, <1>3, <2>1, <2>2 DEF TypeOK, Ticks
<1>5. /\ \A s, t \in Ticks : s <= t => drawn[s] <= drawn[t]
      /\ \A t \in Ticks : t > now => drawn[t] = drawn[now + 1]
      /\ \A s, t \in Ticks : s <= t /\ t <= s + Day => drawn[t] <= drawn[s] + 2 * MaxCap
      /\ vault.spent + drawn[w] = drawn[now + 1]
      /\ \A t \in Ticks : t >= w + Day => drawn[t] = drawn[now + 1]
      /\ \A t \in 0..w : t + Day >= w => drawn[w] <= drawn[t] + MaxCap
  BY DEF GuardedWithdraw, IInv, DrawnInv, WindowInv, RollingWithinTwice, Ticks
<1>6. /\ vault.spent <= MaxCap
      /\ \A t \in Ticks : drawn[t] \in Nat
      /\ w \in Ticks /\ now \in Ticks /\ now + 1 \in Ticks
      /\ \A t \in Ticks : t \in Nat /\ t <= MaxTime + 1
  BY <1>1 DEF GuardedWithdraw, IInv, WindowInv, Ticks
<1>7. /\ \A t \in Ticks : t > now => drawn'[t] = drawn[now + 1] + amount
      /\ \A t \in Ticks : t <= now => drawn'[t] = drawn[t]
      /\ \A t \in Ticks : drawn'[t] \in Nat
  BY <1>1, <1>2, <1>5, <1>6
<1>8. /\ z \in Nat /\ z <= now /\ z \in Ticks
      /\ vault'.spent \in Nat /\ vault'.spent <= MaxCap
      /\ vault'.spent + drawn[z] = drawn[now + 1] + amount
      /\ \A t \in 0..z : t + Day >= z => drawn[z] <= drawn[t] + MaxCap
      /\ z + Day > now
  <2>1. CASE WindowElapsed(vault)
    <3>1. now - w >= Day /\ z = now /\ vault'.spent = amount
      BY <1>1, <1>3, <2>1 DEF WindowElapsed, SpentInWindow, StartOfWindow
    <3>2. drawn[now] = drawn[now + 1]
      BY <1>1, <1>5, <1>6, <3>1
    <3>3. ASSUME NEW t \in 0..now, t + Day >= now
          PROVE  drawn[now] <= drawn[t] + MaxCap
      <4>1. t \in Ticks /\ w <= t
        BY <1>1, <1>6, <3>1, <3>3 DEF Ticks
      <4>2. drawn[w] <= drawn[t]
        BY <1>5, <1>6, <4>1
      <4>3. QED
        BY <1>1, <1>5, <1>6, <3>2, <4>1, <4>2
    <3>4. amount <= MaxCap
      BY <1>1, <1>2, <2>1 DEF SpentInWindow
    <3>5. QED
      BY <1>1, <1>6, <3>1, <3>2, <3>3, <3>4
  <2>2. CASE ~WindowElapsed(vault)
    <3>1. now - w < Day /\ z = w /\ vault'.spent = vault.spent + amount
      BY <1>1, <1>3, <2>2 DEF WindowElapsed, SpentInWindow, StartOfWindow
    <3>2. vault.spent + amount <= MaxCap
      BY <1>1, <1>2, <2>2 DEF SpentInWindow
    <3>3. QED
      BY <1>1, <1>5, <1>6, <3>1, <3>2
  <2>3. QED
    BY <2>1, <2>2
<1> HIDE DEF z
<1>9. WindowInv'
  <2>1. drawn'[z] = drawn[z] /\ drawn'[now + 1] = drawn[now + 1] + amount
    BY <1>1, <1>6, <1>7, <1>8
  <2>2. ASSUME NEW t \in Ticks, t >= z + Day PROVE drawn'[t] = drawn'[now + 1]
    BY <1>1, <1>6, <1>7, <1>8, <2>1, <2>2
  <2>3. ASSUME NEW t \in 0..z, t + Day >= z PROVE drawn'[z] <= drawn'[t] + MaxCap
    <3>1. t \in Ticks /\ t <= now
      <4>1. z \in Nat /\ z <= now /\ now \in Nat /\ MaxTime \in Nat /\ now <= MaxTime + 1
        BY <1>1, <1>6, <1>8
      <4>2. t \in Nat /\ t <= z
        BY <4>1
      <4>3. QED
        BY <4>1, <4>2 DEF Ticks
    <3>2. QED
      BY <1>7, <1>8, <2>1, <2>3, <3>1
  <2>4. QED
    BY <1>2, <1>8, <2>1, <2>2, <2>3 DEF WindowInv, Ticks, z
<1>10. DrawnInv'
  <2>1. ASSUME NEW s \in Ticks, NEW t \in Ticks, s <= t PROVE drawn'[s] <= drawn'[t]
    <3>1. drawn[s] <= drawn[t] /\ (t > now => drawn[s] <= drawn[now + 1])
      BY <1>5, <1>6, <2>1
    <3>2. QED
      BY <1>1, <1>6, <1>7, <2>1, <3>1
  <2>2. ASSUME NEW t \in Ticks, t > now PROVE drawn'[t] = drawn'[now + 1]
    BY <1>1, <1>6, <1>7, <2>2
  <2>3. QED
    BY <1>2, <2>1, <2>2 DEF DrawnInv, Ticks
<1>11. RollingWithinTwice'
  <2>1. ASSUME NEW s \in Ticks, NEW t \in Ticks, s <= t, t <= s + Day
        PROVE  drawn'[t] <= drawn'[s] + 2 * MaxCap
    <3>1. CASE t <= now
      BY <1>1, <1>5, <1>6, <1>7, <2>1, <3>1
    <3>2. CASE t > now /\ s <= now
      <4>1. drawn'[t] = vault'.spent + drawn[z] /\ drawn'[s] = drawn[s]
        BY <1>7, <1>8, <3>2
      <4>2. CASE s <= z
        <5>1. s \in 0..z /\ s + Day >= z
          BY <1>1, <1>6, <1>8, <2>1, <3>2, <4>2
        <5>2. drawn[z] <= drawn[s] + MaxCap
          BY <1>8, <5>1
        <5>3. QED
          BY <1>1, <1>6, <1>8, <4>1, <5>2
      <4>3. CASE s > z
        <5>1. drawn[z] <= drawn[s]
          BY <1>5, <1>6, <1>8, <4>3
        <5>2. QED
          BY <1>1, <1>6, <1>8, <4>1, <5>1
      <4>4. QED
        BY <1>6, <1>8, <4>2, <4>3
    <3>3. CASE s > now
      BY <1>1, <1>6, <1>7, <2>1, <3>3
    <3>4. QED
      BY <1>1, <1>6, <3>1, <3>2, <3>3
  <2>2. QED
    BY <2>1 DEF RollingWithinTwice, Ticks
<1>12. QED
  BY <1>4, <1>9, <1>10, <1>11 DEF IInv

\* What the owner may change leaves a vault a vault, and its window alone.
LEMMA RulesType ==
    ASSUME TypeOK, RevokeAgent \/ \E u \in Updates : UpdateRules(u)
    PROVE  /\ vault \in VaultState /\ vault' \in VaultState /\ UNCHANGED <<now, balance, drawn>>
           /\ vault'.spent = vault.spent /\ vault'.windowStart = vault.windowStart
<1>1. vault \in VaultState
  BY DEF TypeOK, RevokeAgent, UpdateRules
<1>2. /\ vault' \in VaultState /\ UNCHANGED <<now, balance, drawn>>
      /\ vault'.spent = vault.spent /\ vault'.windowStart = vault.windowStart
  <2>1. CASE RevokeAgent
    BY <1>1, <2>1 DEF RevokeAgent, VaultState
  <2>2. ASSUME NEW u \in Updates, UpdateRules(u)
        PROVE  /\ vault' \in VaultState /\ UNCHANGED <<now, balance, drawn>>
               /\ vault'.spent = vault.spent /\ vault'.windowStart = vault.windowStart
    <3>1. u \in UpdateRulesParams
      BY VaultAssumption
    <3>2. /\ Or(u.agent, vault.agent) \in Signers \cup {NoKey}
          /\ Or(u.perTx, vault.perTx) \in Limit /\ Or(u.perDay, vault.perDay) \in Limit
          /\ Or(u.expires, vault.expires) \in Nat
          /\ Or(u.allowed, vault.allowed) \in SUBSET Addresses
          /\ Or(u.active, vault.active) \in BOOLEAN
      BY <1>1, <3>1 DEF Or, UpdateRulesParams, VaultState
    <3>3. QED
      BY <1>1, <2>2, <3>2 DEF UpdateRules, VaultState
  <2>3. QED
    BY <2>1, <2>2
<1>3. QED
  BY <1>1, <1>2

LEMMA RulesIInv ==
    ASSUME IInv, RevokeAgent \/ \E u \in Updates : UpdateRules(u)
    PROVE  IInv'
<1>1. /\ vault \in VaultState /\ vault' \in VaultState /\ UNCHANGED <<now, balance, drawn>>
      /\ vault'.spent = vault.spent /\ vault'.windowStart = vault.windowStart
  BY RulesType DEF IInv
<1>2. vault # Absent /\ vault' # Absent /\ TypeOK'
  BY <1>1, VaultAssumption DEF IInv, TypeOK
<1>3. QED
  BY <1>1, <1>2, WindowFrame

\* Deposits and the closing do not touch the history.
LEMMA BalanceIInv ==
    ASSUME IInv,
           \/ \E s \in Signers, from, to \in TokenAccounts, amount \in Amounts :
                 Deposit(s, from, to, amount)
           \/ \E account, to \in TokenAccounts : CloseVault(account, to)
    PROVE  IInv'
<1>1. /\ balance' \in [TokenAccounts -> Nat \cup {Absent}]
      /\ vault' \in {vault, Absent} /\ UNCHANGED <<now, drawn>>
  <2>1. ASSUME NEW s \in Signers, NEW from \in TokenAccounts, NEW to \in TokenAccounts,
               NEW amount \in Amounts, Deposit(s, from, to, amount)
        PROVE  /\ balance' \in [TokenAccounts -> Nat \cup {Absent}]
               /\ vault' \in {vault, Absent} /\ UNCHANGED <<now, drawn>>
    BY <2>1, TransferType, VaultAssumption DEF Deposit, IInv
  <2>2. ASSUME NEW account \in TokenAccounts, NEW to \in TokenAccounts,
               CloseVault(account, to)
        PROVE  /\ balance' \in [TokenAccounts -> Nat \cup {Absent}]
               /\ vault' \in {vault, Absent} /\ UNCHANGED <<now, drawn>>
    <3>1. balance[account] \in Nat /\ CanTransfer(account, to, balance[account])
      BY <2>2 DEF CloseVault, CanTransfer, Exists, IInv, TypeOK
    <3>2. Transferred(account, to, balance[account]) \in [TokenAccounts -> Nat \cup {Absent}]
      BY <3>1, TransferType DEF IInv
    <3>3. QED
      BY <2>2, <3>2 DEF CloseVault
  <2>3. QED
    BY <2>1, <2>2
<1>2. TypeOK'
  BY <1>1 DEF IInv, TypeOK
<1>3. WindowInv' /\ DrawnInv' /\ RollingWithinTwice'
  BY <1>1 DEF IInv, WindowInv, DrawnInv, RollingWithinTwice
<1>4. QED
  BY <1>2, <1>3 DEF IInv

LEMMA TickIInv ==
    ASSUME IInv, Tick \/ UNCHANGED vars
    PROVE  IInv'
<1>1. /\ now' \in 0..MaxTime /\ now \in 0..MaxTime /\ now <= now' /\ now' <= now + 1
      /\ UNCHANGED <<vault, balance, drawn>> /\ MaxTime \in Nat
  BY VaultAssumption DEF Tick, vars, IInv, TypeOK
<1>2. TypeOK'
  BY <1>1 DEF IInv, TypeOK
<1>3. drawn[now' + 1] = drawn[now + 1]
  BY <1>1 DEF IInv, DrawnInv
<1>4. DrawnInv' /\ RollingWithinTwice'
  BY <1>1, <1>3 DEF IInv, DrawnInv, RollingWithinTwice
<1>5. WindowInv'
  <2>1. CASE vault = Absent
    BY <1>1, <2>1 DEF WindowInv
  <2>2. CASE vault # Absent
    <3>1. vault.windowStart \in 0..MaxTime
      BY <2>2 DEF IInv, TypeOK, VaultState
    <3>2. QED
      BY <1>1, <1>3, <2>2, <3>1 DEF IInv, WindowInv
  <2>3. QED
    BY <2>1, <2>2
<1>6. QED
  BY <1>2, <1>4, <1>5 DEF IInv

\* Types, the state of the window, and the bound on every day, in every
\* reachable state, for any limits, updates, deposits and closings.
THEOREM IInvCorrect == Spec => []IInv
<1>1. Init => IInv
  BY InitIInv
<1>2. IInv /\ [Next]_vars => IInv'
  BY InitializeIInv, WithdrawIInv, RulesIInv, BalanceIInv, TickIInv DEF Next, OwnerActs
<1>3. QED
  BY <1>1, <1>2, PTL DEF Spec

\* The counter with its tumbling window admits at most twice the largest
\* daily cap in any 24 hours of the life of a vault.
THEOREM RollingWithinTwiceCorrect == Spec => []RollingWithinTwice
<1>1. IInv => RollingWithinTwice
  BY DEF IInv
<1>2. QED
  BY <1>1, IInvCorrect, PTL

-----------------------------------------------------------------------------
(* The limits. *)

LEMMA LimitsStep ==
    ASSUME TypeOK, LimitsOrdered, [Next]_vars
    PROVE  LimitsOrdered'
<1>1. CASE vault' = vault \/ vault' = Absent
  BY <1>1 DEF LimitsOrdered
<1>2. ASSUME NEW p \in InitParams, InitializeVault(p) PROVE LimitsOrdered'
  BY <1>2 DEF InitializeVault, ValidLimits, LimitsOrdered
<1>3. ASSUME NEW u \in Updates, UpdateRules(u) PROVE LimitsOrdered'
  <2>1. vault \in VaultState
    BY <1>3 DEF UpdateRules, TypeOK
  <2>2. /\ vault'.perTx = Or(u.perTx, vault.perTx) /\ vault'.perDay = Or(u.perDay, vault.perDay)
        /\ vault'.allowed = Or(u.allowed, vault.allowed)
    BY <1>3, <2>1 DEF UpdateRules, VaultState
  <2>3. Cardinality(vault'.allowed) <= MaxAllowed
    BY <1>3, <2>2 DEF UpdateRules, LimitsOrdered, Or
  <2>4. 0 < vault'.perTx /\ vault'.perTx <= vault'.perDay
    <3>1. u \in UpdateRulesParams
      BY VaultAssumption
    <3>2. Or(u.perTx, vault.perTx) \in Limit /\ Or(u.perDay, vault.perDay) \in Limit
      BY <2>1, <3>1 DEF Or, UpdateRulesParams, VaultState
    <3>3. QED
      BY <1>3, <2>2, <3>2, VaultAssumption DEF UpdateRules, ValidLimits, Limit
  <2>5. QED
    BY <2>3, <2>4 DEF LimitsOrdered
<1>4. ASSUME vault # Absent, vault' # Absent, vault'.perTx = vault.perTx,
             vault'.perDay = vault.perDay, vault'.allowed = vault.allowed
      PROVE  LimitsOrdered'
  BY <1>4 DEF LimitsOrdered
<1>5. CASE RevokeAgent
  <2>1. vault \in VaultState /\ vault # Absent
    BY <1>5 DEF RevokeAgent, TypeOK
  <2>2. /\ vault' \in VaultState /\ vault'.perTx = vault.perTx
        /\ vault'.perDay = vault.perDay /\ vault'.allowed = vault.allowed
    BY <1>5, <2>1 DEF RevokeAgent, VaultState
  <2>3. QED
    BY <1>4, <2>1, <2>2, VaultAssumption
<1>6. ASSUME NEW s \in Signers, NEW from \in TokenAccounts, NEW to \in TokenAccounts,
             NEW amount \in Amounts, GuardedWithdraw(s, from, to, amount)
      PROVE  LimitsOrdered'
  <2>1. vault \in VaultState /\ vault # Absent
    BY <1>6 DEF GuardedWithdraw, TypeOK
  <2>2. /\ vault'.perTx = vault.perTx
        /\ vault'.perDay = vault.perDay /\ vault'.allowed = vault.allowed
    BY <1>6, <2>1 DEF GuardedWithdraw, Charged, VaultState
  <2>3. QED
    BY <2>1, <2>2 DEF LimitsOrdered
<1>7. QED
  BY <1>1, <1>2, <1>3, <1>5, <1>6 DEF Next, OwnerActs, Deposit, CloseVault, Tick, vars

\* Every combination of partial updates leaves the limits positive and
\* ordered and the whitelist within its size.
THEOREM LimitsOrderedCorrect == Spec => []LimitsOrdered
<1>1. Init => LimitsOrdered
  BY DEF Init, LimitsOrdered
<1>2. IInv /\ LimitsOrdered /\ [Next]_vars => LimitsOrdered'
  BY LimitsStep DEF IInv
<1>3. QED
  BY <1>1, <1>2, IInvCorrect, PTL DEF Spec

-----------------------------------------------------------------------------
(* The way back to the tokens. *)

\* Of the accounts of the vault only the associated one is ever created.
NoneCreated == \A a \in TokenAccounts \ {Ata} : Exists(a) => StartBalance[a] # Absent

\* Which accounts exist after an instruction, and whether there is a vault,
\* are all that the way back depends on.
LEMMA RecoverableFrame ==
    ASSUME Recoverable, NoneCreated, vault' = Absent <=> vault = Absent,
           \A a \in TokenAccounts : balance'[a] = Absent <=> balance[a] = Absent
    PROVE  Recoverable' /\ NoneCreated'
<1>1. SideAccounts \subseteq TokenAccounts
  BY DEF SideAccounts
<1>2. QED
  BY <1>1, VaultAssumption DEF Recoverable, NoneCreated, Exists

\* A transfer creates no account and closes none.
LEMMA TransferExists ==
    ASSUME TypeOK, NEW from \in TokenAccounts, NEW to \in TokenAccounts,
           NEW amount \in Nat, CanTransfer(from, to, amount), NEW a \in TokenAccounts
    PROVE  Transferred(from, to, amount)[a] = Absent <=> balance[a] = Absent
<1>1. balance[from] \in Nat /\ balance[to] \in Nat /\ amount <= balance[from]
  BY DEF TypeOK, CanTransfer, Exists
<1>2. balance[from] - amount \in Nat /\ balance[to] + amount \in Nat
  BY <1>1
<1>3. QED
  BY <1>1, <1>2, VaultAssumption DEF Transferred, TypeOK

LEMMA RecoverableStep ==
    ASSUME TypeOK, TypeOK', Recoverable, NoneCreated, [Next]_vars
    PROVE  Recoverable' /\ NoneCreated'
<1>1. CASE UNCHANGED balance /\ (vault' = Absent <=> vault = Absent)
  BY <1>1, RecoverableFrame
<1>2. ASSUME NEW p \in InitParams, InitializeVault(p) PROVE Recoverable' /\ NoneCreated'
  <2>1. vault' # Absent
    <3>1. vault' \in VaultState
      BY <1>2, VaultAssumption
      DEF InitializeVault, InitializeVaultParams, VaultState, TypeOK, Limit
    <3>2. QED
      BY <3>1, VaultAssumption
  <2>2. /\ balance'[Ata] = 0
        /\ \A a \in TokenAccounts \ {Ata} : balance'[a] = balance[a]
    BY <1>2, VaultAssumption DEF InitializeVault, TypeOK
  <2>3. QED
    BY <2>1, <2>2, VaultAssumption DEF Recoverable, NoneCreated, Exists
<1>3. ASSUME NEW s \in Signers, NEW from \in TokenAccounts, NEW to \in TokenAccounts,
             NEW amount \in Amounts,
             Deposit(s, from, to, amount) \/ GuardedWithdraw(s, from, to, amount)
      PROVE  Recoverable' /\ NoneCreated'
  <2>1. amount \in Nat /\ CanTransfer(from, to, amount)
    BY <1>3, VaultAssumption DEF Deposit, GuardedWithdraw
  <2>2. \A a \in TokenAccounts : balance'[a] = Absent <=> balance[a] = Absent
    BY <1>3, <2>1, TransferExists DEF Deposit, GuardedWithdraw
  <2>3. vault # Absent /\ vault' # Absent
    BY <1>3, WithdrawType, VaultAssumption DEF Deposit
  <2>4. QED
    BY <2>2, <2>3, RecoverableFrame
<1>4. ASSUME NEW account \in TokenAccounts, NEW to \in TokenAccounts, CloseVault(account, to)
      PROVE  Recoverable' /\ NoneCreated'
  <2>1. balance[account] \in Nat /\ CanTransfer(account, to, balance[account])
    BY <1>4 DEF CloseVault, CanTransfer, Exists, TypeOK
  <2>2. /\ balance'[account] = Absent
        /\ \A a \in TokenAccounts \ {account} : balance'[a] = Absent <=> balance[a] = Absent
    BY <1>4, <2>1, TransferExists, TransferType DEF CloseVault
  <2>3. vault' = Absent /\ vault # Absent /\ AuthorityOf[account] = Pda
    BY <1>4 DEF CloseVault
  <2>4. NoneCreated'
    BY <2>2 DEF NoneCreated, Exists
  <2>5. CASE account = Ata
    BY <2>2, <2>3, <2>4, <2>5 DEF Recoverable, Exists
  <2>6. CASE account # Ata
    <3>1. account \in SideAccounts
      BY <2>3, <2>6 DEF SideAccounts
    <3>2. StartBalance[account] # Absent
      BY <1>4, <2>6 DEF CloseVault, NoneCreated
    <3>3. QED
      BY <2>2, <2>3, <2>4, <3>1, <3>2 DEF Recoverable, Exists
  <2>7. QED
    BY <2>5, <2>6
<1>5. CASE RevokeAgent \/ \E u \in Updates : UpdateRules(u)
  <2>1. vault # Absent /\ vault' # Absent /\ UNCHANGED balance
    BY <1>5, RulesType, VaultAssumption
  <2>2. QED
    BY <1>1, <2>1
<1>6. QED
  BY <1>1, <1>2, <1>3, <1>4, <1>5 DEF Next, OwnerActs, Tick, vars

\* A vault can always be closed by way of its associated account, and be
\* created again afterwards, for any accounts and sequence of instructions,
\* unless it was closed by way of another one.
THEOREM RecoverableCorrect == Spec => []Recoverable
<1>1. Init => Recoverable /\ NoneCreated
  BY VaultAssumption DEF Init, Recoverable, NoneCreated, Exists
<1>2. IInv /\ IInv' /\ Recoverable /\ NoneCreated /\ [Next]_vars
        => Recoverable' /\ NoneCreated'
  BY RecoverableStep DEF IInv
<1>3. QED
  BY <1>1, <1>2, IInvCorrect, PTL DEF Spec

-----------------------------------------------------------------------------
(* The tokens. *)

\* What the accounts hold; an account that does not exist holds nothing.
Coins(b) == [a \in TokenAccounts |-> IF b[a] # Absent THEN b[a] ELSE 0]

LEMMA CoinsAdd ==
    ASSUME NEW b, NEW accounts \in SUBSET TokenAccounts
    PROVE  MapThenSumSet(LAMBDA a : IF b[a] # Absent THEN b[a] ELSE 0, accounts)
             = SumOf(Coins(b), accounts)
<1> DEFINE Equation(sum) ==
             sum = [T \in SUBSET accounts |->
                      IF T = {} THEN 0
                      ELSE (IF b[Pick(T)] # Absent THEN b[Pick(T)] ELSE 0) + sum[T \ {Pick(T)}]]
           chosen == CHOOSE sum : Equation(sum)
<1>1. MapThenSumSet(LAMBDA a : IF b[a] # Absent THEN b[a] ELSE 0, accounts) = chosen[accounts]
  BY DEF MapThenSumSet, MapThenFoldSet, Pick
<1>2. ASSUME NEW sum PROVE Equation(sum) <=> Adds(sum, Coins(b), accounts)
  <2>1. ASSUME NEW T \in SUBSET accounts, T # {}
        PROVE  Coins(b)[Pick(T)] = IF b[Pick(T)] # Absent THEN b[Pick(T)] ELSE 0
    BY <2>1 DEF Pick, Coins
  <2>2. [T \in SUBSET accounts |->
            IF T = {} THEN 0
            ELSE (IF b[Pick(T)] # Absent THEN b[Pick(T)] ELSE 0) + sum[T \ {Pick(T)}]]
          = [T \in SUBSET accounts |->
                IF T = {} THEN 0 ELSE Coins(b)[Pick(T)] + sum[T \ {Pick(T)}]]
    BY <2>1
  <2>3. QED
    BY <2>2 DEF Adds
<1>3. IsFiniteSet(accounts)
  BY VaultAssumption, FS_Subset
<1>4. Adds(chosen, Coins(b), accounts)
  <2>1. \E sum : Equation(sum)
    BY <1>2, <1>3, AddsExists
  <2> HIDE DEF Equation
  <2>2. Equation(chosen)
    BY <2>1
  <2>3. QED
    BY <1>2, <2>2
<1>5. chosen[accounts] = SumOf(Coins(b), accounts)
  <2> HIDE DEF chosen
  <2>1. QED
    BY <1>3, <1>4, SumBySolution
<1>6. QED
  BY <1>1, <1>5

Balances == [TokenAccounts -> Nat \cup {Absent}]

LEMMA CoinsType ==
    ASSUME NEW b \in Balances, NEW accounts \in SUBSET TokenAccounts
    PROVE  /\ IsFiniteSet(accounts)
           /\ \A a \in accounts : Coins(b)[a] \in Nat
           /\ SumOf(Coins(b), accounts) \in Nat
<1>1. IsFiniteSet(accounts)
  BY VaultAssumption, FS_Subset
<1>2. \A a \in accounts : Coins(b)[a] \in Nat
  BY DEF Coins, Balances
<1>3. QED
  BY <1>1, <1>2, SumOfType

\* What a transfer that names the account moves in or out of the accounts.
Part(amount, account, accounts) == IF account \in accounts THEN amount ELSE 0

Moved(b, from, to, amount) == [b EXCEPT ![from] = @ - amount, ![to] = @ + amount]

\* A transfer between two accounts, seen from a set of accounts: what one of
\* them pays leaves the set, and what one of them receives enters it.
LEMMA CoinsMoved ==
    ASSUME NEW b \in Balances, NEW accounts \in SUBSET TokenAccounts,
           NEW from \in TokenAccounts, NEW to \in TokenAccounts, from # to,
           NEW amount \in Nat, b[from] \in Nat, b[to] \in Nat, amount <= b[from]
    PROVE  SumOf(Coins(Moved(b, from, to, amount)), accounts) + Part(amount, from, accounts)
             = SumOf(Coins(b), accounts) + Part(amount, to, accounts)
<1> DEFINE m == [b EXCEPT ![from] = @ - amount]
           c == Moved(b, from, to, amount)
<1>1. m \in Balances /\ c \in Balances
  BY DEF Balances, Moved
<1>2. Absent \notin Nat /\ b[from] - amount \in Nat /\ b[to] + amount \in Nat
  BY VaultAssumption
<1>3. /\ Coins(b)[from] = b[from] /\ Coins(m)[from] = b[from] - amount
      /\ Coins(m)[to] = b[to] /\ Coins(c)[to] = b[to] + amount
  BY <1>2 DEF Coins, Balances, Moved
<1>4. /\ \A a \in accounts \ {from} : Coins(m)[a] = Coins(b)[a]
      /\ \A a \in accounts \ {to} : Coins(c)[a] = Coins(m)[a]
  BY DEF Coins, Balances, Moved
<1> HIDE DEF m, c
<1>5. /\ IsFiniteSet(accounts)
      /\ \A a \in accounts : Coins(b)[a] \in Nat /\ Coins(m)[a] \in Nat /\ Coins(c)[a] \in Nat
      /\ SumOf(Coins(b), accounts) \in Nat
      /\ SumOf(Coins(m), accounts) \in Nat /\ SumOf(Coins(c), accounts) \in Nat
  BY <1>1, CoinsType
<1>6. SumOf(Coins(m), accounts) + Part(amount, from, accounts)
        = SumOf(Coins(b), accounts)
  <2>1. /\ from \in accounts =>
              SumOf(Coins(m), accounts) + Coins(b)[from] = SumOf(Coins(b), accounts) + Coins(m)[from]
        /\ from \notin accounts => SumOf(Coins(m), accounts) = SumOf(Coins(b), accounts)
    BY <1>4, <1>5, SumOfUpdate
  <2>2. QED
    BY <1>2, <1>3, <1>5, <2>1 DEF Part
<1>7. SumOf(Coins(c), accounts)
        = SumOf(Coins(m), accounts) + Part(amount, to, accounts)
  <2>1. /\ to \in accounts =>
              SumOf(Coins(c), accounts) + Coins(m)[to] = SumOf(Coins(m), accounts) + Coins(c)[to]
        /\ to \notin accounts => SumOf(Coins(c), accounts) = SumOf(Coins(m), accounts)
    BY <1>4, <1>5, SumOfUpdate
  <2>2. QED
    BY <1>2, <1>3, <1>5, <2>1 DEF Part
<1>8. SumOf(Coins(c), accounts) + Part(amount, from, accounts)
        = SumOf(Coins(b), accounts) + Part(amount, to, accounts)
  BY <1>5, <1>6, <1>7 DEF Part
<1>9. QED
  BY <1>8 DEF c

\* The same of a transfer that the token program accepts.
LEMMA TransferMoves ==
    ASSUME TypeOK, NEW accounts \in SUBSET TokenAccounts,
           NEW from \in TokenAccounts, NEW to \in TokenAccounts, NEW amount \in Nat,
           CanTransfer(from, to, amount)
    PROVE  SumOf(Coins(Transferred(from, to, amount)), accounts)
               + Part(amount, from, accounts)
             = SumOf(Coins(balance), accounts) + Part(amount, to, accounts)
<1>1. /\ balance \in Balances /\ balance[from] \in Nat /\ balance[to] \in Nat
      /\ amount <= balance[from]
  BY DEF TypeOK, CanTransfer, Exists, Balances
<1>2. CASE from = to
  BY <1>2 DEF Transferred
<1>3. CASE from # to
  BY <1>1, <1>3, CoinsMoved DEF Transferred, Moved
<1>4. QED
  BY <1>2, <1>3

LEMMA HeldIsSum ==
    ASSUME NEW accounts \in SUBSET TokenAccounts
    PROVE  /\ Held(accounts) = SumOf(Coins(balance), accounts)
           /\ Held(accounts)' = SumOf(Coins(balance'), accounts)
<1>1. Held(accounts) = SumOf(Coins(balance), accounts)
  BY CoinsAdd DEF Held, Exists
<1>2. MapThenSumSet(LAMBDA a : IF balance'[a] # Absent THEN balance'[a] ELSE 0, accounts)
        = SumOf(Coins(balance'), accounts)
  BY CoinsAdd
<1>3. Held(accounts)' = SumOf(Coins(balance'), accounts)
  BY <1>2 DEF Held, Exists, MapThenSumSet, MapThenFoldSet
<1>4. QED
  BY <1>1, <1>3

\* Only a withdrawal takes tokens out of the accounts of a vault that stays
\* open, and it takes no more than it charges.
LEMMA WithdrawalCharged ==
    ASSUME TypeOK, [Next]_vars, vault # Absent, vault' # Absent, VaultHeld' < VaultHeld
    PROVE  VaultHeld - VaultHeld' <= vault'.spent /\ vault'.spent <= vault.perDay
<1> DEFINE ours == {a \in TokenAccounts : AuthorityOf[a] = Pda}
<1>1. /\ VaultHeld = SumOf(Coins(balance), ours)
      /\ VaultHeld' = SumOf(Coins(balance'), ours)
  BY HeldIsSum DEF VaultHeld
<1>2. balance' # balance
  BY <1>1, CoinsType DEF TypeOK, Balances
<1>3. ASSUME NEW from \in TokenAccounts, NEW to \in TokenAccounts, NEW amount \in Nat,
             CanTransfer(from, to, amount), balance' = Transferred(from, to, amount)
      PROVE  /\ VaultHeld \in Nat /\ VaultHeld' \in Nat
             /\ VaultHeld' + Part(amount, from, ours)
                  = VaultHeld + Part(amount, to, ours)
  <2> HIDE DEF ours
  <2>1. ours \in SUBSET TokenAccounts
    BY DEF ours
  <2>2. balance \in Balances /\ balance' \in Balances
    BY <1>3, TransferType DEF TypeOK, Balances
  <2>3. QED
    BY <1>1, <1>3, <2>1, <2>2, CoinsType, TransferMoves
<1>4. ASSUME NEW s \in Signers, NEW from \in TokenAccounts, NEW to \in TokenAccounts,
             NEW amount \in Amounts, Deposit(s, from, to, amount)
      PROVE  FALSE
  <2>1. from \notin ours /\ to \in ours /\ amount \in Nat
    BY <1>4, VaultAssumption DEF Deposit
  <2>2. VaultHeld \in Nat /\ VaultHeld' \in Nat /\ VaultHeld' = VaultHeld + amount
    BY <1>3, <1>4, <2>1 DEF Deposit, Part
  <2>3. QED
    BY <2>1, <2>2
<1>5. ASSUME NEW s \in Signers, NEW from \in TokenAccounts, NEW to \in TokenAccounts,
             NEW amount \in Amounts, GuardedWithdraw(s, from, to, amount)
      PROVE  VaultHeld - VaultHeld' <= vault'.spent /\ vault'.spent <= vault.perDay
  <2>1. from \in ours /\ amount \in Nat
    BY <1>5, VaultAssumption DEF GuardedWithdraw
  <2>2. /\ VaultHeld \in Nat /\ VaultHeld' \in Nat
        /\ VaultHeld' + amount = VaultHeld + Part(amount, to, ours)
    BY <1>3, <1>5, <2>1 DEF GuardedWithdraw, Part
  <2>3. vault'.spent = SpentInWindow(vault) + amount /\ SpentInWindow(vault) \in Nat
    BY <1>5 DEF GuardedWithdraw, Charged, TypeOK, VaultState, SpentInWindow
  <2>4. SpentInWindow(vault) + amount <= vault.perDay
    BY <1>5 DEF GuardedWithdraw, MayWithdraw
  <2> HIDE DEF ours
  <2>5. Part(amount, to, ours) \in {0, amount}
    BY DEF Part
  <2>6. ASSUME NEW held \in Nat, NEW left \in Nat, NEW part \in {0, amount},
               left + amount = held + part
        PROVE  held - left <= amount
    BY <2>1, <2>6
  <2>7. VaultHeld - VaultHeld' <= amount
    BY <2>2, <2>5, <2>6
  <2>8. ASSUME NEW held \in Nat, NEW left \in Nat, held - left <= amount
        PROVE  held - left <= SpentInWindow(vault) + amount
    BY <2>1, <2>3, <2>8
  <2>9. VaultHeld - VaultHeld' <= SpentInWindow(vault) + amount
    BY <2>2, <2>7, <2>8
  <2>10. QED
    BY <2>3, <2>4, <2>9
<1>6. QED
  BY <1>2, <1>4, <1>5
  DEF Next, OwnerActs, InitializeVault, UpdateRules, RevokeAgent, CloseVault, Tick, vars

\* What leaves an open vault is in its counter, within the cap of the day,
\* also when the withdrawal starts the next window.
THEOREM WithdrawalsChargedCorrect == Spec => WithdrawalsCharged
<1>1. IInv /\ [Next]_vars
        => [vault # Absent /\ vault' # Absent /\ VaultHeld' < VaultHeld =>
               /\ VaultHeld - VaultHeld' <= vault'.spent
               /\ vault'.spent <= vault.perDay]_vars
  BY WithdrawalCharged DEF IInv
<1>2. QED
  BY <1>1, IInvCorrect, PTL DEF Spec, WithdrawalsCharged

-----------------------------------------------------------------------------
(* Beside the proxy is the vault. *)

LEMMA VaultStep == [ProxyNext]_proxyVars => [Next]_vars
  BY DEF ProxyNext, proxyVars, Finalize, ReceiveSolana, QueryVault, ForwardSolana

\* Every step of the proxy and the chain is a step of the program, or none:
\* the bounds on what leaves a vault hold whatever the proxy does.
THEOREM VaultUnderneath == ProxySpec => Spec
<1>1. ProxyInit => Init
  BY DEF ProxyInit
<1>2. QED
  BY <1>1, VaultStep, PTL DEF ProxySpec, Spec

-----------------------------------------------------------------------------
(* The inductive invariant: a call that passed was checked against the vault *)
(* that it read, at a time that has gone by.                                 *)

\* What the check leaves behind.  That the agent had not expired does not
\* stay true, and is not part of it.
Checked(v, a) ==
    /\ v.active
    /\ a.amount <= v.perTx
    /\ v.spent + a.amount <= MaxU64 /\ v.spent + a.amount <= v.perDay
    /\ v.allowed = {} \/ a.destination \in v.allowed \cup {Absent}

CheckedInv ==
    \A c \in Calls :
        /\ stage[c] = "query" \/ Passed(c) => args[c] \in CallArgs
        /\ Passed(c) => seen[c] \in VaultState /\ Checked(seen[c], args[c])

ProxyIInv == ProxyTypeOK /\ CheckedInv

LEMMA PreflightAnswers ==
    ASSUME NEW v \in VaultState, NEW a \in CallArgs
    PROVE  /\ Preflight(v, a) \in {"forward"} \cup Refusals
           /\ Preflight(v, a) = "forward" => Checked(v, a)
<1>1. v.spent \in Nat /\ v.perTx \in Nat /\ v.perDay \in Nat /\ a.amount \in Nat /\ MaxU64 \in Nat
  BY VaultAssumption, CallAssumption DEF VaultState, Limit
<1>2. QED
  BY <1>1 DEF Preflight, Checked, Refusals

LEMMA InitProxyIInv == ProxyInit => ProxyIInv
<1> SUFFICES ASSUME ProxyInit PROVE ProxyIInv
  OBVIOUS
<1>1. TypeOK
  BY InitIInv DEF ProxyInit, IInv
<1>2. QED
  BY <1>1 DEF ProxyInit, ProxyIInv, ProxyTypeOK, CheckedInv, Passed

LEMMA NextProxyIInv == TypeOK' /\ ProxyIInv /\ [ProxyNext]_proxyVars => ProxyIInv'
<1> SUFFICES ASSUME TypeOK', ProxyIInv, [ProxyNext]_proxyVars PROVE ProxyIInv'
  OBVIOUS
<1> USE DEF ProxyIInv
<1>1. CASE UNCHANGED calls /\ (Finalize \/ UNCHANGED finalized)
  <2>1. finalized' \in VaultState \cup {Absent}
    BY <1>1 DEF Finalize, ProxyTypeOK, TypeOK
  <2>2. UNCHANGED <<stage, args, seen>>
    BY <1>1 DEF calls
  <2>3. QED
    BY <2>1, <2>2 DEF ProxyTypeOK, CheckedInv, Passed
<1>2. ASSUME NEW c \in Calls, ReceiveSolana(c) PROVE ProxyIInv'
  BY <1>2 DEF ReceiveSolana, ProxyTypeOK, CheckedInv, Passed, Refusals
<1>3. ASSUME NEW c \in Calls, QueryVault(c) PROVE ProxyIInv'
  <2>1. CASE /\ UNCHANGED seen
             /\ \/ stage' = [stage EXCEPT ![c] = "Internal"]
                \/ stage' = [stage EXCEPT ![c] = "NotFound"]
    BY <1>3, <2>1, CallAssumption, VaultAssumption
    DEF QueryVault, ProxyTypeOK, CheckedInv, Passed, Refusals
  <2>2. CASE /\ finalized # Absent
             /\ seen' = [seen EXCEPT ![c] = finalized]
             /\ stage' = [stage EXCEPT ![c] = Preflight(finalized, args[c])]
    <3>1. finalized \in VaultState /\ args[c] \in CallArgs
      BY <1>3, <2>2 DEF QueryVault, ProxyTypeOK, CheckedInv
    <3>2. /\ Preflight(finalized, args[c]) \in {"forward"} \cup Refusals
          /\ Preflight(finalized, args[c]) = "forward" => Checked(finalized, args[c])
      BY <3>1, PreflightAnswers
    <3>3. UNCHANGED <<vars, finalized, args>>
      BY <1>3 DEF QueryVault
    <3>4. ProxyTypeOK'
      BY <2>2, <3>1, <3>2, <3>3 DEF ProxyTypeOK, Refusals
    <3>5. CheckedInv'
      BY <2>2, <3>1, <3>2, <3>3 DEF ProxyTypeOK, CheckedInv, Passed, Refusals
    <3>6. QED
      BY <3>4, <3>5
  <2>3. QED
    BY <1>3, <2>1, <2>2 DEF QueryVault
<1>4. ASSUME NEW c \in Calls, ForwardSolana(c) PROVE ProxyIInv'
  BY <1>4 DEF ForwardSolana, ProxyTypeOK, CheckedInv, Passed, Refusals
<1>5. QED
  BY <1>1, <1>2, <1>3, <1>4 DEF ProxyNext, proxyVars, Finalize

\* The invariant of the flow: types, and what a call knows of the vault that
\* it read, in every reachable state.
THEOREM ProxyIInvCorrect == ProxySpec => []ProxyIInv
<1>1. ProxySpec => []TypeOK
  <2>1. IInv => TypeOK
    BY DEF IInv
  <2>2. QED
    BY <2>1, VaultUnderneath, IInvCorrect, PTL
<1>2. QED
  BY <1>1, InitProxyIInv, NextProxyIInv, PTL DEF ProxySpec

\* Type correctness of the proxy beside the vault.
THEOREM ProxyTypeCorrect == ProxySpec => []ProxyTypeOK
<1>1. ProxyIInv => ProxyTypeOK
  BY DEF ProxyIInv
<1>2. QED
  BY <1>1, ProxyIInvCorrect, PTL

-----------------------------------------------------------------------------

\* What passed the check is accepted by the program, on the same vault, at
\* any later time before the agent expires: a window that has elapsed since
\* only makes room.
THEOREM PassedMeansAcceptedCorrect == ProxySpec => []PassedMeansAccepted
<1>1. ProxyIInv => PassedMeansAccepted
  <2> SUFFICES ASSUME ProxyIInv, NEW c \in Calls, Passed(c), seen[c] = vault,
                      args[c].amount > 0, args[c].destination # Absent, NotExpired(vault),
                      NEW to \in Destinations(c)
               PROVE  MayWithdraw(vault, vault.agent, to, args[c].amount)
    BY DEF PassedMeansAccepted, AcceptedByProgram
  <2>1. /\ vault \in VaultState /\ Checked(vault, args[c])
        /\ args[c].amount \in Nat
    BY CallAssumption DEF ProxyIInv, CheckedInv
  <2>2. /\ vault.spent \in Nat /\ vault.perDay \in Nat /\ MaxU64 \in Nat
    BY <2>1, VaultAssumption DEF VaultState, Limit
  <2>3. /\ SpentInWindow(vault) + args[c].amount <= MaxU64
        /\ SpentInWindow(vault) + args[c].amount <= vault.perDay
    BY <2>1, <2>2 DEF Checked, SpentInWindow
  <2>4. Whitelisted(vault, to)
    BY <2>1 DEF Checked, Whitelisted, Destinations
  <2>5. QED
    BY <2>1, <2>3, <2>4 DEF MayWithdraw, Checked
<1>2. QED
  BY <1>1, ProxyIInvCorrect, PTL
=============================================================================
