------------------------- MODULE PaymentProxy_proofs -------------------------
(***************************************************************************)
(* Theorems about PaymentProxy for every value of its constants: the       *)
(* inductive invariant IInv, and from it that no nonce is delivered twice  *)
(* for requests that name an agent, that a session key stays within its    *)
(* limit, that revocation is final, and that the proxy implements          *)
(* MeteredPayments.                                                        *)
(***************************************************************************)
EXTENDS PaymentProxy, SumTheorems

-----------------------------------------------------------------------------
(* Facts about single operators. *)

\* What the handler does after looking at the payment is one of its answers
\* or the await that fits what the payment names.
LEMMA VerifyPaymentAnswers ==
    ASSUME NEW p \in Payload
    PROVE  \/ VerifyPayment(p) \in {"BadRequest", "Unauthorized"}
           \/ VerifyPayment(p) = "findKey" /\ p.key # Absent
           \/ VerifyPayment(p) = "findAgent" /\ p.key = Absent /\ p.agent # Absent
           \/ VerifyPayment(p) = "storeNonce" /\ p.key = Absent /\ p.agent = Absent
  BY DEF VerifyPayment, FirstAwait, AfterKey, Payload, Forms

\* A clamped lifetime is at most MAX_NONCE_TTL.
LEMMA NonceTtlBounded ==
    ASSUME NEW p \in Payload
    PROVE  NonceTtl(p) \in 0..MaxTtl
  BY ProxyAssumption DEF NonceTtl, Payload

\* The limit extracted from rules of the table is a number, or there is none.
LEMMA DailyLimitType ==
    ASSUME NEW S \in SUBSET RuleRow, NEW limit \in ExtractDailyLimit(S)
    PROVE  limit \in Nat \cup {Absent}
<1>1. CASE DailyLimits(S) = {}
  BY <1>1 DEF ExtractDailyLimit
<1>2. CASE DailyLimits(S) # {}
  <2>1. PICK rule \in S : rule.type.kind = "MaxSpendPerDay" /\ limit = rule.type.arg
    BY <1>2 DEF ExtractDailyLimit, DailyLimits
  <2>2. rule.type \in RuleType
    BY <2>1, ProxyAssumption DEF RuleRow
  <2>3. rule.type.arg \in Nat
    BY <2>1, <2>2 DEF RuleType
  <2>4. QED
    BY <2>1, <2>3
<1>3. QED
  BY <1>1, <1>2

\* The queries return rows of their tables.
LEMMA QueryTypes ==
    ASSUME TypeOK, NEW a
    PROVE  WindowRows(a) \in SUBSET LedgerRow /\ ActiveRules(a) \in SUBSET RuleRow
  BY DEF TypeOK, WindowRows, ActiveRules

-----------------------------------------------------------------------------
(* The invariant holds initially and every action keeps it. *)

LEMMA InitIInv == Init => IInv
  BY ProxyAssumption
  DEF Init, IInv, TypeOK, CarriesInv, KeyFoundInv, LedgerInv, ReservedInv,
      KeyLimitInv, NoStmt, Awaits, KeyRow, Payload, Metered



-----------------------------------------------------------------------------
(* What a step of one request leaves alone. *)

\* Rows, requests and their relation depend on two variables only.
LEMMA RowFrame ==
    ASSUME UNCHANGED <<ledger, payload>>, NEW q \in Requests
    PROVE  /\ HasRow(q)' <=> HasRow(q)
           /\ Metered(q)' <=> Metered(q)
  BY DEF HasRow, RowOf, Metered

\* A request that moves on without touching the ledger keeps LedgerInv,
\* unless it went back behind its INSERT.
LEMMA LedgerFrame ==
    ASSUME TypeOK, LedgerInv, NEW r \in Requests, NEW s, Goto(r, s),
           s \in PastInsert \/ status[r] \notin PastInsert,
           UNCHANGED <<ledger, payload>>
    PROVE  LedgerInv'
<1>1. ASSUME NEW row \in ledger PROVE status'[row.id] \in PastInsert /\ RowOf(row, row.id)'
  BY DEF TypeOK, LedgerInv, Goto, RowOf, LedgerRow
<1>2. QED
  BY <1>1 DEF LedgerInv

\* A request that moves on keeps ReservedInv if nothing else changes, unless
\* it skipped its INSERT.
LEMMA ReservedFrame ==
    ASSUME TypeOK, ReservedInv, NEW r \in Requests, NEW s, Goto(r, s),
           status[r] \in Awaits,
           s \in {"charge", "forward"} /\ Metered(r) => HasRow(r),
           UNCHANGED <<ledger, payload, delivered>>
    PROVE  ReservedInv'
<1>1. r \notin delivered
  BY DEF ReservedInv, Answered, Awaits, Answers
<1>2. \A q \in Requests : q # r => status'[q] = status[q]
  BY DEF TypeOK, Goto
<1>3. status'[r] = s
  BY DEF TypeOK, Goto
<1>4. \A q \in Requests : (HasRow(q)' <=> HasRow(q)) /\ (Metered(q)' <=> Metered(q))
  BY RowFrame
<1>5. \A q \in Requests : q # r => (Answered(q)' <=> Answered(q))
  BY <1>2 DEF Answered
<1>6. ASSUME NEW q \in Requests, status'[q] \in {"charge", "forward"}, Metered(q)'
      PROVE  HasRow(q)'
  BY <1>2, <1>3, <1>4, <1>6 DEF ReservedInv
<1>7. ASSUME NEW q \in delivered'
      PROVE  Answered(q)' /\ (Metered(q)' => HasRow(q)')
  BY <1>1, <1>4, <1>5, <1>7 DEF ReservedInv, TypeOK
<1>8. QED
  BY <1>6, <1>7 DEF ReservedInv

-----------------------------------------------------------------------------
(* The steps of a request keep the invariant. *)

LEMMA FindKeyIInv ==
    ASSUME IInv, NEW r \in Requests, FindKey(r)
    PROVE  IInv'
<1> USE DEF IInv, tables, locals
<1>1. PICK s : Goto(r, s) /\ (\/ s \in Answers
                              \/ s = "storeNonce" /\ keys[payload[r].key] # Absent
                              \/ s = "findAgent" /\ Metered(r) /\ keys[payload[r].key] # Absent)
  <2> DEFINE t == AnswerOfKey(keys[payload[r].key], payload[r])
  <2>1. \/ t \in Answers
        \/ t = "storeNonce" /\ keys[payload[r].key] # Absent
        \/ t = "findAgent" /\ Metered(r) /\ keys[payload[r].key] # Absent
    BY DEF FindKey, AnswerOfKey, AfterKey, CarriesInv, Metered, Answers
  <2>2. Goto(r, t)
    BY DEF FindKey
  <2> HIDE DEF t
  <2>3. QED
    BY <2>1, <2>2
<1>2. TypeOK'
  BY <1>1 DEF FindKey, TypeOK, Goto, Awaits, Answers
<1>3. CarriesInv'
  BY <1>1 DEF FindKey, TypeOK, CarriesInv, Goto, Metered, Answers
<1>4. KeyFoundInv'
  BY <1>1 DEF FindKey, TypeOK, CarriesInv, KeyFoundInv, Goto, Awaits, Answers
<1>5. LedgerInv'
  BY <1>1, LedgerFrame DEF FindKey, PastInsert, Answers
<1>6. ReservedInv'
  BY <1>1, ReservedFrame DEF FindKey, Awaits, Answers
<1>7. KeyLimitInv'
  BY DEF FindKey, TypeOK, KeyLimitInv
<1>8. QED
  BY <1>2, <1>3, <1>4, <1>5, <1>6, <1>7

LEMMA FindAgentIInv ==
    ASSUME IInv, NEW r \in Requests, FindAgent(r)
    PROVE  IInv'
<1> USE DEF IInv, tables, locals
<1>1. PICK s : Goto(r, s) /\ (s \in Answers \/ s = "findRules")
  BY DEF FindAgent, AnswerOfAgent, Answers
<1>2. TypeOK'
  BY <1>1 DEF FindAgent, TypeOK, Goto, Awaits, Answers
<1>3. CarriesInv'
  BY <1>1 DEF FindAgent, TypeOK, CarriesInv, Goto, Metered, Answers
<1>4. KeyFoundInv'
  BY <1>1 DEF FindAgent, TypeOK, CarriesInv, KeyFoundInv, Goto, Awaits, Answers
<1>5. LedgerInv'
  BY <1>1, LedgerFrame DEF FindAgent, PastInsert, Answers
<1>6. ReservedInv'
  BY <1>1, ReservedFrame DEF FindAgent, Awaits, Answers
<1>7. KeyLimitInv'
  BY DEF FindAgent, TypeOK, KeyLimitInv
<1>8. QED
  BY <1>2, <1>3, <1>4, <1>5, <1>6, <1>7

LEMMA FindRulesIInv ==
    ASSUME IInv, NEW r \in Requests, FindRules(r)
    PROVE  IInv'
<1> USE DEF IInv, tables, locals
<1>1. PICK s : Goto(r, s) /\ (s = "sumSpent")
  BY DEF FindRules
<1>2. TypeOK'
  BY <1>1, QueryTypes DEF FindRules, TypeOK, Goto, Awaits
<1>3. CarriesInv'
  BY <1>1 DEF FindRules, TypeOK, CarriesInv, Goto, Metered, Answers
<1>4. KeyFoundInv'
  BY <1>1 DEF FindRules, TypeOK, CarriesInv, KeyFoundInv, Goto, Awaits, Answers
<1>5. LedgerInv'
  BY <1>1, LedgerFrame DEF FindRules, PastInsert, Answers
<1>6. ReservedInv'
  BY <1>1, ReservedFrame DEF FindRules, Awaits, Answers
<1>7. KeyLimitInv'
  BY DEF FindRules, TypeOK, KeyLimitInv
<1>8. QED
  BY <1>2, <1>3, <1>4, <1>5, <1>6, <1>7

LEMMA SumSpentIInv ==
    ASSUME IInv, NEW r \in Requests, SumSpent(r)
    PROVE  IInv'
<1> USE DEF IInv, tables, locals
<1>1. PICK s : Goto(r, s) /\ (s \in Answers \/ s = "storeNonce")
  BY DEF SumSpent, Answers
<1>2. TypeOK'
  BY <1>1 DEF SumSpent, TypeOK, Goto, Awaits, Answers
<1>3. CarriesInv'
  BY <1>1 DEF SumSpent, TypeOK, CarriesInv, Goto, Metered, Answers
<1>4. KeyFoundInv'
  BY <1>1 DEF SumSpent, TypeOK, CarriesInv, KeyFoundInv, Goto, Awaits, Answers
<1>5. LedgerInv'
  BY <1>1, LedgerFrame DEF SumSpent, PastInsert, Answers
<1>6. ReservedInv'
  BY <1>1, ReservedFrame DEF SumSpent, Awaits, Answers
<1>7. KeyLimitInv'
  BY DEF SumSpent, TypeOK, KeyLimitInv
<1>8. QED
  BY <1>2, <1>3, <1>4, <1>5, <1>6, <1>7

LEMMA StoreNonceIInv ==
    ASSUME IInv, NEW r \in Requests, StoreNonce(r)
    PROVE  IInv'
<1> USE DEF IInv, tables, locals
<1>1. PICK s : Goto(r, s) /\ (s \in Answers \/ s = "rateLimit")
  BY DEF StoreNonce, Answers
<1>2. TypeOK'
  <2>1. NonceTtl(payload[r]) \in 0..MaxTtl
    BY NonceTtlBounded, ProxyAssumption DEF StoreNonce, TypeOK, CarriesInv
  <2>2. nonces' \in [Nonces -> 0..(MaxTime + MaxTtl)]
    BY <2>1, ProxyAssumption DEF StoreNonce, TypeOK
  <2>3. seenRules' \in [Requests -> SUBSET RuleRow]
    BY DEF StoreNonce, TypeOK
  <2>4. status' \in [Requests -> {"idle", "Aborted"} \cup Awaits \cup Answers]
    BY <1>1 DEF TypeOK, Goto, Awaits
  <2>5. QED
    BY <2>2, <2>3, <2>4 DEF StoreNonce, TypeOK
<1>3. CarriesInv'
  BY <1>1 DEF StoreNonce, TypeOK, CarriesInv, Goto, Metered, Answers
<1>4. KeyFoundInv'
  BY <1>1 DEF StoreNonce, TypeOK, CarriesInv, KeyFoundInv, Goto, Awaits, Answers
<1>5. LedgerInv'
  BY <1>1, LedgerFrame DEF StoreNonce, PastInsert, Answers
<1>6. ReservedInv'
  BY <1>1, ReservedFrame DEF StoreNonce, Awaits, Answers
<1>7. KeyLimitInv'
  BY DEF StoreNonce, TypeOK, KeyLimitInv
<1>8. QED
  BY <1>2, <1>3, <1>4, <1>5, <1>6, <1>7

LEMMA CheckRateIInv ==
    ASSUME IInv, NEW r \in Requests, CheckRate(r)
    PROVE  IInv'
<1> USE DEF IInv, tables, locals
<1>1. PICK s : Goto(r, s) /\ (\/ s \in Answers
                              \/ s = "reserve" /\ Metered(r)
                              \/ s = "forward" /\ ~Metered(r))
  <2>1. CASE Metered(r) /\ Goto(r, "reserve")
    BY <2>1
  <2>2. CASE ~Metered(r) /\ Goto(r, "forward")
    BY <2>2
  <2>3. CASE Goto(r, "RateLimited")
    BY <2>3 DEF Answers
  <2>4. QED
    BY <2>1, <2>2, <2>3 DEF CheckRate
<1>2. TypeOK'
  BY <1>1 DEF CheckRate, TypeOK, Goto, Awaits, Answers
<1>3. CarriesInv'
  BY <1>1 DEF CheckRate, TypeOK, CarriesInv, Goto, Metered, Answers
<1>4. KeyFoundInv'
  BY <1>1 DEF CheckRate, TypeOK, CarriesInv, KeyFoundInv, Goto, Awaits, Answers
<1>5. LedgerInv'
  BY <1>1, LedgerFrame DEF CheckRate, PastInsert, Answers
<1>6. ReservedInv'
  BY <1>1, ReservedFrame DEF CheckRate, Awaits, Answers
<1>7. KeyLimitInv'
  BY DEF CheckRate, TypeOK, KeyLimitInv
<1>8. QED
  BY <1>2, <1>3, <1>4, <1>5, <1>6, <1>7

LEMMA BeginInsertIInv ==
    ASSUME IInv, NEW r \in Requests, BeginInsert(r)
    PROVE  IInv'
<1> USE DEF IInv, tables, locals
<1>1. PICK s : Goto(r, s) /\ (s \in Answers \/ s = "inserting")
  BY DEF BeginInsert, Answers
<1>2. TypeOK'
  <2>1. WindowRows(payload[r].agent) \in SUBSET LedgerRow
    BY QueryTypes
  <2>2. \A limit \in ExtractDailyLimit(seenRules[r]) : limit \in Nat \cup {Absent}
    BY DailyLimitType DEF TypeOK
  <2>3. stmt' \in [Requests -> [limit: Nat \cup {Absent}, rows: SUBSET LedgerRow, at: Nat]]
    BY <2>1, <2>2 DEF BeginInsert, TypeOK
  <2>4. seenRules' \in [Requests -> SUBSET RuleRow]
    BY DEF BeginInsert, TypeOK
  <2>5. status' \in [Requests -> {"idle", "Aborted"} \cup Awaits \cup Answers]
    BY <1>1 DEF TypeOK, Goto, Awaits
  <2>6. QED
    BY <2>3, <2>4, <2>5 DEF BeginInsert, TypeOK
<1>3. CarriesInv'
  <2>1. payload[r].value > MaxI64 => \E t \in Answers : Goto(r, t)
    BY DEF BeginInsert, Answers
  <2>2. payload[r] \in Payload
    BY ProxyAssumption DEF BeginInsert, TypeOK, CarriesInv
  <2>3. payload[r].value \in Nat /\ MaxI64 \in Nat
    BY <2>2, WidthAssumption DEF Payload
  <2>4. status'[r] = "inserting" => payload[r].value <= MaxI64
    BY <2>1, <2>3 DEF TypeOK, Goto, Answers
  <2>5. QED
    BY <1>1, <2>4 DEF BeginInsert, TypeOK, CarriesInv, Goto, Metered, Answers
<1>4. KeyFoundInv'
  BY <1>1 DEF BeginInsert, TypeOK, CarriesInv, KeyFoundInv, Goto, Awaits, Answers
<1>5. LedgerInv'
  BY <1>1, LedgerFrame DEF BeginInsert, PastInsert, Answers
<1>6. ReservedInv'
  BY <1>1, ReservedFrame DEF BeginInsert, Awaits, Answers
<1>7. KeyLimitInv'
  BY DEF BeginInsert, TypeOK, KeyLimitInv
<1>8. QED
  BY <1>2, <1>3, <1>4, <1>5, <1>6, <1>7

LEMMA ReceiveIInv ==
    ASSUME IInv, NEW r \in Requests, Receive(r)
    PROVE  IInv'
<1> USE DEF IInv, tables, locals
<1>1. PICK p \in Payloads : payload' = [payload EXCEPT ![r] = p] /\ Goto(r, VerifyPayment(p))
  BY DEF Receive
<1>2. p \in Payload /\ p # Absent
  BY <1>1, ProxyAssumption DEF TypeOK
<1>3. PICK s : /\ Goto(r, s)
               /\ \/ s \in {"BadRequest", "Unauthorized"}
                  \/ s = "findKey" /\ p.key # Absent
                  \/ s = "findAgent" /\ p.key = Absent /\ p.agent # Absent
                  \/ s = "storeNonce" /\ p.key = Absent /\ p.agent = Absent
  BY <1>1, <1>2, VerifyPaymentAnswers, Zenon
<1>4. status[r] = "idle"
  BY DEF Receive
<1>5. /\ payload'[r] = p /\ status'[r] = s
      /\ \A q \in Requests : q # r => payload'[q] = payload[q] /\ status'[q] = status[q]
  BY <1>1, <1>3 DEF Goto, TypeOK
<1>6. TypeOK'
  BY <1>1, <1>3 DEF Receive, TypeOK, Goto, Awaits, Answers
<1>7. CarriesInv'
  BY <1>2, <1>3, <1>5 DEF CarriesInv, Metered
<1>8. KeyFoundInv'
  BY <1>3, <1>5 DEF Receive, KeyFoundInv, Awaits
<1>9. LedgerInv'
  <2>1. ASSUME NEW row \in ledger
        PROVE  row.id \in Requests /\ row.id # r
    BY <1>4 DEF LedgerInv, PastInsert, Answers, TypeOK, LedgerRow
  <2>2. ASSUME NEW row \in ledger
        PROVE  status'[row.id] \in PastInsert /\ RowOf(row, row.id)'
    BY <1>5, <2>1 DEF LedgerInv, RowOf
  <2>3. QED
    BY <2>2 DEF Receive, LedgerInv
<1>10. ReservedInv'
  <2>1. r \notin delivered
    BY <1>4 DEF ReservedInv, Answered, Answers
  <2>2. \A q \in Requests : q # r => /\ HasRow(q)' <=> HasRow(q)
                                     /\ Metered(q)' <=> Metered(q)
                                     /\ Answered(q)' <=> Answered(q)
    BY <1>5 DEF Receive, HasRow, RowOf, Metered, Answered
  <2>3. ASSUME NEW q \in Requests, status'[q] \in {"charge", "forward"}, Metered(q)'
        PROVE  HasRow(q)'
    BY <1>3, <1>5, <2>2, <2>3 DEF ReservedInv
  <2>4. ASSUME NEW q \in delivered'
        PROVE  Answered(q)' /\ (Metered(q)' => HasRow(q)')
    BY <2>1, <2>2, <2>4 DEF Receive, ReservedInv, TypeOK
  <2>5. QED
    BY <2>3, <2>4 DEF ReservedInv
<1>11. KeyLimitInv'
  BY DEF Receive, KeyLimitInv
<1>12. QED
  BY <1>6, <1>7, <1>8, <1>9, <1>10, <1>11

\* A row is inserted once per request, under a nonce no other row has.
LEMMA RowAdded ==
    ASSUME IInv, NEW r \in Requests, status[r] = "inserting",
           ~InsertFails(r), Fits(r), ledger' = ledger \cup {NewRow(r)},
           NEW s \in PastInsert, Goto(r, s), UNCHANGED <<payload, delivered>>
    PROVE  ledger' \in SUBSET LedgerRow /\ LedgerInv' /\ ReservedInv'
<1> USE DEF IInv
<1>1. Metered(r) /\ payload[r] \in Payload
  BY ProxyAssumption DEF CarriesInv, TypeOK
<1>2. NewRow(r) \in LedgerRow
  <2>1. payload[r].value \in Nat /\ MaxI64 \in Nat
    BY <1>1, WidthAssumption DEF Payload
  <2>2. payload[r].value # 0 /\ payload[r].value <= MaxI64
    BY DEF InsertFails, CarriesInv
  <2>3. payload[r].value \in 1..MaxI64
    BY <2>1, <2>2
  <2>4. QED
    BY <1>1, <2>3 DEF NewRow, LedgerRow, Payload, Metered, TypeOK
<1>3. NewRow(r).id = r /\ NewRow(r).nonce = payload[r].nonce /\ RowOf(NewRow(r), r)
  BY DEF NewRow, RowOf
<1>4. \A row \in ledger : row.id \in Requests /\ row.id # r
  BY DEF LedgerInv, PastInsert, Answers, TypeOK, LedgerRow
<1>5. \A row \in ledger : row.nonce # payload[r].nonce
  BY DEF InsertFails
<1>6. status'[r] = s /\ \A q \in Requests : q # r => status'[q] = status[q]
  BY DEF Goto, TypeOK
<1>7. LedgerInv'
  <2>1. ASSUME NEW row \in ledger' PROVE status'[row.id] \in PastInsert /\ RowOf(row, row.id)'
    BY <1>3, <1>4, <1>6 DEF LedgerInv, RowOf
  <2>2. ASSUME NEW row \in ledger', NEW other \in ledger', row.nonce = other.nonce
        PROVE  row = other
    BY <1>3, <1>5, <2>2 DEF LedgerInv
  <2>3. ASSUME NEW row \in ledger', NEW other \in ledger', row.id = other.id
        PROVE  row = other
    BY <1>3, <1>4, <2>3 DEF LedgerInv
  <2>4. QED
    BY <2>1, <2>2, <2>3 DEF LedgerInv
<1>8. ReservedInv'
  <2>1. HasRow(r)'
    BY <1>3 DEF HasRow, RowOf
  <2>2. \A q \in Requests : (Metered(q)' <=> Metered(q)) /\ (HasRow(q) => HasRow(q)')
    BY DEF Metered, HasRow, RowOf
  <2>3. r \notin delivered
    BY DEF ReservedInv, Answered, Answers
  <2>4. ASSUME NEW q \in Requests, status'[q] \in {"charge", "forward"}, Metered(q)'
        PROVE  HasRow(q)'
    BY <1>6, <2>1, <2>2, <2>4 DEF ReservedInv
  <2>5. ASSUME NEW q \in delivered'
        PROVE  Answered(q)' /\ (Metered(q)' => HasRow(q)')
    BY <1>6, <2>2, <2>3, <2>5 DEF ReservedInv, Answered, TypeOK
  <2>6. QED
    BY <2>4, <2>5 DEF ReservedInv
<1>9. QED
  BY <1>2, <1>7, <1>8 DEF TypeOK

LEMMA CommitInsertIInv ==
    ASSUME IInv, NEW r \in Requests, CommitInsert(r)
    PROVE  IInv'
<1> USE DEF IInv, tables, locals
<1>1. PICK s : /\ Goto(r, s)
               /\ \/ s \in Answers /\ UNCHANGED ledger
                  \/ /\ s \in {"forward", "charge"}
                     /\ s = "charge" => payload[r].key # Absent
                     /\ ~InsertFails(r) /\ Fits(r)
                     /\ ledger' = ledger \cup {NewRow(r)}
  <2>1. CASE Goto(r, "Internal") /\ UNCHANGED ledger
    BY <2>1 DEF Answers
  <2>2. CASE Goto(r, "GuardrailViolation") /\ UNCHANGED ledger
    BY <2>2 DEF Answers
  <2>3. CASE /\ Goto(r, IF payload[r].key # Absent THEN "charge" ELSE "forward")
             /\ ~InsertFails(r) /\ Fits(r)
             /\ ledger' = ledger \cup {NewRow(r)}
    <3>1. CASE payload[r].key # Absent
      BY <2>3, <3>1
    <3>2. CASE payload[r].key = Absent
      BY <2>3, <3>2
    <3>3. QED
      BY <3>1, <3>2
  <2>4. QED
    BY <2>1, <2>2, <2>3 DEF CommitInsert
<1>2. /\ status[r] = "inserting" /\ Metered(r)
      /\ UNCHANGED <<now, agents, rules, keys, nonces, payload, seenRules, delivered>>
  BY DEF CommitInsert, CarriesInv
<1>3. ledger' \in SUBSET LedgerRow /\ LedgerInv' /\ ReservedInv'
  <2>1. CASE s \in Answers /\ UNCHANGED ledger
    <3>1. LedgerInv'
      BY <1>1, <1>2, <2>1, LedgerFrame DEF PastInsert
    <3>2. ReservedInv'
      BY <1>1, <1>2, <2>1, ReservedFrame DEF Awaits, Answers
    <3>3. QED
      BY <2>1, <3>1, <3>2 DEF TypeOK
  <2>2. CASE ~InsertFails(r) /\ Fits(r) /\ ledger' = ledger \cup {NewRow(r)}
    BY <1>1, <1>2, <2>2, RowAdded DEF PastInsert
  <2>3. QED
    BY <1>1, <2>1, <2>2
<1>4. TypeOK'
  BY <1>1, <1>2, <1>3 DEF CommitInsert, TypeOK, Goto, Awaits, Answers, NoStmt
<1>5. CarriesInv'
  BY <1>1, <1>2 DEF TypeOK, CarriesInv, Goto, Metered, Answers
<1>6. KeyFoundInv'
  BY <1>1, <1>2 DEF TypeOK, KeyFoundInv, Goto, Awaits, Answers
<1>7. KeyLimitInv'
  BY <1>2 DEF KeyLimitInv
<1>8. QED
  BY <1>3, <1>4, <1>5, <1>6, <1>7

LEMMA ChargeKeyIInv ==
    ASSUME IInv, NEW r \in Requests, ChargeKey(r)
    PROVE  IInv'
<1> USE DEF IInv, tables, locals
<1> DEFINE p == payload[r]
<1>1. /\ status[r] = "charge" /\ Metered(r)
      /\ p \in Payload /\ p.key \in Keys /\ p.value \in Nat
      /\ keys[p.key] \in KeyRow
  BY ProxyAssumption
  DEF ChargeKey, CarriesInv, KeyFoundInv, TypeOK, Payload, Metered, Awaits
<1>2. UNCHANGED <<now, agents, rules, ledger, nonces, payload, seenRules, stmt, delivered>>
  BY DEF ChargeKey
<1>3. PICK s : Goto(r, s) /\ s \in {"forward", "GuardrailViolation"}
  BY DEF ChargeKey
<1>4. /\ keys' \in [Keys -> KeyRow \cup {Absent}]
      /\ \A k \in Keys : keys[k] # Absent => keys'[k] # Absent
      /\ KeyLimitInv'
  <2>1. CASE /\ keys[p.key].spent + p.value <= keys[p.key].max
             /\ keys' = [keys EXCEPT ![p.key].spent = @ + p.value]
    <3>1. [keys[p.key] EXCEPT !.spent = @ + p.value] \in KeyRow
      BY <1>1 DEF KeyRow
    <3>2. /\ keys'[p.key] \in KeyRow /\ keys'[p.key].spent <= keys'[p.key].max
          /\ \A k \in Keys : k # p.key => keys'[k] = keys[k]
          /\ keys' \in [Keys -> KeyRow \cup {Absent}]
      BY <1>1, <2>1, <3>1 DEF TypeOK, KeyRow
    <3>3. QED
      BY <3>2, ProxyAssumption DEF KeyLimitInv
  <2>2. CASE UNCHANGED keys
    BY <2>2 DEF KeyLimitInv, TypeOK
  <2>3. QED
    BY <2>1, <2>2 DEF ChargeKey
<1>5. TypeOK'
  BY <1>2, <1>3, <1>4 DEF TypeOK, Goto, Awaits, Answers
<1>6. CarriesInv'
  BY <1>1, <1>2, <1>3 DEF TypeOK, CarriesInv, Goto, Metered
<1>7. KeyFoundInv'
  BY <1>1, <1>2, <1>3, <1>4, ProxyAssumption
  DEF TypeOK, KeyFoundInv, CarriesInv, Goto, Awaits, Payload
<1>8. LedgerInv'
  BY <1>2, <1>3, LedgerFrame DEF PastInsert, Answers
<1>9. ReservedInv'
  <2>1. HasRow(r)
    BY <1>1 DEF ReservedInv
  <2>2. QED
    BY <1>1, <1>2, <1>3, <2>1, ReservedFrame DEF Awaits
<1>10. QED
  BY <1>4, <1>5, <1>6, <1>7, <1>8, <1>9

LEMMA ForwardIInv ==
    ASSUME IInv, NEW r \in Requests, Forward(r)
    PROVE  IInv'
<1> USE DEF IInv, tables, locals
<1>1. PICK s : Goto(r, s) /\ s \in Answers
  BY DEF Forward, Answers
<1>2. /\ status[r] = "forward" /\ delivered' \in {delivered, delivered \cup {r}}
      /\ UNCHANGED <<now, tables, nonces, payload, stmt>>
  BY DEF Forward
<1>3. TypeOK'
  BY <1>1, <1>2 DEF Forward, TypeOK, Goto
<1>4. CarriesInv'
  BY <1>1, <1>2 DEF TypeOK, CarriesInv, Goto, Metered, Answers
<1>5. KeyFoundInv'
  BY <1>1, <1>2 DEF TypeOK, KeyFoundInv, Goto, Awaits, Answers
<1>6. LedgerInv'
  BY <1>1, <1>2, LedgerFrame DEF PastInsert
<1>7. ReservedInv'
  <2>1. status'[r] = s /\ \A q \in Requests : q # r => status'[q] = status[q]
    BY <1>1 DEF TypeOK, Goto
  <2>2. \A q \in Requests : (HasRow(q)' <=> HasRow(q)) /\ (Metered(q)' <=> Metered(q))
    BY <1>2, RowFrame
  <2>3. ASSUME NEW q \in Requests, status'[q] \in {"charge", "forward"}, Metered(q)'
        PROVE  HasRow(q)'
    BY <1>1, <2>1, <2>2, <2>3 DEF ReservedInv, Answers
  <2>4. ASSUME NEW q \in delivered'
        PROVE  Answered(q)' /\ (Metered(q)' => HasRow(q)')
    <3>1. CASE q = r
      BY <1>1, <1>2, <2>1, <2>2, <3>1 DEF ReservedInv, Answered
    <3>2. CASE q # r
      BY <1>2, <2>1, <2>2, <2>4, <3>2 DEF ReservedInv, Answered, TypeOK
    <3>3. QED
      BY <3>1, <3>2
  <2>5. QED
    BY <2>3, <2>4 DEF ReservedInv
<1>8. KeyLimitInv'
  BY <1>2 DEF KeyLimitInv
<1>9. QED
  BY <1>3, <1>4, <1>5, <1>6, <1>7, <1>8

LEMMA AbortIInv ==
    ASSUME IInv, NEW r \in Requests, Abort(r)
    PROVE  IInv'
<1> USE DEF IInv, tables, locals
<1>1. PICK s \in {"Aborted", "Internal"} :
          /\ status[r] \in Awaits /\ Goto(r, s)
          /\ UNCHANGED <<now, agents, rules, keys, nonces, payload, delivered>>
  BY DEF Abort
<1>0. s \notin Awaits \cup {"idle"} /\ s \in {"Aborted"} \cup Answers /\ s \in PastInsert
  BY DEF Awaits, Answers, PastInsert
<1>2. ledger' \in SUBSET LedgerRow /\ LedgerInv' /\ ReservedInv'
  <2>1. CASE UNCHANGED ledger
    <3>1. LedgerInv'
      BY <1>0, <1>1, <2>1, LedgerFrame
    <3>2. ReservedInv'
      BY <1>1, <2>1, ReservedFrame
    <3>3. QED
      BY <2>1, <3>1, <3>2 DEF TypeOK
  <2>2. CASE /\ status[r] = "inserting" /\ ~InsertFails(r) /\ Fits(r)
             /\ ledger' = ledger \cup {NewRow(r)}
    BY <1>0, <1>1, <2>2, RowAdded
  <2>3. QED
    BY <2>1, <2>2 DEF Abort
<1>3. TypeOK'
  BY <1>0, <1>1, <1>2 DEF Abort, TypeOK, Goto, NoStmt
<1>4. CarriesInv'
  BY <1>1 DEF TypeOK, CarriesInv, Goto, Metered, Awaits
<1>5. KeyFoundInv'
  BY <1>1 DEF TypeOK, KeyFoundInv, Goto, Awaits
<1>6. KeyLimitInv'
  BY <1>1 DEF KeyLimitInv
<1>7. QED
  BY <1>2, <1>3, <1>4, <1>5, <1>6

-----------------------------------------------------------------------------
(* The management handlers and the environment keep it too. *)

\* What the requests are at, what they carry and what they have done are no
\* business of a management handler; session keys never disappear.
LEMMA ManageFrame ==
    ASSUME IInv, UNCHANGED <<dbOnly, ledger>>,
           agents' \in [Agents -> {"none", "active", "inactive"}],
           rules' \in [RuleIds -> RuleRow \cup {Absent}],
           keys' \in [Keys -> KeyRow \cup {Absent}],
           \A k \in Keys : keys[k] # Absent => keys'[k] # Absent,
           KeyLimitInv'
    PROVE  IInv'
<1> USE DEF IInv, dbOnly, locals
<1>1. TypeOK'
  BY DEF TypeOK
<1>2. CarriesInv'
  BY DEF CarriesInv, Metered
<1>3. KeyFoundInv'
  <2>1. ASSUME NEW r \in Requests, status[r] \in Awaits, payload[r].key # Absent,
               status[r] # "findKey"
        PROVE  payload[r].key \in Keys
    BY <2>1, ProxyAssumption DEF TypeOK, CarriesInv, Awaits, Payload
  <2>2. QED
    BY <2>1 DEF KeyFoundInv
<1>4. LedgerInv'
  BY DEF LedgerInv, RowOf
<1>5. ReservedInv'
  BY DEF ReservedInv, HasRow, RowOf, Metered, Answered
<1>6. QED
  BY <1>1, <1>2, <1>3, <1>4, <1>5

LEMMA ManageIInv ==
    ASSUME IInv, Manage
    PROVE  IInv'
<1> USE DEF dbOnly
<1>1. TypeOK /\ KeyLimitInv
  BY DEF IInv
<1>2. ASSUME NEW a \in Agents, CreateAgent(a) PROVE IInv'
  BY <1>1, <1>2, ManageFrame DEF CreateAgent, TypeOK, KeyLimitInv
<1>3. ASSUME NEW a \in Agents, RevokeAll(a) PROVE IInv'
  <2>1. \A k \in Keys : /\ keys[k] = Absent => keys'[k] = Absent
                        /\ keys[k] # Absent => keys'[k] \in KeyRow
                        /\ keys[k] # Absent => /\ keys'[k].spent = keys[k].spent
                                               /\ keys'[k].max = keys[k].max
    BY <1>1, <1>3 DEF RevokeAll, TypeOK, KeyRow
  <2>2. keys' \in [Keys -> KeyRow \cup {Absent}]
    BY <1>3, <2>1 DEF RevokeAll
  <2>3. KeyLimitInv' /\ \A k \in Keys : keys[k] # Absent => keys'[k] # Absent
    BY <1>1, <2>1, ProxyAssumption DEF KeyLimitInv
  <2>4. QED
    BY <1>1, <1>3, <2>2, <2>3, ManageFrame DEF RevokeAll, TypeOK
<1>4. ASSUME NEW a \in Agents, NEW i \in RuleIds,
             CreateRule(i, a) \/ UpdateRule(i, a) \/ DeactivateRule(i, a)
      PROVE  IInv'
  <2>1. rules' \in [RuleIds -> RuleRow \cup {Absent}]
    <3>1. CASE CreateRule(i, a)
      BY <1>1, <3>1 DEF CreateRule, TypeOK, RuleRow
    <3>2. CASE UpdateRule(i, a)
      <4>1. PICK t \in RuleTypes, active \in BOOLEAN :
              rules' = [rules EXCEPT ![i].type = t, ![i].active = active]
        BY <3>2 DEF UpdateRule
      <4>2. rules[i] \in RuleRow
        BY <1>1, <3>2 DEF UpdateRule, TypeOK
      <4>3. [rules[i] EXCEPT !.type = t, !.active = active] \in RuleRow
        BY <4>2 DEF RuleRow
      <4>4. rules' = [rules EXCEPT ![i] = [rules[i] EXCEPT !.type = t, !.active = active]]
        BY <1>1, <4>1 DEF TypeOK
      <4>5. QED
        BY <1>1, <4>3, <4>4 DEF TypeOK
    <3>3. CASE DeactivateRule(i, a)
      BY <1>1, <3>3 DEF DeactivateRule, TypeOK, RuleRow
    <3>4. QED
      BY <1>4, <3>1, <3>2, <3>3
  <2>2. UNCHANGED <<agents, keys, ledger, dbOnly>>
    BY <1>4 DEF CreateRule, UpdateRule, DeactivateRule
  <2>3. KeyLimitInv'
    BY <1>1, <2>2 DEF KeyLimitInv
  <2>4. QED
    BY <1>1, <2>1, <2>2, <2>3, ManageFrame DEF TypeOK
<1>5. ASSUME NEW a \in Agents, NEW k \in Keys, CreateSessionKey(k, a) PROVE IInv'
  <2>1. PICK spec \in KeySpecs :
          keys' = [keys EXCEPT ![k] =
             [agent |-> a, max |-> spec.max, spent |-> 0, expires |-> spec.expires,
              allowed |-> spec.allowed, revoked |-> FALSE]]
    BY <1>5 DEF CreateSessionKey
  <2>2. spec.max \in Nat /\ spec.expires \in Nat /\ spec.allowed \in SUBSET Address
    BY ProxyAssumption
  <2>3. /\ keys'[k] \in KeyRow /\ keys'[k].spent <= keys'[k].max
        /\ \A j \in Keys : j # k => keys'[j] = keys[j]
        /\ keys' \in [Keys -> KeyRow \cup {Absent}]
    BY <1>1, <2>1, <2>2 DEF TypeOK, KeyRow
  <2>4. KeyLimitInv' /\ \A j \in Keys : keys[j] # Absent => keys'[j] # Absent
    BY <1>1, <2>3, ProxyAssumption DEF KeyLimitInv
  <2>5. QED
    BY <1>1, <1>5, <2>3, <2>4, ManageFrame DEF CreateSessionKey, TypeOK
<1>6. ASSUME NEW a \in Agents, NEW k \in Keys, RevokeSessionKey(k, a) PROVE IInv'
  <2>1. keys[k] \in KeyRow /\ keys' = [keys EXCEPT ![k].revoked = TRUE]
    BY <1>1, <1>6 DEF RevokeSessionKey, TypeOK
  <2>2. /\ keys'[k] \in KeyRow /\ keys'[k].spent = keys[k].spent
        /\ keys'[k].max = keys[k].max
        /\ \A j \in Keys : j # k => keys'[j] = keys[j]
        /\ keys' \in [Keys -> KeyRow \cup {Absent}]
    BY <1>1, <2>1 DEF TypeOK, KeyRow
  <2>3. KeyLimitInv' /\ \A j \in Keys : keys[j] # Absent => keys'[j] # Absent
    BY <1>1, <1>6, <2>2, ProxyAssumption DEF RevokeSessionKey, KeyLimitInv
  <2>4. QED
    BY <1>1, <1>6, <2>2, <2>3, ManageFrame DEF RevokeSessionKey, TypeOK
<1>7. QED
  BY <1>2, <1>3, <1>4, <1>5, <1>6 DEF Manage, ManageAgent

LEMMA EnvironmentIInv ==
    ASSUME IInv, Tick \/ LoseNonces \/ UNCHANGED vars
    PROVE  IInv'
<1> USE DEF IInv, tables, locals, vars
<1>1. UNCHANGED <<agents, rules, keys, ledger, status, payload, seenRules, stmt, delivered>>
  BY DEF Tick, LoseNonces
<1>2. now' \in 0..MaxTime /\ nonces' \in [Nonces -> 0..(MaxTime + MaxTtl)]
  <2>1. CASE Tick
    BY <2>1, ProxyAssumption DEF Tick, TypeOK
  <2>2. CASE LoseNonces
    BY <2>2, ProxyAssumption DEF LoseNonces, TypeOK, tables
  <2>3. CASE UNCHANGED vars
    BY <2>3 DEF TypeOK
  <2>4. QED
    BY <2>1, <2>2, <2>3
<1>3. TypeOK'
  BY <1>1, <1>2 DEF TypeOK
<1>4. CarriesInv' /\ KeyFoundInv' /\ KeyLimitInv'
  BY <1>1 DEF CarriesInv, KeyFoundInv, KeyLimitInv, Metered
<1>5. LedgerInv' /\ ReservedInv'
  BY <1>1 DEF LedgerInv, ReservedInv, HasRow, RowOf, Metered, Answered
<1>6. QED
  BY <1>3, <1>4, <1>5

LEMMA NextIInv ==
    ASSUME IInv, [Next]_vars
    PROVE  IInv'
<1>1. ASSUME NEW r \in Requests, Receive(r) \/ Step(r) \/ Abort(r) PROVE IInv'
  BY <1>1, ReceiveIInv, AbortIInv, FindKeyIInv, FindAgentIInv, FindRulesIInv,
     SumSpentIInv, StoreNonceIInv, CheckRateIInv, BeginInsertIInv,
     CommitInsertIInv, ChargeKeyIInv, ForwardIInv DEF Step
<1>2. CASE Manage
  BY <1>2, ManageIInv
<1>3. CASE Tick \/ LoseNonces \/ UNCHANGED vars
  BY <1>3, EnvironmentIInv
<1>4. CASE Done
  BY <1>4, EnvironmentIInv DEF Done
<1>5. QED
  BY <1>1, <1>2, <1>3, <1>4 DEF Next

-----------------------------------------------------------------------------
(* The theorems. *)

\* The inductive invariant holds in every reachable state: requests carry
\* what their awaits read, the ledger has one row per request and per nonce,
\* whatever is past its reservation has its row, and no key is over its limit.
THEOREM IInvCorrect == Spec => []IInv
<1>1. Init => IInv
  BY InitIInv
<1>2. IInv /\ [Next]_vars => IInv'
  BY NextIInv
<1>3. QED
  BY <1>1, <1>2, PTL DEF Spec

\* The variables keep their types, which for the columns of the tables are
\* the constraints of the migrations.
THEOREM TypeCorrect == Spec => []TypeOK
<1>1. IInv => TypeOK
  BY DEF IInv
<1>2. QED
  BY <1>1, IInvCorrect, PTL

\* For any number of concurrent requests, crashes and lost nonce keys, a
\* payment that names an agent reaches the upstream at most once per nonce.
THEOREM MeteredNonceOnceCorrect == Spec => []MeteredNonceOnce
<1>1. ASSUME IInv, NEW r \in DeliveredMetered, NEW q \in DeliveredMetered,
             payload[r].nonce = payload[q].nonce
      PROVE  r = q
  <2>1. PICK row \in ledger : RowOf(row, r)
    BY <1>1 DEF DeliveredMetered, IInv, ReservedInv, HasRow
  <2>2. PICK other \in ledger : RowOf(other, q)
    BY <1>1 DEF DeliveredMetered, IInv, ReservedInv, HasRow
  <2>3. row = other
    BY <1>1, <2>1, <2>2 DEF IInv, LedgerInv, RowOf
  <2>4. QED
    BY <2>1, <2>2, <2>3 DEF RowOf
<1>2. IInv => MeteredNonceOnce
  BY <1>1 DEF MeteredNonceOnce
<1>3. QED
  BY <1>2, IInvCorrect, PTL

\* The counter of a session key never exceeds the limit of the key, however
\* many requests charge it at once.
THEOREM KeyLimitCorrect == Spec => []KeyLimitInv
<1>1. IInv => KeyLimitInv
  BY DEF IInv
<1>2. QED
  BY <1>1, IInvCorrect, PTL

-----------------------------------------------------------------------------
(* Revocation. *)

\* Who writes agents and keys.
LEMMA TableFrame ==
    ASSUME NEW r \in Requests, Receive(r) \/ Step(r) \/ Abort(r), ~ChargeKey(r)
    PROVE  UNCHANGED <<agents, keys>>
  BY DEF Receive, Step, Abort, FindKey, FindAgent, FindRules, SumSpent, StoreNonce,
         CheckRate, BeginInsert, CommitInsert, Forward, tables, locals

LEMMA RevocationStep ==
    ASSUME TypeOK, [Next]_vars
    PROVE  /\ \A k \in Keys : keys[k] # Absent /\ keys[k].revoked =>
                 keys'[k].revoked /\ keys'[k].spent = keys[k].spent
           /\ \A a \in Agents : agents[a] = "inactive" => agents'[a] = "inactive"
<1> DEFINE Final ==
      /\ \A k \in Keys : keys[k] # Absent /\ keys[k].revoked =>
            keys'[k].revoked /\ keys'[k].spent = keys[k].spent
      /\ \A a \in Agents : agents[a] = "inactive" => agents'[a] = "inactive"
<1> SUFFICES Final
  OBVIOUS
<1>1. CASE UNCHANGED <<agents, keys>>
  BY <1>1
<1>2. ASSUME NEW r \in Requests, ChargeKey(r) PROVE Final
  <2>1. CASE UNCHANGED keys
    BY <1>2, <2>1 DEF ChargeKey
  <2>2. CASE /\ ~keys[payload[r].key].revoked
             /\ keys' = [keys EXCEPT ![payload[r].key].spent = @ + payload[r].value]
    <3>1. \A k \in Keys : k # payload[r].key => keys'[k] = keys[k]
      BY <2>2 DEF TypeOK
    <3>2. QED
      BY <1>2, <2>2, <3>1 DEF ChargeKey
  <2>3. QED
    BY <1>2, <2>1, <2>2 DEF ChargeKey
<1>3. ASSUME NEW a \in Agents, CreateAgent(a) \/ RevokeAll(a) PROVE Final
  <2>1. CASE CreateAgent(a)
    BY <2>1 DEF CreateAgent, TypeOK
  <2>2. CASE RevokeAll(a)
    <3>1. \A k \in Keys : keys[k] # Absent =>
             \/ keys'[k] = keys[k]
             \/ keys'[k].revoked = TRUE /\ keys'[k].spent = keys[k].spent
      BY <2>2 DEF RevokeAll, TypeOK, KeyRow
    <3>2. QED
      BY <2>2, <3>1 DEF RevokeAll, TypeOK
  <2>3. QED
    BY <1>3, <2>1, <2>2
<1>4. ASSUME NEW a \in Agents, NEW k \in Keys,
             CreateSessionKey(k, a) \/ RevokeSessionKey(k, a)
      PROVE  Final
  <2>1. CASE CreateSessionKey(k, a)
    BY <2>1 DEF CreateSessionKey, TypeOK
  <2>2. CASE RevokeSessionKey(k, a)
    <3>1. keys[k] \in KeyRow /\ keys' = [keys EXCEPT ![k].revoked = TRUE]
      BY <2>2 DEF RevokeSessionKey, TypeOK
    <3>2. /\ keys'[k].revoked = TRUE /\ keys'[k].spent = keys[k].spent
          /\ \A j \in Keys : j # k => keys'[j] = keys[j]
      BY <3>1 DEF TypeOK, KeyRow
    <3>3. QED
      BY <2>2, <3>2 DEF RevokeSessionKey
  <2>3. QED
    BY <1>4, <2>1, <2>2
<1>5. ASSUME NEW a \in Agents, NEW i \in RuleIds,
             CreateRule(i, a) \/ UpdateRule(i, a) \/ DeactivateRule(i, a)
      PROVE  UNCHANGED <<agents, keys>>
  BY <1>5 DEF CreateRule, UpdateRule, DeactivateRule
<1>6. ASSUME Tick \/ LoseNonces \/ Done \/ UNCHANGED vars
      PROVE  UNCHANGED <<agents, keys>>
  BY <1>6 DEF Tick, LoseNonces, Done, vars, tables
<1> HIDE DEF Final
<1>7. CASE \E r \in Requests : Receive(r) \/ Step(r) \/ Abort(r)
  BY <1>1, <1>2, <1>7, TableFrame
<1>8. CASE Manage
  BY <1>1, <1>3, <1>4, <1>5, <1>8 DEF Manage, ManageAgent
<1>9. QED
  BY <1>1, <1>6, <1>7, <1>8 DEF Next

\* Rows of session_keys are never deleted.
LEMMA KeysStay ==
    ASSUME IInv, [Next]_vars, NEW k \in Keys, keys[k] # Absent
    PROVE  keys'[k] # Absent
<1>1. keys[k] \in KeyRow
  BY DEF IInv, TypeOK
<1>2. CASE UNCHANGED keys
  BY <1>2
<1>3. ASSUME NEW r \in Requests, ChargeKey(r) PROVE keys'[k] # Absent
  <2>1. payload[r].value \in Nat /\ payload[r].key # Absent
    BY <1>3, ProxyAssumption DEF ChargeKey, IInv, TypeOK, CarriesInv, Payload
  <2>2. [keys[k] EXCEPT !.spent = @ + payload[r].value] \in KeyRow
    BY <1>1, <2>1 DEF KeyRow
  <2>3. keys'[k] \in {keys[k], [keys[k] EXCEPT !.spent = @ + payload[r].value]}
    BY <1>3 DEF ChargeKey, IInv, TypeOK
  <2>4. QED
    BY <2>2, <2>3, <1>1, ProxyAssumption
<1>4. ASSUME NEW a \in Agents, NEW j \in Keys,
             RevokeAll(a) \/ RevokeSessionKey(j, a) \/ CreateSessionKey(j, a)
      PROVE  keys'[k] # Absent
  <2>1. [keys[k] EXCEPT !.revoked = TRUE] \in KeyRow
    BY <1>1 DEF KeyRow
  <2>2. CASE RevokeAll(a) \/ RevokeSessionKey(j, a)
    <3>1. keys'[k] \in {keys[k], [keys[k] EXCEPT !.revoked = TRUE]}
      BY <2>2 DEF RevokeAll, RevokeSessionKey, IInv, TypeOK
    <3>2. QED
      BY <1>1, <2>1, <3>1, ProxyAssumption
  <2>3. CASE CreateSessionKey(j, a)
    BY <2>3 DEF CreateSessionKey, IInv, TypeOK
  <2>4. QED
    BY <1>4, <2>2, <2>3
<1>5. CASE \E r \in Requests : Receive(r) \/ Step(r) \/ Abort(r)
  BY <1>2, <1>3, <1>5, TableFrame
<1>6. CASE Manage
  BY <1>2, <1>4, <1>6 DEF Manage, ManageAgent, CreateAgent, CreateRule, UpdateRule, DeactivateRule
<1>7. CASE Tick \/ LoseNonces \/ Done \/ UNCHANGED vars
  BY <1>2, <1>7 DEF Tick, LoseNonces, Done, vars, tables
<1>8. QED
  BY <1>5, <1>6, <1>7 DEF Next

\* No step, of whatever request, adds to a revoked key or makes it or a
\* deactivated agent usable again.
THEOREM RevocationCorrect == Spec => RevocationIsFinal
<1>1. TypeOK /\ [Next]_vars =>
        [/\ \A k \in Keys : keys[k] # Absent /\ keys[k].revoked =>
               keys'[k].revoked /\ keys'[k].spent = keys[k].spent
         /\ \A a \in Agents : agents[a] = "inactive" => agents'[a] = "inactive"]_vars
  BY RevocationStep
<1>2. QED
  BY <1>1, TypeCorrect, PTL DEF Spec, RevocationIsFinal

-----------------------------------------------------------------------------
(* The proxy implements MeteredPayments. *)

Reservations == {<<row.id, row.nonce>> : row \in ledger}

LEMMA PaymentsVars ==
    ASSUME UNCHANGED <<ledger, payload, delivered>>
    PROVE  UNCHANGED Payments!vars
<1>1. DeliveredMetered' = DeliveredMetered
  BY DEF DeliveredMetered, Metered
<1>2. QED
  BY <1>1 DEF Payments!vars

\* A committed INSERT is a Reserve.
LEMMA InsertReserves ==
    ASSUME IInv, NEW r \in Requests, status[r] = "inserting",
           ~InsertFails(r), Fits(r), ledger' = ledger \cup {NewRow(r)},
           UNCHANGED <<payload, delivered>>
    PROVE  Payments!Next
<1>1. payload[r].nonce \in Nonces
  BY ProxyAssumption DEF IInv, TypeOK, CarriesInv, Payload
<1>2. \A row \in ledger : row.id # r /\ row.nonce # payload[r].nonce
  BY DEF IInv, LedgerInv, PastInsert, Answers, InsertFails
<1>3. Reservations' = Reservations \cup {<<r, payload[r].nonce>>}
  <2>1. NewRow(r).id = r /\ NewRow(r).nonce = payload[r].nonce
    BY DEF NewRow
  <2>2. Reservations' = {<<row.id, row.nonce>> : row \in ledger \cup {NewRow(r)}}
    BY DEF Reservations
  <2>3. QED
    BY <2>1, <2>2 DEF Reservations
<1>4. \A pair \in Reservations : pair[1] # r /\ pair[2] # payload[r].nonce
  BY <1>2 DEF Reservations
<1>5. DeliveredMetered' = DeliveredMetered
  BY DEF DeliveredMetered, Metered
<1>6. \E n \in Nonces : Payments!Reserve(r, n)
  BY <1>1, <1>3, <1>4, <1>5 DEF Payments!Reserve, Reservations
<1>7. QED
  BY <1>6 DEF Payments!Next

\* The forwarding of a metered request is a Settle; that of any other stutters.
LEMMA ForwardSettles ==
    ASSUME IInv, NEW r \in Requests, Forward(r)
    PROVE  [Payments!Next]_(Payments!vars)
<1>1. /\ status[r] = "forward" /\ UNCHANGED <<ledger, payload>>
      /\ delivered' \in {delivered, delivered \cup {r}}
  BY DEF Forward, tables
<1>2. CASE UNCHANGED delivered
  BY <1>1, <1>2, PaymentsVars
<1>3. CASE delivered' = delivered \cup {r} /\ ~Metered(r)
  <2>1. DeliveredMetered' = DeliveredMetered
    BY <1>1, <1>3 DEF DeliveredMetered, Metered
  <2>2. QED
    BY <1>1, <2>1 DEF Payments!vars
<1>4. CASE delivered' = delivered \cup {r} /\ Metered(r)
  <2>1. DeliveredMetered' = DeliveredMetered \cup {r} /\ r \notin DeliveredMetered
    BY <1>1, <1>4 DEF IInv, ReservedInv, Answered, Answers, DeliveredMetered, Metered
  <2>2. PICK row \in ledger : row.id = r /\ row.nonce = payload[r].nonce
    BY <1>1, <1>4 DEF IInv, ReservedInv, HasRow, RowOf
  <2>3. row.nonce \in Nonces /\ <<r, row.nonce>> \in Reservations
    BY <2>2 DEF IInv, TypeOK, LedgerRow, Reservations
  <2>4. Payments!Settle(r)
    BY <1>1, <2>1, <2>3 DEF Payments!Settle, Reservations
  <2>5. QED
    BY <2>4 DEF Payments!Next
<1>5. QED
  BY <1>1, <1>2, <1>3, <1>4

LEMMA PaymentsStep ==
    ASSUME IInv, [Next]_vars
    PROVE  [Payments!Next]_(Payments!vars)
<1> USE DEF tables, locals
<1>1. ASSUME NEW r \in Requests, Receive(r) PROVE UNCHANGED Payments!vars
  <2>1. status[r] = "idle" /\ UNCHANGED <<ledger, delivered>>
    BY <1>1 DEF Receive
  <2>2. \A q \in Requests : q # r => payload'[q] = payload[q]
    BY <1>1 DEF Receive, IInv, TypeOK
  <2>3. r \notin delivered /\ delivered \in SUBSET Requests
    BY <2>1 DEF IInv, TypeOK, ReservedInv, Answered, Answers
  <2>4. DeliveredMetered' = DeliveredMetered
    BY <2>1, <2>2, <2>3 DEF DeliveredMetered, Metered
  <2>5. QED
    BY <2>1, <2>4 DEF Payments!vars
<1>2. ASSUME NEW r \in Requests, CommitInsert(r) \/ Abort(r)
      PROVE  [Payments!Next]_(Payments!vars)
  <2>1. UNCHANGED <<payload, delivered>>
    BY <1>2 DEF CommitInsert, Abort
  <2>2. CASE UNCHANGED ledger
    BY <2>1, <2>2, PaymentsVars
  <2>3. CASE /\ status[r] = "inserting" /\ ~InsertFails(r) /\ Fits(r)
             /\ ledger' = ledger \cup {NewRow(r)}
    BY <2>1, <2>3, InsertReserves
  <2>4. QED
    BY <1>2, <2>2, <2>3 DEF CommitInsert, Abort
<1>3. ASSUME NEW r \in Requests,
             \/ FindKey(r) \/ FindAgent(r) \/ FindRules(r) \/ SumSpent(r)
             \/ StoreNonce(r) \/ CheckRate(r) \/ BeginInsert(r) \/ ChargeKey(r)
      PROVE  UNCHANGED <<ledger, payload, delivered>>
  BY <1>3 DEF FindKey, FindAgent, FindRules, SumSpent, StoreNonce, CheckRate,
              BeginInsert, ChargeKey
<1>4. ASSUME NEW r \in Requests, Receive(r) \/ Step(r) \/ Abort(r)
      PROVE  [Payments!Next]_(Payments!vars)
  BY <1>1, <1>2, <1>3, <1>4, PaymentsVars, ForwardSettles DEF Step
<1>5. ASSUME Manage \/ Tick \/ LoseNonces \/ Done \/ UNCHANGED vars
      PROVE  UNCHANGED <<ledger, payload, delivered>>
  BY <1>5 DEF Manage, ManageAgent, CreateAgent, RevokeAll, CreateRule, UpdateRule, DeactivateRule,
              CreateSessionKey, RevokeSessionKey, dbOnly, Tick, LoseNonces, Done, vars
<1>6. QED
  BY <1>4, <1>5, PaymentsVars DEF Next

\* Every behaviour of the proxy, projected to the ledger rows and the metered
\* requests that reached the upstream, is one of MeteredPayments: a payment
\* is reserved once, under a fresh nonce, and settled only when reserved.
THEOREM Refinement == Spec => ImplementsMeteredPayments
<1>1. Init => Payments!Init
  BY DEF Init, Payments!Init, DeliveredMetered
<1>2. IInv /\ [Next]_vars => [Payments!Next]_(Payments!vars)
  BY PaymentsStep
<1>3. QED
  BY <1>1, <1>2, IInvCorrect, PTL DEF Spec, ImplementsMeteredPayments, Payments!Spec

-----------------------------------------------------------------------------
(* A request that revocation cut off. *)

\* It has not reached the upstream, and is on its way to a refusal or is there.
Blocked(r) == r \notin delivered /\ (CutOff(r) \/ Answered(r))

\* The cut does not heal: while r stays where it is, so does what stops it.
LEMMA CutOffStays ==
    ASSUME IInv, [Next]_vars, NEW r \in Requests, CutOff(r),
           status'[r] = status[r], payload'[r] = payload[r]
    PROVE  CutOff(r)'
<1>1. payload[r] \in Payload /\ status[r] # "idle"
  BY ProxyAssumption DEF IInv, TypeOK, CarriesInv, CutOff, BeforeAgent, BeforeCharge
<1>2. BeforeAgent(r)' <=> BeforeAgent(r)
  BY DEF BeforeAgent, Metered
<1>3. BeforeCharge(r)' <=> BeforeCharge(r)
  BY DEF BeforeCharge, Metered
<1>4. CASE BeforeAgent(r) /\ agents[payload[r].agent] = "inactive"
  <2>1. payload[r].agent \in Agents
    BY <1>1, <1>4 DEF Payload, BeforeAgent, Metered
  <2>2. agents'[payload[r].agent] = "inactive"
    BY <1>4, <2>1, RevocationStep DEF IInv
  <2>3. QED
    BY <1>2, <1>4, <2>2 DEF CutOff
<1>5. CASE /\ BeforeCharge(r)
           /\ keys[payload[r].key] # Absent /\ keys[payload[r].key].revoked
  <2>1. payload[r].key \in Keys
    BY <1>1, <1>5 DEF Payload, BeforeCharge, IInv, CarriesInv
  <2>2. keys'[payload[r].key] # Absent
    BY <1>5, <2>1, KeysStay
  <2>3. keys'[payload[r].key].revoked
    BY <1>5, <2>1, RevocationStep DEF IInv
  <2>4. QED
    BY <1>3, <1>5, <2>2, <2>3 DEF CutOff
<1>6. QED
  BY <1>4, <1>5 DEF CutOff

\* Its own step takes it to a refusal, or to an await where it is still cut off.
LEMMA CutOffStep ==
    ASSUME IInv, NEW r \in Requests, CutOff(r), Step(r) \/ Abort(r)
    PROVE  Blocked(r)'
<1> USE DEF tables, locals
<1>1. /\ payload[r] # Absent /\ status[r] \in Awaits \ {"forward"}
      /\ UNCHANGED payload
      /\ r \notin delivered
  BY DEF CutOff, BeforeAgent, BeforeCharge, IInv, CarriesInv, ReservedInv, Answered,
         Answers, Awaits, Step, Abort, FindKey, FindAgent, FindRules, SumSpent,
         StoreNonce, CheckRate, BeginInsert, CommitInsert, ChargeKey, Forward
<1>2. ~Forward(r) /\ UNCHANGED delivered
  BY <1>1 DEF Step, Abort, FindKey, FindAgent, FindRules, SumSpent, StoreNonce,
              CheckRate, BeginInsert, CommitInsert, ChargeKey, Forward
<1>3. \A s : Goto(r, s) => status'[r] = s
  BY DEF Goto, IInv, TypeOK
<1>4. Metered(r)' <=> Metered(r)
  BY <1>1 DEF Metered
<1>5. ASSUME NEW s, Goto(r, s), s \in Answers \cup {"Aborted"} PROVE Blocked(r)'
  BY <1>1, <1>2, <1>3, <1>5 DEF Blocked, Answered
<1>6. CASE Abort(r)
  BY <1>5, <1>6 DEF Abort, Answers
<1>7. CASE FindKey(r)
  <2> DEFINE t == AnswerOfKey(keys[payload[r].key], payload[r])
  <2>1. Goto(r, t) /\ status[r] = "findKey"
    BY <1>7 DEF FindKey
  <2>2. t \in Answers \/ /\ ~keys[payload[r].key].revoked
                         /\ t = IF Metered(r) THEN "findAgent" ELSE "storeNonce"
    BY <1>1 DEF AnswerOfKey, VerifySessionKey, AfterKey, Metered, Answers
  <2> HIDE DEF t
  <2>3. CASE t \in Answers
    BY <1>5, <2>1, <2>3
  <2>4. CASE /\ ~keys[payload[r].key].revoked
             /\ t = IF Metered(r) THEN "findAgent" ELSE "storeNonce"
    <3>1. Metered(r) /\ agents[payload[r].agent] = "inactive"
      BY <2>4 DEF CutOff, BeforeAgent
    <3>2. status'[r] = "findAgent" /\ UNCHANGED agents
      BY <1>3, <1>7, <2>1, <2>4, <3>1 DEF FindKey
    <3>3. QED
      BY <1>1, <1>2, <1>4, <3>1, <3>2 DEF Blocked, CutOff, BeforeAgent
  <2>5. QED
    BY <2>2, <2>3, <2>4
<1>8. CASE FindAgent(r)
  <2>1. CASE agents[payload[r].agent] = "inactive"
    BY <1>5, <1>8, <2>1 DEF FindAgent, AnswerOfAgent, Answers
  <2>2. CASE agents[payload[r].agent] # "inactive"
    <3>1. /\ Metered(r) /\ payload[r].key # Absent
          /\ keys[payload[r].key] # Absent /\ keys[payload[r].key].revoked
      BY <1>8, <2>2 DEF CutOff, BeforeCharge, FindAgent
    <3>2. PICK s : Goto(r, s) /\ (s \in Answers \/ s = "findRules")
      BY <1>8 DEF FindAgent, AnswerOfAgent, Answers
    <3>3. CASE s = "findRules"
      BY <1>1, <1>2, <1>3, <1>4, <1>8, <3>1, <3>2, <3>3
      DEF FindAgent, Blocked, CutOff, BeforeCharge
    <3>4. QED
      BY <1>5, <3>2, <3>3
  <2>3. QED
    BY <2>1, <2>2
<1>9. CASE ChargeKey(r)
  BY <1>5, <1>9 DEF ChargeKey, CutOff, BeforeAgent, Answers
<1>10. CASE \/ FindRules(r) \/ SumSpent(r) \/ StoreNonce(r) \/ CheckRate(r)
            \/ BeginInsert(r) \/ CommitInsert(r)
  <2>1. /\ UNCHANGED keys /\ Metered(r) /\ payload[r].key # Absent
        /\ keys[payload[r].key] # Absent /\ keys[payload[r].key].revoked
    BY <1>10 DEF CutOff, BeforeAgent, BeforeCharge, FindRules, SumSpent, StoreNonce,
                 CheckRate, BeginInsert, CommitInsert
  <2>2. PICK s : /\ Goto(r, s)
                 /\ s \in Answers \cup {"sumSpent", "storeNonce", "rateLimit",
                                       "reserve", "inserting", "charge"}
    <3>1. CASE FindRules(r)
      BY <3>1 DEF FindRules
    <3>2. CASE SumSpent(r)
      BY <3>2 DEF SumSpent, Answers
    <3>3. CASE StoreNonce(r)
      BY <3>3 DEF StoreNonce, Answers
    <3>4. CASE CheckRate(r)
      BY <2>1, <3>4 DEF CheckRate, Answers
    <3>5. CASE BeginInsert(r)
      BY <3>5 DEF BeginInsert, Answers
    <3>6. CASE CommitInsert(r)
      BY <2>1, <3>6 DEF CommitInsert, Answers
    <3>7. QED
      BY <1>10, <3>1, <3>2, <3>3, <3>4, <3>5, <3>6
  <2>3. CASE s \in Answers
    BY <1>5, <2>2, <2>3
  <2>4. CASE s \in {"sumSpent", "storeNonce", "rateLimit", "reserve", "inserting", "charge"}
    <3>1. status'[r] = s
      BY <1>3, <2>2
    <3>2. BeforeCharge(r)'
      BY <1>1, <1>4, <2>1, <2>4, <3>1 DEF BeforeCharge
    <3>3. QED
      BY <1>1, <1>2, <2>1, <3>2 DEF Blocked, CutOff
  <2>5. QED
    BY <2>2, <2>3, <2>4
<1>11. QED
  BY <1>2, <1>6, <1>7, <1>8, <1>9, <1>10 DEF Step

LEMMA BlockedStep ==
    ASSUME IInv, [Next]_vars, NEW r \in Requests, Blocked(r)
    PROVE  Blocked(r)'
<1> USE DEF tables, locals
<1>1. CASE CutOff(r) /\ (Step(r) \/ Abort(r))
  BY <1>1, CutOffStep
<1>2. ASSUME NEW q \in Requests, q # r, Receive(q) \/ Step(q) \/ Abort(q)
      PROVE  status'[r] = status[r] /\ payload'[r] = payload[r] /\ r \notin delivered'
  <2>1. \E s : Goto(q, s)
    BY <1>2 DEF Step, Abort, Receive, FindKey, FindAgent, FindRules, SumSpent,
         StoreNonce, CheckRate, BeginInsert, CommitInsert, ChargeKey, Forward
  <2>2. status'[r] = status[r]
    BY <1>2, <2>1 DEF Goto, IInv, TypeOK
  <2>3. payload'[r] = payload[r]
    BY <1>2 DEF IInv, TypeOK, Step, Abort, Receive, FindKey, FindAgent, FindRules,
         SumSpent, StoreNonce, CheckRate, BeginInsert, CommitInsert, ChargeKey, Forward
  <2>4. r \notin delivered'
    BY <1>2 DEF Blocked, Step, Abort, Receive, FindKey, FindAgent, FindRules,
         SumSpent, StoreNonce, CheckRate, BeginInsert, CommitInsert, ChargeKey, Forward
  <2>5. QED
    BY <2>2, <2>3, <2>4
<1>3. ASSUME Manage \/ Tick \/ LoseNonces \/ Done \/ UNCHANGED vars
      PROVE  UNCHANGED <<status, payload, delivered>>
  BY <1>3 DEF Manage, ManageAgent, CreateAgent, RevokeAll, CreateRule, UpdateRule, DeactivateRule,
              CreateSessionKey, RevokeSessionKey, dbOnly, Tick, LoseNonces, Done, vars
<1>4. CASE Answered(r) /\ (Receive(r) \/ Step(r) \/ Abort(r))
  BY <1>4 DEF Answered, Answers, Awaits, Step, Abort, Receive, FindKey, FindAgent,
         FindRules, SumSpent, StoreNonce, CheckRate, BeginInsert, CommitInsert,
         ChargeKey, Forward
<1>5. CASE CutOff(r) /\ Receive(r)
  BY <1>5 DEF CutOff, BeforeAgent, BeforeCharge, Receive
<1>6. CASE status'[r] = status[r] /\ payload'[r] = payload[r] /\ r \notin delivered'
  BY <1>6, CutOffStays DEF Blocked, Answered
<1>7. QED
  BY <1>1, <1>2, <1>3, <1>4, <1>5, <1>6 DEF Next, Blocked

\* Whatever the interleaving, a request that has not yet passed the check of
\* its deactivated agent, or the charge of its revoked key, is never forwarded.
THEOREM RevokedNeverDeliveredCorrect == Spec => RevokedNeverDelivered
<1> SUFFICES ASSUME NEW r \in Requests
             PROVE  Spec => [](CutOff(r) => [](r \notin delivered))
  BY DEF RevokedNeverDelivered
<1>1. IInv /\ CutOff(r) => Blocked(r)
  BY DEF Blocked, IInv, ReservedInv, CutOff, BeforeAgent, BeforeCharge, Answered, Answers
<1>2. IInv /\ Blocked(r) /\ [Next]_vars => Blocked(r)'
  BY BlockedStep
<1>3. Blocked(r) => r \notin delivered
  BY DEF Blocked
<1>4. QED
  BY <1>1, <1>2, <1>3, IInvCorrect, PTL DEF Spec

-----------------------------------------------------------------------------
(* The sums of the queries. *)

Amount == [row \in LedgerRow |-> row.amount]

\* Total adds the amounts of the rows.
LEMMA TotalIsSum ==
    ASSUME NEW rows \in SUBSET LedgerRow, IsFiniteSet(rows)
    PROVE  Total(rows) = SumOf(Amount, rows) /\ Total(rows) \in Nat
<1> DEFINE Equation(sum) ==
             sum = [T \in SUBSET rows |->
                      IF T = {} THEN 0 ELSE Pick(T).amount + sum[T \ {Pick(T)}]]
           chosen == CHOOSE sum : Equation(sum)
<1>1. Total(rows) = chosen[rows]
  BY DEF Total, MapThenSumSet, MapThenFoldSet, Pick
<1>2. ASSUME NEW sum PROVE Equation(sum) <=> Adds(sum, Amount, rows)
  <2>1. ASSUME NEW T \in SUBSET rows, T # {} PROVE Amount[Pick(T)] = Pick(T).amount
    BY <2>1 DEF Pick, Amount
  <2>2. [T \in SUBSET rows |-> IF T = {} THEN 0 ELSE Pick(T).amount + sum[T \ {Pick(T)}]]
          = [T \in SUBSET rows |-> IF T = {} THEN 0 ELSE Amount[Pick(T)] + sum[T \ {Pick(T)}]]
    BY <2>1
  <2>3. QED
    BY <2>2 DEF Adds
<1>3. Adds(chosen, Amount, rows)
  <2>1. \E sum : Equation(sum)
    BY <1>2, AddsExists
  <2> HIDE DEF Equation
  <2>2. Equation(chosen)
    BY <2>1
  <2>3. QED
    BY <1>2, <2>2
<1>4. chosen[rows] = SumOf(Amount, rows)
  <2> HIDE DEF chosen
  <2>1. QED
    BY <1>3, SumBySolution
<1>5. SumOf(Amount, rows) \in Nat
  <2>1. \A row \in rows : Amount[row] \in Nat
    BY DEF Amount, LedgerRow
  <2>2. QED
    BY <2>1, SumOfType
<1> HIDE DEF chosen
<1>6. QED
  BY <1>1, <1>4, <1>5

LEMMA AmountType == \A row \in LedgerRow : Amount[row] \in Nat /\ Amount[row] = row.amount
  BY DEF Amount, LedgerRow

LEMMA TotalOfNone == Total({}) = 0
  BY TotalIsSum, SumOfEmpty, FS_EmptySet

LEMMA TotalAdd ==
    ASSUME NEW rows \in SUBSET LedgerRow, IsFiniteSet(rows), NEW row \in LedgerRow \ rows
    PROVE  Total(rows \cup {row}) = Total(rows) + row.amount /\ row.amount \in Nat
<1>1. \A x \in rows \cup {row} : Amount[x] \in Nat
  BY AmountType
<1>2. /\ IsFiniteSet(rows \cup {row})
      /\ SumOf(Amount, rows \cup {row}) = Amount[row] + SumOf(Amount, rows)
  BY <1>1, SumOfAdd
<1>3. rows \cup {row} \in SUBSET LedgerRow
  OBVIOUS
<1>4. Total(rows \cup {row}) = SumOf(Amount, rows \cup {row})
  BY <1>2, <1>3, TotalIsSum
<1>5. QED
  BY <1>2, <1>4, TotalIsSum, AmountType

LEMMA TotalMonotone ==
    ASSUME NEW rows \in SUBSET LedgerRow, IsFiniteSet(rows), NEW part \in SUBSET rows
    PROVE  /\ IsFiniteSet(part) /\ Total(part) \in Nat /\ Total(rows) \in Nat
           /\ Total(part) <= Total(rows)
<1>1. IsFiniteSet(part) /\ part \in SUBSET LedgerRow
  BY FS_Subset
<1>2. SumOf(Amount, part) <= SumOf(Amount, rows)
  BY AmountType, SumOfMonotone
<1>3. QED
  BY <1>1, <1>2, TotalIsSum

LEMMA TotalUnion ==
    ASSUME NEW rows \in SUBSET LedgerRow, IsFiniteSet(rows),
           NEW others \in SUBSET LedgerRow, IsFiniteSet(others)
    PROVE  Total(rows \cup others) <= Total(rows) + Total(others)
<1>1. \A x \in rows \cup others : Amount[x] \in Nat
  BY AmountType
<1>2. SumOf(Amount, rows \cup others) <= SumOf(Amount, rows) + SumOf(Amount, others)
  BY <1>1, SumOfUnion
<1>3. IsFiniteSet(rows \cup others) /\ rows \cup others \in SUBSET LedgerRow
  BY FS_Union
<1>4. QED
  BY <1>2, <1>3, TotalIsSum

\* Spent adds the values of the payments.
LEMMA SpentIsSum ==
    ASSUME NEW rs, IsFiniteSet(rs), \A r \in rs : payload[r].value \in Nat
    PROVE  Spent(rs) = SumOf([r \in rs |-> payload[r].value], rs)
<1> DEFINE value == [r \in rs |-> payload[r].value]
           Equation(sum) ==
             sum = [T \in SUBSET rs |->
                      IF T = {} THEN 0 ELSE payload[Pick(T)].value + sum[T \ {Pick(T)}]]
           chosen == CHOOSE sum : Equation(sum)
<1>1. Spent(rs) = chosen[rs]
  BY DEF Spent, MapThenSumSet, MapThenFoldSet, Pick
<1>2. ASSUME NEW sum PROVE Equation(sum) <=> Adds(sum, value, rs)
  <2>1. ASSUME NEW T \in SUBSET rs, T # {} PROVE value[Pick(T)] = payload[Pick(T)].value
    BY <2>1 DEF Pick
  <2>2. [T \in SUBSET rs |-> IF T = {} THEN 0 ELSE payload[Pick(T)].value + sum[T \ {Pick(T)}]]
          = [T \in SUBSET rs |-> IF T = {} THEN 0 ELSE value[Pick(T)] + sum[T \ {Pick(T)}]]
    BY <2>1
  <2>3. QED
    BY <2>2 DEF Adds
<1>3. Adds(chosen, value, rs)
  <2>1. \E sum : Equation(sum)
    BY <1>2, AddsExists
  <2> HIDE DEF Equation
  <2>2. Equation(chosen)
    BY <2>1
  <2>3. QED
    BY <1>2, <2>2
<1>4. QED
  <2> HIDE DEF chosen, value
  <2>1. chosen[rs] = SumOf(value, rs)
    BY <1>3, SumBySolution
  <2>2. QED
    BY <1>1, <2>1 DEF value

-----------------------------------------------------------------------------
(* What the counters of the session keys have to do with the ledger. *)

\* The rows that were paid with a key and whose charge has been made, and
\* those whose charge is not still to come.
ChargedRows(k) == {row \in ledger : row.key = k /\ (status[row.id] = "forward" \/ row.id \in delivered)}
PastCharge(k) == {row \in ledger : row.key = k /\ status[row.id] # "charge"}

SpendInv ==
    /\ IsFiniteSet(ledger)
    /\ \A row \in ledger : row.key # Absent => keys[row.key] # Absent
    /\ \A k \in Keys : keys[k] # Absent =>
          /\ Total(ChargedRows(k)) <= keys[k].spent
          /\ keys[k].spent <= Total(PastCharge(k))

LEMMA SpendInit == Init => SpendInv
<1> SUFFICES ASSUME Init PROVE SpendInv
  OBVIOUS
<1>1. ledger = {} /\ IsFiniteSet(ledger)
  BY FS_EmptySet DEF Init
<1>2. ASSUME NEW k \in Keys, keys[k] # Absent PROVE keys[k].spent = 0
  BY <1>2, ProxyAssumption DEF Init
<1>3. \A k \in Keys : Total(ChargedRows(k)) = 0 /\ Total(PastCharge(k)) = 0
  <2>1. \A k \in Keys : ChargedRows(k) = {} /\ PastCharge(k) = {}
    BY <1>1 DEF ChargedRows, PastCharge
  <2>2. QED
    BY <2>1, TotalOfNone
<1>4. QED
  BY <1>1, <1>2, <1>3 DEF SpendInv

LEMMA SpendTypes ==
    ASSUME TypeOK, SpendInv, NEW k
    PROVE  /\ ChargedRows(k) \in SUBSET ledger /\ PastCharge(k) \in SUBSET ledger
           /\ ledger \in SUBSET LedgerRow
           /\ IsFiniteSet(ChargedRows(k)) /\ IsFiniteSet(PastCharge(k))
           /\ Total(ChargedRows(k)) \in Nat /\ Total(PastCharge(k)) \in Nat
<1>1. ChargedRows(k) \in SUBSET ledger /\ PastCharge(k) \in SUBSET ledger
  BY DEF ChargedRows, PastCharge
<1>2. ledger \in SUBSET LedgerRow /\ IsFiniteSet(ledger)
  BY DEF TypeOK, SpendInv
<1>3. QED
  BY <1>1, <1>2, TotalMonotone

\* Where no row is inserted, no charge is made, and nobody gets back behind
\* the charge of a row, nothing changes.
LEMMA SpendFrame ==
    ASSUME TypeOK, SpendInv, TypeOK', UNCHANGED ledger,
           \A k \in Keys : keys[k] # Absent => keys'[k] # Absent /\ keys'[k].spent = keys[k].spent,
           \A k \in Keys : keys[k] = Absent /\ keys'[k] # Absent => keys'[k].spent = 0,
           \A row \in ledger : status'[row.id] = "forward" \/ row.id \in delivered'
                                 => status[row.id] = "forward" \/ row.id \in delivered,
           \A row \in ledger : status'[row.id] = "charge" => status[row.id] = "charge"
    PROVE  SpendInv'
<1>1. ledger \in SUBSET LedgerRow /\ IsFiniteSet(ledger)
  BY DEF TypeOK, SpendInv
<1>2. ASSUME NEW k \in Keys
      PROVE  ChargedRows(k)' \in SUBSET ChargedRows(k) /\ PastCharge(k) \in SUBSET PastCharge(k)'
             /\ PastCharge(k)' \in SUBSET ledger
  BY DEF ChargedRows, PastCharge
<1>3. ASSUME NEW row \in ledger, row.key # Absent PROVE keys'[row.key] # Absent
  <2>1. row.key \in Keys
    BY <1>1, <1>3 DEF LedgerRow
  <2>2. QED
    BY <1>3, <2>1 DEF SpendInv
<1>4. ASSUME NEW k \in Keys, keys'[k] # Absent
      PROVE  /\ Total(ChargedRows(k)') <= keys'[k].spent
             /\ keys'[k].spent <= Total(PastCharge(k)')
  <2>1. /\ Total(ChargedRows(k)') <= Total(ChargedRows(k)) /\ Total(ChargedRows(k)') \in Nat
        /\ Total(ChargedRows(k)) \in Nat
    <3>1. ChargedRows(k) \in SUBSET LedgerRow /\ IsFiniteSet(ChargedRows(k))
      BY SpendTypes
    <3>2. QED
      BY <1>2, <3>1, TotalMonotone
  <2>2. /\ Total(PastCharge(k)) <= Total(PastCharge(k)') /\ Total(PastCharge(k)') \in Nat
        /\ Total(PastCharge(k)) \in Nat
    <3>1. PastCharge(k)' \in SUBSET LedgerRow /\ IsFiniteSet(PastCharge(k)')
      BY <1>1, <1>2, FS_Subset
    <3>2. QED
      BY <1>2, <3>1, TotalMonotone
  <2>3. CASE keys[k] # Absent
    <3>1. /\ keys'[k].spent = keys[k].spent /\ keys[k].spent \in Nat
          /\ Total(ChargedRows(k)) <= keys[k].spent /\ keys[k].spent <= Total(PastCharge(k))
      BY <2>3 DEF SpendInv, TypeOK, KeyRow
    <3>2. QED
      BY <2>1, <2>2, <3>1
  <2>4. CASE keys[k] = Absent
    <3>1. ChargedRows(k) = {}
      BY <2>4, ProxyAssumption DEF ChargedRows, SpendInv
    <3>2. keys'[k].spent = 0
      BY <1>4, <2>4
    <3>3. QED
      BY <2>1, <2>2, <3>1, <3>2, TotalOfNone
  <2>5. QED
    BY <2>3, <2>4
<1>5. QED
  BY <1>1, <1>3, <1>4 DEF SpendInv

\* A row whose charge is still to come, or that names no key, counts nowhere.
LEMMA SpendRowAdded ==
    ASSUME IInv, SpendInv, NEW r \in Requests, status[r] = "inserting",
           ledger' = ledger \cup {NewRow(r)}, NewRow(r) \in LedgerRow,
           NEW s, Goto(r, s), payload[r].key # Absent => s # "forward",
           UNCHANGED <<keys, delivered>>
    PROVE  SpendInv'
<1> DEFINE new == NewRow(r)
<1>1. /\ new.id = r /\ new.key = payload[r].key
      /\ r \notin delivered
  BY DEF NewRow, IInv, ReservedInv, Answered, Answers
<1>2. /\ status'[r] = s /\ \A q \in Requests : q # r => status'[q] = status[q]
  BY DEF Goto, IInv, TypeOK
<1>3. \A row \in ledger : row.id \in Requests /\ row.id # r
  BY DEF IInv, LedgerInv, PastInsert, Answers, TypeOK, LedgerRow
<1>4. ledger \in SUBSET LedgerRow /\ IsFiniteSet(ledger) /\ IsFiniteSet(ledger')
      /\ ledger' \in SUBSET LedgerRow
  BY FS_AddElement DEF IInv, TypeOK, SpendInv
<1>5. ASSUME NEW row \in ledger', row.key # Absent PROVE keys'[row.key] # Absent
  <2>1. CASE row \in ledger
    BY <1>5, <2>1 DEF SpendInv
  <2>2. CASE row = new
    BY <1>1, <1>5, <2>2 DEF IInv, KeyFoundInv, Awaits
  <2>3. QED
    BY <2>1, <2>2
<1>6. ASSUME NEW k \in Keys, keys'[k] # Absent
      PROVE  /\ Total(ChargedRows(k)') <= keys'[k].spent
             /\ keys'[k].spent <= Total(PastCharge(k)')
  <2>1. ChargedRows(k)' = ChargedRows(k)
    <3>1. new \notin ChargedRows(k)'
      BY <1>1, <1>2, <1>6, ProxyAssumption DEF ChargedRows
    <3>2. \A row \in ledger : row \in ChargedRows(k)' <=> row \in ChargedRows(k)
      BY <1>2, <1>3 DEF ChargedRows
    <3>3. ChargedRows(k)' \in SUBSET (ledger \cup {new}) /\ ChargedRows(k) \in SUBSET ledger
      BY DEF ChargedRows
    <3> HIDE DEF new
    <3>4. QED
      BY <3>1, <3>2, <3>3
  <2>2. PastCharge(k) \in SUBSET PastCharge(k)' /\ PastCharge(k)' \in SUBSET ledger'
    BY <1>2, <1>3 DEF PastCharge
  <2>3. /\ Total(PastCharge(k)) <= Total(PastCharge(k)') /\ Total(PastCharge(k)') \in Nat
        /\ Total(PastCharge(k)) \in Nat
    <3>1. PastCharge(k)' \in SUBSET LedgerRow /\ IsFiniteSet(PastCharge(k)')
      BY <1>4, <2>2, FS_Subset
    <3>2. QED
      BY <2>2, <3>1, TotalMonotone
  <2>4. keys[k] # Absent /\ keys[k].spent \in Nat /\ keys'[k] = keys[k]
    BY <1>6 DEF IInv, TypeOK, KeyRow
  <2>5. Total(ChargedRows(k)) <= keys[k].spent /\ keys[k].spent <= Total(PastCharge(k))
    BY <2>4 DEF SpendInv
  <2>6. QED
    BY <2>1, <2>3, <2>4, <2>5
<1>7. QED
  BY <1>4, <1>5, <1>6 DEF SpendInv

\* The charge adds the amount of the row to the counter when it adds the row
\* to both sets.
LEMMA SpendCharged ==
    ASSUME IInv, SpendInv, NEW r \in Requests, ChargeKey(r)
    PROVE  SpendInv'
<1> DEFINE p == payload[r]
<1>1. /\ status[r] = "charge" /\ Metered(r) /\ HasRow(r)
      /\ p \in Payload /\ p.key \in Keys /\ p.value \in Nat
      /\ keys[p.key] \in KeyRow /\ keys[p.key] # Absent
      /\ UNCHANGED <<ledger, delivered, payload>>
  BY ProxyAssumption
  DEF ChargeKey, locals, IInv, CarriesInv, KeyFoundInv, TypeOK, Payload, Metered, Awaits, ReservedInv
<1>2. PICK new \in ledger : RowOf(new, r)
  BY <1>1 DEF HasRow
<1>3. /\ new.id = r /\ new.key = p.key /\ new.amount = p.value
      /\ r \notin delivered
      /\ \A row \in ledger : row # new => row.id # r
  BY <1>1, <1>2 DEF RowOf, IInv, LedgerInv, ReservedInv, Answered, Answers
<1>4. ledger \in SUBSET LedgerRow /\ IsFiniteSet(ledger)
  BY DEF IInv, TypeOK, SpendInv
<1>5. PICK s : /\ Goto(r, s)
               /\ s \in {"forward", "GuardrailViolation"}
               /\ \/ keys' = [keys EXCEPT ![p.key].spent = @ + p.value]
                  \/ s = "GuardrailViolation" /\ UNCHANGED keys
  BY DEF ChargeKey
<1>6. /\ status'[r] = s /\ \A q \in Requests : q # r => status'[q] = status[q]
  BY <1>5 DEF Goto, IInv, TypeOK
<1>7. \A row \in ledger : row.id \in Requests
  BY <1>4 DEF LedgerRow
<1>8. CASE keys' = [keys EXCEPT ![p.key].spent = @ + p.value]
  <2>1. /\ keys'[p.key].spent = keys[p.key].spent + p.value
        /\ \A k \in Keys : k # p.key => keys'[k] = keys[k]
        /\ keys'[p.key] # Absent
    <3>1. [keys[p.key] EXCEPT !.spent = @ + p.value] \in KeyRow
      BY <1>1 DEF KeyRow
    <3>2. keys'[p.key] = [keys[p.key] EXCEPT !.spent = @ + p.value]
      BY <1>1, <1>8 DEF IInv, TypeOK
    <3>3. QED
      BY <1>1, <1>8, <3>1, <3>2, ProxyAssumption DEF IInv, TypeOK, KeyRow
  <2>2. ASSUME NEW k \in Keys, k # p.key
        PROVE  ChargedRows(k)' = ChargedRows(k) /\ PastCharge(k)' = PastCharge(k)
    <3>1. \A row \in ledger : row.key = k => row.id # r
      BY <1>3, <2>2
    <3>2. QED
      BY <1>1, <1>6, <1>7, <3>1 DEF ChargedRows, PastCharge
  <2>3. /\ ChargedRows(p.key)' \in {ChargedRows(p.key), ChargedRows(p.key) \cup {new}}
        /\ PastCharge(p.key)' = PastCharge(p.key) \cup {new}
        /\ new \notin ChargedRows(p.key) /\ new \notin PastCharge(p.key)
    <3>1. /\ status'[new.id] \in {"forward", "GuardrailViolation"}
          /\ status[new.id] = "charge"
          /\ new.id \notin delivered /\ new.key = p.key
      BY <1>1, <1>3, <1>5, <1>6
    <3>2. \A row \in ledger : row # new => status'[row.id] = status[row.id]
      BY <1>3, <1>6, <1>7
    <3> HIDE DEF p
    <3>3. \A row \in ledger :
              /\ row # new => (row \in ChargedRows(p.key)' <=> row \in ChargedRows(p.key))
              /\ row \in PastCharge(p.key)' <=> row \in PastCharge(p.key) \/ row = new
      BY <1>1, <3>1, <3>2 DEF ChargedRows, PastCharge, p
    <3>4. /\ ChargedRows(p.key)' \in SUBSET ledger /\ ChargedRows(p.key) \in SUBSET ledger
          /\ PastCharge(p.key)' \in SUBSET ledger /\ PastCharge(p.key) \in SUBSET ledger
      BY <1>1 DEF ChargedRows, PastCharge
    <3>5. new \notin ChargedRows(p.key) /\ new \notin PastCharge(p.key)
      BY <3>1 DEF ChargedRows, PastCharge
    <3>6. QED
      BY <3>3, <3>4, <3>5
  <2>4. /\ Total(ChargedRows(p.key)') \in
               {Total(ChargedRows(p.key)), Total(ChargedRows(p.key)) + p.value}
        /\ Total(PastCharge(p.key)') = Total(PastCharge(p.key)) + p.value
        /\ Total(ChargedRows(p.key)) \in Nat /\ Total(PastCharge(p.key)) \in Nat
    <3>1. /\ ChargedRows(p.key) \in SUBSET LedgerRow /\ IsFiniteSet(ChargedRows(p.key))
          /\ PastCharge(p.key) \in SUBSET LedgerRow /\ IsFiniteSet(PastCharge(p.key))
          /\ Total(ChargedRows(p.key)) \in Nat /\ Total(PastCharge(p.key)) \in Nat
      BY SpendTypes DEF IInv
    <3>2. QED
      BY <1>3, <1>4, <2>3, <3>1, TotalAdd
  <2>5. /\ Total(ChargedRows(p.key)) <= keys[p.key].spent
        /\ keys[p.key].spent <= Total(PastCharge(p.key))
        /\ keys[p.key].spent \in Nat
    BY <1>1 DEF SpendInv, KeyRow
  <2>6. ASSUME NEW k \in Keys, keys'[k] # Absent
        PROVE  /\ Total(ChargedRows(k)') <= keys'[k].spent
               /\ keys'[k].spent <= Total(PastCharge(k)')
    <3>1. CASE k = p.key
      <4> HIDE DEF p
      <4>1. /\ Total(ChargedRows(p.key)') <= keys'[p.key].spent
            /\ keys'[p.key].spent <= Total(PastCharge(p.key)')
        BY <1>1, <2>1, <2>4, <2>5
      <4>2. ChargedRows(k)' = ChargedRows(p.key)' /\ PastCharge(k)' = PastCharge(p.key)'
        BY <1>1, <3>1 DEF ChargedRows, PastCharge, p
      <4>3. QED
        BY <3>1, <4>1, <4>2
    <3>2. CASE k # p.key
      BY <2>1, <2>2, <2>6, <3>2 DEF SpendInv
    <3>3. QED
      BY <3>1, <3>2
  <2>7. ASSUME NEW row \in ledger, row.key # Absent PROVE keys'[row.key] # Absent
    <3>1. row.key \in Keys
      BY <1>4, <2>7 DEF LedgerRow
    <3>2. QED
      BY <2>1, <2>7, <3>1 DEF SpendInv
  <2>8. QED
    BY <1>1, <1>4, <2>6, <2>7 DEF SpendInv
<1>9. CASE s = "GuardrailViolation" /\ UNCHANGED keys
  <2>1. /\ \A row \in ledger : status'[row.id] = "forward" \/ row.id \in delivered'
                                 => status[row.id] = "forward" \/ row.id \in delivered
        /\ \A row \in ledger : status'[row.id] = "charge" => status[row.id] = "charge"
    BY <1>1, <1>6, <1>7, <1>9
  <2>2. TypeOK'
    BY ChargeKeyIInv DEF IInv
  <2>3. QED
    BY <1>1, <1>9, <2>1, <2>2, SpendFrame DEF IInv
<1>10. QED
  BY <1>5, <1>8, <1>9

LEMMA SpendStep ==
    ASSUME IInv, SpendInv, [Next]_vars
    PROVE  SpendInv'
<1>0. TypeOK /\ TypeOK' /\ ledger \in SUBSET LedgerRow
  BY NextIInv DEF IInv, TypeOK
<1>1. \A row \in ledger : row.id \in Requests /\ status[row.id] \in PastInsert
  BY <1>0 DEF IInv, LedgerInv, LedgerRow
<1>2. ASSUME UNCHANGED <<ledger, delivered, keys>>, NEW r \in Requests, NEW s, Goto(r, s),
             s \notin {"charge", "forward"} \/ status[r] \notin PastInsert
      PROVE  SpendInv'
  <2>1. status'[r] = s /\ \A q \in Requests : q # r => status'[q] = status[q]
    BY <1>0, <1>2 DEF Goto, TypeOK
  <2>2. /\ \A row \in ledger : status'[row.id] = "forward" => status[row.id] = "forward"
        /\ \A row \in ledger : status'[row.id] = "charge" => status[row.id] = "charge"
    BY <1>1, <1>2, <2>1
  <2>3. QED
    BY <1>0, <1>2, <2>2, SpendFrame
<1>3. ASSUME NEW r \in Requests,
             \/ Receive(r) \/ FindKey(r) \/ FindAgent(r) \/ FindRules(r)
             \/ SumSpent(r) \/ StoreNonce(r) \/ CheckRate(r) \/ BeginInsert(r)
      PROVE  SpendInv'
  <2>1. /\ UNCHANGED <<ledger, delivered, keys>>
        /\ status[r] \notin PastInsert
    BY <1>3 DEF Receive, FindKey, FindAgent, FindRules, SumSpent, StoreNonce, CheckRate,
       BeginInsert, tables, PastInsert, Answers
  <2>2. \E s : Goto(r, s)
    BY <1>3 DEF Receive, FindKey, FindAgent, FindRules, SumSpent, StoreNonce, CheckRate,
       BeginInsert
  <2>3. QED
    BY <1>2, <2>1, <2>2
<1>4. ASSUME NEW r \in Requests, CommitInsert(r) PROVE SpendInv'
  <2>1. /\ status[r] = "inserting" /\ UNCHANGED <<delivered, keys>>
        /\ status[r] \notin PastInsert
    BY <1>4 DEF CommitInsert, PastInsert, Answers
  <2>2. CASE UNCHANGED ledger
    <3>1. \E s : Goto(r, s)
      BY <1>4 DEF CommitInsert
    <3>2. QED
      BY <1>2, <2>1, <2>2, <3>1
  <2>3. CASE /\ ledger' = ledger \cup {NewRow(r)}
             /\ Goto(r, IF payload[r].key # Absent THEN "charge" ELSE "forward")
    <3>1. NewRow(r) \in LedgerRow
      BY <1>0, <2>3 DEF TypeOK
    <3>2. PICK s : Goto(r, s) /\ (payload[r].key # Absent => s # "forward")
      BY <2>3
    <3>3. QED
      BY <2>1, <2>3, <3>1, <3>2, SpendRowAdded
  <2>4. QED
    BY <1>4, <2>2, <2>3 DEF CommitInsert
<1>5. ASSUME NEW r \in Requests, ChargeKey(r) PROVE SpendInv'
  BY <1>5, SpendCharged
<1>6. ASSUME NEW r \in Requests, Forward(r) PROVE SpendInv'
  <2>1. /\ status[r] = "forward" /\ UNCHANGED <<ledger, keys>>
        /\ delivered' \in {delivered, delivered \cup {r}}
    BY <1>6 DEF Forward, tables
  <2>2. PICK s \in Answers : Goto(r, s)
    BY <1>6 DEF Forward, Answers
  <2>3. status'[r] = s /\ \A q \in Requests : q # r => status'[q] = status[q]
    BY <1>0, <2>2 DEF Goto, TypeOK
  <2>4. s \notin {"forward", "charge"}
    BY <2>2 DEF Answers
  <2>5. /\ \A row \in ledger : status'[row.id] = "forward" \/ row.id \in delivered'
                                 => status[row.id] = "forward" \/ row.id \in delivered
        /\ \A row \in ledger : status'[row.id] = "charge" => status[row.id] = "charge"
    BY <1>1, <2>1, <2>3, <2>4
  <2>6. QED
    BY <1>0, <2>1, <2>5, SpendFrame
<1>7. ASSUME NEW r \in Requests, Abort(r) PROVE SpendInv'
  <2>1. PICK s \in {"Aborted", "Internal"} : Goto(r, s) /\ UNCHANGED <<delivered, keys>>
    BY <1>7 DEF Abort
  <2>2. CASE UNCHANGED ledger
    BY <1>2, <2>1, <2>2
  <2>3. CASE status[r] = "inserting" /\ ledger' = ledger \cup {NewRow(r)}
    <3>1. NewRow(r) \in LedgerRow
      BY <1>0, <2>3 DEF TypeOK
    <3>2. QED
      BY <2>1, <2>3, <3>1, SpendRowAdded
  <2>4. QED
    BY <1>7, <2>2, <2>3 DEF Abort
<1>8. CASE Manage
  <2>1. UNCHANGED <<ledger, status, delivered>>
    BY <1>8 DEF Manage, ManageAgent, CreateAgent, RevokeAll, CreateRule, UpdateRule, DeactivateRule,
       CreateSessionKey, RevokeSessionKey, dbOnly
  <2>2. \A k \in Keys : /\ keys[k] # Absent => keys'[k].spent = keys[k].spent
                        /\ keys[k] = Absent /\ keys'[k] # Absent => keys'[k].spent = 0
    <3>1. CASE UNCHANGED keys
      BY <3>1
    <3>2. ASSUME NEW a \in Agents, NEW j \in Keys,
                 RevokeAll(a) \/ CreateSessionKey(j, a) \/ RevokeSessionKey(j, a),
                 NEW k \in Keys
          PROVE  /\ keys[k] # Absent => keys'[k].spent = keys[k].spent
                 /\ keys[k] = Absent /\ keys'[k] # Absent => keys'[k].spent = 0
      BY <1>0, <3>2 DEF RevokeAll, CreateSessionKey, RevokeSessionKey, TypeOK, KeyRow
    <3>3. ASSUME NEW a \in Agents, RevokeAll(a), NEW k \in Keys
          PROVE  /\ keys[k] # Absent => keys'[k].spent = keys[k].spent
                 /\ keys[k] = Absent /\ keys'[k] # Absent => keys'[k].spent = 0
      BY <3>2, <3>3
    <3>4. QED
      BY <1>8, <3>1, <3>2, <3>3
      DEF Manage, ManageAgent, CreateAgent, CreateRule, UpdateRule, DeactivateRule
  <2>3. \A k \in Keys : keys[k] # Absent => keys'[k] # Absent
    BY <1>8, KeysStay DEF Next
  <2>4. QED
    BY <1>0, <2>1, <2>2, <2>3, SpendFrame
<1>9. CASE Tick \/ LoseNonces \/ Done \/ UNCHANGED vars
  <2>1. UNCHANGED <<ledger, status, delivered, keys>>
    BY <1>9 DEF Tick, LoseNonces, Done, vars, tables
  <2>2. QED
    BY <1>0, <2>1, SpendFrame
<1>10. QED
  BY <1>3, <1>4, <1>5, <1>6, <1>7, <1>8, <1>9 DEF Next, Step

\* The invariant of the sums: the counter of a key lies between the rows that
\* have charged it and those whose request has come that far.
THEOREM SpendInvCorrect == Spec => []SpendInv
<1>1. Init => SpendInv
  BY SpendInit
<1>2. IInv /\ SpendInv /\ [Next]_vars => SpendInv'
  BY SpendStep
<1>3. QED
  BY <1>1, <1>2, IInvCorrect, PTL DEF Spec

-----------------------------------------------------------------------------

\* Requests that were delivered have paid with rows of their own.
LEMMA SpentWithinRows ==
    ASSUME TypeOK, NEW rows \in SUBSET ledger, IsFiniteSet(rows), NEW rs \in SUBSET Requests,
           \A r \in rs : payload[r] # Absent /\ \E row \in rows : RowOf(row, r)
    PROVE  Spent(rs) <= Total(rows) /\ Spent(rs) \in Nat
<1> DEFINE value == [r \in rs |-> payload[r].value]
           rowOf == [r \in rs |-> CHOOSE row \in rows : RowOf(row, r)]
<1>1. ASSUME NEW r \in rs
      PROVE  /\ rowOf[r] \in rows /\ rowOf[r].id = r /\ rowOf[r].amount = value[r]
             /\ payload[r].value \in Nat
  <2>1. rowOf[r] \in rows /\ RowOf(rowOf[r], r)
    OBVIOUS
  <2>2. payload[r].value \in Nat
    BY ProxyAssumption DEF TypeOK, Payload
  <2> HIDE DEF rowOf
  <2>3. QED
    BY <2>1, <2>2 DEF RowOf
<1>2. rowOf \in [rs -> rows] /\ \A r, q \in rs : rowOf[r] = rowOf[q] => r = q
  <2>1. rowOf \in [rs -> rows]
    BY <1>1
  <2> HIDE DEF rowOf
  <2>2. QED
    BY <1>1, <2>1
<1>3. rows \in SUBSET LedgerRow
  BY DEF TypeOK
<1>4. IsFiniteSet(rs)
  <2>1. rowOf \in Injection(rs, rows)
    <3> HIDE DEF rowOf
    <3>1. QED
      BY <1>2 DEF Injection, IsInjective
  <2> HIDE DEF rowOf
  <2>2. QED
    BY <2>1, FS_Injection
<1>5. SumOf(value, rs) <= SumOf(Amount, rows)
  <2>1. /\ \A r \in rs : value[r] \in Nat /\ value[r] <= Amount[rowOf[r]]
        /\ \A row \in rows : Amount[row] \in Nat
    BY <1>1, <1>3, AmountType
  <2> HIDE DEF rowOf, value
  <2>2. QED
    BY <1>2, <1>4, <2>1, SumOfInjection
<1>6. Spent(rs) = SumOf(value, rs) /\ SumOf(value, rs) \in Nat
  BY <1>1, <1>4, SpentIsSum, SumOfType
<1>7. QED
  BY <1>3, <1>5, <1>6, TotalIsSum

\* What an agent's requests have delivered is covered by rows of the ledger in
\* its name, for any number of requests and whatever was aborted.
THEOREM DeliveredIsRecordedCorrect == Spec => []DeliveredIsRecorded
<1>1. ASSUME IInv, SpendInv, NEW a \in Agents
      PROVE  Spent({r \in DeliveredMetered : payload[r].agent = a})
               <= Total({row \in ledger : row.agent = a})
  <2> DEFINE rs == {r \in DeliveredMetered : payload[r].agent = a}
             rows == {row \in ledger : row.agent = a}
  <2>1. rs \in SUBSET Requests /\ rows \in SUBSET ledger /\ IsFiniteSet(rows)
    BY <1>1, FS_Subset DEF DeliveredMetered, IInv, TypeOK, SpendInv
  <2>2. ASSUME NEW r \in rs PROVE payload[r] # Absent /\ \E row \in rows : RowOf(row, r)
    BY <1>1 DEF DeliveredMetered, Metered, IInv, ReservedInv, HasRow, RowOf
  <2> HIDE DEF rs, rows
  <2>3. Spent(rs) <= Total(rows)
    BY <1>1, <2>1, <2>2, SpentWithinRows DEF IInv
  <2>4. QED
    BY <2>3 DEF rs, rows
<1>2. IInv /\ SpendInv => DeliveredIsRecorded
  BY <1>1 DEF DeliveredIsRecorded
<1>3. QED
  BY <1>2, IInvCorrect, SpendInvCorrect, PTL

\* The counter of a session key is at least what was delivered with the key,
\* at most its limit, and at most what the ledger holds in its name.
THEOREM KeySpendSandwichCorrect == Spec => []KeySpendSandwich
<1>1. ASSUME IInv, SpendInv, NEW k \in Keys, keys[k] # Absent
      PROVE  /\ Spent({r \in DeliveredMetered : payload[r].key = k}) <= keys[k].spent
             /\ keys[k].spent <= keys[k].max
             /\ keys[k].spent <= Total({row \in ledger : row.key = k})
  <2> DEFINE rs == {r \in DeliveredMetered : payload[r].key = k}
             rows == {row \in ledger : row.key = k}
  <2>1. rs \in SUBSET Requests
    BY <1>1 DEF DeliveredMetered, IInv, TypeOK
  <2>2. ASSUME NEW r \in rs
        PROVE  payload[r] # Absent /\ \E row \in ChargedRows(k) : RowOf(row, r)
    BY <1>1 DEF DeliveredMetered, Metered, IInv, ReservedInv, HasRow, RowOf, ChargedRows
  <2>3. Spent(rs) <= Total(ChargedRows(k)) /\ Spent(rs) \in Nat
    <3> HIDE DEF rs
    <3>1. QED
      BY <1>1, <2>1, <2>2, SpendTypes, SpentWithinRows DEF IInv
  <2>4. Total(PastCharge(k)) <= Total(rows) /\ Total(rows) \in Nat
    <3>1. rows \in SUBSET LedgerRow /\ PastCharge(k) \in SUBSET rows /\ IsFiniteSet(rows)
      BY <1>1, FS_Subset DEF IInv, TypeOK, SpendInv, PastCharge
    <3> HIDE DEF rows
    <3>2. QED
      BY <3>1, TotalMonotone
  <2>5. /\ Total(ChargedRows(k)) <= keys[k].spent /\ keys[k].spent <= Total(PastCharge(k))
        /\ keys[k].spent \in Nat /\ keys[k].spent <= keys[k].max
        /\ Total(ChargedRows(k)) \in Nat /\ Total(PastCharge(k)) \in Nat
    BY <1>1, SpendTypes DEF SpendInv, IInv, TypeOK, KeyRow, KeyLimitInv
  <2>6. QED
    BY <2>3, <2>4, <2>5
<1>2. IInv /\ SpendInv => KeySpendSandwich
  BY <1>1 DEF KeySpendSandwich
<1>3. QED
  BY <1>2, IInvCorrect, SpendInvCorrect, PTL

-----------------------------------------------------------------------------
(* The daily limit under concurrency, for rules that do not change. *)

RulesFixed == Operations \cap {"CreateRule", "UpdateRule", "DeactivateRule"} = {}

\* A finite set of numbers has a largest one.
LEMMA Largest ==
    ASSUME NEW S \in SUBSET Nat, IsFiniteSet(S), S # {}
    PROVE  \E m \in S : \A n \in S : n <= m
<1> DEFINE Good == {T \in SUBSET S : T # {} => \E m \in T : \A n \in T : n <= m}
<1>1. {} \in Good
  OBVIOUS
<1>2. ASSUME NEW T \in SUBSET S, T # {}, \A x \in T : T \ {x} \in Good
      PROVE  T \in Good
  <2>1. PICK x \in T : TRUE
    BY <1>2
  <2>2. CASE T = {x}
    BY <2>2
  <2>3. CASE T # {x}
    <3>1. PICK m \in T \ {x} : \A n \in T \ {x} : n <= m
      BY <1>2, <2>1, <2>3
    <3>2. CASE x <= m
      BY <3>1, <3>2
    <3>3. CASE m <= x
      BY <3>1, <3>3
    <3>4. QED
      BY <3>2, <3>3
  <2>4. QED
    BY <2>2, <2>3
<1>3. S \in Good
  <2> HIDE DEF Good
  <2>1. \A T \in SUBSET S : T # {} /\ (\A x \in T : T \ {x} \in Good) => T \in Good
    BY <1>2
  <2>2. \A T \in SUBSET S : T \in Good
    BY <1>1, <2>1, SetInduction
  <2>3. QED
    BY <2>2
<1>4. QED
  BY <1>3

LEMMA DailyMaxBounds ==
    ASSUME IsFiniteSet(RuleIds), TypeOK, NEW a, DailyLimits(ActiveRules(a)) # {}
    PROVE  /\ DailyMax(a) \in Nat
           /\ \A n \in DailyLimits(ActiveRules(a)) : n \in Nat /\ n <= DailyMax(a)
<1> DEFINE limits == DailyLimits(ActiveRules(a))
           ids == {i \in RuleIds : /\ rules[i] # Absent /\ rules[i].agent = a /\ rules[i].active
                                   /\ rules[i].type.kind = "MaxSpendPerDay"}
           arg == [i \in ids |-> rules[i].type.arg]
<1>1. arg \in Surjection(ids, limits)
  <2>1. ASSUME NEW n \in limits PROVE \E i \in ids : arg[i] = n
    BY DEF DailyLimits, ActiveRules
  <2>2. ASSUME NEW i \in ids PROVE arg[i] \in limits
    BY DEF DailyLimits, ActiveRules
  <2> HIDE DEF limits
  <2>3. QED
    BY <2>1, <2>2, Zenon DEF Surjection
<1>2. IsFiniteSet(limits)
  <2>1. IsFiniteSet(ids)
    BY FS_Subset
  <2> HIDE DEF limits, ids, arg
  <2>2. QED
    BY <1>1, <2>1, FS_Surjection
<1>3. limits \subseteq Nat
  <2>1. ActiveRules(a) \in SUBSET RuleRow
    BY QueryTypes
  <2>2. \A limit \in ExtractDailyLimit(ActiveRules(a)) : limit \in Nat \cup {Absent}
    BY <2>1, DailyLimitType
  <2>3. ASSUME NEW limit \in limits PROVE limit \in Nat
    <3>1. PICK i \in RuleIds : /\ rules[i] \in RuleRow /\ limit = rules[i].type.arg
                               /\ rules[i].type.kind = "MaxSpendPerDay"
      BY DEF DailyLimits, ActiveRules, TypeOK
    <3>2. rules[i].type \in RuleType
      BY <3>1, ProxyAssumption DEF RuleRow
    <3>3. QED
      BY <3>1, <3>2 DEF RuleType
  <2>4. QED
    BY <2>3
<1>4. PICK m \in limits : \A n \in limits : n <= m
  <2> HIDE DEF limits
  <2>1. QED
    BY <1>2, <1>3, Largest DEF limits
<1>5. DailyMax(a) \in limits /\ \A n \in limits : n <= DailyMax(a)
  <2> HIDE DEF limits
  <2>1. QED
    BY <1>4 DEF DailyMax, limits
<1>6. QED
  BY <1>3, <1>5

-----------------------------------------------------------------------------
(* The invariant. *)

Inserting == {r \in Requests : status[r] = "inserting"}
Running(a) == {r \in Inserting : payload[r].agent = a}

\* The rows of an agent's last 24 hours that no statement of Q has seen.
Unseen(a, Q) == WindowRows(a) \ UNION {stmt[q].rows : q \in Q}

\* What a request has loaded and what its statement compares with.
Seen(r) ==
    /\ status[r] \in {"sumSpent", "storeNonce", "rateLimit", "reserve"} /\ Metered(r)
         => seenRules[r] = ActiveRules(payload[r].agent)
    /\ status[r] = "inserting"
         => stmt[r].limit \in ExtractDailyLimit(ActiveRules(payload[r].agent))
    /\ stmt[r].rows \subseteq ledger

SeenInv == \A r \in Requests : Seen(r)

\* Statements that run at the same time share the connections: what k of them
\* have not seen was inserted by the others, each of which kept the limit.
Shared(a) ==
    \A Q \in SUBSET Running(a) :
        Total(Unseen(a, Q)) + Cardinality(Q) * DailyMax(a) <= PoolSize * DailyMax(a)

PoolInv ==
    /\ IsFiniteSet(ledger) /\ SeenInv
    /\ IsFiniteSet(Inserting) /\ Cardinality(Inserting) <= PoolSize
    /\ \A a \in Agents : DailyLimits(ActiveRules(a)) # {} => Shared(a)

LEMMA Multiples ==
    ASSUME NEW n \in Nat, NEW m \in Nat, NEW k \in Nat
    PROVE  /\ n * k \in Nat /\ (n + 1) * k = n * k + k
           /\ n <= m => n * k <= m * k
<1>1. n * k \in Nat /\ (n + 1) * k = n * k + k
  OBVIOUS
<1>2. ASSUME n <= m PROVE n * k <= m * k
  <2>1. m - n \in Nat /\ m = n + (m - n)
    BY <1>2
  <2>2. m * k = n * k + (m - n) * k
    OBVIOUS
  <2>3. (m - n) * k \in Nat
    BY <2>1
  <2>4. n * k \in Nat /\ m * k \in Nat
    OBVIOUS
  <2>5. QED
    BY <2>2, <2>3, <2>4
<1>3. QED
  BY <1>1, <1>2

LEMMA UnseenTypes ==
    ASSUME TypeOK, PoolInv, NEW a, NEW Q \in SUBSET Inserting
    PROVE  /\ WindowRows(a) \in SUBSET ledger /\ ledger \in SUBSET LedgerRow
           /\ IsFiniteSet(WindowRows(a)) /\ IsFiniteSet(ledger)
           /\ Unseen(a, Q) \in SUBSET LedgerRow /\ IsFiniteSet(Unseen(a, Q))
           /\ Total(Unseen(a, Q)) \in Nat
           /\ IsFiniteSet(Q) /\ Cardinality(Q) \in Nat
           /\ Cardinality(Q) <= PoolSize
<1>1. /\ WindowRows(a) \in SUBSET ledger /\ ledger \in SUBSET LedgerRow
      /\ Unseen(a, Q) \in SUBSET ledger /\ IsFiniteSet(ledger)
  BY DEF WindowRows, TypeOK, Unseen, PoolInv
<1>2. /\ IsFiniteSet(WindowRows(a)) /\ IsFiniteSet(Unseen(a, Q))
      /\ Total(Unseen(a, Q)) \in Nat
  BY <1>1, TotalMonotone
<1>3. /\ IsFiniteSet(Q) /\ Cardinality(Q) <= Cardinality(Inserting)
      /\ IsFiniteSet(Inserting) /\ Cardinality(Inserting) <= PoolSize
  BY FS_Subset DEF PoolInv
<1>4. Cardinality(Q) \in Nat /\ Cardinality(Inserting) \in Nat
  BY <1>3, FS_CardinalityType
<1>5. QED
  BY <1>1, <1>2, <1>3, <1>4, ProxyAssumption

LEMMA PoolInit ==
    ASSUME IsFiniteSet(RuleIds), Init
    PROVE  PoolInv
<1>1. ledger = {} /\ Inserting = {} /\ IsFiniteSet(ledger) /\ IsFiniteSet(Inserting)
      /\ Cardinality(Inserting) = 0
  BY FS_EmptySet DEF Init, Inserting
<1>2. SeenInv
  BY DEF Init, SeenInv, Seen, NoStmt
<1>3. ASSUME NEW a \in Agents, NEW Q \in SUBSET Running(a)
      PROVE  Unseen(a, Q) = {} /\ Q = {}
  BY <1>1 DEF Running, Unseen, WindowRows
<1>4. ASSUME NEW a \in Agents, DailyLimits(ActiveRules(a)) # {}, NEW Q \in SUBSET Running(a)
      PROVE  Total(Unseen(a, Q)) + Cardinality(Q) * DailyMax(a) <= PoolSize * DailyMax(a)
  <2>1. DailyMax(a) \in Nat
    BY <1>4, InitIInv, DailyMaxBounds DEF IInv
  <2>2. Total(Unseen(a, Q)) = 0 /\ Cardinality(Q) = 0
    BY <1>3, TotalOfNone, FS_EmptySet
  <2>3. PoolSize * DailyMax(a) \in Nat /\ 0 * DailyMax(a) = 0
    BY <2>1, ProxyAssumption
  <2>4. QED
    BY <2>2, <2>3
<1>5. QED
  BY <1>1, <1>2, <1>4, ProxyAssumption DEF PoolInv, Shared

-----------------------------------------------------------------------------
(* Its steps. *)

\* Nothing but management changes the rules.
LEMMA RulesStay ==
    ASSUME RulesFixed, [Next]_vars
    PROVE  UNCHANGED rules
BY DEF RulesFixed, Next, Receive, Step, Abort, FindKey, FindAgent, FindRules, SumSpent,
   StoreNonce, CheckRate, BeginInsert, CommitInsert, ChargeKey, Forward, Manage, ManageAgent,
   CreateAgent, CreateRule, UpdateRule, DeactivateRule, CreateSessionKey,
   RevokeSessionKey, RevokeAll, Tick, LoseNonces, Done, vars, tables, dbOnly

\* A step that neither starts nor ends a statement, and one that ends it
\* without a row.
LEMMA PoolFrame ==
    ASSUME IsFiniteSet(RuleIds), TypeOK, TypeOK', PoolInv, SeenInv',
           UNCHANGED <<rules, ledger>>, now <= now',
           \A q \in Inserting' : q \in Inserting /\ stmt'[q] = stmt[q]
                                    /\ payload'[q] = payload[q]
    PROVE  PoolInv'
<1>1. IsFiniteSet(Inserting') /\ Cardinality(Inserting') <= PoolSize
  <2>1. Inserting' \in SUBSET Inserting
    OBVIOUS
  <2>2. /\ IsFiniteSet(Inserting') /\ Cardinality(Inserting') <= Cardinality(Inserting)
        /\ Cardinality(Inserting) <= PoolSize /\ IsFiniteSet(Inserting)
    BY <2>1, FS_Subset DEF PoolInv
  <2>3. Cardinality(Inserting') \in Nat /\ Cardinality(Inserting) \in Nat
    BY <2>2, FS_CardinalityType
  <2>4. QED
    BY <2>2, <2>3, ProxyAssumption
<1>2. ASSUME NEW a \in Agents, DailyLimits(ActiveRules(a))' # {},
             NEW Q \in SUBSET Running(a)'
      PROVE  Total(Unseen(a, Q)') + Cardinality(Q) * DailyMax(a)' <= PoolSize * DailyMax(a)'
  <2>1. /\ ActiveRules(a)' = ActiveRules(a) /\ DailyMax(a)' = DailyMax(a)
        /\ DailyLimits(ActiveRules(a)) # {}
    BY <1>2 DEF ActiveRules, DailyMax
  <2>2. Q \in SUBSET Running(a) /\ Q \in SUBSET Inserting
    BY DEF Running
  <2>3. Unseen(a, Q)' \in SUBSET Unseen(a, Q)
    <3>1. WindowRows(a)' \in SUBSET WindowRows(a)
      <4>1. ASSUME NEW row \in ledger, row.at + Day > now' PROVE row.at + Day > now
        <5>1. row.at \in Nat /\ now \in Nat /\ now' \in Nat /\ Day \in Nat
          BY ProxyAssumption DEF TypeOK, LedgerRow
        <5>2. QED
          BY <4>1, <5>1
      <4>2. QED
        BY <4>1 DEF WindowRows
    <3>2. (UNION {stmt[q].rows : q \in Q})' = UNION {stmt[q].rows : q \in Q}
      BY DEF Running
    <3>3. QED
      BY <3>1, <3>2 DEF Unseen
  <2>4. /\ Total(Unseen(a, Q)') <= Total(Unseen(a, Q))
        /\ Total(Unseen(a, Q)') \in Nat /\ Total(Unseen(a, Q)) \in Nat
    <3>1. Unseen(a, Q) \in SUBSET LedgerRow /\ IsFiniteSet(Unseen(a, Q))
      BY <2>2, UnseenTypes
    <3>2. QED
      BY <2>3, <3>1, TotalMonotone
  <2>5. Total(Unseen(a, Q)) + Cardinality(Q) * DailyMax(a) <= PoolSize * DailyMax(a)
    BY <2>1, <2>2 DEF PoolInv, Shared
  <2>6. Cardinality(Q) * DailyMax(a) \in Nat /\ PoolSize * DailyMax(a) \in Nat
    <3>1. DailyMax(a) \in Nat /\ Cardinality(Q) \in Nat
      BY <2>1, <2>2, UnseenTypes, DailyMaxBounds
    <3>2. QED
      BY <3>1, Multiples, ProxyAssumption
  <2> HIDE DEF Unseen, DailyMax
  <2>7. Total(Unseen(a, Q)') + Cardinality(Q) * DailyMax(a) <= PoolSize * DailyMax(a)
    BY <2>4, <2>5, <2>6
  <2>8. QED
    BY <2>1, <2>7
<1>3. IsFiniteSet(ledger')
  BY DEF PoolInv
<1>4. QED
  BY <1>1, <1>2, <1>3 DEF PoolInv, Shared

\* A statement starts: it has seen everything, and takes a connection.
LEMMA PoolBegin ==
    ASSUME IsFiniteSet(RuleIds), IInv, TypeOK', PoolInv, SeenInv', UNCHANGED rules,
           NEW r \in Requests, BeginInsert(r), status'[r] = "inserting"
    PROVE  PoolInv'
<1>1. PICK limit \in ExtractDailyLimit(seenRules[r]) :
        /\ Cardinality(Inserting) < PoolSize
        /\ stmt' = [stmt EXCEPT ![r] =
               [limit |-> limit, at |-> now,
                rows |-> IF limit = Absent THEN {} ELSE WindowRows(payload[r].agent)]]
  <2>1. status' # [status EXCEPT ![r] = "Internal"]
    BY DEF IInv, TypeOK
  <2>2. QED
    BY <2>1 DEF BeginInsert, Goto, Inserting
<1>2. /\ status[r] = "reserve" /\ Metered(r) /\ r \notin Inserting
      /\ UNCHANGED <<now, ledger, payload>>
  BY DEF BeginInsert, tables, IInv, CarriesInv, Inserting
<1>3. Inserting' = Inserting \cup {r}
  <2>1. \A q \in Requests : q # r => status'[q] = status[q]
    BY DEF BeginInsert, Goto, IInv, TypeOK
  <2>2. QED
    BY <2>1 DEF Inserting
<1>4. IsFiniteSet(Inserting') /\ Cardinality(Inserting') <= PoolSize
  <2>1. IsFiniteSet(Inserting) /\ Cardinality(Inserting) \in Nat
    BY FS_CardinalityType DEF PoolInv
  <2>2. IsFiniteSet(Inserting') /\ Cardinality(Inserting') = Cardinality(Inserting) + 1
    BY <1>2, <1>3, <2>1, FS_AddElement
  <2>3. QED
    BY <1>1, <2>1, <2>2, ProxyAssumption
<1>5. ASSUME NEW a \in Agents, DailyLimits(ActiveRules(a))' # {},
             NEW Q \in SUBSET Running(a)'
      PROVE  Total(Unseen(a, Q)') + Cardinality(Q) * DailyMax(a)' <= PoolSize * DailyMax(a)'
  <2>1. /\ ActiveRules(a)' = ActiveRules(a) /\ DailyMax(a)' = DailyMax(a)
        /\ DailyLimits(ActiveRules(a)) # {} /\ DailyMax(a) \in Nat
    <3>1. ActiveRules(a)' = ActiveRules(a)
      BY DEF ActiveRules
    <3>2. DailyLimits(ActiveRules(a)) # {} /\ DailyMax(a)' = DailyMax(a)
      BY <1>5, <3>1 DEF DailyMax
    <3>3. QED
      BY <3>1, <3>2, DailyMaxBounds DEF IInv
  <2>2. WindowRows(a)' = WindowRows(a)
    BY <1>2 DEF WindowRows
  <2>3. CASE r \notin Q
    <3>1. Q \in SUBSET Running(a)
      BY <1>2, <1>3, <2>3 DEF Running
    <3>2. Unseen(a, Q)' = Unseen(a, Q)
      <4>1. \A q \in Q : stmt'[q] = stmt[q]
        BY <1>1, <2>3, <3>1 DEF Running, Inserting, IInv, TypeOK
      <4>2. QED
        BY <2>2, <4>1 DEF Unseen
    <3>3. Total(Unseen(a, Q)) + Cardinality(Q) * DailyMax(a) <= PoolSize * DailyMax(a)
      BY <2>1, <3>1 DEF PoolInv, Shared
    <3>4. QED
      BY <2>1, <3>2, <3>3
  <2>4. CASE r \in Q
    <3>1. payload[r].agent = a
      BY <1>2, <2>4 DEF Running
    <3>2. limit # Absent
      <4>1. seenRules[r] = ActiveRules(a)
        BY <1>2, <3>1 DEF PoolInv, SeenInv, Seen
      <4>2. limit \in DailyLimits(ActiveRules(a))
        BY <1>1, <2>1, <4>1 DEF ExtractDailyLimit
      <4>3. limit \in Nat
        BY <2>1, <4>2, DailyMaxBounds DEF IInv
      <4>4. QED
        BY <4>3, AddressAssumption
    <3>3. stmt'[r].rows = WindowRows(a)
      BY <1>1, <3>1, <3>2 DEF IInv, TypeOK
    <3>4. Unseen(a, Q)' = {}
      BY <2>2, <2>4, <3>3 DEF Unseen
    <3>5. Q \in SUBSET Inserting'
      BY DEF Running
    <3>6. Cardinality(Q) \in Nat /\ Cardinality(Q) <= PoolSize
      <4>1. IsFiniteSet(Q) /\ Cardinality(Q) <= Cardinality(Inserting')
        BY <1>4, <3>5, FS_Subset
      <4>2. Cardinality(Q) \in Nat /\ Cardinality(Inserting') \in Nat
        BY <1>4, <4>1, FS_CardinalityType
      <4>3. QED
        BY <1>4, <4>1, <4>2, ProxyAssumption
    <3>7. /\ Cardinality(Q) * DailyMax(a) <= PoolSize * DailyMax(a)
          /\ Cardinality(Q) * DailyMax(a) \in Nat
      BY <2>1, <3>6, Multiples, ProxyAssumption
    <3>8. Total(Unseen(a, Q)') = 0
      BY <3>4, TotalOfNone
    <3>9. QED
      BY <2>1, <3>7, <3>8
  <2>5. QED
    BY <2>3, <2>4
<1>6. IsFiniteSet(ledger')
  BY <1>2 DEF PoolInv
<1>7. QED
  BY <1>4, <1>5, <1>6 DEF PoolInv, Shared

\* A statement commits its row: together with what it had seen the row is
\* within the limit, and what it had not seen is bounded with one statement
\* more.
LEMMA PoolCommit ==
    ASSUME IsFiniteSet(RuleIds), IInv, TypeOK', PoolInv, SeenInv', UNCHANGED <<rules, now, payload>>,
           NEW r \in Requests, status[r] = "inserting", Fits(r), NewRow(r) \in LedgerRow,
           ledger' = ledger \cup {NewRow(r)},
           NEW s, s # "inserting", Goto(r, s), stmt' = [stmt EXCEPT ![r] = NoStmt]
    PROVE  PoolInv'
<1> DEFINE new == NewRow(r)
<1>1. new.agent = payload[r].agent /\ new.amount = payload[r].value
  BY DEF NewRow
<1>2. Inserting' = Inserting \ {r} /\ r \in Inserting
  BY DEF Goto, IInv, TypeOK, Inserting
<1>3. IsFiniteSet(Inserting') /\ Cardinality(Inserting') <= PoolSize
  <2>1. Inserting' \in SUBSET Inserting
    BY <1>2
  <2>2. /\ IsFiniteSet(Inserting') /\ Cardinality(Inserting') <= Cardinality(Inserting)
        /\ Cardinality(Inserting) <= PoolSize /\ IsFiniteSet(Inserting)
    BY <2>1, FS_Subset DEF PoolInv
  <2>3. Cardinality(Inserting') \in Nat /\ Cardinality(Inserting) \in Nat
    BY <2>2, FS_CardinalityType
  <2>4. QED
    BY <2>2, <2>3, ProxyAssumption
<1>4. ASSUME NEW a \in Agents, DailyLimits(ActiveRules(a))' # {},
             NEW Q \in SUBSET Running(a)'
      PROVE  Total(Unseen(a, Q)') + Cardinality(Q) * DailyMax(a)' <= PoolSize * DailyMax(a)'
  <2>1. /\ ActiveRules(a)' = ActiveRules(a) /\ DailyMax(a)' = DailyMax(a)
        /\ DailyLimits(ActiveRules(a)) # {} /\ DailyMax(a) \in Nat
    <3>1. ActiveRules(a)' = ActiveRules(a)
      BY DEF ActiveRules
    <3>2. DailyLimits(ActiveRules(a)) # {} /\ DailyMax(a)' = DailyMax(a)
      BY <1>4, <3>1 DEF DailyMax
    <3>3. QED
      BY <3>1, <3>2, DailyMaxBounds DEF IInv
  <2>2. Q \in SUBSET Running(a) /\ r \notin Q /\ Q \in SUBSET Inserting
    BY <1>2 DEF Running
  <2>3. (UNION {stmt[q].rows : q \in Q})' = UNION {stmt[q].rows : q \in Q}
    <3>1. \A q \in Q : stmt'[q] = stmt[q]
      BY <2>2 DEF Inserting, IInv, TypeOK
    <3>2. QED
      BY <3>1
  <2>4. CASE a # payload[r].agent
    <3>1. WindowRows(a)' = WindowRows(a)
      BY <1>1, <2>4 DEF WindowRows
    <3>2. Unseen(a, Q)' = Unseen(a, Q)
      BY <2>3, <3>1 DEF Unseen
    <3>3. Total(Unseen(a, Q)) + Cardinality(Q) * DailyMax(a) <= PoolSize * DailyMax(a)
      BY <2>1, <2>2 DEF PoolInv, Shared
    <3>4. QED
      BY <2>1, <3>2, <3>3
  <2>5. CASE a = payload[r].agent
    <3> DEFINE R == Q \cup {r}
               seen == stmt[r].rows
               limit == stmt[r].limit
    <3>1. R \in SUBSET Running(a) /\ R \in SUBSET Inserting
      BY <1>2, <2>2, <2>5 DEF Running
    <3>2. Unseen(a, Q)' \subseteq (seen \cup {new}) \cup Unseen(a, R)
      BY <2>3 DEF Unseen, WindowRows
    <3>3. /\ seen \in SUBSET LedgerRow /\ IsFiniteSet(seen)
          /\ Total(seen) \in Nat
      <4>1. ledger \in SUBSET LedgerRow /\ IsFiniteSet(ledger) /\ seen \in SUBSET ledger
        BY DEF PoolInv, SeenInv, Seen, IInv, TypeOK
      <4>2. QED
        BY <4>1, TotalMonotone
    <3>4. /\ Total(seen) + payload[r].value <= DailyMax(a) /\ payload[r].value \in Nat
      <4>1. limit \in DailyLimits(ActiveRules(a))
        BY <2>1, <2>5 DEF PoolInv, SeenInv, Seen, ExtractDailyLimit
      <4>2. limit \in Nat /\ limit <= DailyMax(a)
        BY <2>1, <4>1, DailyMaxBounds DEF IInv
      <4>3. Total(seen) + payload[r].value <= limit
        BY <4>2, AddressAssumption DEF Fits
      <4>4. payload[r].value \in Nat
        BY <1>1 DEF LedgerRow
      <4> HIDE DEF limit, seen
      <4>5. QED
        BY <2>1, <3>3, <4>2, <4>3, <4>4
    <3>5. /\ Total({new}) = payload[r].value /\ IsFiniteSet({new}) /\ {new} \in SUBSET LedgerRow
      <4>1. {} \cup {new} = {new} /\ new \in LedgerRow \ {} /\ {} \in SUBSET LedgerRow
        OBVIOUS
      <4>2. Total({} \cup {new}) = Total({}) + new.amount /\ new.amount \in Nat
        BY <4>1, TotalAdd, FS_EmptySet
      <4> HIDE DEF new
      <4>3. Total({new}) = new.amount /\ new.amount \in Nat
        BY <4>1, <4>2, TotalOfNone
      <4>4. QED
        BY <1>1, <4>1, <4>3, FS_Singleton
    <3>6. /\ IsFiniteSet(seen \cup {new}) /\ seen \cup {new} \in SUBSET LedgerRow
          /\ Total(seen \cup {new}) <= Total(seen) + Total({new})
          /\ Total(seen \cup {new}) \in Nat
      BY <3>3, <3>5, TotalUnion, FS_Union, TotalIsSum
    <3>7. /\ Unseen(a, R) \in SUBSET LedgerRow /\ IsFiniteSet(Unseen(a, R))
          /\ Total(Unseen(a, R)) \in Nat
          /\ IsFiniteSet(Q) /\ Cardinality(Q) \in Nat /\ Cardinality(R) = Cardinality(Q) + 1
      <4>1. IsFiniteSet(Q) /\ Cardinality(Q) \in Nat
        BY <2>2, UnseenTypes DEF IInv
      <4>2. Cardinality(R) = Cardinality(Q) + 1
        BY <2>2, <4>1, FS_AddElement
      <4> HIDE DEF R
      <4>3. QED
        BY <3>1, <4>1, <4>2, UnseenTypes DEF IInv
    <3> DEFINE all == (seen \cup {new}) \cup Unseen(a, R)
    <3>8. /\ IsFiniteSet(all) /\ all \in SUBSET LedgerRow
          /\ Total(all) <= Total(seen \cup {new}) + Total(Unseen(a, R))
          /\ Total(all) \in Nat
      <4> HIDE DEF seen, new, R
      <4>1. QED
        BY <3>6, <3>7, TotalUnion, FS_Union, TotalIsSum
    <3>9. Total(Unseen(a, Q)') <= Total(all) /\ Total(Unseen(a, Q)') \in Nat
      <4>1. Unseen(a, Q)' \in SUBSET all
        BY <3>2
      <4> HIDE DEF all
      <4>2. QED
        BY <3>8, <4>1, TotalMonotone
    <3>10. Total(Unseen(a, R)) + Cardinality(R) * DailyMax(a) <= PoolSize * DailyMax(a)
      <4> HIDE DEF R
      <4>1. QED
        BY <2>1, <3>1 DEF PoolInv, Shared
    <3>11. /\ Cardinality(R) * DailyMax(a) = Cardinality(Q) * DailyMax(a) + DailyMax(a)
           /\ Cardinality(Q) * DailyMax(a) \in Nat /\ PoolSize * DailyMax(a) \in Nat
      BY <2>1, <3>7, Multiples, ProxyAssumption
    <3> HIDE DEF all, seen, new, R
    <3>12. Total(Unseen(a, Q)') + Cardinality(Q) * DailyMax(a) <= PoolSize * DailyMax(a)
      BY <2>1, <3>3, <3>4, <3>5, <3>6, <3>7, <3>8, <3>9, <3>10, <3>11
    <3>13. QED
      BY <2>1, <3>12
  <2>6. QED
    BY <2>4, <2>5
<1>5. IsFiniteSet(ledger')
  BY FS_AddElement DEF PoolInv
<1>6. QED
  BY <1>3, <1>4, <1>5 DEF PoolInv, Shared

-----------------------------------------------------------------------------

\* What one request does is nothing to the others.
LEMMA SeenFrame ==
    ASSUME SeenInv, UNCHANGED rules, ledger \subseteq ledger', NEW r \in Requests, Seen(r)',
           \A q \in Requests : q # r =>
              /\ status'[q] = status[q] /\ payload'[q] = payload[q]
              /\ seenRules'[q] = seenRules[q] /\ stmt'[q] = stmt[q]
    PROVE  SeenInv'
<1>1. \A a : ActiveRules(a)' = ActiveRules(a)
  BY DEF ActiveRules
<1>2. ASSUME NEW q \in Requests, q # r PROVE Seen(q)'
  BY <1>1, <1>2 DEF SeenInv, Seen, Metered
<1>3. QED
  BY <1>2 DEF SeenInv

LEMMA SeenStep ==
    ASSUME IInv, SeenInv, IsFiniteSet(ledger), UNCHANGED rules, [Next]_vars
    PROVE  SeenInv'
<1> USE DEF tables, locals
<1>0. TypeOK
  BY DEF IInv
<1>1. \A a : ActiveRules(a)' = ActiveRules(a)
  BY DEF ActiveRules
<1>2. ASSUME NEW r \in Requests, Receive(r) PROVE SeenInv'
  <2>1. PICK p \in Payloads : payload' = [payload EXCEPT ![r] = p] /\ Goto(r, VerifyPayment(p))
    BY <1>2 DEF Receive
  <2>2. p \in Payload /\ payload'[r] = p /\ status'[r] = VerifyPayment(p)
    BY <1>0, <2>1, ProxyAssumption DEF TypeOK, Goto
  <2>3. \/ VerifyPayment(p) \in {"BadRequest", "Unauthorized", "findKey", "findAgent"}
        \/ VerifyPayment(p) = "storeNonce" /\ p.agent = Absent
    BY <2>2, VerifyPaymentAnswers
  <2>4. UNCHANGED <<ledger, seenRules, stmt>>
    BY <1>2 DEF Receive
  <2>5. Seen(r)'
    BY <2>2, <2>3, <2>4 DEF Seen, SeenInv, Metered
  <2>6. QED
    BY <1>0, <2>1, <2>4, <2>5, SeenFrame DEF TypeOK, Goto
<1>3. ASSUME NEW r \in Requests, FindKey(r) PROVE SeenInv'
  <2>1. /\ Goto(r, AnswerOfKey(keys[payload[r].key], payload[r]))
        /\ UNCHANGED <<ledger, payload, seenRules, stmt>>
    BY <1>3 DEF FindKey
  <2>2. \/ AnswerOfKey(keys[payload[r].key], payload[r]) \in Answers \cup {"findAgent"}
        \/ AnswerOfKey(keys[payload[r].key], payload[r]) = "storeNonce" /\ ~Metered(r)
    BY DEF AnswerOfKey, AfterKey, Answers, Metered
  <2>3. status'[r] = AnswerOfKey(keys[payload[r].key], payload[r])
    BY <1>0, <2>1 DEF TypeOK, Goto
  <2>4. Seen(r)'
    BY <2>1, <2>2, <2>3 DEF Seen, SeenInv, Metered, Answers
  <2>5. QED
    BY <1>0, <2>1, <2>4, SeenFrame DEF TypeOK, Goto
<1>4. ASSUME NEW r \in Requests, NEW s, Goto(r, s), ledger \subseteq ledger',
             UNCHANGED payload,
             \A q \in Requests : q # r => seenRules'[q] = seenRules[q] /\ stmt'[q] = stmt[q],
             s \in {"sumSpent", "storeNonce", "rateLimit", "reserve"} /\ Metered(r)
               => seenRules'[r] = ActiveRules(payload[r].agent),
             s = "inserting"
               => stmt'[r].limit \in ExtractDailyLimit(ActiveRules(payload[r].agent)),
             stmt'[r].rows \subseteq ledger'
      PROVE  SeenInv'
  <2>1. status'[r] = s /\ \A q \in Requests : q # r => status'[q] = status[q]
    BY <1>0, <1>4 DEF TypeOK, Goto
  <2>2. Seen(r)'
    BY <1>1, <1>4, <2>1 DEF Seen, Metered
  <2>3. QED
    BY <1>4, <2>1, <2>2, SeenFrame
<1>5. ASSUME NEW r \in Requests, FindAgent(r) \/ ChargeKey(r) \/ Forward(r) PROVE SeenInv'
  <2>1. PICK s \in Answers \cup {"findRules", "forward"} : Goto(r, s)
    BY <1>5 DEF FindAgent, AnswerOfAgent, ChargeKey, Forward, Answers
  <2>2. /\ UNCHANGED <<ledger, payload, stmt>>
        /\ \A q \in Requests : q # r => seenRules'[q] = seenRules[q]
    BY <1>0, <1>5 DEF FindAgent, ChargeKey, Forward, TypeOK
  <2>3. stmt[r].rows \subseteq ledger
    BY DEF SeenInv, Seen
  <2>4. QED
    BY <1>4, <2>1, <2>2, <2>3 DEF Answers
<1>6. ASSUME NEW r \in Requests, FindRules(r) PROVE SeenInv'
  <2>1. /\ Goto(r, "sumSpent") /\ UNCHANGED <<ledger, payload, stmt>>
        /\ seenRules'[r] = ActiveRules(payload[r].agent)
        /\ \A q \in Requests : q # r => seenRules'[q] = seenRules[q]
    BY <1>0, <1>6 DEF FindRules, TypeOK
  <2>2. stmt[r].rows \subseteq ledger
    BY DEF SeenInv, Seen
  <2>3. QED
    BY <1>4, <2>1, <2>2
<1>7. ASSUME NEW r \in Requests, SumSpent(r) PROVE SeenInv'
  <2>1. /\ status[r] = "sumSpent" /\ UNCHANGED <<ledger, payload, stmt>>
        /\ \A q \in Requests : q # r => seenRules'[q] = seenRules[q]
    BY <1>0, <1>7 DEF SumSpent, TypeOK
  <2>2. PICK s : /\ Goto(r, s)
                 /\ \/ s \in Answers
                    \/ s = "storeNonce" /\ seenRules'[r] = seenRules[r]
    <3> DEFINE spent == Total(WindowRows(payload[r].agent))
               ok == Evaluate(seenRules[r], payload[r], spent)
    <3>1. /\ Goto(r, IF spent > MaxI64 THEN "Internal"
                     ELSE IF ok THEN "storeNonce" ELSE "GuardrailViolation")
          /\ seenRules' = [seenRules EXCEPT ![r] = IF spent <= MaxI64 /\ ok THEN @ ELSE {}]
      BY <1>7 DEF SumSpent
    <3> HIDE DEF spent, ok
    <3>2. CASE spent > MaxI64
      BY <3>1, <3>2 DEF Answers
    <3>3. CASE ~(spent > MaxI64) /\ ~ok
      BY <3>1, <3>3 DEF Answers
    <3>4. CASE ~(spent > MaxI64) /\ ok
      <4>1. Goto(r, "storeNonce")
        BY <3>1, <3>4
      <4>2. seenRules'[r] = seenRules[r]
        <5>1. spent <= MaxI64
          <6>1. spent \in Nat /\ MaxI64 \in Nat
            <7>1. WindowRows(payload[r].agent) \in SUBSET ledger /\ ledger \in SUBSET LedgerRow
              BY <1>0 DEF WindowRows, TypeOK
            <7>2. QED
              BY <7>1, TotalMonotone, WidthAssumption DEF spent
          <6>2. QED
            BY <3>4, <6>1
        <5>2. QED
          BY <1>0, <3>1, <3>4, <5>1 DEF TypeOK
      <4>3. QED
        BY <4>1, <4>2
    <3>5. QED
      BY <3>2, <3>3, <3>4
  <2>3. s \in {"storeNonce"} /\ Metered(r) => seenRules'[r] = ActiveRules(payload[r].agent)
    BY <2>1, <2>2 DEF SeenInv, Seen, Answers
  <2>4. stmt[r].rows \subseteq ledger
    BY DEF SeenInv, Seen
  <2>5. QED
    BY <1>4, <2>1, <2>2, <2>3, <2>4 DEF Answers
<1>8. ASSUME NEW r \in Requests, StoreNonce(r) \/ CheckRate(r) PROVE SeenInv'
  <2>1. /\ status[r] \in {"storeNonce", "rateLimit"} /\ UNCHANGED <<ledger, payload, stmt>>
        /\ \A q \in Requests : q # r => seenRules'[q] = seenRules[q]
    BY <1>0, <1>8 DEF StoreNonce, CheckRate, TypeOK
  <2>2. PICK s : /\ Goto(r, s)
                 /\ \/ s \in Answers
                    \/ s \in {"rateLimit", "reserve", "forward"} /\ seenRules'[r] = seenRules[r]
    BY <1>8 DEF StoreNonce, CheckRate, Answers
  <2>3. s \in {"rateLimit", "reserve"} /\ Metered(r)
          => seenRules'[r] = ActiveRules(payload[r].agent)
    BY <2>1, <2>2 DEF SeenInv, Seen, Answers
  <2>4. stmt[r].rows \subseteq ledger
    BY DEF SeenInv, Seen
  <2>5. QED
    BY <1>4, <2>1, <2>2, <2>3, <2>4 DEF Answers
<1>9. ASSUME NEW r \in Requests, BeginInsert(r) PROVE SeenInv'
  <2>1. /\ status[r] = "reserve" /\ Metered(r) /\ UNCHANGED <<ledger, payload>>
        /\ \A q \in Requests : q # r => seenRules'[q] = seenRules[q]
    BY <1>0, <1>9 DEF BeginInsert, TypeOK, IInv, CarriesInv
  <2>2. seenRules[r] = ActiveRules(payload[r].agent)
    BY <2>1 DEF SeenInv, Seen
  <2>3. PICK limit \in ExtractDailyLimit(seenRules[r]) :
          \/ Goto(r, "Internal") /\ UNCHANGED stmt
          \/ /\ Goto(r, "inserting")
             /\ stmt' = [stmt EXCEPT ![r] =
                   [limit |-> limit, at |-> now,
                    rows |-> IF limit = Absent THEN {} ELSE WindowRows(payload[r].agent)]]
    BY <1>9 DEF BeginInsert
  <2>4. CASE Goto(r, "Internal") /\ UNCHANGED stmt
    <3>1. stmt[r].rows \subseteq ledger
      BY DEF SeenInv, Seen
    <3>2. QED
      BY <1>4, <2>1, <2>4, <3>1
  <2>5. CASE /\ Goto(r, "inserting")
             /\ stmt' = [stmt EXCEPT ![r] =
                   [limit |-> limit, at |-> now,
                    rows |-> IF limit = Absent THEN {} ELSE WindowRows(payload[r].agent)]]
    <3>1. /\ stmt'[r].limit = limit
          /\ stmt'[r].rows = IF limit = Absent THEN {} ELSE WindowRows(payload[r].agent)
          /\ \A q \in Requests : q # r => stmt'[q] = stmt[q]
      BY <1>0, <2>5 DEF TypeOK
    <3>2. stmt'[r].rows \subseteq ledger
      BY <3>1 DEF WindowRows
    <3>3. QED
      BY <1>4, <2>1, <2>2, <2>3, <2>5, <3>1, <3>2
  <2>6. QED
    BY <2>3, <2>4, <2>5
<1>10. ASSUME NEW r \in Requests, CommitInsert(r) \/ Abort(r) PROVE SeenInv'
  <2>1. /\ UNCHANGED payload /\ ledger \subseteq ledger'
        /\ stmt' = [stmt EXCEPT ![r] = NoStmt]
        /\ \A q \in Requests : q # r => seenRules'[q] = seenRules[q]
    BY <1>0, <1>10 DEF CommitInsert, Abort, TypeOK
  <2>2. PICK s \in Answers \cup {"charge", "forward", "Aborted"} : Goto(r, s)
    BY <1>10 DEF CommitInsert, Abort, Answers
  <2>3. stmt'[r].rows = {} /\ \A q \in Requests : q # r => stmt'[q] = stmt[q]
    BY <1>0, <2>1 DEF TypeOK, NoStmt
  <2>4. QED
    BY <1>4, <2>1, <2>2, <2>3 DEF Answers
<1>11. CASE Manage \/ Tick \/ LoseNonces \/ Done \/ UNCHANGED vars
  <2>1. UNCHANGED <<ledger, status, payload, seenRules, stmt>>
    BY <1>11 DEF Manage, ManageAgent, CreateAgent, RevokeAll, CreateRule, UpdateRule, DeactivateRule,
       CreateSessionKey, RevokeSessionKey, dbOnly, Tick, LoseNonces, Done, vars
  <2>2. QED
    BY <1>1, <2>1 DEF SeenInv, Seen, Metered
<1>12. QED
  BY <1>2, <1>3, <1>5, <1>6, <1>7, <1>8, <1>9, <1>10, <1>11 DEF Next, Step

-----------------------------------------------------------------------------

LEMMA PoolStep ==
    ASSUME IsFiniteSet(RuleIds), RulesFixed, IInv, PoolInv, [Next]_vars
    PROVE  PoolInv'
<1>1. UNCHANGED rules
  BY RulesStay
<1>2. TypeOK /\ TypeOK' /\ SeenInv'
  BY <1>1, NextIInv, SeenStep DEF IInv, PoolInv
<1>3. ASSUME UNCHANGED <<ledger, now>>, NEW r \in Requests, NEW s, s # "inserting", Goto(r, s),
             \A q \in Requests : q # r => payload'[q] = payload[q] /\ stmt'[q] = stmt[q]
      PROVE  PoolInv'
  <2>1. status'[r] = s /\ \A q \in Requests : q # r => status'[q] = status[q]
    BY <1>2, <1>3 DEF Goto, TypeOK
  <2>2. \A q \in Inserting' : q \in Inserting /\ stmt'[q] = stmt[q] /\ payload'[q] = payload[q]
    BY <1>3, <2>1 DEF Inserting
  <2>3. now <= now'
    BY <1>2, <1>3, ProxyAssumption DEF TypeOK
  <2>4. QED
    BY <1>1, <1>2, <1>3, <2>2, <2>3, PoolFrame
<1>4. ASSUME NEW r \in Requests,
             \/ FindKey(r) \/ FindAgent(r) \/ FindRules(r) \/ SumSpent(r)
             \/ StoreNonce(r) \/ CheckRate(r) \/ ChargeKey(r) \/ Forward(r)
      PROVE  PoolInv'
  <2>1. UNCHANGED <<ledger, now, payload, stmt>>
    BY <1>4 DEF FindKey, FindAgent, FindRules, SumSpent, StoreNonce, CheckRate, ChargeKey,
       Forward, tables, locals
  <2>2. \E s : s # "inserting" /\ Goto(r, s)
    <3>1. CASE FindKey(r) \/ FindAgent(r)
      BY <3>1 DEF FindKey, FindAgent, AnswerOfKey, AfterKey, AnswerOfAgent
    <3>2. CASE FindRules(r) \/ StoreNonce(r) \/ CheckRate(r) \/ ChargeKey(r) \/ Forward(r)
      BY <3>2 DEF FindRules, StoreNonce, CheckRate, ChargeKey, Forward
    <3>3. CASE SumSpent(r)
      BY <3>3 DEF SumSpent
    <3>4. QED
      BY <1>4, <3>1, <3>2, <3>3
  <2>3. QED
    BY <1>3, <2>1, <2>2
<1>5. ASSUME NEW r \in Requests, Receive(r) PROVE PoolInv'
  <2>1. PICK p \in Payloads : payload' = [payload EXCEPT ![r] = p] /\ Goto(r, VerifyPayment(p))
    BY <1>5 DEF Receive
  <2>2. VerifyPayment(p) # "inserting"
    BY VerifyPaymentAnswers, ProxyAssumption
  <2>3. /\ UNCHANGED <<ledger, now, stmt>>
        /\ \A q \in Requests : q # r => payload'[q] = payload[q]
    BY <1>2, <1>5, <2>1 DEF Receive, TypeOK, tables
  <2>4. QED
    BY <1>3, <2>1, <2>2, <2>3
<1>6. ASSUME NEW r \in Requests, BeginInsert(r) PROVE PoolInv'
  <2>1. CASE status'[r] = "inserting"
    BY <1>1, <1>2, <1>6, <2>1, PoolBegin
  <2>2. CASE status'[r] # "inserting"
    <3>1. /\ Goto(r, "Internal") /\ UNCHANGED stmt
      BY <1>2, <1>6, <2>2 DEF BeginInsert, Goto, TypeOK
    <3>2. UNCHANGED <<ledger, now, payload>>
      BY <1>6 DEF BeginInsert, tables
    <3>3. QED
      BY <1>3, <3>1, <3>2
  <2>3. QED
    BY <2>1, <2>2
<1>7. ASSUME NEW r \in Requests, CommitInsert(r) \/ Abort(r) PROVE PoolInv'
  <2>1. /\ UNCHANGED <<now, payload>> /\ stmt' = [stmt EXCEPT ![r] = NoStmt]
    BY <1>7 DEF CommitInsert, Abort
  <2>2. PICK s : s # "inserting" /\ Goto(r, s)
    BY <1>7 DEF CommitInsert, Abort
  <2>3. CASE UNCHANGED ledger
    <3>1. \A q \in Requests : q # r => stmt'[q] = stmt[q]
      BY <1>2, <2>1 DEF TypeOK
    <3>2. QED
      BY <1>3, <2>1, <2>2, <2>3, <3>1
  <2>4. CASE status[r] = "inserting" /\ Fits(r) /\ ledger' = ledger \cup {NewRow(r)}
    <3>1. NewRow(r) \in LedgerRow
      BY <1>2, <2>4 DEF TypeOK
    <3>2. QED
      BY <1>1, <1>2, <2>1, <2>2, <2>4, <3>1, PoolCommit
  <2>5. QED
    BY <1>7, <2>3, <2>4 DEF CommitInsert, Abort
<1>8. CASE Manage \/ Tick \/ LoseNonces \/ Done \/ UNCHANGED vars
  <2>1. UNCHANGED <<ledger, status, payload, stmt>> /\ now' \in {now, now + 1}
    BY <1>8 DEF Manage, ManageAgent, CreateAgent, RevokeAll, CreateRule, UpdateRule, DeactivateRule,
       CreateSessionKey, RevokeSessionKey, dbOnly, Tick, LoseNonces, Done, vars, tables, locals
  <2>2. now <= now'
    BY <1>2, <2>1, ProxyAssumption DEF TypeOK
  <2>3. \A q \in Inserting' : q \in Inserting /\ stmt'[q] = stmt[q] /\ payload'[q] = payload[q]
    BY <2>1 DEF Inserting
  <2>4. QED
    BY <1>1, <1>2, <2>1, <2>2, <2>3, PoolFrame
<1>9. QED
  BY <1>4, <1>5, <1>6, <1>7, <1>8 DEF Next, Step

\* However many requests run at once: while its rules stay as they are, an
\* agent has at most PoolSize times its largest daily limit in 24 hours.
THEOREM OverspendWithinPoolCorrect ==
    ASSUME IsFiniteSet(RuleIds), RulesFixed
    PROVE  Spec => []OverspendWithinPool
<1>1. Init => PoolInv
  BY PoolInit
<1>2. IInv /\ PoolInv /\ [Next]_vars => PoolInv'
  BY PoolStep
<1>3. ASSUME IInv, PoolInv, NEW a \in Agents, DailyLimits(ActiveRules(a)) # {}
      PROVE  Total(WindowRows(a)) <= PoolSize * DailyMax(a)
  <2>1. {} \in SUBSET Running(a) /\ Unseen(a, {}) = WindowRows(a)
    BY DEF Unseen
  <2>2. Total(WindowRows(a)) + Cardinality({}) * DailyMax(a) <= PoolSize * DailyMax(a)
    BY <1>3, <2>1 DEF PoolInv, Shared
  <2>3. Cardinality({}) = 0 /\ DailyMax(a) \in Nat
    BY <1>3, FS_EmptySet, DailyMaxBounds DEF IInv
  <2>4. /\ 0 * DailyMax(a) = 0 /\ PoolSize * DailyMax(a) \in Nat
    BY <2>3, Multiples, ProxyAssumption
  <2>5. Total(WindowRows(a)) \in Nat
    BY <1>3, <2>1, UnseenTypes DEF IInv
  <2> HIDE DEF DailyMax
  <2>6. QED
    BY <2>2, <2>3, <2>4, <2>5
<1>4. IInv /\ PoolInv => OverspendWithinPool
  BY <1>3 DEF OverspendWithinPool
<1>5. QED
  BY <1>1, <1>2, <1>4, IInvCorrect, PTL DEF Spec
=============================================================================
