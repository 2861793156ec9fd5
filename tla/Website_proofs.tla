---------------------------- MODULE Website_proofs ----------------------------
(***************************************************************************)
(* Theorems about Website for every value of its constants: what the       *)
(* dashboard writes, it writes for a user who has signed; its steps are    *)
(* steps of the proxy, so that what is proved of the proxy holds under it; *)
(* what the page of an agent shows can be relied on; and a conversation    *)
(* has a price that no retry exceeds.                                      *)
(***************************************************************************)
EXTENDS Website, PaymentProxy_proofs

-----------------------------------------------------------------------------
(* The inductive invariant of sign-in: only wallets that have signed have a *)
(* session, since the route verify compares the signer with the address.    *)

FormRow == [state: Waiting \cup {"idle"}, address: Wallets \cup {Nobody},
            nonce: 0..MaxNonces, sent: 0..MaxNonces,
            signer: Wallets \cup {Nobody}, spoiled: BOOLEAN, outcome: Outcomes]

Verifying == {"findUser", "createUser", "newUser"}

FormInv(f, S, U) ==
    /\ f.state = "verify" \/ f.state \in Verifying => f.signer \in S
    /\ f.state \in Verifying => f.address = f.signer
    /\ f.state = "newUser" => f.address \in U

SignInInv ==
    /\ SignInType
    /\ live \subseteq signers
    /\ \A t \in Tabs : FormInv(form[t], signers, users)

\* A step that changes one form, and lets signers and users only grow.
LEMMA FormChange ==
    ASSUME SignInInv, NEW t \in Tabs, NEW f \in FormRow,
           form' = [form EXCEPT ![t] = f], FormInv(f, signers', users'),
           signers \subseteq signers', users \subseteq users'
    PROVE  /\ form' \in [Tabs -> FormRow]
           /\ \A u \in Tabs : FormInv(form'[u], signers', users')
<1>1. form \in [Tabs -> FormRow]
  BY DEF SignInInv, SignInType, FormRow
<1>2. form'[t] = f /\ \A u \in Tabs : u # t => form'[u] = form[u]
  BY <1>1
<1>3. \A u \in Tabs : FormInv(form[u], signers', users')
  BY DEF SignInInv, FormInv
<1>4. QED
  BY <1>1, <1>2, <1>3

\* A form goes on to its next await, or ends.
LEMMA FormGoes ==
    ASSUME NEW f \in FormRow, NEW state \in Waiting, NEW S, NEW U,
           state = "verify" \/ state \in Verifying => f.signer \in S,
           state \in Verifying => f.address = f.signer,
           state = "newUser" => f.address \in U
    PROVE  /\ [f EXCEPT !.state = state] \in FormRow
           /\ FormInv([f EXCEPT !.state = state], S, U)
  BY DEF FormRow, FormInv, Verifying

LEMMA FormEnds ==
    ASSUME NEW f \in FormRow, NEW outcome \in Outcomes, NEW S, NEW U
    PROVE  /\ [f EXCEPT !.state = "idle", !.outcome = outcome] \in FormRow
           /\ FormInv([f EXCEPT !.state = "idle", !.outcome = outcome], S, U)
  BY DEF FormRow, FormInv, Verifying

\* When something changes the cookie, the forms that wait for a signature
\* take note of it; nothing else becomes of them.
LEMMA SpoilingKeeps ==
    ASSUME SignInInv, NEW t
    PROVE  /\ Spoiling(t) \in [Tabs -> FormRow]
           /\ \A u \in Tabs : FormInv(Spoiling(t)[u], signers, users)
           /\ \A u \in Tabs : u = t => Spoiling(t)[u] = form[u]
<1>1. form \in [Tabs -> FormRow]
  BY DEF SignInInv, SignInType, FormRow
<1>2. ASSUME NEW u \in Tabs
      PROVE  /\ Spoiling(t)[u] \in FormRow
             /\ FormInv(Spoiling(t)[u], signers, users)
             /\ u = t => Spoiling(t)[u] = form[u]
  <2>1. CASE u # t /\ At(u, "sign")
    <3>1. Spoiling(t)[u] = [form[u] EXCEPT !.spoiled = TRUE]
      BY <2>1 DEF Spoiling
    <3>2. form[u] \in FormRow
      BY <1>1
    <3>3. QED
      BY <2>1, <3>1, <3>2 DEF FormRow, FormInv, At, Verifying
  <2>2. CASE ~(u # t /\ At(u, "sign"))
    <3>1. Spoiling(t)[u] = form[u]
      BY <2>2 DEF Spoiling
    <3>2. QED
      BY <1>1, <3>1 DEF SignInInv
  <2>3. QED
    BY <2>1, <2>2
<1>3. Spoiling(t) = [u \in Tabs |-> Spoiling(t)[u]]
  BY DEF Spoiling
<1>4. QED
  BY <1>2, <1>3

LEMMA InitSignInInv ==
    ASSUME NEW who \in Wallets \cup {Nobody}, SignInInit(who)
    PROVE  SignInInv
<1>1. NoForm \in FormRow
  BY SignInAssumption DEF NoForm, FormRow, Outcomes
<1>2. form \in [Tabs -> FormRow]
  BY <1>1 DEF SignInInit
<1>3. \A t \in Tabs : FormInv(form[t], signers, users)
  BY DEF SignInInit, NoForm, FormInv, Verifying
<1>4. SignInType
  BY <1>2, SignInAssumption DEF SignInInit, SignInType, FormRow, Places
<1>5. QED
  BY <1>3, <1>4 DEF SignInInv, SignInInit

\* The steps that change the wallet, the place or a form, and neither users
\* nor sessions.
LEMMA HookSignInInv ==
    ASSUME SignInInv, NEW t \in Tabs,
           Click(t) \/ SwitchChain(t) \/ Sign(t) \/ Verify(t) \/ VerifyFails(t)
    PROVE  SignInInv' /\ signers \subseteq signers'
<1>1. form[t] \in FormRow /\ NoForm \in FormRow
  BY SignInAssumption DEF SignInInv, SignInType, FormRow, NoForm, Outcomes
<1>2. FormInv(form[t], signers, users)
  BY DEF SignInInv
<1>3. UNCHANGED <<nonce, supabase, session, place>>
  BY DEF Click, SwitchChain, Sign, Verify, VerifyFails
<1> USE DEF Shows, Goes, Ends, At, Limited
<1>4. \E f \in FormRow : form' = [form EXCEPT ![t] = f] /\ FormInv(f, signers', users')
  <2>1. CASE Click(t)
    <3>1. PICK state \in {"nonce", "switch"} :
             form' = [form EXCEPT ![t] = [NoForm EXCEPT !.state = state, !.address = account]]
      BY <2>1 DEF Click
    <3>2. account \in Wallets \cup {Nobody}
      BY DEF SignInInv, SignInType
    <3>3. [NoForm EXCEPT !.state = state, !.address = account] \in FormRow
      BY <1>1, <3>2 DEF FormRow, Waiting
    <3>4. QED
      BY <3>1, <3>3 DEF NoForm, FormInv, Verifying
  <2>2. CASE SwitchChain(t)
    <3>1. CASE form' = [form EXCEPT ![t] = [form[t] EXCEPT !.state = "nonce"]]
      BY <1>1, <3>1, FormGoes DEF Verifying, Waiting
    <3>2. CASE form' = [form EXCEPT ![t] = [form[t] EXCEPT
                  !.state = "idle", !.outcome = "wrongNetwork"]]
      BY <1>1, <3>2, FormEnds DEF Outcomes
    <3>3. QED
      BY <2>2, <3>1, <3>2 DEF SwitchChain
  <2>3. CASE Sign(t)
    <3>1. CASE /\ account # Nobody /\ signers' = signers \cup {account}
               /\ form' = [form EXCEPT ![t] = [form[t] EXCEPT
                     !.state = "verify", !.signer = account, !.sent = cookie]]
      <4> DEFINE f == [form[t] EXCEPT !.state = "verify", !.signer = account, !.sent = cookie]
      <4>1. account \in Wallets \cup {Nobody} /\ cookie \in 0..MaxNonces
        BY DEF SignInInv, SignInType
      <4>2. f \in FormRow
        BY <1>1, <4>1 DEF FormRow, Waiting
      <4>3. FormInv(f, signers', users')
        BY <1>1, <3>1 DEF FormRow, FormInv, Verifying
      <4>4. QED
        BY <3>1, <4>2, <4>3
    <3>2. CASE form' = [form EXCEPT ![t] = [form[t] EXCEPT
                     !.state = "idle", !.outcome = "cancelled"]]
      BY <1>1, <3>2, FormEnds DEF Outcomes
    <3>3. QED
      BY <2>3, <3>1, <3>2 DEF Sign
  <2>4. CASE Verify(t)
    <3>1. CASE form' = [form EXCEPT ![t] = [form[t] EXCEPT !.state = "findUser"]]
               /\ form[t].signer = form[t].address
      <4>1. form[t].signer \in signers'
        BY <1>2, <2>4 DEF Verify, FormInv
      <4>2. QED
        BY <1>1, <3>1, <4>1, FormGoes DEF Verifying, Waiting
    <3>2. CASE \E outcome \in {"noNonce", "notSigned"} : form' = [form EXCEPT ![t] =
                  [form[t] EXCEPT !.state = "idle", !.outcome = outcome]]
      <4>1. PICK outcome \in {"noNonce", "notSigned"} : form' = [form EXCEPT ![t] =
                    [form[t] EXCEPT !.state = "idle", !.outcome = outcome]]
        BY <3>2
      <4>2. outcome \in Outcomes
        BY DEF Outcomes
      <4>3. QED
        BY <1>1, <4>1, <4>2, FormEnds
    <3>3. QED
      BY <2>4, <3>1, <3>2 DEF Verify, Verified
  <2>5. CASE VerifyFails(t)
    BY <1>1, <2>5, FormEnds DEF VerifyFails, Outcomes
  <2>6. QED
    BY <2>1, <2>2, <2>3, <2>4, <2>5
<1>5. /\ signers \subseteq signers' /\ signers' \subseteq Wallets
      /\ account' = account
  BY DEF Click, SwitchChain, Sign, Verify, VerifyFails, SignInInv, SignInType
<1>6. /\ form' \in [Tabs -> FormRow]
      /\ \A u \in Tabs : FormInv(form'[u], signers', users')
  BY <1>3, <1>4, <1>5, FormChange DEF supabase
<1>7. QED
  BY <1>3, <1>5, <1>6 DEF SignInInv, SignInType, FormRow, nonce, supabase

\* The route of the nonce, the route verify where it grants a session, and
\* the cookie's own end.
LEMMA CookieSignInInv ==
    ASSUME SignInInv, NEW t \in Tabs,
           FetchNonce(t) \/ FindUser(t) \/ NewUser(t) \/ NonceExpires
    PROVE  SignInInv' /\ signers \subseteq signers'
<1>1. form[t] \in FormRow /\ FormInv(form[t], signers, users)
  BY DEF SignInInv, SignInType, FormRow
<1>2. UNCHANGED <<account, users, session, signers, place>>
  BY DEF FetchNonce, FindUser, NewUser, NonceExpires, Grant, supabase, Goes
<1> USE DEF Goes, Ends, At, Shows, Limited
<1>3. CASE /\ issued < MaxNonces /\ issued' = issued + 1 /\ cookie' = issued'
           /\ \/ form' = [Spoiling(t) EXCEPT ![t].state = "sign", ![t].nonce = issued']
              \/ form' = [Spoiling(t) EXCEPT ![t].state = "idle", ![t].outcome = "failed"]
           /\ live' = live
  <2>1. issued' \in 0..MaxNonces
    BY <1>3, SignInAssumption DEF SignInInv, SignInType
  <2>2. PICK f \in {[form[t] EXCEPT !.state = "sign", !.nonce = issued'],
                    [form[t] EXCEPT !.state = "idle", !.outcome = "failed"]} :
           form' = [Spoiling(t) EXCEPT ![t] = f]
    BY <1>3, SpoilingKeeps
  <2>3. f \in FormRow /\ FormInv(f, signers, users)
    BY <1>1, <2>1, <2>2 DEF FormRow, FormInv, Verifying, Waiting, Outcomes
  <2>4. form' \in [Tabs -> FormRow] /\ \A u \in Tabs : FormInv(form'[u], signers, users)
    BY <2>2, <2>3, SpoilingKeeps
  <2>5. QED
    BY <1>2, <1>3, <2>1, <2>4 DEF SignInInv, SignInType, FormRow
<1>4. CASE Grant(t) /\ form[t].address \in users /\ form[t].state \in Verifying
  <2> DEFINE f == [form[t] EXCEPT !.state = "session"]
  <2>1. form' = [Spoiling(t) EXCEPT ![t] = f]
    BY <1>4, SpoilingKeeps DEF Grant
  <2>2. f \in FormRow /\ FormInv(f, signers, users)
    BY <1>1 DEF FormRow, FormInv, Verifying, Waiting
  <2> HIDE DEF f
  <2>3. form' \in [Tabs -> FormRow] /\ \A u \in Tabs : FormInv(form'[u], signers, users)
    BY <2>1, <2>2, SpoilingKeeps
  <2>4. live' \subseteq users /\ live' \subseteq signers
    BY <1>1, <1>4 DEF Grant, FormInv, SignInInv, SignInType
  <2>5. cookie' \in 0..MaxNonces /\ issued' \in 0..MaxNonces
    BY <1>4, SignInAssumption DEF Grant, SignInInv, SignInType
  <2>6. QED
    BY <1>2, <2>3, <2>4, <2>5 DEF SignInInv, SignInType, FormRow
<1>5. CASE /\ \E f \in {[form[t] EXCEPT !.state = "createUser"],
                        [form[t] EXCEPT !.state = "idle", !.outcome = "failed"]} :
                 /\ form' = [form EXCEPT ![t] = f]
                 /\ f.state = "createUser" => form[t].state = "findUser"
           /\ UNCHANGED <<nonce, supabase>>
  <2>1. PICK f \in {[form[t] EXCEPT !.state = "createUser"],
                    [form[t] EXCEPT !.state = "idle", !.outcome = "failed"]} :
           form' = [form EXCEPT ![t] = f] /\ (f.state = "createUser" => form[t].state = "findUser")
    BY <1>5
  <2>2. f \in FormRow /\ FormInv(f, signers, users)
    BY <1>1, <2>1 DEF FormRow, FormInv, Verifying, Waiting, Outcomes
  <2>3. form' \in [Tabs -> FormRow] /\ \A u \in Tabs : FormInv(form'[u], signers', users')
    BY <1>2, <2>1, <2>2, FormChange
  <2>4. QED
    BY <1>2, <1>5, <2>3 DEF SignInInv, SignInType, FormRow, nonce, supabase
<1>6. CASE NonceExpires
  <2>1. form' \in [Tabs -> FormRow] /\ \A u \in Tabs : FormInv(form'[u], signers, users)
    BY <1>6, SpoilingKeeps DEF NonceExpires
  <2>2. QED
    BY <1>2, <1>6, <2>1, SignInAssumption DEF NonceExpires, SignInInv, SignInType, FormRow, supabase
<1>7. CASE FetchNonce(t)
  BY <1>1, <1>3, <1>5, <1>7 DEF FetchNonce, nonce, supabase, FormRow
<1>8. CASE FindUser(t)
  BY <1>1, <1>4, <1>5, <1>8 DEF FindUser, Verifying, FormRow, Waiting
<1>9. CASE NewUser(t)
  BY <1>1, <1>4, <1>9 DEF NewUser, Verifying, FormInv
<1>10. QED
  BY <1>6, <1>7, <1>8, <1>9

LEMMA CreateUserSignInInv ==
    ASSUME SignInInv, NEW t \in Tabs, CreateUser(t)
    PROVE  SignInInv' /\ signers \subseteq signers'
<1>1. form[t] \in FormRow /\ FormInv(form[t], signers, users)
  BY DEF SignInInv, SignInType, FormRow
<1>2. UNCHANGED <<account, nonce, live, session, signers, place>>
  BY DEF CreateUser
<1>3. users \subseteq users' /\ users' \subseteq Wallets
  BY <1>1 DEF CreateUser, SignInInv, SignInType, FormInv, Verifying, At
<1>4. \E f \in FormRow : form' = [form EXCEPT ![t] = f] /\ FormInv(f, signers', users')
  <2>1. CASE form' = [form EXCEPT ![t] = [form[t] EXCEPT
                !.state = "idle", !.outcome = "userExists"]]
    BY <1>1, <2>1, FormEnds DEF Outcomes
  <2>2. CASE /\ form' = [form EXCEPT ![t] = [form[t] EXCEPT !.state = "newUser"]]
             /\ users' = users \cup {form[t].address}
    <3>1. /\ form[t].signer \in signers' /\ form[t].address = form[t].signer
          /\ form[t].address \in users'
      BY <1>1, <1>2, <2>2 DEF CreateUser, At, FormInv, Verifying
    <3>2. QED
      BY <1>1, <2>2, <3>1, FormGoes DEF Verifying, Waiting
  <2>3. QED
    BY <2>1, <2>2 DEF CreateUser, Goes, Ends, Shows
<1>5. form' \in [Tabs -> FormRow] /\ \A u \in Tabs : FormInv(form'[u], signers', users')
  BY <1>2, <1>3, <1>4, FormChange
<1>6. QED
  BY <1>2, <1>3, <1>5 DEF SignInInv, SignInType, FormRow, nonce

\* The pages: a visit, the end of a sign-in, a sign-out, another account.
LEMMA PlaceSignInInv ==
    ASSUME SignInInv, NEW t \in Tabs, NEW p \in Places,
           Visit(t, p) \/ SignOut(t) \/ SetSession(t) \/ ChangeAccount
    PROVE  SignInInv' /\ signers \subseteq signers' /\ place' \in [Tabs -> Places]
<1>1. UNCHANGED <<nonce, users, signers>>
  BY DEF Visit, SignOut, SetSession, ChangeAccount, supabase
<1>2. NoForm \in FormRow /\ FormInv(NoForm, signers, users)
  BY SignInAssumption DEF FormRow, NoForm, Outcomes, FormInv, Verifying
<1>3. form' = form \/ form' = [form EXCEPT ![t] = NoForm]
  BY DEF Visit, SignOut, SetSession, ChangeAccount, Shows
<1>4. form' \in [Tabs -> FormRow] /\ \A u \in Tabs : FormInv(form'[u], signers', users')
  <2>1. CASE form' = form
    BY <1>1, <2>1 DEF SignInInv, SignInType, FormRow
  <2>2. CASE form' = [form EXCEPT ![t] = NoForm]
    BY <1>1, <1>2, <2>2, FormChange
  <2>3. QED
    BY <1>3, <2>1, <2>2
<1>5. \A q \in Places : \A who : Asked(q, who) \subseteq Places
  BY DEF Asked, Admitted, Places, Guarded
<1>6. place' \in [Tabs -> Places]
  BY <1>5 DEF Visit, SignOut, SetSession, ChangeAccount, SignInInv, SignInType, Places, Guarded
<1>7. live' \subseteq live
  BY DEF Visit, SignOut, SetSession, ChangeAccount, supabase
<1>8. session' \in Wallets \cup {Nobody} /\ account' \in Wallets \cup {Nobody}
  BY DEF Visit, SignOut, SetSession, ChangeAccount, SignInInv, SignInType, FormRow
<1>9. QED
  BY <1>1, <1>4, <1>6, <1>7, <1>8 DEF SignInInv, SignInType, FormRow, nonce

-----------------------------------------------------------------------------
(* The inductive invariant of the pages: a server action calls the proxy    *)
(* only for the owner of the agent, who has signed, and the page that       *)
(* waits for it shows that agent.                                           *)

PageRow == [state: {"none", "loading", "shown", "failed", "notFound", "crashed"},
            agent: Agents \cup {Absent}, pending: SUBSET Fetches,
            active: BOOLEAN, rules: SUBSET RuleIds,
            keys: SUBSET Keys, revoked: SUBSET Keys]

ActionRow == [op: Ops \cup {Absent}, user: Wallets \cup {Nobody},
              stage: {"idle", "owner", "call", "refresh"}, wrote: BOOLEAN,
              watched: BOOLEAN, outcome: {"none", "success", "error", "refused"}]

\* The agent of a page that has one, and the operation of an action.
ShowsAgent(p) == p.state \in {"loading", "shown"} => p.agent \in Agents

IsOp(op) ==
    /\ op \in Ops
    /\ op.name = "revokeKey" => op.arg \in Keys
    /\ op.name = "deleteRule" => op.arg \in RuleIds

ActionInv(x, p, S) ==
    /\ x.stage # "idle" \/ x.wrote => IsOp(x.op)
    /\ x.stage \in {"call", "refresh"} \/ x.wrote => Owner[x.op.agent] \in S
    /\ x.stage \in {"owner", "call"} /\ x.watched => p.state = "shown" /\ p.agent = x.op.agent
    /\ x.stage = "refresh" => p.state = "loading" /\ p.agent = x.op.agent

PageInv ==
    /\ PageType
    /\ \A t \in Tabs : ShowsAgent(page[t]) /\ ActionInv(action[t], page[t], signers)

\* A step that changes the page and the action of one tab.
LEMMA TabChange ==
    ASSUME PageInv, NEW t \in Tabs, NEW p \in PageRow, NEW x \in ActionRow,
           page' = [page EXCEPT ![t] = p], action' = [action EXCEPT ![t] = x],
           ShowsAgent(p), ActionInv(x, p, signers'),
           signers \subseteq signers', site' = site
    PROVE  PageInv'
<1>1. page \in [Tabs -> PageRow] /\ action \in [Tabs -> ActionRow] /\ site \in Sites
  BY DEF PageInv, PageType, PageRow, ActionRow
<1>2. /\ page'[t] = p /\ action'[t] = x
      /\ \A u \in Tabs : u # t => page'[u] = page[u] /\ action'[u] = action[u]
      /\ page' \in [Tabs -> PageRow] /\ action' \in [Tabs -> ActionRow]
  BY <1>1
<1>3. \A u \in Tabs : ActionInv(action[u], page[u], signers')
  BY DEF PageInv, ActionInv
<1>4. \A u \in Tabs : ShowsAgent(page'[u]) /\ ActionInv(action'[u], page'[u], signers')
  BY <1>2, <1>3 DEF PageInv
<1>5. QED
  BY <1>1, <1>2, <1>4 DEF PageInv, PageType, PageRow, ActionRow

\* What leaves a tab as it is can be written as a change of it.
LEMMA TabSame ==
    ASSUME PageInv, NEW t \in Tabs
    PROVE  /\ page = [page EXCEPT ![t] = page[t]] /\ page[t] \in PageRow
           /\ action = [action EXCEPT ![t] = action[t]] /\ action[t] \in ActionRow
           /\ ShowsAgent(page[t]) /\ ActionInv(action[t], page[t], signers)
  BY DEF PageInv, PageType, PageRow, ActionRow

LEMMA PageFrame ==
    ASSUME PageInv, UNCHANGED pageVars, signers \subseteq signers'
    PROVE  PageInv'
  BY DEF PageInv, PageType, pageVars, ActionInv

\* The pages and actions that the code begins with.
LEMMA RowTypes ==
    /\ NoPage \in PageRow /\ ShowsAgent(NoPage)
    /\ NoAction \in ActionRow
    /\ \A p \in PageRow : \A S : ActionInv(NoAction, p, S)
    /\ \A a \in Agents : Opened(a) \in PageRow /\ ShowsAgent(Opened(a))
  BY DEF NoPage, PageRow, ShowsAgent, NoAction, ActionRow, ActionInv, Opened, Fetches

LEMMA PressPageInv ==
    ASSUME PageInv, SignInInv, NEW t \in Tabs, Press(t)
    PROVE  PageInv'
<1>1. PICK op \in Buttons(page[t]) : action' = [action EXCEPT ![t] = [NoAction EXCEPT
              !.op = op, !.user = session, !.stage = "owner", !.watched = TRUE]]
  BY DEF Press
<1>2. page[t].state = "shown" /\ page[t] \in PageRow /\ page[t].agent \in Agents
  BY TabSame DEF Press, ShowsAgent
<1>3. IsOp(op) /\ op.agent = page[t].agent
  BY <1>1, <1>2 DEF Buttons, CreateRuleDialog, CreateKeyDialog, RevokeAllButton,
       RuleActions, SessionKeyTable, KeyActions, Op, Ops, IsOp, PageRow
<1> DEFINE x == [NoAction EXCEPT !.op = op, !.user = session, !.stage = "owner",
                                 !.watched = TRUE]
<1>4. x \in ActionRow
  BY <1>3 DEF NoAction, ActionRow, IsOp, SignInInv, SignInType
<1>5. ActionInv(x, page[t], signers)
  BY <1>2, <1>3 DEF NoAction, ActionInv
<1>6. /\ action' = [action EXCEPT ![t] = x] /\ page' = [page EXCEPT ![t] = page[t]]
      /\ UNCHANGED <<signers, site>>
  BY <1>1, TabSame DEF Press, signInVars
<1> HIDE DEF x
<1>7. QED
  BY <1>2, <1>4, <1>5, <1>6, TabSame, TabChange

\* What a fetch and the rendering make of a page.
LEMMA FetchedType ==
    ASSUME NEW p \in PageRow, NEW what \in Fetches
    PROVE  Fetched(p, what) \in PageRow /\ Fetched(p, what).agent = p.agent
             /\ Fetched(p, what).state = p.state
<1>1. CASE what = "agent"
  BY <1>1 DEF Fetched, PageRow
<1>2. CASE what = "rules"
  BY <1>2 DEF Fetched, PageRow
<1>3. CASE what = "keys"
  BY <1>3 DEF Fetched, PageRow
<1>4. QED
  BY <1>1, <1>2, <1>3 DEF Fetches

LEMMA RenderedType ==
    ASSUME NEW p \in PageRow, NEW rest \in SUBSET Fetches, p.state = "loading"
    PROVE  LET q == Rendered([p EXCEPT !.pending = rest])
           IN  /\ q \in PageRow /\ q.agent = p.agent
               /\ q.state \in {"loading", "shown", "crashed"}
               /\ q.state = "loading" <=> rest # {}
  BY DEF Rendered, Crashed, PageRow

\* The page becomes p: an action that waited for it ends.
LEMMA BecomesPageInv ==
    ASSUME PageInv, NEW t \in Tabs, NEW p \in PageRow, Becomes(t, p), ShowsAgent(p),
           page[t].state = "loading", p.state = "loading" => p.agent = page[t].agent,
           UNCHANGED <<signers, site>>
    PROVE  PageInv'
<1>1. action[t] \in ActionRow /\ ActionInv(action[t], page[t], signers)
  BY TabSame
<1>2. page' = [page EXCEPT ![t] = p]
  BY DEF Becomes
<1>3. CASE p.state # "loading" /\ action[t].stage = "refresh"
  <2> DEFINE x == [action[t] EXCEPT !.stage = "idle", !.outcome = "success"]
  <2>1. action' = [action EXCEPT ![t] = x]
    BY <1>3 DEF Becomes
  <2>2. x \in ActionRow
    BY <1>1 DEF ActionRow
  <2>3. x.op = action[t].op /\ x.stage = "idle" /\ x.wrote = action[t].wrote
    BY <1>1 DEF ActionRow
  <2>4. ActionInv(x, p, signers)
    BY <1>1, <2>3 DEF ActionInv
  <2> HIDE DEF x
  <2>5. QED
    BY <1>2, <2>1, <2>2, <2>4, TabChange
<1>4. CASE ~(p.state # "loading" /\ action[t].stage = "refresh")
  <2>1. action' = [action EXCEPT ![t] = action[t]]
    BY <1>4, TabSame DEF Becomes
  <2>2. ActionInv(action[t], p, signers)
    BY <1>1, <1>4 DEF ActionInv
  <2>3. QED
    BY <1>1, <1>2, <2>1, <2>2, TabChange
<1>5. QED
  BY <1>3, <1>4

LEMMA LoadPageInv ==
    ASSUME PageInv, NEW t \in Tabs, Load(t)
    PROVE  PageInv'
<1>1. page[t] \in PageRow /\ page[t].state = "loading" /\ page[t].agent \in Agents
  BY TabSame DEF Load, ShowsAgent
<1>2. UNCHANGED <<signers, site>>
  BY DEF Load, signInVars
<1>3. PICK what \in page[t].pending :
         \/ Becomes(t, Rendered([Fetched(page[t], what)
                                    EXCEPT !.pending = page[t].pending \ {what}]))
         \/ Becomes(t, [NoPage EXCEPT !.state = "notFound"])
         \/ Becomes(t, [NoPage EXCEPT !.state = "failed"])
  BY DEF Load
<1>4. page[t].pending \in SUBSET Fetches /\ what \in Fetches
  BY <1>1 DEF PageRow
<1>5. \A state \in {"notFound", "failed"} :
         LET p == [NoPage EXCEPT !.state = state]
         IN  p \in PageRow /\ p.state = state
  BY RowTypes DEF NoPage, PageRow
<1>6. CASE \E state \in {"notFound", "failed"} : Becomes(t, [NoPage EXCEPT !.state = state])
  BY <1>1, <1>2, <1>5, <1>6, BecomesPageInv DEF ShowsAgent
<1>7. CASE Becomes(t, Rendered([Fetched(page[t], what)
                                    EXCEPT !.pending = page[t].pending \ {what}]))
  <2> DEFINE q == Fetched(page[t], what)
             rest == page[t].pending \ {what}
             p == Rendered([q EXCEPT !.pending = rest])
  <2>0. q \in PageRow /\ q.agent = page[t].agent /\ q.state = "loading" /\ rest \in SUBSET Fetches
    BY <1>1, <1>4, FetchedType
  <2> HIDE DEF q, rest
  <2>1. p \in PageRow /\ p.agent = page[t].agent
    BY <2>0, RenderedType
  <2>2. Becomes(t, p)
    BY <1>7 DEF q, rest
  <2> HIDE DEF p
  <2>3. QED
    BY <1>1, <1>2, <2>1, <2>2, BecomesPageInv DEF ShowsAgent
<1>8. QED
  BY <1>3, <1>6, <1>7

\* An action ends without having written more, in its tab or after it.
LEMMA EndsPageInv ==
    ASSUME PageInv, NEW t \in Tabs, NEW wrote \in BOOLEAN,
           NEW outcome \in {"none", "success", "error", "refused"},
           action[t].stage \in {"owner", "call"},
           wrote => action[t].stage = "call",
           \/ action' = [action EXCEPT ![t].stage = "idle", ![t].wrote = wrote]
           \/ action' = [action EXCEPT ![t].stage = "idle", ![t].outcome = outcome]
           \/ action' = [action EXCEPT ![t].stage = "idle", ![t].wrote = wrote,
                                       ![t].outcome = outcome],
           page' = page \/ page' = [page EXCEPT ![t] = NoPage],
           signers \subseteq signers', site' = site
    PROVE  PageInv'
<1>1. action[t] \in ActionRow /\ ActionInv(action[t], page[t], signers)
  BY TabSame
<1>2. PICK x \in {[action[t] EXCEPT !.stage = "idle", !.wrote = wrote],
                  [action[t] EXCEPT !.stage = "idle", !.outcome = outcome],
                  [action[t] EXCEPT !.stage = "idle", !.wrote = wrote, !.outcome = outcome]} :
         action' = [action EXCEPT ![t] = x]
  OBVIOUS
<1>3. x \in ActionRow
  BY <1>1, <1>2 DEF ActionRow
<1>4. x.stage = "idle" /\ x.op = action[t].op /\ (x.wrote => wrote \/ action[t].wrote)
  BY <1>1, <1>2 DEF ActionRow
<1>5. \A p : ActionInv(x, p, signers')
  BY <1>1, <1>4 DEF ActionInv
<1>6. CASE page' = page
  BY <1>2, <1>3, <1>5, <1>6, TabSame, TabChange
<1>7. CASE page' = [page EXCEPT ![t] = NoPage]
  BY <1>2, <1>3, <1>5, <1>7, RowTypes, TabChange
<1>8. QED
  BY <1>6, <1>7

LEMMA CheckOwnerPageInv ==
    ASSUME PageInv, SignInInv, NEW t \in Tabs, CheckOwner(t)
    PROVE  PageInv' /\ signers' = signers
<1>1. /\ action[t] \in ActionRow /\ ActionInv(action[t], page[t], signers)
      /\ action[t].stage = "owner" /\ page[t] \in PageRow /\ ShowsAgent(page[t])
  BY TabSame DEF CheckOwner
<1>2. UNCHANGED <<signers, site>>
  BY DEF CheckOwner, SentAway, signInVars
<1>3. CASE SentAway(t, FALSE)
  BY <1>1, <1>2, <1>3, EndsPageInv DEF SentAway
<1>4. CASE (Finish(t, "error") \/ Finish(t, "refused")) /\ page' = page
  BY <1>1, <1>2, <1>4, EndsPageInv DEF Finish
<1>5. CASE /\ LoggedIn(action[t].user) /\ MayAct(action[t].op.agent, action[t].user)
           /\ action' = [action EXCEPT ![t].stage = "call"] /\ page' = page
  <2> DEFINE x == [action[t] EXCEPT !.stage = "call"]
  <2>1. x \in ActionRow /\ x.op = action[t].op /\ x.watched = action[t].watched /\ x.stage = "call"
    BY <1>1 DEF ActionRow
  <2>2. Owner[x.op.agent] \in signers
    BY <1>5, <2>1 DEF LoggedIn, MayAct, SignInInv
  <2>3. ActionInv(x, page[t], signers)
    BY <1>1, <2>1, <2>2 DEF ActionInv
  <2>4. action' = [action EXCEPT ![t] = x] /\ page' = [page EXCEPT ![t] = page[t]]
    BY <1>5, TabSame
  <2> HIDE DEF x
  <2>5. QED
    BY <1>1, <1>2, <2>1, <2>3, <2>4, TabChange
<1>6. QED
  BY <1>2, <1>3, <1>4, <1>5 DEF CheckOwner

LEMMA CallProxyPageInv ==
    ASSUME PageInv, NEW t \in Tabs, CallProxy(t)
    PROVE  PageInv' /\ signers' = signers
<1>1. /\ action[t] \in ActionRow /\ ActionInv(action[t], page[t], signers)
      /\ action[t].stage = "call" /\ page[t] \in PageRow /\ ShowsAgent(page[t])
  BY TabSame DEF CallProxy
<1>2. UNCHANGED <<signers, site>>
  BY DEF CallProxy, Reported, SentAway, signInVars
<1>3. CASE SentAway(t, TRUE)
  BY <1>1, <1>2, <1>3, EndsPageInv DEF SentAway
<1>4. CASE /\ action' = [action EXCEPT ![t].stage = "idle", ![t].wrote = TRUE]
           /\ page' = page
  BY <1>1, <1>2, <1>4, EndsPageInv
<1>5. CASE /\ \/ action' = [action EXCEPT ![t].stage = "idle", ![t].wrote = TRUE,
                                         ![t].outcome = "error"]
              \/ Finish(t, "error")
           /\ page' = page
  BY <1>1, <1>2, <1>5, EndsPageInv DEF Finish
<1>6. CASE /\ action[t].watched
           /\ action' = [action EXCEPT ![t].stage = "refresh", ![t].wrote = TRUE]
           /\ page' = [page EXCEPT ![t] = Opened(page[t].agent)]
  <2> DEFINE x == [action[t] EXCEPT !.stage = "refresh", !.wrote = TRUE]
  <2>1. x \in ActionRow /\ x.op = action[t].op /\ x.stage = "refresh"
    BY <1>1 DEF ActionRow
  <2>2. page[t].agent = action[t].op.agent /\ page[t].agent \in Agents
    BY <1>1, <1>6 DEF ActionInv, ShowsAgent
  <2>3. /\ Opened(page[t].agent) \in PageRow /\ ShowsAgent(Opened(page[t].agent))
        /\ Opened(page[t].agent).state = "loading"
        /\ Opened(page[t].agent).agent = page[t].agent
    BY <2>2, RowTypes DEF Opened, NoPage
  <2>4. ActionInv(x, Opened(page[t].agent), signers)
    BY <1>1, <2>1, <2>2, <2>3 DEF ActionInv
  <2>5. action' = [action EXCEPT ![t] = x]
    BY <1>6
  <2> HIDE DEF x
  <2>6. QED
    BY <1>2, <1>6, <2>1, <2>3, <2>4, <2>5, TabChange
<1>7. QED
  BY <1>2, <1>3, <1>4, <1>5, <1>6 DEF CallProxy, Reported

\* A tab goes elsewhere.
LEMMA ArrivesPageInv ==
    ASSUME PageInv, NEW t \in Tabs, Arrives(t), journey \in Journeys, signers \subseteq signers'
    PROVE  PageInv'
<1>1. action[t] \in ActionRow /\ ActionInv(action[t], page[t], signers)
  BY TabSame
<1>2. PICK p \in {NoPage} \cup {Opened(a) : a \in Agents} : page' = [page EXCEPT ![t] = p]
  BY WebsiteAssumption DEF Arrives, Journey
<1>3. p \in PageRow /\ ShowsAgent(p)
  BY <1>2, RowTypes
<1>4. CASE action[t].stage \in {"owner", "call"}
  <2> DEFINE x == [action[t] EXCEPT !.watched = FALSE]
  <2>1. /\ x \in ActionRow /\ x.op = action[t].op /\ x.stage = action[t].stage
        /\ x.wrote = action[t].wrote /\ x.watched = FALSE
    BY <1>1 DEF ActionRow
  <2>2. ActionInv(x, p, signers')
    BY <1>1, <1>4, <2>1 DEF ActionInv
  <2>3. action' = [action EXCEPT ![t] = x] /\ site' = site
    BY <1>4 DEF Arrives, Unwatched
  <2> HIDE DEF x
  <2>4. QED
    BY <1>2, <1>3, <2>1, <2>2, <2>3, TabChange
<1>5. CASE action[t].stage \notin {"owner", "call"}
  <2>1. action' = [action EXCEPT ![t] = NoAction] /\ site' = site
    BY <1>5 DEF Arrives, Unwatched
  <2>2. QED
    BY <1>2, <1>3, <2>1, RowTypes, TabChange
<1>6. QED
  BY <1>4, <1>5

-----------------------------------------------------------------------------
(* The website. *)

WebsiteInv == journey \in Journeys /\ SignInInv /\ PageInv

LEMMA InitWebsiteInv == WebsiteInit => WebsiteInv
<1> SUFFICES ASSUME WebsiteInit PROVE WebsiteInv
  OBVIOUS
<1>1. journey \in Journeys /\ journey.who \in Wallets \cup {Nobody}
  BY WebsiteAssumption DEF WebsiteInit, Journey
<1>2. SignInInv
  BY <1>1, InitSignInInv DEF WebsiteInit
<1>3. PageInv
  <2>1. /\ page = [t \in Tabs |-> NoPage] /\ action = [t \in Tabs |-> NoAction]
        /\ site \in Sites
    BY DEF WebsiteInit, PageInit
  <2>2. page \in [Tabs -> PageRow] /\ action \in [Tabs -> ActionRow]
    BY <2>1, RowTypes
  <2>3. QED
    BY <2>1, <2>2, RowTypes DEF PageInv, PageType, PageRow, ActionRow
<1>4. QED
  BY <1>1, <1>2, <1>3 DEF WebsiteInv

LEMMA SignInFrame ==
    ASSUME SignInInv, UNCHANGED <<account, nonce, supabase, session, signers, form>>,
           place' = place \/ \E t \in Tabs, q \in Places : place' = [place EXCEPT ![t] = q]
    PROVE  SignInInv'
<1>1. place' \in [Tabs -> Places]
  BY DEF SignInInv, SignInType, Places
<1>2. QED
  BY <1>1 DEF nonce, supabase, SignInInv, SignInType

\* Every action of the website keeps the invariant, and no signature is
\* forgotten.
LEMMA TabWebsiteInv ==
    ASSUME WebsiteInv, NEW t \in Tabs, Use(t) \/ SigningIn(t)
    PROVE  WebsiteInv' /\ signers \subseteq signers'
<1> USE DEF WebsiteInv
<1>1. journey' = journey
  BY DEF Use, SigningIn, Navigate, Leave, Land, Arrives
<1>2. ASSUME NEW p \in Places, Visit(t, p) \/ SignOut(t) \/ SetSession(t), Arrives(t)
      PROVE  WebsiteInv' /\ signers \subseteq signers'
  BY <1>1, <1>2, PlaceSignInInv, ArrivesPageInv
<1>3. CASE Navigate(t)
  <2>1. PICK p \in journey.places[t] : Visit(t, p)
    BY <1>3 DEF Navigate
  <2>2. p \in Places
    BY <2>1, WebsiteAssumption DEF Journey
  <2>3. QED
    BY <1>2, <1>3, <2>1, <2>2 DEF Navigate
<1>4. CASE Leave(t) \/ Land(t)
  BY <1>2, <1>4 DEF Leave, Land, Places
<1>5. CASE (Click(t) \/ Hook(t)) /\ UNCHANGED pageVars
  <2>1. SignInInv' /\ signers \subseteq signers'
    BY <1>5, HookSignInInv, CookieSignInInv, CreateUserSignInInv DEF Hook
  <2>2. QED
    BY <1>1, <1>5, <2>1, PageFrame
<1>6. CASE Press(t)
  <2>1. UNCHANGED signInVars
    BY <1>6 DEF Press
  <2>2. SignInInv' /\ signers' = signers
    BY <2>1, SignInFrame DEF signInVars
  <2>3. QED
    BY <1>1, <1>6, <2>2, PressPageInv
<1>7. CASE UNCHANGED <<signInVars, pageVars>>
  <2>1. SignInInv' /\ signers' = signers
    BY <1>7, SignInFrame DEF signInVars
  <2>2. QED
    BY <1>1, <1>7, <2>1, PageFrame
<1>8. QED
  BY <1>3, <1>4, <1>5, <1>6, <1>7 DEF Use, SigningIn

LEMMA ServerWebsiteInv ==
    ASSUME WebsiteInv, NEW t \in Tabs,
           Rendering(t) \/ Acting(t) \/ Chatting(t) \/ Monitoring(t)
    PROVE  WebsiteInv' /\ signers \subseteq signers'
<1> USE DEF WebsiteInv
<1>1. journey' = journey
  BY DEF Rendering, Acting, Chatting, Monitoring
<1>2. CASE UNCHANGED <<signInVars, pageVars>>
  <2>1. SignInInv' /\ signers' = signers
    BY <1>2, SignInFrame DEF signInVars
  <2>2. QED
    BY <1>1, <1>2, <2>1, PageFrame
<1>3. CASE Load(t)
  <2>1. UNCHANGED signInVars
    BY <1>3 DEF Load
  <2>2. SignInInv' /\ signers' = signers
    BY <2>1, SignInFrame DEF signInVars
  <2>3. QED
    BY <1>1, <1>3, <2>2, LoadPageInv
<1>4. CASE CheckOwner(t) \/ CallProxy(t)
  <2>1. /\ UNCHANGED <<account, nonce, supabase, session, signers, form>>
        /\ place' = place \/ \E q \in Places : place' = [place EXCEPT ![t] = q]
    BY <1>4 DEF CheckOwner, CallProxy, Reported, SentAway, signInVars, Asked, Admitted, Places, Guarded
  <2>2. SignInInv'
    BY <2>1, SignInFrame
  <2>3. QED
    BY <1>1, <1>4, <2>2, CheckOwnerPageInv, CallProxyPageInv
<1>5. CASE LoadOverview(t) \/ Monitoring(t) \/ Chatting(t)
  BY <1>2, <1>5 DEF LoadOverview, Monitoring, Monitor, Mount, Join, Deliver, Effect,
       Monitors, Chatting
<1>6. QED
  BY <1>3, <1>4, <1>5 DEF Rendering, Acting

LEMMA ElsewhereWebsiteInv ==
    ASSUME WebsiteInv, Elsewhere
    PROVE  WebsiteInv' /\ signers \subseteq signers'
<1> USE DEF WebsiteInv
<1>1. journey' = journey /\ UNCHANGED pageVars
  BY DEF Elsewhere
<1>2. CASE UNCHANGED signInVars
  <2>1. SignInInv' /\ signers' = signers
    BY <1>2, SignInFrame DEF signInVars
  <2>2. QED
    BY <1>1, <2>1, PageFrame
<1>3. ASSUME NEW t \in Tabs, ChangeAccount \/ NonceExpires
      PROVE  WebsiteInv' /\ signers \subseteq signers'
  <2>1. SignInInv' /\ signers \subseteq signers'
    BY <1>3, PlaceSignInInv, CookieSignInInv DEF Places
  <2>2. QED
    BY <1>1, <2>1, PageFrame
<1>4. QED
  BY <1>2, <1>3 DEF Elsewhere

LEMMA NextWebsiteInv ==
    ASSUME WebsiteInv, [WebsiteNext]_websiteVars
    PROVE  WebsiteInv' /\ signers \subseteq signers'
<1>1. CASE WebsiteNext
  BY <1>1, TabWebsiteInv, ServerWebsiteInv, ElsewhereWebsiteInv DEF WebsiteNext
<1>2. CASE UNCHANGED websiteVars
  <2>1. SignInInv' /\ signers' = signers
    BY <1>2, SignInFrame DEF websiteVars, signInVars, WebsiteInv
  <2>2. QED
    BY <1>2, <2>1, PageFrame DEF websiteVars, WebsiteInv
<1>3. QED
  BY <1>1, <1>2

\* Only wallets that have signed have a session, and a server action that
\* has reached the proxy acts for one of them, on an agent it owns.
THEOREM WebsiteInvCorrect == WebsiteSpec => []WebsiteInv
<1>1. WebsiteInit => WebsiteInv
  BY InitWebsiteInv
<1>2. WebsiteInv /\ [WebsiteNext]_websiteVars => WebsiteInv'
  BY NextWebsiteInv
<1>3. QED
  BY <1>1, <1>2, PTL DEF WebsiteSpec

\* Whatever the tabs do, and however many there are, the dashboard writes in
\* the name of an agent only for a user who has signed as its owner.
THEOREM WritesBySignerCorrect == WebsiteSpec => []WritesBySigner
<1>1. WebsiteInv => WritesBySigner
  BY DEF WebsiteInv, PageInv, ActionInv, WritesBySigner
<1>2. QED
  BY <1>1, WebsiteInvCorrect, PTL

-----------------------------------------------------------------------------
(* Under the website is the proxy: every step of it is a step of the proxy, *)
(* or none.                                                                 *)

LEMMA WriteManages ==
    ASSUME NEW op, IsOp(op), Write(op)
    PROVE  Manage
<1>1. op.agent \in Agents
  BY DEF IsOp, Ops
<1>2. CASE op.name = "createRule"
  BY <1>2 DEF Write, createGuardrailRule
<1>3. CASE op.name = "deleteRule"
  BY <1>1, <1>3 DEF Write, deleteGuardrailRule, Manage, ManageAgent, IsOp
<1>4. CASE op.name = "createKey"
  BY <1>1, <1>4 DEF Write, createSessionKey, Manage, ManageAgent
<1>5. CASE op.name = "revokeKey"
  BY <1>1, <1>5 DEF Write, revokeSessionKey, Manage, ManageAgent, IsOp
<1>6. CASE op.name = "revokeAll"
  BY <1>1, <1>6 DEF Write, revokeAllSessionKeys, Manage, ManageAgent
<1>7. QED
  BY <1>2, <1>3, <1>4, <1>5, <1>6 DEF IsOp, Ops

LEMMA ProxyStep ==
    ASSUME WebsiteInv, [WebsiteNext]_websiteVars
    PROVE  [Next]_vars
<1>1. ASSUME NEW t \in Tabs, Use(t) \/ SigningIn(t) PROVE UNCHANGED vars
  BY <1>1 DEF Use, SigningIn, Navigate, Leave, Land, Arrives, Press
<1>2. ASSUME NEW t \in Tabs, Rendering(t) \/ Chatting(t) \/ Monitoring(t) PROVE UNCHANGED vars
  BY <1>2 DEF Rendering, Load, LoadOverview, Chatting, Monitoring, Monitor, Mount, Join,
       Deliver, Effect, Monitors
<1>3. ASSUME NEW t \in Tabs, Acting(t) PROVE [Next]_vars
  <2>1. CASE CheckOwner(t)
    BY <2>1 DEF CheckOwner
  <2>2. CASE CallProxy(t)
    <3>1. IsOp(action[t].op)
      BY <2>2 DEF CallProxy, WebsiteInv, PageInv, ActionInv
    <3>2. QED
      BY <2>2, <3>1, WriteManages DEF CallProxy, Next
  <2>3. QED
    BY <1>3, <2>1, <2>2 DEF Acting
<1>4. CASE Elsewhere
  <2>1. journey.managed \subseteq Agents
    BY WebsiteAssumption DEF WebsiteInv, Journey
  <2>2. QED
    BY <1>4, <2>1 DEF Elsewhere, Next, Manage
<1>5. CASE UNCHANGED websiteVars
  BY <1>5 DEF websiteVars
<1>6. QED
  BY <1>1, <1>2, <1>3, <1>4, <1>5 DEF WebsiteNext

\* The website does to the tables only what the proxy lets anyone do, so that
\* everything proved of the proxy is true under the website.
THEOREM ProxyUnderneath == WebsiteSpec => Spec
<1>1. WebsiteInit => Init
  BY DEF WebsiteInit
<1>2. WebsiteInv /\ [WebsiteNext]_websiteVars => [Next]_vars
  BY ProxyStep
<1>3. QED
  BY <1>1, <1>2, WebsiteInvCorrect, PTL DEF WebsiteSpec, Spec

-----------------------------------------------------------------------------
(* What the page of an agent shows.  A key that is revoked stays so, as does *)
(* an agent that is inactive, so that it does not matter when the page read  *)
(* them; and an action that is reported done has read the page afterwards.   *)

\* The rows of keys and agents from one state to a later one.
Grown(K, A, L, B) ==
    /\ \A k \in Keys : K[k] # Absent =>
          L[k] # Absent /\ L[k].agent = K[k].agent /\ (K[k].revoked => L[k].revoked)
    /\ \A a \in Agents : A[a] = "inactive" => B[a] = "inactive"

LEMMA KeysKeepAgent ==
    ASSUME IInv, [Next]_vars, NEW k \in Keys, keys[k] # Absent
    PROVE  keys'[k].agent = keys[k].agent
<1>1. keys[k] \in KeyRow /\ keys \in [Keys -> KeyRow \cup {Absent}]
  BY DEF IInv, TypeOK
<1>2. CASE UNCHANGED keys
  BY <1>2
<1>3. ASSUME NEW r \in Requests, ChargeKey(r) PROVE keys'[k].agent = keys[k].agent
  <2>1. keys'[k] \in {keys[k], [keys[k] EXCEPT !.spent = @ + payload[r].value]}
    BY <1>1, <1>3 DEF ChargeKey
  <2>2. QED
    BY <1>1, <2>1 DEF KeyRow
<1>4. ASSUME NEW a \in Agents, NEW j \in Keys,
             RevokeAll(a) \/ RevokeSessionKey(j, a) \/ CreateSessionKey(j, a)
      PROVE  keys'[k].agent = keys[k].agent
  <2>1. keys'[k] \in {keys[k], [keys[k] EXCEPT !.revoked = TRUE]}
    BY <1>1, <1>4 DEF RevokeAll, RevokeSessionKey, CreateSessionKey
  <2>2. QED
    BY <1>1, <2>1 DEF KeyRow
<1>5. CASE \E r \in Requests : Receive(r) \/ Step(r) \/ Abort(r)
  BY <1>2, <1>3, <1>5, TableFrame
<1>6. CASE Manage
  BY <1>2, <1>4, <1>6 DEF Manage, ManageAgent, CreateAgent, CreateRule, UpdateRule, DeactivateRule
<1>7. CASE Tick \/ LoseNonces \/ Done \/ UNCHANGED vars
  BY <1>2, <1>7 DEF Tick, LoseNonces, Done, vars, tables
<1>8. QED
  BY <1>5, <1>6, <1>7 DEF Next

LEMMA TablesGrow ==
    ASSUME IInv, [Next]_vars
    PROVE  Grown(keys, agents, keys', agents')
<1>1. TypeOK
  BY DEF IInv
<1>2. QED
  BY <1>1, KeysStay, KeysKeepAgent, RevocationStep DEF Grown

OnScreen(p) == p.state \in {"loading", "shown"}

PageTrue(p, K, A) ==
    /\ \A k \in p.revoked : K[k] # Absent /\ K[k].revoked
    /\ OnScreen(p) /\ "agent" \notin p.pending /\ ~p.active => A[p.agent] = "inactive"
    /\ p.state = "shown" => p.pending = {}

\* What the operation of an action that was done has left in the tables, and
\* on the page that was read since.
LeftBy(op, p, K, A) ==
    /\ IsOp(op)
    /\ OnScreen(p) => p.agent = op.agent
    /\ op.name = "revokeKey" =>
          /\ K[op.arg] # Absent /\ K[op.arg].agent = op.agent /\ K[op.arg].revoked
          /\ OnScreen(p) /\ "keys" \notin p.pending => op.arg \in p.revoked
    /\ op.name = "revokeAll" =>
          /\ A[op.agent] = "inactive"
          /\ OnScreen(p) /\ "agent" \notin p.pending => ~p.active
    /\ op.name = "createKey" =>
          /\ \E k \in Keys : K[k] # Absent /\ K[k].agent = op.agent
          /\ OnScreen(p) /\ "keys" \notin p.pending => p.keys # {}

ActionTrue(x, p, K, A) ==
    /\ x.outcome = "success" => x.stage = "idle"
    /\ x.stage = "refresh" \/ x.outcome = "success" => LeftBy(x.op, p, K, A)

TruthInv ==
    \A t \in Tabs : /\ PageTrue(page[t], keys, agents)
                    /\ ActionTrue(action[t], page[t], keys, agents)

LEMMA TruthStays ==
    ASSUME NEW p \in PageRow, NEW x \in ActionRow, ShowsAgent(p),
           NEW K, NEW A, NEW L, NEW B, Grown(K, A, L, B),
           PageTrue(p, K, A), ActionTrue(x, p, K, A)
    PROVE  PageTrue(p, L, B) /\ ActionTrue(x, p, L, B)
<1>1. PageTrue(p, L, B)
  BY DEF PageTrue, Grown, PageRow, OnScreen, ShowsAgent
<1>2. ASSUME LeftBy(x.op, p, K, A) PROVE LeftBy(x.op, p, L, B)
  <2>1. x.op.agent \in Agents /\ (x.op.name = "revokeKey" => x.op.arg \in Keys)
    BY <1>2 DEF LeftBy, IsOp, Ops
  <2>2. QED
    BY <1>2, <2>1 DEF LeftBy, Grown
<1>3. QED
  BY <1>1, <1>2 DEF ActionTrue

\* A step that changes the page and the action of one tab.
LEMMA TabTruth ==
    ASSUME PageInv, TruthInv, Grown(keys, agents, keys', agents'), NEW t \in Tabs, NEW p, NEW x,
           page' = [page EXCEPT ![t] = p], action' = [action EXCEPT ![t] = x],
           PageTrue(p, keys', agents'), ActionTrue(x, p, keys', agents')
    PROVE  TruthInv'
<1>1. ASSUME NEW u \in Tabs, u # t
      PROVE  PageTrue(page[u], keys', agents') /\ ActionTrue(action[u], page[u], keys', agents')
  BY TabSame, TruthStays DEF TruthInv
<1>2. /\ page'[t] = p /\ action'[t] = x
      /\ \A u \in Tabs : u # t => page'[u] = page[u] /\ action'[u] = action[u]
  BY DEF PageInv, PageType
<1>3. QED
  BY <1>1, <1>2 DEF TruthInv

LEMMA TruthFrame ==
    ASSUME PageInv, TruthInv, Grown(keys, agents, keys', agents'), UNCHANGED <<page, action>>
    PROVE  TruthInv'
  BY TabSame, TruthStays DEF TruthInv

\* A page that is empty or being opened says nothing yet.
LEMMA NothingSaid ==
    ASSUME NEW p \in {NoPage} \cup {Opened(a) : a \in Agents}, NEW K, NEW A
    PROVE  PageTrue(p, K, A) /\ ActionTrue(NoAction, p, K, A)
<1>1. ActionTrue(NoAction, p, K, A)
  BY DEF ActionTrue, NoAction
<1>2. PageTrue(NoPage, K, A)
  BY DEF PageTrue, NoPage, OnScreen
<1>3. ASSUME NEW a \in Agents PROVE PageTrue(Opened(a), K, A)
  BY DEF PageTrue, NoPage, Opened, Fetches, OnScreen
<1>4. QED
  BY <1>1, <1>2, <1>3

LEMMA PressTruth ==
    ASSUME PageInv, TruthInv, UNCHANGED <<keys, agents>>, NEW t \in Tabs, Press(t)
    PROVE  TruthInv'
<1>1. PICK op : action' = [action EXCEPT ![t] = [NoAction EXCEPT
              !.op = op, !.user = session, !.stage = "owner", !.watched = TRUE]]
  BY DEF Press
<1> DEFINE x == [NoAction EXCEPT !.op = op, !.user = session, !.stage = "owner",
                                 !.watched = TRUE]
<1>2. ActionTrue(x, page[t], keys, agents)
  BY DEF ActionTrue, NoAction
<1>3. action' = [action EXCEPT ![t] = x] /\ page' = [page EXCEPT ![t] = page[t]]
  BY <1>1, TabSame DEF Press
<1>4. Grown(keys, agents, keys', agents')
  BY DEF Grown
<1> HIDE DEF x
<1>5. QED
  BY <1>2, <1>3, <1>4, TabTruth DEF TruthInv

\* A fetch adds what is in the tables.
LEMMA FetchedTrue ==
    ASSUME TypeOK, NEW p \in PageRow, p.state = "loading", p.agent \in Agents,
           NEW what \in p.pending, what = "agent" => agents[p.agent] # "none",
           PageTrue(p, keys, agents)
    PROVE  PageTrue([Fetched(p, what) EXCEPT !.pending = p.pending \ {what}], keys, agents)
<1>1. what \in Fetches
  BY DEF PageRow
<1>2. CASE what = "agent"
  BY <1>2 DEF Fetched, PageRow, PageTrue, OnScreen, TypeOK
<1>3. CASE what = "rules"
  BY <1>3 DEF Fetched, PageRow, PageTrue, OnScreen
<1>4. CASE what = "keys"
  BY <1>4 DEF Fetched, PageRow, PageTrue, OnScreen
<1>5. QED
  BY <1>1, <1>2, <1>3, <1>4 DEF Fetches

LEMMA FetchedLeft ==
    ASSUME TypeOK, NEW p \in PageRow, p.state = "loading", NEW op, LeftBy(op, p, keys, agents),
           NEW what \in p.pending
    PROVE  LeftBy(op, [Fetched(p, what) EXCEPT !.pending = p.pending \ {what}], keys, agents)
<1>1. what \in Fetches
  BY DEF PageRow
<1>2. op.agent = p.agent /\ (op.name = "revokeKey" => op.arg \in Keys)
  BY DEF LeftBy, OnScreen, IsOp
<1>3. CASE what = "agent"
  BY <1>2, <1>3 DEF Fetched, PageRow, LeftBy, OnScreen
<1>4. CASE what = "rules"
  BY <1>2, <1>4 DEF Fetched, PageRow, LeftBy, OnScreen
<1>5. CASE what = "keys"
  BY <1>2, <1>5 DEF Fetched, PageRow, LeftBy, OnScreen
<1>6. QED
  BY <1>1, <1>3, <1>4, <1>5 DEF Fetches

LEMMA RenderedTrue ==
    ASSUME NEW p \in PageRow, NEW K, NEW A, p.state = "loading", PageTrue(p, K, A)
    PROVE  /\ PageTrue(Rendered(p), K, A)
           /\ \A op : LeftBy(op, p, K, A) => LeftBy(op, Rendered(p), K, A)
  BY DEF Rendered, Crashed, PageTrue, LeftBy, OnScreen, PageRow

\* The page becomes p, of which everything is true.
LEMMA BecomesTruth ==
    ASSUME PageInv, TruthInv, UNCHANGED <<keys, agents>>, NEW t \in Tabs, NEW p,
           Becomes(t, p), PageTrue(p, keys, agents),
           \A op : LeftBy(op, page[t], keys, agents) => LeftBy(op, p, keys, agents)
    PROVE  TruthInv'
<1>1. /\ action[t] \in ActionRow
      /\ ActionTrue(action[t], page[t], keys, agents)
  BY TabSame DEF TruthInv
<1>2. page' = [page EXCEPT ![t] = p] /\ Grown(keys, agents, keys', agents')
  BY DEF Becomes, Grown
<1>3. CASE p.state # "loading" /\ action[t].stage = "refresh"
  <2> DEFINE x == [action[t] EXCEPT !.stage = "idle", !.outcome = "success"]
  <2>1. action' = [action EXCEPT ![t] = x]
    BY <1>3 DEF Becomes
  <2>2. x.op = action[t].op /\ x.stage = "idle"
    BY <1>1 DEF ActionRow
  <2>3. ActionTrue(x, p, keys, agents)
    BY <1>1, <1>3, <2>2 DEF ActionTrue
  <2> HIDE DEF x
  <2>4. QED
    BY <1>2, <2>1, <2>3, TabTruth
<1>4. CASE ~(p.state # "loading" /\ action[t].stage = "refresh")
  <2>1. action' = [action EXCEPT ![t] = action[t]]
    BY <1>4, TabSame DEF Becomes
  <2>2. ActionTrue(action[t], p, keys, agents)
    BY <1>1 DEF ActionTrue
  <2>3. QED
    BY <1>2, <2>1, <2>2, TabTruth
<1>5. QED
  BY <1>3, <1>4

LEMMA LoadTruth ==
    ASSUME TypeOK, PageInv, TruthInv, NEW t \in Tabs, Load(t)
    PROVE  TruthInv'
<1>1. /\ page[t] \in PageRow /\ page[t].state = "loading" /\ page[t].agent \in Agents
      /\ PageTrue(page[t], keys, agents)
  BY TabSame DEF Load, ShowsAgent, TruthInv
<1>2. UNCHANGED <<keys, agents>>
  BY DEF Load, vars, tables
<1>3. PICK what \in page[t].pending :
         \/ /\ what = "agent" => agents[page[t].agent] # "none"
            /\ Becomes(t, Rendered([Fetched(page[t], what)
                                      EXCEPT !.pending = page[t].pending \ {what}]))
         \/ Becomes(t, [NoPage EXCEPT !.state = "notFound"])
         \/ Becomes(t, [NoPage EXCEPT !.state = "failed"])
  BY DEF Load
<1>4. CASE \E state \in {"notFound", "failed"} : Becomes(t, [NoPage EXCEPT !.state = state])
  <2>1. PICK state \in {"notFound", "failed"} : Becomes(t, [NoPage EXCEPT !.state = state])
    BY <1>4
  <2> DEFINE p == [NoPage EXCEPT !.state = state]
  <2>2. PageTrue(p, keys, agents)
    BY DEF PageTrue, NoPage, OnScreen
  <2>3. \A op : LeftBy(op, page[t], keys, agents) => LeftBy(op, p, keys, agents)
    BY DEF LeftBy, NoPage, OnScreen
  <2> HIDE DEF p
  <2>4. QED
    BY <1>2, <2>1, <2>2, <2>3, BecomesTruth DEF p
<1>5. CASE /\ what = "agent" => agents[page[t].agent] # "none"
           /\ Becomes(t, Rendered([Fetched(page[t], what)
                                      EXCEPT !.pending = page[t].pending \ {what}]))
  <2> DEFINE q == [Fetched(page[t], what) EXCEPT !.pending = page[t].pending \ {what}]
  <2>1. PageTrue(q, keys, agents)
    BY <1>1, <1>5, FetchedTrue
  <2>2. \A op : LeftBy(op, page[t], keys, agents) => LeftBy(op, q, keys, agents)
    BY <1>1, FetchedLeft
  <2>3. q \in PageRow /\ q.state = "loading"
    <3>1. what \in Fetches
      BY <1>1 DEF PageRow
    <3>2. Fetched(page[t], what) \in PageRow /\ Fetched(page[t], what).state = "loading"
      BY <1>1, <3>1, FetchedType
    <3>3. page[t].pending \ {what} \in SUBSET Fetches
      BY <1>1 DEF PageRow
    <3>4. QED
      BY <3>2, <3>3 DEF PageRow
  <2>4. Becomes(t, Rendered(q))
    BY <1>5
  <2> HIDE DEF q
  <2>5. /\ PageTrue(Rendered(q), keys, agents)
        /\ \A op : LeftBy(op, page[t], keys, agents) => LeftBy(op, Rendered(q), keys, agents)
    BY <2>1, <2>2, <2>3, RenderedTrue
  <2>6. QED
    BY <1>2, <2>4, <2>5, BecomesTruth
<1>6. QED
  BY <1>3, <1>4, <1>5

\* An action ends without having been reported, and its page is left or stays.
LEMMA EndsTruth ==
    ASSUME PageInv, TruthInv, Grown(keys, agents, keys', agents'), NEW t \in Tabs,
           action[t].stage \in {"owner", "call"}, NEW x \in ActionRow,
           action' = [action EXCEPT ![t] = x],
           x.stage # "refresh",
           x.outcome = "success" => action[t].outcome = "success",
           page' = page \/ page' = [page EXCEPT ![t] = NoPage]
    PROVE  TruthInv'
<1>1. x.outcome # "success"
  BY DEF TruthInv, ActionTrue
<1>2. \A p : ActionTrue(x, p, keys', agents')
  BY <1>1 DEF ActionTrue
<1>3. CASE page' = page
  <2>1. PageTrue(page[t], keys', agents')
    BY TabSame, TruthStays DEF TruthInv
  <2>2. QED
    BY <1>2, <1>3, <2>1, TabSame, TabTruth
<1>4. CASE page' = [page EXCEPT ![t] = NoPage]
  BY <1>2, <1>4, NothingSaid, TabTruth
<1>5. QED
  BY <1>3, <1>4

LEMMA CheckOwnerTruth ==
    ASSUME PageInv, TruthInv, NEW t \in Tabs, CheckOwner(t)
    PROVE  TruthInv'
<1>1. action[t] \in ActionRow /\ action[t].stage = "owner"
  BY TabSame DEF CheckOwner
<1>2. Grown(keys, agents, keys', agents')
  BY DEF CheckOwner, vars, tables, Grown
<1>3. PICK x \in {[action[t] EXCEPT !.stage = "idle", !.wrote = FALSE],
                  [action[t] EXCEPT !.stage = "idle", !.outcome = "error"],
                  [action[t] EXCEPT !.stage = "idle", !.outcome = "refused"],
                  [action[t] EXCEPT !.stage = "call"]} :
         action' = [action EXCEPT ![t] = x]
  BY DEF CheckOwner, SentAway, Finish
<1>4. /\ x \in ActionRow /\ x.stage # "refresh"
      /\ x.outcome = "success" => action[t].outcome = "success"
  BY <1>1, <1>3 DEF ActionRow
<1>5. page' = page \/ page' = [page EXCEPT ![t] = NoPage]
  BY DEF CheckOwner, SentAway
<1>6. QED
  BY <1>1, <1>2, <1>3, <1>4, <1>5, EndsTruth

\* What each write leaves in the tables.
LEMMA WriteLeaves ==
    ASSUME TypeOK, NEW op, IsOp(op), Write(op)
    PROVE  LeftBy(op, Opened(op.agent), keys', agents')
<1>1. op.agent \in Agents
  BY DEF IsOp, Ops
<1>2. /\ Opened(op.agent).agent = op.agent /\ Opened(op.agent).pending = Fetches
      /\ "keys" \in Fetches /\ "agent" \in Fetches
  BY DEF Opened, NoPage, Fetches
<1>3. CASE op.name = "revokeKey"
  <2>1. RevokeSessionKey(op.arg, op.agent) /\ op.arg \in Keys
    BY <1>3 DEF Write, revokeSessionKey, IsOp
  <2>2. keys[op.arg] \in KeyRow /\ keys[op.arg].agent = op.agent
    BY <2>1 DEF RevokeSessionKey, TypeOK
  <2>3. keys'[op.arg] = [keys[op.arg] EXCEPT !.revoked = TRUE]
    BY <2>1 DEF RevokeSessionKey, TypeOK
  <2>4. keys'[op.arg] \in KeyRow /\ keys'[op.arg].agent = op.agent /\ keys'[op.arg].revoked
    BY <2>2, <2>3 DEF KeyRow
  <2>5. QED
    BY <1>2, <1>3, <2>4, ProxyAssumption DEF LeftBy
<1>4. CASE op.name = "revokeAll"
  <2>1. agents' = [agents EXCEPT ![op.agent] = "inactive"]
    BY <1>4 DEF Write, revokeAllSessionKeys, RevokeAll
  <2>2. QED
    BY <1>1, <1>2, <1>4, <2>1 DEF LeftBy, TypeOK
<1>5. CASE op.name = "createKey"
  <2>1. PICK k \in Keys : CreateSessionKey(k, op.agent)
    BY <1>5 DEF Write, createSessionKey
  <2>2. PICK spec \in KeySpecs : keys' = [keys EXCEPT ![k] =
           [agent |-> op.agent, max |-> spec.max, spent |-> 0, expires |-> spec.expires,
            allowed |-> spec.allowed, revoked |-> FALSE]]
    BY <2>1 DEF CreateSessionKey
  <2>3. spec.max \in Nat /\ spec.expires \in Nat /\ spec.allowed \in SUBSET Address
    BY ProxyAssumption
  <2>4. keys'[k] \in KeyRow /\ keys'[k].agent = op.agent
    BY <1>1, <2>2, <2>3 DEF TypeOK, KeyRow
  <2>5. QED
    BY <1>2, <1>5, <2>4, ProxyAssumption DEF LeftBy
<1>6. CASE op.name \notin {"revokeKey", "revokeAll", "createKey"}
  BY <1>2, <1>6 DEF LeftBy
<1>7. QED
  BY <1>3, <1>4, <1>5, <1>6

LEMMA CallProxyTruth ==
    ASSUME IInv, PageInv, TruthInv, Grown(keys, agents, keys', agents'),
           NEW t \in Tabs, CallProxy(t)
    PROVE  TruthInv'
<1>1. /\ action[t] \in ActionRow /\ action[t].stage = "call"
      /\ ActionInv(action[t], page[t], signers) /\ ShowsAgent(page[t])
  BY TabSame DEF CallProxy
<1>2. CASE \/ action' = [action EXCEPT ![t].stage = "refresh", ![t].wrote = TRUE]
              /\ page' = [page EXCEPT ![t] = Opened(page[t].agent)]
              /\ Write(action[t].op) /\ action[t].watched
  <2> DEFINE x == [action[t] EXCEPT !.stage = "refresh", !.wrote = TRUE]
  <2>1. x.op = action[t].op /\ x.stage = "refresh" /\ x.outcome = action[t].outcome
    BY <1>1 DEF ActionRow
  <2>2. page[t].agent = x.op.agent /\ page[t].agent \in Agents /\ IsOp(x.op)
    BY <1>1, <1>2, <2>1 DEF ActionInv, ShowsAgent
  <2>3. LeftBy(x.op, Opened(page[t].agent), keys', agents')
    BY <1>2, <2>1, <2>2, WriteLeaves DEF IInv
  <2>4. x.outcome # "success"
    BY <1>1, <2>1 DEF TruthInv, ActionTrue
  <2>5. ActionTrue(x, Opened(page[t].agent), keys', agents')
    BY <2>3, <2>4 DEF ActionTrue
  <2>6. PageTrue(Opened(page[t].agent), keys', agents')
    BY <2>2, NothingSaid
  <2>7. action' = [action EXCEPT ![t] = x]
    BY <1>2
  <2> HIDE DEF x
  <2>8. QED
    BY <1>2, <2>5, <2>6, <2>7, TabTruth
<1>3. CASE \E x \in {[action[t] EXCEPT !.stage = "idle", !.wrote = TRUE],
                     [action[t] EXCEPT !.stage = "idle", !.wrote = TRUE, !.outcome = "error"],
                     [action[t] EXCEPT !.stage = "idle", !.outcome = "error"]} :
              /\ action' = [action EXCEPT ![t] = x]
              /\ page' = page \/ page' = [page EXCEPT ![t] = NoPage]
  <2>1. PICK x \in {[action[t] EXCEPT !.stage = "idle", !.wrote = TRUE],
                    [action[t] EXCEPT !.stage = "idle", !.wrote = TRUE, !.outcome = "error"],
                    [action[t] EXCEPT !.stage = "idle", !.outcome = "error"]} :
           action' = [action EXCEPT ![t] = x]
    BY <1>3
  <2>2. /\ x \in ActionRow /\ x.stage # "refresh"
        /\ x.outcome = "success" => action[t].outcome = "success"
    BY <1>1, <2>1 DEF ActionRow
  <2>3. page' = page \/ page' = [page EXCEPT ![t] = NoPage]
    BY <1>3
  <2>4. QED
    BY <1>1, <2>1, <2>2, <2>3, EndsTruth
<1>4. QED
  BY <1>2, <1>3 DEF CallProxy, Reported, SentAway, Finish

LEMMA ArrivesTruth ==
    ASSUME PageInv, TruthInv, NEW t \in Tabs, Arrives(t), journey \in Journeys
    PROVE  TruthInv'
<1>1. action[t] \in ActionRow
  BY TabSame
<1>2. PICK p \in {NoPage} \cup {Opened(a) : a \in Agents} : page' = [page EXCEPT ![t] = p]
  BY WebsiteAssumption DEF Arrives, Journey
<1>3. Grown(keys, agents, keys', agents')
  BY DEF Arrives, vars, tables, Grown
<1>4. PageTrue(p, keys', agents') /\ ActionTrue(NoAction, p, keys', agents')
  BY NothingSaid
<1>5. CASE action[t].stage \in {"owner", "call"}
  <2> DEFINE x == [action[t] EXCEPT !.watched = FALSE]
  <2>1. x.stage = action[t].stage /\ x.outcome = action[t].outcome
    BY <1>1 DEF ActionRow
  <2>2. ActionTrue(x, p, keys', agents')
    BY <1>5, <2>1 DEF TruthInv, ActionTrue
  <2>3. action' = [action EXCEPT ![t] = x]
    BY <1>5 DEF Arrives, Unwatched
  <2> HIDE DEF x
  <2>4. QED
    BY <1>2, <1>3, <1>4, <2>2, <2>3, TabTruth
<1>6. CASE action[t].stage \notin {"owner", "call"}
  <2>1. action' = [action EXCEPT ![t] = NoAction]
    BY <1>6 DEF Arrives, Unwatched
  <2>2. QED
    BY <1>2, <1>3, <1>4, <2>1, TabTruth
<1>7. QED
  BY <1>5, <1>6

LEMMA NextTruth ==
    ASSUME WebsiteInv, IInv, TruthInv, [WebsiteNext]_websiteVars
    PROVE  TruthInv'
<1> USE DEF WebsiteInv
<1>1. Grown(keys, agents, keys', agents')
  BY ProxyStep, TablesGrow
<1>2. TypeOK
  BY DEF IInv
<1>3. ASSUME NEW t \in Tabs, Use(t) \/ SigningIn(t) PROVE TruthInv'
  <2>1. CASE Press(t)
    <3>1. UNCHANGED <<keys, agents>>
      BY <2>1 DEF Press, vars, tables
    <3>2. QED
      BY <2>1, <3>1, PressTruth
  <2>2. CASE Arrives(t)
    BY <2>2, ArrivesTruth
  <2>3. CASE UNCHANGED <<page, action>>
    BY <1>1, <2>3, TruthFrame
  <2>4. QED
    BY <1>3, <2>1, <2>2, <2>3 DEF Use, SigningIn, Navigate, Leave, Land, pageVars
<1>4. ASSUME NEW t \in Tabs, Rendering(t) \/ Acting(t) \/ Chatting(t) \/ Monitoring(t)
      PROVE  TruthInv'
  <2>1. CASE UNCHANGED <<page, action>>
    BY <1>1, <2>1, TruthFrame
  <2>2. CASE LoadOverview(t) \/ Chatting(t) \/ Monitoring(t)
    BY <2>1, <2>2 DEF LoadOverview, Chatting, Monitoring, Monitor, Mount, Join, Deliver,
         Effect, Monitors, pageVars
  <2>3. CASE Load(t) \/ CheckOwner(t) \/ CallProxy(t)
    BY <1>1, <1>2, <2>3, LoadTruth, CheckOwnerTruth, CallProxyTruth
  <2>4. QED
    BY <1>4, <2>2, <2>3 DEF Rendering, Acting
<1>5. CASE Elsewhere \/ UNCHANGED websiteVars
  BY <1>1, <1>5, TruthFrame DEF Elsewhere, websiteVars, pageVars
<1>6. QED
  BY <1>3, <1>4, <1>5 DEF WebsiteNext

\* What the page of an agent shows as revoked, inactive or done is so,
\* whatever other tabs, other clients of the proxy and payments do meanwhile.
THEOREM PageTellsTheTruthCorrect == WebsiteSpec => []PageTellsTheTruth
<1>1. WebsiteInit => TruthInv
  BY RowTypes, NothingSaid DEF WebsiteInit, PageInit, TruthInv
<1>2. WebsiteInv /\ IInv /\ TruthInv /\ [WebsiteNext]_websiteVars => TruthInv'
  BY NextTruth
<1>3. TruthInv => PageTellsTheTruth
  BY DEF TruthInv, PageTrue, ActionTrue, LeftBy, OnScreen, PageTellsTheTruth
<1>4. QED
  BY <1>1, <1>2, <1>3, WebsiteInvCorrect, ProxyUnderneath, IInvCorrect, PTL DEF WebsiteSpec

-----------------------------------------------------------------------------
(* What a conversation costs.  Each answer is MaxSteps calls at most; and    *)
(* since what the user has sent counts too, and a conversation of more than  *)
(* MaxMessages messages is refused, it has MaxMessages answers at most.      *)

ChatRow == [status: {"ready", "submitted", "streaming", "error"},
            messages: Nat, sends: 0..MaxSends, steps: 0..MaxSteps, calls: Nat,
            indicator: {"none", "spinning", "done"}]

\* n answers have been begun, and this many steps are still to come.
AnswersBegun(c, n) ==
    /\ n \in 0..MaxMessages /\ c.messages = c.sends + n
    /\ IF c.status = "streaming" /\ c.steps > 0
       THEN n > 0 /\ c.calls + (MaxSteps - c.steps) <= MaxSteps * n
       ELSE c.calls <= MaxSteps * n

ChatOK(c) ==
    /\ c \in ChatRow
    /\ c.status # "ready" => c.sends > 0
    /\ c.status = "streaming" =>
          /\ c.steps = 0 => c.messages <= MaxMessages
          /\ c.indicator # "spinning" => c.steps < MaxSteps
    /\ \E n \in 0..MaxMessages : AnswersBegun(c, n)

ChatInv == chat \in [Tabs -> ChatRow] /\ \A t \in Tabs : ChatOK(chat[t])

LEMMA NoChatOK == ChatOK(NoChat)
<1>1. NoChat \in ChatRow
  BY ChatAssumption DEF NoChat, ChatRow
<1>2. 0 \in 0..MaxMessages /\ MaxSteps * 0 = 0
  BY ChatAssumption
<1>3. AnswersBegun(NoChat, 0)
  BY <1>2 DEF NoChat, AnswersBegun
<1>4. QED
  BY <1>1, <1>2, <1>3 DEF ChatOK, NoChat

LEMMA SendOK ==
    ASSUME NEW c, ChatOK(c), c.status \in {"ready", "error"}, c.sends < MaxSends
    PROVE  ChatOK(Submitted(c))
<1>1. PICK n \in 0..MaxMessages : AnswersBegun(c, n)
  BY DEF ChatOK
<1>2. Submitted(c) \in ChatRow
  <2>1. c \in ChatRow
    BY DEF ChatOK
  <2>2. c.messages + 1 \in Nat /\ c.sends + 1 \in 0..MaxSends
    BY <2>1, ChatAssumption DEF ChatRow
  <2>3. QED
    BY <2>1, <2>2 DEF ChatRow, Submitted
<1>3. /\ Submitted(c).status = "submitted" /\ Submitted(c).sends = c.sends + 1
      /\ Submitted(c).messages = c.messages + 1 /\ Submitted(c).calls = c.calls
      /\ c.sends \in Nat /\ c.messages \in Nat
  BY DEF ChatOK, ChatRow, Submitted
<1>4. AnswersBegun(Submitted(c), n)
  BY <1>1, <1>3 DEF AnswersBegun
<1>5. QED
  BY <1>2, <1>3, <1>4 DEF ChatOK

\* One more call of the model.
LEMMA CalledOK ==
    ASSUME NEW c, ChatOK(c), MayCall(c)
    PROVE  LET d == Called(c)
           IN  /\ d \in ChatRow /\ d.status = "streaming" /\ d.sends > 0 /\ d.steps > 0
               /\ \E n \in 0..MaxMessages : AnswersBegun(d, n)
<1> DEFINE d == Called(c)
<1>1. PICK n \in 0..MaxMessages : AnswersBegun(c, n)
  BY DEF ChatOK
<1>2. /\ c.messages \in Nat /\ c.sends \in Nat \ {0} /\ c.calls \in Nat /\ c.steps \in Nat
      /\ c.steps < MaxSteps /\ c.status = "streaming" /\ c \in ChatRow
      /\ c.steps = 0 => c.messages <= MaxMessages
  BY DEF ChatOK, ChatRow, MayCall
<1>3. d \in ChatRow
  <2>1. c.steps + 1 \in 0..MaxSteps /\ c.calls + 1 \in Nat
    BY <1>2, ChatAssumption
  <2>2. (IF c.steps = 0 THEN c.messages + 1 ELSE c.messages) \in Nat
    BY <1>2
  <2>3. QED
    BY <1>2, <2>1, <2>2 DEF Called, ChatRow
<1>4. /\ d.status = "streaming" /\ d.sends = c.sends /\ d.steps = c.steps + 1
      /\ d.calls = c.calls + 1
      /\ d.messages = IF c.steps = 0 THEN c.messages + 1 ELSE c.messages
  BY <1>2 DEF Called, ChatRow
<1> HIDE DEF d
<1>5. CASE c.steps = 0
  <2>1. c.calls <= MaxSteps * n /\ c.messages = c.sends + n
    BY <1>1, <1>5 DEF AnswersBegun
  <2>2. n + 1 \in 0..MaxMessages
    BY <1>2, <1>5, <2>1, ChatAssumption
  <2>3. MaxSteps * (n + 1) = MaxSteps * n + MaxSteps /\ MaxSteps * n \in Nat
    BY <2>2, ChatAssumption
  <2>4. d.messages = d.sends + (n + 1)
    BY <1>2, <1>4, <1>5, <2>1, ChatAssumption
  <2>5. d.calls + (MaxSteps - d.steps) <= MaxSteps * (n + 1)
    BY <1>2, <1>4, <1>5, <2>1, <2>3, ChatAssumption
  <2>6. AnswersBegun(d, n + 1)
    BY <1>2, <1>4, <2>2, <2>4, <2>5 DEF AnswersBegun
  <2>7. QED
    BY <1>2, <1>3, <1>4, <2>2, <2>6 DEF d
<1>6. CASE c.steps > 0
  <2>1. n > 0 /\ c.calls + (MaxSteps - c.steps) <= MaxSteps * n /\ c.messages = c.sends + n
    BY <1>1, <1>2, <1>6 DEF AnswersBegun
  <2>2. MaxSteps * n \in Nat
    BY ChatAssumption
  <2>3. d.calls + (MaxSteps - d.steps) <= MaxSteps * n /\ d.messages = d.sends + n
    BY <1>2, <1>4, <1>6, <2>1, <2>2, ChatAssumption
  <2>4. AnswersBegun(d, n)
    BY <1>2, <1>4, <2>1, <2>3 DEF AnswersBegun
  <2>5. QED
    BY <1>2, <1>3, <1>4, <2>4 DEF d
<1>7. QED
  BY <1>2, <1>5, <1>6

\* The streaming of an answer ends, whatever ended it.
LEMMA StreamOver ==
    ASSUME NEW c \in ChatRow, c.status = "streaming", c.sends > 0,
           NEW n \in 0..MaxMessages, AnswersBegun(c, n),
           NEW ends \in {"ready", "error"}, NEW shows \in {"none", "spinning", "done"}
    PROVE  ChatOK([c EXCEPT !.status = ends, !.indicator = shows])
<1> DEFINE d == [c EXCEPT !.status = ends, !.indicator = shows]
<1>1. /\ d \in ChatRow /\ d.status = ends /\ d.sends = c.sends
      /\ d.messages = c.messages /\ d.calls = c.calls
  BY DEF ChatRow
<1>2. c.steps \in 0..MaxSteps /\ c.calls \in Nat /\ MaxSteps * n \in Nat
  BY ChatAssumption DEF ChatRow
<1> HIDE DEF d
<1>3. AnswersBegun(d, n)
  BY <1>1, <1>2, ChatAssumption DEF AnswersBegun
<1>4. ChatOK(d)
  BY <1>1, <1>3 DEF ChatOK
<1>5. QED
  BY <1>4 DEF d

LEMMA RespondOK ==
    ASSUME ChatInv, NEW t \in Tabs, Respond(t)
    PROVE  \E d : ChatOK(d) /\ chat' = [chat EXCEPT ![t] = d]
<1> DEFINE c == chat[t]
<1>1. ChatOK(c) /\ c \in ChatRow
  BY DEF ChatInv
<1>2. PICK n \in 0..MaxMessages : AnswersBegun(c, n)
  BY <1>1 DEF ChatOK
<1>3. CASE Post(t)
  <2>1. CASE chat' = [chat EXCEPT ![t] = [c EXCEPT !.status = "error"]]
    <3>1. AnswersBegun([c EXCEPT !.status = "error"], n)
      BY <1>1, <1>2, <1>3 DEF Post, AnswersBegun, ChatRow
    <3>2. ChatOK([c EXCEPT !.status = "error"])
      BY <1>1, <1>3, <3>1 DEF Post, ChatOK, ChatRow
    <3>3. QED
      BY <2>1, <3>2
  <2>2. CASE /\ c.messages <= MaxMessages
             /\ chat' = [chat EXCEPT ![t] = [c EXCEPT
                   !.status = "streaming", !.steps = 0, !.indicator = "none"]]
    <3> DEFINE d == [c EXCEPT !.status = "streaming", !.steps = 0, !.indicator = "none"]
    <3>0. 0 \in 0..MaxSteps
      BY ChatAssumption
    <3>1. /\ d \in ChatRow /\ d.status = "streaming" /\ d.steps = 0 /\ d.sends = c.sends
          /\ d.messages = c.messages /\ d.calls = c.calls /\ d.indicator = "none"
      BY <1>1, <3>0 DEF ChatRow
    <3>2. c.status = "submitted" /\ c.sends > 0
      BY <1>1, <1>3 DEF Post, ChatOK
    <3> HIDE DEF d
    <3>3. AnswersBegun(d, n)
      BY <1>2, <3>1, <3>2 DEF AnswersBegun
    <3>4. ChatOK(d)
      BY <2>2, <3>1, <3>2, <3>3, ChatAssumption DEF ChatOK
    <3>5. QED
      BY <2>2, <3>4 DEF d
  <2>3. QED
    BY <1>3, <2>1, <2>2 DEF Post, Says
<1>4. CASE ModelAnswers(t) \/ CallsTool(t)
  <2> DEFINE d == Called(c)
  <2>1. /\ d \in ChatRow /\ d.status = "streaming" /\ d.sends > 0 /\ d.steps > 0
        /\ \E m \in 0..MaxMessages : AnswersBegun(d, m)
    BY <1>1, <1>4, CalledOK DEF ModelAnswers, CallsTool
  <2> HIDE DEF d
  <2>2. PICK m \in 0..MaxMessages : AnswersBegun(d, m)
    BY <2>1
  <2>3. CASE ModelAnswers(t)
    <3>1. d.indicator \in {"none", "spinning", "done"}
      BY <2>1 DEF ChatRow
    <3>2. ChatOK([d EXCEPT !.status = "ready", !.indicator = d.indicator])
      BY <2>1, <2>2, <3>1, StreamOver
    <3>3. [d EXCEPT !.status = "ready", !.indicator = d.indicator] = [d EXCEPT !.status = "ready"]
      BY <2>1 DEF ChatRow
    <3>4. QED
      BY <2>3, <3>2, <3>3 DEF ModelAnswers, Says, d
  <2>4. CASE CallsTool(t)
    <3> DEFINE e == [d EXCEPT !.indicator = "spinning"]
    <3>1. /\ e \in ChatRow /\ e.status = "streaming" /\ e.sends = d.sends /\ e.steps = d.steps
          /\ e.messages = d.messages /\ e.calls = d.calls /\ e.indicator = "spinning"
      BY <2>1 DEF ChatRow
    <3>2. chat' = [chat EXCEPT ![t] = e]
      BY <2>4 DEF CallsTool, Says, renderMessage, ToolCallIndicator, proxyFetch, d
    <3> HIDE DEF e
    <3>3. AnswersBegun(e, m)
      BY <2>1, <2>2, <3>1 DEF AnswersBegun
    <3>4. ChatOK(e)
      BY <2>1, <3>1, <3>3 DEF ChatOK
    <3>5. QED
      BY <3>2, <3>4
  <2>5. QED
    BY <1>4, <2>3, <2>4
<1>5. CASE ToolReturns(t)
  <2>1. c.status = "streaming" /\ c.indicator = "spinning" /\ c.sends > 0
    BY <1>1, <1>5 DEF ToolReturns, ChatOK
  <2>2. chat' = [chat EXCEPT ![t] = [[c EXCEPT !.indicator = "done"] EXCEPT
                   !.status = IF c.steps = MaxSteps THEN "ready" ELSE @]]
    BY <1>5 DEF ToolReturns, Says, renderMessage, ToolCallIndicator, proxyFetch
  <2>3. CASE c.steps = MaxSteps
    <3>1. ChatOK([c EXCEPT !.status = "ready", !.indicator = "done"])
      BY <1>1, <1>2, <2>1, StreamOver
    <3>2. [c EXCEPT !.status = "ready", !.indicator = "done"]
            = [[c EXCEPT !.indicator = "done"] EXCEPT
                  !.status = IF c.steps = MaxSteps THEN "ready" ELSE @]
      BY <1>1, <2>3 DEF ChatRow
    <3>3. QED
      BY <2>2, <3>1, <3>2
  <2>4. CASE c.steps # MaxSteps
    <3> DEFINE e == [[c EXCEPT !.indicator = "done"] EXCEPT
                        !.status = IF c.steps = MaxSteps THEN "ready" ELSE @]
    <3>1. /\ e \in ChatRow /\ e.status = "streaming" /\ e.sends = c.sends /\ e.steps = c.steps
          /\ e.messages = c.messages /\ e.calls = c.calls
      BY <1>1, <2>1, <2>4 DEF ChatRow
    <3> HIDE DEF e
    <3>2. AnswersBegun(e, n)
      BY <1>2, <2>1, <3>1 DEF AnswersBegun
    <3>3. c.steps \in 0..MaxSteps /\ (c.steps = 0 => c.messages <= MaxMessages)
      BY <1>1, <2>1 DEF ChatOK, ChatRow
    <3>4. ChatOK(e)
      BY <2>1, <2>4, <3>1, <3>2, <3>3, ChatAssumption DEF ChatOK
    <3>5. QED
      BY <2>2, <3>4 DEF e
  <2>5. QED
    BY <2>3, <2>4
<1>6. CASE StreamFails(t)
  <2>1. c.status = "streaming" /\ c.sends > 0 /\ c.indicator \in {"none", "spinning", "done"}
    BY <1>1, <1>6 DEF StreamFails, ChatOK, ChatRow
  <2>2. ChatOK([c EXCEPT !.status = "error", !.indicator = c.indicator])
    BY <1>1, <1>2, <2>1, StreamOver
  <2>3. [c EXCEPT !.status = "error", !.indicator = c.indicator] = [c EXCEPT !.status = "error"]
    BY <1>1 DEF ChatRow
  <2>4. QED
    BY <1>6, <2>2, <2>3 DEF StreamFails, Says
<1>7. QED
  BY <1>3, <1>4, <1>5, <1>6 DEF Respond

LEMMA NextChatInv ==
    ASSUME ChatInv, [WebsiteNext]_websiteVars
    PROVE  ChatInv'
<1>1. CASE UNCHANGED chat
  BY <1>1 DEF ChatInv
<1>2. ASSUME NEW t \in Tabs, NEW d, ChatOK(d), chat' = [chat EXCEPT ![t] = d]
      PROVE  ChatInv'
  <2>1. d \in ChatRow
    BY <1>2 DEF ChatOK
  <2>2. QED
    BY <1>2, <2>1 DEF ChatInv
<1>3. ASSUME NEW t \in Tabs, Use(t) \/ SigningIn(t) PROVE ChatInv'
  <2>1. CASE Arrives(t)
    BY <1>2, <2>1, NoChatOK DEF Arrives
  <2>2. CASE HandleSend(t) \/ HandleRetry(t)
    <3>1. /\ chat' = [chat EXCEPT ![t] = Submitted(chat[t])] /\ chat[t].sends < MaxSends
          /\ ChatOK(chat[t]) /\ chat[t].status \in {"ready", "error"}
      BY <2>2 DEF HandleSend, HandleRetry, Says, ChatInv, ChatRow, IsLoading, ErrorBanner
    <3>2. QED
      BY <1>2, <3>1, SendOK
  <2>3. QED
    BY <1>1, <1>3, <2>1, <2>2 DEF Use, SigningIn, Navigate, Leave, Land
<1>4. ASSUME NEW t \in Tabs, Rendering(t) \/ Acting(t) \/ Monitoring(t) PROVE ChatInv'
  BY <1>1, <1>4 DEF Rendering, Acting, Monitoring
<1>5. ASSUME NEW t \in Tabs, Chatting(t) PROVE ChatInv'
  BY <1>2, <1>5, RespondOK DEF Chatting
<1>6. CASE Elsewhere \/ UNCHANGED websiteVars
  BY <1>1, <1>6 DEF Elsewhere, websiteVars
<1>7. QED
  BY <1>3, <1>4, <1>5, <1>6 DEF WebsiteNext

\* The inductive invariant of the conversations.
THEOREM ChatInvCorrect == WebsiteSpec => []ChatInv
<1>1. WebsiteInit => ChatInv
  <2>1. NoChat \in ChatRow
    BY NoChatOK DEF ChatOK
  <2>2. QED
    BY <2>1, NoChatOK, WebsiteAssumption DEF WebsiteInit, ChatInit, ChatInv
<1>2. ChatInv /\ [WebsiteNext]_websiteVars => ChatInv'
  BY NextChatInv
<1>3. QED
  BY <1>1, <1>2, PTL DEF WebsiteSpec

\* However often a conversation fails and is retried, it costs at most
\* MaxSteps calls of the model for each message that may be in it.
THEOREM CostBoundedCorrect == WebsiteSpec => []CostBounded
<1>1. ChatInv => CostBounded
  <2>1. ASSUME ChatInv, NEW t \in Tabs PROVE chat[t].calls <= MaxMessages * MaxSteps
    <3>1. ChatOK(chat[t]) /\ chat[t] \in ChatRow
      BY <2>1 DEF ChatInv
    <3>2. PICK n \in 0..MaxMessages : AnswersBegun(chat[t], n)
      BY <3>1 DEF ChatOK
    <3>3. chat[t].calls \in Nat /\ chat[t].steps \in 0..MaxSteps
      BY <3>1 DEF ChatRow
    <3>4. chat[t].calls <= MaxSteps * n
      BY <3>2, <3>3, ChatAssumption DEF AnswersBegun
    <3>5. MaxSteps * n <= MaxMessages * MaxSteps /\ MaxSteps * n \in Nat
      BY ChatAssumption
    <3>6. QED
      BY <3>3, <3>4, <3>5, ChatAssumption
  <2>2. QED
    BY <2>1, WebsiteAssumption DEF CostBounded
<1>2. QED
  BY <1>1, ChatInvCorrect, PTL

-----------------------------------------------------------------------------
(* Why a sign-in is refused for its nonce.  A tab that waits for a signature *)
(* has the nonce of the cookie, or something else has changed the cookie     *)
(* since, and then the tab has taken note of it.                             *)

Excused(f, c) ==
    /\ f.state = "sign" => f.spoiled \/ f.nonce = c
    /\ f.state = "verify" => f.spoiled \/ f.sent = f.nonce
    /\ f.outcome = "noNonce" => f.spoiled

ExcuseInv == \A t \in Tabs : Excused(form[t], cookie)

\* One form changes, and the cookie does not.
LEMMA ExcuseChange ==
    ASSUME SignInInv, ExcuseInv, NEW t \in Tabs, NEW f,
           form' = [form EXCEPT ![t] = f], Excused(f, cookie), cookie' = cookie
    PROVE  ExcuseInv'
<1>1. \A u \in Tabs : form'[u] = IF u = t THEN f ELSE form[u]
  BY DEF SignInInv, SignInType
<1>2. QED
  BY <1>1 DEF ExcuseInv

\* Whatever the cookie becomes, the forms of the other tabs are excused.
LEMMA SpoilingExcuses ==
    ASSUME SignInInv, ExcuseInv, NEW t, NEW u \in Tabs, u # t, NEW c
    PROVE  Excused(Spoiling(t)[u], c)
<1>1. form[u] \in FormRow /\ Excused(form[u], cookie)
  BY DEF SignInInv, SignInType, FormRow, ExcuseInv
<1>2. CASE At(u, "sign")
  <2>1. Spoiling(t)[u] = [form[u] EXCEPT !.spoiled = TRUE]
    BY <1>2 DEF Spoiling
  <2>2. QED
    BY <1>1, <1>2, <2>1 DEF FormRow, Excused, At
<1>3. CASE ~At(u, "sign")
  <2>1. Spoiling(t)[u] = form[u]
    BY <1>3 DEF Spoiling
  <2>2. QED
    BY <1>1, <1>3, <2>1 DEF Excused, At
<1>4. QED
  BY <1>2, <1>3

\* A tab changes the cookie and its own form; the others are spoiled.
LEMMA ExcuseSpoil ==
    ASSUME SignInInv, ExcuseInv, NEW t \in Tabs, NEW f,
           form' = [Spoiling(t) EXCEPT ![t] = f], Excused(f, cookie')
    PROVE  ExcuseInv'
<1>1. \A u \in Tabs : form'[u] = IF u = t THEN f ELSE Spoiling(t)[u]
  BY SpoilingKeeps
<1>2. QED
  BY <1>1, SpoilingExcuses DEF ExcuseInv

LEMMA HookExcuse ==
    ASSUME SignInInv, ExcuseInv, NEW t \in Tabs, Click(t) \/ Hook(t)
    PROVE  ExcuseInv'
<1>1. form[t] \in FormRow /\ Excused(form[t], cookie)
  BY DEF SignInInv, SignInType, FormRow, ExcuseInv
<1> USE DEF Shows, Goes, Ends, At, Limited
<1>2. ASSUME NEW state \in Waiting \ {"sign", "verify"}, cookie' = cookie,
             form' = [form EXCEPT ![t] = [form[t] EXCEPT !.state = state]]
      PROVE  ExcuseInv'
  <2>1. Excused([form[t] EXCEPT !.state = state], cookie)
    BY <1>1 DEF FormRow, Excused
  <2>2. QED
    BY <1>2, <2>1, ExcuseChange
<1>3. ASSUME NEW outcome \in Outcomes \ {"noNonce"}, cookie' = cookie,
             form' = [form EXCEPT ![t] = [form[t] EXCEPT !.state = "idle", !.outcome = outcome]]
      PROVE  ExcuseInv'
  <2>1. Excused([form[t] EXCEPT !.state = "idle", !.outcome = outcome], cookie)
    BY <1>1, <1>3 DEF FormRow, Excused
  <2>2. QED
    BY <1>3, <2>1, ExcuseChange
<1>4. CASE Click(t)
  <2>1. PICK state \in {"nonce", "switch"} :
           form' = [form EXCEPT ![t] = [NoForm EXCEPT !.state = state, !.address = account]]
    BY <1>4 DEF Click
  <2>2. Excused([NoForm EXCEPT !.state = state, !.address = account], cookie)
    BY DEF NoForm, Excused
  <2>3. QED
    BY <1>4, <2>1, <2>2, ExcuseChange DEF Click, nonce
<1>5. CASE SwitchChain(t)
  BY <1>2, <1>3, <1>5 DEF SwitchChain, nonce, Waiting, Outcomes
<1>6. CASE FetchNonce(t)
  <2>1. CASE /\ issued' = issued + 1 /\ cookie' = issued'
             /\ form' = [Spoiling(t) EXCEPT ![t].state = "sign", ![t].nonce = issued']
    <3> DEFINE f == [form[t] EXCEPT !.state = "sign", !.nonce = issued']
    <3>1. form' = [Spoiling(t) EXCEPT ![t] = f]
      BY <2>1, SpoilingKeeps
    <3>2. f.state = "sign" /\ f.nonce = cookie' /\ f.outcome = form[t].outcome
          /\ f.spoiled = form[t].spoiled
      BY <1>1, <2>1 DEF FormRow
    <3>3. Excused(f, cookie')
      BY <1>1, <3>2 DEF Excused
    <3> HIDE DEF f
    <3>4. QED
      BY <3>1, <3>3, ExcuseSpoil
  <2>2. CASE Limited(t) /\ UNCHANGED nonce
    BY <1>3, <2>2 DEF nonce, Outcomes
  <2>3. CASE form' = [Spoiling(t) EXCEPT ![t].state = "idle", ![t].outcome = "failed"]
    <3> DEFINE f == [form[t] EXCEPT !.state = "idle", !.outcome = "failed"]
    <3>1. form' = [Spoiling(t) EXCEPT ![t] = f]
      BY <2>3, SpoilingKeeps
    <3>2. Excused(f, cookie')
      BY <1>1 DEF FormRow, Excused
    <3> HIDE DEF f
    <3>3. QED
      BY <3>1, <3>2, ExcuseSpoil
  <2>4. QED
    BY <1>6, <2>1, <2>2, <2>3 DEF FetchNonce
<1>7. CASE Sign(t)
  <2>1. CASE form' = [form EXCEPT ![t] = [form[t] EXCEPT
                !.state = "verify", !.signer = account, !.sent = cookie]]
    <3>1. form[t].state = "sign" /\ cookie' = cookie
      BY <1>7 DEF Sign, nonce
    <3>2. Excused([form[t] EXCEPT !.state = "verify", !.signer = account, !.sent = cookie], cookie)
      BY <1>1, <3>1 DEF FormRow, Excused
    <3>3. QED
      BY <2>1, <3>1, <3>2, ExcuseChange
  <2>2. CASE Ends(t, "cancelled")
    BY <1>3, <1>7, <2>2 DEF Sign, nonce, Outcomes
  <2>3. QED
    BY <1>7, <2>1, <2>2 DEF Sign
<1>8. CASE Verify(t)
  <2>1. cookie' = cookie /\ form[t].state = "verify"
    BY <1>8 DEF Verify, nonce
  <2>2. CASE Verified(form[t]) = "noNonce"
    <3>1. form[t].spoiled
      BY <1>1, <2>1, <2>2 DEF Verified, Excused
    <3>2. Excused([form[t] EXCEPT !.state = "idle", !.outcome = "noNonce"], cookie)
      BY <1>1, <3>1 DEF FormRow, Excused
    <3>3. QED
      BY <1>8, <2>1, <2>2, <3>2, ExcuseChange DEF Verify
  <2>3. CASE Verified(form[t]) = "notSigned"
    BY <1>3, <1>8, <2>1, <2>3 DEF Verify, Outcomes
  <2>4. CASE Verified(form[t]) = "findUser"
    BY <1>2, <1>8, <2>1, <2>4 DEF Verify, Waiting
  <2>5. QED
    BY <2>2, <2>3, <2>4 DEF Verified
<1>9. CASE Grant(t)
  <2> DEFINE f == [form[t] EXCEPT !.state = "session"]
  <2>1. form' = [Spoiling(t) EXCEPT ![t] = f]
    BY <1>9, SpoilingKeeps DEF Grant
  <2>2. Excused(f, cookie')
    BY <1>1 DEF FormRow, Excused
  <2> HIDE DEF f
  <2>3. QED
    BY <2>1, <2>2, ExcuseSpoil
<1>10. CASE FindUser(t) \/ NewUser(t)
  BY <1>2, <1>9, <1>10 DEF FindUser, NewUser, nonce, Waiting
<1>11. CASE CreateUser(t) \/ VerifyFails(t)
  BY <1>2, <1>3, <1>11 DEF CreateUser, VerifyFails, nonce, Waiting, Outcomes
<1>12. QED
  BY <1>4, <1>5, <1>6, <1>7, <1>8, <1>10, <1>11 DEF Hook

\* The pages and the wallet: the hook ends with its page or goes on, and
\* nothing else than the end of the cookie touches the cookie.
LEMMA PlaceExcuse ==
    ASSUME SignInInv, ExcuseInv, NEW t \in Tabs, NEW p,
           Visit(t, p) \/ SignOut(t) \/ SetSession(t) \/ ChangeAccount \/ NonceExpires
    PROVE  ExcuseInv'
<1>1. CASE NonceExpires
  <2>1. form' = Spoiling(Nobody)
    BY <1>1 DEF NonceExpires
  <2>2. QED
    BY <2>1, SpoilingExcuses, SignInAssumption DEF ExcuseInv
<1>2. CASE UNCHANGED <<form, cookie>>
  BY <1>2 DEF ExcuseInv
<1>3. CASE form' = [form EXCEPT ![t] = NoForm] /\ cookie' = cookie
  BY <1>3, ExcuseChange DEF NoForm, Excused
<1>4. QED
  BY <1>1, <1>2, <1>3 DEF Visit, SignOut, SetSession, ChangeAccount, nonce, Shows

LEMMA NextExcuse ==
    ASSUME WebsiteInv, ExcuseInv, [WebsiteNext]_websiteVars
    PROVE  ExcuseInv'
<1> USE DEF WebsiteInv
<1>1. CASE UNCHANGED <<form, cookie>>
  BY <1>1 DEF ExcuseInv
<1>2. ASSUME NEW t \in Tabs, Use(t) \/ SigningIn(t) PROVE ExcuseInv'
  BY <1>1, <1>2, HookExcuse, PlaceExcuse
  DEF Use, SigningIn, Navigate, Leave, Land, Press, signInVars, nonce
<1>3. ASSUME NEW t \in Tabs, Rendering(t) \/ Acting(t) \/ Chatting(t) \/ Monitoring(t)
      PROVE  UNCHANGED <<form, cookie>>
  BY <1>3 DEF Rendering, Load, LoadOverview, Acting, CheckOwner, CallProxy, Reported, SentAway,
       Chatting, Monitoring, Monitor, Mount, Join, Deliver, Effect, Monitors, signInVars, nonce
<1>4. CASE Elsewhere
  BY <1>1, <1>4, PlaceExcuse DEF Elsewhere, signInVars, nonce
<1>5. CASE UNCHANGED websiteVars
  BY <1>1, <1>5 DEF websiteVars, signInVars, nonce
<1>6. QED
  BY <1>1, <1>2, <1>3, <1>4, <1>5 DEF WebsiteNext

\* A sign-in that is refused for its nonce, after it was signed, is refused
\* for a reason outside its tab: for any number of tabs, nonces and accounts.
THEOREM FailureExcusedCorrect == WebsiteSpec => []FailureExcused
<1>1. WebsiteInit => ExcuseInv
  BY DEF WebsiteInit, SignInInit, NoForm, ExcuseInv, Excused
<1>2. WebsiteInv /\ ExcuseInv /\ [WebsiteNext]_websiteVars => ExcuseInv'
  BY NextExcuse
<1>3. ExcuseInv => FailureExcused
  BY DEF ExcuseInv, Excused, FailureExcused
<1>4. QED
  BY <1>1, <1>2, <1>3, WebsiteInvCorrect, PTL DEF WebsiteSpec

-----------------------------------------------------------------------------
(* The monitors.  What a monitor has counted and what is on its way to it    *)
(* are rows that its agent has reserved, each of them once; and what its     *)
(* effects have seen only grows, so that 80% of the limit is crossed once.   *)

CardRow == [stage: {"none", "noData", "rendered", "mounted", "joined"}, first: Nat, spent: Nat,
            cap: Nat \cup {Absent}, prev: Nat, alerts: Nat, feed: SUBSET LedgerRow]

OverviewRow == [state: {"none", "loading", "failed", "shown"}, user: Wallets \cup {Nobody}]

RowsFor(a) == {row \in ledger : row.agent = a}

Alerts(m) == IF ~AtLimit(m, m.first) /\ AtLimit(m, m.prev) THEN 1 ELSE 0

CardInv(m, rows) ==
    /\ m \in CardRow
    /\ m.feed \in SUBSET rows
    /\ m.spent + Total(m.feed) <= Total(rows)
    /\ m.stage = "rendered" => m.alerts = 0 /\ m.spent = m.first /\ m.feed = {}
    /\ m.stage \in {"mounted", "joined"} =>
          m.first <= m.prev /\ m.prev <= m.spent /\ m.alerts = Alerts(m)

CardsInv ==
    /\ overview \in [Tabs -> OverviewRow]
    /\ cards \in [Tabs -> [Agents -> CardRow]]
    /\ \A t \in Tabs, a \in Agents : CardInv(cards[t][a], RowsFor(a))

\* The ledger is written one row at a time.
LEMMA LedgerStep ==
    ASSUME [Next]_vars
    PROVE  \/ ledger' = ledger
           \/ \E row : row \notin ledger /\ ledger' = ledger \cup {row}
<1>1. CASE \E r \in Requests : ledger' = ledger \cup {NewRow(r)}
  BY <1>1
<1>2. CASE UNCHANGED ledger
  BY <1>2
<1>3. ASSUME NEW r \in Requests, Receive(r) \/ Step(r) \/ Abort(r)
      PROVE  ledger' = ledger \/ ledger' = ledger \cup {NewRow(r)}
  BY <1>3 DEF Receive, Step, FindKey, FindAgent, FindRules, SumSpent, StoreNonce, CheckRate,
       BeginInsert, CommitInsert, ChargeKey, Forward, Abort, tables
<1>4. CASE Manage
  BY <1>4 DEF Manage, ManageAgent, CreateAgent, CreateRule, UpdateRule, DeactivateRule, CreateSessionKey,
       RevokeSessionKey, RevokeAll, tables
<1>5. CASE Tick \/ LoseNonces \/ Done \/ UNCHANGED vars
  BY <1>5 DEF Tick, LoseNonces, Done, vars, tables
<1>6. QED
  BY <1>1, <1>2, <1>3, <1>4, <1>5 DEF Next

LEMMA RowsForType ==
    ASSUME TypeOK, IsFiniteSet(ledger), NEW a
    PROVE  /\ RowsFor(a) \in SUBSET LedgerRow /\ IsFiniteSet(RowsFor(a))
           /\ Total(RowsFor(a)) \in Nat
<1>1. RowsFor(a) \in SUBSET ledger /\ ledger \in SUBSET LedgerRow
  BY DEF RowsFor, TypeOK
<1>2. QED
  BY <1>1, TotalMonotone

\* A card without a monitor, whatever is reserved.
LEMMA NoMonitorInv ==
    ASSUME NEW rows \in SUBSET LedgerRow, IsFiniteSet(rows)
    PROVE  CardInv(NoMonitor, rows) /\ CardInv(NoData, rows)
<1>1. Total(rows) \in Nat
  BY TotalIsSum
<1>2. NoMonitor \in CardRow /\ NoData \in CardRow
  BY DEF NoMonitor, NoData, CardRow
<1>3. /\ NoMonitor.feed = {} /\ NoMonitor.spent = 0 /\ NoMonitor.stage = "none"
      /\ NoData.feed = {} /\ NoData.spent = 0 /\ NoData.stage = "noData"
  BY DEF NoMonitor, NoData
<1>4. QED
  BY <1>1, <1>2, <1>3, TotalOfNone DEF CardInv

\* A row is reserved: it may be on its way to a monitor that has joined.
LEMMA RowReserved ==
    ASSUME NEW rows \in SUBSET LedgerRow, IsFiniteSet(rows), NEW row \in LedgerRow \ rows,
           NEW m, CardInv(m, rows)
    PROVE  /\ CardInv(m, rows \cup {row})
           /\ m.stage = "joined" => CardInv([m EXCEPT !.feed = @ \cup {row}], rows \cup {row})
<1> DEFINE n == [m EXCEPT !.feed = @ \cup {row}]
           more == rows \cup {row}
<1>1. m \in CardRow /\ m.feed \in SUBSET rows /\ m.feed \in SUBSET LedgerRow /\ IsFiniteSet(m.feed)
  BY FS_Subset DEF CardInv, CardRow
<1>2. row \in LedgerRow \ m.feed
  BY <1>1
<1>3. Total(m.feed \cup {row}) = Total(m.feed) + row.amount
  BY <1>1, <1>2, TotalAdd
<1>4. Total(more) = Total(rows) + row.amount /\ row.amount \in Nat
  BY TotalAdd
<1>5. Total(m.feed) \in Nat /\ Total(rows) \in Nat /\ m.spent \in Nat
  BY <1>1, TotalIsSum DEF CardRow
<1>6. /\ n \in CardRow /\ n.feed = m.feed \cup {row} /\ n.spent = m.spent
      /\ n.stage = m.stage /\ n.first = m.first /\ n.prev = m.prev
      /\ n.alerts = m.alerts /\ n.cap = m.cap
  BY <1>1 DEF CardRow
<1> HIDE DEF n, more
<1>7. n.spent + Total(n.feed) <= Total(more) /\ m.spent + Total(m.feed) <= Total(more)
  BY <1>3, <1>4, <1>5, <1>6 DEF CardInv
<1>8. n.feed \in SUBSET more /\ m.feed \in SUBSET more
  BY <1>1, <1>6 DEF more
<1>9. Alerts(n) = Alerts(m)
  BY <1>6 DEF Alerts, AtLimit
<1>10. CardInv(m, more) /\ (m.stage = "joined" => CardInv(n, more))
  BY <1>1, <1>6, <1>7, <1>8, <1>9 DEF CardInv
<1>11. QED
  BY <1>10 DEF n, more

\* A monitor that is told of new rows of the ledger.
Told(m, a, new) == [m EXCEPT !.feed = @ \cup {row \in new : Feeds(a, row)}]

\* The rows change as a step of the proxy changes the ledger.
LEMMA RowsStep ==
    ASSUME TypeOK, TypeOK', IsFiniteSet(ledger), [Next]_vars, NEW a, NEW m, CardInv(m, RowsFor(a))
    PROVE  /\ CardInv(m, RowsFor(a)')
           /\ m.stage = "joined" => CardInv(Told(m, a, ledger' \ ledger), RowsFor(a)')
<1> DEFINE new == {row \in ledger' \ ledger : Feeds(a, row)}
<1>1. RowsFor(a) \in SUBSET LedgerRow /\ IsFiniteSet(RowsFor(a))
  BY RowsForType
<1>2. m \in CardRow
  BY DEF CardInv
<1>3. CASE new = {}
  <2>1. RowsFor(a)' = RowsFor(a)
    <3>1. ledger \subseteq ledger'
      BY LedgerStep
    <3>2. QED
      BY <1>3, <3>1 DEF RowsFor, Feeds
  <2>2. [m EXCEPT !.feed = @ \cup new] = m
    BY <1>2, <1>3 DEF CardRow
  <2> HIDE DEF new
  <2>3. QED
    BY <2>1, <2>2 DEF new, Told
<1>4. CASE \E row : new = {row} /\ ledger' = ledger \cup {row}
  <2>1. PICK row : new = {row} /\ ledger' = ledger \cup {row}
    BY <1>4
  <2>2. row \in LedgerRow \ RowsFor(a) /\ RowsFor(a)' = RowsFor(a) \cup {row}
    BY <2>1 DEF RowsFor, Feeds, TypeOK
  <2> HIDE DEF new
  <2>3. /\ CardInv(m, RowsFor(a)')
        /\ m.stage = "joined" => CardInv([m EXCEPT !.feed = @ \cup new], RowsFor(a)')
    BY <1>1, <2>1, <2>2, RowReserved
  <2>4. QED
    BY <2>3 DEF new, Told
<1>5. QED
  <2>1. new = {} \/ \E row : new = {row} /\ ledger' = ledger \cup {row}
    BY LedgerStep
  <2>2. QED
    BY <1>3, <1>4, <2>1

\* The monitor of one card changes.
LEMMA CardChange ==
    ASSUME CardsInv, NEW t \in Tabs, NEW a \in Agents, NEW m, CardInv(m, RowsFor(a)),
           Monitors(t, a, m)
    PROVE  CardsInv'
<1>1. cards' = [cards EXCEPT ![t][a] = m] /\ overview' = overview /\ ledger' = ledger
  BY DEF Monitors, vars, tables
<1>2. m \in CardRow
  BY DEF CardInv
<1>3. /\ cards' \in [Tabs -> [Agents -> CardRow]]
      /\ \A u \in Tabs, b \in Agents :
            cards'[u][b] = IF u = t /\ b = a THEN m ELSE cards[u][b]
  BY <1>1, <1>2 DEF CardsInv
<1>4. \A b : RowsFor(b)' = RowsFor(b)
  BY <1>1 DEF RowsFor
<1>5. \A u \in Tabs, b \in Agents : CardInv(cards'[u][b], RowsFor(b))
  BY <1>3 DEF CardsInv
<1>6. QED
  BY <1>1, <1>3, <1>4, <1>5 DEF CardsInv

\* The first effects, and the channel.
LEMMA MountCards ==
    ASSUME CardsInv, NEW t \in Tabs, NEW a \in Agents, Mount(t, a) \/ Join(t, a)
    PROVE  CardsInv'
<1> DEFINE m == cards[t][a]
<1>1. CardInv(m, RowsFor(a)) /\ m \in CardRow
  BY DEF CardsInv, CardInv
<1>2. CASE Mount(t, a)
  <2> DEFINE n == [m EXCEPT !.stage = "mounted", !.prev = m.spent]
  <2>1. /\ n \in CardRow /\ n.stage = "mounted" /\ n.prev = m.spent /\ n.first = m.first
        /\ n.spent = m.spent /\ n.feed = m.feed /\ n.alerts = m.alerts /\ n.cap = m.cap
    BY <1>1 DEF CardRow
  <2>2. m.spent = m.first /\ m.alerts = 0 /\ m.spent \in Nat
    BY <1>1, <1>2 DEF Mount, CardInv, CardRow
  <2>3. Monitors(t, a, n)
    BY <1>2 DEF Mount
  <2> HIDE DEF n
  <2>4. CardInv(n, RowsFor(a))
    BY <1>1, <2>1, <2>2 DEF CardInv, Alerts
  <2>5. QED
    BY <2>3, <2>4, CardChange
<1>3. CASE Join(t, a)
  <2> DEFINE n == [m EXCEPT !.stage = "joined"]
  <2>1. /\ n \in CardRow /\ n.stage = "joined" /\ n.prev = m.prev /\ n.first = m.first
        /\ n.spent = m.spent /\ n.feed = m.feed /\ n.alerts = m.alerts /\ n.cap = m.cap
    BY <1>1 DEF CardRow
  <2>2. m.stage = "mounted" /\ Monitors(t, a, n)
    BY <1>3 DEF Join
  <2> HIDE DEF n
  <2>3. CardInv(n, RowsFor(a))
    BY <1>1, <2>1, <2>2 DEF CardInv, Alerts, AtLimit
  <2>4. QED
    BY <2>2, <2>3, CardChange
<1>4. QED
  BY <1>2, <1>3

\* A row is counted when it arrives, and then it is not on its way any more.
LEMMA DeliverCards ==
    ASSUME TypeOK, IsFiniteSet(ledger), CardsInv, NEW t \in Tabs, NEW a \in Agents, Deliver(t, a)
    PROVE  CardsInv'
<1> DEFINE m == cards[t][a]
<1>1. CardInv(m, RowsFor(a)) /\ m \in CardRow
  BY DEF CardsInv, CardInv
<1>2. PICK row \in m.feed, arrives \in BOOLEAN :
         Monitors(t, a, [m EXCEPT !.feed = @ \ {row},
                                  !.spent = IF arrives THEN @ + row.amount ELSE @])
  BY DEF Deliver
<1> DEFINE rest == m.feed \ {row}
           sum == IF arrives THEN m.spent + row.amount ELSE m.spent
           n == [m EXCEPT !.feed = rest, !.spent = sum]
<1>3. m.feed \in SUBSET LedgerRow /\ IsFiniteSet(m.feed) /\ Total(RowsFor(a)) \in Nat
  BY <1>1, RowsForType, FS_Subset DEF CardInv, CardRow
<1>4. rest \in SUBSET LedgerRow /\ IsFiniteSet(rest) /\ row \in LedgerRow \ rest
      /\ rest \cup {row} = m.feed
  BY <1>3, FS_Subset
<1>5. Total(m.feed) = Total(rest) + row.amount /\ row.amount \in Nat /\ Total(rest) \in Nat
  <2> HIDE DEF rest
  <2>1. QED
    BY <1>4, TotalAdd, TotalIsSum
<1>6. m.spent \in Nat /\ m.first \in Nat /\ m.prev \in Nat
  BY <1>1 DEF CardRow
<1>7. sum \in Nat /\ m.spent <= sum /\ sum + Total(rest) <= m.spent + Total(m.feed)
  <2> HIDE DEF rest
  <2>1. QED
    BY <1>5, <1>6
<1> HIDE DEF sum, rest
<1>8. /\ n \in CardRow /\ n.stage = m.stage /\ n.prev = m.prev /\ n.first = m.first
      /\ n.spent = sum /\ n.feed = rest /\ n.alerts = m.alerts /\ n.cap = m.cap
  BY <1>1, <1>4, <1>7 DEF CardRow
<1>9. Monitors(t, a, n)
  BY <1>2 DEF n, sum, rest
<1> HIDE DEF n
<1>10. n.spent + Total(n.feed) <= Total(RowsFor(a)) /\ n.feed \in SUBSET RowsFor(a)
  <2>1. m.spent + Total(m.feed) <= Total(RowsFor(a)) /\ m.feed \in SUBSET RowsFor(a)
    BY <1>1 DEF CardInv
  <2>2. rest \in SUBSET m.feed
    BY <1>4
  <2> HIDE DEF m
  <2>3. QED
    BY <1>3, <1>5, <1>6, <1>7, <1>8, <2>1, <2>2
<1>11. m.stage # "rendered"
  BY <1>1, <1>2 DEF CardInv
<1>12. Alerts(n) = Alerts(m)
  BY <1>8 DEF Alerts, AtLimit
<1>13. CardInv(n, RowsFor(a))
  <2>1. m.stage \in {"mounted", "joined"} =>
           m.first <= m.prev /\ m.prev <= sum /\ m.alerts = Alerts(m)
    <3>1. m.stage \in {"mounted", "joined"} =>
             m.first <= m.prev /\ m.prev <= m.spent /\ m.alerts = Alerts(m)
      BY <1>1 DEF CardInv
    <3> HIDE DEF m
    <3>2. QED
      BY <1>6, <1>7, <3>1
  <2>2. QED
    BY <1>8, <1>10, <1>11, <1>12, <2>1 DEF CardInv
<1>14. QED
  BY <1>9, <1>13, CardChange

\* The alert is for the crossing: the sum only grows, so that what is at the
\* limit stays there.
LEMMA EffectCards ==
    ASSUME CardsInv, NEW t \in Tabs, NEW a \in Agents, Effect(t, a)
    PROVE  CardsInv'
<1> DEFINE m == cards[t][a]
           more == IF ~AtLimit(m, m.prev) /\ AtLimit(m, m.spent) THEN m.alerts + 1 ELSE m.alerts
           n == [m EXCEPT !.prev = m.spent, !.alerts = more]
<1>1. CardInv(m, RowsFor(a)) /\ m \in CardRow
  BY DEF CardsInv, CardInv
<1>2. m.stage \in {"mounted", "joined"} /\ Monitors(t, a, n)
  BY DEF Effect
<1>3. /\ m.first \in Nat /\ m.prev \in Nat /\ m.spent \in Nat /\ m.alerts \in Nat
      /\ m.cap \in Nat \cup {Absent}
  BY <1>1 DEF CardRow
<1>4. m.first <= m.prev /\ m.prev <= m.spent /\ m.alerts = Alerts(m)
  BY <1>1, <1>2 DEF CardInv
<1>5. /\ AtLimit(m, m.first) => AtLimit(m, m.prev)
      /\ AtLimit(m, m.prev) => AtLimit(m, m.spent)
  <2>1. ASSUME NEW cap \in Nat, NEW x \in Nat, NEW y \in Nat, x <= y, 5 * x >= 4 * cap
        PROVE  5 * y >= 4 * cap
    BY <2>1
  <2> HIDE DEF m
  <2>2. QED
    BY <1>3, <1>4, <2>1 DEF AtLimit
<1>6. more = IF ~AtLimit(m, m.first) /\ AtLimit(m, m.spent) THEN 1 ELSE 0
  BY <1>4, <1>5 DEF Alerts
<1> HIDE DEF more
<1>7. /\ n \in CardRow /\ n.stage = m.stage /\ n.prev = m.spent /\ n.first = m.first
      /\ n.spent = m.spent /\ n.feed = m.feed /\ n.alerts = more /\ n.cap = m.cap
  BY <1>1, <1>6 DEF CardRow
<1> HIDE DEF n
<1>8. n.alerts = Alerts(n)
  BY <1>6, <1>7 DEF Alerts, AtLimit
<1>9. m.first <= m.spent
  BY <1>3, <1>4
<1>10. CardInv(n, RowsFor(a))
  BY <1>1, <1>2, <1>3, <1>7, <1>8, <1>9 DEF CardInv
<1>11. QED
  BY <1>2, <1>10, CardChange

\* The cards of a tab become those of a page that has just been rendered.
LEMMA TabCards ==
    ASSUME CardsInv, NEW t \in Tabs, NEW row, cards' = [cards EXCEPT ![t] = row],
           row \in [Agents -> CardRow], \A a \in Agents : CardInv(row[a], RowsFor(a)),
           overview' \in [Tabs -> OverviewRow], ledger' = ledger
    PROVE  CardsInv'
<1>1. /\ cards' \in [Tabs -> [Agents -> CardRow]]
      /\ \A u \in Tabs, a \in Agents : CardInv(cards'[u][a], RowsFor(a))
  BY DEF CardsInv
<1>2. \A a : RowsFor(a)' = RowsFor(a)
  BY DEF RowsFor
<1>3. QED
  BY <1>1, <1>2 DEF CardsInv

\* The snapshot: rows of the last day, and a limit that is a number if there
\* is one.
LEMMA SummariesInv ==
    ASSUME TypeOK, IsFiniteSet(ledger), NEW a, NEW m \in Summaries(a)
    PROVE  CardInv(m, RowsFor(a))
<1> DEFINE recent == {row \in ledger : row.agent = a /\ row.at + Day >= now}
           sum == Total(recent)
<1>1. RowsFor(a) \in SUBSET LedgerRow /\ IsFiniteSet(RowsFor(a))
  BY RowsForType
<1>2. recent \in SUBSET RowsFor(a)
  BY DEF RowsFor
<1>3. sum \in Nat /\ sum <= Total(RowsFor(a)) /\ Total(RowsFor(a)) \in Nat
  <2> HIDE DEF recent
  <2>1. QED
    BY <1>1, <1>2, TotalMonotone
<1>4. PICK limit \in ExtractDailyLimit(ActiveRules(a)) :
         m = [NoMonitor EXCEPT !.stage = "rendered", !.first = sum, !.spent = sum, !.cap = limit]
  BY DEF Summaries
<1>5. limit \in Nat \cup {Absent}
  BY <1>4, QueryTypes, DailyLimitType
<1> HIDE DEF sum
<1>6. /\ m \in CardRow /\ m.stage = "rendered" /\ m.first = sum /\ m.spent = sum
      /\ m.feed = {} /\ m.alerts = 0
  BY <1>3, <1>4, <1>5 DEF NoMonitor, CardRow
<1>7. m.spent + Total(m.feed) <= Total(RowsFor(a))
  BY <1>3, <1>6, TotalOfNone
<1>8. QED
  BY <1>6, <1>7 DEF CardInv

LEMMA LoadOverviewCards ==
    ASSUME TypeOK, IsFiniteSet(ledger), CardsInv, NEW t \in Tabs, LoadOverview(t)
    PROVE  CardsInv'
<1> DEFINE own == OwnAgents(overview[t].user)
<1>1. overview' \in [Tabs -> OverviewRow] /\ ledger' = ledger
  BY DEF LoadOverview, CardsInv, OverviewRow, vars, tables
<1>2. CASE UNCHANGED cards
  BY <1>1, <1>2 DEF CardsInv, RowsFor
<1>3. CASE \E data \in SpendData(own) :
              cards' = [cards EXCEPT ![t] = [a \in Agents |->
                           IF a \in own THEN data[a] ELSE NoMonitor]]
  <2>1. PICK data \in SpendData(own) :
              cards' = [cards EXCEPT ![t] = [a \in Agents |->
                           IF a \in own THEN data[a] ELSE NoMonitor]]
    BY <1>3
  <2> DEFINE row == [a \in Agents |-> IF a \in own THEN data[a] ELSE NoMonitor]
  <2>2. ASSUME NEW a \in Agents PROVE CardInv(row[a], RowsFor(a))
    <3>1. CardInv(NoMonitor, RowsFor(a)) /\ CardInv(NoData, RowsFor(a))
      BY RowsForType, NoMonitorInv
    <3>2. a \in own => data[a] \in Summaries(a) \/ data[a] = NoData
      <4> HIDE DEF own
      <4>1. QED
        BY <2>1 DEF SpendData
    <3>3. row[a] = IF a \in own THEN data[a] ELSE NoMonitor
      OBVIOUS
    <3> HIDE DEF row, own
    <3>4. QED
      BY <3>1, <3>2, <3>3, SummariesInv
  <2>3. row \in [Agents -> CardRow]
    <3>1. \A a \in Agents : row[a] \in CardRow
      <4> HIDE DEF row
      <4>1. QED
        BY <2>2 DEF CardInv
    <3>2. row = [a \in Agents |-> row[a]]
      OBVIOUS
    <3> HIDE DEF row
    <3>3. QED
      BY <3>1, <3>2
  <2>4. cards' = [cards EXCEPT ![t] = row]
    BY <2>1
  <2> HIDE DEF row
  <2>5. QED
    BY <1>1, <2>2, <2>3, <2>4, TabCards
<1>4. QED
  BY <1>2, <1>3 DEF LoadOverview

LEMMA OverviewCards ==
    ASSUME TypeOK, IsFiniteSet(ledger), CardsInv, SignInInv', NEW t \in Tabs,
           OpensOverview(t), ledger' = ledger
    PROVE  CardsInv'
<1>1. ledger' = ledger /\ cards' = [cards EXCEPT ![t] = NoCards]
  BY DEF OpensOverview
<1>2. session' \in Wallets \cup {Nobody}
  BY DEF SignInInv, SignInType
<1>3. overview' \in [Tabs -> OverviewRow]
  BY <1>2 DEF OpensOverview, NoOverview, CardsInv, OverviewRow
<1>4. \A a \in Agents : NoCards[a] = NoMonitor /\ CardInv(NoMonitor, RowsFor(a))
  BY RowsForType, NoMonitorInv DEF NoCards
<1>5. NoCards \in [Agents -> CardRow]
  BY DEF NoCards, NoMonitor, CardRow
<1>6. QED
  BY <1>1, <1>3, <1>4, <1>5, TabCards

\* The proxy reserves a row, or does something else, while no page changes:
\* the rows that are new are on their way to the monitors that have joined,
\* if the stream carries them.
LEMMA PublishCards ==
    ASSUME TypeOK, TypeOK', IsFiniteSet(ledger), [Next]_vars, CardsInv,
           Publish \/ UNCHANGED cards, overview' = overview
    PROVE  CardsInv'
<1>1. ASSUME NEW t \in Tabs, NEW a \in Agents
      PROVE  CardInv(cards'[t][a], RowsFor(a)')
  <2>1. CardInv(cards[t][a], RowsFor(a))
    BY DEF CardsInv
  <2>2. /\ CardInv(cards[t][a], RowsFor(a)')
        /\ cards[t][a].stage = "joined" =>
              CardInv(Told(cards[t][a], a, ledger' \ ledger), RowsFor(a)')
    BY <2>1, RowsStep
  <2>3. \/ cards'[t][a] = cards[t][a]
        \/ /\ cards[t][a].stage = "joined"
           /\ cards'[t][a] = Told(cards[t][a], a, ledger' \ ledger)
    <3>1. CASE Publish /\ cards[t][a].stage = "joined"
      <4>1. cards'[t][a] = [cards[t][a] EXCEPT
               !.feed = @ \cup {row \in ledger' \ ledger : Feeds(a, row)}]
        BY <3>1 DEF Publish
      <4>2. QED
        BY <3>1, <4>1 DEF Told
    <3>2. CASE Publish /\ cards[t][a].stage # "joined"
      BY <3>2 DEF Publish
    <3>3. QED
      BY <3>1, <3>2
  <2>4. QED
    BY <2>2, <2>3
<1>2. cards' \in [Tabs -> [Agents -> CardRow]]
  <2>1. \A t \in Tabs, a \in Agents : cards'[t][a] \in CardRow
    BY <1>1 DEF CardInv
  <2>2. CASE UNCHANGED cards
    BY <2>2 DEF CardsInv
  <2>3. CASE Publish
    <3>1. cards' = [t \in Tabs |-> [a \in Agents |-> cards'[t][a]]]
      BY <2>3 DEF Publish
    <3>2. QED
      BY <2>1, <3>1
  <2>4. QED
    BY <2>2, <2>3
<1>3. QED
  BY <1>1, <1>2 DEF CardsInv

LEMMA NextCards ==
    ASSUME WebsiteInv, WebsiteInv', TypeOK, TypeOK', IsFiniteSet(ledger), CardsInv,
           [WebsiteNext]_websiteVars
    PROVE  CardsInv'
<1>1. [Next]_vars
  BY ProxyStep
<1>2. CASE UNCHANGED overviewVars
  BY <1>1, <1>2, PublishCards DEF overviewVars
<1>3. ASSUME NEW t \in Tabs, Use(t) \/ SigningIn(t) PROVE CardsInv'
  <2>1. CASE Arrives(t)
    BY <2>1, OverviewCards DEF WebsiteInv, Arrives, vars, tables
  <2>2. QED
    BY <1>2, <1>3, <2>1 DEF Use, SigningIn, Navigate, Leave, Land
<1>4. ASSUME NEW t \in Tabs, Rendering(t) PROVE CardsInv'
  BY <1>2, <1>4, LoadOverviewCards DEF Rendering
<1>5. ASSUME NEW t \in Tabs, Acting(t) \/ Chatting(t) PROVE CardsInv'
  <2>1. CASE OpensOverview(t) /\ Acting(t)
    <3>1. Manage \/ UNCHANGED vars
      BY <2>1, WriteManages DEF Acting, CheckOwner, CallProxy, WebsiteInv, PageInv, ActionInv
    <3>2. ledger' = ledger
      BY <3>1 DEF Manage, ManageAgent, CreateAgent, RevokeAll, CreateRule, UpdateRule,
           DeactivateRule, CreateSessionKey, RevokeSessionKey, vars, tables
    <3>3. QED
      BY <2>1, <3>2, OverviewCards DEF WebsiteInv
  <2>2. QED
    BY <1>2, <1>5, <2>1 DEF Acting, Chatting
<1>6. ASSUME NEW t \in Tabs, Monitoring(t) PROVE CardsInv'
  BY <1>6, MountCards, DeliverCards, EffectCards DEF Monitoring, Monitor
<1>7. CASE Elsewhere
  BY <1>1, <1>7, PublishCards DEF Elsewhere
<1>8. CASE UNCHANGED websiteVars
  BY <1>2, <1>8 DEF websiteVars
<1>9. QED
  BY <1>3, <1>4, <1>5, <1>6, <1>7, <1>8 DEF WebsiteNext

\* The inductive invariant of the monitors.
THEOREM CardsInvCorrect == WebsiteSpec => []CardsInv
<1>1. WebsiteInit => CardsInv
  <2> SUFFICES ASSUME WebsiteInit PROVE CardsInv
    OBVIOUS
  <2>1. \A a : RowsFor(a) = {}
    BY DEF WebsiteInit, Init, RowsFor
  <2>2. CardInv(NoMonitor, {}) /\ NoMonitor \in CardRow
    BY NoMonitorInv, FS_EmptySet DEF CardInv
  <2>3. cards = [t \in Tabs |-> [a \in Agents |-> NoMonitor]]
    BY DEF WebsiteInit, OverviewInit, NoCards
  <2>4. overview \in [Tabs -> OverviewRow]
    BY DEF WebsiteInit, OverviewInit, NoOverview, OverviewRow
  <2>5. QED
    BY <2>1, <2>2, <2>3, <2>4 DEF CardsInv
<1>2. WebsiteSpec => [](TypeOK /\ IsFiniteSet(ledger))
  <2>1. SpendInv => IsFiniteSet(ledger)
    BY DEF SpendInv
  <2>2. QED
    BY <2>1, ProxyUnderneath, TypeCorrect, SpendInvCorrect, PTL
<1>3. /\ WebsiteInv /\ WebsiteInv' /\ CardsInv /\ [WebsiteNext]_websiteVars
      /\ (TypeOK /\ IsFiniteSet(ledger)) /\ (TypeOK /\ IsFiniteSet(ledger))'
      => CardsInv'
  BY NextCards
<1>4. QED
  BY <1>1, <1>2, <1>3, WebsiteInvCorrect, PTL DEF WebsiteSpec

\* A monitor never shows more than its agent has reserved, and raises exactly
\* one alert for a crossing: for any number of tabs, agents and payments, and
\* whichever rows the stream loses.
THEOREM MonitorSoundCorrect == WebsiteSpec => []MonitorSound
<1>1. TypeOK /\ IsFiniteSet(ledger) /\ CardsInv => MonitorSound
  <2>1. ASSUME TypeOK, IsFiniteSet(ledger), CardsInv, NEW t \in Tabs, NEW a \in Agents,
               cards[t][a].stage \in {"mounted", "joined"}
        PROVE  /\ cards[t][a].spent <= Total(RowsFor(a))
               /\ cards[t][a].alerts = Alerts(cards[t][a])
    <3> DEFINE m == cards[t][a]
    <3>1. CardInv(m, RowsFor(a)) /\ m \in CardRow
      BY <2>1 DEF CardsInv, CardInv
    <3>2. /\ m.spent \in Nat /\ m.feed \in SUBSET RowsFor(a)
          /\ m.spent + Total(m.feed) <= Total(RowsFor(a))
      BY <3>1 DEF CardInv, CardRow
    <3>3. Total(m.feed) \in Nat /\ Total(RowsFor(a)) \in Nat
      <4> HIDE DEF m
      <4>1. QED
        BY <2>1, <3>2, RowsForType, TotalMonotone
    <3>4. m.spent <= Total(RowsFor(a))
      <4> HIDE DEF m
      <4>1. QED
        BY <3>2, <3>3
    <3>5. QED
      BY <2>1, <3>1, <3>4 DEF CardInv
  <2>2. QED
    BY <2>1 DEF MonitorSound, RowsFor, Alerts
<1>2. SpendInv => IsFiniteSet(ledger)
  BY DEF SpendInv
<1>3. QED
  BY <1>1, <1>2, CardsInvCorrect, ProxyUnderneath, TypeCorrect, SpendInvCorrect, PTL

\* Everything that the pages keep is of its type, in every tab, whatever the
\* proxy does below.
THEOREM SiteTypeCorrect == WebsiteSpec => []SiteType
<1>1. WebsiteInv /\ CardsInv /\ ChatInv => SiteType
  <2> SUFFICES ASSUME WebsiteInv, CardsInv, ChatInv PROVE SiteType
    OBVIOUS
  <2>1. OverviewType
    BY DEF CardsInv, OverviewType, OverviewRow, CardRow
  <2>2. ChatType
    BY WebsiteAssumption DEF ChatInv, ChatType, ChatRow
  <2>3. QED
    BY <2>1, <2>2 DEF WebsiteInv, SignInInv, PageInv, SiteType
<1>2. QED
  BY <1>1, WebsiteInvCorrect, CardsInvCorrect, ChatInvCorrect, PTL
=============================================================================
