-------------------------------- MODULE SignIn --------------------------------
(***************************************************************************)
(* Sign-in with Ethereum at the dashboard: the hook of the login page      *)
(* (hooks/use-siwe-auth.ts), the routes api/auth/nonce and api/auth/verify, *)
(* the route guard of middleware.ts, and sign-out.  The tabs of one browser *)
(* share its cookies (the nonce and the session) and its wallet, and run    *)
(* the hook at the same time.                                              *)
(***************************************************************************)
EXTENDS Naturals

CONSTANTS
    Wallets, Tabs,
    Nobody,     \* no wallet, and no tab
    MaxNonces   \* bound: nonces issued in one behaviour

ASSUME SignInAssumption == Nobody \notin Wallets \cup Tabs /\ MaxNonces \in Nat

VARIABLES
    account,  \* the account the browser's wallet is at, if it is connected
    cookie,   \* the cookie siwe-nonce; 0 if there is none
    issued,   \* nonces issued so far
    users,    \* users of Supabase, by wallet
    live,     \* wallets that have a session at Supabase
    session,  \* the wallet of the session cookies
    signers,  \* wallets whose account has signed a message of the login page
    form,     \* the hook, in each tab
    place     \* the page each tab is at

nonce == <<cookie, issued>>
supabase == <<users, live>>
signInVars == <<account, nonce, supabase, session, signers, form, place>>

Guarded == {"overview", "agent", "logs"}   \* below /dashboard
Places == Guarded \cup {"login", "home", "demo"}

\* The awaits of the hook; findUser, createUser and newUser are those of the
\* route verify.
Waiting == {"switch", "nonce", "sign", "verify", "findUser", "createUser", "newUser", "session"}
Outcomes == {"none", "wrongNetwork", "cancelled", "noNonce", "notSigned", "userExists", "failed"}

\* address: the account when the button was clicked; signer: the account that
\* signed; sent: the cookie that went with the signature; spoiled: the cookie
\* was changed by something else between the two.
NoForm == [state |-> "idle", address |-> Nobody, nonce |-> 0, sent |-> 0,
           signer |-> Nobody, spoiled |-> FALSE, outcome |-> "none"]

SignInType ==
    /\ account \in Wallets \cup {Nobody}
    /\ cookie \in 0..MaxNonces /\ issued \in 0..MaxNonces
    /\ users \subseteq Wallets /\ live \subseteq users
    /\ session \in Wallets \cup {Nobody} /\ signers \subseteq Wallets
    /\ form \in [Tabs -> [state: Waiting \cup {"idle"}, address: Wallets \cup {Nobody},
                          nonce: 0..MaxNonces, sent: 0..MaxNonces,
                          signer: Wallets \cup {Nobody}, spoiled: BOOLEAN,
                          outcome: Outcomes]]
    /\ place \in [Tabs -> Places]

\* who is signed in from an earlier visit, or is Nobody.
SignInInit(who) ==
    /\ account \in Wallets
    /\ cookie = 0 /\ issued = 0
    /\ session = who /\ users = {who} \cap Wallets /\ live = users /\ signers = users
    /\ form = [t \in Tabs |-> NoForm]
    /\ place = [t \in Tabs |-> "home"]

-----------------------------------------------------------------------------
(* The wallet and the pages. *)

ChangeAccount ==
    /\ \E w \in Wallets \cup {Nobody} : w # account /\ account' = w
    /\ UNCHANGED <<nonce, supabase, session, signers, form, place>>

\* Does getUser find the user of the session cookies?
LoggedIn(who) == who \in live

\* Where middleware.ts sends a tab that asks for a page as who.
Admitted(page, who) ==
    IF page \in Guarded /\ ~LoggedIn(who) THEN "login"
    ELSE IF page = "login" /\ LoggedIn(who) THEN "overview" ELSE page

\* Where a request for a page may end: a getUser that fails finds nobody.
Asked(page, who) == {Admitted(page, who), Admitted(page, Nobody)}

\* Another page is asked for.  The hook goes on when the router of the
\* browser changes the page, and ends when the page is loaded anew.  (Bound:
\* the user does not come back to the login page while the hook runs.)
Visit(t, page) ==
    /\ form[t].state = "idle" \/ page # "login"
    /\ \E p \in Asked(page, session) : place' = [place EXCEPT ![t] = p]
    /\ \/ form' = [form EXCEPT ![t] = NoForm]
       \/ form[t].state # "idle" /\ UNCHANGED form
    /\ UNCHANGED <<account, nonce, supabase, session, signers>>

\* From the menu of the dashboard.  Supabase ends all sessions of the user;
\* when the call fails, or its answer is lost, the browser keeps its cookies,
\* and the error is not looked at.  The wallet is disconnected.
SignOut(t) ==
    /\ place[t] \in Guarded
    /\ \/ live' = live \ {session} /\ session' \in {Nobody, session}
       \/ UNCHANGED <<live, session>>
    /\ account' = Nobody
    /\ place' = [place EXCEPT ![t] = "home"]
    /\ UNCHANGED <<nonce, users, signers, form>>

-----------------------------------------------------------------------------
(* The hook. *)

At(t, state) == form[t].state = state
Shows(t, f) == form' = [form EXCEPT ![t] = f]
Goes(t, state) == Shows(t, [form[t] EXCEPT !.state = state])
Ends(t, outcome) == Shows(t, [form[t] EXCEPT !.state = "idle", !.outcome = outcome])

\* The forms when something else than tab t changes the cookie.
Spoiling(t) == [u \in Tabs |-> IF u # t /\ At(u, "sign")
                               THEN [form[u] EXCEPT !.spoiled = TRUE] ELSE form[u]]

\* The button is there while a wallet is connected, and disabled while the
\* hook runs.  If the wallet is on none of the allowed chains it is asked to
\* switch; the chain that it is on matters to nothing else.
Click(t) ==
    /\ place[t] = "login" /\ At(t, "idle") /\ account # Nobody
    /\ \E state \in {"nonce", "switch"} :
          Shows(t, [NoForm EXCEPT !.state = state, !.address = account])
    /\ UNCHANGED <<account, nonce, supabase, session, signers, place>>

SwitchChain(t) ==
    /\ At(t, "switch")
    /\ Goes(t, "nonce") \/ Ends(t, "wrongNetwork")
    /\ UNCHANGED <<account, nonce, supabase, session, signers, place>>

\* Mutant of FetchNonce: a cookie that is there is kept.
FetchNonceKeeping(t) ==
    /\ At(t, "nonce") /\ issued < MaxNonces
    /\ issued' = issued + 1 /\ cookie' = IF cookie = 0 THEN issued' ELSE cookie
    /\ form' = [form EXCEPT ![t].state = "sign", ![t].nonce = issued']
    /\ UNCHANGED <<account, supabase, session, signers, place>>

\* checkAuthRateLimit refuses a request of either route: the requests of the
\* last minute are not modelled, so it may refuse any.
Limited(t) == Ends(t, "failed")

\* GET api/auth/nonce, whose answer sets the cookie even if its body is then
\* lost.  It may be refused or fail before.
FetchNonce(t) ==
    /\ At(t, "nonce")
    /\ \/ /\ issued < MaxNonces
          /\ issued' = issued + 1 /\ cookie' = issued'
          /\ \/ form' = [Spoiling(t) EXCEPT ![t].state = "sign", ![t].nonce = issued']
             \/ form' = [Spoiling(t) EXCEPT ![t].state = "idle", ![t].outcome = "failed"]
       \/ Limited(t) /\ UNCHANGED nonce
    /\ UNCHANGED <<account, supabase, session, signers, place>>

\* The wallet signs with the account it is at by then, or the user rejects;
\* the signature is posted with the cookie of that moment.
Sign(t) ==
    /\ At(t, "sign")
    /\ \/ /\ account # Nobody
          /\ signers' = signers \cup {account}
          /\ Shows(t, [form[t] EXCEPT !.state = "verify", !.signer = account, !.sent = cookie])
       \/ Ends(t, "cancelled") /\ UNCHANGED signers
    /\ UNCHANGED <<account, nonce, supabase, session, place>>

-----------------------------------------------------------------------------
(* POST api/auth/verify. *)

\* Mutant of Verified: the signature is not compared with the address.
VerifiedByNonce(f) == IF f.sent # f.nonce THEN "noNonce" ELSE "findUser"

\* The cookie, and siweMessage.verify.  The chain of the message is an
\* allowed one: the hook has seen to that.
Verified(f) ==
    IF f.sent # f.nonce THEN "noNonce"
    ELSE IF f.signer # f.address THEN "notSigned" ELSE "findUser"

Verify(t) ==
    /\ At(t, "verify")
    /\ LET next == Verified(form[t])
       IN  IF next = "findUser" THEN Goes(t, next) ELSE Ends(t, next)
    /\ UNCHANGED <<account, nonce, supabase, session, signers, place>>

\* signInWithPassword succeeds.  The answer with the tokens clears the cookie.
Grant(t) ==
    /\ live' = live \cup {form[t].address}
    /\ cookie' = 0
    /\ form' = [Spoiling(t) EXCEPT ![t].state = "session"]
    /\ UNCHANGED <<issued, users>>

\* Mutant of FindUser: the error of signInWithPassword is not looked at.
FindUserUnchecked(t) ==
    /\ At(t, "findUser") /\ Grant(t)
    /\ UNCHANGED <<account, session, signers, place>>

FindUser(t) ==
    /\ At(t, "findUser")
    /\ IF form[t].address \in users THEN Grant(t)
       ELSE Goes(t, "createUser") /\ UNCHANGED <<nonce, supabase>>
    /\ UNCHANGED <<account, session, signers, place>>

\* Another tab may have created the user since, which is an error.
CreateUser(t) ==
    /\ At(t, "createUser")
    /\ IF form[t].address \in users THEN Ends(t, "userExists") /\ UNCHANGED users
       ELSE Goes(t, "newUser") /\ users' = users \cup {form[t].address}
    /\ UNCHANGED <<account, nonce, live, session, signers, place>>

NewUser(t) == At(t, "newUser") /\ Grant(t) /\ UNCHANGED <<account, session, signers, place>>

\* The limiter refuses, the origin or the configuration is wrong, Supabase
\* fails, or the answer is lost (and then the session of it is nobody's).
VerifyFails(t) ==
    /\ \/ At(t, "verify") /\ Limited(t)
       \/ form[t].state \in {"findUser", "createUser", "newUser"} /\ Ends(t, "failed")
    /\ UNCHANGED <<account, nonce, supabase, session, signers, place>>

\* setSession looks the user up and writes the session cookies.  It fails if
\* another tab has signed the user out by then, or for the network; its error
\* is not looked at, and the tab asks for the dashboard either way.
SetSession(t) ==
    /\ At(t, "session")
    /\ \/ LoggedIn(form[t].address) /\ session' = form[t].address
       \/ UNCHANGED session
    /\ \E p \in Asked("overview", session') : place' = [place EXCEPT ![t] = p]
    /\ Shows(t, NoForm)
    /\ UNCHANGED <<account, nonce, supabase, signers>>

\* The cookie is older than five minutes.
NonceExpires ==
    /\ cookie # 0
    /\ cookie' = 0 /\ form' = Spoiling(Nobody)
    /\ UNCHANGED <<account, issued, supabase, session, signers, place>>

Hook(t) ==
    \/ SwitchChain(t) \/ FetchNonce(t) \/ Sign(t)
    \/ Verify(t) \/ FindUser(t) \/ CreateUser(t) \/ NewUser(t) \/ VerifyFails(t)

-----------------------------------------------------------------------------
(* Properties. *)

\* A sign-in that was signed is refused for its nonce only for a reason
\* outside its tab: another tab fetched a nonce or used one up, or the cookie
\* expired, after this tab fetched its own.
FailureExcused == \A t \in Tabs : form[t].outcome = "noNonce" => form[t].spoiled
=============================================================================
