------------------------------- MODULE SignIn -------------------------------
(***************************************************************************)
(* Signing in with a wallet: one browser tab                               *)
(* (packages/web/src/components/wallet), the two tables it leaves its mark *)
(* in (`wallet_auth_challenges`, `wallet_sessions`) and the routes between *)
(* them (server/auth, app/api/auth), together with what a signed-in screen *)
(* then offers and what the server makes of it.                            *)
(*                                                                         *)
(* The browser runs one callback at a time; every fetch is a request that  *)
(* the server handles later and whose answer comes later still, or never.  *)
(* What the screen believes (`session`) and what its next request will     *)
(* prove (`cookie`) are therefore two variables.                           *)
(***************************************************************************)
EXTENDS Naturals

CONSTANTS
  Wallets,     \* accounts of the people who use the site
  Employer,    \* TALI_EMPLOYER_WALLET, and NEXT_PUBLIC_EMPLOYER_WALLET
  Employee,    \* the wallet the salary stream names
  Treasurer,   \* the wallet the event names
  Roster,      \* the wallets of the event's members
  SignIns,     \* times the sign-in button is pressed
  Copies,      \* deliveries of one POST: a browser may send it again
  Deletes,     \* sign-outs in progress at one time
  Resent,      \* bound: the sign-ins this happens to
  MaxSwitches, \* bound on the changes of the connected account
  ShortLived,  \* bound: the sessions whose hour ends while the page is open
  Earlier,     \* the session of an earlier visit
  None

\* A session token is drawn by the request that completes a sign-in.
Tokens == SignIns \X Copies

\* The session a page finds when it is opened was not started by this tab.
Sessions == Tokens \cup {Earlier}

VARIABLES
  \* the wallet extension
  account, ready, switches,
  \* SessionController
  session, status,
  \* the cookie jar of the browser
  cookie,
  \* requests of this tab: the GET on opening, sign-ins, sign-outs
  mount, pc, signer, tries, del_pc, del_session,
  \* (history) the sign-ins that were under way when another began
  rivals,
  \* wallet_auth_challenges, and the POSTs that present them
  consumed, post,
  \* wallet_sessions
  holder, revoked, expired

screen == <<session, status>>
signing == <<pc, signer, tries, rivals>>
deleting == <<del_pc, del_session>>
challenges == <<consumed, post>>
sessions == <<holder, revoked, expired>>
wallet == <<account, ready, switches>>
vars == <<wallet, screen, cookie, mount, signing, deleting,
          challenges, sessions>>

\* findSession: neither revoked nor over.
Live(s) == s # None /\ holder[s] # None /\ s \notin revoked \cup expired

-----------------------------------------------------------------------------
(* What a wallet is shown: viewer-role.ts, nav.ts, wallet-access.ts           *)

\* (A mutation, used nowhere: the event's treasurer is shown the employer's sections.)
RolesWithTreasurer(w) ==
  IF w \in {Employer, Treasurer} THEN {"employer"}
  ELSE {"member"} \cup IF w = Employee THEN {"employee"} ELSE {}

Roles(w) ==
  IF w = Employer THEN {"employer"}
  ELSE {"member"} \cup IF w = Employee THEN {"employee"} ELSE {}

Capabilities ==
  [employer |-> {"approve", "runPayroll", "holdTreasury", "overseeEarnings", "proof"},
   employee |-> {"request", "earn", "proof"},
   member   |-> {"request", "earn", "proof"}]

CapabilitiesOf(w) == UNION {Capabilities[r] : r \in Roles(w)}

NavSections ==
  [requests  |-> {"request"},
   earnings  |-> {"earn", "overseeEarnings"},
   approvals |-> {"approve"},
   payroll   |-> {"runPayroll"},
   treasury  |-> {"holdTreasury"},
   safety    |-> {"proof"}]

\* SectionGuard and AppNav: nobody is kept out before it is known who they are.
VisibleSections(w) ==
  {s \in DOMAIN NavSections : w = None \/ NavSections[s] \cap CapabilitiesOf(w) # {}}

\* What can be done on a section's screen.
SectionOf ==
  [submit |-> "requests", withdraw |-> "earnings", decide |-> "approvals",
   run |-> "payroll", review |-> "treasury", revoke |-> "treasury",
   attack |-> "safety"]

Acts == DOMAIN SectionOf

\* The wallets whose controls are enabled: walletAccess, signedInAccess and
\* eventTreasurerAccess.  The attack has a notice and no lock.
Permitted(w, act) ==
  CASE act \in {"submit", "attack"} -> TRUE
    [] act = "withdraw" -> w = Employee
    [] act \in {"review", "revoke"} -> w = Treasurer
    [] OTHER -> w = Employer

Offered(w, act) == w # None /\ SectionOf[act] \in VisibleSections(w) /\ Permitted(w, act)

\* Whom the route lets act: authorizeEmployerRequest, assertAuthorizedWallet,
\* assertActiveMember.
Authorized(w, act) ==
  CASE act = "submit" -> w \in Roster
    [] act = "withdraw" -> w = Employee
    [] act = "review" -> w = Treasurer
    [] OTHER -> w = Employer

-----------------------------------------------------------------------------
(* Mutations: definitions with one plausible mistake each, used nowhere.      *)

\* create_wallet_session_from_challenge without its check of consumed_at.
ConsumeTwice(t) == TRUE

\* The catch that reports the failure and forgets to give the session up.
OnlyReports == UNCHANGED session

\* The effect without its comparison of the session with the account.
OnlyChanges(was, now, whose) == was # None /\ was # now

-----------------------------------------------------------------------------
(* WalletSessionProvider: a callback, and the effects of the render it causes *)

Connected(w) == IF w = None THEN "disconnected" ELSE "connected"

\* Whose session the screen shows.
Shown == IF session = None THEN None ELSE session.wallet

\* The session is on the screen under the wallet the server named.
Show(s) == session' = [id |-> s, wallet |-> holder[s]] /\ status' = "authenticated"

\* No session on the screen: once the wallet has finished connecting, the second
\* effect replaces whatever status was set -- an error, a refusal, an expiry --
\* by the wallet's own.
SignedOutStatus == IF ready THEN Connected(account) ELSE "disconnected"
GiveUp == session' = None
ShowNone == GiveUp /\ status' = SignedOutStatus

\* deleteWalletSession, sent with the cookie of this moment.
SendDelete(with) ==
  \E d \in Deletes :
    /\ del_pc[d] = "idle" /\ \A e \in 1..d - 1 : del_pc[e] # "idle"
    /\ del_pc' = [del_pc EXCEPT ![d] = "sent"]
    /\ del_session' = [del_session EXCEPT ![d] = with]

\* What the second effect takes for a change of account: the connected account
\* is another than it was, or is not the session's.
AccountChanged(was, now, whose) == (was # None /\ was # now) \/ now # whose

\* The second effect, after a render with session of wallet `whose` and cookie
\* `with`: a session that is not the account's is given up, on the server first.
SettleSession(was, now, whose, with) ==
  IF AccountChanged(was, now, whose) THEN SendDelete(with)
  ELSE UNCHANGED deleting

\* The GET of the first effect.  Until its answer the status is `loading`, in
\* which nothing else is offered.
MountServed ==
  /\ mount = "sent"
  /\ mount' = IF Live(cookie) THEN "found" ELSE "none"
  /\ UNCHANGED <<wallet, screen, cookie, signing, deleting, challenges, sessions>>

MountAnswer ==
  /\ mount \in {"sent", "found", "none"}
  /\ IF mount = "found"
     THEN /\ Show(cookie)
          /\ IF ready THEN SettleSession(account, account, holder[cookie], cookie)
             ELSE UNCHANGED deleting
     ELSE ShowNone /\ UNCHANGED deleting
  /\ mount' = "over"
  /\ UNCHANGED <<wallet, cookie, signing, challenges, sessions>>

\* The third effect's timer, or the same effect finding the time gone.
ScreenExpires ==
  /\ session # None /\ session.id \in expired
  /\ ShowNone
  /\ UNCHANGED <<wallet, cookie, mount, signing, deleting, challenges, sessions>>

\* The button is there for a connected account that is not signed in, and is
\* disabled while signing or loading.
CanSignIn == account # None /\ status \notin {"authenticated", "signing", "loading"}

UnderWay == {i \in SignIns : pc[i] \notin {"idle", "over"}}

SignIn(i) ==
  /\ CanSignIn
  /\ pc[i] = "idle" /\ \A j \in 1..i - 1 : pc[j] # "idle"
  /\ pc' = [pc EXCEPT ![i] = "asked"]
  /\ signer' = [signer EXCEPT ![i] = account]
  /\ rivals' = [rivals EXCEPT ![i] = UnderWay]
  /\ status' = "signing"
  /\ UNCHANGED <<wallet, session, cookie, mount, tries, deleting, challenges, sessions>>

\* The menu with the sign-out is there for a signed-in screen.
SignOut ==
  /\ status = "authenticated" /\ session # None
  /\ SendDelete(cookie)
  /\ UNCHANGED <<wallet, screen, cookie, mount, signing, challenges, sessions>>

\* createWalletSession, with the challenge signed as the account it was asked
\* for, whichever account is connected by now.
Post(i) ==
  /\ pc[i] = "signed"
  /\ pc' = [pc EXCEPT ![i] = "posted"]
  /\ tries' = [tries EXCEPT ![i] = 1]
  /\ post' = [post EXCEPT ![<<i, 1>>] = "sent"]
  /\ UNCHANGED <<wallet, screen, cookie, mount, signer, rivals, deleting, consumed, sessions>>

\* The connection broke before an answer and the same POST goes out again.
SendAgain(i) ==
  /\ pc[i] = "posted" /\ tries[i] + 1 \in Copies
  /\ i \in Resent
  /\ tries' = [tries EXCEPT ![i] = @ + 1]
  /\ post' = [post EXCEPT ![<<i, tries[i] + 1>>] = "sent"]
  /\ UNCHANGED <<wallet, screen, cookie, mount, pc, signer, rivals, deleting, consumed,
                 sessions>>

\* The cookie comes with the headers of the answer, which is when fetch returns ...
HeadersArrive(i) ==
  LET t == <<i, tries[i]>> IN
  /\ pc[i] = "posted" /\ post[t] = "created"
  /\ cookie' = t
  /\ pc' = [pc EXCEPT ![i] = "reading"]
  /\ UNCHANGED <<wallet, screen, mount, signer, tries, rivals, deleting, challenges, sessions>>

\* ... and the session with its body, which responseJson waits for.
SignedIn(i) ==
  /\ pc[i] = "reading"
  /\ Show(<<i, tries[i]>>)
  /\ SettleSession(account, account, signer[i], cookie)
  /\ pc' = [pc EXCEPT ![i] = "over"]
  /\ UNCHANGED <<wallet, cookie, mount, signer, tries, rivals, challenges, sessions>>

\* The wallet refused, the network is the wrong one, the server said no, nothing
\* came back, or nothing that can be read; a cookie that came stays.
SignInFails(i) ==
  /\ pc[i] \in {"asked", "signed", "posted", "reading"}
  /\ ShowNone
  /\ pc' = [pc EXCEPT ![i] = "over"]
  /\ UNCHANGED <<wallet, cookie, mount, signer, tries, rivals, deleting, challenges,
                 sessions>>

-----------------------------------------------------------------------------
(* server/auth/service.ts, server/auth/session.ts *)

\* The row names the wallet it was asked for; so does the message, which the
\* wallet signs when the answer is there.
IssueChallenge(i) ==
  /\ pc[i] = "asked"
  /\ pc' = [pc EXCEPT ![i] = "signed"]
  /\ UNCHANGED <<wallet, screen, cookie, mount, signer, tries, rivals, deleting,
                 challenges, sessions>>

\* getChallenge, the two checks and the verification of the signature.  Any
\* challenge may have run out; the clock is read here only and the database is
\* told this reading, so one that runs out from now on is still good.
JudgeChallenge(t) ==
  /\ post[t] = "sent"
  /\ \/ post' = [post EXCEPT ![t] = "refused"]
     \/ t[1] \notin consumed /\ post' = [post EXCEPT ![t] = "judged"]
  /\ UNCHANGED <<wallet, screen, cookie, mount, signing, deleting, consumed, sessions>>

\* The function's own look at the challenge, under its lock.
Unconsumed(t) == t[1] \notin consumed

ConsumeChallenge(t) ==
  /\ post[t] = "judged"
  /\ IF Unconsumed(t)
     THEN /\ post' = [post EXCEPT ![t] = "created"]
          /\ consumed' = consumed \cup {t[1]}
          /\ holder' = [holder EXCEPT ![t] = signer[t[1]]]
     ELSE post' = [post EXCEPT ![t] = "refused"] /\ UNCHANGED <<consumed, holder>>
  /\ UNCHANGED <<wallet, screen, cookie, mount, signing, deleting, revoked, expired>>

\* revokeWalletSession: a cookie of no session, or of a dead one, changes nothing.
ServeDelete(d) ==
  /\ del_pc[d] = "sent"
  /\ del_pc' = [del_pc EXCEPT ![d] = "served"]
  /\ revoked' = revoked \cup {s \in {del_session[d]} : Live(s)}
  /\ UNCHANGED <<wallet, screen, cookie, mount, signing, del_session, challenges, holder, expired>>

\* The 204 takes the cookie with it; a refusal or no answer at all does not.
DeleteAnswered(d) ==
  /\ del_pc[d] \in {"sent", "served"}
  /\ \/ del_pc[d] = "served" /\ cookie' = None
     \/ UNCHANGED cookie
  /\ del_pc' = [del_pc EXCEPT ![d] = "idle"]
  /\ del_session' = [del_session EXCEPT ![d] = None]
  /\ ShowNone
  /\ UNCHANGED <<wallet, mount, signing, challenges, sessions>>

-----------------------------------------------------------------------------
(* The wallet extension, and the clock *)

SwitchAccount(w) ==
  /\ ready => w # account
  /\ switches < MaxSwitches
  /\ account' = w /\ ready' = TRUE /\ switches' = switches + 1
  /\ IF session = None
     THEN /\ UNCHANGED deleting
          /\ status' = IF status \in {"loading", "signing"} THEN status ELSE Connected(w)
     ELSE SettleSession(account, w, Shown, cookie) /\ UNCHANGED status
  /\ UNCHANGED <<session, cookie, mount, signing, challenges, sessions>>

SessionExpires(s) ==
  /\ Live(s)
  /\ expired' = expired \cup {s}
  /\ UNCHANGED <<wallet, screen, cookie, mount, signing, deleting, challenges, holder, revoked>>

-----------------------------------------------------------------------------
\* A page that has just been opened, with or without a session from before.
Init ==
  /\ account = None /\ ready = FALSE /\ switches = 0
  /\ session = None /\ status = "loading"
  /\ \E w \in Wallets \cup {None} :
       /\ cookie = IF w = None THEN None ELSE Earlier
       /\ holder = [s \in Sessions |-> IF s = Earlier THEN w ELSE None]
  /\ mount = "sent"
  /\ pc = [i \in SignIns |-> "idle"]
  /\ signer = [i \in SignIns |-> None]
  /\ tries = [i \in SignIns |-> 0]
  /\ rivals = [i \in SignIns |-> {}]
  /\ del_pc = [d \in Deletes |-> "idle"]
  /\ del_session = [d \in Deletes |-> None]
  /\ consumed = {}
  /\ post = [t \in Tokens |-> "unsent"]
  /\ revoked = {} /\ expired = {}

Tab ==
  \/ MountAnswer \/ ScreenExpires \/ SignOut
  \/ \E i \in SignIns :
       \/ SignIn(i) \/ Post(i) \/ SendAgain(i)
       \/ HeadersArrive(i) \/ SignedIn(i) \/ SignInFails(i)
  \/ \E d \in Deletes : DeleteAnswered(d)

Server ==
  \/ MountServed
  \/ \E i \in SignIns : IssueChallenge(i)
  \/ \E t \in Tokens : JudgeChallenge(t) \/ ConsumeChallenge(t)
  \/ \E d \in Deletes : ServeDelete(d)

World ==
  \/ \E w \in Wallets \cup {None} : SwitchAccount(w)
  \/ \E s \in ShortLived : SessionExpires(s)

Next == Tab \/ Server \/ World

Spec == Init /\ [][Next]_vars

-----------------------------------------------------------------------------
(* Properties *)

\* A challenge yields one session at most, and it belongs to the wallet the
\* challenge was issued to, however often it is presented.
OneSessionPerChallenge ==
  \A i \in SignIns :
    LET made == {k \in Copies : holder[<<i, k>>] # None} IN
    /\ \A k, l \in made : k = l
    /\ \A k \in made : holder[<<i, k>>] = signer[i]

\* What the next request of a signed-in screen proves: resolveWalletIdentity.
Actor == IF Live(cookie) THEN holder[cookie] ELSE None

Overlapped(i, j) == i \in rivals[j] \/ j \in rivals[i]

\* The cookie and the screen come of two sign-ins that were under way together.
Crossed ==
  \E i, j \in SignIns :
    /\ cookie \in {i} \X Copies /\ session.id \in {j} \X Copies
    /\ Overlapped(i, j)

\* What a person does on a signed-in screen is done in the name the screen shows
\* or not at all, whatever sign-outs, switches and late answers come between --
\* but where two sign-ins were under way together: only then can the cookie be
\* the one's and the screen the other's.
ActsAsShown == session # None /\ Actor \notin {Shown, None} => Crossed

\* A request that comes of a control on the screen and is answered 403 is an
\* attack, which is there to be refused, a submission by somebody the event has
\* not on its roster, or one of a screen whose sign-in crossed another.
OfferedIsNotForbidden ==
  \A act \in Acts :
    Offered(Shown, act) /\ Actor # None /\ ~Authorized(Actor, act) =>
      act = "attack" \/ (act = "submit" /\ Actor \notin Roster) \/ Crossed

\* A screen that shows the session of an account which is not the connected one
\* has a sign-out under way: no order of connections, answers and failures leaves
\* somebody on another person's screen with nothing coming to end it.
ScreenFollowsWallet ==
  session # None /\ ready /\ account # Shown => \E d \in Deletes : del_pc[d] # "idle"
=============================================================================
