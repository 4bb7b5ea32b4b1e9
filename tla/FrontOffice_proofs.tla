------------------------- MODULE FrontOffice_proofs -------------------------
(***************************************************************************)
(* What SignIn promises for any number of accounts, sign-ins, repeated     *)
(* deliveries, sign-outs and changes of account, in the specification the  *)
(* run checks.  (ClaimIntake has a proof module of its own.)               *)
(*                                                                         *)
(* The screen and the cookie are two variables that requests in flight     *)
(* change, the cookie first and the screen when the answer has been read.  *)
(* The invariant says that the cookie accords with the screen and with     *)
(* every answer that is being read: it is none, the same session's, or     *)
(* that of a sign-in which overlapped; and that a session which a cookie   *)
(* can name was made from its challenge and is not made again.             *)
(***************************************************************************)
EXTENDS FrontOffice, TLAPS

\* FrontOfficeAssumption, in SignIn's words.
LEMMA Apart ==
  /\ Earlier \notin SI!Tokens /\ None \notin SI!Sessions
  /\ Copies \subseteq Nat /\ 1 \in Copies
  BY FrontOfficeAssumption DEF SI!Tokens, SI!Sessions

Typed ==
  /\ account \in Wallets \cup {None} /\ cookie \in SI!Sessions \cup {None}
  /\ si_pc \in [SignIns -> {"idle", "asked", "signed", "posted", "reading", "over"}]
  /\ rivals \in [SignIns -> SUBSET SignIns]
  /\ signer \in [SignIns -> Wallets \cup {None}]
  /\ tries \in [SignIns -> Nat]
  /\ del_pc \in [Deletes -> {"idle", "sent", "served"}]
  /\ consumed \subseteq SignIns
  /\ post \in [SI!Tokens -> {"unsent", "sent", "judged", "created", "refused"}]
  /\ holder \in [SI!Sessions -> Wallets \cup {None}]

\* A delivery belongs to a sign-in that was posted, and copies are counted.
PostsSound ==
  \A i \in SignIns :
    /\ si_pc[i] \in {"posted", "reading"} => tries[i] \in Copies
    /\ si_pc[i] = "reading" => post[<<i, tries[i]>>] = "created"
    /\ \A k \in Copies :
         post[<<i, k>>] # "unsent" =>
           si_pc[i] \in {"posted", "reading", "over"} /\ k <= tries[i]

\* A session was made by a delivery that used its challenge up.
SessionsSound ==
  \A i \in SignIns, k \in Copies :
    /\ holder[<<i, k>>] # None => post[<<i, k>>] = "created"
    /\ post[<<i, k>>] = "created" =>
         /\ i \in consumed /\ holder[<<i, k>>] = signer[i]
         /\ \A l \in Copies : post[<<i, l>>] = "created" => l = k

CookieSound == cookie \in SI!Tokens => post[cookie] = "created"

\* The cookie c goes with the session s: it is gone, it is that session's, or it
\* is that of a sign-in which overlapped with the session's, R being the rivals.
Accords(c, s, R) ==
  \/ c = None \/ c = s
  \/ \E i, j \in SignIns :
       /\ c \in {i} \X Copies /\ s \in {j} \X Copies
       /\ i \in R[j] \/ j \in R[i]

\* The screen shows a session that was made, under its wallet.
ScreenSound ==
  session # None =>
    /\ session.id \in SI!Sessions /\ session.wallet = holder[session.id]
    /\ session.id \in SI!Tokens => post[session.id] = "created"
    /\ status = "authenticated"

\* A sign-in under way overlaps with every other and with the one on the screen.
RivalsSound ==
  /\ \A i \in SignIns : si_pc[i] = "idle" => rivals[i] = {}
  /\ \A i, j \in SI!UnderWay : i # j => SI!Overlapped(i, j)
  /\ session # None =>
       \A j \in SI!UnderWay :
         \E i \in SignIns : session.id \in {i} \X Copies /\ SI!Overlapped(i, j)

\* The cookie goes with the screen, and with every answer whose body is awaited.
CookieAccords ==
  /\ session # None => Accords(cookie, session.id, rivals)
  /\ \A i \in SignIns : si_pc[i] = "reading" => Accords(cookie, <<i, tries[i]>>, rivals)

\* Until the page knows whether it has a session, nothing else is going on.
MountSound ==
  /\ mount # "over" =>
       /\ session = None /\ status = "loading"
       /\ \A i \in SignIns : si_pc[i] = "idle"
       /\ \A d \in Deletes : del_pc[d] = "idle"
  /\ mount = "found" => cookie \in SI!Sessions

SignInInv ==
  /\ Typed /\ PostsSound /\ SessionsSound /\ CookieSound
  /\ ScreenSound /\ RivalsSound /\ CookieAccords /\ MountSound /\ SI!ScreenFollowsWallet

-----------------------------------------------------------------------------
(* Small facts *)

LEMMA TokensAre ==
  /\ \A i \in SignIns, k \in Copies : <<i, k>> \in SI!Tokens
  /\ \A t \in SI!Tokens : t[1] \in SignIns /\ t[2] \in Copies /\ t = <<t[1], t[2]>>
  /\ SI!Tokens \subseteq SI!Sessions /\ Earlier \in SI!Sessions
  BY DEF SI!Tokens, SI!Sessions

\* A delivery that made a session was a copy of one that was sent out.
LEMMA CreatedIsAToken ==
  ASSUME SessionsSound, NEW i \in SignIns, NEW k \in Copies, post[<<i, k>>] = "created"
  PROVE  <<i, k>> \in SI!Tokens /\ <<i, k>> \in SI!Sessions /\ holder[<<i, k>>] = signer[i]
  BY TokensAre DEF SessionsSound

\* A session that is given up on the server leaves a sign-out under way.
LEMMA SendDeleteIsUnderWay ==
  ASSUME Typed, NEW via, SI!SendDelete(via)
  PROVE  /\ del_pc' \in [Deletes -> {"idle", "sent", "served"}]
         /\ \E d \in Deletes : del_pc'[d] # "idle"
<1>1. PICK d \in Deletes : del_pc' = [del_pc EXCEPT ![d] = "sent"]
  BY DEF SI!SendDelete
<1>2. del_pc'[d] = "sent"
  BY <1>1 DEF Typed
<1> QED BY <1>1, <1>2 DEF Typed

LEMMA SettledOrUnderWay ==
  ASSUME Typed, NEW was, NEW now, NEW whose, NEW via,
         SI!SettleSession(was, now, whose, via)
  PROVE  /\ del_pc' \in [Deletes -> {"idle", "sent", "served"}]
         /\ now = whose \/ \E d \in Deletes : del_pc'[d] # "idle"
<1>1. CASE SI!AccountChanged(was, now, whose)
  BY <1>1, SendDeleteIsUnderWay DEF SI!SettleSession
<1>2. CASE ~SI!AccountChanged(was, now, whose)
  BY <1>2 DEF SI!SettleSession, SI!AccountChanged, SI!deleting, Typed
<1> QED BY <1>1, <1>2

\* What concerns the server's tables only is kept by a step that leaves them,
\* and the sign-ins' state, alone.
LEMMA TablesFrame ==
  ASSUME PostsSound, SessionsSound, UNCHANGED <<si_pc, signer, tries, consumed, post, holder>>
  PROVE  PostsSound' /\ SessionsSound'
  BY DEF PostsSound, SessionsSound

\* Deliveries come and go, but no session is made.
LEMMA NoneCreated ==
  ASSUME SessionsSound, UNCHANGED <<holder, consumed>>,
         \A t \in SI!Tokens : post'[t] = "created" <=> post[t] = "created",
         \A i \in SignIns, k \in Copies : post[<<i, k>>] = "created" => signer'[i] = signer[i]
  PROVE  SessionsSound'
<1> SUFFICES ASSUME NEW i \in SignIns, NEW k \in Copies
             PROVE  /\ holder[<<i, k>>] # None => post'[<<i, k>>] = "created"
                    /\ post'[<<i, k>>] = "created" =>
                         /\ i \in consumed /\ holder[<<i, k>>] = signer'[i]
                         /\ \A l \in Copies : post'[<<i, l>>] = "created" => l = k
  BY DEF SessionsSound
<1>1. \A l \in Copies : post'[<<i, l>>] = "created" <=> post[<<i, l>>] = "created"
  BY TokensAre
<1>2. /\ holder[<<i, k>>] # None => post[<<i, k>>] = "created"
      /\ post[<<i, k>>] = "created" =>
           /\ i \in consumed /\ holder[<<i, k>>] = signer[i]
           /\ \A l \in Copies : post[<<i, l>>] = "created" => l = k
  BY DEF SessionsSound
<1> QED BY <1>1, <1>2

\* The screen is kept by a step that leaves it and the sessions alone.
LEMMA ScreenFrame ==
  ASSUME CookieSound, ScreenSound, UNCHANGED <<session, cookie, post, holder>>,
         session # None => status' = status
  PROVE  CookieSound' /\ ScreenSound'
  BY DEF CookieSound, ScreenSound

\* No sign-in begins, and nobody's answer arrives.
LEMMA RivalsFrame ==
  ASSUME RivalsSound, CookieAccords, UNCHANGED rivals,
         session' \in {session, None}, cookie' \in {cookie, None},
         \A i \in SignIns :
           /\ si_pc'[i] = "idle" => si_pc[i] = "idle"
           /\ si_pc'[i] # "over" => si_pc[i] # "over"
           /\ si_pc[i] = "idle" => si_pc'[i] = "idle"
           /\ si_pc'[i] = "reading" => si_pc[i] = "reading" /\ tries'[i] = tries[i]
  PROVE  RivalsSound' /\ CookieAccords'
<1>1. \A i \in SI!UnderWay' : i \in SI!UnderWay
  BY DEF SI!UnderWay
<1>2. \A i, j : SI!Overlapped(i, j)' <=> SI!Overlapped(i, j)
  BY DEF SI!Overlapped
<1>3. RivalsSound'
  <2>1. \A i \in SignIns : si_pc'[i] = "idle" => rivals'[i] = {}
    BY DEF RivalsSound
  <2>2. \A i, j \in SI!UnderWay' : i # j => SI!Overlapped(i, j)'
    BY <1>1, <1>2 DEF RivalsSound
  <2>3. session' # None =>
          \A j \in SI!UnderWay' :
            \E i \in SignIns : session'.id \in {i} \X Copies /\ SI!Overlapped(i, j)'
    BY <1>1, <1>2 DEF RivalsSound
  <2> QED BY <2>1, <2>2, <2>3 DEF RivalsSound
<1>4. \A s : Accords(cookie, s, rivals) => Accords(cookie', s, rivals')
  BY DEF Accords
<1>5. CookieAccords'
  BY <1>4 DEF CookieAccords
<1> QED BY <1>3, <1>5

\* Two sign-ins of which one is the other's rival.
LEMMA OverlapAccords ==
  ASSUME NEW i \in SignIns, NEW j \in SignIns, NEW c \in {i} \X Copies,
         NEW s \in {j} \X Copies, SI!Overlapped(i, j)
  PROVE  Accords(c, s, rivals)
  BY DEF SI!Overlapped, Accords

\* The wallet of the screen and the sign-outs are left alone.
LEMMA FollowsFrame ==
  ASSUME SI!ScreenFollowsWallet, UNCHANGED <<account, ready, session, del_pc>>
  PROVE  SI!ScreenFollowsWallet'
  BY DEF SI!ScreenFollowsWallet, SI!Shown

LEMMA NoScreenFollows ==
  ASSUME session' = None
  PROVE  ScreenSound' /\ SI!ScreenFollowsWallet'
  BY DEF ScreenSound, SI!ScreenFollowsWallet

-----------------------------------------------------------------------------
(* The start *)

LEMMA InitIInv ==
  ASSUME SI!Init PROVE SignInInv
<1>1. Typed
  BY TokensAre DEF SI!Init, Typed
<1>2. \A t \in SI!Tokens : post[t] = "unsent"
  BY DEF SI!Init
<1>3. PostsSound
  <2>1. \A i \in SignIns : si_pc[i] = "idle"
    BY DEF SI!Init
  <2> QED BY <1>2, <2>1, TokensAre DEF PostsSound
<1>4. CookieSound /\ ScreenSound /\ MountSound /\ SI!ScreenFollowsWallet
  <2>1. cookie \notin SI!Tokens
    BY TokensAre, Apart DEF SI!Init
  <2> QED BY <2>1 DEF SI!Init, CookieSound, ScreenSound, MountSound, SI!ScreenFollowsWallet
<1>5. SessionsSound
  <2> SUFFICES ASSUME NEW i \in SignIns, NEW k \in Copies
               PROVE  holder[<<i, k>>] = None /\ post[<<i, k>>] = "unsent"
    BY DEF SessionsSound
  <2>1. <<i, k>> \in SI!Tokens /\ <<i, k>> \in SI!Sessions /\ <<i, k>> # Earlier
    BY TokensAre, Apart
  <2> QED BY <1>2, <2>1 DEF SI!Init
<1>6. RivalsSound /\ CookieAccords
  BY DEF SI!Init, RivalsSound, CookieAccords, SI!UnderWay
<1> QED BY <1>1, <1>3, <1>4, <1>5, <1>6 DEF SignInInv

-----------------------------------------------------------------------------
(* The tab *)

LEMMA MountKeeps == ASSUME SignInInv, SI!MountServed \/ SI!MountAnswer PROVE SignInInv'
<1> USE DEF SignInInv
<1>1. CASE SI!MountServed
  <2>1. Typed'
    BY <1>1 DEF SI!MountServed, Typed, SI!wallet, SI!screen, SI!signing, SI!deleting,
                SI!challenges, SI!sessions
  <2>2. PostsSound' /\ SessionsSound' /\ CookieSound' /\ ScreenSound' /\ SI!ScreenFollowsWallet'
    BY <1>1, TablesFrame, ScreenFrame, FollowsFrame
       DEF SI!MountServed, SI!wallet, SI!screen, SI!signing, SI!deleting, SI!challenges, SI!sessions
  <2>3. MountSound'
    BY <1>1 DEF SI!MountServed, MountSound, SI!Live, Typed, SI!screen, SI!signing, SI!deleting
  <2>4. RivalsSound' /\ CookieAccords'
    BY <1>1, RivalsFrame DEF SI!MountServed, SI!screen, SI!signing
  <2> QED BY <2>1, <2>2, <2>3, <2>4
<1>2. CASE SI!MountAnswer
  <2>1. PostsSound' /\ SessionsSound'
    BY <1>2, TablesFrame DEF SI!MountAnswer, SI!signing, SI!challenges, SI!sessions
  <2>2. CookieSound' /\ MountSound'
    BY <1>2 DEF SI!MountAnswer, CookieSound, MountSound, SI!challenges
  <2>3. /\ UNCHANGED <<SI!wallet, cookie, SI!signing, SI!challenges, SI!sessions>>
        /\ \/ /\ cookie \in SI!Sessions /\ SI!Show(cookie)
              /\ IF ready THEN SI!SettleSession(account, account, holder[cookie], cookie)
                 ELSE UNCHANGED SI!deleting
           \/ session' = None /\ UNCHANGED SI!deleting
    BY <1>2 DEF SI!MountAnswer, MountSound, SI!ShowNone, SI!GiveUp
  <2>4. del_pc' \in [Deletes -> {"idle", "sent", "served"}]
        /\ (session' # None /\ ready' /\ account' # holder[cookie] =>
              \E d \in Deletes : del_pc'[d] # "idle")
    BY <2>3, SettledOrUnderWay DEF Typed, SI!deleting, SI!wallet
  <2>5. Typed'
    BY <2>3, <2>4 DEF Typed, SI!wallet, SI!signing, SI!challenges, SI!sessions
  <2>6. ScreenSound' /\ SI!ScreenFollowsWallet'
    <3>1. CASE session' = None
      BY <3>1, NoScreenFollows
    <3>2. CASE session' # None
      <4>1. cookie \in SI!Sessions /\ session' = [id |-> cookie, wallet |-> holder[cookie]]
            /\ cookie' = cookie /\ holder' = holder
        BY <2>3, <3>2 DEF SI!Show, SI!sessions
      <4>2. SI!Shown' = holder[cookie]
        BY <3>2, <4>1 DEF SI!Shown
      <4>3. status' = "authenticated" /\ post' = post
        BY <2>3, <3>2 DEF SI!Show, SI!challenges
      <4> QED BY <2>4, <3>2, <4>1, <4>2, <4>3 DEF ScreenSound, CookieSound,
                                                  SI!ScreenFollowsWallet
    <3> QED BY <3>1, <3>2
  <2>7. RivalsSound' /\ CookieAccords'
    <3>1. \A i \in SignIns : si_pc'[i] = "idle" /\ rivals'[i] = rivals[i]
      BY <1>2, <2>3 DEF SI!MountAnswer, MountSound, SI!signing
    <3>2. SI!UnderWay' = {}
      BY <3>1 DEF SI!UnderWay
    <3>3. session' # None => session'.id = cookie'
      BY <2>3 DEF SI!Show
    <3>4. RivalsSound'
      BY <3>1, <3>2, <1>2 DEF RivalsSound, SI!MountAnswer, MountSound
    <3>5. CookieAccords'
      BY <3>1, <3>3 DEF CookieAccords, Accords
    <3> QED BY <3>4, <3>5
  <2> QED BY <2>1, <2>2, <2>5, <2>6, <2>7
<1> QED BY <1>1, <1>2

LEMMA ScreenExpiresKeeps == ASSUME SignInInv, SI!ScreenExpires PROVE SignInInv'
<1> USE DEF SignInInv
<1>1. session' = None /\ session # None
      /\ UNCHANGED <<SI!wallet, cookie, mount, SI!signing, SI!deleting, SI!challenges, SI!sessions>>
  BY DEF SI!ScreenExpires, SI!ShowNone, SI!GiveUp
<1>2. Typed'
  BY <1>1 DEF Typed, SI!wallet, SI!signing, SI!deleting, SI!challenges, SI!sessions
<1>3. PostsSound' /\ SessionsSound' /\ CookieSound'
  BY <1>1, TablesFrame DEF CookieSound, SI!signing, SI!challenges, SI!sessions
<1>4. MountSound'
  BY <1>1 DEF MountSound
<1>5. RivalsSound' /\ CookieAccords'
  BY <1>1, RivalsFrame DEF SI!signing
<1> QED BY <1>1, <1>2, <1>3, <1>4, <1>5, NoScreenFollows

LEMMA SignInKeeps ==
  ASSUME SignInInv, NEW i \in SignIns, SI!SignIn(i) PROVE SignInInv'
<1> USE DEF SignInInv
<1>1. /\ si_pc[i] = "idle" /\ status \notin {"loading", "authenticated"}
      /\ si_pc' = [si_pc EXCEPT ![i] = "asked"] /\ signer' = [signer EXCEPT ![i] = account]
      /\ rivals' = [rivals EXCEPT ![i] = SI!UnderWay]
      /\ UNCHANGED <<SI!wallet, session, cookie, mount, tries, SI!deleting, SI!challenges,
                     SI!sessions>>
  BY DEF SI!SignIn, SI!CanSignIn
<1>0. session = None
  BY <1>1 DEF ScreenSound
<1>2. Typed'
  <2>1. SI!UnderWay \in SUBSET SignIns
    BY DEF SI!UnderWay
  <2> QED BY <1>1, <2>1 DEF Typed, SI!wallet, SI!deleting, SI!challenges, SI!sessions
<1>3. \A k \in Copies : post[<<i, k>>] = "unsent"
  BY <1>1 DEF PostsSound
<1>4. PostsSound'
  BY <1>1, <1>3 DEF PostsSound, Typed, SI!challenges
<1>5. SessionsSound'
  <2>1. UNCHANGED <<post, holder, consumed>>
    BY <1>1 DEF SI!challenges, SI!sessions
  <2>2. \A j \in SignIns, k \in Copies : post[<<j, k>>] = "created" => signer'[j] = signer[j]
    BY <1>1, <1>3 DEF Typed
  <2> QED BY <2>1, <2>2, NoneCreated
<1>6. CookieSound' /\ ScreenSound' /\ SI!ScreenFollowsWallet'
  BY <1>0, <1>1, ScreenFrame, FollowsFrame
     DEF SI!wallet, SI!deleting, SI!challenges, SI!sessions
<1>7. MountSound'
  BY <1>1 DEF MountSound
<1>8. RivalsSound' /\ CookieAccords'
  <2>1. /\ rivals[i] = {} /\ rivals'[i] = SI!UnderWay
        /\ \A j \in SignIns : j # i => rivals'[j] = rivals[j] /\ si_pc'[j] = si_pc[j]
        /\ si_pc'[i] = "asked"
    BY <1>1 DEF RivalsSound, Typed
  <2>2. SI!UnderWay' = SI!UnderWay \cup {i} /\ i \notin SI!UnderWay
    BY <1>1, <2>1 DEF SI!UnderWay
  <2>3. \A j, k \in SignIns : SI!Overlapped(j, k) => SI!Overlapped(j, k)'
    BY <2>1 DEF SI!Overlapped
  <2>4. ASSUME NEW j \in SI!UnderWay', NEW k \in SI!UnderWay', j # k
        PROVE  SI!Overlapped(j, k)'
    <3>1. j \in SignIns /\ k \in SignIns
      BY DEF SI!UnderWay
    <3>2. CASE j = i \/ k = i
      BY <2>1, <2>2, <2>4, <3>2 DEF SI!Overlapped
    <3>3. CASE j # i /\ k # i
      BY <2>2, <2>3, <2>4, <3>1, <3>3 DEF RivalsSound
    <3> QED BY <3>2, <3>3
  <2>5. RivalsSound'
    BY <1>0, <1>1, <2>1, <2>4 DEF RivalsSound
  <2>6. \A s : Accords(cookie, s, rivals) => Accords(cookie', s, rivals')
    BY <1>1, <2>1 DEF Accords
  <2>7. CookieAccords'
    BY <1>0, <1>1, <2>1, <2>6 DEF CookieAccords
  <2> QED BY <2>5, <2>7
<1> QED BY <1>2, <1>4, <1>5, <1>6, <1>7, <1>8

LEMMA SignOutKeeps == ASSUME SignInInv, SI!SignOut PROVE SignInInv'
<1> USE DEF SignInInv
<1>1. session # None /\ SI!SendDelete(cookie)
      /\ UNCHANGED <<SI!wallet, SI!screen, cookie, mount, SI!signing, SI!challenges, SI!sessions>>
  BY DEF SI!SignOut
<1>2. del_pc' \in [Deletes -> {"idle", "sent", "served"}]
      /\ \E d \in Deletes : del_pc'[d] # "idle"
  BY <1>1, SendDeleteIsUnderWay
<1>3. Typed'
  BY <1>1, <1>2 DEF Typed, SI!wallet, SI!signing, SI!challenges, SI!sessions
<1>4. PostsSound' /\ SessionsSound' /\ CookieSound' /\ ScreenSound'
  BY <1>1, TablesFrame, ScreenFrame DEF SI!screen, SI!signing, SI!challenges, SI!sessions
<1>5. MountSound' /\ SI!ScreenFollowsWallet'
  BY <1>1, <1>2 DEF MountSound, SI!ScreenFollowsWallet
<1>6. RivalsSound' /\ CookieAccords'
  BY <1>1, RivalsFrame DEF SI!screen, SI!signing
<1> QED BY <1>3, <1>4, <1>5, <1>6

\* A delivery goes out: its copy was not out before, and the sign-in is posted.
LEMMA DeliveryKeeps ==
  ASSUME SignInInv, NEW i \in SignIns, NEW k \in Copies,
         si_pc[i] \in {"signed", "posted"}, si_pc'[i] = "posted",
         \A j \in SignIns : j # i => si_pc'[j] = si_pc[j] /\ tries'[j] = tries[j],
         tries'[i] = k, \A l \in Copies : post[<<i, l>>] # "unsent" => l < k,
         post' = [post EXCEPT ![<<i, k>>] = "sent"],
         UNCHANGED <<SI!wallet, SI!screen, cookie, mount, signer, rivals, SI!deleting, consumed,
                     SI!sessions>>,
         Typed'
  PROVE  SignInInv'
<1> USE DEF SignInInv
<1>1. \A t \in SI!Tokens : t # <<i, k>> => post'[t] = post[t]
  BY DEF Typed
<1>2. post[<<i, k>>] = "unsent" /\ post'[<<i, k>>] = "sent" /\ k \in Nat
  BY TokensAre, Apart DEF Typed
<1>3. PostsSound'
  <2>0. \A j \in SignIns :
          /\ si_pc'[j] \in {"posted", "reading"} => tries'[j] \in Copies
          /\ si_pc'[j] = "reading" => post'[<<j, tries'[j]>>] = "created"
    <3> SUFFICES ASSUME NEW j \in SignIns, j # i, si_pc'[j] \in {"posted", "reading"}
                 PROVE  /\ tries'[j] \in Copies
                        /\ si_pc'[j] = "reading" => post'[<<j, tries'[j]>>] = "created"
      OBVIOUS
    <3>1. tries[j] \in Copies /\ tries'[j] = tries[j] /\ si_pc'[j] = si_pc[j]
      BY DEF PostsSound
    <3>2. <<j, tries[j]>> \in SI!Tokens /\ <<j, tries[j]>> # <<i, k>>
      BY <3>1, TokensAre
    <3> QED BY <1>1, <3>1, <3>2 DEF PostsSound
  <2> SUFFICES ASSUME NEW j \in SignIns, NEW l \in Copies, post'[<<j, l>>] # "unsent"
               PROVE  si_pc'[j] \in {"posted", "reading", "over"} /\ l <= tries'[j]
    BY <2>0 DEF PostsSound
  <2>1. CASE j = i
    <3>1. l = k \/ post[<<i, l>>] # "unsent"
      BY <1>1, <2>1, TokensAre
    <3>2. l \in Nat
      BY Apart
    <3> QED BY <1>2, <2>1, <3>1, <3>2
  <2>2. CASE j # i
    <3>1. post[<<j, l>>] # "unsent"
      BY <1>1, <2>2, TokensAre
    <3> QED BY <2>2, <3>1 DEF PostsSound
  <2> QED BY <2>1, <2>2
<1>4. \A t \in SI!Tokens : post'[t] = "created" <=> post[t] = "created"
  <2> SUFFICES ASSUME NEW t \in SI!Tokens PROVE post'[t] = "created" <=> post[t] = "created"
    OBVIOUS
  <2>1. CASE t = <<i, k>>
    BY <1>2, <2>1
  <2> QED BY <1>1, <2>1
<1>5. SessionsSound'
  <2>1. UNCHANGED <<holder, consumed, signer>>
    BY DEF SI!sessions
  <2> QED BY <1>4, <2>1, NoneCreated
<1>6. CookieSound' /\ ScreenSound'
  BY <1>4 DEF CookieSound, ScreenSound, SI!screen, SI!sessions
<1>7. SI!ScreenFollowsWallet'
  BY FollowsFrame DEF SI!wallet, SI!screen, SI!deleting
<1>8. MountSound'
  BY DEF MountSound
<1>9. RivalsSound' /\ CookieAccords'
  BY RivalsFrame DEF SI!screen
<1> QED BY <1>3, <1>5, <1>6, <1>7, <1>8, <1>9

LEMMA PostKeeps ==
  ASSUME SignInInv, NEW i \in SignIns, SI!Post(i) \/ SI!SendAgain(i) PROVE SignInInv'
<1>1. CASE SI!Post(i)
  <2>1. /\ si_pc[i] = "signed" /\ si_pc' = [si_pc EXCEPT ![i] = "posted"]
        /\ tries' = [tries EXCEPT ![i] = 1] /\ post' = [post EXCEPT ![<<i, 1>>] = "sent"]
        /\ UNCHANGED <<SI!wallet, SI!screen, cookie, mount, signer, rivals, SI!deleting, consumed,
                       SI!sessions>>
    BY <1>1 DEF SI!Post
  <2>2. \A l \in Copies : post[<<i, l>>] = "unsent"
    BY <2>1 DEF SignInInv, PostsSound
  <2>3. Typed'
    BY <2>1 DEF SignInInv, Typed, SI!wallet, SI!deleting, SI!sessions
  <2>4. si_pc'[i] = "posted" /\ tries'[i] = 1
        /\ \A j \in SignIns : j # i => si_pc'[j] = si_pc[j] /\ tries'[j] = tries[j]
    BY <2>1 DEF SignInInv, Typed
  <2>5. 1 \in Copies
    BY Apart
  <2> QED BY <2>1, <2>2, <2>3, <2>4, <2>5, DeliveryKeeps
<1>2. CASE SI!SendAgain(i)
  <2>1. /\ si_pc[i] = "posted" /\ si_pc' = si_pc /\ tries[i] + 1 \in Copies
        /\ tries' = [tries EXCEPT ![i] = @ + 1]
        /\ post' = [post EXCEPT ![<<i, tries[i] + 1>>] = "sent"]
        /\ UNCHANGED <<SI!wallet, SI!screen, cookie, mount, signer, rivals, SI!deleting,
                       consumed, SI!sessions>>
    <3>1. si_pc[i] = "posted" /\ tries[i] + 1 \in Copies /\ si_pc' = si_pc
      BY <1>2 DEF SI!SendAgain
    <3>2. /\ tries' = [tries EXCEPT ![i] = @ + 1]
          /\ post' = [post EXCEPT ![<<i, tries[i] + 1>>] = "sent"]
      BY <1>2 DEF SI!SendAgain
    <3>3. UNCHANGED <<SI!wallet, SI!screen, cookie, mount, signer, rivals, SI!deleting,
                      consumed, SI!sessions>>
      BY <1>2 DEF SI!SendAgain
    <3> QED BY <3>1, <3>2, <3>3
  <2>2. tries[i] \in Nat
    BY DEF SignInInv, Typed
  <2>3. ASSUME NEW l \in Copies, post[<<i, l>>] # "unsent"
        PROVE  l < tries[i] + 1
    <3>1. l <= tries[i]
      BY <2>3 DEF SignInInv, PostsSound
    <3>2. l \in Nat
      BY Apart
    <3> QED BY <2>2, <3>1, <3>2
  <2>4. Typed'
    <3>1. /\ tries' \in [SignIns -> Nat]
          /\ si_pc' = si_pc
      BY <2>1, <2>2 DEF SignInInv, Typed
    <3>2. post' \in [SI!Tokens -> {"unsent", "sent", "judged", "created", "refused"}]
      BY <2>1 DEF SignInInv, Typed
    <3> QED BY <2>1, <3>1, <3>2 DEF SignInInv, Typed, SI!wallet, SI!deleting, SI!sessions
  <2>5. si_pc'[i] = "posted" /\ tries'[i] = tries[i] + 1
        /\ \A j \in SignIns : j # i => si_pc'[j] = si_pc[j] /\ tries'[j] = tries[j]
    BY <2>1, <2>2 DEF SignInInv, Typed
  <2> DEFINE k == tries[i] + 1
  <2>6. k \in Copies /\ tries'[i] = k /\ post' = [post EXCEPT ![<<i, k>>] = "sent"]
        /\ \A l \in Copies : post[<<i, l>>] # "unsent" => l < k
    BY <2>1, <2>3, <2>5
  <2> HIDE DEF k
  <2> QED BY <2>1, <2>4, <2>5, <2>6, DeliveryKeeps
<1> QED BY <1>1, <1>2

\* The headers of an answer set the cookie of a session that was made.
LEMMA HeadersKeep ==
  ASSUME SignInInv, NEW i \in SignIns, SI!HeadersArrive(i) PROVE SignInInv'
<1> DEFINE t == <<i, tries[i]>>
<1>1. /\ si_pc[i] = "posted" /\ post[t] = "created" /\ cookie' = t
      /\ si_pc' = [si_pc EXCEPT ![i] = "reading"]
      /\ UNCHANGED <<SI!wallet, SI!screen, mount, signer, tries, rivals, SI!deleting,
                     SI!challenges, SI!sessions>>
  BY DEF SI!HeadersArrive
<1>2. tries[i] \in Copies /\ t \in SI!Tokens /\ t \in SI!Sessions
  BY <1>1, CreatedIsAToken DEF SignInInv, PostsSound
<1> USE DEF SignInInv
<1>3. Typed'
  BY <1>1, <1>2 DEF Typed, SI!wallet, SI!deleting, SI!challenges, SI!sessions
<1>4. PostsSound' /\ SessionsSound' /\ CookieSound'
  <2>1. UNCHANGED <<signer, tries, consumed, post, holder>>
    BY <1>1 DEF SI!challenges, SI!sessions
  <2>2. CookieSound'
    BY <1>1, <2>1 DEF CookieSound
  <2>3. SessionsSound'
    BY <2>1, NoneCreated
  <2>4. PostsSound'
    <3>1. ASSUME NEW j \in SignIns
          PROVE  si_pc'[j] = IF j = i THEN "reading" ELSE si_pc[j]
      BY <1>1 DEF Typed
    <3>2. si_pc[i] = "posted" /\ tries[i] \in Copies /\ post[<<i, tries[i]>>] = "created"
      BY <1>1, <1>2
    <3> HIDE DEF t
    <3> QED BY <2>1, <3>1, <3>2 DEF PostsSound
  <2> QED BY <2>2, <2>3, <2>4
<1>5. ScreenSound' /\ SI!ScreenFollowsWallet'
  BY <1>1, FollowsFrame DEF ScreenSound, SI!wallet, SI!screen, SI!deleting, SI!challenges,
                            SI!sessions
<1>6. MountSound'
  BY <1>1 DEF MountSound
<1>7. i \in SI!UnderWay /\ SI!UnderWay' = SI!UnderWay
  BY <1>1 DEF SI!UnderWay, Typed
<1>8. RivalsSound'
  <2>1. /\ UNCHANGED <<rivals, session>>
        /\ \A j \in SignIns : si_pc'[j] = "idle" => si_pc[j] = "idle"
    BY <1>1 DEF SI!screen, Typed
  <2> QED BY <1>7, <2>1 DEF RivalsSound, SI!Overlapped
<1>9. CookieAccords'
  <2>0. t \in {i} \X Copies /\ UNCHANGED <<rivals, session, tries>>
    BY <1>1, <1>2 DEF SI!screen
  <2> HIDE DEF t
  <2>1. ASSUME session # None PROVE Accords(t, session.id, rivals)
    <3>1. PICK j \in SignIns : session.id \in {j} \X Copies /\ SI!Overlapped(j, i)
      BY <1>7, <2>1 DEF RivalsSound
    <3>2. SI!Overlapped(i, j)
      BY <3>1 DEF SI!Overlapped
    <3> QED BY <2>0, <3>1, <3>2, OverlapAccords
  <2>2. ASSUME NEW j \in SignIns, si_pc'[j] = "reading"
        PROVE  Accords(t, <<j, tries[j]>>, rivals)
    <3>1. CASE j = i
      BY <3>1 DEF Accords, t
    <3>2. CASE j # i
      <4>1. si_pc[j] = "reading"
        BY <1>1, <2>2, <3>2 DEF Typed
      <4>2. j \in SI!UnderWay /\ <<j, tries[j]>> \in {j} \X Copies
        BY <4>1 DEF SI!UnderWay, PostsSound
      <4>3. SI!Overlapped(i, j)
        BY <1>7, <3>2, <4>2 DEF RivalsSound
      <4> QED BY <2>0, <4>2, <4>3, OverlapAccords
    <3> QED BY <3>1, <3>2
  <2> QED BY <1>1, <2>0, <2>1, <2>2 DEF CookieAccords
<1> QED BY <1>3, <1>4, <1>5, <1>6, <1>8, <1>9

LEMMA SignedInKeeps ==
  ASSUME SignInInv, NEW i \in SignIns, SI!SignedIn(i) PROVE SignInInv'
<1> DEFINE t == <<i, tries[i]>>
<1>1. /\ si_pc[i] = "reading" /\ SI!Show(t)
      /\ SI!SettleSession(account, account, signer[i], cookie)
      /\ si_pc' = [si_pc EXCEPT ![i] = "over"]
      /\ UNCHANGED <<SI!wallet, cookie, mount, signer, tries, rivals, SI!challenges,
                     SI!sessions>>
  BY DEF SI!SignedIn
<1>2. /\ post[t] = "created" /\ tries[i] \in Copies
      /\ t \in SI!Tokens /\ t \in SI!Sessions /\ holder[t] = signer[i]
  BY <1>1, CreatedIsAToken DEF SignInInv, PostsSound
<1> USE DEF SignInInv
<1>3. del_pc' \in [Deletes -> {"idle", "sent", "served"}]
      /\ (account # signer[i] => \E d \in Deletes : del_pc'[d] # "idle")
  BY <1>1, SettledOrUnderWay
<1>4. Typed'
  BY <1>1, <1>3 DEF Typed, SI!wallet, SI!challenges, SI!sessions
<1>5. PostsSound' /\ SessionsSound' /\ CookieSound'
  <2>1. UNCHANGED <<signer, tries, consumed, post, holder, cookie>>
    BY <1>1 DEF SI!challenges, SI!sessions
  <2>2. CookieSound'
    BY <2>1 DEF CookieSound
  <2>3. SessionsSound'
    BY <2>1, NoneCreated
  <2>4. PostsSound'
    BY <1>1, <2>1 DEF PostsSound, Typed
  <2> QED BY <2>2, <2>3, <2>4
<1>6. /\ session' = [id |-> t, wallet |-> holder[t]] /\ status' = "authenticated"
      /\ UNCHANGED <<holder, post, account, cookie, rivals, tries>>
  BY <1>1 DEF SI!Show, SI!sessions, SI!challenges, SI!wallet
<1> HIDE DEF t
<1>7. ScreenSound' /\ SI!ScreenFollowsWallet'
  <2>1. session' # None => SI!Shown' = holder[t]
    BY <1>6 DEF SI!Shown
  <2> QED BY <1>2, <1>3, <1>6, <2>1 DEF ScreenSound, SI!ScreenFollowsWallet
<1>8. MountSound'
  BY <1>1 DEF MountSound
<1>9. /\ i \in SI!UnderWay /\ SI!UnderWay' = SI!UnderWay \ {i}
      /\ \A j \in SignIns :
           /\ si_pc'[j] = "idle" => si_pc[j] = "idle"
           /\ si_pc'[j] = "reading" => si_pc[j] = "reading"
  BY <1>1 DEF SI!UnderWay, Typed
<1>10. RivalsSound'
  <2>1. t \in {i} \X Copies
    BY <1>2 DEF t
  <2>2. \A j, k : SI!Overlapped(j, k)' <=> SI!Overlapped(j, k)
    BY <1>6 DEF SI!Overlapped
  <2>3. \A j \in SI!UnderWay' : SI!Overlapped(i, j)'
    BY <1>9, <2>2 DEF RivalsSound
  <2> QED BY <1>6, <1>9, <2>1, <2>2, <2>3 DEF RivalsSound
<1>11. CookieAccords'
  <2>1. Accords(cookie, t, rivals)
    BY <1>1 DEF CookieAccords, t
  <2> QED BY <1>6, <1>9, <2>1 DEF CookieAccords
<1> QED BY <1>4, <1>5, <1>7, <1>8, <1>10, <1>11

LEMMA SignInFailsKeeps ==
  ASSUME SignInInv, NEW i \in SignIns, SI!SignInFails(i) PROVE SignInInv'
<1> USE DEF SignInInv
<1>1. /\ si_pc[i] # "idle" /\ session' = None
      /\ si_pc' = [si_pc EXCEPT ![i] = "over"]
      /\ UNCHANGED <<SI!wallet, cookie, mount, signer, tries, rivals, SI!deleting,
                     SI!challenges, SI!sessions>>
  BY DEF SI!SignInFails, SI!ShowNone, SI!GiveUp
<1>2. Typed'
  BY <1>1 DEF Typed, SI!wallet, SI!deleting, SI!challenges, SI!sessions
<1>3. PostsSound' /\ SessionsSound' /\ CookieSound'
  BY <1>1 DEF PostsSound, SessionsSound, CookieSound, Typed, SI!challenges, SI!sessions
<1>4. MountSound'
  BY <1>1 DEF MountSound
<1>5. RivalsSound' /\ CookieAccords'
  BY <1>1, RivalsFrame DEF Typed
<1> QED BY <1>1, <1>2, <1>3, <1>4, <1>5, NoScreenFollows

LEMMA DeleteAnsweredKeeps ==
  ASSUME SignInInv, NEW d \in Deletes, SI!DeleteAnswered(d) PROVE SignInInv'
<1> USE DEF SignInInv
<1>1. /\ del_pc[d] # "idle" /\ session' = None /\ cookie' \in {None, cookie}
      /\ del_pc' = [del_pc EXCEPT ![d] = "idle"]
      /\ UNCHANGED <<SI!wallet, mount, SI!signing, SI!challenges, SI!sessions>>
  BY DEF SI!DeleteAnswered, SI!ShowNone, SI!GiveUp
<1>2. Typed'
  BY <1>1 DEF Typed, SI!wallet, SI!signing, SI!challenges, SI!sessions
<1>3. PostsSound' /\ SessionsSound'
  BY <1>1, TablesFrame DEF SI!signing, SI!challenges, SI!sessions
<1>4. CookieSound'
  BY <1>1, TokensAre, Apart DEF CookieSound, SI!challenges
<1>5. MountSound'
  BY <1>1 DEF MountSound
<1>6. RivalsSound' /\ CookieAccords'
  BY <1>1, RivalsFrame DEF SI!signing
<1> QED BY <1>1, <1>2, <1>3, <1>4, <1>5, <1>6, NoScreenFollows

-----------------------------------------------------------------------------
(* The server *)

LEMMA IssueChallengeKeeps ==
  ASSUME SignInInv, NEW i \in SignIns, SI!IssueChallenge(i) PROVE SignInInv'
<1> USE DEF SignInInv
<1>1. /\ si_pc[i] = "asked" /\ si_pc' = [si_pc EXCEPT ![i] = "signed"]
      /\ UNCHANGED <<SI!wallet, SI!screen, cookie, mount, signer, tries, rivals,
                     SI!deleting, SI!challenges, SI!sessions>>
  BY DEF SI!IssueChallenge
<1>2. Typed'
  BY <1>1 DEF Typed, SI!wallet, SI!deleting, SI!challenges, SI!sessions
<1>3. PostsSound' /\ SessionsSound'
  BY <1>1 DEF PostsSound, SessionsSound, Typed, SI!challenges, SI!sessions
<1>4. CookieSound' /\ ScreenSound' /\ SI!ScreenFollowsWallet'
  BY <1>1, ScreenFrame, FollowsFrame DEF SI!wallet, SI!screen, SI!deleting, SI!challenges,
                                         SI!sessions
<1>5. MountSound'
  BY <1>1 DEF MountSound
<1>6. RivalsSound' /\ CookieAccords'
  BY <1>1, RivalsFrame DEF Typed, SI!screen
<1> QED BY <1>2, <1>3, <1>4, <1>5, <1>6

LEMMA JudgeKeeps ==
  ASSUME SignInInv, NEW t \in SI!Tokens, SI!JudgeChallenge(t) PROVE SignInInv'
<1> USE DEF SignInInv
<1>1. /\ post[t] = "sent"
      /\ \E v \in {"refused", "judged"} : post' = [post EXCEPT ![t] = v]
      /\ UNCHANGED <<SI!wallet, SI!screen, cookie, mount, SI!signing, SI!deleting, consumed,
                     SI!sessions>>
  BY DEF SI!JudgeChallenge
<1>2. /\ \A s \in SI!Tokens : post'[s] = "created" <=> post[s] = "created"
      /\ \A s \in SI!Tokens : post'[s] # "unsent" => post[s] # "unsent"
  BY <1>1 DEF Typed
<1>3. Typed'
  BY <1>1 DEF Typed, SI!wallet, SI!signing, SI!deleting, SI!sessions
<1>4. PostsSound' /\ SessionsSound'
  <2>1. SessionsSound'
    BY <1>1, <1>2, NoneCreated DEF SI!signing, SI!sessions
  <2>2. ASSUME NEW i \in SignIns, si_pc[i] = "reading"
        PROVE  post'[<<i, tries[i]>>] = "created"
    BY <1>2, <2>2, TokensAre DEF PostsSound
  <2> QED BY <1>1, <1>2, <2>1, <2>2, TokensAre DEF PostsSound, SI!signing
<1>5. CookieSound' /\ ScreenSound' /\ SI!ScreenFollowsWallet'
  BY <1>1, <1>2, FollowsFrame DEF CookieSound, ScreenSound, SI!wallet, SI!screen, SI!deleting,
                                  SI!sessions
<1>6. MountSound'
  BY <1>1 DEF MountSound, SI!screen, SI!signing, SI!deleting
<1>7. RivalsSound' /\ CookieAccords'
  BY <1>1, RivalsFrame DEF SI!screen, SI!signing
<1> QED BY <1>3, <1>4, <1>5, <1>6, <1>7

\* The challenge is used up by the session it makes, so no second one is made,
\* and the session the screen shows is not touched.
LEMMA ConsumeKeeps ==
  ASSUME SignInInv, NEW t \in SI!Tokens, SI!ConsumeChallenge(t) PROVE SignInInv'
<1> USE DEF SignInInv
<1>1. PICK i \in SignIns, k \in Copies : t = <<i, k>>
  BY TokensAre
<1>2. post[t] = "judged"
      /\ UNCHANGED <<SI!wallet, SI!screen, cookie, mount, SI!signing,
                     SI!deleting, revoked, expired>>
  BY DEF SI!ConsumeChallenge
<1>3. \/ /\ i \notin consumed
         /\ post' = [post EXCEPT ![t] = "created"] /\ consumed' = consumed \cup {i}
         /\ holder' = [holder EXCEPT ![t] = signer[i]]
      \/ post' = [post EXCEPT ![t] = "refused"] /\ UNCHANGED <<consumed, holder>>
  BY <1>1 DEF SI!ConsumeChallenge, SI!Unconsumed
<1>4. Typed'
  BY <1>2, <1>3, TokensAre DEF Typed, SI!wallet, SI!signing, SI!deleting
<1>5. /\ \A s \in SI!Tokens : s # t => post'[s] = post[s]
      /\ \A s \in SI!Sessions : s # t => holder'[s] = holder[s]
  BY <1>3 DEF Typed
<1>6. PostsSound'
  <2>1. \A s \in SI!Tokens : post'[s] # "unsent" => post[s] # "unsent"
    BY <1>2, <1>5
  <2>2. ASSUME NEW j \in SignIns, si_pc[j] = "reading"
        PROVE  post'[<<j, tries[j]>>] = "created"
    BY <1>2, <1>5, <2>2, TokensAre DEF PostsSound
  <2> QED BY <1>2, <2>1, <2>2, TokensAre DEF PostsSound, SI!signing
<1>7. SessionsSound'
  <2> SUFFICES ASSUME NEW j \in SignIns, NEW l \in Copies
               PROVE  /\ holder'[<<j, l>>] # None => post'[<<j, l>>] = "created"
                      /\ post'[<<j, l>>] = "created" =>
                           /\ j \in consumed' /\ holder'[<<j, l>>] = signer'[j]
                           /\ \A m \in Copies : post'[<<j, m>>] = "created" => m = l
    BY DEF SessionsSound
  <2>0. signer' = signer
    BY <1>2 DEF SI!signing
  <2>1. \A m \in Copies : <<j, m>> \in SI!Tokens /\ <<j, m>> \in SI!Sessions
    BY TokensAre
  <2>2. /\ holder[<<j, l>>] # None => post[<<j, l>>] = "created"
        /\ post[<<j, l>>] = "created" =>
             /\ j \in consumed /\ holder[<<j, l>>] = signer[j]
             /\ \A m \in Copies : post[<<j, m>>] = "created" => m = l
    BY DEF SessionsSound
  <2>3. CASE /\ i \notin consumed
             /\ post' = [post EXCEPT ![t] = "created"] /\ consumed' = consumed \cup {i}
             /\ holder' = [holder EXCEPT ![t] = signer[i]]
    <3>1. post'[t] = "created" /\ holder'[t] = signer[i]
      BY <1>1, <2>3, TokensAre DEF Typed
    <3>2. \A m \in Copies : post[<<i, m>>] # "created"
      BY <2>3 DEF SessionsSound
    <3>3. CASE j = i
      <4>1. \A m \in Copies : post'[<<i, m>>] = "created" => m = k
        BY <1>1, <1>5, <2>1, <3>2, <3>3
      <4>2. l # k => holder'[<<i, l>>] = None
        BY <1>1, <1>5, <2>1, <2>2, <3>2, <3>3
      <4>3. i \in consumed'
        BY <2>3
      <4>4. CASE l = k
        BY <1>1, <2>0, <3>1, <3>3, <4>1, <4>3, <4>4
      <4>5. CASE l # k
        BY <3>3, <4>1, <4>2, <4>5
      <4> QED BY <4>4, <4>5
    <3>4. CASE j # i
      <4>1. \A m \in Copies : <<j, m>> # t
        BY <1>1, <3>4
      <4>2. \A m \in Copies : post'[<<j, m>>] = post[<<j, m>>]
        BY <1>5, <2>1, <4>1
      <4>3. holder'[<<j, l>>] = holder[<<j, l>>]
        BY <1>5, <2>1, <4>1
      <4> QED BY <2>0, <2>2, <2>3, <4>2, <4>3
    <3> QED BY <3>3, <3>4
  <2>4. CASE post' = [post EXCEPT ![t] = "refused"] /\ UNCHANGED <<consumed, holder>>
    <3>1. \A m \in Copies : post'[<<j, m>>] = "created" <=> post[<<j, m>>] = "created"
      BY <1>2, <2>1, <2>4 DEF Typed
    <3> QED BY <2>0, <2>2, <2>4, <3>1
  <2> QED BY <1>3, <2>3, <2>4
<1>8. cookie # t /\ (session # None => session.id # t)
  BY <1>2 DEF CookieSound, ScreenSound
<1>9. CookieSound' /\ ScreenSound'
  BY <1>2, <1>5, <1>8 DEF CookieSound, ScreenSound, SI!screen
<1>11. RivalsSound' /\ CookieAccords'
  BY <1>2, RivalsFrame DEF SI!screen, SI!signing
<1>10. SI!ScreenFollowsWallet' /\ MountSound'
  BY <1>2, FollowsFrame DEF MountSound, SI!wallet, SI!screen, SI!signing, SI!deleting
<1> QED BY <1>4, <1>6, <1>7, <1>9, <1>10, <1>11

LEMMA ServeDeleteKeeps ==
  ASSUME SignInInv, NEW d \in Deletes, SI!ServeDelete(d) PROVE SignInInv'
<1> USE DEF SignInInv
<1>1. /\ del_pc[d] = "sent" /\ del_pc' = [del_pc EXCEPT ![d] = "served"]
      /\ UNCHANGED <<SI!wallet, SI!screen, cookie, mount, SI!signing, SI!challenges, holder>>
  BY DEF SI!ServeDelete
<1>2. Typed'
  BY <1>1 DEF Typed, SI!wallet, SI!signing, SI!challenges
<1>3. PostsSound' /\ SessionsSound' /\ CookieSound' /\ ScreenSound'
  BY <1>1, TablesFrame, ScreenFrame DEF SI!screen, SI!signing, SI!challenges
<1>4. SI!ScreenFollowsWallet'
  <2>1. \A e \in Deletes : del_pc[e] # "idle" => del_pc'[e] # "idle"
    BY <1>1 DEF Typed
  <2> QED BY <1>1, <2>1 DEF SI!ScreenFollowsWallet, SI!Shown, SI!wallet, SI!screen
<1>5. MountSound'
  BY <1>1 DEF MountSound
<1>6. RivalsSound' /\ CookieAccords'
  BY <1>1, RivalsFrame DEF SI!screen, SI!signing
<1> QED BY <1>2, <1>3, <1>4, <1>5, <1>6

-----------------------------------------------------------------------------
(* The wallet extension, and the clock *)

LEMMA SwitchKeeps ==
  ASSUME SignInInv, NEW w \in Wallets \cup {None}, SI!SwitchAccount(w) PROVE SignInInv'
<1> USE DEF SignInInv
<1>1. /\ account' = w
      /\ UNCHANGED <<session, cookie, mount, SI!signing, SI!challenges, SI!sessions>>
      /\ IF session = None
         THEN /\ UNCHANGED SI!deleting
              /\ status = "loading" => status' = "loading"
         ELSE SI!SettleSession(account, w, SI!Shown, cookie) /\ status' = status
  BY DEF SI!SwitchAccount
<1>2. /\ del_pc' \in [Deletes -> {"idle", "sent", "served"}]
      /\ session # None /\ w # SI!Shown => \E d \in Deletes : del_pc'[d] # "idle"
  BY <1>1, SettledOrUnderWay DEF Typed, SI!deleting
<1>3. Typed'
  BY <1>1, <1>2 DEF Typed, SI!signing, SI!challenges, SI!sessions
<1>4. PostsSound' /\ SessionsSound' /\ CookieSound' /\ ScreenSound'
  BY <1>1, TablesFrame, ScreenFrame DEF SI!signing, SI!challenges, SI!sessions
<1>5. SI!ScreenFollowsWallet'
  BY <1>1, <1>2 DEF SI!ScreenFollowsWallet, SI!Shown
<1>6. MountSound'
  BY <1>1 DEF MountSound, SI!signing, SI!deleting
<1>7. RivalsSound' /\ CookieAccords'
  BY <1>1, RivalsFrame DEF SI!signing
<1> QED BY <1>3, <1>4, <1>5, <1>6, <1>7

LEMMA StutterKeeps ==
  ASSUME SignInInv,
         UNCHANGED <<SI!wallet, SI!screen, cookie, mount, SI!signing, SI!deleting,
                     SI!challenges, holder>>
  PROVE  SignInInv'
<1> USE DEF SignInInv
<1>1. Typed'
  BY DEF Typed, SI!wallet, SI!signing, SI!deleting, SI!challenges
<1>2. PostsSound' /\ SessionsSound' /\ CookieSound' /\ ScreenSound' /\ SI!ScreenFollowsWallet'
  BY TablesFrame, ScreenFrame, FollowsFrame DEF SI!wallet, SI!screen, SI!signing, SI!deleting,
                                                SI!challenges
<1>3. MountSound'
  BY DEF MountSound, SI!screen, SI!signing, SI!deleting
<1>4. RivalsSound' /\ CookieAccords'
  BY RivalsFrame DEF SI!screen, SI!signing
<1> QED BY <1>1, <1>2, <1>3, <1>4

LEMMA StepKeeps == ASSUME SignInInv, [SI!Next]_SI!vars PROVE SignInInv'
<1>1. CASE SI!Tab
  BY <1>1, MountKeeps, ScreenExpiresKeeps, SignOutKeeps, SignInKeeps, PostKeeps,
     HeadersKeep, SignedInKeeps, SignInFailsKeeps, DeleteAnsweredKeeps DEF SI!Tab
<1>2. CASE SI!Server
  BY <1>2, MountKeeps, IssueChallengeKeeps, JudgeKeeps, ConsumeKeeps, ServeDeleteKeeps
  DEF SI!Server
<1>3. CASE SI!World
  <2>1. ASSUME NEW s \in ShortLived, SI!SessionExpires(s) PROVE SignInInv'
    BY <2>1, StutterKeeps DEF SI!SessionExpires
  <2> QED BY <1>3, <2>1, SwitchKeeps DEF SI!World
<1>4. CASE UNCHANGED SI!vars
  BY <1>4, StutterKeeps DEF SI!vars, SI!sessions
<1> QED BY <1>1, <1>2, <1>3, <1>4 DEF SI!Next

\* In a behaviour of the sign-in part, SignIn's steps are all there are.
LEMMA Invariance == FrontSpec => [](part = "sign-in" => SignInInv)
<1>1. FrontInit => (part = "sign-in" => SignInInv)
  BY InitIInv DEF FrontInit
<1>2. /\ part = "sign-in" => SignInInv
      /\ [FrontNext]_<<part, claimVars, signInVars>>
      => (part = "sign-in" => SignInInv)'
  <2> SUFFICES ASSUME part = "sign-in" => SignInInv,
                      [FrontNext]_<<part, claimVars, signInVars>>
               PROVE  part' = "sign-in" => SignInInv'
    OBVIOUS
  <2>1. CASE part = "sign-in" /\ SI!Next
    BY <2>1, StepKeeps
  <2>2. CASE part = "claim" /\ UNCHANGED part
    BY <2>2
  <2>3. CASE UNCHANGED <<part, claimVars, signInVars>>
    <3>1. UNCHANGED SI!vars /\ UNCHANGED part
      BY <2>3 DEF signInVars, SI!vars, SI!wallet, SI!screen, SI!signing, SI!deleting,
                  SI!challenges, SI!sessions
    <3> QED BY <3>1, StepKeeps
  <2> QED BY <2>1, <2>2, <2>3 DEF FrontNext
<1> QED BY <1>1, <1>2, PTL DEF FrontSpec

-----------------------------------------------------------------------------
(* The theorems *)

\* A challenge makes one session at most, of its own wallet, however often and
\* however late its answer is delivered.
THEOREM OneSession == FrontSpec => []OneSessionPerChallenge
<1>1. SignInInv => SI!OneSessionPerChallenge
  BY DEF SignInInv, SessionsSound, SI!OneSessionPerChallenge
<1>2. (part = "sign-in" => SignInInv) => OneSessionPerChallenge
  BY <1>1 DEF OneSessionPerChallenge
<1> QED BY <1>2, Invariance, PTL

\* The cookie accords with the screen: another session's is of a rival sign-in.
LEMMA InItsNameOrCrossed == ASSUME SignInInv PROVE SI!ActsAsShown
<1> SUFFICES ASSUME session # None, SI!Actor \notin {SI!Shown, None}
             PROVE  SI!Crossed
  BY DEF SI!ActsAsShown
<1>1. cookie # None /\ SI!Actor = holder[cookie]
  BY DEF SI!Actor, SI!Live
<1>2. cookie # session.id
  BY <1>1 DEF SignInInv, ScreenSound, SI!Shown
<1>3. Accords(cookie, session.id, rivals)
  BY <1>1 DEF SignInInv, CookieAccords
<1> QED BY <1>1, <1>2, <1>3 DEF Accords, SI!Crossed, SI!Overlapped

\* A screen whose requests prove another session than it shows has come of two
\* sign-ins that were under way together; otherwise what is done on a screen is
\* done in the name it shows or not at all.
THEOREM DoneInItsName == FrontSpec => []ActsAsShown
<1>1. (part = "sign-in" => SignInInv) => ActsAsShown
  BY InItsNameOrCrossed DEF ActsAsShown
<1> QED BY <1>1, Invariance, PTL

\* The screen's arithmetic of roles, sections and permissions offers nobody what
\* the routes would then forbid, but for the attack and the roster.
LEMMA OfferedIsAuthorized ==
  ASSUME NEW w, NEW act \in SI!Acts, SI!Offered(w, act), act # "attack",
         act = "submit" => w \in Roster
  PROVE  SI!Authorized(w, act)
<1>1. act \in {"submit", "withdraw", "decide", "run", "review", "revoke"}
  BY DEF SI!Acts, SI!SectionOf
<1>2. CASE act = "revoke"
  <2>1. "treasury" \in SI!VisibleSections(w) /\ w # None
    BY <1>2 DEF SI!Offered, SI!SectionOf
  <2>2. SI!NavSections["treasury"] \cap SI!CapabilitiesOf(w) # {}
    BY <2>1 DEF SI!VisibleSections
  <2>3. "holdTreasury" \in SI!CapabilitiesOf(w)
    BY <2>2 DEF SI!NavSections
  <2>4. PICK r \in SI!Roles(w) : "holdTreasury" \in SI!Capabilities[r]
    BY <2>3 DEF SI!CapabilitiesOf
  <2>5. r \in {"employer", "employee", "member"}
    BY <2>4 DEF SI!Roles
  <2>6. r = "employer"
    BY <2>4, <2>5 DEF SI!Capabilities
  <2>7. w = Employer
    BY <2>4, <2>6 DEF SI!Roles
  <2> QED BY <1>2, <2>7 DEF SI!Authorized
<1>3. CASE act # "revoke"
  BY <1>1, <1>3 DEF SI!Offered, SI!Permitted, SI!Authorized
<1> QED BY <1>2, <1>3

\* What a screen offers is forbidden to nobody but an attacker, a stranger to the
\* roster, and somebody whose sign-in crossed another.
THEOREM NothingElseIsForbidden == FrontSpec => []OfferedIsNotForbidden
<1>1. ASSUME SignInInv PROVE SI!OfferedIsNotForbidden
  <2> SUFFICES ASSUME NEW act \in SI!Acts, SI!Offered(SI!Shown, act), SI!Actor # None,
                      ~SI!Authorized(SI!Actor, act), ~SI!Crossed,
                      act # "attack", act = "submit" => SI!Actor \in Roster
               PROVE  FALSE
    BY DEF SI!OfferedIsNotForbidden
  <2>1. session # None
    BY DEF SI!Offered, SI!Shown
  <2>2. SI!Actor = SI!Shown
    BY <1>1, <2>1, InItsNameOrCrossed DEF SI!ActsAsShown
  <2> QED BY <2>2, OfferedIsAuthorized
<1>2. (part = "sign-in" => SignInInv) => OfferedIsNotForbidden
  BY <1>1 DEF OfferedIsNotForbidden
<1> QED BY <1>2, Invariance, PTL

\* Whoever connects and whatever fails, another person's screen is being ended.
THEOREM ScreensFollow == FrontSpec => []ScreenFollowsWallet
<1>1. SignInInv => SI!ScreenFollowsWallet
  BY DEF SignInInv
<1>2. (part = "sign-in" => SignInInv) => ScreenFollowsWallet
  BY <1>1 DEF ScreenFollowsWallet
<1> QED BY <1>2, Invariance, PTL
=============================================================================
