----------------------------- MODULE FrontOffice -----------------------------
(***************************************************************************)
(* What a user does in the browser: submitting a claim (ClaimIntake), or   *)
(* signing in (SignIn).  The two share no state but the wallet, so a       *)
(* behaviour is of one of them: the variables of the other stay where they *)
(* are.                                                                    *)
(***************************************************************************)
EXTENDS ClaimIntake

CONSTANTS
  Employer, Employee, Treasurer, Roster, SignIns, Copies, Deletes, Resent, MaxSwitches,
  ShortLived, Earlier

VARIABLES
  part,  \* "claim" or "sign-in"
  account, ready, switches, session, status, cookie, mount, si_pc, signer, tries, rivals,
  del_pc, del_session, consumed, post, holder, revoked, expired

SI == INSTANCE SignIn WITH pc <- si_pc

\* An earlier visit's session is none of this tab's, None is no session, and
\* deliveries are numbered from one.
ASSUME FrontOfficeAssumption ==
  /\ Earlier \notin SignIns \X Copies
  /\ None \notin (SignIns \X Copies) \cup {Earlier}
  /\ Copies \subseteq Nat /\ 1 \in Copies

claimVars == <<identity, step, photo, draft, dup, correcting, sent, saved, waits, pc,
  who, about, with, answer, draft_by, draft_of, draft_claim, claim_by, claim_of,
  claim_fields, claim_state, accepted, returns, members, images>>
signInVars == <<account, ready, switches, session, status, cookie, mount, si_pc,
  signer, tries, rivals, del_pc, del_session, consumed, post, holder, revoked, expired>>

NoSignIn ==
  /\ account = None /\ ready = None /\ switches = None /\ session = None
  /\ status = None /\ cookie = None /\ mount = None /\ si_pc = None
  /\ signer = None /\ tries = None /\ rivals = None /\ del_pc = None /\ del_session = None
  /\ consumed = None /\ post = None /\ holder = None /\ revoked = None
  /\ expired = None

FrontInit ==
  /\ Init
  /\ \/ part = "claim" /\ NoSignIn
     \/ part = "sign-in" /\ SI!Init

FrontNext ==
  \/ part = "claim" /\ Next /\ UNCHANGED <<part, signInVars>>
  \/ part = "sign-in" /\ SI!Next /\ UNCHANGED <<part, claimVars>>

FrontSpec == FrontInit /\ [][FrontNext]_<<part, claimVars, signInVars>>

-----------------------------------------------------------------------------
(* SignIn's properties, and ClaimIntake's under their own names *)

\* A challenge yields one session, of the wallet it was issued to: SignIn's.
OneSessionPerChallenge == part = "sign-in" => SI!OneSessionPerChallenge

\* What is done on a screen is done in the name it shows or not at all, unless two
\* sign-ins overlapped: SignIn's.
ActsAsShown == part = "sign-in" => SI!ActsAsShown

\* But for two, no control is offered that the server then forbids: SignIn's.
OfferedIsNotForbidden == part = "sign-in" => SI!OfferedIsNotForbidden

\* A screen of an account no longer connected is being signed out: SignIn's.
ScreenFollowsWallet == part = "sign-in" => SI!ScreenFollowsWallet
=============================================================================
