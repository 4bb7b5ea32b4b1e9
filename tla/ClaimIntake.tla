---------------------------- MODULE ClaimIntake ----------------------------
(***************************************************************************)
(* How a claim comes to be: the member's screen                            *)
(* (components/claim/ClaimFlow.tsx), the routes it calls                   *)
(* (receipts/analyze, claims/manual, claims, claims/[id]/resubmit) and the *)
(* tables they write: `receipt_analysis_drafts`, `claims`, the roster, and *)
(* the bucket of receipt images.  What is decided about a claim afterwards *)
(* is ClaimPayment's.                                                      *)
(*                                                                         *)
(* A screen waits for one request at a time, but a request it has given up *)
(* on is still carried out, so requests have slots of their own.           *)
(***************************************************************************)
EXTENDS Naturals, Sequences, FiniteSets

CONSTANTS
  Tabs,        \* open claim screens
  Wallets,     \* people who may be on the event's roster ...
  First,       \* ... and who is: the wallet the tabs are signed in with
  Receipts,    \* receipts that get photographed
  Expenses,    \* who was paid, how much and when, as a member can put it
  Notes,       \* the rest of the form, category and description, by tab
  Requests,    \* bound: requests in progress at one time
  Drafts,      \* bound: drafts ever made
  Claims,      \* bound: claims ever made
  MaxReturns,  \* bound: corrections the treasurer asks for
  Snap,        \* bound: the tabs where a receipt is photographed, and ...
  ByHand,      \* ... those where an expense is typed in
  Movers,      \* bound: the tabs where the person signs in as ...
  Second,      \* ... this wallet, while the screen stays as it is
  None

\* What the form of a tab gets filled in with.
Fields(t) == Expenses \X Notes[t]

\* What makes a claim unique, its receipt_sha256: the bytes of the photograph,
\* or, in place of one, who typed which expense.
ManualClaimHash(w, f) == <<w, f[1]>>

VARIABLES
  \* ClaimFlow, and the wallet each tab is signed in with
  identity, step, photo, draft, dup, correcting, sent, saved, waits,
  \* the requests: where each is, who asks, about what, and what it found
  pc, who, about, with, answer,
  \* receipt_analysis_drafts
  draft_by, draft_of, draft_claim,
  \* claims, and (history) the figures each has had, in turn
  claim_by, claim_of, claim_fields, claim_state, accepted, returns,
  \* event_members, and the bucket
  members, images

ASSUME ClaimIntakeAssumption ==
  /\ First \in Wallets /\ Second \in Wallets
  /\ None \notin Wallets /\ None \notin Receipts /\ None \notin Requests
  /\ None \notin Drafts /\ None \notin Claims

screen == <<step, photo, draft, dup, correcting, sent, saved>>
request == <<pc, who, about, with, answer>>
drafts == <<draft_by, draft_of, draft_claim>>
claims == <<claim_by, claim_of, claim_fields, claim_state, accepted, returns>>
vars == <<identity, screen, waits, request, drafts, claims, members, images>>

Claimed == {c \in Claims : claim_by[c] # None}
Drafted == {d \in Drafts : draft_by[d] # None}
IsLeast(x, S) == x \in S /\ \A y \in S : x <= y

-----------------------------------------------------------------------------
(* Mutations: definitions with one plausible mistake each, used nowhere.      *)

\* The duplicate is looked for when the receipt is read and not again.
FreshWhenRead(d) == TRUE

\* The image is uploaded once the draft is safely made.
DraftFirst(p) == "draft"

\* The member's screen takes any answer to a correction for its success.
AnyAnswer(a) == a.kind \in {"claim", "moved_on"}

\* The branch for a duplicate forgets to leave `submitting`.
SaysSoAndStays(t) == UNCHANGED step

-----------------------------------------------------------------------------
(* ClaimFlow *)

\* A request goes out in the name of the wallet signed in at that moment; it
\* takes any slot, here the least one that is free.
Ask(t, at, what, using) ==
  \E r \in Requests :
    /\ IsLeast(r, {q \in Requests : pc[q] = "idle"})
    /\ waits' = [waits EXCEPT ![t] = r]
    /\ pc' = [pc EXCEPT ![r] = at]
    /\ who' = [who EXCEPT ![r] = identity[t]]
    /\ about' = [about EXCEPT ![r] = what]
    /\ with' = [with EXCEPT ![r] = using]
    /\ UNCHANGED answer

GoTo(t, s) == step' = [step EXCEPT ![t] = s]

Quiet == UNCHANGED <<identity, drafts, claims, members, images>>

\* onCapture; the control is disabled for a visitor who is not signed in.
Capture(t, e) ==
  /\ t \in Snap
  /\ step[t] = "home"
  /\ GoTo(t, "reading")
  /\ photo' = [photo EXCEPT ![t] = e]
  /\ Ask(t, "check", e, None)
  /\ UNCHANGED <<draft, dup, correcting, sent, saved>> /\ Quiet

\* "No receipt? Enter it by hand"
EnterByHand(t) ==
  /\ t \in ByHand
  /\ step[t] = "home" /\ GoTo(t, "manual")
  /\ UNCHANGED <<waits, request, photo, draft, dup, correcting, sent, saved>> /\ Quiet

\* onSubmitManual, up to its first answer.
SubmitManual(t, f) ==
  /\ step[t] = "manual" /\ GoTo(t, "submitting")
  /\ sent' = [sent EXCEPT ![t] = f]
  /\ Ask(t, "check", ManualClaimHash(identity[t], f), None)
  /\ UNCHANGED <<photo, draft, dup, correcting, saved>> /\ Quiet

\* onSubmit.  The browser's own look at the expiry can go either way: its clock
\* is not the server's.
Confirm(t, f) ==
  /\ step[t] = "confirm" /\ draft[t] # None
  /\ GoTo(t, "submitting")
  /\ sent' = [sent EXCEPT ![t] = f]
  /\ Ask(t, "clock", draft[t], f)
  /\ UNCHANGED <<photo, draft, dup, correcting, saved>> /\ Quiet

\* onCorrect: a claim of one's own that the treasurer sent back.
Correct(t, c) ==
  /\ step[t] = "home"
  /\ claim_by[c] = identity[t] /\ claim_state[c] = "needs_correction"
  /\ GoTo(t, "correcting")
  /\ correcting' = [correcting EXCEPT ![t] = c]
  /\ UNCHANGED <<waits, request, photo, draft, dup, sent, saved>> /\ Quiet

\* onResubmit
Resubmit(t, f) ==
  /\ step[t] = "correcting" /\ GoTo(t, "submitting")
  /\ sent' = [sent EXCEPT ![t] = f]
  /\ Ask(t, "correction", correcting[t], f)
  /\ UNCHANGED <<photo, draft, dup, correcting, saved>> /\ Quiet

\* The tab takes the answer it waited for, and the slot is free.
Take(t) ==
  /\ waits' = [waits EXCEPT ![t] = None]
  /\ pc' = [pc EXCEPT ![waits[t]] = "idle"]
  /\ answer' = [answer EXCEPT ![waits[t]] = None]
  /\ UNCHANGED <<who, about, with>>

\* The form is drawn anew, without what was put in it.
Forget(t) == sent' = [sent EXCEPT ![t] = None]

Answered(t) == waits[t] # None /\ pc[waits[t]] = "answered"
Answer(t) == answer[waits[t]]

\* The receipt was read, or is one that has been claimed.
ReceiptRead(t) ==
  /\ step[t] = "reading" /\ Answered(t)
  /\ GoTo(t, "confirm")
  /\ draft' = [draft EXCEPT ![t] = IF Answer(t).kind = "draft" THEN Answer(t).id ELSE None]
  /\ dup' = [dup EXCEPT ![t] = IF Answer(t).kind = "draft" THEN None ELSE Answer(t).id]
  /\ Take(t)
  /\ UNCHANGED <<photo, correcting, sent, saved>> /\ Quiet

\* "You have already claimed this exact expense."
AlreadyClaimed(t) == GoTo(t, "manual")

\* An expense that was typed before is not claimed again; one that was not is
\* submitted with its new draft at once.
ManualAnswered(t) ==
  /\ step[t] = "submitting" /\ Answered(t)
  /\ \/ /\ Answer(t).kind = "duplicate"
        /\ AlreadyClaimed(t) /\ Take(t) /\ Forget(t)
     \/ /\ Answer(t).kind = "draft"
        /\ pc' = [pc EXCEPT ![waits[t]] = "clock"]
        /\ who' = [who EXCEPT ![waits[t]] = identity[t]]
        /\ about' = [about EXCEPT ![waits[t]] = Answer(t).id]
        /\ with' = [with EXCEPT ![waits[t]] = sent[t]]
        /\ answer' = [answer EXCEPT ![waits[t]] = None]
        /\ UNCHANGED <<waits, step, sent>>
  /\ UNCHANGED <<photo, draft, dup, correcting, saved>> /\ Quiet

\* A claim the server has, as it has it.
IsSaved(a) == a.kind = "claim"

ClaimAnswered(t) ==
  /\ step[t] = "submitting" /\ Answered(t) /\ IsSaved(Answer(t))
  /\ GoTo(t, "submitted")
  /\ saved' = [saved EXCEPT ![t] = [id |-> Answer(t).id, fields |-> Answer(t).fields]]
  /\ correcting' = [correcting EXCEPT ![t] = None]
  /\ Take(t)
  /\ UNCHANGED <<photo, draft, dup, sent>> /\ Quiet

\* Where a screen goes back to when its submission came to nothing.
FormOf(t) ==
  IF correcting[t] # None THEN "correcting"
  ELSE IF photo[t] # None THEN "confirm" ELSE "manual"

\* accepted: false
MovedOn(t) ==
  /\ step[t] = "submitting" /\ Answered(t) /\ Answer(t).kind = "moved_on"
  /\ ~IsSaved(Answer(t))
  /\ GoTo(t, FormOf(t))
  /\ Take(t) /\ Forget(t)
  /\ UNCHANGED <<photo, draft, dup, correcting, saved>> /\ Quiet

\* The request failed, or its answer never came while the server goes on with
\* it; try... turns both into an answer without data.
RequestFails(t) ==
  /\ waits[t] # None
  /\ GoTo(t, IF step[t] = "reading" THEN "confirm" ELSE FormOf(t))
  /\ IF pc[waits[t]] \in {"failed", "answered"} THEN Take(t)
     ELSE waits' = [waits EXCEPT ![t] = None] /\ UNCHANGED request
  /\ Forget(t)
  /\ UNCHANGED <<photo, draft, dup, correcting, saved>> /\ Quiet

\* reset: "Retake", "Cancel" and "Done".
Reset(t) ==
  /\ step[t] \in {"confirm", "manual", "correcting", "submitted"}
  /\ GoTo(t, "home")
  /\ photo' = [photo EXCEPT ![t] = None]
  /\ draft' = [draft EXCEPT ![t] = None]
  /\ dup' = [dup EXCEPT ![t] = None]
  /\ correcting' = [correcting EXCEPT ![t] = None]
  /\ saved' = [saved EXCEPT ![t] = None]
  /\ sent' = [sent EXCEPT ![t] = None]
  /\ UNCHANGED <<waits, request>> /\ Quiet

-----------------------------------------------------------------------------
(* The routes *)

Waited(r) == \E t \in Tabs : waits[t] = r

\* The end of a request.  Where nobody waits for the answer the slot is free.
End(r, at, a) ==
  /\ pc' = [pc EXCEPT ![r] = IF Waited(r) THEN at ELSE "idle"]
  /\ answer' = [answer EXCEPT ![r] = IF Waited(r) THEN a ELSE None]
  /\ who' = [who EXCEPT ![r] = None]
  /\ about' = [about EXCEPT ![r] = None]
  /\ with' = [with EXCEPT ![r] = None]

OnlyAt(r, at) == pc' = [pc EXCEPT ![r] = at] /\ UNCHANGED <<who, about, with, answer>>

Tables == UNCHANGED <<identity, screen, waits>>

\* findDuplicateReceipt
SameReceipt(e) == {c \in Claimed : claim_of[c] = e}

\* A photograph is stored before its draft is made; what was typed has nothing
\* to store.
AfterReading(e) == IF e \in Receipts THEN "store" ELSE "draft"

\* analyze and manual: the wallet must be on the roster, and the receipt new.
CheckReceipt(r) ==
  /\ pc[r] = "check"
  /\ IF who[r] \notin members THEN End(r, "failed", None)
     ELSE \/ \E c \in SameReceipt(about[r]) : End(r, "answered", [kind |-> "duplicate", id |-> c])
          \/ SameReceipt(about[r]) = {} /\ OnlyAt(r, AfterReading(about[r]))
  /\ Tables /\ UNCHANGED <<drafts, claims, members, images>>

\* receipts.upload, with upsert: the same image again is the same object.
StoreReceipt(r) ==
  /\ pc[r] = "store"
  /\ images' = images \cup {about[r]}
  /\ OnlyAt(r, "draft")
  /\ Tables /\ UNCHANGED <<drafts, claims, members>>

\* drafts.create
CreateDraft(r) ==
  /\ pc[r] = "draft"
  /\ \E d \in Drafts :
       /\ IsLeast(d, Drafts \ Drafted)
       /\ draft_by' = [draft_by EXCEPT ![d] = who[r]]
       /\ draft_of' = [draft_of EXCEPT ![d] = about[r]]
       /\ End(r, "answered", [kind |-> "draft", id |-> d])
  /\ Tables /\ UNCHANGED <<draft_claim, claims, members, images>>

\* createClaimService reads the clock, and the database, told this reading,
\* refuses a draft whose fifteen minutes were over by then; any draft's may be.
ReadClock(r) ==
  /\ pc[r] = "clock"
  /\ End(r, "failed", None) \/ OnlyAt(r, "consume")
  /\ Tables /\ UNCHANGED <<drafts, claims, members, images>>

\* claims_event_receipt_unique
ReceiptIsNew(d) == SameReceipt(draft_of[d]) = {}

MayConsume(r) ==
  /\ draft_by[about[r]] = who[r]
  /\ draft_claim[about[r]] = None
  /\ who[r] \in members
  /\ ReceiptIsNew(about[r])

\* create_claim_from_analysis_draft
CreateClaim(r) ==
  /\ pc[r] = "consume"
  /\ IF MayConsume(r)
     THEN \E c \in Claims :
            /\ IsLeast(c, Claims \ Claimed)
            /\ claim_by' = [claim_by EXCEPT ![c] = who[r]]
            /\ claim_of' = [claim_of EXCEPT ![c] = draft_of[about[r]]]
            /\ claim_fields' = [claim_fields EXCEPT ![c] = with[r]]
            /\ claim_state' = [claim_state EXCEPT ![c] = "submitted"]
            /\ accepted' = [accepted EXCEPT ![c] = Append(@, with[r])]
            /\ draft_claim' = [draft_claim EXCEPT ![about[r]] = c]
            /\ pc' = [pc EXCEPT ![r] = "read"]
            /\ about' = [about EXCEPT ![r] = c]
            /\ UNCHANGED <<who, with, answer>>
     ELSE /\ End(r, "failed", None)
          /\ UNCHANGED <<claim_by, claim_of, claim_fields, claim_state, accepted, draft_claim>>
  /\ Tables /\ UNCHANGED <<draft_by, draft_of, returns, members, images>>

\* The claim is then read, in a statement of its own: the answer is what the row
\* holds by now.
ReadClaim(r) ==
  LET c == about[r] IN
  /\ pc[r] = "read"
  /\ End(r, "answered", [kind |-> "claim", id |-> c, fields |-> claim_fields[c]])
  /\ Tables /\ UNCHANGED <<drafts, claims, members, images>>

\* createResubmitClaimService: the claim is read and judged ...
JudgeCorrection(r) ==
  /\ pc[r] = "correction"
  /\ IF claim_by[about[r]] = who[r] /\ claim_state[about[r]] = "needs_correction"
     THEN OnlyAt(r, "correct") ELSE End(r, "failed", None)
  /\ Tables /\ UNCHANGED <<drafts, claims, members, images>>

\* ... and written if it is still in that state.
SaveCorrection(r) ==
  LET c == about[r] IN
  /\ pc[r] = "correct"
  /\ IF claim_state[c] = "needs_correction"
     THEN /\ claim_fields' = [claim_fields EXCEPT ![c] = with[r]]
          /\ claim_state' = [claim_state EXCEPT ![c] = "submitted"]
          /\ accepted' = [accepted EXCEPT ![c] = Append(@, with[r])]
          /\ End(r, "answered", [kind |-> "claim", id |-> c, fields |-> with[r]])
     ELSE /\ End(r, "answered", [kind |-> "moved_on", id |-> c, fields |-> claim_fields[c]])
          /\ UNCHANGED <<claim_fields, claim_state, accepted>>
  /\ Tables /\ UNCHANGED <<drafts, claim_by, claim_of, returns, members, images>>

\* The session is over, the analyser or a database call fails, the server stops.
Fail(r) ==
  /\ pc[r] \in {"check", "store", "draft", "clock", "consume", "read", "correction", "correct"}
  /\ End(r, "failed", None)
  /\ Tables /\ UNCHANGED <<drafts, claims, members, images>>

-----------------------------------------------------------------------------
(* Everything else *)

\* createAddEventMemberService.  No operation takes anybody off the roster.
AddMember(w) ==
  /\ w \notin members /\ members' = members \cup {w}
  /\ Tables /\ UNCHANGED <<request, drafts, claims, images>>

\* The treasurer's request_correction (ClaimPayment's ApplyReview).
SendBack(c) ==
  /\ claim_state[c] = "submitted" /\ returns < MaxReturns
  /\ claim_state' = [claim_state EXCEPT ![c] = "needs_correction"]
  /\ returns' = returns + 1
  /\ Tables
  /\ UNCHANGED <<request, drafts, claim_by, claim_of, claim_fields, accepted, members, images>>

\* Somebody else signs in while the screen stays as it is.
SignInAs(t) ==
  /\ identity[t] # Second
  /\ identity' = [identity EXCEPT ![t] = Second]
  /\ UNCHANGED <<screen, waits, request, drafts, claims, members, images>>

-----------------------------------------------------------------------------
Init ==
  /\ identity = [t \in Tabs |-> First]
  /\ step = [t \in Tabs |-> "home"]
  /\ photo = [t \in Tabs |-> None] /\ draft = [t \in Tabs |-> None]
  /\ dup = [t \in Tabs |-> None] /\ correcting = [t \in Tabs |-> None]
  /\ sent = [t \in Tabs |-> None] /\ saved = [t \in Tabs |-> None]
  /\ waits = [t \in Tabs |-> None]
  /\ pc = [r \in Requests |-> "idle"]
  /\ who = [r \in Requests |-> None] /\ about = [r \in Requests |-> None]
  /\ with = [r \in Requests |-> None] /\ answer = [r \in Requests |-> None]
  /\ draft_by = [d \in Drafts |-> None] /\ draft_of = [d \in Drafts |-> None]
  /\ draft_claim = [d \in Drafts |-> None]
  /\ claim_by = [c \in Claims |-> None] /\ claim_of = [c \in Claims |-> None]
  /\ claim_fields = [c \in Claims |-> None] /\ claim_state = [c \in Claims |-> None]
  /\ accepted = [c \in Claims |-> <<>>]
  /\ returns = 0
  /\ members = {First}
  /\ images = {}

Screen(t) ==
  \/ \E e \in Receipts : Capture(t, e)
  \/ EnterByHand(t) \/ Reset(t)
  \/ \E f \in Fields(t) : SubmitManual(t, f) \/ Confirm(t, f) \/ Resubmit(t, f)
  \/ \E c \in Claims : Correct(t, c)

Answers(t) ==
  \/ ReceiptRead(t) \/ ManualAnswered(t) \/ ClaimAnswered(t) \/ MovedOn(t)
  \/ RequestFails(t)

Serve(r) ==
  \/ CheckReceipt(r) \/ StoreReceipt(r) \/ CreateDraft(r)
  \/ ReadClock(r) \/ CreateClaim(r) \/ ReadClaim(r)
  \/ JudgeCorrection(r) \/ SaveCorrection(r) \/ Fail(r)

World ==
  \/ \E w \in Wallets : AddMember(w)
  \/ \E c \in Claims : SendBack(c)
  \/ \E t \in Movers : SignInAs(t)

Next ==
  \/ \E t \in Tabs : Screen(t) \/ Answers(t)
  \/ \E r \in Requests : Serve(r)
  \/ World

Spec == Init /\ [][Next]_vars

-----------------------------------------------------------------------------
(* Properties *)

\* An event pays for a receipt once, and a draft is good for one claim: however
\* many drafts members have of one photograph, and however often a submission
\* whose answer was lost is made again.
OneClaimPerReceipt ==
  /\ \A c, e \in Claimed : claim_of[c] = claim_of[e] => c = e
  /\ \A c \in Claimed :
       \E d \in Drafted :
         /\ {x \in Drafted : draft_claim[x] = c} = {d}
         /\ claim_by[c] = draft_by[d] /\ claim_of[c] = draft_of[d]

\* Among the figures a claim had in turn: f, and g then or later.
HadThen(had, f, g) ==
  \E i, j \in DOMAIN had : i <= j /\ had[i] = f /\ had[j] = g

\* "Submitted" is said of a claim of the receipt in the photograph which has had
\* the figures this screen sent, beside those figures or ones the claim was
\* corrected to since -- never beside older ones, and never because of an answer
\* to another submission, or of a correction that found the claim moved on.
SubmittedIsWhatWasSent ==
  \A t \in Tabs :
    step[t] = "submitted" =>
      /\ saved[t].id \in Claimed
      /\ HadThen(accepted[saved[t].id], sent[t], saved[t].fields)
      /\ photo[t] # None => claim_of[saved[t].id] = photo[t]

\* The treasurer can look at the receipt of every photographed claim.
ClaimHasItsImage == \A c \in Claimed : claim_of[c] \in Receipts => claim_of[c] \in images

\* A screen says "Reading" or "Submitting" exactly while a request of its own is
\* under way: no answer, refusal or failure leaves a member looking at one that
\* nothing will end, and no two screens take one answer.
BusyIsWaiting ==
  \A t \in Tabs :
    /\ (step[t] \in {"reading", "submitting"}) = (waits[t] # None)
    /\ waits[t] # None =>
         /\ pc[waits[t]] # "idle"
         /\ \A u \in Tabs : waits[u] = waits[t] => u = t
=============================================================================
