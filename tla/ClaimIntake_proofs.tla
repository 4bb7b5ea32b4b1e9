------------------------- MODULE ClaimIntake_proofs -------------------------
(***************************************************************************)
(* Claims as members make them, for any number of screens, members,        *)
(* receipts, requests, drafts and claims.                                  *)
(*                                                                         *)
(* TablesSound is about what is stored: a draft is spent on one claim, and *)
(* nothing is claimed whose image is missing.  RequestSound says what a    *)
(* request works on at each step, whether or not anybody still waits for   *)
(* it; ScreenSound ties a screen to the request it waits for: that one is  *)
(* about the photograph and the figures on the screen, and once the claim  *)
(* is written, its history has them.  HistorySound says that a row holds   *)
(* the last of its figures, so that what a later read finds comes after.   *)
(***************************************************************************)
EXTENDS ClaimIntake, TLAPS

Steps == {"home", "reading", "confirm", "manual", "submitting", "correcting", "submitted"}
PCs == {"idle", "check", "store", "draft", "clock", "consume", "read", "correction",
        "correct", "answered", "failed"}
Expense == Receipts \cup (Wallets \X Expenses)
Things == Expense \cup Drafts \cup Claims \cup {None}
Forms == (UNION {Fields(t) : t \in Tabs}) \cup {None}
AnswerRecords == [kind : {"draft", "duplicate"}, id : Drafts \cup Claims]
           \cup [kind : {"claim", "moved_on"}, id : Claims, fields : Forms]
           \cup {None}

ScreenTyped ==
  /\ identity \in [Tabs -> Wallets]
  /\ step \in [Tabs -> Steps]
  /\ photo \in [Tabs -> Receipts \cup {None}]
  /\ draft \in [Tabs -> Drafts \cup {None}]
  /\ dup \in [Tabs -> Claims \cup {None}]
  /\ correcting \in [Tabs -> Claims \cup {None}]
  /\ sent \in [Tabs -> Forms]
  /\ saved \in [Tabs -> [id : Claims, fields : Forms] \cup {None}]
  /\ waits \in [Tabs -> Requests \cup {None}]

RequestTyped ==
  /\ pc \in [Requests -> PCs]
  /\ who \in [Requests -> Wallets \cup {None}]
  /\ about \in [Requests -> Things]
  /\ with \in [Requests -> Forms]
  /\ answer \in [Requests -> AnswerRecords]

TablesTyped ==
  /\ draft_by \in [Drafts -> Wallets \cup {None}]
  /\ draft_of \in [Drafts -> Expense \cup {None}]
  /\ draft_claim \in [Drafts -> Claims \cup {None}]
  /\ claim_by \in [Claims -> Wallets \cup {None}]
  /\ claim_of \in [Claims -> Expense \cup {None}]
  /\ claim_fields \in [Claims -> Forms]
  /\ claim_state \in [Claims -> {"submitted", "needs_correction", None}]
  /\ members \subseteq Wallets
  /\ images \subseteq Receipts

RequestSound ==
  \A r \in Requests :
    /\ pc[r] \notin {"idle", "answered", "failed"} => who[r] \in Wallets
    /\ pc[r] \in {"check", "store", "draft"} => about[r] \in Expense
    /\ pc[r] = "store" => about[r] \in Receipts
    /\ pc[r] = "draft" /\ about[r] \in Receipts => about[r] \in images
    /\ pc[r] \in {"clock", "consume"} => about[r] \in Drafted
    /\ pc[r] = "correction" => about[r] \in Claims
    /\ pc[r] \in {"read", "correct"} => about[r] \in Claimed
    /\ pc[r] = "answered" =>
         /\ answer[r].kind = "draft" => answer[r].id \in Drafted
         /\ answer[r].kind # "draft" => answer[r].id \in Claimed
         /\ answer[r].kind = "claim" => answer[r].fields \in Forms

\* What a screen knows of the request it waits for.
Reading(t, r) ==
  /\ pc[r] \in {"check", "store", "draft", "answered", "failed"}
  /\ pc[r] \in {"check", "store", "draft"} => about[r] = photo[t]
  /\ pc[r] = "answered" /\ answer[r].kind = "draft" => draft_of[answer[r].id] = photo[t]

Submitting(t, r) ==
  /\ pc[r] \in {"clock", "consume", "correction", "correct"} => with[r] = sent[t]
  /\ pc[r] = "read" => HadThen(accepted[about[r]], sent[t], sent[t])
  /\ pc[r] = "answered" /\ answer[r].kind = "claim" =>
       HadThen(accepted[answer[r].id], sent[t], answer[r].fields)
  /\ photo[t] # None =>
       /\ pc[r] \in {"clock", "consume", "read", "answered", "failed"}
       /\ pc[r] \in {"clock", "consume"} => draft_of[about[r]] = photo[t]
       /\ pc[r] = "read" => claim_of[about[r]] = photo[t]
       /\ pc[r] = "answered" =>
            answer[r].kind = "claim" /\ claim_of[answer[r].id] = photo[t]

FormSound ==
  \A t \in Tabs :
    /\ step[t] = "home" => photo[t] = None /\ draft[t] = None /\ correcting[t] = None
    /\ step[t] \in {"manual", "correcting"} => photo[t] = None
    /\ step[t] = "correcting" => correcting[t] # None
    /\ step[t] = "reading" => photo[t] # None /\ draft[t] = None
    /\ draft[t] # None =>
         photo[t] # None /\ draft[t] \in Drafted /\ draft_of[draft[t]] = photo[t]
    /\ correcting[t] # None => photo[t] = None

ScreenSound ==
  \A t \in Tabs :
    waits[t] # None =>
      /\ step[t] = "reading" => Reading(t, waits[t])
      /\ step[t] = "submitting" => Submitting(t, waits[t])

DraftsSound ==
  \A d \in Drafts :
    /\ draft_by[d] = None => draft_claim[d] = None
    /\ draft_claim[d] # None => draft_claim[d] \in Claimed
    /\ d \in Drafted /\ draft_of[d] \in Receipts => draft_of[d] \in images

\* The row holds the last of the figures it has had.
HistorySound ==
  /\ accepted \in [Claims -> Seq(Forms)]
  /\ \A c \in Claimed :
       Len(accepted[c]) > 0 /\ accepted[c][Len(accepted[c])] = claim_fields[c]

IInv ==
  /\ ScreenTyped /\ RequestTyped /\ TablesTyped
  /\ RequestSound /\ FormSound /\ ScreenSound /\ HistorySound
  /\ DraftsSound /\ OneClaimPerReceipt /\ ClaimHasItsImage
  /\ BusyIsWaiting /\ SubmittedIsWhatWasSent

-----------------------------------------------------------------------------
LEMMA NoneIsApart ==
  /\ None \notin Wallets /\ None \notin Receipts /\ None \notin Requests
  /\ None \notin Drafts /\ None \notin Claims
  BY ClaimIntakeAssumption

LEMMA FormsTyped ==
  /\ None \in Forms
  /\ \A t \in Tabs : \A f \in Fields(t) : f \in Forms
  BY DEF Forms

LEMMA HashTyped ==
  ASSUME NEW t \in Tabs, NEW f \in Fields(t), NEW w \in Wallets
  PROVE  ManualClaimHash(w, f) \in Expense
  BY DEF ManualClaimHash, Expense, Fields

LEMMA AnswersTyped ==
  /\ None \in AnswerRecords
  /\ \A d \in Drafts : [kind |-> "draft", id |-> d] \in AnswerRecords
  /\ \A c \in Claims : [kind |-> "duplicate", id |-> c] \in AnswerRecords
  /\ \A c \in Claims, f \in Forms :
       /\ [kind |-> "claim", id |-> c, fields |-> f] \in AnswerRecords
       /\ [kind |-> "moved_on", id |-> c, fields |-> f] \in AnswerRecords
  BY DEF AnswerRecords

LEMMA EndTyped ==
  ASSUME RequestTyped, NEW r \in Requests, NEW at \in {"answered", "failed"},
         NEW a \in AnswerRecords, End(r, at, a)
  PROVE  RequestTyped'
<1>1. (IF Waited(r) THEN at ELSE "idle") \in PCs
  BY DEF PCs
<1>2. (IF Waited(r) THEN a ELSE None) \in AnswerRecords /\ None \in Things /\ None \in Forms
  BY AnswersTyped, FormsTyped DEF Things
<1> QED BY <1>1, <1>2 DEF RequestTyped, End

LEMMA AtTyped ==
  ASSUME RequestTyped, NEW r \in Requests, NEW at \in PCs, OnlyAt(r, at)
  PROVE  RequestTyped'
  BY DEF RequestTyped, OnlyAt

LEMMA TakeTyped ==
  ASSUME RequestTyped, NEW t \in Tabs, Take(t)
  PROVE  RequestTyped'
  BY AnswersTyped DEF RequestTyped, Take, PCs

LEMMA AppendKeeps ==
  ASSUME NEW had \in Seq(Forms), NEW h \in Forms
  PROVE  /\ \A f, g : HadThen(had, f, g) => HadThen(Append(had, h), f, g)
         /\ HadThen(Append(had, h), h, h)
         /\ Append(had, h) \in Seq(Forms)
         /\ Len(Append(had, h)) > 0 /\ Append(had, h)[Len(Append(had, h))] = h
  BY DEF HadThen

LEMMA AcceptedGrows ==
  ASSUME HistorySound, NEW c \in Claims, NEW h \in Forms,
         accepted' = [accepted EXCEPT ![c] = Append(@, h)]
  PROVE  /\ accepted' \in [Claims -> Seq(Forms)]
         /\ \A k \in Claims : k # c => accepted'[k] = accepted[k]
         /\ \A k \in Claims : \A f, g :
              HadThen(accepted[k], f, g) => HadThen(accepted'[k], f, g)
         /\ HadThen(accepted'[c], h, h)
         /\ Len(accepted'[c]) > 0 /\ accepted'[c][Len(accepted'[c])] = h
<1>1. accepted \in [Claims -> Seq(Forms)] /\ accepted[c] \in Seq(Forms)
  BY DEF HistorySound
<1>2. /\ accepted'[c] = Append(accepted[c], h)
      /\ \A k \in Claims : k # c => accepted'[k] = accepted[k]
  BY <1>1
<1>3. Append(accepted[c], h) \in Seq(Forms)
  BY <1>1, AppendKeeps
<1>4. accepted' \in [Claims -> Seq(Forms)]
  BY <1>1, <1>3
<1>5. /\ \A f, g : HadThen(accepted[c], f, g) => HadThen(accepted'[c], f, g)
      /\ HadThen(accepted'[c], h, h)
      /\ Len(accepted'[c]) > 0 /\ accepted'[c][Len(accepted'[c])] = h
  BY <1>1, <1>2, AppendKeeps
<1> QED BY <1>2, <1>4, <1>5

\* What a row has had, it has had before or together with what it holds.
LEMMA HadBeforeNow ==
  ASSUME NEW had \in Seq(Forms), Len(had) > 0, NEW f, NEW g, HadThen(had, f, g)
  PROVE  HadThen(had, f, had[Len(had)])
  BY DEF HadThen

\* Ask(t, at, what, using) in slot r.
AskedIn(r, t, at, what, using) ==
  /\ pc[r] = "idle" /\ waits' = [waits EXCEPT ![t] = r]
  /\ pc' = [pc EXCEPT ![r] = at] /\ who' = [who EXCEPT ![r] = identity[t]]
  /\ about' = [about EXCEPT ![r] = what] /\ with' = [with EXCEPT ![r] = using]
  /\ answer' = answer

\* A request goes out in a slot nobody waits for.
LEMMA AskTakesFreeSlot ==
  ASSUME IInv, NEW t \in Tabs, NEW at, NEW what, NEW using, Ask(t, at, what, using)
  PROVE  \E r \in Requests :
           AskedIn(r, t, at, what, using) /\ \A u \in Tabs : waits[u] # r
<1>1. PICK r \in Requests : AskedIn(r, t, at, what, using)
  BY DEF Ask, AskedIn, IsLeast
<1>2. \A u \in Tabs : waits[u] # r
  BY <1>1, NoneIsApart DEF IInv, ScreenTyped, BusyIsWaiting, AskedIn
<1> QED BY <1>1, <1>2

LEMMA CaptureKeeps ==
  ASSUME IInv, NEW t \in Tabs, NEW e \in Receipts, Capture(t, e)
  PROVE  IInv'
<1> USE NoneIsApart, FormsTyped
<1> USE DEF IInv, screen, request, drafts, claims
<1>a. PICK r \in Requests : AskedIn(r, t, "check", e, None) /\ \A u \in Tabs : waits[u] # r
  BY AskTakesFreeSlot DEF Capture
<1>b. e \in Expense
  BY DEF Expense
<1>1. ScreenTyped'
  BY DEF ScreenTyped, Capture, Quiet, GoTo, Ask, Steps, RequestSound
<1>2. RequestTyped'
  BY <1>a, <1>b DEF RequestTyped, Capture, Quiet, GoTo, AskedIn, ScreenTyped, FormSound,
    PCs, Things
<1>3. TablesTyped'
  BY DEF TablesTyped, Capture, Quiet, GoTo, Ask, Drafted, Claimed
<1>4. RequestSound'
  BY <1>a, <1>b DEF RequestSound, Capture, Quiet, GoTo, AskedIn, ScreenTyped,
    RequestTyped, TablesTyped, Drafted, Claimed
<1>5. FormSound'
  BY DEF FormSound, Capture, Quiet, GoTo, Ask, ScreenTyped, RequestTyped, TablesTyped,
    ScreenSound, RequestSound, Reading, Submitting, Drafted
<1>6. ScreenSound'
  BY <1>a, <1>b DEF ScreenSound, Capture, Quiet, GoTo, AskedIn, ScreenTyped, RequestTyped,
    TablesTyped, RequestSound, FormSound, BusyIsWaiting, Reading, Submitting, Drafted,
    Claimed
<1>7. DraftsSound'
  BY DEF DraftsSound, Capture, Quiet, GoTo, Ask, Drafted, Claimed
<1>8. OneClaimPerReceipt'
  BY DEF OneClaimPerReceipt, Capture, Quiet, GoTo, Ask, Drafted, Claimed
<1>9. ClaimHasItsImage'
  BY DEF ClaimHasItsImage, Capture, Quiet, GoTo, Ask, Drafted, Claimed
<1>10. BusyIsWaiting'
  BY <1>a, <1>b DEF BusyIsWaiting, Capture, Quiet, GoTo, AskedIn, ScreenTyped,
    RequestTyped
<1>11. SubmittedIsWhatWasSent'
  BY DEF SubmittedIsWhatWasSent, Capture, Quiet, GoTo, Ask, ScreenTyped, RequestTyped,
    TablesTyped, RequestSound, ScreenSound, Submitting, Claimed
<1>12. HistorySound'
  BY DEF HistorySound, Capture, Quiet, Claimed
<1> QED BY <1>1, <1>2, <1>3, <1>4, <1>5, <1>6, <1>7, <1>8, <1>9, <1>10, <1>11, <1>12

LEMMA EnterByHandKeeps ==
  ASSUME IInv, NEW t \in Tabs, EnterByHand(t)
  PROVE  IInv'
<1> USE NoneIsApart, FormsTyped
<1> USE DEF IInv, screen, request, drafts, claims
<1>1. ScreenTyped'
  BY DEF ScreenTyped, EnterByHand, Quiet, GoTo, Steps, RequestSound
<1>2. RequestTyped'
  BY DEF RequestTyped, EnterByHand, Quiet, GoTo, ScreenTyped, FormSound, PCs, Things
<1>3. TablesTyped'
  BY DEF TablesTyped, EnterByHand, Quiet, GoTo, Drafted, Claimed
<1>4. RequestSound'
  BY DEF RequestSound, EnterByHand, Quiet, GoTo, ScreenTyped, RequestTyped, TablesTyped,
    Drafted, Claimed
<1>5. FormSound'
  BY DEF FormSound, EnterByHand, Quiet, GoTo, ScreenTyped, RequestTyped, TablesTyped,
    ScreenSound, RequestSound, Reading, Submitting, Drafted
<1>6. ScreenSound'
  BY DEF ScreenSound, EnterByHand, Quiet, GoTo, ScreenTyped, RequestTyped, TablesTyped,
    RequestSound, FormSound, BusyIsWaiting, Reading, Submitting, Drafted, Claimed
<1>7. DraftsSound'
  BY DEF DraftsSound, EnterByHand, Quiet, GoTo, Drafted, Claimed
<1>8. OneClaimPerReceipt'
  BY DEF OneClaimPerReceipt, EnterByHand, Quiet, GoTo, Drafted, Claimed
<1>9. ClaimHasItsImage'
  BY DEF ClaimHasItsImage, EnterByHand, Quiet, GoTo, Drafted, Claimed
<1>10. BusyIsWaiting'
  BY DEF BusyIsWaiting, EnterByHand, Quiet, GoTo, ScreenTyped, RequestTyped
<1>11. SubmittedIsWhatWasSent'
  BY DEF SubmittedIsWhatWasSent, EnterByHand, Quiet, GoTo, ScreenTyped, RequestTyped,
    TablesTyped, RequestSound, ScreenSound, Submitting, Claimed
<1>12. HistorySound'
  BY DEF HistorySound, EnterByHand, Quiet, Claimed
<1> QED BY <1>1, <1>2, <1>3, <1>4, <1>5, <1>6, <1>7, <1>8, <1>9, <1>10, <1>11, <1>12

LEMMA SubmitManualKeeps ==
  ASSUME IInv, NEW t \in Tabs, NEW f \in Fields(t), SubmitManual(t, f)
  PROVE  IInv'
<1> USE NoneIsApart, FormsTyped
<1> USE DEF IInv, screen, request, drafts, claims
<1>a. PICK r \in Requests :
         /\ AskedIn(r, t, "check", ManualClaimHash(identity[t], f), None)
         /\ \A u \in Tabs : waits[u] # r
  BY AskTakesFreeSlot DEF SubmitManual
<1>b. ManualClaimHash(identity[t], f) \in Expense
  BY HashTyped DEF ScreenTyped
<1>1. ScreenTyped'
  BY DEF ScreenTyped, SubmitManual, Quiet, GoTo, Ask, Steps, RequestSound
<1>2. RequestTyped'
  BY <1>a, <1>b DEF RequestTyped, SubmitManual, Quiet, GoTo, AskedIn, ScreenTyped,
    FormSound, PCs, Things
<1>3. TablesTyped'
  BY DEF TablesTyped, SubmitManual, Quiet, GoTo, Ask, Drafted, Claimed
<1>4. RequestSound'
  BY <1>a, <1>b DEF RequestSound, SubmitManual, Quiet, GoTo, AskedIn, ScreenTyped,
    RequestTyped, TablesTyped, Drafted, Claimed
<1>5. FormSound'
  BY DEF FormSound, SubmitManual, Quiet, GoTo, Ask, ScreenTyped, RequestTyped,
    TablesTyped, ScreenSound, RequestSound, Reading, Submitting, Drafted
<1>6. ScreenSound'
  BY <1>a, <1>b DEF ScreenSound, SubmitManual, Quiet, GoTo, AskedIn, ScreenTyped,
    RequestTyped, TablesTyped, RequestSound, FormSound, BusyIsWaiting, Reading,
    Submitting, Drafted, Claimed
<1>7. DraftsSound'
  BY DEF DraftsSound, SubmitManual, Quiet, GoTo, Ask, Drafted, Claimed
<1>8. OneClaimPerReceipt'
  BY DEF OneClaimPerReceipt, SubmitManual, Quiet, GoTo, Ask, Drafted, Claimed
<1>9. ClaimHasItsImage'
  BY DEF ClaimHasItsImage, SubmitManual, Quiet, GoTo, Ask, Drafted, Claimed
<1>10. BusyIsWaiting'
  BY <1>a, <1>b DEF BusyIsWaiting, SubmitManual, Quiet, GoTo, AskedIn, ScreenTyped,
    RequestTyped
<1>11. SubmittedIsWhatWasSent'
  BY DEF SubmittedIsWhatWasSent, SubmitManual, Quiet, GoTo, Ask, ScreenTyped,
    RequestTyped, TablesTyped, RequestSound, ScreenSound, Submitting, Claimed
<1>12. HistorySound'
  BY DEF HistorySound, SubmitManual, Quiet, Claimed
<1> QED BY <1>1, <1>2, <1>3, <1>4, <1>5, <1>6, <1>7, <1>8, <1>9, <1>10, <1>11, <1>12

LEMMA ConfirmKeeps ==
  ASSUME IInv, NEW t \in Tabs, NEW f \in Fields(t), Confirm(t, f)
  PROVE  IInv'
<1> USE NoneIsApart, FormsTyped
<1> USE DEF IInv, screen, request, drafts, claims
<1>a. PICK r \in Requests : AskedIn(r, t, "clock", draft[t], f) /\ \A u \in Tabs : waits[u] # r
  BY AskTakesFreeSlot DEF Confirm
<1>b. draft[t] \in Drafted /\ draft[t] \in Drafts
  BY DEF Confirm, FormSound, Drafted
<1>1. ScreenTyped'
  BY DEF ScreenTyped, Confirm, Quiet, GoTo, Ask, Steps, RequestSound
<1>2. RequestTyped'
  BY <1>a, <1>b DEF RequestTyped, Confirm, Quiet, GoTo, AskedIn, ScreenTyped, FormSound,
    PCs, Things
<1>3. TablesTyped'
  BY DEF TablesTyped, Confirm, Quiet, GoTo, Ask, Drafted, Claimed
<1>4. RequestSound'
  BY <1>a, <1>b DEF RequestSound, Confirm, Quiet, GoTo, AskedIn, ScreenTyped,
    RequestTyped, TablesTyped, Drafted, Claimed
<1>5. FormSound'
  BY DEF FormSound, Confirm, Quiet, GoTo, Ask, ScreenTyped, RequestTyped, TablesTyped,
    ScreenSound, RequestSound, Reading, Submitting, Drafted
<1>6. ScreenSound'
  BY <1>a, <1>b DEF ScreenSound, Confirm, Quiet, GoTo, AskedIn, ScreenTyped, RequestTyped,
    TablesTyped, RequestSound, FormSound, BusyIsWaiting, Reading, Submitting, Drafted,
    Claimed
<1>7. DraftsSound'
  BY DEF DraftsSound, Confirm, Quiet, GoTo, Ask, Drafted, Claimed
<1>8. OneClaimPerReceipt'
  BY DEF OneClaimPerReceipt, Confirm, Quiet, GoTo, Ask, Drafted, Claimed
<1>9. ClaimHasItsImage'
  BY DEF ClaimHasItsImage, Confirm, Quiet, GoTo, Ask, Drafted, Claimed
<1>10. BusyIsWaiting'
  BY <1>a, <1>b DEF BusyIsWaiting, Confirm, Quiet, GoTo, AskedIn, ScreenTyped,
    RequestTyped
<1>11. SubmittedIsWhatWasSent'
  BY DEF SubmittedIsWhatWasSent, Confirm, Quiet, GoTo, Ask, ScreenTyped, RequestTyped,
    TablesTyped, RequestSound, ScreenSound, Submitting, Claimed
<1>12. HistorySound'
  BY DEF HistorySound, Confirm, Quiet, Claimed
<1> QED BY <1>1, <1>2, <1>3, <1>4, <1>5, <1>6, <1>7, <1>8, <1>9, <1>10, <1>11, <1>12

LEMMA CorrectKeeps ==
  ASSUME IInv, NEW t \in Tabs, NEW c \in Claims, Correct(t, c)
  PROVE  IInv'
<1> USE NoneIsApart, FormsTyped
<1> USE DEF IInv, screen, request, drafts, claims
<1>1. ScreenTyped'
  BY DEF ScreenTyped, Correct, Quiet, GoTo, Steps, RequestSound
<1>2. RequestTyped'
  BY DEF RequestTyped, Correct, Quiet, GoTo, ScreenTyped, FormSound, PCs, Things
<1>3. TablesTyped'
  BY DEF TablesTyped, Correct, Quiet, GoTo, Drafted, Claimed
<1>4. RequestSound'
  BY DEF RequestSound, Correct, Quiet, GoTo, ScreenTyped, RequestTyped, TablesTyped,
    Drafted, Claimed
<1>5. FormSound'
  BY DEF FormSound, Correct, Quiet, GoTo, ScreenTyped, RequestTyped, TablesTyped,
    ScreenSound, RequestSound, Reading, Submitting, Drafted
<1>6. ScreenSound'
  BY DEF ScreenSound, Correct, Quiet, GoTo, ScreenTyped, RequestTyped, TablesTyped,
    RequestSound, FormSound, BusyIsWaiting, Reading, Submitting, Drafted, Claimed
<1>7. DraftsSound'
  BY DEF DraftsSound, Correct, Quiet, GoTo, Drafted, Claimed
<1>8. OneClaimPerReceipt'
  BY DEF OneClaimPerReceipt, Correct, Quiet, GoTo, Drafted, Claimed
<1>9. ClaimHasItsImage'
  BY DEF ClaimHasItsImage, Correct, Quiet, GoTo, Drafted, Claimed
<1>10. BusyIsWaiting'
  BY DEF BusyIsWaiting, Correct, Quiet, GoTo, ScreenTyped, RequestTyped
<1>11. SubmittedIsWhatWasSent'
  BY DEF SubmittedIsWhatWasSent, Correct, Quiet, GoTo, ScreenTyped, RequestTyped,
    TablesTyped, RequestSound, ScreenSound, Submitting, Claimed
<1>12. HistorySound'
  BY DEF HistorySound, Correct, Quiet, Claimed
<1> QED BY <1>1, <1>2, <1>3, <1>4, <1>5, <1>6, <1>7, <1>8, <1>9, <1>10, <1>11, <1>12

LEMMA ResubmitKeeps ==
  ASSUME IInv, NEW t \in Tabs, NEW f \in Fields(t), Resubmit(t, f)
  PROVE  IInv'
<1> USE NoneIsApart, FormsTyped
<1> USE DEF IInv, screen, request, drafts, claims
<1>a. PICK r \in Requests :
         /\ AskedIn(r, t, "correction", correcting[t], f)
         /\ \A u \in Tabs : waits[u] # r
  BY AskTakesFreeSlot DEF Resubmit
<1>b. correcting[t] \in Claims
  BY DEF Resubmit, FormSound, ScreenTyped
<1>1. ScreenTyped'
  BY DEF ScreenTyped, Resubmit, Quiet, GoTo, Ask, Steps, RequestSound
<1>2. RequestTyped'
  BY <1>a, <1>b DEF RequestTyped, Resubmit, Quiet, GoTo, AskedIn, ScreenTyped, FormSound,
    PCs, Things
<1>3. TablesTyped'
  BY DEF TablesTyped, Resubmit, Quiet, GoTo, Ask, Drafted, Claimed
<1>4. RequestSound'
  BY <1>a, <1>b DEF RequestSound, Resubmit, Quiet, GoTo, AskedIn, ScreenTyped,
    RequestTyped, TablesTyped, Drafted, Claimed
<1>5. FormSound'
  BY DEF FormSound, Resubmit, Quiet, GoTo, Ask, ScreenTyped, RequestTyped, TablesTyped,
    ScreenSound, RequestSound, Reading, Submitting, Drafted
<1>6. ScreenSound'
  BY <1>a, <1>b DEF ScreenSound, Resubmit, Quiet, GoTo, AskedIn, ScreenTyped,
    RequestTyped, TablesTyped, RequestSound, FormSound, BusyIsWaiting, Reading,
    Submitting, Drafted, Claimed
<1>7. DraftsSound'
  BY DEF DraftsSound, Resubmit, Quiet, GoTo, Ask, Drafted, Claimed
<1>8. OneClaimPerReceipt'
  BY DEF OneClaimPerReceipt, Resubmit, Quiet, GoTo, Ask, Drafted, Claimed
<1>9. ClaimHasItsImage'
  BY DEF ClaimHasItsImage, Resubmit, Quiet, GoTo, Ask, Drafted, Claimed
<1>10. BusyIsWaiting'
  BY <1>a, <1>b DEF BusyIsWaiting, Resubmit, Quiet, GoTo, AskedIn, ScreenTyped,
    RequestTyped
<1>11. SubmittedIsWhatWasSent'
  BY DEF SubmittedIsWhatWasSent, Resubmit, Quiet, GoTo, Ask, ScreenTyped, RequestTyped,
    TablesTyped, RequestSound, ScreenSound, Submitting, Claimed
<1>12. HistorySound'
  BY DEF HistorySound, Resubmit, Quiet, Claimed
<1> QED BY <1>1, <1>2, <1>3, <1>4, <1>5, <1>6, <1>7, <1>8, <1>9, <1>10, <1>11, <1>12

LEMMA ReceiptReadKeeps ==
  ASSUME IInv, NEW t \in Tabs, ReceiptRead(t)
  PROVE  IInv'
<1> USE NoneIsApart, FormsTyped
<1> USE DEF IInv, screen, request, drafts, claims
<1>1. ScreenTyped'
  <2>1. waits[t] \in Requests /\ pc[waits[t]] = "answered"
    BY DEF ReceiptRead, Answered, ScreenTyped
  <2>2. /\ answer[waits[t]].kind = "draft" => answer[waits[t]].id \in Drafts
        /\ answer[waits[t]].kind # "draft" => answer[waits[t]].id \in Claims
    BY <2>1 DEF RequestSound, Drafted, Claimed
  <2> QED BY <2>2 DEF ScreenTyped, ReceiptRead, Quiet, GoTo, Take, Answer, Steps
<1>2. RequestTyped'
  BY TakeTyped DEF ReceiptRead
<1>3. TablesTyped'
  BY DEF TablesTyped, ReceiptRead, Quiet, GoTo, Take, Answered, Answer, Drafted, Claimed
<1>4. RequestSound'
  BY DEF RequestSound, ReceiptRead, Quiet, GoTo, Take, Answered, Answer, ScreenTyped,
    RequestTyped, TablesTyped, Drafted, Claimed
<1>5. FormSound'
  BY DEF FormSound, ReceiptRead, Quiet, GoTo, Take, Answered, Answer, ScreenTyped,
    RequestTyped, TablesTyped, ScreenSound, RequestSound, Reading, Submitting, Drafted
<1>6. ScreenSound'
  BY DEF ScreenSound, ReceiptRead, Quiet, GoTo, Take, Answered, Answer, ScreenTyped,
    RequestTyped, TablesTyped, RequestSound, FormSound, BusyIsWaiting, Reading,
    Submitting, Drafted, Claimed
<1>7. DraftsSound'
  BY DEF DraftsSound, ReceiptRead, Quiet, GoTo, Take, Answered, Answer, Drafted, Claimed
<1>8. OneClaimPerReceipt'
  BY DEF OneClaimPerReceipt, ReceiptRead, Quiet, GoTo, Take, Answered, Answer, Drafted,
    Claimed
<1>9. ClaimHasItsImage'
  BY DEF ClaimHasItsImage, ReceiptRead, Quiet, GoTo, Take, Answered, Answer, Drafted,
    Claimed
<1>10. BusyIsWaiting'
  BY DEF BusyIsWaiting, ReceiptRead, Quiet, GoTo, Take, Answered, Answer, ScreenTyped,
    RequestTyped
<1>11. SubmittedIsWhatWasSent'
  BY DEF SubmittedIsWhatWasSent, ReceiptRead, Quiet, GoTo, Take, Answered, Answer,
    ScreenTyped, RequestTyped, TablesTyped, RequestSound, ScreenSound, Submitting, Claimed
<1>12. HistorySound'
  BY DEF HistorySound, ReceiptRead, Quiet, Claimed
<1> QED BY <1>1, <1>2, <1>3, <1>4, <1>5, <1>6, <1>7, <1>8, <1>9, <1>10, <1>11, <1>12

LEMMA ManualAnsweredKeeps ==
  ASSUME IInv, NEW t \in Tabs, ManualAnswered(t)
  PROVE  IInv'
<1> USE NoneIsApart, FormsTyped
<1> USE DEF IInv, screen, request, drafts, claims
<1>1. ScreenTyped'
  BY DEF ScreenTyped, ManualAnswered, Quiet, GoTo, Take, Answered, Answer, AlreadyClaimed,
    Forget, Steps, RequestSound
<1>2. RequestTyped'
  <2>1. waits[t] \in Requests /\ pc[waits[t]] = "answered" /\ identity[t] \in Wallets
        /\ sent[t] \in Forms
    BY DEF ManualAnswered, Answered, ScreenTyped
  <2>2. answer[waits[t]].kind = "draft" => answer[waits[t]].id \in Things
    BY <2>1 DEF RequestSound, Drafted, Things
  <2> QED BY <2>1, <2>2, AnswersTyped DEF RequestTyped, ManualAnswered, Take, Answer, PCs
<1>3. TablesTyped'
  BY DEF TablesTyped, ManualAnswered, Quiet, GoTo, Take, Answered, Answer, AlreadyClaimed,
    Forget, Drafted, Claimed
<1>4. RequestSound'
  BY DEF RequestSound, ManualAnswered, Quiet, GoTo, Take, Answered, Answer,
    AlreadyClaimed, Forget, ScreenTyped, RequestTyped, TablesTyped, Drafted, Claimed
<1>5. FormSound'
  BY DEF FormSound, ManualAnswered, Quiet, GoTo, Take, Answered, Answer, AlreadyClaimed,
    Forget, ScreenTyped, RequestTyped, TablesTyped, ScreenSound, RequestSound, Reading,
    Submitting, Drafted
<1>6. ScreenSound'
  BY DEF ScreenSound, ManualAnswered, Quiet, GoTo, Take, Answered, Answer, AlreadyClaimed,
    Forget, ScreenTyped, RequestTyped, TablesTyped, RequestSound, FormSound,
    BusyIsWaiting, Reading, Submitting, Drafted, Claimed
<1>7. DraftsSound'
  BY DEF DraftsSound, ManualAnswered, Quiet, GoTo, Take, Answered, Answer, AlreadyClaimed,
    Forget, Drafted, Claimed
<1>8. OneClaimPerReceipt'
  BY DEF OneClaimPerReceipt, ManualAnswered, Quiet, GoTo, Take, Answered, Answer,
    AlreadyClaimed, Forget, Drafted, Claimed
<1>9. ClaimHasItsImage'
  BY DEF ClaimHasItsImage, ManualAnswered, Quiet, GoTo, Take, Answered, Answer,
    AlreadyClaimed, Forget, Drafted, Claimed
<1>10. BusyIsWaiting'
  BY DEF BusyIsWaiting, ManualAnswered, Quiet, GoTo, Take, Answered, Answer,
    AlreadyClaimed, Forget, ScreenTyped, RequestTyped
<1>11. SubmittedIsWhatWasSent'
  BY DEF SubmittedIsWhatWasSent, ManualAnswered, Quiet, GoTo, Take, Answered, Answer,
    AlreadyClaimed, Forget, ScreenTyped, RequestTyped, TablesTyped, RequestSound,
    ScreenSound, Submitting, Claimed
<1>12. HistorySound'
  BY DEF HistorySound, ManualAnswered, Quiet, Claimed
<1> QED BY <1>1, <1>2, <1>3, <1>4, <1>5, <1>6, <1>7, <1>8, <1>9, <1>10, <1>11, <1>12

LEMMA ClaimAnsweredKeeps ==
  ASSUME IInv, NEW t \in Tabs, ClaimAnswered(t)
  PROVE  IInv'
<1> USE NoneIsApart, FormsTyped
<1> USE DEF IInv, screen, request, drafts, claims
<1>1. ScreenTyped'
  <2>1. waits[t] \in Requests /\ pc[waits[t]] = "answered" /\ answer[waits[t]].kind = "claim"
    BY DEF ClaimAnswered, Answered, Answer, IsSaved, ScreenTyped
  <2>2. answer[waits[t]].id \in Claims /\ answer[waits[t]].fields \in Forms
    BY <2>1 DEF RequestSound, Claimed
  <2>3. [id |-> Answer(t).id, fields |-> Answer(t).fields] \in [id : Claims, fields : Forms]
    BY <2>2 DEF Answer
  <2> QED BY <2>3 DEF ScreenTyped, ClaimAnswered, Quiet, GoTo, Take, Steps
<1>2. RequestTyped'
  BY TakeTyped DEF ClaimAnswered
<1>3. TablesTyped'
  BY DEF TablesTyped, ClaimAnswered, Quiet, GoTo, Take, Answered, Answer, IsSaved,
    Drafted, Claimed
<1>4. RequestSound'
  BY DEF RequestSound, ClaimAnswered, Quiet, GoTo, Take, Answered, Answer, IsSaved,
    ScreenTyped, RequestTyped, TablesTyped, Drafted, Claimed
<1>5. FormSound'
  BY DEF FormSound, ClaimAnswered, Quiet, GoTo, Take, Answered, Answer, IsSaved,
    ScreenTyped, RequestTyped, TablesTyped, ScreenSound, RequestSound, Reading,
    Submitting, Drafted
<1>6. ScreenSound'
  BY DEF ScreenSound, ClaimAnswered, Quiet, GoTo, Take, Answered, Answer, IsSaved,
    ScreenTyped, RequestTyped, TablesTyped, RequestSound, FormSound, BusyIsWaiting,
    Reading, Submitting, Drafted, Claimed
<1>7. DraftsSound'
  BY DEF DraftsSound, ClaimAnswered, Quiet, GoTo, Take, Answered, Answer, IsSaved,
    Drafted, Claimed
<1>8. OneClaimPerReceipt'
  BY DEF OneClaimPerReceipt, ClaimAnswered, Quiet, GoTo, Take, Answered, Answer, IsSaved,
    Drafted, Claimed
<1>9. ClaimHasItsImage'
  BY DEF ClaimHasItsImage, ClaimAnswered, Quiet, GoTo, Take, Answered, Answer, IsSaved,
    Drafted, Claimed
<1>10. BusyIsWaiting'
  BY DEF BusyIsWaiting, ClaimAnswered, Quiet, GoTo, Take, Answered, Answer, IsSaved,
    ScreenTyped, RequestTyped
<1>11. SubmittedIsWhatWasSent'
  BY DEF SubmittedIsWhatWasSent, ClaimAnswered, Quiet, GoTo, Take, Answered, Answer,
    IsSaved, ScreenTyped, RequestTyped, TablesTyped, RequestSound, ScreenSound,
    Submitting, Claimed
<1>12. HistorySound'
  BY DEF HistorySound, ClaimAnswered, Quiet, Claimed
<1> QED BY <1>1, <1>2, <1>3, <1>4, <1>5, <1>6, <1>7, <1>8, <1>9, <1>10, <1>11, <1>12

LEMMA MovedOnKeeps ==
  ASSUME IInv, NEW t \in Tabs, MovedOn(t)
  PROVE  IInv'
<1> USE NoneIsApart, FormsTyped
<1> USE DEF IInv, screen, request, drafts, claims
<1>1. ScreenTyped'
  BY DEF ScreenTyped, MovedOn, Quiet, GoTo, Take, Answered, Answer, IsSaved, FormOf,
    Forget, Steps, RequestSound
<1>2. RequestTyped'
  BY TakeTyped DEF MovedOn
<1>3. TablesTyped'
  BY DEF TablesTyped, MovedOn, Quiet, GoTo, Take, Answered, Answer, IsSaved, FormOf,
    Forget, Drafted, Claimed
<1>4. RequestSound'
  BY DEF RequestSound, MovedOn, Quiet, GoTo, Take, Answered, Answer, IsSaved, FormOf,
    Forget, ScreenTyped, RequestTyped, TablesTyped, Drafted, Claimed
<1>5. FormSound'
  BY DEF FormSound, MovedOn, Quiet, GoTo, Take, Answered, Answer, IsSaved, FormOf, Forget,
    ScreenTyped, RequestTyped, TablesTyped, ScreenSound, RequestSound, Reading,
    Submitting, Drafted
<1>6. ScreenSound'
  BY DEF ScreenSound, MovedOn, Quiet, GoTo, Take, Answered, Answer, IsSaved, FormOf,
    Forget, ScreenTyped, RequestTyped, TablesTyped, RequestSound, FormSound,
    BusyIsWaiting, Reading, Submitting, Drafted, Claimed
<1>7. DraftsSound'
  BY DEF DraftsSound, MovedOn, Quiet, GoTo, Take, Answered, Answer, IsSaved, FormOf,
    Forget, Drafted, Claimed
<1>8. OneClaimPerReceipt'
  BY DEF OneClaimPerReceipt, MovedOn, Quiet, GoTo, Take, Answered, Answer, IsSaved,
    FormOf, Forget, Drafted, Claimed
<1>9. ClaimHasItsImage'
  BY DEF ClaimHasItsImage, MovedOn, Quiet, GoTo, Take, Answered, Answer, IsSaved, FormOf,
    Forget, Drafted, Claimed
<1>10. BusyIsWaiting'
  BY DEF BusyIsWaiting, MovedOn, Quiet, GoTo, Take, Answered, Answer, IsSaved, FormOf,
    Forget, ScreenTyped, RequestTyped
<1>11. SubmittedIsWhatWasSent'
  BY DEF SubmittedIsWhatWasSent, MovedOn, Quiet, GoTo, Take, Answered, Answer, IsSaved,
    FormOf, Forget, ScreenTyped, RequestTyped, TablesTyped, RequestSound, ScreenSound,
    Submitting, Claimed
<1>12. HistorySound'
  BY DEF HistorySound, MovedOn, Quiet, Claimed
<1> QED BY <1>1, <1>2, <1>3, <1>4, <1>5, <1>6, <1>7, <1>8, <1>9, <1>10, <1>11, <1>12

LEMMA RequestFailsKeeps ==
  ASSUME IInv, NEW t \in Tabs, RequestFails(t)
  PROVE  IInv'
<1> USE NoneIsApart, FormsTyped
<1> USE DEF IInv, screen, request, drafts, claims
<1>1. ScreenTyped'
  BY DEF ScreenTyped, RequestFails, Quiet, GoTo, Take, Answered, Answer, FormOf, Forget,
    Steps, RequestSound
<1>2. RequestTyped'
  BY TakeTyped DEF RequestFails, RequestTyped, request
<1>3. TablesTyped'
  BY DEF TablesTyped, RequestFails, Quiet, GoTo, Take, Answered, Answer, FormOf, Forget,
    Drafted, Claimed
<1>4. RequestSound'
  BY DEF RequestSound, RequestFails, Quiet, GoTo, Take, Answered, Answer, FormOf, Forget,
    ScreenTyped, RequestTyped, TablesTyped, Drafted, Claimed
<1>5. FormSound'
  BY DEF FormSound, RequestFails, Quiet, GoTo, Take, Answered, Answer, FormOf, Forget,
    ScreenTyped, RequestTyped, TablesTyped, ScreenSound, RequestSound, Reading,
    Submitting, Drafted
<1>6. ScreenSound'
  BY DEF ScreenSound, RequestFails, Quiet, GoTo, Take, Answered, Answer, FormOf, Forget,
    ScreenTyped, RequestTyped, TablesTyped, RequestSound, FormSound, BusyIsWaiting,
    Reading, Submitting, Drafted, Claimed
<1>7. DraftsSound'
  BY DEF DraftsSound, RequestFails, Quiet, GoTo, Take, Answered, Answer, FormOf, Forget,
    Drafted, Claimed
<1>8. OneClaimPerReceipt'
  BY DEF OneClaimPerReceipt, RequestFails, Quiet, GoTo, Take, Answered, Answer, FormOf,
    Forget, Drafted, Claimed
<1>9. ClaimHasItsImage'
  BY DEF ClaimHasItsImage, RequestFails, Quiet, GoTo, Take, Answered, Answer, FormOf,
    Forget, Drafted, Claimed
<1>10. BusyIsWaiting'
  BY DEF BusyIsWaiting, RequestFails, Quiet, GoTo, Take, Answered, Answer, FormOf, Forget,
    ScreenTyped, RequestTyped
<1>11. SubmittedIsWhatWasSent'
  BY DEF SubmittedIsWhatWasSent, RequestFails, Quiet, GoTo, Take, Answered, Answer,
    FormOf, Forget, ScreenTyped, RequestTyped, TablesTyped, RequestSound, ScreenSound,
    Submitting, Claimed
<1>12. HistorySound'
  BY DEF HistorySound, RequestFails, Quiet, Claimed
<1> QED BY <1>1, <1>2, <1>3, <1>4, <1>5, <1>6, <1>7, <1>8, <1>9, <1>10, <1>11, <1>12

LEMMA ResetKeeps ==
  ASSUME IInv, NEW t \in Tabs, Reset(t)
  PROVE  IInv'
<1> USE NoneIsApart, FormsTyped
<1> USE DEF IInv, screen, request, drafts, claims
<1>1. ScreenTyped'
  BY DEF ScreenTyped, Reset, Quiet, GoTo, Steps, RequestSound
<1>2. RequestTyped'
  BY DEF RequestTyped, Reset, Quiet, GoTo, ScreenTyped, FormSound, PCs, Things
<1>3. TablesTyped'
  BY DEF TablesTyped, Reset, Quiet, GoTo, Drafted, Claimed
<1>4. RequestSound'
  BY DEF RequestSound, Reset, Quiet, GoTo, ScreenTyped, RequestTyped, TablesTyped,
    Drafted, Claimed
<1>5. FormSound'
  BY DEF FormSound, Reset, Quiet, GoTo, ScreenTyped, RequestTyped, TablesTyped,
    ScreenSound, RequestSound, Reading, Submitting, Drafted
<1>6. ScreenSound'
  BY DEF ScreenSound, Reset, Quiet, GoTo, ScreenTyped, RequestTyped, TablesTyped,
    RequestSound, FormSound, BusyIsWaiting, Reading, Submitting, Drafted, Claimed
<1>7. DraftsSound'
  BY DEF DraftsSound, Reset, Quiet, GoTo, Drafted, Claimed
<1>8. OneClaimPerReceipt'
  BY DEF OneClaimPerReceipt, Reset, Quiet, GoTo, Drafted, Claimed
<1>9. ClaimHasItsImage'
  BY DEF ClaimHasItsImage, Reset, Quiet, GoTo, Drafted, Claimed
<1>10. BusyIsWaiting'
  BY DEF BusyIsWaiting, Reset, Quiet, GoTo, ScreenTyped, RequestTyped
<1>11. SubmittedIsWhatWasSent'
  BY DEF SubmittedIsWhatWasSent, Reset, Quiet, GoTo, ScreenTyped, RequestTyped,
    TablesTyped, RequestSound, ScreenSound, Submitting, Claimed
<1>12. HistorySound'
  BY DEF HistorySound, Reset, Quiet, Claimed
<1> QED BY <1>1, <1>2, <1>3, <1>4, <1>5, <1>6, <1>7, <1>8, <1>9, <1>10, <1>11, <1>12

LEMMA CheckReceiptKeeps ==
  ASSUME IInv, NEW r \in Requests, CheckReceipt(r)
  PROVE  IInv'
<1> USE NoneIsApart, FormsTyped
<1> USE DEF IInv, screen, request, drafts, claims
<1>1. ScreenTyped'
  BY DEF ScreenTyped, CheckReceipt, End, Waited, OnlyAt, Tables, AfterReading,
    SameReceipt, Steps, RequestSound
<1>2. RequestTyped'
  BY AnswersTyped, EndTyped, AtTyped
  DEF CheckReceipt, SameReceipt, Claimed, AfterReading, PCs
<1>3. TablesTyped'
  BY DEF TablesTyped, CheckReceipt, End, Waited, OnlyAt, Tables, AfterReading,
    SameReceipt, RequestSound
<1>4. RequestSound'
  BY DEF RequestSound, CheckReceipt, End, Waited, OnlyAt, Tables, AfterReading,
    SameReceipt, ScreenTyped, RequestTyped, TablesTyped, Drafted, Claimed
<1>5. FormSound'
  BY DEF FormSound, CheckReceipt, End, Waited, OnlyAt, Tables, AfterReading, SameReceipt,
    ScreenTyped, RequestTyped, TablesTyped, ScreenSound, RequestSound, Reading,
    Submitting, Drafted
<1>6. ScreenSound'
  BY DEF ScreenSound, CheckReceipt, End, Waited, OnlyAt, Tables, AfterReading,
    SameReceipt, ScreenTyped, RequestTyped, TablesTyped, RequestSound, FormSound,
    BusyIsWaiting, Reading, Submitting, Drafted, Claimed
<1>7. DraftsSound'
  BY DEF DraftsSound, CheckReceipt, End, Waited, OnlyAt, Tables, AfterReading,
    SameReceipt, TablesTyped, RequestTyped, RequestSound, Drafted, Claimed
<1>8. OneClaimPerReceipt'
  BY DEF OneClaimPerReceipt, CheckReceipt, End, Waited, OnlyAt, Tables, AfterReading,
    SameReceipt, TablesTyped, RequestTyped, DraftsSound, RequestSound, Drafted, Claimed
<1>9. ClaimHasItsImage'
  BY DEF ClaimHasItsImage, CheckReceipt, End, Waited, OnlyAt, Tables, AfterReading,
    SameReceipt, TablesTyped, RequestTyped, DraftsSound, RequestSound, Drafted, Claimed
<1>10. BusyIsWaiting'
  BY DEF BusyIsWaiting, CheckReceipt, End, Waited, OnlyAt, Tables, AfterReading,
    SameReceipt, ScreenTyped, RequestTyped
<1>11. SubmittedIsWhatWasSent'
  BY DEF SubmittedIsWhatWasSent, CheckReceipt, End, Waited, OnlyAt, Tables, AfterReading,
    SameReceipt, ScreenTyped, RequestTyped, TablesTyped, RequestSound, ScreenSound,
    Submitting, Claimed
<1>12. HistorySound'
  BY DEF HistorySound, CheckReceipt, Claimed
<1> QED BY <1>1, <1>2, <1>3, <1>4, <1>5, <1>6, <1>7, <1>8, <1>9, <1>10, <1>11, <1>12

LEMMA StoreReceiptKeeps ==
  ASSUME IInv, NEW r \in Requests, StoreReceipt(r)
  PROVE  IInv'
<1> USE NoneIsApart, FormsTyped
<1> USE DEF IInv, screen, request, drafts, claims
<1>1. ScreenTyped'
  BY DEF ScreenTyped, StoreReceipt, End, Waited, OnlyAt, Tables, Steps, RequestSound
<1>2. RequestTyped'
  BY DEF RequestTyped, StoreReceipt, End, Waited, OnlyAt, Tables, ScreenTyped, FormSound,
    PCs, Things
<1>3. TablesTyped'
  BY DEF TablesTyped, StoreReceipt, End, Waited, OnlyAt, Tables, RequestSound
<1>4. RequestSound'
  BY DEF RequestSound, StoreReceipt, End, Waited, OnlyAt, Tables, ScreenTyped,
    RequestTyped, TablesTyped, Drafted, Claimed
<1>5. FormSound'
  BY DEF FormSound, StoreReceipt, End, Waited, OnlyAt, Tables, ScreenTyped, RequestTyped,
    TablesTyped, ScreenSound, RequestSound, Reading, Submitting, Drafted
<1>6. ScreenSound'
  BY DEF ScreenSound, StoreReceipt, End, Waited, OnlyAt, Tables, ScreenTyped,
    RequestTyped, TablesTyped, RequestSound, FormSound, BusyIsWaiting, Reading,
    Submitting, Drafted, Claimed
<1>7. DraftsSound'
  BY DEF DraftsSound, StoreReceipt, End, Waited, OnlyAt, Tables, TablesTyped,
    RequestTyped, RequestSound, Drafted, Claimed
<1>8. OneClaimPerReceipt'
  BY DEF OneClaimPerReceipt, StoreReceipt, End, Waited, OnlyAt, Tables, TablesTyped,
    RequestTyped, DraftsSound, RequestSound, Drafted, Claimed
<1>9. ClaimHasItsImage'
  BY DEF ClaimHasItsImage, StoreReceipt, End, Waited, OnlyAt, Tables, TablesTyped,
    RequestTyped, DraftsSound, RequestSound, Drafted, Claimed
<1>10. BusyIsWaiting'
  BY DEF BusyIsWaiting, StoreReceipt, End, Waited, OnlyAt, Tables, ScreenTyped,
    RequestTyped
<1>11. SubmittedIsWhatWasSent'
  BY DEF SubmittedIsWhatWasSent, StoreReceipt, End, Waited, OnlyAt, Tables, ScreenTyped,
    RequestTyped, TablesTyped, RequestSound, ScreenSound, Submitting, Claimed
<1>12. HistorySound'
  BY DEF HistorySound, StoreReceipt, Claimed
<1> QED BY <1>1, <1>2, <1>3, <1>4, <1>5, <1>6, <1>7, <1>8, <1>9, <1>10, <1>11, <1>12

LEMMA CreateDraftKeeps ==
  ASSUME IInv, NEW r \in Requests, CreateDraft(r)
  PROVE  IInv'
<1> USE NoneIsApart, FormsTyped
<1> USE DEF IInv, screen, request, drafts, claims
<1>1. ScreenTyped'
  BY DEF ScreenTyped, CreateDraft, End, Waited, OnlyAt, Tables, IsLeast, Steps,
    RequestSound
<1>2. RequestTyped'
  BY AnswersTyped, EndTyped DEF CreateDraft
<1>3. TablesTyped'
  BY DEF TablesTyped, CreateDraft, End, Waited, OnlyAt, Tables, IsLeast, RequestSound
<1>4. RequestSound'
  BY DEF RequestSound, CreateDraft, End, Waited, OnlyAt, Tables, IsLeast, ScreenTyped,
    RequestTyped, TablesTyped, Drafted, Claimed
<1>5. FormSound'
  BY DEF FormSound, CreateDraft, End, Waited, OnlyAt, Tables, IsLeast, ScreenTyped,
    RequestTyped, TablesTyped, ScreenSound, RequestSound, Reading, Submitting, Drafted
<1>6. ScreenSound'
  BY DEF ScreenSound, CreateDraft, End, Waited, OnlyAt, Tables, IsLeast, ScreenTyped,
    RequestTyped, TablesTyped, RequestSound, FormSound, BusyIsWaiting, Reading,
    Submitting, Drafted, Claimed
<1>7. DraftsSound'
  BY DEF DraftsSound, CreateDraft, End, Waited, OnlyAt, Tables, IsLeast, TablesTyped,
    RequestTyped, RequestSound, Drafted, Claimed
<1>8. OneClaimPerReceipt'
  BY DEF OneClaimPerReceipt, CreateDraft, End, Waited, OnlyAt, Tables, IsLeast,
    TablesTyped, RequestTyped, DraftsSound, RequestSound, Drafted, Claimed
<1>9. ClaimHasItsImage'
  BY DEF ClaimHasItsImage, CreateDraft, End, Waited, OnlyAt, Tables, IsLeast, TablesTyped,
    RequestTyped, DraftsSound, RequestSound, Drafted, Claimed
<1>10. BusyIsWaiting'
  BY DEF BusyIsWaiting, CreateDraft, End, Waited, OnlyAt, Tables, IsLeast, ScreenTyped,
    RequestTyped
<1>11. SubmittedIsWhatWasSent'
  BY DEF SubmittedIsWhatWasSent, CreateDraft, End, Waited, OnlyAt, Tables, IsLeast,
    ScreenTyped, RequestTyped, TablesTyped, RequestSound, ScreenSound, Submitting, Claimed
<1>12. HistorySound'
  BY DEF HistorySound, CreateDraft, Claimed
<1> QED BY <1>1, <1>2, <1>3, <1>4, <1>5, <1>6, <1>7, <1>8, <1>9, <1>10, <1>11, <1>12

LEMMA ReadClockKeeps ==
  ASSUME IInv, NEW r \in Requests, ReadClock(r)
  PROVE  IInv'
<1> USE NoneIsApart, FormsTyped
<1> USE DEF IInv, screen, request, drafts, claims
<1>1. ScreenTyped'
  BY DEF ScreenTyped, ReadClock, End, Waited, OnlyAt, Tables, Steps, RequestSound
<1>2. RequestTyped'
  BY AnswersTyped, EndTyped, AtTyped DEF ReadClock, PCs
<1>3. TablesTyped'
  BY DEF TablesTyped, ReadClock, End, Waited, OnlyAt, Tables, RequestSound
<1>4. RequestSound'
  BY DEF RequestSound, ReadClock, End, Waited, OnlyAt, Tables, ScreenTyped, RequestTyped,
    TablesTyped, Drafted, Claimed
<1>5. FormSound'
  BY DEF FormSound, ReadClock, End, Waited, OnlyAt, Tables, ScreenTyped, RequestTyped,
    TablesTyped, ScreenSound, RequestSound, Reading, Submitting, Drafted
<1>6. ScreenSound'
  BY DEF ScreenSound, ReadClock, End, Waited, OnlyAt, Tables, ScreenTyped, RequestTyped,
    TablesTyped, RequestSound, FormSound, BusyIsWaiting, Reading, Submitting, Drafted,
    Claimed
<1>7. DraftsSound'
  BY DEF DraftsSound, ReadClock, End, Waited, OnlyAt, Tables, TablesTyped, RequestTyped,
    RequestSound, Drafted, Claimed
<1>8. OneClaimPerReceipt'
  BY DEF OneClaimPerReceipt, ReadClock, End, Waited, OnlyAt, Tables, TablesTyped,
    RequestTyped, DraftsSound, RequestSound, Drafted, Claimed
<1>9. ClaimHasItsImage'
  BY DEF ClaimHasItsImage, ReadClock, End, Waited, OnlyAt, Tables, TablesTyped,
    RequestTyped, DraftsSound, RequestSound, Drafted, Claimed
<1>10. BusyIsWaiting'
  BY DEF BusyIsWaiting, ReadClock, End, Waited, OnlyAt, Tables, ScreenTyped, RequestTyped
<1>11. SubmittedIsWhatWasSent'
  BY DEF SubmittedIsWhatWasSent, ReadClock, End, Waited, OnlyAt, Tables, ScreenTyped,
    RequestTyped, TablesTyped, RequestSound, ScreenSound, Submitting, Claimed
<1>12. HistorySound'
  BY DEF HistorySound, ReadClock, Claimed
<1> QED BY <1>1, <1>2, <1>3, <1>4, <1>5, <1>6, <1>7, <1>8, <1>9, <1>10, <1>11, <1>12

\* CreateClaim(r) as far as requests and claims see it.
NewClaim(r, c) ==
  /\ c \notin Claimed
  /\ claim_by' = [claim_by EXCEPT ![c] = who[r]]
  /\ claim_of' = [claim_of EXCEPT ![c] = draft_of[about[r]]]
  /\ accepted' = [accepted EXCEPT ![c] = Append(@, with[r])]
  /\ pc' = [pc EXCEPT ![r] = "read"]
  /\ about' = [about EXCEPT ![r] = c]
  /\ UNCHANGED <<with, answer>>

LEMMA CreateClaimKeeps ==
  ASSUME IInv, NEW r \in Requests, CreateClaim(r)
  PROVE  IInv'
<1> USE NoneIsApart, FormsTyped
<1> USE DEF IInv, screen, request, drafts, claims
<1>1. ScreenTyped'
  BY DEF ScreenTyped, CreateClaim, End, Waited, OnlyAt, Tables, MayConsume, ReceiptIsNew,
    SameReceipt, IsLeast, Steps, RequestSound
<1>2. RequestTyped'
  <2>1. with[r] \in Forms
    BY DEF RequestTyped
  <2>2. CASE ~MayConsume(r)
    BY <2>2, AnswersTyped, EndTyped DEF CreateClaim
  <2>3. CASE MayConsume(r)
    BY <2>1, <2>3 DEF CreateClaim, RequestTyped, PCs, Things
  <2> QED BY <2>2, <2>3
<1>3. TablesTyped'
  <2>1. who[r] \in Wallets /\ with[r] \in Forms /\ about[r] \in Drafts
    BY DEF RequestTyped, RequestSound, CreateClaim, Drafted
  <2>2. draft_of[about[r]] \in Expense \cup {None}
    BY <2>1 DEF TablesTyped
  <2>3. /\ draft_by' = draft_by /\ draft_of' = draft_of /\ members' = members
        /\ images' = images
    BY DEF CreateClaim, Tables
  <2>4. CASE UNCHANGED <<claim_by, claim_of, claim_fields, claim_state, draft_claim>>
    BY <2>3, <2>4 DEF TablesTyped
  <2>5. ASSUME NEW c \in Claims,
               claim_by' = [claim_by EXCEPT ![c] = who[r]],
               claim_of' = [claim_of EXCEPT ![c] = draft_of[about[r]]],
               claim_fields' = [claim_fields EXCEPT ![c] = with[r]],
               claim_state' = [claim_state EXCEPT ![c] = "submitted"],
               draft_claim' = [draft_claim EXCEPT ![about[r]] = c]
        PROVE  TablesTyped'
    BY <2>1, <2>2, <2>3, <2>5 DEF TablesTyped
  <2> QED BY <2>4, <2>5 DEF CreateClaim
<1>4. RequestSound'
  BY DEF RequestSound, CreateClaim, End, Waited, OnlyAt, Tables, MayConsume, ReceiptIsNew,
    SameReceipt, IsLeast, ScreenTyped, RequestTyped, TablesTyped, Drafted, Claimed
<1>5. FormSound'
  BY DEF FormSound, CreateClaim, End, Waited, OnlyAt, Tables, MayConsume, ReceiptIsNew,
    SameReceipt, IsLeast, ScreenTyped, RequestTyped, TablesTyped, ScreenSound,
    RequestSound, Reading, Submitting, Drafted
<1>6. ScreenSound'
  <2>1. CASE ~MayConsume(r)
    BY <2>1 DEF ScreenSound, CreateClaim, End, Waited, Tables, ScreenTyped, RequestTyped,
      TablesTyped, RequestSound, FormSound, BusyIsWaiting, Reading, Submitting, Drafted,
      Claimed
  <2>2. CASE MayConsume(r)
    <3>1. PICK c \in Claims : NewClaim(r, c)
      BY <2>2 DEF CreateClaim, NewClaim, IsLeast
    <3>2. with[r] \in Forms /\ about[r] \in Drafts
      BY DEF RequestTyped, RequestSound, CreateClaim, Drafted
    <3>3. /\ \A k \in Claims : \A f, g :
              HadThen(accepted[k], f, g) => HadThen(accepted'[k], f, g)
          /\ HadThen(accepted'[c], with[r], with[r])
      BY <3>1, <3>2, AcceptedGrows DEF NewClaim
    <3>4. /\ claim_of'[c] = draft_of[about[r]]
          /\ \A k \in Claimed : k \in Claims /\ claim_of'[k] = claim_of[k]
      BY <3>1 DEF NewClaim, TablesTyped, Claimed
    <3>5. ASSUME NEW t \in Tabs, waits'[t] # None
          PROVE  /\ step'[t] = "reading" => Reading(t, waits[t])'
                 /\ step'[t] = "submitting" => Submitting(t, waits[t])'
      <4>1. /\ waits'[t] = waits[t] /\ step'[t] = step[t] /\ waits[t] \in Requests
            /\ photo' = photo /\ sent' = sent /\ draft_of' = draft_of
            /\ answer' = answer /\ with' = with
        BY <3>1, <3>5 DEF CreateClaim, NewClaim, Tables, ScreenTyped
      <4>2. CASE waits[t] = r
        <5>1. pc[r] = "consume" /\ pc'[r] = "read" /\ about'[r] = c
          BY <3>1 DEF CreateClaim, NewClaim, RequestTyped
        <5> QED BY <3>3, <3>4, <3>5, <4>1, <4>2, <5>1 DEF ScreenSound, Reading, Submitting
      <4>3. CASE waits[t] # r
        <5>1. pc'[waits[t]] = pc[waits[t]] /\ about'[waits[t]] = about[waits[t]]
          BY <3>1, <4>1, <4>3 DEF NewClaim, RequestTyped
        <5>2. /\ pc[waits[t]] = "read" => about[waits[t]] \in Claimed
              /\ pc[waits[t]] = "answered" /\ answer[waits[t]].kind # "draft" =>
                   answer[waits[t]].id \in Claimed
          BY <4>1 DEF RequestSound
        <5> QED BY <3>3, <3>4, <3>5, <4>1, <5>1, <5>2 DEF ScreenSound, Reading, Submitting
      <4> QED BY <4>2, <4>3
    <3> QED BY <3>5 DEF ScreenSound
  <2> QED BY <2>1, <2>2
<1>7. DraftsSound'
  BY DEF DraftsSound, CreateClaim, End, Waited, OnlyAt, Tables, MayConsume, ReceiptIsNew,
    SameReceipt, IsLeast, TablesTyped, RequestTyped, RequestSound, Drafted, Claimed
<1>8. OneClaimPerReceipt'
  <2>1. CASE ~MayConsume(r)
    BY <2>1 DEF CreateClaim, OneClaimPerReceipt, Claimed, Drafted
  <2>2. CASE MayConsume(r)
    <3>1. PICK c \in Claims :
            /\ c \notin Claimed
            /\ claim_by' = [claim_by EXCEPT ![c] = who[r]]
            /\ claim_of' = [claim_of EXCEPT ![c] = draft_of[about[r]]]
            /\ draft_claim' = [draft_claim EXCEPT ![about[r]] = c]
            /\ draft_by' = draft_by /\ draft_of' = draft_of
      BY <2>2 DEF CreateClaim, IsLeast
    <3> DEFINE d == about[r]
    <3>2. /\ d \in Drafted /\ d \in Drafts /\ who[r] \in Wallets
          /\ draft_by[d] = who[r] /\ draft_claim[d] = None
          /\ \A k \in Claimed : claim_of[k] # draft_of[d]
      BY <2>2 DEF RequestSound, CreateClaim, Drafted, MayConsume, ReceiptIsNew, SameReceipt
    <3> HIDE DEF d
    <3>3. /\ Claimed' = Claimed \cup {c} /\ Drafted' = Drafted
          /\ claim_by'[c] = who[r] /\ claim_of'[c] = draft_of[d]
          /\ \A k \in Claims : k # c => claim_by'[k] = claim_by[k] /\ claim_of'[k] = claim_of[k]
          /\ draft_claim'[d] = c
          /\ \A x \in Drafts : x # d => draft_claim'[x] = draft_claim[x]
      BY <3>1, <3>2 DEF TablesTyped, Claimed, Drafted, d
    <3>4. ASSUME NEW k \in Claimed', NEW e \in Claimed', claim_of'[k] = claim_of'[e]
          PROVE  k = e
      BY <3>1, <3>2, <3>3, <3>4 DEF OneClaimPerReceipt, Claimed
    <3>5. \A x \in Drafts : draft_claim[x] # c
      BY <3>1 DEF DraftsSound
    <3>6. ASSUME NEW k \in Claimed'
          PROVE  \E x \in Drafted' :
                   /\ {y \in Drafted' : draft_claim'[y] = k} = {x}
                   /\ claim_by'[k] = draft_by'[x] /\ claim_of'[k] = draft_of'[x]
      <4>1. CASE k = c
        <5>1. {y \in Drafted' : draft_claim'[y] = c} = {d}
          BY <3>2, <3>3, <3>5 DEF Drafted
        <5> QED BY <3>1, <3>2, <3>3, <4>1, <5>1
      <4>2. CASE k # c
        <5>1. k \in Claimed /\ k \in Claims
          BY <3>3, <4>2 DEF Claimed
        <5>2. PICK x \in Drafted : /\ {y \in Drafted : draft_claim[y] = k} = {x}
                                   /\ claim_by[k] = draft_by[x] /\ claim_of[k] = draft_of[x]
          BY <5>1 DEF OneClaimPerReceipt
        <5>3. \A y \in Drafted : draft_claim'[y] = k <=> draft_claim[y] = k
          BY <3>2, <3>3, <4>2, <5>1 DEF Drafted
        <5>4. {y \in Drafted' : draft_claim'[y] = k} = {x}
          BY <3>3, <5>2, <5>3
        <5> QED BY <3>1, <3>3, <4>2, <5>1, <5>2, <5>4
      <4> QED BY <4>1, <4>2
    <3> QED BY <3>4, <3>6 DEF OneClaimPerReceipt
  <2> QED BY <2>1, <2>2
<1>9. ClaimHasItsImage'
  BY DEF ClaimHasItsImage, CreateClaim, End, Waited, OnlyAt, Tables, MayConsume,
    ReceiptIsNew, SameReceipt, IsLeast, TablesTyped, RequestTyped, DraftsSound,
    RequestSound, Drafted, Claimed
<1>10. BusyIsWaiting'
  BY DEF BusyIsWaiting, CreateClaim, End, Waited, OnlyAt, Tables, MayConsume,
    ReceiptIsNew, SameReceipt, IsLeast, ScreenTyped, RequestTyped
<1>11. SubmittedIsWhatWasSent'
  <2>1. CASE ~MayConsume(r)
    BY <2>1 DEF SubmittedIsWhatWasSent, CreateClaim, End, Tables, ScreenTyped, Claimed
  <2>2. CASE MayConsume(r)
    <3>1. PICK c \in Claims : NewClaim(r, c)
      BY <2>2 DEF CreateClaim, NewClaim, IsLeast
    <3>2. \A k \in Claims : \A f, g : HadThen(accepted[k], f, g) => HadThen(accepted'[k], f, g)
      BY <3>1, AcceptedGrows DEF NewClaim, RequestTyped
    <3>3. \A k \in Claimed : k \in Claims /\ k \in Claimed' /\ claim_of'[k] = claim_of[k]
      BY <3>1 DEF NewClaim, TablesTyped, Claimed, CreateClaim, RequestSound
    <3> QED BY <3>2, <3>3 DEF SubmittedIsWhatWasSent, CreateClaim, Tables
  <2> QED BY <2>1, <2>2
<1>12. HistorySound'
  <2>1. CASE ~MayConsume(r)
    BY <2>1 DEF HistorySound, CreateClaim, Claimed
  <2>2. CASE MayConsume(r)
    <3>1. PICK c \in Claims : NewClaim(r, c) /\ claim_fields' = [claim_fields EXCEPT ![c] = with[r]]
      BY <2>2 DEF CreateClaim, NewClaim, IsLeast
    <3>2. /\ accepted' \in [Claims -> Seq(Forms)]
          /\ \A k \in Claims : k # c => accepted'[k] = accepted[k]
          /\ Len(accepted'[c]) > 0 /\ accepted'[c][Len(accepted'[c])] = with[r]
      BY <3>1, AcceptedGrows DEF NewClaim, RequestTyped
    <3>3. \A k \in Claimed' : k # c => k \in Claimed /\ claim_fields'[k] = claim_fields[k]
      BY <3>1 DEF NewClaim, TablesTyped, Claimed
    <3>4. claim_fields'[c] = with[r]
      BY <3>1 DEF TablesTyped
    <3>5. \A k \in Claimed' : k \in Claims
      BY DEF Claimed
    <3> QED BY <3>2, <3>3, <3>4, <3>5 DEF HistorySound
  <2> QED BY <2>1, <2>2
<1> QED BY <1>1, <1>2, <1>3, <1>4, <1>5, <1>6, <1>7, <1>8, <1>9, <1>10, <1>11, <1>12

LEMMA ReadClaimKeeps ==
  ASSUME IInv, NEW r \in Requests, ReadClaim(r)
  PROVE  IInv'
<1> USE NoneIsApart, FormsTyped
<1> USE DEF IInv, screen, request, drafts, claims
<1>1. ScreenTyped'
  BY DEF ScreenTyped, ReadClaim, End, Waited, OnlyAt, Tables, Steps, RequestSound
<1>2. RequestTyped'
  <2>1. about[r] \in Claims /\ claim_fields[about[r]] \in Forms
    BY DEF TablesTyped, RequestSound, ReadClaim, Claimed
  <2> QED BY <2>1, AnswersTyped, EndTyped DEF ReadClaim
<1>3. TablesTyped'
  BY DEF TablesTyped, ReadClaim, End, Waited, OnlyAt, Tables, RequestSound
<1>4. RequestSound'
  BY DEF RequestSound, ReadClaim, End, Waited, OnlyAt, Tables, ScreenTyped,
    RequestTyped, TablesTyped, Drafted, Claimed
<1>5. FormSound'
  BY DEF FormSound, ReadClaim, End, Waited, OnlyAt, Tables, ScreenTyped,
    RequestTyped, TablesTyped, ScreenSound, RequestSound, Reading, Submitting, Drafted
<1>6. ScreenSound'
  <2>1. about[r] \in Claims /\ about[r] \in Claimed
    BY DEF RequestSound, ReadClaim, Claimed
  <2>2. \A f, g : HadThen(accepted[about[r]], f, g) =>
                 HadThen(accepted[about[r]], f, claim_fields[about[r]])
    BY <2>1, HadBeforeNow DEF HistorySound
  <2> QED BY <2>2 DEF ScreenSound, ReadClaim, End, Waited, Tables, ScreenTyped, RequestTyped,
    BusyIsWaiting, Reading, Submitting
<1>7. DraftsSound'
  BY DEF DraftsSound, ReadClaim, End, Waited, OnlyAt, Tables, TablesTyped,
    RequestTyped, RequestSound, Drafted, Claimed
<1>8. OneClaimPerReceipt'
  BY DEF OneClaimPerReceipt, ReadClaim, End, Waited, OnlyAt, Tables, TablesTyped,
    RequestTyped, DraftsSound, RequestSound, Drafted, Claimed
<1>9. ClaimHasItsImage'
  BY DEF ClaimHasItsImage, ReadClaim, End, Waited, OnlyAt, Tables, TablesTyped,
    RequestTyped, DraftsSound, RequestSound, Drafted, Claimed
<1>10. BusyIsWaiting'
  BY DEF BusyIsWaiting, ReadClaim, End, Waited, OnlyAt, Tables, ScreenTyped,
    RequestTyped
<1>11. SubmittedIsWhatWasSent'
  BY DEF SubmittedIsWhatWasSent, ReadClaim, End, Waited, OnlyAt, Tables,
    ScreenTyped, RequestTyped, TablesTyped, RequestSound, ScreenSound, Submitting, Claimed
<1>12. HistorySound'
  BY DEF HistorySound, ReadClaim, Claimed
<1> QED BY <1>1, <1>2, <1>3, <1>4, <1>5, <1>6, <1>7, <1>8, <1>9, <1>10, <1>11, <1>12

LEMMA JudgeCorrectionKeeps ==
  ASSUME IInv, NEW r \in Requests, JudgeCorrection(r)
  PROVE  IInv'
<1> USE NoneIsApart, FormsTyped
<1> USE DEF IInv, screen, request, drafts, claims
<1>1. ScreenTyped'
  BY DEF ScreenTyped, JudgeCorrection, End, Waited, OnlyAt, Tables, Steps, RequestSound
<1>2. RequestTyped'
  BY AnswersTyped, EndTyped, AtTyped DEF JudgeCorrection, PCs
<1>3. TablesTyped'
  BY DEF TablesTyped, JudgeCorrection, End, Waited, OnlyAt, Tables, RequestSound
<1>4. RequestSound'
  BY DEF RequestSound, JudgeCorrection, End, Waited, OnlyAt, Tables, ScreenTyped,
    RequestTyped, TablesTyped, Drafted, Claimed
<1>5. FormSound'
  BY DEF FormSound, JudgeCorrection, End, Waited, OnlyAt, Tables, ScreenTyped,
    RequestTyped, TablesTyped, ScreenSound, RequestSound, Reading, Submitting, Drafted
<1>6. ScreenSound'
  BY DEF ScreenSound, JudgeCorrection, End, Waited, OnlyAt, Tables, ScreenTyped,
    RequestTyped, TablesTyped, RequestSound, FormSound, BusyIsWaiting, Reading,
    Submitting, Drafted, Claimed
<1>7. DraftsSound'
  BY DEF DraftsSound, JudgeCorrection, End, Waited, OnlyAt, Tables, TablesTyped,
    RequestTyped, RequestSound, Drafted, Claimed
<1>8. OneClaimPerReceipt'
  BY DEF OneClaimPerReceipt, JudgeCorrection, End, Waited, OnlyAt, Tables, TablesTyped,
    RequestTyped, DraftsSound, RequestSound, Drafted, Claimed
<1>9. ClaimHasItsImage'
  BY DEF ClaimHasItsImage, JudgeCorrection, End, Waited, OnlyAt, Tables, TablesTyped,
    RequestTyped, DraftsSound, RequestSound, Drafted, Claimed
<1>10. BusyIsWaiting'
  BY DEF BusyIsWaiting, JudgeCorrection, End, Waited, OnlyAt, Tables, ScreenTyped,
    RequestTyped
<1>11. SubmittedIsWhatWasSent'
  BY DEF SubmittedIsWhatWasSent, JudgeCorrection, End, Waited, OnlyAt, Tables,
    ScreenTyped, RequestTyped, TablesTyped, RequestSound, ScreenSound, Submitting, Claimed
<1>12. HistorySound'
  BY DEF HistorySound, JudgeCorrection, Claimed
<1> QED BY <1>1, <1>2, <1>3, <1>4, <1>5, <1>6, <1>7, <1>8, <1>9, <1>10, <1>11, <1>12

LEMMA SaveCorrectionKeeps ==
  ASSUME IInv, NEW r \in Requests, SaveCorrection(r)
  PROVE  IInv'
<1> USE NoneIsApart, FormsTyped
<1> USE DEF IInv, screen, request, drafts, claims
<1>1. ScreenTyped'
  BY DEF ScreenTyped, SaveCorrection, End, Waited, OnlyAt, Tables, Steps, RequestSound
<1>2. RequestTyped'
  <2>1. about[r] \in Claims /\ with[r] \in Forms
    BY DEF RequestTyped, RequestSound, SaveCorrection, Claimed
  <2>2. claim_fields[about[r]] \in Forms
    BY <2>1 DEF TablesTyped
  <2> QED BY <2>1, <2>2, AnswersTyped, EndTyped DEF SaveCorrection
<1>3. TablesTyped'
  <2>1. about[r] \in Claims /\ with[r] \in Forms
    BY DEF RequestTyped, RequestSound, SaveCorrection, Claimed
  <2> QED BY <2>1 DEF TablesTyped, SaveCorrection, Tables
<1>4. RequestSound'
  BY DEF RequestSound, SaveCorrection, End, Waited, OnlyAt, Tables, ScreenTyped,
    RequestTyped, TablesTyped, Drafted, Claimed
<1>5. FormSound'
  BY DEF FormSound, SaveCorrection, End, Waited, OnlyAt, Tables, ScreenTyped,
    RequestTyped, TablesTyped, ScreenSound, RequestSound, Reading, Submitting, Drafted
<1>6. ScreenSound'
  <2> DEFINE c == about[r]
  <2>1. c \in Claims /\ c \in Claimed /\ with[r] \in Forms /\ pc[r] = "correct"
    BY DEF RequestSound, RequestTyped, SaveCorrection, Claimed
  <2>2. /\ \A k \in Claims : \A f, g : HadThen(accepted[k], f, g) => HadThen(accepted'[k], f, g)
        /\ claim_state[c] = "needs_correction" => HadThen(accepted'[c], with[r], with[r])
    BY <2>1, AcceptedGrows DEF SaveCorrection
  <2>3. /\ UNCHANGED <<step, photo, sent, waits, draft_of, claim_of>>
        /\ \A q \in Requests : q # r =>
             pc'[q] = pc[q] /\ about'[q] = about[q] /\ with'[q] = with[q]
             /\ answer'[q] = answer[q]
    BY DEF SaveCorrection, End, Tables, RequestTyped
  <2>4. ASSUME NEW t \in Tabs, waits[t] # None, waits[t] # r
        PROVE  /\ step[t] = "reading" => Reading(t, waits[t])'
               /\ step[t] = "submitting" => Submitting(t, waits[t])'
    <3>1. waits[t] \in Requests
      BY <2>4 DEF ScreenTyped
    <3>2. /\ pc[waits[t]] = "read" => about[waits[t]] \in Claims
          /\ pc[waits[t]] = "answered" /\ answer[waits[t]].kind # "draft" =>
               answer[waits[t]].id \in Claims
      BY <3>1 DEF RequestSound, Claimed
    <3> DEFINE q == waits[t]
    <3>3. /\ pc'[q] = pc[q] /\ about'[q] = about[q] /\ with'[q] = with[q]
          /\ answer'[q] = answer[q] /\ waits'[t] = q
      BY <2>3, <2>4, <3>1
    <3>4. /\ step[t] = "reading" => Reading(t, q)
          /\ step[t] = "submitting" => Submitting(t, q)
      BY <2>4 DEF ScreenSound
    <3>5. /\ \A f, g : pc[q] = "read" /\ HadThen(accepted[about[q]], f, g) =>
                       HadThen(accepted'[about[q]], f, g)
          /\ \A f, g : pc[q] = "answered" /\ answer[q].kind = "claim" =>
               (HadThen(accepted[answer[q].id], f, g) => HadThen(accepted'[answer[q].id], f, g))
      BY <2>2, <3>2
    <3> HIDE DEF c, q
    <3>6. Reading(t, q) => Reading(t, q)'
      BY <2>3, <3>3 DEF Reading, q
    <3>7. Submitting(t, q) => Submitting(t, q)'
      BY <2>3, <3>3, <3>5 DEF Submitting, q
    <3> QED BY <3>4, <3>6, <3>7 DEF q
  <2>5. ASSUME NEW t \in Tabs, waits[t] = r
        PROVE  /\ step[t] = "reading" => Reading(t, waits[t])'
               /\ step[t] = "submitting" => Submitting(t, waits[t])'
    <3>1. step[t] # "reading" /\ (step[t] = "submitting" => photo[t] = None)
      BY <2>1, <2>5 DEF ScreenSound, Reading, Submitting
    <3>2. step[t] = "submitting" => with[r] = sent[t]
      BY <2>1, <2>5 DEF ScreenSound, Submitting
    <3>3. Waited(r)
      BY <2>5 DEF Waited
    <3>4. /\ pc'[r] = "answered"
          /\ answer'[r] = IF claim_state[c] = "needs_correction"
                          THEN [kind |-> "claim", id |-> c, fields |-> with[r]]
                          ELSE [kind |-> "moved_on", id |-> c, fields |-> claim_fields[c]]
      BY <3>3 DEF SaveCorrection, End, RequestTyped
    <3> HIDE DEF c
    <3> QED BY <2>2, <2>3, <2>5, <3>1, <3>2, <3>4 DEF Reading, Submitting
  <2> QED BY <2>3, <2>4, <2>5 DEF ScreenSound
<1>7. DraftsSound'
  BY DEF DraftsSound, SaveCorrection, End, Waited, OnlyAt, Tables, TablesTyped,
    RequestTyped, RequestSound, Drafted, Claimed
<1>8. OneClaimPerReceipt'
  BY DEF OneClaimPerReceipt, SaveCorrection, End, Waited, OnlyAt, Tables, TablesTyped,
    RequestTyped, DraftsSound, RequestSound, Drafted, Claimed
<1>9. ClaimHasItsImage'
  BY DEF ClaimHasItsImage, SaveCorrection, End, Waited, OnlyAt, Tables, TablesTyped,
    RequestTyped, DraftsSound, RequestSound, Drafted, Claimed
<1>10. BusyIsWaiting'
  BY DEF BusyIsWaiting, SaveCorrection, End, Waited, OnlyAt, Tables, ScreenTyped,
    RequestTyped
<1>11. SubmittedIsWhatWasSent'
  <2>1. about[r] \in Claims /\ with[r] \in Forms
    BY DEF RequestSound, RequestTyped, SaveCorrection, Claimed
  <2>2. \A k \in Claims : \A f, g : HadThen(accepted[k], f, g) => HadThen(accepted'[k], f, g)
    BY <2>1, AcceptedGrows DEF SaveCorrection
  <2>3. UNCHANGED <<step, photo, sent, saved, claim_by, claim_of>> /\ Claimed \subseteq Claims
    BY DEF SaveCorrection, Tables, Claimed
  <2> QED BY <2>2, <2>3 DEF SubmittedIsWhatWasSent, Claimed
<1>12. HistorySound'
  <2> DEFINE c == about[r]
  <2>1. c \in Claims /\ with[r] \in Forms /\ Claimed' = Claimed /\ Claimed \subseteq Claims
    BY DEF RequestSound, RequestTyped, SaveCorrection, Claimed
  <2>2. CASE claim_state[c] = "needs_correction"
    <3>1. /\ accepted' = [accepted EXCEPT ![c] = Append(@, with[r])]
          /\ claim_fields' = [claim_fields EXCEPT ![c] = with[r]]
      BY <2>2 DEF SaveCorrection
    <3>2. /\ accepted' \in [Claims -> Seq(Forms)]
          /\ \A k \in Claims : k # c => accepted'[k] = accepted[k]
          /\ Len(accepted'[c]) > 0 /\ accepted'[c][Len(accepted'[c])] = with[r]
      BY <2>1, <3>1, AcceptedGrows
    <3>3. /\ claim_fields'[c] = with[r]
          /\ \A k \in Claims : k # c => claim_fields'[k] = claim_fields[k]
      BY <2>1, <3>1 DEF TablesTyped
    <3> HIDE DEF c
    <3> QED BY <2>1, <3>2, <3>3 DEF HistorySound
  <2>3. CASE claim_state[c] # "needs_correction"
    BY <2>1, <2>3 DEF HistorySound, SaveCorrection
  <2> QED BY <2>2, <2>3
<1> QED BY <1>1, <1>2, <1>3, <1>4, <1>5, <1>6, <1>7, <1>8, <1>9, <1>10, <1>11, <1>12

LEMMA FailKeeps ==
  ASSUME IInv, NEW r \in Requests, Fail(r)
  PROVE  IInv'
<1> USE NoneIsApart, FormsTyped
<1> USE DEF IInv, screen, request, drafts, claims
<1>1. ScreenTyped'
  BY DEF ScreenTyped, Fail, End, Waited, OnlyAt, Tables, Steps, RequestSound
<1>2. RequestTyped'
  BY AnswersTyped, EndTyped DEF Fail
<1>3. TablesTyped'
  BY DEF TablesTyped, Fail, End, Waited, OnlyAt, Tables, RequestSound
<1>4. RequestSound'
  BY DEF RequestSound, Fail, End, Waited, OnlyAt, Tables, ScreenTyped, RequestTyped,
    TablesTyped, Drafted, Claimed
<1>5. FormSound'
  BY DEF FormSound, Fail, End, Waited, OnlyAt, Tables, ScreenTyped, RequestTyped,
    TablesTyped, ScreenSound, RequestSound, Reading, Submitting, Drafted
<1>6. ScreenSound'
  BY DEF ScreenSound, Fail, End, Waited, OnlyAt, Tables, ScreenTyped, RequestTyped,
    TablesTyped, RequestSound, FormSound, BusyIsWaiting, Reading, Submitting, Drafted,
    Claimed
<1>7. DraftsSound'
  BY DEF DraftsSound, Fail, End, Waited, OnlyAt, Tables, TablesTyped, RequestTyped,
    RequestSound, Drafted, Claimed
<1>8. OneClaimPerReceipt'
  BY DEF OneClaimPerReceipt, Fail, End, Waited, OnlyAt, Tables, TablesTyped, RequestTyped,
    DraftsSound, RequestSound, Drafted, Claimed
<1>9. ClaimHasItsImage'
  BY DEF ClaimHasItsImage, Fail, End, Waited, OnlyAt, Tables, TablesTyped, RequestTyped,
    DraftsSound, RequestSound, Drafted, Claimed
<1>10. BusyIsWaiting'
  BY DEF BusyIsWaiting, Fail, End, Waited, OnlyAt, Tables, ScreenTyped, RequestTyped
<1>11. SubmittedIsWhatWasSent'
  BY DEF SubmittedIsWhatWasSent, Fail, End, Waited, OnlyAt, Tables, ScreenTyped,
    RequestTyped, TablesTyped, RequestSound, ScreenSound, Submitting, Claimed
<1>12. HistorySound'
  BY DEF HistorySound, Fail, Claimed
<1> QED BY <1>1, <1>2, <1>3, <1>4, <1>5, <1>6, <1>7, <1>8, <1>9, <1>10, <1>11, <1>12

LEMMA AddMemberKeeps ==
  ASSUME IInv, NEW w \in Wallets, AddMember(w)
  PROVE  IInv'
<1> USE NoneIsApart, FormsTyped
<1> USE DEF IInv, screen, request, drafts, claims
<1>1. ScreenTyped'
  BY DEF ScreenTyped, AddMember, Tables, Steps, RequestSound
<1>2. RequestTyped'
  BY DEF RequestTyped, AddMember, Tables, ScreenTyped, FormSound, PCs, Things
<1>3. TablesTyped'
  BY DEF TablesTyped, AddMember, Tables, RequestSound
<1>4. RequestSound'
  BY DEF RequestSound, AddMember, Tables, ScreenTyped, RequestTyped, TablesTyped, Drafted,
    Claimed
<1>5. FormSound'
  BY DEF FormSound, AddMember, Tables, ScreenTyped, RequestTyped, TablesTyped,
    ScreenSound, RequestSound, Reading, Submitting, Drafted
<1>6. ScreenSound'
  BY DEF ScreenSound, AddMember, Tables, ScreenTyped, RequestTyped, TablesTyped,
    RequestSound, FormSound, BusyIsWaiting, Reading, Submitting, Drafted, Claimed
<1>7. DraftsSound'
  BY DEF DraftsSound, AddMember, Tables, TablesTyped, RequestTyped, RequestSound, Drafted,
    Claimed
<1>8. OneClaimPerReceipt'
  BY DEF OneClaimPerReceipt, AddMember, Tables, TablesTyped, RequestTyped, DraftsSound,
    RequestSound, Drafted, Claimed
<1>9. ClaimHasItsImage'
  BY DEF ClaimHasItsImage, AddMember, Tables, TablesTyped, RequestTyped, DraftsSound,
    RequestSound, Drafted, Claimed
<1>10. BusyIsWaiting'
  BY DEF BusyIsWaiting, AddMember, Tables, ScreenTyped, RequestTyped
<1>11. SubmittedIsWhatWasSent'
  BY DEF SubmittedIsWhatWasSent, AddMember, Tables, ScreenTyped, RequestTyped,
    TablesTyped, RequestSound, ScreenSound, Submitting, Claimed
<1>12. HistorySound'
  BY DEF HistorySound, AddMember, Claimed
<1> QED BY <1>1, <1>2, <1>3, <1>4, <1>5, <1>6, <1>7, <1>8, <1>9, <1>10, <1>11, <1>12

LEMMA SendBackKeeps ==
  ASSUME IInv, NEW c \in Claims, SendBack(c)
  PROVE  IInv'
<1> USE NoneIsApart, FormsTyped
<1> USE DEF IInv, screen, request, drafts, claims
<1>1. ScreenTyped'
  BY DEF ScreenTyped, SendBack, Tables, Steps, RequestSound
<1>2. RequestTyped'
  BY DEF RequestTyped, SendBack, Tables, ScreenTyped, FormSound, PCs, Things
<1>3. TablesTyped'
  BY DEF TablesTyped, SendBack, Tables, RequestSound
<1>4. RequestSound'
  BY DEF RequestSound, SendBack, Tables, ScreenTyped, RequestTyped, TablesTyped, Drafted,
    Claimed
<1>5. FormSound'
  BY DEF FormSound, SendBack, Tables, ScreenTyped, RequestTyped, TablesTyped, ScreenSound,
    RequestSound, Reading, Submitting, Drafted
<1>6. ScreenSound'
  BY DEF ScreenSound, SendBack, Tables, ScreenTyped, RequestTyped, TablesTyped,
    RequestSound, FormSound, BusyIsWaiting, Reading, Submitting, Drafted, Claimed
<1>7. DraftsSound'
  BY DEF DraftsSound, SendBack, Tables, TablesTyped, RequestTyped, RequestSound, Drafted,
    Claimed
<1>8. OneClaimPerReceipt'
  BY DEF OneClaimPerReceipt, SendBack, Tables, TablesTyped, RequestTyped, DraftsSound,
    RequestSound, Drafted, Claimed
<1>9. ClaimHasItsImage'
  BY DEF ClaimHasItsImage, SendBack, Tables, TablesTyped, RequestTyped, DraftsSound,
    RequestSound, Drafted, Claimed
<1>10. BusyIsWaiting'
  BY DEF BusyIsWaiting, SendBack, Tables, ScreenTyped, RequestTyped
<1>11. SubmittedIsWhatWasSent'
  BY DEF SubmittedIsWhatWasSent, SendBack, Tables, ScreenTyped, RequestTyped, TablesTyped,
    RequestSound, ScreenSound, Submitting, Claimed
<1>12. HistorySound'
  BY DEF HistorySound, SendBack, Claimed
<1> QED BY <1>1, <1>2, <1>3, <1>4, <1>5, <1>6, <1>7, <1>8, <1>9, <1>10, <1>11, <1>12

LEMMA SignInAsKeeps ==
  ASSUME IInv, NEW t \in Movers, SignInAs(t)
  PROVE  IInv'
<1> USE NoneIsApart, FormsTyped
<1> USE DEF IInv, screen, request, drafts, claims
<1>1. ScreenTyped'
  BY ClaimIntakeAssumption DEF ScreenTyped, SignInAs
<1>2. RequestTyped'
  BY DEF RequestTyped, SignInAs, ScreenTyped, FormSound, PCs,
    Things
<1>3. TablesTyped'
  BY DEF TablesTyped, SignInAs, RequestSound
<1>4. RequestSound'
  BY DEF RequestSound, SignInAs, ScreenTyped, RequestTyped,
    TablesTyped, Drafted, Claimed
<1>5. FormSound'
  BY DEF FormSound, SignInAs, ScreenTyped, RequestTyped,
    TablesTyped, ScreenSound, RequestSound, Reading, Submitting, Drafted
<1>6. ScreenSound'
  BY DEF ScreenSound, SignInAs, ScreenTyped, RequestTyped,
    TablesTyped, RequestSound, FormSound, BusyIsWaiting, Reading, Submitting, Drafted,
    Claimed
<1>7. DraftsSound'
  BY DEF DraftsSound, SignInAs, TablesTyped, RequestTyped,
    RequestSound, Drafted, Claimed
<1>8. OneClaimPerReceipt'
  BY DEF OneClaimPerReceipt, SignInAs, TablesTyped, RequestTyped,
    DraftsSound, RequestSound, Drafted, Claimed
<1>9. ClaimHasItsImage'
  BY DEF ClaimHasItsImage, SignInAs, TablesTyped, RequestTyped,
    DraftsSound, RequestSound, Drafted, Claimed
<1>10. BusyIsWaiting'
  BY DEF BusyIsWaiting, SignInAs, ScreenTyped, RequestTyped
<1>11. SubmittedIsWhatWasSent'
  BY DEF SubmittedIsWhatWasSent, SignInAs, ScreenTyped,
    RequestTyped, TablesTyped, RequestSound, ScreenSound, Submitting, Claimed
<1>12. HistorySound'
  BY DEF HistorySound, SignInAs, Claimed
<1> QED BY <1>1, <1>2, <1>3, <1>4, <1>5, <1>6, <1>7, <1>8, <1>9, <1>10, <1>11, <1>12

-----------------------------------------------------------------------------
LEMMA InitIInv == ASSUME Init PROVE IInv
<1> USE ClaimIntakeAssumption, FormsTyped DEF Init
<1>5. HistorySound
  BY DEF HistorySound, Claimed
<1>1. ScreenTyped /\ RequestTyped /\ TablesTyped
  BY DEF ScreenTyped, RequestTyped, TablesTyped, Steps, PCs, Things, AnswerRecords
<1>2. RequestSound /\ FormSound /\ ScreenSound
  BY DEF RequestSound, FormSound, ScreenSound
<1>3. DraftsSound /\ OneClaimPerReceipt /\ ClaimHasItsImage
  BY DEF DraftsSound, OneClaimPerReceipt, ClaimHasItsImage, Drafted, Claimed
<1>4. BusyIsWaiting /\ SubmittedIsWhatWasSent
  BY DEF BusyIsWaiting, SubmittedIsWhatWasSent
<1> QED BY <1>1, <1>2, <1>3, <1>4, <1>5 DEF IInv

LEMMA StepIInv == ASSUME IInv, [Next]_vars PROVE IInv'
<1>1. CASE \E t \in Tabs : Screen(t)
  BY <1>1, CaptureKeeps, EnterByHandKeeps, SubmitManualKeeps, ConfirmKeeps, CorrectKeeps,
     ResubmitKeeps, ResetKeeps
  DEF Screen
<1>2. CASE \E t \in Tabs : Answers(t)
  BY <1>2, ReceiptReadKeeps, ManualAnsweredKeeps, ClaimAnsweredKeeps, MovedOnKeeps,
     RequestFailsKeeps
  DEF Answers
<1>3. CASE \E r \in Requests : Serve(r)
  BY <1>3, CheckReceiptKeeps, StoreReceiptKeeps, CreateDraftKeeps, ReadClockKeeps,
     CreateClaimKeeps, ReadClaimKeeps, JudgeCorrectionKeeps, SaveCorrectionKeeps, FailKeeps
  DEF Serve
<1>4. CASE World
  BY <1>4, AddMemberKeeps, SendBackKeeps, SignInAsKeeps DEF World
<1>5. CASE UNCHANGED vars
  <2> USE <1>5 DEF IInv, vars, screen, request, drafts, claims
  <2>1. ScreenTyped' /\ RequestTyped' /\ TablesTyped'
    BY DEF ScreenTyped, RequestTyped, TablesTyped
  <2>2. RequestSound' /\ FormSound' /\ HistorySound'
    BY DEF RequestSound, FormSound, HistorySound, Drafted, Claimed
  <2>3. ScreenSound'
    BY DEF ScreenSound, Reading, Submitting
  <2>4. DraftsSound' /\ OneClaimPerReceipt' /\ ClaimHasItsImage'
    BY DEF DraftsSound, OneClaimPerReceipt, ClaimHasItsImage, Drafted, Claimed
  <2>5. BusyIsWaiting' /\ SubmittedIsWhatWasSent'
    BY DEF BusyIsWaiting, SubmittedIsWhatWasSent, Claimed
  <2> QED BY <2>1, <2>2, <2>3, <2>4, <2>5
<1> QED BY <1>1, <1>2, <1>3, <1>4, <1>5 DEF Next

THEOREM Invariance == Spec => []IInv
  BY InitIInv, StepIInv, PTL DEF Spec

\* An event pays for a receipt once and a draft makes one claim, however many
\* screens and repeated submissions there are.
THEOREM ReceiptsAreClaimedOnce == Spec => []OneClaimPerReceipt
<1>1. IInv => OneClaimPerReceipt
  BY DEF IInv
<1> QED BY <1>1, Invariance, PTL

\* What a screen says was submitted is a claim of the receipt it shows that has
\* had the figures sent, beside those figures or a later correction of them.
THEOREM SubmittedIsTrue == Spec => []SubmittedIsWhatWasSent
<1>1. IInv => SubmittedIsWhatWasSent
  BY DEF IInv
<1> QED BY <1>1, Invariance, PTL

\* A photographed claim never lacks its image, wherever a request stopped.
THEOREM ImagesAreKept == Spec => []ClaimHasItsImage
<1>1. IInv => ClaimHasItsImage
  BY DEF IInv
<1> QED BY <1>1, Invariance, PTL

\* A busy screen waits for a request that is under way and is its own.
THEOREM NoScreenIsStuck == Spec => []BusyIsWaiting
<1>1. IInv => BusyIsWaiting
  BY DEF IInv
<1> QED BY <1>1, Invariance, PTL
=============================================================================
