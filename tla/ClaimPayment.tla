---------------------------- MODULE ClaimPayment ----------------------------
(***************************************************************************)
(* The life of one expense claim: its row in the `claims` table, the       *)
(* request handlers that judge, review, pay, reconcile and correct it      *)
(* (packages/web/src/server/claims, server/supabase/claim-repository.ts,   *)
(* server/sui/payment-executor.ts), and the chain the payments land on.    *)
(*                                                                         *)
(* A handler reads the row once, awaits the database, the mandate, the     *)
(* rate provider or the chain, and writes with one guarded UPDATE.  So one *)
(* action is one read or one guarded write, and between any two of them    *)
(* every other handler may run.  A guard that matches no row, a constraint *)
(* or trigger that raises, a crash and a thrown error all end the request: *)
(* nothing of a handler outlives it but what it wrote.                     *)
(***************************************************************************)
EXTENDS Integers, FiniteSets

CONSTANTS
  Handlers,   \* requests in progress at one time
  Figures,    \* what a member can declare: the amount stands for all of it
  Currency,   \* what the receipt is in, "USDC" or "MYR"
  MaxQuotes,  \* bound on the FX quotes issued
  MaxCap,     \* bound on the versions of the agent's owned objects
  None        \* SQL null

Quotes == 1..MaxQuotes
Caps == 1..MaxCap

States == {"submitted", "awaiting_review", "approved", "rejected",
           "needs_correction", "paying", "paid", "payment_failed"}
Outcomes == {"auto_pay", "review", "reject"}
Actions == {"approve", "reject", "request_correction"}

\* What a transaction transfers: the figure of a USDC claim, the target amount
\* of a quote, which nothing changes once the quote is issued.
Transfers == IF Currency = "MYR" THEN Quotes ELSE Figures

\* The digest hashes the transaction bytes: the transfer and the versions of
\* the agent's owned inputs (its AgentCap and its gas) it was built on.
Digests == [amount : Transfers, cap : Caps]

\* A PaymentResult, down to what later steps look at.
Payments == [ok : BOOLEAN, digest : Digests \cup {None}]

\* A stored decision or review; `of` is history, the figures it was made on.
Decisions == [outcome : Outcomes, of : Figures]
Reviews == [action : Actions, of : Figures]

ASSUME ClaimAssumption ==
  /\ Currency \in {"USDC", "MYR"}
  /\ MaxQuotes \in Nat
  /\ MaxCap \in Nat
  /\ Figures # {}
  /\ None \notin Figures \cup Quotes \cup Digests \cup Payments \cup Decisions \cup Reviews

VARIABLES
  \* the row
  state, figures, decision, review, fx_quote, payment, attempt,
  \* the clock of the quotes
  issued,      \* FX quotes issued so far
  expired,     \* the quotes whose lifetime is over
  \* a handler: where it stands, what it read, what it holds
  pc, read_figures, read_quote, digest, result,
  \* the chain
  cap,         \* version of the agent's owned objects
  sent,        \* digests some validator holds the signed transaction of
  landed,      \* digests executed with success: the money moved
  aborted,     \* digests executed with a Move abort: only gas was spent
  \* history
  orphaned     \* a digest on the row was closed by a result that names none

row == <<state, figures, decision, review, fx_quote, payment, attempt>>
quoteVars == <<issued, expired>>
local == <<pc, read_figures, read_quote, digest, result>>
chain == <<cap, sent, landed, aborted>>
vars == <<row, quoteVars, local, chain, orphaned>>

-----------------------------------------------------------------------------
(* Mutations: definitions with one plausible mistake each, used nowhere.    *)

\* The MYR figure is paid as if it were USDC.
TransferUnconverted(h) == read_figures[h]

\* The table without claims_payment_attempt_matches_result.
AnyResult(d) == TRUE

\* Reaching the chain is taken for success.
ConfirmedOnReceipt(d) == [ok |-> TRUE, digest |-> d]

\* The update of an attempt without its IS NULL guards.
RecordOverAttempt(h) ==
  /\ pc[h] = "prepared"
  /\ state = "paying"
  /\ attempt' = digest[h]
  /\ pc' = [pc EXCEPT ![h] = "recorded"]
  /\ UNCHANGED <<state, figures, decision, review, fx_quote, payment, quoteVars,
                 read_figures, read_quote, digest, result, chain, orphaned>>

\* The review is written on what was read, not on what is there.
ReviewUnguarded(h) ==
  /\ payment = None
  /\ pc[h] = "approve" /\ read_quote[h] # None => fx_quote = read_quote[h]

\* An approval that does not name its quote.
ReviewOfAnyQuote(h) == state = "awaiting_review" /\ review = None /\ payment = None

\* A member may still correct a claim that is approved.
ResubmitApproved(f) ==
  /\ state \in {"needs_correction", "approved"}
  /\ figures' = f
  /\ state' = "submitted"
  /\ decision' = None /\ fx_quote' = None /\ review' = None
  /\ UNCHANGED <<payment, attempt, quoteVars, local, chain, orphaned>>

\* An aborted transaction is taken for one that is not found.
LookupSuccess(h) ==
  /\ pc[h] = "lookup"
  /\ digest[h] \in landed
  /\ result' = [result EXCEPT ![h] = [ok |-> TRUE, digest |-> digest[h]]]
  /\ pc' = [pc EXCEPT ![h] = "looked"]
  /\ UNCHANGED <<row, quoteVars, read_figures, read_quote, digest, chain, orphaned>>

-----------------------------------------------------------------------------
(* What the handlers compute from a row *)

\* Not expired: nowMs < expiresAtMs.
Current(q) == q # None /\ q \notin expired

\* claimPaymentAmount(claim, nowMs) # null
AmountReady(q) == Currency = "USDC" \/ Current(q)

\* enforce_claim_fx_quote, on entering approved or paying from another state.
MayEnterPayment(reviewed) ==
  Currency = "MYR" =>
    /\ Current(fx_quote)
    /\ reviewed # None /\ reviewed.action = "approve"

\* evaluatePolicy over every mandate, category, date and confidence: a MYR
\* claim always fails fx_quote_approval, so it is never paid automatically.
PolicyOutcomes == IF Currency = "MYR" THEN {"review", "reject"} ELSE Outcomes

StateByOutcome(o) ==
  CASE o = "auto_pay" -> "approved"
    [] o = "review" -> "awaiting_review"
    [] o = "reject" -> "rejected"

StateByAction(a) ==
  CASE a = "approve" -> "approved"
    [] a = "reject" -> "rejected"
    [] a = "request_correction" -> "needs_correction"

Transfer(h) == IF Currency = "MYR" THEN read_quote[h] ELSE read_figures[h]

\* claims_payment_attempt_matches_result
ResultMatchesAttempt(d) == attempt = None \/ d = None \/ d = attempt

-----------------------------------------------------------------------------
(* The steps of a handler that touch only itself *)

GoTo(h, where) == pc' = [pc EXCEPT ![h] = where]

Remember(h, f, q) ==
  /\ read_figures' = [read_figures EXCEPT ![h] = f]
  /\ read_quote' = [read_quote EXCEPT ![h] = q]

Forget(h) ==
  /\ GoTo(h, "idle")
  /\ Remember(h, None, None)
  /\ digest' = [digest EXCEPT ![h] = None]
  /\ result' = [result EXCEPT ![h] = None]

\* A throw, a timeout, a crash, the mandate, the chain or the database not
\* answering, a guarded write that matched no row: the request ends there.
Abandon(h) ==
  /\ pc[h] # "idle"
  /\ Forget(h)
  /\ UNCHANGED <<row, quoteVars, chain, orphaned>>

-----------------------------------------------------------------------------
(* POST /process: createProcessClaimService *)

\* The claim is a MYR one whose quote is missing or was over when it was read.
NeedsQuote == Currency = "MYR" /\ ~Current(fx_quote)

\* One read of the row decides what the request goes on to do; where none of
\* these applies it answers from the row, or refuses, and writes nothing.
ProcessRead(h) ==
  /\ pc[h] = "idle"
  /\ \/ /\ state = "payment_failed" /\ NeedsQuote
        /\ GoTo(h, "restart")
     \/ /\ state = "submitted" /\ review = None /\ NeedsQuote
        /\ GoTo(h, "quote")
     \/ /\ state = "awaiting_review" /\ review = None /\ NeedsQuote
        /\ GoTo(h, "requote")
     \/ /\ state = "submitted" /\ decision = None
        /\ ~(review = None /\ NeedsQuote)
        /\ GoTo(h, "decide")
     \/ /\ state = "approved" /\ decision # None /\ decision.outcome = "auto_pay"
        /\ GoTo(h, "check")
  /\ Remember(h, figures, fx_quote)
  /\ UNCHANGED <<row, quoteVars, digest, result, chain, orphaned>>

\* restartExpiredPaymentQuote
RestartExpiredPaymentQuote(h) ==
  /\ pc[h] = "restart"
  /\ state = "payment_failed"
  /\ state' = "submitted"
  /\ decision' = None /\ review' = None /\ fx_quote' = None
  /\ payment' = None /\ attempt' = None
  /\ GoTo(h, "quote")
  /\ Remember(h, figures, None)
  /\ UNCHANGED <<figures, quoteVars, digest, result, chain, orphaned>>

\* deps.quotes, then saveFxQuote guarded on the row as it was read.  The quote
\* becomes known with the write, so it is issued here.
SaveFxQuote(h) ==
  /\ \/ pc[h] = "quote" /\ state = "submitted"
     \/ pc[h] = "requote" /\ state = "awaiting_review"
  /\ issued < MaxQuotes
  /\ figures = read_figures[h]
  /\ review = None /\ payment = None /\ attempt = None
  /\ fx_quote = read_quote[h]
  /\ issued' = issued + 1
  /\ fx_quote' = issued + 1
  /\ decision' = None
  /\ state' = "submitted"
  /\ GoTo(h, "decide")
  /\ Remember(h, figures, issued + 1)
  /\ UNCHANGED <<figures, review, payment, attempt, expired, digest, result, chain, orphaned>>

\* saveDecision's guard; the quote id is sent only when the claim has a quote.
DecisionFits(h) ==
  /\ state = "submitted" /\ decision = None
  /\ read_quote[h] # None => fx_quote = read_quote[h]

\* The policy is evaluated on the figures that were read, the row that comes
\* back is the one that is paid.
SaveDecision(h, o) ==
  /\ pc[h] = "decide"
  /\ DecisionFits(h)
  /\ o = "auto_pay" => MayEnterPayment(review)
  /\ decision' = [outcome |-> o, of |-> read_figures[h]]
  /\ state' = StateByOutcome(o)
  /\ IF o = "auto_pay"
     THEN GoTo(h, "check") /\ Remember(h, figures, fx_quote) /\ UNCHANGED <<digest, result>>
     ELSE Forget(h)
  /\ UNCHANGED <<figures, review, fx_quote, payment, attempt, quoteVars, chain, orphaned>>

\* No row matched: saveDecision reads the row again, and a concurrent winner's
\* decision is taken for this request's own.
LoseDecision(h) ==
  /\ pc[h] = "decide"
  /\ ~DecisionFits(h)
  /\ GoTo(h, "reread")
  /\ UNCHANGED <<row, quoteVars, read_figures, read_quote, digest, result, chain, orphaned>>

AdoptDecision(h) ==
  /\ pc[h] = "reread"
  /\ decision # None /\ decision.outcome = "auto_pay" /\ state = "approved"
  /\ GoTo(h, "check")
  /\ Remember(h, figures, fx_quote)
  /\ UNCHANGED <<row, quoteVars, digest, result, chain, orphaned>>

-----------------------------------------------------------------------------
(* POST /pay: createPayApprovedClaimService, and the end of /process *)

PayRead(h) ==
  /\ pc[h] = "idle"
  /\ state \in {"approved", "payment_failed"}
  /\ AmountReady(fx_quote)
  /\ Currency = "MYR" => review # None /\ review.action = "approve"
  /\ GoTo(h, IF state = "payment_failed" THEN "retry" ELSE "check")
  /\ Remember(h, figures, fx_quote)
  /\ UNCHANGED <<row, quoteVars, digest, result, chain, orphaned>>

\* The mandate no longer permits the payment: failApprovedPayment, which is
\* guarded on `approved` for a retry too.
FailApprovedPayment(h) ==
  /\ pc[h] \in {"check", "retry"}
  /\ state = "approved" /\ payment = None
  /\ state' = "payment_failed"
  /\ payment' = [ok |-> FALSE, digest |-> None]
  /\ Forget(h)
  /\ UNCHANGED <<figures, decision, review, fx_quote, attempt, quoteVars, chain, orphaned>>

\* reservePayment: exactly one request moves the claim to `paying`.
ReserveApproved(h) ==
  /\ pc[h] = "check"
  /\ state = "approved" /\ payment = None
  /\ state' = "paying"
  /\ GoTo(h, "reserved")
  /\ UNCHANGED <<figures, decision, review, fx_quote, payment, attempt, quoteVars,
                 read_figures, read_quote, digest, result, chain, orphaned>>

\* A retry clears the failed result, and with it the digest of its attempt.
ReserveFailed(h) ==
  /\ pc[h] = "retry"
  /\ state = "payment_failed"
  /\ MayEnterPayment(review)
  /\ state' = "paying" /\ payment' = None /\ attempt' = None
  /\ GoTo(h, "reserved")
  /\ UNCHANGED <<figures, decision, review, fx_quote, quoteVars,
                 read_figures, read_quote, digest, result, chain, orphaned>>

-----------------------------------------------------------------------------
(* createSuiPaymentExecutor.execute *)

\* Build and sign on the current versions of the agent's objects.
Prepare(h) ==
  /\ pc[h] = "reserved"
  /\ cap \in Caps
  /\ digest' = [digest EXCEPT ![h] = [amount |-> Transfer(h), cap |-> cap]]
  /\ GoTo(h, "prepared")
  /\ Remember(h, None, None)
  /\ UNCHANGED <<row, quoteVars, result, chain, orphaned>>

\* The build threw: a rejected result without a digest.
PreparationFails(h) ==
  /\ pc[h] = "reserved"
  /\ result' = [result EXCEPT ![h] = [ok |-> FALSE, digest |-> None]]
  /\ GoTo(h, "finish")
  /\ Remember(h, None, None)
  /\ UNCHANGED <<row, quoteVars, digest, chain, orphaned>>

RecordPaymentAttempt(h) ==
  /\ pc[h] = "prepared"
  /\ state = "paying" /\ payment = None /\ attempt = None
  /\ attempt' = digest[h]
  /\ GoTo(h, "recorded")
  /\ UNCHANGED <<state, figures, decision, review, fx_quote, payment, quoteVars,
                 read_figures, read_quote, digest, result, chain, orphaned>>

Submit(h) ==
  /\ pc[h] = "recorded"
  /\ sent' = sent \cup {digest[h]}
  /\ GoTo(h, "sent")
  /\ UNCHANGED <<row, quoteVars, read_figures, read_quote, digest, result,
                 cap, landed, aborted, orphaned>>

\* The chain's answer for digest d: mapConfirmed.
Confirmed(d) == [ok |-> d \in landed, digest |-> d]

Confirm(h) ==
  /\ pc[h] = "sent"
  /\ digest[h] \in landed \cup aborted
  /\ result' = [result EXCEPT ![h] = Confirmed(digest[h])]
  /\ GoTo(h, "finish")
  /\ UNCHANGED <<row, quoteVars, read_figures, read_quote, digest, chain, orphaned>>

\* finishPayment: guarded on the state and on there being no result yet, never
\* on the digest; the table's constraint compares the two digests if both exist.
FinishPayment(h) ==
  /\ pc[h] = "finish"
  /\ state = "paying" /\ payment = None
  /\ ResultMatchesAttempt(result[h].digest)
  /\ state' = IF result[h].ok THEN "paid" ELSE "payment_failed"
  /\ payment' = result[h]
  /\ orphaned' = (orphaned \/ (attempt # None /\ result[h].digest = None))
  /\ Forget(h)
  /\ UNCHANGED <<figures, decision, review, fx_quote, attempt, quoteVars, chain>>

-----------------------------------------------------------------------------
(* POST /reconcile: createReconcileClaimService *)

ReconcileRead(h) ==
  /\ pc[h] = "idle"
  /\ state = "paying" /\ attempt # None
  /\ digest' = [digest EXCEPT ![h] = attempt]
  /\ GoTo(h, "lookup")
  /\ UNCHANGED <<row, quoteVars, read_figures, read_quote, result, chain, orphaned>>

\* A transaction that is not found yet is reported as pending: nothing more is
\* written than the time of the check, which is not modelled.
Lookup(h) ==
  /\ pc[h] = "lookup"
  /\ digest[h] \in landed \cup aborted
  /\ result' = [result EXCEPT ![h] = Confirmed(digest[h])]
  /\ GoTo(h, "looked")
  /\ UNCHANGED <<row, quoteVars, read_figures, read_quote, digest, chain, orphaned>>

\* markPaymentAttemptChecked, guarded on the digest.
Unresolved(d) == state = "paying" /\ attempt = d /\ payment = None

MarkPaymentAttemptChecked(h) ==
  /\ pc[h] = "looked"
  /\ GoTo(h, IF Unresolved(digest[h]) THEN "finish" ELSE "relook")
  /\ UNCHANGED <<row, quoteVars, read_figures, read_quote, digest, result, chain, orphaned>>

\* No row matched and the row, read again, is not terminal with an attempt:
\* the result is written all the same.
PressOn(h) ==
  /\ pc[h] = "relook"
  /\ ~(state \in {"paid", "payment_failed"} /\ payment # None /\ attempt # None)
  /\ GoTo(h, "finish")
  /\ UNCHANGED <<row, quoteVars, read_figures, read_quote, digest, result, chain, orphaned>>

-----------------------------------------------------------------------------
(* POST /review: createReviewClaimService; POST /resubmit *)

\* The screen names the quote being approved, so the request is about the row
\* that was read.  A stored review is replayed without a write.
ReviewRead(h, a) ==
  /\ pc[h] = "idle"
  /\ review = None
  /\ state = "awaiting_review"
  /\ decision # None /\ decision.outcome = "review"
  /\ a = "approve" => AmountReady(fx_quote)
  /\ GoTo(h, a)
  /\ Remember(h, figures, fx_quote)
  /\ UNCHANGED <<row, quoteVars, digest, result, chain, orphaned>>

\* An approval of a quoted claim names the quote; of any other claim, nothing.
ReviewFits(h) ==
  /\ state = "awaiting_review" /\ review = None /\ payment = None
  /\ pc[h] = "approve" /\ read_quote[h] # None => fx_quote = read_quote[h]

ApplyReview(h) ==
  /\ pc[h] \in Actions
  /\ ReviewFits(h)
  /\ review' = [action |-> pc[h], of |-> read_figures[h]]
  /\ pc[h] = "approve" => MayEnterPayment(review')
  /\ state' = StateByAction(pc[h])
  /\ Forget(h)
  /\ UNCHANGED <<figures, decision, fx_quote, payment, attempt, quoteVars, chain, orphaned>>

\* resubmit: only the state is checked, at the read and again by the write, so
\* the request is the write.
Resubmit(f) ==
  /\ state = "needs_correction"
  /\ figures' = f
  /\ state' = "submitted"
  /\ decision' = None /\ fx_quote' = None /\ review' = None
  /\ UNCHANGED <<payment, attempt, quoteVars, local, chain, orphaned>>

-----------------------------------------------------------------------------
(* Time, and the chain *)

Expire(q) ==
  /\ q <= issued /\ q \notin expired
  /\ expired' = expired \cup {q}
  /\ UNCHANGED <<row, issued, local, chain, orphaned>>

\* Sui executes a transaction only on the versions its inputs were read at, at
\* most once; success or abort, the agent's objects move to the next version.
Execute(d) ==
  /\ d \in sent /\ d.cap = cap
  /\ \/ landed' = landed \cup {d} /\ UNCHANGED aborted
     \/ aborted' = aborted \cup {d} /\ UNCHANGED landed
  /\ cap' = cap + 1
  /\ UNCHANGED <<row, quoteVars, local, sent, orphaned>>

\* The agent pays another claim.
OtherPayment ==
  /\ cap \in Caps
  /\ cap' = cap + 1
  /\ UNCHANGED <<row, quoteVars, local, sent, landed, aborted, orphaned>>

-----------------------------------------------------------------------------
\* createClaim leaves the row like this.
Init ==
  /\ state = "submitted" /\ figures \in Figures
  /\ decision = None /\ review = None /\ fx_quote = None
  /\ payment = None /\ attempt = None
  /\ issued = 0 /\ expired = {}
  /\ pc = [h \in Handlers |-> "idle"]
  /\ read_figures = [h \in Handlers |-> None]
  /\ read_quote = [h \in Handlers |-> None]
  /\ digest = [h \in Handlers |-> None]
  /\ result = [h \in Handlers |-> None]
  /\ cap = 1
  /\ sent = {} /\ landed = {} /\ aborted = {}
  /\ orphaned = FALSE

Process(h) ==
  \/ ProcessRead(h) \/ RestartExpiredPaymentQuote(h) \/ SaveFxQuote(h)
  \/ \E o \in PolicyOutcomes : SaveDecision(h, o)
  \/ LoseDecision(h) \/ AdoptDecision(h)

Pay(h) ==
  \/ PayRead(h) \/ FailApprovedPayment(h) \/ ReserveApproved(h) \/ ReserveFailed(h)

Run(h) ==
  \/ Prepare(h) \/ PreparationFails(h) \/ RecordPaymentAttempt(h)
  \/ Submit(h) \/ Confirm(h) \/ FinishPayment(h)

Reconcile(h) ==
  \/ ReconcileRead(h) \/ Lookup(h) \/ MarkPaymentAttemptChecked(h) \/ PressOn(h)

Review(h) == (\E a \in Actions : ReviewRead(h, a)) \/ ApplyReview(h)

Environment ==
  \/ \E f \in Figures : Resubmit(f)
  \/ \E q \in Quotes : Expire(q)
  \/ \E d \in sent : Execute(d)
  \/ OtherPayment

Next ==
  \/ \E h \in Handlers :
       Process(h) \/ Pay(h) \/ Run(h) \/ Reconcile(h) \/ Review(h) \/ Abandon(h)
  \/ Environment

Spec == Init /\ [][Next]_vars

\* Every request ends.  The treasurer goes on asking for a reconciliation, and
\* not every one of those requests is cut off at the same step.
Fairness ==
  \A h \in Handlers :
    /\ WF_vars(Abandon(h))
    /\ SF_vars(ReconcileRead(h)) /\ SF_vars(Lookup(h))
    /\ SF_vars(MarkPaymentAttemptChecked(h)) /\ SF_vars(FinishPayment(h))

FairSpec == Spec /\ Fairness

-----------------------------------------------------------------------------
(* Properties *)

PCs ==
  {"idle", "restart", "quote", "requote", "decide", "reread", "check", "retry",
   "reserved", "prepared", "recorded", "sent", "finish", "lookup", "looked",
   "relook"} \cup Actions

RowTypeOK ==
  /\ state \in States /\ figures \in Figures
  /\ decision \in Decisions \cup {None}
  /\ review \in Reviews \cup {None}
  /\ fx_quote \in Quotes \cup {None}
  /\ payment \in Payments \cup {None}
  /\ attempt \in Digests \cup {None}
  /\ issued \in 0..MaxQuotes /\ expired \subseteq Quotes

HandlersTypeOK ==
  /\ pc \in [Handlers -> PCs]
  /\ read_figures \in [Handlers -> Figures \cup {None}]
  /\ read_quote \in [Handlers -> Quotes \cup {None}]
  /\ digest \in [Handlers -> Digests \cup {None}]
  /\ result \in [Handlers -> Payments \cup {None}]

ChainTypeOK ==
  /\ cap \in 1..MaxCap + 1
  /\ sent \subseteq Digests /\ landed \subseteq sent /\ aborted \subseteq sent
  /\ orphaned \in BOOLEAN

\* Every column, every local and the chain have their types; in particular what
\* is signed is an amount in the currency the payment is made in.
TypeOK == RowTypeOK /\ HandlersTypeOK /\ ChainTypeOK

\* The digest of any transaction that moved the money, or still could, is on
\* the row, whatever handlers crashed, retried or finished late -- as long as
\* no digest-less result closed a recorded attempt (see NeverPaidTwice).
PaymentIsOnRecord ==
  ~orphaned => \A d \in sent \ aborted : attempt = d

\* At most one transaction of the claim ever moves the money, under the same
\* condition.
PaidAtMostOnce == ~orphaned => Cardinality(landed) <= 1

\* A row says `paid` only of a transaction that landed, and its result is that
\* transaction's; a row with a result says the state the result says.
PaidRowIsTrue ==
  /\ state = "paid" => payment # None /\ payment.ok /\ payment.digest \in landed
  /\ payment # None => state = IF payment.ok THEN "paid" ELSE "payment_failed"

\* A MYR claim is never signed for without a treasurer's approval: a recorded
\* digest, and any money moved, is of a claim whose review is an approval.
RinggitNeedsApproval ==
  Currency = "MYR" /\ (attempt # None \/ state \in {"approved", "paying", "paid"}) =>
    review # None /\ review.action = "approve"

\* A payment is of figures that were judged: by the policy for an automatic
\* one, by the treasurer for an approval.
ApprovedFiguresWereJudged ==
  state \in {"approved", "paying", "paid"} =>
    \/ decision # None /\ decision.outcome = "auto_pay" /\ decision.of = figures
    \/ review # None /\ review.action = "approve" /\ review.of = figures

\* What moved is what the row says was to be paid.
PaidTheRowAmount ==
  \A d \in landed : d.amount = IF Currency = "MYR" THEN fx_quote ELSE figures

\* A rejected claim stays rejected, and no payment reaches the member after it.
RejectedIsFinal ==
  [][state = "rejected" =>
       state' = "rejected" /\ (~orphaned => landed' = landed)]_vars

\* A payment whose outcome the chain knows does not stay open.
SettledOnChain(d) == attempt = d /\ state = "paying" /\ d \in landed \cup aborted

ReconciledEventually ==
  \A d \in Digests : SettledOnChain(d) ~> ~(attempt = d /\ state = "paying")

\* The priority of the payment design, unconditionally.
NeverPaidTwice == Cardinality(landed) <= 1
=============================================================================
