------------------------- MODULE ClaimPayment_proofs -------------------------
(***************************************************************************)
(* A claim is paid at most once, for any number of concurrent requests,    *)
(* figures, quotes and retries, unless a result without a digest closed an *)
(* attempt that had one.                                                   *)
(*                                                                         *)
(* The argument.  A retry may clear the digest on the row only out of      *)
(* payment_failed.  There the stored result either names that very digest  *)
(* (the table's constraint), and results are truthful, so the transaction  *)
(* aborted; or it names none, which is the exception.  So whatever is on   *)
(* its way to the chain is on the row, and there is one row.               *)
(*                                                                         *)
(* Then, on top of that invariant, what is paid: a MYR claim only what its *)
(* treasurer approved (Reviewed), a USDC claim only its own figure         *)
(* (PaysFigures).                                                          *)
(***************************************************************************)
EXTENDS ClaimPayment, FiniteSetTheorems, TLAPS

BeforePayment ==
  {"submitted", "awaiting_review", "approved", "rejected", "needs_correction"}

\* What a result says of its transaction is so.
Truthful(r) ==
  /\ r.digest = None => ~r.ok
  /\ r.ok => r.digest \in landed
  /\ ~r.ok /\ r.digest # None => r.digest \in aborted

ChainSound ==
  /\ landed \cap aborted = {}
  /\ \A d \in landed \cup aborted : d.cap < cap

RowSound ==
  /\ state \in BeforePayment => payment = None /\ attempt = None
  /\ state = "paying" => payment = None
  /\ state = "paid" => payment # None /\ payment.ok
  /\ state = "payment_failed" =>
       /\ payment # None /\ ~payment.ok
       /\ attempt = None \/ payment.digest = attempt \/ orphaned
  /\ payment # None => Truthful(payment)
  /\ Currency = "MYR" /\ decision # None => decision.outcome # "auto_pay"

\* What handler k holds fits where it stands.
HandlerSound(k) ==
  /\ pc[k] \in {"decide"} \cup Actions => read_figures[k] \in Figures
  /\ pc[k] \in {"check", "retry", "reserved"} => Transfer(k) \in Transfers
  /\ pc[k] \in {"prepared", "recorded", "sent", "lookup"} => digest[k] \in Digests
  /\ pc[k] \in {"recorded", "sent"} =>
       orphaned \/ attempt = digest[k] \/ digest[k] \in aborted
  /\ pc[k] \in {"finish", "looked", "relook"} =>
       result[k] \in Payments /\ Truthful(result[k])

HandlersSound == \A k \in Handlers : HandlerSound(k)

IInv == TypeOK /\ ChainSound /\ RowSound /\ HandlersSound /\ PaymentIsOnRecord

-----------------------------------------------------------------------------
(* Frames: what a step leaves alone stays sound *)

\* Only handler h took a step.
Alone(h) ==
  \A k \in Handlers \ {h} :
    /\ pc'[k] = pc[k] /\ digest'[k] = digest[k] /\ result'[k] = result[k]
    /\ read_figures'[k] = read_figures[k] /\ read_quote'[k] = read_quote[k]

LEMMA NoneIsApart ==
  /\ None \notin Figures /\ None \notin Quotes /\ None \notin Digests
  /\ None \notin Payments /\ None \notin Decisions /\ None \notin Reviews
  BY ClaimAssumption

LEMMA PCsAre == Actions \subseteq PCs /\ "idle" \in PCs
  BY DEF PCs

\* A handler that did nothing stays sound while the chain goes on and the
\* attempt on the row is kept, or the transaction it replaces aborted.
LEMMA HandlerFrame ==
  ASSUME NEW k \in Handlers, HandlerSound(k),
         pc'[k] = pc[k], digest'[k] = digest[k], result'[k] = result[k],
         read_figures'[k] = read_figures[k], read_quote'[k] = read_quote[k],
         landed \subseteq landed', aborted \subseteq aborted',
         orphaned => orphaned',
         attempt' = attempt \/ attempt = None \/ attempt \in aborted \/ orphaned,
         digest[k] \in Digests => digest[k] # None
  PROVE  HandlerSound(k)'
  BY DEF HandlerSound, Truthful, Transfer

LEMMA OthersStaySound ==
  ASSUME IInv, NEW h \in Handlers, Alone(h),
         landed \subseteq landed', aborted \subseteq aborted',
         orphaned => orphaned',
         attempt' = attempt \/ attempt = None \/ attempt \in aborted \/ orphaned,
         HandlerSound(h)'
  PROVE  HandlersSound'
<1> SUFFICES ASSUME NEW k \in Handlers PROVE HandlerSound(k)'
  BY DEF HandlersSound
<1>1. CASE k = h
  BY <1>1
<1>2. CASE k # h
  <2>1. HandlerSound(k)
    BY DEF IInv, HandlersSound
  <2>2. digest[k] \in Digests => digest[k] # None
    BY NoneIsApart
  <2> QED BY <1>2, <2>1, <2>2, HandlerFrame DEF Alone
<1> QED BY <1>1, <1>2

\* A step of h that writes nothing shared.
LEMMA LocalStep ==
  ASSUME IInv, NEW h \in Handlers, Alone(h), HandlersTypeOK', HandlerSound(h)',
         UNCHANGED <<row, quoteVars, chain, orphaned>>
  PROVE  IInv'
<1>1. HandlersSound'
  BY OthersStaySound DEF chain, row
<1>2. RowTypeOK' /\ ChainTypeOK'
  BY DEF IInv, TypeOK, RowTypeOK, ChainTypeOK, row, quoteVars, chain
<1>3. ChainSound' /\ RowSound' /\ PaymentIsOnRecord'
  BY DEF IInv, ChainSound, RowSound, PaymentIsOnRecord, Truthful, row, chain
<1> QED BY <1>1, <1>2, <1>3 DEF IInv, TypeOK

\* A handler that ended is sound.
LEMMA Forgotten ==
  ASSUME IInv, NEW h \in Handlers, Forget(h)
  PROVE  Alone(h) /\ HandlersTypeOK' /\ HandlerSound(h)'
<1>1. pc' = [pc EXCEPT ![h] = "idle"]
      /\ read_figures' = [read_figures EXCEPT ![h] = None]
      /\ read_quote' = [read_quote EXCEPT ![h] = None]
      /\ digest' = [digest EXCEPT ![h] = None]
      /\ result' = [result EXCEPT ![h] = None]
  BY DEF Forget, GoTo, Remember
<1>2. pc \in [Handlers -> PCs]
      /\ read_figures \in [Handlers -> Figures \cup {None}]
      /\ read_quote \in [Handlers -> Quotes \cup {None}]
      /\ digest \in [Handlers -> Digests \cup {None}]
      /\ result \in [Handlers -> Payments \cup {None}]
  BY DEF IInv, TypeOK, HandlersTypeOK
<1>3. HandlersTypeOK'
  BY <1>1, <1>2, PCsAre DEF HandlersTypeOK
<1>4. Alone(h)
  BY <1>1, <1>2 DEF Alone
<1>5. pc'[h] = "idle"
  BY <1>1, <1>2
<1>6. HandlerSound(h)'
  BY <1>5 DEF HandlerSound, Actions
<1> QED BY <1>3, <1>4, <1>6

\* Where h goes and what it holds then, one value of each.
Moves(h, w, f, q, d, r) ==
  /\ pc' = [pc EXCEPT ![h] = w]
  /\ read_figures' = [read_figures EXCEPT ![h] = f]
  /\ read_quote' = [read_quote EXCEPT ![h] = q]
  /\ digest' = [digest EXCEPT ![h] = d]
  /\ result' = [result EXCEPT ![h] = r]

LEMMA Moved ==
  ASSUME IInv, NEW h \in Handlers, NEW w \in PCs,
         NEW f \in Figures \cup {None}, NEW q \in Quotes \cup {None},
         NEW d \in Digests \cup {None}, NEW r \in Payments \cup {None},
         Moves(h, w, f, q, d, r)
  PROVE  /\ Alone(h) /\ HandlersTypeOK'
         /\ pc'[h] = w /\ read_figures'[h] = f /\ read_quote'[h] = q
         /\ digest'[h] = d /\ result'[h] = r
<1>1. pc \in [Handlers -> PCs]
      /\ read_figures \in [Handlers -> Figures \cup {None}]
      /\ read_quote \in [Handlers -> Quotes \cup {None}]
      /\ digest \in [Handlers -> Digests \cup {None}]
      /\ result \in [Handlers -> Payments \cup {None}]
  BY DEF IInv, TypeOK, HandlersTypeOK
<1>2. HandlersTypeOK'
  BY <1>1 DEF HandlersTypeOK, Moves
<1>3. Alone(h)
  BY <1>1 DEF Alone, Moves
<1> QED BY <1>1, <1>2, <1>3 DEF Moves

\* A local that is left alone is the same local with its own value at h.
LEMMA Held ==
  ASSUME IInv, NEW h \in Handlers
  PROVE  /\ read_figures = [read_figures EXCEPT ![h] = read_figures[h]]
         /\ read_quote = [read_quote EXCEPT ![h] = read_quote[h]]
         /\ digest = [digest EXCEPT ![h] = digest[h]]
         /\ result = [result EXCEPT ![h] = result[h]]
         /\ pc[h] \in PCs
         /\ read_figures[h] \in Figures \cup {None}
         /\ read_quote[h] \in Quotes \cup {None}
         /\ digest[h] \in Digests \cup {None}
         /\ result[h] \in Payments \cup {None}
         /\ HandlerSound(h)
  BY DEF IInv, TypeOK, HandlersTypeOK, HandlersSound

LEMMA RowTyped ==
  ASSUME IInv
  PROVE  /\ figures \in Figures /\ fx_quote \in Quotes \cup {None}
         /\ attempt \in Digests \cup {None} /\ payment \in Payments \cup {None}
  BY DEF IInv, TypeOK, RowTypeOK

\* A request that read the row and goes to w.
LEMMA ReadMoved ==
  ASSUME IInv, NEW h \in Handlers, NEW w \in PCs,
         Moves(h, w, figures, fx_quote, digest[h], result[h])
  PROVE  /\ Alone(h) /\ HandlersTypeOK'
         /\ pc'[h] = w /\ read_figures'[h] = figures /\ read_quote'[h] = fx_quote
<1>1. figures \in Figures \cup {None} /\ fx_quote \in Quotes \cup {None}
  BY RowTyped
<1>2. digest[h] \in Digests \cup {None} /\ result[h] \in Payments \cup {None}
  BY Held
<1> QED BY <1>1, <1>2, Moved

\* A request that goes to w and keeps what it holds.
LEMMA WentOn ==
  ASSUME IInv, NEW h \in Handlers, NEW w \in PCs,
         Moves(h, w, read_figures[h], read_quote[h], digest[h], result[h])
  PROVE  /\ Alone(h) /\ HandlersTypeOK'
         /\ pc'[h] = w
         /\ read_figures'[h] = read_figures[h] /\ read_quote'[h] = read_quote[h]
         /\ digest'[h] = digest[h] /\ result'[h] = result[h]
<1>1. read_figures[h] \in Figures \cup {None} /\ read_quote[h] \in Quotes \cup {None}
  BY Held
<1>2. digest[h] \in Digests \cup {None} /\ result[h] \in Payments \cup {None}
  BY Held
<1> QED BY <1>1, <1>2, Moved

\* The transfer a request reads off a row that is ready to be paid.
LEMMA TransferTyped ==
  ASSUME IInv, NEW h \in Handlers, AmountReady(fx_quote),
         read_figures'[h] = figures, read_quote'[h] = fx_quote
  PROVE  Transfer(h)' \in Transfers
  BY RowTyped, ClaimAssumption DEF AmountReady, Current, Transfer, Transfers

-----------------------------------------------------------------------------
(* Steps that write nothing shared *)

LEMMA ProcessReadKeeps ==
  ASSUME IInv, NEW h \in Handlers, ProcessRead(h) PROVE IInv'
<1>1. PICK w \in {"restart", "quote", "requote", "decide", "check"} :
        /\ pc' = [pc EXCEPT ![h] = w]
        /\ w = "check" => decision # None /\ decision.outcome = "auto_pay"
  BY DEF ProcessRead, GoTo
<1>2. w \in PCs
  BY DEF PCs
<1>3. Moves(h, w, figures, fx_quote, digest[h], result[h])
      /\ UNCHANGED <<row, quoteVars, chain, orphaned>>
  BY <1>1, Held DEF Moves, ProcessRead, Remember
<1>4. /\ Alone(h) /\ HandlersTypeOK'
      /\ pc'[h] = w /\ read_figures'[h] = figures /\ read_quote'[h] = fx_quote
  BY <1>1, <1>2, <1>3, ReadMoved
<1>5. w = "check" => Transfer(h)' \in Transfers
  <2>1. w = "check" => Currency = "USDC"
    BY <1>1, ClaimAssumption DEF IInv, RowSound
  <2> QED BY <1>4, <2>1, TransferTyped DEF AmountReady
<1>6. HandlerSound(h)'
  BY <1>4, <1>5, RowTyped DEF HandlerSound, Actions
<1> QED BY <1>3, <1>4, <1>6, LocalStep

LEMMA LoseDecisionKeeps ==
  ASSUME IInv, NEW h \in Handlers, LoseDecision(h) PROVE IInv'
<1>1. "reread" \in PCs
  BY DEF PCs
<1>2. Moves(h, "reread", read_figures[h], read_quote[h], digest[h], result[h])
      /\ UNCHANGED <<row, quoteVars, chain, orphaned>>
  BY Held DEF Moves, LoseDecision, GoTo
<1>3. Alone(h) /\ HandlersTypeOK' /\ pc'[h] = "reread"
  BY <1>1, <1>2, Held, Moved
<1>4. HandlerSound(h)'
  BY <1>3 DEF HandlerSound, Actions
<1> QED BY <1>2, <1>3, <1>4, LocalStep

LEMMA AdoptDecisionKeeps ==
  ASSUME IInv, NEW h \in Handlers, AdoptDecision(h) PROVE IInv'
<1>1. "check" \in PCs
  BY DEF PCs
<1>2. Moves(h, "check", figures, fx_quote, digest[h], result[h])
      /\ UNCHANGED <<row, quoteVars, chain, orphaned>>
  BY Held DEF Moves, AdoptDecision, GoTo, Remember
<1>3. /\ Alone(h) /\ HandlersTypeOK'
      /\ pc'[h] = "check" /\ read_figures'[h] = figures /\ read_quote'[h] = fx_quote
  BY <1>1, <1>2, ReadMoved
<1>4. Currency = "USDC"
  BY ClaimAssumption DEF AdoptDecision, IInv, RowSound
<1>5. Transfer(h)' \in Transfers
  BY <1>3, <1>4, TransferTyped DEF AmountReady
<1>6. HandlerSound(h)'
  BY <1>3, <1>5 DEF HandlerSound, Actions
<1> QED BY <1>2, <1>3, <1>6, LocalStep

LEMMA PayReadKeeps ==
  ASSUME IInv, NEW h \in Handlers, PayRead(h) PROVE IInv'
<1>1. PICK w \in {"check", "retry"} : pc' = [pc EXCEPT ![h] = w]
  BY DEF PayRead, GoTo
<1>2. w \in PCs
  BY DEF PCs
<1>3. Moves(h, w, figures, fx_quote, digest[h], result[h])
      /\ AmountReady(fx_quote)
      /\ UNCHANGED <<row, quoteVars, chain, orphaned>>
  BY <1>1, Held DEF Moves, PayRead, Remember
<1>4. /\ Alone(h) /\ HandlersTypeOK'
      /\ pc'[h] = w /\ read_figures'[h] = figures /\ read_quote'[h] = fx_quote
  BY <1>1, <1>2, <1>3, ReadMoved
<1>5. Transfer(h)' \in Transfers
  BY <1>3, <1>4, TransferTyped
<1>6. HandlerSound(h)'
  BY <1>4, <1>5 DEF HandlerSound, Actions
<1> QED BY <1>3, <1>4, <1>6, LocalStep

LEMMA PrepareKeeps ==
  ASSUME IInv, NEW h \in Handlers, Prepare(h) PROVE IInv'
<1> DEFINE d == [amount |-> Transfer(h), cap |-> cap]
<1>1. d \in Digests
  BY Held DEF Prepare, HandlerSound, Digests
<1>2. "prepared" \in PCs
  BY DEF PCs
<1> HIDE DEF d
<1>3. Moves(h, "prepared", None, None, d, result[h])
      /\ UNCHANGED <<row, quoteVars, chain, orphaned>>
  BY Held DEF Moves, Prepare, GoTo, Remember, d
<1>4. Alone(h) /\ HandlersTypeOK' /\ pc'[h] = "prepared" /\ digest'[h] = d
  BY <1>1, <1>2, <1>3, Held, Moved
<1>5. HandlerSound(h)'
  BY <1>1, <1>4 DEF HandlerSound, Actions
<1> QED BY <1>3, <1>4, <1>5, LocalStep

LEMMA PreparationFailsKeeps ==
  ASSUME IInv, NEW h \in Handlers, PreparationFails(h) PROVE IInv'
<1> DEFINE r == [ok |-> FALSE, digest |-> None]
<1>1. r \in Payments /\ r.digest = None /\ ~r.ok
  BY DEF Payments
<1>2. "finish" \in PCs
  BY DEF PCs
<1> HIDE DEF r
<1>3. Moves(h, "finish", None, None, digest[h], r)
      /\ UNCHANGED <<row, quoteVars, chain, orphaned>>
  BY Held DEF Moves, PreparationFails, GoTo, Remember, r
<1>4. Alone(h) /\ HandlersTypeOK' /\ pc'[h] = "finish" /\ result'[h] = r
  <2>1. digest[h] \in Digests \cup {None} /\ r \in Payments \cup {None}
    BY <1>1, Held
  <2> QED BY <1>2, <1>3, <2>1, Moved
<1>5. HandlerSound(h)'
  BY <1>1, <1>4 DEF HandlerSound, Actions, Truthful
<1> QED BY <1>3, <1>4, <1>5, LocalStep

\* The chain's answer about an executed transaction is truthful.
LEMMA ConfirmedIsTruthful ==
  ASSUME IInv, NEW d \in Digests, d \in landed \cup aborted
  PROVE  Confirmed(d) \in Payments /\ Truthful(Confirmed(d)) /\ Confirmed(d).digest = d
<1>1. d # None
  BY NoneIsApart
<1> DEFINE r == [ok |-> d \in landed, digest |-> d]
<1>2. r \in Payments
  BY DEF Payments
<1>3. r.ok = (d \in landed) /\ r.digest = d
  OBVIOUS
<1> HIDE DEF r
<1>4. Truthful(r)
  BY <1>1, <1>3 DEF Truthful
<1> QED BY <1>2, <1>3, <1>4 DEF Confirmed, r

LEMMA ConfirmKeeps ==
  ASSUME IInv, NEW h \in Handlers, Confirm(h) PROVE IInv'
<1>1. digest[h] \in Digests /\ digest[h] \in landed \cup aborted
  BY Held DEF Confirm, HandlerSound
<1> DEFINE r == Confirmed(digest[h])
<1>2. r \in Payments /\ Truthful(r)
  BY <1>1, ConfirmedIsTruthful
<1>3. "finish" \in PCs
  BY DEF PCs
<1> HIDE DEF r
<1>4. Moves(h, "finish", read_figures[h], read_quote[h], digest[h], r)
      /\ UNCHANGED <<row, quoteVars, chain, orphaned>>
  BY Held DEF Moves, Confirm, GoTo, r
<1>5. Alone(h) /\ HandlersTypeOK' /\ pc'[h] = "finish" /\ result'[h] = r
  BY <1>2, <1>3, <1>4, Held, Moved
<1>6. HandlerSound(h)'
  BY <1>2, <1>4, <1>5 DEF HandlerSound, Actions, Truthful, chain
<1> QED BY <1>4, <1>5, <1>6, LocalStep

LEMMA ReconcileReadKeeps ==
  ASSUME IInv, NEW h \in Handlers, ReconcileRead(h) PROVE IInv'
<1>1. "lookup" \in PCs
  BY DEF PCs
<1>2. attempt \in Digests
  BY RowTyped DEF ReconcileRead
<1>3. Moves(h, "lookup", read_figures[h], read_quote[h], attempt, result[h])
      /\ UNCHANGED <<row, quoteVars, chain, orphaned>>
  BY Held DEF Moves, ReconcileRead, GoTo
<1>4. Alone(h) /\ HandlersTypeOK' /\ pc'[h] = "lookup" /\ digest'[h] = attempt
  BY <1>1, <1>2, <1>3, Held, Moved
<1>5. HandlerSound(h)'
  BY <1>2, <1>4 DEF HandlerSound, Actions
<1> QED BY <1>3, <1>4, <1>5, LocalStep

LEMMA LookupKeeps ==
  ASSUME IInv, NEW h \in Handlers, Lookup(h) PROVE IInv'
<1>1. digest[h] \in Digests /\ digest[h] \in landed \cup aborted
  BY Held DEF Lookup, HandlerSound
<1> DEFINE r == Confirmed(digest[h])
<1>2. r \in Payments /\ Truthful(r)
  BY <1>1, ConfirmedIsTruthful
<1>3. "looked" \in PCs
  BY DEF PCs
<1> HIDE DEF r
<1>4. Moves(h, "looked", read_figures[h], read_quote[h], digest[h], r)
      /\ UNCHANGED <<row, quoteVars, chain, orphaned>>
  BY Held DEF Moves, Lookup, GoTo, r
<1>5. Alone(h) /\ HandlersTypeOK' /\ pc'[h] = "looked" /\ result'[h] = r
  BY <1>2, <1>3, <1>4, Held, Moved
<1>6. HandlerSound(h)'
  BY <1>2, <1>4, <1>5 DEF HandlerSound, Actions, Truthful, chain
<1> QED BY <1>4, <1>5, <1>6, LocalStep

\* MarkPaymentAttemptChecked and PressOn carry the result of the lookup on.
LEMMA CarryOn ==
  ASSUME IInv, NEW h \in Handlers, NEW w \in {"finish", "relook"},
         pc[h] \in {"looked", "relook"},
         pc' = [pc EXCEPT ![h] = w],
         UNCHANGED <<row, quoteVars, read_figures, read_quote, digest, result,
                     chain, orphaned>>
  PROVE  IInv'
<1>1. w \in PCs /\ Moves(h, w, read_figures[h], read_quote[h], digest[h], result[h])
  BY Held DEF PCs, Moves
<1>2. result[h] \in Payments /\ Truthful(result[h])
  BY Held DEF HandlerSound
<1>3. Alone(h) /\ HandlersTypeOK' /\ pc'[h] = w /\ result'[h] = result[h]
  BY <1>1, Held, Moved
<1>4. HandlerSound(h)'
  BY <1>2, <1>3 DEF HandlerSound, Actions, Truthful, chain
<1> QED BY <1>3, <1>4, LocalStep

LEMMA MarkCheckedKeeps ==
  ASSUME IInv, NEW h \in Handlers, MarkPaymentAttemptChecked(h) PROVE IInv'
  BY CarryOn DEF MarkPaymentAttemptChecked, GoTo

LEMMA PressOnKeeps ==
  ASSUME IInv, NEW h \in Handlers, PressOn(h) PROVE IInv'
  BY CarryOn DEF PressOn, GoTo

LEMMA ReviewReadKeeps ==
  ASSUME IInv, NEW h \in Handlers, NEW a \in Actions, ReviewRead(h, a) PROVE IInv'
<1>1. a \in PCs
  BY PCsAre
<1>2. Moves(h, a, figures, fx_quote, digest[h], result[h])
      /\ UNCHANGED <<row, quoteVars, chain, orphaned>>
  BY Held DEF Moves, ReviewRead, GoTo, Remember
<1>3. Alone(h) /\ HandlersTypeOK' /\ pc'[h] = a /\ read_figures'[h] = figures
  BY <1>1, <1>2, ReadMoved
<1>4. HandlerSound(h)'
  BY <1>3, RowTyped DEF HandlerSound, Actions
<1> QED BY <1>2, <1>3, <1>4, LocalStep

LEMMA AbandonKeeps ==
  ASSUME IInv, NEW h \in Handlers, Abandon(h) PROVE IInv'
  BY Forgotten, LocalStep DEF Abandon

-----------------------------------------------------------------------------
(* Steps that write the row *)

\* What has to be shown of a step of h that leaves the chain alone.
LEMMA RowStep ==
  ASSUME IInv, NEW h \in Handlers, Alone(h), HandlersTypeOK', HandlerSound(h)',
         RowTypeOK', RowSound', PaymentIsOnRecord',
         UNCHANGED chain, orphaned => orphaned', orphaned' \in BOOLEAN,
         attempt' = attempt \/ attempt = None \/ attempt \in aborted \/ orphaned
  PROVE  IInv'
<1>1. HandlersSound'
  BY OthersStaySound DEF chain
<1>2. ChainTypeOK' /\ ChainSound'
  BY DEF IInv, TypeOK, ChainTypeOK, ChainSound, chain
<1> QED BY <1>1, <1>2 DEF IInv, TypeOK

LEMMA SaveFxQuoteKeeps ==
  ASSUME IInv, NEW h \in Handlers, SaveFxQuote(h) PROVE IInv'
<1> DEFINE q == issued + 1
<1>1. q \in Quotes /\ q \in 0..MaxQuotes /\ q # None
  BY NoneIsApart, ClaimAssumption DEF SaveFxQuote, IInv, TypeOK, RowTypeOK, Quotes
<1>2. "decide" \in PCs
  BY DEF PCs
<1> HIDE DEF q
<1>3. Moves(h, "decide", figures, q, digest[h], result[h])
  BY Held DEF SaveFxQuote, Moves, GoTo, Remember, q
<1>4. /\ state' = "submitted" /\ figures' = figures /\ decision' = None
      /\ review' = review /\ fx_quote' = q /\ payment' = payment /\ attempt' = attempt
      /\ issued' = q /\ expired' = expired /\ orphaned' = orphaned /\ chain' = chain
      /\ payment = None /\ attempt = None
  BY DEF SaveFxQuote, q
<1>5. Alone(h) /\ HandlersTypeOK' /\ pc'[h] = "decide" /\ read_figures'[h] = figures
  <2>1. figures \in Figures \cup {None} /\ q \in Quotes \cup {None}
    BY <1>1, RowTyped
  <2>2. digest[h] \in Digests \cup {None} /\ result[h] \in Payments \cup {None}
    BY Held
  <2> QED BY <1>2, <1>3, <2>1, <2>2, Moved
<1>6. HandlerSound(h)'
  BY <1>5, RowTyped DEF HandlerSound, Actions
<1>7. RowTypeOK'
  BY <1>1, <1>4 DEF IInv, TypeOK, RowTypeOK, States
<1>8. RowSound'
  BY <1>4 DEF RowSound, BeforePayment
<1>9. PaymentIsOnRecord'
  BY <1>4 DEF IInv, PaymentIsOnRecord, chain
<1>10. orphaned \in BOOLEAN
  BY DEF IInv, TypeOK, ChainTypeOK
<1> QED BY <1>4, <1>5, <1>6, <1>7, <1>8, <1>9, <1>10, RowStep

\* Out of payment_failed the digest on the row may go: it aborted.
LEMMA FailedAttemptAborted ==
  ASSUME IInv, state = "payment_failed", ~orphaned
  PROVE  /\ attempt = None \/ attempt \in aborted
         /\ sent \subseteq aborted
<1>1. payment # None /\ ~payment.ok /\ Truthful(payment)
      /\ (attempt = None \/ payment.digest = attempt)
  BY DEF IInv, RowSound
<1>2. attempt = None \/ attempt \in aborted
  BY <1>1 DEF Truthful
<1>3. \A d \in sent : d # None
  BY NoneIsApart DEF IInv, TypeOK, ChainTypeOK
<1> QED BY <1>2, <1>3 DEF IInv, PaymentIsOnRecord

LEMMA RestartKeeps ==
  ASSUME IInv, NEW h \in Handlers, RestartExpiredPaymentQuote(h) PROVE IInv'
<1>1. "quote" \in PCs
  BY DEF PCs
<1>2. Moves(h, "quote", figures, None, digest[h], result[h])
  BY Held DEF RestartExpiredPaymentQuote, Moves, GoTo, Remember
<1>3. /\ state = "payment_failed"
      /\ state' = "submitted" /\ figures' = figures /\ decision' = None
      /\ review' = None /\ fx_quote' = None /\ payment' = None /\ attempt' = None
      /\ issued' = issued /\ expired' = expired /\ orphaned' = orphaned /\ chain' = chain
  BY DEF RestartExpiredPaymentQuote, quoteVars
<1>4. Alone(h) /\ HandlersTypeOK' /\ pc'[h] = "quote"
  <2>1. figures \in Figures \cup {None}
    BY RowTyped
  <2>2. digest[h] \in Digests \cup {None} /\ result[h] \in Payments \cup {None}
    BY Held
  <2> QED BY <1>1, <1>2, <2>1, <2>2, Moved
<1>5. HandlerSound(h)'
  BY <1>4 DEF HandlerSound, Actions
<1>6. RowTypeOK'
  BY <1>3 DEF IInv, TypeOK, RowTypeOK, States
<1>7. RowSound'
  BY <1>3 DEF RowSound, BeforePayment
<1>8. PaymentIsOnRecord'
  BY <1>3, FailedAttemptAborted DEF PaymentIsOnRecord, chain
<1>9. attempt = None \/ attempt \in aborted \/ orphaned
  BY <1>3, FailedAttemptAborted
<1>10. orphaned \in BOOLEAN
  BY DEF IInv, TypeOK, ChainTypeOK
<1> QED BY <1>3, <1>4, <1>5, <1>6, <1>7, <1>8, <1>9, <1>10, RowStep

LEMMA ReserveFailedKeeps ==
  ASSUME IInv, NEW h \in Handlers, ReserveFailed(h) PROVE IInv'
<1>1. "reserved" \in PCs
  BY DEF PCs
<1>2. Moves(h, "reserved", read_figures[h], read_quote[h], digest[h], result[h])
  BY Held DEF ReserveFailed, Moves, GoTo
<1>3. /\ pc[h] = "retry" /\ state = "payment_failed"
      /\ state' = "paying" /\ figures' = figures /\ decision' = decision
      /\ review' = review /\ fx_quote' = fx_quote /\ payment' = None /\ attempt' = None
      /\ issued' = issued /\ expired' = expired /\ orphaned' = orphaned /\ chain' = chain
  BY DEF ReserveFailed, quoteVars
<1>4. /\ Alone(h) /\ HandlersTypeOK' /\ pc'[h] = "reserved"
      /\ read_figures'[h] = read_figures[h] /\ read_quote'[h] = read_quote[h]
  BY <1>1, <1>2, WentOn
<1>5. HandlerSound(h)'
  <2>1. Transfer(h) \in Transfers
    BY <1>3, Held DEF HandlerSound
  <2> QED BY <1>4, <2>1 DEF HandlerSound, Actions, Transfer
<1>6. RowTypeOK'
  BY <1>3 DEF IInv, TypeOK, RowTypeOK, States
<1>7. RowSound'
  BY <1>3 DEF IInv, RowSound, BeforePayment
<1>8. PaymentIsOnRecord'
  BY <1>3, FailedAttemptAborted DEF PaymentIsOnRecord, chain
<1>9. attempt = None \/ attempt \in aborted \/ orphaned
  BY <1>3, FailedAttemptAborted
<1>10. orphaned \in BOOLEAN
  BY DEF IInv, TypeOK, ChainTypeOK
<1> QED BY <1>3, <1>4, <1>5, <1>6, <1>7, <1>8, <1>9, <1>10, RowStep

LEMMA ReserveApprovedKeeps ==
  ASSUME IInv, NEW h \in Handlers, ReserveApproved(h) PROVE IInv'
<1>1. "reserved" \in PCs
  BY DEF PCs
<1>2. Moves(h, "reserved", read_figures[h], read_quote[h], digest[h], result[h])
  BY Held DEF ReserveApproved, Moves, GoTo
<1>3. /\ pc[h] = "check" /\ state = "approved" /\ payment = None /\ state' = "paying"
      /\ figures' = figures /\ decision' = decision /\ review' = review
      /\ fx_quote' = fx_quote /\ payment' = payment /\ attempt' = attempt
      /\ issued' = issued /\ expired' = expired /\ orphaned' = orphaned /\ chain' = chain
  BY DEF ReserveApproved, quoteVars
<1>4. /\ Alone(h) /\ HandlersTypeOK' /\ pc'[h] = "reserved"
      /\ read_figures'[h] = read_figures[h] /\ read_quote'[h] = read_quote[h]
  BY <1>1, <1>2, WentOn
<1>5. HandlerSound(h)'
  <2>1. Transfer(h) \in Transfers
    BY <1>3, Held DEF HandlerSound
  <2> QED BY <1>4, <2>1 DEF HandlerSound, Actions, Transfer
<1>6. RowTypeOK'
  BY <1>3 DEF IInv, TypeOK, RowTypeOK, States
<1>7. RowSound'
  BY <1>3 DEF IInv, RowSound, BeforePayment
<1>8. PaymentIsOnRecord'
  BY <1>3 DEF IInv, PaymentIsOnRecord, chain
<1>9. orphaned \in BOOLEAN
  BY DEF IInv, TypeOK, ChainTypeOK
<1> QED BY <1>3, <1>4, <1>5, <1>6, <1>7, <1>8, <1>9, RowStep

LEMMA SaveDecisionKeeps ==
  ASSUME IInv, NEW h \in Handlers, NEW o \in PolicyOutcomes, SaveDecision(h, o)
  PROVE  IInv'
<1> DEFINE v == [outcome |-> o, of |-> read_figures[h]]
<1>1. o \in Outcomes /\ (Currency = "MYR" => o # "auto_pay")
  BY DEF PolicyOutcomes, Outcomes
<1>2. v \in Decisions /\ v.outcome = o
  BY <1>1, Held DEF SaveDecision, HandlerSound, Decisions
<1> HIDE DEF v
<1>3. /\ state = "submitted" /\ decision' = v /\ state' = StateByOutcome(o)
      /\ figures' = figures /\ review' = review
      /\ fx_quote' = fx_quote /\ payment' = payment /\ attempt' = attempt
      /\ issued' = issued /\ expired' = expired /\ orphaned' = orphaned /\ chain' = chain
  BY DEF SaveDecision, DecisionFits, quoteVars, v
<1>4. state' \in BeforePayment /\ state' \in States
  BY <1>1, <1>3 DEF StateByOutcome, BeforePayment, States, Outcomes
<1>5. Alone(h) /\ HandlersTypeOK' /\ HandlerSound(h)'
  <2>1. CASE o = "auto_pay"
    <3>1. Moves(h, "check", figures, fx_quote, digest[h], result[h])
      BY <2>1, Held DEF SaveDecision, Moves, GoTo, Remember
    <3>2. /\ Alone(h) /\ HandlersTypeOK' /\ pc'[h] = "check"
          /\ read_figures'[h] = figures /\ read_quote'[h] = fx_quote
      BY <3>1, ReadMoved DEF PCs
    <3>3. Transfer(h)' \in Transfers
      BY <1>1, <2>1, <3>2, TransferTyped, ClaimAssumption DEF AmountReady
    <3> QED BY <3>2, <3>3 DEF HandlerSound, Actions
  <2>2. CASE o # "auto_pay"
    <3>1. Forget(h)
      BY <2>2 DEF SaveDecision
    <3> QED BY <3>1, Forgotten
  <2> QED BY <2>1, <2>2
<1>6. RowTypeOK'
  BY <1>2, <1>3, <1>4 DEF IInv, TypeOK, RowTypeOK
<1>7. payment = None /\ attempt = None
  BY <1>3 DEF IInv, RowSound, BeforePayment
<1>8. RowSound'
  BY <1>1, <1>2, <1>3, <1>4, <1>7 DEF RowSound, BeforePayment
<1>9. PaymentIsOnRecord'
  BY <1>3 DEF IInv, PaymentIsOnRecord, chain
<1>10. orphaned \in BOOLEAN
  BY DEF IInv, TypeOK, ChainTypeOK
<1> QED BY <1>3, <1>5, <1>6, <1>8, <1>9, <1>10, RowStep

LEMMA FailApprovedKeeps ==
  ASSUME IInv, NEW h \in Handlers, FailApprovedPayment(h) PROVE IInv'
<1> DEFINE r == [ok |-> FALSE, digest |-> None]
<1>1. r \in Payments /\ r.digest = None /\ ~r.ok /\ r # None
  <2>1. r \in Payments /\ r.digest = None /\ ~r.ok
    BY DEF Payments
  <2> QED BY <2>1, NoneIsApart
<1> HIDE DEF r
<1>2. /\ state = "approved" /\ state' = "payment_failed" /\ payment' = r
      /\ figures' = figures /\ decision' = decision /\ review' = review
      /\ fx_quote' = fx_quote /\ attempt' = attempt
      /\ issued' = issued /\ expired' = expired /\ orphaned' = orphaned /\ chain' = chain
      /\ Forget(h)
  BY DEF FailApprovedPayment, quoteVars, r
<1>3. Alone(h) /\ HandlersTypeOK' /\ HandlerSound(h)'
  BY <1>2, Forgotten
<1>4. RowTypeOK'
  BY <1>1, <1>2 DEF IInv, TypeOK, RowTypeOK, States
<1>5. attempt = None
  BY <1>2 DEF IInv, RowSound, BeforePayment
<1>6. RowSound'
  BY <1>1, <1>2, <1>5 DEF IInv, RowSound, BeforePayment, Truthful
<1>7. PaymentIsOnRecord'
  BY <1>2 DEF IInv, PaymentIsOnRecord, chain
<1>8. orphaned \in BOOLEAN
  BY DEF IInv, TypeOK, ChainTypeOK
<1> QED BY <1>2, <1>3, <1>4, <1>6, <1>7, <1>8, RowStep

LEMMA RecordKeeps ==
  ASSUME IInv, NEW h \in Handlers, RecordPaymentAttempt(h) PROVE IInv'
<1>1. "recorded" \in PCs
  BY DEF PCs
<1>2. Moves(h, "recorded", read_figures[h], read_quote[h], digest[h], result[h])
  BY Held DEF RecordPaymentAttempt, Moves, GoTo
<1>3. /\ pc[h] = "prepared" /\ state = "paying" /\ payment = None /\ attempt = None
      /\ state' = state /\ figures' = figures /\ decision' = decision
      /\ review' = review /\ fx_quote' = fx_quote /\ payment' = payment
      /\ attempt' = digest[h]
      /\ issued' = issued /\ expired' = expired /\ orphaned' = orphaned /\ chain' = chain
  BY DEF RecordPaymentAttempt, quoteVars
<1>4. /\ Alone(h) /\ HandlersTypeOK' /\ pc'[h] = "recorded" /\ digest'[h] = digest[h]
  BY <1>1, <1>2, WentOn
<1>5. digest[h] \in Digests
  BY <1>3, Held DEF HandlerSound
<1>6. HandlerSound(h)'
  BY <1>3, <1>4, <1>5 DEF HandlerSound, Actions
<1>7. RowTypeOK'
  BY <1>3, <1>5 DEF IInv, TypeOK, RowTypeOK
<1>8. RowSound'
  BY <1>3 DEF IInv, RowSound, BeforePayment
<1>9. PaymentIsOnRecord'
  <2>1. \A d \in sent : d # None
    BY NoneIsApart DEF IInv, TypeOK, ChainTypeOK
  <2> QED BY <1>3, <2>1 DEF IInv, PaymentIsOnRecord, chain
<1>10. orphaned \in BOOLEAN
  BY DEF IInv, TypeOK, ChainTypeOK
<1> QED BY <1>3, <1>4, <1>6, <1>7, <1>8, <1>9, <1>10, RowStep

LEMMA FinishKeeps ==
  ASSUME IInv, NEW h \in Handlers, FinishPayment(h) PROVE IInv'
<1>0. PICK r : r = result[h]
  OBVIOUS
<1>1. r \in Payments /\ Truthful(r) /\ r # None
  BY <1>0, Held, NoneIsApart DEF FinishPayment, HandlerSound
<1>2. r.ok \in BOOLEAN
  BY <1>1 DEF Payments
<1>3. /\ state = "paying" /\ payment = None
      /\ attempt = None \/ r.digest = None \/ r.digest = attempt
      /\ state' = IF r.ok THEN "paid" ELSE "payment_failed"
      /\ payment' = r
      /\ orphaned' = (orphaned \/ (attempt # None /\ r.digest = None))
      /\ figures' = figures /\ decision' = decision /\ review' = review
      /\ fx_quote' = fx_quote /\ attempt' = attempt
      /\ issued' = issued /\ expired' = expired /\ chain' = chain
      /\ Forget(h)
  BY <1>0 DEF FinishPayment, ResultMatchesAttempt, quoteVars
<1>4. Alone(h) /\ HandlersTypeOK' /\ HandlerSound(h)'
  BY <1>3, Forgotten
<1>5. RowTypeOK'
  BY <1>1, <1>2, <1>3 DEF IInv, TypeOK, RowTypeOK, States
<1>6. RowSound'
  <2>1. Truthful(r)'
    BY <1>1, <1>3 DEF Truthful, chain
  <2>2. ~r.ok => attempt = None \/ r.digest = attempt \/ orphaned'
    BY <1>3
  <2> QED BY <1>1, <1>2, <1>3, <2>1, <2>2 DEF IInv, RowSound, BeforePayment, Truthful, chain
<1>7. PaymentIsOnRecord'
  BY <1>3 DEF IInv, PaymentIsOnRecord, chain
<1>8. (orphaned => orphaned') /\ orphaned' \in BOOLEAN
  BY <1>3 DEF IInv, TypeOK, ChainTypeOK
<1> QED BY <1>3, <1>4, <1>5, <1>6, <1>7, <1>8, RowStep

LEMMA ApplyReviewKeeps ==
  ASSUME IInv, NEW h \in Handlers, ApplyReview(h) PROVE IInv'
<1> DEFINE v == [action |-> pc[h], of |-> read_figures[h]]
<1>1. pc[h] \in Actions /\ read_figures[h] \in Figures
  BY Held DEF ApplyReview, HandlerSound
<1>2. v \in Reviews
  BY <1>1 DEF Reviews
<1> HIDE DEF v
<1>3. /\ state = "awaiting_review" /\ state' = StateByAction(pc[h]) /\ review' = v
      /\ figures' = figures /\ decision' = decision
      /\ fx_quote' = fx_quote /\ payment' = payment /\ attempt' = attempt
      /\ issued' = issued /\ expired' = expired /\ orphaned' = orphaned /\ chain' = chain
      /\ Forget(h)
  BY DEF ApplyReview, ReviewFits, quoteVars, v
<1>4. state' \in BeforePayment /\ state' \in States
  BY <1>1, <1>3 DEF StateByAction, BeforePayment, States, Actions
<1>5. Alone(h) /\ HandlersTypeOK' /\ HandlerSound(h)'
  BY <1>3, Forgotten
<1>6. RowTypeOK'
  BY <1>2, <1>3, <1>4 DEF IInv, TypeOK, RowTypeOK
<1>7. payment = None /\ attempt = None
  BY <1>3 DEF IInv, RowSound, BeforePayment
<1>8. RowSound'
  BY <1>3, <1>4, <1>7 DEF IInv, RowSound, BeforePayment
<1>9. PaymentIsOnRecord'
  BY <1>3 DEF IInv, PaymentIsOnRecord, chain
<1>10. orphaned \in BOOLEAN
  BY DEF IInv, TypeOK, ChainTypeOK
<1> QED BY <1>3, <1>5, <1>6, <1>8, <1>9, <1>10, RowStep

-----------------------------------------------------------------------------
(* The chain, the clock and the member *)

\* No handler takes a step.
LEMMA HandlersStay ==
  ASSUME IInv, UNCHANGED local, landed \subseteq landed', aborted \subseteq aborted',
         orphaned' = orphaned, attempt' = attempt
  PROVE  HandlersSound' /\ HandlersTypeOK'
<1>1. HandlersTypeOK'
  BY DEF IInv, TypeOK, HandlersTypeOK, local
<1>2. ASSUME NEW k \in Handlers PROVE HandlerSound(k)'
  <2>1. HandlerSound(k)
    BY DEF IInv, HandlersSound
  <2>2. digest[k] \in Digests => digest[k] # None
    BY NoneIsApart
  <2> QED BY <2>1, <2>2, HandlerFrame DEF local
<1> QED BY <1>1, <1>2 DEF HandlersSound

LEMMA SubmitKeeps ==
  ASSUME IInv, NEW h \in Handlers, Submit(h) PROVE IInv'
<1>1. "sent" \in PCs
  BY DEF PCs
<1>2. Moves(h, "sent", read_figures[h], read_quote[h], digest[h], result[h])
  BY Held DEF Submit, Moves, GoTo
<1>3. /\ pc[h] = "recorded" /\ sent' = sent \cup {digest[h]}
      /\ UNCHANGED <<row, quoteVars, cap, landed, aborted, orphaned>>
  BY DEF Submit
<1>4. Alone(h) /\ HandlersTypeOK' /\ pc'[h] = "sent" /\ digest'[h] = digest[h]
  BY <1>1, <1>2, WentOn
<1>5. /\ digest[h] \in Digests
      /\ orphaned \/ attempt = digest[h] \/ digest[h] \in aborted
  BY <1>3, Held DEF HandlerSound
<1>6. HandlerSound(h)'
  BY <1>3, <1>4, <1>5 DEF HandlerSound, Actions, row
<1>7. HandlersSound'
  BY <1>3, <1>4, <1>6, OthersStaySound DEF row
<1>8. RowTypeOK' /\ ChainTypeOK'
  BY <1>3, <1>5 DEF IInv, TypeOK, RowTypeOK, ChainTypeOK, row, quoteVars
<1>9. RowSound' /\ ChainSound'
  BY <1>3 DEF IInv, RowSound, ChainSound, Truthful, row
<1>10. PaymentIsOnRecord'
  BY <1>3, <1>5 DEF IInv, PaymentIsOnRecord, row
<1> QED BY <1>4, <1>7, <1>8, <1>9, <1>10 DEF IInv, TypeOK

LEMMA ExecuteKeeps ==
  ASSUME IInv, NEW d \in sent, Execute(d) PROVE IInv'
<1>1. /\ d.cap = cap /\ cap' = cap + 1 /\ sent' = sent
      /\ UNCHANGED <<row, quoteVars, local, orphaned>>
      /\ \/ landed' = landed \cup {d} /\ aborted' = aborted
         \/ aborted' = aborted \cup {d} /\ landed' = landed
  BY DEF Execute
<1>2. d \in Digests /\ cap \in Caps /\ cap \in Nat /\ MaxCap \in Nat
  BY <1>1, ClaimAssumption DEF IInv, TypeOK, ChainTypeOK, Digests, Caps
<1>3. d \notin landed \cup aborted
  BY <1>1, <1>2 DEF IInv, ChainSound
<1>4. ChainSound'
  <2>1. landed' \cap aborted' = {}
    BY <1>1, <1>3 DEF IInv, ChainSound
  <2>2. \A e \in Digests : e.cap \in Nat
    BY DEF Digests, Caps
  <2>3. landed \cup aborted \subseteq Digests
    BY DEF IInv, TypeOK, ChainTypeOK
  <2>4. ASSUME NEW e \in landed' \cup aborted' PROVE e.cap < cap'
    <3>1. CASE e = d
      BY <1>1, <1>2, <3>1
    <3>2. CASE e # d
      <4>1. e \in landed \cup aborted
        BY <1>1, <3>2
      <4> QED BY <1>1, <1>2, <2>2, <2>3, <4>1 DEF IInv, ChainSound
    <3> QED BY <3>1, <3>2
  <2> QED BY <2>1, <2>4 DEF ChainSound
<1>5. ChainTypeOK'
  BY <1>1, <1>2 DEF IInv, TypeOK, ChainTypeOK, Caps
<1>6. HandlersSound' /\ HandlersTypeOK'
  BY <1>1, HandlersStay DEF row
<1>7. RowTypeOK' /\ RowSound'
  BY <1>1 DEF IInv, TypeOK, RowTypeOK, RowSound, Truthful, row, quoteVars
<1>8. PaymentIsOnRecord'
  BY <1>1 DEF IInv, PaymentIsOnRecord, row
<1> QED BY <1>4, <1>5, <1>6, <1>7, <1>8 DEF IInv, TypeOK

LEMMA OtherPaymentKeeps == ASSUME IInv, OtherPayment PROVE IInv'
<1>1. /\ cap \in Caps /\ cap' = cap + 1
      /\ UNCHANGED <<row, quoteVars, local, sent, landed, aborted, orphaned>>
  BY DEF OtherPayment
<1>2. HandlersSound' /\ HandlersTypeOK'
  BY <1>1, HandlersStay DEF row
<1>3. ChainTypeOK'
  BY <1>1, ClaimAssumption DEF IInv, TypeOK, ChainTypeOK, Caps
<1>4. ChainSound'
  <2>1. \A e \in Digests : e.cap \in Nat
    BY DEF Digests, Caps
  <2>2. landed \cup aborted \subseteq Digests
    BY DEF IInv, TypeOK, ChainTypeOK
  <2> QED BY <1>1, <2>1, <2>2 DEF IInv, ChainSound, Caps
<1>5. RowTypeOK' /\ RowSound' /\ PaymentIsOnRecord'
  BY <1>1 DEF IInv, TypeOK, RowTypeOK, RowSound, Truthful, PaymentIsOnRecord, row, quoteVars
<1> QED BY <1>2, <1>3, <1>4, <1>5 DEF IInv, TypeOK

LEMMA ExpireKeeps == ASSUME IInv, NEW q \in Quotes, Expire(q) PROVE IInv'
<1>1. expired' = expired \cup {q} /\ UNCHANGED <<row, issued, local, chain, orphaned>>
  BY DEF Expire
<1>2. HandlersSound' /\ HandlersTypeOK'
  BY <1>1, HandlersStay DEF row, chain
<1>3. RowTypeOK'
  BY <1>1 DEF IInv, TypeOK, RowTypeOK, row
<1>4. ChainTypeOK' /\ ChainSound' /\ RowSound' /\ PaymentIsOnRecord'
  BY <1>1 DEF IInv, TypeOK, ChainTypeOK, ChainSound, RowSound, Truthful, PaymentIsOnRecord,
              row, chain
<1> QED BY <1>2, <1>3, <1>4 DEF IInv, TypeOK

LEMMA ResubmitKeeps == ASSUME IInv, NEW f \in Figures, Resubmit(f) PROVE IInv'
<1>1. /\ state = "needs_correction" /\ state' = "submitted" /\ figures' = f
      /\ decision' = None /\ fx_quote' = None /\ review' = None
      /\ UNCHANGED <<payment, attempt, quoteVars, local, chain, orphaned>>
  BY DEF Resubmit
<1>2. HandlersSound' /\ HandlersTypeOK'
  BY <1>1, HandlersStay DEF chain
<1>3. RowTypeOK'
  BY <1>1 DEF IInv, TypeOK, RowTypeOK, quoteVars, States
<1>4. RowSound'
  BY <1>1 DEF IInv, RowSound, BeforePayment
<1>5. ChainTypeOK' /\ ChainSound' /\ PaymentIsOnRecord'
  BY <1>1 DEF IInv, TypeOK, ChainTypeOK, ChainSound, PaymentIsOnRecord, chain
<1> QED BY <1>2, <1>3, <1>4, <1>5 DEF IInv, TypeOK

-----------------------------------------------------------------------------
(* The invariant *)

LEMMA InitEstablishes == Init => IInv
<1> SUFFICES ASSUME Init PROVE IInv
  OBVIOUS
<1>1. TypeOK
  <2>1. 0 \in 0..MaxQuotes /\ 1 \in 1..MaxCap + 1
    BY ClaimAssumption
  <2>2. RowTypeOK
    BY <2>1 DEF Init, RowTypeOK, States
  <2>3. HandlersTypeOK
    BY DEF Init, HandlersTypeOK, PCs
  <2>4. ChainTypeOK
    BY <2>1 DEF Init, ChainTypeOK
  <2> QED BY <2>2, <2>3, <2>4 DEF TypeOK
<1>2. HandlersSound
  BY DEF Init, HandlersSound, HandlerSound, Actions
<1>3. ChainSound /\ RowSound /\ PaymentIsOnRecord
  BY DEF Init, ChainSound, RowSound, PaymentIsOnRecord, BeforePayment
<1> QED BY <1>1, <1>2, <1>3 DEF IInv

LEMMA StepKeeps == IInv /\ [Next]_vars => IInv'
<1> SUFFICES ASSUME IInv, [Next]_vars PROVE IInv'
  OBVIOUS
<1>1. ASSUME NEW h \in Handlers, Process(h) PROVE IInv'
  BY <1>1, ProcessReadKeeps, RestartKeeps, SaveFxQuoteKeeps, SaveDecisionKeeps,
     LoseDecisionKeeps, AdoptDecisionKeeps DEF Process
<1>2. ASSUME NEW h \in Handlers, Pay(h) PROVE IInv'
  BY <1>2, PayReadKeeps, FailApprovedKeeps, ReserveApprovedKeeps, ReserveFailedKeeps DEF Pay
<1>3. ASSUME NEW h \in Handlers, Run(h) PROVE IInv'
  BY <1>3, PrepareKeeps, PreparationFailsKeeps, RecordKeeps, SubmitKeeps, ConfirmKeeps,
     FinishKeeps DEF Run
<1>4. ASSUME NEW h \in Handlers, Reconcile(h) PROVE IInv'
  BY <1>4, ReconcileReadKeeps, LookupKeeps, MarkCheckedKeeps, PressOnKeeps DEF Reconcile
<1>5. ASSUME NEW h \in Handlers, Review(h) PROVE IInv'
  BY <1>5, ReviewReadKeeps, ApplyReviewKeeps DEF Review
<1>6. ASSUME NEW h \in Handlers, Abandon(h) PROVE IInv'
  BY <1>6, AbandonKeeps
<1>7. CASE Environment
  BY <1>7, ResubmitKeeps, ExpireKeeps, ExecuteKeeps, OtherPaymentKeeps DEF Environment
<1>8. CASE UNCHANGED vars
  <2>1. HandlersSound' /\ HandlersTypeOK'
    BY <1>8, HandlersStay DEF vars, row, chain
  <2> QED BY <1>8, <2>1
          DEF vars, row, quoteVars, chain, IInv, TypeOK, RowTypeOK, ChainTypeOK,
              ChainSound, RowSound, Truthful, PaymentIsOnRecord
<1> QED BY <1>1, <1>2, <1>3, <1>4, <1>5, <1>6, <1>7, <1>8 DEF Next

LEMMA Inductive == Spec => []IInv
<1>1. Init => IInv
  BY InitEstablishes
<1>2. IInv /\ [Next]_vars => IInv'
  BY StepKeeps
<1> QED BY <1>1, <1>2, PTL DEF Spec

-----------------------------------------------------------------------------
\* Every column, local and digest has its type; a MYR payment is signed for a
\* quote's target amount, never for the ringgit figure.
THEOREM TypeCorrect == Spec => []TypeOK
<1>1. IInv => TypeOK
  BY DEF IInv
<1> QED BY <1>1, Inductive, PTL

\* Whatever moved the money, or still can, is on the row.
THEOREM AlwaysOnRecord == Spec => []PaymentIsOnRecord
<1>1. IInv => PaymentIsOnRecord
  BY DEF IInv
<1> QED BY <1>1, Inductive, PTL

\* A claim is paid at most once.
THEOREM PaidOnce == Spec => []PaidAtMostOnce
<1>1. IInv => PaidAtMostOnce
  <2> SUFFICES ASSUME IInv, ~orphaned PROVE Cardinality(landed) <= 1
    BY DEF PaidAtMostOnce
  <2>1. landed \subseteq {attempt}
    BY DEF IInv, TypeOK, ChainTypeOK, ChainSound, PaymentIsOnRecord
  <2>2. IsFiniteSet({attempt}) /\ Cardinality({attempt}) = 1
    BY FS_Singleton
  <2>3. Cardinality(landed) <= Cardinality({attempt})
    BY <2>1, <2>2, FS_Subset
  <2> QED BY <2>2, <2>3
<1> QED BY <1>1, Inductive, PTL

\* What the row says of its payment is what the chain did.
THEOREM RowTellsTheTruth == Spec => []PaidRowIsTrue
<1>1. IInv => PaidRowIsTrue
  <2> SUFFICES ASSUME IInv PROVE PaidRowIsTrue
    OBVIOUS
  <2>1. state = "paid" => payment # None /\ payment.ok /\ payment.digest \in landed
    BY DEF IInv, RowSound, Truthful
  <2>2. payment # None => state = IF payment.ok THEN "paid" ELSE "payment_failed"
    <3>1. state \in BeforePayment \cup {"paying", "paid", "payment_failed"}
      BY DEF IInv, TypeOK, RowTypeOK, States, BeforePayment
    <3> QED BY <3>1 DEF IInv, RowSound
  <2> QED BY <2>1, <2>2 DEF PaidRowIsTrue
<1> QED BY <1>1, Inductive, PTL

-----------------------------------------------------------------------------
(* What a ringgit claim is paid on *)

\* From its approval on, a MYR claim carries the treasurer's review of the very
\* figures on the row.  An approval names the quote it was made under; figures
\* change only together with the quote, and no quote is issued twice.
Paying == {"approved", "paying", "paid", "payment_failed"}

Reviewed ==
  /\ state \in Paying => review # None /\ review.action = "approve" /\ review.of = figures
  /\ fx_quote # None => fx_quote <= issued
  /\ \A h \in Handlers :
       /\ read_quote[h] # None => read_quote[h] <= issued
       /\ pc[h] = "approve" =>
            read_quote[h] # None /\ (fx_quote = read_quote[h] => read_figures[h] = figures)

LEMMA ReviewedKeeps ==
  ASSUME Currency = "MYR", IInv, Reviewed, [Next]_vars
  PROVE  Reviewed'
<1> USE ClaimAssumption, NoneIsApart DEF IInv, TypeOK
<1>1. ASSUME NEW h \in Handlers, ProcessRead(h) PROVE Reviewed'
  BY <1>1 DEF Reviewed, Paying, RowTypeOK, HandlersTypeOK, ProcessRead, NeedsQuote, GoTo,
    Remember, row, quoteVars, local, chain, RowSound, BeforePayment, Quotes
<1>2. ASSUME NEW h \in Handlers, RestartExpiredPaymentQuote(h) PROVE Reviewed'
  BY <1>2 DEF Reviewed, Paying, RowTypeOK, HandlersTypeOK, RestartExpiredPaymentQuote,
    GoTo, Remember, row, quoteVars, local, chain, RowSound, BeforePayment, Quotes
<1>3. ASSUME NEW h \in Handlers, SaveFxQuote(h) PROVE Reviewed'
  BY <1>3 DEF Reviewed, Paying, RowTypeOK, HandlersTypeOK, SaveFxQuote, GoTo, Remember,
    row, quoteVars, local, chain, RowSound, BeforePayment, Quotes
<1>4. ASSUME NEW h \in Handlers, NEW o \in PolicyOutcomes, SaveDecision(h, o)
      PROVE  Reviewed'
  BY <1>4 DEF Reviewed, Paying, RowTypeOK, HandlersTypeOK, SaveDecision, StateByOutcome,
    PolicyOutcomes, Forget, GoTo, Remember, row, quoteVars, local, chain, RowSound,
    BeforePayment, Quotes
<1>5. ASSUME NEW h \in Handlers, LoseDecision(h) PROVE Reviewed'
  BY <1>5 DEF Reviewed, Paying, RowTypeOK, HandlersTypeOK, LoseDecision, GoTo, Remember,
    row, quoteVars, local, chain, RowSound, BeforePayment, Quotes
<1>6. ASSUME NEW h \in Handlers, AdoptDecision(h) PROVE Reviewed'
  BY <1>6 DEF Reviewed, Paying, RowTypeOK, HandlersTypeOK, AdoptDecision, GoTo, Remember,
    row, quoteVars, local, chain, RowSound, BeforePayment, Quotes
<1>7. ASSUME NEW h \in Handlers, PayRead(h) PROVE Reviewed'
  BY <1>7 DEF Reviewed, Paying, RowTypeOK, HandlersTypeOK, PayRead, GoTo, Remember, row,
    quoteVars, local, chain, RowSound, BeforePayment, Quotes
<1>8. ASSUME NEW h \in Handlers, FailApprovedPayment(h) PROVE Reviewed'
  BY <1>8 DEF Reviewed, Paying, RowTypeOK, HandlersTypeOK, FailApprovedPayment, Forget,
    GoTo, Remember, row, quoteVars, local, chain, RowSound, BeforePayment, Quotes
<1>9. ASSUME NEW h \in Handlers, ReserveApproved(h) PROVE Reviewed'
  BY <1>9 DEF Reviewed, Paying, RowTypeOK, HandlersTypeOK, ReserveApproved, GoTo,
    Remember, row, quoteVars, local, chain, RowSound, BeforePayment, Quotes
<1>10. ASSUME NEW h \in Handlers, ReserveFailed(h) PROVE Reviewed'
  BY <1>10 DEF Reviewed, Paying, RowTypeOK, HandlersTypeOK, ReserveFailed,
    MayEnterPayment, GoTo, Remember, row, quoteVars, local, chain, RowSound, BeforePayment,
    Quotes
<1>11. ASSUME NEW h \in Handlers, Prepare(h) PROVE Reviewed'
  BY <1>11 DEF Reviewed, Paying, RowTypeOK, HandlersTypeOK, Prepare, Transfer, GoTo,
    Remember, row, quoteVars, local, chain, RowSound, BeforePayment, Quotes
<1>12. ASSUME NEW h \in Handlers, PreparationFails(h) PROVE Reviewed'
  BY <1>12 DEF Reviewed, Paying, RowTypeOK, HandlersTypeOK, PreparationFails, GoTo,
    Remember, row, quoteVars, local, chain, RowSound, BeforePayment, Quotes
<1>13. ASSUME NEW h \in Handlers, RecordPaymentAttempt(h) PROVE Reviewed'
  BY <1>13 DEF Reviewed, Paying, RowTypeOK, HandlersTypeOK, RecordPaymentAttempt, GoTo,
    Remember, row, quoteVars, local, chain, RowSound, BeforePayment, Quotes
<1>14. ASSUME NEW h \in Handlers, Submit(h) PROVE Reviewed'
  BY <1>14 DEF Reviewed, Paying, RowTypeOK, HandlersTypeOK, Submit, GoTo, Remember, row,
    quoteVars, local, chain, RowSound, BeforePayment, Quotes
<1>15. ASSUME NEW h \in Handlers, Confirm(h) PROVE Reviewed'
  BY <1>15 DEF Reviewed, Paying, RowTypeOK, HandlersTypeOK, Confirm, GoTo, Remember, row,
    quoteVars, local, chain, RowSound, BeforePayment, Quotes
<1>16. ASSUME NEW h \in Handlers, FinishPayment(h) PROVE Reviewed'
  BY <1>16 DEF Reviewed, Paying, RowTypeOK, HandlersTypeOK, FinishPayment, Forget, GoTo,
    Remember, row, quoteVars, local, chain, RowSound, BeforePayment, Quotes
<1>17. ASSUME NEW h \in Handlers, ReconcileRead(h) PROVE Reviewed'
  BY <1>17 DEF Reviewed, Paying, RowTypeOK, HandlersTypeOK, ReconcileRead, GoTo, Remember,
    row, quoteVars, local, chain, RowSound, BeforePayment, Quotes
<1>18. ASSUME NEW h \in Handlers, Lookup(h) PROVE Reviewed'
  BY <1>18 DEF Reviewed, Paying, RowTypeOK, HandlersTypeOK, Lookup, GoTo, Remember, row,
    quoteVars, local, chain, RowSound, BeforePayment, Quotes
<1>19. ASSUME NEW h \in Handlers, MarkPaymentAttemptChecked(h) PROVE Reviewed'
  BY <1>19 DEF Reviewed, Paying, RowTypeOK, HandlersTypeOK, MarkPaymentAttemptChecked,
    Unresolved, GoTo, Remember, row, quoteVars, local, chain, RowSound, BeforePayment,
    Quotes
<1>20. ASSUME NEW h \in Handlers, PressOn(h) PROVE Reviewed'
  BY <1>20 DEF Reviewed, Paying, RowTypeOK, HandlersTypeOK, PressOn, GoTo, Remember, row,
    quoteVars, local, chain, RowSound, BeforePayment, Quotes
<1>21. ASSUME NEW h \in Handlers, NEW a \in Actions, ReviewRead(h, a) PROVE Reviewed'
  BY <1>21 DEF Reviewed, Paying, RowTypeOK, HandlersTypeOK, ReviewRead, AmountReady,
    Current, Actions, GoTo, Remember, row, quoteVars, local, chain, RowSound, BeforePayment,
    Quotes
<1>22. ASSUME NEW h \in Handlers, ApplyReview(h) PROVE Reviewed'
  BY <1>22 DEF Reviewed, Paying, RowTypeOK, HandlersTypeOK, ApplyReview, ReviewFits,
    StateByAction, MayEnterPayment, Forget, Actions, GoTo, Remember, row, quoteVars, local,
    chain, RowSound, BeforePayment, Quotes
<1>23. ASSUME NEW h \in Handlers, Abandon(h) PROVE Reviewed'
  BY <1>23 DEF Reviewed, Paying, RowTypeOK, HandlersTypeOK, Abandon, Forget, GoTo,
    Remember, row, quoteVars, local, chain, RowSound, BeforePayment, Quotes
<1>24. ASSUME NEW f \in Figures, Resubmit(f) PROVE Reviewed'
  BY <1>24 DEF Reviewed, Paying, RowTypeOK, HandlersTypeOK, Resubmit, GoTo, Remember, row,
    quoteVars, local, chain, RowSound, BeforePayment, Quotes
<1>25. ASSUME NEW q \in Quotes, Expire(q) PROVE Reviewed'
  BY <1>25 DEF Reviewed, Paying, RowTypeOK, HandlersTypeOK, Expire, GoTo, Remember, row,
    quoteVars, local, chain, RowSound, BeforePayment, Quotes
<1>26. ASSUME NEW d \in sent, Execute(d) PROVE Reviewed'
  BY <1>26 DEF Reviewed, Paying, RowTypeOK, HandlersTypeOK, Execute, GoTo, Remember, row,
    quoteVars, local, chain, RowSound, BeforePayment, Quotes
<1>27. ASSUME OtherPayment PROVE Reviewed'
  BY <1>27 DEF Reviewed, Paying, RowTypeOK, HandlersTypeOK, OtherPayment, GoTo, Remember,
    row, quoteVars, local, chain, RowSound, BeforePayment, Quotes
<1>28. ASSUME UNCHANGED vars PROVE Reviewed'
  BY <1>28 DEF Reviewed, Paying, RowTypeOK, HandlersTypeOK, vars, GoTo, Remember, row,
    quoteVars, local, chain, RowSound, BeforePayment, Quotes
<1>29. ASSUME NEW h \in Handlers, Process(h) PROVE Reviewed'
  BY <1>29, <1>1, <1>2, <1>3, <1>4, <1>5, <1>6 DEF Process
<1>30. ASSUME NEW h \in Handlers, Pay(h) PROVE Reviewed'
  BY <1>30, <1>7, <1>8, <1>9, <1>10 DEF Pay
<1>31. ASSUME NEW h \in Handlers, Run(h) PROVE Reviewed'
  BY <1>31, <1>11, <1>12, <1>13, <1>14, <1>15, <1>16 DEF Run
<1>32. ASSUME NEW h \in Handlers, Reconcile(h) PROVE Reviewed'
  BY <1>32, <1>17, <1>18, <1>19, <1>20 DEF Reconcile
<1>33. ASSUME NEW h \in Handlers, Review(h) PROVE Reviewed'
  BY <1>33, <1>21, <1>22 DEF Review
<1> QED
  BY <1>23, <1>24, <1>25, <1>26, <1>27, <1>28, <1>29, <1>30, <1>31, <1>32, <1>33 DEF Next,
    Environment

LEMMA ReviewedAtFirst == ASSUME Init PROVE Reviewed
  BY DEF Init, Reviewed, Paying

\* A MYR claim is never signed for, nor paid, without a treasurer's approval.
THEOREM ApprovedBeforePayment == Spec => []RinggitNeedsApproval
<1>1. CASE Currency = "MYR"
  <2>1. IInv /\ Reviewed => RinggitNeedsApproval
    BY DEF IInv, TypeOK, RowTypeOK, States, RowSound, BeforePayment, Reviewed, Paying,
           RinggitNeedsApproval
  <2>2. Init => IInv /\ Reviewed
    BY InitEstablishes, ReviewedAtFirst
  <2>3. IInv /\ Reviewed /\ [Next]_vars => IInv' /\ Reviewed'
    BY <1>1, StepKeeps, ReviewedKeeps
  <2> QED BY <2>1, <2>2, <2>3, PTL DEF Spec
<1>2. CASE Currency # "MYR"
  <2>1. RinggitNeedsApproval
    BY <1>2 DEF RinggitNeedsApproval
  <2> QED BY <2>1, PTL
<1> QED BY <1>1, <1>2

\* A MYR claim is paid on figures the treasurer saw, although reviews and
\* corrections cross.  (Of a USDC claim it is false: the run claim_unjudged.)
THEOREM RinggitIsJudged ==
  ASSUME Currency = "MYR"
  PROVE  Spec => []ApprovedFiguresWereJudged
<1>1. IInv /\ Reviewed => ApprovedFiguresWereJudged
  BY DEF Reviewed, Paying, ApprovedFiguresWereJudged
<1>2. Init => IInv /\ Reviewed
  BY InitEstablishes, ReviewedAtFirst
<1>3. IInv /\ Reviewed /\ [Next]_vars => IInv' /\ Reviewed'
  BY StepKeeps, ReviewedKeeps
<1> QED BY <1>1, <1>2, <1>3, PTL DEF Spec

-----------------------------------------------------------------------------
(* What a USDC claim is paid *)

\* Once a USDC claim is approved its figures stay, and everything a payment
\* holds, has recorded or has sent is of them.
PaysFigures ==
  /\ \A h \in Handlers :
       /\ pc[h] \notin {"restart", "quote", "requote"}
       /\ pc[h] \in {"check", "retry", "reserved"} =>
            state \in Paying /\ read_figures[h] = figures
       /\ pc[h] \in {"prepared", "recorded", "sent", "lookup"} =>
            state \in Paying /\ digest[h].amount = figures
  /\ attempt # None => state \in Paying /\ attempt.amount = figures
  /\ \A d \in sent : state \in Paying /\ d.amount = figures

LEMMA PaysFiguresKeeps ==
  ASSUME Currency = "USDC", IInv, PaysFigures, [Next]_vars
  PROVE  PaysFigures'
<1> USE ClaimAssumption, NoneIsApart DEF IInv, TypeOK
<1>1. ASSUME NEW h \in Handlers, ProcessRead(h) PROVE PaysFigures'
  BY <1>1 DEF PaysFigures, Paying, RowTypeOK, HandlersTypeOK, ChainTypeOK, ProcessRead,
    NeedsQuote, GoTo, Remember, row, quoteVars, local, chain, RowSound, BeforePayment
<1>2. ASSUME NEW h \in Handlers, RestartExpiredPaymentQuote(h) PROVE PaysFigures'
  BY <1>2 DEF PaysFigures, Paying, RowTypeOK, HandlersTypeOK, ChainTypeOK,
    RestartExpiredPaymentQuote, GoTo, Remember, row, quoteVars, local, chain, RowSound,
    BeforePayment
<1>3. ASSUME NEW h \in Handlers, SaveFxQuote(h) PROVE PaysFigures'
  BY <1>3 DEF PaysFigures, Paying, RowTypeOK, HandlersTypeOK, ChainTypeOK, SaveFxQuote,
    GoTo, Remember, row, quoteVars, local, chain, RowSound, BeforePayment
<1>4. ASSUME NEW h \in Handlers, NEW o \in PolicyOutcomes, SaveDecision(h, o)
      PROVE  PaysFigures'
  <2>1. state = "submitted" /\ figures' = figures /\ attempt' = attempt /\ sent' = sent
    BY <1>4 DEF SaveDecision, DecisionFits, chain
  <2>2. /\ \A k \in Handlers : pc[k] \notin {"check", "retry", "reserved", "prepared",
                                             "recorded", "sent", "lookup"}
        /\ attempt = None /\ sent = {}
    BY <2>1 DEF PaysFigures, Paying
  <2>3. \A k \in Handlers : k # h => pc'[k] = pc[k]
    BY <1>4 DEF SaveDecision, GoTo, Forget, HandlersTypeOK
  <2>4. \/ pc'[h] = "idle"
        \/ pc'[h] = "check" /\ state' = "approved" /\ read_figures'[h] = figures
    BY <1>4 DEF SaveDecision, GoTo, Forget, Remember, StateByOutcome, HandlersTypeOK
  <2> QED BY <2>1, <2>2, <2>3, <2>4 DEF PaysFigures, Paying
<1>5. ASSUME NEW h \in Handlers, LoseDecision(h) PROVE PaysFigures'
  BY <1>5 DEF PaysFigures, Paying, RowTypeOK, HandlersTypeOK, ChainTypeOK, LoseDecision,
    GoTo, Remember, row, quoteVars, local, chain, RowSound, BeforePayment
<1>6. ASSUME NEW h \in Handlers, AdoptDecision(h) PROVE PaysFigures'
  BY <1>6 DEF PaysFigures, Paying, RowTypeOK, HandlersTypeOK, ChainTypeOK, AdoptDecision,
    GoTo, Remember, row, quoteVars, local, chain, RowSound, BeforePayment
<1>7. ASSUME NEW h \in Handlers, PayRead(h) PROVE PaysFigures'
  BY <1>7 DEF PaysFigures, Paying, RowTypeOK, HandlersTypeOK, ChainTypeOK, PayRead, GoTo,
    Remember, row, quoteVars, local, chain, RowSound, BeforePayment
<1>8. ASSUME NEW h \in Handlers, FailApprovedPayment(h) PROVE PaysFigures'
  BY <1>8 DEF PaysFigures, Paying, RowTypeOK, HandlersTypeOK, ChainTypeOK,
    FailApprovedPayment, Forget, GoTo, Remember, row, quoteVars, local, chain, RowSound,
    BeforePayment
<1>9. ASSUME NEW h \in Handlers, ReserveApproved(h) PROVE PaysFigures'
  BY <1>9 DEF PaysFigures, Paying, RowTypeOK, HandlersTypeOK, ChainTypeOK,
    ReserveApproved, GoTo, Remember, row, quoteVars, local, chain, RowSound, BeforePayment
<1>10. ASSUME NEW h \in Handlers, ReserveFailed(h) PROVE PaysFigures'
  BY <1>10 DEF PaysFigures, Paying, RowTypeOK, HandlersTypeOK, ChainTypeOK, ReserveFailed,
    MayEnterPayment, GoTo, Remember, row, quoteVars, local, chain, RowSound, BeforePayment
<1>11. ASSUME NEW h \in Handlers, Prepare(h) PROVE PaysFigures'
  BY <1>11 DEF PaysFigures, Paying, RowTypeOK, HandlersTypeOK, ChainTypeOK, Prepare,
    Transfer, GoTo, Remember, row, quoteVars, local, chain, RowSound, BeforePayment
<1>12. ASSUME NEW h \in Handlers, PreparationFails(h) PROVE PaysFigures'
  BY <1>12 DEF PaysFigures, Paying, RowTypeOK, HandlersTypeOK, ChainTypeOK,
    PreparationFails, GoTo, Remember, row, quoteVars, local, chain, RowSound, BeforePayment
<1>13. ASSUME NEW h \in Handlers, RecordPaymentAttempt(h) PROVE PaysFigures'
  BY <1>13 DEF PaysFigures, Paying, RowTypeOK, HandlersTypeOK, ChainTypeOK,
    RecordPaymentAttempt, GoTo, Remember, row, quoteVars, local, chain, RowSound,
    BeforePayment
<1>14. ASSUME NEW h \in Handlers, Submit(h) PROVE PaysFigures'
  BY <1>14 DEF PaysFigures, Paying, RowTypeOK, HandlersTypeOK, ChainTypeOK, Submit, GoTo,
    Remember, row, quoteVars, local, chain, RowSound, BeforePayment
<1>15. ASSUME NEW h \in Handlers, Confirm(h) PROVE PaysFigures'
  BY <1>15 DEF PaysFigures, Paying, RowTypeOK, HandlersTypeOK, ChainTypeOK, Confirm, GoTo,
    Remember, row, quoteVars, local, chain, RowSound, BeforePayment
<1>16. ASSUME NEW h \in Handlers, FinishPayment(h) PROVE PaysFigures'
  BY <1>16 DEF PaysFigures, Paying, RowTypeOK, HandlersTypeOK, ChainTypeOK, FinishPayment,
    Forget, GoTo, Remember, row, quoteVars, local, chain, RowSound, BeforePayment
<1>17. ASSUME NEW h \in Handlers, ReconcileRead(h) PROVE PaysFigures'
  BY <1>17 DEF PaysFigures, Paying, RowTypeOK, HandlersTypeOK, ChainTypeOK, ReconcileRead,
    GoTo, Remember, row, quoteVars, local, chain, RowSound, BeforePayment
<1>18. ASSUME NEW h \in Handlers, Lookup(h) PROVE PaysFigures'
  BY <1>18 DEF PaysFigures, Paying, RowTypeOK, HandlersTypeOK, ChainTypeOK, Lookup, GoTo,
    Remember, row, quoteVars, local, chain, RowSound, BeforePayment
<1>19. ASSUME NEW h \in Handlers, MarkPaymentAttemptChecked(h) PROVE PaysFigures'
  BY <1>19 DEF PaysFigures, Paying, RowTypeOK, HandlersTypeOK, ChainTypeOK,
    MarkPaymentAttemptChecked, Unresolved, GoTo, Remember, row, quoteVars, local, chain,
    RowSound, BeforePayment
<1>20. ASSUME NEW h \in Handlers, PressOn(h) PROVE PaysFigures'
  BY <1>20 DEF PaysFigures, Paying, RowTypeOK, HandlersTypeOK, ChainTypeOK, PressOn, GoTo,
    Remember, row, quoteVars, local, chain, RowSound, BeforePayment
<1>21. ASSUME NEW h \in Handlers, NEW a \in Actions, ReviewRead(h, a)
      PROVE  PaysFigures'
  BY <1>21 DEF PaysFigures, Paying, RowTypeOK, HandlersTypeOK, ChainTypeOK, ReviewRead,
    AmountReady, Current, Actions, GoTo, Remember, row, quoteVars, local, chain, RowSound,
    BeforePayment
<1>22. ASSUME NEW h \in Handlers, ApplyReview(h) PROVE PaysFigures'
  BY <1>22 DEF PaysFigures, Paying, RowTypeOK, HandlersTypeOK, ChainTypeOK, ApplyReview,
    ReviewFits, StateByAction, MayEnterPayment, Forget, Actions, GoTo, Remember, row,
    quoteVars, local, chain, RowSound, BeforePayment
<1>23. ASSUME NEW h \in Handlers, Abandon(h) PROVE PaysFigures'
  BY <1>23 DEF PaysFigures, Paying, RowTypeOK, HandlersTypeOK, ChainTypeOK, Abandon,
    Forget, GoTo, Remember, row, quoteVars, local, chain, RowSound, BeforePayment
<1>24. ASSUME NEW f \in Figures, Resubmit(f) PROVE PaysFigures'
  BY <1>24 DEF PaysFigures, Paying, RowTypeOK, HandlersTypeOK, ChainTypeOK, Resubmit,
    GoTo, Remember, row, quoteVars, local, chain, RowSound, BeforePayment
<1>25. ASSUME NEW q \in Quotes, Expire(q) PROVE PaysFigures'
  BY <1>25 DEF PaysFigures, Paying, RowTypeOK, HandlersTypeOK, ChainTypeOK, Expire, GoTo,
    Remember, row, quoteVars, local, chain, RowSound, BeforePayment
<1>26. ASSUME NEW d \in sent, Execute(d) PROVE PaysFigures'
  BY <1>26 DEF PaysFigures, Paying, RowTypeOK, HandlersTypeOK, ChainTypeOK, Execute, GoTo,
    Remember, row, quoteVars, local, chain, RowSound, BeforePayment
<1>27. ASSUME OtherPayment PROVE PaysFigures'
  BY <1>27 DEF PaysFigures, Paying, RowTypeOK, HandlersTypeOK, ChainTypeOK, OtherPayment,
    GoTo, Remember, row, quoteVars, local, chain, RowSound, BeforePayment
<1>28. ASSUME UNCHANGED vars PROVE PaysFigures'
  BY <1>28 DEF PaysFigures, Paying, RowTypeOK, HandlersTypeOK, ChainTypeOK, vars, GoTo,
    Remember, row, quoteVars, local, chain, RowSound, BeforePayment
<1>29. ASSUME NEW h \in Handlers, Process(h) PROVE PaysFigures'
  BY <1>29, <1>1, <1>2, <1>3, <1>4, <1>5, <1>6 DEF Process
<1>30. ASSUME NEW h \in Handlers, Pay(h) PROVE PaysFigures'
  BY <1>30, <1>7, <1>8, <1>9, <1>10 DEF Pay
<1>31. ASSUME NEW h \in Handlers, Run(h) PROVE PaysFigures'
  BY <1>31, <1>11, <1>12, <1>13, <1>14, <1>15, <1>16 DEF Run
<1>32. ASSUME NEW h \in Handlers, Reconcile(h) PROVE PaysFigures'
  BY <1>32, <1>17, <1>18, <1>19, <1>20 DEF Reconcile
<1>33. ASSUME NEW h \in Handlers, Review(h) PROVE PaysFigures'
  BY <1>33, <1>21, <1>22 DEF Review
<1> QED
  BY <1>23, <1>24, <1>25, <1>26, <1>27, <1>28, <1>29, <1>30, <1>31, <1>32, <1>33 DEF Next,
    Environment

LEMMA PaysFiguresAtFirst == ASSUME Init PROVE PaysFigures
  BY DEF Init, PaysFigures

\* What moved for a USDC claim is what its row says, whatever was retried or
\* corrected.  (Of a MYR claim it is false: the run claim_stale_quote.)
THEOREM PaidAsClaimed ==
  ASSUME Currency = "USDC"
  PROVE  Spec => []PaidTheRowAmount
<1>1. IInv /\ PaysFigures => PaidTheRowAmount
  BY DEF IInv, TypeOK, ChainTypeOK, PaysFigures, PaidTheRowAmount
<1>2. Init => IInv /\ PaysFigures
  BY InitEstablishes, PaysFiguresAtFirst
<1>3. IInv /\ PaysFigures /\ [Next]_vars => IInv' /\ PaysFigures'
  BY StepKeeps, PaysFiguresKeeps
<1> QED BY <1>1, <1>2, <1>3, PTL DEF Spec

-----------------------------------------------------------------------------
(* A rejection *)

\* No handler and no correction takes a rejected claim up again.
LEMMA RejectedStays ==
  ASSUME state = "rejected", Next
  PROVE  state' = "rejected"
<1>1. ASSUME NEW h \in Handlers, Process(h) PROVE state' = "rejected"
  BY <1>1 DEF Process, ProcessRead, RestartExpiredPaymentQuote, SaveFxQuote, SaveDecision,
    DecisionFits, LoseDecision, AdoptDecision, row
<1>2. ASSUME NEW h \in Handlers, Pay(h) PROVE state' = "rejected"
  BY <1>2 DEF Pay, PayRead, FailApprovedPayment, ReserveApproved, ReserveFailed, row
<1>3. ASSUME NEW h \in Handlers, Run(h) PROVE state' = "rejected"
  BY <1>3 DEF Run, Prepare, PreparationFails, RecordPaymentAttempt, Submit, Confirm,
    FinishPayment, row
<1>4. ASSUME NEW h \in Handlers, Reconcile(h) PROVE state' = "rejected"
  BY <1>4 DEF Reconcile, ReconcileRead, Lookup, MarkPaymentAttemptChecked, PressOn, row
<1>5. ASSUME NEW h \in Handlers, Review(h) PROVE state' = "rejected"
  BY <1>5 DEF Review, ReviewRead, ApplyReview, ReviewFits, row
<1>6. ASSUME NEW h \in Handlers, Abandon(h) PROVE state' = "rejected"
  BY <1>6 DEF Abandon, row
<1>7. ASSUME Environment PROVE state' = "rejected"
  BY <1>7 DEF Environment, Resubmit, Expire, Execute, OtherPayment, row
<1> QED BY <1>1, <1>2, <1>3, <1>4, <1>5, <1>6, <1>7 DEF Next

\* Nothing of a rejected claim is on its way: what could still execute would be
\* the attempt on the row, and there is none.
LEMMA RejectedPaysNobody ==
  ASSUME IInv, state = "rejected", ~orphaned, Next
  PROVE  landed' = landed
<1>1. ASSUME NEW d \in sent, Execute(d) PROVE FALSE
  <2>1. d \in Digests /\ attempt = None
    BY DEF IInv, TypeOK, ChainTypeOK, RowSound, BeforePayment
  <2>2. d.cap = cap /\ cap \in Nat
    BY <1>1, ClaimAssumption DEF Execute, IInv, TypeOK, ChainTypeOK
  <2>3. d \notin aborted
    BY <2>2 DEF IInv, ChainSound
  <2>4. attempt = d
    BY <2>3 DEF IInv, PaymentIsOnRecord
  <2> QED BY <2>1, <2>4, NoneIsApart
<1>2. ASSUME NEW h \in Handlers,
             Process(h) \/ Pay(h) \/ Reconcile(h) \/ Review(h) \/ Abandon(h)
      PROVE  landed' = landed
  BY <1>2 DEF Process, ProcessRead, RestartExpiredPaymentQuote, SaveFxQuote, SaveDecision,
    LoseDecision, AdoptDecision, Pay, PayRead, FailApprovedPayment, ReserveApproved,
    ReserveFailed, Reconcile, ReconcileRead, Lookup, MarkPaymentAttemptChecked, PressOn,
    Review, ReviewRead, ApplyReview, Abandon, chain
<1>3. ASSUME NEW h \in Handlers, Run(h) PROVE landed' = landed
  BY <1>3 DEF Run, Prepare, PreparationFails, RecordPaymentAttempt, Submit, Confirm,
    FinishPayment, chain
<1>4. ASSUME Environment PROVE landed' = landed
  BY <1>1, <1>4 DEF Environment, Resubmit, Expire, OtherPayment, chain
<1> QED BY <1>2, <1>3, <1>4 DEF Next

\* A rejected claim stays rejected, and no payment reaches the member after it.
THEOREM RejectedForGood == Spec => RejectedIsFinal
<1> DEFINE Final == state = "rejected" =>
                      state' = "rejected" /\ (~orphaned => landed' = landed)
<1>1. IInv /\ [Next]_vars => [Final]_vars
  BY RejectedStays, RejectedPaysNobody
<1> QED BY <1>1, Inductive, PTL DEF Spec, RejectedIsFinal
=============================================================================
