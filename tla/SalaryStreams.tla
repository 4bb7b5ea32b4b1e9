---------------------------- MODULE SalaryStreams ----------------------------
(***************************************************************************)
(* One registered payroll and its salary stream: the employer's card that  *)
(* opens it (components/payroll/SalaryStreamSetup.tsx), the opening service *)
(* and the table `salary_streams` (server/streams/opening.ts,              *)
(* server/sui/salary-stream-opener.ts), the employee's screen              *)
(* (components/earnings/LiveBalance.tsx) and the withdrawals it asks for   *)
(* (server/streams/service.ts, server/sui/stream-chain.ts).                *)
(*                                                                         *)
(* The contract is PayrollMandate's; here it is what these see of it.  Both *)
(* services sign with the one key of the backend, so a transaction is good *)
(* for the version of that key's objects it was prepared from.             *)
(***************************************************************************)
EXTENDS Integers, FiniteSets

CONSTANTS
  Desks,       \* open SalaryStreamSetup cards
  Openings,    \* bound: times a stream is asked for
  Totals,      \* amounts asked for
  Duration,    \* the vesting period
  MaxPerRun,   \* of the registered payroll
  Expiry,      \* of the registered payroll
  Balances,    \* open LiveBalance screens of the employee
  Draws,       \* bound: withdrawals asked for
  Horizon,     \* bound of the clock
  Readings,    \* what the clock of a browser may read: it is set by nobody here
  None

VARIABLES
  \* SalaryStreamSetup: the stream on the card, the request it waits for
  card, waits,
  \* the opening requests, and the transaction of each
  pc, asked, starts, based_on, tx, stream,
  \* salary_streams, for this payroll
  row,
  \* Sui: streams by the transaction that made them, the version of the signer's
  \* objects, the clock
  opened, withdrawn, version, now,
  \* LiveBalance: what it read, and the withdrawals under way
  view, draw_pc, draw_on, draws

\* What the chain, the table and a screen say of a stream.
Streams == [total : Nat, starts : Nat, ends : Nat, at : Nat]
Rows == [id : Openings, total : Nat, starts : Nat, ends : Nat]
Views == [id : Openings, withdrawn : Nat]

ASSUME SalaryStreamsAssumption ==
  /\ Totals \subseteq Nat
  /\ Duration \in Nat \ {0}
  /\ Readings \subseteq Nat
  /\ None \notin Openings /\ None \notin Nat
  /\ None \notin Streams /\ None \notin Rows /\ None \notin Views

cards == <<card, waits>>
requests == <<pc, asked, starts, based_on, tx, stream>>
chain == <<opened, withdrawn, version>>
balances == <<view, draw_pc, draw_on, draws>>
vars == <<cards, requests, row, chain, now, balances>>

Smaller(x, y) == IF x <= y THEN x ELSE y
Opened == {o \in Openings : opened[o] # None}

-----------------------------------------------------------------------------
(* Mutations: definitions with one plausible mistake each, used nowhere.      *)

\* The stream of a transaction is taken to be the newest of the mandate.
NewestStream(o) == CHOOSE s \in Opened : \A r \in Opened : opened[r].at <= opened[s].at

\* Whatever goes wrong with the submission is reported as a refusal.
AnyErrorRefuses(o) == "refused"

\* Accrual by a rate per millisecond, rounded down first.
AccruedByRate(s, at) ==
  LET elapsed == Smaller(at, s.ends) - s.starts IN
  IF elapsed <= 0 THEN 0 ELSE (s.total \div (s.ends - s.starts)) * elapsed

-----------------------------------------------------------------------------
(* Accrual, on the chain and on the screen *)

\* withdraw_earned: the earned part of a stream, to the base unit.
Earned(s, at) ==
  IF at <= s.starts THEN 0
  ELSE IF at >= s.ends THEN s.total
  ELSE (s.total * (at - s.starts)) \div (s.ends - s.starts)

Payable(i) == Earned(opened[i], now) - withdrawn[i]

\* accruedAt
AccruedAt(s, at) ==
  LET elapsed == Smaller(at, s.ends) - s.starts IN
  IF s.ends <= s.starts \/ elapsed <= 0 THEN 0 ELSE (s.total * elapsed) \div (s.ends - s.starts)

\* availableAt, of what the screen read last and of what the browser's clock reads
\* (useAccrualClock: Date.now(), which may be behind the chain's clock or ahead).
Offered(b, at) ==
  LET left == AccruedAt(opened[view[b].id], at) - view[b].withdrawn
  IN  IF left > 0 THEN left ELSE 0

-----------------------------------------------------------------------------
(* SalaryStreamSetup *)

\* The effect of a card that is opened: what the registry knows.
LoadCard(d) ==
  /\ card[d] = None /\ waits[d] = None /\ row # None
  /\ card' = [card EXCEPT ![d] = row]
  /\ UNCHANGED <<waits, requests, row, chain, now, balances>>

\* open.  A card whose last request failed offers the button again, whatever the
\* message said.
AskToOpen(d, o, amount) ==
  /\ card[d] = None /\ waits[d] = None
  /\ pc[o] = "idle" /\ \A p \in 1..o - 1 : pc[p] # "idle"
  /\ waits' = [waits EXCEPT ![d] = o]
  /\ pc' = [pc EXCEPT ![o] = "asked"]
  /\ asked' = [asked EXCEPT ![o] = amount]
  /\ UNCHANGED <<card, starts, based_on, tx, stream, row, chain, now, balances>>

Outcomes == {"opened", "refused", "uncertain"}

CardAnswered(d) ==
  /\ waits[d] # None
  /\ \/ pc[waits[d]] = "opened" /\ card' = [card EXCEPT ![d] = row]
     \/ UNCHANGED card      \* a refusal, an error, or no answer
  /\ waits' = [waits EXCEPT ![d] = None]
  /\ UNCHANGED <<requests, row, chain, now, balances>>

-----------------------------------------------------------------------------
(* createSalaryStreamOpeningService, createSuiSalaryStreamOpener *)

GoTo(o, where) == pc' = [pc EXCEPT ![o] = where]

\* The checks of the request, and the look at the registry.
JudgeOpening(o) ==
  /\ pc[o] = "asked"
  /\ IF asked[o] <= MaxPerRun /\ row = None /\ now + Duration <= Expiry
     THEN GoTo(o, "fits") /\ starts' = [starts EXCEPT ![o] = now]
     ELSE GoTo(o, "refused") /\ UNCHANGED starts
  /\ UNCHANGED <<cards, asked, based_on, tx, stream, row, chain, now, balances>>

\* prepare: built from the versions of this moment, and signed.  The build asks
\* a node about the objects; where that fails nothing was signed.
PrepareOpening(o) ==
  /\ pc[o] = "fits"
  /\ \/ GoTo(o, "prepared") /\ based_on' = [based_on EXCEPT ![o] = version]
     \/ GoTo(o, "refused") /\ UNCHANGED based_on
  /\ UNCHANGED <<cards, asked, starts, tx, stream, row, chain, now, balances>>

SubmitOpening(o) ==
  /\ pc[o] = "prepared"
  /\ GoTo(o, "submitted")
  /\ tx' = [tx EXCEPT ![o] = "sent"]
  /\ UNCHANGED <<cards, asked, starts, based_on, stream, row, chain, now, balances>>

\* What an error of submitTransaction is reported as.
Thrown(o) == "uncertain"

\* Two requests that signed the same bytes have one transaction between them.
Same(o, p) == asked[o] = asked[p] /\ starts[o] = starts[p] /\ based_on[o] = based_on[p]

\* The answer of a full node, if there is one.
LearnOpening(o) ==
  /\ pc[o] = "submitted"
  /\ \/ (\E p \in Opened : Same(o, p)) /\ GoTo(o, "confirmed")
     \/ tx[o] = "aborted" /\ GoTo(o, "refused")
     \/ GoTo(o, Thrown(o))
  /\ UNCHANGED <<cards, asked, starts, based_on, tx, stream, row, chain, now, balances>>

\* createdObjects: the one stream this transaction created.
CreatedStream(o) == CHOOSE s \in Opened : Same(o, s)

\* It is read back and compared with the request before it is believed.
IdentifyStream(o) ==
  /\ pc[o] = "confirmed"
  /\ \/ GoTo(o, "identified") /\ stream' = [stream EXCEPT ![o] = CreatedStream(o)]
     \/ GoTo(o, "uncertain") /\ UNCHANGED stream
  /\ UNCHANGED <<cards, asked, starts, based_on, tx, row, chain, now, balances>>

\* streams.create: one row for a mandate; the insert may fail, and it may have
\* been made when its answer is lost.
RecordStream(o) ==
  /\ pc[o] = "identified"
  /\ \/ /\ row = None
        /\ row' = [id |-> stream[o], total |-> asked[o], starts |-> starts[o],
                   ends |-> starts[o] + Duration]
        /\ GoTo(o, "opened") \/ GoTo(o, "uncertain")
     \/ UNCHANGED row /\ GoTo(o, "uncertain")
  /\ UNCHANGED <<cards, asked, starts, based_on, tx, stream, chain, now, balances>>

-----------------------------------------------------------------------------
(* Sui *)

\* A transaction of other versions than the current ones is never executed.  The
\* contract aborts where PayrollMandate's OpenStream is not enabled: the mandate
\* is revoked, or cannot commit as much.
ExecuteOpening(o) ==
  /\ tx[o] = "sent" /\ based_on[o] = version
  /\ version' = version + 1
  /\ \/ /\ tx' = [tx EXCEPT ![o] = "done"]
        /\ opened' = [opened EXCEPT ![o] =
             [total |-> asked[o], starts |-> starts[o], ends |-> starts[o] + Duration,
              at |-> version]]
     \/ tx' = [tx EXCEPT ![o] = "aborted"] /\ UNCHANGED opened
  /\ UNCHANGED <<cards, pc, asked, starts, based_on, stream, row, withdrawn, now, balances>>

ExecuteDraw(b) ==
  LET i == view[b].id IN
  /\ draw_pc[b] = "sent" /\ draw_on[b] = version
  /\ version' = version + 1
  /\ IF Payable(i) > 0
     THEN /\ withdrawn' = [withdrawn EXCEPT ![i] = @ + Payable(i)]
            /\ draw_pc' = [draw_pc EXCEPT ![b] = "done"]
     ELSE draw_pc' = [draw_pc EXCEPT ![b] = "aborted"] /\ UNCHANGED withdrawn
  /\ UNCHANGED <<cards, requests, row, opened, now, view, draw_on, draws>>

Tick ==
  /\ now < Horizon /\ now' = now + 1
  /\ UNCHANGED <<cards, requests, row, chain, balances>>

-----------------------------------------------------------------------------
(* LiveBalance, createStreamService, createSuiStreamChain *)

\* The screen is opened on the registered stream, and read again every fifteen
\* seconds and after a withdrawal.
ReadBalance(b) ==
  /\ row # None
  /\ view' = [view EXCEPT ![b] = [id |-> row.id, withdrawn |-> withdrawn[row.id]]]
  /\ UNCHANGED <<cards, requests, row, chain, now, draw_pc, draw_on, draws>>

\* onWithdraw: the route reads the stream and asks whose it is, the service reads
\* it for its mandate and for what has been taken.
AskToWithdraw(b) ==
  /\ view[b] # None /\ \E at \in Readings : Offered(b, at) > 0
  /\ draw_pc[b] = "idle" /\ draws < Draws
  /\ draws' = draws + 1
  /\ draw_pc' = [draw_pc EXCEPT ![b] = "read"]
  /\ UNCHANGED <<cards, requests, row, chain, now, view, draw_on>>

SubmitDraw(b) ==
  /\ draw_pc[b] = "read"
  /\ draw_pc' = [draw_pc EXCEPT ![b] = "sent"]
  /\ draw_on' = [draw_on EXCEPT ![b] = version]
  /\ UNCHANGED <<cards, requests, row, chain, now, view, draws>>

\* The answer: what the stream has paid since it was first read, the contract's
\* refusal, or an error.  The screen then reads the stream again (ReadBalance).
DrawAnswered(b) ==
  /\ draw_pc[b] \in {"read", "sent", "done", "aborted"}
  /\ draw_pc' = [draw_pc EXCEPT ![b] = "idle"]
  /\ draw_on' = [draw_on EXCEPT ![b] = None]
  /\ UNCHANGED <<cards, requests, row, chain, now, view, draws>>

-----------------------------------------------------------------------------
Init ==
  /\ card = [d \in Desks |-> None] /\ waits = [d \in Desks |-> None]
  /\ pc = [o \in Openings |-> "idle"]
  /\ asked = [o \in Openings |-> None] /\ starts = [o \in Openings |-> None]
  /\ based_on = [o \in Openings |-> None] /\ tx = [o \in Openings |-> "none"]
  /\ stream = [o \in Openings |-> None]
  /\ row = None
  /\ opened = [o \in Openings |-> None]
  /\ withdrawn = [o \in Openings |-> 0]
  /\ version = 0 /\ now = 0
  /\ view = [b \in Balances |-> None]
  /\ draw_pc = [b \in Balances |-> "idle"]
  /\ draw_on = [b \in Balances |-> None] /\ draws = 0

Opening ==
  \/ \E d \in Desks :
       \/ LoadCard(d) \/ CardAnswered(d)
       \/ \E o \in Openings, a \in Totals : AskToOpen(d, o, a)
  \/ \E o \in Openings :
       \/ JudgeOpening(o) \/ PrepareOpening(o) \/ SubmitOpening(o) \/ ExecuteOpening(o)
       \/ LearnOpening(o) \/ IdentifyStream(o) \/ RecordStream(o)

Withdrawing ==
  \E b \in Balances :
    ReadBalance(b) \/ AskToWithdraw(b) \/ SubmitDraw(b) \/ ExecuteDraw(b) \/ DrawAnswered(b)

Next == Opening \/ Withdrawing \/ Tick

Spec == Init /\ [][Next]_vars

-----------------------------------------------------------------------------
(* Properties *)

\* An opening that was refused has opened nothing, and what it signed can no
\* longer do so: pressing the button again is safe.  The openings of which that
\* cannot be said are told to leave it.
RefusedOpenedNothing ==
  \A o \in Openings : pc[o] = "refused" => opened[o] = None /\ tx[o] \in {"none", "aborted"}

\* The registry names a stream that is on the chain with the figures the row
\* gives -- the one its own request opened, when two were opened together.
RegistryNamesTheStream ==
  row # None =>
    /\ row.id \in Opened
    /\ opened[row.id].total = row.total
    /\ opened[row.id].starts = row.starts /\ opened[row.id].ends = row.ends

\* What the screen works out from its last read and the browser's clock errs by
\* that clock and by the withdrawals it has not seen, and by nothing else: a clock
\* that is behind never offers more than the contract would pay now and those, one
\* that is ahead never offers less than it would pay, and one that is right and
\* has seen every withdrawal offers that to the base unit.
OfferIsWhatTheContractPays ==
  \A b \in Balances, at \in Readings :
    view[b] # None =>
      LET i == view[b].id
          unseen == withdrawn[i] - view[b].withdrawn
      IN  /\ at <= now => Offered(b, at) <= Payable(i) + unseen
          /\ at >= now => Offered(b, at) >= Payable(i)
=============================================================================
