--------------------------- MODULE PayrollMandate ---------------------------
(***************************************************************************)
(* The payroll mandate of contracts/tali_treasury/sources/payroll.move:    *)
(* an employer locks a coin, runs payroll under floors the contract holds, *)
(* and opens salary streams whose whole period is reserved up front.       *)
(*                                                                         *)
(* A call whose assertion fails, or whose u64 arithmetic overflows, aborts *)
(* and changes nothing, so each assertion and each overflow check is a     *)
(* conjunct of the action's guard.  Sui executes the calls that touch one  *)
(* shared object one after another, so a call is one step.                 *)
(***************************************************************************)
EXTENDS Integers, Sequences, Functions

CONSTANTS
  MandateIds,       \* object ids a mandate can be created under
  Addresses,        \* employees an offer or a call may name
  Offers,           \* arguments create_payroll_mandate is called with
  Amounts,          \* u64 amounts the other calls are made with
  Splits,           \* vectors of statutory amounts run_payroll is called with
  Horizon,          \* bound on the clock
  MaxStreams,       \* bound on the streams opened
  MAX_U64,          \* largest u64
  BPS_DENOMINATOR,  \* 10_000 in the contract; the properties hold for any
  NoTerms           \* a mandate that was not created yet

U64 == 0..MAX_U64
Times == 0..Horizon
StreamIds == 1..MaxStreams

\* The part of a PayrollMandate that never changes after its creation.
Terms ==
  [funded : U64, approved_employees : SUBSET Addresses,
   statutory_recipients : Nat,  \* how many; who they are is left out
   statutory_min_bps : Seq(U64), statutory_wage_cap : Seq(U64),
   net_min_bps : U64, max_per_run : U64, expiry_ms : U64]

\* The part of a SalaryStream that never changes after it was opened.
Stream ==
  [mandate_id : MandateIds, employee : Addresses, total_amount : U64,
   started_at_ms : Times, ends_at_ms : Times]

ASSUME PayrollAssumption ==
  /\ MAX_U64 \in Nat
  /\ BPS_DENOMINATOR \in Nat
  /\ Horizon \in Nat
  /\ MaxStreams \in Nat
  /\ Amounts \subseteq U64
  /\ Splits \subseteq Seq(U64)
  /\ Offers \subseteq Terms
  /\ NoTerms \notin Terms

VARIABLES
  terms,       \* mandate id -> what it was created with, or NoTerms
  budget,      \* mandate id -> balance held
  committed,   \* mandate id -> promised to streams
  total_paid,  \* mandate id -> paid out so far
  run_count,   \* mandate id -> payroll runs so far
  revoked,     \* mandate id -> revoked?
  returned,    \* mandate id -> what went back to the employer (history)
  streams,     \* the shared SalaryStream objects, in the order of opening
  withdrawn,   \* stream -> drawn so far; 0 for one not opened
  now          \* sui::clock

mandateVars == <<terms, budget, committed, total_paid, run_count, revoked, returned>>
streamVars == <<streams, withdrawn>>
vars == <<mandateVars, streamVars, now>>

Exists(m) == terms[m] # NoTerms
Opened == 1..Len(streams)
Outstanding(i) == streams[i].total_amount - withdrawn[i]

\* What stream i still claims from mandate m, and what all of them do together.
Owed(m, i) == IF streams[i].mandate_id = m THEN Outstanding(i) ELSE 0
OwedInAll(m) ==
  LET upTo[i \in 0..Len(streams)] == IF i = 0 THEN 0 ELSE upTo[i-1] + Owed(m, i)
  IN upTo[Len(streams)]

-----------------------------------------------------------------------------
(* Mutations: definitions with one plausible mistake each.  No specification *)
(* uses them; a property is only worth stating if one of them breaks it.     *)

SpendableIgnoringReserve(m) == budget[m]

AccruedPastTheEnd(s, t) ==
  IF t <= s.started_at_ms THEN 0
  ELSE (s.total_amount * (t - s.started_at_ms)) \div (s.ends_at_ms - s.started_at_ms)

LiveEvenIfRevoked(cap, m) == Exists(m) /\ cap = m

AffordablePerRun(m, amount) == amount <= terms[m].max_per_run

AnyDeclaredGross(gross, net) == net > 0 /\ gross > 0

AnyMandate(i, m) == Exists(m)

RevokeAndSweep(cap, m) ==
  /\ Exists(m) /\ cap = m
  /\ revoked' = [revoked EXCEPT ![m] = TRUE]
  /\ budget' = [budget EXCEPT ![m] = 0]
  /\ UNCHANGED <<terms, committed, total_paid, run_count, returned, streamVars, now>>

-----------------------------------------------------------------------------
(* The contract's pure functions and checks *)

\* payroll_spendable
Spendable(m) == budget[m] - committed[m]

FloorBasis(gross, cap) == IF cap = 0 \/ gross < cap THEN gross ELSE cap

MeetsFloor(amount, basis, min_bps) == amount * BPS_DENOMINATOR >= basis * min_bps

\* Earned as of t, from the period total, rounded down.
Accrued(s, t) ==
  LET capped == IF t < s.ends_at_ms THEN t ELSE s.ends_at_ms
  IN  IF t <= s.started_at_ms THEN 0
      ELSE (s.total_amount * (capped - s.started_at_ms))
             \div (s.ends_at_ms - s.started_at_ms)

-----------------------------------------------------------------------------
(* The calls *)

\* The capability and the revocation check of run_payroll and open_stream.
Live(cap, m) == Exists(m) /\ cap = m /\ ~revoked[m]

\* Their ceiling and reserve checks.
Affordable(m, amount) == amount <= terms[m].max_per_run /\ amount <= Spendable(m)

\* What run_payroll asserts of the two amounts the caller declares.
WageWithinGross(gross, net) == net > 0 /\ gross > 0 /\ net <= gross

BelongsTo(i, m) == streams[i].mandate_id = m

ValidTerms(o) ==
  /\ o.funded > 0
  /\ 0 < o.max_per_run /\ o.max_per_run <= o.funded
  /\ o.approved_employees # {}
  /\ o.statutory_recipients > 0
  /\ 0 < o.net_min_bps /\ o.net_min_bps <= BPS_DENOMINATOR
  /\ o.statutory_recipients = Len(o.statutory_min_bps)
  /\ o.statutory_recipients = Len(o.statutory_wage_cap)
  /\ \A k \in 1..Len(o.statutory_min_bps) :
        0 < o.statutory_min_bps[k] /\ o.statutory_min_bps[k] <= BPS_DENOMINATOR

CreatePayrollMandate(m, o) ==
  /\ ~Exists(m)
  /\ ValidTerms(o)
  /\ terms' = [terms EXCEPT ![m] = o]
  /\ budget' = [budget EXCEPT ![m] = o.funded]
  /\ UNCHANGED <<committed, total_paid, run_count, revoked, returned, streamVars, now>>

MeetsFloors(o, gross, net, amounts) ==
  /\ MeetsFloor(net, gross, o.net_min_bps)
  /\ \A i \in 1..Len(amounts) :
        /\ amounts[i] > 0
        /\ MeetsFloor(amounts[i], FloorBasis(gross, o.statutory_wage_cap[i]),
                      o.statutory_min_bps[i])

\* net and every statutory amount leave in one transaction; total is a u64.
RunPayroll(cap, m, employee, gross, net, amounts) ==
  LET total == net + SumFunction(amounts) IN
  /\ Live(cap, m)
  /\ Len(amounts) = terms[m].statutory_recipients
  /\ employee \in terms[m].approved_employees
  /\ WageWithinGross(gross, net)
  /\ MeetsFloors(terms[m], gross, net, amounts)
  /\ total \in U64
  /\ Affordable(m, total)
  /\ now < terms[m].expiry_ms
  /\ total_paid[m] + total <= MAX_U64
  /\ budget' = [budget EXCEPT ![m] = @ - total]
  /\ total_paid' = [total_paid EXCEPT ![m] = @ + total]
  /\ run_count' = [run_count EXCEPT ![m] = @ + 1]
  /\ UNCHANGED <<terms, committed, revoked, returned, streamVars, now>>

\* No expiry check, and the period may lie in the past: so does the contract.
OpenStream(cap, m, employee, amount, starts, ends) ==
  /\ Len(streams) < MaxStreams
  /\ Live(cap, m)
  /\ employee \in terms[m].approved_employees
  /\ ends > starts
  /\ amount > 0
  /\ Affordable(m, amount)
  /\ committed[m] + amount <= MAX_U64
  /\ committed' = [committed EXCEPT ![m] = @ + amount]
  /\ streams' = Append(streams,
       [mandate_id |-> m, employee |-> employee, total_amount |-> amount,
        started_at_ms |-> starts, ends_at_ms |-> ends])
  /\ UNCHANGED <<terms, budget, total_paid, run_count, revoked, returned, withdrawn, now>>

\* Anyone may call it, before or after revocation and expiry.
WithdrawEarned(i, m) ==
  LET available == Accrued(streams[i], now) - withdrawn[i] IN
  /\ BelongsTo(i, m)
  /\ available > 0
  /\ budget[m] >= available
  /\ committed[m] >= available
  /\ total_paid[m] + available <= MAX_U64
  /\ withdrawn' = [withdrawn EXCEPT ![i] = @ + available]
  /\ committed' = [committed EXCEPT ![m] = @ - available]
  /\ total_paid' = [total_paid EXCEPT ![m] = @ + available]
  /\ budget' = [budget EXCEPT ![m] = @ - available]
  /\ UNCHANGED <<terms, run_count, revoked, returned, streams, now>>

RevokePayroll(cap, m) ==
  /\ Exists(m) /\ cap = m
  /\ revoked' = [revoked EXCEPT ![m] = TRUE]
  /\ UNCHANGED <<terms, budget, committed, total_paid, run_count, returned, streamVars, now>>

WithdrawPayrollRemaining(cap, m) ==
  /\ Exists(m) /\ cap = m
  /\ Spendable(m) > 0
  /\ budget' = [budget EXCEPT ![m] = @ - Spendable(m)]
  /\ returned' = [returned EXCEPT ![m] = @ + Spendable(m)]
  /\ UNCHANGED <<terms, committed, total_paid, run_count, revoked, streamVars, now>>

\* sui::clock moves forward.
Tick ==
  /\ now < Horizon
  /\ now' = now + 1
  /\ UNCHANGED <<mandateVars, streamVars>>

-----------------------------------------------------------------------------
Init ==
  /\ terms = [m \in MandateIds |-> NoTerms]
  /\ budget = [m \in MandateIds |-> 0]
  /\ committed = [m \in MandateIds |-> 0]
  /\ total_paid = [m \in MandateIds |-> 0]
  /\ run_count = [m \in MandateIds |-> 0]
  /\ revoked = [m \in MandateIds |-> FALSE]
  /\ returned = [m \in MandateIds |-> 0]
  /\ streams = <<>>
  /\ withdrawn = [i \in StreamIds |-> 0]
  /\ now = 0

Create == \E m \in MandateIds, o \in Offers : CreatePayrollMandate(m, o)

Run == \E cap, m \in MandateIds, e \in Addresses, gross, net \in Amounts, a \in Splits :
         RunPayroll(cap, m, e, gross, net, a)

Open == \E cap, m \in MandateIds, e \in Addresses, a \in Amounts, t, u \in Times :
          OpenStream(cap, m, e, a, t, u)

Withdraw == \E i \in Opened, m \in MandateIds : WithdrawEarned(i, m)

Revoke == \E cap, m \in MandateIds : RevokePayroll(cap, m)

Reclaim == \E cap, m \in MandateIds : WithdrawPayrollRemaining(cap, m)

Next == Create \/ Run \/ Open \/ Withdraw \/ Revoke \/ Reclaim \/ Tick

Spec == Init /\ [][Next]_vars

-----------------------------------------------------------------------------
(* Properties *)

\* Every field has its Move type; in particular every amount is a u64.
TypeOK ==
  /\ terms \in [MandateIds -> Terms \cup {NoTerms}]
  /\ budget \in [MandateIds -> U64]
  /\ committed \in [MandateIds -> U64]
  /\ total_paid \in [MandateIds -> U64]
  /\ run_count \in [MandateIds -> Nat]
  /\ revoked \in [MandateIds -> BOOLEAN]
  /\ returned \in [MandateIds -> U64]
  /\ streams \in Seq(Stream) /\ Len(streams) <= MaxStreams
  /\ withdrawn \in [StreamIds -> U64]
  /\ now \in Times

\* open_stream, withdraw_earned: `committed` is exactly what the open streams
\* of the mandate have still to pay, over every interleaving of the calls.
CommittedIsOwed == \A m \in MandateIds : committed[m] = OwedInAll(m)

\* withdraw_earned never meets E_PAYROLL_INSUFFICIENT, an underflow or an
\* overflow: whatever runs, revocations and reclaims came before, the whole
\* rest of every stream is still in its mandate, to the last unit.
WagesStayPayable ==
  \A i \in Opened :
    LET m == streams[i].mandate_id IN
    /\ Outstanding(i) <= committed[m]
    /\ committed[m] <= budget[m]
    /\ total_paid[m] + Outstanding(i) <= MAX_U64

\* withdraw_earned: no worker has drawn more than the stream had accrued, and
\* no stream accrues more than its total.
NeverAheadOfAccrual ==
  \A i \in Opened :
    /\ withdrawn[i] <= Accrued(streams[i], now)
    /\ Accrued(streams[i], now) <= streams[i].total_amount

\* The coin that funded a mandate is all accounted for: still in the budget,
\* counted in total_paid, or returned to the employer.
FundsConserved ==
  \A m \in MandateIds : Exists(m) =>
    budget[m] + total_paid[m] + returned[m] = terms[m].funded

\* run_payroll, `gross` is supplied by the caller: whatever wage is declared,
\* each statutory body gets its floor of the wage that was really paid out.
FloorsBindTheWagePaid ==
  [][\A m \in MandateIds, e \in Addresses, gross, net \in Amounts, a \in Splits :
       RunPayroll(m, m, e, gross, net, a) =>
         \A i \in 1..Len(a) :
           a[i] * BPS_DENOMINATOR >=
             FloorBasis(net, terms[m].statutory_wage_cap[i])
               * terms[m].statutory_min_bps[i]]_vars

\* revoke_payroll: from then on nothing new is promised or run, and only what
\* the streams were promised, or the employer's own money, leaves.
RevokedOnlySettles ==
  [][\A m \in MandateIds : revoked[m] =>
       /\ revoked'[m]
       /\ run_count'[m] = run_count[m]
       /\ committed'[m] <= committed[m]
       /\ total_paid'[m] - total_paid[m] = committed[m] - committed'[m]]_vars

-----------------------------------------------------------------------------
(* The mandate implements the escrow: the reserve is what is promised. *)

Escrow == INSTANCE FundEscrow WITH
  Escrows <- MandateIds,
  Amounts <- U64,
  free <- [m \in MandateIds |-> Spendable(m)],
  promised <- committed,
  paid <- total_paid,
  returned <- returned

\* Every call is one escrow step or none: no call spends what a stream
\* reserved, takes back promised money, or makes money.
EscrowSpec == Escrow!Spec
=============================================================================
