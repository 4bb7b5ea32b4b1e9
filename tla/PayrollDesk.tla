----------------------------- MODULE PayrollDesk -----------------------------
(***************************************************************************)
(* What one payroll run costs: the desk the employer types a wage into     *)
(* (components/payroll/PayrollDesk.tsx), the statutory split               *)
(* (server/payroll/statutory.ts), its conversion to the token of the       *)
(* mandate (server/payroll/fx.ts), the checks of the payroll service and,  *)
(* against them, the floors the contract measures.                         *)
(*                                                                         *)
(* Which overtime a run pays and how it is settled is PayrollRuns'; here   *)
(* approved overtime and leave are amounts that change under the desk, as  *)
(* the exchange rate does.                                                 *)
(***************************************************************************)
EXTENDS Integers

CONSTANTS
  Ringgit,    \* base units in one ringgit (a million in the code)
  Wages,      \* wages typed, in base units
  Classes,    \* workers: [age, citizenship]
  DaysOff,    \* days of unpaid leave typed
  Overtimes,  \* approved overtime of the period
  Leaves,     \* approved unpaid leave of the period
  Rates,      \* the provider's rates, in ringgit per RateScale dollars
  RateScale,
  SetupRate,  \* the rate the mandate was created at
  Budget,     \* BUDGET_MYR, what it was given and also its max_per_run
  Commits,    \* what a salary stream opened on the mandate promises
  Runs,       \* bound: runs asked for
  MaxChanges, \* bound: changes of the rate, of the overtime, of the leave, streams opened
  None

VARIABLES
  wage, class, shown, desk,        \* the desk: base wage and split on the screen
  rate, overtime, leave, changes,  \* what the server reads
  run, asked,                      \* the request of the desk
  sent, row,                       \* what was signed, and payroll_runs
  left                             \* on chain: the mandate's balance less its commitments

deskVars == <<wage, class, shown, desk>>
period == <<rate, overtime, leave, changes>>
request == <<run, asked>>
vars == <<deskVars, period, request, sent, row, left>>

Bodies == {"epf", "socso", "eis"}
SumOf(f) == f["epf"] + f["socso"] + f["eis"]
Least(x, y) == IF x <= y THEN x ELSE y
Most(x, y) == IF x >= y THEN x ELSE y
CeilDiv(x, d) == (x + d - 1) \div d

-----------------------------------------------------------------------------
(* statutory.ts *)

\* The Third Schedule's bands.
EpfWageBand(gross) ==
  IF gross > 20000 * Ringgit THEN gross
  ELSE LET width == IF gross <= 5000 * Ringgit THEN 20 * Ringgit ELSE 100 * Ringgit
       IN  CeilDiv(gross, width) * width

EpfRatesBps(gross, c) ==
  IF c.citizenship = "foreign" THEN [employee |-> 200, employer |-> 200]
  ELSE IF c.age >= 60 THEN [employee |-> 0, employer |-> 400]
  ELSE [employee |-> 1100, employer |-> IF gross <= 5000 * Ringgit THEN 1300 ELSE 1200]

ToWholeRinggit(x) == CeilDiv(x, Ringgit) * Ringgit
Percent(base, bps) == (base * bps) \div 10000
CeilPercent(base, bps) == CeilDiv(base * bps, 10000)

ContributionCap == 6000 * Ringgit

\* One month of wages.  Leave comes off every base, overtime is no EPF wage.
ComputeStatutory(base, c, extra, off) ==
  LET paid == base - off
      gross == paid + extra
      insured == Least(gross, ContributionCap)
      epf == EpfRatesBps(paid, c)
      band == EpfWageBand(paid)
      eis == IF c.age >= 60 THEN 0 ELSE CeilPercent(insured, 20)
      employee == [epf |-> ToWholeRinggit(Percent(band, epf.employee)),
                   socso |-> CeilPercent(insured, 50), eis |-> eis]
      employer == [epf |-> ToWholeRinggit(Percent(band, epf.employer)),
                   socso |-> CeilPercent(insured, 175), eis |-> eis]
  IN  [gross |-> gross, paid |-> paid, insured |-> insured,
       employee |-> employee, employer |-> employer, net |-> gross - SumOf(employee)]

\* floor_basis and meets_floor of payroll.move; a cap of zero is none.
FloorBasis(gross, cap) == IF cap = 0 \/ gross < cap THEN gross ELSE cap
MeetsFloor(amount, basis, bps) == amount * 10000 >= basis * bps

ClearsFloor(split, body, bps) ==
  MeetsFloor(split.employee[body] + split.employer[body], split.gross, bps)

-----------------------------------------------------------------------------
(* fx.ts, shared/fx.ts, setup.ts *)

\* convertMyrToUsdc: half up, to the base unit; where something comes to nothing
\* it throws.
Convert(amount, r) == (2 * amount * RateScale + r) \div (2 * r)
Converts(amount, r) == amount = 0 \/ Convert(amount, r) > 0

ConfiguredFloorBps == [epf |-> 2300, socso |-> 225, eis |-> 40]

\* The floors of a mandate the setup page created.
NetMinBps == 7000
WageCap == [b \in Bodies |-> IF b = "epf" THEN 0 ELSE Convert(ContributionCap, SetupRate)]
SetupMaxPerRun == Convert(Budget, SetupRate)

\* (A mutation, used nowhere: the legs are converted and left at that.)
LegsOnly(gross, employee, employer, body) == employer

\* The employer's leg, raised to what the floor asks of the whole wage.
EmployerLeg(gross, employee, employer, body) ==
  Most(employer, CeilDiv(gross * ConfiguredFloorBps[body], 10000) - employee)

QuotePayrollSplit(source, r) ==
  LET gross == Convert(source.gross, r)
      employee == [b \in Bodies |-> Convert(source.employee[b], r)]
      employer == [b \in Bodies |->
                     EmployerLeg(gross, employee[b], Convert(source.employer[b], r), b)]
  IN  [gross |-> gross, net |-> gross - SumOf(employee),
       total |-> [b \in Bodies |-> employee[b] + employer[b]],
       rate |-> r, source |-> source]

\* It throws where the month has an amount that cannot be converted, and where
\* the rounding leaves the employee nothing.
Quotes(base, extra, off, source, r) ==
  /\ \A x \in {base, extra, off, source.gross, source.paid, source.insured} : Converts(x, r)
  /\ \A b \in Bodies : Converts(source.employee[b], r) /\ Converts(source.employer[b], r)
  /\ QuotePayrollSplit(source, r).net > 0

\* What the two legs of a contribution come to, each converted.
TwoLegs(s, body) ==
  Convert(s.source.employee[body], s.rate) + Convert(s.source.employer[body], s.rate)

-----------------------------------------------------------------------------
(* The desk *)

\* grossAfterUnpaidLeave: days at a twenty-sixth of the wage each.
GrossAfterUnpaidLeave(gross, days) ==
  IF days >= 26 THEN 0 ELSE gross - (gross \div 26) * days

MinGross == 20 * Ringgit

\* Another wage: the split on the screen goes at once, and one for an earlier wage
\* that comes in later is dropped.
Type(w, c, days) ==
  /\ desk # "running"
  /\ <<w, c>> # <<wage, class>> \/ shown # None
  /\ GrossAfterUnpaidLeave(w, days) >= MinGross
  /\ wage' = GrossAfterUnpaidLeave(w, days) /\ class' = c
  /\ shown' = None /\ desk' = "loading"
  /\ UNCHANGED <<period, request, sent, row, left>>

\* periodProblem
PeriodProblem(base) == leave > base \/ base - leave + overtime <= 0

Source(base, c) == ComputeStatutory(base, c, overtime, leave)
Breakdown(base, c) == QuotePayrollSplit(Source(base, c), rate)

\* build answers, and does not throw.
Builds(base, c) ==
  ~PeriodProblem(base) /\ Quotes(base, overtime, leave, Source(base, c), rate)

\* preview, at what the server reads now; or an error, and no split.
Previewed ==
  /\ desk = "loading"
  /\ \/ Builds(wage, class)
        /\ shown' = Breakdown(wage, class)
     \/ shown' = None
  /\ desk' = "idle"
  /\ UNCHANGED <<wage, class, period, request, sent, row, left>>

\* onRun approves the rate on the screen, and nothing else of it.  The safety
\* screen's request names the body it pays too little.
AskToRun(under) ==
  /\ desk \in {"idle", "paid", "refused", "unknown"} /\ shown # None
  /\ asked < Runs /\ asked' = asked + 1
  /\ desk' = "running"
  /\ run' = [at |-> "asked", approved |-> shown.rate, underpay |-> under]
  /\ UNCHANGED <<wage, class, shown, period, sent, row, left>>

\* The answer: a run, the service's or the contract's refusal, an error, and one
\* error of its own where the money went and the overtime could not be marked.
RunAnswered ==
  /\ desk = "running"
  /\ \/ run.at = "answered" /\ row = "paid" /\ desk' \in {"paid", "unknown"}
     \/ run.at = "answered" /\ row # "paid" /\ desk' = "refused"
     \/ run.at = "refused" /\ desk' = "refused"
     \/ run.at = "uncertain" /\ desk' = "unknown"
  /\ run' = None /\ sent' = None /\ row' = "none"
  /\ UNCHANGED <<wage, class, shown, period, asked, left>>

-----------------------------------------------------------------------------
(* createPayrollService.run *)

\* A mandate's floors are for local staff under sixty.
Covered(c) == c.age < 60 /\ c.citizenship = "local"

\* assertAffordable: getPayrollService gives it no budget port, so against the limit
\* recorded when the payroll was registered and not against what is left.
Affordable(spend) == spend <= SetupMaxPerRun

\* What is signed: a body that is to be underpaid gets one base unit.
Amounts(breakdown, under) ==
  [b \in Bodies |-> IF b = under THEN 1 ELSE breakdown.total[b]]

MayRun(breakdown) ==
  /\ Covered(class)
  /\ run.approved = rate
  /\ Affordable(breakdown.net + SumOf(Amounts(breakdown, run.underpay)))
  /\ ClearsFloor(breakdown.source, "epf", ConfiguredFloorBps["epf"])

\* The split is worked out again, from the overtime, the leave and the rate of
\* this moment; the run is recorded before anything is signed.
ServeRun ==
  /\ run # None /\ run.at = "asked"
  /\ IF Builds(wage, class) /\ MayRun(Breakdown(wage, class))
     THEN /\ run' = [run EXCEPT !.at = "signed"]
          /\ sent' = [gross |-> Breakdown(wage, class).gross, net |-> Breakdown(wage, class).net,
                      amounts |-> Amounts(Breakdown(wage, class), run.underpay),
                      source |-> Breakdown(wage, class).source, rate |-> rate]
          /\ row' = "pending"
     ELSE run' = [run EXCEPT !.at = "refused"] /\ UNCHANGED <<sent, row>>
  /\ UNCHANGED <<deskVars, period, asked, left>>

Spend(s) == s.net + SumOf(s.amounts)

\* run_payroll's asserts about the amounts (PayrollMandate has the others): the
\* floors and the limit of a run, and that the mandate has the money.
MeetsTheFloors(s) ==
  /\ s.net > 0 /\ s.net <= s.gross /\ MeetsFloor(s.net, s.gross, NetMinBps)
  /\ \A b \in Bodies :
       /\ s.amounts[b] > 0
       /\ MeetsFloor(s.amounts[b], FloorBasis(s.gross, WageCap[b]), ConfiguredFloorBps[b])
  /\ Spend(s) <= SetupMaxPerRun

ContractAccepts(s) == MeetsTheFloors(s) /\ Spend(s) <= left

\* The chain's answer and the row it ends in; a submission whose outcome is not
\* known leaves the row pending.
SettleRun ==
  /\ run # None /\ run.at = "signed"
  /\ \/ /\ ContractAccepts(sent)
        /\ left' = left - Spend(sent)
        /\ \/ row' = "paid" /\ run' = [run EXCEPT !.at = "answered"]
           \/ run' = [run EXCEPT !.at = "uncertain"] /\ UNCHANGED row
     \/ /\ ~ContractAccepts(sent)
        /\ row' = "failed" /\ run' = [run EXCEPT !.at = "answered"]
        /\ UNCHANGED left
     \/ run' = [run EXCEPT !.at = "uncertain"] /\ UNCHANGED <<row, left>>
  /\ UNCHANGED <<deskVars, period, asked, sent>>

-----------------------------------------------------------------------------
\* A fresher rate, more approved overtime, an approved leave, a stream opened on
\* the mandate: what it promises can no longer be spent.
Change ==
  /\ changes < MaxChanges /\ changes' = changes + 1
  /\ \/ rate' \in Rates \ {rate} /\ UNCHANGED <<overtime, leave, left>>
     \/ overtime' \in Overtimes \ {overtime} /\ UNCHANGED <<rate, leave, left>>
     \/ leave' \in Leaves \ {leave} /\ UNCHANGED <<rate, overtime, left>>
     \/ (\E c \in Commits : c <= left /\ left' = left - c) /\ UNCHANGED <<rate, overtime, leave>>
  /\ UNCHANGED <<deskVars, request, sent, row>>

Init ==
  /\ wage = None /\ class = None /\ shown = None /\ desk = "idle"
  /\ rate = SetupRate /\ overtime = 0 /\ leave = 0 /\ changes = 0
  /\ run = None /\ asked = 0
  /\ sent = None /\ row = "none" /\ left = SetupMaxPerRun

Next ==
  \/ \E w \in Wages, c \in Classes, d \in DaysOff : Type(w, c, d)
  \/ Previewed \/ RunAnswered \/ ServeRun \/ SettleRun \/ Change
  \/ \E u \in Bodies \cup {None} : AskToRun(u)

Spec == Init /\ [][Next]_vars

-----------------------------------------------------------------------------
(* Properties *)

\* A run the service signs is never refused for a floor or the limit of a run: not
\* for the roundings of a band, of a percentage and of a conversion at another rate
\* than the mandate's, nor for the overtime outside the EPF wage; and what keeps it
\* above the floors is two base units a body at most (fx.ts speaks of one).  What
\* it can be refused for is that the mandate has less left than it takes, which
\* the service does not look at.  The two exceptions are the body underpaid on
\* purpose, whose run is never paid, and a wage that approved leave takes under the
\* least one that may be typed, of which the fixed bands leave too little.
SignedRunsMeetTheFloors ==
  sent # None =>
    IF run.underpay # None THEN row # "paid" /\ ~MeetsTheFloors(sent)
    ELSE /\ sent.source.paid >= MinGross =>
              MeetsTheFloors(sent) /\ (row = "failed" => Spend(sent) > left)
         /\ \A b \in Bodies : sent.amounts[b] - TwoLegs(sent, b) \in 0..2
=============================================================================
