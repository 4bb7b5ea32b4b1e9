----------------------------- MODULE BackOffice -----------------------------
(***************************************************************************)
(* The employer's and the employee's screens: salary streams               *)
(* (SalaryStreams), the payroll desk (PayrollDesk), overtime and leave     *)
(* (OvertimeDesk), setting up a budget (Onboarding).  They share no state  *)
(* here, so a behaviour is of one of them: the variables of the others     *)
(* stay where they are.                                                    *)
(***************************************************************************)
EXTENDS SalaryStreams

CONSTANTS
  Ringgit, Wages, Classes, DaysOff, Overtimes, Leaves, Rates, RateScale, SetupRate,
  Budget, Commits, Runs, MaxChanges,
  Forms, Queues, Asks, Items, MaxRestarts, MaxTurns,
  Windows, Fundings, Requests, Scope, People, Names, MaxFaults

VARIABLES
  part,  \* "streams", "desk", "overtime" or "setup"
  wage, class, shown, desk, rate, overtime, leave, changes, run, pd_asked, sent,
  pd_row, left,
  listing, saved, form, said, od_pc, at, wants, got, turns, where, ask, status,
  migrated, latched, used_backup, proven, restarts,
  kind, show, on_tx, linked, name, preview, asking, funds, asker, asked_as,
  stage, digest, named, waiter, via, on_row, adds, row_tx, row_name, row_people,
  raced, faults

PD == INSTANCE PayrollDesk WITH asked <- pd_asked, row <- pd_row
OD == INSTANCE OvertimeDesk WITH Desks <- Queues, pc <- od_pc
ON == INSTANCE Onboarding WITH tx <- on_tx, row <- on_row

\* The payroll desk's: amounts, and rates, are whole numbers of their units; a
\* rate is one the circuit breaker of convertMyrToUsdc lets through; a unit is
\* small (a millionth of a ringgit is, by far); and the budget is BUDGET_MYR at
\* most.  The overtime desk's: a form is no queue.  The set-up's: there is a
\* treasurer.  And None is none of them.
ASSUME BackOfficeAssumption ==
  /\ Ringgit \in Nat /\ RateScale \in Nat \ {0}
  /\ \A r \in Rates \cup {SetupRate} :
       r \in RateScale..20 * RateScale /\ 251 * r <= 3 * Ringgit * RateScale
  /\ Budget \in 0..120 * Ringgit
  /\ Wages \subseteq Nat /\ DaysOff \subseteq Nat
  /\ Overtimes \subseteq Nat /\ Leaves \subseteq Nat /\ Commits \subseteq Nat
  /\ Classes \subseteq [age : Nat, citizenship : {"local", "foreign"}]
  /\ Forms \cap Queues = {}
  /\ None \notin {"submitted", "approved", "rejected", "paid", "called", "reached",
                  "epf", "socso", "eis"}
  /\ \E n \in People : People = 1..n
  /\ None \notin Fundings /\ None \notin Requests

streamVars == <<card, waits, pc, asked, starts, based_on, tx, stream, row, opened,
  withdrawn, version, now, view, draw_pc, draw_on, draws>>
payrollVars == <<wage, class, shown, desk, rate, overtime, leave, changes, run,
  pd_asked, sent, pd_row, left>>
overtimeVars == <<listing, saved, form, said, od_pc, at, wants, got, turns, where,
  ask, status, migrated, latched, used_backup, proven, restarts>>
setupVars == <<kind, show, on_tx, linked, name, preview, asking, funds, asker,
  asked_as, stage, digest, named, waiter, via, on_row, adds, row_tx,
  row_name, row_people, raced, faults>>

NoDesk ==
  /\ wage = None /\ class = None /\ shown = None /\ desk = None /\ rate = None
  /\ overtime = None /\ leave = None /\ changes = None /\ run = None
  /\ pd_asked = None /\ sent = None /\ pd_row = None /\ left = None

NoOvertime ==
  /\ listing = None /\ saved = None /\ form = None /\ said = None /\ od_pc = None
  /\ at = None /\ wants = None /\ got = None /\ turns = None /\ where = None
  /\ ask = None /\ status = None /\ migrated = None /\ latched = None
  /\ used_backup = None /\ proven = None /\ restarts = None

NoSetup ==
  /\ kind = None /\ show = None /\ on_tx = None /\ linked = None /\ name = None
  /\ preview = None /\ asking = None /\ funds = None /\ asker = None
  /\ asked_as = None /\ stage = None /\ digest = None
  /\ named = None /\ waiter = None /\ via = None /\ on_row = None /\ adds = None
  /\ row_tx = None /\ row_name = None /\ row_people = None /\ raced = None
  /\ faults = None

BackInit ==
  /\ Init
  /\ \/ part = "streams" /\ NoDesk /\ NoOvertime /\ NoSetup
     \/ part = "desk" /\ PD!Init /\ NoOvertime /\ NoSetup
     \/ part = "overtime" /\ NoDesk /\ OD!Init /\ NoSetup
     \/ part = "setup" /\ NoDesk /\ NoOvertime /\ ON!Init

BackNext ==
  \/ part = "streams" /\ Next
     /\ UNCHANGED <<part, payrollVars, overtimeVars, setupVars>>
  \/ part = "desk" /\ PD!Next
     /\ UNCHANGED <<part, streamVars, overtimeVars, setupVars>>
  \/ part = "overtime" /\ OD!Next
     /\ UNCHANGED <<part, streamVars, payrollVars, setupVars>>
  \/ part = "setup" /\ ON!Next
     /\ UNCHANGED <<part, streamVars, payrollVars, overtimeVars>>

BackSpec ==
  BackInit /\ [][BackNext]_<<part, streamVars, payrollVars, overtimeVars, setupVars>>

-----------------------------------------------------------------------------
(* The properties of the other three, and SalaryStreams' under their own names *)

\* What the employer signs clears the mandate's floors: PayrollDesk's.
SignedRunsMeetTheFloors == part = "desk" => PD!SignedRunsMeetTheFloors

\* What is said to be recorded or saved is kept: OvertimeDesk's.
RecordedIsKept == part = "overtime" => OD!RecordedIsKept

\* A budget said to be live is registered and whole: Onboarding's.
LiveIsWhole == part = "setup" => ON!LiveIsWhole
=============================================================================
