----------------------------- MODULE PayrollRuns -----------------------------
(***************************************************************************)
(* Payroll runs over approved overtime and unpaid leave                    *)
(* (packages/web/src/server/payroll/service.ts, period.ts,                 *)
(* server/sui/payroll-executor.ts, server/overtime).                       *)
(*                                                                         *)
(* A run reads what its employee is owed, inserts a pending row, has the   *)
(* chain pay, marks the row, and only then settles the overtime: one step  *)
(* for each await, other runs and reviews between any two of them.  A run  *)
(* that throws, or dies, stays where it was; nothing resumes it.           *)
(***************************************************************************)
EXTENDS Integers, FiniteSets

CONSTANTS
  Runs,         \* requests to run payroll, and the rows they insert
  Overtime,     \* overtime claims that may be raised
  Leave,        \* requests for unpaid leave that may be raised
  Mandates,     \* registered payroll mandates, of one employee each
  Employees,
  EmployeeOf,   \* mandate -> its approved employee
  Worker,       \* overtime claim or leave request -> who raised it
  RaisedUnder,  \* overtime claim -> the mandate it names, or None
  None          \* SQL null

ASSUME PayrollRunsAssumption ==
  /\ EmployeeOf \in [Mandates -> Employees]
  /\ Worker \in [Overtime \cup Leave -> Employees]
  /\ RaisedUnder \in [Overtime -> Mandates \cup {None}]
  /\ None \notin Runs \cup Mandates

VARIABLES
  status,        \* overtime claim -> where it stands, "none" before it is raised
  run_id,        \* overtime claim -> the run it is stamped with, or None
  leave_status,  \* leave request -> where it stands
  record,        \* run -> the status of its row, "none" before it is inserted
  pc,            \* run -> where its request stands
  mandate,       \* run -> the mandate it is for
  claims,        \* run -> the overtime it pays: period.claimIds
  leave,         \* run -> the leave it deducts
  sent,          \* runs whose signed transaction left the server
  landed,        \* runs executed with success: the wage moved
  aborted,       \* runs executed with a Move abort
  settled        \* runs whose settlement was written (history)

claimVars == <<status, run_id>>
requestVars == <<pc, mandate, claims, leave>>
chain == <<sent, landed, aborted>>
vars == <<claimVars, leave_status, record, requestVars, chain, settled>>

-----------------------------------------------------------------------------
(* Mutations: definitions with one plausible mistake each, used nowhere.    *)

\* A decision may still change an approval.
UndecidedUntilPaid(s) == s \in {"submitted", "approved"}

\* Settlement by mandate, as the period was read, but not of the claims that
\* name no mandate.
SettlesOwnMandate(c, r) == status[c] = "approved" /\ RaisedUnder[c] = mandate[r]

\* A marking that half-failed: the run is stamped, the status is not written.
SettleHalf(r) ==
  /\ pc[r] = "settle"
  /\ run_id' = [c \in Overtime |->
       IF status[c] = "approved" /\ Worker[c] = EmployeeOf[mandate[r]] THEN r ELSE run_id[c]]
  /\ settled' = settled \cup {r}
  /\ pc' = [pc EXCEPT ![r] = "done"]
  /\ UNCHANGED <<status, leave_status, record, mandate, claims, leave, chain>>

\* An uncertain submission is recorded as refused.
RefusedIfUncertain(r) == TRUE

-----------------------------------------------------------------------------
(* Overtime and leave: raised by an employee, decided once by the employer  *)

\* decideClaim and decideLeave: `where status = 'submitted'`.
Undecided(s) == s = "submitted"

SubmitClaim(c) ==
  /\ status[c] = "none"
  /\ status' = [status EXCEPT ![c] = "submitted"]
  /\ UNCHANGED <<run_id, leave_status, record, requestVars, chain, settled>>

\* The decision carries a status; a claim already decided is a conflict.
ReviewClaim(c, decision) ==
  /\ Undecided(status[c])
  /\ status' = [status EXCEPT ![c] = decision]
  /\ UNCHANGED <<run_id, leave_status, record, requestVars, chain, settled>>

SubmitLeave(l) ==
  /\ leave_status[l] = "none"
  /\ leave_status' = [leave_status EXCEPT ![l] = "submitted"]
  /\ UNCHANGED <<claimVars, record, requestVars, chain, settled>>

ReviewLeave(l, decision) ==
  /\ Undecided(leave_status[l])
  /\ leave_status' = [leave_status EXCEPT ![l] = decision]
  /\ UNCHANGED <<claimVars, record, requestVars, chain, settled>>

-----------------------------------------------------------------------------
(* One payroll run *)

\* assemblePeriod's payable: a claim that names no mandate is owed by any.
Payable(c, m) ==
  /\ status[c] = "approved" /\ run_id[c] = None
  /\ Worker[c] = EmployeeOf[m]
  /\ RaisedUnder[c] \in {None, m}

\* approvedLeaveDeduction: nothing records that a run already deducted it.
Deductible(l, m) == leave_status[l] = "approved" /\ Worker[l] = EmployeeOf[m]

GoTo(r, where) == pc' = [pc EXCEPT ![r] = where]

\* build: overtime and leave are read side by side, from tables no step writes
\* together, so reading both at once loses no behaviour.
ReadPeriod(r, m) ==
  /\ pc[r] = "idle"
  /\ mandate' = [mandate EXCEPT ![r] = m]
  /\ claims' = [claims EXCEPT ![r] = {c \in Overtime : Payable(c, m)}]
  /\ leave' = [leave EXCEPT ![r] = {l \in Leave : Deductible(l, m)}]
  /\ GoTo(r, "built")
  /\ UNCHANGED <<claimVars, leave_status, record, chain, settled>>

\* The row is inserted before anything is signed.
CreateRun(r) ==
  /\ pc[r] = "built"
  /\ record' = [record EXCEPT ![r] = "pending"]
  /\ GoTo(r, "created")
  /\ UNCHANGED <<claimVars, leave_status, mandate, claims, leave, chain, settled>>

\* Nothing was signed: a refusal without a code or a digest.
PreparationFails(r) ==
  /\ pc[r] = "created"
  /\ GoTo(r, "refused")
  /\ UNCHANGED <<claimVars, leave_status, record, mandate, claims, leave, chain, settled>>

Submit(r) ==
  /\ pc[r] = "created"
  /\ sent' = sent \cup {r}
  /\ GoTo(r, "sent")
  /\ UNCHANGED <<claimVars, leave_status, record, mandate, claims, leave,
                 landed, aborted, settled>>

Succeeded(r) == r \in landed

\* A confirmed failure is a refusal; no answer is no refusal (see Abandon).
Refused(r) == r \in aborted

Confirm(r) ==
  /\ pc[r] = "sent"
  /\ \/ Succeeded(r) /\ GoTo(r, "paid")
     \/ Refused(r) /\ GoTo(r, "refused")
  /\ UNCHANGED <<claimVars, leave_status, record, mandate, claims, leave, chain, settled>>

MarkFailed(r) ==
  /\ pc[r] = "refused"
  /\ record' = [record EXCEPT ![r] = "failed"]
  /\ GoTo(r, "done")
  /\ UNCHANGED <<claimVars, leave_status, mandate, claims, leave, chain, settled>>

\* A run that paid no overtime has nothing to settle.
MarkPaid(r) ==
  /\ pc[r] = "paid"
  /\ record' = [record EXCEPT ![r] = "paid"]
  /\ GoTo(r, IF claims[r] = {} THEN "done" ELSE "settle")
  /\ UNCHANGED <<claimVars, leave_status, mandate, claims, leave, chain, settled>>

\* The update's where clause: the employee and the status, not the claim ids
\* the run was built from.
Settles(c, r) == status[c] = "approved" /\ Worker[c] = EmployeeOf[mandate[r]]

SettleClaims(r) ==
  /\ pc[r] = "settle"
  /\ status' = [c \in Overtime |-> IF Settles(c, r) THEN "paid" ELSE status[c]]
  /\ run_id' = [c \in Overtime |-> IF Settles(c, r) THEN r ELSE run_id[c]]
  /\ settled' = settled \cup {r}
  /\ GoTo(r, "done")
  /\ UNCHANGED <<leave_status, record, mandate, claims, leave, chain>>

\* A refusal before anything was written, a database that does not answer, an
\* uncertain submission, a crash: the request ends where it is.
Abandon(r) ==
  /\ pc[r] \notin {"idle", "done"}
  /\ GoTo(r, "done")
  /\ UNCHANGED <<claimVars, leave_status, record, mandate, claims, leave, chain, settled>>

\* Sui executes a transaction at most once, whether or not anyone waits for it.
Execute(r) ==
  /\ r \in sent \ (landed \cup aborted)
  /\ \/ landed' = landed \cup {r} /\ UNCHANGED aborted
     \/ aborted' = aborted \cup {r} /\ UNCHANGED landed
  /\ UNCHANGED <<claimVars, leave_status, record, requestVars, sent, settled>>

-----------------------------------------------------------------------------
Init ==
  /\ status = [c \in Overtime |-> "none"]
  /\ run_id = [c \in Overtime |-> None]
  /\ leave_status = [l \in Leave |-> "none"]
  /\ record = [r \in Runs |-> "none"]
  /\ pc = [r \in Runs |-> "idle"]
  /\ mandate = [r \in Runs |-> None]
  /\ claims = [r \in Runs |-> {}]
  /\ leave = [r \in Runs |-> {}]
  /\ sent = {} /\ landed = {} /\ aborted = {} /\ settled = {}

Decisions == {"approved", "rejected"}

Requests ==
  \/ \E c \in Overtime : SubmitClaim(c) \/ \E d \in Decisions : ReviewClaim(c, d)
  \/ \E l \in Leave : SubmitLeave(l) \/ \E d \in Decisions : ReviewLeave(l, d)

Run(r) ==
  \/ \E m \in Mandates : ReadPeriod(r, m)
  \/ CreateRun(r) \/ PreparationFails(r) \/ Submit(r) \/ Confirm(r)
  \/ MarkFailed(r) \/ MarkPaid(r) \/ SettleClaims(r)

Next ==
  \/ Requests
  \/ \E r \in Runs : Run(r) \/ Abandon(r) \/ Execute(r)

Spec == Init /\ [][Next]_vars

-----------------------------------------------------------------------------
(* Properties *)

Statuses == {"none", "submitted", "approved", "rejected", "paid"}
PCs == {"idle", "built", "created", "sent", "paid", "refused", "settle", "done"}

\* Columns and locals have their types, and the table's lifecycle constraint is
\* never met by an update: a claim carries a run exactly when it is paid.
TypeOK ==
  /\ status \in [Overtime -> Statuses]
  /\ run_id \in [Overtime -> Runs \cup {None}]
  /\ \A c \in Overtime : status[c] = "paid" <=> run_id[c] # None
  /\ leave_status \in [Leave -> Statuses \ {"paid"}]
  /\ record \in [Runs -> {"none", "pending", "paid", "failed"}]
  /\ pc \in [Runs -> PCs]
  /\ mandate \in [Runs -> Mandates \cup {None}]
  /\ claims \in [Runs -> SUBSET Overtime]
  /\ leave \in [Runs -> SUBSET Leave]
  /\ sent \subseteq Runs /\ landed \subseteq sent /\ aborted \subseteq sent
  /\ settled \subseteq Runs

\* The row of a run tells what the chain did: `paid` and every stamp on a claim
\* are of a run that landed, and a run recorded as failed never lands.
RowsTellTheChain ==
  /\ \A r \in Runs : record[r] = "paid" => r \in landed
  /\ \A r \in Runs : record[r] = "failed" => r \notin sent \ aborted
  /\ \A c \in Overtime : run_id[c] # None => record[run_id[c]] = "paid"

\* A wage that moved carried only overtime and lost only leave of its own
\* employee that the employer approved, whatever was decided under way.
OnlyTheApprovedCounts ==
  \A r \in landed :
    /\ \A c \in claims[r] : /\ status[c] \in {"approved", "paid"}
                            /\ Worker[c] = EmployeeOf[mandate[r]]
    /\ \A l \in leave[r] : /\ leave_status[l] = "approved"
                           /\ Worker[l] = EmployeeOf[mandate[r]]

\* Overtime a run has paid and settled is in no period read after that: to be
\* paid twice, a claim must be read again before its run has settled.
SettledIsNotReadAgain ==
  [][\A r \in Runs, s \in settled, c \in Overtime :
       c \in claims[s] /\ c \in claims'[r] => c \in claims[r]]_vars

\* period.ts: the stamp is of the run that paid the claim.
StampedByTheRunThatPaid ==
  \A c \in Overtime : run_id[c] # None => c \in claims[run_id[c]]
=============================================================================
