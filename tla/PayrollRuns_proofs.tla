-------------------------- MODULE PayrollRuns_proofs --------------------------
(***************************************************************************)
(* What a payroll run pays is what was approved, and its row tells what    *)
(* the chain did, for any number of runs, claims, mandates and employees.  *)
(*                                                                         *)
(* The properties speak of rows and of the chain; what makes them hold is  *)
(* where each request stands.  RequestSound says what a request knows at   *)
(* each await, BuiltFromApproved that the claims it carries stay decided   *)
(* under it, and SettledArePaid that a settlement reaches every claim its  *)
(* run paid, although it looks at none of their ids.                       *)
(***************************************************************************)
EXTENDS PayrollRuns, TLAPS

RequestSound ==
  \A r \in Runs :
    /\ ~(r \in landed /\ r \in aborted)
    /\ pc[r] = "idle" => claims[r] = {} /\ r \notin settled
    /\ pc[r] # "idle" => mandate[r] \in Mandates
    /\ pc[r] \in {"idle", "built"} => record[r] = "none"
    /\ pc[r] \notin {"settle", "done"} => record[r] \in {"none", "pending"}
    /\ pc[r] \in {"idle", "built", "created"} => r \notin sent
    /\ pc[r] = "refused" => r \notin sent \ aborted
    /\ pc[r] \in {"paid", "settle"} => r \in landed
    /\ pc[r] = "settle" => record[r] = "paid"
    /\ record[r] = "failed" => pc[r] = "done"

BuiltFromApproved ==
  \A r \in Runs :
    /\ \A c \in claims[r] : /\ status[c] \in {"approved", "paid"}
                            /\ Worker[c] = EmployeeOf[mandate[r]]
    /\ \A l \in leave[r] : /\ leave_status[l] = "approved"
                           /\ Worker[l] = EmployeeOf[mandate[r]]

SettledArePaid == \A s \in settled : \A c \in claims[s] : status[c] = "paid"

IInv ==
  TypeOK /\ RequestSound /\ RowsTellTheChain /\ BuiltFromApproved /\ SettledArePaid

-----------------------------------------------------------------------------
LEMMA NoneIsApart == None \notin Runs /\ None \notin Mandates
  BY PayrollRunsAssumption

\* What each step leaves of the invariant.
LEMMA SubmitClaimKeeps ==
  ASSUME IInv, NEW c \in Overtime, SubmitClaim(c)
  PROVE  IInv'
<1> USE NoneIsApart DEF IInv, claimVars, requestVars, chain
<1>1. TypeOK'
  BY DEF SubmitClaim, TypeOK, Statuses
<1>2. RequestSound'
  BY DEF SubmitClaim, TypeOK, RequestSound
<1>3. RowsTellTheChain'
  BY DEF SubmitClaim, TypeOK, RowsTellTheChain
<1>4. BuiltFromApproved'
  BY DEF SubmitClaim, TypeOK, BuiltFromApproved
<1>5. SettledArePaid'
  BY DEF SubmitClaim, TypeOK, SettledArePaid
<1> QED BY <1>1, <1>2, <1>3, <1>4, <1>5

LEMMA ReviewClaimKeeps ==
  ASSUME IInv, NEW c \in Overtime, NEW d \in Decisions, ReviewClaim(c, d)
  PROVE  IInv'
<1> USE NoneIsApart DEF IInv, claimVars, requestVars, chain
<1>1. TypeOK'
  BY DEF ReviewClaim, Undecided, Decisions, TypeOK, Statuses
<1>2. RequestSound'
  BY DEF ReviewClaim, Undecided, Decisions, TypeOK, RequestSound
<1>3. RowsTellTheChain'
  BY DEF ReviewClaim, Undecided, Decisions, TypeOK, RowsTellTheChain
<1>4. BuiltFromApproved'
  BY DEF ReviewClaim, Undecided, Decisions, TypeOK, BuiltFromApproved
<1>5. SettledArePaid'
  BY DEF ReviewClaim, Undecided, Decisions, TypeOK, SettledArePaid
<1> QED BY <1>1, <1>2, <1>3, <1>4, <1>5

LEMMA SubmitLeaveKeeps ==
  ASSUME IInv, NEW l \in Leave, SubmitLeave(l)
  PROVE  IInv'
<1> USE NoneIsApart DEF IInv, claimVars, requestVars, chain
<1>1. TypeOK'
  BY DEF SubmitLeave, TypeOK, Statuses
<1>2. RequestSound'
  BY DEF SubmitLeave, TypeOK, RequestSound
<1>3. RowsTellTheChain'
  BY DEF SubmitLeave, TypeOK, RowsTellTheChain
<1>4. BuiltFromApproved'
  BY DEF SubmitLeave, TypeOK, BuiltFromApproved
<1>5. SettledArePaid'
  BY DEF SubmitLeave, TypeOK, SettledArePaid
<1> QED BY <1>1, <1>2, <1>3, <1>4, <1>5

LEMMA ReviewLeaveKeeps ==
  ASSUME IInv, NEW l \in Leave, NEW d \in Decisions, ReviewLeave(l, d)
  PROVE  IInv'
<1> USE NoneIsApart DEF IInv, claimVars, requestVars, chain
<1>1. TypeOK'
  BY DEF ReviewLeave, Undecided, Decisions, TypeOK, Statuses
<1>2. RequestSound'
  BY DEF ReviewLeave, Undecided, Decisions, TypeOK, RequestSound
<1>3. RowsTellTheChain'
  BY DEF ReviewLeave, Undecided, Decisions, TypeOK, RowsTellTheChain
<1>4. BuiltFromApproved'
  BY DEF ReviewLeave, Undecided, Decisions, TypeOK, BuiltFromApproved
<1>5. SettledArePaid'
  BY DEF ReviewLeave, Undecided, Decisions, TypeOK, SettledArePaid
<1> QED BY <1>1, <1>2, <1>3, <1>4, <1>5

LEMMA ReadPeriodKeeps ==
  ASSUME IInv, NEW r \in Runs, NEW m \in Mandates, ReadPeriod(r, m)
  PROVE  IInv'
<1> USE NoneIsApart DEF IInv, claimVars, requestVars, chain
<1>1. TypeOK'
  BY DEF ReadPeriod, GoTo, TypeOK, PCs
<1>2. RequestSound'
  BY DEF ReadPeriod, GoTo, TypeOK, RequestSound
<1>3. RowsTellTheChain'
  BY DEF ReadPeriod, GoTo, TypeOK, RowsTellTheChain
<1>4. BuiltFromApproved'
  BY DEF ReadPeriod, GoTo, TypeOK, BuiltFromApproved, Payable, Deductible
<1>5. SettledArePaid'
  BY DEF ReadPeriod, GoTo, TypeOK, SettledArePaid, RequestSound
<1> QED BY <1>1, <1>2, <1>3, <1>4, <1>5

LEMMA CreateRunKeeps ==
  ASSUME IInv, NEW r \in Runs, CreateRun(r)
  PROVE  IInv'
<1> USE NoneIsApart DEF IInv, claimVars, requestVars, chain
<1>1. TypeOK'
  BY DEF CreateRun, GoTo, TypeOK, PCs
<1>2. RequestSound'
  BY DEF CreateRun, GoTo, TypeOK, RequestSound
<1>3. RowsTellTheChain'
  BY DEF CreateRun, GoTo, TypeOK, RowsTellTheChain, RequestSound
<1>4. BuiltFromApproved'
  BY DEF CreateRun, GoTo, TypeOK, BuiltFromApproved
<1>5. SettledArePaid'
  BY DEF CreateRun, GoTo, TypeOK, SettledArePaid
<1> QED BY <1>1, <1>2, <1>3, <1>4, <1>5

LEMMA PreparationFailsKeeps ==
  ASSUME IInv, NEW r \in Runs, PreparationFails(r)
  PROVE  IInv'
<1> USE NoneIsApart DEF IInv, claimVars, requestVars, chain
<1>1. TypeOK'
  BY DEF PreparationFails, GoTo, TypeOK, PCs
<1>2. RequestSound'
  BY DEF PreparationFails, GoTo, TypeOK, RequestSound
<1>3. RowsTellTheChain'
  BY DEF PreparationFails, GoTo, TypeOK, RowsTellTheChain, RequestSound
<1>4. BuiltFromApproved'
  BY DEF PreparationFails, GoTo, TypeOK, BuiltFromApproved
<1>5. SettledArePaid'
  BY DEF PreparationFails, GoTo, TypeOK, SettledArePaid
<1> QED BY <1>1, <1>2, <1>3, <1>4, <1>5

LEMMA SubmitKeeps ==
  ASSUME IInv, NEW r \in Runs, Submit(r)
  PROVE  IInv'
<1> USE NoneIsApart DEF IInv, claimVars, requestVars, chain
<1>1. TypeOK'
  BY DEF Submit, GoTo, TypeOK, PCs
<1>2. RequestSound'
  BY DEF Submit, GoTo, TypeOK, RequestSound
<1>3. RowsTellTheChain'
  BY DEF Submit, GoTo, TypeOK, RowsTellTheChain, RequestSound
<1>4. BuiltFromApproved'
  BY DEF Submit, GoTo, TypeOK, BuiltFromApproved
<1>5. SettledArePaid'
  BY DEF Submit, GoTo, TypeOK, SettledArePaid
<1> QED BY <1>1, <1>2, <1>3, <1>4, <1>5

LEMMA MarkFailedKeeps ==
  ASSUME IInv, NEW r \in Runs, MarkFailed(r)
  PROVE  IInv'
<1> USE NoneIsApart DEF IInv, claimVars, requestVars, chain
<1>1. TypeOK'
  BY DEF MarkFailed, GoTo, TypeOK, PCs
<1>2. RequestSound'
  BY DEF MarkFailed, GoTo, TypeOK, RequestSound
<1>3. RowsTellTheChain'
  BY DEF MarkFailed, GoTo, TypeOK, RowsTellTheChain, RequestSound
<1>4. BuiltFromApproved'
  BY DEF MarkFailed, GoTo, TypeOK, BuiltFromApproved
<1>5. SettledArePaid'
  BY DEF MarkFailed, GoTo, TypeOK, SettledArePaid
<1> QED BY <1>1, <1>2, <1>3, <1>4, <1>5

LEMMA MarkPaidKeeps ==
  ASSUME IInv, NEW r \in Runs, MarkPaid(r)
  PROVE  IInv'
<1> USE NoneIsApart DEF IInv, claimVars, requestVars, chain
<1>1. TypeOK'
  BY DEF MarkPaid, GoTo, TypeOK, PCs
<1>2. RequestSound'
  BY DEF MarkPaid, GoTo, TypeOK, RequestSound
<1>3. RowsTellTheChain'
  BY DEF MarkPaid, GoTo, TypeOK, RowsTellTheChain, RequestSound
<1>4. BuiltFromApproved'
  BY DEF MarkPaid, GoTo, TypeOK, BuiltFromApproved
<1>5. SettledArePaid'
  BY DEF MarkPaid, GoTo, TypeOK, SettledArePaid
<1> QED BY <1>1, <1>2, <1>3, <1>4, <1>5

LEMMA AbandonKeeps ==
  ASSUME IInv, NEW r \in Runs, Abandon(r)
  PROVE  IInv'
<1> USE NoneIsApart DEF IInv, claimVars, requestVars, chain
<1>1. TypeOK'
  BY DEF Abandon, GoTo, TypeOK, PCs
<1>2. RequestSound'
  BY DEF Abandon, GoTo, TypeOK, RequestSound
<1>3. RowsTellTheChain'
  BY DEF Abandon, GoTo, TypeOK, RowsTellTheChain, RequestSound
<1>4. BuiltFromApproved'
  BY DEF Abandon, GoTo, TypeOK, BuiltFromApproved
<1>5. SettledArePaid'
  BY DEF Abandon, GoTo, TypeOK, SettledArePaid
<1> QED BY <1>1, <1>2, <1>3, <1>4, <1>5

LEMMA ConfirmKeeps ==
  ASSUME IInv, NEW r \in Runs, Confirm(r)
  PROVE  IInv'
<1> USE NoneIsApart DEF IInv, claimVars, requestVars, chain
<1>1. TypeOK'
  BY DEF Confirm, Succeeded, Refused, GoTo, TypeOK, PCs
<1>2. RequestSound'
  BY DEF Confirm, Succeeded, Refused, GoTo, TypeOK, RequestSound
<1>3. RowsTellTheChain'
  BY DEF Confirm, Succeeded, Refused, GoTo, TypeOK, RowsTellTheChain
<1>4. BuiltFromApproved'
  BY DEF Confirm, Succeeded, Refused, GoTo, TypeOK, BuiltFromApproved
<1>5. SettledArePaid'
  BY DEF Confirm, Succeeded, Refused, GoTo, TypeOK, SettledArePaid
<1> QED BY <1>1, <1>2, <1>3, <1>4, <1>5

LEMMA ExecuteKeeps ==
  ASSUME IInv, NEW r \in Runs, Execute(r)
  PROVE  IInv'
<1> USE NoneIsApart DEF IInv, claimVars, requestVars, chain
<1>1. TypeOK'
  BY DEF Execute, TypeOK
<1>2. RequestSound'
  BY DEF Execute, TypeOK, RequestSound
<1>3. RowsTellTheChain'
  BY DEF Execute, TypeOK, RowsTellTheChain
<1>4. BuiltFromApproved'
  BY DEF Execute, TypeOK, BuiltFromApproved
<1>5. SettledArePaid'
  BY DEF Execute, TypeOK, SettledArePaid
<1> QED BY <1>1, <1>2, <1>3, <1>4, <1>5

LEMMA SettleClaimsKeeps ==
  ASSUME IInv, NEW r \in Runs, SettleClaims(r)
  PROVE  IInv'
<1> USE NoneIsApart DEF IInv, claimVars, requestVars, chain
<1>1. TypeOK'
  BY DEF SettleClaims, Settles, GoTo, TypeOK, PCs, Statuses
<1>2. RequestSound'
  BY DEF SettleClaims, Settles, GoTo, TypeOK, RequestSound
<1>3. RowsTellTheChain'
  BY DEF SettleClaims, Settles, GoTo, TypeOK, RowsTellTheChain, RequestSound
<1>4. BuiltFromApproved'
  BY DEF SettleClaims, Settles, GoTo, TypeOK, BuiltFromApproved
<1>5. SettledArePaid'
  BY DEF SettleClaims, Settles, GoTo, TypeOK, SettledArePaid, BuiltFromApproved
<1> QED BY <1>1, <1>2, <1>3, <1>4, <1>5

-----------------------------------------------------------------------------
LEMMA InitIInv == ASSUME Init PROVE IInv
<1>1. TypeOK
  BY NoneIsApart DEF Init, TypeOK, Statuses, PCs
<1>2. RequestSound /\ RowsTellTheChain
  BY DEF Init, RequestSound, RowsTellTheChain
<1>3. BuiltFromApproved /\ SettledArePaid
  BY DEF Init, BuiltFromApproved, SettledArePaid
<1> QED BY <1>1, <1>2, <1>3 DEF IInv

LEMMA StepIInv == ASSUME IInv, [Next]_vars PROVE IInv'
<1>1. CASE Requests
  BY <1>1, SubmitClaimKeeps, ReviewClaimKeeps, SubmitLeaveKeeps, ReviewLeaveKeeps
  DEF Requests
<1>2. CASE \E r \in Runs : Run(r)
  BY <1>2, ReadPeriodKeeps, CreateRunKeeps, PreparationFailsKeeps, SubmitKeeps, ConfirmKeeps,
     MarkFailedKeeps, MarkPaidKeeps, SettleClaimsKeeps
  DEF Run
<1>3. CASE \E r \in Runs : Abandon(r) \/ Execute(r)
  BY <1>3, AbandonKeeps, ExecuteKeeps
<1>4. CASE UNCHANGED vars
  BY <1>4 DEF IInv, TypeOK, RequestSound, RowsTellTheChain, BuiltFromApproved,
       SettledArePaid, vars, claimVars, requestVars, chain
<1> QED BY <1>1, <1>2, <1>3, <1>4 DEF Next

THEOREM Invariance == Spec => []IInv
  BY InitIInv, StepIInv, PTL DEF Spec

\* Every column and local keeps its type, and an overtime claim carries a run
\* exactly when it is paid: no update ever meets the table's lifecycle check.
THEOREM TypeCorrect == Spec => []TypeOK
<1>1. IInv => TypeOK
  BY DEF IInv
<1> QED BY <1>1, Invariance, PTL

\* A row says paid, and a claim is stamped, only by a run that landed; a run
\* recorded as failed never moves the wage, then or later.
THEOREM RowsAreTrue == Spec => []RowsTellTheChain
<1>1. IInv => RowsTellTheChain
  BY DEF IInv
<1> QED BY <1>1, Invariance, PTL

\* A wage that moved carried only approved overtime and lost only approved
\* leave, both of its own employee, whatever was decided while it was paid.
THEOREM PaysTheApproved == Spec => []OnlyTheApprovedCounts
<1>1. IInv => OnlyTheApprovedCounts
  BY DEF IInv, TypeOK, BuiltFromApproved, OnlyTheApprovedCounts
<1> QED BY <1>1, Invariance, PTL

\* Overtime that a run has settled is in no period read afterwards: only a run
\* that read it before the settlement can pay it again.
THEOREM SettlesForGood == Spec => SettledIsNotReadAgain
<1> DEFINE NotReadAgain ==
      \A r \in Runs, s \in settled, c \in Overtime :
        c \in claims[s] /\ c \in claims'[r] => c \in claims[r]
<1>1. ASSUME IInv, Next PROVE NotReadAgain
  <2>1. CASE \E q \in Runs, m \in Mandates : ReadPeriod(q, m)
    <3>1. PICK q \in Runs, m \in Mandates : ReadPeriod(q, m)
      BY <2>1
    <3>2. claims' = [claims EXCEPT ![q] = {c \in Overtime : Payable(c, m)}]
      BY <3>1 DEF ReadPeriod
    <3>3. ASSUME NEW s \in settled, NEW c \in Overtime, c \in claims[s]
          PROVE  ~Payable(c, m)
      BY <1>1, <3>3 DEF IInv, SettledArePaid, Payable
    <3>4. claims \in [Runs -> SUBSET Overtime]
      BY <1>1 DEF IInv, TypeOK
    <3> QED BY <3>2, <3>3, <3>4
  <2>2. CASE UNCHANGED claims
    BY <2>2
  <2>3. (\E q \in Runs, m \in Mandates : ReadPeriod(q, m)) \/ UNCHANGED claims
    BY <1>1 DEF Next, Requests, Run, SubmitClaim, ReviewClaim, SubmitLeave, ReviewLeave,
         CreateRun, PreparationFails, Submit, Confirm, MarkFailed, MarkPaid, SettleClaims,
         Abandon, Execute, requestVars
  <2> QED BY <2>1, <2>2, <2>3
<1>2. IInv /\ [Next]_vars => [NotReadAgain]_vars
  BY <1>1
<1>3. Spec => []IInv
  BY Invariance
<1> QED BY <1>2, <1>3, PTL DEF Spec, SettledIsNotReadAgain
=============================================================================
