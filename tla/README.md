# Tali Treasury: a verification project

Tali Treasury pays expense claims and wages out of on-chain mandates. An
employer locks USDC in a Move object on Sui; a server holds the capability to
pay out of it, judges what is claimed, keeps a row for every claim and payroll
run in Supabase, and submits the transactions. This directory holds TLA+ models
of that system, the TLC configurations that check them on small instances, and
proofs, checked by TLAPS, of the properties that matter most.

Paths below are relative to the repository; `server/` is
`packages/web/src/server/`.

## 1. The system

| part | state it keeps | operations | interacts with |
|---|---|---|---|
| payroll contract (`contracts/tali_treasury/sources/payroll.move`) | mandate: terms, budget, committed, total_paid, run_count, revoked; streams: total, withdrawn, period | create, run_payroll, open_stream, withdraw_earned, revoke, withdraw_remaining | called by the payroll and stream executors, by workers, by the employer |
| expense contract (`tali_treasury.move`) | mandate: limits, budget, spent, revoked; the two capabilities | create, spend, revoke, withdraw_remaining | called by the payment executor and by the treasurer |
| claims (`server/claims`, `server/supabase/claim-repository.ts`, triggers and constraints in `supabase/migrations`) | one row per claim: state, decision, review, FX quote, payment, payment attempt | process, review, resubmit, pay, reconcile | mandate reader, policy, FX, payment executor |
| payment executor (`server/sui/payment-executor.ts`, `transaction.ts`) | none of its own | prepare and sign, record the digest, submit, confirm, look up | the row, the chain |
| policy (`server/policy/evaluate.ts`) | none | evaluatePolicy | claims |
| payroll (`server/payroll`, `server/sui/payroll-executor.ts`) | one row per run: pending, paid, failed | preview, run, settle | overtime, statutory, FX, the contract |
| overtime and leave (`server/overtime`) | claims and leave requests with a decision; the run a claim was paid by | submit, review, settle | payroll |
| statutory deductions and floors (`server/payroll/statutory.ts`, `floors.ts`, `fx.ts`) | none | computeStatutory, quotePayrollSplit | payroll |
| rates and quotes (`server/fx`) | one shared rate with a refresh lease; a quote on each MYR claim | refresh, quote | claims, payroll |
| salary streams (`server/streams`) | registry row per stream | open, find | the contract |
| receipt drafts, claim creation (`server/receipts`, `claims/manual.ts`) | drafts, consumed once, expiring | analyse, create a claim | claims |
| wallet sign-in (`server/auth`) | challenges, sessions | challenge, verify, sign out | every route |
| configuration registry, setup (`server/payroll/configurations.ts`, `registration.ts`, `setup*.ts`) | append-only configurations | register after verifying on chain | payroll, streams |
| events and members (`server/events`) | rows | register | claims |
| fallback stores (`payroll/run-store.ts`, `overtime/store.ts`) | a latch, an in-memory copy | every repository call | payroll, overtime |
| web interface (`packages/web/src/components`, `packages/shared`) | per open page: the form, the step it is at, what it last read, the request it waits for | submit, retry, correct, sign, preview, decide, withdraw | its routes, the wallet |
| API routes (`packages/web/src/app/api`) | none | authorize, then call one service | interface, services |

There is no queue, no lock and no background worker. Every operation is an HTTP
request that reads a row, awaits something slow (the database, the mandate, a
rate provider, the chain), and writes with an `UPDATE ... WHERE` that names the
state it expects. Requests of several people, retries, and requests that died
half way interleave freely, and a transaction that was sent may land long after
anyone stopped waiting. What has to hold across this:

- **contracts**: no unit of the coin is created or lost; what a stream was
  promised stays payable; floors bind the wage that is paid; a revoked or
  expired mandate stays shut; the treasurer can always get the rest out;
- **claims**: one payment per claim; whatever may move money can be found from
  the row; the row tells the truth about the chain; what is paid is what was
  judged, approved and quoted; an open payment is eventually resolved;
- **payroll runs**: the row tells the truth about the chain; only approved work
  is paid; overtime is paid once; overtime marked paid was paid;
- **the payroll desk**: what the employer signs passes the floors the contract
  measures, whatever rate, band, overtime and leave the wage went through;
- **salary streams**: a refused opening opened nothing; the registry names a
  stream that exists; the employee is offered what the contract will pay, but for
  the browser's clock;
- **claim intake**: one claim per receipt; "submitted" is said of what was sent,
  or of what the claim was corrected to since;
  every photographed claim has its image; no screen waits for nothing;
- **sign-in**: one session per challenge; a screen acts in the name it shows,
  unless two sign-ins overlapped, and follows the wallet; of what it offers the
  server refuses only what section 6 lists;
- **overtime and leave**: a decision said to be recorded stands, in the table or
  in the memory that stands in for it;
- **setting up**: a budget said to be live is on chain, registered, and complete.

`PROJECT.json` lists 40 places where these are hard to get right and hard to
test ("hazards"); each names the property that covers it or says why none does.

## 2. Modules

| module | models | how state and actions correspond |
|---|---|---|
| `FundEscrow` | the abstract specification of a mandate | money is free, promised, paid or returned; five steps move it |
| `PayrollMandate` | `payroll.move` | the fields of `PayrollMandate` and `SalaryStream` as functions; one action per public function, its aborts as guards; u64 as `0..MAX_U64` with an abort where Move's arithmetic aborts; refines `FundEscrow` with `committed` as the promised money |
| `ExpenseMandate` | `tali_treasury.move` | the same, with the capability `withdraw_remaining` consumes; refines `FundEscrow` with nothing promised |
| `ClaimPayment` | one claim, the five request handlers, the executor and the chain | the row's columns; for each request, where it stands (`pc`) and what it has read and holds; one action per read, per guarded write, per call; `Execute` is Sui |
| `PayrollRuns` | payroll runs, overtime and leave, the payroll executor and the chain | the three tables' columns; for each run its `pc`, mandate and period; one action per await |
| `PayrollDesk` | the desk a run is typed into, the statutory split, its conversion, the payroll service's checks | `statutory.ts` and `fx.ts` as operators on integers; the desk's fields and the split it shows; a request's stages; `sent` is the transaction's amounts, `row` the one in `payroll_runs`, `left` what the mandate can still spend |
| `SalaryStreams` | the card that opens a stream, the opening service, `salary_streams`, the live balance and the withdrawals | one action per await of the opening; the contract is what these see of it (a stream by the transaction that made it); one signing key, so a transaction is good for one `version`; `Readings` is what the browser's clock may say, `now` the chain's |
| `ClaimIntake` | `ClaimFlow.tsx`, the four routes it calls, drafts, claims, roster, image bucket | the component's step and fields per tab; requests in slots of their own, because one that a screen gave up on is still carried out; making a claim and reading it back are two actions; `accepted` is history: the figures a claim had in turn |
| `SignIn` | the wallet provider, `server/auth`, challenges, sessions, roles and what they are offered | what the screen believes (`session`) and what the next request proves (`cookie`) are two variables; each fetch is a request handled later and answered later still, its headers (the cookie) before its body (the screen); `rivals` is history: the sign-ins under way when one began |
| `OvertimeDesk` | the two forms, the approval queue, the overtime service and `store.ts` | a call's stages, each against the store it reaches; `latched`, `used_backup`, `proven` are the store's three flags; `migrated` is whether the tables exist |
| `Onboarding` | the two set-up screens, the wallet, `POST /api/events` and `/api/payroll/register` | the wallet's transaction and the server's registration are separate; the event, its treasurer and its recipients are inserted one by one; `raced` is history: the transactions two registrations looked for before either wrote |
| `FrontOffice`, `BackOffice` | several components side by side | see below |
| `MC...` | constants for TLC | |
| `..._proofs` | theorems of the module named | |

`FrontOffice` holds `ClaimIntake` and `SignIn`; `BackOffice` holds
`SalaryStreams`, `PayrollDesk`, `OvertimeDesk` and `Onboarding`. The components
of one module share no state here, so a behaviour is of one of them, named by
`part`, and the variables of the others are `None` throughout; a property of a
component is asked of its own part. This is several questions in one state
graph, not a composition: nothing is claimed about two of them interleaved. What
must be assumed of the constants of all of them stands there too, as
`FrontOfficeAssumption` and `BackOfficeAssumption`, which TLC evaluates in every
run of them and the proofs use.

The modules fit together along the data they hand on. A claim comes to be in
`ClaimIntake` and is decided and paid in `ClaimPayment`, out of an
`ExpenseMandate` that `Onboarding` funded and registered. Overtime is raised and
decided in `OvertimeDesk`, counted and settled in `PayrollRuns`, whose amounts
`PayrollDesk` computes and whose contract is `PayrollMandate`; `SalaryStreams` is
the other user of that contract. `SignIn` says in whose name all of it is done.

Definitions under "Mutations", or marked as one where they stand, are versions
of a definition with one plausible mistake in it. No specification uses them;
they record what kind of mistake each property catches.

**What one action is.** A request runs without interruption from one await to
the next, so one action is one read, or one guarded write with everything
computed between it and the previous await that nobody else can see. A write
whose `WHERE` matches no row, a constraint or trigger that raises, an exception
and a crash have the same effect on what is shared - none - and are one action,
`Abandon`, possible at every step. A write that was applied though its answer
was lost is the write followed by `Abandon`.

**The claim row.** `figures` stands for everything a member declares; a decision
and a review also carry `of`, the figures they were computed on, which the code
does not store (history). The digest of a transaction is its content - the
amount and the version of the agent's owned objects - because that is what it
hashes, and because Sui executes it only at that version. `orphaned` is a
history variable: some result without a digest closed a row whose attempt had
one. It does not guard any action.

**The chain** executes a sent transaction at most once, in any order, at any
time, with success or an abort; another transaction of the same agent may use up
the version first, and then it never lands.

## 3. Runs

| run | instance | what it shows |
|---|---|---|
| `payroll_mandate` | 2 mandates, 2 streams, amounts 1-2, u64 of 0..4, 3 clock values, floors of a half, three offers; 156 thousand states | every interleaving of the contract's calls keeps `CommittedIsOwed`, `WagesStayPayable`, `NeverAheadOfAccrual`, `FundsConserved`, `FloorsBindTheWagePaid`, `RevokedOnlySettles`, and implements the escrow |
| `expense_mandate` | 2 mandates, 5 offers, amounts 0-3, u64 of 0..4, 4 clock values | `FundsRecoverable`, `FundsConserved`, `ClosedStaysClosed`, and implements the escrow |
| `claim_usdc` | 3 concurrent requests, 2 figures, 3 object versions; 1.8 million states | `PaymentIsOnRecord`, `PaidAtMostOnce`, `PaidRowIsTrue`, `PaidTheRowAmount` |
| `claim_myr` | 3 requests, 2 figures, 2 quotes, 2 versions; 1.4 million states | `RinggitNeedsApproval`, `ApprovedFiguresWereJudged`, `RejectedIsFinal` |
| `claim_reconciled` | 2 requests, 2 versions, with fairness | `ReconciledEventually` |
| `payroll_runs` | 2 runs, 3 mandates of 2 employees, 3 overtime claims, 1 leave request; 1.9 million states | `RowsTellTheChain`, `OnlyTheApprovedCounts`, `SettledIsNotReadAgain` |
| `front_office` | intake: 2 tabs, 1 receipt, 1 expense, 2 wallets, 2 requests, 2 drafts, 2 claims, 1 return; sign-in: 2 sign-ins of 2 copies, 2 sign-outs, 2 account switches, an earlier session that may expire, 1 wallet not on the roster; 2.3 million states | `OneClaimPerReceipt`, `SubmittedIsWhatWasSent`, `ClaimHasItsImage`, `BusyIsWaiting`; `OneSessionPerChallenge`, `ActsAsShown`, `OfferedIsNotForbidden`, `ScreenFollowsWallet` |
| `back_office` | streams: 1 card, 2 openings, 2 balance screens, 2 withdrawals, clock 0..2, browser's clock 0..3; desk: 3 wages, 3 classes of worker, 2 rates, 2 runs of one mandate, 2 changes; overtime: 1 form, 2 queues, 2 items, 1 restart; setup: 1 page, 2 people, 2 names, 2 faults, and 1 funding with 3 requests of a treasury or 2 with 2 of a payroll; 1.4 million states | `RefusedOpenedNothing`, `RegistryNamesTheStream`, `OfferIsWhatTheContractPays`; `SignedRunsMeetTheFloors`; `RecordedIsKept`; `LiveIsWhole` |
| `claim_paid_twice`, `claim_unjudged`, `claim_stale_quote`, `overtime_unpaid` | as above | the code does not do what its documents say: section 6 |

**Why the bounds are enough.** The contracts compare amounts with limits, with
each other and with `MAX_U64`: four units reach a limit, a remainder, a rounding
and an overflow, and two mandates reach a payment charged to the wrong one. In
`ClaimPayment`, the sequences that matter need a first attempt, a second one and
a slow answer of the first: two requests, a third to interfere between them;
three object versions allow two payments and one that lost its version; two
quotes allow an expired one and its successor. Handlers are interchangeable
(symmetry) and no liveness is checked under symmetry. In `PayrollRuns` two runs
are the least that can read the same period, and the overtime covers the three
ways a claim relates to a mandate: named, unnamed, and a colleague's.

In `front_office`, one tab photographs the receipt and the other types the
expense in: that reaches the three ways two submissions can be of one thing (the
same photograph, the same expense, a retry of one's own), and the second wallet,
which one tab changes to while its screen stays, reaches a claim made in another
name than the draft's. Two requests are a screen's own and one it gave up on, or
one of each tab. Sign-in needs two attempts, the second begun before the first
is answered, and a POST the browser delivers twice; two account switches go away
and come back. In `back_office`, two openings are the least that race for the
registry, and a stream of 5 over 2 clock values is never a whole amount half
way; a browser's clock that is behind, right or ahead of it is a reading of 0 to 3.
The desk's wages are the RM20 minimum, one within the first bands of which two
runs do not fit the RM120 of a mandate, and one above the RM5,000 and RM6,000
limits, with the wider band, which is previewed and then refused, as the code
refuses it, by what a mandate allows in one run (wages above RM20,000, which have
no band, are left to the theorem). Two runs of one mandate, and a stream that
commits RM20 of it between them, reach the run that is signed though the money
is gone. A ringgit is 200 units here: few enough for a band to be a few
thousand, enough for the assumption on the unit (below), and no divisor of the
rates, 1.90 and 2.21 ringgit to the dollar, one of which is the mandate's. The
overtime of 1217 units on the wage of RM20 is one of those that make the
employer's leg two units short. Two queues decide one row, while one migration
and one restart are all that can change the store under them. In `Onboarding` one treasury registered
three times, failing or losing an answer twice, meets a row that an earlier
attempt left at each insert, two registrations that race, and a third that finds
both events; two payrolls are the least with which a page can show the digest of
one beside the registration of the other. `Scope` gives each kind of page these
bounds. `SYMMETRY` covers the two balance screens, the two queues and the two
event names, which no definition tells apart.

What the runs show for these instances the theorems of section 5 show for all,
except for liveness.

The bounds `MaxStreams`, `Horizon`, `MaxQuotes`, `MaxCap`, `MaxReturns`,
`MaxSwitches`, `MaxChanges`, `MaxRestarts`, `MaxFaults`, `MaxTurns`, `Scope`,
`Runs` and `Draws`, and the sizes of the sets marked "bound:" in the modules, guard the actions
that would pass them and nothing else; at the bound the model stops, as the
configurations say with `CHECK_DEADLOCK FALSE` (the real system stops too when no
one sends a request).

## 4. Fairness

Only `ReconciledEventually` assumes any. The code has no scheduler that retries:
what it does have is a treasurer who sees a claim in `paying` and asks for a
reconciliation. So `FairSpec` assumes that every request ends (weak fairness of
`Abandon`: a platform timeout, if nothing else), and that the steps of a
reconciliation are not cut off at the same step forever (strong fairness of the
read, the lookup, the check and the finishing write: each is disabled and enabled
again as requests come and go). Nothing is assumed of paying requests, of the
chain, which may never execute a transaction, or of the transaction's success.
The property is conditional on the chain having executed the recorded digest.

A claim in `paying` **without** a recorded digest - the process died between
`reservePayment` and `recordPaymentAttempt` - has no way out at all: payment and
reconciliation both refuse it. So does one whose recorded transaction was never
sent or has lost its object version: the chain never knows it and reconciliation
answers "pending" for ever.

## 5. Proofs

Each `_proofs` module follows one pattern: an inductive invariant `IInv` that
strengthens properties TLC had already found to hold, one lemma per action that
the action keeps it, and theorems that follow from it. Assumptions are only
those on the constants, named in the module that declares them.

- **`ExpenseMandate_proofs`** - `TypeCorrect`, `ExpenseConservation`,
  `NothingStranded`, `ClosedForGood`, `ExpenseImplementsEscrow`. Conservation is
  not inductive alone: an id not yet created must hold nothing (`Fresh`).
- **`PayrollMandate_proofs`** - `TypeCorrect`, `PayrollConservation`,
  `CommittedExactly`, `WagesAlwaysPayable`, `PaidAsEarned`,
  `FloorsHoldForTheWage`, `RevokedForGood`, `PayrollImplementsEscrow`. `committed` is
  one number and the promises are many: the invariant `Ledger` says there is a
  running sum of what the streams are owed that ends at `committed`, so that no
  single stream is owed more. Carrying the sum as a witness function keeps every
  step free of induction; that the recursive sum of `CommittedIsOwed` is this one
  needs it once (`SumIsTheLedgers`), and takes it from the least number at which
  two running sums could differ (`LeastNumber`, `OneRunningSum`).
  `NeverAheadOfAccrual` rests on lemmas about the
  contract's rounding (`DivIsFloor`, `ShareIsBounded`) and monotonicity of the
  accrual. The floors need that a mandate's terms stay the ones it was created
  with, within bounds (`TermsValid`), and that a share rounded up of a larger
  declared wage is no smaller.

- **`ClaimPayment_proofs`** - `TypeCorrect`, `AlwaysOnRecord`, `PaidOnce`,
  `RowTellsTheTruth`, `ApprovedBeforePayment`, `RinggitIsJudged`,
  `PaidAsClaimed`, `RejectedForGood`, for any number of concurrent requests.
  `PaymentIsOnRecord` is not inductive: a retry clears the digest, so one must
  know that it could only do so where the previous attempt aborted. `RowSound`
  says what a row in `payment_failed` knows of its attempt, `HandlersSound` that
  every result a handler still holds is truthful and every recorded digest is on
  the row or aborted, `ChainSound` that the chain does not both commit and
  abort. `RinggitIsJudged` is for a claim in MYR and `PaidAsClaimed` for one in
  USDC: the assumption on `Currency` is in the theorem, because the other case
  is false (section 6, 2 and 3). The one rests on `Reviewed` (from its approval
  on, a MYR claim carries the treasurer's review of the figures on the row), the
  other on `PaysFigures` (every amount on its way is the row's).
  `RejectedIsFinal` needs that nothing of a rejected claim is still on its way
  to the chain (`RejectedPaysNobody`).

- **`PayrollRuns_proofs`** - `TypeCorrect`, `RowsAreTrue`, `PaysTheApproved`,
  `SettlesForGood`, for any number of runs, employees, mandates and claims.
  `RequestSound` says what a request knows at each await, `BuiltFromApproved`
  that its claims stay decided under it, `SettledArePaid` that a settlement, which
  looks at no id, still reaches every claim its run paid.

- **`SalaryStreams_proofs`** - `TypeCorrect`, `RefusalsAreSafe`,
  `RegistryIsTrue`, `OffersArePayable`. `OpeningSound` says what each stage of an
  opening knows of its transaction, `ChainSound` that a stream exists exactly
  where its transaction executed, with its figures, `BalanceSound` that what was
  withdrawn was earned and what a screen read is not ahead of the chain. The
  accrual lemmas (`WholeShare`, `ShareIsMonotone`, `EarnedGrows`,
  `AccruedIsEarned`) show that the browser's rounding is the contract's at any one
  moment; the browser's clock is any reading, so the theorem bounds the offer from
  above where that clock is not ahead of the chain's, and from below where it is
  not behind.
- **`ClaimIntake_proofs`** - `ReceiptsAreClaimedOnce`, `SubmittedIsTrue`,
  `ImagesAreKept`, `NoScreenIsStuck`, for any number of tabs, requests and
  receipts. A screen's claim about the server is true only because of what the
  request it waits for is about: `ScreenSound` ties each waiting screen to its
  request, `RequestSound` says what a request has established at each await - of one
  that reads its claim back, that the claim has had what it sent - `HistorySound`
  that the row holds the last figures it was given,
  `FormSound` what the form holds at each step, `DraftsSound` that a used draft
  names a claim and every photographed one has its image stored.
- **`FrontOffice_proofs`** - `OneSession`, `DoneInItsName`,
  `NothingElseIsForbidden`, `ScreensFollow`, about the sign-in part. In the
  invariant `SignInInv`, `PostsSound` counts the deliveries of a
  sign-in, `SessionsSound` ties each session to the delivery that used up its
  challenge, `CookieSound` and `ScreenSound` tie the cookie and the screen to
  sessions, `RivalsSound` and `CookieAccords` say that the two
  accord unless they come of two sign-ins that were under way together,
  `MountSound` says nothing else happens until the opening read is done - without
  it a late answer to that read could put back an old session.
  The properties of the claim part are those of `ClaimIntake_proofs`.
- **`BackOffice_proofs`** - `LiveBudgetsAreWhole`, `DecisionsAreKept`,
  `SignedRunsClearTheFloors`, with an invariant for each part.
  - *Setting up* (`SetupInv`): `OneRow` says that a payroll is configured once,
    `RequestSound` what a request has inserted so far, `LinkSound` that a page
    which names a budget names a complete one; `Grown` that a roster, once
    complete, stays so. `SetupFacts` adds that only funded transactions are
    registered or shown (`FundsSound`) and that of a transaction nobody raced for
    one request at most is about to write the event, and none once there is one
    (`RaceSound`).
  - *Overtime* (`OvertimeInv`): a screen's "recorded" is read off an answer, and
    the answer off whichever store the call reached, while a latch can move every
    other call to memory and a restart can lose it. `CallSound` says what a call
    knows at each stage of the item it works on and of the store that holds it,
    `SaidSound` and `SavedSound` what a screen may still show; `RowSound` ties a
    row to its store. A decision only ever moves on (`Onward`): from submitted to
    decided, from approved to paid, from memory to lost.
  - *The payroll desk* (`DeskInv`): everything signed clears the floors
    (`SignedSound`), and a run that failed did so for money (`PaidSound`). The
    first is arithmetic about one month. The lemmas go from the month (`Month`:
    each contribution lies between its rate of the wage and one band and one
    ringgit more) through the conversion (`AtMost`, `AtLeast`: half a unit either
    way) to the signed amounts. `RaiseIsSmall` bounds the raise:
    the floor of the converted whole exceeds the converted legs by less than three
    units. `PaidIsBelowTheCap` says why the capped floors of SOCSO and EIS do
    not matter: what a mandate may pay in one run is a fiftieth of the cap.
    `NetIsEnough` shows 70 % of a wage of RM20 or more left after bands and
    roundings, and `SomeIsMany` that no contribution rounds to nothing.

Assumed of the constants, and why the code justifies it. `FrontOfficeAssumption`
and the last lines of `BackOfficeAssumption` say that names tell things apart:
`None` is not a session, a transaction, a request or a word the code uses, a form
is no queue, the earlier session is none of this tab's, copies and people are
numbered from 1. The others are the desk's. A rate is between 1 and 20 ringgit to
the dollar: `convertMyrToUsdc` throws otherwise. The budget is RM120 at most:
`BUDGET_MYR`. A ringgit is at least 251/3 units for each ringgit of the rate: at
the highest rate the circuit breaker admits that is 1,674 units, and the code has
a million. Amounts are natural numbers: they are `bigint`s that a schema has
checked to be unsigned. No bound is put on wages, overtime or leave.

Only model-checked: `ReconciledEventually`, because liveness and `ENABLED` are
outside the prover. The other thirty-nine properties of the passing runs are each
the statement of a theorem. In those that take a sum (`FloorsBindTheWagePaid`,
`CommittedIsOwed`) only the one over the streams is computed by recursion in the
proof; the sum over a run's statutory amounts is used as an unknown number.

## 6. Where the code and its documents differ

Checked, with a counterexample from TLC:

1. **A claim can be paid twice** (`claim_paid_twice`). `finishPayment` is not
   bound to a digest, so a late result of an old attempt reopens a reserved claim,
   and a result without a digest then closes a row whose transaction is in flight.
   `PaidAtMostOnce` and `PaymentIsOnRecord` hold under `~orphaned`, and are proved,
   so every double payment goes through such a digest-less result.
2. **A USDC claim can be approved on figures nobody judged** (`claim_unjudged`).
   A decision or approval read before a correction is written after it. A MYR
   claim is protected by its quote's id (`claim_myr`).
3. **A payment can be of an expired quote's amount** (`claim_stale_quote`).
   The amount is taken from the claim that was read; the reservation checks only
   the state.
4. **Overtime can be marked paid and never paid** (`overtime_unpaid`).
   `settleClaims` marks every approved claim of the employee.

Seen while modelling and described here only:

- `claim-repository.ts:762-767` says a resubmission keeps the earlier review; the
  update at 779-782 clears it. The model follows the update.
- `PROJECT_REQUIREMENTS.md` and `ARCHITECTURE.md` say an approval moves the claim
  to `paying`; the code leaves it `approved` until somebody pays it.
- The migration says approved unpaid leave reduces "the next payroll run"; nothing
  records that a run took it off, so every run does (`Deductible`).
- Two runs started together read the same overtime and both pay it.
  `SettledIsNotReadAgain` bounds it: only a run that read before the first
  settlement can.
- A refused retry is reported as another attempt in progress: the refusal is
  written under a guard on `approved` (`FailApprovedPayment`).

*Claims and accounts*

- `wallet-access.ts:108-109` says the treasurer recorded on the event "is the
  authority the server checks" for the acts it names; `api/mandate/revoke` checks
  the employer. When the two are different wallets, revoking is offered to nobody.
- A claim whose answer was lost is reported as "not saved" although it was
  (`ClaimFlow.tsx:143`, `181`); submitting again is safe (`OneClaimPerReceipt`).
  After a lost answer to a correction, the retry is told that "the treasurer had
  already moved the claim on" (`208-215`), which nobody did.

- What is shown as "submitted" is what the row holds when it is read back
  (`analysis-draft-repository.ts:115-118`): after another tab's correction, not what
  this screen sent. `SubmittedIsWhatWasSent` allows that and nothing older.
- Two sign-ins that overlap - a late sign-out gives the button back while the
  first is under way - can leave the cookie of one wallet beside the screen of
  another: the cookie is set with the answer's headers, the screen after its body
  (`client.ts:37-40`, `160-171`). `ActsAsShown` proves there is no other way.
- The attack on the safety screen is offered to every signed-in wallet
  (`SafetyTest.tsx:65-71`, `337-345`) and answered 403 to all but the employer, on
  purpose; submitting is offered to every wallet and answered 403 to those not on
  the roster (`claim-repository.ts:436-457`). `OfferedIsNotForbidden` names both.

*Payroll desk and rates*

- A second run is signed though the mandate has less left than it takes: no budget
  reader is wired (`service.ts:142-167`), so the contract aborts it with
  `E_PAYROLL_INSUFFICIENT`. The comment at `setup.ts:18-24` tells of such an abort
  and answers it with a larger budget; the desk still reaches it with two runs.
- An approval of the split is of the rate only: overtime and leave that are
  approved between preview and run change what is paid without a new approval.
- The desk deducts the unpaid days typed into it and the server deducts approved
  unpaid leave as well: the same days, entered in both places, come off twice.
- The net floor of 70 % can fail where approved leave takes a wage below RM20, the
  least the desk accepts; `SignedRunsMeetTheFloors` excepts it by name.
- `EnforcementProof` sends the gross of a run that was paid as the base wage of
  the one it expects to be refused, so approved overtime is added twice.
- `fx.ts:27-30` says the converted legs can be "one micro-USDC below" the floor.
  Three amounts are rounded, not two, and they can be two below: a wage of RM20
  with RM6.086956 of overtime, at 4.2452, has its EPF raised by two. That is the
  bound `SignedRunsMeetTheFloors` states and `SignedRunsClearTheFloors` proves.
- The same comment speaks of a "minimal rounding adjustment". From RM6,000, at the
  age of 60, for foreign workers and with overtime, `quotePayrollSplit` raises a
  contribution by far more: to the floor of the uncapped gross.
- `docs/MYR_USDC_QUOTES.md:17-18` gives the mandate "an RM50-equivalent" cap
  "calculated when setup is signed"; the code uses RM120 (`setup.ts:31-32`) and
  `setup-verification.ts` recomputes it at the rate of the day it verifies.
- `approval-summary.ts:118-123` says the projection "exactly" reproduces the
  overtime-aware split. The queue asks the preview for wages that already include
  approved overtime and leave, and the server adds them again. (Not modelled.)

*Streams, overtime, leave*

- Messages that deny what may have happened: "Nothing was withdrawn." for an
  answer that says the outcome is unknown (`LiveBalance.tsx:133`); "This claim was
  not sent" (`OvertimeClaimForm.tsx:192`); "Nothing was created." when the wallet
  fails after executing (`TreasurySetup.tsx:448-451`).
- The balance uses the computer's clock (`use-accrual-clock.ts`): one that is ahead
  offers more than the contract would pay. The withdrawal takes what has accrued by
  the chain's clock, so only the figure is wrong; `OfferIsWhatTheContractPays` is
  about that error.
- Two withdrawals under way each report the difference of the total before and
  after, and so each other's payment (`stream-chain.ts:135-137`).
- The memory copy of the overtime tables has no rule of one claim a day, and a
  claim written to memory while the tables are being created is not seen by the
  rule in the database: a day can be claimed twice (`store.ts:57`).
- That leave does not overlap leave is checked by the form only.

*Setting up*

- Two registrations of one mandate that overlap - a retry of one whose answer was
  lost is enough - both write an event, after which every lookup by mandate finds
  two rows and fails (`event-registration-repository.ts:155-168`).
  `docs/PRODUCT_NEXT_STEPS.md:83` says "Make registration idempotent by mandate",
  done. `LiveIsWhole` proves what remains: without such a race (`raced`) there is
  one event, and a retry after the first has ended completes what it finds.
- The name can be edited while the wallet is signing: the event is registered
  under the name at the click and, if that fails, the retry carries the new
  one and is refused as a conflict. The agent can be edited (`TreasurySetup.tsx:340-349`),
  though the verifier accepts only the configured one.
- Verification reads the mandate as it is now and demands that nothing was spent:
  a registration retried after the first payment is refused.
- "Check the details" while a payroll is being verified clears the digest
  (`PayrollSetup.tsx:83`) and with it the retry: the next signature funds a
  second mandate, which `docs/PAYROLL_LAUNCH_PLAN.md:108-109` says "must never"
  happen. The screen can then show "ready to run" beside the digest of the second,
  which is not registered, because the first one is (`PayrollSetup.tsx:290-293`):
  `LiveIsWhole` proves that this takes two fundings.

*Not in any model*

- Two claims, or two runs, prepared from the same object versions with equal
  amounts have one digest: the unique index leaves the second claim in `paying`;
  of two runs, both are told the one transaction succeeded.
- Payroll reads the 400 newest overtime claims (`overtime/service.ts:189`); an
  approved claim older than those is in no period. The 104 hours of a month are
  checked against what was read (`204`): two submissions together can exceed them.
- `payroll/run-store.ts:47` latches to memory as `overtime/store.ts` does.
- The lease of the shared rate (`20260903010000_myr_fx_quotes.sql:115`) must admit
  the next refresher when a holder dies, and refuse a late write of an old holder.

## 7. Not modelled, and why

- Receipt analysis, zkLogin, signatures and hashing are calls to libraries or
  services: a model chooses their outcome. Events of the contracts are written by the
  step they report and read by nobody on chain.
- The policy's rules appear as the choice of their outcome in `ClaimPayment`.
- The screens that only show what a module holds (dashboards, histories, receipts
  of a payment), the landing page, parsing of HTTP bodies and of RPC answers, and
  `setup-verification.ts`'s report change no state.
- The rate lease, the run store's latch, the month's 104 hours, the calendar rules
  on a form: listed above, and small.
- A second browser tab that shares the cookie of the first: `SignIn` is one tab.
- Several claims out of one mandate: one claim with its handlers is already 1.8
  million states, and equal digests need the object versions two claims share.
- `Onboarding` has one page in its run; two pages, and more than two payrolls or one
  treasury, are left to its theorem.

## 8. Plan

Done: the contracts, the claim from its photograph to its reconciliation, payroll
from the desk to settlement, overtime and leave, streams, sign-in, setting up.
Left, by what a mistake would cost:

1. `ClaimsOnMandate`: several claims paid by one agent out of one
   `ExpenseMandate`, with shared object versions, equal digests and revocation;
   the same for two runs of one payroll.
2. `RateLease`: the leased refresh of the shared rate.
3. The policy's rules as operators, and the budget that other claims use up.
4. The run store's latch, which writes twice where the overtime store writes once.
