----------------------------- MODULE Onboarding -----------------------------
(***************************************************************************)
(* Setting up a budget.  The employer funds a mandate from a screen and    *)
(* the server then registers what the transaction created: an expense      *)
(* treasury (components/treasury/TreasurySetup.tsx, POST /api/events) or a *)
(* payroll (the PayrollSetup.tsx form, POST /api/payroll/register).        *)
(*                                                                         *)
(* Funding is the wallet's and cannot be undone; registering is the        *)
(* server's and can be tried again with the digest.  Everything between    *)
(* them can be lost: the wallet's answer, the server's, the page.          *)
(***************************************************************************)
EXTENDS Naturals

CONSTANTS
  Windows,    \* open pages of the set-up screen
  Fundings,   \* bound: transactions the wallet is asked to sign, by digest
  Requests,   \* bound: registrations posted
  Scope,      \* bound: those of both that the pages of a kind use
  People,     \* 1 .. n: the treasurer, then the approved recipients
  Names,      \* names an event is given
  MaxFaults,  \* bound: answers lost, requests failed, pages left
  None

VARIABLES
  kind,       \* "treasury" or "payroll": the screen that is open
  \* TreasurySetup: outcome and the form's name.  PayrollSetup: status, digest,
  \* registration, preview, and whether a preview is on its way.
  show, tx, linked, name, preview, asking,
  \* the wallet: what became of a transaction, the page that waits for it, and
  \* the name the form had when it was asked
  funds, asker, asked_as,
  \* a request: its place, the digest and the name sent, the page that waits,
  \* how it was sent, the event row it works on and whom it adds next
  stage, digest, named, waiter, via, row, adds,
  \* events and payroll_configurations, by the request that wrote the row
  row_tx, row_name, row_people,
  \* history: the transactions of which one registration found no event while
  \* another, which had found none either, had yet to write its own
  raced,
  \* how often something went wrong
  faults

screen == <<show, tx, linked, name, preview, asking>>
wallet == <<funds, asker, asked_as>>
served == <<stage, digest, named, waiter, via, row, adds>>
rows == <<row_tx, row_name, row_people, raced>>
vars == <<kind, screen, wallet, served, rows, faults>>

-----------------------------------------------------------------------------
(* Mutations: definitions with one plausible mistake each, used nowhere.      *)

\* An event found in the table is taken to be complete.
FoundIsWhole(q, r) ==
  /\ stage' = [stage EXCEPT ![q] = "done"]
  /\ row' = [row EXCEPT ![q] = r]
  /\ UNCHANGED adds

-----------------------------------------------------------------------------
(* The wallet and the contracts *)

\* signAndExecuteTransaction: the wallet is asked to create and fund a mandate.
AskWallet(w, d) ==
  /\ d \in Scope[kind].fundings
  /\ funds[d] = "none" /\ \A e \in Fundings : e < d => funds[e] # "none"
  /\ funds' = [funds EXCEPT ![d] = "asked"]
  /\ asker' = [asker EXCEPT ![d] = w]
  /\ asked_as' = [asked_as EXCEPT ![d] = name[w]]

\* It is signed and executed, signed and aborted, or declined.
WalletActs(d) ==
  /\ funds[d] = "asked"
  /\ \E x \in {kind, "aborted", "declined"} : funds' = [funds EXCEPT ![d] = x]
  /\ UNCHANGED <<kind, screen, asker, asked_as, served, rows, faults>>

\* What a page waits for when it has asked the wallet.
Hears(w, d) ==
  /\ asker[d] = w
  /\ asker' = [asker EXCEPT ![d] = None] /\ asked_as' = [asked_as EXCEPT ![d] = None]
  /\ UNCHANGED funds

-----------------------------------------------------------------------------
(* Registering: verify the transaction, then write what it created *)

Free(q) ==
  q \in Scope[kind].requests /\ stage[q] = "idle" /\ \A p \in Requests : p < q => stage[p] # "idle"

Post(q, d, n, w, how) ==
  /\ Free(q)
  /\ stage' = [stage EXCEPT ![q] = "verify"] /\ digest' = [digest EXCEPT ![q] = d]
  /\ named' = [named EXCEPT ![q] = n] /\ waiter' = [waiter EXCEPT ![q] = w]
  /\ via' = [via EXCEPT ![q] = how]
  /\ UNCHANGED <<row, adds>>

To(q, s) == stage' = [stage EXCEPT ![q] = s]
Kept == UNCHANGED <<digest, named, waiter, via>>
Serving == UNCHANGED <<kind, screen, wallet>> /\ Kept
Sound == UNCHANGED faults
Fault == faults < MaxFaults /\ faults' = faults + 1

\* The transaction succeeded and created what this screen sets up.
Supported(d) == funds[d] = kind

VerifyEvent(q) ==
  /\ kind = "treasury" /\ stage[q] = "verify"
  /\ To(q, IF Supported(digest[q]) THEN "select" ELSE "refused")
  /\ UNCHANGED <<row, adds, rows>> /\ Serving /\ Sound

VerifyPayroll(q) ==
  /\ kind = "payroll" /\ stage[q] = "verify"
  /\ To(q, IF Supported(digest[q]) THEN "insert" ELSE "refused")
  /\ UNCHANGED <<row, adds, rows>> /\ Serving /\ Sound

Registered(d) == {r \in Requests : row_tx[r] = d}

\* ensureMembers, of an event just written or found.
EnsureMembers(q, r) ==
  /\ To(q, "people")
  /\ row' = [row EXCEPT ![q] = r] /\ adds' = [adds EXCEPT ![q] = 1]

\* A found event is ensured.
Found(q, r) == EnsureMembers(q, r)

\* Another registration of the same transaction is about to write its event.
Races(q) ==
  raced' = IF \E p \in Requests \ {q} : stage[p] = "insert" /\ digest[p] = digest[q]
           THEN raced \cup {digest[q]} ELSE raced

\* register, up to the insertion: no event, this event, another event of the
\* same mandate, or more than one, which maybeSingle calls an error.
SelectEvent(q) ==
  LET there == Registered(digest[q]) IN
  /\ stage[q] = "select"
  /\ \/ there = {} /\ To(q, "insert") /\ Races(q) /\ UNCHANGED <<row, adds>>
     \/ \E r \in there :
          /\ there = {r} /\ UNCHANGED raced
          /\ IF row_name[r] = named[q] THEN Found(q, r)
             ELSE To(q, "refused") /\ UNCHANGED <<row, adds>>
     \/ /\ \E p, r \in there : p # r
        /\ To(q, "refused") /\ UNCHANGED <<row, adds, raced>>
  /\ UNCHANGED <<row_tx, row_name, row_people>> /\ Serving /\ Sound

Write(q) ==
  /\ row_tx' = [row_tx EXCEPT ![q] = digest[q]]
  /\ row_name' = [row_name EXCEPT ![q] = named[q]]
  /\ UNCHANGED <<row_people, raced>>

\* Nothing in the table keeps two events of one mandate apart.
InsertEvent(q) ==
  /\ kind = "treasury" /\ stage[q] = "insert"
  /\ Write(q) /\ EnsureMembers(q, q)
  /\ Serving /\ Sound

\* ensureMember: on the roster and active, whoever put them there.
EnsureMember(q) ==
  /\ stage[q] = "people"
  /\ row_people' = [row_people EXCEPT ![row[q]] = @ \cup {adds[q]}]
  /\ IF adds[q] + 1 \in People
     THEN adds' = [adds EXCEPT ![q] = @ + 1] /\ UNCHANGED <<stage, row>>
     ELSE To(q, "done") /\ UNCHANGED <<row, adds>>
  /\ UNCHANGED <<row_tx, row_name, raced>> /\ Serving /\ Sound

\* The digest is unique there: the row is written, or is found with 23505.
InsertPayroll(q) ==
  /\ kind = "payroll" /\ stage[q] = "insert"
  /\ IF Registered(digest[q]) = {} THEN Write(q) ELSE UNCHANGED rows
  /\ To(q, "done")
  /\ UNCHANGED <<row, adds>> /\ Serving /\ Sound

\* The session is over, Sui does not answer, the database fails, the mandate has
\* paid or expired since it was funded: wherever the request was, what it wrote
\* stays.
RequestFails(q) ==
  /\ stage[q] \in {"verify", "select", "insert", "people"}
  /\ To(q, "refused") /\ Fault
  /\ UNCHANGED <<row, adds, rows>> /\ Serving

\* What a page waits for when it has posted: an answer, or its loss.
Over(q) ==
  /\ To(q, "over") /\ Sound
  /\ digest' = [digest EXCEPT ![q] = None] /\ named' = [named EXCEPT ![q] = None]
  /\ waiter' = [waiter EXCEPT ![q] = None] /\ via' = [via EXCEPT ![q] = None]
  /\ row' = [row EXCEPT ![q] = None] /\ adds' = [adds EXCEPT ![q] = None]

Lost(q) ==
  /\ stage[q] \notin {"idle", "over"} /\ Fault
  /\ waiter' = [waiter EXCEPT ![q] = None] /\ via' = [via EXCEPT ![q] = None]
  /\ UNCHANGED <<stage, digest, named, row, adds>>

Unheard(q) ==
  /\ stage[q] \in {"done", "refused"} /\ waiter[q] = None
  /\ Over(q)
  /\ UNCHANGED <<kind, screen, wallet, rows>>

-----------------------------------------------------------------------------
(* TreasurySetup *)

Page == UNCHANGED <<kind, rows>>

Turn(w, x, d, l) ==
  /\ show' = [show EXCEPT ![w] = x]
  /\ tx' = [tx EXCEPT ![w] = d]
  /\ linked' = [linked EXCEPT ![w] = l]

Form == UNCHANGED <<name, preview, asking>>


Funded(w) == show[w] \in {"registering", "funded", "registered"}

\* The fields, disabled once the money has moved but not while the wallet is asked.
EditEvent(w, n) ==
  /\ kind = "treasury" /\ ~Funded(w)
  /\ name' = [name EXCEPT ![w] = n]
  /\ UNCHANGED <<show, tx, linked, preview, asking, wallet, served>> /\ Page /\ Sound

\* sign, up to the wallet
FundEvent(w, d) ==
  /\ kind = "treasury" /\ ~Funded(w) /\ show[w] # "signing" /\ name[w] # None
  /\ AskWallet(w, d)
  /\ Turn(w, "signing", None, None) /\ Form
  /\ UNCHANGED served /\ Page /\ Sound

\* register
RegisterEvent(w, q, d, n) ==
  /\ Post(q, d, n, w, "event")
  /\ Turn(w, "registering", d, None) /\ Form

\* sign, from the wallet's answer on: the event is registered under the name the
\* form had when the button was pressed; or "Nothing was created", which is also
\* what is said when the wallet throws after the transaction has executed.
EventSigned(w, d) ==
  /\ kind = "treasury" /\ Hears(w, d)
  /\ \/ /\ funds[d] = "treasury" /\ Sound
        /\ \E q \in Requests : RegisterEvent(w, q, d, asked_as[d])
     \/ /\ funds[d] = "aborted" /\ Sound
        /\ Turn(w, "aborted", d, None) /\ Form /\ UNCHANGED served
     \/ /\ (funds[d] = "declined" /\ Sound) \/ (funds[d] = "treasury" /\ Fault)
        /\ Turn(w, "refused", None, None) /\ Form /\ UNCHANGED served
  /\ Page

\* "Try again"
RetryEvent(w) ==
  /\ kind = "treasury" /\ show[w] = "funded"
  /\ \E q \in Requests : RegisterEvent(w, q, tx[w], name[w])
  /\ UNCHANGED wallet /\ Page /\ Sound

\* An aborted transaction stands for all that set nothing up.
Digests == {d \in Fundings : funds[d] \in {kind, "aborted"}}

\* "Finish setting it up", with a digest from the wallet's history
FinishEvent(w, d) ==
  /\ kind = "treasury" /\ ~Funded(w) /\ name[w] # None /\ d \in Digests
  /\ \E q \in Requests : RegisterEvent(w, q, d, name[w])
  /\ UNCHANGED wallet /\ Page /\ Sound

\* "The budget is live.  Staff can claim against it now." -- or "Paid, but not
\* set up yet", which is also said when no answer came.
EventAnswered(w, q) ==
  /\ kind = "treasury" /\ waiter[q] = w
  /\ \/ stage[q] = "done" /\ Over(q) /\ Turn(w, "registered", digest[q], digest[q])
     \/ stage[q] = "refused" /\ Over(q) /\ Turn(w, "funded", digest[q], None)
     \/ Lost(q) /\ Turn(w, "funded", digest[q], None)
  /\ Form /\ UNCHANGED wallet /\ Page

-----------------------------------------------------------------------------
(* PayrollSetup *)

Status(w, x) == show' = [show EXCEPT ![w] = x]

\* The two fields: the preview goes, the digest stays.
EditPayroll(w) ==
  /\ kind = "payroll"
  /\ Status(w, "idle") /\ preview' = [preview EXCEPT ![w] = FALSE]
  /\ UNCHANGED <<tx, linked, name, asking, wallet, served>> /\ Page /\ Sound

\* "Check the details".  Bound: one preview on its way.
AskPreview(w) ==
  /\ kind = "payroll" /\ show[w] \notin {"previewing", "signing"} /\ ~asking[w]
  /\ Turn(w, "previewing", None, None)
  /\ asking' = [asking EXCEPT ![w] = TRUE]
  /\ UNCHANGED <<name, preview, wallet, served>> /\ Page /\ Sound

PreviewAnswered(w) ==
  /\ asking[w] /\ asking' = [asking EXCEPT ![w] = FALSE]
  /\ \E ok \in BOOLEAN :
       /\ preview' = [preview EXCEPT ![w] = ok]
       /\ Status(w, IF ok THEN "ready" ELSE "idle")
  /\ UNCHANGED <<tx, linked, name, wallet, served>> /\ Page /\ Sound

\* createPayroll, up to the wallet
FundPayroll(w, d) ==
  /\ kind = "payroll" /\ preview[w] /\ show[w] \notin {"signing", "verifying", "registered"}
  /\ AskWallet(w, d)
  /\ Status(w, "signing") /\ UNCHANGED <<tx, linked>> /\ Form
  /\ UNCHANGED served /\ Page /\ Sound

\* createPayroll, from the wallet's answer on
PayrollSigned(w, d) ==
  /\ kind = "payroll" /\ Hears(w, d)
  /\ \/ /\ funds[d] = "payroll" /\ Sound
        /\ \E q \in Requests : Post(q, d, None, w, "create")
        /\ Turn(w, "verifying", d, linked[w])
     \/ /\ \/ funds[d] \in {"aborted", "declined"} /\ Sound
           \/ funds[d] = "payroll" /\ Fault
        /\ Status(w, "ready") /\ UNCHANGED <<tx, linked, served>>
  /\ Form /\ Page

\* "Try again (this will not take more money)", there while an answer is awaited
RetryPayroll(w) ==
  /\ kind = "payroll" /\ show[w] = "verifying" /\ tx[w] # None /\ linked[w] = None
  /\ \E q \in Requests : Post(q, tx[w], None, w, "retry")
  /\ UNCHANGED <<screen, wallet>> /\ Page /\ Sound

\* "Link it to this app"
LinkPayroll(w, d) ==
  /\ kind = "payroll" /\ show[w] # "verifying" /\ d \in Digests
  /\ \E q \in Requests : Post(q, d, None, w, "link")
  /\ Turn(w, "verifying", tx[w], None) /\ Form
  /\ UNCHANGED wallet /\ Page /\ Sound

AfterFailure(w, q) ==
  CASE via[q] = "create" -> "verifying" [] via[q] = "link" -> "idle" [] OTHER -> show[w]

\* The registration kept is that of the answer, the digest that of the page.
PayrollAnswered(w, q) ==
  /\ kind = "payroll" /\ waiter[q] = w
  /\ \/ /\ stage[q] = "done" /\ Over(q)
        /\ Turn(w, "registered", IF via[q] = "link" THEN digest[q] ELSE tx[w], digest[q])
     \/ /\ \/ stage[q] = "refused" /\ Over(q)
           \/ Lost(q)
        /\ Status(w, AfterFailure(w, q)) /\ UNCHANGED <<tx, linked>>
  /\ Form /\ UNCHANGED wallet /\ Page

-----------------------------------------------------------------------------
(* The page *)

\* Closed, loaded again or left for another: nothing of it is kept.
Leave(w) ==
  /\ Fault
  /\ Turn(w, "idle", None, None)
  /\ name' = [name EXCEPT ![w] = None]
  /\ preview' = [preview EXCEPT ![w] = FALSE] /\ asking' = [asking EXCEPT ![w] = FALSE]
  /\ asker' = [d \in Fundings |-> IF asker[d] = w THEN "left" ELSE asker[d]]
  /\ waiter' = [q \in Requests |-> IF waiter[q] = w THEN None ELSE waiter[q]]
  /\ UNCHANGED <<kind, funds, asked_as, stage, digest, named, via, row, adds, rows>>

\* A page left for another of the app still registers what the wallet signs.
LeftBehind(d) ==
  /\ funds[d] = kind /\ Hears("left", d)
  /\ \E q \in Requests : Post(q, d, asked_as[d], None, None)
  /\ UNCHANGED screen /\ Page /\ Sound

-----------------------------------------------------------------------------
Init ==
  /\ kind \in {"treasury", "payroll"}
  /\ show = [w \in Windows |-> "idle"]
  /\ tx = [w \in Windows |-> None] /\ linked = [w \in Windows |-> None]
  /\ name = [w \in Windows |-> None]
  /\ preview = [w \in Windows |-> FALSE] /\ asking = [w \in Windows |-> FALSE]
  /\ funds = [d \in Fundings |-> "none"] /\ asker = [d \in Fundings |-> None]
  /\ asked_as = [d \in Fundings |-> None]
  /\ stage = [q \in Requests |-> "idle"] /\ digest = [q \in Requests |-> None]
  /\ named = [q \in Requests |-> None] /\ waiter = [q \in Requests |-> None]
  /\ via = [q \in Requests |-> None]
  /\ row = [q \in Requests |-> None] /\ adds = [q \in Requests |-> None]
  /\ row_tx = [q \in Requests |-> None] /\ row_name = [q \in Requests |-> None]
  /\ row_people = [q \in Requests |-> {}] /\ raced = {}
  /\ faults = 0

TreasurySetup(w) ==
  \/ RetryEvent(w)
  \/ \E n \in Names : EditEvent(w, n)
  \/ \E d \in Fundings : FundEvent(w, d) \/ EventSigned(w, d) \/ FinishEvent(w, d)
  \/ \E q \in Requests : EventAnswered(w, q)

PayrollSetup(w) ==
  \/ EditPayroll(w) \/ AskPreview(w) \/ PreviewAnswered(w) \/ RetryPayroll(w)
  \/ \E d \in Fundings : FundPayroll(w, d) \/ PayrollSigned(w, d) \/ LinkPayroll(w, d)
  \/ \E q \in Requests : PayrollAnswered(w, q)

Server(q) ==
  \/ VerifyEvent(q) \/ SelectEvent(q) \/ InsertEvent(q) \/ EnsureMember(q)
  \/ VerifyPayroll(q) \/ InsertPayroll(q)
  \/ RequestFails(q) \/ Unheard(q)

Next ==
  \/ \E w \in Windows : TreasurySetup(w) \/ PayrollSetup(w) \/ Leave(w)
  \/ \E d \in Fundings : WalletActs(d) \/ LeftBehind(d)
  \/ \E q \in Requests : Server(q)

Spec == Init /\ [][Next]_vars

-----------------------------------------------------------------------------
(* Properties *)

\* The lookup by mandate finds one event, as every reader of a treasury needs.
FoundOnce(d) == \E r \in Requests : Registered(d) = {r}

\* A page that says a budget is live is right, however many attempts it took and
\* whichever of them wrote the row.  Of a treasury: the mandate it names has an
\* event with the whole roster -- the treasurer, who could not read the claims
\* without being on it, and everyone the mandate can pay -- and it is the only
\* event, unless two registrations had both looked before either wrote.  Of a
\* payroll: the mandate of the answer is configured once; and so is that of the
\* transaction the page shows as "ready to run", unless they are two, when both
\* were funded: whoever funded one payroll is never shown another, or told that
\* one is ready which is not.
LiveIsWhole ==
  \A w \in Windows :
    linked[w] # None =>
      IF kind = "treasury"
      THEN /\ \E r \in Registered(linked[w]) : row_people[r] = People
           /\ linked[w] \notin raced => FoundOnce(linked[w])
      ELSE /\ FoundOnce(linked[w])
           /\ tx[w] \notin {None, linked[w]} => Supported(tx[w]) /\ Supported(linked[w])
=============================================================================
