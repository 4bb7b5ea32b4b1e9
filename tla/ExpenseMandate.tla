--------------------------- MODULE ExpenseMandate ---------------------------
(***************************************************************************)
(* The expense mandate of contracts/tali_treasury/sources/                 *)
(* tali_treasury.move: a treasurer locks a coin under limits, an agent     *)
(* pays claims out of it, and the treasurer may revoke it and take the     *)
(* rest back, once.                                                        *)
(*                                                                         *)
(* As in PayrollMandate, a call is one step and an aborted call is no      *)
(* step.  A capability is the id of the mandate it was made for.  Both     *)
(* are plain owned objects: the agent's is never destroyed, the            *)
(* treasurer's is consumed by withdraw_remaining.                          *)
(***************************************************************************)
EXTENDS Integers

CONSTANTS
  MandateIds,   \* object ids a mandate can be created under
  Addresses,    \* recipients a call may name
  Offers,       \* arguments create_mandate is called with
  Amounts,      \* u64 amounts spend is called with
  Horizon,      \* bound on the clock
  MAX_U64,      \* largest u64
  NoTerms       \* a mandate that was not created yet

U64 == 0..MAX_U64
Times == 0..Horizon

\* The part of a Mandate that never changes after its creation.
Terms ==
  [initial_budget : U64, max_per_claim : U64, expiry_ms : U64,
   approved_recipients : SUBSET Addresses]

ASSUME ExpenseAssumption ==
  /\ MAX_U64 \in Nat
  /\ Horizon \in Nat
  /\ Amounts \subseteq U64
  /\ Offers \subseteq Terms
  /\ NoTerms \notin Terms

VARIABLES
  terms,         \* mandate id -> what it was created with, or NoTerms
  budget,        \* mandate id -> balance held
  amount_spent,  \* mandate id -> paid to recipients so far
  revoked,       \* mandate id -> revoked?
  admin_caps,    \* the mandates whose AdminCap exists
  withdrawn,     \* mandate id -> what the treasurer took back (history)
  now            \* sui::clock

vars == <<terms, budget, amount_spent, revoked, admin_caps, withdrawn, now>>

Exists(m) == terms[m] # NoTerms

-----------------------------------------------------------------------------
(* Mutations: definitions with one plausible mistake each, used nowhere.    *)

AdminCapForAny(cap, m) == cap \in admin_caps /\ Exists(m)

WithinLimitOnly(m, amount) == 0 < amount /\ amount <= terms[m].max_per_claim

OpenUntilRevoked(m) == ~revoked[m]

WithdrawAndLeaveOpen(cap, m) ==
  /\ cap \in admin_caps /\ cap = m
  /\ budget[m] > 0
  /\ admin_caps' = admin_caps \ {cap}
  /\ budget' = [budget EXCEPT ![m] = 0]
  /\ withdrawn' = [withdrawn EXCEPT ![m] = @ + budget[m]]
  /\ UNCHANGED <<terms, amount_spent, revoked, now>>

-----------------------------------------------------------------------------
(* The contract's checks *)

AgentCapFor(cap, m) == Exists(m) /\ cap = m

AdminCapFor(cap, m) == cap \in admin_caps /\ cap = m

Open(m) == ~revoked[m] /\ now < terms[m].expiry_ms

Covers(m, amount) ==
  0 < amount /\ amount <= terms[m].max_per_claim /\ amount <= budget[m]

ValidTerms(o) ==
  /\ o.initial_budget > 0
  /\ 0 < o.max_per_claim /\ o.max_per_claim <= o.initial_budget
  /\ o.approved_recipients # {}

-----------------------------------------------------------------------------
(* The calls *)

CreateMandate(m, o) ==
  /\ ~Exists(m)
  /\ ValidTerms(o)
  /\ terms' = [terms EXCEPT ![m] = o]
  /\ budget' = [budget EXCEPT ![m] = o.initial_budget]
  /\ admin_caps' = admin_caps \cup {m}
  /\ UNCHANGED <<amount_spent, revoked, withdrawn, now>>

Spend(cap, m, recipient, amount) ==
  /\ AgentCapFor(cap, m)
  /\ Open(m)
  /\ Covers(m, amount)
  /\ recipient \in terms[m].approved_recipients
  /\ amount_spent[m] + amount <= MAX_U64
  /\ budget' = [budget EXCEPT ![m] = @ - amount]
  /\ amount_spent' = [amount_spent EXCEPT ![m] = @ + amount]
  /\ UNCHANGED <<terms, revoked, admin_caps, withdrawn, now>>

RevokeMandate(cap, m) ==
  /\ AdminCapFor(cap, m)
  /\ revoked' = [revoked EXCEPT ![m] = TRUE]
  /\ UNCHANGED <<terms, budget, amount_spent, admin_caps, withdrawn, now>>

\* Consumes the capability and revokes the mandate in the same transaction.
WithdrawRemaining(cap, m) ==
  /\ AdminCapFor(cap, m)
  /\ budget[m] > 0
  /\ admin_caps' = admin_caps \ {cap}
  /\ budget' = [budget EXCEPT ![m] = 0]
  /\ revoked' = [revoked EXCEPT ![m] = TRUE]
  /\ withdrawn' = [withdrawn EXCEPT ![m] = @ + budget[m]]
  /\ UNCHANGED <<terms, amount_spent, now>>

\* sui::clock moves forward.
Tick ==
  /\ now < Horizon
  /\ now' = now + 1
  /\ UNCHANGED <<terms, budget, amount_spent, revoked, admin_caps, withdrawn>>

-----------------------------------------------------------------------------
Init ==
  /\ terms = [m \in MandateIds |-> NoTerms]
  /\ budget = [m \in MandateIds |-> 0]
  /\ amount_spent = [m \in MandateIds |-> 0]
  /\ revoked = [m \in MandateIds |-> FALSE]
  /\ admin_caps = {}
  /\ withdrawn = [m \in MandateIds |-> 0]
  /\ now = 0

Create == \E m \in MandateIds, o \in Offers : CreateMandate(m, o)

Pay == \E cap, m \in MandateIds, r \in Addresses, a \in Amounts : Spend(cap, m, r, a)

Revoke == \E cap, m \in MandateIds : RevokeMandate(cap, m)

Reclaim == \E cap, m \in MandateIds : WithdrawRemaining(cap, m)

Next == Create \/ Pay \/ Revoke \/ Reclaim \/ Tick

Spec == Init /\ [][Next]_vars

-----------------------------------------------------------------------------
(* Properties *)

\* Every field has its Move type; in particular every amount is a u64.
TypeOK ==
  /\ terms \in [MandateIds -> Terms \cup {NoTerms}]
  /\ budget \in [MandateIds -> U64]
  /\ amount_spent \in [MandateIds -> U64]
  /\ revoked \in [MandateIds -> BOOLEAN]
  /\ admin_caps \in SUBSET MandateIds
  /\ withdrawn \in [MandateIds -> U64]
  /\ now \in Times

\* withdraw_remaining consumes the only AdminCap: no call order leaves money in
\* a mandate whose capability is gone, expired and revoked ones included.
FundsRecoverable ==
  \A m \in MandateIds : budget[m] > 0 => m \in admin_caps

\* The coin that funded a mandate is all accounted for, and once the treasurer
\* took the rest, payments and withdrawal add up to it for good.
FundsConserved ==
  \A m \in MandateIds : Exists(m) =>
    /\ budget[m] + amount_spent[m] + withdrawn[m] = terms[m].initial_budget
    /\ m \notin admin_caps => revoked[m] /\ budget[m] = 0

Closed(m) == revoked[m] \/ now >= terms[m].expiry_ms

\* A mandate that is revoked or past its expiry never pays a recipient again,
\* and nothing opens it again.
ClosedStaysClosed ==
  [][\A m \in MandateIds : Exists(m) /\ Closed(m) =>
       amount_spent'[m] = amount_spent[m] /\ Closed(m)']_vars

-----------------------------------------------------------------------------
(* The mandate implements the escrow; it promises nothing ahead of paying. *)

Escrow == INSTANCE FundEscrow WITH
  Escrows <- MandateIds,
  Amounts <- U64,
  free <- budget,
  promised <- [m \in MandateIds |-> 0],
  paid <- amount_spent,
  returned <- withdrawn

\* Every call is one escrow step or none: an overspend, a payment out of one
\* mandate charged to another or a second withdrawal would not be.
EscrowSpec == Escrow!Spec
=============================================================================
