------------------------ MODULE ExpenseMandate_proofs ------------------------
(***************************************************************************)
(* The expense mandate accounts for its coin and can always be emptied by  *)
(* its treasurer, for every set of mandates, terms, amounts and order of   *)
(* the calls.                                                              *)
(*                                                                         *)
(* FundsConserved is not inductive alone: a payment must know that the     *)
(* budget is a number that covers it, and a mandate that does not exist    *)
(* yet must be empty for the one created under its id to start from zero.  *)
(***************************************************************************)
EXTENDS ExpenseMandate, TLAPS

Fresh ==
  \A m \in MandateIds : ~Exists(m) =>
    /\ budget[m] = 0 /\ amount_spent[m] = 0 /\ withdrawn[m] = 0
    /\ ~revoked[m] /\ m \notin admin_caps

IInv == TypeOK /\ FundsConserved /\ FundsRecoverable /\ Fresh

-----------------------------------------------------------------------------
LEMMA MaxNat == MAX_U64 \in Nat
  BY ExpenseAssumption

LEMMA U64Nat == \A x \in U64 : x \in Nat /\ x <= MAX_U64
  BY ExpenseAssumption DEF U64

LEMMA U64Intro == \A x \in Nat : x <= MAX_U64 => x \in U64
  BY ExpenseAssumption DEF U64

LEMMA TimesNat == Times \subseteq Nat
  BY ExpenseAssumption DEF Times

LEMMA AmountsU64 == Amounts \subseteq U64
  BY ExpenseAssumption

LEMMA OfferTyped == ASSUME NEW o \in Offers PROVE o \in Terms /\ o # NoTerms
  BY ExpenseAssumption

\* The numbers of one mandate that exists.
LEMMA Numbers ==
  ASSUME TypeOK, NEW m \in MandateIds
  PROVE  /\ budget[m] \in Nat /\ amount_spent[m] \in Nat /\ withdrawn[m] \in Nat
         /\ revoked[m] \in BOOLEAN
         /\ Exists(m) => terms[m] \in Terms /\ terms[m].initial_budget \in U64
<1>1. budget[m] \in U64 /\ amount_spent[m] \in U64 /\ withdrawn[m] \in U64
  BY DEF TypeOK
<1>2. revoked[m] \in BOOLEAN
  BY DEF TypeOK
<1>3. Exists(m) => terms[m] \in Terms
  BY DEF TypeOK, Exists
<1>4. \A t \in Terms : t.initial_budget \in U64
  BY DEF Terms
<1> QED BY <1>1, <1>2, <1>3, <1>4, U64Nat

\* What each call leaves of the invariant, one call per lemma.
LEMMA CreateKeeps ==
  ASSUME IInv, NEW m \in MandateIds, NEW o \in Offers, CreateMandate(m, o)
  PROVE  IInv'
<1>1. o \in Terms /\ o # NoTerms /\ o.initial_budget \in U64
  BY OfferTyped DEF Terms
<1>2. TypeOK'
  <2>1. terms' \in [MandateIds -> Terms \cup {NoTerms}]
    BY <1>1 DEF IInv, TypeOK, CreateMandate
  <2>2. budget' \in [MandateIds -> U64]
    BY <1>1 DEF IInv, TypeOK, CreateMandate
  <2> QED BY <2>1, <2>2 DEF IInv, TypeOK, CreateMandate
<1>3. \A n \in MandateIds : n # m =>
        /\ terms'[n] = terms[n] /\ budget'[n] = budget[n]
        /\ (n \in admin_caps') = (n \in admin_caps)
  BY DEF IInv, TypeOK, CreateMandate
<1>4. terms'[m] = o /\ budget'[m] = o.initial_budget /\ m \in admin_caps'
  BY DEF IInv, TypeOK, CreateMandate
<1>5. amount_spent' = amount_spent /\ withdrawn' = withdrawn /\ revoked' = revoked
  BY DEF CreateMandate
<1>6. amount_spent[m] = 0 /\ withdrawn[m] = 0
  BY DEF IInv, Fresh, CreateMandate
<1>7. FundsConserved'
  <2> SUFFICES ASSUME NEW n \in MandateIds, Exists(n)'
               PROVE  /\ budget'[n] + amount_spent'[n] + withdrawn'[n]
                           = terms'[n].initial_budget
                      /\ n \notin admin_caps' => revoked'[n] /\ budget'[n] = 0
    BY DEF FundsConserved
  <2>1. CASE n = m
    BY <1>1, <1>4, <1>5, <1>6, <2>1, U64Nat
  <2>2. CASE n # m
    BY <1>3, <1>5, <2>2 DEF IInv, FundsConserved, Exists
  <2> QED BY <2>1, <2>2
<1>8. FundsRecoverable'
  BY <1>3, <1>4 DEF IInv, FundsRecoverable
<1>9. Fresh'
  BY <1>1, <1>3, <1>4, <1>5 DEF IInv, Fresh, Exists
<1> QED BY <1>2, <1>7, <1>8, <1>9 DEF IInv

LEMMA SpendKeeps ==
  ASSUME IInv, NEW cap \in MandateIds, NEW m \in MandateIds, NEW r \in Addresses,
         NEW a \in Amounts, Spend(cap, m, r, a)
  PROVE  IInv'
<1>1. a \in Nat /\ 0 < a /\ a <= budget[m] /\ amount_spent[m] + a <= MAX_U64
  BY AmountsU64, U64Nat DEF Spend, Covers
<1>2. budget[m] \in Nat /\ budget[m] <= MAX_U64 /\ amount_spent[m] \in Nat
      /\ withdrawn[m] \in Nat
  BY U64Nat, Numbers DEF IInv, TypeOK
<1>3. budget[m] - a \in U64 /\ amount_spent[m] + a \in U64
  BY <1>1, <1>2, MaxNat, U64Intro
<1>4. budget' = [budget EXCEPT ![m] = budget[m] - a]
      /\ amount_spent' = [amount_spent EXCEPT ![m] = amount_spent[m] + a]
      /\ terms' = terms /\ revoked' = revoked /\ admin_caps' = admin_caps
      /\ withdrawn' = withdrawn /\ now' = now
  BY DEF Spend
<1>5. TypeOK'
  <2>1. budget' \in [MandateIds -> U64]
    BY <1>3, <1>4 DEF IInv, TypeOK
  <2>2. amount_spent' \in [MandateIds -> U64]
    BY <1>3, <1>4 DEF IInv, TypeOK
  <2> QED BY <1>4, <2>1, <2>2 DEF IInv, TypeOK
<1>6. Exists(m) /\ m \in admin_caps
  BY <1>1, <1>2 DEF IInv, FundsRecoverable, Spend, AgentCapFor
<1>7. \A n \in MandateIds : n # m =>
        budget'[n] = budget[n] /\ amount_spent'[n] = amount_spent[n]
  BY <1>4 DEF IInv, TypeOK
<1>8. budget'[m] = budget[m] - a /\ amount_spent'[m] = amount_spent[m] + a
  BY <1>4 DEF IInv, TypeOK
<1>9. FundsConserved'
  <2> SUFFICES ASSUME NEW n \in MandateIds, Exists(n)'
               PROVE  /\ budget'[n] + amount_spent'[n] + withdrawn'[n]
                           = terms'[n].initial_budget
                      /\ n \notin admin_caps' => revoked'[n] /\ budget'[n] = 0
    BY DEF FundsConserved
  <2>1. CASE n = m
    <3>1. budget[m] + amount_spent[m] + withdrawn[m] = terms[m].initial_budget
      BY <1>6 DEF IInv, FundsConserved
    <3> QED BY <1>1, <1>2, <1>4, <1>6, <1>8, <2>1, <3>1
  <2>2. CASE n # m
    BY <1>4, <1>7, <2>2 DEF IInv, FundsConserved, Exists
  <2> QED BY <2>1, <2>2
<1>10. FundsRecoverable'
  BY <1>4, <1>6, <1>7 DEF IInv, FundsRecoverable
<1>11. Fresh'
  BY <1>4, <1>6, <1>7 DEF IInv, Fresh, Exists
<1> QED BY <1>5, <1>9, <1>10, <1>11 DEF IInv

LEMMA RevokeKeeps ==
  ASSUME IInv, NEW cap \in MandateIds, NEW m \in MandateIds, RevokeMandate(cap, m)
  PROVE  IInv'
<1>1. m \in admin_caps /\ Exists(m)
  BY DEF IInv, Fresh, RevokeMandate, AdminCapFor
<1>2. revoked' = [revoked EXCEPT ![m] = TRUE]
      /\ terms' = terms /\ budget' = budget /\ amount_spent' = amount_spent
      /\ admin_caps' = admin_caps /\ withdrawn' = withdrawn /\ now' = now
  BY DEF RevokeMandate
<1>3. \A n \in MandateIds : n # m => revoked'[n] = revoked[n]
  BY <1>2 DEF IInv, TypeOK
<1>4. TypeOK'
  BY <1>2 DEF IInv, TypeOK
<1>5. FundsConserved'
  BY <1>1, <1>2, <1>3 DEF IInv, FundsConserved, Exists
<1>6. FundsRecoverable'
  BY <1>2 DEF IInv, FundsRecoverable
<1>7. Fresh'
  BY <1>1, <1>2, <1>3 DEF IInv, Fresh, Exists
<1> QED BY <1>4, <1>5, <1>6, <1>7 DEF IInv

LEMMA ReclaimKeeps ==
  ASSUME IInv, NEW cap \in MandateIds, NEW m \in MandateIds, WithdrawRemaining(cap, m)
  PROVE  IInv'
<1>1. m \in admin_caps /\ Exists(m) /\ cap = m
  BY DEF IInv, Fresh, WithdrawRemaining, AdminCapFor
<1>2. /\ budget' = [budget EXCEPT ![m] = 0]
      /\ withdrawn' = [withdrawn EXCEPT ![m] = withdrawn[m] + budget[m]]
      /\ revoked' = [revoked EXCEPT ![m] = TRUE]
      /\ admin_caps' = admin_caps \ {m}
      /\ terms' = terms /\ amount_spent' = amount_spent /\ now' = now
  BY <1>1 DEF WithdrawRemaining
<1>3. \A n \in MandateIds : n # m =>
        /\ budget'[n] = budget[n] /\ withdrawn'[n] = withdrawn[n]
        /\ revoked'[n] = revoked[n] /\ (n \in admin_caps') = (n \in admin_caps)
  BY <1>2 DEF IInv, TypeOK
<1>4. budget'[m] = 0 /\ withdrawn'[m] = withdrawn[m] + budget[m] /\ revoked'[m]
  BY <1>2 DEF IInv, TypeOK
<1>5. budget[m] \in Nat /\ amount_spent[m] \in Nat /\ withdrawn[m] \in Nat
      /\ terms[m].initial_budget \in Nat /\ terms[m].initial_budget <= MAX_U64
  BY <1>1, Numbers, U64Nat DEF IInv
<1>6. budget[m] + amount_spent[m] + withdrawn[m] = terms[m].initial_budget
  BY <1>1 DEF IInv, FundsConserved
<1>7. withdrawn[m] + budget[m] \in U64 /\ 0 \in U64
  BY <1>5, <1>6, MaxNat, U64Intro
<1>8. TypeOK'
  <2>1. budget' \in [MandateIds -> U64]
    BY <1>2, <1>7 DEF IInv, TypeOK
  <2>2. withdrawn' \in [MandateIds -> U64]
    BY <1>2, <1>7 DEF IInv, TypeOK
  <2> QED BY <1>2, <2>1, <2>2 DEF IInv, TypeOK
<1>9. FundsConserved'
  <2> SUFFICES ASSUME NEW n \in MandateIds, Exists(n)'
               PROVE  /\ budget'[n] + amount_spent'[n] + withdrawn'[n]
                           = terms'[n].initial_budget
                      /\ n \notin admin_caps' => revoked'[n] /\ budget'[n] = 0
    BY DEF FundsConserved
  <2>1. CASE n = m
    BY <1>2, <1>4, <1>5, <1>6, <2>1
  <2>2. CASE n # m
    BY <1>2, <1>3, <2>2 DEF IInv, FundsConserved, Exists
  <2> QED BY <2>1, <2>2
<1>10. FundsRecoverable'
  BY <1>3, <1>4 DEF IInv, FundsRecoverable
<1>11. Fresh'
  BY <1>1, <1>2, <1>3 DEF IInv, Fresh, Exists
<1> QED BY <1>8, <1>9, <1>10, <1>11 DEF IInv

LEMMA TickKeeps == ASSUME IInv, Tick PROVE IInv'
<1>1. now' \in Times
  BY ExpenseAssumption DEF IInv, TypeOK, Tick, Times
<1>2. TypeOK'
  BY <1>1 DEF IInv, TypeOK, Tick
<1> QED BY <1>2 DEF IInv, FundsConserved, FundsRecoverable, Fresh, Exists, Tick

LEMMA InitEstablishes == Init => IInv
<1> SUFFICES ASSUME Init PROVE IInv
  OBVIOUS
<1>1. 0 \in U64 /\ 0 \in Times
  BY ExpenseAssumption DEF U64, Times
<1>2. TypeOK
  BY <1>1 DEF Init, TypeOK
<1> QED BY <1>2 DEF IInv, FundsConserved, FundsRecoverable, Fresh, Init, Exists

LEMMA StepKeeps == IInv /\ [Next]_vars => IInv'
<1> SUFFICES ASSUME IInv, [Next]_vars PROVE IInv'
  OBVIOUS
<1>1. CASE Create
  BY <1>1, CreateKeeps DEF Create
<1>2. CASE Pay
  BY <1>2, SpendKeeps DEF Pay
<1>3. CASE Revoke
  BY <1>3, RevokeKeeps DEF Revoke
<1>4. CASE Reclaim
  BY <1>4, ReclaimKeeps DEF Reclaim
<1>5. CASE Tick
  BY <1>5, TickKeeps
<1>6. CASE UNCHANGED vars
  BY <1>6 DEF IInv, TypeOK, FundsConserved, FundsRecoverable, Fresh, Exists, vars
<1> QED BY <1>1, <1>2, <1>3, <1>4, <1>5, <1>6 DEF Next

LEMMA Inductive == Spec => []IInv
<1>1. Init => IInv
  BY InitEstablishes
<1>2. IInv /\ [Next]_vars => IInv'
  BY StepKeeps
<1> QED BY <1>1, <1>2, PTL DEF Spec

-----------------------------------------------------------------------------
\* Every amount the contract stores stays a u64, whatever the calls.
THEOREM TypeCorrect == Spec => []TypeOK
<1>1. IInv => TypeOK
  BY DEF IInv
<1> QED BY <1>1, Inductive, PTL

\* No unit of the coin is lost or made, and a mandate without its AdminCap is
\* revoked and empty.
THEOREM ExpenseConservation == Spec => []FundsConserved
<1>1. IInv => FundsConserved
  BY DEF IInv
<1> QED BY <1>1, Inductive, PTL

\* No order of calls strands money in a mandate nobody can empty.
THEOREM NothingStranded == Spec => []FundsRecoverable
<1>1. IInv => FundsRecoverable
  BY DEF IInv
<1> QED BY <1>1, Inductive, PTL

-----------------------------------------------------------------------------
\* A mandate that is closed pays nobody and stays closed.
THEOREM ClosedForGood == Spec => ClosedStaysClosed
<1> DEFINE Kept(m) == Exists(m) /\ Closed(m) =>
                        amount_spent'[m] = amount_spent[m] /\ Closed(m)'
<1>1. ASSUME IInv, [Next]_vars, NEW m \in MandateIds PROVE Kept(m)
  <2> SUFFICES ASSUME Exists(m), Closed(m)
               PROVE  amount_spent'[m] = amount_spent[m] /\ Closed(m)'
    OBVIOUS
  <2>1. now \in Nat /\ terms[m] \in Terms /\ terms[m].expiry_ms \in Nat
    <3>1. \A t \in Terms : t.expiry_ms \in U64
      BY DEF Terms
    <3> QED BY <1>1, <3>1, Numbers, TimesNat, U64Nat DEF IInv, TypeOK
  <2>2. CASE Create
    <3>1. PICK n \in MandateIds, o \in Offers : CreateMandate(n, o)
      BY <2>2 DEF Create
    <3>2. n # m
      BY <3>1 DEF CreateMandate
    <3> QED BY <1>1, <3>1, <3>2 DEF CreateMandate, Closed, IInv, TypeOK
  <2>3. CASE Pay
    <3>1. PICK cap \in MandateIds, n \in MandateIds, r \in Addresses, a \in Amounts :
            Spend(cap, n, r, a)
      BY <2>3 DEF Pay
    <3>2. n # m
      BY <2>1, <3>1 DEF Spend, Open, Closed
    <3> QED BY <1>1, <3>1, <3>2 DEF Spend, Closed, IInv, TypeOK
  <2>4. CASE Revoke
    BY <1>1, <2>4 DEF Revoke, RevokeMandate, Closed, IInv, TypeOK
  <2>5. CASE Reclaim
    BY <1>1, <2>5 DEF Reclaim, WithdrawRemaining, Closed, IInv, TypeOK
  <2>6. CASE Tick
    BY <2>1, <2>6 DEF Tick, Closed
  <2>7. CASE UNCHANGED vars
    BY <2>7 DEF vars, Closed
  <2> QED BY <1>1, <2>2, <2>3, <2>4, <2>5, <2>6, <2>7 DEF Next
<1>2. IInv /\ [Next]_vars => [\A m \in MandateIds : Kept(m)]_vars
  BY <1>1
<1> QED BY <1>2, Inductive, PTL DEF Spec, ClosedStaysClosed

-----------------------------------------------------------------------------
(* Implementation of the escrow *)

LEMMA EscrowInit == Init => Escrow!Init
  BY DEF Init, Escrow!Init

\* The escrow's promised column stays at zero, so its steps are stated without it.
LEMMA EscrowStep == IInv /\ [Next]_vars => [Escrow!Next]_Escrow!vars
<1> SUFFICES ASSUME IInv, [Next]_vars PROVE [Escrow!Next]_Escrow!vars
  OBVIOUS
<1> DEFINE none == [m \in MandateIds |-> 0]
<1>1. CASE Create
  <2>1. PICK m \in MandateIds, o \in Offers : CreateMandate(m, o)
    BY <1>1 DEF Create
  <2>2. o.initial_budget \in U64 /\ o.initial_budget > 0
    BY <2>1, OfferTyped DEF Terms, CreateMandate, ValidTerms
  <2>3. budget[m] = 0 /\ amount_spent[m] = 0 /\ withdrawn[m] = 0 /\ none[m] = 0
    BY <2>1 DEF CreateMandate, IInv, Fresh
  <2>4. Escrow!Total(m) = 0
    BY <2>3 DEF Escrow!Total, Escrow!Locked
  <2>5. Escrow!Fund(m, o.initial_budget)
    BY <2>1, <2>2, <2>4 DEF Escrow!Fund, CreateMandate
  <2> QED BY <2>2, <2>5 DEF Escrow!Next
<1>2. CASE Pay
  <2>1. PICK cap \in MandateIds, m \in MandateIds, r \in Addresses, a \in Amounts :
          Spend(cap, m, r, a)
    BY <1>2 DEF Pay
  <2>2. a \in U64 /\ 0 < a /\ a <= budget[m]
    BY <2>1, AmountsU64 DEF Spend, Covers
  <2>3. Escrow!Pay(m, a)
    BY <2>1, <2>2 DEF Escrow!Pay, Spend
  <2> QED BY <2>2, <2>3 DEF Escrow!Next
<1>3. CASE Revoke
  BY <1>3 DEF Revoke, RevokeMandate, Escrow!vars
<1>4. CASE Reclaim
  <2>1. PICK cap \in MandateIds, m \in MandateIds : WithdrawRemaining(cap, m)
    BY <1>4 DEF Reclaim
  <2>2. Escrow!Return(m)
    BY <2>1 DEF Escrow!Return, WithdrawRemaining
  <2> QED BY <2>2 DEF Escrow!Next
<1>5. CASE Tick
  BY <1>5 DEF Tick, Escrow!vars
<1>6. CASE UNCHANGED vars
  BY <1>6 DEF vars, Escrow!vars
<1> QED BY <1>1, <1>2, <1>3, <1>4, <1>5, <1>6 DEF Next

\* The mandate implements the escrow.
THEOREM ExpenseImplementsEscrow == Spec => EscrowSpec
<1>1. Init => Escrow!Init
  BY EscrowInit
<1>2. IInv /\ [Next]_vars => [Escrow!Next]_Escrow!vars
  BY EscrowStep
<1> QED BY <1>1, <1>2, Inductive, PTL DEF Spec, EscrowSpec, Escrow!Spec
=============================================================================
