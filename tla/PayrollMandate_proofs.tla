------------------------ MODULE PayrollMandate_proofs ------------------------
(***************************************************************************)
(* The payroll mandate keeps its promises, for every set of mandates, every *)
(* terms, every amount and every order of the calls.                        *)
(*                                                                          *)
(* `committed` is one number and the promises are many, so the invariant    *)
(* carries the running sums of what the streams are still owed: the last    *)
(* sum is `committed`, and no single stream is owed more than it.  Writing  *)
(* the sum as a witness function keeps every step free of induction.        *)
(***************************************************************************)
EXTENDS PayrollMandate, WellFoundedInduction, TLAPS

\* ps is the running sum, over the streams in order, of what m owes.
RunningSum(m, ps) ==
  /\ ps \in [0..Len(streams) -> Nat]
  /\ ps[0] = 0
  /\ \A i \in Opened : ps[i] = ps[i-1] + Owed(m, i)
  /\ \A i, j \in 0..Len(streams) : i <= j => ps[i] <= ps[j]

Ledger ==
  \A m \in MandateIds :
    \E ps : RunningSum(m, ps) /\ ps[Len(streams)] = committed[m]

Covered == \A m \in MandateIds : committed[m] <= budget[m]

StreamsSound ==
  \A i \in Opened :
    /\ streams[i].started_at_ms < streams[i].ends_at_ms
    /\ withdrawn[i] <= Accrued(streams[i], now)
    /\ Exists(streams[i].mandate_id)

\* The slots of streams not opened, and the accounts of mandates not created.
Fresh ==
  /\ \A i \in StreamIds : i > Len(streams) => withdrawn[i] = 0
  /\ \A m \in MandateIds : ~Exists(m) =>
       budget[m] = 0 /\ committed[m] = 0 /\ total_paid[m] = 0 /\ returned[m] = 0

IInv == TypeOK /\ FundsConserved /\ Ledger /\ Covered /\ StreamsSound /\ Fresh

-----------------------------------------------------------------------------
(* Arithmetic of the accrual *)

\* Rounding down: q is the quotient of a by d.
LEMMA DivIsFloor ==
  ASSUME NEW a \in Nat, NEW d \in Nat, d > 0
  PROVE  /\ a \div d \in Nat
         /\ d * (a \div d) <= a
         /\ a < d * (a \div d) + d
  OBVIOUS

\* A share of at most the whole is at most the whole.
LEMMA ShareIsBounded ==
  ASSUME NEW t \in Nat, NEW e \in Nat, NEW d \in Nat, d > 0, e <= d
  PROVE  (t * e) \div d \in Nat /\ (t * e) \div d <= t
<1>1. t * e \in Nat /\ t * e <= t * d
  OBVIOUS
<1> DEFINE q == (t * e) \div d
<1>2. q \in Nat /\ d * q <= t * e
  BY <1>1, DivIsFloor
<1>3. d * q <= d * t
  BY <1>1, <1>2
<1> HIDE DEF q
<1>4. q <= t
  <2>1. SUFFICES ASSUME q >= t + 1 PROVE FALSE
    BY <1>2
  <2>2. d * q >= d * (t + 1)
    BY <1>2, <2>1
  <2>3. d * (t + 1) = d * t + d
    OBVIOUS
  <2> QED BY <1>2, <1>3, <2>2, <2>3
<1> QED BY <1>2, <1>4 DEF q

\* A larger share is at least as large after rounding down.
LEMMA ShareIsMonotone ==
  ASSUME NEW t \in Nat, NEW e \in Nat, NEW f \in Nat, NEW d \in Nat, d > 0, e <= f
  PROVE  (t * e) \div d <= (t * f) \div d
<1> DEFINE p == (t * e) \div d
           q == (t * f) \div d
<1>1. t * e \in Nat /\ t * f \in Nat /\ t * e <= t * f
  OBVIOUS
<1>2. p \in Nat /\ d * p <= t * e
  BY <1>1, DivIsFloor
<1>3. q \in Nat /\ t * f < d * q + d
  BY <1>1, DivIsFloor
<1> HIDE DEF p, q
<1>4. p <= q
  <2>1. SUFFICES ASSUME p >= q + 1 PROVE FALSE
    BY <1>2, <1>3
  <2>2. d * p >= d * (q + 1)
    BY <1>2, <1>3, <2>1
  <2>3. d * (q + 1) = d * q + d
    BY <1>3
  <2>4. d * p \in Nat /\ d * q \in Nat
    BY <1>2, <1>3
  <2> QED BY <1>1, <1>2, <1>3, <2>2, <2>3, <2>4
<1> QED BY <1>4 DEF p, q

\* accrued: a stream never accrues more than its total, and never loses any.
LEMMA AccruedBounded ==
  ASSUME NEW s \in Stream, NEW t \in Times, s.started_at_ms < s.ends_at_ms
  PROVE  Accrued(s, t) \in Nat /\ Accrued(s, t) <= s.total_amount
<1> DEFINE capped == IF t < s.ends_at_ms THEN t ELSE s.ends_at_ms
<1>1. s.total_amount \in Nat /\ s.started_at_ms \in Nat /\ s.ends_at_ms \in Nat /\ t \in Nat
  BY PayrollAssumption DEF Stream, Times, U64
<1>2. CASE t <= s.started_at_ms
  BY <1>1, <1>2 DEF Accrued
<1>3. CASE ~(t <= s.started_at_ms)
  <2>1. capped - s.started_at_ms \in Nat /\ s.ends_at_ms - s.started_at_ms \in Nat
        /\ s.ends_at_ms - s.started_at_ms > 0
        /\ capped - s.started_at_ms <= s.ends_at_ms - s.started_at_ms
    BY <1>1, <1>3
  <2> QED BY <1>1, <1>3, <2>1, ShareIsBounded DEF Accrued
<1> QED BY <1>2, <1>3

LEMMA AccruedMonotone ==
  ASSUME NEW s \in Stream, NEW t \in Times, NEW u \in Times,
         s.started_at_ms < s.ends_at_ms, t <= u
  PROVE  Accrued(s, t) <= Accrued(s, u)
<1> DEFINE capped(x) == IF x < s.ends_at_ms THEN x ELSE s.ends_at_ms
<1>1. s.total_amount \in Nat /\ s.started_at_ms \in Nat /\ s.ends_at_ms \in Nat
      /\ t \in Nat /\ u \in Nat
  BY PayrollAssumption DEF Stream, Times, U64
<1>2. CASE t <= s.started_at_ms
  BY <1>1, <1>2, AccruedBounded DEF Accrued
<1>3. CASE ~(t <= s.started_at_ms)
  <2>1. capped(t) - s.started_at_ms \in Nat /\ capped(u) - s.started_at_ms \in Nat
        /\ s.ends_at_ms - s.started_at_ms \in Nat /\ s.ends_at_ms - s.started_at_ms > 0
        /\ capped(t) - s.started_at_ms <= capped(u) - s.started_at_ms
    BY <1>1, <1>3
  <2>2. ~(u <= s.started_at_ms)
    BY <1>1, <1>3
  <2> QED BY <1>1, <1>3, <2>1, <2>2, ShareIsMonotone DEF Accrued
<1> QED BY <1>2, <1>3

-----------------------------------------------------------------------------
(* Typing *)

LEMMA MaxNat == MAX_U64 \in Nat
  BY PayrollAssumption

LEMMA U64Nat == \A x \in U64 : x \in Nat /\ x <= MAX_U64
  BY PayrollAssumption DEF U64

LEMMA MandateTyped ==
  ASSUME TypeOK, NEW m \in MandateIds
  PROVE  /\ budget[m] \in Nat /\ committed[m] \in Nat /\ total_paid[m] \in Nat
         /\ returned[m] \in Nat /\ run_count[m] \in Nat
         /\ budget[m] <= MAX_U64 /\ committed[m] <= MAX_U64 /\ total_paid[m] <= MAX_U64
  BY U64Nat DEF TypeOK

LEMMA FundedTyped ==
  ASSUME TypeOK, NEW m \in MandateIds, Exists(m)
  PROVE  terms[m].funded \in Nat /\ terms[m].funded <= MAX_U64
<1>1. terms[m] \in Terms
  BY DEF TypeOK, Exists
<1> QED BY <1>1, U64Nat DEF Terms

LEMMA StreamTyped ==
  ASSUME TypeOK, StreamsSound, NEW i \in Opened
  PROVE  /\ streams[i] \in Stream /\ Len(streams) \in Nat /\ i \in StreamIds
         /\ streams[i].mandate_id \in MandateIds
         /\ withdrawn[i] \in Nat
         /\ Accrued(streams[i], now) \in Nat
         /\ withdrawn[i] <= Accrued(streams[i], now)
         /\ Accrued(streams[i], now) <= streams[i].total_amount
         /\ Outstanding(i) \in Nat
         /\ streams[i].total_amount \in Nat
<1>1. streams[i] \in Stream /\ Len(streams) \in Nat /\ now \in Times /\ i \in StreamIds
  BY PayrollAssumption DEF TypeOK, Opened, StreamIds
<1>2. /\ streams[i].total_amount \in U64 /\ withdrawn[i] \in U64
      /\ streams[i].mandate_id \in MandateIds
  BY <1>1 DEF Stream, TypeOK
<1>3. /\ streams[i].started_at_ms < streams[i].ends_at_ms
      /\ withdrawn[i] <= Accrued(streams[i], now)
  BY DEF StreamsSound
<1>4. Accrued(streams[i], now) \in Nat /\ Accrued(streams[i], now) <= streams[i].total_amount
  BY <1>1, <1>3, AccruedBounded
<1> QED BY <1>1, <1>2, <1>3, <1>4, U64Nat DEF Outstanding

-----------------------------------------------------------------------------
(* What a running sum gives *)

\* No single stream is owed more than the whole.
LEMMA OneOfTheSum ==
  ASSUME NEW m \in MandateIds, NEW ps, RunningSum(m, ps),
         NEW i \in Opened, Len(streams) \in Nat, Owed(m, i) \in Nat
  PROVE  Owed(m, i) <= ps[Len(streams)]
<1>1. i \in 1..Len(streams) /\ i-1 \in 0..Len(streams) /\ i \in 0..Len(streams)
      /\ Len(streams) \in 0..Len(streams) /\ i <= Len(streams)
  BY DEF Opened
<1>2. ps[i] = ps[i-1] + Owed(m, i) /\ ps[i-1] \in Nat /\ ps[i] <= ps[Len(streams)]
      /\ ps[i] \in Nat /\ ps[Len(streams)] \in Nat
  BY <1>1 DEF RunningSum, Opened
<1> QED BY <1>2

\* WagesStayPayable follows from the invariant.
LEMMA LedgerPays == IInv => WagesStayPayable
<1> SUFFICES ASSUME IInv, NEW i \in Opened, NEW m \in MandateIds,
                    m = streams[i].mandate_id
             PROVE  /\ Outstanding(i) <= committed[m]
                    /\ committed[m] <= budget[m]
                    /\ total_paid[m] + Outstanding(i) <= MAX_U64
  BY StreamTyped DEF WagesStayPayable, IInv
<1>1. Outstanding(i) \in Nat /\ Len(streams) \in Nat /\ Exists(m)
  BY StreamTyped DEF IInv, StreamsSound
<1>2. Owed(m, i) = Outstanding(i)
  BY DEF Owed
<1>3. PICK ps : RunningSum(m, ps) /\ ps[Len(streams)] = committed[m]
  BY DEF IInv, Ledger
<1>4. Outstanding(i) <= committed[m]
  BY <1>1, <1>2, <1>3, OneOfTheSum
<1>5. committed[m] <= budget[m]
  BY DEF IInv, Covered
<1>6. budget[m] + total_paid[m] + returned[m] = terms[m].funded
  BY <1>1 DEF IInv, FundsConserved
<1>7. total_paid[m] + Outstanding(i) <= MAX_U64
  <2>1. /\ budget[m] \in Nat /\ committed[m] \in Nat /\ total_paid[m] \in Nat
        /\ returned[m] \in Nat /\ terms[m].funded \in Nat /\ terms[m].funded <= MAX_U64
    BY <1>1, MandateTyped, FundedTyped DEF IInv
  <2>2. total_paid[m] + committed[m] <= terms[m].funded
    BY <1>5, <1>6, <2>1
  <2>3. total_paid[m] + Outstanding(i) <= total_paid[m] + committed[m]
    BY <1>1, <1>4, <2>1
  <2> QED BY <1>1, <2>1, <2>2, <2>3, MaxNat
<1> QED BY <1>4, <1>5, <1>7

-----------------------------------------------------------------------------
(* The invariant is inductive *)

LEMMA InitIInv == Init => IInv
<1> SUFFICES ASSUME Init PROVE IInv
  OBVIOUS
<1>1. TypeOK
  BY PayrollAssumption DEF Init, TypeOK, U64, Times
<1>2. FundsConserved /\ Covered /\ StreamsSound /\ Fresh
  BY DEF Init, FundsConserved, Covered, StreamsSound, Fresh, Exists, Opened
<1>3. Ledger
  <2> SUFFICES ASSUME NEW m \in MandateIds
               PROVE  \E ps : RunningSum(m, ps) /\ ps[Len(streams)] = committed[m]
    BY DEF Ledger
  <2> WITNESS [i \in 0..Len(streams) |-> 0]
  <2> QED BY DEF Init, RunningSum, Opened
<1> QED BY <1>1, <1>2, <1>3 DEF IInv

\* A call that leaves the streams and the reserves alone keeps the ledger.
LEMMA SameLedger ==
  ASSUME Ledger, UNCHANGED <<streams, withdrawn, committed>>
  PROVE  Ledger'
  BY DEF Ledger, RunningSum, Owed, Outstanding, Opened

LEMMA CreateKeeps == IInv /\ Create => IInv'
<1> SUFFICES ASSUME IInv, NEW m \in MandateIds, NEW o \in Offers,
                    CreatePayrollMandate(m, o)
             PROVE  IInv'
  BY DEF Create
<1> USE DEF CreatePayrollMandate, mandateVars, streamVars
<1>1. o \in Terms /\ o.funded \in U64 /\ o.funded \in Nat
  BY PayrollAssumption, U64Nat DEF Terms
<1>2. TypeOK'
  BY <1>1 DEF IInv, TypeOK
<1>3. \A n \in MandateIds : n # m =>
        terms'[n] = terms[n] /\ budget'[n] = budget[n] /\ (Exists(n)' <=> Exists(n))
  BY DEF IInv, TypeOK, Exists
<1>4. terms'[m] = o /\ budget'[m] = o.funded /\ Exists(m)'
  BY <1>1, PayrollAssumption DEF IInv, TypeOK, Exists
<1>5. FundsConserved'
  BY <1>1, <1>3, <1>4 DEF IInv, FundsConserved, Fresh
<1>6. Covered'
  BY <1>1, <1>3, <1>4 DEF IInv, Covered, Fresh
<1>7. StreamsSound' /\ Fresh'
  BY <1>3, <1>4, StreamTyped DEF IInv, StreamsSound, Fresh, Opened
<1> QED BY <1>2, <1>5, <1>6, <1>7, SameLedger DEF IInv

LEMMA RunKeeps == IInv /\ Run => IInv'
<1> SUFFICES ASSUME IInv, NEW m \in MandateIds, NEW cap \in MandateIds,
                    NEW e \in Addresses, NEW gross \in Amounts, NEW net \in Amounts,
                    NEW a \in Splits, RunPayroll(cap, m, e, gross, net, a)
             PROVE  IInv'
  BY DEF Run
<1>1. PICK t \in U64 :
        /\ Exists(m) /\ t <= Spendable(m) /\ total_paid[m] + t <= MAX_U64
        /\ budget' = [budget EXCEPT ![m] = @ - t]
        /\ total_paid' = [total_paid EXCEPT ![m] = @ + t]
        /\ run_count' = [run_count EXCEPT ![m] = @ + 1]
        /\ UNCHANGED <<terms, committed, revoked, returned, streams, withdrawn, now>>
  BY DEF RunPayroll, Live, Affordable, streamVars
<1>2. t \in Nat /\ committed[m] <= budget[m] - t
      /\ budget[m] - t \in U64 /\ total_paid[m] + t \in U64
  BY <1>1, U64Nat, MandateTyped, MaxNat DEF IInv, Spendable, U64
<1>3. budget'[m] = budget[m] - t /\ total_paid'[m] = total_paid[m] + t
      /\ \A n \in MandateIds : n # m => budget'[n] = budget[n] /\ total_paid'[n] = total_paid[n]
  BY <1>1 DEF IInv, TypeOK
<1>4. TypeOK'
  BY <1>1, <1>2 DEF IInv, TypeOK
<1>5. FundsConserved'
  BY <1>1, <1>2, <1>3, MandateTyped DEF IInv, FundsConserved, Exists
<1>6. Covered'
  BY <1>1, <1>2, <1>3 DEF IInv, Covered
<1>7. StreamsSound' /\ Fresh'
  BY <1>1, <1>3 DEF IInv, StreamsSound, Fresh, Opened, Exists
<1> QED BY <1>1, <1>4, <1>5, <1>6, <1>7, SameLedger DEF IInv

LEMMA RevokeKeeps == IInv /\ Revoke => IInv'
<1> SUFFICES ASSUME IInv, NEW m \in MandateIds, RevokePayroll(m, m)
             PROVE  IInv'
  BY DEF Revoke, RevokePayroll
<1> USE DEF RevokePayroll, mandateVars, streamVars
<1>1. TypeOK'
  BY DEF IInv, TypeOK
<1>2. FundsConserved' /\ Covered' /\ StreamsSound' /\ Fresh'
  BY DEF IInv, FundsConserved, Covered, StreamsSound, Fresh, Opened, Exists
<1> QED BY <1>1, <1>2, SameLedger DEF IInv

LEMMA ReclaimKeeps == IInv /\ Reclaim => IInv'
<1> SUFFICES ASSUME IInv, NEW m \in MandateIds, WithdrawPayrollRemaining(m, m)
             PROVE  IInv'
  BY DEF Reclaim, WithdrawPayrollRemaining
<1> USE DEF WithdrawPayrollRemaining, streamVars
<1>1. budget[m] - Spendable(m) = committed[m] /\ Spendable(m) \in Nat
      /\ Spendable(m) <= budget[m] /\ Exists(m)
  BY MandateTyped DEF IInv, Covered, Spendable
<1>2. budget[m] + total_paid[m] + returned[m] = terms[m].funded
  BY <1>1 DEF IInv, FundsConserved
<1>3. returned[m] + Spendable(m) \in U64 /\ budget[m] - Spendable(m) \in U64
  BY <1>1, <1>2, MandateTyped, FundedTyped, MaxNat DEF IInv, U64
<1>4. TypeOK'
  BY <1>3 DEF IInv, TypeOK
<1>5. budget'[m] = committed[m] /\ returned'[m] = returned[m] + Spendable(m)
      /\ \A n \in MandateIds : n # m => budget'[n] = budget[n] /\ returned'[n] = returned[n]
  BY <1>1 DEF IInv, TypeOK
<1>6. FundsConserved'
  BY <1>1, <1>2, <1>5, MandateTyped DEF IInv, FundsConserved, Exists, Spendable
<1>7. Covered'
  BY <1>5, MandateTyped DEF IInv, Covered
<1>8. StreamsSound' /\ Fresh'
  BY <1>1, <1>5 DEF IInv, StreamsSound, Fresh, Opened, Exists
<1> QED BY <1>4, <1>6, <1>7, <1>8, SameLedger DEF IInv

LEMMA TickKeeps == IInv /\ Tick => IInv'
<1> SUFFICES ASSUME IInv, Tick PROVE IInv'
  OBVIOUS
<1> USE DEF Tick, mandateVars, streamVars
<1>1. now \in Nat /\ now + 1 \in Times /\ now \in Times /\ now' = now + 1
  BY PayrollAssumption DEF IInv, TypeOK, Times
<1>2. TypeOK'
  BY <1>1 DEF IInv, TypeOK
<1>3. FundsConserved' /\ Covered' /\ Fresh'
  BY DEF IInv, FundsConserved, Covered, Fresh, Exists
<1>4. StreamsSound'
  <2> SUFFICES ASSUME NEW i \in Opened PROVE withdrawn[i] <= Accrued(streams[i], now')
    BY DEF IInv, StreamsSound, Opened, Exists
  <2>1. streams[i] \in Stream /\ withdrawn[i] \in Nat /\ Accrued(streams[i], now) \in Nat
        /\ withdrawn[i] <= Accrued(streams[i], now)
        /\ streams[i].started_at_ms < streams[i].ends_at_ms
    BY StreamTyped DEF IInv, StreamsSound
  <2>2. Accrued(streams[i], now) <= Accrued(streams[i], now')
        /\ Accrued(streams[i], now') \in Nat
    BY <1>1, <2>1, AccruedMonotone, AccruedBounded
  <2> QED BY <2>1, <2>2
<1> QED BY <1>2, <1>3, <1>4, SameLedger DEF IInv

\* open_stream adds one term at the end of the running sum of its mandate.
LEMMA OpenKeeps == IInv /\ Open => IInv'
<1> SUFFICES ASSUME IInv, NEW m \in MandateIds, NEW e \in Addresses, NEW amount \in Amounts,
                    NEW t \in Times, NEW u \in Times, NEW cap \in MandateIds,
                    OpenStream(cap, m, e, amount, t, u)
             PROVE  IInv'
  BY DEF Open
<1> DEFINE new == [mandate_id |-> m, employee |-> e, total_amount |-> amount,
                   started_at_ms |-> t, ends_at_ms |-> u]
<1>0. PICK last \in Nat : last = Len(streams) + 1
  BY DEF IInv, TypeOK
<1>1. /\ Exists(m) /\ t < u /\ amount > 0 /\ amount <= Spendable(m)
      /\ Len(streams) < MaxStreams
      /\ committed[m] + amount <= MAX_U64
      /\ committed' = [committed EXCEPT ![m] = @ + amount]
      /\ streams' = Append(streams, new)
      /\ UNCHANGED <<terms, budget, total_paid, run_count, revoked, returned, withdrawn, now>>
  BY PayrollAssumption DEF OpenStream, Live, Affordable, Times
<1>2. amount \in U64 /\ amount \in Nat /\ new \in Stream /\ Len(streams) \in Nat
      /\ MaxStreams \in Nat /\ t \in Nat /\ u \in Nat
  BY PayrollAssumption, U64Nat DEF Stream, IInv, TypeOK, Times
<1>3. /\ streams' \in Seq(Stream) /\ Len(streams') = last
      /\ streams'[last] = new
      /\ \A i \in Opened : streams'[i] = streams[i]
  BY <1>0, <1>1, <1>2 DEF IInv, TypeOK, Opened
<1>4. committed'[m] = committed[m] + amount /\ committed'[m] \in U64
      /\ \A n \in MandateIds : n # m => committed'[n] = committed[n]
  <2>1. committed[m] \in Nat /\ committed[m] + amount \in U64
    BY <1>1, <1>2, MandateTyped, MaxNat DEF IInv, U64
  <2> QED BY <1>1, <2>1 DEF IInv, TypeOK
<1>5. last \in StreamIds /\ withdrawn[last] = 0 /\ last > Len(streams)
  BY <1>0, <1>1, <1>2 DEF StreamIds, IInv, Fresh
<1>6. TypeOK'
  BY <1>0, <1>1, <1>2, <1>3, <1>4 DEF IInv, TypeOK
<1>7. FundsConserved' /\ Fresh'
  BY <1>0, <1>1, <1>2, <1>3, <1>4 DEF IInv, FundsConserved, Fresh, Exists, StreamIds
<1>8. Covered'
  BY <1>1, <1>2, <1>4, MandateTyped DEF IInv, Covered, Spendable
<1> HIDE DEF new
<1>9. StreamsSound'
  <2> SUFFICES ASSUME NEW i \in Opened'
               PROVE  /\ streams'[i].started_at_ms < streams'[i].ends_at_ms
                      /\ withdrawn[i] <= Accrued(streams'[i], now)
                      /\ Exists(streams'[i].mandate_id)
    BY <1>1 DEF StreamsSound, Exists
  <2>1. CASE i \in Opened
    BY <1>3, <2>1 DEF IInv, StreamsSound
  <2>2. CASE i = last
    <3>1. new.started_at_ms = t /\ new.ends_at_ms = u /\ new.mandate_id = m
      BY DEF new
    <3>2. Accrued(new, now) \in Nat
      BY <1>1, <1>2, <3>1, AccruedBounded DEF IInv, TypeOK
    <3> QED BY <1>1, <1>3, <1>5, <2>2, <3>1, <3>2
  <2> QED BY <1>0, <1>2, <1>3, <2>1, <2>2 DEF Opened
<1>10. Ledger'
  <2> SUFFICES ASSUME NEW n \in MandateIds
               PROVE  \E ps : RunningSum(n, ps)' /\ ps[last] = committed'[n]
    BY <1>3 DEF Ledger
  <2>1. PICK ps : RunningSum(n, ps) /\ ps[Len(streams)] = committed[n]
    BY DEF IInv, Ledger
  <2> DEFINE add == IF n = m THEN amount ELSE 0
    <2>0. PICK qs : qs = [i \in 0..last |->
                        IF i = last THEN ps[Len(streams)] + add ELSE ps[i]]
    OBVIOUS
  <2>2. /\ ps \in [0..Len(streams) -> Nat] /\ ps[0] = 0
        /\ \A i \in Opened : ps[i] = ps[i-1] + Owed(n, i)
        /\ \A i, j \in 0..Len(streams) : i <= j => ps[i] <= ps[j]
    BY <2>1 DEF RunningSum
  <2>3. add \in Nat /\ committed'[n] = committed[n] + add
    BY <1>2, <1>4, MandateTyped DEF IInv
  <2>4. \A i \in Opened : Owed(n, i)' = Owed(n, i)
    BY <1>1, <1>3 DEF Owed, Outstanding
  <2>5. Owed(n, last)' = add
    <3>1. streams'[last].mandate_id = m /\ streams'[last].total_amount = amount
      BY <1>3 DEF new
    <3>2. Outstanding(last)' = amount
      BY <1>1, <1>2, <1>5, <3>1 DEF Outstanding
    <3> QED BY <3>1, <3>2 DEF Owed
  <2> HIDE DEF add
  <2>6. qs \in [0..last -> Nat] /\ qs[0] = 0 /\ qs[last] = ps[Len(streams)] + add
        /\ \A i \in 0..Len(streams) : qs[i] = ps[i]
    BY <1>0, <1>2, <2>0, <2>2, <2>3
  <2>7. \A i \in 1..last : qs[i] = qs[i-1] + Owed(n, i)'
    <3> SUFFICES ASSUME NEW i \in 1..last PROVE qs[i] = qs[i-1] + Owed(n, i)'
      OBVIOUS
    <3>1. CASE i \in Opened
      BY <1>0, <1>2, <2>2, <2>4, <2>6, <3>1 DEF Opened
    <3>2. CASE i = last
      <4>1. i - 1 = Len(streams) /\ Len(streams) \in 0..Len(streams)
        BY <1>0, <1>2, <3>2
      <4> QED BY <2>5, <2>6, <3>2, <4>1
    <3> QED BY <1>0, <1>2, <3>1, <3>2 DEF Opened
  <2>8. \A i, j \in 0..last : i <= j => qs[i] <= qs[j]
    <3> SUFFICES ASSUME NEW i \in 0..last, NEW j \in 0..last, i <= j PROVE qs[i] <= qs[j]
      OBVIOUS
    <3>1. CASE j # last
      BY <1>0, <1>2, <2>2, <2>6, <3>1
    <3>2. CASE j = last /\ i # last
      <4>1. i \in 0..Len(streams) /\ Len(streams) \in 0..Len(streams) /\ i <= Len(streams)
        BY <1>0, <1>2, <3>2
      <4>2. qs[i] = ps[i] /\ ps[i] <= ps[Len(streams)] /\ ps[i] \in Nat /\ ps[Len(streams)] \in Nat
        BY <2>2, <2>6, <4>1
      <4> QED BY <2>3, <2>6, <3>2, <4>2
    <3>3. CASE i = last /\ j = last
      BY <2>6, <3>3
    <3> QED BY <3>1, <3>2, <3>3, <1>2
  <2>9. RunningSum(n, qs)'
    <3>1. Len(streams)' = last /\ Opened' = 1..last
      BY <1>3 DEF Opened
    <3> QED BY <2>6, <2>7, <2>8, <3>1 DEF RunningSum
  <2>10. qs[last] = committed'[n]
    BY <2>1, <2>3, <2>6
  <2> QED BY <2>9, <2>10
<1> QED BY <1>6, <1>7, <1>8, <1>9, <1>10 DEF IInv

\* withdraw_earned lowers one term of the running sum, and with it every sum
\* from that term on; it finds in the budget what it takes, by LedgerPays.
LEMMA WithdrawKeeps == IInv /\ Withdraw => IInv'
<1> SUFFICES ASSUME IInv, NEW k \in Opened, NEW m \in MandateIds, WithdrawEarned(k, m)
             PROVE  IInv'
  BY DEF Withdraw
<1>0. PICK got : got = Accrued(streams[k], now) - withdrawn[k]
  OBVIOUS
<1>1. /\ streams[k].mandate_id = m /\ got > 0
      /\ got <= budget[m] /\ got <= committed[m] /\ total_paid[m] + got <= MAX_U64
      /\ withdrawn' = [withdrawn EXCEPT ![k] = @ + got]
      /\ committed' = [committed EXCEPT ![m] = @ - got]
      /\ total_paid' = [total_paid EXCEPT ![m] = @ + got]
      /\ budget' = [budget EXCEPT ![m] = @ - got]
      /\ UNCHANGED <<terms, run_count, revoked, returned, streams, now>>
  <2>1. Accrued(streams[k], now) \in Nat /\ withdrawn[k] \in Nat
        /\ withdrawn[k] <= Accrued(streams[k], now)
        /\ budget[m] \in Nat /\ committed[m] \in Nat
    BY StreamTyped, MandateTyped DEF IInv
  <2> QED BY <1>0, <2>1 DEF WithdrawEarned, BelongsTo
<1>2. /\ Len(streams) \in Nat /\ k \in StreamIds /\ k \in 1..Len(streams)
      /\ got \in Nat /\ withdrawn[k] \in Nat /\ withdrawn[k] + got = Accrued(streams[k], now)
      /\ got <= Outstanding(k) /\ Outstanding(k) \in Nat
      /\ withdrawn[k] + got \in U64
  <2>1. /\ Accrued(streams[k], now) \in Nat /\ withdrawn[k] \in Nat
        /\ withdrawn[k] <= Accrued(streams[k], now)
        /\ Accrued(streams[k], now) <= streams[k].total_amount
        /\ streams[k].total_amount \in Nat /\ streams[k] \in Stream
    BY StreamTyped DEF IInv
  <2>2. streams[k].total_amount <= MAX_U64
    BY <2>1, U64Nat DEF Stream
  <2>3. /\ got \in Nat /\ withdrawn[k] + got = Accrued(streams[k], now)
        /\ got <= streams[k].total_amount - withdrawn[k]
    BY <1>0, <2>1
  <2>4. withdrawn[k] + got \in U64
    BY <2>1, <2>2, <2>3, MaxNat DEF U64
  <2> QED BY <2>1, <2>3, <2>4, StreamTyped DEF IInv, Outstanding, Opened
<1>3. /\ budget[m] \in Nat /\ committed[m] \in Nat /\ total_paid[m] \in Nat
      /\ budget[m] <= MAX_U64 /\ committed[m] <= MAX_U64 /\ committed[m] <= budget[m]
  BY MandateTyped DEF IInv, Covered
<1>4. /\ budget[m] - got \in U64 /\ committed[m] - got \in U64 /\ total_paid[m] + got \in U64
  <2>1. budget[m] - got \in Nat /\ budget[m] - got <= MAX_U64
    BY <1>1, <1>2, <1>3, MaxNat
  <2>2. committed[m] - got \in Nat /\ committed[m] - got <= MAX_U64
    BY <1>1, <1>2, <1>3, MaxNat
  <2>3. total_paid[m] + got \in Nat /\ total_paid[m] + got <= MAX_U64
    BY <1>1, <1>2, <1>3, MaxNat
  <2> QED BY <2>1, <2>2, <2>3, MaxNat DEF U64
<1>5. /\ budget'[m] = budget[m] - got /\ committed'[m] = committed[m] - got
      /\ total_paid'[m] = total_paid[m] + got /\ withdrawn'[k] = withdrawn[k] + got
      /\ \A n \in MandateIds : n # m =>
           budget'[n] = budget[n] /\ committed'[n] = committed[n] /\ total_paid'[n] = total_paid[n]
      /\ \A i \in StreamIds : i # k => withdrawn'[i] = withdrawn[i]
  BY <1>1, <1>2 DEF IInv, TypeOK
<1>6. TypeOK'
  BY <1>1, <1>2, <1>4 DEF IInv, TypeOK
<1>7. FundsConserved'
  <2> SUFFICES ASSUME NEW n \in MandateIds, Exists(n)
               PROVE  budget'[n] + total_paid'[n] + returned[n] = terms[n].funded
    BY <1>1 DEF FundsConserved, Exists
  <2>1. budget[n] + total_paid[n] + returned[n] = terms[n].funded /\ returned[n] \in Nat
    BY MandateTyped DEF IInv, FundsConserved
  <2>2. CASE n = m
    BY <1>2, <1>3, <1>5, <2>1, <2>2
  <2> QED BY <1>5, <2>1, <2>2
<1>8. Covered'
  <2>1. \A n \in MandateIds : committed[n] <= budget[n]
    BY DEF IInv, Covered
  <2> SUFFICES ASSUME NEW n \in MandateIds PROVE committed'[n] <= budget'[n]
    BY DEF Covered
  <2>2. CASE n = m
    BY <1>2, <1>3, <1>5, <2>1, <2>2
  <2>3. CASE n # m
    BY <1>5, <2>1, <2>3
  <2> QED BY <2>2, <2>3
<1>9. Fresh'
  <2>1. Exists(m)
    BY <1>1 DEF IInv, StreamsSound
  <2>2. k <= Len(streams)
    BY <1>2
  <2>3. \A i \in StreamIds : i > Len(streams) => i # k
    BY <1>2, <2>2 DEF StreamIds
  <2> QED BY <1>1, <1>5, <2>1, <2>3 DEF IInv, Fresh, Exists
<1>10. StreamsSound'
  <2> SUFFICES ASSUME NEW i \in Opened PROVE withdrawn'[i] <= Accrued(streams[i], now)
    BY <1>1 DEF IInv, StreamsSound, Opened, Exists
  <2>1. withdrawn[i] <= Accrued(streams[i], now) /\ i \in StreamIds
        /\ Accrued(streams[i], now) \in Nat
    BY StreamTyped DEF IInv
  <2> QED BY <1>2, <1>5, <2>1
<1>11. Ledger'
  <2> SUFFICES ASSUME NEW n \in MandateIds
               PROVE  \E ps : RunningSum(n, ps)' /\ ps[Len(streams)] = committed'[n]
    BY <1>1 DEF Ledger
  <2>1. PICK ps : RunningSum(n, ps) /\ ps[Len(streams)] = committed[n]
    BY DEF IInv, Ledger
  <2>2. CASE n # m
    <3>1. \A i \in Opened : Owed(n, i)' = Owed(n, i)
      <4> SUFFICES ASSUME NEW i \in Opened PROVE Owed(n, i)' = Owed(n, i)
        OBVIOUS
      <4>1. CASE i = k
        BY <1>1, <2>2, <4>1 DEF Owed
      <4>2. CASE i # k
        <5>1. withdrawn'[i] = withdrawn[i]
          BY <1>5, <4>2, StreamTyped DEF IInv
        <5> QED BY <1>1, <5>1 DEF Owed, Outstanding
      <4> QED BY <4>1, <4>2
    <3> QED BY <1>1, <1>5, <2>1, <2>2, <3>1 DEF RunningSum, Opened
  <2>3. CASE n = m
    <3>0. PICK qs : qs = [i \in 0..Len(streams) |-> IF i >= k THEN ps[i] - got ELSE ps[i]]
      OBVIOUS
    <3>1. /\ ps \in [0..Len(streams) -> Nat] /\ ps[0] = 0
          /\ \A i \in Opened : ps[i] = ps[i-1] + Owed(m, i)
          /\ \A i, j \in 0..Len(streams) : i <= j => ps[i] <= ps[j]
      BY <2>1, <2>3 DEF RunningSum
    <3>2. /\ k \in 0..Len(streams) /\ k-1 \in 0..Len(streams)
          /\ ps[k] = ps[k-1] + Owed(m, k) /\ Owed(m, k) = Outstanding(k)
          /\ ps[k-1] \in Nat /\ ps[k] \in Nat
      <4>1. k \in 0..Len(streams) /\ k-1 \in 0..Len(streams)
        BY <1>2
      <4>2. Owed(m, k) = Outstanding(k)
        BY <1>1 DEF Owed
      <4> QED BY <3>1, <4>1, <4>2
    <3>3. ASSUME NEW i \in 0..Len(streams)
          PROVE  ps[i] \in Nat /\ (i >= k => ps[i] - got \in Nat)
      <4>1. ps[i] \in Nat /\ (i >= k => ps[k] <= ps[i])
        BY <3>1, <3>2
      <4> QED BY <1>2, <3>2, <4>1
    <3>4. ASSUME NEW i \in 0..Len(streams), NEW j \in 0..Len(streams), i < k, j >= k
          PROVE  ps[i] <= ps[j] - got
      <4>1. ps[i] <= ps[k-1] /\ ps[k] <= ps[j] /\ ps[i] \in Nat /\ ps[j] \in Nat
        <5>1. i <= k-1
          BY <1>2, <3>4
        <5> QED BY <3>1, <3>2, <3>4, <5>1
      <4> QED BY <1>2, <3>2, <4>1
    <3>5. qs \in [0..Len(streams) -> Nat]
      BY <3>0, <3>3
    <3>6. qs[0] = 0
      BY <1>2, <3>0, <3>1
    <3>7. \A i, j \in 0..Len(streams) : i <= j => qs[i] <= qs[j]
      <4> SUFFICES ASSUME NEW i \in 0..Len(streams), NEW j \in 0..Len(streams), i <= j
                   PROVE  qs[i] <= qs[j]
        OBVIOUS
      <4>1. ps[i] <= ps[j] /\ ps[i] \in Nat /\ ps[j] \in Nat
        BY <3>1
      <4>2. CASE i < k /\ j >= k
        BY <1>2, <3>0, <3>4, <4>2
      <4> QED BY <1>2, <3>0, <4>1, <4>2
    <3>8. \A i \in Opened : qs[i] = qs[i-1] + Owed(m, i)'
      <4> SUFFICES ASSUME NEW i \in Opened PROVE qs[i] = qs[i-1] + Owed(m, i)'
        OBVIOUS
      <4>1. /\ i \in 0..Len(streams) /\ i-1 \in 0..Len(streams) /\ i \in StreamIds
            /\ ps[i] = ps[i-1] + Owed(m, i) /\ ps[i] \in Nat /\ ps[i-1] \in Nat
            /\ streams[i].total_amount \in Nat /\ withdrawn[i] \in Nat
        <5>1. i \in 0..Len(streams) /\ i-1 \in 0..Len(streams)
          BY <1>2 DEF Opened
        <5>2. i \in StreamIds /\ streams[i].total_amount \in Nat /\ withdrawn[i] \in Nat
          BY StreamTyped DEF IInv
        <5> QED BY <3>1, <5>1, <5>2
      <4>2. Owed(m, i) \in Int
        BY <4>1 DEF Owed, Outstanding
      <4>3. CASE i = k
        <5>1. Owed(m, i)' = Owed(m, i) - got
          BY <1>1, <1>2, <1>5, <4>1, <4>3 DEF Owed, Outstanding
        <5>2. qs[i] = ps[i] - got /\ qs[i-1] = ps[i-1]
          BY <1>2, <3>0, <4>1, <4>3
        <5> QED BY <1>2, <4>1, <4>2, <5>1, <5>2
      <4>4. CASE i # k
        <5>1. Owed(m, i)' = Owed(m, i)
          BY <1>1, <1>5, <4>1, <4>4 DEF Owed, Outstanding
        <5>2. (i > k /\ qs[i] = ps[i] - got /\ qs[i-1] = ps[i-1] - got)
              \/ (i < k /\ qs[i] = ps[i] /\ qs[i-1] = ps[i-1])
          <6>1. i \in Int /\ k \in Int
            BY <1>2 DEF Opened
          <6>2. CASE i > k
            BY <3>0, <4>1, <6>1, <6>2
          <6>3. CASE i < k
            BY <3>0, <4>1, <6>1, <6>3
          <6> QED BY <4>4, <6>1, <6>2, <6>3
        <5> QED BY <1>2, <4>1, <4>2, <5>1, <5>2
      <4> QED BY <4>3, <4>4
    <3>9. qs[Len(streams)] = committed'[n]
      BY <1>2, <1>5, <2>1, <2>3, <3>0
    <3>10. RunningSum(n, qs)'
      BY <1>1, <2>3, <3>5, <3>6, <3>7, <3>8 DEF RunningSum, Opened
    <3> QED BY <3>9, <3>10
  <2> QED BY <2>2, <2>3
<1> QED BY <1>6, <1>7, <1>8, <1>9, <1>10, <1>11 DEF IInv

LEMMA StepKeepsIInv == IInv /\ [Next]_vars => IInv'
<1> SUFFICES ASSUME IInv, [Next]_vars PROVE IInv'
  OBVIOUS
<1>1. CASE UNCHANGED vars
  <2>1. TypeOK' /\ FundsConserved' /\ Covered' /\ StreamsSound' /\ Fresh'
    BY <1>1 DEF IInv, TypeOK, FundsConserved, Covered, StreamsSound, Fresh, Exists, Opened,
                vars, mandateVars, streamVars
  <2> QED BY <1>1, <2>1, SameLedger DEF IInv, vars, mandateVars, streamVars
<1> QED BY <1>1, CreateKeeps, RunKeeps, OpenKeeps, WithdrawKeeps, RevokeKeeps,
           ReclaimKeeps, TickKeeps DEF Next

-----------------------------------------------------------------------------
(* The theorems *)

LEMMA SpecIInv == Spec => []IInv
<1>1. Init => IInv
  BY InitIInv
<1>2. IInv /\ [Next]_vars => IInv'
  BY StepKeepsIInv
<1> QED BY <1>1, <1>2, PTL DEF Spec

\* In every reachable state the fields of the Move objects are well typed: in
\* particular no call can leave an amount outside u64.
THEOREM TypeCorrect == Spec => []TypeOK
<1>1. IInv => TypeOK
  BY DEF IInv
<1> QED BY <1>1, SpecIInv, PTL

\* withdraw_earned can always pay what has accrued on a stream, and in the end
\* its whole total, whatever run_payroll, open_stream, revoke_payroll and
\* withdraw_payroll_remaining did in between.
THEOREM WagesAlwaysPayable == Spec => []WagesStayPayable
<1> QED BY LedgerPays, SpecIInv, PTL

-----------------------------------------------------------------------------
(* `committed` is the sum of what the streams are owed.  The ledger has a    *)
(* running sum that ends there; that a running sum has no choice needs the   *)
(* least number at which two of them differ.                                 *)

Below == OpToRel(<, Nat)

LEMMA BelowIsLess == Below = {pair \in Nat \X Nat : pair[1] < pair[2]}
  BY Zenon DEF Below, OpToRel

LEMMA BelowIsWellFounded == IsWellFoundedOn(Below, Nat)
  BY NatLessThanWellFounded, Zenon DEF Below

\* A set of natural numbers that is not empty has a least one.
LEMMA LeastNumber ==
  ASSUME NEW T \in SUBSET Nat, T # {}
  PROVE  \E least \in T : \A y \in T : least <= y
<1>1. PICK least \in T : \A y \in T : ~ (<<y, least>> \in Below)
  BY BelowIsWellFounded, WFMin
<1>2. \A y \in T : ~ (y < least)
  BY <1>1, BelowIsLess
<1> QED BY <1>2

\* Two running sums of the same terms are one.
LEMMA OneRunningSum ==
  ASSUME NEW n \in Nat, NEW ps, NEW qs, NEW term,
         ps[0] = qs[0],
         \A i \in 1..n : ps[i] = ps[i-1] + term[i] /\ qs[i] = qs[i-1] + term[i]
  PROVE  ps[n] = qs[n]
<1> DEFINE Differ == {i \in 0..n : ps[i] # qs[i]}
<1>1. SUFFICES ASSUME Differ # {} PROVE FALSE
  OBVIOUS
<1>2. Differ \in SUBSET Nat
  OBVIOUS
<1>3. PICK least \in Differ : \A y \in Differ : least <= y
  <2> HIDE DEF Differ
  <2> QED BY <1>1, <1>2, LeastNumber
<1>4. least \in 1..n /\ least - 1 \in 0..n /\ least - 1 \notin Differ
  BY <1>3
<1>5. ps[least-1] = qs[least-1] /\ ps[least] # qs[least]
  BY <1>3, <1>4
<1> QED BY <1>4, <1>5

\* The recursive sum of the specification is the ledger's.
LEMMA SumIsTheLedgers ==
  ASSUME NEW m, NEW ps, Len(streams) \in Nat, RunningSum(m, ps)
  PROVE  ps[Len(streams)] = OwedInAll(m)
<1> DEFINE last == Len(streams)
           Step(g) == [i \in 0..last |-> IF i = 0 THEN 0 ELSE g[i-1] + Owed(m, i)]
           upTo == CHOOSE g : g = Step(g)
           term == [i \in 1..last |-> Owed(m, i)]
<1>1. ps = Step(ps)
  BY DEF RunningSum, Opened
<1>2. upTo = Step(upTo)
  <2> HIDE DEF Step
  <2> QED BY <1>1
<1>3. upTo[0] = 0 /\ \A i \in 1..last : upTo[i] = upTo[i-1] + term[i]
  <2> HIDE DEF upTo
  <2> QED BY <1>2
<1>4. ps[0] = 0 /\ \A i \in 1..last : ps[i] = ps[i-1] + term[i]
  BY DEF RunningSum, Opened
<1>5. last \in Nat
  OBVIOUS
<1>6. ps[last] = upTo[last]
  <2> HIDE DEF upTo, Step, term, last
  <2>1. \A i \in 1..last : ps[i] = ps[i-1] + term[i] /\ upTo[i] = upTo[i-1] + term[i]
    BY <1>3, <1>4
  <2> QED BY <1>3, <1>4, <1>5, <2>1, OneRunningSum
<1> QED BY <1>6 DEF OwedInAll

\* What a mandate has reserved is what its open streams have still to pay, to
\* the unit, over every interleaving of the contract's calls.
THEOREM CommittedExactly == Spec => []CommittedIsOwed
<1>1. IInv => CommittedIsOwed
  <2> SUFFICES ASSUME IInv, NEW m \in MandateIds PROVE committed[m] = OwedInAll(m)
    BY DEF CommittedIsOwed
  <2>1. PICK ps : RunningSum(m, ps) /\ ps[Len(streams)] = committed[m]
    BY DEF IInv, Ledger
  <2>2. Len(streams) \in Nat
    BY DEF IInv, TypeOK
  <2> QED BY <2>1, <2>2, SumIsTheLedgers
<1> QED BY <1>1, SpecIInv, PTL

\* The money that funded a mandate is in it, was paid out or was returned.
THEOREM PayrollConservation == Spec => []FundsConserved
<1>1. IInv => FundsConserved
  BY DEF IInv
<1> QED BY <1>1, SpecIInv, PTL

\* No stream pays ahead of the time worked, nor more than its total.
THEOREM PaidAsEarned == Spec => []NeverAheadOfAccrual
<1>1. IInv => NeverAheadOfAccrual
  BY StreamTyped DEF IInv, NeverAheadOfAccrual
<1> QED BY <1>1, SpecIInv, PTL

LEMMA ProductIsNat ==
  ASSUME NEW x \in Nat, NEW y \in Nat
  PROVE  x * y \in Nat
  OBVIOUS

LEMMA TimesMonotone ==
  ASSUME NEW x \in Nat, NEW y \in Nat, x <= y, NEW z \in Nat
  PROVE  x * z <= y * z
  OBVIOUS

\* The terms of a mandate are those create_payroll_mandate accepted.
TermsValid == \A m \in MandateIds : Exists(m) => ValidTerms(terms[m])

LEMMA SpecTermsValid == Spec => []TermsValid
<1>1. Init => TermsValid
  BY DEF Init, TermsValid, Exists
<1>2. IInv /\ TermsValid /\ [Next]_vars => TermsValid'
  <2> SUFFICES ASSUME IInv, TermsValid, [Next]_vars PROVE TermsValid'
    OBVIOUS
  <2>1. CASE Create
    <3>1. PICK n \in MandateIds, o \in Offers :
            ValidTerms(o) /\ terms' = [terms EXCEPT ![n] = o]
      BY <2>1 DEF Create, CreatePayrollMandate
    <3> SUFFICES ASSUME NEW m \in MandateIds, terms'[m] # NoTerms
                 PROVE  ValidTerms(terms'[m])
      BY DEF TermsValid, Exists, ValidTerms
    <3>2. terms \in [MandateIds -> Terms \cup {NoTerms}]
      BY DEF IInv, TypeOK
    <3>3. CASE m = n
      BY <3>1, <3>2, <3>3
    <3>4. CASE m # n
      BY <3>1, <3>2, <3>4 DEF TermsValid, Exists
    <3> QED BY <3>3, <3>4
  <2>2. CASE UNCHANGED terms
    BY <2>2 DEF TermsValid, Exists, ValidTerms
  <2>3. Run => UNCHANGED terms
    BY DEF Run, RunPayroll
  <2>4. Open \/ Withdraw => UNCHANGED terms
    BY DEF Open, OpenStream, Withdraw, WithdrawEarned
  <2>5. Revoke \/ Reclaim \/ Tick \/ UNCHANGED vars => UNCHANGED terms
    BY DEF Revoke, RevokePayroll, Reclaim, WithdrawPayrollRemaining, Tick, mandateVars, vars
  <2> QED BY <2>1, <2>2, <2>3, <2>4, <2>5 DEF Next
<1> QED BY <1>1, <1>2, SpecIInv, PTL DEF Spec

LEMMA RunFindsTerms ==
  ASSUME IInv, TermsValid, NEW m \in MandateIds, NEW e \in Addresses,
         NEW gross \in Amounts, NEW net \in Amounts, NEW a \in Splits,
         RunPayroll(m, m, e, gross, net, a)
  PROVE  terms[m] \in Terms /\ ValidTerms(terms[m])
<1>1. Exists(m)
  BY DEF RunPayroll, Live
<1> QED BY <1>1 DEF IInv, TypeOK, Exists, TermsValid

\* run_payroll holds the statutory floors against the wage that is paid out,
\* although the gross they are computed from is whatever the caller declared.
THEOREM FloorsHoldForTheWage == Spec => FloorsBindTheWagePaid
<1> DEFINE Bound ==
      \A m \in MandateIds, e \in Addresses, gross, net \in Amounts, a \in Splits :
        RunPayroll(m, m, e, gross, net, a) =>
          \A i \in 1..Len(a) :
            a[i] * BPS_DENOMINATOR >=
              FloorBasis(net, terms[m].statutory_wage_cap[i])
                * terms[m].statutory_min_bps[i]
<1>1. ASSUME IInv, TermsValid PROVE Bound
  <2> SUFFICES ASSUME NEW m \in MandateIds, NEW e \in Addresses, NEW gross \in Amounts,
                      NEW net \in Amounts, NEW a \in Splits,
                      RunPayroll(m, m, e, gross, net, a), NEW i \in 1..Len(a)
               PROVE  a[i] * BPS_DENOMINATOR >=
                        FloorBasis(net, terms[m].statutory_wage_cap[i])
                          * terms[m].statutory_min_bps[i]
    OBVIOUS
  <2> DEFINE cap == terms[m].statutory_wage_cap[i]
             bps == terms[m].statutory_min_bps[i]
  <2>1. terms[m] \in Terms /\ ValidTerms(terms[m])
    BY <1>1, RunFindsTerms
  <2>2. Len(a) = terms[m].statutory_recipients /\ net <= gross
        /\ MeetsFloors(terms[m], gross, net, a)
    BY DEF RunPayroll, WageWithinGross
  <2>3. cap \in Nat /\ bps \in Nat
    <3>1. terms[m].statutory_wage_cap \in Seq(U64) /\ terms[m].statutory_min_bps \in Seq(U64)
      BY <2>1 DEF Terms
    <3>2. i \in 1..Len(terms[m].statutory_wage_cap) /\ i \in 1..Len(terms[m].statutory_min_bps)
      BY <2>1, <2>2 DEF ValidTerms
    <3>3. cap \in U64 /\ bps \in U64
      BY <3>1, <3>2
    <3> QED BY <3>3, U64Nat
  <2>4. net \in Nat /\ gross \in Nat
    BY PayrollAssumption, U64Nat
  <2>5. a[i] * BPS_DENOMINATOR >= FloorBasis(gross, cap) * bps
    BY <2>2 DEF MeetsFloors, MeetsFloor
  <2>6. FloorBasis(net, cap) \in Nat /\ FloorBasis(gross, cap) \in Nat
        /\ FloorBasis(net, cap) <= FloorBasis(gross, cap)
    BY <2>2, <2>3, <2>4 DEF FloorBasis
  <2>7. FloorBasis(net, cap) * bps <= FloorBasis(gross, cap) * bps
    BY <2>3, <2>6, TimesMonotone
  <2>8. a[i] * BPS_DENOMINATOR \in Nat
    <3>1. a \in Seq(U64)
      BY PayrollAssumption
    <3>2. a[i] \in U64
      BY <3>1
    <3>3. a[i] \in Nat /\ BPS_DENOMINATOR \in Nat
      BY <3>2, U64Nat, PayrollAssumption
    <3> HIDE DEF cap, bps
    <3> QED BY <3>3, ProductIsNat
  <2>9. FloorBasis(net, cap) * bps \in Nat /\ FloorBasis(gross, cap) * bps \in Nat
    BY <2>3, <2>6, ProductIsNat
  <2> QED BY <2>5, <2>7, <2>8, <2>9
<1>2. IInv /\ TermsValid /\ [Next]_vars => [Bound]_vars
  BY <1>1
<1> QED BY <1>2, SpecIInv, SpecTermsValid, PTL DEF Spec, FloorsBindTheWagePaid

\* A revoked mandate runs and promises nothing more, and what it pays out is
\* exactly what the streams were promised.
THEOREM RevokedForGood == Spec => RevokedOnlySettles
<1> DEFINE Settles ==
      \A m \in MandateIds : revoked[m] =>
        /\ revoked'[m]
        /\ run_count'[m] = run_count[m]
        /\ committed'[m] <= committed[m]
        /\ total_paid'[m] - total_paid[m] = committed[m] - committed'[m]
<1>1. ASSUME IInv, Next PROVE Settles
  <2> SUFFICES ASSUME NEW m \in MandateIds, revoked[m]
               PROVE  /\ revoked'[m]
                      /\ run_count'[m] = run_count[m]
                      /\ committed'[m] <= committed[m]
                      /\ total_paid'[m] - total_paid[m] = committed[m] - committed'[m]
    OBVIOUS
  <2> USE <1>1 DEF IInv
  <2>1. committed[m] \in Nat /\ total_paid[m] \in Nat
    BY MandateTyped
  <2>2. CASE UNCHANGED <<run_count, committed, total_paid, revoked>>
    BY <2>1, <2>2
  <2>3. CASE Run
    <3>1. PICK cap, n \in MandateIds, e \in Addresses, gross, net \in Amounts, a \in Splits :
            RunPayroll(cap, n, e, gross, net, a)
      BY <2>3 DEF Run
    <3>2. /\ ~revoked[n]
          /\ run_count' = [run_count EXCEPT ![n] = @ + 1]
          /\ UNCHANGED <<committed, revoked>>
      BY <3>1 DEF RunPayroll, Live
    <3>3. \E t : total_paid' = [total_paid EXCEPT ![n] = @ + t]
      BY <3>1 DEF RunPayroll
    <3> QED BY <2>1, <3>2, <3>3 DEF TypeOK
  <2>4. CASE Open
    <3>1. PICK cap, n \in MandateIds, e \in Addresses, x \in Amounts, t, u \in Times :
            OpenStream(cap, n, e, x, t, u)
      BY <2>4 DEF Open
    <3>2. /\ ~revoked[n]
          /\ committed' = [committed EXCEPT ![n] = @ + x]
          /\ UNCHANGED <<run_count, total_paid, revoked>>
      BY <3>1 DEF OpenStream, Live
    <3> QED BY <2>1, <3>2 DEF TypeOK
  <2>5. CASE Withdraw
    <3>1. PICK i \in Opened, n \in MandateIds : WithdrawEarned(i, n)
      BY <2>5 DEF Withdraw
    <3> DEFINE due == Accrued(streams[i], now) - withdrawn[i]
    <3>2. due \in Int /\ due > 0
      BY <3>1, StreamTyped DEF WithdrawEarned
    <3>3. /\ committed' = [committed EXCEPT ![n] = @ - due]
          /\ total_paid' = [total_paid EXCEPT ![n] = @ + due]
          /\ UNCHANGED <<run_count, revoked>>
      BY <3>1 DEF WithdrawEarned
    <3> HIDE DEF due
    <3> QED BY <2>1, <3>2, <3>3 DEF TypeOK
  <2>6. CASE Revoke
    <3>1. PICK n \in MandateIds : revoked' = [revoked EXCEPT ![n] = TRUE]
      BY <2>6 DEF Revoke, RevokePayroll
    <3>2. UNCHANGED <<run_count, committed, total_paid>>
      BY <2>6 DEF Revoke, RevokePayroll
    <3>3. revoked'[m]
      BY <3>1, Zenon DEF TypeOK
    <3> QED BY <2>1, <3>2, <3>3
  <2>7. Create \/ Reclaim \/ Tick => UNCHANGED <<run_count, committed, total_paid, revoked>>
    BY DEF Create, CreatePayrollMandate, Reclaim, WithdrawPayrollRemaining, Tick, mandateVars
  <2> QED BY <1>1, <2>2, <2>3, <2>4, <2>5, <2>6, <2>7 DEF Next
<1>2. IInv /\ [Next]_vars => [Settles]_vars
  BY <1>1
<1> QED BY <1>2, SpecIInv, PTL DEF Spec, RevokedOnlySettles

-----------------------------------------------------------------------------
(* The mandate implements the escrow *)

free == [m \in MandateIds |-> Spendable(m)]

\* Each call, in a state of the invariant, is one step of the escrow.
LEMMA CreateFunds ==
  ASSUME IInv, NEW m \in MandateIds, NEW o \in Offers, CreatePayrollMandate(m, o)
  PROVE  Escrow!Fund(m, o.funded) /\ o.funded \in U64
<1>1. o.funded \in U64 /\ o.funded \in Nat /\ o.funded > 0
  BY PayrollAssumption, U64Nat DEF Terms, CreatePayrollMandate, ValidTerms
<1>2. budget[m] = 0 /\ committed[m] = 0 /\ total_paid[m] = 0 /\ returned[m] = 0
  BY DEF IInv, Fresh, CreatePayrollMandate
<1>3. free' = [free EXCEPT ![m] = o.funded]
  <2>1. budget' = [budget EXCEPT ![m] = o.funded] /\ committed' = committed
    BY DEF CreatePayrollMandate
  <2> SUFFICES ASSUME NEW n \in MandateIds
               PROVE  budget'[n] - committed[n] = IF n = m THEN o.funded
                                                  ELSE budget[n] - committed[n]
    BY <2>1 DEF free, Spendable
  <2> QED BY <1>1, <1>2, <2>1 DEF IInv, TypeOK
<1>4. free[m] = 0
  BY <1>2 DEF free, Spendable
<1> QED BY <1>1, <1>2, <1>3, <1>4
        DEF Escrow!Fund, Escrow!Total, Escrow!Locked, free, CreatePayrollMandate

LEMMA RunPays ==
  ASSUME IInv, NEW cap \in MandateIds, NEW m \in MandateIds, NEW e \in Addresses,
         NEW gross \in Amounts, NEW net \in Amounts, NEW a \in Splits,
         RunPayroll(cap, m, e, gross, net, a)
  PROVE  \/ \E t \in U64 : Escrow!Pay(m, t)
         \/ UNCHANGED <<free, committed, total_paid, returned>>
<1>1. PICK t \in U64 :
        /\ t <= Spendable(m)
        /\ budget' = [budget EXCEPT ![m] = @ - t]
        /\ total_paid' = [total_paid EXCEPT ![m] = @ + t]
        /\ UNCHANGED <<committed, returned>>
  BY DEF RunPayroll, Live, Affordable
<1>2. t \in Nat /\ budget[m] \in Nat /\ committed[m] \in Nat /\ total_paid[m] \in Nat
  BY U64Nat, MandateTyped DEF IInv
<1>3. free' = [free EXCEPT ![m] = @ - t]
  <2> SUFFICES ASSUME NEW n \in MandateIds
               PROVE  budget'[n] - committed[n] = IF n = m THEN budget[m] - committed[m] - t
                                                  ELSE budget[n] - committed[n]
    BY <1>1 DEF free, Spendable
  <2> QED BY <1>1, <1>2 DEF IInv, TypeOK
<1>4. CASE t > 0
  BY <1>1, <1>2, <1>3, <1>4 DEF Escrow!Pay, free
<1>5. CASE t = 0
  BY <1>1, <1>2, <1>3, <1>5 DEF free, Spendable, IInv, TypeOK
<1> QED BY <1>2, <1>4, <1>5

LEMMA OpenPromises ==
  ASSUME IInv, NEW cap \in MandateIds, NEW m \in MandateIds, NEW e \in Addresses,
         NEW amount \in Amounts, NEW t \in Times, NEW u \in Times,
         OpenStream(cap, m, e, amount, t, u)
  PROVE  Escrow!Promise(m, amount) /\ amount \in U64
<1>1. /\ amount > 0 /\ amount <= Spendable(m)
      /\ committed' = [committed EXCEPT ![m] = @ + amount]
      /\ UNCHANGED <<budget, total_paid, returned>>
  BY DEF OpenStream, Live, Affordable
<1>2. amount \in U64 /\ amount \in Nat
  BY U64Nat, PayrollAssumption
<1>3. free' = [free EXCEPT ![m] = @ - amount]
  <2> SUFFICES ASSUME NEW n \in MandateIds
               PROVE  budget[n] - committed'[n] = IF n = m THEN budget[m] - committed[m] - amount
                                                  ELSE budget[n] - committed[n]
    BY <1>1 DEF free, Spendable
  <2>1. budget[n] \in Nat /\ committed[n] \in Nat
    BY MandateTyped DEF IInv
  <2> QED BY <1>1, <1>2, <2>1 DEF IInv, TypeOK
<1> QED BY <1>1, <1>2, <1>3 DEF Escrow!Promise, free

LEMMA WithdrawRedeems ==
  ASSUME IInv, NEW k \in Opened, NEW m \in MandateIds, WithdrawEarned(k, m)
  PROVE  \E t \in U64 : Escrow!Redeem(m, t)
<1>1. PICK got : got = Accrued(streams[k], now) - withdrawn[k]
  OBVIOUS
<1>2. /\ got > 0 /\ budget[m] >= got /\ committed[m] >= got
      /\ committed' = [committed EXCEPT ![m] = @ - got]
      /\ total_paid' = [total_paid EXCEPT ![m] = @ + got]
      /\ budget' = [budget EXCEPT ![m] = @ - got]
      /\ UNCHANGED returned
  BY <1>1 DEF WithdrawEarned, BelongsTo
<1>3. /\ budget[m] \in Nat /\ committed[m] \in Nat /\ budget[m] <= MAX_U64
      /\ Accrued(streams[k], now) \in Nat /\ withdrawn[k] \in Nat
  BY MandateTyped, StreamTyped DEF IInv
<1>4. got \in U64 /\ got \in Nat
  BY <1>1, <1>2, <1>3, MaxNat DEF U64
<1>5. free' = free
  <2> SUFFICES ASSUME NEW n \in MandateIds
               PROVE  budget'[n] - committed'[n] = budget[n] - committed[n]
    BY DEF free, Spendable
  <2>1. budget[n] \in Nat /\ committed[n] \in Nat
    BY MandateTyped DEF IInv
  <2> QED BY <1>2, <1>4, <2>1 DEF IInv, TypeOK
<1>6. Escrow!Redeem(m, got)
  BY <1>2, <1>3, <1>4, <1>5 DEF Escrow!Redeem, free
<1> QED BY <1>4, <1>6

LEMMA ReclaimReturns ==
  ASSUME IInv, NEW cap \in MandateIds, NEW m \in MandateIds, WithdrawPayrollRemaining(cap, m)
  PROVE  Escrow!Return(m)
<1>1. budget[m] \in Nat /\ committed[m] \in Nat
  BY MandateTyped DEF IInv
<1>2. free' = [free EXCEPT ![m] = 0]
  <2> SUFFICES ASSUME NEW n \in MandateIds
               PROVE  budget'[n] - committed[n] = IF n = m THEN 0 ELSE budget[n] - committed[n]
    BY DEF free, Spendable, WithdrawPayrollRemaining
  <2>1. budget[n] \in Nat /\ committed[n] \in Nat
    BY MandateTyped DEF IInv
  <2> QED BY <1>1, <2>1 DEF IInv, TypeOK, WithdrawPayrollRemaining, Spendable
<1> QED BY <1>2 DEF Escrow!Return, free, WithdrawPayrollRemaining

\* Every behaviour of the payroll mandate is a behaviour of the escrow whose
\* promised money is `committed`: a promise only ever leaves by being paid.
THEOREM PayrollImplementsEscrow == Spec => EscrowSpec
<1>1. Init => Escrow!Init
  BY DEF Init, Escrow!Init, Spendable
<1>2. IInv /\ [Next]_vars => [Escrow!Next]_(Escrow!vars)
  <2> SUFFICES ASSUME IInv, [Next]_vars PROVE Escrow!Next \/ UNCHANGED Escrow!vars
    OBVIOUS
  <2>1. CASE Create
    BY <2>1, CreateFunds DEF Create, Escrow!Next
  <2>2. CASE Run
    BY <2>2, RunPays DEF Run, Escrow!Next, Escrow!vars, free
  <2>3. CASE Open
    BY <2>3, OpenPromises DEF Open, Escrow!Next
  <2>4. CASE Withdraw
    BY <2>4, WithdrawRedeems DEF Withdraw, Escrow!Next
  <2>5. CASE Reclaim
    BY <2>5, ReclaimReturns DEF Reclaim, Escrow!Next
  <2>6. CASE Revoke \/ Tick \/ UNCHANGED vars
    BY <2>6 DEF Revoke, RevokePayroll, Tick, vars, mandateVars, streamVars, Spendable, Escrow!vars
  <2> QED BY <2>1, <2>2, <2>3, <2>4, <2>5, <2>6 DEF Next
<1> QED BY <1>1, <1>2, SpecIInv, PTL DEF Spec, EscrowSpec, Escrow!Spec
=============================================================================
