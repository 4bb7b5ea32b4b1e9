------------------------ MODULE SalaryStreams_proofs ------------------------
(***************************************************************************)
(* What the registry and the screens say of salary streams is what the     *)
(* chain has, for any number of openings, cards and balance screens.       *)
(*                                                                         *)
(* OpeningSound says what an opening knows at each await: what was refused *)
(* was never sent or aborted, what was identified is one of the chain's    *)
(* streams and was asked for in the same words.  ChainSound says a stream  *)
(* is what its transaction asked for, BalanceSound that nobody was paid    *)
(* more than has accrued and no screen has seen more than was paid.        *)
(***************************************************************************)
EXTENDS SalaryStreams, TLAPS

PCs == {"idle", "asked", "fits", "prepared", "submitted", "confirmed", "identified"}
       \cup Outcomes

TypeOK ==
  /\ card \in [Desks -> Rows \cup {None}]
  /\ waits \in [Desks -> Openings \cup {None}]
  /\ pc \in [Openings -> PCs]
  /\ asked \in [Openings -> Totals \cup {None}]
  /\ starts \in [Openings -> Nat \cup {None}]
  /\ based_on \in [Openings -> Nat \cup {None}]
  /\ tx \in [Openings -> {"none", "sent", "done", "aborted"}]
  /\ stream \in [Openings -> Openings \cup {None}]
  /\ row \in Rows \cup {None}
  /\ opened \in [Openings -> Streams \cup {None}]
  /\ withdrawn \in [Openings -> Nat]
  /\ version \in Nat /\ now \in Nat
  /\ view \in [Balances -> Views \cup {None}]
  /\ draw_pc \in [Balances -> {"idle", "read", "sent", "done", "aborted"}]
  /\ draw_on \in [Balances -> Nat \cup {None}]
  /\ draws \in Nat

OpeningSound ==
  \A o \in Openings :
    /\ pc[o] \in {"idle", "asked", "fits", "prepared"} => tx[o] = "none"
    /\ pc[o] = "refused" => tx[o] \in {"none", "aborted"}
    /\ pc[o] # "idle" => asked[o] \in Totals
    /\ pc[o] \notin {"idle", "asked", "refused"} => starts[o] \in Nat
    /\ tx[o] # "none" => asked[o] \in Totals /\ starts[o] \in Nat
    /\ pc[o] = "confirmed" => \E p \in Opened : Same(o, p)
    /\ pc[o] = "identified" => stream[o] \in Opened /\ Same(o, stream[o])

ChainSound ==
  \A o \in Openings :
    /\ opened[o] # None <=> tx[o] = "done"
    /\ opened[o] = None => withdrawn[o] = 0
    /\ opened[o] # None =>
         /\ opened[o].total = asked[o] /\ opened[o].starts = starts[o]
         /\ opened[o].ends = starts[o] + Duration

BalanceSound ==
  /\ \A o \in Opened : withdrawn[o] <= Earned(opened[o], now)
  /\ \A b \in Balances :
       /\ draw_pc[b] # "idle" => view[b] # None
       /\ view[b] # None =>
            view[b].id \in Opened /\ view[b].withdrawn <= withdrawn[view[b].id]

IInv == TypeOK /\ OpeningSound /\ ChainSound /\ RegistryNamesTheStream /\ BalanceSound

-----------------------------------------------------------------------------
(* Accrual *)

\* Integer division, as the contract uses it.
LEMMA DivIsFloor ==
  ASSUME NEW a \in Nat, NEW d \in Nat, d > 0
  PROVE  /\ a \div d \in Nat
         /\ d * (a \div d) <= a
         /\ a < d * (a \div d) + d
  OBVIOUS

LEMMA WholeShare ==
  ASSUME NEW t \in Nat, NEW d \in Nat, d > 0
  PROVE  (t * d) \div d = t
<1> DEFINE q == (t * d) \div d
<1>1. t * d \in Nat
  OBVIOUS
<1>2. q \in Nat /\ d * q <= t * d /\ t * d < d * q + d
  BY <1>1, DivIsFloor
<1> HIDE DEF q
<1>3. q <= t
  <2>1. SUFFICES ASSUME q >= t + 1 PROVE FALSE
    BY <1>2
  <2>2. d * q >= d * (t + 1) /\ d * (t + 1) = t * d + d
    BY <1>2, <2>1
  <2> QED BY <1>2, <2>2
<1>4. q >= t
  <2>1. SUFFICES ASSUME q + 1 <= t PROVE FALSE
    BY <1>2
  <2>2. d * t >= d * (q + 1) /\ d * (q + 1) = d * q + d
    BY <1>2, <2>1
  <2> QED BY <1>2, <2>2
<1> QED BY <1>2, <1>3, <1>4 DEF q

LEMMA ShareIsMonotone ==
  ASSUME NEW t \in Nat, NEW e \in Nat, NEW f \in Nat, NEW d \in Nat, d > 0, e <= f
  PROVE  (t * e) \div d \in Nat /\ (t * e) \div d <= (t * f) \div d
<1> DEFINE p == (t * e) \div d
           q == (t * f) \div d
<1>1. t * e \in Nat /\ t * f \in Nat /\ t * e <= t * f
  OBVIOUS
<1>2. p \in Nat /\ d * p <= t * e /\ q \in Nat /\ t * f < d * q + d
  BY <1>1, DivIsFloor
<1> HIDE DEF p, q
<1>3. p <= q
  <2>1. SUFFICES ASSUME p >= q + 1 PROVE FALSE
    BY <1>2
  <2>2. d * p >= d * (q + 1) /\ d * (q + 1) = d * q + d
    BY <1>2, <2>1
  <2>3. d * p \in Nat /\ d * q \in Nat
    BY <1>2
  <2> QED BY <1>1, <1>2, <2>2, <2>3
<1> QED BY <1>2, <1>3 DEF p, q

\* A stream that vests over the period the opener gives it.
Vesting(s) == s \in Streams /\ s.ends = s.starts + Duration

\* What a stream has earned never shrinks.
LEMMA EarnedGrows ==
  ASSUME NEW s, Vesting(s), NEW t \in Nat, NEW u \in Nat, t <= u
  PROVE  Earned(s, t) \in Nat /\ Earned(s, t) <= Earned(s, u)
<1>1. /\ s.total \in Nat /\ s.starts \in Nat /\ s.ends \in Nat
      /\ s.ends - s.starts = Duration /\ Duration \in Nat /\ Duration > 0
  BY SalaryStreamsAssumption DEF Vesting, Streams
<1> DEFINE T == s.total
           e(x) == IF x >= s.ends THEN Duration ELSE x - s.starts
<1>2. ASSUME NEW x \in Nat, x > s.starts
      PROVE  e(x) \in Nat /\ Earned(s, x) = (s.total * e(x)) \div Duration
  <2>1. CASE x >= s.ends
    BY <1>1, <1>2, <2>1, WholeShare DEF Earned
  <2>2. CASE x < s.ends
    BY <1>1, <1>2, <2>2 DEF Earned
  <2> QED BY <1>1, <2>1, <2>2
<1>3. CASE t <= s.starts
  <2>1. Earned(s, t) = 0
    BY <1>3 DEF Earned
  <2>2. CASE u <= s.starts
    BY <2>1, <2>2 DEF Earned
  <2>3. CASE u > s.starts
    <3>1. e(u) \in Nat /\ Earned(s, u) = (s.total * e(u)) \div Duration
      BY <1>2, <2>3
    <3> HIDE DEF e
    <3>2. (s.total * e(u)) \div Duration \in Nat
      BY <1>1, <3>1, ShareIsMonotone
    <3> QED BY <2>1, <3>1, <3>2
  <2> QED BY <1>1, <2>2, <2>3
<1>4. CASE t > s.starts
  <2>1. u > s.starts /\ e(t) <= e(u)
    BY <1>1, <1>4
  <2>2. /\ e(t) \in Nat /\ Earned(s, t) = (s.total * e(t)) \div Duration
        /\ e(u) \in Nat /\ Earned(s, u) = (s.total * e(u)) \div Duration
    BY <1>1, <1>2, <1>4, <2>1
  <2> HIDE DEF e
  <2> QED BY <1>1, <2>1, <2>2, ShareIsMonotone
<1> QED BY <1>1, <1>3, <1>4

\* The browser's accrual is the contract's: both cap at the end of the period,
\* and at the end both pay the whole.
LEMMA AccruedIsEarned ==
  ASSUME NEW s, Vesting(s), NEW t \in Nat
  PROVE  AccruedAt(s, t) = Earned(s, t)
<1>1. /\ s.total \in Nat /\ s.starts \in Nat /\ s.ends \in Nat
      /\ s.ends - s.starts = Duration /\ Duration \in Nat /\ Duration > 0
  BY SalaryStreamsAssumption DEF Vesting, Streams
<1>2. CASE t <= s.starts
  BY <1>1, <1>2 DEF AccruedAt, Earned, Smaller
<1>3. CASE t > s.starts /\ t < s.ends
  BY <1>1, <1>3 DEF AccruedAt, Earned, Smaller
<1>4. CASE t >= s.ends
  <2>1. /\ Smaller(t, s.ends) - s.starts = Duration
        /\ ~(s.ends <= s.starts) /\ ~(Duration <= 0) /\ ~(t <= s.starts)
    BY <1>1, <1>4 DEF Smaller
  <2>2. AccruedAt(s, t) = (s.total * Duration) \div Duration
    BY <1>1, <2>1 DEF AccruedAt
  <2>3. Earned(s, t) = s.total
    BY <1>1, <1>4, <2>1 DEF Earned
  <2> QED BY <1>1, <2>2, <2>3, WholeShare
<1> QED BY <1>1, <1>2, <1>3, <1>4

-----------------------------------------------------------------------------
(* Steps *)

LEMMA Constants ==
  /\ Totals \subseteq Nat /\ Duration \in Nat
  /\ None \notin Openings /\ None \notin Nat
  /\ None \notin Streams /\ None \notin Rows /\ None \notin Views
  BY SalaryStreamsAssumption

LEMMA TotalsNat == ASSUME NEW a \in Totals PROVE a \in Nat
  BY SalaryStreamsAssumption, Zenon

LEMMA EndsNat == ASSUME NEW t \in Nat PROVE t + Duration \in Nat
  BY SalaryStreamsAssumption

\* Every stream on the chain vests over Duration.
LEMMA OpenedVest ==
  ASSUME IInv, NEW o \in Opened
  PROVE  Vesting(opened[o])
<1>1. o \in Openings /\ opened[o] # None /\ opened[o] \in Streams
  BY DEF IInv, TypeOK, Opened
<1> QED BY <1>1 DEF IInv, ChainSound, Vesting

\* What each step leaves of the invariant.
LEMMA LoadCardKeeps ==
  ASSUME IInv, NEW d \in Desks, LoadCard(d)
  PROVE  IInv'
<1> USE Constants DEF cards, requests, chain, balances
<1>1. TypeOK'
  BY DEF IInv, TypeOK, LoadCard, PCs, Outcomes
<1>2. OpeningSound'
  BY DEF IInv, TypeOK, OpeningSound, LoadCard, Opened, Same
<1>3. ChainSound'
  BY DEF IInv, TypeOK, ChainSound, LoadCard, OpeningSound
<1>4. RegistryNamesTheStream'
  BY DEF IInv, TypeOK, RegistryNamesTheStream, LoadCard, Opened, OpeningSound
<1>5. BalanceSound'
  BY DEF IInv, TypeOK, BalanceSound, LoadCard, Opened, OpeningSound
<1> QED BY <1>1, <1>2, <1>3, <1>4, <1>5 DEF IInv

LEMMA CardAnsweredKeeps ==
  ASSUME IInv, NEW d \in Desks, CardAnswered(d)
  PROVE  IInv'
<1> USE Constants DEF cards, requests, chain, balances
<1>1. TypeOK'
  BY DEF IInv, TypeOK, CardAnswered, PCs, Outcomes
<1>2. OpeningSound'
  BY DEF IInv, TypeOK, OpeningSound, CardAnswered, Opened, Same
<1>3. ChainSound'
  BY DEF IInv, TypeOK, ChainSound, CardAnswered, OpeningSound
<1>4. RegistryNamesTheStream'
  BY DEF IInv, TypeOK, RegistryNamesTheStream, CardAnswered, Opened, OpeningSound
<1>5. BalanceSound'
  BY DEF IInv, TypeOK, BalanceSound, CardAnswered, Opened, OpeningSound
<1> QED BY <1>1, <1>2, <1>3, <1>4, <1>5 DEF IInv

LEMMA AskToOpenKeeps ==
  ASSUME IInv, NEW d \in Desks, NEW o \in Openings, NEW amount \in Totals, AskToOpen(d, o, amount)
  PROVE  IInv'
<1> USE Constants DEF cards, requests, chain, balances
<1>1. TypeOK'
  BY DEF IInv, TypeOK, AskToOpen, PCs, Outcomes
<1>2. OpeningSound'
  <2>1. /\ o \notin Opened /\ Opened' = Opened /\ tx' = tx /\ tx[o] = "none"
        /\ stream' = stream /\ pc'[o] = "asked" /\ asked'[o] \in Totals
        /\ \A q \in Openings : q # o => pc'[q] = pc[q] /\ asked'[q] = asked[q]
        /\ starts' = starts /\ based_on' = based_on
    BY DEF IInv, TypeOK, OpeningSound, ChainSound, Opened, AskToOpen
  <2>2. \A q \in Openings, p \in Opened : q # o => (Same(q, p)' <=> Same(q, p))
    BY <2>1 DEF Same, Opened
  <2>3. Opened \subseteq Openings
    BY DEF Opened
  <2> HIDE DEF Opened
  <2> QED BY <2>1, <2>2, <2>3 DEF IInv, OpeningSound, Same
<1>3. ChainSound'
  BY DEF IInv, TypeOK, ChainSound, AskToOpen, OpeningSound
<1>4. RegistryNamesTheStream'
  BY DEF IInv, TypeOK, RegistryNamesTheStream, AskToOpen, Opened, OpeningSound
<1>5. BalanceSound'
  BY DEF IInv, TypeOK, BalanceSound, AskToOpen, Opened, OpeningSound
<1> QED BY <1>1, <1>2, <1>3, <1>4, <1>5 DEF IInv

LEMMA JudgeOpeningKeeps ==
  ASSUME IInv, NEW o \in Openings, JudgeOpening(o)
  PROVE  IInv'
<1> USE Constants DEF cards, requests, chain, balances
<1>1. TypeOK'
  BY DEF IInv, TypeOK, JudgeOpening, GoTo, PCs, Outcomes
<1>2. OpeningSound'
  <2>1. /\ o \notin Opened /\ Opened' = Opened /\ tx' = tx /\ tx[o] = "none"
        /\ stream' = stream /\ asked' = asked /\ asked[o] \in Totals
        /\ pc'[o] \in {"fits", "refused"} /\ (pc'[o] = "fits" => starts'[o] \in Nat)
        /\ \A q \in Openings : q # o => pc'[q] = pc[q] /\ starts'[q] = starts[q]
        /\ based_on' = based_on
    BY DEF IInv, TypeOK, OpeningSound, ChainSound, Opened, JudgeOpening, GoTo
  <2>2. \A q \in Openings, p \in Opened : q # o => (Same(q, p)' <=> Same(q, p))
    BY <2>1 DEF Same, Opened
  <2>3. Opened \subseteq Openings
    BY DEF Opened
  <2> QED BY <2>1, <2>2, <2>3 DEF IInv, OpeningSound, Same
<1>3. ChainSound'
  BY DEF IInv, TypeOK, ChainSound, JudgeOpening, GoTo, OpeningSound
<1>4. RegistryNamesTheStream'
  BY DEF IInv, TypeOK, RegistryNamesTheStream, JudgeOpening, GoTo, Opened, OpeningSound
<1>5. BalanceSound'
  BY DEF IInv, TypeOK, BalanceSound, JudgeOpening, GoTo, Opened, OpeningSound
<1> QED BY <1>1, <1>2, <1>3, <1>4, <1>5 DEF IInv

LEMMA PrepareOpeningKeeps ==
  ASSUME IInv, NEW o \in Openings, PrepareOpening(o)
  PROVE  IInv'
<1> USE Constants DEF cards, requests, chain, balances
<1>1. TypeOK'
  BY DEF IInv, TypeOK, PrepareOpening, GoTo, PCs, Outcomes
<1>2. OpeningSound'
  BY DEF IInv, TypeOK, OpeningSound, PrepareOpening, GoTo, Opened, Same, ChainSound
<1>3. ChainSound'
  BY DEF IInv, TypeOK, ChainSound, PrepareOpening, GoTo, OpeningSound
<1>4. RegistryNamesTheStream'
  BY DEF IInv, TypeOK, RegistryNamesTheStream, PrepareOpening, GoTo, Opened, OpeningSound
<1>5. BalanceSound'
  BY DEF IInv, TypeOK, BalanceSound, PrepareOpening, GoTo, Opened, OpeningSound
<1> QED BY <1>1, <1>2, <1>3, <1>4, <1>5 DEF IInv

LEMMA SubmitOpeningKeeps ==
  ASSUME IInv, NEW o \in Openings, SubmitOpening(o)
  PROVE  IInv'
<1> USE Constants DEF cards, requests, chain, balances
<1>1. TypeOK'
  BY DEF IInv, TypeOK, SubmitOpening, GoTo, PCs, Outcomes
<1>2. OpeningSound'
  BY DEF IInv, TypeOK, OpeningSound, SubmitOpening, GoTo, Opened, Same
<1>3. ChainSound'
  BY DEF IInv, TypeOK, ChainSound, SubmitOpening, GoTo, OpeningSound
<1>4. RegistryNamesTheStream'
  BY DEF IInv, TypeOK, RegistryNamesTheStream, SubmitOpening, GoTo, Opened, OpeningSound
<1>5. BalanceSound'
  BY DEF IInv, TypeOK, BalanceSound, SubmitOpening, GoTo, Opened, OpeningSound
<1> QED BY <1>1, <1>2, <1>3, <1>4, <1>5 DEF IInv

LEMMA LearnOpeningKeeps ==
  ASSUME IInv, NEW o \in Openings, LearnOpening(o)
  PROVE  IInv'
<1> USE Constants DEF cards, requests, chain, balances
<1>1. TypeOK'
  BY DEF IInv, TypeOK, LearnOpening, GoTo, Thrown, PCs, Outcomes
<1>2. OpeningSound'
  BY DEF IInv, TypeOK, OpeningSound, LearnOpening, GoTo, Thrown, Opened, Same, ChainSound
<1>3. ChainSound'
  BY DEF IInv, TypeOK, ChainSound, LearnOpening, GoTo, Thrown, OpeningSound
<1>4. RegistryNamesTheStream'
  BY DEF IInv, TypeOK, RegistryNamesTheStream, LearnOpening, GoTo, Thrown, Opened,
    OpeningSound
<1>5. BalanceSound'
  BY DEF IInv, TypeOK, BalanceSound, LearnOpening, GoTo, Thrown, Opened, OpeningSound
<1> QED BY <1>1, <1>2, <1>3, <1>4, <1>5 DEF IInv

LEMMA IdentifyStreamKeeps ==
  ASSUME IInv, NEW o \in Openings, IdentifyStream(o)
  PROVE  IInv'
<1> USE Constants DEF cards, requests, chain, balances
<1>1. TypeOK'
  <2>1. CreatedStream(o) \in Openings
    BY DEF IInv, OpeningSound, IdentifyStream, CreatedStream, Opened
  <2> QED BY <2>1 DEF IInv, TypeOK, IdentifyStream, GoTo, PCs, Outcomes
<1>2. OpeningSound'
  <2>1. CreatedStream(o) \in Opened /\ Same(o, CreatedStream(o))
    BY DEF IInv, OpeningSound, IdentifyStream, CreatedStream
  <2>2. /\ Opened' = Opened /\ tx' = tx /\ asked' = asked /\ starts' = starts
        /\ \A q, p : Same(q, p)' <=> Same(q, p)
    BY DEF IdentifyStream, Opened, Same
  <2>3. /\ asked[o] \in Totals /\ starts[o] \in Nat /\ tx[o] \in {"none", "sent", "done", "aborted"}
        /\ pc'[o] \in {"identified", "uncertain"}
        /\ pc'[o] = "identified" => stream'[o] = CreatedStream(o)
        /\ \A q \in Openings : q # o => pc'[q] = pc[q] /\ stream'[q] = stream[q]
    BY DEF IInv, TypeOK, OpeningSound, IdentifyStream, GoTo
  <2> DEFINE c == CreatedStream(o)
  <2>4. c \in Opened /\ Same(o, c)
    BY <2>1
  <2>5. pc'[o] = "identified" => stream'[o] = c
    BY <2>3
  <2> HIDE DEF c
  <2>6. pc'[o] = "identified" => stream'[o] \in Opened' /\ Same(o, stream[o])'
    BY <2>2, <2>4, <2>5 DEF Same
  <2> QED BY <2>2, <2>3, <2>6 DEF IInv, OpeningSound, Same
<1>3. ChainSound'
  BY DEF IInv, TypeOK, ChainSound, IdentifyStream, GoTo, OpeningSound
<1>4. RegistryNamesTheStream'
  BY DEF IInv, TypeOK, RegistryNamesTheStream, IdentifyStream, GoTo, Opened, OpeningSound
<1>5. BalanceSound'
  BY DEF IInv, TypeOK, BalanceSound, IdentifyStream, GoTo, Opened, OpeningSound
<1> QED BY <1>1, <1>2, <1>3, <1>4, <1>5 DEF IInv

LEMMA RecordStreamKeeps ==
  ASSUME IInv, NEW o \in Openings, RecordStream(o)
  PROVE  IInv'
<1> USE Constants DEF cards, requests, chain, balances
<1>1. TypeOK'
  <2>a. pc[o] = "identified"
    BY DEF RecordStream
  <2>b. stream[o] \in Openings /\ asked[o] \in Totals /\ starts[o] \in Nat
    BY <2>a DEF IInv, OpeningSound, Opened
  <2>1. /\ stream[o] \in Openings /\ asked[o] \in Nat /\ starts[o] \in Nat
        /\ starts[o] + Duration \in Nat
    BY <2>b, TotalsNat, EndsNat
  <2>2. row' \in Rows \cup {None}
    BY <2>1 DEF IInv, TypeOK, RecordStream, Rows
  <2> QED BY <2>2 DEF IInv, TypeOK, RecordStream, GoTo, PCs, Outcomes
<1>2. OpeningSound'
  BY DEF IInv, TypeOK, OpeningSound, RecordStream, GoTo, Opened, Same
<1>3. ChainSound'
  BY DEF IInv, TypeOK, ChainSound, RecordStream, GoTo, OpeningSound
<1>4. RegistryNamesTheStream'
  <2>1. /\ stream[o] \in Opened /\ stream[o] \in Openings /\ opened[stream[o]] # None
        /\ asked[o] = asked[stream[o]] /\ starts[o] = starts[stream[o]]
    BY DEF IInv, OpeningSound, RecordStream, Opened, Same
  <2>2. /\ opened[stream[o]].total = asked[o] /\ opened[stream[o]].starts = starts[o]
        /\ opened[stream[o]].ends = starts[o] + Duration
    BY <2>1 DEF IInv, ChainSound
  <2>3. opened' = opened /\ Opened' = Opened
    BY DEF RecordStream, Opened
  <2> QED BY <2>1, <2>2, <2>3 DEF IInv, RecordStream, RegistryNamesTheStream
<1>5. BalanceSound'
  BY DEF IInv, TypeOK, BalanceSound, RecordStream, GoTo, Opened, OpeningSound
<1> QED BY <1>1, <1>2, <1>3, <1>4, <1>5 DEF IInv

LEMMA ExecuteOpeningKeeps ==
  ASSUME IInv, NEW o \in Openings, ExecuteOpening(o)
  PROVE  IInv'
<1> USE Constants DEF cards, requests, chain, balances
<1>1. TypeOK'
  <2>a. tx[o] = "sent" /\ version \in Nat
    BY DEF IInv, TypeOK, ExecuteOpening
  <2>b. asked[o] \in Totals /\ starts[o] \in Nat
    BY <2>a DEF IInv, OpeningSound
  <2>1. asked[o] \in Nat /\ starts[o] \in Nat /\ starts[o] + Duration \in Nat /\ version \in Nat
    BY <2>a, <2>b, TotalsNat, EndsNat
  <2>2. [total |-> asked[o], starts |-> starts[o], ends |-> starts[o] + Duration,
         at |-> version] \in Streams
    BY <2>1 DEF Streams
  <2> QED BY <2>1, <2>2 DEF IInv, TypeOK, ExecuteOpening
<1>2. OpeningSound'
  <2>a. tx[o] = "sent"
    BY DEF ExecuteOpening
  <2>b. /\ pc[o] # "refused" /\ pc[o] \notin {"idle", "asked", "fits", "prepared"}
        /\ asked[o] \in Totals /\ starts[o] \in Nat
    BY <2>a DEF IInv, OpeningSound
  <2>c. opened[o] = None
    BY <2>a DEF IInv, ChainSound
  <2>d. /\ pc' = pc /\ asked' = asked /\ starts' = starts
        /\ stream' = stream /\ based_on' = based_on
        /\ \A q \in Openings : q # o => tx'[q] = tx[q] /\ opened'[q] = opened[q]
    BY DEF IInv, TypeOK, ExecuteOpening
  <2>1. Opened \subseteq Opened'
    BY <2>c, <2>d DEF Opened
  <2>2. \A q, p : Same(q, p)' <=> Same(q, p)
    BY <2>d DEF Same
  <2> QED BY <2>b, <2>d, <2>1, <2>2 DEF IInv, OpeningSound, Same
<1>3. ChainSound'
  <2> DEFINE s == [total |-> asked[o], starts |-> starts[o], ends |-> starts[o] + Duration,
                   at |-> version]
  <2>a. tx[o] = "sent" /\ version \in Nat
    BY DEF IInv, TypeOK, ExecuteOpening
  <2>b. asked[o] \in Totals /\ starts[o] \in Nat
    BY <2>a DEF IInv, OpeningSound
  <2>c. asked[o] \in Nat /\ starts[o] + Duration \in Nat
    BY <2>b, TotalsNat, EndsNat
  <2>1. s \in Streams
    BY <2>a, <2>b, <2>c DEF Streams
  <2>2. /\ s.total = asked[o] /\ s.starts = starts[o] /\ s.ends = starts[o] + Duration
        /\ s # None
    BY <2>1
  <2>3. \/ tx' = [tx EXCEPT ![o] = "done"] /\ opened' = [opened EXCEPT ![o] = s]
        \/ tx' = [tx EXCEPT ![o] = "aborted"] /\ opened' = opened
    BY DEF ExecuteOpening
  <2>4. tx[o] = "sent" /\ asked' = asked /\ starts' = starts /\ withdrawn' = withdrawn
    BY DEF ExecuteOpening
  <2> HIDE DEF s
  <2> QED BY <2>2, <2>3, <2>4 DEF IInv, TypeOK, ChainSound
<1>4. RegistryNamesTheStream'
  <2>1. opened[o] = None /\ o \notin Opened /\ Opened \subseteq Opened' /\ row' = row
        /\ \A q \in Opened : opened'[q] = opened[q]
    BY DEF IInv, TypeOK, ChainSound, ExecuteOpening, Opened, Streams
  <2> QED BY <2>1 DEF IInv, RegistryNamesTheStream
<1>5. BalanceSound'
  <2>1. /\ opened[o] = None /\ o \notin Opened /\ Opened \subseteq Opened'
        /\ Opened' \subseteq Opened \cup {o}
        /\ \A q \in Opened : opened'[q] = opened[q]
        /\ withdrawn' = withdrawn /\ now' = now /\ view' = view /\ draw_pc' = draw_pc
        /\ withdrawn[o] = 0 /\ now \in Nat
    BY DEF IInv, TypeOK, ChainSound, ExecuteOpening, Opened, Streams
  <2>2. o \in Opened' => Vesting(opened'[o])
    BY <1>1, <1>3 DEF TypeOK, ChainSound, Opened, Vesting
  <2>3. o \in Opened' => Earned(opened'[o], now) \in Nat
    BY <2>1, <2>2, EarnedGrows
  <2>4. \A q \in Opened' : withdrawn'[q] <= Earned(opened'[q], now')
    BY <2>1, <2>3 DEF IInv, BalanceSound
  <2> QED BY <2>1, <2>4 DEF IInv, BalanceSound
<1> QED BY <1>1, <1>2, <1>3, <1>4, <1>5 DEF IInv

LEMMA ExecuteDrawKeeps ==
  ASSUME IInv, NEW b \in Balances, ExecuteDraw(b)
  PROVE  IInv'
<1> USE Constants DEF cards, requests, chain, balances
<1>1. TypeOK'
  <2> DEFINE i == view[b].id
  <2>1. i \in Opened /\ i \in Openings /\ withdrawn[i] \in Nat /\ now \in Nat
    BY DEF IInv, TypeOK, BalanceSound, ExecuteDraw, Opened
  <2>2. Earned(opened[i], now) \in Nat
    BY <2>1, OpenedVest, EarnedGrows
  <2>3. withdrawn[i] + Payable(i) \in Nat
    BY <2>1, <2>2 DEF Payable
  <2> HIDE DEF i
  <2>4. withdrawn' \in [Openings -> Nat]
    BY <2>1, <2>3 DEF IInv, TypeOK, ExecuteDraw, i
  <2> QED BY <2>4 DEF IInv, TypeOK, ExecuteDraw
<1>2. OpeningSound'
  BY DEF IInv, TypeOK, OpeningSound, ExecuteDraw, Opened, Same
<1>3. ChainSound'
  <2>1. view[b].id \in Opened
    BY DEF IInv, BalanceSound, ExecuteDraw
  <2>2. \A q \in Openings : opened[q] = None => withdrawn'[q] = withdrawn[q]
    BY <2>1 DEF IInv, TypeOK, ExecuteDraw, Opened
  <2> QED BY <2>2 DEF IInv, ChainSound, ExecuteDraw
<1>4. RegistryNamesTheStream'
  BY DEF IInv, TypeOK, RegistryNamesTheStream, ExecuteDraw, Opened, OpeningSound
<1>5. BalanceSound'
  <2> DEFINE i == view[b].id
  <2>1. /\ i \in Opened /\ i \in Openings /\ withdrawn[i] \in Nat /\ now \in Nat
        /\ withdrawn \in [Openings -> Nat]
    BY DEF IInv, TypeOK, BalanceSound, ExecuteDraw, Opened
  <2>2. Earned(opened[i], now) \in Nat /\ withdrawn[i] <= Earned(opened[i], now)
    BY <2>1, OpenedVest, EarnedGrows DEF IInv, BalanceSound
  <2>3. withdrawn[i] + Payable(i) = Earned(opened[i], now)
    BY <2>1, <2>2 DEF Payable
  <2>4. /\ Opened' = Opened /\ opened' = opened /\ now' = now /\ view' = view
        /\ \A c \in Balances : draw_pc'[c] # "idle" => draw_pc[c] # "idle"
    BY DEF IInv, TypeOK, ExecuteDraw, Opened
  <2>5. withdrawn' = withdrawn \/ withdrawn' = [withdrawn EXCEPT ![i] = Earned(opened[i], now)]
    BY <2>3 DEF ExecuteDraw
  <2> HIDE DEF i
  <2>6. /\ \A q \in Opened : withdrawn'[q] <= Earned(opened[q], now)
        /\ \A q \in Openings : withdrawn[q] <= withdrawn'[q] /\ withdrawn[q] \in Nat
    BY <2>1, <2>2, <2>5 DEF IInv, BalanceSound, Opened
  <2>7. \A c \in Balances : view[c] # None =>
          view[c].id \in Opened /\ view[c].withdrawn <= withdrawn'[view[c].id]
    <3> SUFFICES ASSUME NEW c \in Balances, view[c] # None
                 PROVE  view[c].id \in Opened /\ view[c].withdrawn <= withdrawn'[view[c].id]
      OBVIOUS
    <3>1. /\ view[c].id \in Opened /\ view[c].withdrawn <= withdrawn[view[c].id]
          /\ view[c].withdrawn \in Nat /\ view[c].id \in Openings
      BY DEF IInv, TypeOK, BalanceSound, Views, Opened
    <3>2. withdrawn'[view[c].id] \in Nat
      BY <3>1, <1>1 DEF TypeOK
    <3> QED BY <2>6, <3>1, <3>2
  <2>8. \A c \in Balances : draw_pc[c] # "idle" => view[c] # None
    BY DEF IInv, BalanceSound
  <2> QED BY <2>4, <2>6, <2>7, <2>8 DEF BalanceSound
<1> QED BY <1>1, <1>2, <1>3, <1>4, <1>5 DEF IInv

LEMMA TickKeeps ==
  ASSUME IInv, Tick
  PROVE  IInv'
<1> USE Constants DEF cards, requests, chain, balances
<1>1. TypeOK'
  BY DEF IInv, TypeOK, Tick, PCs, Outcomes
<1>2. OpeningSound'
  BY DEF IInv, TypeOK, OpeningSound, Tick, Opened, Same
<1>3. ChainSound'
  BY DEF IInv, TypeOK, ChainSound, Tick, OpeningSound
<1>4. RegistryNamesTheStream'
  BY DEF IInv, TypeOK, RegistryNamesTheStream, Tick, Opened, OpeningSound
<1>5. BalanceSound'
  <2>1. /\ opened' = opened /\ withdrawn' = withdrawn /\ view' = view /\ draw_pc' = draw_pc
        /\ Opened' = Opened /\ now \in Nat /\ now' = now + 1 /\ now' \in Nat
    BY DEF IInv, TypeOK, Tick, Opened
  <2>2. \A q \in Opened : /\ Earned(opened[q], now) \in Nat /\ withdrawn[q] \in Nat
                          /\ Earned(opened[q], now) <= Earned(opened[q], now')
                          /\ Earned(opened[q], now') \in Nat
    BY <2>1, OpenedVest, EarnedGrows DEF IInv, TypeOK, Opened
  <2>3. \A q \in Opened : withdrawn[q] <= Earned(opened[q], now')
    BY <2>2 DEF IInv, BalanceSound
  <2> QED BY <2>1, <2>3 DEF IInv, BalanceSound
<1> QED BY <1>1, <1>2, <1>3, <1>4, <1>5 DEF IInv

LEMMA ReadBalanceKeeps ==
  ASSUME IInv, NEW b \in Balances, ReadBalance(b)
  PROVE  IInv'
<1> USE Constants DEF cards, requests, chain, balances
<1>1. TypeOK'
  <2>1. row.id \in Openings /\ withdrawn[row.id] \in Nat
    BY DEF IInv, TypeOK, ReadBalance, Rows
  <2>2. [id |-> row.id, withdrawn |-> withdrawn[row.id]] \in Views
    BY <2>1 DEF Views
  <2> QED BY <2>2 DEF IInv, TypeOK, ReadBalance
<1>2. OpeningSound'
  BY DEF IInv, TypeOK, OpeningSound, ReadBalance, Opened, Same
<1>3. ChainSound'
  BY DEF IInv, TypeOK, ChainSound, ReadBalance, OpeningSound
<1>4. RegistryNamesTheStream'
  BY DEF IInv, TypeOK, RegistryNamesTheStream, ReadBalance, Opened, OpeningSound
<1>5. BalanceSound'
  <2> DEFINE v == [id |-> row.id, withdrawn |-> withdrawn[row.id]]
  <2>1. /\ row.id \in Opened /\ withdrawn[row.id] \in Nat
        /\ v.id = row.id /\ v.withdrawn = withdrawn[row.id] /\ v # None
    BY DEF IInv, TypeOK, RegistryNamesTheStream, ReadBalance, Rows, Views
  <2>2. /\ opened' = opened /\ withdrawn' = withdrawn /\ draw_pc' = draw_pc
        /\ Opened' = Opened /\ now' = now /\ view' = [view EXCEPT ![b] = v]
    BY DEF ReadBalance, Opened
  <2> HIDE DEF v
  <2>3. \A c \in Balances : view'[c] = IF c = b THEN v ELSE view[c]
    BY <2>2 DEF IInv, TypeOK
  <2>4. v.withdrawn <= withdrawn[v.id]
    BY <2>1
  <2> QED BY <2>1, <2>2, <2>3, <2>4 DEF IInv, BalanceSound
<1> QED BY <1>1, <1>2, <1>3, <1>4, <1>5 DEF IInv

LEMMA AskToWithdrawKeeps ==
  ASSUME IInv, NEW b \in Balances, AskToWithdraw(b)
  PROVE  IInv'
<1> USE Constants DEF cards, requests, chain, balances
<1>1. TypeOK'
  BY DEF IInv, TypeOK, AskToWithdraw, PCs, Outcomes
<1>2. OpeningSound'
  BY DEF IInv, TypeOK, OpeningSound, AskToWithdraw, Opened, Same
<1>3. ChainSound'
  BY DEF IInv, TypeOK, ChainSound, AskToWithdraw, OpeningSound
<1>4. RegistryNamesTheStream'
  BY DEF IInv, TypeOK, RegistryNamesTheStream, AskToWithdraw, Opened, OpeningSound
<1>5. BalanceSound'
  BY DEF IInv, TypeOK, BalanceSound, AskToWithdraw, Opened, OpeningSound
<1> QED BY <1>1, <1>2, <1>3, <1>4, <1>5 DEF IInv

LEMMA SubmitDrawKeeps ==
  ASSUME IInv, NEW b \in Balances, SubmitDraw(b)
  PROVE  IInv'
<1> USE Constants DEF cards, requests, chain, balances
<1>1. TypeOK'
  BY DEF IInv, TypeOK, SubmitDraw, PCs, Outcomes
<1>2. OpeningSound'
  BY DEF IInv, TypeOK, OpeningSound, SubmitDraw, Opened, Same
<1>3. ChainSound'
  BY DEF IInv, TypeOK, ChainSound, SubmitDraw, OpeningSound
<1>4. RegistryNamesTheStream'
  BY DEF IInv, TypeOK, RegistryNamesTheStream, SubmitDraw, Opened, OpeningSound
<1>5. BalanceSound'
  BY DEF IInv, TypeOK, BalanceSound, SubmitDraw, Opened, OpeningSound
<1> QED BY <1>1, <1>2, <1>3, <1>4, <1>5 DEF IInv

LEMMA DrawAnsweredKeeps ==
  ASSUME IInv, NEW b \in Balances, DrawAnswered(b)
  PROVE  IInv'
<1> USE Constants DEF cards, requests, chain, balances
<1>1. TypeOK'
  BY DEF IInv, TypeOK, DrawAnswered, PCs, Outcomes
<1>2. OpeningSound'
  BY DEF IInv, TypeOK, OpeningSound, DrawAnswered, Opened, Same
<1>3. ChainSound'
  BY DEF IInv, TypeOK, ChainSound, DrawAnswered, OpeningSound
<1>4. RegistryNamesTheStream'
  BY DEF IInv, TypeOK, RegistryNamesTheStream, DrawAnswered, Opened, OpeningSound
<1>5. BalanceSound'
  BY DEF IInv, TypeOK, BalanceSound, DrawAnswered, Opened, OpeningSound
<1> QED BY <1>1, <1>2, <1>3, <1>4, <1>5 DEF IInv

-----------------------------------------------------------------------------
LEMMA InitIInv == ASSUME Init PROVE IInv
  BY Constants DEF Init, IInv, TypeOK, PCs, OpeningSound, ChainSound, RegistryNamesTheStream,
     BalanceSound, Opened

LEMMA StepIInv == ASSUME IInv, [Next]_vars PROVE IInv'
<1>1. CASE Opening
  BY <1>1, LoadCardKeeps, CardAnsweredKeeps, AskToOpenKeeps, JudgeOpeningKeeps,
     PrepareOpeningKeeps, SubmitOpeningKeeps, ExecuteOpeningKeeps, LearnOpeningKeeps,
     IdentifyStreamKeeps, RecordStreamKeeps
  DEF Opening
<1>2. CASE Withdrawing
  BY <1>2, ReadBalanceKeeps, AskToWithdrawKeeps, SubmitDrawKeeps, ExecuteDrawKeeps,
     DrawAnsweredKeeps
  DEF Withdrawing
<1>3. CASE Tick
  BY <1>3, TickKeeps
<1>4. CASE UNCHANGED vars
  BY <1>4 DEF IInv, TypeOK, OpeningSound, ChainSound, RegistryNamesTheStream, BalanceSound,
     Opened, Same, vars, cards, requests, chain, balances
<1> QED BY <1>1, <1>2, <1>3, <1>4 DEF Next

THEOREM Invariance == Spec => []IInv
  BY InitIInv, StepIInv, PTL DEF Spec

\* Every variable keeps its type: no field of a stream is read before it is set.
THEOREM TypeCorrect == Spec => []TypeOK
<1>1. IInv => TypeOK
  BY DEF IInv
<1> QED BY <1>1, Invariance, PTL

\* A refusal is a promise that nothing was opened and nothing still can be,
\* however the other openings of the mandate fare.
THEOREM RefusalsAreSafe == Spec => []RefusedOpenedNothing
<1>1. IInv => RefusedOpenedNothing
  BY DEF IInv, OpeningSound, ChainSound, RefusedOpenedNothing
<1> QED BY <1>1, Invariance, PTL

\* The row of a mandate is of a stream on the chain with the row's figures,
\* whichever of two racing openings wrote it.
THEOREM RegistryIsTrue == Spec => []RegistryNamesTheStream
<1>1. IInv => RegistryNamesTheStream
  BY DEF IInv
<1> QED BY <1>1, Invariance, PTL

\* For every stream, every moment and whatever the browser's clock reads: a screen
\* is wrong by that clock and by the withdrawals it has not seen, and its
\* arithmetic adds nothing of its own to either.
THEOREM OffersArePayable == Spec => []OfferIsWhatTheContractPays
<1>1. ASSUME IInv PROVE OfferIsWhatTheContractPays
  <2> SUFFICES ASSUME NEW b \in Balances, NEW at \in Readings, view[b] # None
               PROVE  /\ at <= now => Offered(b, at) <= Payable(view[b].id)
                                         + (withdrawn[view[b].id] - view[b].withdrawn)
                      /\ at >= now => Offered(b, at) >= Payable(view[b].id)
    BY DEF OfferIsWhatTheContractPays
  <2> DEFINE s == opened[view[b].id]
             taken == withdrawn[view[b].id]
             earned == Earned(s, now)
             read == Earned(s, at)
  <2>1. /\ view[b].id \in Opened /\ view[b].withdrawn \in Nat /\ taken \in Nat
        /\ view[b].withdrawn <= taken /\ taken <= earned /\ now \in Nat /\ at \in Nat
    BY <1>1, SalaryStreamsAssumption DEF IInv, TypeOK, BalanceSound, Views, Opened
  <2>2. Vesting(s)
    BY <1>1, <2>1, OpenedVest
  <2>3. AccruedAt(s, at) = read /\ read \in Nat /\ earned \in Nat
    BY <2>1, <2>2, AccruedIsEarned, EarnedGrows
  <2>4. /\ at <= now => read <= earned
        /\ at >= now => earned <= read
    BY <2>1, <2>2, EarnedGrows
  <2>5. /\ Offered(b, at) = IF read - view[b].withdrawn > 0 THEN read - view[b].withdrawn ELSE 0
        /\ Payable(view[b].id) = earned - taken
    BY <2>3 DEF Offered, Payable
  <2> HIDE DEF s, taken, earned, read
  <2>6. at <= now => Offered(b, at) <= (earned - taken) + (taken - view[b].withdrawn)
    BY <2>1, <2>3, <2>4, <2>5
  <2>7. at >= now => Offered(b, at) >= earned - taken
    BY <2>1, <2>3, <2>4, <2>5
  <2> QED BY <2>5, <2>6, <2>7 DEF taken
<1> QED BY <1>1, Invariance, PTL
=============================================================================
