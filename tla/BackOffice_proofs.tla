------------------------- MODULE BackOffice_proofs -------------------------
(***************************************************************************)
(* The properties of the set-up, the overtime desk and the payroll desk,   *)
(* for every number of requests, people, forms, queues and amounts.  A     *)
(* behaviour of BackOffice is of one of them, so each has an inductive     *)
(* invariant of its own: SetupInv, OvertimeInv, DeskInv.                   *)
(***************************************************************************)
EXTENDS BackOffice, TLAPS

-----------------------------------------------------------------------------
(* Onboarding.  A registration works on a row some other one may have written *)
(* and that a third may be completing; the invariant says what each knows of  *)
(* the row it works on, and that a row is never unwritten or thinned out.     *)

\* BackOfficeAssumption, in Onboarding's words: None is neither a transaction nor
\* a request, and there is a treasurer.
LEMMA SetupApart ==
  /\ None \notin Fundings /\ None \notin Requests
  /\ \E n \in Nat \ {0} : People = 1..n
  BY BackOfficeAssumption

Stages == {"idle", "verify", "select", "insert", "people", "done", "refused", "over"}
Links == Fundings \cup {None}

SetupTyped ==
  /\ kind \in {"treasury", "payroll"}
  /\ on_tx \in [Windows -> Links] /\ linked \in [Windows -> Links]
  /\ stage \in [Requests -> Stages] /\ digest \in [Requests -> Links]
  /\ on_row \in [Requests -> Requests \cup {None}]
  /\ adds \in [Requests -> People \cup {None}]
  /\ row_tx \in [Requests -> Links] /\ row_people \in [Requests -> SUBSET People]

\* What a registration knows of the row it works on.
RequestSound(q) ==
  /\ stage[q] \in {"idle", "verify", "select", "insert"} => row_tx[q] = None
  /\ stage[q] \in {"select", "people"} => kind = "treasury"
  /\ stage[q] = "people" =>
       /\ on_row[q] \in Requests /\ adds[q] \in People
       /\ digest[q] # None => row_tx[on_row[q]] = digest[q]
       /\ \A p \in People : p < adds[q] => p \in row_people[on_row[q]]
  /\ stage[q] = "done" /\ digest[q] # None =>
       IF kind = "treasury"
       THEN \E r \in ON!Registered(digest[q]) : row_people[r] = People
       ELSE ON!Registered(digest[q]) # {}

\* A payroll is configured once.
OneRow ==
  kind = "payroll" =>
    \A p, q \in Requests : row_tx[p] # None /\ row_tx[p] = row_tx[q] => p = q

\* What a page says is live.
LinkSound(w) ==
  linked[w] # None =>
    IF kind = "treasury"
    THEN \E r \in ON!Registered(linked[w]) : row_people[r] = People
    ELSE ON!Registered(linked[w]) # {}

SetupInv ==
  /\ SetupTyped /\ OneRow
  /\ \A q \in Requests : RequestSound(q)
  /\ \A w \in Windows : LinkSound(w)

\* Rows are written and completed, never the reverse.
Grown ==
  /\ kind' = kind
  /\ \A r \in Requests : row_tx[r] # None => row_tx'[r] = row_tx[r]
  /\ \A r \in Requests : row_people[r] \subseteq row_people'[r]
  /\ row_people' \in [Requests -> SUBSET People]

-----------------------------------------------------------------------------
(* Small facts *)

\* A row of a funding stays a row of it, and complete if it was.
LEMMA GrownRegistered ==
  ASSUME Grown, NEW d, d # None, NEW r \in ON!Registered(d)
  PROVE  r \in ON!Registered(d)' /\ (row_people[r] = People => row_people'[r] = People)
<1>1. r \in Requests /\ row_tx[r] = d /\ row_tx'[r] = d
  BY DEF ON!Registered, Grown
<1>2. row_people[r] = People => row_people'[r] = People
  BY <1>1 DEF Grown
<1> QED BY <1>1, <1>2 DEF ON!Registered

\* A registration that did nothing.
LEMMA RequestFrame ==
  ASSUME Grown, NEW q \in Requests, RequestSound(q),
         stage'[q] = stage[q], digest'[q] = digest[q], on_row'[q] = on_row[q], adds'[q] = adds[q],
         row_tx'[q] = row_tx[q]
  PROVE  RequestSound(q)'
<1>1. stage'[q] \in {"idle", "verify", "select", "insert"} => row_tx'[q] = None
  BY DEF RequestSound
<1>2. stage'[q] \in {"select", "people"} => kind' = "treasury"
  BY DEF RequestSound, Grown
<1>3. stage'[q] = "people" =>
        /\ on_row'[q] \in Requests /\ adds'[q] \in People
        /\ digest'[q] # None => row_tx'[on_row'[q]] = digest'[q]
        /\ \A p \in People : p < adds'[q] => p \in row_people'[on_row'[q]]
  BY DEF RequestSound, Grown
<1>4. ASSUME stage'[q] = "done", digest[q] # None
      PROVE  \E r \in Requests :
               /\ row_tx'[r] = digest[q]
               /\ kind' = "treasury" => row_people'[r] = People
  <2>1. kind' = kind
    BY DEF Grown
  <2>2. PICK r \in ON!Registered(digest[q]) : kind = "treasury" => row_people[r] = People
    BY <1>4 DEF RequestSound
  <2> QED BY <1>4, <2>1, <2>2, GrownRegistered DEF ON!Registered
<1>5. digest'[q] = digest[q]
  OBVIOUS
<1> QED BY <1>1, <1>2, <1>3, <1>4, <1>5 DEF RequestSound, ON!Registered

\* What a page links to stays complete while it only drops its link.
LEMMA LinkFrame ==
  ASSUME Grown, NEW w \in Windows, LinkSound(w), linked'[w] \in {linked[w], None}
  PROVE  LinkSound(w)'
<1> SUFFICES ASSUME linked'[w] # None
             PROVE  IF kind' = "treasury"
                    THEN \E r \in ON!Registered(linked[w])' : row_people'[r] = People
                    ELSE ON!Registered(linked[w])' # {}
  BY DEF LinkSound, ON!Registered
<1>1. kind' = kind
  BY DEF Grown
<1> QED BY <1>1, GrownRegistered DEF LinkSound

\* Only pages and the wallet moved, and what a page may have forgotten.
LEMMA PageFrame ==
  ASSUME SetupInv, UNCHANGED <<kind, stage, digest, on_row, adds, row_tx, row_people>>,
         on_tx' \in [Windows -> Links], linked' \in [Windows -> Links],
         \A w \in Windows : linked'[w] \in {linked[w], None}
  PROVE  SetupInv'
<1> USE DEF SetupInv
<1>1. SetupTyped' /\ OneRow'
  BY DEF SetupTyped, OneRow
<1>2. Grown
  BY DEF Grown, SetupTyped
<1> QED BY <1>1, <1>2, RequestFrame, LinkFrame

\* One registration moved on and wrote nothing.
LEMMA RequestStep ==
  ASSUME SetupInv, NEW q \in Requests, UNCHANGED <<kind, row_tx, row_people>>,
         \A p \in Requests \ {q} : /\ stage'[p] = stage[p] /\ digest'[p] = digest[p]
                                   /\ on_row'[p] = on_row[p] /\ adds'[p] = adds[p],
         RequestSound(q)', SetupTyped',
         \A w \in Windows : linked'[w] \in {linked[w], None} \/ LinkSound(w)'
  PROVE  SetupInv'
<1> USE DEF SetupInv
<1>1. OneRow'
  BY DEF OneRow
<1>2. Grown
  BY DEF Grown, SetupTyped
<1>3. \A p \in Requests : RequestSound(p)'
  BY <1>2, RequestFrame
<1>4. \A w \in Windows : LinkSound(w)'
  BY <1>2, LinkFrame
<1> QED BY <1>1, <1>3, <1>4

-----------------------------------------------------------------------------
(* The start *)

LEMMA SetupInit == ASSUME ON!Init PROVE SetupInv
<1>1. SetupTyped
  BY DEF ON!Init, SetupTyped, Stages, Links
<1>2. OneRow
  BY DEF ON!Init, OneRow
<1>3. \A q \in Requests : RequestSound(q)
  BY DEF ON!Init, RequestSound
<1>4. \A w \in Windows : LinkSound(w)
  BY DEF ON!Init, LinkSound
<1> QED BY <1>1, <1>2, <1>3, <1>4 DEF SetupInv

-----------------------------------------------------------------------------
(* A registration is posted, and is over *)

LEMMA PostKeeps ==
  ASSUME SetupInv, NEW q \in Requests, NEW d \in Links, NEW n, NEW w, NEW how,
         ON!Post(q, d, n, w, how), UNCHANGED <<kind, row_tx, row_people>>,
         on_tx' \in [Windows -> Links], linked' \in [Windows -> Links],
         \A v \in Windows : linked'[v] \in {linked[v], None}
  PROVE  SetupInv'
<1> USE DEF SetupInv
<1>1. /\ stage[q] = "idle" /\ stage' = [stage EXCEPT ![q] = "verify"]
      /\ digest' = [digest EXCEPT ![q] = d] /\ UNCHANGED <<on_row, adds>>
  BY DEF ON!Post, ON!Free
<1>2. SetupTyped'
  BY <1>1 DEF SetupTyped, Stages
<1>3. RequestSound(q)'
  BY <1>1 DEF RequestSound, SetupTyped
<1> QED BY <1>1, <1>2, <1>3, RequestStep DEF SetupTyped

LEMMA OverKeeps ==
  ASSUME SetupInv, NEW q \in Requests, ON!Over(q), UNCHANGED <<kind, row_tx, row_people>>,
         on_tx' \in [Windows -> Links], linked' \in [Windows -> Links],
         \A v \in Windows : linked'[v] \in {linked[v], None} \/ LinkSound(v)'
  PROVE  SetupInv'
<1> USE DEF SetupInv
<1>1. /\ stage' = [stage EXCEPT ![q] = "over"] /\ digest' = [digest EXCEPT ![q] = None]
      /\ on_row' = [on_row EXCEPT ![q] = None] /\ adds' = [adds EXCEPT ![q] = None]
  BY DEF ON!Over, ON!To
<1>2. SetupTyped'
  BY <1>1 DEF SetupTyped, Stages, Links
<1>3. RequestSound(q)'
  BY <1>1 DEF RequestSound, SetupTyped
<1> QED BY <1>1, <1>2, <1>3, RequestStep DEF SetupTyped

LEMMA LostKeeps ==
  ASSUME SetupInv, NEW q \in Requests, ON!Lost(q), UNCHANGED <<kind, row_tx, row_people>>,
         on_tx' \in [Windows -> Links], linked' \in [Windows -> Links],
         \A v \in Windows : linked'[v] \in {linked[v], None}
  PROVE  SetupInv'
<1>1. UNCHANGED <<stage, digest, on_row, adds>>
  BY DEF ON!Lost
<1> QED BY <1>1, PageFrame

\* A page that hears of a registration which is done.
LEMMA DoneIsLive ==
  ASSUME SetupInv, NEW q \in Requests, NEW w \in Windows, stage[q] = "done",
         linked'[w] = digest[q], UNCHANGED <<kind, row_tx, row_people>>
  PROVE  LinkSound(w)'
  BY DEF SetupInv, RequestSound, LinkSound, ON!Registered

-----------------------------------------------------------------------------
(* The server *)

LEMMA VerifyKeeps ==
  ASSUME SetupInv, NEW q \in Requests, ON!VerifyEvent(q) \/ ON!VerifyPayroll(q) PROVE SetupInv'
<1> USE DEF SetupInv
<1>1. /\ stage[q] = "verify"
      /\ \E s \in {"select", "insert", "refused"} :
           stage' = [stage EXCEPT ![q] = s] /\ (s = "select" => kind = "treasury")
      /\ UNCHANGED <<kind, on_tx, linked, digest, on_row, adds, row_tx, row_people>>
  BY DEF ON!VerifyEvent, ON!VerifyPayroll, ON!To, ON!Serving, ON!Kept, ON!screen, ON!rows
<1>2. SetupTyped'
  BY <1>1 DEF SetupTyped, Stages
<1>3. RequestSound(q)'
  BY <1>1 DEF RequestSound, SetupTyped
<1> QED BY <1>1, <1>2, <1>3, RequestStep DEF SetupTyped

LEMMA SelectKeeps ==
  ASSUME SetupInv, NEW q \in Requests, ON!SelectEvent(q) PROVE SetupInv'
<1> USE DEF SetupInv
<1>1. stage[q] = "select"
      /\ UNCHANGED <<kind, on_tx, linked, digest, row_tx, row_people>>
  BY DEF ON!SelectEvent, ON!Serving, ON!Kept, ON!screen, ON!rows
<1>2. \/ /\ \E s \in {"insert", "refused"} : stage' = [stage EXCEPT ![q] = s]
         /\ UNCHANGED <<on_row, adds>>
      \/ \E r \in ON!Registered(digest[q]) :
           /\ stage' = [stage EXCEPT ![q] = "people"]
           /\ on_row' = [on_row EXCEPT ![q] = r] /\ adds' = [adds EXCEPT ![q] = 1]
  BY DEF ON!SelectEvent, ON!Found, ON!EnsureMembers, ON!To
<1>3. CASE \E s \in {"insert", "refused"} :
             stage' = [stage EXCEPT ![q] = s] /\ UNCHANGED <<on_row, adds>>
  <2>1. SetupTyped'
    BY <1>1, <1>3 DEF SetupTyped, Stages
  <2>2. RequestSound(q)'
    BY <1>1, <1>3 DEF RequestSound, SetupTyped
  <2> QED BY <1>1, <1>3, <2>1, <2>2, RequestStep DEF SetupTyped
<1>4. CASE \E r \in ON!Registered(digest[q]) :
             /\ stage' = [stage EXCEPT ![q] = "people"]
             /\ on_row' = [on_row EXCEPT ![q] = r] /\ adds' = [adds EXCEPT ![q] = 1]
  <2>1. PICK r \in ON!Registered(digest[q]) :
          /\ stage' = [stage EXCEPT ![q] = "people"]
          /\ on_row' = [on_row EXCEPT ![q] = r] /\ adds' = [adds EXCEPT ![q] = 1]
    BY <1>4
  <2>2. r \in Requests /\ row_tx[r] = digest[q]
    BY DEF ON!Registered
  <2>3. 1 \in People /\ \A p \in People : ~(p < 1)
    BY SetupApart
  <2>4. SetupTyped'
    BY <1>1, <2>1, <2>2, <2>3 DEF SetupTyped, Stages
  <2>5. kind = "treasury"
    BY <1>1 DEF RequestSound
  <2>6. stage'[q] = "people" /\ on_row'[q] = r /\ adds'[q] = 1 /\ digest' = digest
        /\ row_tx' = row_tx /\ kind' = kind
    BY <1>1, <2>1 DEF SetupTyped
  <2>7. RequestSound(q)'
    BY <2>2, <2>3, <2>5, <2>6 DEF RequestSound
  <2> QED BY <1>1, <2>1, <2>4, <2>7, RequestStep DEF SetupTyped
<1> QED BY <1>2, <1>3, <1>4

LEMMA InsertKeeps ==
  ASSUME SetupInv, NEW q \in Requests, ON!InsertEvent(q) \/ ON!InsertPayroll(q) PROVE SetupInv'
<1> USE DEF SetupInv
<1>1. stage[q] = "insert" /\ row_tx[q] = None
      /\ UNCHANGED <<kind, on_tx, linked, digest, row_people>>
  <2>1. stage[q] = "insert"
        /\ UNCHANGED <<kind, on_tx, linked, digest, row_people>>
    BY DEF ON!InsertEvent, ON!InsertPayroll, ON!Serving, ON!Kept, ON!screen, ON!Write, ON!rows
  <2> QED BY <2>1 DEF RequestSound
<1>2. row_tx' = [row_tx EXCEPT ![q] = digest[q]] \/ row_tx' = row_tx
  BY DEF ON!InsertEvent, ON!InsertPayroll, ON!Write, ON!rows
<1>3. Grown
  BY <1>1, <1>2 DEF Grown, SetupTyped
<1>4. \A w \in Windows : LinkSound(w)'
  BY <1>1, <1>3, LinkFrame
<1>5. \A p \in Requests \ {q} : row_tx'[p] = row_tx[p]
  BY <1>2 DEF SetupTyped
<1>6. ASSUME ON!InsertEvent(q) PROVE SetupInv'
  <2>1. /\ kind = "treasury" /\ row_tx' = [row_tx EXCEPT ![q] = digest[q]]
        /\ stage' = [stage EXCEPT ![q] = "people"]
        /\ on_row' = [on_row EXCEPT ![q] = q] /\ adds' = [adds EXCEPT ![q] = 1]
    BY <1>6 DEF ON!InsertEvent, ON!Write, ON!EnsureMembers, ON!To
  <2>2. 1 \in People /\ \A p \in People : ~(p < 1)
    BY SetupApart
  <2>3. SetupTyped'
    BY <1>1, <2>1, <2>2 DEF SetupTyped, Stages
  <2>4. OneRow'
    BY <1>1, <2>1 DEF OneRow
  <2>5. stage'[q] = "people" /\ on_row'[q] = q /\ adds'[q] = 1 /\ row_tx'[q] = digest'[q]
    BY <1>1, <2>1 DEF SetupTyped
  <2>6. RequestSound(q)'
    BY <1>1, <2>1, <2>2, <2>5 DEF RequestSound
  <2>7. \A p \in Requests \ {q} : RequestSound(p)'
    BY <1>1, <1>3, <1>5, <2>1, RequestFrame DEF SetupTyped
  <2> QED BY <1>4, <2>3, <2>4, <2>6, <2>7
<1>7. ASSUME ON!InsertPayroll(q) PROVE SetupInv'
  <2>1. /\ kind = "payroll" /\ stage' = [stage EXCEPT ![q] = "done"]
        /\ UNCHANGED <<on_row, adds>>
        /\ \/ ON!Registered(digest[q]) = {} /\ row_tx' = [row_tx EXCEPT ![q] = digest[q]]
           \/ ON!Registered(digest[q]) # {} /\ row_tx' = row_tx
    BY <1>7 DEF ON!InsertPayroll, ON!Write, ON!To, ON!rows
  <2>2. SetupTyped'
    BY <1>1, <2>1 DEF SetupTyped, Stages
  <2>3. OneRow'
    <3>1. CASE row_tx' = row_tx
      BY <1>1, <3>1 DEF OneRow
    <3>2. CASE ON!Registered(digest[q]) = {} /\ row_tx' = [row_tx EXCEPT ![q] = digest[q]]
      <4>1. row_tx'[q] = digest[q] /\ \A p \in Requests : row_tx[p] # digest[q]
        BY <3>2 DEF ON!Registered, SetupTyped
      <4> QED BY <1>1, <1>5, <2>1, <4>1 DEF OneRow
    <3> QED BY <2>1, <3>1, <3>2
  <2>4. ON!Registered(digest[q])' # {}
    <3>1. CASE row_tx' = row_tx /\ ON!Registered(digest[q]) # {}
      BY <1>1, <3>1 DEF ON!Registered
    <3>2. CASE row_tx' = [row_tx EXCEPT ![q] = digest[q]]
      BY <1>1, <3>2 DEF ON!Registered, SetupTyped
    <3> QED BY <2>1, <3>1, <3>2
  <2>5. RequestSound(q)'
    BY <1>1, <2>1, <2>4 DEF RequestSound, SetupTyped
  <2>6. \A p \in Requests \ {q} : RequestSound(p)'
    BY <1>1, <1>3, <1>5, <2>1, RequestFrame DEF SetupTyped
  <2> QED BY <1>4, <2>2, <2>3, <2>5, <2>6
<1> QED BY <1>6, <1>7

\* The last one added completes the roster, whoever added the others.
LEMMA EnsureMemberKeeps ==
  ASSUME SetupInv, NEW q \in Requests, ON!EnsureMember(q) PROVE SetupInv'
<1> USE DEF SetupInv
<1>1. /\ stage[q] = "people" /\ kind = "treasury"
      /\ row_people' = [row_people EXCEPT ![on_row[q]] = @ \cup {adds[q]}]
      /\ UNCHANGED <<kind, on_tx, linked, digest, on_row, row_tx>>
      /\ \/ /\ adds[q] + 1 \in People /\ adds' = [adds EXCEPT ![q] = @ + 1]
            /\ UNCHANGED stage
         \/ /\ adds[q] + 1 \notin People /\ UNCHANGED adds
            /\ stage' = [stage EXCEPT ![q] = "done"]
  <2>1. stage[q] = "people"
    BY DEF ON!EnsureMember
  <2> QED BY <2>1 DEF ON!EnsureMember, ON!To, ON!Serving, ON!Kept, ON!screen, RequestSound
<1>2. /\ on_row[q] \in Requests /\ adds[q] \in People
      /\ digest[q] # None => row_tx[on_row[q]] = digest[q]
      /\ \A p \in People : p < adds[q] => p \in row_people[on_row[q]]
  BY <1>1 DEF RequestSound
<1>3. row_people' \in [Requests -> SUBSET People]
      /\ row_people'[on_row[q]] = row_people[on_row[q]] \cup {adds[q]}
      /\ \A r \in Requests : row_people[r] \subseteq row_people'[r]
  BY <1>1, <1>2 DEF SetupTyped
<1>4. Grown
  BY <1>1, <1>3 DEF Grown
<1>5. SetupTyped'
  <2>1. adds' \in [Requests -> People \cup {None}] /\ stage' \in [Requests -> Stages]
    BY <1>1, <1>2 DEF SetupTyped, Stages
  <2> QED BY <1>1, <1>3, <2>1 DEF SetupTyped
<1>6. OneRow'
  BY <1>1 DEF OneRow
<1>7. \A w \in Windows : LinkSound(w)'
  BY <1>1, <1>4, LinkFrame
<1>8. \A p \in Requests \ {q} : RequestSound(p)'
  BY <1>1, <1>4, RequestFrame DEF SetupTyped
<1>9. RequestSound(q)'
  <2>1. CASE adds[q] + 1 \in People /\ adds' = [adds EXCEPT ![q] = @ + 1] /\ UNCHANGED stage
    <3>1. stage'[q] = "people" /\ adds'[q] = adds[q] + 1
      BY <1>1, <2>1 DEF SetupTyped
    <3>2. \A p \in People : p < adds[q] + 1 => p < adds[q] \/ p = adds[q]
      BY <1>2, SetupApart
    <3>3. \A p \in People : p < adds[q] + 1 => p \in row_people'[on_row[q]]
      BY <1>2, <1>3, <3>2
    <3> QED BY <1>1, <1>2, <2>1, <3>1, <3>3 DEF RequestSound
  <2>2. CASE adds[q] + 1 \notin People /\ stage' = [stage EXCEPT ![q] = "done"]
    <3>1. \A p \in People : p < adds[q] \/ p = adds[q]
      BY <1>2, <2>2, SetupApart
    <3>2. People \subseteq row_people'[on_row[q]]
      BY <1>2, <1>3, <3>1
    <3>3. row_people'[on_row[q]] = People
      BY <1>2, <1>3, <3>2
    <3>4. stage'[q] = "done"
      BY <2>2 DEF SetupTyped
    <3> QED BY <1>1, <1>2, <3>3, <3>4 DEF RequestSound, ON!Registered
  <2> QED BY <1>1, <2>1, <2>2
<1> QED BY <1>5, <1>6, <1>7, <1>8, <1>9

LEMMA FailKeeps ==
  ASSUME SetupInv, NEW q \in Requests, ON!RequestFails(q) \/ ON!Unheard(q) PROVE SetupInv'
<1>1. CASE ON!RequestFails(q)
  <2>1. /\ stage' = [stage EXCEPT ![q] = "refused"]
        /\ UNCHANGED <<kind, on_tx, linked, digest, on_row, adds, row_tx, row_people>>
    BY <1>1 DEF ON!RequestFails, ON!To, ON!Serving, ON!Kept, ON!screen, ON!rows
  <2>2. SetupTyped'
    BY <2>1 DEF SetupInv, SetupTyped, Stages
  <2>3. RequestSound(q)'
    BY <2>1 DEF SetupInv, RequestSound, SetupTyped
  <2> QED BY <2>1, <2>2, <2>3, RequestStep DEF SetupInv, SetupTyped
<1>2. CASE ON!Unheard(q)
  BY <1>2, OverKeeps DEF ON!Unheard, ON!screen, ON!rows, SetupInv, SetupTyped
<1> QED BY <1>1, <1>2

-----------------------------------------------------------------------------
(* The pages *)

LEMMA TreasuryKeeps ==
  ASSUME SetupInv, NEW w \in Windows, ON!TreasurySetup(w) PROVE SetupInv'
<1> USE DEF SetupInv
<1>1. ASSUME NEW n \in Names, ON!EditEvent(w, n) PROVE SetupInv'
  BY <1>1, PageFrame DEF ON!EditEvent, ON!Page, ON!served, ON!rows, SetupTyped
<1>2. ASSUME NEW d \in Fundings, ON!FundEvent(w, d) PROVE SetupInv'
  <2>1. /\ on_tx' = [on_tx EXCEPT ![w] = None] /\ linked' = [linked EXCEPT ![w] = None]
        /\ UNCHANGED <<kind, ON!served, ON!rows>>
    BY <1>2 DEF ON!FundEvent, ON!Turn, ON!Page
  <2> QED BY <2>1, PageFrame DEF SetupTyped, Links, ON!served, ON!rows
<1>3. ASSUME NEW q \in Requests, NEW d \in Links, NEW n, ON!RegisterEvent(w, q, d, n), ON!Page
      PROVE  SetupInv'
  <2>1. /\ ON!Post(q, d, n, w, "event")
        /\ on_tx' = [on_tx EXCEPT ![w] = d] /\ linked' = [linked EXCEPT ![w] = None]
        /\ UNCHANGED <<kind, row_tx, row_people>>
    BY <1>3 DEF ON!RegisterEvent, ON!Turn, ON!Page, ON!rows
  <2> QED BY <2>1, PostKeeps DEF SetupTyped, Links
<1>4. ASSUME NEW d \in Fundings, ON!EventSigned(w, d) PROVE SetupInv'
  <2>1. CASE \E q \in Requests : ON!RegisterEvent(w, q, d, asked_as[d])
    BY <1>3, <1>4, <2>1 DEF ON!EventSigned, Links
  <2>2. CASE \E x \in Links : \E s : ON!Turn(w, s, x, None) /\ UNCHANGED ON!served
    <3>1. PICK x \in Links : /\ on_tx' = [on_tx EXCEPT ![w] = x]
                             /\ linked' = [linked EXCEPT ![w] = None]
                             /\ UNCHANGED ON!served
      BY <2>2 DEF ON!Turn
    <3>2. UNCHANGED <<kind, ON!rows>>
      BY <1>4 DEF ON!EventSigned, ON!Page
    <3> QED BY <3>1, <3>2, PageFrame DEF SetupTyped, Links, ON!served, ON!rows
  <2> QED BY <1>4, <2>1, <2>2 DEF ON!EventSigned, Links
<1>5. ASSUME ON!RetryEvent(w) PROVE SetupInv'
  BY <1>3, <1>5 DEF ON!RetryEvent, SetupTyped
<1>6. ASSUME NEW d \in Fundings, ON!FinishEvent(w, d) PROVE SetupInv'
  BY <1>3, <1>6 DEF ON!FinishEvent, Links
<1>7. ASSUME NEW q \in Requests, ON!EventAnswered(w, q) PROVE SetupInv'
  <2>0. UNCHANGED <<kind, row_tx, row_people>>
    BY <1>7 DEF ON!EventAnswered, ON!Page, ON!rows
  <2>1. CASE stage[q] = "done" /\ ON!Over(q) /\ ON!Turn(w, "registered", digest[q], digest[q])
    <3>1. on_tx' = [on_tx EXCEPT ![w] = digest[q]] /\ linked' = [linked EXCEPT ![w] = digest[q]]
      BY <2>1 DEF ON!Turn
    <3>2. LinkSound(w)'
      BY <2>0, <2>1, <3>1, DoneIsLive DEF SetupTyped
    <3>3. \A v \in Windows : v # w => linked'[v] = linked[v]
      BY <3>1 DEF SetupTyped
    <3> QED BY <2>0, <2>1, <3>1, <3>2, <3>3, OverKeeps DEF SetupTyped
  <2>2. CASE /\ ON!Over(q) \/ ON!Lost(q)
             /\ ON!Turn(w, "funded", digest[q], None)
    <3>1. on_tx' = [on_tx EXCEPT ![w] = digest[q]] /\ linked' = [linked EXCEPT ![w] = None]
      BY <2>2 DEF ON!Turn
    <3> QED BY <2>0, <2>2, <3>1, OverKeeps, LostKeeps DEF SetupTyped, Links
  <2> QED BY <1>7, <2>1, <2>2 DEF ON!EventAnswered
<1> QED BY <1>1, <1>2, <1>4, <1>5, <1>6, <1>7 DEF ON!TreasurySetup

LEMMA PayrollKeeps ==
  ASSUME SetupInv, NEW w \in Windows, ON!PayrollSetup(w) PROVE SetupInv'
<1> USE DEF SetupInv
<1>1. ASSUME ON!EditPayroll(w) \/ ON!PreviewAnswered(w) PROVE SetupInv'
  BY <1>1, PageFrame DEF ON!EditPayroll, ON!PreviewAnswered, ON!Page, ON!served, ON!rows, SetupTyped
<1>2. ASSUME ON!AskPreview(w) PROVE SetupInv'
  <2>1. /\ on_tx' = [on_tx EXCEPT ![w] = None] /\ linked' = [linked EXCEPT ![w] = None]
        /\ UNCHANGED <<kind, ON!served, ON!rows>>
    BY <1>2 DEF ON!AskPreview, ON!Turn, ON!Page
  <2> QED BY <2>1, PageFrame DEF SetupTyped, Links, ON!served, ON!rows
<1>3. ASSUME NEW d \in Fundings, ON!FundPayroll(w, d) PROVE SetupInv'
  BY <1>3, PageFrame DEF ON!FundPayroll, ON!Page, ON!served, ON!rows, SetupTyped
<1>4. ASSUME NEW d \in Fundings, ON!PayrollSigned(w, d) PROVE SetupInv'
  <2>0. UNCHANGED <<kind, row_tx, row_people>>
    BY <1>4 DEF ON!PayrollSigned, ON!Page, ON!rows
  <2>1. CASE /\ \E q \in Requests : ON!Post(q, d, None, w, "create")
             /\ ON!Turn(w, "verifying", d, linked[w])
    <3>1. on_tx' = [on_tx EXCEPT ![w] = d] /\ linked' = linked
      BY <2>1 DEF ON!Turn, SetupTyped
    <3> QED BY <2>0, <2>1, <3>1, PostKeeps DEF SetupTyped, Links
  <2>2. CASE UNCHANGED <<on_tx, linked, ON!served>>
    BY <2>0, <2>2, PageFrame DEF SetupTyped, ON!served
  <2> QED BY <1>4, <2>1, <2>2 DEF ON!PayrollSigned
<1>5. ASSUME ON!RetryPayroll(w) PROVE SetupInv'
  <2>1. /\ \E q \in Requests : ON!Post(q, on_tx[w], None, w, "retry")
        /\ UNCHANGED <<on_tx, linked, kind, row_tx, row_people>>
    BY <1>5 DEF ON!RetryPayroll, ON!Page, ON!screen, ON!rows
  <2> QED BY <2>1, PostKeeps DEF SetupTyped
<1>6. ASSUME NEW d \in Fundings, ON!LinkPayroll(w, d) PROVE SetupInv'
  <2>1. /\ \E q \in Requests : ON!Post(q, d, None, w, "link")
        /\ on_tx' = [on_tx EXCEPT ![w] = on_tx[w]] /\ linked' = [linked EXCEPT ![w] = None]
        /\ UNCHANGED <<kind, row_tx, row_people>>
    BY <1>6 DEF ON!LinkPayroll, ON!Turn, ON!Page, ON!rows
  <2> QED BY <2>1, PostKeeps DEF SetupTyped, Links
<1>7. ASSUME NEW q \in Requests, ON!PayrollAnswered(w, q) PROVE SetupInv'
  <2>0. UNCHANGED <<kind, row_tx, row_people>>
    BY <1>7 DEF ON!PayrollAnswered, ON!Page, ON!rows
  <2>1. CASE /\ stage[q] = "done" /\ ON!Over(q)
             /\ ON!Turn(w, "registered", IF via[q] = "link" THEN digest[q] ELSE on_tx[w], digest[q])
    <3>1. linked' = [linked EXCEPT ![w] = digest[q]]
          /\ \E x \in Links : on_tx' = [on_tx EXCEPT ![w] = x]
      BY <2>1 DEF ON!Turn, SetupTyped
    <3>2. LinkSound(w)'
      BY <2>0, <2>1, <3>1, DoneIsLive DEF SetupTyped
    <3>3. \A v \in Windows : v # w => linked'[v] = linked[v]
      BY <3>1 DEF SetupTyped
    <3> QED BY <2>0, <2>1, <3>1, <3>2, <3>3, OverKeeps DEF SetupTyped
  <2>2. CASE (ON!Over(q) \/ ON!Lost(q)) /\ UNCHANGED <<on_tx, linked>>
    BY <2>0, <2>2, OverKeeps, LostKeeps DEF SetupTyped
  <2> QED BY <1>7, <2>1, <2>2 DEF ON!PayrollAnswered
<1> QED BY <1>1, <1>2, <1>3, <1>4, <1>5, <1>6, <1>7 DEF ON!PayrollSetup

LEMMA LeaveKeeps ==
  ASSUME SetupInv, NEW w \in Windows, ON!Leave(w) PROVE SetupInv'
<1>1. /\ on_tx' = [on_tx EXCEPT ![w] = None] /\ linked' = [linked EXCEPT ![w] = None]
      /\ UNCHANGED <<kind, stage, digest, on_row, adds, row_tx, row_people>>
  BY DEF ON!Leave, ON!Turn, ON!rows
<1> QED BY <1>1, PageFrame DEF SetupInv, SetupTyped, Links

LEMMA WalletKeeps ==
  ASSUME SetupInv, NEW d \in Fundings, ON!WalletActs(d) \/ ON!LeftBehind(d) PROVE SetupInv'
<1>1. CASE ON!WalletActs(d)
  BY <1>1, PageFrame DEF ON!WalletActs, SetupInv, SetupTyped, ON!screen, ON!served, ON!rows
<1>2. CASE ON!LeftBehind(d)
  <2>1. /\ \E q \in Requests : ON!Post(q, d, asked_as[d], None, None)
        /\ UNCHANGED <<on_tx, linked, kind, row_tx, row_people>>
    BY <1>2 DEF ON!LeftBehind, ON!Page, ON!screen, ON!rows
  <2> QED BY <2>1, PostKeeps DEF SetupInv, SetupTyped, Links
<1> QED BY <1>1, <1>2

LEMMA SetupStep == ASSUME SetupInv, [ON!Next]_ON!vars PROVE SetupInv'
<1>1. ASSUME NEW q \in Requests, ON!Server(q) PROVE SetupInv'
  BY <1>1, VerifyKeeps, SelectKeeps, InsertKeeps, EnsureMemberKeeps, FailKeeps DEF ON!Server
<1>2. CASE UNCHANGED ON!vars
  BY <1>2, PageFrame DEF ON!vars, ON!screen, ON!served, ON!rows, SetupInv, SetupTyped
<1> QED BY <1>1, <1>2, TreasuryKeeps, PayrollKeeps, LeaveKeeps, WalletKeeps DEF ON!Next

-----------------------------------------------------------------------------
(* What SetupInv leaves out: that only funded transactions are registered or  *)
(* shown, and that one event alone is written unless two requests raced.  The *)
(* steps matter to it in few ways, so each is first reduced to those.         *)

Late == {"select", "insert", "people", "done"}

FundsSound ==
  /\ funds \in [Fundings -> {"none", "asked", "aborted", "declined", "treasury", "payroll"}]
  /\ \A q \in Requests : stage[q] \in Late /\ digest[q] # None => ON!Supported(digest[q])
  /\ \A w \in Windows : linked[w] # None => ON!Supported(linked[w])
  /\ kind = "payroll" => \A w \in Windows : on_tx[w] # None => ON!Supported(on_tx[w])

\* A request about to write the event of a transaction that has not been raced
\* for is the only one, and there is no event yet; and there is at most one.
RaceSound ==
  /\ \A p, q \in Requests :
       stage[p] = "insert" /\ stage[q] = "insert" /\ digest[p] = digest[q]
       /\ digest[q] \notin raced => p = q
  /\ \A p, q \in Requests :
       stage[p] = "insert" /\ row_tx[q] = digest[p] => digest[p] \in raced \cup {None}
  /\ \A p, q \in Requests :
       row_tx[p] # None /\ row_tx[p] = row_tx[q] /\ row_tx[q] \notin raced => p = q

SetupFacts == FundsSound /\ (kind = "treasury" => RaceSound)

\* Of a step: what was funded stays so, a page names what it named, what was
\* funded or what a request that is done had verified, ...
PagesMove ==
  /\ kind' = kind
  /\ funds' \in [Fundings -> {"none", "asked", "aborted", "declined", "treasury", "payroll"}]
  /\ \A d \in Fundings : funds[d] = kind => funds'[d] = kind
  /\ \A w \in Windows :
       \/ linked'[w] \in {linked[w], None}
       \/ \E q \in Requests : stage[q] = "done" /\ linked'[w] = digest[q]
  /\ kind = "payroll" =>
       \A w \in Windows :
         \/ on_tx'[w] \in {on_tx[w], None}
         \/ \E d \in Fundings : funds[d] = kind /\ on_tx'[w] = d
         \/ \E q \in Requests : stage[q] = "done" /\ on_tx'[w] = digest[q]

\* ... and a request goes on only with what it has verified, ...
RequestsMove ==
  \A q \in Requests : stage'[q] \in Late =>
    digest'[q] = digest[q] /\ (stage[q] \in Late \/ ON!Supported(digest[q]))

\* ... and is about to write only where it was already, and writes nothing.
NoneWrites ==
  /\ kind' = kind /\ UNCHANGED <<row_tx, raced>>
  /\ \A q \in Requests : stage'[q] = "insert" => stage[q] = "insert" /\ digest'[q] = digest[q]

LEMMA FundsStaySound ==
  ASSUME SetupInv, SetupTyped', FundsSound, PagesMove, RequestsMove
  PROVE  FundsSound'
<1>1. kind' = kind /\ \A d \in Fundings : funds[d] = kind => funds'[d] = kind'
  BY DEF PagesMove
<1>2. ASSUME NEW q \in Requests, stage'[q] \in Late, digest'[q] # None
      PROVE  funds'[digest'[q]] = kind'
  <2>1. digest'[q] = digest[q] /\ digest[q] \in Fundings
    BY <1>2 DEF RequestsMove, SetupTyped, Links
  <2>2. funds[digest[q]] = kind
    BY <1>2, <2>1 DEF RequestsMove, FundsSound, ON!Supported
  <2> QED BY <1>1, <2>1, <2>2
<1>3. ASSUME NEW w \in Windows, linked'[w] # None
      PROVE  funds'[linked'[w]] = kind'
  <2>1. linked'[w] \in Fundings
    BY <1>3 DEF SetupTyped, Links
  <2>2. funds[linked'[w]] = kind
    BY <1>3 DEF PagesMove, FundsSound, Late, ON!Supported
  <2> QED BY <2>1, <2>2, <1>1
<1>4. ASSUME kind' = "payroll", NEW w \in Windows, on_tx'[w] # None
      PROVE  funds'[on_tx'[w]] = kind'
  <2>1. on_tx'[w] \in Fundings
    BY <1>4 DEF SetupTyped, Links
  <2>2. funds[on_tx'[w]] = kind
    BY <1>4 DEF PagesMove, FundsSound, Late, ON!Supported
  <2> QED BY <2>1, <2>2, <1>1
<1>5. funds' \in [Fundings -> {"none", "asked", "aborted", "declined", "treasury", "payroll"}]
  BY DEF PagesMove
<1> QED BY <1>2, <1>3, <1>4, <1>5 DEF FundsSound, ON!Supported

LEMMA RacesStaySound ==
  ASSUME RaceSound, NoneWrites PROVE RaceSound'
  BY DEF RaceSound, NoneWrites

\* A registration that is posted, over or lost to its page moves on with nothing
\* verified and writes nothing.
LEMMA CallsMove ==
  ASSUME SetupInv, kind' = kind, UNCHANGED ON!rows,
         \/ UNCHANGED ON!served
         \/ \E q \in Requests : ON!Over(q) \/ ON!Lost(q)
         \/ \E q \in Requests, d \in Links : \E n, w, how : ON!Post(q, d, n, w, how)
  PROVE  RequestsMove /\ NoneWrites
<1> USE DEF SetupInv, SetupTyped
<1>0. UNCHANGED <<row_tx, raced>>
  BY DEF ON!rows
<1>1. CASE UNCHANGED <<stage, digest>>
  BY <1>0, <1>1 DEF RequestsMove, NoneWrites, Late
<1>2. ASSUME NEW q \in Requests, ON!Over(q) PROVE RequestsMove /\ NoneWrites
  <2>1. stage' = [stage EXCEPT ![q] = "over"] /\ digest' = [digest EXCEPT ![q] = None]
    BY <1>2 DEF ON!Over, ON!To
  <2> QED BY <1>0, <2>1 DEF RequestsMove, NoneWrites, Late
<1>3. ASSUME NEW q \in Requests, NEW d \in Links, NEW n, NEW w, NEW how,
             ON!Post(q, d, n, w, how)
      PROVE  RequestsMove /\ NoneWrites
  <2>1. stage' = [stage EXCEPT ![q] = "verify"] /\ digest' = [digest EXCEPT ![q] = d]
    BY <1>3 DEF ON!Post
  <2> QED BY <1>0, <2>1 DEF RequestsMove, NoneWrites, Late
<1> QED BY <1>1, <1>2, <1>3 DEF ON!served, ON!Lost

\* A page and what it shows, by what its step does to them.
LEMMA PageMoves ==
  ASSUME SetupInv, FundsSound, kind' = kind, NEW w \in Windows, NEW d \in Links, NEW l \in Links,
         \/ UNCHANGED funds
         \/ \E e \in Fundings : funds[e] = "none" /\ funds' = [funds EXCEPT ![e] = "asked"],
         on_tx' = [on_tx EXCEPT ![w] = d], linked' = [linked EXCEPT ![w] = l],
         l \in {linked[w], None} \/ \E q \in Requests : stage[q] = "done" /\ l = digest[q],
         kind = "payroll" =>
           \/ d \in {on_tx[w], None}
           \/ d \in Fundings /\ funds[d] = kind
           \/ \E q \in Requests : stage[q] = "done" /\ d = digest[q]
  PROVE  PagesMove
<1> USE DEF SetupInv, SetupTyped
<1>1. /\ funds' \in [Fundings -> {"none", "asked", "aborted", "declined", "treasury", "payroll"}]
      /\ \A e \in Fundings : funds[e] = kind => funds'[e] = kind
  BY DEF FundsSound
<1>2. \A v \in Windows : \/ linked'[v] \in {linked[v], None}
                         \/ \E q \in Requests : stage[q] = "done" /\ linked'[v] = digest[q]
  OBVIOUS
<1>3. ASSUME kind = "payroll", NEW v \in Windows
      PROVE  \/ on_tx'[v] \in {on_tx[v], None}
             \/ \E e \in Fundings : funds[e] = kind /\ on_tx'[v] = e
             \/ \E q \in Requests : stage[q] = "done" /\ on_tx'[v] = digest[q]
  <2>1. on_tx'[v] = (IF v = w THEN d ELSE on_tx[v])
    OBVIOUS
  <2> QED BY <1>3, <2>1
<1> QED BY <1>1, <1>2, <1>3 DEF PagesMove

LEMMA TreasuryMoves ==
  ASSUME SetupInv, FundsSound, NEW w \in Windows, ON!TreasurySetup(w)
  PROVE  PagesMove /\ RequestsMove /\ NoneWrites
<1>0. SetupTyped /\ None \in Links
  BY DEF SetupInv, Links
<1>1. kind = "treasury" /\ kind' = kind /\ UNCHANGED ON!rows
  BY DEF ON!TreasurySetup, ON!EditEvent, ON!FundEvent, ON!EventSigned, ON!RetryEvent,
         ON!FinishEvent, ON!EventAnswered, ON!Page
<1>2. ASSUME NEW n \in Names, ON!EditEvent(w, n) PROVE PagesMove /\ RequestsMove /\ NoneWrites
  <2>1. UNCHANGED <<on_tx, linked, funds>> /\ UNCHANGED ON!served
    BY <1>2 DEF ON!EditEvent, ON!wallet
  <2>2. PagesMove
    BY <1>1, <2>1 DEF PagesMove, FundsSound
  <2> QED BY <1>1, <2>1, <2>2, CallsMove
<1>3. ASSUME NEW d \in Fundings, ON!FundEvent(w, d) PROVE PagesMove /\ RequestsMove /\ NoneWrites
  <2>1. /\ funds[d] = "none" /\ funds' = [funds EXCEPT ![d] = "asked"]
        /\ on_tx' = [on_tx EXCEPT ![w] = None] /\ linked' = [linked EXCEPT ![w] = None]
        /\ UNCHANGED ON!served
    BY <1>3 DEF ON!FundEvent, ON!Turn, ON!AskWallet
  <2>2. PagesMove
    BY <1>0, <1>1, <2>1, PageMoves
  <2> QED BY <1>1, <2>1, <2>2, CallsMove
<1>4. ASSUME NEW x \in Links, NEW l \in Links, UNCHANGED funds,
             on_tx' = [on_tx EXCEPT ![w] = x], linked' = [linked EXCEPT ![w] = l],
             l = None \/ \E q \in Requests : stage[q] = "done" /\ l = digest[q],
             \/ UNCHANGED ON!served
             \/ \E q \in Requests : ON!Over(q) \/ ON!Lost(q)
             \/ \E q \in Requests, d \in Links : \E n, v, how : ON!Post(q, d, n, v, how)
      PROVE  PagesMove /\ RequestsMove /\ NoneWrites
  <2>1. PagesMove
    BY <1>1, <1>4, PageMoves
  <2>2. RequestsMove /\ NoneWrites
    BY <1>1, <1>4, CallsMove
  <2> QED BY <2>1, <2>2
<1>5. ASSUME NEW d \in Links, NEW n, UNCHANGED funds,
             \E q \in Requests : ON!RegisterEvent(w, q, d, n)
      PROVE  PagesMove /\ RequestsMove /\ NoneWrites
  <2>1. /\ on_tx' = [on_tx EXCEPT ![w] = d] /\ linked' = [linked EXCEPT ![w] = None]
        /\ \E q \in Requests, e \in Links : \E m, v, how : ON!Post(q, e, m, v, how)
    BY <1>5 DEF ON!RegisterEvent, ON!Turn
  <2> QED BY <1>0, <1>4, <1>5, <2>1
<1>6. ASSUME NEW d \in Fundings, ON!EventSigned(w, d)
      PROVE  PagesMove /\ RequestsMove /\ NoneWrites
  <2>1. UNCHANGED funds /\ d \in Links
    BY <1>6 DEF ON!EventSigned, ON!Hears, Links
  <2>2. CASE \E q \in Requests : ON!RegisterEvent(w, q, d, asked_as[d])
    BY <1>5, <2>1, <2>2
  <2>3. CASE \E x \in {d, None} : \E s : ON!Turn(w, s, x, None) /\ UNCHANGED ON!served
    <3>1. PICK x \in {d, None} : /\ on_tx' = [on_tx EXCEPT ![w] = x]
                                 /\ linked' = [linked EXCEPT ![w] = None]
                                 /\ UNCHANGED ON!served
      BY <2>3 DEF ON!Turn
    <3>2. x \in Links
      BY <1>0, <2>1
    <3> QED BY <1>0, <1>4, <2>1, <3>1, <3>2
  <2> QED BY <1>6, <2>2, <2>3 DEF ON!EventSigned
<1>7. ASSUME ON!RetryEvent(w) PROVE PagesMove /\ RequestsMove /\ NoneWrites
  BY <1>0, <1>5, <1>7 DEF ON!RetryEvent, ON!wallet, SetupTyped
<1>8. ASSUME NEW d \in Fundings, ON!FinishEvent(w, d)
      PROVE  PagesMove /\ RequestsMove /\ NoneWrites
  BY <1>5, <1>8 DEF ON!FinishEvent, ON!wallet, Links
<1>9. ASSUME NEW q \in Requests, ON!EventAnswered(w, q)
      PROVE  PagesMove /\ RequestsMove /\ NoneWrites
  <2>1. UNCHANGED funds /\ digest[q] \in Links /\ (ON!Over(q) \/ ON!Lost(q))
        /\ \E l \in {None, digest[q]} :
             /\ on_tx' = [on_tx EXCEPT ![w] = digest[q]] /\ linked' = [linked EXCEPT ![w] = l]
             /\ l = None \/ stage[q] = "done"
    BY <1>0, <1>9 DEF ON!EventAnswered, ON!wallet, ON!Turn, SetupTyped
  <2> QED BY <1>0, <1>4, <2>1
<1> QED BY <1>2, <1>3, <1>6, <1>7, <1>8, <1>9 DEF ON!TreasurySetup

LEMMA PayrollMoves ==
  ASSUME SetupInv, FundsSound, NEW w \in Windows, ON!PayrollSetup(w)
  PROVE  PagesMove /\ RequestsMove /\ NoneWrites
<1>0. SetupTyped /\ None \in Links /\ on_tx[w] \in Links /\ linked[w] \in Links
  BY DEF SetupInv, Links, SetupTyped
<1>1. kind' = kind /\ UNCHANGED ON!rows
  BY DEF ON!PayrollSetup, ON!EditPayroll, ON!AskPreview, ON!PreviewAnswered, ON!FundPayroll,
         ON!PayrollSigned, ON!RetryPayroll, ON!LinkPayroll, ON!PayrollAnswered, ON!Page
<1>2. on_tx' = on_tx => on_tx' = [on_tx EXCEPT ![w] = on_tx[w]]
  BY <1>0 DEF SetupTyped
<1>3. linked' = linked => linked' = [linked EXCEPT ![w] = linked[w]]
  BY <1>0 DEF SetupTyped
<1>4. ASSUME NEW d \in Links, NEW l \in Links, UNCHANGED funds,
             on_tx' = [on_tx EXCEPT ![w] = d], linked' = [linked EXCEPT ![w] = l],
             l \in {linked[w], None} \/ \E q \in Requests : stage[q] = "done" /\ l = digest[q],
             \/ d \in {on_tx[w], None}
             \/ d \in Fundings /\ funds[d] = kind
             \/ \E q \in Requests : stage[q] = "done" /\ d = digest[q],
             \/ UNCHANGED ON!served
             \/ \E q \in Requests : ON!Over(q) \/ ON!Lost(q)
             \/ \E q \in Requests, e \in Links : \E n, v, how : ON!Post(q, e, n, v, how)
      PROVE  PagesMove /\ RequestsMove /\ NoneWrites
  <2>1. PagesMove
    BY <1>1, <1>4, PageMoves
  <2>2. RequestsMove /\ NoneWrites
    BY <1>1, <1>4, CallsMove
  <2> QED BY <2>1, <2>2
<1>5. ASSUME ON!EditPayroll(w) \/ ON!PreviewAnswered(w)
      PROVE  PagesMove /\ RequestsMove /\ NoneWrites
  <2>1. UNCHANGED <<on_tx, linked, funds>> /\ UNCHANGED ON!served
    BY <1>5 DEF ON!EditPayroll, ON!PreviewAnswered, ON!wallet
  <2> QED BY <1>0, <1>2, <1>3, <1>4, <2>1
<1>6. ASSUME ON!AskPreview(w) PROVE PagesMove /\ RequestsMove /\ NoneWrites
  <2>1. /\ on_tx' = [on_tx EXCEPT ![w] = None] /\ linked' = [linked EXCEPT ![w] = None]
        /\ UNCHANGED funds /\ UNCHANGED ON!served
    BY <1>6 DEF ON!AskPreview, ON!Turn, ON!wallet
  <2> QED BY <1>0, <1>4, <2>1
<1>7. ASSUME NEW d \in Fundings, ON!FundPayroll(w, d)
      PROVE  PagesMove /\ RequestsMove /\ NoneWrites
  <2>1. /\ funds[d] = "none" /\ funds' = [funds EXCEPT ![d] = "asked"]
        /\ UNCHANGED <<on_tx, linked>> /\ UNCHANGED ON!served
    BY <1>7 DEF ON!FundPayroll, ON!AskWallet
  <2>2. PagesMove
    BY <1>0, <1>1, <1>2, <1>3, <2>1, PageMoves
  <2> QED BY <1>1, <2>1, <2>2, CallsMove
<1>8. ASSUME NEW d \in Fundings, ON!PayrollSigned(w, d)
      PROVE  PagesMove /\ RequestsMove /\ NoneWrites
  <2>1. UNCHANGED funds /\ d \in Links /\ kind = "payroll"
    BY <1>8 DEF ON!PayrollSigned, ON!Hears, Links
  <2>2. CASE /\ funds[d] = "payroll"
             /\ \E q \in Requests : ON!Post(q, d, None, w, "create")
             /\ ON!Turn(w, "verifying", d, linked[w])
    <3>1. /\ on_tx' = [on_tx EXCEPT ![w] = d] /\ linked' = [linked EXCEPT ![w] = linked[w]]
          /\ \E q \in Requests, e \in Links : \E n, v, how : ON!Post(q, e, n, v, how)
      BY <2>1, <2>2 DEF ON!Turn
    <3> QED BY <1>0, <1>4, <2>1, <2>2, <3>1
  <2>3. CASE UNCHANGED <<on_tx, linked>> /\ UNCHANGED ON!served
    BY <1>0, <1>2, <1>3, <1>4, <2>1, <2>3
  <2> QED BY <1>8, <2>2, <2>3 DEF ON!PayrollSigned
<1>9. ASSUME ON!RetryPayroll(w) PROVE PagesMove /\ RequestsMove /\ NoneWrites
  <2>1. /\ UNCHANGED <<on_tx, linked, funds>>
        /\ \E q \in Requests, e \in Links : \E n, v, how : ON!Post(q, e, n, v, how)
    BY <1>0, <1>9 DEF ON!RetryPayroll, ON!screen, ON!wallet
  <2> QED BY <1>0, <1>2, <1>3, <1>4, <2>1
<1>10. ASSUME NEW d \in Fundings, ON!LinkPayroll(w, d)
       PROVE  PagesMove /\ RequestsMove /\ NoneWrites
  <2>1. /\ on_tx' = [on_tx EXCEPT ![w] = on_tx[w]] /\ linked' = [linked EXCEPT ![w] = None]
        /\ UNCHANGED funds
        /\ \E q \in Requests, e \in Links : \E n, v, how : ON!Post(q, e, n, v, how)
    BY <1>10 DEF ON!LinkPayroll, ON!Turn, ON!wallet, Links
  <2> QED BY <1>0, <1>4, <2>1
<1>11. ASSUME NEW q \in Requests, ON!PayrollAnswered(w, q)
       PROVE  PagesMove /\ RequestsMove /\ NoneWrites
  <2>0. UNCHANGED funds /\ digest[q] \in Links
    BY <1>0, <1>11 DEF ON!PayrollAnswered, ON!wallet, SetupTyped
  <2>1. CASE /\ stage[q] = "done" /\ ON!Over(q)
             /\ ON!Turn(w, "registered", IF via[q] = "link" THEN digest[q] ELSE on_tx[w], digest[q])
    <3>1. PICK x \in {digest[q], on_tx[w]} :
            on_tx' = [on_tx EXCEPT ![w] = x] /\ linked' = [linked EXCEPT ![w] = digest[q]]
      BY <2>1 DEF ON!Turn
    <3>2. x \in Links
      BY <1>0, <2>0
    <3> QED BY <1>4, <2>0, <2>1, <3>1, <3>2
  <2>2. CASE (ON!Over(q) \/ ON!Lost(q)) /\ UNCHANGED <<on_tx, linked>>
    BY <1>0, <1>2, <1>3, <1>4, <2>0, <2>2
  <2> QED BY <1>11, <2>1, <2>2 DEF ON!PayrollAnswered
<1> QED BY <1>5, <1>6, <1>7, <1>8, <1>9, <1>10, <1>11 DEF ON!PayrollSetup

LEMMA LeaveMoves ==
  ASSUME SetupInv, FundsSound, NEW w \in Windows, ON!Leave(w)
  PROVE  PagesMove /\ RequestsMove /\ NoneWrites
<1>1. /\ on_tx' = [on_tx EXCEPT ![w] = None] /\ linked' = [linked EXCEPT ![w] = None]
      /\ UNCHANGED <<kind, funds, stage, digest>> /\ UNCHANGED ON!rows /\ None \in Links
  BY DEF ON!Leave, ON!Turn, Links
<1>2. PagesMove
  BY <1>1, PageMoves
<1>3. RequestsMove /\ NoneWrites
  BY <1>1 DEF RequestsMove, NoneWrites, ON!rows
<1> QED BY <1>2, <1>3

LEMMA WalletMoves ==
  ASSUME SetupInv, FundsSound, NEW d \in Fundings, ON!WalletActs(d) \/ ON!LeftBehind(d)
  PROVE  PagesMove /\ RequestsMove /\ NoneWrites
<1>1. kind' = kind /\ UNCHANGED <<on_tx, linked>> /\ UNCHANGED ON!rows
  BY DEF ON!WalletActs, ON!LeftBehind, ON!screen, ON!Page
<1>2. CASE ON!WalletActs(d)
  <2>1. /\ funds[d] = "asked"
        /\ \E x \in {kind, "aborted", "declined"} : funds' = [funds EXCEPT ![d] = x]
        /\ UNCHANGED ON!served
    BY <1>2 DEF ON!WalletActs
  <2>2. kind \in {"treasury", "payroll"}
    BY DEF SetupInv, SetupTyped
  <2>3. PagesMove
    BY <1>1, <2>1, <2>2 DEF PagesMove, FundsSound
  <2> QED BY <1>1, <2>1, <2>3, CallsMove
<1>3. CASE ON!LeftBehind(d)
  <2>1. /\ UNCHANGED funds
        /\ \E q \in Requests, e \in Links : \E n, v, how : ON!Post(q, e, n, v, how)
    BY <1>3 DEF ON!LeftBehind, ON!Hears, Links
  <2>2. PagesMove
    BY <1>1, <2>1 DEF PagesMove, FundsSound
  <2> QED BY <1>1, <2>1, <2>2, CallsMove
<1> QED BY <1>2, <1>3

LEMMA ServerMoves ==
  ASSUME SetupInv, FundsSound, NEW q \in Requests, ON!Server(q)
  PROVE  /\ PagesMove /\ RequestsMove
         /\ NoneWrites \/ ON!SelectEvent(q) \/ ON!InsertEvent(q) \/ kind = "payroll"
<1> USE DEF SetupInv, SetupTyped
<1>1. kind' = kind /\ UNCHANGED <<on_tx, linked, funds>>
  BY DEF ON!Server, ON!VerifyEvent, ON!SelectEvent, ON!InsertEvent, ON!EnsureMember,
         ON!VerifyPayroll, ON!InsertPayroll, ON!RequestFails, ON!Unheard, ON!Serving, ON!screen,
         ON!wallet
<1>2. PagesMove
  BY <1>1 DEF PagesMove, FundsSound
<1>3. CASE ON!Unheard(q)
  BY <1>1, <1>2, <1>3, CallsMove DEF ON!Unheard
<1>4. CASE ~ON!Unheard(q)
  <2>1. UNCHANGED digest
    BY <1>4 DEF ON!Server, ON!VerifyEvent, ON!SelectEvent, ON!InsertEvent, ON!EnsureMember,
           ON!VerifyPayroll, ON!InsertPayroll, ON!RequestFails, ON!Serving, ON!Kept
  <2>2. \/ UNCHANGED stage
        \/ stage' = [stage EXCEPT ![q] = "refused"]
        \/ /\ stage[q] \in Late \/ ON!Supported(digest[q])
           /\ \E s \in Late : stage' = [stage EXCEPT ![q] = s]
    BY <1>4 DEF ON!Server, ON!VerifyEvent, ON!SelectEvent, ON!InsertEvent, ON!EnsureMember,
           ON!VerifyPayroll, ON!InsertPayroll, ON!RequestFails, ON!Found, ON!EnsureMembers,
           ON!To, Late
  <2>3. RequestsMove
    BY <2>1, <2>2 DEF RequestsMove, Late
  <2>4. ASSUME ~ON!SelectEvent(q), ~ON!InsertEvent(q), kind # "payroll" PROVE NoneWrites
    <3>1. UNCHANGED <<row_tx, raced>>
      BY <1>4, <2>4 DEF ON!Server, ON!VerifyEvent, ON!EnsureMember, ON!VerifyPayroll,
             ON!InsertPayroll, ON!RequestFails, ON!rows
    <3>2. \/ UNCHANGED stage
          \/ \E s \in {"select", "refused", "done"} : stage' = [stage EXCEPT ![q] = s]
      BY <1>4, <2>4 DEF ON!Server, ON!VerifyEvent, ON!EnsureMember, ON!VerifyPayroll,
             ON!InsertPayroll, ON!RequestFails, ON!To
    <3> QED BY <1>1, <2>1, <3>1, <3>2 DEF NoneWrites
  <2> QED BY <1>2, <2>3, <2>4
<1> QED BY <1>3, <1>4

\* A registration that finds no event is the first about to write one, or has
\* raced for it.
LEMMA SelectRaces ==
  ASSUME SetupInv, RaceSound, NEW q \in Requests, ON!SelectEvent(q) PROVE RaceSound'
<1> USE DEF SetupInv, SetupTyped
<1>1. stage[q] = "select" /\ UNCHANGED <<digest, row_tx>>
  BY DEF ON!SelectEvent, ON!Serving, ON!Kept
<1>2. CASE UNCHANGED raced /\ \E s \in {"people", "refused"} : stage' = [stage EXCEPT ![q] = s]
  <2>1. \A p \in Requests : stage'[p] = "insert" => stage[p] = "insert"
    BY <1>2
  <2> QED BY <1>1, <1>2, <2>1 DEF RaceSound
<1>3. CASE /\ ON!Registered(digest[q]) = {} /\ stage' = [stage EXCEPT ![q] = "insert"]
           /\ ON!Races(q)
  <2>1. \A r \in Requests : row_tx[r] # digest[q]
    BY <1>3 DEF ON!Registered
  <2>2. raced \subseteq raced'
    BY <1>3 DEF ON!Races
  <2>3. digest[q] \notin raced' =>
          \A p \in Requests \ {q} : ~(stage[p] = "insert" /\ digest[p] = digest[q])
    BY <1>3 DEF ON!Races
  <2>4. \A p \in Requests \ {q} : stage'[p] = stage[p]
    BY <1>3
  <2>5. ASSUME NEW p \in Requests, NEW r \in Requests, stage'[p] = "insert",
               stage'[r] = "insert", digest'[p] = digest'[r], digest'[r] \notin raced'
        PROVE  p = r
    BY <1>1, <2>2, <2>3, <2>4, <2>5 DEF RaceSound
  <2>6. ASSUME NEW p \in Requests, NEW r \in Requests, stage'[p] = "insert",
               row_tx'[r] = digest'[p]
        PROVE  digest'[p] \in raced' \cup {None}
    BY <1>1, <2>1, <2>2, <2>4, <2>6 DEF RaceSound
  <2>7. ASSUME NEW p \in Requests, NEW r \in Requests, row_tx'[p] # None,
               row_tx'[p] = row_tx'[r], row_tx'[r] \notin raced'
        PROVE  p = r
    BY <1>1, <2>2, <2>7 DEF RaceSound
  <2> QED BY <2>5, <2>6, <2>7 DEF RaceSound
<1> QED BY <1>2, <1>3 DEF ON!SelectEvent, ON!Found, ON!EnsureMembers, ON!To

LEMMA InsertRaces ==
  ASSUME SetupInv, RaceSound, NEW q \in Requests, ON!InsertEvent(q) PROVE RaceSound'
<1> USE DEF SetupInv, SetupTyped
<1>1. /\ stage[q] = "insert" /\ stage' = [stage EXCEPT ![q] = "people"]
      /\ row_tx' = [row_tx EXCEPT ![q] = digest[q]] /\ UNCHANGED <<digest, raced>>
  BY DEF ON!InsertEvent, ON!Write, ON!EnsureMembers, ON!To, ON!Serving, ON!Kept
<1>2. \A p \in Requests : stage'[p] = "insert" => p # q /\ stage[p] = "insert"
  BY <1>1
<1>3. \A p \in Requests : row_tx'[p] = IF p = q THEN digest[q] ELSE row_tx[p]
  BY <1>1
<1>4. ASSUME NEW p \in Requests, NEW r \in Requests, stage'[p] = "insert",
             stage'[r] = "insert", digest'[p] = digest'[r], digest'[r] \notin raced'
      PROVE  p = r
  BY <1>1, <1>2, <1>4 DEF RaceSound
<1>5. ASSUME NEW p \in Requests, NEW r \in Requests, stage'[p] = "insert",
             row_tx'[r] = digest'[p]
      PROVE  digest'[p] \in raced' \cup {None}
  BY <1>1, <1>2, <1>3, <1>5 DEF RaceSound
<1>6. ASSUME NEW p \in Requests, NEW r \in Requests, row_tx'[p] # None,
             row_tx'[p] = row_tx'[r], row_tx'[r] \notin raced'
      PROVE  p = r
  BY <1>1, <1>3, <1>6 DEF RaceSound
<1> QED BY <1>4, <1>5, <1>6 DEF RaceSound

LEMMA SetupFactsInit == ASSUME ON!Init PROVE SetupFacts
<1>1. FundsSound
  BY DEF ON!Init, FundsSound, Late
<1>2. RaceSound
  BY DEF ON!Init, RaceSound
<1> QED BY <1>1, <1>2 DEF SetupFacts

LEMMA SetupFactsStep ==
  ASSUME SetupInv, SetupFacts, [ON!Next]_ON!vars PROVE SetupFacts'
<1>1. FundsSound /\ SetupTyped'
  BY SetupStep DEF SetupFacts, SetupInv
<1>2. CASE PagesMove /\ RequestsMove /\ NoneWrites
  <2>1. FundsSound'
    BY <1>1, <1>2, FundsStaySound
  <2>2. kind' = "treasury" => RaceSound'
    BY <1>2, RacesStaySound DEF SetupFacts, NoneWrites
  <2> QED BY <2>1, <2>2 DEF SetupFacts
<1>3. ASSUME NEW q \in Requests, ON!Server(q) PROVE SetupFacts'
  <2>1. FundsSound'
    BY <1>1, <1>3, ServerMoves, FundsStaySound
  <2>2. kind' = kind
    BY <1>1, <1>3, ServerMoves DEF PagesMove
  <2>3. kind = "treasury" => RaceSound'
    BY <1>1, <1>3, ServerMoves, SelectRaces, InsertRaces, RacesStaySound DEF SetupFacts
  <2> QED BY <2>1, <2>2, <2>3 DEF SetupFacts
<1>4. CASE UNCHANGED ON!vars
  <2>1. /\ UNCHANGED <<kind, funds, on_tx, linked>> /\ UNCHANGED ON!rows
        /\ UNCHANGED <<stage, digest>>
    BY <1>4 DEF ON!vars, ON!screen, ON!wallet, ON!served
  <2>2. PagesMove
    BY <1>1, <2>1 DEF PagesMove, FundsSound
  <2>3. RequestsMove /\ NoneWrites
    BY <2>1 DEF RequestsMove, NoneWrites, ON!rows
  <2> QED BY <1>2, <2>2, <2>3
<1>5. CASE \E w \in Windows : ON!TreasurySetup(w) \/ ON!PayrollSetup(w) \/ ON!Leave(w)
  BY <1>1, <1>2, <1>5, TreasuryMoves, PayrollMoves, LeaveMoves
<1>6. CASE \E d \in Fundings : ON!WalletActs(d) \/ ON!LeftBehind(d)
  BY <1>1, <1>2, <1>6, WalletMoves
<1> QED BY <1>3, <1>4, <1>5, <1>6 DEF ON!Next

-----------------------------------------------------------------------------
(* In a behaviour of the set-up, Onboarding's steps are all there are *)

LEMMA SetupInvariance == BackSpec => [](part = "setup" => SetupInv /\ SetupFacts)
<1>1. BackInit => (part = "setup" => SetupInv /\ SetupFacts)
  BY SetupInit, SetupFactsInit DEF BackInit
<1>2. /\ part = "setup" => SetupInv /\ SetupFacts
      /\ [BackNext]_<<part, streamVars, payrollVars, overtimeVars, setupVars>>
      => (part = "setup" => SetupInv /\ SetupFacts)'
  <2> SUFFICES ASSUME part = "setup" => SetupInv /\ SetupFacts,
                      [BackNext]_<<part, streamVars, payrollVars, overtimeVars, setupVars>>
               PROVE  part' = "setup" => SetupInv' /\ SetupFacts'
    OBVIOUS
  <2>1. CASE part = "setup" /\ ON!Next
    BY <2>1, SetupStep, SetupFactsStep DEF BackNext
  <2>2. CASE part # "setup" /\ UNCHANGED part
    BY <2>2
  <2>3. CASE UNCHANGED <<part, streamVars, payrollVars, overtimeVars, setupVars>>
    <3>1. UNCHANGED ON!vars /\ UNCHANGED part
      BY <2>3 DEF setupVars, ON!vars, ON!screen, ON!wallet, ON!served, ON!rows
    <3> QED BY <3>1, SetupStep, SetupFactsStep
  <2> QED BY <2>1, <2>2, <2>3 DEF BackNext
<1> QED BY <1>1, <1>2, PTL DEF BackSpec

\* What a page calls live is registered and complete with its members; there is
\* one event of it unless registrations raced, and one payroll; and a page names
\* another payroll than the one registered only if both were funded -- whatever
\* was lost, repeated or left half way.
THEOREM LiveBudgetsAreWhole == BackSpec => []LiveIsWhole
<1>1. ASSUME SetupInv, SetupFacts PROVE ON!LiveIsWhole
  <2> SUFFICES ASSUME NEW w \in Windows, linked[w] # None
               PROVE  IF kind = "treasury"
                      THEN /\ \E r \in ON!Registered(linked[w]) : row_people[r] = People
                           /\ linked[w] \notin raced => ON!FoundOnce(linked[w])
                      ELSE /\ ON!FoundOnce(linked[w])
                           /\ on_tx[w] \notin {None, linked[w]} =>
                                ON!Supported(on_tx[w]) /\ ON!Supported(linked[w])
    BY DEF ON!LiveIsWhole
  <2>1. CASE kind = "treasury"
    <3>1. PICK r \in ON!Registered(linked[w]) : row_people[r] = People
      BY <1>1, <2>1 DEF SetupInv, LinkSound
    <3>2. ASSUME linked[w] \notin raced PROVE ON!Registered(linked[w]) = {r}
      BY <1>1, <2>1, <3>1, <3>2 DEF SetupFacts, RaceSound, ON!Registered
    <3> QED BY <2>1, <3>1, <3>2 DEF ON!FoundOnce, ON!Registered
  <2>2. CASE kind = "payroll"
    <3>1. PICK r : r \in ON!Registered(linked[w])
      BY <1>1, <2>2 DEF SetupInv, LinkSound
    <3>2. ON!Registered(linked[w]) = {r}
      BY <1>1, <2>2, <3>1 DEF SetupInv, OneRow, ON!Registered
    <3>3. on_tx[w] # None => ON!Supported(on_tx[w]) /\ ON!Supported(linked[w])
      BY <1>1, <2>2 DEF SetupFacts, FundsSound
    <3> QED BY <2>2, <3>1, <3>2, <3>3 DEF ON!FoundOnce, ON!Registered
  <2> QED BY <1>1, <2>1, <2>2 DEF SetupInv, SetupTyped
<1>2. (part = "setup" => SetupInv /\ SetupFacts) => LiveIsWhole
  BY <1>1 DEF LiveIsWhole
<1> QED BY <1>2, SetupInvariance, PTL

-----------------------------------------------------------------------------
(* OvertimeDesk.  What a screen says rests on what a call brought back, which *)
(* rests on rows another call, a settlement or a restart may change before    *)
(* the answer arrives; the invariant says what of each survives the way.      *)

\* BackOfficeAssumption, in OvertimeDesk's words.
LEMMA DecisionsAreNone ==
  /\ Forms \cap Queues = {}
  /\ None \notin {"submitted", "approved", "rejected", "paid", "called", "reached"}
  BY BackOfficeAssumption

Verdicts == {"approved", "rejected"}
Decisions == [item : Items, decision : Verdicts]

Decided(i, v) == where[i] = "lost" \/ status[i] \in OD!Stands(v)

OvertimeTyped ==
  /\ listing = [s \in OD!Screens |-> listing[s]] /\ saved \in [OD!Screens -> BOOLEAN]
  /\ said = [s \in OD!Screens |-> said[s]]
  /\ od_pc = [c \in OD!Calls |-> od_pc[c]] /\ at = [c \in OD!Calls |-> at[c]]
  /\ wants = [c \in OD!Calls |-> wants[c]] /\ got = [c \in OD!Calls |-> got[c]]
  /\ where \in [Items -> {"none", "db", "memory", "lost"}]
  /\ status \in [Items -> {"submitted", "approved", "rejected", "paid", None}]
  /\ latched \in BOOLEAN

\* Once a row is in memory the store stays with memory.
RowSound(i) ==
  /\ where[i] = "none" => status[i] = None
  /\ where[i] = "memory" => latched

\* Where a call can be, and what it has learnt by then.
CallSound(c) ==
  /\ at[c] \in {"called", "called", "reached"} => od_pc[c] \in OD!Asking
  /\ c[2] = "list" => od_pc[c] \in {"idle", "list", "listed", "refused"}
  /\ c[2] = "act" /\ c[1] \in Forms =>
       od_pc[c] \in {"idle", "check", "create", "done", "refused"}
  /\ c[2] = "act" /\ c[1] \in Queues =>
       /\ od_pc[c] \in {"idle", "find", "decide", "done", "refused"}
       /\ od_pc[c] # "idle" => wants[c] \in Decisions
       /\ \/ od_pc[c] = "done"
          \/ od_pc[c] = "decide" /\ at[c] = "reached" /\ got[c] # None
          => Decided(wants[c].item, wants[c].decision)
  /\ od_pc[c] = "listed" \/ (od_pc[c] = "list" /\ at[c] = "reached") =>
       \A i \in Items : got[c][i] # None => where[i] \in {"db", "memory"}

SaidSound(d) ==
  said[d] # None => said[d] \in Decisions /\ Decided(said[d].item, said[d].decision)

SavedSound(s) == \A i \in Items : saved[s] /\ listing[s][i] # None => where[i] = "db"

OvertimeInv ==
  /\ OvertimeTyped
  /\ \A i \in Items : RowSound(i)
  /\ \A c \in OD!Calls : CallSound(c)
  /\ \A d \in Queues : SaidSound(d)
  /\ \A s \in OD!Screens : SavedSound(s)

\* Rows are made and decided, never the reverse.
Onward ==
  /\ where' \in [Items -> {"none", "db", "memory", "lost"}]
  /\ status' \in [Items -> {"submitted", "approved", "rejected", "paid", None}]
  /\ latched' \in BOOLEAN
  /\ \A i \in Items : RowSound(i)'
  /\ \A i \in Items : where[i] # "none" => where'[i] = where[i]
  /\ \A i \in Items, v \in Verdicts : Decided(i, v) => Decided(i, v)'

Functions ==
  /\ od_pc = [c \in OD!Calls |-> od_pc[c]] /\ at = [c \in OD!Calls |-> at[c]]
  /\ wants = [c \in OD!Calls |-> wants[c]] /\ got = [c \in OD!Calls |-> got[c]]

StaysPut(c) ==
  od_pc'[c] = od_pc[c] /\ at'[c] = at[c] /\ wants'[c] = wants[c] /\ got'[c] = got[c]

\* A call is of a form or of a queue.
LEMMA CallsAre ==
  ASSUME NEW c \in OD!Calls
  PROVE  c[1] \in Forms \cup Queues /\ c[2] \in {"list", "act"}
  BY DEF OD!Calls, OD!Screens

\* A queue reviews by a call of its own.
LEMMA QueueCalls ==
  ASSUME NEW d \in Queues
  PROVE  /\ <<d, "act">> \in OD!Calls /\ <<d, "act">>[1] = d /\ <<d, "act">>[2] = "act"
         /\ d \in OD!Screens
  BY DEF OD!Calls, OD!Screens

\* What stands for a decision is the decision, or its payment.
LEMMA StandsFor ==
  ASSUME NEW v \in Verdicts
  PROVE  v \in OD!Stands(v) /\ "submitted" \notin OD!Stands(v) /\ None \notin OD!Stands(v)
         /\ ("approved" \in OD!Stands(v) => "paid" \in OD!Stands(v))
  BY DecisionsAreNone DEF Verdicts, OD!Stands

-----------------------------------------------------------------------------
(* Frames *)

\* A step of a screen moves no row.
LEMMA BehindOnward ==
  ASSUME OvertimeInv, UNCHANGED <<where, status, latched>> PROVE Onward
  BY DEF OvertimeInv, OvertimeTyped, Onward, RowSound, Decided

\* What a call knows outlives a step of somebody else.
LEMMA CallFrame ==
  ASSUME Onward, NEW c \in OD!Calls, CallSound(c), StaysPut(c) PROVE CallSound(c)'
<1>1. ASSUME wants[c] \in Decisions, Decided(wants[c].item, wants[c].decision)
      PROVE  Decided(wants[c].item, wants[c].decision)'
  <2>1. wants[c].item \in Items /\ wants[c].decision \in Verdicts
    BY <1>1 DEF Decisions
  <2> QED BY <1>1, <2>1 DEF Onward, StaysPut, Decided
<1>2. ASSUME c[2] = "act", c[1] \in Queues
      PROVE  /\ od_pc'[c] \in {"idle", "find", "decide", "done", "refused"}
             /\ od_pc'[c] # "idle" => wants'[c] \in Decisions
             /\ \/ od_pc'[c] = "done"
                \/ od_pc'[c] = "decide" /\ at'[c] = "reached" /\ got'[c] # None
                => Decided(wants[c].item, wants[c].decision)'
  <2>1. /\ od_pc[c] \in {"idle", "find", "decide", "done", "refused"}
        /\ od_pc[c] # "idle" => wants[c] \in Decisions
        /\ \/ od_pc[c] = "done"
           \/ od_pc[c] = "decide" /\ at[c] = "reached" /\ got[c] # None
           => Decided(wants[c].item, wants[c].decision)
    BY <1>2 DEF CallSound
  <2> QED BY <1>1, <2>1 DEF StaysPut
<1>3. ASSUME od_pc'[c] = "listed" \/ (od_pc'[c] = "list" /\ at'[c] = "reached"),
             NEW i \in Items, got'[c][i] # None
      PROVE  where'[i] \in {"db", "memory"}
  <2>1. where[i] \in {"db", "memory"}
    BY <1>3 DEF CallSound, StaysPut
  <2> QED BY <2>1 DEF Onward
<1>4. /\ at'[c] \in {"called", "reached"} => od_pc'[c] \in OD!Asking
      /\ c[2] = "list" => od_pc'[c] \in {"idle", "list", "listed", "refused"}
      /\ c[2] = "act" /\ c[1] \in Forms =>
           od_pc'[c] \in {"idle", "check", "create", "done", "refused"}
  BY DEF CallSound, StaysPut
<1> QED BY <1>2, <1>3, <1>4 DEF CallSound, Decided, OD!Asking

\* What the screens show is no worse for rows that moved on.
LEMMA ScreenFrame ==
  ASSUME OvertimeInv, Onward
  PROVE  /\ \A d \in Queues : said'[d] = said[d] => SaidSound(d)'
         /\ \A s \in OD!Screens :
              saved'[s] = saved[s] /\ listing'[s] = listing[s] => SavedSound(s)'
<1>1. ASSUME NEW d \in Queues, said'[d] = said[d], said'[d] # None
      PROVE  said'[d] \in Decisions /\ Decided(said[d].item, said[d].decision)'
  <2>1. said[d] \in Decisions /\ Decided(said[d].item, said[d].decision)
    BY <1>1 DEF OvertimeInv, SaidSound
  <2>2. said[d].item \in Items /\ said[d].decision \in Verdicts
    BY <2>1 DEF Decisions
  <2> QED BY <1>1, <2>1, <2>2 DEF Onward, Decided
<1>2. ASSUME NEW s \in OD!Screens, saved'[s] = saved[s], listing'[s] = listing[s]
      PROVE  SavedSound(s)'
  BY <1>2 DEF OvertimeInv, SavedSound, Onward
<1> QED BY <1>1, <1>2 DEF SaidSound, Decided

\* A call moved on, and what a screen shows is sound.
LEMMA CallStep ==
  ASSUME OvertimeInv, Onward, NEW c \in OD!Calls, CallSound(c)', Functions',
         \A e \in OD!Calls \ {c} : StaysPut(e),
         listing' = [s \in OD!Screens |-> listing'[s]], saved' \in [OD!Screens -> BOOLEAN],
         said' = [s \in OD!Screens |-> said'[s]],
         \A d \in Queues : said'[d] = said[d] \/ SaidSound(d)',
         \A s \in OD!Screens :
           (saved'[s] = saved[s] /\ listing'[s] = listing[s]) \/ SavedSound(s)'
  PROVE  OvertimeInv'
<1>1. \A e \in OD!Calls : CallSound(e)'
  BY CallFrame DEF OvertimeInv
<1>2. OvertimeTyped'
  BY DEF OvertimeTyped, Functions, Onward
<1>3. \A i \in Items : RowSound(i)'
  BY DEF Onward
<1>4. /\ \A d \in Queues : SaidSound(d)'
      /\ \A s \in OD!Screens : SavedSound(s)'
  BY ScreenFrame
<1> QED BY <1>1, <1>2, <1>3, <1>4 DEF OvertimeInv

\* The service moved a call on; the screens wait.
LEMMA ServeStep ==
  ASSUME OvertimeInv, Onward, NEW c \in OD!Calls, CallSound(c)',
         UNCHANGED <<listing, saved, said, wants>>,
         NEW s, od_pc' = [od_pc EXCEPT ![c] = s], NEW a, at' = [at EXCEPT ![c] = a],
         NEW g, got' = [got EXCEPT ![c] = g]
  PROVE  OvertimeInv'
<1>1. Functions' /\ \A e \in OD!Calls \ {c} : StaysPut(e)
  BY DEF OvertimeInv, OvertimeTyped, Functions, StaysPut
<1> QED BY <1>1, CallStep DEF OvertimeInv, OvertimeTyped

\* A screen moved its call on; the rows wait.
LEMMA FreeKeeps ==
  ASSUME OvertimeInv, NEW c \in OD!Calls, OD!Free(c), OD!Behind,
         listing' = [s \in OD!Screens |-> listing'[s]], saved' \in [OD!Screens -> BOOLEAN],
         said' = [s \in OD!Screens |-> said'[s]],
         \A d \in Queues : said'[d] = said[d] \/ SaidSound(d)',
         \A s \in OD!Screens :
           (saved'[s] = saved[s] /\ listing'[s] = listing[s]) \/ SavedSound(s)'
  PROVE  OvertimeInv'
<1>1. Onward
  BY BehindOnward DEF OD!Behind, OD!rows, OD!flags
<1>2. Functions' /\ \A e \in OD!Calls \ {c} : StaysPut(e)
  BY DEF OvertimeInv, OvertimeTyped, Functions, StaysPut, OD!Free
<1>3. od_pc'[c] = "idle" /\ at'[c] = None
  BY DEF OvertimeInv, OvertimeTyped, OD!Free
<1>4. CallSound(c)'
  BY <1>3, DecisionsAreNone DEF CallSound
<1> QED BY <1>1, <1>2, <1>4, CallStep

\* A screen that starts a call keeps the invariant.
LEMMA CallKeeps ==
  ASSUME OvertimeInv, NEW c \in OD!Calls, NEW s, NEW x, OD!Call(c, s, x), OD!Behind,
         c[2] = "list" => s = "list",
         c[2] = "act" /\ c[1] \in Forms => s \in {"check", "create"},
         c[2] = "act" /\ c[1] \in Queues => s = "find" /\ x \in Decisions,
         listing' = listing, saved' = saved,
         said' = [r \in OD!Screens |-> said'[r]],
         \A d \in Queues : said'[d] = said[d] \/ said'[d] = None
  PROVE  OvertimeInv'
<1>1. Onward
  BY BehindOnward DEF OD!Behind, OD!rows, OD!flags
<1>2. Functions' /\ \A e \in OD!Calls \ {c} : StaysPut(e)
  BY DEF OvertimeInv, OvertimeTyped, Functions, StaysPut, OD!Call
<1>3. od_pc'[c] = s /\ at'[c] = "called" /\ wants'[c] = x
  BY DEF OvertimeInv, OvertimeTyped, OD!Call
<1>4. CallSound(c)'
  BY <1>3, CallsAre DEF CallSound, OD!Asking
<1>5. \A d \in Queues : said'[d] = None => SaidSound(d)'
  BY DEF SaidSound
<1> QED BY <1>1, <1>2, <1>4, <1>5, CallStep DEF OvertimeInv, OvertimeTyped

-----------------------------------------------------------------------------
(* The store *)

\* What a call may learn: of a list, rows of the store it was read from; of a
\* decision, that it is made.
Learnt(c, x) ==
  /\ od_pc[c] = "list" => \A i \in Items : x[i] # None => where'[i] \in {"db", "memory"}
  /\ od_pc[c] = "decide" /\ x # None => Decided(wants[c].item, wants[c].decision)'

\* A call that decides carries a decision about an item.
LEMMA DecideCalls ==
  ASSUME OvertimeInv, NEW c \in OD!Calls, od_pc[c] = "decide"
  PROVE  wants[c].item \in Items /\ wants[c].decision \in Verdicts
<1>1. c[2] = "act" /\ c[1] \in Queues
  BY CallsAre DEF OvertimeInv, CallSound
<1>2. wants[c] \in Decisions
  BY <1>1 DEF OvertimeInv, CallSound
<1> QED BY <1>2 DEF Decisions

\* What a call does to the store it reached moves rows on, and its answer is true.
LEMMA LearnKeeps ==
  ASSUME OvertimeInv, NEW c \in OD!Calls, NEW store \in {"db", "memory"},
         NEW x \in OD!Answers(c), OD!Learn(c, store, x), latched' \in {latched, TRUE},
         store = "memory" /\ od_pc[c] = "create" => latched' = TRUE, wants' = wants
  PROVE  Onward /\ Learnt(c, x)
<1>1. CASE od_pc[c] \in {"list", "check", "find"} /\ x = OD!Rows(store) /\ UNCHANGED OD!rows
  <2>1. UNCHANGED <<where, status>>
    BY <1>1 DEF OD!rows
  <2>2. Onward
    BY <2>1 DEF OvertimeInv, OvertimeTyped, Onward, RowSound, Decided
  <2>3. \A i \in Items : x[i] # None => where'[i] \in {"db", "memory"}
    BY <1>1, <2>1 DEF OD!Rows
  <2> QED BY <1>1, <2>2, <2>3 DEF Learnt
<1>2. CASE od_pc[c] = "create" /\ UNCHANGED OD!rows
  BY <1>2 DEF OvertimeInv, OvertimeTyped, Onward, RowSound, Decided, Learnt, OD!rows
<1>3. CASE /\ od_pc[c] = "create" /\ x \in Items /\ where[x] = "none"
           /\ where' = [where EXCEPT ![x] = store]
           /\ status' = [status EXCEPT ![x] = "submitted"]
  <2>1. \A i \in Items, v \in Verdicts : Decided(i, v) => Decided(i, v)'
    <3> SUFFICES ASSUME NEW i \in Items, NEW v \in Verdicts, Decided(i, v)
                 PROVE  where'[i] = "lost" \/ status'[i] \in OD!Stands(v)
      BY DEF Decided
    <3>1. where[i] = "none" => status[i] = None
      BY DEF OvertimeInv, RowSound
    <3>2. i # x
      BY <1>3, <3>1, StandsFor DEF Decided
    <3> QED BY <1>3, <3>2 DEF Decided, OvertimeInv, OvertimeTyped
  <2>2. \A i \in Items : RowSound(i)'
    BY <1>3 DEF OvertimeInv, OvertimeTyped, RowSound
  <2>3. /\ where' \in [Items -> {"none", "db", "memory", "lost"}]
        /\ status' \in [Items -> {"submitted", "approved", "rejected", "paid", None}]
        /\ \A i \in Items : where[i] # "none" => where'[i] = where[i]
        /\ latched' \in BOOLEAN
    BY <1>3 DEF OvertimeInv, OvertimeTyped
  <2> QED BY <1>3, <2>1, <2>2, <2>3 DEF Onward, Learnt
<1>4. CASE od_pc[c] = "decide"
  <2> DEFINE j == wants[c].item
             here == where[j] = store /\ OD!Undecided(j)
  <2>1. /\ x = IF here THEN j ELSE None
        /\ status' = IF here THEN [status EXCEPT ![j] = wants[c].decision] ELSE status
        /\ where' = where
    BY <1>4 DEF OD!Learn
  <2>2. j \in Items /\ wants[c].decision \in Verdicts
    BY <1>4, DecideCalls
  <2>3. status[j] = "submitted" \/ status' = status
    BY <2>1 DEF OD!Undecided
  <2>4. \A i \in Items, v \in Verdicts : Decided(i, v) => Decided(i, v)'
    BY <2>1, <2>2, <2>3, StandsFor DEF Decided, OvertimeInv, OvertimeTyped
  <2>5. \A i \in Items : RowSound(i)'
    BY <2>1, <2>2 DEF OvertimeInv, OvertimeTyped, RowSound
  <2>6. status' \in [Items -> {"submitted", "approved", "rejected", "paid", None}]
    BY <2>1, <2>2 DEF OvertimeInv, OvertimeTyped, Verdicts
  <2>7. Onward
    BY <2>1, <2>4, <2>5, <2>6 DEF OvertimeInv, OvertimeTyped, Onward
  <2>8. x # None => status'[j] = wants[c].decision
    BY <2>1, <2>2 DEF OvertimeInv, OvertimeTyped
  <2>9. x # None => Decided(wants[c].item, wants[c].decision)'
    BY <2>2, <2>8, StandsFor DEF Decided
  <2> QED BY <1>4, <2>7, <2>9 DEF Learnt
<1>5. od_pc[c] = "create" /\ x # None => x \in Items
  BY DEF OD!Answers
<1>6. CASE od_pc[c] = "create"
  BY <1>2, <1>3, <1>5, <1>6 DEF OD!Learn, OD!NewItem
<1> QED BY <1>1, <1>4, <1>6 DEF OD!Learn

\* The call goes on with what it learnt.
LEMMA ContinueKeeps ==
  ASSUME OvertimeInv, Onward, NEW c \in OD!Calls, NEW x, OD!Continue(c, x), Learnt(c, x),
         od_pc[c] \in OD!Asking, UNCHANGED <<listing, saved, said, wants>>
  PROVE  OvertimeInv'
<1>1. /\ od_pc' = [od_pc EXCEPT ![c] = OD!After(c, x)]
      /\ at' = [at EXCEPT ![c] = IF OD!After(c, x) \in OD!Asking THEN "called" ELSE "over"]
      /\ got' = [got EXCEPT ![c] = IF od_pc[c] = "list" THEN x ELSE None]
  BY DEF OD!Continue
<1>2. /\ od_pc'[c] = OD!After(c, x) /\ at'[c] # "reached"
      /\ at'[c] = "called" => od_pc'[c] \in OD!Asking
      /\ od_pc[c] = "list" => got'[c] = x
  BY <1>1 DEF OvertimeInv, OvertimeTyped
<1>3. CallSound(c)
  BY DEF OvertimeInv
<1>4. CASE od_pc[c] = "list"
  <2>1. od_pc'[c] = "listed"
    BY <1>2, <1>4 DEF OD!After
  <2>2. c[2] = "list"
    BY <1>3, <1>4, CallsAre DEF CallSound
  <2>3. CallSound(c)'
    BY <1>2, <1>4, <2>1, <2>2 DEF CallSound, Learnt
  <2> QED BY <1>1, <2>3, ServeStep
<1>5. CASE od_pc[c] \in {"check", "create"}
  <2>1. od_pc'[c] \in {"create", "refused", "done"}
    BY <1>2, <1>5 DEF OD!After
  <2>2. c[2] = "act" /\ c[1] \in Forms /\ c[1] \notin Queues
    BY <1>3, <1>5, CallsAre, DecisionsAreNone DEF CallSound
  <2>3. CallSound(c)'
    BY <1>2, <2>1, <2>2 DEF CallSound
  <2> QED BY <1>1, <2>3, ServeStep
<1>6. CASE od_pc[c] \in {"find", "decide"}
  <2>1. /\ od_pc'[c] \in {"decide", "refused", "done"}
        /\ od_pc'[c] = "done" => od_pc[c] = "decide" /\ x # None
    BY <1>2, <1>6 DEF OD!After
  <2>2. c[2] = "act" /\ c[1] \in Queues /\ c[1] \notin Forms
    BY <1>3, <1>6, CallsAre, DecisionsAreNone DEF CallSound
  <2>3. wants'[c] \in Decisions
    BY <1>3, <1>6, <2>2 DEF CallSound
  <2>4. od_pc'[c] = "done" => Decided(wants[c].item, wants[c].decision)'
    BY <2>1 DEF Learnt
  <2>5. CallSound(c)'
    BY <1>2, <2>1, <2>2, <2>3, <2>4 DEF CallSound
  <2> QED BY <1>1, <2>5, ServeStep
<1> QED BY <1>4, <1>5, <1>6 DEF OD!Asking

LEMMA ReachKeeps == ASSUME OvertimeInv, NEW c \in OD!Calls, OD!Reach(c) PROVE OvertimeInv'
<1>1. /\ od_pc[c] \in OD!Asking /\ at[c] = "called"
      /\ UNCHANGED <<listing, saved, said, wants, latched>>
  BY DEF OD!Reach, OD!Serving, OD!screens, OD!flags
<1>2. CASE latched /\ \E x \in OD!Answers(c) : OD!Learn(c, "memory", x) /\ OD!Continue(c, x)
  <2>1. latched = TRUE
    BY <1>2 DEF OvertimeInv, OvertimeTyped
  <2> QED BY <1>1, <1>2, <2>1, LearnKeeps, ContinueKeeps
<1>3. ASSUME NEW x \in OD!Answers(c), OD!Learn(c, "db", x),
             at' = [at EXCEPT ![c] = "reached"], got' = [got EXCEPT ![c] = x], od_pc' = od_pc
      PROVE  OvertimeInv'
  <2>1. Onward /\ Learnt(c, x)
    BY <1>1, <1>3, LearnKeeps DEF OvertimeInv, OvertimeTyped
  <2>2. at'[c] = "reached" /\ got'[c] = x
    BY <1>3 DEF OvertimeInv, OvertimeTyped
  <2>3. od_pc[c] \notin {"done", "listed"}
    BY <1>1 DEF OD!Asking
  <2>4. CallSound(c)'
    <3>1. CASE c[2] = "list"
      BY <1>1, <1>3, <2>1, <2>2, <2>3, <3>1, CallsAre
         DEF CallSound, OvertimeInv, OvertimeTyped, Learnt
    <3>2. CASE c[2] = "act"
      <4>1. od_pc[c] # "list"
        BY <3>2, CallsAre DEF CallSound, OvertimeInv
      <4>2. CASE c[1] \in Forms
        BY <1>1, <1>3, <2>1, <2>2, <2>3, <3>2, <4>1, <4>2, DecisionsAreNone
           DEF CallSound, OvertimeInv
      <4>3. CASE c[1] \in Queues
        BY <1>1, <1>3, <2>1, <2>2, <2>3, <3>2, <4>1, <4>3, DecisionsAreNone
           DEF CallSound, OvertimeInv, Learnt
      <4> QED BY <4>2, <4>3, CallsAre
    <3> QED BY <3>1, <3>2, CallsAre
  <2>5. od_pc' = [od_pc EXCEPT ![c] = od_pc[c]]
    BY <1>3 DEF OvertimeInv, OvertimeTyped
  <2> QED BY <1>1, <1>3, <2>1, <2>4, <2>5, ServeStep
<1>4. CASE at' = [at EXCEPT ![c] = "missing"] /\ UNCHANGED <<OD!rows, got, od_pc>>
  <2>1. Onward
    BY <1>1, <1>4, BehindOnward DEF OD!rows
  <2>2. at'[c] = "missing"
    BY <1>4 DEF OvertimeInv, OvertimeTyped
  <2>3. od_pc[c] \notin {"done", "listed"}
    BY <1>1 DEF OD!Asking
  <2>4. CallSound(c)'
    BY <1>1, <1>4, <2>2, <2>3 DEF CallSound, OvertimeInv
  <2>5. /\ od_pc' = [od_pc EXCEPT ![c] = od_pc[c]] /\ got' = [got EXCEPT ![c] = got[c]]
    BY <1>4 DEF OvertimeInv, OvertimeTyped
  <2> QED BY <1>1, <1>4, <2>1, <2>4, <2>5, ServeStep
<1> QED BY <1>2, <1>3, <1>4 DEF OD!Reach

LEMMA ReturnKeeps == ASSUME OvertimeInv, NEW c \in OD!Calls, OD!Return(c) PROVE OvertimeInv'
<1>1. UNCHANGED <<listing, saved, said, wants>>
  BY DEF OD!Return, OD!Serving, OD!screens
<1>2. CASE at[c] = "reached" /\ OD!Continue(c, got[c]) /\ UNCHANGED <<latched, OD!rows>>
  <2>1. Onward
    BY <1>2, BehindOnward DEF OD!rows
  <2>2. od_pc[c] \in OD!Asking
    BY <1>2 DEF OvertimeInv, CallSound
  <2>3. Learnt(c, got[c])
    <3>1. od_pc[c] = "decide" => c[2] = "act" /\ c[1] \in Queues
      BY CallsAre DEF OvertimeInv, CallSound
    <3>2. od_pc[c] = "decide" /\ got[c] # None => Decided(wants[c].item, wants[c].decision)
      BY <1>2, <3>1 DEF OvertimeInv, CallSound
    <3>3. UNCHANGED <<where, status>>
      BY <1>2 DEF OD!rows
    <3> QED BY <1>1, <1>2, <3>2, <3>3 DEF Learnt, OvertimeInv, CallSound, Decided
  <2> QED BY <1>1, <1>2, <2>1, <2>2, <2>3, ContinueKeeps
<1>3. CASE /\ latched' = (latched \/ od_pc[c] \in OD!Latches)
           /\ \E x \in OD!Answers(c) : OD!Learn(c, "memory", x) /\ OD!Continue(c, x)
  <2>1. PICK x \in OD!Answers(c) : OD!Learn(c, "memory", x) /\ OD!Continue(c, x)
    BY <1>3
  <2>2. /\ latched' \in {latched, TRUE}
        /\ od_pc[c] = "create" => latched' = TRUE
    BY <1>3 DEF OvertimeInv, OvertimeTyped, OD!Latches
  <2>3. Onward /\ Learnt(c, x)
    <3>1. wants' = wants
      BY <1>1
    <3>2. "memory" \in {"db", "memory"}
      OBVIOUS
    <3> QED BY <2>1, <2>2, <3>1, <3>2, LearnKeeps
  <2>4. od_pc[c] \in OD!Asking
    BY <2>1 DEF OD!Learn, OD!Asking
  <2> QED BY <1>1, <2>1, <2>3, <2>4, ContinueKeeps
<1> QED BY <1>2, <1>3 DEF OD!Return

LEMMA FailCallKeeps == ASSUME OvertimeInv, NEW c \in OD!Calls, OD!Fail(c) PROVE OvertimeInv'
<1>1. /\ od_pc' = [od_pc EXCEPT ![c] = "refused"] /\ at' = [at EXCEPT ![c] = "over"]
      /\ at[c] = "called"
      /\ UNCHANGED <<got, where, status, latched, listing, saved, said, wants>>
  BY DEF OD!Fail, OD!Serving, OD!screens, OD!flags, OD!rows
<1>2. Onward
  BY <1>1, BehindOnward
<1>3. od_pc'[c] = "refused" /\ at'[c] = "over"
  BY <1>1 DEF OvertimeInv, OvertimeTyped
<1>4. c[1] \in Queues /\ c[2] = "act" => wants[c] \in Decisions
  BY <1>1 DEF OvertimeInv, CallSound, OD!Asking
<1>5. CallSound(c)'
  BY <1>1, <1>3, <1>4 DEF CallSound
<1>6. got' = [got EXCEPT ![c] = got[c]]
  BY <1>1 DEF OvertimeInv, OvertimeTyped
<1> QED BY <1>1, <1>2, <1>5, <1>6, ServeStep

-----------------------------------------------------------------------------
(* The screens *)

LEMMA AskListKeeps == ASSUME OvertimeInv, NEW s \in OD!Screens, OD!AskList(s) PROVE OvertimeInv'
<1>1. <<s, "list">> \in OD!Calls /\ <<s, "list">>[2] = "list"
  BY DEF OD!Calls
<1>2. OD!Call(<<s, "list">>, "list", None) /\ OD!Behind
      /\ UNCHANGED <<listing, saved, said>>
  BY DEF OD!AskList, OD!screens
<1> QED BY <1>1, <1>2, CallKeeps DEF OvertimeInv, OvertimeTyped

LEMMA ListAnsweredKeeps ==
  ASSUME OvertimeInv, NEW s \in OD!Screens, OD!ListAnswered(s) PROVE OvertimeInv'
<1> DEFINE c == <<s, "list">>
<1>1. c \in OD!Calls
  BY DEF OD!Calls
<1>2. /\ od_pc[c] = "listed" /\ OD!Free(c) /\ OD!Behind /\ said' = said
      /\ listing' = [listing EXCEPT ![s] = got[c]]
      /\ saved' = [saved EXCEPT ![s] = OD!Persisted]
  BY DEF OD!ListAnswered
<1>3. \A i \in Items : got[c][i] # None => where[i] \in {"db", "memory"}
  BY <1>1, <1>2 DEF OvertimeInv, CallSound
<1>4. OD!Persisted \in BOOLEAN /\ (OD!Persisted => ~latched)
  BY DEF OD!Persisted
<1>5. saved'[s] = OD!Persisted /\ listing'[s] = got[c] /\ where' = where
  BY <1>2 DEF OvertimeInv, OvertimeTyped, OD!Behind, OD!rows
<1>6. ASSUME NEW i \in Items, saved'[s], listing'[s][i] # None PROVE where'[i] = "db"
  <2>1. ~latched /\ got[c][i] # None
    BY <1>4, <1>5, <1>6
  <2>2. where[i] # "memory"
    BY <2>1 DEF OvertimeInv, RowSound
  <2> QED BY <1>3, <1>5, <2>1, <2>2
<1>7. SavedSound(s)'
  BY <1>6 DEF SavedSound
<1>8. /\ listing' = [r \in OD!Screens |-> listing'[r]] /\ saved' \in [OD!Screens -> BOOLEAN]
      /\ \A r \in OD!Screens \ {s} : saved'[r] = saved[r] /\ listing'[r] = listing[r]
  BY <1>2, <1>4 DEF OvertimeInv, OvertimeTyped
<1>9. said' = [r \in OD!Screens |-> said'[r]]
  BY <1>2 DEF OvertimeInv, OvertimeTyped
<1> HIDE DEF c
<1> QED BY <1>1, <1>2, <1>7, <1>8, <1>9, FreeKeeps

LEMMA ListFailsKeeps ==
  ASSUME OvertimeInv, NEW s \in OD!Screens, OD!ListFails(s) PROVE OvertimeInv'
<1> DEFINE c == <<s, "list">>
<1>1. c \in OD!Calls
  BY DEF OD!Calls
<1>2. /\ OD!Free(c) /\ OD!Behind /\ said' = said
      /\ \/ /\ listing' = [listing EXCEPT ![s] = [i \in Items |-> None]]
            /\ saved' = [saved EXCEPT ![s] = FALSE]
         \/ UNCHANGED <<listing, saved>>
  BY DEF OD!ListFails
<1>3. /\ listing' = [r \in OD!Screens |-> listing'[r]] /\ saved' \in [OD!Screens -> BOOLEAN]
      /\ said' = [r \in OD!Screens |-> said'[r]]
      /\ \A r \in OD!Screens \ {s} : saved'[r] = saved[r] /\ listing'[r] = listing[r]
      /\ saved'[s] = FALSE \/ (saved'[s] = saved[s] /\ listing'[s] = listing[s])
  BY <1>2 DEF OvertimeInv, OvertimeTyped
<1>4. saved'[s] = FALSE => SavedSound(s)'
  BY DEF SavedSound
<1> HIDE DEF c
<1> QED BY <1>1, <1>2, <1>3, <1>4, FreeKeeps

LEMMA SendKeeps ==
  ASSUME OvertimeInv, NEW t \in Forms, NEW a \in Asks, OD!Send(t, a) PROVE OvertimeInv'
<1>1. /\ <<t, "act">> \in OD!Calls /\ <<t, "act">>[2] = "act" /\ <<t, "act">>[1] = t
      /\ t \notin Queues
  BY DecisionsAreNone DEF OD!Calls, OD!Screens
<1>2. PICK s \in {"check", "create"} : OD!Call(<<t, "act">>, s, a)
  BY DEF OD!Send
<1>3. OD!Behind /\ UNCHANGED <<listing, saved, said>>
  BY DEF OD!Send
<1> QED BY <1>1, <1>2, <1>3, CallKeeps DEF OvertimeInv, OvertimeTyped

\* A form or a queue stopped waiting and nothing else moved.
LEMMA StillKeeps ==
  ASSUME OvertimeInv, OD!Behind, UNCHANGED <<listing, saved, said, OD!calls>>
  PROVE  OvertimeInv'
<1>1. Onward
  BY BehindOnward DEF OD!Behind, OD!rows, OD!flags
<1>2. \A c \in OD!Calls : StaysPut(c)
  BY DEF StaysPut, OD!calls
<1>3. \A c \in OD!Calls : CallSound(c)'
  BY <1>1, <1>2, CallFrame DEF OvertimeInv
<1>4. OvertimeTyped' /\ \A i \in Items : RowSound(i)'
  BY <1>1 DEF OvertimeInv, OvertimeTyped, Onward, OD!calls
<1>5. /\ \A d \in Queues : SaidSound(d)'
      /\ \A s \in OD!Screens : SavedSound(s)'
  BY <1>1, ScreenFrame
<1> QED BY <1>3, <1>4, <1>5 DEF OvertimeInv

LEMMA FormAnsweredKeeps ==
  ASSUME OvertimeInv, NEW t \in Forms, OD!FormAnswered(t) PROVE OvertimeInv'
<1>1. <<t, "act">> \in OD!Calls
  BY DEF OD!Calls, OD!Screens
<1>2. OD!Behind /\ UNCHANGED <<listing, saved, said>>
  BY DEF OD!FormAnswered
<1>3. OD!Free(<<t, "act">>) \/ UNCHANGED OD!calls
  BY DEF OD!FormAnswered
<1> QED BY <1>1, <1>2, <1>3, FreeKeeps, StillKeeps DEF OvertimeInv, OvertimeTyped

LEMMA ReviewKeeps ==
  ASSUME OvertimeInv, NEW d \in Queues, NEW i \in Items, NEW v \in Verdicts,
         OD!Review(d, i, v)
  PROVE  OvertimeInv'
<1>1. /\ <<d, "act">> \in OD!Calls /\ <<d, "act">>[2] = "act" /\ <<d, "act">>[1] = d
      /\ d \notin Forms /\ d \in OD!Screens
  BY QueueCalls, DecisionsAreNone
<1>2. /\ OD!Call(<<d, "act">>, "find", [item |-> i, decision |-> v]) /\ OD!Behind
      /\ listing' = listing /\ saved' = saved /\ said' = [said EXCEPT ![d] = None]
  BY DEF OD!Review
<1>3. [item |-> i, decision |-> v] \in Decisions
  BY DEF Decisions
<1>4. /\ said' = [r \in OD!Screens |-> said'[r]]
      /\ \A e \in Queues : said'[e] = said[e] \/ said'[e] = None
  BY <1>1, <1>2 DEF OvertimeInv, OvertimeTyped, OD!Screens
<1> QED BY <1>1, <1>2, <1>3, <1>4, CallKeeps

\* What the queue is told was decided when the answer left, and still is.
LEMMA ReviewAnsweredKeeps ==
  ASSUME OvertimeInv, NEW d \in Queues, OD!ReviewAnswered(d) PROVE OvertimeInv'
<1> DEFINE c == <<d, "act">>
<1>1. c \in OD!Calls /\ c[1] = d /\ c[2] = "act" /\ d \in OD!Screens
  BY QueueCalls
<1>2. OD!Behind /\ listing' = listing /\ saved' = saved
  BY DEF OD!ReviewAnswered
<1>3. CASE od_pc[c] = "done" /\ OD!Free(c) /\ said' = [said EXCEPT ![d] = wants[c]]
  <2>1. wants[c] \in Decisions /\ Decided(wants[c].item, wants[c].decision)
    BY <1>1, <1>3 DEF OvertimeInv, CallSound
  <2>2. said'[d] = wants[c] /\ UNCHANGED <<where, status>>
    BY <1>1, <1>2, <1>3 DEF OvertimeInv, OvertimeTyped, OD!Behind, OD!rows
  <2>3. SaidSound(d)'
    BY <2>1, <2>2 DEF SaidSound, Decided
  <2>4. /\ said' = [r \in OD!Screens |-> said'[r]]
        /\ \A e \in Queues \ {d} : said'[e] = said[e]
    BY <1>3 DEF OvertimeInv, OvertimeTyped, OD!Screens
  <2> HIDE DEF c
  <2> QED BY <1>1, <1>2, <1>3, <2>3, <2>4, FreeKeeps DEF OvertimeInv, OvertimeTyped
<1>4. CASE OD!Free(c) /\ said' = said
  <2> HIDE DEF c
  <2> QED BY <1>1, <1>2, <1>4, FreeKeeps DEF OvertimeInv, OvertimeTyped
<1>5. CASE UNCHANGED <<OD!calls, said>>
  BY <1>2, <1>5, StillKeeps
<1> QED BY <1>3, <1>4, <1>5 DEF OD!ReviewAnswered

LEMMA DroppedKeeps == ASSUME OvertimeInv, NEW c \in OD!Calls, OD!Dropped(c) PROVE OvertimeInv'
  BY FreeKeeps DEF OD!Dropped, OD!screens, OvertimeInv, OvertimeTyped

-----------------------------------------------------------------------------
(* Everything else *)

\* Paying keeps an approval one, and what was rejected rejected.
LEMMA SettleKeeps == ASSUME OvertimeInv, OD!Settle PROVE OvertimeInv'
<1>1. PICK due \in SUBSET Items :
        /\ \A i \in due : status[i] = "approved"
        /\ status' = [i \in Items |-> IF i \in due THEN "paid" ELSE status[i]]
  BY DEF OD!Settle
<1>2. /\ UNCHANGED <<listing, saved, said, where, OD!calls>>
      /\ latched' \in {latched, TRUE}
  BY DEF OD!Settle, OD!screens, OD!flags
<1>3. \A i \in Items, v \in Verdicts : Decided(i, v) => Decided(i, v)'
  BY <1>1, <1>2, StandsFor DEF Decided
<1>4. \A i \in Items : RowSound(i)'
  BY <1>1, <1>2, DecisionsAreNone DEF OvertimeInv, OvertimeTyped, RowSound
<1>5. /\ status' \in [Items -> {"submitted", "approved", "rejected", "paid", None}]
      /\ latched' \in BOOLEAN
  BY <1>1, <1>2 DEF OvertimeInv, OvertimeTyped
<1>6. Onward
  BY <1>2, <1>3, <1>4, <1>5 DEF Onward, OvertimeInv, OvertimeTyped
<1>7. \A c \in OD!Calls : CallSound(c)'
  BY <1>2, <1>6, CallFrame DEF OvertimeInv, StaysPut, OD!calls
<1>8. OvertimeTyped'
  BY <1>2, <1>5 DEF OvertimeInv, OvertimeTyped, OD!calls
<1>9. /\ \A d \in Queues : SaidSound(d)'
      /\ \A s \in OD!Screens : SavedSound(s)'
  BY <1>2, <1>6, ScreenFrame
<1> QED BY <1>4, <1>7, <1>8, <1>9 DEF OvertimeInv

\* A restart loses what memory held and ends every call.
LEMMA RestartKeeps == ASSUME OvertimeInv, OD!Restart PROVE OvertimeInv'
<1>1. /\ where' = [i \in Items |-> IF where[i] = "memory" THEN "lost" ELSE where[i]]
      /\ latched' = FALSE
      /\ od_pc' = [c \in OD!Calls |-> IF od_pc[c] = "idle" THEN "idle" ELSE "refused"]
      /\ at' = [c \in OD!Calls |-> IF od_pc[c] = "idle" THEN None ELSE "over"]
      /\ got' = [c \in OD!Calls |-> None]
      /\ UNCHANGED <<listing, saved, said, wants, status>>
  BY DEF OD!Restart, OD!screens
<1>2. OvertimeTyped'
  <2>1. where' \in [Items -> {"none", "db", "memory", "lost"}]
    BY <1>1 DEF OvertimeInv, OvertimeTyped
  <2> QED BY <1>1, <2>1 DEF OvertimeInv, OvertimeTyped
<1>3. \A i \in Items : RowSound(i)'
  BY <1>1 DEF OvertimeInv, RowSound, OvertimeTyped
<1>4. \A i \in Items, v \in Verdicts : Decided(i, v) => Decided(i, v)'
  BY <1>1 DEF Decided
<1>5. ASSUME NEW c \in OD!Calls PROVE CallSound(c)'
  <2>1. at'[c] \notin {"called", "reached"}
    BY <1>1, DecisionsAreNone
  <2>2. od_pc'[c] \in {"idle", "refused"} /\ (od_pc[c] = "idle" => od_pc'[c] = "idle")
    BY <1>1
  <2>3. c[2] = "act" /\ c[1] \in Queues /\ od_pc'[c] # "idle" => wants'[c] \in Decisions
    BY <1>1, <2>2 DEF OvertimeInv, CallSound
  <2> QED BY <2>1, <2>2, <2>3 DEF CallSound
<1>6. ASSUME NEW d \in Queues, said[d] # None
      PROVE  said[d] \in Decisions /\ Decided(said[d].item, said[d].decision)'
  <2>1. said[d] \in Decisions /\ Decided(said[d].item, said[d].decision)
    BY <1>6 DEF OvertimeInv, SaidSound
  <2>2. said[d].item \in Items /\ said[d].decision \in Verdicts
    BY <2>1 DEF Decisions
  <2> QED BY <1>1, <2>1, <2>2 DEF Decided
<1>7. \A d \in Queues : SaidSound(d)'
  BY <1>1, <1>6 DEF SaidSound, Decided
<1>8. \A s \in OD!Screens : SavedSound(s)'
  BY <1>1 DEF OvertimeInv, SavedSound
<1> QED BY <1>2, <1>3, <1>5, <1>7, <1>8 DEF OvertimeInv

LEMMA OvertimeInit == ASSUME OD!Init PROVE OvertimeInv
<1>1. OvertimeTyped
  BY DEF OD!Init, OvertimeTyped
<1>2. \A i \in Items : RowSound(i)
  BY DEF OD!Init, RowSound
<1>3. \A c \in OD!Calls : CallSound(c)
  BY DecisionsAreNone DEF OD!Init, CallSound
<1>4. \A d \in Queues : SaidSound(d)
  BY QueueCalls DEF OD!Init, SaidSound
<1>5. \A s \in OD!Screens : SavedSound(s)
  BY DEF OD!Init, SavedSound
<1> QED BY <1>1, <1>2, <1>3, <1>4, <1>5 DEF OvertimeInv

LEMMA OvertimeStep == ASSUME OvertimeInv, [OD!Next]_OD!vars PROVE OvertimeInv'
<1>1. ASSUME NEW s \in OD!Screens, OD!Screen(s) PROVE OvertimeInv'
  <2>1. \A i \in Items : \A v \in {"approved", "rejected"} :
          s \in Queues /\ OD!Review(s, i, v) => OvertimeInv'
    BY ReviewKeeps DEF Verdicts
  <2> QED BY <1>1, <2>1, AskListKeeps, ListAnsweredKeeps, ListFailsKeeps, FormAnsweredKeeps,
             SendKeeps, ReviewAnsweredKeeps DEF OD!Screen
<1>2. ASSUME NEW c \in OD!Calls, OD!Serve(c) PROVE OvertimeInv'
  BY <1>2, ReachKeeps, ReturnKeeps, FailCallKeeps, DroppedKeeps DEF OD!Serve
<1>3. CASE OD!Migrate
  <2>1. UNCHANGED <<listing, saved, said, OD!calls, where, status, latched>>
    BY <1>3 DEF OD!Migrate, OD!screens, OD!rows, OD!flags
  <2> QED BY <2>1 DEF OvertimeInv, OvertimeTyped, RowSound, CallSound, SaidSound,
                     SavedSound, Decided, OD!calls
<1>4. CASE UNCHANGED OD!vars
  BY <1>4 DEF OD!vars, OD!screens, OD!calls, OD!rows, OD!flags, OvertimeInv, OvertimeTyped,
              RowSound, CallSound, SaidSound, SavedSound, Decided
<1> QED BY <1>1, <1>2, <1>3, <1>4, SettleKeeps, RestartKeeps DEF OD!Next

LEMMA OvertimeInvariance == BackSpec => [](part = "overtime" => OvertimeInv)
<1>1. BackInit => (part = "overtime" => OvertimeInv)
  BY OvertimeInit DEF BackInit
<1>2. /\ part = "overtime" => OvertimeInv
      /\ [BackNext]_<<part, streamVars, payrollVars, overtimeVars, setupVars>>
      => (part = "overtime" => OvertimeInv)'
  <2> SUFFICES ASSUME part = "overtime" => OvertimeInv,
                      [BackNext]_<<part, streamVars, payrollVars, overtimeVars, setupVars>>
               PROVE  part' = "overtime" => OvertimeInv'
    OBVIOUS
  <2>1. CASE part = "overtime" /\ OD!Next
    BY <2>1, OvertimeStep DEF BackNext
  <2>2. CASE part # "overtime" /\ UNCHANGED part
    BY <2>2
  <2>3. CASE UNCHANGED <<part, streamVars, payrollVars, overtimeVars, setupVars>>
    <3>1. UNCHANGED OD!vars /\ UNCHANGED part
      BY <2>3 DEF overtimeVars, OD!vars, OD!screens, OD!calls, OD!rows, OD!flags
    <3> QED BY <3>1, OvertimeStep
  <2> QED BY <2>1, <2>2, <2>3 DEF BackNext
<1> QED BY <1>1, <1>2, PTL DEF BackSpec

\* A decision the employer is told is recorded stands, and rows under a notice that
\* calls them saved are in the database, for any number of forms, queues, rows and
\* restarts, whenever the tables are created.
THEOREM DecisionsAreKept == BackSpec => []RecordedIsKept
<1>1. ASSUME OvertimeInv PROVE OD!RecordedIsKept
  <2>1. \A d \in Queues :
          said[d] # None =>
            where[said[d].item] = "lost" \/ status[said[d].item] \in OD!Stands(said[d].decision)
    BY <1>1 DEF OvertimeInv, SaidSound, Decided
  <2>2. \A s \in OD!Screens, i \in Items :
          saved[s] /\ listing[s][i] # None => where[i] = "db"
    BY <1>1 DEF OvertimeInv, SavedSound
  <2> QED BY <2>1, <2>2 DEF OD!RecordedIsKept
<1>2. (part = "overtime" => OvertimeInv) => RecordedIsKept
  BY <1>1 DEF RecordedIsKept
<1> QED BY <1>2, OvertimeInvariance, PTL

-----------------------------------------------------------------------------
(* PayrollDesk.  The amounts: what a whole-number division can lose, from the *)
(* bands and the percentages to the two conversions; then the floors, in the  *)
(* units of the conversion's own numerators.                                  *)

\* Rounding down: the quotient of a by d.
LEMMA QuotientIs ==
  ASSUME NEW a \in Nat, NEW d \in Nat, d > 0
  PROVE  /\ a \div d \in Nat
         /\ d * (a \div d) <= a
         /\ a < d * (a \div d) + d
  OBVIOUS

\* Products, for the provers.
LEMMA ProductNat ==
  ASSUME NEW a \in Nat, NEW b \in Nat PROVE a * b \in Nat
  OBVIOUS

\* Multiplying by a natural number keeps an order.
LEMMA TimesKeepsOrder ==
  ASSUME NEW a \in Int, NEW b \in Int, NEW c \in Nat, a <= b
  PROVE  a * c <= b * c
  OBVIOUS

\* A common factor goes.
LEMMA CancelLess ==
  ASSUME NEW a \in Int, NEW b \in Int, NEW c \in Nat, c > 0, c * a < c * b
  PROVE  a < b
<1>1. CASE b <= a
  BY <1>1, TimesKeepsOrder
<1> QED BY <1>1

\* Dividing by a positive one does.
LEMMA CancelAtMost ==
  ASSUME NEW a \in Int, NEW b \in Int, NEW c \in Nat, c > 0, c * a <= c * b
  PROVE  a <= b
<1>1. CASE b < a
  <2>1. (b + 1) * c <= a * c
    BY <1>1, TimesKeepsOrder
  <2> QED BY <2>1
<1> QED BY <1>1

\* Rounding up, to the next multiple.
LEMMA CeilIs ==
  ASSUME NEW a \in Nat, NEW d \in Nat, d > 0
  PROVE  /\ PD!CeilDiv(a, d) \in Nat
         /\ a <= d * PD!CeilDiv(a, d)
         /\ d * PD!CeilDiv(a, d) < a + d
<1> DEFINE n == a + d - 1
<1>1. n \in Nat
  OBVIOUS
<1>2. n \div d \in Nat /\ d * (n \div d) <= n /\ n < d * (n \div d) + d
  BY <1>1, QuotientIs
<1>3. PD!CeilDiv(a, d) = n \div d
  BY DEF PD!CeilDiv
<1> DEFINE q == n \div d
           p == d * q
<1>4. p \in Nat
  BY <1>2
<1>5. p <= a + d - 1 /\ a + d - 1 < p + d
  BY <1>2
<1> QED BY <1>2, <1>3, <1>4, <1>5

\* The rates of BackOfficeAssumption, and what they say of a ringgit.
LEMMA RatesAre ==
  /\ RateScale \in Nat /\ RateScale > 0
  /\ Ringgit \in Nat /\ Ringgit >= 84
  /\ \A r \in Rates \cup {SetupRate} :
       /\ r \in Nat /\ r > 0 /\ RateScale <= r /\ r <= 20 * RateScale
       /\ 251 * r <= 3 * (Ringgit * RateScale)
<1>1. /\ RateScale \in Nat /\ RateScale > 0 /\ Ringgit \in Nat
      /\ \A r \in Rates \cup {SetupRate} :
           /\ r \in Nat /\ r > 0 /\ RateScale <= r /\ r <= 20 * RateScale
           /\ 251 * r <= 3 * Ringgit * RateScale
  BY BackOfficeAssumption
<1>2. 3 * Ringgit * RateScale = 3 * (Ringgit * RateScale)
  BY <1>1
<1>3. 251 * RateScale <= 3 * (Ringgit * RateScale)
  BY <1>1, <1>2
<1>4. RateScale * 251 <= RateScale * (3 * Ringgit)
  BY <1>1, <1>3
<1>5. 251 <= 3 * Ringgit
  BY <1>1, <1>4, CancelAtMost
<1> QED BY <1>1, <1>2, <1>5

\* Half up: X, which x converts to at r, is out by half a unit at most.
AtMost(x, X, r) == 2 * (r * X) <= 2 * (x * RateScale) + r
AtLeast(x, X, r) == 2 * (x * RateScale) < 2 * (r * X) + r

\* The conversion is to the nearest unit.
LEMMA ConvertIs ==
  ASSUME NEW x \in Nat, NEW r \in Nat, r > 0
  PROVE  /\ PD!Convert(x, r) \in Nat
         /\ AtMost(x, PD!Convert(x, r), r) /\ AtLeast(x, PD!Convert(x, r), r)
<1>1. RateScale \in Nat
  BY RatesAre
<1> DEFINE n == 2 * x * RateScale + r
           d == 2 * r
           q == n \div d
<1>2. n \in Nat /\ d \in Nat /\ d > 0 /\ n = 2 * (x * RateScale) + r
  BY <1>1
<1>3. q \in Nat /\ d * q <= n /\ n < d * q + d
  BY <1>2, QuotientIs
<1>4. PD!Convert(x, r) = q
  BY DEF PD!Convert
<1> HIDE DEF q, n
<1>5. d * q = 2 * (r * q) /\ r * q \in Nat
  BY <1>3
<1> QED BY <1>1, <1>2, <1>3, <1>4, <1>5 DEF AtMost, AtLeast

-----------------------------------------------------------------------------
(* statutory.ts *)

\* A percentage of the schedule, in whole ringgit.
LEMMA EpfLegIs ==
  ASSUME NEW band \in Nat, NEW bps \in Nat
  PROVE  /\ PD!ToWholeRinggit(PD!Percent(band, bps)) \in Nat
         /\ 10000 * PD!ToWholeRinggit(PD!Percent(band, bps)) <= band * bps + 10000 * Ringgit
         /\ band * bps >= 20000 * Ringgit + 10000
              => PD!ToWholeRinggit(PD!Percent(band, bps)) >= 3 * Ringgit
<1>1. Ringgit \in Nat /\ Ringgit > 0
  BY RatesAre
<1> DEFINE a == band * bps
           x == a \div 10000
           k == PD!CeilDiv(x, Ringgit)
           t == Ringgit * k
<1>2. a \in Nat
  BY ProductNat
<1>3. x \in Nat /\ 10000 * x <= a /\ a < 10000 * x + 10000
  BY <1>2
<1>4. k \in Nat /\ x <= t /\ t < x + Ringgit
  BY <1>1, <1>3, CeilIs
<1>5. t \in Nat
  BY <1>1, <1>4, ProductNat
<1>6. PD!ToWholeRinggit(PD!Percent(band, bps)) = t
  BY <1>1, <1>4 DEF PD!ToWholeRinggit, PD!Percent
<1>7. ASSUME a >= 20000 * Ringgit + 10000 PROVE t >= 3 * Ringgit
  <2>1. x > 2 * Ringgit
    BY <1>1, <1>2, <1>3, <1>7
  <2>2. Ringgit * 2 < Ringgit * k
    BY <1>1, <1>4, <2>1
  <2>3. 2 < k
    BY <1>1, <1>4, <2>2, CancelLess
  <2>4. 3 * Ringgit <= k * Ringgit
    BY <1>1, <1>4, <2>3, TimesKeepsOrder
  <2> QED BY <1>1, <1>4, <2>4
<1> HIDE DEF a, x, k, t
<1>8. 10000 * t <= a + 10000 * Ringgit
  BY <1>1, <1>2, <1>3, <1>4, <1>5
<1> QED BY <1>5, <1>6, <1>7, <1>8 DEF a

\* A band is no less than its wage, and no less than the first.
LEMMA EpfBandIs ==
  ASSUME NEW p \in Nat
  PROVE  /\ PD!EpfWageBand(p) \in Nat
         /\ p <= 5000 * Ringgit => PD!EpfWageBand(p) <= p + 20 * Ringgit
         /\ p > 0 => PD!EpfWageBand(p) >= 20 * Ringgit
<1>1. Ringgit \in Nat /\ Ringgit > 0
  BY RatesAre
<1>2. ASSUME NEW width \in Nat, width >= 20 * Ringgit
      PROVE  LET band == PD!CeilDiv(p, width) * width IN
             /\ band \in Nat /\ band <= p + width
             /\ p > 0 => band >= 20 * Ringgit
  <2> DEFINE k == PD!CeilDiv(p, width)
  <2>1. width > 0
    BY <1>1, <1>2
  <2>2. k \in Nat /\ p <= width * k /\ width * k < p + width
    BY <2>1, CeilIs
  <2>3. k * width = width * k /\ k * width \in Nat
    BY <2>2
  <2>4. ASSUME p > 0 PROVE width <= k * width
    <3>1. k >= 1
      <4>1. CASE k = 0
        BY <2>2, <2>4, <4>1
      <4> QED BY <2>2, <4>1
    <3>2. 1 * width <= k * width
      BY <2>2, <3>1, TimesKeepsOrder
    <3> QED BY <3>2
  <2> HIDE DEF k
  <2>5. k * width <= p + width
    BY <2>2, <2>3
  <2> QED BY <1>1, <1>2, <2>3, <2>4, <2>5 DEF k
<1>3. CASE p > 20000 * Ringgit
  BY <1>1, <1>3 DEF PD!EpfWageBand
<1>4. CASE p <= 5000 * Ringgit
  <2>1. PD!EpfWageBand(p) = PD!CeilDiv(p, 20 * Ringgit) * (20 * Ringgit)
    BY <1>1, <1>4 DEF PD!EpfWageBand
  <2> QED BY <1>1, <1>2, <2>1
<1>5. CASE p > 5000 * Ringgit /\ p <= 20000 * Ringgit
  <2>1. PD!EpfWageBand(p) = PD!CeilDiv(p, 100 * Ringgit) * (100 * Ringgit)
    BY <1>1, <1>5 DEF PD!EpfWageBand
  <2> QED BY <1>1, <1>2, <1>5, <2>1
<1> QED BY <1>1, <1>3, <1>4, <1>5

\* A percentage of the insured wage, rounded up.
LEMMA CeilPercentIs ==
  ASSUME NEW a \in Nat, NEW bps \in {20, 50, 175}
  PROVE  /\ PD!CeilPercent(a, bps) \in Nat
         /\ a * bps <= 10000 * PD!CeilPercent(a, bps)
         /\ 10000 * PD!CeilPercent(a, bps) < a * bps + 10000
<1> DEFINE n == a * bps
<1>1. n \in Nat
  BY ProductNat
<1>2. PD!CeilPercent(a, bps) = PD!CeilDiv(n, 10000)
  BY DEF PD!CeilPercent
<1> HIDE DEF n
<1>3. /\ PD!CeilDiv(n, 10000) \in Nat
      /\ n <= 10000 * PD!CeilDiv(n, 10000)
      /\ 10000 * PD!CeilDiv(n, 10000) < n + 10000
  BY <1>1, CeilIs
<1> QED BY <1>2, <1>3 DEF n

\* The social security legs, of an amount.
LEMMA SecurityLegsAre ==
  ASSUME NEW a \in Nat
  PROVE  /\ PD!CeilPercent(a, 50) \in Nat
         /\ a * 50 <= 10000 * PD!CeilPercent(a, 50)
         /\ 10000 * PD!CeilPercent(a, 50) < a * 50 + 10000
         /\ PD!CeilPercent(a, 20) \in Nat
         /\ a * 20 <= 10000 * PD!CeilPercent(a, 20)
         /\ 10000 * PD!CeilPercent(a, 20) < a * 20 + 10000
         /\ PD!CeilPercent(a, 175) \in Nat
         /\ a * 175 <= 10000 * PD!CeilPercent(a, 175)
  BY CeilPercentIs

\* Nothing is owed to the provident fund of no wage.
LEMMA NoWageNoFund ==
  ASSUME NEW r \in Nat
  PROVE  /\ PD!EpfWageBand(0) = 0
         /\ PD!ToWholeRinggit(PD!Percent(0, r)) = 0
<1>1. Ringgit \in Nat /\ Ringgit > 0
  BY RatesAre
<1>2. ASSUME NEW d \in Nat, d > 0 PROVE PD!CeilDiv(0, d) = 0
  <2>1. PD!CeilDiv(0, d) \in Nat /\ d * PD!CeilDiv(0, d) < d * 1
    BY <1>2, CeilIs
  <2> QED BY <1>2, <2>1, CancelLess
<1>3. PD!CeilDiv(0, 20 * Ringgit) = 0 /\ PD!CeilDiv(0, Ringgit) = 0
  BY <1>1, <1>2
<1>4. PD!Percent(0, r) = 0
  BY DEF PD!Percent
<1> QED BY <1>1, <1>3, <1>4 DEF PD!EpfWageBand, PD!ToWholeRinggit

\* The same, of a month's wages: p of them for the work done, g with the overtime.
LEMMA LegsAre ==
  ASSUME NEW p \in Nat, NEW g \in Nat, p <= g, NEW r \in Nat
  PROVE  LET i == PD!Least(g, PD!ContributionCap)
             mine == PD!ToWholeRinggit(PD!Percent(PD!EpfWageBand(p), 1100))
             theirs == PD!ToWholeRinggit(PD!Percent(PD!EpfWageBand(p), r))
         IN  /\ mine \in Nat /\ theirs \in Nat
             /\ PD!CeilPercent(i, 50) \in Nat /\ PD!CeilPercent(i, 20) \in Nat
             /\ PD!CeilPercent(i, 175) \in Nat
             /\ p > 0 => mine >= 3 * Ringgit
             /\ p = 0 => mine = 0 /\ theirs = 0
             /\ g <= 5000 * Ringgit =>
                  /\ g * 225 <= 10000 * (PD!CeilPercent(i, 50) + PD!CeilPercent(i, 175))
                  /\ g * 40 <= 10000 * (PD!CeilPercent(i, 20) + PD!CeilPercent(i, 20))
                  /\ 10000 * (mine + PD!CeilPercent(i, 50) + PD!CeilPercent(i, 20))
                       <= 1170 * g + 32000 * Ringgit + 20000
<1>1. Ringgit \in Nat /\ Ringgit >= 84
  BY RatesAre
<1>2. /\ PD!Least(g, PD!ContributionCap) \in Nat
      /\ g <= 5000 * Ringgit => PD!Least(g, PD!ContributionCap) = g
  BY <1>1 DEF PD!Least, PD!ContributionCap
<1>3. /\ PD!EpfWageBand(p) \in Nat
      /\ p <= 5000 * Ringgit => PD!EpfWageBand(p) <= p + 20 * Ringgit
      /\ p > 0 => PD!EpfWageBand(p) >= 20 * Ringgit
  BY EpfBandIs
<1>4. ASSUME NEW b \in Nat
      PROVE  /\ PD!ToWholeRinggit(PD!Percent(b, 1100)) \in Nat
             /\ PD!ToWholeRinggit(PD!Percent(b, r)) \in Nat
  <2>1. PD!ToWholeRinggit(PD!Percent(b, 1100)) \in Nat
    BY EpfLegIs
  <2>2. PD!ToWholeRinggit(PD!Percent(b, r)) \in Nat
    BY EpfLegIs
  <2> QED BY <2>1, <2>2
<1>5. ASSUME NEW b \in Nat
      PROVE  10000 * PD!ToWholeRinggit(PD!Percent(b, 1100)) <= b * 1100 + 10000 * Ringgit
  BY EpfLegIs
<1>6. ASSUME NEW b \in Nat, b >= 20 * Ringgit
      PROVE  PD!ToWholeRinggit(PD!Percent(b, 1100)) >= 3 * Ringgit
  <2>1. b * 1100 >= 20000 * Ringgit + 10000
          => PD!ToWholeRinggit(PD!Percent(b, 1100)) >= 3 * Ringgit
    BY EpfLegIs
  <2>2. b * 1100 >= 20000 * Ringgit + 10000
    BY <1>1, <1>6
  <2> QED BY <2>1, <2>2
<1>7. p = 0 => /\ PD!ToWholeRinggit(PD!Percent(PD!EpfWageBand(p), 1100)) = 0
               /\ PD!ToWholeRinggit(PD!Percent(PD!EpfWageBand(p), r)) = 0
  <2>1. p = 0 => PD!EpfWageBand(p) = 0
    BY NoWageNoFund
  <2>2. PD!ToWholeRinggit(PD!Percent(0, 1100)) = 0
    BY NoWageNoFund
  <2>3. PD!ToWholeRinggit(PD!Percent(0, r)) = 0
    BY NoWageNoFund
  <2> QED BY <2>1, <2>2, <2>3
<1>8. ASSUME NEW i \in Nat
      PROVE  /\ PD!CeilPercent(i, 50) \in Nat /\ PD!CeilPercent(i, 20) \in Nat
             /\ PD!CeilPercent(i, 175) \in Nat
  BY SecurityLegsAre
<1>9. ASSUME g <= 5000 * Ringgit, NEW b \in Nat, b <= p + 20 * Ringgit
      PROVE  /\ g * 225 <= 10000 * (PD!CeilPercent(g, 50) + PD!CeilPercent(g, 175))
             /\ g * 40 <= 10000 * (PD!CeilPercent(g, 20) + PD!CeilPercent(g, 20))
             /\ 10000 * (PD!ToWholeRinggit(PD!Percent(b, 1100))
                           + PD!CeilPercent(g, 50) + PD!CeilPercent(g, 20))
                  <= 1170 * g + 32000 * Ringgit + 20000
  <2>1. /\ PD!ToWholeRinggit(PD!Percent(b, 1100)) \in Nat
        /\ 10000 * PD!ToWholeRinggit(PD!Percent(b, 1100)) <= b * 1100 + 10000 * Ringgit
    BY <1>4, <1>5
  <2>2. /\ PD!CeilPercent(g, 50) \in Nat
        /\ g * 50 <= 10000 * PD!CeilPercent(g, 50)
        /\ 10000 * PD!CeilPercent(g, 50) < g * 50 + 10000
        /\ PD!CeilPercent(g, 20) \in Nat
        /\ g * 20 <= 10000 * PD!CeilPercent(g, 20)
        /\ 10000 * PD!CeilPercent(g, 20) < g * 20 + 10000
        /\ PD!CeilPercent(g, 175) \in Nat
        /\ g * 175 <= 10000 * PD!CeilPercent(g, 175)
    BY SecurityLegsAre
  <2> QED BY <1>1, <1>9, <2>1, <2>2
<1>10. ASSUME g <= 5000 * Ringgit
       PROVE /\ g * 225 <= 10000 * (PD!CeilPercent(g, 50) + PD!CeilPercent(g, 175))
             /\ g * 40 <= 10000 * (PD!CeilPercent(g, 20) + PD!CeilPercent(g, 20))
             /\ 10000 * (PD!ToWholeRinggit(PD!Percent(PD!EpfWageBand(p), 1100))
                           + PD!CeilPercent(g, 50) + PD!CeilPercent(g, 20))
                  <= 1170 * g + 32000 * Ringgit + 20000
  <2>1. PD!EpfWageBand(p) \in Nat /\ PD!EpfWageBand(p) <= p + 20 * Ringgit
    BY <1>1, <1>3, <1>10
  <2> QED BY <1>9, <1>10, <2>1
<1>11. p > 0 => PD!ToWholeRinggit(PD!Percent(PD!EpfWageBand(p), 1100)) >= 3 * Ringgit
  BY <1>3, <1>6
<1>12. /\ PD!ToWholeRinggit(PD!Percent(PD!EpfWageBand(p), 1100)) \in Nat
       /\ PD!ToWholeRinggit(PD!Percent(PD!EpfWageBand(p), r)) \in Nat
  BY <1>3, <1>4
<1>13. /\ PD!CeilPercent(PD!Least(g, PD!ContributionCap), 50) \in Nat
       /\ PD!CeilPercent(PD!Least(g, PD!ContributionCap), 20) \in Nat
       /\ PD!CeilPercent(PD!Least(g, PD!ContributionCap), 175) \in Nat
  BY <1>2, <1>8
<1> QED BY <1>2, <1>7, <1>10, <1>11, <1>12, <1>13

\* A month of wages, as the mandate's rules leave it.
Month(s) ==
  /\ s.gross \in Nat /\ s.paid \in Nat /\ s.paid <= s.gross /\ s.gross > 0
  /\ \A b \in PD!Bodies : s.employee[b] \in Nat /\ s.employer[b] \in Nat
  /\ s.paid > 0 => s.employee["epf"] >= 3 * Ringgit
  /\ s.paid = 0 => s.employee["epf"] = 0 /\ s.employer["epf"] = 0
  /\ s.gross <= 5000 * Ringgit =>
       /\ s.gross * 225 <= 10000 * (s.employee["socso"] + s.employer["socso"])
       /\ s.gross * 40 <= 10000 * (s.employee["eis"] + s.employer["eis"])
       /\ 10000 * (s.employee["epf"] + s.employee["socso"] + s.employee["eis"])
            <= 1170 * s.gross + 32000 * Ringgit + 20000

\* Every month of a covered worker is one the arithmetic below is about.
LEMMA MonthIs ==
  ASSUME NEW w \in Nat, NEW c \in Classes, PD!Covered(c), NEW x \in Nat, NEW l \in Nat,
         l <= w, w - l + x > 0
  PROVE  Month(PD!ComputeStatutory(w, c, x, l))
<1>1. c.age \in Nat /\ ~(c.age >= 60) /\ c.citizenship = "local"
  <2>1. c \in [age : Nat, citizenship : {"local", "foreign"}]
    BY BackOfficeAssumption
  <2> QED BY <2>1 DEF PD!Covered
<1>2. /\ PD!EpfRatesBps(w - l, c).employee = 1100
      /\ PD!EpfRatesBps(w - l, c).employer \in Nat
  BY <1>1 DEF PD!EpfRatesBps
<1> DEFINE s == PD!ComputeStatutory(w, c, x, l)
           i == PD!Least(w - l + x, PD!ContributionCap)
           b == PD!EpfWageBand(w - l)
           r == PD!EpfRatesBps(w - l, c).employer
<1>3. /\ s.gross = w - l + x /\ s.paid = w - l
      /\ s.employee = [epf |-> PD!ToWholeRinggit(PD!Percent(b, PD!EpfRatesBps(w - l, c).employee)),
                       socso |-> PD!CeilPercent(i, 50), eis |-> PD!CeilPercent(i, 20)]
      /\ s.employer = [epf |-> PD!ToWholeRinggit(PD!Percent(b, r)),
                       socso |-> PD!CeilPercent(i, 175), eis |-> PD!CeilPercent(i, 20)]
  BY <1>1 DEF PD!ComputeStatutory
<1>4. /\ s.employee["epf"] = PD!ToWholeRinggit(PD!Percent(b, 1100))
      /\ s.employer["epf"] = PD!ToWholeRinggit(PD!Percent(b, r))
      /\ s.employee["socso"] = PD!CeilPercent(i, 50)
      /\ s.employer["socso"] = PD!CeilPercent(i, 175)
      /\ s.employee["eis"] = PD!CeilPercent(i, 20)
      /\ s.employer["eis"] = PD!CeilPercent(i, 20)
  BY <1>2, <1>3
<1>5. w - l \in Nat /\ w - l + x \in Nat /\ w - l <= w - l + x
  OBVIOUS
<1>6. /\ PD!ToWholeRinggit(PD!Percent(b, 1100)) \in Nat
      /\ PD!ToWholeRinggit(PD!Percent(b, r)) \in Nat
      /\ PD!CeilPercent(i, 50) \in Nat /\ PD!CeilPercent(i, 20) \in Nat
      /\ PD!CeilPercent(i, 175) \in Nat
      /\ w - l > 0 => PD!ToWholeRinggit(PD!Percent(b, 1100)) >= 3 * Ringgit
      /\ w - l = 0 => /\ PD!ToWholeRinggit(PD!Percent(b, 1100)) = 0
                      /\ PD!ToWholeRinggit(PD!Percent(b, r)) = 0
  <2>1. /\ PD!CeilPercent(i, 50) \in Nat /\ PD!CeilPercent(i, 20) \in Nat
        /\ PD!CeilPercent(i, 175) \in Nat
    <3>1. i \in Nat
      BY <1>5, RatesAre DEF PD!Least, PD!ContributionCap
    <3>2. ASSUME NEW j \in Nat
          PROVE  /\ PD!CeilPercent(j, 50) \in Nat /\ PD!CeilPercent(j, 20) \in Nat
                 /\ PD!CeilPercent(j, 175) \in Nat
      BY SecurityLegsAre
    <3> QED BY <3>1, <3>2
  <2>2. /\ PD!ToWholeRinggit(PD!Percent(b, 1100)) \in Nat
        /\ w - l > 0 => PD!ToWholeRinggit(PD!Percent(b, 1100)) >= 3 * Ringgit
        /\ w - l = 0 => PD!ToWholeRinggit(PD!Percent(b, 1100)) = 0
    BY <1>2, <1>5, LegsAre
  <2>3. /\ PD!ToWholeRinggit(PD!Percent(b, r)) \in Nat
        /\ w - l = 0 => PD!ToWholeRinggit(PD!Percent(b, r)) = 0
    <3> SUFFICES ASSUME NEW q \in Nat
                 PROVE  /\ PD!ToWholeRinggit(PD!Percent(b, q)) \in Nat
                        /\ w - l = 0 => PD!ToWholeRinggit(PD!Percent(b, q)) = 0
      BY <1>2
    <3> QED BY <1>5, LegsAre
  <2> QED BY <2>1, <2>2, <2>3
<1>7. w - l + x <= 5000 * Ringgit =>
        /\ (w - l + x) * 225 <= 10000 * (PD!CeilPercent(i, 50) + PD!CeilPercent(i, 175))
        /\ (w - l + x) * 40 <= 10000 * (PD!CeilPercent(i, 20) + PD!CeilPercent(i, 20))
        /\ 10000 * (PD!ToWholeRinggit(PD!Percent(b, 1100)) + PD!CeilPercent(i, 50)
                      + PD!CeilPercent(i, 20))
             <= 1170 * (w - l + x) + 32000 * Ringgit + 20000
  BY <1>2, <1>5, LegsAre
<1> HIDE DEF i, b, r
<1>8. \A body \in PD!Bodies : s.employee[body] \in Nat /\ s.employer[body] \in Nat
  BY <1>4, <1>6 DEF PD!Bodies
<1>9. /\ w - l > 0 => s.employee["epf"] >= 3 * Ringgit
      /\ w - l = 0 => s.employee["epf"] = 0 /\ s.employer["epf"] = 0
  BY <1>4, <1>6
<1>10. w - l + x <= 5000 * Ringgit =>
         /\ (w - l + x) * 225 <= 10000 * (s.employee["socso"] + s.employer["socso"])
         /\ (w - l + x) * 40 <= 10000 * (s.employee["eis"] + s.employer["eis"])
         /\ 10000 * (s.employee["epf"] + s.employee["socso"] + s.employee["eis"])
              <= 1170 * (w - l + x) + 32000 * Ringgit + 20000
  BY <1>4, <1>7
<1> DEFINE g == w - l + x
           p == w - l
<1>11. g \in Nat /\ p \in Nat /\ p <= g /\ g > 0 /\ s.gross = g /\ s.paid = p
  BY <1>3
<1>12. /\ p > 0 => s.employee["epf"] >= 3 * Ringgit
       /\ p = 0 => s.employee["epf"] = 0 /\ s.employer["epf"] = 0
       /\ g <= 5000 * Ringgit =>
            /\ g * 225 <= 10000 * (s.employee["socso"] + s.employer["socso"])
            /\ g * 40 <= 10000 * (s.employee["eis"] + s.employer["eis"])
            /\ 10000 * (s.employee["epf"] + s.employee["socso"] + s.employee["eis"])
                 <= 1170 * g + 32000 * Ringgit + 20000
  BY <1>9, <1>10
<1> HIDE DEF g, p
<1>13. Month(s)
  BY <1>8, <1>11, <1>12 DEF Month
<1> QED BY <1>13 DEF s

-----------------------------------------------------------------------------
(* fx.ts, in plain numbers: g, e and m in base units of the ringgit are the    *)
(* wage and the two legs of a contribution, G, E and M what they convert to at *)
(* a rate of r per S.                                                          *)

\* A floor met in ringgit is met by the two converted legs, or by two more units.
LEMMA RaiseIsSmall ==
  ASSUME NEW bps \in {2300, 225, 40}, NEW S \in Nat, NEW r \in Nat, r > 0,
         NEW g \in Nat, NEW e \in Nat, NEW m \in Nat, g * bps <= 10000 * (e + m),
         NEW G \in Nat, 2 * (r * G) <= 2 * (g * S) + r,
         NEW E \in Nat, 2 * (e * S) < 2 * (r * E) + r,
         NEW M \in Nat, 2 * (m * S) < 2 * (r * M) + r,
         NEW K \in Nat, 10000 * K < G * bps + 10000
  PROVE  K <= E + M + 2
<1>1. (g * bps) * S <= (10000 * (e + m)) * S
  BY TimesKeepsOrder
<1>2. (g * bps) * S = bps * (g * S)
  OBVIOUS
<1>3. (10000 * (e + m)) * S = 10000 * (e * S) + 10000 * (m * S)
  OBVIOUS
<1> SUFFICES ASSUME NEW gS \in Nat, gS = g * S, NEW eS \in Nat, eS = e * S,
                    NEW mS \in Nat, mS = m * S, NEW rG \in Nat, rG = r * G,
                    NEW rE \in Nat, rE = r * E, NEW rM \in Nat, rM = r * M
             PROVE  K <= E + M + 2
  OBVIOUS
<1>4. bps * gS <= 10000 * eS + 10000 * mS
  BY <1>1, <1>2, <1>3
<1>5. 2 * rG <= 2 * gS + r /\ 2 * eS < 2 * rE + r /\ 2 * mS < 2 * rM + r
  OBVIOUS
<1>6. 2 * (bps * rG) < 20000 * rE + 20000 * rM + 20000 * r + bps * r
  BY <1>4, <1>5
<1>7. r * (2 * (bps * G)) = 2 * (bps * rG)
  OBVIOUS
<1>8. r * (20000 * E + 20000 * M + 20000 + bps)
        = 20000 * rE + 20000 * rM + 20000 * r + bps * r
  OBVIOUS
<1>9. 2 * (bps * G) < 20000 * E + 20000 * M + 20000 + bps
  <2>1. r * (2 * (bps * G)) < r * (20000 * E + 20000 * M + 20000 + bps)
    BY <1>6, <1>7, <1>8
  <2> QED BY <2>1, CancelLess
<1>10. G * bps = bps * G
  OBVIOUS
<1> QED BY <1>9, <1>10

\* A wage that the mandate can pay is below what the contributions are capped at.
LEMMA PaidIsBelowTheCap ==
  ASSUME NEW R \in Nat, R >= 84, NEW S \in Nat, S > 0,
         NEW t \in Nat, S <= t, t > 0, NEW B \in Nat, B <= 120 * R,
         NEW C \in Nat, 2 * (t * C) <= 2 * (B * S) + t,
         NEW r \in Nat, r <= 20 * S, NEW g \in Nat, NEW G \in Nat, G <= C,
         2 * (g * S) < 2 * (r * G) + r
  PROVE  g <= 5000 * R
<1>1. B * S <= B * t
  <2>1. S * B <= t * B
    BY TimesKeepsOrder
  <2> QED BY <2>1
<1>2. t * (2 * C) <= t * (2 * B + 1)
  <2>1. t * (2 * C) = 2 * (t * C) /\ t * (2 * B + 1) = 2 * (B * t) + t
    OBVIOUS
  <2> QED BY <1>1, <2>1
<1>3. 2 * C <= 2 * B + 1
  BY <1>2, CancelAtMost
<1>4. G <= 120 * R
  BY <1>3
<1>5. r * (2 * G + 1) <= (20 * S) * (2 * G + 1)
  BY TimesKeepsOrder
<1>6. S * (2 * g) < S * (20 * (2 * G + 1))
  <2>1. S * (2 * g) = 2 * (g * S) /\ r * (2 * G + 1) = 2 * (r * G) + r
    OBVIOUS
  <2>2. S * (20 * (2 * G + 1)) = (20 * S) * (2 * G + 1)
    OBVIOUS
  <2> QED BY <1>5, <2>1, <2>2
<1>7. 2 * g < 20 * (2 * G + 1)
  BY <1>6, CancelLess
<1> QED BY <1>4, <1>7

\* What is left of the least wage that may be typed is seven tenths of it.
LEMMA NetIsEnough ==
  ASSUME NEW R \in Nat, R >= 84, NEW S \in Nat, S > 0,
         NEW r \in Nat, r > 0, 251 * r <= 3 * (R * S),
         NEW g \in Nat, g >= 20 * R, NEW e \in Nat, NEW f \in Nat, NEW h \in Nat,
         10000 * (e + f + h) <= 1170 * g + 32000 * R + 20000,
         NEW G \in Nat, 2 * (g * S) < 2 * (r * G) + r,
         NEW E \in Nat, 2 * (r * E) <= 2 * (e * S) + r,
         NEW F \in Nat, 2 * (r * F) <= 2 * (f * S) + r,
         NEW H \in Nat, 2 * (r * H) <= 2 * (h * S) + r
  PROVE  10000 * (E + F + H) <= 3000 * G
<1>1. /\ (10000 * (e + f + h)) * S <= (1170 * g + 32000 * R + 20000) * S
      /\ (20 * R) * S <= g * S /\ 84 * S <= R * S
  BY TimesKeepsOrder
<1>2. (10000 * (e + f + h)) * S = 10000 * (e * S) + 10000 * (f * S) + 10000 * (h * S)
  OBVIOUS
<1>3. /\ (1170 * g + 32000 * R + 20000) * S = 1170 * (g * S) + 32000 * (R * S) + 20000 * S
      /\ (20 * R) * S = 20 * (R * S)
  OBVIOUS
<1>4. r * (10000 * (E + F + H)) = 10000 * (r * E) + 10000 * (r * F) + 10000 * (r * H)
  OBVIOUS
<1>5. r * (3000 * G) = 3000 * (r * G)
  OBVIOUS
<1>6. r * (10000 * (E + F + H)) <= r * (3000 * G)
  <2> SUFFICES ASSUME NEW gS \in Nat, gS = g * S, NEW eS \in Nat, eS = e * S,
                      NEW fS \in Nat, fS = f * S, NEW hS \in Nat, hS = h * S,
                      NEW RS \in Nat, RS = R * S,
                      NEW rG \in Nat, rG = r * G, NEW rE \in Nat, rE = r * E,
                      NEW rF \in Nat, rF = r * F, NEW rH \in Nat, rH = r * H
               PROVE  10000 * rE + 10000 * rF + 10000 * rH <= 3000 * rG
    BY <1>4, <1>5
  <2>1. 10000 * eS + 10000 * fS + 10000 * hS <= 1170 * gS + 32000 * RS + 20000 * S
    BY <1>1, <1>2, <1>3
  <2>2. 20 * RS <= gS /\ 84 * S <= RS /\ 251 * r <= 3 * RS
    BY <1>1, <1>3
  <2>3. /\ 2 * gS < 2 * rG + r /\ 2 * rE <= 2 * eS + r /\ 2 * rF <= 2 * fS + r
        /\ 2 * rH <= 2 * hS + r
    OBVIOUS
  <2> QED BY <2>1, <2>2, <2>3
<1> QED BY <1>6, CancelAtMost

\* Three ringgit are 251 base units of the token, or more.
LEMMA SomeIsMany ==
  ASSUME NEW R \in Nat, NEW S \in Nat, NEW r \in Nat, r > 0, 251 * r <= 3 * (R * S),
         NEW e \in Nat, e >= 3 * R, NEW E \in Nat, 2 * (e * S) < 2 * (r * E) + r
  PROVE  E >= 251
<1>1. (3 * R) * S <= e * S
  BY TimesKeepsOrder
<1>2. (3 * R) * S = 3 * (R * S)
  OBVIOUS
<1>3. r * 502 < r * (2 * E + 1)
  <2>1. r * (2 * E + 1) = 2 * (r * E) + r
    OBVIOUS
  <2> QED BY <1>1, <1>2, <2>1
<1>4. 502 < 2 * E + 1
  BY <1>3, CancelLess
<1> QED BY <1>4

-----------------------------------------------------------------------------
(* The quote *)

\* A rate that the circuit breaker lets through, of a small unit.
FineRate(r) ==
  r > 0 /\ RateScale <= r /\ r <= 20 * RateScale /\ 251 * r <= 3 * (Ringgit * RateScale)

\* Every rate the desk reads passed the circuit breaker.
LEMMA RateIs ==
  ASSUME NEW r \in Rates \cup {SetupRate}
  PROVE  r \in Nat /\ FineRate(r)
  BY RatesAre DEF FineRate

\* The floors of the three bodies.
FloorBps == {2300, 225, 40}

\* What the floor asks of the whole wage, in whole units.
LEMMA AskedIs ==
  ASSUME NEW bps \in Nat, bps \in FloorBps, NEW G \in Nat
  PROVE  /\ PD!CeilDiv(G * bps, 10000) \in Nat
         /\ G * bps <= 10000 * PD!CeilDiv(G * bps, 10000)
         /\ 10000 * PD!CeilDiv(G * bps, 10000) < G * bps + 10000
<1>1. G * bps \in Nat
  OBVIOUS
<1> SUFFICES ASSUME NEW n \in Nat
             PROVE  /\ PD!CeilDiv(n, 10000) \in Nat
                    /\ n <= 10000 * PD!CeilDiv(n, 10000)
                    /\ 10000 * PD!CeilDiv(n, 10000) < n + 10000
  BY <1>1
<1> QED BY CeilIs

\* What is paid to a body: the two legs, or that.
Paid(bps, G, E, M) == E + PD!Most(M, PD!CeilDiv(G * bps, 10000) - E)

\* What is paid to a body meets its floor of the whole wage.
LEMMA PaidIs ==
  ASSUME NEW bps \in Nat, bps \in FloorBps, NEW G \in Nat, NEW E \in Nat, NEW M \in Nat
  PROVE  /\ Paid(bps, G, E, M) \in Nat /\ Paid(bps, G, E, M) >= E
         /\ PD!MeetsFloor(Paid(bps, G, E, M), G, bps)
<1>1. G * bps \in Nat
  OBVIOUS
<1>2. /\ PD!CeilDiv(G * bps, 10000) \in Nat
      /\ G * bps <= 10000 * PD!CeilDiv(G * bps, 10000)
  BY AskedIs
<1> DEFINE Good(K, x) == /\ E + PD!Most(M, K - E) \in Nat /\ E + PD!Most(M, K - E) >= E
                         /\ (E + PD!Most(M, K - E)) * 10000 >= x
<1>3. \A K \in Nat, x \in Nat : x <= 10000 * K => Good(K, x)
  BY DEF PD!Most
<1> HIDE DEF Good
<1>4. Good(PD!CeilDiv(G * bps, 10000), G * bps)
  BY <1>1, <1>2, <1>3
<1> QED BY <1>4 DEF Good, Paid, PD!MeetsFloor

\* A floor is that of the whole wage, or of a part of it.
LEMMA WholeWageFloor ==
  ASSUME NEW bps \in Nat, bps \in FloorBps, NEW G \in Nat, NEW cap \in Nat, NEW t \in Nat,
         PD!MeetsFloor(t, G, bps)
  PROVE  PD!MeetsFloor(t, PD!FloorBasis(G, cap), bps)
<1>1. PD!FloorBasis(G, cap) \in Nat /\ PD!FloorBasis(G, cap) <= G
  BY DEF PD!FloorBasis
<1>2. ASSUME NEW x \in Nat, x <= G PROVE x * bps <= G * bps
  BY <1>2 DEF FloorBps
<1>3. PD!FloorBasis(G, cap) * bps <= G * bps
  BY <1>1, <1>2
<1>4. PD!FloorBasis(G, cap) * bps \in Nat /\ G * bps \in Nat
  BY <1>1
<1> QED BY <1>3, <1>4 DEF PD!MeetsFloor

\* One base unit is under every floor of a wage of 251.
LEMMA OneIsTooLittle ==
  ASSUME NEW bps \in Nat, bps \in FloorBps, NEW G \in Nat, G >= 251,
         NEW cap \in Nat, cap = 0 \/ cap >= 251
  PROVE  ~PD!MeetsFloor(1, PD!FloorBasis(G, cap), bps)
<1>1. PD!FloorBasis(G, cap) \in Nat /\ PD!FloorBasis(G, cap) >= 251
  BY DEF PD!FloorBasis
<1>2. ASSUME NEW x \in Nat, x >= 251 PROVE ~(1 * 10000 >= x * bps)
  BY <1>2 DEF FloorBps
<1> QED BY <1>1, <1>2 DEF PD!MeetsFloor

\* The caps of the mandate: none, or six thousand ringgit.
LEMMA WageCapIs ==
  ASSUME NEW b \in PD!Bodies
  PROVE  PD!WageCap[b] \in Nat /\ (PD!WageCap[b] = 0 \/ PD!WageCap[b] >= 251)
<1>1. /\ Ringgit \in Nat /\ Ringgit >= 84 /\ RateScale \in Nat /\ SetupRate \in Nat
      /\ SetupRate > 0 /\ 251 * SetupRate <= 3 * (Ringgit * RateScale)
  BY RatesAre
<1>2. ASSUME NEW e \in Nat, e = PD!ContributionCap
      PROVE  PD!Convert(e, SetupRate) \in Nat /\ PD!Convert(e, SetupRate) >= 251
  <2>1. /\ PD!Convert(e, SetupRate) \in Nat
        /\ 2 * (e * RateScale) < 2 * (SetupRate * PD!Convert(e, SetupRate)) + SetupRate
    BY <1>1, ConvertIs DEF AtLeast
  <2>2. e >= 3 * Ringgit
    BY <1>1, <1>2 DEF PD!ContributionCap
  <2> QED BY <1>1, <2>1, <2>2, SomeIsMany
<1>3. PD!ContributionCap \in Nat
  BY <1>1 DEF PD!ContributionCap
<1>4. PD!Convert(PD!ContributionCap, SetupRate) \in Nat
      /\ PD!Convert(PD!ContributionCap, SetupRate) >= 251
  BY <1>2, <1>3
<1> QED BY <1>4 DEF PD!WageCap, PD!Bodies

\* What the contract accepts, and what the service asserts itself, is the budget.
LEMMA MaxPerRunIs ==
  /\ PD!SetupMaxPerRun \in Nat
  /\ Budget \in Nat /\ Budget <= 120 * Ringgit
  /\ 2 * (SetupRate * PD!SetupMaxPerRun) <= 2 * (Budget * RateScale) + SetupRate
<1>1. SetupRate \in Nat /\ SetupRate > 0 /\ Ringgit \in Nat
  BY RatesAre
<1>2. Budget \in Nat /\ Budget <= 120 * Ringgit
  BY <1>1, BackOfficeAssumption
<1> QED BY <1>1, <1>2, ConvertIs DEF PD!SetupMaxPerRun, AtMost

\* The configured floors, by body.
LEMMA FloorsAre ==
  /\ PD!ConfiguredFloorBps["epf"] = 2300 /\ PD!ConfiguredFloorBps["socso"] = 225
  /\ PD!ConfiguredFloorBps["eis"] = 40
  BY DEF PD!ConfiguredFloorBps

\* A run that a mandate can afford is of a wage under every threshold of the bands.
LEMMA BelowTheCap ==
  ASSUME NEW r \in Nat, FineRate(r), NEW g \in Nat, PD!Convert(g, r) <= PD!SetupMaxPerRun
  PROVE  g <= 5000 * Ringgit
<1>1. /\ Ringgit \in Nat /\ Ringgit >= 84 /\ RateScale \in Nat /\ RateScale > 0
      /\ SetupRate \in Nat /\ SetupRate > 0 /\ RateScale <= SetupRate
  BY RatesAre
<1>2. r > 0 /\ r <= 20 * RateScale
  BY DEF FineRate
<1>3. PD!Convert(g, r) \in Nat
  BY <1>2, ConvertIs
<1>4. 2 * (g * RateScale) < 2 * (r * PD!Convert(g, r)) + r
  BY <1>2, ConvertIs DEF AtLeast
<1>5. ASSUME NEW R \in Nat, R = Ringgit, NEW S \in Nat, S = RateScale,
             NEW t \in Nat, t = SetupRate, NEW B \in Nat, B = Budget,
             NEW C \in Nat, C = PD!SetupMaxPerRun, NEW G \in Nat, G = PD!Convert(g, r)
      PROVE  g <= 5000 * R
  <2>1. /\ R >= 84 /\ S > 0 /\ S <= t /\ t > 0 /\ B <= 120 * R
        /\ 2 * (t * C) <= 2 * (B * S) + t /\ r <= 20 * S /\ G <= C
    BY <1>1, <1>2, <1>5, MaxPerRunIs
  <2>2. 2 * (g * S) < 2 * (r * G) + r
    BY <1>4, <1>5
  <2> QED BY <2>1, <2>2, PaidIsBelowTheCap
<1> QED BY <1>1, <1>3, <1>5, MaxPerRunIs

\* The two legs, and what is paid for them.
Near(t, E, M) == t - (E + M) \in 0..2

\* What is paid is near what was asked when the floor is.
LEMMA PaidIsNear ==
  ASSUME NEW bps \in Nat, NEW G \in Nat, NEW E \in Nat, NEW M \in Nat,
         PD!CeilDiv(G * bps, 10000) \in Nat, PD!CeilDiv(G * bps, 10000) <= E + M + 2
  PROVE  Near(Paid(bps, G, E, M), E, M)
<1>1. ASSUME NEW K \in Nat, K = PD!CeilDiv(G * bps, 10000)
      PROVE  Near(Paid(bps, G, E, M), E, M)
  <2>1. Paid(bps, G, E, M) = E + PD!Most(M, K - E)
    BY <1>1 DEF Paid
  <2>2. K <= E + M + 2
    BY <1>1
  <2> QED BY <2>1, <2>2 DEF PD!Most, Near
<1> QED BY <1>1

\* A floor met in ringgit is missed by two units at most once converted.
LEMMA RaiseOfTwo ==
  ASSUME NEW r \in Nat, FineRate(r), NEW bps \in Nat, bps \in FloorBps,
         NEW g \in Nat, NEW e \in Nat, NEW m \in Nat, PD!MeetsFloor(e + m, g, bps)
  PROVE  Near(Paid(bps, PD!Convert(g, r), PD!Convert(e, r), PD!Convert(m, r)),
              PD!Convert(e, r), PD!Convert(m, r))
<1>1. RateScale \in Nat /\ r > 0
  BY RatesAre DEF FineRate
<1>2. \A x \in Nat : /\ PD!Convert(x, r) \in Nat
                     /\ AtMost(x, PD!Convert(x, r), r) /\ AtLeast(x, PD!Convert(x, r), r)
  BY <1>1, ConvertIs
<1>3. g * bps <= 10000 * (e + m)
  BY DEF PD!MeetsFloor
<1>4. \A G \in Nat : /\ PD!CeilDiv(G * bps, 10000) \in Nat
                     /\ 10000 * PD!CeilDiv(G * bps, 10000) < G * bps + 10000
  BY AskedIs
<1>5. \A G, E, M \in Nat : AtMost(g, G, r) /\ AtLeast(e, E, r) /\ AtLeast(m, M, r)
                           => Near(Paid(bps, G, E, M), E, M)
  <2> SUFFICES ASSUME NEW G \in Nat, NEW E \in Nat, NEW M \in Nat,
                      AtMost(g, G, r), AtLeast(e, E, r), AtLeast(m, M, r)
               PROVE  Near(Paid(bps, G, E, M), E, M)
    OBVIOUS
  <2>1. /\ PD!CeilDiv(G * bps, 10000) \in Nat
        /\ 10000 * PD!CeilDiv(G * bps, 10000) < G * bps + 10000
    BY <1>4
  <2>2. PD!CeilDiv(G * bps, 10000) <= E + M + 2
    BY <1>1, <1>3, <2>1, RaiseIsSmall DEF AtMost, AtLeast, FloorBps
  <2> QED BY <2>1, <2>2, PaidIsNear
<1> QED BY <1>2, <1>5

\* A month's wage, and what is left of it.
Owed(g, e, f, h) ==
  g >= 20 * Ringgit /\ 10000 * (e + f + h) <= 1170 * g + 32000 * Ringgit + 20000
Enough(G, E, F, H) == 10000 * (E + F + H) <= 3000 * G

\* Enough left in ringgit is enough left once converted.
LEMMA EnoughNet ==
  ASSUME NEW r \in Nat, FineRate(r), NEW g \in Nat, NEW e \in Nat, NEW f \in Nat,
         NEW h \in Nat, Owed(g, e, f, h)
  PROVE  Enough(PD!Convert(g, r), PD!Convert(e, r), PD!Convert(f, r), PD!Convert(h, r))
<1>1. /\ Ringgit \in Nat /\ Ringgit >= 84 /\ RateScale \in Nat /\ RateScale > 0
  BY RatesAre
<1>2. r > 0 /\ 251 * r <= 3 * (Ringgit * RateScale)
  BY DEF FineRate
<1>3. \A x \in Nat : /\ PD!Convert(x, r) \in Nat
                     /\ AtMost(x, PD!Convert(x, r), r) /\ AtLeast(x, PD!Convert(x, r), r)
  BY <1>2, ConvertIs
<1>4. \A G, E, F, H \in Nat :
        AtLeast(g, G, r) /\ AtMost(e, E, r) /\ AtMost(f, F, r) /\ AtMost(h, H, r)
        => Enough(G, E, F, H)
  BY <1>1, <1>2, NetIsEnough DEF AtLeast, AtMost, Enough, Owed
<1> QED BY <1>3, <1>4

\* Three ringgit are hundreds of units at any rate.
LEMMA ManyUnits ==
  ASSUME NEW r \in Nat, FineRate(r), NEW e \in Nat, e >= 3 * Ringgit
  PROVE  PD!Convert(e, r) >= 251
<1>1. Ringgit \in Nat /\ RateScale \in Nat
  BY RatesAre
<1>2. r > 0 /\ 251 * r <= 3 * (Ringgit * RateScale)
  BY DEF FineRate
<1>3. PD!Convert(e, r) \in Nat
  BY <1>2, ConvertIs
<1>4. 2 * (e * RateScale) < 2 * (r * PD!Convert(e, r)) + r
  BY <1>2, ConvertIs DEF AtLeast
<1> QED BY <1>1, <1>2, <1>3, <1>4, SomeIsMany

\* The quote, written with Paid.
LEMMA QuoteIs ==
  ASSUME NEW s, NEW r
  PROVE  LET q == PD!QuotePayrollSplit(s, r)
             Total(b, bps) == Paid(bps, PD!Convert(s.gross, r), PD!Convert(s.employee[b], r),
                                   PD!Convert(s.employer[b], r))
         IN  /\ q.gross = PD!Convert(s.gross, r) /\ q.source = s
             /\ q.net = PD!Convert(s.gross, r)
                          - (PD!Convert(s.employee["epf"], r) + PD!Convert(s.employee["socso"], r)
                               + PD!Convert(s.employee["eis"], r))
             /\ q.total["epf"] = Total("epf", 2300)
             /\ q.total["socso"] = Total("socso", 225)
             /\ q.total["eis"] = Total("eis", 40)
  BY FloorsAre DEF PD!QuotePayrollSplit, PD!EmployerLeg, PD!SumOf, PD!Bodies, Paid

-----------------------------------------------------------------------------
(* What the service signs *)

\* The amounts of a month that is converted at r; nothing is said of them yet.
Net(s, r) ==
  PD!Convert(s.gross, r) - (PD!Convert(s.employee["epf"], r)
    + PD!Convert(s.employee["socso"], r) + PD!Convert(s.employee["eis"], r))
Total(s, r, b, bps) ==
  Paid(bps, PD!Convert(s.gross, r), PD!Convert(s.employee[b], r),
       PD!Convert(s.employer[b], r))

\* The amounts of a month convert to whole numbers of units.
LEMMA ConvertedAre ==
  ASSUME NEW s, Month(s), NEW r \in Rates \cup {SetupRate}
  PROVE  /\ PD!Convert(s.gross, r) \in Nat
         /\ \A b \in PD!Bodies : /\ PD!Convert(s.employee[b], r) \in Nat
                                 /\ PD!Convert(s.employer[b], r) \in Nat
<1>1. \A x \in Nat : PD!Convert(x, r) \in Nat
  <2>1. r \in Nat /\ r > 0
    BY RateIs DEF FineRate
  <2> SUFFICES ASSUME NEW x \in Nat, NEW k \in Nat, k > 0 PROVE PD!Convert(x, k) \in Nat
    BY <2>1
  <2> QED BY ConvertIs
<1> QED BY <1>1 DEF Month

\* The amounts that are signed, and their floors.
LEMMA AmountsAre ==
  ASSUME NEW s, Month(s), NEW r \in Rates \cup {SetupRate},
         NEW b \in PD!Bodies, NEW bps \in Nat, bps \in FloorBps
  PROVE  /\ PD!Convert(s.gross, r) \in Nat
         /\ PD!Convert(s.employee[b], r) \in Nat /\ PD!Convert(s.employer[b], r) \in Nat
         /\ Total(s, r, b, bps) \in Nat
         /\ Total(s, r, b, bps) >= PD!Convert(s.employee[b], r)
         /\ PD!MeetsFloor(Total(s, r, b, bps), PD!Convert(s.gross, r), bps)
<1>1. /\ PD!Convert(s.gross, r) \in Nat
      /\ PD!Convert(s.employee[b], r) \in Nat /\ PD!Convert(s.employer[b], r) \in Nat
  BY ConvertedAre
<1>2. \A G, E, M \in Nat : /\ Paid(bps, G, E, M) \in Nat /\ Paid(bps, G, E, M) >= E
                           /\ PD!MeetsFloor(Paid(bps, G, E, M), G, bps)
  <2> SUFFICES ASSUME NEW G \in Nat, NEW E \in Nat, NEW M \in Nat
               PROVE  /\ Paid(bps, G, E, M) \in Nat /\ Paid(bps, G, E, M) >= E
                      /\ PD!MeetsFloor(Paid(bps, G, E, M), G, bps)
    OBVIOUS
  <2>1. Paid(bps, G, E, M) \in Nat
    BY PaidIs
  <2>2. Paid(bps, G, E, M) >= E
    BY PaidIs
  <2>3. PD!MeetsFloor(Paid(bps, G, E, M), G, bps)
    BY PaidIs
  <2> QED BY <2>1, <2>2, <2>3
<1>3. /\ Total(s, r, b, bps) \in Nat
      /\ Total(s, r, b, bps) >= PD!Convert(s.employee[b], r)
      /\ PD!MeetsFloor(Total(s, r, b, bps), PD!Convert(s.gross, r), bps)
  BY <1>1, <1>2 DEF Total
<1> QED BY <1>1, <1>3

\* Within the budget, the floors raise a body by two units at most.
LEMMA AmountsAreNear ==
  ASSUME NEW s, Month(s), NEW r \in Rates \cup {SetupRate},
         PD!ClearsFloor(s, "epf", 2300), PD!Convert(s.gross, r) <= PD!SetupMaxPerRun
  PROVE  LET IsNear(b, bps) == Near(Total(s, r, b, bps), PD!Convert(s.employee[b], r),
                                    PD!Convert(s.employer[b], r))
         IN  /\ s.gross <= 5000 * Ringgit
             /\ IsNear("epf", 2300) /\ IsNear("socso", 225) /\ IsNear("eis", 40)
<1>1. r \in Nat /\ FineRate(r)
  BY RateIs
<1>2. /\ s.gross \in Nat
      /\ s.employee["epf"] \in Nat /\ s.employer["epf"] \in Nat
      /\ s.employee["socso"] \in Nat /\ s.employer["socso"] \in Nat
      /\ s.employee["eis"] \in Nat /\ s.employer["eis"] \in Nat
  BY DEF Month, PD!Bodies
<1>3. s.gross <= 5000 * Ringgit
  <2>1. ASSUME NEW k \in Nat, FineRate(k), NEW g \in Nat,
               PD!Convert(g, k) <= PD!SetupMaxPerRun
        PROVE  g <= 5000 * Ringgit
    BY <2>1, BelowTheCap
  <2> QED BY <1>1, <1>2, <2>1
<1>4. /\ PD!MeetsFloor(s.employee["epf"] + s.employer["epf"], s.gross, 2300)
      /\ PD!MeetsFloor(s.employee["socso"] + s.employer["socso"], s.gross, 225)
      /\ PD!MeetsFloor(s.employee["eis"] + s.employer["eis"], s.gross, 40)
  BY <1>2, <1>3 DEF Month, PD!ClearsFloor, PD!MeetsFloor
<1>5. ASSUME NEW bps \in Nat, bps \in FloorBps, NEW g \in Nat, NEW e \in Nat, NEW m \in Nat,
             PD!MeetsFloor(e + m, g, bps)
      PROVE  Near(Paid(bps, PD!Convert(g, r), PD!Convert(e, r), PD!Convert(m, r)),
                  PD!Convert(e, r), PD!Convert(m, r))
  <2>1. \A k \in Nat : FineRate(k) =>
          Near(Paid(bps, PD!Convert(g, k), PD!Convert(e, k), PD!Convert(m, k)),
               PD!Convert(e, k), PD!Convert(m, k))
    BY <1>5, RaiseOfTwo
  <2> QED BY <1>1, <2>1
<1>6. Near(Total(s, r, "epf", 2300), PD!Convert(s.employee["epf"], r),
           PD!Convert(s.employer["epf"], r))
  BY <1>2, <1>4, <1>5 DEF Total, FloorBps
<1>7. Near(Total(s, r, "socso", 225), PD!Convert(s.employee["socso"], r),
           PD!Convert(s.employer["socso"], r))
  BY <1>2, <1>4, <1>5 DEF Total, FloorBps
<1>8. Near(Total(s, r, "eis", 40), PD!Convert(s.employee["eis"], r),
           PD!Convert(s.employer["eis"], r))
  BY <1>2, <1>4, <1>5 DEF Total, FloorBps
<1> QED BY <1>3, <1>6, <1>7, <1>8

\* Of a wage that may be typed, the employee is left the floor of the net.
LEMMA NetIsLeft ==
  ASSUME NEW s, Month(s), NEW r \in Rates \cup {SetupRate},
         s.gross <= 5000 * Ringgit, s.paid >= PD!MinGross
  PROVE  PD!MeetsFloor(Net(s, r), PD!Convert(s.gross, r), 7000)
<1>1. r \in Nat /\ FineRate(r)
  BY RateIs
<1>2. /\ s.gross \in Nat /\ s.employee["epf"] \in Nat /\ s.employee["socso"] \in Nat
      /\ s.employee["eis"] \in Nat
      /\ Owed(s.gross, s.employee["epf"], s.employee["socso"], s.employee["eis"])
  BY RatesAre DEF Month, PD!Bodies, PD!MinGross, Owed
<1>3. Enough(PD!Convert(s.gross, r), PD!Convert(s.employee["epf"], r),
             PD!Convert(s.employee["socso"], r), PD!Convert(s.employee["eis"], r))
  BY <1>1, <1>2, EnoughNet
<1>4. /\ PD!Convert(s.gross, r) \in Nat /\ PD!Convert(s.employee["epf"], r) \in Nat
      /\ PD!Convert(s.employee["socso"], r) \in Nat /\ PD!Convert(s.employee["eis"], r) \in Nat
  BY ConvertedAre DEF PD!Bodies
<1> QED BY <1>3, <1>4 DEF Enough, Net, PD!MeetsFloor

\* A wage of which anything is left, is 251 units or more.
LEMMA WageIsMany ==
  ASSUME NEW s, Month(s), NEW r \in Rates \cup {SetupRate},
         PD!ClearsFloor(s, "epf", 2300), Net(s, r) > 0
  PROVE  PD!Convert(s.gross, r) >= 251
<1>1. r \in Nat /\ FineRate(r)
  BY RateIs
<1>2. s.paid > 0
  <2>1. s.gross \in Nat /\ s.gross > 0 /\ s.paid \in Nat
    BY DEF Month
  <2>2. CASE s.paid = 0
    <3>1. s.employee["epf"] = 0 /\ s.employer["epf"] = 0
      BY <2>2 DEF Month
    <3> QED BY <2>1, <3>1 DEF PD!ClearsFloor, PD!MeetsFloor
  <2> QED BY <2>1, <2>2
<1>3. s.employee["epf"] \in Nat /\ s.employee["epf"] >= 3 * Ringgit
  BY <1>2 DEF Month, PD!Bodies
<1>4. PD!Convert(s.employee["epf"], r) >= 251
  BY <1>1, <1>3, ManyUnits
<1>5. /\ PD!Convert(s.gross, r) \in Nat /\ PD!Convert(s.employee["epf"], r) \in Nat
      /\ PD!Convert(s.employee["socso"], r) \in Nat /\ PD!Convert(s.employee["eis"], r) \in Nat
  BY ConvertedAre DEF PD!Bodies
<1> QED BY <1>4, <1>5 DEF Net

\* Of the month it was worked out from.
SignedSound(s, under) ==
  /\ PD!Spend(s) \in Nat
  /\ IF under # None THEN ~PD!MeetsTheFloors(s)
     ELSE /\ s.source.paid >= PD!MinGross => PD!MeetsTheFloors(s)
          /\ \A b \in PD!Bodies : s.amounts[b] - PD!TwoLegs(s, b) \in 0..2

\* What the service signs is sound: the theorem, of one run.
LEMMA SignedIs ==
  ASSUME NEW s, Month(s), NEW r \in Rates \cup {SetupRate},
         NEW under \in PD!Bodies \cup {None},
         NEW q, q = PD!QuotePayrollSplit(s, r), q.net > 0,
         PD!Affordable(q.net + PD!SumOf(PD!Amounts(q, under))),
         PD!ClearsFloor(s, "epf", 2300),
         NEW z, z = [gross |-> q.gross, net |-> q.net,
                     amounts |-> PD!Amounts(q, under), source |-> q.source, rate |-> r]
  PROVE  SignedSound(z, under)
<1> DEFINE G == PD!Convert(s.gross, r)
           n == Net(s, r)
           E(b) == PD!Convert(s.employee[b], r)
           M(b) == PD!Convert(s.employer[b], r)
           epf == Total(s, r, "epf", 2300)
           socso == Total(s, r, "socso", 225)
           eis == Total(s, r, "eis", 40)
<1>1. /\ q.gross = G /\ q.source = s /\ q.net = n
      /\ q.total["epf"] = epf /\ q.total["socso"] = socso /\ q.total["eis"] = eis
  BY QuoteIs DEF Net, Total
<1>2. /\ G \in Nat /\ E("epf") \in Nat /\ E("socso") \in Nat /\ E("eis") \in Nat
      /\ M("epf") \in Nat /\ M("socso") \in Nat /\ M("eis") \in Nat
  BY ConvertedAre DEF PD!Bodies
<1>3. n = G - (E("epf") + E("socso") + E("eis")) /\ n > 0
  BY <1>1 DEF Net
<1>4. 2300 \in FloorBps /\ 225 \in FloorBps /\ 40 \in FloorBps
  BY DEF FloorBps
<1>c. ASSUME NEW b \in PD!Bodies, NEW bps \in Nat, bps \in FloorBps
      PROVE  /\ Total(s, r, b, bps) \in Nat /\ Total(s, r, b, bps) >= E(b)
             /\ PD!MeetsFloor(Total(s, r, b, bps), G, bps)
  BY <1>c, AmountsAre
<1>d. "epf" \in PD!Bodies /\ "socso" \in PD!Bodies /\ "eis" \in PD!Bodies
  BY DEF PD!Bodies
<1>5. epf \in Nat /\ epf >= E("epf") /\ PD!MeetsFloor(epf, G, 2300)
  BY <1>4, <1>c, <1>d
<1>6. socso \in Nat /\ socso >= E("socso") /\ PD!MeetsFloor(socso, G, 225)
  BY <1>4, <1>c, <1>d
<1>7. eis \in Nat /\ eis >= E("eis") /\ PD!MeetsFloor(eis, G, 40)
  BY <1>4, <1>c, <1>d
<1>8. z.gross = G /\ z.net = n /\ z.source = s /\ z.rate = r
      /\ z.amounts = PD!Amounts(q, under)
  BY <1>1
<1> HIDE DEF G, n, E, M, epf, socso, eis
<1> DEFINE A == PD!Amounts(q, under)
<1>a. /\ A["epf"] \in Nat /\ A["socso"] \in Nat /\ A["eis"] \in Nat
  BY <1>1, <1>5, <1>6, <1>7 DEF PD!Amounts, PD!Bodies
<1>b. PD!Spend(z) \in Nat
  <2>1. n \in Nat /\ z.net = n /\ z.amounts = A
    BY <1>2, <1>3, <1>8
  <2> QED BY <1>a, <2>1 DEF PD!Spend, PD!SumOf
<1>9. CASE under = None
  <2>1. /\ z.amounts["epf"] = epf /\ z.amounts["socso"] = socso /\ z.amounts["eis"] = eis
    BY <1>1, <1>8, <1>9, BackOfficeAssumption DEF PD!Amounts, PD!Bodies
  <2>2. n + (epf + socso + eis) <= PD!SetupMaxPerRun
    BY <1>1, <1>8, <2>1 DEF PD!Affordable, PD!SumOf
  <2>3. G <= PD!SetupMaxPerRun
    BY <1>2, <1>3, <1>5, <1>6, <1>7, <2>2, MaxPerRunIs
  <2>4. /\ s.gross <= 5000 * Ringgit
        /\ Near(epf, E("epf"), M("epf")) /\ Near(socso, E("socso"), M("socso"))
        /\ Near(eis, E("eis"), M("eis"))
    BY <2>3, AmountsAreNear DEF G, E, M, epf, socso, eis
  <2>5. \A b \in PD!Bodies : z.amounts[b] - PD!TwoLegs(z, b) \in 0..2
    BY <1>8, <2>1, <2>4 DEF PD!Bodies, PD!TwoLegs, Near, E, M
  <2>6. ASSUME s.paid >= PD!MinGross PROVE PD!MeetsTheFloors(z)
    <3>1. PD!MeetsFloor(n, G, 7000)
      BY <2>4, <2>6, NetIsLeft DEF n, G
    <3>2. n <= G /\ G > 0 /\ n \in Nat
      BY <1>2, <1>3
    <3>3. /\ PD!WageCap["epf"] \in Nat /\ PD!WageCap["socso"] \in Nat
          /\ PD!WageCap["eis"] \in Nat
      BY WageCapIs DEF PD!Bodies
    <3>4. /\ PD!MeetsFloor(epf, PD!FloorBasis(G, PD!WageCap["epf"]), 2300)
          /\ PD!MeetsFloor(socso, PD!FloorBasis(G, PD!WageCap["socso"]), 225)
          /\ PD!MeetsFloor(eis, PD!FloorBasis(G, PD!WageCap["eis"]), 40)
      BY <1>2, <1>4, <1>5, <1>6, <1>7, <3>3, WholeWageFloor
    <3>5. epf > 0 /\ socso > 0 /\ eis > 0
      BY <1>2, <1>5, <1>6, <1>7, <3>2 DEF PD!MeetsFloor
    <3> QED BY <1>8, <1>3, <2>1, <2>2, <3>1, <3>2, <3>4, <3>5, FloorsAre
         DEF PD!MeetsTheFloors, PD!Bodies, PD!NetMinBps, PD!SumOf, PD!Spend
  <2> QED BY <1>8, <1>9, <1>b, <2>5, <2>6 DEF SignedSound
<1>10. CASE under \in PD!Bodies
  <2>1. under # None
    BY <1>10, BackOfficeAssumption DEF PD!Bodies
  <2>2. G >= 251
    BY <1>3, WageIsMany DEF G, n
  <2>3. z.amounts[under] = 1
    BY <1>8, <1>10 DEF PD!Amounts
  <2>4. PD!ConfiguredFloorBps[under] \in Nat /\ PD!ConfiguredFloorBps[under] \in FloorBps
    BY <1>10, FloorsAre DEF PD!Bodies, FloorBps
  <2>5. PD!WageCap[under] \in Nat /\ (PD!WageCap[under] = 0 \/ PD!WageCap[under] >= 251)
    BY <1>10, WageCapIs
  <2>6. ~PD!MeetsFloor(1, PD!FloorBasis(G, PD!WageCap[under]), PD!ConfiguredFloorBps[under])
    BY <1>2, <2>2, <2>4, <2>5, OneIsTooLittle
  <2> QED BY <1>8, <1>10, <1>b, <2>1, <2>3, <2>6 DEF SignedSound, PD!MeetsTheFloors
<1> QED BY <1>9, <1>10

-----------------------------------------------------------------------------
(* The desk.  A run is asked for a wage that was typed, and what is signed for *)
(* it is sound whatever has changed since the split on the screen.             *)

RunIs == [at |-> run.at, approved |-> run.approved, underpay |-> run.underpay]

\* What a row says of what was signed for it, with so much left.
PaidSound(row_is, s, money) ==
  /\ row_is = "paid" => PD!MeetsTheFloors(s)
  /\ row_is = "failed" => PD!Spend(s) \in Nat /\ (PD!MeetsTheFloors(s) => PD!Spend(s) > money)

DeskInv ==
  /\ rate \in Rates \cup {SetupRate} /\ overtime \in Nat /\ leave \in Nat
  /\ shown # None \/ desk \in {"loading", "running"} => wage \in Nat /\ class \in Classes
  /\ run # None =>
       /\ desk = "running" /\ run = RunIs /\ run.underpay \in PD!Bodies \cup {None}
       /\ run.at = "signed" => SignedSound(sent, run.underpay)
  /\ sent # None =>
       /\ desk = "running" /\ run = RunIs
       /\ run.at \in {"signed", "answered", "uncertain"}
       /\ SignedSound(sent, run.underpay)
  /\ left \in Nat
  /\ PaidSound(pd_row, sent, left)

LEMMA DeskInit == PD!Init => DeskInv
  BY MaxPerRunIs DEF PD!Init, DeskInv, PaidSound

LEMMA TypeStep ==
  ASSUME DeskInv, NEW w \in Wages, NEW c \in Classes, NEW d \in DaysOff, PD!Type(w, c, d)
  PROVE  DeskInv'
<1>1. PD!GrossAfterUnpaidLeave(w, d) \in Nat
  <2>1. w \in Nat /\ d \in Nat /\ Ringgit \in Nat
    BY BackOfficeAssumption
  <2>2. /\ PD!GrossAfterUnpaidLeave(w, d) \in Int
        /\ PD!GrossAfterUnpaidLeave(w, d) >= 20 * Ringgit
    BY <2>1 DEF PD!GrossAfterUnpaidLeave, PD!Type, PD!MinGross
  <2> QED BY <2>1, <2>2
<1>2. /\ rate' = rate /\ overtime' = overtime /\ leave' = leave /\ run' = run /\ sent' = sent
      /\ pd_row' = pd_row /\ wage' \in Nat /\ class' = c /\ shown' = None /\ desk' = "loading"
      /\ left' = left
  BY <1>1 DEF PD!Type, PD!period, PD!request
<1>3. run = None /\ sent = None
  BY DEF DeskInv, PD!Type
<1> QED BY <1>2, <1>3 DEF DeskInv, PD!MeetsTheFloors, PaidSound, PD!Spend

LEMMA PreviewedStep == ASSUME DeskInv, PD!Previewed PROVE DeskInv'
<1>1. /\ rate' = rate /\ overtime' = overtime /\ leave' = leave /\ run' = run /\ sent' = sent
      /\ pd_row' = pd_row /\ wage' = wage /\ class' = class /\ desk' = "idle"
      /\ left' = left
  BY DEF PD!Previewed, PD!period, PD!request
<1>2. run = None /\ sent = None /\ wage \in Nat /\ class \in Classes
  BY DEF DeskInv, PD!Previewed
<1> QED BY <1>1, <1>2 DEF DeskInv, PD!MeetsTheFloors, PaidSound, PD!Spend

LEMMA AskToRunStep ==
  ASSUME DeskInv, NEW u \in PD!Bodies \cup {None}, PD!AskToRun(u) PROVE DeskInv'
<1>1. /\ rate' = rate /\ overtime' = overtime /\ leave' = leave /\ sent' = sent
      /\ pd_row' = pd_row /\ wage' = wage /\ class' = class /\ shown' = shown
      /\ desk' = "running" /\ left' = left
      /\ run' = [at |-> "asked", approved |-> shown.rate, underpay |-> u]
  BY DEF PD!AskToRun, PD!period
<1>2. sent = None /\ wage \in Nat /\ class \in Classes
  BY DEF DeskInv, PD!AskToRun
<1> QED BY <1>1, <1>2 DEF DeskInv, RunIs, PD!MeetsTheFloors, PaidSound, PD!Spend

LEMMA RunAnsweredStep == ASSUME DeskInv, PD!RunAnswered PROVE DeskInv'
<1>1. /\ rate' = rate /\ overtime' = overtime /\ leave' = leave /\ sent' = None
      /\ pd_row' = "none" /\ wage' = wage /\ class' = class /\ run' = None
      /\ left' = left
  BY DEF PD!RunAnswered, PD!period
<1>2. wage \in Nat /\ class \in Classes
  BY DEF DeskInv, PD!RunAnswered
<1> QED BY <1>1, <1>2 DEF DeskInv, PaidSound

\* What the service builds and may run is sound.
LEMMA ServedIsSound ==
  ASSUME DeskInv, run # None, PD!Builds(wage, class), PD!MayRun(PD!Breakdown(wage, class))
  PROVE  LET q == PD!Breakdown(wage, class) IN
         SignedSound([gross |-> q.gross, net |-> q.net,
                      amounts |-> PD!Amounts(q, run.underpay),
                      source |-> q.source, rate |-> rate], run.underpay)
<1> DEFINE s == PD!Source(wage, class)
           q == PD!Breakdown(wage, class)
<1>1. wage \in Nat /\ class \in Classes /\ overtime \in Nat /\ leave \in Nat
      /\ rate \in Rates \cup {SetupRate} /\ run.underpay \in PD!Bodies \cup {None}
  BY DEF DeskInv
<1>2. PD!Covered(class) /\ PD!Affordable(q.net + PD!SumOf(PD!Amounts(q, run.underpay)))
      /\ PD!ClearsFloor(q.source, "epf", 2300)
  BY FloorsAre DEF PD!MayRun
<1>3. leave <= wage /\ wage - leave + overtime > 0
  BY <1>1 DEF PD!Builds, PD!PeriodProblem
<1>4. q = PD!QuotePayrollSplit(s, rate) /\ q.net > 0 /\ q.source = s
  BY DEF PD!Builds, PD!Quotes, PD!Breakdown, PD!QuotePayrollSplit
<1>5. Month(s)
  BY <1>1, <1>2, <1>3, MonthIs DEF PD!Source
<1> QED BY <1>1, <1>2, <1>4, <1>5, SignedIs

LEMMA ServeRunStep == ASSUME DeskInv, PD!ServeRun PROVE DeskInv'
<1>1. /\ rate' = rate /\ overtime' = overtime /\ leave' = leave /\ wage' = wage
      /\ class' = class /\ shown' = shown /\ desk' = desk /\ left' = left
      /\ run # None /\ run.at = "asked"
  BY DEF PD!ServeRun, PD!period, PD!deskVars
<1>2. sent = None /\ desk = "running" /\ run = RunIs /\ wage \in Nat /\ class \in Classes
      /\ run.underpay \in PD!Bodies \cup {None}
  BY <1>1 DEF DeskInv
<1>3. CASE PD!Builds(wage, class) /\ PD!MayRun(PD!Breakdown(wage, class))
  <2>1. run' = [run EXCEPT !.at = "signed"] /\ pd_row' = "pending"
    BY <1>3 DEF PD!ServeRun
  <2>2. /\ run' = RunIs' /\ run'.at = "signed" /\ run'.underpay = run.underpay
    BY <1>2, <2>1 DEF RunIs
  <2>3. SignedSound(sent', run.underpay)
    BY <1>1, <1>3, ServedIsSound DEF PD!ServeRun
  <2> QED BY <1>1, <1>2, <2>1, <2>2, <2>3
       DEF DeskInv, SignedSound, PD!MeetsTheFloors, PD!TwoLegs, PaidSound, PD!Spend
<1>4. CASE ~(PD!Builds(wage, class) /\ PD!MayRun(PD!Breakdown(wage, class)))
  <2>1. run' = [run EXCEPT !.at = "refused"] /\ sent' = sent /\ pd_row' = pd_row
    BY <1>4 DEF PD!ServeRun
  <2>2. run' = RunIs' /\ run'.underpay = run.underpay
    BY <1>2, <2>1 DEF RunIs
  <2> QED BY <1>1, <1>2, <2>1, <2>2 DEF DeskInv, PD!MeetsTheFloors, PaidSound, PD!Spend
<1> QED BY <1>3, <1>4

LEMMA SettleRunStep == ASSUME DeskInv, PD!SettleRun PROVE DeskInv'
<1>1. /\ rate' = rate /\ overtime' = overtime /\ leave' = leave /\ wage' = wage
      /\ class' = class /\ shown' = shown /\ desk' = desk /\ sent' = sent
      /\ run # None /\ run.at = "signed"
  BY DEF PD!SettleRun, PD!period, PD!deskVars
<1>2. /\ run = RunIs /\ SignedSound(sent, run.underpay) /\ left \in Nat
      /\ PaidSound(pd_row, sent, left) /\ desk = "running"
      /\ run.underpay \in PD!Bodies \cup {None}
  BY <1>1 DEF DeskInv
<1>3. PICK a \in {"answered", "uncertain"} : run' = [run EXCEPT !.at = a]
  BY DEF PD!SettleRun
<1>4. run' = RunIs' /\ run'.at = a /\ run'.underpay = run.underpay
  BY <1>2, <1>3 DEF RunIs
<1>5. left' \in Nat /\ PaidSound(pd_row', sent, left')
  <2>1. CASE PD!ContractAccepts(sent) /\ left' = left - PD!Spend(sent)
             /\ pd_row' \in {"paid", pd_row}
    <3>1. PD!MeetsTheFloors(sent) /\ PD!Spend(sent) <= left /\ PD!Spend(sent) \in Nat
      BY <1>2, <2>1 DEF PD!ContractAccepts, SignedSound
    <3> QED BY <1>2, <2>1, <3>1 DEF PaidSound
  <2>2. CASE ~PD!ContractAccepts(sent) /\ left' = left /\ pd_row' = "failed"
    <3>1. PD!Spend(sent) \in Nat /\ (PD!MeetsTheFloors(sent) => PD!Spend(sent) > left)
      BY <1>2, <2>2 DEF PD!ContractAccepts, SignedSound
    <3> QED BY <1>2, <2>2, <3>1 DEF PaidSound
  <2>3. CASE left' = left /\ pd_row' = pd_row
    BY <1>2, <2>3
  <2> QED BY <2>1, <2>2, <2>3 DEF PD!SettleRun
<1>6. /\ rate' \in Rates \cup {SetupRate} /\ overtime' \in Nat /\ leave' \in Nat
      /\ shown' # None \/ desk' \in {"loading", "running"} => wage' \in Nat /\ class' \in Classes
  BY <1>1 DEF DeskInv
<1> QED BY <1>1, <1>2, <1>4, <1>5, <1>6 DEF DeskInv, SignedSound, PD!MeetsTheFloors,
           PD!TwoLegs, PD!Spend, PaidSound

LEMMA ChangeStep == ASSUME DeskInv, PD!Change PROVE DeskInv'
<1>1. /\ wage' = wage /\ class' = class /\ shown' = shown /\ desk' = desk /\ run' = run
      /\ sent' = sent /\ pd_row' = pd_row
  BY DEF PD!Change, PD!deskVars, PD!request
<1>2. rate' \in Rates \cup {SetupRate} /\ overtime' \in Nat /\ leave' \in Nat
  BY BackOfficeAssumption DEF PD!Change, DeskInv
<1>3. left' \in Nat /\ left' <= left /\ left \in Nat
  <2>1. \A c \in Commits : c \in Nat
    BY BackOfficeAssumption
  <2> QED BY <2>1 DEF PD!Change, DeskInv
<1>4. PaidSound(pd_row, sent, left')
  <2>1. PaidSound(pd_row, sent, left)
    BY DEF DeskInv
  <2> QED BY <1>3, <2>1 DEF PaidSound
<1> QED BY <1>1, <1>2, <1>3, <1>4 DEF DeskInv, RunIs, SignedSound, PD!MeetsTheFloors, PD!TwoLegs,
           PD!Spend, PaidSound

LEMMA DeskStep == ASSUME DeskInv, [PD!Next]_PD!vars PROVE DeskInv'
<1>1. CASE \E w \in Wages, c \in Classes, d \in DaysOff : PD!Type(w, c, d)
  BY <1>1, TypeStep
<1>2. CASE \E u \in PD!Bodies \cup {None} : PD!AskToRun(u)
  BY <1>2, AskToRunStep
<1>3. CASE UNCHANGED PD!vars
  BY <1>3 DEF PD!vars, PD!deskVars, PD!period, PD!request, DeskInv, RunIs, SignedSound,
              PD!MeetsTheFloors, PD!TwoLegs, PaidSound, PD!Spend
<1> QED BY <1>1, <1>2, <1>3, PreviewedStep, RunAnsweredStep, ServeRunStep, SettleRunStep,
           ChangeStep DEF PD!Next

LEMMA DeskInvariance == BackSpec => [](part = "desk" => DeskInv)
<1>1. BackInit => (part = "desk" => DeskInv)
  BY DeskInit DEF BackInit
<1>2. /\ part = "desk" => DeskInv
      /\ [BackNext]_<<part, streamVars, payrollVars, overtimeVars, setupVars>>
      => (part = "desk" => DeskInv)'
  <2> SUFFICES ASSUME part = "desk" => DeskInv,
                      [BackNext]_<<part, streamVars, payrollVars, overtimeVars, setupVars>>
               PROVE  part' = "desk" => DeskInv'
    OBVIOUS
  <2>1. CASE part = "desk" /\ PD!Next
    BY <2>1, DeskStep DEF BackNext
  <2>2. CASE part # "desk" /\ UNCHANGED part
    BY <2>2
  <2>3. CASE UNCHANGED <<part, streamVars, payrollVars, overtimeVars, setupVars>>
    <3>1. UNCHANGED PD!vars /\ UNCHANGED part
      BY <2>3 DEF payrollVars, PD!vars, PD!deskVars, PD!period, PD!request
    <3> QED BY <3>1, DeskStep
  <2> QED BY <2>1, <2>2, <2>3 DEF BackNext
<1> QED BY <1>1, <1>2, PTL DEF BackSpec

\* What the employer signs clears the floors and the limit of the contract, whatever
\* the wage, the overtime, the leave and the rate of the moment, for any rate the
\* circuit breaker lets through; where it fails, the mandate has less left than it
\* takes; the floors raise a body by two base units at most; and a run that
\* underpays a body on purpose is never paid.
THEOREM SignedRunsClearTheFloors == BackSpec => []SignedRunsMeetTheFloors
<1>1. ASSUME DeskInv PROVE PD!SignedRunsMeetTheFloors
  BY <1>1 DEF DeskInv, SignedSound, PaidSound, PD!SignedRunsMeetTheFloors
<1>2. (part = "desk" => DeskInv) => SignedRunsMeetTheFloors
  BY <1>1 DEF SignedRunsMeetTheFloors
<1> QED BY <1>2, DeskInvariance, PTL
=============================================================================
