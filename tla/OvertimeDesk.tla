---------------------------- MODULE OvertimeDesk ----------------------------
(***************************************************************************)
(* Overtime and leave, from the request to the decision: the employee's    *)
(* two forms (components/overtime/OvertimeClaimForm.tsx,                   *)
(* components/leave/LeaveRequestForm.tsx), the employer's queue            *)
(* (components/overtime/ApprovalQueue.tsx), the service between            *)
(* (server/overtime/service.ts) and the store that uses memory until the   *)
(* tables exist (server/overtime/store.ts).                                *)
(*                                                                         *)
(* One employee.  How a payroll run counts and settles approved overtime   *)
(* is PayrollRuns'.                                                        *)
(***************************************************************************)
EXTENDS Naturals

CONSTANTS
  Forms,        \* open forms of the employee
  Desks,        \* open approval queues of the employer
  Asks,         \* what is asked for: [kind, day]
  Items,        \* bound: claims and requests ever made
  MaxRestarts,  \* bound: restarts of the server
  MaxTurns,     \* bound, by call: how often a screen makes it
  None

Screens == Forms \cup Desks

\* What a screen has under way: a reading of its list, and something it sends.
Calls == Screens \X {"list", "act"}

VARIABLES
  \* the screens: the rows last read, whether the notice above them says they
  \* are saved, where the form or the dialog is, and the decision a queue names
  \* as recorded
  listing, saved, form, said,
  \* the calls: stage and place in it, what is asked, what the store answered,
  \* and how often a screen has called
  pc, at, wants, got, turns,
  \* overtime_claims, leave_requests and the memory in their stead
  where, ask, status,
  \* the database has the tables; fallbackStore's three flags; the process
  migrated, latched, used_backup, proven, restarts

screens == <<listing, saved, form, said>>
calls == <<pc, at, wants, got, turns>>
rows == <<where, ask, status>>
flags == <<latched, used_backup, proven>>
vars == <<screens, calls, rows, flags, migrated, restarts>>

-----------------------------------------------------------------------------
(* Mutations: definitions with one plausible mistake each, used nowhere.      *)

\* The decision is written whatever has been decided meanwhile.
AsFound(i) == TRUE

-----------------------------------------------------------------------------
(* The tables, and the memory in their stead *)

Rows(store) == [i \in Items |-> IF where[i] = store THEN status[i] ELSE None]

\* One live claim a day, which the database holds to and memory does not.
DayTaken(store, a) ==
  store = "db" /\ a.kind = "overtime" /\
  \E i \in Items : where[i] = "db" /\ ask[i] = a /\ status[i] # "rejected"

\* decideClaim, decideLeave: the status is part of the update.
Undecided(i) == status[i] = "submitted"

NewItem(i) == where[i] = "none" /\ \A j \in Items : j < i => where[j] # "none"

\* What a call does to the store it reaches, and what it learns there.
Learn(c, store, x) ==
  \/ pc[c] \in {"list", "check", "find"} /\ x = Rows(store) /\ UNCHANGED rows
  \/ /\ pc[c] = "create"
     /\ IF x = None THEN DayTaken(store, wants[c]) /\ UNCHANGED rows
        ELSE /\ NewItem(x) /\ ~DayTaken(store, wants[c])
             /\ where' = [where EXCEPT ![x] = store]
             /\ ask' = [ask EXCEPT ![x] = wants[c]]
             /\ status' = [status EXCEPT ![x] = "submitted"]
  \/ /\ pc[c] = "decide"
     /\ LET i == wants[c].item
            here == where[i] = store /\ Undecided(i)
        IN  /\ x = IF here THEN i ELSE None
            /\ status' = IF here THEN [status EXCEPT ![i] = wants[c].decision] ELSE status
            /\ UNCHANGED <<where, ask>>

Answers(c) ==
  IF pc[c] \in {"list", "check", "find"} THEN {Rows("db"), Rows("memory")} ELSE Items \cup {None}

-----------------------------------------------------------------------------
(* createOvertimeService, on top of it *)

\* submitClaim: the employee's live claims must leave the day free.
DayFree(c, found) ==
  ~\E i \in Items : found[i] \notin {None, "rejected"} /\ ask[i] = wants[c]

\* reviewClaim, reviewLeave
Waiting(c, found) == found[wants[c].item] = "submitted"

\* The call that follows an answer of the store, or the end.
After(c, x) ==
  CASE pc[c] = "list" -> "listed"
    [] pc[c] = "check" -> IF DayFree(c, x) THEN "create" ELSE "refused"
    [] pc[c] = "find" -> IF Waiting(c, x) THEN "decide" ELSE "refused"
    [] OTHER -> IF x = None THEN "refused" ELSE "done"

Asking == {"list", "check", "find", "create", "decide"}

Continue(c, x) ==
  /\ pc' = [pc EXCEPT ![c] = After(c, x)]
  /\ at' = [at EXCEPT ![c] = IF After(c, x) \in Asking THEN "called" ELSE "over"]
  /\ got' = [got EXCEPT ![c] = IF pc[c] = "list" THEN x ELSE None]

Serving(c) == UNCHANGED <<screens, wants, turns, migrated, restarts>>

\* The calls after which the store stays with memory.
Latches == {"create", "decide"}

\* attempt: memory once latched, or else the database, which answers later.
Reach(c) ==
  /\ pc[c] \in Asking /\ at[c] = "called"
  /\ IF latched
     THEN \E x \in Answers(c) : Learn(c, "memory", x) /\ Continue(c, x)
     ELSE IF migrated
     THEN \E x \in Answers(c) :
            /\ Learn(c, "db", x)
            /\ at' = [at EXCEPT ![c] = "reached"] /\ got' = [got EXCEPT ![c] = x]
            /\ UNCHANGED pc
     ELSE at' = [at EXCEPT ![c] = "missing"] /\ UNCHANGED <<rows, got, pc>>
  /\ UNCHANGED flags /\ Serving(c)

Return(c) ==
  /\ \/ /\ at[c] = "reached"
        /\ used_backup' = FALSE /\ proven' = TRUE
        /\ Continue(c, got[c])
        /\ UNCHANGED <<latched, rows>>
     \/ /\ at[c] = "missing"
        /\ used_backup' = TRUE /\ latched' = (latched \/ pc[c] \in Latches)
        /\ \E x \in Answers(c) : Learn(c, "memory", x) /\ Continue(c, x)
        /\ UNCHANGED proven
  /\ Serving(c)

\* The session is over, a call of the database fails.
Fail(c) ==
  /\ at[c] = "called"
  /\ pc' = [pc EXCEPT ![c] = "refused"] /\ at' = [at EXCEPT ![c] = "over"]
  /\ UNCHANGED <<got, rows, flags>> /\ Serving(c)

\* persisted()
Persisted == proven /\ ~latched /\ ~used_backup

-----------------------------------------------------------------------------
(* The screens *)

Call(c, s, x) ==
  /\ pc[c] = "idle" /\ turns[c] < MaxTurns[c]
  /\ pc' = [pc EXCEPT ![c] = s] /\ at' = [at EXCEPT ![c] = "called"]
  /\ wants' = [wants EXCEPT ![c] = x]
  /\ turns' = [turns EXCEPT ![c] = @ + 1]
  /\ UNCHANGED got

Free(c) ==
  /\ pc' = [pc EXCEPT ![c] = "idle"] /\ at' = [at EXCEPT ![c] = None]
  /\ wants' = [wants EXCEPT ![c] = None] /\ got' = [got EXCEPT ![c] = None]
  /\ UNCHANGED turns

Behind == UNCHANGED <<rows, flags, migrated, restarts>>

\* load, and the effect of the forms: when the screen opens, when something it
\* sent was recorded, and at a press of "Refresh".
AskList(s) == Call(<<s, "list">>, "list", None) /\ UNCHANGED screens /\ Behind

\* The route asks whether the rows are saved after the store has given them.
ListAnswered(s) ==
  LET c == <<s, "list">> IN
  /\ pc[c] = "listed"
  /\ listing' = [listing EXCEPT ![s] = got[c]]
  /\ saved' = [saved EXCEPT ![s] = Persisted]
  /\ Free(c)
  /\ UNCHANGED <<form, said>> /\ Behind

\* No list: a form forgets the one it had, the queue keeps it.
ListFails(s) ==
  LET c == <<s, "list">> IN
  /\ pc[c] # "idle"
  /\ IF s \in Forms
     THEN /\ listing' = [listing EXCEPT ![s] = [i \in Items |-> None]]
          /\ saved' = [saved EXCEPT ![s] = FALSE]
     ELSE UNCHANGED <<listing, saved>>
  /\ Free(c)
  /\ UNCHANGED <<form, said>> /\ Behind

\* checkOvertimeClaim and checkLeaveRequest, against the list on the screen.
Blocked(t, a) ==
  \E i \in Items : listing[t][i] \notin {None, "rejected"} /\ ask[i] = a

\* onSubmit.  The service asks no list about leave.
Send(t, a) ==
  /\ form[t] # "sending" /\ ~Blocked(t, a)
  /\ form' = [form EXCEPT ![t] = "sending"]
  /\ Call(<<t, "act">>, IF a.kind = "overtime" THEN "check" ELSE "create", a)
  /\ UNCHANGED <<listing, saved, said>> /\ Behind

\* "Sent to the employer." -- or "This claim was not sent", which is also what a
\* form says of an answer that did not come.
FormAnswered(t) ==
  LET c == <<t, "act">> IN
  /\ form[t] = "sending"
  /\ \/ pc[c] = "done" /\ form' = [form EXCEPT ![t] = "sent"] /\ Free(c)
     \/ pc[c] = "refused" /\ form' = [form EXCEPT ![t] = "failed"] /\ Free(c)
     \/ form' = [form EXCEPT ![t] = "failed"] /\ UNCHANGED calls
  /\ UNCHANGED <<listing, saved, said>> /\ Behind

\* openReview and submit: a decision on a row the queue shows as waiting.
Review(d, i, decision) ==
  /\ form[d] # "sending" /\ listing[d][i] = "submitted"
  /\ form' = [form EXCEPT ![d] = "sending"]
  /\ said' = [said EXCEPT ![d] = None]
  /\ Call(<<d, "act">>, "find", [item |-> i, decision |-> decision])
  /\ UNCHANGED <<listing, saved>> /\ Behind

\* "Recorded: ...", of the row the server sends back; or its refusal, or an error.
ReviewAnswered(d) ==
  LET c == <<d, "act">> IN
  /\ form[d] = "sending"
  /\ \/ /\ pc[c] = "done" /\ Free(c)
        /\ form' = [form EXCEPT ![d] = "sent"] /\ said' = [said EXCEPT ![d] = wants[c]]
     \/ /\ pc[c] = "refused" /\ Free(c)
        /\ form' = [form EXCEPT ![d] = "failed"] /\ UNCHANGED said
     \/ form' = [form EXCEPT ![d] = "failed"] /\ UNCHANGED <<calls, said>>
  /\ UNCHANGED <<listing, saved>> /\ Behind

\* The answer of a call its screen gave up on goes nowhere.
Dropped(c) ==
  /\ c[2] = "act" /\ pc[c] \in {"done", "refused"}
  /\ form[c[1]] # "sending"
  /\ Free(c)
  /\ UNCHANGED screens /\ Behind

-----------------------------------------------------------------------------
(* Everything else *)

\* settleClaims, for a run that paid the approved overtime.  It too latches.
Settle ==
  LET store == IF migrated /\ ~latched THEN "db" ELSE "memory"
      due == {i \in Items : where[i] = store /\ ask[i].kind = "overtime" /\ status[i] = "approved"}
  IN  /\ due # {}
      /\ status' = [i \in Items |-> IF i \in due THEN "paid" ELSE status[i]]
      /\ IF latched THEN UNCHANGED flags
         ELSE IF migrated THEN used_backup' = FALSE /\ proven' = TRUE /\ UNCHANGED latched
         ELSE used_backup' = TRUE /\ latched' = TRUE /\ UNCHANGED proven
      /\ UNCHANGED <<screens, calls, where, ask, migrated, restarts>>

\* The migration is applied while the server runs.
Migrate ==
  /\ ~migrated /\ migrated' = TRUE
  /\ UNCHANGED <<screens, calls, rows, flags, restarts>>

\* What the memory held is lost, and so is every call under way.
Restart ==
  /\ restarts < MaxRestarts /\ restarts' = restarts + 1
  /\ where' = [i \in Items |-> IF where[i] = "memory" THEN "lost" ELSE where[i]]
  /\ latched' = FALSE /\ used_backup' = FALSE /\ proven' = FALSE
  /\ pc' = [c \in Calls |-> IF pc[c] = "idle" THEN "idle" ELSE "refused"]
  /\ at' = [c \in Calls |-> IF pc[c] = "idle" THEN None ELSE "over"]
  /\ got' = [c \in Calls |-> None]
  /\ UNCHANGED <<screens, wants, turns, ask, status, migrated>>

-----------------------------------------------------------------------------
Init ==
  /\ listing = [s \in Screens |-> [i \in Items |-> None]]
  /\ saved = [s \in Screens |-> FALSE]
  /\ form = [s \in Screens |-> "idle"] /\ said = [s \in Screens |-> None]
  /\ pc = [c \in Calls |-> "idle"] /\ at = [c \in Calls |-> None]
  /\ wants = [c \in Calls |-> None] /\ got = [c \in Calls |-> None]
  /\ turns = [c \in Calls |-> 0]
  /\ where = [i \in Items |-> "none"]
  /\ ask = [i \in Items |-> None] /\ status = [i \in Items |-> None]
  /\ migrated = FALSE
  /\ latched = FALSE /\ used_backup = FALSE /\ proven = FALSE
  /\ restarts = 0

Screen(s) ==
  \/ AskList(s) \/ ListAnswered(s) \/ ListFails(s)
  \/ s \in Forms /\ (FormAnswered(s) \/ \E a \in Asks : Send(s, a))
  \/ /\ s \in Desks
     /\ \/ ReviewAnswered(s)
        \/ \E i \in Items, x \in {"approved", "rejected"} : Review(s, i, x)

Serve(c) ==
  Reach(c) \/ Return(c) \/ Fail(c) \/ Dropped(c)

Next ==
  \/ \E s \in Screens : Screen(s)
  \/ \E c \in Calls : Serve(c)
  \/ Settle \/ Migrate \/ Restart

Spec == Init /\ [][Next]_vars

-----------------------------------------------------------------------------
(* Properties *)

\* What a decision may become.
Stands(decision) == IF decision = "approved" THEN {"approved", "paid"} ELSE {decision}

\* A decision the employer was told is recorded stands -- nobody who decided the
\* same row from another window replaced it -- unless the row was one of those
\* the notice called unsaved; and no row under a notice that calls it saved goes
\* with the server, whenever in between the tables were created.
RecordedIsKept ==
  /\ \A d \in Desks :
       said[d] # None =>
         \/ where[said[d].item] = "lost"
         \/ status[said[d].item] \in Stands(said[d].decision)
  /\ \A s \in Screens, i \in Items :
       saved[s] /\ listing[s][i] # None => where[i] = "db"
=============================================================================
