---------------------------- MODULE AccountCodes ----------------------------
(***************************************************************************)
(* The codes that confirm an e-mail or reset a password, for one account:  *)
(* create_token and consume_token and the requests around them, statement  *)
(* by statement under READ COMMITTED.                                      *)
(*                                                                         *)
(* An UPDATE whose WHERE asks a column asks again when it has waited for   *)
(* the row.  Those of consume_token name one row by a subquery, which is   *)
(* not evaluated again.                                                    *)
(***************************************************************************)
EXTENDS Integers, FiniteSets, FiniteSetsExt

CONSTANTS
  Worker,            \* requests under way at a time
  Nobody,            \* no worker
  MaxCodes,          \* codes that are ever sent; a bound of the model
  MAX_CODE_ATTEMPTS  \* misses that one code stands

ASSUME CodeAssumption ==
  MaxCodes \in Nat /\ MAX_CODE_ATTEMPTS \in Nat \ {0} /\ Nobody \notin Worker

Kind == {"verify", "reset"}
Code == 1..MaxCodes      \* by created_at, the beginning of the request that sends it
NoCode == 0              \* no code; what someone types who has none

VARIABLES
  committed,  \* table account_token as a new statement sees it
  table,      \* the rows' latest versions
  lock,       \* the worker whose request has changed or inserted a row
  expired,    \* the codes whose expires_at is past
  req,        \* the request of each worker
  answered,   \* code -> the misses that were answered 400 for it
  took,       \* codes that were accepted
  beside      \* code -> the codes that were being sent at the same time

codeVars == <<committed, table, lock, expired, req, answered, took, beside>>

-----------------------------------------------------------------------------
Unsent == [sent |-> FALSE, kind |-> "verify", used |-> FALSE, attempts |-> 0]

Idle == [step |-> "idle", kind |-> "verify", code |-> NoCode, todo |-> {}, charged |-> NoCode,
         good |-> {}, late |-> {}, spent |-> FALSE]

View(w) == [c \in Code |-> IF lock[c] = w THEN table[c] ELSE committed[c]]
Mine(w) == {c \in Code : lock[c] = w}

\* Slip: codes that were used, too.
SentOf(t, kind) == {c \in Code : t[c].sent /\ t[c].kind = kind}

Unused(t, kind) == {c \in Code : t[c].sent /\ ~t[c].used /\ t[c].kind = kind}

\* What a request may take for active: now() is the beginning of the request.
Active(w) == Unused(View(w), req[w].kind) \ req[w].late

Newest(S) == IF S = {} THEN NoCode ELSE Max(S)

Matching(w) == Newest(Active(w) \cap {req[w].code})

Missed(r) == [r EXCEPT !.attempts = @ + 1,
                       !.used = IF r.attempts + 1 >= MAX_CODE_ATTEMPTS THEN TRUE ELSE @]

Spent(r) == [r EXCEPT !.used = TRUE]

\* Where a statement goes that finds no row to change.
Through(S, step, next) == IF S = {} THEN next ELSE step

\* The row a request is about to change, and who has it.
Row(w) == IF req[w].todo = {} THEN NoCode ELSE Max(req[w].todo)
WaitsFor(w) == IF Row(w) = NoCode THEN {} ELSE {lock[Row(w)]} \ {w, Nobody}

Sending == {w \in Worker : req[w].step \in {"retire", "insert", "sent"}}
Unlocked(w) == [c \in Code |-> IF c \in Mine(w) THEN Nobody ELSE lock[c]]

\* The statement at hand changes its row to r, or leaves it if it is r.
Put(w, r, step, next) ==
  /\ WaitsFor(w) = {}
  /\ table' = [table EXCEPT ![Row(w)] = r]
  /\ lock' = [lock EXCEPT ![Row(w)] = IF r = table[Row(w)] THEN @ ELSE w]
  /\ LET todo == req[w].todo \ {Row(w)} IN
     req' = [req EXCEPT ![w].todo = todo, ![w].step = Through(todo, step, next)]
  /\ UNCHANGED <<committed, expired, answered, took, beside>>

-----------------------------------------------------------------------------
CodesInit ==
  /\ committed = [c \in Code |-> Unsent]
  /\ table = committed
  /\ lock = [c \in Code |-> Nobody]
  /\ expired = {}
  /\ req = [w \in Worker |-> Idle]
  /\ answered = [c \in Code |-> 0] /\ took = {}
  /\ beside = [c \in Code |-> {}]

\* Codes that some request has begun to send.
Begun == {c \in Code : table[c].sent} \cup {req[w].code : w \in Sending}

\* register, verify_resend, reset_request, admin_send_reset: _send_code.
AskForCode(w, kind) ==
  /\ req[w].step = "idle" /\ Code \ Begun # {}
  /\ LET c == Min(Code \ Begun)
         others == {req[v].code : v \in Sending}
         todo == Unused(committed, kind)
     IN
     /\ \A d \in Begun : d < c
     /\ req' = [req EXCEPT ![w] = [Idle EXCEPT !.step = Through(todo, "retire", "insert"),
                                               !.kind = kind, !.code = c, !.todo = todo]]
     /\ beside' = [d \in Code |-> IF d = c THEN others
                                  ELSE IF d \in others THEN beside[d] \cup {c} ELSE beside[d]]
  /\ UNCHANGED <<committed, table, lock, expired, answered, took>>

\* create_token's UPDATE, a row at a time, and its INSERT.  Slip: it takes only
\* what has run out.
RetireExpired(w) ==
  req[w].step = "retire"
    /\ Put(w, IF Row(w) \in expired THEN Spent(table[Row(w)]) ELSE table[Row(w)], "retire", "insert")

Retire(w) == req[w].step = "retire" /\ Put(w, Spent(table[Row(w)]), "retire", "insert")

Insert(w) ==
  /\ req[w].step = "insert"
  /\ table' = [table EXCEPT ![req[w].code] = [Unsent EXCEPT !.sent = TRUE, !.kind = req[w].kind]]
  /\ lock' = [lock EXCEPT ![req[w].code] = w]
  /\ req' = [req EXCEPT ![w].step = "sent"]
  /\ UNCHANGED <<committed, expired, answered, took, beside>>

\* verify_email, reset_confirm: someone types a code, a good one or another.
Enter(w, kind, code) ==
  /\ req[w].step = "idle"
  /\ code # NoCode => committed[code].sent /\ committed[code].kind = kind
  /\ req' = [req EXCEPT ![w] = [Idle EXCEPT !.step = "look", !.kind = kind, !.code = code,
                     !.good = Unused(committed, kind), !.late = expired \cap Unused(committed, kind),
                     !.spent = code # NoCode /\ committed[code].used]]
  /\ UNCHANGED <<committed, table, lock, expired, answered, took, beside>>

\* consume_token: the subquery of the UPDATE that takes the code.
Look(w) ==
  /\ req[w].step = "look"
  /\ LET todo == {Matching(w)} \ {NoCode} IN
     req' = [req EXCEPT ![w].todo = todo, ![w].step = Through(todo, "take", "charge")]
  /\ UNCHANGED <<committed, table, lock, expired, answered, took, beside>>

\* update_password follows for a reset, set_email_verified for the other.
Take(w) ==
  /\ req[w].step = "take"
  /\ Put(w, Spent(table[Row(w)]), "take", IF req[w].kind = "reset" THEN "clear" ELSE "done")

\* update_password's second UPDATE takes its snapshot, and goes through it.
\* Slip: it spends what was sent before the code it was given.
ClearOlder(w) ==
  /\ req[w].step = "clear"
  /\ LET todo == {c \in Unused(View(w), "reset") : c < req[w].code} IN
     req' = [req EXCEPT ![w].todo = todo, ![w].step = Through(todo, "clearing", "done")]
  /\ UNCHANGED <<committed, table, lock, expired, answered, took, beside>>

Clear(w) ==
  /\ req[w].step = "clear"
  /\ LET todo == Unused(View(w), "reset") IN
     req' = [req EXCEPT ![w].todo = todo, ![w].step = Through(todo, "clearing", "done")]
  /\ UNCHANGED <<committed, table, lock, expired, answered, took, beside>>

Clearing(w) == req[w].step = "clearing" /\ Put(w, Spent(table[Row(w)]), "clearing", "done")

\* The miss is charged to the newest active code, whichever was typed.
Charge(w) ==
  /\ req[w].step = "charge"
  /\ LET c == Newest(Active(w))  todo == {c} \ {NoCode} IN
     req' = [req EXCEPT ![w].todo = todo, ![w].charged = c,
                        ![w].step = Through(todo, "charging", "missed")]
  /\ UNCHANGED <<committed, table, lock, expired, answered, took, beside>>

Charging(w) == req[w].step = "charging" /\ Put(w, Missed(table[Row(w)]), "charging", "missed")

Kept(w) == committed' = View(w) /\ UNCHANGED table
Undone(w) ==
  /\ table' = [c \in Code |-> IF c \in Mine(w) THEN committed[c] ELSE table[c]]
  /\ UNCHANGED committed

\* How a request that has reached its end leaves the table: consume_token
\* commits a miss before its caller raises.  Slip: the exception undoes it.
EndedOrUndone(w) == IF req[w].step = "missed" THEN Undone(w) ELSE Kept(w)

Ended(w) == Kept(w)

Answer(w) ==
  /\ req[w].step \in {"sent", "done", "missed"}
  /\ Ended(w)
  /\ lock' = Unlocked(w)
  /\ req' = [req EXCEPT ![w] = Idle]
  /\ answered' = [c \in Code |-> answered[c] +
                    IF req[w].step = "missed" /\ req[w].charged = c THEN 1 ELSE 0]
  /\ took' = IF req[w].step = "done" THEN took \cup {req[w].code} ELSE took
  /\ UNCHANGED <<expired, beside>>

\* A lock that is waited for too long, a circle, a crash of the process.
Fail(w) ==
  /\ req[w].step # "idle"
  /\ Undone(w)
  /\ lock' = Unlocked(w)
  /\ req' = [req EXCEPT ![w] = Idle]
  /\ UNCHANGED <<expired, answered, took, beside>>

\* Codes run out in any order: a reset's hour is shorter than the other's day.
Expire(c) ==
  /\ committed[c].sent /\ c \notin expired
  /\ expired' = expired \cup {c}
  /\ UNCHANGED <<committed, table, lock, req, answered, took, beside>>

CodesNext ==
  \/ \E w \in Worker :
       \/ \E k \in Kind : AskForCode(w, k) \/ \E c \in Code \cup {NoCode} : Enter(w, k, c)
       \/ Retire(w) \/ Insert(w) \/ Look(w) \/ Take(w) \/ Clear(w) \/ Clearing(w)
       \/ Charge(w) \/ Charging(w) \/ Answer(w) \/ Fail(w)
  \/ \E c \in Code : Expire(c)

CodesSpec == CodesInit /\ [][CodesNext]_codeVars

-----------------------------------------------------------------------------
\* Properties.

\* Two codes of a kind are good at once only if they were sent at the same
\* time: create_token retires what it sees, and does not see what another
\* request has not committed.
OneGoodCode ==
  \A k \in Kind : \A c, d \in Unused(committed, k) : c # d => c \in beside[d]

\* Every miss that was answered is counted on the code it was charged to, and
\* a code that counts MAX_CODE_ATTEMPTS is out, whatever was rolled back.
MissesCounted ==
  \A c \in Code :
    /\ committed[c].attempts = answered[c]
    /\ committed[c].attempts >= MAX_CODE_ATTEMPTS => committed[c].used

Accepts(w) == req[w].step = "done" /\ Answer(w)

\* consume_token accepts no code that was spent, retired by a newer one or out
\* of attempts before the request began; two requests that overlap may both take the same one.
SpentStaysSpent ==
  [][\A w \in Worker : Accepts(w) => ~req[w].spent]_codeVars

\* consume_token accepts no code twice, as its comment has it of two requests
\* at once.
TakenOnce ==
  [][\A w \in Worker : Accepts(w) => req[w].code \notin took]_codeVars

\* Once a password has been changed by a code, no reset code lives on that was
\* there when the request began (update_password).
ResetSpendsAll ==
  [][\A w \in Worker : Accepts(w) /\ req[w].kind = "reset" =>
       \A c \in req[w].good : committed'[c].used]_codeVars
=============================================================================
