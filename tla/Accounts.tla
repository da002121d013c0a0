------------------------------ MODULE Accounts ------------------------------
(***************************************************************************)
(* Rights: the requests that change an account's role or ban it, and those *)
(* that delete it, statement by statement as Postgres runs them under READ *)
(* COMMITTED.  The gate, the target and the count of other administrators  *)
(* are read before anything is locked; the audit's foreign keys hold the   *)
(* rows of actor and target with FOR KEY SHARE until the request ends.     *)
(*                                                                         *)
(* A request is taken up by one of the workers of the thread pool, which   *)
(* then takes another: any number of requests, Worker of them at a time.   *)
(***************************************************************************)
EXTENDS Integers, FiniteSets

CONSTANTS
  Account,    \* the ids of app_user
  Worker,     \* requests under way at a time
  Nobody      \* no account; no worker

ASSUME AccountAssumption == Nobody \notin Account \cup Worker

VARIABLES
  committed,  \* table app_user as a new statement sees it
  table,      \* the rows' latest versions
  lock,       \* the worker whose request has changed or deleted a row
  share,      \* the workers that hold a row FOR KEY SHARE
  req         \* the request of each worker

vars == <<committed, table, lock, share, req>>

-----------------------------------------------------------------------------
\* (A collector has the rights of a user in all that is modelled here.)
Role == {"user", "moderator", "admin"}

Gone == [there |-> FALSE, role |-> "user", active |-> FALSE]
Row == {r \in [there : BOOLEAN, role : Role, active : BOOLEAN] : ~r.there => r = Gone}

Rank(r) == CASE r.role = "admin" -> 3 [] r.role = "moderator" -> 2 [] OTHER -> 1

\* What a request is to do to its target.
Change ==
  [do : {"role"}, to : Role] \cup [do : {"active"}, to : BOOLEAN]
    \cup [do : {"delete", "leave"}, to : {FALSE}]

Idle == [step |-> "idle", actor |-> Nobody, rank |-> 1, target |-> Nobody,
         change |-> [do |-> "leave", to |-> FALSE], late |-> FALSE]

ActiveAdmins(t) == {u \in Account : t[u].role = "admin" /\ t[u].active}

\* A request sees its own changes.
View(w) == [u \in Account |-> IF lock[u] = w THEN table[u] ELSE committed[u]]

Mine(w) == {u \in Account : lock[u] = w}

-----------------------------------------------------------------------------
\* The gates: require_admin, require_moderator, require_active_account.

MayAsk(r, c) ==
  /\ r.there /\ r.active
  /\ Rank(r) >= CASE c.do \in {"role", "delete"} -> 3
                  [] c.do = "active" -> 2
                  [] c.do = "leave" -> 1

\* Nobody does it to himself; whoever leaves does it to nobody else.
SelfRule(actor, target, c) == (actor = target) = (c.do = "leave")

\* A request that may take an administrator away counts the others first.
Removes(r, c) ==
  /\ r.role = "admin"
  /\ CASE c.do = "role" -> c.to # "admin"
       [] c.do = "active" -> ~c.to
       [] OTHER -> TRUE

\* Slip: the target counts, too.
SomebodyAdministers(t, target) == ActiveAdmins(t) # {}

OthersAdminister(t, target) == ActiveAdmins(t) \ {target} # {}

\* A moderator's ban is for those who are neither.  Slip: for all but administrators.
WithinReachOfModerators(rank, r, c) == c.do = "active" /\ rank = 2 => Rank(r) <= 2

WithinReach(rank, r, c) == c.do = "active" /\ rank = 2 => Rank(r) = 1

Erases(c) == c.do \in {"delete", "leave"}

Changed(r, c) ==
  IF ~r.there \/ Erases(c) THEN Gone
  ELSE IF c.do = "role" THEN [r EXCEPT !.role = c.to] ELSE [r EXCEPT !.active = c.to]

\* Who has to end before the statement at hand can go on.  An UPDATE waits
\* for whoever changed the row, a DELETE for its key holders too; a foreign
\* key waits only for a row that is being deleted.  Slip: for one that is changed.
KeyWaitsForAny(w, u) == {lock[u]} \ {w, Nobody}

KeyWaits(w, u) == IF lock[u] # w /\ ~table[u].there THEN {lock[u]} \ {Nobody} ELSE {}

WaitsFor(w) ==
  LET q == req[w] IN
  CASE q.step = "write" ->
         ({lock[q.target]} \cup IF Erases(q.change) THEN share[q.target] ELSE {})
           \ {w, Nobody}
    [] q.step = "audit" -> KeyWaits(w, q.actor) \cup KeyWaits(w, q.target)
    [] OTHER -> {}

-----------------------------------------------------------------------------
Init ==
  /\ committed \in {t \in [Account -> Row] : ActiveAdmins(t) # {}}
  /\ table = committed
  /\ lock = [u \in Account |-> Nobody]
  /\ share = [u \in Account |-> {}]
  /\ req = [w \in Worker |-> Idle]

\* The gate's statement; what it refuses leaves no trace.
Ask(w, actor, target, c) ==
  /\ req[w].step = "idle"
  /\ MayAsk(committed[actor], c) /\ SelfRule(actor, target, c)
  /\ req' = [req EXCEPT ![w] =
               [step |-> "read", actor |-> actor, rank |-> Rank(committed[actor]),
                target |-> target, change |-> c, late |-> FALSE]]
  /\ UNCHANGED <<committed, table, lock, share>>

\* The first statement that changes anything: the audit goes before a DELETE.
\* Slip: after it, as for other changes.
FirstWrites(c) == "write"

First(c) == IF Erases(c) THEN "audit" ELSE "write"

ReadTarget(w) ==
  /\ req[w].step = "read"
  /\ LET q == req[w]  r == committed[q.target] IN
     req' = [req EXCEPT ![w] =
       IF ~r.there \/ ~WithinReach(q.rank, r, q.change) THEN Idle
       ELSE [q EXCEPT !.late = FALSE,
                      !.step = IF Removes(r, q.change) THEN "count" ELSE First(q.change)]]
  /\ UNCHANGED <<committed, table, lock, share>>

CountAdmins(w) ==
  /\ req[w].step = "count"
  /\ LET q == req[w] IN
     req' = [req EXCEPT ![w] =
       IF OthersAdminister(committed, q.target)
         THEN [q EXCEPT !.late = FALSE, !.step = First(q.change)]
         ELSE Idle]
  /\ UNCHANGED <<committed, table, lock, share>>

Write(w) ==
  /\ req[w].step = "write" /\ WaitsFor(w) = {}
  /\ LET q == req[w] IN
     /\ table' = [table EXCEPT ![q.target] = Changed(@, q.change)]
     /\ lock' = [lock EXCEPT ![q.target] = IF table[q.target].there THEN w ELSE @]
     /\ req' = [req EXCEPT ![w].step = IF Erases(q.change) THEN "commit" ELSE "audit"]
  /\ UNCHANGED <<committed, share>>

Dropped(w) == [u \in Account |-> share[u] \ {w}]
Unlocked(w) == [u \in Account |-> IF u \in Mine(w) THEN Nobody ELSE lock[u]]

\* The request ends without effect: an exception, a lock that is waited for
\* too long, a circle that Postgres breaks.
Undo(w) ==
  /\ table' = [u \in Account |-> IF u \in Mine(w) THEN committed[u] ELSE table[u]]
  /\ lock' = Unlocked(w)
  /\ share' = Dropped(w)
  /\ req' = [req EXCEPT ![w] = Idle]
  /\ UNCHANGED committed

\* An entry of the audit must name accounts that are there.
Audit(w) ==
  /\ req[w].step = "audit" /\ WaitsFor(w) = {}
  /\ LET q == req[w]  named == {q.actor, q.target} IN
     IF \A u \in named : table[u].there
       THEN /\ share' = [u \in Account |-> IF u \in named THEN share[u] \cup {w} ELSE share[u]]
            /\ req' = [req EXCEPT ![w].step = IF Erases(q.change) THEN "write" ELSE "commit"]
            /\ UNCHANGED <<committed, table, lock>>
       ELSE Undo(w)

Commit(w) ==
  /\ req[w].step = "commit"
  /\ committed' = View(w)
  /\ lock' = Unlocked(w)
  /\ share' = Dropped(w)
  /\ req' = [v \in Worker |-> IF v = w THEN Idle
                              ELSE [req[v] EXCEPT !.late = @ \/ req[v].step # "idle"]]
  /\ UNCHANGED table

TimeOut(w) == WaitsFor(w) # {} /\ Undo(w)

\* A new account is a user; its id was never another's.
Register(u) ==
  /\ ~table[u].there /\ lock[u] = Nobody
  /\ \A w \in Worker : u \notin {req[w].actor, req[w].target}
  /\ committed' = [committed EXCEPT ![u] = [there |-> TRUE, role |-> "user", active |-> TRUE]]
  /\ table' = [table EXCEPT ![u] = committed'[u]]
  /\ UNCHANGED <<lock, share, req>>

Next ==
  \/ \E w \in Worker :
       \/ \E a, t \in Account, c \in Change : Ask(w, a, t, c)
       \/ ReadTarget(w) \/ CountAdmins(w) \/ Write(w) \/ Audit(w) \/ Commit(w) \/ TimeOut(w)
  \/ \E u \in Account : Register(u)

Spec == Init /\ [][Next]_vars

-----------------------------------------------------------------------------
\* Properties.

Commits(w) == req[w].step = "commit" /\ req'[w].step = "idle"

\* Every row of app_user, request and lock has its type, and only the request
\* that holds a row has changed it.
TypeOK ==
  /\ committed \in [Account -> Row] /\ table \in [Account -> Row]
  /\ lock \in [Account -> Worker \cup {Nobody}]
  /\ share \in [Account -> SUBSET Worker]
  /\ req \in [Worker -> [step : {"idle", "read", "count", "write", "audit", "commit"},
                         actor : Account \cup {Nobody}, rank : 1..3,
                         target : Account \cup {Nobody}, change : Change, late : BOOLEAN]]
  /\ \A u \in Account : lock[u] = Nobody => table[u] = committed[u]

\* The system is left without an active administrator only by a request that
\* another one overtook after its last check (set_user_role, set_user_active,
\* delete_user and delete_own_account count before they lock anything).
AdminLostOnlyLate ==
  [][\A w \in Worker :
       Commits(w) /\ ActiveAdmins(committed) # {} /\ ActiveAdmins(committed') = {}
         => req[w].late]_vars

\* What an administrator or moderator changes is committed while his account
\* is still there, and so is what he does to an account: the audit's foreign
\* keys hold both until the request has ended, so that two administrators
\* never delete each other.
ActorOutlivesAction ==
  [][\A w \in Worker :
       Commits(w) /\ req[w].change.do # "leave" /\ committed' # committed
         => committed'[req[w].actor].there]_vars

\* A moderator's ban takes an administrator's or a moderator's account only if
\* it was made one after set_user_active had looked.
ModeratorWithinReach ==
  [][\A w \in Worker :
       Commits(w) /\ req[w].rank = 2 /\ committed' # committed
         /\ Rank(committed[req[w].target]) > 1 /\ req[w].change.do = "active"
         => req[w].late]_vars

\* Requests wait for each other in a circle only where an account is deleted:
\* role changes and bans lock one row each before they name it and the actor,
\* and the foreign keys do not wait for a row that only changes.
CircleNeedsDeletions ==
  \A C \in SUBSET Worker :
    C # {} /\ (\A w \in C : WaitsFor(w) \cap C # {})
      => \E w \in C : Erases(req[w].change)
=============================================================================
