------------------------------ MODULE LeaseTx ------------------------------
(***************************************************************************)
(* The transactions of collect_lease and ingest_html statement by          *)
(* statement and row by row, as Postgres runs them under READ COMMITTED:   *)
(* a statement sees what was committed when it began, locks the rows that *)
(* it changes until its transaction ends, waits for rows that others have  *)
(* locked, and then asks its condition again of the row as it is now.      *)
(*                                                                         *)
(* One round of transactions over a table in any state, too short for a    *)
(* task to ripen or a lease to run out.  CollectQueue takes each of these  *)
(* requests as one step; AtomicLease and CloseKeepsLease say what of that  *)
(* is true.                                                                *)
(***************************************************************************)
EXTENDS Integers, Sequences, FiniteSets, Functions

CONSTANTS
  Source, Task,    \* shops and (source, url) pairs
  SourceOf,        \* Task -> Source
  SeedOrder,       \* the configured tasks, in the order of HTML_SOURCES
  Landing,         \* pages that a hub may yield
  Card,            \* cards that seeding may add
  Label,           \* what collectors are known by
  NoOne,           \* no label; no transaction
  Leaser,          \* transactions of collect_lease
  HubPost,         \* transactions of ingest_html for a hub
  PagePost,        \* ... for a page or a card
  PageOf,          \* HubPost \cup PagePost -> Task
  ByUrl,           \* posts without a task_id
  LabelOf,         \* transaction -> Label
  Limit            \* tasks per lease

Post == HubPost \cup PagePost
Tx == Leaser \cup Post

ASSUME RoundAssumption ==
  /\ SourceOf \in [Task -> Source] /\ IsFiniteSet(Task)
  /\ Leaser \cap Post = {} /\ HubPost \cap PagePost = {}
  /\ SeedOrder \in Seq(Task) /\ SeedOrder # <<>>
  /\ Landing \subseteq Task /\ Card \subseteq Task
  /\ PageOf \in [Post -> Task] /\ ByUrl \subseteq Post
  /\ \A x \in HubPost : PageOf[x] \notin Card      \* a product card is not a hub
  /\ LabelOf \in [Tx -> Label] /\ NoOne \notin Label \cup Tx
  /\ Limit \in Nat \ {0}

VARIABLES
  tasks,       \* table collect_task as a new statement sees it
  taskRows,    \* the rows' latest versions, committed or not
  taskLock,    \* the transaction that has changed or locked a row
  tx           \* how far each transaction is

leaseVars == <<tasks, taskRows, taskLock, tx>>

-----------------------------------------------------------------------------
\* Rows: is it there, is not_before past, is the lease live, whose was it last.

TaskRow == [there : BOOLEAN, ripe : BOOLEAN, live : BOOLEAN, holder : Label \cup {NoOne}]

NewRow(ripe) == [there |-> TRUE, ripe |-> ripe, live |-> FALSE, holder |-> NoOne]
NoTask == [there |-> FALSE, ripe |-> FALSE, live |-> FALSE, holder |-> NoOne]

\* A lease puts its own row off for longer than the lease lives.
Legal(r) ==
  /\ ~r.there => r = NoTask
  /\ r.live => ~r.ripe /\ r.holder # NoOne

Sources(T) == {SourceOf[t] : t \in T}

\* A transaction sees its own changes.
Seen(x) == [t \in Task |-> IF taskLock[t] = x THEN taskRows[t] ELSE tasks[t]]

\* The orders in which a statement may come to the rows of S.
Orders(S) == Bijection(1..Cardinality(S), S)

-----------------------------------------------------------------------------
\* The conditions of the statements, asked of the rows as they are once the
\* lock is there.  Slips: ids are read first and updated without asking again.

FreeWhenRead(r) == r.there
StillFree(r) == r.there /\ r.ripe /\ ~r.live

ClosableWhenRead(x, r) == r.there
StillClosable(x, r) ==
  r.there /\ IF x \in ByUrl THEN ~r.live ELSE r.holder = LabelOf[x]

\* What a statement does to a row: the upserts of seed_tasks and
\* enqueue_pages, the INSERT of seed_card_tasks, the UPDATEs of
\* refresh_task_value, lease_tasks, complete_task and complete_by_url.
Written(x, stmt, t, r) ==
  CASE stmt \in {"seed", "cards"} -> {IF r.there THEN r ELSE NewRow(TRUE)}
    [] stmt = "enqueue" -> {IF r.there THEN r ELSE NewRow(FALSE)}
    [] stmt = "value" -> {r}
    [] stmt = "grant" ->
         {IF StillFree(r) THEN [r EXCEPT !.live = TRUE, !.holder = LabelOf[x]] ELSE r}
    [] stmt = "spread" -> {[r EXCEPT !.ripe = FALSE]}
    [] stmt = "close" ->
         IF StillClosable(x, r)
           THEN {NewRow(FALSE)} \cup IF t \in Card THEN {NoTask} ELSE {}
           ELSE {r}

\* ON CONFLICT DO NOTHING waits only while it is not decided whether the row
\* is there; every other statement waits for whoever has the row.
Waits(x) ==
  IF tx[x].todo = <<>> THEN NoOne
  ELSE LET t == Head(tx[x].todo) IN
       IF \/ taskLock[t] = x
          \/ tx[x].stmt = "cards" /\ tasks[t].there = taskRows[t].there
         THEN NoOne
         ELSE taskLock[t]

-----------------------------------------------------------------------------
\* The statements of a request, in order, and the rows each comes to.

\* Slip: the configuration is seeded at the server's start, not by every lease.
SeedAtStart(x) == {<<>>}
SeedPlans(x) == {SeedOrder}

\* One ripe row that nobody holds of each source, Limit of them.
Picks(v) ==
  LET ripe == {t \in Task : v[t].there /\ v[t].ripe /\ ~v[t].live}
      n    == Cardinality(Sources(ripe))
  IN  {K \in SUBSET ripe :
         /\ \A t, u \in K : SourceOf[t] = SourceOf[u] => t = u
         /\ Cardinality(K) = IF n < Limit THEN n ELSE Limit}

After(stmt, granted) ==
  CASE stmt = "seed" -> "cards"
    [] stmt = "cards" -> "value"
    [] stmt = "value" -> "grant"
    [] stmt = "grant" -> IF granted = {} THEN "commit" ELSE "spread"
    [] stmt = "spread" -> "commit"
    [] stmt = "enqueue" -> "close"
    [] stmt = "close" -> "commit"

Plans(x, stmt) ==
  LET v == Seen(x) IN
  CASE stmt = "cards" -> UNION {Orders(C) : C \in SUBSET {c \in Card : ~v[c].there}}
    [] stmt = "value" -> UNION {Orders(C) : C \in SUBSET {c \in Card : v[c].there}}
    [] stmt = "grant" -> UNION {Orders(K) : K \in Picks(v)}
    [] stmt = "spread" ->
         Orders({t \in Task : v[t].there /\ SourceOf[t] \in Sources(tx[x].granted)})
    [] stmt = "close" ->
         IF StillClosable(x, v[PageOf[x]]) THEN {<<PageOf[x]>>} ELSE {<<>>}
    [] stmt = "commit" -> {<<>>}

Start(x) ==
  CASE x \in Leaser -> {[stmt |-> "seed", todo |-> p, granted |-> {}] : p \in SeedPlans(x)}
    [] x \in HubPost ->
         {[stmt |-> "enqueue", todo |-> p, granted |-> {}] :
            p \in UNION {Orders(U) : U \in SUBSET {u \in Landing :
                                         SourceOf[u] = SourceOf[PageOf[x]]}}}
    [] x \in PagePost -> {[stmt |-> "enqueue", todo |-> <<>>, granted |-> {}]}

-----------------------------------------------------------------------------
LeaseInit ==
  /\ tasks \in [Task -> {r \in TaskRow : Legal(r)}]
  /\ taskRows = tasks
  /\ taskLock = [t \in Task |-> NoOne]
  /\ tx \in {f \in [Tx -> UNION {Start(x) : x \in Tx}] : \A x \in Tx : f[x] \in Start(x)}

\* The statement comes to its next row.
Touch(x) ==
  /\ tx[x].todo # <<>> /\ Waits(x) = NoOne
  /\ LET t == Head(tx[x].todo) IN
     \E r \in Written(x, tx[x].stmt, t, taskRows[t]) :
       /\ taskRows' = [taskRows EXCEPT ![t] = r]
       /\ taskLock' = [taskLock EXCEPT ![t] = IF \/ tx[x].stmt = "cards" /\ taskRows[t].there
                                                 \/ ~taskRows[t].there /\ ~r.there
                                                THEN @ ELSE x]
       /\ tx' = [tx EXCEPT ![x].todo = Tail(@),
                           ![x].granted = IF tx[x].stmt = "grant" /\ r # taskRows[t]
                                            THEN @ \cup {t} ELSE @]
  /\ UNCHANGED tasks

\* The next statement begins and takes its snapshot.
Statement(x) ==
  /\ tx[x].todo = <<>> /\ tx[x].stmt \notin {"commit", "done"}
  /\ LET stmt == After(tx[x].stmt, tx[x].granted) IN
     \E p \in Plans(x, stmt) : tx' = [tx EXCEPT ![x].stmt = stmt, ![x].todo = p]
  /\ UNCHANGED <<tasks, taskRows, taskLock>>

Held(x) == {t \in Task : taskLock[t] = x}

CommitTx(x) ==
  /\ tx[x].stmt = "commit"
  /\ tasks' = [t \in Task |-> IF t \in Held(x) THEN taskRows[t] ELSE tasks[t]]
  /\ taskLock' = [t \in Task |-> IF t \in Held(x) THEN NoOne ELSE taskLock[t]]
  /\ tx' = [tx EXCEPT ![x].stmt = "done"]
  /\ UNCHANGED taskRows

\* lock_timeout, or the deadlock detector; the request is answered 500.
AbortTx(x) ==
  /\ Waits(x) # NoOne
  /\ taskRows' = [t \in Task |-> IF t \in Held(x) THEN tasks[t] ELSE taskRows[t]]
  /\ taskLock' = [t \in Task |-> IF t \in Held(x) THEN NoOne ELSE taskLock[t]]
  /\ tx' = [tx EXCEPT ![x] = [stmt |-> "done", todo |-> <<>>, granted |-> {}]]
  /\ UNCHANGED tasks

LeaseNext == \E x \in Tx : Touch(x) \/ Statement(x) \/ CommitTx(x) \/ AbortTx(x)

LeaseSpec == LeaseInit /\ [][LeaseNext]_leaseVars

-----------------------------------------------------------------------------
\* Properties.

CommitsTx(x) == tx[x].stmt = "commit" /\ tx'[x].stmt = "done"

\* lease_tasks hands tasks out atomically, whatever other requests did between
\* its statements: seen from the table it commits to, it gave out ripe rows
\* (or rows it seeded) that nobody held, one of a shop, left no other row of
\* those shops ripe, and took no other lease away or gave one out.
AtomicLease ==
  [][\A x \in Leaser : CommitsTx(x) =>
       LET granted == tx[x].granted IN
       /\ \A t \in granted : tasks[t].there => tasks[t].ripe /\ ~tasks[t].live
       /\ \A t, u \in granted : SourceOf[t] = SourceOf[u] => t = u
       /\ \A t \in Task : SourceOf[t] \in Sources(granted) => ~tasks'[t].ripe
       /\ \A t \in Task \ granted : /\ tasks'[t].live = tasks[t].live
                                    /\ tasks'[t].holder = tasks[t].holder]_leaseVars

\* A page posted while a lease is being granted does not end that lease:
\* neither by task_id after its own lease ran out and the task was given to
\* another collector, nor by url.
CloseKeepsLease ==
  [][\A x \in Post : CommitsTx(x) =>
       \A t \in Task :
         tasks[t].live /\ tasks[t].holder # LabelOf[x]
           => tasks'[t].live /\ tasks'[t].holder = tasks[t].holder]_leaseVars

\* Transactions wait for each other in a circle only around a discovery, which
\* comes to its landings before its hub: leases come to the configured rows in
\* one order before they touch any other, and a page's post to its row alone.
CircleNeedsDiscovery ==
  \A C \in SUBSET (Tx \ HubPost) : C # {} => \E x \in C : Waits(x) \notin C
=============================================================================
