---------------------------- MODULE LeaseTxProofs ----------------------------
(***************************************************************************)
(* The transactions of the lease queue, for any number of shops, tasks and *)
(* requests.  The argument: a row that nobody has locked is as committed;  *)
(* what a transaction has made of the rows it has locked is known of the   *)
(* two kinds of transactions (LeaserSound, PostSound); and the first row   *)
(* that seeding comes to keeps leases apart until they end.                *)
(***************************************************************************)
EXTENDS LeaseTx, FiniteSetTheorems, SequenceTheorems, TLAPS

Stmt == {"seed", "cards", "value", "grant", "spread", "enqueue", "close", "commit", "done"}

Types ==
  /\ tasks \in [Task -> TaskRow]
  /\ taskRows \in [Task -> TaskRow]
  /\ taskLock \in [Task -> Tx \cup {NoOne}]
  /\ tx \in [Tx -> [stmt : Stmt, todo : Seq(Task), granted : SUBSET Task]]

\* A row that is not there says nothing; a row that nobody has locked is as
\* committed; a locked row is there for somebody.
RowsSound ==
  \A t \in Task :
    /\ ~tasks[t].there => tasks[t] = NoTask
    /\ ~taskRows[t].there => taskRows[t] = NoTask
    /\ taskLock[t] = NoOne => taskRows[t] = tasks[t]
    /\ taskLock[t] # NoOne => taskRows[t].there \/ tasks[t].there

\* The first row of seeding, which every lease holds from then on.
FirstSeed == Head(SeedOrder)

AtStart(x) == tx[x].stmt = "seed" /\ tx[x].todo = SeedOrder

HoldsNone(x) == \A t \in Task : taskLock[t] # x

\* The rows that x has still to put off, of the shops that it gave out.
Unspread(x) ==
  {t \in Task : SourceOf[t] \in Sources(tx[x].granted) /\ Seen(x)[t].ripe}

LeaserSound(x) ==
  /\ tx[x].stmt \in Stmt \ {"enqueue", "close"}
  /\ IF AtStart(x) \/ tx[x].stmt = "done" THEN HoldsNone(x) ELSE taskLock[FirstSeed] = x
  /\ tx[x].stmt = "seed" => tx[x].todo = SeedOrder \/ Len(tx[x].todo) < Len(SeedOrder)
  /\ tx[x].stmt \in {"seed", "cards", "value"} => tx[x].granted = {}
  /\ \A t, u \in tx[x].granted \cup (IF tx[x].stmt = "grant" THEN Range(tx[x].todo) ELSE {}) :
       SourceOf[t] = SourceOf[u] => t = u
  /\ tx[x].stmt # "done" =>
       \A t \in tx[x].granted : /\ taskLock[t] = x
                                /\ tasks[t].there => tasks[t].ripe /\ ~tasks[t].live
  /\ \A t \in Task : taskLock[t] = x =>
       /\ taskRows[t].there
       /\ t \notin tx[x].granted =>
            /\ taskRows[t].live = tasks[t].live /\ taskRows[t].holder = tasks[t].holder
            /\ taskRows[t].ripe /\ tasks[t].there => tasks[t].ripe
  /\ tx[x].stmt \in {"commit", "done"} => tx[x].todo = <<>>
  /\ tx[x].stmt = "spread" => Unspread(x) \subseteq Range(tx[x].todo)
  /\ tx[x].stmt = "commit" => Unspread(x) = {}

PostSound(x) ==
  /\ tx[x].stmt \in {"enqueue", "close", "commit", "done"}
  /\ tx[x].granted = {}
  /\ \A t \in Task : taskLock[t] = x =>
       /\ \/ taskRows[t].live = tasks[t].live /\ taskRows[t].holder = tasks[t].holder
          \/ ~tasks[t].live
          \/ tasks[t].holder = LabelOf[x]
       /\ taskRows[t].ripe => tasks[t].ripe
  /\ tx[x].stmt = "close" => Range(tx[x].todo) \subseteq {PageOf[x]}
  /\ tx[x].stmt \in {"commit", "done"} => tx[x].todo = <<>>
  /\ x \in PagePost =>
       /\ tx[x].stmt = "enqueue" => tx[x].todo = <<>>
       /\ Len(tx[x].todo) <= 1
       /\ tx[x].todo # <<>> \/ tx[x].stmt = "enqueue" => HoldsNone(x)

IInv ==
  /\ Types
  /\ RowsSound
  /\ \A x \in Leaser : LeaserSound(x)
  /\ \A x \in Post : PostSound(x)
-----------------------------------------------------------------------------
\* Sequences of rows to come to.

LEMMA TodoStep ==
  ASSUME NEW s \in Seq(Task), s # <<>>
  PROVE  /\ Head(s) \in Task /\ Tail(s) \in Seq(Task)
         /\ Head(s) \in Range(s) /\ Range(s) = {Head(s)} \cup Range(Tail(s))
         /\ Len(s) \in Nat /\ Len(Tail(s)) = Len(s) - 1
  <1>1. /\ Head(s) \in Task /\ Tail(s) \in Seq(Task) /\ Len(Tail(s)) = Len(s) - 1
        /\ \A i \in 1..Len(Tail(s)) : Tail(s)[i] = s[i + 1]
    BY HeadTailProperties
  <1>2. /\ Len(s) \in Nat \ {0} /\ DOMAIN s = 1..Len(s)
        /\ DOMAIN Tail(s) = 1..Len(Tail(s)) /\ Head(s) = s[1]
    BY <1>1, EmptySeq, LenProperties
  <1>3. \A i \in 1..Len(s) : i = 1 \/ (i - 1 \in 1..Len(Tail(s)) /\ s[i] = Tail(s)[i - 1])
    BY <1>1, <1>2
  <1>4. Range(s) \subseteq {Head(s)} \cup Range(Tail(s))
    <2> SUFFICES ASSUME NEW i \in 1..Len(s) PROVE s[i] \in {Head(s)} \cup Range(Tail(s))
      BY <1>2 DEF Range
    <2>1. i = 1 \/ (i - 1 \in 1..Len(Tail(s)) /\ s[i] = Tail(s)[i - 1])
      BY <1>3
    <2> QED BY <1>2, <2>1 DEF Range
  <1>5. Head(s) \in Range(s)
    BY <1>2 DEF Range
  <1>6. \A i \in 1..Len(Tail(s)) : Tail(s)[i] = s[i + 1] /\ i + 1 \in 1..Len(s)
    BY <1>1, <1>2
  <1>7. Range(Tail(s)) \subseteq Range(s)
    BY <1>2, <1>6 DEF Range
  <1> QED BY <1>1, <1>2, <1>4, <1>5, <1>7

LEMMA NothingTodo == <<>> \in Seq(Task) /\ Range(<<>>) = {} /\ Len(<<>>) = 0
  BY EmptySeq DEF Range

LEMMA OrdersAll ==
  ASSUME NEW S \in SUBSET Task, NEW p \in Orders(S)
  PROVE  p \in Seq(Task) /\ Range(p) = S
  <1>1. IsFiniteSet(S)
    BY RoundAssumption, FS_Subset
  <1>2. Cardinality(S) \in Nat
    BY <1>1, FS_CardinalityType
  <1>3. p \in [1..Cardinality(S) -> S] /\ \A t \in S : \E i \in 1..Cardinality(S) : p[i] = t
    BY DEF Orders, Bijection, Injection, Surjection, IsInjective
  <1>4. p \in Seq(Task)
    BY <1>2, <1>3, SeqDef
  <1>5. Range(p) = S
    BY <1>3 DEF Range
  <1> QED BY <1>4, <1>5

LEMMA FirstSeedType == FirstSeed \in Task /\ SeedOrder \in Seq(Task) /\ SeedOrder # <<>>
  BY RoundAssumption, HeadTailProperties DEF FirstSeed

-----------------------------------------------------------------------------
\* Rows.

LEMMA RowTypes ==
  /\ NoTask \in TaskRow /\ ~NoTask.there /\ ~NoTask.ripe /\ ~NoTask.live
  /\ NoTask.holder = NoOne
  /\ \A b \in BOOLEAN : /\ NewRow(b) \in TaskRow /\ NewRow(b).there /\ ~NewRow(b).live
                        /\ NewRow(b).ripe = b /\ NewRow(b).holder = NoOne
  BY DEF NoTask, NewRow, TaskRow

LEMMA GrantedRow ==
  ASSUME NEW x \in Tx, NEW r \in TaskRow
  PROVE  LET s == [r EXCEPT !.live = TRUE, !.holder = LabelOf[x]]
         IN  /\ s \in TaskRow /\ s.there = r.there /\ s.ripe = r.ripe
             /\ s.live /\ (~r.live => s # r)
  <1>1. LabelOf[x] \in Label
    BY RoundAssumption
  <1> QED BY <1>1 DEF TaskRow

LEMMA SpreadRow ==
  ASSUME NEW r \in TaskRow
  PROVE  LET s == [r EXCEPT !.ripe = FALSE]
         IN  /\ s \in TaskRow /\ s.there = r.there /\ ~s.ripe
             /\ s.live = r.live /\ s.holder = r.holder /\ (r = NoTask => s = r)
  <1>1. [NoTask EXCEPT !.ripe = FALSE] = NoTask
    <2>1. NoTask.ripe = FALSE
      BY DEF NoTask
    <2>2. [NoTask EXCEPT !.ripe = NoTask.ripe] = NoTask
      BY RowTypes DEF TaskRow
    <2> QED BY <2>1, <2>2
  <1>2. [r EXCEPT !.ripe = FALSE] \in TaskRow
    BY DEF TaskRow
  <1>3. /\ [r EXCEPT !.ripe = FALSE].there = r.there /\ ~[r EXCEPT !.ripe = FALSE].ripe
        /\ [r EXCEPT !.ripe = FALSE].live = r.live
        /\ [r EXCEPT !.ripe = FALSE].holder = r.holder
    BY DEF TaskRow
  <1> QED BY <1>1, <1>2, <1>3

\* What a statement of a lease makes of a row r.
LeaserWrote(stmt, r, s) ==
  /\ s \in TaskRow /\ (~s.there => s = NoTask) /\ (r.there => s.there)
  /\ stmt = "seed" => s.there
  /\ stmt \in {"value", "grant", "spread"} /\ ~r.there => s = r
  /\ stmt \in {"seed", "cards", "value"} /\ r.there => s = r
  /\ stmt \in {"seed", "cards"} /\ ~r.there => s = NewRow(TRUE)
  /\ stmt = "grant" /\ s # r => r.there /\ r.ripe /\ ~r.live
  /\ stmt = "spread" => ~s.ripe
  /\ stmt # "grant" \/ s = r => s.live = r.live /\ s.holder = r.holder

LEMMA LeaserWrites ==
  ASSUME NEW x \in Tx, NEW t \in Task, NEW r \in TaskRow, ~r.there => r = NoTask,
         NEW stmt \in {"seed", "cards", "value", "grant", "spread"},
         NEW s \in Written(x, stmt, t, r)
  PROVE  LeaserWrote(stmt, r, s)
  <1> USE DEF LeaserWrote
  <1>1. CASE stmt \in {"seed", "cards"}
    <2>1. s = IF r.there THEN r ELSE NewRow(TRUE)
      BY <1>1 DEF Written
    <2>2. CASE r.there
      BY <1>1, <2>1, <2>2
    <2>3. CASE ~r.there
      <3>1. s = NewRow(TRUE) /\ r = NoTask
        BY <2>1, <2>3
      <3>2. s.live = r.live /\ s.holder = r.holder
        BY <3>1 DEF NewRow, NoTask
      <3> QED BY <1>1, <2>3, <3>1, <3>2, RowTypes
    <2> QED BY <2>2, <2>3
  <1>2. CASE stmt = "value"
    BY <1>2 DEF Written
  <1>3. CASE stmt = "grant"
    <2>1. s = IF StillFree(r) THEN [r EXCEPT !.live = TRUE, !.holder = LabelOf[x]] ELSE r
      BY <1>3 DEF Written
    <2> QED BY <1>3, <2>1, GrantedRow DEF StillFree
  <1>4. CASE stmt = "spread"
    <2>1. s = [r EXCEPT !.ripe = FALSE]
      BY <1>4 DEF Written
    <2> QED BY <1>4, <2>1, SpreadRow
  <1> QED BY <1>1, <1>2, <1>3, <1>4

\* What a statement of a posted page makes of a row r.
PostWrote(x, t, stmt, r, s) ==
  /\ s \in TaskRow /\ (~s.there => s = NoTask)
  /\ stmt = "close" /\ ~r.there => s = r
  /\ stmt = "enqueue" \/ t \notin Card => (r.there => s.there)
  /\ s.ripe => r.ripe
  /\ \/ s.live = r.live /\ s.holder = r.holder
     \/ ~r.live
     \/ r.holder = LabelOf[x]

LEMMA PostWrites ==
  ASSUME NEW x \in Tx, NEW t \in Task, NEW r \in TaskRow, ~r.there => r = NoTask,
         NEW stmt \in {"enqueue", "close"}, NEW s \in Written(x, stmt, t, r)
  PROVE  PostWrote(x, t, stmt, r, s)
  <1> USE DEF PostWrote
  <1>1. CASE stmt = "enqueue"
    BY <1>1, RowTypes DEF Written
  <1>2. CASE stmt = "close"
    <2>1. s \in IF StillClosable(x, r)
                  THEN {NewRow(FALSE)} \cup IF t \in Card THEN {NoTask} ELSE {}
                  ELSE {r}
      BY <1>2 DEF Written
    <2>2. CASE StillClosable(x, r)
      BY <1>2, <2>1, <2>2, RowTypes DEF StillClosable
    <2>3. CASE ~StillClosable(x, r)
      BY <1>2, <2>1, <2>3
    <2> QED BY <2>2, <2>3
  <1> QED BY <1>1, <1>2
-----------------------------------------------------------------------------
\* A step to the next row: what it does to the row, to its lock, and to the
\* transaction.

Touched(x, t, r) ==
  /\ tx[x].todo # <<>> /\ t = Head(tx[x].todo)
  /\ r \in Written(x, tx[x].stmt, t, taskRows[t])
  /\ tasks' = tasks
  /\ \A u \in Task : taskRows'[u] = IF u = t THEN r ELSE taskRows[u]
  /\ \A u \in Task \ {t} : taskLock'[u] = taskLock[u]
  /\ \/ /\ taskLock'[t] = x /\ taskLock[t] \in {x, NoOne}
        /\ taskRows[t].there \/ r.there
     \/ /\ taskLock'[t] = taskLock[t] /\ r = taskRows[t]
        /\ IF r.there THEN tx[x].stmt = "cards" ELSE taskLock[t] \in {x, NoOne}
  /\ tx'[x].stmt = tx[x].stmt /\ tx'[x].todo = Tail(tx[x].todo)
  /\ tx'[x].granted = tx[x].granted \cup (IF tx[x].stmt = "grant" /\ r # taskRows[t]
                                            THEN {t} ELSE {})
  /\ \A y \in Tx : y # x => tx'[y] = tx[y]

\* What a transaction may be at while it has rows to come to.
LEMMA AtWork ==
  ASSUME IInv, NEW x \in Tx, tx[x].todo # <<>>
  PROVE  /\ x \in Leaser => tx[x].stmt \in {"seed", "cards", "value", "grant", "spread"}
         /\ x \in Post => tx[x].stmt \in {"enqueue", "close"}
  BY DEF IInv, LeaserSound, PostSound, Stmt, Tx

\* Nothing is written to rows that are not there and stay so.
LEMMA WrittenType ==
  ASSUME IInv, NEW x \in Tx, tx[x].todo # <<>>, NEW t \in Task,
         NEW r \in Written(x, tx[x].stmt, t, taskRows[t])
  PROVE  /\ r \in TaskRow /\ (~r.there => r = NoTask)
         /\ ~taskRows[t].there /\ ~r.there => r = taskRows[t]
         /\ tx[x].stmt = "cards" /\ taskRows[t].there => r = taskRows[t]
  <1>1. taskRows[t] \in TaskRow /\ (~taskRows[t].there => taskRows[t] = NoTask)
    BY DEF IInv, Types, RowsSound
  <1>2. CASE x \in Leaser
    <2>1. LeaserWrote(tx[x].stmt, taskRows[t], r)
      BY <1>1, <1>2, AtWork, LeaserWrites
    <2> QED BY <1>1, <2>1 DEF LeaserWrote
  <1>3. CASE x \in Post
    <2>1. PostWrote(x, t, tx[x].stmt, taskRows[t], r) /\ tx[x].stmt # "cards"
      BY <1>1, <1>3, AtWork, PostWrites
    <2> QED BY <1>1, <2>1 DEF PostWrote
  <1> QED BY <1>2, <1>3 DEF Tx

LEMMA TouchShape ==
  ASSUME IInv, NEW x \in Tx, Touch(x)
  PROVE  \E t \in Task, r \in TaskRow : Touched(x, t, r)
  <1> DEFINE t == Head(tx[x].todo)
  <1>1. tx[x].todo # <<>> /\ Waits(x) = NoOne /\ t \in Task /\ x # NoOne
    BY TodoStep, RoundAssumption DEF Touch, IInv, Types, Tx
  <1>2. PICK r \in Written(x, tx[x].stmt, t, taskRows[t]) :
          /\ taskRows' = [taskRows EXCEPT ![t] = r]
          /\ taskLock' = [taskLock EXCEPT ![t] = IF \/ tx[x].stmt = "cards" /\ taskRows[t].there
                                                    \/ ~taskRows[t].there /\ ~r.there
                                                   THEN @ ELSE x]
          /\ tx' = [tx EXCEPT ![x].todo = Tail(@),
                              ![x].granted = IF tx[x].stmt = "grant" /\ r # taskRows[t]
                                               THEN @ \cup {t} ELSE @]
          /\ UNCHANGED tasks
    BY DEF Touch
  <1>3. /\ r \in TaskRow /\ (~r.there => r = NoTask)
        /\ ~taskRows[t].there /\ ~r.there => r = taskRows[t]
        /\ tx[x].stmt = "cards" /\ taskRows[t].there => r = taskRows[t]
    BY <1>1, WrittenType
  <1>4. \/ taskLock[t] \in {x, NoOne}
        \/ tx[x].stmt = "cards" /\ tasks[t].there = taskRows[t].there
    BY <1>1 DEF Waits
  <1> HIDE DEF t
  <1>5. Types
    BY DEF IInv
  <1>6. /\ \A u \in Task : taskRows'[u] = IF u = t THEN r ELSE taskRows[u]
        /\ \A u \in Task \ {t} : taskLock'[u] = taskLock[u]
        /\ taskLock'[t] = IF \/ tx[x].stmt = "cards" /\ taskRows[t].there
                             \/ ~taskRows[t].there /\ ~r.there
                            THEN taskLock[t] ELSE x
    BY <1>1, <1>2, <1>5 DEF Types
  <1>7. /\ tx'[x].stmt = tx[x].stmt /\ tx'[x].todo = Tail(tx[x].todo)
        /\ tx'[x].granted = tx[x].granted \cup (IF tx[x].stmt = "grant" /\ r # taskRows[t]
                                                  THEN {t} ELSE {})
        /\ \A y \in Tx : y # x => tx'[y] = tx[y]
    BY <1>2, <1>5 DEF Types
  <1>8. \/ /\ taskLock'[t] = x /\ taskLock[t] \in {x, NoOne}
           /\ taskRows[t].there \/ r.there
        \/ /\ taskLock'[t] = taskLock[t] /\ r = taskRows[t]
           /\ IF r.there THEN tx[x].stmt = "cards" ELSE taskLock[t] \in {x, NoOne}
    <2>1. taskLock[t] # NoOne => taskRows[t].there \/ tasks[t].there
      BY <1>1 DEF IInv, RowsSound
    <2>2. /\ taskRows[t].there \in BOOLEAN /\ tasks[t].there \in BOOLEAN
          /\ r.there \in BOOLEAN
      BY <1>1, <1>3, <1>5 DEF Types, TaskRow
    <2>3. ~taskRows[t].there => taskLock[t] \in {x, NoOne}
      BY <1>4, <2>1, <2>2
    <2>4. CASE taskRows[t].there
      <3>1. CASE tx[x].stmt = "cards"
        BY <1>3, <1>6, <2>4, <3>1
      <3>2. CASE tx[x].stmt # "cards"
        BY <1>4, <1>6, <2>4, <3>2
      <3> QED BY <3>1, <3>2
    <2>5. CASE ~taskRows[t].there /\ ~r.there
      BY <1>3, <1>6, <2>3, <2>5
    <2>6. CASE ~taskRows[t].there /\ r.there
      BY <1>6, <2>3, <2>6
    <2> QED BY <2>4, <2>5, <2>6
  <1>9. Touched(x, t, r)
    BY <1>1, <1>2, <1>6, <1>7, <1>8 DEF Touched, t
  <1> QED BY <1>1, <1>3, <1>9
LEMMA TouchTypes ==
  ASSUME IInv, NEW x \in Tx, Touch(x)
  PROVE  Types'
  <1> DEFINE t == Head(tx[x].todo)
  <1>1. tx[x].todo # <<>> /\ t \in Task /\ Tail(tx[x].todo) \in Seq(Task) /\ Types
    BY TodoStep DEF Touch, IInv, Types
  <1>2. PICK r \in Written(x, tx[x].stmt, t, taskRows[t]) :
          /\ taskRows' = [taskRows EXCEPT ![t] = r]
          /\ taskLock' = [taskLock EXCEPT ![t] = IF \/ tx[x].stmt = "cards" /\ taskRows[t].there
                                                    \/ ~taskRows[t].there /\ ~r.there
                                                   THEN @ ELSE x]
          /\ tx' = [tx EXCEPT ![x].todo = Tail(@),
                              ![x].granted = IF tx[x].stmt = "grant" /\ r # taskRows[t]
                                               THEN @ \cup {t} ELSE @]
          /\ UNCHANGED tasks
    BY DEF Touch
  <1>3. r \in TaskRow
    BY <1>1, WrittenType
  <1> HIDE DEF t
  <1>4. tasks' \in [Task -> TaskRow] /\ taskRows' \in [Task -> TaskRow]
    BY <1>1, <1>2, <1>3 DEF Types
  <1>5. taskLock' \in [Task -> Tx \cup {NoOne}]
    BY <1>1, <1>2 DEF Types
  <1>6. tx' \in [Tx -> [stmt : Stmt, todo : Seq(Task), granted : SUBSET Task]]
    <2>1. /\ tx[x] \in [stmt : Stmt, todo : Seq(Task), granted : SUBSET Task]
          /\ tx \in [Tx -> [stmt : Stmt, todo : Seq(Task), granted : SUBSET Task]]
      BY <1>1 DEF Types
    <2>2. [tx[x] EXCEPT !.todo = Tail(@),
                        !.granted = IF tx[x].stmt = "grant" /\ r # taskRows[t]
                                      THEN @ \cup {t} ELSE @]
            \in [stmt : Stmt, todo : Seq(Task), granted : SUBSET Task]
      BY <1>1, <2>1, t \in Task DEF t
    <2>3. tx' = [tx EXCEPT ![x] = [tx[x] EXCEPT !.todo = Tail(@),
                        !.granted = IF tx[x].stmt = "grant" /\ r # taskRows[t]
                                      THEN @ \cup {t} ELSE @]]
      BY <1>2, <2>1
    <2> QED BY <2>1, <2>2, <2>3
  <1> QED BY <1>4, <1>5, <1>6 DEF Types

\* What the steps of a transaction have in common when they are read pointwise.
LEMMA TouchBase ==
  ASSUME IInv, NEW x \in Tx, NEW t \in Task, NEW r \in TaskRow, Touched(x, t, r)
  PROVE  /\ x # NoOne /\ tx[x].todo # <<>> /\ t \in Range(tx[x].todo)
         /\ Range(tx[x].todo) = {t} \cup Range(tx'[x].todo)
         /\ Len(tx[x].todo) \in Nat /\ Len(tx'[x].todo) = Len(tx[x].todo) - 1
         /\ (taskLock'[t] = x => taskLock[t] \in {x, NoOne})
         /\ (taskLock[t] = NoOne => taskRows[t] = tasks[t])
  <1>1. tx[x].todo \in Seq(Task) /\ tx[x].todo # <<>> /\ t = Head(tx[x].todo)
        /\ tx'[x].todo = Tail(tx[x].todo)
    BY DEF Touched, IInv, Types
  <1>2. x # NoOne
    BY RoundAssumption DEF Tx
  <1>3. taskLock'[t] = x => taskLock[t] \in {x, NoOne}
    BY DEF Touched
  <1>4. taskLock[t] = NoOne => taskRows[t] = tasks[t]
    BY DEF IInv, RowsSound
  <1> QED BY <1>1, <1>2, <1>3, <1>4, TodoStep

LEMMA TouchLeaser ==
  ASSUME IInv, NEW x \in Leaser, NEW t \in Task, NEW r \in TaskRow, Touched(x, t, r)
  PROVE  LeaserSound(x)'
  <1> DEFINE todo == tx[x].todo
             stmt == tx[x].stmt
             granted == tx[x].granted
             row == taskRows[t]
  <1>1. /\ x # NoOne /\ x \in Tx /\ todo # <<>> /\ t \in Range(todo)
        /\ Range(todo) = {t} \cup Range(tx'[x].todo)
        /\ Len(todo) \in Nat /\ Len(tx'[x].todo) = Len(todo) - 1
        /\ (taskLock'[t] = x => taskLock[t] \in {x, NoOne})
        /\ (taskLock[t] = NoOne => row = tasks[t])
    BY TouchBase DEF Tx
  <1>2. stmt \in {"seed", "cards", "value", "grant", "spread"}
    BY <1>1, AtWork
  <1>3. LeaserWrote(stmt, row, r)
    <2>1. row \in TaskRow /\ (~row.there => row = NoTask)
      BY DEF IInv, Types, RowsSound
    <2>2. r \in Written(x, stmt, t, row)
      BY DEF Touched
    <2> QED BY <1>1, <1>2, <2>1, <2>2, LeaserWrites
  <1>4. LeaserSound(x)
    BY DEF IInv
  <1>5. /\ tx'[x].stmt = stmt
        /\ tx'[x].granted = granted \cup (IF stmt = "grant" /\ r # row THEN {t} ELSE {})
        /\ \A u \in Task : u # t => taskRows'[u] = taskRows[u] /\ taskLock'[u] = taskLock[u]
        /\ taskRows'[t] = r /\ tasks' = tasks
        /\ \/ taskLock'[t] = x /\ (row.there \/ r.there)
           \/ /\ taskLock'[t] = taskLock[t] /\ r = row
              /\ IF r.there THEN stmt = "cards" ELSE taskLock[t] \in {x, NoOne}
    BY DEF Touched
  <1>6. \A u \in Task : taskLock[u] = x => taskLock'[u] = x
    BY <1>5
  <1> HIDE DEF todo, stmt, granted, row
  <1>a. tx'[x].stmt \in Stmt \ {"enqueue", "close"}
    BY <1>2, <1>5 DEF Stmt
  <1>b. taskLock'[FirstSeed] = x
    <2>1. CASE AtStart(x)
      <3>1. t = FirstSeed /\ stmt = "seed"
        BY <2>1 DEF AtStart, Touched, FirstSeed, stmt
      <3>2. r.there
        BY <1>3, <3>1 DEF LeaserWrote
      <3> QED BY <1>5, <3>1, <3>2
    <2>2. CASE ~AtStart(x)
      <3>1. taskLock[FirstSeed] = x
        BY <1>2, <1>4, <2>2 DEF LeaserSound, stmt
      <3> QED BY <1>6, <3>1, FirstSeedType
    <2> QED BY <2>1, <2>2
  <1>c. tx'[x].stmt = "seed" => Len(tx'[x].todo) < Len(SeedOrder)
    <2> SUFFICES ASSUME stmt = "seed" PROVE Len(tx'[x].todo) < Len(SeedOrder)
      BY <1>5
    <2>1. todo = SeedOrder \/ Len(todo) < Len(SeedOrder)
      BY <1>4 DEF LeaserSound, stmt, todo
    <2>2. Len(SeedOrder) \in Nat
      BY FirstSeedType, LenProperties
    <2> QED BY <1>1, <2>1, <2>2
  <1>d. ~AtStart(x)'
    <2>1. Len(SeedOrder) \in Nat
      BY FirstSeedType, LenProperties
    <2> QED BY <1>c, <2>1 DEF AtStart
  <1>e. tx'[x].stmt \in {"seed", "cards", "value"} => tx'[x].granted = {}
    BY <1>4, <1>5 DEF LeaserSound, stmt, granted
  <1>f. \A u, w \in tx'[x].granted
                      \cup (IF tx'[x].stmt = "grant" THEN Range(tx'[x].todo) ELSE {}) :
          SourceOf[u] = SourceOf[w] => u = w
    <2>1. tx'[x].granted \cup (IF tx'[x].stmt = "grant" THEN Range(tx'[x].todo) ELSE {})
            \subseteq granted \cup (IF stmt = "grant" THEN Range(todo) ELSE {})
      BY <1>1, <1>5
    <2>2. \A u, w \in granted \cup (IF stmt = "grant" THEN Range(todo) ELSE {}) :
            SourceOf[u] = SourceOf[w] => u = w
      BY <1>4 DEF LeaserSound, stmt, granted, todo
    <2> QED BY <2>1, <2>2
  <1>g. \A u \in tx'[x].granted : /\ taskLock'[u] = x
                                  /\ tasks'[u].there => tasks'[u].ripe /\ ~tasks'[u].live
    <2>1. granted \subseteq Task
      BY <1>1 DEF IInv, Types, granted
    <2>2. \A u \in granted : /\ taskLock[u] = x
                             /\ tasks[u].there => tasks[u].ripe /\ ~tasks[u].live
      BY <1>2, <1>4 DEF LeaserSound, stmt, granted
    <2>3. CASE stmt = "grant" /\ r # row
      <3>1. taskLock'[t] = x /\ taskLock[t] \in {x, NoOne} /\ row.there /\ row.ripe /\ ~row.live
        BY <1>1, <1>3, <1>5, <2>3 DEF LeaserWrote
      <3>2. tasks[t].there => tasks[t].ripe /\ ~tasks[t].live
        <4>1. CASE taskLock[t] = NoOne
          BY <1>1, <3>1, <4>1
        <4>2. CASE taskLock[t] = x /\ t \in granted
          BY <2>2, <4>2
        <4>3. CASE taskLock[t] = x /\ t \notin granted
          <5>1. row.live = tasks[t].live /\ (row.ripe /\ tasks[t].there => tasks[t].ripe)
            BY <1>4, <4>3 DEF LeaserSound, granted, row
          <5> QED BY <3>1, <5>1
        <4> QED BY <3>1, <4>1, <4>2, <4>3
      <3> QED BY <1>5, <1>6, <2>1, <2>2, <2>3, <3>1, <3>2
    <2>4. CASE ~(stmt = "grant" /\ r # row)
      BY <1>5, <1>6, <2>1, <2>2, <2>4
    <2> QED BY <2>3, <2>4
  <1>h. \A u \in Task : taskLock'[u] = x =>
          /\ taskRows'[u].there
          /\ u \notin tx'[x].granted =>
               /\ taskRows'[u].live = tasks'[u].live /\ taskRows'[u].holder = tasks'[u].holder
               /\ taskRows'[u].ripe /\ tasks'[u].there => tasks'[u].ripe
    <2>1. \A u \in Task : taskLock[u] = x =>
            /\ taskRows[u].there
            /\ u \notin granted =>
                 /\ taskRows[u].live = tasks[u].live /\ taskRows[u].holder = tasks[u].holder
                 /\ taskRows[u].ripe /\ tasks[u].there => tasks[u].ripe
      BY <1>4 DEF LeaserSound, granted
    <2>2. granted \subseteq tx'[x].granted
      BY <1>5
    <2>3. ASSUME NEW u \in Task, u # t, taskLock'[u] = x
          PROVE  /\ taskRows'[u].there
                 /\ u \notin tx'[x].granted =>
                      /\ taskRows'[u].live = tasks'[u].live
                      /\ taskRows'[u].holder = tasks'[u].holder
                      /\ taskRows'[u].ripe /\ tasks'[u].there => tasks'[u].ripe
      BY <1>5, <2>1, <2>2, <2>3
    <2>4. ASSUME taskLock'[t] = x
          PROVE  /\ taskRows'[t].there
                 /\ t \notin tx'[x].granted =>
                      /\ taskRows'[t].live = tasks'[t].live
                      /\ taskRows'[t].holder = tasks'[t].holder
                      /\ taskRows'[t].ripe /\ tasks'[t].there => tasks'[t].ripe
      <3>1. r.there
        BY <1>1, <1>3, <1>5, <2>1, <2>4 DEF LeaserWrote, row
      <3>2. ASSUME t \notin tx'[x].granted
            PROVE  /\ r.live = tasks[t].live /\ r.holder = tasks[t].holder
                   /\ r.ripe /\ tasks[t].there => tasks[t].ripe
        <4>1. t \notin granted /\ (stmt # "grant" \/ r = row)
          BY <1>5, <3>2
        <4>2. r.live = row.live /\ r.holder = row.holder
          BY <1>3, <4>1 DEF LeaserWrote
        <4>3. /\ row.live = tasks[t].live /\ row.holder = tasks[t].holder
              /\ row.ripe /\ tasks[t].there => tasks[t].ripe
          BY <1>1, <2>1, <2>4, <4>1 DEF row
        <4>4. r = row \/ ~r.ripe \/ (stmt \in {"seed", "cards"} /\ ~row.there)
          BY <1>2, <1>3, <4>1 DEF LeaserWrote
        <4>5. ~row.there => ~tasks[t].there
          BY <1>1, <2>1, <2>4 DEF row
        <4> QED BY <4>2, <4>3, <4>4, <4>5
      <3> QED BY <1>5, <3>1, <3>2
    <2> QED BY <2>3, <2>4
  <1>i. tx'[x].stmt \notin {"commit", "done"}
    BY <1>2, <1>5
  <1>j. tx'[x].stmt = "spread" => Unspread(x)' \subseteq Range(tx'[x].todo)
    <2> SUFFICES ASSUME stmt = "spread", NEW u \in Task,
                        SourceOf[u] \in Sources(granted), Seen(x)'[u].ripe
                 PROVE  u \in Range(tx'[x].todo)
      BY <1>5 DEF Unspread, Sources
    <2>1. Seen(x)'[u] = IF taskLock'[u] = x THEN taskRows'[u] ELSE tasks'[u]
      BY DEF Seen
    <2>2. u # t
      <3> SUFFICES ASSUME u = t PROVE FALSE
        OBVIOUS
      <3>1. ~r.ripe
        BY <1>3 DEF LeaserWrote
      <3>2. taskLock'[t] # x /\ tasks[t].ripe
        BY <1>5, <2>1, <3>1
      <3>3. taskLock[t] = NoOne /\ r = row
        BY <1>5, <3>2
      <3> QED BY <1>1, <3>1, <3>2, <3>3
    <2>3. Seen(x)[u].ripe
      BY <1>5, <2>1, <2>2 DEF Seen
    <2>4. u \in Unspread(x)
      BY <2>3 DEF Unspread, granted
    <2>5. u \in Range(todo)
      BY <1>4, <2>4 DEF LeaserSound, stmt, todo
    <2> QED BY <1>1, <2>2, <2>5
  <1> QED BY <1>a, <1>b, <1>c, <1>d, <1>e, <1>f, <1>g, <1>h, <1>i, <1>j DEF LeaserSound

LEMMA TouchPost ==
  ASSUME IInv, NEW x \in Post, NEW t \in Task, NEW r \in TaskRow, Touched(x, t, r)
  PROVE  PostSound(x)'
  <1> DEFINE todo == tx[x].todo
             stmt == tx[x].stmt
             row == taskRows[t]
  <1>1. /\ x # NoOne /\ x \in Tx /\ todo # <<>> /\ t \in Range(todo)
        /\ Range(todo) = {t} \cup Range(tx'[x].todo)
        /\ Len(todo) \in Nat /\ Len(tx'[x].todo) = Len(todo) - 1
        /\ (taskLock'[t] = x => taskLock[t] \in {x, NoOne})
        /\ (taskLock[t] = NoOne => row = tasks[t])
    BY TouchBase DEF Tx
  <1>2. stmt \in {"enqueue", "close"}
    BY <1>1, AtWork
  <1>3. PostWrote(x, t, stmt, row, r)
    <2>1. row \in TaskRow /\ (~row.there => row = NoTask)
      BY DEF IInv, Types, RowsSound
    <2>2. r \in Written(x, stmt, t, row)
      BY DEF Touched
    <2> QED BY <1>1, <1>2, <2>1, <2>2, PostWrites
  <1>4. PostSound(x)
    BY DEF IInv
  <1>5. /\ tx'[x].stmt = stmt /\ tx'[x].granted = tx[x].granted
        /\ \A u \in Task : u # t => taskRows'[u] = taskRows[u] /\ taskLock'[u] = taskLock[u]
        /\ taskRows'[t] = r /\ tasks' = tasks
    BY <1>2 DEF Touched
  <1>6. tx'[x].todo \in Seq(Task)
    BY <1>1, TodoStep DEF Touched, IInv, Types
  <1>a. \A u \in Task : taskLock'[u] = x =>
          /\ \/ taskRows'[u].live = tasks'[u].live /\ taskRows'[u].holder = tasks'[u].holder
             \/ ~tasks'[u].live
             \/ tasks'[u].holder = LabelOf[x]
          /\ taskRows'[u].ripe => tasks'[u].ripe
    <2>1. \A u \in Task : taskLock[u] = x =>
            /\ \/ taskRows[u].live = tasks[u].live /\ taskRows[u].holder = tasks[u].holder
               \/ ~tasks[u].live
               \/ tasks[u].holder = LabelOf[x]
            /\ taskRows[u].ripe => tasks[u].ripe
      BY <1>4 DEF PostSound
    <2>2. ASSUME taskLock'[t] = x
          PROVE  /\ \/ r.live = tasks[t].live /\ r.holder = tasks[t].holder
                    \/ ~tasks[t].live
                    \/ tasks[t].holder = LabelOf[x]
                 /\ r.ripe => tasks[t].ripe
      <3>1. /\ \/ row.live = tasks[t].live /\ row.holder = tasks[t].holder
               \/ ~tasks[t].live
               \/ tasks[t].holder = LabelOf[x]
            /\ row.ripe => tasks[t].ripe
        BY <1>1, <2>1, <2>2
      <3> QED BY <1>3, <3>1 DEF PostWrote
    <2> QED BY <1>5, <2>1, <2>2
  <1>b. tx'[x].stmt = "close" => Range(tx'[x].todo) \subseteq {PageOf[x]}
    BY <1>1, <1>4, <1>5 DEF PostSound
  <1>c. x \in PagePost => tx'[x].todo = <<>> /\ tx'[x].stmt = "close"
    <2> SUFFICES ASSUME x \in PagePost PROVE tx'[x].todo = <<>> /\ tx'[x].stmt = "close"
      OBVIOUS
    <2>1. stmt # "enqueue" /\ Len(todo) <= 1
      BY <1>1, <1>4 DEF PostSound
    <2>2. Len(tx'[x].todo) \in Nat
      BY <1>6, LenProperties
    <2>3. Len(tx'[x].todo) = 0
      <3>1. Len(todo) \in Nat /\ Len(tx'[x].todo) = Len(todo) - 1 /\ Len(todo) <= 1
        BY <1>1, <2>1
      <3> DEFINE m == Len(todo)  n == Len(tx'[x].todo)
      <3>2. m \in Nat /\ n = m - 1 /\ m <= 1 /\ n \in Nat
        BY <2>2, <3>1
      <3> HIDE DEF m, n
      <3>3. n = 0
        BY <3>2
      <3> QED BY <3>3 DEF n
    <2> QED BY <1>2, <1>5, <1>6, <2>1, <2>3, EmptySeq
  <1>d. tx'[x].granted = {} /\ tx'[x].stmt \in {"enqueue", "close"}
    BY <1>2, <1>4, <1>5 DEF PostSound
  <1> QED BY <1>a, <1>b, <1>c, <1>d, NothingTodo DEF PostSound

\* The rows that are put down together: what nobody has locked stays committed.
LEMMA TouchRows ==
  ASSUME IInv, NEW x \in Tx, NEW t \in Task, NEW r \in TaskRow, Touched(x, t, r)
  PROVE  RowsSound'
  <1>1. /\ x # NoOne /\ tx[x].todo # <<>> /\ t \in Range(tx[x].todo)
        /\ (taskLock'[t] = x => taskLock[t] \in {x, NoOne})
        /\ (taskLock[t] = NoOne => taskRows[t] = tasks[t])
    BY TouchBase
  <1>2. /\ r \in Written(x, tx[x].stmt, t, taskRows[t])
        /\ \A u \in Task : u # t => taskRows'[u] = taskRows[u] /\ taskLock'[u] = taskLock[u]
        /\ taskRows'[t] = r /\ tasks' = tasks
        /\ \/ taskLock'[t] = x /\ (taskRows[t].there \/ r.there)
           \/ taskLock'[t] = taskLock[t] /\ r = taskRows[t]
    BY DEF Touched
  <1>3. ~r.there => r = NoTask
    BY <1>1, <1>2, WrittenType
  <1>4. RowsSound
    BY DEF IInv
  <1>5. CASE taskLock'[t] = x /\ (taskRows[t].there \/ r.there)
    <2>1. r.there \/ tasks[t].there
      <3> SUFFICES ASSUME ~r.there PROVE tasks[t].there
        OBVIOUS
      <3>1. CASE taskLock[t] = NoOne
        BY <1>1, <1>5, <3>1
      <3>2. CASE taskLock[t] = x
        <4>1. taskRows[t].there
          BY <1>5
        <4>2. x \in Post
          <5> SUFFICES ASSUME x \in Leaser PROVE FALSE
            BY DEF Tx
          <5>1. LeaserWrote(tx[x].stmt, taskRows[t], r)
            BY <1>1, <1>2, AtWork, LeaserWrites DEF IInv, Types, RowsSound
          <5> QED BY <4>1, <5>1 DEF LeaserWrote
        <4>3. PostWrote(x, t, tx[x].stmt, taskRows[t], r) /\ tx[x].stmt \in {"enqueue", "close"}
          BY <1>1, <1>2, <4>2, AtWork, PostWrites DEF IInv, Types, RowsSound
        <4>4. tx[x].stmt = "close" /\ t \in Card
          BY <4>1, <4>3 DEF PostWrote
        <4>5. PostSound(x)
          BY <4>2 DEF IInv
        <4>6. t = PageOf[x]
          BY <1>1, <4>4, <4>5 DEF PostSound
        <4>7. x \in PagePost
          BY <4>2, <4>4, <4>6, RoundAssumption DEF Post
        <4> QED BY <1>1, <3>2, <4>5, <4>7 DEF PostSound, HoldsNone
      <3> QED BY <1>1, <1>5, <3>1, <3>2
    <2>2. /\ ~tasks'[t].there => tasks'[t] = NoTask
          /\ ~taskRows'[t].there => taskRows'[t] = NoTask
          /\ taskLock'[t] = NoOne => taskRows'[t] = tasks'[t]
          /\ taskLock'[t] # NoOne => taskRows'[t].there \/ tasks'[t].there
      BY <1>1, <1>2, <1>3, <1>4, <1>5, <2>1 DEF RowsSound
    <2> QED BY <1>2, <1>4, <2>2 DEF RowsSound
  <1>6. CASE taskLock'[t] = taskLock[t] /\ r = taskRows[t]
    BY <1>2, <1>4, <1>6 DEF RowsSound
  <1> QED BY <1>2, <1>5, <1>6

-----------------------------------------------------------------------------
\* What one transaction does leaves what is known of another true: it changes
\* no row that the other has locked, and makes no committed row ripe for one
\* that has given out its shop.

Undisturbed(y) ==
  /\ tx'[y] = tx[y]
  /\ \A u \in Task : taskLock'[u] = y <=> taskLock[u] = y
  /\ \A u \in Task : taskLock[u] = y => taskRows'[u] = taskRows[u] /\ tasks'[u] = tasks[u]
  /\ y \in Leaser /\ tx[y].stmt \in {"spread", "commit"} =>
       \A u \in Task : taskLock[u] # y /\ tasks'[u].ripe => tasks[u].ripe

LEMMA LeaserUndisturbed ==
  ASSUME Types, NEW y \in Leaser, LeaserSound(y), Undisturbed(y)
  PROVE  LeaserSound(y)'
  <1>1. /\ tx'[y] = tx[y]
        /\ \A u \in Task : taskLock'[u] = y <=> taskLock[u] = y
        /\ \A u \in Task : taskLock[u] = y => taskRows'[u] = taskRows[u] /\ tasks'[u] = tasks[u]
    BY DEF Undisturbed
  <1>2. tx[y].granted \subseteq Task
    BY DEF Types, Tx
  <1>3. /\ AtStart(y)' <=> AtStart(y)
        /\ HoldsNone(y)' <=> HoldsNone(y)
        /\ taskLock'[FirstSeed] = y <=> taskLock[FirstSeed] = y
    BY <1>1, FirstSeedType DEF AtStart, HoldsNone
  <1>4. tx[y].stmt \in {"spread", "commit"} => Unspread(y)' \subseteq Unspread(y)
    <2> SUFFICES ASSUME tx[y].stmt \in {"spread", "commit"}, NEW u \in Task,
                        SourceOf[u] \in Sources(tx[y].granted), Seen(y)'[u].ripe
                 PROVE  Seen(y)[u].ripe
      BY <1>1 DEF Unspread, Sources
    <2>1. /\ Seen(y)'[u] = IF taskLock'[u] = y THEN taskRows'[u] ELSE tasks'[u]
          /\ Seen(y)[u] = IF taskLock[u] = y THEN taskRows[u] ELSE tasks[u]
      BY DEF Seen
    <2>2. taskLock[u] # y /\ tasks'[u].ripe => tasks[u].ripe
      BY DEF Undisturbed
    <2> QED BY <1>1, <2>1, <2>2
  <1>5. tx[y].stmt # "done" =>
          \A t \in tx[y].granted : /\ taskLock'[t] = y
                                   /\ tasks'[t].there => tasks'[t].ripe /\ ~tasks'[t].live
    BY <1>1, <1>2 DEF LeaserSound
  <1>6. \A t \in Task : taskLock'[t] = y =>
          /\ taskRows'[t].there
          /\ t \notin tx[y].granted =>
               /\ taskRows'[t].live = tasks'[t].live /\ taskRows'[t].holder = tasks'[t].holder
               /\ taskRows'[t].ripe /\ tasks'[t].there => tasks'[t].ripe
    BY <1>1 DEF LeaserSound
  <1>7. /\ tx[y].stmt = "spread" => Unspread(y)' \subseteq Range(tx[y].todo)
        /\ tx[y].stmt = "commit" => Unspread(y)' = {}
    BY <1>4 DEF LeaserSound
  <1>8. /\ tx'[y].stmt \in Stmt \ {"enqueue", "close"}
        /\ IF AtStart(y)' \/ tx'[y].stmt = "done" THEN HoldsNone(y)' ELSE taskLock'[FirstSeed] = y
        /\ tx'[y].stmt = "seed" => tx'[y].todo = SeedOrder \/ Len(tx'[y].todo) < Len(SeedOrder)
        /\ tx'[y].stmt \in {"seed", "cards", "value"} => tx'[y].granted = {}
        /\ \A t, u \in tx'[y].granted
                         \cup (IF tx'[y].stmt = "grant" THEN Range(tx'[y].todo) ELSE {}) :
             SourceOf[t] = SourceOf[u] => t = u
        /\ tx'[y].stmt \in {"commit", "done"} => tx'[y].todo = <<>>
    BY <1>1, <1>3 DEF LeaserSound
  <1> QED BY <1>1, <1>5, <1>6, <1>7, <1>8 DEF LeaserSound

LEMMA PostUndisturbed ==
  ASSUME NEW y \in Post, PostSound(y), Undisturbed(y)
  PROVE  PostSound(y)'
  <1>1. /\ tx'[y] = tx[y]
        /\ \A u \in Task : taskLock'[u] = y <=> taskLock[u] = y
        /\ \A u \in Task : taskLock[u] = y => taskRows'[u] = taskRows[u] /\ tasks'[u] = tasks[u]
    BY DEF Undisturbed
  <1>2. HoldsNone(y) => HoldsNone(y)'
    BY <1>1 DEF HoldsNone
  <1> QED BY <1>1, <1>2 DEF PostSound

\* The invariant after a step of x, from what holds of x and of the rows.
LEMMA OthersKeep ==
  ASSUME IInv, NEW x \in Tx, Types', RowsSound',
         x \in Leaser => LeaserSound(x)', x \in Post => PostSound(x)',
         \A y \in Tx : y # x => Undisturbed(y)
  PROVE  IInv'
  <1>1. ASSUME NEW y \in Leaser PROVE LeaserSound(y)'
    <2>1. CASE y = x
      BY <2>1
    <2>2. CASE y # x
      <3>1. Undisturbed(y) /\ Types /\ LeaserSound(y)
        BY <2>2 DEF IInv, Tx
      <3> QED BY <3>1, LeaserUndisturbed
    <2> QED BY <2>1, <2>2
  <1>2. ASSUME NEW y \in Post PROVE PostSound(y)'
    <2>1. CASE y = x
      BY <2>1
    <2>2. CASE y # x
      <3>1. Undisturbed(y) /\ PostSound(y)
        BY <2>2 DEF IInv, Tx
      <3> QED BY <3>1, PostUndisturbed
    <2> QED BY <2>1, <2>2
  <1> QED BY <1>1, <1>2 DEF IInv

LEMMA TouchKeeps ==
  ASSUME IInv, NEW x \in Tx, Touch(x)
  PROVE  IInv'
  <1>1. PICK t \in Task, r \in TaskRow : Touched(x, t, r)
    BY TouchShape
  <1>2. Types'
    BY TouchTypes
  <1>3. RowsSound'
    BY <1>1, TouchRows
  <1>4. x \in Leaser => LeaserSound(x)'
    BY <1>1, TouchLeaser
  <1>5. x \in Post => PostSound(x)'
    BY <1>1, TouchPost
  <1>6. ASSUME NEW y \in Tx, y # x PROVE Undisturbed(y)
    <2>1. /\ tasks' = tasks /\ tx'[y] = tx[y]
          /\ \A u \in Task : u # t => taskRows'[u] = taskRows[u] /\ taskLock'[u] = taskLock[u]
          /\ taskRows'[t] = r
          /\ \/ taskLock'[t] = x /\ taskLock[t] \in {x, NoOne}
             \/ taskLock'[t] = taskLock[t] /\ r = taskRows[t]
      BY <1>1, <1>6 DEF Touched
    <2>2. y # NoOne
      BY RoundAssumption DEF Tx
    <2> QED BY <1>6, <2>1, <2>2 DEF Undisturbed
  <1> QED BY <1>2, <1>3, <1>4, <1>5, <1>6, OthersKeep
-----------------------------------------------------------------------------
\* The other steps.

LEMMA StatementShape ==
  ASSUME IInv, NEW x \in Tx, Statement(x)
  PROVE  /\ tx[x].todo = <<>> /\ tx[x].stmt \notin {"commit", "done"}
         /\ tasks' = tasks /\ taskRows' = taskRows /\ taskLock' = taskLock
         /\ tx'[x].stmt = After(tx[x].stmt, tx[x].granted)
         /\ tx'[x].todo \in Plans(x, After(tx[x].stmt, tx[x].granted))
         /\ tx'[x].granted = tx[x].granted
         /\ \A y \in Tx : y # x => tx'[y] = tx[y]
  <1>1. tx \in [Tx -> [stmt : Stmt, todo : Seq(Task), granted : SUBSET Task]]
    BY DEF IInv, Types
  <1>2. PICK p \in Plans(x, After(tx[x].stmt, tx[x].granted)) :
          tx' = [tx EXCEPT ![x].stmt = After(tx[x].stmt, tx[x].granted), ![x].todo = p]
    BY DEF Statement
  <1> QED BY <1>1, <1>2 DEF Statement

LEMMA StatementLeaser ==
  ASSUME IInv, NEW x \in Leaser, Statement(x)
  PROVE  LeaserSound(x)' /\ tx'[x].stmt \in Stmt /\ tx'[x].todo \in Seq(Task)
  <1> DEFINE stmt == tx[x].stmt
             granted == tx[x].granted
             next == After(stmt, granted)
             todo == tx'[x].todo
  <1>1. /\ x \in Tx /\ tx[x].todo = <<>> /\ stmt \notin {"commit", "done"}
        /\ tasks' = tasks /\ taskRows' = taskRows /\ taskLock' = taskLock
        /\ tx'[x].stmt = next /\ todo \in Plans(x, next) /\ tx'[x].granted = granted
    BY StatementShape DEF Tx
  <1>2. LeaserSound(x) /\ granted \subseteq Task
    BY <1>1 DEF IInv, Types
  <1>3. stmt \in {"seed", "cards", "value", "grant", "spread"}
    BY <1>1, <1>2 DEF LeaserSound, Stmt
  <1>4. taskLock[FirstSeed] = x
    <2>1. ~AtStart(x)
      BY <1>1, FirstSeedType DEF AtStart
    <2> QED BY <1>2, <1>3, <2>1 DEF LeaserSound
  <1>5. stmt \in {"seed", "cards", "value"} => granted = {}
    BY <1>2 DEF LeaserSound
  <1>6. \A t, u \in granted : SourceOf[t] = SourceOf[u] => t = u
    BY <1>2 DEF LeaserSound
  <1>7. /\ \A t \in granted : /\ taskLock[t] = x
                              /\ tasks[t].there => tasks[t].ripe /\ ~tasks[t].live
        /\ \A t \in Task : taskLock[t] = x =>
             /\ taskRows[t].there
             /\ t \notin granted =>
                  /\ taskRows[t].live = tasks[t].live /\ taskRows[t].holder = tasks[t].holder
                  /\ taskRows[t].ripe /\ tasks[t].there => tasks[t].ripe
    BY <1>2, <1>3 DEF LeaserSound
  <1>8. Seen(x)' = Seen(x)
    BY <1>1 DEF Seen
  <1>9. stmt = "spread" => Unspread(x) = {}
    BY <1>1, <1>2, NothingTodo DEF LeaserSound
  <1>10. \A t \in Task : Seen(x)[t].ripe => Seen(x)[t].there
    <2> SUFFICES ASSUME NEW t \in Task, Seen(x)[t].ripe PROVE Seen(x)[t].there
      OBVIOUS
    <2>1. Seen(x)[t] = IF taskLock[t] = x THEN taskRows[t] ELSE tasks[t]
      BY DEF Seen
    <2>2. ~Seen(x)[t].there => Seen(x)[t] = NoTask
      BY <2>1 DEF IInv, RowsSound
    <2>3. tasks[t] \in TaskRow /\ taskRows[t] \in TaskRow
      BY DEF IInv, Types
    <2>4. Seen(x)[t].there \in BOOLEAN
      BY <2>1, <2>3 DEF TaskRow
    <2> QED BY <2>2, <2>4, RowTypes
  <1>11. \A S \in SUBSET Task : \A p \in Orders(S) : p \in Seq(Task) /\ Range(p) = S
    BY OrdersAll
  <1>a. CASE stmt = "seed"
    <2>1. next = "cards"
      BY <1>a DEF After
    <2>2. todo \in UNION {Orders(C) : C \in SUBSET {c \in Card : ~Seen(x)[c].there}}
      BY <1>1, <2>1 DEF Plans
    <2>3. todo \in Seq(Task)
      BY <1>11, <2>2, RoundAssumption
    <2> HIDE DEF stmt, granted, next, todo
    <2> QED BY <1>1, <1>4, <1>5, <1>6, <1>7, <1>a, <2>1, <2>3
         DEF LeaserSound, AtStart, Stmt, todo
  <1>b. CASE stmt = "cards"
    <2>1. next = "value"
      BY <1>b DEF After
    <2>2. todo \in UNION {Orders(C) : C \in SUBSET {c \in Card : Seen(x)[c].there}}
      BY <1>1, <2>1 DEF Plans
    <2>3. todo \in Seq(Task)
      BY <1>11, <2>2, RoundAssumption
    <2> HIDE DEF stmt, granted, next, todo
    <2> QED BY <1>1, <1>4, <1>5, <1>6, <1>7, <1>b, <2>1, <2>3
         DEF LeaserSound, AtStart, Stmt, todo
  <1>c. CASE stmt = "value"
    <2>1. next = "grant"
      BY <1>c DEF After
    <2>2. PICK K \in Picks(Seen(x)) : todo \in Orders(K)
      BY <1>1, <2>1 DEF Plans
    <2>3. K \subseteq Task /\ \A t, u \in K : SourceOf[t] = SourceOf[u] => t = u
      BY DEF Picks
    <2>4. todo \in Seq(Task) /\ Range(todo) = K
      BY <1>11, <2>2, <2>3
    <2>5. \A t, u \in granted \cup Range(todo) : SourceOf[t] = SourceOf[u] => t = u
      BY <1>5, <1>c, <2>3, <2>4
    <2> HIDE DEF stmt, granted, next, todo
    <2> QED BY <1>1, <1>4, <1>5, <1>7, <1>c, <2>1, <2>4, <2>5
         DEF LeaserSound, AtStart, Stmt, todo
  <1>d. CASE stmt = "grant" /\ granted = {}
    <2>1. next = "commit"
      BY <1>d DEF After
    <2>2. todo = <<>>
      BY <1>1, <2>1 DEF Plans
    <2>3. Unspread(x)' = {}
      BY <1>1, <1>d DEF Unspread, Sources
    <2> HIDE DEF stmt, granted, next, todo
    <2> QED BY <1>1, <1>4, <1>6, <1>7, <1>d, <2>1, <2>2, <2>3, NothingTodo
         DEF LeaserSound, AtStart, Stmt, todo
  <1>e. CASE stmt = "grant" /\ granted # {}
    <2>1. next = "spread"
      BY <1>e DEF After
    <2> DEFINE S == {t \in Task : Seen(x)[t].there /\ SourceOf[t] \in Sources(granted)}
    <2>2. todo \in Orders(S)
      BY <1>1, <2>1 DEF Plans
    <2>3. todo \in Seq(Task) /\ Range(todo) = S
      BY <1>11, <2>2
    <2>4. Unspread(x)' = {t \in Task : SourceOf[t] \in Sources(granted) /\ Seen(x)[t].ripe}
      BY <1>1, <1>8 DEF Unspread, Sources
    <2>5. Unspread(x)' \subseteq Range(todo)
      BY <1>10, <2>3, <2>4
    <2> HIDE DEF stmt, granted, next, todo, S
    <2> QED BY <1>1, <1>4, <1>6, <1>7, <1>e, <2>1, <2>3, <2>5
         DEF LeaserSound, AtStart, Stmt, todo
  <1>f. CASE stmt = "spread"
    <2>1. next = "commit"
      BY <1>f DEF After
    <2>2. todo = <<>>
      BY <1>1, <2>1 DEF Plans
    <2>3. Unspread(x)' = Unspread(x)
      BY <1>1, <1>8 DEF Unspread, Sources
    <2>4. Unspread(x)' = {}
      BY <1>9, <1>f, <2>3
    <2> HIDE DEF stmt, granted, next, todo
    <2> QED BY <1>1, <1>4, <1>6, <1>7, <1>f, <2>1, <2>2, <2>4, NothingTodo
         DEF LeaserSound, AtStart, Stmt, todo
  <1> QED BY <1>3, <1>a, <1>b, <1>c, <1>d, <1>e, <1>f

LEMMA StatementPost ==
  ASSUME IInv, NEW x \in Post, Statement(x)
  PROVE  PostSound(x)' /\ tx'[x].stmt \in Stmt /\ tx'[x].todo \in Seq(Task)
  <1>1. /\ x \in Tx /\ tx[x].todo = <<>> /\ tx[x].stmt \notin {"commit", "done"}
        /\ tasks' = tasks /\ taskRows' = taskRows /\ taskLock' = taskLock
        /\ tx'[x].stmt = After(tx[x].stmt, tx[x].granted)
        /\ tx'[x].todo \in Plans(x, After(tx[x].stmt, tx[x].granted))
        /\ tx'[x].granted = tx[x].granted
    BY StatementShape DEF Tx
  <1>2. PostSound(x)
    BY DEF IInv
  <1>3. tx[x].granted = {} /\ \A t \in Task : taskLock[t] = x =>
             /\ \/ taskRows[t].live = tasks[t].live /\ taskRows[t].holder = tasks[t].holder
                \/ ~tasks[t].live
                \/ tasks[t].holder = LabelOf[x]
             /\ taskRows[t].ripe => tasks[t].ripe
    BY <1>2 DEF PostSound
  <1>4. CASE tx[x].stmt = "enqueue"
    <2>1. tx'[x].stmt = "close"
      BY <1>1, <1>4 DEF After
    <2>2. PageOf[x] \in Task /\ tx'[x].todo \in {<<PageOf[x]>>, <<>>}
      BY <1>1, <1>4, RoundAssumption DEF After, Plans
    <2>3. /\ tx'[x].todo \in Seq(Task) /\ Range(tx'[x].todo) \subseteq {PageOf[x]}
          /\ Len(tx'[x].todo) <= 1
      <3>1. CASE tx'[x].todo = <<PageOf[x]>>
        <4>1. <<PageOf[x]>> \in Seq(Task) /\ Len(<<PageOf[x]>>) = 1
          BY <2>2
        <4>2. Range(<<PageOf[x]>>) \subseteq {PageOf[x]}
          BY DEF Range
        <4> QED BY <3>1, <4>1, <4>2
      <3>2. CASE tx'[x].todo = <<>>
        BY <3>2, NothingTodo
      <3> QED BY <2>2, <3>1, <3>2
    <2>4. x \in PagePost => HoldsNone(x)'
      BY <1>1, <1>2, <1>4 DEF PostSound, HoldsNone
    <2> QED BY <1>1, <1>3, <2>1, <2>3, <2>4 DEF PostSound, Stmt
  <1>5. CASE tx[x].stmt = "close"
    <2>1. tx'[x].stmt = "commit" /\ tx'[x].todo = <<>>
      BY <1>1, <1>5 DEF After, Plans
    <2> QED BY <1>1, <1>3, <2>1, NothingTodo DEF PostSound, Stmt
  <1> QED BY <1>1, <1>2, <1>4, <1>5 DEF PostSound

LEMMA StatementKeeps ==
  ASSUME IInv, NEW x \in Tx, Statement(x)
  PROVE  IInv'
  <1>1. /\ tasks' = tasks /\ taskRows' = taskRows /\ taskLock' = taskLock
        /\ \A y \in Tx : y # x => tx'[y] = tx[y]
    BY StatementShape
  <1>2. x \in Leaser => LeaserSound(x)'
    BY StatementLeaser
  <1>3. x \in Post => PostSound(x)'
    BY StatementPost
  <1>4. tx'[x].stmt \in Stmt /\ tx'[x].todo \in Seq(Task)
    BY StatementLeaser, StatementPost DEF Tx
  <1>5. Types'
    <2>1. tx \in [Tx -> [stmt : Stmt, todo : Seq(Task), granted : SUBSET Task]]
      BY DEF IInv, Types
    <2>2. PICK p \in Plans(x, After(tx[x].stmt, tx[x].granted)) :
            tx' = [tx EXCEPT ![x].stmt = After(tx[x].stmt, tx[x].granted), ![x].todo = p]
      BY DEF Statement
    <2>3. After(tx[x].stmt, tx[x].granted) \in Stmt /\ p \in Seq(Task)
      BY <1>4, <2>1, <2>2
    <2>4. tx' \in [Tx -> [stmt : Stmt, todo : Seq(Task), granted : SUBSET Task]]
      BY <2>1, <2>2, <2>3
    <2> QED BY <1>1, <2>4 DEF IInv, Types
  <1>6. RowsSound'
    BY <1>1 DEF IInv, RowsSound
  <1>7. ASSUME NEW y \in Tx, y # x PROVE Undisturbed(y)
    BY <1>1, <1>7 DEF Undisturbed
  <1> QED BY <1>2, <1>3, <1>5, <1>6, <1>7, OthersKeep
\* What a transaction holds while it is at its end, and after it.
LEMMA CommitKeeps ==
  ASSUME IInv, NEW x \in Tx, CommitTx(x)
  PROVE  IInv'
  <1>1. /\ tx[x].stmt = "commit" /\ taskRows' = taskRows
        /\ \A t \in Task : /\ tasks'[t] = IF taskLock[t] = x THEN taskRows[t] ELSE tasks[t]
                           /\ taskLock'[t] = IF taskLock[t] = x THEN NoOne ELSE taskLock[t]
    BY DEF CommitTx, Held
  <1>2. x # NoOne /\ Types /\ RowsSound
    BY RoundAssumption DEF IInv, Tx
  <1>3. /\ tx'[x].stmt = "done" /\ tx'[x].todo = tx[x].todo /\ tx'[x].granted = tx[x].granted
        /\ \A y \in Tx : y # x => tx'[y] = tx[y]
    BY <1>2 DEF CommitTx, Types
  <1>4. Types'
    <2>1. tasks' \in [Task -> TaskRow] /\ taskRows' \in [Task -> TaskRow]
      BY <1>2 DEF CommitTx, Types
    <2>2. taskLock' \in [Task -> Tx \cup {NoOne}]
      BY <1>2 DEF CommitTx, Types
    <2>3. tx' \in [Tx -> [stmt : Stmt, todo : Seq(Task), granted : SUBSET Task]]
      BY <1>2 DEF CommitTx, Types, Stmt
    <2> QED BY <2>1, <2>2, <2>3 DEF Types
  <1>5. RowsSound'
    BY <1>1, <1>2 DEF RowsSound
  <1>6. HoldsNone(x)'
    BY <1>1, <1>2 DEF HoldsNone
  <1>7. x \in Leaser => LeaserSound(x)'
    <2> SUFFICES ASSUME x \in Leaser PROVE LeaserSound(x)'
      OBVIOUS
    <2>1. LeaserSound(x)
      BY DEF IInv
    <2>2. /\ tx'[x].todo = <<>>
          /\ \A t, u \in tx'[x].granted : SourceOf[t] = SourceOf[u] => t = u
      BY <1>1, <1>3, <2>1 DEF LeaserSound
    <2>3. \A t \in Task : taskLock'[t] # x
      BY <1>6 DEF HoldsNone
    <2> QED BY <1>3, <1>6, <2>2, <2>3 DEF LeaserSound, Stmt
  <1>8. x \in Post => PostSound(x)'
    <2> SUFFICES ASSUME x \in Post PROVE PostSound(x)'
      OBVIOUS
    <2>1. PostSound(x)
      BY DEF IInv
    <2>2. tx'[x].todo = <<>> /\ tx'[x].granted = {}
      BY <1>1, <1>3, <2>1 DEF PostSound
    <2>3. \A t \in Task : taskLock'[t] # x
      BY <1>6 DEF HoldsNone
    <2> QED BY <1>3, <1>6, <2>2, <2>3, NothingTodo DEF PostSound
  <1>9. ASSUME NEW y \in Tx, y # x PROVE Undisturbed(y)
    <2>1. y # NoOne
      BY RoundAssumption DEF Tx
    <2>2. /\ \A u \in Task : taskLock'[u] = y <=> taskLock[u] = y
          /\ \A u \in Task : taskLock[u] = y => taskRows'[u] = taskRows[u] /\ tasks'[u] = tasks[u]
      BY <1>1, <1>9, <2>1
    <2>3. ASSUME y \in Leaser, tx[y].stmt \in {"spread", "commit"},
                 NEW u \in Task, taskLock[u] # y, tasks'[u].ripe
          PROVE  tasks[u].ripe
      <3>1. CASE taskLock[u] # x
        BY <1>1, <2>3, <3>1
      <3>2. CASE taskLock[u] = x
        <4>1. LeaserSound(y) /\ ~AtStart(y)
          BY <2>3 DEF IInv, AtStart
        <4>2. taskLock[FirstSeed] = y
          BY <2>3, <4>1 DEF LeaserSound
        <4>3. x \notin Leaser
          <5> SUFFICES ASSUME x \in Leaser PROVE FALSE
            OBVIOUS
          <5>1. LeaserSound(x) /\ ~AtStart(x)
            BY <1>1 DEF IInv, AtStart
          <5> QED BY <1>1, <1>9, <4>2, <5>1 DEF LeaserSound
        <4>4. PostSound(x)
          BY <4>3 DEF IInv, Tx
        <4> QED BY <1>1, <2>3, <3>2, <4>4 DEF PostSound
      <3> QED BY <3>1, <3>2
    <2> QED BY <1>3, <1>9, <2>2, <2>3 DEF Undisturbed
  <1> QED BY <1>4, <1>5, <1>7, <1>8, <1>9, OthersKeep

\* Only a transaction with rows to come to is kept waiting.
LEMMA Waited ==
  ASSUME NEW x \in Tx, IInv, Waits(x) # NoOne
  PROVE  /\ tx[x].todo # <<>> /\ Waits(x) # x
         /\ \E t \in Task : taskLock[t] = Waits(x)
  <1>1. tx[x].todo # <<>>
    BY DEF Waits
  <1>2. Head(tx[x].todo) \in Task
    BY <1>1, TodoStep DEF IInv, Types
  <1>3. Waits(x) = taskLock[Head(tx[x].todo)] /\ taskLock[Head(tx[x].todo)] # x
    BY <1>1 DEF Waits
  <1> QED BY <1>1, <1>2, <1>3

LEMMA AbortKeeps ==
  ASSUME IInv, NEW x \in Tx, AbortTx(x)
  PROVE  IInv'
  <1>1. /\ tasks' = tasks
        /\ \A t \in Task : /\ taskRows'[t] = IF taskLock[t] = x THEN tasks[t] ELSE taskRows[t]
                           /\ taskLock'[t] = IF taskLock[t] = x THEN NoOne ELSE taskLock[t]
    BY DEF AbortTx, Held
  <1>2. x # NoOne /\ Types /\ RowsSound
    BY RoundAssumption DEF IInv, Tx
  <1>3. /\ tx'[x] = [stmt |-> "done", todo |-> <<>>, granted |-> {}]
        /\ \A y \in Tx : y # x => tx'[y] = tx[y]
    BY <1>2 DEF AbortTx, Types
  <1>4. Types'
    <2>1. tasks' \in [Task -> TaskRow] /\ taskRows' \in [Task -> TaskRow]
      BY <1>2 DEF AbortTx, Types
    <2>2. taskLock' \in [Task -> Tx \cup {NoOne}]
      BY <1>2 DEF AbortTx, Types
    <2>3. [stmt |-> "done", todo |-> <<>>, granted |-> {}]
            \in [stmt : Stmt, todo : Seq(Task), granted : SUBSET Task]
      BY NothingTodo DEF Stmt
    <2>4. tx' \in [Tx -> [stmt : Stmt, todo : Seq(Task), granted : SUBSET Task]]
      BY <1>2, <2>3 DEF AbortTx, Types
    <2> QED BY <2>1, <2>2, <2>4 DEF Types
  <1>5. RowsSound'
    BY <1>1, <1>2 DEF RowsSound
  <1>6. HoldsNone(x)' /\ \A t \in Task : taskLock'[t] # x
    BY <1>1, <1>2 DEF HoldsNone
  <1>7. x \in Leaser => LeaserSound(x)'
    BY <1>3, <1>6 DEF LeaserSound, Stmt
  <1>8. x \in Post => PostSound(x)'
    BY <1>3, <1>6, NothingTodo DEF PostSound
  <1>9. ASSUME NEW y \in Tx, y # x PROVE Undisturbed(y)
    <2>1. y # NoOne
      BY RoundAssumption DEF Tx
    <2> QED BY <1>1, <1>3, <1>9, <2>1 DEF Undisturbed
  <1> QED BY <1>4, <1>5, <1>7, <1>8, <1>9, OthersKeep

LEMMA InitSound == LeaseInit => IInv
  <1> SUFFICES ASSUME LeaseInit PROVE IInv
    OBVIOUS
  <1>1. /\ tasks \in [Task -> {r \in TaskRow : Legal(r)}] /\ taskRows = tasks
        /\ \A t \in Task : taskLock[t] = NoOne
        /\ DOMAIN tx = Tx /\ tx = [x \in Tx |-> tx[x]] /\ \A x \in Tx : tx[x] \in Start(x)
    BY DEF LeaseInit
  <1>2. \A x \in Tx : x # NoOne
    BY RoundAssumption DEF Tx
  <1>3. \A t \in Task : tasks[t] \in TaskRow /\ (~tasks[t].there => tasks[t] = NoTask)
    BY <1>1 DEF Legal
  <1>4. \A x \in Tx : HoldsNone(x)
    BY <1>1, <1>2 DEF HoldsNone
  <1>5. ASSUME NEW x \in Leaser
        PROVE  tx[x] = [stmt |-> "seed", todo |-> SeedOrder, granted |-> {}]
    <2>1. x \notin HubPost /\ x \notin PagePost /\ x \in Tx
      BY RoundAssumption DEF Tx, Post
    <2>2. Start(x) = {[stmt |-> "seed", todo |-> p, granted |-> {}] : p \in {SeedOrder}}
      BY <2>1 DEF Start, SeedPlans
    <2>3. tx[x] \in {[stmt |-> "seed", todo |-> p, granted |-> {}] : p \in {SeedOrder}}
      BY <1>1, <2>1, <2>2
    <2> QED BY <2>3
  <1>6. ASSUME NEW x \in HubPost
        PROVE  tx[x] \in [stmt : {"enqueue"}, todo : Seq(Task), granted : {{}}]
    <2>1. x \notin Leaser /\ x \notin PagePost /\ x \in Tx
      BY RoundAssumption DEF Tx, Post
    <2> DEFINE some == UNION {Orders(U) : U \in SUBSET {u \in Landing :
                                            SourceOf[u] = SourceOf[PageOf[x]]}}
    <2>2. Start(x) = {[stmt |-> "enqueue", todo |-> p, granted |-> {}] : p \in some}
      BY <2>1 DEF Start
    <2>3. some \subseteq Seq(Task)
      <3>1. \A S \in SUBSET Task : \A p \in Orders(S) : p \in Seq(Task)
        BY OrdersAll
      <3> QED BY <3>1, RoundAssumption
    <2> HIDE DEF some
    <2>4. tx[x] \in {[stmt |-> "enqueue", todo |-> p, granted |-> {}] : p \in some}
      BY <1>1, <2>1, <2>2
    <2> QED BY <2>3, <2>4
  <1>7. ASSUME NEW x \in PagePost
        PROVE  tx[x] = [stmt |-> "enqueue", todo |-> <<>>, granted |-> {}]
    <2>1. x \notin Leaser /\ x \notin HubPost /\ x \in Tx
      BY RoundAssumption DEF Tx, Post
    <2>2. Start(x) = {[stmt |-> "enqueue", todo |-> <<>>, granted |-> {}]}
      BY <2>1 DEF Start
    <2> QED BY <1>1, <2>1, <2>2
  <1>8. Types
    <2>1. ASSUME NEW x \in Tx
          PROVE  tx[x] \in [stmt : Stmt, todo : Seq(Task), granted : SUBSET Task]
      <3>1. CASE x \in Leaser
        <4>1. tx[x] = [stmt |-> "seed", todo |-> SeedOrder, granted |-> {}]
          BY <1>5, <3>1
        <4> QED BY <4>1, FirstSeedType DEF Stmt
      <3>2. CASE x \in HubPost
        <4>1. tx[x] \in [stmt : {"enqueue"}, todo : Seq(Task), granted : {{}}]
          BY <1>6, <3>2
        <4>2. tx[x] = [stmt |-> "enqueue", todo |-> tx[x].todo, granted |-> {}]
              /\ tx[x].todo \in Seq(Task)
          BY <4>1
        <4>3. {} \in SUBSET Task /\ "enqueue" \in Stmt
          BY DEF Stmt
        <4> QED BY <4>2, <4>3
      <3>3. CASE x \in PagePost
        <4>1. tx[x] = [stmt |-> "enqueue", todo |-> <<>>, granted |-> {}]
          BY <1>7, <3>3
        <4> QED BY <4>1, NothingTodo DEF Stmt
      <3> QED BY <3>1, <3>2, <3>3 DEF Tx, Post
    <2>2. tx \in [Tx -> [stmt : Stmt, todo : Seq(Task), granted : SUBSET Task]]
      BY <1>1, <2>1
    <2>3. tasks \in [Task -> TaskRow] /\ taskRows \in [Task -> TaskRow]
      BY <1>1
    <2>4. taskLock \in [Task -> Tx \cup {NoOne}]
      BY DEF LeaseInit
    <2> QED BY <2>2, <2>3, <2>4 DEF Types
  <1>9. RowsSound
    BY <1>1, <1>3 DEF RowsSound
  <1>10. ASSUME NEW x \in Leaser PROVE LeaserSound(x)
    <2>1. HoldsNone(x) /\ \A t \in Task : taskLock[t] # x
      BY <1>1, <1>2, <1>4 DEF Tx
    <2>2. /\ tx[x].stmt = "seed" /\ tx[x].todo = SeedOrder /\ tx[x].granted = {}
          /\ AtStart(x)
      BY <1>5 DEF AtStart
    <2> QED BY <2>1, <2>2 DEF LeaserSound, Stmt
  <1>11. ASSUME NEW x \in Post PROVE PostSound(x)
    <2>1. HoldsNone(x) /\ \A t \in Task : taskLock[t] # x
      BY <1>1, <1>2, <1>4 DEF Tx
    <2>2. tx[x].stmt = "enqueue" /\ tx[x].granted = {}
      <3>1. CASE x \in HubPost
        BY <1>6, <3>1
      <3>2. CASE x \in PagePost
        BY <1>7, <3>2
      <3> QED BY <3>1, <3>2 DEF Post
    <2>3. x \in PagePost => tx[x].todo = <<>>
      BY <1>7
    <2> QED BY <2>1, <2>2, <2>3, NothingTodo DEF PostSound
  <1> QED BY <1>8, <1>9, <1>10, <1>11 DEF IInv

LEMMA NextKeeps == IInv /\ [LeaseNext]_leaseVars => IInv'
  <1> SUFFICES ASSUME IInv, [LeaseNext]_leaseVars PROVE IInv'
    OBVIOUS
  <1>1. CASE UNCHANGED leaseVars
    <2>1. Types' /\ RowsSound'
      BY <1>1 DEF leaseVars, IInv, Types, RowsSound
    <2>2. ASSUME NEW y \in Tx PROVE Undisturbed(y)
      BY <1>1 DEF leaseVars, Undisturbed
    <2>3. ASSUME NEW y \in Leaser PROVE LeaserSound(y)'
      <3>1. Types /\ LeaserSound(y) /\ Undisturbed(y)
        BY <2>2 DEF IInv, Tx
      <3> QED BY <3>1, LeaserUndisturbed
    <2>4. ASSUME NEW y \in Post PROVE PostSound(y)'
      <3>1. PostSound(y) /\ Undisturbed(y)
        BY <2>2 DEF IInv, Tx
      <3> QED BY <3>1, PostUndisturbed
    <2> QED BY <2>1, <2>3, <2>4 DEF IInv
  <1>2. ASSUME NEW x \in Tx, Touch(x) \/ Statement(x) \/ CommitTx(x) \/ AbortTx(x)
        PROVE  IInv'
    BY <1>2, TouchKeeps, StatementKeeps, CommitKeeps, AbortKeeps
  <1> QED BY <1>1, <1>2 DEF LeaseNext

\* The invariant holds whatever the tables, the requests and their timing.
THEOREM Invariance == LeaseSpec => []IInv
  BY InitSound, NextKeeps, PTL DEF LeaseSpec

-----------------------------------------------------------------------------
\* A request that has committed did so in the step that ends its transaction.
LEMMA CommitsStep ==
  ASSUME IInv, [LeaseNext]_leaseVars, NEW x \in Tx, CommitsTx(x)
  PROVE  CommitTx(x)
  <1>1. tx[x].stmt = "commit" /\ tx'[x].stmt = "done"
    BY DEF CommitsTx
  <1>2. tx[x].todo = <<>>
    BY <1>1 DEF IInv, LeaserSound, PostSound, Tx
  <1>3. tx' # tx
    BY <1>1
  <1>4. PICK y \in Tx : Touch(y) \/ Statement(y) \/ CommitTx(y) \/ AbortTx(y)
    BY <1>3 DEF LeaseNext, leaseVars
  <1>5. y = x
    <2> SUFFICES ASSUME y # x PROVE tx'[x] = tx[x]
      BY <1>1
    <2> QED BY <1>4, TouchShape, StatementShape
         DEF Touched, CommitTx, AbortTx, IInv, Types
  <1>6. ~Touch(x) /\ ~Statement(x)
    BY <1>1, <1>2 DEF Touch, Statement
  <1>7. ~AbortTx(x)
    BY <1>2 DEF AbortTx, Waits
  <1> QED BY <1>4, <1>5, <1>6, <1>7

LEMMA AtomicStep ==
  ASSUME IInv, [LeaseNext]_leaseVars, NEW x \in Leaser, CommitsTx(x)
  PROVE  LET granted == tx[x].granted IN
         /\ \A t \in granted : tasks[t].there => tasks[t].ripe /\ ~tasks[t].live
         /\ \A t, u \in granted : SourceOf[t] = SourceOf[u] => t = u
         /\ \A t \in Task : SourceOf[t] \in Sources(granted) => ~tasks'[t].ripe
         /\ \A t \in Task \ granted : /\ tasks'[t].live = tasks[t].live
                                      /\ tasks'[t].holder = tasks[t].holder
  <1>1. CommitTx(x) /\ tx[x].stmt = "commit" /\ LeaserSound(x)
    BY CommitsStep DEF CommitsTx, IInv, Tx
  <1>2. \A t \in Task : tasks'[t] = IF taskLock[t] = x THEN taskRows[t] ELSE tasks[t]
    BY <1>1 DEF CommitTx, Held
  <1>3. \A t \in Task : tasks'[t] = Seen(x)[t]
    BY <1>2 DEF Seen
  <1>4. /\ \A t \in tx[x].granted : tasks[t].there => tasks[t].ripe /\ ~tasks[t].live
        /\ \A t, u \in tx[x].granted : SourceOf[t] = SourceOf[u] => t = u
    BY <1>1 DEF LeaserSound
  <1>5. \A t \in Task : SourceOf[t] \in Sources(tx[x].granted) => ~tasks'[t].ripe
    <2>1. Unspread(x) = {}
      BY <1>1 DEF LeaserSound
    <2> QED BY <1>3, <2>1 DEF Unspread
  <1>6. \A t \in Task \ tx[x].granted : /\ tasks'[t].live = tasks[t].live
                                        /\ tasks'[t].holder = tasks[t].holder
    BY <1>1, <1>2 DEF LeaserSound
  <1> QED BY <1>4, <1>5, <1>6

LEMMA CloseStep ==
  ASSUME IInv, [LeaseNext]_leaseVars, NEW x \in Post, CommitsTx(x), NEW t \in Task,
         tasks[t].live, tasks[t].holder # LabelOf[x]
  PROVE  tasks'[t].live /\ tasks'[t].holder = tasks[t].holder
  <1>1. CommitTx(x) /\ PostSound(x)
    BY CommitsStep DEF IInv, Tx
  <1>2. tasks'[t] = IF taskLock[t] = x THEN taskRows[t] ELSE tasks[t]
    BY <1>1 DEF CommitTx, Held
  <1> QED BY <1>1, <1>2 DEF PostSound

\* Whoever is waited for and waits, and is no discovery, is a lease past the
\* first row of seeding.
LEMMA InTheWay ==
  ASSUME IInv, NEW x \in Tx, NEW y \in Tx \ HubPost, Waits(x) = y, Waits(y) # NoOne
  PROVE  taskLock[FirstSeed] = y
  <1>1. y # NoOne
    BY RoundAssumption DEF Tx
  <1>2. tx[y].todo # <<>> /\ \E t \in Task : taskLock[t] = y
    BY <1>1, Waited
  <1>3. ~HoldsNone(y)
    BY <1>2 DEF HoldsNone
  <1>4. y \notin PagePost
    <2> SUFFICES ASSUME y \in PagePost PROVE FALSE
      OBVIOUS
    <2>1. PostSound(y)
      BY DEF IInv, Post
    <2> QED BY <1>2, <1>3, <2>1 DEF PostSound
  <1>5. LeaserSound(y)
    BY <1>4 DEF IInv, Tx, Post
  <1> QED BY <1>2, <1>3, <1>5 DEF LeaserSound

LEMMA NoCircle == IInv => CircleNeedsDiscovery
  <1> SUFFICES ASSUME IInv, NEW C \in SUBSET (Tx \ HubPost), NEW x \in C,
                      \A y \in C : Waits(y) \in C
               PROVE  FALSE
    BY DEF CircleNeedsDiscovery
  <1>1. NoOne \notin C
    BY RoundAssumption DEF Tx
  <1>2. /\ Waits(x) \in C /\ Waits(Waits(x)) \in C /\ Waits(Waits(Waits(x))) \in C
    OBVIOUS
  <1> DEFINE y == Waits(x)
             z == Waits(Waits(x))
  <1>3. y \in Tx \ HubPost /\ z \in Tx \ HubPost /\ Waits(y) = z
        /\ Waits(y) # NoOne /\ Waits(z) # NoOne
    BY <1>1, <1>2
  <1>4. taskLock[FirstSeed] = y
    BY <1>3, InTheWay
  <1>5. z # y
    BY <1>3, Waited
  <1>6. taskLock[FirstSeed] = z
    BY <1>3, InTheWay
  <1> QED BY <1>4, <1>5, <1>6

\* A lease is as atomic as if its statements had run alone.
THEOREM AtomicHolds == LeaseSpec => AtomicLease
  <1>1. IInv /\ [LeaseNext]_leaseVars =>
          [\A x \in Leaser : CommitsTx(x) =>
             LET granted == tx[x].granted IN
             /\ \A t \in granted : tasks[t].there => tasks[t].ripe /\ ~tasks[t].live
             /\ \A t, u \in granted : SourceOf[t] = SourceOf[u] => t = u
             /\ \A t \in Task : SourceOf[t] \in Sources(granted) => ~tasks'[t].ripe
             /\ \A t \in Task \ granted : /\ tasks'[t].live = tasks[t].live
                                          /\ tasks'[t].holder = tasks[t].holder]_leaseVars
    BY AtomicStep
  <1> QED BY <1>1, Invariance, PTL DEF LeaseSpec, AtomicLease

\* The post of a page ends no lease but the poster's own.
THEOREM CloseHolds == LeaseSpec => CloseKeepsLease
  <1>1. IInv /\ [LeaseNext]_leaseVars =>
          [\A x \in Post : CommitsTx(x) =>
             \A t \in Task :
               tasks[t].live /\ tasks[t].holder # LabelOf[x]
                 => tasks'[t].live /\ tasks'[t].holder = tasks[t].holder]_leaseVars
    BY CloseStep
  <1> QED BY <1>1, Invariance, PTL DEF LeaseSpec, CloseKeepsLease

\* However many leases and posted pages there are, they wait for each other in
\* a circle only around a discovery.
THEOREM CircleHolds == LeaseSpec => []CircleNeedsDiscovery
  BY Invariance, NoCircle, PTL
=============================================================================
