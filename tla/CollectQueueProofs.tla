------------------------- MODULE CollectQueueProofs -------------------------
(***************************************************************************)
(* The lease queue keeps its promises for any number of shops, tasks and   *)
(* collectors.  Every step is the clock's (Tick), a lease request          *)
(* (LeaseStep), a request about one task (RequestStep), or leaves the      *)
(* schedule alone (StepShape); the properties follow from these shapes.    *)
(***************************************************************************)
EXTENDS CollectQueueVisits, FiniteSetTheorems, TLAPS

Table == [Task -> Row]

LEMMA NoRowType == NoRow \in Row /\ ~Present(NoRow)
  BY TimesAssumption DEF NoRow, NewRow, Row, Kind, Present

LEMMA NewRowType ==
  ASSUME NEW kind \in Kind, NEW prio \in {10, 50, 100, 200},
         NEW repeat \in {PageRepeat, DeepRepeat}, NEW due \in Nat
  PROVE  /\ NewRow(kind, prio, repeat, due) \in Row
         /\ Present(NewRow(kind, prio, repeat, due))
  BY TimesAssumption DEF NewRow, Row, Kind, Present

\* One field of a row at a time.
LEMMA RowUpdate ==
  ASSUME NEW r \in Row
  PROVE  /\ \A v \in {10, 50, 100, 200} : [r EXCEPT !.prio = v] \in Row
         /\ \A v \in {PageRepeat, DeepRepeat} : [r EXCEPT !.repeat = v] \in Row
         /\ \A v \in 0..2 : [r EXCEPT !.tier = v] \in Row
         /\ \A v \in Int : v >= -AgeCap => [r EXCEPT !.due = v] \in Row
         /\ \A v \in -1..LeaseTTL : [r EXCEPT !.lease = v] \in Row
         /\ \A v \in Label \cup {NoOne} : [r EXCEPT !.holder = v] \in Row
         /\ \A v \in {"new", "ok", "fail"} : [r EXCEPT !.status = v] \in Row
         /\ \A v \in 0..MaxFactor : [r EXCEPT !.fails = v] \in Row
         /\ \A v \in 0..IdleCap : [r EXCEPT !.idle = v] \in Row
  <1>1. \A v \in {10, 50, 100, 200} : [r EXCEPT !.prio = v] \in Row
    BY DEF Row
  <1>2. \A v \in {PageRepeat, DeepRepeat} : [r EXCEPT !.repeat = v] \in Row
    BY DEF Row
  <1>3. \A v \in 0..2 : [r EXCEPT !.tier = v] \in Row
    BY DEF Row
  <1>4. \A v \in Int : v >= -AgeCap => [r EXCEPT !.due = v] \in Row
    BY DEF Row
  <1>5. \A v \in -1..LeaseTTL : [r EXCEPT !.lease = v] \in Row
    BY DEF Row
  <1>6. \A v \in Label \cup {NoOne} : [r EXCEPT !.holder = v] \in Row
    BY DEF Row
  <1>7. \A v \in {"new", "ok", "fail"} : [r EXCEPT !.status = v] \in Row
    BY DEF Row
  <1>8. \A v \in 0..MaxFactor : [r EXCEPT !.fails = v] \in Row
    BY DEF Row
  <1>9. \A v \in 0..IdleCap : [r EXCEPT !.idle = v] \in Row
    BY DEF Row
  <1> QED BY <1>1, <1>2, <1>3, <1>4, <1>5, <1>6, <1>7, <1>8, <1>9

LEMMA ClosedRowType ==
  ASSUME NEW r \in Row, NEW status \in {"ok", "fail"}, NEW fails \in 0..MaxFactor,
         NEW due \in Nat
  PROVE  [r EXCEPT !.holder = NoOne, !.lease = -1, !.idle = 0, !.status = status,
                   !.fails = fails, !.due = due] \in Row
  <1> DEFINE r1 == [r EXCEPT !.holder = NoOne]
             r2 == [r1 EXCEPT !.lease = -1]
             r3 == [r2 EXCEPT !.idle = 0]
             r4 == [r3 EXCEPT !.status = status]
             r5 == [r4 EXCEPT !.fails = fails]
             r6 == [r5 EXCEPT !.due = due]
  <1>0. [r EXCEPT !.holder = NoOne, !.lease = -1, !.idle = 0, !.status = status,
                  !.fails = fails, !.due = due] = r6
    OBVIOUS
  <1>a. -1 \in -1..LeaseTTL /\ 0 \in 0..IdleCap /\ due \in Int /\ due >= -AgeCap
    BY TimesAssumption
  <1>1. r1 \in Row
    BY RowUpdate
  <1> HIDE DEF r1
  <1>2. r2 \in Row
    BY <1>1, <1>a, RowUpdate
  <1> HIDE DEF r2
  <1>3. r3 \in Row
    BY <1>2, <1>a, RowUpdate
  <1> HIDE DEF r3
  <1>4. r4 \in Row
    BY <1>3, RowUpdate
  <1> HIDE DEF r4
  <1>5. r5 \in Row
    BY <1>4, RowUpdate
  <1> HIDE DEF r5
  <1>6. r6 \in Row
    BY <1>5, <1>a, RowUpdate
  <1> QED BY <1>0, <1>6

LEMMA CloseRowType ==
  ASSUME NEW r \in Row, NEW ok \in BOOLEAN
  PROVE  CloseRow(r, ok) \in Row
  <1>1. CASE ok /\ r.kind = "card"
    BY <1>1, NoRowType DEF CloseRow
  <1>2. CASE ~(ok /\ r.kind = "card")
    <2> DEFINE factor == IF ok THEN 1 ELSE Smaller(r.fails + 1, MaxFactor)
               fails == IF ok THEN 0 ELSE factor
               status == IF ok THEN "ok" ELSE "fail"
               due == r.repeat * factor
    <2>1. factor \in 1..MaxFactor
      BY TimesAssumption DEF Row, Smaller
    <2>2. r.repeat \in Nat
      BY TimesAssumption DEF Row
    <2>3. due \in Nat
      BY <2>1, <2>2
    <2>4. CloseRow(r, ok) =
            [r EXCEPT !.holder = NoOne, !.lease = -1, !.idle = 0, !.status = status,
                      !.fails = fails, !.due = due]
      BY <1>2 DEF CloseRow
    <2>5. fails \in 0..MaxFactor /\ status \in {"ok", "fail"}
      BY <2>1, TimesAssumption
    <2> HIDE DEF factor, fails, status, due
    <2>6. [r EXCEPT !.holder = NoOne, !.lease = -1, !.idle = 0, !.status = status,
                    !.fails = fails, !.due = due] \in Row
      BY <2>3, <2>5, ClosedRowType
    <2> QED BY <2>4, <2>6
  <1> QED BY <1>1, <1>2

LEMMA SeededType ==
  ASSUME NEW q \in Table
  PROVE  Seeded(q) \in Table
  <1> SUFFICES ASSUME NEW t \in Task PROVE Seeded(q)[t] \in Row
    BY DEF Seeded, Table
  <1>0. q[t] \in Row
    BY DEF Table
  <1>1. CASE t \in wanted /\ Present(q[t])
    <2> DEFINE r == [q[t] EXCEPT !.repeat = RepeatFor(t)]
    <2>1. r \in Row
      BY <1>0, RowUpdate DEF RepeatFor
    <2>2. Seeded(q)[t] = [r EXCEPT !.prio = PrioFor(t)]
      BY <1>1 DEF Seeded
    <2> HIDE DEF r
    <2> QED BY <2>1, <2>2, RowUpdate DEF PrioFor
  <1>2. CASE t \in wanted /\ ~Present(q[t])
    BY <1>2, NewRowType DEF Seeded, RepeatFor, PrioFor, KindFor, Kind
  <1>3. CASE t \notin wanted
    BY <1>0, <1>3, NoRowType DEF Seeded
  <1> QED BY <1>1, <1>2, <1>3

LEMMA WithCardsType ==
  ASSUME NEW q \in Table, NEW C
  PROVE  WithCards(q, C) \in Table
  BY NewRowType DEF WithCards, Table, Kind

LEMMA ValuedType ==
  ASSUME NEW q \in Table, NEW tier \in [Task -> Tiers]
  PROVE  Valued(q, tier) \in Table
  <1> SUFFICES ASSUME NEW t \in Task PROVE Valued(q, tier)[t] \in Row
    BY DEF Valued, Table
  <1>1. q[t] \in Row
    BY DEF Table
  <1>2. tier[t] \in 0..2 /\ Smaller(tier[t], 1) \in 0..2
    BY TimesAssumption DEF Smaller
  <1> QED BY <1>1, <1>2, RowUpdate DEF Valued

LEMMA LeasedType ==
  ASSUME NEW q \in Table, NEW K, NEW w \in Worker
  PROVE  Leased(q, K, w) \in Table
  <1> SUFFICES ASSUME NEW t \in Task PROVE Leased(q, K, w)[t] \in Row
    BY DEF Leased, Table
  <1> DEFINE r == [q[t] EXCEPT !.holder = LabelOf[w]]
  <1>1. q[t] \in Row /\ LeaseTTL \in -1..LeaseTTL
    BY TimesAssumption DEF Table
  <1>2. r \in Row
    BY <1>1, RowUpdate, SetsAssumption
  <1>3. Leased(q, K, w)[t] = IF t \in K THEN [r EXCEPT !.lease = LeaseTTL] ELSE q[t]
    BY DEF Leased
  <1> HIDE DEF r
  <1> QED BY <1>1, <1>2, <1>3, RowUpdate

LEMMA SpreadType ==
  ASSUME NEW q \in Table, NEW S
  PROVE  Spread(q, S) \in Table
  <1> SUFFICES ASSUME NEW t \in Task PROVE Spread(q, S)[t] \in Row
    BY DEF Spread, Table
  <1>1. q[t] \in Row
    BY DEF Table
  <1>2. Larger(q[t].due, Spacing) \in Int /\ Larger(q[t].due, Spacing) >= -AgeCap
    BY <1>1, TimesAssumption DEF Row, Larger
  <1> QED BY <1>1, <1>2, RowUpdate DEF Spread

LEMMA EnqueuedType ==
  ASSUME NEW q \in Table, NEW U, NEW repeat \in {PageRepeat, DeepRepeat}
  PROVE  Enqueued(q, U, repeat) \in Table
  <1> SUFFICES ASSUME NEW t \in Task PROVE Enqueued(q, U, repeat)[t] \in Row
    BY DEF Enqueued, Table
  <1>1. q[t] \in Row /\ Spacing \in Nat
    BY TimesAssumption DEF Table
  <1>2. CASE t \in U /\ Present(q[t])
    BY <1>1, <1>2, RowUpdate DEF Enqueued
  <1>3. CASE t \in U /\ ~Present(q[t])
    BY <1>1, <1>3, NewRowType DEF Enqueued, Kind
  <1> QED BY <1>1, <1>2, <1>3 DEF Enqueued

LEMMA UnbindType ==
  ASSUME NEW J \in SUBSET Job, NEW gone
  PROVE  Unbind(J, gone) \subseteq Job
  BY DEF Unbind, Job

LEMMA ResultsType ==
  ASSUME queue \in Table, NEW t \in Task, NEW r \in Results(t)
  PROVE  r.q \in Table /\ r.ok \in BOOLEAN
  <1>1. CASE IsDiscovery(t)
    <2> DEFINE repeat == IF t \in Sitemap THEN DeepRepeat ELSE PageRepeat
    <2>1. PICK U \in Found(t) : r = [q |-> Enqueued(queue, U, repeat), ok |-> TRUE]
      BY <1>1 DEF Results
    <2>2. Enqueued(queue, U, repeat) \in Table
      BY EnqueuedType
    <2> QED BY <2>1, <2>2
  <1>2. CASE ~IsDiscovery(t)
    BY <1>2 DEF Results
  <1> QED BY <1>1, <1>2

LEMMA CloseType ==
  ASSUME TypeOK, NEW q \in Table, NEW t \in Task, NEW hit \in BOOLEAN, NEW ok \in BOOLEAN,
         NEW J \in SUBSET Job, Close(q, t, hit, ok, J)
  PROVE  /\ queue' \in Table /\ jobs' \subseteq Job
         /\ fresh' \subseteq Task /\ sinceOk' \in 0..IdleCap
  <1>1. queue' \in Table
    <2>1. q[t] \in Row /\ CloseRow(q[t], ok) \in Row
      BY CloseRowType DEF Table
    <2> QED BY <2>1 DEF Close, Table
  <1>2. jobs' \subseteq Job
    BY UnbindType DEF Close
  <1>3. fresh' \subseteq Task /\ sinceOk' \in 0..IdleCap
    BY TimesAssumption DEF Close, TypeOK
  <1> QED BY <1>1, <1>2, <1>3

LEMMA TickType ==
  ASSUME TypeOK, Tick
  PROVE  TypeOK'
  <1>1. queue' \in [Task -> Row]
    <2> SUFFICES ASSUME NEW t \in Task PROVE queue'[t] \in Row
      BY DEF Tick
    <2>1. CASE ~Present(queue[t])
      BY <2>1 DEF Tick, TypeOK
    <2>2. CASE Present(queue[t])
      <3> DEFINE due == Larger(queue[t].due - 1, -AgeCap)
                 lease == Larger(queue[t].lease - 1, -1)
                 idle == Smaller(queue[t].idle + 1, IdleCap)
                 r1 == [queue[t] EXCEPT !.due = due]
                 r2 == [r1 EXCEPT !.lease = lease]
                 r3 == [r2 EXCEPT !.idle = idle]
      <3>1. queue[t] \in Row
        BY DEF TypeOK
      <3>2. due \in Int /\ due >= -AgeCap /\ lease \in -1..LeaseTTL /\ idle \in 0..IdleCap
        BY <3>1, TimesAssumption DEF Row, Larger, Smaller
      <3>3. queue'[t] = r3
        BY <2>2 DEF Tick
      <3> HIDE DEF due, lease, idle
      <3>4. r1 \in Row
        BY <3>1, <3>2, RowUpdate
      <3> HIDE DEF r1
      <3>5. r2 \in Row
        BY <3>2, <3>4, RowUpdate
      <3> HIDE DEF r2
      <3>6. r3 \in Row
        BY <3>2, <3>5, RowUpdate
      <3> QED BY <3>3, <3>6
    <2> QED BY <2>1, <2>2
  <1>2. \A n \in 0..Spacing : Smaller(n + 1, Spacing) \in 0..Spacing
    BY TimesAssumption DEF Smaller
  <1>3. \A n \in 0..IdleCap : Smaller(n + 1, IdleCap) \in 0..IdleCap
    BY TimesAssumption DEF Smaller
  <1>4. \A n \in 0..ValueRefresh : Smaller(n + 1, ValueRefresh) \in 0..ValueRefresh
    BY TimesAssumption DEF Smaller
  <1>5. sinceLease' \in [Source -> 0..Spacing]
    BY <1>2 DEF Tick, TypeOK
  <1>6. sinceOk' \in 0..IdleCap /\ valueAge' \in 0..ValueRefresh
    BY <1>3, <1>4 DEF Tick, TypeOK
  <1> QED BY <1>1, <1>5, <1>6 DEF Tick, TypeOK

LEMMA LeaseType ==
  ASSUME TypeOK, NEW w \in Worker, Lease(w)
  PROVE  TypeOK'
  <1> DEFINE prepared(C) == WithCards(Seeded(queue), C)
  <1>1. PICK C \in CardChoices(Seeded(queue)) :
          \E valued \in IF Valuations = {} THEN {prepared(C)}
                        ELSE {Valued(prepared(C), tier) : tier \in Valuations} :
          \E K \in Picks(valued, w) :
            /\ queue' = Spread(Leased(valued, K, w), Sources(K))
            /\ jobs' = Unbind(jobs, {t \in Task : Present(queue[t]) /\ ~Present(prepared(C)[t])})
                       \cup [w : {w}, t : K, step : {"fetch"}, bound : {TRUE}]
            /\ sinceLease' = [s \in Source |-> IF s \in Sources(K) THEN 0 ELSE sinceLease[s]]
            /\ fresh' \subseteq Task
    BY DEF Lease
  <1>2. prepared(C) \in Table
    BY SeededType, WithCardsType DEF TypeOK, Table
  <1> HIDE DEF prepared
  <1>3. PICK valued \in Table :
          \E K \in Picks(valued, w) :
            /\ queue' = Spread(Leased(valued, K, w), Sources(K))
            /\ jobs' = Unbind(jobs, {t \in Task : Present(queue[t]) /\ ~Present(prepared(C)[t])})
                       \cup [w : {w}, t : K, step : {"fetch"}, bound : {TRUE}]
            /\ sinceLease' = [s \in Source |-> IF s \in Sources(K) THEN 0 ELSE sinceLease[s]]
            /\ fresh' \subseteq Task
    BY <1>1, <1>2, ValuedType DEF Valuations
  <1>4. PICK K \in Picks(valued, w) :
            /\ queue' = Spread(Leased(valued, K, w), Sources(K))
            /\ jobs' = Unbind(jobs, {t \in Task : Present(queue[t]) /\ ~Present(prepared(C)[t])})
                       \cup [w : {w}, t : K, step : {"fetch"}, bound : {TRUE}]
            /\ sinceLease' = [s \in Source |-> IF s \in Sources(K) THEN 0 ELSE sinceLease[s]]
            /\ fresh' \subseteq Task
    BY <1>3
  <1>5. K \subseteq Task
    BY DEF Picks, Firsts, Ripe
  <1>6. queue' \in [Task -> Row]
    BY <1>4, LeasedType, SpreadType DEF Table
  <1>7. jobs' \subseteq Job
    <2>1. [w : {w}, t : K, step : {"fetch"}, bound : {TRUE}] \subseteq Job
      BY <1>5 DEF Job
    <2> QED BY <1>4, <2>1, UnbindType DEF TypeOK
  <1>8. sinceLease' \in [Source -> 0..Spacing]
    BY <1>4, TimesAssumption DEF TypeOK
  <1>9. valueAge' \in 0..ValueRefresh
    BY TimesAssumption DEF Lease, TypeOK
  <1> QED BY <1>4, <1>6, <1>7, <1>8, <1>9 DEF Lease, TypeOK

\* What a completed request leaves behind is well typed.
LEMMA IngestType ==
  ASSUME TypeOK, RowsConsistent(queue),
         NEW t \in Task, NEW r \in Results(t), NEW hit \in BOOLEAN, NEW J \in SUBSET Job,
         Close(r.q, t, hit, r.ok, J), specs' = SpecsAfter(t, r.ok),
         UNCHANGED <<wanted, valueAge, sinceLease>>
  PROVE  TypeOK'
  <1>1. r.q \in Table /\ r.ok \in BOOLEAN
    BY ResultsType DEF TypeOK, Table
  <1>2. /\ queue' \in Table /\ jobs' \subseteq Job
        /\ fresh' \subseteq Task /\ sinceOk' \in 0..IdleCap
    BY <1>1, CloseType
  <1>3. SpecsAfter(t, r.ok) \subseteq Card
    BY DEF SpecsAfter, TypeOK, RowsConsistent
  <1> QED BY <1>2, <1>3 DEF TypeOK, Table

-----------------------------------------------------------------------------
\* Every operator on the table keeps rows consistent.

LEMMA SeededConsistent ==
  ASSUME NEW q \in Table, RowsConsistent(q), wanted \in Configs
  PROVE  RowsConsistent(Seeded(q))
  <1> SUFFICES ASSUME NEW t \in Task
               PROVE  /\ Seeded(q)[t].kind = "card" => t \in Card
                      /\ Seeded(q)[t].prio \in {10, 100} => t \in Configurable
                      /\ Present(Seeded(q)[t]) => Seeded(q)[t].repeat \in {PageRepeat, DeepRepeat}
                      /\ ~Present(Seeded(q)[t]) => Seeded(q)[t] = NoRow
    BY DEF RowsConsistent
  <1>0. q[t] \in Row
    BY DEF Table
  <1>1. CASE t \in wanted /\ Present(q[t])
    <2>1. Seeded(q)[t] = [q[t] EXCEPT !.repeat = RepeatFor(t), !.prio = PrioFor(t)]
      BY <1>1 DEF Seeded
    <2>2. t \in Configurable
      BY <1>1, SetsAssumption
    <2>3. RepeatFor(t) \in {PageRepeat, DeepRepeat}
      BY DEF RepeatFor
    <2>4. Seeded(q)[t].kind = q[t].kind /\ Seeded(q)[t].repeat = RepeatFor(t)
      BY <1>0, <2>1 DEF Row
    <2> QED BY <1>1, <2>2, <2>3, <2>4 DEF RowsConsistent, Present
  <1>2. CASE t \in wanted /\ ~Present(q[t])
    BY <1>2, SetsAssumption DEF Seeded, RepeatFor, KindFor, NewRow, Present
  <1>3. CASE t \notin wanted
    BY <1>3, NoRowType DEF Seeded, RowsConsistent, NoRow, NewRow
  <1> QED BY <1>1, <1>2, <1>3

LEMMA WithCardsConsistent ==
  ASSUME NEW q \in Table, RowsConsistent(q), NEW C \in SUBSET Card
  PROVE  RowsConsistent(WithCards(q, C))
  BY DEF RowsConsistent, WithCards, NewRow, Present

LEMMA ValuedConsistent ==
  ASSUME NEW q \in Table, RowsConsistent(q), NEW tier \in [Task -> Tiers]
  PROVE  RowsConsistent(Valued(q, tier))
  <1> SUFFICES ASSUME NEW t \in Task
               PROVE  /\ Valued(q, tier)[t].kind = q[t].kind
                      /\ Valued(q, tier)[t].prio = q[t].prio
                      /\ Valued(q, tier)[t].repeat = q[t].repeat
                      /\ ~Present(q[t]) => Valued(q, tier)[t] = q[t]
    BY DEF RowsConsistent, Present
  <1>1. q[t] \in Row
    BY DEF Table
  <1> QED BY <1>1 DEF Valued, Row, Present

LEMMA LeasedConsistent ==
  ASSUME NEW q \in Table, RowsConsistent(q), NEW w \in Worker,
         NEW K \in SUBSET {t \in Task : Present(q[t])}
  PROVE  RowsConsistent(Leased(q, K, w))
  <1> SUFFICES ASSUME NEW t \in Task
               PROVE  /\ Leased(q, K, w)[t].kind = q[t].kind
                      /\ Leased(q, K, w)[t].prio = q[t].prio
                      /\ Leased(q, K, w)[t].repeat = q[t].repeat
                      /\ ~Present(q[t]) => Leased(q, K, w)[t] = q[t]
    BY DEF RowsConsistent, Present
  <1>1. q[t] \in Row
    BY DEF Table
  <1> QED BY <1>1 DEF Leased, Row, Present

LEMMA SpreadConsistent ==
  ASSUME NEW q \in Table, RowsConsistent(q), NEW S
  PROVE  RowsConsistent(Spread(q, S))
  <1> SUFFICES ASSUME NEW t \in Task
               PROVE  /\ Spread(q, S)[t].kind = q[t].kind
                      /\ Spread(q, S)[t].prio = q[t].prio
                      /\ Spread(q, S)[t].repeat = q[t].repeat
                      /\ ~Present(q[t]) => Spread(q, S)[t] = q[t]
    BY DEF RowsConsistent, Present
  <1>1. q[t] \in Row
    BY DEF Table
  <1> QED BY <1>1 DEF Spread, Row, Present

LEMMA EnqueuedConsistent ==
  ASSUME NEW q \in Table, RowsConsistent(q), NEW U, NEW repeat \in {PageRepeat, DeepRepeat}
  PROVE  RowsConsistent(Enqueued(q, U, repeat))
  <1> SUFFICES ASSUME NEW t \in Task
               PROVE  /\ Enqueued(q, U, repeat)[t].kind = "card" => t \in Card
                      /\ Enqueued(q, U, repeat)[t].prio \in {10, 100} => t \in Configurable
                      /\ Present(Enqueued(q, U, repeat)[t])
                           => Enqueued(q, U, repeat)[t].repeat \in {PageRepeat, DeepRepeat}
                      /\ ~Present(Enqueued(q, U, repeat)[t]) => Enqueued(q, U, repeat)[t] = NoRow
    BY DEF RowsConsistent
  <1>0. q[t] \in Row
    BY DEF Table
  <1>1. CASE t \in U /\ Present(q[t])
    <2>1. Enqueued(q, U, repeat)[t] = [q[t] EXCEPT !.repeat = repeat]
      BY <1>1 DEF Enqueued
    <2> QED BY <1>0, <1>1, <2>1 DEF Row, RowsConsistent, Present
  <1>2. CASE t \in U /\ ~Present(q[t])
    BY <1>2 DEF Enqueued, NewRow, Present
  <1>3. CASE t \notin U
    BY <1>3 DEF Enqueued, RowsConsistent
  <1> QED BY <1>1, <1>2, <1>3

LEMMA CloseRowConsistent ==
  ASSUME NEW r \in Row, NEW ok \in BOOLEAN
  PROVE  \/ CloseRow(r, ok) = NoRow
         \/ /\ CloseRow(r, ok).kind = r.kind
            /\ CloseRow(r, ok).prio = r.prio
            /\ CloseRow(r, ok).repeat = r.repeat
  BY DEF CloseRow, Row

-----------------------------------------------------------------------------
\* What a lease request does to one row; K is what it gives out.

LeaseRow(t, K) ==
  LET r == queue[t]
      s == queue'[t]
  IN  /\ t \in K => Present(s)
      /\ Present(s) /\ Present(r) =>
           /\ s.status = r.status /\ s.fails = r.fails /\ s.idle = r.idle
           /\ s.due = IF SourceOf[t] \in Sources(K) THEN Larger(r.due, Spacing) ELSE r.due
           /\ t \in K => r.due <= 0 /\ r.lease < 0 /\ s.lease = LeaseTTL
           /\ t \notin K => s.lease = r.lease /\ s.holder = r.holder
      /\ Present(s) /\ ~Present(r) =>
           /\ s.status = "new" /\ s.lease = IF t \in K THEN LeaseTTL ELSE -1
           /\ SourceOf[t] \in Sources(K) => s.due >= Spacing

LeaseStep(K) ==
  /\ K \subseteq Task
  /\ \A t, u \in K : SourceOf[t] = SourceOf[u] => t = u
  /\ \E C \in CardChoices(Seeded(queue)) : \A t \in Task :
       Present(queue'[t]) <=> Present(WithCards(Seeded(queue), C)[t])
  /\ RowsConsistent(queue')
  /\ \A t \in Task : LeaseRow(t, K)
  /\ sinceLease' = [s \in Source |-> IF s \in Sources(K) THEN 0 ELSE sinceLease[s]]
  /\ fresh' = {t \in Task : /\ Present(queue'[t]) /\ SourceOf[t] \notin Sources(K)
                            /\ t \in fresh \/ ~Present(queue[t])}
  /\ sinceOk' = sinceOk

\* The schedule of a row is all that the properties look at.
SameSchedule(r, s) ==
  /\ s.due = r.due /\ s.lease = r.lease /\ s.holder = r.holder
  /\ s.status = r.status /\ s.fails = r.fails /\ s.idle = r.idle

\* Preparation keeps a row's schedule, unless it deletes or adds the row.
Prepared(r, s) ==
  Present(s) => IF Present(r) THEN SameSchedule(r, s)
                ELSE s.status = "new" /\ s.lease = -1 /\ s.due = 0

LEMMA SeededPrepared ==
  ASSUME NEW q \in Table, NEW t \in Task
  PROVE  Prepared(q[t], Seeded(q)[t])
  <1>0. q[t] \in Row
    BY DEF Table
  <1>1. CASE t \in wanted /\ Present(q[t])
    BY <1>0, <1>1 DEF Seeded, Prepared, SameSchedule, Row
  <1>2. CASE t \in wanted /\ ~Present(q[t])
    BY <1>2 DEF Seeded, Prepared, NewRow
  <1>3. CASE t \notin wanted
    BY <1>3, NoRowType DEF Seeded, Prepared, SameSchedule
  <1> QED BY <1>1, <1>2, <1>3

\* A card is never a page of the configuration, hence no row that seeding has
\* just deleted comes back as a card.
LEMMA CardsPrepared ==
  ASSUME NEW q \in Table, RowsConsistent(q), NEW C \in SUBSET Card, NEW t \in Task
  PROVE  Prepared(q[t], WithCards(Seeded(q), C)[t])
  <1>1. CASE t \in C /\ ~Present(Seeded(q)[t])
    <2>1. ~Present(q[t])
      BY <1>1, SetsAssumption DEF Seeded, RowsConsistent, Present
    <2> QED BY <1>1, <2>1 DEF WithCards, NewRow, Prepared
  <1>2. CASE ~(t \in C /\ ~Present(Seeded(q)[t]))
    BY <1>2, SeededPrepared DEF WithCards
  <1> QED BY <1>1, <1>2

LEMMA ValuedSchedule ==
  ASSUME NEW q \in Table, NEW tier \in [Task -> Tiers], NEW t \in Task
  PROVE  SameSchedule(q[t], Valued(q, tier)[t]) /\ Valued(q, tier)[t].kind = q[t].kind
  <1>1. q[t] \in Row
    BY DEF Table
  <1> QED BY <1>1 DEF Valued, SameSchedule, Row

\* Leasing and putting off, row by row.
LEMMA GivenOutRow ==
  ASSUME NEW q \in Table, NEW K \in SUBSET Task, NEW w \in Worker, NEW t \in Task,
         Present(q[t]), \A u \in K : Present(q[u])
  PROVE  LET s == Spread(Leased(q, K, w), Sources(K))[t]
         IN  /\ Present(s)
             /\ s.status = q[t].status /\ s.fails = q[t].fails /\ s.idle = q[t].idle
             /\ s.due = IF SourceOf[t] \in Sources(K) THEN Larger(q[t].due, Spacing) ELSE q[t].due
             /\ s.lease = IF t \in K THEN LeaseTTL ELSE q[t].lease
             /\ t \notin K => s.holder = q[t].holder
  <1> DEFINE r == Leased(q, K, w)[t]
             s == Spread(Leased(q, K, w), Sources(K))[t]
  <1>1. q[t] \in Row /\ r \in Row
    BY LeasedType DEF Table
  <1>2. /\ r.kind = q[t].kind /\ r.due = q[t].due
        /\ r.status = q[t].status /\ r.fails = q[t].fails /\ r.idle = q[t].idle
        /\ r.lease = IF t \in K THEN LeaseTTL ELSE q[t].lease
        /\ t \notin K => r.holder = q[t].holder
    BY <1>1 DEF Leased, Row
  <1>3. s = IF SourceOf[t] \in Sources(K) THEN [r EXCEPT !.due = Larger(r.due, Spacing)] ELSE r
    BY <1>2 DEF Spread, Present
  <1> HIDE DEF r
  <1>4. /\ s.kind = r.kind /\ s.status = r.status /\ s.fails = r.fails /\ s.idle = r.idle
        /\ s.lease = r.lease /\ s.holder = r.holder
        /\ s.due = IF SourceOf[t] \in Sources(K) THEN Larger(r.due, Spacing) ELSE r.due
    BY <1>1, <1>3 DEF Row
  <1> QED BY <1>2, <1>4 DEF Present

LEMMA LeaseShape ==
  ASSUME TypeOK, RowsConsistent(queue), NEW w \in Worker, Lease(w)
  PROVE  \E K : LeaseStep(K)
  <1> DEFINE cards(C) == WithCards(Seeded(queue), C)
             Step(valued, K, seeded) ==
               /\ queue' = Spread(Leased(valued, K, w), Sources(K))
               /\ sinceLease' = [s \in Source |-> IF s \in Sources(K) THEN 0 ELSE sinceLease[s]]
               /\ fresh' = {t \in Task : /\ Present(seeded[t]) /\ SourceOf[t] \notin Sources(K)
                                         /\ t \in fresh \/ ~Present(queue[t])}
  <1>1. PICK C \in CardChoices(Seeded(queue)) :
          \E valued \in IF Valuations = {} THEN {cards(C)}
                        ELSE {Valued(cards(C), tier) : tier \in Valuations} :
          \E K \in Picks(valued, w) : Step(valued, K, cards(C))
    BY DEF Lease
  <1>2. C \in SUBSET Card
    BY DEF CardChoices, CardCandidates
  <1>3. /\ cards(C) \in Table /\ RowsConsistent(cards(C))
        /\ \A t \in Task : Prepared(queue[t], cards(C)[t])
    <2>1. queue \in Table /\ Seeded(queue) \in Table /\ RowsConsistent(Seeded(queue))
      BY SeededType, SeededConsistent DEF TypeOK, Table
    <2> QED BY <1>2, <2>1, WithCardsType, WithCardsConsistent, CardsPrepared
  <1> HIDE DEF cards
  <1> DEFINE Good(valued) ==
        /\ valued \in Table /\ RowsConsistent(valued)
        /\ \A t \in Task : /\ Prepared(queue[t], valued[t])
                           /\ Present(valued[t]) <=> Present(cards(C)[t])
  <1>4. \A valued \in IF Valuations = {} THEN {cards(C)}
                      ELSE {Valued(cards(C), tier) : tier \in Valuations} : Good(valued)
    <2>1. Good(cards(C))
      BY <1>3
    <2>2. ASSUME NEW tier \in [Task -> Tiers] PROVE Good(Valued(cards(C), tier))
      <3>1. Valued(cards(C), tier) \in Table /\ RowsConsistent(Valued(cards(C), tier))
        BY <1>3, ValuedType, ValuedConsistent
      <3>2. ASSUME NEW t \in Task
            PROVE  /\ Prepared(queue[t], Valued(cards(C), tier)[t])
                   /\ Present(Valued(cards(C), tier)[t]) <=> Present(cards(C)[t])
        BY <1>3, ValuedSchedule DEF Prepared, SameSchedule, Present
      <3> QED BY <3>1, <3>2
    <2> QED BY <2>1, <2>2 DEF Valuations
  <1>5. PICK valued : Good(valued) /\ \E K \in Picks(valued, w) : Step(valued, K, cards(C))
    BY <1>1, <1>4
  <1>6. PICK K \in Picks(valued, w) : Step(valued, K, cards(C))
    BY <1>5
  <1>7. /\ K \in SUBSET Task
        /\ \A t, u \in K : SourceOf[t] = SourceOf[u] => t = u
        /\ \A t \in K : Present(valued[t]) /\ valued[t].due <= 0 /\ valued[t].lease < 0
    BY DEF Picks, Firsts, Ripe
  <1>8. RowsConsistent(queue')
    BY <1>5, <1>6, <1>7, LeasedType, LeasedConsistent, SpreadConsistent
  <1>9. ASSUME NEW t \in Task
        PROVE  LeaseRow(t, K) /\ (Present(queue'[t]) <=> Present(cards(C)[t]))
    <2>1. CASE Present(valued[t])
      <3> DEFINE v == valued[t]
                 s == queue'[t]
      <3>1. /\ Present(s)
            /\ s.status = v.status /\ s.fails = v.fails /\ s.idle = v.idle
            /\ s.due = IF SourceOf[t] \in Sources(K) THEN Larger(v.due, Spacing) ELSE v.due
            /\ s.lease = IF t \in K THEN LeaseTTL ELSE v.lease
            /\ t \notin K => s.holder = v.holder
        BY <1>5, <1>6, <1>7, <2>1, GivenOutRow
      <3>2. Prepared(queue[t], v) /\ Present(cards(C)[t])
        BY <1>5, <2>1
      <3>3. t \in K => v.due <= 0 /\ v.lease < 0
        BY <1>7
      <3>4. Larger(0, Spacing) >= Spacing
        BY TimesAssumption DEF Larger
      <3> HIDE DEF v, s
      <3>5. LeaseRow(t, K)
        <4>1. CASE Present(queue[t])
          BY <2>1, <3>1, <3>2, <3>3, <4>1 DEF LeaseRow, Prepared, SameSchedule, v, s
        <4>2. CASE ~Present(queue[t])
          BY <2>1, <3>1, <3>2, <3>4, <4>2 DEF LeaseRow, Prepared, v, s
        <4> QED BY <4>1, <4>2
      <3> QED BY <3>1, <3>2, <3>5 DEF s
    <2>2. CASE ~Present(valued[t])
      <3>1. t \notin K /\ queue'[t] = valued[t]
        BY <1>6, <1>7, <2>2 DEF Spread, Leased
      <3> QED BY <1>5, <2>2, <3>1 DEF LeaseRow
    <2> QED BY <2>1, <2>2
  <1>10. \E D \in CardChoices(Seeded(queue)) : \A t \in Task :
           Present(queue'[t]) <=> Present(WithCards(Seeded(queue), D)[t])
    BY <1>9 DEF cards
  <1> QED BY <1>6, <1>7, <1>8, <1>9, <1>10 DEF LeaseStep, Lease

-----------------------------------------------------------------------------
\* What a request about task t does to one row u.

RequestRow(t, u, hit, ok) ==
  LET r == queue[u]
      s == queue'[u]
  IN  Present(s) =>
        IF u = t /\ hit
          THEN /\ s.status = (IF ok THEN "ok" ELSE "fail") /\ s.idle = 0 /\ s.lease = -1
               /\ s.due >= Penalty(s) /\ s.due >= Spacing
          ELSE IF Present(r) THEN SameSchedule(r, s)
          ELSE s.status = "new" /\ s.lease = -1 /\ s.due = Spacing

RequestStep(t, hit, ok) ==
  /\ RowsConsistent(queue')
  /\ \A u \in Task : RequestRow(t, u, hit, ok)
  /\ fresh' = IF hit THEN fresh \ {t} ELSE fresh
  /\ sinceOk' = IF hit /\ ok THEN 0 ELSE sinceOk
  /\ sinceLease' = sinceLease

LEMMA ProductMonotone ==
  ASSUME NEW a \in Nat, NEW b \in Nat, NEW c \in Nat, a <= b
  PROVE  a * c <= b * c
  <1>1. PICK d \in Nat : b = a + d
    <2>1. b - a \in Nat /\ b = a + (b - a)
      OBVIOUS
    <2> QED BY <2>1
  <1>2. b * c = a * c + d * c
    BY <1>1
  <1>3. d * c \in Nat /\ a * c \in Nat /\ b * c \in Nat
    BY <1>1
  <1> QED BY <1>2, <1>3

LEMMA CloseRowSchedule ==
  ASSUME NEW r \in Row, r.repeat \in {PageRepeat, DeepRepeat}, NEW ok \in BOOLEAN,
         Present(CloseRow(r, ok))
  PROVE  LET s == CloseRow(r, ok)
         IN  /\ s.status = (IF ok THEN "ok" ELSE "fail") /\ s.idle = 0 /\ s.lease = -1
             /\ s.due >= Penalty(s) /\ s.due >= Spacing
  <1> DEFINE s == CloseRow(r, ok)
             factor == IF ok THEN 1 ELSE Smaller(r.fails + 1, MaxFactor)
  <1>1. s = [r EXCEPT !.holder = NoOne, !.lease = -1, !.idle = 0,
                      !.status = IF ok THEN "ok" ELSE "fail",
                      !.fails = IF ok THEN 0 ELSE factor,
                      !.due = r.repeat * factor]
    BY NoRowType DEF CloseRow
  <1>2. factor \in Nat /\ factor >= 1
    BY TimesAssumption DEF Row, Smaller
  <1> HIDE DEF s, factor
  <1>3. /\ s.status = (IF ok THEN "ok" ELSE "fail") /\ s.idle = 0 /\ s.lease = -1
        /\ s.fails = (IF ok THEN 0 ELSE factor) /\ s.due = r.repeat * factor
    BY <1>1 DEF Row
  <1>4. Penalty(s) = PageRepeat * factor
    <2>1. Larger(1, s.fails) = factor
      BY <1>2, <1>3 DEF Larger, factor
    <2> QED BY <2>1 DEF Penalty
  <1>5. r.repeat \in Nat /\ PageRepeat \in Nat /\ PageRepeat <= r.repeat /\ Spacing <= PageRepeat
        /\ Spacing \in Nat
    BY TimesAssumption, PolicyAssumption
  <1>6. PageRepeat * factor <= r.repeat * factor
    BY <1>2, <1>5, ProductMonotone
  <1>7. 1 * PageRepeat <= factor * PageRepeat
    BY <1>2, <1>5, ProductMonotone
  <1>8. factor * PageRepeat = PageRepeat * factor /\ PageRepeat * factor \in Nat
        /\ r.repeat * factor \in Nat
    BY <1>2, <1>5
  <1> QED BY <1>3, <1>4, <1>5, <1>6, <1>7, <1>8 DEF s

LEMMA EnqueuedRow ==
  ASSUME NEW q \in Table, NEW U, NEW repeat \in {PageRepeat, DeepRepeat}, NEW t \in Task
  PROVE  LET s == Enqueued(q, U, repeat)[t]
         IN  Present(s) => IF Present(q[t]) THEN SameSchedule(q[t], s)
                           ELSE s.status = "new" /\ s.lease = -1 /\ s.due = Spacing
  <1>1. q[t] \in Row
    BY DEF Table
  <1> QED BY <1>1 DEF Enqueued, NewRow, SameSchedule, Row

LEMMA ResultsShape ==
  ASSUME TypeOK, RowsConsistent(queue), NEW t \in Task, NEW r \in Results(t)
  PROVE  /\ r.q \in Table /\ RowsConsistent(r.q) /\ r.ok \in BOOLEAN
         /\ \A u \in Task : Present(r.q[u]) =>
              IF Present(queue[u]) THEN SameSchedule(queue[u], r.q[u])
              ELSE r.q[u].status = "new" /\ r.q[u].lease = -1 /\ r.q[u].due = Spacing
  <1>0. queue \in Table
    BY DEF TypeOK, Table
  <1>1. CASE IsDiscovery(t)
    <2> DEFINE repeat == IF t \in Sitemap THEN DeepRepeat ELSE PageRepeat
    <2>1. PICK U \in Found(t) : r = [q |-> Enqueued(queue, U, repeat), ok |-> TRUE]
      BY <1>1 DEF Results
    <2>2. repeat \in {PageRepeat, DeepRepeat}
      OBVIOUS
    <2> HIDE DEF repeat
    <2> QED BY <1>0, <2>1, <2>2, EnqueuedType, EnqueuedConsistent, EnqueuedRow
  <1>2. CASE ~IsDiscovery(t)
    BY <1>0, <1>2 DEF Results, SameSchedule
  <1> QED BY <1>1, <1>2

LEMMA RequestShape ==
  ASSUME TypeOK, RowsConsistent(queue), NEW t \in Task, NEW q \in Table, RowsConsistent(q),
         \A u \in Task : Present(q[u]) =>
              IF Present(queue[u]) THEN SameSchedule(queue[u], q[u])
              ELSE q[u].status = "new" /\ q[u].lease = -1 /\ q[u].due = Spacing,
         NEW hit \in BOOLEAN, hit => Present(q[t]), NEW ok \in BOOLEAN, NEW J,
         Close(q, t, hit, ok, J), UNCHANGED sinceLease
  PROVE  RequestStep(t, hit, ok)
  <1>1. \A u \in Task : queue'[u] = IF u = t /\ hit THEN CloseRow(q[u], ok) ELSE q[u]
    BY DEF Close, Table
  <1>2. q[t] \in Row /\ (hit => q[t].repeat \in {PageRepeat, DeepRepeat})
    BY DEF Table, RowsConsistent
  <1>3. RowsConsistent(queue')
    <2>1. hit => \/ CloseRow(q[t], ok) = NoRow
                 \/ /\ CloseRow(q[t], ok).kind = q[t].kind
                    /\ CloseRow(q[t], ok).prio = q[t].prio
                    /\ CloseRow(q[t], ok).repeat = q[t].repeat
      BY <1>2, CloseRowConsistent
    <2>2. RowsConsistent([u \in Task |-> NoRow])
      BY DEF RowsConsistent, NoRow, NewRow, Present
    <2> QED BY <1>1, <2>1, <2>2 DEF RowsConsistent, Present
  <1>4. ASSUME NEW u \in Task PROVE RequestRow(t, u, hit, ok)
    <2>1. CASE u = t /\ hit
      BY <1>1, <1>2, <2>1, CloseRowSchedule DEF RequestRow
    <2>2. CASE ~(u = t /\ hit)
      BY <1>1, <2>2 DEF RequestRow
    <2> QED BY <2>1, <2>2
  <1> QED BY <1>3, <1>4 DEF RequestStep, Close

-----------------------------------------------------------------------------
\* Only the clock, a lease request or a request about one task touches the
\* schedule.

LEMMA MatchesPresent ==
  ASSUME NEW q \in Table, RowsConsistent(q), NEW j \in Job
  PROVE  /\ MatchesTask(q, j) => Present(q[j.t])
         /\ MatchesTask(q, j) \in BOOLEAN
  <1>1. LabelOf[j.w] \in Label /\ j.t \in Task /\ j.bound \in BOOLEAN
    BY SetsAssumption DEF Job
  <1>2. NoRow.holder = NoOne
    BY DEF NoRow, NewRow
  <1> QED BY <1>1, <1>2, SetsAssumption DEF MatchesTask, RowsConsistent

LEMMA IngestStep ==
  ASSUME TypeOK, RowsConsistent(queue), NEW j \in jobs, Ingest(j)
  PROVE  TypeOK' /\ \E hit, ok \in BOOLEAN : RequestStep(j.t, hit, ok)
  <1>1. j \in Job /\ j.t \in Task
    BY DEF TypeOK, Job
  <1>2. PICK r \in Results(j.t), heard \in BOOLEAN :
          /\ Close(r.q, j.t, MatchesTask(r.q, j), r.ok,
                   (jobs \ {j}) \cup IF heard \/ j.w \notin Phone THEN {}
                                     ELSE {[j EXCEPT !.step = "fail"]})
          /\ specs' = SpecsAfter(j.t, r.ok)
    BY DEF Ingest
  <1> DEFINE J == (jobs \ {j}) \cup IF heard \/ j.w \notin Phone THEN {}
                                   ELSE {[j EXCEPT !.step = "fail"]}
  <1>3. J \in SUBSET Job
    BY <1>1 DEF TypeOK, Job
  <1>4. Close(r.q, j.t, MatchesTask(r.q, j), r.ok, J)
    BY <1>2
  <1>5. UNCHANGED <<wanted, valueAge, sinceLease>>
    BY DEF Ingest
  <1> HIDE DEF J
  <1>6. /\ r.q \in Table /\ RowsConsistent(r.q) /\ r.ok \in BOOLEAN
        /\ \A u \in Task : Present(r.q[u]) =>
             IF Present(queue[u]) THEN SameSchedule(queue[u], r.q[u])
             ELSE r.q[u].status = "new" /\ r.q[u].lease = -1 /\ r.q[u].due = Spacing
    BY <1>1, ResultsShape
  <1>7. MatchesTask(r.q, j) \in BOOLEAN /\ (MatchesTask(r.q, j) => Present(r.q[j.t]))
    BY <1>1, <1>6, MatchesPresent
  <1>8. TypeOK'
    BY <1>1, <1>2, <1>3, <1>4, <1>5, <1>7, IngestType
  <1>9. RequestStep(j.t, MatchesTask(r.q, j), r.ok)
    BY <1>1, <1>4, <1>5, <1>6, <1>7, RequestShape
  <1> QED BY <1>6, <1>7, <1>8, <1>9

LEMMA IngestByUrlStep ==
  ASSUME TypeOK, RowsConsistent(queue), NEW t \in Task, IngestByUrl(t)
  PROVE  TypeOK' /\ \E hit, ok \in BOOLEAN : RequestStep(t, hit, ok)
  <1>1. PICK r \in Results(t) :
          /\ Close(r.q, t, MatchesUrl(r.q, t), r.ok, jobs)
          /\ specs' = SpecsAfter(t, r.ok)
    BY DEF IngestByUrl
  <1>2. UNCHANGED <<wanted, valueAge, sinceLease>> /\ jobs \in SUBSET Job
    BY DEF IngestByUrl, TypeOK
  <1>3. /\ r.q \in Table /\ RowsConsistent(r.q) /\ r.ok \in BOOLEAN
        /\ \A u \in Task : Present(r.q[u]) =>
             IF Present(queue[u]) THEN SameSchedule(queue[u], r.q[u])
             ELSE r.q[u].status = "new" /\ r.q[u].lease = -1 /\ r.q[u].due = Spacing
    BY ResultsShape
  <1>4. MatchesUrl(r.q, t) \in BOOLEAN /\ (MatchesUrl(r.q, t) => Present(r.q[t]))
    BY DEF MatchesUrl, Present
  <1>5. TypeOK'
    BY <1>1, <1>2, <1>4, IngestType
  <1>6. RequestStep(t, MatchesUrl(r.q, t), r.ok)
    BY <1>1, <1>2, <1>3, <1>4, RequestShape
  <1> QED BY <1>3, <1>4, <1>5, <1>6

LEMMA FailStep ==
  ASSUME TypeOK, RowsConsistent(queue), NEW j \in jobs, Fail(j)
  PROVE  TypeOK' /\ \E hit, ok \in BOOLEAN : RequestStep(j.t, hit, ok)
  <1>1. j \in Job /\ j.t \in Task /\ queue \in Table /\ jobs \ {j} \in SUBSET Job
    BY DEF TypeOK, Job, Table
  <1>2. Close(queue, j.t, MatchesTask(queue, j), FALSE, jobs \ {j})
    BY DEF Fail
  <1>3. MatchesTask(queue, j) \in BOOLEAN /\ (MatchesTask(queue, j) => Present(queue[j.t]))
    BY <1>1, MatchesPresent
  <1>4. UNCHANGED <<wanted, specs, valueAge, sinceLease>>
    BY DEF Fail
  <1>5. /\ queue' \in Table /\ jobs' \subseteq Job
        /\ fresh' \subseteq Task /\ sinceOk' \in 0..IdleCap
    BY <1>1, <1>2, <1>3, CloseType
  <1>6. TypeOK'
    BY <1>4, <1>5 DEF TypeOK, Table
  <1>7. \A u \in Task : SameSchedule(queue[u], queue[u])
    BY DEF SameSchedule
  <1>8. RequestStep(j.t, MatchesTask(queue, j), FALSE)
    BY <1>1, <1>2, <1>3, <1>4, <1>7, RequestShape
  <1> QED BY <1>3, <1>6, <1>8

LEMMA StepShape ==
  ASSUME TypeOK, RowsConsistent(queue), [Next]_vars
  PROVE  /\ TypeOK'
         /\ \/ Tick
            \/ \E K : LeaseStep(K)
            \/ \E t \in Task : \E hit, ok \in BOOLEAN : RequestStep(t, hit, ok)
            \/ UNCHANGED <<queue, sinceLease, fresh, sinceOk>>
  <1>1. CASE Tick
    BY <1>1, TickType
  <1>2. CASE Release
    BY <1>2 DEF Release, TypeOK
  <1>3. ASSUME NEW w \in Worker, Lease(w) PROVE TypeOK' /\ \E K : LeaseStep(K)
    BY <1>3, LeaseType, LeaseShape
  <1>4. ASSUME NEW j \in jobs, Fetched(j)
        PROVE  TypeOK' /\ UNCHANGED <<queue, sinceLease, fresh, sinceOk>>
    BY <1>4 DEF Fetched, TypeOK, Job
  <1>5. ASSUME NEW j \in jobs, Ingest(j)
        PROVE  TypeOK' /\ \E t \in Task : \E hit, ok \in BOOLEAN : RequestStep(t, hit, ok)
    <2>1. j.t \in Task
      BY DEF TypeOK, Job
    <2> QED BY <1>5, <2>1, IngestStep
  <1>6. ASSUME NEW j \in jobs, IngestRejected(j)
        PROVE  TypeOK' /\ UNCHANGED <<queue, sinceLease, fresh, sinceOk>>
    BY <1>6 DEF IngestRejected, TypeOK, Job
  <1>7. ASSUME NEW j \in jobs, TimedOut(j)
        PROVE  TypeOK' /\ UNCHANGED <<queue, sinceLease, fresh, sinceOk>>
    BY <1>7 DEF TimedOut, TypeOK, Job
  <1>8. ASSUME NEW j \in jobs, Fail(j)
        PROVE  TypeOK' /\ \E t \in Task : \E hit, ok \in BOOLEAN : RequestStep(t, hit, ok)
    <2>1. j.t \in Task
      BY DEF TypeOK, Job
    <2> QED BY <1>8, <2>1, FailStep
  <1>9. ASSUME NEW j \in jobs, Drop(j)
        PROVE  TypeOK' /\ UNCHANGED <<queue, sinceLease, fresh, sinceOk>>
    BY <1>9 DEF Drop, TypeOK
  <1>10. ASSUME NEW t \in Task, IngestByUrl(t)
         PROVE  TypeOK' /\ \E u \in Task : \E hit, ok \in BOOLEAN : RequestStep(u, hit, ok)
    BY <1>10, IngestByUrlStep
  <1>11. CASE UNCHANGED vars
    BY <1>11 DEF vars, TypeOK
  <1> QED BY <1>1, <1>2, <1>3, <1>4, <1>5, <1>6, <1>7, <1>8, <1>9, <1>10, <1>11 DEF Next

-----------------------------------------------------------------------------
\* The inductive invariant.

LEMMA InitIInv == Init => IInv
  <1> SUFFICES ASSUME Init PROVE IInv
    OBVIOUS
  <1>1. \A t \in Task : queue[t] = NoRow /\ SourceOf[t] \in Source
    BY SetsAssumption DEF Init
  <1>2. NoRow.status = "new" /\ NoRow.lease = -1 /\ NoRow.kind = "none" /\ NoRow.prio = 0
    BY DEF NoRow, NewRow
  <1>3. TypeOK
    BY NoRowType, TimesAssumption DEF Init, TypeOK
  <1>4. RowsConsistent(queue)
    BY <1>1, <1>2 DEF RowsConsistent, Present
  <1>5. ASSUME NEW t \in Task PROVE Paced(t) /\ Timed(t) /\ BackedOff(t) /\ Recorded(t)
    BY <1>1, <1>2 DEF Paced, Timed, BackedOff, Recorded, Present
  <1> QED BY <1>3, <1>4, <1>5 DEF IInv

\* The types of what the invariant compares, and what a pause is at most.
LEMMA Ranges ==
  ASSUME TypeOK, NEW t \in Task
  PROVE  /\ queue[t] \in Row
         /\ queue[t].due \in Int /\ queue[t].lease \in -1..LeaseTTL
         /\ queue[t].idle \in 0..IdleCap /\ queue[t].fails \in 0..MaxFactor
         /\ SourceOf[t] \in Source /\ sinceLease[SourceOf[t]] \in 0..Spacing
         /\ sinceOk \in 0..IdleCap
         /\ Penalty(queue[t]) \in Nat /\ Penalty(queue[t]) <= IdleCap
  <1>1. queue[t] \in Row /\ SourceOf[t] \in Source
    BY SetsAssumption DEF TypeOK
  <1>2. /\ queue[t].due \in Int /\ queue[t].lease \in -1..LeaseTTL
        /\ queue[t].idle \in 0..IdleCap /\ queue[t].fails \in 0..MaxFactor
    BY <1>1 DEF Row
  <1>3. sinceLease[SourceOf[t]] \in 0..Spacing /\ sinceOk \in 0..IdleCap
    BY <1>1 DEF TypeOK
  <1> DEFINE factor == Larger(1, queue[t].fails)
  <1>4. factor \in Nat /\ factor <= MaxFactor /\ MaxFactor \in Nat /\ PageRepeat \in Nat
    BY <1>2, TimesAssumption DEF Larger
  <1> HIDE DEF factor
  <1>5. factor * PageRepeat <= MaxFactor * PageRepeat
    BY <1>4, ProductMonotone
  <1>6. /\ factor * PageRepeat = PageRepeat * factor /\ PageRepeat * factor \in Nat
        /\ MaxFactor * PageRepeat = PageRepeat * MaxFactor /\ PageRepeat * MaxFactor \in Nat
    BY <1>4
  <1>7. Penalty(queue[t]) = PageRepeat * factor
    BY DEF Penalty, factor
  <1> QED BY <1>1, <1>2, <1>3, <1>5, <1>6, <1>7, PolicyAssumption, TimesAssumption

LEMMA TickRow ==
  ASSUME TypeOK, Tick, NEW t \in Task
  PROVE  IF Present(queue[t])
           THEN /\ queue'[t].kind = queue[t].kind /\ queue'[t].prio = queue[t].prio
                /\ queue'[t].repeat = queue[t].repeat
                /\ queue'[t].status = queue[t].status /\ queue'[t].fails = queue[t].fails
                /\ queue'[t].holder = queue[t].holder
                /\ queue'[t].due = Larger(queue[t].due - 1, -AgeCap)
                /\ queue'[t].lease = Larger(queue[t].lease - 1, -1)
                /\ queue'[t].idle = Smaller(queue[t].idle + 1, IdleCap)
           ELSE queue'[t] = queue[t]
  <1>1. queue[t] \in Row
    BY DEF TypeOK
  <1>2. queue'[t] = IF ~Present(queue[t]) THEN queue[t]
                    ELSE [queue[t] EXCEPT !.due = Larger(@ - 1, -AgeCap),
                                          !.lease = Larger(@ - 1, -1),
                                          !.idle = Smaller(@ + 1, IdleCap)]
    BY DEF Tick
  <1> QED BY <1>1, <1>2 DEF Row

LEMMA TickIInv ==
  ASSUME IInv, TypeOK', Tick
  PROVE  IInv'
  <1>1. RowsConsistent(queue')
    BY TickRow DEF IInv, RowsConsistent, Present
  <1>2. ASSUME NEW t \in Task PROVE (Paced(t) /\ Timed(t) /\ BackedOff(t) /\ Recorded(t))'
    <2> DEFINE r == queue[t]
               s == queue'[t]
               gap == sinceLease[SourceOf[t]]
    <2>0. TypeOK /\ RowsConsistent(queue) /\ Paced(t) /\ Timed(t) /\ BackedOff(t) /\ Recorded(t)
      BY DEF IInv
    <2>1. /\ r.due \in Int /\ r.lease \in -1..LeaseTTL /\ r.idle \in 0..IdleCap
          /\ gap \in 0..Spacing /\ sinceOk \in 0..IdleCap
          /\ Penalty(r) \in Nat /\ Penalty(r) <= IdleCap
      BY <2>0, Ranges
    <2>2. /\ sinceLease'[SourceOf[t]] = Smaller(gap + 1, Spacing)
          /\ sinceOk' = Smaller(sinceOk + 1, IdleCap) /\ fresh' = fresh
      BY SetsAssumption DEF Tick
    <2>3. CASE Present(r)
      <3>1. /\ s.kind = r.kind /\ s.status = r.status /\ s.fails = r.fails
            /\ s.due = Larger(r.due - 1, -AgeCap)
            /\ s.lease = Larger(r.lease - 1, -1)
            /\ s.idle = Smaller(r.idle + 1, IdleCap)
        BY <2>0, <2>3, TickRow
      <3>2. Penalty(s) = Penalty(r)
        BY <3>1 DEF Penalty
      <3> HIDE DEF r, s, gap
      <3>3. Paced(t)'
        BY <2>0, <2>1, <2>2, <2>3, <3>1, TimesAssumption
           DEF Paced, Larger, Smaller, Present, r, s, gap
      <3>4. Timed(t)'
        BY <2>0, <2>1, <2>2, <3>1, TimesAssumption, PolicyAssumption
           DEF Timed, Larger, Smaller, r, s, gap
      <3>5. BackedOff(t)'
        BY <2>0, <2>1, <3>1, <3>2, TimesAssumption DEF BackedOff, Larger, Smaller, r, s
      <3>6. Recorded(t)'
        BY <2>0, <2>1, <2>2, <3>1, TimesAssumption DEF Recorded, Smaller, r, s
      <3> QED BY <3>3, <3>4, <3>5, <3>6
    <2>4. CASE ~Present(r)
      <3>1. s = NoRow
        BY <2>0, <2>4, TickRow DEF RowsConsistent
      <3> QED BY <3>1 DEF Paced, Timed, BackedOff, Recorded, NoRow, NewRow, Present
    <2> QED BY <2>3, <2>4
  <1> QED BY <1>1, <1>2 DEF IInv

LEMMA LeaseIInv ==
  ASSUME IInv, TypeOK', NEW K, LeaseStep(K)
  PROVE  IInv'
  <1>1. RowsConsistent(queue')
    BY DEF LeaseStep
  <1>2. ASSUME NEW t \in Task PROVE (Paced(t) /\ Timed(t) /\ BackedOff(t) /\ Recorded(t))'
    <2> DEFINE r == queue[t]
               s == queue'[t]
               gap == sinceLease[SourceOf[t]]
    <2>0. TypeOK /\ Paced(t) /\ Timed(t) /\ BackedOff(t) /\ Recorded(t)
      BY DEF IInv
    <2>1. /\ r.due \in Int /\ r.lease \in -1..LeaseTTL /\ r.idle \in 0..IdleCap
          /\ gap \in 0..Spacing /\ Penalty(r) \in Nat
      BY <2>0, Ranges
    <2>2. LeaseRow(t, K) /\ sinceOk' = sinceOk
      BY DEF LeaseStep
    <2>3. /\ sinceLease'[SourceOf[t]] = IF SourceOf[t] \in Sources(K) THEN 0 ELSE gap
          /\ t \in K => SourceOf[t] \in Sources(K)
          /\ t \in fresh' <=> (/\ Present(s) /\ SourceOf[t] \notin Sources(K)
                              /\ (t \in fresh \/ ~Present(r)))
      BY SetsAssumption DEF LeaseStep, Sources
    <2>4. CASE Present(s) /\ Present(r)
      <3>1. /\ s.status = r.status /\ s.fails = r.fails /\ s.idle = r.idle
            /\ s.due = IF SourceOf[t] \in Sources(K) THEN Larger(r.due, Spacing) ELSE r.due
            /\ t \in K => s.lease = LeaseTTL
            /\ t \notin K => s.lease = r.lease
        BY <2>2, <2>4 DEF LeaseRow
      <3>2. Penalty(s) = Penalty(r)
        BY <3>1 DEF Penalty
      <3> HIDE DEF r, s, gap
      <3>3. Paced(t)'
        <4>1. CASE SourceOf[t] \in Sources(K)
          BY <2>1, <2>3, <3>1, <4>1, TimesAssumption DEF Paced, Larger, r, s
        <4>2. CASE SourceOf[t] \notin Sources(K)
          BY <2>0, <2>3, <2>4, <3>1, <4>2 DEF Paced, r, s, gap
        <4> QED BY <4>1, <4>2
      <3>4. Timed(t)'
        BY <2>0, <2>1, <2>3, <3>1, TimesAssumption DEF Timed, r, s, gap
      <3>5. BackedOff(t)'
        BY <2>0, <2>1, <3>1, <3>2, TimesAssumption DEF BackedOff, Larger, r, s
      <3>6. Recorded(t)'
        BY <2>0, <2>2, <3>1 DEF Recorded, r, s
      <3> QED BY <3>3, <3>4, <3>5, <3>6
    <2>5. CASE Present(s) /\ ~Present(r)
      <3>1. /\ s.status = "new" /\ s.lease = IF t \in K THEN LeaseTTL ELSE -1
            /\ SourceOf[t] \in Sources(K) => s.due >= Spacing
        BY <2>2, <2>5 DEF LeaseRow
      <3>0. s.due \in Int
        BY DEF TypeOK, Row
      <3> HIDE DEF r, s, gap
      <3>2. Paced(t)'
        BY <2>3, <2>5, <3>0, <3>1, TimesAssumption DEF Paced, r, s, gap
      <3>3. Timed(t)'
        BY <2>1, <2>3, <3>1, TimesAssumption DEF Timed, r, s, gap
      <3>4. BackedOff(t)' /\ Recorded(t)'
        BY <3>1 DEF BackedOff, Recorded, s
      <3> QED BY <3>2, <3>3, <3>4
    <2>6. CASE ~Present(s)
      <3>1. s = NoRow
        BY <1>1, <2>6 DEF RowsConsistent
      <3> QED BY <3>1 DEF Paced, Timed, BackedOff, Recorded, NoRow, NewRow, Present
    <2> QED BY <2>4, <2>5, <2>6
  <1> QED BY <1>1, <1>2 DEF IInv

LEMMA RequestIInv ==
  ASSUME IInv, TypeOK', NEW t \in Task, NEW hit \in BOOLEAN, NEW ok \in BOOLEAN,
         RequestStep(t, hit, ok)
  PROVE  IInv'
  <1>1. RowsConsistent(queue')
    BY DEF RequestStep
  <1>2. ASSUME NEW u \in Task PROVE (Paced(u) /\ Timed(u) /\ BackedOff(u) /\ Recorded(u))'
    <2> DEFINE r == queue[u]
               s == queue'[u]
               gap == sinceLease[SourceOf[u]]
    <2>0. TypeOK /\ Paced(u) /\ Timed(u) /\ BackedOff(u) /\ Recorded(u)
      BY DEF IInv
    <2>1. /\ r.due \in Int /\ r.lease \in -1..LeaseTTL /\ r.idle \in 0..IdleCap
          /\ gap \in 0..Spacing /\ Penalty(r) \in Nat /\ sinceOk \in 0..IdleCap
      BY <2>0, Ranges
    <2>2. /\ RequestRow(t, u, hit, ok) /\ sinceLease' = sinceLease
          /\ fresh' = (IF hit THEN fresh \ {t} ELSE fresh)
          /\ sinceOk' = (IF hit /\ ok THEN 0 ELSE sinceOk)
      BY DEF RequestStep
    <2>3. /\ s.due \in Int /\ s.idle \in 0..IdleCap /\ Penalty(s) \in Nat
      <3>1. s \in Row
        BY DEF TypeOK
      <3>2. s.due \in Int /\ s.idle \in 0..IdleCap /\ s.fails \in 0..MaxFactor
        BY <3>1 DEF Row
      <3>3. Larger(1, s.fails) \in Nat /\ PageRepeat \in Nat
        BY <3>2, TimesAssumption DEF Larger
      <3> QED BY <3>2, <3>3 DEF Penalty
    <2>4. CASE Present(s) /\ u = t /\ hit
      <3>1. /\ s.status = (IF ok THEN "ok" ELSE "fail") /\ s.idle = 0 /\ s.lease = -1
            /\ s.due >= Penalty(s) /\ s.due >= Spacing
        BY <2>2, <2>4 DEF RequestRow
      <3> HIDE DEF r, s, gap
      <3>2. Paced(u)' /\ Timed(u)' /\ BackedOff(u)'
        BY <2>1, <2>2, <2>3, <3>1, TimesAssumption DEF Paced, Timed, BackedOff, s, gap
      <3>3. Recorded(u)'
        BY <2>2, <2>4, <3>1 DEF Recorded, s
      <3> QED BY <3>2, <3>3
    <2>5. CASE Present(s) /\ ~(u = t /\ hit) /\ Present(r)
      <3>1. SameSchedule(r, s)
        BY <2>2, <2>5 DEF RequestRow
      <3>2. Penalty(s) = Penalty(r)
        BY <3>1 DEF Penalty, SameSchedule
      <3>3. u \in fresh' <=> u \in fresh
        BY <2>2, <2>5
      <3> HIDE DEF r, s, gap
      <3>4. Paced(u)'
        BY <2>0, <2>2, <2>5, <3>1, <3>3 DEF Paced, SameSchedule, r, s
      <3>5. Timed(u)' /\ BackedOff(u)'
        BY <2>0, <2>2, <3>1, <3>2 DEF Timed, BackedOff, SameSchedule, r, s
      <3>6. Recorded(u)'
        BY <2>0, <2>1, <2>2, <3>1 DEF Recorded, SameSchedule, r, s
      <3> QED BY <3>4, <3>5, <3>6
    <2>6. CASE Present(s) /\ ~(u = t /\ hit) /\ ~Present(r)
      <3>1. s.status = "new" /\ s.lease = -1 /\ s.due = Spacing
        BY <2>2, <2>6 DEF RequestRow
      <3> HIDE DEF r, s, gap
      <3> QED BY <2>1, <2>2, <3>1, TimesAssumption DEF Paced, Timed, BackedOff, Recorded, s, gap
    <2>7. CASE ~Present(s)
      <3>1. s = NoRow
        BY <1>1, <2>7 DEF RowsConsistent
      <3> QED BY <3>1 DEF Paced, Timed, BackedOff, Recorded, NoRow, NewRow, Present
    <2> QED BY <2>4, <2>5, <2>6, <2>7
  <1> QED BY <1>1, <1>2 DEF IInv

LEMMA NextIInv == IInv /\ [Next]_vars => IInv'
  <1> SUFFICES ASSUME IInv, [Next]_vars PROVE IInv'
    OBVIOUS
  <1>1. TypeOK /\ RowsConsistent(queue)
    BY DEF IInv
  <1>2. TypeOK'
    BY <1>1, StepShape
  <1>3. CASE Tick
    BY <1>2, <1>3, TickIInv
  <1>4. ASSUME NEW K, LeaseStep(K) PROVE IInv'
    BY <1>2, <1>4, LeaseIInv
  <1>5. ASSUME NEW t \in Task, NEW hit \in BOOLEAN, NEW ok \in BOOLEAN, RequestStep(t, hit, ok)
        PROVE  IInv'
    BY <1>2, <1>5, RequestIInv
  <1>6. CASE UNCHANGED <<queue, sinceLease, fresh, sinceOk>>
    BY <1>2, <1>6 DEF IInv, RowsConsistent, Paced, Timed, BackedOff, Recorded
  <1> QED BY <1>1, <1>3, <1>4, <1>5, <1>6, StepShape

-----------------------------------------------------------------------------
\* What the invariant gives.

\* Only a due task is given out.
LEMMA GrantedDue ==
  ASSUME IInv, [Next]_vars, NEW t \in Task, Granted(t), Present(queue[t])
  PROVE  queue[t].due <= 0
  <1> DEFINE r == queue[t]
             s == queue'[t]
  <1>0. TypeOK /\ RowsConsistent(queue) /\ RowsConsistent(queue')
    BY NextIInv DEF IInv
  <1>1. r.lease \in -1..LeaseTTL /\ r.lease < 0 /\ s.lease >= 0
    BY <1>0, Ranges DEF Granted
  <1>2. Present(s)
    BY <1>0, <1>1 DEF RowsConsistent, NoRow, NewRow
  <1>3. ~Tick
    BY <1>0, <1>1, TickRow DEF Larger
  <1>4. ~UNCHANGED queue
    BY <1>1
  <1>5. \A u \in Task, hit, ok \in BOOLEAN : ~RequestStep(u, hit, ok)
    BY <1>1, <1>2 DEF RequestStep, RequestRow, SameSchedule
  <1>6. ASSUME NEW K, LeaseStep(K) PROVE r.due <= 0
    BY <1>1, <1>2, <1>6 DEF LeaseStep, LeaseRow
  <1> QED BY <1>0, <1>3, <1>4, <1>5, <1>6, StepShape

LEMMA SpacingStep ==
  ASSUME IInv, [Next]_vars, NEW t \in Task, Granted(t), Present(queue[t]), t \notin fresh
  PROVE  sinceLease[SourceOf[t]] >= Spacing
  <1>1. queue[t].due <= 0
    BY GrantedDue
  <1>2. Paced(t) /\ queue[t].due \in Int /\ sinceLease[SourceOf[t]] \in 0..Spacing
    BY Ranges DEF IInv
  <1> QED BY <1>1, <1>2, TimesAssumption DEF Paced

\* The schedule in the table keeps step with what the collectors did, whatever
\* the order of leases, requests, releases and losses.
THEOREM Invariance == Spec => []IInv
  BY InitIInv, NextIInv, PTL DEF Spec

\* Every reachable table holds rows of the right types, every request in flight
\* names a task and a collector.
THEOREM TypeCorrect == Spec => []TypeOK
  <1>1. IInv => TypeOK
    BY DEF IInv
  <1> QED BY <1>1, Invariance, PTL

\* A source is given out again only after its pause, whatever the number of
\* sources, tasks and collectors.
THEOREM SpacingHolds == Spec => SpacingKept
  <1>1. IInv /\ [Next]_vars
          => [\A t \in Task : Granted(t) /\ Present(queue[t]) /\ t \notin fresh
                               => sinceLease[SourceOf[t]] >= Spacing]_vars
    BY SpacingStep
  <1> QED BY <1>1, Invariance, PTL DEF Spec, SpacingKept

\* No two collectors are sent to one source at a time.
THEOREM OneCollectorHolds == Spec => OneCollectorPerSource
  <1>1. IInv /\ [Next]_vars
          => [\A t, u \in Task :
                /\ Granted(t) /\ Present(queue[t]) /\ t \notin fresh
                /\ SourceOf[u] = SourceOf[t]
                => queue[u].lease < 0]_vars
    <2> SUFFICES ASSUME IInv, [Next]_vars, NEW t \in Task, NEW u \in Task,
                        Granted(t), Present(queue[t]), t \notin fresh,
                        SourceOf[u] = SourceOf[t]
                 PROVE  queue[u].lease < 0
      OBVIOUS
    <2>1. sinceLease[SourceOf[t]] >= Spacing
      BY SpacingStep
    <2>2. /\ Timed(u) /\ queue[u].lease \in -1..LeaseTTL
          /\ sinceLease[SourceOf[u]] \in 0..Spacing
      BY Ranges DEF IInv
    <2> QED BY <2>1, <2>2, TimesAssumption, PolicyAssumption DEF Timed
  <1> QED BY <1>1, Invariance, PTL DEF Spec, OneCollectorPerSource

\* A failed page rests for its full pause, through every handler that renews,
\* moves or closes its row.
THEOREM BackoffHolds == Spec => BackoffKept
  <1>1. IInv /\ [Next]_vars
          => [\A t \in Task : Granted(t) /\ queue[t].status # "new"
                               => queue[t].idle >= Penalty(queue[t])]_vars
    <2> SUFFICES ASSUME IInv, [Next]_vars, NEW t \in Task,
                        Granted(t), queue[t].status # "new"
                 PROVE  queue[t].idle >= Penalty(queue[t])
      OBVIOUS
    <2>1. Present(queue[t])
      BY DEF IInv, RowsConsistent, NoRow, NewRow
    <2>2. queue[t].due <= 0
      BY <2>1, GrantedDue
    <2>3. /\ BackedOff(t) /\ queue[t].due \in Int /\ queue[t].idle \in 0..IdleCap
          /\ Penalty(queue[t]) \in Nat
      BY Ranges DEF IInv
    <2> QED BY <2>2, <2>3, TimesAssumption DEF BackedOff
  <1> QED BY <1>1, Invariance, PTL DEF Spec, BackoffKept

\* A collection that looks healthy is.
THEOREM HealthHolds == Spec => []HealthTruthful
  <1>1. IInv => HealthTruthful
    <2> SUFFICES ASSUME IInv, NEW t \in Task, queue[t].status = "ok", queue[t].idle <= Silent
                 PROVE  sinceOk <= Silent
      BY DEF HealthTruthful, Healthy
    <2>1. Recorded(t) /\ queue[t].idle \in 0..IdleCap /\ sinceOk \in 0..IdleCap
      BY Ranges DEF IInv
    <2> QED BY <2>1, TimesAssumption DEF Recorded
  <1> QED BY <1>1, Invariance, PTL

\* The request that closes a bound task is gone from the requests in flight,
\* also when the phone takes it for failed or the row is deleted with it.
LEMMA RequestSpent ==
  ASSUME NEW j \in Job, j.bound, NEW J, j \notin J
  PROVE  j \notin Unbind(J, {j.t})
  <1> SUFFICES ASSUME NEW x \in J, j = [x EXCEPT !.bound = @ /\ x.t \notin {j.t}]
               PROVE  FALSE
    BY DEF Unbind
  <1>1. CASE x.t = j.t
    BY <1>1 DEF Job
  <1>2. CASE x.t # j.t
    BY <1>2 DEF Job
  <1> QED BY <1>1, <1>2

\* Nobody but the holder ends a live lease: seeding, a page posted by url, a
\* failure of another collector and a message about a deleted row do not.
THEOREM LeaseHolds == Spec => LeaseKept
  <1> DEFINE Answered(t) ==
        \E j \in jobs \ jobs' :
          j.t = t /\ j.bound /\ LabelOf[j.w] = queue[t].holder /\ j.step # "fetch"
  <1>1. ASSUME IInv, [Next]_vars, NEW t \in Task,
               queue[t].lease >= 0, Present(queue'[t]), queue'[t].holder # queue[t].holder
        PROVE  Answered(t)
    <2>0. TypeOK /\ RowsConsistent(queue)
      BY <1>1 DEF IInv
    <2>1. Present(queue[t]) /\ ~(queue[t].lease < 0)
      <3>1. NoRow.lease = -1
        BY DEF NoRow, NewRow
      <3>2. queue[t].lease \in -1..LeaseTTL
        BY <2>0, Ranges
      <3> QED BY <1>1, <2>0, <3>1, <3>2 DEF RowsConsistent
    <2>2. CASE Tick
      BY <1>1, <2>0, <2>1, <2>2, TickRow
    <2>3. ASSUME NEW w \in Worker, Lease(w) PROVE FALSE
      <3>1. PICK K : LeaseStep(K)
        BY <2>0, <2>3, LeaseShape
      <3> QED BY <1>1, <2>1, <3>1 DEF LeaseStep, LeaseRow
    <2>4. ASSUME NEW j \in jobs, NEW q \in Table, RowsConsistent(q), NEW ok \in BOOLEAN,
                 NEW J, j \notin J, j.step # "fetch",
                 SameSchedule(queue[t], q[t]),
                 Close(q, j.t, MatchesTask(q, j), ok, J)
          PROVE  Answered(t)
      <3>1. j \in Job
        BY <2>0 DEF TypeOK
      <3>2. t = j.t /\ MatchesTask(q, j)
        BY <1>1, <2>4 DEF Close, Table, SameSchedule
      <3>3. j.bound /\ LabelOf[j.w] = queue[t].holder
        BY <2>4, <3>2 DEF MatchesTask, SameSchedule
      <3>4. jobs' = J \/ jobs' = Unbind(J, {j.t})
        BY <2>4 DEF Close
      <3>5. j \notin jobs'
        BY <2>4, <3>1, <3>3, <3>4, RequestSpent
      <3> QED BY <2>4, <3>2, <3>3, <3>5
    <2>5. ASSUME NEW j \in jobs, Ingest(j) PROVE Answered(t)
      <3>1. PICK r \in Results(j.t), heard \in BOOLEAN :
              Close(r.q, j.t, MatchesTask(r.q, j), r.ok,
                    (jobs \ {j}) \cup IF heard \/ j.w \notin Phone THEN {}
                                      ELSE {[j EXCEPT !.step = "fail"]})
        BY <2>5 DEF Ingest
      <3> DEFINE J == (jobs \ {j}) \cup IF heard \/ j.w \notin Phone THEN {}
                                       ELSE {[j EXCEPT !.step = "fail"]}
      <3>2. j \in Job /\ j.t \in Task /\ j.step = "ingest"
        BY <2>0, <2>5 DEF TypeOK, Job, Ingest
      <3>3. j \notin J
        BY <3>2 DEF Job
      <3>4. /\ r.q \in Table /\ RowsConsistent(r.q) /\ r.ok \in BOOLEAN
            /\ Present(r.q[t]) => SameSchedule(queue[t], r.q[t])
        BY <2>0, <2>1, <3>2, ResultsShape
      <3>5. Present(r.q[t])
        <4>1. CASE IsDiscovery(j.t)
          <5>1. PICK U \in Found(j.t) :
                  r.q = Enqueued(queue, U, IF j.t \in Sitemap THEN DeepRepeat ELSE PageRepeat)
            BY <4>1 DEF Results
          <5>2. queue[t] \in Row
            BY <2>0 DEF TypeOK
          <5> QED BY <2>1, <5>1, <5>2 DEF Enqueued, Row, Present
        <4>2. CASE ~IsDiscovery(j.t)
          BY <2>1, <4>2 DEF Results
        <4> QED BY <4>1, <4>2
      <3> HIDE DEF J
      <3> QED BY <2>4, <3>1, <3>2, <3>3, <3>4, <3>5 DEF J
    <2>6. ASSUME NEW j \in jobs, Fail(j) PROVE Answered(t)
      <3>1. SameSchedule(queue[t], queue[t]) /\ queue \in Table
        BY <2>0 DEF SameSchedule, TypeOK, Table
      <3>2. Close(queue, j.t, MatchesTask(queue, j), FALSE, jobs \ {j}) /\ j.step = "fail"
        BY <2>6 DEF Fail
      <3> QED BY <2>0, <2>4, <3>1, <3>2
    <2>7. ASSUME NEW u \in Task, IngestByUrl(u) PROVE FALSE
      <3>1. PICK r \in Results(u) : Close(r.q, u, MatchesUrl(r.q, u), r.ok, jobs)
        BY <2>7 DEF IngestByUrl
      <3>2. r.q \in Table /\ (Present(r.q[t]) => SameSchedule(queue[t], r.q[t]))
        BY <2>0, <2>1, ResultsShape
      <3>3. ~(u = t /\ MatchesUrl(r.q, u))
        BY <2>1, <3>2 DEF MatchesUrl, SameSchedule
      <3>4. queue'[t] = r.q[t]
        BY <3>1, <3>2, <3>3 DEF Close, Table
      <3> QED BY <1>1, <3>2, <3>4 DEF SameSchedule
    <2>8. ~UNCHANGED queue
      BY <1>1
    <2> QED BY <1>1, <2>2, <2>3, <2>5, <2>6, <2>7, <2>8
            DEF Next, Release, Fetched, IngestRejected, TimedOut, Drop, vars
  <1>2. IInv /\ [Next]_vars
          => [\A t \in Task :
                queue[t].lease >= 0 /\ Present(queue'[t]) /\ queue'[t].holder # queue[t].holder
                => \E j \in jobs \ jobs' :
                     /\ j.t = t /\ j.bound /\ LabelOf[j.w] = queue[t].holder
                     /\ j.step # "fetch"]_vars
    BY <1>1
  <1> HIDE DEF Answered
  <1> QED BY <1>2, Invariance, PTL DEF Spec, LeaseKept

-----------------------------------------------------------------------------
\* The queue implements ShopVisits.  With the promised pause kept, a source has
\* one live lease at most: the one before it has run out.

OneLive ==
  \A t, u \in Task :
    queue[t].lease >= 0 /\ queue[u].lease >= 0 /\ SourceOf[t] = SourceOf[u] => t = u

\* The step keeps the pause, whatever has just been added to the queue.
PauseKept == \A t \in Task : Granted(t) => sinceLease[SourceOf[t]] >= Spacing

LEMMA NoRowLease == NoRow.lease = -1
  BY DEF NoRow, NewRow

\* How a lease request changes the lease of one row.
LEMMA LeaseOf ==
  ASSUME IInv, NEW K, LeaseStep(K), NEW t \in Task
  PROVE  /\ t \in K => queue[t].lease < 0 /\ queue'[t].lease = LeaseTTL
         /\ t \notin K => queue'[t].lease \in {queue[t].lease, -1}
  <1>1. /\ LeaseRow(t, K) /\ (~Present(queue[t]) => queue[t] = NoRow)
        /\ (~Present(queue'[t]) => queue'[t] = NoRow)
    BY DEF LeaseStep, IInv, RowsConsistent
  <1> QED BY <1>1, NoRowLease DEF LeaseRow

\* A source that is given out again has no live lease left.
LEMMA RunOut ==
  ASSUME IInv, NEW t \in Task, NEW u \in Task, SourceOf[t] = SourceOf[u],
         sinceLease[SourceOf[t]] >= Spacing
  PROVE  queue[u].lease < 0
  <1>1. /\ Timed(u) /\ queue[u].lease \in -1..LeaseTTL
        /\ sinceLease[SourceOf[u]] \in 0..Spacing
    BY Ranges DEF IInv
  <1> QED BY <1>1, TimesAssumption, PolicyAssumption DEF Timed

LEMMA LeaseOneLive ==
  ASSUME IInv, OneLive, PauseKept, NEW K, LeaseStep(K)
  PROVE  /\ OneLive'
         /\ \A t \in K : sinceLease[SourceOf[t]] >= Spacing
  <1>0. LeaseTTL \in Nat /\ K \subseteq Task
    BY TimesAssumption DEF LeaseStep
  <1>1. ASSUME NEW t \in K PROVE sinceLease[SourceOf[t]] >= Spacing
    BY <1>0, LeaseOf DEF PauseKept, Granted
  <1>2. ASSUME NEW t \in Task, NEW u \in Task, SourceOf[t] = SourceOf[u],
               queue'[t].lease >= 0, queue'[u].lease >= 0
        PROVE  t = u
    <2>0. queue[t].lease \in Int /\ queue[u].lease \in Int
      BY Ranges DEF IInv
    <2>1. CASE t \in K /\ u \in K
      <3>1. \A x, y \in K : SourceOf[x] = SourceOf[y] => x = y
        BY DEF LeaseStep
      <3> QED BY <1>2, <2>1, <3>1
    <2>2. CASE t \in K /\ u \notin K
      <3>1. queue[u].lease < 0
        BY <1>1, <1>2, <2>2, RunOut
      <3> QED BY <1>2, <2>0, <2>2, <3>1, LeaseOf
    <2>3. CASE t \notin K /\ u \in K
      <3>1. queue[t].lease < 0
        BY <1>1, <1>2, <2>3, RunOut
      <3> QED BY <1>2, <2>0, <2>3, <3>1, LeaseOf
    <2>4. CASE t \notin K /\ u \notin K
      <3>1. queue'[t].lease = queue[t].lease /\ queue'[u].lease = queue[u].lease
        BY <1>2, <2>0, <2>4, LeaseOf
      <3> QED BY <1>2, <3>1 DEF OneLive
    <2> QED BY <2>1, <2>2, <2>3, <2>4
  <1> QED BY <1>1, <1>2 DEF OneLive

\* A step that gives nothing out leaves every live lease alone or ends it.
NothingGiven == \A t \in Task : queue'[t].lease >= 0 => queue[t].lease >= 0

LEMMA TickGives == ASSUME IInv, Tick PROVE NothingGiven
  <1> SUFFICES ASSUME NEW t \in Task, queue'[t].lease >= 0 PROVE queue[t].lease >= 0
    BY DEF NothingGiven
  <1>1. TypeOK /\ queue[t].lease \in -1..LeaseTTL
    BY Ranges DEF IInv
  <1> QED BY <1>1, TickRow DEF Larger

LEMMA RequestGives ==
  ASSUME IInv, NEW t \in Task, NEW hit \in BOOLEAN, NEW ok \in BOOLEAN,
         RequestStep(t, hit, ok)
  PROVE  NothingGiven
  <1> SUFFICES ASSUME NEW u \in Task, queue'[u].lease >= 0 PROVE queue[u].lease >= 0
    BY DEF NothingGiven
  <1>1. Present(queue'[u])
    BY NoRowLease DEF RequestStep, RowsConsistent
  <1> QED BY <1>1 DEF RequestStep, RequestRow, SameSchedule

LEMMA OneLiveStep == IInv /\ OneLive /\ [PauseKept]_vars /\ [Next]_vars => OneLive'
  <1> SUFFICES ASSUME IInv, OneLive, [PauseKept]_vars, [Next]_vars PROVE OneLive'
    OBVIOUS
  <1>0. TypeOK /\ RowsConsistent(queue)
    BY DEF IInv
  <1>1. CASE UNCHANGED queue
    BY <1>1 DEF OneLive
  <1>2. ASSUME NEW K, LeaseStep(K), ~UNCHANGED vars PROVE OneLive'
    BY <1>2, LeaseOneLive
  <1>3. CASE NothingGiven
    BY <1>3 DEF OneLive, NothingGiven
  <1>4. CASE UNCHANGED vars
    BY <1>1, <1>4 DEF vars
  <1> QED BY <1>0, <1>1, <1>2, <1>3, <1>4, StepShape, TickGives, RequestGives

-----------------------------------------------------------------------------
\* The page at a source, in both states of a step.

Pages ==
  \A s \in Source :
    \/ PageAt(s) = NoOne /\ \A t \in Task : SourceOf[t] = s => ~(queue[t].lease >= 0)
    \/ /\ PageAt(s) \in Task
       /\ SourceOf[PageAt(s)] = s /\ queue[PageAt(s)].lease >= 0

LEMMA PagesNow == OneLive => Pages
  <1> SUFFICES ASSUME OneLive, NEW s \in Source
               PROVE  \/ /\ PageAt(s) = NoOne
                         /\ \A t \in Task : SourceOf[t] = s => ~(queue[t].lease >= 0)
                      \/ /\ PageAt(s) \in Task
                         /\ SourceOf[PageAt(s)] = s /\ queue[PageAt(s)].lease >= 0
    BY DEF Pages
  <1> DEFINE live == {t \in Task : SourceOf[t] = s /\ queue[t].lease >= 0}
  <1>1. CASE live = {}
    BY <1>1 DEF PageAt
  <1>2. CASE live # {}
    <2>1. PICK t \in Task : live = {t}
      BY <1>2 DEF OneLive
    <2>2. Cardinality(live) = 1 /\ live # {}
      BY <2>1, FS_Singleton
    <2>3. PageAt(s) \in live
      BY <2>1, <2>2 DEF PageAt
    <2> QED BY <2>3
  <1> QED BY <1>1, <1>2

LEMMA PagesNext == OneLive' => Pages'
  BY PagesNow, PTL

\* Only the collectors of the sources in S set out; the other visits go on or end.
VisitsMove(S) ==
  /\ [s \in Source |-> PageAt(s)]' \in [Source -> Task \cup {NoOne}]
  /\ \A s \in Source : [x \in Source |-> PageAt(x)]'[s]
                         \in IF s \in S THEN Task ELSE {PageAt(s), NoOne}

LEMMA PagesMove ==
  ASSUME Pages, Pages', NEW S \in SUBSET Source, OneLive,
         \A s \in S : \E t \in Task : SourceOf[t] = s /\ queue'[t].lease >= 0,
         \A t \in Task : SourceOf[t] \notin S /\ queue'[t].lease >= 0 => queue[t].lease >= 0
  PROVE  VisitsMove(S)
  <1>1. \A s \in Source : PageAt(s)' \in Task \cup {NoOne}
    BY DEF Pages
  <1>2. ASSUME NEW s \in S PROVE PageAt(s)' \in Task
    BY DEF Pages
  <1>3. ASSUME NEW s \in Source \ S, PageAt(s)' # NoOne PROVE PageAt(s)' = PageAt(s)
    <2>1. /\ PageAt(s)' \in Task /\ SourceOf[PageAt(s)'] = s /\ queue'[PageAt(s)'].lease >= 0
      BY <1>3 DEF Pages
    <2>2. queue[PageAt(s)'].lease >= 0
      BY <2>1
    <2>3. /\ PageAt(s) \in Task /\ SourceOf[PageAt(s)] = s /\ queue[PageAt(s)].lease >= 0
      BY <2>1, <2>2 DEF Pages
    <2> QED BY <2>1, <2>2, <2>3 DEF OneLive
  <1> QED BY <1>1, <1>2, <1>3 DEF VisitsMove

LEMMA VisitsInit == Init => Visits!Init
  <1> SUFFICES ASSUME Init PROVE Visits!Init
    OBVIOUS
  <1>1. \A t \in Task : ~(queue[t].lease >= 0)
    BY NoRowLease DEF Init
  <1>2. \A s \in Source : PageAt(s) = NoOne
    BY <1>1 DEF PageAt
  <1> QED BY <1>2 DEF Init, Visits!Init

\* The clock passes the time of the shops too, and ends the visits whose lease
\* runs out.
LEMMA VisitsPass ==
  ASSUME IInv, OneLive, Pages, Pages', Tick
  PROVE  Visits!Pass
  <1>1. sinceLease' = [s \in Source |-> IF sinceLease[s] < Spacing
                                          THEN sinceLease[s] + 1 ELSE Spacing]
    <2>1. \A s \in Source : Smaller(sinceLease[s] + 1, Spacing)
                           = IF sinceLease[s] < Spacing THEN sinceLease[s] + 1 ELSE Spacing
      BY TimesAssumption DEF IInv, TypeOK, Smaller
    <2> QED BY <2>1 DEF Tick
  <1>2. VisitsMove({})
    BY PagesMove, TickGives DEF NothingGiven
  <1> DEFINE S == {s \in Source : PageAt(s)' = NoOne}
  <1>3. [s \in Source |-> PageAt(s)]'
          = [s \in Source |-> IF s \in S THEN NoOne ELSE [x \in Source |-> PageAt(x)][s]]
    BY <1>2 DEF VisitsMove
  <1> QED BY <1>1, <1>3 DEF Visits!Pass

LEMMA VisitsMeet ==
  ASSUME NEW S \in SUBSET {s \in Source : sinceLease[s] = Spacing /\ PageAt(s) = NoOne},
         sinceLease' = [s \in Source |-> IF s \in S THEN 0 ELSE sinceLease[s]],
         VisitsMove(S)
  PROVE  Visits!Meet
  BY DEF Visits!Meet, VisitsMove

LEMMA VisitsStep ==
  IInv /\ OneLive /\ OneLive' /\ [PauseKept]_vars /\ [Next]_vars => [Visits!Next]_Visits!vars
  <1> SUFFICES ASSUME IInv, OneLive, OneLive', [PauseKept]_vars, [Next]_vars
               PROVE  Visits!Pass \/ Visits!Meet
    BY DEF Visits!Next
  <1>0. /\ TypeOK /\ RowsConsistent(queue) /\ Pages /\ Pages'
        /\ sinceLease = [s \in Source |-> sinceLease[s]]
    BY PagesNow, PagesNext DEF IInv, TypeOK
  <1>1. CASE Tick
    BY <1>0, <1>1, VisitsPass
  <1>2. ASSUME NEW K, LeaseStep(K), ~UNCHANGED vars PROVE Visits!Meet
    <2>1. \A t \in K : sinceLease[SourceOf[t]] >= Spacing
      BY <1>2, LeaseOneLive
    <2>2. K \subseteq Task /\ Sources(K) \subseteq Source
      BY <1>2, SetsAssumption DEF LeaseStep, Sources
    <2>3. ASSUME NEW s \in Sources(K)
          PROVE  sinceLease[s] = Spacing /\ PageAt(s) = NoOne
      <3>1. PICK t \in K : SourceOf[t] = s
        BY DEF Sources
      <3>2. sinceLease[s] \in 0..Spacing /\ sinceLease[s] >= Spacing
        BY <1>0, <2>1, <2>2, <3>1 DEF TypeOK
      <3>3. \A u \in Task : SourceOf[u] = s => queue[u].lease < 0 /\ queue[u].lease \in Int
        BY <1>0, <2>1, <2>2, <3>1, RunOut, Ranges
      <3> QED BY <1>0, <2>2, <3>2, <3>3, TimesAssumption DEF Pages
    <2>4. \A s \in Sources(K) : \E t \in Task : SourceOf[t] = s /\ queue'[t].lease >= 0
      BY <1>2, <2>2, LeaseOf, TimesAssumption DEF Sources
    <2>5. \A t \in Task : SourceOf[t] \notin Sources(K) /\ queue'[t].lease >= 0
                            => queue[t].lease >= 0
      BY <1>2, LeaseOf DEF Sources
    <2>6. VisitsMove(Sources(K))
      BY <1>0, <2>2, <2>4, <2>5, PagesMove
    <2> QED BY <1>2, <2>2, <2>3, <2>6, VisitsMeet DEF LeaseStep
  <1>3. ASSUME NothingGiven, UNCHANGED sinceLease PROVE Visits!Meet
    <2>1. VisitsMove({})
      BY <1>0, <1>3, PagesMove DEF NothingGiven
    <2>2. sinceLease' = [s \in Source |-> IF s \in {} THEN 0 ELSE sinceLease[s]]
      BY <1>0, <1>3
    <2> QED BY <2>1, <2>2, VisitsMeet
  <1>4. ASSUME NEW t \in Task, NEW hit \in BOOLEAN, NEW ok \in BOOLEAN, RequestStep(t, hit, ok)
        PROVE  Visits!Meet
    BY <1>3, <1>4, RequestGives DEF RequestStep
  <1>5. CASE UNCHANGED <<queue, sinceLease>>
    BY <1>3, <1>5 DEF NothingGiven
  <1>6. CASE UNCHANGED vars
    BY <1>5, <1>6 DEF vars
  <1> QED BY <1>0, <1>1, <1>2, <1>4, <1>5, <1>6, StepShape

\* While the promised pause is kept, shops see one collector at a time, Spacing
\* apart, and nothing else: the queue implements ShopVisits.
THEOREM SpacedVisits == Spec /\ SpacingPromised => VisitsSpec
  <1>1. Init => OneLive
    BY NoRowLease DEF Init, OneLive
  <1>2. Spec /\ SpacingPromised => [](IInv /\ OneLive)
    BY <1>1, InitIInv, NextIInv, OneLiveStep, PTL DEF Spec, SpacingPromised, PauseKept
  <1>3. IInv /\ OneLive /\ (IInv /\ OneLive)' /\ [PauseKept]_vars /\ [Next]_vars
          => [Visits!Next]_Visits!vars
    BY VisitsStep
  <1> QED BY <1>2, <1>3, VisitsInit, PTL
          DEF Spec, SpacingPromised, PauseKept, VisitsSpec, Visits!Spec

-----------------------------------------------------------------------------
\* The promised pause is kept while nothing is added late (Settled): the first
\* request that gives anything out has queued all there is to collect, except
\* for cards that are collected already.

AllIn ==
  /\ \A t \in wanted : Present(queue[t])
  /\ \A c \in Card : Present(queue[c]) \/ c \in specs

Started ==
  /\ wanted \in Configs
  /\ \A t \in fresh : sinceLease[SourceOf[t]] = Spacing
  /\ AllIn \/ \A s \in Source : sinceLease[s] = Spacing

\* All cards that are neither queued nor described yet fit into the queue.
LEMMA AllCardsTaken ==
  ASSUME Settled, NEW q \in Table, RowsConsistent(q), specs \subseteq Card,
         NEW C \in CardChoices(q)
  PROVE  \A c \in Card : Present(WithCards(q, C)[c]) \/ c \in specs
  <1> DEFINE pending == {t \in Task : q[t].kind = "card"}
             offered == CardCandidates(q)
             need == Larger(0, CardTarget - Cardinality(pending))
  <1>1. pending \subseteq Card /\ offered \subseteq Card /\ pending \cap offered = {}
    BY DEF RowsConsistent, CardCandidates
  <1>2. /\ IsFiniteSet(Card) /\ IsFiniteSet(pending) /\ IsFiniteSet(offered)
        /\ Cardinality(Card) \in Nat /\ Cardinality(Card) <= CardTarget
        /\ Cardinality(pending) \in Nat /\ Cardinality(offered) \in Nat
    BY <1>1, FS_Subset, FS_CardinalityType DEF Settled
  <1>3. Cardinality(pending) + Cardinality(offered) <= CardTarget
    <2>1. Cardinality(pending \cup offered) = Cardinality(pending) + Cardinality(offered)
      <3>1. Cardinality(pending \cup offered)
              = Cardinality(pending) + Cardinality(offered) - Cardinality(pending \cap offered)
        BY <1>2, FS_Union
      <3>2. Cardinality(pending \cap offered) = 0
        BY <1>1, FS_EmptySet
      <3> HIDE DEF pending, offered
      <3> QED BY <1>2, <3>1, <3>2
    <2>2. Cardinality(pending \cup offered) <= Cardinality(Card)
      BY <1>1, <1>2, FS_Subset
    <2> QED BY <1>2, <2>1, <2>2, TimesAssumption
  <1>4. C \subseteq offered /\ Cardinality(C) = Smaller(need, Cardinality(offered))
    BY DEF CardChoices
  <1>5. Smaller(need, Cardinality(offered)) = Cardinality(offered)
    BY <1>2, <1>3, TimesAssumption DEF Smaller, Larger
  <1>6. C = offered
    BY <1>2, <1>4, <1>5, FS_Subset
  <1> HIDE DEF pending, need
  <1>7. ASSUME NEW c \in Card, ~Present(q[c]), c \notin specs PROVE c \in C
    <2>1. q[c].kind # "card" /\ \A d \in Card : GroupOf[d] = GroupOf[c] => d = c
      BY <1>7 DEF Settled, Present
    <2>2. CardRank[c] <= CardRank[c]
      BY SetsAssumption
    <2> QED BY <1>6, <1>7, <2>1, <2>2 DEF CardCandidates
  <1>8. \A c \in C : Present(WithCards(q, C)[c])
    BY <1>1, <1>4, SetsAssumption DEF WithCards, NewRow, Present
  <1>9. \A c \in Card \ C : WithCards(q, C)[c] = q[c]
    BY SetsAssumption DEF WithCards
  <1> QED BY <1>7, <1>8, <1>9

\* Every lease request completes the queue, and adds nothing to a complete one.
LEMMA LeaseFills ==
  ASSUME Settled, IInv, Started, NEW K, LeaseStep(K), UNCHANGED <<wanted, specs>>
  PROVE  /\ AllIn'
         /\ AllIn => \A t \in Task : Present(queue'[t]) => Present(queue[t])
  <1>0. queue \in Table /\ RowsConsistent(queue) /\ specs \subseteq Card
    BY DEF IInv, TypeOK, Table
  <1> DEFINE q == Seeded(queue)
  <1>1. q \in Table /\ RowsConsistent(q)
    BY <1>0, SeededType, SeededConsistent DEF Started
  <1>2. PICK C \in CardChoices(q) :
          \A t \in Task : Present(queue'[t]) <=> Present(WithCards(q, C)[t])
    BY DEF LeaseStep
  <1>3. ASSUME NEW t \in Task, t \in wanted PROVE Present(q[t])
    <2>1. t \in Task /\ queue[t] \in Row
      BY <1>0, <1>3, SetsAssumption DEF Started, Table
    <2> QED BY <1>3, <2>1 DEF Seeded, KindFor, NewRow, Present, Row
  <1>4. wanted \subseteq Task
    BY SetsAssumption DEF Started
  <1>5. \A t \in Task : Present(q[t]) => Present(WithCards(q, C)[t])
    BY DEF WithCards
  <1>6. \A c \in Card : Present(WithCards(q, C)[c]) \/ c \in specs
    BY <1>0, <1>1, AllCardsTaken
  <1>7. AllIn'
    BY <1>2, <1>3, <1>4, <1>5, <1>6, SetsAssumption DEF AllIn
  <1>8. ASSUME AllIn, NEW t \in Task, Present(queue'[t]), ~Present(queue[t]) PROVE FALSE
    <2>1. t \notin wanted
      BY <1>8 DEF AllIn
    <2>2. ~Present(q[t])
      BY <1>8, <2>1, NoRowType DEF Seeded
    <2>3. t \in C
      BY <1>2, <1>8, <2>2 DEF WithCards
    <2>4. t \in Card /\ t \notin specs
      BY <2>3 DEF CardChoices, CardCandidates
    <2> QED BY <1>8, <2>4 DEF AllIn
  <1> QED BY <1>7, <1>8

\* What any other step leaves of the queue: a row that goes was a card's, which
\* now is described.
Keeps ==
  /\ UNCHANGED wanted /\ fresh' \subseteq fresh /\ specs \subseteq specs'
  /\ \A s \in Source : sinceLease[s] = Spacing => sinceLease'[s] = Spacing
  /\ \A t \in Task : Present(queue[t]) => Present(queue'[t]) \/ t \in Card \cap specs'

LEMMA KeepsStarted == ASSUME IInv, Started, Keeps PROVE Started'
  <1>1. fresh \subseteq Task /\ \A t \in Task : SourceOf[t] \in Source
    BY SetsAssumption DEF IInv, TypeOK
  <1>2. wanted \subseteq Task /\ wanted \cap Card = {} /\ Card \subseteq Task
    BY SetsAssumption DEF Started
  <1>3. \A t \in fresh' : sinceLease'[SourceOf[t]] = Spacing
    BY <1>1 DEF Started, Keeps
  <1>4. AllIn => AllIn'
    BY <1>2 DEF AllIn, Keeps
  <1>5. wanted' \in Configs
    BY DEF Started, Keeps
  <1> QED BY <1>3, <1>4, <1>5 DEF Started, Keeps

\* Ingestion adds pages and leaves the kind of every row alone.
LEMMA ResultsKinds ==
  ASSUME TypeOK, NEW t \in Task, NEW r \in Results(t), NEW u \in Task
  PROVE  /\ Present(queue[u]) => r.q[u].kind = queue[u].kind
         /\ r.q[u].kind = "card" => queue[u].kind = "card"
         /\ ~IsDiscovery(t) => r.q = queue
  <1>1. CASE IsDiscovery(t)
    <2> DEFINE repeat == IF t \in Sitemap THEN DeepRepeat ELSE PageRepeat
    <2>1. PICK U \in Found(t) : r = [q |-> Enqueued(queue, U, repeat), ok |-> TRUE]
      BY <1>1 DEF Results
    <2>2. queue[u] \in Row
      BY DEF TypeOK
    <2> HIDE DEF repeat
    <2> QED BY <1>1, <2>1, <2>2 DEF Enqueued, NewRow, Row, Present
  <1>2. CASE ~IsDiscovery(t)
    BY <1>2 DEF Results
  <1> QED BY <1>1, <1>2

LEMMA IngestKeeps ==
  ASSUME IInv, wanted \in Configs, NEW t \in Task, NEW r \in Results(t),
         NEW hit \in BOOLEAN, NEW J,
         Close(r.q, t, hit, r.ok, J), specs' = SpecsAfter(t, r.ok),
         UNCHANGED <<wanted, sinceLease>>
  PROVE  Keeps
  <1>1. TypeOK /\ RowsConsistent(queue) /\ r.q \in Table /\ r.ok \in BOOLEAN
    BY ResultsType DEF IInv, TypeOK, Table
  <1>2. ASSUME NEW u \in Task, Present(queue[u]), ~Present(queue'[u])
        PROVE  u \in Card \cap specs'
    <2>1. Present(r.q[u]) /\ r.q[u] \in Row
      BY <1>1, <1>2, ResultsKinds DEF Table, Present
    <2>2. u = t /\ hit /\ queue'[u] = CloseRow(r.q[u], r.ok)
      BY <1>1, <1>2, <2>1 DEF Close, Table
    <2>3. r.ok /\ r.q[u].kind = "card"
      <3>1. ~(r.ok /\ r.q[u].kind = "card") => CloseRow(r.q[u], r.ok).kind = r.q[u].kind
        BY <2>1 DEF CloseRow, Row
      <3> QED BY <1>2, <2>1, <2>2, <3>1 DEF Present
    <2>4. queue[u].kind = "card" /\ u \in Card
      BY <1>1, <2>3, ResultsKinds DEF RowsConsistent
    <2>5. ~IsDiscovery(t)
      BY <2>2, <2>4, SetsAssumption DEF IsDiscovery, Configurable
    <2> QED BY <2>2, <2>3, <2>4, <2>5 DEF SpecsAfter
  <1>3. fresh' \subseteq fresh /\ specs \subseteq specs'
    BY DEF Close, SpecsAfter
  <1> QED BY <1>2, <1>3 DEF Keeps

\* Every step is a lease request's, or keeps the queue full and gives nothing out.
LEMMA SettledStep ==
  ASSUME Settled, IInv, wanted \in Configs, [Next]_vars
  PROVE  \/ \E K : LeaseStep(K) /\ UNCHANGED <<wanted, specs>>
         \/ Keeps /\ NothingGiven
  <1>0. TypeOK /\ RowsConsistent(queue) /\ \A j \in jobs : j.t \in Task /\ j \in Job
    BY DEF IInv, TypeOK, Job
  <1>1. CASE Tick
    <2>1. \A s \in Source : sinceLease[s] = Spacing => sinceLease'[s] = Spacing
      <3>1. Smaller(Spacing + 1, Spacing) = Spacing
        BY TimesAssumption DEF Smaller
      <3> QED BY <1>1, <3>1 DEF Tick
    <2>2. \A t \in Task : Present(queue[t]) => Present(queue'[t])
      BY <1>0, <1>1, TickRow DEF Present
    <2> QED BY <1>1, <2>1, <2>2, TickGives DEF Keeps, Tick
  <1>2. CASE Release
    BY <1>2 DEF Release, Settled
  <1>3. ASSUME NEW w \in Worker, Lease(w)
        PROVE  \E K : LeaseStep(K) /\ UNCHANGED <<wanted, specs>>
    BY <1>0, <1>3, LeaseShape DEF Lease
  <1>4. ASSUME NEW j \in jobs, Ingest(j) PROVE Keeps /\ NothingGiven
    <2>1. PICK r \in Results(j.t), heard \in BOOLEAN :
            /\ Close(r.q, j.t, MatchesTask(r.q, j), r.ok,
                     (jobs \ {j}) \cup IF heard \/ j.w \notin Phone THEN {}
                                       ELSE {[j EXCEPT !.step = "fail"]})
            /\ specs' = SpecsAfter(j.t, r.ok)
      BY <1>4 DEF Ingest
    <2>2. MatchesTask(r.q, j) \in BOOLEAN
      BY <1>0, <2>1, ResultsShape, MatchesPresent
    <2>3. UNCHANGED <<wanted, sinceLease>>
      BY <1>4 DEF Ingest
    <2>4. NothingGiven
      BY <1>0, <1>4, IngestStep, RequestGives
    <2> QED BY <1>0, <2>1, <2>2, <2>3, <2>4, IngestKeeps
  <1>5. ASSUME NEW t \in Task, IngestByUrl(t) PROVE Keeps /\ NothingGiven
    <2>1. PICK r \in Results(t) :
            Close(r.q, t, MatchesUrl(r.q, t), r.ok, jobs) /\ specs' = SpecsAfter(t, r.ok)
      BY <1>5 DEF IngestByUrl
    <2>2. MatchesUrl(r.q, t) \in BOOLEAN /\ UNCHANGED <<wanted, sinceLease>>
      BY <1>5 DEF IngestByUrl, MatchesUrl, Present
    <2>3. NothingGiven
      BY <1>0, <1>5, IngestByUrlStep, RequestGives
    <2> QED BY <2>1, <2>2, <2>3, IngestKeeps
  <1>6. ASSUME NEW j \in jobs, Fail(j) PROVE Keeps /\ NothingGiven
    <2>1. Close(queue, j.t, MatchesTask(queue, j), FALSE, jobs \ {j})
      BY <1>6 DEF Fail
    <2>2. \A r \in Row : CloseRow(r, FALSE).kind = r.kind
      BY DEF CloseRow, Row
    <2>3. \A t \in Task : queue'[t].kind = queue[t].kind
      BY <1>0, <2>1, <2>2 DEF Close, TypeOK
    <2>4. fresh' \subseteq fresh /\ UNCHANGED <<wanted, specs, sinceLease>>
      BY <1>6, <2>1 DEF Fail, Close
    <2>5. NothingGiven
      BY <1>0, <1>6, FailStep, RequestGives
    <2> QED BY <2>3, <2>4, <2>5 DEF Keeps, Present
  <1>7. CASE UNCHANGED <<wanted, queue, specs, sinceLease, fresh>>
    BY <1>7 DEF Keeps, NothingGiven
  <1> QED BY <1>1, <1>2, <1>3, <1>4, <1>5, <1>6, <1>7
          DEF Next, Fetched, IngestRejected, TimedOut, Drop, vars

LEMMA StartedStep == ASSUME Settled PROVE IInv /\ Started /\ [Next]_vars => Started'
  <1> SUFFICES ASSUME IInv, Started, [Next]_vars PROVE Started'
    OBVIOUS
  <1>1. ASSUME NEW K, LeaseStep(K), UNCHANGED <<wanted, specs>> PROVE Started'
    <2>1. AllIn' /\ (AllIn => \A t \in Task : Present(queue'[t]) => Present(queue[t]))
      BY <1>1, LeaseFills
    <2>2. ASSUME NEW t \in fresh' PROVE sinceLease'[SourceOf[t]] = Spacing
      <3>1. /\ t \in Task /\ Present(queue'[t]) /\ SourceOf[t] \notin Sources(K)
            /\ t \in fresh \/ ~Present(queue[t])
        BY <1>1, <2>2 DEF LeaseStep
      <3>2. SourceOf[t] \in Source /\ sinceLease'[SourceOf[t]] = sinceLease[SourceOf[t]]
        BY <1>1, <3>1, SetsAssumption DEF LeaseStep
      <3> QED BY <2>1, <3>1, <3>2 DEF Started
    <2>3. wanted' \in Configs
      BY <1>1 DEF Started
    <2> QED BY <2>1, <2>2, <2>3 DEF Started
  <1> QED BY <1>1, SettledStep, KeepsStarted DEF Started

LEMMA SettledPause ==
  ASSUME Settled PROVE IInv /\ Started /\ [Next]_vars => [PauseKept]_vars
  <1> SUFFICES ASSUME IInv, Started, [Next]_vars, ~UNCHANGED vars,
                      NEW t \in Task, Granted(t)
               PROVE  sinceLease[SourceOf[t]] >= Spacing
    BY DEF PauseKept
  <1>0. TypeOK /\ RowsConsistent(queue) /\ Spacing >= Spacing
    BY TimesAssumption DEF IInv
  <1>1. SourceOf[t] \in Source
    BY SetsAssumption
  <1>2. CASE Present(queue[t]) /\ t \notin fresh
    BY <1>2, SpacingStep
  <1>3. CASE t \in fresh
    BY <1>0, <1>3 DEF Started
  <1>4. CASE ~Present(queue[t])
    <2>1. ~NothingGiven
      BY <1>0, <1>4, NoRowLease DEF NothingGiven, Granted, RowsConsistent
    <2>2. PICK K : LeaseStep(K) /\ UNCHANGED <<wanted, specs>>
      BY <2>1, SettledStep DEF Started
    <2>3. Present(queue'[t])
      BY <2>2, NoRowLease DEF LeaseStep, RowsConsistent, Granted
    <2>4. ~AllIn
      BY <1>4, <2>2, <2>3, LeaseFills
    <2> QED BY <1>0, <1>1, <2>4 DEF Started
  <1> QED BY <1>2, <1>3, <1>4

\* While the configuration stays as it is and all cards fit into the queue, no
\* source is given out before its pause, whatever fails, is lost or is found.
THEOREM SettledSpacing == ASSUME Settled PROVE Spec => SpacingPromised
  <1>1. Init => Started
    BY DEF Init, Started
  <1>2. IInv /\ Started /\ [Next]_vars => Started'
    BY StartedStep
  <1>3. IInv /\ Started /\ [Next]_vars => [PauseKept]_vars
    BY SettledPause
  <1> QED BY <1>1, <1>2, <1>3, InitIInv, NextIInv, PTL DEF Spec, SpacingPromised, PauseKept

\* Hence the queue implements what it promises the shops, step by step.
THEOREM VisitsHolds == ASSUME Settled PROVE Spec => VisitsSpec
  BY SettledSpacing, SpacedVisits, PTL
=============================================================================
