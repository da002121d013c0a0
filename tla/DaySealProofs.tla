---------------------------- MODULE DaySealProofs ----------------------------
(***************************************************************************)
(* The seals of the days, for days of any length and any number of         *)
(* transactions and overlapping runs: the seals stay one chain in the      *)
(* order of the days, each is of the rows that its day has for ever, and   *)
(* the path of any leaf of a tree of any size verifies.                    *)
(***************************************************************************)
EXTENDS DaySeal, FiniteSetTheorems, SequenceTheorems, WellFoundedInduction, TLAPS

Step == {"idle", "read", "chain", "insert"}

Types ==
  /\ time \in 0..MaxTime
  /\ history \in Seq([id : Nat, item : STRING, seen : Nat])
  /\ \A i \in DOMAIN history : history[i].id = i /\ history[i].seen <= time
  /\ open \in [Tx -> SUBSET DOMAIN history]
  /\ DOMAIN run = Run
  /\ \A r \in Run : /\ DOMAIN run[r] = {"step", "days", "rows", "prev"}
                    /\ run[r].step \in Step /\ run[r].days \subseteq Day

\* A transaction is not open for longer than it may be.
Fresh == \A i \in DOMAIN history : Committed(history[i]) \/ time - history[i].seen <= MaxLag

\* The day has no rows, committed or not; all that it has are committed.
NoRow(d) == \A i \in DOMAIN history : DayOf(history[i].seen) # d
Whole(d) == \A i \in DOMAIN history : DayOf(history[i].seen) = d => Committed(history[i])

\* The days before d are sealed, or need not be.
ClearTo(d) == \A e \in Day : e < d => e \in DOMAIN seal \/ NoRow(e)

LinkBefore(d) ==
  LET before == {e \in DOMAIN seal : e < d}
  IN  IF before = {} THEN NoChain ELSE seal[Max(before)].chain

Chained ==
  \A d \in DOMAIN seal :
    /\ d \in Day /\ d < Today /\ ~NoRow(d) /\ ClearTo(d)
    /\ seal[d].prev = LinkBefore(d)

\* What a run has still to seal: nothing that it passes over is left out; and
\* the link that it read is the last one until its day is sealed by another.
RunSound(r) ==
  run[r].step # "idle" =>
    /\ run[r].days # {}
    /\ \A d \in run[r].days :
         /\ d < Today /\ ~NoRow(d)
         /\ \A e \in Day : e < d => e \in run[r].days \cup DOMAIN seal \/ NoRow(e)
    /\ run[r].step = "insert" /\ NextDay(run[r].days) \notin DOMAIN seal
         => run[r].prev = LastChain

\* A seal that was not made early is of the rows of its day, all of them.
RootSound(d) == Whole(d) /\ seal[d].root = Root(Leaves(DayRows(d)))

RowsSound(r) ==
  run[r].step \in {"chain", "insert"} /\ NextDay(run[r].days) \notin early
    => Whole(NextDay(run[r].days)) /\ run[r].rows = DayRows(NextDay(run[r].days))

IInv ==
  /\ Types /\ Fresh /\ Chained
  /\ \A r \in Run : RunSound(r) /\ RowsSound(r)
  /\ \A d \in DOMAIN seal \ early : RootSound(d)

-----------------------------------------------------------------------------
\* Numbers and days.

LEMMA MinIsLeast ==
  ASSUME NEW S, S \subseteq Nat, S # {}
  PROVE  Min(S) \in S /\ \A n \in S : Min(S) <= n
  <1>1. PICK m \in S : \A n \in S : ~(<<n, m>> \in OpToRel(<, Nat))
    BY NatLessThanWellFounded, WFMin
  <1>2. ASSUME NEW n \in S PROVE m <= n
    <2>1. n \in Nat /\ m \in Nat /\ <<n, m>> \notin {p \in Nat \X Nat : p[1] < p[2]}
      BY <1>1 DEF OpToRel
    <2>2. ~(n < m)
      BY <2>1
    <2> QED BY <2>1, <2>2
  <1>3. \E x \in S : \A n \in S : x <= n
    BY <1>2
  <1> QED BY <1>3 DEF Min

LEMMA MaxIsMost ==
  ASSUME NEW b \in Nat, NEW S, S \subseteq 0..b, S # {}
  PROVE  Max(S) \in S /\ \A n \in S : n <= Max(S)
  <1> DEFINE T == {b - n : n \in S}
  <1>1. T \subseteq Nat /\ T # {}
    <2>1. \A n \in S : n \in Int /\ b - n \in Nat
      OBVIOUS
    <2> QED BY <2>1
  <1>2. Min(T) \in T /\ \A n \in T : Min(T) <= n
    <2> HIDE DEF T
    <2> QED BY <1>1, MinIsLeast
  <1>3. PICK m \in S : Min(T) = b - m
    BY <1>2
  <1>4. \A n \in S : b - m <= b - n
    BY <1>2, <1>3
  <1>5. \A n \in S : n <= m
    BY <1>4
  <1> QED BY <1>5 DEF Max

\* When two moments are within a day's length, so are their days within one.
LEMMA Days ==
  ASSUME NEW s \in Nat, NEW t \in Nat, s <= t
  PROVE  /\ DayOf(s) \in Nat /\ DayOf(t) \in Nat /\ DayOf(s) <= DayOf(t)
         /\ t - s <= DayLength => DayOf(t) <= DayOf(s) + 1
  <1>0. DayLength \in Nat \ {0}
    BY SealAssumption
  <1>1. ASSUME NEW a \in Nat
        PROVE  /\ DayOf(a) \in Nat /\ DayLength * DayOf(a) <= a
               /\ a < DayLength * DayOf(a) + DayLength
    BY <1>0, Z3 DEF DayOf
  <1>2. ASSUME NEW p \in Nat, NEW q \in Nat, DayLength * p < DayLength * q + DayLength
        PROVE  p <= q
    <2> SUFFICES ASSUME p > q PROVE FALSE
      OBVIOUS
    <2>1. p = q + 1 + (p - q - 1) /\ p - q - 1 \in Nat
      OBVIOUS
    <2>2. DayLength * p = DayLength * q + DayLength + DayLength * (p - q - 1)
      BY <1>0, <2>1
    <2>3. DayLength * (p - q - 1) >= 0
      BY <1>0, <2>1
    <2> QED BY <1>0, <1>2, <2>2, <2>3
  <1>3. DayOf(s) <= DayOf(t)
    <2>1. DayLength * DayOf(s) < DayLength * DayOf(t) + DayLength
      BY <1>0, <1>1
    <2> QED BY <1>1, <1>2, <2>1
  <1>4. ASSUME t - s <= DayLength PROVE DayOf(t) <= DayOf(s) + 1
    <2>1. /\ DayLength * DayOf(t) <= t /\ s < DayLength * DayOf(s) + DayLength
          /\ DayLength * (DayOf(s) + 1) = DayLength * DayOf(s) + DayLength
      BY <1>0, <1>1
    <2>2. DayLength * DayOf(t) < DayLength * (DayOf(s) + 1) + DayLength
      BY <1>0, <1>1, <1>4, <2>1
    <2>3. DayOf(s) + 1 \in Nat /\ DayOf(t) \in Nat
      BY <1>1
    <2> HIDE DEF DayOf
    <2> QED BY <1>2, <2>2, <2>3
  <1> QED BY <1>1, <1>3, <1>4

LEMMA DayTypes ==
  ASSUME Types
  PROVE  /\ Today \in Nat /\ DayOf(MaxTime) \in Nat /\ Today <= DayOf(MaxTime)
         /\ Day \subseteq Nat /\ \A d \in Nat : d < Today => d \in Day
         /\ \A i \in DOMAIN history : /\ history[i].seen \in Nat
                                      /\ DayOf(history[i].seen) \in Day
                                      /\ DayOf(history[i].seen) <= Today
  <1>1. time \in Nat /\ MaxTime \in Nat /\ time <= MaxTime
    BY SealAssumption DEF Types
  <1>2. Today \in Nat /\ DayOf(MaxTime) \in Nat /\ Today <= DayOf(MaxTime)
    BY <1>1, Days DEF Today
  <1>3. ASSUME NEW i \in DOMAIN history
        PROVE  /\ history[i].seen \in Nat
               /\ DayOf(history[i].seen) \in Nat /\ DayOf(history[i].seen) <= Today
    <2> DEFINE Row == [id : Nat, item : STRING, seen : Nat]
    <2>0. history \in Seq(Row) /\ history[i].seen <= time
      BY <1>3 DEF Types
    <2>1. history[i] \in Row
      <3> HIDE DEF Row
      <3> QED BY <1>3, <2>0, ElementOfSeq, LenProperties
    <2>2. history[i].seen \in Nat
      BY <2>1
    <2> QED BY <1>1, <2>0, <2>2, Days DEF Today
  <1> QED BY <1>2, <1>3 DEF Day
-----------------------------------------------------------------------------
\* What every step keeps: types, and the rows of the days that are over.

Grown ==
  /\ time <= time' /\ DOMAIN history \subseteq DOMAIN history'
  /\ \A i \in DOMAIN history :
       history'[i] = history[i] /\ (Committed(history[i]) => Committed(history[i])')
  /\ \A i \in DOMAIN history' \ DOMAIN history : DayOf(history'[i].seen) = Today

Row == [id : Nat, item : STRING, seen : Nat]

LEMMA SeqOfLength ==
  ASSUME NEW S, NEW m \in Nat, NEW f \in [1..m -> S]
  PROVE  f \in Seq(S) /\ Len(f) = m
  <1>1. f \in Seq(S)
    BY SeqDef
  <1>2. Len(f) \in Nat /\ 1..Len(f) = 1..m
    BY <1>1, LenProperties
  <1>3. Len(f) = m
    <2> DEFINE l == Len(f)
    <2>1. l \in Nat /\ \A i \in Int : i \in 1..l <=> i \in 1..m
      BY <1>2
    <2> HIDE DEF l
    <2>2. l \in 1..l \/ l = 0
      BY <2>1
    <2>3. m \in 1..m \/ m = 0
      OBVIOUS
    <2>4. ~(l < m) /\ ~(m < l)
      BY <2>1, <2>2, <2>3
    <2>5. l = m
      BY <2>1, <2>4
    <2> QED BY <2>5 DEF l
  <1> QED BY <1>1, <1>3

LEMMA Appended ==
  ASSUME Types, NEW x \in Tx, NEW page \in Page, AppendPage(x, page)
  PROVE  LET n == Len(history)  m == Len(page) IN
         /\ n \in Nat /\ m \in Nat /\ DOMAIN history = 1..n /\ DOMAIN history' = 1..(n + m)
         /\ history' \in Seq(Row)
         /\ \A i \in 1..n : history'[i] = history[i]
         /\ \A i \in (n + 1)..(n + m) :
              history'[i] = [id |-> i, item |-> page[i - n], seen |-> time]
         /\ open[x] = {} /\ open' = [open EXCEPT ![x] = (n + 1)..(n + m)]
  <1> DEFINE n == Len(history)
             m == Len(page)
             new == [i \in 1..m |-> [id |-> n + i, item |-> page[i], seen |-> time]]
  <1>1. history \in Seq(Row) /\ page \in Seq(STRING) /\ time \in Nat
    BY SealAssumption DEF Types, Row
  <1>2. n \in Nat /\ m \in Nat /\ DOMAIN history = 1..n /\ DOMAIN page = 1..m
    BY <1>1, LenProperties
  <1>3. new \in Seq(Row) /\ Len(new) = m
    <2>1. \A i \in 1..m : page[i] \in STRING
      BY <1>1, <1>2, ElementOfSeq
    <2>2. \A i \in 1..m : [id |-> n + i, item |-> page[i], seen |-> time] \in Row
      BY <1>1, <1>2, <2>1 DEF Row
    <2>3. new \in [1..m -> Row]
      BY <2>2
    <2> HIDE DEF new
    <2> QED BY <1>2, <2>3, SeqOfLength
  <1>4. history' = history \o new
    BY <1>2 DEF AppendPage
  <1>5. /\ history' \in Seq(Row) /\ Len(history') = n + m
        /\ \A i \in 1..(n + m) : history'[i] = IF i <= n THEN history[i] ELSE new[i - n]
    <2>1. /\ history \o new \in Seq(Row) /\ Len(history \o new) = Len(history) + Len(new)
          /\ \A i \in 1..(Len(history) + Len(new)) :
               (history \o new)[i] = IF i <= Len(history) THEN history[i]
                                                        ELSE new[i - Len(history)]
      <3> HIDE DEF new, n
      <3> QED BY <1>1, <1>3, ConcatProperties
    <2> HIDE DEF new
    <2> QED BY <1>3, <1>4, <2>1
  <1>6. DOMAIN history' = 1..(n + m)
    BY <1>5, LenProperties
  <1>7. \A i \in 1..n : history'[i] = history[i]
    <2>1. \A i \in 1..n : i \in 1..(n + m) /\ i <= n
      BY <1>2
    <2> HIDE DEF n, m
    <2> QED BY <1>5, <2>1
  <1>8. ASSUME NEW i \in (n + 1)..(n + m)
        PROVE  history'[i] = [id |-> i, item |-> page[i - n], seen |-> time]
    <2>1. i \in 1..(n + m) /\ ~(i <= n) /\ i - n \in 1..m /\ n + (i - n) = i
      BY <1>2
    <2> QED BY <1>5, <2>1
  <1>9. {n + i : i \in DOMAIN page} = (n + 1)..(n + m)
    <2>1. ASSUME NEW k \in (n + 1)..(n + m) PROVE k \in {n + i : i \in DOMAIN page}
      <3>1. k - n \in 1..m /\ k = n + (k - n)
        BY <1>2
      <3> QED BY <1>2, <3>1
    <2> QED BY <1>2, <2>1
  <1>10. open[x] = {} /\ open' = [open EXCEPT ![x] = (n + 1)..(n + m)]
    BY <1>9 DEF AppendPage
  <1> HIDE DEF n, m
  <1>11. QED BY <1>2, <1>5, <1>6, <1>7, <1>8, <1>10 DEF n, m

LEMMA StepGrows ==
  ASSUME Types, [SealNext]_sealVars
  PROVE  Grown
  <1>1. CASE \E x \in Tx, page \in Page : AppendPage(x, page)
    <2>1. PICK x \in Tx, page \in Page : AppendPage(x, page)
      BY <1>1
    <2> DEFINE n == Len(history)
               m == Len(page)
    <2>2. /\ n \in Nat /\ m \in Nat /\ DOMAIN history = 1..n /\ DOMAIN history' = 1..(n + m)
          /\ \A i \in 1..n : history'[i] = history[i]
          /\ \A i \in (n + 1)..(n + m) :
               history'[i] = [id |-> i, item |-> page[i - n], seen |-> time]
          /\ open[x] = {} /\ open' = [open EXCEPT ![x] = (n + 1)..(n + m)]
      BY <2>1, Appended
    <2>3. time' = time /\ time \in Int
      BY <2>1 DEF AppendPage, Types
    <2> HIDE DEF n, m
    <2>4. ASSUME NEW i \in 1..n, Committed(history[i]) PROVE Committed(history[i])'
      <3>1. history[i].id = i /\ history'[i] = history[i]
        BY <2>2 DEF Types
      <3>2. ASSUME NEW y \in Tx PROVE i \notin open'[y]
        <4>1. open \in [Tx -> SUBSET DOMAIN history]
          BY DEF Types
        <4>2. CASE y = x
          <5>1. open'[y] = (n + 1)..(n + m)
            BY <2>2, <4>1, <4>2
          <5> QED BY <2>2, <5>1
        <4>3. CASE y # x
          BY <2>2, <2>4, <3>1, <4>1, <4>3 DEF Committed
        <4> QED BY <4>2, <4>3
      <3> QED BY <3>1, <3>2 DEF Committed
    <2>5. \A i \in DOMAIN history' \ DOMAIN history : DayOf(history'[i].seen) = Today
      <3> SUFFICES ASSUME NEW i \in DOMAIN history' \ DOMAIN history
                   PROVE  DayOf(history'[i].seen) = Today
        OBVIOUS
      <3>1. i \in (n + 1)..(n + m)
        BY <2>2
      <3>2. history'[i] = [id |-> i, item |-> page[i - n], seen |-> time]
        BY <2>2, <3>1
      <3>3. history'[i].seen = time
        BY <3>2
      <3> QED BY <3>3 DEF Today, DayOf
    <2>6. time <= time' /\ DOMAIN history \subseteq DOMAIN history'
      BY <2>2, <2>3
    <2> QED BY <2>2, <2>4, <2>5, <2>6 DEF Grown
  <1>2. CASE ~ \E x \in Tx, page \in Page : AppendPage(x, page)
    <2>1. history' = history
      BY <1>2 DEF SealNext, sealVars, SealTick, CommitPage, ListDays, ReadRows, ReadChain,
                  InsertSeal, StopRun
    <2>2. time \in Int /\ time <= time'
      <3>1. time \in Int
        BY DEF Types
      <3>2. time' = time \/ time' = time + 1
        BY <1>2 DEF SealNext, sealVars, SealTick, CommitPage, ListDays, ReadRows, ReadChain,
                    InsertSeal, StopRun
      <3> QED BY <3>1, <3>2
    <2>3. open' = open \/ \E x \in Tx : open' = [open EXCEPT ![x] = {}]
      BY <1>2 DEF SealNext, sealVars, SealTick, CommitPage, ListDays, ReadRows, ReadChain,
                  InsertSeal, StopRun
    <2>4. \A y \in Tx : open'[y] \subseteq open[y]
      <3>1. open \in [Tx -> SUBSET DOMAIN history]
        BY DEF Types
      <3> QED BY <2>3, <3>1
    <2> QED BY <2>1, <2>2, <2>4 DEF Grown, Committed
  <1> QED BY <1>1, <1>2
\* A step leaves the rows of a day that is over as they are, once it has them.
Steady(d) ==
  /\ NoRow(d) <=> NoRow(d)'
  /\ Whole(d) => Whole(d)' /\ RowsOf(d)' = RowsOf(d)

LEMMA StepSteady ==
  ASSUME Types, Types', Grown
  PROVE  Today <= Today' /\ \A d \in Day : d < Today => Steady(d)
  <1>1. Today <= Today'
    <2>1. time \in Nat /\ time' \in Nat /\ time <= time'
      BY DEF Types, Grown
    <2>2. DayOf(time) <= DayOf(time')
      BY <2>1, Days
    <2> QED BY <2>2 DEF Today
  <1>2. ASSUME NEW d \in Day, d < Today PROVE Steady(d)
    <2>0. Today \in Nat /\ d \in Nat
      BY DayTypes
    <2>1. /\ DOMAIN history \subseteq DOMAIN history'
          /\ \A i \in DOMAIN history :
               history'[i] = history[i] /\ (Committed(history[i]) => Committed(history[i])')
          /\ \A i \in DOMAIN history' \ DOMAIN history : DayOf(history'[i].seen) # d
      BY <1>2, <2>0 DEF Grown
    <2>2. NoRow(d) <=> NoRow(d)'
      <3>1. NoRow(d) => NoRow(d)'
        BY <2>1 DEF NoRow
      <3>2. NoRow(d)' => NoRow(d)
        BY <2>1 DEF NoRow
      <3> QED BY <3>1, <3>2
    <2>3. ASSUME Whole(d) PROVE Whole(d)' /\ RowsOf(d)' = RowsOf(d)
      <3>1. \A i \in DOMAIN history : DayOf(history[i].seen) = d =>
              Committed(history[i]) /\ Committed(history[i])'
        BY <2>1, <2>3 DEF Whole
      <3>2. Whole(d)'
        BY <2>1, <3>1 DEF Whole
      <3>3. RowsOf(d) = {history[i] : i \in {j \in DOMAIN history : DayOf(history[j].seen) = d}}
        BY <3>1 DEF RowsOf, Range
      <3>4. RowsOf(d)' = {history'[i] : i \in {j \in DOMAIN history' : DayOf(history'[j].seen) = d}}
        BY <3>2 DEF RowsOf, Range, Whole
      <3>5. {j \in DOMAIN history : DayOf(history[j].seen) = d}
              = {j \in DOMAIN history' : DayOf(history'[j].seen) = d}
        BY <2>1
      <3>6. \A i \in {j \in DOMAIN history : DayOf(history[j].seen) = d} : history'[i] = history[i]
        BY <2>1
      <3>7. RowsOf(d)' = RowsOf(d)
        BY <3>3, <3>4, <3>5, <3>6
      <3> QED BY <3>2, <3>7
    <2> QED BY <2>2, <2>3 DEF Steady
  <1> QED BY <1>1, <1>2

LEMMA StepTypes ==
  ASSUME IInv, [SealNext]_sealVars
  PROVE  Types'
  <1>1. Types
    BY DEF IInv
  <1>2. CASE \E x \in Tx, page \in Page : AppendPage(x, page)
    <2>1. PICK x \in Tx, page \in Page : AppendPage(x, page)
      BY <1>2
    <2> DEFINE n == Len(history)
               m == Len(page)
    <2>2. /\ n \in Nat /\ m \in Nat /\ DOMAIN history = 1..n /\ DOMAIN history' = 1..(n + m)
          /\ history' \in Seq(Row)
          /\ \A i \in 1..n : history'[i] = history[i]
          /\ \A i \in (n + 1)..(n + m) :
               history'[i] = [id |-> i, item |-> page[i - n], seen |-> time]
          /\ open[x] = {} /\ open' = [open EXCEPT ![x] = (n + 1)..(n + m)]
      BY <1>1, <2>1, Appended
    <2>3. time' = time /\ run' = run
      BY <2>1 DEF AppendPage
    <2> HIDE DEF n, m
    <2>4. open' \in [Tx -> SUBSET DOMAIN history']
      <3>1. open \in [Tx -> SUBSET (1..n)]
        BY <1>1, <2>2 DEF Types
      <3>2. 1..n \subseteq 1..(n + m) /\ (n + 1)..(n + m) \subseteq 1..(n + m)
        BY <2>2
      <3> QED BY <2>2, <3>1, <3>2
    <2>5. ASSUME NEW i \in DOMAIN history' PROVE history'[i].id = i /\ history'[i].seen <= time
      <3>1. CASE i \in 1..n
        BY <1>1, <2>2, <3>1 DEF Types
      <3>2. CASE i \in (n + 1)..(n + m)
        <4>1. history'[i] = [id |-> i, item |-> page[i - n], seen |-> time]
          BY <2>2, <3>2
        <4>2. time \in Int
          BY <1>1 DEF Types
        <4>3. time <= time
          BY <4>2
        <4> QED BY <4>1, <4>3
      <3> QED BY <2>2, <3>1, <3>2
    <2> QED BY <1>1, <2>2, <2>3, <2>4, <2>5 DEF Types, Row
  <1>3. CASE ~ \E x \in Tx, page \in Page : AppendPage(x, page)
    <2>1. history' = history
      BY <1>3 DEF SealNext, sealVars, SealTick, CommitPage, ListDays, ReadRows, ReadChain,
                  InsertSeal, StopRun
    <2>2. time' \in 0..MaxTime /\ \A i \in DOMAIN history : history[i].seen <= time'
      <3>1. CASE SealTick
        <4>1. /\ time \in Nat /\ time' = time + 1 /\ MaxTime \in Nat /\ time < MaxTime
              /\ \A i \in DOMAIN history : history[i].seen <= time /\ history[i].seen \in Nat
          BY <1>1, <3>1, SealAssumption, DayTypes DEF SealTick, Types
        <4> QED BY <4>1
      <3>2. CASE ~SealTick
        <4>1. time' = time
          BY <1>3, <3>2 DEF SealNext, sealVars, SealTick, CommitPage, ListDays, ReadRows,
                            ReadChain, InsertSeal, StopRun
        <4> QED BY <1>1, <4>1 DEF Types
      <3> QED BY <3>1, <3>2
    <2>3. open' \in [Tx -> SUBSET DOMAIN history]
      <3>1. open' = open \/ \E x \in Tx : open' = [open EXCEPT ![x] = {}]
        BY <1>3 DEF SealNext, sealVars, SealTick, CommitPage, ListDays, ReadRows, ReadChain,
                    InsertSeal, StopRun
      <3> QED BY <1>1, <3>1 DEF Types
    <2>4. /\ DOMAIN run' = Run
          /\ \A r \in Run : /\ DOMAIN run'[r] = {"step", "days", "rows", "prev"}
                            /\ run'[r].step \in Step /\ run'[r].days \subseteq Day
      <3>1. CASE run' = run
        BY <1>1, <3>1 DEF Types
      <3>2. ASSUME NEW r \in Run,
                   ListDays(r) \/ ReadRows(r) \/ ReadChain(r) \/ InsertSeal(r) \/ StopRun(r)
            PROVE  /\ run' = [run EXCEPT ![r] = run'[r]]
                   /\ DOMAIN run'[r] = {"step", "days", "rows", "prev"}
                   /\ run'[r].step \in Step /\ run'[r].days \subseteq Day
        <4>0. DOMAIN run = Run /\ DOMAIN run[r] = {"step", "days", "rows", "prev"}
              /\ run[r].days \subseteq Day
          BY <1>1 DEF Types
        <4>1. CASE ListDays(r)
          BY <4>0, <4>1 DEF ListDays, NoRun, Unsealed, Step
        <4>2. CASE ReadRows(r)
          <5>1. run' = [run EXCEPT ![r] = [run[r] EXCEPT !.step = "chain",
                                                         !.rows = DayRows(NextDay(run[r].days))]]
            BY <4>0, <4>2 DEF ReadRows
          <5> QED BY <4>0, <5>1 DEF Step
        <4>3. CASE ReadChain(r)
          <5>1. run' = [run EXCEPT ![r] = [run[r] EXCEPT !.step = "insert", !.prev = LastChain]]
            BY <4>0, <4>3 DEF ReadChain
          <5> QED BY <4>0, <5>1 DEF Step
        <4>4. CASE InsertSeal(r)
          <5> DEFINE rest == run[r].days \ {NextDay(run[r].days)}
          <5>1. rest \subseteq Day
            BY <4>0
          <5>2. run' = [run EXCEPT ![r] = IF rest = {} THEN NoRun
                                          ELSE [NoRun EXCEPT !.step = "read", !.days = rest]]
            BY <4>4 DEF InsertSeal
          <5> HIDE DEF rest
          <5> QED BY <4>0, <5>1, <5>2 DEF Step, NoRun
        <4>5. CASE StopRun(r)
          BY <4>0, <4>5 DEF StopRun, NoRun, Step
        <4> QED BY <3>2, <4>1, <4>2, <4>3, <4>4, <4>5
      <3>3. CASE \E r \in Run : ListDays(r) \/ ReadRows(r) \/ ReadChain(r) \/ InsertSeal(r) \/ StopRun(r)
        BY <1>1, <3>2, <3>3 DEF Types
      <3>4. CASE SealTick \/ (\E x \in Tx : CommitPage(x)) \/ UNCHANGED sealVars
        BY <3>1, <3>4 DEF SealTick, CommitPage, sealVars
      <3> QED BY <1>3, <3>3, <3>4 DEF SealNext
    <2> QED BY <1>1, <2>1, <2>2, <2>3, <2>4 DEF Types
  <1> QED BY <1>2, <1>3

LEMMA StepFresh ==
  ASSUME IInv, Types', [SealNext]_sealVars
  PROVE  Fresh'
  <1> SUFFICES ASSUME NEW i \in DOMAIN history', ~Committed(history[i])'
               PROVE  time' - history'[i].seen <= MaxLag
    BY DEF Fresh
  <1>1. Types /\ Fresh /\ Grown
    BY StepGrows DEF IInv
  <1>2. time \in Nat /\ time' \in Nat /\ MaxLag \in Nat
    BY <1>1, SealAssumption DEF Types
  <1>3. CASE i \in DOMAIN history
    <2>1. /\ history'[i] = history[i] /\ ~Committed(history[i])
          /\ time - history[i].seen <= MaxLag /\ history[i] \in Range(history)
      BY <1>1, <1>3 DEF Grown, Fresh, Range
    <2>2. CASE SealTick
      <3>1. time + 1 - history[i].seen <= MaxLag /\ time' = time + 1
        BY <2>1, <2>2 DEF SealTick
      <3>2. history[i].seen \in Nat
        BY <1>1, <1>3, DayTypes
      <3> QED BY <1>2, <2>1, <3>1, <3>2
    <2>3. CASE ~SealTick
      <3>1. time' = time
        BY <2>3 DEF SealNext, sealVars, CommitPage, AppendPage, ListDays, ReadRows, ReadChain,
                    InsertSeal, StopRun
      <3> QED BY <2>1, <3>1
    <2> QED BY <2>2, <2>3
  <1>4. CASE i \notin DOMAIN history
    <2>1. PICK x \in Tx, page \in Page : AppendPage(x, page)
      BY <1>4 DEF SealNext, sealVars, SealTick, CommitPage, ListDays, ReadRows, ReadChain,
                  InsertSeal, StopRun
    <2> DEFINE n == Len(history)
               m == Len(page)
    <2>2. /\ n \in Nat /\ m \in Nat /\ DOMAIN history = 1..n /\ DOMAIN history' = 1..(n + m)
          /\ \A j \in (n + 1)..(n + m) :
               history'[j] = [id |-> j, item |-> page[j - n], seen |-> time]
      BY <1>1, <2>1, Appended
    <2>3. time' = time
      BY <2>1 DEF AppendPage
    <2> HIDE DEF n, m
    <2>4. i \in (n + 1)..(n + m)
      BY <1>4, <2>2
    <2>5. history'[i] = [id |-> i, item |-> page[i - n], seen |-> time]
      BY <2>2, <2>4
    <2> QED BY <1>2, <2>3, <2>5
  <1> QED BY <1>3, <1>4
-----------------------------------------------------------------------------
\* What a step does not touch stays sound.

Stays == Types /\ Types' /\ Grown /\ early \subseteq early'

LEMMA Turn ==
  ASSUME Types, NEW r \in Run, run[r].days # {}
  PROVE  /\ NextDay(run[r].days) \in run[r].days /\ NextDay(run[r].days) \in Nat
         /\ \A d \in run[r].days : NextDay(run[r].days) <= d
  <1>1. run[r].days \subseteq Nat
    BY DayTypes DEF Types
  <1>2. Min(run[r].days) \in run[r].days /\ \A d \in run[r].days : Min(run[r].days) <= d
    BY <1>1, MinIsLeast
  <1> QED BY <1>1, <1>2 DEF NextDay

LEMMA TodayIsNat == Types => Today \in Nat
  BY DayTypes

LEMMA Grows ==
  ASSUME Stays
  PROVE  /\ Today \in Nat /\ Today' \in Nat /\ Today <= Today' /\ Day \subseteq Nat
         /\ \A d \in Day : d < Today => d < Today' /\ Steady(d)
  <1>1. Today' \in Nat
    <2>1. time' \in Nat
      BY DEF Stays, Types
    <2> QED BY <2>1, Days DEF Today
  <1>2. Today \in Nat /\ Today' \in Nat /\ Today <= Today' /\ Day \subseteq Nat
    BY <1>1, TodayIsNat, DayTypes, StepSteady DEF Stays
  <1>3. ASSUME NEW d \in Day, d < Today PROVE d < Today'
    <2>1. d \in Nat
      BY <1>2
    <2> QED BY <1>2, <1>3, <2>1
  <1> QED BY <1>2, <1>3, StepSteady DEF Stays

LEMMA SealsStay ==
  ASSUME Stays, Chained, seal' = seal
  PROVE  Chained'
  <1>1. /\ Today \in Nat /\ Day \subseteq Nat
        /\ \A d \in Day : d < Today => d < Today' /\ Steady(d)
    BY Grows
  <1>2. ASSUME NEW d \in DOMAIN seal
        PROVE  d \in Day /\ d < Today' /\ ~NoRow(d)' /\ ClearTo(d)' /\ seal'[d].prev = LinkBefore(d)'
    <2>1. d \in Day /\ d < Today /\ ~NoRow(d) /\ ClearTo(d) /\ seal[d].prev = LinkBefore(d)
      BY DEF Chained
    <2>2. d < Today' /\ ~NoRow(d)'
      BY <1>1, <2>1 DEF Steady
    <2>3. ASSUME NEW e \in Day, e < d PROVE e \in DOMAIN seal' \/ NoRow(e)'
      <3>1. e \in Nat /\ d \in Nat /\ Today \in Nat /\ e < d /\ d < Today
        BY <1>1, <2>1, <2>3
      <3>2. e < Today
        BY <3>1
      <3> QED BY <1>1, <2>1, <2>3, <3>2 DEF ClearTo, Steady
    <2>4. ClearTo(d)'
      BY <2>3 DEF ClearTo
    <2>5. LinkBefore(d)' = LinkBefore(d)
      BY DEF LinkBefore
    <2> QED BY <2>1, <2>2, <2>4, <2>5
  <1> QED BY <1>2 DEF Chained

LEMMA RunStays ==
  ASSUME Stays, NEW r \in Run, RunSound(r), run'[r] = run[r], seal' = seal
  PROVE  RunSound(r)'
  <1>1. /\ Today \in Nat /\ Day \subseteq Nat
        /\ \A d \in Day : d < Today => d < Today' /\ Steady(d)
    BY Grows
  <1> SUFFICES ASSUME run[r].step # "idle" PROVE RunSound(r)'
    BY DEF RunSound
  <1>2. ASSUME NEW d \in run[r].days
        PROVE  /\ d < Today' /\ ~NoRow(d)'
               /\ \A e \in Day : e < d => e \in run[r].days \cup DOMAIN seal \/ NoRow(e)'
    <2>1. /\ d \in Day /\ d < Today /\ ~NoRow(d)
          /\ \A e \in Day : e < d => e \in run[r].days \cup DOMAIN seal \/ NoRow(e)
      BY DEF RunSound, Stays, Types
    <2>2. d < Today' /\ ~NoRow(d)'
      BY <1>1, <2>1 DEF Steady
    <2>3. ASSUME NEW e \in Day, e < d, NoRow(e) PROVE NoRow(e)'
      <3>1. e < Today
        BY <1>1, <2>1, <2>3
      <3> QED BY <1>1, <2>3, <3>1 DEF Steady
    <2> QED BY <2>1, <2>2, <2>3
  <1>3. LastChain' = LastChain
    BY DEF LastChain
  <1>4. run[r].days # {}
        /\ (run[r].step = "insert" /\ NextDay(run[r].days) \notin DOMAIN seal => run[r].prev = LastChain)
    BY DEF RunSound
  <1> QED BY <1>2, <1>3, <1>4 DEF RunSound

LEMMA RowsStay ==
  ASSUME Stays, NEW r \in Run, RunSound(r), RowsSound(r), run'[r] = run[r]
  PROVE  RowsSound(r)'
  <1>0. PICK d : d = NextDay(run[r].days)
    OBVIOUS
  <1> SUFFICES ASSUME run[r].step \in {"chain", "insert"}, d \notin early'
               PROVE  Whole(d)' /\ run[r].rows = DayRows(d)'
    BY <1>0 DEF RowsSound
  <1>1. Whole(d) /\ run[r].rows = DayRows(d)
    BY <1>0 DEF RowsSound, Stays
  <1>2. d \in Day /\ d < Today
    <2>1. run[r].days # {} /\ \A e \in run[r].days : e < Today
      BY DEF RunSound
    <2>2. d \in run[r].days
      BY <1>0, <2>1, Turn DEF Stays
    <2> QED BY <2>1, <2>2 DEF Stays, Types
  <1>3. Steady(d)
    BY <1>2, StepSteady DEF Stays
  <1> QED BY <1>1, <1>3 DEF Steady, DayRows

LEMMA RootStays ==
  ASSUME Stays, Chained, NEW d \in DOMAIN seal, RootSound(d), d \in DOMAIN seal', seal'[d] = seal[d]
  PROVE  RootSound(d)'
  <1>1. d \in Day /\ d < Today
    BY DEF Chained
  <1>2. Steady(d)
    BY <1>1, StepSteady DEF Stays
  <1>3. DayRows(d)' = DayRows(d) /\ Whole(d)'
    BY <1>2 DEF Steady, RootSound, DayRows
  <1> QED BY <1>3 DEF RootSound

-----------------------------------------------------------------------------
\* Each step of a run.

\* No transaction of the day before yesterday is open.
LEMMA ListDaysSound ==
  ASSUME IInv, NEW r \in Run, ListDays(r)
  PROVE  RunSound(r)'
  <1>1. /\ run' = [run EXCEPT ![r] = [NoRun EXCEPT !.step = "read", !.days = Unsealed]]
        /\ Unsealed # {} /\ UNCHANGED <<time, history, open, seal>> /\ DOMAIN run = Run
    BY DEF ListDays, IInv, Types
  <1>2. run'[r].step = "read" /\ run'[r].days = Unsealed
    BY <1>1 DEF NoRun
  <1>3. Today \in Nat /\ Day \subseteq Nat /\ Types /\ Fresh
    BY DayTypes DEF IInv
  <1>4. ASSUME NEW d \in Unsealed PROVE d \in Day /\ d < Today /\ ~NoRow(d)
    BY DEF Unsealed, NoRow, RowsOf, Range
  <1>5. ASSUME NEW d \in Unsealed, NEW e \in Day, e < d
        PROVE  e \in Unsealed \cup DOMAIN seal \/ NoRow(e)
    <2> SUFFICES ASSUME e \notin Unsealed, e \notin DOMAIN seal PROVE NoRow(e)
      OBVIOUS
    <2>1. e \in Nat /\ d \in Nat /\ e + 1 < Today
      <3>1. e \in Nat /\ d \in Nat /\ Today \in Nat /\ e < d /\ d < Today
        BY <1>3, <1>4, <1>5
      <3> QED BY <3>1
    <2>2. RowsOf(e) = {}
      BY <1>3, <2>1 DEF Unsealed
    <2> SUFFICES ASSUME NEW i \in DOMAIN history, DayOf(history[i].seen) = e PROVE FALSE
      BY DEF NoRow
    <2>3. ~Committed(history[i])
      BY <2>2 DEF RowsOf, Range
    <2>4. time - history[i].seen <= MaxLag /\ history[i].seen \in Nat /\ history[i].seen <= time
      BY <1>3, <2>3, DayTypes DEF Fresh, Types
    <2>5. time - history[i].seen <= DayLength /\ time \in Nat
      BY <1>3, <2>4, SealAssumption DEF Types
    <2>6. DayOf(time) <= DayOf(history[i].seen) + 1
      BY <2>4, <2>5, Days
    <2> QED BY <1>3, <2>1, <2>6 DEF Today
  <1>6. /\ Today' = Today /\ DOMAIN seal' = DOMAIN seal
        /\ \A e \in Day : NoRow(e)' <=> NoRow(e)
    BY <1>1 DEF NoRow, Today
  <1>7. \A d \in Unsealed : /\ d < Today' /\ ~NoRow(d)'
                            /\ \A e \in Day : e < d => e \in Unsealed \cup DOMAIN seal' \/ NoRow(e)'
    BY <1>4, <1>5, <1>6
  <1> QED BY <1>1, <1>2, <1>7 DEF RunSound

LEMMA SameRows ==
  ASSUME UNCHANGED <<history, open>>, NEW d
  PROVE  (Whole(d)' <=> Whole(d)) /\ DayRows(d)' = DayRows(d)
  <1>1. Whole(d)' <=> Whole(d)
    BY DEF Whole, Committed
  <1>2. RowsOf(d)' = RowsOf(d)
    BY DEF RowsOf, Committed
  <1> QED BY <1>1, <1>2 DEF DayRows

LEMMA ReadRowsSound ==
  ASSUME IInv, NEW r \in Run, ReadRows(r)
  PROVE  RunSound(r)' /\ RowsSound(r)' /\ early \subseteq early'
  <1>0. PICK d : d = NextDay(run[r].days)
    OBVIOUS
  <1> DEFINE new == [run[r] EXCEPT !.step = "chain", !.rows = DayRows(d)]
  <1>1. /\ run[r].step = "read" /\ run' = [run EXCEPT ![r] = new]
        /\ early' = IF \E row \in Range(history) : DayOf(row.seen) = d /\ ~Committed(row)
                      THEN early \cup {d} ELSE early
        /\ UNCHANGED <<time, history, open, seal>>
    BY <1>0 DEF ReadRows, IInv, Types
  <1>2. DOMAIN run = Run /\ DOMAIN run[r] = {"step", "days", "rows", "prev"} /\ RunSound(r)
    BY DEF IInv, Types
  <1>3. /\ run'[r].step = "chain" /\ run'[r].rows = DayRows(d) /\ run'[r].days = run[r].days
    BY <1>1, <1>2
  <1>4. early \subseteq early'
    BY <1>1
  <1>5. RunSound(r)'
    <2>1. /\ Today' = Today /\ \A e \in Day : NoRow(e)' <=> NoRow(e)
      BY <1>1 DEF NoRow, Today
    <2>2. /\ run[r].days # {} /\ run[r].days \subseteq Day
          /\ \A e \in run[r].days : /\ e < Today /\ ~NoRow(e)
               /\ \A f \in Day : f < e => f \in run[r].days \cup DOMAIN seal \/ NoRow(f)
      BY <1>1, <1>2 DEF RunSound, IInv, Types
    <2>3. \A e \in run[r].days : /\ e < Today' /\ ~NoRow(e)'
               /\ \A f \in Day : f < e => f \in run[r].days \cup DOMAIN seal' \/ NoRow(f)'
      BY <1>1, <2>1, <2>2
    <2> QED BY <1>3, <2>2, <2>3 DEF RunSound
  <1>6. RowsSound(r)'
    <2> SUFFICES ASSUME d \notin early' PROVE Whole(d)' /\ DayRows(d) = DayRows(d)'
      BY <1>0, <1>3 DEF RowsSound
    <2>1. Whole(d)
      BY <1>1 DEF Whole, Range
    <2> QED BY <1>1, <2>1, SameRows
  <1> QED BY <1>4, <1>5, <1>6

LEMMA ReadChainSound ==
  ASSUME IInv, NEW r \in Run, ReadChain(r)
  PROVE  RunSound(r)' /\ RowsSound(r)'
  <1>0. PICK d : d = NextDay(run[r].days)
    OBVIOUS
  <1> DEFINE new == [run[r] EXCEPT !.step = "insert", !.prev = LastChain]
  <1>1. /\ run[r].step = "chain" /\ run' = [run EXCEPT ![r] = new]
        /\ UNCHANGED <<time, history, open, seal, early>>
    BY DEF ReadChain, IInv, Types
  <1>2. /\ DOMAIN run = Run /\ DOMAIN run[r] = {"step", "days", "rows", "prev"}
        /\ RunSound(r) /\ RowsSound(r)
    BY DEF IInv, Types
  <1>3. /\ run'[r].step = "insert" /\ run'[r].rows = run[r].rows /\ run'[r].days = run[r].days
        /\ run'[r].prev = LastChain
    BY <1>1, <1>2
  <1>4. RunSound(r)'
    <2>1. /\ Today' = Today /\ \A e \in Day : NoRow(e)' <=> NoRow(e)
      BY <1>1 DEF NoRow, Today
    <2>2. /\ run[r].days # {} /\ run[r].days \subseteq Day
          /\ \A e \in run[r].days : /\ e < Today /\ ~NoRow(e)
               /\ \A f \in Day : f < e => f \in run[r].days \cup DOMAIN seal \/ NoRow(f)
      BY <1>1, <1>2 DEF RunSound, IInv, Types
    <2>3. \A e \in run[r].days : /\ e < Today' /\ ~NoRow(e)'
               /\ \A f \in Day : f < e => f \in run[r].days \cup DOMAIN seal' \/ NoRow(f)'
      BY <1>1, <2>1, <2>2
    <2>4. LastChain' = LastChain
      BY <1>1 DEF LastChain
    <2> QED BY <1>3, <2>2, <2>3, <2>4 DEF RunSound
  <1>5. RowsSound(r)'
    <2> SUFFICES ASSUME d \notin early PROVE Whole(d)' /\ run[r].rows = DayRows(d)'
      BY <1>0, <1>1, <1>3 DEF RowsSound
    <2>1. Whole(d) /\ run[r].rows = DayRows(d)
      BY <1>0, <1>1, <1>2 DEF RowsSound
    <2> QED BY <1>1, <2>1, SameRows
  <1> QED BY <1>4, <1>5
\* The day that is sealed is later than all that are, and the ones before it need
\* no seal any more.
LEMMA InsertBehind ==
  ASSUME IInv, NEW r \in Run, InsertSeal(r), NEW d, d = NextDay(run[r].days)
  PROVE  /\ d \in run[r].days /\ d \in Day /\ d \in Nat /\ \A e \in run[r].days : d <= e
         /\ d < Today /\ ~NoRow(d) /\ run[r].prev = LastChain
         /\ \A e \in Day : e < d => e \in DOMAIN seal \/ NoRow(e)
         /\ \A e \in DOMAIN seal : e \in Day /\ e < d
  <1>1. run[r].step = "insert" /\ d \notin DOMAIN seal
    BY DEF InsertSeal
  <1>2. /\ Types /\ Chained /\ \A q \in Run : RunSound(q) /\ RowsSound(q)
        /\ DOMAIN run = Run /\ \A q \in Run : run[q].days \subseteq Day
        /\ Day \subseteq Nat /\ Today \in Nat
    BY DayTypes DEF IInv, Types
  <1>3. /\ d \in run[r].days /\ d \in Day /\ d \in Nat /\ \A e \in run[r].days : d <= e
        /\ d < Today /\ ~NoRow(d) /\ run[r].prev = LastChain
        /\ \A e \in Day : e < d => e \in DOMAIN seal \/ NoRow(e)
    <2>1. /\ run[r].days # {} /\ run[r].prev = LastChain
          /\ \A e \in run[r].days : /\ e < Today /\ ~NoRow(e)
               /\ \A f \in Day : f < e => f \in run[r].days \cup DOMAIN seal \/ NoRow(f)
      BY <1>1, <1>2 DEF RunSound
    <2>2. d \in run[r].days /\ d \in Nat /\ \A e \in run[r].days : d <= e
      BY <1>2, <2>1, Turn
    <2>3. ASSUME NEW e \in Day, e < d PROVE e \notin run[r].days
      <3>1. e \in Nat /\ d \in Nat
        BY <1>2, <2>2
      <3> QED BY <2>2, <2>3, <3>1
    <2> QED BY <1>2, <2>1, <2>2, <2>3
  <1>4. ASSUME NEW e \in DOMAIN seal PROVE e \in Day /\ e < d
    <2>1. e \in Day /\ ClearTo(e) /\ e \in Nat
      BY <1>2 DEF Chained
    <2>2. e # d
      BY <1>1
    <2>3. ~(d < e)
      <3>1. d \in Day /\ ~NoRow(d)
        BY <1>3
      <3>2. d \notin DOMAIN seal
        BY <1>1
      <3> QED BY <2>1, <3>1, <3>2 DEF ClearTo
    <2> QED BY <1>3, <2>1, <2>2, <2>3
  <1> QED BY <1>3, <1>4

\* Nothing else was about to seal another.
LEMMA InsertSealSound ==
  ASSUME IInv, NEW r \in Run, InsertSeal(r)
  PROVE  /\ Chained' /\ \A q \in Run : RunSound(q)' /\ RowsSound(q)'
         /\ \A e \in DOMAIN seal' \ early' : RootSound(e)'
  <1>0. PICK d : d = NextDay(run[r].days)
    OBVIOUS
  <1> DEFINE rest == run[r].days \ {d}
             root == Root(Leaves(run[r].rows))
             link == [rows |-> Len(run[r].rows), root |-> root, prev |-> run[r].prev,
                      chain |-> Chain(run[r].prev, root)]
  <1>1. /\ run[r].step = "insert" /\ d \notin DOMAIN seal
        /\ seal' = [e \in DOMAIN seal \cup {d} |-> IF e = d THEN link ELSE seal[e]]
        /\ run' = [run EXCEPT ![r] = IF rest = {} THEN NoRun
                                       ELSE [NoRun EXCEPT !.step = "read", !.days = rest]]
        /\ UNCHANGED <<time, history, open, early>>
    BY <1>0 DEF InsertSeal
  <1>2. /\ DOMAIN seal' = DOMAIN seal \cup {d} /\ \A e \in DOMAIN seal : seal'[e] = seal[e]
        /\ seal'[d] = link /\ seal'[d].prev = run[r].prev /\ seal'[d].root = root
    BY <1>1
  <1>3. /\ Types /\ Chained /\ \A q \in Run : RunSound(q) /\ RowsSound(q)
        /\ \A e \in DOMAIN seal \ early : RootSound(e)
        /\ DOMAIN run = Run /\ \A q \in Run : run[q].days \subseteq Day
        /\ Day \subseteq Nat /\ Today \in Nat
    BY DayTypes DEF IInv, Types
  <1>4. /\ d \in run[r].days /\ d \in Day /\ d \in Nat /\ \A e \in run[r].days : d <= e
        /\ d < Today /\ ~NoRow(d) /\ run[r].prev = LastChain
        /\ \A e \in Day : e < d => e \in DOMAIN seal \/ NoRow(e)
    BY <1>0, InsertBehind
  <1>5. \A e \in DOMAIN seal : e \in Day /\ e < d
    BY <1>0, InsertBehind
  <1>6. Today' = Today /\ \A e : NoRow(e)' <=> NoRow(e)
    <2>1. ASSUME NEW e PROVE NoRow(e)' <=> NoRow(e)
      BY <1>1 DEF NoRow
    <2> QED BY <1>1, <2>1 DEF Today
  <1>7. Chained'
    <2>1. ASSUME NEW e \in DOMAIN seal
          PROVE  /\ e \in Day /\ e < Today' /\ ~NoRow(e)' /\ ClearTo(e)'
                 /\ seal'[e].prev = LinkBefore(e)'
      <3>1. e \in Day /\ e < Today /\ ~NoRow(e) /\ ClearTo(e) /\ seal[e].prev = LinkBefore(e)
        BY <1>3 DEF Chained
      <3>2. {f \in DOMAIN seal' : f < e} = {f \in DOMAIN seal : f < e}
        <4>1. e \in Nat /\ d \in Nat /\ e < d
          BY <1>3, <1>4, <1>5
        <4>2. ~(d < e)
          BY <4>1
        <4> QED BY <1>2, <4>2
      <3>3. LinkBefore(e)' = LinkBefore(e)
        <4> DEFINE before == {f \in DOMAIN seal : f < e}
        <4>1. CASE before = {}
          BY <3>2, <4>1 DEF LinkBefore
        <4>2. CASE before # {}
          <5>1. before \subseteq 0..DayOf(MaxTime) /\ DayOf(MaxTime) \in Nat
            BY <1>3, <1>5, DayTypes DEF Day
          <5>2. Max(before) \in before
            <6> HIDE DEF before
            <6> QED BY <4>2, <5>1, MaxIsMost
          <5>3. seal'[Max(before)] = seal[Max(before)]
            BY <1>2, <5>2
          <5> QED BY <3>2, <4>2, <5>3 DEF LinkBefore
        <4> QED BY <4>1, <4>2
      <3>4. ClearTo(e)'
        BY <1>2, <1>6, <3>1 DEF ClearTo
      <3> QED BY <1>2, <1>6, <3>1, <3>3, <3>4
    <2>2. ClearTo(d)'
      BY <1>2, <1>4, <1>6 DEF ClearTo
    <2>3. LinkBefore(d)' = LastChain
      <3>1. {f \in DOMAIN seal' : f < d} = DOMAIN seal
        <4>1. ~(d < d)
          BY <1>4
        <4> QED BY <1>2, <1>5, <4>1
      <3>2. CASE DOMAIN seal = {}
        BY <3>1, <3>2 DEF LinkBefore, LastChain
      <3>3. CASE DOMAIN seal # {}
        <4>1. DOMAIN seal \subseteq 0..DayOf(MaxTime) /\ DayOf(MaxTime) \in Nat
          BY <1>3, <1>5, DayTypes DEF Day
        <4>2. Max(DOMAIN seal) \in DOMAIN seal
          BY <3>3, <4>1, MaxIsMost
        <4>3. seal'[Max(DOMAIN seal)] = seal[Max(DOMAIN seal)]
          BY <1>2, <4>2
        <4> QED BY <3>1, <3>3, <4>3 DEF LinkBefore, LastChain
      <3> QED BY <3>2, <3>3
    <2>4. d \in Day /\ d < Today' /\ ~NoRow(d)' /\ seal'[d].prev = LinkBefore(d)'
      BY <1>2, <1>4, <1>6, <2>3
    <2>5. \A e \in DOMAIN seal \cup {d} :
            /\ e \in Day /\ e < Today' /\ ~NoRow(e)' /\ ClearTo(e)'
            /\ seal'[e].prev = LinkBefore(e)'
      BY <2>1, <2>2, <2>4
    <2> HIDE DEF link
    <2> QED BY <1>2, <2>5 DEF Chained
  <1>8. /\ run'[r].step \in {"idle", "read"}
        /\ run'[r].step = "read" => run'[r].days = rest /\ rest # {}
    <2> HIDE DEF rest
    <2> QED BY <1>1, <1>3 DEF NoRun
  <1>9. ASSUME NEW q \in Run PROVE RunSound(q)' /\ RowsSound(q)'
    <2>0. RunSound(q) /\ RowsSound(q)
      BY <1>3
    <2>1. CASE q = r
      <3>1. RowsSound(q)'
        BY <1>8, <2>1 DEF RowsSound
      <3>2. CASE run'[r].step = "idle"
        BY <2>1, <3>1, <3>2 DEF RunSound
      <3>3. CASE run'[r].step = "read"
        <4>1. run'[r].days = rest /\ rest # {} /\ run'[r].step # "insert"
          BY <1>8, <3>3
        <4>2. ASSUME NEW e \in rest
              PROVE  /\ e < Today' /\ ~NoRow(e)'
                     /\ \A f \in Day : f < e => f \in rest \cup DOMAIN seal' \/ NoRow(f)'
          <5>1. /\ e < Today /\ ~NoRow(e)
                /\ \A f \in Day : f < e => f \in run[r].days \cup DOMAIN seal \/ NoRow(f)
            BY <1>1, <2>0, <2>1 DEF RunSound
          <5>2. run[r].days \cup DOMAIN seal \subseteq rest \cup DOMAIN seal'
            BY <1>2
          <5> HIDE DEF rest
          <5> QED BY <1>6, <5>1, <5>2
        <4> HIDE DEF rest
        <4>3. RunSound(r)'
          BY <4>1, <4>2 DEF RunSound
        <4> QED BY <2>1, <3>1, <4>3
      <3> QED BY <1>8, <2>1, <3>2, <3>3
    <2>2. CASE q # r
      <3>1. run'[q] = run[q]
        BY <1>1, <1>3, <2>2
      <3>2. RowsSound(q)'
        <4>1. PICK e : e = NextDay(run[q].days)
          OBVIOUS
        <4>2. (Whole(e)' <=> Whole(e)) /\ DayRows(e)' = DayRows(e)
          BY <1>1, SameRows
        <4> QED BY <1>1, <2>0, <3>1, <4>1, <4>2 DEF RowsSound
      <3>3. RunSound(q)'
        <4> SUFFICES ASSUME run[q].step # "idle" PROVE RunSound(q)'
          BY <3>1 DEF RunSound
        <4>1. /\ run[q].days # {}
              /\ \A e \in run[q].days : /\ e < Today /\ ~NoRow(e)
                   /\ \A f \in Day : f < e => f \in run[q].days \cup DOMAIN seal \/ NoRow(f)
          BY <2>0 DEF RunSound
        <4>2. \A e \in run[q].days : /\ e < Today' /\ ~NoRow(e)'
                /\ \A f \in Day : f < e => f \in run[q].days \cup DOMAIN seal' \/ NoRow(f)'
          BY <1>2, <1>6, <4>1
        <4>3. NextDay(run[q].days) \in DOMAIN seal'
          <5>1. PICK e : e = NextDay(run[q].days)
            OBVIOUS
          <5>2. e \in run[q].days /\ e \in Day /\ e \in Nat /\ \A f \in run[q].days : e <= f
            BY <1>3, <4>1, <5>1, Turn
          <5> SUFFICES ASSUME e \notin DOMAIN seal' PROVE FALSE
            BY <5>1
          <5>3. e # d /\ e \notin DOMAIN seal
            BY <1>2
          <5>4. CASE d < e
            <6>1. d \in run[q].days
              BY <1>1, <1>4, <4>1, <5>2, <5>4
            <6> QED BY <1>4, <5>2, <5>4, <6>1
          <5>5. CASE e < d
            BY <1>4, <4>1, <5>2, <5>3, <5>5
          <5> QED BY <1>4, <5>2, <5>3, <5>4, <5>5
        <4>4. NextDay(run'[q].days) \in DOMAIN seal'
          BY <3>1, <4>3
        <4> QED BY <3>1, <4>1, <4>2, <4>4 DEF RunSound
      <3> QED BY <3>2, <3>3
    <2> QED BY <2>1, <2>2
  <1>10. ASSUME NEW e \in DOMAIN seal' \ early' PROVE RootSound(e)'
    <2>1. (Whole(e)' <=> Whole(e)) /\ DayRows(e)' = DayRows(e)
      BY <1>1, SameRows
    <2>2. CASE e \in DOMAIN seal
      BY <1>1, <1>2, <1>3, <2>1, <2>2 DEF RootSound
    <2>3. CASE e = d
      <3>1. Whole(d) /\ run[r].rows = DayRows(d)
        BY <1>0, <1>1, <1>3, <2>3 DEF RowsSound
      <3> QED BY <1>2, <2>1, <2>3, <3>1 DEF RootSound
    <2> QED BY <1>2, <2>2, <2>3
  <1> QED BY <1>7, <1>9, <1>10
LEMMA InitIInv == SealInit => IInv
  <1> SUFFICES ASSUME SealInit PROVE IInv
    OBVIOUS
  <1>1. /\ time = 0 /\ history = <<>> /\ open = [x \in Tx |-> {}] /\ DOMAIN seal = {}
        /\ run = [r \in Run |-> NoRun]
    BY DEF SealInit
  <1>2. DOMAIN history = {} /\ history \in Seq([id : Nat, item : STRING, seen : Nat])
    BY <1>1, EmptySeq, LenProperties
  <1>3. 0 \in 0..MaxTime
    BY SealAssumption
  <1>4. \A r \in Run : /\ DOMAIN run[r] = {"step", "days", "rows", "prev"}
                       /\ run[r].step = "idle" /\ run[r].days = {}
    BY <1>1 DEF NoRun
  <1>5. Types
    BY <1>1, <1>2, <1>3, <1>4 DEF Types, Step
  <1> QED BY <1>1, <1>2, <1>4, <1>5 DEF IInv, Fresh, Chained, RunSound, RowsSound

LEMMA NextIInv == IInv /\ [SealNext]_sealVars => IInv'
  <1> SUFFICES ASSUME IInv, [SealNext]_sealVars PROVE IInv'
    OBVIOUS
  <1>1. Types' /\ Fresh' /\ Types /\ Grown
    BY StepTypes, StepFresh, StepGrows DEF IInv
  <1>2. /\ Chained /\ \A q \in Run : RunSound(q) /\ RowsSound(q)
        /\ \A d \in DOMAIN seal \ early : RootSound(d)
    BY DEF IInv
  <1>3. CASE \E r \in Run : InsertSeal(r)
    BY <1>1, <1>3, InsertSealSound DEF IInv
  <1>4. CASE ~ \E r \in Run : InsertSeal(r)
    <2>1. seal' = seal
      BY <1>4 DEF SealNext, sealVars, SealTick, CommitPage, AppendPage, ListDays, ReadRows,
                  ReadChain, StopRun
    <2>2. early \subseteq early'
      <3>1. CASE \E r \in Run : ReadRows(r)
        BY <3>1, ReadRowsSound
      <3>2. CASE ~ \E r \in Run : ReadRows(r)
        BY <1>4, <3>2 DEF SealNext, sealVars, SealTick, CommitPage, AppendPage, ListDays,
                          ReadChain, StopRun
      <3> QED BY <3>1, <3>2
    <2>3. Stays
      BY <1>1, <2>2 DEF Stays
    <2>4. Chained'
      BY <1>2, <2>1, <2>3, SealsStay
    <2>5. \A d \in DOMAIN seal' \ early' : RootSound(d)'
      <3>1. ASSUME NEW d \in DOMAIN seal \ early PROVE RootSound(d)'
        BY <1>2, <2>1, <2>3, RootStays
      <3> QED BY <2>1, <2>2, <3>1
    <2>6. ASSUME NEW q \in Run PROVE RunSound(q)' /\ RowsSound(q)'
      <3>1. CASE run'[q] = run[q]
        BY <1>2, <2>1, <2>3, <3>1, RunStays, RowsStay
      <3>2. CASE ListDays(q)
        <4>1. run'[q].step = "read"
          BY <1>1, <3>2 DEF ListDays, NoRun, Types
        <4> QED BY <3>2, <4>1, ListDaysSound DEF RowsSound
      <3>3. CASE ReadRows(q)
        BY <3>3, ReadRowsSound
      <3>4. CASE ReadChain(q)
        BY <3>4, ReadChainSound
      <3>5. CASE StopRun(q)
        <4>1. run'[q].step = "idle"
          BY <1>1, <3>5 DEF StopRun, NoRun, Types
        <4> QED BY <4>1 DEF RowsSound, RunSound
      <3>6. run'[q] = run[q] \/ ListDays(q) \/ ReadRows(q) \/ ReadChain(q) \/ StopRun(q)
        <4>1. ASSUME NEW r \in Run, r # q, ListDays(r) \/ ReadRows(r) \/ ReadChain(r) \/ StopRun(r)
              PROVE  run'[q] = run[q]
          <5>1. DOMAIN run = Run
            BY <1>1 DEF Types
          <5>2. \E v : run' = [run EXCEPT ![r] = v]
            BY <4>1 DEF ListDays, ReadRows, ReadChain, StopRun
          <5> QED BY <4>1, <5>1, <5>2
        <4>2. CASE SealTick \/ (\E x \in Tx : CommitPage(x) \/ \E page \in Page : AppendPage(x, page))
                   \/ UNCHANGED sealVars
          BY <4>2 DEF SealTick, CommitPage, AppendPage, sealVars
        <4> QED BY <1>4, <4>1, <4>2 DEF SealNext
      <3> QED BY <3>1, <3>2, <3>3, <3>4, <3>5, <3>6
    <2> QED BY <1>1, <2>4, <2>5, <2>6 DEF IInv
  <1> QED BY <1>3, <1>4

-----------------------------------------------------------------------------
\* Whatever the length of a day, and however transactions and runs of seal.py
\* overlap and stop, the invariant holds: each run has listed all that comes
\* before what it seals, and has the rows that the day keeps.
THEOREM Invariance == SealSpec => []IInv
  BY InitIInv, NextIInv, PTL DEF SealSpec

\* last_seal and seal_day: the seals stay one chain in the order of the days.
THEOREM ChainHolds == SealSpec => []ChainLinear
  <1>1. IInv => ChainLinear
    <2> SUFFICES ASSUME IInv, NEW d \in DOMAIN seal
                 PROVE  /\ seal[d].prev = LinkBefore(d)
                        /\ \A e \in 0..(d - 1) \ DOMAIN seal : RowsOf(e) = {}
      BY DEF ChainLinear, LinkBefore
    <2>1. /\ d \in Day /\ d < Today /\ ClearTo(d) /\ seal[d].prev = LinkBefore(d)
          /\ Day \subseteq Nat /\ Today \in Nat /\ \A e \in Nat : e < Today => e \in Day
      BY DayTypes DEF IInv, Chained
    <2>2. ASSUME NEW e \in 0..(d - 1) \ DOMAIN seal PROVE RowsOf(e) = {}
      <3>1. e \in Nat /\ d \in Nat /\ e < d /\ e < Today
        BY <2>1
      <3>2. NoRow(e)
        BY <2>1, <3>1 DEF ClearTo
      <3> QED BY <3>2 DEF NoRow, RowsOf, Range
    <2> QED BY <2>1, <2>2
  <1> QED BY <1>1, Invariance, PTL
-----------------------------------------------------------------------------
\* The tree.

Listed(l) == Len(l) \in Nat /\ l = [i \in 1..Len(l) |-> l[i]]

LEMMA ListedOf ==
  ASSUME NEW m \in Nat, NEW f, f = [i \in 1..m |-> f[i]]
  PROVE  Len(f) = m /\ Listed(f) /\ \E S : f \in Seq(S)
  <1> DEFINE S == {f[i] : i \in 1..m}
  <1>1. f \in [1..m -> S]
    <2>1. \A i \in 1..m : f[i] \in S
      OBVIOUS
    <2> HIDE DEF S
    <2> QED BY <2>1
  <1>2. f \in Seq(S) /\ Len(f) = m
    <2> HIDE DEF S
    <2> QED BY <1>1, SeqOfLength
  <1> QED BY <1>2 DEF Listed

\* The level above: half as long, rounded up, and made of pairs.
LEMMA LevelAbove ==
  ASSUME NEW l, Listed(l), Len(l) >= 1
  PROVE  /\ Listed(Up(l)) /\ Len(Up(l)) = (Len(l) + 1) \div 2
         /\ \A i \in 1..Len(l) : Even(l)[i] = l[i]
         /\ \A q \in 1..Len(Up(l)) : Up(l)[q] = Hash(Even(l)[2*q - 1] \o Even(l)[2*q])
  <1> DEFINE m == Len(l)
             e == Even(l)
             u == Up(l)
  <1>1. m \in Nat /\ l = [i \in 1..m |-> l[i]] /\ m >= 1
    BY DEF Listed
  <1>2. PICK S : l \in Seq(S)
    BY <1>1, ListedOf
  <1>3. l[m] \in S
    BY <1>1, <1>2, ElementOfSeq
  <1>4. Len(e) \div 2 = (m + 1) \div 2 /\ \A i \in 1..m : e[i] = l[i]
    <2>1. CASE m % 2 = 1
      <3>1. e = Append(l, l[m])
        BY <2>1 DEF Even
      <3>2. Len(e) = m + 1 /\ \A i \in 1..m : Append(l, l[m])[i] = l[i]
        BY <1>2, <1>3, <3>1, AppendProperties
      <3> QED BY <3>1, <3>2
    <2>2. CASE m % 2 # 1
      <3>1. e = l
        BY <2>2 DEF Even
      <3>2. m \div 2 = (m + 1) \div 2
        <4> HIDE DEF m
        <4> QED BY <1>1, <2>2, Z3
      <3> QED BY <3>1, <3>2
    <2> QED BY <2>1, <2>2
  <1>5. u = [i \in 1..((m + 1) \div 2) |-> Hash(e[2*i - 1] \o e[2*i])]
    BY <1>4 DEF Up
  <1>6. (m + 1) \div 2 \in Nat
    BY <1>1
  <1>7. u = [i \in 1..((m + 1) \div 2) |-> u[i]]
    BY <1>5
  <1>8. Listed(u) /\ Len(u) = (m + 1) \div 2
    <2> HIDE DEF u, m
    <2> QED BY <1>6, <1>7, ListedOf
  <1>9. \A q \in 1..((m + 1) \div 2) : u[q] = Hash(e[2*q - 1] \o e[2*q])
    BY <1>5
  <1> QED BY <1>4, <1>8, <1>9

LEMMA Upwards ==
  ASSUME NEW n \in Nat, NEW S, 0 \in S, \A k \in 0..n : k \in S /\ k + 1 <= n => k + 1 \in S
  PROVE  0..n \subseteq S
  <1> DEFINE T == {k \in 0..n : k \notin S}
  <1> SUFFICES ASSUME T # {} PROVE FALSE
    OBVIOUS
  <1>1. Min(T) \in T /\ \A k \in T : Min(T) <= k
    <2>1. T \subseteq Nat
      OBVIOUS
    <2> HIDE DEF T
    <2> QED BY <2>1, MinIsLeast
  <1>2. PICK m \in 0..n : m \notin S /\ \A k \in T : m <= k
    BY <1>1
  <1>3. m # 0 /\ m - 1 \in 0..n /\ (m - 1) + 1 = m
    BY <1>2
  <1>4. m - 1 \in S
    BY <1>2, <1>3
  <1> QED BY <1>2, <1>3, <1>4

\* The three recursive functions of the tree are what their equations say.
LEMMA LevelsDefined ==
  ASSUME NEW leaves, Len(leaves) \in Nat
  PROVE  /\ Levels(leaves)[0] = leaves
         /\ \A k \in 1..Len(leaves) : Levels(leaves)[k] = Up(Levels(leaves)[k - 1])
  <1> DEFINE n == Len(leaves)
             Is(k, f) == f = [j \in 0..k |-> IF j = 0 THEN leaves ELSE Up(f[j - 1])]
             S == {k \in 0..n : \E f : Is(k, f)}
  <1>1. 0 \in S
    <2> DEFINE f == [j \in 0..0 |-> leaves]
    <2>1. \A j \in 0..0 : j = 0
      OBVIOUS
    <2>2. Is(0, f)
      BY <2>1
    <2>3. 0 \in 0..n
      OBVIOUS
    <2> HIDE DEF f, Is
    <2> QED BY <2>2, <2>3
  <1>2. ASSUME NEW k \in 0..n, k \in S, k + 1 <= n PROVE k + 1 \in S
    <2>1. PICK f : Is(k, f)
      BY <1>2
    <2> DEFINE g == [j \in 0..(k + 1) |-> IF j = k + 1 THEN Up(f[k]) ELSE f[j]]
    <2>2. \A j \in 0..k : j # k + 1 /\ j \in 0..(k + 1)
      OBVIOUS
    <2>3. \A j \in 0..k : g[j] = f[j]
      BY <2>2
    <2>4. ASSUME NEW j \in 0..(k + 1) PROVE g[j] = IF j = 0 THEN leaves ELSE Up(g[j - 1])
      <3>1. CASE j = k + 1
        <4>1. j # 0 /\ j - 1 = k /\ k \in 0..k
          BY <3>1
        <4>2. g[j] = Up(f[k])
          BY <3>1
        <4> HIDE DEF g
        <4> QED BY <2>3, <4>1, <4>2
      <3>2. CASE j # k + 1
        <4>1. j \in 0..k /\ (j # 0 => j - 1 \in 0..k)
          BY <3>2
        <4>2. f[j] = IF j = 0 THEN leaves ELSE Up(f[j - 1])
          BY <2>1, <4>1
        <4> HIDE DEF g
        <4> QED BY <2>3, <4>1, <4>2
      <3> QED BY <3>1, <3>2
    <2>5. Is(k + 1, g)
      <3>1. g = [j \in 0..(k + 1) |-> g[j]]
        OBVIOUS
      <3> HIDE DEF g
      <3> QED BY <2>4, <3>1
    <2>6. k + 1 \in 0..n
      BY <1>2
    <2> HIDE DEF g, Is
    <2> QED BY <2>5, <2>6
  <1>3. n \in S
    <2> HIDE DEF S
    <2>1. 0..n \subseteq S
      BY <1>1, <1>2, Upwards
    <2> QED BY <2>1
  <1>4. Is(n, Levels(leaves))
    <2>1. \E f : Is(n, f)
      BY <1>3
    <2>2. Levels(leaves) = CHOOSE f : Is(n, f)
      BY DEF Levels
    <2> HIDE DEF Is
    <2> QED BY <2>1, <2>2
  <1>5. \A k \in 1..n : k \in 0..n /\ k # 0
    OBVIOUS
  <1> QED BY <1>4, <1>5
LEMMA PlacesDefined ==
  ASSUME NEW leaves, Len(leaves) \in Nat, NEW i
  PROVE  /\ Places(leaves, i)[0] = i
         /\ \A k \in 1..Len(leaves) : Places(leaves, i)[k] = (Places(leaves, i)[k - 1] + 1) \div 2
  <1> DEFINE n == Len(leaves)
             Is(k, f) == f = [j \in 0..k |-> IF j = 0 THEN i ELSE (f[j - 1] + 1) \div 2]
             S == {k \in 0..n : \E f : Is(k, f)}
  <1>1. 0 \in S
    <2> DEFINE f == [j \in 0..0 |-> i]
    <2>1. \A j \in 0..0 : j = 0
      OBVIOUS
    <2>2. Is(0, f)
      BY <2>1
    <2>3. 0 \in 0..n
      OBVIOUS
    <2> HIDE DEF f, Is
    <2> QED BY <2>2, <2>3
  <1>2. ASSUME NEW k \in 0..n, k \in S, k + 1 <= n PROVE k + 1 \in S
    <2>1. PICK f : Is(k, f)
      BY <1>2
    <2> DEFINE g == [j \in 0..(k + 1) |-> IF j = k + 1 THEN (f[k] + 1) \div 2 ELSE f[j]]
    <2>2. \A j \in 0..k : j # k + 1 /\ j \in 0..(k + 1)
      OBVIOUS
    <2>3. \A j \in 0..k : g[j] = f[j]
      BY <2>2
    <2>4. ASSUME NEW j \in 0..(k + 1) PROVE g[j] = IF j = 0 THEN i ELSE (g[j - 1] + 1) \div 2
      <3>1. CASE j = k + 1
        <4>1. j # 0 /\ j - 1 = k /\ k \in 0..k
          BY <3>1
        <4>2. g[j] = (f[k] + 1) \div 2
          BY <3>1
        <4> HIDE DEF g
        <4> QED BY <2>3, <4>1, <4>2
      <3>2. CASE j # k + 1
        <4>1. j \in 0..k /\ (j # 0 => j - 1 \in 0..k)
          BY <3>2
        <4>2. f[j] = IF j = 0 THEN i ELSE (f[j - 1] + 1) \div 2
          BY <2>1, <4>1
        <4> HIDE DEF g
        <4> QED BY <2>3, <4>1, <4>2
      <3> QED BY <3>1, <3>2
    <2>5. Is(k + 1, g)
      <3>1. g = [j \in 0..(k + 1) |-> g[j]]
        OBVIOUS
      <3> HIDE DEF g
      <3> QED BY <2>4, <3>1
    <2>6. k + 1 \in 0..n
      BY <1>2
    <2> HIDE DEF g, Is
    <2> QED BY <2>5, <2>6
  <1>3. n \in S
    <2> HIDE DEF S
    <2>1. 0..n \subseteq S
      BY <1>1, <1>2, Upwards
    <2> QED BY <2>1
  <1>4. Is(n, Places(leaves, i))
    <2>1. \E f : Is(n, f)
      BY <1>3
    <2>2. Places(leaves, i) = CHOOSE f : Is(n, f)
      BY DEF Places
    <2> HIDE DEF Is
    <2> QED BY <2>1, <2>2
  <1>5. \A k \in 1..n : k \in 0..n /\ k # 0
    OBVIOUS
  <1> QED BY <1>4, <1>5

LEMMA ClimbedDefined ==
  ASSUME NEW leaf, NEW path, Len(path) \in Nat
  PROVE  /\ Climbed(leaf, path)[0] = leaf
         /\ \A k \in 1..Len(path) : Climbed(leaf, path)[k] = Beside(path[k], Climbed(leaf, path)[k - 1])
  <1> DEFINE n == Len(path)
             Is(k, f) == f = [j \in 0..k |-> IF j = 0 THEN leaf ELSE Beside(path[j], f[j - 1])]
             S == {k \in 0..n : \E f : Is(k, f)}
  <1>1. 0 \in S
    <2> DEFINE f == [j \in 0..0 |-> leaf]
    <2>1. \A j \in 0..0 : j = 0
      OBVIOUS
    <2>2. Is(0, f)
      BY <2>1
    <2>3. 0 \in 0..n
      OBVIOUS
    <2> HIDE DEF f, Is
    <2> QED BY <2>2, <2>3
  <1>2. ASSUME NEW k \in 0..n, k \in S, k + 1 <= n PROVE k + 1 \in S
    <2>1. PICK f : Is(k, f)
      BY <1>2
    <2> DEFINE g == [j \in 0..(k + 1) |-> IF j = k + 1 THEN Beside(path[k + 1], f[k]) ELSE f[j]]
    <2>2. \A j \in 0..k : j # k + 1 /\ j \in 0..(k + 1)
      OBVIOUS
    <2>3. \A j \in 0..k : g[j] = f[j]
      BY <2>2
    <2>4. ASSUME NEW j \in 0..(k + 1) PROVE g[j] = IF j = 0 THEN leaf ELSE Beside(path[j], g[j - 1])
      <3>1. CASE j = k + 1
        <4>1. j # 0 /\ j - 1 = k /\ k \in 0..k
          BY <3>1
        <4>2. g[j] = Beside(path[k + 1], f[k])
          BY <3>1
        <4> HIDE DEF g
        <4> QED BY <2>3, <4>1, <4>2
      <3>2. CASE j # k + 1
        <4>1. j \in 0..k /\ (j # 0 => j - 1 \in 0..k)
          BY <3>2
        <4>2. f[j] = IF j = 0 THEN leaf ELSE Beside(path[j], f[j - 1])
          BY <2>1, <4>1
        <4> HIDE DEF g
        <4> QED BY <2>3, <4>1, <4>2
      <3> QED BY <3>1, <3>2
    <2>5. Is(k + 1, g)
      <3>1. g = [j \in 0..(k + 1) |-> g[j]]
        OBVIOUS
      <3> HIDE DEF g
      <3> QED BY <2>4, <3>1
    <2>6. k + 1 \in 0..n
      BY <1>2
    <2> HIDE DEF g, Is
    <2> QED BY <2>5, <2>6
  <1>3. n \in S
    <2> HIDE DEF S
    <2>1. 0..n \subseteq S
      BY <1>1, <1>2, Upwards
    <2> QED BY <2>1
  <1>4. Is(n, Climbed(leaf, path))
    <2>1. \E f : Is(n, f)
      BY <1>3
    <2>2. Climbed(leaf, path) = CHOOSE f : Is(n, f)
      BY DEF Climbed
    <2> HIDE DEF Is
    <2> QED BY <2>1, <2>2
  <1>5. \A k \in 1..n : k \in 0..n /\ k # 0
    OBVIOUS
  <1> QED BY <1>4, <1>5
\* A level is at most as long as the one below, and shorter until it is one node;
\* so the tree has a root within as many levels as it has leaves.
LEMMA Heights ==
  ASSUME NEW leaves, Listed(leaves), Len(leaves) >= 1
  PROVE  /\ \A k \in 0..Len(leaves) : Listed(Levels(leaves)[k]) /\ Len(Levels(leaves)[k]) >= 1
         /\ Height(leaves) \in 0..Len(leaves) /\ Len(Levels(leaves)[Height(leaves)]) = 1
  <1> DEFINE n == Len(leaves)
             L(k) == Levels(leaves)[k]
             S == {k \in 0..n : Listed(L(k)) /\ Len(L(k)) >= 1
                                /\ (Len(L(k)) <= 1 \/ Len(L(k)) <= n - k)}
  <1>1. n \in Nat /\ n >= 1 /\ L(0) = leaves /\ \A k \in 1..n : L(k) = Up(L(k - 1))
    BY LevelsDefined DEF Listed
  <1>2. 0 \in S
    <2>1. Listed(L(0)) /\ Len(L(0)) = n
      BY <1>1
    <2> HIDE DEF n, L
    <2> QED BY <1>1, <2>1
  <1>3. ASSUME NEW k \in 0..n, k \in S, k + 1 <= n PROVE k + 1 \in S
    <2> DEFINE m == Len(L(k))
    <2>1. Listed(L(k)) /\ m \in Nat /\ m >= 1 /\ (m <= 1 \/ m <= n - k)
      BY <1>3 DEF Listed
    <2>2. L(k + 1) = Up(L(k))
      <3>1. k + 1 \in 1..n /\ (k + 1) - 1 = k
        BY <1>1, <1>3
      <3> HIDE DEF L, n
      <3> QED BY <1>1, <3>1
    <2>3. Listed(L(k + 1)) /\ Len(L(k + 1)) = (m + 1) \div 2
      <3> HIDE DEF L
      <3> QED BY <2>1, <2>2, LevelAbove
    <2> DEFINE q == (m + 1) \div 2
    <2>4. q \in Nat /\ q >= 1 /\ (q <= 1 \/ q <= n - (k + 1))
      <3>1. q \in Nat /\ 2 * q <= m + 1 /\ m + 1 <= 2 * q + 1
        <4> HIDE DEF m
        <4> QED BY <2>1
      <3> HIDE DEF q, m, n
      <3> QED BY <1>1, <2>1, <3>1
    <2>5. k + 1 \in 0..n
      BY <1>1, <1>3
    <2> HIDE DEF q, m, n, L
    <2>6. Len(L(k + 1)) = q
      BY <2>3 DEF q
    <2> QED BY <2>3, <2>4, <2>5, <2>6
  <1>4. 0..n \subseteq S
    <2> HIDE DEF S
    <2> QED BY <1>1, <1>2, <1>3, Upwards
  <1> DEFINE T == {k \in 0..n : Len(L(k)) <= 1}
  <1>5. n \in T /\ T \subseteq Nat
    <2>1. n \in S
      BY <1>1, <1>4
    <2>2. Len(L(n)) \in Nat
      BY <2>1 DEF Listed
    <2> HIDE DEF L
    <2> QED BY <1>1, <2>1, <2>2
  <1>6. Min(T) \in T
    <2> HIDE DEF T
    <2> QED BY <1>5, MinIsLeast
  <1>7. Height(leaves) = Min(T)
    BY DEF Height
  <1>8. ASSUME NEW k \in T PROVE Len(L(k)) = 1
    <2>1. Len(L(k)) \in Nat /\ Len(L(k)) >= 1 /\ Len(L(k)) <= 1
      BY <1>4 DEF Listed
    <2> DEFINE m == Len(L(k))
    <2>2. m \in Nat /\ m >= 1 /\ m <= 1
      BY <2>1
    <2> HIDE DEF m
    <2>3. m = 1
      BY <2>2
    <2> QED BY <2>3 DEF m
  <1>9. \A k \in 0..n : Listed(L(k)) /\ Len(L(k)) >= 1
    BY <1>4
  <1> HIDE DEF T
  <1>10. Height(leaves) \in T
    BY <1>6, <1>7
  <1> QED BY <1>8, <1>9, <1>10 DEF T

\* What a verifier computes on the way up is the node over its leaf, level by level.
LEMMA PathsVerify ==
  ASSUME NEW leaves, Listed(leaves), NEW i \in 1..Len(leaves)
  PROVE  Verify(leaves[i], Proof(leaves, i), Root(leaves))
  <1> DEFINE n == Len(leaves)
             h == Height(leaves)
             path == Proof(leaves, i)
             L(k) == Levels(leaves)[k]
             P(k) == Places(leaves, i)[k]
             C(k) == Climbed(leaves[i], path)[k]
  <1>1. n \in Nat /\ n >= 1
    <2>1. n \in Nat
      BY DEF Listed
    <2> HIDE DEF n
    <2> QED BY <2>1 DEF n
  <1>2. h \in 0..n /\ h \in Nat /\ Len(L(h)) = 1 /\ \A k \in 0..n : Listed(L(k)) /\ Len(L(k)) >= 1
    <2>1. h \in 0..n /\ Len(L(h)) = 1 /\ \A k \in 0..n : Listed(L(k)) /\ Len(L(k)) >= 1
      BY <1>1, Heights
    <2> QED BY <1>1, <2>1
  <1>3. /\ L(0) = leaves /\ \A k \in 1..n : L(k) = Up(L(k - 1))
        /\ P(0) = i /\ \A k \in 1..n : P(k) = (P(k - 1) + 1) \div 2
    BY <1>1, LevelsDefined, PlacesDefined
  <1>4. path = [k \in 1..h |->
                  IF P(k - 1) % 2 = 1 THEN [side |-> "right", hash |-> Even(L(k - 1))[P(k - 1) + 1]]
                                      ELSE [side |-> "left", hash |-> Even(L(k - 1))[P(k - 1) - 1]]]
    BY DEF Proof
  <1>5. Len(path) = h
    <2>1. path = [k \in 1..h |-> path[k]]
      BY <1>4
    <2> HIDE DEF path, h
    <2> QED BY <1>2, <2>1, ListedOf
  <1>6. C(0) = leaves[i] /\ \A k \in 1..h : C(k) = Beside(path[k], C(k - 1))
    <2> HIDE DEF h, path
    <2> QED BY <1>2, <1>5, ClimbedDefined
  <1> DEFINE S == {k \in 0..h : P(k) \in 1..Len(L(k)) /\ C(k) = L(k)[P(k)]}
  <1> HIDE DEF n, h, path, L, P, C
  <1>7. 0 \in S
    BY <1>2, <1>3, <1>6 DEF n
  <1>8. ASSUME NEW k \in 0..h, k \in S, k + 1 <= h PROVE k + 1 \in S
    <2> DEFINE m == Len(L(k))
               p == P(k)
               q == P(k + 1)
               e == Even(L(k))
    <2>1. /\ k + 1 \in 1..n /\ k + 1 \in 1..h /\ k + 1 \in 0..h /\ k \in 0..n /\ (k + 1) - 1 = k
      BY <1>1, <1>2, <1>8
    <2>2. /\ Listed(L(k)) /\ m \in Nat /\ m >= 1 /\ p \in 1..m /\ C(k) = L(k)[p]
      BY <1>2, <1>8, <2>1 DEF Listed
    <2>3. L(k + 1) = Up(L(k)) /\ q = (p + 1) \div 2
      BY <1>3, <2>1
    <2>4. /\ Len(L(k + 1)) = (m + 1) \div 2 /\ \A j \in 1..m : e[j] = L(k)[j]
          /\ \A j \in 1..((m + 1) \div 2) : L(k + 1)[j] = Hash(e[2*j - 1] \o e[2*j])
      BY <2>2, <2>3, LevelAbove
    <2>5. C(k) = e[p]
      BY <2>2, <2>4
    <2>6. path[k + 1] = IF p % 2 = 1 THEN [side |-> "right", hash |-> e[p + 1]]
                                     ELSE [side |-> "left", hash |-> e[p - 1]]
      BY <1>4, <2>1
    <2>7. C(k + 1) = Beside(path[k + 1], e[p])
      BY <1>6, <2>1, <2>5
    <2> HIDE DEF m, p, q, e
    <2>8. q \in 1..((m + 1) \div 2)
      BY <2>2, <2>3
    <2>9. CASE p % 2 = 1
      <3>1. 2 * q - 1 = p /\ 2 * q = p + 1
        BY <2>2, <2>3, <2>9
      <3>2. C(k + 1) = Hash(e[p] \o e[p + 1])
        BY <2>6, <2>7, <2>9 DEF Beside
      <3>3. L(k + 1)[q] = Hash(e[2*q - 1] \o e[2*q])
        BY <2>4, <2>8
      <3>4. C(k + 1) = L(k + 1)[q]
        BY <3>1, <3>2, <3>3
      <3> QED BY <2>1, <2>4, <2>8, <3>4 DEF q
    <2>10. CASE p % 2 # 1
      <3>1. 2 * q - 1 = p - 1 /\ 2 * q = p
        BY <2>2, <2>3, <2>10
      <3>2. C(k + 1) = Hash(e[p - 1] \o e[p])
        BY <2>6, <2>7, <2>10 DEF Beside
      <3>3. L(k + 1)[q] = Hash(e[2*q - 1] \o e[2*q])
        BY <2>4, <2>8
      <3>4. C(k + 1) = L(k + 1)[q]
        BY <3>1, <3>2, <3>3
      <3> QED BY <2>1, <2>4, <2>8, <3>4 DEF q
    <2> QED BY <2>9, <2>10
  <1>9. h \in S
    <2> HIDE DEF S
    <2>1. 0..h \subseteq S
      BY <1>2, <1>7, <1>8, Upwards
    <2> QED BY <1>2, <2>1
  <1>10. C(h) = L(h)[1]
    <2>1. Len(L(h)) = 1 /\ P(h) \in 1..Len(L(h)) /\ C(h) = L(h)[P(h)]
      BY <1>2, <1>9
    <2>2. P(h) \in 1..1
      BY <2>1
    <2>3. P(h) = 1
      BY <2>2
    <2> QED BY <2>1, <2>3
  <1>11. Root(leaves) = L(h)[1]
    <2>1. leaves # <<>>
      BY <1>1 DEF n
    <2> QED BY <2>1 DEF Root, L, h
  <1> QED BY <1>5, <1>10, <1>11 DEF Verify, C, path
LEMMA LeavesListed ==
  ASSUME Types, NEW d
  PROVE  LET n == Cardinality(RowsOf(d)) IN
         /\ n \in Nat /\ DOMAIN DayRows(d) = 1..n /\ Len(DayRows(d)) = n
         /\ Leaves(DayRows(d)) = [k \in 1..n |-> Leaf(DayRows(d)[k])]
         /\ Listed(Leaves(DayRows(d))) /\ Len(Leaves(DayRows(d))) = n
         /\ RowsOf(d) = {} => n = 0
         /\ RowsOf(d) # {} => n # 0
  <1> DEFINE n == Cardinality(RowsOf(d))
             rows == DayRows(d)
             leaves == Leaves(rows)
  <1>1. IsFiniteSet(RowsOf(d))
    <2>1. history \in Seq([id : Nat, item : STRING, seen : Nat])
      BY DEF Types
    <2>2. DOMAIN history = 1..Len(history) /\ Len(history) \in Nat
      BY <2>1, LenProperties
    <2>3. IsFiniteSet(1..Len(history))
      BY <2>2, FS_Interval
    <2>4. IsFiniteSet({history[k] : k \in DOMAIN history})
      <3> DEFINE T == {history[k] : k \in DOMAIN history}
      <3>1. history \in Surjection(1..Len(history), T)
        BY <2>1, <2>2, LenProperties DEF Surjection
      <3> HIDE DEF T
      <3>2. IsFiniteSet(T)
        BY <2>3, <3>1, FS_Surjection
      <3> QED BY <3>2 DEF T
    <2>5. RowsOf(d) \subseteq {history[k] : k \in DOMAIN history}
      BY DEF RowsOf, Range
    <2> QED BY <2>4, <2>5, FS_Subset
  <1>2. n \in Nat /\ (RowsOf(d) = {} <=> n = 0)
    BY <1>1, FS_CardinalityType, FS_EmptySet
  <1>3. DOMAIN rows = 1..n /\ rows = [k \in 1..n |-> rows[k]]
    <2> DEFINE g(k) == CHOOSE q \in RowsOf(d) :
                         Cardinality({p \in RowsOf(d) : Before(p, q)}) = k - 1
    <2>1. rows = [k \in 1..n |-> g(k)]
      BY DEF DayRows, Ordered
    <2> HIDE DEF g, rows, n
    <2> QED BY <2>1
  <1>4. Len(rows) = n
    <2> HIDE DEF rows, n
    <2> QED BY <1>2, <1>3, ListedOf
  <1>5. leaves = [k \in 1..n |-> Leaf(rows[k])]
    BY <1>3 DEF Leaves
  <1>6. Listed(leaves) /\ Len(leaves) = n
    <2>1. leaves = [k \in 1..n |-> leaves[k]]
      BY <1>5
    <2> HIDE DEF leaves, rows, n
    <2> QED BY <1>2, <2>1, ListedOf
  <1> QED BY <1>2, <1>3, <1>4, <1>5, <1>6

\* build_proof and /api/verify/proof: however many rows a sealed day has, the path
\* of each verifies against its seal, for ever, unless the day was read early.
THEOREM ProofsHold == SealSpec => []ProofsVerify
  <1>1. IInv => ProofsVerify
    <2> SUFFICES ASSUME IInv, NEW d \in DOMAIN seal \ early,
                        NEW i \in DOMAIN Leaves(DayRows(d))
                 PROVE  Verify(Leaves(DayRows(d))[i], Proof(Leaves(DayRows(d)), i), seal[d].root)
      BY DEF ProofsVerify
    <2> DEFINE leaves == Leaves(DayRows(d))
    <2>1. Listed(leaves) /\ \E n \in Nat : Len(leaves) = n /\ DOMAIN leaves = 1..n
      BY LeavesListed DEF IInv
    <2>2. i \in 1..Len(leaves)
      BY <2>1
    <2>3. seal[d].root = Root(leaves)
      BY DEF IInv, RootSound
    <2>4. Verify(leaves[i], Proof(leaves, i), Root(leaves))
      <3> HIDE DEF leaves
      <3> QED BY <2>1, <2>2, PathsVerify
    <2> QED BY <2>3, <2>4
  <1> QED BY <1>1, Invariance, PTL
-----------------------------------------------------------------------------
\* The book of days.

\* The book is written in the terms of the seals.
LEMMA SameOperators ==
  /\ \A S : Ledger!Max(S) = Max(S)
  /\ \A p, h : Ledger!Chain(p, h) = Chain(p, h)
  /\ \A l : Ledger!Root(l) = Root(l)
  <1>1. \A S : Ledger!Max(S) = Max(S)
    BY DEF Ledger!Max, Max
  <1>2. \A p, h : Ledger!Chain(p, h) = Chain(p, h)
    BY DEF Ledger!Chain, Chain, Ledger!Hash, Hash
  <1>3. \A l : Ledger!Levels(l) = Levels(l)
    BY DEF Ledger!Levels, Levels, Ledger!Up, Up, Ledger!Even, Even, Ledger!Hash, Hash
  <1>4. \A l : Ledger!Height(l) = Height(l)
    BY <1>3 DEF Ledger!Height, Height, Ledger!Min, Min
  <1>5. \A l : Ledger!Root(l) = Root(l)
    BY <1>3, <1>4 DEF Ledger!Root, Root, Ledger!Hash, Hash
  <1> QED BY <1>1, <1>2, <1>5

\* A day without rows holds nothing, one with rows something.
LEMMA HoldsNothing ==
  ASSUME Types, NEW d
  PROVE  Leaves(DayRows(d)) = <<>> <=> RowsOf(d) = {}
  <1>1. PICK n \in Nat : /\ n = Cardinality(RowsOf(d))
                         /\ Leaves(DayRows(d)) = [k \in 1..n |-> Leaf(DayRows(d)[k])]
                         /\ Len(Leaves(DayRows(d))) = n /\ (RowsOf(d) = {} <=> n = 0)
    BY LeavesListed
  <1>2. PICK l : l = Leaves(DayRows(d))
    OBVIOUS
  <1>3. CASE n = 0
    <2>1. l = [k \in {} |-> Leaf(DayRows(d)[k])]
      BY <1>1, <1>2, <1>3
    <2>2. l = <<>>
      BY <2>1
    <2> QED BY <1>1, <1>2, <1>3, <2>2
  <1>4. CASE n # 0
    <2>1. Len(l) # 0
      BY <1>1, <1>2, <1>4
    <2>2. l # <<>>
      BY <2>1
    <2> QED BY <1>1, <1>2, <1>4, <2>2
  <1> QED BY <1>3, <1>4

\* A day that the book has closed has all the rows that it will have.
LEMMA ClosedIsWhole ==
  ASSUME IInv, NEW d \in Day, NEW e \in DOMAIN seal, d <= e, d \notin early
  PROVE  Whole(d) /\ d < Today
  <1>1. e \in Day /\ e < Today /\ ClearTo(e) /\ Day \subseteq Nat /\ Today \in Nat
    BY DayTypes DEF IInv, Chained
  <1>2. d < Today
    BY <1>1
  <1>3. CASE d \in DOMAIN seal
    BY <1>2, <1>3 DEF IInv, RootSound
  <1>4. CASE d \notin DOMAIN seal
    <2>1. d < e
      BY <1>1, <1>4
    <2>2. NoRow(d)
      BY <1>1, <1>4, <2>1 DEF ClearTo
    <2> QED BY <1>2, <2>2 DEF NoRow, Whole
  <1> QED BY <1>3, <1>4

LEMMA LedgerBegins == SealInit => Ledger!LedgerInit
  <1> SUFFICES ASSUME SealInit PROVE Ledger!LedgerInit
    OBVIOUS
  <1>1. Types /\ history = <<>> /\ early = {} /\ seal = [d \in {} |-> NoRun]
    BY InitIInv DEF IInv, SealInit
  <1>2. seal = [d \in {} |-> NoChain]
    BY <1>1
  <1>3. \A d : RowsOf(d) = {}
    BY <1>1 DEF RowsOf, Range
  <1>4. \A d \in Day : Leaves(DayRows(d)) = <<>>
    BY <1>1, <1>3, HoldsNothing
  <1> QED BY <1>1, <1>2, <1>4 DEF Ledger!LedgerInit

\* InsertSeal enters a day.
LEMMA InsertEnters ==
  ASSUME IInv, NEW r \in Run, InsertSeal(r)
  PROVE  \E d \in Day : Ledger!Enter(d)
  <1>0. PICK d : d = NextDay(run[r].days)
    OBVIOUS
  <1> DEFINE root == Root(Leaves(run[r].rows))
             link == [rows |-> Len(run[r].rows), root |-> root, prev |-> run[r].prev,
                      chain |-> Chain(run[r].prev, root)]
  <1>1. /\ run[r].step = "insert" /\ d \notin DOMAIN seal
        /\ seal' = [e \in DOMAIN seal \cup {d} |-> IF e = d THEN link ELSE seal[e]]
        /\ UNCHANGED <<time, history, open, early>>
    BY <1>0 DEF InsertSeal
  <1>2. /\ DOMAIN seal' = DOMAIN seal \cup {d} /\ \A e \in DOMAIN seal : seal'[e] = seal[e]
        /\ seal'[d] = link
    BY <1>1
  <1>3. /\ d \in Day /\ ~NoRow(d) /\ run[r].prev = LastChain
        /\ \A e \in Day : e < d => e \in DOMAIN seal \/ NoRow(e)
        /\ \A e \in DOMAIN seal : e < d
    BY <1>0, InsertBehind
  <1>4. Types
    BY DEF IInv
  <1>5. \A e \in Day \ DOMAIN seal : e < d => Leaves(DayRows(e)) = <<>>
    <2>1. \A e : NoRow(e) => RowsOf(e) = {}
      BY DEF NoRow, RowsOf, Range
    <2> QED BY <1>3, <1>4, <2>1, HoldsNothing
  <1>6. /\ seal'[d].prev = LastChain /\ seal'[d].root = root
        /\ seal'[d].chain = Chain(LastChain, seal'[d].root) /\ seal'[d].rows = Len(run[r].rows)
    BY <1>2, <1>3
  <1>7. ASSUME d \notin early
        PROVE  /\ Leaves(DayRows(d)) # <<>> /\ seal'[d].rows = Len(Leaves(DayRows(d)))
               /\ seal'[d].root = Root(Leaves(DayRows(d)))
    <2>1. Whole(d) /\ run[r].rows = DayRows(d)
      BY <1>0, <1>1, <1>7 DEF IInv, RowsSound
    <2>2. RowsOf(d) # {}
      BY <1>3, <2>1 DEF NoRow, Whole, RowsOf, Range
    <2>3. Leaves(DayRows(d)) # <<>>
      BY <1>4, <2>2, HoldsNothing
    <2>4. Len(DayRows(d)) = Len(Leaves(DayRows(d)))
      BY <1>4, LeavesListed
    <2> QED BY <1>6, <2>1, <2>3, <2>4
  <1>8. [e \in Day |-> Leaves(DayRows(e))]' = [e \in Day |-> Leaves(DayRows(e))]
    <2>1. \A e \in Day : DayRows(e)' = DayRows(e)
      BY <1>1, SameRows
    <2>2. Day' = Day
      BY DEF Day, DayOf
    <2>3. \A e \in Day : Leaves(DayRows(e))' = Leaves(DayRows(e))
      BY <2>1 DEF Leaves, Leaf, Hash
    <2> QED BY <2>2, <2>3
  <1>9. /\ Ledger!Latest = LastChain
        /\ Ledger!Chain(LastChain, seal'[d].root) = Chain(LastChain, seal'[d].root)
    BY SameOperators DEF Ledger!Latest, Ledger!Entered, LastChain, Ledger!NoChain, NoChain
  <1> HIDE DEF root, link
  <1>10. Ledger!Enter(d)
    BY <1>1, <1>2, <1>3, <1>5, <1>6, <1>7, <1>8, <1>9, SameOperators DEF Ledger!Enter, Ledger!Entered
  <1> QED BY <1>3, <1>10

\* Every other step writes, or looks into a day too early.
LEMMA StepKeepsLedger ==
  ASSUME IInv, Types', [SealNext]_sealVars
  PROVE  [Ledger!LedgerNext]_(Ledger!ledgerVars)
  <1> DEFINE held == [e \in Day |-> Leaves(DayRows(e))]
  <1>0. Types /\ Grown /\ Today \in Nat
    BY StepGrows, TodayIsNat DEF IInv
  <1>1. CASE \E r \in Run : InsertSeal(r)
    BY <1>1, InsertEnters DEF Ledger!LedgerNext
  <1>2. ASSUME NEW r \in Run, ReadRows(r), early' # early
        PROVE  \E d \in Day : Ledger!Doubt(d)
    <2>0. PICK d : d = NextDay(run[r].days)
      OBVIOUS
    <2>1. /\ early' = early \cup {d} /\ d \notin early /\ ~Whole(d)
          /\ UNCHANGED <<time, history, open, seal>>
      BY <1>2, <2>0 DEF ReadRows, Whole, Range
    <2>2. d \in Day
      <3>1. run[r].step # "idle" /\ RunSound(r) /\ run[r].days \subseteq Day
        BY <1>2 DEF ReadRows, IInv, Types
      <3>2. run[r].days # {}
        BY <3>1 DEF RunSound
      <3> QED BY <1>0, <2>0, <3>1, <3>2, Turn
    <2>3. ~Ledger!Closed(d)
      BY <2>1, <2>2, ClosedIsWhole DEF Ledger!Closed, Ledger!Entered
    <2>4. held' = held
      <3>1. \A e \in Day : DayRows(e)' = DayRows(e)
        BY <2>1, SameRows
      <3>2. \A e \in Day : Leaves(DayRows(e))' = Leaves(DayRows(e))
        BY <3>1 DEF Leaves, Leaf, Hash
      <3> QED BY <3>2 DEF Day, DayOf
    <2> QED BY <2>1, <2>2, <2>3, <2>4 DEF Ledger!Doubt
  <1>3. ASSUME seal' = seal, early' = early PROVE Ledger!Write
    <2>1. ASSUME NEW d \in Day, Ledger!Closed(d) PROVE held'[d] = held[d]
      <3>1. Whole(d) /\ d < Today
        BY <2>1, ClosedIsWhole DEF Ledger!Closed, Ledger!Entered
      <3>2. RowsOf(d)' = RowsOf(d)
        BY <1>0, <3>1, StepSteady DEF Steady
      <3>3. Leaves(DayRows(d))' = Leaves(DayRows(d))
        BY <3>2 DEF DayRows, Leaves, Leaf, Hash
      <3>4. Day' = Day
        BY DEF Day, DayOf
      <3> QED BY <3>3, <3>4
    <2> HIDE DEF held
    <2>2. \A d \in Day : Ledger!Closed(d) => held'[d] = held[d]
      BY <2>1
    <2> QED BY <1>3, <2>2 DEF Ledger!Write, held
  <1>4. CASE ~(\E r \in Run : InsertSeal(r)) /\ ~(\E r \in Run : ReadRows(r) /\ early' # early)
    <2>1. seal' = seal
      BY <1>4 DEF SealNext, sealVars, SealTick, CommitPage, AppendPage, ListDays, ReadRows,
                  ReadChain, StopRun
    <2>2. early' = early
      BY <1>4 DEF SealNext, sealVars, SealTick, CommitPage, AppendPage, ListDays, ReadChain,
                  StopRun
    <2> QED BY <1>3, <2>1, <2>2 DEF Ledger!LedgerNext
  <1>5. CASE \E r \in Run : ReadRows(r) /\ early' # early
    BY <1>2, <1>5 DEF Ledger!LedgerNext
  <1> QED BY <1>1, <1>4, <1>5

\* Whatever transactions and runs of seal.py overlap, and wherever they stop, the
\* seals are a book of days (SealsKeepLedger): refinement of DayLedger.
THEOREM LedgerKept == SealSpec => SealsKeepLedger
  <1>1. IInv /\ IInv' /\ [SealNext]_sealVars => [Ledger!LedgerNext]_(Ledger!ledgerVars)
    BY StepKeepsLedger DEF IInv
  <1> QED BY <1>1, LedgerBegins, Invariance, PTL DEF SealSpec, SealsKeepLedger, Ledger!LedgerSpec

\* A copy that somebody took of a seal stays good: the seal is never changed, and
\* the rows it is of neither grow nor shrink, unless they were read early.
THEOREM SealedForGood ==
  SealSpec => [][\A d \in DOMAIN seal :
                   /\ d \in DOMAIN seal' /\ seal'[d] = seal[d]
                   /\ d \notin early => d \notin early' /\ DayRows(d)' = DayRows(d)]_sealVars
  <1>1. ASSUME IInv, IInv', SealNext, NEW d \in DOMAIN seal
        PROVE  /\ d \in DOMAIN seal' /\ seal'[d] = seal[d]
               /\ d \notin early => d \notin early' /\ DayRows(d)' = DayRows(d)
    <2>1. /\ Types /\ Types' /\ Grown /\ d \in Day /\ d <= d
          /\ [Ledger!LedgerNext]_(Ledger!ledgerVars)
      <3>1. d \in Day /\ Day \subseteq Nat
        BY <1>1, DayTypes DEF IInv, Chained
      <3>2. d <= d
        BY <3>1
      <3> QED BY <1>1, <3>1, <3>2, StepGrows, StepKeepsLedger DEF IInv
    <2>2. d \in DOMAIN seal' /\ seal'[d] = seal[d]
      BY <2>1 DEF Ledger!LedgerNext, Ledger!ledgerVars, Ledger!Write, Ledger!Doubt,
                  Ledger!Enter, Ledger!Entered
    <2>3. ASSUME d \notin early PROVE d \notin early' /\ DayRows(d)' = DayRows(d)
      <3>1. Ledger!Closed(d)
        BY <2>1, <2>3 DEF Ledger!Closed, Ledger!Entered
      <3>2. d \notin early'
        BY <2>1, <2>3, <3>1 DEF Ledger!LedgerNext, Ledger!ledgerVars, Ledger!Write,
                                Ledger!Doubt, Ledger!Enter
      <3>3. Whole(d) /\ d < Today
        BY <1>1, <2>1, <2>3, ClosedIsWhole
      <3>4. RowsOf(d)' = RowsOf(d)
        BY <2>1, <3>3, StepSteady DEF Steady
      <3> QED BY <3>2, <3>4 DEF DayRows
    <2> QED BY <2>2, <2>3
  <1>2. IInv /\ IInv' /\ [SealNext]_sealVars =>
          [\A d \in DOMAIN seal :
             /\ d \in DOMAIN seal' /\ seal'[d] = seal[d]
             /\ d \notin early => d \notin early' /\ DayRows(d)' = DayRows(d)]_sealVars
    BY <1>1
  <1> QED BY <1>2, Invariance, PTL DEF SealSpec
=============================================================================
