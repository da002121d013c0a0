-------------------------- MODULE PriceEventsProofs --------------------------
(***************************************************************************)
(* What holds of prices and events over any number of days, snapshots and  *)
(* products, whatever the direct pass writes late: a badge says what the   *)
(* history says, its base is frozen, there is one open event unless a pass *)
(* was overtaken, and the day inferred is the first of the campaign.       *)
(***************************************************************************)
EXTENDS PriceEvents, FiniteSetTheorems, SequenceTheorems, WellFoundedInduction, TLAPS

-----------------------------------------------------------------------------
\* The least and the greatest of a set.

LEMMA Least ==
  ASSUME NEW S, S \subseteq Nat, S # {}
  PROVE  MinOf(S) \in S /\ \A n \in S : MinOf(S) <= n
  <1>1. PICK m \in S : \A n \in S : ~(<<n, m>> \in OpToRel(<, Nat))
    BY NatLessThanWellFounded, WFMin
  <1>2. ASSUME NEW n \in S PROVE m <= n
    <2>1. n \in Nat /\ m \in Nat
      OBVIOUS
    <2>2. <<n, m>> \notin {p \in Nat \X Nat : p[1] < p[2]}
      BY <1>1 DEF OpToRel
    <2>3. ~(n < m)
      BY <2>1, <2>2
    <2> QED BY <2>1, <2>3
  <1> QED BY <1>2 DEF MinOf

LEMMA Greatest ==
  ASSUME NEW n \in Nat, NEW S, S \subseteq 0..n, S # {}
  PROVE  MaxOf(S) \in S /\ \A x \in S : MaxOf(S) >= x
  <1> DEFINE T == {n - x : x \in S}
  <1>2. \A x \in S : n - x \in T /\ n - x \in Nat
    OBVIOUS
  <1>1. T \subseteq Nat /\ T # {}
    BY <1>2
  <1>3. \A t \in T : \E x \in S : t = n - x
    OBVIOUS
  <1> HIDE DEF T
  <1>4. MinOf(T) \in T /\ \A t \in T : MinOf(T) <= t
    BY <1>1, Least
  <1>5. PICK x \in S : MinOf(T) = n - x
    BY <1>3, <1>4
  <1>6. \A y \in S : x >= y
    BY <1>2, <1>4, <1>5
  <1> QED BY <1>6 DEF MaxOf

\* What holds at zero and goes on to the next, up to a number.
LEMMA Upwards ==
  ASSUME NEW last \in Nat, NEW G, 0 \in G,
         \A k \in 0..last : k \in G /\ k + 1 <= last => k + 1 \in G
  PROVE  0..last \subseteq G
  <1> DEFINE Rest == {k \in 0..last : k \notin G}
  <1> SUFFICES ASSUME Rest # {} PROVE FALSE
    OBVIOUS
  <1>1. Rest \subseteq Nat
    OBVIOUS
  <1>2. MinOf(Rest) \in Rest /\ \A n \in Rest : MinOf(Rest) <= n
    BY <1>1, Least
  <1> DEFINE k == MinOf(Rest)
  <1>3. k \in 0..last /\ k \notin G /\ \A n \in Rest : k <= n
    BY <1>2
  <1> HIDE DEF k
  <1>4. k # 0
    BY <1>3
  <1>5. k - 1 \in 0..last /\ k - 1 \notin Rest /\ (k - 1) + 1 = k
    BY <1>3, <1>4
  <1>6. k - 1 \in G
    BY <1>5
  <1> QED BY <1>3, <1>5, <1>6

-----------------------------------------------------------------------------
\* Shares.

\* The division of the language, as the provers know it.
LEMMA Quotient ==
  ASSUME NEW a \in Nat, NEW b \in Nat \ {0}, NEW m \in Nat
  PROVE  a \div b \in Nat /\ (a \div b >= m <=> a >= b * m)
  <1> DEFINE q == a \div b
             r == a % b
  <1>1. q \in Int /\ r \in 0..(b - 1) /\ a = b * q + r
    OBVIOUS
  <1> HIDE DEF q, r
  <1>2. ASSUME q >= m PROVE a >= b * m
    BY <1>1, <1>2
  <1>3. ASSUME a >= b * m PROVE q >= m
    BY <1>1, <1>3
  <1>4. q >= 0
    BY <1>1
  <1> QED BY <1>1, <1>2, <1>3, <1>4 DEF q

LEMMA PctTyped ==
  ASSUME NEW delta \in Int, NEW base \in Nat \ {0}
  PROVE  Pct(delta, base) \in Int
  <1> DEFINE half(a) == (200 * a + base) \div (2 * base)
  <1>1. ASSUME NEW a \in Nat PROVE half(a) \in Nat
    <2>1. 200 * a + base \in Nat /\ 2 * base \in Nat \ {0}
      OBVIOUS
    <2> QED BY <2>1, Quotient
  <1>2. Pct(delta, base) = IF delta < 0 THEN -half(-delta) ELSE half(delta)
    BY DEF Pct
  <1> HIDE DEF half
  <1> QED BY <1>1, <1>2

\* A share of a price is the larger, the higher the price it is taken from.
LEMMA PctGrows ==
  ASSUME NEW base \in Nat \ {0}, NEW price \in Nat, price >= base,
         NEW now \in Nat, NEW m \in 1..99, Pct(base - now, base) >= m
  PROVE  Pct(price - now, price) >= m
  <1> DEFINE half(a, b) == (200 * a + b) \div (2 * b)
  <1>1. ASSUME NEW a \in Nat, NEW b \in Nat \ {0}
        PROVE  half(a, b) \in Nat /\ (half(a, b) >= m <=> 200 * a + b >= (2 * b) * m)
    <2>1. 200 * a + b \in Nat /\ 2 * b \in Nat \ {0} /\ m \in Nat
      OBVIOUS
    <2> QED BY <2>1, Quotient
  <1>2. Pct(base - now, base) =
          IF base - now < 0 THEN -half(-(base - now), base) ELSE half(base - now, base)
    BY DEF Pct
  <1>3. Pct(price - now, price) =
          IF price - now < 0 THEN -half(-(price - now), price) ELSE half(price - now, price)
    BY DEF Pct
  <1> HIDE DEF half
  <1>4. base - now >= 0
    <2> SUFFICES ASSUME base - now < 0 PROVE FALSE
      OBVIOUS
    <2>1. -(base - now) \in Nat
      OBVIOUS
    <2>2. half(-(base - now), base) \in Nat
      BY <1>1, <2>1
    <2> QED BY <1>2, <2>2
  <1>5. base - now \in Nat /\ price - now \in Nat /\ price \in Nat \ {0}
    BY <1>4
  <1>6. half(base - now, base) >= m
    BY <1>2, <1>4
  <1>7. 200 * (base - now) + base >= (2 * base) * m
    BY <1>1, <1>5, <1>6
  <1>8. 200 * (price - now) + price >= (2 * price) * m
    <2>1. (2 * base) * m = base * (2 * m) /\ (2 * price) * m = price * (2 * m)
      OBVIOUS
    <2>2. base * (201 - 2 * m) >= 200 * now
      BY <1>7, <2>1
    <2>3. 201 - 2 * m \in Nat
      OBVIOUS
    <2>4. ASSUME NEW x \in Nat, NEW y \in Nat, NEW k \in Nat, x >= y PROVE x * k >= y * k
      <3>1. x * k = y * k + (x - y) * k /\ (x - y) * k >= 0
        BY <2>4
      <3> QED BY <3>1
    <2>5. price * (201 - 2 * m) >= base * (201 - 2 * m)
      BY <2>3, <2>4
    <2>6. price * (201 - 2 * m) >= 200 * now
      <3> DEFINE u == price * (201 - 2 * m)
                 v == base * (201 - 2 * m)
      <3>1. u \in Int /\ v \in Int
        BY <2>3
      <3> HIDE DEF u, v
      <3> QED BY <2>2, <2>5, <3>1 DEF u, v
    <2>7. price * (201 - 2 * m) = 201 * price - price * (2 * m)
      OBVIOUS
    <2> QED BY <2>1, <2>6, <2>7
  <1>9. half(price - now, price) >= m
    BY <1>1, <1>5, <1>8
  <1> QED BY <1>3, <1>5, <1>9

-----------------------------------------------------------------------------
\* Histories.

\* The price that a discount is measured against; nothing without enough history.
Base(h, d) ==
  IF Cardinality(Window(h, d)) < MinProvisional THEN 0 ELSE Lowest(h, Window(h, d))

\* What a badge of a campaign announced on a day claims, and the history shows.
Truthful(h, d, b) ==
  /\ b.reference = Base(h, d)
  /\ b.state \in {"verified", "verified_provisional"} =>
       /\ Cardinality(Window(h, d)) >= MinProvisional
       /\ \A i \in Window(h, d) : Pct(h[i].price - b.current, h[i].price) >= MinVerified
  /\ b.state = "verified" =>
       /\ Cardinality(Window(h, d)) >= MinReference
       /\ \E i \in Window(h, d) : h[i].day <= d - WindowDays + 1

\* A snapshot of the day of the announcement or later leaves its window alone.
LEMMA WindowFrozen ==
  ASSUME NEW h \in Seq(Snapshot), NEW s \in Snapshot, NEW d \in Day, d <= s.day
  PROVE  /\ Window(Append(h, s), d) = Window(h, d)
         /\ \A i \in Window(h, d) : Append(h, s)[i] = h[i]
         /\ Lowest(Append(h, s), Window(h, d)) = Lowest(h, Window(h, d))
  <1> DEFINE g == Append(h, s)
  <1>1. /\ DOMAIN g = DOMAIN h \cup {Len(h) + 1} /\ DOMAIN h = 1..Len(h)
        /\ g[Len(h) + 1] = s /\ \A i \in DOMAIN h : g[i] = h[i]
    OBVIOUS
  <1>2. s.day \in Int /\ d \in Int
    BY PriceEventsAssumption DEF Snapshot, Day
  <1> HIDE DEF g
  <1>3. ~(s.day < d)
    BY <1>2
  <1>4. Window(g, d) = Window(h, d)
    <2>1. \A i \in Window(g, d) : i \in DOMAIN h
      BY <1>1, <1>3 DEF Window
    <2>2. \A i \in DOMAIN h : i \in Window(g, d) <=> i \in Window(h, d)
      BY <1>1 DEF Window
    <2>3. \A i \in Window(h, d) : i \in DOMAIN h
      BY DEF Window
    <2> QED BY <2>1, <2>2, <2>3
  <1>5. \A i \in Window(h, d) : g[i] = h[i]
    BY <1>1 DEF Window
  <1>6. {g[i].price : i \in Window(h, d)} = {h[i].price : i \in Window(h, d)}
    BY <1>5
  <1>7. Lowest(g, Window(h, d)) = Lowest(h, Window(h, d))
    BY <1>6 DEF Lowest
  <1> QED BY <1>4, <1>5, <1>7 DEF g

LEMMA TruthFrozen ==
  ASSUME NEW h \in Seq(Snapshot), NEW s \in Snapshot, NEW d \in Day, d <= s.day,
         NEW b
  PROVE  /\ Base(Append(h, s), d) = Base(h, d)
         /\ Truthful(h, d, b) => Truthful(Append(h, s), d, b)
  <1> DEFINE g == Append(h, s)
  <1>1. /\ Window(g, d) = Window(h, d) /\ \A i \in Window(h, d) : g[i] = h[i]
        /\ Lowest(g, Window(h, d)) = Lowest(h, Window(h, d))
    BY WindowFrozen
  <1> HIDE DEF g
  <1>2. Base(g, d) = Base(h, d)
    BY <1>1 DEF Base
  <1>3. Truthful(h, d, b) => Truthful(g, d, b)
    BY <1>1, <1>2 DEF Truthful
  <1> QED BY <1>2, <1>3 DEF g

\* What a window holds, and the lowest of it.
LEMMA WindowTyped ==
  ASSUME NEW h \in Seq(Snapshot), NEW d \in Day
  PROVE  /\ IsFiniteSet(Window(h, d)) /\ Cardinality(Window(h, d)) \in Nat
         /\ \A i \in Window(h, d) : h[i] \in Snapshot /\ h[i].price \in Nat \ {0}
         /\ Window(h, d) # {} =>
              /\ Lowest(h, Window(h, d)) \in Nat \ {0}
              /\ \A i \in Window(h, d) : h[i].price >= Lowest(h, Window(h, d))
         /\ Cardinality(Window(h, d)) >= MinProvisional => Window(h, d) # {}
  <1> DEFINE W == Window(h, d)
  <1>1. W \subseteq 1..Len(h) /\ Len(h) \in Nat
    BY DEF Window
  <1>2. IsFiniteSet(W) /\ Cardinality(W) \in Nat
    <2>1. IsFiniteSet(1..Len(h))
      BY <1>1, FS_Interval
    <2>2. IsFiniteSet(W)
      BY <1>1, <2>1, FS_Subset
    <2> QED BY <2>2, FS_CardinalityType
  <1>3. \A i \in W : h[i] \in Snapshot /\ h[i].price \in Nat \ {0}
    <2>1. \A i \in 1..Len(h) : h[i] \in Snapshot
      OBVIOUS
    <2>2. \A i \in W : h[i] \in Snapshot
      BY <1>1, <2>1
    <2>3. \A i \in W : h[i].price > 0
      BY DEF Window, Valid
    <2>4. \A x \in Snapshot : x.price \in Nat
      BY DEF Snapshot
    <2> HIDE DEF W
    <2> QED BY <2>2, <2>3, <2>4
  <1>4. W # {} => /\ Lowest(h, W) \in Nat \ {0} /\ \A i \in W : h[i].price >= Lowest(h, W)
    <2> SUFFICES ASSUME W # {} PROVE /\ Lowest(h, W) \in Nat \ {0}
                                     /\ \A i \in W : h[i].price >= Lowest(h, W)
      OBVIOUS
    <2> DEFINE S == {h[i].price : i \in W}
    <2> HIDE DEF W
    <2>1. S \subseteq Nat /\ S # {} /\ 0 \notin S
      BY <1>3
    <2>2. \A i \in W : h[i].price \in S
      OBVIOUS
    <2>3. Lowest(h, W) = MinOf(S)
      BY DEF Lowest
    <2> HIDE DEF S
    <2>4. MinOf(S) \in S /\ \A n \in S : MinOf(S) <= n
      BY <2>1, Least
    <2>5. \A i \in W : h[i].price \in Nat /\ MinOf(S) <= h[i].price
      BY <1>3, <2>2, <2>4
    <2> QED BY <2>1, <2>3, <2>4, <2>5
  <1>5. Cardinality(W) >= MinProvisional => W # {}
    <2>1. Cardinality({}) = 0 /\ MinProvisional \in Nat /\ MinProvisional > 0
      BY FS_EmptySet, ConfigAssumption
    <2> HIDE DEF W
    <2> SUFFICES ASSUME W = {} PROVE ~(Cardinality(W) >= MinProvisional)
      OBVIOUS
    <2>2. Cardinality(W) = 0
      BY <2>1
    <2> QED BY <2>1, <2>2
  <1> QED BY <1>2, <1>3, <1>4, <1>5

-----------------------------------------------------------------------------
\* Badges.

FoundBadge == [current : Nat, declared : Int, reference : Nat, verified : Int, state : State]

LEMMA DeclaredTyped ==
  ASSUME NEW now \in Nat, NEW old \in Nat
  PROVE  DeclaredPct(now, old) \in Int
  <1>1. CASE now <= 0 \/ old <= now \/ old > RatioMax * now
                \/ 100 * (old - now) < MinDeclared * old
    BY <1>1 DEF DeclaredPct
  <1>2. CASE ~(now <= 0 \/ old <= now \/ old > RatioMax * now
                \/ 100 * (old - now) < MinDeclared * old)
    <2>1. old - now \in Nat /\ old \in Nat \ {0}
      BY <1>2
    <2>2. DeclaredPct(now, old) = Pct(old - now, old)
      BY <1>2 DEF DeclaredPct
    <2> QED BY <2>1, <2>2, PctTyped
  <1> QED BY <1>1, <1>2

\* compute_badge keeps its word.
LEMMA BadgeTruthful ==
  ASSUME NEW h \in Seq(Snapshot), NEW d \in Day, NEW now \in Nat, NEW old \in Nat
  PROVE  Badge(h, now, old, d) \in FoundBadge /\ Truthful(h, d, Badge(h, now, old, d))
  <1> DEFINE W     == Window(h, d)
             n     == Cardinality(W)
             dp    == DeclaredPct(now, old)
             bare  == [current |-> now, declared |-> dp, reference |-> 0, verified |-> 0,
                       state |-> IF dp # 0 THEN "declared" ELSE "insufficient_history"]
             base  == Lowest(h, W)
             share == Pct(base - now, base)
             whole == d - MinOf({h[i].day : i \in W}) >= WindowDays - 1
             b     == Badge(h, now, old, d)
  <1>1. dp \in Int
    BY DeclaredTyped
  <1>2. bare \in FoundBadge
    BY <1>1 DEF FoundBadge, State
  <1>3. /\ n < MinProvisional => b = bare
        /\ ~(n < MinProvisional) =>
             b = [bare EXCEPT
                    !.reference = base, !.verified = share,
                    !.state = IF share < MinVerified THEN "pumped"
                              ELSE IF n >= MinReference /\ whole THEN "verified"
                              ELSE "verified_provisional"]
    BY DEF Badge
  <1>4. n \in Nat /\ MinProvisional \in Nat /\ MinVerified \in 1..99 /\ MinReference \in Nat
    BY WindowTyped, ConfigAssumption
  <1>5. Base(h, d) = IF n < MinProvisional THEN 0 ELSE base
    BY DEF Base
  <1>6. CASE n < MinProvisional
    <2>1. b = bare
      BY <1>3, <1>6
    <2>2. b.reference = Base(h, d) /\ b.state \notin {"verified", "verified_provisional"}
      BY <2>1, <1>5, <1>6
    <2> HIDE DEF b, bare
    <2> QED BY <1>2, <2>1, <2>2 DEF Truthful, b
  <1>7. CASE ~(n < MinProvisional)
    <2>1. /\ base \in Nat \ {0} /\ \A i \in W : h[i].price \in Nat /\ h[i].price >= base
          /\ W # {}
      BY <1>4, <1>7, WindowTyped
    <2>2. share \in Int
      BY <2>1, PctTyped
    <2> DEFINE state == IF share < MinVerified THEN "pumped"
                        ELSE IF n >= MinReference /\ whole THEN "verified"
                        ELSE "verified_provisional"
    <2>3. b = [bare EXCEPT !.reference = base, !.verified = share, !.state = state]
      BY <1>3, <1>7
    <2>4. state \in State
      BY DEF State
    <2>5. state \in {"verified", "verified_provisional"} => share >= MinVerified
      BY <2>2, <1>4
    <2>6. state = "verified" => n >= MinReference /\ whole
      OBVIOUS
    <2> HIDE DEF state, share, base
    <2>7. b \in FoundBadge
      BY <1>2, <2>1, <2>2, <2>3, <2>4 DEF FoundBadge
    <2>8. b.reference = base /\ b.state = state /\ b.current = now
      BY <2>3
    <2> HIDE DEF b
    <2>9. ASSUME share >= MinVerified
          PROVE  \A i \in W : Pct(h[i].price - now, h[i].price) >= MinVerified
      <3> SUFFICES ASSUME NEW i \in W PROVE Pct(h[i].price - now, h[i].price) >= MinVerified
        OBVIOUS
      <3>1. h[i].price \in Nat /\ h[i].price >= base
        BY <2>1
      <3>2. Pct(base - now, base) >= MinVerified
        BY <2>9 DEF share
      <3> HIDE DEF W
      <3> QED BY <1>4, <2>1, <3>1, <3>2, PctGrows
    <2>10. whole => \E i \in W : h[i].day <= d - WindowDays + 1
      <3> SUFFICES ASSUME whole PROVE \E i \in W : h[i].day <= d - WindowDays + 1
        OBVIOUS
      <3> DEFINE S == {h[i].day : i \in W}
      <3>1. \A i \in W : h[i].day \in Nat
        <4>1. \A x \in Snapshot : x.day \in Nat
          BY PriceEventsAssumption DEF Snapshot, Day
        <4>2. \A i \in W : h[i] \in Snapshot
          BY WindowTyped
        <4> HIDE DEF W
        <4> QED BY <4>1, <4>2
      <3>2. S \subseteq Nat /\ S # {}
        BY <2>1, <3>1
      <3>3. MinOf(S) \in S
        BY <3>2, Least
      <3>4. PICK i \in W : h[i].day = MinOf(S)
        BY <3>3
      <3>5. d - h[i].day >= WindowDays - 1
        BY <3>4
      <3>6. d \in Int /\ WindowDays \in Int /\ h[i].day \in Int
        BY <3>1, ConfigAssumption, PriceEventsAssumption DEF Day
      <3> QED BY <3>5, <3>6
    <2>11. n >= MinProvisional
      BY <1>4, <1>7
    <2>12. b.reference = Base(h, d)
      BY <1>5, <1>7, <2>8
    <2>13. b.state \in {"verified", "verified_provisional"} =>
             \A i \in W : Pct(h[i].price - b.current, h[i].price) >= MinVerified
      BY <2>5, <2>8, <2>9
    <2> HIDE DEF whole
    <2>14. b.state = "verified" => n >= MinReference /\ \E i \in W : h[i].day <= d - WindowDays + 1
      BY <2>6, <2>8, <2>10
    <2>15. Truthful(h, d, b)
      BY <2>11, <2>12, <2>13, <2>14 DEF Truthful
    <2> QED BY <2>7, <2>15 DEF b
  <1> QED BY <1>6, <1>7

-----------------------------------------------------------------------------
\* The campaign.

\* What the walk is to be, from the latest day to a day of its own.
Walked(days, disc, k, f) ==
  f = [d \in k..MaxOf(days) |->
         IF d = MaxOf(days) THEN [start |-> MaxOf(days), going |-> TRUE]
         ELSE Back(days, disc, f[d + 1], d)]

\* There is such a walk: one that ends on a day is continued to the day before.
LEMMA WalkDefined ==
  ASSUME NEW days, NEW disc, MaxOf(days) \in Nat
  PROVE  Walked(days, disc, 0, Walk(days, disc))
  <1> DEFINE last == MaxOf(days)
             Begun == [start |-> last, going |-> TRUE]
             Short == {k \in 0..last : \E f : Walked(days, disc, last - k, f)}
  <1>1. 0 \in Short
    <2> DEFINE f == [d \in last..last |-> Begun]
    <2>1. \A d \in last..last : d = last
      OBVIOUS
    <2>2. f = [d \in (last - 0)..last |-> IF d = last THEN Begun ELSE Back(days, disc, f[d + 1], d)]
      BY <2>1
    <2>3. Walked(days, disc, last - 0, f)
      BY <2>2 DEF Walked
    <2> QED BY <2>3
  <1>2. ASSUME NEW k \in 0..last, k \in Short, k + 1 <= last PROVE k + 1 \in Short
    <2>1. PICK f : Walked(days, disc, last - k, f)
      BY <1>2
    <2> DEFINE m == last - (k + 1)
               g == [d \in m..last |-> IF d = m THEN Back(days, disc, f[d + 1], d) ELSE f[d]]
    <2>2. m + 1 = last - k /\ m \in Nat /\ m < last
      BY <1>2
    <2> HIDE DEF m
    <2>3. \A d \in m..last : d # m => d \in (m + 1)..last
      BY <2>2
    <2>4. f = [d \in (m + 1)..last |-> IF d = last THEN Begun ELSE Back(days, disc, f[d + 1], d)]
      BY <2>1, <2>2 DEF Walked
    <2>5. \A d \in (m + 1)..last : g[d] = f[d]
      BY <2>2
    <2>6. \A d \in m..last : d # last => d + 1 \in (m + 1)..last
      BY <2>2
    <2>7. ASSUME NEW d \in m..last
          PROVE  g[d] = IF d = last THEN Begun ELSE Back(days, disc, g[d + 1], d)
      <3>1. CASE d = m
        <4>1. d # last /\ g[d + 1] = f[d + 1]
          BY <3>1, <2>2, <2>5, <2>6
        <4>2. g[d] = Back(days, disc, f[d + 1], d)
          BY <3>1
        <4> HIDE DEF g
        <4> QED BY <4>1, <4>2
      <3>2. CASE d # m
        <4>1. d \in (m + 1)..last /\ g[d] = f[d]
          BY <3>2, <2>3, <2>5
        <4>2. f[d] = IF d = last THEN Begun ELSE Back(days, disc, f[d + 1], d)
          BY <4>1, <2>4
        <4>3. d # last => g[d + 1] = f[d + 1]
          BY <2>5, <2>6
        <4> HIDE DEF g
        <4> QED BY <4>1, <4>2, <4>3
      <3> QED BY <3>1, <3>2
    <2>8. g = [d \in m..last |-> IF d = last THEN Begun ELSE Back(days, disc, g[d + 1], d)]
      <3>1. g = [d \in m..last |-> g[d]]
        OBVIOUS
      <3> HIDE DEF g
      <3> QED BY <2>7, <3>1
    <2>9. Walked(days, disc, m, g)
      BY <2>8 DEF Walked
    <2>10. k + 1 \in 0..last
      BY <1>2
    <2> QED BY <2>9, <2>10 DEF m
  <1>3. 0..last \subseteq Short
    <2> HIDE DEF Short
    <2>1. \A k \in 0..last : k \in Short /\ k + 1 <= last => k + 1 \in Short
      BY <1>2
    <2> QED BY <1>1, <2>1, Upwards
  <1>4. last \in Short
    BY <1>3
  <1>5. \E f : Walked(days, disc, 0, f)
    <2>1. last - last = 0
      OBVIOUS
    <2> QED BY <1>4, <2>1
  <1>6. Walk(days, disc) = CHOOSE f : Walked(days, disc, 0, f)
    BY DEF Walk, Walked
  <1> QED BY <1>5, <1>6

NextOf(disc, e) == MinOf({d \in disc : d > e})

Apart(days, disc, d) ==
  \E e \in days \ disc : d < e /\ NextOf(disc, e) - e >= CampaignGap

\* How far the walk has come on the way back to day k: the campaign so far goes
\* on as long as no undiscounted day was CampaignGap days before the next of its
\* days, and has ended at the latest that was.
Come(days, disc, k, w) ==
  /\ w \in [start : disc, going : BOOLEAN] /\ w.start >= k
  /\ w.going =>
       /\ \A d \in disc : d >= k => w.start <= d
       /\ \A e \in days \ disc : e >= k => NextOf(disc, e) - e < CampaignGap
  /\ ~w.going =>
       \E e \in days \ disc :
         /\ e < w.start /\ w.start - e >= CampaignGap /\ NextOf(disc, e) = w.start
         /\ \A f \in days \ disc : f > e => NextOf(disc, f) - f < CampaignGap

LEMMA NextDiscounted ==
  ASSUME NEW days, days \subseteq Nat, NEW disc, disc \subseteq days, MaxOf(days) \in disc,
         \A d \in days : d <= MaxOf(days), NEW e \in days \ disc
  PROVE  NextOf(disc, e) \in disc /\ NextOf(disc, e) > e /\ \A d \in disc : d > e => NextOf(disc, e) <= d
  <1> DEFINE S == {d \in disc : d > e}
  <1>1. MaxOf(days) \in S /\ S \subseteq Nat
    <2>1. e # MaxOf(days) /\ e <= MaxOf(days) /\ e \in Nat /\ MaxOf(days) \in Nat
      OBVIOUS
    <2>2. MaxOf(days) > e
      BY <2>1
    <2>3. MaxOf(days) \in S
      BY <2>2
    <2>4. S \subseteq disc
      OBVIOUS
    <2> QED BY <2>3, <2>4
  <1>2. \A d \in S : d \in disc /\ d > e
    OBVIOUS
  <1>3. \A d \in disc : d > e => d \in S
    OBVIOUS
  <1>4. NextOf(disc, e) = MinOf(S)
    BY DEF NextOf
  <1> HIDE DEF S
  <1>5. MinOf(S) \in S /\ \A n \in S : MinOf(S) <= n
    BY <1>1, Least
  <1> QED BY <1>2, <1>3, <1>4, <1>5

LEMMA StepBack ==
  ASSUME NEW days, days \subseteq Nat, NEW disc, disc \subseteq days, MaxOf(days) \in disc,
         \A d \in days : d <= MaxOf(days),
         NEW k \in Nat, NEW w, Come(days, disc, k + 1, w)
  PROVE  Come(days, disc, k, Back(days, disc, w, k))
  <1> DEFINE v == Back(days, disc, w, k)
  <1>0. /\ w \in [start : disc, going : BOOLEAN] /\ w.start \in disc /\ w.start \in Nat
        /\ w.start >= k + 1 /\ w.going \in BOOLEAN /\ CampaignGap \in Nat
    BY ConfigAssumption DEF Come
  <1>1. CASE ~w.going
    <2>1. v = w
      BY <1>1 DEF Back
    <2>2. w.start >= k
      BY <1>0
    <2> HIDE DEF v
    <2> QED BY <1>1, <2>1, <2>2 DEF Come, v
  <1>2. CASE w.going /\ k \notin days
    <2>1. v = w
      BY <1>2 DEF Back
    <2>2. w.start >= k
      BY <1>0
    <2>3. \A d \in days : d >= k => d >= k + 1
      BY <1>2
    <2> HIDE DEF v
    <2>4. /\ \A d \in disc : d >= k => w.start <= d
          /\ \A e \in days \ disc : e >= k => NextOf(disc, e) - e < CampaignGap
      BY <1>2, <2>3 DEF Come
    <2> QED BY <1>0, <1>2, <2>1, <2>2, <2>4 DEF Come, v
  <1>3. CASE w.going /\ k \in disc
    <2>1. v = [w EXCEPT !.start = k]
      BY <1>3 DEF Back
    <2>2. v \in [start : disc, going : BOOLEAN] /\ v.start = k /\ v.going
      BY <1>0, <1>3, <2>1
    <2>3. \A e \in days \ disc : e >= k => e >= k + 1
      BY <1>3
    <2> HIDE DEF v
    <2>4. \A e \in days \ disc : e >= k => NextOf(disc, e) - e < CampaignGap
      BY <1>3, <2>3 DEF Come
    <2> QED BY <2>2, <2>4 DEF Come, v
  <1>4. CASE w.going /\ k \in days \ disc
    <2> DEFINE near == w.start - k < CampaignGap
    <2>1. v = [w EXCEPT !.going = near] /\ near \in BOOLEAN
      BY <1>4 DEF Back
    <2> HIDE DEF near
    <2>9. v \in [start : disc, going : BOOLEAN] /\ v.start = w.start /\ v.going = near
      BY <1>0, <2>1
    <2>2. /\ v \in [start : disc, going : BOOLEAN] /\ v.start = w.start
          /\ v.going <=> w.start - k < CampaignGap
      BY <2>9 DEF near
    <2> HIDE DEF v
    <2>3. /\ \A d \in disc : d >= k + 1 => w.start <= d
          /\ \A e \in days \ disc : e >= k + 1 => NextOf(disc, e) - e < CampaignGap
      BY <1>4 DEF Come
    <2>4. NextOf(disc, k) = w.start
      <3>1. NextOf(disc, k) \in disc /\ NextOf(disc, k) > k /\ \A d \in disc : d > k => NextOf(disc, k) <= d
        BY <1>4, NextDiscounted
      <3>2. w.start > k /\ NextOf(disc, k) >= k + 1 /\ NextOf(disc, k) \in Nat
        <4>3. \A n \in Nat : n >= k + 1 => n > k
          OBVIOUS
        <4>4. w.start > k
          BY <1>0, <4>3
        <4>5. NextOf(disc, k) \in days
          BY <3>1
        <4>1. NextOf(disc, k) \in Nat /\ w.start > k
          BY <4>4, <4>5
        <4>2. \A n \in Nat : n > k => n >= k + 1
          OBVIOUS
        <4> QED BY <3>1, <4>1, <4>2
      <3>3. NextOf(disc, k) <= w.start /\ w.start <= NextOf(disc, k)
        BY <1>0, <2>3, <3>1, <3>2
      <3> QED BY <1>0, <3>2, <3>3
    <2>5. \A d \in disc : d >= k => w.start <= d
      <3>1. \A d \in disc : d >= k => d >= k + 1
        BY <1>4
      <3> QED BY <2>3, <3>1
    <2>6. v.start >= k
      BY <1>0, <2>2
    <2>7. CASE w.start - k < CampaignGap
      <3>1. \A e \in days \ disc : e >= k => NextOf(disc, e) - e < CampaignGap
        <4> SUFFICES ASSUME NEW e \in days \ disc, e >= k PROVE NextOf(disc, e) - e < CampaignGap
          OBVIOUS
        <4>1. CASE e = k
          BY <2>4, <2>7, <4>1
        <4>2. CASE e # k
          BY <2>3, <4>2
        <4> QED BY <4>1, <4>2
      <3> QED BY <2>2, <2>5, <2>6, <2>7, <3>1 DEF Come, v
    <2>8. CASE ~(w.start - k < CampaignGap)
      <3>1. k < w.start /\ w.start - k >= CampaignGap
        BY <1>0, <2>8
      <3>2. \A f \in days \ disc : f > k => NextOf(disc, f) - f < CampaignGap
        <4>1. \A f \in days \ disc : f > k => f >= k + 1
          OBVIOUS
        <4> QED BY <2>3, <4>1
      <3>3. ~v.going
        BY <2>2, <2>8
      <3> QED BY <1>4, <2>2, <2>4, <2>6, <3>1, <3>2, <3>3 DEF Come, v
    <2> QED BY <2>7, <2>8
  <1> QED BY <1>0, <1>1, <1>2, <1>3, <1>4

\* The walk finds the first of the days that no gap separates from the last.
LEMMA WalkFinds ==
  ASSUME NEW days, days \subseteq Nat, NEW disc, disc \subseteq days, MaxOf(days) \in disc,
         \A d \in days : d <= MaxOf(days)
  PROVE  /\ Walk(days, disc)[0].start \in disc
         /\ Walk(days, disc)[0].start = MinOf({d \in disc : ~Apart(days, disc, d)})
  <1> DEFINE last == MaxOf(days)
             w == Walk(days, disc)
             G == {k \in 0..last : Come(days, disc, last - k, w[last - k])}
  <1>0. last \in Nat
    OBVIOUS
  <1>1. /\ w[last] = [start |-> last, going |-> TRUE]
        /\ \A k \in 0..last : k # last => w[k] = Back(days, disc, w[k + 1], k)
    <2>1. Walked(days, disc, 0, w)
      BY <1>0, WalkDefined
    <2> HIDE DEF w
    <2>2. w = [d \in 0..last |-> IF d = last THEN [start |-> last, going |-> TRUE]
                                 ELSE Back(days, disc, w[d + 1], d)]
      BY <2>1 DEF Walked
    <2>3. \A d \in 0..last : w[d] = IF d = last THEN [start |-> last, going |-> TRUE]
                                     ELSE Back(days, disc, w[d + 1], d)
      BY <2>2
    <2>4. last \in 0..last
      BY <1>0
    <2> QED BY <2>3, <2>4
  <1> HIDE DEF w
  <1>2. Come(days, disc, last, w[last])
    <2>1. \A e \in days \ disc : ~(e >= last)
      <3> SUFFICES ASSUME NEW e \in days \ disc PROVE ~(e >= last)
        OBVIOUS
      <3>1. e # last /\ e <= last /\ e \in Nat
        OBVIOUS
      <3> QED BY <1>0, <3>1
    <2>2. \A d \in disc : d >= last => last <= d
      OBVIOUS
    <2>3. /\ w[last] \in [start : disc, going : BOOLEAN] /\ w[last].start = last
          /\ w[last].going
      BY <1>1
    <2>4. last >= last
      OBVIOUS
    <2> QED BY <2>1, <2>2, <2>3, <2>4 DEF Come
  <1>3. ASSUME NEW k \in 0..last, k \in G, k + 1 <= last PROVE k + 1 \in G
    <2> DEFINE m == last - (k + 1)
    <2>1. m \in Nat /\ m + 1 = last - k /\ m \in 0..last /\ m # last
      BY <1>0, <1>3
    <2> HIDE DEF m
    <2>2. Come(days, disc, m + 1, w[m + 1])
      BY <1>3, <2>1
    <2>3. Come(days, disc, m, Back(days, disc, w[m + 1], m))
      BY <2>1, <2>2, StepBack
    <2>4. Come(days, disc, m, w[m])
      BY <1>1, <2>1, <2>3
    <2> QED BY <1>0, <1>3, <2>4 DEF m
  <1>4. last \in G
    <2>1. 0 \in G
      BY <1>0, <1>2
    <2> HIDE DEF G
    <2> QED BY <1>0, <1>3, <2>1, Upwards
  <1>5. Come(days, disc, 0, w[0])
    BY <1>0, <1>4
  <1> DEFINE s == w[0].start
             S == {d \in disc : ~Apart(days, disc, d)}
  <1>6. s \in disc /\ s \in Nat
    BY <1>5 DEF Come
  <1> HIDE DEF s
  <1>7. s \in S /\ \A d \in S : s <= d
    <2>1. CASE w[0].going
      <3>1. /\ \A d \in disc : s <= d
            /\ \A e \in days \ disc : NextOf(disc, e) - e < CampaignGap
        BY <1>5, <2>1 DEF Come, s
      <3>2. \A e \in days \ disc : ~(NextOf(disc, e) - e >= CampaignGap)
        <4>1. \A e \in days \ disc : NextOf(disc, e) \in Nat /\ e \in Nat
          BY NextDiscounted
        <4> QED BY <3>1, <4>1, ConfigAssumption
      <3>3. ~Apart(days, disc, s)
        BY <3>2 DEF Apart
      <3> QED BY <1>6, <3>1, <3>3
    <2>2. CASE ~w[0].going
      <3>1. PICK e \in days \ disc :
              /\ e < s /\ s - e >= CampaignGap /\ NextOf(disc, e) = s
              /\ \A f \in days \ disc : f > e => NextOf(disc, f) - f < CampaignGap
        BY <1>5, <2>2 DEF Come, s
      <3>2. ~Apart(days, disc, s)
        <4> SUFFICES ASSUME NEW f \in days \ disc, s < f, NextOf(disc, f) - f >= CampaignGap
                     PROVE  FALSE
          BY DEF Apart
        <4>1. NextOf(disc, f) \in Nat /\ f \in Nat /\ e \in Nat
          BY NextDiscounted
        <4>2. f > e
          BY <1>6, <3>1, <4>1
        <4> QED BY <3>1, <4>1, <4>2, ConfigAssumption
      <3>3. \A d \in S : s <= d
        <4> SUFFICES ASSUME NEW d \in disc, ~Apart(days, disc, d) PROVE s <= d
          OBVIOUS
        <4>1. d \in Nat /\ e \in Nat /\ d # e
          OBVIOUS
        <4>2. ~(d < e)
          BY <3>1 DEF Apart
        <4>3. NextOf(disc, e) <= d
          <5>1. d > e
            BY <4>1, <4>2
          <5>2. \A x \in disc : x > e => NextOf(disc, e) <= x
            BY NextDiscounted
          <5> QED BY <5>1, <5>2
        <4> QED BY <3>1, <4>3
      <3> QED BY <1>6, <3>2, <3>3
    <2> QED BY <2>1, <2>2
  <1>8. S \subseteq Nat
    OBVIOUS
  <1> HIDE DEF S
  <1>9. MinOf(S) \in S /\ \A d \in S : MinOf(S) <= d
    BY <1>7, <1>8, Least
  <1>10. s = MinOf(S)
    <2>1. s \in Nat /\ MinOf(S) \in Nat
      BY <1>6, <1>8, <1>9
    <2>2. s <= MinOf(S) /\ MinOf(S) <= s
      BY <1>7, <1>9
    <2> QED BY <2>1, <2>2
  <1> QED BY <1>6, <1>10 DEF s, S, w

Until(h, t) == \A i \in DOMAIN h : h[i].day <= t

LEMMA DaysTyped ==
  ASSUME NEW h \in Seq(Snapshot), NEW t \in Day, Until(h, t)
  PROVE  /\ ValidDays(h) \subseteq Nat /\ ValidDays(h) \subseteq 0..t
         /\ DiscountDays(h) \subseteq ValidDays(h)
         /\ ValidDays(h) # {} => /\ MaxOf(ValidDays(h)) \in ValidDays(h)
                                 /\ \A d \in ValidDays(h) : d <= MaxOf(ValidDays(h))
  <1>1. \A i \in DOMAIN h : h[i].day \in 0..t
    <2>1. \A i \in DOMAIN h : h[i] \in Snapshot
      OBVIOUS
    <2>2. \A x \in Snapshot : x.day \in Nat
      BY PriceEventsAssumption DEF Snapshot, Day
    <2>3. t \in Nat
      BY PriceEventsAssumption DEF Day
    <2> QED BY <2>1, <2>2, <2>3 DEF Until
  <1>2. ValidDays(h) \subseteq 0..t /\ t \in Nat
    BY <1>1, PriceEventsAssumption DEF ValidDays, Day
  <1>3. DiscountDays(h) \subseteq ValidDays(h)
    BY DEF DiscountDays
  <1>4. ValidDays(h) # {} => /\ MaxOf(ValidDays(h)) \in ValidDays(h)
                             /\ \A d \in ValidDays(h) : d <= MaxOf(ValidDays(h))
    <2> SUFFICES ASSUME ValidDays(h) # {}
                 PROVE  /\ MaxOf(ValidDays(h)) \in ValidDays(h)
                        /\ \A d \in ValidDays(h) : d <= MaxOf(ValidDays(h))
      OBVIOUS
    <2>1. /\ MaxOf(ValidDays(h)) \in ValidDays(h)
          /\ \A d \in ValidDays(h) : MaxOf(ValidDays(h)) >= d
      BY <1>2, Greatest
    <2>2. \A d \in ValidDays(h) : d \in Nat
      BY <1>2
    <2> QED BY <2>1, <2>2
  <1> QED BY <1>2, <1>3, <1>4

\* infer_announce_day is the campaign's first day; one at most, and never ahead.
LEMMA InferredFirst ==
  ASSUME NEW h \in Seq(Snapshot), NEW t \in Day, Until(h, t)
  PROVE  /\ Inferred(h) \subseteq 0..t
         /\ Inferred(h) # {} => MaxOf(Inferred(h)) \in 0..t
         /\ Inferred(h) =
              IF ValidDays(h) # {} /\ MaxOf(ValidDays(h)) \in DiscountDays(h)
                THEN {MinOf({d \in DiscountDays(h) : ~Apart(ValidDays(h), DiscountDays(h), d)})}
                ELSE {}
  <1> DEFINE days == ValidDays(h)
             disc == DiscountDays(h)
  <1>1. /\ days \subseteq Nat /\ days \subseteq 0..t /\ disc \subseteq days
        /\ days # {} => \A d \in days : d <= MaxOf(days)
    BY DaysTyped
  <1>2. Inferred(h) = IF days = {} \/ MaxOf(days) \notin disc THEN {}
                      ELSE {Walk(days, disc)[0].start}
    BY DEF Inferred
  <1> HIDE DEF days, disc
  <1>3. CASE days = {} \/ MaxOf(days) \notin disc
    BY <1>2, <1>3 DEF days, disc
  <1>4. CASE ~(days = {} \/ MaxOf(days) \notin disc)
    <2> DEFINE s == Walk(days, disc)[0].start
    <2>1. s \in disc /\ s = MinOf({d \in disc : ~Apart(days, disc, d)})
      BY <1>1, <1>4, WalkFinds
    <2>2. Inferred(h) = {s}
      BY <1>2, <1>4
    <2> HIDE DEF s
    <2>3. s \in 0..t
      BY <1>1, <2>1
    <2>4. MaxOf(Inferred(h)) \in 0..t
      <3>1. Inferred(h) \subseteq 0..t /\ Inferred(h) # {} /\ t \in Nat
        BY <2>2, <2>3, PriceEventsAssumption DEF Day
      <3>2. MaxOf(Inferred(h)) \in Inferred(h)
        BY <3>1, Greatest
      <3> QED BY <3>1, <3>2
    <2> QED BY <1>4, <2>1, <2>2, <2>3, <2>4 DEF days, disc
  <1> QED BY <1>3, <1>4

-----------------------------------------------------------------------------
\* A pass.

EventRow ==
  [open : BOOLEAN, current : Nat, declared : Int, reference : Nat, verified : Int,
   state : State \cup {"none"}]

\* The rows of a product: those that are there are of days that have been.
RowsKept(rows, t) ==
  /\ rows \in [Day -> EventRow]
  /\ \A d \in Day : rows[d].open => Exists(rows[d])
  /\ \A d \in Day : Exists(rows[d]) => d <= t

Found == [day : Day, badge : FoundBadge]

LEMMA OpenDaysTyped ==
  ASSUME NEW t \in Day, NEW rows, RowsKept(rows, t), OpenDays(rows) # {}
  PROVE  MaxOf(OpenDays(rows)) \in OpenDays(rows) /\ MaxOf(OpenDays(rows)) <= t
  <1>1. \A d \in OpenDays(rows) : d \in Day /\ d <= t
    BY DEF RowsKept, OpenDays
  <1>2. OpenDays(rows) \subseteq 0..MaxDay /\ MaxDay \in Nat
    BY PriceEventsAssumption DEF OpenDays, Day
  <1>3. MaxOf(OpenDays(rows)) \in OpenDays(rows)
    BY <1>2, Greatest
  <1> QED BY <1>1, <1>3

\* What detect_pass finds of a product.
LEMMA FindingSound ==
  ASSUME NEW h \in Seq(Snapshot), h # <<>>, NEW t \in Day, Until(h, t),
         NEW rows, RowsKept(rows, t), NEW f \in Finding(rows, h)
  PROVE  /\ Finding(rows, h) = {f}
         /\ f \in Found /\ f.day <= t /\ Truthful(h, f.day, f.badge)
         /\ OpenDays(rows) # {} => f.day \in OpenDays(rows)
  <1> DEFINE now == Last(h)
             announce == Announce(rows, h)
             badge == Badge(h, now.price, now.old, announce)
  <1>1. Len(h) \in DOMAIN h /\ now \in Snapshot
    BY DEF Last
  <1>2. now.day \in Day /\ now.price \in Nat /\ now.old \in Nat /\ now.day <= t
    <2>1. now.day <= t
      BY <1>1 DEF Until, Last
    <2> HIDE DEF now
    <2> QED BY <1>1, <2>1 DEF Snapshot
  <1> HIDE DEF now
  <1>3. OpenDays(rows) # {} => announce = MaxOf(OpenDays(rows))
    BY DEF Announce
  <1>4. announce \in Day /\ announce <= t
    <2>1. CASE OpenDays(rows) # {}
      <3>1. MaxOf(OpenDays(rows)) \in OpenDays(rows) /\ MaxOf(OpenDays(rows)) <= t
        BY <2>1, OpenDaysTyped
      <3>2. OpenDays(rows) \subseteq Day
        BY DEF OpenDays
      <3> HIDE DEF announce
      <3> QED BY <1>3, <2>1, <3>1, <3>2
    <2>2. CASE OpenDays(rows) = {} /\ Inferred(h) # {}
      <3>1. announce = MaxOf(Inferred(h))
        BY <2>2 DEF Announce
      <3>2. MaxOf(Inferred(h)) \in 0..t
        BY <2>2, InferredFirst
      <3>3. t \in 0..MaxDay /\ MaxDay \in Nat
        BY PriceEventsAssumption DEF Day
      <3> HIDE DEF announce
      <3> QED BY <3>1, <3>2, <3>3 DEF Day
    <2>3. CASE OpenDays(rows) = {} /\ Inferred(h) = {}
      <3>1. announce = now.day
        BY <2>3 DEF Announce, now
      <3> QED BY <1>2, <3>1
    <2> QED BY <2>1, <2>2, <2>3
  <1>5. Finding(rows, h) \in {{}, {[day |-> announce, badge |-> badge]}}
    BY DEF Finding, now
  <1>6. OpenDays(rows) # {} => announce \in OpenDays(rows)
    BY <1>3, OpenDaysTyped
  <1> HIDE DEF announce
  <1>7. badge \in FoundBadge /\ Truthful(h, announce, badge)
    BY <1>2, <1>4, BadgeTruthful
  <1> HIDE DEF badge
  <1>8. f = [day |-> announce, badge |-> badge] /\ Finding(rows, h) = {f}
    BY <1>5
  <1> QED BY <1>4, <1>6, <1>7, <1>8 DEF Found

\* The upsert writes what was found and nothing else, and never opens a row
\* that has ended.
LEMMA UpsertSound ==
  ASSUME NEW h, NEW t \in Day, NEW rows, RowsKept(rows, t),
         \A d \in Day : Exists(rows[d]) => Truthful(h, d, rows[d]),
         NEW f \in Found, f.day <= t, Truthful(h, f.day, f.badge)
  PROVE  /\ RowsKept(Upserted(rows, {f}), t)
         /\ \A d \in Day : Exists(rows[d]) => Exists(Upserted(rows, {f})[d])
         /\ \A d \in Day : Exists(Upserted(rows, {f})[d]) => Truthful(h, d, Upserted(rows, {f})[d])
         /\ OpenDays(Upserted(rows, {f})) \subseteq OpenDays(rows) \cup {f.day}
  <1> DEFINE new == Upserted(rows, {f})
             b == f.badge
             row == [open      |-> Exists(rows[f.day]) => rows[f.day].open,
                     current   |-> b.current,   declared |-> b.declared,
                     reference |-> b.reference, verified |-> b.verified,
                     state     |-> b.state]
  <1>1. f.day \in Day /\ b \in FoundBadge
    BY DEF Found
  <1>2. new = [d \in Day |-> IF d = f.day THEN row ELSE rows[d]]
    <2>1. \A d \in Day : (\E g \in {f} : g.day = d) <=> d = f.day
      OBVIOUS
    <2>2. \A d \in Day : d = f.day => (CHOOSE g \in {f} : g.day = d) = f
      OBVIOUS
    <2> QED BY <2>1, <2>2 DEF Upserted
  <1>3. /\ row \in EventRow /\ row.reference = b.reference /\ row.current = b.current
        /\ row.state = b.state /\ row.state \in State
    <2> DEFINE o == Exists(rows[f.day]) => rows[f.day].open
    <2>1. o \in BOOLEAN
      OBVIOUS
    <2> HIDE DEF o
    <2>2. b.current \in Nat /\ b.declared \in Int /\ b.reference \in Nat /\ b.verified \in Int
          /\ b.state \in State
      BY <1>1 DEF FoundBadge
    <2> HIDE DEF b
    <2> QED BY <2>1, <2>2 DEF EventRow
  <1>4. Exists(row)
    BY <1>3 DEF Exists, State
  <1>5. Truthful(h, f.day, row)
    <2> HIDE DEF row
    <2> QED BY <1>3 DEF Truthful
  <1> HIDE DEF new, row
  <1>6. \A d \in Day : new[d] = IF d = f.day THEN row ELSE rows[d]
    BY <1>2
  <1>7. RowsKept(new, t)
    <2>1. new \in [Day -> EventRow]
      BY <1>2, <1>3 DEF RowsKept
    <2>2. \A d \in Day : new[d].open => Exists(new[d])
      BY <1>4, <1>6 DEF RowsKept
    <2>3. \A d \in Day : Exists(new[d]) => d <= t
      BY <1>6 DEF RowsKept
    <2> QED BY <2>1, <2>2, <2>3 DEF RowsKept
  <1>8. \A d \in Day : Exists(rows[d]) => Exists(new[d])
    BY <1>4, <1>6
  <1>9. \A d \in Day : Exists(new[d]) => Truthful(h, d, new[d])
    BY <1>5, <1>6
  <1>10. OpenDays(new) \subseteq OpenDays(rows) \cup {f.day}
    BY <1>6 DEF OpenDays
  <1> QED BY <1>7, <1>8, <1>9, <1>10 DEF new

-----------------------------------------------------------------------------
\* The inductive invariant.

Reading == [product : Product, found : Found]

Types ==
  /\ today \in Day
  /\ history \in [Product -> Seq(Snapshot)]
  /\ \A p \in Product : Until(history[p], today)
  /\ events \in [Product -> [Day -> EventRow]]
  /\ \A p \in Product : RowsKept(events[p], today)
  /\ direct \in [step : {"idle", "persist", "detect"}, todo : SUBSET Product, read : SUBSET Reading]
  /\ direct.todo \subseteq Seen(history)
  /\ \A r \in direct.read : r.found.day <= today

\* The rows that are there and what the direct pass has read say what the
\* history says, and go on saying it while the history grows.
Sound ==
  /\ \A p \in Product : \A d \in Day :
       Exists(events[p][d]) => Truthful(history[p], d, events[p][d])
  /\ \A r \in direct.read : Truthful(history[r.product], r.found.day, r.found.badge)

\* What has been read of a product that is not raced has the day of its open
\* event, if there is one.
Alone ==
  /\ \A p \in Product : p \notin raced => \A d, e \in OpenDays(events[p]) : d = e
  /\ \A r \in direct.read : r.product \notin raced => OpenDays(events[r.product]) \subseteq {r.found.day}

IInv == Types /\ Sound /\ Alone

\* A batch makes a snapshot of the day of each of its items.
LEMMA PersistedGrows ==
  ASSUME Types, NEW batch, DOMAIN batch \subseteq Product,
         \A p \in DOMAIN batch : batch[p] \in [price : Nat, old : Nat, stock : BOOLEAN]
  PROVE  /\ Persisted(history, batch) \in [Product -> Seq(Snapshot)]
         /\ \A p \in Product :
              /\ \/ Persisted(history, batch)[p] = history[p]
                 \/ \E s \in Snapshot : /\ s.day = today
                                        /\ Persisted(history, batch)[p] = Append(history[p], s)
              /\ Until(Persisted(history, batch)[p], today)
              /\ history[p] # <<>> => Persisted(history, batch)[p] # <<>>
  <1> DEFINE new == Persisted(history, batch)
             shot(p) == [day   |-> today,          price |-> batch[p].price,
                         old   |-> batch[p].old,   stock |-> batch[p].stock]
  <1>1. today \in Day /\ history \in [Product -> Seq(Snapshot)] /\ today \in Nat
    BY PriceEventsAssumption DEF Types, Day
  <1>2. \A p \in DOMAIN batch : shot(p) \in Snapshot /\ shot(p).day = today
    BY <1>1 DEF Snapshot
  <1>3. \A p \in Product : new[p] = IF p \in DOMAIN batch THEN Append(history[p], shot(p)) ELSE history[p]
    BY DEF Persisted
  <1>4. new = [p \in Product |-> new[p]]
    BY DEF Persisted
  <1> HIDE DEF shot, new
  <1>5. \A h \in Seq(Snapshot), s \in Snapshot : s.day = today /\ Until(h, today) =>
          Append(h, s) \in Seq(Snapshot) /\ Until(Append(h, s), today) /\ Append(h, s) # <<>>
    <2> SUFFICES ASSUME NEW h \in Seq(Snapshot), NEW s \in Snapshot, s.day = today, Until(h, today)
                 PROVE  Append(h, s) \in Seq(Snapshot) /\ Until(Append(h, s), today)
                        /\ Append(h, s) # <<>>
      OBVIOUS
    <2> DEFINE g == Append(h, s)
    <2>1. /\ g \in Seq(Snapshot) /\ g # <<>>
          /\ DOMAIN g = DOMAIN h \cup {Len(h) + 1}
          /\ g[Len(h) + 1] = s /\ \A i \in DOMAIN h : g[i] = h[i]
      OBVIOUS
    <2> HIDE DEF g
    <2>2. Until(g, today)
      BY <1>1, <2>1 DEF Until
    <2> QED BY <2>1, <2>2 DEF g
  <1>6. ASSUME NEW p \in Product
        PROVE  /\ new[p] \in Seq(Snapshot)
               /\ \/ new[p] = history[p]
                  \/ \E s \in Snapshot : s.day = today /\ new[p] = Append(history[p], s)
               /\ Until(new[p], today)
               /\ history[p] # <<>> => new[p] # <<>>
    <2>1. history[p] \in Seq(Snapshot) /\ Until(history[p], today)
      BY DEF Types
    <2>2. CASE p \in DOMAIN batch
      BY <1>2, <1>3, <1>5, <2>1, <2>2
    <2>3. CASE p \notin DOMAIN batch
      BY <1>3, <2>1, <2>3
    <2> QED BY <2>2, <2>3
  <1>7. new \in [Product -> Seq(Snapshot)]
    BY <1>4, <1>6
  <1> QED BY <1>6, <1>7 DEF new

\* What is told of a batch when it is accepted as it is, or as validate_item leaves it.
LEMMA BatchTyped ==
  ASSUME NEW batch \in Batches
  PROVE  /\ DOMAIN batch \subseteq Product
         /\ \A p \in DOMAIN batch : batch[p] \in [price : Nat, old : Nat, stock : BOOLEAN]
         /\ DOMAIN Accepted(batch) = DOMAIN batch
         /\ \A p \in DOMAIN batch : Accepted(batch)[p] \in [price : Nat, old : Nat, stock : BOOLEAN]
  <1>1. PICK S \in SUBSET Product : batch \in [S -> Item]
    BY DEF Batches
  <1>2. DOMAIN batch = S /\ \A p \in S : batch[p] \in [price : Nat, old : Nat, stock : BOOLEAN]
    BY <1>1, PriceEventsAssumption
  <1>3. \A p \in S : Accepted(batch)[p] \in [price : Nat, old : Nat, stock : BOOLEAN]
    <2> SUFFICES ASSUME NEW p \in S
                 PROVE  Accepted(batch)[p] \in [price : Nat, old : Nat, stock : BOOLEAN]
      OBVIOUS
    <2> DEFINE b == batch[p]
    <2>1. Accepted(batch)[p] = IF b.old > b.price THEN b ELSE [b EXCEPT !.old = 0]
      BY <1>2 DEF Accepted
    <2>2. b \in [price : Nat, old : Nat, stock : BOOLEAN]
      BY <1>2
    <2> HIDE DEF b
    <2>3. [b EXCEPT !.old = 0] \in [price : Nat, old : Nat, stock : BOOLEAN]
      BY <2>2
    <2> QED BY <2>1, <2>2, <2>3
  <1>4. DOMAIN Accepted(batch) = S
    BY <1>2 DEF Accepted
  <1> QED BY <1>2, <1>3, <1>4

\* What was said of a history is still true when it has grown by a batch.
LEMMA SoundGrows ==
  ASSUME Types, Sound, NEW new \in [Product -> Seq(Snapshot)],
         \A p \in Product :
           \/ new[p] = history[p]
           \/ \E s \in Snapshot : s.day = today /\ new[p] = Append(history[p], s)
  PROVE  /\ \A p \in Product : \A d \in Day :
              Exists(events[p][d]) => Truthful(new[p], d, events[p][d])
         /\ \A r \in direct.read : Truthful(new[r.product], r.found.day, r.found.badge)
         /\ \A p \in Product : \A d \in Day : d <= today => Base(new[p], d) = Base(history[p], d)
  <1>1. ASSUME NEW p \in Product, NEW d \in Day, d <= today, NEW b
        PROVE  /\ Base(new[p], d) = Base(history[p], d)
               /\ Truthful(history[p], d, b) => Truthful(new[p], d, b)
    <2>1. history[p] \in Seq(Snapshot)
      BY DEF Types
    <2>2. CASE new[p] = history[p]
      BY <2>2
    <2>3. CASE \E s \in Snapshot : s.day = today /\ new[p] = Append(history[p], s)
      <3>1. PICK s \in Snapshot : s.day = today /\ new[p] = Append(history[p], s)
        BY <2>3
      <3>2. d <= s.day
        BY <1>1, <3>1
      <3> QED BY <2>1, <3>1, <3>2, TruthFrozen
    <2> QED BY <2>2, <2>3
  <1>2. \A p \in Product : \A d \in Day : Exists(events[p][d]) => d <= today
    BY DEF Types, RowsKept
  <1>3. \A r \in direct.read : r.product \in Product /\ r.found.day \in Day /\ r.found.day <= today
    BY DEF Types, Reading, Found
  <1>4. \A p \in Product : \A d \in Day :
          Exists(events[p][d]) => Truthful(new[p], d, events[p][d])
    BY <1>1, <1>2 DEF Sound
  <1>5. \A r \in direct.read : Truthful(new[r.product], r.found.day, r.found.badge)
    BY <1>1, <1>3 DEF Sound
  <1> QED BY <1>1, <1>4, <1>5

\* A pass over a product leaves its rows sound, and opens no second one.
LEMMA PassSound ==
  ASSUME NEW h \in Seq(Snapshot), h # <<>>, NEW t \in Day, Until(h, t),
         NEW rows, RowsKept(rows, t),
         \A d \in Day : Exists(rows[d]) => Truthful(h, d, rows[d]),
         NEW new, new = Upserted(rows, Finding(rows, h))
  PROVE  /\ RowsKept(new, t)
         /\ \A d \in Day : Exists(rows[d]) => Exists(new[d])
         /\ \A d \in Day : Exists(new[d]) => Truthful(h, d, new[d])
         /\ (\A d, e \in OpenDays(rows) : d = e) => \A d, e \in OpenDays(new) : d = e
  <1>1. CASE Finding(rows, h) = {}
    <2>1. new = [d \in Day |-> rows[d]]
      BY <1>1 DEF Upserted
    <2>2. new = rows
      BY <2>1 DEF RowsKept
    <2> QED BY <2>2
  <1>2. CASE Finding(rows, h) # {}
    <2>1. PICK f \in Finding(rows, h) : TRUE
      BY <1>2
    <2>2. /\ Finding(rows, h) = {f}
          /\ f \in Found /\ f.day <= t /\ Truthful(h, f.day, f.badge)
          /\ OpenDays(rows) # {} => f.day \in OpenDays(rows)
      BY FindingSound
    <2>3. new = Upserted(rows, {f})
      BY <2>2
    <2>4. /\ RowsKept(Upserted(rows, {f}), t)
          /\ \A d \in Day : Exists(rows[d]) => Exists(Upserted(rows, {f})[d])
          /\ \A d \in Day : Exists(Upserted(rows, {f})[d]) => Truthful(h, d, Upserted(rows, {f})[d])
          /\ OpenDays(Upserted(rows, {f})) \subseteq OpenDays(rows) \cup {f.day}
      BY <2>2, UpsertSound
    <2>5. (\A d, e \in OpenDays(rows) : d = e) => \A d, e \in OpenDays(new) : d = e
      <3> SUFFICES ASSUME \A d, e \in OpenDays(rows) : d = e
                   PROVE  \A d \in OpenDays(new) : d = f.day
        OBVIOUS
      <3>1. \A d \in OpenDays(new) : d \in OpenDays(rows) \/ d = f.day
        BY <2>3, <2>4
      <3>2. \A d \in OpenDays(rows) : d = f.day
        BY <2>2
      <3> QED BY <3>1, <3>2
    <2> QED BY <2>3, <2>4, <2>5
  <1> QED BY <1>1, <1>2

\* What no step takes back: snapshots and rows.
Grown ==
  \A p \in Product :
    /\ \/ history'[p] = history[p]
       \/ \E s \in Snapshot : s.day = today /\ history'[p] = Append(history[p], s)
    /\ \A d \in Day : Exists(events[p][d]) => Exists(events'[p][d])

LEMMA InitIInv == Init => IInv
  <1> SUFFICES ASSUME Init PROVE IInv
    OBVIOUS
  <1>1. NoEvent \in EventRow /\ ~Exists(NoEvent) /\ ~NoEvent.open
    BY DEF NoEvent, EventRow, Exists
  <1>2. \A p \in Product : \A d \in Day : events[p][d] = NoEvent
    BY DEF Init
  <1>3. events \in [Product -> [Day -> EventRow]]
    BY <1>1 DEF Init
  <1>4. \A p \in Product : RowsKept(events[p], today) /\ OpenDays(events[p]) = {}
    BY <1>1, <1>2, <1>3 DEF RowsKept, OpenDays
  <1>5. \A p \in Product : history[p] = <<>>
    BY DEF Init
  <1>6. \A p \in Product : Until(history[p], today)
    BY <1>5 DEF Until
  <1>7. history \in [Product -> Seq(Snapshot)]
    BY DEF Init
  <1>8. today \in Day
    BY PriceEventsAssumption DEF Init, Day
  <1>9. /\ direct \in [step : {"idle", "persist", "detect"}, todo : SUBSET Product,
                       read : SUBSET Reading]
        /\ direct.todo = {} /\ direct.read = {}
    BY DEF Init
  <1>10. Types
    BY <1>3, <1>4, <1>6, <1>7, <1>8, <1>9 DEF Types
  <1>11. Sound
    BY <1>1, <1>2, <1>9 DEF Sound
  <1>12. Alone
    BY <1>4, <1>9 DEF Alone
  <1> QED BY <1>10, <1>11, <1>12 DEF IInv

LEMMA NextDayIInv ==
  ASSUME IInv, NextDay
  PROVE  IInv' /\ Grown
  <1>1. /\ today' = today + 1 /\ today < MaxDay /\ today \in Day
        /\ history' = history /\ events' = events /\ direct' = direct /\ raced' = raced
    BY DEF IInv, Types, NextDay
  <1>2. today' \in Day /\ \A d \in Day : d <= today => d <= today'
    BY <1>1, PriceEventsAssumption DEF Day
  <1>3. \A p \in Product : Until(history'[p], today')
    <2>1. \A p \in Product : \A i \in DOMAIN history[p] :
            history[p][i].day \in Day /\ history[p][i].day <= today
      <3> SUFFICES ASSUME NEW p \in Product, NEW i \in DOMAIN history[p]
                   PROVE  history[p][i].day \in Day /\ history[p][i].day <= today
        OBVIOUS
      <3>1. history[p] \in Seq(Snapshot) /\ Until(history[p], today)
        BY DEF IInv, Types
      <3>2. history[p][i] \in Snapshot
        BY <3>1
      <3> QED BY <3>1, <3>2 DEF Until, Snapshot
    <2> QED BY <1>1, <1>2, <2>1 DEF Until
  <1>4. \A p \in Product : RowsKept(events'[p], today')
    BY <1>1, <1>2 DEF IInv, Types, RowsKept
  <1>5. \A r \in direct'.read : r.found.day <= today'
    <2>1. \A r \in direct.read : r.found.day \in Day /\ r.found.day <= today
      BY DEF IInv, Types, Reading, Found
    <2> QED BY <1>1, <1>2, <2>1
  <1>6. Types'
    BY <1>1, <1>2, <1>3, <1>4, <1>5 DEF IInv, Types
  <1>7. Sound' /\ Alone'
    BY <1>1 DEF IInv, Sound, Alone
  <1>8. Grown
    BY <1>1 DEF Grown
  <1> QED BY <1>6, <1>7, <1>8 DEF IInv

LEMMA IngestIInv ==
  ASSUME IInv, NEW batch \in Batches, NEW pass \in BOOLEAN, Ingest(batch, pass)
  PROVE  IInv' /\ Grown
  <1> DEFINE new == Persisted(history, Accepted(batch))
  <1>1. /\ history' = new
        /\ events' = (IF pass THEN Detected(events, history') ELSE events)
        /\ raced' = (IF pass THEN raced \cup {r.product : r \in direct.read} ELSE raced)
        /\ today' = today /\ direct' = direct
    BY DEF Ingest
  <1>2. Types /\ Sound /\ Alone
    BY DEF IInv
  <1>3. /\ new \in [Product -> Seq(Snapshot)]
        /\ \A p \in Product :
             /\ \/ new[p] = history[p]
                \/ \E s \in Snapshot : s.day = today /\ new[p] = Append(history[p], s)
             /\ Until(new[p], today)
             /\ history[p] # <<>> => new[p] # <<>>
    BY <1>2, BatchTyped, PersistedGrows
  <1> HIDE DEF new
  <1>4. /\ \A p \in Product : \A d \in Day :
             Exists(events[p][d]) => Truthful(new[p], d, events[p][d])
        /\ \A r \in direct.read : Truthful(new[r.product], r.found.day, r.found.badge)
    BY <1>2, <1>3, SoundGrows
  <1>5. ASSUME NEW p \in Product
        PROVE  /\ RowsKept(events'[p], today)
               /\ \A d \in Day : Exists(events[p][d]) => Exists(events'[p][d])
               /\ \A d \in Day : Exists(events'[p][d]) => Truthful(new[p], d, events'[p][d])
               /\ (\A d, e \in OpenDays(events[p]) : d = e) =>
                    \A d, e \in OpenDays(events'[p]) : d = e
    <2>1. RowsKept(events[p], today) /\ today \in Day
      BY <1>2 DEF Types
    <2>2. CASE pass /\ p \in Seen(new)
      <3>1. events'[p] = Upserted(events[p], Finding(events[p], new[p]))
        BY <1>1, <2>2 DEF Detected
      <3>2. new[p] # <<>> /\ new[p] \in Seq(Snapshot) /\ Until(new[p], today)
        BY <1>3, <2>2 DEF Seen
      <3> QED BY <1>4, <2>1, <3>1, <3>2, PassSound
    <2>3. CASE ~(pass /\ p \in Seen(new))
      <3>1. events'[p] = events[p]
        BY <1>1, <2>3 DEF Detected
      <3> QED BY <1>4, <2>1, <3>1
    <2> QED BY <2>2, <2>3
  <1>6. events' \in [Product -> [Day -> EventRow]]
    <2>1. CASE pass
      <3>1. events' = [p \in Product |-> IF p \in Seen(new)
                         THEN Upserted(events[p], Finding(events[p], new[p])) ELSE events[p]]
        BY <1>1, <2>1 DEF Detected
      <3>2. events' = [p \in Product |-> events'[p]]
        BY <3>1
      <3>3. \A p \in Product : events'[p] \in [Day -> EventRow]
        BY <1>5 DEF RowsKept
      <3> QED BY <3>2, <3>3
    <2>2. CASE ~pass
      BY <1>1, <1>2, <2>2 DEF Types
    <2> QED BY <2>1, <2>2
  <1>7. direct.todo \subseteq Seen(new)
    BY <1>2, <1>3 DEF Types, Seen
  <1>8. Types'
    BY <1>1, <1>2, <1>3, <1>5, <1>6, <1>7 DEF Types
  <1>9. Sound'
    BY <1>1, <1>4, <1>5 DEF Sound
  <1>10. Alone'
    <2>1. \A p \in Product : p \notin raced' => \A d, e \in OpenDays(events'[p]) : d = e
      BY <1>1, <1>2, <1>5 DEF Alone
    <2>2. \A r \in direct'.read : r.product \notin raced' => OpenDays(events'[r.product]) \subseteq {r.found.day}
      BY <1>1, <1>2 DEF Alone
    <2> QED BY <2>1, <2>2 DEF Alone
  <1>11. Grown
    BY <1>1, <1>3, <1>5 DEF Grown
  <1> QED BY <1>8, <1>9, <1>10, <1>11 DEF IInv

LEMMA DirectPersistIInv ==
  ASSUME IInv, NEW batch \in Batches, DirectPersist(batch)
  PROVE  IInv' /\ Grown
  <1> DEFINE new == Persisted(history, batch)
  <1>1. /\ history' = new
        /\ direct' = [direct EXCEPT !.step = "persist"]
        /\ today' = today /\ events' = events /\ raced' = raced
    BY DEF DirectPersist
  <1>2. Types /\ Sound /\ Alone
    BY DEF IInv
  <1>3. /\ new \in [Product -> Seq(Snapshot)]
        /\ \A p \in Product :
             /\ \/ new[p] = history[p]
                \/ \E s \in Snapshot : s.day = today /\ new[p] = Append(history[p], s)
             /\ Until(new[p], today)
             /\ history[p] # <<>> => new[p] # <<>>
    BY <1>2, BatchTyped, PersistedGrows
  <1> HIDE DEF new
  <1>4. /\ \A p \in Product : \A d \in Day :
             Exists(events[p][d]) => Truthful(new[p], d, events[p][d])
        /\ \A r \in direct.read : Truthful(new[r.product], r.found.day, r.found.badge)
    BY <1>2, <1>3, SoundGrows
  <1>5. /\ direct' \in [step : {"idle", "persist", "detect"}, todo : SUBSET Product,
                        read : SUBSET Reading]
        /\ direct'.todo = direct.todo /\ direct'.read = direct.read
    BY <1>1, <1>2 DEF Types
  <1>6. direct.todo \subseteq Seen(new)
    BY <1>2, <1>3 DEF Types, Seen
  <1>7. Types'
    BY <1>1, <1>2, <1>3, <1>5, <1>6 DEF Types
  <1>8. Sound'
    BY <1>1, <1>4, <1>5 DEF Sound
  <1>9. Alone'
    BY <1>1, <1>2, <1>5 DEF Alone
  <1>10. Grown
    BY <1>1, <1>3 DEF Grown
  <1> QED BY <1>7, <1>8, <1>9, <1>10 DEF IInv

LEMMA DirectStartIInv ==
  ASSUME IInv, DirectStart
  PROVE  IInv' /\ Grown
  <1>1. PICK todo \in {Seen(history), {}} :
          direct' = [direct EXCEPT !.step = "detect", !.todo = todo]
    BY DEF DirectStart
  <1>2. today' = today /\ history' = history /\ events' = events /\ raced' = raced
    BY DEF DirectStart
  <1>3. todo \subseteq Seen(history) /\ todo \subseteq Product
    BY DEF Seen
  <1>4. /\ direct' \in [step : {"idle", "persist", "detect"}, todo : SUBSET Product,
                        read : SUBSET Reading]
        /\ direct'.todo = todo /\ direct'.read = direct.read
    BY <1>1, <1>3 DEF IInv, Types
  <1>5. Types'
    BY <1>2, <1>3, <1>4 DEF IInv, Types
  <1>6. Sound' /\ Alone'
    BY <1>2, <1>4 DEF IInv, Sound, Alone
  <1>7. Grown
    BY <1>2 DEF Grown
  <1> QED BY <1>5, <1>6, <1>7 DEF IInv

LEMMA DirectReadIInv ==
  ASSUME IInv, NEW p \in Product, DirectRead(p)
  PROVE  IInv' /\ Grown
  <1> DEFINE found == Finding(events[p], history[p])
             read == {[product |-> p, found |-> f] : f \in found}
             todo == direct.todo \ {p}
  <1>1. /\ p \in direct.todo
        /\ direct' = [direct EXCEPT !.todo = todo, !.read = read]
        /\ today' = today /\ history' = history /\ events' = events /\ raced' = raced
    BY DEF DirectRead
  <1>2. Types /\ Sound /\ Alone
    BY DEF IInv
  <1>3. /\ history[p] \in Seq(Snapshot) /\ history[p] # <<>> /\ today \in Day
        /\ Until(history[p], today) /\ RowsKept(events[p], today)
    BY <1>1, <1>2 DEF Types, Seen
  <1>4. \A f \in found :
          /\ f \in Found /\ f.day <= today /\ Truthful(history[p], f.day, f.badge)
          /\ OpenDays(events[p]) # {} => f.day \in OpenDays(events[p])
    BY <1>3, FindingSound
  <1> HIDE DEF found
  <1>5. \A r \in read : r \in Reading /\ r.product = p /\ r.found \in found
    BY <1>4 DEF Reading
  <1>6. read \subseteq Reading /\ todo \subseteq Product /\ todo \subseteq Seen(history)
    BY <1>2, <1>5 DEF Types
  <1> HIDE DEF read, todo
  <1>7. /\ direct' \in [step : {"idle", "persist", "detect"}, todo : SUBSET Product,
                        read : SUBSET Reading]
        /\ direct'.todo = todo /\ direct'.read = read
    BY <1>1, <1>2, <1>6 DEF Types
  <1>8. \A r \in read : r.found.day <= today
    BY <1>4, <1>5
  <1>9. Types'
    BY <1>1, <1>2, <1>6, <1>7, <1>8 DEF Types
  <1>10. Sound'
    <2>1. \A r \in read : Truthful(history[r.product], r.found.day, r.found.badge)
      BY <1>4, <1>5
    <2> QED BY <1>1, <1>2, <1>7, <2>1 DEF Sound
  <1>11. Alone'
    <2>1. \A r \in read : r.product \notin raced => OpenDays(events[r.product]) \subseteq {r.found.day}
      <3> SUFFICES ASSUME NEW r \in read, p \notin raced, NEW d \in OpenDays(events[p])
                   PROVE  d = r.found.day
        BY <1>5
      <3>1. r.found.day \in OpenDays(events[p])
        BY <1>4, <1>5
      <3> QED BY <1>2, <3>1 DEF Alone
    <2> QED BY <1>1, <1>2, <1>7, <2>1 DEF Alone
  <1>12. Grown
    BY <1>1 DEF Grown
  <1> QED BY <1>9, <1>10, <1>11, <1>12 DEF IInv

LEMMA DirectUpsertIInv ==
  ASSUME IInv, DirectUpsert
  PROVE  IInv' /\ Grown
  <1>1. PICK r \in direct.read :
          events' = [events EXCEPT ![r.product] = Upserted(@, {r.found})]
    BY DEF DirectUpsert
  <1>2. /\ direct' = [direct EXCEPT !.read = {}]
        /\ today' = today /\ history' = history /\ raced' = raced
    BY DEF DirectUpsert
  <1>3. Types /\ Sound /\ Alone
    BY DEF IInv
  <1> DEFINE q == r.product
             f == r.found
             new == Upserted(events[q], {f})
  <1>4. q \in Product /\ f \in Found /\ f.day <= today /\ today \in Day /\ RowsKept(events[q], today)
    BY <1>3 DEF Types, Reading
  <1>5. \A p \in Product : events'[p] = IF p = q THEN new ELSE events[p]
    BY <1>1, <1>3 DEF Types
  <1>6. /\ RowsKept(new, today)
        /\ \A d \in Day : Exists(events[q][d]) => Exists(new[d])
        /\ \A d \in Day : Exists(new[d]) => Truthful(history[q], d, new[d])
        /\ OpenDays(new) \subseteq OpenDays(events[q]) \cup {f.day}
    <2>1. /\ \A d \in Day : Exists(events[q][d]) => Truthful(history[q], d, events[q][d])
          /\ Truthful(history[q], f.day, f.badge)
      BY <1>3, <1>4 DEF Sound
    <2> HIDE DEF q, f
    <2> QED BY <1>4, <2>1, UpsertSound
  <1>7. q \notin raced => OpenDays(new) \subseteq {f.day}
    BY <1>3, <1>6 DEF Alone
  <1>8. events' = [events EXCEPT ![q] = new]
    BY <1>1
  <1> HIDE DEF new, q, f
  <1>9. events' \in [Product -> [Day -> EventRow]]
    BY <1>3, <1>6, <1>8 DEF Types, RowsKept
  <1>10. /\ direct' \in [step : {"idle", "persist", "detect"}, todo : SUBSET Product,
                         read : SUBSET Reading]
         /\ direct'.todo = direct.todo /\ direct'.read = {}
    BY <1>2, <1>3 DEF Types
  <1>11. Types'
    BY <1>2, <1>3, <1>5, <1>6, <1>9, <1>10 DEF Types
  <1>12. Sound'
    BY <1>2, <1>3, <1>5, <1>6, <1>10 DEF Sound
  <1>13. Alone'
    BY <1>2, <1>3, <1>5, <1>7, <1>10 DEF Alone
  <1>14. Grown
    BY <1>2, <1>5, <1>6 DEF Grown
  <1> QED BY <1>11, <1>12, <1>13, <1>14 DEF IInv

LEMMA DirectCloseIInv ==
  ASSUME IInv, DirectClose
  PROVE  IInv' /\ Grown
  <1> DEFINE Closed(p) == [d \in Day |-> [events[p][d] EXCEPT !.open = FALSE]]
  <1>1. PICK gone \in SUBSET Seen(history) :
          events' = [p \in Product |-> IF p \in gone THEN Closed(p) ELSE events[p]]
    BY DEF DirectClose
  <1>2. /\ direct' = [direct EXCEPT !.step = "idle"] /\ direct.read = {}
        /\ today' = today /\ history' = history /\ raced' = raced
    BY DEF DirectClose
  <1>3. Types /\ Sound /\ Alone
    BY DEF IInv
  <1>4. ASSUME NEW p \in Product, NEW d \in Day
        PROVE  /\ events'[p][d] \in EventRow
               /\ (events'[p][d].open => events[p][d].open)
               /\ events'[p][d].state = events[p][d].state
               /\ events'[p][d].current = events[p][d].current
               /\ events'[p][d].reference = events[p][d].reference
    <2> DEFINE row == events[p][d]
    <2>1. row \in EventRow
      BY <1>3 DEF Types
    <2>2. CASE p \in gone
      <3>1. events'[p][d] = [row EXCEPT !.open = FALSE]
        BY <1>1, <2>2
      <3> HIDE DEF row
      <3>2. [row EXCEPT !.open = FALSE] \in EventRow
        BY <2>1 DEF EventRow
      <3>3. LET n == [row EXCEPT !.open = FALSE]
            IN  ~n.open /\ n.state = row.state /\ n.current = row.current /\ n.reference = row.reference
        BY <2>1 DEF EventRow
      <3> QED BY <3>1, <3>2, <3>3 DEF row
    <2>3. CASE p \notin gone
      BY <1>1, <2>1, <2>3
    <2> QED BY <2>2, <2>3
  <1>12. \A p \in Product : \A d \in Day : events'[p][d].open => events[p][d].open
    BY <1>4
  <1>5. events' \in [Product -> [Day -> EventRow]]
    <2>1. \A p \in Product : events'[p] \in [Day -> EventRow]
      <3> SUFFICES ASSUME NEW p \in Product PROVE events'[p] \in [Day -> EventRow]
        OBVIOUS
      <3>1. \A d \in Day : events'[p][d] \in EventRow
        BY <1>4
      <3>2. CASE p \in gone
        <4>1. events'[p] = Closed(p)
          BY <1>1, <3>2
        <4> QED BY <3>1, <4>1
      <3>3. CASE p \notin gone
        BY <1>1, <1>3, <3>3 DEF Types
      <3> QED BY <3>2, <3>3
    <2> QED BY <1>1, <2>1
  <1>6. \A p \in Product : RowsKept(events'[p], today)
    <2> SUFFICES ASSUME NEW p \in Product PROVE RowsKept(events'[p], today)
      OBVIOUS
    <2>1. RowsKept(events[p], today) /\ events'[p] \in [Day -> EventRow]
      BY <1>3, <1>5 DEF Types
    <2> QED BY <1>4, <2>1 DEF RowsKept, Exists
  <1>7. /\ direct' \in [step : {"idle", "persist", "detect"}, todo : SUBSET Product,
                        read : SUBSET Reading]
        /\ direct'.todo = direct.todo /\ direct'.read = {}
    BY <1>2, <1>3 DEF Types
  <1>8. Types'
    BY <1>2, <1>3, <1>5, <1>6, <1>7 DEF Types
  <1>9. Sound'
    <2>1. \A p \in Product : \A d \in Day :
            Exists(events'[p][d]) => Truthful(history[p], d, events'[p][d])
      BY <1>3, <1>4 DEF Sound, Truthful, Exists
    <2> QED BY <1>2, <1>7, <2>1 DEF Sound
  <1>10. Alone'
    <2>1. \A p \in Product : OpenDays(events'[p]) \subseteq OpenDays(events[p])
      BY <1>12 DEF OpenDays
    <2> QED BY <1>2, <1>3, <1>7, <2>1 DEF Alone
  <1>11. Grown
    BY <1>2, <1>4 DEF Grown, Exists
  <1> QED BY <1>8, <1>9, <1>10, <1>11 DEF IInv

LEMMA StepIInv ==
  ASSUME IInv, [Next]_vars
  PROVE  IInv' /\ Grown
  <1>1. CASE UNCHANGED vars
    BY <1>1 DEF vars, IInv, Types, Sound, Alone, Grown
  <1>2. CASE Next
    BY <1>2, NextDayIInv, IngestIInv, DirectPersistIInv, DirectStartIInv, DirectReadIInv,
       DirectUpsertIInv, DirectCloseIInv DEF Next
  <1> QED BY <1>1, <1>2

-----------------------------------------------------------------------------
\* Theorems.

\* The typed history, what rows and readings say of it, and who may have an open
\* row: what no step of a pass or of the direct pass takes back.
THEOREM Invariance == Spec => []IInv
  <1>1. IInv /\ [Next]_vars => IInv'
    BY StepIInv
  <1> QED BY InitIInv, <1>1, PTL DEF Spec

\* A badge says what the history says, in a row written long ago or late: the
\* price is below each of the product's own in the window before the event by the
\* promised share, and there were enough of them.
THEOREM VerifiedHolds == Spec => []VerifiedTruthful
  <1>1. IInv => VerifiedTruthful
    <2> SUFFICES ASSUME IInv, NEW p \in Product, NEW d \in Day,
                        events[p][d].state \in {"verified", "verified_provisional"}
                 PROVE  LET h == history[p]
                            e == events[p][d]
                            before == {i \in DOMAIN h : h[i].day \in (d - WindowDays)..(d - 1)
                                                        /\ Valid(h[i])}
                        IN  /\ Cardinality(before) >= MinProvisional
                            /\ \A i \in before : Pct(h[i].price - e.current, h[i].price) >= MinVerified
                            /\ e.state = "verified" =>
                                 /\ Cardinality(before) >= MinReference
                                 /\ \E i \in before : h[i].day <= d - WindowDays + 1
      BY DEF VerifiedTruthful
    <2> DEFINE h == history[p]
               e == events[p][d]
               before == {i \in DOMAIN h : h[i].day \in (d - WindowDays)..(d - 1) /\ Valid(h[i])}
    <2>1. before = Window(h, d)
      <3>1. \A i \in DOMAIN h : h[i].day \in Int
        <4>1. h \in Seq(Snapshot)
          BY DEF IInv, Types
        <4>2. \A i \in DOMAIN h : h[i] \in Snapshot
          BY <4>1
        <4>3. \A x \in Snapshot : x.day \in Int
          BY PriceEventsAssumption DEF Snapshot, Day
        <4> QED BY <4>2, <4>3
      <3>2. d \in Int /\ WindowDays \in Int
        BY PriceEventsAssumption, ConfigAssumption DEF Day
      <3> HIDE DEF h
      <3>3. \A i \in DOMAIN h : h[i].day \in (d - WindowDays)..(d - 1) <=>
                                  d - WindowDays <= h[i].day /\ h[i].day < d
        BY <3>1, <3>2
      <3> QED BY <3>3 DEF Window
    <2>2. Exists(e)
      BY DEF Exists
    <2>3. Truthful(h, d, e)
      BY <2>2 DEF IInv, Sound
    <2> HIDE DEF before, h, e
    <2>4. e.state \in {"verified", "verified_provisional"}
      BY DEF e
    <2>5. /\ Cardinality(before) >= MinProvisional
          /\ \A i \in before : Pct(h[i].price - e.current, h[i].price) >= MinVerified
          /\ e.state = "verified" =>
               /\ Cardinality(before) >= MinReference
               /\ \E i \in before : h[i].day <= d - WindowDays + 1
      BY <2>1, <2>3, <2>4 DEF Truthful
    <2> QED BY <2>5 DEF before, h, e
  <1> QED BY Invariance, <1>1, PTL

\* A product has one open event at most, unless the direct pass wrote what it had
\* read before another pass wrote.
THEOREM TwinsHold == Spec => []TwinsOnlyByRace
  <1>1. IInv => TwinsOnlyByRace
    <2> SUFFICES ASSUME IInv, NEW p \in Product \ raced
                 PROVE  Cardinality(OpenDays(events[p])) <= 1
      BY DEF TwinsOnlyByRace
    <2> DEFINE S == OpenDays(events[p])
    <2>1. \A d, e \in S : d = e
      BY DEF IInv, Alone
    <2> HIDE DEF S
    <2>2. CASE S = {}
      <3>1. Cardinality(S) = 0
        BY <2>2, FS_EmptySet
      <3> QED BY <3>1 DEF S
    <2>3. CASE S # {}
      <3>1. PICK d \in S : S = {d}
        BY <2>1, <2>3
      <3>2. Cardinality(S) = 1
        BY <3>1, FS_Singleton
      <3> QED BY <3>2 DEF S
    <2> QED BY <2>2, <2>3
  <1> QED BY Invariance, <1>1, PTL

\* The base of an event is frozen: it is what the history says of the day of the
\* announcement, and no snapshot that follows can change that.
THEOREM BaseHolds == Spec => BaseFrozen
  <1>1. ASSUME IInv, [Next]_vars
        PROVE  \A p \in Product : \A d \in Day : Exists(events[p][d]) =>
                 /\ Exists(events'[p][d])
                 /\ events'[p][d].reference = events[p][d].reference
    <2>1. IInv' /\ Grown
      BY <1>1, StepIInv
    <2>2. /\ history' \in [Product -> Seq(Snapshot)]
          /\ \A p \in Product : \A d \in Day :
               Exists(events'[p][d]) => Truthful(history'[p], d, events'[p][d])
      BY <2>1 DEF IInv, Types, Sound
    <2>3. Types /\ Sound
      BY <1>1 DEF IInv
    <2>4. \A p \in Product : \A d \in Day : d <= today => Base(history'[p], d) = Base(history[p], d)
      BY <2>1, <2>2, <2>3, SoundGrows DEF Grown
    <2> SUFFICES ASSUME NEW p \in Product, NEW d \in Day, Exists(events[p][d])
                 PROVE  /\ Exists(events'[p][d])
                        /\ events'[p][d].reference = events[p][d].reference
      OBVIOUS
    <2>5. Exists(events'[p][d])
      BY <2>1 DEF Grown
    <2>6. d <= today
      BY <2>3 DEF Types, RowsKept
    <2>7. events[p][d].reference = Base(history[p], d)
      BY <2>3 DEF Sound, Truthful
    <2>8. events'[p][d].reference = Base(history'[p], d)
      BY <2>2, <2>5 DEF Truthful
    <2> QED BY <2>4, <2>5, <2>6, <2>7, <2>8
  <1>2. IInv /\ [Next]_vars =>
          [\A p \in Product : \A d \in Day : Exists(events[p][d]) =>
             /\ Exists(events'[p][d])
             /\ events'[p][d].reference = events[p][d].reference]_vars
    BY <1>1
  <1> QED BY Invariance, <1>2, PTL DEF Spec, BaseFrozen

\* infer_announce_day, which walks back a day at a time, finds the campaign as
\* it is documented, whatever the history.
THEOREM CampaignHolds == Spec => []CampaignStart
  <1>1. IInv => CampaignStart
    <2> SUFFICES ASSUME IInv, NEW p \in Product
                 PROVE  LET h    == history[p]
                            days == ValidDays(h)
                            disc == DiscountDays(h)
                            next(e)  == MinOf({d \in disc : d > e})
                            apart(d) == \E e \in days \ disc : d < e /\ next(e) - e >= CampaignGap
                        IN  Inferred(h) = IF days # {} /\ MaxOf(days) \in disc
                                            THEN {MinOf({d \in disc : ~apart(d)})} ELSE {}
      BY DEF CampaignStart
    <2>1. history[p] \in Seq(Snapshot) /\ Until(history[p], today) /\ today \in Day
      BY DEF IInv, Types
    <2>2. Inferred(history[p]) =
            IF ValidDays(history[p]) # {} /\ MaxOf(ValidDays(history[p])) \in DiscountDays(history[p])
              THEN {MinOf({d \in DiscountDays(history[p]) :
                             ~Apart(ValidDays(history[p]), DiscountDays(history[p]), d)})}
              ELSE {}
      BY <2>1, InferredFirst
    <2> QED BY <2>2 DEF Apart, NextOf
  <1> QED BY Invariance, <1>1, PTL

=============================================================================
