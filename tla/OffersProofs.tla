---------------------------- MODULE OffersProofs ----------------------------
(***************************************************************************)
(* From a page to what is offered, for anything that pages may hold: that  *)
(* what is stored of a page is what it shows, whatever cards it has and    *)
(* however many; that a product stands on the shelf of the page it was     *)
(* last seen on and no other site is visited, for any products and links;  *)
(* that the choice of a shop is sound for any shops, prices, delivery      *)
(* rules and discounts, rounding included; and that different products     *)
(* never get one key, and listings that say the same of one always do.     *)
(***************************************************************************)
EXTENDS ShopPages, Catalogue, Choice, Matching, FiniteSetTheorems, WellFoundedInduction, TLAPS

LEMMA LeastThere ==
  ASSUME NEW S, S \subseteq Nat, S # {}
  PROVE  \E m \in S : \A n \in S : m <= n
  <1>1. PICK m \in S : \A n \in S : ~(<<n, m>> \in OpToRel(<, Nat))
    BY NatLessThanWellFounded, WFMin
  <1>2. ASSUME NEW n \in S PROVE m <= n
    <2>1. n \in Nat /\ m \in Nat /\ <<n, m>> \notin {p \in Nat \X Nat : p[1] < p[2]}
      BY <1>1 DEF OpToRel
    <2>2. ~(n < m)
      BY <2>1
    <2> QED BY <2>1, <2>2
  <1> QED BY <1>2

-----------------------------------------------------------------------------
\* Pages.  The adapters by what they do.
Plain == {"Allo", "Citrus", "Comfy", "DniproM", "KTC", "MakeUp", "MAUDAU"}
AtHome == {"Brain", "Moyo", "Rozetka"}
Stocked == {"Epicentr", "Foxtrot", "Vencon", "Apteka911"}
Open == {"Antoshka", "Fotosale", "MasterZoo", "Zootovary"}
Varied == {"Autopresent", "MedMagazin", "Storgom"}
Single == {"Interatletika", "Yabko"}

LEMMA ReadGroups ==
  ASSUME NEW s, NEW c
  PROVE  /\ s \in Plain => Read(s, c) = Reduced(c)
         /\ s \in AtHome => Read(s, c) = HomeOnly(c, Reduced(c))
         /\ s \in Stocked => Read(s, c) = StockRead(c)
         /\ s \in Open => Read(s, c) = AsShown(c)
         /\ s = "MedMagazin" => Read(s, c) = GridOnly(c, AsShown(c))
         /\ s = "Storgom" => Read(s, c) = Storgom(c)
         /\ s = "Autopresent" => Read(s, c) = Autopresent(c)
         /\ s \in Single => Read(s, c) = NowOnly(c)
         /\ s \in Direct => Read(s, c) = Variant(c)
         /\ s = "Eldorado" => Read(s, c) = Eldorado(c)
         /\ s = "Stylus" => Read(s, c) = Stylus(c)
         /\ s = "Telemart" => Read(s, c) = Telemart(c)
         /\ s = "Podorozhnyk" => Read(s, c) = Podorozhnyk(c)
         /\ s = "AddUa" => Read(s, c) = AddUa(c)
  <1>1. s \in Plain => Read(s, c) = Reduced(c)
    BY DEF Plain, Read, Allo, Citrus, Comfy, DniproM, KTC, MakeUp, MAUDAU
  <1>2. s \in AtHome => Read(s, c) = HomeOnly(c, Reduced(c))
    BY DEF AtHome, Read, Brain, Moyo, Rozetka
  <1>3. s \in Stocked => Read(s, c) = StockRead(c)
    BY DEF Stocked, Read, Epicentr, Foxtrot, Vencon, Apteka911
  <1>4. s \in Open => Read(s, c) = AsShown(c)
    BY DEF Open, Read, Antoshka, Fotosale, MasterZoo, Zootovary
  <1>5. /\ s = "MedMagazin" => Read(s, c) = GridOnly(c, AsShown(c))
        /\ s = "Storgom" => Read(s, c) = Storgom(c)
        /\ s = "Autopresent" => Read(s, c) = Autopresent(c)
    BY DEF Read, MedMagazin
  <1>6. s \in Single => Read(s, c) = NowOnly(c)
    BY DEF Single, Read, Interatletika, Yabko
  <1>7. s \in Direct => Read(s, c) = Variant(c)
    BY DEF Direct, Read, Pethouse, PetChoice
  <1>8. /\ s = "Eldorado" => Read(s, c) = Eldorado(c)
        /\ s = "Stylus" => Read(s, c) = Stylus(c)
        /\ s = "Telemart" => Read(s, c) = Telemart(c)
        /\ s = "Podorozhnyk" => Read(s, c) = Podorozhnyk(c)
        /\ s = "AddUa" => Read(s, c) = AddUa(c)
    BY DEF Read
  <1> QED BY <1>1, <1>2, <1>3, <1>4, <1>5, <1>6, <1>7, <1>8

LEMMA AllShops ==
  Shop = Plain \cup AtHome \cup Stocked \cup Open \cup Varied \cup Single \cup Direct
           \cup {"Eldorado", "Stylus", "Telemart", "Podorozhnyk", "AddUa"}
  BY DEF Shop, Direct, Plain, AtHome, Stocked, Open, Varied, Single

-----------------------------------------------------------------------------
\* What an adapter may make of a card.
Money == Nat \cup {None}

Raw == [ref : Ref, now : Nat, old : Money, inStock : BOOLEAN, titled : BOOLEAN, home : BOOLEAN]

LEMMA NumberIsNotNone ==
  ASSUME NEW n \in Nat
  PROVE  n # None
  BY DEF None

LEMMA CardTypes ==
  ASSUME NEW s \in Shop, NEW c \in Card(s)
  PROVE  /\ c.ref \in Ref /\ c.ref \in Nat /\ c.ref # None
         /\ c.price \in Money /\ c.before \in Money /\ c.mark \in Mark(s)
  <1>1. /\ Ref \subseteq Nat /\ Shown \subseteq Nat
    BY PagesAssumption
  <1>2. /\ c.ref \in Ref /\ c.price \in Shown \cup {None} /\ c.before \in Shown \cup {None}
        /\ c.mark \in Mark(s)
    BY DEF Card
  <1>3. c.ref \in Nat /\ c.ref # None
    BY <1>1, <1>2, NumberIsNotNone
  <1> QED BY <1>1, <1>2, <1>3 DEF Money

LEMMA MarkFacts ==
  ASSUME NEW s \in Shop, NEW m \in Mark(s)
  PROVE  /\ m \in {"in", "out"} => s \in WithStock
         /\ m = "aside" => s \in WithAside
         /\ m = "prescription" => s = "Podorozhnyk"
         /\ m \in {"plain", "bare", "abroad", "untitled", "unlinked", "in", "out", "aside",
                   "prescription"}
  BY DEF Mark, Incomplete

LEMMA HigherFacts ==
  ASSUME NEW o \in Money, NEW n \in Money
  PROVE  /\ Higher(o, n) \in {None, o} /\ Higher(o, n) \in Money
         /\ Higher(o, n) = None \/ Higher(o, n) > n
  BY DEF Higher, Money, None

LEMMA TakeFacts ==
  ASSUME NEW s \in Shop, NEW c \in Card(s), NEW now \in Money, NEW old \in Money,
         NEW inStock \in BOOLEAN
  PROVE  LET i == Take(c, now, old, inStock) IN
         /\ IsItem(i) =>
              /\ i \in Raw /\ i.ref = c.ref /\ i.now = now /\ i.old = old /\ i.inStock = inStock
              /\ i.titled /\ i.home = (c.mark # "abroad")
         /\ IsItem(i) <=> c.mark \notin Incomplete /\ now # None
  <1>0. /\ c.ref \in Ref /\ c.ref # None
        /\ now # None => now \in Nat
    BY CardTypes DEF Money
  <1>1. CASE c.mark \in Incomplete \/ now = None
    BY <1>1 DEF Take, NoItem, IsItem
  <1>2. CASE c.mark \notin Incomplete /\ now # None
    <2>1. Take(c, now, old, inStock) = RawItem(c, now, old, inStock)
      BY <1>2 DEF Take
    <2>2. RawItem(c, now, old, inStock) \in Raw
      BY <1>0, <1>2 DEF RawItem, Raw
    <2>3. c.mark # "untitled"
      BY <1>2 DEF Incomplete
    <2> DEFINE i == RawItem(c, now, old, inStock)
    <2>4. /\ i.ref = c.ref /\ i.now = now /\ i.old = old /\ i.inStock = inStock
      BY DEF RawItem
    <2>5. /\ i.titled
          /\ i.home = (c.mark # "abroad")
      BY <2>3 DEF RawItem
    <2>6. IsItem(i)
      BY <1>0, <2>4 DEF IsItem
    <2> HIDE DEF i
    <2> QED BY <1>2, <2>1, <2>2, <2>4, <2>5, <2>6 DEF i
  <1> QED BY <1>1, <1>2

-----------------------------------------------------------------------------
\* What is asked of an adapter: an item says what the card says, of a card
\* without what one needs there is none, and of one that is to be sold there is
\* one that the server will not refuse.
Faithful(c, i) ==
  /\ i \in Raw /\ i.ref = c.ref
  /\ (shop = "Stylus" => Natural(c)) =>
       \/ i.now = c.price /\ i.old \in {None, c.before}
       \/ CrossedOut(c) /\ i.now = c.before /\ i.old = c.before
  /\ shop \in WithStock \ {"Interatletika"} => (i.inStock => c.mark # "out")
  /\ c.mark # "prescription" /\ (c.mark = "aside" => shop = "Podorozhnyk")

Acceptable(i) ==
  /\ i.home /\ i.titled /\ InRange(i.now)
  /\ i.old = None \/ InRange(i.old)

ReadWell(c) ==
  /\ IsItem(Read(shop, c)) => Faithful(c, Read(shop, c))
  /\ shop \notin Direct /\ Unreadable(c) => ~IsItem(Read(shop, c))
  /\ ToBeSold(c) => IsItem(Read(shop, c)) /\ (shop \notin Direct => Acceptable(Read(shop, c)))

LEMMA InRangeFacts ==
  ASSUME NEW n \in Money, InRange(n)
  PROVE  n \in Nat /\ n # None /\ n > 0
  <1>1. PRICE_MIN_KOP \in Nat /\ PRICE_MIN_KOP # 0
    BY PagesAssumption
  <1>2. PRICE_MIN_KOP <= n
    BY DEF InRange
  <1> QED BY <1>1, <1>2 DEF Money, None

\* The adapters that take a card, if at all, with its own price.
LEMMA TakenWell ==
  ASSUME shop \in Shop \ (Direct \cup {"Stylus"}), NEW c \in Card(shop),
         NEW now \in {None, c.price}, NEW old \in {None, c.before}, NEW inStock \in BOOLEAN,
         NEW kept \in BOOLEAN,
         Read(shop, c) = IF kept THEN Take(c, now, old, inStock) ELSE NoItem,
         kept => c.mark # "prescription" /\ (c.mark = "aside" => shop = "Podorozhnyk"),
         shop \in WithStock \ {"Interatletika"} => (inStock => c.mark # "out"),
         ToBeSold(c) => kept /\ now = c.price /\ (old = None \/ InRange(old))
  PROVE  ReadWell(c)
  <1> DEFINE i == Take(c, now, old, inStock)
  <1>1. /\ c.price \in Money /\ c.before \in Money /\ now \in Money /\ old \in Money
    BY CardTypes DEF Money
  <1>2. /\ IsItem(i) =>
             /\ i \in Raw /\ i.ref = c.ref /\ i.now = now /\ i.old = old /\ i.inStock = inStock
             /\ i.titled /\ i.home = (c.mark # "abroad")
        /\ IsItem(i) <=> c.mark \notin Incomplete /\ now # None
    BY <1>1, TakeFacts
  <1>3. Read(shop, c) = IF kept THEN i ELSE NoItem
    OBVIOUS
  <1>4. ~IsItem(NoItem)
    BY DEF IsItem, NoItem
  <1>5. shop # "Stylus" /\ shop \notin Direct
    OBVIOUS
  <1> HIDE DEF i
  <1>6. IsItem(Read(shop, c)) => Faithful(c, Read(shop, c))
    <2> SUFFICES ASSUME IsItem(Read(shop, c)) PROVE Faithful(c, Read(shop, c))
      OBVIOUS
    <2>1. kept /\ Read(shop, c) = i
      BY <1>3, <1>4
    <2>2. now # None /\ now = c.price
      BY <1>2, <2>1
    <2> QED BY <1>2, <1>5, <2>1, <2>2 DEF Faithful
  <1>7. Unreadable(c) => ~IsItem(Read(shop, c))
    <2> SUFFICES ASSUME Unreadable(c) PROVE ~IsItem(Read(shop, c))
      OBVIOUS
    <2>1. c.mark \in Incomplete \/ now = None
      BY DEF Unreadable
    <2> QED BY <1>2, <1>3, <1>4, <2>1
  <1>8. ToBeSold(c) => IsItem(Read(shop, c)) /\ Acceptable(Read(shop, c))
    <2> SUFFICES ASSUME ToBeSold(c) PROVE IsItem(Read(shop, c)) /\ Acceptable(Read(shop, c))
      OBVIOUS
    <2>1. Read(shop, c) = i /\ now = c.price
      BY <1>3
    <2>2. c.mark \in {"plain", "bare", "in", "out"} /\ InRange(c.price)
      BY DEF ToBeSold
    <2>3. c.mark \notin Incomplete /\ c.mark # "abroad"
      BY <2>2 DEF Incomplete
    <2>4. now # None
      BY <1>1, <2>1, <2>2, InRangeFacts
    <2>5. IsItem(i)
      BY <1>2, <2>3, <2>4
    <2>6. i.now = now /\ i.old = old /\ i.titled /\ i.home
      BY <1>2, <2>3, <2>5
    <2> QED BY <2>1, <2>2, <2>5, <2>6 DEF Acceptable
  <1> QED BY <1>6, <1>7, <1>8 DEF ReadWell

\* Old prices: what Higher lets through is in range if the card is to be sold.
LEMMA OldInRange ==
  ASSUME shop \in Shop, NEW c \in Card(shop), ToBeSold(c)
  PROVE  /\ InRange(c.price) /\ c.mark \in {"plain", "bare", "in", "out"}
         /\ shop \in OldPassedOn => c.before = None \/ InRange(c.before)
         /\ shop \notin {"Interatletika", "Yabko", "AddUa"} =>
              Higher(c.before, c.price) = None \/ InRange(Higher(c.before, c.price))
  <1>1. c.before \in Money /\ c.price \in Money
    BY CardTypes
  <1>2. c.before <= c.price => ~(c.before > c.price)
    BY <1>1 DEF Money, None
  <1> QED BY <1>2 DEF ToBeSold, Higher

LEMMA PlainReadWell ==
  ASSUME shop \in Plain \cup AtHome \cup {"Eldorado"}, NEW c \in Card(shop)
  PROVE  ReadWell(c)
  <1> DEFINE old == Higher(c.before, c.price)
             kept == /\ shop \in AtHome => c.mark # "abroad"
                     /\ shop = "Eldorado" => c.price # 0
  <1>1. shop \in Shop \ (Direct \cup {"Stylus"}) /\ shop \notin WithStock \cup WithAside
    BY DEF Plain, AtHome, Shop, Direct, WithStock, WithAside
  <1>2. c.price \in Money /\ c.before \in Money /\ c.mark \in Mark(shop)
    BY <1>1, CardTypes
  <1>3. old \in {None, c.before}
    BY <1>2, HigherFacts
  <1>4. Read(shop, c) = IF kept THEN Take(c, c.price, old, TRUE) ELSE NoItem
    BY ReadGroups DEF Reduced, HomeOnly, Eldorado, Plain, AtHome
  <1>5. c.mark # "prescription" /\ c.mark # "aside"
    BY <1>1, <1>2, MarkFacts DEF Plain, AtHome
  <1>6. ToBeSold(c) => kept /\ (old = None \/ InRange(old))
    <2> SUFFICES ASSUME ToBeSold(c) PROVE kept /\ (old = None \/ InRange(old))
      OBVIOUS
    <2>1. InRange(c.price) /\ c.mark # "abroad"
      BY <1>1, OldInRange
    <2>2. c.price # 0
      BY <1>2, <2>1, InRangeFacts
    <2>3. shop \notin {"Interatletika", "Yabko", "AddUa"}
      BY DEF Plain, AtHome
    <2> QED BY <1>1, <2>1, <2>2, <2>3, OldInRange
  <1> HIDE DEF old, kept
  <1> QED BY <1>1, <1>2, <1>3, <1>4, <1>5, <1>6, TakenWell

LEMMA StockedReadWell ==
  ASSUME shop \in Stocked, NEW c \in Card(shop)
  PROVE  ReadWell(c)
  <1> DEFINE old == Higher(c.before, c.price)
             inStock == c.mark # "out"
  <1>1. /\ shop \in Shop \ (Direct \cup {"Stylus"}) /\ shop \notin WithAside
        /\ shop \notin {"Interatletika", "Yabko", "AddUa"} /\ shop # "Podorozhnyk"
    BY DEF Stocked, Shop, Direct, WithAside
  <1>2. c.price \in Money /\ c.before \in Money /\ c.mark \in Mark(shop)
    BY <1>1, CardTypes
  <1>3. old \in {None, c.before}
    BY <1>2, HigherFacts
  <1>4. Read(shop, c) = IF TRUE THEN Take(c, c.price, old, inStock) ELSE NoItem
    BY ReadGroups DEF StockRead
  <1>5. c.mark # "prescription" /\ c.mark # "aside"
    BY <1>1, <1>2, MarkFacts
  <1>6. ToBeSold(c) => old = None \/ InRange(old)
    BY <1>1, OldInRange
  <1>7. (inStock => c.mark # "out") /\ inStock \in BOOLEAN
    OBVIOUS
  <1> HIDE DEF old, inStock
  <1> QED BY <1>1, <1>2, <1>3, <1>4, <1>5, <1>6, <1>7, TakenWell

\* The adapters that pass on what is shown, where they take the price itself.
LEMMA OpenReadWell ==
  ASSUME shop \in Open \cup Varied, NEW c \in Card(shop), ~CrossedOut(c)
  PROVE  ReadWell(c)
  <1> DEFINE kept == shop \in WithAside => c.mark # "aside"
             old == IF shop = "Storgom" /\ c.mark = "bare" THEN None ELSE c.before
  <1>1. /\ shop \in Shop \ (Direct \cup {"Stylus"}) /\ shop \notin WithStock
        /\ shop \in OldPassedOn /\ shop # "Podorozhnyk"
        /\ shop \in WithAside <=> shop \in {"Autopresent", "MedMagazin"}
    BY DEF Open, Varied, Shop, Direct, WithStock, WithAside, OldPassedOn
  <1>2. c.price \in Money /\ c.before \in Money /\ c.mark \in Mark(shop)
    BY <1>1, CardTypes
  <1>3. Read(shop, c) = IF kept THEN Take(c, c.price, old, TRUE) ELSE NoItem
    <2>1. CASE shop \in Open
      BY <1>1, <2>1, ReadGroups DEF AsShown, Open
    <2>2. CASE shop = "MedMagazin"
      BY <1>1, <2>2, ReadGroups DEF AsShown, GridOnly
    <2>3. CASE shop = "Storgom"
      BY <1>1, <2>3, ReadGroups DEF Storgom, AsShown, NowOnly
    <2>4. CASE shop = "Autopresent"
      <3>1. (IF c.mark = "bare" THEN FirstNumber(c) ELSE c.price) = c.price
        BY <2>4 DEF CrossedOut, FirstNumber
      <3> QED BY <1>1, <2>4, <3>1, ReadGroups DEF Autopresent, GridOnly
    <2> QED BY <2>1, <2>2, <2>3, <2>4 DEF Varied
  <1>4. c.mark # "prescription" /\ (kept => c.mark # "aside")
    BY <1>1, <1>2, MarkFacts
  <1>5. ToBeSold(c) => kept /\ (old = None \/ InRange(old))
    BY <1>1, OldInRange
  <1>6. old \in {None, c.before} /\ kept \in BOOLEAN
    OBVIOUS
  <1> HIDE DEF kept, old
  <1> QED BY <1>1, <1>2, <1>3, <1>4, <1>5, <1>6, TakenWell

\* Autopresent without .price-new: the crossed-out number is the price, and is
\* crossed out as well.
LEMMA CrossedOutReadWell ==
  ASSUME shop \in Shop, NEW c \in Card(shop), CrossedOut(c)
  PROVE  ReadWell(c)
  <1> DEFINE inStock == TRUE
             i == Take(c, c.before, c.before, inStock)
  <1>1. /\ shop = "Autopresent" /\ c.mark = "bare" /\ c.before # None
        /\ shop \notin WithStock /\ shop \in OldPassedOn
    BY DEF CrossedOut, WithStock, OldPassedOn
  <1>2. c.before \in Money
    BY CardTypes
  <1>3. Read(shop, c) = i
    <2>1. (IF c.mark = "bare" THEN FirstNumber(c) ELSE c.price) = c.before
      BY <1>1 DEF FirstNumber
    <2> QED BY <1>1, <2>1, ReadGroups DEF Autopresent, GridOnly
  <1>4. c.mark \notin Incomplete
    BY <1>1 DEF Incomplete
  <1>5. /\ IsItem(i) /\ i \in Raw /\ i.ref = c.ref /\ i.now = c.before /\ i.old = c.before
        /\ i.titled /\ i.home
    <2>1. /\ IsItem(i) =>
               /\ i \in Raw /\ i.ref = c.ref /\ i.now = c.before /\ i.old = c.before
               /\ i.titled /\ i.home = (c.mark # "abroad")
          /\ IsItem(i) <=> c.mark \notin Incomplete /\ c.before # None
      <3>1. inStock \in BOOLEAN
        OBVIOUS
      <3> HIDE DEF inStock
      <3> QED BY <1>2, <3>1, TakeFacts
    <2> HIDE DEF i
    <2> QED BY <1>1, <1>4, <2>1
  <1> HIDE DEF i
  <1>6. Faithful(c, i)
    BY <1>1, <1>5 DEF Faithful
  <1>7. ~Unreadable(c)
    BY <1>4 DEF Unreadable
  <1>8. ToBeSold(c) => Acceptable(i)
    BY <1>1, <1>5, OldInRange DEF Acceptable
  <1> QED BY <1>3, <1>5, <1>6, <1>7, <1>8 DEF ReadWell

LEMMA SingleReadWell ==
  ASSUME shop \in Single, NEW c \in Card(shop)
  PROVE  ReadWell(c)
  <1>1. /\ shop \in Shop \ (Direct \cup {"Stylus"}) /\ shop \notin WithStock \ {"Interatletika"}
        /\ shop \notin WithAside /\ shop # "Podorozhnyk"
    BY DEF Single, Shop, Direct, WithStock, WithAside
  <1>2. c.price \in Money /\ c.mark \in Mark(shop)
    BY <1>1, CardTypes
  <1>3. Read(shop, c) = IF TRUE THEN Take(c, c.price, None, TRUE) ELSE NoItem
    BY ReadGroups DEF NowOnly
  <1>4. c.mark # "prescription" /\ c.mark # "aside"
    BY <1>1, <1>2, MarkFacts
  <1> QED BY <1>1, <1>2, <1>3, <1>4, TakenWell

\* Telemart's nodes are told apart by their modifiers.
LEMMA CostFacts ==
  ASSUME NEW c
  PROVE  /\ Cost(c, "new") = c.price /\ Cost(c, "old") = c.before
  <1>1. /\ Costs(c)[1] = [is |-> "old", kop |-> c.before]
        /\ Costs(c)[2] = [is |-> "discount", kop |-> PRICE_MIN_KOP]
        /\ Costs(c)[3] = [is |-> "new", kop |-> c.price]
    BY DEF Costs
  <1>2. 1..3 = {1, 2, 3}
    OBVIOUS
  <1>3. \A k \in {1, 3} : Min({k}) = k
    BY DEF Min
  <1>4. Cost(c, "new") = c.price
    <2> DEFINE S == {i \in 1..3 : Costs(c)[i].kop # None /\ Costs(c)[i].is = "new"}
    <2>1. S = IF c.price = None THEN {} ELSE {3}
      BY <1>1, <1>2
    <2>2. Cost(c, "new") = CostAt(c, S)
      BY DEF Cost
    <2> HIDE DEF S
    <2> QED BY <1>1, <1>3, <2>1, <2>2 DEF CostAt
  <1>5. Cost(c, "old") = c.before
    <2> DEFINE S == {i \in 1..3 : Costs(c)[i].kop # None /\ Costs(c)[i].is = "old"}
    <2>1. S = IF c.before = None THEN {} ELSE {1}
      BY <1>1, <1>2
    <2>2. Cost(c, "old") = CostAt(c, S)
      BY DEF Cost
    <2> HIDE DEF S
    <2> QED BY <1>1, <1>3, <2>1, <2>2 DEF CostAt
  <1> QED BY <1>4, <1>5

LEMMA TelemartReadsWell ==
  ASSUME shop = "Telemart", NEW c \in Card(shop)
  PROVE  ReadWell(c)
  <1> DEFINE old == Higher(c.before, c.price)
             kept == c.mark # "aside"
  <1>1. /\ shop \in Shop \ (Direct \cup {"Stylus"}) /\ shop \notin WithStock
        /\ shop # "Podorozhnyk" /\ shop \notin {"Interatletika", "Yabko", "AddUa"}
    BY DEF Shop, Direct, WithStock
  <1>2. c.price \in Money /\ c.before \in Money /\ c.mark \in Mark(shop)
    BY <1>1, CardTypes
  <1>3. old \in {None, c.before}
    BY <1>2, HigherFacts
  <1>4. Read(shop, c) = IF kept THEN Take(c, c.price, old, TRUE) ELSE NoItem
    BY ReadGroups, CostFacts DEF Telemart, GridOnly
  <1>5. c.mark # "prescription"
    BY <1>1, <1>2, MarkFacts
  <1>6. ToBeSold(c) => kept /\ (old = None \/ InRange(old))
    BY <1>1, OldInRange
  <1>7. kept => c.mark # "aside"
    OBVIOUS
  <1> HIDE DEF old, kept
  <1> QED BY <1>1, <1>2, <1>3, <1>4, <1>5, <1>6, <1>7, TakenWell

LEMMA PositiveFacts ==
  ASSUME NEW n \in Money
  PROVE  Positive(n) \in {None, n} /\ (InRange(n) => Positive(n) = n)
  <1>1. InRange(n) => n > 0
    BY InRangeFacts
  <1> QED BY <1>1 DEF Positive

LEMMA PodorozhnykReadsWell ==
  ASSUME shop = "Podorozhnyk", NEW c \in Card(shop)
  PROVE  ReadWell(c)
  <1> DEFINE old == Higher(c.before, c.price)
             kept == c.mark # "prescription"
             inStock == c.mark = "in"
             now == Positive(c.price)
  <1>1. /\ shop \in Shop \ (Direct \cup {"Stylus"})
        /\ shop \notin {"Interatletika", "Yabko", "AddUa"}
    BY DEF Shop, Direct
  <1>2. c.price \in Money /\ c.before \in Money
    BY <1>1, CardTypes
  <1>3. old \in {None, c.before} /\ now \in {None, c.price}
    BY <1>2, HigherFacts, PositiveFacts
  <1>4. Read(shop, c) = IF kept THEN Take(c, now, old, inStock) ELSE NoItem
    BY ReadGroups DEF Podorozhnyk
  <1>5. ToBeSold(c) => kept /\ now = c.price /\ (old = None \/ InRange(old))
    BY <1>1, <1>2, OldInRange, PositiveFacts
  <1>6. (kept => c.mark # "prescription") /\ (inStock => c.mark # "out")
    OBVIOUS
  <1>7. kept \in BOOLEAN /\ inStock \in BOOLEAN
    OBVIOUS
  <1> HIDE DEF old, kept, inStock, now
  <1> QED BY <1>1, <1>3, <1>4, <1>5, <1>6, <1>7, TakenWell

LEMMA AddUaReadsWell ==
  ASSUME shop = "AddUa", NEW c \in Card(shop)
  PROVE  ReadWell(c)
  <1> DEFINE inStock == c.mark # "out"
             now == Positive(c.price)
  <1>1. shop \in Shop \ (Direct \cup {"Stylus"}) /\ shop \notin WithAside /\ shop # "Podorozhnyk"
    BY DEF Shop, Direct, WithAside
  <1>2. c.price \in Money /\ c.mark \in Mark(shop)
    BY <1>1, CardTypes
  <1>3. now \in {None, c.price}
    BY <1>2, PositiveFacts
  <1>4. Read(shop, c) = IF TRUE THEN Take(c, now, None, inStock) ELSE NoItem
    BY ReadGroups DEF AddUa
  <1>5. c.mark # "prescription" /\ c.mark # "aside"
    BY <1>1, <1>2, MarkFacts
  <1>6. ToBeSold(c) => now = c.price
    BY <1>1, <1>2, OldInRange, PositiveFacts
  <1>7. (inStock => c.mark # "out") /\ inStock \in BOOLEAN
    OBVIOUS
  <1> HIDE DEF inStock, now
  <1> QED BY <1>1, <1>3, <1>4, <1>5, <1>6, <1>7, TakenWell

\* The variants of a product, which the server does not check.
LEMMA VariantReadWell ==
  ASSUME shop \in Direct, NEW c \in Card(shop)
  PROVE  ReadWell(c)
  <1>1. shop \in Shop /\ shop \notin WithAside /\ shop \notin {"Podorozhnyk", "Stylus"}
    BY DEF Shop, Direct, WithAside
  <1>2. /\ c.price \in Money /\ c.before \in Money /\ c.mark \in Mark(shop)
        /\ c.ref \in Ref /\ c.ref # None
    BY <1>1, CardTypes
  <1>3. c.mark # "prescription" /\ c.mark # "aside"
    BY <1>1, <1>2, MarkFacts
  <1>4. Read(shop, c) = Variant(c)
    BY ReadGroups
  <1>5. IsItem(Variant(c)) => Faithful(c, Variant(c))
    <2> SUFFICES ASSUME IsItem(Variant(c)) PROVE Faithful(c, Variant(c))
      OBVIOUS
    <2> DEFINE i == RawItem(c, c.price, c.before, c.mark # "out")
    <2>1. c.price # None /\ Variant(c) = i
      BY DEF Variant, NoItem, IsItem
    <2>2. c.price \in Nat
      BY <1>2, <2>1 DEF Money
    <2>3. i \in Raw
      BY <1>2, <2>2 DEF RawItem, Raw
    <2>4. i.ref = c.ref /\ i.now = c.price /\ i.old = c.before
      BY DEF RawItem
    <2>5. i.inStock => c.mark # "out"
      BY DEF RawItem
    <2> HIDE DEF i
    <2> QED BY <1>3, <2>1, <2>3, <2>4, <2>5 DEF Faithful
  <1>6. ToBeSold(c) => IsItem(Variant(c))
    <2> SUFFICES ASSUME ToBeSold(c) PROVE IsItem(Variant(c))
      OBVIOUS
    <2>1. c.mark \in {"plain", "bare", "in", "out"} /\ InRange(c.price)
      BY DEF ToBeSold
    <2>2. c.price # None /\ c.mark # "unlinked"
      BY <1>2, <2>1, InRangeFacts
    <2> QED BY <1>2, <2>2 DEF Variant, RawItem, IsItem
  <1> QED BY <1>4, <1>5, <1>6 DEF ReadWell

\* Of two numbers the least is the price.
LEMMA LeastAndMost ==
  ASSUME NEW S \in SUBSET Int, NEW m \in S, NEW n \in S, \A x \in S : m <= x /\ x <= n
  PROVE  Min(S) = m /\ Max(S) = n
  <1>1. \A x \in S : (\A y \in S : x <= y) => x = m
    OBVIOUS
  <1>2. \A x \in S : (\A y \in S : x >= y) => x = n
    OBVIOUS
  <1>3. Min(S) = m
    BY <1>1 DEF Min
  <1>4. Max(S) = n
    BY <1>2 DEF Max
  <1> QED BY <1>3, <1>4

LEMMA PairLeastAndMost ==
  ASSUME NEW a \in Nat, NEW b \in Nat, NEW S \in SUBSET {a, b}, S # {}
  PROVE  /\ Min(S) \in S /\ Max(S) \in S
         /\ S = {a} => Min(S) = a /\ Max(S) = a
         /\ S = {a, b} /\ a <= b => Min(S) = a /\ Max(S) = b
  <1>1. S \in SUBSET Int
    OBVIOUS
  <1>2. CASE S = {a}
    <2>1. a \in S /\ \A x \in S : a <= x /\ x <= a
      BY <1>2
    <2>2. Min(S) = a /\ Max(S) = a
      BY <1>1, <2>1, LeastAndMost
    <2> QED BY <1>2, <2>2
  <1>3. CASE S = {b}
    <2>1. b \in S /\ \A x \in S : b <= x /\ x <= b
      BY <1>3
    <2>2. Min(S) = b /\ Max(S) = b
      BY <1>1, <2>1, LeastAndMost
    <2> QED BY <1>3, <2>2
  <1>4. CASE S = {a, b} /\ a <= b
    <2>1. a \in S /\ b \in S /\ \A x \in S : a <= x /\ x <= b
      BY <1>4
    <2>2. Min(S) = a /\ Max(S) = b
      BY <1>1, <2>1, LeastAndMost
    <2>3. S = {a} => a = b
      BY <1>4
    <2> QED BY <2>1, <2>2, <2>3
  <1>5. CASE S = {a, b} /\ b < a
    <2>1. a \in S /\ b \in S /\ \A x \in S : b <= x /\ x <= a
      BY <1>5
    <2>2. Min(S) = b /\ Max(S) = a
      BY <1>1, <2>1, LeastAndMost
    <2>3. S # {a} /\ ~(a <= b)
      BY <1>5
    <2> QED BY <2>1, <2>2, <2>3
  <1>6. S = {a} \/ S = {b} \/ S = {a, b}
    OBVIOUS
  <1>7. a <= b \/ b < a
    OBVIOUS
  <1> QED BY <1>2, <1>3, <1>4, <1>5, <1>6, <1>7

LEMMA StylusReadsWell ==
  ASSUME shop = "Stylus", NEW c \in Card(shop)
  PROVE  ReadWell(c)
  <1> DEFINE prices == {c.price, c.before} \ {None, 0}
             now == Min(prices)
             old == Higher(Max(prices), now)
             inStock == TRUE
             i == Take(c, now, old, inStock)
  <1>1. /\ shop \in Shop /\ shop \notin Direct \cup WithStock \cup WithAside /\ shop # "Podorozhnyk"
        /\ shop \notin {"Interatletika", "Yabko", "AddUa"}
    BY DEF Shop, Direct, WithStock, WithAside
  <1>2. c.price \in Money /\ c.before \in Money /\ c.mark \in Mark(shop)
    BY <1>1, CardTypes
  <1>3. c.mark # "prescription" /\ c.mark # "aside"
    BY <1>1, <1>2, MarkFacts
  <1>4. Read(shop, c) = IF prices = {} THEN NoItem ELSE i
    BY ReadGroups DEF Stylus
  <1>5. \A x \in prices : x \in Nat /\ x # None /\ x > 0
    BY <1>2 DEF Money, None
  <1>6. ASSUME prices # {} PROVE /\ now \in prices /\ Max(prices) \in prices
    <2>1. PICK a \in prices, b \in prices : prices \subseteq {a, b}
      BY <1>6
    <2>2. a \in Nat /\ b \in Nat
      BY <1>5, <2>1
    <2> HIDE DEF prices
    <2> QED BY <1>6, <2>1, <2>2, PairLeastAndMost
  <1>7. ASSUME prices # {}
        PROVE  /\ now \in Money /\ now # None /\ old \in Money
               /\ IsItem(i) =>
                    /\ i \in Raw /\ i.ref = c.ref /\ i.now = now /\ i.old = old
                    /\ i.titled /\ i.home = (c.mark # "abroad")
               /\ IsItem(i) <=> c.mark \notin Incomplete
    <2>1. now \in Nat /\ now # None /\ Max(prices) \in Nat
      BY <1>5, <1>6, <1>7
    <2>2. now \in Money /\ Max(prices) \in Money
      BY <2>1 DEF Money
    <2> HIDE DEF prices, now
    <2>3. old \in Money /\ inStock \in BOOLEAN
      BY <2>2, HigherFacts
    <2> HIDE DEF old, inStock
    <2>4. /\ IsItem(i) =>
               /\ i \in Raw /\ i.ref = c.ref /\ i.now = now /\ i.old = old
               /\ i.titled /\ i.home = (c.mark # "abroad")
          /\ IsItem(i) <=> c.mark \notin Incomplete /\ now # None
      BY <1>1, <2>2, <2>3, TakeFacts
    <2> HIDE DEF i
    <2> QED BY <2>1, <2>2, <2>3, <2>4
  <1>8. ASSUME Natural(c), prices # {}
        PROVE  now = c.price /\ old \in {None, c.before} /\ (old = c.before \/ old = None)
    <2>1. CASE c.before = None
      <3>1. c.price \in Nat /\ prices = {c.price}
        BY <1>2, <1>8, <2>1 DEF Money
      <3>2. now = c.price /\ Max(prices) = c.price
        BY <3>1, PairLeastAndMost
      <3>3. old = None
        BY <3>1, <3>2 DEF Higher
      <3> QED BY <3>2, <3>3
    <2>2. CASE c.before # None
      <3>1. c.price > 0 /\ c.price < c.before
        BY <1>8, <2>2 DEF Natural
      <3>2. c.price \in Nat /\ c.before \in Nat
        BY <1>2, <2>2, <3>1 DEF Money, None
      <3>3. prices = {c.price, c.before}
        BY <3>1, <3>2 DEF None
      <3>4. c.price <= c.before /\ prices # {} /\ prices \in SUBSET {c.price, c.before}
        BY <3>1, <3>2, <3>3
      <3> HIDE DEF prices
      <3>5. now = c.price /\ Max(prices) = c.before
        BY <3>2, <3>3, <3>4, PairLeastAndMost
      <3> HIDE DEF prices, now
      <3>6. old \in {None, c.before}
        BY <3>5 DEF Higher
      <3> QED BY <3>5, <3>6
    <2> QED BY <2>1, <2>2
  <1>9. ~IsItem(NoItem)
    BY DEF IsItem, NoItem
  <1>10. c.price # None /\ c.price # 0 => prices # {}
    OBVIOUS
  <1>11. c.price = None /\ c.before \in {None, 0} => prices = {}
    OBVIOUS
  <1> HIDE DEF prices, now, old, i
  <1>12. IsItem(Read(shop, c)) => Faithful(c, Read(shop, c))
    <2> SUFFICES ASSUME IsItem(Read(shop, c)) PROVE Faithful(c, Read(shop, c))
      OBVIOUS
    <2>1. Read(shop, c) = i /\ prices # {}
      BY <1>4, <1>9
    <2>2. i \in Raw /\ i.ref = c.ref /\ i.now = now /\ i.old = old
      BY <1>7, <2>1
    <2>3. Natural(c) => i.now = c.price /\ i.old \in {None, c.before}
      BY <1>8, <2>1, <2>2
    <2>4. shop \notin WithStock \ {"Interatletika"}
      BY <1>1
    <2> QED BY <1>3, <2>1, <2>2, <2>3, <2>4 DEF Faithful
  <1>13. Unreadable(c) => ~IsItem(Read(shop, c))
    BY <1>4, <1>7, <1>9, <1>11 DEF Unreadable
  <1>14. ToBeSold(c) => IsItem(Read(shop, c)) /\ Acceptable(Read(shop, c))
    <2> SUFFICES ASSUME ToBeSold(c) PROVE IsItem(Read(shop, c)) /\ Acceptable(Read(shop, c))
      OBVIOUS
    <2>1. /\ Natural(c) /\ c.mark \in {"plain", "bare", "in", "out"} /\ InRange(c.price)
          /\ c.before <= c.price \/ InRange(c.before)
      BY <1>1 DEF ToBeSold
    <2>2. c.price # None /\ c.price # 0 /\ c.price \in Nat
      BY <1>2, <2>1, InRangeFacts
    <2>3. Read(shop, c) = i /\ prices # {}
      BY <1>4, <1>10, <2>2
    <2>4. c.before = None \/ InRange(c.before)
      BY <1>2, <2>1, <2>2 DEF Natural, Money, None
    <2>5. c.mark \notin Incomplete /\ c.mark # "abroad"
      BY <2>1 DEF Incomplete
    <2>6. IsItem(i) /\ i.now = c.price /\ i.old \in {None, c.before} /\ i.titled /\ i.home
      BY <1>7, <1>8, <2>1, <2>3, <2>5
    <2> QED BY <2>1, <2>3, <2>4, <2>6 DEF Acceptable
  <1> QED BY <1>12, <1>13, <1>14 DEF ReadWell

LEMMA CardReadWell ==
  ASSUME shop \in Shop, NEW c \in Card(shop)
  PROVE  ReadWell(c)
  <1>1. \/ shop \in Plain \cup AtHome \cup {"Eldorado"} \/ shop \in Stocked
        \/ shop \in Open \cup Varied \/ shop \in Single \/ shop \in Direct
        \/ shop \in {"Stylus", "Telemart", "Podorozhnyk", "AddUa"}
    BY AllShops
  <1> QED BY <1>1, PlainReadWell, StockedReadWell, OpenReadWell, CrossedOutReadWell, SingleReadWell,
             VariantReadWell, StylusReadsWell, TelemartReadsWell, PodorozhnykReadsWell,
             AddUaReadsWell

-----------------------------------------------------------------------------
\* What extract keeps of a page's items, in the places of their cards.
LEMMA FirstsFacts ==
  ASSUME NEW n \in Nat, NEW items, DOMAIN items = 1..n
  PROVE  /\ DOMAIN Firsts(items) = 1..n
         /\ \A k \in 1..n : IsItem(Firsts(items)[k]) => Firsts(items)[k] = items[k]
         /\ \A j, k \in 1..n :
              /\ IsItem(Firsts(items)[j]) /\ IsItem(Firsts(items)[k])
              /\ Firsts(items)[j].ref = Firsts(items)[k].ref
              => j = k
         /\ \A k \in 1..n : IsItem(items[k]) =>
              \E m \in 1..k : /\ IsItem(items[m]) /\ items[m].ref = items[k].ref
                             /\ Firsts(items)[m] = items[m]
  <1> DEFINE F == Firsts(items)
             Earlier(k) == \E j \in 1..(k-1) : IsItem(items[j]) /\ items[j].ref = items[k].ref
  <1>1. DOMAIN F = 1..n /\ \A k \in 1..n : F[k] = IF Earlier(k) THEN NoItem ELSE items[k]
    BY DEF Firsts
  <1>2. ~IsItem(NoItem)
    BY DEF IsItem, NoItem
  <1>3. \A k \in 1..n : IsItem(F[k]) => F[k] = items[k] /\ ~Earlier(k)
    BY <1>1, <1>2
  <1> HIDE DEF F
  <1>4. ASSUME NEW j \in 1..n, NEW k \in 1..n, IsItem(F[j]), IsItem(F[k]), F[j].ref = F[k].ref
        PROVE  ~(j < k)
    <2> SUFFICES ASSUME j < k PROVE FALSE
      OBVIOUS
    <2>1. j \in 1..(k-1)
      OBVIOUS
    <2>2. /\ F[j] = items[j] /\ F[k] = items[k] /\ ~Earlier(k)
      BY <1>3, <1>4
    <2> QED BY <1>4, <2>1, <2>2
  <1>5. ASSUME NEW j \in 1..n, NEW k \in 1..n, IsItem(F[j]), IsItem(F[k]), F[j].ref = F[k].ref
        PROVE  j = k
    <2>1. ~(j < k) /\ ~(k < j)
      BY <1>4, <1>5
    <2> QED BY <2>1
  <1>6. ASSUME NEW k \in 1..n, IsItem(items[k])
        PROVE  \E m \in 1..k : IsItem(items[m]) /\ items[m].ref = items[k].ref /\ F[m] = items[m]
    <2> DEFINE S == {j \in 1..k : IsItem(items[j]) /\ items[j].ref = items[k].ref}
    <2>1. S \subseteq Nat /\ S # {}
      BY <1>6
    <2>2. PICK m \in S : \A j \in S : m <= j
      <3> HIDE DEF S
      <3> QED BY <2>1, LeastThere
    <2>3. m \in 1..k /\ m \in 1..n /\ IsItem(items[m]) /\ items[m].ref = items[k].ref
      OBVIOUS
    <2>4. ~Earlier(m)
      <3> SUFFICES ASSUME NEW j \in 1..(m-1), IsItem(items[j]), items[j].ref = items[m].ref
                   PROVE  FALSE
        OBVIOUS
      <3>1. j \in 1..k /\ ~(m <= j)
        BY <2>3
      <3>2. j \in S
        BY <2>3, <3>1
      <3> QED BY <2>2, <3>1, <3>2
    <2> QED BY <1>1, <2>3, <2>4
  <1> HIDE DEF Earlier
  <1> QED BY <1>1, <1>3, <1>5, <1>6 DEF F

-----------------------------------------------------------------------------
\* What the server makes of an item.
LEMMA ValidateFacts ==
  ASSUME NEW i, IsItem(i) => i \in Raw
  PROVE  /\ IsItem(ValidateItem(i)) =>
              /\ IsItem(i) /\ Acceptable(ValidateItem(i))
              /\ ValidateItem(i) \in Raw
              /\ ValidateItem(i).ref = i.ref /\ ValidateItem(i).now = i.now
              /\ ValidateItem(i).inStock = i.inStock
              /\ ValidateItem(i).old \in {None, i.old}
              /\ ValidateItem(i).old = None \/ ValidateItem(i).old > ValidateItem(i).now
         /\ IsItem(i) /\ Acceptable(i) => IsItem(ValidateItem(i))
  <1> DEFINE w == Higher(i.old, i.now)
             v == [i EXCEPT !.old = w]
  <1>1. ~IsItem(NoItem)
    BY DEF IsItem, NoItem
  <1>2. ValidateItem(i) = IF IsItem(i) /\ Acceptable(i) THEN v ELSE NoItem
    BY DEF ValidateItem, Acceptable
  <1>3. ASSUME IsItem(i), Acceptable(i)
        PROVE  /\ v \in Raw /\ v.ref = i.ref /\ v.now = i.now /\ v.inStock = i.inStock
               /\ v.old \in {None, i.old} /\ (v.old = None \/ v.old > v.now)
               /\ IsItem(v) /\ Acceptable(v)
    <2>1. i \in Raw /\ i.now \in Nat /\ i.now \in Money /\ i.old \in Money
      BY <1>3 DEF Raw, Money
    <2>2. w \in {None, i.old} /\ w \in Money /\ (w = None \/ w > i.now)
      BY <2>1, HigherFacts
    <2> HIDE DEF w
    <2>3. /\ v.ref = i.ref /\ v.now = i.now /\ v.inStock = i.inStock /\ v.old = w
          /\ v.titled = i.titled /\ v.home = i.home /\ v \in Raw
      BY <2>1, <2>2 DEF Raw
    <2> HIDE DEF v
    <2>4. IsItem(v)
      BY <1>3, <2>3 DEF IsItem
    <2>5. Acceptable(v)
      BY <1>3, <2>2, <2>3 DEF Acceptable
    <2> QED BY <2>2, <2>3, <2>4, <2>5
  <1> HIDE DEF v
  <1> QED BY <1>1, <1>2, <1>3

-----------------------------------------------------------------------------
\* From the cards of a page to its rows.
PagesTyped == shop \in Shop /\ page \in Seq(Card(shop))

LEMMA ExtractFacts ==
  ASSUME PagesTyped
  PROVE  /\ DOMAIN Extract(shop, page) = 1..Len(page)
         /\ \A k \in 1..Len(page) : IsItem(Extract(shop, page)[k]) =>
              /\ k \in Listing(shop, page)
              /\ Extract(shop, page)[k] = Read(shop, page[k])
              /\ Faithful(page[k], Extract(shop, page)[k])
         /\ \A j, k \in 1..Len(page) :
              /\ IsItem(Extract(shop, page)[j]) /\ IsItem(Extract(shop, page)[k])
              /\ Extract(shop, page)[j].ref = Extract(shop, page)[k].ref
              => j = k
         /\ \A k \in 1..Len(page) : k \in Listing(shop, page) /\ IsItem(Read(shop, page[k])) =>
              \E m \in 1..k : /\ Extract(shop, page)[m] = Read(shop, page[m])
                             /\ IsItem(Extract(shop, page)[m]) /\ page[m].ref = page[k].ref
  <1> DEFINE n == Len(page)
             items == [k \in DOMAIN page |->
                         IF k \in Listing(shop, page) THEN Read(shop, page[k]) ELSE NoItem]
             E == Firsts(items)
  <1>1. n \in Nat /\ DOMAIN page = 1..n /\ \A k \in 1..n : page[k] \in Card(shop)
    BY DEF PagesTyped
  <1>2. Extract(shop, page) = E
    BY DEF Extract
  <1>3. /\ DOMAIN items = 1..n
        /\ \A k \in 1..n :
             items[k] = IF k \in Listing(shop, page) THEN Read(shop, page[k]) ELSE NoItem
    BY <1>1
  <1>4. ~IsItem(NoItem)
    BY DEF IsItem, NoItem
  <1> HIDE DEF n, items
  <1>5. \A k \in 1..n : IsItem(items[k]) =>
          /\ k \in Listing(shop, page) /\ items[k] = Read(shop, page[k])
          /\ Faithful(page[k], items[k]) /\ items[k].ref = page[k].ref
    <2> SUFFICES ASSUME NEW k \in 1..n, IsItem(items[k])
                 PROVE  /\ k \in Listing(shop, page) /\ items[k] = Read(shop, page[k])
                        /\ Faithful(page[k], items[k]) /\ items[k].ref = page[k].ref
      OBVIOUS
    <2>1. k \in Listing(shop, page) /\ items[k] = Read(shop, page[k])
      BY <1>3, <1>4
    <2>2. page[k] \in Card(shop) /\ shop \in Shop
      BY <1>1 DEF PagesTyped
    <2>3. Faithful(page[k], items[k])
      BY <2>1, <2>2, CardReadWell DEF ReadWell
    <2> QED BY <2>1, <2>3 DEF Faithful
  <1>6. /\ DOMAIN E = 1..n
        /\ \A k \in 1..n : IsItem(E[k]) => E[k] = items[k]
        /\ \A j, k \in 1..n : IsItem(E[j]) /\ IsItem(E[k]) /\ E[j].ref = E[k].ref => j = k
        /\ \A k \in 1..n : IsItem(items[k]) =>
             \E m \in 1..k : IsItem(items[m]) /\ items[m].ref = items[k].ref /\ E[m] = items[m]
    BY <1>1, <1>3, FirstsFacts
  <1> HIDE DEF E
  <1>7. \A k \in 1..n : IsItem(E[k]) =>
          /\ k \in Listing(shop, page) /\ E[k] = Read(shop, page[k]) /\ Faithful(page[k], E[k])
    BY <1>5, <1>6
  <1>8. ASSUME NEW k \in 1..n, k \in Listing(shop, page), IsItem(Read(shop, page[k]))
        PROVE  \E m \in 1..k : E[m] = Read(shop, page[m]) /\ IsItem(E[m])
                 /\ page[m].ref = page[k].ref
    <2>1. IsItem(items[k])
      BY <1>3, <1>8
    <2>2. PICK m \in 1..k : IsItem(items[m]) /\ items[m].ref = items[k].ref /\ E[m] = items[m]
      BY <1>6, <2>1
    <2>3. m \in 1..n
      BY <1>1
    <2> QED BY <1>5, <2>1, <2>2, <2>3
  <1> QED BY <1>2, <1>6, <1>7, <1>8 DEF n

LEMMA StoredFacts ==
  ASSUME PagesTyped
  PROVE  /\ DOMAIN Stored(shop, page) = 1..Len(page)
         /\ \A k \in 1..Len(page) : IsItem(Stored(shop, page)[k]) =>
              LET i == Extract(shop, page)[k]
                  r == Stored(shop, page)[k]
              IN  /\ IsItem(i) /\ r.ref = i.ref /\ r.now = i.now /\ r.inStock = i.inStock
                  /\ r.old \in {None, i.old}
                  /\ shop \notin Direct => Acceptable(r) /\ (r.old = None \/ r.old > r.now)
         /\ \A j, k \in 1..Len(page) :
              /\ IsItem(Stored(shop, page)[j]) /\ IsItem(Stored(shop, page)[k])
              /\ Stored(shop, page)[j].ref = Stored(shop, page)[k].ref
              => j = k
         /\ \A k \in 1..Len(page) :
              /\ IsItem(Extract(shop, page)[k])
              /\ shop \notin Direct => Acceptable(Extract(shop, page)[k])
              => \E m \in 1..Len(page) : /\ IsItem(Stored(shop, page)[m])
                                         /\ Stored(shop, page)[m].ref = Extract(shop, page)[k].ref
  <1> DEFINE n == Len(page)
             E == Extract(shop, page)
             S == Stored(shop, page)
             checked == [k \in DOMAIN E |-> ValidateItem(E[k])]
             F == Firsts(checked)
  <1>1. n \in Nat
    BY DEF PagesTyped
  <1>2. /\ DOMAIN E = 1..n
        /\ \A k \in 1..n : IsItem(E[k]) => E[k] \in Raw
        /\ \A j, k \in 1..n : IsItem(E[j]) /\ IsItem(E[k]) /\ E[j].ref = E[k].ref => j = k
    BY ExtractFacts DEF Faithful
  <1>3. shop \in Direct => S = E
    BY DEF Stored
  <1>4. shop \notin Direct => S = F
    BY DEF Stored, IngestBatch
  <1>5. DOMAIN checked = 1..n /\ \A k \in 1..n : checked[k] = ValidateItem(E[k])
    BY <1>2
  <1> HIDE DEF n, E, S, checked
  <1>6. /\ DOMAIN F = 1..n
        /\ \A k \in 1..n : IsItem(F[k]) => F[k] = checked[k]
        /\ \A j, k \in 1..n : IsItem(F[j]) /\ IsItem(F[k]) /\ F[j].ref = F[k].ref => j = k
        /\ \A k \in 1..n : IsItem(checked[k]) =>
             \E m \in 1..k : IsItem(checked[m]) /\ checked[m].ref = checked[k].ref
                 /\ F[m] = checked[m]
    BY <1>1, <1>5, FirstsFacts
  <1> HIDE DEF F
  <1>7. \A k \in 1..n :
          /\ IsItem(checked[k]) =>
               /\ IsItem(E[k]) /\ checked[k].ref = E[k].ref /\ checked[k].now = E[k].now
               /\ checked[k].inStock = E[k].inStock /\ checked[k].old \in {None, E[k].old}
               /\ Acceptable(checked[k])
                    /\ (checked[k].old = None \/ checked[k].old > checked[k].now)
          /\ IsItem(E[k]) /\ Acceptable(E[k]) => IsItem(checked[k])
    BY <1>2, <1>5, ValidateFacts
  <1>8. CASE shop \in Direct
    <2>1. \A k \in 1..n : E[k].old \in {None, E[k].old}
      OBVIOUS
    <2> QED BY <1>2, <1>3, <1>8, <2>1 DEF n, E, S
  <1>9. CASE shop \notin Direct
    <2>1. \A k \in 1..n : IsItem(S[k]) =>
            /\ IsItem(E[k]) /\ S[k].ref = E[k].ref /\ S[k].now = E[k].now
            /\ S[k].inStock = E[k].inStock /\ S[k].old \in {None, E[k].old}
            /\ Acceptable(S[k]) /\ (S[k].old = None \/ S[k].old > S[k].now)
      BY <1>4, <1>6, <1>7, <1>9
    <2>2. ASSUME NEW k \in 1..n, IsItem(E[k]), Acceptable(E[k])
          PROVE  \E m \in 1..n : IsItem(S[m]) /\ S[m].ref = E[k].ref
      <3>1. IsItem(checked[k]) /\ checked[k].ref = E[k].ref
        BY <1>7, <2>2
      <3>2. PICK m \in 1..k : IsItem(checked[m]) /\ checked[m].ref = checked[k].ref
                   /\ F[m] = checked[m]
        BY <1>6, <3>1
      <3>3. m \in 1..n
        BY <1>1
      <3> QED BY <1>4, <1>9, <3>1, <3>2, <3>3
    <2> QED BY <1>4, <1>6, <1>9, <2>1, <2>2 DEF n, E, S
  <1> QED BY <1>8, <1>9

LEMMA CountTo ==
  ASSUME NEW n \in Nat
  PROVE  IsFiniteSet(1..n) /\ Cardinality(1..n) = n
  <1>1. IsFiniteSet(1..n) /\ Cardinality(1..n) = IF 1 > n THEN 0 ELSE n - 1 + 1
    BY FS_Interval
  <1>2. (IF 1 > n THEN 0 ELSE n - 1 + 1) = n
    OBVIOUS
  <1> QED BY <1>1, <1>2

\* The arrays of Podorozhnyk's page: together they are the page.
LEMMA GridAndRest ==
  ASSUME PagesTyped
  PROVE  /\ Cardinality(Grid(page)) \in Nat /\ Cardinality(Rest(page)) \in Nat
         /\ Cardinality(Grid(page)) + Cardinality(Rest(page)) = Len(page)
         /\ Rest(page) = {} => Cardinality(Rest(page)) = 0
  <1>1. Len(page) \in Nat /\ DOMAIN page = 1..Len(page)
    BY DEF PagesTyped
  <1>2. /\ Grid(page) \subseteq 1..Len(page) /\ Rest(page) \subseteq 1..Len(page)
        /\ Grid(page) \cup Rest(page) = 1..Len(page) /\ Grid(page) \cap Rest(page) = {}
    BY <1>1 DEF Grid, Rest
  <1>3. IsFiniteSet(1..Len(page)) /\ Cardinality(1..Len(page)) = Len(page)
    BY <1>1, CountTo
  <1>4. IsFiniteSet(Grid(page)) /\ IsFiniteSet(Rest(page))
    BY <1>2, <1>3, FS_Subset
  <1>5. Cardinality(Grid(page)) \in Nat /\ Cardinality(Rest(page)) \in Nat
    BY <1>4, FS_CardinalityType
  <1>6. Cardinality({}) = 0
    BY FS_EmptySet
  <1>7. Cardinality(Grid(page) \cup Rest(page))
          = Cardinality(Grid(page)) + Cardinality(Rest(page))
              - Cardinality(Grid(page) \cap Rest(page))
    BY <1>4, FS_Union
  <1>8. Len(page) = Cardinality(Grid(page)) + Cardinality(Rest(page)) - 0
    BY <1>2, <1>3, <1>6, <1>7
  <1>9. \A a, b, n \in Nat : n = a + b - 0 => a + b = n
    OBVIOUS
  <1>10. Cardinality(Grid(page)) + Cardinality(Rest(page)) = Len(page)
    BY <1>1, <1>5, <1>8, <1>9
  <1> QED BY <1>5, <1>6, <1>10

LEMMA ListingFacts ==
  ASSUME PagesTyped, NEW k \in 1..Len(page)
  PROVE  /\ shop = "Podorozhnyk" /\ k \in Listing(shop, page) /\ page[k].mark = "aside" => Crowded
         /\ /\ shop \in {"AddUa", "Apteka911"} => k = 1
            /\ shop = "Podorozhnyk" => \A j \in DOMAIN page : page[j].mark # "aside"
            => k \in Listing(shop, page)
  <1>1. Len(page) \in Nat /\ DOMAIN page = 1..Len(page)
    BY DEF PagesTyped
  <1>2. ASSUME shop = "Podorozhnyk", k \in Listing(shop, page), page[k].mark = "aside"
        PROVE  Crowded
    <2>1. k \in Largest(page)
      BY <1>2 DEF Listing
    <2>2. k \notin Grid(page)
      BY <1>2 DEF Grid
    <2>3. \/ Cardinality(Rest(page)) > Cardinality(Grid(page))
          \/ Cardinality(Rest(page)) = Cardinality(Grid(page))
      BY <2>1, <2>2 DEF Largest
    <2>4. 2 * Cardinality(Rest(page)) >= Len(page)
      BY <1>1, <2>3, GridAndRest
    <2> QED BY <1>2, <2>4 DEF Crowded, Rest
  <1>3. ASSUME shop = "Podorozhnyk", \A j \in DOMAIN page : page[j].mark # "aside"
        PROVE  k \in Listing(shop, page)
    <2>1. Rest(page) = {} /\ k \in Grid(page)
      BY <1>1, <1>3 DEF Grid, Rest
    <2>2. Cardinality(Rest(page)) = 0 /\ Cardinality(Grid(page)) = Len(page)
      BY <1>1, <2>1, GridAndRest
    <2>3. Len(page) > 0
      BY <1>1
    <2>4. Largest(page) = Grid(page)
      BY <2>1, <2>2, <2>3 DEF Largest
    <2> QED BY <1>3, <2>1, <2>4 DEF Listing
  <1>4. ASSUME shop # "Podorozhnyk", shop \in {"AddUa", "Apteka911"} => k = 1
        PROVE  k \in Listing(shop, page)
    BY <1>1, <1>4 DEF Listing
  <1> QED BY <1>2, <1>3, <1>4

\* A row says what its card says.
LEMMA RowSays ==
  ASSUME PagesTyped, NEW k \in 1..Len(page), IsItem(Stored(shop, page)[k])
  PROVE  LET r == Stored(shop, page)[k] IN
         /\ \/ Says(page[k], r)
            \/ shop = "Stylus" /\ page[k].ref = r.ref /\ ~Natural(page[k])
            \/ CrossedOut(page[k]) /\ r.ref = page[k].ref /\ r.now = page[k].before /\ r.old = None
         /\ shop \notin Direct => InRange(r.now) /\ r.titled /\ r.home
  <1> DEFINE r == Stored(shop, page)[k]
             i == Extract(shop, page)[k]
  <1>1. /\ IsItem(i) /\ r.ref = i.ref /\ r.now = i.now /\ r.inStock = i.inStock
             /\ r.old \in {None, i.old}
        /\ shop \notin Direct => Acceptable(r) /\ (r.old = None \/ r.old > r.now)
    BY StoredFacts
  <1>2. k \in Listing(shop, page) /\ Faithful(page[k], i)
    BY <1>1, ExtractFacts
  <1> HIDE DEF r, i
  <1>3. page[k].mark = "aside" => Crowded
    BY <1>2, ListingFacts DEF Faithful
  <1>4. shop \notin Direct => InRange(r.now) /\ r.titled /\ r.home
    BY <1>1 DEF Acceptable
  <1>5. r.ref = page[k].ref
    BY <1>1, <1>2 DEF Faithful
  <1>6. ASSUME shop = "Stylus" => Natural(page[k]), i.now = page[k].price,
               i.old \in {None, page[k].before}
        PROVE  Says(page[k], r)
    <2>1. r.now = page[k].price /\ r.old \in {None, page[k].before}
      BY <1>1, <1>6
    <2>2. /\ shop \in WithStock \ {"Interatletika"} => (r.inStock => page[k].mark # "out")
          /\ page[k].mark # "prescription"
      BY <1>1, <1>2 DEF Faithful
    <2> QED BY <1>1, <1>3, <1>5, <2>1, <2>2 DEF Says
  <1>7. ASSUME CrossedOut(page[k]), i.now = page[k].before, i.old = page[k].before
        PROVE  r.now = page[k].before /\ r.old = None
    <2>1. shop \notin Direct
      BY <1>7 DEF CrossedOut, Direct
    <2>2. r.now = page[k].before /\ InRange(r.now)
      BY <1>1, <1>4, <1>7, <2>1
    <2>3. page[k].before \in Money
      BY CardTypes DEF PagesTyped
    <2>4. page[k].before \in Nat
      BY <2>2, <2>3, InRangeFacts
    <2>5. r.old # page[k].before
      <3>1. ~(page[k].before > page[k].before)
        BY <2>4
      <3>2. page[k].before # None
        BY <1>7 DEF CrossedOut
      <3> QED BY <1>1, <2>1, <2>2, <3>1, <3>2
    <2> QED BY <1>1, <1>7, <2>2, <2>5
  <1>8. \/ shop = "Stylus" /\ ~Natural(page[k])
        \/ (shop = "Stylus" => Natural(page[k])) /\ i.now = page[k].price
             /\ i.old \in {None, page[k].before}
        \/ CrossedOut(page[k]) /\ i.now = page[k].before /\ i.old = page[k].before
    BY <1>2 DEF Faithful
  <1> QED BY <1>4, <1>5, <1>6, <1>7, <1>8 DEF r

LEMMA OnlyShownThere ==
  ASSUME PagesTyped
  PROVE  OnlyWhatIsShown
  <1>1. DOMAIN page = 1..Len(page)
    BY DEF PagesTyped
  <1>2. ASSUME NEW i \in Rows
        PROVE  \E k \in 1..Len(page) : i = Stored(shop, page)[k] /\ IsItem(Stored(shop, page)[k])
    BY <1>1, <1>2 DEF Rows
  <1>3. ASSUME NEW i \in Rows
        PROVE  /\ \E k \in DOMAIN page :
                    \/ Says(page[k], i)
                    \/ shop = "Stylus" /\ page[k].ref = i.ref /\ ~Natural(page[k])
                    \/ /\ CrossedOut(page[k]) /\ i.ref = page[k].ref
                       /\ i.now = page[k].before /\ i.old = None
               /\ shop \notin Direct => InRange(i.now) /\ i.titled /\ i.home
    <2>1. PICK k \in 1..Len(page) : i = Stored(shop, page)[k] /\ IsItem(Stored(shop, page)[k])
      BY <1>2
    <2> QED BY <1>1, <2>1, RowSays
  <1>4. ASSUME NEW i \in Rows, NEW j \in Rows, i.ref = j.ref PROVE i = j
    <2>1. PICK k \in 1..Len(page) : i = Stored(shop, page)[k] /\ IsItem(Stored(shop, page)[k])
      BY <1>2
    <2>2. PICK m \in 1..Len(page) : j = Stored(shop, page)[m] /\ IsItem(Stored(shop, page)[m])
      BY <1>2
    <2>3. k = m
      BY <1>4, <2>1, <2>2, StoredFacts
    <2> QED BY <2>1, <2>2, <2>3
  <1> QED BY <1>3, <1>4 DEF OnlyWhatIsShown

LEMMA NothingLostThere ==
  ASSUME PagesTyped
  PROVE  NothingLost
  <1>1. Len(page) \in Nat /\ DOMAIN page = 1..Len(page)
          /\ \A k \in 1..Len(page) : page[k] \in Card(shop)
    BY DEF PagesTyped
  <1>2. SUFFICES ASSUME NEW k \in 1..Len(page), ToBeSold(page[k]),
                        \A j \in 1..(k-1) : page[j].ref = page[k].ref =>
                          ToBeSold(page[j]) \/ Unreadable(page[j]),
                        shop \in {"AddUa", "Apteka911"} => k = 1,
                        shop = "Podorozhnyk" => \A j \in DOMAIN page : page[j].mark # "aside"
                 PROVE  \E i \in Rows : i.ref = page[k].ref
    BY <1>1 DEF NothingLost
  <1>3. \A m \in 1..Len(page) : ReadWell(page[m])
    BY <1>1, CardReadWell DEF PagesTyped
  <1>4. k \in Listing(shop, page) /\ IsItem(Read(shop, page[k]))
    BY <1>2, <1>3, ListingFacts DEF ReadWell
  <1> DEFINE E == Extract(shop, page)
             S == Stored(shop, page)
  <1>5. PICK m \in 1..k : E[m] = Read(shop, page[m]) /\ IsItem(E[m]) /\ page[m].ref = page[k].ref
    BY <1>4, ExtractFacts
  <1>6. m \in 1..Len(page)
    BY <1>1
  <1>7. E[m].ref = page[m].ref
    BY <1>5, <1>6, ExtractFacts DEF Faithful
  <1>8. ASSUME shop \notin Direct PROVE Acceptable(E[m])
    <2>1. m = k \/ m \in 1..(k-1)
      OBVIOUS
    <2>2. ToBeSold(page[m]) \/ Unreadable(page[m])
      BY <1>2, <1>5, <2>1
    <2>3. ~Unreadable(page[m])
      BY <1>3, <1>5, <1>6, <1>8 DEF ReadWell
    <2> QED BY <1>3, <1>5, <1>6, <1>8, <2>2, <2>3 DEF ReadWell
  <1>9. PICK p \in 1..Len(page) : IsItem(S[p]) /\ S[p].ref = E[m].ref
    BY <1>5, <1>6, <1>8, StoredFacts
  <1>10. S[p] \in Rows
    BY <1>1, <1>9 DEF Rows
  <1> QED BY <1>5, <1>7, <1>9, <1>10

-----------------------------------------------------------------------------
LEMMA PageStays ==
  ASSUME PagesTyped, [PageNext]_pageVars
  PROVE  PagesTyped'
  <1>1. CASE PageNext
    <2>1. PICK c \in Card(shop) : AddCard(c)
      BY <1>1 DEF PageNext
    <2>2. Append(page, c) \in Seq(Card(shop))
      BY DEF PagesTyped
    <2> QED BY <2>1, <2>2 DEF AddCard, PagesTyped
  <1>2. CASE UNCHANGED pageVars
    BY <1>2 DEF pageVars, PagesTyped
  <1> QED BY <1>1, <1>2

LEMMA PagesAreTyped == PageSpec => []PagesTyped
  <1>1. PageInit => PagesTyped
    BY DEF PageInit, PagesTyped
  <1> QED BY <1>1, PageStays, PTL DEF PageSpec

\* Whatever cards a page shows, however many, and whatever the numbers on them:
\* what is stored of it is what a card shows of that product.
THEOREM OnlyShown == PageSpec => []OnlyWhatIsShown
  BY PagesAreTyped, OnlyShownThere, PTL

\* Whatever else stands on a page, a card that is to be sold is stored.
THEOREM NothingIsLost == PageSpec => []NothingLost
  BY PagesAreTyped, NothingLostThere, PTL

-----------------------------------------------------------------------------
\* Shelves: what the five shops' rows have in common.
LEMMA SiteFacts ==
  ASSUME site \in Site
  PROVE  /\ cfg.hub \/ cfg.sitemap \/ cfg.discovers => cfg.category # Nothing
         /\ \A i \in DOMAIN cfg.urls : cfg.urls[i][1] # Nothing
  <1>1. Site = {"Allo", "Brain", "Eldorado", "Apteka911", "AddUa"}
    BY DEF Site, HTML_SOURCES
  <1>2. CASE site = "Allo"
    <2>1. cfg = AlloSource
      BY <1>2 DEF cfg, HTML_SOURCES
    <2> QED BY <2>1 DEF AlloSource, Listings, Nothing
  <1>3. CASE site = "Brain"
    <2>1. cfg = BrainSource
      BY <1>3 DEF cfg, HTML_SOURCES
    <2> QED BY <2>1 DEF BrainSource, Listings, Nothing
  <1>4. CASE site = "Eldorado"
    <2>1. cfg = EldoradoSource
      BY <1>4 DEF cfg, HTML_SOURCES
    <2> QED BY <2>1 DEF EldoradoSource, Listings, Nothing
  <1>5. CASE site = "Apteka911"
    <2>1. cfg = Apteka911Source
      BY <1>5 DEF cfg, HTML_SOURCES
    <2> QED BY <2>1 DEF Apteka911Source, Listings, Nothing
  <1>6. CASE site = "AddUa"
    <2>1. cfg = AddUaSource
      BY <1>6 DEF cfg, HTML_SOURCES
    <2> QED BY <2>1 DEF AddUaSource, Listings, Nothing
  <1> QED BY <1>1, <1>2, <1>3, <1>4, <1>5, <1>6

LEMMA ListingNamed ==
  ASSUME site \in Site, NEW l \in SourceListings(cfg)
  PROVE  l.of # Nothing
  <1>1. PICK i \in DOMAIN cfg.urls, n \in Int : l = [of |-> cfg.urls[i][1], page |-> n]
    <2> DEFINE own(i) == cfg.urls[i][2]
               depth(i) == IF own(i) # 0 THEN own(i) ELSE cfg.pages
               last(i) == IF cfg.paged THEN Max({depth(i), 1}) ELSE 1
    <2>1. PICK i \in DOMAIN cfg.urls :
            l \in {[of |-> cfg.urls[i][1], page |-> n] : n \in 1..last(i)}
      BY DEF SourceListings
    <2> HIDE DEF last
    <2> QED BY <2>1
  <1> QED BY <1>1, SiteFacts

\* What a title may do to a category.
LEMMA RefineFacts ==
  ASSUME NEW base, NEW w \in SUBSET Word
  PROVE  /\ w = {} => RefineCategory(base, w) = base
         /\ "cookware" \in w => RefineCategory(base, w) \notin DEVICE_CATS
         /\ "harnitura" \in w => RefineCategory(base, w) \notin DEVICE_CATS \cup {"audio"}
         /\ w = {"washer", "dryer"} /\ base = "pobut-tehnika" =>
              RefineCategory(base, w) = "pralni-mashyny"
  <1> DEFINE said == {i \in DOMAIN APPLIANCE : APPLIANCE[i][1] \in w}
  <1>1. /\ DOMAIN APPLIANCE = {1, 2, 3, 4}
        /\ APPLIANCE[1] = <<"fridge", "holodylnyky">>
             /\ APPLIANCE[2] = <<"washer", "pralni-mashyny">>
        /\ APPLIANCE[3] = <<"dishwasher", "posudomyiky">>
        /\ APPLIANCE[4] = <<"dryer", "sushylni-mashyny">>
    <2>1. 1..4 = {1, 2, 3, 4}
      OBVIOUS
    <2> QED BY <2>1 DEF APPLIANCE
  <1>2. CASE base \in DEVICE_CATS
    <2>1. RefineCategory(base, w) = OfDevices(base, w)
      BY <1>2 DEF RefineCategory, DEVICE_CATS
    <2> QED BY <1>2, <2>1 DEF OfDevices, Audio, Headset, DEVICE_CATS
  <1>3. CASE base = "audio"
    <2>1. RefineCategory(base, w) = IF Headset(w) THEN "harnitury" ELSE "audio"
      BY <1>3 DEF RefineCategory, DEVICE_CATS
    <2> QED BY <1>3, <2>1 DEF Headset, DEVICE_CATS
  <1>4. CASE base = "pobut-tehnika"
    <2>1. RefineCategory(base, w) = OfAppliances(base, w)
      BY <1>4 DEF RefineCategory, DEVICE_CATS
    <2>2. OfAppliances(base, w) = IF said = {} THEN base ELSE APPLIANCE[Min(said)][2]
      BY DEF OfAppliances
    <2>3. said # {} => Min(said) \in {1, 2, 3, 4}
      <3>1. ASSUME said # {} PROVE \E m \in said : \A n \in said : m <= n
        BY <1>1, <3>1
      <3>2. said # {} => Min(said) \in said
        BY <3>1 DEF Min
      <3> QED BY <1>1, <3>2
    <2>4. OfAppliances(base, w) \in
            {"pobut-tehnika", "holodylnyky", "pralni-mashyny", "posudomyiky", "sushylni-mashyny"}
      <3> HIDE DEF said
      <3> QED BY <1>1, <1>4, <2>2, <2>3
    <2>5. w = {} => OfAppliances(base, w) = base
      BY <2>2
    <2>6. ASSUME w = {"washer", "dryer"} PROVE OfAppliances(base, w) = "pralni-mashyny"
      <3>1. said = {2, 4}
        BY <1>1, <2>6
      <3>2. Min({2, 4}) = 2
        BY DEF Min
      <3> HIDE DEF said
      <3> QED BY <1>1, <2>2, <3>1, <3>2
    <2> QED BY <2>1, <2>4, <2>5, <2>6 DEF DEVICE_CATS
  <1>5. CASE base \notin DEVICE_CATS \cup {"audio", "pobut-tehnika"}
    <2>1. RefineCategory(base, w) = base
      BY <1>5 DEF RefineCategory
    <2> QED BY <1>5, <2>1
  <1> QED BY <1>2, <1>3, <1>4, <1>5

-----------------------------------------------------------------------------
\* A page that the collectors may be sent for.
TaskKnown(u) ==
  /\ u.site = site
  /\ u.is \in {"hub", "sitemap", "listing", "landing", "product"}
  /\ u.is = "hub" => cfg.hub
  /\ u.is = "sitemap" => cfg.sitemap
  /\ u.is = "listing" => \E l \in SourceListings(cfg) : u = ListingUrl(l)
  /\ u.is \in {"landing", "product"} => cfg.category # Nothing

ShelvesInv ==
  /\ site \in Site /\ words \in [StoreProduct -> SUBSET Word]
  /\ \A t \in tasks : TaskKnown(t.url)
  /\ \A p \in StoreProduct : shelf[p] # Nothing =>
       \E u : u = seenOn[p] /\ TaskKnown(u) /\ ~OnlyLinks(u) /\ shelf[p] = ShelfFor(u, p)

LEMMA ShelvesStart == ShelvesInit => ShelvesInv
  <1> SUFFICES ASSUME ShelvesInit PROVE ShelvesInv
    OBVIOUS
  <1>1. site \in Site /\ words \in [StoreProduct -> SUBSET Word]
    BY DEF ShelvesInit
  <1>2. ASSUME NEW t \in CollectPlan PROVE TaskKnown(t.url)
    <2>1. CASE cfg.hub /\ t.url = Url(site, "hub", Nothing, 1)
      BY <2>1 DEF Url, TaskKnown
    <2>2. CASE cfg.sitemap /\ t.url = Url(site, "sitemap", Nothing, 1)
      BY <2>2 DEF Url, TaskKnown
    <2>3. ASSUME NEW l \in SourceListings(cfg), t.url = ListingUrl(l) PROVE TaskKnown(t.url)
      BY <2>3 DEF ListingUrl, Url, TaskKnown
    <2> QED BY <2>1, <2>2, <2>3 DEF CollectPlan
  <1>3. \A p \in StoreProduct : shelf[p] = Nothing
    BY DEF ShelvesInit
  <1> QED BY <1>1, <1>2, <1>3 DEF ShelvesInit, ShelvesInv

\* What a page links to is followed only within the shop.
LEMMA FoundKnown ==
  ASSUME site \in Site, NEW u, TaskKnown(u), NEW products,
         NEW links \in Links \cup {<<>>}, NEW v \in IngestHtml(u, links, products).found
  PROVE  TaskKnown(v)
  <1>1. \A i \in DOMAIN links : links[i] \in Link
    BY DEF Links
  <1>2. \A x \in Link : x.is \in {"landing", "product"}
    BY DEF Link, Url
  <1>3. CASE u.is = "sitemap"
    <2>1. v \in {links[i] : i \in SitemapLocs(links)}
      BY <1>3 DEF IngestHtml
    <2>2. PICK i \in DOMAIN links : v = links[i] /\ HostOk(v)
      BY <2>1 DEF SitemapLocs, FirstOf
    <2> QED BY <1>1, <1>2, <1>3, <2>2, SiteFacts DEF TaskKnown, HostOk
  <1>4. CASE u.is # "sitemap" /\ (u.is = "hub" \/ Discovers(u))
    <2>1. v \in {links[i] : i \in Landings(links)}
      BY <1>4 DEF IngestHtml
    <2>2. PICK i \in DOMAIN links : v = links[i] /\ HostOk(v)
      BY <2>1 DEF Landings, FirstOf
    <2>3. cfg.hub \/ cfg.discovers
      BY <1>4 DEF TaskKnown, Discovers
    <2> QED BY <1>1, <1>2, <2>2, <2>3, SiteFacts DEF TaskKnown, HostOk
  <1>5. CASE u.is # "sitemap" /\ ~(u.is = "hub" \/ Discovers(u))
    BY <1>5 DEF IngestHtml
  <1> QED BY <1>3, <1>4, <1>5

LEMMA ShelvesStep ==
  ASSUME ShelvesInv, [ShelvesNext]_shelfVars
  PROVE  ShelvesInv'
  <1>1. CASE UNCHANGED shelfVars
    BY <1>1 DEF shelfVars, ShelvesInv, TaskKnown, OnlyLinks, Discovers, ShelfFor, CategorySlug,
                URL_CATEGORY, ListingUrl, cfg
  <1>2. CASE ShelvesNext
    <2>1. PICK t \in tasks : \E products \in Holds(t.url) :
            \E links \in (IF OnlyLinks(t.url) THEN Links ELSE {<<>>}) : Collect(t, links, products)
      BY <1>2 DEF ShelvesNext
    <2>2. PICK products \in Holds(t.url), links \in Links \cup {<<>>} : Collect(t, links, products)
      BY <2>1
    <2> DEFINE r == IngestHtml(t.url, links, products)
    <2>3. site' = site /\ words' = words /\ cfg' = cfg
      BY <2>2 DEF Collect, cfg
    <2>4. \A u : TaskKnown(u)' <=> TaskKnown(u)
      BY <2>3 DEF TaskKnown, ListingUrl
    <2>5. \A u : OnlyLinks(u)' <=> OnlyLinks(u)
      BY <2>3 DEF OnlyLinks, Discovers
    <2>6. \A u, p : ShelfFor(u, p)' = ShelfFor(u, p)
      BY <2>3 DEF ShelfFor, CategorySlug, URL_CATEGORY, ListingUrl
    <2>7. TaskKnown(t.url)
      BY DEF ShelvesInv
    <2>8. \A s \in tasks' : TaskKnown(s.url)
      <3>1. tasks' = tasks \cup {[url |-> u, kind |-> "page"] : u \in r.found}
        BY <2>2 DEF Collect
      <3>2. \A v \in r.found : TaskKnown(v)
        BY <2>7, FoundKnown DEF ShelvesInv
      <3> HIDE DEF r
      <3> QED BY <3>1, <3>2 DEF ShelvesInv
    <2>9. ASSUME NEW p \in StoreProduct, shelf'[p] # Nothing
          PROVE  \E u : u = seenOn'[p] /\ TaskKnown(u) /\ ~OnlyLinks(u)
                   /\ shelf'[p] = ShelfFor(u, p)
      <3>1. /\ shelf'[p] = IF p \in r.products THEN ShelfFor(t.url, p) ELSE shelf[p]
            /\ seenOn'[p] = IF p \in r.products THEN t.url ELSE seenOn[p]
        BY <2>2 DEF Collect
      <3>2. OnlyLinks(t.url) => r.products = {}
        BY DEF OnlyLinks, IngestHtml
      <3> HIDE DEF r
      <3> QED BY <2>7, <2>9, <3>1, <3>2 DEF ShelvesInv
    <2>10. \A p \in StoreProduct : shelf'[p] # Nothing =>
             \E u : u = seenOn'[p] /\ TaskKnown(u)' /\ ~OnlyLinks(u)' /\ shelf'[p] = ShelfFor(u, p)'
      BY <2>4, <2>5, <2>6, <2>9
    <2> QED BY <2>3, <2>4, <2>8, <2>10 DEF ShelvesInv
  <1> QED BY <1>1, <1>2

LEMMA ShelvesInvHolds == ShelvesSpec => []ShelvesInv
  BY ShelvesStart, ShelvesStep, PTL DEF ShelvesSpec

LEMMA ShelvesInvShelves ==
  ASSUME ShelvesInv
  PROVE  OnItsShelf
  <1> SUFFICES ASSUME NEW p \in StoreProduct, shelf[p] # Nothing, NEW u, u = seenOn[p]
               PROVE  /\ words[p] = {} =>
                           shelf[p] = (IF u.is = "listing" THEN u.of ELSE cfg.category)
                      /\ "cookware" \in words[p] => shelf[p] \notin DEVICE_CATS
                      /\ "harnitura" \in words[p] => shelf[p] \notin DEVICE_CATS \cup {"audio"}
                      /\ words[p] = {"washer", "dryer"} /\ u.is = "listing"
                           /\ u.of = "pobut-tehnika" => shelf[p] = "pralni-mashyny"
    BY DEF OnItsShelf
  <1> DEFINE base == IF CategorySlug(u) = Nothing THEN Categorize ELSE CategorySlug(u)
  <1>1. TaskKnown(u) /\ ~OnlyLinks(u) /\ shelf[p] = ShelfFor(u, p) /\ words[p] \in SUBSET Word
    BY DEF ShelvesInv
  <1>2. base = IF u.is = "listing" THEN u.of ELSE cfg.category
    <2>1. CASE u.is = "listing"
      <3>1. PICK l \in SourceListings(cfg) : u = ListingUrl(l)
        BY <1>1, <2>1 DEF TaskKnown
      <3>2. URL_CATEGORY(u) = u.of /\ u.of = l.of
        BY <3>1 DEF URL_CATEGORY, ListingUrl, Url
      <3>3. l.of # Nothing
        BY ListingNamed DEF ShelvesInv
      <3> QED BY <2>1, <3>2, <3>3 DEF CategorySlug
    <2>2. CASE u.is # "listing"
      <3>0. \A l \in SourceListings(cfg) : ListingUrl(l).is = "listing"
        BY DEF ListingUrl, Url
      <3>1. URL_CATEGORY(u) = Nothing
        BY <2>2, <3>0 DEF URL_CATEGORY
      <3>2. u.is \in {"landing", "product"}
        BY <1>1, <2>2 DEF TaskKnown, OnlyLinks
      <3> QED BY <1>1, <2>2, <3>1, <3>2 DEF CategorySlug, TaskKnown
    <2> QED BY <2>1, <2>2
  <1>3. shelf[p] = RefineCategory(base, words[p])
    BY <1>1 DEF ShelfFor
  <1> HIDE DEF base
  <1> QED BY <1>1, <1>2, <1>3, RefineFacts

\* Whatever pages a product was seen on, it stands where it was last seen: for
\* any products, any links, and all the pages of the five shops.
THEOREM ShelfHolds == ShelvesSpec => []OnItsShelf
  BY ShelvesInvHolds, ShelvesInvShelves, PTL

\* No collector is sent to another site, whatever links pages hold.
THEOREM OwnSiteHolds == ShelvesSpec => []OwnSiteOnly
  <1>1. ShelvesInv => OwnSiteOnly
    BY DEF ShelvesInv, TaskKnown, OwnSiteOnly
  <1> QED BY <1>1, ShelvesInvHolds, PTL

-----------------------------------------------------------------------------
\* Choice.

\* Of finitely many there is one that is above all others, in any order.
LEMMA FirstOfAll ==
  ASSUME NEW n \in Nat, NEW C, C \subseteq 1..n, C # {}, NEW R,
         \A x, y \in C : x = y \/ <<x, y>> \in R \/ <<y, x>> \in R,
         \A x, y, z \in C : <<x, y>> \in R /\ <<y, z>> \in R => <<x, z>> \in R
  PROVE  \E x \in C : \A y \in C : x = y \/ <<x, y>> \in R
  <1> DEFINE Low(m) == C \cap 1..m
             Top(m) == \E x \in Low(m) : \A y \in Low(m) : x = y \/ <<x, y>> \in R
             Bad == {m \in 0..n : Low(m) # {} /\ ~Top(m)}
  <1>1. Low(n) = C
    OBVIOUS
  <1>2. Bad = {}
    <2> SUFFICES ASSUME Bad # {} PROVE FALSE
      OBVIOUS
    <2>1. Bad \subseteq Nat
      OBVIOUS
    <2>2. PICK m \in Bad : \A k \in Bad : m <= k
      <3> HIDE DEF Bad
      <3> QED BY <2>1, LeastThere
    <2>3. m \in 0..n /\ Low(m) # {} /\ ~Top(m)
      OBVIOUS
    <2>4. m # 0
      BY <2>3
    <2>5. m - 1 \in 0..n /\ ~(m <= m - 1)
      BY <2>3, <2>4
    <2>6. Low(m - 1) = {} \/ Top(m - 1)
      BY <2>2, <2>5
    <2>7. \A y \in Low(m) : y = m \/ y \in Low(m - 1)
      BY <2>3
    <2>8. \A y \in Low(m - 1) : y \in Low(m)
      BY <2>3
    <2>9. CASE m \notin C
      <3>1. Low(m) = Low(m - 1)
        BY <2>7, <2>8, <2>9
      <3> HIDE DEF Low
      <3> QED BY <2>3, <2>6, <3>1
    <2>10. CASE m \in C /\ Low(m - 1) = {}
      <3>1. m \in Low(m) /\ \A y \in Low(m) : y = m
        BY <2>3, <2>4, <2>7, <2>10
      <3> HIDE DEF Low
      <3> QED BY <2>3, <3>1
    <2>11. CASE m \in C /\ Top(m - 1)
      <3>1. PICK x \in Low(m - 1) : \A y \in Low(m - 1) : x = y \/ <<x, y>> \in R
        BY <2>11
      <3>2. m \in Low(m) /\ x \in Low(m) /\ x \in C /\ \A y \in Low(m - 1) : y \in C
        BY <2>3, <2>4, <2>8, <2>11
      <3>3. CASE <<x, m>> \in R
        <4>1. \A y \in Low(m) : x = y \/ <<x, y>> \in R
          BY <2>7, <3>1, <3>3
        <4> QED BY <2>3, <3>2, <4>1
      <3>4. CASE x # m /\ <<m, x>> \in R
        <4>1. \A y \in Low(m - 1) : <<m, y>> \in R
          BY <2>11, <3>1, <3>2, <3>4
        <4>2. \A y \in Low(m) : m = y \/ <<m, y>> \in R
          BY <2>7, <4>1
        <4> QED BY <2>3, <3>2, <4>2
      <3>5. CASE x = m
        BY <2>3, <3>5
      <3> QED BY <2>11, <3>2, <3>3, <3>4, <3>5
    <2> QED BY <2>6, <2>9, <2>10, <2>11
  <1>3. Top(n)
    <2>1. n \in 0..n /\ Low(n) # {}
      BY <1>1
    <2>2. n \in 0..n /\ Low(n) # {} /\ ~Top(n) => n \in Bad
      OBVIOUS
    <2> HIDE DEF Bad, Low, Top
    <2> QED BY <1>2, <2>1, <2>2
  <1> QED BY <1>1, <1>3

-----------------------------------------------------------------------------
\* Products of numbers.
LEMMA Times ==
  ASSUME NEW a \in Int, NEW b \in Int, NEW c \in Nat, a <= b
  PROVE  a * c <= b * c
  OBVIOUS

LEMMA TimesStrictly ==
  ASSUME NEW a \in Int, NEW b \in Int, NEW c \in Nat \ {0}, a < b
  PROVE  a * c < b * c
  OBVIOUS

\* Rounding: the number is within half of what it is rounded to, and a half goes
\* to the even one.
LEMMA RoundedFacts ==
  ASSUME NEW n \in Nat, NEW d \in Nat \ {0}
  PROVE  LET k == Rounded(n, d) IN
         /\ k \in Nat
         /\ 2 * n <= (2 * k + 1) * d /\ (2 * k - 1) * d <= 2 * n
         /\ 2 * n = (2 * k + 1) * d \/ 2 * n = (2 * k - 1) * d => k % 2 = 0
  <1> DEFINE q == n \div d
             r == n % d
             k == Rounded(n, d)
  <1>1. q \in Nat /\ r \in 0..(d-1) /\ n = q * d + r
    OBVIOUS
  <1>2. k = IF 2 * r > d \/ (2 * r = d /\ q % 2 = 1) THEN q + 1 ELSE q
    BY DEF Rounded
  <1>3. q % 2 = 0 \/ q % 2 = 1
    BY <1>1
  <1>4. q % 2 = 1 => (q + 1) % 2 = 0
    BY <1>1
  <1> HIDE DEF q, r, k
  <1>5. PICK m \in Nat : m = q * d
    BY <1>1
  <1>6. /\ (2 * q + 1) * d = 2 * m + d /\ (2 * q - 1) * d = 2 * m - d
        /\ (2 * (q + 1) + 1) * d = 2 * m + 3 * d /\ (2 * (q + 1) - 1) * d = 2 * m + d
    BY <1>1, <1>5
  <1>7. 2 * n = 2 * m + 2 * r
    BY <1>1, <1>5
  <1>8. CASE 2 * r > d \/ (2 * r = d /\ q % 2 = 1)
    <2>1. k = q + 1
      BY <1>2, <1>8
    <2>2. 2 * n <= 2 * m + 3 * d /\ 2 * m + d <= 2 * n /\ 2 * n # 2 * m + 3 * d
      BY <1>1, <1>7, <1>8
    <2>3. 2 * n = 2 * m + d => q % 2 = 1
      BY <1>1, <1>7, <1>8
    <2> QED BY <1>1, <1>4, <1>6, <2>1, <2>2, <2>3 DEF k
  <1>9. CASE ~(2 * r > d) /\ (2 * r = d => q % 2 = 0)
    <2>1. k = q
      BY <1>2, <1>9
    <2>2. 2 * n <= 2 * m + d /\ 2 * m - d <= 2 * n /\ 2 * n # 2 * m - d
      BY <1>1, <1>7, <1>9
    <2>3. 2 * n = 2 * m + d => q % 2 = 0
      BY <1>1, <1>7, <1>9
    <2> QED BY <1>1, <1>6, <2>1, <2>2, <2>3 DEF k
  <1> QED BY <1>3, <1>8, <1>9

\* What is less is not rounded to more.
LEMMA RoundedMonotone ==
  ASSUME NEW m \in Nat, NEW n \in Nat, NEW d \in Nat \ {0}, NEW e \in Nat \ {0},
         m * e <= n * d
  PROVE  Rounded(m, d) <= Rounded(n, e)
  <1> DEFINE j == Rounded(m, d)
             k == Rounded(n, e)
  <1>1. /\ j \in Nat /\ (2 * j - 1) * d <= 2 * m /\ (2 * m = (2 * j - 1) * d => j % 2 = 0)
        /\ k \in Nat /\ 2 * n <= (2 * k + 1) * e /\ (2 * n = (2 * k + 1) * e => k % 2 = 0)
    BY RoundedFacts
  <1> HIDE DEF j, k
  <1> SUFFICES ASSUME k < j PROVE FALSE
    BY <1>1 DEF j, k
  <1>2. PICK a \in Int, b \in Int, p \in Nat \ {0} : a = 2 * j - 1 /\ b = 2 * k + 1 /\ p = d * e
    BY <1>1
  <1>3. b <= a
    BY <1>1, <1>2
  <1>4. a * p <= 2 * (m * e)
    <2>1. a * d <= 2 * m
      BY <1>1, <1>2
    <2>2. (a * d) * e <= (2 * m) * e
      BY <2>1, Times
    <2> QED BY <1>2, <2>2
  <1>5. 2 * (n * d) <= b * p
    <2>1. 2 * n <= b * e
      BY <1>1, <1>2
    <2>2. (2 * n) * d <= (b * e) * d
      BY <1>2, <2>1, Times
    <2> QED BY <1>2, <2>2
  <1>6. b * p <= a * p
    BY <1>2, <1>3, Times
  <1>7. a * p = b * p /\ a * p = 2 * (m * e) /\ b * p = 2 * (n * d)
    BY <1>2, <1>4, <1>5, <1>6
  <1>8. a = b
    BY <1>2, <1>3, <1>7, TimesStrictly
  <1>9. 2 * m = a * d
    <2>1. (a * d) * e = (2 * m) * e
      BY <1>2, <1>7
    <2> QED BY <1>2, <2>1
  <1>10. 2 * n = b * e
    <2>1. (b * e) * d = (2 * n) * d
      BY <1>2, <1>7
    <2> QED BY <1>2, <2>1
  <1>11. j % 2 = 0 /\ k % 2 = 0 /\ j = k + 1
    BY <1>1, <1>2, <1>8, <1>9, <1>10
  <1> QED BY <1>1, <1>11

-----------------------------------------------------------------------------
\* The offers of a product.
ChoiceTyped ==
  /\ fact \in [Store -> [rule : Rule, events : Checked, pickup : BOOLEAN]]
  /\ pages \in [Store -> SUBSET Page]

\* Of a shop's pages one is first: in stock, then new, then the cheapest.
LEMMA OfferFacts ==
  ASSUME ChoiceTyped, NEW s \in Sellers
  PROVE  /\ s \in Store /\ Offer(s) \in pages[s] /\ Offer(s) \in Page
         /\ \A q \in pages[s] : Before(Rank(Offer(s)), Rank(q))
  <1>1. s \in Store /\ pages[s] # {} /\ pages[s] \subseteq Page
    BY DEF Sellers, ChoiceTyped
  <1>2. \A p \in pages[s] :
          /\ p.kop \in Nat /\ Rank(p)[1] \in Nat /\ Rank(p)[2] \in Nat
          /\ Rank(p)[3] = p.kop
    BY <1>1, ChoiceAssumption DEF Page, Rank
  <1> DEFINE A == {Rank(p)[1] : p \in pages[s]}
  <1>3. A \subseteq Nat /\ A # {}
    BY <1>1, <1>2
  <1>4. PICK a \in A : \A x \in A : a <= x
    <2> HIDE DEF A
    <2> QED BY <1>3, LeastThere
  <1> DEFINE B == {Rank(p)[2] : p \in {r \in pages[s] : Rank(r)[1] = a}}
  <1>5. B \subseteq Nat /\ B # {}
    BY <1>2
  <1>6. PICK b \in B : \A x \in B : b <= x
    <2> HIDE DEF B
    <2> QED BY <1>5, LeastThere
  <1> DEFINE K == {Rank(p)[3] : p \in {r \in pages[s] : Rank(r)[1] = a /\ Rank(r)[2] = b}}
  <1>7. K \subseteq Nat /\ K # {}
    BY <1>2
  <1>8. PICK k \in K : \A x \in K : k <= x
    <2> HIDE DEF K
    <2> QED BY <1>7, LeastThere
  <1>9. PICK p \in pages[s] : Rank(p)[1] = a /\ Rank(p)[2] = b /\ Rank(p)[3] = k
    OBVIOUS
  <1>10. ASSUME NEW q \in pages[s] PROVE Before(Rank(p), Rank(q))
    <2>1. a <= Rank(q)[1] /\ a \in Nat /\ Rank(q)[1] \in Nat /\ Rank(q)[2] \in Nat /\ b \in Nat
      BY <1>2, <1>3, <1>4, <1>5
    <2>2. Rank(q)[1] = a => b <= Rank(q)[2]
      BY <1>6
    <2>3. Rank(q)[1] = a /\ Rank(q)[2] = b => k <= Rank(q)[3]
      BY <1>8
    <2> QED BY <1>9, <2>1, <2>2, <2>3 DEF Before
  <1>11. \E x \in pages[s] : \A q \in pages[s] : Before(Rank(x), Rank(q))
    BY <1>10
  <1> QED BY <1>1, <1>11 DEF Offer

LEMMA NewIfThereIs ==
  ASSUME ChoiceTyped, NEW s \in Sellers, Offer(s).inStock, Offer(s).used,
         NEW q \in pages[s], q.inStock
  PROVE  q.used
  <1>1. Before(Rank(Offer(s)), Rank(q)) /\ Offer(s) \in Page /\ q \in Page
    BY OfferFacts DEF ChoiceTyped
  <1>2. Rank(Offer(s))[1] = 0 /\ Rank(Offer(s))[2] = 1 /\ Rank(q)[1] = 0
    BY <1>1 DEF Rank, Page
  <1>3. ~q.used => Rank(q)[2] = 0
    BY DEF Rank
  <1> QED BY <1>1, <1>2, <1>3 DEF Before

LEMMA KopFacts ==
  ASSUME ChoiceTyped, NEW s \in Candidates
  PROVE  EffectiveKop(s) \in Nat \ {0}
  <1>1. s \in Sellers /\ s \in Store /\ Offer(s) \in Page /\ Offer(s).kop > 0
    BY OfferFacts DEF Candidates
  <1>2. Offer(s).kop \in Nat
    BY <1>1, ChoiceAssumption DEF Page
  <1>3. fact[s].rule \in Rule
    BY <1>1 DEF ChoiceTyped
  <1>4. fact[s].rule.base = Unset \/ fact[s].rule.base \in Nat
    BY <1>3, ChoiceAssumption
  <1> QED BY <1>1, <1>2, <1>4 DEF EffectiveKop

LEMMA HonestyFacts ==
  ASSUME ChoiceTyped, NEW s \in Store
  PROVE  HonestyTimes(s) \in Nat /\ HonestyOf(s) \in Nat \ {0} /\ HonestyTimes(s) <= HonestyOf(s)
  <1>1. fact[s].events \in Checked
    BY DEF ChoiceTyped
  <1>2. fact[s].events.total \in Nat /\ fact[s].events.pumped \in 0..fact[s].events.total
    BY <1>1, ChoiceAssumption
  <1> QED BY <1>2 DEF HonestyTimes, HonestyOf

LEMMA LeastFacts ==
  ASSUME ChoiceTyped, Candidates # {}
  PROVE  /\ \E s \in Candidates : EffectiveKop(s) = LeastKop(Candidates)
         /\ \A s \in Candidates : LeastKop(Candidates) <= EffectiveKop(s)
  <1> DEFINE S == {EffectiveKop(s) : s \in Candidates}
  <1>1. S \subseteq Nat /\ S # {}
    BY KopFacts
  <1>2. \E m \in S : \A n \in S : m <= n
    <2> HIDE DEF S
    <2> QED BY <1>1, LeastThere
  <1>3. Min(S) \in S /\ \A n \in S : Min(S) <= n
    BY <1>2 DEF Min
  <1> QED BY <1>3 DEF LeastKop

-----------------------------------------------------------------------------
\* A score before it is rounded: Above(s, l) to Under(s), when the lowest price
\* is l.
Bonus(s) == IF fact[s].pickup THEN 500 ELSE 0

Above(s, l) ==
  7000 * l * HonestyOf(s) + 2500 * HonestyTimes(s) * EffectiveKop(s)
    + Bonus(s) * EffectiveKop(s) * HonestyOf(s)

Under(s) == EffectiveKop(s) * HonestyOf(s)

LEMMA ProductInNat ==
  ASSUME NEW a \in Nat, NEW b \in Nat
  PROVE  a * b \in Nat
  OBVIOUS

LEMMA ProductIsPositive ==
  ASSUME NEW a \in Nat \ {0}, NEW b \in Nat \ {0}
  PROVE  a * b \in Nat \ {0}
  OBVIOUS

LEMMA ScoreFacts ==
  ASSUME ChoiceTyped, NEW s \in Candidates
  PROVE  /\ Above(s, LeastKop(Candidates)) \in Nat /\ Under(s) \in Nat \ {0}
         /\ Score(s, Candidates) = Rounded(Above(s, LeastKop(Candidates)), Under(s))
         /\ Score(s, Candidates) \in Nat
         /\ LeastKop(Candidates) \in Nat \ {0} /\ EffectiveKop(s) \in Nat \ {0}
         /\ HonestyOf(s) \in Nat \ {0} /\ HonestyTimes(s) \in Nat
         /\ HonestyTimes(s) <= HonestyOf(s) /\ Bonus(s) \in 0..500
  <1> DEFINE e == EffectiveKop(s)
             t == HonestyOf(s)
             h == HonestyTimes(s)
             l == LeastKop(Candidates)
             b == Bonus(s)
  <1>1. s \in Store
    BY OfferFacts DEF Candidates
  <1>2. l \in Nat \ {0}
    BY LeastFacts, KopFacts
  <1>3. e \in Nat \ {0} /\ t \in Nat \ {0} /\ h \in Nat /\ h <= t /\ b \in 0..500
    BY <1>1, KopFacts, HonestyFacts DEF Bonus
  <1>4. b * e * t = IF fact[s].pickup THEN 500 * e * t ELSE 0
    <2>1. CASE fact[s].pickup
      BY <2>1 DEF Bonus
    <2>2. CASE ~fact[s].pickup
      <3>1. b = 0
        BY <2>2 DEF Bonus
      <3> HIDE DEF e, t, b
      <3> QED BY <1>3, <2>2, <3>1
    <2> QED BY <2>1, <2>2
  <1>5. Score(s, Candidates)
          = Rounded(7000 * l * t + 2500 * h * e + (IF fact[s].pickup THEN 500 * e * t ELSE 0),
            e * t)
    BY DEF Score
  <1>6. Score(s, Candidates) = Rounded(7000 * l * t + 2500 * h * e + b * e * t, e * t)
    BY <1>4, <1>5
  <1> HIDE DEF e, t, h, l, b
  <1>7. e * t \in Nat \ {0}
    BY <1>3
  <1>8. l * t \in Nat /\ h * e \in Nat /\ b * (e * t) \in Nat
    BY <1>2, <1>3, <1>7
  <1>9. 7000 * l * t + 2500 * h * e + b * e * t \in Nat
    BY <1>2, <1>3, <1>8
  <1>10. Above(s, l) = 7000 * l * t + 2500 * h * e + b * e * t /\ Under(s) = e * t
    BY DEF Above, Under, e, t, h, b
  <1>11. Rounded(Above(s, l), Under(s)) \in Nat
    <2>1. PICK n \in Nat, d \in Nat \ {0} : n = Above(s, l) /\ d = Under(s)
      BY <1>7, <1>9, <1>10
    <2>2. Rounded(n, d) \in Nat
      BY RoundedFacts
    <2> QED BY <2>1, <2>2
  <1> QED BY <1>2, <1>3, <1>6, <1>7, <1>9, <1>10, <1>11 DEF e, t, h, l, b

\* A lower price, no less honesty and no less of a bonus: no lower score.
LEMMA CheaperScoresMore ==
  ASSUME ChoiceTyped, NEW s \in Candidates, NEW c \in Candidates,
         EffectiveKop(s) < EffectiveKop(c), Honester(s, c), fact[c].pickup => fact[s].pickup
  PROVE  Score(c, Candidates) <= Score(s, Candidates)
  <1> DEFINE l == LeastKop(Candidates)
  <1>1. /\ Above(s, l) \in Nat /\ Under(s) \in Nat \ {0}
             /\ Score(s, Candidates) = Rounded(Above(s, l), Under(s))
        /\ Above(c, l) \in Nat /\ Under(c) \in Nat \ {0}
             /\ Score(c, Candidates) = Rounded(Above(c, l), Under(c))
        /\ l \in Nat
    BY ScoreFacts
  <1>2. PICK x \in Nat, y \in Nat : x = EffectiveKop(s) /\ y = EffectiveKop(c)
    BY ScoreFacts
  <1>3. PICK g \in Nat, h \in Nat : g = HonestyTimes(s) /\ h = HonestyTimes(c)
    BY ScoreFacts
  <1>4. PICK t \in Nat, u \in Nat : t = HonestyOf(s) /\ u = HonestyOf(c)
    BY ScoreFacts
  <1>5. PICK a \in Nat, b \in Nat : a = Bonus(s) /\ b = Bonus(c) /\ b <= a
    BY DEF Bonus
  <1>6. x <= y /\ h * t <= g * u
    BY <1>2, <1>3, <1>4 DEF Honester
  <1>7. /\ Above(s, l) = 7000 * l * t + 2500 * g * x + a * x * t /\ Under(s) = x * t
        /\ Above(c, l) = 7000 * l * u + 2500 * h * y + b * y * u /\ Under(c) = y * u
    BY <1>2, <1>3, <1>4, <1>5 DEF Above, Under
  <1> HIDE DEF l
  <1>8. (7000 * l * u) * (x * t) <= (7000 * l * t) * (y * u)
    <2>1. PICK m \in Nat : m = 7000 * l * u * t
      BY <1>1
    <2>2. x * m <= y * m
      BY <1>6, Times
    <2> QED BY <1>1, <2>1, <2>2
  <1>9. (2500 * h * y) * (x * t) <= (2500 * g * x) * (y * u)
    <2>1. PICK m \in Nat : m = 2500 * (x * y)
      OBVIOUS
    <2>2. (h * t) * m <= (g * u) * m
      BY <1>6, Times
    <2> QED BY <2>1, <2>2
  <1>10. (b * y * u) * (x * t) <= (a * x * t) * (y * u)
    <2>1. PICK m \in Nat : m = (x * t) * (y * u)
      OBVIOUS
    <2>2. b * m <= a * m
      BY <1>5, Times
    <2> QED BY <2>1, <2>2
  <1>11. Above(c, l) * Under(s) <= Above(s, l) * Under(c)
    <2>1. Above(c, l) * Under(s) =
            (7000 * l * u) * (x * t) + (2500 * h * y) * (x * t) + (b * y * u) * (x * t)
      BY <1>1, <1>7
    <2>2. Above(s, l) * Under(c) =
            (7000 * l * t) * (y * u) + (2500 * g * x) * (y * u) + (a * x * t) * (y * u)
      BY <1>1, <1>7
    <2> QED BY <1>1, <1>8, <1>9, <1>10, <2>1, <2>2
  <1> QED BY <1>1, <1>11, RoundedMonotone

\* Honesty and pick-up are worth 0.3 together, and a price that is three quarters
\* above the lowest costs as much.
LEMMA ScoreOfDear ==
  ASSUME ChoiceTyped, NEW s \in Candidates, 7 * LeastKop(Candidates) <= 4 * EffectiveKop(s)
  PROVE  Score(s, Candidates) <= 7000
  <1> DEFINE l == LeastKop(Candidates)
             e == EffectiveKop(s)
             t == HonestyOf(s)
             h == HonestyTimes(s)
             b == Bonus(s)
  <1>1. /\ Above(s, l) \in Nat /\ Under(s) \in Nat \ {0}
             /\ Score(s, Candidates) = Rounded(Above(s, l), Under(s))
        /\ l \in Nat /\ e \in Nat /\ t \in Nat /\ h \in Nat /\ h <= t /\ b \in 0..500
    BY ScoreFacts
  <1>2. Above(s, l) = 7000 * l * t + 2500 * h * e + b * e * t /\ Under(s) = e * t
    BY DEF Above, Under
  <1>3. 7 * l <= 4 * e
    OBVIOUS
  <1> HIDE DEF l, e, t, h, b
  <1>4. 7000 * l * t <= 4000 * e * t
    <2>1. 7000 * l <= 4000 * e
      BY <1>1, <1>3
    <2> QED BY <1>1, <2>1, Times
  <1>5. 2500 * h * e <= 2500 * e * t
    <2>1. h * (2500 * e) <= t * (2500 * e)
      BY <1>1, Times
    <2> QED BY <1>1, <2>1
  <1>6. b * e * t <= 500 * e * t
    <2>1. b * (e * t) <= 500 * (e * t)
      BY <1>1, Times
    <2> QED BY <1>1, <2>1
  <1>7. Above(s, l) * 1 <= 7000 * Under(s)
    <2>1. PICK m \in Nat : m = e * t
      BY <1>1
    <2>2. /\ 4000 * e * t = 4000 * m /\ 2500 * e * t = 2500 * m /\ 500 * e * t = 500 * m
      BY <1>1, <2>1
    <2> QED BY <1>1, <1>2, <1>4, <1>5, <1>6, <2>1, <2>2
  <1>8. Rounded(7000, 1) = 7000
    BY DEF Rounded
  <1>9. Rounded(Above(s, l), Under(s)) <= Rounded(7000, 1)
    BY <1>1, <1>7, RoundedMonotone
  <1> QED BY <1>1, <1>8, <1>9

LEMMA ScoreOfCheapest ==
  ASSUME ChoiceTyped, NEW s \in Candidates, EffectiveKop(s) = LeastKop(Candidates)
  PROVE  7000 <= Score(s, Candidates)
  <1> DEFINE l == LeastKop(Candidates)
             t == HonestyOf(s)
             h == HonestyTimes(s)
             b == Bonus(s)
  <1>1. /\ Above(s, l) \in Nat /\ Under(s) \in Nat \ {0}
             /\ Score(s, Candidates) = Rounded(Above(s, l), Under(s))
        /\ l \in Nat /\ t \in Nat /\ h \in Nat /\ b \in Nat
    BY ScoreFacts
  <1>2. Above(s, l) = 7000 * l * t + 2500 * h * l + b * l * t /\ Under(s) = l * t
    BY DEF Above, Under
  <1> HIDE DEF l, t, h, b
  <1>3. h * l \in Nat /\ b * (l * t) \in Nat
    BY <1>1
  <1>4. 7000 * Under(s) <= Above(s, l) * 1
    BY <1>1, <1>2, <1>3
  <1>5. Rounded(7000, 1) = 7000
    BY DEF Rounded
  <1>6. Rounded(7000, 1) <= Rounded(Above(s, l), Under(s))
    BY <1>1, <1>4, RoundedMonotone
  <1> QED BY <1>1, <1>5, <1>6

-----------------------------------------------------------------------------
\* The one that is chosen is better than every other.
LEMMA PickFacts ==
  ASSUME ChoiceTyped, Candidates # {}
  PROVE  /\ Pick(Candidates) \in Candidates
         /\ \A r \in Candidates \ {Pick(Candidates)} : Better(Pick(Candidates), r, Candidates)
  <1> DEFINE C == Candidates
             sc == [s \in C |-> Score(s, C)]
             kop == [s \in C |-> EffectiveKop(s)]
             R == {w \in C \X C : Better(w[1], w[2], C)}
  <1>1. C \subseteq 1..Stores /\ Stores \in Nat
    BY ChoiceAssumption DEF Candidates, Sellers, Store
  <1>2. \A s \in C : sc[s] \in Nat /\ kop[s] \in Nat /\ s \in Nat
    <2>1. \A s \in C : Score(s, C) \in Nat /\ EffectiveKop(s) \in Nat
      BY ScoreFacts
    <2>2. \A s \in C : s \in Nat
      BY <1>1
    <2> QED BY <2>1, <2>2
  <1>3. \A s, r \in C : Better(s, r, C) <=>
          \/ sc[s] > sc[r]
          \/ sc[s] = sc[r] /\ kop[s] < kop[r]
          \/ sc[s] = sc[r] /\ kop[s] = kop[r] /\ s > r
    BY DEF Better
  <1>4. \A s, r \in C : <<s, r>> \in R <=> Better(s, r, C)
    OBVIOUS
  <1> HIDE DEF C, sc, kop, R
  <1>5. \A x, y \in C : x = y \/ <<x, y>> \in R \/ <<y, x>> \in R
    <2> SUFFICES ASSUME NEW x \in C, NEW y \in C PROVE x = y \/ Better(x, y, C) \/ Better(y, x, C)
      BY <1>4
    <2>1. /\ sc[x] \in Nat /\ sc[y] \in Nat /\ kop[x] \in Nat /\ kop[y] \in Nat
          /\ x \in Nat /\ y \in Nat
      BY <1>2
    <2>2. /\ sc[x] > sc[y] \/ sc[x] = sc[y] \/ sc[y] > sc[x]
          /\ kop[x] < kop[y] \/ kop[x] = kop[y] \/ kop[y] < kop[x]
          /\ x > y \/ x = y \/ y > x
      BY <2>1
    <2> QED BY <1>3, <2>2
  <1>6. \A x, y, z \in C : <<x, y>> \in R /\ <<y, z>> \in R => <<x, z>> \in R
    BY <1>2, <1>3, <1>4
  <1>7. C # {}
    BY DEF C
  <1>8. \E x \in C : \A y \in C : x = y \/ <<x, y>> \in R
    BY <1>1, <1>5, <1>6, <1>7, FirstOfAll
  <1>9. \E x \in C : \A r \in C \ {x} : Better(x, r, C)
    BY <1>4, <1>8
  <1>10. /\ Pick(C) \in C
         /\ \A r \in C \ {Pick(C)} : Better(Pick(C), r, C)
    BY <1>9 DEF Pick
  <1> QED BY <1>10 DEF C

LEMMA SavingsFacts ==
  ASSUME ChoiceTyped, NEW c \in Candidates
  PROVE  Savings(c) >= 0
  <1> DEFINE C == Candidates
             kop == [s \in C |-> EffectiveKop(s)]
             R == {w \in C \X C : kop[w[1]] >= kop[w[2]]}
             S == {EffectiveKop(r) : r \in C}
  <1>1. C \subseteq 1..Stores /\ Stores \in Nat /\ C # {}
    BY ChoiceAssumption DEF Candidates, Sellers, Store
  <1>2. \A s \in C : kop[s] \in Nat
    BY KopFacts
  <1>3. \A s, r \in C : <<s, r>> \in R <=> kop[s] >= kop[r]
    OBVIOUS
  <1>4. S = {kop[r] : r \in C} /\ kop[c] = EffectiveKop(c) /\ c \in C
    OBVIOUS
  <1> HIDE DEF C, kop, R, S
  <1>5. \A x, y \in C : x = y \/ <<x, y>> \in R \/ <<y, x>> \in R
    <2> SUFFICES ASSUME NEW x \in C, NEW y \in C PROVE kop[x] >= kop[y] \/ kop[y] >= kop[x]
      BY <1>3
    <2>1. kop[x] \in Nat /\ kop[y] \in Nat
      BY <1>2
    <2> QED BY <2>1
  <1>6. \A x, y, z \in C : <<x, y>> \in R /\ <<y, z>> \in R => <<x, z>> \in R
    BY <1>2, <1>3
  <1>7. PICK x \in C : \A y \in C : x = y \/ <<x, y>> \in R
    BY <1>1, <1>5, <1>6, FirstOfAll
  <1>8. \A y \in C : kop[x] >= kop[y]
    <2> SUFFICES ASSUME NEW y \in C PROVE kop[x] >= kop[y]
      OBVIOUS
    <2>1. kop[x] \in Nat /\ kop[y] \in Nat
      BY <1>2
    <2>2. x = y \/ kop[x] >= kop[y]
      BY <1>3, <1>7
    <2> QED BY <2>1, <2>2
  <1>9. \E m \in S : \A n \in S : m >= n
    BY <1>4, <1>8
  <1>10. Max(S) \in S /\ \A n \in S : Max(S) >= n
    BY <1>9 DEF Max
  <1>11. Max(S) >= kop[c] /\ Max(S) \in Nat /\ kop[c] \in Nat
    BY <1>2, <1>4, <1>10
  <1>12. Savings(c) = Max(S) - kop[c]
    BY <1>4 DEF Savings, S, C
  <1> QED BY <1>11, <1>12

LEMMA ChoiceIsSoundThere ==
  ASSUME ChoiceTyped
  PROVE  ChoiceIsSound
  <1> SUFFICES ASSUME OurChoice # Unset
               PROVE  LET c == OurChoice IN
                      /\ Offer(c).inStock
                      /\ Offer(c).used => \A p \in pages[c] : p.inStock => p.used
                      /\ ~\E s \in Candidates \ {c} :
                            /\ EffectiveKop(s) < EffectiveKop(c) /\ Honester(s, c)
                            /\ fact[c].pickup => fact[s].pickup
                      /\ 4 * EffectiveKop(c) < 7 * LeastKop(Candidates)
                      /\ Savings(c) >= 0
    BY DEF ChoiceIsSound
  <1>1. Candidates # {} /\ OurChoice = Pick(Candidates)
    <2>1. ~(Cardinality(Candidates) < 2) /\ OurChoice = Pick(Candidates)
      BY DEF OurChoice
    <2>2. Cardinality({}) = 0
      BY FS_EmptySet
    <2> QED BY <2>1, <2>2
  <1>2. PICK c : c = OurChoice
    OBVIOUS
  <1>3. c \in Candidates /\ \A r \in Candidates \ {c} : Better(c, r, Candidates)
    BY <1>1, <1>2, PickFacts
  <1>4. c \in Sellers /\ Offer(c).inStock
    BY <1>3 DEF Candidates
  <1>5. Offer(c).used => \A p \in pages[c] : p.inStock => p.used
    BY <1>4, NewIfThereIs
  <1>6. ASSUME NEW s \in Candidates \ {c}, EffectiveKop(s) < EffectiveKop(c), Honester(s, c),
               fact[c].pickup => fact[s].pickup
        PROVE  FALSE
    <2>1. Score(c, Candidates) <= Score(s, Candidates)
      BY <1>3, <1>6, CheaperScoresMore
    <2>2. /\ Score(c, Candidates) \in Nat /\ Score(s, Candidates) \in Nat
          /\ EffectiveKop(c) \in Nat /\ EffectiveKop(s) \in Nat
      BY <1>3, ScoreFacts
    <2>3. Better(c, s, Candidates)
      BY <1>3
    <2> QED BY <1>6, <2>1, <2>2, <2>3 DEF Better
  <1>7. 4 * EffectiveKop(c) < 7 * LeastKop(Candidates)
    <2>1. PICK s \in Candidates : EffectiveKop(s) = LeastKop(Candidates)
      BY <1>1, LeastFacts
    <2>2. /\ Score(c, Candidates) \in Nat /\ Score(s, Candidates) \in Nat
          /\ EffectiveKop(c) \in Nat \ {0} /\ LeastKop(Candidates) \in Nat \ {0}
      BY <1>3, ScoreFacts
    <2> SUFFICES ASSUME 7 * LeastKop(Candidates) <= 4 * EffectiveKop(c) PROVE FALSE
      BY <2>2
    <2>3. Score(c, Candidates) <= 7000 /\ 7000 <= Score(s, Candidates)
      BY <1>3, <2>1, ScoreOfDear, ScoreOfCheapest
    <2>4. EffectiveKop(s) < EffectiveKop(c)
      BY <2>1, <2>2
    <2>5. Better(c, s, Candidates)
      BY <1>3, <2>2, <2>4
    <2> QED BY <2>1, <2>2, <2>3, <2>4, <2>5 DEF Better
  <1>8. Savings(c) >= 0
    BY <1>3, SavingsFacts
  <1> QED BY <1>2, <1>4, <1>5, <1>6, <1>7, <1>8

LEMMA ChoiceStaysTyped ==
  ASSUME ChoiceTyped, [ChoiceNext]_choiceVars
  PROVE  ChoiceTyped'
  <1>1. CASE ChoiceNext
    <2>1. PICK s \in Store, p \in Page : List(s, p)
      BY <1>1 DEF ChoiceNext
    <2>2. fact' = fact /\ pages' = [pages EXCEPT ![s] = @ \cup {p}]
      BY <2>1 DEF List
    <2> QED BY <2>2 DEF ChoiceTyped
  <1>2. CASE UNCHANGED choiceVars
    BY <1>2 DEF choiceVars, ChoiceTyped
  <1> QED BY <1>1, <1>2

\* For any shops, prices, delivery rules and discounts: what is chosen is in
\* stock, no shop that is cheaper is as good in all else, and no honesty makes up
\* for a price three quarters above the lowest.
THEOREM ChoiceHolds == ChoiceSpec => []ChoiceIsSound
  <1>1. ChoiceInit => ChoiceTyped
    BY DEF ChoiceInit, ChoiceTyped
  <1> QED BY <1>1, ChoiceStaysTyped, ChoiceIsSoundThere, PTL DEF ChoiceSpec

-----------------------------------------------------------------------------
\* An order of finitely many, as one fact.
Orders(R, C) ==
  /\ \A x, y \in C : x = y \/ <<x, y>> \in R \/ <<y, x>> \in R
  /\ \A x, y, z \in C : <<x, y>> \in R /\ <<y, z>> \in R => <<x, z>> \in R

LEMMA FirstInOrder ==
  ASSUME NEW n \in Nat, NEW C, C \subseteq 1..n, C # {}, NEW R, Orders(R, C)
  PROVE  \E x \in C : \A y \in C : x = y \/ <<x, y>> \in R
  <1>1. \A x, y \in C : x = y \/ <<x, y>> \in R \/ <<y, x>> \in R
    BY DEF Orders
  <1>2. \A x, y, z \in C : <<x, y>> \in R /\ <<y, z>> \in R => <<x, z>> \in R
    BY DEF Orders
  <1> QED BY <1>1, <1>2, FirstOfAll

-----------------------------------------------------------------------------
\* Matching.  Codes written out in full, and what they say.
Digits == 0..9
GtinSeq == {d \in Seq(Digits) : Len(d) \in GtinLength}

\* The length, by another name: one that the provers do not look into.
Size(d) == Len(d)
FourSizes(n) == n = 8 \/ n = 12 \/ n = 13 \/ n = 14

LEMMA SizeTypes ==
  ASSUME NEW d \in GtinSeq
  PROVE  /\ Size(d) \in Nat /\ 8 <= Size(d) /\ Size(d) <= 14
         /\ FourSizes(Size(d))
  <1>1. Size(d) \in {8, 12, 13, 14}
    BY DEF GtinSeq, GtinLength, Size
  <1>2. \A n \in {8, 12, 13, 14} : n \in Nat /\ FourSizes(n) /\ 8 <= n /\ n <= 14
    BY DEF FourSizes
  <1> QED BY <1>1, <1>2

LEMMA CodeTypes ==
  ASSUME NEW d \in GtinSeq
  PROVE  /\ d = [i \in 1..Size(d) |-> d[i]]
         /\ \A i \in 1..Size(d) : d[i] \in Digits
         /\ DOMAIN Zfill(d) = 1..14
         /\ \A j \in 1..14 : Zfill(d)[j] = IF j + Size(d) > 14 THEN d[j + Size(d) - 14] ELSE 0
  <1>1. d \in Seq(Digits)
    BY DEF GtinSeq
  <1>2. d = [i \in 1..Size(d) |-> d[i]] /\ \A i \in 1..Size(d) : d[i] \in Digits
    BY <1>1 DEF Size
  <1>3. Zfill(d) = [j \in 1..14 |-> IF j + Size(d) > 14 THEN d[j + Size(d) - 14] ELSE 0]
    BY DEF Zfill, Size
  <1> QED BY <1>2, <1>3

LEMMA SignificantIs ==
  ASSUME NEW d \in GtinSeq
  PROVE  Significant(d) = {<<Size(d) - i, d[i]>> : i \in {j \in 1..Size(d) : d[j] # 0}}
  <1>1. DOMAIN d = 1..Size(d)
    BY CodeTypes
  <1> QED BY <1>1 DEF Significant, Size

LEMMA FilledTypes ==
  ASSUME NEW d \in GtinSeq, NEW j \in 1..14
  PROVE  Zfill(d)[j] \in Digits
  <1>1. j + Size(d) > 14 => j + Size(d) - 14 \in 1..Size(d)
    BY SizeTypes
  <1>2. 0 \in Digits
    BY DEF Digits
  <1> QED BY <1>1, <1>2, CodeTypes

LEMMA FilledSays ==
  ASSUME NEW d \in GtinSeq, NEW j \in 1..14, NEW v, v # 0
  PROVE  Zfill(d)[j] = v <=> <<14 - j, v>> \in Significant(d)
  <1>1. ASSUME Zfill(d)[j] = v PROVE <<14 - j, v>> \in Significant(d)
    <2>1. j + Size(d) > 14 /\ d[j + Size(d) - 14] = v
      BY <1>1, CodeTypes
    <2>2. PICK i : i = j + Size(d) - 14
      OBVIOUS
    <2>3. i \in 1..Size(d) /\ Size(d) - i = 14 - j /\ d[i] = v
      BY <2>1, <2>2, SizeTypes
    <2> QED BY <2>3, SignificantIs
  <1>2. ASSUME <<14 - j, v>> \in Significant(d) PROVE Zfill(d)[j] = v
    <2>1. PICK i \in 1..Size(d) : <<14 - j, v>> = <<Size(d) - i, d[i]>>
      BY <1>2, SignificantIs
    <2>2. 14 - j = Size(d) - i /\ d[i] = v
      BY <2>1
    <2>3. j + Size(d) > 14 /\ j + Size(d) - 14 = i
      BY <2>2, SizeTypes
    <2> QED BY <2>2, <2>3, CodeTypes
  <1> QED BY <1>1, <1>2

LEMMA SaysWhere ==
  ASSUME NEW d \in GtinSeq, NEW p \in Significant(d)
  PROVE  \E j \in 1..14, v \in Digits : v # 0 /\ p = <<14 - j, v>>
  <1>1. PICK i \in 1..Size(d) : d[i] # 0 /\ p = <<Size(d) - i, d[i]>>
    BY SignificantIs
  <1>2. 14 - Size(d) + i \in 1..14 /\ 14 - (14 - Size(d) + i) = Size(d) - i
    BY SizeTypes
  <1> QED BY <1>1, <1>2, CodeTypes

\* Two codes are filled up to the same just if they say the same.
LEMMA FilledSame ==
  ASSUME NEW d \in GtinSeq, NEW e \in GtinSeq
  PROVE  Zfill(d) = Zfill(e) <=> Significant(d) = Significant(e)
  <1>1. ASSUME NEW a \in GtinSeq, NEW b \in GtinSeq, Zfill(a) = Zfill(b)
        PROVE  Significant(a) \subseteq Significant(b)
    <2> SUFFICES ASSUME NEW p \in Significant(a) PROVE p \in Significant(b)
      OBVIOUS
    <2>1. PICK j \in 1..14, v \in Digits : v # 0 /\ p = <<14 - j, v>>
      BY SaysWhere
    <2> QED BY <1>1, <2>1, FilledSays
  <1>2. ASSUME Significant(d) = Significant(e) PROVE Zfill(d) = Zfill(e)
    <2>1. \A j \in 1..14 : \A v : v # 0 => (Zfill(d)[j] = v <=> Zfill(e)[j] = v)
      BY <1>2, FilledSays
    <2>2. \A j \in 1..14 : Zfill(d)[j] = Zfill(e)[j]
      BY <2>1
    <2> QED BY <2>2 DEF Zfill
  <1>3. Zfill(d) = Zfill(e) => Significant(d) = Significant(e)
    BY <1>1
  <1> QED BY <1>2, <1>3

\* The check sum does not depend on the length.
LEMMA CheckSame ==
  ASSUME NEW d \in GtinSeq, NEW e \in GtinSeq, Zfill(d) = Zfill(e)
  PROVE  GtinCheckOk(d) = GtinCheckOk(e)
  <1>1. ASSUME NEW a \in GtinSeq
        PROVE  /\ \A i \in 1..13 : FromRight(a, i) = Zfill(a)[14 - i]
               /\ a[Len(a)] = Zfill(a)[14]
    <2>1. ASSUME NEW i \in 1..13 PROVE FromRight(a, i) = Zfill(a)[14 - i]
      <3>1. /\ 14 - i \in 1..14 /\ 14 - i + Size(a) - 14 = Size(a) - i
            /\ (i < Size(a) <=> 14 - i + Size(a) > 14)
        BY SizeTypes
      <3>2. FromRight(a, i) = IF i < Size(a) THEN a[Size(a) - i] ELSE 0
        BY DEF FromRight, Size
      <3> QED BY <3>1, <3>2, CodeTypes
    <2>2. a[Size(a)] = Zfill(a)[14]
      <3>1. 14 \in 1..14 /\ 14 + Size(a) > 14 /\ 14 + Size(a) - 14 = Size(a)
        BY SizeTypes
      <3> QED BY <3>1, CodeTypes
    <2> QED BY <2>1, <2>2 DEF Size
  <1>2. \A i \in {1, 2, 3, 4, 5, 6, 7, 8, 9, 10, 11, 12, 13} : FromRight(d, i) = FromRight(e, i)
    BY <1>1
  <1>3. d[Len(d)] = e[Len(e)]
    BY <1>1
  <1> QED BY <1>2, <1>3 DEF GtinCheckOk

LEMMA RestrictedIs ==
  ASSUME NEW d \in GtinSeq
  PROVE  GtinRestricted(d) <=> \/ (Size(d) = 12 \/ Size(d) = 13) /\ d[1] = 2
                               \/ Size(d) = 8 /\ (d[1] = 0 \/ d[1] = 2)
                               \/ Size(d) = 14 /\ d[2] = 2
  BY DEF GtinRestricted, Size

LEMMA RestrictedLonger ==
  ASSUME NEW d \in GtinSeq, NEW e \in GtinSeq, Zfill(d) = Zfill(e), Size(d) < Size(e), ~Padded(e)
  PROVE  ~GtinRestricted(d) /\ ~GtinRestricted(e)
  <1>1. PICK k : k = Size(e) - Size(d)
    OBVIOUS
  <1>2. k \in Nat /\ 1 <= k /\ Size(e) = Size(d) + k
    BY <1>1, SizeTypes
  <1>3. ASSUME NEW i \in 1..Size(e) PROVE e[i] = IF i <= k THEN 0 ELSE d[i - k]
    <2>1. PICK m, n \in 8..14 : m = Size(d) /\ n = Size(e)
      BY SizeTypes
    <2>2. n = m + k /\ i \in 1..n
      BY <1>2, <2>1
    <2>3. PICK j \in 1..14 : /\ j + n > 14 /\ j + n - 14 = i
                             /\ (j + m > 14 <=> ~(i <= k)) /\ j + m - 14 = i - k
      <3>1. /\ i + 14 - n \in 1..14 /\ i + 14 - n + n > 14 /\ i + 14 - n + n - 14 = i
            /\ (i + 14 - n + m > 14 <=> ~(i <= k)) /\ i + 14 - n + m - 14 = i - k
        BY <1>2, <2>2
      <3> QED BY <3>1
    <2>4. Zfill(e)[j] = e[i] /\ Zfill(d)[j] = IF i <= k THEN 0 ELSE d[i - k]
      BY <2>1, <2>3, CodeTypes
    <2> QED BY <2>4
  <1>4. SubSeq(e, k + 1, Len(e)) = d
    <2>1. PICK m, n : m = Size(d) /\ n = Size(e)
      OBVIOUS
    <2>2. m \in Nat /\ n = m + k
      BY <1>2, <2>1, SizeTypes
    <2>3. SubSeq(e, k + 1, n) = [i \in 1..(1 + n - (k + 1)) |-> e[i + (k + 1) - 1]]
      <3>1. e \in Seq(Digits) /\ k + 1 \in 1..n /\ n \in 1..Len(e)
        BY <1>2, <2>1, <2>2, SizeTypes DEF GtinSeq, Size
      <3> QED BY <3>1
    <2>4. 1 + n - (k + 1) = m /\ \A i \in 1..m : i + (k + 1) - 1 = i + k
      BY <1>2, <2>2
    <2>5. ASSUME NEW i \in 1..m PROVE e[i + k] = d[i]
      <3>1. \A j \in 1..n : ~(j <= k) => e[j] = d[j - k]
        BY <1>3, <2>1
      <3>2. PICK j \in Nat : j = i + k
        BY <1>2, <2>2
      <3>3. j \in 1..n /\ ~(j <= k) /\ j - k = i
        BY <1>2, <2>2, <3>2
      <3>4. e[j] = d[i]
        BY <3>1, <3>3
      <3> QED BY <3>2, <3>4
    <2>6. SubSeq(e, k + 1, n) = [i \in 1..m |-> d[i]]
      BY <2>3, <2>4, <2>5
    <2>7. d = [i \in 1..m |-> d[i]]
      BY <2>1, CodeTypes
    <2> QED BY <2>1, <2>6, <2>7 DEF Size
  <1>5. ~GtinRestricted(d)
    <2>1. (Size(d) = 8 \/ Size(d) = 12 \/ Size(d) = 13) /\ Size(e) - Size(d) + 1 = k + 1
      BY <1>2, SizeTypes DEF FourSizes
    <2>2. \A i \in 1..(Size(e) - Size(d)) : e[i] = 0
      <3>1. \A i \in 1..k : i \in 1..Size(e) /\ i <= k
        BY <1>2, SizeTypes
      <3> QED BY <1>1, <1>3, <3>1
    <2>3. \E n \in {8, 12, 13} :
            /\ n = Size(d)
            /\ n < Len(e) /\ \A i \in 1..(Len(e) - n) : e[i] = 0
            /\ SubSeq(e, Len(e) - n + 1, Len(e)) = d
      <3>1. \E n \in {8, 12, 13} : n = Size(d)
        BY <2>1
      <3>2. SubSeq(e, Size(e) - Size(d) + 1, Len(e)) = d
        BY <1>4, <2>1
      <3> QED BY <2>2, <3>1, <3>2 DEF Size
    <2> QED BY <2>3 DEF Padded
  <1>6. ~GtinRestricted(e)
    <2>1. e[1] = 0
      <3>1. 1 \in 1..Size(e) /\ 1 <= k
        BY <1>2, SizeTypes
      <3> QED BY <1>3, <3>1
    <2>2. CASE Size(e) = 14
      <3>1. CASE Size(d) = 13
        <4>1. k = 1 /\ 2 \in 1..Size(e) /\ ~(2 <= 1) /\ 2 - 1 = 1
          BY <1>2, <2>2, <3>1
        <4>2. e[2] = d[1]
          BY <1>3, <4>1
        <4> QED BY <1>5, <2>2, <3>1, <4>2, RestrictedIs
      <3>2. CASE Size(d) # 13
        <4>1. 2 \in 1..Size(e) /\ 2 <= k
          BY <1>2, <2>2, <3>2, SizeTypes DEF FourSizes
        <4>2. e[2] = 0
          BY <1>3, <4>1
        <4> QED BY <2>2, <4>2, RestrictedIs
      <3> QED BY <3>1, <3>2
    <2>3. CASE Size(e) # 14
      <3>1. Size(e) = 12 \/ Size(e) = 13
        BY <1>2, <2>3, SizeTypes DEF FourSizes
      <3> QED BY <2>1, <3>1, RestrictedIs
    <2> QED BY <2>2, <2>3
  <1> QED BY <1>5, <1>6

\* One code in any two of the lengths in which it is written gives one key, but
\* for a shop's own that is written out longer than it is.
THEOREM WrittenInAnyLength ==
  ASSUME NEW d \in GtinSeq, NEW e \in GtinSeq, Significant(d) = Significant(e),
         ~Padded(d), ~Padded(e)
  PROVE  NormalizeGtin(d) = NormalizeGtin(e)
  <1>1. Zfill(d) = Zfill(e)
    BY FilledSame
  <1>2. GtinCheckOk(d) = GtinCheckOk(e)
    BY <1>1, CheckSame
  <1>3. GtinRestricted(d) <=> GtinRestricted(e)
    <2>1. CASE Size(d) < Size(e)
      BY <1>1, <2>1, RestrictedLonger
    <2>2. CASE Size(e) < Size(d)
      BY <1>1, <2>2, RestrictedLonger
    <2>3. CASE Size(d) = Size(e)
      <3>1. ASSUME NEW i \in 1..Size(d) PROVE d[i] = e[i]
        <4>1. PICK n \in 8..14 : n = Size(d)
          BY SizeTypes
        <4>2. PICK j \in 1..14 : j + n > 14 /\ j + n - 14 = i
          <5>1. i + 14 - n \in 1..14 /\ i + 14 - n + n > 14 /\ i + 14 - n + n - 14 = i
            BY <4>1
          <5> QED BY <5>1
        <4>3. Zfill(d)[j] = d[i] /\ Zfill(e)[j] = e[i]
          BY <2>3, <4>1, <4>2, CodeTypes
        <4> QED BY <1>1, <4>3
      <3>2. 1 \in 1..Size(d) /\ 2 \in 1..Size(d)
        BY SizeTypes
      <3>3. d[1] = e[1] /\ d[2] = e[2]
        BY <3>1, <3>2
      <3> QED BY <2>3, <3>3, RestrictedIs
    <2>4. Size(d) < Size(e) \/ Size(e) < Size(d) \/ Size(d) = Size(e)
      BY SizeTypes
    <2> QED BY <2>1, <2>2, <2>3, <2>4
  <1> QED BY <1>1, <1>2, <1>3 DEF NormalizeGtin, GtinSeq

\* And a key of a bar code is the key of no other one.
THEOREM KeyTellsCode ==
  ASSUME NEW d \in Seq(Digits), NEW e \in Seq(Digits),
         NormalizeGtin(d) = NormalizeGtin(e), NormalizeGtin(d) # NoKey
  PROVE  Significant(d) = Significant(e)
  <1>1. d \in GtinSeq /\ e \in GtinSeq /\ Zfill(d) = Zfill(e)
    BY DEF NormalizeGtin, GtinSeq
  <1> QED BY <1>1, FilledSame

\* The order of the keys, by the first place at which they differ.
Filled == [1..14 -> Nat]

LEMMA LessTotal ==
  ASSUME NEW a \in Filled, NEW b \in Filled
  PROVE  a = b \/ Less(a, b) \/ Less(b, a)
  <1> DEFINE D == {i \in 1..14 : a[i] # b[i]}
  <1>1. CASE D = {}
    <2>1. \A i \in 1..14 : a[i] = b[i]
      BY <1>1
    <2> QED BY <2>1 DEF Filled
  <1>2. CASE D # {}
    <2>1. D \subseteq Nat
      OBVIOUS
    <2>2. PICK m \in D : \A n \in D : m <= n
      <3> HIDE DEF D
      <3> QED BY <1>2, <2>1, LeastThere
    <2>3. \A j \in 1..14 : j < m => a[j] = b[j]
      BY <2>1, <2>2
    <2>4. m \in 1..14 /\ (a[m] < b[m] \/ b[m] < a[m])
      BY <2>2 DEF Filled
    <2> QED BY <2>3, <2>4 DEF Less
  <1> QED BY <1>1, <1>2

LEMMA LessTransitive ==
  ASSUME NEW a \in Filled, NEW b \in Filled, NEW c \in Filled, Less(a, b), Less(b, c)
  PROVE  Less(a, c)
  <1>1. PICK i \in 1..14 : a[i] < b[i] /\ \A j \in 1..14 : j < i => a[j] = b[j]
    BY DEF Less
  <1>2. PICK k \in 1..14 : b[k] < c[k] /\ \A j \in 1..14 : j < k => b[j] = c[j]
    BY DEF Less
  <1>3. /\ a[i] \in Nat /\ b[i] \in Nat /\ c[i] \in Nat
        /\ a[k] \in Nat /\ b[k] \in Nat /\ c[k] \in Nat
    BY DEF Filled
  <1>4. CASE i < k
    <2>1. a[i] < c[i] /\ \A j \in 1..14 : j < i => a[j] = c[j]
      BY <1>1, <1>2, <1>4
    <2> QED BY <2>1 DEF Less
  <1>5. CASE k < i
    <2>1. a[k] < c[k] /\ \A j \in 1..14 : j < k => a[j] = c[j]
      BY <1>1, <1>2, <1>5
    <2> QED BY <2>1 DEF Less
  <1>6. CASE i = k
    <2>1. a[i] < c[i] /\ \A j \in 1..14 : j < i => a[j] = c[j]
      BY <1>1, <1>2, <1>3, <1>6
    <2> QED BY <2>1 DEF Less
  <1> QED BY <1>4, <1>5, <1>6

LEMMA KeyFilled ==
  ASSUME NEW d \in Seq(Digits), NormalizeGtin(d) # NoKey
  PROVE  d \in GtinSeq /\ NormalizeGtin(d) = Zfill(d) /\ NormalizeGtin(d) \in Filled
  <1>1. d \in GtinSeq /\ NormalizeGtin(d) = Zfill(d)
    BY DEF NormalizeGtin, GtinSeq
  <1>2. \A j \in 1..14 : Zfill(d)[j] \in Nat
    <2>1. \A v \in Digits : v \in Nat
      BY DEF Digits
    <2> QED BY <1>1, <2>1, FilledTypes
  <1>3. Zfill(d) = [j \in 1..14 |-> Zfill(d)[j]]
    BY DEF Zfill
  <1> QED BY <1>1, <1>2, <1>3 DEF Filled

\* The first of the valid codes of a listing is one of them, and there is one
\* unless none is valid.
LEMMA Picked ==
  ASSUME NEW said \in Seq(Barcode)
  PROVE  /\ (\A i \in DOMAIN said : NormalizeGtin(said[i].digits) = NoKey) =>
              PickGtin(said) = NoKey
         /\ (\E i \in DOMAIN said : NormalizeGtin(said[i].digits) # NoKey) =>
              /\ PickGtin(said) # NoKey
              /\ \E i \in DOMAIN said : PickGtin(said) = NormalizeGtin(said[i].digits)
  <1> DEFINE N(i) == NormalizeGtin(said[i].digits)
             valid == {N(i) : i \in DOMAIN said} \ {NoKey}
             First(g) == \A h \in valid \ {g} : Less(g, h)
  <1>1. PickGtin(said) = IF valid = {} THEN NoKey ELSE CHOOSE g \in valid : First(g)
    BY DEF PickGtin
  <1>2. ASSUME \A i \in DOMAIN said : N(i) = NoKey PROVE PickGtin(said) = NoKey
    <2>1. valid = {}
      BY <1>2
    <2> QED BY <1>1, <2>1
  <1>3. ASSUME NEW k \in DOMAIN said, N(k) # NoKey
        PROVE  PickGtin(said) # NoKey /\ \E i \in DOMAIN said : PickGtin(said) = N(i)
    <2> DEFINE C == {i \in DOMAIN said : N(i) # NoKey}
               R == {p \in C \X C : N(p[1]) = N(p[2]) \/ Less(N(p[1]), N(p[2]))}
    <2>1. PICK n \in Nat : DOMAIN said = 1..n
      BY DOMAIN said = 1..Len(said), Len(said) \in Nat
    <2>2. \A i \in C : N(i) \in Filled
      <3>1. \A i \in DOMAIN said : said[i].digits \in Seq(Digits)
        BY MatchingAssumption DEF Digits
      <3> QED BY <3>1, KeyFilled
    <2>3. C \subseteq 1..n /\ C # {} /\ C = {i \in DOMAIN said : N(i) # NoKey}
      BY <1>3, <2>1
    <2>4. \A x, y \in C : <<x, y>> \in R <=> N(x) = N(y) \/ Less(N(x), N(y))
      OBVIOUS
    <2> HIDE DEF C, R
    <2>5. \A x, y \in C : x = y \/ <<x, y>> \in R \/ <<y, x>> \in R
      BY <2>2, <2>4, LessTotal
    <2>6. \A x, y, z \in C : <<x, y>> \in R /\ <<y, z>> \in R => <<x, z>> \in R
      BY <2>2, <2>4, LessTransitive
    <2>7. PICK x \in C : \A y \in C : x = y \/ <<x, y>> \in R
      <3>1. Orders(R, C)
        BY <2>5, <2>6 DEF Orders
      <3> QED BY <2>3, <3>1, FirstInOrder
    <2>8. N(x) \in valid
      BY <2>3
    <2>9. First(N(x))
      <3> SUFFICES ASSUME NEW h \in valid, h # N(x) PROVE Less(N(x), h)
        OBVIOUS
      <3>1. PICK y \in C : h = N(y)
        BY <2>3
      <3> QED BY <2>4, <2>7, <3>1
    <2>10. PickGtin(said) \in valid
      <3> HIDE DEF valid, First
      <3> QED BY <1>1, <2>8, <2>9
    <2> QED BY <2>10
  <1> QED BY <1>2, <1>3

LEMMA EndsIn ==
  ASSUME NEW n \in Nat, NEW S, S \subseteq 1..n, S # {}
  PROVE  Min(S) \in S /\ Max(S) \in S
  <1>1. Min(S) \in S
    <2>1. S \subseteq Nat
      OBVIOUS
    <2>2. \E m \in S : \A k \in S : m <= k
      BY <2>1, LeastThere
    <2> QED BY <2>2 DEF Min
  <1>2. Max(S) \in S
    <2> DEFINE R == {p \in S \X S : p[1] >= p[2]}
    <2>1. \A x, y \in S : <<x, y>> \in R <=> x >= y
      OBVIOUS
    <2> HIDE DEF R
    <2>2. \A x \in S : x \in Nat
      OBVIOUS
    <2>3. Orders(R, S)
      BY <2>1, <2>2 DEF Orders
    <2>4. PICK m \in S : \A k \in S : m = k \/ <<m, k>> \in R
      BY <2>3, FirstInOrder
    <2>5. ASSUME NEW k \in S PROVE m >= k
      <3>1. m = k \/ m >= k
        BY <2>1, <2>4
      <3> QED BY <2>2, <3>1
    <2> QED BY <2>5 DEF Max
  <1> QED BY <1>1, <1>2

\* A title's code is a word of it that the rules take, and there is one if they
\* take any.
LEMMA MpnTaken ==
  ASSUME NEW cut \in Seq(TitleWord)
  PROVE  /\ (\A i \in DOMAIN cut : ~Taken(cut[i])) => ExtractMpn(cut) = NoKey
         /\ (\E i \in DOMAIN cut : Taken(cut[i])) =>
              \E i \in DOMAIN cut : Taken(cut[i]) /\ ExtractMpn(cut) = <<cut[i].text>>
  <1> DEFINE samsung == {i \in DOMAIN cut : FullCode(cut[i])}
             longest == {i \in samsung : \A j \in samsung : cut[j].len <= cut[i].len}
             inParens == {i \in DOMAIN cut : cut[i].paren /\ Plausible(cut[i])}
             inline == {i \in DOMAIN cut : PlausibleInline(cut[i])}
  <1>1. ExtractMpn(cut) =
          IF samsung # {} THEN <<cut[Min(longest)].text>>
          ELSE IF inParens # {} THEN <<cut[Max(inParens)].text>>
          ELSE IF inline # {} THEN <<cut[Max(inline)].text>>
          ELSE NoKey
    BY DEF ExtractMpn
  <1>2. PICK n \in Nat : DOMAIN cut = 1..n
    BY DOMAIN cut = 1..Len(cut), Len(cut) \in Nat
  <1>3. \A i \in DOMAIN cut :
          Taken(cut[i]) <=> i \in samsung \/ i \in inParens \/ i \in inline
    BY DEF Taken
  <1>4. samsung \subseteq 1..n /\ inParens \subseteq 1..n /\ inline \subseteq 1..n
    BY <1>2
  <1>5. longest \subseteq samsung
    OBVIOUS
  <1>6. ASSUME samsung # {} PROVE longest # {}
    <2> DEFINE C == samsung
               R == {p \in C \X C : cut[p[2]].len <= cut[p[1]].len}
    <2>1. \A i \in C : cut[i].len \in Nat
      <3>1. \A i \in DOMAIN cut : cut[i] \in TitleWord
        BY <1>2
      <3> QED BY <3>1, MatchingAssumption
    <2>2. \A x, y \in C : <<x, y>> \in R <=> cut[y].len <= cut[x].len
      OBVIOUS
    <2>3. C \subseteq 1..n /\ C # {}
      BY <1>4, <1>6
    <2>4. longest = {i \in C : \A j \in C : cut[j].len <= cut[i].len}
      OBVIOUS
    <2> HIDE DEF R, C, samsung, longest
    <2>5. Orders(R, C)
      BY <2>1, <2>2 DEF Orders
    <2>6. PICK x \in C : \A y \in C : x = y \/ <<x, y>> \in R
      BY <2>3, <2>5, FirstInOrder
    <2>7. ASSUME NEW y \in C PROVE cut[y].len <= cut[x].len
      <3>1. x = y \/ cut[y].len <= cut[x].len
        BY <2>2, <2>6
      <3> QED BY <2>1, <3>1
    <2> QED BY <2>4, <2>7
  <1> HIDE DEF samsung, longest, inParens, inline
  <1>7. CASE samsung # {}
    <2>1. longest \subseteq 1..n /\ longest # {}
      BY <1>4, <1>5, <1>6, <1>7
    <2>2. Min(longest) \in longest
      BY <2>1, EndsIn
    <2>3. PICK i : i = Min(longest)
      OBVIOUS
    <2>4. i \in DOMAIN cut /\ Taken(cut[i])
      BY <1>2, <1>3, <1>4, <1>5, <2>2, <2>3
    <2>5. ExtractMpn(cut) = <<cut[i].text>>
      BY <1>1, <1>7, <2>3
    <2> QED BY <2>4, <2>5
  <1>8. CASE samsung = {} /\ inParens # {}
    <2>1. Max(inParens) \in inParens
      BY <1>4, <1>8, EndsIn
    <2>2. PICK i : i = Max(inParens)
      OBVIOUS
    <2>3. i \in DOMAIN cut /\ Taken(cut[i])
      BY <1>2, <1>3, <1>4, <2>1, <2>2
    <2>4. ExtractMpn(cut) = <<cut[i].text>>
      BY <1>1, <1>8, <2>2
    <2> QED BY <2>3, <2>4
  <1>9. CASE samsung = {} /\ inParens = {} /\ inline # {}
    <2>1. Max(inline) \in inline
      BY <1>4, <1>9, EndsIn
    <2>2. PICK i : i = Max(inline)
      OBVIOUS
    <2>3. i \in DOMAIN cut /\ Taken(cut[i])
      BY <1>2, <1>3, <1>4, <2>1, <2>2
    <2>4. ExtractMpn(cut) = <<cut[i].text>>
      BY <1>1, <1>9, <2>2
    <2> QED BY <2>3, <2>4
  <1>10. CASE samsung = {} /\ inParens = {} /\ inline = {}
    BY <1>1, <1>3, <1>10
  <1> QED BY <1>7, <1>8, <1>9, <1>10

\* A code is only said of, and a word only written about, what it belongs to.
MatchTyped ==
  /\ what \in [Seller -> Thing]
  /\ codes \in [Seller -> Seq(Barcode)] /\ title \in [Seller -> Seq(TitleWord)]
  /\ \A s \in Seller : \A i \in DOMAIN codes[s] : what[s] \in codes[s][i].of
  /\ \A s \in Seller : \A i \in DOMAIN title[s] : what[s] \in title[s][i].of

LEMMA AppendSays ==
  ASSUME NEW S, NEW q \in Seq(S), NEW c \in S, NEW t, t \in c.of,
         \A i \in DOMAIN q : t \in q[i].of
  PROVE  \A i \in DOMAIN Append(q, c) : t \in Append(q, c)[i].of
  <1> SUFFICES ASSUME NEW i \in DOMAIN Append(q, c) PROVE t \in Append(q, c)[i].of
    OBVIOUS
  <1>1. PICK n \in Nat : n = Len(q)
    OBVIOUS
  <1>2. DOMAIN Append(q, c) = 1..(n + 1) /\ DOMAIN q = 1..n
    BY <1>1
  <1>3. i \in 1..n \/ i = n + 1
    BY <1>2
  <1>4. i \in 1..n => Append(q, c)[i] = q[i]
    BY <1>1
  <1>5. i = n + 1 => Append(q, c)[i] = c
    BY <1>1
  <1> QED BY <1>2, <1>3, <1>4, <1>5

LEMMA MatchTypedHolds == MatchSpec => []MatchTyped
  <1>1. MatchInit => MatchTyped
    BY DEF MatchInit, MatchTyped
  <1>2. MatchTyped /\ [MatchNext]_matchVars => MatchTyped'
    <2> SUFFICES ASSUME MatchTyped, [MatchNext]_matchVars PROVE MatchTyped'
      OBVIOUS
    <2> USE DEF MatchTyped
    <2>1. ASSUME NEW s \in Seller, NEW c \in Barcode, GiveCode(s, c) PROVE MatchTyped'
      <3>1. /\ codes' = [codes EXCEPT ![s] = Append(codes[s], c)]
            /\ what' = what /\ title' = title /\ what[s] \in c.of
        BY <2>1 DEF GiveCode
      <3>2. codes[s] \in Seq(Barcode) /\ Append(codes[s], c) \in Seq(Barcode)
        OBVIOUS
      <3>3. codes' \in [Seller -> Seq(Barcode)] /\ codes'[s] = Append(codes[s], c)
            /\ \A r \in Seller \ {s} : codes'[r] = codes[r]
        BY <3>1, <3>2
      <3>4. \A i \in DOMAIN Append(codes[s], c) : what[s] \in Append(codes[s], c)[i].of
        <4>1. PICK q \in Seq(Barcode) : q = codes[s]
          BY <3>2
        <4>2. \A i \in DOMAIN q : what[s] \in q[i].of
          BY <4>1
        <4>3. PICK t : t = what[s]
          OBVIOUS
        <4>4. \A i \in DOMAIN Append(q, c) : t \in Append(q, c)[i].of
          BY <3>1, <4>2, <4>3, AppendSays
        <4> QED BY <4>1, <4>3, <4>4
      <3>5. \A r \in Seller : \A i \in DOMAIN codes'[r] : what[r] \in codes'[r][i].of
        BY <3>3, <3>4
      <3> QED BY <3>1, <3>3, <3>5
    <2>2. ASSUME NEW s \in Seller, NEW w \in TitleWord, WriteWord(s, w) PROVE MatchTyped'
      <3>1. /\ title' = [title EXCEPT ![s] = Append(title[s], w)]
            /\ what' = what /\ codes' = codes /\ what[s] \in w.of
        BY <2>2 DEF WriteWord
      <3>2. title[s] \in Seq(TitleWord) /\ Append(title[s], w) \in Seq(TitleWord)
        OBVIOUS
      <3>3. title' \in [Seller -> Seq(TitleWord)] /\ title'[s] = Append(title[s], w)
            /\ \A r \in Seller \ {s} : title'[r] = title[r]
        BY <3>1, <3>2
      <3>4. \A i \in DOMAIN Append(title[s], w) : what[s] \in Append(title[s], w)[i].of
        <4>1. PICK q \in Seq(TitleWord) : q = title[s]
          BY <3>2
        <4>2. \A i \in DOMAIN q : what[s] \in q[i].of
          BY <4>1
        <4>3. PICK t : t = what[s]
          OBVIOUS
        <4>4. \A i \in DOMAIN Append(q, w) : t \in Append(q, w)[i].of
          BY <3>1, <4>2, <4>3, AppendSays
        <4> QED BY <4>1, <4>3, <4>4
      <3>5. \A r \in Seller : \A i \in DOMAIN title'[r] : what[r] \in title'[r][i].of
        BY <3>3, <3>4
      <3> QED BY <3>1, <3>3, <3>5
    <2>3. CASE UNCHANGED matchVars
      BY <2>3 DEF matchVars
    <2> QED BY <2>1, <2>2, <2>3 DEF MatchNext
  <1> QED BY <1>1, <1>2, PTL DEF MatchSpec

\* What the rules take of an ordinary listing is the product's own.
LEMMA KeyOfOwn ==
  ASSUME Discerned, MatchTyped, NEW s \in Seller, Ordinary(s)
  PROVE  /\ \A i \in DOMAIN codes[s] :
              NormalizeGtin(codes[s][i].digits) # NoKey <=> OwnCode(codes[s][i])
         /\ \A i \in DOMAIN title[s] : Taken(title[s][i]) <=> OwnCode(title[s][i])
         /\ Meant(s) = {} => PickGtin(codes[s]) = NoKey
         /\ Meant(s) # {} =>
              /\ PickGtin(codes[s]) # NoKey
              /\ \E i \in DOMAIN codes[s] : /\ OwnCode(codes[s][i])
                                            /\ Key(s) = NormalizeGtin(codes[s][i].digits)
         /\ Meant(s) = {} /\ Own(s) = {} => Key(s) = NoKey
         /\ Meant(s) = {} /\ Own(s) # {} =>
              \E i \in DOMAIN title[s] : OwnCode(title[s][i]) /\ Key(s) = <<title[s][i].text>>
  <1>1. PICK said \in Seq(Barcode), cut \in Seq(TitleWord) : said = codes[s] /\ cut = title[s]
    BY DEF MatchTyped
  <1>2. \A i \in DOMAIN said : said[i] \in Barcode /\ ~Padded(said[i].digits)
    BY <1>1 DEF Ordinary
  <1>3. \A i \in DOMAIN cut : cut[i] \in TitleWord /\ ~ModelInParens(cut[i])
    BY <1>1 DEF Ordinary
  <1>4. \A i \in DOMAIN said : NormalizeGtin(said[i].digits) # NoKey <=> OwnCode(said[i])
    BY <1>2 DEF Discerned
  <1>5. \A i \in DOMAIN cut : Taken(cut[i]) <=> OwnCode(cut[i])
    BY <1>3 DEF Discerned
  <1>6. Meant(s) # {} <=> \E i \in DOMAIN said : OwnCode(said[i])
    BY <1>1 DEF Meant
  <1>7. Own(s) # {} <=> \E i \in DOMAIN cut : OwnCode(cut[i])
    BY <1>1 DEF Own
  <1>8. Key(s) = IF PickGtin(said) # NoKey THEN PickGtin(said) ELSE ExtractMpn(cut)
    BY <1>1 DEF Key, MatchKey
  <1>9. ASSUME Meant(s) # {}
        PROVE  /\ PickGtin(said) # NoKey
               /\ \E i \in DOMAIN said : /\ OwnCode(said[i])
                                         /\ Key(s) = NormalizeGtin(said[i].digits)
    <2>1. PickGtin(said) # NoKey
          /\ \E i \in DOMAIN said : PickGtin(said) = NormalizeGtin(said[i].digits)
      BY <1>4, <1>6, <1>9, Picked
    <2> QED BY <1>4, <1>8, <2>1
  <1>10. ASSUME Meant(s) = {}
         PROVE  /\ PickGtin(said) = NoKey /\ Key(s) = ExtractMpn(cut)
                /\ Own(s) = {} => Key(s) = NoKey
                /\ Own(s) # {} =>
                     \E i \in DOMAIN cut : OwnCode(cut[i]) /\ Key(s) = <<cut[i].text>>
    <2>1. PickGtin(said) = NoKey
      BY <1>4, <1>6, <1>10, Picked
    <2>2. Key(s) = ExtractMpn(cut)
      BY <1>8, <2>1
    <2>3. Own(s) = {} => Key(s) = NoKey
      BY <1>5, <1>7, <2>2, MpnTaken
    <2>4. Own(s) # {} => \E i \in DOMAIN cut : OwnCode(cut[i]) /\ Key(s) = <<cut[i].text>>
      BY <1>5, <1>7, <2>2, MpnTaken
    <2> QED BY <2>1, <2>2, <2>3, <2>4
  <1> QED BY <1>1, <1>4, <1>5, <1>9, <1>10

\* A key of a bar code is not that of a word.
LEMMA KeysApart ==
  ASSUME NEW d \in Seq(Digits), NormalizeGtin(d) # NoKey, NEW t
  PROVE  NormalizeGtin(d) # <<t>>
  <1>1. DOMAIN NormalizeGtin(d) = 1..14
    BY KeyFilled DEF Filled
  <1>2. DOMAIN <<t>> = 1..1
    OBVIOUS
  <1>3. 2 \in 1..14 /\ 2 \notin 1..1
    OBVIOUS
  <1> QED BY <1>1, <1>2, <1>3

LEMMA DigitsSaid ==
  ASSUME MatchTyped, NEW s \in Seller
  PROVE  /\ \A i \in DOMAIN codes[s] :
              /\ codes[s][i] \in Barcode /\ codes[s][i].digits \in Seq(Digits)
              /\ what[s] \in codes[s][i].of
         /\ \A i \in DOMAIN title[s] : title[s][i] \in TitleWord /\ what[s] \in title[s][i].of
  <1>1. codes[s] \in Seq(Barcode) /\ title[s] \in Seq(TitleWord)
    BY DEF MatchTyped
  <1>2. \A c \in Barcode : c.digits \in Seq(Digits)
    BY MatchingAssumption DEF Digits
  <1> QED BY <1>1, <1>2 DEF MatchTyped

\* Different products never meet (NeverMixed), whatever codes and words there
\* are, as long as a rule takes none that is not one product's own.
LEMMA MixedNever ==
  ASSUME Discerned, MatchTyped
  PROVE  NeverMixed
  <1> SUFFICES ASSUME Ordinary(1), Ordinary(2), Key(1) = Key(2), Key(1) # NoKey
               PROVE  what[1] = what[2]
    BY DEF NeverMixed
  <1>1. 1 \in Seller /\ 2 \in Seller
    BY DEF Seller
  <1> DEFINE OfCode(s) ==
               \E c \in Barcode : /\ OwnCode(c) /\ what[s] \in c.of /\ c.digits \in Seq(Digits)
                                 /\ Key(s) = NormalizeGtin(c.digits)
             OfWord(s) ==
               \E w \in TitleWord : OwnCode(w) /\ what[s] \in w.of /\ Key(s) = <<w.text>>
  <1>2. ASSUME NEW s \in Seller, Ordinary(s), Key(s) # NoKey
        PROVE  OfCode(s) \/ OfWord(s)
    <2>1. CASE Meant(s) # {}
      <3>1. PICK i \in DOMAIN codes[s] :
              OwnCode(codes[s][i]) /\ Key(s) = NormalizeGtin(codes[s][i].digits)
        BY <1>2, <2>1, KeyOfOwn
      <3> QED BY <3>1, DigitsSaid
    <2>2. CASE Meant(s) = {}
      <3>1. PICK i \in DOMAIN title[s] : OwnCode(title[s][i]) /\ Key(s) = <<title[s][i].text>>
        BY <1>2, <2>2, KeyOfOwn
      <3> QED BY <3>1, DigitsSaid
    <2> QED BY <2>1, <2>2
  <1>3. ASSUME OfCode(1) PROVE what[1] = what[2]
    <2>1. PICK c \in Barcode : /\ OwnCode(c) /\ what[1] \in c.of /\ c.digits \in Seq(Digits)
                               /\ Key(1) = NormalizeGtin(c.digits)
      BY <1>3
    <2>2. ~OfWord(2)
      BY <2>1, KeysApart
    <2>3. PICK e \in Barcode : /\ OwnCode(e) /\ what[2] \in e.of /\ e.digits \in Seq(Digits)
                               /\ Key(2) = NormalizeGtin(e.digits)
      BY <1>1, <1>2, <2>2
    <2>4. Significant(c.digits) = Significant(e.digits)
      BY <2>1, <2>3, KeyTellsCode
    <2>5. c.of = e.of
      BY <2>1, <2>3, <2>4 DEF Discerned
    <2> QED BY <2>1, <2>3, <2>5 DEF OwnCode, Sole
  <1>4. ASSUME OfWord(1) PROVE what[1] = what[2]
    <2>1. PICK v \in TitleWord : OwnCode(v) /\ what[1] \in v.of /\ Key(1) = <<v.text>>
      BY <1>4
    <2>2. ~OfCode(2)
      BY <2>1, KeysApart
    <2>3. PICK w \in TitleWord : OwnCode(w) /\ what[2] \in w.of /\ Key(2) = <<w.text>>
      BY <1>1, <1>2, <2>2
    <2>4. v.text = w.text
      BY <2>1, <2>3
    <2>5. v.of = w.of
      BY <2>1, <2>3, <2>4 DEF Discerned
    <2> QED BY <2>1, <2>3, <2>5 DEF OwnCode, Sole
  <1>5. OfCode(1) \/ OfWord(1)
    <2> HIDE DEF OfCode, OfWord
    <2> QED BY <1>1, <1>2
  <1> HIDE DEF OfCode, OfWord
  <1> QED BY <1>3, <1>4, <1>5

THEOREM DifferentNeverMixed ==
  ASSUME Discerned
  PROVE  MatchSpec => []NeverMixed
  <1>1. MatchTyped => NeverMixed
    BY MixedNever
  <1> QED BY <1>1, MatchTypedHolds, PTL

\* Shops that mean the same codes have the same valid keys.
LEMMA MeantSameKeys ==
  ASSUME Discerned, MatchTyped, NEW s \in Seller, NEW r \in Seller, Ordinary(s), Ordinary(r),
         Meant(s) \subseteq Meant(r)
  PROVE  \A i \in DOMAIN codes[s] : NormalizeGtin(codes[s][i].digits) # NoKey =>
           \E j \in DOMAIN codes[r] :
             NormalizeGtin(codes[r][j].digits) = NormalizeGtin(codes[s][i].digits)
  <1> SUFFICES ASSUME NEW i \in DOMAIN codes[s], NormalizeGtin(codes[s][i].digits) # NoKey
               PROVE  \E j \in DOMAIN codes[r] :
                        NormalizeGtin(codes[r][j].digits) = NormalizeGtin(codes[s][i].digits)
    OBVIOUS
  <1>1. OwnCode(codes[s][i])
    BY KeyOfOwn
  <1>2. Significant(codes[s][i].digits) \in Meant(s)
    BY <1>1 DEF Meant
  <1>3. PICK j \in DOMAIN codes[r] :
          /\ OwnCode(codes[r][j])
          /\ Significant(codes[s][i].digits) = Significant(codes[r][j].digits)
    BY <1>2 DEF Meant
  <1>4. NormalizeGtin(codes[r][j].digits) # NoKey
    BY <1>3, KeyOfOwn
  <1>5. PICK d, e : d = codes[s][i].digits /\ e = codes[r][j].digits
    OBVIOUS
  <1>6. d \in Seq(Digits) /\ e \in Seq(Digits) /\ ~Padded(d) /\ ~Padded(e)
    BY <1>5, DigitsSaid DEF Ordinary
  <1>7. d \in GtinSeq /\ e \in GtinSeq
    BY <1>4, <1>5, <1>6, KeyFilled
  <1>8. NormalizeGtin(d) = NormalizeGtin(e)
    BY <1>3, <1>5, <1>6, <1>7, WrittenInAnyLength
  <1> QED BY <1>5, <1>8

\* Shops that say the same of a product meet (KeysMeet).
LEMMA MeetAlways ==
  ASSUME Discerned, MatchTyped
  PROVE  KeysMeet
  <1> SUFFICES ASSUME Ordinary(1), Ordinary(2)
               PROVE  /\ Meant(1) = Meant(2) /\ Meant(1) # {} => Key(1) = Key(2) /\ Key(1) # NoKey
                      /\ Meant(1) = {} /\ Meant(2) = {} /\ Own(1) = Own(2) /\ Sole(Own(1)) =>
                           Key(1) = Key(2) /\ Key(1) # NoKey
    BY DEF KeysMeet
  <1>1. 1 \in Seller /\ 2 \in Seller
    BY DEF Seller
  <1> DEFINE Keys(s) == {NormalizeGtin(codes[s][i].digits) : i \in DOMAIN codes[s]} \ {NoKey}
  <1>2. ASSUME Meant(1) = Meant(2), Meant(1) # {} PROVE Key(1) = Key(2) /\ Key(1) # NoKey
    <2>1. Keys(1) = Keys(2)
      <3>1. Keys(1) \subseteq Keys(2)
        BY <1>1, <1>2, MeantSameKeys
      <3>2. Keys(2) \subseteq Keys(1)
        BY <1>1, <1>2, MeantSameKeys
      <3> QED BY <3>1, <3>2
    <2>2. PickGtin(codes[1]) = PickGtin(codes[2])
      <3>1. \A s \in Seller : PickGtin(codes[s]) =
              IF Keys(s) = {} THEN NoKey
              ELSE CHOOSE g \in Keys(s) : \A h \in Keys(s) \ {g} : Less(g, h)
        BY DEF PickGtin
      <3> HIDE DEF Keys
      <3> QED BY <1>1, <2>1, <3>1
    <2>3. PickGtin(codes[1]) # NoKey
      BY <1>1, <1>2, KeyOfOwn
    <2> QED BY <2>2, <2>3 DEF Key, MatchKey
  <1>3. ASSUME Meant(1) = {}, Meant(2) = {}, Own(1) = Own(2), Sole(Own(1))
        PROVE  Key(1) = Key(2) /\ Key(1) # NoKey
    <2>1. PICK x : Own(1) = {x} /\ Own(2) = {x}
      BY <1>3 DEF Sole
    <2>2. ASSUME NEW s \in Seller, Ordinary(s), Meant(s) = {}, Own(s) = {x} PROVE Key(s) = <<x>>
      <3>1. PICK i \in DOMAIN title[s] : OwnCode(title[s][i]) /\ Key(s) = <<title[s][i].text>>
        BY <2>2, KeyOfOwn
      <3>2. title[s][i].text \in Own(s)
        BY <3>1 DEF Own
      <3> QED BY <2>2, <3>1, <3>2
    <2>3. <<x>> # NoKey
      BY DEF NoKey
    <2> QED BY <1>1, <1>3, <2>1, <2>2, <2>3
  <1> QED BY <1>2, <1>3

THEOREM SameMeet ==
  ASSUME Discerned
  PROVE  MatchSpec => []KeysMeet
  <1>1. MatchTyped => KeysMeet
    BY MeetAlways
  <1> QED BY <1>1, MatchTypedHolds, PTL
=============================================================================
