----------------------------- MODULE ShopPages -----------------------------
(***************************************************************************)
(* What becomes of a shop's page: the adapter of the shop reads its cards, *)
(* the server checks what was read (validate_item, ingest_batch), and what *)
(* passes is stored.  One operator per adapter, over what a card shows:    *)
(* nodes that hold no number are None, as parse_price_to_kop has it, and   *)
(* selectors, addresses and titles are told apart only as far as the code  *)
(* leaves a card out for them.                                             *)
(***************************************************************************)
EXTENDS Integers, Sequences, FiniteSets, FiniteSetsExt

CONSTANTS
  Ref,            \* products, or their variants
  Shown,          \* numbers that a page shows for prices; a bound of the model
  PRICE_MIN_KOP, PRICE_MAX_KOP,
  MaxCards        \* cards of a page; a bound of the model

ASSUME PagesAssumption ==
  /\ Ref \subseteq Nat /\ Shown \subseteq Nat
  /\ PRICE_MIN_KOP \in Nat \ {0} /\ PRICE_MAX_KOP \in Nat /\ MaxCards \in Nat

VARIABLES
  shop,   \* whose page it is
  page    \* its cards, from the top

pageVars == <<shop, page>>

None == -1

-----------------------------------------------------------------------------
\* Cards.  The mark is what sets a card apart from the plain one: it says that
\* the product is or is not in stock, stands in a slider or menu with products
\* of other sections, is for prescription, has no title or no link to the
\* product, links to another host, or is bare: it has no node of its own for the
\* current price, which stands among what else is in .price.

Incomplete == {"untitled", "unlinked"}

WithStock == {"AddUa", "Apteka911", "Epicentr", "Foxtrot", "Interatletika", "PetChoice",
              "Pethouse", "Podorozhnyk", "Vencon"}
WithAside == {"Autopresent", "MedMagazin", "Podorozhnyk", "Telemart"}
WithBare == {"Autopresent", "Storgom"}

Mark(s) ==
  {"plain", "abroad"} \cup Incomplete
    \cup (IF s \in WithStock THEN {"in", "out"} ELSE {})
    \cup (IF s \in WithAside THEN {"aside"} ELSE {})
    \cup (IF s \in WithBare THEN {"bare"} ELSE {})
    \cup (IF s = "Podorozhnyk" THEN {"prescription"} ELSE {})

Card(s) == [ref : Ref, price : Shown \cup {None}, before : Shown \cup {None}, mark : Mark(s)]

-----------------------------------------------------------------------------
\* RawItem, and how the adapters come to one.

NoItem == [ref |-> None]

IsItem(i) == i.ref # None

RawItem(c, now, old, inStock) ==
  [ref |-> c.ref, now |-> now, old |-> old, inStock |-> inStock,
   titled |-> c.mark # "untitled", home |-> c.mark # "abroad"]

\* An old price that is not above the current one is no discount.
Higher(old, now) == IF old > now THEN old ELSE None

Positive(kop) == IF kop > 0 THEN kop ELSE None

Take(c, now, old, inStock) ==
  IF c.mark \in Incomplete \/ now = None THEN NoItem ELSE RawItem(c, now, old, inStock)

Reduced(c) == Take(c, c.price, Higher(c.before, c.price), TRUE)
AsShown(c) == Take(c, c.price, c.before, TRUE)
NowOnly(c) == Take(c, c.price, None, TRUE)

HomeOnly(c, item) == IF c.mark = "abroad" THEN NoItem ELSE item
GridOnly(c, item) == IF c.mark = "aside" THEN NoItem ELSE item

Allo(c) == Reduced(c)
Brain(c) == HomeOnly(c, Reduced(c))
Citrus(c) == Reduced(c)
Comfy(c) == Reduced(c)
DniproM(c) == Reduced(c)     \* price_old is always filled, with price_new
KTC(c) == Reduced(c)         \* <del> is taken out of the box before its price is read
MakeUp(c) == Reduced(c)
MAUDAU(c) == Reduced(c)
Moyo(c) == HomeOnly(c, Reduced(c))
Rozetka(c) == HomeOnly(c, Reduced(c))
Eldorado(c) == IF c.price = 0 THEN NoItem ELSE Reduced(c)

StockRead(c) == Take(c, c.price, Higher(c.before, c.price), c.mark # "out")

Epicentr(c) == StockRead(c)
Foxtrot(c) == StockRead(c)
Vencon(c) == StockRead(c)       \* from the microdata, or else what is shown

Antoshka(c) == AsShown(c)
Fotosale(c) == AsShown(c)
MasterZoo(c) == AsShown(c)
MedMagazin(c) == GridOnly(c, AsShown(c))
Zootovary(c) == AsShown(c)

\* .new-price with the <s> beside it, or else a div without a class alone.
Storgom(c) == IF c.mark = "bare" THEN NowOnly(c) ELSE AsShown(c)

\* .price-new, or else the first number of .price, of which only the tax is cut
\* out: a crossed-out number stands before the price and is taken for it.
FirstNumber(c) == IF c.before # None THEN c.before ELSE c.price

Autopresent(c) ==
  GridOnly(c, Take(c, IF c.mark = "bare" THEN FirstNumber(c) ELSE c.price, c.before, TRUE))

Interatletika(c) == NowOnly(c)
Yabko(c) == NowOnly(c)          \* span.old is a price in dollars

\* Whatever number is followed by the currency: the least is the price.
Stylus(c) ==
  LET prices == {c.price, c.before} \ {None, 0} IN
  IF prices = {} THEN NoItem ELSE Take(c, Min(prices), Higher(Max(prices), Min(prices)), TRUE)

\* Three nodes have the class of a price, told apart by their modifiers.
Costs(c) ==
  <<[is |-> "old", kop |-> c.before], [is |-> "discount", kop |-> PRICE_MIN_KOP],
    [is |-> "new", kop |-> c.price]>>

CostAt(c, nodes) == IF nodes = {} THEN None ELSE Costs(c)[Min(nodes)].kop

\* Slip: the first node will do.
FirstCost(c, is) == CostAt(c, {i \in 1..3 : Costs(c)[i].kop # None})

Cost(c, is) == CostAt(c, {i \in 1..3 : Costs(c)[i].kop # None /\ Costs(c)[i].is = is})

Telemart(c) ==
  GridOnly(c, Take(c, Cost(c, "new"), Higher(Cost(c, "old"), Cost(c, "new")), TRUE))

Podorozhnyk(c) ==
  IF c.mark = "prescription" THEN NoItem
  ELSE Take(c, Positive(c.price), Higher(c.before, c.price), c.mark = "in")

\* A product's own page.
AddUa(c) == Take(c, Positive(c.price), None, c.mark # "out")
Apteka911(c) == StockRead(c)

\* The variants of a card, each with a price; nobody asks for a title.
Variant(c) ==
  IF c.mark = "unlinked" \/ c.price = None THEN NoItem
  ELSE RawItem(c, c.price, c.before, c.mark # "out")

Pethouse(c) == Variant(c)
PetChoice(c) == Variant(c)

-----------------------------------------------------------------------------
Read(s, c) ==
  CASE s = "AddUa" -> AddUa(c)             [] s = "Allo" -> Allo(c)
    [] s = "Antoshka" -> Antoshka(c)       [] s = "Apteka911" -> Apteka911(c)
    [] s = "Autopresent" -> Autopresent(c) [] s = "Brain" -> Brain(c)
    [] s = "Citrus" -> Citrus(c)           [] s = "Comfy" -> Comfy(c)
    [] s = "DniproM" -> DniproM(c)         [] s = "Eldorado" -> Eldorado(c)
    [] s = "Epicentr" -> Epicentr(c)       [] s = "Fotosale" -> Fotosale(c)
    [] s = "Foxtrot" -> Foxtrot(c)         [] s = "Interatletika" -> Interatletika(c)
    [] s = "KTC" -> KTC(c)                 [] s = "MAUDAU" -> MAUDAU(c)
    [] s = "MakeUp" -> MakeUp(c)           [] s = "MasterZoo" -> MasterZoo(c)
    [] s = "MedMagazin" -> MedMagazin(c)   [] s = "Moyo" -> Moyo(c)
    [] s = "PetChoice" -> PetChoice(c)     [] s = "Pethouse" -> Pethouse(c)
    [] s = "Podorozhnyk" -> Podorozhnyk(c) [] s = "Rozetka" -> Rozetka(c)
    [] s = "Storgom" -> Storgom(c)         [] s = "Stylus" -> Stylus(c)
    [] s = "Telemart" -> Telemart(c)       [] s = "Vencon" -> Vencon(c)
    [] s = "Yabko" -> Yabko(c)             [] s = "Zootovary" -> Zootovary(c)

Direct == {"Pethouse", "PetChoice"}   \* collected by collect.py, past the server's checks

Shop ==
  Direct \cup
  {"AddUa", "Allo", "Antoshka", "Apteka911", "Autopresent", "Brain", "Citrus", "Comfy",
   "DniproM", "Eldorado", "Epicentr", "Fotosale", "Foxtrot", "Interatletika", "KTC", "MAUDAU",
   "MakeUp", "MasterZoo", "MedMagazin", "Moyo", "Podorozhnyk", "Rozetka", "Storgom", "Stylus",
   "Telemart", "Vencon", "Yabko", "Zootovary"}

\* The cards that are read, by their places.  The state of Podorozhnyk's page
\* holds several arrays of products: the longest counts, of two that are equally
\* long the one that comes first.
Grid(cards) == {k \in DOMAIN cards : cards[k].mark # "aside"}
Rest(cards) == {k \in DOMAIN cards : cards[k].mark = "aside"}

Largest(cards) ==
  IF \/ Cardinality(Rest(cards)) > Cardinality(Grid(cards))
     \/ Cardinality(Rest(cards)) = Cardinality(Grid(cards)) /\ 1 \in Rest(cards)
    THEN Rest(cards) ELSE Grid(cards)

Listing(s, cards) ==
  CASE s = "Podorozhnyk" -> Largest(cards)
    [] s \in {"AddUa", "Apteka911"} -> DOMAIN cards \cap {1}
    [] OTHER -> DOMAIN cards

\* The first item of a product is the one.  Items are in the places of their
\* cards, so that an item may be missing.
Firsts(items) ==
  [k \in DOMAIN items |->
     IF \E j \in 1..(k-1) : IsItem(items[j]) /\ items[j].ref = items[k].ref
       THEN NoItem ELSE items[k]]

Extract(s, cards) ==
  Firsts([k \in DOMAIN cards |->
            IF k \in Listing(s, cards) THEN Read(s, cards[k]) ELSE NoItem])

-----------------------------------------------------------------------------
\* The server.

InRange(kop) == PRICE_MIN_KOP <= kop /\ kop <= PRICE_MAX_KOP

\* Slip: an old price that is not above the current one is refused, not left out.
ValidateItemStrictly(i) ==
  IF IsItem(i) /\ i.home /\ i.titled /\ InRange(i.now) /\ (i.old = None \/ InRange(i.old))
     /\ (i.old = None \/ i.old > i.now)
    THEN i ELSE NoItem

ValidateItem(i) ==
  IF IsItem(i) /\ i.home /\ i.titled /\ InRange(i.now) /\ (i.old = None \/ InRange(i.old))
    THEN [i EXCEPT !.old = Higher(@, i.now)] ELSE NoItem

IngestBatch(items) ==
  LET checked == [k \in DOMAIN items |-> ValidateItem(items[k])]
      valid == Firsts(checked)
      rejected == {k \in DOMAIN items : IsItem(items[k]) /\ ~IsItem(checked[k])}
  IN [valid |-> valid,
      status |-> IF \A k \in DOMAIN items : ~IsItem(valid[k]) THEN "failed"
                 ELSE IF rejected = {} THEN "ok" ELSE "partial"]

Stored(s, cards) ==
  IF s \in Direct THEN Extract(s, cards) ELSE IngestBatch(Extract(s, cards)).valid

-----------------------------------------------------------------------------
PageInit == shop \in Shop /\ page = <<>>

AddCard(c) == Len(page) < MaxCards /\ page' = Append(page, c) /\ UNCHANGED shop

PageNext == \E c \in Card(shop) : AddCard(c)

PageSpec == PageInit /\ [][PageNext]_pageVars

-----------------------------------------------------------------------------
\* Properties.

Rows == {i \in {Stored(shop, page)[k] : k \in DOMAIN page} : IsItem(i)}

\* A crossed-out number is what the product cost before.
Natural(c) == c.before # None => 0 < c.price /\ c.price < c.before

\* Podorozhnyk's listing is taken to be the longest of the arrays in the page.
Crowded ==
  shop = "Podorozhnyk" /\ 2 * Cardinality({k \in DOMAIN page : page[k].mark = "aside"}) >= Len(page)

\* Autopresent takes the crossed-out number of a card without .price-new.
CrossedOut(c) == shop = "Autopresent" /\ c.mark = "bare" /\ c.before # None

\* What one may say of a product from one of its cards.
Says(c, i) ==
  /\ i.ref = c.ref /\ i.now = c.price
  /\ i.old \in {None, c.before} /\ (shop \notin Direct => i.old = None \/ i.old > i.now)
  /\ shop \in WithStock \ {"Interatletika"} => (i.inStock => c.mark # "out")
  /\ c.mark # "prescription" /\ (c.mark = "aside" => Crowded)

\* Nothing is stored but what a card of the page shows of that product: its
\* price and never a neighbouring number, an old price only if it is above, a
\* product said to be out of stock not as in stock, none of a slider or a menu,
\* none that needs a prescription, each product once; of a shop that goes
\* through the server, no price out of range.  (Stylus' classes tell nothing,
\* its prices are told apart by size; Interatletika's mark of what is out of
\* stock is not read; Autopresent's crossed-out number is stored as the price
\* where .price-new is missing, and as nothing else.)
OnlyWhatIsShown ==
  /\ \A i \in Rows :
       /\ \E k \in DOMAIN page :
            \/ Says(page[k], i)
            \/ shop = "Stylus" /\ page[k].ref = i.ref /\ ~Natural(page[k])
            \/ CrossedOut(page[k]) /\ i.ref = page[k].ref /\ i.now = page[k].before /\ i.old = None
       /\ shop \notin Direct => InRange(i.now) /\ i.titled /\ i.home
  /\ \A i, j \in Rows : i.ref = j.ref => i = j

\* Adapters that pass an old price on as it is: one that is out of range costs
\* the whole product, as validate_item has it.
OldPassedOn ==
  {"Antoshka", "Autopresent", "Fotosale", "MasterZoo", "MedMagazin", "Storgom", "Zootovary"}

ToBeSold(c) ==
  /\ c.mark \in {"plain", "bare", "in", "out"} /\ InRange(c.price)
  /\ shop \in OldPassedOn => c.before = None \/ InRange(c.before)
  /\ shop \notin {"Interatletika", "Yabko", "AddUa"} =>
       c.before <= c.price \/ InRange(c.before)
  /\ shop = "Stylus" => Natural(c)

\* A card of which nothing is remembered.
Unreadable(c) ==
  \/ c.mark \in Incomplete
  \/ c.price = None /\ ~CrossedOut(c) /\ (shop = "Stylus" => c.before \in {None, 0})

\* A card with a title, a link, a price in range and no absurd old price is
\* never lost, whatever else stands on the page; but an earlier card of the
\* same product that cannot be stored takes its place: extract remembers the
\* product before the server has refused it.
NothingLost ==
  \A k \in DOMAIN page :
    /\ ToBeSold(page[k])
    /\ \A j \in 1..(k-1) : page[j].ref = page[k].ref =>
         ToBeSold(page[j]) \/ Unreadable(page[j])
    /\ shop \in {"AddUa", "Apteka911"} => k = 1
    /\ shop = "Podorozhnyk" =>
         \A j \in DOMAIN page : page[j].mark # "aside"
    => \E i \in Rows : i.ref = page[k].ref
=============================================================================
