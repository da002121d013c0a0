------------------------------- MODULE Choice -------------------------------
(***************************************************************************)
(* "Our choice" among the shops that sell one product: product_offers      *)
(* takes one page of each shop, our_choice joins what is known of the shop *)
(* (its delivery, its pick-up points, how many of its discounts of the     *)
(* last 90 days were pumped up), pick gives each a score and takes the     *)
(* best.  Shops are numbered by their names in the alphabet.               *)
(***************************************************************************)
EXTENDS Integers, FiniteSets, FiniteSetsExt

CONSTANTS
  Stores,     \* how many shops there are
  Price,      \* prices of pages, in kop
  Rule,       \* delivery rules: [free |-> a price or Unset, base |-> a price or Unset]
  Checked,    \* discounts of a shop: [total, pumped]
  MaxPages    \* pages of the product; a bound of the model

Unset == -1

ASSUME ChoiceAssumption ==
  /\ Stores \in Nat /\ Price \subseteq Nat
  /\ \A r \in Rule : r.free \in Nat \cup {Unset} /\ r.base \in Nat \cup {Unset}
  /\ \A e \in Checked : e.total \in Nat /\ e.pumped \in 0..e.total

VARIABLES
  fact,       \* of each shop: [rule, events, pickup]
  pages       \* its pages of the product: [kop, inStock, used]

choiceVars == <<fact, pages>>

Store == 1..Stores

-----------------------------------------------------------------------------
\* product_offers: of the pages of a shop one that is in stock, then one of a
\* product that is not used, then the cheapest.
Rank(p) == <<IF p.inStock THEN 0 ELSE 1, IF p.used THEN 1 ELSE 0, p.kop>>

Before(a, b) ==
  \/ a[1] < b[1]
  \/ a[1] = b[1] /\ a[2] < b[2]
  \/ a[1] = b[1] /\ a[2] = b[2] /\ a[3] <= b[3]

Offer(s) == CHOOSE p \in pages[s] : \A q \in pages[s] : Before(Rank(p), Rank(q))

Sellers == {s \in Store : pages[s] # {}}

-----------------------------------------------------------------------------
\* core.py.  Delivery is free from a sum on; of a shop without a rule nothing
\* is known and nothing is added.
EffectiveKop(s) ==
  LET kop == Offer(s).kop
      rule == fact[s].rule
  IN IF rule.base = Unset \/ (rule.free # Unset /\ kop >= rule.free) THEN kop ELSE kop + rule.base

\* Of 10 000: with one pumped discount and one honest one added to what is known.
HonestyTimes(s) == fact[s].events.total - fact[s].events.pumped + 1
HonestyOf(s) == fact[s].events.total + 2

\* n/d to the nearest whole number, halves to the even one.
Rounded(n, d) ==
  LET q == n \div d
      r == n % d
  IN IF 2 * r > d \/ (2 * r = d /\ q % 2 = 1) THEN q + 1 ELSE q

Candidates == {s \in Sellers : Offer(s).inStock /\ Offer(s).kop > 0}

LeastKop(C) == Min({EffectiveKop(s) : s \in C})

\* The price counts by its ratio to the lowest one; 0.70, 0.25 and 0.05 are
\* the weights of migration 0159, the score is kept to four places.  Slip: the
\* ratio upside down.
ScoreUpsideDown(s, C) ==
  LET l == LeastKop(C)
      t == HonestyOf(s)
  IN Rounded(7000 * EffectiveKop(s) * t + 2500 * HonestyTimes(s) * l
               + (IF fact[s].pickup THEN 500 * l * t ELSE 0), l * t)

Score(s, C) ==
  LET e == EffectiveKop(s)
      t == HonestyOf(s)
  IN Rounded(7000 * LeastKop(C) * t + 2500 * HonestyTimes(s) * e
               + (IF fact[s].pickup THEN 500 * e * t ELSE 0), e * t)

\* Equal scores: the lower price, then the later name.
Better(s, r, C) ==
  \/ Score(s, C) > Score(r, C)
  \/ Score(s, C) = Score(r, C) /\ EffectiveKop(s) < EffectiveKop(r)
  \/ Score(s, C) = Score(r, C) /\ EffectiveKop(s) = EffectiveKop(r) /\ s > r

Pick(C) == CHOOSE s \in C : \A r \in C \ {s} : Better(s, r, C)

\* Nobody to compare with, no choice.
OurChoice ==
  IF Cardinality(Sellers) < 2 \/ Cardinality(Candidates) < 2 THEN Unset ELSE Pick(Candidates)

Savings(s) == Max({EffectiveKop(r) : r \in Candidates}) - EffectiveKop(s)

-----------------------------------------------------------------------------
Page == [kop : Price, inStock : BOOLEAN, used : BOOLEAN]

ChoiceInit ==
  /\ fact \in [Store -> [rule : Rule, events : Checked, pickup : BOOLEAN]]
  /\ pages = [s \in Store |-> {}]

List(s, p) ==
  /\ MapThenSumSet(LAMBDA r : Cardinality(pages[r]), Store) < MaxPages /\ p \notin pages[s]
  /\ pages' = [pages EXCEPT ![s] = @ \cup {p}]
  /\ UNCHANGED fact

ChoiceNext == \E s \in Store, p \in Page : List(s, p)

ChoiceSpec == ChoiceInit /\ [][ChoiceNext]_choiceVars

-----------------------------------------------------------------------------
\* Properties.

Honester(s, r) ==
  HonestyTimes(s) * HonestyOf(r) >= HonestyTimes(r) * HonestyOf(s)

\* What is chosen is in stock and, where its shop has a new one in stock, not
\* used; nobody else in stock is cheaper with delivery and no worse in honesty
\* and pick-up; and honesty and pick-up never make up for a price that is three
\* quarters above the lowest.
ChoiceIsSound ==
  LET c == OurChoice IN
  c # Unset =>
    /\ Offer(c).inStock
    /\ Offer(c).used => \A p \in pages[c] : p.inStock => p.used
    /\ ~\E s \in Candidates \ {c} :
          /\ EffectiveKop(s) < EffectiveKop(c) /\ Honester(s, c)
          /\ fact[c].pickup => fact[s].pickup
    /\ 4 * EffectiveKop(c) < 7 * LeastKop(Candidates)
    /\ Savings(c) >= 0
=============================================================================
