------------------------------ MODULE Matching ------------------------------
(***************************************************************************)
(* The key by which one product is found in several shops: the bar code of *)
(* its box, or else the factory code in its title (matching.py; match_key  *)
(* of migration 0016).  A missed match costs two cards instead of one, a   *)
(* false one shows somebody else's prices.  A bar code is its digits, a    *)
(* word of a title what the rules ask of it.                               *)
(***************************************************************************)
EXTENDS Integers, Sequences, FiniteSetsExt

CONSTANTS
  Thing,      \* products, as they are
  Barcode,    \* bar codes that shops give: [digits, of], of the products they belong to
  TitleWord,  \* words of titles: [text, of, samsung, paren, spec, stop, len, letters, digits]
  MaxSaid     \* words and codes of a listing; a bound of the model

ASSUME MatchingAssumption ==
  /\ Barcode \subseteq [digits : Seq(0..9), of : SUBSET Thing]
  /\ \A w \in TitleWord : w.of \subseteq Thing /\ w.len \in Nat
  /\ MaxSaid \in Nat

VARIABLES
  what,       \* of two shops: the product that is listed
  codes,      \* the codes beside it
  title       \* the words of its title

matchVars == <<what, codes, title>>

NoKey == <<>>
Seller == {1, 2}

-----------------------------------------------------------------------------
\* Bar codes.  The last digit makes the sum of the others, with weights 3, 1,
\* 3, ... from the right, a multiple of ten; there are no more than 14.
FromRight(d, i) == IF i < Len(d) THEN d[Len(d) - i] ELSE 0

GtinCheckOk(d) ==
  LET at(i) == FromRight(d, i)
      odd == at(1) + at(3) + at(5) + at(7) + at(9) + at(11) + at(13)
      even == at(2) + at(4) + at(6) + at(8) + at(10) + at(12)
  IN (10 - ((3 * odd + even) % 10)) % 10 = d[Len(d)]

\* Codes that shops give out themselves.
GtinRestricted(d) ==
  \/ Len(d) \in {12, 13} /\ d[1] = 2
  \/ Len(d) = 8 /\ d[1] \in {0, 2}
  \/ Len(d) = 14 /\ d[2] = 2

\* Slip: as it is written.
Unfilled(d) == d

Zfill(d) == [j \in 1..14 |-> IF j + Len(d) > 14 THEN d[j + Len(d) - 14] ELSE 0]

GtinLength == {8, 12, 13, 14}

NormalizeGtin(d) ==
  IF Len(d) \in GtinLength /\ GtinCheckOk(d) /\ ~GtinRestricted(d) THEN Zfill(d) ELSE NoKey

Less(a, b) ==
  \E i \in 1..14 : a[i] < b[i] /\ \A j \in 1..14 : j < i => a[j] = b[j]

\* Slip: a shop's own codes are taken for global ones.
PickAnyGtin(said) ==
  LET ok(d) == Len(d) \in GtinLength /\ GtinCheckOk(d)
      valid == {i \in DOMAIN said : ok(said[i].digits)}
  IN  IF valid = {} THEN NoKey ELSE Zfill(said[Min(valid)].digits)

\* The least of the valid ones, however they are ordered.
PickGtin(said) ==
  LET valid == {NormalizeGtin(said[i].digits) : i \in DOMAIN said} \ {NoKey} IN
  IF valid = {} THEN NoKey ELSE CHOOSE g \in valid : \A h \in valid \ {g} : Less(g, h)

-----------------------------------------------------------------------------
\* Factory codes.
Plausible(w) ==
  w.len \in 4..25 /\ ~w.stop /\ ~w.spec /\ w.letters >= 2 /\ w.digits >= 1

PlausibleInline(w) ==
  w.len \in 8..25 /\ ~w.stop /\ ~w.spec /\ ~w.samsung /\ w.letters >= 2 /\ w.digits >= 2

\* A model of Samsung is common to its variants, the full code is not.
FullCode(w) == w.samsung /\ w.len >= 11

\* The longest code of Samsung if it is a full one, the last plausible word in
\* parentheses, the last plausible one outside.  (A key of one string: it
\* is never that of a bar code, which has 14 digits.)
ExtractMpn(words) ==
  LET samsung == {i \in DOMAIN words : FullCode(words[i])}
      longest == {i \in samsung : \A j \in samsung : words[j].len <= words[i].len}
      inParens == {i \in DOMAIN words : words[i].paren /\ Plausible(words[i])}
      inline == {i \in DOMAIN words : PlausibleInline(words[i])}
  IN IF samsung # {} THEN <<words[Min(longest)].text>>
     ELSE IF inParens # {} THEN <<words[Max(inParens)].text>>
     ELSE IF inline # {} THEN <<words[Max(inline)].text>>
     ELSE NoKey

\* match_key
MatchKey(said, words) == IF PickGtin(said) # NoKey THEN PickGtin(said) ELSE ExtractMpn(words)

Key(s) == MatchKey(codes[s], title[s])

-----------------------------------------------------------------------------
MatchInit ==
  /\ what \in [Seller -> Thing]
  /\ codes = [s \in Seller |-> <<>>]
  /\ title = [s \in Seller |-> <<>>]

Room(s) == Len(codes[s]) + Len(title[s]) < MaxSaid

GiveCode(s, c) ==
  /\ Room(s) /\ what[s] \in c.of
  /\ codes' = [codes EXCEPT ![s] = Append(@, c)]
  /\ UNCHANGED <<what, title>>

WriteWord(s, w) ==
  /\ Room(s) /\ what[s] \in w.of
  /\ title' = [title EXCEPT ![s] = Append(@, w)]
  /\ UNCHANGED <<what, codes>>

MatchNext ==
  \E s \in Seller :
    \/ \E c \in Barcode : GiveCode(s, c)
    \/ \E w \in TitleWord : WriteWord(s, w)

MatchSpec == MatchInit /\ [][MatchNext]_matchVars

-----------------------------------------------------------------------------
\* Properties.

\* Two ways the code takes for a key what says nothing of one product: a code
\* of the shop's own, written out longer than it is, and the model of a
\* Samsung in parentheses.
Padded(d) ==
  \E n \in {8, 12, 13} :
    /\ n < Len(d) /\ \A i \in 1..(Len(d) - n) : d[i] = 0
    /\ GtinRestricted(SubSeq(d, Len(d) - n + 1, Len(d)))
ModelInParens(w) == w.samsung /\ w.paren /\ w.len < 11

Ordinary(s) ==
  /\ \A i \in DOMAIN codes[s] : ~Padded(codes[s][i].digits)
  /\ \A i \in DOMAIN title[s] : ~ModelInParens(title[s][i])

\* Different products never meet: not by a misprinted code, a code that a shop
\* gave out itself, a model that is common to variants, a size or a slogan.
NeverMixed ==
  (what[1] # what[2] /\ Ordinary(1) /\ Ordinary(2)) => Key(1) # Key(2) \/ Key(1) = NoKey

\* What a code says, in whatever length it is written: its digits, by their
\* places from the right, but for noughts.
Significant(d) == {<<Len(d) - i, d[i]>> : i \in {j \in DOMAIN d : d[j] # 0}}

\* The codes and the words that are the product's own.
Sole(S) == \E x \in S : S = {x}
OwnCode(c) == Sole(c.of)
Meant(s) ==
  {Significant(codes[s][i].digits) : i \in {j \in DOMAIN codes[s] : OwnCode(codes[s][j])}}
Own(s) == {title[s][i].text : i \in {j \in DOMAIN title[s] : OwnCode(title[s][j])}}

\* Shops that say the same of a product meet, in whatever order and length they
\* write its codes and whatever else they write.
KeysMeet ==
  (what[1] = what[2] /\ Ordinary(1) /\ Ordinary(2)) =>
    /\ Meant(1) = Meant(2) /\ Meant(1) # {} => Key(1) = Key(2) /\ Key(1) # NoKey
    /\ Meant(1) = {} /\ Meant(2) = {} /\ Own(1) = Own(2) /\ Sole(Own(1)) =>
         Key(1) = Key(2) /\ Key(1) # NoKey

\* What the two rest on of the codes and titles that shops give: the rules take
\* a code, or a word, just if it is one product's own, the two ways aside; and
\* nothing of another product's is written the same.
Taken(w) == FullCode(w) \/ (w.paren /\ Plausible(w)) \/ PlausibleInline(w)

Discerned ==
  /\ \A c \in Barcode : ~Padded(c.digits) => (NormalizeGtin(c.digits) # NoKey <=> OwnCode(c))
  /\ \A c, e \in Barcode :
       OwnCode(c) /\ Significant(c.digits) = Significant(e.digits) => c.of = e.of
  /\ \A w \in TitleWord : ~ModelInParens(w) => (Taken(w) <=> OwnCode(w))
  /\ \A v, w \in TitleWord : OwnCode(v) /\ v.text = w.text => v.of = w.of
=============================================================================
