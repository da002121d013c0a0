------------------------------ MODULE MCOffers ------------------------------
(***************************************************************************)
(* From a shop's page to what is offered, side by side: pages and adapters,*)
(* the plan of pages and the shelf of a product, its events, the key it is *)
(* found by in other shops, and the choice of a shop.                      *)
(***************************************************************************)
EXTENDS MCPriceEvents, ShopPages, Catalogue, Matching, Choice, TLC

VARIABLE part

\* Events, on the few days on which pages, the direct pass and closed events meet,
\* two snapshots of a product on a day at most, and on more days and snapshots,
\* with campaigns that follow one another and every page followed by a pass.
WaresOf == [passes |-> Prices, campaigns |-> Steps]

Narrow ==
  /\ part = "passes" =>
       /\ today' <= 3
       /\ \A p \in Product :
            /\ Len(history'[p]) <= 4
            /\ \A i \in 3..Len(history'[p]) : history'[p][i - 2].day < history'[p][i].day
  /\ \A p \in Product : history'[p] # history[p] =>
       \E item \in WaresOf[part] :
         item.price = Last(history'[p]).price /\ item.stock = Last(history'[p]).stock

Rules == {[free |-> -1, base |-> -1], [free |-> 150, base |-> 80]}
Events == {[total |-> 0, pumped |-> 0], [total |-> 8, pumped |-> 0], [total |-> 8, pumped |-> 8]}

Unknown == [rule |-> [free |-> -1, base |-> -1], events |-> [total |-> 0, pumped |-> 0],
            pickup |-> FALSE]

-----------------------------------------------------------------------------
\* Codes and titles as shops give them of two variants of a product: in several
\* lengths, misprinted, the shop's own; articles, models, sizes, slogans.
Upc == <<0,3,6,0,0,0,2,9,1,4,5,2>>

Codes ==
  {[digits |-> d, of |-> {1}] : d \in {Upc, <<0>> \o Upc, <<0,0>> \o Upc, <<9,6,3,8,5,0,7,4>>}}
  \cup {[digits |-> <<4,0,0,6,3,8,1,3,3,3,9,3,1>>, of |-> {2}]}
  \cup {[digits |-> d, of |-> {1, 2}] :
          d \in {<<4,0,0,6,3,8,1,3,3,3,9,3,2>>, <<2,0,0,0,0,0,0,0,0,0,0,0,8>>, <<2,0,0,0,0,0,0,4>>,
                 <<2,0,0,0,0,0,0,0,0,0,0,4>>, <<0,2,0,0,0,0,0,0,0,0,0,0,4>>, <<8,2,2,0,7,2>>}}

Titled(text, of, len, letters, digits) ==
  [text |-> text, of |-> of, samsung |-> FALSE, paren |-> FALSE, spec |-> FALSE, stop |-> FALSE,
   len |-> len, letters |-> letters, digits |-> digits]

InParens(said) == [said EXCEPT !.paren = TRUE]
Samsung(said) == [said EXCEPT !.samsung = TRUE]

Words ==
  {InParens(Samsung(Titled("SM-S942BZKGEUC", {1}, 14, 10, 3))),
   Samsung(Titled("SM-S942BLBGEUC", {2}, 14, 10, 3)),
   Samsung(Titled("SM-S942B", {1, 2}, 8, 4, 3)),
   InParens(Samsung(Titled("SM-S942B", {1, 2}, 8, 4, 3))),
   Titled("NX.DK6EU.008", {1}, 12, 6, 4),
   InParens(Titled("NX.DK6EU.008", {1}, 12, 6, 4)),
   Titled("X1504VA", {1, 2}, 7, 3, 4),
   Titled("3840X2160", {1, 2}, 9, 1, 8),
   [InParens(Titled("8/256GB", {1, 2}, 7, 2, 4)) EXCEPT !.spec = TRUE],
   [InParens(Titled("WIFI", {1, 2}, 4, 4, 0)) EXCEPT !.stop = TRUE],
   InParens(Titled("2025", {1, 2}, 4, 0, 4))}

\* That the rules discern these is what a theorem about any others rests on.
ASSUME CodesDiscerned == Discerned

-----------------------------------------------------------------------------
\* One part runs, the others stay in one of the states they may begin in.
allvars == <<part, vars, pageVars, shelfVars, choiceVars, matchVars>>

PartsInit ==
  /\ part \in {"passes", "campaigns", "pages", "shelves", "choice", "matching"}
  /\ Init
  /\ PageInit /\ (part # "pages" => shop = "Allo")
  /\ ShelvesInit /\ (part # "shelves" => site = "Allo" /\ words = [p \in StoreProduct |-> {}])
  /\ ChoiceInit /\ (part # "choice" => \A s \in Store : fact[s] = Unknown)
  /\ MatchInit /\ (part # "matching" => what = <<1, 1>>)

\* Pages that begin with the other product are alike, and a zero is told on
\* the first card.
PageTold ==
  /\ page'[1].ref = 1
  /\ \A k \in 2..Len(page') : 0 \notin {page'[k].price, page'[k].before}

PartsNext ==
  /\ UNCHANGED part
  /\ IF part \in {"passes", "campaigns"} THEN TRUE ELSE UNCHANGED vars
  /\ IF part = "pages" THEN TRUE ELSE UNCHANGED pageVars
  /\ IF part = "shelves" THEN TRUE ELSE UNCHANGED shelfVars
  /\ IF part = "choice" THEN TRUE ELSE UNCHANGED choiceVars
  /\ IF part = "matching" THEN TRUE ELSE UNCHANGED matchVars
  /\ \/ part = "passes" /\ Next /\ Narrow
     \/ part = "campaigns" /\ PagesOnly /\ Narrow
     \/ part = "pages" /\ PageNext /\ PageTold
     \/ part = "shelves" /\ ShelvesNext
     \/ part = "choice" /\ ChoiceNext
     \/ part = "matching" /\ MatchNext

PartsSpec == PartsInit /\ [][PartsNext]_allvars

=============================================================================
