--------------------------- MODULE MCPriceEvents ----------------------------
(***************************************************************************)
(* Instances of PriceEvents for TLC.                                       *)
(***************************************************************************)
EXTENDS PriceEvents

Goods(price, old, stock) == [price |-> price, old |-> old, stock |-> stock]

\* The usual price, a drop, a drop by less than the threshold with an old price
\* that makes it look large, and an empty shelf with an old price that is too low.
Prices == {Goods(100, 0, TRUE), Goods(80, 0, TRUE), Goods(97, 120, TRUE), Goods(60, 50, FALSE)}

UpAndDown == {Goods(100, 0, TRUE), Goods(80, 0, TRUE)}

\* Two steps down and the way back, for campaigns that follow one another.
Steps == {Goods(100, 0, TRUE), Goods(80, 0, TRUE), Goods(60, 0, TRUE)}

Wares == Prices \cup Steps
=============================================================================
