--------------------------- MODULE MCPriceAlerts ---------------------------
(***************************************************************************)
(* One product that a user watches by itself and under a query.            *)
(***************************************************************************)
EXTENDS PriceAlerts

CONSTANTS p1, w, q, page, m

MCProductOf == [x \in {w} |-> p1]
=============================================================================
