----------------------------- MODULE ShopVisits -----------------------------
(***************************************************************************)
(* What the lease queue promises the shops it collects from: a shop is     *)
(* visited by at most one collector at a time, on one page, and the next   *)
(* visit begins no sooner than Pause after the previous one began.  Visits *)
(* end when the collector answers, or by themselves when it does not.      *)
(* Shops are visited independently of one another.                         *)
(***************************************************************************)
EXTENDS Integers

CONSTANTS
  Shop, Page,
  Nobody,      \* not a page: no visit is under way
  Pause        \* a natural number

VARIABLES
  gap,     \* time since the latest visit to a shop began, up to Pause
  visit    \* the page being collected from a shop, or Nobody

vars == <<gap, visit>>

TypeOK == gap \in [Shop -> 0..Pause] /\ visit \in [Shop -> Page \cup {Nobody}]

Init == gap = [s \in Shop |-> Pause] /\ visit = [s \in Shop |-> Nobody]

\* Some visits end, and collectors set out to some of the shops that have rested.
Meet ==
  \E S \in SUBSET {s \in Shop : gap[s] = Pause /\ visit[s] = Nobody} :
    /\ gap' = [s \in Shop |-> IF s \in S THEN 0 ELSE gap[s]]
    /\ visit' \in [Shop -> Page \cup {Nobody}]
    /\ \A s \in Shop : visit'[s] \in IF s \in S THEN Page ELSE {visit[s], Nobody}

\* Time passes, and some visits are given up as lost.
Pass ==
  /\ gap' = [s \in Shop |-> IF gap[s] < Pause THEN gap[s] + 1 ELSE Pause]
  /\ \E S \in SUBSET Shop :
       visit' = [s \in Shop |-> IF s \in S THEN Nobody ELSE visit[s]]

Next == Meet \/ Pass

Spec == Init /\ [][Next]_vars
=============================================================================
