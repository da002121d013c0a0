------------------------ MODULE CollectQueueVisits --------------------------
(***************************************************************************)
(* The lease queue implements ShopVisits as long as the pause promised is  *)
(* kept (SpacingPromised), hence while nothing enters the queue late       *)
(* without having been put off: the configuration stays as it is and every *)
(* card fits into the queue at once (Settled).                             *)
(***************************************************************************)
EXTENDS CollectQueue

\* The page that a collector works on at a source, by the live lease in the
\* table; two live leases of one source have no counterpart.
PageAt(s) ==
  LET live == {t \in Task : SourceOf[t] = s /\ queue[t].lease >= 0}
  IN  IF live = {} THEN NoOne
      ELSE IF Cardinality(live) = 1 THEN CHOOSE t \in live : TRUE ELSE live

Visits == INSTANCE ShopVisits WITH
  Shop <- Source, Page <- Task, Nobody <- NoOne, Pause <- Spacing,
  gap <- sinceLease, visit <- [s \in Source |-> PageAt(s)]

\* The configuration stays as it is, and all cards fit into the queue at once.
Settled ==
  /\ \E c : Configs = {c}
  /\ \A c, d \in Card : GroupOf[c] = GroupOf[d] => c = d
  /\ IsFiniteSet(Card) /\ Cardinality(Card) <= CardTarget

\* Shops see one collector at a time, Spacing apart: every step of the queue is
\* a step of ShopVisits or leaves the shops alone.
VisitsSpec == Visits!Spec
=============================================================================
