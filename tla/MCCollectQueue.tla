--------------------------- MODULE MCCollectQueue ---------------------------
(***************************************************************************)
(* Small instances of CollectQueue.  Two shops: one with a hub, a listing  *)
(* and a landing that the hub may yield, one with a sitemap or a card.     *)
(* Times keep the order of the real ones (10 < 15 < 1440 <= 2880).         *)
(***************************************************************************)
EXTENDS CollectQueueVisits, CollectQueueLive, TLC

CONSTANTS s1, s2, hub, page, page2, landing, sitemap, card, card2, w1, w2, a1, a2, g

MCSourceOf == [t \in Task |-> IF t \in {card, card2} THEN s2 ELSE s1]
OwnLabels == (w1 :> a1) @@ (w2 :> a2)
OneLabel == [w \in Worker |-> a1]
AllSkills == [w \in Worker |-> Source]
FewSkills == (w1 :> {s1, s2}) @@ (w2 :> {s2})
OneGroup == [c \in Card |-> g]
OwnGroups == [c \in Card |-> c]
Ranks == [c \in Card |-> IF c = card THEN 0 ELSE 1]
=============================================================================
