--------------------------- MODULE MCTransactions ---------------------------
(***************************************************************************)
(* Transactions that share no table, checked side by side: of collect_task *)
(* (a round of two leases, a hub's page, and a card's without task_id) and *)
(* of app_user (two requests at a time, three accounts).                   *)
(***************************************************************************)
EXTENDS Accounts, LeaseTx, TLC

CONSTANTS s1, s2, hub, landing, card, l1, l2, h, p, a1, a2

MCSourceOf == [t \in Task |-> IF t = card THEN s2 ELSE s1]
MCSeedOrder == <<hub>>
MCPageOf == (h :> hub) @@ (p :> card)
MCLabelOf == (l1 :> a1) @@ (l2 :> a2) @@ (h :> a1) @@ (p :> a2)

VARIABLE part

Symmetry == Permutations(Account) \cup Permutations(Worker)

-----------------------------------------------------------------------------
\* One part runs, the others stay in one of the states they may begin in.
\* No post here closes a landing, so that who last held it makes no difference.
allvars == <<part, vars, leaseVars>>

PartsInit ==
  /\ part \in {"tasks", "users"}
  /\ IF part = "users" THEN TRUE
     ELSE committed = [u \in Account |-> [there |-> TRUE, role |-> "admin", active |-> TRUE]]
  /\ IF part = "tasks" THEN TRUE ELSE tasks = [t \in Task |-> NoTask]
  /\ Init /\ (\A u \in Account : committed[u].there => committed[u].active)
  /\ LeaseInit /\ (part # "tasks" => \A x \in HubPost : tx[x].todo = <<>>)
  /\ \A t \in Landing : tasks[t].live \/ tasks[t].holder = NoOne

PartsNext ==
  /\ UNCHANGED part
  /\ \/ part = "tasks" /\ LeaseNext /\ UNCHANGED vars
     \/ part = "users" /\ Next /\ UNCHANGED leaseVars

PartsSpec == PartsInit /\ [][PartsNext]_allvars
=============================================================================
