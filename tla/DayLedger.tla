----------------------------- MODULE DayLedger -----------------------------
(***************************************************************************)
(* What the seals of the days promise to whoever keeps a copy of one: a    *)
(* book of days.  A day is entered once, behind all that are, with what it *)
(* then holds, linked to the entry before; no day with something in it is  *)
(* passed over; and what is entered, or was passed over, is left alone.    *)
(* DaySeal implements it.                                                  *)
(***************************************************************************)
EXTENDS Merkle

CONSTANT Day

VARIABLES
  content,     \* Day -> the leaves of its rows, in their order
  entry,       \* a function of the days that are entered
  doubtful     \* days somebody looked into while something was to come

ledgerVars == <<content, entry, doubtful>>

Entered == DOMAIN entry
Latest == IF Entered = {} THEN NoChain ELSE entry[Max(Entered)].chain

\* Nothing comes to the days up to the last one that is entered.
Closed(d) == d \notin doubtful /\ \E e \in Entered : d <= e

LedgerInit ==
  /\ content = [d \in Day |-> <<>>]
  /\ entry = [d \in {} |-> NoChain]
  /\ doubtful = {}

Write ==
  /\ UNCHANGED <<entry, doubtful>>
  /\ \A d \in Day : Closed(d) => content'[d] = content[d]

Doubt(d) ==
  /\ ~Closed(d)
  /\ doubtful' = doubtful \cup {d}
  /\ UNCHANGED <<content, entry>>

Enter(d) ==
  /\ \A e \in Entered : e < d
  /\ \A e \in Day \ Entered : e < d => content[e] = <<>>
  /\ Entered' = Entered \cup {d}
  /\ \A e \in Entered : entry'[e] = entry[e]
  /\ entry'[d].prev = Latest /\ entry'[d].chain = Chain(Latest, entry'[d].root)
  /\ d \notin doubtful =>
       /\ content[d] # <<>>
       /\ entry'[d].rows = Len(content[d]) /\ entry'[d].root = Root(content[d])
  /\ UNCHANGED <<content, doubtful>>

LedgerNext == Write \/ \E d \in Day : Doubt(d) \/ Enter(d)

LedgerSpec == LedgerInit /\ [][LedgerNext]_ledgerVars
=============================================================================
