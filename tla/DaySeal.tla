------------------------------ MODULE DaySeal ------------------------------
(***************************************************************************)
(* The seals of the days: transactions that append snapshots, stamped with *)
(* the time at which they began; runs of seal.py, by timer or by hand,     *)
(* that may overlap and stop anywhere; the table day_seal.                 *)
(***************************************************************************)
EXTENDS Merkle, FiniteSets, Functions

CONSTANTS
  Tx,          \* transactions that append, as far as they overlap
  Page,        \* the products of a page: sequences of items
  Run,         \* runs of seal.py that may overlap
  DayLength,   \* moments of a day
  MaxLag,      \* how long a transaction takes
  MaxTime,     \* bound of the clock
  MaxRows      \* bound of the history

ASSUME SealAssumption ==
  /\ Page \subseteq Seq(STRING) \ {<<>>}
  /\ DayLength \in Nat \ {0}
  /\ MaxLag \in 0..DayLength
  /\ MaxTime \in Nat /\ MaxRows \in Nat

VARIABLES
  time,
  history,     \* table price_snapshot, in the order of price_snapshot_id
  open,        \* Tx -> the rows it has inserted and not committed
  seal,        \* table day_seal: a function of the days that are sealed
  run,         \* Run -> how far it is
  early        \* history: days read while a transaction of theirs was open

sealVars == <<time, history, open, seal, run, early>>

DayOf(t) == t \div DayLength
Today == DayOf(time)
Day == 0..DayOf(MaxTime)

\* A row is committed once its transaction is; until then it is in open.
Committed(r) == \A x \in Tx : r.id \notin open[x]

\* The rows of S by seen_at and price_snapshot_id.
Before(a, b) == a.seen < b.seen \/ (a.seen = b.seen /\ a.id < b.id)
Ordered(S) ==
  [i \in 1..Cardinality(S) |-> CHOOSE r \in S : Cardinality({q \in S : Before(q, r)}) = i - 1]

\* day_rows.  Slip: the first moment of the next day is taken along.
RowsThrough(d) ==
  {r \in Range(history) : Committed(r) /\ r.seen \in (d * DayLength)..((d + 1) * DayLength)}
RowsOf(d) == {r \in Range(history) : Committed(r) /\ DayOf(r.seen) = d}
DayRows(d) == Ordered(RowsOf(d))

Leaves(rows) == [i \in DOMAIN rows |-> Leaf(rows[i])]

\* unsealed_days: full days with rows and without a seal, to be taken in order.
\* Slips: today too; in the reverse order.
UnsealedSoFar == {d \in Day : d <= Today /\ d \notin DOMAIN seal /\ RowsOf(d) # {}}
Unsealed == {d \in Day : d < Today /\ d \notin DOMAIN seal /\ RowsOf(d) # {}}
LatestFirst(days) == Max(days)
NextDay(days) == Min(days)

\* last_seal: the chain of the latest day.
LastChain == IF DOMAIN seal = {} THEN NoChain ELSE seal[Max(DOMAIN seal)].chain

NoRun == [step |-> "idle", days |-> {}, rows |-> <<>>, prev |-> NoChain]

-----------------------------------------------------------------------------
SealInit ==
  /\ time = 0 /\ history = <<>> /\ open = [x \in Tx |-> {}]
  /\ seal = [d \in {} |-> NoRun]
  /\ run = [r \in Run |-> NoRun]
  /\ early = {}

SealTick ==
  /\ time < MaxTime
  /\ \A r \in Range(history) : Committed(r) \/ time + 1 - r.seen <= MaxLag
  /\ time' = time + 1
  /\ UNCHANGED <<history, open, seal, run, early>>

\* persist_items of a page: every row is stamped now(), the transaction's time.
\* (A transaction that is rolled back never shows anything.)
AppendPage(x, page) ==
  /\ open[x] = {} /\ Len(history) + Len(page) <= MaxRows
  /\ history' = history \o [i \in DOMAIN page |->
                  [id |-> Len(history) + i, item |-> page[i], seen |-> time]]
  /\ open' = [open EXCEPT ![x] = {Len(history) + i : i \in DOMAIN page}]
  /\ UNCHANGED <<time, seal, run, early>>

CommitPage(x) ==
  /\ open[x] # {}
  /\ open' = [open EXCEPT ![x] = {}]
  /\ UNCHANGED <<time, history, seal, run, early>>

\* run: the list of the days to seal.
ListDays(r) ==
  /\ run[r].step = "idle" /\ Unsealed # {}
  /\ run' = [run EXCEPT ![r] = [NoRun EXCEPT !.step = "read", !.days = Unsealed]]
  /\ UNCHANGED <<time, history, open, seal, early>>

\* seal_day: the day's rows,
ReadRows(r) ==
  /\ run[r].step = "read"
  /\ LET d == NextDay(run[r].days) IN
     /\ run' = [run EXCEPT ![r].step = "chain", ![r].rows = DayRows(d)]
     /\ early' = IF \E row \in Range(history) : DayOf(row.seen) = d /\ ~Committed(row)
                   THEN early \cup {d} ELSE early
  /\ UNCHANGED <<time, history, open, seal>>

\* the last link,
ReadChain(r) ==
  /\ run[r].step = "chain"
  /\ run' = [run EXCEPT ![r].step = "insert", ![r].prev = LastChain]
  /\ UNCHANGED <<time, history, open, seal, early>>

\* and the seal, committed by itself.
InsertSeal(r) ==
  /\ run[r].step = "insert"
  /\ LET d    == NextDay(run[r].days)
         root == Root(Leaves(run[r].rows))
         rest == run[r].days \ {d}
     IN  /\ d \notin DOMAIN seal
         /\ seal' = [e \in DOMAIN seal \cup {d} |->
              IF e = d THEN [rows |-> Len(run[r].rows), root |-> root, prev |-> run[r].prev,
                             chain |-> Chain(run[r].prev, root)]
                       ELSE seal[e]]
         /\ run' = [run EXCEPT ![r] = IF rest = {} THEN NoRun
                                        ELSE [NoRun EXCEPT !.step = "read", !.days = rest]]
  /\ UNCHANGED <<time, history, open, early>>

\* The run is killed, or meets a day that the other has sealed: the primary key
\* ends it, with all the days that it had left.
StopRun(r) ==
  /\ run[r].step # "idle"
  /\ run' = [run EXCEPT ![r] = NoRun]
  /\ UNCHANGED <<time, history, open, seal, early>>

SealNext ==
  \/ SealTick
  \/ \E x \in Tx : CommitPage(x) \/ \E page \in Page : AppendPage(x, page)
  \/ \E r \in Run : ListDays(r) \/ ReadRows(r) \/ ReadChain(r) \/ InsertSeal(r) \/ StopRun(r)

SealSpec == SealInit /\ [][SealNext]_sealVars

-----------------------------------------------------------------------------
\* Properties.

\* Types; a sealed day is over and had rows.
TypeOK ==
  /\ time \in 0..MaxTime /\ Len(history) <= MaxRows
  /\ \A i \in DOMAIN history : history[i].id = i /\ history[i].seen \in 0..time
  /\ \A x \in Tx : open[x] \subseteq DOMAIN history
  /\ DOMAIN seal \subseteq {d \in Day : d < Today}
  /\ \A d \in DOMAIN seal : seal[d].rows > 0

\* What /api/verify/proof answers of any row of a sealed day verifies against
\* the seal, however many rows the day has, for ever - unless a run had read
\* the day while rows of it were still to be committed.
ProofsVerify ==
  \A d \in DOMAIN seal \ early :
    LET leaves == Leaves(DayRows(d)) IN
    \A i \in DOMAIN leaves : Verify(leaves[i], Proof(leaves, i), seal[d].root)

\* The seals are one chain in the order of the days, with nothing between two
\* links, though runs overlap and die: each link is made over the one of the
\* sealed day before it, and a day that has rows and no seal is later than all
\* that have one.
ChainLinear ==
  \A d \in DOMAIN seal :
    LET before == {e \in DOMAIN seal : e < d} IN
    /\ seal[d].prev = IF before = {} THEN NoChain ELSE seal[Max(before)].chain
    /\ \A e \in 0..(d - 1) \ DOMAIN seal : RowsOf(e) = {}

\* Together, whatever overlaps or stops, the seals are a book of days: a step
\* enters one day, behind the others and with all that it holds, or it changes
\* none that is entered or was passed over.
Ledger == INSTANCE DayLedger WITH
  content <- [d \in Day |-> Leaves(DayRows(d))], entry <- seal, doubtful <- early

SealsKeepLedger == Ledger!LedgerSpec
=============================================================================
