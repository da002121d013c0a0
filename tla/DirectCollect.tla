--------------------------- MODULE DirectCollect ----------------------------
(***************************************************************************)
(* The collection that needs no collectors: collect.py goes over its list  *)
(* of shops, reads their pages one after another and stores what it read,  *)
(* each row in a transaction of its own; a shop that fails does not stop   *)
(* the others.  Run with --satellite, it reads the shops that refuse the   *)
(* server and posts what it read instead of storing it.  The process may   *)
(* die at any moment; the timer starts another.                            *)
(***************************************************************************)
EXTENDS Integers, FiniteSets, Sequences, FiniteSetsExt

CONSTANTS
  Item,       \* what pages hold; the same product read twice counts once
  SOURCES,    \* the shops in their order: [pages, hub, enabled, satellite]
  MaxPasses   \* times that the program is started; a bound of the model

ASSUME CollectAssumption ==
  /\ IsFiniteSet(Item) /\ MaxPasses \in Nat
  /\ SOURCES \in Seq([pages : Nat, hub : BOOLEAN, enabled : BOOLEAN, satellite : BOOLEAN])

VARIABLES
  exit,       \* how the program ended, or "running", or "never" started
  started,    \* how many times it has been started
  mode,       \* "server" or "satellite"
  todo,       \* shops still to be collected
  pc,         \* what it does with that shop: "open", "hub", "read", "store" or "close"
  urls,       \* how many pages the shop has
  left,       \* how many of them are yet to be read
  items,      \* what was read of them
  errors,     \* how many things went wrong with this shop
  scan_run,   \* rows: [pass, shop, status, seen]
  snapshot,   \* rows of price_snapshot: [run, item]
  report,     \* per_source of this pass: [shop, status, items]
  broken      \* runs of which a page or a row is missing (kept by the model only)

collectVars == <<exit, started, mode, todo, pc, urls, left, items, errors, scan_run, snapshot,
                 report, broken>>

current == Min(todo)     \* the shops are taken in their order
shop == SOURCES[current]
MaxPages == Max({SOURCES[i].pages : i \in DOMAIN SOURCES})
thisRun == Len(scan_run)
StoredIn(r) == {s.item : s \in {x \in snapshot : x.run = r}}

-----------------------------------------------------------------------------
CollectInit ==
  /\ exit = "never" /\ started = 0 /\ mode = "server" /\ todo = {} /\ pc = "open"
  /\ urls = 0 /\ left = 0 /\ items = {} /\ errors = 0
  /\ scan_run = <<>> /\ snapshot = {} /\ report = {} /\ broken = {}

\* main, main_satellite: shops switched off are left out, as are those that
\* the server itself can read.
Taken(m) ==
  {i \in DOMAIN SOURCES : IF m = "server" THEN SOURCES[i].enabled ELSE SOURCES[i].satellite}

StartPass(m) ==
  /\ exit # "running" /\ started < MaxPasses
  /\ exit' = "running" /\ started' = started + 1 /\ mode' = m
  /\ todo' = Taken(m) /\ pc' = "open" /\ report' = {}
  /\ UNCHANGED <<urls, left, items, errors, scan_run, snapshot, broken>>

\* The run is entered as failed, and stays so if nobody comes back to it.
Open ==
  /\ exit = "running" /\ todo # {} /\ pc = "open"
  /\ pc' = (IF shop.hub THEN "hub" ELSE "read")
  /\ urls' = shop.pages /\ left' = shop.pages /\ items' = {} /\ errors' = 0
  /\ scan_run' = (IF mode = "server"
                    THEN Append(scan_run, [pass |-> started, shop |-> current,
                                           status |-> "failed", seen |-> 0])
                    ELSE scan_run)
  /\ UNCHANGED <<exit, started, mode, todo, snapshot, report, broken>>

Missing == IF mode = "server" THEN broken \cup {thisRun} ELSE broken

\* The hub tells the pages; none, or no hub, is an error.
ReadHub(n) ==
  /\ exit = "running" /\ pc = "hub" /\ n <= shop.pages
  /\ urls' = n /\ left' = n /\ pc' = "read"
  /\ errors' = (IF n = 0 THEN errors + 1 ELSE errors)
  /\ broken' = (IF n = 0 THEN Missing ELSE broken)
  /\ UNCHANGED <<exit, started, mode, todo, items, scan_run, snapshot, report>>

ReadPage(found) ==
  /\ exit = "running" /\ pc = "read" /\ left > 0
  /\ left' = left - 1 /\ items' = items \cup found
  /\ UNCHANGED <<exit, started, mode, todo, pc, urls, errors, scan_run, snapshot, report, broken>>

PageFails ==
  /\ exit = "running" /\ pc = "read" /\ left > 0
  /\ left' = left - 1 /\ errors' = errors + 1 /\ broken' = Missing
  /\ UNCHANGED <<exit, started, mode, todo, pc, urls, items, scan_run, snapshot, report>>

PagesRead ==
  /\ exit = "running" /\ pc = "read" /\ left = 0
  /\ pc' = "store"
  /\ UNCHANGED <<exit, started, mode, todo, urls, left, items, errors, scan_run, snapshot, report,
                 broken>>

\* persist_items, a row at a time.
Store(i) ==
  /\ exit = "running" /\ mode = "server" /\ pc = "store" /\ i \in items \ StoredIn(thisRun)
  /\ snapshot' = snapshot \cup {[run |-> thisRun, item |-> i]}
  /\ UNCHANGED <<exit, started, mode, todo, pc, urls, left, items, errors, scan_run, report, broken>>

StoreFails ==
  /\ exit = "running" /\ mode = "server" /\ pc = "store" /\ items \ StoredIn(thisRun) # {}
  /\ pc' = "close" /\ errors' = errors + 1 /\ broken' = Missing
  /\ UNCHANGED <<exit, started, mode, todo, urls, left, items, scan_run, snapshot, report>>

-----------------------------------------------------------------------------
\* What persist_items returned: nothing if it failed.
Count == IF pc = "close" THEN 0 ELSE Cardinality(items)

\* Slip: what was read of some page is enough.
StatusByPages == IF Max({urls, 1}) - errors = 0 THEN "failed" ELSE "ok"

Status ==
  LET ok_urls == Max({urls, 1}) - errors IN
  IF ok_urls = 0 THEN "failed" ELSE IF errors > 0 THEN "partial" ELSE "ok"

NextShop(status, n) ==
  /\ report' = report \cup {[shop |-> current, status |-> status, items |-> n]}
  /\ todo' = todo \ {current} /\ pc' = "open"

Stored == pc = "close" \/ (pc = "store" /\ items = StoredIn(thisRun))

Close ==
  /\ exit = "running" /\ mode = "server" /\ todo # {}
  /\ Stored
  /\ scan_run' = [scan_run EXCEPT ![thisRun].status = Status, ![thisRun].seen = Count]
  /\ NextShop(Status, Count)
  /\ UNCHANGED <<exit, started, mode, urls, left, items, errors, snapshot, broken>>

\* The database fails outside persist_items: the last net.
ShopFails ==
  /\ exit = "running" /\ mode = "server" /\ todo # {}
  /\ pc = "open" \/ Stored
  /\ NextShop("failed", 0)
  /\ UNCHANGED <<exit, started, mode, urls, left, items, errors, scan_run, snapshot, broken>>

\* collect_satellite: what the server makes of it shows in its answer only.
Post(answered) ==
  /\ exit = "running" /\ mode = "satellite" /\ pc = "store"
  /\ NextShop(IF answered /\ errors = 0 THEN "ok" ELSE "failed", Cardinality(items))
  /\ UNCHANGED <<exit, started, mode, urls, left, items, errors, scan_run, snapshot, broken>>

\* problems: shops that failed in part, or that gave nothing.
Problems == {r \in report : r.status # "ok" \/ r.items = 0}

\* detect_pass and close_absent may themselves fail.
Finish(detected) ==
  /\ exit = "running" /\ todo = {}
  /\ mode = "satellite" => detected
  /\ exit' = (IF detected /\ Problems = {} THEN "ok" ELSE "failed")
  /\ UNCHANGED <<started, mode, todo, pc, urls, left, items, errors, scan_run, snapshot, report,
                 broken>>

Killed ==
  /\ exit = "running"
  /\ exit' = "died"
  /\ UNCHANGED <<started, mode, todo, pc, urls, left, items, errors, scan_run, snapshot, report,
                 broken>>

-----------------------------------------------------------------------------
CollectNext ==
  \/ \E m \in {"server", "satellite"} : StartPass(m)
  \/ Open \/ PageFails \/ PagesRead \/ StoreFails \/ Close \/ ShopFails \/ Killed
  \/ \E n \in 0..MaxPages : ReadHub(n)
  \/ \E found \in SUBSET Item : ReadPage(found)
  \/ \E i \in Item : Store(i)
  \/ \E b \in BOOLEAN : Post(b) \/ Finish(b)

CollectSpec == CollectInit /\ [][CollectNext]_collectVars

-----------------------------------------------------------------------------
\* Properties.

RunOf(i) == {r \in DOMAIN scan_run : scan_run[r].pass = started /\ scan_run[r].shop = i}

\* A run says "ok" only if every page of the shop was read and every row it read
\* was stored, "partial" only if something is missing, and one that nobody came
\* back to says "failed"; and a pass on the server ends well only if each shop
\* that is switched on has such an "ok" run with at least one row: there is no
\* silent zero, whatever failed and whenever the process died before.
RunsTruthful ==
  /\ \A r \in DOMAIN scan_run :
       /\ scan_run[r].status = "ok" =>
            r \notin broken /\ scan_run[r].seen = Cardinality(StoredIn(r))
       /\ scan_run[r].status = "partial" => r \in broken
       /\ scan_run[r].status = "failed" => scan_run[r].seen <= Cardinality(StoredIn(r))
  /\ exit = "ok" /\ mode = "server" =>
       \A i \in DOMAIN SOURCES : SOURCES[i].enabled =>
         \E r \in RunOf(i) : scan_run[r].status = "ok" /\ scan_run[r].seen > 0
=============================================================================
