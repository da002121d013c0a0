---------------------------- MODULE PriceEvents -----------------------------
(***************************************************************************)
(* Price history and discount events: the pages that collectors post       *)
(* (ingest_html with detect_pass, one transaction), and the direct pass    *)
(* (collect.py), which runs beside them with every statement a transaction *)
(* of its own: it persists, detects product by product, and closes the     *)
(* events of products that have not been seen of late.                     *)
(***************************************************************************)
EXTENDS Detection

CONSTANTS
  Product,         \* store_product
  Item,            \* what a page may say of a product: price, old price, stock
  Fresh, Stale,    \* close_absent at the grain of days: a product seen Fresh
                   \* days ago or later is kept, one seen Stale or more is not
  MaxDay,          \* bound: the last day
  MaxSnapshots     \* bound: snapshots of a product

Day == 0..MaxDay

ASSUME PriceEventsAssumption ==
  /\ Item \subseteq [price : Nat, old : Nat, stock : BOOLEAN]
  /\ MaxDay \in Nat /\ MaxSnapshots \in Nat
  /\ Fresh \in Nat /\ Stale \in Nat /\ Fresh < Stale

VARIABLES
  today,      \* the Kyiv day
  history,    \* price_snapshot: Product -> sequence of snapshots
  events,     \* discount_event: Product -> announce_date -> row
  direct,     \* the direct pass: its step, what it still has to detect, and
              \* what it has read of a product and not yet written
  raced       \* history: products whose event the direct pass wrote by what it
              \* had read before another pass wrote theirs

vars == <<today, history, events, direct, raced>>

-----------------------------------------------------------------------------

NoEvent == [open |-> FALSE, current |-> 0, declared |-> 0, reference |-> 0,
            verified |-> 0, state |-> "none"]

Snapshot == [day : Day, price : Nat, old : Nat, stock : BOOLEAN]

Exists(e) == e.state # "none"

OpenDays(rows) == {d \in Day : rows[d].open}

Last(h) == h[Len(h)]

Seen(hist) == {p \in Product : hist[p] # <<>>}

\* persist_items: an item is a snapshot of the moment.
Persisted(hist, batch) ==
  [p \in Product |->
     IF p \in DOMAIN batch
       THEN Append(hist[p], [day   |-> today,          price |-> batch[p].price,
                             old   |-> batch[p].old,   stock |-> batch[p].stock])
       ELSE hist[p]]

Batches == UNION {[S -> Item] : S \in SUBSET Product}

Roomy(batch) == \A p \in DOMAIN batch : Len(history[p]) < MaxSnapshots

\* The day a campaign is known by: that of the open event, or else the day
\* inferred, or else the day of the latest snapshot.  Slip: the day of an open
\* event is inferred anew at every pass.
AnnounceAnew(rows, h) ==
  IF Inferred(h) # {} THEN MaxOf(Inferred(h)) ELSE Last(h).day

Announce(rows, h) ==
  IF OpenDays(rows) # {} THEN MaxOf(OpenDays(rows))
  ELSE IF Inferred(h) # {} THEN MaxOf(Inferred(h))
  ELSE Last(h).day

\* The body of detect_pass for one product: what it writes, if anything.
Finding(rows, h) ==
  LET now == Last(h)
      announce == Announce(rows, h)
  IN  IF DeclaredPct(now.price, now.old) = 0 /\ Inferred(h) = {} /\ OpenDays(rows) = {}
        THEN {}
        ELSE {[day |-> announce, badge |-> Badge(h, now.price, now.old, announce)]}

\* The upsert by (store_product_id, announce_date): a row that exists keeps
\* its ended_at.
Upserted(rows, found) ==
  [d \in Day |->
     IF \E f \in found : f.day = d
       THEN LET b == (CHOOSE f \in found : f.day = d).badge
            IN  [open      |-> Exists(rows[d]) => rows[d].open,
                 current   |-> b.current,   declared |-> b.declared,
                 reference |-> b.reference, verified |-> b.verified,
                 state     |-> b.state]
       ELSE rows[d]]

Detected(evs, hist) ==
  [p \in Product |-> IF p \in Seen(hist)
                       THEN Upserted(evs[p], Finding(evs[p], hist[p])) ELSE evs[p]]

-----------------------------------------------------------------------------

Init ==
  /\ today = 0
  /\ history = [p \in Product |-> <<>>]
  /\ events = [p \in Product |-> [d \in Day |-> NoEvent]]
  /\ direct = [step |-> "idle", todo |-> {}, read |-> {}]
  /\ raced = {}

NextDay ==
  /\ today < MaxDay
  /\ today' = today + 1
  /\ UNCHANGED <<history, events, direct, raced>>

\* validate_item: an old price that is not above the current one is dropped.
Accepted(batch) ==
  [p \in DOMAIN batch |-> IF batch[p].old > batch[p].price
                            THEN batch[p] ELSE [batch[p] EXCEPT !.old = 0]]

\* A page is posted and its positions accepted.  The pass over all products is
\* left out when another transaction is holding its advisory lock.
Ingest(batch, pass) ==
  /\ batch # <<>> /\ Roomy(batch)
  /\ history' = Persisted(history, Accepted(batch))
  /\ events' = IF pass THEN Detected(events, history') ELSE events
  /\ raced' = IF pass THEN raced \cup {r.product : r \in direct.read} ELSE raced
  /\ UNCHANGED <<today, direct>>

\* The adapters' items as they are: collect.py validates nothing.
DirectPersist(batch) ==
  /\ direct.step \in {"idle", "persist"}
  /\ batch # <<>> /\ Roomy(batch)
  /\ history' = Persisted(history, batch)
  /\ direct' = [direct EXCEPT !.step = "persist"]
  /\ UNCHANGED <<today, events, raced>>

\* The pass begins; or is left out, when the lock is held by an ingest.  Its own
\* lock ends with the statement that takes it.
DirectStart ==
  /\ direct.step \in {"idle", "persist"}
  /\ \E todo \in {Seen(history), {}} : direct' = [direct EXCEPT !.step = "detect", !.todo = todo]
  /\ UNCHANGED <<today, history, events, raced>>

DirectRead(p) ==
  /\ p \in direct.todo /\ direct.read = {}
  /\ direct' = [direct EXCEPT
       !.todo = @ \ {p},
       !.read = {[product |-> p, found |-> f] : f \in Finding(events[p], history[p])}]
  /\ UNCHANGED <<today, history, events, raced>>

DirectUpsert ==
  /\ \E r \in direct.read :
       events' = [events EXCEPT ![r.product] = Upserted(@, {r.found})]
  /\ direct' = [direct EXCEPT !.read = {}]
  /\ UNCHANGED <<today, history, raced>>

\* close_absent: events of products without a snapshot in the last 26 hours.
DirectClose ==
  /\ direct.step = "detect" /\ direct.todo = {} /\ direct.read = {}
  /\ \E gone \in SUBSET Seen(history) :
       /\ \A p \in Seen(history) :
            /\ today - Last(history[p]).day <= Fresh => p \notin gone
            /\ today - Last(history[p]).day >= Stale => p \in gone
       /\ events' = [p \in Product |->
                       IF p \in gone THEN [d \in Day |-> [events[p][d] EXCEPT !.open = FALSE]]
                       ELSE events[p]]
  /\ direct' = [direct EXCEPT !.step = "idle"]
  /\ UNCHANGED <<today, history, raced>>

Next ==
  \/ NextDay
  \/ \E batch \in Batches : DirectPersist(batch) \/ \E pass \in BOOLEAN : Ingest(batch, pass)
  \/ DirectStart \/ DirectUpsert \/ DirectClose
  \/ \E p \in Product : DirectRead(p)

Spec == Init /\ [][Next]_vars

-----------------------------------------------------------------------------

Row == [open : BOOLEAN, current : Nat, declared : 0..99, reference : Nat,
        verified : Int, state : State]

\* What the tables and the direct pass may hold: a product's snapshots are in the
\* order of their days and never ahead of today, an event is announced no later
\* than today, and a declared discount is a true share.
TypeOK ==
  /\ today \in Day
  /\ \A p \in Product :
       /\ history[p] \in Seq(Snapshot) /\ Len(history[p]) <= MaxSnapshots
       /\ \A i, j \in DOMAIN history[p] : i <= j => history[p][i].day <= history[p][j].day
       /\ \A i \in DOMAIN history[p] : history[p][i].day <= today
       /\ \A d \in Day : events[p][d] = NoEvent \/ (d <= today /\ events[p][d] \in Row)
  /\ direct.step \in {"idle", "persist", "detect"}
  /\ direct.todo \subseteq Seen(history)
  /\ Cardinality(direct.read) <= 1
  /\ \A r \in direct.read : r.product \in Seen(history) /\ r.found.day <= today
  /\ raced \subseteq Product

\* A badge says what the history says: at the announcement of a "verified" event,
\* of the provisional kind or not, the product's own history had enough prices,
\* and the price shown is below each of them by the promised share (rounded); a
\* plain "verified" also has its window covered to the end.  It holds of rows
\* written by what was read earlier, and of closed ones.
VerifiedTruthful ==
  \A p \in Product : \A d \in Day :
    LET h == history[p]
        e == events[p][d]
        before == {i \in DOMAIN h : h[i].day \in (d - WindowDays)..(d - 1) /\ Valid(h[i])}
    IN  e.state \in {"verified", "verified_provisional"} =>
          /\ Cardinality(before) >= MinProvisional
          /\ \A i \in before : Pct(h[i].price - e.current, h[i].price) >= MinVerified
          /\ e.state = "verified" =>
               /\ Cardinality(before) >= MinReference
               /\ \E i \in before : h[i].day <= d - WindowDays + 1

\* The base of an event is frozen: a row of discount_event never goes away, and
\* the price it is measured against never changes, whatever is collected and
\* whoever writes the row again.
BaseFrozen ==
  [][\A p \in Product : \A d \in Day : Exists(events[p][d]) =>
       /\ Exists(events'[p][d])
       /\ events'[p][d].reference = events[p][d].reference]_vars

\* A product has one open event at most, unless the direct pass, whose lock ends
\* with the statement that takes it, was overtaken between its reads and its write.
TwinsOnlyByRace ==
  \A p \in Product \ raced : Cardinality(OpenDays(events[p])) <= 1

\* The walk of infer_announce_day finds the campaign of the documentation: the
\* first of the discounted days that no undiscounted stretch of CampaignGap days
\* or more separates from the latest one.
CampaignStart ==
  \A p \in Product :
    LET h    == history[p]
        days == ValidDays(h)
        disc == DiscountDays(h)
        next(e)  == MinOf({d \in disc : d > e})
        apart(d) == \E e \in days \ disc : d < e /\ next(e) - e >= CampaignGap
    IN  Inferred(h) = IF days # {} /\ MaxOf(days) \in disc
                        THEN {MinOf({d \in disc : ~apart(d)})} ELSE {}

-----------------------------------------------------------------------------
\* The behaviours in which every page is followed by a pass, and nothing else runs.

PagesOnly == NextDay \/ \E batch \in Batches : Ingest(batch, TRUE)

PagesSpec == Init /\ [][PagesOnly]_vars

\* A discount that follows CampaignGap days at the undiscounted level is a new
\* campaign with an event of its own: while one runs, no event that was announced
\* on a discounted day of an earlier campaign is open.
NewCampaignAnew ==
  \A p \in Product : \A c \in Inferred(history[p]) :
    \A d \in OpenDays(events[p]) \cap DiscountDays(history[p]) : d >= c
=============================================================================
