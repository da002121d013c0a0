# Radar: specifications and proofs

TLA+ modules for the parts of this repository whose correctness depends on the order
of events or on rules that meet in many combinations: the lease queue of the distributed
collection and its transactions, the way from a shop's page to an offer, the discount
events computed from the price history, what users are told of price drops, their
accounts and codes, and the jobs of the server: seals of the days, direct collection,
watchdog, migrations, rate limiter. Paths below are relative to the repository.

## 1. The system

The service watches the prices of some thirty shops and says of a discount whether the
shop's own history supports it. *Collectors* (phones of the owner and of users, and one
server process) fetch pages of the shops and post them; the API parses them, appends
prices to a history, and computes a badge for every product; users read, watch and are
told of drops; every full day of the history is sealed by a Merkle root.

| part | source | state | operations | who calls it |
|---|---|---|---|---|
| lease queue | `api/qtasks.py` | table `collect_task` | seed, seed cards, revalue, lease, complete by id, complete by url, enqueue | handlers |
| handlers | `api/main.py:1075-1196` | none of their own; one transaction per request | `collect_lease`, `collect_fail`, `ingest_html`, `ingest` | collectors |
| collectors | `app-maui/Services/CollectorService.cs`, `collect_server.py` | the tasks in hand | queue pass, manual pass | timers, the button |
| ingest | `api/ingest.py` | `scan_run`, `product_spec` | validate, persist, card specifications, discovery | handlers |
| price history | `db/store.py` | `store_product`, `price_snapshot` | `persist_items` (append) | ingest, direct collection |
| price events | `detection/core.py`, `detection/runner.py` | `discount_event` | `detect_pass`, `close_absent` | ingest, direct collection |
| direct collection | `collect.py` | `scan_run` | pass over the shops, satellite pass; persist, detect, close: every statement a transaction | timer, operator |
| page plan, shelves | `api/ingest.py`, `taxonomy.py` | `store_product.category` | `source_listings`, `collect_plan`, discovery, `refine_category` | leases, ingest |
| adapters | `adapters/*.py`, `api/ingest.py:1554-1660` | none | `extract`, `validate_item`, `ingest_batch` | ingest, direct collection |
| day seals | `merkle.py`, `seal.py` | `day_seal` | seal all full days | timer |
| accounts | `api/main.py`, `api/db.py:880-1054` | `app_user`, `admin_audit` | register, roles, bans, deletion | users, administrators |
| account codes | `api/db.py:714-880` | `account_token` | send, verify, reset | users |
| watch lists, alerts | `api/db.py:1056-1243`, `alerts.py` | `watchlist`, `alert_sent` | add, remove, list drops, acknowledge, mail pass | users, timer |
| watchdog | `scripts/alert_collect.py` | `ops_alert` | `decide` | timer |
| rate limiter | `api/ratelimit.py` | attempts per address, in memory | `check`, sweep | handlers |
| matching | `matching.py`, `match_key` of migration 0016 | none | key of a product by bar code or factory code | ingest, offers |
| choice | `choice/*.py`, `product_offers` | none | choose a shop | handlers |
| migrations | `db/migrate.py` | `schema_migration` | apply in order | deployment |
| search, SEO, mail, Telegram, apps' screens, probes | | none, or a view of stored rows | pure functions, rendering, I/O | |

How they interact. A collector calls `collect_lease`; in one transaction the handler
seeds the queue from the configuration, adds cards, revalues tasks if that was long ago,
and leases one ripe task per shop. The collector fetches each page and posts it to
`ingest_html`, again one transaction: parse; for a hub or sitemap put the landings it
names into the queue; for a page append snapshots and run `detect_pass`; then close the
task, by id, or by url if it is a page of the manual pass. A request that fails is
rolled back whole. The direct collection writes the same tables beside all this without
transactions of its own.

What is hard about it, and what would make it correct:

* **Queue.** Many writers of one row: seeding, two paths of completion, discovery,
  leases that run out while their holder works, answers that are not heard, labels shared
  by the phones of an account. Correct when a shop is not visited by two collectors at a
  time nor sooner than the pause; a live lease is not taken away; a failing page backs
  off; every page is attempted again and again; the health report does not call a dead
  collection alive.
* **Price events.** A fold over an ever growing history, written again at every pass by
  two kinds of writers. Correct when a badge agrees with the history at its
  announcement; the base of an event never moves; a product has one open event; a
  campaign has one first day, and campaigns apart in time are told apart.
* **Lease transactions.** Two lease statements, or a lease and a discovery,
  interleave under READ COMMITTED. Correct when no task is granted twice, no lease is
  ended by another's page, and leases do not wait for each other in a circle.
* **Alerts.** List, send, mark, acknowledge, with prices moving in between and
  a crash after the mail. Correct when no drop is acknowledged that nobody was told of,
  and a failed mail is tried again.
* **Seals.** Correct when a sealed root matches the rows of its day for ever, and the
  seals are one chain, with late commits, two runs at once and runs that stop.
* **Accounts.** Checks are made before anything is locked, changes under row locks, the
  audit through foreign keys. Correct when the last active administrator is not lost
  but by requests that overtake each other, nobody acts after his own account is gone, a
  moderator reaches users only, and requests do not wait in circles.
* **Codes.** Correct when a spent code stays spent, misses are counted although the
  request that reports them fails, and an old code does not outlive a newer one.
* **Pages to offers.** Some thirty adapters, five ways of planning pages, three ways of
  naming a product. Correct when nothing is stored but what a card says, no good
  card is lost, a product stands on the shelf it was last seen on, no collector leaves
  the shop's site, two products never share a key, and the shop chosen is not worse than
  another in everything that counts.
* **Jobs.** Correct when a run never says that all is well after something was lost, the
  operator is not kept in the dark, a migration takes effect once, and the limiter lets
  no more through than it should, whatever dies in between.

## 2. Modules

| module | models | |
|---|---|---|
| `CollectQueue` | queue, handlers, collectors | detailed specification and its properties |
| `CollectQueueLive` | the same with fairness | liveness |
| `ShopVisits` | what the queue promises a shop | abstract specification |
| `CollectQueueVisits` | the mapping of the one to the other | refinement |
| `CollectQueueProofs` | | theorems about the queue, and that it implements `ShopVisits` |
| `MCCollectQueue` | | instances for TLC |
| `Detection` | `detection/core.py` | operators |
| `PriceEvents` | `persist_items`, `detect_pass`, `close_absent`, and who calls them | specification and properties |
| `MCPriceEvents` | | instances for TLC |
| `LeaseTx` | `collect_lease` and `ingest_html` as transactions | specification at the grain of rows and locks |
| `PriceAlerts`, `MCPriceAlerts` | watch list, readers, mail pass | specification and properties; instance |
| `Merkle` | `merkle.py` | operators |
| `DayLedger` | what the seals promise to who keeps a copy | abstract specification |
| `DaySeal` | `seal.py`, and the transactions it reads beside | specification and properties, its mapping to `DayLedger` |
| `Accounts` | roles, bans, deletions, the audit | specification at the grain of statements and locks |
| `AccountCodes` | `create_token`, `consume_token`, `update_password` | the same, for codes |
| `ShopPages` | 30 adapters and the server's checks | one operator per adapter |
| `Catalogue` | page plan, discovery, `ingest_html`, `refine_category` | specification and properties |
| `Matching` | `matching.py`, `match_key` | operators over two shops' listings |
| `Choice` | `product_offers`, `our_choice`, `pick` | operators over the offers of a product |
| `DirectCollect` | `collect.py` | specification and properties |
| `CollectWatchdog` | `scripts/alert_collect.py` | specification and properties |
| `Migrations` | `db/migrate.py` | specification and properties |
| `RateLimiter` | `api/ratelimit.py` | specification and properties |
| `PriceEventsProofs`, `PriceAlertsProofs`, `LeaseTxProofs`, `DaySealProofs` | | theorems about the module of that name |
| `SignInProofs` | | theorems about `AccountCodes` and `RateLimiter` |
| `ServerProofs` | | theorems about `Accounts`, `CollectWatchdog`, `Migrations` and `DirectCollect` |
| `OffersProofs` | | theorems about `ShopPages`, `Catalogue`, `Choice` and `Matching` |
| `MCTransactions` | `LeaseTx`, `Accounts` | side by side, for TLC |
| `MCOffers` | `PriceEvents`, `ShopPages`, `Catalogue`, `Matching`, `Choice` | side by side, for TLC |
| `MCServer` | `DaySeal`, `AccountCodes`, `RateLimiter`, `CollectWatchdog`, `Migrations`, `DirectCollect` | side by side, for TLC |

The last three modules put components that share no state next to each other: a variable
`part` says which of them runs, the others stay as they begin. Nothing of one is in the
guards of another, so that the behaviours of a part are those of its module alone, and
one run of TLC checks them all. They extend the modules that state assumptions and have
theorems, so that TLC checks the very definitions that the theorems are about and
evaluates every assumption.

### CollectQueue

A task is a (source, url) pair and a row of `queue`, or `NoRow`. The columns that hold
moments are kept relative to now: `due` is `not_before - now`, `lease` is
`leased_until - now` (-1 when it has run out or is NULL), `idle` is the time since
`last_done_at`. `Tick` is the passage of time. So the clock has no bound; only how far
into the past moments are told apart has one (`AgeCap`, `IdleCap`), beyond which the code
makes no distinction that the properties see, except the order by `not_before` among rows
overdue by more than `AgeCap`, where the model lets a tie be broken either way.

| action | code |
|---|---|
| `Lease(w)` | `collect_lease`: `seed_tasks`, `seed_card_tasks`, `refresh_task_value`, `lease_tasks`, in this order, one transaction |
| `Ingest(j)` | `ingest_html` with a `task_id`: enqueue discoveries, or accept or find nothing (a silent zero), store a card's specification, `complete_task` |
| `IngestRejected(j)` | the same answered 400: everything rolled back |
| `IngestByUrl(t)` | `ingest_html` without a `task_id` (manual pass): `complete_by_url` |
| `Fail(j)` | `collect_fail` |
| `Fetched(j)`, `TimedOut(j)`, `Drop(j)` | the collector has or has not the page; it stops waiting while its request is on the way; a request or a collector is lost |
| `Release` | a deployment with another `HTML_SOURCES` |

`jobs` holds what collectors have in hand and what they have sent. A job's `bound` says
that the row it was leased from is still there, for `task_id` names a row and not a url.
What the parser makes of a page is an outcome chosen freely. `sinceLease`, `fresh` and
`sinceOk` are history variables: no action reads them.

### Detection, PriceEvents

`Detection` is `detection/core.py` operator by operator; prices are whole numbers and
percentages are compared exactly, as `Decimal` does. The backward loop of
`infer_announce_day` is a recursive function over days.

`PriceEvents` has the history of snapshots per product and the rows of `discount_event`
per product and day. `Ingest(batch, pass)` is a posted page, with its pass or without it
(another transaction holds the advisory lock). The direct pass of `collect.py` is in
autocommit mode, so each of its statements is an action: `DirectPersist`, `DirectStart`,
`DirectRead`, `DirectUpsert`, `DirectClose`. The lock that `detect_pass` takes lasts for
the transaction, hence here for one statement, and does not keep a page's pass from
running between a read and its write. `raced` is a history variable: the products for
which that happened.

Abstractions: the three reads of one product by the direct pass are one step; snapshots
are ordered as they are committed (a transaction that commits after midnight what it
stamped before belongs to the seals); `close_absent` looks back 26 hours, which at the
grain of days always keeps today's products, never those of three days ago, and may do
either in between.

### LeaseTx

The queue's actions take a request as one step. `LeaseTx` is one round of requests taken
apart: a statement begins (`Statement`) with a snapshot of what is committed, comes to
its rows one after the other (`Touch`), waits for a row that another transaction has
locked, and asks its conditions of the row as it then is, which is how Postgres runs an
UPDATE under READ COMMITTED. `CommitTx` and `AbortTx` (the `lock_timeout` of `db/pool.py`, or
the deadlock detector) end a transaction. The order in which a statement comes to its
rows is free, except for the upserts of `seed_tasks` and `enqueue_pages`, which loop over
a list. The round starts from a table in any state and is too short for a row to ripen or
a lease to run out.

`AtomicLease` says in what sense the one step of `CollectQueue!Lease` is right: seen from
the table it commits to, a lease gives out ripe rows nobody held and puts all rows of
their shops off. What it does not say is that it gives out as many as `Picks` would: of
two requests at once, the second may be left with fewer than it could have had. Because
every lease first comes to all configured rows in one order, leases are in fact served
one at a time (`CircleNeedsDiscovery` has no circle among them), and one that waits for
more than ten seconds is answered with an error.

### PriceAlerts

One user. A *pair* is a watch and a product that it is about; `memory` is what the
database remembers per pair (`last_notified_kop` and `last_notified_at`, or a row of
`alert_sent`); `told` is what the user has really read. `Show`, `Ack` and `Leave` are the
account page and the phone; `Compose`, `Send`, `Note` and `Fail` are the letter of one
user within a pass of `alerts.py`, which may die after each. Acknowledgements name
watches, so `Acked` is a set of pairs and `Recorded` the price that gets written:
that of the moment for a product, that of the letter for a query. `raced` is the history
variable that marks pairs for which the two differ. Left out: category news, the list of
Telegram users, `LIMIT 20` on the hits of a query.

### Merkle, DaySeal

A hash is the one-element sequence that holds what was hashed, so that concatenation,
pairing the odd node with itself and the chain are computed as in the code and nothing
collides. Levels of the tree, places of a leaf in them and the climb of a proof are
recursive functions (`Levels`, `Places`, `Climbed`), so that they can be proved about.
`DaySeal` has transactions that stamp rows with the time of their beginning and
commit later (`AppendPage`, `CommitPage`), and runs of `seal.py`, one action per statement:
`ListDays`, `ReadRows`, `ReadChain`, `InsertSeal`, with `StopRun` anywhere, at the primary
key too.
A transaction lasts at most `MaxLag`, a day in the run. `early` is a history variable:
the days that a run has read while rows of theirs were not yet committed. The timer
starts at 01:20, so that this takes a run by hand right after midnight or a transaction
of more than an hour.

`DayLedger` is the abstract specification: a book in which a day is entered once, behind
the others, with all that it holds. `SealsKeepLedger` maps the one to the other: what a
day holds are the leaves of its committed rows, an entry is a seal, and the days somebody
looked into too soon are `early`.

### Accounts, AccountCodes

Both take the requests apart into statements, as `LeaseTx` does, and any number of
requests follow one another on the workers of the thread pool. A request sees what is
committed and its own changes; a statement that changes a row waits for whoever has
changed it.

`Accounts`: the gate (`Ask`), the target (`ReadTarget`) and the number of other
administrators (`CountAdmins`) are read without a lock; `Write` changes or deletes the
row; `Audit` inserts into `admin_audit`, whose foreign keys lock actor and target FOR KEY
SHARE, which a deletion waits for and a change of role does not. A deletion writes the
audit first. `late` is a history variable: another request has committed since this one's
last check.

`AccountCodes`: `Retire` and `Insert` are `create_token`, a row at a time; `Look`, `Take`,
`Charge` and `Charging` are `consume_token`; `Clear` and `Clearing` the second UPDATE of
`update_password`. The WHERE of an UPDATE that has waited is evaluated again, but a
subquery in it is not (see finding 5). `Active` leaves out what had run out when the
request began, for `now()` is that moment. `Ended` keeps the miss: `consume_token`
commits it before its caller raises.

### ShopPages, Catalogue, Matching, Choice

`ShopPages`: a card is what it shows: a price, a crossed-out price, and a mark that sets
it apart (in or out of stock, in a slider, for prescription, without a title or link, of another
host, or bare: with no node of its own for the current price). Each of the adapters is an operator from a card to an item; of a page's items
`Extract` keeps those at the first place of their product, `IngestBatch` is the server's check and `scan_run`'s status. The
two adapters of the direct collection go past that check. CSS selectors, addresses and
titles are abstracted to the conditions under which the code leaves a card out.

`Catalogue`: five shops stand for the ways a row of `HTML_SOURCES` describes one.
`SourceListings` and `CollectPlan` make the tasks, `IngestHtml` is what a page of links
or of products does, `SitemapLocs`, `Discover` and `Landings` say which links become
tasks, `ShelfFor` which category is written. A title is the set of words that
`refine_category` asks for.

`Matching`: a bar code is its digits, with the check sum computed; a word of a title is
its length, its letters, its digits and the few facts that the expressions ask for. The
check sum is written out over the thirteen places a code may have before its last digit,
and the words that a rule finds are sets of places, so that both can be reasoned about.
`Discerned` says what keys by code rest on: the rules accept a code, or a word, just if it
is one product's own, and nothing of another product's is written the same.

`Choice`: everything in whole numbers, with the rounding of `Decimal` (half to even); the
weights are those of migration 0159. Shops are numbered by their names.

### DirectCollect, CollectWatchdog, Migrations, RateLimiter

`DirectCollect` is one pass of `collect.py` after another: a shop's run is opened
(`Open`, as failed), its hub and pages are read or not (`ReadHub`, `ReadPage`,
`PageFails`), rows are stored one by one (`Store`, `StoreFails`), and the run is closed
with a status; in satellite mode the items are posted. It may die anywhere (`Killed`).

`CollectWatchdog`: `Pass(state, way)` is one turn of the timer whose message arrives, is
lost, or arrives before the process dies; `Skip` is a turn that was missed. `told` is what
the operator has really heard.

`Migrations`: `Deploy` brings a script, in any order of numbers; `Start` reads what is
listed, `RunScript` and `List` are the two transactions of each script, `Die` comes in
between. A script that has taken effect fails when it runs again, unless it is written
so that it may. `torn` marks scripts whose run died between the two.

`RateLimiter`: a thread reads the clock (`Begin`) before it takes the lock (`Check`, the
sweep of idle addresses included), so that attempts may come out of the order of their
times, by as much as a thread waits (`Skew`). `passed` is a history variable, the attempts
let through.

## 3. Runs

| run | properties | instance and what it shows |
|---|---|---|
| `queue_two_shops` | `HealthTruthful`, `IInv`, `VisitsSpec` | two shops, two labels, hub, landing, card, three requests in flight. Health is reported truthfully, the inductive invariant holds, and the queue implements `ShopVisits` while the configuration does not change |
| `queue_release` | `SpacingKept`, `OneCollectorPerSource`, `BackoffKept`, `LeaseKept` | one shop, two phones of one account, two configurations in turn: a page is named, dropped, discovered and named again while it is leased |
| `queue_live` | `EveryPageAttempted` | sitemap, deep listing and landing of a shop with time for all: none is starved |
| `queue_fresh` | `SpacingPromised` | violated: finding 1 |
| `queue_tail` | `TailNotStarved` | violated: finding 2 |
| `price_campaign` | `NewCampaignAnew` | violated: finding 3 |
| `transactions` | `CircleNeedsDiscovery`, `AtomicLease`, `CloseKeepsLease` | two leases, a hub's page, a card's page without `task_id`; two shops; every initial table, up to who last held a landing that is free (nothing here asks) |
| | `AdminLostOnlyLate`, `ActorOutlivesAction`, `ModeratorWithinReach`, `CircleNeedsDeletions` | three accounts of any roles, two requests at a time, any number after one another |
| `price_alerts` | `NewsPending`, `NoRepeat`, `MailPause` | one product under two watches, three prices, one page, one mail pass, letters with room for one of the two |
| `alerts_unseen` | `NothingUnseen` | violated: finding 4 |
| `pages_to_offers` | `VerifiedTruthful`, `TwinsOnlyByRace`, `BaseFrozen` | `PriceEvents`: four days, four snapshots, two of a day, four kinds of items: usual, dropped, barely dropped with a high old price, out of stock; pages and the direct pass |
| | `CampaignStart` | all histories of five snapshots on six days at three prices |
| | `OnlyWhatIsShown`, `NothingLost` | every page of two cards, for each of 30 adapters |
| | `OnItsShelf`, `OwnSiteOnly` | five shops, any page of the plan after any other, up to two links on it, or a product with any two telling words |
| | `NeverMixed`, `KeysMeet` | two products or one, in two shops, with any two of eleven codes and eleven words between them |
| | `ChoiceIsSound` | two shops with any rule of delivery and any record, three pages between them |
| `server_jobs` | `ProofsVerify`, `ChainLinear`, `SealsKeepLedger` | `DaySeal`: three full days of one moment each, a transaction that takes a day, pages of one and of three rows, up to five rows, two transactions, two runs |
| | `OneGoodCode`, `MissesCounted`, `SpentStaysSpent`, `ResetSpendsAll` | two codes of any kinds (of two that differ the reset's first, as kinds do not meet), two requests at a time, two attempts per code |
| | `WindowKept` | two addresses, two threads that wait for a second at most, two attempts per four seconds, a sweep at every other |
| | `SilenceBounded` | nine turns of the timer, a reminder every third |
| | `OnceUnlessTorn` | three scripts, one of which may run again, four starts |
| | `RunsTruthful` | two passes over a shop of two pages, one of one page, and one that only the satellite reads |
| `code_twice` | `TakenOnce` | violated: finding 5 |

What they show. *An administrator* is lost only if requests overtake each other after
their checks; that this may happen is in the model. No two administrators delete each other, for the
audit's foreign keys make one of them wait and fail. Requests wait in a circle only where
a deletion is among them: it holds the actor's row and wants the target's. *Codes*: a
newer code retires the older ones unless the two are sent at the same time; a miss counts
whatever becomes of the request. *Pages*: nothing is stored but what a card shows of that
very product, `Stylus` aside, whose prices are told apart by size alone, and the bare cards of
`Autopresent`, of which the crossed-out number is stored as the price (section 5); a card that can
be sold is not lost, unless an earlier card of the same product could not be stored, or
it passes on an old price that is out of range. *Shelves*: the last page decides, and
words of the title correct what a campaign's landing says. *Keys*: different products
never meet, two known cases aside (section 5), and shops that say the same meet. *Runs*
never say more than what happened: there is no silent zero, whatever failed. *The limiter*
lets no more through than it should, except that by a hair, the time that a thread waits for
the lock after it has read the clock, an attempt may be forgotten too early.

Bounds. The queue's times keep the order of the real ones
(`LEASE_TTL_MIN` 10 < `SOURCE_SPACING_MIN` 15 < `PAGE_REPEAT_MIN` 1440 <
`DEEP_REPEAT_MIN` 2880) with the values 1 < 2 <= 2 < 3: a lease can run out before the
pause ends, the pause before the period, and the second failure's pause is told from the
first one's. Two tasks of one shop suffice for the pause between them, a third row for a
second shop; two collectors for a late answer of one in the lease of another, and
`MaxJobs` leaves room for one request more than there are leases. Event histories are long
enough for a base, a drop, a return and a second drop, and the windows (3 and 2 days)
shorter than the histories, so that prices leave them. `CampaignStart` has six days
because the walk differs from its simpler variants only from the fifth on. `queue_tail`
and the price runs bound days or snapshots, after which behaviours end: deadlock is
checked for the queue and the alerts, whose clocks always tick, and not where days, rounds,
cards, codes or passes run out.

`transactions` needs the second lease and one other transaction of each kind, for every
property is about two of them; its three rows are one of each kind (configured, landing,
card) in two shops. Three accounts are two administrators and somebody between them; a
circle and every property about accounts take two requests, and as requests follow each other
without bound, longer histories are in it. `price_alerts` has three prices, for a fall, a
second fall and a rise, a `MIN_HOURS` of one hour, which only has to be told from none,
and `MAX_ITEMS` of one, so that two things to say do not fit. `server_jobs` reaches trees
of five leaves, the least with an odd level above the leaves, and the seal of a third day,
over two that stand before it; two codes are the one that is typed and the newer one that
retires it; five seconds are a window, its end and
a sweep by a thread that is ahead; three scripts are one that is done, one that
fails and one behind it. Pages have two cards because every rule of the adapters is about
a card or about two cards of one product (or of a slider); the numbers shown are zero, two in
range and one out of it. A zero is shown on the first card only, and pages that begin
with the second product are left out as mirror images.

Fairness (`LiveSpec`). Time passes (`LiveTick`), an idle collector asks
(`LiveLease`: `collect_server.py:132-153` sleeps and asks again; the phone's worker is
periodic), and a collector goes on with what it holds (`Work`: a loop over the leased
tasks, `CollectorService.cs:107-123`). Each is weakly fair, none strongly. `LiveTick`
waits while an idle collector could be given a task or a lease would run out unanswered:
the behaviours are those of collectors that are awake and answer in time. Nothing is said
of how a fetch ends: it may fail every time, and `EveryPageAttempted` is about attempts.

## 4. Theorems

`CollectQueueProofs` proves for every number of shops, tasks, collectors and requests,
and all times with `LeaseTTL < Spacing <= PageRepeat <= DeepRepeat`:

* `Invariance`: `IInv` always holds. `TypeOK` alone is not inductive: that seeding
  deletes or keeps a row of the right kind depends on what a row's columns say together
  (`RowsConsistent`: only cards have kind card, only rows of a configuration have its
  priorities, an absent row is `NoRow`), and for that a card must not be a page of the
  configuration (`SetsAssumption`).
* `TypeCorrect`: types, with `fail_count` capped.
* `SpacingHolds`: by `Paced`: a row that was not seeded since its shop was last given
  out is not due before the pause ends. Every path that writes `not_before` (spreading,
  completion, discovery) writes a moment late enough, or a later one than there was.
* `OneCollectorHolds`: by `Timed`: a live lease is no older than the shop's pause, and
  the lease's time is shorter.
* `BackoffHolds`: by `BackedOff`: the pause earned by `fail_count` failures has passed or
  the row is not due before it has.
* `HealthHolds`: by `Recorded`: a row's success is no newer than the last real one.
* `LeaseHolds`: a live lease changes hands only by a request of its holder or with its
  row; a step-by-step argument over the shapes of the actions.

The proof has three layers: each operator keeps the table's type; each keeps
`RowsConsistent`; then the shape of a step on the schedule (what each action may do to a
row's `due`, `lease`, `idle`, `fails`), from which the four parts about rows follow, one
case per action.

The assumptions are those of `CollectQueue` (`SetsAssumption`, `TimesAssumption`,
`PolicyAssumption`); TLC evaluates them in every run. `LeaseTTL < Spacing` is what the
comment at `qtasks.py:20` says of the two constants.

`CollectQueueProofs` also proves the refinement, step by step:

* `SpacedVisits`: as long as `SpacingPromised` holds, the queue implements `ShopVisits`
  with `gap <- sinceLease` and the page of the one live lease for `visit`. That there is
  one is `OneLive`, an invariant that follows from spacing and `LeaseTTL < Spacing`.
* `SettledSpacing`: in a settled system (one configuration, one card per group, and all
  cards fit into the queue) the pause of 15 minutes is kept for every row, fresh ones
  included, though `queue_fresh` shows that in general it is not: the first request that
  gives anything out has put all there is to collect into the queue.
* `VisitsHolds`: hence a settled queue implements `ShopVisits`.

`PriceEventsProofs` proves for any products, prices, windows and thresholds:

* `Invariance`: types; every row of `discount_event` says what the history says
  (`Sound`); one open event per product unless passes raced (`Alone`).
* `VerifiedHolds`, `BaseHolds`: the history before an announcement is closed when the
  event is written, for snapshots are stamped with the day of their commit; so the base
  computed anew at each pass is the base stored, and a verified badge stays true.
* `TwinsHold`: a second open event takes a pass that ran between a read and a write of
  another.
* `CampaignHolds`: the backward walk of `infer_announce_day` finds the day that the
  documentation defines, for histories of any length: an invariant of the walk, carried
  down the days by well-founded induction.

`PriceAlertsProofs` proves for any products, watches, readers and prices: `Invariance`
(types; what is on its way is of rows that are there; the reader was told of every price
that he was shown or sent; memory lies between what he was told and what was recorded),
and from it `NewsHolds`, `RepeatHolds` and, for one pass at a time, `PauseHolds`.

`LeaseTxProofs` proves for any number of shops, tasks and requests:

* `Invariance`: a row that nobody has locked is as committed (`RowsSound`); what a lease
  or a post has made of the rows that it has locked (`LeaserSound`, `PostSound`).
* `AtomicHolds`: the argument that `CollectQueue` rests on. The first row of the
  configuration, which every lease comes to first, keeps leases apart from then on; what
  posts may do to rows meanwhile makes none of them ripe.
* `CloseHolds`: a post ends no lease but its poster's own.
* `CircleHolds`: without discoveries there is always somebody in a set of requests who
  waits for nobody in it.

`DaySealProofs` proves for days of any length, transactions of up to a day, pages of any
length and any number of overlapping runs:

* `Invariance`: the seals are chained, and each day before a sealed one is sealed or has
  no rows; a run has listed every day that it must not pass over; its link is the last one
  unless its day is already sealed, so that of two runs at a day one fails at the primary
  key; what it read are the rows of the day for ever, unless it read early. A transaction
  lasts `MaxLag`, a day at most, so that a day with something open is yesterday, and no row
  comes to a day before.
* `ChainHolds`: the seals are one chain in the order of the days, and no day is passed over.
* `ProofsHold`: the path of every row of a sealed day verifies. For this the tree is
  proved about for any number of leaves: every level is half of the one below, a step of
  the path goes from a node to the node above it, and the last level is the root; by
  induction over recursive functions, with the least counterexample in place of a scheme.
* `LedgerKept`: the seals implement `DayLedger`. That `InsertSeal` is `Enter` needs the
  whole invariant: what the run read must still be what the day holds, and its link the
  last one, at the moment at which it inserts. That every other step is a `Write`, a
  `Doubt` or a stutter needs that nothing comes to a day up to the last one sealed.
* `SealedForGood`: hence a copy of a seal stays good; no step changes a seal or, unless it
  was read early, the rows it is of.

`ServerProofs` has four parts. It proves of the watchdog, for every `RemindAfter` and any
number of turns:

* by an invariant, that the row never knows of a message that was not sent
  (`row.lastSent <= told.at`). It is what makes `SilenceBounded` inductive: only if the
  row lags behind what was told does silence come to an end.
* `SilenceHolds`: the operator who does not know of an outage was told something else
  less than `RemindAfter` ago, or his message was lost just now.
* `NoNaggingHolds`: messages of one outage are `RemindAfter` apart, unless the row did
  not hear of the first or collection came back in between.

of the migrations, for any scripts with any numbers:

* by an invariant, that the runner, which goes by what was listed when it began, is at a
  script that is deployed and not listed, everything that it has listed itself has a lower
  number, and everything deployed with a lower number is listed. `OnceUnlessTorn` alone
  is not inductive: that a script runs but once needs this.
* `OnceHolds`: a script has taken effect as often as it is listed, torn ones aside.
* `OrderHolds`: no script takes effect before the ones with lower numbers have.

  Both rest on the next script being the least of those that are not done.

of the direct collection, for any list of shops, any pages and any number of passes:

* `RunsHold`: what the rows of `scan_run` say is so, and a pass that ends well has an
  honest run with rows for every shop that is switched on. By `Reported`: what a pass has
  noted of a shop is backed by a row of that pass, and what is still to be done is the
  rest of the list.

and of the accounts, for any number of them and of requests at a time:

* `Invariance`: `IInv` always holds. Its parts are: a request names two accounts, or one whose
  owner leaves (`Named`); it has changed no row but its target's, from what is committed,
  and only after its checks (`Held`); once it has written its audit entry it holds both
  rows (`Keyed`); a held row is there, and a deleted one is held by none but its deleter
  (`Kept`); what it has found of its target and of the other administrators is still so
  unless it is `late` (`Fresh`).
* `TypeCorrect`: types, and that a row nobody has changed is as committed.
* `ActorHolds`: whoever changes, bans or deletes another account is there when that is
  committed; by `Keyed` and `Kept`.
* `AdminHolds`: the last active administrator is lost only by a request that was
  overtaken after its last check; by `Fresh`.
* `ModeratorHolds`: a moderator reaches nobody above a user, unless overtaken; by `Fresh`.
* `CircleHolds`: a circle of waiting requests has a deletion in it. By `Held`, whom a change
  of role or a ban waits for is at its audit, and an audit waits for deletions only.

`SignInProofs` proves of the codes, for any number of codes and of requests at a time:
`OneCodeHolds`, `MissesHold`, `SpentHolds`, `ResetHolds`. The invariant says what a
request has made of the rows that it holds (`Held`), what it has still to spend and what
it has found (`Asked`), and that codes being sent at once know of each other
(`Abreast`). And of the limiter, for any number of threads and addresses:

* `LimiterInvariance`: what is remembered of an address is the end of what was let
  through, `Limit` attempts at most, and what was forgotten is out of the window of
  whoever comes, however late.
* `WindowHolds`: hence `Limit` attempts in a row take a window, but for two times the wait
  for the lock: one by which a sweep may be ahead, one by which the next thread may be
  late. TLC finds the bound reached.

`OffersProofs` has four parts. It proves of the pages, for pages of any length and cards
with any numbers on them:

* `OnlyShown`: what is stored of a page is what a card of it shows of that product, within
  the range of prices, each product once; of the two shops that are an exception, of
  `Autopresent`'s bare card exactly the crossed-out number, without an old price
  (`CrossedOutReadWell`). It rests on a lemma for each group of adapters
  (`ReadGroups`), that it makes no number a card does not show, and on `Extract` keeping
  one place of each product.
* `NothingIsLost`: a card that is to be sold is stored, unless an earlier card of the same
  product cannot be. Here the least place counts, and for the shop whose page has two
  listings, that the greater one is taken (`GridAndRest`).

of the shelves, for any products and any number of links:

* by an invariant, that whatever the collectors are sent for is a page of the plan or
  was found on one (`TaskKnown`): listings of the plan, whose address gives the category;
  campaigns and products only of shops that have a category of their own; and a product's
  shelf is what the page it was last seen on and its title make of it.
* `ShelfHolds`: hence it stands on the shelf of that page, but for what its title says.
* `OwnSiteHolds`: no other site is visited. AddUa's `discover` does not look at the host
  of a link; `ingest_html` does, after it, and that is what the invariant needs.

of the choice, for any shops, prices, delivery rules and records of discounts:

* `ChoiceHolds`. There is a best candidate, as `Better` is a total order and finitely many
  shops have a greatest in any such order (`FirstOfAll`). Rounding to even is monotone
  (`RoundedFacts`), so that who is cheaper and no worse otherwise has no lower a score, and
  the tie-break by price decides. And at 7/4 of the lowest price the loss in 0.70 for the
  price is no less than the 0.25 and 0.05 that honesty and pick-up add at most.

and of the keys, for any products, codes and words, and listings of any length:

* `WrittenInAnyLength`: of two bar codes that say the same, in any two lengths, the server
  makes the same key or refuses both, if neither is a shop's own code written out longer
  (`Padded`). The check sum goes by places from the right, so that noughts before do not
  matter (`CheckSame`), and a code that is written out longer than another begins with a
  nought, so that a range of a shop's own codes would be the shorter one's
  (`RestrictedLonger`). `KeyTellsCode` is the converse: one key, one code.
* `DifferentNeverMixed` and `SameMeet`: `NeverMixed` and `KeysMeet` hold wherever the rules
  discern the codes and words that there are (`Discerned`). That is a premise, about the
  world and the regular expressions, not about the program's state: TLC evaluates it for
  the codes and words of the instance (`CodesDiscerned`), among them misprinted codes,
  codes of the shop's own, sizes, slogans and models common to variants. What the proof
  adds is that it is enough, whatever is listed and in whatever order: the least valid
  key is there, as keys are totally ordered (`LessTotal`, `LessTransitive`, `Picked`), so
  that it does not depend on who says it first; a title's code is always a word that the
  rules take (`MpnTaken`); and a key of digits is never one of letters (`KeysApart`).

The assumptions are named in the modules that declare the constants, and TLC evaluates
all of them. Most say of what kind a constant is. These say more: `LeaseTTL < Spacing`;
`RoundAssumption`, that a product's card is no hub; `SealAssumption`, that a transaction
lasts no longer than a day; `WatchdogAssumption`, that `RemindAfter` is positive;
`LimiterAssumption`, that no window is longer than `_MAX_WINDOW_S`; `AccountAssumption`
and `CodeAssumption`, that nobody is somebody; `PagesAssumption`, that the least price
taken is above zero; `ChoiceAssumption`, that no more discounts are pumped up than there
are and that delivery costs nothing below zero; `MatchingAssumption`, that a code is a
sequence of digits. `PauseHolds` has one pass at a time as a
premise: with two it is false (section 5); `DifferentNeverMixed` and `SameMeet` have
`Discerned`.

Checked and not proved. `EveryPageAttempted`: liveness, fairness and ENABLED are out of
the prover's reach. It is the only property of a passing run that
no theorem states.
`TypeOK` of the queue is the first conjunct of `IInv`, which `queue_two_shops` checks and
`TypeCorrect` proves. `TypeOK` of `PriceEvents` and `PriceAlerts` is documentation: no run
spends a property on it; the proofs have types of their own.

## 5. Findings

1. *A shop's fresh task does not wait* (`queue_fresh`). `qtasks.py:8-9` promises at least
   15 minutes between requests to one shop. Rows that `seed_card_tasks` or `seed_tasks`
   insert have `not_before = now()`, so that the next card of a shop is given out right
   after the last one was. The properties that hold exempt exactly these rows (`fresh`).
2. *The escape from starvation only ties* (`queue_tail`). `VALUE_ESCAPE_DAYS` raises an
   old page to the top tier, where `not_before` decides; but putting the shop off after
   every visit makes `not_before` of its ripe rows equal, and the tie may go against the
   old page for ever.
3. *A second campaign is written into the event of the first* (`price_campaign`).
   `05-detektsiya.md:187` has a new event after `campaign_gap_days` at the usual price.
   Nothing closes an event by that rule, and `detect_pass` prefers the day of an open
   event, whatever `infer_announce_day` finds.

4. *A fall that nobody was shown is acknowledged* (`alerts_unseen`). The page and the phone
   acknowledge after showing, so that nothing vanishes unseen (`web/me.html:157-159`,
   `PriceWatchService.cs:39`), but they name watches and not prices, and
   `ack_price_drops` records the price of the moment (`db.py:1158`). `NewsPending` and
   `NoRepeat` hold but for the pairs for which this happened.

5. *A code is taken twice* (`code_twice`). `db.py:765-767` says that two requests at
   once do not both spend a code. The condition `used_at IS NULL` is in a subquery only,
   which is not evaluated again when the UPDATE has waited for the other request.
   `SpentStaysSpent` is what holds.

Seen while modelling, without a run of their own.

*Events.* Once an event is open it is badged at every pass, so a return to the usual
price makes it *pumped* with no old price at all, while `api/db.py:229` says of *pumped*
that the old price is too high; the upsert that meets an ended row keeps `ended_at`;
`announce_confirm_points` is read and never used, so one broken snapshot opens an event,
against `05-detektsiya.md:48`; the advisory lock of `detect_pass` does not protect the
direct pass (`TwinsOnlyByRace` says what then happens and that nothing else opens a second
event).

*Alerts.* Two passes at once both write (`MailPause` is violated with two passes), though
`deploy/hetzner/setup.sh:244` says that a superfluous start harms nobody; removing a watch
removes the memory of the letter about it; `_recent_alert` counts an acknowledgement from
the phone or of a category as a letter, so that acknowledgements every few hours hold a
query's hits back; a query's watch that is removed while its letter is on its way makes
the INSERT into `alert_sent` fail and ends the pass for all users that follow; two
requests at once may add a watch twice, there being no unique index, and `db.py:1061` says
that it is not duplicated; a watch added before the first snapshot has nothing to compare
with until it is removed and added again; the pass reads all consents when it begins.

*Seals.* `merkle.py:42-43` and `test_empty_day_still_sealed` want a day without
observations sealed too, but `unsealed_days` lists days that have rows; a day read early
keeps a root that the answers of `/api/verify/proof` no longer match, and nothing reports
it.

*Pages.* `validate_item` refuses an item whose old price is out of range, although the
current price is good, and seven adapters pass old prices on as they are
(`OldPassedOn`); the docstring and the comment of `adapters/autopresent.py` (27-28, 81)
have a card without `.price-new` read from the text of `.price` with the nodes `.price-tax`
and `.price-old` cut out, but the loop at line 83 cuts out the tax only, so that the
crossed-out number, which comes first, is stored as the current price, or, where it is out
of range, refused after `extract` has remembered the product, and a later good card of it is lost
(`CrossedOut`, `Unreadable`); a card with a price of zero hides a later good card of the same product,
because `extract` remembers the product before the server refuses it; `Interatletika`
does not read the mark of what is out of stock; the direct path stores a price of zero
(`adapters/pethouse.py:50`).

*Keys.* `matching.py:152-153` says that a short Samsung model without the full code gives
no key, but one in parentheses does; `matching.py:89-94` refuses the shop's own codes that
begin with 2, but the same code written as EAN-13 with a leading 0 is taken (`Padded`,
`ModelInParens` in `Matching`).

*Choice.* `choice/core.py:94-95` breaks a tie in favour of the last name, not the first;
`our_choice` ignores whether the page of a shop is of a used product.

*Shelves.* The English *headset* is not among the words that make an accessory audio, so
that only the Ukrainian name takes a headset from the phones.

*Direct collection.* A `persist_items` that fails half-way leaves snapshots of a run that
says zero items; the satellite counts an answer that accepted nothing as success.

## 6. Not modelled

Search and transliteration are functions of their input with no order of events. SEO
pages, `queue_stats` and the lists only read. Changes of `detection_config` within a
behaviour are left out; so is anything about clocks of different machines, all moments
being the database's. Mail and Telegram are services outside, and the code around them is
I/O and the check of a signature; the applications' screens show what the API answers;
`probe.py`, `healthcheck.py` and the backup's alarm print a report and keep nothing.

Of modelled parts: the categories' news and the list of Telegram users of the alerts, and
`LIMIT 20` on the hits of a query; the details of a card's own page (`parse_card`,
`clean_attrs`), which are string functions; the pet shelves of `categorize`; the regular
expressions that cut titles into words; an empty price that is the number zero and not the text
(`adapters/dniprom.py:71`) and brackets within the texts of `Podorozhnyk`'s state; what the 178 migrations do, except whether a
second run of one fails.

## 7. Plan

1. Proofs: an abstract specification of the watchdog's outages that `CollectWatchdog`
   implements.
2. `PriceAlerts` over the categories' news, and an abstract specification of a notifier
   that it implements.
3. The read side of the events: what lists show while the passes run.
