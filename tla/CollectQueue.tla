---------------------------- MODULE CollectQueue ----------------------------
(***************************************************************************)
(* The lease queue of distributed collection (api/qtasks.py), the handlers *)
(* of api/main.py that drive it, and the collectors that work for it (the  *)
(* phone: CollectorService.cs, the server: collect_server.py).             *)
(*                                                                         *)
(* A task is a (source, url) pair, the unique key of table collect_task.   *)
(* Every column that holds a moment is kept relative to now():             *)
(*   due   = not_before - now          lease = leased_until - now          *)
(*   idle  = now - coalesce(last_done_at, created_at)                      *)
(* so the clock itself needs no bound.  A moment far enough in the past    *)
(* no longer changes what the code does, hence the floors and ceilings     *)
(* AgeCap and IdleCap.                                                     *)
(***************************************************************************)
EXTENDS Integers, FiniteSets

CONSTANTS
  Source,          \* shops, the keys of HTML_SOURCES
  Task,            \* (source, url) pairs
  Worker,          \* devices and processes that collect
  Label,           \* what collectors are known by: a token label or acct:<id>
  NoOne,           \* leased_by IS NULL
  Group,           \* match_key groups of store_product
  SourceOf,        \* Task -> Source
  LabelOf,         \* Worker -> Label; two phones of one account share it
  Skills,          \* Worker -> set of sources its lease request names
  Phone,           \* workers that report a failed ingest (CollectorService)
  Hub, Sitemap, Listing,   \* tasks a configuration may name
  Deep,            \* listings whose page number is DEEP_PAGE_FROM or more
  Discovering,     \* listings that match discover_re: they yield landings
  Landing,         \* pages that discovery may return
  Card,            \* product cards wanted for specifications
  GroupOf,         \* Card -> Group
  CardRank,        \* Card -> Nat, the ORDER BY inside a group
  Configs,         \* the sets of tasks HTML_SOURCES names, release by release
  Tiers,           \* value tiers that refresh_task_value may assign
  Spacing,         \* SOURCE_SPACING_MIN
  LeaseTTL,        \* LEASE_TTL_MIN
  PageRepeat,      \* PAGE_REPEAT_MIN = HUB_REPEAT_MIN
  DeepRepeat,      \* DEEP_REPEAT_MIN = SITEMAP_REPEAT_MIN
  MaxFactor,       \* the 8 of least(fail_count + 1, 8)
  Escape,          \* VALUE_ESCAPE_DAYS
  ValueRefresh,    \* VALUE_REFRESH_MIN
  Silent,          \* COLLECT_SILENT_MIN
  CardTarget,      \* CARD_PENDING_TARGET
  Limit,           \* tasks per lease, after the clamp to 1..MAX_LEASE
  AgeCap,          \* bound: how far overdue a task is told apart
  IdleCap,         \* bound: how long ago a completion is told apart
  MaxJobs          \* bound: tasks and requests in flight at a time

Configurable == Hub \cup Sitemap \cup Listing

ASSUME SetsAssumption ==
  /\ SourceOf \in [Task -> Source]
  /\ LabelOf \in [Worker -> Label] /\ NoOne \notin Label
  /\ Skills \in [Worker -> SUBSET Source] /\ Phone \subseteq Worker
  /\ Configurable \subseteq Task /\ Landing \subseteq Task /\ Card \subseteq Task
  /\ Deep \subseteq Listing /\ Discovering \subseteq Listing
  /\ GroupOf \in [Card -> Group] /\ CardRank \in [Card -> Nat]
  /\ Card \cap Configurable = {}          \* a product card is not a listing
  /\ Configs \subseteq SUBSET Configurable /\ Configs # {}

ASSUME TimesAssumption ==
  /\ Spacing \in Nat /\ LeaseTTL \in Nat /\ Escape \in Nat /\ Silent \in Nat
  /\ PageRepeat \in Nat /\ DeepRepeat \in Nat
  /\ ValueRefresh \in Nat /\ AgeCap \in Nat /\ IdleCap \in Nat
  /\ MaxFactor \in Nat \ {0} /\ CardTarget \in Nat /\ Limit \in Nat \ {0}
  /\ Tiers \subseteq 0..2 /\ 1 \in Tiers

\* What the policy constants of qtasks.py must satisfy for the pacing to work.
ASSUME PolicyAssumption ==
  /\ LeaseTTL < Spacing
  /\ Spacing <= PageRepeat /\ PageRepeat <= DeepRepeat
  /\ IdleCap > Escape /\ IdleCap > Silent /\ IdleCap >= PageRepeat * MaxFactor

VARIABLES
  wanted,      \* the tasks of the released configuration
  queue,       \* table collect_task: Task -> Row
  specs,       \* cards whose product_spec row exists
  valueAge,    \* time since app_config.task_value_refreshed_at
  jobs,        \* what collectors hold and what they have sent
  sinceLease,  \* history: time since a source was last given out
  fresh,       \* history: rows seeded since their source was last given out
  sinceOk      \* history: time since a task was last closed with success

vars == <<wanted, queue, specs, valueAge, jobs, sinceLease, fresh, sinceOk>>

-----------------------------------------------------------------------------
\* Rows.

NewRow(kind, prio, repeat, due) ==
  [kind |-> kind, prio |-> prio, repeat |-> repeat, tier |-> 1, due |-> due,
   lease |-> -1, holder |-> NoOne, status |-> "new", fails |-> 0, idle |-> 0]

NoRow == NewRow("none", 0, 0, 0)

Kind == {"hub", "sitemap", "page", "card"}

Row == [kind : Kind \cup {"none"}, prio : {0, 10, 50, 100, 200},
        repeat : {0, PageRepeat, DeepRepeat}, tier : 0..2,
        due : {d \in Int : d >= -AgeCap}, lease : -1..LeaseTTL,
        holder : Label \cup {NoOne}, status : {"new", "ok", "fail"},
        fails : 0..MaxFactor, idle : 0..IdleCap]

Job == [w : Worker, t : Task, step : {"fetch", "ingest", "fail"}, bound : BOOLEAN]

Present(r) == r.kind # "none"

Larger(a, b) == IF a >= b THEN a ELSE b
Smaller(a, b) == IF a <= b THEN a ELSE b

Sources(T) == {SourceOf[t] : t \in T}

\* task_id is a row's identity, not its url: once the row is gone, what
\* collectors hold for it matches no row, even if the url is queued again.
Unbind(J, gone) == {[j EXCEPT !.bound = @ /\ j.t \notin gone] : j \in J}

-----------------------------------------------------------------------------
\* seed_tasks, seed_card_tasks, refresh_task_value: what a lease request does
\* before it leases.

KindFor(t) == IF t \in Hub THEN "hub" ELSE IF t \in Sitemap THEN "sitemap" ELSE "page"
PrioFor(t) == IF t \in Sitemap THEN 10 ELSE 100
RepeatFor(t) == IF t \in Sitemap \cup Deep THEN DeepRepeat ELSE PageRepeat

\* The upsert of the configuration keeps the schedule and the kind of a row
\* and renews its policy; then rows with a configuration's priority that the
\* configuration no longer names are deleted.
SeededAnew(q) ==      \* slip: the schedule starts over at every seeding
  [t \in Task |->
     IF t \in wanted
       THEN IF Present(q[t])
              THEN [q[t] EXCEPT !.repeat = RepeatFor(t), !.prio = PrioFor(t), !.due = 0]
              ELSE NewRow(KindFor(t), PrioFor(t), RepeatFor(t), 0)
       ELSE IF q[t].prio \in {10, 100} THEN NoRow ELSE q[t]]

Seeded(q) ==
  [t \in Task |->
     IF t \in wanted
       THEN IF Present(q[t])
              THEN [q[t] EXCEPT !.repeat = RepeatFor(t), !.prio = PrioFor(t)]
              ELSE NewRow(KindFor(t), PrioFor(t), RepeatFor(t), 0)
       ELSE IF q[t].prio \in {10, 100} THEN NoRow ELSE q[t]]

\* The card of a group that the query offers: the first that is not queued.
CardCandidates(q) ==
  {c \in Card :
     /\ q[c].kind # "card"
     /\ \A d \in Card : GroupOf[d] = GroupOf[c] =>
          /\ d \notin specs
          /\ q[d].kind # "card" => CardRank[c] <= CardRank[d]}

CardChoices(q) ==
  LET pending == Cardinality({t \in Task : q[t].kind = "card"})
      offered == CardCandidates(q)
      need    == Larger(0, CardTarget - pending)
  IN  {C \in SUBSET offered : Cardinality(C) = Smaller(need, Cardinality(offered))}

\* ON CONFLICT DO NOTHING: a url already queued as a page stays a page.
WithCards(q, C) ==
  [t \in Task |-> IF t \in C /\ ~Present(q[t])
                    THEN NewRow("card", 200, PageRepeat, 0) ELSE q[t]]

\* Only listings (they have a slug) and cards are valued; cards get 0 or 1.
Valued(q, tier) ==
  [t \in Task |->
     CASE q[t].kind = "card"             -> [q[t] EXCEPT !.tier = Smaller(tier[t], 1)]
       [] Present(q[t]) /\ t \in Listing \cap wanted -> [q[t] EXCEPT !.tier = tier[t]]
       [] OTHER                          -> q[t]]

Valuations == IF valueAge < ValueRefresh THEN {} ELSE [Task -> Tiers]

-----------------------------------------------------------------------------
\* lease_tasks.

Ripe(q, w) ==
  {t \in Task : /\ Present(q[t]) /\ q[t].due <= 0 /\ q[t].lease < 0
                /\ SourceOf[t] \in Skills[w]}

VKey(r) == IF r.idle > Escape THEN 0 ELSE r.tier

\* ORDER BY priority, vkey, not_before.
Before(r, s) ==
  \/ r.prio < s.prio
  \/ r.prio = s.prio /\ VKey(r) < VKey(s)
  \/ r.prio = s.prio /\ VKey(r) = VKey(s) /\ r.due < s.due

\* DISTINCT ON (source): a first row of every source, ties broken anyhow.
Firsts(q, w) ==
  {t \in Ripe(q, w) : \A u \in Ripe(q, w) :
     SourceOf[u] = SourceOf[t] => ~Before(q[u], q[t])}

\* ... and of these the first Limit.
Picks(q, w) ==
  {K \in SUBSET Firsts(q, w) :
     /\ \A t, u \in K : SourceOf[t] = SourceOf[u] => t = u
     /\ Cardinality(K) = Smaller(Limit, Cardinality(Sources(Ripe(q, w))))
     /\ \A t \in K, u \in Firsts(q, w) :
          SourceOf[u] \notin Sources(K) => ~Before(q[u], q[t])}

Leased(q, K, w) ==
  [t \in Task |-> IF t \in K
                    THEN [q[t] EXCEPT !.holder = LabelOf[w], !.lease = LeaseTTL]
                    ELSE q[t]]

\* The second UPDATE: every task of the sources just given out is put off.
\* Slips: no such update; an earlier not_before overwrites a later one; the
\* pause of a lease in place of the pause of a shop.
SpreadNone(q, S) == q
SpreadOver(q, S) ==
  [t \in Task |-> IF Present(q[t]) /\ SourceOf[t] \in S
                    THEN [q[t] EXCEPT !.due = Spacing] ELSE q[t]]
SpreadShort(q, S) ==
  [t \in Task |-> IF Present(q[t]) /\ SourceOf[t] \in S
                    THEN [q[t] EXCEPT !.due = Larger(@, LeaseTTL)] ELSE q[t]]

Spread(q, S) ==
  [t \in Task |-> IF Present(q[t]) /\ SourceOf[t] \in S
                    THEN [q[t] EXCEPT !.due = Larger(@, Spacing)] ELSE q[t]]

-----------------------------------------------------------------------------
\* complete_task, complete_by_url, enqueue_pages.

\* What either completion writes; a collected card is deleted.
CloseRow(r, ok) ==
  IF ok /\ r.kind = "card" THEN NoRow
  ELSE LET factor == IF ok THEN 1 ELSE Smaller(r.fails + 1, MaxFactor)
       IN  [r EXCEPT !.holder = NoOne, !.lease = -1, !.idle = 0,
                     !.status = IF ok THEN "ok" ELSE "fail",
                     !.fails = IF ok THEN 0 ELSE factor,
                     !.due = r.repeat * factor]

\* A completion names its task by task_id and must be the holder's, or by its
\* url and must not cut into a live lease.  Slip: the latter is not asked for.
MatchesAnyUrl(q, t) == Present(q[t])

MatchesTask(q, j) == j.bound /\ q[j.t].holder = LabelOf[j.w]
MatchesUrl(q, t) == Present(q[t]) /\ q[t].lease < 0

\* Found pages wait as long as their source must.  Slip: they do not.
EnqueuedNow(q, U, repeat) ==
  [t \in Task |->
     IF t \notin U THEN q[t]
     ELSE IF Present(q[t]) THEN [q[t] EXCEPT !.repeat = repeat]
     ELSE NewRow("page", 50, repeat, 0)]

Enqueued(q, U, repeat) ==
  [t \in Task |->
     IF t \notin U THEN q[t]
     ELSE IF Present(q[t]) THEN [q[t] EXCEPT !.repeat = repeat]
     ELSE NewRow("page", 50, repeat, Spacing)]

\* Closes row t of table q when the completion matches it.
Close(q, t, hit, ok, J) ==
  /\ queue' = IF hit THEN [q EXCEPT ![t] = CloseRow(@, ok)] ELSE q
  /\ jobs' = IF hit /\ ok /\ q[t].kind = "card" THEN Unbind(J, {t}) ELSE J
  /\ fresh' = IF hit THEN fresh \ {t} ELSE fresh
  /\ sinceOk' = IF hit /\ ok THEN 0 ELSE sinceOk

-----------------------------------------------------------------------------
\* ingest_html: the handler's result for the page of task t.

IsDiscovery(t) == t \in (wanted \cap (Hub \cup Sitemap)) \cup Discovering

\* Pages found lie in the shop's own domain.
Found(t) == SUBSET {u \in Landing : SourceOf[u] = SourceOf[t]}

\* Queue and verdict after a page that the parser accepted; the other outcome,
\* ValueError, rolls everything back.
Results(t) ==
  IF IsDiscovery(t)
    THEN {[q |-> Enqueued(queue, U, IF t \in Sitemap THEN DeepRepeat ELSE PageRepeat),
           ok |-> TRUE] : U \in Found(t)}
    ELSE [q : {queue}, ok : BOOLEAN]       \* some positions, or a silent zero

SpecsAfter(t, ok) ==
  IF ok /\ ~IsDiscovery(t) /\ queue[t].kind = "card" THEN specs \cup {t} ELSE specs

-----------------------------------------------------------------------------
\* Actions.

Init ==
  /\ wanted \in Configs
  /\ queue = [t \in Task |-> NoRow]
  /\ specs = {}
  /\ valueAge = ValueRefresh
  /\ jobs = {}
  /\ sinceLease = [s \in Source |-> Spacing]
  /\ fresh = {}
  /\ sinceOk = IdleCap

Tick ==
  /\ queue' = [t \in Task |->
       IF ~Present(queue[t]) THEN queue[t]
       ELSE [queue[t] EXCEPT !.due = Larger(@ - 1, -AgeCap),
                             !.lease = Larger(@ - 1, -1),
                             !.idle = Smaller(@ + 1, IdleCap)]]
  /\ sinceLease' = [s \in Source |-> Smaller(sinceLease[s] + 1, Spacing)]
  /\ sinceOk' = Smaller(sinceOk + 1, IdleCap)
  /\ valueAge' = Smaller(valueAge + 1, ValueRefresh)
  /\ UNCHANGED <<wanted, specs, jobs, fresh>>

\* A release with another HTML_SOURCES.
Release ==
  /\ wanted' \in Configs \ {wanted}
  /\ UNCHANGED <<queue, specs, valueAge, jobs, sinceLease, fresh, sinceOk>>

\* POST /api/collect/lease, one transaction.
Lease(w) ==
  /\ \A j \in jobs : j.w = w => j.step # "fetch"
  /\ Cardinality(jobs) + Limit <= MaxJobs
  /\ \E C \in CardChoices(Seeded(queue)) :
       LET seeded == WithCards(Seeded(queue), C) IN
       \E valued \in IF Valuations = {} THEN {seeded}
                     ELSE {Valued(seeded, tier) : tier \in Valuations} :
       \E K \in Picks(valued, w) :
         /\ queue' = Spread(Leased(valued, K, w), Sources(K))
         /\ jobs' = Unbind(jobs, {t \in Task : Present(queue[t]) /\ ~Present(seeded[t])})
                    \cup [w : {w}, t : K, step : {"fetch"}, bound : {TRUE}]
         /\ sinceLease' = [s \in Source |-> IF s \in Sources(K) THEN 0 ELSE sinceLease[s]]
         /\ fresh' = {t \in Task : /\ Present(seeded[t]) /\ SourceOf[t] \notin Sources(K)
                                   /\ t \in fresh \/ ~Present(queue[t])}
  /\ valueAge' = IF Valuations = {} THEN valueAge ELSE 0
  /\ UNCHANGED <<wanted, specs, sinceOk>>

\* The collector has the page, or could not get it, and tells the server.
Fetched(j) ==
  /\ j.step = "fetch"
  /\ \E step \in {"ingest", "fail"} : jobs' = (jobs \ {j}) \cup {[j EXCEPT !.step = step]}
  /\ UNCHANGED <<wanted, queue, specs, valueAge, sinceLease, fresh, sinceOk>>

\* POST /api/ingest/html with a task_id.  A phone that does not hear the
\* answer takes the page for failed.
Ingest(j) ==
  /\ j.step = "ingest"
  /\ \E r \in Results(j.t), heard \in BOOLEAN :
       /\ Close(r.q, j.t, MatchesTask(r.q, j), r.ok,
                (jobs \ {j}) \cup IF heard \/ j.w \notin Phone THEN {}
                                  ELSE {[j EXCEPT !.step = "fail"]})
       /\ specs' = SpecsAfter(j.t, r.ok)
  /\ UNCHANGED <<wanted, valueAge, sinceLease>>

\* The same request answered 400: the transaction is rolled back, the phone
\* reports the failure, the server collector only prints it.
IngestRejected(j) ==
  /\ j.step = "ingest"
  /\ jobs' = (jobs \ {j}) \cup IF j.w \in Phone THEN {[j EXCEPT !.step = "fail"]} ELSE {}
  /\ UNCHANGED <<wanted, queue, specs, valueAge, sinceLease, fresh, sinceOk>>

\* A phone gives up waiting while its request is still on its way.
TimedOut(j) ==
  /\ j.step = "ingest" /\ j.w \in Phone
  /\ Cardinality(jobs) < MaxJobs
  /\ jobs' = jobs \cup {[j EXCEPT !.step = "fail"]}
  /\ UNCHANGED <<wanted, queue, specs, valueAge, sinceLease, fresh, sinceOk>>

\* POST /api/collect/fail; 409 when the task is not the collector's.
Fail(j) ==
  /\ j.step = "fail"
  /\ Close(queue, j.t, MatchesTask(queue, j), FALSE, jobs \ {j})
  /\ UNCHANGED <<wanted, specs, valueAge, sinceLease>>

\* A request is lost, or the collector died holding the task.
Drop(j) ==
  /\ jobs' = jobs \ {j}
  /\ UNCHANGED <<wanted, queue, specs, valueAge, sinceLease, fresh, sinceOk>>

\* The manual pass (RunAsync): pages of the plan and the landings they yield,
\* posted without a task_id.
IngestByUrl(t) ==
  /\ t \in wanted \cup Landing
  /\ \E r \in Results(t) :
       /\ Close(r.q, t, MatchesUrl(r.q, t), r.ok, jobs)
       /\ specs' = SpecsAfter(t, r.ok)
  /\ UNCHANGED <<wanted, valueAge, sinceLease>>

Next ==
  \/ Tick
  \/ Release
  \/ \E w \in Worker : Lease(w)
  \/ \E j \in jobs : \/ Fetched(j) \/ Ingest(j) \/ IngestRejected(j)
                     \/ TimedOut(j) \/ Fail(j) \/ Drop(j)
  \/ \E t \in Task : IngestByUrl(t)

Spec == Init /\ [][Next]_vars

-----------------------------------------------------------------------------
\* Properties.

\* Type invariant.
TypeOK ==
  /\ wanted \in Configs
  /\ queue \in [Task -> Row]
  /\ specs \subseteq Card
  /\ valueAge \in 0..ValueRefresh
  /\ jobs \subseteq Job
  /\ sinceLease \in [Source -> 0..Spacing]
  /\ fresh \subseteq Task
  /\ sinceOk \in 0..IdleCap

\* What the columns of a row say together.
RowsConsistent(q) ==
  \A t \in Task :
    /\ q[t].kind = "card" => t \in Card
    /\ q[t].prio \in {10, 100} => t \in Configurable
    /\ Present(q[t]) => q[t].repeat \in {PageRepeat, DeepRepeat}
    /\ ~Present(q[t]) => q[t] = NoRow

\* A row that was not added since waits for the rest of its source's pause.
Paced(t) ==
  Present(queue[t]) /\ t \notin fresh /\ sinceLease[SourceOf[t]] < Spacing
    => queue[t].due + sinceLease[SourceOf[t]] >= Spacing

\* A live lease is as old as its source's pause, or the source was given out
\* once more.
Timed(t) == queue[t].lease >= 0 => sinceLease[SourceOf[t]] + queue[t].lease <= LeaseTTL

\* The pause that a row has earned, and: it has passed or the row is not due
\* before it will have.
Penalty(r) == PageRepeat * Larger(1, r.fails)

BackedOff(t) ==
  queue[t].status # "new" =>
    queue[t].idle >= Penalty(queue[t]) \/ queue[t].due + queue[t].idle >= Penalty(queue[t])

\* A row's own success is no newer than the last one.
Recorded(t) == queue[t].status = "ok" => sinceOk <= queue[t].idle

\* Why the properties below hold: the schedule in the table keeps step with
\* what the collectors did, through every handler (the inductive invariant).
IInv ==
  /\ TypeOK
  /\ RowsConsistent(queue)
  /\ \A t \in Task : Paced(t) /\ Timed(t) /\ BackedOff(t) /\ Recorded(t)

\* The step gives task t out: only lease_tasks makes a dead lease live.
Granted(t) == queue[t].lease < 0 /\ queue'[t].lease >= 0

\* lease_tasks promises shops a pause: a source is not given out again before
\* SOURCE_SPACING_MIN has passed since it was last given out - except for a
\* row that seeding added in between, which nothing has put off.
SpacingKept ==
  [][\A t \in Task : Granted(t) /\ Present(queue[t]) /\ t \notin fresh
                       => sinceLease[SourceOf[t]] >= Spacing]_vars

\* LEASE_TTL_MIN < SOURCE_SPACING_MIN keeps two collectors from working on one
\* source at a time: with the same exception, a task is given out only when no
\* task of its source is under a live lease.
OneCollectorPerSource ==
  [][\A t, u \in Task :
       /\ Granted(t) /\ Present(queue[t]) /\ t \notin fresh
       /\ SourceOf[u] = SourceOf[t]
       => queue[u].lease < 0]_vars

\* complete_task and complete_by_url back off: a task that failed k times in a
\* row is not given out again before k of its periods (8 at most) have passed
\* since the last attempt, whoever attempted it and by whichever path; after a
\* success, before one period has.  Renewing the policy, putting a source off
\* or discovering the page once more must not shorten the pause.
BackoffKept ==
  [][\A t \in Task :
       Granted(t) /\ queue[t].status # "new"
       => queue[t].idle >= Penalty(queue[t])]_vars

\* A live lease ends before its time only by its holder's own request, or with
\* its row: neither another collector, nor a page posted without a task_id
\* (complete_by_url), nor seeding, nor an older message about a deleted row
\* takes the task from the one who works on it.
LeaseKept ==
  [][\A t \in Task :
       queue[t].lease >= 0 /\ Present(queue'[t]) /\ queue'[t].holder # queue[t].holder
       => \E j \in jobs \ jobs' :
            /\ j.t = t /\ j.bound /\ LabelOf[j.w] = queue[t].holder
            /\ j.step # "fetch"]_vars

\* The promise as the comments make it, without the exception: whatever has
\* just been added to the queue, a source is not given out before its pause.
SpacingPromised ==
  [][\A t \in Task : Granted(t) => sinceLease[SourceOf[t]] >= Spacing]_vars

\* collect_health reports a working collection when the last success it finds
\* in the queue is COLLECT_SILENT_MIN old or younger.  Slip: the last attempt.
HealthyIfTried == \E t \in Task : queue[t].status # "new" /\ queue[t].idle <= Silent

Healthy == \E t \in Task : queue[t].status = "ok" /\ queue[t].idle <= Silent

\* It does so only when a page really was collected in that time: failed
\* attempts, which also write last_done_at, do not count.
HealthTruthful == Healthy => sinceOk <= Silent
=============================================================================
