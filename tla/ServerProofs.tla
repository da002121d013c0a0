----------------------------- MODULE ServerProofs -----------------------------
(***************************************************************************)
(* The jobs that timers and deployments start: what the runner of          *)
(* migrations keeps to, for any scripts with any numbers; how long the     *)
(* operator may be kept in the dark, for every length of the reminder; and *)
(* what the rows of a direct collection say, for any list of shops.  Each  *)
(* may be started any number of times and die anywhere.                    *)
(*                                                                         *)
(* And what the audit's foreign keys guarantee for any number of accounts  *)
(* and of requests under way: whoever changes another account is still     *)
(* there when the change is committed.                                     *)
(***************************************************************************)
EXTENDS Accounts, Migrations, CollectWatchdog, DirectCollect, FiniteSetTheorems,
        SequenceTheorems, WellFoundedInduction, TLAPS

-----------------------------------------------------------------------------
\* The runner of migrations.

ScriptTypes ==
  /\ files \subseteq Version /\ listed \subseteq Version
  /\ done \subseteq Version /\ torn \subseteq Version
  /\ effect \in [Version -> Nat]
  /\ at \in [version : Version \cup {NoVersion}, ran : BOOLEAN]
  /\ at.version = NoVersion => ~at.ran

\* The runner is at a script that is not listed, although it only looks at what
\* was listed when it began: what it has listed since has lower numbers.
Running ==
  at.version # NoVersion =>
    /\ at.version \in files \ done /\ done \subseteq listed
    /\ \A v \in listed \ done : v < at.version
    /\ \A u \in files : u < at.version => u \in listed

Effects ==
  /\ \A v \in listed : effect[v] > 0
  /\ at.ran => effect[at.version] > 0

ScriptsInv == ScriptTypes /\ Running /\ Effects /\ OnceUnlessTorn

-----------------------------------------------------------------------------
\* Every set of numbers has a least one, which Min picks.
LEMMA MinIsLeast ==
  ASSUME NEW S, S \subseteq Nat, S # {}
  PROVE  Min(S) \in S /\ \A n \in S : Min(S) <= n
  <1>1. PICK m \in S : \A n \in S : ~(<<n, m>> \in OpToRel(<, Nat))
    BY NatLessThanWellFounded, WFMin
  <1>2. ASSUME NEW n \in S PROVE m <= n
    <2>1. n \in Nat /\ m \in Nat
      OBVIOUS
    <2>2. <<n, m>> \notin {p \in Nat \X Nat : p[1] < p[2]}
      BY <1>1 DEF OpToRel
    <2>3. ~(n < m)
      BY <2>1, <2>2
    <2> QED BY <2>1, <2>3
  <1>3. \E x \in S : \A n \in S : x <= n
    BY <1>2
  <1> QED BY <1>3 DEF Min

\* The script that comes next is the first, above the one named, of those that
\* are not done.
FirstAbove(F, D, x) == LET S == {v \in F \ D : v > x} IN IF S = {} THEN NoVersion ELSE Min(S)

\* The next script is the least of those that are above x and not done.
LEMMA FirstIsFirst ==
  ASSUME NEW F \in SUBSET Version, NEW D, NEW x \in Version \cup {NoVersion}
  PROVE  /\ FirstAbove(F, D, x) \in Version \cup {NoVersion}
         /\ FirstAbove(F, D, x) # NoVersion =>
              /\ FirstAbove(F, D, x) \in F \ D /\ x < FirstAbove(F, D, x)
              /\ \A u \in F : x < u /\ u < FirstAbove(F, D, x) => u \in D
  <1> DEFINE S == {v \in F \ D : v > x}
  <1>0. Version \subseteq Nat
    BY MigrationAssumption
  <1>1. S \subseteq Nat /\ F \subseteq Nat /\ x \in Int
    <2>1. F \subseteq Nat
      BY <1>0
    <2>2. S \subseteq Nat
      BY <2>1
    <2>3. x \in Int
      BY <1>0 DEF NoVersion
    <2> QED BY <2>1, <2>2, <2>3
  <1>2. CASE S = {}
    <2>1. FirstAbove(F, D, x) = NoVersion
      BY <1>2 DEF FirstAbove
    <2> QED BY <2>1
  <1>3. CASE S # {}
    <2>1. FirstAbove(F, D, x) = Min(S)
      BY <1>3 DEF FirstAbove
    <2>2. Min(S) \in S /\ \A n \in S : Min(S) <= n
      <3> HIDE DEF S
      <3> QED BY <1>1, <1>3, MinIsLeast
    <2> DEFINE m == Min(S)
    <2>3. m \in F \ D /\ m \in Nat /\ x < m
      BY <2>2, <1>1
    <2>4. ASSUME NEW u \in F, x < u, u < m PROVE u \in D
      BY <2>2, <2>3, <2>4, <1>1
    <2> HIDE DEF m, S
    <2>5. FirstAbove(F, D, x) = m
      BY <2>1 DEF m
    <2> QED BY <2>3, <2>4, <2>5
  <1> QED BY <1>2, <1>3

\* Nothing is deployed, nothing runs.
LEMMA ScriptsInit ==
  ASSUME MigrationsInit
  PROVE  ScriptsInv
  BY DEF MigrationsInit, ScriptsInv, ScriptTypes, Running, Effects, OnceUnlessTorn, Off, NoVersion

\* Every step of the runner and every death keeps the invariant.
LEMMA ScriptsNext ==
  ASSUME ScriptsInv, [MigrationsNext]_migrationVars
  PROVE  ScriptsInv'
  <1>0. NoVersion \notin Version /\ Version \subseteq Nat /\ NoVersion \in Int
    BY MigrationAssumption DEF NoVersion
  <1>1. ASSUME NEW v \in Version, Deploy(v) PROVE ScriptsInv'
    BY <1>1, <1>0 DEF Deploy, ScriptsInv, ScriptTypes, Running, Effects, OnceUnlessTorn, Off
  <1>2. CASE Start
    <2> DEFINE next == NextPending(NoVersion)
    <2>1. /\ next \in Version \cup {NoVersion}
          /\ next # NoVersion =>
               /\ next \in files \ listed
               /\ \A u \in files : u < next => u \in listed
      <3>1. next = FirstAbove(files, listed, NoVersion)
        BY <1>2 DEF Start, NextPending, FirstAbove
      <3>3. files \in SUBSET Version /\ NoVersion \in Version \cup {NoVersion}
        BY DEF ScriptsInv, ScriptTypes
      <3>2. \A u \in files : NoVersion < u
        BY <1>0 DEF ScriptsInv, ScriptTypes, NoVersion
      <3> HIDE DEF next
      <3> QED BY <3>1, <3>2, <3>3, FirstIsFirst
    <2>2. /\ done' = listed /\ at' = [version |-> next, ran |-> FALSE]
          /\ at = Off /\ UNCHANGED <<files, effect, listed, torn>>
      BY <1>2 DEF Start
    <2> HIDE DEF next
    <2>3. ScriptTypes'
      BY <2>1, <2>2 DEF ScriptsInv, ScriptTypes
    <2>4. Running'
      BY <2>1, <2>2 DEF Running
    <2>5. Effects' /\ OnceUnlessTorn'
      BY <2>2 DEF ScriptsInv, Effects, OnceUnlessTorn, Off
    <2> QED BY <2>3, <2>4, <2>5 DEF ScriptsInv
  <1>3. CASE RunScript
    <2> DEFINE v == at.version
    <2>1. v \in Version /\ v \in files \ done /\ v \notin listed /\ ~at.ran
      <3>1. v # NoVersion /\ ~at.ran
        BY <1>3 DEF RunScript
      <3>2. v \in Version /\ v \in Nat
        BY <3>1, <1>0 DEF ScriptsInv, ScriptTypes
      <3>3. v \in files \ done /\ \A u \in listed \ done : u < v
        BY <3>1 DEF ScriptsInv, Running
      <3>4. ~(v < v)
        BY <3>2
      <3> QED BY <3>1, <3>2, <3>3, <3>4
    <2>2. CASE FailsAgain(v)
      <3>1. at' = Off /\ UNCHANGED <<files, listed, done, torn, effect>>
        BY <1>3, <2>2 DEF RunScript
      <3>2. ScriptTypes' /\ Running' /\ Effects'
        BY <3>1, <1>0 DEF ScriptsInv, ScriptTypes, Running, Effects, Off
      <3>3. OnceUnlessTorn'
        BY <3>1, <2>1 DEF ScriptsInv, ScriptTypes, OnceUnlessTorn, Off
      <3> QED BY <3>2, <3>3 DEF ScriptsInv
    <2>3. CASE ~FailsAgain(v)
      <3>1. /\ at' = [version |-> v, ran |-> TRUE]
            /\ effect' = [effect EXCEPT ![v] = @ + 1]
            /\ UNCHANGED <<files, listed, done, runs, torn>>
        BY <1>3, <2>3 DEF RunScript, ScriptsInv, ScriptTypes
      <3>2. ScriptTypes'
        <4>1. effect \in [Version -> Nat] /\ v # NoVersion
          BY <2>1, <1>0 DEF ScriptsInv, ScriptTypes
        <4>2. effect[v] + 1 \in Nat
          BY <4>1, <2>1
        <4> HIDE DEF v
        <4>3. effect' \in [Version -> Nat]
          BY <3>1, <4>1, <4>2
        <4> QED BY <3>1, <4>1, <4>3, <2>1 DEF ScriptsInv, ScriptTypes
      <3>3. Running'
        BY <3>1 DEF ScriptsInv, Running
      <3>4. Effects'
        BY <3>1, <2>1 DEF ScriptsInv, ScriptTypes, Effects
      <3>5. OnceUnlessTorn'
        <4> SUFFICES ASSUME NEW u \in Version \ torn
                     PROVE  effect'[u] = IF u \in listed \/ u = v THEN 1 ELSE 0
          BY <3>1 DEF OnceUnlessTorn
        <4>1. effect[u] = IF u \in listed THEN 1 ELSE 0
          BY <2>1 DEF ScriptsInv, OnceUnlessTorn
        <4> QED BY <4>1, <3>1, <2>1 DEF ScriptsInv, ScriptTypes
      <3> QED BY <3>2, <3>3, <3>4, <3>5 DEF ScriptsInv
    <2> QED BY <2>2, <2>3
  <1>4. CASE List
    <2> DEFINE v == at.version
               next == NextPending(v)
    <2>1. /\ v \in Version /\ v \in files \ done /\ at.ran
          /\ done \subseteq listed /\ effect[v] > 0
          /\ \A u \in listed \ done : u < v
          /\ \A u \in files : u < v => u \in listed
      <3>1. at.ran /\ v # NoVersion
        BY <1>4 DEF List, ScriptsInv, ScriptTypes
      <3>2. v \in Version
        BY <3>1 DEF ScriptsInv, ScriptTypes
      <3> QED BY <3>1, <3>2 DEF ScriptsInv, Running, Effects
    <2>2. /\ listed' = listed \cup {v} /\ done' = done
          /\ at' = [version |-> next, ran |-> FALSE]
          /\ UNCHANGED <<files, effect, torn>>
      BY <1>4 DEF List
    <2>3. next = FirstAbove(files, done, v)
      BY <2>2 DEF NextPending, FirstAbove
    <2>4. files \in SUBSET Version /\ listed \subseteq Version /\ v \in Version \cup {NoVersion}
      BY <2>1 DEF ScriptsInv, ScriptTypes
    <2> HIDE DEF next, v
    <2>5. /\ next \in Version \cup {NoVersion}
          /\ next # NoVersion =>
               /\ next \in files \ done /\ v < next
               /\ \A u \in files : v < u /\ u < next => u \in done
      BY <2>3, <2>4, FirstIsFirst
    <2>6. ScriptTypes'
      BY <2>1, <2>2, <2>4, <2>5 DEF ScriptsInv, ScriptTypes
    <2>7. Running'
      <3> SUFFICES ASSUME next # NoVersion
                   PROVE  /\ next \in files \ done /\ done \subseteq listed'
                          /\ \A u \in listed' \ done : u < next
                          /\ \A u \in files : u < next => u \in listed'
        BY <2>2 DEF Running
      <3>1. v \in Nat /\ next \in Nat /\ files \subseteq Nat /\ listed \subseteq Nat
        BY <2>1, <2>4, <2>5, <1>0
      <3>2. \A u \in files : u < next => u < v \/ u = v \/ (v < u /\ u < next)
        BY <3>1
      <3>3. \A u \in listed' \ done : u < next
        BY <2>1, <2>2, <2>5, <3>1
      <3> QED BY <2>1, <2>2, <2>5, <3>2, <3>3
    <2>8. Effects'
      BY <2>1, <2>2 DEF ScriptsInv, Effects
    <2>9. OnceUnlessTorn'
      <3> SUFFICES ASSUME NEW u \in Version \ torn
                   PROVE  effect[u] = IF u \in listed' THEN 1 ELSE 0
        BY <2>2 DEF OnceUnlessTorn
      <3>1. at = [version |-> v, ran |-> TRUE]
        BY <2>1 DEF ScriptsInv, ScriptTypes, v
      <3>2. at = [version |-> u, ran |-> TRUE] <=> u = v
        BY <3>1
      <3>3. effect[u] = IF u \in listed \/ u = v THEN 1 ELSE 0
        BY <3>2 DEF ScriptsInv, OnceUnlessTorn
      <3> QED BY <3>3, <2>2
    <2> QED BY <2>6, <2>7, <2>8, <2>9 DEF ScriptsInv
  <1>5. CASE Die
    <2>1. /\ at' = Off /\ UNCHANGED <<files, effect, listed, done>>
          /\ torn' = IF at.ran THEN torn \cup {at.version} ELSE torn
          /\ at.version \in Version
      BY <1>5 DEF Die, ScriptsInv, ScriptTypes
    <2>2. ScriptTypes' /\ Running' /\ Effects'
      BY <2>1, <1>0 DEF ScriptsInv, ScriptTypes, Running, Effects, Off
    <2>3. OnceUnlessTorn'
      BY <2>1 DEF ScriptsInv, ScriptTypes, OnceUnlessTorn, Off
    <2> QED BY <2>2, <2>3 DEF ScriptsInv
  <1>6. CASE UNCHANGED migrationVars
    BY <1>6 DEF migrationVars, ScriptsInv, ScriptTypes, Running, Effects, OnceUnlessTorn
  <1> QED BY <1>1, <1>2, <1>3, <1>4, <1>5, <1>6 DEF MigrationsNext

\* Where the runner stands among the scripts, whatever has died before (apply).
THEOREM ScriptsInvariance == MigrationsSpec => []ScriptsInv
  <1>1. MigrationsInit => ScriptsInv
    BY ScriptsInit
  <1>2. ScriptsInv /\ [MigrationsNext]_migrationVars => ScriptsInv'
    BY ScriptsNext
  <1> QED BY <1>1, <1>2, PTL DEF MigrationsSpec

\* A script has taken effect once if it is listed and not at all if it is not,
\* unless a run died between its effect and its row (apply).
THEOREM OnceHolds == MigrationsSpec => []OnceUnlessTorn
  <1>1. ScriptsInv => OnceUnlessTorn
    BY DEF ScriptsInv
  <1> QED BY <1>1, ScriptsInvariance, PTL

\* No script takes effect before all deployed ones with lower numbers have, and
\* are listed: one that fails stops those after it (apply).
THEOREM OrderHolds == MigrationsSpec => NoScriptAhead
  <1> DEFINE Step == \A v \in Version : effect'[v] # effect[v] =>
                       \A u \in files : u < v => effect[u] > 0 /\ u \in listed
  <1>1. ScriptsInv /\ [MigrationsNext]_migrationVars => Step
    <2> SUFFICES ASSUME ScriptsInv, [MigrationsNext]_migrationVars, NEW v \in Version, effect'[v] # effect[v],
                        NEW u \in files, u < v
                 PROVE  effect[u] > 0 /\ u \in listed
      OBVIOUS
    <2>1. RunScript
      BY DEF MigrationsNext, Deploy, Start, List, Die, migrationVars
    <2>2. at.version = v /\ at.version # NoVersion
      BY <2>1 DEF RunScript, ScriptsInv, ScriptTypes
    <2> QED BY <2>2 DEF ScriptsInv, Running, Effects
  <1>2. ScriptsInv /\ [MigrationsNext]_migrationVars => [Step]_migrationVars
    BY <1>1
  <1> QED BY <1>2, ScriptsInvariance, PTL DEF MigrationsSpec, NoScriptAhead

-----------------------------------------------------------------------------
\* The watchdog of collection.

Messages == {"down", "reminder", "recovered"}

\* The row never knows of a message that was not sent, and may not know of the
\* last one: the pass that sent it died.
WatchInv ==
  /\ now \in Nat
  /\ row \in [state : {Nothing, "ok", "down"}, lastSent : Nat \cup {Never}]
  /\ told \in [kind : Messages \cup {Nothing}, at : Nat \cup {Never}]
  /\ pass \in [sent : Messages \cup {Nothing}, way : {"quiet", "ok", "lost", "dies", "skipped"}]
  /\ row.lastSent <= told.at /\ told.at < now
  /\ told.kind = Nothing <=> told.at = Never
  /\ SilenceBounded

\* What a row without a message says is before every moment.
LEMMA NeverIsBeforeAll ==
  /\ Never \in Int /\ RemindAfter \in Nat \ {0}
  /\ \A t \in Nat : Never < t
  BY WatchdogAssumption DEF Never

\* The watchdog begins with nothing told and nothing remembered.
LEMMA WatchInit ==
  ASSUME WatchdogInit
  PROVE  WatchInv
  BY NeverIsBeforeAll DEF WatchdogInit, WatchInv, SilenceBounded, Nothing, Outage, Messages

\* What decide says, and when.
LEMMA Decisions ==
  ASSUME WatchInv, NEW state \in {"ok", "down"}
  PROVE  /\ Decide(state, now) \in Messages \cup {Nothing}
         /\ Decide(state, now) \in Outage => state = "down"
         /\ Decide(state, now) = "recovered" => state = "ok"
         /\ Decide(state, now) = Nothing /\ state = "down" => row.state = "down" /\ ~Reminds(now)
         /\ Decide(state, now) = "reminder" => Reminds(now)
  BY DEF WatchInv, Decide, Messages, Outage, Nothing

\* Every turn of the timer keeps the invariant.
LEMMA WatchNext ==
  ASSUME WatchInv, [WatchdogNext]_watchdogVars
  PROVE  WatchInv'
  <1>0. /\ Never \in Int /\ RemindAfter \in Nat \ {0}
        /\ \A t \in Nat : Never < t
    BY NeverIsBeforeAll
  <1>1. ASSUME NEW state \in {"ok", "down"}, NEW way \in {"ok", "lost", "dies"},
               Pass(state, way)
        PROVE  WatchInv'
    <2> DEFINE kind == Decide(state, now)
               out == kind # Nothing /\ way \in {"ok", "dies"}
    <2>1. /\ kind \in Messages \cup {Nothing}
          /\ kind \in Outage => state = "down"
          /\ kind = "recovered" => state = "ok"
          /\ kind = Nothing /\ state = "down" => row.state = "down" /\ ~Reminds(now)
      BY Decisions
    <2>2. /\ now' = now + 1
          /\ kind = Nothing => way = "ok"
          /\ told' = IF out THEN [kind |-> kind, at |-> now] ELSE told
          /\ row' = IF way = "dies" THEN row
                    ELSE [state |-> state, lastSent |-> IF out THEN now ELSE row.lastSent]
          /\ pass' = [sent |-> kind, way |-> IF kind = Nothing THEN "quiet" ELSE way]
      BY <1>1 DEF Pass
    <2> HIDE DEF kind
    <2>3. /\ now' \in Nat
          /\ row' \in [state : {Nothing, "ok", "down"}, lastSent : Nat \cup {Never}]
          /\ told' \in [kind : Messages \cup {Nothing}, at : Nat \cup {Never}]
          /\ pass' \in [sent : Messages \cup {Nothing},
                        way : {"quiet", "ok", "lost", "dies", "skipped"}]
      BY <2>1, <2>2, <1>0 DEF WatchInv
    <2>4. row'.lastSent <= told'.at /\ told'.at < now'
      BY <2>2, <1>0 DEF WatchInv
    <2>5. told'.kind = Nothing <=> told'.at = Never
      BY <2>1, <2>2, <1>0 DEF WatchInv
    <2>6. SilenceBounded'
      <3> SUFFICES ASSUME row'.state = "down", told'.kind \notin Outage,
                          pass'.way \in {"quiet", "ok"}
                   PROVE  told'.at # Never /\ now' - 1 - told'.at < RemindAfter
        BY DEF SilenceBounded, Outage
      <3>1. kind = Nothing
        <4>1. CASE way = "ok"
          BY <4>1, <2>1, <2>2 DEF WatchInv, Messages, Outage
        <4>2. CASE way # "ok"
          BY <4>2, <2>2
        <4> QED BY <4>1, <4>2
      <3>2. state = "down" /\ told' = told
        BY <3>1, <2>2
      <3>3. row.lastSent # Never /\ now - row.lastSent < RemindAfter
        BY <3>1, <3>2, <2>1, <1>0 DEF Reminds, WatchInv
      <3> QED BY <3>2, <3>3, <2>2, <1>0 DEF WatchInv
    <2> QED BY <2>3, <2>4, <2>5, <2>6 DEF WatchInv
  <1>2. CASE Skip
    BY <1>2, <1>0 DEF Skip, WatchInv, SilenceBounded, Nothing, Messages
  <1>3. CASE UNCHANGED watchdogVars
    BY <1>3 DEF watchdogVars, WatchInv, SilenceBounded
  <1> QED BY <1>1, <1>2, <1>3 DEF WatchdogNext

\* What the row remembers of messages lags behind what was sent (main).
THEOREM WatchInvariance == WatchdogSpec => []WatchInv
  <1>1. WatchdogInit => WatchInv
    BY WatchInit
  <1>2. WatchInv /\ [WatchdogNext]_watchdogVars => WatchInv'
    BY WatchNext
  <1> QED BY <1>1, <1>2, PTL DEF WatchdogSpec

\* Whoever is not told of an outage was told something else less than a
\* reminder's time ago, or his message has just been lost (decide, main).
THEOREM SilenceHolds == WatchdogSpec => []SilenceBounded
  <1>1. WatchInv => SilenceBounded
    BY DEF WatchInv
  <1> QED BY <1>1, WatchInvariance, PTL

\* Reminders of one outage come no more often than they should, as long as the
\* row knows of the last message (decide).
THEOREM NoNaggingHolds == WatchdogSpec => NoNagging
  <1> DEFINE Step == told' # told /\ told'.kind = "reminder" /\ told.kind # Nothing
                       => told'.at - told.at >= RemindAfter \/ row.lastSent # told.at
  <1>1. WatchInv /\ [WatchdogNext]_watchdogVars => Step
    <2> SUFFICES ASSUME WatchInv, [WatchdogNext]_watchdogVars, told' # told, told'.kind = "reminder",
                        told.kind # Nothing, row.lastSent = told.at
                 PROVE  told'.at - told.at >= RemindAfter
      OBVIOUS
    <2>1. PICK state \in {"ok", "down"}, way \in {"ok", "lost", "dies"} : Pass(state, way)
      BY DEF WatchdogNext, Skip, watchdogVars
    <2>2. told' = [kind |-> Decide(state, now), at |-> now]
      BY <2>1 DEF Pass
    <2>3. Reminds(now)
      BY <2>2, Decisions
    <2> QED BY <2>2, <2>3, NeverIsBeforeAll DEF Reminds, WatchInv
  <1>2. WatchInv /\ [WatchdogNext]_watchdogVars => [Step]_watchdogVars
    BY <1>1
  <1> QED BY <1>2, WatchInvariance, PTL DEF WatchdogSpec, NoNagging
-----------------------------------------------------------------------------
\* The direct collection.

Statuses == {"failed", "partial", "ok"}
RunRow == [pass : Nat, shop : DOMAIN SOURCES, status : Statuses, seen : Nat]

PassTypes ==
  /\ started \in Nat /\ todo \subseteq DOMAIN SOURCES /\ items \subseteq Item /\ errors \in Nat
  /\ exit \in {"never", "running", "ok", "failed", "died"}
  /\ pc \in {"open", "hub", "read", "store", "close"}
  /\ scan_run \in Seq(RunRow)
  /\ \A s \in snapshot : s.run \in DOMAIN scan_run /\ s.item \in Item
  /\ broken \subseteq DOMAIN scan_run

RowTruthful(r) ==
  /\ scan_run[r].status = "ok" => r \notin broken /\ scan_run[r].seen = Cardinality(StoredIn(r))
  /\ scan_run[r].status = "partial" => r \in broken
  /\ scan_run[r].status = "failed" => scan_run[r].seen <= Cardinality(StoredIn(r))

\* A shop is under way: its run is the last one and still says "failed", it is
\* broken if something has gone wrong, and only a failure may leave rows out.
UnderWay ==
  exit = "running" /\ pc # "open" =>
    /\ todo # {}
    /\ mode = "server" =>
         /\ thisRun \in DOMAIN scan_run
         /\ scan_run[thisRun] = [pass |-> started, shop |-> current, status |-> "failed", seen |-> 0]
         /\ errors > 0 <=> thisRun \in broken
         /\ pc = "close" => errors > 0

\* What a report says that a shop gave, its run of this pass says too, and every
\* shop that was to be collected is reported or still to come.
Backed(s) ==
  s.status = "ok" /\ s.items # 0 =>
    \E r \in RunOf(s.shop) : scan_run[r].status = "ok" /\ scan_run[r].seen > 0

Reported ==
  exit \in {"running", "ok"} /\ mode = "server" =>
    /\ \A i \in Taken("server") : i \in todo \/ \E s \in report : s.shop = i
    /\ \A s \in report : Backed(s)
    /\ exit = "ok" => todo = {} /\ Problems = {}

PassInv ==
  /\ PassTypes /\ UnderWay /\ Reported
  /\ \A r \in DOMAIN scan_run : RowTruthful(r)

LEMMA CurrentShop ==
  ASSUME PassTypes, todo # {}
  PROVE  current \in todo /\ current \in DOMAIN SOURCES
  <1>1. DOMAIN SOURCES \subseteq Nat
    BY CollectAssumption, LenProperties
  <1>2. current \in todo
    BY <1>1, MinIsLeast DEF PassTypes, current
  <1> QED BY <1>2 DEF PassTypes

\* Sets of items can be counted.
LEMMA Counts ==
  ASSUME NEW S, S \subseteq Item
  PROVE  Cardinality(S) \in Nat
  BY CollectAssumption, FS_Subset, FS_CardinalityType
LEMMA PassInit == CollectInit => PassInv
  <1> SUFFICES ASSUME CollectInit PROVE PassInv
    OBVIOUS
  <1>1. scan_run = <<>> /\ scan_run \in Seq(RunRow) /\ DOMAIN scan_run = {}
    BY EmptySeq, LenProperties DEF CollectInit
  <1>2. PassTypes
    BY <1>1 DEF CollectInit, PassTypes
  <1> QED BY <1>1, <1>2 DEF CollectInit, PassInv, UnderWay, Reported

\* What is read, and what fails to be read or stored.
LEMMA ReadingKeeps ==
  ASSUME PassInv,
         PageFails \/ PagesRead \/ StoreFails \/ (\E n \in 0..MaxPages : ReadHub(n))
           \/ \E found \in SUBSET Item : ReadPage(found)
  PROVE  PassInv'
  <1>1. /\ exit = "running" /\ pc # "open" /\ pc' \in {"read", "store", "close"}
        /\ UNCHANGED <<exit, started, mode, todo, scan_run, snapshot, report>>
        /\ items' = items \/ \E found \in SUBSET Item : items' = items \cup found
        /\ \/ errors' = errors /\ broken' = broken /\ pc' # "close"
           \/ errors' = errors + 1 /\ broken' = Missing
    BY DEF PageFails, PagesRead, StoreFails, ReadHub, ReadPage
  <1>2. PassTypes /\ UnderWay /\ Reported /\ \A r \in DOMAIN scan_run : RowTruthful(r)
    BY DEF PassInv
  <1>3. /\ thisRun' = thisRun /\ current' = current
        /\ \A r : StoredIn(r)' = StoredIn(r) /\ \A i : RunOf(i)' = RunOf(i)
    BY <1>1 DEF thisRun, current, StoredIn, RunOf
  <1>4. /\ todo # {}
        /\ mode = "server" =>
             /\ thisRun \in DOMAIN scan_run /\ scan_run[thisRun].status = "failed"
             /\ scan_run[thisRun] = [pass |-> started, shop |-> current, status |-> "failed", seen |-> 0]
             /\ errors > 0 <=> thisRun \in broken
    BY <1>1, <1>2 DEF UnderWay
  <1>5. /\ broken \subseteq broken' /\ broken' \subseteq broken \cup {thisRun}
        /\ mode # "server" => broken' = broken
    BY <1>1 DEF Missing
  <1>6. errors \in Nat /\ errors' \in Nat /\ (pc' = "close" => errors' > 0)
        /\ (mode = "server" => (errors' > 0 <=> thisRun \in broken'))
    <2>1. errors \in Nat
      BY <1>2 DEF PassTypes
    <2>2. CASE errors' = errors /\ broken' = broken /\ pc' # "close"
      BY <1>4, <2>1, <2>2
    <2>3. CASE errors' = errors + 1 /\ broken' = Missing
      <3>1. errors' > 0 /\ errors' \in Nat
        BY <2>1, <2>3
      <3> QED BY <2>1, <2>3, <3>1 DEF Missing
    <2> QED BY <1>1, <2>2, <2>3
  <1>7. PassTypes'
    <2>1. items' \subseteq Item
      BY <1>1, <1>2 DEF PassTypes
    <2>2. broken' \subseteq DOMAIN scan_run
      <3>1. broken \subseteq DOMAIN scan_run
        BY <1>2 DEF PassTypes
      <3>2. mode = "server" => thisRun \in DOMAIN scan_run
        BY <1>4
      <3> QED BY <1>5, <3>1, <3>2
    <2> QED BY <1>1, <1>2, <1>6, <2>1, <2>2 DEF PassTypes
  <1>8. UnderWay'
    BY <1>1, <1>3, <1>4, <1>6 DEF UnderWay
  <1>9. Reported'
    BY <1>1, <1>2, <1>3 DEF Reported, Backed, Problems, Taken
  <1>10. ASSUME NEW r \in DOMAIN scan_run PROVE RowTruthful(r)'
    <2>1. RowTruthful(r)
      BY <1>2
    <2>2. CASE mode = "server" /\ r = thisRun
      BY <1>1, <1>3, <1>4, <2>1, <2>2 DEF RowTruthful
    <2>3. CASE ~(mode = "server" /\ r = thisRun)
      <3>1. r \in broken' <=> r \in broken
        <4>1. CASE mode = "server"
          BY <1>5, <2>3, <4>1
        <4>2. CASE mode # "server"
          BY <1>5, <4>2
        <4> QED BY <4>1, <4>2
      <3> QED BY <1>1, <1>3, <2>1, <3>1 DEF RowTruthful
    <2> QED BY <2>2, <2>3
  <1> QED BY <1>1, <1>7, <1>8, <1>9, <1>10 DEF PassInv

\* A row that is stored belongs to the run that is under way.
LEMMA StoreKeeps ==
  ASSUME PassInv, NEW i \in Item, Store(i)
  PROVE  PassInv'
  <1>1. /\ exit = "running" /\ mode = "server" /\ pc = "store" /\ i \in items
        /\ snapshot' = snapshot \cup {[run |-> thisRun, item |-> i]}
        /\ UNCHANGED <<exit, started, mode, todo, pc, items, errors, scan_run, report, broken>>
    BY DEF Store
  <1>2. PassTypes /\ UnderWay /\ Reported /\ \A r \in DOMAIN scan_run : RowTruthful(r)
    BY DEF PassInv
  <1>3. /\ thisRun' = thisRun /\ current' = current /\ \A j : RunOf(j)' = RunOf(j)
    BY <1>1 DEF thisRun, current, RunOf
  <1>4. /\ thisRun \in DOMAIN scan_run /\ scan_run[thisRun].status = "failed"
        /\ scan_run[thisRun].seen = 0
    BY <1>1, <1>2 DEF UnderWay
  <1>5. PassTypes'
    BY <1>1, <1>2, <1>4 DEF PassTypes
  <1>6. UnderWay' /\ Reported'
    BY <1>1, <1>2, <1>3 DEF UnderWay, Reported, Backed, Problems, Taken
  <1>7. ASSUME NEW r \in DOMAIN scan_run PROVE RowTruthful(r)'
    <2>1. RowTruthful(r)
      BY <1>2
    <2>2. CASE r = thisRun
      <3>1. StoredIn(r)' \subseteq Item
        BY <1>1, <1>2 DEF StoredIn, PassTypes
      <3>2. Cardinality(StoredIn(r)') \in Nat
        BY <3>1, Counts
      <3> QED BY <1>1, <1>4, <2>2, <3>2 DEF RowTruthful
    <2>3. CASE r # thisRun
      <3>1. StoredIn(r)' = StoredIn(r)
        BY <1>1, <2>3 DEF StoredIn
      <3> QED BY <1>1, <2>1, <3>1 DEF RowTruthful
    <2> QED BY <2>2, <2>3
  <1> QED BY <1>1, <1>5, <1>6, <1>7 DEF PassInv

\* The run of a shop is entered as failed.
LEMMA OpenKeeps ==
  ASSUME PassInv, Open
  PROVE  PassInv'
  <1> DEFINE new == [pass |-> started, shop |-> current, status |-> "failed", seen |-> 0]
             n == Len(scan_run)
  <1>1. /\ exit = "running" /\ todo # {} /\ pc' \in {"hub", "read"} /\ items' = {} /\ errors' = 0
        /\ scan_run' = IF mode = "server" THEN Append(scan_run, new) ELSE scan_run
        /\ UNCHANGED <<exit, started, mode, todo, snapshot, report, broken>>
    BY DEF Open
  <1>2. /\ PassTypes /\ Reported /\ \A r \in DOMAIN scan_run : RowTruthful(r)
        /\ n \in Nat /\ DOMAIN scan_run = 1..n /\ scan_run \in Seq(RunRow)
    BY LenProperties DEF PassInv, PassTypes
  <1>3. current' = current /\ \A r : StoredIn(r)' = StoredIn(r)
    BY <1>1 DEF current, StoredIn
  <1>4. CASE mode = "server"
    <2>1. new \in RunRow
      BY <1>1, <1>2, CurrentShop DEF RunRow, Statuses, PassTypes
    <2>2. /\ scan_run' \in Seq(RunRow) /\ Len(scan_run') = n + 1 /\ DOMAIN scan_run' = 1..(n + 1)
          /\ \A r \in 1..n : scan_run'[r] = scan_run[r]
          /\ scan_run'[n + 1] = new
      <3> HIDE DEF new
      <3>1. Append(scan_run, new) \in Seq(RunRow) /\ Len(Append(scan_run, new)) = n + 1
            /\ \A r \in 1..n : Append(scan_run, new)[r] = scan_run[r]
            /\ Append(scan_run, new)[n + 1] = new
        BY <1>2, <2>1, AppendProperties
      <3>2. DOMAIN Append(scan_run, new) = 1..(n + 1)
        BY <3>1, LenProperties
      <3> QED BY <1>1, <1>4, <3>1, <3>2
    <2>3. thisRun' = n + 1
      BY <2>2 DEF thisRun
    <2> HIDE DEF n
    <2>4. 1..n \subseteq 1..(n + 1) /\ n + 1 \in 1..(n + 1) /\ n + 1 \notin 1..n
          /\ \A r \in 1..(n + 1) : r \in 1..n \/ r = n + 1
      BY <1>2
    <2>5. n + 1 \notin broken /\ StoredIn(n + 1) = {}
      BY <1>2, <2>4 DEF PassTypes, StoredIn
    <2>6. PassTypes'
      BY <1>1, <1>2, <2>2, <2>4 DEF PassTypes
    <2>7. UnderWay'
      BY <1>1, <1>3, <2>2, <2>3, <2>4, <2>5 DEF UnderWay
    <2>8. Reported'
      <3>1. ASSUME NEW s \in report PROVE Backed(s)'
        <4> SUFFICES ASSUME s.status = "ok", s.items # 0 PROVE Backed(s)'
          BY DEF Backed
        <4>1. PICK r \in RunOf(s.shop) : scan_run[r].status = "ok" /\ scan_run[r].seen > 0
          BY <1>1, <1>2, <1>4 DEF Reported, Backed
        <4>2. r \in RunOf(s.shop)' /\ scan_run'[r] = scan_run[r]
          BY <1>1, <1>2, <2>2, <2>4, <4>1 DEF RunOf
        <4> QED BY <4>1, <4>2 DEF Backed
      <3> QED BY <1>1, <1>2, <3>1 DEF Reported, Problems, Taken
    <2>9. ASSUME NEW r \in 1..(n + 1) PROVE RowTruthful(r)'
      <3>1. CASE r \in 1..n
        BY <1>1, <1>2, <1>3, <2>2, <3>1 DEF RowTruthful
      <3>2. CASE r = n + 1
        <4>1. Cardinality(StoredIn(r)') = 0
          BY <1>3, <2>5, <3>2, FS_EmptySet
        <4> QED BY <2>2, <3>2, <4>1 DEF RowTruthful
      <3> QED BY <2>4, <3>1, <3>2
    <2> QED BY <2>2, <2>6, <2>7, <2>8, <2>9 DEF PassInv
  <1>5. CASE mode # "server"
    <2>1. scan_run' = scan_run
      BY <1>1, <1>5
    <2>2. PassTypes'
      BY <1>1, <1>2, <2>1 DEF PassTypes
    <2>3. UnderWay' /\ Reported'
      BY <1>1, <1>5 DEF UnderWay, Reported
    <2> QED BY <1>1, <1>2, <1>3, <2>1, <2>2, <2>3 DEF PassInv, RowTruthful
  <1> QED BY <1>4, <1>5
\* The run says what was stored of it; the report says what the run says.
LEMMA CloseKeeps ==
  ASSUME PassInv, Close
  PROVE  PassInv'
  <1> DEFINE t == thisRun
             line == [shop |-> current, status |-> Status, items |-> Count]
  <1>1. /\ exit = "running" /\ mode = "server" /\ todo # {} /\ Stored /\ pc # "open"
        /\ scan_run' = [scan_run EXCEPT ![t] = [@ EXCEPT !.status = Status, !.seen = Count]]
        /\ report' = report \cup {line} /\ todo' = todo \ {current} /\ pc' = "open"
        /\ UNCHANGED <<exit, started, mode, items, errors, snapshot, broken>>
    BY DEF Close, NextShop, Stored
  <1>2. /\ PassTypes /\ Reported /\ \A r \in DOMAIN scan_run : RowTruthful(r)
        /\ scan_run \in Seq(RunRow) /\ DOMAIN scan_run = 1..Len(scan_run)
    BY LenProperties DEF PassInv, PassTypes
  <1>3. /\ t \in DOMAIN scan_run /\ (errors > 0 <=> t \in broken) /\ (pc = "close" => errors > 0)
        /\ scan_run[t] = [pass |-> started, shop |-> current, status |-> "failed", seen |-> 0]
    BY <1>1 DEF PassInv, UnderWay
  <1>4. Status \in Statuses /\ (Status = "ok" => ~(errors > 0)) /\ (Status = "partial" => errors > 0)
    BY DEF Status, Statuses
  <1>5. /\ StoredIn(t) \subseteq Item /\ Cardinality(StoredIn(t)) \in Nat /\ Count \in Nat
        /\ pc # "close" => Count = Cardinality(StoredIn(t))
        /\ pc = "close" => Count = 0
    <2>1. StoredIn(t) \subseteq Item /\ items \subseteq Item
      BY <1>2 DEF StoredIn, PassTypes
    <2>2. Cardinality(StoredIn(t)) \in Nat /\ Cardinality(items) \in Nat
      BY <2>1, Counts
    <2> QED BY <1>1, <2>1, <2>2 DEF Count, Stored
  <1> HIDE DEF t
  <1> DEFINE new == [pass |-> started, shop |-> current, status |-> Status, seen |-> Count]
  <1>6. /\ scan_run' = [scan_run EXCEPT ![t] = new] /\ new \in RunRow /\ current \in DOMAIN SOURCES
    <2>1. [scan_run[t] EXCEPT !.status = Status, !.seen = Count] = new
      <3>1. scan_run[t] = [pass |-> started, shop |-> current, status |-> "failed", seen |-> 0]
        BY <1>3
      <3> DEFINE old == scan_run[t]
                 end == [old EXCEPT !.status = Status, !.seen = Count]
      <3>2. /\ DOMAIN old = {"pass", "shop", "status", "seen"}
            /\ old.pass = started /\ old.shop = current
        BY <3>1
      <3>3. /\ end = [f \in {"pass", "shop", "status", "seen"} |-> end[f]]
            /\ end["pass"] = started /\ end["shop"] = current
            /\ end["status"] = Status /\ end["seen"] = Count
        <4> HIDE DEF old
        <4> QED BY <3>2
      <3> HIDE DEF end
      <3>4. end = new
        BY <3>3
      <3> QED BY <3>4 DEF end
    <2>2. current \in DOMAIN SOURCES /\ started \in Nat
      BY <1>1, <1>2, CurrentShop DEF PassTypes
    <2>3. new \in RunRow
      BY <1>4, <1>5, <2>2 DEF RunRow
    <2> HIDE DEF new
    <2> QED BY <1>1, <2>1, <2>2, <2>3
  <1>7. /\ scan_run' \in Seq(RunRow) /\ DOMAIN scan_run' = DOMAIN scan_run /\ scan_run'[t] = new
        /\ \A r \in DOMAIN scan_run : r # t => scan_run'[r] = scan_run[r]
    <2> HIDE DEF new
    <2>1. t \in 1..Len(scan_run)
      BY <1>2, <1>3
    <2>2. [scan_run EXCEPT ![t] = new] \in Seq(RunRow)
      BY <1>2, <1>6, <2>1, ExceptSeq
    <2> QED BY <1>3, <1>6, <2>2
  <1>8. \A r : StoredIn(r)' = StoredIn(r)
    BY <1>1 DEF StoredIn
  <1>9. PassTypes'
    BY <1>1, <1>2, <1>7 DEF PassTypes
  <1>10. UnderWay'
    BY <1>1 DEF UnderWay
  <1>11. Reported'
    <2>1. ASSUME NEW s \in report PROVE Backed(s)'
      <3> SUFFICES ASSUME s.status = "ok", s.items # 0 PROVE Backed(s)'
        BY DEF Backed
      <3>1. PICK r \in RunOf(s.shop) : scan_run[r].status = "ok" /\ scan_run[r].seen > 0
        BY <1>1, <1>2 DEF Reported, Backed
      <3>2. r \in DOMAIN scan_run /\ r # t
        BY <1>3, <3>1 DEF RunOf
      <3>3. r \in RunOf(s.shop)' /\ scan_run'[r] = scan_run[r]
        BY <1>1, <1>7, <3>1, <3>2 DEF RunOf
      <3> QED BY <3>1, <3>3 DEF Backed
    <2>2. ASSUME NEW s, s = line PROVE Backed(s)'
      <3> SUFFICES ASSUME Status = "ok", Count # 0
                   PROVE  \E r \in RunOf(s.shop)' : scan_run'[r].status = "ok" /\ scan_run'[r].seen > 0
        BY <2>2 DEF Backed
      <3>1. scan_run'[t].pass = started' /\ scan_run'[t].shop = s.shop
        <4>1. scan_run'[t].pass = started /\ scan_run'[t].shop = current
          BY <1>7
        <4>2. s.shop = current
          BY <2>2
        <4> QED BY <1>1, <4>1, <4>2
      <3>2. t \in RunOf(s.shop)'
        BY <1>3, <1>7, <3>1 DEF RunOf
      <3>3. scan_run'[t].status = "ok" /\ scan_run'[t].seen > 0
        BY <1>5, <1>7
      <3> QED BY <3>2, <3>3
    <2>3. line.shop = current
      OBVIOUS
    <2> HIDE DEF line
    <2>4. \A s \in report' : Backed(s)'
      BY <1>1, <2>1, <2>2
    <2>5. \A i \in Taken("server") : i \in todo' \/ \E s \in report' : s.shop = i
      <3>1. \A i \in Taken("server") : i \in todo \/ \E s \in report : s.shop = i
        BY <1>1, <1>2 DEF Reported
      <3> QED BY <1>1, <2>3, <3>1
    <2> QED BY <1>1, <2>4, <2>5 DEF Reported, Taken
  <1>12. ASSUME NEW r \in DOMAIN scan_run PROVE RowTruthful(r)'
    <2>1. RowTruthful(r)
      BY <1>2
    <2>2. CASE r = t
      <3>1. scan_run'[r].status = Status /\ scan_run'[r].seen = Count
        BY <1>7, <2>2
      <3>2. Status = "ok" => r \notin broken /\ Count = Cardinality(StoredIn(r))
        BY <1>3, <1>4, <1>5, <2>2
      <3>3. Count <= Cardinality(StoredIn(r))
        BY <1>5, <2>2
      <3>4. Status = "partial" => r \in broken
        BY <1>3, <1>4, <2>2
      <3> QED BY <1>1, <1>8, <3>1, <3>2, <3>3, <3>4 DEF RowTruthful
    <2>3. CASE r # t
      BY <1>1, <1>7, <1>8, <2>1, <2>3 DEF RowTruthful
    <2> QED BY <2>2, <2>3
  <1> QED BY <1>7, <1>9, <1>10, <1>11, <1>12 DEF PassInv

\* A shop that is given up, or posted, leaves no run that says more than it did.
LEMMA GivenUpKeeps ==
  ASSUME PassInv, ShopFails \/ \E answered \in BOOLEAN : Post(answered)
  PROVE  PassInv'
  <1>1. \E status, n :
          /\ exit = "running" /\ report' = report \cup {[shop |-> current, status |-> status, items |-> n]}
          /\ todo' = todo \ {current} /\ pc' = "open"
          /\ UNCHANGED <<exit, started, mode, items, errors, scan_run, snapshot, broken>>
          /\ mode = "server" => status = "failed"
    BY DEF ShopFails, Post, NextShop
  <1>2. PICK status, n :
          /\ exit = "running" /\ report' = report \cup {[shop |-> current, status |-> status, items |-> n]}
          /\ todo' = todo \ {current} /\ pc' = "open"
          /\ UNCHANGED <<exit, started, mode, items, errors, scan_run, snapshot, broken>>
          /\ mode = "server" => status = "failed"
    BY <1>1
  <1> DEFINE line == [shop |-> current, status |-> status, items |-> n]
  <1>3. PassTypes /\ Reported /\ \A r \in DOMAIN scan_run : RowTruthful(r)
    BY DEF PassInv
  <1>4. PassTypes' /\ UnderWay'
    BY <1>2, <1>3 DEF PassTypes, UnderWay
  <1>5. \A r \in DOMAIN scan_run' : RowTruthful(r)'
    BY <1>2, <1>3 DEF RowTruthful, StoredIn
  <1>6. Reported'
    <2> SUFFICES ASSUME mode = "server" PROVE Reported'
      BY <1>2 DEF Reported
    <2>1. line.shop = current /\ line.status = "failed"
      BY <1>2
    <2> HIDE DEF line
    <2>2. report' = report \cup {line}
      BY <1>2 DEF line
    <2>3. ASSUME NEW s \in report' PROVE Backed(s)'
      <3>1. CASE s \in report
        BY <1>2, <1>3, <3>1 DEF Reported, Backed, RunOf
      <3>2. CASE s = line
        BY <2>1, <3>2 DEF Backed
      <3> QED BY <2>2, <3>1, <3>2
    <2>4. \A i \in Taken("server") : i \in todo' \/ \E s \in report' : s.shop = i
      <3>1. \A i \in Taken("server") : i \in todo \/ \E s \in report : s.shop = i
        BY <1>2, <1>3 DEF Reported
      <3> QED BY <1>2, <2>1, <2>2, <3>1
    <2> QED BY <1>2, <2>3, <2>4 DEF Reported, Taken
  <1> QED BY <1>4, <1>5, <1>6 DEF PassInv

LEMMA PassNext == PassInv /\ [CollectNext]_collectVars => PassInv'
  <1> SUFFICES ASSUME PassInv, [CollectNext]_collectVars PROVE PassInv'
    OBVIOUS
  <1>1. ASSUME NEW m \in {"server", "satellite"}, StartPass(m) PROVE PassInv'
    <2>1. /\ exit' = "running" /\ started' = started + 1 /\ mode' = m /\ todo' = Taken(m)
          /\ pc' = "open" /\ report' = {}
          /\ UNCHANGED <<items, errors, scan_run, snapshot, broken>>
      BY <1>1 DEF StartPass
    <2>2. PassTypes /\ \A r \in DOMAIN scan_run : RowTruthful(r)
      BY DEF PassInv
    <2>3. PassTypes'
      BY <2>1, <2>2 DEF PassTypes, Taken
    <2>4. UnderWay' /\ Reported'
      BY <2>1 DEF UnderWay, Reported, Taken
    <2> QED BY <2>1, <2>2, <2>3, <2>4 DEF PassInv, RowTruthful, StoredIn
  <1>2. ASSUME NEW detected \in BOOLEAN, Finish(detected) PROVE PassInv'
    <2>1. /\ exit = "running" /\ todo = {} /\ exit' \in {"ok", "failed"}
          /\ exit' = "ok" => Problems = {}
          /\ UNCHANGED <<started, mode, todo, pc, items, errors, scan_run, snapshot, report, broken>>
      BY <1>2 DEF Finish
    <2>2. PassTypes /\ Reported /\ \A r \in DOMAIN scan_run : RowTruthful(r)
      BY DEF PassInv
    <2>3. PassTypes' /\ UnderWay'
      BY <2>1, <2>2 DEF PassTypes, UnderWay
    <2>4. Reported'
      BY <2>1, <2>2 DEF Reported, Backed, RunOf, Problems, Taken
    <2> QED BY <2>1, <2>2, <2>3, <2>4 DEF PassInv, RowTruthful, StoredIn
  <1>3. CASE Killed
    <2>1. /\ exit' = "died"
          /\ UNCHANGED <<started, mode, todo, pc, items, errors, scan_run, snapshot, report, broken>>
      BY <1>3 DEF Killed
    <2> QED BY <2>1 DEF PassInv, PassTypes, UnderWay, Reported, RowTruthful, StoredIn
  <1>4. CASE UNCHANGED collectVars
    BY <1>4 DEF collectVars, PassInv, PassTypes, UnderWay, Reported, Backed, Problems, RowTruthful,
                StoredIn, RunOf, thisRun, current, Taken
  <1> QED BY <1>1, <1>2, <1>3, <1>4, ReadingKeeps, StoreKeeps, OpenKeeps, CloseKeeps, GivenUpKeeps
          DEF CollectNext

THEOREM PassInvariance == CollectSpec => []PassInv
  BY PassInit, PassNext, PTL DEF CollectSpec

\* What the rows of a direct collection say is so, and a pass that ends well has
\* read and stored every shop (collect_shop, main), for any list of shops.
THEOREM RunsHold == CollectSpec => []RunsTruthful
  <1>1. PassInv => RunsTruthful
    <2> SUFFICES ASSUME PassInv PROVE RunsTruthful
      OBVIOUS
    <2>1. \A r \in DOMAIN scan_run : RowTruthful(r)
      BY DEF PassInv
    <2>2. ASSUME exit = "ok", mode = "server", NEW i \in DOMAIN SOURCES, SOURCES[i].enabled
          PROVE  \E r \in RunOf(i) : scan_run[r].status = "ok" /\ scan_run[r].seen > 0
      <3>1. PICK s \in report : s.shop = i
        BY <2>2 DEF PassInv, Reported, Taken
      <3>2. s.status = "ok" /\ s.items # 0 /\ Backed(s)
        BY <2>2 DEF PassInv, Reported, Problems
      <3> QED BY <3>1, <3>2 DEF Backed
    <2> QED BY <2>1, <2>2 DEF RunsTruthful, RowTruthful
  <1> QED BY <1>1, PassInvariance, PTL

-----------------------------------------------------------------------------
\* Accounts.

\* A request under way names two accounts, or one whose owner leaves.
Named ==
  \A w \in Worker : req[w].step # "idle" =>
    /\ req[w].actor \in Account /\ req[w].target \in Account
    /\ SelfRule(req[w].actor, req[w].target, req[w].change)

\* A request has changed no row but its target's, from what is committed, and
\* only after its checks.
Held ==
  \A u \in Account, w \in Worker : lock[u] = w =>
    /\ u = req[w].target
    /\ committed[u].there /\ table[u] = Changed(committed[u], req[w].change)
    /\ req[w].step = "commit" \/ (req[w].step = "audit" /\ ~Erases(req[w].change))

\* From its entry in the audit until it ends, a request holds both rows.
Keyed ==
  \A w \in Worker :
    req[w].step = "commit" \/ (req[w].step = "write" /\ Erases(req[w].change))
      => w \in share[req[w].actor] /\ w \in share[req[w].target]

\* A row that a request holds is there, and a deleted one is held by none but
\* the request that deletes it.
Kept ==
  \A u \in Account :
    /\ table[u].there => committed[u].there
    /\ share[u] # {} => committed[u].there
    /\ lock[u] # Nobody /\ ~table[u].there => share[u] \subseteq {lock[u]}

\* What a request has found is still so, as long as none has overtaken it; and
\* no moderator bans somebody whose removal has to be counted.
NeverByModerator(q) == ~(q.change.do = "active" /\ q.rank = 2)

Found(q) ==
  /\ q.step = "count" => NeverByModerator(q)
  /\ ~q.late /\ q.step \in {"write", "audit", "commit"} =>
       /\ WithinReach(q.rank, committed[q.target], q.change)
       /\ OthersAdminister(committed, q.target) \/ ~Removes(committed[q.target], q.change)

Fresh == \A w \in Worker : Found(req[w])

IInv == TypeOK /\ Named /\ Held /\ Keyed /\ Kept /\ Fresh

Request ==
  [step : {"idle", "read", "count", "write", "audit", "commit"},
   actor : Account \cup {Nobody}, rank : 1..3,
   target : Account \cup {Nobody}, change : Change, late : BOOLEAN]

-----------------------------------------------------------------------------
\* What a worker without a request holds is of a request's type.
LEMMA IdleIsRequest == Idle \in Request
  BY DEF Idle, Request, Change

\* Every row has one of three ranks.
LEMMA RankTyped == ASSUME NEW r PROVE Rank(r) \in 1..3
  BY DEF Rank

\* A change leaves a row of the right type, and only a deletion takes it away.
LEMMA ChangedTyped ==
  ASSUME NEW r \in Row, NEW c \in Change
  PROVE  /\ Changed(r, c) \in Row
         /\ Changed(r, c).there <=> r.there /\ ~Erases(c)
         /\ ~r.there => Changed(r, c) = r
  <1>1. CASE ~r.there \/ Erases(c)
    BY <1>1 DEF Changed, Row, Gone, Role
  <1>2. CASE r.there /\ ~Erases(c)
    <2>1. (c.do = "role" /\ c.to \in Role) \/ (c.do = "active" /\ c.to \in BOOLEAN)
      <3>1. CASE c \in [do : {"role"}, to : Role]
        BY <3>1
      <3>2. CASE c \in [do : {"active"}, to : BOOLEAN]
        BY <3>2
      <3>3. CASE c \in [do : {"delete", "leave"}, to : {FALSE}]
        BY <3>3, <1>2 DEF Erases
      <3> QED BY <3>1, <3>2, <3>3 DEF Change
    <2>2. CASE c.do = "role"
      BY <1>2, <2>1, <2>2 DEF Changed, Row, Gone
    <2>3. CASE c.do = "active"
      BY <1>2, <2>1, <2>3 DEF Changed, Row, Gone
    <2> QED BY <2>1, <2>2, <2>3
  <1> QED BY <1>1, <1>2

\* Before the first request there is nothing held.
LEMMA InitIInv ==
  ASSUME Init
  PROVE  IInv
  <1>1. req \in [Worker -> Request] /\ \A w \in Worker : req[w].step = "idle"
    BY IdleIsRequest DEF Init, Idle
  <1>2. TypeOK
    BY <1>1 DEF Init, TypeOK, Request
  <1>3. Named /\ Held /\ Keyed /\ Kept /\ Fresh
    BY <1>1, AccountAssumption DEF Init, Named, Held, Keyed, Kept, Fresh, Found
  <1> QED BY <1>2, <1>3 DEF IInv

\* A request that has changed nothing and holds nothing goes on to r.
LEMMA RequestStep ==
  ASSUME IInv, NEW w \in Worker, NEW r \in Request,
         req' = [req EXCEPT ![w] = r], UNCHANGED <<committed, table, lock, share>>,
         req[w].step \in {"idle", "read", "count"},
         r.step # "idle" => /\ r.actor \in Account /\ r.target \in Account
                            /\ SelfRule(r.actor, r.target, r.change),
         r.step # "commit", r.step = "write" => ~Erases(r.change), Found(r)
  PROVE  IInv'
  <1>1. req \in [Worker -> Request]
    BY DEF IInv, TypeOK, Request
  <1>2. req'[w] = r /\ \A v \in Worker \ {w} : req'[v] = req[v]
    BY <1>1
  <1>3. TypeOK'
    <2>1. req' \in [Worker -> Request]
      BY <1>1
    <2> QED BY <2>1 DEF IInv, TypeOK, Request
  <1>4. Named'
    BY <1>2 DEF IInv, Named
  <1>5. Held'
    BY <1>2 DEF IInv, Held
  <1>6. Keyed'
    BY <1>2 DEF IInv, Keyed
  <1>7. Kept'
    BY DEF IInv, Kept
  <1>8. Fresh'
    BY <1>2 DEF IInv, Fresh, Found, OthersAdminister, ActiveAdmins
  <1> QED BY <1>3, <1>4, <1>5, <1>6, <1>7, <1>8 DEF IInv

\* The gate of main.py lets a request in that names two accounts.
LEMMA AskIInv ==
  ASSUME IInv, NEW w \in Worker, NEW a \in Account, NEW t \in Account, NEW c \in Change,
         Ask(w, a, t, c)
  PROVE  IInv'
  <1> DEFINE r == [step |-> "read", actor |-> a, rank |-> Rank(committed[a]),
                   target |-> t, change |-> c, late |-> FALSE]
  <1>1. r \in Request
    BY RankTyped DEF Request
  <1>2. req' = [req EXCEPT ![w] = r] /\ req[w].step = "idle" /\ SelfRule(a, t, c)
        /\ UNCHANGED <<committed, table, lock, share>>
    BY DEF Ask
  <1>3. r.step = "read" /\ r.actor = a /\ r.target = t /\ r.change = c /\ Found(r)
    BY DEF Found
  <1> HIDE DEF r
  <1> QED BY <1>1, <1>2, <1>3, RequestStep

\* ReadTarget and CountAdmins send a request on, or end it.
LEMMA GoesOn ==
  ASSUME IInv, NEW w \in Worker, req[w].step \in {"read", "count"},
         NEW step \in {"count", First(req[w].change)},
         \/ req' = [req EXCEPT ![w] = Idle]
         \/ /\ req' = [req EXCEPT ![w] = [req[w] EXCEPT !.late = FALSE, !.step = step]]
            /\ step = "count" => NeverByModerator(req[w])
            /\ step = First(req[w].change) =>
                 /\ WithinReach(req[w].rank, committed[req[w].target], req[w].change)
                 /\ \/ OthersAdminister(committed, req[w].target)
                    \/ ~Removes(committed[req[w].target], req[w].change),
         UNCHANGED <<committed, table, lock, share>>
  PROVE  IInv'
  <1>1. CASE req' = [req EXCEPT ![w] = Idle]
    <2>1. Idle.step = "idle" /\ Found(Idle)
      BY DEF Idle, Found
    <2> QED BY <1>1, <2>1, IdleIsRequest, RequestStep
  <1>2. ASSUME req' # [req EXCEPT ![w] = Idle] PROVE IInv'
    <2> DEFINE r == [req[w] EXCEPT !.late = FALSE, !.step = step]
    <2>1. req[w] \in Request
      BY DEF IInv, TypeOK, Request
    <2>2. step \in {"count", "audit", "write"} /\ (step = "write" => ~Erases(req[w].change))
      BY DEF First
    <2>3. r \in Request /\ r.step = step /\ r.actor = req[w].actor /\ r.rank = req[w].rank
          /\ r.target = req[w].target /\ r.change = req[w].change
      BY <2>1, <2>2 DEF Request
    <2>4. req[w].actor \in Account /\ req[w].target \in Account
          /\ SelfRule(req[w].actor, req[w].target, req[w].change)
      BY DEF IInv, Named
    <2>5. req' = [req EXCEPT ![w] = r]
      BY <1>2
    <2> HIDE DEF r
    <2>6. Found(r)
      BY <1>2, <2>2, <2>3 DEF Found, NeverByModerator
    <2> QED BY <2>2, <2>3, <2>4, <2>5, <2>6, RequestStep
  <1> QED BY <1>1, <1>2

\* The target is read without a lock.
LEMMA ReadTargetIInv ==
  ASSUME IInv, NEW w \in Worker, ReadTarget(w)
  PROVE  IInv'
  <1> DEFINE step == IF Removes(committed[req[w].target], req[w].change)
                       THEN "count" ELSE First(req[w].change)
  <1>1. step \in {"count", First(req[w].change)}
    OBVIOUS
  <1>2. /\ req[w].step = "read" /\ UNCHANGED <<committed, table, lock, share>>
        /\ \/ req' = [req EXCEPT ![w] = Idle]
           \/ /\ req' = [req EXCEPT ![w] = [req[w] EXCEPT !.late = FALSE, !.step = step]]
              /\ WithinReach(req[w].rank, committed[req[w].target], req[w].change)
    BY DEF ReadTarget
  <1>3. step = "count" => Removes(committed[req[w].target], req[w].change)
    BY DEF First
  <1>4. step = First(req[w].change) => ~Removes(committed[req[w].target], req[w].change)
    BY DEF First
  <1>5. Removes(committed[req[w].target], req[w].change)
        /\ WithinReach(req[w].rank, committed[req[w].target], req[w].change)
          => NeverByModerator(req[w])
    BY DEF Removes, WithinReach, Rank, NeverByModerator
  <1> HIDE DEF step
  <1> QED BY <1>1, <1>2, <1>3, <1>4, <1>5, GoesOn

\* The count is right when it is made.
LEMMA CountAdminsIInv ==
  ASSUME IInv, NEW w \in Worker, CountAdmins(w)
  PROVE  IInv'
  <1> DEFINE step == First(req[w].change)
  <1>1. /\ req[w].step = "count" /\ UNCHANGED <<committed, table, lock, share>>
        /\ \/ req' = [req EXCEPT ![w] = Idle]
           \/ /\ req' = [req EXCEPT ![w] = [req[w] EXCEPT !.late = FALSE, !.step = step]]
              /\ OthersAdminister(committed, req[w].target)
    BY DEF CountAdmins
  <1>2. step \in {"count", First(req[w].change)} /\ step # "count"
    BY DEF First
  <1>3. NeverByModerator(req[w])
    BY <1>1 DEF IInv, Fresh, Found
  <1>4. WithinReach(req[w].rank, committed[req[w].target], req[w].change)
    BY <1>3 DEF WithinReach, NeverByModerator
  <1> HIDE DEF step
  <1> QED BY <1>1, <1>2, <1>4, GoesOn

\* The target's row is changed or deleted.
LEMMA WriteIInv ==
  ASSUME IInv, NEW w \in Worker, Write(w)
  PROVE  IInv'
  <1> DEFINE t == req[w].target
             c == req[w].change
             r == [req[w] EXCEPT !.step = IF Erases(c) THEN "commit" ELSE "audit"]
  <1>1. /\ req[w].step = "write" /\ WaitsFor(w) = {} /\ UNCHANGED <<committed, share>>
        /\ table' = [table EXCEPT ![t] = Changed(table[t], c)]
        /\ lock' = [lock EXCEPT ![t] = IF table[t].there THEN w ELSE lock[t]]
        /\ req' = [req EXCEPT ![w] = r]
    BY DEF Write, IInv, TypeOK
  <1>2. /\ t \in Account /\ c \in Change /\ req \in [Worker -> Request]
        /\ table \in [Account -> Row] /\ committed \in [Account -> Row]
        /\ lock \in [Account -> Worker \cup {Nobody}] /\ share \in [Account -> SUBSET Worker]
    BY <1>1 DEF IInv, TypeOK, Named, Request
  <1>3. lock[t] = Nobody /\ table[t] = committed[t]
    <2>1. lock[t] \in {w, Nobody}
      BY <1>1 DEF WaitsFor
    <2>2. lock[t] # w
      BY <1>1, <1>2 DEF IInv, Held
    <2> QED BY <1>2, <2>1, <2>2 DEF IInv, TypeOK
  <1>4. Erases(c) => share[t] \subseteq {w}
    <2>1. Erases(c) => share[t] \subseteq {w, Nobody}
      BY <1>1 DEF WaitsFor
    <2> QED BY <2>1, <1>2, AccountAssumption
  <1>5. /\ Changed(table[t], c) \in Row
        /\ Changed(table[t], c).there <=> table[t].there /\ ~Erases(c)
        /\ ~table[t].there => Changed(table[t], c) = table[t]
    BY <1>2, ChangedTyped
  <1>6. /\ r \in Request /\ r.actor = req[w].actor /\ r.target = t /\ r.change = c
        /\ r.step = (IF Erases(c) THEN "commit" ELSE "audit")
        /\ r.late = req[w].late /\ r.rank = req[w].rank
    BY <1>2 DEF Request
  <1>7. /\ req'[w] = r /\ \A v \in Worker \ {w} : req'[v] = req[v]
        /\ table'[t] = Changed(table[t], c) /\ \A u \in Account \ {t} : table'[u] = table[u]
        /\ lock'[t] = IF table[t].there THEN w ELSE Nobody
        /\ \A u \in Account \ {t} : lock'[u] = lock[u]
    BY <1>1, <1>2, <1>3
  <1>8. req' \in [Worker -> Request] /\ table' \in [Account -> Row]
        /\ lock' \in [Account -> Worker \cup {Nobody}]
    BY <1>1, <1>2, <1>5, <1>6
  <1> HIDE DEF r, t, c
  <1>9. TypeOK'
    <2>1. \A u \in Account : lock'[u] = Nobody => table'[u] = committed[u]
      BY <1>3, <1>5, <1>7, AccountAssumption DEF IInv, TypeOK
    <2> QED BY <1>1, <1>2, <1>8, <2>1 DEF TypeOK, Request
  <1>10. Named'
    BY <1>1, <1>6, <1>7 DEF IInv, Named, t, c
  <1>11. Held'
    <2> SUFFICES ASSUME NEW u \in Account, NEW v \in Worker, lock'[u] = v
                 PROVE  /\ u = req'[v].target
                        /\ committed[u].there /\ table'[u] = Changed(committed[u], req'[v].change)
                        /\ req'[v].step = "commit"
                           \/ (req'[v].step = "audit" /\ ~Erases(req'[v].change))
      BY <1>1 DEF Held
    <2>1. CASE v = w
      <3>1. u = t
        BY <1>1, <1>7, <2>1 DEF IInv, Held
      <3>2. table[t].there
        BY <3>1, <2>1, <1>7, AccountAssumption
      <3> QED BY <3>1, <3>2, <2>1, <1>3, <1>6, <1>7
    <2>2. CASE v # w
      BY <2>2, <1>3, <1>7, AccountAssumption DEF IInv, Held
    <2> QED BY <2>1, <2>2
  <1>12. Keyed'
    BY <1>1, <1>6, <1>7 DEF IInv, Keyed, t, c
  <1>13. Kept'
    <2> SUFFICES ASSUME NEW u \in Account
                 PROVE  /\ table'[u].there => committed[u].there
                        /\ share[u] # {} => committed[u].there
                        /\ lock'[u] # Nobody /\ ~table'[u].there => share[u] \subseteq {lock'[u]}
      BY <1>1 DEF Kept
    <2>1. CASE u = t
      BY <2>1, <1>3, <1>4, <1>5, <1>7 DEF IInv, Kept
    <2>2. CASE u # t
      BY <2>2, <1>7 DEF IInv, Kept
    <2> QED BY <2>1, <2>2
  <1>14. Fresh'
    BY <1>1, <1>6, <1>7 DEF IInv, Fresh, Found, OthersAdminister, ActiveAdmins, t, c
  <1> QED BY <1>9, <1>10, <1>11, <1>12, <1>13, <1>14 DEF IInv

\* What is left when a request has ended.
LEMMA DroppedTyped ==
  ASSUME IInv, NEW w \in Worker
  PROVE  /\ Unlocked(w) \in [Account -> Worker \cup {Nobody}]
         /\ Dropped(w) \in [Account -> SUBSET Worker]
         /\ \A u \in Account :
              /\ Unlocked(w)[u] = IF lock[u] = w THEN Nobody ELSE lock[u]
              /\ Dropped(w)[u] = share[u] \ {w}
              /\ u \in Mine(w) <=> lock[u] = w
  BY DEF IInv, TypeOK, Unlocked, Dropped, Mine

\* A request that fails gives back what it holds.
LEMMA UndoIInv ==
  ASSUME IInv, NEW w \in Worker, Undo(w)
  PROVE  IInv'
  <1>1. /\ table' = [u \in Account |-> IF u \in Mine(w) THEN committed[u] ELSE table[u]]
        /\ lock' = Unlocked(w) /\ share' = Dropped(w) /\ committed' = committed
        /\ req' = [req EXCEPT ![w] = Idle]
    BY DEF Undo
  <1>2. /\ req \in [Worker -> Request] /\ table \in [Account -> Row]
        /\ committed \in [Account -> Row] /\ lock \in [Account -> Worker \cup {Nobody}]
    BY DEF IInv, TypeOK, Request
  <1>3. /\ req'[w].step = "idle" /\ \A v \in Worker \ {w} : req'[v] = req[v]
        /\ req' \in [Worker -> Request]
    <2>1. Idle \in Request /\ Idle.step = "idle"
      BY IdleIsRequest DEF Idle
    <2> QED BY <1>1, <1>2, <2>1
  <1>4. \A u \in Account :
          /\ table'[u] = IF lock[u] = w THEN committed[u] ELSE table[u]
          /\ lock'[u] = IF lock[u] = w THEN Nobody ELSE lock[u]
          /\ share'[u] = share[u] \ {w}
    BY <1>1, DroppedTyped
  <1>5. TypeOK'
    <2>1. lock' \in [Account -> Worker \cup {Nobody}] /\ share' \in [Account -> SUBSET Worker]
      BY <1>1, DroppedTyped
    <2>2. table' \in [Account -> Row]
      BY <1>1, <1>2
    <2>3. \A u \in Account : lock'[u] = Nobody => table'[u] = committed'[u]
      BY <1>1, <1>4 DEF IInv, TypeOK
    <2> QED BY <1>1, <1>2, <1>3, <2>1, <2>2, <2>3 DEF TypeOK, Request
  <1>6. Named'
    BY <1>3 DEF IInv, Named
  <1>7. Held'
    BY <1>1, <1>3, <1>4, AccountAssumption DEF IInv, Held
  <1>8. Keyed'
    <2> SUFFICES ASSUME NEW v \in Worker,
                        req'[v].step = "commit"
                          \/ (req'[v].step = "write" /\ Erases(req'[v].change))
                 PROVE  v \in share'[req'[v].actor] /\ v \in share'[req'[v].target]
      BY DEF Keyed
    <2>1. v # w /\ req'[v] = req[v]
      BY <1>3
    <2>2. v \in share[req[v].actor] /\ v \in share[req[v].target]
      BY <2>1 DEF IInv, Keyed
    <2>3. req[v].actor \in Account /\ req[v].target \in Account
      BY <2>1 DEF IInv, Named
    <2> QED BY <2>1, <2>2, <2>3, <1>4
  <1>9. Kept'
    BY <1>1, <1>4 DEF IInv, Kept
  <1>10. Fresh'
    BY <1>1, <1>3 DEF IInv, Fresh, Found, OthersAdminister, ActiveAdmins
  <1> QED BY <1>5, <1>6, <1>7, <1>8, <1>9, <1>10 DEF IInv

\* The audit's foreign keys hold both rows.
LEMMA AuditIInv ==
  ASSUME IInv, NEW w \in Worker, Audit(w)
  PROVE  IInv'
  <1> DEFINE named == {req[w].actor, req[w].target}
             r == [req[w] EXCEPT !.step = IF Erases(req[w].change) THEN "write" ELSE "commit"]
  <1>1. CASE ~ \A u \in named : table[u].there
    BY <1>1, UndoIInv DEF Audit
  <1>2. CASE \A u \in named : table[u].there
    <2>1. /\ req[w].step = "audit" /\ UNCHANGED <<committed, table, lock>>
          /\ share' = [u \in Account |-> IF u \in named THEN share[u] \cup {w} ELSE share[u]]
          /\ req' = [req EXCEPT ![w] = r]
      BY <1>2 DEF Audit, IInv, TypeOK
    <2>2. /\ req \in [Worker -> Request] /\ share \in [Account -> SUBSET Worker]
          /\ req[w].actor \in Account /\ req[w].target \in Account
      BY <2>1 DEF IInv, TypeOK, Named, Request
    <2>3. /\ r \in Request /\ r.actor = req[w].actor /\ r.target = req[w].target
          /\ r.change = req[w].change /\ r.late = req[w].late /\ r.rank = req[w].rank
          /\ r.step = IF Erases(req[w].change) THEN "write" ELSE "commit"
      BY <2>2 DEF Request
    <2>4. /\ req'[w] = r /\ \A v \in Worker \ {w} : req'[v] = req[v]
          /\ req' \in [Worker -> Request]
      BY <2>1, <2>2, <2>3
    <2>5. \A u \in Account :
            /\ share[u] \subseteq share'[u] /\ (u \notin named => share'[u] = share[u])
            /\ u \in named => w \in share'[u]
      BY <2>1
    <2>6. share' \in [Account -> SUBSET Worker]
      BY <2>1, <2>2
    <2> HIDE DEF r
    <2>7. TypeOK'
      BY <2>1, <2>4, <2>6 DEF IInv, TypeOK, Request
    <2>8. Named'
      BY <2>1, <2>3, <2>4 DEF IInv, Named
    <2>9. Held'
      BY <2>1, <2>3, <2>4 DEF IInv, Held
    <2>10. Keyed'
      <3> SUFFICES ASSUME NEW v \in Worker,
                          req'[v].step = "commit"
                            \/ (req'[v].step = "write" /\ Erases(req'[v].change))
                   PROVE  v \in share'[req'[v].actor] /\ v \in share'[req'[v].target]
        BY DEF Keyed
      <3>1. CASE v = w
        BY <3>1, <2>2, <2>3, <2>4, <2>5
      <3>2. CASE v # w
        <4>1. v \in share[req[v].actor] /\ v \in share[req[v].target]
          BY <3>2, <2>4 DEF IInv, Keyed
        <4>2. req[v].actor \in Account /\ req[v].target \in Account
          BY <3>2, <2>4 DEF IInv, Named
        <4> QED BY <3>2, <4>1, <4>2, <2>4, <2>5
      <3> QED BY <3>1, <3>2
    <2>11. Kept'
      <3> SUFFICES ASSUME NEW u \in Account
                   PROVE  /\ table[u].there => committed[u].there
                          /\ share'[u] # {} => committed[u].there
                          /\ lock[u] # Nobody /\ ~table[u].there => share'[u] \subseteq {lock[u]}
        BY <2>1 DEF Kept
      <3> QED BY <1>2, <2>5 DEF IInv, Kept
    <2>12. Fresh'
      BY <2>1, <2>3, <2>4 DEF IInv, Fresh, Found, OthersAdminister, ActiveAdmins
    <2> QED BY <2>7, <2>8, <2>9, <2>10, <2>11, <2>12 DEF IInv
  <1> QED BY <1>1, <1>2

\* What a request has changed becomes what is committed.
LEMMA CommitIInv ==
  ASSUME IInv, NEW w \in Worker, Commit(w)
  PROVE  IInv'
  <1>1. /\ committed' = View(w) /\ lock' = Unlocked(w) /\ share' = Dropped(w) /\ table' = table
        /\ req' = [v \in Worker |-> IF v = w THEN Idle
                     ELSE [req[v] EXCEPT !.late = @ \/ req[v].step # "idle"]]
    BY DEF Commit
  <1>2. /\ req \in [Worker -> Request] /\ table \in [Account -> Row]
        /\ committed \in [Account -> Row]
    BY DEF IInv, TypeOK, Request
  <1>3. /\ req'[w].step = "idle"
        /\ \A v \in Worker \ {w} :
             /\ req'[v].step = req[v].step /\ req'[v].actor = req[v].actor
             /\ req'[v].target = req[v].target /\ req'[v].change = req[v].change
             /\ req'[v].rank = req[v].rank
             /\ req'[v].step # "idle" => req'[v].late
        /\ req' \in [Worker -> Request]
    <2>1. Idle \in Request /\ Idle.step = "idle"
      BY IdleIsRequest DEF Idle
    <2>2. ASSUME NEW v \in Worker, NEW late \in BOOLEAN
          PROVE  LET q == [req[v] EXCEPT !.late = late] IN
                 /\ q \in Request /\ q.step = req[v].step /\ q.actor = req[v].actor
                 /\ q.target = req[v].target /\ q.change = req[v].change
                 /\ q.rank = req[v].rank /\ q.late = late
      BY <1>2 DEF Request
    <2>3. \A v \in Worker : (req[v].late \/ req[v].step # "idle") \in BOOLEAN
      BY <1>2 DEF Request
    <2> QED BY <1>1, <2>1, <2>2, <2>3
  <1>4. \A u \in Account :
          /\ committed'[u] = IF lock[u] = w THEN table[u] ELSE committed[u]
          /\ lock'[u] = IF lock[u] = w THEN Nobody ELSE lock[u]
          /\ share'[u] = share[u] \ {w}
    BY <1>1, DroppedTyped DEF View
  <1>5. TypeOK'
    <2>1. lock' \in [Account -> Worker \cup {Nobody}] /\ share' \in [Account -> SUBSET Worker]
      BY <1>1, DroppedTyped
    <2>2. committed' \in [Account -> Row]
      BY <1>1, <1>2 DEF View
    <2>3. \A u \in Account : lock'[u] = Nobody => table'[u] = committed'[u]
      BY <1>1, <1>4 DEF IInv, TypeOK
    <2> QED BY <1>1, <1>2, <1>3, <2>1, <2>2, <2>3 DEF TypeOK, Request
  <1>6. Named'
    BY <1>3 DEF IInv, Named
  <1>7. Held'
    BY <1>1, <1>3, <1>4, AccountAssumption DEF IInv, Held
  <1>8. Keyed'
    <2> SUFFICES ASSUME NEW v \in Worker,
                        req'[v].step = "commit"
                          \/ (req'[v].step = "write" /\ Erases(req'[v].change))
                 PROVE  v \in share'[req'[v].actor] /\ v \in share'[req'[v].target]
      BY DEF Keyed
    <2>1. v # w
      BY <1>3
    <2>2. v \in share[req[v].actor] /\ v \in share[req[v].target]
      BY <2>1, <1>3 DEF IInv, Keyed
    <2>3. req[v].actor \in Account /\ req[v].target \in Account
      BY <2>1, <1>3 DEF IInv, Named
    <2> QED BY <2>1, <2>2, <2>3, <1>3, <1>4
  <1>9. Kept'
    <2> SUFFICES ASSUME NEW u \in Account
                 PROVE  /\ table[u].there => committed'[u].there
                        /\ share'[u] # {} => committed'[u].there
                        /\ lock'[u] # Nobody /\ ~table[u].there => share'[u] \subseteq {lock'[u]}
      BY <1>1 DEF Kept
    <2>1. CASE lock[u] = w
      <3>1. ~table[u].there => share[u] \subseteq {w}
        BY <2>1, AccountAssumption DEF IInv, Kept
      <3> QED BY <2>1, <3>1, <1>4
    <2>2. CASE lock[u] # w
      BY <2>2, <1>4 DEF IInv, Kept
    <2> QED BY <2>1, <2>2
  <1>10. Fresh'
    BY <1>3 DEF IInv, Fresh, Found, NeverByModerator
  <1> QED BY <1>5, <1>6, <1>7, <1>8, <1>9, <1>10 DEF IInv

\* A new account is known to no request.
LEMMA RegisterIInv ==
  ASSUME IInv, NEW u \in Account, Register(u)
  PROVE  IInv'
  <1> DEFINE new == [there |-> TRUE, role |-> "user", active |-> TRUE]
  <1>1. /\ lock[u] = Nobody /\ ~table[u].there /\ \A w \in Worker : u # req[w].target
        /\ UNCHANGED <<lock, share, req>>
        /\ committed' = [committed EXCEPT ![u] = new] /\ table' = [table EXCEPT ![u] = committed'[u]]
    BY DEF Register
  <1>2. new \in Row /\ new.there /\ new.role = "user"
    BY DEF Row, Role
  <1> HIDE DEF new
  <1>3. table \in [Account -> Row] /\ committed \in [Account -> Row]
    BY DEF IInv, TypeOK
  <1>4. /\ committed'[u] = new /\ table'[u] = new
        /\ \A v \in Account \ {u} : committed'[v] = committed[v] /\ table'[v] = table[v]
        /\ committed' \in [Account -> Row] /\ table' \in [Account -> Row]
    BY <1>1, <1>2, <1>3
  <1>5. TypeOK'
    <2>1. \A v \in Account : lock'[v] = Nobody => table'[v] = committed'[v]
      BY <1>1, <1>4 DEF IInv, TypeOK
    <2> QED BY <1>1, <1>4, <2>1 DEF IInv, TypeOK
  <1>6. Named' /\ Keyed'
    BY <1>1 DEF IInv, Named, Keyed
  <1>7. Held'
    BY <1>1, <1>4, AccountAssumption DEF IInv, Held
  <1>8. Kept'
    BY <1>1, <1>2, <1>4 DEF IInv, Kept
  <1>9. Fresh'
    <2>1. committed[u].role = "user"
      BY <1>1, <1>3 DEF IInv, TypeOK, Row, Gone
    <2>2. ActiveAdmins(committed') = ActiveAdmins(committed)
      BY <2>1, <1>2, <1>4 DEF ActiveAdmins
    <2>3. ASSUME NEW w \in Worker PROVE Found(req[w])'
      <3>1. Found(req[w]) /\ req'[w] = req[w]
        BY <1>1 DEF IInv, Fresh
      <3>2. req[w].step # "idle" => committed'[req[w].target] = committed[req[w].target]
        BY <1>1, <1>4 DEF IInv, Named
      <3> QED BY <3>1, <3>2, <2>2 DEF Found, OthersAdminister
    <2> QED BY <2>3 DEF Fresh
  <1> QED BY <1>5, <1>6, <1>7, <1>8, <1>9 DEF IInv

\* Every step keeps the invariant.
LEMMA NextIInv ==
  ASSUME IInv, [Next]_vars
  PROVE  IInv'
  <1>1. ASSUME NEW w \in Worker, NEW a \in Account, NEW t \in Account, NEW c \in Change,
               Ask(w, a, t, c)
        PROVE  IInv'
    BY <1>1, AskIInv
  <1>2. ASSUME NEW w \in Worker, ReadTarget(w) PROVE IInv'
    BY <1>2, ReadTargetIInv
  <1>3. ASSUME NEW w \in Worker, CountAdmins(w) PROVE IInv'
    BY <1>3, CountAdminsIInv
  <1>4. ASSUME NEW w \in Worker, Write(w) PROVE IInv'
    BY <1>4, WriteIInv
  <1>5. ASSUME NEW w \in Worker, Audit(w) PROVE IInv'
    BY <1>5, AuditIInv
  <1>6. ASSUME NEW w \in Worker, Commit(w) PROVE IInv'
    BY <1>6, CommitIInv
  <1>7. ASSUME NEW w \in Worker, TimeOut(w) PROVE IInv'
    BY <1>7, UndoIInv DEF TimeOut
  <1>8. ASSUME NEW u \in Account, Register(u) PROVE IInv'
    BY <1>8, RegisterIInv
  <1>9. CASE UNCHANGED vars
    BY <1>9 DEF vars, IInv, TypeOK, Named, Held, Keyed, Kept, Fresh, Found, OthersAdminister,
                ActiveAdmins
  <1> QED BY <1>1, <1>2, <1>3, <1>4, <1>5, <1>6, <1>7, <1>8, <1>9 DEF Next

-----------------------------------------------------------------------------
\* What an account's row, its locks and the requests look like.
THEOREM Invariance == Spec => []IInv
  <1>1. Init => IInv
    BY InitIInv
  <1>2. IInv /\ [Next]_vars => IInv'
    BY NextIInv
  <1> QED BY <1>1, <1>2, PTL DEF Spec

\* Types, and that a row that nobody has changed is as it was committed.
THEOREM TypeCorrect == Spec => []TypeOK
  <1>1. IInv => TypeOK
    BY DEF IInv
  <1> QED BY <1>1, Invariance, PTL

\* Only the end of a request makes its changes seen, and takes none of them back.
LEMMA CommitsCommit ==
  ASSUME IInv, [Next]_vars, NEW w \in Worker, Commits(w)
  PROVE  Commit(w)
  <1>1. req \in [Worker -> Request] /\ req[w].step = "commit" /\ req'[w].step = "idle"
    BY DEF IInv, TypeOK, Request, Commits
  <1>2. ASSUME NEW v \in Worker, v # w, req' = [req EXCEPT ![v] = req'[v]] PROVE FALSE
    BY <1>1, <1>2
  <1>3. ASSUME NEW v \in Worker,
               \/ \E a, t \in Account, c \in Change : Ask(v, a, t, c)
               \/ ReadTarget(v) \/ CountAdmins(v) \/ Write(v) \/ Audit(v) \/ TimeOut(v)
        PROVE  FALSE
    <2>1. v # w
      BY <1>1, <1>3 DEF Ask, ReadTarget, CountAdmins, Write, Audit, TimeOut, WaitsFor
    <2>2. req'[w] = req[w]
      BY <1>1, <1>3, <2>1 DEF Ask, ReadTarget, CountAdmins, Write, Audit, TimeOut, Undo
    <2> QED BY <1>1, <2>2
  <1>4. ASSUME NEW v \in Worker, v # w, Commit(v) PROVE FALSE
    <2>1. req'[w] = [req[w] EXCEPT !.late = @ \/ req[w].step # "idle"]
      BY <1>4 DEF Commit
    <2>2. req'[w].step = req[w].step
      BY <2>1, <1>1 DEF Request
    <2> QED BY <1>1, <2>2
  <1>5. ~UNCHANGED req
    BY <1>1
  <1> QED BY <1>3, <1>4, <1>5 DEF Next, Register, vars

\* Whoever changes another account is still there when that is committed.
THEOREM ActorHolds == Spec => ActorOutlivesAction
  <1> DEFINE Step == \A w \in Worker :
               Commits(w) /\ req[w].change.do # "leave" /\ committed' # committed
                 => committed'[req[w].actor].there
  <1>1. IInv /\ [Next]_vars => Step
    <2> SUFFICES ASSUME IInv, [Next]_vars, NEW w \in Worker, Commits(w),
                        req[w].change.do # "leave"
                 PROVE  committed'[req[w].actor].there
      OBVIOUS
    <2> DEFINE a == req[w].actor
    <2>1. Commit(w) /\ req[w].step = "commit"
      BY CommitsCommit DEF Commits
    <2>2. a \in Account /\ a # req[w].target
      BY <2>1 DEF IInv, Named, SelfRule
    <2>3. lock[a] # w
      BY <2>2 DEF IInv, Held
    <2>4. w \in share[a]
      BY <2>1 DEF IInv, Keyed
    <2>5. committed[a].there
      BY <2>2, <2>4 DEF IInv, Kept
    <2>6. committed'[a] = committed[a]
      BY <2>1, <2>2, <2>3 DEF Commit, View
    <2> QED BY <2>5, <2>6
  <1>2. IInv /\ [Next]_vars => [Step]_vars
    BY <1>1
  <1> QED BY <1>2, Invariance, PTL DEF Spec, ActorOutlivesAction

\* The last active administrator is lost only by a request that another one
\* overtook after its last check.
THEOREM AdminHolds == Spec => AdminLostOnlyLate
  <1> DEFINE Step == \A w \in Worker :
               Commits(w) /\ ActiveAdmins(committed) # {} /\ ActiveAdmins(committed') = {}
                 => req[w].late
  <1>1. IInv /\ [Next]_vars => Step
    <2> SUFFICES ASSUME IInv, [Next]_vars, NEW w \in Worker, Commits(w), ~req[w].late,
                        NEW u \in ActiveAdmins(committed)
                 PROVE  ActiveAdmins(committed') # {}
      OBVIOUS
    <2> DEFINE t == req[w].target
               c == req[w].change
    <2>1. Commit(w) /\ req[w].step = "commit"
      BY CommitsCommit DEF Commits
    <2>2. t \in Account /\ c \in Change
      BY <2>1 DEF IInv, Named, TypeOK
    <2>3. \A v \in Account : committed'[v] = IF lock[v] = w THEN table[v] ELSE committed[v]
      BY <2>1 DEF Commit, View
    <2>4. \A v \in ActiveAdmins(committed) : lock[v] # w => v \in ActiveAdmins(committed')
      BY <2>3 DEF ActiveAdmins
    <2>5. CASE lock[u] # w
      BY <2>4, <2>5
    <2>6. CASE lock[u] = w
      <3>1. u = t /\ table[t] = Changed(committed[t], c) /\ u \in Account
            /\ committed[t].there
        BY <2>6 DEF IInv, Held, ActiveAdmins
      <3>2. OthersAdminister(committed, t) \/ ~Removes(committed[t], c)
        BY <2>1 DEF IInv, Fresh, Found
      <3>3. CASE OthersAdminister(committed, t)
        <4>1. PICK v \in ActiveAdmins(committed) : v # t
          BY <3>3 DEF OthersAdminister
        <4>2. lock[v] # w
          BY <4>1 DEF IInv, Held, ActiveAdmins
        <4> QED BY <4>2, <2>4
      <3>4. CASE ~Removes(committed[t], c)
        <4>1. committed[t].role = "admin" /\ committed[t].active
          BY <3>1 DEF ActiveAdmins
        <4>2. ~Erases(c) /\ (c.do = "role" => c.to = "admin") /\ (c.do = "active" => c.to)
          BY <4>1, <3>4, <2>2 DEF Removes, Erases, Change
        <4>3. committed[t] \in Row
          BY <2>2 DEF IInv, TypeOK
        <4>4. table[t].role = "admin" /\ table[t].active
          BY <3>1, <4>1, <4>2, <4>3, <2>2 DEF Changed, Row, Change, Erases
        <4> QED BY <4>4, <3>1, <2>3, <2>6 DEF ActiveAdmins
      <3> QED BY <3>2, <3>3, <3>4
    <2> QED BY <2>5, <2>6
  <1>2. IInv /\ [Next]_vars => [Step]_vars
    BY <1>1
  <1> QED BY <1>2, Invariance, PTL DEF Spec, AdminLostOnlyLate

\* A moderator bans nobody who was above a user when set_user_active looked,
\* unless another request overtook his.
THEOREM ModeratorHolds == Spec => ModeratorWithinReach
  <1> DEFINE Step == \A w \in Worker :
               Commits(w) /\ req[w].rank = 2 /\ committed' # committed
                 /\ Rank(committed[req[w].target]) > 1 /\ req[w].change.do = "active"
                 => req[w].late
  <1>1. IInv /\ [Next]_vars => Step
    <2> SUFFICES ASSUME IInv, NEW w \in Worker, Commits(w), ~req[w].late,
                        req[w].rank = 2, req[w].change.do = "active",
                        Rank(committed[req[w].target]) > 1
                 PROVE  FALSE
      OBVIOUS
    <2>1. WithinReach(req[w].rank, committed[req[w].target], req[w].change)
      BY DEF Commits, IInv, Fresh, Found
    <2> QED BY <2>1 DEF WithinReach
  <1>2. IInv /\ [Next]_vars => [Step]_vars
    BY <1>1
  <1> QED BY <1>2, Invariance, PTL DEF Spec, ModeratorWithinReach

\* Requests that only change rows never wait for each other in a circle: who
\* waits to change a row waits for a request that waits, if at all, for a
\* deletion.
THEOREM CircleHolds == Spec => []CircleNeedsDeletions
  <1>1. IInv => CircleNeedsDeletions
    <2> SUFFICES ASSUME IInv, NEW C \in SUBSET Worker, NEW w \in C,
                        \A v \in C : WaitsFor(v) \cap C # {} /\ ~Erases(req[v].change)
                 PROVE  FALSE
      BY DEF CircleNeedsDeletions
    <2>1. ASSUME NEW v \in C, NEW u \in Account, lock[u] = v PROVE table[u].there
      <3>1. committed[u].there /\ table[u] = Changed(committed[u], req[v].change)
            /\ committed[u] \in Row /\ req[v].change \in Change
        BY <2>1 DEF IInv, Held, TypeOK
      <3> QED BY <3>1, ChangedTyped
    <2>2. ASSUME NEW v \in C, req[v].step = "audit" PROVE FALSE
      <3>1. req[v].actor \in Account /\ req[v].target \in Account
        BY <2>2 DEF IInv, Named
      <3>2. PICK x \in C : x \in KeyWaits(v, req[v].actor) \cup KeyWaits(v, req[v].target)
        BY <2>2 DEF WaitsFor
      <3> QED BY <3>1, <3>2, <2>1 DEF KeyWaits
    <2>3. ASSUME NEW v \in C, req[v].step = "write" PROVE FALSE
      <3>1. req[v].target \in Account
        BY <2>3 DEF IInv, Named
      <3>2. PICK x \in C : x = lock[req[v].target]
        BY <2>3 DEF WaitsFor
      <3>3. req[x].step = "commit" \/ req[x].step = "audit"
        BY <3>1, <3>2 DEF IInv, Held
      <3>4. req[x].step # "commit"
        BY DEF WaitsFor
      <3> QED BY <3>3, <3>4, <2>2
    <2>4. req[w].step \in {"write", "audit"}
      BY DEF WaitsFor
    <2> QED BY <2>2, <2>3, <2>4
  <1> QED BY <1>1, Invariance, PTL
=============================================================================
