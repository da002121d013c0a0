------------------------------ MODULE MCServer ------------------------------
(***************************************************************************)
(* What the server does beside the queue, side by side: the seals of the   *)
(* days, the codes that a user is sent, the limiter of attempts, the       *)
(* watchdog of collection, the runner of migrations and the direct         *)
(* collection.                                                             *)
(***************************************************************************)
EXTENDS AccountCodes, RateLimiter, Migrations, CollectWatchdog, DaySeal, DirectCollect, TLC

VARIABLE part

\* A shop of two pages, one of one, and one that is switched off because it
\* refuses the server: its pages are told by a hub.
MCSources ==
  <<[pages |-> 2, hub |-> FALSE, enabled |-> TRUE, satellite |-> FALSE],
    [pages |-> 1, hub |-> FALSE, enabled |-> TRUE, satellite |-> FALSE],
    [pages |-> 1, hub |-> TRUE, enabled |-> FALSE, satellite |-> TRUE]>>

Symmetry ==
  UNION {Permutations(S) : S \in {Tx, Run, Worker, Thread, Key}}

MCPage == {<<"a">>, <<"a", "b", "c">>}

\* Codes of two kinds do not meet: of two that differ the reset's is the first.
SentAs(kind) ==
  SentOf(table, kind) \cup {req[w].code : w \in {v \in Sending : req[v].kind = kind}}

ResetFirst == \A c \in SentAs("verify")', d \in SentAs("reset")' : d < c

-----------------------------------------------------------------------------
\* One part runs, the others stay as they begin.
allvars == <<part, migrationVars, codeVars, limiterVars, watchdogVars, sealVars, collectVars>>

PartsInit ==
  /\ part \in {"seals", "codes", "limiter", "watchdog", "migrations", "collect"}
  /\ CodesInit /\ MigrationsInit /\ WatchdogInit /\ LimiterInit /\ SealInit /\ CollectInit

PartsNext ==
  /\ UNCHANGED part
  /\ IF part = "migrations" THEN TRUE ELSE UNCHANGED migrationVars
  /\ IF part = "codes" THEN TRUE ELSE UNCHANGED codeVars
  /\ IF part = "limiter" THEN TRUE ELSE UNCHANGED limiterVars
  /\ IF part = "watchdog" THEN TRUE ELSE UNCHANGED watchdogVars
  /\ IF part = "seals" THEN TRUE ELSE UNCHANGED sealVars
  /\ IF part = "collect" THEN TRUE ELSE UNCHANGED collectVars
  /\ \/ part = "seals" /\ SealNext
     \/ part = "codes" /\ CodesNext /\ ResetFirst
     \/ part = "limiter" /\ LimiterNext
     \/ part = "watchdog" /\ WatchdogNext
     \/ part = "migrations" /\ MigrationsNext
     \/ part = "collect" /\ CollectNext

PartsSpec == PartsInit /\ [][PartsNext]_allvars

-----------------------------------------------------------------------------
\* (OneGoodCode, MissesCounted, SpentStaysSpent and ResetSpendsAll are
\* AccountCodes', WindowKept is RateLimiter's, OnceUnlessTorn is Migrations',
\* SilenceBounded CollectWatchdog's, ProofsVerify, ChainLinear and
\* SealsKeepLedger DaySeal's, RunsTruthful DirectCollect's.)
=============================================================================
