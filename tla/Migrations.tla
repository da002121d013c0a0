----------------------------- MODULE Migrations -----------------------------
(***************************************************************************)
(* db/migrate.py: the scripts of migrations/ that schema_migration does    *)
(* not list are run in the order of their numbers, each in one round trip  *)
(* that takes effect as a whole or not at all, and then listed, in a       *)
(* transaction of its own.  The process may die between the two.           *)
(***************************************************************************)
EXTENDS Integers, FiniteSets, FiniteSetsExt

CONSTANTS
  Version,     \* numbers of scripts
  Rerunnable,  \* scripts that may run again (IF NOT EXISTS, OR REPLACE, ...)
  MaxRuns      \* times the runner is started; a bound of the model

ASSUME MigrationAssumption ==
  Version \subseteq Nat /\ IsFiniteSet(Version) /\ Rerunnable \subseteq Version /\ MaxRuns \in Nat

NoVersion == -1

VARIABLES
  files,    \* scripts that have been deployed
  effect,   \* version -> times its script has taken effect
  listed,   \* schema_migration
  at,       \* the runner: the script it is at, and whether that has run
  done,     \* what the runner read from schema_migration when it started
  runs,     \* times it was started
  torn      \* scripts that took effect in a run that died before it listed them

migrationVars == <<files, effect, listed, at, done, runs, torn>>

Off == [version |-> NoVersion, ran |-> FALSE]

-----------------------------------------------------------------------------
\* The next of the files, in order, that is not done.  Slip: the next of the files.
NextFile(above) ==
  LET S == {v \in files : v > above} IN IF S = {} THEN NoVersion ELSE Min(S)

NextPending(above) ==
  LET S == {v \in files \ done' : v > above} IN IF S = {} THEN NoVersion ELSE Min(S)

\* CREATE TABLE and the like: "already exists".
FailsAgain(v) == effect[v] > 0 /\ v \notin Rerunnable

MigrationsInit ==
  /\ files = {} /\ listed = {} /\ done = {} /\ torn = {}
  /\ effect = [v \in Version |-> 0]
  /\ at = Off /\ runs = 0

\* Scripts come with deployments, not always in the order of their numbers.
Deploy(v) ==
  /\ at = Off /\ v \notin files /\ files' = files \cup {v}
  /\ UNCHANGED <<effect, listed, at, done, runs, torn>>

Start ==
  /\ at = Off /\ runs < MaxRuns /\ runs' = runs + 1
  /\ done' = listed
  /\ at' = [version |-> NextPending(NoVersion), ran |-> FALSE]
  /\ UNCHANGED <<files, effect, listed, torn>>

\* The script takes effect, or the run ends with the exception.
RunScript ==
  /\ at.version # NoVersion /\ ~at.ran
  /\ IF FailsAgain(at.version)
       THEN at' = Off /\ UNCHANGED effect
       ELSE /\ at' = [at EXCEPT !.ran = TRUE]
            /\ effect' = [effect EXCEPT ![at.version] = @ + 1]
  /\ UNCHANGED <<files, listed, done, runs, torn>>

List ==
  /\ at.ran
  /\ listed' = listed \cup {at.version}
  /\ UNCHANGED done
  /\ at' = [version |-> NextPending(at.version), ran |-> FALSE]
  /\ UNCHANGED <<files, effect, runs, torn>>

Die ==
  /\ at.version # NoVersion /\ at' = Off
  /\ torn' = IF at.ran THEN torn \cup {at.version} ELSE torn
  /\ UNCHANGED <<files, effect, listed, done, runs>>

MigrationsNext == (\E v \in Version : Deploy(v)) \/ Start \/ RunScript \/ List \/ Die

MigrationsSpec == MigrationsInit /\ [][MigrationsNext]_migrationVars

-----------------------------------------------------------------------------
\* Properties.

\* A script has taken effect as often as it is listed, except one whose run
\* died between its effect and its row: apply never runs a listed one again.
OnceUnlessTorn ==
  \A v \in Version \ torn :
    effect[v] = IF v \in listed \/ at = [version |-> v, ran |-> TRUE] THEN 1 ELSE 0

\* No script takes effect while one with a lower number is deployed and has
\* not: a script that fails, or was left torn, stops those after it.
NoScriptAhead ==
  [][\A v \in Version : effect'[v] # effect[v] =>
       \A u \in files : u < v => effect[u] > 0 /\ u \in listed]_migrationVars
=============================================================================
