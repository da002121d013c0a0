-------------------------- MODULE CollectWatchdog --------------------------
(***************************************************************************)
(* scripts/alert_collect.py, which a timer starts every quarter of an hour: *)
(* it asks whether collection is alive, tells the operator of a change, and *)
(* keeps in ops_alert what it knows.  A pass may fail to send, or die after *)
(* it has sent.                                                             *)
(***************************************************************************)
EXTENDS Integers

CONSTANTS
  RemindAfter,  \* REMIND_HOURS, in passes of the timer
  MaxTurns      \* a bound of the model

ASSUME WatchdogAssumption == RemindAfter \in Nat \ {0} /\ MaxTurns \in Nat

Never == -RemindAfter - 1
Nothing == "none"

VARIABLES
  now,    \* in passes
  row,    \* the row of ops_alert: state, last_sent_at
  told,   \* the last message that reached the operator, and when
  pass    \* the last pass: what it decided and how the sending went

watchdogVars == <<now, row, told, pass>>

-----------------------------------------------------------------------------
\* decide.  Slip: one reminder is enough.
RemindsOnce(t) == row.lastSent = Never

Reminds(t) == row.lastSent = Never \/ t - row.lastSent >= RemindAfter

Decide(state, t) ==
  CASE row.state = state -> IF state = "down" /\ Reminds(t) THEN "reminder" ELSE Nothing
    [] row.state # state /\ state = "down" -> "down"
    [] row.state # state /\ state = "ok" -> IF row.state = Nothing THEN Nothing ELSE "recovered"

WatchdogInit ==
  /\ now = 0
  /\ row = [state |-> Nothing, lastSent |-> Never]
  /\ told = [kind |-> Nothing, at |-> Never]
  /\ pass = [sent |-> Nothing, way |-> "quiet"]

\* One pass.  The state is written whether or not the message went out; a pass
\* that dies in between has told the operator and written nothing.
Pass(state, way) ==
  LET kind == Decide(state, now)
      out  == kind # Nothing /\ way \in {"ok", "dies"}
  IN
  /\ now < MaxTurns /\ now' = now + 1
  /\ kind = Nothing => way = "ok"
  /\ told' = IF out THEN [kind |-> kind, at |-> now] ELSE told
  /\ row' = IF way = "dies" THEN row
            ELSE [state |-> state, lastSent |-> IF out THEN now ELSE row.lastSent]
  /\ pass' = [sent |-> kind, way |-> IF kind = Nothing THEN "quiet" ELSE way]

\* The timer's next turn comes without a pass: the server is down.
Skip ==
  /\ now < MaxTurns /\ now' = now + 1
  /\ pass' = [sent |-> Nothing, way |-> "skipped"]
  /\ UNCHANGED <<row, told>>

WatchdogNext == (\E state \in {"ok", "down"}, way \in {"ok", "lost", "dies"} : Pass(state, way)) \/ Skip

WatchdogSpec == WatchdogInit /\ [][WatchdogNext]_watchdogVars

-----------------------------------------------------------------------------
\* Properties.

Outage == {"down", "reminder"}

\* Whoever is not told of an outage was told something else less than
\* RemindAfter ago, or his message has just been lost: a lost message is made
\* up for by a reminder, but only RemindAfter after the message before it, so
\* that after a recovery that was announced the operator may take collection
\* for alive so long.
SilenceBounded ==
  row.state = "down" /\ told.kind \notin Outage /\ pass.way \in {"quiet", "ok"}
    => told.at # Never /\ now - 1 - told.at < RemindAfter

\* The operator is not told twice of one outage within RemindAfter, unless the
\* pass that told him died before it could write that down, or collection came
\* back in between without his hearing of it.
NoNagging ==
  [][told' # told /\ told'.kind = "reminder" /\ told.kind # Nothing
       => \/ told'.at - told.at >= RemindAfter
          \/ row.lastSent # told.at]_watchdogVars
=============================================================================
