------------------------- MODULE CollectQueueLive ---------------------------
(***************************************************************************)
(* Progress of the lease queue.  The behaviours are those of collectors    *)
(* that are awake and answer: time passes only when no idle collector      *)
(* could be given a task and no lease is about to run out unanswered.      *)
(* Fetches, pages and answers may still fail, or go unheard.               *)
(***************************************************************************)
EXTENDS CollectQueue

Idle(w) == \A j \in jobs : j.w # w

Awake == \A w \in Worker : Idle(w) => Ripe(Seeded(queue), w) = {}

Answering == \A j \in jobs : queue[j.t].lease > 0

LiveTick == Awake /\ Answering /\ Tick

LiveLease(w) == Idle(w) /\ Lease(w)

\* What a collector does with a task it holds: fetch, then post or report.
Work(w) == \E j \in jobs : j.w = w /\ (Fetched(j) \/ Ingest(j) \/ IngestRejected(j) \/ Fail(j))

LiveNext ==
  \/ LiveTick
  \/ \E w \in Worker : LiveLease(w) \/ Work(w)
  \/ \E t \in Task : IngestByUrl(t)

LiveSpec ==
  /\ Init /\ [][LiveNext]_vars
  /\ WF_vars(LiveTick)
  /\ \A w \in Worker : WF_vars(LiveLease(w)) /\ WF_vars(Work(w))

\* Every page of the configuration is attempted again and again: given out by
\* the queue, or closed by the manual pass.  The order priority, vkey,
\* not_before must not starve a page of lower priority or value as long as the
\* shop's pages fit the time: (pages) * Spacing <= PageRepeat.
EveryPageAttempted ==
  \A t \in Task : []<>(t \in wanted => queue[t].lease >= 0 \/ queue[t].idle = 0)

\* What VALUE_ESCAPE_DAYS is for: when a shop has more pages than its time
\* allows, a page that was left out for so long is raised to the top tier and
\* its turn comes.
TailNotStarved ==
  \A t \in Task : t \in wanted /\ VKey(queue[t]) = 0 /\ queue[t].tier > 0
                   ~> queue[t].lease >= 0 \/ queue[t].idle = 0
=============================================================================
