-------------------------- MODULE AgentProperties --------------------------
(***************************************************************************)
(* What the agent process must do right, stated over Agent.                *)
(***************************************************************************)
EXTENDS Agent

Runs(w, s) == w \in Live /\ wsession[w] = s

\* While main destroys its locals the registry is gone: nothing is said of it.
RegistryExists == mainpc # "unwinding"

-----------------------------------------------------------------------------
(* Invariants *)

\* The server may name a session again while it runs (its answer was lost,
\* or it repeats RUN until it has a result).  Two threads must never run the
\* same session: both would write the same log files and both would report.
NoConcurrentSession ==
  \A v, w \in Live : wsession[v] = wsession[w] => v = w

\* active_sessions holds the sessions of the live threads and the one main is
\* about to start a thread for; the claim is made by main and undone by the
\* thread, each under its own section of active_sessions_mutex.  A session
\* too few would run twice, a session too many would never run again.
RegistryIsExact ==
  RegistryExists =>
    active = {wsession[w] : w \in Live} \cup (IF mainpc = "spawn" THEN {task} ELSE {})

\* The half of RegistryIsExact that holds even if std::async fails: whatever
\* runs is claimed.
LiveIsClaimed == RegistryExists => {wsession[w] : w \in Live} \subseteq active

\* README.md: max_parallel_tasks is the maximum of tasks that run at once.
\* The code bounds the futures it has not collected, not the tasks.
ParallelLimit == Cardinality(Live) <= MaxParallel

\* httplib::Client is used by one thread at a time, and the holder of
\* client_mutex_ is the one thread whose request is under way.
OneRequestInFlight ==
  /\ mutex = "main" <=> mainpc = "waiting"
  /\ \A w \in Workers :
       mutex = w <=> wpc[w] \in {"posting", "posting_error"}

\* The configured interval doubled n times.
Doubled(n) ==
  LET doubled[i \in 0 .. n] == IF i = 0 THEN PollInterval ELSE 2 * doubled[i - 1]
  IN  doubled[n]

\* Twice the longest interval is an int.
DoublingFits == 2 * BackoffMax <= IntMax

\* After n polling errors in a row the loop sleeps for the configured
\* interval doubled n times, up to backoff_max_sec (technical_spec.md: the
\* interval grows by backoff); a duplicate answer does not count as recovery.
\* A backoff_max_sec above half of INT_MAX takes this away: the product in
\* the handler of polling errors overflows.
BackoffFollowsErrors ==
  DoublingFits => interval = Lower(Doubled(failures), BackoffMax)

\* No poll and no result leaves the agent without an access code: whatever
\* the configuration and the registration gave, the process that has none
\* has ended (main.cpp, register_agent).
RequestsCarryCode ==
  /\ access_code = "" => mainpc \in {"probe", "register", "exited"}
  /\ Live # {} => access_code # ""

\* One run of a session leaves one outcome on the server: a task reported as
\* done is not reported as failed as well.
OneOutcomePerRun == \A s \in Sessions : Cardinality(received[s]) <= 1

-----------------------------------------------------------------------------
(* Action property *)

\* main refuses a session (duplicate session skipped) only while a thread
\* owns it.  technical_spec.md: at RUN the task is run in a thread of its own.
Refused == mainpc = "claim" /\ mainpc' = "nap"
OnlyRunningSessionsAreRefused ==
  [][Refused => \E w \in Workers : Runs(w, task)]_vars

-----------------------------------------------------------------------------
(* Liveness, under Fairness *)

\* technical_spec.md: the agent polls wa_task periodically.  It must go on
\* when some commands never end, and when requests fail.
PollingNeverStops == []<>(mainpc = "poll")

\* Whatever is claimed is released: by the thread or by a new process.
ClaimsAreReleased ==
  \A s \in Sessions \ Hanging : s \in active ~> s \notin active

\* technical_spec.md: a task that fails is reported to the server all the
\* same.  Every run that ends gets to its request to wa_result, unless the
\* process dies first.
EveryRunIsReported ==
  \A w \in Workers :
    wpc[w] = "executing" /\ wsession[w] \notin Hanging ~>
      \/ wpc[w] \in {"posting", "posting_error"}
      \/ mainpc = "exited"

-----------------------------------------------------------------------------
(* Refinement *)

PhaseOf(s) ==
  IF \E w \in Workers : Runs(w, s) /\ wpc[w] \in {"releasing", "releasing_throw"}
  THEN "reported"
  ELSE IF \E w \in Workers : Runs(w, s) THEN "running" ELSE "free"

PhaseMap == [s \in Sessions |-> PhaseOf(s)]

Service == INSTANCE TaskService WITH phase <- PhaseMap

\* Threads, mutexes, polling and crashes implement the task service.
ImplementsTaskService == Service!Spec
=============================================================================
