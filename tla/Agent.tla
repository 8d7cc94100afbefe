------------------------------- MODULE Agent -------------------------------
(***************************************************************************)
(* The agent process: the polling loop of main (main.cpp), the worker      *)
(* threads it starts with std::async, and the ApiClient they share.        *)
(*                                                                         *)
(* One step is the code between two points where threads can interleave:   *)
(* a mutex, a request, a sleep, the start and the end of a thread.         *)
(* Workers are the slots of the vector of futures; a slot that is not      *)
(* "idle" holds a future that prune_completed has not collected yet.       *)
(***************************************************************************)
EXTENDS ApiProtocol, FiniteSets

CONSTANTS
  Workers,            \* slots for worker threads
  MaxParallel,        \* max_parallel_tasks
  PollInterval,       \* poll_interval_sec
  BackoffMax,         \* backoff_max_sec
  IntMax,             \* INT_MAX
  ConfigCode,         \* access_code of the configuration, "" when empty
  RegisterOnStartup,  \* register_on_startup
  Replies,            \* the answers the server gives to any request
  Hanging,            \* sessions whose command never ends
  SendMayThrow,       \* send_result can run out of resources and throw
  SpawnMayFail,       \* std::async can fail to start a thread
  MaxCrashes,         \* bound: crashes of the process
  MaxFailures         \* bound: polling errors in a row that are counted

ASSUME SessionsAssumption == "" \notin Sessions
ASSUME WorkersAssumption ==
  IsFiniteSet(Workers) /\ "free" \notin Workers /\ "main" \notin Workers
ASSUME LimitAssumption == MaxParallel \in Nat \ {0}
ASSUME IntervalAssumption ==
  /\ PollInterval \in Nat \ {0}
  /\ IntMax \in Nat /\ BackoffMax \in 0 .. IntMax
  /\ PollInterval <= BackoffMax
ASSUME CodeAssumption == ConfigCode \in {"", "configured"}
ASSUME ReplyAssumption == Replies \subseteq Reply
ASSUME BoundAssumption == MaxCrashes \in Nat /\ MaxFailures \in Nat
ASSUME SwitchAssumption ==
  /\ RegisterOnStartup \in BOOLEAN
  /\ SendMayThrow \in BOOLEAN
  /\ SpawnMayFail \in BOOLEAN

VARIABLES
  mainpc,       \* where the main thread is
  task,         \* session of the task main is handling, "" for none
  interval,     \* current_interval
  access_code,  \* access_code_ of the client
  active,       \* active_sessions
  mutex,        \* holder of client_mutex_: "free", "main" or a worker
  wpc,          \* where each worker is
  wsession,     \* the session captured by each worker
  received,     \* server: results of the last run of each session that arrive,
                \* now or after the client has given up (Exchange)
  failures,     \* history: polling errors since the last idle or started task
  crashes       \* history: crashes so far

mainVars == <<mainpc, task, interval, failures>>
workerVars == <<wpc, wsession>>
vars == <<mainpc, task, interval, access_code, active, mutex, wpc, wsession,
          received, failures, crashes>>

MainState ==
  {"probe", "register", "loop", "poll", "waiting", "claim", "spawn", "nap",
   "unwinding", "exited"}

\* A worker owns its session from the start of the thread until the
\* destructor of its SessionGuard has erased it.
LiveState ==
  {"executing", "sending", "sending_error", "posting", "posting_error",
   "releasing", "releasing_throw"}
EndState == {"returning", "returning_throw", "done", "threw"}
WorkerState == {"idle"} \cup LiveState \cup EndState

AccessCode == {"", "configured", "issued"}

IntMin == -IntMax - 1

TypeOK ==
  /\ mainpc \in MainState
  /\ task \in Sessions \cup {""}
  /\ interval \in IntMin .. BackoffMax
  /\ access_code \in AccessCode
  /\ active \subseteq Sessions
  /\ mutex \in Workers \cup {"free", "main"}
  /\ wpc \in [Workers -> WorkerState]
  /\ wsession \in [Workers -> Sessions \cup {""}]
  /\ received \in [Sessions -> SUBSET {"done", "err"}]
  /\ failures \in 0 .. MaxFailures
  /\ crashes \in 0 .. MaxCrashes

Live == {w \in Workers : wpc[w] \in LiveState}
Pool == {w \in Workers : wpc[w] # "idle"}
Lower(a, b) == IF a <= b THEN a ELSE b

Init ==
  /\ mainpc = "probe"
  /\ task = ""
  /\ interval = PollInterval
  /\ access_code = ConfigCode
  /\ active = {}
  /\ mutex = "free"
  /\ wpc = [w \in Workers |-> "idle"]
  /\ wsession = [w \in Workers |-> ""]
  /\ received = [s \in Sessions |-> {}]
  /\ failures = 0
  /\ crashes = 0

Posted(w) == IF wpc[w] = "posting" THEN "done" ELSE "err"

\* The server has got the result, or the request was lost on its way.
Transmit(w, arrived) ==
  received' = IF arrived
              THEN [received EXCEPT ![wsession[w]] = @ \cup {Posted(w)}]
              ELSE received

\* The result that is being posted may still get to the server.
LastWords ==
  \/ UNCHANGED received
  \/ \E w \in Workers : wpc[w] \in {"posting", "posting_error"} /\ Transmit(w, TRUE)

\* The process ends and takes everything with it but what the server has.
ProcessEnds ==
  /\ mainpc' = "exited"
  /\ task' = ""
  /\ interval' = PollInterval
  /\ access_code' = ConfigCode
  /\ active' = {}
  /\ mutex' = "free"
  /\ wpc' = [w \in Workers |-> "idle"]
  /\ wsession' = [w \in Workers |-> ""]
  /\ failures' = 0
  /\ LastWords

-----------------------------------------------------------------------------
(* Start of the process *)

\* Mutant: a missing access code does not make the agent register.
RegistersIfAsked == RegisterOnStartup

MustRegister == RegisterOnStartup \/ access_code = ""

\* A failed probe is only logged.
ProbeServer ==
  /\ mainpc = "probe"
  /\ mainpc' = IF MustRegister THEN "register" ELSE "loop"
  /\ UNCHANGED <<task, interval, failures, access_code, active, mutex,
                 workerVars, received, crashes>>

\* Without any access code the process gives up with exit code 1.
Register ==
  /\ mainpc = "register"
  /\ \E r \in Replies :
       LET code == RegisterAgent(r, access_code)
       IN IF code = ""
          THEN ProcessEnds
          ELSE /\ access_code' = code
               /\ mainpc' = "loop"
               /\ UNCHANGED <<task, interval, failures, active, mutex,
                              workerVars, received>>
  /\ UNCHANGED crashes

-----------------------------------------------------------------------------
(* The loop of the main thread *)

Finished == {w \in Workers : wpc[w] = "done"}

\* Mutants: one thread too many, one too few.
PoolIsOverfull(n) == n > MaxParallel
PoolIsFullOneEarly(n) == n + 1 >= MaxParallel

PoolIsFull(n) == n >= MaxParallel

\* prune_completed and the check of the limit that follows it.
PruneCompleted ==
  /\ mainpc = "loop"
  /\ \A w \in Workers : wpc[w] # "threw"
  /\ wpc' = [w \in Workers |-> IF w \in Finished THEN "idle" ELSE wpc[w]]
  /\ wsession' = [w \in Workers |-> IF w \in Finished THEN "" ELSE wsession[w]]
  /\ mainpc' = IF PoolIsFull(Cardinality(Pool \ Finished)) THEN "nap" ELSE "poll"
  /\ UNCHANGED <<task, interval, failures, access_code, active, mutex,
                 received, crashes>>

\* get() throws in main what the thread let escape, outside the inner try:
\* main's locals are destroyed, active_sessions before the futures.
RethrowFromWorker ==
  /\ mainpc = "loop"
  /\ \E w \in Workers : wpc[w] = "threw"
  /\ mainpc' = "unwinding"
  /\ UNCHANGED <<task, interval, failures, access_code, active, mutex,
                 workerVars, received, crashes>>

\* Destroying a future of std::async waits for its thread.
Unwind ==
  /\ mainpc = "unwinding"
  /\ \A w \in Pool : wpc[w] \in {"done", "threw"}
  /\ ProcessEnds
  /\ UNCHANGED crashes

\* Mutant: requests are not serialised.
ClientIsShared == TRUE

ClientIsFree == mutex = "free"

\* post_json takes client_mutex_ for the whole request.
StartPoll ==
  /\ mainpc = "poll"
  /\ ClientIsFree
  /\ mutex' = "main"
  /\ mainpc' = "waiting"
  /\ UNCHANGED <<task, interval, failures, access_code, active, workerVars,
                 received, crashes>>

NoTaskAvailable(r) ==
  /\ FetchTask(r) = "no_task"
  /\ interval' = PollInterval
  /\ failures' = 0
  /\ mainpc' = "nap"
  /\ UNCHANGED task

\* The product of two ints as the builds for the supported processors give
\* it: an overflow, undefined in C++, goes round to the other end.
Wrapped(n) == ((n - IntMin) % (2 * (IntMax + 1))) + IntMin

\* Mutants: the base interval is doubled, or the maximum is forgotten.
BackoffOfBase(i) == Lower(Wrapped(2 * PollInterval), BackoffMax)
BackoffUnbounded(i) == Wrapped(2 * i)

\* load_config sets no upper limit to backoff_max_sec: above half of IntMax
\* the interval can go round to IntMin, from there to zero, and stay there.
Backoff(i) == Lower(Wrapped(2 * i), BackoffMax)

\* The handler of exceptions in the loop.
PollingError ==
  /\ interval' = Backoff(interval)
  /\ failures' = Lower(failures + 1, MaxFailures)
  /\ mainpc' = "nap"

PollFails(r) ==
  /\ FetchTask(r) = "throws"
  /\ PollingError
  /\ UNCHANGED task

TaskReceived(r) ==
  /\ FetchTask(r) = "task"
  /\ task' = r.session
  /\ mainpc' = "claim"
  /\ UNCHANGED <<interval, failures>>

EndPoll ==
  /\ mainpc = "waiting"
  /\ mutex' = "free"
  /\ \E r \in Replies : NoTaskAvailable(r) \/ PollFails(r) \/ TaskReceived(r)
  /\ UNCHANGED <<access_code, active, workerVars, received, crashes>>

\* Mutant: no check for duplicates.
IsNeverDuplicate(s) == FALSE

IsDuplicate(s) == s \in active

\* Under active_sessions_mutex; a duplicate leaves the interval as it is.
ClaimSession ==
  /\ mainpc = "claim"
  /\ \/ /\ IsDuplicate(task)
        /\ task' = ""
        /\ mainpc' = "nap"
        /\ UNCHANGED active
     \/ /\ ~IsDuplicate(task)
        /\ active' = active \cup {task}
        /\ mainpc' = "spawn"
        /\ UNCHANGED task
  /\ UNCHANGED <<interval, failures, access_code, mutex, workerVars, received,
                 crashes>>

SpawnWorker ==
  /\ mainpc = "spawn"
  /\ \E w \in Workers \ Pool :
       /\ wpc' = [wpc EXCEPT ![w] = "executing"]
       /\ wsession' = [wsession EXCEPT ![w] = task]
  /\ received' = [received EXCEPT ![task] = {}]
  /\ interval' = PollInterval
  /\ failures' = 0
  /\ task' = ""
  /\ mainpc' = "nap"
  /\ UNCHANGED <<access_code, active, mutex, crashes>>

\* Mutant: the handler of errors empties the registry.
SpawnFailsAndClears ==
  /\ SpawnMayFail
  /\ mainpc = "spawn"
  /\ PollingError
  /\ task' = ""
  /\ active' = {}
  /\ UNCHANGED <<access_code, mutex, workerVars, received, crashes>>

\* std::async throws: no guard exists yet, so the session stays claimed.
SpawnFails ==
  /\ SpawnMayFail
  /\ mainpc = "spawn"
  /\ PollingError
  /\ task' = ""
  /\ UNCHANGED <<access_code, active, mutex, workerVars, received, crashes>>

\* The end of each of the three sleeps; one of zero seconds or less ends at once.
WakeUp ==
  /\ mainpc = "nap"
  /\ mainpc' = "loop"
  /\ UNCHANGED <<task, interval, failures, access_code, active, mutex,
                 workerVars, received, crashes>>

-----------------------------------------------------------------------------
(* A worker thread *)

MoveWorker(w, to) == wpc' = [wpc EXCEPT ![w] = to]

\* Mutant: a task that throws is not reported.
ExecuteWithoutReport(w) ==
  /\ wpc[w] = "executing"
  /\ wsession[w] \notin Hanging
  /\ \E next \in {"sending", "releasing"} : MoveWorker(w, next)
  /\ UNCHANGED <<mainVars, access_code, active, mutex, wsession, received,
                 crashes>>

\* execute_task returns a result, whatever its code, or throws.
Execute(w) ==
  /\ wpc[w] = "executing"
  /\ wsession[w] \notin Hanging
  /\ \E next \in {"sending", "sending_error"} : MoveWorker(w, next)
  /\ UNCHANGED <<mainVars, access_code, active, mutex, wsession, received,
                 crashes>>

AcquireClient(w) ==
  /\ ClientIsFree
  /\ \/ wpc[w] = "sending" /\ MoveWorker(w, "posting")
     \/ wpc[w] = "sending_error" /\ MoveWorker(w, "posting_error")
  /\ mutex' = w
  /\ UNCHANGED <<mainVars, access_code, active, wsession, received, crashes>>

\* Mutant: a result that was not accepted is reported once more as an error.
SendReturnsAndReports(w) ==
  /\ wpc[w] \in {"posting", "posting_error"}
  /\ \E r \in Replies, arrived \in BOOLEAN :
       /\ SendResult(r) => arrived
       /\ Transmit(w, arrived)
       /\ MoveWorker(w, IF SendResult(r) THEN "releasing" ELSE "sending_error")
  /\ mutex' = "free"
  /\ UNCHANGED <<mainVars, access_code, active, wsession, crashes>>

\* send_result returns: a refused or lost result is logged and forgotten.
SendReturns(w) ==
  /\ wpc[w] \in {"posting", "posting_error"}
  /\ \E r \in Replies, arrived \in BOOLEAN :
       /\ SendResult(r) => arrived
       /\ Transmit(w, arrived)
  /\ mutex' = "free"
  /\ MoveWorker(w, "releasing")
  /\ UNCHANGED <<mainVars, access_code, active, wsession, crashes>>

\* send_result throws, before or after the server got the result: the first
\* time it is caught and reported as an error, the second time it escapes.
SendThrows(w) ==
  /\ SendMayThrow
  /\ \/ wpc[w] = "posting" /\ MoveWorker(w, "sending_error")
     \/ wpc[w] = "posting_error" /\ MoveWorker(w, "releasing_throw")
  /\ \E arrived \in BOOLEAN : Transmit(w, arrived)
  /\ mutex' = "free"
  /\ UNCHANGED <<mainVars, access_code, active, wsession, crashes>>

LeaveScope(w) ==
  \/ wpc[w] = "releasing" /\ MoveWorker(w, "returning")
  \/ wpc[w] = "releasing_throw" /\ MoveWorker(w, "returning_throw")

\* Mutant: the guard does not erase its session.
KeepClaim(s) == active

DropClaim(s) == active \ {s}

\* ~SessionGuard, under active_sessions_mutex.
ReleaseSession(w) ==
  /\ mainpc # "unwinding"
  /\ LeaveScope(w)
  /\ active' = DropClaim(wsession[w])
  /\ UNCHANGED <<mainVars, access_code, mutex, wsession, received, crashes>>

\* ~SessionGuard after main has destroyed the set and its mutex: undefined.
\* The thread goes on, it takes the process down, or, as its mutex reads as
\* locked or the walk through the freed set does not end, it takes no step.
ReleaseDestroyed(w) ==
  /\ mainpc = "unwinding"
  /\ wpc[w] \in {"releasing", "releasing_throw"}
  /\ \/ /\ LeaveScope(w)
        /\ UNCHANGED <<mainVars, access_code, active, mutex, wsession, received>>
     \/ ProcessEnds
  /\ UNCHANGED crashes

\* The thread ends and its future becomes ready.
EndThread(w) ==
  /\ \/ wpc[w] = "returning" /\ MoveWorker(w, "done")
     \/ wpc[w] = "returning_throw" /\ MoveWorker(w, "threw")
  /\ UNCHANGED <<mainVars, access_code, active, mutex, wsession, received,
                 crashes>>

-----------------------------------------------------------------------------
(* The process dies at any point; systemd starts it again *)

Crash ==
  /\ mainpc # "exited"
  /\ crashes < MaxCrashes
  /\ crashes' = crashes + 1
  /\ ProcessEnds

\* Restart=on-failure: every way out of main's loop is a failure (exit code 1
\* or a signal), and RestartSec=5 keeps the starts below systemd's limit of
\* five in ten seconds.
Restart ==
  /\ mainpc = "exited"
  /\ mainpc' = "probe"
  /\ UNCHANGED <<task, interval, failures, access_code, active, mutex,
                 workerVars, received, crashes>>

-----------------------------------------------------------------------------
MainStep ==
  \/ ProbeServer \/ Register
  \/ PruneCompleted \/ RethrowFromWorker \/ Unwind
  \/ StartPoll \/ EndPoll \/ ClaimSession \/ SpawnWorker \/ SpawnFails \/ WakeUp

WorkerStep(w) ==
  \/ Execute(w) \/ AcquireClient(w) \/ SendReturns(w) \/ SendThrows(w)
  \/ ReleaseSession(w) \/ ReleaseDestroyed(w) \/ EndThread(w)

Next ==
  \/ MainStep
  \/ \E w \in Workers : WorkerStep(w)
  \/ Crash
  \/ Restart

Spec == Init /\ [][Next]_vars

\* Every thread that can run runs, commands that end do end, and systemd
\* restarts the agent.  A worker that waits for client_mutex_ finds it free
\* again and again, because main sleeps a second or more between polls (as
\* long as the interval has not gone round, see Backoff).
Fairness ==
  /\ WF_vars(MainStep)
  /\ WF_vars(Restart)
  /\ \A w \in Workers : WF_vars(WorkerStep(w)) /\ SF_vars(AcquireClient(w))

FairSpec == Spec /\ Fairness
=============================================================================
