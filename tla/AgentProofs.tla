---------------------------- MODULE AgentProofs ----------------------------
(***************************************************************************)
(* Proofs of the safety properties of AgentProperties for every number of  *)
(* sessions and workers and every value of the configuration.              *)
(* At the end: the agent implements TaskService, as long as send_result    *)
(* does not throw after the server has the result.  Threads, mutexes,      *)
(* polling and crashes add nothing to what the abstract service allows.    *)
(***************************************************************************)
EXTENDS AgentProperties, Induction, FiniteSetTheorems, TLAPS

-----------------------------------------------------------------------------
(* Type correctness *)

\* What the client holds after a registration is one of the access codes
\* (register_agent).
LEMMA RegisterAgentType ==
  ASSUME NEW r \in Replies, NEW code \in AccessCode
  PROVE  RegisterAgent(r, code) \in AccessCode
BY ReplyAssumption DEF RegisterAgent, AccessCode, Reply

\* An instruction names a session (parse_task_instruction).
LEMMA TaskHasSession ==
  ASSUME NEW r \in Replies, FetchTask(r) = "task"
  PROVE  r.session \in Sessions
BY ReplyAssumption DEF FetchTask, HasIdentity, Reply

\* The values the counters start from lie in their ranges (load_config clamps
\* the intervals).
LEMMA StartInRange ==
  /\ PollInterval \in IntMin .. BackoffMax
  /\ 0 \in 0 .. MaxFailures
  /\ 0 \in 0 .. MaxCrashes
BY IntervalAssumption, BoundAssumption DEF IntMin

\* A number below the divisor is its own remainder.
LEMMA SmallRemainder ==
  ASSUME NEW m \in Nat \ {0}, NEW n \in 0 .. m - 1
  PROVE  n % m = n
OBVIOUS

\* A remainder lies below the divisor.
LEMMA RemainderInRange ==
  ASSUME NEW m \in Nat \ {0}, NEW n \in Int
  PROVE  n % m \in 0 .. m - 1
OBVIOUS

\* Whatever overflows, an int comes out; what is an int stays as it is.
LEMMA WrappedIsInt ==
  ASSUME NEW n \in Int
  PROVE  /\ Wrapped(n) \in IntMin .. IntMax
         /\ n \in IntMin .. IntMax => Wrapped(n) = n
<1> DEFINE m == 2 * (IntMax + 1)
<1>1. IntMax \in Nat /\ IntMin = -IntMax - 1 /\ m \in Nat \ {0} /\ m = 2 * IntMax + 2
  BY IntervalAssumption DEF IntMin
<1>2. Wrapped(n) = ((n - IntMin) % m) + IntMin
  BY DEF Wrapped
<1> HIDE DEF m
<1>3. (n - IntMin) % m \in 0 .. m - 1
  BY <1>1, RemainderInRange
<1>4. n \in IntMin .. IntMax => (n - IntMin) % m = n - IntMin
  <2> SUFFICES ASSUME n \in IntMin .. IntMax PROVE (n - IntMin) % m = n - IntMin
    OBVIOUS
  <2>1. n - IntMin \in 0 .. m - 1
    BY <1>1
  <2> QED BY <1>1, <2>1, SmallRemainder
<1> QED BY <1>1, <1>2, <1>3, <1>4

\* A doubled and capped interval is an int below the maximum (main.cpp, the
\* handler of polling errors).
LEMMA BackoffInRange ==
  ASSUME NEW i \in IntMin .. BackoffMax
  PROVE  Backoff(i) \in IntMin .. BackoffMax
<1>1. 2 * i \in Int /\ IntMin \in Int /\ BackoffMax \in Int /\ IntMin <= BackoffMax
  BY IntervalAssumption DEF IntMin
<1>2. Wrapped(2 * i) \in IntMin .. IntMax
  BY <1>1, WrappedIsInt
<1> QED BY <1>1, <1>2, IntervalAssumption DEF Backoff, Lower

\* The count of polling errors stays below its bound.
LEMMA FailuresInRange ==
  ASSUME NEW n \in 0 .. MaxFailures
  PROVE  Lower(n + 1, MaxFailures) \in 0 .. MaxFailures
BY BoundAssumption DEF Lower

\* The count of crashes stays below its bound.
LEMMA CrashInRange ==
  ASSUME NEW n \in 0 .. MaxCrashes, n < MaxCrashes
  PROVE  n + 1 \in 0 .. MaxCrashes
BY BoundAssumption

\* main claims a session and starts a thread only for a task it has.
TaskIsKnown == mainpc \in {"claim", "spawn"} => task \in Sessions

TypeInv == TypeOK /\ TaskIsKnown

\* The state the process starts from has the types of its variables.
LEMMA TypeInit == Init => TypeInv
BY StartInRange, CodeAssumption
   DEF Init, TypeInv, TypeOK, TaskIsKnown, MainState, AccessCode, WorkerState

\* Whatever becomes of a request to wa_result, the server's record of the
\* session is a set of outcomes.
LEMMA TypeTransmit ==
  ASSUME TypeOK, NEW w \in Workers, NEW arrived \in BOOLEAN, Transmit(w, arrived)
  PROVE  received' \in [Sessions -> SUBSET {"done", "err"}]
<1>1. Posted(w) \in {"done", "err"}
  BY DEF Posted
<1>2. CASE arrived /\ wsession[w] \in Sessions
  <2>1. received[wsession[w]] \cup {Posted(w)} \in SUBSET {"done", "err"}
    BY <1>1, <1>2 DEF TypeOK
  <2> QED BY <1>2, <2>1 DEF TypeOK, Transmit
<1>3. CASE ~(arrived /\ wsession[w] \in Sessions)
  BY <1>3 DEF TypeOK, Transmit
<1> QED BY <1>2, <1>3

\* A process that ends leaves well-typed variables.
LEMMA TypeProcessEnds ==
  ASSUME TypeOK, ProcessEnds, crashes' \in 0 .. MaxCrashes
  PROVE  TypeInv'
<1>1. received' \in [Sessions -> SUBSET {"done", "err"}]
  BY TypeTransmit DEF ProcessEnds, LastWords, TypeOK
<1> QED
  BY <1>1, StartInRange, CodeAssumption
     DEF TypeInv, TypeOK, TaskIsKnown, ProcessEnds, MainState, AccessCode, WorkerState

\* Moving one worker to another of its states keeps the types.
LEMMA TypeMoveWorker ==
  ASSUME TypeOK, NEW w \in Workers, NEW to \in WorkerState, MoveWorker(w, to)
  PROVE  wpc' \in [Workers -> WorkerState]
BY DEF TypeOK, MoveWorker

\* Every step of the main thread keeps the types.
LEMMA TypeMainStep ==
  ASSUME TypeInv, MainStep
  PROVE  TypeInv'
<1> USE DEF TypeInv, TypeOK, TaskIsKnown
<1>1. CASE ProbeServer
  BY <1>1 DEF ProbeServer, MainState, workerVars
<1>2. CASE Register
  <2>1. PICK r \in Replies :
          LET code == RegisterAgent(r, access_code)
          IN IF code = ""
             THEN ProcessEnds
             ELSE /\ access_code' = code
                  /\ mainpc' = "loop"
                  /\ UNCHANGED <<task, interval, failures, active, mutex,
                                 workerVars, received>>
    BY <1>2 DEF Register
  <2>2. CASE RegisterAgent(r, access_code) = ""
    BY <1>2, <2>1, <2>2, TypeProcessEnds DEF Register
  <2>3. CASE RegisterAgent(r, access_code) # ""
    BY <1>2, <2>1, <2>3, RegisterAgentType DEF Register, MainState, workerVars
  <2> QED BY <2>2, <2>3
<1>3. CASE PruneCompleted
  BY <1>3 DEF PruneCompleted, MainState, WorkerState
<1>4. CASE RethrowFromWorker
  BY <1>4 DEF RethrowFromWorker, MainState, workerVars
<1>5. CASE Unwind
  BY <1>5, TypeProcessEnds DEF Unwind
<1>6. CASE StartPoll
  BY <1>6 DEF StartPoll, MainState, workerVars
<1>7. CASE EndPoll
  <2>1. PICK r \in Replies : NoTaskAvailable(r) \/ PollFails(r) \/ TaskReceived(r)
    BY <1>7 DEF EndPoll
  <2>2. CASE NoTaskAvailable(r)
    BY <1>7, <2>2, StartInRange
       DEF EndPoll, NoTaskAvailable, MainState, workerVars
  <2>3. CASE PollFails(r)
    BY <1>7, <2>3, BackoffInRange, FailuresInRange
       DEF EndPoll, PollFails, PollingError, MainState, workerVars
  <2>4. CASE TaskReceived(r)
    BY <1>7, <2>4, TaskHasSession DEF EndPoll, TaskReceived, MainState, workerVars
  <2> QED BY <2>1, <2>2, <2>3, <2>4
<1>8. CASE ClaimSession
  BY <1>8 DEF ClaimSession, MainState, workerVars
<1>9. CASE SpawnWorker
  BY <1>9, StartInRange
     DEF SpawnWorker, MainState, WorkerState, LiveState
<1>10. CASE SpawnFails
  BY <1>10, BackoffInRange, FailuresInRange
     DEF SpawnFails, PollingError, MainState, workerVars
<1>11. CASE WakeUp
  BY <1>11 DEF WakeUp, MainState, workerVars
<1> QED
  BY <1>1, <1>2, <1>3, <1>4, <1>5, <1>6, <1>7, <1>8, <1>9, <1>10, <1>11
     DEF MainStep

\* Every step of a worker thread keeps the types.
LEMMA TypeWorkerStep ==
  ASSUME TypeInv, NEW w \in Workers, WorkerStep(w)
  PROVE  TypeInv'
<1> USE DEF TypeInv, TypeOK, TaskIsKnown, mainVars
<1>1. CASE Execute(w)
  BY <1>1, TypeMoveWorker DEF Execute, WorkerState, LiveState
<1>2. CASE AcquireClient(w)
  BY <1>2, TypeMoveWorker DEF AcquireClient, WorkerState, LiveState
<1>3. CASE SendReturns(w)
  BY <1>3, TypeMoveWorker, TypeTransmit DEF SendReturns, WorkerState, LiveState
<1>4. CASE SendThrows(w)
  BY <1>4, TypeMoveWorker, TypeTransmit DEF SendThrows, WorkerState, LiveState
<1>5. CASE ReleaseSession(w)
  BY <1>5, TypeMoveWorker DEF ReleaseSession, LeaveScope, DropClaim, WorkerState, EndState
<1>6. CASE ReleaseDestroyed(w)
  <2>1. CASE ProcessEnds
    BY <1>6, <2>1, TypeProcessEnds DEF ReleaseDestroyed
  <2>2. CASE LeaveScope(w) /\ UNCHANGED <<mainVars, access_code, active, mutex,
                                          wsession, received>>
    BY <1>6, <2>2, TypeMoveWorker
       DEF ReleaseDestroyed, LeaveScope, WorkerState, EndState
  <2> QED BY <1>6, <2>1, <2>2 DEF ReleaseDestroyed
<1>7. CASE EndThread(w)
  BY <1>7, TypeMoveWorker DEF EndThread, WorkerState, EndState
<1> QED
  BY <1>1, <1>2, <1>3, <1>4, <1>5, <1>6, <1>7 DEF WorkerStep

\* The types are an inductive invariant.
LEMMA TypeNext ==
  ASSUME TypeInv, [Next]_vars
  PROVE  TypeInv'
<1>1. CASE MainStep
  BY <1>1, TypeMainStep
<1>2. CASE \E w \in Workers : WorkerStep(w)
  BY <1>2, TypeWorkerStep
<1>3. CASE Crash
  <2>1. crashes' \in 0 .. MaxCrashes
    BY <1>3, CrashInRange DEF Crash, TypeInv, TypeOK
  <2> QED BY <1>3, <2>1, TypeProcessEnds DEF Crash, TypeInv
<1>4. CASE Restart
  BY <1>4 DEF Restart, TypeInv, TypeOK, TaskIsKnown, MainState, workerVars
<1>5. CASE UNCHANGED vars
  BY <1>5 DEF vars, TypeInv, TypeOK, TaskIsKnown
<1> QED BY <1>1, <1>2, <1>3, <1>4, <1>5 DEF Next

\* All variables of the agent always have their types.
THEOREM TypeCorrect == Spec => []TypeOK
<1>1. Spec => []TypeInv
  BY TypeInit, TypeNext, PTL DEF Spec
<1>2. TypeInv => TypeOK
  BY DEF TypeInv
<1> QED BY <1>1, <1>2, PTL

-----------------------------------------------------------------------------
(* The shared client *)

\* Each step that takes or gives back client_mutex_ moves the one thread
\* whose request begins or ends.
LEMMA RequestNext ==
  ASSUME TypeInv, OneRequestInFlight, [Next]_vars
  PROVE  OneRequestInFlight'
<1> USE WorkersAssumption DEF TypeInv, TypeOK, OneRequestInFlight
<1>1. ASSUME ProcessEnds
      PROVE  OneRequestInFlight'
  BY <1>1 DEF ProcessEnds
<1>2. CASE MainStep
  <2>1. CASE Register
    BY <1>1, <2>1 DEF Register, workerVars
  <2>2. CASE PruneCompleted
    BY <2>2 DEF PruneCompleted, Finished
  <2>3. CASE Unwind
    BY <1>1, <2>3 DEF Unwind
  <2>4. CASE EndPoll
    BY <2>4 DEF EndPoll, NoTaskAvailable, PollFails, TaskReceived, PollingError,
                workerVars
  <2>5. CASE SpawnWorker
    BY <2>5 DEF SpawnWorker, Pool
  <2>6. CASE StartPoll
    BY <2>6 DEF StartPoll, ClientIsFree, workerVars
  <2>7. CASE ProbeServer \/ RethrowFromWorker \/ ClaimSession \/ SpawnFails \/ WakeUp
    BY <2>7 DEF ProbeServer, RethrowFromWorker, ClaimSession, SpawnFails, WakeUp,
                PollingError, workerVars
  <2> QED BY <1>2, <2>1, <2>2, <2>3, <2>4, <2>5, <2>6, <2>7 DEF MainStep
<1>3. ASSUME NEW w \in Workers, WorkerStep(w)
      PROVE  OneRequestInFlight'
  <2> USE DEF mainVars, MoveWorker
  <2>1. CASE Execute(w)
    BY <2>1 DEF Execute
  <2>2. CASE AcquireClient(w)
    BY <2>2 DEF AcquireClient, ClientIsFree
  <2>3. CASE SendReturns(w)
    BY <2>3 DEF SendReturns
  <2>4. CASE SendThrows(w)
    BY <2>4 DEF SendThrows
  <2>5. CASE ReleaseSession(w)
    BY <2>5 DEF ReleaseSession, LeaveScope
  <2>6. CASE ReleaseDestroyed(w)
    BY <1>1, <2>6 DEF ReleaseDestroyed, LeaveScope
  <2>7. CASE EndThread(w)
    BY <2>7 DEF EndThread
  <2> QED BY <1>3, <2>1, <2>2, <2>3, <2>4, <2>5, <2>6, <2>7 DEF WorkerStep
<1>4. CASE Crash
  BY <1>1, <1>4 DEF Crash
<1>5. CASE Restart
  BY <1>5 DEF Restart, workerVars
<1>6. CASE UNCHANGED vars
  BY <1>6 DEF vars
<1> QED BY <1>2, <1>3, <1>4, <1>5, <1>6 DEF Next

\* httplib::Client is never used by two threads at once, and whoever holds
\* client_mutex_ is the thread whose request is under way (api_client.cpp).
THEOREM ClientIsExclusive == Spec => []OneRequestInFlight
<1>1. Init => OneRequestInFlight
  BY WorkersAssumption DEF Init, OneRequestInFlight
<1>2. Spec => []TypeInv
  BY TypeInit, TypeNext, PTL DEF Spec
<1> QED BY <1>1, <1>2, RequestNext, PTL DEF Spec

-----------------------------------------------------------------------------
(* The registry of sessions *)

\* Between the claim of a session and the start of its thread the session is
\* in the registry and no thread has it.
ClaimIsReserved ==
  mainpc = "spawn" => task \in active /\ \A w \in Live : wsession[w] # task

SessionInv == NoConcurrentSession /\ LiveIsClaimed /\ ClaimIsReserved

\* A worker that moves without crossing the limits of its SessionGuard leaves
\* the registry's invariant alone.
LEMMA SessionMove ==
  ASSUME TypeInv, SessionInv, NEW w \in Workers, NEW to \in WorkerState,
         MoveWorker(w, to), wpc[w] \in LiveState \/ to \notin LiveState,
         UNCHANGED <<mainpc, task, active, wsession>>
  PROVE  SessionInv'
<1>1. Live' \subseteq Live
  BY DEF Live, MoveWorker, TypeInv, TypeOK
<1> QED
  BY <1>1 DEF SessionInv, NoConcurrentSession, LiveIsClaimed, RegistryExists,
              ClaimIsReserved

\* Nothing is claimed and nothing runs when the process has ended.
LEMMA SessionProcessEnds ==
  ASSUME ProcessEnds
  PROVE  SessionInv'
BY DEF ProcessEnds, SessionInv, NoConcurrentSession, LiveIsClaimed, RegistryExists,
       ClaimIsReserved, Live, LiveState

\* Every step of the main thread keeps the registry's invariant.
LEMMA SessionMainStep ==
  ASSUME TypeInv, SessionInv, MainStep
  PROVE  SessionInv'
<1> USE DEF SessionInv, NoConcurrentSession, LiveIsClaimed, RegistryExists, ClaimIsReserved
<1>1. ASSUME mainpc' # "spawn", mainpc # "unwinding",
             UNCHANGED <<active, wpc, wsession>>
      PROVE  SessionInv'
  BY <1>1 DEF Live
<1>2. CASE Register
  BY <1>1, <1>2, SessionProcessEnds DEF Register, workerVars
<1>3. CASE PruneCompleted
  <2>1. Live' = Live /\ \A w \in Live : wsession'[w] = wsession[w]
    BY <1>3 DEF PruneCompleted, Finished, Live, LiveState, TypeInv, TypeOK
  <2>2. mainpc' # "spawn" /\ mainpc # "unwinding" /\ UNCHANGED active
    BY <1>3 DEF PruneCompleted
  <2>3. NoConcurrentSession'
    BY <2>1
  <2>4. \A v \in Live' : wsession'[v] \in active'
    BY <2>1, <2>2
  <2> QED BY <2>2, <2>3, <2>4
<1>4. CASE Unwind
  BY <1>4, SessionProcessEnds DEF Unwind
<1>5. CASE EndPoll
  BY <1>1, <1>5
     DEF EndPoll, NoTaskAvailable, PollFails, TaskReceived, PollingError, workerVars
<1>6. CASE ClaimSession
  BY <1>6 DEF ClaimSession, IsDuplicate, workerVars, Live
<1>7. CASE SpawnWorker
  <2>1. PICK w \in Workers \ Pool :
          /\ wpc' = [wpc EXCEPT ![w] = "executing"]
          /\ wsession' = [wsession EXCEPT ![w] = task]
    BY <1>7 DEF SpawnWorker
  <2>2. /\ Live' = Live \cup {w}
        /\ w \notin Live
        /\ wsession'[w] = task
        /\ \A v \in Live : wsession'[v] = wsession[v]
    BY <2>1 DEF Live, Pool, LiveState, TypeInv, TypeOK
  <2>3. mainpc = "spawn" /\ mainpc' = "nap" /\ UNCHANGED active
    BY <1>7 DEF SpawnWorker
  <2>4. NoConcurrentSession'
    BY <2>2, <2>3
  <2>5. \A v \in Live' : wsession'[v] \in active'
    BY <2>2, <2>3
  <2> QED BY <2>3, <2>4, <2>5
<1>8. CASE ProbeServer \/ RethrowFromWorker \/ StartPoll \/ SpawnFails \/ WakeUp
  BY <1>1, <1>8
     DEF ProbeServer, RethrowFromWorker, StartPoll, SpawnFails, WakeUp,
         PollingError, workerVars
<1> QED
  BY <1>2, <1>3, <1>4, <1>5, <1>6, <1>7, <1>8 DEF MainStep

\* Every step of a worker keeps the registry's invariant.
LEMMA SessionWorkerStep ==
  ASSUME TypeInv, SessionInv, NEW w \in Workers, WorkerStep(w)
  PROVE  SessionInv'
<1> USE DEF mainVars, WorkerState, LiveState, EndState
<1>1. CASE Execute(w)
  BY <1>1, SessionMove DEF Execute
<1>2. CASE AcquireClient(w)
  BY <1>2, SessionMove DEF AcquireClient
<1>3. CASE SendReturns(w)
  BY <1>3, SessionMove DEF SendReturns
<1>4. CASE SendThrows(w)
  BY <1>4, SessionMove DEF SendThrows
<1>5. CASE ReleaseSession(w)
  <2>1. Live' = Live \ {w} /\ w \in Live
    BY <1>5 DEF ReleaseSession, LeaveScope, MoveWorker, Live, TypeInv, TypeOK
  <2> QED
    BY <1>5, <2>1
       DEF ReleaseSession, DropClaim, SessionInv, NoConcurrentSession, LiveIsClaimed,
           RegistryExists, ClaimIsReserved
<1>6. CASE ReleaseDestroyed(w)
  BY <1>6, SessionMove, SessionProcessEnds DEF ReleaseDestroyed, LeaveScope
<1>7. CASE EndThread(w)
  BY <1>7, SessionMove DEF EndThread
<1> QED
  BY <1>1, <1>2, <1>3, <1>4, <1>5, <1>6, <1>7 DEF WorkerStep

\* No session is claimed or running when the process starts.
LEMMA SessionInit == Init => SessionInv
BY DEF Init, SessionInv, NoConcurrentSession, LiveIsClaimed, RegistryExists,
       ClaimIsReserved, Live, LiveState

\* Every step of the agent keeps the registry's invariant.
LEMMA SessionNext ==
  ASSUME TypeInv, SessionInv, [Next]_vars
  PROVE  SessionInv'
<1>1. CASE MainStep
  BY <1>1, SessionMainStep
<1>2. CASE \E w \in Workers : WorkerStep(w)
  BY <1>2, SessionWorkerStep
<1>3. CASE Crash
  BY <1>3, SessionProcessEnds DEF Crash
<1>4. CASE Restart \/ UNCHANGED vars
  BY <1>4
     DEF Restart, vars, workerVars, SessionInv, NoConcurrentSession,
         LiveIsClaimed, RegistryExists, ClaimIsReserved, Live
<1> QED BY <1>1, <1>2, <1>3, <1>4 DEF Next

\* No session runs twice at once, whatever the server repeats, whether or not
\* send_result throws and std::async fails (SessionGuard, main).
THEOREM SessionsAreExclusive == Spec => []NoConcurrentSession
<1>1. Spec => []TypeInv
  BY TypeInit, TypeNext, PTL DEF Spec
<1>2. Spec => []SessionInv
  BY <1>1, SessionInit, SessionNext, PTL DEF Spec
<1>3. SessionInv => NoConcurrentSession
  BY DEF SessionInv
<1> QED BY <1>2, <1>3, PTL

\* Under the same faults every running session is in active_sessions.
THEOREM RunningIsClaimed == Spec => []LiveIsClaimed
<1>1. Spec => []TypeInv
  BY TypeInit, TypeNext, PTL DEF Spec
<1>2. Spec => []SessionInv
  BY <1>1, SessionInit, SessionNext, PTL DEF Spec
<1>3. SessionInv => LiveIsClaimed
  BY DEF SessionInv
<1> QED BY <1>2, <1>3, PTL

-----------------------------------------------------------------------------
(* The limit on parallel tasks *)

\* The futures that main has not collected; on its way to start a thread it
\* has seen that there is room for one more.
PoolInv ==
  /\ Cardinality(Pool) <= MaxParallel
  /\ mainpc \in {"poll", "waiting", "claim", "spawn"} =>
       Cardinality(Pool) < MaxParallel

\* The pool is a finite set, and so is every part of it.
LEMMA PoolIsFinite ==
  ASSUME NEW S \in SUBSET Workers
  PROVE  IsFiniteSet(S) /\ Cardinality(S) \in Nat
BY WorkersAssumption, FS_Subset, FS_CardinalityType

\* A step that starts no thread and does not move main past the check of the
\* limit keeps the pool's invariant.
LEMMA PoolShrinks ==
  ASSUME PoolInv, Pool' \subseteq Pool,
         \/ mainpc' \notin {"poll", "waiting", "claim", "spawn"}
         \/ mainpc \in {"poll", "waiting", "claim", "spawn"}
  PROVE  PoolInv'
<1>1. Pool \in SUBSET Workers /\ Pool' \in SUBSET Workers
  BY DEF Pool
<1>2. /\ Cardinality(Pool') <= Cardinality(Pool)
      /\ Cardinality(Pool') \in Nat /\ Cardinality(Pool) \in Nat
  BY <1>1, PoolIsFinite, FS_Subset
<1> QED BY <1>2, LimitAssumption DEF PoolInv

\* Nothing is left to collect when the process has ended.
LEMMA PoolProcessEnds ==
  ASSUME PoolInv, ProcessEnds
  PROVE  PoolInv'
BY PoolShrinks DEF ProcessEnds, Pool

\* Every step of the agent keeps the pool's invariant.
LEMMA PoolNext ==
  ASSUME TypeInv, PoolInv, [Next]_vars
  PROVE  PoolInv'
<1>1. CASE MainStep
  <2>1. CASE Register
    <3>1. CASE ProcessEnds
      BY <3>1, PoolProcessEnds
    <3>2. CASE mainpc' = "loop" /\ UNCHANGED wpc
      BY <3>2, PoolShrinks DEF Pool
    <3> QED BY <2>1, <3>1, <3>2 DEF Register, workerVars
  <2>2. CASE PruneCompleted
    <3>1. Pool' = Pool \ Finished
      BY <2>2 DEF PruneCompleted, Pool, Finished, TypeInv, TypeOK
    <3>2. CASE mainpc' = "nap"
      BY <3>1, <3>2, PoolShrinks
    <3>3. CASE mainpc' = "poll"
      <4>1. ~(Cardinality(Pool') >= MaxParallel)
        BY <2>2, <3>1, <3>3 DEF PruneCompleted, PoolIsFull
      <4>2. Cardinality(Pool') \in Nat
        BY PoolIsFinite DEF Pool
      <4> QED BY <4>1, <4>2, LimitAssumption DEF PoolInv
    <3> QED BY <2>2, <3>2, <3>3 DEF PruneCompleted
  <2>3. CASE Unwind
    BY <2>3, PoolProcessEnds DEF Unwind
  <2>4. CASE SpawnWorker
    <3>1. PICK w \in Workers \ Pool : wpc' = [wpc EXCEPT ![w] = "executing"]
      BY <2>4 DEF SpawnWorker
    <3>2. Pool' = Pool \cup {w} /\ w \notin Pool
      BY <3>1 DEF Pool, TypeInv, TypeOK
    <3>3. IsFiniteSet(Pool) /\ Cardinality(Pool) \in Nat
      BY PoolIsFinite DEF Pool
    <3>4. Cardinality(Pool') = Cardinality(Pool) + 1
      BY <3>2, <3>3, FS_AddElement
    <3>5. mainpc = "spawn" /\ mainpc' = "nap"
      BY <2>4 DEF SpawnWorker
    <3> QED BY <3>3, <3>4, <3>5, LimitAssumption DEF PoolInv
  <2>5. CASE EndPoll
    BY <2>5, PoolShrinks
       DEF EndPoll, NoTaskAvailable, PollFails, TaskReceived, PollingError,
           workerVars, Pool
  <2>6. CASE \/ ProbeServer \/ RethrowFromWorker \/ StartPoll
             \/ ClaimSession \/ SpawnFails \/ WakeUp
    BY <2>6, PoolShrinks
       DEF ProbeServer, RethrowFromWorker, StartPoll, ClaimSession, SpawnFails,
           WakeUp, PollingError, workerVars, Pool
  <2> QED BY <1>1, <2>1, <2>2, <2>3, <2>4, <2>5, <2>6 DEF MainStep
<1>2. ASSUME NEW w \in Workers, WorkerStep(w)
      PROVE  PoolInv'
  <2>1. ASSUME wpc[w] # "idle", NEW to, MoveWorker(w, to), UNCHANGED mainpc
        PROVE  PoolInv'
    BY <2>1, PoolShrinks DEF MoveWorker, Pool, TypeInv, TypeOK
  <2> USE DEF mainVars
  <2>2. CASE Execute(w)
    BY <2>1, <2>2 DEF Execute
  <2>3. CASE AcquireClient(w)
    BY <2>1, <2>3 DEF AcquireClient
  <2>4. CASE SendReturns(w)
    BY <2>1, <2>4 DEF SendReturns
  <2>5. CASE SendThrows(w)
    BY <2>1, <2>5 DEF SendThrows
  <2>6. CASE ReleaseSession(w)
    BY <2>1, <2>6 DEF ReleaseSession, LeaveScope
  <2>7. CASE ReleaseDestroyed(w)
    BY <2>1, <2>7, PoolProcessEnds DEF ReleaseDestroyed, LeaveScope
  <2>8. CASE EndThread(w)
    BY <2>1, <2>8 DEF EndThread
  <2> QED BY <1>2, <2>2, <2>3, <2>4, <2>5, <2>6, <2>7, <2>8 DEF WorkerStep
<1>3. CASE Crash
  BY <1>3, PoolProcessEnds DEF Crash
<1>4. CASE Restart \/ UNCHANGED vars
  BY <1>4, PoolShrinks DEF Restart, vars, workerVars, Pool
<1> QED BY <1>1, <1>2, <1>3, <1>4 DEF Next

\* The pool's invariant holds in every state.
LEMMA PoolAlways == Spec => []PoolInv
<1>1. Init => PoolInv
  <2>1. ASSUME Init PROVE Pool = {}
    BY <2>1 DEF Init, Pool
  <2>2. Cardinality({}) = 0
    BY FS_EmptySet
  <2> QED BY <2>1, <2>2, LimitAssumption DEF PoolInv
<1>2. Spec => []TypeInv
  BY TypeInit, TypeNext, PTL DEF Spec
<1> QED BY <1>1, <1>2, PoolNext, PTL DEF Spec

\* Never more than max_parallel_tasks tasks run at once (README.md), although
\* the code only counts the futures it has not collected.
THEOREM LimitIsKept == Spec => []ParallelLimit
<1>1. PoolInv => ParallelLimit
  <2>1. Live \subseteq Pool /\ Pool \in SUBSET Workers /\ Live \in SUBSET Workers
    BY DEF Live, Pool, LiveState
  <2>2. /\ Cardinality(Live) <= Cardinality(Pool)
        /\ Cardinality(Live) \in Nat /\ Cardinality(Pool) \in Nat
    BY <2>1, PoolIsFinite, FS_Subset
  <2> QED BY <2>2, LimitAssumption DEF PoolInv, ParallelLimit
<1> QED BY <1>1, PoolAlways, PTL

-----------------------------------------------------------------------------
(* The registry holds nothing else, when threads can be started *)

\* Each claimed session has a thread or is about to get one.
ClaimedHasThread ==
  RegistryExists =>
    \A s \in active :
      \/ \E w \in Live : wsession[w] = s
      \/ mainpc = "spawn" /\ task = s

ExactInv == SessionInv /\ ClaimedHasThread

\* A step that changes neither the live threads nor the registry keeps the
\* match between them, unless main leaves a claim behind.
LEMMA ExactFrame ==
  ASSUME ClaimedHasThread, Live' = Live, UNCHANGED <<active, wsession>>,
         mainpc # "unwinding" \/ mainpc' = "unwinding",
         mainpc # "spawn" \/ UNCHANGED <<mainpc, task>>
  PROVE  ClaimedHasThread'
BY DEF ClaimedHasThread, RegistryExists

\* Nothing is claimed when the process has ended.
LEMMA ExactProcessEnds ==
  ASSUME ProcessEnds
  PROVE  ClaimedHasThread'
BY DEF ProcessEnds, ClaimedHasThread

\* Every step of the main thread keeps the match, if std::async never fails.
LEMMA ExactMainStep ==
  ASSUME TypeInv, ClaimedHasThread, ~SpawnMayFail, MainStep
  PROVE  ClaimedHasThread'
<1>1. CASE Register
  BY <1>1, ExactFrame, ExactProcessEnds DEF Register, workerVars, Live
<1>2. CASE PruneCompleted
  <2>1. Live' = Live /\ \A w \in Live : wsession'[w] = wsession[w]
    BY <1>2 DEF PruneCompleted, Finished, Live, LiveState, TypeInv, TypeOK
  <2>2. mainpc = "loop" /\ UNCHANGED active
    BY <1>2 DEF PruneCompleted
  <2> QED BY <2>1, <2>2 DEF ClaimedHasThread, RegistryExists
<1>3. CASE Unwind
  BY <1>3, ExactProcessEnds DEF Unwind
<1>4. CASE EndPoll
  BY <1>4, ExactFrame
     DEF EndPoll, NoTaskAvailable, PollFails, TaskReceived, PollingError,
         workerVars, Live
<1>5. CASE ClaimSession
  BY <1>5 DEF ClaimSession, workerVars, Live, ClaimedHasThread, RegistryExists
<1>6. CASE SpawnWorker
  <2>1. PICK w \in Workers \ Pool :
          /\ wpc' = [wpc EXCEPT ![w] = "executing"]
          /\ wsession' = [wsession EXCEPT ![w] = task]
    BY <1>6 DEF SpawnWorker
  <2>2. /\ Live' = Live \cup {w}
        /\ wsession'[w] = task
        /\ \A v \in Live : wsession'[v] = wsession[v]
    BY <2>1 DEF Live, Pool, LiveState, TypeInv, TypeOK
  <2>3. mainpc = "spawn" /\ UNCHANGED active
    BY <1>6 DEF SpawnWorker
  <2> QED BY <2>2, <2>3 DEF ClaimedHasThread, RegistryExists
<1>7. CASE ProbeServer \/ RethrowFromWorker \/ StartPoll \/ WakeUp
  BY <1>7, ExactFrame
     DEF ProbeServer, RethrowFromWorker, StartPoll, WakeUp, workerVars, Live
<1> QED
  BY <1>1, <1>2, <1>3, <1>4, <1>5, <1>6, <1>7 DEF MainStep, SpawnFails

\* Every step of a worker keeps the match.
LEMMA ExactWorkerStep ==
  ASSUME TypeInv, ExactInv, NEW w \in Workers, WorkerStep(w)
  PROVE  ClaimedHasThread'
<1> USE DEF mainVars, ExactInv
<1>1. ASSUME NEW to, MoveWorker(w, to), wpc[w] \in LiveState <=> to \in LiveState,
             UNCHANGED <<mainpc, task, active, wsession>>
      PROVE  ClaimedHasThread'
  <2>1. Live' = Live
    BY <1>1 DEF Live, MoveWorker, TypeInv, TypeOK
  <2> QED BY <1>1, <2>1, ExactFrame
<1>2. CASE Execute(w)
  BY <1>1, <1>2 DEF Execute, LiveState
<1>3. CASE AcquireClient(w)
  BY <1>1, <1>3 DEF AcquireClient, LiveState
<1>4. CASE SendReturns(w)
  BY <1>1, <1>4 DEF SendReturns, LiveState
<1>5. CASE SendThrows(w)
  BY <1>1, <1>5 DEF SendThrows, LiveState
<1>6. CASE ReleaseSession(w)
  <2>1. Live' = Live \ {w}
    BY <1>6 DEF ReleaseSession, LeaveScope, MoveWorker, Live, LiveState, TypeInv, TypeOK
  <2> QED
    BY <1>6, <2>1 DEF ReleaseSession, DropClaim, ClaimedHasThread, RegistryExists
<1>7. CASE ReleaseDestroyed(w)
  <2>1. CASE ProcessEnds
    BY <2>1, ExactProcessEnds
  <2>2. CASE UNCHANGED mainVars
    BY <1>7, <2>2 DEF ReleaseDestroyed, ClaimedHasThread, RegistryExists
  <2> QED BY <1>7, <2>1, <2>2 DEF ReleaseDestroyed
<1>8. CASE EndThread(w)
  BY <1>1, <1>8 DEF EndThread, LiveState
<1> QED
  BY <1>2, <1>3, <1>4, <1>5, <1>6, <1>7, <1>8 DEF WorkerStep

\* Every step of the agent keeps the match, if std::async never fails.
LEMMA ExactNext ==
  ASSUME TypeInv, ExactInv, ~SpawnMayFail, [Next]_vars
  PROVE  ExactInv'
<1>1. SessionInv'
  BY SessionNext DEF ExactInv
<1>2. ClaimedHasThread'
  <2>1. CASE MainStep
    BY <2>1, ExactMainStep DEF ExactInv
  <2>2. CASE \E w \in Workers : WorkerStep(w)
    BY <2>2, ExactWorkerStep
  <2>3. CASE Crash
    BY <2>3, ExactProcessEnds DEF Crash
  <2>4. CASE Restart \/ UNCHANGED vars
    BY <2>4, ExactFrame DEF ExactInv, Restart, vars, workerVars, Live
  <2> QED BY <2>1, <2>2, <2>3, <2>4 DEF Next
<1> QED BY <1>1, <1>2 DEF ExactInv

\* The invariant from which the two theorems below follow.
LEMMA ExactAlways ==
  ASSUME ~SpawnMayFail
  PROVE  Spec => [](TypeInv /\ ExactInv)
<1>1. Init => TypeInv /\ ExactInv
  BY TypeInit, SessionInit DEF Init, ExactInv, ClaimedHasThread
<1>2. TypeInv /\ ExactInv /\ [Next]_vars => (TypeInv /\ ExactInv)'
  BY TypeNext, ExactNext
<1> QED BY <1>1, <1>2, PTL DEF Spec

\* active_sessions is at all times the set of the running sessions and of the
\* one that is about to run, as long as threads can be started.
THEOREM RegistryMatches ==
  ASSUME ~SpawnMayFail
  PROVE  Spec => []RegistryIsExact
<1>1. ExactInv => RegistryIsExact
  <2> SUFFICES ASSUME ExactInv, RegistryExists
               PROVE  active = {wsession[w] : w \in Live}
                                 \cup (IF mainpc = "spawn" THEN {task} ELSE {})
    BY DEF RegistryIsExact
  <2>1. ASSUME NEW s \in active
        PROVE  s \in {wsession[w] : w \in Live}
                       \cup (IF mainpc = "spawn" THEN {task} ELSE {})
    BY <2>1 DEF ExactInv, ClaimedHasThread
  <2>2. {wsession[w] : w \in Live} \subseteq active
    BY DEF ExactInv, SessionInv, LiveIsClaimed
  <2>3. mainpc = "spawn" => task \in active
    BY DEF ExactInv, SessionInv, ClaimIsReserved
  <2> QED BY <2>1, <2>2, <2>3
<1> QED BY <1>1, ExactAlways, PTL

\* Only ClaimSession takes main from a claim to a sleep.
LEMMA RefusalIsDuplicate ==
  ASSUME TypeInv, [Next]_vars, Refused
  PROVE  task \in active
<1> USE DEF Refused
<1>1. CASE MainStep
  BY <1>1
     DEF MainStep, ProbeServer, Register, PruneCompleted, RethrowFromWorker,
         Unwind, StartPoll, EndPoll, ClaimSession, IsDuplicate, SpawnWorker, SpawnFails, WakeUp
<1>2. ASSUME NEW w \in Workers, WorkerStep(w)
      PROVE  FALSE
  BY <1>2
     DEF WorkerStep, Execute, AcquireClient, SendReturns, SendThrows,
         ReleaseSession, ReleaseDestroyed, EndThread, mainVars, ProcessEnds
<1> QED BY <1>1, <1>2 DEF Next, Crash, Restart, ProcessEnds, vars

\* main never refuses a session that no thread is running: a task the server
\* repeats after its thread has let go of it is run again (main.cpp, the
\* check for duplicates).
THEOREM RefusalsAreJustified ==
  ASSUME ~SpawnMayFail
  PROVE  Spec => OnlyRunningSessionsAreRefused
<1>1. TypeInv /\ ExactInv /\ [Next]_vars =>
        [Refused => \E w \in Workers : Runs(w, task)]_vars
  <2> SUFFICES ASSUME TypeInv, ExactInv, [Next]_vars, Refused
               PROVE  \E w \in Workers : Runs(w, task)
    OBVIOUS
  <2>1. task \in active
    BY RefusalIsDuplicate
  <2>2. mainpc = "claim"
    BY DEF Refused
  <2> QED
    BY <2>1, <2>2 DEF ExactInv, ClaimedHasThread, RegistryExists, Runs, Live
<1> QED BY <1>1, ExactAlways, PTL DEF Spec, OnlyRunningSessionsAreRefused

-----------------------------------------------------------------------------
(* The access code *)

\* The agent polls, runs and reports only with an access code, whatever the
\* configuration holds and the server answers to the registration
\* (register_agent, main).
THEOREM CodeIsPresent == Spec => []RequestsCarryCode
<1>1. Init => RequestsCarryCode
  BY DEF Init, RequestsCarryCode, Live, LiveState
<1>2. ASSUME TypeInv, RequestsCarryCode, [Next]_vars
      PROVE  RequestsCarryCode'
  <2> USE <1>2 DEF RequestsCarryCode
  <2>1. ASSUME ProcessEnds PROVE RequestsCarryCode'
    BY <2>1 DEF ProcessEnds, Live, LiveState
  <2>2. CASE Register
    BY <2>1, <2>2 DEF Register
  <2>3. ASSUME MainStep, ~Register, ~Unwind
        PROVE  UNCHANGED access_code
    BY <2>3
       DEF MainStep, ProbeServer, PruneCompleted, RethrowFromWorker, StartPoll,
           EndPoll, ClaimSession, SpawnWorker, SpawnFails, WakeUp
  <2>4. CASE MainStep /\ ~Register /\ ~Unwind
    <3>1. CASE access_code # ""
      BY <2>3, <2>4, <3>1
    <3>2. CASE access_code = ""
      <4>1. ProbeServer
        BY <2>4, <3>2
           DEF MainStep, PruneCompleted, RethrowFromWorker, StartPoll, EndPoll,
               ClaimSession, SpawnWorker, SpawnFails, WakeUp
      <4> QED BY <3>2, <4>1 DEF ProbeServer, MustRegister, workerVars, Live
    <3> QED BY <3>1, <3>2
  <2>5. CASE Unwind
    BY <2>1, <2>5 DEF Unwind
  <2>6. ASSUME NEW w \in Workers, WorkerStep(w)
        PROVE  RequestsCarryCode'
    <3>1. CASE ProcessEnds
      BY <2>1, <3>1
    <3>2. ASSUME ~ProcessEnds
          PROVE  UNCHANGED <<mainpc, access_code>> /\ Live' \subseteq Live
      BY <2>6, <3>2
         DEF WorkerStep, Execute, AcquireClient, SendReturns, SendThrows,
             ReleaseSession, ReleaseDestroyed, EndThread, LeaveScope, MoveWorker,
             mainVars, Live, LiveState, TypeInv, TypeOK
    <3> QED BY <3>1, <3>2
  <2>7. CASE Crash
    BY <2>1, <2>7 DEF Crash
  <2>8. CASE Restart \/ UNCHANGED vars
    BY <2>8 DEF Restart, vars, workerVars, Live
  <2> QED BY <1>2, <2>2, <2>4, <2>5, <2>6, <2>7, <2>8 DEF Next
<1>3. Spec => []TypeInv
  BY TypeInit, TypeNext, PTL DEF Spec
<1> QED BY <1>1, <1>2, <1>3, PTL DEF Spec

-----------------------------------------------------------------------------
(* Back-off *)

\* What the recursive definition of Doubled stands for.
IsDoubling(f, n) == f = [i \in 0 .. n |-> IF i = 0 THEN PollInterval ELSE 2 * f[i - 1]]

LEMMA DoublingExists ==
  ASSUME NEW n \in Nat
  PROVE  \E f \in [0 .. n -> Nat] : IsDoubling(f, n) /\ Doubled(n) = f[n]
<1> DEFINE step == [p \in Nat \X (1 .. n) |-> 2 * p[1]]
           g == CHOOSE h : IsDoubling(h, n)
<1>1. step \in Steps(Nat, n) /\ PollInterval \in Nat
  BY IntervalAssumption DEF Steps
<1>2. \A v \in Nat, i \in 1 .. n : step[<<v, i>>] = 2 * v
  OBVIOUS
<1> HIDE DEF step
<1>3. PICK f \in [0 .. n -> Nat] : Follows(f, PollInterval, n, step)
  BY <1>1, RecursionExists
<1>4. IsDoubling(f, n)
  <2>1. ASSUME NEW i \in 1 .. n PROVE f[i] = 2 * f[i - 1]
    <3>1. f[i - 1] \in Nat
      OBVIOUS
    <3>2. f[i] = step[<<f[i - 1], i>>]
      BY <1>3 DEF Follows
    <3> QED BY <1>2, <3>1, <3>2
  <2> QED BY <1>3, <2>1 DEF IsDoubling, Follows
<1>5. Doubled(n) = g[n]
  BY DEF Doubled, IsDoubling
<1>6. IsDoubling(g, n)
  BY <1>4
<1> HIDE DEF g
<1>7. GoAlike(f, g, n)
  BY <1>4, <1>6 DEF IsDoubling, GoAlike
<1>8. f[n] = g[n]
  BY <1>7, RecursionsAgree
<1> QED BY <1>4, <1>5, <1>8

\* Doubling once more.
LEMMA DoubledStep ==
  /\ Doubled(0) = PollInterval
  /\ \A n \in Nat : Doubled(n) \in Nat /\ Doubled(n + 1) = 2 * Doubled(n)
<1>1. Doubled(0) = PollInterval
  BY DoublingExists DEF IsDoubling
<1>2. ASSUME NEW n \in Nat
      PROVE  Doubled(n) \in Nat /\ Doubled(n + 1) = 2 * Doubled(n)
  <2>1. PICK f \in [0 .. n -> Nat] : IsDoubling(f, n) /\ Doubled(n) = f[n]
    BY DoublingExists
  <2>2. PICK g \in [0 .. n + 1 -> Nat] : IsDoubling(g, n + 1) /\ Doubled(n + 1) = g[n + 1]
    <3>1. n + 1 \in Nat
      OBVIOUS
    <3> QED BY <3>1, DoublingExists, Zenon
  <2>3. GoAlike(f, g, n)
    BY <2>1, <2>2 DEF IsDoubling, GoAlike
  <2>4. f[n] = g[n]
    BY <2>3, RecursionsAgree
  <2>5. g[n + 1] = 2 * g[n]
    BY <2>2 DEF IsDoubling
  <2> QED BY <2>1, <2>2, <2>4, <2>5
<1> QED BY <1>1, <1>2

\* The bound of the count is no bound of the back-off: where the count stops,
\* the interval has reached backoff_max_sec.
CountReachesMax == BackoffMax <= Doubled(MaxFailures)

\* Without an overflow the product is the doubled interval.
LEMMA BackoffDoubles ==
  ASSUME DoublingFits, NEW i \in 0 .. BackoffMax
  PROVE  Backoff(i) = Lower(2 * i, BackoffMax)
<1>1. 2 * i \in Int /\ 2 * i \in IntMin .. IntMax
  BY IntervalAssumption DEF DoublingFits, IntMin
<1>2. Wrapped(2 * i) = 2 * i
  BY <1>1, WrappedIsInt
<1> QED BY <1>2 DEF Backoff

\* One more polling error, below the bound of the count or at it.
LEMMA BackoffStep ==
  ASSUME CountReachesMax, DoublingFits, NEW n \in 0 .. MaxFailures
  PROVE  Backoff(Lower(Doubled(n), BackoffMax))
           = Lower(Doubled(Lower(n + 1, MaxFailures)), BackoffMax)
<1> USE IntervalAssumption, BoundAssumption
<1>1. n \in Nat /\ Doubled(n) \in Nat /\ Doubled(n + 1) = 2 * Doubled(n)
  BY DoubledStep
<1> DEFINE i == Lower(Doubled(n), BackoffMax)
<1>2. i \in 0 .. BackoffMax
  BY <1>1 DEF Lower
<1>3. Backoff(i) = Lower(2 * i, BackoffMax)
  BY <1>2, BackoffDoubles
<1>4. CASE n < MaxFailures
  <2>1. Lower(n + 1, MaxFailures) = n + 1
    BY <1>4 DEF Lower
  <2> QED BY <1>1, <1>3, <2>1 DEF Lower
<1>5. CASE n = MaxFailures
  <2>1. Lower(n + 1, MaxFailures) = n
    BY <1>5 DEF Lower
  <2>2. BackoffMax <= Doubled(n)
    BY <1>5 DEF CountReachesMax
  <2> QED BY <1>1, <1>3, <2>1, <2>2 DEF Lower
<1> QED BY <1>4, <1>5

\* After any number of polling errors in a row, duplicates and refused threads
\* between them or not, the loop sleeps for the interval of the configuration
\* doubled once for each error, and never longer than backoff_max_sec, if
\* twice backoff_max_sec is an int (main, the handler of polling errors).
THEOREM BackoffIsExact ==
  ASSUME CountReachesMax
  PROVE  Spec => []BackoffFollowsErrors
<1> USE IntervalAssumption DEF BackoffFollowsErrors
<1>0. Lower(Doubled(0), BackoffMax) = PollInterval
  BY DoubledStep DEF Lower
<1>1. Init => BackoffFollowsErrors
  BY <1>0 DEF Init
<1>2. ASSUME TypeInv, BackoffFollowsErrors, [Next]_vars
      PROVE  BackoffFollowsErrors'
  <2> USE <1>2
  <2>1. ASSUME UNCHANGED <<interval, failures>> PROVE BackoffFollowsErrors'
    BY <2>1
  <2>2. ASSUME interval' = PollInterval, failures' = 0 PROVE BackoffFollowsErrors'
    BY <1>0, <2>2
  <2>3. ASSUME PollingError PROVE BackoffFollowsErrors'
    BY <2>3, BackoffStep DEF PollingError, TypeInv, TypeOK
  <2>4. ASSUME ProcessEnds PROVE BackoffFollowsErrors'
    BY <2>2, <2>4 DEF ProcessEnds
  <2>5. CASE MainStep
    BY <2>1, <2>2, <2>3, <2>4, <2>5
       DEF MainStep, ProbeServer, Register, PruneCompleted, RethrowFromWorker, Unwind,
           StartPoll, EndPoll, NoTaskAvailable, PollFails, TaskReceived, ClaimSession,
           SpawnWorker, SpawnFails, WakeUp
  <2>6. ASSUME NEW w \in Workers, WorkerStep(w) PROVE BackoffFollowsErrors'
    BY <2>1, <2>4, <2>6
       DEF WorkerStep, Execute, AcquireClient, SendReturns, SendThrows, ReleaseSession,
           ReleaseDestroyed, EndThread, mainVars
  <2>7. CASE Crash \/ Restart \/ UNCHANGED vars
    BY <2>1, <2>4, <2>7 DEF Crash, Restart, vars
  <2> QED BY <2>5, <2>6, <2>7 DEF Next
<1>3. Spec => []TypeInv
  BY TypeInit, TypeNext, PTL DEF Spec
<1> QED BY <1>1, <1>2, <1>3, PTL DEF Spec

-----------------------------------------------------------------------------
(* One outcome for one run *)

\* No exception leaves a thread, so main never unwinds.
NothingThrown ==
  /\ mainpc # "unwinding"
  /\ \A w \in Workers :
       wpc[w] \notin {"releasing_throw", "returning_throw", "threw"}

\* A thread that has not finished its request has put nothing on the server
\* since main started it.
NothingReported ==
  \A w \in Live : wpc[w] # "releasing" => received[wsession[w]] = {}

AtMostOneOutcome == \A s \in Sessions : \E o : received[s] \subseteq {o}

ReportInv == SessionInv /\ NothingThrown /\ NothingReported /\ AtMostOneOutcome

\* Live threads run sessions that exist.
LEMMA LiveSession ==
  ASSUME TypeInv, ReportInv, NEW w \in Live
  PROVE  wsession[w] \in Sessions
BY DEF TypeInv, TypeOK, ReportInv, SessionInv, LiveIsClaimed, RegistryExists,
       NothingThrown

\* When the process ends, the server has what it had, or one result more of
\* a session that had none.
LEMMA ReportLastWords ==
  ASSUME TypeInv, ReportInv, LastWords
  PROVE  \/ UNCHANGED received
         \/ \E w \in Live, o \in {"done", "err"} :
              /\ wpc[w] # "releasing" /\ wsession[w] \in Sessions
              /\ received' = [received EXCEPT ![wsession[w]] = {o}]
<1>1. SUFFICES ASSUME NEW w \in Workers, wpc[w] \in {"posting", "posting_error"},
                      Transmit(w, TRUE)
               PROVE  /\ w \in Live /\ wsession[w] \in Sessions
                      /\ Posted(w) \in {"done", "err"}
                      /\ received' = [received EXCEPT ![wsession[w]] = {Posted(w)}]
  BY DEF LastWords
<1>2. w \in Live /\ wsession[w] \in Sessions
  BY <1>1, LiveSession DEF Live, LiveState
<1>3. received[wsession[w]] \cup {Posted(w)} = {Posted(w)}
  BY <1>1, <1>2 DEF ReportInv, NothingReported
<1> QED BY <1>1, <1>2, <1>3 DEF Transmit, Posted

\* When the process ends every session has one outcome at most.
LEMMA ReportProcessEnds ==
  ASSUME TypeInv, ReportInv, ProcessEnds
  PROVE  ReportInv'
<1>1. SessionInv'
  BY SessionProcessEnds
<1>2. NothingThrown' /\ NothingReported'
  BY DEF ProcessEnds, ReportInv, NothingThrown, NothingReported, Live, LiveState
<1>3. AtMostOneOutcome'
  <2>1. CASE UNCHANGED received
    BY <2>1 DEF ReportInv, AtMostOneOutcome
  <2>2. ASSUME NEW w \in Live, NEW o \in {"done", "err"}, wsession[w] \in Sessions,
               received' = [received EXCEPT ![wsession[w]] = {o}]
        PROVE  AtMostOneOutcome'
    <3>1. /\ received'[wsession[w]] = {o}
          /\ \A s \in Sessions : s # wsession[w] => received'[s] = received[s]
      BY <2>2 DEF TypeInv, TypeOK
    <3> QED BY <3>1 DEF ReportInv, AtMostOneOutcome
  <2> QED BY <2>1, <2>2, ReportLastWords DEF ProcessEnds
<1> QED BY <1>1, <1>2, <1>3 DEF ReportInv

\* A main step that neither starts a thread nor ends the process leaves what
\* the live threads have reported as it is.
LEMMA ReportMainFrame ==
  ASSUME TypeInv, ReportInv, MainStep, ~SpawnWorker, ~ProcessEnds
  PROVE  /\ Live' = Live
         /\ \A w \in Live : wpc'[w] = wpc[w] /\ wsession'[w] = wsession[w]
         /\ mainpc' # "unwinding"
         /\ UNCHANGED received
         /\ \A w \in Workers : wpc'[w] \in {wpc[w], "idle"}
<1> USE DEF ReportInv, NothingThrown
<1>1. CASE PruneCompleted
  BY <1>1 DEF PruneCompleted, Finished, Live, LiveState, TypeInv, TypeOK
<1>2. CASE UNCHANGED <<wpc, wsession, received>> /\ mainpc' # "unwinding"
  BY <1>2 DEF Live
<1>3. CASE RethrowFromWorker \/ Unwind
  BY <1>3 DEF RethrowFromWorker, Unwind
<1>4. CASE \/ ProbeServer \/ Register \/ StartPoll \/ EndPoll \/ ClaimSession
           \/ SpawnFails \/ WakeUp
  BY <1>2, <1>4
     DEF ProbeServer, Register, StartPoll, EndPoll, NoTaskAvailable, PollFails,
         TaskReceived, ClaimSession, SpawnFails, WakeUp, PollingError, workerVars
<1> QED BY <1>1, <1>3, <1>4 DEF MainStep

\* The start of a thread forgets the outcome of the session's last run.
LEMMA ReportSpawn ==
  ASSUME TypeInv, ReportInv, SpawnWorker
  PROVE  NothingThrown' /\ NothingReported' /\ AtMostOneOutcome'
<1> USE DEF ReportInv
<1>1. PICK w \in Workers \ Pool :
        /\ wpc' = [wpc EXCEPT ![w] = "executing"]
        /\ wsession' = [wsession EXCEPT ![w] = task]
  BY DEF SpawnWorker
<1>2. task \in Sessions /\ mainpc = "spawn" /\ mainpc' = "nap"
  BY DEF SpawnWorker, TypeInv, TaskIsKnown
<1>3. /\ received'[task] = {}
      /\ \A s \in Sessions : s # task => received'[s] = received[s]
  BY <1>2 DEF SpawnWorker, TypeInv, TypeOK
<1>4. /\ Live' = Live \cup {w}
      /\ w \notin Live
      /\ wsession'[w] = task
      /\ \A v \in Live : wsession'[v] = wsession[v] /\ wpc'[v] = wpc[v]
  BY <1>1 DEF Live, Pool, LiveState, TypeInv, TypeOK
<1>5. NothingThrown'
  BY <1>1, <1>2 DEF NothingThrown, TypeInv, TypeOK
<1>6. NothingReported'
  BY <1>2, <1>3, <1>4, LiveSession DEF NothingReported
<1>7. AtMostOneOutcome'
  BY <1>3 DEF AtMostOneOutcome
<1> QED BY <1>5, <1>6, <1>7

\* A worker that sends nothing keeps the invariant.
LEMMA ReportMove ==
  ASSUME TypeInv, ReportInv, NEW w \in Workers, NEW to \in WorkerState,
         to \notin {"releasing_throw", "returning_throw", "threw"},
         wpc[w] \in LiveState \/ to \notin LiveState,
         wpc[w] # "releasing" \/ to \notin LiveState,
         MoveWorker(w, to), UNCHANGED <<mainpc, wsession, received>>
  PROVE  NothingThrown' /\ NothingReported' /\ AtMostOneOutcome'
<1> USE DEF ReportInv
<1>1. Live' \subseteq Live
  BY DEF Live, MoveWorker, TypeInv, TypeOK
<1>2. NothingThrown'
  BY DEF NothingThrown, MoveWorker, TypeInv, TypeOK
<1>3. NothingReported'
  BY <1>1 DEF NothingReported, MoveWorker, Live, TypeInv, TypeOK
<1> QED BY <1>2, <1>3 DEF AtMostOneOutcome

\* The request of a thread changes the record of its own session only, which
\* was empty.
LEMMA ReportSend ==
  ASSUME TypeInv, ReportInv, NEW w \in Workers, SendReturns(w)
  PROVE  /\ NothingThrown' /\ NothingReported' /\ AtMostOneOutcome'
         /\ \/ UNCHANGED received
            \/ \E o \in {"done", "err"} :
                 received' = [received EXCEPT ![wsession[w]] = {o}]
<1> USE DEF ReportInv
<1>1. w \in Live /\ wpc[w] \in {"posting", "posting_error"}
  BY DEF SendReturns, Live, LiveState
<1>2. wsession[w] \in Sessions /\ received[wsession[w]] = {}
  BY <1>1, LiveSession DEF NothingReported
<1>3. \/ UNCHANGED received
      \/ received' = [received EXCEPT ![wsession[w]] = {Posted(w)}]
  <2>1. PICK arrived \in BOOLEAN : Transmit(w, arrived)
    BY DEF SendReturns
  <2>2. received[wsession[w]] \cup {Posted(w)} = {Posted(w)}
    BY <1>2
  <2> QED BY <2>1, <2>2 DEF Transmit
<1>4. Posted(w) \in {"done", "err"}
  BY DEF Posted
<1>5. \A s \in Sessions : s # wsession[w] => received'[s] = received[s]
  BY <1>3 DEF TypeInv, TypeOK
<1>6. /\ Live' = Live
      /\ UNCHANGED <<mainpc, wsession>>
      /\ wpc'[w] = "releasing"
      /\ \A v \in Workers : v # w => wpc'[v] = wpc[v]
      /\ Live \subseteq Workers
  BY <1>1 DEF SendReturns, MoveWorker, mainVars, Live, LiveState, TypeInv, TypeOK
<1>7. NothingThrown'
  BY <1>6 DEF NothingThrown
<1>8. NothingReported'
  <2> SUFFICES ASSUME NEW v \in Live, v # w, wpc[v] # "releasing"
               PROVE  received'[wsession[v]] = {}
    BY <1>6 DEF NothingReported
  <2>1. wsession[v] # wsession[w]
    BY <1>1 DEF SessionInv, NoConcurrentSession
  <2> QED BY <1>5, <2>1, LiveSession DEF NothingReported
<1>9. AtMostOneOutcome'
  <2>1. received'[wsession[w]] \in {{}, {Posted(w)}}
    BY <1>2, <1>3 DEF TypeInv, TypeOK
  <2> QED BY <1>5, <2>1 DEF AtMostOneOutcome
<1> QED BY <1>3, <1>4, <1>7, <1>8, <1>9

\* Every step of the agent keeps the invariant, if send_result never throws.
LEMMA ReportNext ==
  ASSUME TypeInv, ReportInv, ~SendMayThrow, [Next]_vars
  PROVE  ReportInv'
<1>1. SessionInv'
  BY SessionNext DEF ReportInv
<1>2. CASE ProcessEnds
  BY <1>2, ReportProcessEnds
<1>3. CASE SpawnWorker
  BY <1>1, <1>3, ReportSpawn DEF ReportInv
<1>4. CASE MainStep /\ ~SpawnWorker /\ ~ProcessEnds
  BY <1>1, <1>4, ReportMainFrame
     DEF ReportInv, NothingThrown, NothingReported, AtMostOneOutcome
<1>5. ASSUME NEW w \in Workers, WorkerStep(w)
      PROVE  ReportInv'
  <2> USE <1>1 DEF mainVars, WorkerState, LiveState, EndState
  <2>1. CASE Execute(w)
    BY <2>1, ReportMove DEF Execute, ReportInv
  <2>2. CASE AcquireClient(w)
    BY <2>2, ReportMove DEF AcquireClient, ReportInv
  <2>3. CASE SendReturns(w)
    BY <2>3, ReportSend DEF ReportInv
  <2>4. CASE ReleaseSession(w)
    BY <2>4, ReportMove DEF ReleaseSession, LeaveScope, ReportInv, NothingThrown
  <2>5. CASE EndThread(w)
    BY <2>5, ReportMove DEF EndThread, ReportInv, NothingThrown
  <2>6. ~SendThrows(w) /\ ~ReleaseDestroyed(w)
    BY DEF SendThrows, ReleaseDestroyed, ReportInv, NothingThrown
  <2> QED BY <1>5, <2>1, <2>2, <2>3, <2>4, <2>5, <2>6 DEF WorkerStep
<1>6. CASE Restart \/ UNCHANGED vars
  BY <1>1, <1>6
     DEF Restart, vars, workerVars, ReportInv, NothingThrown, NothingReported,
         AtMostOneOutcome, Live
<1> QED BY <1>2, <1>3, <1>4, <1>5, <1>6 DEF Next, Crash

\* The invariant from which the two theorems below follow.
LEMMA ReportAlways ==
  ASSUME ~SendMayThrow
  PROVE  Spec => [](TypeInv /\ ReportInv)
<1>1. Init => TypeInv /\ ReportInv
  BY TypeInit, SessionInit
     DEF Init, ReportInv, NothingThrown, NothingReported, AtMostOneOutcome, Live,
         LiveState
<1>2. TypeInv /\ ReportInv /\ [Next]_vars => (TypeInv /\ ReportInv)'
  BY TypeNext, ReportNext
<1> QED BY <1>1, <1>2, PTL DEF Spec

\* One run of a session leaves one outcome on the server, as long as
\* send_result does not throw (main.cpp, the two calls of send_result).
THEOREM OutcomeIsUnique ==
  ASSUME ~SendMayThrow
  PROVE  Spec => []OneOutcomePerRun
<1>1. ReportInv => OneOutcomePerRun
  <2> SUFFICES ASSUME ReportInv, NEW s \in Sessions
               PROVE  Cardinality(received[s]) <= 1
    BY DEF OneOutcomePerRun
  <2>1. PICK o : received[s] \subseteq {o}
    BY DEF ReportInv, AtMostOneOutcome
  <2>2. received[s] = {} \/ received[s] = {o}
    BY <2>1
  <2>3. Cardinality({}) = 0 /\ Cardinality({o}) = 1
    BY FS_EmptySet, FS_Singleton
  <2> QED BY <2>2, <2>3
<1> QED BY <1>1, ReportAlways, PTL

-----------------------------------------------------------------------------
(* The refinement *)

\* What the phase of a session says of its one live thread.
LEMMA PhaseOfLive ==
  ASSUME TypeInv, ReportInv, NEW w \in Live
  PROVE  PhaseOf(wsession[w]) = IF wpc[w] = "releasing" THEN "reported" ELSE "running"
BY DEF PhaseOf, Runs, Live, ReportInv, SessionInv, NoConcurrentSession, NothingThrown

\* A session without a live thread is free.
LEMMA PhaseOfOther ==
  ASSUME NEW s, \A w \in Live : wsession[w] # s
  PROVE  PhaseOf(s) = "free"
BY DEF PhaseOf, Runs

\* A step that moves no thread into or out of a phase stutters.
LEMMA PhaseFrame ==
  ASSUME Live' = Live,
         \A w \in Live : /\ wsession'[w] = wsession[w]
                         /\ \/ wpc'[w] = wpc[w]
                            \/ {wpc[w], wpc'[w]} \cap {"releasing", "releasing_throw"} = {}
  PROVE  \A s : PhaseOf(s)' = PhaseOf(s)
BY DEF PhaseOf, Runs, Live

\* The service counts as the agent does.
LEMMA SameCardinality == \A S : Service!Cardinality(S) = Cardinality(S)
BY DEF Service!Cardinality, Cardinality

\* The sessions that are busy are no more than the live threads.
LEMMA BusyIsBounded ==
  ASSUME TypeInv, ReportInv, Cardinality(Pool) < MaxParallel
  PROVE  Cardinality({s \in Sessions : PhaseOf(s) # "free"}) < MaxParallel
<1> DEFINE Named == {wsession[w] : w \in Live}
           Busy == {s \in Sessions : PhaseOf(s) # "free"}
<1>1. Busy \in SUBSET Named
  BY PhaseOfOther
<1>2. /\ IsFiniteSet(Live) /\ IsFiniteSet(Pool)
      /\ Cardinality(Live) \in Nat /\ Cardinality(Pool) \in Nat
      /\ Cardinality(Live) <= Cardinality(Pool)
  <2>1. Live \in SUBSET Workers /\ Pool \in SUBSET Workers /\ Live \in SUBSET Pool
    BY DEF Live, Pool, LiveState
  <2> QED BY <2>1, PoolIsFinite, FS_Subset
<1>3. IsFiniteSet(Named) /\ Cardinality(Named) <= Cardinality(Live)
  <2>1. [w \in Live |-> wsession[w]] \in Surjection(Live, Named)
    BY DEF Surjection
  <2> HIDE DEF Named
  <2> QED BY <1>2, <2>1, FS_Surjection
<1>4. Cardinality(Busy) \in Nat /\ Cardinality(Named) \in Nat
      /\ Cardinality(Busy) <= Cardinality(Named)
  <2> HIDE DEF Named, Busy
  <2> QED BY <1>1, <1>3, FS_Subset, FS_CardinalityType
<1> HIDE DEF Named, Busy
<1>5. Cardinality(Busy) < MaxParallel
  BY <1>2, <1>3, <1>4, LimitAssumption
<1> QED BY <1>5 DEF Busy

\* The start of a thread takes a free session while there is room.
LEMMA RefineSpawn ==
  ASSUME TypeInv, ReportInv, PoolInv, SpawnWorker, NEW s0, s0 = task
  PROVE  Service!Start(s0)
<1>1. /\ mainpc = "spawn" /\ s0 \in Sessions
      /\ \A w \in Live : wsession[w] # s0
  BY DEF SpawnWorker, TypeInv, TaskIsKnown, ReportInv, SessionInv, ClaimIsReserved
<1>2. PICK w \in Workers \ Pool :
        /\ wpc' = [wpc EXCEPT ![w] = "executing"]
        /\ wsession' = [wsession EXCEPT ![w] = task]
  BY DEF SpawnWorker
<1>3. /\ Live' = Live \cup {w} /\ Live \subseteq Workers
      /\ wpc'[w] = "executing" /\ wsession'[w] = s0
      /\ \A v \in Live : v # w /\ wsession'[v] = wsession[v] /\ wpc'[v] = wpc[v]
  BY <1>2 DEF Live, Pool, LiveState, TypeInv, TypeOK
<1>4. PhaseOf(s0) = "free"
  BY <1>1, PhaseOfOther
<1>5. PhaseOf(s0)' = "running"
  <2>1. \A v \in Workers : Runs(v, s0)' <=> v = w
    BY <1>1, <1>3 DEF Runs
  <2> QED BY <1>3, <2>1 DEF PhaseOf
<1>6. ASSUME NEW s \in Sessions, s # s0
      PROVE  PhaseOf(s)' = PhaseOf(s)
  <2>1. \A v \in Workers : Runs(v, s)' <=> Runs(v, s)
    BY <1>3, <1>6 DEF Runs
  <2>2. \A v \in Workers : Runs(v, s) => wpc'[v] = wpc[v]
    BY <1>3 DEF Runs
  <2> QED BY <2>1, <2>2 DEF PhaseOf
<1>7. Cardinality({s \in Sessions : PhaseOf(s) # "free"}) < MaxParallel
  BY <1>1, BusyIsBounded DEF PoolInv
<1>8. Service!Busy = {s \in Sessions : PhaseOf(s) # "free"}
  BY DEF Service!Busy, PhaseMap
<1>9. received' = [received EXCEPT ![s0] = {}]
  BY DEF SpawnWorker
<1>10. PhaseMap[s0] = "free"
  BY <1>1, <1>4 DEF PhaseMap
<1>11. PhaseMap' = [PhaseMap EXCEPT ![s0] = "running"]
  BY <1>1, <1>5, <1>6 DEF PhaseMap
<1> QED
  BY <1>7, <1>8, <1>9, <1>10, <1>11, SameCardinality DEF Service!Start

\* The end of a request is the report of the session.
LEMMA RefineSend ==
  ASSUME TypeInv, ReportInv, NEW w \in Workers, SendReturns(w),
         NEW s0, s0 = wsession[w]
  PROVE  Service!Report(s0)
<1>1. w \in Live /\ wpc[w] # "releasing" /\ s0 \in Sessions
  BY LiveSession DEF SendReturns, Live, LiveState
<1>2. /\ Live' = Live /\ wsession' = wsession
      /\ wpc'[w] = "releasing"
      /\ \A v \in Live : v # w => wpc'[v] = wpc[v]
  BY DEF SendReturns, MoveWorker, Live, LiveState, TypeInv, TypeOK
<1>3. PhaseOf(s0) = "running"
  BY <1>1, PhaseOfLive
<1>4. PhaseOf(s0)' = "reported"
  BY <1>1, <1>2 DEF PhaseOf, Runs, Live
<1>5. \A s \in Sessions : s # s0 => PhaseOf(s)' = PhaseOf(s)
  BY <1>2 DEF PhaseOf, Runs, Live
<1>6. PhaseMap[s0] = "running"
  BY <1>1, <1>3 DEF PhaseMap
<1>7. PhaseMap' = [PhaseMap EXCEPT ![s0] = "reported"]
  BY <1>1, <1>4, <1>5 DEF PhaseMap
<1> QED
  BY <1>6, <1>7, ReportSend DEF Service!Report, Service!Outcome

\* The guard's destructor frees the session.
LEMMA RefineRelease ==
  ASSUME TypeInv, ReportInv, NEW w \in Workers, ReleaseSession(w),
         NEW s0, s0 = wsession[w]
  PROVE  Service!Release(s0)
<1>1. w \in Live /\ wpc[w] = "releasing" /\ s0 \in Sessions
  BY LiveSession
     DEF ReleaseSession, LeaveScope, Live, LiveState, ReportInv, NothingThrown
<1>2. /\ Live' = Live \ {w} /\ UNCHANGED <<wsession, received>>
      /\ \A v \in Live' : wpc'[v] = wpc[v]
  BY <1>1
     DEF ReleaseSession, LeaveScope, MoveWorker, Live, LiveState, TypeInv, TypeOK
<1>3. \A v \in Live' : wsession[v] # s0
  BY <1>1, <1>2 DEF ReportInv, SessionInv, NoConcurrentSession
<1>4. PhaseOf(s0) = "reported"
  BY <1>1, PhaseOfLive
<1>5. PhaseOf(s0)' = "free"
  BY <1>2, <1>3 DEF PhaseOf, Runs
<1>6. \A s \in Sessions : s # s0 => PhaseOf(s)' = PhaseOf(s)
  BY <1>2 DEF PhaseOf, Runs, Live
<1>7. PhaseMap[s0] = "reported"
  BY <1>1, <1>4 DEF PhaseMap
<1>8. PhaseMap' = [PhaseMap EXCEPT ![s0] = "free"]
  BY <1>1, <1>5, <1>6 DEF PhaseMap
<1> QED
  BY <1>2, <1>7, <1>8 DEF Service!Release

\* The end of the process frees every session.
LEMMA RefineProcessEnds ==
  ASSUME TypeInv, ReportInv, ProcessEnds
  PROVE  [Service!Next]_(Service!vars)
<1>1. Live' = {} /\ LastWords
  BY DEF ProcessEnds, Live, LiveState
<1>2. \A s \in Sessions : PhaseOf(s)' = "free"
  BY <1>1 DEF PhaseOf, Runs
<1>3. CASE UNCHANGED received
  <2>1. CASE \A s \in Sessions : PhaseOf(s) = "free"
    BY <1>2, <1>3, <2>1 DEF Service!vars, PhaseMap
  <2>2. CASE \E s \in Sessions : PhaseOf(s) # "free"
    BY <1>2, <1>3, <2>2 DEF Service!Next, Service!Crash, Service!Busy, PhaseMap
  <2> QED BY <2>1, <2>2
<1>4. ASSUME NEW w \in Live, NEW o \in {"done", "err"}, wpc[w] # "releasing",
             wsession[w] \in Sessions, NEW s0, s0 = wsession[w],
             received' = [received EXCEPT ![s0] = {o}]
      PROVE  Service!Crash
  <2>1. PhaseOf(s0) = "running"
    BY <1>4, PhaseOfLive
  <2>2. PhaseMap[s0] = "running" /\ s0 \in Service!Busy
    BY <1>4, <2>1 DEF PhaseMap, Service!Busy
  <2>3. PhaseMap' = [s \in Sessions |-> "free"]
    BY <1>2 DEF PhaseMap
  <2> QED BY <1>4, <2>2, <2>3 DEF Service!Crash, Service!Outcome
<1>5. CASE ~UNCHANGED received
  BY <1>1, <1>4, <1>5, ReportLastWords DEF Service!Next
<1> QED BY <1>3, <1>5

\* A worker's step that crosses no phase is invisible to the service.
LEMMA RefineMove ==
  ASSUME TypeInv, NEW w \in Workers, NEW to \in WorkerState, MoveWorker(w, to),
         wpc[w] \in LiveState <=> to \in LiveState,
         {wpc[w], to} \cap {"releasing", "releasing_throw"} = {},
         UNCHANGED <<wsession, received>>
  PROVE  UNCHANGED Service!vars
<1>1. Live' = Live
  BY DEF Live, MoveWorker, TypeInv, TypeOK
<1>2. \A v \in Live : \/ wpc'[v] = wpc[v]
                      \/ {wpc[v], wpc'[v]} \cap {"releasing", "releasing_throw"} = {}
  BY DEF Live, MoveWorker, TypeInv, TypeOK
<1>3. \A s : PhaseOf(s)' = PhaseOf(s)
  BY <1>1, <1>2, PhaseFrame
<1> QED BY <1>3 DEF Service!vars, PhaseMap

\* Every step of the agent is a step of the service or none.
LEMMA RefineNext ==
  ASSUME TypeInv, ReportInv, PoolInv, ~SendMayThrow, [Next]_vars
  PROVE  [Service!Next]_(Service!vars)
<1>1. CASE ProcessEnds
  BY <1>1, RefineProcessEnds
<1>2. CASE SpawnWorker
  <2>1. task \in Sessions
    BY <1>2 DEF SpawnWorker, TypeInv, TaskIsKnown
  <2>2. \E s \in Sessions : Service!Start(s)
    BY <1>2, <2>1, RefineSpawn
  <2> QED BY <2>2 DEF Service!Next
<1>3. CASE MainStep /\ ~SpawnWorker /\ ~ProcessEnds
  <2>1. \A s : PhaseOf(s)' = PhaseOf(s)
    BY <1>3, ReportMainFrame, PhaseFrame
  <2> QED BY <1>3, <2>1, ReportMainFrame DEF Service!vars, PhaseMap
<1>4. ASSUME NEW w \in Workers, WorkerStep(w)
      PROVE  [Service!Next]_(Service!vars)
  <2>1. CASE SendReturns(w)
    <3>1. wsession[w] \in Sessions
      BY <2>1, LiveSession DEF SendReturns, Live, LiveState
    <3>2. \E s \in Sessions : Service!Report(s)
      BY <2>1, <3>1, RefineSend
    <3> QED BY <3>2 DEF Service!Next
  <2>2. CASE ReleaseSession(w)
    <3>1. wsession[w] \in Sessions
      BY <2>2, LiveSession DEF ReleaseSession, LeaveScope, Live, LiveState
    <3>2. \E s \in Sessions : Service!Release(s)
      BY <2>2, <3>1, RefineRelease
    <3> QED BY <3>2 DEF Service!Next
  <2>3. CASE Execute(w)
    BY <2>3, RefineMove DEF Execute, WorkerState, LiveState
  <2>4. CASE AcquireClient(w)
    BY <2>4, RefineMove DEF AcquireClient, WorkerState, LiveState
  <2>5. CASE EndThread(w)
    BY <2>5, RefineMove DEF EndThread, WorkerState, LiveState, EndState
  <2>6. ~SendThrows(w) /\ ~ReleaseDestroyed(w)
    BY DEF SendThrows, ReleaseDestroyed, ReportInv, NothingThrown
  <2> QED BY <1>4, <2>1, <2>2, <2>3, <2>4, <2>5, <2>6 DEF WorkerStep
<1>5. CASE Restart \/ UNCHANGED vars
  BY <1>5, PhaseFrame
     DEF Restart, vars, workerVars, Live, Service!vars, PhaseMap
<1> QED BY <1>1, <1>2, <1>3, <1>4, <1>5 DEF Next, Crash

\* The agent implements the abstract task service (SessionGuard, main,
\* send_result): at most max_parallel_tasks sessions run, none twice at once,
\* and each run is reported at most once.
THEOREM AgentImplementsService ==
  ASSUME ~SendMayThrow
  PROVE  Spec => ImplementsTaskService
<1>1. Init => Service!Init
  <2> SUFFICES ASSUME Init PROVE Service!Init
    OBVIOUS
  <2>1. \A s : PhaseOf(s) = "free"
    BY DEF Init, PhaseOf, Runs, Live, LiveState
  <2> QED BY <2>1 DEF Init, Service!Init, PhaseMap
<1>2. Spec => []PoolInv
  BY PoolAlways
<1>3. TypeInv /\ ReportInv /\ PoolInv /\ [Next]_vars => [Service!Next]_(Service!vars)
  BY RefineNext
<1>4. Spec => Service!Spec
  BY <1>1, <1>2, <1>3, ReportAlways, PTL DEF Spec, Service!Spec
<1> QED BY <1>4 DEF ImplementsTaskService
=============================================================================
