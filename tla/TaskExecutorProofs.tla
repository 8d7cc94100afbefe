------------------------- MODULE TaskExecutorProofs -------------------------
(***************************************************************************)
(* Proofs about TaskExecutor, for any jobs, sessions, files, instructions  *)
(* and times: its type invariant, whose output a message is, which files a *)
(* job waits for and collects, and when a FILE task fails.                 *)
(***************************************************************************)
EXTENDS TaskExecutor, FiniteSetTheorems, TLAPS

\* What the library theorems need of a list of files.
FilesAreFinite == IsFiniteSet(Files) /\ IsFiniteSet(UnsafeNames)

-----------------------------------------------------------------------------
(* Types *)

\* The instruction of a job, taken apart.
LEMMA InstructionType ==
  ASSUME TypeOK, NEW j \in Jobs
  PROVE  /\ instr[j] \in Instruction
         /\ instr[j].session \in Sessions
         /\ instr[j].kind \in {"files", "empty", "outside", "shell"}
         /\ instr[j].requested \in SUBSET (Files \cup UnsafeNames)
         /\ instr[j].wait \in 0 .. MaxTime
         /\ instr[j].writes \in SUBSET Files
         /\ instr[j].list \in BOOLEAN /\ instr[j].lingers \in BOOLEAN
         /\ LogOf(j) \in Logs
<1>1. instr[j] \in Instruction
  BY InstructionsAssumption DEF TypeOK
<1>2. instr[j].session \in Sessions
  BY <1>1 DEF Instruction
<1> QED BY <1>1, <1>2 DEF Instruction, LogOf, Logs

\* The deadline of a wait that begins now.
LEMMA DeadlineType ==
  ASSUME TypeOK, NEW j \in Jobs
  PROVE  now + instr[j].wait \in 0 .. 2 * MaxTime
<1>1. instr[j].wait \in 0 .. MaxTime /\ now \in 0 .. MaxTime
  BY InstructionType DEF TypeOK
<1> QED BY <1>1, TimeAssumption

LEMMA AwaitFilesType ==
  ASSUME TypeOK, NEW j \in Jobs, AwaitFiles(j)
  PROVE  /\ until' \in [Jobs -> 0 .. 2 * MaxTime]
         /\ pc' \in [Jobs -> {"new", "shell", "first", "last", "collect", "sleep",
                              "pause", "read", "done"}]
<1>1. now + instr[j].wait \in 0 .. 2 * MaxTime
  BY DeadlineType
<1> QED BY <1>1 DEF TypeOK, AwaitFiles, Move

\* The collected files are files.
LEMMA CollectedType ==
  ASSUME TypeOK, NEW j \in Jobs
  PROVE  Collected(j) \in SUBSET Files
BY InstructionType DEF Collected

\* A line more in a log.
LEMMA LogAddType ==
  ASSUME TypeOK, NEW j \in Jobs, NEW part \in Part
  PROVE  [log EXCEPT ![LogOf(j)] = @ \cup {<<j, part>>}] \in [Logs -> SUBSET (Jobs \X Part)]
<1>1. LogOf(j) \in Logs
  BY InstructionType
<1>2. log \in [Logs -> SUBSET (Jobs \X Part)]
  BY DEF TypeOK
<1>3. log[LogOf(j)] \cup {<<j, part>>} \in SUBSET (Jobs \X Part)
  BY <1>1, <1>2
<1> QED BY <1>1, <1>2, <1>3

\* Who meets whom.
LEMMA MeetType ==
  ASSUME TypeOK, NEW j \in Jobs, Meet(j)
  PROVE  rivals' \in [Jobs -> SUBSET Jobs]
BY DEF TypeOK, Meet

LEMMA TypeNext ==
  ASSUME TypeOK, [Next]_vars
  PROVE  TypeOK'
<1> USE DEF Move, jobVars
<1>1. ASSUME NEW j \in Jobs, Begin(j) PROVE TypeOK'
  <2>1. now \in 0 .. MaxTime
    BY DEF TypeOK
  <2>2. started' \in [Jobs -> 0 .. MaxTime] /\ rivals' \in [Jobs -> SUBSET Jobs]
    BY <1>1, <2>1, MeetType DEF Begin, TypeOK
  <2>3. CASE instr[j].kind = "files" /\ AwaitFiles(j) /\ UNCHANGED code
    BY <1>1, <2>2, <2>3, AwaitFilesType DEF Begin, TypeOK
  <2>4. CASE instr[j].kind = "empty" /\ Refuse(j, -2)
    BY <1>1, <2>2, <2>4 DEF Begin, Refuse, TypeOK
  <2>5. CASE instr[j].kind = "outside" /\ Refuse(j, -5)
    BY <1>1, <2>2, <2>5 DEF Begin, Refuse, TypeOK
  <2>6. CASE instr[j].kind = "shell" /\ Move(j, "shell") /\ UNCHANGED <<until, code>>
    BY <1>1, <2>2, <2>6 DEF Begin, TypeOK
  <2> QED BY <1>1, <2>3, <2>4, <2>5, <2>6 DEF Begin
<1>2. ASSUME NEW j \in Jobs, StartCommand(j) PROVE TypeOK'
  <2>1. CASE instr[j].list
    BY <1>2, <2>1 DEF StartCommand, Reach, TypeOK
  <2>2. CASE ~instr[j].list
    BY <1>2, <2>2 DEF StartCommand, OpenLogs, Reach, Truncated, TypeOK
  <2> QED BY <2>1, <2>2
<1>3. ASSUME NEW j \in Jobs, ReachLast(j) PROVE TypeOK'
  BY <1>3 DEF ReachLast, OpenLogs, Reach, Truncated, TypeOK
<1>4. ASSUME NEW j \in Jobs, PrintFirst(j) PROVE TypeOK'
  BY <1>4 DEF PrintFirst, Part, TypeOK
<1>5. ASSUME NEW j \in Jobs, PrintLast(j) PROVE TypeOK'
  <2>1. log' \in [Logs -> SUBSET (Jobs \X Part)]
    BY <1>5, LogAddType DEF PrintLast, Part
  <2> QED BY <1>5, <2>1 DEF PrintLast, Part, TypeOK
<1>6. ASSUME NEW j \in Jobs, PrintLate(j) PROVE TypeOK'
  <2>1. log' \in [Logs -> SUBSET (Jobs \X Part)]
    BY <1>6, LogAddType DEF PrintLate, Part
  <2> QED BY <1>6, <2>1 DEF PrintLate, TypeOK
<1>7. ASSUME NEW j \in Jobs, ExitCommand(j) PROVE TypeOK'
  <2>1. code' \in [Jobs -> ExitCodes \cup {-5, -4, -2, 0}]
    BY <1>7 DEF ExitCommand, TypeOK
  <2> QED BY <1>7, <2>1, AwaitFilesType DEF ExitCommand, TypeOK
<1>8. ASSUME NEW j \in Jobs, Collect(j) PROVE TypeOK'
  <2>1. found' \in [Jobs -> SUBSET Files]
    BY <1>8, CollectedType DEF Collect, TypeOK
  <2>2. now + 1 \in 0 .. MaxTime + 1
    BY TimeAssumption DEF TypeOK
  <2>3. wake' \in [Jobs -> 0 .. MaxTime + 1]
    BY <1>8, <2>2 DEF Collect, TypeOK
  <2>4. pc' \in [Jobs -> {"new", "shell", "first", "last", "collect", "sleep",
                          "pause", "read", "done"}]
    BY <1>8 DEF Collect, TypeOK
  <2> QED BY <1>8, <2>1, <2>3, <2>4 DEF Collect, TypeOK
<1>9. ASSUME NEW j \in Jobs, EndPause(j) PROVE TypeOK'
  BY <1>9 DEF EndPause, TypeOK
<1>10. ASSUME NEW j \in Jobs, EndSleep(j) PROVE TypeOK'
  BY <1>10 DEF EndSleep, TypeOK
<1>11. ASSUME NEW j \in Jobs, Finish(j) PROVE TypeOK'
  <2>1. CASE /\ instr[j].kind = "files"
             /\ code' = [code EXCEPT ![j] = FilesCode(j)]
             /\ UNCHANGED message
    BY <1>11, <2>1 DEF Finish, FilesCode, TypeOK
  <2>2. CASE /\ instr[j].kind = "shell"
             /\ message' = [message EXCEPT ![j] = log[LogOf(j)]]
             /\ UNCHANGED code
    <3>1. log[LogOf(j)] \in SUBSET (Jobs \X Part)
      BY InstructionType DEF TypeOK
    <3> QED BY <1>11, <2>2, <3>1 DEF Finish, TypeOK
  <2> QED BY <1>11, <2>1, <2>2 DEF Finish
<1>12. ASSUME NEW j \in Jobs, NEW f \in Files, WriteResult(j, f) PROVE TypeOK'
  <2>1. changed' \in [Files -> -1 .. MaxTime]
    BY <1>12, TimeAssumption DEF WriteResult, TypeOK
  <2>2. left' \in [Jobs -> [Files -> -1 .. MaxTime]]
    <3>1. now \in -1 .. MaxTime
      BY TimeAssumption DEF TypeOK
    <3> QED BY <1>12, <3>1 DEF WriteResult, TypeOK
  <2> QED BY <1>12, <2>1, <2>2 DEF WriteResult, TypeOK
<1>13. CASE Tick
  BY <1>13, TimeAssumption DEF Tick, TypeOK
<1>14. CASE UNCHANGED vars
  BY <1>14 DEF vars, TypeOK, Logs
<1> QED
  BY <1>1, <1>2, <1>3, <1>4, <1>5, <1>6, <1>7, <1>8, <1>9, <1>10, <1>11, <1>12,
     <1>13, <1>14 DEF Next, JobStep

\* The state of the executor is well typed.
THEOREM ExecutorTypes == Spec => []TypeOK
<1>1. ASSUME Init PROVE TypeOK
  <2>1. now \in 0 .. MaxTime
    BY <1>1, TimeAssumption DEF Init
  <2>2. 0 \in 0 .. MaxTime /\ 0 \in 0 .. 2 * MaxTime /\ 0 \in 0 .. MaxTime + 1
    BY TimeAssumption
  <2>3. changed \in [Files -> -1 .. MaxTime]
    <3>1. {-1, 0} \subseteq -1 .. MaxTime
      BY TimeAssumption
    <3> QED BY <1>1, <3>1 DEF Init
  <2>4. log \in [Logs -> SUBSET (Jobs \X Part)] /\ message \in [Jobs -> SUBSET (Jobs \X Part)]
    BY <1>1 DEF Init
  <2>5. left \in [Jobs -> [Files -> -1 .. MaxTime]]
    <3>1. -1 \in -1 .. MaxTime
      BY TimeAssumption
    <3> QED BY <1>1, <3>1 DEF Init
  <2> QED BY <1>1, <2>1, <2>2, <2>3, <2>4, <2>5 DEF Init, TypeOK
<1>2. TypeOK /\ [Next]_vars => TypeOK'
  BY TypeNext
<1> QED BY <1>1, <1>2, PTL DEF Spec
-----------------------------------------------------------------------------
(* The way of a job *)

\* Where each kind of job can be, and how far its command is there.
KindFits(j) ==
  /\ pc[j] \in {"shell", "first", "last"} => instr[j].kind = "shell"
  /\ pc[j] \in {"new", "shell"} => reached[j] = "nothing"
  /\ pc[j] \in {"first", "last"} => reached[j] = pc[j]
  /\ pc[j] \in {"collect", "sleep", "pause", "read"} => instr[j].kind \in {"files", "shell"}

\* A session has one job at a time.
Exclusive(j, k) ==
  j # k /\ instr[j].session = instr[k].session /\ pc[j] \notin {"new", "done"}
    => pc[k] \in {"new", "done"}

Flow ==
  /\ \A j \in Jobs : KindFits(j)
  /\ \A j, k \in Jobs : Exclusive(j, k)

\* A step of one job leaves the places of the others.
LEMMA OthersStay ==
  ASSUME TypeOK, NEW j \in Jobs, JobStep(j)
  PROVE  /\ instr' = instr
         /\ \A k \in Jobs \ {j} : pc'[k] = pc[k] /\ reached'[k] = reached[k]
BY DEF JobStep, TypeOK, jobVars, Move, Begin, AwaitFiles, Refuse, StartCommand, OpenLogs,
       Reach, ReachLast, PrintFirst, PrintLast, PrintLate, ExitCommand, Collect, EndPause,
       EndSleep, Finish, WriteResult

\* A job keeps to its kind.
LEMMA KindStep ==
  ASSUME TypeOK, NEW j \in Jobs, JobStep(j), KindFits(j)
  PROVE  KindFits(j)'
<1> USE DEF KindFits, TypeOK, Move, jobVars
<1>1. CASE Begin(j)
  BY <1>1 DEF Begin, AwaitFiles, Refuse
<1>2. CASE StartCommand(j) \/ ReachLast(j)
  BY <1>2 DEF StartCommand, ReachLast, OpenLogs, Reach
<1>3. CASE PrintFirst(j) \/ PrintLast(j) \/ PrintLate(j)
  BY <1>3 DEF PrintFirst, PrintLast, PrintLate
<1>4. CASE ExitCommand(j)
  BY <1>4 DEF ExitCommand, AwaitFiles, Runs
<1>5. CASE Collect(j)
  BY <1>5 DEF Collect
<1>6. CASE EndPause(j) \/ EndSleep(j) \/ Finish(j)
  BY <1>6 DEF EndPause, EndSleep, Finish
<1>7. CASE \E f \in Files : WriteResult(j, f)
  BY <1>7 DEF WriteResult
<1> QED BY <1>1, <1>2, <1>3, <1>4, <1>5, <1>6, <1>7 DEF JobStep

\* A job that is at work was so before, or its session was free.
LEMMA WorkBegins ==
  ASSUME TypeOK, NEW j \in Jobs, JobStep(j), pc'[j] \notin {"new", "done"}
  PROVE  \/ pc[j] \notin {"new", "done"}
         \/ \A k \in Jobs : instr[k].session = instr[j].session => pc[k] \in {"new", "done"}
<1> USE DEF TypeOK, Move, jobVars
<1>1. CASE Begin(j)
  BY <1>1 DEF Begin
<1>2. CASE PrintFirst(j) \/ PrintLast(j) \/ PrintLate(j)
  BY <1>2 DEF PrintFirst, PrintLast, PrintLate
<1>3. CASE \E f \in Files : WriteResult(j, f)
  BY <1>3 DEF WriteResult
<1>4. CASE StartCommand(j) \/ ReachLast(j) \/ ExitCommand(j) \/ Collect(j)
           \/ EndPause(j) \/ EndSleep(j) \/ Finish(j)
  BY <1>4 DEF StartCommand, ReachLast, ExitCommand, Runs, Collect, EndPause, EndSleep, Finish
<1> QED BY <1>1, <1>2, <1>3, <1>4 DEF JobStep

LEMMA FlowNext ==
  ASSUME TypeOK, Flow, [Next]_vars
  PROVE  Flow'
<1>1. ASSUME NEW j \in Jobs, JobStep(j) PROVE Flow'
  <2>1. instr' = instr /\ \A k \in Jobs \ {j} : pc'[k] = pc[k] /\ reached'[k] = reached[k]
    BY <1>1, OthersStay
  <2>2. ASSUME NEW k \in Jobs PROVE KindFits(k)'
    <3>1. CASE k = j
      BY <1>1, <3>1, KindStep DEF Flow
    <3>2. CASE k # j
      BY <2>1, <3>2 DEF Flow, KindFits
    <3> QED BY <3>1, <3>2
  <2>3. ASSUME NEW k \in Jobs, NEW m \in Jobs PROVE Exclusive(k, m)'
    <3>1. CASE k # j /\ m # j
      BY <2>1, <3>1 DEF Flow, Exclusive
    <3>2. CASE k = m
      BY <3>2 DEF Exclusive
    <3>3. CASE k = j /\ m # j
      BY <1>1, <2>1, <3>3, WorkBegins DEF Flow, Exclusive
    <3>4. CASE k # j /\ m = j
      BY <1>1, <2>1, <3>4, WorkBegins DEF Flow, Exclusive
    <3> QED BY <3>1, <3>2, <3>3, <3>4
  <2> QED BY <2>2, <2>3 DEF Flow
<1>2. CASE Tick \/ UNCHANGED vars
  BY <1>2 DEF Tick, vars, jobVars, Flow, KindFits, Exclusive
<1> QED BY <1>1, <1>2 DEF Next

LEMMA FlowInvariant == Spec => []Flow
<1>1. Init => Flow
  BY DEF Init, Flow, KindFits, Exclusive
<1>2. TypeOK /\ TypeOK' /\ Flow /\ [Next]_vars => Flow'
  BY FlowNext
<1> QED BY <1>1, <1>2, ExecutorTypes, PTL DEF Spec
-----------------------------------------------------------------------------
(* Logs and messages *)

\* std::system has returned.
Ended == {"collect", "sleep", "pause", "read", "done"}

\* Before the redirections a command has printed nothing that they cover.
Unprinted(j) ==
  /\ pc[j] \in {"new", "shell"} => printed[j] = {}
  /\ pc[j] = "first" => printed[j] \subseteq {"first"}

\* Jobs that write to the same log and are at work together know each other.
RivalsHold ==
  \A j, k \in Jobs : AreRivals(j, k) /\ IsWorking(j) /\ IsWorking(k) => k \in rivals[j]

\* The text is that of j and of its rivals; without rivals it is all of j's.
IsOwn(j, text) ==
  /\ \A entry \in Early(text) : entry[1] \in {j} \cup rivals[j]
  /\ rivals[j] = {} => Early(text) = {j} \X (printed[j] \ {"first"})

\* From the opening of its log until it is read.
LogIsOwn(j) ==
  reached[j] = "last" /\ pc[j] \in {"last"} \cup (Ended \ {"done"}) => IsOwn(j, log[LogOf(j)])

\* Text is in the log of its job; late text is from a process left behind.
IsInPlace(entry, l) ==
  LogOf(entry[1]) = l /\ (entry[2] = "late" => IsLeftBehind(entry))

LogsHold ==
  /\ \A j \in Jobs : Unprinted(j) /\ LogIsOwn(j)
  /\ RivalsHold
  /\ \A l \in Logs : \A entry \in log[l] : IsInPlace(entry, l)
  /\ MessageIsOwnOutput

\* What a step adds to a log.
LEMMA EarlyAdds ==
  ASSUME NEW j, NEW text
  PROVE  /\ Early({}) = {}
         /\ Early(text \cup {<<j, "late">>}) = Early(text)
         /\ Early(text \cup {<<j, "last">>}) = Early(text) \cup {<<j, "last">>}
BY DEF Early

LEMMA ProductAdds ==
  ASSUME NEW j, NEW parts
  PROVE  ({j} \X (parts \ {"first"})) \cup {<<j, "last">>}
           = {j} \X ((parts \cup {"last"}) \ {"first"})
OBVIOUS

\* Only a job that begins goes to work.
LEMMA OnlyBeginWorks ==
  ASSUME TypeOK, NEW j \in Jobs, JobStep(j), ~Begin(j), NEW k \in Jobs, IsWorking(k)'
  PROVE  IsWorking(k)
<1>1. CASE k # j
  BY <1>1, OthersStay DEF IsWorking
<1>2. CASE k = j
  <2> USE DEF IsWorking, jobVars
  <2>1. CASE PrintFirst(j) \/ PrintLast(j) \/ PrintLate(j)
    BY <1>2, <2>1 DEF PrintFirst, PrintLast, PrintLate
  <2>2. CASE \E f \in Files : WriteResult(j, f)
    BY <1>2, <2>2 DEF WriteResult
  <2>3. CASE StartCommand(j) \/ ReachLast(j) \/ ExitCommand(j) \/ Collect(j)
             \/ EndPause(j) \/ EndSleep(j) \/ Finish(j)
    BY <1>2, <2>3
    DEF StartCommand, ReachLast, ExitCommand, Runs, Collect, EndPause, EndSleep, Finish
  <2> QED BY <2>1, <2>2, <2>3 DEF JobStep
<1> QED BY <1>1, <1>2

\* Rivals change when a job begins only.
LEMMA RivalsStay ==
  ASSUME TypeOK, NEW j \in Jobs, JobStep(j), ~Begin(j)
  PROVE  rivals' = rivals
BY DEF JobStep, jobVars, StartCommand, ReachLast, PrintFirst, PrintLast, PrintLate,
       ExitCommand, Collect, EndPause, EndSleep, Finish, WriteResult

LEMMA RivalsStep ==
  ASSUME TypeOK, LogsHold, NEW j \in Jobs, JobStep(j)
  PROVE  RivalsHold'
<1>1. instr' = instr
  BY OthersStay
<1>2. SUFFICES ASSUME NEW k \in Jobs, NEW m \in Jobs, AreRivals(k, m),
                      IsWorking(k)', IsWorking(m)'
               PROVE  m \in rivals'[k]
  BY <1>1 DEF RivalsHold, AreRivals, LogOf
<1>3. CASE ~Begin(j)
  BY <1>2, <1>3, OnlyBeginWorks, RivalsStay DEF LogsHold, RivalsHold
<1>4. CASE Begin(j)
  <2>1. \A i \in Jobs : rivals'[i] =
          IF i = j THEN rivals[j] \cup {h \in Jobs : IsWorking(h) /\ AreRivals(j, h)}
          ELSE IF IsWorking(i) /\ AreRivals(j, i) THEN rivals[i] \cup {j}
          ELSE rivals[i]
    BY <1>4 DEF Begin, Meet
  <2>2. \A i \in Jobs : i # j => (IsWorking(i)' <=> IsWorking(i))
    BY OthersStay DEF IsWorking
  <2>3. k # m /\ (AreRivals(j, k) <=> AreRivals(k, j))
    BY <1>2 DEF AreRivals
  <2>4. CASE k = j
    BY <1>2, <2>1, <2>2, <2>3, <2>4
  <2>5. CASE m = j
    BY <1>2, <2>1, <2>2, <2>3, <2>5
  <2>6. CASE k # j /\ m # j
    BY <1>2, <2>1, <2>2, <2>6 DEF LogsHold, RivalsHold
  <2> QED BY <2>4, <2>5, <2>6
<1> QED BY <1>3, <1>4

\* What has ended has ended.
LEMMA EndedStays ==
  ASSUME TypeOK, NEW j \in Jobs, JobStep(j), NEW k \in Jobs, pc[k] \in Ended
  PROVE  pc'[k] \in Ended
<1> USE DEF TypeOK, Move, jobVars, Ended
<1>1. CASE k # j
  BY <1>1, OthersStay
<1>2. CASE k = j
  <2>1. CASE Collect(j) \/ EndPause(j) \/ EndSleep(j) \/ Finish(j)
    BY <1>2, <2>1 DEF Collect, EndPause, EndSleep, Finish
  <2>2. CASE PrintFirst(j) \/ PrintLast(j) \/ PrintLate(j)
    BY <1>2, <2>2 DEF PrintFirst, PrintLast, PrintLate
  <2>3. CASE Begin(j) \/ StartCommand(j) \/ ReachLast(j) \/ ExitCommand(j)
    BY <1>2, <2>3 DEF Begin, StartCommand, ReachLast, ExitCommand, Runs
  <2>4. CASE \E f \in Files : WriteResult(j, f)
    BY <1>2, <2>4 DEF WriteResult
  <2> QED BY <2>1, <2>2, <2>3, <2>4 DEF JobStep
<1> QED BY <1>1, <1>2

\* A log gets nothing but from jobs that have it open.
LEMMA PlaceStep ==
  ASSUME TypeOK, TypeOK', Flow, LogsHold, NEW j \in Jobs, JobStep(j),
         NEW l \in Logs, NEW entry \in log'[l]
  PROVE  IsInPlace(entry, l)'
<1> USE DEF jobVars
<1>1. instr' = instr
  BY OthersStay
<1>2. entry \in Jobs \X Part /\ entry[1] \in Jobs
  BY DEF TypeOK
<1>3. CASE entry \in log[l]
  <2>1. IsInPlace(entry, l)
    BY <1>3 DEF LogsHold
  <2> QED BY <1>1, <1>2, <2>1, EndedStays DEF IsInPlace, IsLeftBehind, LogOf, Ended
<1>4. CASE entry \notin log[l]
  <2>1. CASE PrintLate(j)
    <3>1. l = LogOf(j) /\ entry = <<j, "late">>
      BY <1>4, <2>1, InstructionType DEF PrintLate, TypeOK
    <3>2. pc[j] \in Ended /\ instr[j].lingers
      BY <2>1 DEF PrintLate, Lingers, Runs, Ended, TypeOK, Flow, KindFits
    <3>3. pc' = pc
      BY <2>1 DEF PrintLate
    <3> QED BY <1>1, <3>1, <3>2, <3>3 DEF IsInPlace, IsLeftBehind, LogOf, Ended
  <2>2. CASE PrintLast(j)
    <3>1. l = LogOf(j) /\ entry = <<j, "last">>
      BY <1>4, <2>2, InstructionType DEF PrintLast, TypeOK
    <3> QED BY <1>1, <3>1 DEF IsInPlace, LogOf
  <2>3. CASE StartCommand(j) \/ ReachLast(j)
    BY <1>4, <2>3, InstructionType DEF StartCommand, ReachLast, OpenLogs, Truncated, TypeOK
  <2>4. CASE Begin(j) \/ PrintFirst(j) \/ ExitCommand(j) \/ Collect(j)
             \/ EndPause(j) \/ EndSleep(j) \/ Finish(j) \/ \E f \in Files : WriteResult(j, f)
    BY <1>4, <2>4
    DEF Begin, PrintFirst, ExitCommand, Collect, EndPause, EndSleep, Finish, WriteResult
  <2> QED BY <2>1, <2>2, <2>3, <2>4 DEF JobStep
<1> QED BY <1>3, <1>4

\* Nothing is printed before the command runs.
LEMMA UnprintedStep ==
  ASSUME TypeOK, LogsHold, NEW j \in Jobs, JobStep(j), NEW k \in Jobs
  PROVE  Unprinted(k)'
<1> USE DEF TypeOK, Move, jobVars, Unprinted
<1>0. Unprinted(k)
  BY DEF LogsHold
<1>1. CASE PrintFirst(j) \/ PrintLast(j)
  BY <1>0, <1>1 DEF PrintFirst, PrintLast
<1>2. CASE Begin(j)
  BY <1>0, <1>2 DEF Begin, AwaitFiles, Refuse
<1>3. CASE StartCommand(j) \/ ReachLast(j) \/ PrintLate(j)
  BY <1>0, <1>3 DEF StartCommand, ReachLast, OpenLogs, Reach, PrintLate
<1>4. CASE ExitCommand(j) \/ Collect(j) \/ EndPause(j) \/ EndSleep(j) \/ Finish(j)
  BY <1>0, <1>4 DEF ExitCommand, AwaitFiles, Collect, EndPause, EndSleep, Finish
<1>5. CASE \E f \in Files : WriteResult(j, f)
  BY <1>0, <1>5 DEF WriteResult
<1> QED BY <1>1, <1>2, <1>3, <1>4, <1>5 DEF JobStep

\* What a job prints stays what it was when another one steps.
LEMMA PrintedStays ==
  ASSUME TypeOK, NEW j \in Jobs, JobStep(j), NEW k \in Jobs, k # j \/ pc[k] \in Ended
  PROVE  printed'[k] = printed[k]
<1> USE DEF jobVars, TypeOK
<1>1. CASE PrintFirst(j) \/ PrintLast(j)
  BY <1>1 DEF PrintFirst, PrintLast, Ended
<1>2. CASE ~(PrintFirst(j) \/ PrintLast(j))
  BY <1>2 DEF JobStep, Begin, StartCommand, ReachLast, PrintLate, ExitCommand, Collect,
              EndPause, EndSleep, Finish, WriteResult
<1> QED BY <1>1, <1>2

\* Rivals are not forgotten, and a job gets a new one only when that one begins.
LEMMA RivalsGrow ==
  ASSUME TypeOK, NEW j \in Jobs, JobStep(j), NEW k \in Jobs
  PROVE  /\ rivals[k] \subseteq rivals'[k]
         /\ pc[k] = "done" => rivals'[k] = rivals[k]
<1>1. CASE ~Begin(j)
  BY <1>1, RivalsStay
<1>2. CASE Begin(j)
  BY <1>2 DEF Begin, Meet, IsWorking
<1> QED BY <1>1, <1>2

\* The log of a job at work gets text of its own session's processes left
\* behind, and else of its rivals only.
LEMMA OtherLogStep ==
  ASSUME TypeOK, TypeOK', Flow, LogsHold, NEW j \in Jobs, JobStep(j), NEW k \in Jobs \ {j},
         IsWorking(k), IsOwn(k, log[LogOf(k)])
  PROVE  IsOwn(k, log[LogOf(k)])'
<1> USE DEF jobVars
<1>0. /\ LogOf(k) \in Logs /\ LogOf(j) \in Logs /\ log \in [Logs -> SUBSET (Jobs \X Part)]
      /\ LogOf(k)' = LogOf(k) /\ printed'[k] = printed[k]
      /\ rivals[k] \subseteq rivals'[k]
  BY InstructionType, OthersStay, PrintedStays, RivalsGrow DEF TypeOK, LogOf
<1>1. CASE Early(log'[LogOf(k)]) = Early(log[LogOf(k)])
  <2>1. \A entry \in Early(log'[LogOf(k)]) : entry[1] \in {k} \cup rivals'[k]
    BY <1>0, <1>1 DEF IsOwn
  <2>2. rivals'[k] = {} => Early(log'[LogOf(k)]) = {k} \X (printed'[k] \ {"first"})
    BY <1>0, <1>1 DEF IsOwn
  <2> QED BY <1>0, <2>1, <2>2 DEF IsOwn, Early
<1>2. CASE AreRivals(k, j) /\ IsWorking(j) /\ ~Begin(j)
  <2>1. rivals' = rivals /\ j \in rivals[k]
    BY <1>2, RivalsStay DEF LogsHold, RivalsHold
  <2>2. ASSUME NEW entry \in Early(log'[LogOf(k)]) PROVE entry[1] \in {k} \cup rivals[k]
    <3>1. CASE PrintLast(j) \/ PrintLate(j)
      <4>1. log'[LogOf(k)] \subseteq log[LogOf(k)] \cup {<<j, "last">>, <<j, "late">>}
        BY <1>0, <1>2, <3>1 DEF PrintLast, PrintLate
      <4>2. entry \in Early(log[LogOf(k)]) \/ entry[1] = j
        BY <2>2, <4>1 DEF Early
      <4> QED BY <2>1, <4>2 DEF IsOwn
    <3>2. CASE StartCommand(j) \/ ReachLast(j)
      <4>1. log'[LogOf(k)] \subseteq log[LogOf(k)]
        BY <1>0, <1>2, <3>2 DEF StartCommand, ReachLast, OpenLogs, Truncated
      <4>2. entry \in Early(log[LogOf(k)])
        BY <2>2, <4>1 DEF Early
      <4> QED BY <4>2 DEF IsOwn
    <3>3. CASE PrintFirst(j) \/ ExitCommand(j) \/ Collect(j) \/ EndPause(j) \/ EndSleep(j)
               \/ Finish(j) \/ \E f \in Files : WriteResult(j, f)
      <4>1. log' = log
        BY <3>3 DEF PrintFirst, ExitCommand, Collect, EndPause, EndSleep, Finish, WriteResult
      <4> QED BY <2>2, <4>1 DEF IsOwn
    <3> QED BY <1>2, <3>1, <3>2, <3>3 DEF JobStep
  <2> QED BY <1>0, <2>1, <2>2 DEF IsOwn, Early
<1>3. CASE ~AreRivals(k, j) \/ ~IsWorking(j) \/ Begin(j)
  <2>1. CASE Begin(j) \/ \E f \in Files : WriteResult(j, f)
    BY <1>1, <2>1 DEF Begin, WriteResult
  <2>2. CASE LogOf(j) # LogOf(k)
    <3>1. log'[LogOf(k)] = log[LogOf(k)]
      BY <1>0, <2>2
      DEF JobStep, Begin, StartCommand, OpenLogs, ReachLast, PrintFirst, PrintLast, PrintLate,
          ExitCommand, Collect, EndPause, EndSleep, Finish, WriteResult
    <3> QED BY <1>1, <3>1
  <2>3. CASE LogOf(j) = LogOf(k) /\ ~IsWorking(j) /\ PrintLate(j)
    <3>1. log'[LogOf(k)] = log[LogOf(k)] \cup {<<j, "late">>}
      BY <1>0, <2>3 DEF PrintLate
    <3> QED BY <1>1, <3>1, EarlyAdds
  <2>4. ASSUME ~IsWorking(j), ~PrintLate(j), ~Begin(j) PROVE \E f \in Files : WriteResult(j, f)
    BY <2>4 DEF IsWorking, JobStep, StartCommand, ReachLast, ExitCommand, Runs, PrintFirst,
                PrintLast, Collect, EndPause, EndSleep, Finish
  <2> QED BY <1>3, <2>1, <2>2, <2>3, <2>4 DEF AreRivals
<1> QED BY <1>2, <1>3

LEMMA LogIsOwnStep ==
  ASSUME TypeOK, TypeOK', Flow, LogsHold, NEW j \in Jobs, JobStep(j), NEW k \in Jobs
  PROVE  LogIsOwn(k)'
<1> USE DEF jobVars
<1>0. /\ LogIsOwn(k) /\ Unprinted(k) /\ KindFits(k)
      /\ instr' = instr /\ LogOf(k)' = LogOf(k) /\ LogOf(k) \in Logs
      /\ log \in [Logs -> SUBSET (Jobs \X Part)]
  BY OthersStay, InstructionType DEF LogsHold, Flow, TypeOK, LogOf
<1>1. CASE k # j
  <2>1. pc'[k] = pc[k] /\ reached'[k] = reached[k]
    BY <1>1, OthersStay
  <2>2. CASE reached[k] = "last" /\ pc[k] \in {"last"} \cup (Ended \ {"done"})
    <3>1. IsWorking(k) /\ IsOwn(k, log[LogOf(k)])
      BY <1>0, <2>2 DEF LogIsOwn, IsWorking, Ended
    <3>2. IsOwn(k, log[LogOf(k)])'
      BY <1>1, <3>1, OtherLogStep
    <3> QED BY <3>2 DEF LogIsOwn
  <2> QED BY <2>1, <2>2 DEF LogIsOwn
<1>2. CASE k = j
  <2> USE DEF TypeOK, Move
  <2>1. CASE Begin(j)
    BY <1>0, <1>2, <2>1 DEF Begin, AwaitFiles, Refuse, LogIsOwn, KindFits
  <2>2. CASE StartCommand(j) \/ ReachLast(j)
    <3>1. CASE StartCommand(j) /\ instr[j].list
      BY <1>2, <3>1 DEF StartCommand, Reach, LogIsOwn
    <3>2. CASE ReachLast(j) \/ ~instr[j].list
      <4>1. log'[LogOf(j)] = {} /\ printed'[j] \subseteq {"first"}
        BY <1>0, <1>2, <2>2, <3>2
        DEF StartCommand, ReachLast, OpenLogs, Truncated, Unprinted
      <4>2. Early(log'[LogOf(j)]) = {} /\ {j} \X (printed'[j] \ {"first"}) = {}
        BY <4>1, EarlyAdds
      <4> QED BY <1>0, <1>2, <4>2 DEF LogIsOwn, IsOwn, Early
    <3> QED BY <2>2, <3>1, <3>2
  <2>3. CASE PrintFirst(j)
    BY <1>0, <1>2, <2>3 DEF PrintFirst, KindFits, LogIsOwn
  <2>4. CASE PrintLast(j)
    <3>1. /\ log'[LogOf(j)] = log[LogOf(j)] \cup {<<j, "last">>}
          /\ printed'[j] = printed[j] \cup {"last"}
          /\ rivals' = rivals /\ pc[j] = "last" /\ reached[j] = "last"
      BY <1>0, <1>2, <2>4 DEF PrintLast, KindFits
    <3>2. IsOwn(j, log[LogOf(j)])
      BY <1>0, <1>2, <3>1 DEF LogIsOwn
    <3>3. Early(log'[LogOf(j)]) = Early(log[LogOf(j)]) \cup {<<j, "last">>}
      BY <3>1, EarlyAdds
    <3>4. ({j} \X (printed[j] \ {"first"})) \cup {<<j, "last">>}
            = {j} \X ((printed[j] \cup {"last"}) \ {"first"})
      BY ProductAdds
    <3>5. IsOwn(j, log[LogOf(j)])'
      BY <1>0, <1>2, <3>1, <3>2, <3>3, <3>4 DEF IsOwn, Early
    <3> QED BY <1>2, <3>5 DEF LogIsOwn
  <2>5. CASE PrintLate(j)
    <3>1. /\ log'[LogOf(j)] = log[LogOf(j)] \cup {<<j, "late">>}
          /\ UNCHANGED <<pc, reached, printed, rivals>>
      BY <1>0, <1>2, <2>5 DEF PrintLate
    <3>2. Early(log'[LogOf(j)]) = Early(log[LogOf(j)])
      BY <3>1, EarlyAdds
    <3> QED BY <1>0, <1>2, <3>1, <3>2 DEF LogIsOwn, IsOwn, Early
  <2>6. CASE ExitCommand(j)
    <3>1. reached[j] = "last" => pc[j] = "last"
      BY <1>0, <1>2, <2>6 DEF ExitCommand, Runs, KindFits
    <3>2. UNCHANGED <<log, printed, rivals, reached>>
      BY <2>6 DEF ExitCommand
    <3> QED BY <1>0, <1>2, <3>1, <3>2 DEF LogIsOwn, IsOwn
  <2>7. CASE Collect(j) \/ EndPause(j) \/ EndSleep(j) \/ Finish(j)
    <3>1. UNCHANGED <<log, printed, rivals, reached>> /\ pc[j] \in Ended \ {"done"}
      BY <2>7 DEF Collect, EndPause, EndSleep, Finish, Ended
    <3> QED BY <1>0, <1>2, <3>1 DEF LogIsOwn, IsOwn
  <2>8. CASE \E f \in Files : WriteResult(j, f)
    BY <1>0, <1>2, <2>8 DEF WriteResult, LogIsOwn, IsOwn
  <2> QED BY <2>1, <2>2, <2>3, <2>4, <2>5, <2>6, <2>7, <2>8 DEF JobStep
<1> QED BY <1>1, <1>2

\* What MessageIsOwnOutput says of a job.
HasOwnMessage(j) ==
  /\ \A entry \in message[j] : LogOf(entry[1]) = LogOf(j)
  /\ \A entry \in message[j] \ Early(message[j]) : IsLeftBehind(entry)
  /\ reached[j] = "last" => IsOwn(j, message[j])

LEMMA MessageParts ==
  MessageIsOwnOutput <=> \A j \in Jobs : Executed(j) => HasOwnMessage(j)
BY DEF MessageIsOwnOutput, HasOwnMessage, IsOwn

\* A done job keeps what its message says, and the way there fits the logs.
LEMMA MessageStep ==
  ASSUME TypeOK, TypeOK', Flow, LogsHold, NEW j \in Jobs, JobStep(j),
         NEW k \in Jobs, Executed(k)'
  PROVE  HasOwnMessage(k)'
<1> USE DEF jobVars
<1>0. instr' = instr /\ instr[k].kind = "shell" /\ pc'[k] = "done" /\ LogOf(k)' = LogOf(k)
  BY OthersStay DEF Executed, LogOf
<1>1. CASE pc[k] = "done"
  <2>1. message'[k] = message[k] /\ reached'[k] = reached[k]
    BY <1>1
    DEF TypeOK, JobStep, Begin, StartCommand, OpenLogs, Reach, ReachLast, PrintFirst,
        PrintLast, PrintLate, ExitCommand, Runs, Collect, EndPause, EndSleep, Finish, WriteResult
  <2>2. rivals'[k] = rivals[k] /\ printed'[k] = printed[k]
    BY <1>1, RivalsGrow, PrintedStays DEF Ended
  <2>3. HasOwnMessage(k)
    BY <1>0, <1>1, MessageParts DEF LogsHold, Executed
  <2>4. message[k] \subseteq Jobs \X Part
    BY DEF TypeOK
  <2>5. ASSUME NEW entry \in message'[k] PROVE LogOf(entry[1])' = LogOf(k)'
    BY <1>0, <2>1, <2>3, <2>5 DEF HasOwnMessage, LogOf
  <2>6. ASSUME NEW entry \in message'[k] \ Early(message'[k]) PROVE IsLeftBehind(entry)'
    <3>1. entry \in message[k] \ Early(message[k]) /\ entry[1] \in Jobs
      BY <2>1, <2>4
    <3>2. IsLeftBehind(entry)
      BY <2>3, <3>1 DEF HasOwnMessage
    <3> QED BY <1>0, <3>1, <3>2, EndedStays DEF IsLeftBehind, Ended
  <2>7. reached'[k] = "last" => IsOwn(k, message[k])'
    BY <2>1, <2>2, <2>3 DEF HasOwnMessage, IsOwn, Early
  <2> QED BY <2>5, <2>6, <2>7 DEF HasOwnMessage, Early
<1>2. CASE pc[k] # "done"
  <2>1. k = j
    BY <1>0, <1>2, OthersStay
  <2>2. /\ pc[j] = "read" /\ message'[j] = log[LogOf(j)]
        /\ UNCHANGED <<printed, log, rivals, reached>>
    <3>1. CASE Finish(j)
      BY <1>0, <2>1, <3>1 DEF Finish, TypeOK
    <3>2. CASE Begin(j)
      BY <1>0, <2>1, <3>2 DEF Begin, AwaitFiles, Refuse, Move, TypeOK
    <3>3. CASE PrintFirst(j) \/ PrintLast(j) \/ PrintLate(j)
      BY <1>0, <1>2, <2>1, <3>3 DEF PrintFirst, PrintLast, PrintLate
    <3>4. CASE \E f \in Files : WriteResult(j, f)
      BY <1>0, <1>2, <2>1, <3>4 DEF WriteResult
    <3>5. CASE StartCommand(j) \/ ReachLast(j) \/ ExitCommand(j)
      BY <1>0, <2>1, <3>5
      DEF StartCommand, ReachLast, OpenLogs, Reach, ExitCommand, AwaitFiles, Move, TypeOK
    <3>6. CASE Collect(j) \/ EndPause(j) \/ EndSleep(j)
      BY <1>0, <2>1, <3>6 DEF Collect, EndPause, EndSleep, Move, TypeOK
    <3> QED BY <3>1, <3>2, <3>3, <3>4, <3>5, <3>6 DEF JobStep
  <2>3. LogOf(j) \in Logs /\ log[LogOf(j)] \subseteq Jobs \X Part
    BY InstructionType DEF TypeOK
  <2>4. \A entry \in log[LogOf(j)] : IsInPlace(entry, LogOf(j))
    BY <2>3 DEF LogsHold
  <2>5. ASSUME NEW entry \in message'[k] PROVE LogOf(entry[1])' = LogOf(k)'
    BY <1>0, <2>1, <2>2, <2>4, <2>5 DEF IsInPlace, LogOf
  <2>6. ASSUME NEW entry \in message'[k] \ Early(message'[k]) PROVE IsLeftBehind(entry)'
    <3>1. entry \in log[LogOf(j)] /\ entry[2] = "late" /\ entry[1] \in Jobs
      BY <2>1, <2>2, <2>3, <2>6 DEF Early
    <3>2. IsLeftBehind(entry)
      BY <2>4, <3>1 DEF IsInPlace
    <3> QED BY <1>0, <3>1, <3>2, EndedStays DEF IsLeftBehind, Ended
  <2>7. reached'[k] = "last" => IsOwn(k, message[k])'
    <3>1. reached[j] = "last" => IsOwn(j, log[LogOf(j)])
      BY <2>2 DEF LogsHold, LogIsOwn, Ended
    <3> QED BY <2>1, <2>2, <3>1 DEF IsOwn, Early
  <2> QED BY <2>5, <2>6, <2>7 DEF HasOwnMessage, Early
<1> QED BY <1>1, <1>2

LEMMA LogsNext ==
  ASSUME TypeOK, TypeOK', Flow, LogsHold, [Next]_vars
  PROVE  LogsHold'
<1>1. ASSUME NEW j \in Jobs, JobStep(j) PROVE LogsHold'
  <2>1. \A k \in Jobs : Unprinted(k)' /\ LogIsOwn(k)'
    BY <1>1, UnprintedStep, LogIsOwnStep
  <2>2. RivalsHold'
    BY <1>1, RivalsStep
  <2>3. \A l \in Logs : \A entry \in log'[l] : IsInPlace(entry, l)'
    BY <1>1, PlaceStep
  <2>4. \A k \in Jobs : Executed(k)' => HasOwnMessage(k)'
    BY <1>1, MessageStep
  <2>5. MessageIsOwnOutput'
    BY <2>4 DEF MessageIsOwnOutput, HasOwnMessage, IsOwn
  <2> QED BY <2>1, <2>2, <2>3, <2>5 DEF LogsHold, Logs
<1>2. CASE Tick \/ UNCHANGED vars
  <2>1. UNCHANGED <<instr, pc, message, log, printed, reached, rivals>>
    BY <1>2 DEF Tick, vars, jobVars
  <2>2. \A l \in Logs : \A entry \in log[l] : IsInPlace(entry, l)'
    BY <2>1 DEF LogsHold, IsInPlace, IsLeftBehind, LogOf
  <2>3. RivalsHold'
    BY <2>1 DEF LogsHold, RivalsHold, AreRivals, IsWorking, LogOf
  <2>4. \A k \in Jobs : Unprinted(k)' /\ LogIsOwn(k)'
    BY <2>1 DEF LogsHold, Unprinted, LogIsOwn, IsOwn, LogOf, Early
  <2>5. MessageIsOwnOutput'
    BY <2>1 DEF LogsHold, MessageIsOwnOutput, Executed, IsLeftBehind, LogOf, Early
  <2> QED BY <2>1, <2>2, <2>3, <2>4, <2>5 DEF LogsHold, Logs
<1> QED BY <1>1, <1>2 DEF Next

\* technical_spec.md: TASK returns the text of stdout and stderr as message.
\* Whatever runs beside a command or ran before it, and whichever sessions share
\* the name of a log, its message has text of jobs of its log only; once the
\* shell got to the redirections, none of a job that had ended before; and if no
\* job of the same log worked beside it, all that was redirected (execute_task).
THEOREM MessagesAreOwn == Spec => []MessageIsOwnOutput
<1>1. Init => LogsHold
  BY DEF Init, LogsHold, Unprinted, LogIsOwn, RivalsHold, IsWorking, MessageIsOwnOutput,
         Executed, Ended
<1>2. TypeOK /\ TypeOK' /\ Flow /\ LogsHold /\ [Next]_vars => LogsHold'
  BY LogsNext
<1>3. LogsHold => MessageIsOwnOutput
  BY DEF LogsHold
<1> QED BY <1>1, <1>2, <1>3, ExecutorTypes, FlowInvariant, PTL DEF Spec

-----------------------------------------------------------------------------
(* The files of a list *)

\* Only what was asked for is found, and without a wait the deadline is past.
ListHolds(j) ==
  /\ instr[j].requested # {} => found[j] \subseteq instr[j].requested
  /\ pc[j] \in {"collect", "sleep", "pause"} /\ instr[j].wait = 0 => until[j] <= now

WaitsFor(j) ==
  /\ pc[j] \in {"read", "done"} /\ instr[j].kind \in {"files", "shell"}
  /\ instr[j].requested # {} /\ now < until[j]
  => found[j] = instr[j].requested

ListsHold == \A j \in Jobs : ListHolds(j) /\ WaitsFor(j)

\* A list of which as many files are found as it has is found.
LEMMA AllFound ==
  ASSUME TypeOK, FilesAreFinite, NEW j \in Jobs, instr[j].requested # {},
         IsAllFound(j, Collected(j))
  PROVE  Collected(j) = instr[j].requested
<1>1. IsFiniteSet(Files \cup UnsafeNames)
  BY FS_Union DEF FilesAreFinite
<1>2. instr[j].requested \in SUBSET (Files \cup UnsafeNames)
  BY InstructionType
<1>3. IsFiniteSet(instr[j].requested)
  BY <1>1, <1>2, FS_Subset
<1>4. Collected(j) \subseteq instr[j].requested
  BY DEF Collected
<1>5. IsFiniteSet(Collected(j)) /\ Cardinality(Collected(j)) <= Cardinality(instr[j].requested)
        /\ (Cardinality(instr[j].requested) = Cardinality(Collected(j))
              => instr[j].requested = Collected(j))
  BY <1>3, <1>4, FS_Subset
<1>6. Cardinality(Collected(j)) \in Nat /\ Cardinality(instr[j].requested) \in Nat
  BY <1>3, <1>5, FS_CardinalityType
<1> QED BY <1>5, <1>6 DEF IsAllFound

\* What a step of another job leaves of a job.
LEMMA OtherFilesStay ==
  ASSUME TypeOK, NEW j \in Jobs, JobStep(j), NEW k \in Jobs \ {j}
  PROVE  /\ pc'[k] = pc[k] /\ until'[k] = until[k] /\ found'[k] = found[k]
         /\ code'[k] = code[k] /\ left'[k] = left[k] /\ started'[k] = started[k]
         /\ instr' = instr /\ now' = now
BY DEF TypeOK, Move, jobVars, JobStep, Begin, AwaitFiles, Refuse, StartCommand, OpenLogs,
       Reach, ReachLast, PrintFirst, PrintLast, PrintLate, ExitCommand, Collect, EndPause, EndSleep,
       Finish, WriteResult

LEMMA ListStep ==
  ASSUME TypeOK, Flow, FilesAreFinite, NEW j \in Jobs, JobStep(j),
         ListHolds(j), WaitsFor(j)
  PROVE  ListHolds(j)' /\ WaitsFor(j)'
<1> USE DEF jobVars
<1>0. /\ instr' = instr /\ now' = now /\ KindFits(j)
      /\ now \in Nat /\ until[j] \in Nat /\ instr[j].wait \in Nat
  <2>1. instr' = instr /\ now' = now
    BY DEF JobStep, Begin, StartCommand, ReachLast, PrintFirst, PrintLast, PrintLate,
           ExitCommand, Collect, EndPause, EndSleep, Finish, WriteResult
  <2>2. now \in Nat /\ until[j] \in Nat /\ instr[j].wait \in Nat
    BY InstructionType DEF TypeOK
  <2> QED BY <2>1, <2>2 DEF Flow
<1>1. CASE Begin(j)
  <2>1. CASE instr[j].kind = "files" /\ AwaitFiles(j) /\ UNCHANGED code
    <3>1. until'[j] = now + instr[j].wait /\ pc'[j] \in {"sleep", "collect"}
      BY <2>1 DEF AwaitFiles, Move, TypeOK
    <3>2. found' = found
      BY <1>1 DEF Begin
    <3>3. instr[j].wait = 0 => now + instr[j].wait <= now
      BY <1>0
    <3> QED BY <1>0, <3>1, <3>2, <3>3 DEF ListHolds, WaitsFor
  <2>2. CASE instr[j].kind \in {"empty", "outside", "shell"} /\ pc'[j] \in {"shell", "done"}
               /\ (instr[j].kind = "shell" => pc'[j] = "shell")
    <3>1. found' = found
      BY <1>1 DEF Begin
    <3> QED BY <1>0, <2>2, <3>1 DEF ListHolds, WaitsFor
  <2> QED BY <1>1, <2>1, <2>2 DEF Begin, Refuse, Move, TypeOK
<1>2. CASE StartCommand(j) \/ ReachLast(j)
  <2>1. pc'[j] \in {"first", "last"} /\ found' = found
    BY <1>2 DEF StartCommand, ReachLast, OpenLogs, Reach, Move, TypeOK
  <2> QED BY <1>0, <2>1 DEF ListHolds, WaitsFor
<1>3. CASE PrintFirst(j) \/ PrintLast(j) \/ PrintLate(j) \/ \E f \in Files : WriteResult(j, f)
  <2>1. UNCHANGED <<pc, found, code, until>>
    BY <1>3 DEF PrintFirst, PrintLast, PrintLate, WriteResult
  <2> QED BY <1>0, <2>1 DEF ListHolds, WaitsFor
<1>4. CASE ExitCommand(j)
  <2>1. until'[j] = now + instr[j].wait /\ pc'[j] \in {"sleep", "collect"} /\ found' = found
    BY <1>4 DEF ExitCommand, AwaitFiles, Move, TypeOK
  <2>2. instr[j].wait = 0 => now + instr[j].wait <= now
    BY <1>0
  <2> QED BY <1>0, <2>1, <2>2 DEF ListHolds, WaitsFor
<1>5. CASE Collect(j)
  <2>1. /\ found'[j] = Collected(j) /\ until' = until /\ pc'[j] \in {"read", "pause"}
        /\ pc[j] = "collect"
        /\ pc'[j] = "read" => \/ instr[j].wait = 0 \/ instr[j].requested = {}
                             \/ IsAllFound(j, Collected(j))
    BY <1>5 DEF Collect, Move, TypeOK
  <2>2. instr[j].requested # {} => Collected(j) \subseteq instr[j].requested
    BY DEF Collected
  <2>3. instr[j].requested # {} /\ IsAllFound(j, Collected(j)) =>
          Collected(j) = instr[j].requested
    BY AllFound
  <2>4. instr[j].wait = 0 => ~(now < until[j])
    BY <1>0, <2>1 DEF ListHolds
  <2> QED BY <1>0, <2>1, <2>2, <2>3, <2>4 DEF ListHolds, WaitsFor
<1>6. CASE EndPause(j)
  <2>1. /\ found' = found /\ until' = until /\ pc[j] = "pause"
        /\ pc'[j] = IF now < until[j] THEN "collect" ELSE "read"
    BY <1>6 DEF EndPause, Move, TypeOK
  <2> QED BY <1>0, <2>1 DEF ListHolds, WaitsFor
<1>7. CASE EndSleep(j)
  <2>1. found' = found /\ until' = until /\ pc[j] = "sleep" /\ pc'[j] = "collect"
    BY <1>7 DEF EndSleep, Move, TypeOK
  <2> QED BY <1>0, <2>1 DEF ListHolds, WaitsFor
<1>8. CASE Finish(j)
  <2>1. found' = found /\ until' = until /\ pc[j] = "read" /\ pc'[j] = "done"
    BY <1>8 DEF Finish, Move, TypeOK
  <2> QED BY <1>0, <2>1 DEF ListHolds, WaitsFor, KindFits
<1> QED BY <1>1, <1>2, <1>3, <1>4, <1>5, <1>6, <1>7, <1>8 DEF JobStep

LEMMA ListsNext ==
  ASSUME TypeOK, TypeOK', Flow, FilesAreFinite, ListsHold, [Next]_vars
  PROVE  ListsHold'
<1>1. ASSUME NEW j \in Jobs, JobStep(j), NEW k \in Jobs
      PROVE  ListHolds(k)' /\ WaitsFor(k)'
  <2>1. CASE k = j
    BY <1>1, <2>1, ListStep DEF ListsHold
  <2>2. CASE k # j
    BY <1>1, <2>2, OtherFilesStay DEF ListsHold, ListHolds, WaitsFor
  <2> QED BY <2>1, <2>2
<1>2. ASSUME Tick \/ UNCHANGED vars, NEW k \in Jobs
      PROVE  ListHolds(k)' /\ WaitsFor(k)'
  <2>1. UNCHANGED <<instr, pc, until, found>> /\ now' >= now
    BY <1>2 DEF Tick, vars, jobVars, TypeOK
  <2>2. now \in Nat /\ now' \in Nat /\ until[k] \in Nat
    BY DEF TypeOK
  <2> QED BY <2>1, <2>2 DEF ListsHold, ListHolds, WaitsFor
<1> QED BY <1>1, <1>2 DEF Next, ListsHold

LEMMA ListsInvariant == ASSUME FilesAreFinite PROVE Spec => []ListsHold
<1>1. Init => ListsHold
  BY DEF Init, ListsHold, ListHolds, WaitsFor
<1>2. TypeOK /\ TypeOK' /\ Flow /\ ListsHold /\ [Next]_vars => ListsHold'
  BY ListsNext
<1> QED BY <1>1, <1>2, ExecutorTypes, FlowInvariant, PTL DEF Spec

\* A job stops waiting for the files of its list before the deadline only
\* when it has them all, and it sends none that was not asked for, for any
\* finite list (wait_for_generated_files).
THEOREM ListsAreAwaited == ASSUME FilesAreFinite PROVE Spec => []WaitsForEveryFile
<1>1. ListsHold => WaitsForEveryFile
  BY DEF ListsHold, ListHolds, WaitsFor, WaitsForEveryFile
<1> QED BY <1>1, ListsInvariant, PTL

-----------------------------------------------------------------------------
(* New files *)

\* A file is no older than what a command last wrote to it; once the files have
\* been collected, those are among them that were written late enough.
LeftIsNew(j) ==
  /\ pc[j] # "new" => started[j] <= now
  /\ pc[j] = "new" => \A f \in Files : left[j][f] = -1
  /\ \A f \in Files : left[j][f] <= now /\ left[j][f] <= changed[f]
  /\ pc[j] \in {"read", "done"} /\ instr[j].kind = "shell" /\ instr[j].requested = {}
       => \A f \in Files : left[j][f] >= started[j] + (Grain - 1) => f \in found[j]
  /\ pc[j] = "pause" => instr[j].requested # {}

NewHolds == \A j \in Jobs : LeftIsNew(j)

\* A stamp is less than a step of its clock behind.
LEMMA StampIsClose ==
  ASSUME NEW time \in Nat
  PROVE  Stamped(time) >= time - (Grain - 1)
<1>1. Grain \in Nat \ {0}
  BY TimeAssumption
<1>2. time % Grain \in 0 .. Grain - 1
  BY <1>1
<1> QED BY <1>1, <1>2 DEF Stamped

\* What was left late enough is collected.
LEMMA LeftIsCollected ==
  ASSUME TypeOK, NEW j \in Jobs, LeftIsNew(j), instr[j].requested = {},
         NEW f \in Files, left[j][f] >= started[j] + (Grain - 1)
  PROVE  f \in Collected(j)
<1>1. /\ Grain \in Nat \ {0} /\ started[j] \in Nat
      /\ left[j][f] \in -1 .. MaxTime /\ changed[f] \in -1 .. MaxTime /\ MaxTime \in Nat
  BY TimeAssumption DEF TypeOK
<1>2. left[j][f] <= changed[f]
  BY DEF LeftIsNew
<1>3. left[j][f] >= 0 /\ changed[f] \in Nat
  BY <1>1, <1>2
<1>4. Stamped(changed[f]) >= changed[f] - (Grain - 1)
  BY <1>3, StampIsClose
<1>5. changed[f] % Grain \in Int
  BY <1>1, <1>3
<1>6. Stamped(changed[f]) \in Int
  BY <1>3, <1>5 DEF Stamped
<1>7. IsNew(j, f)
  BY <1>1, <1>2, <1>3, <1>4, <1>6 DEF IsNew
<1> QED BY <1>3, <1>7 DEF Collected

\* A file is written at the time of the moment only.
LEMMA FilesStay ==
  ASSUME TypeOK, NEW j \in Jobs, JobStep(j), NEW f \in Files, NEW time \in Int,
         time <= now, time <= changed[f]
  PROVE  time <= changed'[f]
<1> USE DEF jobVars
<1>1. CASE \E g \in Files : WriteResult(j, g)
  <2>1. changed'[f] \in {now, changed[f]}
    BY <1>1 DEF WriteResult, TypeOK
  <2> QED BY <2>1
<1>2. CASE ~\E g \in Files : WriteResult(j, g)
  <2>1. changed' = changed
    BY <1>2
    DEF JobStep, Begin, StartCommand, ReachLast, PrintFirst, PrintLast, PrintLate,
        ExitCommand, Collect, EndPause, EndSleep, Finish
  <2> QED BY <2>1
<1> QED BY <1>1, <1>2

LEMMA NewStep ==
  ASSUME TypeOK, TypeOK', Flow, NEW j \in Jobs, JobStep(j), LeftIsNew(j)
  PROVE  LeftIsNew(j)'
<1> USE DEF jobVars
<1>0. /\ instr' = instr /\ now' = now /\ KindFits(j)
      /\ now \in Nat /\ started[j] \in Nat /\ left[j] \in [Files -> -1 .. MaxTime]
  <2>1. instr' = instr /\ now' = now
    BY DEF JobStep, Begin, StartCommand, ReachLast, PrintFirst, PrintLast, PrintLate,
           ExitCommand, Collect, EndPause, EndSleep, Finish, WriteResult
  <2> QED BY <2>1 DEF Flow, TypeOK
<1>1. CASE Begin(j)
  <2>1. /\ left' = left /\ changed' = changed /\ pc[j] = "new" /\ started'[j] = now
        /\ pc'[j] # "new" /\ pc'[j] \in {"sleep", "collect", "shell", "done"}
        /\ instr[j].kind = "shell" => pc'[j] = "shell"
    BY <1>1 DEF Begin, AwaitFiles, Refuse, Move, TypeOK
  <2> QED BY <1>0, <2>1 DEF LeftIsNew
<1>2. CASE \E f \in Files : WriteResult(j, f)
  <2>1. PICK f \in Files : WriteResult(j, f)
    BY <1>2
  <2>2. /\ UNCHANGED <<pc, started, found>> /\ pc[j] # "new"
        /\ changed' = [changed EXCEPT ![f] = now]
        /\ left' = IF Runs(j) THEN [left EXCEPT ![j][f] = now] ELSE left
    BY <1>0, <2>1 DEF WriteResult, Runs, Lingers, TypeOK, KindFits
  <2>3. ASSUME NEW g \in Files PROVE left'[j][g] <= now /\ left'[j][g] <= changed'[g]
    <3>1. left'[j][g] = left[j][g] \/ (g = f /\ left'[j][g] = now)
      BY <2>2 DEF TypeOK
    <3>2. left[j][g] <= now /\ left[j][g] <= changed[g]
      BY DEF LeftIsNew
    <3>3. changed'[g] = IF g = f THEN now ELSE changed[g]
      BY <2>2 DEF TypeOK
    <3> QED BY <1>0, <3>1, <3>2, <3>3
  <2>4. pc[j] \in {"read", "done"} => left' = left
    BY <2>2 DEF Runs
  <2> QED BY <1>0, <2>2, <2>3, <2>4 DEF LeftIsNew
<1>3. CASE /\ ~Begin(j) /\ ~\E f \in Files : WriteResult(j, f)
  <2>1. UNCHANGED <<left, changed, started>>
    BY <1>3
    DEF JobStep, StartCommand, ReachLast, PrintFirst, PrintLast, PrintLate, ExitCommand,
        Collect, EndPause, EndSleep, Finish
  <2>2. CASE Collect(j)
    <3>1. /\ found'[j] = Collected(j) /\ pc[j] = "collect" /\ pc'[j] \in {"read", "pause"}
          /\ pc'[j] = "pause" => instr[j].requested # {}
      BY <2>2 DEF Collect, Move, TypeOK
    <3>2. instr[j].requested = {} =>
            \A f \in Files : left[j][f] >= started[j] + (Grain - 1) => f \in Collected(j)
      BY LeftIsCollected
    <3> QED BY <1>0, <2>1, <3>1, <3>2 DEF LeftIsNew
  <2>3. CASE EndPause(j)
    <3>1. found' = found /\ pc[j] = "pause" /\ pc'[j] \in {"collect", "read"}
      BY <2>3 DEF EndPause, Move, TypeOK
    <3> QED BY <1>0, <2>1, <3>1 DEF LeftIsNew
  <2>4. CASE EndSleep(j)
    <3>1. pc[j] = "sleep" /\ pc'[j] = "collect"
      BY <2>4 DEF EndSleep, Move, TypeOK
    <3> QED BY <1>0, <2>1, <3>1 DEF LeftIsNew
  <2>5. CASE Finish(j)
    <3>1. found' = found /\ pc[j] = "read" /\ pc'[j] = "done"
      BY <2>5 DEF Finish, Move, TypeOK
    <3> QED BY <1>0, <2>1, <3>1 DEF LeftIsNew
  <2>6. CASE StartCommand(j) \/ ReachLast(j) \/ ExitCommand(j)
    <3>1. pc[j] \in {"shell", "first", "last"} /\ pc'[j] \in {"first", "last", "sleep", "collect"}
      BY <2>6
      DEF StartCommand, ReachLast, OpenLogs, Reach, ExitCommand, Runs, AwaitFiles, Move, TypeOK
    <3> QED BY <1>0, <2>1, <3>1 DEF LeftIsNew
  <2>7. CASE PrintFirst(j) \/ PrintLast(j) \/ PrintLate(j)
    <3>1. pc' = pc /\ found' = found
      BY <2>7 DEF PrintFirst, PrintLast, PrintLate
    <3> QED BY <1>0, <2>1, <3>1 DEF LeftIsNew
  <2> QED BY <1>3, <2>2, <2>3, <2>4, <2>5, <2>6, <2>7 DEF JobStep
<1> QED BY <1>1, <1>2, <1>3

LEMMA NewNext ==
  ASSUME TypeOK, TypeOK', Flow, NewHolds, [Next]_vars
  PROVE  NewHolds'
<1>1. ASSUME NEW j \in Jobs, JobStep(j), NEW k \in Jobs PROVE LeftIsNew(k)'
  <2>1. CASE k = j
    BY <1>1, <2>1, NewStep DEF NewHolds
  <2>2. CASE k # j
    <3>1. /\ pc'[k] = pc[k] /\ found'[k] = found[k] /\ left'[k] = left[k]
          /\ started'[k] = started[k] /\ instr' = instr /\ now' = now
      BY <1>1, <2>2, OtherFilesStay
    <3>2. LeftIsNew(k) /\ left[k] \in [Files -> -1 .. MaxTime]
      BY DEF NewHolds, TypeOK
    <3>3. ASSUME NEW f \in Files PROVE left'[k][f] <= now' /\ left'[k][f] <= changed'[f]
      <4>1. left[k][f] \in Int /\ left[k][f] <= now /\ left[k][f] <= changed[f]
        BY <3>2 DEF LeftIsNew
      <4> QED BY <1>1, <3>1, <4>1, FilesStay
    <3> QED BY <3>1, <3>2, <3>3 DEF LeftIsNew
  <2> QED BY <2>1, <2>2
<1>2. ASSUME Tick \/ UNCHANGED vars, NEW k \in Jobs PROVE LeftIsNew(k)'
  <2>1. UNCHANGED <<instr, pc, started, found, changed, left>> /\ now' >= now
    BY <1>2 DEF Tick, vars, jobVars, TypeOK
  <2>2. now \in Nat /\ now' \in Nat /\ started[k] \in Nat
          /\ left[k] \in [Files -> -1 .. MaxTime]
    BY DEF TypeOK
  <2> QED BY <2>1, <2>2 DEF NewHolds, LeftIsNew
<1> QED BY <1>1, <1>2 DEF Next, NewHolds

\* technical_spec.md: without a list the agent collects the new files of the
\* result directory.  However coarse the clock of the file system, all that a
\* command wrote a step of it (less one unit) after the start of its job, or
\* later, is collected, whatever other jobs write over it
\* (collect_generated_files).
THEOREM NewFilesAreFound == Spec => []NewFilesAreCollected
<1>1. Init => NewHolds
  <2>1. ASSUME Init, NEW f \in Files PROVE -1 <= now /\ -1 <= changed[f]
    BY <2>1 DEF Init
  <2> QED BY <2>1 DEF Init, NewHolds, LeftIsNew
<1>2. TypeOK /\ TypeOK' /\ Flow /\ NewHolds /\ [Next]_vars => NewHolds'
  BY NewNext
<1>3. NewHolds => NewFilesAreCollected
  BY DEF NewHolds, LeftIsNew, NewFilesAreCollected, Executed
<1> QED BY <1>1, <1>2, <1>3, ExecutorTypes, FlowInvariant, PTL DEF Spec
=============================================================================
