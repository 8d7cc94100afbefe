---------------------------- MODULE TaskExecutor ----------------------------
(***************************************************************************)
(* execute_task (task_executor.cpp): several workers run commands at once  *)
(* and share two directories.  In task_directory each command writes its   *)
(* output to a log named after its session; in result_directory it leaves  *)
(* files, which the agent waits for and collects.                          *)
(*                                                                         *)
(* A run of a session is a job.  Time is counted in pauses of the waiting  *)
(* loop (200 ms).  Text is abstracted to the job and the part of its       *)
(* command that printed it, a file to the time of its last change.         *)
(***************************************************************************)
EXTENDS Naturals, Integers, FiniteSets

CONSTANTS
  Jobs,           \* runs of sessions
  Sessions,       \* session ids
  LogName,        \* safe_session_name: the log of each session, which
                  \* several sessions can share
  Files,          \* names that is_safe_result_file accepts when they exist
  UnsafeNames,    \* names it or is_safe_relative_path rejects
  Instructions,   \* the instructions a job may have
  ExitCodes,      \* what normalize_exit_code gives for std::system (ResultCodes)
  Grain,          \* the file system's clock advances in steps of this size
  MaxTime         \* bound: pauses that are counted

ASSUME TimeAssumption == MaxTime \in Nat \ {0} /\ Grain \in Nat \ {0}
ASSUME NamesAssumption == Files \cap UnsafeNames = {}

(***************************************************************************)
(* kind:       "files" is a FILE task without a command; "empty" another   *)
(*             task without one; "outside" has a working directory that is *)
(*             rejected; "shell" a command that is run                     *)
(* requested:  result_files after append_unique                            *)
(* wait:       result_wait_timeout_sec, in pauses                          *)
(* writes:     the files the command can write                             *)
(* list:       the command is a list: the redirections, added to the end   *)
(*             of its text, belong to the last command of the list only    *)
(* lingers:    a process of the command outlives it, with the files and    *)
(*             the logs it has open                                        *)
(***************************************************************************)
Instruction ==
  [session    : Sessions,
   kind       : {"files", "empty", "outside", "shell"},
   requested  : SUBSET (Files \cup UnsafeNames),
   wait       : 0 .. MaxTime,
   writes     : SUBSET Files,
   list       : BOOLEAN,
   lingers    : BOOLEAN]

ASSUME InstructionsAssumption == Instructions \subseteq Instruction

VARIABLES
  now,        \* the time
  instr,      \* the instruction of each job
  pc,         \* where each job is
  started,    \* started_at
  until,      \* the end of the waiting loop or of a sleep before it
  wake,       \* the end of a pause in the waiting loop
  found,      \* files: what the last collection found
  code,       \* result_code
  message,    \* what is in the message
  log,        \* what is in each log: parts of the output of jobs
  changed,    \* the time of the last change of each file, -1 for no file
  reached,    \* history: how far the shell got with each job's command
  left,       \* history: when the command of a job last wrote each file
              \* before it ended, -1 for never
  printed,    \* history: the parts of its command that printed something
  rivals      \* history: jobs of the same log at work while it was

jobVars == <<pc, started, until, wake, found, code, message>>
vars == <<now, instr, jobVars, log, changed, reached, left, printed, rivals>>

Logs == {LogName[s] : s \in Sessions}
LogOf(j) == LogName[instr[j].session]

\* "last": what the redirections cover, "first": what comes before it, "late":
\* what a process prints that the command left behind.
Part == {"first", "last", "late"}

TypeOK ==
  /\ now \in 0 .. MaxTime
  /\ instr \in [Jobs -> Instructions]
  /\ pc \in [Jobs -> {"new", "shell", "first", "last", "collect", "sleep",
                      "pause", "read", "done"}]
  /\ started \in [Jobs -> 0 .. MaxTime]
  /\ until \in [Jobs -> 0 .. 2 * MaxTime]
  /\ wake \in [Jobs -> 0 .. MaxTime + 1]
  /\ found \in [Jobs -> SUBSET Files]
  /\ code \in [Jobs -> ExitCodes \cup {-5, -4, -2, 0}]
  /\ message \in [Jobs -> SUBSET (Jobs \X Part)]
  /\ log \in [Logs -> SUBSET (Jobs \X Part)]
  /\ changed \in [Files -> -1 .. MaxTime]
  /\ reached \in [Jobs -> {"nothing", "first", "last"}]
  /\ left \in [Jobs -> [Files -> -1 .. MaxTime]]
  /\ printed \in [Jobs -> SUBSET Part]
  /\ rivals \in [Jobs -> SUBSET Jobs]

\* Files of earlier runs may lie in result_directory.
Init ==
  /\ now = 1
  /\ instr \in [Jobs -> Instructions]
  /\ pc = [j \in Jobs |-> "new"]
  /\ started = [j \in Jobs |-> 0]
  /\ until = [j \in Jobs |-> 0]
  /\ wake = [j \in Jobs |-> 0]
  /\ found = [j \in Jobs |-> {}]
  /\ code = [j \in Jobs |-> 0]
  /\ message = [j \in Jobs |-> {}]
  /\ log = [l \in Logs |-> {}]
  /\ changed \in [Files -> {-1, 0}]
  /\ reached = [j \in Jobs |-> "nothing"]
  /\ left = [j \in Jobs |-> [f \in Files |-> -1]]
  /\ printed = [j \in Jobs |-> {}]
  /\ rivals = [j \in Jobs |-> {}]

Move(j, to) == pc' = [pc EXCEPT ![j] = to]

-----------------------------------------------------------------------------
(* The command *)

\* wait_for_generated_files is entered: with a list it loops until the
\* deadline, without one it sleeps for the whole time first.
AwaitFiles(j) ==
  /\ until' = [until EXCEPT ![j] = now + instr[j].wait]
  /\ Move(j, IF instr[j].wait > 0 /\ instr[j].requested = {} THEN "sleep" ELSE "collect")

\* An instruction that is not run: its error code is its result.
Refuse(j, error) ==
  /\ code' = [code EXCEPT ![j] = error]
  /\ Move(j, "done")
  /\ UNCHANGED until

IsWorking(k) == pc[k] \notin {"new", "done"}

AreRivals(j, k) == j # k /\ LogOf(j) = LogOf(k)

\* History: j goes to work beside those that are at it.
Meet(j) ==
  rivals' = [k \in Jobs |->
    IF k = j THEN rivals[j] \cup {i \in Jobs : IsWorking(i) /\ AreRivals(j, i)}
    ELSE IF IsWorking(k) /\ AreRivals(j, k) THEN rivals[k] \cup {j}
    ELSE rivals[k]]

\* A session has one worker at a time (Agent: NoConcurrentSession).
Begin(j) ==
  /\ pc[j] = "new"
  /\ \A k \in Jobs : instr[k].session = instr[j].session => pc[k] \in {"new", "done"}
  /\ started' = [started EXCEPT ![j] = now]
  /\ \/ instr[j].kind = "files" /\ AwaitFiles(j) /\ UNCHANGED code
     \/ instr[j].kind = "empty" /\ Refuse(j, -2)
     \/ instr[j].kind = "outside" /\ Refuse(j, -5)
     \/ instr[j].kind = "shell" /\ Move(j, "shell") /\ UNCHANGED <<until, code>>
  /\ Meet(j)
  /\ UNCHANGED <<now, instr, wake, found, message, log, changed, reached, left,
                 printed>>

\* Mutant: the redirections append.
Reopened(l) == log[l]

Truncated(l) == {}

Reach(j, part) ==
  /\ Move(j, part)
  /\ reached' = [reached EXCEPT ![j] = part]

\* The shell opens the logs for the last command.
OpenLogs(j) ==
  /\ log' = [log EXCEPT ![LogOf(j)] = Truncated(LogOf(j))]
  /\ Reach(j, "last")

\* std::system: the shell gets to the command; a list starts with what is
\* not redirected.
StartCommand(j) ==
  /\ pc[j] = "shell"
  /\ IF instr[j].list THEN Reach(j, "first") /\ UNCHANGED log ELSE OpenLogs(j)
  /\ UNCHANGED <<now, instr, started, until, wake, found, code, message,
                 changed, left, printed, rivals>>

\* The list gets to its last command.
ReachLast(j) ==
  /\ pc[j] = "first"
  /\ OpenLogs(j)
  /\ UNCHANGED <<now, instr, started, until, wake, found, code, message,
                 changed, left, printed, rivals>>

\* What is not redirected goes to the agent's own output.
PrintFirst(j) ==
  /\ pc[j] = "first"
  /\ printed' = [printed EXCEPT ![j] = @ \cup {"first"}]
  /\ UNCHANGED <<now, instr, jobVars, log, changed, reached, left, rivals>>

PrintLast(j) ==
  /\ pc[j] = "last"
  /\ printed' = [printed EXCEPT ![j] = @ \cup {"last"}]
  /\ log' = [log EXCEPT ![LogOf(j)] = @ \cup {<<j, "last">>}]
  /\ UNCHANGED <<now, instr, jobVars, changed, reached, left, rivals>>

Runs(j) == pc[j] \in {"first", "last"}

\* std::system waits for the shell, not for what the command left behind.
Lingers(j) == instr[j].lingers /\ reached[j] # "nothing"

WriteResult(j, f) ==
  /\ Runs(j) \/ Lingers(j)
  /\ f \in instr[j].writes
  /\ changed' = [changed EXCEPT ![f] = now]
  /\ left' = IF Runs(j) THEN [left EXCEPT ![j][f] = now] ELSE left
  /\ UNCHANGED <<now, instr, jobVars, log, reached, printed, rivals>>

\* Such a process has the log of its session open, whoever opened it since.
PrintLate(j) ==
  /\ Lingers(j) /\ ~Runs(j) /\ reached[j] = "last"
  /\ log' = [log EXCEPT ![LogOf(j)] = @ \cup {<<j, "late">>}]
  /\ UNCHANGED <<now, instr, jobVars, changed, reached, left, printed, rivals>>

\* std::system returns.  The last command has ended; or the shell ended before
\* it got there ("a && b", "exit 1", a comment that takes in the redirections)
\* or before it ran anything: a failed cd, a syntax error, a log that cannot be
\* opened.  -1 stands for no shell and for a status that was lost.
ExitCommand(j) ==
  /\ pc[j] = "shell" \/ Runs(j)
  /\ \E status \in ExitCodes : code' = [code EXCEPT ![j] = status]
  /\ AwaitFiles(j)
  /\ UNCHANGED <<now, instr, started, wake, found, message, log, changed, reached,
                 left, printed, rivals>>

-----------------------------------------------------------------------------
(* The files *)

\* The time stamp of a file: the clock of the file system is the coarser one.
Stamped(time) == time - (time % Grain)

\* Mutant: strictly after the start.
IsLater(j, f) == Stamped(changed[f]) > started[j]

IsNew(j, f) == Stamped(changed[f]) >= started[j]

\* Mutant: whatever is named is sent.
CollectedUnchecked(j) ==
  IF instr[j].requested # {}
  THEN {f \in instr[j].requested : f \in Files => changed[f] # -1}
  ELSE {f \in Files : changed[f] # -1 /\ IsNew(j, f)}

\* collect_generated_files: what was asked for, or all that is new.
Collected(j) ==
  IF instr[j].requested # {}
  THEN {f \in instr[j].requested \cap Files : changed[f] # -1}
  ELSE {f \in Files : changed[f] # -1 /\ IsNew(j, f)}

\* Mutant: the first file ends the waiting.
IsAnyFound(j, files) == files # {}

IsAllFound(j, files) == Cardinality(files) >= Cardinality(instr[j].requested)

\* A round of the loop, or the single collection without one.
Collect(j) ==
  /\ pc[j] = "collect"
  /\ found' = [found EXCEPT ![j] = Collected(j)]
  /\ IF \/ instr[j].wait = 0 \/ instr[j].requested = {}
        \/ IsAllFound(j, Collected(j))
     THEN Move(j, "read") /\ UNCHANGED wake
     ELSE Move(j, "pause") /\ wake' = [wake EXCEPT ![j] = now + 1]
  /\ UNCHANGED <<now, instr, started, until, code, message, log, changed,
                 reached, left, printed, rivals>>

\* The deadline is looked at after the pause, the files are not.
EndPause(j) ==
  /\ pc[j] = "pause"
  /\ now >= wake[j]
  /\ Move(j, IF now < until[j] THEN "collect" ELSE "read")
  /\ UNCHANGED <<now, instr, started, until, wake, found, code, message, log,
                 changed, reached, left, printed, rivals>>

EndSleep(j) ==
  /\ pc[j] = "sleep"
  /\ now >= until[j]
  /\ Move(j, "collect")
  /\ UNCHANGED <<now, instr, started, until, wake, found, code, message, log,
                 changed, reached, left, printed, rivals>>

FilesCode(j) == IF found[j] = {} /\ instr[j].requested # {} THEN -4 ELSE 0

\* The result: of a FILE task its files, of a command what is in its logs.
Finish(j) ==
  /\ pc[j] = "read"
  /\ \/ /\ instr[j].kind = "files"
        /\ code' = [code EXCEPT ![j] = FilesCode(j)]
        /\ UNCHANGED message
     \/ /\ instr[j].kind = "shell"
        /\ message' = [message EXCEPT ![j] = log[LogOf(j)]]
        /\ UNCHANGED code
  /\ Move(j, "done")
  /\ UNCHANGED <<now, instr, started, until, wake, found, log, changed,
                 reached, left, printed, rivals>>

-----------------------------------------------------------------------------
Tick ==
  /\ now < MaxTime
  /\ now' = now + 1
  /\ UNCHANGED <<instr, jobVars, log, changed, reached, left, printed, rivals>>

JobStep(j) ==
  \/ Begin(j) \/ StartCommand(j) \/ ReachLast(j) \/ ExitCommand(j)
  \/ PrintFirst(j) \/ PrintLast(j) \/ PrintLate(j)
  \/ Collect(j) \/ EndPause(j) \/ EndSleep(j) \/ Finish(j)
  \/ \E f \in Files : WriteResult(j, f)

Next == Tick \/ \E j \in Jobs : JobStep(j)

Spec == Init /\ [][Next]_vars

-----------------------------------------------------------------------------
(* Properties *)

\* The text that was printed while the command of its job ran.
Early(text) == {entry \in text : entry[2] # "late"}

Executed(j) == pc[j] = "done" /\ instr[j].kind = "shell"

\* Late text is from a process that was left behind.
IsLeftBehind(entry) ==
  /\ instr[entry[1]].lingers
  /\ pc[entry[1]] \in {"collect", "pause", "sleep", "read", "done"}

\* technical_spec.md: TASK returns the text of stdout and stderr as message.
\* Jobs share the directory of the logs and their names.  What holds: a message
\* has text of jobs of its own log only; once the shell got to the redirections,
\* it has none of a job that had ended before, except for what that one left
\* behind and which still prints; and if no job of the same log worked at the
\* same time, it is all that was redirected.
MessageIsOwnOutput ==
  \A j \in Jobs : Executed(j) =>
    /\ \A entry \in message[j] : LogOf(entry[1]) = LogOf(j)
    /\ \A entry \in message[j] \ Early(message[j]) : IsLeftBehind(entry)
    /\ reached[j] = "last" =>
         /\ \A entry \in Early(message[j]) : entry[1] \in {j} \cup rivals[j]
         /\ rivals[j] = {} => Early(message[j]) = {j} \X (printed[j] \ {"first"})

\* technical_spec.md, to the letter: whatever the command and beside whatever it
\* runs, the message is all it printed and nothing else.
EveryOutputIsReturned ==
  \A j \in Jobs : Executed(j) => message[j] = {j} \X printed[j]

\* technical_spec.md: without a list the agent collects the new files that
\* appeared in the result directory after the start of the task.  What holds: a
\* file the command wrote is collected, whoever writes it again, if it was
\* written when the clock of the file system could already show that it was
\* later than the start; what is written sooner can be missed.
NewFilesAreCollected ==
  \A j \in Jobs :
    Executed(j) /\ instr[j].requested = {} =>
      \A f \in Files : left[j][f] >= started[j] + (Grain - 1) => f \in found[j]

\* A job with a list gives up before its deadline only when it has all the
\* files of the list that can be sent, and none that was not asked for.
WaitsForEveryFile ==
  \A j \in Jobs :
    /\ pc[j] \in {"read", "done"} /\ instr[j].kind \in {"files", "shell"}
    /\ instr[j].requested # {}
    => /\ found[j] \subseteq instr[j].requested
       /\ now < until[j] => found[j] = instr[j].requested
=============================================================================
