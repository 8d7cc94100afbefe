----------------------------- MODULE TaskOutput -----------------------------
(***************************************************************************)
(* The message of an ExecutionResult (task_executor.cpp): what is read of  *)
(* the files a command wrote its output and its errors to, joined.  A text *)
(* is a sequence of characters, "\n" one of them; the two texts the agent  *)
(* adds and the one it gives instead of an output are one character each.  *)
(***************************************************************************)
EXTENDS Integers, Sequences, SequencesExt

CONSTANTS
  MaxCaptured    \* kMaxCapturedOutputBytes

ASSUME CapturedAssumption == MaxCaptured \in Nat \ {0}

NewLine == "\n"
Truncated == "[output truncated]"
StderrHeader == "[stderr]"
Completed == "task completed"

\* input.eof() after the read: only a file shorter than the buffer gets there.
ReachesEnd(file) == Len(file) < MaxCaptured

\* Mutant: a text that was cut is taken for a whole one.
MarkNone(file) == <<>>

Mark(file) == IF ReachesEnd(file) THEN <<>> ELSE <<NewLine, Truncated, NewLine>>

ReadTextFile(file) ==
  SubSeq(file, 1, IF ReachesEnd(file) THEN Len(file) ELSE MaxCaptured) \o Mark(file)

\* The header of the errors starts a line of its own.
Separator(stdout) ==
  IF stdout # <<>> /\ Last(stdout) # NewLine THEN <<NewLine>> ELSE <<>>

JoinOutput(stdout, stderr) ==
  IF stdout = <<>> /\ stderr = <<>> THEN <<Completed>>
  ELSE stdout
         \o (IF stderr = <<>> THEN <<>>
             ELSE Separator(stdout) \o <<StderrHeader, NewLine>> \o stderr)

\* The end of execute_task, for the two files and the exit code: the text for
\* a silent command that failed is never used, the message being never empty.
Message(stdout, stderr, code) ==
  LET message == JoinOutput(ReadTextFile(stdout), ReadTextFile(stderr))
  IN  IF code # 0 /\ message = <<>> THEN <<"task failed">> ELSE message
=============================================================================
