------------------------------- MODULE Logger -------------------------------
(***************************************************************************)
(* Logger (logger.cpp): main and the workers write lines to two sinks, the *)
(* log file and standard output, under one mutex.  A line is abstracted to *)
(* the thread that wrote it and its timestamp in seconds.                  *)
(***************************************************************************)
EXTENDS Naturals, Sequences

CONSTANTS
  Threads,    \* threads that log
  MaxTime,    \* bound: seconds of the wall clock, which only goes forward
  MaxLines    \* bound: lines in the log

ASSUME ThreadsAssumption == "free" \notin Threads /\ "nobody" \notin Threads
ASSUME BoundAssumption == MaxTime \in Nat /\ MaxLines \in Nat

VARIABLES
  clock,     \* the wall clock
  mutex,     \* holder of mutex_, "free" for none
  pc,        \* where each thread is in write()
  line,      \* the line each thread has built
  file,      \* the log file
  console    \* standard output

vars == <<clock, mutex, pc, line, file, console>>

Line == [by : Threads \cup {"nobody"}, at : 0 .. MaxTime]
NoLine == [by |-> "nobody", at |-> 0]

TypeOK ==
  /\ clock \in 0 .. MaxTime
  /\ mutex \in Threads \cup {"free"}
  /\ pc \in [Threads -> {"out", "locked", "stamped", "filed"}]
  /\ line \in [Threads -> Line]
  /\ file \in Seq(Line)
  /\ console \in Seq(Line)

Init ==
  /\ clock = 0
  /\ mutex = "free"
  /\ pc = [t \in Threads |-> "out"]
  /\ line = [t \in Threads |-> NoLine]
  /\ file = <<>>
  /\ console = <<>>

\* Mutant: the timestamp is taken before the lock.
LockAfterStamp(t) ==
  /\ pc[t] = "out"
  /\ \/ /\ line[t] = NoLine
        /\ line' = [line EXCEPT ![t] = [by |-> t, at |-> clock]]
        /\ UNCHANGED <<mutex, pc>>
     \/ /\ line[t] # NoLine
        /\ mutex = "free"
        /\ mutex' = t
        /\ pc' = [pc EXCEPT ![t] = "stamped"]
        /\ UNCHANGED line
  /\ UNCHANGED <<clock, file, console>>

\* write() is entered; the bound is on the model, not in the code.
Lock(t) ==
  /\ pc[t] = "out"
  /\ Len(file) < MaxLines
  /\ mutex = "free"
  /\ mutex' = t
  /\ pc' = [pc EXCEPT ![t] = "locked"]
  /\ UNCHANGED <<clock, line, file, console>>

\* timestamp_now() and the rest of the line.
Stamp(t) ==
  /\ pc[t] = "locked"
  /\ line' = [line EXCEPT ![t] = [by |-> t, at |-> clock]]
  /\ pc' = [pc EXCEPT ![t] = "stamped"]
  /\ UNCHANGED <<clock, mutex, file, console>>

\* Mutant: the lock covers the file only.
WriteFileAndUnlock(t) ==
  /\ pc[t] = "stamped"
  /\ file' = Append(file, line[t])
  /\ pc' = [pc EXCEPT ![t] = "filed"]
  /\ mutex' = "free"
  /\ UNCHANGED <<clock, line, console>>

\* The line to the file, and flush.
WriteFile(t) ==
  /\ pc[t] = "stamped"
  /\ file' = Append(file, line[t])
  /\ pc' = [pc EXCEPT ![t] = "filed"]
  /\ UNCHANGED <<clock, mutex, line, console>>

\* The line to standard output; the lock goes with the scope.
WriteConsole(t) ==
  /\ pc[t] = "filed"
  /\ console' = Append(console, line[t])
  /\ mutex' = "free"
  /\ line' = [line EXCEPT ![t] = NoLine]
  /\ pc' = [pc EXCEPT ![t] = "out"]
  /\ UNCHANGED <<clock, file>>

\* A second passes.
Tick ==
  /\ clock < MaxTime
  /\ clock' = clock + 1
  /\ UNCHANGED <<mutex, pc, line, file, console>>

Next ==
  \/ \E t \in Threads : Lock(t) \/ Stamp(t) \/ WriteFile(t) \/ WriteConsole(t)
  \/ Tick

Spec == Init /\ [][Next]_vars

-----------------------------------------------------------------------------
\* technical_spec.md: logging is thread-safe.  Both sinks show the same lines
\* in the same order; the console is behind the file by one line at most.
SinksAgree ==
  \/ file = console
  \/ \E last \in Line : file = Append(console, last)

\* The timestamps of the file never go back, whichever threads wrote the lines
\* and however long each waited for the lock.
TimestampsAscend ==
  \A i, j \in 1 .. Len(file) : i <= j => file[i].at <= file[j].at
=============================================================================
