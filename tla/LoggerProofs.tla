---------------------------- MODULE LoggerProofs ----------------------------
(***************************************************************************)
(* Proofs of the properties of Logger for any number of threads and lines. *)
(***************************************************************************)
EXTENDS Logger, SequenceTheorems, TLAPS

\* The thread inside write() is the holder of the mutex; what it has written
\* so far is the difference between the sinks.
Exclusive == \A t \in Threads : pc[t] # "out" <=> mutex = t

OneLineBehind ==
  /\ (\A t \in Threads : pc[t] # "filed") => file = console
  /\ \A t \in Threads : pc[t] = "filed" => file = Append(console, line[t])

\* The line that comes next is as late as every line in the file.
NotBefore ==
  /\ \A i \in 1 .. Len(file) : file[i].at <= clock
  /\ \A t \in Threads : pc[t] = "stamped" =>
       /\ line[t].at <= clock
       /\ \A i \in 1 .. Len(file) : file[i].at <= line[t].at

Inv == TypeOK /\ Exclusive /\ OneLineBehind /\ NotBefore /\ TimestampsAscend

\* Timestamps are numbers.
LEMMA LineTime ==
  ASSUME NEW entry \in Line
  PROVE  entry.at \in Nat
BY BoundAssumption DEF Line

\* So are those of the file and of the threads.
LEMMA Times ==
  ASSUME TypeOK
  PROVE  /\ clock \in Nat
         /\ \A i \in 1 .. Len(file) : file[i].at \in Nat
         /\ \A t \in Threads : line[t].at \in Nat
<1>1. clock \in Nat
  BY BoundAssumption DEF TypeOK
<1>2. \A i \in 1 .. Len(file) : file[i] \in Line
  BY DEF TypeOK
<1>3. \A t \in Threads : line[t] \in Line
  BY DEF TypeOK
<1> QED BY <1>1, <1>2, <1>3, LineTime

\* The empty log satisfies the invariant.
LEMMA InvInit == Init => Inv
BY ThreadsAssumption, BoundAssumption
   DEF Init, Inv, TypeOK, Line, NoLine, Exclusive, OneLineBehind, NotBefore,
       TimestampsAscend

\* Taking the lock puts one thread inside write().
LEMMA InvLock ==
  ASSUME Inv, NEW t \in Threads, Lock(t)
  PROVE  Inv'
BY ThreadsAssumption
   DEF Lock, Inv, TypeOK, Exclusive, OneLineBehind, NotBefore, TimestampsAscend

\* The timestamp is taken when nobody else can write.
LEMMA InvStamp ==
  ASSUME Inv, NEW t \in Threads, Stamp(t)
  PROVE  Inv'
BY ThreadsAssumption
   DEF Stamp, Inv, TypeOK, Line, Exclusive, OneLineBehind, NotBefore, TimestampsAscend

\* The file gets the line that its one writer has built.
LEMMA InvWriteFile ==
  ASSUME Inv, NEW t \in Threads, WriteFile(t)
  PROVE  Inv'
<1> USE DEF Inv, TypeOK
<1>1. /\ file \in Seq(Line) /\ line[t] \in Line
      /\ file' = Append(file, line[t])
      /\ file' \in Seq(Line)
  BY DEF WriteFile
<1>2. /\ Len(file') = Len(file) + 1 /\ Len(file) \in Nat
      /\ file'[Len(file) + 1] = line[t]
      /\ \A i \in 1 .. Len(file) : file'[i] = file[i]
  BY <1>1, AppendProperties
<1>3. TypeOK' /\ Exclusive'
  BY <1>1 DEF WriteFile, Exclusive
<1>4. OneLineBehind'
  BY DEF WriteFile, Exclusive, OneLineBehind
<1>5. \A s \in Threads : pc'[s] # "stamped"
  BY DEF WriteFile, Exclusive
<1>6. /\ clock \in Nat /\ clock' = clock
      /\ line[t].at \in Nat /\ line[t].at <= clock
      /\ \A i \in 1 .. Len(file) : file[i].at \in Nat
  BY Times DEF WriteFile, NotBefore
<1>7. NotBefore'
  BY <1>2, <1>5, <1>6 DEF NotBefore
<1>8. TimestampsAscend'
  <2> SUFFICES ASSUME NEW i \in 1 .. Len(file'), NEW j \in 1 .. Len(file'), i <= j
               PROVE  file'[i].at <= file'[j].at
    BY DEF TimestampsAscend
  <2>1. CASE j \in 1 .. Len(file)
    BY <1>2, <2>1 DEF TimestampsAscend
  <2>2. CASE j = Len(file) + 1 /\ i \in 1 .. Len(file)
    BY <1>2, <2>2 DEF NotBefore, WriteFile
  <2>3. CASE j = Len(file) + 1 /\ i = j
    BY <1>2, <1>6, <2>3
  <2> QED BY <1>2, <2>1, <2>2, <2>3
<1> QED BY <1>3, <1>4, <1>7, <1>8

\* The console gets the same line and the lock is given back.
LEMMA InvWriteConsole ==
  ASSUME Inv, NEW t \in Threads, WriteConsole(t)
  PROVE  Inv'
<1> USE DEF Inv, TypeOK, WriteConsole
<1>1. /\ console' \in Seq(Line)
      /\ NoLine \in Line
  BY AppendProperties, BoundAssumption DEF Line, NoLine
<1>2. TypeOK' /\ Exclusive'
  BY <1>1, ThreadsAssumption DEF Exclusive
<1>3. OneLineBehind'
  BY DEF OneLineBehind, Exclusive
<1>4. NotBefore' /\ TimestampsAscend'
  BY DEF NotBefore, TimestampsAscend
<1> QED BY <1>2, <1>3, <1>4

\* The clock goes on.
LEMMA InvTick ==
  ASSUME Inv, Tick
  PROVE  Inv'
<1>1. /\ clock' = clock + 1 /\ clock' \in 0 .. MaxTime
      /\ UNCHANGED <<mutex, pc, line, file, console>>
  BY BoundAssumption DEF Inv, TypeOK, Tick
<1>2. /\ clock \in Nat
      /\ \A i \in 1 .. Len(file) : file[i].at \in Nat
      /\ \A t \in Threads : line[t].at \in Nat
  BY Times DEF Inv
<1> QED
  BY <1>1, <1>2 DEF Inv, TypeOK, Exclusive, OneLineBehind, NotBefore, TimestampsAscend

\* The invariant is inductive.
LEMMA InvNext == Inv /\ [Next]_vars => Inv'
<1>1. CASE UNCHANGED vars
  BY <1>1
     DEF vars, Inv, TypeOK, Exclusive, OneLineBehind, NotBefore, TimestampsAscend
<1> QED
  BY <1>1, InvLock, InvStamp, InvWriteFile, InvWriteConsole, InvTick DEF Next

\* The file and the console show the same lines in the same order
\* (Logger::write).
THEOREM SinksStayTogether == Spec => []SinksAgree
<1>1. Inv => SinksAgree
  BY DEF Inv, TypeOK, OneLineBehind, SinksAgree
<1> QED BY <1>1, InvInit, InvNext, PTL DEF Spec

\* The log file is ordered by time (Logger::write takes the timestamp under
\* the lock).
THEOREM LogIsOrdered == Spec => []TimestampsAscend
<1>1. Inv => TimestampsAscend
  BY DEF Inv
<1> QED BY <1>1, InvInit, InvNext, PTL DEF Spec
=============================================================================
