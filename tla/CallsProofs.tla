----------------------------- MODULE CallsProofs -----------------------------
(***************************************************************************)
(* What the pure parts of the agent return, for inputs of any size: every  *)
(* property of Calls, and the lemmas about its operators they rest on.     *)
(***************************************************************************)
EXTENDS Calls, TextProofs, DocumentProofs

-----------------------------------------------------------------------------
(* Codes. *)

\* The field is 0 exactly for a result of 0 and negative for any other
\* (send_result; docs/api.md).
THEOREM FieldSign ==
  ASSUME NEW code \in Int
  PROVE  /\ ApiResultCode(code) = 0 <=> code = 0
         /\ code # 0 => ApiResultCode(code) < 0
BY DEF ApiResultCode, Abs

\* A status is a success exactly when it is a normal exit with code 0
\* (normalize_exit_code), whatever the other bits of the status are.
THEOREM SuccessIsCleanExit ==
  ASSUME NEW status \in Int
  PROVE  NormalizeExitCode(status) = 0
           <=> WIFEXITED(status) /\ WEXITSTATUS(status) = 0
<1>1. status % 128 \in 0 .. 127
  OBVIOUS
<1>2. CASE WIFEXITED(status)
  BY <1>2 DEF NormalizeExitCode
<1>3. CASE ~WIFEXITED(status) /\ WIFSIGNALED(status)
  BY <1>1, <1>3 DEF NormalizeExitCode, WTERMSIG
<1>4. CASE ~WIFEXITED(status) /\ ~WIFSIGNALED(status)
  <2>1. status # 0
    BY <1>4 DEF WIFEXITED
  <2> QED BY <1>4, <2>1 DEF NormalizeExitCode
<1> QED BY <1>2, <1>3, <1>4

-----------------------------------------------------------------------------
(* The configuration. *)

\* A field reads as a value of its type, or as the fallback (read_string,
\* read_int, read_bool).
LEMMA ReadFieldType ==
  ASSUME NEW S, NEW field \in Maybe(S), NEW T, S \subseteq T, NEW fallback \in T
  PROVE  ReadField(field, fallback) \in T
<1>1. CASE field = {}
  BY <1>1 DEF ReadField
<1>2. CASE field # {}
  <2>1. PICK v \in S : field = {v}
    BY <1>2 DEF Maybe
  <2>2. (CHOOSE w \in field : TRUE) = v
    BY <2>1
  <2> QED BY <1>2, <2>1, <2>2 DEF ReadField
<1> QED BY <1>1, <1>2

\* An integer field reads as an integer.
LEMMA ReadNumberType ==
  ASSUME NEW field \in Maybe(Numbers), NEW fallback \in Int
  PROVE  ReadField(field, fallback) \in Int
BY ReadFieldType, NumbersAssumption

LEMMA AtLeastBounds ==
  ASSUME NEW number \in Int, NEW least \in Int
  PROVE  /\ AtLeast(number, least) \in Int
         /\ AtLeast(number, least) >= least
BY DEF AtLeast

\* Whatever the file holds, the polling interval is at least a second, the
\* back-off limit at least the interval and the limit of tasks at least one:
\* IntervalAssumption and LimitAssumption of Agent.tla (load_config).
THEOREM ConfigFits ==
  ASSUME NEW obj \in File, NEW env \in Environment
  PROVE  FitsAgent(LoadConfig(obj, env))
<1> DEFINE config == LoadConfig(obj, env)
<1>0. /\ obj.poll_interval_sec \in Maybe(Numbers) /\ obj.interval \in Maybe(Numbers)
      /\ obj.backoff_max_sec \in Maybe(Numbers)
      /\ obj.max_parallel_tasks \in Maybe(Numbers)
      /\ obj.request_timeout_sec \in Maybe(Numbers)
  BY DEF File
<1>1. PollInterval(obj) \in Int /\ PollInterval(obj) >= 1
  <2>1. ReadField(obj.poll_interval_sec, 5) \in Int
    BY <1>0, ReadNumberType
  <2>2. ReadField(obj.interval, ReadField(obj.poll_interval_sec, 5)) \in Int
    BY <1>0, <2>1, ReadNumberType
  <2> DEFINE given == ReadField(obj.interval, ReadField(obj.poll_interval_sec, 5))
  <2>3. given \in Int
    BY <2>2
  <2> HIDE DEF given
  <2>4. AtLeast(given, 1) \in Int /\ AtLeast(given, 1) >= 1
    BY <2>3, AtLeastBounds
  <2>5. PollInterval(obj) = AtLeast(given, 1)
    BY DEF PollInterval, given
  <2> QED BY <2>4, <2>5
<1>2. BackoffMax(obj) \in Int /\ BackoffMax(obj) >= PollInterval(obj)
  <2>1. ReadField(obj.backoff_max_sec, 60) \in Int
    BY <1>0, ReadNumberType
  <2> QED BY <2>1, <1>1, AtLeastBounds DEF BackoffMax
<1>3. config.max_parallel_tasks \in Int /\ config.max_parallel_tasks >= 1
  <2> DEFINE given == ReadField(obj.max_parallel_tasks, 4)
  <2>1. given \in Int
    BY <1>0, ReadNumberType
  <2>2. config.max_parallel_tasks = AtLeast(given, 1)
    BY DEF LoadConfig
  <2> HIDE DEF given, config
  <2>3. AtLeast(given, 1) \in Int /\ AtLeast(given, 1) >= 1
    BY <2>1, AtLeastBounds
  <2> QED BY <2>2, <2>3
<1>4. config.request_timeout_sec \in Int /\ config.request_timeout_sec >= 1
  <2> DEFINE given == ReadField(obj.request_timeout_sec, 15)
  <2>1. given \in Int
    BY <1>0, ReadNumberType
  <2>2. config.request_timeout_sec = AtLeast(given, 1)
    BY DEF LoadConfig
  <2> HIDE DEF given, config
  <2>3. AtLeast(given, 1) \in Int /\ AtLeast(given, 1) >= 1
    BY <2>1, AtLeastBounds
  <2> QED BY <2>2, <2>3
<1>5. config.poll_interval_sec = PollInterval(obj) /\ config.backoff_max_sec = BackoffMax(obj)
  BY DEF LoadConfig
<1> QED BY <1>1, <1>2, <1>3, <1>4, <1>5 DEF FitsAgent

-----------------------------------------------------------------------------
(* Paths. *)

\* The locations that weakly_canonical returns.
Resolvable == {at \in Location : IsResolved(at)}

LEMMA EnterType ==
  ASSUME NEW at \in Resolvable, NEW part \in STRING
  PROVE  Enter(at, part) \in Resolvable
<1>0. /\ at \in Location /\ Len(at) \in Nat /\ DOMAIN at = 1 .. Len(at)
      /\ \A i \in DOMAIN at : at[i] \notin {".", ".."} /\ SubSeq(at, 1, i) \notin DOMAIN Links
  BY DEF Resolvable, IsResolved, Location
<1>1. CASE part = "."
  BY <1>1 DEF Enter
<1>2. CASE part = ".."
  <2>1. CASE at = <<>>
    BY <1>2, <2>1 DEF Enter
  <2>2. CASE at # <<>>
    <3> DEFINE front == Front(at)
    <3>1. Enter(at, part) = front
      BY <1>2, <2>2 DEF Enter
    <3>2. /\ front \in Location /\ Len(front) = Len(at) - 1
          /\ \A i \in 1 .. Len(front) : front[i] = at[i] /\ i \in DOMAIN at
      BY <1>0, <2>2 DEF Front, Location
    <3>3. ASSUME NEW i \in DOMAIN front PROVE SubSeq(front, 1, i) = SubSeq(at, 1, i)
      BY <1>0, <3>2, <3>3 DEF Location
    <3> HIDE DEF front
    <3>4. DOMAIN front = 1 .. Len(front)
      BY <3>2 DEF Location
    <3> QED BY <1>0, <3>1, <3>2, <3>3, <3>4 DEF Resolvable, IsResolved
  <2> QED BY <2>1, <2>2
<1>3. CASE part \notin {".", ".."}
  <2> DEFINE next == Append(at, part)
  <2>1. Enter(at, part) = IF next \in DOMAIN Links THEN Links[next] ELSE next
    BY <1>3 DEF Enter
  <2>2. CASE next \in DOMAIN Links
    BY <2>1, <2>2, LinksAssumption DEF Resolvable, IsResolved
  <2>3. CASE next \notin DOMAIN Links
    <3>1. /\ next \in Location /\ Len(next) = Len(at) + 1 /\ next[Len(at) + 1] = part
          /\ \A i \in 1 .. Len(at) : next[i] = at[i]
      BY <1>0 DEF Location
    <3>2. ASSUME NEW i \in 1 .. Len(at) PROVE SubSeq(next, 1, i) = SubSeq(at, 1, i)
      BY <1>0, <3>1, <3>2 DEF Location
    <3>3. SubSeq(next, 1, Len(at) + 1) = next
      BY <1>0, <3>1 DEF Location
    <3>4. DOMAIN next = 1 .. Len(at) + 1
      BY <3>1 DEF Location
    <3> HIDE DEF next
    <3>5. ASSUME NEW i \in DOMAIN next
          PROVE  next[i] \notin {".", ".."} /\ SubSeq(next, 1, i) \notin DOMAIN Links
      <4>1. CASE i \in 1 .. Len(at)
        BY <1>0, <3>1, <3>2, <4>1
      <4>2. CASE i = Len(at) + 1
        BY <1>3, <2>3, <3>1, <3>3, <4>2
      <4> QED BY <1>0, <3>4, <4>1, <4>2
    <3> QED BY <2>1, <2>3, <3>1, <3>5 DEF Resolvable, IsResolved
  <2> QED BY <2>2, <2>3
<1> QED BY <1>1, <1>2, <1>3

EnterOp == [p \in Resolvable \X STRING |-> Enter(p[1], p[2])]

LEMMA EnterOpType ==
  /\ EnterOp \in Loops(Resolvable, STRING)
  /\ \A at \in Resolvable, part \in STRING : EnterOp[<<at, part>>] = Enter(at, part)
BY EnterType DEF EnterOp, Loops

\* weakly_canonical is a loop over the parts of the path.
LEMMA CanonicalLoops ==
  ASSUME NEW parts \in Location
  PROVE  Canonical(parts) = Looped(EnterOp, <<>>, parts)
<1> DEFINE n == Len(parts)
           root == <<>>
           IsWay(h) ==
             h = [i \in 0 .. n |-> IF i = 0 THEN <<>> ELSE Enter(h[i - 1], parts[i])]
           at == CHOOSE h : IsWay(h)
<1>0. /\ n \in Nat /\ parts \in Seq(STRING) /\ root \in Resolvable
      /\ \A i \in 1 .. n : parts[i] \in STRING
  BY DEF Location, Resolvable, IsResolved
<1> HIDE DEF root
<1>1. PICK f \in [0 .. Len(parts) -> Resolvable] :
        GoesOver(f, EnterOp, root, parts) /\ Looped(EnterOp, root, parts) = f[Len(parts)]
  BY <1>0, EnterOpType, LoopExists
<1>2. f[0] = root /\ \A i \in 1 .. n : f[i] = Enter(f[i - 1], parts[i])
  <2>1. ASSUME NEW i \in 1 .. n PROVE f[i] = Enter(f[i - 1], parts[i])
    <3>1. f[i - 1] \in Resolvable /\ parts[i] \in STRING
      BY <1>0
    <3>2. f[i] = EnterOp[<<f[i - 1], parts[i]>>]
      BY <1>1 DEF GoesOver
    <3> QED BY <3>1, <3>2, EnterOpType
  <2> QED BY <1>1, <2>1 DEF GoesOver
<1>3. IsWay(f)
  <2> DEFINE value(i) == IF i = 0 THEN <<>> ELSE Enter(f[i - 1], parts[i])
  <2>1. \A i \in 0 .. n : f[i] = value(i)
    BY <1>0, <1>2 DEF root
  <2> HIDE DEF value
  <2>2. f = [i \in 0 .. n |-> value(i)]
    BY <2>1
  <2> QED BY <2>2 DEF value
<1>4. IsWay(at)
  BY <1>3
<1>5. Canonical(parts) = at[n]
  BY DEF Canonical
<1> HIDE DEF at
<1>6. at[0] = root /\ \A i \in 1 .. n : at[i] = Enter(at[i - 1], parts[i])
  BY <1>0, <1>4 DEF root
<1>7. ASSUME NEW i \in 1 .. Len(parts), at[i - 1] \in Resolvable
      PROVE  at[i] = EnterOp[<<at[i - 1], parts[i]>>]
  BY <1>0, <1>6, <1>7, EnterOpType
<1>8. at[Len(parts)] = Looped(EnterOp, root, parts)
  BY <1>0, <1>6, <1>7, EnterOpType, LoopIsUnique
<1> QED BY <1>5, <1>8 DEF root

LEMMA NextPart ==
  ASSUME NEW Parts, EnterOp \in Loops(Resolvable, Parts), NEW base \in Resolvable,
         NEW parts \in Seq(Parts), NEW part \in Parts
  PROVE  Looped(EnterOp, base, Append(parts, part))
           = EnterOp[<<Looped(EnterOp, base, parts), part>>]
BY LoopStep

\* What a path leads to, part by part.
LEMMA CanonicalStep ==
  /\ Canonical(<<>>) = <<>>
  /\ \A parts \in Location : Canonical(parts) \in Resolvable
  /\ \A parts \in Location, part \in STRING :
       Canonical(Append(parts, part)) = Enter(Canonical(parts), part)
<1> DEFINE root == <<>>
<1>0. root \in Resolvable /\ root \in Location
  BY DEF Location, Resolvable, IsResolved
<1>1. Canonical(<<>>) = <<>>
  <2>1. Looped(EnterOp, root, <<>>) = root
    <3> HIDE DEF root
    <3> QED BY <1>0, EnterOpType, LoopStep
  <2> QED BY <1>0, <2>1, CanonicalLoops
<1> HIDE DEF root
<1>2. ASSUME NEW parts \in Location PROVE Canonical(parts) \in Resolvable
  <2>0. EnterOp \in Loops(Resolvable, STRING) /\ parts \in Seq(STRING)
    BY EnterOpType DEF Location
  <2>1. Looped(EnterOp, root, parts) \in Resolvable
    BY <1>0, <2>0, LoopStep
  <2>2. Canonical(parts) = Looped(EnterOp, root, parts)
    BY CanonicalLoops DEF root
  <2> QED BY <2>1, <2>2
<1>3. ASSUME NEW parts \in Location, NEW part \in STRING
      PROVE  Canonical(Append(parts, part)) = Enter(Canonical(parts), part)
  <2> DEFINE longer == Append(parts, part)
  <2>1. longer \in Location
    BY LongerText DEF Location
  <2>2. Looped(EnterOp, root, longer) = EnterOp[<<Looped(EnterOp, root, parts), part>>]
    BY <1>0, EnterOpType, NextPart DEF Location
  <2> HIDE DEF longer
  <2>3. /\ Canonical(longer) = Looped(EnterOp, root, longer)
        /\ Canonical(parts) = Looped(EnterOp, root, parts)
    BY <2>1, CanonicalLoops DEF root
  <2>4. EnterOp[<<Canonical(parts), part>>] = Enter(Canonical(parts), part)
    BY <1>2, EnterOpType
  <2> QED BY <2>2, <2>3, <2>4 DEF longer
<1> QED BY <1>1, <1>2, <1>3

\* A resolved location leads to itself, so that the directory that was checked
\* is the one that cd and the opening of a file get to (LinksAssumption: the
\* target of a link is resolved).
THEOREM CanonicalIsStable ==
  ASSUME NEW parts \in Location
  PROVE  Canonical(Canonical(parts)) = Canonical(parts)
<1> DEFINE Stable == {at \in Location : IsResolved(at) => Canonical(at) = at}
<1>1. <<>> \in Stable
  BY CanonicalStep DEF Location
<1>2. ASSUME NEW at \in Seq(STRING), NEW part \in STRING, at \in Stable
      PROVE  Append(at, part) \in Stable
  <2> DEFINE next == Append(at, part)
  <2>1. /\ next \in Seq(STRING) /\ Len(next) = Len(at) + 1 /\ Len(at) \in Nat
        /\ DOMAIN next = 1 .. Len(at) + 1 /\ DOMAIN at = 1 .. Len(at)
        /\ next[Len(at) + 1] = part
        /\ \A i \in 1 .. Len(at) :
             next[i] = at[i] /\ SubSeq(next, 1, i) = SubSeq(at, 1, i)
        /\ SubSeq(next, 1, Len(at) + 1) = next
    BY LongerText, Zenon
  <2>2. next \in Location /\ at \in Location
    BY <2>1 DEF Location
  <2>3. Canonical(next) = Enter(Canonical(at), part)
    BY <2>2, CanonicalStep
  <2>4. Enter(at, part) = IF part = "." THEN at
                          ELSE IF part = ".." THEN (IF at = <<>> THEN at ELSE Front(at))
                          ELSE IF next \in DOMAIN Links THEN Links[next] ELSE next
    BY DEF Enter
  <2> HIDE DEF next
  <2>5. ASSUME IsResolved(next) PROVE Canonical(next) = next
    <3>1. \A i \in 1 .. Len(at) + 1 :
            next[i] \notin {".", ".."} /\ SubSeq(next, 1, i) \notin DOMAIN Links
      BY <2>1, <2>5 DEF IsResolved
    <3>2. ASSUME NEW i \in 1 .. Len(at)
          PROVE  at[i] \notin {".", ".."} /\ SubSeq(at, 1, i) \notin DOMAIN Links
      <4>1. i \in 1 .. Len(at) + 1
        BY <2>1
      <4> QED BY <2>1, <3>1, <4>1
    <3>3. IsResolved(at)
      BY <2>1, <2>2, <3>2 DEF IsResolved
    <3>4. part \notin {".", ".."} /\ next \notin DOMAIN Links
      <4>1. Len(at) + 1 \in 1 .. Len(at) + 1
        BY <2>1
      <4> QED BY <2>1, <3>1, <4>1
    <3>5. Canonical(at) = at
      BY <1>2, <3>3
    <3> QED BY <2>3, <2>4, <3>4, <3>5
  <2> QED BY <2>2, <2>5 DEF next
<1> HIDE DEF Stable
<1>3. Seq(STRING) \subseteq Stable
  BY <1>1, <1>2, TextsByInduction
<1> QED BY <1>3, CanonicalStep DEF Stable, Location, Resolvable

LEMMA RootIsLocation == RootParts \in Location
<1>1. ResultDirectory.parts \in Location /\ ResultDirectory.absolute \in BOOLEAN
  BY DirectoryAssumption DEF AnyPath
<1>2. Cwd \o ResultDirectory.parts \in Location
  BY <1>1, CwdAssumption DEF Location
<1> QED BY <1>1, <1>2 DEF RootParts, Absolute

\* The directory a command runs in, unless it is refused, is in result_directory
\* also when it is looked up again, by the cd of the command line
\* (resolve_working_directory).
LEMMA DirectoryIsInside ==
  ASSUME NEW path \in AnyPath, NEW created,
         ResolveWorkingDirectory(path, RootParts, created) # <<"refused">>
  PROVE  IsPrefix(Canonical(RootParts),
                  Canonical(ResolveWorkingDirectory(path, RootParts, created)))
<1> DEFINE candidate == Candidate(path, RootParts)
<1>1. candidate \in Location
  <2>1. path.parts \in Location
    BY DEF AnyPath
  <2>2. RootParts \o path.parts \in Location
    BY <2>1, RootIsLocation DEF Location
  <2> QED BY <2>1, <2>2, RootIsLocation DEF Candidate
<1>2. /\ ResolveWorkingDirectory(path, RootParts, created) = Canonical(candidate)
      /\ IsPrefix(Canonical(RootParts), Canonical(candidate))
  BY DEF ResolveWorkingDirectory, IsWithinRoot
<1> HIDE DEF candidate
<1> QED BY <1>1, <1>2, CanonicalIsStable

-----------------------------------------------------------------------------
(* Instructions. *)

\* The directory of a task is a path, whatever the levels give.
LEMMA WorkdirIsPath ==
  ASSUME NEW top \in Level, NEW options \in Options
  PROVE  ParseTaskInstruction(top, options).workdir \in AnyPath
<1>0. NoPath \in AnyPath
  BY DEF NoPath, AnyPath, Location
<1>1. ASSUME NEW task, task.workdir \in AnyPath, NEW obj \in Level
      PROVE  ApplyTaskFields(task, obj).workdir \in AnyPath
  <2>1. obj.workdir \in AnyPath
    BY DEF Level
  <2>2. WorkingDirectory(task, obj) \in AnyPath
    BY <1>1, <2>1, DirectoryAssumption DEF WorkingDirectory
  <2>3. ApplyTaskFields(task, obj).workdir = WorkingDirectory(task, obj)
    BY DEF ApplyTaskFields
  <2> QED BY <2>2, <2>3
<1> DEFINE first == ApplyTaskFields(NoTask, top)
<1>2. first.workdir \in AnyPath
  BY <1>0, <1>1 DEF NoTask
<1>3. CASE options.form = "object"
  <2>1. options.obj \in Level
    BY <1>3 DEF Options
  <2> HIDE DEF first
  <2>2. ApplyTaskFields(first, options.obj).workdir \in AnyPath
    BY <1>1, <1>2, <2>1
  <2> QED BY <1>3, <2>2 DEF ParseTaskInstruction, ApplyOptions, first
<1>4. CASE options.form # "object"
  <2>1. ApplyText(first, options.text).workdir = first.workdir
    BY DEF ApplyText, ApplyTaskFields
  <2> QED BY <1>2, <1>4, <2>1 DEF ParseTaskInstruction, ApplyOptions
<1> QED BY <1>3, <1>4

\* What one level does to the command, and what it adds to the files.
LEMMA LevelGives ==
  ASSUME NEW task, NEW obj
  PROVE  LET after == ApplyTaskFields(task, obj)
         IN  /\ after.command =
                  IF task.command # NoCommand THEN task.command
                  ELSE IF obj.command # "" THEN <<obj.command>>
                  ELSE IF Executable(obj) # "" THEN <<Executable(obj), obj.args>>
                  ELSE NoCommand
             /\ task.resultFiles \subseteq after.resultFiles
             /\ obj.numbered \subseteq after.resultFiles
             /\ obj.numbered = {} => UNION obj.files \subseteq after.resultFiles
<1> DEFINE after == ApplyTaskFields(task, obj)
<1>1. /\ after.command = IF UsesExecutable(task, obj) THEN <<Executable(obj), obj.args>>
                         ELSE Text(task, obj)
      /\ after.resultFiles = AppendUnique(task.resultFiles,
                                          ListedFiles(obj, UsesExecutable(task, obj)))
  BY DEF ApplyTaskFields
<1> HIDE DEF after
<1>2. <<obj.command>> # NoCommand /\ <<Executable(obj), obj.args>> # NoCommand
  BY DEF NoCommand
<1>3. /\ task.command # NoCommand => Text(task, obj) = task.command
      /\ task.command = NoCommand /\ obj.command # "" => Text(task, obj) = <<obj.command>>
      /\ task.command = NoCommand /\ obj.command = "" => Text(task, obj) = NoCommand
  BY DEF Text
<1>4. UsesExecutable(task, obj) <=> Text(task, obj) = NoCommand /\ Executable(obj) # ""
  BY DEF UsesExecutable
<1> HIDE DEF NoCommand
<1>5. after.command = IF task.command # NoCommand THEN task.command
                      ELSE IF obj.command # "" THEN <<obj.command>>
                      ELSE IF Executable(obj) # "" THEN <<Executable(obj), obj.args>>
                      ELSE NoCommand
  BY <1>1, <1>2, <1>3, <1>4, Zenon
<1>6. /\ task.resultFiles \subseteq after.resultFiles
      /\ obj.numbered \subseteq after.resultFiles
      /\ obj.numbered = {} => UNION obj.files \subseteq after.resultFiles
  <2>1. obj.numbered \subseteq ListedFiles(obj, UsesExecutable(task, obj))
    BY DEF ListedFiles
  <2>2. obj.numbered = {} => UNION obj.files \subseteq ListedFiles(obj, UsesExecutable(task, obj))
    BY DEF ListedFiles
  <2> QED BY <1>1, <2>1, <2>2 DEF AppendUnique
<1> QED BY <1>5, <1>6 DEF after

-----------------------------------------------------------------------------
(* The calls. *)

\* What each operation is called with, and what it has returned if it has.
CodeOf(ended) == IF ended[1] = "status" THEN NormalizeExitCode(ended[2]) ELSE ended[2]
TaskOf(answer) == ParseTaskInstruction(answer.top, answer.options)
InnerOf(line) ==
  InnerCommand(line.directory, ExecutableCommand(line.program, JsonArguments(line.arguments)),
               <<"o">>, <<"e">>)

Answered(operation, inputs, answer) ==
  call = operation => input \in inputs /\ (outcome # <<>> => outcome = answer)

CallsInv ==
  /\ Answered("fetch_task", Reply, <<FetchTask(input)>>)
  /\ Answered("send_result", Reply, <<SendResult(input)>>)
  /\ Answered("finish", ({"status"} \X WaitStatus) \cup ({"agent"} \X AgentCode),
              <<[result |-> CodeOf(input), field |-> ApiResultCode(CodeOf(input))]>>)
  /\ Answered("resolve", Instructions,
              <<[task      |-> TaskOf(input),
                 where     |-> ResolveWorkingDirectory(TaskOf(input).workdir, RootParts,
                                                       input.created),
                 collected |-> SafeFiles({PathOf[name] : name \in TaskOf(input).resultFiles},
                                         RootParts)]>>)
  /\ Answered("load_config", [file : ConfigFiles, env : Environment],
              IF IsAccepted(input.file) THEN <<TRUE, LoadConfig(input.file, input.env)>>
              ELSE <<FALSE>>)
  /\ Answered("command_line", CommandLines, <<InnerOf(input), ShellCommand(InnerOf(input))>>)
  /\ Answered("message", Outputs, <<Message(input.stdout, input.stderr, input.code)>>)
  /\ Answered("parse_number", NumberTexts, <<NumberEnd(input)>>)
  /\ Answered("dump_string", Messages, <<EscapeJson(input)>>)
  /\ Answered("parse_string", EncodedStrings,
              <<ParseString(Append(FlattenSeq(input.codes), "quote"))>>)
  /\ Answered("parse", Documents, <<Parse(input)>>)
  /\ Answered("dump", Payloads, <<Dump[input]>>)

LEMMA CallsAreAnswered == Spec => []CallsInv
<1>1. Init => CallsInv
  BY DEF Init, CallsInv, Answered
<1>2. CallsInv /\ [Next]_vars => CallsInv'
  <2> SUFFICES ASSUME CallsInv, [Next]_vars PROVE CallsInv'
    OBVIOUS
  <2> USE DEF CallsInv, Called, Answered
  <2>1. CASE ReadTask
    BY <2>1 DEF ReadTask
  <2>2. CASE ReadDelivery
    BY <2>2 DEF ReadDelivery
  <2>3. CASE Finish
    BY <2>3 DEF Finish, CodeOf
  <2>4. CASE Resolve
    BY <2>4 DEF Resolve, TaskOf
  <2>5. CASE Configure
    BY <2>5 DEF Configure
  <2>6. CASE BuildCommand
    BY <2>6 DEF BuildCommand, InnerOf
  <2>7. CASE ReadOutput
    BY <2>7 DEF ReadOutput
  <2>8. CASE ReadNumber
    BY <2>8 DEF ReadNumber
  <2>9. CASE WriteString
    BY <2>9 DEF WriteString
  <2>10. CASE ReadString
    BY <2>10 DEF ReadString
  <2>11. CASE ReadJson
    BY <2>11 DEF ReadJson
  <2>12. CASE WriteJson
    BY <2>12 DEF WriteJson
  <2>13. CASE UNCHANGED vars
    <3>1. UNCHANGED <<call, input, outcome>>
      BY <2>13 DEF vars
    <3>2. CASE outcome = <<>>
      BY <3>1, <3>2
    <3>3. CASE outcome # <<>>
      BY <3>1, <3>3
    <3> QED BY <3>2, <3>3
  <2> QED
    BY <2>1, <2>2, <2>3, <2>4, <2>5, <2>6, <2>7, <2>8, <2>9, <2>10, <2>11, <2>12, <2>13
       DEF Next
<1> QED BY <1>1, <1>2, PTL DEF Spec

-----------------------------------------------------------------------------
(* The answers of the server. *)

\* An HTTP error, an error code, a WAIT or an answer without both identity
\* fields starts no task, for any set of session ids; nothing more is asked of
\* status (fetch_task).
THEOREM TaskNeedsInstruction == Spec => []StartsOnlyFromInstruction
<1>1. CallsInv => StartsOnlyFromInstruction
  <2> SUFFICES ASSUME CallsInv, Returned("fetch_task"), outcome[1] = "task"
               PROVE  /\ input.http = 200 /\ input.body = "object"
                      /\ input.status # "WAIT"
                      /\ input.code \notin NegativeCodes
                      /\ input.session \in Sessions /\ input.task_code # ""
    BY DEF StartsOnlyFromInstruction
  <2>1. input \in Reply /\ outcome = <<FetchTask(input)>>
    BY DEF CallsInv, Answered, Returned
  <2>2. FetchTask(input) = "task"
    BY <2>1
  <2>3. /\ ReturnsObject(input) /\ ~LooksLikeNoTask(input)
        /\ ~IsNegativeCode(input.code) /\ HasIdentity(input)
    BY <2>2 DEF FetchTask
  <2>4. input.http \in {0, 200, 302, 404, 500} /\ input.session \in Sessions \cup {""}
    BY <2>1 DEF Reply
  <2>5. input.http = 200
    <3>1. input.http >= 200 /\ input.http < 300
      BY <2>3 DEF ReturnsObject, Is2xx
    <3> DEFINE http == input.http
    <3>2. http \in {0, 200, 302, 404, 500} /\ http >= 200 /\ http < 300
      BY <2>4, <3>1
    <3> HIDE DEF http
    <3>3. http = 200
      BY <3>2
    <3> QED BY <3>3 DEF http
  <2>6. input.body = "object" /\ input.status # "WAIT" /\ input.code \notin NegativeCodes
    BY <2>3, Zenon DEF ReturnsObject, LooksLikeNoTask, IsNegativeCode
  <2>7. input.session \in Sessions /\ input.task_code # ""
    BY <2>3, <2>4, Zenon DEF HasIdentity
  <2> QED BY <2>5, <2>6, <2>7
<1> QED BY <1>1, CallsAreAnswered, PTL

\* An error answer is a polling error and never taken for an idle server, but
\* for one whose message reads like "no task" (fetch_task, looks_like_no_task).
THEOREM ErrorIsPollingError == Spec => []ErrorAnswerBacksOff
<1>1. CallsInv => ErrorAnswerBacksOff
  <2> SUFFICES ASSUME CallsInv, Returned("fetch_task"), outcome[1] # "throws",
                      input.code \in NegativeCodes \ {"-11"}
               PROVE  input.status = "WAIT" \/ input.msg = "net"
    BY DEF ErrorAnswerBacksOff
  <2>1. input \in Reply /\ outcome = <<FetchTask(input)>>
    BY DEF CallsInv, Answered, Returned
  <2>2. FetchTask(input) # "throws"
    BY <2>1
  <2> QED BY <2>2 DEF FetchTask, LooksLikeNoTask, IsNegativeCode, NegativeCodes
<1> QED BY <1>1, CallsAreAnswered, PTL

\* What the server refused is not delivered (send_result).
THEOREM DeliveryNeedsConsent == Spec => []RefusedIsNotDelivered
<1>1. CallsInv => RefusedIsNotDelivered
  <2> SUFFICES ASSUME CallsInv, Returned("send_result"), outcome[1]
               PROVE  input.http = 200
                        /\ (input.body = "object" => input.code \notin {"-2", "-3", "-11"})
    BY DEF RefusedIsNotDelivered
  <2>1. input \in Reply /\ outcome = <<SendResult(input)>>
    BY DEF CallsInv, Answered, Returned
  <2>2. SendResult(input)
    BY <2>1
  <2>3. input.http \in {0, 200, 302, 404, 500}
    BY <2>1 DEF Reply
  <2> QED BY <2>2, <2>3 DEF SendResult, Is2xx, IsNegativeCode, NegativeCodes
<1> QED BY <1>1, CallsAreAnswered, PTL

-----------------------------------------------------------------------------
(* The result code. *)

\* The statuses of std::system, taken apart (WEXITSTATUS, WTERMSIG).
LEMMA MinusOne == (-1) % 128 = 127
<1> DEFINE n == -1
<1>1. n \in Int /\ n + 1 = 0
  OBVIOUS
<1> HIDE DEF n
<1>2. n % 128 = 127
  BY <1>1
<1> QED BY <1>2 DEF n

LEMMA StatusParts ==
  ASSUME NEW status \in WaitStatus
  PROVE  /\ status \in Int
         /\ \/ status = -1 /\ NormalizeExitCode(status) = -1
            \/ /\ status % 128 \in 1 .. 126 /\ status # -1 /\ status # 0
               /\ NormalizeExitCode(status) = 128 + (status % 128)
            \/ /\ status % 128 = 0 /\ status # -1 /\ NormalizeExitCode(status) >= 0
               /\ NormalizeExitCode(status) = 0 <=> status = 0
<1>1. CASE status = -1
  BY <1>1, MinusOne DEF NormalizeExitCode, WIFEXITED, WIFSIGNALED
<1>2. ASSUME NEW code \in 0 .. 255, status = 256 * code
      PROVE  /\ status \in Int /\ status % 128 = 0 /\ status # -1
             /\ NormalizeExitCode(status) = code
  <2>1. status \in Int /\ status # -1 /\ status % 128 = 0
    BY <1>2
  <2>2. (status \div 256) % 256 = code
    BY <1>2
  <2> QED BY <2>1, <2>2 DEF NormalizeExitCode, WIFEXITED, WEXITSTATUS
<1>3. ASSUME NEW signal \in 1 .. 126, NEW core \in {0, 128}, status = signal + core
      PROVE  /\ status \in Int /\ status % 128 = signal /\ status # -1 /\ status # 0
             /\ NormalizeExitCode(status) = 128 + signal
  <2>1. status \in Int /\ status # -1 /\ status # 0 /\ status % 128 = signal
    BY <1>3
  <2> QED BY <2>1 DEF NormalizeExitCode, WIFEXITED, WIFSIGNALED, WTERMSIG
<1>4. CASE \E code \in 0 .. 255 : status = 256 * code
  BY <1>2, <1>4
<1>5. CASE \E signal \in 1 .. 126, core \in {0, 128} : status = signal + core
  BY <1>3, <1>5
<1> QED BY <1>1, <1>4, <1>5 DEF WaitStatus

\* The result code of a finished task.
LEMMA FinishAnswer ==
  ASSUME CallsInv, Returned("finish")
  PROVE  /\ \/ \E status \in WaitStatus :
                 input = <<"status", status>> /\ CodeOf(input) = NormalizeExitCode(status)
            \/ \E code \in AgentCode : input = <<"agent", code>> /\ CodeOf(input) = code
         /\ outcome[1].result = CodeOf(input)
         /\ outcome[1].field = ApiResultCode(CodeOf(input))
<1>1. /\ input \in ({"status"} \X WaitStatus) \cup ({"agent"} \X AgentCode)
      /\ outcome = <<[result |-> CodeOf(input), field |-> ApiResultCode(CodeOf(input))]>>
  BY DEF CallsInv, Answered, Returned
<1>2. CASE input \in {"status"} \X WaitStatus
  BY <1>1, <1>2 DEF CodeOf
<1>3. CASE input \in {"agent"} \X AgentCode
  BY <1>1, <1>3 DEF CodeOf
<1> QED BY <1>1, <1>2, <1>3

\* Of all ends of a task only an exit with 0 is reported as 0, every other one
\* by a negative code (normalize_exit_code, send_result).
THEOREM SuccessIsReported == Spec => []FieldTellsSuccess
<1>1. CallsInv => FieldTellsSuccess
  <2> SUFFICES ASSUME CallsInv, Returned("finish")
               PROVE  /\ outcome[1].field = 0 <=> input = <<"status", 0>>
                      /\ outcome[1].field # 0 => outcome[1].field < 0
    BY DEF FieldTellsSuccess
  <2>1. CASE \E status \in WaitStatus :
               input = <<"status", status>> /\ CodeOf(input) = NormalizeExitCode(status)
    <3>1. PICK status \in WaitStatus :
            input = <<"status", status>> /\ CodeOf(input) = NormalizeExitCode(status)
      BY <2>1
    <3>2. NormalizeExitCode(status) \in Int /\ (NormalizeExitCode(status) = 0 <=> status = 0)
      BY StatusParts DEF NormalizeExitCode, WEXITSTATUS, WTERMSIG
    <3>3. input = <<"status", 0>> <=> status = 0
      BY <3>1
    <3> QED BY <3>1, <3>2, <3>3, FinishAnswer, FieldSign
  <2>2. CASE \E code \in AgentCode : input = <<"agent", code>> /\ CodeOf(input) = code
    <3>1. PICK code \in AgentCode : input = <<"agent", code>> /\ CodeOf(input) = code
      BY <2>2
    <3>2. code \in Int /\ code # 0
      BY DEF AgentCode
    <3>3. input # <<"status", 0>>
      BY <3>1
    <3> QED BY <3>1, <3>2, <3>3, FinishAnswer, FieldSign
  <2> QED BY <2>1, <2>2, FinishAnswer
<1> QED BY <1>1, CallsAreAnswered, PTL

\* The death by a signal is told from a success, from an exit status up to 128
\* and from a failure to start, and an exit from such a failure
\* (normalize_exit_code); above 128 the two share codes.
THEOREM CauseIsKept == Spec => []ResultKeepsCause
<1>1. CallsInv => ResultKeepsCause
  <2> SUFFICES ASSUME CallsInv, Returned("finish"), input[1] = "status"
               PROVE  /\ input[2] # -1 => outcome[1].result >= 0
                      /\ input[2] % 128 \in 1 .. 126 => outcome[1].result > 128
                      /\ input[2] = -1 => outcome[1].result = -1
    BY DEF ResultKeepsCause
  <2>1. PICK status \in WaitStatus :
          input = <<"status", status>> /\ CodeOf(input) = NormalizeExitCode(status)
    BY FinishAnswer
  <2>2. input[2] = status /\ outcome[1].result = NormalizeExitCode(status)
    BY <2>1, FinishAnswer
  <2> QED BY <2>2, StatusParts, MinusOne
<1> QED BY <1>1, CallsAreAnswered, PTL

-----------------------------------------------------------------------------
(* Instructions, their directories and their files. *)

LEMMA ResolveAnswer ==
  ASSUME CallsInv, Returned("resolve")
  PROVE  /\ input.top \in Level /\ input.options \in Options
         /\ outcome[1].task = TaskOf(input)
         /\ outcome[1].where = ResolveWorkingDirectory(TaskOf(input).workdir, RootParts, input.created)
         /\ outcome[1].collected
              = SafeFiles({PathOf[name] : name \in TaskOf(input).resultFiles}, RootParts)
<1>1. input \in Instructions
  BY DEF CallsInv, Answered, Returned
<1>2. input.top \in Level /\ input.options \in Options
  BY <1>1, InstructionsAssumption
<1>3. outcome = <<[task      |-> TaskOf(input),
                   where     |-> ResolveWorkingDirectory(TaskOf(input).workdir, RootParts,
                                                         input.created),
                   collected |-> SafeFiles({PathOf[name] : name \in TaskOf(input).resultFiles},
                                           RootParts)]>>
  BY DEF CallsInv, Answered, Returned
<1> QED BY <1>2, <1>3

\* Whatever the links, the directories and the instruction are, the commands
\* run and the files are taken in result_directory (resolve_working_directory,
\* is_safe_result_file).
THEOREM PathsAreInside == Spec => []PathsStayInside
<1>1. CallsInv => PathsStayInside
  <2> SUFFICES ASSUME CallsInv, Returned("resolve")
               PROVE  /\ outcome[1].where # <<"refused">> =>
                           IsPrefix(Canonical(RootParts), Canonical(outcome[1].where))
                      /\ \A path \in outcome[1].collected :
                           IsPrefix(Canonical(RootParts), Canonical(RootParts \o path.parts))
    BY DEF PathsStayInside, Resolved
  <2>1. ASSUME outcome[1].where # <<"refused">>
        PROVE  IsPrefix(Canonical(RootParts), Canonical(outcome[1].where))
    <3>1. TaskOf(input).workdir \in AnyPath
      BY ResolveAnswer, WorkdirIsPath DEF TaskOf
    <3> QED BY <2>1, <3>1, ResolveAnswer, DirectoryIsInside
  <2>2. ASSUME NEW path \in outcome[1].collected
        PROVE  IsPrefix(Canonical(RootParts), Canonical(RootParts \o path.parts))
    <3>1. IsSafeResultFile(RootParts \o path.parts, RootParts)
      BY <2>2, ResolveAnswer DEF SafeFiles
    <3> QED BY <3>1 DEF IsSafeResultFile, IsWithinRoot
  <2> QED BY <2>1, <2>2
<1> QED BY <1>1, CallsAreAnswered, PTL

\* The command of the top level goes before that of the options, each level's
\* text before its executable, and nothing else is run (apply_task_fields,
\* apply_options_field).
THEOREM CommandIsTheGiven == Spec => []GivenCommandIsRun
<1>1. CallsInv => GivenCommandIsRun
  <2> DEFINE Given(obj) == IF obj.command # "" THEN <<obj.command>>
                           ELSE IF Executable(obj) # "" THEN <<Executable(obj), obj.args>>
                           ELSE NoCommand
             options == input.options
             second == IF options.form = "object" THEN Given(options.obj)
                       ELSE IF options.form = "text" THEN <<options.text>> ELSE NoCommand
             first == ApplyTaskFields(NoTask, input.top)
             command == TaskOf(input).command
  <2> SUFFICES ASSUME CallsInv, Returned("resolve")
               PROVE  command = IF Given(input.top) # NoCommand THEN Given(input.top) ELSE second
    BY ResolveAnswer DEF GivenCommandIsRun
  <2>1. \A task, obj : ApplyTaskFields(task, obj).command =
                         IF task.command # NoCommand THEN task.command ELSE Given(obj)
    BY LevelGives
  <2>2. NoTask.command = NoCommand
    BY DEF NoTask
  <2>3. first.command = Given(input.top)
    BY <2>1, <2>2
  <2>4. command = ApplyOptions(first, options).command
    BY DEF TaskOf, ParseTaskInstruction
  <2> HIDE DEF first, command, Given, NoCommand
  <2>5. CASE options.form = "object"
    <3>1. command = ApplyTaskFields(first, options.obj).command
      BY <2>4, <2>5 DEF ApplyOptions
    <3> QED BY <2>1, <2>3, <2>5, <3>1
  <2>6. CASE options.form = "text"
    <3>1. command = IF first.command = NoCommand THEN <<options.text>> ELSE first.command
      BY <2>4, <2>6 DEF ApplyOptions, ApplyText, ApplyTaskFields, first
    <3> QED BY <2>3, <2>6, <3>1
  <2>7. CASE options.form \notin {"object", "text"}
    <3>1. command = first.command
      BY <2>4, <2>7 DEF ApplyOptions
    <3> QED BY <2>3, <2>7, <3>1
  <2> QED BY <2>5, <2>6, <2>7
<1> QED BY <1>1, CallsAreAnswered, PTL

\* A working directory of the options goes before the default of the top level
\* (apply_task_fields).
THEOREM WorkdirIsTheGiven == Spec => []GivenWorkdirIsUsed
<1>1. CallsInv => GivenWorkdirIsUsed
  <2> SUFFICES ASSUME CallsInv, Returned("resolve"), input.options.form = "object",
                      input.options.obj.workdir # NoPath
               PROVE  TaskOf(input).workdir = input.options.obj.workdir
    BY ResolveAnswer DEF GivenWorkdirIsUsed
  <2> QED BY DEF TaskOf, ParseTaskInstruction, ApplyOptions, ApplyTaskFields, WorkingDirectory
<1> QED BY <1>1, CallsAreAnswered, PTL

\* Every file that the top level or the options name is awaited (append_unique).
THEOREM FilesAreTheNamed == Spec => []NamedFilesAreAwaited
<1>1. CallsInv => NamedFilesAreAwaited
  <2> DEFINE Named(obj) == obj.numbered \cup (IF obj.numbered = {} THEN UNION obj.files ELSE {})
             first == ApplyTaskFields(NoTask, input.top)
  <2> SUFFICES ASSUME CallsInv, Returned("resolve")
               PROVE  /\ Named(input.top) \subseteq TaskOf(input).resultFiles
                      /\ input.options.form = "object" =>
                           Named(input.options.obj) \subseteq TaskOf(input).resultFiles
    BY ResolveAnswer DEF NamedFilesAreAwaited
  <2>1. ASSUME NEW task, NEW obj
        PROVE  /\ task.resultFiles \subseteq ApplyTaskFields(task, obj).resultFiles
               /\ Named(obj) \subseteq ApplyTaskFields(task, obj).resultFiles
    BY LevelGives
  <2>2. TaskOf(input) = ApplyOptions(first, input.options)
    BY DEF TaskOf, ParseTaskInstruction
  <2>3. Named(input.top) \subseteq first.resultFiles
    BY <2>1
  <2>4. first.resultFiles \subseteq TaskOf(input).resultFiles
    <3>1. ApplyText(first, input.options.text).resultFiles = first.resultFiles
      BY DEF ApplyText, ApplyTaskFields
    <3> HIDE DEF first
    <3> QED BY <2>1, <2>2, <3>1 DEF ApplyOptions
  <2>5. ASSUME input.options.form = "object"
        PROVE  Named(input.options.obj) \subseteq TaskOf(input).resultFiles
    <3> HIDE DEF first, Named
    <3> QED BY <2>1, <2>2, <2>5 DEF ApplyOptions
  <2> HIDE DEF Named, first
  <2> QED BY <2>3, <2>4, <2>5
<1> QED BY <1>1, CallsAreAnswered, PTL

-----------------------------------------------------------------------------
(* The configuration, the command line and the output. *)

\* The file of a configuration that was accepted.
LEMMA ConfigAnswer ==
  ASSUME CallsInv, Returned("load_config"), outcome[1]
  PROVE  /\ input.file \in File /\ input.env \in Environment /\ IsAccepted(input.file)
         /\ outcome[2] = LoadConfig(input.file, input.env)
<1>1. /\ input \in [file : ConfigFiles, env : Environment]
      /\ outcome = IF IsAccepted(input.file) THEN <<TRUE, LoadConfig(input.file, input.env)>>
                   ELSE <<FALSE>>
  BY DEF CallsInv, Answered, Returned
<1>2. input.file \in File /\ input.env \in Environment
  BY <1>1, ConfigFilesAssumption
<1>3. CASE IsAccepted(input.file)
  BY <1>1, <1>2, <1>3
<1>4. CASE ~IsAccepted(input.file)
  <2>1. outcome = <<FALSE>>
    BY <1>1, <1>4
  <2>2. outcome[1] = FALSE
    BY <2>1
  <2> QED BY <2>2
<1> QED BY <1>3, <1>4

\* A configuration that load_config returns is one Agent.tla assumes.
THEOREM ConfigIsFit == Spec => []ConfigFitsAgent
<1>1. CallsInv => ConfigFitsAgent
  BY ConfigAnswer, ConfigFits DEF ConfigFitsAgent
<1> QED BY <1>1, CallsAreAnswered, PTL

\* Both shells read the words that the agent means, whatever is in them
\* (shell_escape, json_arguments, execute_task).
THEOREM ArgumentsAreKept == Spec => []ArgumentsArriveIntact
<1>1. CallsInv => ArgumentsArriveIntact
  <2> SUFFICES ASSUME CallsInv, Returned("command_line")
               PROVE  /\ ShellWords(outcome[2]) = <<<<"/bin/sh">>, <<"-lc">>, outcome[1]>>
                      /\ ShellWords(outcome[1]) =
                           <<<<"cd">>, input.directory, <<"operator", "&&">>, input.program>>
                             \o input.arguments
                             \o <<<<"operator", ">">>, <<"o">>, <<"operator", "2>">>, <<"e">>>>
    BY DEF ArgumentsArriveIntact
  <2>1. /\ input \in CommandLines
        /\ outcome = <<InnerOf(input), ShellCommand(InnerOf(input))>>
    BY DEF CallsInv, Answered, Returned
  <2>2. /\ input.program \in Seq(STRING) /\ input.directory \in Seq(STRING)
        /\ input.arguments \in Seq(Seq(STRING) \ {<<>>})
    BY <2>1, CommandLinesAssumption
  <2>3. STRING \subseteq Chars
    BY DEF Chars
  <2>4. Seq(STRING) \subseteq Texts
    BY <2>3, SeqMonotonic DEF Texts
  <2>5. Seq(Seq(STRING) \ {<<>>}) \subseteq Seq(Entries)
    <3>1. Seq(STRING) \ {<<>>} \subseteq Entries
      BY <2>4 DEF Entries
    <3> QED BY <3>1, SeqMonotonic
  <2>6. <<"o">> \in Texts /\ <<"e">> \in Texts
    <3>1. "o" \in Chars /\ "e" \in Chars
      BY AllChars DEF Words
    <3> QED BY <3>1, OneChar DEF Texts
  <2> DEFINE inner == InnerOf(input)
  <2>7. /\ inner \in Texts
        /\ ShellWords(inner) =
             <<<<"cd">>, input.directory, <<"operator", "&&">>, input.program>>
               \o input.arguments
               \o <<<<"operator", ">">>, <<"o">>, <<"operator", "2>">>, <<"e">>>>
    <3> DEFINE stdout == <<"o">>
               stderr == <<"e">>
               directory == input.directory
               program == input.program
               entries == input.arguments
    <3>1. /\ directory \in Texts /\ program \in Texts /\ entries \in Seq(Entries)
          /\ stdout \in Texts /\ stderr \in Texts
      BY <2>2, <2>4, <2>5, <2>6
    <3>2. inner = InnerCommand(directory, ExecutableCommand(program, JsonArguments(entries)),
                               stdout, stderr)
      BY DEF InnerOf
    <3> HIDE DEF stdout, stderr, directory, program, entries, inner
    <3>3. /\ inner \in Texts
          /\ ShellWords(inner) =
               <<<<"cd">>, directory, <<"operator", "&&">>, program>>
                 \o entries
                 \o <<<<"operator", ">">>, stdout, <<"operator", "2>">>, stderr>>
      BY <3>1, <3>2, InnerCommandIsWords
    <3> QED BY <3>3, Zenon DEF stdout, stderr, directory, program, entries
  <2> HIDE DEF inner
  <2>8. outcome = <<inner, ShellCommand(inner)>>
    BY <2>1 DEF inner
  <2>9. outcome[1] = inner /\ outcome[2] = ShellCommand(inner)
    BY <2>8
  <2>10. ShellWords(ShellCommand(inner)) = <<<<"/bin/sh">>, <<"-lc">>, inner>>
    BY <2>7, ShellCommandIsWords, Zenon
  <2> QED BY <2>7, <2>9, <2>10, Zenon
<1> QED BY <1>1, CallsAreAnswered, PTL

\* An output of any length arrives whole, or marked as cut, and the errors are
\* told from it (read_text_file, join_output).
THEOREM OutputIsKept == Spec => []OutputIsWholeOrMarked
<1>1. CallsInv => OutputIsWholeOrMarked
  <2> SUFFICES ASSUME CallsInv, Returned("message")
               PROVE  /\ IsPrefix(Shown(input.stdout), outcome[1])
                      /\ input.stderr # <<>> =>
                           \E i \in DOMAIN outcome[1] :
                             /\ outcome[1][i] = StderrHeader
                             /\ i = 1 \/ outcome[1][i - 1] = NewLine
                             /\ IsPrefix(<<NewLine>> \o Shown(input.stderr),
                                         SubSeq(outcome[1], i + 1, Len(outcome[1])))
                      /\ {text \in {input.stdout, input.stderr} : Len(text) > MaxCaptured} # {} =>
                           {i \in DOMAIN outcome[1] : outcome[1][i] = Truncated} # {}
    BY DEF OutputIsWholeOrMarked, Shown
  <2> DEFINE message == Message(input.stdout, input.stderr, input.code)
  <2>1. input \in Outputs /\ outcome = <<message>>
    BY DEF CallsInv, Answered, Returned
  <2>2. /\ input.stdout \in Seq(STRING) /\ input.stderr \in Seq(STRING)
        /\ input.code \in Int
    BY <2>1, OutputsAssumption
  <2>3. /\ IsPrefix(Shown(input.stdout), message)
        /\ input.stderr # <<>> =>
             \E i \in DOMAIN message :
               /\ message[i] = StderrHeader
               /\ i = 1 \/ message[i - 1] = NewLine
               /\ IsPrefix(<<NewLine>> \o Shown(input.stderr),
                           SubSeq(message, i + 1, Len(message)))
        /\ Len(input.stdout) > MaxCaptured \/ Len(input.stderr) > MaxCaptured =>
             \E i \in DOMAIN message : message[i] = Truncated
    <3> DEFINE out == input.stdout
               err == input.stderr
               code == input.code
    <3>1. out \in Seq(STRING) /\ err \in Seq(STRING) /\ code \in Int
      BY <2>2
    <3>2. message = Message(out, err, code)
      OBVIOUS
    <3> HIDE DEF out, err, code, message
    <3>3. /\ IsPrefix(Shown(out), message)
          /\ err # <<>> =>
               \E i \in DOMAIN message :
                 /\ message[i] = StderrHeader
                 /\ i = 1 \/ message[i - 1] = NewLine
                 /\ IsPrefix(<<NewLine>> \o Shown(err), SubSeq(message, i + 1, Len(message)))
          /\ Len(out) > MaxCaptured \/ Len(err) > MaxCaptured =>
               \E i \in DOMAIN message : message[i] = Truncated
      BY <3>1, <3>2, MessageShowsOutput
    <3> QED BY <3>3, Zenon DEF out, err, code
  <2> HIDE DEF message
  <2>4. outcome[1] = message
    BY <2>1
  <2> QED BY <2>3, <2>4
<1> QED BY <1>1, CallsAreAnswered, PTL

\* The server reads the message the agent has written, and the agent the
\* strings without codes and the numbers the server writes, of any length
\* (escape_json, parse_string, parse_number).
THEOREM TextsAreUnderstood == Spec => []TextsMeanTheSame
<1>1. CallsInv => TextsMeanTheSame
  <2> SUFFICES ASSUME CallsInv
               PROVE  /\ Returned("parse_number") /\ IsNumber(input) =>
                           outcome[1] = Len(input) + 1
                      /\ Returned("dump_string") => MessagesOf(outcome[1]) = {input}
                      /\ Returned("parse_string")
                           /\ (\A i \in DOMAIN input.codes :
                                 input.codes[i] \in PlainEncodings(input.message[i]))
                         => outcome[1] = input.message
    BY DEF TextsMeanTheSame
  <2>1. ASSUME Returned("parse_number"), IsNumber(input)
        PROVE  outcome[1] = Len(input) + 1
    <3>1. input \in NumberTexts /\ outcome = <<NumberEnd(input)>>
      BY <2>1 DEF CallsInv, Answered, Returned
    <3>2. input \in Seq(STRING)
      BY <3>1, NumberTextsAssumption
    <3>3. NumberEnd(input) = Len(input) + 1
      BY <2>1, <3>2, NumbersAreRead
    <3> QED BY <3>1, <3>3
  <2>2. ASSUME Returned("dump_string")
        PROVE  MessagesOf(outcome[1]) = {input}
    <3>1. input \in Messages /\ outcome = <<EscapeJson(input)>>
      BY <2>2 DEF CallsInv, Answered, Returned
    <3>2. input \in Strings
      BY <3>1, MessagesAssumption DEF Strings
    <3>3. MessagesOf(EscapeJson(input)) = {input}
      BY <3>2, WrittenStringIsUnderstood
    <3> QED BY <3>1, <3>3
  <2>3. ASSUME Returned("parse_string"),
               \A i \in DOMAIN input.codes : input.codes[i] \in PlainEncodings(input.message[i])
        PROVE  outcome[1] = input.message
    <3> DEFINE codes == input.codes
               message == input.message
    <3>1. /\ input \in EncodedStrings
          /\ outcome = <<ParseString(Append(FlattenSeq(codes), "quote"))>>
      BY <2>3 DEF CallsInv, Answered, Returned
    <3>2. message \in Strings /\ codes \in Seq(AllEncodings) /\ Len(codes) = Len(message)
      BY <3>1, EncodedStringsAssumption DEF Strings
    <3>3. \A i \in DOMAIN codes : codes[i] \in PlainEncodings(message[i])
      BY <2>3
    <3> HIDE DEF codes, message
    <3>4. ParseString(Append(FlattenSeq(codes), "quote")) = message
      BY <3>2, <3>3, PlainStringIsRead
    <3>5. outcome[1] = message
      BY <3>1, <3>4
    <3> QED BY <3>5 DEF message
  <2> QED BY <2>1, <2>2, <2>3
<1> QED BY <1>1, CallsAreAnswered, PTL

\* The reader takes the documents that are JSON and no others and returns what
\* they stand for (parse), and the writer writes what stands for the value it
\* was given and for no other (dump): documents of any length, values of any
\* depth.
THEOREM DocumentsAreUnderstood == Spec => []DocumentsMeanTheSame
<1>1. CallsInv => DocumentsMeanTheSame
  <2> SUFFICES ASSUME CallsInv
               PROVE  /\ Returned("parse") => outcome[1] = ValuesOf(Strip(input))
                      /\ Returned("dump") => ValuesOf(outcome[1]) = {input}
    BY DEF DocumentsMeanTheSame
  <2>1. ASSUME Returned("parse")
        PROVE  outcome[1] = ValuesOf(Strip(input))
    <3>1. input \in Documents /\ outcome = <<Parse(input)>>
      BY <2>1 DEF CallsInv, Answered, Returned
    <3>2. input \in Seq(STRING)
      BY <3>1, DocumentsAssumption
    <3>3. STRING \subseteq Tokens
      BY DEF Tokens
    <3>4. input \in Seq(Tokens)
      BY <3>2, <3>3, SeqMonotonic
    <3>5. Parse(input) = ValuesOf(Strip(input))
      BY <3>4, DocumentsAreRead
    <3> QED BY <3>1, <3>5
  <2>2. ASSUME Returned("dump")
        PROVE  ValuesOf(outcome[1]) = {input}
    <3>1. input \in Payloads /\ outcome = <<Dump[input]>>
      BY <2>2 DEF CallsInv, Answered, Returned
    <3>2. input \in DOMAIN Dump
      BY <3>1, PayloadsAssumption
    <3>3. ValuesOf(Dump[input]) = {input}
      BY <3>2, DumpMeansTheValue
    <3> QED BY <3>1, <3>3
  <2> QED BY <2>1, <2>2
<1> QED BY <1>1, CallsAreAnswered, PTL
=============================================================================
