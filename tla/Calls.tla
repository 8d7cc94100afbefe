------------------------------- MODULE Calls -------------------------------
(***************************************************************************)
(* The pure parts of the agent, one call in each behaviour: what comes out *)
(* is compared with a definition that does not follow the code.            *)
(***************************************************************************)
EXTENDS ApiProtocol, ResultCodes, Instruction, Config, TaskOutput, Shell,
  JsonMeaning

CONSTANTS
  Instructions,  \* answers of wa_task that describe a task, with whether the
                 \* directory they name can be created
  PathOf,        \* the path that the name of a file stands for
  ConfigFiles,   \* JSON objects of configuration files
  CommandLines,  \* an executable, its arguments and the directory it runs in
  Outputs,       \* what a command wrote to its two files, and its exit code
  NumberTexts,   \* texts where a number is expected
  Messages,      \* strings that are written
  EncodedStrings, \* strings that are read, with what stands for each character
  Documents,     \* texts where a JSON document is expected
  Payloads       \* JSON values that are written

ASSUME InstructionsAssumption ==
  Instructions \subseteq [top : Level, options : Options, created : BOOLEAN]
ASSUME ConfigFilesAssumption == ConfigFiles \subseteq File
ASSUME CommandLinesAssumption ==
  CommandLines \subseteq
    [program : Seq(STRING), arguments : Seq(Seq(STRING) \ {<<>>}), directory : Seq(STRING)]
ASSUME OutputsAssumption ==
  Outputs \subseteq [stdout : Seq(STRING), stderr : Seq(STRING), code : Int]

ASSUME NumberTextsAssumption == NumberTexts \subseteq Seq(STRING)
ASSUME MessagesAssumption == Messages \subseteq Seq(Characters)
ASSUME EncodedStringsAssumption ==
  /\ EncodedStrings \subseteq [message : Seq(Characters), codes : Seq(AllEncodings)]
  /\ \A string \in EncodedStrings :
       /\ Len(string.codes) = Len(string.message)
       /\ \A i \in DOMAIN string.codes : string.codes[i] \in Encodings(string.message[i])
ASSUME DocumentsAssumption == Documents \subseteq Seq(STRING)
ASSUME PayloadsAssumption == Payloads \subseteq DOMAIN Dump

VARIABLES
  call,      \* the operation
  input,     \* what it is called with
  outcome    \* <<>> before, <<what it returns>> after

vars == <<call, input, outcome>>

RootParts == Absolute(ResultDirectory)

-----------------------------------------------------------------------------
(* The operations. *)

Init ==
  /\ \/ call \in {"fetch_task", "send_result"} /\ input \in Reply
     \/ call = "finish" /\ input \in ({"status"} \X WaitStatus) \cup ({"agent"} \X AgentCode)
     \/ call = "resolve" /\ input \in Instructions
     \/ call = "load_config" /\ input \in [file : ConfigFiles, env : Environment]
     \/ call = "command_line" /\ input \in CommandLines
     \/ call = "message" /\ input \in Outputs
     \/ call = "parse_number" /\ input \in NumberTexts
     \/ call = "dump_string" /\ input \in Messages
     \/ call = "parse_string" /\ input \in EncodedStrings
     \/ call = "parse" /\ input \in Documents
     \/ call = "dump" /\ input \in Payloads
  /\ outcome = <<>>

Called(operation) == call = operation /\ outcome = <<>> /\ UNCHANGED <<call, input>>

ReadTask == Called("fetch_task") /\ outcome' = <<FetchTask(input)>>

ReadDelivery == Called("send_result") /\ outcome' = <<SendResult(input)>>

\* result_code of the ExecutionResult, and the field of wa_result.
Finish ==
  /\ Called("finish")
  /\ LET code == IF input[1] = "status" THEN NormalizeExitCode(input[2]) ELSE input[2]
     IN  outcome' = <<[result |-> code, field |-> ApiResultCode(code)]>>

Resolve ==
  /\ Called("resolve")
  /\ LET task == ParseTaskInstruction(input.top, input.options)
     IN  outcome' =
           <<[task      |-> task,
              where     |-> ResolveWorkingDirectory(task.workdir, RootParts, input.created),
              collected |-> SafeFiles({PathOf[name] : name \in task.resultFiles}, RootParts)]>>

Configure ==
  /\ Called("load_config")
  /\ outcome' = IF IsAccepted(input.file)
                THEN <<TRUE, LoadConfig(input.file, input.env)>> ELSE <<FALSE>>

BuildCommand ==
  /\ Called("command_line")
  /\ LET inner == InnerCommand(input.directory,
                               ExecutableCommand(input.program, JsonArguments(input.arguments)),
                               <<"o">>, <<"e">>)
     IN  outcome' = <<inner, ShellCommand(inner)>>

ReadOutput ==
  Called("message") /\ outcome' = <<Message(input.stdout, input.stderr, input.code)>>

ReadNumber == Called("parse_number") /\ outcome' = <<NumberEnd(input)>>

WriteString == Called("dump_string") /\ outcome' = <<EscapeJson(input)>>

ReadString ==
  /\ Called("parse_string")
  /\ outcome' = <<ParseString(Append(FlattenSeq(input.codes), "quote"))>>

ReadJson == Called("parse") /\ outcome' = <<Parse(input)>>

WriteJson == Called("dump") /\ outcome' = <<Dump[input]>>

Next ==
  \/ ReadTask \/ ReadDelivery \/ Finish \/ Resolve \/ Configure \/ BuildCommand
  \/ ReadOutput \/ ReadNumber \/ WriteString \/ ReadString \/ ReadJson \/ WriteJson

Spec == Init /\ [][Next]_vars

Returned(operation) == call = operation /\ outcome # <<>>

-----------------------------------------------------------------------------
(* The answers of the server. *)

\* An HTTP error, an answer that is no object, an error code, a WAIT, or an
\* answer without a session or without a task code never starts a task
\* (fetch_task with parse_task_instruction).  The code asks no more of status:
\* technical_spec.md has a task run at RUN only, and an answer with no error
\* code, both identity fields and the status ERROR, or none, starts one too.
StartsOnlyFromInstruction ==
  Returned("fetch_task") /\ outcome[1] = "task" =>
    /\ input.http = 200 /\ input.body = "object"
    /\ input.status # "WAIT"
    /\ input.code \notin NegativeCodes
    /\ input.session \in Sessions /\ input.task_code # ""

\* An error answer (docs/api.md: a negative code with a message) that neither
\* says WAIT nor reads like "no task" is a polling error, so that main backs
\* off; it is never mistaken for an idle server or for a task.
ErrorAnswerBacksOff ==
  /\ Returned("fetch_task") /\ outcome[1] # "throws"
  /\ input.code \in NegativeCodes \ {"-11"}
  => input.status = "WAIT" \/ input.msg = "net"

\* A result that the server refused, by HTTP status or by an error code in a
\* 2xx answer (docs/api.md: code -3, files not uploaded), is never taken for
\* delivered (send_result).
RefusedIsNotDelivered ==
  Returned("send_result") /\ outcome[1] =>
    input.http = 200 /\ (input.body = "object" => input.code \notin {"-2", "-3", "-11"})

\* docs/technical_spec.md: at RUN the agent parses the task and runs it.  The
\* answer is the documented one (docs/api.md): 2xx, code 1, status RUN, a task
\* code and a session id; only the msg field is free.
DocumentedRunIsTaken ==
  /\ Returned("fetch_task") /\ outcome[1] # "task"
  /\ input.http = 200 /\ input.body = "object"
  /\ input.code = "1" /\ input.status = "RUN"
  => input.session = "" \/ input.task_code = ""

\* docs/api.md: result_code is 0 if the task was carried out and negative if
\* an error occurred.  Only a command that exited with 0 is carried out: a
\* killed command, one that could not be started and every error of the agent
\* itself are errors.
FieldTellsSuccess ==
  Returned("finish") =>
    /\ outcome[1].field = 0 <=> input = <<"status", 0>>
    /\ outcome[1].field # 0 => outcome[1].field < 0

\* The death by a signal is told from a success, from an exit status up to 128
\* and from a failure to start the command, and so is an exit from such a
\* failure (normalize_exit_code).  The statuses above 128 are not told from
\* signals: an exit with 137 and SIGKILL have one code.
ResultKeepsCause ==
  Returned("finish") /\ input[1] = "status" =>
    /\ input[2] # -1 => outcome[1].result >= 0
    /\ input[2] % 128 \in 1 .. 126 => outcome[1].result > 128
    /\ input[2] = -1 => outcome[1].result = -1

-----------------------------------------------------------------------------
(* Instructions, their directories and their files. *)

Resolved == Returned("resolve") /\ outcome[1].where # <<"refused">>

\* technical_spec.md: the working directory of a task is confined to the
\* subdirectories of result_directory, and files are sent only from there;
\* neither "..", an absolute path nor a link leads a command or a file that is
\* collected out of it (resolve_working_directory, is_safe_result_file).  That
\* is where the cd of the command line and the opening of the file lead, which
\* happen after the check and are given a path, not a location.
PathsStayInside ==
  LET Inside(parts) == IsPrefix(Canonical(RootParts), Canonical(parts))
  IN  /\ Resolved => Inside(outcome[1].where)
      /\ Returned("resolve") =>
           \A path \in outcome[1].collected : Inside(RootParts \o path.parts)

\* The command is the first that is given of the top level's command, its
\* executable with its arguments, and then the options' text or the same two
\* of the options' object; without any of these there is none.  So nothing is
\* lost or run that was not given, and an executable never takes its arguments
\* from the other level (apply_task_fields, apply_options_field).
GivenCommandIsRun ==
  Returned("resolve") =>
    LET Given(obj) == IF obj.command # "" THEN <<obj.command>>
                      ELSE IF Executable(obj) # "" THEN <<Executable(obj), obj.args>>
                      ELSE NoCommand
        options == input.options
        second == IF options.form = "object" THEN Given(options.obj)
                  ELSE IF options.form = "text" THEN <<options.text>> ELSE NoCommand
    IN  outcome[1].task.command =
          IF Given(input.top) # NoCommand THEN Given(input.top) ELSE second

\* docs/options.md: a working directory in the options is the one the command
\* runs in, although the top level has put the default in its place before.
GivenWorkdirIsUsed ==
  Returned("resolve") /\ input.options.form = "object"
    /\ input.options.obj.workdir # NoPath
  => outcome[1].task.workdir = input.options.obj.workdir

\* technical_spec.md: if the server names result files, the agent looks for
\* those, whether the top level or the options name them: the list of the
\* options is added to the one of the top level.  At either, file1, file2, ...
\* go before a list.
NamedFilesAreAwaited ==
  Returned("resolve") =>
    LET awaited == outcome[1].task.resultFiles
        Named(obj) == obj.numbered \cup (IF obj.numbered = {} THEN UNION obj.files ELSE {})
    IN  /\ Named(input.top) \subseteq awaited
        /\ input.options.form = "object" => Named(input.options.obj) \subseteq awaited

\* docs/options.md: "echo ok>generated.txt" with the result file generated.txt
\* and no working directory.  Such a command runs in result_directory, where
\* its files are looked for.
WritesWhereItLooks ==
  /\ Resolved /\ input.top.workdir = NoPath
  /\ input.options.form = "object" => input.options.obj.workdir = NoPath
  => outcome[1].where = Canonical(RootParts)

-----------------------------------------------------------------------------
(* The configuration. *)

\* Whatever numbers, fields of an older name and values of a wrong type a
\* configuration file holds, the polling loop gets what Agent.tla assumes: an
\* interval of at least a second that the back-off limit does not cut, and
\* room for a task (load_config).
ConfigFitsAgent ==
  Returned("load_config") /\ outcome[1] => FitsAgent(outcome[2])

-----------------------------------------------------------------------------
(* The command line and the output of a command. *)

\* The shell of std::system hands the login shell its script unchanged, and
\* that one splits it into the words the server named, whatever quotes,
\* blanks, backslashes and operators are in the executable, an argument that
\* is not empty, or the name of a directory (shell_escape, applied twice).
ArgumentsArriveIntact ==
  Returned("command_line") =>
    /\ ShellWords(outcome[2]) = <<<<"/bin/sh">>, <<"-lc">>, outcome[1]>>
    /\ ShellWords(outcome[1]) =
         <<<<"cd">>, input.directory, <<"operator", "&&">>, input.program>>
           \o input.arguments
           \o <<<<"operator", ">">>, <<"o">>, <<"operator", "2>">>, <<"e">>>>

\* What a command wrote arrives whole or, where it fills the buffer, as far as
\* it goes and marked as cut; the errors come after a header that is on a line
\* of its own, so that they are told from the output (read_text_file,
\* join_output).
OutputIsWholeOrMarked ==
  Returned("message") =>
    LET message == outcome[1]
        Shown(text) == IF Len(text) <= MaxCaptured THEN text ELSE SubSeq(text, 1, MaxCaptured)
        Marks == {i \in DOMAIN message : message[i] = Truncated}
        Long == {text \in {input.stdout, input.stderr} : Len(text) > MaxCaptured}
    IN  /\ IsPrefix(Shown(input.stdout), message)
        /\ input.stderr # <<>> =>
             \E i \in DOMAIN message :
               /\ message[i] = StderrHeader
               /\ i = 1 \/ message[i - 1] = NewLine
               /\ IsPrefix(<<NewLine>> \o Shown(input.stderr),
                           SubSeq(message, i + 1, Len(message)))
        /\ Long # {} => Marks # {}

-----------------------------------------------------------------------------
(* JSON. *)

\* The reader takes the texts that are JSON and no others, nothing left over,
\* and returns what they stand for, white space between tokens or not (parse);
\* and what the writer writes stands for the value it was given and for no
\* other (dump).
DocumentsMeanTheSame ==
  /\ Returned("parse") => outcome[1] = ValuesOf(Strip(input))
  /\ Returned("dump") => ValuesOf(outcome[1]) = {input}

\* What one program writes within a string or a number, the other reads.  The
\* server reads the one message the agent has written, whatever a command put
\* into it: quotes, backslashes and control characters are escaped
\* (escape_json).  A string of the server's that has no codes is read as it is
\* (parse_string), and a number to its end (parse_number: more lenient than
\* JSON only in leading zeros and in an exponent with two signs).
TextsMeanTheSame ==
  /\ Returned("parse_number") /\ IsNumber(input) => outcome[1] = Len(input) + 1
  /\ Returned("dump_string") => MessagesOf(outcome[1]) = {input}
  /\ Returned("parse_string")
       /\ (\A i \in DOMAIN input.codes : input.codes[i] \in PlainEncodings(input.message[i]))
     => outcome[1] = input.message

\* tests/test_environment.cpp: the text "\u041e\u043a" is read as the two
\* letters it stands for.
ReadsEveryEscape == Returned("parse_string") => outcome[1] = input.message
=============================================================================
