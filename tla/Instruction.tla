----------------------------- MODULE Instruction -----------------------------
(***************************************************************************)
(* parse_task_instruction (task_executor.cpp): the task that the answer of *)
(* wa_task describes, at its top level and in the field options.           *)
(*                                                                         *)
(* The aliases of a field are one field here, except where their order     *)
(* against another field matters: file is both an executable and a result  *)
(* file.  "" is a field that is missing, empty or not a scalar.            *)
(***************************************************************************)
EXTENDS PathRules

CONSTANTS
  ResultDirectory   \* the path result_directory of the configuration

ASSUME DirectoryAssumption == ResultDirectory \in AnyPath

(***************************************************************************)
(* One level of the answer is a record of command, program, file, path,    *)
(* args, workdir, numbered, files and wait, where                          *)
(* program:  program or executable, which are looked for before file       *)
(* path:     looked for after file                                         *)
(* numbered: file1, file2, ... up to the first that is missing             *)
(* files:    the one list of result_files or files, {} when there is none  *)
(* wait:     the one number that json_int reads, {} when there is none      *)
(***************************************************************************)
Level ==
  [command : STRING, program : STRING, file : STRING, path : STRING, args : STRING,
   workdir : AnyPath, numbered : SUBSET STRING, files : SUBSET SUBSET STRING,
   wait : SUBSET Int]

\* options: an object (or a text that parses to one), a text, or neither.
Options ==
  [form : {"object"}, obj : Level] \cup [form : {"text"}, text : STRING \ {""}]
    \cup [form : {"none"}]

NoCommand == <<>>
NoTask == [command |-> NoCommand, workdir |-> NoPath, resultFiles |-> {}, wait |-> 5]

\* json_string over several keys: the first that is given.
FirstGiven(values) ==
  IF \E i \in DOMAIN values : values[i] # ""
  THEN values[CHOOSE i \in DOMAIN values :
                values[i] # "" /\ \A j \in 1 .. i - 1 : values[j] = ""]
  ELSE ""

Executable(obj) == FirstGiven(<<obj.program, obj.file, obj.path>>)

\* The command the text of this level gives, after what is there already.
Text(task, obj) ==
  IF task.command # NoCommand THEN task.command
  ELSE IF obj.command # "" THEN <<obj.command>> ELSE NoCommand

UsesExecutable(task, obj) == Text(task, obj) = NoCommand /\ Executable(obj) # ""

\* json_string_list: the keys are alternatives, file the last of them.
ListedFiles(obj, usesExecutable) ==
  IF obj.numbered # {} THEN obj.numbered
  ELSE IF obj.files # {} THEN UNION obj.files
  ELSE IF obj.file # "" /\ ~usesExecutable THEN {obj.file} ELSE {}

\* Mutant: the later list replaces the earlier one.
LaterFiles(target, items) == IF items # {} THEN items ELSE target

AppendUnique(target, items) == target \cup items

\* Mutant: a directory that is there already is kept.
EarlierDirectory(task, obj) ==
  IF task.workdir # NoPath THEN task.workdir
  ELSE IF obj.workdir # NoPath THEN obj.workdir ELSE ResultDirectory

\* The later level wins, the default is only for want of any.
WorkingDirectory(task, obj) ==
  IF obj.workdir # NoPath THEN obj.workdir
  ELSE IF task.workdir = NoPath THEN ResultDirectory ELSE task.workdir

ApplyTaskFields(task, obj) ==
  [command     |-> IF UsesExecutable(task, obj)
                   THEN <<Executable(obj), obj.args>>
                   ELSE Text(task, obj),
   workdir     |-> WorkingDirectory(task, obj),
   resultFiles |-> AppendUnique(task.resultFiles,
                                ListedFiles(obj, UsesExecutable(task, obj))),
   wait        |-> IF obj.wait = {} THEN task.wait ELSE CHOOSE n \in obj.wait : TRUE]

\* Mutant: a text replaces the command.
ApplyTextAlways(task, text) == [task EXCEPT !.command = <<text>>]

ApplyText(task, text) ==
  IF task.command = NoCommand THEN [task EXCEPT !.command = <<text>>] ELSE task

ApplyOptions(task, options) ==
  IF options.form = "object" THEN ApplyTaskFields(task, options.obj)
  ELSE IF options.form = "text" THEN ApplyText(task, options.text)
  ELSE task

ParseTaskInstruction(obj, options) ==
  ApplyOptions(ApplyTaskFields(NoTask, obj), options)
=============================================================================
