----------------------------- MODULE CommandLine -----------------------------
(***************************************************************************)
(* The command line that execute_task (task_executor.cpp, POSIX branch)    *)
(* builds for std::system from an executable, a list of arguments and the  *)
(* directories.  A text is a sequence of characters; a word that the code  *)
(* writes itself (cd, &&, a redirection) is one character of it.           *)
(***************************************************************************)
EXTENDS Integers, Sequences, SequencesExt

Quote == "'"
Backslash == "\\"
Blank == " "

\* Mutant: a quote is escaped inside the quotes.
EscapeInside(ch) == IF ch = Quote THEN <<Backslash, Quote>> ELSE <<ch>>

\* One character of shell_escape: a quote closes, stands escaped and opens again.
EscapeOf(ch) == IF ch = Quote THEN <<Quote, Backslash, Quote, Quote>> ELSE <<ch>>

ShellEscape(value) ==
  <<Quote>> \o FlattenSeq([i \in DOMAIN value |-> EscapeOf(value[i])]) \o <<Quote>>

\* json_arguments over a list: an entry that is empty, or no scalar, is skipped,
\* and a blank goes before each but the first that is not.
JsonArguments(entries) ==
  LET joined[i \in 0 .. Len(entries)] ==
        IF i = 0 THEN <<>>
        ELSE IF entries[i] = <<>> THEN joined[i - 1]
        ELSE joined[i - 1] \o (IF joined[i - 1] # <<>> THEN <<Blank>> ELSE <<>>)
               \o ShellEscape(entries[i])
  IN  joined[Len(entries)]

\* apply_task_fields: the command of an executable and its arguments.
ExecutableCommand(executable, arguments) ==
  ShellEscape(executable)
    \o (IF arguments # <<>> THEN <<Blank>> \o arguments ELSE <<>>)

Cd(directory) == <<"cd", Blank>> \o ShellEscape(directory) \o <<Blank, "&&", Blank>>

\* What the login shell is given to run.
InnerCommand(directory, command, stdout, stderr) ==
  Cd(directory) \o command
    \o <<Blank, ">", Blank>> \o ShellEscape(stdout)
    \o <<Blank, "2>", Blank>> \o ShellEscape(stderr)

\* What the shell of std::system is given to run.
ShellCommand(inner) == <<"/bin/sh", Blank, "-lc", Blank>> \o ShellEscape(inner)
=============================================================================
