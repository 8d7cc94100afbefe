---------------------------- MODULE ResultCodes ----------------------------
(***************************************************************************)
(* From the status std::system returns to the result_code field of         *)
(* wa_result: normalize_exit_code (task_executor.cpp, POSIX branch) and    *)
(* api_result_code in send_result (api_client.cpp).                        *)
(***************************************************************************)
EXTENDS Integers

\* The low seven bits of a wait status name the signal, 0 for a normal exit
\* and 127 for a stopped process; -1 (no child could be started) has them set.
WIFEXITED(status) == status % 128 = 0
WEXITSTATUS(status) == (status \div 256) % 256
WIFSIGNALED(status) == status % 128 \notin {0, 127}
WTERMSIG(status) == status % 128

\* Mutant: a signal is taken for its exit status, which is 0.
NormalizeExitCodeUnsignaled(status) ==
  IF status = -1 THEN status ELSE WEXITSTATUS(status)

NormalizeExitCode(status) ==
  IF WIFEXITED(status) THEN WEXITSTATUS(status)
  ELSE IF WIFSIGNALED(status) THEN 128 + WTERMSIG(status)
  ELSE status

Abs(n) == IF n < 0 THEN -n ELSE n

\* Mutant: codes of the agent, negative already, change their sign.
ApiResultCodeNegated(code) == -code

ApiResultCode(code) == IF code = 0 THEN 0 ELSE -Abs(code)

\* What std::system can return: an exit, a signal with or without a core
\* dump, or no child at all.
WaitStatus ==
  {256 * code : code \in 0 .. 255}
    \cup {signal + core : signal \in 1 .. 126, core \in {0, 128}}
    \cup {-1}

\* The codes execute_task gives itself, and the one of main's handler.
AgentCode == {-1, -2, -4, -5}
=============================================================================
