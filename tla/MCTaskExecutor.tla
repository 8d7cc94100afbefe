--------------------------- MODULE MCTaskExecutor ---------------------------
(***************************************************************************)
(* Values of the constants of TaskExecutor: two jobs, of one session or of  *)
(* two, so that they run at once or one after the other.                   *)
(***************************************************************************)
EXTENDS TaskExecutor, TLC

Symmetry == Permutations(Jobs)

MCSessions == {"a/b", "a_b", "c"}

\* A slash is among the characters that become an underscore.
SafeName == [s \in MCSessions |-> IF s = "a/b" THEN "a_b" ELSE s]

\* A command that succeeds, and a shell that cannot be started or waited for.
MCExitCodes == {0, -1}

Shell(session, requested, wait, writes) ==
  [session |-> session, kind |-> "shell", requested |-> requested,
   wait |-> wait, writes |-> writes, list |-> FALSE, lingers |-> FALSE]

Other(session, kind, requested, wait) ==
  [Shell(session, requested, wait, {}) EXCEPT !.kind = kind]

\* "echo one; echo two", or "echo one && false && echo two".
List(session) == [Shell(session, {}, 0, {"f"}) EXCEPT !.list = TRUE]

ListInstructions == {List("a_b")}

\* The last line writes a file and prints from the background while it is
\* waited for and later, when its session runs again or another one does.
AllInstructions ==
  {Shell(s, {}, 1, {"f"}) : s \in MCSessions}
    \cup {List("a_b"),
          [Shell("a_b", {"f", "g"}, 2, {"g"}) EXCEPT !.lingers = TRUE],
          Other("a/b", "files", {"f", "../f"}, 1),
          Other("c", "files", {"f", "g"}, 0),
          Other("a/b", "empty", {}, 0),
          Other("c", "outside", {}, 0)}
=============================================================================
