------------------------------ MODULE PathRules ------------------------------
(***************************************************************************)
(* The path rules of task_executor.cpp: in which directory a command runs  *)
(* and which files may be sent.  A path is a record: whether it is         *)
(* absolute, and its parts.  A location is the sequence of parts below the *)
(* root of the file system.                                                *)
(***************************************************************************)
EXTENDS Integers, SequencesExt

CONSTANTS
  Links,         \* symbolic links: their location |-> the location they lead to
  RegularFiles,  \* locations of regular files
  Cwd            \* location of the agent's current directory

Location == Seq(STRING)
AnyPath == [absolute : BOOLEAN, parts : Location]
NoPath == [absolute |-> FALSE, parts |-> <<>>]

\* No part of a location is a step, and no place on the way to it is a link.
IsResolved(at) ==
  /\ at \in Location
  /\ \A i \in DOMAIN at : at[i] \notin {".", ".."} /\ SubSeq(at, 1, i) \notin DOMAIN Links

ASSUME LinksAssumption == \A link \in DOMAIN Links : IsResolved(Links[link])
ASSUME CwdAssumption == Cwd \in Location

\* fs::absolute keeps "." and "..".
Absolute(path) == IF path.absolute THEN path.parts ELSE Cwd \o path.parts

Enter(at, part) ==
  CASE part = "."  -> at
    [] part = ".." -> IF at = <<>> THEN at ELSE Front(at)
    [] OTHER       -> LET next == Append(at, part)
                      IN IF next \in DOMAIN Links THEN Links[next] ELSE next

\* fs::weakly_canonical
Canonical(parts) ==
  LET at[i \in 0 .. Len(parts)] == IF i = 0 THEN <<>> ELSE Enter(at[i - 1], parts[i])
  IN  at[Len(parts)]

IsSafeRelativePath(path) ==
  /\ path # NoPath
  /\ ~path.absolute
  /\ \A i \in DOMAIN path.parts : path.parts[i] \notin {".", ".."}

\* Mutant: the text of the path is looked at, not where it leads.
IsWithinRootByText(parts, root) == IsPrefix(root, parts)

\* is_within_root with path_has_prefix
IsWithinRoot(parts, root) == IsPrefix(Canonical(root), Canonical(parts))

\* symlink_status looks at the last part itself, not where it leads.
IsRegular(parts) ==
  LET at == Append(Canonical(Front(parts)), Last(parts))
  IN at \in RegularFiles /\ at \notin DOMAIN Links

IsSafeResultFile(parts, root) == IsRegular(parts) /\ IsWithinRoot(parts, root)

\* Of a list of files: collect_generated_files takes the safe ones.
SafeFiles(paths, root) ==
  {path \in paths : IsSafeRelativePath(path) /\ IsSafeResultFile(root \o path.parts, root)}

Candidate(path, root) ==
  IF path = NoPath THEN root ELSE IF path.absolute THEN path.parts ELSE root \o path.parts

\* resolve_working_directory: the location, or "refused".  The directory is
\* created before it is checked; that it cannot be created is a refusal too.
ResolveWorkingDirectory(path, root, created) ==
  IF created /\ IsWithinRoot(Candidate(path, root), root)
  THEN Canonical(Candidate(path, root))
  ELSE <<"refused">>
=============================================================================
