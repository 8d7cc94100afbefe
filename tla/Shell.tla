------------------------------- MODULE Shell -------------------------------
(***************************************************************************)
(* How /bin/sh splits a line into words: what execute_task relies on when  *)
(* it hands a command line to std::system, stated without following the    *)
(* code that builds the line.  Characters are those of CommandLine; a word *)
(* of the shell's own (&&, a redirection) is one character.                *)
(***************************************************************************)
EXTENDS CommandLine

Operators == {"&&", ">", "2>"}

\* The words so far, the word that is being read, if one is open, and whether
\* the next character stands within quotes or after a backslash.
Lexed == [words |-> <<>>, word |-> <<>>, open |-> FALSE, quoted |-> FALSE, escaped |-> FALSE]

Put(lex, ch) == [lex EXCEPT !.word = Append(lex.word, ch), !.open = TRUE, !.escaped = FALSE]

Cut(lex) ==
  IF lex.open
  THEN [lex EXCEPT !.words = Append(lex.words, lex.word), !.word = <<>>, !.open = FALSE]
  ELSE lex

\* An operator that is not quoted is a word apart, a blank ends a word, and a
\* quote begins one, which may stay empty.
Lex(lex, ch) ==
  IF lex.escaped THEN Put(lex, ch)
  ELSE IF ch = Quote THEN [lex EXCEPT !.quoted = ~lex.quoted, !.open = TRUE]
  ELSE IF lex.quoted THEN Put(lex, ch)
  ELSE IF ch = Backslash THEN [lex EXCEPT !.escaped = TRUE]
  ELSE IF ch = Blank THEN Cut(lex)
  ELSE IF ch \in Operators
    THEN [Cut(lex) EXCEPT !.words = Append(Cut(lex).words, <<"operator", ch>>)]
  ELSE Put(lex, ch)

\* Where a line leads from a state.
LexLine(lex, line) ==
  LET state[i \in 0 .. Len(line)] == IF i = 0 THEN lex ELSE Lex(state[i - 1], line[i])
  IN  state[Len(line)]

ShellWords(line) == Cut(LexLine(Lexed, line)).words
=============================================================================
