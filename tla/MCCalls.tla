------------------------------- MODULE MCCalls -------------------------------
(***************************************************************************)
(* The inputs of Calls for TLC: all of a small size.                       *)
(***************************************************************************)
EXTENDS Calls, TLC

SeqUpTo(S, n) == UNION {[1 .. k -> S] : k \in 0 .. n}

-----------------------------------------------------------------------------
(* A small file system with two links in the result directory: to a        *)
(* directory and to a file outside of it.                                  *)

Relative(parts) == [absolute |-> FALSE, parts |-> parts]
Rooted(parts) == [absolute |-> TRUE, parts |-> parts]

Root == <<"srv", "results">>
MCCwd == <<"srv">>
AbsoluteDirectory == Rooted(Root)
RelativeDirectory == Relative(<<".", "results">>)
MCLinks ==
  (Append(Root, "out") :> <<"home">>) @@ (Append(Root, "ln") :> <<"home", "a">>)
MCRegularFiles ==
  {Append(Root, "a"), Append(Root, "job") \o <<"a">>, <<"home", "a">>, <<"srv", "a">>}

Workdirs ==
  {NoPath, Relative(<<"job">>), Relative(<<"job", "..", "..", "x">>),
   Relative(<<"out">>), Rooted(<<"home">>), Rooted(Append(Root, "job"))}

\* The names of files, and the paths they are.
MCPathOf ==
  ("a" :> Relative(<<"a">>)) @@ ("job/a" :> Relative(<<"job", "a">>))
    @@ ("out/a" :> Relative(<<"out", "a">>)) @@ ("ln" :> Relative(<<"ln">>))
    @@ ("../a" :> Relative(<<"..", "a">>)) @@ ("/home/a" :> Rooted(<<"home", "a">>))

\* The answers of wa_task.
Levels(commands, workdirs, numbered, files) ==
  [command : commands, program : {"", "tool"}, file : {"", "a"}, path : {""},
   args : {"-v"}, workdir : workdirs, numbered : numbered, files : files,
   wait : {{}, {-1}}]

TopLevels ==
  Levels({"", "echo"}, {NoPath, Relative(<<"job">>), Relative(<<"out">>)},
        {{}, {"job/a"}}, {{}, {{}}, {{"a", "ln"}}})

MCOptions ==
  [form : {"object"},
   obj  : Levels({"", "ls"}, Workdirs, {{}, {"ln"}}, {{}, {{"job/a", "out/a", "../a", "/home/a"}}})]
    \cup {[form |-> "text", text |-> "date"], [form |-> "none"]}

MCInstructions == [top : TopLevels, options : MCOptions, created : BOOLEAN]

-----------------------------------------------------------------------------
(* Configuration files: the fields of one concern vary, the others are     *)
(* those of a file that is accepted.                                       *)

MCNames == {"", "n", "m"}
MCNumbers == {-1, 0, 2, 100}
PlainFile ==
  [uid |-> {"n"}, server_url |-> {[scheme |-> "https", host |-> "n", port |-> 0]},
   protocol |-> {}, server |-> {}, port |-> {}, access_code |-> {},
   access_code_env |-> {}, poll_interval_sec |-> {}, interval |-> {},
   request_timeout_sec |-> {}, max_parallel_tasks |-> {}, backoff_max_sec |-> {},
   register_on_startup |-> {}, allow_insecure_http |-> {}]

NumberFiles ==
  {[PlainFile EXCEPT !.poll_interval_sec = poll, !.interval = interval,
                     !.backoff_max_sec = backoff, !.max_parallel_tasks = parallel,
                     !.request_timeout_sec = timeout] :
     poll \in Maybe(MCNumbers), interval \in Maybe(MCNumbers),
     backoff \in Maybe(MCNumbers), parallel \in Maybe(MCNumbers),
     timeout \in Maybe({0, 2})}

UrlFiles ==
  {[PlainFile EXCEPT !.server_url = url, !.protocol = protocol, !.server = server,
                     !.port = port, !.allow_insecure_http = allow] :
     url \in Maybe({NoUrl} \cup [scheme : Schemes, host : {"n"}, port : {0}]),
     protocol \in Maybe(Schemes), server \in Maybe(Names), port \in Maybe({0, 2}),
     allow \in Maybe(BOOLEAN)}

CodeFiles ==
  {[PlainFile EXCEPT !.uid = uid, !.access_code = code, !.access_code_env = env] :
     uid \in Maybe({"", "n"}), code \in Maybe(Names), env \in Maybe(EnvNames \cup {""})}

MCConfigFiles == NumberFiles \cup UrlFiles \cup CodeFiles

-----------------------------------------------------------------------------
(* JSON texts: all short ones, and documents with one token changed.       *)

Tokens == {"{", "}", "[", "]", ",", ":", Scalar} \cup StringTokens

Examples ==
  {<<"{", "x", ":", "[", "x", ",", "true", "]", "}">>,
   <<"{", "x", ":", "true", ",", "x", ":", "y", "}">>,
   <<"[", "{", "}", ",", "[", "]", "]">>,
   <<" ", "{", " ", "y", " ", ":", " ", "{", " ", "}", " ", "}", " ">>,
   <<"[", " ", "]", " ">>, <<" ", "[", " ", "x", " ", ",", " ", "y", " ", "]">>}

\* A text with the token at a place replaced by others.
Edited(text, i, tokens) == SubSeq(text, 1, i - 1) \o tokens \o SubSeq(text, i + 1, Len(text))

EditedExamples ==
  {Edited(text, i, tokens) :
     <<text, i, tokens>> \in
       {<<t, j, ts>> \in Examples \X (1 .. 13) \X SeqUpTo(Tokens \cup {Space}, 2) :
          j <= Len(t)}}

MCKeyOrder == <<"x", "y">>
MCDocuments == SeqUpTo(Tokens, 5) \cup EditedExamples

\* Values of one level more than those of a set.
Nested(values) ==
  values
    \cup {<<"array", items>> : items \in SeqUpTo(values, 2)}
    \cup {<<"object", members>> : members \in [StringTokens -> values \cup {None}]}
MCPayloads == Nested(Nested(Plain))

MCNumberTexts == SeqUpTo({"0", "1", "-", "+", ".", "e"}, 5)
MCMessages == SeqUpTo(Characters, 3)
MCEncodedStrings ==
  UNION {[message : {<<a, b>>}, codes : Encodings(a) \X Encodings(b)] : a, b \in Characters}

\* Executables, arguments and directories of a command line.
Texts == SeqUpTo({"a", Quote, Backslash, Blank, "&&"}, 2) \ {<<>>}
Directories == {<<"a", Blank>>, <<Quote>>}
MCCommandLines ==
  [program : Texts, arguments : SeqUpTo(Texts, 1), directory : Directories]
    \cup [program : {<<Quote>>}, arguments : [1 .. 2 -> Texts], directory : {<<Quote>>}]

\* What a command writes: up to one character more than the buffer holds.
Printed == SeqUpTo({"a", NewLine}, MaxCaptured + 1)
MCOutputs == [stdout : Printed, stderr : Printed, code : {0, 1}]
=============================================================================
