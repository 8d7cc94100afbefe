-------------------------------- MODULE Json --------------------------------
(***************************************************************************)
(* The JSON reader and writer (json.cpp).  The agent reads every answer of *)
(* the server and its configuration with them, and writes every request.   *)
(*                                                                         *)
(* A text is a sequence of tokens: the punctuation, a scalar that is no    *)
(* string, the strings, and a run of white space.  Values are tagged, so   *)
(* that any two can be compared.  What is within a string or a number is   *)
(* in JsonText.                                                            *)
(***************************************************************************)
EXTENDS Integers, Sequences, SequencesExt

CONSTANTS
  KeyOrder, \* the strings in a document, in the order of std::map
  Depth     \* values are written that have containers within one another so deep

Space == " "
Scalar == "true"
StringTokens == {KeyOrder[i] : i \in DOMAIN KeyOrder}

ASSUME KeyOrderAssumption ==
  /\ KeyOrder \in Seq(STRING)
  /\ \A i, j \in DOMAIN KeyOrder : KeyOrder[i] = KeyOrder[j] => i = j
  /\ StringTokens \cap {"{", "}", "[", "]", ",", ":", Space, Scalar} = {}
ASSUME DepthAssumption == Depth \in Nat

EmptyArray == <<"array", <<>>>>
\* A std::map of values: None for a key that is not there.
None == <<>>
EmptyObject == <<"object", [key \in StringTokens |-> None]>>

-----------------------------------------------------------------------------
(* The reader, token by token: where it stands, the calls of parse_array   *)
(* and parse_object that are under way, each with its result so far and    *)
(* the key it has read last, and what parse_value has returned to parse.   *)

Call(result, key) == [result |-> result, key |-> key]
Parser(at, calls, value) == [at |-> at, calls |-> calls, value |-> value]

Throws == Parser("throws", <<>>, <<>>)

\* std::map::emplace: a key that is there keeps its value.
Emplace(members, key, value) ==
  [members EXCEPT ![key] = IF @ = None THEN value ELSE @]

IsArray(call) == call.result[1] = "array"

Extend(call, value) ==
  IF IsArray(call) THEN Call(<<"array", Append(call.result[2], value)>>, call.key)
  ELSE Call(<<"object", Emplace(call.result[2], call.key, value)>>, call.key)

\* parse_value returns to the innermost call, or to parse.
Return(calls, value) ==
  IF calls = <<>> THEN Parser("end", <<>>, value)
  ELSE Parser("next", Append(Front(calls), Extend(Last(calls), value)), <<>>)

\* The innermost call returns.
Close(calls) == Return(Front(calls), Last(calls).result)
Closing(call) == IF IsArray(call) THEN "]" ELSE "}"

ReadValue(calls, token) ==
  CASE token \in StringTokens -> Return(calls, <<"string", token>>)
    [] token = Scalar -> Return(calls, <<Scalar>>)
    [] token = "[" -> Parser("first", Append(calls, Call(EmptyArray, "")), <<>>)
    [] token = "{" -> Parser("first", Append(calls, Call(EmptyObject, "")), <<>>)
    [] OTHER -> Throws

ReadKey(calls, token) ==
  IF token \in StringTokens
  THEN Parser("colon", Append(Front(calls), Call(Last(calls).result, token)), <<>>)
  ELSE Throws

\* After the opening bracket.
ReadFirst(calls, token) ==
  IF token = Closing(Last(calls)) THEN Close(calls)
  ELSE IF IsArray(Last(calls)) THEN ReadValue(calls, token) ELSE ReadKey(calls, token)

\* Mutant: a container may end after a comma.
AfterCommaFirst(call) == "first"

AfterComma(call) == IF IsArray(call) THEN "value" ELSE "key"

\* After an element or a member.
ReadNext(calls, token) ==
  IF token = Closing(Last(calls)) THEN Close(calls)
  ELSE IF token = "," THEN Parser(AfterComma(Last(calls)), calls, <<>>) ELSE Throws

\* White space is skipped everywhere; after the value nothing else may follow.
ReadToken(reading, token) ==
  LET calls == reading.calls
  IN  IF token = Space THEN reading
      ELSE CASE reading.at = "value" -> ReadValue(calls, token)
             [] reading.at = "first" -> ReadFirst(calls, token)
             [] reading.at = "key" -> ReadKey(calls, token)
             [] reading.at = "colon" ->
                  IF token = ":" THEN Parser("value", calls, <<>>) ELSE Throws
             [] reading.at = "next" -> ReadNext(calls, token)
             [] OTHER -> Throws

ReadTokens(text) ==
  LET reading[i \in 0 .. Len(text)] ==
        IF i = 0 THEN Parser("value", <<>>, <<>>) ELSE ReadToken(reading[i - 1], text[i])
  IN  reading[Len(text)]

\* Parser::parse returns a value, or none when it throws.
Parse(text) == IF ReadTokens(text).at = "end" THEN {ReadTokens(text).value} ELSE {}

-----------------------------------------------------------------------------
(* dump: the tokens of a value, without white space. *)

Plain == {<<Scalar>>} \cup ({"string"} \X StringTokens)
Containers(values) ==
  ({"array"} \X Seq(values))
    \cup ({"object"} \X [StringTokens -> values \cup {None}])

\* A comma goes before each text but the first.
Listed(texts) == LET all == FlattenSeq(texts) IN SubSeq(all, 2, Len(all))

\* What dump writes for a value, and it calls itself for those within.
Written(value, inner) ==
  CASE value[1] = "string" -> <<value[2]>>
    [] value[1] = "array" ->
         <<"[">> \o Listed([i \in DOMAIN value[2] |-> <<",">> \o inner[value[2][i]]]) \o <<"]">>
    [] value[1] = "object" ->
         LET members == value[2]
         IN  <<"{">>
               \o Listed([i \in DOMAIN KeyOrder |->
                            IF members[KeyOrder[i]] = None THEN <<>>
                            ELSE <<",", KeyOrder[i], ":">> \o inner[members[KeyOrder[i]]]])
               \o <<"}">>
    [] OTHER -> <<Scalar>>

\* The texts of all values that are not deeper than Depth.
Dump ==
  LET dump[depth \in 0 .. Depth] ==
        LET inner == IF depth = 0 THEN [value \in {} |-> <<>>] ELSE dump[depth - 1]
        IN  [value \in Plain \cup Containers(DOMAIN inner) |-> Written(value, inner)]
  IN  dump[Depth]
=============================================================================
