----------------------------- MODULE JsonMeaning -----------------------------
(***************************************************************************)
(* What a document, a string and a number of JSON mean to another program, *)
(* stated without following json.cpp: the server's side of what the agent  *)
(* writes and reads.                                                       *)
(***************************************************************************)
EXTENDS JsonText, Json

\* A number of JSON: an integer without a leading zero up to a place, a
\* fraction up to another, an exponent up to the end.
IsDigits(text, i, j) == i <= j /\ \A k \in i .. j : Peek(text, k) \in Digits

IsNumber(text) ==
  \E whole, fraction \in DOMAIN text :
    LET first == IF text[1] = "-" THEN 2 ELSE 1
    IN  /\ IsDigits(text, first, whole)
        /\ text[first] = "0" => whole = first
        /\ \/ fraction = whole
           \/ Peek(text, whole + 1) = "." /\ IsDigits(text, whole + 2, fraction)
        /\ \/ Len(text) = fraction
           \/ /\ Peek(text, fraction + 1) = "e"
              /\ \/ IsDigits(text, fraction + 2, Len(text))
                 \/ /\ Peek(text, fraction + 2) \in {"+", "-"}
                    /\ IsDigits(text, fraction + 3, Len(text))

\* The ways another program may write a character within a JSON string, first
\* those without a code.
PlainEncodings(ch) ==
  {<<"backslash", esc>> : esc \in {e \in DOMAIN Short : Short[e] = ch}}
    \cup (IF ch \in {"quote", "backslash", "/"} THEN {<<"backslash", ch>>} ELSE {})
    \cup (IF ch \in {"quote", "backslash"} \cup Controls THEN {} ELSE {<<ch>>})

Encodings(ch) ==
  PlainEncodings(ch)
    \cup {<<"backslash", "u", hex>> : hex \in {h \in DOMAIN Hex : Hex[h] = ch}}

AllEncodings == UNION {Encodings(ch) : ch \in Characters}

\* What another program makes of a string: all the messages it may have read
\* so far, each with the code that it is in the middle of.
Begun(pending) ==
  \E code \in AllEncodings : Len(pending) < Len(code) /\ IsPrefix(pending, code)

Continued(readings, symbol) ==
  {[message |-> r.message, pending |-> Append(r.pending, symbol)] :
     r \in {r \in readings : Begun(Append(r.pending, symbol))}}
    \cup UNION {{[message |-> Append(r.message, ch), pending |-> <<>>] :
                   r \in {r \in readings : Append(r.pending, symbol) \in Encodings(ch)}} :
                 ch \in Characters}

Readings(text) ==
  LET readings[i \in 0 .. Len(text)] ==
        IF i = 0 THEN {[message |-> <<>>, pending |-> <<>>]}
        ELSE Continued(readings[i - 1], text[i])
  IN  readings[Len(text)]

MessagesOf(text) == {r.message : r \in {r \in Readings(text) : r.pending = <<>>}}

-----------------------------------------------------------------------------
(* Documents, from the bottom up: which parts of a text are a value, and   *)
(* which are a container but for the closing bracket.                      *)

Strip(text) ==
  FlattenSeq([i \in DOMAIN text |-> IF text[i] = Space THEN <<>> ELSE <<text[i]>>])

Part(from, to, value) == [from |-> from, to |-> to, value |-> value]

Leaves(text) ==
  {Part(i, i, <<"string", text[i]>>) : i \in {i \in DOMAIN text : text[i] \in StringTokens}}
    \cup {Part(i, i, <<Scalar>>) : i \in {i \in DOMAIN text : text[i] = Scalar}}

Brackets(text) ==
  {Part(i, i, EmptyArray) : i \in {i \in DOMAIN text : text[i] = "["}}
    \cup {Part(i, i, EmptyObject) : i \in {i \in DOMAIN text : text[i] = "{"}}

EndOf(open) == IF open.value[1] = "array" THEN "]" ELSE "}"
Ended(open) == Part(open.from, open.to + 1, open.value)

\* Where the next item of a container starts, and where its value does; 0 when
\* there can be none.
ItemStart(text, open) ==
  IF open.from = open.to THEN open.to + 1
  ELSE IF Peek(text, open.to + 1) = "," THEN open.to + 2 ELSE 0

ValueStart(text, open) ==
  LET item == ItemStart(text, open)
  IN  IF open.value[1] = "array" THEN item
      ELSE IF item # 0 /\ Peek(text, item) \in StringTokens /\ Peek(text, item + 1) = ":"
        THEN item + 2 ELSE 0

\* A container with one value more.  Of a key that is there twice the first
\* value counts.
Longer(text, open, whole) ==
  LET key == text[whole.from - 2]
      contents == open.value[2]
  IN  Part(open.from, whole.to,
           IF open.value[1] = "array" THEN <<"array", Append(contents, whole.value)>>
           ELSE <<"object", [k \in StringTokens |->
                               IF k = key /\ contents[k] = None THEN whole.value
                               ELSE contents[k]]>>)

Chart(whole, open) == [whole |-> whole, open |-> open]

Larger(text, chart) ==
  Chart(Leaves(text)
          \cup {Ended(open) : open \in {o \in chart.open : Peek(text, o.to + 1) = EndOf(o)}},
        Brackets(text)
          \cup {Longer(text, pair[1], pair[2]) :
                  pair \in {p \in chart.open \X chart.whole :
                              p[2].from = ValueStart(text, p[1])}})

\* In each round the parts of one length more; none is longer than the text.
PartsOf(text) ==
  LET chart[length \in 0 .. Len(text)] ==
        IF length = 0 THEN Chart({}, {}) ELSE Larger(text, chart[length - 1])
  IN  chart[Len(text)]

\* The values a text without white space stands for: none when it is no JSON.
ValuesOf(text) ==
  {part.value : part \in {p \in PartsOf(text).whole : p.from = 1 /\ p.to = Len(text)}}
=============================================================================
