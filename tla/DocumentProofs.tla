--------------------------- MODULE DocumentProofs ---------------------------
(***************************************************************************)
(* JSON documents of any length and depth: the reader returns what a text  *)
(* stands for and refuses the others, and what the writer writes stands    *)
(* for the value it was given.                                             *)
(***************************************************************************)
EXTENDS JsonMeaning, Induction

\* Strings all, but the provers do not know that of the punctuation.
Punctuation == {"{", "}", "[", "]", ",", ":", Space, Scalar}
Tokens == STRING \cup Punctuation

-----------------------------------------------------------------------------
(* The recursive functions of the model: each exists, and its values are   *)
(* those its definition says.                                              *)

Start == Parser("value", <<>>, <<>>)

\* Where the reader stands after each token.
LEMMA ReadingExists ==
  ASSUME NEW text, Len(text) \in Nat
  PROVE  \E reading : /\ reading[0] = Start /\ ReadTokens(text) = reading[Len(text)]
                      /\ \A i \in 1 .. Len(text) :
                           reading[i] = ReadToken(reading[i - 1], text[i])
<1> DEFINE Is(h, k) ==
             h = [i \in 0 .. k |-> IF i = 0 THEN Start ELSE ReadToken(h[i - 1], text[i])]
           Good == {k \in Nat : \E h : Is(h, k)}
           n == Len(text)
           reading == CHOOSE h : Is(h, n)
<1>1. 0 \in Good
  <2> DEFINE h == [i \in 0 .. 0 |-> Start]
  <2>1. Is(h, 0)
    OBVIOUS
  <2> QED BY <2>1
<1>2. ASSUME NEW k \in Nat, k \in Good PROVE k + 1 \in Good
  <2>1. PICK h : Is(h, k)
    BY <1>2
  <2> DEFINE g == [i \in 0 .. k + 1 |-> IF i <= k THEN h[i] ELSE ReadToken(h[k], text[k + 1])]
             value(i) == IF i = 0 THEN Start ELSE ReadToken(g[i - 1], text[i])
  <2>2. ASSUME NEW i \in 0 .. k + 1 PROVE g[i] = value(i)
    <3>1. CASE i = k + 1
      BY <3>1
    <3>2. CASE i \in 0 .. k
      <4>1. h[i] = IF i = 0 THEN Start ELSE ReadToken(h[i - 1], text[i])
        BY <2>1, <3>2
      <4>2. i # 0 => g[i - 1] = h[i - 1]
        BY <3>2
      <4> QED BY <3>2, <4>1, <4>2
    <3> QED BY <3>1, <3>2
  <2>3. g = [i \in 0 .. k + 1 |-> g[i]]
    OBVIOUS
  <2> HIDE DEF g, value
  <2>4. g = [i \in 0 .. k + 1 |-> value(i)]
    BY <2>2, <2>3
  <2> QED BY <2>4 DEF value
<1> HIDE DEF Good
<1>3. n \in Good
  <2>1. Nat \subseteq Good
    BY <1>1, <1>2, NumbersByInduction
  <2> QED BY <2>1
<1>4. Is(reading, n)
  BY <1>3 DEF Good
<1>5. ReadTokens(text) = reading[n]
  BY DEF ReadTokens, Start
<1> HIDE DEF reading
<1>6. reading[0] = Start /\ \A i \in 1 .. n : reading[i] = ReadToken(reading[i - 1], text[i])
  BY <1>4
<1> QED BY <1>5, <1>6

\* The reader reads one token more where it stands.
LEMMA ReadOneMore ==
  ASSUME NEW C
  PROVE  /\ ReadTokens(<<>>) = Start
         /\ \A text \in Seq(C), token \in C :
              ReadTokens(Append(text, token)) = ReadToken(ReadTokens(text), token)
<1>1. ReadTokens(<<>>) = Start
  <2> DEFINE empty == <<>>
  <2>1. Len(empty) = 0
    OBVIOUS
  <2> HIDE DEF empty
  <2>2. ReadTokens(empty) = Start
    BY <2>1, ReadingExists
  <2> QED BY <2>2 DEF empty
<1>2. ASSUME NEW text \in Seq(C), NEW token \in C
      PROVE  ReadTokens(Append(text, token)) = ReadToken(ReadTokens(text), token)
  <2> DEFINE longer == Append(text, token)
             n == Len(text)
  <2>1. /\ Len(longer) = n + 1 /\ n \in Nat /\ longer[n + 1] = token
        /\ \A i \in 1 .. n : longer[i] = text[i]
    OBVIOUS
  <2> HIDE DEF longer
  <2>2. PICK f : /\ f[0] = Start /\ ReadTokens(text) = f[n]
                 /\ \A i \in 1 .. n : f[i] = ReadToken(f[i - 1], text[i])
    <3> HIDE DEF n
    <3> QED BY <2>1, ReadingExists DEF n
  <2>3. PICK g : /\ g[0] = Start /\ ReadTokens(longer) = g[n + 1]
                 /\ \A i \in 1 .. n + 1 : g[i] = ReadToken(g[i - 1], longer[i])
    <3>1. Len(longer) \in Nat
      BY <2>1
    <3>2. PICK g : /\ g[0] = Start /\ ReadTokens(longer) = g[Len(longer)]
                   /\ \A i \in 1 .. Len(longer) : g[i] = ReadToken(g[i - 1], longer[i])
      BY <3>1, ReadingExists
    <3> QED BY <2>1, <3>2
  <2> HIDE DEF n
  <2>4. \A i \in 1 .. n : g[i] = ReadToken(g[i - 1], text[i])
    BY <2>1, <2>3
  <2>5. GoAlike(f, g, n)
    BY <2>2, <2>3, <2>4 DEF GoAlike
  <2>6. f[n] = g[n]
    BY <2>1, <2>5, RecursionsAgree
  <2>7. g[n + 1] = ReadToken(g[n], token)
    BY <2>1, <2>3
  <2> QED BY <2>2, <2>3, <2>6, <2>7 DEF longer
<1> QED BY <1>1, <1>2

\* The parts of a text, round by round.
LEMMA ChartExists ==
  ASSUME NEW text, Len(text) \in Nat
  PROVE  \E chart : /\ chart[0] = Chart({}, {}) /\ PartsOf(text) = chart[Len(text)]
                    /\ \A i \in 1 .. Len(text) : chart[i] = Larger(text, chart[i - 1])
<1> DEFINE Is(h, k) ==
             h = [i \in 0 .. k |-> IF i = 0 THEN Chart({}, {}) ELSE Larger(text, h[i - 1])]
           Good == {k \in Nat : \E h : Is(h, k)}
           n == Len(text)
           chart == CHOOSE h : Is(h, n)
<1>1. 0 \in Good
  <2> DEFINE h == [i \in 0 .. 0 |-> Chart({}, {})]
  <2>1. Is(h, 0)
    OBVIOUS
  <2> QED BY <2>1
<1>2. ASSUME NEW k \in Nat, k \in Good PROVE k + 1 \in Good
  <2>1. PICK h : Is(h, k)
    BY <1>2
  <2> DEFINE g == [i \in 0 .. k + 1 |-> IF i <= k THEN h[i] ELSE Larger(text, h[k])]
             value(i) == IF i = 0 THEN Chart({}, {}) ELSE Larger(text, g[i - 1])
  <2>2. ASSUME NEW i \in 0 .. k + 1 PROVE g[i] = value(i)
    <3>1. CASE i = k + 1
      BY <3>1
    <3>2. CASE i \in 0 .. k
      <4>1. h[i] = IF i = 0 THEN Chart({}, {}) ELSE Larger(text, h[i - 1])
        BY <2>1, <3>2
      <4>2. i # 0 => g[i - 1] = h[i - 1]
        BY <3>2
      <4> QED BY <3>2, <4>1, <4>2
    <3> QED BY <3>1, <3>2
  <2>3. g = [i \in 0 .. k + 1 |-> g[i]]
    OBVIOUS
  <2> HIDE DEF g, value
  <2>4. g = [i \in 0 .. k + 1 |-> value(i)]
    BY <2>2, <2>3
  <2> QED BY <2>4 DEF value
<1> HIDE DEF Good
<1>3. n \in Good
  <2>1. Nat \subseteq Good
    BY <1>1, <1>2, NumbersByInduction
  <2> QED BY <2>1
<1>4. Is(chart, n)
  BY <1>3 DEF Good
<1>5. PartsOf(text) = chart[n]
  BY DEF PartsOf
<1> HIDE DEF chart
<1>6. chart[0] = Chart({}, {}) /\ \A i \in 1 .. n : chart[i] = Larger(text, chart[i - 1])
  BY <1>4
<1> QED BY <1>5, <1>6

\* The texts of the values, by how deep they are.
WrittenOver(inner) ==
  [value \in Plain \cup Containers(DOMAIN inner) |-> Written(value, inner)]
NoTexts == [value \in {} |-> <<>>]

LEMMA DumpExists ==
  \E dump : /\ dump[0] = WrittenOver(NoTexts) /\ Dump = dump[Depth]
            /\ \A d \in 1 .. Depth : dump[d] = WrittenOver(dump[d - 1])
<1> DEFINE Is(h, k) ==
             h = [i \in 0 .. k |-> WrittenOver(IF i = 0 THEN NoTexts ELSE h[i - 1])]
           Good == {k \in Nat : \E h : Is(h, k)}
           dump == CHOOSE h : Is(h, Depth)
<1>1. 0 \in Good
  <2> DEFINE h == [i \in 0 .. 0 |-> WrittenOver(NoTexts)]
  <2>1. Is(h, 0)
    OBVIOUS
  <2> QED BY <2>1
<1>2. ASSUME NEW k \in Nat, k \in Good PROVE k + 1 \in Good
  <2>1. PICK h : Is(h, k)
    BY <1>2
  <2> DEFINE g == [i \in 0 .. k + 1 |-> IF i <= k THEN h[i] ELSE WrittenOver(h[k])]
             value(i) == WrittenOver(IF i = 0 THEN NoTexts ELSE g[i - 1])
  <2>2. ASSUME NEW i \in 0 .. k + 1 PROVE g[i] = value(i)
    <3>1. CASE i = k + 1
      BY <3>1
    <3>2. CASE i \in 0 .. k
      <4>1. h[i] = WrittenOver(IF i = 0 THEN NoTexts ELSE h[i - 1])
        BY <2>1, <3>2
      <4>2. i # 0 => g[i - 1] = h[i - 1]
        BY <3>2
      <4> QED BY <3>2, <4>1, <4>2
    <3> QED BY <3>1, <3>2
  <2>3. g = [i \in 0 .. k + 1 |-> g[i]]
    OBVIOUS
  <2> HIDE DEF g, value
  <2>4. g = [i \in 0 .. k + 1 |-> value(i)]
    BY <2>2, <2>3
  <2> QED BY <2>4 DEF value
<1> HIDE DEF Good
<1>3. Depth \in Good
  <2>1. Nat \subseteq Good
    BY <1>1, <1>2, NumbersByInduction
  <2> QED BY <2>1, DepthAssumption
<1>4. Is(dump, Depth)
  BY <1>3 DEF Good
<1>5. Dump = dump[Depth]
  BY DEF Dump, WrittenOver, NoTexts
<1> HIDE DEF dump
<1>6. dump[0] = WrittenOver(NoTexts) /\ \A d \in 1 .. Depth : dump[d] = WrittenOver(dump[d - 1])
  BY <1>4, DepthAssumption
<1> QED BY <1>5, <1>6

-----------------------------------------------------------------------------
(* The calls under way.  Nothing is said of the calls themselves, so that  *)
(* values of every depth are covered.                                      *)

IsStack(calls) == calls \in Seq({calls[i] : i \in DOMAIN calls})

LEMMA EmptyStack == IsStack(<<>>)
BY DEF IsStack

LEMMA Pushed ==
  ASSUME NEW calls, IsStack(calls), NEW call
  PROVE  LET more == Append(calls, call) IN
         /\ IsStack(more) /\ more # <<>> /\ Len(calls) \in Nat /\ Len(more) = Len(calls) + 1
         /\ Front(more) = calls /\ Last(more) = call
         /\ more[Len(calls) + 1] = call /\ \A i \in 1 .. Len(calls) : more[i] = calls[i]
<1> DEFINE C == {calls[i] : i \in DOMAIN calls} \cup {call}
           more == Append(calls, call)
<1>1. calls \in Seq(C)
  BY DEF IsStack
<1> HIDE DEF C
<1>2. call \in C
  BY DEF C
<1>3. /\ more \in Seq(C) /\ Len(calls) \in Nat /\ Len(more) = Len(calls) + 1
      /\ more[Len(calls) + 1] = call /\ \A i \in 1 .. Len(calls) : more[i] = calls[i]
  BY <1>1, <1>2
<1>4. more # <<>>
  BY <1>3
<1>5. Front(more) = calls /\ Last(more) = call
  <2>1. SubSeq(more, 1, Len(calls)) = calls
    BY <1>1, <1>2
  <2> HIDE DEF more
  <2> QED BY <1>3, <2>1 DEF Front, Last
<1>6. IsStack(more)
  <2> HIDE DEF more
  <2>1. more \in Seq({more[i] : i \in DOMAIN more})
    BY <1>3
  <2> QED BY <2>1 DEF IsStack
<1> QED BY <1>3, <1>4, <1>5, <1>6

LEMMA Popped ==
  ASSUME NEW calls, IsStack(calls), calls # <<>>
  PROVE  /\ IsStack(Front(calls)) /\ calls = Append(Front(calls), Last(calls))
         /\ Len(calls) \in Nat /\ Len(calls) > 0 /\ Len(Front(calls)) = Len(calls) - 1
         /\ \A i \in 1 .. Len(calls) - 1 : Front(calls)[i] = calls[i]
         /\ Last(calls) = calls[Len(calls)]
<1> DEFINE C == {calls[i] : i \in DOMAIN calls}
           front == Front(calls)
           n == Len(calls)
<1>1. calls \in Seq(C)
  BY DEF IsStack
<1> HIDE DEF C
<1>2. n \in Nat /\ n > 0 /\ calls[n] \in C
  BY <1>1
<1>3. front \in Seq(C) /\ Len(front) = n - 1 /\ \A i \in 1 .. n - 1 : front[i] = calls[i]
  <2>1. front = SubSeq(calls, 1, n - 1)
    BY DEF Front
  <2>2. \A i \in 1 .. n - 1 : i \in 1 .. n /\ calls[i] \in C
    BY <1>1, <1>2
  <2> HIDE DEF front, n
  <2>3. front = [i \in 1 .. n - 1 |-> calls[i]]
    BY <1>2, <2>1
  <2> QED BY <1>2, <2>2, <2>3
<1>4. calls = Append(front, calls[n])
  <2> DEFINE more == Append(front, calls[n])
  <2>1. /\ more \in Seq(C) /\ Len(more) = n /\ more[n] = calls[n]
        /\ \A i \in 1 .. n - 1 : more[i] = calls[i]
    <3> HIDE DEF front, n
    <3> QED BY <1>2, <1>3 DEF n
  <2> HIDE DEF more
  <2>2. \A i \in 1 .. n : more[i] = calls[i]
    BY <1>2, <2>1
  <2>3. more = calls
    BY <1>1, <2>1, <2>2, SeqEqual
  <2> QED BY <2>3 DEF more
<1>5. IsStack(front)
  <2> HIDE DEF front
  <2>1. front \in Seq({front[i] : i \in DOMAIN front})
    BY <1>3
  <2> QED BY <2>1 DEF IsStack
<1> QED BY <1>2, <1>3, <1>4, <1>5 DEF Last

\* A reader between two tokens: its calls are a sequence, and it is in one of
\* them unless it expects the value of the document or is done.
Inside == {"first", "key", "colon", "next"}
IsReader(reading) ==
  /\ reading = Parser(reading.at, reading.calls, reading.value)
  /\ IsStack(reading.calls)
  /\ reading.at \in Inside => reading.calls # <<>>

LEMMA ParserFields ==
  ASSUME NEW at, NEW calls, NEW value
  PROVE  /\ Parser(at, calls, value).at = at /\ Parser(at, calls, value).calls = calls
         /\ Parser(at, calls, value).value = value
         /\ IsStack(calls) /\ (at \in Inside => calls # <<>>) => IsReader(Parser(at, calls, value))
BY DEF Parser, IsReader

LEMMA CallFields ==
  ASSUME NEW result, NEW key
  PROVE  Call(result, key).result = result /\ Call(result, key).key = key
BY DEF Call

\* Where the reader is after a value.
LEMMA ReturnIsReader ==
  ASSUME NEW calls, IsStack(calls), NEW value
  PROVE  IsReader(Return(calls, value))
<1>1. CASE calls = <<>>
  <2>1. Return(calls, value) = Parser("end", <<>>, value)
    BY <1>1 DEF Return
  <2>2. "end" \notin Inside
    BY DEF Inside
  <2> QED BY <2>1, <2>2, EmptyStack, ParserFields
<1>2. CASE calls # <<>>
  <2> DEFINE more == Append(Front(calls), Extend(Last(calls), value))
  <2>1. Return(calls, value) = Parser("next", more, <<>>)
    BY <1>2 DEF Return
  <2>2. IsStack(more) /\ more # <<>>
    BY <1>2, Popped, Pushed
  <2> HIDE DEF more
  <2> QED BY <2>1, <2>2, ParserFields
<1> QED BY <1>1, <1>2

LEMMA ReadTokenIsReader ==
  ASSUME NEW reading, IsReader(reading), NEW token
  PROVE  IsReader(ReadToken(reading, token))
<1> DEFINE calls == reading.calls
<1>0. /\ IsStack(calls) /\ (reading.at \in Inside => calls # <<>>)
      /\ "first" \in Inside /\ "key" \in Inside /\ "colon" \in Inside /\ "next" \in Inside
      /\ "throws" \notin Inside /\ "value" \notin Inside
  BY DEF IsReader, Inside
<1> HIDE DEF calls
<1>1. IsReader(Throws)
  BY <1>0, EmptyStack, ParserFields DEF Throws
<1>2. IsReader(ReadValue(calls, token))
  <2>1. \A value : IsReader(Return(calls, value))
    BY <1>0, ReturnIsReader
  <2>2. ASSUME NEW call PROVE IsReader(Parser("first", Append(calls, call), <<>>))
    <3> DEFINE more == Append(calls, call)
    <3>1. IsStack(more) /\ more # <<>>
      BY <1>0, Pushed
    <3> HIDE DEF more
    <3> QED BY <3>1, ParserFields DEF more
  <2> QED BY <1>1, <2>1, <2>2 DEF ReadValue
<1>3. ASSUME calls # <<>> PROVE IsReader(ReadKey(calls, token))
  <2> DEFINE more == Append(Front(calls), Call(Last(calls).result, token))
  <2>0. IsStack(more) /\ more # <<>>
    BY <1>0, <1>3, Popped, Pushed
  <2> HIDE DEF more
  <2>1. IsReader(Parser("colon", more, <<>>))
    BY <2>0, ParserFields
  <2> QED BY <1>1, <2>1 DEF ReadKey, more
<1>4. ASSUME calls # <<>> PROVE IsReader(Close(calls))
  BY <1>0, <1>4, Popped, ReturnIsReader DEF Close
<1>5. ASSUME calls # <<>> PROVE IsReader(ReadFirst(calls, token))
  BY <1>2, <1>3, <1>4, <1>5 DEF ReadFirst
<1>6. ASSUME calls # <<>> PROVE IsReader(ReadNext(calls, token))
  <2>1. IsReader(Parser(AfterComma(Last(calls)), calls, <<>>))
    BY <1>0, <1>6, ParserFields DEF AfterComma
  <2> QED BY <1>1, <1>4, <1>6, <2>1 DEF ReadNext
<1>7. IsReader(IF token = ":" THEN Parser("value", calls, <<>>) ELSE Throws)
  BY <1>0, <1>1, ParserFields
<1> QED BY <1>0, <1>1, <1>2, <1>3, <1>5, <1>6, <1>7 DEF ReadToken, calls

-----------------------------------------------------------------------------
(* The parts of a text: the smallest sets that hold the leaves and the     *)
(* brackets, with each container what it is when it is closed, and with    *)
(* each container and each value at its end the longer container.          *)

IsContainer(value) ==
  \/ \E items : value = <<"array", items>>
  \/ \E members : value = <<"object", members>> /\ members = [k \in StringTokens |-> members[k]]

IsPart(text, part) ==
  /\ part = Part(part.from, part.to, part.value)
  /\ part.from \in Nat /\ part.to \in Nat
  /\ 1 <= part.from /\ part.from <= part.to /\ part.to <= Len(text)
IsOpen(text, part) == IsPart(text, part) /\ IsContainer(part.value)

Closed(text, W, O) ==
  /\ Leaves(text) \subseteq W /\ Brackets(text) \subseteq O
  /\ \A open \in O : Peek(text, open.to + 1) = EndOf(open) => Ended(open) \in W
  /\ \A open \in O, whole \in W :
       whole.from = ValueStart(text, open) => Longer(text, open, whole) \in O

LEMMA PartFields ==
  ASSUME NEW from, NEW to, NEW value
  PROVE  /\ Part(from, to, value).from = from /\ Part(from, to, value).to = to
         /\ Part(from, to, value).value = value
         /\ Part(from, to, value) =
              Part(Part(from, to, value).from, Part(from, to, value).to, Part(from, to, value).value)
BY DEF Part

\* One round.
LEMMA InLarger ==
  ASSUME NEW text, NEW chart
  PROVE  /\ \A w : w \in Larger(text, chart).whole <=>
              \/ w \in Leaves(text)
              \/ \E o \in chart.open : Peek(text, o.to + 1) = EndOf(o) /\ w = Ended(o)
         /\ \A o : o \in Larger(text, chart).open <=>
              \/ o \in Brackets(text)
              \/ \E a \in chart.open, w \in chart.whole :
                   w.from = ValueStart(text, a) /\ o = Longer(text, a, w)
<1> DEFINE ended == {Ended(o) : o \in {o \in chart.open : Peek(text, o.to + 1) = EndOf(o)}}
           pairs == {p \in chart.open \X chart.whole : p[2].from = ValueStart(text, p[1])}
           longer == {Longer(text, p[1], p[2]) : p \in pairs}
<1>1. /\ Larger(text, chart).whole = Leaves(text) \cup ended
      /\ Larger(text, chart).open = Brackets(text) \cup longer
  BY DEF Larger, Chart
<1>2. \A w : w \in ended <=> \E o \in chart.open : Peek(text, o.to + 1) = EndOf(o) /\ w = Ended(o)
  OBVIOUS
<1>3. \A o : o \in longer <=>
        \E a \in chart.open, w \in chart.whole :
          w.from = ValueStart(text, a) /\ o = Longer(text, a, w)
  <2>1. ASSUME NEW a \in chart.open, NEW w \in chart.whole, w.from = ValueStart(text, a)
        PROVE  Longer(text, a, w) \in longer
    <3>1. <<a, w>> \in pairs /\ <<a, w>>[1] = a /\ <<a, w>>[2] = w
      BY <2>1
    <3> QED BY <3>1
  <2>2. ASSUME NEW o \in longer
        PROVE  \E a \in chart.open, w \in chart.whole :
                 w.from = ValueStart(text, a) /\ o = Longer(text, a, w)
    <3>1. PICK p \in pairs : o = Longer(text, p[1], p[2])
      OBVIOUS
    <3>2. p[1] \in chart.open /\ p[2] \in chart.whole /\ p[2].from = ValueStart(text, p[1])
      OBVIOUS
    <3> QED BY <3>1, <3>2
  <2> HIDE DEF longer
  <2> QED BY <2>1, <2>2
<1> HIDE DEF ended, longer
<1> QED BY <1>1, <1>2, <1>3

LEMMA PeekInText ==
  ASSUME NEW text \in Seq(Tokens), NEW i, Peek(text, i) # ""
  PROVE  i \in 1 .. Len(text) /\ Peek(text, i) = text[i]
BY DEF Peek

\* The parts a round starts from.
LEMMA FirstParts ==
  ASSUME NEW text \in Seq(Tokens)
  PROVE  /\ \A w \in Leaves(text) : IsPart(text, w) /\ w.from = w.to
         /\ \A o \in Brackets(text) : IsOpen(text, o) /\ o.from = o.to
<1>0. DOMAIN text = 1 .. Len(text) /\ Len(text) \in Nat
  OBVIOUS
<1>1. ASSUME NEW i \in DOMAIN text, NEW value
      PROVE  IsPart(text, Part(i, i, value)) /\ Part(i, i, value).from = Part(i, i, value).to
  BY <1>0, PartFields DEF IsPart
<1>2. IsContainer(EmptyArray) /\ IsContainer(EmptyObject)
  <2>1. IsContainer(EmptyArray)
    BY DEF IsContainer, EmptyArray
  <2>2. IsContainer(EmptyObject)
    <3> DEFINE members == [key \in StringTokens |-> None]
    <3>1. EmptyObject = <<"object", members>> /\ members = [k \in StringTokens |-> members[k]]
      BY DEF EmptyObject
    <3> QED BY <3>1 DEF IsContainer
  <2> QED BY <2>1, <2>2
<1>3. \A w \in Leaves(text) : \E i \in DOMAIN text : \E value : w = Part(i, i, value)
  BY DEF Leaves
<1>4. \A o \in Brackets(text) :
        \E i \in DOMAIN text : o = Part(i, i, EmptyArray) \/ o = Part(i, i, EmptyObject)
  BY DEF Brackets
<1>5. ASSUME NEW w \in Leaves(text) PROVE IsPart(text, w) /\ w.from = w.to
  BY <1>1, <1>3
<1>6. ASSUME NEW o \in Brackets(text) PROVE IsOpen(text, o) /\ o.from = o.to
  BY <1>1, <1>2, <1>4, PartFields DEF IsOpen
<1> QED BY <1>5, <1>6

\* A value within a container starts after what is read of the container.
LEMMA ValueStarts ==
  ASSUME NEW text \in Seq(Tokens), NEW open, IsPart(text, open)
  PROVE  /\ ItemStart(text, open) \in Nat /\ ValueStart(text, open) \in Nat
         /\ ItemStart(text, open) # 0 => ItemStart(text, open) > open.to
         /\ ValueStart(text, open) # 0 =>
              ValueStart(text, open) >= ItemStart(text, open) /\ ItemStart(text, open) # 0
<1> DEFINE item == ItemStart(text, open)
<1>1. open.to \in Nat
  BY DEF IsPart
<1>2. item \in Nat /\ (item # 0 => item > open.to)
  <2>1. item = open.to + 1 \/ item = open.to + 2 \/ item = 0
    BY DEF ItemStart
  <2> HIDE DEF item
  <2> QED BY <1>1, <2>1
<1> HIDE DEF item
<1>3. \/ ValueStart(text, open) = item
      \/ ValueStart(text, open) = 0
      \/ item # 0 /\ ValueStart(text, open) = item + 2
  BY DEF ValueStart, item
<1> QED BY <1>2, <1>3 DEF item

LEMMA NextParts ==
  ASSUME NEW text \in Seq(Tokens), NEW open, IsOpen(text, open)
  PROVE  /\ Peek(text, open.to + 1) = EndOf(open) =>
              IsPart(text, Ended(open)) /\ Ended(open).from = open.from /\ Ended(open).to = open.to + 1
         /\ \A whole : IsPart(text, whole) /\ whole.from = ValueStart(text, open) =>
              /\ IsOpen(text, Longer(text, open, whole)) /\ open.to < whole.from
              /\ Longer(text, open, whole).from = open.from
              /\ Longer(text, open, whole).to = whole.to
<1>0. /\ open.from \in Nat /\ open.to \in Nat /\ Len(text) \in Nat /\ IsContainer(open.value)
      /\ 1 <= open.from /\ open.from <= open.to /\ open.to <= Len(text) /\ IsPart(text, open)
  BY DEF IsOpen, IsPart
<1>1. ASSUME Peek(text, open.to + 1) = EndOf(open)
      PROVE  IsPart(text, Ended(open)) /\ Ended(open).from = open.from /\ Ended(open).to = open.to + 1
  <2>1. EndOf(open) # ""
    BY DEF EndOf
  <2>2. open.to + 1 <= Len(text)
    <3>1. Peek(text, open.to + 1) # ""
      BY <1>1, <2>1
    <3>2. open.to + 1 \in 1 .. Len(text)
      BY <3>1, PeekInText
    <3> QED BY <1>0, <3>2
  <2> QED BY <1>0, <2>2, PartFields DEF IsPart, Ended
<1>2. ASSUME NEW whole, IsPart(text, whole), whole.from = ValueStart(text, open)
      PROVE  /\ IsOpen(text, Longer(text, open, whole)) /\ open.to < whole.from
             /\ Longer(text, open, whole).from = open.from
             /\ Longer(text, open, whole).to = whole.to
  <2>1. /\ whole.from \in Nat /\ whole.to \in Nat /\ 1 <= whole.from /\ whole.from <= whole.to
        /\ whole.to <= Len(text)
    BY <1>2 DEF IsPart
  <2>2. open.to < whole.from
    <3>1. whole.from >= ItemStart(text, open) /\ ItemStart(text, open) > open.to
          /\ ItemStart(text, open) \in Nat
      BY <1>0, <1>2, <2>1, ValueStarts
    <3> QED BY <1>0, <2>1, <3>1
  <2> DEFINE key == text[whole.from - 2]
             contents == open.value[2]
             members == [k \in StringTokens |-> IF k = key /\ contents[k] = None THEN whole.value
                                                ELSE contents[k]]
             items == Append(contents, whole.value)
  <2>3. Longer(text, open, whole) =
          Part(open.from, whole.to,
               IF open.value[1] = "array" THEN <<"array", items>> ELSE <<"object", members>>)
    BY DEF Longer
  <2>4. members = [k \in StringTokens |-> members[k]]
    OBVIOUS
  <2> HIDE DEF items, members
  <2>5. IsContainer(<<"array", items>>) /\ IsContainer(<<"object", members>>)
    BY <2>4 DEF IsContainer
  <2> HIDE DEF key, contents
  <2>6. ASSUME NEW value, IsContainer(value)
        PROVE  LET longer == Part(open.from, whole.to, value) IN
               IsOpen(text, longer) /\ longer.from = open.from /\ longer.to = whole.to
    <3> DEFINE longer == Part(open.from, whole.to, value)
    <3>1. longer.from = open.from /\ longer.to = whole.to /\ longer.value = value
          /\ longer = Part(longer.from, longer.to, longer.value)
      BY PartFields
    <3> HIDE DEF longer
    <3>2. IsPart(text, longer)
      BY <1>0, <2>1, <2>2, <3>1 DEF IsPart
    <3> QED BY <2>6, <3>1, <3>2 DEF IsOpen, longer
  <2> QED BY <2>2, <2>3, <2>5, <2>6
<1> QED BY <1>1, <1>2

AreParts(text, chart) ==
  /\ \A w \in chart.whole : IsPart(text, w)
  /\ \A o \in chart.open : IsOpen(text, o)

LEMMA RoundOfParts ==
  ASSUME NEW text \in Seq(Tokens), NEW chart, AreParts(text, chart)
  PROVE  AreParts(text, Larger(text, chart))
<1>1. ASSUME NEW w \in Larger(text, chart).whole PROVE IsPart(text, w)
  <2>1. CASE w \in Leaves(text)
    BY <2>1, FirstParts
  <2>2. CASE \E o \in chart.open : Peek(text, o.to + 1) = EndOf(o) /\ w = Ended(o)
    BY <2>2, NextParts DEF AreParts
  <2> QED BY <2>1, <2>2, InLarger
<1>2. ASSUME NEW o \in Larger(text, chart).open PROVE IsOpen(text, o)
  <2>1. CASE o \in Brackets(text)
    BY <2>1, FirstParts
  <2>2. ASSUME NEW a \in chart.open, NEW w \in chart.whole,
               w.from = ValueStart(text, a), o = Longer(text, a, w)
        PROVE  IsOpen(text, o)
    <3>1. IsOpen(text, a) /\ IsPart(text, w)
      BY DEF AreParts
    <3> QED BY <2>2, <3>1, NextParts
  <2> QED BY <2>1, <2>2, InLarger
<1> QED BY <1>1, <1>2 DEF AreParts

IsShort(part, length) == part.to - part.from < length

\* A part is there after as many rounds as it is long.
ShortParts(more, chart, length) ==
  /\ \A w \in more.whole : IsShort(w, length) => w \in chart.whole
  /\ \A o \in more.open : IsShort(o, length) => o \in chart.open

LEMMA RoundOfShortParts ==
  ASSUME NEW text \in Seq(Tokens), NEW more, NEW chart, NEW length \in Nat,
         AreParts(text, more), ShortParts(more, chart, length)
  PROVE  ShortParts(Larger(text, more), Larger(text, chart), length + 1)
<1>1. ASSUME NEW w \in Larger(text, more).whole, IsShort(w, length + 1)
      PROVE  w \in Larger(text, chart).whole
  <2>1. CASE w \in Leaves(text)
    BY <2>1, InLarger
  <2>2. ASSUME NEW o \in more.open, Peek(text, o.to + 1) = EndOf(o), w = Ended(o)
        PROVE  w \in Larger(text, chart).whole
    <3>1. IsOpen(text, o) /\ w.from = o.from /\ w.to = o.to + 1
      BY <2>2, NextParts DEF AreParts
    <3>2. o.from \in Nat /\ o.to \in Nat
      BY <3>1 DEF IsOpen, IsPart
    <3>3. IsShort(o, length)
      BY <1>1, <3>1, <3>2 DEF IsShort
    <3>4. o \in chart.open
      BY <3>3 DEF ShortParts
    <3> QED BY <2>2, <3>4, InLarger
  <2> QED BY <2>1, <2>2, InLarger
<1>2. ASSUME NEW o \in Larger(text, more).open, IsShort(o, length + 1)
      PROVE  o \in Larger(text, chart).open
  <2>1. CASE o \in Brackets(text)
    BY <2>1, InLarger
  <2>2. ASSUME NEW a \in more.open, NEW w \in more.whole,
               w.from = ValueStart(text, a), o = Longer(text, a, w)
        PROVE  o \in Larger(text, chart).open
    <3>1. IsOpen(text, a) /\ IsPart(text, w)
      BY DEF AreParts
    <3>2. a.to < w.from /\ o.from = a.from /\ o.to = w.to
      BY <2>2, <3>1, NextParts
    <3>3. /\ a.from \in Nat /\ a.to \in Nat /\ w.from \in Nat /\ w.to \in Nat
          /\ a.from <= a.to /\ w.from <= w.to
      BY <3>1 DEF IsOpen, IsPart
    <3>4. IsShort(a, length) /\ IsShort(w, length)
      BY <1>2, <3>2, <3>3 DEF IsShort
    <3>5. a \in chart.open /\ w \in chart.whole
      BY <3>4 DEF ShortParts
    <3> QED BY <2>2, <3>5, InLarger
  <2> QED BY <2>1, <2>2, InLarger
<1> QED BY <1>1, <1>2 DEF ShortParts

LEMMA PartsAreTheSmallest ==
  ASSUME NEW text \in Seq(Tokens)
  PROVE  /\ AreParts(text, PartsOf(text))
         /\ Closed(text, PartsOf(text).whole, PartsOf(text).open)
         /\ \A W, O : Closed(text, W, O) =>
              PartsOf(text).whole \subseteq W /\ PartsOf(text).open \subseteq O
<1> DEFINE n == Len(text)
<1>0. n \in Nat
  OBVIOUS
<1>1. PICK chart : /\ chart[0] = Chart({}, {}) /\ PartsOf(text) = chart[n]
                   /\ \A i \in 1 .. n : chart[i] = Larger(text, chart[i - 1])
  BY <1>0, ChartExists
<1>2. chart[0].whole = {} /\ chart[0].open = {}
  BY <1>1 DEF Chart
<1> HIDE DEF n
<1>3. \A i \in 0 .. n : AreParts(text, chart[i])
  <2> DEFINE Good == {i \in Nat : i <= n => AreParts(text, chart[i])}
  <2>1. 0 \in Good
    BY <1>2 DEF AreParts
  <2>2. ASSUME NEW i \in Nat, i \in Good PROVE i + 1 \in Good
    <3> SUFFICES ASSUME i + 1 <= n PROVE AreParts(text, chart[i + 1])
      OBVIOUS
    <3>1. chart[i + 1] = Larger(text, chart[i])
      <4>1. i + 1 \in 1 .. n /\ (i + 1) - 1 = i
        BY <1>0
      <4> QED BY <1>1, <4>1
    <3>2. AreParts(text, chart[i])
      BY <1>0, <2>2
    <3> QED BY <3>1, <3>2, RoundOfParts
  <2> HIDE DEF Good
  <2>3. Nat \subseteq Good
    BY <2>1, <2>2, NumbersByInduction
  <2> QED BY <1>0, <2>3 DEF Good
<1>4. \A length, i \in 0 .. n : ShortParts(chart[i], chart[length], length)
  <2> DEFINE Good == {r \in Nat : r <= n => \A i \in 0 .. n : ShortParts(chart[i], chart[r], r)}
  <2>1. 0 \in Good
    <3> SUFFICES ASSUME NEW i \in 0 .. n PROVE ShortParts(chart[i], chart[0], 0)
      OBVIOUS
    <3>1. AreParts(text, chart[i])
      BY <1>3
    <3>2. ASSUME NEW part, IsPart(text, part) PROVE ~IsShort(part, 0)
      BY <3>2 DEF IsPart, IsShort
    <3> QED BY <3>1, <3>2 DEF AreParts, IsOpen, ShortParts
  <2>2. ASSUME NEW r \in Nat, r \in Good PROVE r + 1 \in Good
    <3> SUFFICES ASSUME r + 1 <= n, NEW i \in 0 .. n
                 PROVE  ShortParts(chart[i], chart[r + 1], r + 1)
      OBVIOUS
    <3>1. chart[r + 1] = Larger(text, chart[r])
      <4>1. r + 1 \in 1 .. n /\ (r + 1) - 1 = r
        BY <1>0
      <4> QED BY <1>1, <4>1
    <3>2. CASE i = 0
      BY <1>2, <3>2 DEF ShortParts
    <3>3. CASE i # 0
      <4>1. i \in 1 .. n /\ i - 1 \in 0 .. n /\ r <= n
        BY <1>0, <3>3
      <4>2. chart[i] = Larger(text, chart[i - 1])
        BY <1>1, <4>1
      <4>3. AreParts(text, chart[i - 1]) /\ ShortParts(chart[i - 1], chart[r], r)
        BY <1>3, <2>2, <4>1
      <4> QED BY <3>1, <4>2, <4>3, RoundOfShortParts
    <3> QED BY <3>2, <3>3
  <2> HIDE DEF Good
  <2>3. Nat \subseteq Good
    BY <2>1, <2>2, NumbersByInduction
  <2> QED BY <1>0, <2>3 DEF Good
<1> DEFINE whole == chart[n].whole
           open == chart[n].open
\* What is in the last chart, and anything of it that leads to a part, is in
\* the chart before if it is shorter than the text.
<1>5. ASSUME NEW part, IsPart(text, part)
      PROVE  n \in 1 .. n /\ chart[n] = Larger(text, chart[n - 1])
  <2>1. n \in 1 .. n
    BY <1>0, <1>5 DEF IsPart, n
  <2> QED BY <1>1, <2>1
<1>6. ASSUME n \in 1 .. n PROVE ShortParts(chart[n], chart[n - 1], n - 1)
  BY <1>0, <1>4, <1>6
<1>7. AreParts(text, chart[n])
  BY <1>0, <1>3
<1>8. Leaves(text) \subseteq whole /\ Brackets(text) \subseteq open
  <2>1. ASSUME NEW w \in Leaves(text) PROVE w \in whole
    <3>1. IsPart(text, w)
      BY FirstParts
    <3> QED BY <1>5, <3>1, InLarger
  <2>2. ASSUME NEW o \in Brackets(text) PROVE o \in open
    <3>1. IsPart(text, o)
      BY FirstParts DEF IsOpen
    <3> QED BY <1>5, <3>1, InLarger
  <2> QED BY <2>1, <2>2
<1>9. ASSUME NEW o \in open, Peek(text, o.to + 1) = EndOf(o) PROVE Ended(o) \in whole
  <2>1. IsOpen(text, o) /\ IsPart(text, o)
    BY <1>7 DEF AreParts, IsOpen
  <2>2. IsPart(text, Ended(o)) /\ Ended(o).to = o.to + 1
    BY <1>9, <2>1, NextParts
  <2>3. o.from \in Nat /\ o.to \in Nat /\ 1 <= o.from /\ o.to + 1 <= n
    BY <2>1, <2>2 DEF IsPart, n
  <2>4. IsShort(o, n - 1)
    BY <1>0, <2>3 DEF IsShort
  <2>5. o \in chart[n - 1].open
    BY <1>5, <1>6, <2>1, <2>4 DEF ShortParts
  <2> QED BY <1>5, <1>9, <2>1, <2>5, InLarger
<1>10. ASSUME NEW o \in open, NEW w \in whole, w.from = ValueStart(text, o)
       PROVE  Longer(text, o, w) \in open
  <2>1. IsOpen(text, o) /\ IsPart(text, o) /\ IsPart(text, w)
    BY <1>7 DEF AreParts, IsOpen
  <2>2. o.to < w.from
    BY <1>10, <2>1, NextParts
  <2>3. /\ o.from \in Nat /\ o.to \in Nat /\ w.from \in Nat /\ w.to \in Nat
        /\ 1 <= o.from /\ o.from <= o.to /\ w.from <= w.to /\ w.to <= n
    BY <2>1 DEF IsPart, n
  <2>4. IsShort(o, n - 1) /\ IsShort(w, n - 1)
    BY <1>0, <2>2, <2>3 DEF IsShort
  <2>5. o \in chart[n - 1].open /\ w \in chart[n - 1].whole
    BY <1>5, <1>6, <2>1, <2>4 DEF ShortParts
  <2> QED BY <1>5, <1>10, <2>1, <2>5, InLarger
<1>11. Closed(text, whole, open)
  BY <1>8, <1>9, <1>10 DEF Closed
<1>12. ASSUME NEW W, NEW O, Closed(text, W, O)
       PROVE  chart[n].whole \subseteq W /\ chart[n].open \subseteq O
  <2> DEFINE Good == {i \in Nat : i <= n => chart[i].whole \subseteq W /\ chart[i].open \subseteq O}
  <2>1. 0 \in Good
    BY <1>2
  <2>2. ASSUME NEW i \in Nat, i \in Good PROVE i + 1 \in Good
    <3> SUFFICES ASSUME i + 1 <= n
                 PROVE  chart[i + 1].whole \subseteq W /\ chart[i + 1].open \subseteq O
      OBVIOUS
    <3>1. chart[i + 1] = Larger(text, chart[i])
      <4>1. i + 1 \in 1 .. n /\ (i + 1) - 1 = i
        BY <1>0
      <4> QED BY <1>1, <4>1
    <3>2. chart[i].whole \subseteq W /\ chart[i].open \subseteq O
      BY <1>0, <2>2
    <3>3. Larger(text, chart[i]).whole \subseteq W
      BY <1>12, <3>2, InLarger DEF Closed
    <3>4. Larger(text, chart[i]).open \subseteq O
      BY <1>12, <3>2, InLarger DEF Closed
    <3> QED BY <3>1, <3>3, <3>4
  <2> HIDE DEF Good
  <2>3. Nat \subseteq Good
    BY <2>1, <2>2, NumbersByInduction
  <2> QED BY <1>0, <2>3 DEF Good
<1> QED BY <1>1, <1>7, <1>11, <1>12

-----------------------------------------------------------------------------
(* The steps of the reader where it reads what is JSON. *)


LEMMA TokensDiffer ==
  /\ \A token \in StringTokens : token \notin Punctuation
  /\ "{" # "}" /\ "{" # "[" /\ "{" # "]" /\ "{" # "," /\ "{" # ":" /\ "{" # Space /\ "{" # Scalar
  /\ "}" # "[" /\ "}" # "]" /\ "}" # "," /\ "}" # ":" /\ "}" # Space /\ "}" # Scalar
  /\ "[" # "]" /\ "[" # "," /\ "[" # ":" /\ "[" # Space /\ "[" # Scalar
  /\ "]" # "," /\ "]" # ":" /\ "]" # Space /\ "]" # Scalar
  /\ "," # ":" /\ "," # Space /\ "," # Scalar /\ ":" # Space /\ ":" # Scalar /\ Space # Scalar
<1>1. StringTokens \cap Punctuation = {}
  BY KeyOrderAssumption DEF Punctuation
<1> QED BY <1>1 DEF Space, Scalar

TakesValue(reading) ==
  reading.at = "value" \/ (reading.at = "first" /\ IsArray(Last(reading.calls)))

LEMMA TokenOfValue ==
  ASSUME NEW reading, TakesValue(reading), NEW token, token # Space, token # "]"
  PROVE  ReadToken(reading, token) = ReadValue(reading.calls, token)
<1>1. CASE reading.at = "value"
  BY <1>1 DEF ReadToken
<1>2. CASE reading.at = "first" /\ IsArray(Last(reading.calls))
  BY <1>2 DEF ReadToken, ReadFirst, Closing
<1> QED BY <1>1, <1>2 DEF TakesValue

LEMMA FirstToken ==
  ASSUME NEW reading, TakesValue(reading)
  PROVE  /\ \A token \in StringTokens :
              ReadToken(reading, token) = Return(reading.calls, <<"string", token>>)
         /\ ReadToken(reading, Scalar) = Return(reading.calls, <<Scalar>>)
         /\ ReadToken(reading, "[") =
              Parser("first", Append(reading.calls, Call(EmptyArray, "")), <<>>)
         /\ ReadToken(reading, "{") =
              Parser("first", Append(reading.calls, Call(EmptyObject, "")), <<>>)
<1>1. ASSUME NEW token \in StringTokens
      PROVE  ReadToken(reading, token) = Return(reading.calls, <<"string", token>>)
  <2>1. token # Space /\ token # "]"
    BY TokensDiffer DEF Punctuation
  <2>2. token # Scalar /\ token # "[" /\ token # "{"
    BY TokensDiffer DEF Punctuation
  <2>3. ReadValue(reading.calls, token) = Return(reading.calls, <<"string", token>>)
    BY <2>2 DEF ReadValue
  <2> QED BY <2>1, <2>3, TokenOfValue
<1>2. Scalar \notin StringTokens /\ "[" \notin StringTokens /\ "{" \notin StringTokens
  BY TokensDiffer DEF Punctuation
<1>3. /\ ReadValue(reading.calls, Scalar) = Return(reading.calls, <<Scalar>>)
      /\ ReadValue(reading.calls, "[") =
           Parser("first", Append(reading.calls, Call(EmptyArray, "")), <<>>)
      /\ ReadValue(reading.calls, "{") =
           Parser("first", Append(reading.calls, Call(EmptyObject, "")), <<>>)
  BY <1>2, TokensDiffer DEF ReadValue
<1>4. \A token \in {Scalar, "[", "{"} : ReadToken(reading, token) = ReadValue(reading.calls, token)
  BY TokensDiffer, TokenOfValue
<1> QED BY <1>1, <1>3, <1>4

\* Within a call that is on top of others.
InCall(at, calls, call) == Parser(at, Append(calls, call), <<>>)

ReadsInCall(calls, call) ==
  /\ \A at : InCall(at, calls, call).calls = Append(calls, call)
  /\ \A at \in {"first", "next"} :
       ReadToken(InCall(at, calls, call), Closing(call)) = Return(calls, call.result)
  /\ ReadToken(InCall("next", calls, call), ",") = InCall(AfterComma(call), calls, call)
  /\ \A key \in StringTokens :
       /\ ReadToken(InCall("key", calls, call), key) =
            InCall("colon", calls, Call(call.result, key))
       /\ ~IsArray(call) =>
            ReadToken(InCall("first", calls, call), key) =
              InCall("colon", calls, Call(call.result, key))
  /\ ReadToken(InCall("colon", calls, call), ":") = InCall("value", calls, call)
  /\ \A value : Return(Append(calls, call), value) = InCall("next", calls, Extend(call, value))
  /\ TakesValue(InCall("value", calls, call))
  /\ IsArray(call) => TakesValue(InCall("first", calls, call))

LEMMA TokensOfCall ==
  ASSUME NEW calls, IsStack(calls), NEW call
  PROVE  ReadsInCall(calls, call)
<1> DEFINE more == Append(calls, call)
           Now(at) == Parser(at, more, <<>>)
<1>1. more # <<>> /\ Front(more) = calls /\ Last(more) = call
  BY Pushed
<1> HIDE DEF more
<1>2. \A at : Now(at).at = at /\ Now(at).calls = more
  BY ParserFields
<1> HIDE DEF Now
<1>3. ASSUME NEW at \in {"first", "next"}
      PROVE  ReadToken(Now(at), Closing(call)) = Return(calls, call.result)
  <2>1. Close(more) = Return(calls, call.result)
    BY <1>1 DEF Close
  <2>2. Closing(call) # Space
    BY TokensDiffer DEF Closing
  <2>3. ReadFirst(more, Closing(call)) = Close(more) /\ ReadNext(more, Closing(call)) = Close(more)
    BY <1>1 DEF ReadFirst, ReadNext
  <2> QED BY <1>2, <2>1, <2>2, <2>3 DEF ReadToken
<1>4. ReadToken(Now("next"), ",") = Now(AfterComma(call))
  <2>1. Closing(call) # "," /\ "," # Space
    BY TokensDiffer DEF Closing
  <2>2. ReadNext(more, ",") = Now(AfterComma(call))
    BY <1>1, <2>1 DEF ReadNext, Now
  <2>3. \A token : token # Space => ReadToken(Now("next"), token) = ReadNext(more, token)
    BY <1>2 DEF ReadToken
  <2> QED BY <2>1, <2>2, <2>3
<1>5. ASSUME NEW at \in {"first", "key"}, NEW key \in StringTokens, at = "key" \/ ~IsArray(call)
      PROVE  ReadToken(Now(at), key) = InCall("colon", calls, Call(call.result, key))
  <2>1. key # Space /\ key # Closing(call)
    BY TokensDiffer DEF Closing, Punctuation
  <2>2. ReadKey(more, key) = InCall("colon", calls, Call(call.result, key))
    BY <1>1 DEF ReadKey, InCall
  <2>3. CASE at = "key"
    BY <1>2, <2>1, <2>2, <2>3 DEF ReadToken
  <2>4. CASE at = "first" /\ ~IsArray(call)
    <3>1. ReadFirst(more, key) = ReadKey(more, key)
      BY <1>1, <2>1, <2>4 DEF ReadFirst
    <3> QED BY <1>2, <2>1, <2>2, <2>4, <3>1 DEF ReadToken
  <2> QED BY <1>5, <2>3, <2>4
<1>6. ReadToken(Now("colon"), ":") = Now("value")
  <2>1. ":" # Space
    BY TokensDiffer
  <2> QED BY <1>2, <2>1 DEF ReadToken, Now
<1>7. ASSUME NEW value
      PROVE  Return(more, value) = InCall("next", calls, Extend(call, value))
  BY <1>1 DEF Return, InCall
<1>8. TakesValue(Now("value")) /\ (IsArray(call) => TakesValue(Now("first")))
  BY <1>1, <1>2 DEF TakesValue
<1>9. \A at : InCall(at, calls, call) = Now(at)
  BY DEF InCall, Now, more
<1> HIDE DEF Now
<1> QED BY <1>2, <1>3, <1>4, <1>5, <1>6, <1>7, <1>8, <1>9 DEF ReadsInCall, more

\* emplace, as the value of every key.
LEMMA EmplaceValue ==
  ASSUME NEW members, members = [k \in StringTokens |-> members[k]], NEW key, NEW value
  PROVE  Emplace(members, key, value) =
           [k \in StringTokens |->
              IF k = key /\ members[k] = None THEN value ELSE members[k]]
<1>1. DOMAIN members = StringTokens
  OBVIOUS
<1> DEFINE new == IF members[key] = None THEN value ELSE members[key]
           entry(k) == IF k = key /\ members[k] = None THEN value ELSE members[k]
<1>2. Emplace(members, key, value) = [k \in StringTokens |-> IF k = key THEN new ELSE members[k]]
  <2>1. Emplace(members, key, value) = [members EXCEPT ![key] = new]
    BY DEF Emplace
  <2> HIDE DEF new
  <2>2. [members EXCEPT ![key] = new] = [k \in DOMAIN members |-> IF k = key THEN new ELSE members[k]]
    OBVIOUS
  <2> QED BY <1>1, <2>1, <2>2
<1>3. \A k \in StringTokens : (IF k = key THEN new ELSE members[k]) = entry(k)
  OBVIOUS
<1> HIDE DEF new, entry
<1>4. [k \in StringTokens |-> IF k = key THEN new ELSE members[k]] = [k \in StringTokens |-> entry(k)]
  BY <1>3
<1> QED BY <1>2, <1>4 DEF entry

\* The call of a container with one value more.
LEMMA ExtendedCall ==
  ASSUME NEW text, NEW open, IsContainer(open.value), NEW whole, NEW call,
         call.result = open.value,
         IsArray(call) \/ call.key = text[whole.from - 2]
  PROVE  Extend(call, whole.value) = Call(Longer(text, open, whole).value, call.key)
<1> DEFINE contents == open.value[2]
           longer == Longer(text, open, whole)
<1>1. CASE IsArray(call)
  <2>1. longer.value = <<"array", Append(contents, whole.value)>>
    BY <1>1, PartFields DEF Longer, IsArray
  <2> QED BY <1>1, <2>1 DEF Extend
<1>2. CASE ~IsArray(call)
  <2>1. PICK members : open.value = <<"object", members>> /\ members = [k \in StringTokens |-> members[k]]
    BY <1>2 DEF IsContainer, IsArray
  <2>2. contents = members /\ call.key = text[whole.from - 2]
    BY <1>2, <2>1
  <2> DEFINE key == call.key
             new == [k \in StringTokens |->
                       IF k = key /\ members[k] = None THEN whole.value ELSE members[k]]
  <2>3. longer.value = <<"object", new>>
    BY <1>2, <2>2, PartFields DEF Longer, IsArray
  <2>4. Emplace(members, key, whole.value) = new
    BY <2>1, EmplaceValue
  <2>5. Extend(call, whole.value) = Call(<<"object", Emplace(members, key, whole.value)>>, key)
    BY <1>2, <2>2 DEF Extend
  <2> QED BY <2>3, <2>4, <2>5
<1> QED BY <1>1, <1>2

-----------------------------------------------------------------------------
(* Every part is read: where the reader takes a value it is, at the end of *)
(* the part, where that value brings it.                                   *)

ReadsAlong(reading, text) ==
  /\ reading[0] = Start
  /\ \A i \in 1 .. Len(text) : reading[i] = ReadToken(reading[i - 1], text[i])

LEMMA ReadersAllAlong ==
  ASSUME NEW text, Len(text) \in Nat, NEW reading, ReadsAlong(reading, text)
  PROVE  \A i \in 0 .. Len(text) : IsReader(reading[i])
<1> DEFINE n == Len(text)
           Good == {i \in Nat : i <= n => IsReader(reading[i])}
<1>1. 0 \in Good
  <2>1. IsReader(Start)
    <3>1. "value" \notin Inside
      BY DEF Inside
    <3> QED BY <3>1, EmptyStack, ParserFields DEF Start
  <2> QED BY <2>1 DEF ReadsAlong
<1>2. ASSUME NEW i \in Nat, i \in Good PROVE i + 1 \in Good
  <2> SUFFICES ASSUME i + 1 <= n PROVE IsReader(reading[i + 1])
    OBVIOUS
  <2>1. i + 1 \in 1 .. n /\ (i + 1) - 1 = i
    OBVIOUS
  <2>2. reading[i + 1] = ReadToken(reading[i], text[i + 1])
    BY <2>1 DEF ReadsAlong
  <2>3. IsReader(reading[i])
    BY <1>2
  <2> QED BY <2>2, <2>3, ReadTokenIsReader
<1> HIDE DEF Good
<1>3. Nat \subseteq Good
  BY <1>1, <1>2, NumbersByInduction
<1> QED BY <1>3 DEF Good

IsRead(reading, whole) ==
  TakesValue(reading[whole.from - 1]) =>
    reading[whole.to] = Return(reading[whole.from - 1].calls, whole.value)

IsWithin(reading, open, calls, key) ==
  reading[open.to] =
    InCall(IF open.from = open.to THEN "first" ELSE "next", calls, Call(open.value, key))

IsBeingRead(reading, open) ==
  TakesValue(reading[open.from - 1]) =>
    \E key : IsWithin(reading, open, reading[open.from - 1].calls, key)

\* The reader comes from what is read of a container to its next value.
LEMMA ItemIsReached ==
  ASSUME NEW text \in Seq(Tokens), NEW reading, ReadsAlong(reading, text),
         NEW open, IsOpen(text, open), NEW calls, IsStack(calls), NEW key,
         IsWithin(reading, open, calls, key),
         NEW start \in 1 .. Len(text), start = ValueStart(text, open)
  PROVE  \E call : /\ TakesValue(reading[start - 1])
                   /\ reading[start - 1].calls = Append(calls, call)
                   /\ call.result = open.value
                   /\ IsArray(call) \/ call.key = text[start - 2]
<1> DEFINE item == ItemStart(text, open)
           call == Call(open.value, key)
           Now(at) == InCall(at, calls, call)
<1>0. /\ open.from \in Nat /\ open.to \in Nat /\ 1 <= open.from /\ open.from <= open.to
      /\ Len(text) \in Nat /\ IsPart(text, open)
  BY DEF IsOpen, IsPart
<1>1. item \in Nat /\ item # 0 /\ item > open.to /\ start >= item
  BY <1>0, ValueStarts
<1>2. call.result = open.value /\ (IsArray(call) <=> open.value[1] = "array")
  BY CallFields DEF IsArray
<1>3. reading[open.to] = Now(IF open.from = open.to THEN "first" ELSE "next")
  BY DEF IsWithin
<1>4. \A at : Now(at).calls = Append(calls, call)
  BY TokensOfCall DEF ReadsInCall
<1>5. /\ ReadToken(Now("next"), ",") = Now(AfterComma(call))
      /\ \A k \in StringTokens :
           /\ ReadToken(Now("key"), k) = InCall("colon", calls, Call(open.value, k))
           /\ ~IsArray(call) =>
                ReadToken(Now("first"), k) = InCall("colon", calls, Call(open.value, k))
      /\ TakesValue(Now("value")) /\ (IsArray(call) => TakesValue(Now("first")))
  <2>1. ReadsInCall(calls, call)
    BY TokensOfCall
  <2> HIDE DEF call
  <2> QED BY <1>2, <2>1 DEF ReadsInCall
<1> HIDE DEF item, call, Now
<1>6. \A i \in 1 .. Len(text) : reading[i] = ReadToken(reading[i - 1], text[i])
  BY DEF ReadsAlong
<1>7. reading[item - 1] = Now(IF open.from = open.to THEN "first" ELSE AfterComma(call))
  <2>1. CASE open.from = open.to
    <3>1. item = open.to + 1
      BY <2>1 DEF item, ItemStart
    <3>2. item - 1 = open.to
      BY <1>0, <3>1
    <3> QED BY <1>3, <2>1, <3>2
  <2>2. CASE open.from # open.to
    <3>1. item = open.to + 2 /\ Peek(text, open.to + 1) = ","
      BY <1>1, <2>2 DEF item, ItemStart
    <3>2. open.to + 1 \in 1 .. Len(text) /\ text[open.to + 1] = ","
      BY <3>1, PeekInText
    <3>3. item - 1 = open.to + 1 /\ (open.to + 1) - 1 = open.to
      <4>1. \A to \in Nat : (to + 2) - 1 = to + 1 /\ (to + 1) - 1 = to
        OBVIOUS
      <4> QED BY <1>0, <3>1, <4>1
    <3>4. reading[open.to + 1] = ReadToken(reading[open.to], text[open.to + 1])
      BY <1>6, <3>2, <3>3
    <3>5. reading[item - 1] = ReadToken(Now("next"), ",")
      BY <1>3, <2>2, <3>2, <3>3, <3>4
    <3> QED BY <1>5, <2>2, <3>5
  <2> QED BY <2>1, <2>2
<1>8. CASE IsArray(call)
  <2>1. start = item
    BY <1>2, <1>8 DEF ValueStart, item
  <2>2. reading[start - 1] \in {Now("first"), Now("value")}
    BY <1>7, <1>8, <2>1 DEF AfterComma
  <2> QED BY <1>2, <1>4, <1>5, <1>8, <2>2
<1>9. CASE ~IsArray(call)
  <2>1. start = item + 2 /\ Peek(text, item) \in StringTokens /\ Peek(text, item + 1) = ":"
    BY <1>1, <1>2, <1>9 DEF ValueStart, item
  <2>2. Peek(text, item) = text[item] /\ Peek(text, item + 1) = text[item + 1]
        /\ item \in 1 .. Len(text) /\ item + 1 \in 1 .. Len(text)
    <3>1. item \in 1 .. Len(text) /\ item + 1 \in 1 .. Len(text)
      BY <1>0, <1>1, <2>1
    <3> QED BY <3>1 DEF Peek
  <2>3. /\ reading[item] = ReadToken(reading[item - 1], text[item])
        /\ reading[item + 1] = ReadToken(reading[item], text[item + 1])
    <3>1. (item + 1) - 1 = item
      BY <1>1
    <3> QED BY <1>6, <2>2, <3>1
  <2> DEFINE next == Call(open.value, text[item])
  <2>4. reading[item] = InCall("colon", calls, next)
    <3>1. \E at \in {"first", "key"} : reading[item - 1] = Now(at)
      BY <1>7, <1>9 DEF AfterComma
    <3> QED BY <1>5, <1>9, <2>1, <2>2, <2>3, <3>1
  <2>5. next.result = open.value /\ next.key = text[item]
    BY CallFields
  <2> HIDE DEF next
  <2> DEFINE after == InCall("value", calls, next)
  <2>6. reading[item + 1] = after
    <3>1. ReadToken(InCall("colon", calls, next), ":") = after
      BY TokensOfCall DEF ReadsInCall
    <3> QED BY <2>1, <2>2, <2>3, <2>4, <3>1
  <2>7. TakesValue(after) /\ after.calls = Append(calls, next)
    BY TokensOfCall DEF ReadsInCall
  <2>8. start - 1 = item + 1 /\ start - 2 = item
    BY <1>1, <2>1
  <2> QED BY <2>5, <2>6, <2>7, <2>8
<1> QED BY <1>8, <1>9

LEMMA PartsAreRead ==
  ASSUME NEW text \in Seq(Tokens), NEW reading, ReadsAlong(reading, text)
  PROVE  \A whole \in PartsOf(text).whole : IsRead(reading, whole)
<1> DEFINE parts == PartsOf(text)
           W == {w \in parts.whole : IsRead(reading, w)}
           O == {o \in parts.open : IsBeingRead(reading, o)}
           n == Len(text)
<1>0. /\ n \in Nat /\ DOMAIN text = 1 .. n
      /\ \A i \in 1 .. n : reading[i] = ReadToken(reading[i - 1], text[i])
  BY DEF ReadsAlong
<1>1. AreParts(text, parts) /\ Closed(text, parts.whole, parts.open)
  BY PartsAreTheSmallest
<1>2. \A i \in 0 .. n : IsReader(reading[i]) /\ IsStack(reading[i].calls)
  BY <1>0, ReadersAllAlong DEF IsReader
<1> HIDE DEF parts, n
<1>3. ASSUME NEW w \in Leaves(text) PROVE IsRead(reading, w)
  <2>0. PICK i \in 1 .. n :
          \E value :
            /\ w = Part(i, i, value)
            /\ \/ text[i] \in StringTokens /\ value = <<"string", text[i]>>
               \/ text[i] = Scalar /\ value = <<Scalar>>
    BY <1>0 DEF Leaves
  <2>1. PICK value :
          /\ w = Part(i, i, value)
          /\ \/ text[i] \in StringTokens /\ value = <<"string", text[i]>>
             \/ text[i] = Scalar /\ value = <<Scalar>>
    BY <2>0
  <2>2. w.from = i /\ w.to = i /\ w.value = value
    BY <2>1, PartFields
  <2> DEFINE before == reading[i - 1]
  <2> HIDE DEF before
  <2>3. ASSUME TakesValue(before) PROVE reading[i] = Return(before.calls, value)
    <3>1. /\ \A token \in StringTokens :
               ReadToken(before, token) = Return(before.calls, <<"string", token>>)
          /\ ReadToken(before, Scalar) = Return(before.calls, <<Scalar>>)
      BY <2>3, FirstToken
    <3>2. reading[i] = ReadToken(before, text[i])
      BY <1>0 DEF before
    <3> QED BY <2>1, <3>1, <3>2
  <2> QED BY <2>2, <2>3 DEF IsRead, before
<1>4. ASSUME NEW o \in Brackets(text) PROVE IsBeingRead(reading, o)
  <2>0. PICK i \in 1 .. n :
          \E value :
            /\ o = Part(i, i, value)
            /\ \/ text[i] = "[" /\ value = EmptyArray
               \/ text[i] = "{" /\ value = EmptyObject
    BY <1>0 DEF Brackets
  <2>1. PICK value :
          /\ o = Part(i, i, value)
          /\ \/ text[i] = "[" /\ value = EmptyArray
             \/ text[i] = "{" /\ value = EmptyObject
    BY <2>0
  <2>2. o.from = i /\ o.to = i /\ o.value = value
    <3>1. o = Part(i, i, value)
      BY <2>1
    <3> QED BY <3>1, PartFields
  <2> DEFINE before == reading[i - 1]
  <2> HIDE DEF before
  <2>3. ASSUME TakesValue(before) PROVE reading[i] = InCall("first", before.calls, Call(value, ""))
    <3>1. /\ ReadToken(before, "[") = InCall("first", before.calls, Call(EmptyArray, ""))
          /\ ReadToken(before, "{") = InCall("first", before.calls, Call(EmptyObject, ""))
      BY <2>3, FirstToken DEF InCall
    <3>2. reading[i] = ReadToken(before, text[i])
      BY <1>0 DEF before
    <3> QED BY <2>1, <3>1, <3>2
  <2> QED BY <2>2, <2>3 DEF IsBeingRead, IsWithin, before
\* Where the part that is read of a container starts.
<1>5. ASSUME NEW o, IsOpen(text, o), IsBeingRead(reading, o), TakesValue(reading[o.from - 1])
      PROVE  LET calls == reading[o.from - 1].calls IN
             /\ IsStack(calls)
             /\ \E key : IsWithin(reading, o, calls, key)
  <2>1. o.from - 1 \in 0 .. n
    BY <1>0, <1>5 DEF IsOpen, IsPart, n
  <2> QED BY <1>2, <1>5, <2>1 DEF IsBeingRead
<1>6. ASSUME NEW o, IsOpen(text, o), IsBeingRead(reading, o), Peek(text, o.to + 1) = EndOf(o)
      PROVE  IsRead(reading, Ended(o))
  <2> SUFFICES ASSUME TakesValue(reading[o.from - 1])
               PROVE  reading[o.to + 1] = Return(reading[o.from - 1].calls, o.value)
    BY PartFields DEF IsRead, Ended
  <2> DEFINE calls == reading[o.from - 1].calls
  <2>1. PICK key : IsWithin(reading, o, calls, key)
    BY <1>5, <1>6
  <2>2. IsStack(calls)
    BY <1>5, <1>6
  <2> DEFINE call == Call(o.value, key)
  <2>3. call.result = o.value /\ Closing(call) = EndOf(o)
    BY CallFields DEF Closing, EndOf, IsArray
  <2> HIDE DEF calls, call
  <2>4. \A at \in {"first", "next"} :
          ReadToken(InCall(at, calls, call), EndOf(o)) = Return(calls, o.value)
    <3>1. ReadsInCall(calls, call)
      BY <2>2, TokensOfCall
    <3> QED BY <2>3, <3>1 DEF ReadsInCall
  <2>5. ReadToken(reading[o.to], EndOf(o)) = Return(calls, o.value)
    BY <2>1, <2>4 DEF call, IsWithin
  <2>6. reading[o.to + 1] = ReadToken(reading[o.to], EndOf(o))
    <3>1. Peek(text, o.to + 1) # ""
      BY <1>6 DEF EndOf
    <3>2. o.to + 1 \in 1 .. n /\ text[o.to + 1] = EndOf(o)
      BY <1>6, <3>1, PeekInText DEF n
    <3>3. (o.to + 1) - 1 = o.to
      BY <1>6 DEF IsOpen, IsPart
    <3> QED BY <1>0, <3>2, <3>3
  <2> QED BY <2>5, <2>6 DEF calls
<1>7. ASSUME NEW o, IsOpen(text, o), IsBeingRead(reading, o),
             NEW w, IsPart(text, w), IsRead(reading, w), w.from = ValueStart(text, o)
      PROVE  IsBeingRead(reading, Longer(text, o, w))
  <2> DEFINE longer == Longer(text, o, w)
             calls == reading[o.from - 1].calls
  <2>1. longer.from = o.from /\ longer.to = w.to /\ o.to < w.from
    BY <1>7, NextParts
  <2>2. /\ o.from \in Nat /\ o.to \in Nat /\ w.from \in 1 .. n /\ w.to \in Nat
        /\ o.from <= o.to /\ w.from <= w.to /\ IsContainer(o.value)
    BY <1>7 DEF IsOpen, IsPart, n
  <2> HIDE DEF longer
  <2>3. longer.from # longer.to
    BY <2>1, <2>2
  <2> SUFFICES ASSUME TakesValue(reading[o.from - 1])
               PROVE  \E key : reading[w.to] = InCall("next", calls, Call(longer.value, key))
    BY <2>1, <2>3 DEF IsBeingRead, IsWithin, longer
  <2>4. PICK key : IsWithin(reading, o, calls, key)
    BY <1>5, <1>7
  <2>5. IsStack(calls)
    BY <1>5, <1>7
  <2> HIDE DEF calls
  <2>6. PICK call : /\ TakesValue(reading[w.from - 1])
                    /\ reading[w.from - 1].calls = Append(calls, call)
                    /\ call.result = o.value
                    /\ IsArray(call) \/ call.key = text[w.from - 2]
    <3> DEFINE start == w.from
    <3>1. start \in 1 .. Len(text) /\ start = ValueStart(text, o)
      BY <1>7, <2>2 DEF n
    <3> HIDE DEF start
    <3>2. \E call : /\ TakesValue(reading[start - 1])
                    /\ reading[start - 1].calls = Append(calls, call)
                    /\ call.result = o.value
                    /\ IsArray(call) \/ call.key = text[start - 2]
      BY <1>7, <2>4, <2>5, <3>1, ItemIsReached
    <3> QED BY <3>2 DEF start
  <2>7. reading[w.to] = Return(Append(calls, call), w.value)
    BY <1>7, <2>6 DEF IsRead
  <2>8. Extend(call, w.value) = Call(longer.value, call.key)
    BY <2>2, <2>6, ExtendedCall DEF longer
  <2>9. \A value : Return(Append(calls, call), value) = InCall("next", calls, Extend(call, value))
    <3>1. ReadsInCall(calls, call)
      BY <2>5, TokensOfCall
    <3> QED BY <3>1 DEF ReadsInCall
  <2> QED BY <2>7, <2>8, <2>9
<1> HIDE DEF W, O
<1>8. \A w : w \in W <=> w \in parts.whole /\ IsRead(reading, w)
  BY DEF W
<1>9. \A o : o \in O <=> o \in parts.open /\ IsBeingRead(reading, o)
  BY DEF O
<1>10. Closed(text, W, O)
  <2>1. Leaves(text) \subseteq W /\ Brackets(text) \subseteq O
    BY <1>1, <1>3, <1>4, <1>8, <1>9 DEF Closed
  <2>2. ASSUME NEW o \in O, Peek(text, o.to + 1) = EndOf(o) PROVE Ended(o) \in W
    <3>1. o \in parts.open /\ IsOpen(text, o) /\ IsBeingRead(reading, o)
      BY <1>1, <1>9 DEF AreParts
    <3>2. Ended(o) \in parts.whole
      BY <1>1, <2>2, <3>1 DEF Closed
    <3> QED BY <1>6, <1>8, <2>2, <3>1, <3>2
  <2>3. ASSUME NEW o \in O, NEW w \in W, w.from = ValueStart(text, o)
        PROVE  Longer(text, o, w) \in O
    <3>1. /\ o \in parts.open /\ IsOpen(text, o) /\ IsBeingRead(reading, o)
          /\ w \in parts.whole /\ IsPart(text, w) /\ IsRead(reading, w)
      BY <1>1, <1>8, <1>9 DEF AreParts
    <3>2. Longer(text, o, w) \in parts.open
      BY <1>1, <2>3, <3>1 DEF Closed
    <3> QED BY <1>7, <1>9, <2>3, <3>1, <3>2
  <2> QED BY <2>1, <2>2, <2>3 DEF Closed
<1>11. parts.whole \subseteq W
  BY <1>10, PartsAreTheSmallest DEF parts
<1> QED BY <1>8, <1>11 DEF parts

-----------------------------------------------------------------------------
(* Nothing else is read: after each token the calls under way are parts of *)
(* the text, one within the other.                                         *)

\* What a call has read of its container starts at a position, and the next
\* value of it at another.
WaitsFor(text, call, from, start) ==
  \E open \in PartsOf(text).open :
    /\ open.from = from /\ open.value = call.result
    /\ start # 0 /\ start = ValueStart(text, open)
    /\ IsArray(call) \/ call.key = text[start - 2]

Waiting(text, calls, start) ==
  \E from \in Seq(Nat) :
    /\ Len(from) = Len(calls) + 1 /\ from[1] = 1 /\ from[Len(calls) + 1] = start
    /\ \A m \in 1 .. Len(calls) : WaitsFor(text, calls[m], from[m], from[m + 1])

LEMMA WaitingForTheDocument ==
  ASSUME NEW text, NEW start
  PROVE  Waiting(text, <<>>, start) <=> start = 1
<1> DEFINE empty == <<>>
<1>0. Len(empty) = 0
  OBVIOUS
<1>2. <<1>> \in Seq(Nat) /\ Len(<<1>>) = 1 /\ <<1>>[1] = 1
  OBVIOUS
<1> HIDE DEF empty
<1>1. ASSUME Waiting(text, empty, start) PROVE start = 1
  BY <1>0, <1>1 DEF Waiting
<1>3. ASSUME start = 1 PROVE Waiting(text, empty, start)
  <2> DEFINE from == <<1>>
  <2>1. from \in Seq(Nat) /\ Len(from) = 1 /\ from[1] = 1
    BY <1>2
  <2> HIDE DEF from
  <2> QED BY <1>0, <1>3, <2>1 DEF Waiting
<1> QED BY <1>1, <1>3 DEF empty

LEMMA WaitingInOneMore ==
  ASSUME NEW text, NEW calls, IsStack(calls), NEW from \in Nat, Waiting(text, calls, from),
         NEW call, NEW start \in Nat, WaitsFor(text, call, from, start)
  PROVE  Waiting(text, Append(calls, call), start)
<1> DEFINE more == Append(calls, call)
           n == Len(calls)
<1>1. /\ n \in Nat /\ Len(more) = n + 1 /\ more[n + 1] = call
      /\ \A i \in 1 .. n : more[i] = calls[i]
  BY Pushed
<1>2. PICK s \in Seq(Nat) :
        /\ Len(s) = n + 1 /\ s[1] = 1 /\ s[n + 1] = from
        /\ \A m \in 1 .. n : WaitsFor(text, calls[m], s[m], s[m + 1])
  BY DEF Waiting
<1> DEFINE longer == Append(s, start)
<1> HIDE DEF more, n
<1>3. /\ longer \in Seq(Nat) /\ Len(longer) = n + 2 /\ longer[n + 2] = start
      /\ \A i \in 1 .. n + 1 : longer[i] = s[i]
  BY <1>1, <1>2
<1> HIDE DEF longer
<1>4. ASSUME NEW m \in 1 .. n + 1 PROVE WaitsFor(text, more[m], longer[m], longer[m + 1])
  <2>1. CASE m = n + 1
    <3>1. longer[m] = from /\ longer[m + 1] = start
      BY <1>1, <1>2, <1>3, <2>1
    <3> QED BY <1>1, <2>1, <3>1
  <2>2. CASE m \in 1 .. n
    <3>1. longer[m] = s[m] /\ longer[m + 1] = s[m + 1]
      BY <1>1, <1>3, <2>2
    <3> QED BY <1>1, <1>2, <2>2, <3>1
  <2> QED BY <1>1, <2>1, <2>2
<1>5. longer[1] = 1 /\ longer[Len(more) + 1] = start /\ Len(longer) = Len(more) + 1
  BY <1>1, <1>2, <1>3
<1> QED BY <1>1, <1>3, <1>4, <1>5 DEF Waiting, more

LEMMA WaitingInTheLast ==
  ASSUME NEW text, NEW calls, IsStack(calls), calls # <<>>, NEW start, Waiting(text, calls, start)
  PROVE  \E from \in Nat :
           Waiting(text, Front(calls), from) /\ WaitsFor(text, Last(calls), from, start)
<1> DEFINE front == Front(calls)
           n == Len(calls)
<1>1. /\ n \in Nat /\ n > 0 /\ Len(front) = n - 1 /\ Last(calls) = calls[n]
      /\ \A i \in 1 .. n - 1 : front[i] = calls[i]
  BY Popped
<1>2. PICK s \in Seq(Nat) :
        /\ Len(s) = n + 1 /\ s[1] = 1 /\ s[n + 1] = start
        /\ \A m \in 1 .. n : WaitsFor(text, calls[m], s[m], s[m + 1])
  BY DEF Waiting
<1> DEFINE shorter == [i \in 1 .. n |-> s[i]]
<1> HIDE DEF front, n
<1>3. shorter \in Seq(Nat) /\ Len(shorter) = n /\ \A i \in 1 .. n : shorter[i] = s[i]
  <2>1. \A i \in 1 .. n : s[i] \in Nat
    BY <1>1, <1>2
  <2> QED BY <1>1, <2>1
<1> HIDE DEF shorter
<1>4. Waiting(text, front, s[n])
  <2>1. ASSUME NEW m \in 1 .. n - 1 PROVE WaitsFor(text, front[m], shorter[m], shorter[m + 1])
    <3>1. m \in 1 .. n /\ m + 1 \in 1 .. n
      BY <1>1
    <3> QED BY <1>1, <1>2, <1>3, <3>1
  <2>2. shorter[1] = 1 /\ shorter[Len(front) + 1] = s[n] /\ Len(shorter) = Len(front) + 1
    BY <1>1, <1>2, <1>3
  <2> QED BY <1>1, <1>3, <2>1, <2>2 DEF Waiting
<1>5. WaitsFor(text, calls[n], s[n], start) /\ s[n] \in Nat
  BY <1>1, <1>2
<1> QED BY <1>1, <1>4, <1>5 DEF front

\* What the reader has read after k tokens when it is within a container.
IsWithinPart(text, reading, k, calls, call, open) ==
  /\ reading.calls = Append(calls, call) /\ IsStack(calls)
  /\ Waiting(text, calls, open.from) /\ open.value = call.result
  /\ \/ reading.at = "first" /\ open.from = open.to /\ open.to = k
     \/ reading.at = "next" /\ open.from # open.to /\ open.to = k
     \/ reading.at = "key" /\ ~IsArray(call) /\ ItemStart(text, open) = k + 1
     \/ /\ reading.at = "colon" /\ ~IsArray(call) /\ ItemStart(text, open) = k /\ k # 0
        /\ text[k] = call.key /\ call.key \in StringTokens

IsAfter(text, reading, k) ==
  \/ reading.at = "throws"
  \/ reading.at = "end" /\ Part(1, k, reading.value) \in PartsOf(text).whole
  \/ reading.at = "value" /\ IsStack(reading.calls) /\ Waiting(text, reading.calls, k + 1)
  \/ \E calls, call : \E open \in PartsOf(text).open :
       IsWithinPart(text, reading, k, calls, call, open)

LEMMA ThrowsIsAfter ==
  ASSUME NEW text, NEW k
  PROVE  IsAfter(text, Throws, k)
BY ParserFields DEF Throws, IsAfter

\* At the end of a value the reader is in the container it is in, which is
\* longer now.
LEMMA ValueEnds ==
  ASSUME NEW text \in Seq(Tokens), NEW calls, IsStack(calls),
         NEW whole \in PartsOf(text).whole, Waiting(text, calls, whole.from)
  PROVE  IsAfter(text, Return(calls, whole.value), whole.to)
<1>0. IsPart(text, whole) /\ Closed(text, PartsOf(text).whole, PartsOf(text).open)
      /\ AreParts(text, PartsOf(text))
  BY PartsAreTheSmallest DEF AreParts
<1>1. CASE calls = <<>>
  <2>1. whole.from = 1
    BY <1>1, WaitingForTheDocument
  <2>2. Return(calls, whole.value) = Parser("end", <<>>, whole.value)
    BY <1>1 DEF Return
  <2>3. whole = Part(1, whole.to, whole.value)
    BY <1>0, <2>1 DEF IsPart
  <2>4. Return(calls, whole.value).at = "end" /\ Return(calls, whole.value).value = whole.value
    BY <2>2, ParserFields
  <2> QED BY <2>3, <2>4 DEF IsAfter
<1>2. CASE calls # <<>>
  <2>1. PICK from \in Nat :
          Waiting(text, Front(calls), from) /\ WaitsFor(text, Last(calls), from, whole.from)
    BY <1>2, WaitingInTheLast
  <2> DEFINE front == Front(calls)
             call == Last(calls)
  <2>2. PICK open \in PartsOf(text).open :
          /\ open.from = from /\ open.value = call.result
          /\ whole.from = ValueStart(text, open)
          /\ IsArray(call) \/ call.key = text[whole.from - 2]
    BY <2>1 DEF WaitsFor
  <2>3. IsOpen(text, open) /\ IsContainer(open.value)
    BY <1>0 DEF AreParts, IsOpen
  <2>4. IsStack(front)
    BY <1>2, Popped
  <2> DEFINE longer == Longer(text, open, whole)
             next == Extend(call, whole.value)
             after == Parser("next", Append(front, next), <<>>)
  <2>5. Return(calls, whole.value) = after
    BY <1>2 DEF Return
  <2> HIDE DEF front, call
  <2>6. next = Call(longer.value, call.key)
    BY <2>2, <2>3, ExtendedCall
  <2>7. longer \in PartsOf(text).open
    BY <1>0, <2>2 DEF Closed
  <2>8. longer.from = from /\ longer.to = whole.to /\ longer.from # longer.to
    <3>1. longer.from = open.from /\ longer.to = whole.to /\ open.to < whole.from
      BY <1>0, <2>2, <2>3, NextParts
    <3>2. /\ open.from \in Nat /\ open.to \in Nat /\ whole.from \in Nat /\ whole.to \in Nat
          /\ open.from <= open.to /\ whole.from <= whole.to
      BY <1>0, <2>3 DEF IsOpen, IsPart
    <3> HIDE DEF longer
    <3> QED BY <2>2, <3>1, <3>2
  <2> HIDE DEF longer, next
  <2>9. next.result = longer.value
    BY <2>6, CallFields
  <2>10. after.at = "next" /\ after.calls = Append(front, next)
    <3> DEFINE more == Append(front, next)
    <3> HIDE DEF more
    <3>1. Parser("next", more, <<>>).at = "next" /\ Parser("next", more, <<>>).calls = more
      BY ParserFields
    <3> QED BY <3>1 DEF more
  <2> HIDE DEF after
  <2>11. IsWithinPart(text, after, whole.to, front, next, longer)
    BY <2>1, <2>4, <2>8, <2>9, <2>10 DEF IsWithinPart, front
  <2> QED BY <2>5, <2>7, <2>11 DEF IsAfter
<1> QED BY <1>1, <1>2

\* A container ends where its bracket is closed.
LEMMA ContainerEnds ==
  ASSUME NEW text \in Seq(Tokens), NEW calls, IsStack(calls), NEW call,
         NEW open \in PartsOf(text).open, Waiting(text, calls, open.from),
         open.value = call.result, open.to + 1 \in 1 .. Len(text),
         text[open.to + 1] = Closing(call)
  PROVE  IsAfter(text, Return(calls, call.result), open.to + 1)
<1> DEFINE whole == Ended(open)
<1>1. Closed(text, PartsOf(text).whole, PartsOf(text).open)
  BY PartsAreTheSmallest
<1>2. Peek(text, open.to + 1) = EndOf(open)
  <2>1. Closing(call) = EndOf(open)
    BY DEF EndOf, Closing, IsArray
  <2>2. Peek(text, open.to + 1) = text[open.to + 1]
    BY DEF Peek
  <2> QED BY <2>1, <2>2
<1>3. whole \in PartsOf(text).whole
  BY <1>1, <1>2 DEF Closed
<1>4. whole.from = open.from /\ whole.to = open.to + 1 /\ whole.value = call.result
  BY PartFields DEF Ended
<1> HIDE DEF whole
<1> QED BY <1>3, <1>4, ValueEnds

\* A value starts where one is waited for.
LEMMA ValueBegins ==
  ASSUME NEW text \in Seq(Tokens), NEW calls, IsStack(calls),
         NEW i \in 1 .. Len(text), Waiting(text, calls, i)
  PROVE  IsAfter(text, ReadValue(calls, text[i]), i)
<1> DEFINE token == text[i]
<1>0. /\ Closed(text, PartsOf(text).whole, PartsOf(text).open)
      /\ DOMAIN text = 1 .. Len(text) /\ i \in DOMAIN text
  BY PartsAreTheSmallest
<1>1. ASSUME NEW value,
             \/ token \in StringTokens /\ value = <<"string", token>>
             \/ token = Scalar /\ value = <<Scalar>>
      PROVE  IsAfter(text, Return(calls, value), i)
  <2> DEFINE whole == Part(i, i, value)
  <2>1. whole \in PartsOf(text).whole
    <3>1. whole \in Leaves(text)
      BY <1>0, <1>1 DEF Leaves
    <3> QED BY <1>0, <3>1 DEF Closed
  <2>2. whole.from = i /\ whole.to = i /\ whole.value = value
    BY PartFields
  <2> HIDE DEF whole
  <2> QED BY <2>1, <2>2, ValueEnds
<1>2. ASSUME NEW value,
             \/ token = "[" /\ value = EmptyArray
             \/ token = "{" /\ value = EmptyObject
      PROVE  IsAfter(text, InCall("first", calls, Call(value, "")), i)
  <2> DEFINE open == Part(i, i, value)
             call == Call(value, "")
             after == InCall("first", calls, call)
  <2>1. open \in PartsOf(text).open
    <3>1. open \in Brackets(text)
      BY <1>0, <1>2 DEF Brackets
    <3> QED BY <1>0, <3>1 DEF Closed
  <2>2. open.from = i /\ open.to = i /\ open.value = value
    BY PartFields
  <2>3. call.result = value
    BY CallFields
  <2> HIDE DEF open, call
  <2>4. after.at = "first" /\ after.calls = Append(calls, call)
    BY DEF InCall, Parser
  <2> HIDE DEF after
  <2>5. IsWithinPart(text, after, i, calls, call, open)
    BY <2>2, <2>3, <2>4 DEF IsWithinPart
  <2>6. IsAfter(text, after, i)
    BY <2>1, <2>5 DEF IsAfter
  <2> QED BY <2>6 DEF after, call
<1> HIDE DEF token
<1>3. CASE token \in StringTokens
  <2>1. token # Scalar /\ token # "[" /\ token # "{"
    BY <1>3, TokensDiffer DEF Punctuation
  <2>2. ReadValue(calls, token) = Return(calls, <<"string", token>>)
    BY <1>3, <2>1 DEF ReadValue
  <2> QED BY <1>1, <1>3, <2>2 DEF token
<1>4. CASE token = Scalar
  <2>1. ReadValue(calls, token) = Return(calls, <<Scalar>>)
    BY <1>4, TokensDiffer DEF ReadValue, Punctuation
  <2> QED BY <1>1, <1>4, <2>1 DEF token
<1>5. CASE token = "["
  <2>1. ReadValue(calls, token) = InCall("first", calls, Call(EmptyArray, ""))
    BY <1>5, TokensDiffer DEF ReadValue, InCall, Punctuation
  <2> QED BY <1>2, <1>5, <2>1 DEF token
<1>6. CASE token = "{"
  <2>1. ReadValue(calls, token) = InCall("first", calls, Call(EmptyObject, ""))
    BY <1>6, TokensDiffer DEF ReadValue, InCall, Punctuation
  <2> QED BY <1>2, <1>6, <2>1 DEF token
<1>7. CASE token \notin StringTokens \cup {Scalar, "[", "{"}
  <2>1. ReadValue(calls, token) = Throws
    BY <1>7 DEF ReadValue
  <2> QED BY <2>1, ThrowsIsAfter DEF token
<1> QED BY <1>3, <1>4, <1>5, <1>6, <1>7

\* Every token leads from what is read so far to what is read with it.
LEMMA TokenIsAfter ==
  ASSUME NEW text \in Seq(Tokens), NEW reading, IsReader(reading),
         NEW k \in Nat, k + 1 \in 1 .. Len(text), text[k + 1] # Space, IsAfter(text, reading, k)
  PROVE  IsAfter(text, ReadToken(reading, text[k + 1]), k + 1)
<1> DEFINE token == text[k + 1]
           after == ReadToken(reading, token)
<1>1. token # Space /\ AreParts(text, PartsOf(text))
  BY PartsAreTheSmallest
<1>2. CASE reading.at = "value" /\ IsStack(reading.calls) /\ Waiting(text, reading.calls, k + 1)
  <2>1. after = ReadValue(reading.calls, token)
    BY <1>1, <1>2 DEF ReadToken
  <2>2. IsAfter(text, ReadValue(reading.calls, token), k + 1)
    <3> DEFINE i == k + 1
    <3>1. i \in 1 .. Len(text) /\ Waiting(text, reading.calls, i)
      BY <1>2
    <3> HIDE DEF i
    <3>2. IsAfter(text, ReadValue(reading.calls, text[i]), i)
      BY <1>2, <3>1, ValueBegins
    <3> QED BY <3>2 DEF i
  <2> QED BY <2>1, <2>2
<1>3. CASE reading.at \in {"throws", "end"}
  <2>1. after = Throws
    BY <1>1, <1>3 DEF ReadToken
  <2> QED BY <2>1, ThrowsIsAfter
<1>4. ASSUME NEW calls, NEW call, NEW open \in PartsOf(text).open,
             IsWithinPart(text, reading, k, calls, call, open)
      PROVE  IsAfter(text, after, k + 1)
  <2>1. /\ reading.calls = Append(calls, call) /\ IsStack(calls)
        /\ Waiting(text, calls, open.from) /\ open.value = call.result
    BY <1>4 DEF IsWithinPart
  <2>2. /\ IsOpen(text, open) /\ open.from \in Nat /\ open.to \in Nat
        /\ (IsArray(call) <=> open.value[1] = "array")
    BY <1>1, <2>1 DEF AreParts, IsOpen, IsPart, IsArray
  <2> DEFINE more == Append(calls, call)
  <2>3. /\ more # <<>> /\ Front(more) = calls /\ Last(more) = call /\ IsStack(more)
        /\ reading.calls = more
    BY <2>1, Pushed
  <2> HIDE DEF more
  \* The bracket is closed.
  <2>4. ASSUME open.to = k, token = Closing(call) PROVE IsAfter(text, Close(more), k + 1)
    <3>1. Close(more) = Return(calls, call.result)
      BY <2>3 DEF Close
    <3>2. open.to + 1 \in 1 .. Len(text) /\ text[open.to + 1] = Closing(call)
      BY <2>4
    <3>3. IsAfter(text, Return(calls, call.result), open.to + 1)
      BY <2>1, <3>2, ContainerEnds
    <3> QED BY <2>4, <3>1, <3>3
  \* A key is read.
  <2>5. ASSUME ~IsArray(call), ItemStart(text, open) = k + 1
        PROVE  IsAfter(text, ReadKey(more, token), k + 1)
    <3>1. CASE token \in StringTokens
      <4> DEFINE next == Call(call.result, token)
                 then == InCall("colon", calls, next)
      <4>1. ReadKey(more, token) = then
        BY <2>3, <3>1 DEF ReadKey, InCall
      <4>2. next.result = call.result /\ next.key = token /\ ~IsArray(next)
        BY <2>5, CallFields DEF IsArray
      <4> HIDE DEF next
      <4>3. then.at = "colon" /\ then.calls = Append(calls, next)
        BY DEF InCall, Parser
      <4> HIDE DEF then
      <4>4. IsWithinPart(text, then, k + 1, calls, next, open)
        <5>1. k + 1 # 0
          OBVIOUS
        <5> QED BY <2>1, <2>5, <3>1, <4>2, <4>3, <5>1 DEF IsWithinPart
      <4> QED BY <4>1, <4>4 DEF IsAfter
    <3>2. CASE token \notin StringTokens
      <4>1. ReadKey(more, token) = Throws
        BY <3>2 DEF ReadKey
      <4> QED BY <4>1, ThrowsIsAfter
    <3> QED BY <3>1, <3>2
  \* A value is waited for.
  <2>6. ASSUME NEW start \in Nat, start # 0, start = ValueStart(text, open),
               IsArray(call) \/ call.key = text[start - 2]
        PROVE  Waiting(text, more, start)
    <3>1. WaitsFor(text, call, open.from, start)
      BY <2>1, <2>6 DEF WaitsFor
    <3> QED BY <2>1, <2>2, <3>1, WaitingInOneMore DEF more
  <2>7. ASSUME NEW at, NEW start, start = k + 2, Waiting(text, more, start)
        PROVE  IsAfter(text, Parser("value", more, <<>>), k + 1)
    <3> DEFINE then == Parser("value", more, <<>>)
    <3>1. then.at = "value" /\ then.calls = more
      BY ParserFields
    <3>2. start = (k + 1) + 1
      BY <2>7
    <3> HIDE DEF then
    <3>3. IsAfter(text, then, k + 1)
      BY <2>3, <2>7, <3>1, <3>2 DEF IsAfter
    <3> QED BY <3>3 DEF then
  <2>8. CASE reading.at = "first" /\ open.from = open.to /\ open.to = k
    <3>1. after = ReadFirst(more, token)
      BY <1>1, <2>3, <2>8 DEF ReadToken
    <3>2. CASE token = Closing(call)
      <4>1. after = Close(more)
        BY <2>3, <3>1, <3>2 DEF ReadFirst
      <4> QED BY <2>4, <2>8, <3>2, <4>1
    <3>3. ItemStart(text, open) = k + 1
      BY <2>8 DEF ItemStart
    <3>4. CASE token # Closing(call) /\ IsArray(call)
      <4>1. after = ReadValue(more, token)
        BY <2>3, <3>1, <3>4 DEF ReadFirst
      <4> DEFINE start == k + 1
      <4>2. start = ValueStart(text, open) /\ start # 0 /\ start \in 1 .. Len(text)
        BY <2>2, <3>3, <3>4 DEF ValueStart
      <4> HIDE DEF start
      <4>3. Waiting(text, more, start)
        BY <2>6, <3>4, <4>2
      <4>4. IsAfter(text, ReadValue(more, text[start]), start)
        BY <2>3, <4>2, <4>3, ValueBegins
      <4> QED BY <4>1, <4>4 DEF start
    <3>5. CASE token # Closing(call) /\ ~IsArray(call)
      <4>1. after = ReadKey(more, token)
        BY <2>3, <3>1, <3>5 DEF ReadFirst
      <4> QED BY <2>5, <3>3, <3>5, <4>1
    <3> QED BY <3>2, <3>4, <3>5
  <2>9. CASE reading.at = "next" /\ open.from # open.to /\ open.to = k
    <3>1. after = ReadNext(more, token)
      BY <1>1, <2>3, <2>9 DEF ReadToken
    <3>2. CASE token = Closing(call)
      <4>1. after = Close(more)
        BY <2>3, <3>1, <3>2 DEF ReadNext
      <4> QED BY <2>4, <2>9, <3>2, <4>1
    <3>3. CASE token # Closing(call) /\ token = ","
      <4>1. after = Parser(AfterComma(call), more, <<>>)
        BY <2>3, <3>1, <3>3 DEF ReadNext
      <4>2. ItemStart(text, open) = k + 2
        <5>1. Peek(text, k + 1) = ","
          BY <3>3 DEF Peek
        <5> QED BY <2>9, <5>1 DEF ItemStart
      <4>3. CASE IsArray(call)
        <5> DEFINE start == k + 2
        <5>1. start = ValueStart(text, open) /\ start # 0 /\ start \in Nat
          BY <2>2, <4>2, <4>3 DEF ValueStart
        <5> HIDE DEF start
        <5>2. Waiting(text, more, start)
          BY <2>6, <4>3, <5>1
        <5> QED BY <2>7, <4>1, <4>3, <5>2 DEF AfterComma, start
      <4>4. CASE ~IsArray(call)
        <5> DEFINE then == InCall("key", calls, call)
        <5>1. after = then
          BY <4>1, <4>4 DEF AfterComma, InCall, more
        <5>2. then.at = "key" /\ then.calls = Append(calls, call)
          BY DEF InCall, Parser
        <5>3. ItemStart(text, open) = (k + 1) + 1
          BY <4>2
        <5> HIDE DEF then
        <5>4. IsWithinPart(text, then, k + 1, calls, call, open)
          BY <2>1, <4>4, <5>2, <5>3 DEF IsWithinPart
        <5> QED BY <5>1, <5>4 DEF IsAfter
      <4> QED BY <4>3, <4>4
    <3>4. CASE token # Closing(call) /\ token # ","
      <4>1. after = Throws
        BY <2>3, <3>1, <3>4 DEF ReadNext
      <4> QED BY <4>1, ThrowsIsAfter
    <3> QED BY <3>2, <3>3, <3>4
  <2>10. CASE reading.at = "key" /\ ~IsArray(call) /\ ItemStart(text, open) = k + 1
    <3>1. after = ReadKey(more, token)
      BY <1>1, <2>3, <2>10 DEF ReadToken
    <3> QED BY <2>5, <2>10, <3>1
  <2>11. CASE /\ reading.at = "colon" /\ ~IsArray(call) /\ ItemStart(text, open) = k /\ k # 0
              /\ text[k] = call.key /\ call.key \in StringTokens
    <3>1. CASE token = ":"
      <4>1. after = Parser("value", more, <<>>)
        BY <1>1, <2>3, <2>11, <3>1 DEF ReadToken
      <4> DEFINE start == k + 2
      <4>2. k # 0
        BY <2>11
      <4>3. Peek(text, k) = text[k] /\ Peek(text, k + 1) = ":"
        <5>1. k \in 1 .. Len(text)
          BY <4>2
        <5> QED BY <3>1, <5>1 DEF Peek
      <4>4. start = ValueStart(text, open)
        BY <2>2, <2>11, <4>2, <4>3 DEF ValueStart
      <4>5. start \in Nat /\ start # 0 /\ call.key = text[start - 2]
        <5>1. start - 2 = k
          OBVIOUS
        <5> HIDE DEF start
        <5>2. start \in Nat /\ start # 0
          BY DEF start
        <5> QED BY <2>11, <5>1, <5>2
      <4> HIDE DEF start
      <4>6. Waiting(text, more, start)
        BY <2>6, <4>4, <4>5
      <4> QED BY <2>7, <4>1, <4>6 DEF start
    <3>2. CASE token # ":"
      <4>1. after = Throws
        BY <1>1, <2>3, <2>11, <3>2 DEF ReadToken
      <4> QED BY <4>1, ThrowsIsAfter
    <3> QED BY <3>1, <3>2
  <2> QED BY <1>4, <2>8, <2>9, <2>10, <2>11 DEF IsWithinPart
<1> QED BY <1>2, <1>3, <1>4 DEF IsAfter

LEMMA StartIsAfter ==
  ASSUME NEW text
  PROVE  IsAfter(text, Start, 0)
<1>1. Start.at = "value" /\ Start.calls = <<>>
  BY ParserFields DEF Start
<1> DEFINE one == 0 + 1
<1>2. one = 1
  OBVIOUS
<1> HIDE DEF one
<1>3. Waiting(text, <<>>, one)
  BY <1>2, WaitingForTheDocument
<1>4. Waiting(text, Start.calls, 0 + 1) /\ IsStack(Start.calls)
  BY <1>1, <1>3, EmptyStack DEF one
<1> QED BY <1>1, <1>4 DEF IsAfter

Solid == Tokens \ {Space}

LEMMA ReadsOnlyParts ==
  ASSUME NEW text \in Seq(Solid), NEW reading, ReadsAlong(reading, text)
  PROVE  IsAfter(text, reading[Len(text)], Len(text))
<1> DEFINE n == Len(text)
           Good == {k \in Nat : k <= n => IsAfter(text, reading[k], k)}
<1>0. /\ text \in Seq(Tokens) /\ n \in Nat
      /\ \A i \in 1 .. n : text[i] # Space
  BY DEF Solid
<1>1. 0 \in Good
  BY StartIsAfter DEF ReadsAlong
<1>2. ASSUME NEW k \in Nat, k \in Good PROVE k + 1 \in Good
  <2> SUFFICES ASSUME k + 1 <= n PROVE IsAfter(text, reading[k + 1], k + 1)
    OBVIOUS
  <2>1. k \in 0 .. n /\ k + 1 \in 1 .. n /\ (k + 1) - 1 = k
    BY <1>0
  <2>2. IsReader(reading[k]) /\ IsAfter(text, reading[k], k)
    BY <1>0, <1>2, <2>1, ReadersAllAlong
  <2>3. reading[k + 1] = ReadToken(reading[k], text[k + 1])
    BY <2>1 DEF ReadsAlong
  <2>4. IsAfter(text, ReadToken(reading[k], text[k + 1]), k + 1)
    BY <1>0, <2>1, <2>2, TokenIsAfter
  <2> QED BY <2>3, <2>4
<1> HIDE DEF Good
<1>3. n \in Good
  <2>1. Nat \subseteq Good
    BY <1>1, <1>2, NumbersByInduction
  <2> QED BY <1>0, <2>1
<1> QED BY <1>0, <1>3 DEF Good

\* A text without white space is read, in full, as what it stands for: as a
\* value of the whole text when it is one, and as an error when it is none.
LEMMA SolidTextsAreRead ==
  ASSUME NEW text \in Seq(Solid)
  PROVE  Parse(text) = ValuesOf(text)
<1> DEFINE n == Len(text)
           parts == PartsOf(text).whole
<1>0. text \in Seq(Tokens) /\ n \in Nat
  BY DEF Solid
<1>1. PICK reading : ReadsAlong(reading, text) /\ ReadTokens(text) = reading[n]
  BY <1>0, ReadingExists DEF ReadsAlong
<1> DEFINE last == reading[n]
<1> HIDE DEF n
<1>2. \A value : value \in ValuesOf(text) <=>
        \E p \in parts : p.from = 1 /\ p.to = n /\ p.value = value
  BY DEF ValuesOf, n
<1>3. ASSUME NEW p \in parts, p.from = 1, p.to = n
      PROVE  last.at = "end" /\ last.value = p.value
  <2>1. IsRead(reading, p)
    BY <1>0, <1>1, PartsAreRead
  <2>2. reading[p.from - 1] = Start
    BY <1>1, <1>3 DEF ReadsAlong
  <2>3. TakesValue(Start) /\ Start.calls = <<>>
    BY ParserFields DEF TakesValue, Start
  <2>4. last = Return(<<>>, p.value)
    BY <1>3, <2>1, <2>2, <2>3 DEF IsRead
  <2>5. last = Parser("end", <<>>, p.value)
    BY <2>4 DEF Return
  <2> HIDE DEF last
  <2> QED BY <2>5, ParserFields
<1>4. ASSUME last.at = "end" PROVE \E p \in parts : p.from = 1 /\ p.to = n /\ p.value = last.value
  <2>1. IsAfter(text, last, n)
    BY <1>1, ReadsOnlyParts DEF n
  <2> HIDE DEF last
  <2>2. ~ \E calls, call : \E open \in PartsOf(text).open :
          IsWithinPart(text, last, n, calls, call, open)
    BY <1>4 DEF IsWithinPart
  <2>3. Part(1, n, last.value) \in parts
    BY <1>4, <2>1, <2>2 DEF IsAfter
  <2> HIDE DEF parts
  <2> QED BY <2>3, PartFields
<1>5. Parse(text) = IF last.at = "end" THEN {last.value} ELSE {}
  BY <1>1 DEF Parse
<1> HIDE DEF last, parts
<1>6. ASSUME NEW value PROVE value \in ValuesOf(text) <=> (last.at = "end" /\ value = last.value)
  BY <1>2, <1>3, <1>4
<1> QED BY <1>5, <1>6

-----------------------------------------------------------------------------
(* White space says nothing. *)

LEMMA StripStep ==
  ASSUME NEW C
  PROVE  /\ Strip(<<>>) = <<>>
         /\ \A text \in Seq(C) : Strip(text) \in Seq(C \ {Space})
         /\ \A text \in Seq(C), token \in C :
              Strip(Append(text, token)) =
                IF token = Space THEN Strip(text) ELSE Append(Strip(text), token)
<1> DEFINE P == Seq(C \ {Space})
           piece(token) == IF token = Space THEN <<>> ELSE <<token>>
           pieces(text) == [i \in DOMAIN text |-> piece(text[i])]
<1>1. ASSUME NEW token \in C PROVE piece(token) \in P
  <2>1. CASE token = Space
    BY <2>1
  <2>2. CASE token # Space
    <3>1. token \in C \ {Space}
      BY <2>2
    <3>2. <<token>> \in P
      BY <3>1, OneChar
    <3> QED BY <2>2, <3>2
  <2> QED BY <2>1, <2>2
<1>2. \A text : Strip(text) = FlattenSeq(pieces(text))
  BY DEF Strip
<1>3. pieces(<<>>) = <<>>
  <2> HIDE DEF piece
  <2> QED OBVIOUS
<1> HIDE DEF P, piece
<1>4. ASSUME NEW text \in Seq(C)
      PROVE  /\ pieces(text) \in Seq(P) /\ Len(pieces(text)) = Len(text)
             /\ \A i \in 1 .. Len(text) : pieces(text)[i] = piece(text[i])
  <2>1. \A i \in 1 .. Len(text) : text[i] \in C /\ piece(text[i]) \in P
    BY <1>1
  <2> QED BY <2>1
<1>5. ASSUME NEW text \in Seq(C), NEW token \in C
      PROVE  pieces(Append(text, token)) = Append(pieces(text), piece(token))
  <2> DEFINE longer == Append(text, token)
             n == Len(text)
             left == pieces(longer)
             before == pieces(text)
             c == piece(token)
             right == Append(before, c)
  <2>1. /\ n \in Nat /\ longer \in Seq(C) /\ Len(longer) = n + 1 /\ longer[n + 1] = token
        /\ \A i \in 1 .. n : longer[i] = text[i]
    OBVIOUS
  <2> HIDE DEF longer
  <2>2. /\ before \in Seq(P) /\ Len(before) = n /\ c \in P
        /\ \A i \in 1 .. n : before[i] = piece(text[i])
    BY <1>1, <1>4
  <2>3. /\ left \in Seq(P) /\ Len(left) = n + 1
        /\ \A i \in 1 .. n + 1 : left[i] = piece(longer[i])
    BY <1>4, <2>1
  <2> HIDE DEF n, left, before
  <2>4. c = piece(token)
    OBVIOUS
  <2> HIDE DEF c
  <2>5. /\ right \in Seq(P) /\ Len(right) = n + 1 /\ right[n + 1] = c
        /\ \A i \in 1 .. n : right[i] = before[i]
    BY <2>2
  <2> HIDE DEF right
  <2>6. \A i \in 1 .. n + 1 : left[i] = right[i]
    <3> SUFFICES ASSUME NEW i \in 1 .. n + 1 PROVE left[i] = right[i]
      OBVIOUS
    <3>1. CASE i = n + 1
      BY <2>1, <2>3, <2>4, <2>5, <3>1
    <3>2. CASE i \in 1 .. n
      BY <2>1, <2>2, <2>3, <2>5, <3>2
    <3> QED BY <2>1, <3>1, <3>2
  <2>7. left = right
    BY <2>3, <2>5, <2>6, SeqEqual
  <2> QED BY <2>7 DEF left, right, before, c, longer
<1>6. Strip(<<>>) = <<>>
  <2> HIDE DEF pieces
  <2>1. FlattenSeq(<<>>) = <<>>
    BY FlattenStep
  <2> QED BY <1>2, <1>3, <2>1
<1>7. /\ \A texts \in Seq(P) : FlattenSeq(texts) \in P
      /\ \A texts \in Seq(P), text \in P : FlattenSeq(Append(texts, text)) = FlattenSeq(texts) \o text
  BY FlattenStep DEF P
<1>8. ASSUME NEW text \in Seq(C)
      PROVE  /\ Strip(text) \in P
             /\ \A token \in C : Strip(Append(text, token)) = Strip(text) \o piece(token)
  <2>1. pieces(text) \in Seq(P)
    BY <1>4
  <2> HIDE DEF pieces
  <2>2. Strip(text) \in P
    BY <1>2, <1>7, <2>1
  <2>3. ASSUME NEW token \in C PROVE Strip(Append(text, token)) = Strip(text) \o piece(token)
    <3>1. piece(token) \in P /\ pieces(Append(text, token)) = Append(pieces(text), piece(token))
      BY <1>1, <1>5
    <3> QED BY <1>2, <1>7, <2>1, <3>1
  <2> QED BY <2>2, <2>3
<1>9. ASSUME NEW s \in P, NEW token \in C
      PROVE  s \o piece(token) = IF token = Space THEN s ELSE Append(s, token)
  <2>1. CASE token = Space
    <3>1. s \o <<>> = s
      BY DEF P
    <3> QED BY <2>1, <3>1 DEF piece
  <2>2. CASE token # Space
    <3>1. token \in C \ {Space}
      BY <2>2
    <3>2. s \o <<token>> = Append(s, token)
      BY <3>1 DEF P
    <3> QED BY <2>2, <3>2 DEF piece
  <2> QED BY <2>1, <2>2
<1> HIDE DEF pieces
<1> QED BY <1>6, <1>8, <1>9 DEF P

\* The reader is after a text where it is after the text without white space.
LEMMA SpaceIsSkipped ==
  ASSUME NEW C
  PROVE  \A text \in Seq(C) :
           Strip(text) \in Seq(C \ {Space}) /\ ReadTokens(text) = ReadTokens(Strip(text))
<1> DEFINE Good == {t \in Seq(C) : ReadTokens(t) = ReadTokens(Strip(t))}
<1>1. ASSUME NEW t \in Seq(C) PROVE Strip(t) \in Seq(C \ {Space}) /\ Strip(t) \in Seq(C)
  <2> DEFINE solid == Strip(t)
  <2>1. solid \in Seq(C \ {Space})
    BY StripStep
  <2> HIDE DEF solid
  <2>2. solid \in Seq(C)
    BY <2>1
  <2> QED BY <2>1, <2>2 DEF solid
<1>2. <<>> \in Good
  <2>1. Strip(<<>>) = <<>>
    BY StripStep
  <2> QED BY <2>1
<1>3. ASSUME NEW t \in Seq(C), NEW token \in C, t \in Good PROVE Append(t, token) \in Good
  <2> DEFINE longer == Append(t, token)
             solid == Strip(t)
  <2>1. longer \in Seq(C)
    OBVIOUS
  <2>2. solid \in Seq(C)
    BY <1>1
  <2>3. Strip(longer) = IF token = Space THEN solid ELSE Append(solid, token)
    BY StripStep
  <2>4. ReadTokens(longer) = ReadToken(ReadTokens(solid), token)
    BY <1>3, ReadOneMore
  <2> HIDE DEF longer, solid
  <2>5. ReadTokens(Append(solid, token)) = ReadToken(ReadTokens(solid), token)
    BY <2>2, ReadOneMore
  <2>6. token = Space => ReadToken(ReadTokens(solid), token) = ReadTokens(solid)
    BY DEF ReadToken
  <2>7. ReadTokens(longer) = ReadTokens(Strip(longer))
    BY <2>3, <2>4, <2>5, <2>6
  <2> QED BY <2>1, <2>7 DEF longer
<1>4. Seq(C) \subseteq Good
  <2> HIDE DEF Good
  <2> QED BY <1>2, <1>3, TextsByInduction
<1> QED BY <1>1, <1>4

\* Every document, of any length and depth, with white space anywhere, is read
\* as the value it stands for, and refused when it stands for none: no text
\* that is no JSON is taken, none is read in part, and after a value nothing
\* else may follow (parse, json.cpp:13-21).
THEOREM DocumentsAreRead ==
  ASSUME NEW text \in Seq(Tokens)
  PROVE  Parse(text) = ValuesOf(Strip(text))
<1>1. Strip(text) \in Seq(Solid) /\ ReadTokens(text) = ReadTokens(Strip(text))
  BY SpaceIsSkipped DEF Solid
<1>2. Parse(text) = Parse(Strip(text))
  BY <1>1 DEF Parse
<1> QED BY <1>1, <1>2, SolidTextsAreRead

-----------------------------------------------------------------------------
(* What is written: texts with commas between them. *)

LEMMA ListedFirst == Listed(<<>>) = <<>> /\ FlattenSeq(<<>>) = <<>>
<1>1. FlattenSeq(<<>>) = <<>>
  BY FlattenStep
<1> DEFINE all == <<>>
<1>2. Len(all) = 0 /\ SubSeq(all, 2, 0) = <<>>
  OBVIOUS
<1> HIDE DEF all
<1>3. SubSeq(all, 2, Len(all)) = <<>>
  BY <1>2
<1>4. Listed(<<>>) = SubSeq(all, 2, Len(all))
  BY <1>1 DEF Listed, all
<1> QED BY <1>1, <1>3, <1>4

\* The text of an item, after those before it.
ListedMore(C, texts, comma, item) ==
  LET more == Append(texts, <<comma>> \o item)
  IN  /\ FlattenSeq(more) # <<>>
      /\ Listed(texts) \in Seq(C)
      /\ FlattenSeq(texts) = <<>> => Listed(texts) = <<>> /\ Listed(more) = item
      /\ FlattenSeq(texts) # <<>> => Listed(more) = Append(Listed(texts), comma) \o item

LEMMA CommaBefore ==
  ASSUME NEW C, NEW comma \in C, NEW item \in Seq(C)
  PROVE  LET next == <<comma>> \o item IN
         next \in Seq(C) /\ next # <<>> /\ SubSeq(next, 2, Len(next)) = item
<1> DEFINE next == <<comma>> \o item
           none == <<>>
<1>1. next \in Seq(C) /\ Len(next) = Len(item) + 1 /\ Len(item) \in Nat
  OBVIOUS
<1>2. none \in Seq(C) /\ Len(none) = 0 /\ \A t \in Seq(C) : none \o t = t
  OBVIOUS
<1> HIDE DEF none
<1>3. SubSeq(none \o next, Len(none) + 2, Len(none \o next)) = item
  BY <1>2, PartsOfText
<1> HIDE DEF next
<1>4. SubSeq(next, 2, Len(next)) = item
  BY <1>1, <1>2, <1>3
<1>5. next # <<>>
  BY <1>1
<1> QED BY <1>1, <1>4, <1>5 DEF next

LEMMA FirstAndRest ==
  ASSUME NEW C, NEW all \in Seq(C), all # <<>>
  PROVE  \E first \in C, rest \in Seq(C) : all = <<first>> \o rest
<1> DEFINE head == Head(all)
           tail == Tail(all)
<1>1. head \in C /\ tail \in Seq(C)
  OBVIOUS
<1>2. all = <<head>> \o tail
  OBVIOUS
<1> HIDE DEF head, tail
<1> QED BY <1>1, <1>2

Regrouped(first, front, comma, item) ==
  (<<first>> \o front) \o (<<comma>> \o item) = <<first>> \o (Append(front, comma) \o item)

LEMMA CommaWithin ==
  ASSUME NEW C, NEW first \in C, NEW front \in Seq(C), NEW comma \in C, NEW item \in Seq(C)
  PROVE  Regrouped(first, front, comma, item)
<1> DEFINE one == <<first>>
           mid == <<comma>>
<1>1. one \in Seq(C) /\ mid \in Seq(C)
  BY OneChar
<1>2. Append(front, comma) = front \o mid
  OBVIOUS
<1> HIDE DEF one, mid
<1>3. /\ (one \o front) \o (mid \o item) = one \o (front \o (mid \o item))
      /\ (front \o mid) \o item = front \o (mid \o item)
  BY <1>1
<1> QED BY <1>2, <1>3 DEF one, mid, Regrouped

LEMMA NextIsListed ==
  ASSUME NEW C, NEW texts \in Seq(Seq(C)), NEW comma \in C, NEW item \in Seq(C)
  PROVE  ListedMore(C, texts, comma, item)
<1> DEFINE next == <<comma>> \o item
           all == FlattenSeq(texts)
           more == Append(texts, next)
           listed == Listed(texts)
<1>1. next \in Seq(C) /\ next # <<>> /\ SubSeq(next, 2, Len(next)) = item
  BY CommaBefore
<1> HIDE DEF next
<1>2. all \in Seq(C) /\ FlattenSeq(more) = all \o next
  BY <1>1, FlattenStep
<1> HIDE DEF all
<1>3. all \o next # <<>>
  BY <1>1, <1>2
<1>4. /\ listed = SubSeq(all, 2, Len(all))
      /\ Listed(more) = SubSeq(all \o next, 2, Len(all \o next))
  BY <1>2 DEF Listed, all
<1> HIDE DEF listed, more
<1>5. CASE all = <<>>
  <2>1. listed = <<>> /\ listed \in Seq(C)
    BY <1>4, <1>5, ListedFirst DEF Listed, all, listed
  <2>2. all \o next = next
    BY <1>1, <1>5
  <2>3. Listed(more) = item
    BY <1>1, <1>4, <2>2
  <2> QED BY <1>2, <1>3, <1>5, <2>1, <2>3 DEF ListedMore, all, more, listed, next
<1>6. CASE all # <<>>
  <2>1. PICK first \in C, rest \in Seq(C) : all = <<first>> \o rest
    <3>1. all \in Seq(C)
      BY <1>2
    <3> QED BY <1>6, <3>1, FirstAndRest, Zenon
  <2>2. listed = rest
    BY <1>4, <2>1, CommaBefore
  <2> DEFINE longer == Append(rest, comma) \o item
  <2>3. longer \in Seq(C)
    <3> DEFINE t == Append(rest, comma)
    <3>1. t \in Seq(C)
      OBVIOUS
    <3> HIDE DEF t
    <3>2. t \o item \in Seq(C)
      BY <3>1
    <3> QED BY <3>2 DEF t
  <2>4. all \o next = <<first>> \o longer
    <3>1. (<<first>> \o rest) \o (<<comma>> \o item) = <<first>> \o (Append(rest, comma) \o item)
      <4>1. Regrouped(first, rest, comma, item)
        BY CommaWithin
      <4> QED BY <4>1 DEF Regrouped
    <3> QED BY <2>1, <3>1 DEF next
  <2> HIDE DEF longer
  <2>5. Listed(more) = longer
    BY <1>4, <2>3, <2>4, CommaBefore
  <2>6. Listed(more) = Append(listed, comma) \o item
    BY <2>2, <2>5 DEF longer
  <2> QED BY <1>2, <1>3, <1>6, <2>2, <2>6 DEF ListedMore, all, more, listed, next
<1> QED BY <1>5, <1>6

\* An item without a text.
LEMMA NothingIsListed ==
  ASSUME NEW C, NEW texts \in Seq(Seq(C))
  PROVE  /\ Listed(Append(texts, <<>>)) = Listed(texts)
         /\ FlattenSeq(Append(texts, <<>>)) = FlattenSeq(texts)
<1> DEFINE none == <<>>
<1>1. none \in Seq(C)
  OBVIOUS
<1>2. \A all \in Seq(C) : all \o <<>> = all
  OBVIOUS
<1> HIDE DEF none
<1>3. FlattenSeq(texts) \in Seq(C) /\ FlattenSeq(Append(texts, none)) = FlattenSeq(texts) \o none
  BY <1>1, FlattenStep
<1>4. FlattenSeq(Append(texts, none)) = FlattenSeq(texts)
  BY <1>2, <1>3 DEF none
<1> QED BY <1>4 DEF Listed, none

LEMMA ListedTexts ==
  ASSUME NEW C, NEW texts \in Seq(Seq(C))
  PROVE  Listed(texts) \in Seq(C)
<1> DEFINE all == FlattenSeq(texts)
<1>1. all \in Seq(C)
  BY FlattenStep
<1> HIDE DEF all
<1>2. CASE all = <<>>
  BY <1>2, ListedFirst DEF Listed, all
<1>3. CASE all # <<>>
  <2>1. PICK first \in C, rest \in Seq(C) : all = <<first>> \o rest
    BY <1>1, <1>3, FirstAndRest
  <2>2. SubSeq(all, 2, Len(all)) = rest
    BY <2>1, CommaBefore
  <2> QED BY <2>2 DEF Listed, all
<1> QED BY <1>2, <1>3

\* The same after a text, such as the opening bracket.
WrittenNext(C, head, texts, comma, item) ==
  LET more == Append(texts, <<comma>> \o item)
      text == head \o Listed(texts)
  IN  /\ FlattenSeq(more) # <<>>
      /\ text \in Seq(C)
      /\ FlattenSeq(texts) = <<>> => head \o Listed(more) = text \o item
      /\ FlattenSeq(texts) # <<>> => head \o Listed(more) = Append(text, comma) \o item

LEMMA NextIsWritten ==
  ASSUME NEW C, NEW head \in Seq(C), NEW texts \in Seq(Seq(C)), NEW comma \in C, NEW item \in Seq(C)
  PROVE  WrittenNext(C, head, texts, comma, item)
<1> DEFINE more == Append(texts, <<comma>> \o item)
           flat == FlattenSeq(texts)
           listed == Listed(texts)
           longer == Listed(more)
           text == head \o listed
<1>1. ListedMore(C, texts, comma, item)
  BY NextIsListed
<1>2. /\ FlattenSeq(more) # <<>> /\ listed \in Seq(C)
      /\ flat = <<>> => listed = <<>> /\ longer = item
      /\ flat # <<>> => longer = Append(listed, comma) \o item
  BY <1>1 DEF ListedMore
<1> HIDE DEF more, flat, listed, longer
<1>3. text \in Seq(C)
  BY <1>2
<1>4. ASSUME flat = <<>> PROVE head \o longer = text \o item
  <2>1. head \o <<>> = head
    OBVIOUS
  <2> QED BY <1>2, <1>4, <2>1
<1>5. ASSUME flat # <<>> PROVE head \o longer = Append(text, comma) \o item
  <2> DEFINE mid == <<comma>>
  <2>1. mid \in Seq(C)
    BY OneChar
  <2>2. Append(listed, comma) = listed \o mid /\ Append(text, comma) = text \o mid
    <3> HIDE DEF text
    <3>1. \A t \in Seq(C) : Append(t, comma) = t \o <<comma>>
      OBVIOUS
    <3> QED BY <1>2, <1>3, <3>1
  <2> HIDE DEF mid
  <2>3. (text \o mid) \o item = head \o ((listed \o mid) \o item)
    BY <1>2, <2>1
  <2> QED BY <1>2, <1>5, <2>2, <2>3
<1>6. /\ FlattenSeq(more) # <<>> /\ text \in Seq(C)
      /\ flat = <<>> => head \o longer = text \o item
      /\ flat # <<>> => head \o longer = Append(text, comma) \o item
  BY <1>2, <1>3, <1>4, <1>5
<1> QED BY <1>6 DEF WrittenNext, more, flat, listed, longer

\* A function of each of some items, and of one more.
Each(f, items) == [i \in DOMAIN items |-> f[items[i]]]

LEMMA NoneOf ==
  ASSUME NEW f
  PROVE  Each(f, <<>>) = <<>>
BY DEF Each

LEMMA EachOf ==
  ASSUME NEW f, NEW R, \A x \in DOMAIN f : f[x] \in R, NEW items \in Seq(DOMAIN f)
  PROVE  Each(f, items) \in Seq(R)
<1> DEFINE D == DOMAIN f
<1>1. \A x \in D : f[x] \in R
  OBVIOUS
<1> HIDE DEF D
<1>2. \A i \in 1 .. Len(items) : items[i] \in D
  BY DEF D
<1> QED BY <1>1, <1>2 DEF Each

LEMMA OneMoreOf ==
  ASSUME NEW f, NEW R, \A x \in DOMAIN f : f[x] \in R,
         NEW items \in Seq(DOMAIN f), NEW item \in DOMAIN f
  PROVE  Each(f, Append(items, item)) = Append(Each(f, items), f[item])
<1> DEFINE D == DOMAIN f
           longer == Append(items, item)
           before == [i \in DOMAIN items |-> f[items[i]]]
           left == [i \in DOMAIN longer |-> f[longer[i]]]
           right == Append(before, f[item])
           n == Len(items)
<1>1. \A x \in D : f[x] \in R
  OBVIOUS
<1> HIDE DEF D
<1>2. /\ n \in Nat /\ DOMAIN items = 1 .. n /\ \A i \in 1 .. n : items[i] \in D
      /\ longer \in Seq(D) /\ Len(longer) = n + 1 /\ DOMAIN longer = 1 .. n + 1
      /\ longer[n + 1] = item /\ \A i \in 1 .. n : longer[i] = items[i]
  BY DEF D
<1>3. item \in D /\ \A i \in 1 .. n + 1 : longer[i] \in D
  BY <1>2 DEF D
<1> HIDE DEF longer, n
<1>4. before \in Seq(R) /\ Len(before) = n /\ \A i \in 1 .. n : before[i] = f[items[i]]
  BY <1>1, <1>2
<1>5. left \in Seq(R) /\ Len(left) = n + 1 /\ \A i \in 1 .. n + 1 : left[i] = f[longer[i]]
  BY <1>1, <1>2, <1>3
<1> HIDE DEF before, left
<1>6. /\ right \in Seq(R) /\ Len(right) = n + 1 /\ right[n + 1] = f[item]
      /\ \A i \in 1 .. n : right[i] = before[i]
  <2> DEFINE text == f[item]
  <2>1. text \in R
    BY <1>1, <1>3
  <2> HIDE DEF text
  <2>2. /\ Append(before, text) \in Seq(R) /\ Len(Append(before, text)) = n + 1
        /\ Append(before, text)[n + 1] = text
        /\ \A i \in 1 .. n : Append(before, text)[i] = before[i]
    BY <1>2, <1>4, <2>1
  <2> QED BY <2>2 DEF text
<1> HIDE DEF right
<1>7. ASSUME NEW i \in 1 .. n + 1 PROVE left[i] = right[i]
  <2>1. CASE i = n + 1
    BY <1>2, <1>5, <1>6, <2>1
  <2>2. CASE i \in 1 .. n
    BY <1>2, <1>4, <1>5, <1>6, <2>2
  <2> QED BY <1>2, <2>1, <2>2
<1>8. left = right
  BY <1>5, <1>6, <1>7, SeqEqual
<1> QED BY <1>8 DEF left, right, before, longer, Each

-----------------------------------------------------------------------------
(* What is written is read, wherever a value may stand. *)

IsReadAs(text, value) ==
  /\ text \in Seq(Solid)
  /\ \A before \in Seq(Solid) :
       TakesValue(ReadTokens(before)) =>
         ReadTokens(before \o text) = Return(ReadTokens(before).calls, value)

LEMMA SolidTokens ==
  /\ \A key \in StringTokens : key \in Solid
  /\ "{" \in Solid /\ "}" \in Solid /\ "[" \in Solid /\ "]" \in Solid
  /\ "," \in Solid /\ ":" \in Solid /\ Scalar \in Solid
<1>1. ASSUME NEW key \in StringTokens PROVE key \in Solid
  <2>1. key \in STRING /\ key # Space
    <3> DEFINE A == STRING
    <3>1. KeyOrder \in Seq(A)
      BY KeyOrderAssumption
    <3> HIDE DEF A
    <3>2. \E i \in DOMAIN KeyOrder : key = KeyOrder[i]
      BY DEF StringTokens
    <3>3. key \in A
      BY <3>1, <3>2
    <3>4. key # Space
      BY TokensDiffer DEF Punctuation
    <3> QED BY <3>3, <3>4 DEF A
  <2> QED BY <2>1 DEF Solid, Tokens
<1>2. \A token \in Punctuation : token # Space => token \in Solid
  BY DEF Solid, Tokens
<1> QED BY <1>1, <1>2, TokensDiffer DEF Punctuation

LEMMA TextsAreReaders ==
  ASSUME NEW C, NEW text \in Seq(C)
  PROVE  IsReader(ReadTokens(text))
<1>1. Len(text) \in Nat
  OBVIOUS
<1>2. PICK reading : ReadsAlong(reading, text) /\ ReadTokens(text) = reading[Len(text)]
  BY <1>1, ReadingExists DEF ReadsAlong
<1>3. \A i \in 0 .. Len(text) : IsReader(reading[i])
  BY <1>1, <1>2, ReadersAllAlong
<1> QED BY <1>1, <1>2, <1>3

LEMMA PlainIsRead ==
  ASSUME NEW value \in Plain, NEW inner
  PROVE  IsReadAs(Written(value, inner), value)
<1> DEFINE text == Written(value, inner)
<1>1. PICK token \in Solid :
        /\ text = <<token>>
        /\ \A reading : TakesValue(reading) =>
             ReadToken(reading, token) = Return(reading.calls, value)
  <2>1. CASE value = <<Scalar>>
    <3>1. text = <<Scalar>>
      BY <2>1 DEF Written, Scalar
    <3> QED BY <2>1, <3>1, SolidTokens, FirstToken
  <2>2. CASE value \in {"string"} \X StringTokens
    <3>1. PICK key \in StringTokens : value = <<"string", key>>
      BY <2>2
    <3>2. value[1] = "string" /\ value[2] = key
      BY <3>1
    <3>3. text = <<key>>
      BY <3>2 DEF Written
    <3> QED BY <3>1, <3>3, SolidTokens, FirstToken
  <2> QED BY <2>1, <2>2 DEF Plain
<1> HIDE DEF text
<1>2. ASSUME NEW before \in Seq(Solid), TakesValue(ReadTokens(before))
      PROVE  ReadTokens(before \o text) = Return(ReadTokens(before).calls, value)
  <2>1. before \o text = Append(before, token)
    BY <1>1
  <2>2. ReadTokens(Append(before, token)) = ReadToken(ReadTokens(before), token)
    BY ReadOneMore
  <2> QED BY <1>1, <1>2, <2>1, <2>2
<1>3. text \in Seq(Solid)
  BY <1>1, OneChar
<1> QED BY <1>2, <1>3 DEF IsReadAs, text

\* An element, after those before it.
ReadsElement(text, calls, items, value, item) ==
  LET call == Call(<<"array", items>>, "")
      after == InCall("next", calls, Call(<<"array", Append(items, value)>>, ""))
  IN  /\ ReadTokens(text) = InCall("first", calls, call) => ReadTokens(text \o item) = after
      /\ ReadTokens(text) = InCall("next", calls, call) =>
           ReadTokens(Append(text, ",") \o item) = after

LEMMA ElementIsRead ==
  ASSUME NEW text \in Seq(Solid), NEW calls, IsStack(calls), NEW items,
         NEW value, NEW item, IsReadAs(item, value)
  PROVE  ReadsElement(text, calls, items, value, item)
<1> DEFINE call == Call(<<"array", items>>, "")
           next == Call(<<"array", Append(items, value)>>, "")
           after == InCall("next", calls, next)
<1>1. ReadsInCall(calls, call)
  BY TokensOfCall
<1>2. IsArray(call) /\ Extend(call, value) = next
  <2> DEFINE result == <<"array", items>>
  <2>1. result[1] = "array" /\ result[2] = items
    OBVIOUS
  <2> HIDE DEF result
  <2>2. Call(result, "").result = result /\ Call(result, "").key = ""
    BY CallFields
  <2> QED BY <2>1, <2>2 DEF IsArray, Extend, result
<1> HIDE DEF call, next
<1>3. /\ \A at : InCall(at, calls, call).calls = Append(calls, call)
      /\ TakesValue(InCall("first", calls, call)) /\ TakesValue(InCall("value", calls, call))
      /\ Return(Append(calls, call), value) = after
      /\ ReadToken(InCall("next", calls, call), ",") = InCall("value", calls, call)
  BY <1>1, <1>2 DEF ReadsInCall, AfterComma
<1>4. ASSUME NEW before \in Seq(Solid), NEW at \in {"first", "value"},
             ReadTokens(before) = InCall(at, calls, call)
      PROVE  ReadTokens(before \o item) = after
  <2>1. TakesValue(ReadTokens(before)) /\ ReadTokens(before).calls = Append(calls, call)
    BY <1>3, <1>4
  <2> QED BY <1>3, <2>1 DEF IsReadAs
<1>5. ASSUME ReadTokens(text) = InCall("next", calls, call)
      PROVE  ReadTokens(Append(text, ",") \o item) = after
  <2> DEFINE before == Append(text, ",")
  <2>1. before \in Seq(Solid) /\ ReadTokens(before) = ReadToken(ReadTokens(text), ",")
    <3>1. ASSUME NEW token \in Solid
          PROVE  /\ Append(text, token) \in Seq(Solid)
                 /\ ReadTokens(Append(text, token)) = ReadToken(ReadTokens(text), token)
      BY ReadOneMore
    <3> QED BY <3>1, SolidTokens
  <2> HIDE DEF before
  <2>2. ReadTokens(before) = InCall("value", calls, call)
    BY <1>3, <1>5, <2>1
  <2>3. ReadTokens(before \o item) = after
    BY <1>4, <2>1, <2>2
  <2> QED BY <2>3 DEF before
<1>6. ReadTokens(text) = InCall("first", calls, call) => ReadTokens(text \o item) = after
  BY <1>4
<1> QED BY <1>5, <1>6 DEF call, next, ReadsElement

\* What is between the brackets stands between them.
Bracketed(left, listed, right) == <<left>> \o listed \o <<right>>

LEMMA BetweenBrackets ==
  ASSUME NEW C, NEW left \in C, NEW right \in C, NEW listed \in Seq(C), NEW before \in Seq(C)
  PROVE  /\ Bracketed(left, listed, right) \in Seq(C)
         /\ before \o Bracketed(left, listed, right)
              = Append(Append(before, left) \o listed, right)
<1> DEFINE l == <<left>>
           r == <<right>>
           head == Append(before, left)
           text == head \o listed
<1>1. l \in Seq(C) /\ r \in Seq(C)
  BY OneChar
<1>2. ASSUME NEW t \in Seq(C), NEW c \in C PROVE Append(t, c) = t \o <<c>>
  OBVIOUS
<1>3. head \in Seq(C)
  OBVIOUS
<1>4. head = before \o l
  BY <1>2
<1> HIDE DEF head
<1>5. text \in Seq(C)
  BY <1>3
<1>6. Append(text, right) = text \o r
  <2> HIDE DEF text
  <2> QED BY <1>2, <1>5
<1> HIDE DEF l, r
<1>7. (l \o listed) \o r \in Seq(C)
  <2> DEFINE s == l \o listed
  <2>1. s \in Seq(C)
    BY <1>1
  <2> HIDE DEF s
  <2>2. s \o r \in Seq(C)
    BY <1>1, <2>1
  <2> QED BY <2>2 DEF s
<1>8. before \o ((l \o listed) \o r) = ((before \o l) \o listed) \o r
  <2> DEFINE s == l \o listed
  <2>1. s \in Seq(C)
    BY <1>1
  <2>2. (before \o l) \o listed = before \o s
    BY <1>1
  <2> HIDE DEF s
  <2>3. (before \o s) \o r = before \o (s \o r)
    BY <1>1, <2>1
  <2> QED BY <2>2, <2>3 DEF s
<1> QED BY <1>4, <1>6, <1>7, <1>8 DEF l, r, head, Bracketed

LEMMA SolidOneMore ==
  ASSUME NEW text \in Seq(Solid), NEW token \in Solid
  PROVE  /\ Append(text, token) \in Seq(Solid)
         /\ ReadTokens(Append(text, token)) = ReadToken(ReadTokens(text), token)
BY ReadOneMore

\* Where the reader is after the texts of some elements.
AfterElements(calls, texts, items) ==
  InCall(IF FlattenSeq(texts) = <<>> THEN "first" ELSE "next", calls,
         Call(<<"array", items>>, ""))

CommaAndText(inner) == [v \in DOMAIN inner |-> <<",">> \o inner[v]]

LEMMA CommasAndTexts ==
  ASSUME NEW inner, \A v \in DOMAIN inner : IsReadAs(inner[v], v)
  PROVE  LET f == CommaAndText(inner)
         IN  /\ DOMAIN f = DOMAIN inner
             /\ \A v \in DOMAIN inner :
                  f[v] \in Seq(Solid) /\ f[v] = <<",">> \o inner[v] /\ inner[v] \in Seq(Solid)
<1> SUFFICES ASSUME NEW v \in DOMAIN inner
             PROVE  <<",">> \o inner[v] \in Seq(Solid) /\ inner[v] \in Seq(Solid)
  BY DEF CommaAndText
<1> DEFINE text == inner[v]
<1>1. text \in Seq(Solid)
  BY DEF IsReadAs
<1> HIDE DEF text
<1>2. <<",">> \o text \in Seq(Solid)
  BY <1>1, SolidTokens, CommaBefore
<1> QED BY <1>1, <1>2 DEF text

LEMMA ElementsAreRead ==
  ASSUME NEW inner, \A v \in DOMAIN inner : IsReadAs(inner[v], v),
         NEW head \in Seq(Solid), NEW calls, IsStack(calls),
         ReadTokens(head) = InCall("first", calls, Call(<<"array", <<>>>>, ""))
  PROVE  \A items \in Seq(DOMAIN inner) :
           LET texts == Each(CommaAndText(inner), items)
           IN  ReadTokens(head \o Listed(texts)) = AfterElements(calls, texts, items)
<1> DEFINE f == CommaAndText(inner)
           D == DOMAIN inner
           T == Seq(Solid)
           Good == {items \in Seq(D) :
                      ReadTokens(head \o Listed(Each(f, items)))
                        = AfterElements(calls, Each(f, items), items)}
<1>1. /\ DOMAIN f = D
      /\ \A v \in D : f[v] \in T /\ inner[v] \in T /\ f[v] = <<",">> \o inner[v]
  BY CommasAndTexts
<1> HIDE DEF f, D, T
<1>2. <<>> \in Good
  <2> DEFINE none == <<>>
  <2>1. Each(f, none) = none /\ Listed(none) = none /\ FlattenSeq(none) = <<>>
    BY NoneOf, ListedFirst
  <2>2. none \in Seq(D) /\ head \o none = head
    <3> HIDE DEF Good
    <3> QED BY EmptySeq, ConcatEmptySeq
  <2>3. ReadTokens(head) = InCall("first", calls, Call(<<"array", none>>, ""))
    OBVIOUS
  <2> HIDE DEF none
  <2>4. ReadTokens(head \o Listed(Each(f, none))) = AfterElements(calls, Each(f, none), none)
    BY <2>1, <2>2, <2>3 DEF AfterElements
  <2> QED BY <2>2, <2>4 DEF none
<1>3. ASSUME NEW items \in Seq(D), NEW v \in D, items \in Good PROVE Append(items, v) \in Good
  <2> DEFINE before == Each(f, items)
             longer == Append(items, v)
             more == Each(f, longer)
             item == inner[v]
             text == head \o Listed(before)
  <2>1. longer \in Seq(D)
    <3> HIDE DEF Good
    <3> QED BY AppendProperties
  <2>2. before \in Seq(T) /\ more = Append(before, f[v])
    <3> HIDE DEF Good
    <3> QED BY <1>1, EachOf, OneMoreOf
  <2>3. /\ ReadTokens(text) = AfterElements(calls, before, items)
        /\ f[v] = <<",">> \o item /\ item \in T /\ IsReadAs(item, v)
    BY <1>1, <1>3 DEF D
  <2> HIDE DEF before, more, item
  <2>4. more = Append(before, <<",">> \o item)
    BY <2>2, <2>3
  <2>5. WrittenNext(Solid, head, before, ",", item)
    BY <2>2, <2>3, SolidTokens, NextIsWritten DEF T
  <2>6. /\ FlattenSeq(more) # <<>> /\ text \in Seq(Solid)
        /\ FlattenSeq(before) = <<>> => head \o Listed(more) = text \o item
        /\ FlattenSeq(before) # <<>> => head \o Listed(more) = Append(text, ",") \o item
    BY <2>4, <2>5 DEF WrittenNext
  <2> HIDE DEF text
  <2> DEFINE call == Call(<<"array", items>>, "")
             after == InCall("next", calls, Call(<<"array", longer>>, ""))
  <2>7. ReadsElement(text, calls, items, v, item)
    BY <2>3, <2>6, ElementIsRead
  <2>8. /\ ReadTokens(text) = InCall("first", calls, call) => ReadTokens(text \o item) = after
        /\ ReadTokens(text) = InCall("next", calls, call) =>
             ReadTokens(Append(text, ",") \o item) = after
    BY <2>7 DEF ReadsElement
  <2>9. AfterElements(calls, before, items)
          = InCall(IF FlattenSeq(before) = <<>> THEN "first" ELSE "next", calls, call)
    BY DEF AfterElements
  <2> HIDE DEF longer
  <2>10. AfterElements(calls, more, longer) = after
    BY <2>6 DEF AfterElements
  <2> HIDE DEF call, after
  <2>11. ReadTokens(head \o Listed(more)) = AfterElements(calls, more, longer)
    BY <2>3, <2>6, <2>8, <2>9, <2>10
  <2>12. longer \in Good
    BY <2>1, <2>11 DEF more
  <2> HIDE DEF Good
  <2> QED BY <2>12 DEF longer
<1>4. Seq(D) \subseteq Good
  <2> HIDE DEF Good
  <2> QED BY <1>2, <1>3, TextsByInduction
<1> QED BY <1>4 DEF f, D

LEMMA ArrayIsRead ==
  ASSUME NEW inner, \A v \in DOMAIN inner : IsReadAs(inner[v], v),
         NEW items \in Seq(DOMAIN inner)
  PROVE  IsReadAs(Written(<<"array", items>>, inner), <<"array", items>>)
<1> DEFINE f == CommaAndText(inner)
           texts == Each(f, items)
           listed == Listed(texts)
           whole == Bracketed("[", listed, "]")
           value == <<"array", items>>
<1>0. /\ DOMAIN f = DOMAIN inner
      /\ \A v \in DOMAIN inner :
           f[v] \in Seq(Solid) /\ inner[v] \in Seq(Solid) /\ f[v] = <<",">> \o inner[v]
  BY CommasAndTexts
<1>1. Written(value, inner) = whole
  <2>1. value[1] = "array" /\ value[2] = items
    OBVIOUS
  <2>2. \A i \in DOMAIN items : items[i] \in DOMAIN inner
    OBVIOUS
  <2> HIDE DEF value, f
  <2>3. texts = [i \in DOMAIN items |-> <<",">> \o inner[items[i]]]
    BY <1>0, <2>2 DEF Each
  <2> HIDE DEF texts
  <2> QED BY <2>1, <2>3 DEF Written, Bracketed
<1>2. listed \in Seq(Solid)
  <2> HIDE DEF f
  <2>1. texts \in Seq(Seq(Solid))
    BY <1>0, EachOf
  <2> HIDE DEF texts
  <2> QED BY <2>1, ListedTexts
<1> HIDE DEF listed, value, f
<1>3. ASSUME NEW before \in Seq(Solid)
      PROVE  /\ whole \in Seq(Solid)
             /\ before \o whole = Append(Append(before, "[") \o listed, "]")
  <2>1. "[" \in Solid /\ "]" \in Solid
    BY SolidTokens
  <2>2. ASSUME NEW left \in Solid, NEW right \in Solid
        PROVE  /\ Bracketed(left, listed, right) \in Seq(Solid)
               /\ before \o Bracketed(left, listed, right)
                    = Append(Append(before, left) \o listed, right)
    BY <1>2, BetweenBrackets
  <2> QED BY <2>1, <2>2
<1> HIDE DEF whole, texts
<1>4. ASSUME NEW before \in Seq(Solid), TakesValue(ReadTokens(before))
      PROVE  ReadTokens(before \o whole) = Return(ReadTokens(before).calls, value)
  <2> DEFINE calls == ReadTokens(before).calls
             head == Append(before, "[")
             text == head \o listed
             call == Call(value, "")
             empty == Call(EmptyArray, "")
  <2>1. before \o whole = Append(text, "]")
    BY <1>3
  <2>2. IsStack(calls)
    BY TextsAreReaders DEF IsReader
  <2>3. head \in Seq(Solid) /\ ReadTokens(head) = ReadToken(ReadTokens(before), "[")
    BY SolidTokens, SolidOneMore
  <2>4. ReadToken(ReadTokens(before), "[") = InCall("first", calls, empty)
    BY <1>4, FirstToken DEF InCall
  <2> HIDE DEF calls, head
  <2>5. text \in Seq(Solid)
    BY <1>2, <2>3
  <2>6. ReadTokens(text) = AfterElements(calls, texts, items)
    <3>1. ReadTokens(head) = InCall("first", calls, Call(<<"array", <<>>>>, ""))
      BY <2>3, <2>4 DEF EmptyArray
    <3>2. ReadTokens(head \o Listed(Each(CommaAndText(inner), items)))
            = AfterElements(calls, Each(CommaAndText(inner), items), items)
      BY <2>2, <2>3, <3>1, ElementsAreRead
    <3> QED BY <3>2 DEF listed, texts, f
  <2> HIDE DEF text, empty
  <2>7. value[1] = "array"
    BY DEF value
  <2>8. call.result = value /\ Closing(call) = "]"
    <3>1. Call(value, "").result = value
      BY CallFields
    <3> QED BY <2>7, <3>1 DEF Closing, IsArray
  <2>9. AfterElements(calls, texts, items)
          = InCall(IF FlattenSeq(texts) = <<>> THEN "first" ELSE "next", calls, call)
    BY DEF AfterElements, value
  <2> HIDE DEF call
  <2>10. PICK at \in {"first", "next"} : ReadTokens(text) = InCall(at, calls, call)
    BY <2>6, <2>9
  <2>11. ReadsInCall(calls, call)
    BY <2>2, TokensOfCall
  <2>12. ReadToken(ReadTokens(text), "]") = Return(calls, value)
    BY <2>8, <2>10, <2>11 DEF ReadsInCall
  <2>13. ReadTokens(Append(text, "]")) = ReadToken(ReadTokens(text), "]")
    BY <2>5, SolidTokens, SolidOneMore
  <2> QED BY <2>1, <2>12, <2>13 DEF calls
<1>5. whole \in Seq(Solid)
  <2> DEFINE none == <<>>
  <2>1. none \in Seq(Solid)
    OBVIOUS
  <2> HIDE DEF none
  <2> QED BY <1>3, <2>1
<1>6. IsReadAs(whole, value)
  BY <1>4, <1>5 DEF IsReadAs
<1> QED BY <1>1, <1>6 DEF value

\* A member, after those before it.
Member(key, item) == <<key, ":">> \o item

LEMMA MemberAfter ==
  ASSUME NEW C, NEW text \in Seq(C), NEW key \in C, ":" \in C, NEW item \in Seq(C)
  PROVE  /\ Member(key, item) \in Seq(C)
         /\ text \o Member(key, item) = Append(Append(text, key), ":") \o item
         /\ \A comma \in C : <<comma, key, ":">> \o item = <<comma>> \o Member(key, item)
<1>1. ASSUME NEW colon \in C
      PROVE  /\ <<key, colon>> \o item \in Seq(C)
             /\ text \o (<<key, colon>> \o item) = Append(Append(text, key), colon) \o item
             /\ \A comma \in C : <<comma, key, colon>> \o item = <<comma>> \o (<<key, colon>> \o item)
  <2> DEFINE k == <<key>>
             c == <<colon>>
             both == <<key, colon>>
             first == Append(text, key)
             second == Append(first, colon)
  <2>1. k \in Seq(C) /\ c \in Seq(C)
    BY OneChar
  <2>2. both = k \o c /\ both \in Seq(C)
    BY TwoChars
  <2>3. first = text \o k /\ first \in Seq(C)
    BY AppendIsConcat, AppendProperties
  <2> HIDE DEF first
  <2>4. second = first \o c
    BY <2>3, AppendIsConcat
  <2>5. ASSUME NEW comma \in C
        PROVE  <<comma, key, colon>> \o item = <<comma>> \o (both \o item)
    <3> DEFINE three == <<comma, key, colon>>
               m == <<comma>>
               two == <<comma, key>>
    <3>1. m \in Seq(C)
      BY OneChar
    <3>2. three = two \o c
      BY ThreeChars
    <3>3. two = m \o k
      BY TwoChars
    <3> HIDE DEF three, m, two, both, k, c
    <3>4. (m \o k) \o c = m \o (k \o c) /\ (m \o (k \o c)) \o item = m \o ((k \o c) \o item)
      <4>1. (m \o k) \o c = m \o (k \o c)
        BY <2>1, <3>1, ConcatAssociative
      <4>2. (m \o (k \o c)) \o item = m \o ((k \o c) \o item)
        BY <2>2, <3>1, ConcatAssociative
      <4> QED BY <4>1, <4>2
    <3>5. three \o item = m \o (both \o item)
      BY <2>2, <3>2, <3>3, <3>4
    <3> QED BY <3>5 DEF three, m
  <2> HIDE DEF k, c, both, second
  <2>6. both \o item \in Seq(C)
    BY <2>2
  <2>7. text \o (both \o item) = second \o item
    <3>1. (text \o k) \o c = text \o (k \o c)
      BY <2>1, ConcatAssociative
    <3>2. (text \o both) \o item = text \o (both \o item)
      <4>1. text \in Seq(C) /\ both \in Seq(C) /\ item \in Seq(C)
        BY <2>2
      <4>2. ASSUME NEW t \in Seq(C) PROVE (text \o t) \o item = text \o (t \o item)
        BY ConcatAssociative
      <4> QED BY <4>1, <4>2
    <3> QED BY <2>2, <2>3, <2>4, <3>1, <3>2
  <2> QED BY <2>5, <2>6, <2>7 DEF both, second, first
<1> QED BY <1>1 DEF Member

ReadsMember(text, calls, members, last, key, value, item) ==
  LET call == Call(<<"object", members>>, last)
      after == InCall("next", calls, Call(<<"object", Emplace(members, key, value)>>, key))
  IN  /\ ReadTokens(text) = InCall("first", calls, call) =>
           ReadTokens(text \o Member(key, item)) = after
      /\ ReadTokens(text) = InCall("next", calls, call) =>
           ReadTokens(Append(text, ",") \o Member(key, item)) = after

LEMMA MemberIsRead ==
  ASSUME NEW text \in Seq(Solid), NEW calls, IsStack(calls), NEW members, NEW last,
         NEW key \in StringTokens, NEW value, NEW item, IsReadAs(item, value)
  PROVE  ReadsMember(text, calls, members, last, key, value, item)
<1> DEFINE result == <<"object", members>>
           call == Call(result, last)
           next == Call(result, key)
           longer == Call(<<"object", Emplace(members, key, value)>>, key)
           after == InCall("next", calls, longer)
           member == Member(key, item)
<1>1. result[1] = "object" /\ result[2] = members
  OBVIOUS
<1> HIDE DEF result
<1>2. call.result = result /\ next.result = result /\ next.key = key
  BY CallFields
<1>3. ~IsArray(call) /\ Extend(next, value) = longer
  BY <1>1, <1>2 DEF IsArray, Extend
<1>4. next = Call(call.result, key)
  BY <1>2
<1> HIDE DEF call, next, longer
<1>5. ReadsInCall(calls, call) /\ ReadsInCall(calls, next)
  BY TokensOfCall
<1>6. /\ ReadToken(InCall("next", calls, call), ",") = InCall("key", calls, call)
      /\ \A at \in {"first", "key"} : ReadToken(InCall(at, calls, call), key) = InCall("colon", calls, next)
      /\ ReadToken(InCall("colon", calls, next), ":") = InCall("value", calls, next)
      /\ TakesValue(InCall("value", calls, next))
      /\ InCall("value", calls, next).calls = Append(calls, next)
      /\ Return(Append(calls, next), value) = after
  BY <1>3, <1>4, <1>5 DEF ReadsInCall, AfterComma
<1>7. key \in Solid /\ ":" \in Solid /\ "," \in Solid /\ item \in Seq(Solid)
  BY SolidTokens DEF IsReadAs
<1>8. ASSUME NEW before \in Seq(Solid), NEW at \in {"first", "key"},
             ReadTokens(before) = InCall(at, calls, call)
      PROVE  ReadTokens(before \o member) = after
  <2> DEFINE first == Append(before, key)
             second == Append(first, ":")
  <2>1. first \in Seq(Solid) /\ ReadTokens(first) = ReadToken(ReadTokens(before), key)
    BY <1>7, SolidOneMore
  <2>2. before \o member = second \o item
    <3> HIDE DEF first, second, member
    <3>1. before \o Member(key, item) = Append(Append(before, key), ":") \o item
      <4> DEFINE C == Solid
      <4>1. before \in Seq(C) /\ key \in C /\ ":" \in C /\ item \in Seq(C)
        BY <1>7
      <4> HIDE DEF C
      <4> QED BY <4>1, MemberAfter
    <3> QED BY <3>1 DEF first, second, member
  <2> HIDE DEF first, member
  <2>3. second \in Seq(Solid) /\ ReadTokens(second) = ReadToken(ReadTokens(first), ":")
    BY <1>7, <2>1, SolidOneMore
  <2> HIDE DEF second
  <2>4. ReadTokens(second) = InCall("value", calls, next)
    BY <1>6, <1>8, <2>1, <2>3
  <2>5. TakesValue(ReadTokens(second)) /\ ReadTokens(second).calls = Append(calls, next)
    BY <1>6, <2>4
  <2>6. ReadTokens(second \o item) = Return(Append(calls, next), value)
    BY <2>3, <2>5 DEF IsReadAs
  <2> QED BY <1>6, <2>2, <2>6
<1>9. ASSUME ReadTokens(text) = InCall("next", calls, call)
      PROVE  ReadTokens(Append(text, ",") \o member) = after
  <2> DEFINE before == Append(text, ",")
  <2>1. before \in Seq(Solid) /\ ReadTokens(before) = ReadToken(ReadTokens(text), ",")
    BY <1>7, SolidOneMore
  <2> HIDE DEF before
  <2>2. ReadTokens(before) = InCall("key", calls, call)
    BY <1>6, <1>9, <2>1
  <2>3. ReadTokens(before \o member) = after
    BY <1>8, <2>1, <2>2
  <2> QED BY <2>3 DEF before
<1>10. ReadTokens(text) = InCall("first", calls, call) => ReadTokens(text \o member) = after
  BY <1>8
<1> QED BY <1>9, <1>10 DEF call, longer, result, ReadsMember

\* The texts of the members, and those that are there up to a place.
MemberTexts(inner, members) ==
  [i \in DOMAIN KeyOrder |-> IF members[KeyOrder[i]] = None THEN <<>>
                             ELSE <<",", KeyOrder[i], ":">> \o inner[members[KeyOrder[i]]]]
FirstTexts(all, j) == [i \in 1 .. j |-> all[i]]
FirstMembers(members, j) ==
  [k \in StringTokens |-> IF \E i \in 1 .. j : KeyOrder[i] = k THEN members[k] ELSE None]

LEMMA KeysInOrder ==
  /\ Len(KeyOrder) \in Nat /\ DOMAIN KeyOrder = 1 .. Len(KeyOrder)
  /\ \A i \in 1 .. Len(KeyOrder) : KeyOrder[i] \in StringTokens
  /\ \A i, j \in 1 .. Len(KeyOrder) : KeyOrder[i] = KeyOrder[j] => i = j
  /\ \A k \in StringTokens : \E i \in 1 .. Len(KeyOrder) : KeyOrder[i] = k
<1> DEFINE A == STRING
<1>1. KeyOrder \in Seq(A)
  BY KeyOrderAssumption
<1> HIDE DEF A
<1>2. Len(KeyOrder) \in Nat /\ DOMAIN KeyOrder = 1 .. Len(KeyOrder)
  BY <1>1
<1>3. \A i, j \in DOMAIN KeyOrder : KeyOrder[i] = KeyOrder[j] => i = j
  BY KeyOrderAssumption
<1> QED BY <1>2, <1>3 DEF StringTokens

IsMemberText(inner, text, key, value) ==
  /\ text \in Seq(Solid)
  /\ value = None => text = <<>>
  /\ value # None => IsReadAs(inner[value], value) /\ text = <<",">> \o Member(key, inner[value])

LEMMA TextsOfMembers ==
  ASSUME NEW inner, \A v \in DOMAIN inner : IsReadAs(inner[v], v),
         NEW members \in [StringTokens -> DOMAIN inner \cup {None}],
         NEW i \in 1 .. Len(KeyOrder)
  PROVE  IsMemberText(inner, MemberTexts(inner, members)[i], KeyOrder[i], members[KeyOrder[i]])
<1> DEFINE text == MemberTexts(inner, members)[i]
           key == KeyOrder[i]
           value == members[key]
           item == inner[value]
<1>1. /\ i \in DOMAIN KeyOrder /\ key \in StringTokens
      /\ text = IF value = None THEN <<>> ELSE <<",", key, ":">> \o item
  BY KeysInOrder DEF MemberTexts
<1>2. value \in DOMAIN inner \cup {None}
  BY <1>1
<1> HIDE DEF text, key, value
<1>3. CASE value = None
  <2>1. text = <<>> /\ text \in Seq(Solid)
    BY <1>1, <1>3
  <2> QED BY <1>3, <2>1 DEF text, key, value, IsMemberText
<1>4. CASE value # None
  <2>1. IsReadAs(item, value)
    BY <1>2, <1>4
  <2> HIDE DEF item
  <2>2. item \in Seq(Solid) /\ key \in Solid /\ ":" \in Solid /\ "," \in Solid
    BY <1>1, <2>1, SolidTokens DEF IsReadAs
  <2> DEFINE C == Solid
             none == <<>>
  <2>3. item \in Seq(C) /\ key \in C /\ ":" \in C /\ none \in Seq(C)
    BY <2>2, EmptySeq
  <2> HIDE DEF C, none
  <2>4. /\ Member(key, item) \in Seq(C)
        /\ \A comma \in C : <<comma, key, ":">> \o item = <<comma>> \o Member(key, item)
    BY <2>3, MemberAfter
  <2>5. <<",", key, ":">> \o item = <<",">> \o Member(key, item)
    BY <2>2, <2>4 DEF C
  <2>6. <<",">> \o Member(key, item) \in Seq(Solid)
    BY <2>2, <2>4, CommaBefore DEF C
  <2>7. text = <<",">> \o Member(key, item) /\ text \in Seq(Solid)
    BY <1>1, <1>4, <2>5, <2>6
  <2> QED BY <1>4, <2>1, <2>7 DEF text, key, value, item, IsMemberText
<1> QED BY <1>3, <1>4

\* One member more.
LEMMA OneMoreMember ==
  ASSUME NEW members, members = [k \in StringTokens |-> members[k]],
         NEW j \in Nat, j + 1 \in 1 .. Len(KeyOrder)
  PROVE  LET before == FirstMembers(members, j)
             key == KeyOrder[j + 1]
         IN  /\ members[key] = None => FirstMembers(members, j + 1) = before
             /\ FirstMembers(members, j + 1) = Emplace(before, key, members[key])
<1> DEFINE before == FirstMembers(members, j)
           after == FirstMembers(members, j + 1)
           key == KeyOrder[j + 1]
<1>1. /\ key \in StringTokens
      /\ \A i \in 1 .. j : KeyOrder[i] # key
  BY KeysInOrder
<1>2. \A k \in StringTokens :
        (\E i \in 1 .. j + 1 : KeyOrder[i] = k) <=> (\E i \in 1 .. j : KeyOrder[i] = k) \/ k = key
  OBVIOUS
<1> HIDE DEF key
<1>3. /\ before = [k \in StringTokens |-> before[k]]
      /\ \A k \in StringTokens :
           before[k] = IF \E i \in 1 .. j : KeyOrder[i] = k THEN members[k] ELSE None
  BY DEF FirstMembers
<1>4. /\ after = [k \in StringTokens |-> after[k]]
      /\ \A k \in StringTokens :
           after[k] = IF \E i \in 1 .. j + 1 : KeyOrder[i] = k THEN members[k] ELSE None
  BY DEF FirstMembers
<1> HIDE DEF before, after
<1>5. before[key] = None
  BY <1>1, <1>3
<1>6. \A k \in StringTokens : after[k] = IF k = key THEN members[key] ELSE before[k]
  BY <1>1, <1>2, <1>3, <1>4
<1>7. Emplace(before, key, members[key]) =
        [k \in StringTokens |-> IF k = key /\ before[k] = None THEN members[key] ELSE before[k]]
  BY <1>3, EmplaceValue
<1>8. after = [k \in StringTokens |-> IF k = key /\ before[k] = None THEN members[key] ELSE before[k]]
  BY <1>4, <1>5, <1>6
<1>9. ASSUME members[key] = None PROVE after = before
  <2>1. \A k \in StringTokens : after[k] = before[k]
    BY <1>5, <1>6, <1>9
  <2> QED BY <1>3, <1>4, <2>1
<1> QED BY <1>7, <1>8, <1>9 DEF before, after, key

\* Where the reader is after the texts of some members.
AfterMembers(calls, texts, members, last) ==
  InCall(IF FlattenSeq(texts) = <<>> THEN "first" ELSE "next", calls,
         Call(<<"object", members>>, last))

AreMembersRead(inner, members, head, calls, j) ==
  LET texts == FirstTexts(MemberTexts(inner, members), j)
  IN  /\ texts \in Seq(Seq(Solid))
      /\ \E last : ReadTokens(head \o Listed(texts))
                     = AfterMembers(calls, texts, FirstMembers(members, j), last)

LEMMA NoMembers ==
  ASSUME NEW all, NEW members
  PROVE  /\ FirstTexts(all, 0) = <<>>
         /\ <<"object", FirstMembers(members, 0)>> = EmptyObject
<1>1. FirstTexts(all, 0) = <<>>
  BY DEF FirstTexts
<1>2. FirstMembers(members, 0) = [key \in StringTokens |-> None]
  BY DEF FirstMembers
<1> QED BY <1>1, <1>2 DEF EmptyObject

LEMMA OneMoreText ==
  ASSUME NEW all, NEW T, NEW j \in Nat, FirstTexts(all, j) \in Seq(T), all[j + 1] \in T
  PROVE  /\ FirstTexts(all, j + 1) \in Seq(T)
         /\ FirstTexts(all, j + 1) = Append(FirstTexts(all, j), all[j + 1])
<1> DEFINE before == FirstTexts(all, j)
           more == FirstTexts(all, j + 1)
           t == all[j + 1]
           right == Append(before, t)
<1>1. t \in T /\ t = all[j + 1] /\ before \in Seq(T)
  OBVIOUS
<1>2. before = [i \in 1 .. j |-> all[i]] /\ more = [i \in 1 .. j + 1 |-> all[i]]
  BY DEF FirstTexts
<1> HIDE DEF t, before, more
<1>3. Len(before) = j /\ \A i \in 1 .. j : before[i] = all[i]
  BY <1>2
<1>4. \A i \in 1 .. j + 1 : all[i] \in T
  <2>1. \A i \in 1 .. j : before[i] \in T
    BY <1>1, <1>3
  <2>2. \A i \in 1 .. j : all[i] \in T
    BY <1>3, <2>1
  <2>3. \A i \in 1 .. j + 1 : i \in 1 .. j \/ i = j + 1
    OBVIOUS
  <2> QED BY <1>1, <2>2, <2>3
<1>5. more \in Seq(T) /\ Len(more) = j + 1 /\ \A i \in 1 .. j + 1 : more[i] = all[i]
  BY <1>2, <1>4
<1>6. /\ right \in Seq(T) /\ Len(right) = j + 1 /\ right[j + 1] = t
      /\ \A i \in 1 .. j : right[i] = before[i]
  BY <1>1, <1>3
<1> HIDE DEF right
<1>7. \A i \in 1 .. j + 1 : more[i] = right[i]
  <2> SUFFICES ASSUME NEW i \in 1 .. j + 1 PROVE more[i] = right[i]
    OBVIOUS
  <2>1. CASE i = j + 1
    BY <1>1, <1>5, <1>6, <2>1
  <2>2. CASE i \in 1 .. j
    BY <1>3, <1>5, <1>6, <2>2
  <2> QED BY <2>1, <2>2
<1>8. more = right
  BY <1>5, <1>6, <1>7, SeqEqual
<1> QED BY <1>5, <1>8 DEF before, more, right, t

\* A member's texts, after others.
ReadsNextMember(head, calls, before, first, key, value, item) ==
  LET more == Append(before, <<",">> \o Member(key, item))
  IN  ReadTokens(head \o Listed(more))
        = AfterMembers(calls, more, Emplace(first, key, value), key)

LEMMA NextMemberIsRead ==
  ASSUME NEW head \in Seq(Solid), NEW calls, IsStack(calls), NEW before \in Seq(Seq(Solid)),
         NEW first, NEW last, ReadTokens(head \o Listed(before)) = AfterMembers(calls, before, first, last),
         NEW key \in StringTokens, NEW value, NEW item, IsReadAs(item, value)
  PROVE  ReadsNextMember(head, calls, before, first, key, value, item)
<1> DEFINE more == Append(before, <<",">> \o Member(key, item))
           then == Emplace(first, key, value)
           member == Member(key, item)
           text == head \o Listed(before)
           call == Call(<<"object", first>>, last)
           after == InCall("next", calls, Call(<<"object", then>>, key))
<1>1. member \in Seq(Solid)
  <2> DEFINE C == Solid
  <2>1. head \in Seq(C) /\ item \in Seq(C) /\ key \in C /\ ":" \in C
    BY SolidTokens DEF IsReadAs
  <2> HIDE DEF C
  <2>2. Member(key, item) \in Seq(C)
    BY <2>1, MemberAfter
  <2> QED BY <2>2 DEF C
<1>2. more = Append(before, <<",">> \o member)
  OBVIOUS
<1>3. ReadsMember(text, calls, first, last, key, value, item) \/ text \notin Seq(Solid)
  BY MemberIsRead
<1> HIDE DEF member, more
<1>4. WrittenNext(Solid, head, before, ",", member)
  BY <1>1, SolidTokens, NextIsWritten
<1>5. /\ FlattenSeq(more) # <<>> /\ text \in Seq(Solid)
      /\ FlattenSeq(before) = <<>> => head \o Listed(more) = text \o member
      /\ FlattenSeq(before) # <<>> => head \o Listed(more) = Append(text, ",") \o member
  BY <1>2, <1>4 DEF WrittenNext
<1>6. ReadTokens(text) = AfterMembers(calls, before, first, last)
  OBVIOUS
<1> HIDE DEF text
<1>7. after = InCall("next", calls, Call(<<"object", Emplace(first, key, value)>>, key))
  OBVIOUS
<1>8. /\ ReadTokens(text) = InCall("first", calls, call) => ReadTokens(text \o member) = after
      /\ ReadTokens(text) = InCall("next", calls, call) =>
           ReadTokens(Append(text, ",") \o member) = after
  BY <1>3, <1>5, <1>7 DEF ReadsMember, member
<1>9. AfterMembers(calls, before, first, last)
        = InCall(IF FlattenSeq(before) = <<>> THEN "first" ELSE "next", calls, call)
  BY DEF AfterMembers
<1> HIDE DEF then
<1>10. AfterMembers(calls, more, then, key) = after
  BY <1>5 DEF AfterMembers
<1> HIDE DEF call, after
<1>11. ReadTokens(head \o Listed(more)) = AfterMembers(calls, more, then, key)
  BY <1>5, <1>6, <1>8, <1>9, <1>10
<1> QED BY <1>11 DEF ReadsNextMember, more, then

LEMMA OneMoreMemberIsRead ==
  ASSUME NEW inner, \A v \in DOMAIN inner : IsReadAs(inner[v], v),
         NEW members \in [StringTokens -> DOMAIN inner \cup {None}],
         NEW head \in Seq(Solid), NEW calls, IsStack(calls),
         NEW j \in Nat, j + 1 \in 1 .. Len(KeyOrder), AreMembersRead(inner, members, head, calls, j)
  PROVE  AreMembersRead(inner, members, head, calls, j + 1)
<1> DEFINE all == MemberTexts(inner, members)
           key == KeyOrder[j + 1]
           value == members[key]
           item == inner[value]
           before == FirstTexts(all, j)
           more == FirstTexts(all, j + 1)
           first == FirstMembers(members, j)
           then == FirstMembers(members, j + 1)
           T == Seq(Solid)
           n == j + 1
<1>1. /\ all[j + 1] \in T
      /\ value = None => all[j + 1] = <<>>
      /\ value # None => IsReadAs(item, value) /\ all[j + 1] = <<",">> \o Member(key, item)
  <2> HIDE DEF n
  <2> DEFINE i == j + 1
  <2>1. i \in 1 .. Len(KeyOrder)
    OBVIOUS
  <2> HIDE DEF i
  <2>2. IsMemberText(inner, MemberTexts(inner, members)[i], KeyOrder[i], members[KeyOrder[i]])
    BY <2>1, TextsOfMembers
  <2> QED BY <2>2 DEF i, IsMemberText
<1>2. /\ value = None => then = first
      /\ then = Emplace(first, key, value)
  <2>1. members = [k \in StringTokens |-> members[k]]
    OBVIOUS
  <2> QED BY <2>1, OneMoreMember
<1>3. key \in StringTokens
  BY KeysInOrder
<1>4. PICK last : /\ before \in Seq(T)
                  /\ ReadTokens(head \o Listed(before)) = AfterMembers(calls, before, first, last)
  BY DEF AreMembersRead
<1> HIDE DEF all, first, then
<1>5. more = Append(before, all[j + 1]) /\ more \in Seq(T)
  <2> HIDE DEF T
  <2> QED BY <1>1, <1>4, OneMoreText
<1> HIDE DEF before, more, key, value, item
<1>6. CASE value = None
  <2>1. more = Append(before, <<>>)
    BY <1>1, <1>5, <1>6
  <2>2. Listed(more) = Listed(before) /\ FlattenSeq(more) = FlattenSeq(before)
    BY <1>4, <2>1, NothingIsListed
  <2>3. AfterMembers(calls, more, then, last) = AfterMembers(calls, before, first, last)
    BY <1>2, <1>6, <2>2 DEF AfterMembers
  <2>4. ReadTokens(head \o Listed(more)) = AfterMembers(calls, more, then, last)
    BY <1>4, <2>2, <2>3
  <2> QED BY <1>5, <2>4 DEF AreMembersRead, more, then, all
<1>7. CASE value # None
  <2>1. IsReadAs(item, value) /\ more = Append(before, <<",">> \o Member(key, item))
    BY <1>1, <1>5, <1>7
  <2>2. ReadTokens(head \o Listed(more)) = AfterMembers(calls, more, then, key)
    <3>1. before \in Seq(T) /\ then = Emplace(first, key, value)
      BY <1>2, <1>4
    <3>2. ReadTokens(head \o Listed(before)) = AfterMembers(calls, before, first, last)
      BY <1>4
    <3>3. IsReadAs(item, value)
      BY <2>1
    <3>4. ReadsNextMember(head, calls, before, first, key, value, item)
      BY <1>3, <3>1, <3>2, <3>3, NextMemberIsRead
    <3> QED BY <2>1, <3>1, <3>4 DEF ReadsNextMember
  <2> QED BY <1>5, <2>2 DEF AreMembersRead, more, then, all
<1> QED BY <1>6, <1>7

LEMMA MembersAreRead ==
  ASSUME NEW inner, \A v \in DOMAIN inner : IsReadAs(inner[v], v),
         NEW members \in [StringTokens -> DOMAIN inner \cup {None}],
         NEW head \in Seq(Solid), NEW calls, IsStack(calls),
         ReadTokens(head) = InCall("first", calls, Call(EmptyObject, ""))
  PROVE  AreMembersRead(inner, members, head, calls, Len(KeyOrder))
<1> DEFINE n == Len(KeyOrder)
           Read == {j \in Nat : AreMembersRead(inner, members, head, calls, j)}
<1>0. n \in Nat
  BY KeysInOrder
<1>1. AreMembersRead(inner, members, head, calls, 0)
  <2> DEFINE none == <<>>
             texts == FirstTexts(MemberTexts(inner, members), 0)
             T == Seq(Solid)
  <2>1. texts = none /\ <<"object", FirstMembers(members, 0)>> = EmptyObject
    BY NoMembers
  <2>2. Listed(none) = none /\ FlattenSeq(none) = <<>>
    BY ListedFirst
  <2>3. none \in Seq(T) /\ head \o none = head
    <3> HIDE DEF texts
    <3> QED BY EmptySeq, ConcatEmptySeq
  <2>4. none = <<>>
    OBVIOUS
  <2> HIDE DEF none, texts, T
  <2>5. AfterMembers(calls, texts, FirstMembers(members, 0), "")
          = InCall("first", calls, Call(EmptyObject, ""))
    BY <2>1, <2>2 DEF AfterMembers
  <2>6. ReadTokens(head \o Listed(texts))
          = AfterMembers(calls, texts, FirstMembers(members, 0), "")
    BY <2>1, <2>2, <2>3, <2>5
  <2> QED BY <2>1, <2>3, <2>6 DEF AreMembersRead, texts, T
<1>2. 0 \in Read
  BY <1>1
<1>3. ASSUME NEW j \in Nat, j + 1 \in 1 .. n, j \in Read PROVE j + 1 \in Read
  <2>1. AreMembersRead(inner, members, head, calls, j)
    BY <1>3
  <2>2. AreMembersRead(inner, members, head, calls, j + 1)
    BY <1>3, <2>1, OneMoreMemberIsRead
  <2>3. j + 1 \in Nat
    BY NextNumber
  <2> QED BY <2>2, <2>3
<1> HIDE DEF n, Read
<1>4. n \in Read
  BY <1>0, <1>2, <1>3, NumbersUpTo
<1> QED BY <1>4 DEF Read, n

LEMMA AllMembers ==
  ASSUME NEW all, NEW n \in Nat, DOMAIN all = 1 .. n, all = [i \in 1 .. n |-> all[i]]
  PROVE  FirstTexts(all, n) = all
BY DEF FirstTexts

LEMMA ObjectIsRead ==
  ASSUME NEW inner, \A v \in DOMAIN inner : IsReadAs(inner[v], v),
         NEW members \in [StringTokens -> DOMAIN inner \cup {None}]
  PROVE  IsReadAs(Written(<<"object", members>>, inner), <<"object", members>>)
<1> DEFINE n == Len(KeyOrder)
           texts == MemberTexts(inner, members)
           listed == Listed(texts)
           whole == Bracketed("{", listed, "}")
           value == <<"object", members>>
<1>1. Written(value, inner) = whole
  <2>1. value[1] = "object" /\ value[2] = members
    OBVIOUS
  <2> HIDE DEF value
  <2>2. texts = [i \in DOMAIN KeyOrder |->
                   IF value[2][KeyOrder[i]] = None THEN <<>>
                   ELSE <<",", KeyOrder[i], ":">> \o inner[value[2][KeyOrder[i]]]]
    BY <2>1 DEF MemberTexts
  <2> HIDE DEF texts
  <2> QED BY <2>1, <2>2 DEF Written, Bracketed
<1>2. FirstTexts(texts, n) = texts
  <2>1. texts = [i \in 1 .. n |-> texts[i]]
    BY KeysInOrder DEF MemberTexts
  <2> HIDE DEF texts
  <2>2. DOMAIN texts = 1 .. n
    BY <2>1
  <2>3. n \in Nat
    BY KeysInOrder
  <2> HIDE DEF n
  <2> QED BY <2>1, <2>2, <2>3, AllMembers
<1>3. FirstMembers(members, n) = members
  <2>1. \A k \in StringTokens : \E i \in 1 .. n : KeyOrder[i] = k
    BY KeysInOrder
  <2> HIDE DEF n
  <2>2. FirstMembers(members, n) = [k \in StringTokens |-> members[k]]
    BY <2>1 DEF FirstMembers
  <2> QED BY <2>2
<1>4. ASSUME NEW head \in Seq(Solid), NEW calls, IsStack(calls),
             ReadTokens(head) = InCall("first", calls, Call(EmptyObject, ""))
      PROVE  /\ texts \in Seq(Seq(Solid))
             /\ \E last : ReadTokens(head \o listed) = AfterMembers(calls, texts, members, last)
  <2>1. AreMembersRead(inner, members, head, calls, n)
    BY <1>4, MembersAreRead
  <2> HIDE DEF texts, n
  <2>2. /\ FirstTexts(texts, n) \in Seq(Seq(Solid))
        /\ \E last : ReadTokens(head \o Listed(FirstTexts(texts, n)))
                       = AfterMembers(calls, FirstTexts(texts, n), FirstMembers(members, n), last)
    BY <2>1 DEF AreMembersRead, texts, n
  <2> QED BY <1>2, <1>3, <2>2
<1>5. texts \in Seq(Seq(Solid))
  <2> DEFINE head == Append(<<>>, "{")
             none == <<>>
  <2>1. none \in Seq(Solid) /\ ReadTokens(none) = Start
    BY EmptySeq, ReadOneMore
  <2>2. head = Append(none, "{")
    OBVIOUS
  <2> HIDE DEF head, none
  <2>3. head \in Seq(Solid) /\ ReadTokens(head) = ReadToken(Start, "{")
    BY <2>1, <2>2, SolidTokens, SolidOneMore
  <2>4. TakesValue(Start) /\ Start.calls = <<>>
    BY ParserFields DEF TakesValue, Start
  <2> DEFINE calls == Start.calls
  <2>5. ReadToken(Start, "{") = InCall("first", calls, Call(EmptyObject, ""))
    BY <2>4, FirstToken DEF InCall
  <2>6. IsStack(calls)
    BY <2>4, EmptyStack
  <2> HIDE DEF calls, texts
  <2> QED BY <1>4, <2>3, <2>5, <2>6
<1>6. listed \in Seq(Solid)
  <2> HIDE DEF texts
  <2> QED BY <1>5, ListedTexts
<1> HIDE DEF listed, texts, value, n
<1>7. ASSUME NEW before \in Seq(Solid)
      PROVE  /\ whole \in Seq(Solid)
             /\ before \o whole = Append(Append(before, "{") \o listed, "}")
  <2>1. "{" \in Solid /\ "}" \in Solid
    BY SolidTokens
  <2>2. ASSUME NEW left \in Solid, NEW right \in Solid
        PROVE  /\ Bracketed(left, listed, right) \in Seq(Solid)
               /\ before \o Bracketed(left, listed, right)
                    = Append(Append(before, left) \o listed, right)
    BY <1>6, BetweenBrackets
  <2> QED BY <2>1, <2>2
<1> HIDE DEF whole
<1>8. ASSUME NEW before \in Seq(Solid), TakesValue(ReadTokens(before))
      PROVE  ReadTokens(before \o whole) = Return(ReadTokens(before).calls, value)
  <2> DEFINE calls == ReadTokens(before).calls
             head == Append(before, "{")
             text == head \o listed
  <2>1. before \o whole = Append(text, "}")
    BY <1>7
  <2>2. IsStack(calls)
    BY TextsAreReaders DEF IsReader
  <2>3. head \in Seq(Solid) /\ ReadTokens(head) = ReadToken(ReadTokens(before), "{")
    BY SolidTokens, SolidOneMore
  <2>4. ReadToken(ReadTokens(before), "{") = InCall("first", calls, Call(EmptyObject, ""))
    BY <1>8, FirstToken DEF InCall
  <2> HIDE DEF calls, head
  <2>5. text \in Seq(Solid)
    BY <1>6, <2>3, ConcatProperties
  <2>6. PICK last : ReadTokens(text) = AfterMembers(calls, texts, members, last)
    BY <1>4, <2>2, <2>3, <2>4
  <2> HIDE DEF text
  <2> DEFINE call == Call(value, last)
  <2>7. value[1] = "object"
    BY DEF value
  <2>8. call.result = value /\ Closing(call) = "}"
    <3>1. Call(value, last).result = value
      BY CallFields
    <3> QED BY <2>7, <3>1 DEF Closing, IsArray
  <2>9. AfterMembers(calls, texts, members, last)
          = InCall(IF FlattenSeq(texts) = <<>> THEN "first" ELSE "next", calls, call)
    BY DEF AfterMembers, value
  <2> HIDE DEF call
  <2>10. PICK at \in {"first", "next"} : ReadTokens(text) = InCall(at, calls, call)
    BY <2>6, <2>9
  <2>11. ReadsInCall(calls, call)
    BY <2>2, TokensOfCall
  <2>12. ReadToken(ReadTokens(text), "}") = Return(calls, value)
    BY <2>8, <2>10, <2>11 DEF ReadsInCall
  <2>13. ReadTokens(Append(text, "}")) = ReadToken(ReadTokens(text), "}")
    BY <2>5, SolidTokens, SolidOneMore
  <2> QED BY <2>1, <2>12, <2>13 DEF calls
<1>9. whole \in Seq(Solid)
  <2> DEFINE none == <<>>
  <2>1. none \in Seq(Solid)
    BY EmptySeq
  <2> HIDE DEF none
  <2> QED BY <1>7, <2>1
<1>10. IsReadAs(whole, value)
  BY <1>8, <1>9 DEF IsReadAs
<1> QED BY <1>1, <1>10 DEF value

\* All values of one depth more.
LEMMA WrittenIsRead ==
  ASSUME NEW inner, \A v \in DOMAIN inner : IsReadAs(inner[v], v)
  PROVE  \A v \in DOMAIN WrittenOver(inner) : IsReadAs(WrittenOver(inner)[v], v)
<1>1. /\ DOMAIN WrittenOver(inner) = Plain \cup Containers(DOMAIN inner)
      /\ \A v \in DOMAIN WrittenOver(inner) : WrittenOver(inner)[v] = Written(v, inner)
  BY DEF WrittenOver
<1>2. ASSUME NEW v \in Containers(DOMAIN inner) PROVE IsReadAs(Written(v, inner), v)
  <2>1. CASE v \in {"array"} \X Seq(DOMAIN inner)
    <3>1. PICK items \in Seq(DOMAIN inner) : v = <<"array", items>>
      BY <2>1
    <3> QED BY <3>1, ArrayIsRead
  <2>2. CASE v \in {"object"} \X [StringTokens -> DOMAIN inner \cup {None}]
    <3>1. PICK members \in [StringTokens -> DOMAIN inner \cup {None}] : v = <<"object", members>>
      BY <2>2
    <3> QED BY <3>1, ObjectIsRead
  <2> QED BY <2>1, <2>2 DEF Containers
<1> QED BY <1>1, <1>2, PlainIsRead

LEMMA DumpIsRead ==
  \A v \in DOMAIN Dump : IsReadAs(Dump[v], v)
<1>1. PICK dump : /\ dump[0] = WrittenOver(NoTexts) /\ Dump = dump[Depth]
                  /\ \A d \in 1 .. Depth : dump[d] = WrittenOver(dump[d - 1])
  BY DumpExists
<1> DEFINE Read == {d \in Nat : \A v \in DOMAIN dump[d] : IsReadAs(dump[d][v], v)}
<1>2. 0 \in Read
  <2>1. DOMAIN NoTexts = {}
    BY DEF NoTexts
  <2>2. \A v \in DOMAIN WrittenOver(NoTexts) : IsReadAs(WrittenOver(NoTexts)[v], v)
    BY <2>1, WrittenIsRead
  <2> QED BY <1>1, <2>2
<1>3. ASSUME NEW d \in Nat, d + 1 \in 1 .. Depth, d \in Read PROVE d + 1 \in Read
  <2> DEFINE inner == dump[d]
             next == d + 1
  <2>1. \A v \in DOMAIN inner : IsReadAs(inner[v], v)
    BY <1>3
  <2>2. next \in 1 .. Depth /\ next - 1 = d /\ next \in Nat
    BY <1>3
  <2> HIDE DEF next
  <2>3. dump[next] = WrittenOver(inner)
    BY <1>1, <2>2
  <2> HIDE DEF inner
  <2>4. \A v \in DOMAIN dump[next] : IsReadAs(dump[next][v], v)
    BY <2>1, <2>3, WrittenIsRead
  <2>5. next \in Read
    BY <2>2, <2>4
  <2> QED BY <2>5 DEF next
<1>4. Depth \in Read
  <2> HIDE DEF Read
  <2> QED BY <1>2, <1>3, DepthAssumption, NumbersUpTo
<1> QED BY <1>1, <1>4

\* What is written for a value, of any depth, is a text without white space
\* that stands for that value and no other; the reader reads it back
\* (dump, json.cpp:280-322; parse, json.cpp:13-21).
THEOREM DumpMeansTheValue ==
  ASSUME NEW value \in DOMAIN Dump
  PROVE  /\ Dump[value] \in Seq(Solid)
         /\ ValuesOf(Dump[value]) = {value}
         /\ Parse(Dump[value]) = {value}
<1> DEFINE text == Dump[value]
           none == <<>>
<1>1. IsReadAs(text, value)
  BY DumpIsRead
<1> HIDE DEF text
<1>2. text \in Seq(Solid)
  BY <1>1 DEF IsReadAs
<1>3. none \in Seq(Solid) /\ none \o text = text /\ ReadTokens(none) = Start
  BY <1>2, EmptySeq, ConcatEmptySeq, ReadOneMore
<1>4. TakesValue(Start) /\ Start.calls = <<>>
  BY ParserFields DEF TakesValue, Start
<1> HIDE DEF none
<1>5. ReadTokens(text) = Return(<<>>, value)
  BY <1>1, <1>3, <1>4 DEF IsReadAs
<1>6. Return(<<>>, value) = Parser("end", <<>>, value)
  BY DEF Return
<1>7. ReadTokens(text).at = "end" /\ ReadTokens(text).value = value
  BY <1>5, <1>6, ParserFields
<1>8. Parse(text) = {value}
  BY <1>7 DEF Parse
<1> QED BY <1>2, <1>8, SolidTextsAreRead DEF text
=============================================================================
