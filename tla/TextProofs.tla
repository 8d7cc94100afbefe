----------------------------- MODULE TextProofs -----------------------------
(***************************************************************************)
(* The texts the agent builds and reads, for all lengths: the command      *)
(* line, read back by the shell; the message of a result; and the numbers  *)
(* and strings of JSON.                                                    *)
(***************************************************************************)
EXTENDS Shell, TaskOutput, JsonMeaning, Induction

-----------------------------------------------------------------------------
(* The shell. *)

Words == {"cd", "/bin/sh", "-lc", "o", "e"}
Chars == STRING \cup Words \cup Operators \cup {Quote, Backslash, Blank, "operator"}
Texts == Seq(Chars)

LEMMA AllChars ==
  /\ Words \subseteq Chars /\ Operators \subseteq Chars
  /\ Quote \in Chars /\ Backslash \in Chars /\ Blank \in Chars /\ "operator" \in Chars
BY DEF Chars

LexState ==
  [words : Seq(Texts), word : Texts, open : BOOLEAN, quoted : BOOLEAN, escaped : BOOLEAN]

\* The states on the way through a quoted text.
State(words, word, open, quoted, escaped) ==
  [words |-> words, word |-> word, open |-> open, quoted |-> quoted, escaped |-> escaped]
Between(words) == State(words, <<>>, FALSE, FALSE, FALSE)
Within(words, word) == State(words, word, TRUE, FALSE, FALSE)
Quoted(words, word) == State(words, word, TRUE, TRUE, FALSE)
Escaped(words, word) == State(words, word, TRUE, FALSE, TRUE)

LEMMA StateTypes ==
  ASSUME NEW words \in Seq(Texts), NEW word \in Texts
  PROVE  /\ Between(words) \in LexState /\ Within(words, word) \in LexState
         /\ Quoted(words, word) \in LexState /\ Escaped(words, word) \in LexState
<1>1. <<>> \in Texts
  BY DEF Texts
<1> HIDE DEF Texts
<1> QED BY <1>1 DEF State, Between, Within, Quoted, Escaped, LexState

\* What one character does in each of them.
LEMMA QuotedSteps ==
  ASSUME NEW words \in Seq(Texts), NEW word \in Texts
  PROVE  /\ Lex(Between(words), Quote) = Quoted(words, <<>>)
         /\ Lex(Quoted(words, word), Quote) = Within(words, word)
         /\ Lex(Within(words, word), Quote) = Quoted(words, word)
         /\ Lex(Within(words, word), Backslash) = Escaped(words, word)
         /\ \A ch \in Chars :
              /\ Lex(Escaped(words, word), ch) = Within(words, Append(word, ch))
              /\ ch # Quote => Lex(Quoted(words, word), ch) = Quoted(words, Append(word, ch))
<1> USE DEF State, Between, Within, Quoted, Escaped
<1>1. /\ Lex(Between(words), Quote) = Quoted(words, <<>>)
      /\ Lex(Quoted(words, word), Quote) = Within(words, word)
      /\ Lex(Within(words, word), Quote) = Quoted(words, word)
  BY DEF Lex
<1>2. Lex(Within(words, word), Backslash) = Escaped(words, word)
  BY DEF Lex, Quote, Backslash
<1>3. ASSUME NEW ch \in Chars
      PROVE  Lex(Escaped(words, word), ch) = Within(words, Append(word, ch))
  BY DEF Lex, Put
<1>4. ASSUME NEW ch \in Chars, ch # Quote
      PROVE  Lex(Quoted(words, word), ch) = Quoted(words, Append(word, ch))
  BY <1>4 DEF Lex, Put
<1> QED BY <1>1, <1>2, <1>3, <1>4

LEMMA UnquotedSteps ==
  ASSUME NEW words \in Seq(Texts), NEW word \in Texts
  PROVE  /\ Lex(Between(words), Blank) = Between(words)
         /\ Lex(Within(words, word), Blank) = Between(Append(words, word))
         /\ \A op \in Operators :
              Lex(Between(words), op) = Between(Append(words, <<"operator", op>>))
         /\ \A ch \in Words : Lex(Between(words), ch) = Within(words, <<ch>>)
<1> USE DEF State, Between, Within, Quote, Backslash, Blank
<1>1. /\ Lex(Between(words), Blank) = Between(words)
      /\ Lex(Within(words, word), Blank) = Between(Append(words, word))
  BY DEF Lex, Cut
<1>2. ASSUME NEW op \in Operators
      PROVE  Lex(Between(words), op) = Between(Append(words, <<"operator", op>>))
  BY DEF Lex, Cut, Operators
<1>3. ASSUME NEW ch \in Words
      PROVE  Lex(Between(words), ch) = Within(words, <<ch>>)
  <2>1. ch \notin Operators /\ ch \notin {Quote, Backslash, Blank}
    BY DEF Operators, Words
  <2>2. Append(<<>>, ch) = <<ch>>
    OBVIOUS
  <2> QED BY <2>1, <2>2 DEF Lex, Put
<1> QED BY <1>1, <1>2, <1>3

LEMMA LexType ==
  ASSUME NEW lex \in LexState, NEW ch \in Chars
  PROVE  Lex(lex, ch) \in LexState
<1>0. /\ lex.words \in Seq(Texts) /\ lex.word \in Texts
      /\ lex.open \in BOOLEAN /\ lex.quoted \in BOOLEAN /\ lex.escaped \in BOOLEAN
  BY DEF LexState
<1>1. lex = State(lex.words, lex.word, lex.open, lex.quoted, lex.escaped)
  BY DEF LexState, State
<1>2. Append(lex.word, ch) \in Texts /\ <<>> \in Texts /\ <<"operator", ch>> \in Texts
  <2>1. Append(lex.word, ch) \in Texts /\ <<>> \in Texts
    BY <1>0 DEF Texts
  <2> QED BY <2>1, AllChars, OneChar, TwoChars DEF Texts
<1>3. Put(lex, ch) \in LexState
  BY <1>0, <1>2 DEF Put, LexState
<1>4. Cut(lex) \in LexState
  <2>1. Append(lex.words, lex.word) \in Seq(Texts)
    BY <1>0
  <2> QED BY <1>0, <1>2, <2>1 DEF Cut, LexState
<1>5. [lex EXCEPT !.quoted = ~lex.quoted, !.open = TRUE] \in LexState
  BY <1>0 DEF LexState
<1>6. [lex EXCEPT !.escaped = TRUE] \in LexState
  BY <1>0 DEF LexState
<1>7. [Cut(lex) EXCEPT !.words = Append(Cut(lex).words, <<"operator", ch>>)] \in LexState
  <2> DEFINE cut == Cut(lex)
  <2>1. cut \in LexState /\ cut.words \in Seq(Texts)
    BY <1>4 DEF LexState
  <2> HIDE DEF cut
  <2>2. Append(cut.words, <<"operator", ch>>) \in Seq(Texts)
    BY <1>2, <2>1
  <2>3. [cut EXCEPT !.words = Append(cut.words, <<"operator", ch>>)] \in LexState
    BY <2>1, <2>2 DEF LexState
  <2> QED BY <2>3 DEF cut
<1> QED BY <1>3, <1>4, <1>5, <1>6, <1>7 DEF Lex

LexOp == [p \in LexState \X Chars |-> Lex(p[1], p[2])]

LEMMA LexOpType ==
  /\ LexOp \in Loops(LexState, Chars)
  /\ \A lex \in LexState, ch \in Chars : LexOp[<<lex, ch>>] = Lex(lex, ch)
BY LexType DEF LexOp, Loops

\* Reading a line is a loop over its characters.
LEMMA LexLineLoops ==
  ASSUME NEW lex \in LexState, NEW line \in Texts
  PROVE  LexLine(lex, line) = Looped(LexOp, lex, line)
<1> DEFINE n == Len(line)
           IsState(h) == h = [i \in 0 .. n |-> IF i = 0 THEN lex ELSE Lex(h[i - 1], line[i])]
           state == CHOOSE h : IsState(h)
<1>0. n \in Nat /\ line \in Seq(Chars) /\ \A i \in 1 .. n : line[i] \in Chars
  BY DEF Texts
<1>1. PICK f \in [0 .. Len(line) -> LexState] :
        GoesOver(f, LexOp, lex, line) /\ Looped(LexOp, lex, line) = f[Len(line)]
  BY <1>0, LexOpType, LoopExists
<1>2. f[0] = lex /\ \A i \in 1 .. n : f[i] = Lex(f[i - 1], line[i])
  <2>1. ASSUME NEW i \in 1 .. n PROVE f[i] = Lex(f[i - 1], line[i])
    <3>1. f[i - 1] \in LexState /\ line[i] \in Chars
      BY <1>0
    <3>2. f[i] = LexOp[<<f[i - 1], line[i]>>]
      BY <1>1 DEF GoesOver
    <3> QED BY <3>1, <3>2, LexOpType
  <2> QED BY <1>1, <2>1 DEF GoesOver
<1>3. IsState(f)
  <2> DEFINE value(i) == IF i = 0 THEN lex ELSE Lex(f[i - 1], line[i])
  <2>1. \A i \in 0 .. n : f[i] = value(i)
    BY <1>0, <1>2
  <2> HIDE DEF value
  <2>2. f = [i \in 0 .. n |-> value(i)]
    BY <2>1
  <2> QED BY <2>2 DEF value
<1>4. IsState(state)
  BY <1>3
<1>5. LexLine(lex, line) = state[n]
  BY DEF LexLine
<1> HIDE DEF state
<1>6. state[0] = lex /\ \A i \in 1 .. n : state[i] = Lex(state[i - 1], line[i])
  BY <1>0, <1>4
<1>7. ASSUME NEW i \in 1 .. Len(line), state[i - 1] \in LexState
      PROVE  state[i] = LexOp[<<state[i - 1], line[i]>>]
  BY <1>0, <1>6, <1>7, LexOpType
<1>8. state[Len(line)] = Looped(LexOp, lex, line)
  BY <1>0, <1>6, <1>7, LexOpType, LoopIsUnique
<1> QED BY <1>5, <1>8

\* A line of two parts, and one of a character.
LEMMA LexParts ==
  ASSUME NEW lex \in LexState
  PROVE  /\ LexLine(lex, <<>>) = lex
         /\ \A line \in Texts : LexLine(lex, line) \in LexState
         /\ \A a, b \in Texts : LexLine(lex, a \o b) = LexLine(LexLine(lex, a), b)
         /\ \A ch \in Chars : LexLine(lex, <<ch>>) = Lex(lex, ch)
<1> DEFINE empty == <<>>
<1>0. empty \in Texts
  BY DEF Texts
<1>1. \A line \in Texts : LexLine(lex, line) \in LexState
  BY LexLineLoops, LexOpType, LoopStep DEF Texts
<1>2. LexLine(lex, <<>>) = lex
  <2> HIDE DEF empty
  <2>1. LexLine(lex, empty) = Looped(LexOp, lex, empty)
    BY <1>0, LexLineLoops
  <2>2. Looped(LexOp, lex, <<>>) = lex
    BY LexOpType, LoopStep
  <2> QED BY <2>1, <2>2 DEF empty
<1>3. ASSUME NEW a \in Texts, NEW b \in Texts
      PROVE  LexLine(lex, a \o b) = LexLine(LexLine(lex, a), b)
  <2>1. a \o b \in Texts
    BY DEF Texts
  <2>2. LexLine(lex, a \o b) = Looped(LexOp, lex, a \o b)
    BY <2>1, LexLineLoops
  <2>3. Looped(LexOp, lex, a \o b) = Looped(LexOp, Looped(LexOp, lex, a), b)
    BY LexOpType, LoopConcat DEF Texts
  <2>4. LexLine(lex, a) = Looped(LexOp, lex, a) /\ LexLine(lex, a) \in LexState
    BY <1>1, LexLineLoops
  <2>5. LexLine(LexLine(lex, a), b) = Looped(LexOp, LexLine(lex, a), b)
    BY <2>4, LexLineLoops
  <2> QED BY <2>2, <2>3, <2>4, <2>5
<1>4. ASSUME NEW ch \in Chars PROVE LexLine(lex, <<ch>>) = Lex(lex, ch)
  <2>0. empty \in Seq(Chars)
    BY <1>0 DEF Texts
  <2>1. Append(empty, ch) = <<ch>> /\ <<ch>> \in Texts
    BY OneChar DEF Texts
  <2>2. Looped(LexOp, lex, <<>>) = lex
    BY LexOpType, LoopStep
  <2> HIDE DEF empty, Texts
  <2>3. Looped(LexOp, lex, Append(empty, ch)) = LexOp[<<Looped(LexOp, lex, empty), ch>>]
    BY <2>0, LexOpType, LoopStep
  <2>4. LexLine(lex, <<ch>>) = Looped(LexOp, lex, <<ch>>)
    BY <2>1, LexLineLoops
  <2> QED BY <2>1, <2>2, <2>3, <2>4, LexOpType DEF empty
<1> QED BY <1>1, <1>2, <1>3, <1>4

\* Lines of up to four characters.
LEMMA LexFew ==
  ASSUME NEW lex \in LexState
  PROVE  /\ \A a, b \in Chars : LexLine(lex, <<a, b>>) = Lex(Lex(lex, a), b)
         /\ \A a, b, c \in Chars : LexLine(lex, <<a, b, c>>) = Lex(Lex(Lex(lex, a), b), c)
         /\ \A a, b, c, d \in Chars :
              LexLine(lex, <<a, b, c, d>>) = Lex(Lex(Lex(Lex(lex, a), b), c), d)
<1>0. ASSUME NEW front \in Texts, NEW ch \in Chars
      PROVE  LexLine(lex, front \o <<ch>>) = Lex(LexLine(lex, front), ch)
  <2>1. <<ch>> \in Texts
    BY OneChar DEF Texts
  <2>2. LexLine(lex, front \o <<ch>>) = LexLine(LexLine(lex, front), <<ch>>)
    BY <2>1, LexParts
  <2>3. LexLine(lex, front) \in LexState
    BY LexParts
  <2> QED BY <2>2, <2>3, LexParts
<1>1. ASSUME NEW a \in Chars, NEW b \in Chars
      PROVE  LexLine(lex, <<a, b>>) = Lex(Lex(lex, a), b)
  <2>1. <<a>> \in Texts
    BY OneChar DEF Texts
  <2>2. <<a, b>> = <<a>> \o <<b>>
    BY TwoChars, Zenon
  <2>3. LexLine(lex, <<a>>) = Lex(lex, a)
    BY LexParts
  <2>4. LexLine(lex, <<a>> \o <<b>>) = Lex(LexLine(lex, <<a>>), b)
    BY <1>0, <2>1
  <2> QED BY <2>2, <2>3, <2>4, Zenon
<1>2. ASSUME NEW a \in Chars, NEW b \in Chars, NEW c \in Chars
      PROVE  LexLine(lex, <<a, b, c>>) = Lex(Lex(Lex(lex, a), b), c)
  <2>1. <<a, b>> \in Texts
    BY TwoChars DEF Texts
  <2>2. <<a, b, c>> = <<a, b>> \o <<c>>
    BY ThreeChars, Zenon
  <2>3. LexLine(lex, <<a, b>> \o <<c>>) = Lex(LexLine(lex, <<a, b>>), c)
    BY <1>0, <2>1
  <2>4. LexLine(lex, <<a, b>>) = Lex(Lex(lex, a), b)
    BY <1>1
  <2> QED BY <2>2, <2>3, <2>4, Zenon
<1>3. ASSUME NEW a \in Chars, NEW b \in Chars, NEW c \in Chars, NEW d \in Chars
      PROVE  LexLine(lex, <<a, b, c, d>>) = Lex(Lex(Lex(Lex(lex, a), b), c), d)
  <2>1. <<a, b, c>> \in Texts
    BY ThreeChars DEF Texts
  <2>2. <<a, b, c, d>> = <<a, b, c>> \o <<d>>
    BY FourChars, Zenon
  <2>3. LexLine(lex, <<a, b, c>> \o <<d>>) = Lex(LexLine(lex, <<a, b, c>>), d)
    BY <1>0, <2>1
  <2>4. LexLine(lex, <<a, b, c>>) = Lex(Lex(Lex(lex, a), b), c)
    BY <1>2
  <2> QED BY <2>2, <2>3, <2>4, Zenon
<1> QED BY <1>1, <1>2, <1>3

-----------------------------------------------------------------------------
(* Quoting. *)

\* What shell_escape puts between its quotes.
EscapedBody(value) == FlattenSeq([i \in DOMAIN value |-> EscapeOf(value[i])])

LEMMA EscapeType ==
  ASSUME NEW ch \in Chars
  PROVE  EscapeOf(ch) \in Texts
BY AllChars, OneChar, FourChars DEF EscapeOf, Texts

LEMMA InsideStep ==
  /\ EscapedBody(<<>>) = <<>>
  /\ \A value \in Texts : EscapedBody(value) \in Texts
  /\ \A value \in Texts, ch \in Chars :
       EscapedBody(Append(value, ch)) = EscapedBody(value) \o EscapeOf(ch)
<1> DEFINE Each(value) == [i \in DOMAIN value |-> EscapeOf(value[i])]
<1>1. EscapedBody(<<>>) = <<>>
  <2>1. Each(<<>>) = <<>>
    OBVIOUS
  <2> QED BY <2>1, FlattenStep DEF EscapedBody
<1>2. ASSUME NEW value \in Texts PROVE Each(value) \in Seq(Texts)
  <2>1. Len(value) \in Nat /\ DOMAIN value = 1 .. Len(value)
    BY DEF Texts
  <2>2. \A i \in 1 .. Len(value) : value[i] \in Chars
    BY DEF Texts
  <2>3. \A i \in 1 .. Len(value) : EscapeOf(value[i]) \in Texts
    BY <2>2, EscapeType
  <2> HIDE DEF Texts
  <2> QED BY <2>1, <2>3
<1>3. ASSUME NEW value \in Texts PROVE EscapedBody(value) \in Texts
  BY <1>2, FlattenStep DEF EscapedBody, Texts
<1>4. ASSUME NEW value \in Texts, NEW ch \in Chars
      PROVE  EscapedBody(Append(value, ch)) = EscapedBody(value) \o EscapeOf(ch)
  <2> DEFINE longer == Append(value, ch)
             n == Len(value)
             left == Each(longer)
             right == Append(Each(value), EscapeOf(ch))
  <2>1. longer \in Texts /\ Len(longer) = n + 1 /\ n \in Nat
    BY DEF Texts
  <2>2. longer[n + 1] = ch /\ \A i \in 1 .. n : longer[i] = value[i]
    BY DEF Texts
  <2>3. DOMAIN longer = 1 .. n + 1 /\ DOMAIN value = 1 .. n
    BY <2>1 DEF Texts
  <2>4. left \in Seq(Texts) /\ Each(value) \in Seq(Texts) /\ EscapeOf(ch) \in Texts
    BY <1>2, <2>1, EscapeType
  <2>5. Len(left) = n + 1 /\ Len(Each(value)) = n
    <3>1. DOMAIN left = 1 .. n + 1 /\ DOMAIN Each(value) = 1 .. n
      BY <2>3
    <3> HIDE DEF left, longer, n, Each
    <3> QED BY <2>1, <2>4, <3>1
  <2>6. right \in Seq(Texts) /\ Len(right) = n + 1
    <3> HIDE DEF Each, n
    <3> QED BY <2>4, <2>5, AppendProperties
  <2>7. ASSUME NEW i \in 1 .. n + 1 PROVE left[i] = right[i]
    <3>1. left[i] = EscapeOf(longer[i])
      BY <2>3
    <3>2. CASE i = n + 1
      <4>1. right[n + 1] = EscapeOf(ch)
        <5> HIDE DEF Each, n
        <5> QED BY <2>4, <2>5, AppendProperties
      <4> HIDE DEF left, right, longer, n
      <4> QED BY <2>2, <3>1, <3>2, <4>1
    <3>3. CASE i \in 1 .. n
      <4>1. right[i] = Each(value)[i]
        <5> HIDE DEF Each, n
        <5> QED BY <2>4, <2>5, <3>3, AppendProperties
      <4>2. Each(value)[i] = EscapeOf(value[i])
        BY <2>3, <3>3
      <4> HIDE DEF left, right, longer, n, Each
      <4> QED BY <2>2, <3>1, <3>3, <4>1, <4>2
    <3> QED BY <2>1, <3>2, <3>3
  <2> HIDE DEF left, right
  <2>8. left = right
    BY <2>4, <2>5, <2>6, <2>7, SeqEqual
  <2>9. FlattenSeq(right) = FlattenSeq(Each(value)) \o EscapeOf(ch)
    <3> HIDE DEF Each
    <3> QED BY <2>4, FlattenStep DEF right, Texts
  <2> QED BY <2>8, <2>9 DEF EscapedBody, left
<1> QED BY <1>1, <1>3, <1>4

\* Within the quotes, every text adds itself to the word.
LEMMA InsideAddsText ==
  ASSUME NEW words \in Seq(Texts), NEW word \in Texts
  PROVE  \A value \in Texts :
           LexLine(Quoted(words, word), EscapedBody(value)) = Quoted(words, word \o value)
<1> DEFINE Good ==
             {value \in Texts :
                LexLine(Quoted(words, word), EscapedBody(value)) = Quoted(words, word \o value)}
<1>0. <<>> \in Texts /\ word \o <<>> = word /\ Quoted(words, word) \in LexState
  BY StateTypes DEF Texts
<1>1. <<>> \in Good
  <2>1. LexLine(Quoted(words, word), <<>>) = Quoted(words, word)
    BY <1>0, LexParts
  <2> QED BY <1>0, <2>1, InsideStep
<1>2. ASSUME NEW value \in Texts, NEW ch \in Chars, value \in Good
      PROVE  Append(value, ch) \in Good
  <2> DEFINE sofar == word \o value
  <2>1. sofar \in Texts /\ Append(value, ch) \in Texts
    BY DEF Texts
  <2>2. word \o Append(value, ch) = Append(sofar, ch)
    BY DEF Texts
  <2>3. EscapedBody(value) \in Texts /\ EscapeOf(ch) \in Texts
    BY InsideStep, EscapeType
  <2> HIDE DEF sofar
  <2>4. LexLine(Quoted(words, word), EscapedBody(Append(value, ch)))
          = LexLine(LexLine(Quoted(words, word), EscapedBody(value)), EscapeOf(ch))
    <3>1. EscapedBody(Append(value, ch)) = EscapedBody(value) \o EscapeOf(ch)
      BY InsideStep
    <3> QED BY <1>0, <2>3, <3>1, LexParts
  <2>5. LexLine(Quoted(words, word), EscapedBody(value)) = Quoted(words, sofar)
    BY <1>2 DEF sofar
  <2>6. LexLine(Quoted(words, sofar), EscapeOf(ch)) = Quoted(words, Append(sofar, ch))
    <3>0. Quoted(words, sofar) \in LexState
      BY <2>1, StateTypes
    <3>1. CASE ch # Quote
      <4>1. EscapeOf(ch) = <<ch>>
        BY <3>1 DEF EscapeOf
      <4> QED BY <2>1, <3>0, <3>1, <4>1, LexParts, QuotedSteps
    <3>2. CASE ch = Quote
      <4>1. EscapeOf(ch) = <<Quote, Backslash, Quote, Quote>>
        BY <3>2 DEF EscapeOf
      <4>2. LexLine(Quoted(words, sofar), <<Quote, Backslash, Quote, Quote>>)
              = Lex(Lex(Lex(Lex(Quoted(words, sofar), Quote), Backslash), Quote), Quote)
        <5>1. Quote \in Chars /\ Backslash \in Chars
          BY AllChars
        <5> QED BY <3>0, <5>1, LexFew
      <4>3. /\ Lex(Quoted(words, sofar), Quote) = Within(words, sofar)
            /\ Lex(Within(words, sofar), Backslash) = Escaped(words, sofar)
            /\ Lex(Escaped(words, sofar), Quote) = Within(words, Append(sofar, Quote))
        BY <2>1, AllChars, QuotedSteps
      <4>4. Append(sofar, Quote) \in Texts
        BY <2>1, AllChars DEF Texts
      <4>5. Lex(Within(words, Append(sofar, Quote)), Quote) = Quoted(words, Append(sofar, Quote))
        BY <4>4, QuotedSteps
      <4> QED BY <3>2, <4>1, <4>2, <4>3, <4>5
    <3> QED BY <3>1, <3>2
  <2> QED BY <2>1, <2>2, <2>4, <2>5, <2>6
<1> HIDE DEF Good
<1>3. Seq(Chars) \subseteq Good
  BY <1>1, <1>2, TextsByInduction DEF Texts
<1> QED BY <1>3 DEF Good, Texts

\* The shell reads an escaped text as one word, which is the text, whatever it
\* holds (shell_escape).
THEOREM EscapedIsOneWord ==
  ASSUME NEW words \in Seq(Texts), NEW value \in Texts
  PROVE  /\ ShellEscape(value) \in Texts
         /\ LexLine(Between(words), ShellEscape(value)) = Within(words, value)
<1>0. /\ <<Quote>> \in Texts /\ EscapedBody(value) \in Texts /\ <<>> \in Texts
      /\ <<Quote>> \o EscapedBody(value) \in Texts
  <2>1. <<Quote>> \in Texts /\ <<>> \in Texts
    BY AllChars, OneChar, TwoChars DEF Texts
  <2>2. EscapedBody(value) \in Texts
    BY InsideStep
  <2> QED BY <2>1, <2>2 DEF Texts
<1>1. ShellEscape(value) = (<<Quote>> \o EscapedBody(value)) \o <<Quote>>
  BY DEF ShellEscape, EscapedBody
<1>2. ShellEscape(value) \in Texts
  BY <1>0, <1>1 DEF Texts
<1>3. LexLine(Between(words), <<Quote>>) = Quoted(words, <<>>)
  BY <1>0, AllChars, StateTypes, LexParts, QuotedSteps
<1>4. LexLine(Quoted(words, <<>>), EscapedBody(value)) = Quoted(words, value)
  <2>1. <<>> \o value = value
    BY DEF Texts
  <2> DEFINE empty == <<>>
  <2>2. empty \in Texts
    BY <1>0
  <2> HIDE DEF empty
  <2>3. LexLine(Quoted(words, empty), EscapedBody(value)) = Quoted(words, empty \o value)
    BY <2>2, InsideAddsText
  <2> QED BY <2>1, <2>3 DEF empty
<1>5. LexLine(Quoted(words, value), <<Quote>>) = Within(words, value)
  BY AllChars, StateTypes, LexParts, QuotedSteps
<1>6. Between(words) \in LexState
  BY <1>0, StateTypes
<1>7. LexLine(Between(words), (<<Quote>> \o EscapedBody(value)) \o <<Quote>>)
        = LexLine(LexLine(Between(words), <<Quote>> \o EscapedBody(value)), <<Quote>>)
  BY <1>0, <1>6, LexParts
<1>8. LexLine(Between(words), <<Quote>> \o EscapedBody(value))
        = LexLine(LexLine(Between(words), <<Quote>>), EscapedBody(value))
  BY <1>0, <1>6, LexParts
<1> QED BY <1>1, <1>2, <1>3, <1>4, <1>5, <1>7, <1>8

-----------------------------------------------------------------------------
(* The list of arguments. *)

Entries == Texts \ {<<>>}

\* What json_arguments does with an entry.
AddArgument(sofar, entry) ==
  IF entry = <<>> THEN sofar
  ELSE sofar \o (IF sofar # <<>> THEN <<Blank>> ELSE <<>>) \o ShellEscape(entry)
ArgumentOp == [p \in Texts \X Texts |-> AddArgument(p[1], p[2])]

LEMMA EscapeIsText ==
  ASSUME NEW value \in Texts
  PROVE  ShellEscape(value) \in Texts /\ ShellEscape(value) # <<>>
<1>1. ShellEscape(value) = (<<Quote>> \o EscapedBody(value)) \o <<Quote>>
  BY DEF ShellEscape, EscapedBody
<1>2. <<Quote>> \in Texts /\ EscapedBody(value) \in Texts /\ Len(<<Quote>>) = 1
  BY AllChars, OneChar, InsideStep DEF Texts
<1> DEFINE mark == <<Quote>>
           inside == EscapedBody(value)
<1> HIDE DEF mark, inside
<1>3. mark \in Seq(Chars) /\ inside \in Seq(Chars) /\ Len(mark) = 1
  BY <1>2 DEF mark, inside, Texts
<1>4. (mark \o inside) \o mark \in Seq(Chars) /\ Len((mark \o inside) \o mark) >= 2
  BY <1>3
<1>5. (mark \o inside) \o mark # <<>>
  BY <1>4
<1> QED BY <1>1, <1>4, <1>5 DEF mark, inside, Texts

LEMMA AddArgumentType ==
  ASSUME NEW sofar \in Texts, NEW entry \in Texts
  PROVE  AddArgument(sofar, entry) \in Texts
<1>1. ShellEscape(entry) \in Texts
  BY EscapeIsText
<1>2. <<Blank>> \in Texts /\ <<>> \in Texts
  BY AllChars, OneChar DEF Texts
<1>3. (IF sofar # <<>> THEN <<Blank>> ELSE <<>>) \in Texts
  BY <1>2
<1> DEFINE gap == IF sofar # <<>> THEN <<Blank>> ELSE <<>>
<1> HIDE DEF gap
<1>4. sofar \o gap \o ShellEscape(entry) \in Texts
  BY <1>1, <1>3 DEF Texts, gap
<1> QED BY <1>4 DEF AddArgument, gap

LEMMA ArgumentOpType ==
  /\ ArgumentOp \in Loops(Texts, Texts)
  /\ \A sofar, entry \in Texts : ArgumentOp[<<sofar, entry>>] = AddArgument(sofar, entry)
BY AddArgumentType DEF ArgumentOp, Loops

\* json_arguments is a loop over the list.
LEMMA ArgumentsLoop ==
  ASSUME NEW entries \in Seq(Texts)
  PROVE  JsonArguments(entries) = Looped(ArgumentOp, <<>>, entries)
<1> DEFINE n == Len(entries)
           empty == <<>>
           IsJoined(h) ==
             h = [i \in 0 .. n |-> IF i = 0 THEN <<>>
                                  ELSE IF entries[i] = <<>> THEN h[i - 1]
                                  ELSE h[i - 1] \o (IF h[i - 1] # <<>> THEN <<Blank>> ELSE <<>>)
                                         \o ShellEscape(entries[i])]
           joined == CHOOSE h : IsJoined(h)
<1>0. n \in Nat /\ (\A i \in 1 .. n : entries[i] \in Texts) /\ empty \in Texts
  BY DEF Texts
<1>1. \A h : IsJoined(h) <=>
              h = [i \in 0 .. n |-> IF i = 0 THEN <<>> ELSE AddArgument(h[i - 1], entries[i])]
  BY DEF AddArgument
<1>2. JsonArguments(entries) = joined[n]
  BY DEF JsonArguments
<1> HIDE DEF IsJoined, n, empty
<1>3. PICK f \in [0 .. Len(entries) -> Texts] :
        GoesOver(f, ArgumentOp, empty, entries)
          /\ Looped(ArgumentOp, empty, entries) = f[Len(entries)]
  BY <1>0, ArgumentOpType, LoopExists
<1>4. f[0] = empty /\ \A i \in 1 .. n : f[i] = AddArgument(f[i - 1], entries[i])
  <2>1. ASSUME NEW i \in 1 .. n PROVE f[i] = AddArgument(f[i - 1], entries[i])
    <3>1. f[i - 1] \in Texts /\ entries[i] \in Texts
      BY <1>0 DEF n
    <3>2. f[i] = ArgumentOp[<<f[i - 1], entries[i]>>]
      BY <1>3 DEF GoesOver, n
    <3> QED BY <3>1, <3>2, ArgumentOpType
  <2> QED BY <1>3, <2>1 DEF GoesOver
<1>5. IsJoined(f)
  <2> DEFINE value(i) == IF i = 0 THEN <<>> ELSE AddArgument(f[i - 1], entries[i])
  <2>1. \A i \in 0 .. n : f[i] = value(i)
    BY <1>0, <1>4 DEF empty
  <2>2. f = [i \in 0 .. n |-> f[i]]
    BY DEF n
  <2> HIDE DEF value
  <2>3. f = [i \in 0 .. n |-> value(i)]
    BY <2>1, <2>2
  <2> QED BY <1>1, <2>3 DEF value
<1>6. IsJoined(joined)
  BY <1>5
<1> HIDE DEF joined
<1>7. joined = [i \in 0 .. n |-> IF i = 0 THEN <<>> ELSE AddArgument(joined[i - 1], entries[i])]
  BY <1>1, <1>6
<1>8. joined[0] = empty /\ \A i \in 1 .. n : joined[i] = AddArgument(joined[i - 1], entries[i])
  BY <1>0, <1>7 DEF empty
<1>9. ASSUME NEW i \in 1 .. Len(entries), joined[i - 1] \in Texts
      PROVE  joined[i] = ArgumentOp[<<joined[i - 1], entries[i]>>]
  BY <1>0, <1>8, <1>9, ArgumentOpType DEF n
<1>10. joined[Len(entries)] = Looped(ArgumentOp, empty, entries)
  BY <1>0, <1>8, <1>9, ArgumentOpType, LoopIsUnique
<1> QED BY <1>2, <1>10 DEF n, empty

LEMMA ArgumentsStep ==
  /\ JsonArguments(<<>>) = <<>>
  /\ \A entries \in Seq(Texts) : JsonArguments(entries) \in Texts
  /\ \A entries \in Seq(Texts), entry \in Texts :
       JsonArguments(Append(entries, entry)) = AddArgument(JsonArguments(entries), entry)
<1> DEFINE empty == <<>>
           none == <<>>
<1>0. empty \in Texts /\ none \in Seq(Texts)
  BY DEF Texts
<1>1. JsonArguments(<<>>) = <<>>
  <2>1. Looped(ArgumentOp, empty, <<>>) = empty
    <3> HIDE DEF empty
    <3> QED BY <1>0, ArgumentOpType, LoopStep
  <2>2. JsonArguments(none) = Looped(ArgumentOp, <<>>, none)
    <3> HIDE DEF none
    <3> QED BY <1>0, ArgumentsLoop
  <2> QED BY <2>1, <2>2
<1>2. ASSUME NEW entries \in Seq(Texts) PROVE JsonArguments(entries) \in Texts
  <2>1. JsonArguments(entries) = Looped(ArgumentOp, empty, entries)
    BY ArgumentsLoop
  <2> HIDE DEF empty
  <2> QED BY <1>0, <2>1, ArgumentOpType, LoopStep
<1>3. ASSUME NEW entries \in Seq(Texts), NEW entry \in Texts
      PROVE  JsonArguments(Append(entries, entry)) = AddArgument(JsonArguments(entries), entry)
  <2>0. Append(entries, entry) \in Seq(Texts)
    OBVIOUS
  <2>1. /\ JsonArguments(entries) = Looped(ArgumentOp, empty, entries)
        /\ JsonArguments(Append(entries, entry)) = Looped(ArgumentOp, empty, Append(entries, entry))
    BY <2>0, ArgumentsLoop
  <2> HIDE DEF empty
  <2>2. Looped(ArgumentOp, empty, Append(entries, entry))
          = ArgumentOp[<<Looped(ArgumentOp, empty, entries), entry>>]
    BY <1>0, ArgumentOpType, LoopStep
  <2>3. Looped(ArgumentOp, empty, entries) \in Texts
    BY <1>2, <2>1
  <2> QED BY <2>1, <2>2, <2>3, ArgumentOpType
<1> QED BY <1>1, <1>2, <1>3

\* The shell reads the list back: after the blank that follows it, each entry is
\* a word.
LEMMA ArgumentsAreWords ==
  ASSUME NEW words \in Seq(Texts)
  PROVE  \A entries \in Seq(Entries) :
           /\ Lex(LexLine(Between(words), JsonArguments(entries)), Blank)
                = Between(words \o entries)
           /\ entries # <<>> => JsonArguments(entries) # <<>>
<1> DEFINE Good ==
             {entries \in Seq(Entries) :
                /\ Lex(LexLine(Between(words), JsonArguments(entries)), Blank)
                     = Between(words \o entries)
                /\ entries # <<>> => JsonArguments(entries) # <<>>}
<1>0. Between(words) \in LexState
  <2>1. <<>> \in Texts
    BY DEF Texts
  <2> QED BY <2>1, StateTypes
<1>1. <<>> \in Good
  <2>1. LexLine(Between(words), JsonArguments(<<>>)) = Between(words)
    BY <1>0, ArgumentsStep, LexParts
  <2>2. Lex(Between(words), Blank) = Between(words)
    <3>1. \E word : word \in Texts
      BY DEF Texts
    <3> QED BY <3>1, UnquotedSteps
  <2>3. words \o <<>> = words
    OBVIOUS
  <2> QED BY <2>1, <2>2, <2>3
<1>2. ASSUME NEW entries \in Seq(Entries), NEW entry \in Entries, entries \in Good
      PROVE  Append(entries, entry) \in Good
  <2> DEFINE sofar == JsonArguments(entries)
             longer == Append(entries, entry)
             before == words \o entries
             quoted == ShellEscape(entry)
             gap == <<Blank>>
             blanked == sofar \o gap
             joined == blanked \o quoted
  <2>1. entries \in Seq(Texts) /\ entry \in Texts /\ entry # <<>> /\ longer \in Seq(Entries)
    BY DEF Entries
  <2>2. before \in Seq(Texts) /\ words \o longer = Append(before, entry)
    <3> HIDE DEF Texts, Entries
    <3> QED BY <2>1
  <2>3. sofar \in Texts /\ quoted \in Texts /\ quoted # <<>> /\ gap \in Texts
    BY <2>1, AllChars, ArgumentsStep, EscapeIsText, OneChar DEF Texts
  <2>4. JsonArguments(longer)
          = sofar \o (IF sofar # <<>> THEN <<Blank>> ELSE <<>>) \o quoted
    BY <2>1, ArgumentsStep DEF AddArgument
  <2>5. LexLine(Between(before), quoted) = Within(before, entry)
    BY <2>1, <2>2, EscapedIsOneWord
  <2>6. Lex(Within(before, entry), Blank) = Between(words \o longer)
    BY <2>1, <2>2, UnquotedSteps
  <2>7. CASE sofar # <<>>
    <3>1. JsonArguments(longer) = joined
      BY <2>4, <2>7
    <3>2. blanked \in Texts /\ joined \in Texts /\ joined # <<>>
      <4> HIDE DEF sofar, gap, quoted
      <4> QED BY <2>3 DEF Texts
    <3>3. LexLine(Between(words), joined) = LexLine(LexLine(Between(words), blanked), quoted)
      <4> HIDE DEF blanked, quoted
      <4> QED BY <1>0, <2>3, <3>2, LexParts
    <3>4. LexLine(Between(words), blanked) = Between(before)
      <4>1. LexLine(Between(words), blanked) = LexLine(LexLine(Between(words), sofar), gap)
        <5> HIDE DEF sofar, gap
        <5> QED BY <1>0, <2>3, LexParts
      <4>2. LexLine(Between(words), sofar) \in LexState
        BY <1>0, <2>3, LexParts
      <4>3. LexLine(LexLine(Between(words), sofar), gap)
              = Lex(LexLine(Between(words), sofar), Blank)
        BY <4>2, AllChars, LexParts
      <4> QED BY <1>2, <4>1, <4>3
    <3>5. JsonArguments(longer) # <<>>
      BY <3>1, <3>2
    <3>6. Lex(LexLine(Between(words), JsonArguments(longer)), Blank) = Between(words \o longer)
      <4> HIDE DEF joined, blanked, before, longer, quoted
      <4> QED BY <2>5, <2>6, <3>1, <3>3, <3>4
    <3> HIDE DEF joined, blanked, before, longer, quoted
    <3> QED BY <2>1, <3>5, <3>6 DEF longer
  <2>8. CASE sofar = <<>>
    <3>1. entries = <<>>
      BY <1>2, <2>8
    <3>2. before = words
      BY <3>1
    <3>3. JsonArguments(longer) = quoted
      <4>1. JsonArguments(longer) = <<>> \o <<>> \o quoted
        BY <2>4, <2>8
      <4> HIDE DEF quoted
      <4>2. <<>> \o <<>> \o quoted = quoted
        BY <2>3 DEF Texts
      <4> QED BY <4>1, <4>2
    <3> HIDE DEF before, longer, quoted
    <3> QED BY <2>1, <2>3, <2>5, <2>6, <3>2, <3>3 DEF longer
  <2> QED BY <2>7, <2>8
<1> HIDE DEF Good
<1>3. Seq(Entries) \subseteq Good
  BY <1>1, <1>2, TextsByInduction
<1> QED BY <1>3 DEF Good

-----------------------------------------------------------------------------
(* The whole line. *)

\* An executable and its arguments.
LEMMA CommandIsWords ==
  ASSUME NEW words \in Seq(Texts), NEW program \in Texts, NEW entries \in Seq(Entries)
  PROVE  /\ ExecutableCommand(program, JsonArguments(entries)) \in Texts
         /\ Lex(LexLine(Between(words), ExecutableCommand(program, JsonArguments(entries))), Blank)
              = Between(Append(words, program) \o entries)
<1> DEFINE listed == JsonArguments(entries)
           first == ShellEscape(program)
           gap == <<Blank>>
           before == Append(words, program)
           command == ExecutableCommand(program, listed)
<1>0. entries \in Seq(Texts)
  BY DEF Entries
<1>1. listed \in Texts /\ first \in Texts /\ gap \in Texts /\ gap \o listed \in Texts
  <2>1. listed \in Texts /\ first \in Texts /\ gap \in Texts
    BY <1>0, AllChars, ArgumentsStep, EscapeIsText, OneChar DEF Texts
  <2> HIDE DEF listed, gap
  <2> QED BY <2>1 DEF Texts
<1>2. before \in Seq(Texts) /\ Between(words) \in LexState /\ Between(before) \in LexState
  <2>1. before \in Seq(Texts)
    OBVIOUS
  <2>2. <<>> \in Texts
    BY DEF Texts
  <2> HIDE DEF before
  <2> QED BY <2>1, <2>2, StateTypes
<1>3. LexLine(Between(words), first) = Within(words, program)
  BY EscapedIsOneWord
<1>4. Lex(Within(words, program), Blank) = Between(before)
  BY UnquotedSteps
<1>5. /\ Lex(LexLine(Between(before), listed), Blank) = Between(before \o entries)
      /\ entries # <<>> => listed # <<>>
  <2> HIDE DEF before
  <2> QED BY <1>2, ArgumentsAreWords
<1>6. CASE listed = <<>>
  <2>1. command = first
    <3>1. command = first \o <<>>
      BY <1>6 DEF ExecutableCommand
    <3> HIDE DEF first, command
    <3> QED BY <1>1, <3>1 DEF Texts
  <2>2. before \o entries = before
    <3> HIDE DEF before, listed
    <3> QED BY <1>2, <1>5, <1>6
  <2>3. Lex(LexLine(Between(words), command), Blank) = Between(before)
    <3> HIDE DEF before, first, command
    <3> QED BY <1>3, <1>4, <2>1, Zenon
  <2>4. Between(before \o entries) = Between(before)
    BY <2>2, Zenon
  <2>5. command \in Texts
    <3> HIDE DEF first, command
    <3> QED BY <1>1, <2>1, Zenon
  <2> HIDE DEF first, listed
  <2> QED BY <2>3, <2>4, <2>5, Zenon DEF command, before, listed
<1>7. CASE listed # <<>>
  <2> DEFINE rest == gap \o listed
  <2>1. command = first \o rest
    BY <1>7 DEF ExecutableCommand
  <2>2. command \in Texts
    <3> HIDE DEF first, rest, command
    <3>1. rest \in Texts
      BY <1>1 DEF rest
    <3> QED BY <1>1, <2>1, <3>1 DEF Texts
  <2>3. LexLine(Between(words), first \o rest) = LexLine(Within(words, program), rest)
    <3> HIDE DEF first, gap, listed
    <3> QED BY <1>1, <1>2, <1>3, LexParts
  <2>4. LexLine(Within(words, program), rest) = LexLine(Between(before), listed)
    <3>1. Within(words, program) \in LexState
      BY StateTypes
    <3>2. LexLine(Within(words, program), gap) = Lex(Within(words, program), Blank)
      BY <3>1, AllChars, LexParts
    <3> HIDE DEF gap, listed
    <3>3. LexLine(Within(words, program), rest)
            = LexLine(LexLine(Within(words, program), gap), listed)
      BY <1>1, <3>1, LexParts
    <3> QED BY <1>4, <3>2, <3>3
  <2> HIDE DEF first, rest, command, before, listed
  <2> QED BY <1>5, <2>1, <2>2, <2>3, <2>4 DEF command, before, listed
<1> QED BY <1>6, <1>7

\* The login shell reads the line as the words it is made of: the directory, the
\* executable, each argument and the two files arrive as they are (the inner
\* command of execute_task).
THEOREM InnerCommandIsWords ==
  ASSUME NEW directory \in Texts, NEW program \in Texts, NEW entries \in Seq(Entries),
         NEW stdout \in Texts, NEW stderr \in Texts
  PROVE  LET inner == InnerCommand(directory,
                                   ExecutableCommand(program, JsonArguments(entries)),
                                   stdout, stderr)
         IN  /\ inner \in Texts
             /\ ShellWords(inner) =
                  <<<<"cd">>, directory, <<"operator", "&&">>, program>>
                    \o entries
                    \o <<<<"operator", ">">>, stdout, <<"operator", "2>">>, stderr>>
<1> DEFINE cd == <<"cd", Blank>>
           and == <<Blank, "&&", Blank>>
           out == <<Blank, ">", Blank>>
           err == <<Blank, "2>", Blank>>
           where == ShellEscape(directory)
           command == ExecutableCommand(program, JsonArguments(entries))
           a == cd \o where
           b == a \o and
           c == b \o command
           d == c \o out
           e == d \o ShellEscape(stdout)
           f == e \o err
           inner == f \o ShellEscape(stderr)
           none == <<>>
           w1 == Append(none, <<"cd">>)
           w2 == Append(w1, directory)
           w3 == Append(w2, <<"operator", "&&">>)
           w4 == Append(w3, program) \o entries
           w5 == Append(w4, <<"operator", ">">>)
           w6 == Append(w5, stdout)
           w7 == Append(w6, <<"operator", "2>">>)
<1>1. /\ cd \in Texts /\ and \in Texts /\ out \in Texts /\ err \in Texts
      /\ <<"cd">> \in Texts /\ <<"operator", "&&">> \in Texts
      /\ <<"operator", ">">> \in Texts /\ <<"operator", "2>">> \in Texts
      /\ "cd" \in Chars /\ "&&" \in Chars /\ ">" \in Chars /\ "2>" \in Chars /\ Blank \in Chars
  <2>1. "cd" \in Chars /\ "&&" \in Chars /\ ">" \in Chars /\ "2>" \in Chars
    BY AllChars DEF Words, Operators
  <2>2. Blank \in Chars /\ "operator" \in Chars
    BY AllChars
  <2> QED BY <2>1, <2>2, OneChar, TwoChars, ThreeChars DEF Texts
<1>2. /\ where \in Texts /\ command \in Texts
      /\ ShellEscape(stdout) \in Texts /\ ShellEscape(stderr) \in Texts
  <2>1. <<>> \in Seq(Texts)
    OBVIOUS
  <2> QED BY <2>1, EscapeIsText, CommandIsWords
<1>3. /\ none \in Seq(Texts) /\ w1 \in Seq(Texts) /\ w2 \in Seq(Texts) /\ w3 \in Seq(Texts)
      /\ Append(w3, program) \in Seq(Texts)
      /\ w4 \in Seq(Texts) /\ w5 \in Seq(Texts) /\ w6 \in Seq(Texts) /\ w7 \in Seq(Texts)
  <2>0. entries \in Seq(Texts)
    BY DEF Entries
  <2> HIDE DEF Texts
  <2>1. none \in Seq(Texts)
    OBVIOUS
  <2> HIDE DEF none
  <2>2. w1 \in Seq(Texts)
    BY <1>1, <2>1
  <2> HIDE DEF w1
  <2>3. w2 \in Seq(Texts)
    BY <2>2
  <2> HIDE DEF w2
  <2>4. w3 \in Seq(Texts)
    BY <1>1, <2>3
  <2> HIDE DEF w3
  <2>5. Append(w3, program) \in Seq(Texts)
    BY <2>4
  <2>6. w4 \in Seq(Texts)
    BY <2>0, <2>5
  <2> HIDE DEF w4
  <2>7. w5 \in Seq(Texts)
    BY <1>1, <2>6
  <2> HIDE DEF w5
  <2>8. w6 \in Seq(Texts)
    BY <2>7
  <2> HIDE DEF w6
  <2>9. w7 \in Seq(Texts)
    BY <1>1, <2>8
  <2> QED BY <2>1, <2>2, <2>3, <2>4, <2>5, <2>6, <2>7, <2>8, <2>9
<1>4. /\ a \in Texts /\ b \in Texts /\ c \in Texts /\ d \in Texts
      /\ e \in Texts /\ f \in Texts /\ inner \in Texts
  <2> HIDE DEF cd, and, out, err, where, command
  <2> USE DEF Texts
  <2>1. a \in Texts
    BY <1>1, <1>2
  <2> HIDE DEF a
  <2>2. b \in Texts
    BY <1>1, <2>1
  <2> HIDE DEF b
  <2>3. c \in Texts
    BY <1>2, <2>2
  <2> HIDE DEF c
  <2>4. d \in Texts
    BY <1>1, <2>3
  <2> HIDE DEF d
  <2>5. e \in Texts
    BY <1>2, <2>4
  <2> HIDE DEF e
  <2>6. f \in Texts
    BY <1>1, <2>5
  <2> HIDE DEF f
  <2>7. inner \in Texts
    BY <1>2, <2>6
  <2> QED BY <2>1, <2>2, <2>3, <2>4, <2>5, <2>6, <2>7
<1>5. InnerCommand(directory, command, stdout, stderr) = inner
  BY DEF InnerCommand, Cd
<1> DEFINE Start == Between(none)
<1>6. /\ Start \in LexState /\ Between(w1) \in LexState /\ Between(w2) \in LexState
      /\ Between(w3) \in LexState /\ Between(w4) \in LexState /\ Between(w5) \in LexState
      /\ Between(w6) \in LexState /\ Between(w7) \in LexState
  <2> HIDE DEF none, w1, w2, w3, w4, w5, w6, w7
  <2> QED BY <1>1, <1>3, StateTypes
<1> HIDE DEF none
<1>7. LexLine(Start, a) = Within(w1, directory)
  <2>1. LexLine(Start, cd) = Lex(Lex(Start, "cd"), Blank)
    BY <1>1, <1>6, LexFew
  <2>2. Lex(Start, "cd") = Within(none, <<"cd">>)
    <3>1. "cd" \in Words
      BY DEF Words
    <3> QED BY <1>1, <1>3, <3>1, UnquotedSteps
  <2>3. Lex(Within(none, <<"cd">>), Blank) = Between(w1)
    BY <1>1, <1>3, UnquotedSteps
  <2> HIDE DEF cd, w1, where, Start
  <2>4. LexLine(Start, a) = LexLine(LexLine(Start, cd), where)
    BY <1>1, <1>2, <1>6, LexParts
  <2>5. LexLine(Between(w1), where) = Within(w1, directory)
    BY <1>3, EscapedIsOneWord DEF where
  <2> QED BY <2>1, <2>2, <2>3, <2>4, <2>5
<1> HIDE DEF a, Start
\* An operator between blanks ends the word before it and is one itself.
<1>8. ASSUME NEW words \in Seq(Texts), NEW word \in Texts, NEW op \in Operators,
             NEW lex, Lex(lex, Blank) = Between(words), lex \in LexState
      PROVE  LexLine(lex, <<Blank, op, Blank>>) = Between(Append(words, <<"operator", op>>))
  <2>1. op \in Chars /\ Blank \in Chars /\ "operator" \in Chars
    BY AllChars
  <2>2. LexLine(lex, <<Blank, op, Blank>>) = Lex(Lex(Lex(lex, Blank), op), Blank)
    BY <1>8, <2>1, LexFew
  <2>3. Lex(Between(words), op) = Between(Append(words, <<"operator", op>>))
    BY UnquotedSteps
  <2>4. <<"operator", op>> \in Texts
    BY <2>1, TwoChars DEF Texts
  <2>5. Append(words, <<"operator", op>>) \in Seq(Texts)
    BY <2>4
  <2> DEFINE more == Append(words, <<"operator", op>>)
  <2> HIDE DEF more
  <2>6. Lex(Between(more), Blank) = Between(more)
    BY <2>4, <2>5, UnquotedSteps DEF more
  <2> QED BY <1>8, <2>2, <2>3, <2>6 DEF more
<1>9. LexLine(Start, b) = Between(w3)
  <2>1. Lex(Within(w1, directory), Blank) = Between(w2)
    <3> HIDE DEF w1
    <3> QED BY <1>3, UnquotedSteps
  <2>2. Within(w1, directory) \in LexState
    <3> HIDE DEF w1
    <3> QED BY <1>3, StateTypes
  <2>3. "&&" \in Operators
    BY DEF Operators
  <2>4. LexLine(Within(w1, directory), and) = Between(w3)
    <3> HIDE DEF w1, w2
    <3> QED BY <1>3, <1>8, <2>1, <2>2, <2>3
  <2> HIDE DEF and, w1, w3
  <2>5. LexLine(Start, b) = LexLine(LexLine(Start, a), and)
    BY <1>1, <1>4, <1>6, LexParts
  <2> QED BY <1>7, <2>4, <2>5
<1> HIDE DEF b
<1>10. Lex(LexLine(Start, c), Blank) = Between(w4) /\ LexLine(Start, c) \in LexState
  <2> HIDE DEF w3, command
  <2>1. LexLine(Start, c) = LexLine(LexLine(Start, b), command)
    BY <1>2, <1>4, <1>6, LexParts
  <2>2. Lex(LexLine(Between(w3), command), Blank) = Between(w4)
    BY <1>3, CommandIsWords DEF command
  <2>3. LexLine(Start, c) \in LexState
    BY <1>4, <1>6, LexParts
  <2> QED BY <1>9, <2>1, <2>2, <2>3
<1> HIDE DEF c
<1>11. LexLine(Start, d) = Between(w5)
  <2>1. ">" \in Operators
    BY DEF Operators
  <2>2. LexLine(LexLine(Start, c), out) = Between(w5)
    <3> HIDE DEF w4
    <3> QED BY <1>1, <1>3, <1>8, <1>10, <2>1
  <2> HIDE DEF out, w5
  <2>3. LexLine(Start, d) = LexLine(LexLine(Start, c), out)
    BY <1>1, <1>4, <1>6, LexParts
  <2> QED BY <2>2, <2>3
<1> HIDE DEF d
<1>12. LexLine(Start, e) = Within(w5, stdout)
  <2> HIDE DEF w5
  <2>1. LexLine(Start, e) = LexLine(LexLine(Start, d), ShellEscape(stdout))
    BY <1>2, <1>4, <1>6, LexParts
  <2> QED BY <1>3, <1>11, <2>1, EscapedIsOneWord
<1> HIDE DEF e
<1>13. LexLine(Start, f) = Between(w7)
  <2>1. Lex(Within(w5, stdout), Blank) = Between(w6)
    <3> HIDE DEF w5
    <3> QED BY <1>3, UnquotedSteps
  <2>2. Within(w5, stdout) \in LexState
    <3> HIDE DEF w5
    <3> QED BY <1>3, StateTypes
  <2>3. "2>" \in Operators
    BY DEF Operators
  <2>4. LexLine(Within(w5, stdout), err) = Between(w7)
    <3> HIDE DEF w5, w6
    <3> QED BY <1>3, <1>8, <2>1, <2>2, <2>3
  <2> HIDE DEF err, w7, w5
  <2>5. LexLine(Start, f) = LexLine(LexLine(Start, e), err)
    BY <1>1, <1>4, <1>6, LexParts
  <2> QED BY <1>12, <2>4, <2>5
<1> HIDE DEF f
<1>14. LexLine(Start, inner) = Within(w7, stderr)
  <2> HIDE DEF w7
  <2>1. LexLine(Start, inner) = LexLine(LexLine(Start, f), ShellEscape(stderr))
    BY <1>2, <1>4, <1>6, LexParts
  <2> QED BY <1>3, <1>13, <2>1, EscapedIsOneWord
<1>15. ShellWords(inner) = Append(w7, stderr)
  <2>1. Start = Lexed
    BY DEF Start, Between, State, Lexed, none
  <2>2. Cut(Within(w7, stderr)).words = Append(w7, stderr)
    <3> HIDE DEF w7
    <3> QED BY DEF Cut, Within, State
  <2> HIDE DEF inner, w7
  <2> QED BY <1>14, <2>1, <2>2 DEF ShellWords
<1>16. Append(w3, program) = <<<<"cd">>, directory, <<"operator", "&&">>, program>>
  <2> DEFINE A == <<"cd">>
             B == <<"operator", "&&">>
  <2>1. A \in Texts /\ B \in Texts
    BY <1>1
  <2>2. w3 = Append(Append(Append(<<>>, A), directory), B)
    BY DEF none
  <2> HIDE DEF A, B, w3, Texts
  <2>3. Append(Append(Append(Append(<<>>, A), directory), B), program)
          = <<A, directory, B, program>>
    BY <2>1, AppendedChars
  <2> QED BY <2>2, <2>3, Zenon DEF A, B
<1>17. Append(w7, stderr)
         = w4 \o <<<<"operator", ">">>, stdout, <<"operator", "2>">>, stderr>>
  <2> DEFINE A == <<"operator", ">">>
             B == <<"operator", "2>">>
  <2>1. A \in Texts /\ B \in Texts
    BY <1>1
  <2>2. w7 = Append(Append(Append(w4, A), stdout), B)
    OBVIOUS
  <2>3. w4 \in Seq(Texts)
    BY <1>3
  <2> HIDE DEF A, B, w4, w7, Texts
  <2>4. Append(Append(Append(Append(w4, A), stdout), B), stderr) = w4 \o <<A, stdout, B, stderr>>
    BY <2>1, <2>3, AppendChars
  <2> QED BY <2>2, <2>4, Zenon DEF A, B
<1> HIDE DEF inner, w3
<1> QED BY <1>4, <1>5, <1>15, <1>16, <1>17, Zenon

\* The shell of std::system reads its line as three words, the last one the
\* script of the login shell, unchanged (the outer command of execute_task).
THEOREM ShellCommandIsWords ==
  ASSUME NEW inner \in Texts
  PROVE  ShellWords(ShellCommand(inner)) = <<<<"/bin/sh">>, <<"-lc">>, inner>>
<1> DEFINE head == <<"/bin/sh", Blank, "-lc", Blank>>
           script == ShellEscape(inner)
           none == <<>>
           w1 == Append(none, <<"/bin/sh">>)
           w2 == Append(w1, <<"-lc">>)
<1>1. "/bin/sh" \in Chars /\ "-lc" \in Chars /\ Blank \in Chars /\ "/bin/sh" \in Words /\ "-lc" \in Words
  BY AllChars DEF Words
<1>2. <<"/bin/sh">> \in Texts /\ <<"-lc">> \in Texts /\ head \in Texts
  BY <1>1, OneChar, FourChars DEF Texts
<1>3. script \in Texts
  BY EscapeIsText
<1>4. none \in Seq(Texts) /\ w1 \in Seq(Texts) /\ w2 \in Seq(Texts)
  <2> HIDE DEF Texts
  <2>1. none \in Seq(Texts)
    OBVIOUS
  <2> HIDE DEF none
  <2>2. w1 \in Seq(Texts)
    BY <1>2, <2>1
  <2> HIDE DEF w1
  <2>3. w2 \in Seq(Texts)
    BY <1>2, <2>2
  <2> QED BY <2>1, <2>2, <2>3
<1> HIDE DEF none
<1>5. Between(none) \in LexState
  <2>1. <<>> \in Texts
    BY DEF Texts
  <2> QED BY <1>4, <2>1, StateTypes
<1>6. LexLine(Between(none), head)
        = Lex(Lex(Lex(Lex(Between(none), "/bin/sh"), Blank), "-lc"), Blank)
  BY <1>1, <1>5, LexFew
<1>7. Lex(Lex(Between(none), "/bin/sh"), Blank) = Between(w1)
  <2>1. Lex(Between(none), "/bin/sh") = Within(none, <<"/bin/sh">>)
    BY <1>1, <1>2, <1>4, UnquotedSteps
  <2>2. Lex(Within(none, <<"/bin/sh">>), Blank) = Between(w1)
    BY <1>2, <1>4, UnquotedSteps
  <2> QED BY <2>1, <2>2
<1>8. Lex(Lex(Between(w1), "-lc"), Blank) = Between(w2)
  <2> HIDE DEF w1
  <2>1. Lex(Between(w1), "-lc") = Within(w1, <<"-lc">>)
    BY <1>1, <1>2, <1>4, UnquotedSteps
  <2>2. Lex(Within(w1, <<"-lc">>), Blank) = Between(w2)
    BY <1>2, <1>4, UnquotedSteps
  <2> QED BY <2>1, <2>2
<1> HIDE DEF head, w1, w2, script
<1>9. LexLine(Between(none), head) = Between(w2)
  BY <1>6, <1>7, <1>8, Zenon
<1>10. LexLine(Between(none), head \o script) = Within(w2, inner)
  <2>1. LexLine(Between(none), head \o script)
          = LexLine(LexLine(Between(none), head), script)
    BY <1>2, <1>3, <1>5, LexParts
  <2>2. LexLine(Between(w2), script) = Within(w2, inner)
    BY <1>4, EscapedIsOneWord DEF script
  <2> QED BY <1>9, <2>1, <2>2
<1>11. ShellWords(head \o script) = Append(w2, inner)
  <2>1. Between(none) = Lexed
    BY DEF Between, State, Lexed, none
  <2>2. Cut(Within(w2, inner)).words = Append(w2, inner)
    BY DEF Cut, Within, State
  <2> QED BY <1>10, <2>1, <2>2 DEF ShellWords
<1>12. ShellCommand(inner) = head \o script
  BY DEF ShellCommand, head, script
<1>13. Append(w2, inner) = <<<<"/bin/sh">>, <<"-lc">>, inner>>
  <2> DEFINE A == <<"/bin/sh">>
             B == <<"-lc">>
  <2>1. A \in Texts /\ B \in Texts
    BY <1>2
  <2>2. w2 = Append(Append(<<>>, A), B)
    BY DEF none, w1, w2
  <2> HIDE DEF A, B, Texts
  <2>3. Append(Append(Append(<<>>, A), B), inner) = <<A, B, inner>>
    BY <2>1, AppendedThree
  <2> QED BY <2>2, <2>3, Zenon DEF A, B
<1> QED BY <1>11, <1>12, <1>13, Zenon

-----------------------------------------------------------------------------
(* The message of a result. *)

\* The characters the agent puts in itself.
Added == {NewLine, Truncated, StderrHeader, Completed}

\* A text that ends before the buffer does is read as it is; of a longer one
\* the first bytes are read, and the mark follows.
LEMMA ReadLength ==
  ASSUME NEW S, NEW file \in Seq(S)
  PROVE  /\ ReadTextFile(file) \in Seq(S \cup Added)
         /\ ReachesEnd(file) => ReadTextFile(file) = file
         /\ Len(ReadTextFile(file)) <= MaxCaptured + 3
<1> DEFINE T == S \cup Added
<1>0. Len(file) \in Nat /\ file \in Seq(T) /\ MaxCaptured \in Nat
  <2>1. file \in Seq(T)
    BY SMT
  <2> QED BY <2>1, CapturedAssumption
<1>1. CASE ReachesEnd(file)
  <2>1. SubSeq(file, 1, Len(file)) = file
    BY <1>0
  <2>2. file \o <<>> = file
    BY <1>0
  <2>3. ReadTextFile(file) = file
    BY <1>1, <2>1, <2>2 DEF ReadTextFile, Mark
  <2> QED BY <1>0, <1>1, <2>3 DEF ReachesEnd
<1>2. CASE ~ReachesEnd(file)
  <2> DEFINE mark == <<NewLine, Truncated, NewLine>>
  <2>1. MaxCaptured <= Len(file)
    BY <1>0, <1>2 DEF ReachesEnd
  <2>2. SubSeq(file, 1, MaxCaptured) \in Seq(T) /\ Len(SubSeq(file, 1, MaxCaptured)) = MaxCaptured
    BY <1>0, <2>1
  <2>3. mark \in Seq(T) /\ Len(mark) = 3
    BY DEF Added
  <2>4. ReadTextFile(file) = SubSeq(file, 1, MaxCaptured) \o mark
    BY <1>2 DEF ReadTextFile, Mark
  <2>5. /\ SubSeq(file, 1, MaxCaptured) \o mark \in Seq(T)
        /\ Len(SubSeq(file, 1, MaxCaptured) \o mark) = MaxCaptured + 3
    <3> DEFINE cut == SubSeq(file, 1, MaxCaptured)
    <3>1. cut \in Seq(T) /\ Len(cut) = MaxCaptured
      BY <2>2
    <3> HIDE DEF mark, cut, T
    <3>2. cut \o mark \in Seq(T) /\ Len(cut \o mark) = Len(cut) + Len(mark)
      BY <2>3, <3>1, ConcatProperties, Zenon
    <3> QED BY <2>3, <3>1, <3>2 DEF cut
  <2> QED BY <1>0, <1>2, <2>4, <2>5
<1> QED BY <1>1, <1>2

\* A message joins two texts with at most three characters of its own.
LEMMA JoinLength ==
  ASSUME NEW S, Added \subseteq S, NEW stdout \in Seq(S), NEW stderr \in Seq(S)
  PROVE  /\ JoinOutput(stdout, stderr) \in Seq(S)
         /\ Len(JoinOutput(stdout, stderr)) <= Len(stdout) + Len(stderr) + 3
         /\ JoinOutput(stdout, stderr) # <<>>
         /\ stderr = <<>> /\ stdout # <<>> => JoinOutput(stdout, stderr) = stdout
<1>0. Len(stdout) \in Nat /\ Len(stderr) \in Nat
  OBVIOUS
<1>1. CASE stdout = <<>> /\ stderr = <<>>
  <2>1. JoinOutput(stdout, stderr) = <<Completed>>
    BY <1>1 DEF JoinOutput
  <2>2. <<Completed>> \in Seq(S) /\ Len(<<Completed>>) = 1 /\ <<Completed>> # <<>>
    BY DEF Added
  <2>3. Len(JoinOutput(stdout, stderr)) = 1
    BY <2>1, <2>2
  <2> HIDE DEF Added
  <2>4. JoinOutput(stdout, stderr) \in Seq(S) /\ JoinOutput(stdout, stderr) # <<>>
    BY <2>1, <2>2
  <2>5. 1 <= Len(stdout) + Len(stderr) + 3
    BY <1>0
  <2> QED BY <1>1, <2>3, <2>4, <2>5
<1>2. CASE stdout # <<>> /\ stderr = <<>>
  <2>1. JoinOutput(stdout, stderr) = stdout
    BY <1>2 DEF JoinOutput
  <2> QED BY <1>0, <1>2, <2>1
<1>3. CASE stderr # <<>>
  <2> DEFINE header == Separator(stdout) \o <<StderrHeader, NewLine>>
  <2>1. Separator(stdout) \in Seq(S) /\ Len(Separator(stdout)) <= 1
    <3>1. <<NewLine>> \in Seq(S) /\ Len(<<NewLine>>) = 1
      BY DEF Added
    <3>2. <<>> \in Seq(S) /\ Len(<<>>) = 0
      OBVIOUS
    <3>3. Separator(stdout) = <<NewLine>> \/ Separator(stdout) = <<>>
      BY DEF Separator
    <3>4. CASE Separator(stdout) = <<NewLine>>
      BY <3>1, <3>4
    <3>5. CASE Separator(stdout) = <<>>
      BY <3>2, <3>5
    <3> QED BY <3>3, <3>4, <3>5
  <2>2. header \in Seq(S) /\ Len(header) <= 3 /\ Len(header) >= 2
    <3>1. <<StderrHeader, NewLine>> \in Seq(S) /\ Len(<<StderrHeader, NewLine>>) = 2
      BY DEF Added
    <3> QED BY <2>1, <3>1
  <2>3. JoinOutput(stdout, stderr) = stdout \o (header \o stderr)
    BY <1>3 DEF JoinOutput
  <2> HIDE DEF header
  <2>4. header \o stderr \in Seq(S) /\ Len(header \o stderr) = Len(header) + Len(stderr)
    BY <2>2
  <2>5. /\ stdout \o (header \o stderr) \in Seq(S)
        /\ Len(stdout \o (header \o stderr)) = Len(stdout) + Len(header) + Len(stderr)
    BY <2>2, <2>4
  <2>6. stdout \o (header \o stderr) # <<>>
    BY <1>0, <2>2, <2>5
  <2> QED BY <1>0, <1>3, <2>2, <2>3, <2>5, <2>6
<1> QED BY <1>1, <1>2, <1>3

\* Whatever a command writes, the message of its result holds no more than two
\* buffers and nine characters, and is never empty: the text for a failed
\* command without output (task_executor.cpp:538) is never used.
THEOREM MessageIsBounded ==
  ASSUME NEW S, NEW stdout \in Seq(S), NEW stderr \in Seq(S), NEW code \in Int
  PROVE  /\ Len(Message(stdout, stderr, code)) <= 2 * MaxCaptured + 9
         /\ Message(stdout, stderr, code) = JoinOutput(ReadTextFile(stdout), ReadTextFile(stderr))
         /\ Message(stdout, stderr, code) # <<>>
<1> DEFINE T == S \cup Added
           out == ReadTextFile(stdout)
           err == ReadTextFile(stderr)
<1>1. out \in Seq(T) /\ err \in Seq(T) /\ Len(out) <= MaxCaptured + 3 /\ Len(err) <= MaxCaptured + 3
  BY ReadLength
<1>2. Added \subseteq T
  OBVIOUS
<1> HIDE DEF T, out, err
<1>3. /\ JoinOutput(out, err) \in Seq(T)
      /\ Len(JoinOutput(out, err)) <= Len(out) + Len(err) + 3
      /\ JoinOutput(out, err) # <<>>
  BY <1>1, <1>2, JoinLength
<1>4. Message(stdout, stderr, code) = JoinOutput(out, err)
  BY <1>3 DEF Message, out, err
<1>5. Len(out) \in Nat /\ Len(err) \in Nat /\ Len(JoinOutput(out, err)) \in Nat
  BY <1>1, <1>3
<1> QED BY <1>1, <1>3, <1>4, <1>5, CapturedAssumption DEF out, err

\* A command that writes no errors and less than a buffer, but something, has
\* its output as its message, byte for byte.
THEOREM ShortOutputIsMessage ==
  ASSUME NEW S, NEW stdout \in Seq(S), NEW code \in Int,
         stdout # <<>>, Len(stdout) < MaxCaptured
  PROVE  Message(stdout, <<>>, code) = stdout
<1>1. ReadTextFile(stdout) = stdout
  BY ReadLength DEF ReachesEnd
<1>2. ReadTextFile(<<>>) = <<>>
  <2>1. <<>> \in Seq(S) /\ Len(<<>>) = 0
    OBVIOUS
  <2>2. ReachesEnd(<<>>)
    BY <2>1, CapturedAssumption DEF ReachesEnd
  <2> QED BY <2>1, <2>2, ReadLength
<1>3. Message(stdout, <<>>, code) = JoinOutput(stdout, <<>>)
  BY <1>1, <1>2 DEF Message, JoinOutput
<1> QED BY <1>3 DEF JoinOutput

\* What is shown of a text.
Shown(text) == IF Len(text) <= MaxCaptured THEN text ELSE SubSeq(text, 1, MaxCaptured)

\* What is read of a file is the part that is shown, then the mark if the file
\* is longer than that.
LEMMA ReadShows ==
  ASSUME NEW S, NEW file \in Seq(S)
  PROVE  /\ Shown(file) \in Seq(S \cup Added) /\ Mark(file) \in Seq(S \cup Added)
         /\ ReadTextFile(file) = Shown(file) \o Mark(file)
         /\ file # <<>> => ReadTextFile(file) # <<>>
         /\ Len(file) > MaxCaptured =>
              \E i \in DOMAIN ReadTextFile(file) : ReadTextFile(file)[i] = Truncated
<1> DEFINE T == S \cup Added
           shown == Shown(file)
           mark == <<NewLine, Truncated, NewLine>>
<1>0. Len(file) \in Nat /\ file \in Seq(T) /\ MaxCaptured \in Nat \ {0}
  <2>1. file \in Seq(T)
    BY SMT
  <2> QED BY <2>1, CapturedAssumption
<1>1. NewLine \in T /\ Truncated \in T
  BY DEF Added
<1>2. mark \in Seq(T) /\ Len(mark) = 3 /\ mark[2] = Truncated /\ <<>> \in Seq(T)
  BY <1>1
<1> HIDE DEF T, mark
<1>3. CASE ReachesEnd(file)
  <2>1. shown = file
    BY <1>0, <1>3 DEF ReachesEnd, Shown
  <2>2. ReadTextFile(file) = file
    BY <1>3, ReadLength
  <2>3. Mark(file) = <<>>
    BY <1>3 DEF Mark
  <2>4. file \o <<>> = file
    BY <1>0
  <2> QED BY <1>0, <1>2, <1>3, <2>1, <2>2, <2>3, <2>4 DEF ReachesEnd, T
<1>4. CASE ~ReachesEnd(file)
  <2>1. MaxCaptured <= Len(file)
    BY <1>0, <1>4 DEF ReachesEnd
  <2>2. SubSeq(file, 1, MaxCaptured) \in Seq(T) /\ Len(SubSeq(file, 1, MaxCaptured)) = MaxCaptured
    BY <1>0, <2>1
  <2>3. shown = SubSeq(file, 1, MaxCaptured)
    <3>1. CASE Len(file) = MaxCaptured
      <4>1. SubSeq(file, 1, Len(file)) = file
        BY <1>0
      <4> QED BY <1>0, <3>1, <4>1 DEF Shown
    <3>2. CASE Len(file) # MaxCaptured
      BY <1>0, <2>1, <3>2 DEF Shown
    <3> QED BY <3>1, <3>2
  <2>4. Mark(file) = mark
    BY <1>4 DEF Mark, mark
  <2>5. ReadTextFile(file) = shown \o Mark(file)
    BY <1>4, <2>3 DEF ReadTextFile
  <2> HIDE DEF shown
  <2>6. shown \in Seq(T) /\ Len(shown) = MaxCaptured
    BY <2>2, <2>3
  <2> DEFINE whole == shown \o mark
  <2>7. whole \in Seq(T) /\ Len(whole) = MaxCaptured + 3 /\ whole[MaxCaptured + 2] = mark[2]
    <3>1. /\ whole \in Seq(T) /\ Len(whole) = Len(shown) + Len(mark)
          /\ \A i \in 1 .. Len(shown) + Len(mark) :
               whole[i] = IF i <= Len(shown) THEN shown[i] ELSE mark[i - Len(shown)]
      BY <1>2, <2>6, ConcatProperties, Zenon
    <3> HIDE DEF whole
    <3>2. /\ MaxCaptured + 2 \in 1 .. MaxCaptured + 3
          /\ ~(MaxCaptured + 2 <= MaxCaptured) /\ (MaxCaptured + 2) - MaxCaptured = 2
      BY <1>0
    <3> QED BY <1>2, <2>6, <3>1, <3>2
  <2> HIDE DEF whole
  <2>8. ReadTextFile(file) = whole
    BY <2>4, <2>5 DEF whole
  <2>9. whole # <<>> /\ MaxCaptured + 2 \in DOMAIN whole
    BY <1>0, <2>7
  <2> QED BY <1>2, <2>4, <2>5, <2>6, <2>7, <2>8, <2>9 DEF shown, T
<1> QED BY <1>3, <1>4

\* A message begins with what was read of the output; errors follow their
\* header, which begins a line.
LEMMA JoinParts ==
  ASSUME NEW S, Added \subseteq S, NEW stdout \in Seq(S), NEW stderr \in Seq(S)
  PROVE  LET front == stdout \o Separator(stdout)
         IN  /\ front \in Seq(S)
             /\ \/ front = <<>>
                \/ front[Len(front)] = NewLine
             /\ stderr # <<>> =>
                  JoinOutput(stdout, stderr) = front \o (<<StderrHeader>> \o (<<NewLine>> \o stderr))
<1> DEFINE front == stdout \o Separator(stdout)
<1>0. Len(stdout) \in Nat /\ NewLine \in S /\ StderrHeader \in S
  BY DEF Added
<1>1. front \in Seq(S) /\ (front = <<>> \/ front[Len(front)] = NewLine)
  <2>1. CASE stdout # <<>> /\ stdout[Len(stdout)] # NewLine
    <3>1. Separator(stdout) = <<NewLine>>
      BY <2>1 DEF Separator, Last
    <3>2. stdout \o <<NewLine>> = Append(stdout, NewLine)
      BY <1>0, AppendIsConcat
    <3>3. front = Append(stdout, NewLine)
      BY <3>1, <3>2
    <3> HIDE DEF front
    <3> QED BY <1>0, <3>3
  <2>2. CASE stdout = <<>> \/ stdout[Len(stdout)] = NewLine
    <3>1. Separator(stdout) = <<>>
      BY <2>2 DEF Separator, Last
    <3>2. front = stdout
      BY <3>1
    <3> QED BY <2>2, <3>2
  <2> QED BY <2>1, <2>2
<1>2. ASSUME stderr # <<>>
      PROVE  JoinOutput(stdout, stderr) = front \o (<<StderrHeader>> \o (<<NewLine>> \o stderr))
  <2> DEFINE sep == Separator(stdout)
             header == <<StderrHeader>>
             line == <<NewLine>>
             both == <<StderrHeader, NewLine>>
  <2>1. JoinOutput(stdout, stderr) = stdout \o ((sep \o both) \o stderr)
    BY <1>2 DEF JoinOutput
  <2>2. both = header \o line /\ header \in Seq(S) /\ line \in Seq(S)
    BY <1>0, OneChar, TwoChars
  <2>3. sep \in Seq(S)
    <3>1. <<>> \in Seq(S)
      OBVIOUS
    <3> QED BY <2>2, <3>1 DEF Separator
  <2> HIDE DEF sep, header, line, both
  <2>4. header \o line \in Seq(S) /\ sep \o (header \o line) \in Seq(S) /\ line \o stderr \in Seq(S)
        /\ (header \o line) \o stderr \in Seq(S)
    BY <2>2, <2>3
  <2>0. \A a, b, c \in Seq(S) : (a \o b) \o c = a \o (b \o c)
    BY ConcatAssociative
  <2>5. (sep \o (header \o line)) \o stderr = sep \o ((header \o line) \o stderr)
    BY <2>0, <2>3, <2>4, Zenon
  <2>6. (header \o line) \o stderr = header \o (line \o stderr)
    BY <2>0, <2>2, Zenon
  <2>7. header \o (line \o stderr) \in Seq(S)
    BY <2>4, <2>6
  <2>8. stdout \o (sep \o (header \o (line \o stderr)))
          = (stdout \o sep) \o (header \o (line \o stderr))
    BY <2>0, <2>3, <2>7, Zenon
  <2>9. JoinOutput(stdout, stderr) = (stdout \o sep) \o (header \o (line \o stderr))
    BY <2>1, <2>2, <2>5, <2>6, <2>8, Zenon
  <2> QED BY <2>9, Zenon DEF sep, header, line
<1> QED BY <1>1, <1>2

\* Whatever a command writes, its message begins with its output as far as it is
\* shown; its errors follow a header that begins a line; and where either was
\* cut there is a mark (read_text_file, join_output).
THEOREM MessageShowsOutput ==
  ASSUME NEW S, NEW stdout \in Seq(S), NEW stderr \in Seq(S), NEW code \in Int
  PROVE  LET message == Message(stdout, stderr, code)
         IN  /\ IsPrefix(Shown(stdout), message)
             /\ stderr # <<>> =>
                  \E i \in DOMAIN message :
                    /\ message[i] = StderrHeader
                    /\ i = 1 \/ message[i - 1] = NewLine
                    /\ IsPrefix(<<NewLine>> \o Shown(stderr),
                                SubSeq(message, i + 1, Len(message)))
             /\ Len(stdout) > MaxCaptured \/ Len(stderr) > MaxCaptured =>
                  \E i \in DOMAIN message : message[i] = Truncated
<1> DEFINE T == S \cup Added
           out == ReadTextFile(stdout)
           err == ReadTextFile(stderr)
           message == Message(stdout, stderr, code)
           line == <<NewLine>>
           none == <<>>
           rest == line \o err
           front == out \o Separator(out)
           header == <<StderrHeader>>
           HasMark(text) == \E i \in DOMAIN text : text[i] = Truncated
<1>1. out \in Seq(T) /\ err \in Seq(T) /\ message = JoinOutput(out, err)
  BY ReadLength, MessageIsBounded
<1>2. Added \subseteq T /\ StderrHeader \in T /\ line \in Seq(T) /\ Len(line) = 1 /\ Completed \in T
      /\ none \in Seq(T)
  <2>1. Added \subseteq T /\ StderrHeader \in T /\ NewLine \in T /\ Completed \in T
    BY DEF Added
  <2> HIDE DEF T
  <2> QED BY <2>1, OneChar
<1>3. /\ Shown(stdout) \in Seq(T) /\ Mark(stdout) \in Seq(T)
      /\ Shown(stderr) \in Seq(T) /\ Mark(stderr) \in Seq(T)
      /\ out = Shown(stdout) \o Mark(stdout) /\ err = Shown(stderr) \o Mark(stderr)
      /\ stderr # <<>> => err # <<>>
  BY ReadShows
<1>4. /\ Len(stdout) > MaxCaptured => HasMark(out)
      /\ Len(stderr) > MaxCaptured => HasMark(err)
  BY ReadShows
<1> DEFINE Good ==
             /\ IsPrefix(Shown(stdout), message)
             /\ stderr # <<>> =>
                  \E i \in DOMAIN message :
                    /\ message[i] = StderrHeader
                    /\ i = 1 \/ message[i - 1] = NewLine
                    /\ IsPrefix(line \o Shown(stderr), SubSeq(message, i + 1, Len(message)))
             /\ Len(stdout) > MaxCaptured \/ Len(stderr) > MaxCaptured => HasMark(message)
<1> SUFFICES Good
  OBVIOUS
<1> HIDE DEF T, out, err, message, line, header
<1>5. \A a, b, c \in Seq(T) : (a \o b) \o c = a \o (b \o c)
  BY ConcatAssociative
\* The output as a prefix.
<1>6. ASSUME NEW more \in Seq(T), message = out \o more
      PROVE  IsPrefix(Shown(stdout), message) /\ (HasMark(out) => HasMark(message))
  <2>1. Mark(stdout) \o more \in Seq(T)
    BY <1>3
  <2>2. message = Shown(stdout) \o (Mark(stdout) \o more)
    BY <1>3, <1>5, <1>6, Zenon
  <2>3. IsPrefix(Shown(stdout), message)
    BY <1>3, <2>1, <2>2, PrefixOfConcat
  <2>4. \A i \in DOMAIN out : i \in DOMAIN message /\ message[i] = out[i]
    BY <1>1, <1>6
  <2> QED BY <2>3, <2>4
\* No errors: the output, or the text for a silent command.
<1>7. CASE err = <<>>
  <2>0. stderr = <<>> /\ ~HasMark(err)
    BY <1>3, <1>7
  <2>1. CASE out = <<>>
    <3> DEFINE done == <<Completed>>
    <3>1. message = done
      BY <1>1, <1>7, <2>1 DEF JoinOutput
    <3>2. done \in Seq(T)
      BY <1>2, OneChar
    <3> HIDE DEF done
    <3>3. message = out \o done
      BY <2>1, <3>1, <3>2
    <3>4. IsPrefix(Shown(stdout), message) /\ (HasMark(out) => HasMark(message))
      BY <1>6, <3>2, <3>3
    <3> QED BY <1>3, <1>4, <2>0, <3>4
  <2>2. CASE out # <<>>
    <3>1. message = out
      BY <1>1, <1>7, <2>2 DEF JoinOutput
    <3>2. message = out \o none
      BY <1>1, <3>1
    <3> HIDE DEF none
    <3>3. IsPrefix(Shown(stdout), message) /\ (HasMark(out) => HasMark(message))
      BY <1>2, <1>6, <3>2
    <3> QED BY <1>4, <2>0, <3>3
  <2> QED BY <2>1, <2>2
\* Errors, after their header.
<1>8. CASE err # <<>>
  <2>1. rest \in Seq(T)
    BY <1>1, <1>2
  <2>2. front \in Seq(T) /\ (front = <<>> \/ front[Len(front)] = NewLine)
    BY <1>1, <1>2, JoinParts
  <2>3. message = front \o (header \o rest)
    BY <1>1, <1>2, <1>8, JoinParts DEF line, header
  <2>4. Separator(out) \in Seq(T)
    BY <1>2 DEF Separator, line
  <2> DEFINE sep == Separator(out)
             more == sep \o (header \o rest)
  <2>5. header \in Seq(T)
    BY <1>2, OneChar DEF header
  <2> HIDE DEF rest, sep
  <2>6. more \in Seq(T) /\ header \o rest \in Seq(T)
    BY <2>1, <2>4, <2>5 DEF sep
  <2>7. message = out \o more
    BY <1>1, <1>5, <2>3, <2>4, <2>6, Zenon DEF sep
  <2> HIDE DEF more
  <2>8. IsPrefix(Shown(stdout), message) /\ (HasMark(out) => HasMark(message))
    BY <1>6, <2>6, <2>7
  <2> HIDE DEF front
  <2>9. /\ message \in Seq(T) /\ Len(message) = Len(front) + 1 + Len(rest)
        /\ \A i \in 1 .. Len(front) : message[i] = front[i]
        /\ message[Len(front) + 1] = StderrHeader
        /\ \A i \in 1 .. Len(rest) : message[Len(front) + 1 + i] = rest[i]
        /\ SubSeq(message, Len(front) + 2, Len(message)) = rest
    <3> DEFINE whole == front \o (<<StderrHeader>> \o rest)
    <3>1. /\ whole \in Seq(T) /\ Len(whole) = Len(front) + 1 + Len(rest)
          /\ \A i \in 1 .. Len(front) : whole[i] = front[i]
          /\ whole[Len(front) + 1] = StderrHeader
          /\ \A i \in 1 .. Len(rest) : whole[Len(front) + 1 + i] = rest[i]
          /\ SubSeq(whole, Len(front) + 2, Len(whole)) = rest
      BY <1>2, <2>1, <2>2, PartsOfText
    <3>2. message = whole
      BY <2>3, Zenon DEF header
    <3> HIDE DEF whole
    <3> QED BY <3>1, <3>2
  <2>10. IsPrefix(line \o Shown(stderr), rest)
    <3>1. line \o Shown(stderr) \in Seq(T)
      BY <1>2, <1>3
    <3>2. rest = (line \o Shown(stderr)) \o Mark(stderr)
      BY <1>2, <1>3, <1>5, Zenon DEF rest
    <3> QED BY <1>3, <3>1, <3>2, PrefixOfConcat
  <2> DEFINE at == Len(front) + 1
  <2>11. at \in DOMAIN message /\ at + 1 = Len(front) + 2 /\ Len(front) \in Nat
    BY <2>1, <2>2, <2>9
  <2>12. at = 1 \/ message[at - 1] = NewLine
    BY <2>2, <2>9, <2>11
  <2>13. HasMark(err) => HasMark(message)
    <3> SUFFICES ASSUME NEW i \in DOMAIN err, err[i] = Truncated PROVE HasMark(message)
      OBVIOUS
    <3>1. Len(rest) = 1 + Len(err) /\ rest[1 + i] = err[i] /\ i \in 1 .. Len(err) /\ Len(err) \in Nat
      <4>1. /\ Len(rest) = Len(line) + Len(err)
            /\ \A k \in 1 .. Len(line) + Len(err) :
                 rest[k] = IF k <= Len(line) THEN line[k] ELSE err[k - Len(line)]
        BY <1>1, <1>2, ConcatProperties, Zenon DEF rest
      <4>2. i \in 1 .. Len(err) /\ Len(err) \in Nat
        BY <1>1
      <4>3. 1 + i \in 1 .. 1 + Len(err) /\ ~(1 + i <= 1) /\ (1 + i) - 1 = i
        BY <4>2
      <4> QED BY <1>2, <4>1, <4>2, <4>3
    <3>2. 1 + i \in 1 .. Len(rest) /\ Len(front) + 1 + (1 + i) \in DOMAIN message
      BY <2>9, <2>11, <3>1
    <3> QED BY <2>9, <3>1, <3>2
  <2>14. IsPrefix(line \o Shown(stderr), SubSeq(message, at + 1, Len(message)))
    BY <2>9, <2>10, <2>11
  <2> HIDE DEF at
  <2>15. \E i \in DOMAIN message :
           /\ message[i] = StderrHeader
           /\ i = 1 \/ message[i - 1] = NewLine
           /\ IsPrefix(line \o Shown(stderr), SubSeq(message, i + 1, Len(message)))
    BY <2>9, <2>11, <2>12, <2>14 DEF at
  <2> QED BY <1>4, <2>8, <2>13, <2>15
<1> QED BY <1>7, <1>8

-----------------------------------------------------------------------------
(* Numbers of JSON. *)

\* The loop over the digits ends after the last of them (consume_digits).
LEMMA DigitsAreSkipped ==
  ASSUME NEW text, Len(text) \in Nat, NEW i \in Nat, NEW j \in Nat,
         1 <= i, j <= Len(text), IsDigits(text, i, j), Peek(text, j + 1) \notin Digits
  PROVE  ConsumeDigits(text, i) = j + 1
<1> DEFINE Ends(k) == /\ Peek(text, k) \notin Digits
                      /\ \A m \in i .. k - 1 : Peek(text, m) \in Digits
<1>1. i <= j /\ \A k \in i .. j : Peek(text, k) \in Digits
  BY DEF IsDigits
<1>2. j + 1 \in i .. Len(text) + 1 /\ Ends(j + 1)
  BY <1>1
<1>3. ASSUME NEW k \in i .. Len(text) + 1, Ends(k) PROVE k = j + 1
  <2>1. CASE k <= j
    BY <1>1, <1>3, <2>1
  <2>2. CASE k > j + 1
    <3>1. j + 1 \in i .. k - 1
      BY <1>1, <2>2
    <3> QED BY <1>3, <3>1
  <2> QED BY <2>1, <2>2
<1>4. SkipDigits(text, i) = j + 1
  <2> HIDE DEF Ends
  <2>1. j + 1 = CHOOSE k \in i .. Len(text) + 1 : Ends(k)
    BY <1>2, <1>3
  <2> QED BY <2>1 DEF SkipDigits, Ends
<1>5. i # 0 /\ Peek(text, i) \in Digits
  BY <1>1
<1> QED BY <1>4, <1>5 DEF ConsumeDigits

\* A number of JSON is read to its end, however long it is (parse_number).
THEOREM NumbersAreRead ==
  ASSUME NEW text \in Seq(STRING), IsNumber(text)
  PROVE  NumberEnd(text) = Len(text) + 1
<1> DEFINE first == IF text[1] = "-" THEN 2 ELSE 1
           n == Len(text)
<1>0. n \in Nat /\ DOMAIN text = 1 .. n
  OBVIOUS
<1>1. PICK whole \in 1 .. n, fraction \in 1 .. n :
        /\ IsDigits(text, first, whole)
        /\ \/ fraction = whole
           \/ Peek(text, whole + 1) = "." /\ IsDigits(text, whole + 2, fraction)
        /\ \/ n = fraction
           \/ /\ Peek(text, fraction + 1) = "e"
              /\ \/ IsDigits(text, fraction + 2, n)
                 \/ /\ Peek(text, fraction + 2) \in {"+", "-"}
                    /\ IsDigits(text, fraction + 3, n)
  BY <1>0 DEF IsNumber
<1>2. /\ Peek(text, n + 1) = "" /\ Peek(text, 1) = text[1]
      /\ "" \notin Digits /\ "." \notin Digits /\ "e" \notin Digits
      /\ "+" \notin Digits /\ "-" \notin Digits
  <2>1. Peek(text, n + 1) = "" /\ Peek(text, 1) = text[1]
    <3>1. n + 1 \notin 1 .. n /\ 1 \in 1 .. n
      <4> HIDE DEF n, first
      <4> QED BY <1>0, <1>1
    <3> QED BY <3>1 DEF Peek
  <2> QED BY <2>1 DEF Digits
<1>3. Match(text, 1, {"-"}) = first
  <2>1. CASE Peek(text, 1) = "-"
    <3>1. Match(text, 1, {"-"}) = 2
      BY <2>1 DEF Match
    <3>2. first = 2
      BY <1>2, <2>1, Zenon
    <3> QED BY <3>1, <3>2
  <2>2. CASE Peek(text, 1) # "-"
    <3>1. Match(text, 1, {"-"}) = 1
      BY <2>2 DEF Match
    <3>2. first = 1
      BY <1>2, <2>2, Zenon
    <3> QED BY <3>1, <3>2
  <2> QED BY <2>1, <2>2
<1>a. ASSUME NEW i \in Nat, NEW j \in Nat, 1 <= i, j <= n,
              IsDigits(text, i, j), Peek(text, j + 1) \notin Digits
      PROVE  ConsumeDigits(text, i) = j + 1
  <2>1. Len(text) \in Nat /\ j <= Len(text)
    BY <1>0, <1>a
  <2> HIDE DEF n, first
  <2> QED BY <2>1, <1>a, DigitsAreSkipped
<1>4. first \in Nat /\ 1 <= first
  OBVIOUS
<1> HIDE DEF first, n
\* What comes after the whole part, the fraction and the exponent is no digit.
<1>5. /\ Peek(text, whole + 1) \notin Digits
      /\ Peek(text, fraction + 1) \notin Digits
  <2>1. Peek(text, fraction + 1) \in {"", "e"}
    BY <1>1, <1>2
  <2>2. Peek(text, whole + 1) \in {"", "e", "."}
    BY <1>1, <2>1
  <2> QED BY <1>2, <2>1, <2>2
<1>6. ConsumeDigits(text, Match(text, 1, {"-"})) = whole + 1
  <2>1. whole \in Nat /\ whole <= n
    BY <1>0, <1>1
  <2>2. ConsumeDigits(text, first) = whole + 1
    BY <1>a, <1>1, <1>4, <1>5, <2>1
  <2> QED BY <1>3, <2>2
<1> DEFINE second == IF whole + 1 # 0 /\ Peek(text, whole + 1) = "."
                     THEN ConsumeDigits(text, whole + 2) ELSE whole + 1
<1>7. second = fraction + 1
  <2>1. CASE fraction = whole
    <3>1. Peek(text, whole + 1) # "."
      BY <1>1, <1>2, <2>1
    <3> QED BY <2>1, <3>1
  <2>2. CASE Peek(text, whole + 1) = "." /\ IsDigits(text, whole + 2, fraction)
    <3>1. ConsumeDigits(text, whole + 2) = fraction + 1
      <4>1. whole + 2 \in Nat /\ 1 <= whole + 2 /\ fraction \in Nat /\ fraction <= n
        BY <1>0, <1>1
      <4> QED BY <1>a, <1>5, <2>2, <4>1
    <3> QED BY <1>0, <1>1, <2>2, <3>1
  <2> QED BY <1>1, <2>1, <2>2
<1> DEFINE end == IF second # 0 /\ Peek(text, second) = "e"
                  THEN ConsumeDigits(text, ExponentStart(text, second)) ELSE second
<1>8. NumberEnd(text) = end
  BY <1>0, <1>1, <1>6 DEF NumberEnd
<1> HIDE DEF second
<1>9. CASE n = fraction
  <2>1. Peek(text, second) # "e"
    BY <1>2, <1>7, <1>9
  <2> QED BY <1>7, <1>8, <1>9, <2>1 DEF n
<1>10. CASE Peek(text, fraction + 1) = "e"
  <2> DEFINE start == ExponentStart(text, fraction + 1)
  <2>1. start \in Nat /\ 1 <= start /\ IsDigits(text, start, n)
    <3>0. ExponentStart(text, fraction + 1)
            = Match(text, Match(text, fraction + 2, {"+"}), {"-"})
      BY <1>0, <1>1 DEF ExponentStart
    <3>1. CASE IsDigits(text, fraction + 2, n)
      <4>1. Peek(text, fraction + 2) \in Digits
        BY <1>0, <1>1, <3>1 DEF IsDigits
      <4>2. start = fraction + 2
        BY <1>2, <3>0, <4>1 DEF Match
      <4> QED BY <1>0, <1>1, <3>1, <4>2
    <3>2. CASE Peek(text, fraction + 2) \in {"+", "-"} /\ IsDigits(text, fraction + 3, n)
      <4>1. Peek(text, fraction + 3) \in Digits
        BY <1>0, <1>1, <3>2 DEF IsDigits
      <4>2. start = fraction + 3
        <5>1. Match(text, fraction + 2, {"+"})
                = IF Peek(text, fraction + 2) = "+" THEN fraction + 3 ELSE fraction + 2
          BY <1>0, <1>1 DEF Match
        <5>2. /\ Peek(text, fraction + 3) # "-"
              /\ \A at \in Nat : Match(text, at, {"-"}) = IF Peek(text, at) = "-" THEN at + 1 ELSE at
          BY <1>2, <4>1 DEF Match
        <5> QED BY <1>0, <1>1, <3>0, <3>2, <5>1, <5>2
      <4> QED BY <1>0, <1>1, <3>2, <4>2
    <3>3. CASE n = fraction
      BY <1>2, <1>10, <3>3
    <3> QED BY <1>1, <3>1, <3>2, <3>3
  <2> HIDE DEF start
  <2>2. ConsumeDigits(text, start) = n + 1
    <3>1. n \in Nat /\ start <= n /\ Peek(text, n + 1) \notin Digits
      BY <1>0, <1>2, <2>1 DEF IsDigits
    <3> HIDE DEF end
    <3> QED BY <1>a, <2>1, <3>1
  <2>3. end = ConsumeDigits(text, start)
    BY <1>0, <1>1, <1>7, <1>10 DEF start
  <2> QED BY <1>8, <2>2, <2>3 DEF n
<1> QED BY <1>1, <1>9, <1>10

-----------------------------------------------------------------------------
(* The strings that are read. *)

Symbols == Characters \cup {"u"} \cup DOMAIN Hex
Strings == Seq(Characters)

ReadingState == [at : {"text", "escape", "code", "end", "throws"}, out : Seq(Symbols)]

LEMMA ReadCharType ==
  ASSUME NEW reading \in ReadingState, NEW ch \in Symbols
  PROVE  ReadChar(reading, ch) \in ReadingState
<1> DEFINE out == reading.out
<1>1. /\ out \in Seq(Symbols) /\ reading.at \in {"text", "escape", "code", "end", "throws"}
      /\ "?" \in Symbols /\ \A esc \in DOMAIN Short : Short[esc] \in Symbols
  BY DEF ReadingState, Symbols, Characters, Controls, Short
<1>2. <<>> \in Seq(Symbols) /\ \A next \in Symbols : Append(out, next) \in Seq(Symbols)
  BY <1>1
<1>3. ASSUME NEW text \in Seq(Symbols),
             NEW at \in {"text", "escape", "code", "end", "throws"}
      PROVE  Reading(at, text) \in ReadingState
  BY DEF Reading, ReadingState
<1>4. CASE reading.at = "text"
  BY <1>1, <1>2, <1>3, <1>4 DEF ReadChar
<1>5. CASE reading.at = "escape"
  BY <1>1, <1>2, <1>3, <1>5 DEF ReadChar
<1>6. CASE reading.at = "code"
  BY <1>1, <1>2, <1>3, <1>6 DEF ReadChar
<1>7. CASE reading.at \in {"end", "throws"}
  BY <1>7 DEF ReadChar
<1> QED BY <1>1, <1>4, <1>5, <1>6, <1>7

ReadOp == [p \in ReadingState \X Symbols |-> ReadChar(p[1], p[2])]

LEMMA ReadOpType ==
  /\ ReadOp \in Loops(ReadingState, Symbols)
  /\ \A reading \in ReadingState, ch \in Symbols : ReadOp[<<reading, ch>>] = ReadChar(reading, ch)
BY ReadCharType DEF ReadOp, Loops

\* Reading a text is a loop over its characters.
LEMMA ReadTextLoops ==
  ASSUME NEW text \in Seq(Symbols)
  PROVE  ReadText(text) = Looped(ReadOp, Reading("text", <<>>), text)
<1> DEFINE n == Len(text)
           start == Reading("text", <<>>)
           IsState(h) ==
             h = [i \in 0 .. n |-> IF i = 0 THEN start ELSE ReadChar(h[i - 1], text[i])]
           state == CHOOSE h : IsState(h)
<1>0. n \in Nat /\ (\A i \in 1 .. n : text[i] \in Symbols) /\ start \in ReadingState
  <2>1. n \in Nat /\ \A i \in 1 .. n : text[i] \in Symbols
    OBVIOUS
  <2>2. start \in ReadingState
    BY DEF Reading, ReadingState, Strings
  <2> QED BY <2>1, <2>2
<1>1. PICK f \in [0 .. Len(text) -> ReadingState] :
        GoesOver(f, ReadOp, start, text) /\ Looped(ReadOp, start, text) = f[Len(text)]
  <2> HIDE DEF start, n
  <2> QED BY <1>0, ReadOpType, LoopExists
<1>5. ReadText(text) = state[n]
  BY DEF ReadText
<1> HIDE DEF start
<1>2. f[0] = start /\ \A i \in 1 .. n : f[i] = ReadChar(f[i - 1], text[i])
  <2>1. ASSUME NEW i \in 1 .. n PROVE f[i] = ReadChar(f[i - 1], text[i])
    <3>1. f[i - 1] \in ReadingState /\ text[i] \in Symbols
      BY <1>0
    <3>2. f[i] = ReadOp[<<f[i - 1], text[i]>>]
      BY <1>1 DEF GoesOver
    <3> QED BY <3>1, <3>2, ReadOpType
  <2> QED BY <1>1, <2>1 DEF GoesOver
<1>3. IsState(f)
  <2> DEFINE value(i) == IF i = 0 THEN start ELSE ReadChar(f[i - 1], text[i])
  <2>1. \A i \in 0 .. n : f[i] = value(i)
    BY <1>0, <1>2
  <2> HIDE DEF value
  <2>2. f = [i \in 0 .. n |-> value(i)]
    BY <2>1
  <2> QED BY <2>2 DEF value
<1>4. IsState(state)
  BY <1>3
<1> HIDE DEF state
<1>6. state[0] = start /\ \A i \in 1 .. n : state[i] = ReadChar(state[i - 1], text[i])
  BY <1>0, <1>4
<1>7. ASSUME NEW i \in 1 .. Len(text), state[i - 1] \in ReadingState
      PROVE  state[i] = ReadOp[<<state[i - 1], text[i]>>]
  BY <1>0, <1>6, <1>7, ReadOpType
<1>8. state[Len(text)] = Looped(ReadOp, start, text)
  BY <1>0, <1>6, <1>7, ReadOpType, LoopIsUnique
<1> QED BY <1>5, <1>8 DEF start

\* The codes that are no \u code, one by one.
LEMMA PlainCodes ==
  ASSUME NEW ch \in Characters, NEW code \in PlainEncodings(ch)
  PROVE  \/ ch = "LF" /\ code = <<"backslash", "n">>
         \/ ch \in {"quote", "backslash", "/"} /\ code = <<"backslash", ch>>
         \/ ch \notin {"quote", "backslash"} /\ code = <<ch>>
<1>1. CASE code \in {<<"backslash", esc>> : esc \in {e \in DOMAIN Short : Short[e] = ch}}
  <2>1. PICK esc \in DOMAIN Short : Short[esc] = ch /\ code = <<"backslash", esc>>
    BY <1>1
  <2>2. esc = "n" /\ ch = "LF"
    BY <2>1 DEF Short
  <2> QED BY <2>1, <2>2
<1>2. CASE ch \in {"quote", "backslash", "/"} /\ code = <<"backslash", ch>>
  BY <1>2
<1>3. CASE ch \notin {"quote", "backslash"} /\ code = <<ch>>
  BY <1>3
<1> QED BY <1>1, <1>2, <1>3 DEF PlainEncodings

\* Each of them is read as the character it stands for.
LEMMA PlainCodeIsRead ==
  ASSUME NEW out \in Seq(Symbols), NEW ch \in Characters, NEW code \in PlainEncodings(ch)
  PROVE  /\ code \in Seq(Symbols)
         /\ Looped(ReadOp, Reading("text", out), code) = Reading("text", Append(out, ch))
<1> DEFINE start == Reading("text", out)
           escape == Reading("escape", out)
<1>0. start \in ReadingState /\ escape \in ReadingState
  BY DEF Reading, ReadingState
<1>1. ch \in Symbols /\ "backslash" \in Symbols /\ "n" \in Symbols
  BY DEF Symbols, Characters
<1>2. /\ ReadChar(start, "backslash") = escape
      /\ ReadChar(escape, "n") = Reading("text", Append(out, "LF"))
      /\ ch \in {"quote", "backslash", "/"} =>
           ReadChar(escape, ch) = Reading("text", Append(out, ch))
      /\ ch \notin {"quote", "backslash"} =>
           ReadChar(start, ch) = Reading("text", Append(out, ch))
  BY DEF ReadChar, Reading, Short
<1> HIDE DEF start, escape
<1>3. \A esc \in Symbols :
        /\ <<"backslash", esc>> \in Seq(Symbols)
        /\ Looped(ReadOp, start, <<"backslash", esc>>) = ReadChar(escape, esc)
  <2> SUFFICES ASSUME NEW esc \in Symbols
               PROVE  /\ <<"backslash", esc>> \in Seq(Symbols)
                      /\ Looped(ReadOp, start, <<"backslash", esc>>) = ReadChar(escape, esc)
    OBVIOUS
  <2>1. <<"backslash", esc>> \in Seq(Symbols)
    BY <1>1, TwoChars
  <2>2. Looped(ReadOp, start, <<"backslash", esc>>)
          = ReadOp[<<ReadOp[<<start, "backslash">>], esc>>]
    BY <1>0, <1>1, ReadOpType, LoopFew
  <2> QED BY <1>0, <1>1, <1>2, <2>1, <2>2, ReadOpType
<1>4. <<ch>> \in Seq(Symbols) /\ Looped(ReadOp, start, <<ch>>) = ReadChar(start, ch)
  <2>1. <<ch>> \in Seq(Symbols)
    BY <1>1, OneChar
  <2>2. Looped(ReadOp, start, <<ch>>) = ReadOp[<<start, ch>>]
    BY <1>0, <1>1, ReadOpType, LoopFew
  <2> QED BY <1>0, <1>1, <2>1, <2>2, ReadOpType
<1>5. CASE ch = "LF" /\ code = <<"backslash", "n">>
  BY <1>1, <1>2, <1>3, <1>5 DEF start
<1>6. CASE ch \in {"quote", "backslash", "/"} /\ code = <<"backslash", ch>>
  BY <1>1, <1>2, <1>3, <1>6 DEF start
<1>7. CASE ch \notin {"quote", "backslash"} /\ code = <<ch>>
  BY <1>2, <1>4, <1>7 DEF start
<1> QED BY <1>5, <1>6, <1>7, PlainCodes

\* A string of the server's that has no \u codes is read as the message that
\* it stands for, however long it is (parse_string).
THEOREM PlainStringIsRead ==
  ASSUME NEW message \in Strings, NEW codes, Len(codes) = Len(message),
         codes \in Seq(AllEncodings),
         \A i \in DOMAIN codes : codes[i] \in PlainEncodings(message[i])
  PROVE  ParseString(Append(FlattenSeq(codes), "quote")) = message
<1> DEFINE at == [m \in Strings |-> Reading("text", m)]
           Codes == {p \in Characters \X Seq(Symbols) : p[2] \in PlainEncodings(p[1])}
           text == FlattenSeq(codes)
<1>0. Strings \subseteq Seq(Symbols)
  <2>1. Characters \subseteq Symbols
    BY DEF Symbols
  <2> QED BY <2>1, SeqMonotonic DEF Strings
<1>1. at \in [Strings -> ReadingState]
  BY <1>0 DEF Reading, ReadingState
<1>2. Carries(Codes, Characters, Symbols, ReadOp, at)
  <2> SUFFICES ASSUME NEW m \in Strings, NEW ch \in Characters, NEW code \in Seq(Symbols),
                      <<ch, code>> \in Codes
               PROVE  Looped(ReadOp, at[m], code) = at[Append(m, ch)]
    BY Zenon DEF Carries, Strings
  <2>1. code \in PlainEncodings(ch)
    OBVIOUS
  <2>2. Append(m, ch) \in Strings
    BY DEF Strings
  <2>3. Looped(ReadOp, Reading("text", m), code) = Reading("text", Append(m, ch))
    BY <1>0, <2>1, PlainCodeIsRead
  <2> HIDE DEF Codes
  <2> QED BY <2>2, <2>3
<1>3. codes \in Seq(Seq(Symbols)) /\ IsCoded(Codes, message, codes)
  <2>1. /\ Len(codes) \in Nat /\ DOMAIN codes = 1 .. Len(codes)
        /\ \A i \in 1 .. Len(codes) : message[i] \in Characters
    BY DEF Strings
  <2>2. \A i \in 1 .. Len(codes) : codes[i] \in PlainEncodings(message[i])
    BY <2>1
  <2>3. \A i \in 1 .. Len(codes) : codes[i] \in Seq(Symbols)
    <3>0. <<>> \in Seq(Symbols)
      OBVIOUS
    <3> QED BY <2>1, <2>2, <3>0, PlainCodeIsRead
  <2>4. codes \in Seq(Seq(Symbols))
    BY <2>1, <2>3
  <2>5. \A i \in 1 .. Len(codes) : <<message[i], codes[i]>> \in Codes
    BY <2>1, <2>2, <2>3
  <2> HIDE DEF Codes
  <2> QED BY <2>4, <2>5 DEF IsCoded
<1>4. Codes \in SUBSET (Characters \X Seq(Symbols))
  OBVIOUS
<1> HIDE DEF at, Codes
<1>5. text \in Seq(Symbols) /\ Looped(ReadOp, at[<<>>], text) = at[message]
  <2>1. at \in [Seq(Characters) -> ReadingState]
    BY <1>1 DEF Strings
  <2>2. CodesLead(Codes, Characters, Symbols, ReadOp, at)
    BY <1>2, <1>4, <2>1, ReadOpType, CodedTexts
  <2> QED BY <1>3, <2>2 DEF CodesLead, Strings
<1>6. at[<<>>] = Reading("text", <<>>) /\ at[message] = Reading("text", message)
  BY DEF at, Strings
<1> HIDE DEF text
<1>7. "quote" \in Symbols /\ Append(text, "quote") \in Seq(Symbols)
  <2>1. "quote" \in Symbols
    BY DEF Symbols, Characters
  <2> QED BY <1>5, <2>1
<1> DEFINE start == Reading("text", <<>>)
<1>8. start \in ReadingState /\ Reading("text", message) \in ReadingState
  BY <1>0 DEF Reading, ReadingState
<1> HIDE DEF start
<1>9. Looped(ReadOp, start, Append(text, "quote")) = ReadOp[<<Looped(ReadOp, start, text), "quote">>]
  BY <1>5, <1>7, <1>8, ReadOpType, LoopStep
<1>10. ReadText(Append(text, "quote")) = ReadChar(Reading("text", message), "quote")
  BY <1>5, <1>6, <1>7, <1>8, <1>9, ReadOpType, ReadTextLoops DEF start
<1>11. ReadChar(Reading("text", message), "quote") = Reading("end", message)
  BY DEF ReadChar, Reading
<1> QED BY <1>10, <1>11 DEF ParseString, Reading, text

-----------------------------------------------------------------------------
(* The strings that are written. *)

\* The codes of one, of two and of three symbols.
LEMMA CodesBySymbols ==
  ASSUME NEW ch \in Characters, NEW code
  PROVE  code \in Encodings(ch) <=>
           \/ ch \notin {"quote", "backslash"} \cup Controls /\ code = <<ch>>
           \/ ch \in {"quote", "backslash", "/"} /\ code = <<"backslash", ch>>
           \/ ch = "LF" /\ code = <<"backslash", "n">>
           \/ \E hex \in DOMAIN Hex : Hex[hex] = ch /\ code = <<"backslash", "u", hex>>
<1>1. code \in {<<"backslash", esc>> : esc \in {e \in DOMAIN Short : Short[e] = ch}}
        <=> ch = "LF" /\ code = <<"backslash", "n">>
  <2>1. \A esc : esc \in {e \in DOMAIN Short : Short[e] = ch} <=> esc = "n" /\ ch = "LF"
    BY DEF Short
  <2> QED BY <2>1
<1>2. code \in {<<"backslash", "u", hex>> : hex \in {h \in DOMAIN Hex : Hex[h] = ch}}
        <=> \E hex \in DOMAIN Hex : Hex[hex] = ch /\ code = <<"backslash", "u", hex>>
  <2> DEFINE codes == DOMAIN Hex
             Of(h) == Hex[h]
  <2> HIDE DEF codes, Of
  <2>1. code \in {<<"backslash", "u", hex>> : hex \in {h \in codes : Of(h) = ch}}
          <=> \E hex \in codes : Of(hex) = ch /\ code = <<"backslash", "u", hex>>
    OBVIOUS
  <2> QED BY <2>1 DEF codes, Of
<1>3. code \in PlainEncodings(ch) <=>
        \/ code \in {<<"backslash", esc>> : esc \in {e \in DOMAIN Short : Short[e] = ch}}
        \/ ch \in {"quote", "backslash", "/"} /\ code = <<"backslash", ch>>
        \/ ch \notin {"quote", "backslash"} \cup Controls /\ code = <<ch>>
  BY DEF PlainEncodings
<1> QED BY <1>1, <1>2, <1>3 DEF Encodings

LEMMA SymbolTypes ==
  /\ Characters \subseteq Symbols /\ DOMAIN Hex \subseteq Symbols
  /\ "backslash" \in Symbols /\ "u" \in Symbols /\ "n" \in Symbols /\ "quote" \in Symbols
BY DEF Symbols, Characters

LEMMA HexIsCharacter == \A hex \in DOMAIN Hex : Hex[hex] \in Characters
BY DEF Hex, Characters, Controls

\* A code is a text of at most three symbols; a longer one than one begins
\* with the backslash, and one of three goes on with u.
LEMMA CodeShape ==
  ASSUME NEW code \in AllEncodings
  PROVE  /\ code \in Seq(Symbols) /\ Len(code) \in 1 .. 3
         /\ Len(code) > 1 => code[1] = "backslash"
         /\ Len(code) > 2 => code[2] = "u"
<1>1. PICK ch \in Characters : code \in Encodings(ch)
  BY DEF AllEncodings
<1>3. ASSUME NEW esc \in Symbols, code = <<"backslash", esc>>
      PROVE  code \in Seq(Symbols) /\ Len(code) = 2 /\ code[1] = "backslash"
  BY <1>3, SymbolTypes
<1>4. ASSUME NEW hex \in Symbols, code = <<"backslash", "u", hex>>
      PROVE  /\ code \in Seq(Symbols) /\ Len(code) = 3
             /\ code[1] = "backslash" /\ code[2] = "u"
  BY <1>4, SymbolTypes
<1>5. \/ code = <<ch>>
      \/ \E esc \in Symbols : code = <<"backslash", esc>>
      \/ \E hex \in Symbols : code = <<"backslash", "u", hex>>
  BY <1>1, CodesBySymbols, SymbolTypes
<1>6. CASE code = <<ch>>
  <2>1. code \in Seq(Symbols) /\ Len(code) = 1
    BY <1>6, SymbolTypes
  <2> QED BY <2>1
<1>7. CASE \E esc \in Symbols : code = <<"backslash", esc>>
  <2>1. code \in Seq(Symbols) /\ Len(code) = 2 /\ code[1] = "backslash"
    BY <1>3, <1>7
  <2> QED BY <2>1
<1>8. CASE \E hex \in Symbols : code = <<"backslash", "u", hex>>
  <2>1. /\ code \in Seq(Symbols) /\ Len(code) = 3
        /\ code[1] = "backslash" /\ code[2] = "u"
    BY <1>4, <1>8
  <2> QED BY <2>1
<1> QED BY <1>5, <1>6, <1>7, <1>8

\* What has begun: a backslash, perhaps with u.
LEMMA BegunCodes ==
  ASSUME NEW a \in Symbols, NEW b \in Symbols, NEW c \in Symbols
  PROVE  /\ a # "backslash" => ~Begun(<<a>>)
         /\ b # "u" => ~Begun(<<a, b>>)
         /\ ~Begun(<<a, b, c>>)
         /\ Begun(<<"backslash">>) /\ Begun(<<"backslash", "u">>)
<1>1. \A s, t \in Seq(Symbols) : IsPrefix(s, t) => \A i \in 1 .. Len(s) : s[i] = t[i]
  <2> SUFFICES ASSUME NEW s \in Seq(Symbols), NEW t \in Seq(Symbols), IsPrefix(s, t),
                      NEW i \in 1 .. Len(s)
               PROVE  s[i] = t[i]
    OBVIOUS
  <2>1. Len(s) <= Len(t) /\ SubSeq(s, 1, Len(s)) = SubSeq(t, 1, Len(s))
    BY DEF IsPrefix
  <2>2. SubSeq(s, 1, Len(s))[i] = s[i] /\ SubSeq(t, 1, Len(s))[i] = t[i]
    BY <2>1
  <2> QED BY <2>1, <2>2
<1>2. /\ <<a>> \in Seq(Symbols) /\ Len(<<a>>) = 1 /\ <<a>>[1] = a
      /\ <<a, b>> \in Seq(Symbols) /\ Len(<<a, b>>) = 2 /\ <<a, b>>[2] = b
      /\ <<a, b, c>> \in Seq(Symbols) /\ Len(<<a, b, c>>) = 3
  OBVIOUS
<1>3. ASSUME NEW pending \in Seq(Symbols), Begun(pending)
      PROVE  /\ Len(pending) < 3
             /\ Len(pending) > 0 => pending[1] = "backslash"
             /\ Len(pending) > 1 => pending[2] = "u"
  <2>1. PICK code \in AllEncodings : Len(pending) < Len(code) /\ IsPrefix(pending, code)
    BY <1>3 DEF Begun
  <2>2. /\ code \in Seq(Symbols) /\ Len(code) \in 1 .. 3
        /\ Len(code) > 1 => code[1] = "backslash"
        /\ Len(code) > 2 => code[2] = "u"
    BY CodeShape
  <2>3. \A i \in 1 .. Len(pending) : pending[i] = code[i]
    BY <1>1, <2>1, <2>2
  <2>4. Len(pending) \in Nat
    OBVIOUS
  <2>5. Len(pending) < 3
    BY <2>1, <2>2, <2>4
  <2>6. Len(pending) > 0 => pending[1] = "backslash"
    <3>1. Len(pending) > 0 => 1 \in 1 .. Len(pending) /\ Len(code) > 1
      BY <2>1, <2>2, <2>4
    <3> QED BY <2>2, <2>3, <3>1
  <2>7. Len(pending) > 1 => pending[2] = "u"
    <3>1. Len(pending) > 1 => 2 \in 1 .. Len(pending) /\ Len(code) > 2
      BY <2>1, <2>2, <2>4
    <3> QED BY <2>2, <2>3, <3>1
  <2> QED BY <2>5, <2>6, <2>7
<1>4. a # "backslash" => ~Begun(<<a>>)
  <2> DEFINE pending == <<a>>
  <2> HIDE DEF pending
  <2>1. pending \in Seq(Symbols) /\ Len(pending) = 1 /\ pending[1] = a
    BY <1>2 DEF pending
  <2>2. a # "backslash" => ~Begun(pending)
    BY <1>3, <2>1
  <2> QED BY <2>2 DEF pending
<1>5. b # "u" => ~Begun(<<a, b>>)
  <2> DEFINE pending == <<a, b>>
  <2> HIDE DEF pending
  <2>1. pending \in Seq(Symbols) /\ Len(pending) = 2 /\ pending[2] = b
    BY <1>2 DEF pending
  <2>2. ASSUME Begun(pending) PROVE b = "u"
    <3>1. Len(pending) > 1 => pending[2] = "u"
      BY <1>3, <2>1, <2>2, Zenon
    <3> QED BY <2>1, <3>1
  <2> QED BY <2>2 DEF pending
<1>6. ~Begun(<<a, b, c>>)
  <2> DEFINE pending == <<a, b, c>>
  <2> HIDE DEF pending
  <2>1. pending \in Seq(Symbols) /\ Len(pending) = 3
    BY <1>2 DEF pending
  <2>2. ASSUME Begun(pending) PROVE FALSE
    <3>1. Len(pending) < 3
      BY <1>3, <2>1, <2>2, Zenon
    <3> QED BY <2>1, <3>1
  <2> QED BY <2>2 DEF pending
<1>7. ASSUME NEW pending \in Seq(Symbols), NEW rest \in Symbols, NEW code \in AllEncodings,
             code = pending \o <<rest>>
      PROVE  Begun(pending)
  <2>1. <<rest>> \in Seq(Symbols) /\ Len(<<rest>>) = 1
    BY OneChar
  <2>2. IsPrefix(pending, code)
    BY <1>7, <2>1, PrefixOfConcat
  <2>3. Len(pending) < Len(code)
    BY <1>7, <2>1
  <2> QED BY <2>2, <2>3 DEF Begun
<1>8. Begun(<<"backslash">>)
  <2>1. <<"backslash", "quote">> \in AllEncodings
    <3>1. "quote" \in Characters
      BY DEF Characters
    <3>2. <<"backslash", "quote">> \in Encodings("quote")
      BY <3>1, CodesBySymbols
    <3> QED BY <3>1, <3>2 DEF AllEncodings
  <2>2. <<"backslash", "quote">> = <<"backslash">> \o <<"quote">>
    BY SymbolTypes, TwoChars, Zenon
  <2>3. <<"backslash">> \in Seq(Symbols)
    BY SymbolTypes, OneChar
  <2> QED BY <1>7, <2>1, <2>2, <2>3, SymbolTypes
<1>9. Begun(<<"backslash", "u">>)
  <2>0. "0007" \in DOMAIN Hex /\ Hex["0007"] = "BEL" /\ "BEL" \in Characters
    BY DEF Hex, Characters, Controls
  <2>1. <<"backslash", "u", "0007">> \in AllEncodings
    <3>1. <<"backslash", "u", "0007">> \in Encodings("BEL")
      BY <2>0, CodesBySymbols
    <3> QED BY <2>0, <3>1 DEF AllEncodings
  <2>2. "0007" \in Symbols
    BY <2>0, SymbolTypes
  <2>3. <<"backslash", "u", "0007">> = <<"backslash", "u">> \o <<"0007">>
    BY <2>2, SymbolTypes, ThreeChars, Zenon
  <2>4. <<"backslash", "u">> \in Seq(Symbols)
    BY SymbolTypes, TwoChars
  <2> QED BY <1>7, <2>1, <2>2, <2>3, <2>4
<1> QED BY <1>4, <1>5, <1>6, <1>8, <1>9

MessageReading == [message : Strings, pending : Seq(Symbols)]
ServerReading == SUBSET MessageReading
After(message, pending) == {[message |-> message, pending |-> pending]}

LEMMA ContinuedType ==
  ASSUME NEW readings \in ServerReading, NEW symbol \in Symbols
  PROVE  Continued(readings, symbol) \in ServerReading
<1>0. readings \subseteq MessageReading
  BY DEF ServerReading
<1>1. ASSUME NEW r \in readings
      PROVE  [message |-> r.message, pending |-> Append(r.pending, symbol)] \in MessageReading
  <2>1. r.message \in Strings /\ r.pending \in Seq(Symbols)
    BY <1>0 DEF MessageReading
  <2>2. Append(r.pending, symbol) \in Seq(Symbols)
    BY <2>1
  <2> QED BY <2>1, <2>2 DEF MessageReading
<1>2. ASSUME NEW r \in readings, NEW ch \in Characters
      PROVE  [message |-> Append(r.message, ch), pending |-> <<>>] \in MessageReading
  <2>1. r.message \in Strings
    BY <1>0 DEF MessageReading
  <2>2. Append(r.message, ch) \in Strings /\ <<>> \in Seq(Symbols)
    BY <2>1 DEF Strings
  <2> QED BY <2>2 DEF MessageReading
<1> DEFINE one == {[message |-> r.message, pending |-> Append(r.pending, symbol)] :
                     r \in {r \in readings : Begun(Append(r.pending, symbol))}}
           two == UNION {{[message |-> Append(r.message, ch), pending |-> <<>>] :
                            r \in {r \in readings : Append(r.pending, symbol) \in Encodings(ch)}} :
                          ch \in Characters}
<1>3. one \subseteq MessageReading
  BY <1>1
<1>4. two \subseteq MessageReading
  BY <1>2
<1>5. Continued(readings, symbol) = one \cup two
  BY DEF Continued
<1> HIDE DEF one, two
<1> QED BY <1>3, <1>4, <1>5 DEF ServerReading

ContinueOp == [p \in ServerReading \X Symbols |-> Continued(p[1], p[2])]

LEMMA ContinueOpType ==
  /\ ContinueOp \in Loops(ServerReading, Symbols)
  /\ \A readings \in ServerReading, symbol \in Symbols :
       ContinueOp[<<readings, symbol>>] = Continued(readings, symbol)
BY ContinuedType DEF ContinueOp, Loops, ServerReading

GoesOn(pending) == Begun(pending) /\ \A ch \in Characters : pending \notin Encodings(ch)
Ends(pending, ch) ==
  ~Begun(pending) /\ \A c \in Characters : pending \in Encodings(c) <=> c = ch

\* One symbol more, after a message and with a code that has begun: it goes on
\* with the code, or it ends the code of a character.
LEMMA ContinuedOnce ==
  ASSUME NEW message \in Strings, NEW pending \in Seq(Symbols), NEW symbol \in Symbols,
         NEW next, next = Append(pending, symbol)
  PROVE  /\ GoesOn(next) =>
              Continued(After(message, pending), symbol) = After(message, next)
         /\ \A ch \in Characters :
              Ends(next, ch) =>
                Continued(After(message, pending), symbol) = After(Append(message, ch), <<>>)
<1> DEFINE readings == After(message, pending)
           reading == [message |-> message, pending |-> pending]
           one == {[message |-> r.message, pending |-> Append(r.pending, symbol)] :
                     r \in {r \in readings : Begun(Append(r.pending, symbol))}}
           ended(ch) == {[message |-> Append(r.message, ch), pending |-> <<>>] :
                           r \in {r \in readings : Append(r.pending, symbol) \in Encodings(ch)}}
           two == UNION {ended(ch) : ch \in Characters}
<1>1. readings = {reading} /\ reading.message = message /\ Append(reading.pending, symbol) = next
  BY DEF After
<1>2. Continued(readings, symbol) = one \cup two
  BY DEF Continued
<1>3. /\ Begun(next) => one = {[message |-> message, pending |-> next]}
      /\ ~Begun(next) => one = {}
  <2> HIDE DEF readings, reading
  <2> QED BY <1>1
<1>4. ASSUME NEW ch \in Characters
      PROVE  /\ next \in Encodings(ch) =>
                  ended(ch) = {[message |-> Append(message, ch), pending |-> <<>>]}
             /\ next \notin Encodings(ch) => ended(ch) = {}
  <2> HIDE DEF readings, reading
  <2> QED BY <1>1
<1> HIDE DEF ended, one, readings, reading
<1>5. (\A ch \in Characters : next \notin Encodings(ch)) => two = {}
  BY <1>4
<1>6. ASSUME NEW ch \in Characters, \A c \in Characters : next \in Encodings(c) <=> c = ch
      PROVE  two = {[message |-> Append(message, ch), pending |-> <<>>]}
  <2>1. ended(ch) = {[message |-> Append(message, ch), pending |-> <<>>]}
    BY <1>4, <1>6
  <2>2. \A c \in Characters : c # ch => ended(c) = {}
    BY <1>4, <1>6
  <2>3. two = ended(ch)
    BY <2>2
  <2> QED BY <2>1, <2>3
<1> HIDE DEF two
<1>7. readings = After(message, pending)
  BY DEF readings
<1> QED BY <1>2, <1>3, <1>5, <1>6, <1>7 DEF After, GoesOn, Ends

\* The readings of a text are a loop over its symbols.
LEMMA ReadingsLoop ==
  ASSUME NEW text \in Seq(Symbols)
  PROVE  Readings(text) = Looped(ContinueOp, After(<<>>, <<>>), text)
<1> DEFINE n == Len(text)
           start == After(<<>>, <<>>)
           IsState(h) ==
             h = [i \in 0 .. n |-> IF i = 0 THEN start ELSE Continued(h[i - 1], text[i])]
           state == CHOOSE h : IsState(h)
<1>0. n \in Nat /\ (\A i \in 1 .. n : text[i] \in Symbols) /\ start \in ServerReading
  <2>1. n \in Nat /\ \A i \in 1 .. n : text[i] \in Symbols
    OBVIOUS
  <2>2. start \in ServerReading
    BY DEF After, ServerReading, MessageReading, Strings
  <2> QED BY <2>1, <2>2
<1>1. PICK f \in [0 .. Len(text) -> ServerReading] :
        GoesOver(f, ContinueOp, start, text) /\ Looped(ContinueOp, start, text) = f[Len(text)]
  <2> HIDE DEF start, n
  <2> QED BY <1>0, ContinueOpType, LoopExists
<1>5. Readings(text) = state[n]
  BY DEF Readings, After
<1> HIDE DEF start
<1>2. f[0] = start /\ \A i \in 1 .. n : f[i] = Continued(f[i - 1], text[i])
  <2>1. ASSUME NEW i \in 1 .. n PROVE f[i] = Continued(f[i - 1], text[i])
    <3>1. f[i - 1] \in ServerReading /\ text[i] \in Symbols
      BY <1>0
    <3>2. f[i] = ContinueOp[<<f[i - 1], text[i]>>]
      BY <1>1 DEF GoesOver
    <3> QED BY <3>1, <3>2, ContinueOpType
  <2> QED BY <1>1, <2>1 DEF GoesOver
<1>3. IsState(f)
  <2> DEFINE value(i) == IF i = 0 THEN start ELSE Continued(f[i - 1], text[i])
  <2>1. \A i \in 0 .. n : f[i] = value(i)
    BY <1>0, <1>2
  <2> HIDE DEF value
  <2>2. f = [i \in 0 .. n |-> value(i)]
    BY <2>1
  <2> QED BY <2>2 DEF value
<1>4. IsState(state)
  BY <1>3
<1> HIDE DEF state
<1>6. state[0] = start /\ \A i \in 1 .. n : state[i] = Continued(state[i - 1], text[i])
  BY <1>0, <1>4
<1>7. ASSUME NEW i \in 1 .. Len(text), state[i - 1] \in ServerReading
      PROVE  state[i] = ContinueOp[<<state[i - 1], text[i]>>]
  BY <1>0, <1>6, <1>7, ContinueOpType
<1>8. state[Len(text)] = Looped(ContinueOp, start, text)
  BY <1>0, <1>6, <1>7, ContinueOpType, LoopIsUnique
<1> QED BY <1>5, <1>8 DEF start

\* What the agent writes for a character, one by one.
LEMMA EscapedCharacters ==
  ASSUME NEW ch \in Characters
  PROVE  \/ ch \in {"quote", "backslash"} /\ EscapeChar(ch) = <<"backslash", ch>>
         \/ ch = "LF" /\ EscapeChar(ch) = <<"backslash", "n">>
         \/ \E hex \in DOMAIN Hex :
              Hex[hex] = ch /\ EscapeChar(ch) = <<"backslash", "u", hex>>
         \/ ch \notin {"quote", "backslash"} \cup Controls /\ EscapeChar(ch) = <<ch>>
<1>1. ch = "BEL" => HexOf(ch) \in DOMAIN Hex /\ Hex[HexOf(ch)] = ch
  <2>1. "0007" \in DOMAIN Hex /\ Hex["0007"] = "BEL"
    BY DEF Hex
  <2> DEFINE codes == DOMAIN Hex
             Of(h) == Hex[h]
  <2> HIDE DEF codes, Of
  <2>2. "0007" \in codes /\ Of("0007") = "BEL"
    BY <2>1 DEF codes, Of
  <2>3. ch = "BEL" => /\ (CHOOSE hex \in codes : Of(hex) = ch) \in codes
                      /\ Of(CHOOSE hex \in codes : Of(hex) = ch) = ch
    BY <2>2
  <2> QED BY <2>3 DEF codes, Of, HexOf
<1>2. CASE ch \in {"quote", "backslash"}
  <2>1. EscapeChar(ch) = <<"backslash", ch>>
    BY <1>2 DEF EscapeChar, Controls
  <2> QED BY <1>2, <2>1
<1>3. CASE ch = "LF"
  BY <1>3 DEF EscapeChar
<1>4. CASE ch = "BEL"
  BY <1>1, <1>4 DEF EscapeChar, Controls
<1>5. CASE ch \notin {"quote", "backslash"} \cup Controls
  BY <1>5 DEF EscapeChar, Controls
<1> QED BY <1>2, <1>3, <1>4, <1>5 DEF Controls

\* Codes of different lengths, or of different symbols, are different.
LEMMA CodesDiffer ==
  ASSUME NEW a, NEW b, NEW c, NEW d, NEW e, NEW f
  PROVE  /\ <<a>> # <<b, c>> /\ <<a>> # <<b, c, d>> /\ <<a, b>> # <<c, d, e>>
         /\ <<a>> = <<b>> => a = b
         /\ <<a, b>> = <<c, d>> => b = d
         /\ <<a, b, c>> = <<d, e, f>> => c = f
OBVIOUS

\* Each symbol of an escaped character leaves the server with one reading, and
\* the last with the one that has the character.
LEMMA EscapedIsUnderstood ==
  ASSUME NEW message \in Strings, NEW ch \in Characters
  PROVE  /\ EscapeChar(ch) \in Seq(Symbols)
         /\ Looped(ContinueOp, After(message, <<>>), EscapeChar(ch))
              = After(Append(message, ch), <<>>)
<1> DEFINE longer == Append(message, ch)
           empty == <<>>
<1>0. /\ longer \in Strings /\ empty \in Seq(Symbols) /\ ch \in Symbols
      /\ \A a \in Symbols : Append(empty, a) = <<a>> /\ <<a>> \in Seq(Symbols)
      /\ \A a, b \in Symbols : Append(<<a>>, b) = <<a, b>> /\ <<a, b>> \in Seq(Symbols)
      /\ \A a, b, c \in Symbols : Append(<<a, b>>, c) = <<a, b, c>> /\ <<a, b, c>> \in Seq(Symbols)
  <2>1. longer \in Strings
    BY DEF Strings
  <2>2. empty \in Seq(Symbols) /\ ch \in Symbols
    BY SymbolTypes
  <2>3. \A a \in Symbols : Append(empty, a) = <<a>> /\ <<a>> \in Seq(Symbols)
    BY OneChar
  <2>4. \A a, b \in Symbols : Append(<<a>>, b) = <<a, b>> /\ <<a, b>> \in Seq(Symbols)
    <3>1. \A a, b \in Symbols : Append(<<a>>, b) = <<a>> \o <<b>>
      OBVIOUS
    <3> QED BY <3>1, TwoChars
  <2>5. \A a, b, c \in Symbols : Append(<<a, b>>, c) = <<a, b, c>> /\ <<a, b, c>> \in Seq(Symbols)
    <3>1. ASSUME NEW text \in Seq(Symbols), NEW c \in Symbols
          PROVE  Append(text, c) = text \o <<c>>
      OBVIOUS
    <3> SUFFICES ASSUME NEW a \in Symbols, NEW b \in Symbols, NEW c \in Symbols
                 PROVE  Append(<<a, b>>, c) = <<a, b, c>> /\ <<a, b, c>> \in Seq(Symbols)
      OBVIOUS
    <3>2. Append(<<a, b>>, c) = <<a, b>> \o <<c>>
      BY <2>4, <3>1
    <3>3. <<a, b, c>> \in Seq(Symbols) /\ <<a, b, c>> = <<a, b>> \o <<c>>
      BY ThreeChars
    <3> QED BY <3>2, <3>3, Zenon
  <2> QED BY <2>1, <2>2, <2>3, <2>4, <2>5
<1> HIDE DEF longer, empty
<1>1. ASSUME NEW pending \in Seq(Symbols)
      PROVE  After(message, pending) \in ServerReading
  BY DEF After, ServerReading, MessageReading
\* The backslash begins a code, and u goes on with it.
<1>2. Continued(After(message, empty), "backslash") = After(message, <<"backslash">>)
  <2>1. <<"backslash">> = Append(empty, "backslash") /\ Begun(<<"backslash">>)
    BY <1>0, BegunCodes, SymbolTypes
  <2>2. ASSUME NEW c \in Characters PROVE <<"backslash">> \notin Encodings(c)
    <3>1. c \notin {"quote", "backslash"} \cup Controls => <<"backslash">> # <<c>>
      BY CodesDiffer
    <3> QED BY <3>1, CodesBySymbols, CodesDiffer
  <2>3. GoesOn(<<"backslash">>)
    BY <2>1, <2>2 DEF GoesOn
  <2> DEFINE next == <<"backslash">>
             symbol == "backslash"
  <2>4. /\ GoesOn(next) /\ next = Append(empty, symbol)
        /\ empty \in Seq(Symbols) /\ symbol \in Symbols
    BY <1>0, <2>1, <2>3, SymbolTypes
  <2> HIDE DEF next, symbol
  <2>5. Continued(After(message, empty), symbol) = After(message, next)
    BY <2>4, ContinuedOnce
  <2> QED BY <2>5 DEF next, symbol
<1>3. Continued(After(message, <<"backslash">>), "u") = After(message, <<"backslash", "u">>)
  <2>1. /\ <<"backslash", "u">> = Append(<<"backslash">>, "u") /\ Begun(<<"backslash", "u">>)
        /\ <<"backslash">> \in Seq(Symbols)
    BY <1>0, BegunCodes, SymbolTypes
  <2>2. ASSUME NEW c \in Characters PROVE <<"backslash", "u">> \notin Encodings(c)
    <3>1. c \in {"quote", "backslash", "/"} => <<"backslash", "u">> # <<"backslash", c>>
      BY CodesDiffer
    <3>2. <<"backslash", "u">> # <<"backslash", "n">>
      BY CodesDiffer
    <3> QED BY <3>1, <3>2, CodesBySymbols, CodesDiffer
  <2>3. GoesOn(<<"backslash", "u">>)
    BY <2>1, <2>2 DEF GoesOn
  <2> DEFINE next == <<"backslash", "u">>
             pending == <<"backslash">>
             symbol == "u"
  <2>4. /\ GoesOn(next) /\ next = Append(pending, symbol)
        /\ pending \in Seq(Symbols) /\ symbol \in Symbols
    BY <2>1, <2>3, SymbolTypes
  <2> HIDE DEF next, pending, symbol
  <2>5. Continued(After(message, pending), symbol) = After(message, next)
    BY <2>4, ContinuedOnce
  <2> QED BY <2>5 DEF next, pending, symbol
<1>4. CASE ch \notin {"quote", "backslash"} \cup Controls /\ EscapeChar(ch) = <<ch>>
  <2>1. <<ch>> = Append(empty, ch) /\ ~Begun(<<ch>>)
    BY <1>0, <1>4, BegunCodes
  <2>2. ASSUME NEW c \in Characters PROVE <<ch>> \in Encodings(c) <=> c = ch
    <3>1. <<ch>> = <<c>> => c = ch
      BY CodesDiffer
    <3> QED BY <1>4, <3>1, CodesBySymbols, CodesDiffer
  <2>3. Continued(After(message, empty), ch) = After(longer, <<>>)
    <3>1. Ends(<<ch>>, ch)
      BY <2>1, <2>2 DEF Ends
    <3> QED BY <1>0, <2>1, <3>1, ContinuedOnce DEF longer
  <2>4. Looped(ContinueOp, After(message, empty), <<ch>>)
          = ContinueOp[<<After(message, empty), ch>>]
    BY <1>0, <1>1, ContinueOpType, LoopFew
  <2>5. Looped(ContinueOp, After(message, empty), <<ch>>) = After(longer, <<>>)
    BY <1>0, <1>1, <2>3, <2>4, ContinueOpType
  <2> QED BY <1>0, <1>4, <2>5 DEF longer, empty
<1>5. ASSUME NEW esc \in Symbols, esc # "u", EscapeChar(ch) = <<"backslash", esc>>,
             \A c \in Characters : <<"backslash", esc>> \in Encodings(c) <=> c = ch
      PROVE  /\ EscapeChar(ch) \in Seq(Symbols)
             /\ Looped(ContinueOp, After(message, <<>>), EscapeChar(ch)) = After(longer, <<>>)
  <2>1. /\ <<"backslash", esc>> = Append(<<"backslash">>, esc) /\ ~Begun(<<"backslash", esc>>)
        /\ <<"backslash">> \in Seq(Symbols) /\ <<"backslash", esc>> \in Seq(Symbols)
    BY <1>0, <1>5, BegunCodes, SymbolTypes
  <2>2. Continued(After(message, <<"backslash">>), esc) = After(longer, <<>>)
    <3>1. Ends(<<"backslash", esc>>, ch)
      BY <1>5, <2>1 DEF Ends
    <3> QED BY <2>1, <3>1, ContinuedOnce DEF longer
  <2>3. Looped(ContinueOp, After(message, empty), <<"backslash", esc>>)
          = ContinueOp[<<ContinueOp[<<After(message, empty), "backslash">>], esc>>]
    BY <1>0, <1>1, ContinueOpType, LoopFew, SymbolTypes
  <2>4. ContinueOp[<<After(message, empty), "backslash">>] = After(message, <<"backslash">>)
    BY <1>0, <1>1, <1>2, ContinueOpType, SymbolTypes
  <2>5. ContinueOp[<<After(message, <<"backslash">>), esc>>] = After(longer, <<>>)
    BY <1>1, <2>1, <2>2, ContinueOpType
  <2> QED BY <1>5, <2>1, <2>3, <2>4, <2>5 DEF empty
<1>6. CASE ch \in {"quote", "backslash"} /\ EscapeChar(ch) = <<"backslash", ch>>
  <2>1. ASSUME NEW c \in Characters PROVE <<"backslash", ch>> \in Encodings(c) <=> c = ch
    <3>1. <<"backslash", ch>> = <<"backslash", c>> => c = ch
      BY CodesDiffer
    <3>2. <<"backslash", ch>> # <<"backslash", "n">>
      BY <1>6, CodesDiffer
    <3> QED BY <1>6, <3>1, <3>2, CodesBySymbols, CodesDiffer
  <2> QED BY <1>0, <1>5, <1>6, <2>1 DEF longer
<1>7. CASE ch = "LF" /\ EscapeChar(ch) = <<"backslash", "n">>
  <2>1. ASSUME NEW c \in Characters PROVE <<"backslash", "n">> \in Encodings(c) <=> c = ch
    <3>1. c \in {"quote", "backslash", "/"} => <<"backslash", "n">> # <<"backslash", c>>
      BY CodesDiffer
    <3> QED BY <1>7, <3>1, CodesBySymbols, CodesDiffer
  <2> QED BY <1>5, <1>7, <2>1, SymbolTypes DEF longer
<1>8. ASSUME NEW hex \in DOMAIN Hex, Hex[hex] = ch,
             EscapeChar(ch) = <<"backslash", "u", hex>>
      PROVE  /\ EscapeChar(ch) \in Seq(Symbols)
             /\ Looped(ContinueOp, After(message, <<>>), EscapeChar(ch)) = After(longer, <<>>)
  <2> DEFINE code == <<"backslash", "u", hex>>
  <2>1. ASSUME NEW c \in Characters PROVE code \in Encodings(c) <=> c = ch
    <3>1. \A h \in DOMAIN Hex : code = <<"backslash", "u", h>> => h = hex
      BY CodesDiffer
    <3>2. code # <<c>> /\ code # <<"backslash", c>> /\ code # <<"backslash", "n">>
      BY CodesDiffer
    <3> HIDE DEF code
    <3>3. code \in Encodings(c) <=> \E h \in DOMAIN Hex : Hex[h] = c /\ code = <<"backslash", "u", h>>
      BY <3>2, CodesBySymbols
    <3>4. code = <<"backslash", "u", hex>>
      BY DEF code
    <3> QED BY <1>8, <3>1, <3>3, <3>4, Zenon
  <2>2. /\ code = Append(<<"backslash", "u">>, hex) /\ ~Begun(code) /\ hex \in Symbols
        /\ <<"backslash">> \in Seq(Symbols) /\ <<"backslash", "u">> \in Seq(Symbols)
        /\ code \in Seq(Symbols)
    BY <1>0, BegunCodes, SymbolTypes
  <2>3. Looped(ContinueOp, After(message, empty), code)
          = ContinueOp[<<ContinueOp[<<ContinueOp[<<After(message, empty), "backslash">>], "u">>], hex>>]
    BY <1>0, <1>1, <2>2, ContinueOpType, LoopFew, SymbolTypes
  <2> HIDE DEF code
  <2>4. Continued(After(message, <<"backslash", "u">>), hex) = After(longer, <<>>)
    <3>1. Ends(code, ch)
      BY <2>1, <2>2 DEF Ends
    <3> QED BY <2>2, <3>1, ContinuedOnce DEF longer
  <2>5. ContinueOp[<<After(message, empty), "backslash">>] = After(message, <<"backslash">>)
    BY <1>0, <1>1, <1>2, ContinueOpType, SymbolTypes
  <2>6. ContinueOp[<<After(message, <<"backslash">>), "u">>] = After(message, <<"backslash", "u">>)
    BY <1>1, <1>3, <2>2, ContinueOpType, SymbolTypes
  <2>7. ContinueOp[<<After(message, <<"backslash", "u">>), hex>>] = After(longer, <<>>)
    BY <1>1, <2>2, <2>4, ContinueOpType
  <2>8. EscapeChar(ch) = code
    BY <1>8 DEF code
  <2> QED BY <2>2, <2>3, <2>5, <2>6, <2>7, <2>8 DEF empty
<1> QED BY <1>4, <1>6, <1>7, <1>8, EscapedCharacters DEF longer

\* Whatever a message holds, the server reads the string the agent writes for
\* it as that message and as no other (escape_json).
THEOREM WrittenStringIsUnderstood ==
  ASSUME NEW message \in Strings
  PROVE  MessagesOf(EscapeJson(message)) = {message}
<1> DEFINE at == [m \in Strings |-> After(m, <<>>)]
           Codes == {p \in Characters \X Seq(Symbols) : p[2] = EscapeChar(p[1])}
           codes == [i \in DOMAIN message |-> EscapeChar(message[i])]
           text == FlattenSeq(codes)
<1>1. at \in [Strings -> ServerReading]
  BY DEF After, ServerReading, MessageReading
<1>2. Carries(Codes, Characters, Symbols, ContinueOp, at)
  <2> SUFFICES ASSUME NEW m \in Strings, NEW ch \in Characters, NEW code \in Seq(Symbols),
                      <<ch, code>> \in Codes
               PROVE  Looped(ContinueOp, at[m], code) = at[Append(m, ch)]
    BY Zenon DEF Carries, Strings
  <2>1. code = EscapeChar(ch)
    OBVIOUS
  <2>2. Append(m, ch) \in Strings
    BY DEF Strings
  <2>3. Looped(ContinueOp, After(m, <<>>), code) = After(Append(m, ch), <<>>)
    BY <2>1, EscapedIsUnderstood
  <2> HIDE DEF Codes
  <2> QED BY <2>2, <2>3
<1>3. codes \in Seq(Seq(Symbols)) /\ IsCoded(Codes, message, codes)
  <2>1. /\ Len(message) \in Nat /\ DOMAIN message = 1 .. Len(message)
        /\ \A i \in 1 .. Len(message) : message[i] \in Characters
    BY DEF Strings
  <2>2. \A i \in 1 .. Len(message) : EscapeChar(message[i]) \in Seq(Symbols)
    BY <2>1, EscapedIsUnderstood
  <2>3. codes \in Seq(Seq(Symbols)) /\ Len(codes) = Len(message)
    BY <2>1, <2>2
  <2>4. \A i \in 1 .. Len(codes) : codes[i] = EscapeChar(message[i])
    BY <2>1, <2>3
  <2>5. \A i \in 1 .. Len(codes) : <<message[i], codes[i]>> \in Codes
    BY <2>1, <2>2, <2>3, <2>4
  <2> HIDE DEF codes, Codes
  <2> QED BY <2>3, <2>5 DEF IsCoded
<1>4. Codes \in SUBSET (Characters \X Seq(Symbols))
  OBVIOUS
<1>5. EscapeJson(message) = text
  BY DEF EscapeJson
<1> HIDE DEF at, Codes, codes
<1>6. text \in Seq(Symbols) /\ Looped(ContinueOp, at[<<>>], text) = at[message]
  <2>1. at \in [Seq(Characters) -> ServerReading]
    BY <1>1 DEF Strings
  <2>2. CodesLead(Codes, Characters, Symbols, ContinueOp, at)
    BY <1>2, <1>4, <2>1, ContinueOpType, CodedTexts
  <2> QED BY <1>3, <2>2 DEF CodesLead, Strings
<1>7. at[<<>>] = After(<<>>, <<>>) /\ at[message] = After(message, <<>>)
  BY DEF at, Strings
<1> HIDE DEF text
<1>8. Readings(text) = After(message, <<>>)
  BY <1>6, <1>7, ReadingsLoop
<1>9. MessagesOf(text) = {message}
  <2> DEFINE reading == [message |-> message, pending |-> <<>>]
  <2>1. Readings(text) = {reading} /\ reading.message = message /\ reading.pending = <<>>
    BY <1>8 DEF After
  <2> HIDE DEF reading
  <2> QED BY <2>1 DEF MessagesOf
<1> QED BY <1>5, <1>9
=============================================================================
