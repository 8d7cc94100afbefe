----------------------------- MODULE Induction -----------------------------
(***************************************************************************)
(* Induction in the form the provers can use: over sets instead of         *)
(* predicates.  To show that all numbers, or all texts, have a property,   *)
(* show that the set of those that have it is closed.  The base is that    *)
(* the natural numbers are well founded.                                   *)
(***************************************************************************)
EXTENDS WellFoundedInduction, SequenceTheorems, SequencesExt, TLAPS

LEMMA NextNumber ==
  ASSUME NEW n \in Nat
  PROVE  n + 1 \in Nat
OBVIOUS

\* A set with 0 and the successor of each of its numbers holds all numbers.
LEMMA NumbersByInduction ==
  ASSUME NEW S, 0 \in S, \A n \in Nat : n \in S => n + 1 \in S
  PROVE  Nat \subseteq S
<1> DEFINE R == OpToRel(<, Nat)
           T == Nat \ S
<1>1. IsWellFoundedOn(R, Nat)
  BY NatLessThanWellFounded
<1>2. ASSUME T # {} PROVE FALSE
  <2>1. PICK x \in T : \A y \in T : <<y, x>> \notin R
    <3> HIDE DEF R
    <3> QED BY <1>1, <1>2, WFMin
  <2>2. x - 1 \in Nat /\ x - 1 < x
    OBVIOUS
  <2>3. <<x - 1, x>> \in R
    BY <2>2 DEF OpToRel
  <2>4. x - 1 \in T
    BY <2>2
  <2> HIDE DEF R, T
  <2> QED BY <2>1, <2>3, <2>4
<1> QED BY <1>2

\* The same up to a number.
LEMMA NumbersUpTo ==
  ASSUME NEW n \in Nat, NEW S, 0 \in S,
         \A j \in Nat : j + 1 \in 1 .. n /\ j \in S => j + 1 \in S
  PROVE  n \in S
<1> DEFINE Good == {j \in Nat : j <= n => j \in S}
<1>1. 0 \in Good
  OBVIOUS
<1>2. ASSUME NEW j \in Nat, j \in Good PROVE j + 1 \in Good
  BY <1>2
<1> HIDE DEF Good
<1>3. Nat \subseteq Good
  BY <1>1, <1>2, NumbersByInduction
<1> QED BY <1>3 DEF Good

\* A set with the empty text that holds with a text every text that is one
\* character longer holds all texts.
LEMMA TextsByInduction ==
  ASSUME NEW C, NEW S, <<>> \in S,
         \A text \in Seq(C), ch \in C : text \in S => Append(text, ch) \in S
  PROVE  Seq(C) \subseteq S
<1> DEFINE Lengths == {n \in Nat : \A text \in Seq(C) : Len(text) = n => text \in S}
<1>1. 0 \in Lengths
  BY EmptySeq
<1>2. ASSUME NEW n \in Nat, n \in Lengths PROVE n + 1 \in Lengths
  <2> SUFFICES ASSUME NEW text \in Seq(C), Len(text) = n + 1 PROVE text \in S
    OBVIOUS
  <2> DEFINE front == SubSeq(text, 1, n)
  <2>1. front \in Seq(C) /\ Len(front) = n
    OBVIOUS
  <2>2. text[n + 1] \in C /\ text = Append(front, text[n + 1])
    OBVIOUS
  <2> QED BY <1>2, <2>1, <2>2
<1> HIDE DEF Lengths
<1>3. Nat \subseteq Lengths
  BY <1>1, <1>2, NumbersByInduction
<1> QED BY <1>3 DEF Lengths

\* Short texts, put together of their characters.
LEMMA OneChar ==
  ASSUME NEW C, NEW a \in C
  PROVE  <<a>> \in Seq(C) /\ Append(<<>>, a) = <<a>> /\ Len(<<a>>) = 1
OBVIOUS

LEMMA TwoChars ==
  ASSUME NEW C, NEW a \in C, NEW b \in C
  PROVE  <<a, b>> \in Seq(C) /\ <<a, b>> = <<a>> \o <<b>>
<1> DEFINE whole == <<a, b>>
           parts == <<a>> \o <<b>>
<1>1. whole \in Seq(C) /\ Len(whole) = 2 /\ whole[1] = a /\ whole[2] = b
  OBVIOUS
<1>2. parts \in Seq(C) /\ Len(parts) = 2 /\ parts[1] = a /\ parts[2] = b
  OBVIOUS
<1> HIDE DEF whole, parts
<1>3. whole = parts
  BY <1>1, <1>2, SeqEqual
<1> QED BY <1>1, <1>3 DEF whole, parts

LEMMA ThreeChars ==
  ASSUME NEW C, NEW a \in C, NEW b \in C, NEW c \in C
  PROVE  <<a, b, c>> \in Seq(C) /\ <<a, b, c>> = <<a, b>> \o <<c>>
<1> DEFINE whole == <<a, b, c>>
           parts == <<a, b>> \o <<c>>
<1>1. whole \in Seq(C) /\ Len(whole) = 3 /\ whole[1] = a /\ whole[2] = b /\ whole[3] = c
  OBVIOUS
<1>2. parts \in Seq(C) /\ Len(parts) = 3 /\ parts[1] = a /\ parts[2] = b /\ parts[3] = c
  OBVIOUS
<1> HIDE DEF whole, parts
<1>3. whole = parts
  BY <1>1, <1>2, SeqEqual
<1> QED BY <1>1, <1>3 DEF whole, parts

LEMMA FourChars ==
  ASSUME NEW C, NEW a \in C, NEW b \in C, NEW c \in C, NEW d \in C
  PROVE  <<a, b, c, d>> \in Seq(C) /\ <<a, b, c, d>> = <<a, b, c>> \o <<d>>
<1> DEFINE whole == <<a, b, c, d>>
           parts == <<a, b, c>> \o <<d>>
<1>1. whole \in Seq(C) /\ Len(whole) = 4 /\ whole[1] = a /\ whole[2] = b /\ whole[3] = c /\ whole[4] = d
  OBVIOUS
<1>2. parts \in Seq(C) /\ Len(parts) = 4 /\ parts[1] = a /\ parts[2] = b /\ parts[3] = c /\ parts[4] = d
  OBVIOUS
<1> HIDE DEF whole, parts
<1>3. whole = parts
  BY <1>1, <1>2, SeqEqual
<1> QED BY <1>1, <1>3 DEF whole, parts

\* Characters appended one by one.
LEMMA AppendChars ==
  ASSUME NEW C, NEW text \in Seq(C), NEW a \in C, NEW b \in C, NEW c \in C, NEW d \in C
  PROVE  Append(Append(Append(Append(text, a), b), c), d) = text \o <<a, b, c, d>>
<1> DEFINE left == Append(Append(Append(Append(text, a), b), c), d)
           tail == <<a, b, c, d>>
           right == text \o tail
           n == Len(text)
<1>0. n \in Nat
  OBVIOUS
<1>1. /\ left \in Seq(C) /\ Len(left) = n + 4 /\ \A i \in 1 .. n : left[i] = text[i]
      /\ left[n + 1] = a /\ left[n + 2] = b /\ left[n + 3] = c /\ left[n + 4] = d
  OBVIOUS
<1>2. /\ tail \in Seq(C) /\ Len(tail) = 4
      /\ tail[1] = a /\ tail[2] = b /\ tail[3] = c /\ tail[4] = d
  OBVIOUS
<1> HIDE DEF tail
<1>3. /\ right \in Seq(C) /\ Len(right) = n + 4 /\ \A i \in 1 .. n : right[i] = text[i]
      /\ right[n + 1] = tail[1] /\ right[n + 2] = tail[2]
      /\ right[n + 3] = tail[3] /\ right[n + 4] = tail[4]
  <2>1. /\ right \in Seq(C) /\ Len(right) = Len(text) + Len(tail)
        /\ \A i \in 1 .. Len(text) + Len(tail) :
             right[i] = IF i <= Len(text) THEN text[i] ELSE tail[i - Len(text)]
    BY <1>2, ConcatProperties, Zenon
  <2> HIDE DEF right, n
  <2>2. \A i \in 1 .. n + 4 : right[i] = IF i <= n THEN text[i] ELSE tail[i - n]
    BY <1>2, <2>1 DEF n
  <2>3. ASSUME NEW j \in 1 .. 4 PROVE right[n + j] = tail[j]
    <3>1. n + j \in 1 .. n + 4 /\ ~(n + j <= n) /\ (n + j) - n = j
      BY <1>0
    <3> QED BY <2>2, <3>1
  <2>4. \A i \in 1 .. n : right[i] = text[i]
    BY <1>0, <2>2
  <2>5. Len(right) = n + 4
    BY <1>2, <2>1 DEF n
  <2>6. 1 \in 1 .. 4 /\ 2 \in 1 .. 4 /\ 3 \in 1 .. 4 /\ 4 \in 1 .. 4
    OBVIOUS
  <2>7. right[n + 1] = tail[1] /\ right[n + 2] = tail[2] /\ right[n + 3] = tail[3] /\ right[n + 4] = tail[4]
    BY <2>3, <2>6, Zenon
  <2> QED BY <2>1, <2>4, <2>5, <2>6, <2>7
<1> HIDE DEF left, right, n
<1>4. ASSUME NEW i \in 1 .. n + 4 PROVE left[i] = right[i]
  <2>1. CASE i \in 1 .. n
    BY <1>1, <1>3, <2>1
  <2>2. CASE i \in {n + 1, n + 2, n + 3, n + 4}
    BY <1>0, <1>1, <1>2, <1>3, <2>2
  <2> QED BY <1>0, <2>1, <2>2
<1>5. left = right
  BY <1>1, <1>3, <1>4, SeqEqual
<1> QED BY <1>5 DEF left, right, tail

\* Three characters, and four, from none.
LEMMA AppendedThree ==
  ASSUME NEW C, NEW a \in C, NEW b \in C, NEW c \in C
  PROVE  Append(Append(Append(<<>>, a), b), c) = <<a, b, c>>
<1> DEFINE left == Append(Append(Append(<<>>, a), b), c)
           right == <<a, b, c>>
<1>1. left \in Seq(C) /\ Len(left) = 3 /\ left[1] = a /\ left[2] = b /\ left[3] = c
  OBVIOUS
<1>2. right \in Seq(C) /\ Len(right) = 3 /\ right[1] = a /\ right[2] = b /\ right[3] = c
  OBVIOUS
<1> HIDE DEF left, right
<1>3. left = right
  BY <1>1, <1>2, SeqEqual
<1> QED BY <1>3 DEF left, right

LEMMA AppendedChars ==
  ASSUME NEW C, NEW a \in C, NEW b \in C, NEW c \in C, NEW d \in C
  PROVE  Append(Append(Append(Append(<<>>, a), b), c), d) = <<a, b, c, d>>
<1> DEFINE left == Append(Append(Append(Append(<<>>, a), b), c), d)
           right == <<a, b, c, d>>
<1>1. left \in Seq(C) /\ Len(left) = 4 /\ left[1] = a /\ left[2] = b /\ left[3] = c /\ left[4] = d
  OBVIOUS
<1>2. right \in Seq(C) /\ Len(right) = 4 /\ right[1] = a /\ right[2] = b /\ right[3] = c /\ right[4] = d
  OBVIOUS
<1> HIDE DEF left, right
<1>3. left = right
  BY <1>1, <1>2, SeqEqual
<1> QED BY <1>3 DEF left, right

\* A text that is one character longer, and its prefixes.
LEMMA LongerText ==
  ASSUME NEW C, NEW text \in Seq(C), NEW ch \in C
  PROVE  LET longer == Append(text, ch) IN
         /\ longer \in Seq(C) /\ Len(longer) = Len(text) + 1 /\ Len(text) \in Nat
         /\ DOMAIN longer = 1 .. Len(text) + 1 /\ DOMAIN text = 1 .. Len(text)
         /\ longer[Len(text) + 1] = ch
         /\ \A i \in 1 .. Len(text) :
              longer[i] = text[i] /\ SubSeq(longer, 1, i) = SubSeq(text, 1, i)
         /\ SubSeq(longer, 1, Len(text) + 1) = longer
<1> DEFINE longer == Append(text, ch)
<1>1. /\ longer \in Seq(C) /\ Len(longer) = Len(text) + 1 /\ Len(text) \in Nat
      /\ DOMAIN longer = 1 .. Len(text) + 1 /\ DOMAIN text = 1 .. Len(text)
      /\ longer[Len(text) + 1] = ch
      /\ \A i \in 1 .. Len(text) : longer[i] = text[i]
  OBVIOUS
<1> HIDE DEF longer
<1>2. ASSUME NEW i \in 1 .. Len(text) PROVE SubSeq(longer, 1, i) = SubSeq(text, 1, i)
  BY <1>1
<1>3. SubSeq(longer, 1, Len(text) + 1) = longer
  BY <1>1
<1> QED BY <1>1, <1>2, <1>3 DEF longer

\* A text is a prefix of every longer one that begins with it.
LEMMA PrefixOfConcat ==
  ASSUME NEW C, NEW s \in Seq(C), NEW t \in Seq(C)
  PROVE  IsPrefix(s, s \o t)
<1> DEFINE whole == s \o t
<1>1. /\ whole \in Seq(C) /\ Len(whole) = Len(s) + Len(t) /\ Len(s) \in Nat /\ Len(t) \in Nat
      /\ \A i \in 1 .. Len(s) : whole[i] = s[i]
  OBVIOUS
<1> HIDE DEF whole
<1>2. SubSeq(s, 1, Len(s)) = SubSeq(whole, 1, Len(s))
  <2>1. SubSeq(s, 1, Len(s)) = [i \in 1 .. Len(s) |-> s[i]]
    BY <1>1
  <2>2. SubSeq(whole, 1, Len(s)) = [i \in 1 .. Len(s) |-> whole[i]]
    BY <1>1
  <2> QED BY <1>1, <2>1, <2>2
<1>3. Len(s) <= Len(whole)
  BY <1>1
<1> QED BY <1>2, <1>3 DEF IsPrefix, whole

\* Where the parts of a text are: a front, one character, and the rest.
LEMMA PartsOfText ==
  ASSUME NEW C, NEW front \in Seq(C), NEW ch \in C, NEW rest \in Seq(C)
  PROVE  LET whole == front \o (<<ch>> \o rest) IN
         /\ whole \in Seq(C) /\ Len(whole) = Len(front) + 1 + Len(rest)
         /\ \A i \in 1 .. Len(front) : whole[i] = front[i]
         /\ whole[Len(front) + 1] = ch
         /\ \A i \in 1 .. Len(rest) : whole[Len(front) + 1 + i] = rest[i]
         /\ SubSeq(whole, Len(front) + 2, Len(whole)) = rest
<1> DEFINE n == Len(front)
           k == Len(rest)
           tail == <<ch>> \o rest
           whole == front \o tail
<1>0. n \in Nat /\ k \in Nat
  OBVIOUS
<1>1. /\ tail \in Seq(C) /\ Len(tail) = k + 1 /\ tail[1] = ch
      /\ \A i \in 1 .. k : tail[i + 1] = rest[i]
  OBVIOUS
<1> HIDE DEF tail
<1>2. /\ front \o tail \in Seq(C) /\ Len(front \o tail) = Len(front) + Len(tail)
      /\ \A i \in 1 .. Len(front) + Len(tail) :
           (front \o tail)[i] = IF i <= Len(front) THEN front[i] ELSE tail[i - Len(front)]
  BY <1>1, ConcatProperties, Zenon
<1>3. whole = front \o tail
  OBVIOUS
<1> HIDE DEF n, k, whole
<1>4. whole \in Seq(C) /\ Len(whole) = n + 1 + k
  BY <1>0, <1>1, <1>2, <1>3 DEF n
<1>5. \A i \in 1 .. n + 1 + k : whole[i] = IF i <= n THEN front[i] ELSE tail[i - n]
  BY <1>0, <1>1, <1>2, <1>3 DEF n
<1>6. \A i \in 1 .. n : whole[i] = front[i]
  <2>1. ASSUME NEW i \in 1 .. n PROVE whole[i] = front[i]
    <3>1. i \in 1 .. n + 1 + k /\ i <= n
      BY <1>0
    <3> QED BY <1>5, <3>1
  <2> QED BY <2>1
<1>7. whole[n + 1] = ch
  <2>1. n + 1 \in 1 .. n + 1 + k /\ ~(n + 1 <= n) /\ (n + 1) - n = 1
    BY <1>0
  <2> QED BY <1>1, <1>5, <2>1
<1>8. ASSUME NEW i \in 1 .. k PROVE whole[n + 1 + i] = rest[i]
  <2>1. n + 1 + i \in 1 .. n + 1 + k /\ ~(n + 1 + i <= n) /\ (n + 1 + i) - n = i + 1
    BY <1>0
  <2> QED BY <1>1, <1>5, <2>1
<1>9. SubSeq(whole, n + 2, Len(whole)) = rest
  <2> DEFINE part == SubSeq(whole, n + 2, Len(whole))
  <2>1. part \in Seq(C) /\ Len(part) = k /\ \A i \in 1 .. k : part[i] = whole[n + 1 + i]
    <3>0. /\ \A i \in n + 2 .. Len(whole) : i \in 1 .. Len(whole)
          /\ Len(whole) \in Nat /\ n + 2 \in Nat
          /\ IF n + 2 <= Len(whole) + 1 THEN Len(whole) - (n + 2) + 1 = k ELSE FALSE
          /\ \A i \in 1 .. k : (n + 2) + i - 1 = n + 1 + i
      BY <1>0, <1>4
    <3>1. /\ part \in Seq(C) /\ Len(part) = Len(whole) - (n + 2) + 1
          /\ \A i \in 1 .. Len(part) : part[i] = whole[(n + 2) + i - 1]
      BY <1>4, <3>0, SubSeqProperties
    <3> HIDE DEF part
    <3> QED BY <3>0, <3>1
  <2> HIDE DEF part
  <2>2. \A i \in 1 .. k : part[i] = rest[i]
    BY <1>8, <2>1
  <2>3. part = rest
    BY <2>1, <2>2, SeqEqual DEF k
  <2> QED BY <2>3 DEF part
<1> QED BY <1>4, <1>6, <1>7, <1>8, <1>9 DEF n, k, whole, tail

-----------------------------------------------------------------------------
(* Recursion: a function defined over its own values exists, and its values *)
(* are the only ones.                                                       *)

\* The ways to go on from a value at each of the places up to n, and the
\* functions that start from a base and go on in one of them.
Steps(S, n) == [S \X (1 .. n) -> S]
Follows(f, base, n, step) ==
  f[0] = base /\ \A i \in 1 .. n : f[i] = step[<<f[i - 1], i>>]

LEMMA RecursionExists ==
  ASSUME NEW S, NEW base \in S, NEW n \in Nat, NEW step \in Steps(S, n)
  PROVE  \E f \in [0 .. n -> S] : Follows(f, base, n, step)
<1> USE DEF Follows
<1> DEFINE Reached ==
             {k \in Nat : k <= n => \E f \in [0 .. k -> S] : Follows(f, base, k, step)}
<1>0. step \in [S \X (1 .. n) -> S]
  BY DEF Steps
<1>1. 0 \in Reached
  <2> DEFINE f == [i \in 0 .. 0 |-> base]
  <2>1. f \in [0 .. 0 -> S] /\ Follows(f, base, 0, step)
    OBVIOUS
  <2> QED BY <2>1
<1>2. ASSUME NEW k \in Nat, k \in Reached PROVE k + 1 \in Reached
  <2> SUFFICES ASSUME k + 1 <= n 
                 PROVE  \E g \in [0 .. k + 1 -> S] : Follows(g, base, k + 1, step)
    OBVIOUS
  <2>1. PICK f \in [0 .. k -> S] : Follows(f, base, k, step)
    BY <1>2
  <2> DEFINE g == [i \in 0 .. k + 1 |-> IF i <= k THEN f[i] ELSE step[<<f[k], k + 1>>]]
  <2>2. step[<<f[k], k + 1>>] \in S
    BY <1>0
  <2>3. g \in [0 .. k + 1 -> S]
    BY <2>2
  <2>4. g[0] = base
    BY <2>1
  <2>5. ASSUME NEW i \in 1 .. k + 1
        PROVE  g[i] = step[<<g[i - 1], i>>]
    <3>1. CASE i \in 1 .. k
      <4>1. f[i] = step[<<f[i - 1], i>>]
        BY <2>1, <3>1
      <4>2. g[i] = f[i] /\ g[i - 1] = f[i - 1]
        BY <3>1
      <4> HIDE DEF g
      <4> QED BY <4>1, <4>2
    <3>2. CASE i = k + 1
      <4>1. g[i] = step[<<f[k], k + 1>>] /\ g[i - 1] = f[k]
        BY <3>2
      <4> HIDE DEF g
      <4> QED BY <3>2, <4>1
    <3> QED BY <3>1, <3>2
  <2> HIDE DEF g
  <2> QED BY <2>3, <2>4, <2>5
<1> HIDE DEF Reached
<1>3. n \in Reached
  BY <1>1, <1>2, NumbersByInduction
<1> QED BY <1>3 DEF Reached

\* Two functions that start with one value and go on in the same way agree.
GoAlike(f, g, n) ==
  f[0] = g[0] /\ \A i \in 1 .. n : f[i - 1] = g[i - 1] => f[i] = g[i]

LEMMA RecursionsAgree ==
  ASSUME NEW n \in Nat, NEW f, NEW g, GoAlike(f, g, n)
  PROVE  \A i \in 0 .. n : f[i] = g[i]
<1> USE DEF GoAlike
<1> DEFINE Agreed == {k \in Nat : k <= n => f[k] = g[k]}
<1>1. 0 \in Agreed
  OBVIOUS
<1>2. ASSUME NEW k \in Nat, k \in Agreed PROVE k + 1 \in Agreed
  <2> SUFFICES ASSUME k + 1 <= n PROVE f[k + 1] = g[k + 1]
    OBVIOUS
  <2>1. f[k] = g[k] /\ k + 1 \in 1 .. n /\ (k + 1) - 1 = k
    BY <1>2
  <2> QED BY <2>1
<1> HIDE DEF Agreed
<1>3. 0 .. n \subseteq Agreed
  BY <1>1, <1>2, NumbersByInduction
<1> QED BY <1>3 DEF Agreed

-----------------------------------------------------------------------------
(* A loop over a text: from a base, each character leads from one value to  *)
(* the next.  The operators of the model that are loops are shown to be one *)
(* of these, and the lemmas do the rest.                                    *)

Loops(S, C) == [S \X C -> S]
IsLoop(f, op, base, text) ==
  f = [i \in 0 .. Len(text) |-> IF i = 0 THEN base ELSE op[<<f[i - 1], text[i]>>]]
Looped(op, base, text) == (CHOOSE f : IsLoop(f, op, base, text))[Len(text)]
GoesOver(f, op, base, text) ==
  f[0] = base /\ \A i \in 1 .. Len(text) : f[i] = op[<<f[i - 1], text[i]>>]

LEMMA LoopExists ==
  ASSUME NEW S, NEW C, NEW op \in Loops(S, C), NEW base \in S, NEW text \in Seq(C)
  PROVE  \E f \in [0 .. Len(text) -> S] :
           GoesOver(f, op, base, text) /\ Looped(op, base, text) = f[Len(text)]
<1> DEFINE n == Len(text)
           step == [p \in S \X (1 .. n) |-> op[<<p[1], text[p[2]]>>]]
           g == CHOOSE h : IsLoop(h, op, base, text)
<1>0. n \in Nat /\ \A i \in 1 .. n : text[i] \in C
  OBVIOUS
<1>1. \A v \in S, i \in 1 .. n : op[<<v, text[i]>>] \in S
  BY <1>0 DEF Loops
<1>2. step \in Steps(S, n)
  BY <1>1 DEF Steps
<1>3. \A v \in S, i \in 1 .. n : step[<<v, i>>] = op[<<v, text[i]>>]
  OBVIOUS
<1> HIDE DEF step, n
<1>4. PICK f \in [0 .. n -> S] : Follows(f, base, n, step)
  BY <1>0, <1>2, RecursionExists
<1>5. GoesOver(f, op, base, text)
  <2>1. ASSUME NEW i \in 1 .. n PROVE f[i] = op[<<f[i - 1], text[i]>>]
    <3>1. f[i - 1] \in S
      BY <1>0
    <3>2. f[i] = step[<<f[i - 1], i>>]
      BY <1>4 DEF Follows
    <3> QED BY <1>3, <3>1, <3>2
  <2> QED BY <1>4, <2>1 DEF GoesOver, Follows, n
<1>6. IsLoop(f, op, base, text)
  <2> DEFINE value(i) == IF i = 0 THEN base ELSE op[<<f[i - 1], text[i]>>]
  <2>1. \A i \in 0 .. n : f[i] = value(i)
    BY <1>0, <1>5 DEF GoesOver, n
  <2> HIDE DEF value
  <2>2. f = [i \in 0 .. n |-> value(i)]
    BY <2>1
  <2> QED BY <2>2 DEF IsLoop, n, value
<1>7. IsLoop(g, op, base, text)
  BY <1>6
<1> HIDE DEF g
<1>8. GoesOver(g, op, base, text)
  BY <1>0, <1>7 DEF IsLoop, GoesOver, n
<1>9. GoAlike(f, g, n)
  BY <1>5, <1>8 DEF GoesOver, GoAlike, n
<1>10. f[n] = g[n]
  BY <1>0, <1>9, RecursionsAgree
<1> QED BY <1>5, <1>10 DEF Looped, g, n

\* What goes on as a loop does ends as it does.
LEMMA LoopIsUnique ==
  ASSUME NEW S, NEW C, NEW op \in Loops(S, C), NEW base \in S, NEW text \in Seq(C),
         NEW g, g[0] = base,
         \A i \in 1 .. Len(text) : g[i - 1] \in S => g[i] = op[<<g[i - 1], text[i]>>]
  PROVE  g[Len(text)] = Looped(op, base, text)
<1>1. PICK f \in [0 .. Len(text) -> S] :
        GoesOver(f, op, base, text) /\ Looped(op, base, text) = f[Len(text)]
  BY LoopExists
<1>2. ASSUME NEW i \in 1 .. Len(text), f[i - 1] = g[i - 1] PROVE f[i] = g[i]
  <2>1. f[i - 1] \in S
    OBVIOUS
  <2>2. g[i] = op[<<g[i - 1], text[i]>>]
    BY <1>2, <2>1
  <2> QED BY <1>1, <1>2, <2>2 DEF GoesOver
<1>3. GoAlike(f, g, Len(text))
  BY <1>1, <1>2 DEF GoesOver, GoAlike
<1>4. Len(text) \in Nat
  OBVIOUS
<1>5. Len(text) \in 0 .. Len(text)
  BY <1>4
<1> QED BY <1>1, <1>3, <1>4, <1>5, RecursionsAgree

\* A loop over nothing, and over one character more.
LEMMA LoopStep ==
  ASSUME NEW S, NEW C, NEW op \in Loops(S, C), NEW base \in S
  PROVE  /\ Looped(op, base, <<>>) = base
         /\ \A text \in Seq(C) : Looped(op, base, text) \in S
         /\ \A text \in Seq(C), ch \in C :
              Looped(op, base, Append(text, ch)) = op[<<Looped(op, base, text), ch>>]
<1>1. Looped(op, base, <<>>) = base
  <2> DEFINE empty == <<>>
  <2>0. empty \in Seq(C)
    OBVIOUS
  <2>1. Len(empty) = 0
    OBVIOUS
  <2> HIDE DEF empty
  <2>2. PICK f \in [0 .. Len(empty) -> S] :
          GoesOver(f, op, base, empty) /\ Looped(op, base, empty) = f[Len(empty)]
    BY <2>0, LoopExists
  <2>3. Looped(op, base, empty) = base
    BY <2>1, <2>2 DEF GoesOver
  <2> QED BY <2>3 DEF empty
<1>2. ASSUME NEW text \in Seq(C) PROVE Looped(op, base, text) \in S
  <2>1. \E f \in [0 .. Len(text) -> S] : Looped(op, base, text) = f[Len(text)]
    BY LoopExists
  <2>2. Len(text) \in 0 .. Len(text)
    OBVIOUS
  <2> QED BY <2>1, <2>2
<1>3. ASSUME NEW text \in Seq(C), NEW ch \in C
      PROVE  Looped(op, base, Append(text, ch)) = op[<<Looped(op, base, text), ch>>]
  <2> DEFINE longer == Append(text, ch)
             n == Len(text)
  <2>1. PICK f \in [0 .. Len(text) -> S] :
          GoesOver(f, op, base, text) /\ Looped(op, base, text) = f[Len(text)]
    BY LoopExists
  <2>2. longer \in Seq(C) /\ Len(longer) = n + 1 /\ n \in Nat
    OBVIOUS
  <2>3. longer[n + 1] = ch /\ \A i \in 1 .. n : longer[i] = text[i]
    OBVIOUS
  <2> HIDE DEF longer
  <2>4. PICK g \in [0 .. Len(longer) -> S] :
          GoesOver(g, op, base, longer) /\ Looped(op, base, longer) = g[Len(longer)]
    BY <2>2, LoopExists
  <2>5. f[0] = base /\ \A i \in 1 .. n : f[i] = op[<<f[i - 1], text[i]>>]
    BY <2>1 DEF GoesOver
  <2>6. g[0] = base /\ \A i \in 1 .. n + 1 : g[i] = op[<<g[i - 1], longer[i]>>]
    BY <2>2, <2>4 DEF GoesOver
  <2>7. Looped(op, base, text) = f[n] /\ Looped(op, base, longer) = g[n + 1]
    BY <2>1, <2>2, <2>4
  <2> HIDE DEF n
  <2>8. \A i \in 1 .. n : g[i] = op[<<g[i - 1], text[i]>>]
    BY <2>2, <2>3, <2>6
  <2>9. GoAlike(f, g, n)
    BY <2>5, <2>6, <2>8 DEF GoAlike
  <2>10. f[n] = g[n]
    BY <2>2, <2>9, RecursionsAgree
  <2>11. g[n + 1] = op[<<g[n], ch>>]
    BY <2>2, <2>3, <2>6
  <2> QED BY <2>7, <2>10, <2>11 DEF longer
<1> QED BY <1>1, <1>2, <1>3

\* A loop over two texts goes on over the second where it was after the first.
LEMMA LoopConcat ==
  ASSUME NEW S, NEW C, NEW op \in Loops(S, C), NEW base \in S, NEW a \in Seq(C)
  PROVE  \A b \in Seq(C) :
           Looped(op, base, a \o b) = Looped(op, Looped(op, base, a), b)
<1> DEFINE mid == Looped(op, base, a)
           Good == {b \in Seq(C) : Looped(op, base, a \o b) = Looped(op, mid, b)}
<1>0. mid \in S
  BY LoopStep
<1> HIDE DEF mid
<1>1. <<>> \in Good
  <2>1. Looped(op, mid, <<>>) = mid
    BY <1>0, LoopStep
  <2>2. a \o <<>> = a /\ <<>> \in Seq(C)
    OBVIOUS
  <2> QED BY <2>1, <2>2 DEF mid
<1>2. ASSUME NEW b \in Seq(C), NEW ch \in C, b \in Good PROVE Append(b, ch) \in Good
  <2>1. a \o Append(b, ch) = Append(a \o b, ch) /\ a \o b \in Seq(C) /\ Append(b, ch) \in Seq(C)
    OBVIOUS
  <2> DEFINE ab == a \o b
  <2> HIDE DEF ab
  <2>2. Looped(op, base, Append(ab, ch)) = op[<<Looped(op, base, ab), ch>>]
    <3>1. ab \in Seq(C)
      BY <2>1 DEF ab
    <3> QED BY <3>1, LoopStep
  <2>3. Looped(op, mid, Append(b, ch)) = op[<<Looped(op, mid, b), ch>>]
    BY <1>0, LoopStep
  <2> QED BY <1>2, <2>1, <2>2, <2>3 DEF ab
<1> HIDE DEF Good
<1>3. Seq(C) \subseteq Good
  BY <1>1, <1>2, TextsByInduction
<1> QED BY <1>3 DEF Good, mid

\* FlattenSeq, of no text and of one text more.
LEMMA FlattenStep ==
  ASSUME NEW C
  PROVE  /\ FlattenSeq(<<>>) = <<>>
         /\ \A texts \in Seq(Seq(C)), text \in Seq(C) :
              /\ FlattenSeq(texts) \in Seq(C)
              /\ FlattenSeq(Append(texts, text)) = FlattenSeq(texts) \o text
<1> DEFINE op == [p \in Seq(C) \X Seq(C) |-> p[1] \o p[2]]
           Texts == Seq(C)
           empty == <<>>
<1>1. op \in Loops(Texts, Texts) /\ empty \in Texts
  BY DEF Loops
<1>2. \A a, b \in Texts : op[<<a, b>>] = a \o b
  OBVIOUS
<1>3. FlattenSeq(<<>>) = <<>>
  BY DEF FlattenSeq
<1>6. /\ \A b \in Texts : empty \o b = b
      /\ \A texts \in Seq(Texts) : Len(texts) = 0 => texts = empty
  OBVIOUS
<1>7. \A texts \in Seq(Texts), text \in Texts : Append(texts, text) \in Seq(Texts)
  OBVIOUS
<1>8. Texts = Seq(C)
  OBVIOUS
<1> HIDE DEF op, Texts, empty
<1>4. ASSUME NEW texts \in Seq(Texts) PROVE FlattenSeq(texts) = Looped(op, empty, texts)
  <2> DEFINE n == Len(texts)
             IsFlat(h) ==
               h = [i \in 1 .. n |-> IF i = 1 THEN texts[i] ELSE h[i - 1] \o texts[i]]
             flat == CHOOSE h : IsFlat(h)
             g == [i \in 0 .. n |-> IF i = 0 THEN empty ELSE flat[i]]
  <2>0. n \in Nat /\ \A i \in 1 .. n : texts[i] \in Texts
    OBVIOUS
  <2>1. CASE n = 0
    <3>1. texts = empty
      BY <1>6, <2>1
    <3>2. Looped(op, empty, empty) = empty
      <4>1. Looped(op, empty, <<>>) = empty
        BY <1>1, LoopStep
      <4> QED BY <4>1 DEF empty
    <3>3. FlattenSeq(empty) = empty
      BY <1>3 DEF empty
    <3> QED BY <3>1, <3>2, <3>3
  <2>2. CASE n # 0
    <3>1. PICK f \in [0 .. Len(texts) -> Texts] :
            GoesOver(f, op, empty, texts) /\ Looped(op, empty, texts) = f[Len(texts)]
      BY <1>1, LoopExists
    <3>2. f[0] = empty /\ \A i \in 1 .. n : f[i] = f[i - 1] \o texts[i]
      <4>1. ASSUME NEW i \in 1 .. n PROVE f[i] = f[i - 1] \o texts[i]
        <5>1. f[i - 1] \in Texts /\ texts[i] \in Texts
          BY <2>0
        <5>2. f[i] = op[<<f[i - 1], texts[i]>>]
          BY <3>1 DEF GoesOver
        <5> QED BY <1>2, <5>1, <5>2
      <4> QED BY <3>1, <4>1 DEF GoesOver
    <3>3. \E h : IsFlat(h)
      <4> DEFINE h == [i \in 1 .. n |-> f[i]]
      <4>0. f[1] = texts[1]
        <5>1. f[1] = f[0] \o texts[1] /\ texts[1] \in Texts
          <6>1. 1 \in 1 .. n /\ 1 - 1 = 0
            BY <2>0, <2>2
          <6> HIDE DEF n, h
          <6> QED BY <2>0, <3>2, <6>1
        <5> QED BY <1>6, <3>2, <5>1
      <4>1. ASSUME NEW i \in 1 .. n
            PROVE  h[i] = IF i = 1 THEN texts[i] ELSE h[i - 1] \o texts[i]
        <5>1. CASE i = 1
          BY <4>0, <5>1
        <5>2. CASE i # 1
          <6>1. i - 1 \in 1 .. n /\ h[i - 1] = f[i - 1] /\ h[i] = f[i]
            BY <2>0, <5>2
          <6> HIDE DEF h
          <6> QED BY <3>2, <5>2, <6>1
        <5> QED BY <5>1, <5>2
      <4> DEFINE value(i) == IF i = 1 THEN texts[i] ELSE h[i - 1] \o texts[i]
      <4>2. h = [i \in 1 .. n |-> h[i]]
        OBVIOUS
      <4> HIDE DEF h
      <4>3. \A i \in 1 .. n : h[i] = value(i)
        BY <4>1
      <4> HIDE DEF value
      <4>4. h = [i \in 1 .. n |-> value(i)]
        BY <4>2, <4>3
      <4> QED BY <4>4 DEF value
    <3>4. IsFlat(flat)
      BY <3>3
    <3>5. FlattenSeq(texts) = flat[n]
      BY <2>2 DEF FlattenSeq
    <3> HIDE DEF flat
    <3>6. \A i \in 1 .. n : flat[i] = IF i = 1 THEN texts[i] ELSE flat[i - 1] \o texts[i]
      BY <3>4
    <3>7. g[0] = empty /\ \A i \in 1 .. n : g[i] = flat[i]
      BY <2>0
    <3> HIDE DEF g, IsFlat
    <3>8. ASSUME NEW i \in 1 .. n, g[i - 1] \in Texts
          PROVE  g[i] = op[<<g[i - 1], texts[i]>>]
      <4>1. g[i] = g[i - 1] \o texts[i]
        <5>1. CASE i = 1
          <6>1. g[i] = texts[1] /\ g[i - 1] = empty /\ texts[1] \in Texts
            BY <2>0, <3>6, <3>7, <5>1
          <6> QED BY <1>6, <5>1, <6>1
        <5>2. CASE i # 1
          <6>1. i - 1 \in 1 .. n
            BY <2>0, <5>2
          <6> QED BY <3>6, <3>7, <5>2, <6>1
        <5> QED BY <5>1, <5>2
      <4> QED BY <1>2, <2>0, <3>8, <4>1
    <3>9. g[Len(texts)] = Looped(op, empty, texts)
      BY <1>1, <3>7, <3>8, LoopIsUnique
    <3>10. g[n] = flat[n]
      BY <2>0, <2>2, <3>7
    <3> QED BY <3>5, <3>9, <3>10
  <2> QED BY <2>1, <2>2
<1>5. ASSUME NEW texts \in Seq(Texts), NEW text \in Texts
      PROVE  /\ FlattenSeq(texts) \in Texts
             /\ FlattenSeq(Append(texts, text)) = FlattenSeq(texts) \o text
  <2>1. /\ Looped(op, empty, texts) \in Texts
        /\ Looped(op, empty, Append(texts, text)) = op[<<Looped(op, empty, texts), text>>]
    BY <1>1, LoopStep
  <2>2. Append(texts, text) \in Seq(Texts)
    BY <1>7
  <2>3. FlattenSeq(Append(texts, text)) = Looped(op, empty, Append(texts, text))
    BY <1>4, <2>2
  <2> QED BY <1>2, <1>4, <2>1, <2>3
<1> QED BY <1>3, <1>5, <1>8

\* A loop over up to three characters.
LEMMA LoopFew ==
  ASSUME NEW S, NEW C, NEW op \in Loops(S, C), NEW base \in S
  PROVE  /\ \A a \in C : Looped(op, base, <<a>>) = op[<<base, a>>]
         /\ \A a, b \in C : Looped(op, base, <<a, b>>) = op[<<op[<<base, a>>], b>>]
         /\ \A a, b, c \in C :
              Looped(op, base, <<a, b, c>>) = op[<<op[<<op[<<base, a>>], b>>], c>>]
<1> DEFINE empty == <<>>
<1>0. empty \in Seq(C) /\ Looped(op, base, empty) = base
  BY LoopStep
<1> HIDE DEF empty
<1>1. ASSUME NEW a \in C PROVE Looped(op, base, <<a>>) = op[<<base, a>>]
  <2>1. Append(empty, a) = <<a>>
    BY OneChar DEF empty
  <2>2. Looped(op, base, Append(empty, a)) = op[<<Looped(op, base, empty), a>>]
    BY <1>0, LoopStep
  <2> QED BY <1>0, <2>1, <2>2
<1>2. ASSUME NEW front \in Seq(C), NEW ch \in C
      PROVE  Looped(op, base, front \o <<ch>>) = op[<<Looped(op, base, front), ch>>]
  <2>1. front \o <<ch>> = Append(front, ch)
    OBVIOUS
  <2>2. Looped(op, base, Append(front, ch)) = op[<<Looped(op, base, front), ch>>]
    BY LoopStep
  <2> QED BY <2>1, <2>2, Zenon
<1>3. ASSUME NEW a \in C, NEW b \in C
      PROVE  Looped(op, base, <<a, b>>) = op[<<op[<<base, a>>], b>>]
  <2>1. <<a>> \in Seq(C)
    BY OneChar
  <2>2. <<a, b>> = <<a>> \o <<b>>
    BY TwoChars, Zenon
  <2>3. Looped(op, base, <<a>> \o <<b>>) = op[<<Looped(op, base, <<a>>), b>>]
    BY <1>2, <2>1
  <2>4. Looped(op, base, <<a>>) = op[<<base, a>>]
    BY <1>1
  <2> QED BY <2>2, <2>3, <2>4, Zenon
<1>4. ASSUME NEW a \in C, NEW b \in C, NEW c \in C
      PROVE  Looped(op, base, <<a, b, c>>) = op[<<op[<<op[<<base, a>>], b>>], c>>]
  <2>1. <<a, b>> \in Seq(C)
    BY TwoChars
  <2>2. <<a, b, c>> = <<a, b>> \o <<c>>
    BY ThreeChars, Zenon
  <2>3. Looped(op, base, <<a, b>> \o <<c>>) = op[<<Looped(op, base, <<a, b>>), c>>]
    BY <1>2, <2>1
  <2>4. Looped(op, base, <<a, b>>) = op[<<op[<<base, a>>], b>>]
    BY <1>3
  <2> QED BY <2>2, <2>3, <2>4, Zenon
<1> QED BY <1>1, <1>3, <1>4

-----------------------------------------------------------------------------
(* Texts in which each character of a message is a code.  If the code of   *)
(* every character takes a loop from where it stands after a message to    *)
(* where it stands after the longer one, the codes of a message take it    *)
(* from the one before the first to the one after the last.                *)

IsCoded(Codes, message, texts) ==
  /\ Len(message) = Len(texts)
  /\ \A i \in 1 .. Len(texts) : <<message[i], texts[i]>> \in Codes

Carries(Codes, A, C, op, at) ==
  \A message \in Seq(A), ch \in A, code \in Seq(C) :
    <<ch, code>> \in Codes => Looped(op, at[message], code) = at[Append(message, ch)]

CodesLead(Codes, A, C, op, at) ==
  \A texts \in Seq(Seq(C)), message \in Seq(A) :
    IsCoded(Codes, message, texts) =>
      /\ FlattenSeq(texts) \in Seq(C)
      /\ Looped(op, at[<<>>], FlattenSeq(texts)) = at[message]

LEMMA CodedTexts ==
  ASSUME NEW S, NEW C, NEW op \in Loops(S, C), NEW A, NEW at \in [Seq(A) -> S],
         NEW Codes \in SUBSET (A \X Seq(C)), Carries(Codes, A, C, op, at)
  PROVE  CodesLead(Codes, A, C, op, at)
<1> DEFINE empty == <<>>
           Texts == Seq(C)
           Messages == Seq(A)
           Good == {texts \in Seq(Texts) :
                      \A message \in Messages :
                        IsCoded(Codes, message, texts) =>
                          Looped(op, at[empty], FlattenSeq(texts)) = at[message]}
<1>0. /\ empty \in Messages /\ at[empty] \in S
      /\ \A message \in Messages : Len(message) = 0 => message = empty
      /\ Len(empty) = 0 /\ empty \in Seq(Texts)
  <2>1. empty \in Seq(A) /\ Len(empty) = 0 /\ empty \in Seq(Seq(C))
    OBVIOUS
  <2>2. \A message \in Seq(A) : Len(message) = 0 => message = empty
    OBVIOUS
  <2> HIDE DEF empty
  <2>3. at[empty] \in S
    BY <2>1
  <2> QED BY <2>1, <2>2, <2>3
<1>1. empty \in Good
  <2>1. FlattenSeq(empty) = empty
    BY FlattenStep
  <2>2. Looped(op, at[empty], empty) = at[empty]
    <3>1. Looped(op, at[empty], <<>>) = at[empty]
      <4> HIDE DEF empty
      <4> QED BY <1>0, LoopStep
    <3> QED BY <3>1
  <2> HIDE DEF empty, Texts, Messages
  <2> QED BY <1>0, <2>1, <2>2 DEF IsCoded
<1>2. ASSUME NEW texts \in Seq(Texts), NEW text \in Texts, texts \in Good
      PROVE  Append(texts, text) \in Good
  <2> DEFINE longer == Append(texts, text)
             n == Len(texts)
  <2>1. /\ longer \in Seq(Texts) /\ Len(longer) = n + 1 /\ n \in Nat /\ longer[n + 1] = text
        /\ \A i \in 1 .. n : longer[i] = texts[i]
    OBVIOUS
  <2>2. FlattenSeq(texts) \in Texts /\ FlattenSeq(longer) = FlattenSeq(texts) \o text
    BY FlattenStep
  <2> HIDE DEF longer, empty
  <2>3. ASSUME NEW message \in Messages, IsCoded(Codes, message, longer)
        PROVE  Looped(op, at[empty], FlattenSeq(longer)) = at[message]
    <3> DEFINE front == SubSeq(message, 1, n)
               ch == message[n + 1]
    <3>1. Len(message) = n + 1 /\ <<ch, text>> \in Codes
      <4>1. n + 1 \in 1 .. n + 1
        BY <2>1
      <4> HIDE DEF n
      <4> QED BY <2>1, <2>3, <4>1 DEF IsCoded
    <3>2. /\ front \in Messages /\ Len(front) = n /\ \A i \in 1 .. n : front[i] = message[i]
          /\ ch \in A /\ message = Append(front, ch)
      <4>1. /\ front \in Messages /\ Len(front) = n /\ \A i \in 1 .. n : front[i] = message[i]
            /\ ch \in A
        BY <2>1, <3>1
      <4>2. message = Append(front, ch)
        BY <2>1, <3>1, <4>1
      <4> QED BY <4>1, <4>2
    <3> HIDE DEF front, ch
    <3>3. IsCoded(Codes, front, texts)
      <4>1. \A i \in 1 .. n : i \in 1 .. n + 1
        BY <2>1
      <4> HIDE DEF n
      <4>2. \A i \in 1 .. n : <<message[i], longer[i]>> \in Codes
        BY <2>1, <2>3, <4>1 DEF IsCoded
      <4>3. \A i \in 1 .. n : <<front[i], texts[i]>> \in Codes
        BY <2>1, <3>2, <4>2
      <4> QED BY <3>2, <4>3 DEF IsCoded, n
    <3>4. Looped(op, at[empty], FlattenSeq(texts)) = at[front]
      BY <1>2, <3>2, <3>3
    <3>5. Looped(op, at[front], text) = at[message]
      BY <3>1, <3>2 DEF Carries
    <3>6. Looped(op, at[empty], FlattenSeq(texts) \o text)
            = Looped(op, Looped(op, at[empty], FlattenSeq(texts)), text)
      BY <1>0, <2>2, LoopConcat
    <3> QED BY <2>2, <3>4, <3>5, <3>6
  <2> QED BY <2>1, <2>3 DEF longer
<1> HIDE DEF Good
<1>3. Seq(Texts) \subseteq Good
  <2>1. <<>> \in Good
    BY <1>1
  <2> HIDE DEF Texts, empty
  <2> QED BY <1>2, <2>1, TextsByInduction
<1>4. \A texts \in Seq(Texts) : FlattenSeq(texts) \in Texts
  BY FlattenStep
<1> QED BY <1>3, <1>4 DEF Good, CodesLead
=============================================================================
