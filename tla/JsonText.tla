------------------------------ MODULE JsonText ------------------------------
(***************************************************************************)
(* The strings and numbers of JSON (json.cpp), character by character.  A  *)
(* string is made of a letter, a character beyond ASCII, the quote, the    *)
(* backslash, the slash, a control character that has a short escape and   *)
(* one that has none; the four digits of \u are one symbol.                *)
(***************************************************************************)
EXTENDS Integers, Sequences, SequencesExt

\* peek at a position; "" is the end of the text.
Peek(text, i) == IF i \in 1 .. Len(text) THEN text[i] ELSE ""

-----------------------------------------------------------------------------
(* parse_number, as the position after the number, 0 when it throws.  The  *)
(* characters are "0", "1", "-", "+", "." and "e".                         *)

Digits == {"0", "1"}

\* match: the position after the character, or the same position.
Match(text, i, expected) == IF Peek(text, i) \in expected THEN i + 1 ELSE i

\* The loop of consume_digits ends at the first that is none.
SkipDigits(text, i) ==
  CHOOSE j \in i .. Len(text) + 1 :
    Peek(text, j) \notin Digits /\ \A k \in i .. j - 1 : Peek(text, k) \in Digits

\* consume_digits throws unless there is one; a failure is passed on.
ConsumeDigits(text, i) ==
  IF i # 0 /\ Peek(text, i) \in Digits THEN SkipDigits(text, i) ELSE 0

ExponentStart(text, i) == Match(text, Match(text, i + 1, {"+"}), {"-"})

NumberEnd(text) ==
  LET whole == ConsumeDigits(text, Match(text, 1, {"-"}))
      fraction == IF whole # 0 /\ Peek(text, whole) = "."
                  THEN ConsumeDigits(text, whole + 1) ELSE whole
  IN  IF fraction # 0 /\ Peek(text, fraction) = "e"
      THEN ConsumeDigits(text, ExponentStart(text, fraction)) ELSE fraction

-----------------------------------------------------------------------------
(* Strings. *)

Controls == {"LF", "BEL"}
Characters == {"n", "O", "?", "quote", "backslash", "/"} \cup Controls

\* The control character of a letter after the backslash, and the character
\* of the four digits after \u.
Short == [esc \in {"n"} |-> "LF"]
Hex ==
  [hex \in {"000a", "0007", "041e", "006e"} |->
     CASE hex = "000a" -> "LF" [] hex = "0007" -> "BEL"
       [] hex = "041e" -> "O"  [] hex = "006e" -> "n"]

HexOf(ch) == CHOOSE hex \in DOMAIN Hex : Hex[hex] = ch

\* Mutant: a backslash is written as it is.
EscapeCharQuoteOnly(ch) ==
  CASE ch = "quote" -> <<"backslash", ch>>
    [] ch = "LF" -> <<"backslash", "n">>
    [] ch = "BEL" -> <<"backslash", "u", HexOf(ch)>>
    [] OTHER -> <<ch>>

EscapeChar(ch) ==
  CASE ch \in {"quote", "backslash"} -> <<"backslash", ch>>
    [] ch = "LF" -> <<"backslash", "n">>
    [] ch \in Controls \ {"LF"} -> <<"backslash", "u", HexOf(ch)>>
    [] OTHER -> <<ch>>

EscapeJson(value) == FlattenSeq([i \in DOMAIN value |-> EscapeChar(value[i])])

\* Where parse_string stands, after the opening quote, with what it has read:
\* between two characters, after a backslash or after \u; it has returned, or
\* thrown.
Reading(at, out) == [at |-> at, out |-> out]

\* What it does with the next character.  The digits of \u are checked and
\* dropped.
ReadChar(reading, ch) ==
  CASE reading.at = "text" ->
         IF ch = "quote" THEN Reading("end", reading.out)
         ELSE IF ch = "backslash" THEN Reading("escape", reading.out)
         ELSE Reading("text", Append(reading.out, ch))
    [] reading.at = "escape" ->
         IF ch \in {"quote", "backslash", "/"} THEN Reading("text", Append(reading.out, ch))
         ELSE IF ch \in DOMAIN Short THEN Reading("text", Append(reading.out, Short[ch]))
         ELSE IF ch = "u" THEN Reading("code", reading.out)
         ELSE Reading("throws", <<>>)
    [] reading.at = "code" ->
         IF ch \in DOMAIN Hex THEN Reading("text", Append(reading.out, "?"))
         ELSE Reading("throws", <<>>)
    [] OTHER -> reading

ReadText(text) ==
  LET reading[i \in 0 .. Len(text)] ==
        IF i = 0 THEN Reading("text", <<>>) ELSE ReadChar(reading[i - 1], text[i])
  IN  reading[Len(text)]

BadString == <<"throws">>

\* The end of the text throws as well.
ParseString(text) == IF ReadText(text).at = "end" THEN ReadText(text).out ELSE BadString
=============================================================================
