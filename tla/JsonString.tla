------------------------------ MODULE JsonString ------------------------------
(***************************************************************************)
(* One string of the configuration as src/supervisor/api_server.cc writes  *)
(* it (EscapeJsonString, for GET and for error messages) and reads it      *)
(* (ConfigJsonParser::ParseString, for PUT).  A string is a sequence of    *)
(* bytes.  Each iteration of a loop of the code is one step.               *)
(*                                                                         *)
(* What was accepted is printed again by the next GET, for ever.           *)
(*                                                                         *)
(* A task is either to write a value and to read the result back, or to    *)
(* read a text that was written by somebody else: a sequence of elements,  *)
(* each one way to write a character (or no way at all), in quotes and cut *)
(* off after some bytes.                                                   *)
(***************************************************************************)
EXTENDS Integers, Sequences

CONSTANTS
  Values,    \* the values to write
  Elements,  \* records [text, unit]: what is written, and the code point or
             \* the UTF-16 code unit it stands for, -1 when it has no meaning
  Texts      \* records [elements, cut]

Byte == 0..255
Quote == 34
Backslash == 92
LetterU == 117

Quoted(bytes) == <<Quote>> \o bytes \o <<Quote>>

TextOf(elements) ==
  LET bytes[n \in 0..Len(elements)] ==
        IF n = 0 THEN <<>> ELSE bytes[n - 1] \o elements[n].text
  IN Quoted(bytes[Len(elements)])

VARIABLES
  task,      \* what is to be done; never changes
  input,     \* value of EscapeJsonString, input_ of the parser
  position,  \* position, position_
  output,    \* escaped, value
  pc

vars == <<task, input, position, output, pc>>

Init ==
  /\ \/ \E v \in Values :
          /\ task = [kind |-> "write", value |-> v]
          /\ input = v
          /\ pc = "escape"
     \/ \E t \in Texts :
          /\ task = [kind |-> "read", text |-> t]
          /\ input = SubSeq(TextOf(t.elements), 1, t.cut)
          /\ pc = "open"
  /\ position = 1
  /\ output = <<>>

-----------------------------------------------------------------------------
(* UTF-8 *)

(* The bits of the code point that the first byte of a sequence holds, how *)
(* many bytes follow it and the least code point that needs that many.     *)
Lead(first) ==
  CASE first \in 194..223 -> [length |-> 2, bits |-> first % 32, minimum |-> 128]
    [] first \in 224..239 -> [length |-> 3, bits |-> first % 16, minimum |-> 2048]
    [] first \in 240..244 -> [length |-> 4, bits |-> first % 8, minimum |-> 65536]
    [] OTHER -> [length |-> 0, bits |-> 0, minimum |-> 0]

HighSurrogates == 55296..56319
LowSurrogates == 56320..57343
Surrogates == HighSurrogates \cup LowSurrogates

(* The code point of the sequence at p, whose first byte is as lead says.  *)
CodePointAt(s, p, lead) ==
  LET next(code, i) == (code * 64) + (s[p + i] % 64)
  IN CASE lead.length = 2 -> next(lead.bits, 1)
       [] lead.length = 3 -> next(next(lead.bits, 1), 2)
       [] OTHER -> next(next(next(lead.bits, 1), 2), 3)

(* The length of the UTF-8 sequence at p, 0 when there is none. *)
ValidUtf8SequenceLength(s, p) ==
  LET lead == Lead(s[p])
      length == lead.length
      code == CodePointAt(s, p, lead)
  IN IF /\ length > 0
        /\ p + length - 1 <= Len(s)
        /\ \A i \in 1..length - 1 : s[p + i] \in 128..191
        /\ code >= lead.minimum
        /\ code <= 1114111
        /\ code \notin Surrogates
     THEN length ELSE 0

(* AppendCodePoint *)
Encode(code) ==
  LET low(n) == 128 + ((code \div n) % 64)
  IN CASE code <= 127 -> <<code>>
       [] code >= 128 /\ code <= 2047 -> <<192 + code \div 64, low(1)>>
       [] code >= 2048 /\ code <= 65535 -> <<224 + code \div 4096, low(64), low(1)>>
       [] OTHER -> <<240 + code \div 262144, low(4096), low(64), low(1)>>

-----------------------------------------------------------------------------
(* EscapeJsonString *)

ShortEscapes ==  \* \b \f \n \r \t, and " and \ themselves
  [ch \in {8, 12, 10, 13, 9, Quote, Backslash} |->
     CASE ch = 8 -> 98 [] ch = 12 -> 102 [] ch = 10 -> 110 [] ch = 13 -> 114 [] ch = 9 -> 116
       [] OTHER -> ch]

HexLetter(digit) == IF digit < 10 THEN 48 + digit ELSE 87 + digit

UnicodeEscape(code) ==
  <<Backslash, LetterU>> \o
  [i \in 1..4 |-> HexLetter((code \div <<4096, 256, 16, 1>>[i]) % 16)]

(* Bytes are appended to the output and the position moves on. *)
Emit(bytes, length) ==
  /\ output' = output \o bytes
  /\ position' = position + length
  /\ UNCHANGED <<task, input, pc>>

Here == input[position]

EscapeByte ==
  /\ pc = "escape"
  /\ position <= Len(input)
  /\ \/ /\ Here \in DOMAIN ShortEscapes
        /\ Emit(<<Backslash, ShortEscapes[Here]>>, 1)
     \/ /\ Here < 32 /\ Here \notin DOMAIN ShortEscapes
        /\ Emit(UnicodeEscape(Here), 1)
     \/ /\ Here \in 32..127 /\ Here \notin DOMAIN ShortEscapes
        /\ Emit(<<Here>>, 1)

EscapeSequence ==
  /\ pc = "escape"
  /\ position <= Len(input)
  /\ Here >= 128
  /\ LET length == ValidUtf8SequenceLength(input, position)
     IN IF length = 0
        THEN Emit(UnicodeEscape(65533), 1)
        ELSE Emit(SubSeq(input, position, position + length - 1), length)

(* ConfigToJson puts quotes around it; the parser gets it back. *)
EscapeEnds ==
  /\ pc = "escape"
  /\ position > Len(input)
  /\ input' = Quoted(output)
  /\ output' = <<>>
  /\ position' = 1
  /\ pc' = "open"
  /\ UNCHANGED task

-----------------------------------------------------------------------------
(* ParseString *)

Finish(result) == pc' = result /\ UNCHANGED <<task, input, output>>

ParseOpen ==
  /\ pc = "open"
  /\ IF position <= Len(input) /\ Here = Quote
     THEN Finish("string") /\ position' = position + 1
     ELSE Finish("rejected") /\ UNCHANGED position

ParseClose ==
  /\ pc = "string"
  /\ position <= Len(input)
  /\ Here = Quote
  /\ Finish("accepted")
  /\ position' = position + 1

ParseByte ==
  /\ pc = "string"
  /\ position <= Len(input)
  /\ \/ Here \in 32..127 \ {Quote, Backslash} /\ Emit(<<Here>>, 1)
     \/ Here < 32 /\ Finish("rejected") /\ UNCHANGED position

ParseSequence ==
  /\ pc = "string"
  /\ position <= Len(input)
  /\ Here >= 128
  /\ LET length == ValidUtf8SequenceLength(input, position)
     IN IF length = 0
        THEN Finish("rejected") /\ UNCHANGED position
        ELSE Emit(SubSeq(input, position, position + length - 1), length)

AtEscape(letters) ==
  /\ pc = "string"
  /\ position < Len(input)
  /\ Here = Backslash
  /\ input[position + 1] \in letters

Unescaped ==  \* the same backwards, and /
  [ch \in {98, 102, 110, 114, 116, Quote, Backslash, 47} |->
     CASE ch = 98 -> 8 [] ch = 102 -> 12 [] ch = 110 -> 10 [] ch = 114 -> 13 [] ch = 116 -> 9
       [] OTHER -> ch]

ParseEscape ==
  \/ /\ AtEscape(DOMAIN Unescaped)
     /\ Emit(<<Unescaped[input[position + 1]]>>, 2)
  \/ /\ AtEscape(Byte \ (DOMAIN Unescaped \cup {LetterU}))
     /\ Finish("rejected") /\ UNCHANGED position

HexDigit(ch) ==
  CASE ch \in 48..57 -> ch - 48
    [] ch \in 97..102 -> ch - 87
    [] ch \in 65..70 -> ch - 55
    [] OTHER -> -1

(* ParseHexCodeUnit: the four digits from p on, -1 for an error. *)
HexCodeUnit(s, p) ==
  LET digit(i) == HexDigit(s[p + i])
  IN IF p + 3 > Len(s) \/ \E i \in 0..3 : digit(i) < 0 THEN -1
     ELSE (digit(0) * 4096) + (digit(1) * 256) + (digit(2) * 16) + digit(3)

LowSurrogateAt(s, p) ==
  IF p + 5 <= Len(s) /\ s[p] = Backslash /\ s[p + 1] = LetterU
  THEN HexCodeUnit(s, p + 2) ELSE -1

Paired(high, low) == 65536 + ((high - 55296) * 1024) + (low - 56320)

(* Mutant: any escape will do after a high surrogate. *)
EscapedCodePointUnpaired(s, p) ==
  LET unit == HexCodeUnit(s, p)
      second == LowSurrogateAt(s, p + 4)
  IN IF unit \in HighSurrogates /\ second >= 0
     THEN [code |-> Paired(unit, second), length |-> 10]
     ELSE [code |-> IF unit \in Surrogates THEN -1 ELSE unit, length |-> 4]

(* What the digits at p and, for a surrogate, the escape after them stand  *)
(* for: the code point and the length, or -1 for an error.                 *)
EscapedCodePoint(s, p) ==
  LET unit == HexCodeUnit(s, p)
      second == LowSurrogateAt(s, p + 4)
  IN IF unit \in HighSurrogates /\ second \in LowSurrogates
     THEN [code |-> Paired(unit, second), length |-> 10]
     ELSE [code |-> IF unit \in Surrogates THEN -1 ELSE unit, length |-> 4]

(* \uXXXX; NUL is rejected because SQLite would end the string there. *)
ParseUnicodeEscape ==
  /\ AtEscape({LetterU})
  /\ LET escaped == EscapedCodePoint(input, position + 2)
     IN IF escaped.code > 0
        THEN Emit(Encode(escaped.code), 2 + escaped.length)
        ELSE Finish("rejected") /\ UNCHANGED position

(* The text ends inside the string or inside an escape. *)
ParseUnterminated ==
  /\ pc = "string"
  /\ position > Len(input) \/ (position = Len(input) /\ Here = Backslash)
  /\ Finish("rejected")
  /\ UNCHANGED position

(* A later GET prints what was accepted. *)
PrintAgain ==
  /\ pc = "accepted"
  /\ input' = output
  /\ output' = <<>>
  /\ position' = 1
  /\ pc' = "escape"
  /\ UNCHANGED task

-----------------------------------------------------------------------------

Next ==
  \/ EscapeByte \/ EscapeSequence \/ EscapeEnds
  \/ ParseOpen \/ ParseClose \/ ParseByte \/ ParseSequence
  \/ ParseEscape \/ ParseUnicodeEscape \/ ParseUnterminated \/ PrintAgain

Spec == Init /\ [][Next]_vars

-----------------------------------------------------------------------------
(* What the texts mean, independently of the code *)

Trail == 128..191

(* The well-formed byte sequences of UTF-8 (Unicode Standard, table 3-7). *)
Utf8Rows == {
  <<0..127>>, <<194..223, Trail>>,
  <<{224}, 160..191, Trail>>, <<225..236 \cup 238..239, Trail, Trail>>,
  <<{237}, 128..159, Trail>>,
  <<{240}, 144..191, Trail, Trail>>, <<241..243, Trail, Trail, Trail>>,
  <<{244}, 128..143, Trail, Trail>>}

RowsAt(s, p) ==
  {row \in Utf8Rows : /\ p + Len(row) - 1 <= Len(s)
                      /\ \A i \in DOMAIN row : s[p + i - 1] \in row[i]}

(* The character that n well-formed bytes stand for (table 3-6).           *)
Scalar(s, p, n) ==
  CASE n = 1 -> s[p]
    [] n = 2 -> ((s[p] - 192) * 64) + (s[p + 1] - 128)
    [] n = 3 -> ((s[p] - 224) * 4096) + ((s[p + 1] - 128) * 64) + (s[p + 2] - 128)
    [] OTHER -> ((s[p] - 240) * 262144) + ((s[p + 1] - 128) * 4096)
                  + ((s[p + 2] - 128) * 64) + (s[p + 3] - 128)

(* The characters of s; -1 for each byte that is part of none. *)
Characters(s) ==
  LET from[p \in 1..Len(s) + 1] ==
        IF p > Len(s) THEN <<>>
        ELSE IF RowsAt(s, p) = {} THEN <<-1>> \o from[p + 1]
        ELSE LET n == Len(CHOOSE row \in RowsAt(s, p) : TRUE)
             IN <<Scalar(s, p, n)>> \o from[p + n]
  IN from[1]

(* The characters that the elements stand for, by the rules of UTF-16. *)
Meaning(elements) ==
  LET unit == [i \in DOMAIN elements |-> elements[i].unit]
      from[i \in 1..Len(elements) + 1] ==
        IF i > Len(elements) THEN <<>>
        ELSE IF /\ i < Len(elements) /\ unit[i] \in HighSurrogates
                /\ unit[i + 1] \in LowSurrogates
        THEN <<Paired(unit[i], unit[i + 1])>> \o from[i + 2]
        ELSE <<unit[i]>> \o from[i + 1]
  IN from[1]

(* What an element may be (RFC 8259, section 7): a character as it is, or  *)
(* escaped by a letter, or a code unit in four digits of either case; or   *)
(* nothing at all, whatever comes behind it.                               *)
HexDigits(n) == IF n < 10 THEN {48 + n} ELSE {87 + n, 55 + n}
EscapeLetters == {<<34, 34>>, <<92, 92>>, <<47, 47>>, <<98, 8>>, <<102, 12>>,
                  <<110, 10>>, <<114, 13>>, <<116, 9>>}

IsCharacter(e) ==
  /\ e.unit >= 32 /\ e.unit \notin {Quote, Backslash}
  /\ \E row \in RowsAt(e.text, 1) :
       Len(row) = Len(e.text) /\ e.unit = Scalar(e.text, 1, Len(row))

IsEscape(e) == \E l \in EscapeLetters : e.text = <<Backslash, l[1]>> /\ e.unit = l[2]

IsCodeUnit(e) ==
  /\ Len(e.text) = 6 /\ e.text[1] = Backslash /\ e.text[2] = LetterU
  /\ \E a, b, c, d \in 0..15 :
       /\ e.text[3] \in HexDigits(a) /\ e.text[4] \in HexDigits(b)
       /\ e.text[5] \in HexDigits(c) /\ e.text[6] \in HexDigits(d)
       /\ e.unit = (a * 4096) + (b * 256) + (c * 16) + d

IsNothing(e) ==
  /\ e.unit = -1 /\ e.text # <<>>
  /\ \/ e.text[1] < 32
     \/ /\ e.text[1] >= 128
        /\ \A row \in Utf8Rows :
             \E i \in DOMAIN row : i <= Len(e.text) /\ e.text[i] \notin row[i]
     \/ /\ Len(e.text) >= 2 /\ e.text[1] = Backslash /\ e.text[2] # LetterU
        /\ \A l \in EscapeLetters : e.text[2] # l[1]
     \/ /\ Len(e.text) >= 2 /\ e.text[1] = Backslash /\ e.text[2] = LetterU
        /\ \E i \in 3..6 : /\ i <= Len(e.text)
                          /\ \A n \in 0..15 : e.text[i] \notin HexDigits(n)

IsElement(e) ==
  /\ e.text \in Seq(Byte) /\ e.unit \in Int
  /\ IsCharacter(e) \/ IsEscape(e) \/ IsCodeUnit(e) \/ IsNothing(e)

(* What is assumed of the constants. *)
JsonStringAssumption ==
  /\ Values \subseteq Seq(Byte)
  /\ \A e \in Elements : IsElement(e)
  /\ \A t \in Texts : /\ t.elements \in Seq(Elements)
                      /\ t.cut \in 0..Len(TextOf(t.elements))

Done == pc \in {"accepted", "rejected"}

-----------------------------------------------------------------------------
(* Properties *)

(* Every variable has its type, and no loop reads behind the end.          *)
JsonTypeOK ==
  /\ \A i \in DOMAIN output : output[i] \in Byte
  /\ position \in 1..Len(input) + 1
  /\ pc \in {"escape", "open", "string", "accepted", "rejected"}

(* What GET prints can be PUT again and means the same: the parser takes   *)
(* every escaped value, except one with NUL, and gives it back with each   *)
(* byte that is no part of UTF-8 replaced by U+FFFD.                       *)
RoundTrip ==
  task.kind = "write" /\ Done =>
    LET chars == Characters(task.value)
    IN IF \E i \in DOMAIN chars : chars[i] = 0 THEN pc = "rejected"
       ELSE /\ pc = "accepted"
            /\ Characters(output) =
                 [i \in DOMAIN chars |-> IF chars[i] = -1 THEN 65533 ELSE chars[i]]

(* The parser takes a text exactly when it is complete and every element   *)
(* means a character other than NUL, and gives it that meaning: escapes of *)
(* either case, pairs of surrogates, raw bytes; overlong forms, lone       *)
(* surrogates, control characters and cut texts are refused.               *)
ReadsMeaning ==
  task.kind = "read" /\ Done =>
    LET meaning == Meaning(task.text.elements)
        complete == task.text.cut = Len(TextOf(task.text.elements))
    IN IF complete /\ \A i \in DOMAIN meaning : meaning[i] > 0 /\ meaning[i] \notin Surrogates
       THEN pc = "accepted" /\ Characters(output) = meaning
       ELSE pc = "rejected"

(* GET never prints a string longer than the text that PUT it, so that a   *)
(* configuration that kMaxConfigJsonBytes let in is let in again.          *)
PrintedNoLonger ==
  task.kind = "read" /\ pc = "escape" => Len(Quoted(output)) <= task.text.cut
=============================================================================
