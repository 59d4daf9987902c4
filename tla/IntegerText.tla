----------------------------- MODULE IntegerText -----------------------------
(***************************************************************************)
(* How the program reads and writes integers: ParseInteger of the JSON     *)
(* parser (api_server.cc), ParseIntValue of the repository                 *)
(* (config_repository.cc) and ParseApiPort (supervisor_options.cc), all on *)
(* top of std::from_chars, and std::to_string.  A text is a sequence of    *)
(* characters.                                                             *)
(***************************************************************************)
EXTENDS Integers, Sequences

CONSTANTS
  MaxInt,   \* the largest int: 2^31 - 1 in the code
  MaxPort   \* the largest port: 65535

(* What is assumed of the constants. *)
IntegerTextAssumption ==
  MaxInt \in Nat /\ MaxPort \in Nat /\ MaxPort < MaxInt

Digits == <<"0", "1", "2", "3", "4", "5", "6", "7", "8", "9">>
IsDigit(ch) == ch \in {Digits[i] : i \in DOMAIN Digits}
DigitValue(ch) == CHOOSE d \in 0..9 : Digits[d + 1] = ch

IntValues == -MaxInt - 1 .. MaxInt

(* std::to_string *)
ToChars(n) ==
  LET numeral[k \in Nat] == IF k < 10 THEN <<Digits[k + 1]>>
                            ELSE Append(numeral[k \div 10], Digits[(k % 10) + 1])
  IN IF n < 0 THEN <<"-">> \o numeral[-n] ELSE numeral[n]

(* Where the digits of s end that follow an optional minus sign. *)
DigitsBegin(s) == IF s # <<>> /\ s[1] = "-" THEN 2 ELSE 1
DigitsEnd(s) ==
  LET begin == DigitsBegin(s)
  IN CHOOSE i \in begin - 1 .. Len(s) :
       /\ \A j \in begin..i : IsDigit(s[j])
       /\ i = Len(s) \/ ~ IsDigit(s[i + 1])

(* std::from_chars: the longest numeral at the beginning.  ok says whether *)
(* there is one and it is in range, used is result.ptr.                    *)
FromChars(s) ==
  LET begin == DigitsBegin(s)
      end == DigitsEnd(s)
      digits == SubSeq(s, begin, end)
      magnitude[i \in 0..Len(digits)] ==
        IF i = 0 THEN 0 ELSE (magnitude[i - 1] * 10) + DigitValue(digits[i])
      value == IF begin = 2 THEN -magnitude[Len(digits)] ELSE magnitude[Len(digits)]
  IN IF end < begin THEN [ok |-> FALSE, value |-> 0, used |-> 0]
     ELSE [ok |-> value \in IntValues, value |-> value, used |-> end]

Error == [ok |-> FALSE]
Number(value) == [ok |-> TRUE, value |-> value]

(* Mutant: text behind the number is ignored. *)
ParseIntValuePrefix(text) ==
  LET result == FromChars(text)
  IN IF result.ok THEN Number(result.value) ELSE Error

ParseIntValue(text) ==
  LET result == FromChars(text)
  IN IF text # <<>> /\ result.ok /\ result.used = Len(text)
     THEN Number(result.value) ELSE Error

ParseApiPort(text) ==
  LET result == FromChars(text)
  IN IF /\ text # <<>> /\ result.ok /\ result.used = Len(text)
        /\ result.value \in 0..MaxPort
     THEN Number(result.value) ELSE Error

(* JSON: reads a number at the beginning of a longer text. *)
ParseInteger(text) ==
  LET begin == DigitsBegin(text)
      zero == begin <= Len(text) /\ text[begin] = "0"
      end == IF zero THEN begin ELSE DigitsEnd(text)
      result == FromChars(SubSeq(text, 1, end))
  IN IF \/ end < begin
        \/ zero /\ begin < Len(text) /\ IsDigit(text[begin + 1])
        \/ ~ result.ok \/ result.used # end
     THEN Error
     ELSE [ok |-> TRUE, value |-> result.value, used |-> end]
=============================================================================
