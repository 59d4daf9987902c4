---------------------------- MODULE IntegerInput ----------------------------
(***************************************************************************)
(* Every text that somebody may type, character by character, given to the *)
(* three parsers of IntegerText.                                           *)
(***************************************************************************)
EXTENDS IntegerText

CONSTANTS Alphabet, MaxLength

(* What is assumed of the constants. *)
IntegerInputAssumption == IntegerTextAssumption /\ MaxLength \in Nat

VARIABLE text

Init == text = <<>>

Type(ch) == Len(text) < MaxLength /\ text' = Append(text, ch)

Next == \E ch \in Alphabet : Type(ch)

Spec == Init /\ [][Next]_text

-----------------------------------------------------------------------------
(* Properties *)

(* The numerals of n: as to_string prints it, with any zeros before.       *)
IsNumeral(s, n) ==
  \E zeros \in 0..MaxLength :
    LET padding == [i \in 1..zeros |-> "0"]
    IN \/ n >= 0 /\ s = padding \o ToChars(n)
       \/ n <= 0 /\ s = <<"-">> \o padding \o ToChars(-n)

(* The repository reads back exactly the numerals of the ints, each as its *)
(* value; out of range, signs, blanks and text behind are errors, never    *)
(* another number.                                                         *)
StoredIntegerExact ==
  LET result == ParseIntValue(text)
  IN IF \E n \in IntValues : IsNumeral(text, n)
     THEN result.ok /\ IsNumeral(text, result.value)
     ELSE ~ result.ok

(* --api-port takes exactly the numerals of the ports.                     *)
PortExact ==
  LET result == ParseApiPort(text)
  IN IF \E n \in 0..MaxPort : IsNumeral(text, n)
     THEN result.ok /\ result.value \in 0..MaxPort /\ IsNumeral(text, result.value)
     ELSE ~ result.ok

(* JSON takes an int as to_string prints it (or -0), never a part of a     *)
(* longer numeral, and what was taken, stored as text and read back is the *)
(* same number.                                                            *)
JsonIntegerExact ==
  LET result == ParseInteger(text)
      canonical(u) == \E n \in IntValues :
        \/ SubSeq(text, 1, u) = ToChars(n)
        \/ n = 0 /\ SubSeq(text, 1, u) = <<"-", "0">>
      numeralEnds(u) == u = Len(text) \/ ~ IsDigit(text[u + 1])
  IN IF result.ok
     THEN /\ canonical(result.used) /\ numeralEnds(result.used)
          /\ IsNumeral(SubSeq(text, 1, result.used), result.value)
          /\ ParseIntValue(ToChars(result.value)) = Number(result.value)
     ELSE ~ \E u \in 1..Len(text) : canonical(u) /\ numeralEnds(u)
=============================================================================
