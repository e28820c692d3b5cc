------------------------------- MODULE Texts --------------------------------
(* What the lexers of furas and furc have in common: a text is a sequence of *)
(* characters, each a string of length one.                                  *)
EXTENDS Integers, Sequences, SequencesExt

Digits == <<"0", "1", "2", "3", "4", "5", "6", "7", "8", "9">>
Spaces == {" ", "\n"}

\* The first position not before k whose character is not in chars.
EndOf(text, k, chars) ==
  CHOOSE e \in k..(k + Len(text)) :
    /\ e <= Len(text) => text[e] \notin chars
    /\ \A j \in k..(e - 1) : j <= Len(text) /\ text[j] \in chars

DigitOf(d) == SelectInSeq(Digits, LAMBDA e : e = d) - 1

\* A slip: the word has no width.
NumberUnbounded(digits, modulus) ==
  LET value[k \in 0..Len(digits)] == IF k = 0 THEN 0 ELSE 10 * value[k - 1] + DigitOf(digits[k])
  IN  value[Len(digits)]

\* The value of a decimal number in a word with so many values.
NumberOf(digits, modulus) ==
  LET value[k \in 0..Len(digits)] ==
        IF k = 0 THEN 0 ELSE (10 * value[k - 1] + DigitOf(digits[k])) % modulus
  IN  value[Len(digits)]
=============================================================================
