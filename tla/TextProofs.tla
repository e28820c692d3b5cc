----------------------------- MODULE TextProofs ------------------------------
(* Lemmas about texts, for the proofs about both lexers: what a search stops *)
(* at, and what a decimal number is in a word (furas/src/lexer.c,            *)
(* furc/src/backend/lexer.c).                                                *)
EXTENDS Texts, WellFoundedInduction, SequenceTheorems, TLAPS

\* A set of numbers that is not empty has a least one.
LEMMA Least ==
  ASSUME NEW S \in SUBSET Nat, S # {}
  PROVE  \E x \in S : \A y \in S : x <= y
<1>1. PICK x \in S : \A y \in S : ~(<<y, x>> \in OpToRel(<, Nat))
  BY NatLessThanWellFounded, WFMin
<1>2. \A y \in S : ~(y < x)
  BY <1>1 DEF OpToRel
<1> QED BY <1>2

\* Induction, over a set in place of a predicate.
LEMMA Induction ==
  ASSUME NEW S \in SUBSET Nat, 0 \in S, \A n \in S : n + 1 \in S
  PROVE  S = Nat
<1> SUFFICES ASSUME S # Nat PROVE FALSE
  OBVIOUS
<1>1. PICK x \in Nat \ S : \A y \in Nat \ S : x <= y
  BY Least
<1>2. x # 0 /\ x - 1 \in Nat /\ x - 1 \notin Nat \ S
  BY <1>1
<1> QED BY <1>1, <1>2

\* Functions that are defined by recursion on numbers exist.
Recurs(f, n, base, step) ==
  \A k \in 0..n : f[k] = IF k = 0 THEN base ELSE step[<<k, f[k - 1]>>]

\* A function defined by recursion up to a number exists and has its type.
LEMMA Recursion ==
  ASSUME NEW S, NEW base \in S, NEW step \in [Nat \X S -> S], NEW n \in Nat
  PROVE  \E f \in [0..n -> S] : Recurs(f, n, base, step)
<1> DEFINE Follows(f, m) == \A k \in 0..m : f[k] = IF k = 0 THEN base ELSE step[<<k, f[k - 1]>>]
           M == {m \in Nat : \E f \in [0..m -> S] : Follows(f, m)}
<1>1. 0 \in M
  <2>1. [k \in 0..0 |-> base] \in [0..0 -> S] /\ Follows([k \in 0..0 |-> base], 0)
    OBVIOUS
  <2> QED BY <2>1
<1>2. ASSUME NEW m \in M PROVE m + 1 \in M
  <2>1. PICK f \in [0..m -> S] : Follows(f, m)
    BY <1>2
  <2> DEFINE g == [k \in 0..(m + 1) |-> IF k = m + 1 THEN step[<<m + 1, f[m]>>] ELSE f[k]]
  <2>2. m \in Nat /\ f[m] \in S /\ step[<<m + 1, f[m]>>] \in S
    OBVIOUS
  <2>3. g \in [0..(m + 1) -> S]
    BY <2>2
  <2>4. Follows(g, m + 1)
    <3> SUFFICES ASSUME NEW k \in 0..(m + 1)
                 PROVE  g[k] = IF k = 0 THEN base ELSE step[<<k, g[k - 1]>>]
      OBVIOUS
    <3>1. CASE k = m + 1
      <4>1. g[k] = step[<<m + 1, f[m]>>] /\ g[k - 1] = f[m] /\ k # 0
        BY <2>2, <3>1
      <4> HIDE DEF g
      <4> QED BY <3>1, <4>1
    <3>2. CASE k # m + 1
      <4>1. k \in 0..m /\ g[k] = f[k] /\ (k # 0 => g[k - 1] = f[k - 1])
        BY <2>2, <3>2
      <4>2. f[k] = IF k = 0 THEN base ELSE step[<<k, f[k - 1]>>]
        BY <2>1, <4>1
      <4> HIDE DEF g
      <4> QED BY <4>1, <4>2, Zenon
    <3> QED BY <3>1, <3>2
  <2> HIDE DEF g, Follows
  <2> QED BY <2>2, <2>3, <2>4
<1>3. M = Nat
  <2>1. M \in SUBSET Nat
    OBVIOUS
  <2> HIDE DEF M
  <2> QED BY <1>1, <1>2, <2>1, Induction
<1> QED BY <1>3 DEF Recurs

\* A search stops at the end of the text or at the first other character.
LEMMA EndOfType ==
  ASSUME NEW text \in Seq(STRING), NEW k \in Nat \ {0}, NEW chars
  PROVE  LET e == EndOf(text, k, chars)
         IN  /\ e \in Nat \ {0} /\ k <= e
             /\ k <= Len(text) + 1 => e <= Len(text) + 1
             /\ e <= Len(text) => text[e] \notin chars
             /\ \A j \in k..(e - 1) : j <= Len(text) /\ text[j] \in chars
<1> DEFINE Stops == {e \in k..(k + Len(text)) : e <= Len(text) => text[e] \notin chars}
           e == EndOf(text, k, chars)
<1>1. k + Len(text) \in Stops /\ Stops \in SUBSET Nat
  OBVIOUS
<1>2. PICK f \in Stops : \A j \in Stops : f <= j
  BY <1>1, Least
<1>3. \A j \in k..(f - 1) : j <= Len(text) /\ text[j] \in chars
  <2> SUFFICES ASSUME NEW j \in k..(f - 1) PROVE j <= Len(text) /\ text[j] \in chars
    OBVIOUS
  <2>1. j \in k..(k + Len(text)) /\ ~(f <= j)
    BY <1>2
  <2>2. j \notin Stops
    BY <1>2, <2>1
  <2> QED BY <2>1, <2>2
<1>4. /\ e \in k..(k + Len(text))
      /\ e <= Len(text) => text[e] \notin chars
      /\ \A j \in k..(e - 1) : j <= Len(text) /\ text[j] \in chars
  BY <1>2, <1>3 DEF EndOf
<1> HIDE DEF e
<1>5. ASSUME k <= Len(text) + 1, ~(e <= Len(text) + 1) PROVE FALSE
  <2>1. e - 1 \in k..(e - 1) /\ ~(e - 1 <= Len(text)) /\ Len(text) \in Nat
    BY <1>4, <1>5
  <2> QED BY <1>4, <2>1
<1> QED BY <1>4, <1>5 DEF e

\* A search that finds its first character does not stop there.
LEMMA EndOfMore ==
  ASSUME NEW text \in Seq(STRING), NEW k \in Nat \ {0}, NEW chars,
         k <= Len(text), text[k] \in chars
  PROVE  k < EndOf(text, k, chars)
<1> DEFINE e == EndOf(text, k, chars)
<1>1. e \in Nat \ {0} /\ k <= e /\ (e <= Len(text) => text[e] \notin chars)
  BY EndOfType
<1> HIDE DEF e
<1>2. e # k
  BY <1>1
<1> QED BY <1>1, <1>2 DEF e

\* The part of a text from k to the end of a search.
LEMMA PartLength ==
  ASSUME NEW text \in Seq(STRING), NEW k \in Nat \ {0}, NEW e \in Nat \ {0}, k <= e
  PROVE  Len(SubSeq(text, k, e - 1)) = e - k
OBVIOUS
-----------------------------------------------------------------------------
\* The value of a digit is a number.
LEMMA DigitType ==
  ASSUME NEW d
  PROVE  DigitOf(d) \in Int
<1> DEFINE I == {i \in 1..Len(Digits) : Digits[i] = d}
<1>1. Len(Digits) \in Nat
  BY DEF Digits
<1>2. CASE I = {}
  BY <1>2 DEF DigitOf, SelectInSeq
<1>3. CASE I # {}
  <2>1. I \in SUBSET Nat
    BY <1>1
  <2>2. PICK x \in I : \A y \in I : x <= y
    BY <1>3, <2>1, Least
  <2>3. Min(I) \in I
    BY <2>2 DEF Min
  <2>4. DigitOf(d) = Min(I) - 1
    BY <1>3 DEF DigitOf, SelectInSeq
  <2>5. Min(I) \in Int
    BY <2>1, <2>3
  <2> HIDE DEF I
  <2> QED BY <2>4, <2>5
<1> QED BY <1>2, <1>3

\* Whatever the digits, the number fits the word.
LEMMA NumberOfType ==
  ASSUME NEW digits, Len(digits) \in Nat, NEW modulus \in Nat \ {0}
  PROVE  NumberOf(digits, modulus) \in 0..(modulus - 1)
<1> DEFINE Digit(k) == DigitOf(digits[k])
           IsValue(f, n) ==
             f = [k \in 0..n |-> IF k = 0 THEN 0 ELSE (10 * f[k - 1] + Digit(k)) % modulus]
<1>1. \A k : Digit(k) \in Int
  BY DigitType
<1> HIDE DEF Digit
<1>2. \A n \in Nat : \E f : IsValue(f, n)
  <2> DEFINE S == {n \in Nat : \E f : IsValue(f, n)}
  <2>1. 0 \in S
    <3>1. IsValue([k \in 0..0 |-> 0], 0)
      OBVIOUS
    <3> QED BY <3>1
  <2>2. ASSUME NEW n \in S PROVE n + 1 \in S
    <3>1. PICK f : IsValue(f, n)
      BY <2>2
    <3> DEFINE g == [k \in 0..(n + 1) |-> IF k = n + 1 THEN (10 * f[n] + Digit(n + 1)) % modulus ELSE f[k]]
    <3>2. ASSUME NEW k \in 0..(n + 1)
          PROVE  g[k] = IF k = 0 THEN 0 ELSE (10 * g[k - 1] + Digit(k)) % modulus
      <4>1. n \in Nat
        BY <2>2
      <4>2. CASE k = n + 1
        <5>1. g[k] = (10 * f[n] + Digit(n + 1)) % modulus /\ g[n] = f[n] /\ k # 0 /\ k - 1 = n
          BY <4>1, <4>2
        <5> HIDE DEF g
        <5> QED BY <4>2, <5>1
      <4>3. CASE k # n + 1
        <5>1. k \in 0..n /\ g[k] = f[k]
          BY <4>1, <4>3
        <5>2. f[k] = IF k = 0 THEN 0 ELSE (10 * f[k - 1] + Digit(k)) % modulus
          BY <3>1, <5>1
        <5>3. ASSUME k # 0 PROVE g[k - 1] = f[k - 1]
          BY <4>1, <5>1, <5>3
        <5> HIDE DEF g
        <5>4. CASE k = 0
          BY <5>1, <5>2, <5>4
        <5>5. CASE k # 0
          <6>1. g[k - 1] = f[k - 1] /\ f[k] = (10 * f[k - 1] + Digit(k)) % modulus
            BY <5>2, <5>3, <5>5
          <6> QED BY <5>1, <5>5, <6>1, Zenon
        <5> QED BY <5>4, <5>5
      <4> QED BY <4>2, <4>3
    <3>3. IsValue(g, n + 1)
      <4>1. g = [k \in 0..(n + 1) |-> g[k]]
        OBVIOUS
      <4> HIDE DEF g
      <4>2. [k \in 0..(n + 1) |-> g[k]] =
              [k \in 0..(n + 1) |-> IF k = 0 THEN 0 ELSE (10 * g[k - 1] + Digit(k)) % modulus]
        BY <3>2, Zenon
      <4> QED BY <4>1, <4>2, Zenon
    <3> HIDE DEF g, IsValue
    <3> QED BY <2>2, <3>3
  <2> HIDE DEF IsValue
  <2>3. S \in SUBSET Nat
    OBVIOUS
  <2> HIDE DEF S
  <2>4. S = Nat
    BY <2>1, <2>2, <2>3, Induction
  <2> QED BY <2>4 DEF S
<1> DEFINE n == Len(digits)
           v == CHOOSE f : IsValue(f, n)
<1>3. IsValue(v, n) /\ NumberOf(digits, modulus) = v[n]
  <2>1. IsValue(v, n)
    BY <1>2
  <2>2. NumberOf(digits, modulus) = v[n]
    BY DEF NumberOf, Digit
  <2> QED BY <2>1, <2>2
<1>4. n \in Nat
  OBVIOUS
<1> HIDE DEF v, n
<1> DEFINE S == {k \in Nat : k <= n => v[k] \in 0..(modulus - 1)}
<1>5. \A k \in 0..n : v[k] = IF k = 0 THEN 0 ELSE (10 * v[k - 1] + Digit(k)) % modulus
  BY <1>3
<1>6. 0 \in S
  BY <1>4, <1>5
<1>7. ASSUME NEW k \in S PROVE k + 1 \in S
  <2>1. CASE k + 1 <= n
    <3>1. v[k] \in 0..(modulus - 1) /\ k + 1 \in 0..n /\ k + 1 # 0 /\ (k + 1) - 1 = k
      BY <1>4, <1>7, <2>1
    <3>2. v[k + 1] = (10 * v[k] + Digit(k + 1)) % modulus
      BY <1>5, <3>1
    <3>3. 10 * v[k] + Digit(k + 1) \in Int
      BY <1>1, <3>1
    <3>4. v[k + 1] \in 0..(modulus - 1)
      BY <3>2, <3>3
    <3> QED BY <1>7, <3>4
  <2> QED BY <2>1
<1>8. S = Nat
  <2>1. S \in SUBSET Nat
    OBVIOUS
  <2> HIDE DEF S
  <2> QED BY <1>6, <1>7, <2>1, Induction
<1>9. n \in S /\ n <= n
  BY <1>4, <1>8
<1> QED BY <1>3, <1>9
=============================================================================
