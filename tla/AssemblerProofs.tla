--------------------------- MODULE AssemblerProofs --------------------------
(* Proofs about the assembler, for every text: functions keep their indexes, *)
(* labels and functions have the addresses of instructions, and what is read *)
(* back from the file it writes are the instructions of its text, in order,  *)
(* with the operands these mean (furas/src/codegen.c, furas/src/lexer.c,     *)
(* furlang/src/bytecode.c, furlang/src/executor.c:212-274).                  *)
EXTENDS Assembler, TextProofs

-----------------------------------------------------------------------------
(* Operands: what is encoded is read back.                                   *)

\* A quotient and a remainder are the ones of the division.
LEMMA Divided ==
  ASSUME NEW n \in Nat, NEW b \in Nat \ {0}, NEW q \in Nat, NEW r \in 0..(b - 1), n = b * q + r
  PROVE  n \div b = q /\ n % b = r
<1> DEFINE p == n \div b
           s == n % b
<1>1. p \in Int /\ s \in 0..(b - 1) /\ n = b * p + s
  OBVIOUS
<1> HIDE DEF p, s
<1>2. b * (p - q) = r - s
  BY <1>1
<1>3. p - q = 0
  <2>1. CASE p - q >= 1
    <3>1. b * (p - q) >= b
      BY <1>1, <2>1
    <3> QED BY <1>1, <1>2, <3>1
  <2>2. CASE p - q <= -1
    <3>1. b * (p - q) <= -b
      BY <1>1, <2>2
    <3> QED BY <1>1, <1>2, <3>1
  <2> QED BY <1>1, <2>1, <2>2
<1>4. p = q /\ s = r
  BY <1>1, <1>2, <1>3
<1> QED BY <1>4 DEF p, s

\* Dividing in two steps.
LEMMA DividedTwice ==
  ASSUME NEW n \in Nat, NEW p \in Nat \ {0}, NEW b \in Nat \ {0}
  PROVE  /\ b * p \in Nat \ {0}
         /\ n \div p \in Nat /\ n \div (b * p) \in Nat /\ (n \div p) % b \in 0..(b - 1)
         /\ n \div p = b * (n \div (b * p)) + ((n \div p) % b)
<1> DEFINE q == n \div p
           r == n % p
           s == q \div b
           t == q % b
<1>1. q \in Nat /\ r \in 0..(p - 1) /\ n = p * q + r
  OBVIOUS
<1> HIDE DEF q, r
<1>2. s \in Nat /\ t \in 0..(b - 1) /\ q = b * s + t
  BY <1>1
<1> HIDE DEF s, t
<1>3. b * p \in Nat \ {0}
  OBVIOUS
<1>4. n = (b * p) * s + (p * t + r)
  BY <1>1, <1>2
<1>5. p * t + r \in 0..(b * p - 1)
  <2>1. p * t \in Nat /\ p * t <= p * (b - 1)
    BY <1>2
  <2>2. p * (b - 1) = b * p - p
    OBVIOUS
  <2> DEFINE x == p * t
             y == b * p
  <2>3. x \in Nat /\ y \in Nat /\ x <= y - p
    BY <1>3, <2>1, <2>2
  <2> HIDE DEF x, y
  <2>4. x + r \in 0..(y - 1)
    BY <1>1, <2>3
  <2> QED BY <2>4 DEF x, y
<1>6. n \div (b * p) = s
  BY <1>2, <1>3, <1>4, <1>5, Divided
<1> QED BY <1>1, <1>2, <1>3, <1>6 DEF q, s, t

\* A place is worth ByteBase times the one before it.
LEMMA Places ==
  /\ Place[0] = 1
  /\ \A k \in 0..8 : Place[k] \in Nat \ {0}
  /\ \A k \in 0..7 : Place[k + 1] = ByteBase * Place[k]
<1> DEFINE IsPlace(f) == f = [k \in 0..8 |-> IF k = 0 THEN 1 ELSE ByteBase * f[k - 1]]
           step == [x \in Nat \X Nat |-> ByteBase * x[2]]
<1>1. ByteBase \in Nat \ {0}
  BY ByteBaseAssumption
<1>2. \E f : IsPlace(f)
  <2>1. step \in [Nat \X Nat -> Nat]
    BY <1>1
  <2>2. PICK f \in [0..8 -> Nat] : \A k \in 0..8 : f[k] = IF k = 0 THEN 1 ELSE step[<<k, f[k - 1]>>]
    <3> DEFINE one == 1
               last == 8
    <3>1. one \in Nat /\ last \in Nat
      OBVIOUS
    <3> HIDE DEF step, one, last
    <3>2. \E f \in [0..last -> Nat] : Recurs(f, last, one, step)
      BY <2>1, <3>1, Recursion, Zenon
    <3> QED BY <3>2 DEF one, last, Recurs
  <2>3. ASSUME NEW k \in 0..8 PROVE f[k] = IF k = 0 THEN 1 ELSE ByteBase * f[k - 1]
    <3>1. CASE k = 0
      BY <2>2, <3>1
    <3>2. CASE k # 0
      <4>1. k - 1 \in 0..8 /\ f[k - 1] \in Nat /\ f[k] = step[<<k, f[k - 1]>>]
        BY <2>2, <3>2
      <4> QED BY <3>2, <4>1
    <3> QED BY <3>1, <3>2
  <2>4. f = [k \in 0..8 |-> f[k]]
    OBVIOUS
  <2>5. IsPlace(f)
    BY <2>3, <2>4, Zenon
  <2> QED BY <2>5
<1>3. IsPlace(Place)
  BY <1>2 DEF Place
<1>4. \A k \in 0..8 : Place[k] = IF k = 0 THEN 1 ELSE ByteBase * Place[k - 1]
  BY <1>3
<1> HIDE DEF IsPlace
<1>5. Place[0] = 1 /\ \A k \in 0..7 : Place[k + 1] = ByteBase * Place[k]
  BY <1>4
<1>6. \A k \in 0..7 : Place[k] \in Nat \ {0} => Place[k + 1] \in Nat \ {0}
  BY <1>1, <1>5
<1>7. \A k \in 0..8 : Place[k] \in Nat \ {0}
  <2>1. Place[0] \in Nat \ {0} /\ Place[1] \in Nat \ {0} /\ Place[2] \in Nat \ {0}
    BY <1>5, <1>6
  <2>2. Place[3] \in Nat \ {0} /\ Place[4] \in Nat \ {0} /\ Place[5] \in Nat \ {0}
    BY <1>6, <2>1
  <2>3. Place[6] \in Nat \ {0} /\ Place[7] \in Nat \ {0} /\ Place[8] \in Nat \ {0}
    BY <1>6, <2>2
  <2> QED BY <2>1, <2>2, <2>3
<1> QED BY <1>5, <1>7

\* Each byte of a number is one of its digits.
LEMMA EncodedBytes ==
  ASSUME NEW number \in Nat, NEW size \in 0..8
  PROVE  /\ Encoded(number, size) \in [1..size -> Bytes]
         /\ \A k \in 1..size : (number \div Place[size - k]) % ByteBase \in 0..(ByteBase - 1)
<1> SUFFICES ASSUME NEW k \in 1..size
             PROVE  /\ (number \div Place[size - k]) % ByteBase \in 0..(ByteBase - 1)
                    /\ SignedByte((number \div Place[size - k]) % ByteBase) \in Bytes
  BY DEF Encoded
<1>1. size - k \in 0..8 /\ Place[size - k] \in Nat \ {0} /\ ByteBase \in Nat \ {0}
  BY Places, ByteBaseAssumption
<1>2. number \div Place[size - k] \in Nat
  BY <1>1
<1>3. (number \div Place[size - k]) % ByteBase \in 0..(ByteBase - 1)
  BY <1>1, <1>2
<1> DEFINE d == (number \div Place[size - k]) % ByteBase
<1> HIDE DEF d
<1>4. ASSUME d \in 0..(ByteBase - 1) PROVE SignedByte(d) \in Bytes
  BY <1>4, ByteBaseAssumption DEF SignedByte, Bytes
<1> QED BY <1>3, <1>4 DEF d

\* What is read from the bytes of an operand is the number that was encoded,
\* unless one of the bytes has its sign bit set.
LEMMA EncodedIsRead ==
  ASSUME NEW number \in Nat, NEW size \in {1, 2, 4, 8}, SignFree(number, size),
         NEW code, NEW address \in Nat, Len(code) \in Nat, address + 1 + size <= Len(code),
         \A k \in 1..size : code[address + 1 + k] = Encoded(number, size)[k]
  PROVE  OperandRead(code, address, size) = number
<1> DEFINE q(k) == number \div Place[k]
           D(k) == q(k) % ByteBase
           bytes == SubSeq(code, address + 2, address + 1 + size)
<1>1. ByteBase \in Nat \ {0}
  BY ByteBaseAssumption
<1>2. ASSUME NEW k \in 0..7
      PROVE  q(k) \in Nat /\ q(k + 1) \in Nat /\ D(k) \in Nat /\ q(k) = ByteBase * q(k + 1) + D(k)
  <2>1. Place[k] \in Nat \ {0} /\ Place[k + 1] = ByteBase * Place[k]
    <3>1. k \in 0..8 /\ k \in 0..7
      OBVIOUS
    <3> QED BY <3>1, Places, Zenon
  <2>2. /\ number \div Place[k] \in Nat /\ number \div (ByteBase * Place[k]) \in Nat
        /\ (number \div Place[k]) % ByteBase \in 0..(ByteBase - 1)
        /\ number \div Place[k] = ByteBase * (number \div (ByteBase * Place[k])) + ((number \div Place[k]) % ByteBase)
    BY <1>1, <2>1, DividedTwice
  <2> QED BY <1>1, <2>1, <2>2
<1>3. q(0) = number
  <2> DEFINE b == Place[0]
  <2>1. b = 1
    BY Places
  <2> HIDE DEF b
  <2>2. 1 \in Nat \ {0} /\ 0 \in 0..(1 - 1) /\ number = 1 * number + 0
    OBVIOUS
  <2>3. number \div 1 = number
    BY <2>2, Divided, Zenon
  <2> QED BY <2>1, <2>3 DEF b
<1>4. q(size) = 0 /\ number < Place[size]
  <2>1. Place[size] \in Nat \ {0} /\ number < Place[size]
    <3>1. size \in 0..8
      OBVIOUS
    <3>2. Place[size] \in Nat \ {0}
      BY <3>1, Places, Zenon
    <3>3. number < Place[size]
      BY Zenon DEF SignFree
    <3> QED BY <3>2, <3>3
  <2> DEFINE b == Place[size]
  <2>2. b \in Nat \ {0} /\ number \in 0..(b - 1)
    BY <2>1
  <2> HIDE DEF b
  <2>3. number = b * 0 + number
    BY <2>2
  <2>4. number \div b = 0
    BY <2>2, <2>3, Divided
  <2> QED BY <2>1, <2>4 DEF b
<1>5. ASSUME NEW k \in 1..size
      PROVE  bytes[k] = D(size - k)
  <2>1. bytes[k] = code[address + 1 + k]
    BY DEF bytes
  <2>2. code[address + 1 + k] = SignedByte(D(size - k))
    BY DEF Encoded
  <2>3. size - k \in 0..(size - 1)
    OBVIOUS
  <2>4. D(size - k) < ByteBase \div 2
    BY <2>3 DEF SignFree
  <2>5. D(size - k) \in Nat
    <3>1. size - k \in 0..7
      BY <2>3
    <3> HIDE DEF D
    <3> QED BY <1>2, <3>1
  <2> HIDE DEF D
  <2>6. SignedByte(D(size - k)) = D(size - k)
    BY <1>1, <2>4, <2>5 DEF SignedByte
  <2> QED BY <2>1, <2>2, <2>6
<1>6. ASSUME NEW k \in 0..7 PROVE Join(q(k + 1), D(k)) = q(k)
  <2>1. D(k) \in Nat /\ q(k) = ByteBase * q(k + 1) + D(k)
    BY <1>2
  <2> HIDE DEF q, D
  <2> QED BY <2>1 DEF Join
<1>7. ASSUME NEW k \in 0..7, q(k + 1) = 0 PROVE D(k) = q(k)
  <2>1. D(k) \in Nat /\ q(k) = ByteBase * q(k + 1) + D(k)
    BY <1>2
  <2> DEFINE h == q(k + 1)
             l == D(k)
             n == q(k)
  <2>2. l \in Nat /\ n = ByteBase * h + l /\ h = 0
    BY <1>7, <2>1
  <2> HIDE DEF q, D, h, l, n
  <2>3. n = l
    BY <1>1, <2>2
  <2> QED BY <2>3 DEF h, l, n
<1>8. OperandRead(code, address, size) =
        CASE size = 1 -> ByteOf(bytes)
          [] size = 2 -> ShortOf(bytes)
          [] size = 4 -> IntOf(bytes)
          [] size = 8 -> LongOf(bytes)
  BY DEF OperandRead
<1> HIDE DEF q, D, bytes
<1>9. CASE size = 1
  <2>1. bytes[1] = D(0) /\ D(0) = q(0)
    BY <1>4, <1>5, <1>7, <1>9
  <2> QED BY <1>3, <1>8, <1>9, <2>1 DEF ByteOf
<1>10. CASE size = 2
  <2>1. bytes[1] = D(1) /\ bytes[2] = D(0)
    BY <1>5, <1>10
  <2>2. D(1) = q(1) /\ Join(q(1), D(0)) = q(0)
    BY <1>4, <1>6, <1>7, <1>10
  <2>3. Place[2] = ShortModulus
    <3>1. Place[0] = 1 /\ Place[0 + 1] = ByteBase * Place[0] /\ Place[1 + 1] = ByteBase * Place[1]
      BY Places
    <3> QED BY <1>1, <3>1 DEF ShortModulus
  <2>4. number % ShortModulus = number
    <3> DEFINE b == ShortModulus
    <3>1. b \in Nat /\ number < b
      BY <1>1, <1>4, <1>10, <2>3 DEF ShortModulus
    <3> HIDE DEF b
    <3>2. number % b = number
      BY <3>1
    <3> QED BY <3>2 DEF b
  <2> QED BY <1>3, <1>8, <1>10, <2>1, <2>2, <2>4 DEF ShortOf
<1>11. CASE size = 4
  <2>1. bytes[1] = D(3) /\ bytes[2] = D(2) /\ bytes[3] = D(1) /\ bytes[4] = D(0)
    BY <1>5, <1>11
  <2>2. /\ D(3) = q(3) /\ Join(q(3), D(2)) = q(2) /\ Join(q(2), D(1)) = q(1)
        /\ Join(q(1), D(0)) = q(0)
    BY <1>4, <1>6, <1>7, <1>11
  <2> QED BY <1>3, <1>8, <1>11, <2>1, <2>2 DEF IntOf
<1>12. CASE size = 8
  <2>1. /\ bytes[1] = D(7) /\ bytes[2] = D(6) /\ bytes[3] = D(5) /\ bytes[4] = D(4)
        /\ bytes[5] = D(3) /\ bytes[6] = D(2) /\ bytes[7] = D(1) /\ bytes[8] = D(0)
    BY <1>5, <1>12
  <2>2. /\ D(7) = q(7) /\ Join(q(7), D(6)) = q(6) /\ Join(q(6), D(5)) = q(5)
        /\ Join(q(5), D(4)) = q(4)
    BY <1>4, <1>6, <1>7, <1>12
  <2>3. /\ Join(q(4), D(3)) = q(3) /\ Join(q(3), D(2)) = q(2) /\ Join(q(2), D(1)) = q(1)
        /\ Join(q(1), D(0)) = q(0)
    BY <1>6
  <2> QED BY <1>3, <1>8, <1>12, <2>1, <2>2, <2>3 DEF IntOf, LongOf
<1> QED BY <1>9, <1>10, <1>11, <1>12
-----------------------------------------------------------------------------
(* Files: what is written is read back.                                      *)

Fields == Nat \X Int

\* Pairs in a row.
IsRow(row, n, a, b, X) ==
  /\ row \in Seq(X) /\ Len(row) = 2 * n
  /\ \A i \in 1..n : row[2 * i - 1] = a[i] /\ row[2 * i] = b[i]

\* Two fields for each function, one after the other.
LEMMA PairsInARow ==
  ASSUME NEW X, NEW n \in Nat, NEW a \in [1..n -> X], NEW b \in [1..n -> X]
  PROVE  IsRow(FlattenSeq([i \in 1..n |-> <<a[i], b[i]>>]), n, a, b, X)
<1> DEFINE s == [i \in 1..n |-> <<a[i], b[i]>>]
           Row(i) == [k \in 1..(2 * i) |-> IF k % 2 = 1 THEN a[(k + 1) \div 2] ELSE b[k \div 2]]
           IsFlat(f) == f = [i \in 1..Len(s) |-> IF i = 1 THEN s[i] ELSE f[i - 1] \o s[i]]
           v == CHOOSE f : IsFlat(f)
<1>1. Len(s) = n /\ \A i \in 1..n : s[i] = <<a[i], b[i]>> /\ s[i] \in Seq(X) /\ Len(s[i]) = 2
  OBVIOUS
<1>2. ASSUME NEW i \in 0..n
      PROVE  Row(i) \in Seq(X) /\ Len(Row(i)) = 2 * i
  <2>1. ASSUME NEW k \in 1..(2 * i), k % 2 = 1 PROVE (k + 1) \div 2 \in 1..n
    BY <2>1
  <2>2. ASSUME NEW k \in 1..(2 * i), k % 2 # 1 PROVE k \div 2 \in 1..n
    BY <2>2
  <2>3. \A k \in 1..(2 * i) : (IF k % 2 = 1 THEN a[(k + 1) \div 2] ELSE b[k \div 2]) \in X
    BY <2>1, <2>2
  <2>4. Row(i) \in [1..(2 * i) -> X] /\ 2 * i \in Nat
    BY <2>3
  <2> HIDE DEF Row
  <2> QED BY <2>4
<1>3. ASSUME NEW i \in 1..n
      PROVE  Row(i)[2 * i - 1] = a[i] /\ Row(i)[2 * i] = b[i]
  <2>1. /\ 2 * i - 1 \in 1..(2 * i) /\ 2 * i \in 1..(2 * i)
        /\ (2 * i - 1) % 2 = 1 /\ (2 * i) % 2 = 0
        /\ ((2 * i - 1) + 1) \div 2 = i /\ (2 * i) \div 2 = i
    OBVIOUS
  <2> QED BY <2>1
<1>4. ASSUME NEW i \in 1..n, NEW j \in 1..(2 * (i - 1))
      PROVE  Row(i)[j] = Row(i - 1)[j]
  OBVIOUS
<1>5. ASSUME NEW i \in 1..n
      PROVE  Row(i) = Row(i - 1) \o s[i]
  <2>1. /\ Row(i) \in Seq(X) /\ Len(Row(i)) = 2 * i
        /\ Row(i - 1) \in Seq(X) /\ Len(Row(i - 1)) = 2 * i - 2
    BY <1>2
  <2> DEFINE t == Row(i - 1) \o s[i]
  <2>2. /\ t \in Seq(X) /\ Len(t) = 2 * i
        /\ \A j \in 1..(2 * i) : t[j] = IF j <= 2 * i - 2 THEN Row(i - 1)[j] ELSE s[i][j - (2 * i - 2)]
    <3> HIDE DEF Row, s
    <3> DEFINE u == Row(i - 1)
               w == s[i]
    <3>1. w \in Seq(X) /\ Len(w) = 2 /\ u \in Seq(X) /\ Len(u) = 2 * i - 2
      BY <1>1, <2>1
    <3> HIDE DEF u, w
    <3>2. /\ u \o w \in Seq(X) /\ Len(u \o w) = Len(u) + Len(w)
          /\ \A j \in 1..Len(u) + Len(w) : (u \o w)[j] = IF j <= Len(u) THEN u[j] ELSE w[j - Len(u)]
      BY <3>1, ConcatProperties, Zenon
    <3>3. Len(u) = 2 * i - 2 /\ Len(u) + Len(w) = 2 * i
      BY <3>1
    <3> QED BY <3>2, <3>3 DEF u, w
  <2>3. ASSUME NEW j \in 1..(2 * i) PROVE Row(i)[j] = t[j]
    <3>1. CASE j <= 2 * i - 2
      <4>1. t[j] = Row(i - 1)[j] /\ j \in 1..(2 * (i - 1))
        BY <2>2, <3>1
      <4> HIDE DEF Row, t
      <4> QED BY <1>4, <4>1
    <3>2. CASE j = 2 * i - 1
      <4>1. t[j] = s[i][1]
        BY <2>2, <3>2
      <4> HIDE DEF Row, t, s
      <4>2. s[i][1] = a[i]
        BY <1>1
      <4> QED BY <1>3, <3>2, <4>1, <4>2
    <3>3. CASE j = 2 * i
      <4>1. t[j] = s[i][2]
        BY <2>2, <3>3
      <4> HIDE DEF Row, t, s
      <4>2. s[i][2] = b[i]
        BY <1>1
      <4> QED BY <1>3, <3>3, <4>1, <4>2
    <3> QED BY <3>1, <3>2, <3>3
  <2> HIDE DEF Row, t
  <2>4. Row(i) = t
    BY <2>1, <2>2, <2>3, SeqEqual
  <2> QED BY <2>4 DEF t
<1>6. ASSUME n # 0 PROVE Row(1) = s[1]
  <2>1. 1 \in 1..n
    BY <1>6
  <2>2. Row(1) = Row(1 - 1) \o s[1]
    BY <1>5, <2>1
  <2>3. Row(1 - 1) = << >>
    OBVIOUS
  <2>4. s[1] \in Seq(X)
    BY <1>1, <2>1
  <2> HIDE DEF Row, s
  <2> QED BY <2>2, <2>3, <2>4, ConcatEmptySeq
<1> HIDE DEF Row, s
<1>7. CASE n = 0
  <2>1. FlattenSeq(s) = s
    BY <1>1, <1>7 DEF FlattenSeq
  <2>2. s = << >>
    BY <1>7 DEF s
  <2>3. FlattenSeq(s) \in Seq(X) /\ Len(FlattenSeq(s)) = 2 * n
    BY <1>7, <2>1, <2>2, EmptySeq
  <2>4. 1..n = {}
    BY <1>7
  <2> QED BY <2>3, <2>4 DEF s, IsRow
<1>8. CASE n # 0
  <2>1. IsFlat([i \in 1..n |-> Row(i)])
    <3> DEFINE f == [i \in 1..n |-> Row(i)]
    <3>1. ASSUME NEW i \in 1..n
          PROVE  f[i] = IF i = 1 THEN s[i] ELSE f[i - 1] \o s[i]
      <4>1. CASE i = 1
        BY <1>6, <1>8, <4>1
      <4>2. CASE i # 1
        <5>1. f[i] = Row(i) /\ f[i - 1] = Row(i - 1)
          BY <4>2
        <5> HIDE DEF f
        <5> QED BY <1>5, <4>2, <5>1
      <4> QED BY <4>1, <4>2
    <3>2. f = [i \in 1..n |-> f[i]]
      OBVIOUS
    <3> HIDE DEF f
    <3>3. f = [i \in 1..n |-> IF i = 1 THEN s[i] ELSE f[i - 1] \o s[i]]
      BY <3>1, <3>2, Zenon
    <3> QED BY <1>1, <3>3, Zenon DEF f
  <2>2. IsFlat(v)
    BY <2>1
  <2>3. FlattenSeq(s) = v[n]
    BY <1>1, <1>8 DEF FlattenSeq
  <2> HIDE DEF v
  <2>4. \A i \in 1..n : v[i] = IF i = 1 THEN s[i] ELSE v[i - 1] \o s[i]
    BY <1>1, <2>2
  <2> HIDE DEF IsFlat
  <2> DEFINE S == {i \in Nat : i \in 1..n => v[i] = Row(i)}
  <2>5. ASSUME NEW i \in S PROVE i + 1 \in S
    <3> SUFFICES ASSUME i + 1 \in 1..n PROVE v[i + 1] = Row(i + 1)
      BY <2>5
    <3>1. CASE i = 0
      BY <1>6, <1>8, <2>4, <3>1
    <3>2. CASE i # 0
      <4>1. i \in 1..n /\ v[i] = Row(i) /\ i + 1 # 1 /\ (i + 1) - 1 = i
        BY <2>5, <3>2
      <4>2. v[i + 1] = v[i] \o s[i + 1]
        BY <2>4, <4>1
      <4>3. Row(i + 1) = Row((i + 1) - 1) \o s[i + 1]
        BY <1>5
      <4> QED BY <4>1, <4>2, <4>3, Zenon
    <3> QED BY <3>1, <3>2
  <2>6. S = Nat
    <3>1. S \in SUBSET Nat /\ 0 \in S
      OBVIOUS
    <3> HIDE DEF S
    <3> QED BY <2>5, <3>1, Induction
  <2>7. FlattenSeq(s) = Row(n)
    BY <1>8, <2>3, <2>6
  <2>8. Row(n) \in Seq(X) /\ Len(Row(n)) = 2 * n
    BY <1>2
  <2>9. ASSUME NEW i \in 1..n PROVE Row(n)[2 * i - 1] = a[i] /\ Row(n)[2 * i] = b[i]
    <3>1. /\ 2 * i - 1 \in 1..(2 * n) /\ 2 * i \in 1..(2 * n)
          /\ (2 * i - 1) % 2 = 1 /\ (2 * i) % 2 = 0
          /\ ((2 * i - 1) + 1) \div 2 = i /\ (2 * i) \div 2 = i
      OBVIOUS
    <3> QED BY <3>1 DEF Row
  <2> QED BY <2>7, <2>8, <2>9 DEF s, IsRow
<1> QED BY <1>7, <1>8

IsJoin(joined, s, t, m, X) ==
  /\ joined \in Seq(X) /\ Len(joined) = m + Len(t)
  /\ \A i \in 1..(m + Len(t)) : joined[i] = IF i <= m THEN s[i] ELSE t[i - m]

\* What a concatenation holds.
LEMMA Joined ==
  ASSUME NEW X, NEW s \in Seq(X), NEW t \in Seq(X), NEW m, Len(s) = m
  PROVE  IsJoin(s \o t, s, t, m, X)
BY ConcatProperties, Zenon DEF IsJoin

\* The fields of a module.
IsModule(w, n, address, count, globals, code) ==
  /\ w \in Seq(Fields) /\ Len(w) = 2 * n + 3 + Len(code)
  /\ w[1] = <<8, n>>
  /\ \A i \in 1..n : w[2 * i] = <<8, address[i]>> /\ w[2 * i + 1] = <<2, count[i]>>
  /\ w[2 * n + 2] = <<2, globals>> /\ w[2 * n + 3] = <<8, Len(code)>>
  /\ \A j \in 1..Len(code) : w[2 * n + 3 + j] = <<1, code[j]>>

\* The fields WriteModule writes are the fields of the module.
LEMMA ModuleFields ==
  ASSUME NEW n \in Nat, NEW address \in [1..n -> Int], NEW count \in [1..n -> Int],
         NEW globals \in Int, NEW code \in Seq(Int)
  PROVE  IsModule(WriteModule([functions |-> [i \in 1..n |-> [address |-> address[i], paramCount |-> count[i]]],
                               globalVariableCount |-> globals, bytecode |-> code]),
                  n, address, count, globals, code)
<1> DEFINE fs == [i \in 1..n |-> [address |-> address[i], paramCount |-> count[i]]]
           module == [functions |-> fs, globalVariableCount |-> globals, bytecode |-> code]
           a == [i \in 1..n |-> <<8, address[i]>>]
           b == [i \in 1..n |-> <<2, count[i]>>]
           head == <<<<8, n>>>>
           pairs == FlattenSeq([i \in 1..n |-> <<a[i], b[i]>>])
           counts == <<<<2, globals>>, <<8, Len(code)>>>>
           tail == [k \in 1..Len(code) |-> <<1, code[k]>>]
           u == head \o pairs
           v == u \o counts
           w == v \o tail
<1>1. a \in [1..n -> Fields] /\ b \in [1..n -> Fields]
  BY DEF Fields
<1>2. /\ pairs \in Seq(Fields) /\ Len(pairs) = 2 * n
      /\ \A i \in 1..n : pairs[2 * i - 1] = a[i] /\ pairs[2 * i] = b[i]
  <2> HIDE DEF a, b
  <2>1. IsRow(pairs, n, a, b, Fields)
    BY <1>1, PairsInARow, Zenon
  <2> HIDE DEF pairs
  <2> QED BY <2>1 DEF IsRow
<1>3. head \in Seq(Fields) /\ Len(head) = 1 /\ head[1] = <<8, n>>
  BY DEF Fields
<1>4. /\ counts \in Seq(Fields) /\ Len(counts) = 2
      /\ counts[1] = <<2, globals>> /\ counts[2] = <<8, Len(code)>>
  BY DEF Fields
<1>5. /\ tail \in Seq(Fields) /\ Len(tail) = Len(code)
      /\ \A k \in 1..Len(code) : tail[k] = <<1, code[k]>>
  BY DEF Fields
<1>6. WriteModule(module) = w
  <2>1. Len(fs) = n /\ DOMAIN fs = 1..n /\ DOMAIN code = 1..Len(code)
    OBVIOUS
  <2>2. [i \in DOMAIN fs |-> <<<<8, fs[i].address>>, <<2, fs[i].paramCount>>>>]
          = [i \in 1..n |-> <<a[i], b[i]>>]
    BY <2>1
  <2>3. /\ module.functions = fs /\ module.globalVariableCount = globals /\ module.bytecode = code
    OBVIOUS
  <2> HIDE DEF fs, module
  <2>4. WriteModule(module) =
          <<<<8, Len(fs)>>>>
            \o FlattenSeq([i \in DOMAIN fs |-> <<<<8, fs[i].address>>, <<2, fs[i].paramCount>>>>])
            \o <<<<2, globals>>, <<8, Len(code)>>>>
            \o [k \in DOMAIN code |-> <<1, code[k]>>]
    BY <2>3, Zenon DEF WriteModule
  <2> HIDE DEF a, b
  <2> QED BY <2>1, <2>2, <2>4, Zenon
<1> HIDE DEF head, pairs, counts, tail
<1>7. /\ u \in Seq(Fields) /\ Len(u) = 2 * n + 1
      /\ \A i \in 1..(2 * n + 1) : u[i] = IF i <= 1 THEN head[i] ELSE pairs[i - 1]
  <2>1. IsJoin(u, head, pairs, 1, Fields)
    BY <1>2, <1>3, Joined, Zenon
  <2> HIDE DEF u
  <2>2. 1 + Len(pairs) = 2 * n + 1
    BY <1>2
  <2> QED BY <2>1, <2>2 DEF IsJoin
<1> HIDE DEF u
<1>8. /\ v \in Seq(Fields) /\ Len(v) = 2 * n + 3
      /\ \A i \in 1..(2 * n + 3) : v[i] = IF i <= 2 * n + 1 THEN u[i] ELSE counts[i - (2 * n + 1)]
  <2>1. IsJoin(v, u, counts, 2 * n + 1, Fields)
    BY <1>4, <1>7, Joined, Zenon
  <2> HIDE DEF v
  <2> QED BY <1>4, <1>7, <2>1 DEF IsJoin
<1> HIDE DEF v
<1>9. /\ w \in Seq(Fields) /\ Len(w) = 2 * n + 3 + Len(code)
      /\ \A i \in 1..(2 * n + 3 + Len(code)) : w[i] = IF i <= 2 * n + 3 THEN v[i] ELSE tail[i - (2 * n + 3)]
  <2>1. IsJoin(w, v, tail, 2 * n + 3, Fields)
    BY <1>5, <1>8, Joined, Zenon
  <2> HIDE DEF w
  <2> QED BY <1>5, <1>8, <2>1 DEF IsJoin
<1> HIDE DEF w
<1>10. w[1] = <<8, n>>
  BY <1>3, <1>7, <1>8, <1>9
<1>11. ASSUME NEW i \in 1..n
       PROVE  w[2 * i] = <<8, address[i]>> /\ w[2 * i + 1] = <<2, count[i]>>
  <2>1. w[2 * i] = pairs[2 * i - 1] /\ w[2 * i + 1] = pairs[2 * i]
    <3>1. /\ 2 * i \in 1..(2 * n + 1) /\ 2 * i + 1 \in 1..(2 * n + 1)
          /\ ~(2 * i <= 1) /\ ~(2 * i + 1 <= 1) /\ (2 * i + 1) - 1 = 2 * i
      OBVIOUS
    <3>2. u[2 * i] = pairs[2 * i - 1] /\ u[2 * i + 1] = pairs[2 * i]
      BY <1>7, <3>1
    <3>3. v[2 * i] = u[2 * i] /\ v[2 * i + 1] = u[2 * i + 1]
      BY <1>8, <3>1
    <3>4. w[2 * i] = v[2 * i] /\ w[2 * i + 1] = v[2 * i + 1]
      BY <1>9, <3>1
    <3> QED BY <3>2, <3>3, <3>4
  <2> QED BY <1>2, <2>1
<1>12. w[2 * n + 2] = <<2, globals>> /\ w[2 * n + 3] = <<8, Len(code)>>
  <2>1. v[2 * n + 2] = counts[1] /\ v[2 * n + 3] = counts[2]
    BY <1>8
  <2>2. w[2 * n + 2] = v[2 * n + 2] /\ w[2 * n + 3] = v[2 * n + 3]
    BY <1>9
  <2> QED BY <1>4, <2>1, <2>2
<1>13. ASSUME NEW j \in 1..Len(code)
       PROVE  w[2 * n + 3 + j] = <<1, code[j]>>
  <2>1. w[2 * n + 3 + j] = tail[j]
    BY <1>9
  <2> QED BY <1>5, <2>1
<1> QED BY <1>6, <1>9, <1>10, <1>11, <1>12, <1>13 DEF IsModule

\* The bytecode of one module.
OneModule(n, address, count, globals, code, first, second) ==
  [entry   |-> [module |-> first, function |-> second],
   modules |-> <<[functions |-> [i \in 1..n |-> [address |-> address[i], paramCount |-> count[i]]],
                  globalVariableCount |-> globals, bytecode |-> code]>>]

IsReadBack(fbc) == ReadFbc(WriteFbc(fbc)) = fbc

\* What is written to a file is read from it.
LEMMA FileIsRead ==
  ASSUME NEW n \in Nat, NEW address \in [1..n -> Int], NEW count \in [1..n -> Int],
         NEW globals \in Int, NEW code \in Seq(Int), NEW first \in Int, NEW second \in Int
  PROVE  IsReadBack(OneModule(n, address, count, globals, code, first, second))
<1> DEFINE fs == [i \in 1..n |-> [address |-> address[i], paramCount |-> count[i]]]
           module == [functions |-> fs, globalVariableCount |-> globals, bytecode |-> code]
           fbc == [entry |-> [module |-> first, function |-> second], modules |-> <<module>>]
           w == WriteModule(module)
           head == <<<<4, Magic>>, <<4, 0>>, <<8, first>>, <<8, second>>, <<8, 1>>>>
           f == head \o w
<1>1. IsModule(w, n, address, count, globals, code)
  BY ModuleFields, Zenon
<1>2. WriteFbc(fbc) = f
  <2> DEFINE s == [i \in DOMAIN fbc.modules |-> WriteModule(fbc.modules[i])]
             IsFlat(g) == g = [i \in 1..Len(s) |-> IF i = 1 THEN s[i] ELSE g[i - 1] \o s[i]]
             v == CHOOSE g : IsFlat(g)
  <2>1. fbc.modules = <<module>>
    OBVIOUS
  <2>2. s = [i \in 1..1 |-> w] /\ Len(s) = 1 /\ s[1] = w
    <3> HIDE DEF module
    <3>1. DOMAIN <<module>> = 1..1 /\ <<module>>[1] = module
      OBVIOUS
    <3>2. \A i \in 1..1 : i = 1
      OBVIOUS
    <3> QED BY <3>1, <3>2
  <2>3. FlattenSeq(s) = w
    <3> HIDE DEF s, w
    <3>1. IsFlat([i \in 1..1 |-> w])
      BY <2>2
    <3>2. IsFlat(v)
      BY <3>1
    <3>3. FlattenSeq(s) = v[1]
      BY <2>2 DEF FlattenSeq
    <3> QED BY <2>2, <3>2, <3>3
  <2>4. WriteFbc(fbc) = <<<<4, Magic>>, <<4, 0>>, <<8, fbc.entry.module>>, <<8, fbc.entry.function>>,
                          <<8, Len(fbc.modules)>>>> \o FlattenSeq(s)
    BY DEF WriteFbc
  <2>5. fbc.entry.module = first /\ fbc.entry.function = second /\ Len(fbc.modules) = 1
    OBVIOUS
  <2> HIDE DEF s, fbc
  <2> QED BY <2>3, <2>4, <2>5
<1>3. /\ head \in Seq(Fields) /\ Len(head) = 5
      /\ head[3] = <<8, first>> /\ head[4] = <<8, second>> /\ head[5] = <<8, 1>>
  BY DEF Fields, Magic
<1> HIDE DEF head, w
<1> USE DEF IsModule
<1>4. /\ Len(f) = 5 + Len(w)
      /\ \A i \in 1..(5 + Len(w)) : f[i] = IF i <= 5 THEN head[i] ELSE w[i - 5]
  <2>1. IsJoin(f, head, w, 5, Fields)
    BY <1>1, <1>3, Joined, Zenon
  <2> HIDE DEF f
  <2> QED BY <1>1, <2>1 DEF IsJoin
<1> HIDE DEF f
<1>5. f[3] = <<8, first>> /\ f[4] = <<8, second>> /\ f[5] = <<8, 1>> /\ f[6] = <<8, n>>
  BY <1>1, <1>3, <1>4
<1>6. \A i \in 1..n : f[6 + 2 * i - 1] = <<8, address[i]>> /\ f[6 + 2 * i] = <<2, count[i]>>
  <2> TAKE i \in 1..n
  <2>1. /\ 6 + 2 * i - 1 \in 1..(5 + Len(w)) /\ 6 + 2 * i \in 1..(5 + Len(w))
        /\ ~(6 + 2 * i - 1 <= 5) /\ ~(6 + 2 * i <= 5)
        /\ (6 + 2 * i - 1) - 5 = 2 * i /\ (6 + 2 * i) - 5 = 2 * i + 1
    BY <1>1
  <2>2. f[6 + 2 * i - 1] = w[2 * i] /\ f[6 + 2 * i] = w[2 * i + 1]
    BY <1>4, <2>1
  <2> QED BY <1>1, <2>2
<1>7. /\ f[6 + 2 * n + 1] = <<2, globals>> /\ f[6 + 2 * n + 2] = <<8, Len(code)>>
      /\ \A j \in 1..Len(code) : f[6 + 2 * n + 2 + j] = <<1, code[j]>>
  <2>1. f[6 + 2 * n + 1] = w[2 * n + 2] /\ f[6 + 2 * n + 2] = w[2 * n + 3]
    <3>1. /\ 6 + 2 * n + 1 \in 1..(5 + Len(w)) /\ 6 + 2 * n + 2 \in 1..(5 + Len(w))
          /\ ~(6 + 2 * n + 1 <= 5) /\ ~(6 + 2 * n + 2 <= 5)
          /\ (6 + 2 * n + 1) - 5 = 2 * n + 2 /\ (6 + 2 * n + 2) - 5 = 2 * n + 3
      BY <1>1
    <3> QED BY <1>4, <3>1
  <2>2. \A j \in 1..Len(code) : f[6 + 2 * n + 2 + j] = w[2 * n + 3 + j]
    <3> TAKE j \in 1..Len(code)
    <3>1. /\ 6 + 2 * n + 2 + j \in 1..(5 + Len(w)) /\ ~(6 + 2 * n + 2 + j <= 5)
          /\ (6 + 2 * n + 2 + j) - 5 = 2 * n + 3 + j
      <4>1. Len(w) = 2 * n + 3 + Len(code) /\ Len(code) \in Nat
        BY <1>1, LenProperties
      <4> HIDE DEF IsModule
      <4> QED BY <4>1
    <3> QED BY <1>4, <3>1
  <2> QED BY <1>1, <2>1, <2>2
<1>8. ReadModule(f, 6).module = module
  <2>1. f[6][2] = n
    BY <1>5
  <2>2. f[6 + 2 * n + 2][2] = Len(code) /\ f[6 + 2 * n + 1][2] = globals
    BY <1>7
  <2>3. [i \in 1..n |-> [address |-> f[6 + 2 * i - 1][2], paramCount |-> f[6 + 2 * i][2]]] = fs
    BY <1>6
  <2>4. [j \in 1..Len(code) |-> f[6 + 2 * n + 2 + j][2]] = code
    <3>1. \A j \in 1..Len(code) : f[6 + 2 * n + 2 + j][2] = code[j]
      BY <1>7
    <3> QED BY <3>1
  <2> HIDE DEF fs
  <2> QED BY <2>1, <2>2, <2>3, <2>4 DEF ReadModule
<1>9. ReadFbc(f).modules = <<module>>
  <2> DEFINE m == ReadModule(f, 6)
             Step(g, i) == IF i = 0 THEN [modules |-> << >>, next |-> 6]
                           ELSE LET before == g[i - 1]
                                    one    == ReadModule(f, before.next)
                                IN  [modules |-> Append(before.modules, one.module), next |-> one.next]
             IsDone(g) == g = [i \in 0..f[5][2] |-> Step(g, i)]
             g1 == [i \in 0..1 |-> IF i = 0 THEN [modules |-> << >>, next |-> 6]
                                   ELSE [modules |-> Append(<< >>, m.module), next |-> m.next]]
             v == CHOOSE g : IsDone(g)
  <2>1. f[5][2] = 1
    BY <1>5
  <2>2. IsDone(g1)
    <3>1. g1[0] = [modules |-> << >>, next |-> 6]
      OBVIOUS
    <3>2. g1[1] = [modules |-> Append(<< >>, m.module), next |-> m.next]
      OBVIOUS
    <3>3. g1 = [i \in 0..1 |-> g1[i]]
      OBVIOUS
    <3> HIDE DEF g1
    <3>4. \A i \in 0..1 : g1[i] = Step(g1, i)
      <4>1. Step(g1, 0) = g1[0]
        BY <3>1
      <4>2. Step(g1, 1) = g1[1]
        BY <3>1, <3>2, SMTT(30)
      <4>3. \A i \in 0..1 : i = 0 \/ i = 1
        OBVIOUS
      <4> HIDE DEF Step
      <4> QED BY <4>1, <4>2, <4>3
    <3> HIDE DEF Step
    <3> QED BY <2>1, <3>3, <3>4
  <2>3. IsDone(v)
    <3> HIDE DEF IsDone, g1
    <3> QED BY <2>2
  <2>4. ReadFbc(f).modules = v[1]. modules
    BY <2>1 DEF ReadFbc
  <2> HIDE DEF v
  <2>5. v[0] = Step(v, 0) /\ v[1] = Step(v, 1)
    <3> HIDE DEF Step
    <3> QED BY <2>1, <2>3
  <2>6. v[1].modules = Append(<< >>, m.module)
    <3>1. v[0].next = 6
      BY <2>5
    <3> HIDE DEF m
    <3>2. v[1] = [modules |-> Append(v[0].modules, ReadModule(f, v[0].next).module),
                  next |-> ReadModule(f, v[0].next).next]
      BY <2>5, SMTT(30)
    <3>3. v[0].modules = << >>
      BY <2>5
    <3> QED BY <3>1, <3>2, <3>3 DEF m
  <2> QED BY <1>8, <2>4, <2>6
<1>10. ReadFbc(f).entry = [module |-> first, function |-> second]
  BY <1>5 DEF ReadFbc
<1>11. ReadFbc(f) = [entry |-> ReadFbc(f).entry, modules |-> ReadFbc(f).modules]
  BY DEF ReadFbc
<1> QED BY <1>2, <1>9, <1>10, <1>11 DEF OneModule, IsReadBack
-----------------------------------------------------------------------------
(* The inductive invariant.                                                  *)

Names == Seq(STRING)
TokenTypes == {"number", "name", "keyword", "label", "global", "(", ")", ":"}
Codes == Bytes \cup 0..(Len(Mnemonics) - 1)

Tokens    == [type : TokenTypes, text : Names, number : 0..(LongModulus - 1)]
Functions == [name : Names, address : Nat, paramCount : 0..(LongModulus - 1), defined : BOOLEAN]
Addresses == [name : Names, address : Nat]   \* labels and patches
Listed    == [address : Nat, mnemonic : ToSet(Mnemonics), token : Nat \ {0}]

Scanned ==
  /\ source \in Sources
  /\ at \in 1..(Len(Content) + 1)
  /\ tokens \in Seq(Tokens)
  /\ phase \in {"scanning", "generating", "patching", "written"}

Generated ==
  /\ cursor \in 1..(Len(tokens) + 1)
  /\ bytecode \in Seq(Codes)
  /\ functions \in Seq(Functions)
  /\ labels \in Seq(Addresses)
  /\ patches \in Seq(Addresses)
  /\ listing \in Seq(Listed)
  /\ entry \in Nat
  /\ \A k \in 1..Len(labels) : labels[k].address <= Len(bytecode)
  /\ phase = "scanning" => cursor = 1 /\ bytecode = <<>> /\ functions = <<>> /\ labels = <<>>
                            /\ patches = <<>> /\ listing = <<>>

Size(k) == OperandSize(listing[k].mnemonic)
Arg(k)  == tokens[listing[k].token + 1]

\* The instructions of the listing follow one another in the bytecode.
Laid ==
  /\ IF listing = <<>> THEN bytecode = <<>> ELSE listing[1].address = 0
  /\ \A k \in 1..Len(listing) :
       /\ bytecode[listing[k].address + 1] = Opcode(listing[k].mnemonic)
       /\ listing[k].address + 1 + Size(k) <= Len(bytecode)
       /\ listing[k].address + 1 + Size(k) =
            IF k = Len(listing) THEN Len(bytecode) ELSE listing[k + 1].address
  /\ \A j \in 1..Len(listing) : \A k \in (j + 1)..Len(listing) :
       listing[j].address + 1 + Size(j) <= listing[k].address

Known(token) ==
  \/ token.type = "number"
  \/ token.type = "name" /\ Named(functions, token.text) # 0
  \/ token.type = "label" /\ Named(labels, token.text) # 0

\* The bytes of an operand are those of what its argument means.
Holds(k) ==
  /\ Known(Arg(k)) /\ Meaning(Arg(k)) \in Nat
  /\ \A j \in 1..Size(k) : bytecode[listing[k].address + 1 + j] = Encoded(Meaning(Arg(k)), Size(k))[j]

Awaits(k, p) ==
  /\ Size(k) = 8 /\ Arg(k).type = "label"
  /\ patches[p].name = Arg(k).text /\ patches[p].address = listing[k].address + 1

OperandsHold ==
  \A k \in 1..Len(listing) :
    Size(k) # 0 => Holds(k) \/ \E p \in 1..Len(patches) : Awaits(k, p)

PatchesAwaited ==
  \A p \in 1..Len(patches) : \E k \in 1..Len(listing) : Awaits(k, p)

IsStart(a) == a = Len(bytecode) \/ \E k \in 1..Len(listing) : listing[k].address = a

Targets ==
  /\ \A k \in 1..Len(labels) : IsStart(labels[k].address)
  /\ \A k \in 1..Len(functions) : functions[k].defined => IsStart(functions[k].address)

Written ==
  phase = "written" => patches = <<>> /\ bytecode # <<>> /\ file = WriteFbc(Fbc)

Inv == Scanned /\ Generated /\ Laid /\ OperandsHold /\ PatchesAwaited /\ Targets /\ Written
-----------------------------------------------------------------------------
(* Scanning.                                                                 *)

ContentIsText == Content \in Seq(STRING) /\ Len(Content) \in Nat

\* The moduli of the words of the machine are positive.
LEMMA Moduli ==
  LongModulus \in Nat \ {0} /\ ShortModulus \in Nat \ {0} /\ IntModulus \in Nat \ {0}
<1>1. ByteBase \in Nat \ {0}
  BY ByteBaseAssumption
<1>2. \A a, b \in Nat \ {0} : a * b \in Nat \ {0}
  OBVIOUS
<1>3. ShortModulus \in Nat \ {0}
  BY <1>1, <1>2, Zenon DEF ShortModulus
<1>4. IntModulus \in Nat \ {0}
  BY <1>3, <1>2, Zenon DEF IntModulus
<1>5. LongModulus \in Nat \ {0}
  BY <1>4, <1>2, Zenon DEF LongModulus
<1> QED BY <1>3, <1>4, <1>5

\* Skipping what is between tokens stays within the text.
LEMMA StartType ==
  ASSUME Scanned
  PROVE  ContentIsText /\ Start \in 1..(Len(Content) + 1)
<1>1. ContentIsText
  BY SourcesAssumption DEF Scanned, Content, ContentIsText
<1>2. at \in Nat \ {0} /\ at <= Len(Content) + 1
  BY DEF Scanned
<1>3. Start \in Nat \ {0} /\ Start <= Len(Content) + 1
  <2> DEFINE c == Content
  <2>1. c \in Seq(STRING)
    BY <1>1 DEF ContentIsText
  <2> HIDE DEF c
  <2>2. LET e == EndOf(c, at, Spaces) IN e \in Nat \ {0} /\ (at <= Len(c) + 1 => e <= Len(c) + 1)
    BY <1>2, <2>1, EndOfType
  <2> QED BY <1>2, <2>2 DEF c, Start
<1> QED BY <1>1, <1>3 DEF ContentIsText

\* The text that get_string takes, and where it ends.
LEMMA StringAtType ==
  ASSUME ContentIsText, NEW k \in 1..(Len(Content) + 1)
  PROVE  StringAt(k) \in Names /\ k + Len(StringAt(k)) \in 1..(Len(Content) + 1)
<1> DEFINE c == Content
           e == EndOf(c, k, Alphanumeric)
<1>1. c \in Seq(STRING) /\ k \in Nat \ {0} /\ k <= Len(c) + 1 /\ Len(c) \in Nat
  BY DEF ContentIsText
<1>2. StringAt(k) = SubSeq(c, k, e - 1)
  BY DEF StringAt
<1> HIDE DEF c
<1>3. /\ e \in Nat \ {0} /\ k <= e /\ e <= Len(c) + 1
  BY <1>1, EndOfType
<1> HIDE DEF e
<1>4. Len(SubSeq(c, k, e - 1)) = e - k
  BY <1>1, <1>3, PartLength
<1>5. SubSeq(c, k, e - 1) \in Seq(STRING)
  BY <1>1, <1>3
<1> QED BY <1>1, <1>2, <1>3, <1>4, <1>5 DEF c, Names

\* A token ends within the text and is added with a number of a word.
LEMMA TokenStep ==
  ASSUME Scanned, phase = "scanning",
         NEW type \in TokenTypes, NEW text \in Names, NEW number \in 0..(LongModulus - 1),
         NEW end \in 1..(Len(Content) + 1), Token(type, text, number, end)
  PROVE  Scanned'
<1> DEFINE t == [type |-> type, text |-> text, number |-> number]
<1>1. t \in Tokens
  BY DEF Tokens
<1>2. tokens \in Seq(Tokens) /\ tokens' = Append(tokens, t) /\ at' = end /\ UNCHANGED <<source, phase, fault>>
  BY DEF Token, Scanned
<1> HIDE DEF t
<1>3. tokens' \in Seq(Tokens)
  BY <1>1, <1>2
<1> QED BY <1>2, <1>3 DEF Scanned, Content

\* A step of the scanner keeps its types and touches no other phase.
LEMMA ScanStep ==
  ASSUME Scanned, Scan
  PROVE  Scanned' /\ phase = "scanning" /\ phase' \in {"scanning", "generating"}
<1> DEFINE size == Len(Content)
<1>1. ContentIsText /\ Start \in 1..(size + 1) /\ size \in Nat
  BY StartType DEF ContentIsText
<1>2. CASE ScanEnds
  BY <1>1, <1>2 DEF ScanEnds, Scans, Scanned, Content
<1>3. CASE SkipComment
  <2> DEFINE I == {i \in Start..size : Content[i] = "\n"}
             newline == IF I # {} THEN Min(I) ELSE 0
  <2>1. at' = 1 + (IF newline = 0 THEN size ELSE newline) /\ UNCHANGED <<source, tokens, phase, fault>>
    BY <1>3 DEF SkipComment, SelectInSubSeq
  <2>2. newline \in 0..size
    <3>1. CASE I = {}
      BY <1>1, <3>1
    <3>2. CASE I # {}
      <4>1. I \in SUBSET Nat
        BY <1>1
      <4>2. PICK x \in I : \A y \in I : x <= y
        BY <3>2, <4>1, Least
      <4>3. Min(I) \in I
        BY <4>2 DEF Min
      <4>4. I \subseteq 1..size
        BY <1>1
      <4> QED BY <3>2, <4>3, <4>4
    <3> QED BY <3>1, <3>2
  <2> HIDE DEF newline
  <2>3. at' \in 1..(size + 1)
    BY <1>1, <2>1, <2>2
  <2> QED BY <1>3, <2>1, <2>3 DEF SkipComment, ScansAt, Scans, Scanned, Content
<1>4. CASE ScanNumber
  <2> DEFINE c == Content
             end == EndOf(c, Start, ToSet(Digits))
             digits == SubSeq(c, Start, end - 1)
             number == NumberOf(digits, LongModulus)
             type == "number"
             none == <<>>
  <2>1. Token(type, none, number, end) /\ phase = "scanning"
    BY <1>4 DEF ScanNumber, ScansAt, Scans
  <2>2. c \in Seq(STRING) /\ Start \in Nat \ {0} /\ Start <= Len(c) + 1 /\ Len(c) \in Nat
    BY <1>1 DEF ContentIsText
  <2> HIDE DEF c
  <2>3. end \in Nat \ {0} /\ Start <= end /\ end <= Len(c) + 1
    BY <2>2, EndOfType
  <2> HIDE DEF end
  <2>4. Len(digits) \in Nat
    BY <2>2, <2>3, PartLength
  <2> HIDE DEF digits
  <2>5. number \in 0..(LongModulus - 1)
    BY <2>4, Moduli, NumberOfType
  <2>6. none \in Names /\ end \in 1..(Len(Content) + 1)
    BY <2>2, <2>3 DEF Names, c
  <2>8. type \in TokenTypes
    BY DEF TokenTypes
  <2> HIDE DEF number, none, type
  <2>7. Scanned'
    BY <2>1, <2>5, <2>6, <2>8, TokenStep
  <2> QED BY <2>1, <2>7 DEF Token
<1>5. CASE ScanName
  <2> DEFINE text == StringAt(Start)
             type == IF text \in DOMAIN Keywords THEN "keyword" ELSE "name"
             end  == Start + Len(text)
  <2>1. Token(type, text, 0, end) /\ phase = "scanning"
    BY <1>5 DEF ScanName, ScansAt, Scans
  <2>2. text \in Names /\ end \in 1..(Len(Content) + 1)
    BY <1>1, StringAtType, Zenon
  <2>5. type \in TokenTypes
    BY DEF TokenTypes
  <2>3. 0 \in 0..(LongModulus - 1)
    BY Moduli
  <2> HIDE DEF text, type, end
  <2>4. Scanned'
    BY <2>1, <2>2, <2>3, <2>5, TokenStep
  <2> QED BY <2>1, <2>4 DEF Token
<1>6. CASE ScanMarked
  <2>1. CASE NoString(Start + 1)
    BY <1>6, <2>1 DEF ScanMarked, StopScanning, ScansAt, Scans, Scanned, Content
  <2>2. CASE ~NoString(Start + 1)
    <3> DEFINE text == StringAt(Start + 1)
               type == IF Content[Start] = "." THEN "label" ELSE "global"
               end  == Start + 1 + Len(text)
    <3>1. Token(type, text, 0, end) /\ phase = "scanning"
      BY <1>6, <2>2 DEF ScanMarked, ScansAt, Scans
    <3>2. Start + 1 \in 1..(Len(Content) + 1)
      BY <1>1, <2>2 DEF NoString
    <3>3. text \in Names /\ end \in 1..(Len(Content) + 1)
      BY <1>1, <3>2, StringAtType, Zenon
    <3>6. type \in TokenTypes
      BY DEF TokenTypes
    <3>4. 0 \in 0..(LongModulus - 1)
      BY Moduli
    <3> HIDE DEF text, type, end
    <3>5. Scanned'
      BY <3>1, <3>3, <3>4, <3>6, TokenStep
    <3> QED BY <3>1, <3>5 DEF Token
  <2> QED BY <2>1, <2>2
<1>7. CASE ScanPunctuation
  <2> DEFINE type == Content[Start]
             end  == Start + 1
             none == <<>>
  <2>1. Token(type, none, 0, end) /\ phase = "scanning" /\ Start <= size /\ type \in {"(", ")", ":"}
    BY <1>7 DEF ScanPunctuation, ScansAt, Scans
  <2>2. none \in Names /\ end \in 1..(Len(Content) + 1)
    BY <1>1, <2>1 DEF Names
  <2>5. type \in TokenTypes
    <3> HIDE DEF type
    <3> QED BY <2>1 DEF TokenTypes
  <2>3. 0 \in 0..(LongModulus - 1)
    BY Moduli
  <2> HIDE DEF type, end, none
  <2>4. Scanned'
    BY <2>1, <2>2, <2>3, <2>5, TokenStep
  <2> QED BY <2>1, <2>4 DEF Token
<1>8. CASE ScanUnknown
  BY <1>8 DEF ScanUnknown, StopScanning, Scans, Scanned, Content
<1> QED BY <1>2, <1>3, <1>4, <1>5, <1>6, <1>7, <1>8 DEF Scan
-----------------------------------------------------------------------------
(* Tables: entries are found under their names.                              *)

\* Named is the number of the first entry with the name, and 0 if there is none.
LEMMA NamedFirst ==
  ASSUME NEW table, Len(table) \in Nat, NEW name
  PROVE  /\ Named(table, name) \in 0..Len(table)
         /\ Named(table, name) # 0 => table[Named(table, name)].name = name
         /\ \A j \in 1..Len(table) : table[j].name = name => Named(table, name) # 0 /\ Named(table, name) <= j
<1> DEFINE I == {i \in 1..Len(table) : table[i].name = name}
<1>1. Named(table, name) = IF I # {} THEN Min(I) ELSE 0
  BY DEF Named, SelectInSeq
<1>2. CASE I = {}
  BY <1>1, <1>2
<1>3. CASE I # {}
  <2>1. I \in SUBSET Nat
    OBVIOUS
  <2>2. PICK x \in I : \A y \in I : x <= y
    BY <1>3, <2>1, Least
  <2>3. Min(I) \in I /\ \A y \in I : Min(I) <= y
    BY <2>2 DEF Min
  <2>4. Named(table, name) \in I /\ \A y \in I : Named(table, name) <= y
    BY <1>1, <1>3, <2>3, Zenon
  <2> QED BY <2>4
<1> QED BY <1>2, <1>3

\* A name that is found keeps its entry when entries are added, and when
\* others change in anything but their names.
LEMMA NamedStays ==
  ASSUME NEW old, NEW new, Len(old) \in Nat, Len(new) \in Nat, Len(old) <= Len(new),
         \A j \in 1..Len(old) : new[j].name = old[j].name,
         NEW name, Named(old, name) # 0
  PROVE  Named(new, name) = Named(old, name)
<1> DEFINE a == Named(old, name)
           b == Named(new, name)
<1>1. /\ a \in 0..Len(old) /\ (a # 0 => old[a].name = name)
      /\ \A j \in 1..Len(old) : old[j].name = name => a # 0 /\ a <= j
  BY NamedFirst
<1>2. /\ b \in 0..Len(new) /\ (b # 0 => new[b].name = name)
      /\ \A j \in 1..Len(new) : new[j].name = name => b # 0 /\ b <= j
  BY NamedFirst
<1>3. a # 0
  OBVIOUS
<1> HIDE DEF a, b
<1>4. a \in 1..Len(new) /\ new[a].name = name
  BY <1>1, <1>3
<1>5. b # 0 /\ b <= a
  BY <1>2, <1>4
<1>6. b \in 1..Len(old) /\ old[b].name = name
  BY <1>1, <1>2, <1>5
<1>7. a <= b
  BY <1>1, <1>6
<1>8. a = b
  BY <1>1, <1>2, <1>5, <1>7
<1> QED BY <1>8 DEF a, b

\* A new name gets the next entry.
LEMMA NamedAdded ==
  ASSUME NEW X, NEW table \in Seq(X), NEW name, NEW e \in X, e.name = name, Named(table, name) = 0
  PROVE  Named(Append(table, e), name) = Len(table) + 1
<1> DEFINE new == Append(table, e)
           b   == Named(new, name)
<1>1. \A j \in 1..Len(table) : table[j].name # name
  BY NamedFirst
<1>2. /\ Len(new) = Len(table) + 1 /\ Len(table) \in Nat
      /\ new[Len(table) + 1] = e /\ \A j \in 1..Len(table) : new[j] = table[j]
  OBVIOUS
<1> HIDE DEF new
<1>3. /\ b \in 0..Len(new) /\ (b # 0 => new[b].name = name)
      /\ \A j \in 1..Len(new) : new[j].name = name => b # 0 /\ b <= j
  <2>1. Len(new) \in Nat
    BY <1>2
  <2> QED BY <2>1, NamedFirst
<1> HIDE DEF b
<1>4. b # 0 /\ b <= Len(table) + 1
  BY <1>2, <1>3
<1>5. b \notin 1..Len(table)
  BY <1>1, <1>2, <1>3
<1>6. b = Len(table) + 1
  BY <1>2, <1>3, <1>4, <1>5
<1> QED BY <1>6 DEF b, new

\* Instructions: opcodes, sizes, and the tables of the keywords.
LEMMA Instructions ==
  /\ Len(Mnemonics) = 22
  /\ \A m \in ToSet(Mnemonics) : Opcode(m) \in 0..21 /\ OperandSize(m) \in {0, 1, 2, 4, 8}
  /\ \A w \in DOMAIN Plain : Plain[w] \in ToSet(Mnemonics) /\ OperandSize(Plain[w]) = 0
  /\ \A w \in DOMAIN Variable : Variable[w] \in ToSet(Mnemonics) /\ OperandSize(Variable[w]) = 2
  /\ \A w \in DOMAIN Jump : Jump[w] \in ToSet(Mnemonics) /\ OperandSize(Jump[w]) = 8
  /\ {"IPUSH", "BIPUSH", "FPUSH", "SFPUSH"} \subseteq ToSet(Mnemonics)
  /\ OperandSize("BIPUSH") = 1 /\ OperandSize("IPUSH") = 4
  /\ OperandSize("SFPUSH") = 2 /\ OperandSize("FPUSH") = 8
<1> DEFINE M == {"NOP", "IPUSH", "BIPUSH", "FPUSH", "SFPUSH", "DUP", "SWAP", "POP", "RET",
                 "STR", "LOD", "STRG", "LODG", "JMP", "JZ", "JNZ", "CALL",
                 "ADD", "SUB", "MUL", "DIV", "MOD"}
<1>1. Len(Mnemonics) = 22 /\ DOMAIN Mnemonics = 1..22
  BY DEF Mnemonics
<1>2. \A k \in 1..22 : Mnemonics[k] \in M
  BY DEF Mnemonics
<1>3. \A m \in M : \E k \in 1..22 : Mnemonics[k] = m
  BY DEF Mnemonics
<1>4. ToSet(Mnemonics) = M
  <2>1. ToSet(Mnemonics) = {Mnemonics[k] : k \in 1..22}
    BY <1>1 DEF ToSet
  <2> HIDE DEF M
  <2> QED BY <1>2, <1>3, <2>1
<1>5. \A m \in M : Opcode(m) \in 0..21
  <2> TAKE m \in M
  <2>1. \E k \in 1..22 : Mnemonics[k] = m
    BY <1>3
  <2>2. (CHOOSE k \in 1..22 : Mnemonics[k] = m) \in 1..22
    BY <2>1
  <2> QED BY <1>1, <2>2 DEF Opcode
<1>6. \A m \in M : OperandSize(m) \in {0, 1, 2, 4, 8}
  BY DEF OperandSize
<1>7. \A w \in DOMAIN Plain : Plain[w] \in M /\ OperandSize(Plain[w]) = 0
  BY DEF Plain, OperandSize
<1>8. \A w \in DOMAIN Variable : Variable[w] \in M /\ OperandSize(Variable[w]) = 2
  BY DEF Variable, OperandSize
<1>9. \A w \in DOMAIN Jump : Jump[w] \in M /\ OperandSize(Jump[w]) = 8
  BY DEF Jump, OperandSize
<1>10. /\ {"IPUSH", "BIPUSH", "FPUSH", "SFPUSH"} \subseteq M
       /\ OperandSize("BIPUSH") = 1 /\ OperandSize("IPUSH") = 4
       /\ OperandSize("SFPUSH") = 2 /\ OperandSize("FPUSH") = 8
  BY DEF OperandSize
<1> HIDE DEF M
<1> QED BY <1>1, <1>4, <1>5, <1>6, <1>7, <1>8, <1>9, <1>10

\* An instruction has no operand or one of 1, 2, 4 or 8 bytes.
LEMMA Sizes ==
  \A m \in ToSet(Mnemonics) : OperandSize(m) \in Nat /\ (OperandSize(m) # 0 => OperandSize(m) \in {1, 2, 4, 8})
<1> TAKE m \in ToSet(Mnemonics)
<1>1. OperandSize(m) \in {0, 1, 2, 4, 8}
  BY Instructions
<1> QED BY <1>1

-----------------------------------------------------------------------------
(* The steps of code generation, by what they change.                        *)

\* An instruction without operand.
WritesPlain(m) ==
  /\ OperandSize(m) = 0 /\ cursor <= Len(tokens)
  /\ Emit(m, <<>>, 1) /\ UNCHANGED <<functions, patches>>

NewFunction == [name |-> Argument.text, address |-> 0, paramCount |-> 0, defined |-> FALSE]
NewPatch    == [name |-> Argument.text, address |-> Len(bytecode) + 1]

MeansNumber(number) ==
  Argument.type = "number" /\ number = Argument.number /\ UNCHANGED <<functions, patches>>

MeansFunction(number) ==
  /\ Argument.type = "name" /\ UNCHANGED patches
  /\ \/ Named(functions, Argument.text) = number + 1 /\ UNCHANGED functions
     \/ /\ Named(functions, Argument.text) = 0 /\ number = Len(functions)
        /\ functions' = Append(functions, NewFunction)

MeansLabel(number) ==
  /\ Argument.type = "label" /\ UNCHANGED <<functions, patches>>
  /\ Named(labels, Argument.text) # 0 /\ number = labels[Named(labels, Argument.text)].address

MeansLaterLabel ==
  /\ Argument.type = "label" /\ UNCHANGED functions
  /\ patches' = Append(patches, NewPatch)

\* An instruction and its operand.
WritesOperand(m, number) ==
  /\ OperandSize(m) # 0 /\ cursor + 1 <= Len(tokens)
  /\ Emit(m, Encoded(number, OperandSize(m)), 2)
  /\ \/ MeansNumber(number)
     \/ MeansFunction(number)
     \/ MeansLabel(number)
     \/ MeansLaterLabel /\ OperandSize(m) = 8

AddsFunction(new) ==
  LET k == Named(functions, new.name)
  IN  /\ new.defined /\ new.address = Len(bytecode) /\ cursor + 5 <= Len(tokens) + 1
      /\ \/ k = 0 /\ functions' = Append(functions, new)
         \/ k # 0 /\ ~functions[k].defined /\ functions' = [functions EXCEPT ![k] = new]
      /\ cursor' = cursor + 5
      /\ UNCHANGED <<source, scanner, phase, fault, bytecode, labels, patches, entry, file, listing>>

AddsLabel(name) ==
  /\ cursor + 2 <= Len(tokens) + 1
  /\ labels' = Append(labels, [name |-> name, address |-> Len(bytecode)])
  /\ cursor' = cursor + 2
  /\ UNCHANGED <<source, scanner, phase, fault, bytecode, functions, patches, entry, file, listing>>

Stops == UNCHANGED <<source, scanner, phase, generator>>

\* What the entries of the tables are.
LEMMA Types ==
  ASSUME Scanned, Generated
  PROVE  /\ cursor \in Nat \ {0} /\ cursor <= Len(tokens) + 1
         /\ Len(tokens) \in Nat /\ Len(bytecode) \in Nat /\ Len(functions) \in Nat
         /\ Len(labels) \in Nat /\ Len(patches) \in Nat /\ Len(listing) \in Nat
         /\ \A k \in 1..Len(tokens) : tokens[k] \in Tokens
         /\ \A k \in 1..Len(bytecode) : bytecode[k] \in Codes
         /\ \A k \in 1..Len(functions) : functions[k] \in Functions
         /\ \A k \in 1..Len(labels) : labels[k] \in Addresses
         /\ \A k \in 1..Len(patches) : patches[k] \in Addresses
         /\ \A k \in 1..Len(listing) : listing[k] \in Listed
<1>1. /\ tokens \in Seq(Tokens) /\ bytecode \in Seq(Codes) /\ functions \in Seq(Functions)
      /\ labels \in Seq(Addresses) /\ patches \in Seq(Addresses) /\ listing \in Seq(Listed)
      /\ cursor \in 1..(Len(tokens) + 1)
  BY DEF Scanned, Generated
<1>2. /\ Len(tokens) \in Nat /\ Len(bytecode) \in Nat /\ Len(functions) \in Nat
      /\ Len(labels) \in Nat /\ Len(patches) \in Nat /\ Len(listing) \in Nat
  BY <1>1, LenProperties
<1> QED BY <1>1, <1>2, ElementOfSeq

\* The texts and the numbers of the tokens.
LEMMA TokenFields ==
  ASSUME Scanned, Generated, NEW k \in 1..Len(tokens)
  PROVE  tokens[k].text \in Names /\ tokens[k].number \in Nat /\ tokens[k].number \in 0..(LongModulus - 1)
<1>1. tokens[k] \in Tokens
  BY Types
<1> QED BY <1>1, Moduli DEF Tokens

\* What the tokens ahead of the cursor are when Ahead says so.
LEMMA AheadTokens ==
  ASSUME Scanned, Generated
  PROVE  /\ \A a : Ahead(<<a>>) => cursor <= Len(tokens) /\ tokens[cursor].type = a
         /\ \A a, b : Ahead(<<a, b>>) => cursor + 1 <= Len(tokens) /\ Argument.type = b
         /\ \A a, b, c, d, e : Ahead(<<a, b, c, d, e>>) => cursor + 4 <= Len(tokens)
<1>1. cursor \in Nat \ {0} /\ Len(tokens) \in Nat
  BY Types
<1>2. ASSUME NEW a, Ahead(<<a>>) PROVE cursor <= Len(tokens) /\ tokens[cursor].type = a
  BY <1>1, <1>2 DEF Ahead
<1>3. ASSUME NEW a, NEW b, Ahead(<<a, b>>) PROVE cursor + 1 <= Len(tokens) /\ Argument.type = b
  BY <1>1, <1>3 DEF Ahead, Argument
<1>4. ASSUME NEW a, NEW b, NEW c, NEW d, NEW e, Ahead(<<a, b, c, d, e>>) PROVE cursor + 4 <= Len(tokens)
  BY <1>1, <1>4 DEF Ahead
<1> QED BY <1>2, <1>3, <1>4

\* A statement stops, writes an instruction, adds a function or a label, or is
\* the last (codegen.c:276-300 and 301-419).
LEMMA GenerateSteps ==
  ASSUME Scanned, Generated, Generate
  PROVE  /\ phase = "generating"
         /\ \/ Stops
            \/ \E m \in ToSet(Mnemonics) : WritesPlain(m)
            \/ \E m \in ToSet(Mnemonics), number \in Nat : WritesOperand(m, number)
            \/ \E name \in Names, n \in 0..(LongModulus - 1) :
                 AddsFunction([name |-> name, address |-> Len(bytecode), paramCount |-> n, defined |-> TRUE])
            \/ \E name \in Names : AddsLabel(name)
            \/ GenerationEnds
<1>1. /\ cursor \in Nat \ {0} /\ Len(tokens) \in Nat /\ Len(bytecode) \in Nat
      /\ Len(labels) \in Nat /\ Len(functions) \in Nat
  BY Types
<1>2. CASE DefineFunction
  <2> DEFINE k    == Named(functions, tokens[cursor].text)
             new  == [name |-> tokens[cursor].text, address |-> Len(bytecode),
                      paramCount |-> tokens[cursor + 2].number, defined |-> TRUE]
             full == <<"name", "(", "number", ")", ":">>
  <2>1. phase = "generating"
    BY <1>2 DEF DefineFunction, Generates
  <2>2. CASE ~Ahead(full) \/ (k # 0 /\ functions[k].defined)
    <3>1. Stops
      BY <1>2, <2>2 DEF DefineFunction, Stop, Stops
    <3> QED BY <2>1, <3>1
  <2>3. CASE Ahead(full) /\ ~(k # 0 /\ functions[k].defined)
    <3>1. /\ functions' = IF k = 0 THEN Append(functions, new) ELSE [functions EXCEPT ![k] = new]
          /\ cursor' = cursor + 5
          /\ UNCHANGED <<source, scanner, phase, fault, bytecode, labels, patches, entry, file, listing>>
      BY <1>2, <2>3 DEF DefineFunction
    <3>2. cursor + 4 <= Len(tokens)
      BY <2>3, AheadTokens, Zenon
    <3>3. cursor \in 1..Len(tokens) /\ cursor + 2 \in 1..Len(tokens) /\ cursor + 5 <= Len(tokens) + 1
      BY <1>1, <3>2
    <3>4. tokens[cursor].text \in Names /\ tokens[cursor + 2].number \in 0..(LongModulus - 1)
      BY <3>3, TokenFields
    <3>5. AddsFunction(new)
      BY <2>3, <3>1, <3>3 DEF AddsFunction
    <3> QED BY <2>1, <3>4, <3>5
  <2> QED BY <2>2, <2>3
<1>3. CASE DefineLabel
  <2>1. phase = "generating"
    BY <1>3 DEF DefineLabel, Generates
  <2>2. CASE ~Ahead(<<"name", ":">>)
    <3>1. Stops
      BY <1>3, <2>2 DEF DefineLabel, Stop, Stops
    <3> QED BY <2>1, <3>1
  <2>3. CASE Ahead(<<"name", ":">>)
    <3>1. /\ labels' = Append(labels, [name |-> tokens[cursor].text, address |-> Len(bytecode)])
          /\ cursor' = cursor + 2
          /\ UNCHANGED <<source, scanner, phase, fault, bytecode, functions, patches, entry, file, listing>>
      BY <1>3, <2>3 DEF DefineLabel
    <3>2. cursor + 1 <= Len(tokens)
      BY <2>3, AheadTokens, Zenon
    <3>3. cursor \in 1..Len(tokens) /\ cursor + 2 <= Len(tokens) + 1
      BY <1>1, <3>2
    <3>4. tokens[cursor].text \in Names
      BY <3>3, TokenFields
    <3>5. AddsLabel(tokens[cursor].text)
      BY <3>1, <3>3 DEF AddsLabel
    <3> QED BY <2>1, <3>4, <3>5
  <2> QED BY <2>2, <2>3
<1>4. CASE StopAtToken \/ StopAtGlobal \/ StopAtTarget
  BY <1>4 DEF StopAtToken, StopAtGlobal, StopAtTarget, Assembles, Generates, Stop, Stops
<1>5. CASE WritePlain
  <2>1. phase = "generating" /\ Ahead(<<"keyword">>) /\ Keyword \in DOMAIN Plain
        /\ Emit(Plain[Keyword], <<>>, 1) /\ UNCHANGED <<functions, patches>>
    BY <1>5 DEF WritePlain, Assembles, Generates, Keyword
  <2>2. cursor <= Len(tokens)
    BY <2>1, AheadTokens, Zenon
  <2>3. WritesPlain(Plain[Keyword]) /\ Plain[Keyword] \in ToSet(Mnemonics)
    BY <2>1, <2>2, Instructions DEF WritesPlain
  <2> QED BY <2>1, <2>3
<1>6. CASE WriteIpush
  <2> DEFINE number == Argument.number
  <2>1. phase = "generating"
    BY <1>6 DEF WriteIpush, Assembles, Generates
  <2>2. CASE Stop("argument is an int")
    BY <2>1, <2>2 DEF Stop, Stops
  <2>3. CASE ~Stop("argument is an int")
    <3>1. /\ Ahead(<<"keyword", "number">>) /\ UNCHANGED <<functions, patches>>
          /\ IF number < ByteBase \div 2 THEN Emit("BIPUSH", Encoded(number, 1), 2)
             ELSE Emit("IPUSH", Encoded(number, 4), 2)
      BY <1>6, <2>3 DEF WriteIpush
    <3>2. cursor + 1 <= Len(tokens) /\ Argument.type = "number"
      BY <3>1, AheadTokens, Zenon
    <3>3. number \in Nat
      <4>1. cursor + 1 \in 1..Len(tokens)
        BY <1>1, <3>2
      <4> QED BY <4>1, TokenFields DEF Argument
    <3>4. WritesOperand("BIPUSH", number) \/ WritesOperand("IPUSH", number)
      BY <3>1, <3>2, Instructions DEF WritesOperand, MeansNumber
    <3>5. "BIPUSH" \in ToSet(Mnemonics) /\ "IPUSH" \in ToSet(Mnemonics)
      BY Instructions
    <3> QED BY <2>1, <3>3, <3>4, <3>5
  <2> QED BY <2>2, <2>3
<1>7. CASE WriteFpush
  <2> DEFINE k     == Named(functions, Argument.text)
             index == IF k = 0 THEN Len(functions) ELSE k - 1
  <2>1. phase = "generating"
    BY <1>7 DEF WriteFpush, Assembles, Generates
  <2>2. CASE ~Ahead(<<"keyword", "name">>)
    BY <1>7, <2>1, <2>2 DEF WriteFpush, Stop, Stops
  <2>3. CASE Ahead(<<"keyword", "name">>)
    <3>1. /\ functions' = IF k # 0 THEN functions ELSE Append(functions, NewFunction)
          /\ IF index < ShortModulus THEN Emit("SFPUSH", Encoded(index, 2), 2)
             ELSE Emit("FPUSH", Encoded(index, 8), 2)
          /\ UNCHANGED patches
      BY <1>7, <2>3 DEF WriteFpush, NewFunction
    <3>2. cursor + 1 <= Len(tokens) /\ Argument.type = "name"
      BY <2>3, AheadTokens, Zenon
    <3>3. k \in Nat
      BY <1>1, NamedFirst
    <3> HIDE DEF k
    <3>4. index \in Nat /\ MeansFunction(index)
      <4>1. index \in Nat
        BY <1>1, <3>3
      <4>2. CASE k = 0
        <5>1. functions' = Append(functions, NewFunction) /\ index = Len(functions)
          BY <3>1, <4>2
        <5> HIDE DEF index
        <5> QED BY <3>1, <3>2, <4>2, <5>1 DEF MeansFunction, k
      <4>3. CASE k # 0
        <5>1. k = index + 1
          BY <3>3, <4>3
        <5>2. functions' = functions
          BY <3>1, <4>3
        <5>3. Named(functions, Argument.text) = index + 1
          BY <5>1 DEF k
        <5>4. UNCHANGED patches
          BY <3>1
        <5> HIDE DEF index
        <5> QED BY <3>2, <4>1, <5>2, <5>3, <5>4 DEF MeansFunction
      <4> QED BY <4>1, <4>2, <4>3
    <3> HIDE DEF index
    <3>5. WritesOperand("SFPUSH", index) \/ WritesOperand("FPUSH", index)
      BY <3>1, <3>2, <3>4, Instructions DEF WritesOperand
    <3>6. "SFPUSH" \in ToSet(Mnemonics) /\ "FPUSH" \in ToSet(Mnemonics)
      BY Instructions
    <3> QED BY <2>1, <3>4, <3>5, <3>6
  <2> QED BY <2>2, <2>3
<1>8. CASE WriteVariable
  <2> DEFINE number == Argument.number
  <2>1. phase = "generating" /\ Keyword \in DOMAIN Variable
    BY <1>8 DEF WriteVariable, Assembles, Generates, Keyword
  <2>2. CASE Stop("argument is a variable")
    BY <2>1, <2>2 DEF Stop, Stops
  <2>3. CASE ~Stop("argument is a variable")
    <3>1. /\ Ahead(<<"keyword", "number">>) /\ UNCHANGED <<functions, patches>>
          /\ Emit(Variable[Keyword], Encoded(number, 2), 2)
      BY <1>8, <2>3 DEF WriteVariable
    <3>2. cursor + 1 <= Len(tokens) /\ Argument.type = "number"
      BY <3>1, AheadTokens, Zenon
    <3>3. number \in Nat
      <4>1. cursor + 1 \in 1..Len(tokens)
        BY <1>1, <3>2
      <4> QED BY <4>1, TokenFields DEF Argument
    <3>4. WritesOperand(Variable[Keyword], number) /\ Variable[Keyword] \in ToSet(Mnemonics)
      BY <2>1, <3>1, <3>2, Instructions DEF WritesOperand, MeansNumber
    <3> QED BY <2>1, <3>3, <3>4
  <2> QED BY <2>2, <2>3
<1>9. CASE JumpToAddress
  <2> DEFINE number == Argument.number
  <2>1. /\ phase = "generating" /\ Keyword \in DOMAIN Jump
        /\ Ahead(<<"keyword", "number">>) /\ UNCHANGED <<functions, patches>>
        /\ Emit(Jump[Keyword], Encoded(number, 8), 2)
    BY <1>9 DEF JumpToAddress, Assembles, Generates, Keyword
  <2>2. cursor + 1 <= Len(tokens) /\ Argument.type = "number"
    BY <2>1, AheadTokens, Zenon
  <2>3. number \in Nat
    <3>1. cursor + 1 \in 1..Len(tokens)
      BY <1>1, <2>2
    <3> QED BY <3>1, TokenFields DEF Argument
  <2>4. WritesOperand(Jump[Keyword], number) /\ Jump[Keyword] \in ToSet(Mnemonics)
    BY <2>1, <2>2, Instructions DEF WritesOperand, MeansNumber
  <2> QED BY <2>1, <2>3, <2>4
<1>10. CASE JumpToLabel
  <2> DEFINE k      == Named(labels, Argument.text)
             number == IF k = 0 THEN 0 ELSE labels[k].address
  <2>1. /\ phase = "generating" /\ Keyword \in DOMAIN Jump
        /\ Ahead(<<"keyword", "label">>) /\ UNCHANGED functions
        /\ Emit(Jump[Keyword], Encoded(number, 8), 2)
        /\ patches' = IF k # 0 THEN patches ELSE Append(patches, NewPatch)
    BY <1>10 DEF JumpToLabel, Assembles, Generates, Keyword, NewPatch
  <2>2. cursor + 1 <= Len(tokens) /\ Argument.type = "label"
    BY <2>1, AheadTokens, Zenon
  <2>3. number \in Nat
    <3>1. k \in 0..Len(labels)
      BY <1>1, NamedFirst
    <3> HIDE DEF k
    <3>2. k # 0 => labels[k].address \in Nat
      <4>1. k # 0 => labels[k] \in Addresses
        BY <1>1, <3>1, Types
      <4> QED BY <4>1 DEF Addresses
    <3> QED BY <3>2
  <2>4. MeansLabel(number) \/ MeansLaterLabel
    BY <2>1, <2>2 DEF MeansLabel, MeansLaterLabel
  <2> HIDE DEF number
  <2>5. WritesOperand(Jump[Keyword], number) /\ Jump[Keyword] \in ToSet(Mnemonics)
    BY <2>1, <2>2, <2>4, Instructions DEF WritesOperand
  <2> QED BY <2>1, <2>3, <2>5
<1>11. CASE GenerationEnds
  BY <1>11 DEF GenerationEnds, Generates
<1> QED BY <1>2, <1>3, <1>4, <1>5, <1>6, <1>7, <1>8, <1>9, <1>10, <1>11 DEF Generate
-----------------------------------------------------------------------------
(* Steps that leave the tables alone.                                        *)

\* The invariant holds before the first token.
LEMMA InitInv == Init => Inv
<1> SUFFICES ASSUME Init PROVE Inv
  OBVIOUS
<1>1. /\ source \in Sources /\ at = 1 /\ tokens = <<>> /\ phase = "scanning"
      /\ cursor = 1 /\ bytecode = <<>> /\ functions = <<>> /\ labels = <<>> /\ patches = <<>>
      /\ entry = 0 /\ listing = <<>>
  BY DEF Init, ScannerInit
<1>2. Content \in Seq(STRING)
  BY <1>1, SourcesAssumption DEF Content
<1>3. Scanned
  BY <1>1, <1>2 DEF Scanned
<1>4. Generated
  BY <1>1 DEF Generated
<1>5. Laid /\ OperandsHold /\ PatchesAwaited /\ Targets
  BY <1>1 DEF Laid, OperandsHold, PatchesAwaited, Targets
<1>6. Written
  BY <1>1 DEF Written
<1> QED BY <1>3, <1>4, <1>5, <1>6 DEF Inv

\* Scanning keeps the invariant: nothing is generated yet.
LEMMA ScanInv ==
  ASSUME Inv, Scan, UNCHANGED generator
  PROVE  Inv'
<1>1. Scanned' /\ phase = "scanning" /\ phase' \in {"scanning", "generating"}
  BY ScanStep DEF Inv
<1>2. /\ cursor' = 1 /\ bytecode' = <<>> /\ functions' = <<>> /\ labels' = <<>> /\ patches' = <<>>
      /\ listing' = <<>> /\ entry' \in Nat
  BY <1>1 DEF Inv, Generated, generator
<1>3. Len(tokens') \in Nat
  BY <1>1 DEF Scanned
<1>4. Generated'
  BY <1>2, <1>3 DEF Generated
<1>5. Laid' /\ OperandsHold' /\ PatchesAwaited' /\ Targets'
  BY <1>2 DEF Laid, OperandsHold, PatchesAwaited, Targets
<1>6. Written'
  BY <1>1 DEF Written
<1> QED BY <1>1, <1>4, <1>5, <1>6 DEF Inv

\* The text and its tokens do not change after scanning.
LEMMA ScannedStays ==
  ASSUME Scanned, UNCHANGED <<source, scanner>>, phase' \in {"scanning", "generating", "patching", "written"}
  PROVE  Scanned'
BY DEF Scanned, scanner, Content

\* Whatever else changes, what was generated stays.
LEMMA GeneratedStays ==
  ASSUME Inv, UNCHANGED <<tokens, cursor, bytecode, functions, labels, patches, listing>>
  PROVE  /\ Laid' /\ OperandsHold' /\ PatchesAwaited' /\ Targets'
         /\ entry' \in Nat /\ (phase' = "scanning" => phase = "scanning") => Generated'
<1>1. Laid'
  BY DEF Inv, Laid, Size
<1>2. Targets'
  BY DEF Inv, Targets, IsStart
<1>3. PatchesAwaited'
  BY DEF Inv, PatchesAwaited, Awaits, Size, Arg
<1>4. OperandsHold'
  BY DEF Inv, OperandsHold, Holds, Awaits, Size, Arg, Known, Meaning
<1>5. ASSUME entry' \in Nat, phase' = "scanning" => phase = "scanning" PROVE Generated'
  BY <1>5 DEF Inv, Generated
<1> QED BY <1>1, <1>2, <1>3, <1>4, <1>5

\* An assertion that fails keeps the invariant.
LEMMA StopsInv ==
  ASSUME Inv, Stops
  PROVE  Inv'
<1>1. UNCHANGED <<source, scanner, phase, cursor, bytecode, functions, labels, patches, entry, file, listing>>
  BY DEF Stops, generator
<1>2. Scanned'
  BY <1>1, ScannedStays DEF Inv, Scanned
<1>3. Laid' /\ OperandsHold' /\ PatchesAwaited' /\ Targets' /\ Generated'
  BY <1>1, GeneratedStays DEF Inv, Generated, scanner
<1>4. Written'
  BY <1>1 DEF Inv, Written, Fbc
<1> QED BY <1>2, <1>3, <1>4 DEF Inv

\* The end of the tokens keeps the invariant.
LEMMA GenerationEndsInv ==
  ASSUME Inv, GenerationEnds
  PROVE  Inv'
<1>1. UNCHANGED <<source, scanner, cursor, bytecode, functions, labels, patches, file, listing>>
  BY DEF GenerationEnds
<1>2. /\ phase' = "patching"
      /\ entry' = LET main == Named(functions, MainName) IN IF main = 0 THEN 0 ELSE main - 1
  BY DEF GenerationEnds
<1>3. entry' \in Nat
  <2> DEFINE main == Named(functions, MainName)
  <2>1. main \in 0..Len(functions) /\ Len(functions) \in Nat
    BY Types, NamedFirst DEF Inv
  <2>2. entry' = IF main = 0 THEN 0 ELSE main - 1
    BY <1>2
  <2> HIDE DEF main
  <2> QED BY <2>1, <2>2
<1>4. Scanned'
  BY <1>1, <1>2, ScannedStays DEF Inv
<1>5. Laid' /\ OperandsHold' /\ PatchesAwaited' /\ Targets' /\ Generated'
  BY <1>1, <1>2, <1>3, GeneratedStays DEF Inv, scanner
<1>6. Written'
  BY <1>2 DEF Written
<1> QED BY <1>4, <1>5, <1>6 DEF Inv

\* Writing the file keeps the invariant.
LEMMA WriteFileInv ==
  ASSUME Inv, WriteFile
  PROVE  Inv'
<1>1. CASE ~CanTransfer(Fbc)
  <2>1. Stops
    BY <1>1 DEF WriteFile, Stop, Stops
  <2> QED BY <2>1, StopsInv
<1>2. CASE CanTransfer(Fbc)
  <2>1. /\ UNCHANGED <<source, scanner, cursor, bytecode, functions, labels, patches, entry, listing>>
        /\ phase' = "written" /\ file' = WriteFbc(Fbc) /\ patches = <<>>
    BY <1>2 DEF WriteFile
  <2>2. Scanned'
    BY <2>1, ScannedStays DEF Inv
  <2>3. Laid' /\ OperandsHold' /\ PatchesAwaited' /\ Targets' /\ Generated'
    BY <2>1, GeneratedStays DEF Inv, Generated, scanner
  <2>4. bytecode # <<>>
    <3>1. 1 \in DOMAIN Fbc.modules /\ Fbc.modules[1].bytecode = bytecode
      BY DEF Fbc
    <3> HIDE DEF Fbc
    <3> QED BY <1>2, <3>1 DEF CanTransfer
  <2>5. Fbc' = Fbc
    BY <2>1 DEF Fbc
  <2>6. Written'
    <3> HIDE DEF Fbc
    <3> QED BY <2>1, <2>4, <2>5 DEF Written
  <2> QED BY <2>2, <2>3, <2>6 DEF Inv
<1> QED BY <1>1, <1>2
-----------------------------------------------------------------------------
(* Steps that define functions and labels.                                   *)

\* What an argument means does not change when tables grow.
LEMMA MeaningStays ==
  ASSUME Len(functions) \in Nat, Len(functions') \in Nat, Len(functions) <= Len(functions'),
         \A j \in 1..Len(functions) : functions'[j].name = functions[j].name,
         Len(labels) \in Nat, Len(labels') \in Nat, Len(labels) <= Len(labels'),
         \A j \in 1..Len(labels) : labels'[j] = labels[j],
         NEW token, Known(token)
  PROVE  Known(token)' /\ Meaning(token)' = Meaning(token)
<1>1. CASE token.type = "number"
  BY <1>1 DEF Known, Meaning
<1>2. CASE token.type = "name"
  <2>1. Named(functions, token.text) # 0
    BY <1>2 DEF Known
  <2>2. Named(functions', token.text) = Named(functions, token.text)
    BY <2>1, NamedStays, Zenon
  <2> QED BY <1>2, <2>1, <2>2 DEF Known, Meaning
<1>3. CASE token.type = "label"
  <2>1. Named(labels, token.text) # 0
    BY <1>3 DEF Known
  <2>2. \A j \in 1..Len(labels) : labels'[j].name = labels[j].name
    OBVIOUS
  <2>3. Named(labels', token.text) = Named(labels, token.text)
    BY <2>1, <2>2, NamedStays, Zenon
  <2>4. Named(labels, token.text) \in 1..Len(labels)
    BY <2>1, NamedFirst
  <2> QED BY <1>3, <2>1, <2>3, <2>4 DEF Known, Meaning
<1> QED BY <1>1, <1>2, <1>3 DEF Known

\* An operand that holds still holds when its bytes stay and tables grow.
LEMMA HoldsStays ==
  ASSUME Len(functions) \in Nat, Len(functions') \in Nat, Len(functions) <= Len(functions'),
         \A j \in 1..Len(functions) : functions'[j].name = functions[j].name,
         Len(labels) \in Nat, Len(labels') \in Nat, Len(labels) <= Len(labels'),
         \A j \in 1..Len(labels) : labels'[j] = labels[j],
         NEW k, listing'[k] = listing[k], UNCHANGED tokens, Holds(k),
         \A j \in 1..Size(k) : bytecode'[listing[k].address + 1 + j] = bytecode[listing[k].address + 1 + j]
  PROVE  Holds(k)'
<1> DEFINE token == Arg(k)
<1>1. Known(token)' /\ Meaning(token)' = Meaning(token)
  <2>1. \A t : Known(t) => Known(t)' /\ Meaning(t)' = Meaning(t)
    BY MeaningStays
  <2>2. Arg(k)' = Arg(k)
    BY DEF Arg
  <2> QED BY <2>1, <2>2 DEF Holds
<1>2. Size(k)' = Size(k) /\ listing'[k].address = listing[k].address
  BY DEF Size
<1> DEFINE meaning == Meaning(Arg(k))
<1>3. ASSUME NEW j \in 1..Size(k)
      PROVE  bytecode'[listing'[k].address + 1 + j] = Encoded(meaning', Size(k)')[j]
  <2>1. bytecode[listing[k].address + 1 + j] = Encoded(meaning, Size(k))[j]
    BY DEF Holds
  <2>2. meaning' = meaning
    BY <1>1
  <2> HIDE DEF meaning
  <2> QED BY <1>2, <2>1, <2>2
<1> HIDE DEF meaning
<1>4. \A j \in 1..Size(k)' : bytecode'[listing'[k].address + 1 + j] = Encoded(meaning', Size(k)')[j]
  BY <1>2, <1>3
<1>5. meaning' \in Nat
  BY <1>1 DEF Holds, meaning
<1> QED BY <1>1, <1>4, <1>5 DEF Holds, meaning

\* The operands that hold, and the patches that are awaited, when only tables grow.
LEMMA TablesGrow ==
  ASSUME Inv, UNCHANGED <<tokens, bytecode, patches, listing>>,
         Len(functions') \in Nat, Len(functions) <= Len(functions'),
         \A j \in 1..Len(functions) : functions'[j].name = functions[j].name,
         Len(labels') \in Nat, Len(labels) <= Len(labels'),
         \A j \in 1..Len(labels) : labels'[j] = labels[j]
  PROVE  Laid' /\ OperandsHold' /\ PatchesAwaited'
<1>1. Laid'
  BY DEF Inv, Laid, Size
<1>2. PatchesAwaited'
  BY DEF Inv, PatchesAwaited, Awaits, Size, Arg
<1>3. OperandsHold'
  <2> SUFFICES ASSUME NEW k \in 1..Len(listing'), Size(k)' # 0
               PROVE  Holds(k)' \/ \E p \in 1..Len(patches') : Awaits(k, p)'
    BY DEF OperandsHold
  <2>1. k \in 1..Len(listing) /\ Size(k) # 0
    BY DEF Size
  <2>2. CASE Holds(k)
    <3>1. Len(functions) \in Nat /\ Len(labels) \in Nat
      BY Types DEF Inv
    <3>2. listing'[k] = listing[k] /\ UNCHANGED tokens
          /\ \A j \in 1..Size(k) : bytecode'[listing[k].address + 1 + j] = bytecode[listing[k].address + 1 + j]
      OBVIOUS
    <3>3. Holds(k)'
      BY <2>2, <3>1, <3>2, HoldsStays
    <3> QED BY <3>3
  <2>3. CASE ~Holds(k)
    <3>1. PICK p \in 1..Len(patches) : Awaits(k, p)
      BY <2>1, <2>3 DEF Inv, OperandsHold
    <3>2. Awaits(k, p)'
      BY <3>1 DEF Awaits, Size, Arg
    <3> QED BY <3>1, <3>2
  <2> QED BY <2>2, <2>3
<1> QED BY <1>1, <1>2, <1>3

\* Defining a label keeps the invariant.
LEMMA AddsLabelInv ==
  ASSUME Inv, phase = "generating", NEW name \in Names, AddsLabel(name)
  PROVE  Inv'
<1> DEFINE e == [name |-> name, address |-> Len(bytecode)]
<1>1. /\ labels' = Append(labels, e) /\ cursor' = cursor + 2 /\ cursor + 2 <= Len(tokens) + 1
      /\ UNCHANGED <<source, scanner, phase, bytecode, functions, patches, entry, listing>>
  BY DEF AddsLabel
<1>2. /\ cursor \in Nat \ {0} /\ Len(tokens) \in Nat /\ Len(bytecode) \in Nat
      /\ Len(functions) \in Nat /\ Len(labels) \in Nat
  BY Types DEF Inv
<1>3. e \in Addresses /\ e.address = Len(bytecode)
  BY <1>2 DEF Addresses
<1> HIDE DEF e
<1>4. /\ labels' \in Seq(Addresses) /\ Len(labels') = Len(labels) + 1
      /\ \A j \in 1..Len(labels) : labels'[j] = labels[j]
      /\ labels'[Len(labels) + 1] = e
  <2>1. labels \in Seq(Addresses)
    BY DEF Inv, Generated
  <2> QED BY <1>1, <1>3, <2>1, AppendProperties
<1>5. Scanned'
  BY <1>1, ScannedStays DEF Inv, Scanned
<1>6. Generated'
  <2>1. \A k \in 1..Len(labels) : labels[k].address <= Len(bytecode)
    BY DEF Inv, Generated
  <2>2. \A k \in 1..Len(labels') : labels'[k].address <= Len(bytecode')
    <3> TAKE k \in 1..Len(labels')
    <3>1. CASE k = Len(labels) + 1
      BY <1>1, <1>2, <1>3, <1>4, <3>1
    <3>2. CASE k # Len(labels) + 1
      BY <1>1, <1>2, <1>4, <2>1, <3>2
    <3> QED BY <3>1, <3>2
  <2>3. cursor' \in 1..(Len(tokens') + 1)
    BY <1>1, <1>2 DEF scanner
  <2> QED BY <1>1, <1>4, <2>2, <2>3 DEF Inv, Generated
<1>7. Laid' /\ OperandsHold' /\ PatchesAwaited'
  <2>1. UNCHANGED <<tokens, bytecode, patches, listing, functions>>
    BY <1>1 DEF scanner
  <2>2. /\ Len(functions') \in Nat /\ Len(functions) <= Len(functions')
        /\ \A j \in 1..Len(functions) : functions'[j].name = functions[j].name
        /\ Len(labels') \in Nat /\ Len(labels) <= Len(labels')
    BY <1>2, <1>4, <2>1
  <2> QED BY <1>4, <2>1, <2>2, TablesGrow
<1>8. Targets'
  <2>1. ASSUME NEW k \in 1..Len(labels')
        PROVE  \/ labels'[k].address = Len(bytecode')
               \/ \E l \in 1..Len(listing') : listing'[l].address = labels'[k].address
    <3>1. CASE k = Len(labels) + 1
      BY <1>1, <1>3, <1>4, <3>1
    <3>2. CASE k # Len(labels) + 1
      <4>1. k \in 1..Len(labels) /\ labels'[k] = labels[k]
        BY <1>2, <1>4, <3>2
      <4> QED BY <1>1, <4>1 DEF Inv, Targets, IsStart
    <3> QED BY <3>1, <3>2
  <2>2. ASSUME NEW k \in 1..Len(functions'), functions'[k].defined
        PROVE  \/ functions'[k].address = Len(bytecode')
               \/ \E l \in 1..Len(listing') : listing'[l].address = functions'[k].address
    BY <1>1, <2>2 DEF Inv, Targets, IsStart
  <2> QED BY <2>1, <2>2 DEF Targets, IsStart
<1>9. Written'
  BY <1>1 DEF Written
<1> QED BY <1>5, <1>6, <1>7, <1>8, <1>9 DEF Inv
\* Defining a function, one that was pushed before or a new one, keeps the
\* invariant.
LEMMA AddsFunctionInv ==
  ASSUME Inv, phase = "generating", NEW name \in Names, NEW n \in 0..(LongModulus - 1),
         AddsFunction([name |-> name, address |-> Len(bytecode), paramCount |-> n, defined |-> TRUE])
  PROVE  Inv'
<1> DEFINE new == [name |-> name, address |-> Len(bytecode), paramCount |-> n, defined |-> TRUE]
           k   == Named(functions, name)
<1>1. /\ cursor' = cursor + 5 /\ cursor + 5 <= Len(tokens) + 1
      /\ UNCHANGED <<source, scanner, phase, bytecode, labels, patches, entry, listing>>
      /\ \/ k = 0 /\ functions' = Append(functions, new)
         \/ k # 0 /\ ~functions[k].defined /\ functions' = [functions EXCEPT ![k] = new]
  BY DEF AddsFunction
<1>2. /\ cursor \in Nat \ {0} /\ Len(tokens) \in Nat /\ Len(bytecode) \in Nat
      /\ Len(functions) \in Nat /\ Len(labels) \in Nat
  BY Types DEF Inv
<1>3. new \in Functions /\ new.address = Len(bytecode) /\ new.name = name
  BY <1>2 DEF Functions
<1>4. k \in 0..Len(functions) /\ (k # 0 => functions[k].name = name)
  BY <1>2, NamedFirst
<1> HIDE DEF new, k
<1>5. /\ functions' \in Seq(Functions) /\ Len(functions') \in Nat /\ Len(functions) <= Len(functions')
      /\ \A j \in 1..Len(functions) : functions'[j].name = functions[j].name
      /\ \A j \in 1..Len(functions') :
           functions'[j] = new \/ (j \in 1..Len(functions) /\ functions'[j] = functions[j])
  <2>1. functions \in Seq(Functions)
    BY DEF Inv, Generated
  <2>2. CASE k = 0
    <3>1. /\ functions' \in Seq(Functions) /\ Len(functions') = Len(functions) + 1
          /\ \A j \in 1..Len(functions) : functions'[j] = functions[j]
          /\ functions'[Len(functions) + 1] = new
      BY <1>1, <1>3, <2>1, <2>2, AppendProperties
    <3> QED BY <1>2, <3>1
  <2>3. CASE k # 0
    <3>1. k \in 1..Len(functions) /\ functions' = [functions EXCEPT ![k] = new]
      BY <1>1, <1>2, <1>4, <2>3
    <3>2. /\ functions' \in Seq(Functions) /\ Len(functions') = Len(functions)
          /\ \A j \in 1..Len(functions) : functions'[j] = IF j = k THEN new ELSE functions[j]
      BY <1>3, <2>1, <3>1, ExceptSeq
    <3> QED BY <1>2, <1>3, <1>4, <3>1, <3>2
  <2> QED BY <2>2, <2>3
<1>6. Scanned'
  BY <1>1, ScannedStays DEF Inv, Scanned
<1>7. Generated'
  <2>1. cursor' \in 1..(Len(tokens') + 1)
    BY <1>1, <1>2 DEF scanner
  <2> QED BY <1>1, <1>5, <2>1 DEF Inv, Generated
<1>8. Laid' /\ OperandsHold' /\ PatchesAwaited'
  <2>1. UNCHANGED <<tokens, bytecode, patches, listing, labels>>
    BY <1>1 DEF scanner
  <2>2. /\ Len(labels') \in Nat /\ Len(labels) <= Len(labels')
        /\ \A j \in 1..Len(labels) : labels'[j] = labels[j]
    BY <1>2, <2>1
  <2> QED BY <1>5, <2>1, <2>2, TablesGrow
<1>9. Targets'
  <2>1. ASSUME NEW j \in 1..Len(functions'), functions'[j].defined
        PROVE  \/ functions'[j].address = Len(bytecode')
               \/ \E l \in 1..Len(listing') : listing'[l].address = functions'[j].address
    <3>1. CASE functions'[j] = new
      BY <1>1, <1>3, <3>1
    <3>2. CASE functions'[j] # new
      <4>1. j \in 1..Len(functions) /\ functions'[j] = functions[j]
        BY <1>5, <3>2
      <4> QED BY <1>1, <2>1, <4>1 DEF Inv, Targets, IsStart
    <3> QED BY <3>1, <3>2
  <2>2. ASSUME NEW j \in 1..Len(labels')
        PROVE  \/ labels'[j].address = Len(bytecode')
               \/ \E l \in 1..Len(listing') : listing'[l].address = labels'[j].address
    BY <1>1, <2>2 DEF Inv, Targets, IsStart
  <2> QED BY <2>1, <2>2 DEF Targets, IsStart
<1>10. Written'
  BY <1>1 DEF Written
<1> QED BY <1>6, <1>7, <1>8, <1>9, <1>10 DEF Inv
-----------------------------------------------------------------------------
(* Steps that write instructions.                                            *)

Emitted(m, operand) ==
  /\ UNCHANGED <<source, scanner, phase, labels, entry>>
  /\ cursor' \in 1..(Len(tokens) + 1)
  /\ bytecode' \in Seq(Codes) /\ Len(bytecode') = Len(bytecode) + 1 + OperandSize(m)
  /\ \A b \in 1..Len(bytecode) : bytecode'[b] = bytecode[b]
  /\ bytecode'[Len(bytecode) + 1] = Opcode(m)
  /\ \A j \in 1..OperandSize(m) : bytecode'[Len(bytecode) + 1 + j] = operand[j]
  /\ listing' \in Seq(Listed) /\ Len(listing') = Len(listing) + 1
  /\ \A k \in 1..Len(listing) : listing'[k] = listing[k]
  /\ listing'[Len(listing) + 1] = [address |-> Len(bytecode), mnemonic |-> m, token |-> cursor]

\* What Emit does to the bytecode and to the listing.
LEMMA EmitStep ==
  ASSUME Inv, NEW m \in ToSet(Mnemonics), NEW operand \in Seq(Bytes), Len(operand) = OperandSize(m),
         NEW taken \in Nat \ {0}, cursor + taken <= Len(tokens) + 1, Emit(m, operand, taken)
  PROVE  Emitted(m, operand)
<1> DEFINE line   == [address |-> Len(bytecode), mnemonic |-> m, token |-> cursor]
           opcode == <<Opcode(m)>>
           begun  == bytecode \o opcode
<1>1. /\ bytecode' = begun \o operand /\ cursor' = cursor + taken
      /\ listing' = Append(listing, line)
      /\ UNCHANGED <<source, scanner, phase, labels, entry>>
  BY DEF Emit
<1>2. /\ cursor \in Nat \ {0} /\ Len(tokens) \in Nat /\ Len(bytecode) \in Nat /\ Len(listing) \in Nat
      /\ OperandSize(m) \in Nat
  BY Types, Instructions DEF Inv
<1>3. bytecode \in Seq(Codes) /\ listing \in Seq(Listed)
  BY DEF Inv, Generated
<1>4. operand \in Seq(Codes)
  <2>1. Bytes \subseteq Codes
    BY DEF Codes
  <2> QED BY <2>1, SeqMonotonic, Zenon
<1>5. opcode \in Seq(Codes) /\ Len(opcode) = 1 /\ opcode[1] = Opcode(m)
  <2>1. Opcode(m) \in Codes
    BY Instructions DEF Codes
  <2> QED BY <2>1
<1>6. line \in Listed
  BY <1>2 DEF Listed
<1> HIDE DEF line, opcode
<1>7. /\ begun \in Seq(Codes) /\ Len(begun) = Len(bytecode) + 1
      /\ \A b \in 1..Len(bytecode) : begun[b] = bytecode[b]
      /\ begun[Len(bytecode) + 1] = Opcode(m)
  <2>1. IsJoin(begun, bytecode, opcode, Len(bytecode), Codes)
    BY <1>3, <1>5, Joined, Zenon
  <2> HIDE DEF begun
  <2>2. /\ begun \in Seq(Codes) /\ Len(begun) = Len(bytecode) + 1
        /\ \A b \in 1..(Len(bytecode) + 1) :
             begun[b] = IF b <= Len(bytecode) THEN bytecode[b] ELSE opcode[b - Len(bytecode)]
    BY <1>5, <2>1 DEF IsJoin
  <2> DEFINE l == Len(bytecode)
  <2>3. l \in Nat
    BY <1>2
  <2> HIDE DEF l
  <2>4. /\ \A b \in 1..l : b \in 1..(l + 1) /\ b <= l
        /\ l + 1 \in 1..(l + 1) /\ ~(l + 1 <= l) /\ (l + 1) - l = 1
    BY <2>3
  <2> QED BY <1>5, <2>2, <2>4 DEF l
<1> HIDE DEF begun
<1>8. /\ bytecode' \in Seq(Codes) /\ Len(bytecode') = Len(bytecode) + 1 + OperandSize(m)
      /\ \A b \in 1..(Len(bytecode) + 1) : bytecode'[b] = begun[b]
      /\ \A j \in 1..OperandSize(m) : bytecode'[Len(bytecode) + 1 + j] = operand[j]
  <2>1. IsJoin(begun \o operand, begun, operand, Len(bytecode) + 1, Codes)
    BY <1>4, <1>7, Joined, Zenon
  <2>2. IsJoin(bytecode', begun, operand, Len(bytecode) + 1, Codes)
    BY <1>1, <2>1, Zenon
  <2>3. /\ bytecode' \in Seq(Codes) /\ Len(bytecode') = Len(bytecode) + 1 + OperandSize(m)
        /\ \A b \in 1..(Len(bytecode) + 1 + OperandSize(m)) :
             bytecode'[b] = IF b <= Len(bytecode) + 1 THEN begun[b] ELSE operand[b - (Len(bytecode) + 1)]
    BY <2>2 DEF IsJoin
  <2> DEFINE l == Len(bytecode)
             size == OperandSize(m)
  <2>4. l \in Nat /\ size \in Nat
    BY <1>2
  <2> HIDE DEF l, size
  <2>5. /\ \A b \in 1..(l + 1) : b \in 1..(l + 1 + size) /\ b <= l + 1
        /\ \A j \in 1..size : /\ l + 1 + j \in 1..(l + 1 + size) /\ ~(l + 1 + j <= l + 1)
                              /\ (l + 1 + j) - (l + 1) = j
    BY <2>4
  <2> QED BY <2>3, <2>5 DEF l, size
<1>9. /\ \A b \in 1..Len(bytecode) : bytecode'[b] = bytecode[b]
      /\ bytecode'[Len(bytecode) + 1] = Opcode(m)
  BY <1>2, <1>7, <1>8
<1>10. /\ listing' \in Seq(Listed) /\ Len(listing') = Len(listing) + 1
       /\ \A k \in 1..Len(listing) : listing'[k] = listing[k]
       /\ listing'[Len(listing) + 1] = line
  BY <1>1, <1>3, <1>6, AppendProperties
<1>11. cursor' \in 1..(Len(tokens) + 1)
  BY <1>1, <1>2
<1> QED BY <1>1, <1>8, <1>9, <1>10, <1>11 DEF Emitted, line

\* A new instruction follows the ones before it.
LEMMA EmitLaid ==
  ASSUME Inv, NEW m \in ToSet(Mnemonics), NEW operand, Emitted(m, operand)
  PROVE  Laid'
<1>1. Len(listing) \in Nat /\ Len(bytecode) \in Nat /\ OperandSize(m) \in Nat
  BY Types, Instructions DEF Inv
<1>8. PICK n \in Nat, l \in Nat : n = Len(listing) /\ l = Len(bytecode)
  BY <1>1
<1>2. /\ Len(listing') = n + 1 /\ Len(bytecode') = l + 1 + OperandSize(m)
      /\ \A k \in 1..n : listing'[k] = listing[k]
      /\ listing'[n + 1] = [address |-> l, mnemonic |-> m, token |-> cursor]
      /\ \A b \in 1..l : bytecode'[b] = bytecode[b]
      /\ bytecode'[l + 1] = Opcode(m)
  BY <1>8 DEF Emitted
<1>3. /\ \A k \in 1..n : Size(k)' = Size(k) /\ Size(k) \in Nat /\ listing[k].address \in Nat
      /\ Size(n + 1)' = OperandSize(m) /\ listing'[n + 1].address = l
      /\ listing'[n + 1].mnemonic = m
  <2>1. \A k \in 1..n : listing[k].mnemonic \in ToSet(Mnemonics) /\ listing[k].address \in Nat
    BY <1>8, Types DEF Inv, Listed
  <2>2. \A k \in 1..n : OperandSize(listing[k].mnemonic) \in Nat
    BY <2>1, Instructions
  <2> QED BY <1>2, <2>1, <2>2 DEF Size
<1>4. /\ \A k \in 1..n :
           /\ bytecode[listing[k].address + 1] = Opcode(listing[k].mnemonic)
           /\ listing[k].address + 1 + Size(k) <= l
           /\ listing[k].address + 1 + Size(k) = IF k = n THEN l ELSE listing[k + 1].address
      /\ \A j \in 1..n : \A k \in (j + 1)..n : listing[j].address + 1 + Size(j) <= listing[k].address
  BY <1>8 DEF Inv, Laid
<1>5. listing'[1].address = 0 /\ listing' # <<>>
  <2>1. CASE listing = <<>>
    <3>1. n = 0 /\ bytecode = <<>>
      BY <1>8, <2>1 DEF Inv, Laid
    <3>2. l = 0
      BY <1>8, <3>1
    <3>3. listing'[1].address = 0 /\ Len(listing') = 1
      BY <1>2, <1>3, <3>1, <3>2
    <3> QED BY <3>3, EmptySeq
  <2>2. CASE listing # <<>>
    <3>1. listing[1].address = 0 /\ n # 0
      <4>1. listing \in Seq(Listed)
        BY DEF Inv, Generated
      <4> QED BY <1>8, <2>2, <4>1, EmptySeq DEF Inv, Laid
    <3>2. 1 \in 1..n
      BY <1>1, <3>1
    <3> QED BY <1>2, <3>1, <3>2
  <2> QED BY <2>1, <2>2
<1>6. ASSUME NEW k \in 1..(n + 1)
      PROVE  /\ bytecode'[listing'[k].address + 1] = Opcode(listing'[k].mnemonic)
             /\ listing'[k].address + 1 + Size(k)' <= l + 1 + OperandSize(m)
             /\ listing'[k].address + 1 + Size(k)' =
                  IF k = n + 1 THEN l + 1 + OperandSize(m) ELSE listing'[k + 1].address
  <2>1. CASE k = n + 1
    BY <1>1, <1>2, <1>3, <2>1
  <2>2. CASE k # n + 1
    <3>1. k \in 1..n /\ listing'[k] = listing[k] /\ Size(k)' = Size(k)
      BY <1>1, <1>2, <1>3, <2>2
    <3>2. listing[k].address + 1 \in 1..l
      BY <1>1, <1>3, <1>4, <3>1
    <3>3. bytecode'[listing[k].address + 1] = Opcode(listing[k].mnemonic)
      BY <1>2, <1>4, <3>1, <3>2
    <3>4. listing[k].address + 1 + Size(k) <= l + 1 + OperandSize(m)
      BY <1>1, <1>3, <1>4, <3>1, SMTT(30)
    <3>5. listing[k].address + 1 + Size(k) = listing'[k + 1].address
      <4>1. CASE k = n
        BY <1>3, <1>4, <3>1, <4>1
      <4>2. CASE k # n
        <5>1. k + 1 \in 1..n
          BY <1>1, <3>1, <4>2
        <5> QED BY <1>2, <1>4, <3>1, <4>2, <5>1
      <4> QED BY <4>1, <4>2
    <3> QED BY <2>2, <3>1, <3>3, <3>4, <3>5
  <2> QED BY <2>1, <2>2
<1>7. ASSUME NEW j \in 1..(n + 1), NEW k \in (j + 1)..(n + 1)
      PROVE  listing'[j].address + 1 + Size(j)' <= listing'[k].address
  <2>1. j \in 1..n /\ listing'[j] = listing[j] /\ Size(j)' = Size(j)
    BY <1>1, <1>2, <1>3
  <2>2. CASE k = n + 1
    BY <1>3, <1>4, <2>1, <2>2
  <2>3. CASE k # n + 1
    <3>1. k \in (j + 1)..n /\ k \in 1..n
      BY <1>1, <2>3
    <3> QED BY <1>2, <1>4, <2>1, <3>1
  <2> QED BY <2>2, <2>3
<1> QED BY <1>2, <1>5, <1>6, <1>7 DEF Laid

\* A new instruction whose operand holds or awaits its patch keeps the invariant.
LEMMA EmitInv ==
  ASSUME Inv, phase = "generating", NEW m \in ToSet(Mnemonics), NEW operand, Emitted(m, operand),
         functions' \in Seq(Functions), Len(functions) <= Len(functions'),
         \A j \in 1..Len(functions) : functions'[j] = functions[j],
         \A j \in 1..Len(functions') : j \in 1..Len(functions) \/ ~functions'[j].defined,
         patches' \in Seq(Addresses), Len(patches) <= Len(patches'),
         \A p \in 1..Len(patches) : patches'[p] = patches[p],
         NEW l \in Nat, l = Len(listing) + 1,
         OperandSize(m) # 0 => Holds(l)' \/ \E p \in 1..Len(patches') : Awaits(l, p)',
         \A p \in 1..Len(patches') : p \in 1..Len(patches) \/ Awaits(l, p)'
  PROVE  Inv'
<1>1. /\ Len(listing) \in Nat /\ Len(bytecode) \in Nat /\ Len(functions) \in Nat /\ Len(labels) \in Nat
      /\ Len(patches) \in Nat /\ Len(functions') \in Nat /\ OperandSize(m) \in Nat
  BY Types, Instructions, LenProperties, SMTT(30) DEF Inv
<1>2. /\ UNCHANGED <<source, scanner, phase, labels, entry>>
      /\ cursor' \in 1..(Len(tokens) + 1)
      /\ bytecode' \in Seq(Codes) /\ Len(bytecode') = Len(bytecode) + 1 + OperandSize(m)
      /\ \A b \in 1..Len(bytecode) : bytecode'[b] = bytecode[b]
      /\ listing' \in Seq(Listed) /\ Len(listing') = Len(listing) + 1
      /\ \A k \in 1..Len(listing) : listing'[k] = listing[k]
      /\ listing'[Len(listing) + 1] = [address |-> Len(bytecode), mnemonic |-> m, token |-> cursor]
  BY DEF Emitted
<1>3. Scanned'
  BY <1>2, ScannedStays DEF Inv, Scanned
<1>4. Generated'
  <2>1. cursor' \in 1..(Len(tokens') + 1)
    BY <1>2 DEF scanner
  <2>2. \A k \in 1..Len(labels') : labels'[k].address <= Len(bytecode')
    <3> SUFFICES ASSUME NEW k \in 1..Len(labels) PROVE labels[k].address <= Len(bytecode')
      BY <1>2
    <3>1. labels[k].address <= Len(bytecode) /\ labels[k].address \in Nat
      BY Types DEF Inv, Generated, Addresses
    <3> QED BY <1>1, <1>2, <3>1, SMTT(30)
  <2> QED BY <1>2, <2>1, <2>2 DEF Inv, Generated
<1>5. Laid'
  BY EmitLaid
<1>6. OperandsHold'
  <2> SUFFICES ASSUME NEW k \in 1..Len(listing'), Size(k)' # 0
               PROVE  Holds(k)' \/ \E p \in 1..Len(patches') : Awaits(k, p)'
    BY DEF OperandsHold
  <2>1. CASE k = l
    <3>1. Size(k)' = OperandSize(m)
      BY <1>2, <2>1 DEF Size
    <3> QED BY <2>1, <3>1
  <2>2. CASE k # l
    <3>1. k \in 1..Len(listing) /\ listing'[k] = listing[k]
      BY <1>1, <1>2, <2>2, SMTT(30)
    <3>2. Size(k)' = Size(k)
      BY <3>1 DEF Size
    <3>3. CASE Holds(k)
      <4>1. \A j \in 1..Size(k) : bytecode'[listing[k].address + 1 + j] = bytecode[listing[k].address + 1 + j]
        <5> TAKE j \in 1..Size(k)
        <5>1. listing[k].mnemonic \in ToSet(Mnemonics) /\ listing[k].address \in Nat
          BY <3>1, Types DEF Inv, Listed
        <5>2. OperandSize(listing[k].mnemonic) \in Nat
          BY <5>1, Sizes, Zenon
        <5>4. listing[k].address + 1 + Size(k) <= Len(bytecode)
          BY <3>1 DEF Inv, Laid
        <5> DEFINE a == listing[k].address
                   size == Size(k)
                   end == Len(bytecode)
        <5>5. a \in Nat /\ size \in Nat /\ end \in Nat /\ a + 1 + size <= end /\ j \in 1..size
          BY <1>1, <5>1, <5>2, <5>4 DEF Size
        <5> HIDE DEF a, size, end
        <5>6. a + 1 + j \in 1..end
          BY <5>5
        <5>3. listing[k].address + 1 + j \in 1..Len(bytecode)
          BY <5>6 DEF a, end
        <5> QED BY <1>2, <5>3
      <4>2. /\ \A j \in 1..Len(functions) : functions'[j].name = functions[j].name
            /\ Len(labels') \in Nat /\ Len(labels) <= Len(labels')
            /\ \A j \in 1..Len(labels) : labels'[j] = labels[j]
        BY <1>1, <1>2, SMTT(30)
      <4>3. UNCHANGED tokens
        BY <1>2 DEF scanner
      <4>4. Holds(k)'
        BY <1>1, <3>1, <3>3, <4>1, <4>2, <4>3, HoldsStays
      <4> QED BY <4>4
    <3>4. CASE ~Holds(k)
      <4>1. PICK p \in 1..Len(patches) : Awaits(k, p)
        BY <3>1, <3>2, <3>4 DEF Inv, OperandsHold
      <4>2. patches'[p] = patches[p] /\ UNCHANGED tokens
        BY <1>2 DEF scanner
      <4>3. Awaits(k, p)'
        BY <3>1, <4>1, <4>2 DEF Awaits, Size, Arg
      <4>4. p \in 1..Len(patches')
        BY <1>1, LenProperties
      <4> QED BY <4>3, <4>4
    <3> QED BY <3>3, <3>4
  <2> QED BY <2>1, <2>2
<1>7. PatchesAwaited'
  <2> SUFFICES ASSUME NEW p \in 1..Len(patches')
               PROVE  \E k \in 1..Len(listing') : Awaits(k, p)'
    BY DEF PatchesAwaited
  <2>1. CASE p \in 1..Len(patches)
    <3>1. PICK k \in 1..Len(listing) : Awaits(k, p)
      BY <2>1 DEF Inv, PatchesAwaited
    <3>2. /\ patches'[p] = patches[p] /\ UNCHANGED tokens /\ listing'[k] = listing[k]
          /\ k \in 1..Len(listing')
      BY <1>1, <1>2, <2>1 DEF scanner
    <3>3. Awaits(k, p)'
      BY <3>1, <3>2 DEF Awaits, Size, Arg
    <3> QED BY <3>2, <3>3
  <2>2. CASE p \notin 1..Len(patches)
    <3>1. l \in 1..Len(listing')
      BY <1>1, <1>2
    <3> QED BY <2>2, <3>1
  <2> QED BY <2>1, <2>2
<1>8. Targets'
  <2>1. ASSUME NEW a, a = Len(bytecode) \/ \E k \in 1..Len(listing) : listing[k].address = a
        PROVE  \E k \in 1..Len(listing') : listing'[k].address = a
    <3>1. CASE a = Len(bytecode)
      <4>1. l \in 1..Len(listing') /\ listing'[l].address = a
        BY <1>1, <1>2, <3>1
      <4> QED BY <4>1
    <3>2. CASE a # Len(bytecode)
      <4>1. PICK k \in 1..Len(listing) : listing[k].address = a
        BY <2>1, <3>2
      <4>2. k \in 1..Len(listing') /\ listing'[k] = listing[k]
        BY <1>1, <1>2
      <4> QED BY <4>1, <4>2
    <3> QED BY <3>1, <3>2
  <2>2. ASSUME NEW k \in 1..Len(labels')
        PROVE  \E j \in 1..Len(listing') : listing'[j].address = labels'[k].address
    <3>1. k \in 1..Len(labels) /\ labels'[k].address = labels[k].address
      BY <1>2
    <3>2. labels[k].address = Len(bytecode) \/ \E i \in 1..Len(listing) : listing[i].address = labels[k].address
      BY <3>1 DEF Inv, Targets, IsStart
    <3>3. \E j \in 1..Len(listing') : listing'[j].address = labels[k].address
      BY <2>1, <3>2
    <3> QED BY <3>1, <3>3
  <2>3. ASSUME NEW k \in 1..Len(functions'), functions'[k].defined
        PROVE  \E j \in 1..Len(listing') : listing'[j].address = functions'[k].address
    <3>1. k \in 1..Len(functions) /\ functions'[k] = functions[k]
      BY <2>3
    <3>2. functions[k].address = Len(bytecode) \/ \E i \in 1..Len(listing) : listing[i].address = functions[k].address
      BY <2>3, <3>1 DEF Inv, Targets, IsStart
    <3>3. \E j \in 1..Len(listing') : listing'[j].address = functions[k].address
      BY <2>1, <3>2
    <3> QED BY <3>1, <3>3
  <2> QED BY <2>2, <2>3 DEF Targets, IsStart
<1>9. Written'
  BY <1>2 DEF Written
<1> QED BY <1>3, <1>4, <1>5, <1>6, <1>7, <1>8, <1>9 DEF Inv

\* An instruction without operand keeps the invariant.
LEMMA WritesPlainInv ==
  ASSUME Inv, phase = "generating", NEW m \in ToSet(Mnemonics), WritesPlain(m)
  PROVE  Inv'
<1> DEFINE operand == <<>>
<1>1. /\ Emit(m, operand, 1) /\ UNCHANGED <<functions, patches>>
      /\ OperandSize(m) = 0 /\ cursor <= Len(tokens)
  BY DEF WritesPlain
<1>2. /\ cursor \in Nat /\ Len(tokens) \in Nat /\ Len(listing) \in Nat /\ Len(patches) \in Nat
  BY Types DEF Inv
<1>3. operand \in Seq(Bytes) /\ Len(operand) = OperandSize(m)
  BY <1>1, EmptySeq
<1> HIDE DEF operand
<1>4. Emitted(m, operand)
  <2>1. cursor + 1 <= Len(tokens) + 1 /\ 1 \in Nat \ {0}
    BY <1>1, <1>2
  <2> QED BY <1>1, <1>3, <2>1, EmitStep
<1>5. PICK l \in Nat : l = Len(listing) + 1
  BY <1>2
<1>6. functions \in Seq(Functions) /\ patches \in Seq(Addresses)
      /\ Len(functions) <= Len(functions) /\ Len(patches) <= Len(patches)
  BY Types DEF Inv, Generated
<1>7. /\ functions' \in Seq(Functions) /\ Len(functions) <= Len(functions')
      /\ \A j \in 1..Len(functions) : functions'[j] = functions[j]
      /\ \A j \in 1..Len(functions') : j \in 1..Len(functions) \/ ~functions'[j].defined
      /\ patches' \in Seq(Addresses) /\ Len(patches) <= Len(patches')
      /\ \A p \in 1..Len(patches) : patches'[p] = patches[p]
      /\ \A p \in 1..Len(patches') : p \in 1..Len(patches) \/ Awaits(l, p)'
  BY <1>1, <1>6
<1> QED BY <1>1, <1>4, <1>5, <1>7, EmitInv

\* An instruction with an operand, known or to be patched, keeps the invariant.
LEMMA WritesOperandInv ==
  ASSUME Inv, phase = "generating", NEW m \in ToSet(Mnemonics), NEW number \in Nat, WritesOperand(m, number)
  PROVE  Inv'
<1> DEFINE size == OperandSize(m)
           operand == Encoded(number, size)
<1>1. /\ Emit(m, operand, 2) /\ size # 0 /\ cursor + 1 <= Len(tokens)
      /\ \/ MeansNumber(number)
         \/ MeansFunction(number)
         \/ MeansLabel(number)
         \/ MeansLaterLabel /\ size = 8
  BY DEF WritesOperand
<1>2. /\ cursor \in Nat /\ Len(tokens) \in Nat /\ Len(listing) \in Nat /\ Len(bytecode) \in Nat
      /\ Len(patches) \in Nat /\ Len(functions) \in Nat /\ Len(labels) \in Nat
  BY Types DEF Inv
<1>3. size \in 0..8
  BY Instructions
<1>4. operand \in Seq(Bytes) /\ Len(operand) = size
  <2> HIDE DEF size, operand
  <2>1. operand \in [1..size -> Bytes] /\ size \in Nat
    <3>1. Encoded(number, size) \in [1..size -> Bytes]
      BY <1>3, EncodedBytes, Zenon
    <3> QED BY <1>3, <3>1 DEF operand
  <2> QED BY <2>1
<1> HIDE DEF operand
<1>5. Emitted(m, operand)
  <2>1. cursor + 2 <= Len(tokens) + 1 /\ 2 \in Nat \ {0}
    BY <1>1, <1>2
  <2> QED BY <1>1, <1>4, <2>1, EmitStep
<1>6. PICK l \in Nat : l = Len(listing) + 1
  BY <1>2
<1>7. /\ listing'[l] = [address |-> Len(bytecode), mnemonic |-> m, token |-> cursor]
      /\ UNCHANGED <<tokens, labels>>
      /\ \A j \in 1..size : bytecode'[Len(bytecode) + 1 + j] = operand[j]
  BY <1>5, <1>6 DEF Emitted, scanner
<1>8. Size(l)' = size /\ Arg(l)' = Argument
  BY <1>7 DEF Size, Arg, Argument
<1>9. functions \in Seq(Functions) /\ patches \in Seq(Addresses)
      /\ Len(functions) <= Len(functions) /\ Len(patches) <= Len(patches)
  BY <1>2 DEF Inv, Generated
<1>10. /\ functions' \in Seq(Functions) /\ Len(functions) <= Len(functions')
       /\ \A j \in 1..Len(functions) : functions'[j] = functions[j]
       /\ \A j \in 1..Len(functions') : j \in 1..Len(functions) \/ ~functions'[j].defined
  <2>1. CASE functions' = functions
    BY <1>9, <2>1
  <2>2. CASE functions' = Append(functions, NewFunction)
    <3>1. NewFunction \in Functions /\ ~NewFunction.defined
      <4>1. cursor + 1 \in 1..Len(tokens)
        BY <1>1, <1>2
      <4>2. Argument.text \in Names
        BY <4>1, TokenFields DEF Inv, Argument
      <4>3. 0 \in 0..(LongModulus - 1)
        BY Moduli
      <4> QED BY <4>2, <4>3 DEF NewFunction, Functions
    <3>2. /\ functions' \in Seq(Functions) /\ Len(functions') = Len(functions) + 1
          /\ \A j \in 1..Len(functions) : functions'[j] = functions[j]
          /\ functions'[Len(functions) + 1] = NewFunction
      BY <1>9, <2>2, <3>1, AppendProperties
    <3> QED BY <1>2, <3>1, <3>2
  <2> QED BY <1>1, <2>1, <2>2 DEF MeansNumber, MeansFunction, MeansLabel, MeansLaterLabel
<1>11. CASE MeansLaterLabel /\ size = 8
  <2>1. patches' = Append(patches, NewPatch) /\ Argument.type = "label"
    BY <1>11 DEF MeansLaterLabel
  <2>2. NewPatch \in Addresses
    <3>1. cursor + 1 \in 1..Len(tokens)
      BY <1>1, <1>2
    <3>2. Argument.text \in Names
      BY <3>1, TokenFields DEF Inv, Argument
    <3> QED BY <1>2, <3>2 DEF NewPatch, Addresses
  <2>3. /\ patches' \in Seq(Addresses) /\ Len(patches') = Len(patches) + 1
        /\ \A p \in 1..Len(patches) : patches'[p] = patches[p]
        /\ patches'[Len(patches) + 1] = NewPatch
    BY <1>9, <2>1, <2>2, AppendProperties
  <2>4. PICK p \in Nat : p = Len(patches) + 1
    BY <1>2
  <2>5. Awaits(l, p)'
    <3>1. patches'[p] = [name |-> Argument.text, address |-> Len(bytecode) + 1]
      BY <2>3, <2>4 DEF NewPatch
    <3>2. Arg(l)'.type = "label" /\ Arg(l)'.text = Argument.text
      BY <1>8, <2>1
    <3> QED BY <1>7, <1>8, <1>11, <3>1, <3>2 DEF Awaits
  <2>6. /\ Len(patches) <= Len(patches') /\ p \in 1..Len(patches')
        /\ \A q \in 1..Len(patches') : q \in 1..Len(patches) \/ q = p
    BY <1>2, <2>3, <2>4
  <2>7. /\ \E q \in 1..Len(patches') : Awaits(l, q)'
        /\ \A q \in 1..Len(patches') : q \in 1..Len(patches) \/ Awaits(l, q)'
    BY <2>5, <2>6
  <2> QED BY <1>5, <1>6, <1>10, <2>3, <2>6, <2>7, EmitInv
<1>12. CASE ~(MeansLaterLabel /\ size = 8)
  <2>1. UNCHANGED patches
    BY <1>1, <1>12 DEF MeansNumber, MeansFunction, MeansLabel
  <2> DEFINE token == Argument
  <2>2. Known(Arg(l))' /\ Meaning(Arg(l))' = number
    <3>1. CASE MeansNumber(number)
      BY <1>8, <3>1 DEF MeansNumber, Known, Meaning
    <3>2. CASE MeansFunction(number)
      <4>1. Named(functions', Argument.text) = number + 1
        <5>1. CASE Named(functions, Argument.text) = number + 1 /\ UNCHANGED functions
          BY <5>1
        <5>2. CASE /\ Named(functions, Argument.text) = 0 /\ number = Len(functions)
                   /\ functions' = Append(functions, NewFunction)
          <6>1. NewFunction.name = Argument.text
            BY DEF NewFunction
          <6>2. NewFunction \in Functions
            <7>1. /\ functions'[Len(functions) + 1] = NewFunction /\ Len(functions') = Len(functions) + 1
              BY <1>9, <5>2
            <7>2. Len(functions) + 1 \in 1..Len(functions')
              BY <1>2, <7>1
            <7> QED BY <1>10, <7>1, <7>2, ElementOfSeq
          <6> QED BY <1>9, <5>2, <6>1, <6>2, NamedAdded
        <5> QED BY <3>2, <5>1, <5>2 DEF MeansFunction
      <4>2. Argument.type = "name"
        BY <3>2 DEF MeansFunction
      <4> QED BY <1>8, <4>1, <4>2 DEF Known, Meaning
    <3>3. CASE MeansLabel(number)
      BY <1>7, <1>8, <3>3 DEF MeansLabel, Known, Meaning
    <3> QED BY <1>1, <1>12, <3>1, <3>2, <3>3
  <2>3. Holds(l)'
    <3>1. \A j \in 1..size : bytecode'[listing'[l].address + 1 + j] = Encoded(number, size)[j]
      BY <1>7 DEF operand
    <3> HIDE DEF size
    <3> QED BY <1>8, <2>2, <3>1 DEF Holds
  <2>4. /\ patches' \in Seq(Addresses) /\ Len(patches) <= Len(patches')
        /\ \A p \in 1..Len(patches) : patches'[p] = patches[p]
        /\ \A p \in 1..Len(patches') : p \in 1..Len(patches) \/ Awaits(l, p)'
    BY <1>9, <2>1
  <2> QED BY <1>5, <1>6, <1>10, <2>3, <2>4, EmitInv
<1> QED BY <1>11, <1>12
-----------------------------------------------------------------------------
(* A patch fills in the operand that awaits it, and touches nothing else.    *)

\* Two instructions share no byte.
LEMMA LinesApart ==
  ASSUME Inv, NEW j \in 1..Len(listing), NEW l \in 1..Len(listing), j # l
  PROVE  /\ listing[j].address \in Nat /\ listing[l].address \in Nat /\ Size(j) \in Nat /\ Size(l) \in Nat
         /\ \/ listing[j].address + 1 + Size(j) <= listing[l].address
            \/ listing[l].address + 1 + Size(l) <= listing[j].address
<1>1. \A k \in 1..Len(listing) : listing[k].mnemonic \in ToSet(Mnemonics) /\ listing[k].address \in Nat
  BY Types DEF Inv, Listed
<1>2. \A k \in 1..Len(listing) : Size(k) \in Nat
  BY <1>1, Sizes, Zenon DEF Size
<1>3. \A i \in 1..Len(listing) : \A k \in (i + 1)..Len(listing) :
        listing[i].address + 1 + Size(i) <= listing[k].address
  BY DEF Inv, Laid
<1>4. Len(listing) \in Nat
  BY Types DEF Inv
<1>5. l \in (j + 1)..Len(listing) \/ j \in (l + 1)..Len(listing)
  BY <1>4
<1> QED BY <1>1, <1>2, <1>3, <1>5

\* A patch keeps the invariant.
LEMMA PatchInv ==
  ASSUME Inv, Patch
  PROVE  Inv'
<1> DEFINE patch == Last(patches)
           k     == Named(labels, patch.name)
           bytes == Encoded(labels[k].address, 8)
<1>1. CASE k = 0
  <2>1. Stops
    BY <1>1 DEF Patch, Stop, Stops
  <2> QED BY <2>1, StopsInv
<1>2. CASE k # 0
  <2>1. /\ phase = "patching" /\ patches # <<>>
        /\ bytecode' = [b \in DOMAIN bytecode |->
             IF b - patch.address \in 1..8 THEN bytes[b - patch.address] ELSE bytecode[b]]
        /\ patches' = Front(patches)
        /\ UNCHANGED <<source, scanner, phase, fault, cursor, functions, labels, entry, file, listing>>
    BY <1>2 DEF Patch
  <2>2. /\ Len(bytecode) \in Nat /\ Len(patches) \in Nat /\ Len(labels) \in Nat /\ Len(functions) \in Nat
        /\ Len(listing) \in Nat
        /\ bytecode \in Seq(Codes) /\ patches \in Seq(Addresses)
    BY Types DEF Inv, Generated
  <2>3. PICK n \in 1..Len(patches) : n = Len(patches) /\ patch = patches[n]
    <3>1. Len(patches) # 0
      BY <2>1, <2>2, EmptySeq
    <3> QED BY <2>2, <3>1 DEF Last
  <2>4. PICK l \in 1..Len(listing) : Awaits(l, n)
    BY <2>3 DEF Inv, PatchesAwaited
  <2>5. PICK a \in Nat : a = patch.address /\ a = listing[l].address + 1
    <3>1. patches[n] \in Addresses /\ patches[n].address = listing[l].address + 1
      BY <2>3, <2>4, Types DEF Inv, Awaits
    <3> QED BY <2>3, <3>1 DEF Addresses
  <2>6. /\ Size(l) = 8 /\ Arg(l).type = "label" /\ Arg(l).text = patch.name
    BY <2>3, <2>4 DEF Awaits
  <2>7. labels[k].address \in Nat /\ bytes \in [1..8 -> Bytes]
    <3>1. k \in 1..Len(labels)
      BY <1>2, <2>2, NamedFirst
    <3> HIDE DEF k
    <3>2. labels[k].address \in Nat
      BY <3>1, Types DEF Inv, Addresses
    <3>3. 8 \in 0..8
      OBVIOUS
    <3> QED BY <3>2, <3>3, EncodedBytes
  <2> HIDE DEF patch, k, bytes
  <2>8. /\ DOMAIN bytecode = 1..Len(bytecode)
        /\ \A b \in 1..Len(bytecode) : bytecode'[b] = IF b - a \in 1..8 THEN bytes[b - a] ELSE bytecode[b]
    BY <2>1, <2>2, <2>5, LenProperties
  <2>9. bytecode' \in Seq(Codes) /\ Len(bytecode') = Len(bytecode)
    <3>1. bytecode' \in [1..Len(bytecode) -> Codes]
      <4>1. ASSUME NEW b \in 1..Len(bytecode) PROVE bytecode'[b] \in Codes
        <5>1. bytecode[b] \in Codes
          BY <2>2, ElementOfSeq
        <5>2. ASSUME b - a \in 1..8 PROVE bytes[b - a] \in Codes
          BY <2>7, <5>2 DEF Codes
        <5> QED BY <2>8, <5>1, <5>2
      <4>2. bytecode' = [b \in 1..Len(bytecode) |-> bytecode'[b]]
        BY <2>1, <2>8
      <4> QED BY <4>1, <4>2, Zenon
    <3> QED BY <2>2, <3>1
  <2>10. /\ patches' \in Seq(Addresses) /\ Len(patches') = n - 1
         /\ \A q \in 1..(n - 1) : patches'[q] = patches[q]
    <3>1. patches' = SubSeq(patches, 1, n - 1)
      BY <2>1, <2>3 DEF Front
    <3> QED BY <2>2, <2>3, <3>1
  <2>11. ASSUME NEW j \in 1..Len(listing), j # l, NEW i \in 0..Size(j)
         PROVE  bytecode'[listing[j].address + 1 + i] = bytecode[listing[j].address + 1 + i]
    <3> DEFINE b    == listing[j].address
               c    == listing[l].address
               size == Size(j)
    <3>1. b \in Nat /\ c \in Nat /\ size \in Nat /\ (b + 1 + size <= c \/ c + 1 + 8 <= b)
      BY <2>6, <2>11, LinesApart
    <3>2. b + 1 + size <= Len(bytecode)
      BY DEF Inv, Laid
    <3>3. a = c + 1 /\ i \in 0..size
      BY <2>5
    <3> HIDE DEF b, c, size
    <3>4. b + 1 + i \in 1..Len(bytecode) /\ (b + 1 + i) - a \notin 1..8
      BY <2>2, <3>1, <3>2, <3>3
    <3>5. bytecode'[b + 1 + i] = bytecode[b + 1 + i]
      BY <2>8, <3>4
    <3> QED BY <3>5 DEF b
  <2>12. /\ bytecode'[listing[l].address + 1] = bytecode[listing[l].address + 1]
         /\ \A i \in 1..8 : bytecode'[listing[l].address + 1 + i] = bytes[i]
    <3>1. a + 8 <= Len(bytecode) /\ a \in 1..Len(bytecode)
      <4>1. listing[l].address + 1 + Size(l) <= Len(bytecode) /\ listing[l].address \in Nat
        BY Types DEF Inv, Laid, Listed
      <4> QED BY <2>2, <2>5, <2>6, <4>1
    <3>2. a - a \notin 1..8
      OBVIOUS
    <3>3. \A i \in 1..8 : a + i \in 1..Len(bytecode) /\ (a + i) - a = i
      BY <2>2, <3>1
    <3>4. bytecode'[a] = bytecode[a] /\ \A i \in 1..8 : bytecode'[a + i] = bytes[i]
      BY <2>8, <3>1, <3>2, <3>3
    <3> QED BY <2>5, <3>4
  <2>13. UNCHANGED <<tokens, listing, labels, functions, cursor, entry, phase>>
    BY <2>1 DEF scanner
  <2>14. Scanned'
    BY <2>1, ScannedStays DEF Inv, Scanned
  <2>15. Generated'
    <3>1. phase' # "scanning"
      BY <2>1
    <3> QED BY <2>9, <2>10, <2>13, <3>1 DEF Inv, Generated
  <2>16. Laid'
    <3>1. IF listing' = <<>> THEN bytecode' = <<>> ELSE listing'[1].address = 0
      BY <2>4, <2>13 DEF Inv, Laid
    <3>2. ASSUME NEW j \in 1..Len(listing)
          PROVE  bytecode'[listing[j].address + 1] = Opcode(listing[j].mnemonic)
      <4>1. bytecode[listing[j].address + 1] = Opcode(listing[j].mnemonic)
        BY DEF Inv, Laid
      <4>2. CASE j = l
        BY <2>12, <4>1, <4>2
      <4>3. CASE j # l
        <5>1. 0 \in 0..Size(j) /\ listing[j].address \in Nat
          BY <4>3, LinesApart
        <5>2. bytecode'[listing[j].address + 1 + 0] = bytecode[listing[j].address + 1 + 0]
          BY <2>11, <4>3, <5>1
        <5>3. listing[j].address + 1 + 0 = listing[j].address + 1
          BY <5>1
        <5> QED BY <4>1, <5>2, <5>3
      <4> QED BY <4>2, <4>3
    <3>3. \A j \in 1..Len(listing) : Size(j)' = Size(j)
      BY <2>13 DEF Size
    <3> QED BY <2>9, <2>13, <3>1, <3>2, <3>3 DEF Inv, Laid
  <2>17. OperandsHold'
    <3> SUFFICES ASSUME NEW j \in 1..Len(listing'), Size(j)' # 0
                 PROVE  Holds(j)' \/ \E p \in 1..Len(patches') : Awaits(j, p)'
      BY DEF OperandsHold
    <3>1. j \in 1..Len(listing) /\ Size(j)' = Size(j) /\ Arg(j)' = Arg(j)
      BY <2>13 DEF Size, Arg
    <3>2. CASE j = l
      <4>1. Named(labels, Arg(l).text) = k /\ k # 0
        BY <1>2, <2>6 DEF k
      <4>2. Known(Arg(l))' /\ Meaning(Arg(l))' = labels[k].address
        <5>1. Arg(l)'.type = "label" /\ Named(labels', Arg(l)'.text) = k
          BY <2>6, <2>13, <3>1, <3>2, <4>1
        <5> QED BY <2>13, <4>1, <5>1 DEF Known, Meaning
      <4>3. \A i \in 1..8 : bytecode'[listing'[l].address + 1 + i] = Encoded(labels[k].address, 8)[i]
        BY <2>12, <2>13 DEF bytes
      <4>4. Size(l)' = 8
        BY <2>6, <3>1, <3>2
      <4>5. Holds(l)'
        BY <2>7, <4>2, <4>3, <4>4 DEF Holds
      <4> QED BY <3>2, <4>5
    <3>3. CASE j # l /\ Holds(j)
      <4>1. \A i \in 1..Size(j) : bytecode'[listing[j].address + 1 + i] = bytecode[listing[j].address + 1 + i]
        BY <2>11, <3>1, <3>3
      <4>2. /\ Len(functions') \in Nat /\ Len(functions) <= Len(functions')
            /\ \A i \in 1..Len(functions) : functions'[i].name = functions[i].name
            /\ Len(labels') \in Nat /\ Len(labels) <= Len(labels')
            /\ \A i \in 1..Len(labels) : labels'[i] = labels[i]
            /\ listing'[j] = listing[j] /\ UNCHANGED tokens
        BY <2>2, <2>13
      <4>3. Holds(j)'
        BY <2>2, <3>3, <4>1, <4>2, HoldsStays
      <4> QED BY <4>3
    <3>4. CASE j # l /\ ~Holds(j)
      <4>1. PICK q \in 1..Len(patches) : Awaits(j, q)
        BY <3>1, <3>4 DEF Inv, OperandsHold
      <4>2. q # n
        <5>1. /\ listing[j].address \in Nat /\ listing[l].address \in Nat
              /\ Size(j) \in Nat /\ Size(l) \in Nat
              /\ \/ listing[j].address + 1 + Size(j) <= listing[l].address
                 \/ listing[l].address + 1 + Size(l) <= listing[j].address
          BY <3>1, <3>4, LinesApart
        <5>2. listing[j].address # listing[l].address
          BY <5>1
        <5> QED BY <2>4, <4>1, <5>1, <5>2, SMTT(30) DEF Awaits
      <4>3. q \in 1..(n - 1)
        BY <2>2, <2>3, <4>2
      <4>4. Awaits(j, q)'
        BY <2>10, <2>13, <3>1, <4>1, <4>3 DEF Awaits
      <4> QED BY <2>10, <4>3, <4>4
    <3> QED BY <3>2, <3>3, <3>4
  <2>18. PatchesAwaited'
    <3> SUFFICES ASSUME NEW q \in 1..Len(patches')
                 PROVE  \E j \in 1..Len(listing') : Awaits(j, q)'
      BY DEF PatchesAwaited
    <3>1. q \in 1..(n - 1) /\ q \in 1..Len(patches) /\ patches'[q] = patches[q]
      BY <2>2, <2>3, <2>10
    <3>2. PICK j \in 1..Len(listing) : Awaits(j, q)
      BY <3>1 DEF Inv, PatchesAwaited
    <3>3. Awaits(j, q)'
      BY <2>13, <3>1, <3>2 DEF Awaits, Size, Arg
    <3> QED BY <2>13, <3>3
  <2>19. Targets'
    BY <2>9, <2>13 DEF Inv, Targets, IsStart
  <2>20. Written'
    BY <2>1 DEF Written
  <2> QED BY <2>14, <2>15, <2>16, <2>17, <2>18, <2>19, <2>20 DEF Inv
<1> QED BY <1>1, <1>2
-----------------------------------------------------------------------------
\* Every step keeps the invariant.
LEMMA NextInv ==
  ASSUME Inv, [Next]_vars
  PROVE  Inv'
<1>1. CASE Scan /\ UNCHANGED generator
  BY <1>1, ScanInv
<1>2. CASE Generate
  <2>1. Scanned /\ Generated
    BY DEF Inv
  <2>2. /\ phase = "generating"
        /\ \/ Stops
           \/ \E m \in ToSet(Mnemonics) : WritesPlain(m)
           \/ \E m \in ToSet(Mnemonics), number \in Nat : WritesOperand(m, number)
           \/ \E name \in Names, n \in 0..(LongModulus - 1) :
                AddsFunction([name |-> name, address |-> Len(bytecode), paramCount |-> n, defined |-> TRUE])
           \/ \E name \in Names : AddsLabel(name)
           \/ GenerationEnds
    BY <1>2, <2>1, GenerateSteps
  <2> QED BY <2>2, StopsInv, WritesPlainInv, WritesOperandInv, AddsFunctionInv, AddsLabelInv, GenerationEndsInv
<1>3. CASE Patch
  BY <1>3, PatchInv
<1>4. CASE WriteFile
  BY <1>4, WriteFileInv
<1>5. CASE UNCHANGED vars
  <2>1. Stops
    BY <1>5 DEF vars, Stops
  <2> QED BY <2>1, StopsInv
<1> QED BY <1>1, <1>2, <1>3, <1>4, <1>5 DEF Next

\* The assembler never leaves the inductive invariant, whatever the text, the
\* keywords and the width of a byte.
THEOREM AssemblerInvariant == Spec => []Inv
<1>1. Init => Inv
  BY InitInv
<1>2. Inv /\ [Next]_vars => Inv'
  BY NextInv
<1> QED BY <1>1, <1>2, PTL DEF Spec

\* Addresses of labels and patches lie in the bytecode, every patch has its
\* eight bytes, and neither the scanner nor the generator runs past its end
\* (furas/src/lexer.c, codegen.c).
THEOREM AssemblerTypes == Spec => []TypeOK
<1>1. ASSUME Inv PROVE TypeOK
  <2>1. Scanned /\ Generated
    BY <1>1 DEF Inv
  <2>2. /\ bytecode \in Seq(Codes) /\ functions \in Seq(Functions) /\ labels \in Seq(Addresses)
        /\ patches \in Seq(Addresses) /\ Len(bytecode) \in Nat /\ Len(tokens) \in Nat
    BY <2>1, Types DEF Generated
  <2>3. ASSUME NEW k \in DOMAIN functions
        PROVE  functions[k].address \in Nat /\ functions[k].paramCount \in 0..(LongModulus - 1)
    <3>1. functions[k] \in Functions
      BY <2>2, LenProperties, ElementOfSeq
    <3> QED BY <3>1 DEF Functions
  <2>4. ASSUME NEW k \in DOMAIN labels
        PROVE  labels[k].address \in 0..Len(bytecode)
    <3>1. k \in 1..Len(labels) /\ labels[k] \in Addresses
      BY <2>2, LenProperties, ElementOfSeq
    <3>2. labels[k].address \in Nat /\ labels[k].address <= Len(bytecode)
      BY <2>1, <3>1 DEF Generated, Addresses
    <3> QED BY <2>2, <3>2
  <2>5. ASSUME NEW p \in DOMAIN patches
        PROVE  patches[p].address \in 1..(Len(bytecode) - 8)
    <3>1. p \in 1..Len(patches)
      BY <2>2, LenProperties
    <3>2. PICK k \in 1..Len(listing) : Awaits(k, p)
      BY <1>1, <3>1 DEF Inv, PatchesAwaited
    <3>3. listing[k].address + 1 + Size(k) <= Len(bytecode)
      BY <1>1 DEF Inv, Laid
    <3>4. listing[k].address \in Nat /\ Size(k) = 8 /\ patches[p].address = listing[k].address + 1
      BY <2>1, <3>2, Types DEF Awaits, Listed
    <3> QED BY <2>2, <3>3, <3>4
  <2>6. ASSUME NEW b \in DOMAIN bytecode
        PROVE  bytecode[b] \in Bytes \cup 0..(Len(Mnemonics) - 1)
    BY <2>2, LenProperties, ElementOfSeq DEF Codes
  <2>7. cursor \in 1..(Len(tokens) + 1) /\ at \in 1..(Len(Content) + 1)
    BY <2>1 DEF Scanned, Generated
  <2> QED BY <2>3, <2>4, <2>5, <2>6, <2>7 DEF TypeOK
<1> QED BY <1>1, AssemblerInvariant, PTL

\* No jump to a label and no call lands inside an operand (codegen.c:258-300).
THEOREM TargetsHold == Spec => []TargetsAreInstructions
<1>1. ASSUME Inv PROVE TargetsAreInstructions
  <2> DEFINE starts == {listing[k].address : k \in DOMAIN listing} \cup {Len(bytecode)}
  <2>1. /\ DOMAIN listing = 1..Len(listing) /\ DOMAIN labels = 1..Len(labels)
        /\ DOMAIN functions = 1..Len(functions)
    BY <1>1, LenProperties DEF Inv, Generated
  <2>2. \A a : IsStart(a) => a \in starts
    BY <2>1 DEF IsStart
  <2>3. /\ \A k \in DOMAIN labels : labels[k].address \in starts
        /\ \A k \in DOMAIN functions : functions[k].defined => functions[k].address \in starts
    <3> HIDE DEF starts
    <3> QED BY <1>1, <2>1, <2>2 DEF Inv, Targets
  <2> QED BY <2>3 DEF TargetsAreInstructions
<1> QED BY <1>1, AssemblerInvariant, PTL

\* A function that has an index keeps it, and once it is defined it is not
\* changed (codegen.c:74-83 and 276-294).
LEMMA FunctionsKept ==
  ASSUME Inv, [Next]_vars, NEW k \in DOMAIN functions
  PROVE  /\ k \in DOMAIN functions'
         /\ functions'[k].name = functions[k].name
         /\ functions[k].defined => functions'[k] = functions[k]
<1>1. CASE functions' = functions
  BY <1>1
<1>2. functions \in Seq(Functions) /\ DOMAIN functions = 1..Len(functions) /\ Len(functions) \in Nat
  BY LenProperties DEF Inv, Generated
<1>3. ASSUME NEW e, functions' = Append(functions, e)
      PROVE  k \in DOMAIN functions' /\ functions'[k] = functions[k]
  BY <1>2, <1>3
<1>4. ASSUME NEW new, new.name \in Names, AddsFunction(new)
      PROVE  /\ k \in DOMAIN functions'
             /\ functions'[k].name = functions[k].name
             /\ functions[k].defined => functions'[k] = functions[k]
  <2> DEFINE j == Named(functions, new.name)
  <2>1. j \in 0..Len(functions) /\ (j # 0 => functions[j].name = new.name)
    BY <1>2, NamedFirst
  <2>2. \/ functions' = Append(functions, new)
        \/ j # 0 /\ ~functions[j].defined /\ functions' = [functions EXCEPT ![j] = new]
    BY <1>4 DEF AddsFunction
  <2> HIDE DEF j
  <2>3. CASE functions' = Append(functions, new)
    BY <1>3, <2>3
  <2>4. CASE j # 0 /\ ~functions[j].defined /\ functions' = [functions EXCEPT ![j] = new]
    <3>1. DOMAIN functions' = DOMAIN functions /\ functions'[k] = IF k = j THEN new ELSE functions[k]
      BY <2>4
    <3> QED BY <2>1, <2>4, <3>1
  <2> QED BY <2>2, <2>3, <2>4
<1>5. CASE Scan /\ UNCHANGED generator
  BY <1>1, <1>5 DEF generator
<1>6. CASE Generate
  <2>1. Scanned /\ Generated
    BY DEF Inv
  <2>2. /\ \/ Stops
           \/ \E m \in ToSet(Mnemonics) : WritesPlain(m)
           \/ \E m \in ToSet(Mnemonics), number \in Nat : WritesOperand(m, number)
           \/ \E name \in Names, n \in 0..(LongModulus - 1) :
                AddsFunction([name |-> name, address |-> Len(bytecode), paramCount |-> n, defined |-> TRUE])
           \/ \E name \in Names : AddsLabel(name)
           \/ GenerationEnds
    BY <1>6, <2>1, GenerateSteps
  <2>3. CASE Stops
    BY <1>1, <2>3 DEF Stops, generator
  <2>4. ASSUME NEW m, WritesPlain(m) PROVE functions' = functions
    BY <2>4 DEF WritesPlain
  <2>5. ASSUME NEW m, NEW number, WritesOperand(m, number)
        PROVE  functions' = functions \/ functions' = Append(functions, NewFunction)
    BY <2>5 DEF WritesOperand, MeansNumber, MeansFunction, MeansLabel, MeansLaterLabel
  <2>6. CASE \E name \in Names : AddsLabel(name)
    BY <1>1, <2>6 DEF AddsLabel
  <2>7. CASE GenerationEnds
    BY <1>1, <2>7 DEF GenerationEnds
  <2>8. ASSUME NEW name \in Names, NEW n \in 0..(LongModulus - 1),
               AddsFunction([name |-> name, address |-> Len(bytecode), paramCount |-> n, defined |-> TRUE])
        PROVE  /\ k \in DOMAIN functions'
               /\ functions'[k].name = functions[k].name
               /\ functions[k].defined => functions'[k] = functions[k]
    BY <1>4, <2>8
  <2> QED BY <1>1, <1>3, <2>2, <2>3, <2>4, <2>5, <2>6, <2>7, <2>8
<1>7. CASE Patch
  BY <1>1, <1>7 DEF Patch, Stop, generator
<1>8. CASE WriteFile
  BY <1>1, <1>8 DEF WriteFile, Stop, generator
<1>9. CASE UNCHANGED vars
  BY <1>1, <1>9 DEF vars, generator
<1> QED BY <1>5, <1>6, <1>7, <1>8, <1>9 DEF Next

\* Functions keep their index and their name, and those that are defined their
\* address, whatever the text (codegen.c:74-83 and 276-294).
THEOREM IndexesHold == Spec => IndexesAreFinal
<1>1. ASSUME Inv, [Next]_vars
      PROVE  \A k \in DOMAIN functions :
               /\ k \in DOMAIN functions'
               /\ functions'[k].name = functions[k].name
               /\ functions[k].defined => functions'[k] = functions[k]
  BY <1>1, FunctionsKept
<1> QED BY <1>1, AssemblerInvariant, PTL DEF Spec, IndexesAreFinal

\* The file holds the functions and the entry, and its bytecode is the
\* instructions of the text one after the other with the operands these mean,
\* whatever the text, the keywords and the width of a byte: labels defined after
\* the jumps to them, functions pushed before their definition and all sizes of
\* operands included (codegen.c:146-153 and 276-419, bytecode.c,
\* executor.c:212-274).
THEOREM ListingHolds == Spec => []ListingReadsBack
<1>1. ASSUME Inv, phase = "written"
      PROVE  ReadFbc(file) = Fbc
  <2> DEFINE size      == Len(functions)
             addresses == [i \in 1..size |-> functions[i].address]
             counts    == [i \in 1..size |-> functions[i].paramCount % ShortModulus]
  <2>1. /\ functions \in Seq(Functions) /\ DOMAIN functions = 1..size /\ size \in Nat
        /\ bytecode \in Seq(Codes) /\ entry \in Nat
    BY <1>1, LenProperties DEF Inv, Generated
  <2>2. addresses \in [1..size -> Int]
    <3>1. \A i \in 1..size : functions[i].address \in Int
      <4> TAKE i \in 1..size
      <4>1. functions[i] \in Functions
        BY <2>1, ElementOfSeq
      <4> QED BY <4>1 DEF Functions
    <3> QED BY <3>1
  <2>3. counts \in [1..size -> Int]
    <3>1. \A i \in 1..size : functions[i].paramCount \in Nat
      <4> TAKE i \in 1..size
      <4>1. functions[i] \in Functions
        BY <2>1, ElementOfSeq
      <4> QED BY <4>1, Moduli DEF Functions
    <3> QED BY <3>1, Moduli
  <2>4. bytecode \in Seq(Int)
    <3>1. Codes \subseteq Int
      <4>1. Len(Mnemonics) \in Int
        BY Instructions
      <4> QED BY <4>1, ByteBaseAssumption DEF Codes, Bytes
    <3> QED BY <2>1, <3>1, SeqMonotonic, Zenon
  <2> DEFINE none == 0
             zero == 0
  <2>5. Fbc = OneModule(size, addresses, counts, none, bytecode, zero, entry)
    BY <2>1 DEF Fbc, OneModule
  <2>6. none \in Int /\ zero \in Int /\ entry \in Int
    BY <2>1
  <2>7. file = WriteFbc(Fbc)
    BY <1>1 DEF Inv, Written
  <2> HIDE DEF size, addresses, counts, none, zero
  <2>8. size \in Nat
    BY <2>1 DEF size
  <2>9. IsReadBack(Fbc)
    BY <2>2, <2>3, <2>4, <2>5, <2>6, <2>8, FileIsRead, Zenon
  <2> QED BY <2>7, <2>9 DEF IsReadBack
<1>2. ASSUME Inv, phase = "written", NEW k \in 1..Len(listing), Size(k) # 0, SignFree(Meaning(Arg(k)), Size(k))
      PROVE  OperandRead(bytecode, listing[k].address, Size(k)) = Meaning(Arg(k))
  <2>1. Scanned /\ Generated /\ Holds(k)
    <3>1. Len(patches) = 0
      BY <1>2, EmptySeq DEF Inv, Written
    <3> QED BY <1>2, <3>1 DEF Inv, OperandsHold
  <2>2. listing[k].mnemonic \in ToSet(Mnemonics) /\ listing[k].address \in Nat /\ listing[k].token \in Nat
    BY <2>1, Types DEF Listed
  <2>3. Size(k) \in {1, 2, 4, 8}
    BY <1>2, <2>2, Sizes DEF Size
  <2>4. listing[k].address + 1 + Size(k) <= Len(bytecode)
    BY <1>2 DEF Inv, Laid
  <2>5. Len(bytecode) \in Nat
    BY <2>1, Types
  <2>6. /\ Meaning(Arg(k)) \in Nat
        /\ \A j \in 1..Size(k) : bytecode[listing[k].address + 1 + j] = Encoded(Meaning(Arg(k)), Size(k))[j]
    BY <2>1 DEF Holds
  <2> DEFINE number == Meaning(Arg(k))
             size   == Size(k)
             a      == listing[k].address
  <2>7. /\ number \in Nat /\ size \in {1, 2, 4, 8} /\ SignFree(number, size) /\ a \in Nat
        /\ a + 1 + size <= Len(bytecode)
        /\ \A j \in 1..size : bytecode[a + 1 + j] = Encoded(number, size)[j]
    BY <1>2, <2>2, <2>3, <2>4, <2>6
  <2> HIDE DEF number, size, a
  <2>8. OperandRead(bytecode, a, size) = number
    BY <2>5, <2>7, EncodedIsRead, Zenon
  <2> QED BY <2>8 DEF number, size, a
<1>3. ASSUME Inv
      PROVE  ListingReadsBack
  <2> SUFFICES ASSUME phase = "written"
               PROVE  ListingReadsBack
    BY DEF ListingReadsBack
  <2>1. ReadFbc(file) = Fbc
    BY <1>1, <1>3
  <2>2. ReadFbc(file).modules[1].bytecode = bytecode
    BY <2>1 DEF Fbc
  <2>3. /\ listing \in Seq(Listed) /\ DOMAIN listing = 1..Len(listing)
        /\ bytecode # <<>>
    BY <1>3, LenProperties DEF Inv, Generated, Written
  <2>4. listing[1].address = 0
    BY <1>3, <2>3 DEF Inv, Laid
  <2>5. ASSUME NEW k \in 1..Len(listing)
        PROVE  /\ bytecode[listing[k].address + 1] = Opcode(listing[k].mnemonic)
               /\ listing[k].address + 1 + Size(k) =
                    IF k = Len(listing) THEN Len(bytecode) ELSE listing[k + 1].address
               /\ Size(k) > 0 /\ SignFree(Meaning(Arg(k)), Size(k)) =>
                    OperandRead(bytecode, listing[k].address, Size(k)) = Meaning(Arg(k))
    <3>1. Size(k) > 0 => Size(k) # 0
      OBVIOUS
    <3>2. Size(k) > 0 /\ SignFree(Meaning(Arg(k)), Size(k)) =>
            OperandRead(bytecode, listing[k].address, Size(k)) = Meaning(Arg(k))
      BY <1>2, <1>3, <3>1
    <3> QED BY <1>3, <3>2 DEF Inv, Laid
  <2> QED BY <2>1, <2>2, <2>3, <2>4, <2>5 DEF ListingReadsBack, Size, Arg
<1> QED BY <1>3, AssemblerInvariant, PTL
=============================================================================
