------------------------ MODULE CompilerLexerProofs -------------------------
(* The strings the compiler's lexer keeps never overlap, whatever the source *)
(* and the memory behind it hold, for every word size and region capacity.   *)
EXTENDS CompilerLexer, TextProofs

\* An arena whose regions hold no more than they have room for.
Region == [capacity : Nat, count : Nat]
WellFilled(a) ==
  /\ a \in Seq(Region)
  /\ \A k \in 1..Len(a) : a[k].count <= a[k].capacity

\* A block of a[b.region] that was handed out, with room for so many bytes.
Handed(b, a, size) ==
  /\ b.region \in 1..Len(a) /\ b.offset \in Nat /\ b.words \in Nat
  /\ b.offset + b.words <= a[b.region].count
  /\ size <= WordSize * b.words

IsSequence(s) == \E S : s \in Seq(S)

\* The inductive invariant: what is handed out lies below the count of its
\* region, so that the next block, which begins there, is apart from it.
StringsInv ==
  /\ source \in Sources /\ at \in Nat \ {0}
  /\ IsSequence(tokens)
  /\ WellFilled(arena)
  /\ phase = "loading" => tokens = <<>>
  /\ \A k \in Owners : Handed(BlockOf(k), arena, BytesOf(k))
  /\ \A j, k \in Owners : j # k => Apart(BlockOf(j), BlockOf(k))
-----------------------------------------------------------------------------
(* The arena.                                                                *)

\* The words of a block hold its bytes.
LEMMA WordsHoldBytes ==
  ASSUME NEW size \in Nat
  PROVE  WordsOf(size) \in Nat /\ size <= WordSize * WordsOf(size)
<1>1. WordSize \in Nat /\ WordSize > 0
  BY ArenaAssumption
<1> DEFINE n == size + WordSize - 1
<1>2. n \in Nat
  BY <1>1
<1> HIDE DEF n
<1>3. n \div WordSize \in Nat /\ n % WordSize \in 0..(WordSize - 1)
  BY <1>1, <1>2
<1>4. n = WordSize * (n \div WordSize) + (n % WordSize)
  BY <1>1, <1>2
<1> DEFINE w == WordSize * (n \div WordSize)
<1>5. w \in Int
  BY <1>1, <1>3
<1> HIDE DEF w
<1>6. n = w + (n % WordSize)
  BY <1>4 DEF w
<1>7. size <= w
  BY <1>1, <1>3, <1>5, <1>6 DEF n
<1> QED BY <1>3, <1>7 DEF WordsOf, n, w

LEMMA RegionTypes ==
  ASSUME NEW a, WellFilled(a)
  PROVE  /\ a \in Seq(Region) /\ Len(a) \in Nat
         /\ \A k \in 1..Len(a) :
              a[k] \in Region /\ a[k].count \in Nat /\ a[k].capacity \in Nat
<1>1. a \in Seq(Region) /\ Len(a) \in Nat /\ \A k \in 1..Len(a) : a[k] \in Region
  BY DEF WellFilled
<1>2. \A region \in Region : region.count \in Nat /\ region.capacity \in Nat
  BY DEF Region
<1> QED BY <1>1, <1>2

LEMMA RegionFilled ==
  ASSUME NEW region \in Region, NEW words \in Nat
  PROVE  LET f == [region EXCEPT !.count = @ + words]
         IN  /\ f \in Region /\ f.count = region.count + words
             /\ f.capacity = region.capacity
BY DEF Region

LEMMA RoomIsMade ==
  ASSUME NEW a, WellFilled(a), NEW words \in Nat
  PROVE  LET r == WithRoom(a, words)
         IN  /\ WellFilled(r) /\ Len(a) <= Len(r)
             /\ \A k \in 1..Len(a) : r[k] = a[k]
             /\ FirstFitting(r, words) \in 1..Len(r)
             /\ LET k == FirstFitting(r, words)
                IN  r[k].count + words <= r[k].capacity
<1> DEFINE r == WithRoom(a, words)
<1>0. a \in Seq(Region) /\ Len(a) \in Nat
  BY RegionTypes
<1>1. MinRegionCapacity \in Nat
  BY ArenaAssumption
<1>2. /\ NewRegion(words) \in Region
      /\ NewRegion(words).count = 0 /\ NewRegion(words).capacity \in Nat
      /\ words <= NewRegion(words).capacity
  BY <1>1 DEF NewRegion, Region
<1>3. /\ WellFilled(r) /\ Len(a) <= Len(r) /\ Fitting(r, words) # {}
      /\ \A k \in 1..Len(a) : r[k] = a[k]
  <2>1. CASE Fitting(a, words) = {}
    <3>1. r = Append(a, NewRegion(words))
      BY <2>1 DEF WithRoom
    <3>2. r \in Seq(Region) /\ Len(r) = Len(a) + 1
          /\ r[Len(a) + 1] = NewRegion(words)
          /\ \A k \in 1..Len(a) : r[k] = a[k]
      BY <1>0, <1>2, <3>1
    <3> HIDE DEF r
    <3>3. ASSUME NEW k \in 1..Len(r) PROVE r[k].count <= r[k].capacity
      <4>1. k \in 1..Len(a) \/ k = Len(a) + 1
        BY <1>0, <3>2
      <4>2. CASE k \in 1..Len(a)
        BY <3>2, <4>2 DEF WellFilled
      <4>3. CASE k = Len(a) + 1
        BY <1>1, <1>2, <3>2, <4>3
      <4> QED BY <4>1, <4>2, <4>3
    <3>4. Len(a) + 1 \in Fitting(r, words)
      BY <1>0, <1>2, <3>2 DEF Fitting
    <3> QED BY <1>0, <3>2, <3>3, <3>4 DEF WellFilled
  <2>2. CASE Fitting(a, words) # {}
    BY <1>0, <2>2 DEF WithRoom
  <2> QED BY <2>1, <2>2
<1> HIDE DEF r
<1>4. Fitting(r, words) \in SUBSET Nat
  BY <1>3 DEF Fitting, WellFilled
<1>5. FirstFitting(r, words) \in Fitting(r, words)
  <2>1. \E k \in Fitting(r, words) : \A j \in Fitting(r, words) : k <= j
    BY <1>3, <1>4, Least
  <2> QED BY <2>1 DEF FirstFitting
<1>6. FirstFitting(r, words) \in 1..Len(r)
  BY <1>3, <1>5 DEF Fitting, WellFilled
<1>7. r[FirstFitting(r, words)].count + words <= r[FirstFitting(r, words)].capacity
  BY <1>5 DEF Fitting
<1> QED BY <1>3, <1>6, <1>7 DEF r

\* A new block begins at the count its region had, and ends at the new one.
LEMMA BlockIsHanded ==
  ASSUME NEW a, WellFilled(a), NEW size \in Nat
  PROVE  LET b == BlockFor(a, size)
             f == Filled(a, size)
         IN  /\ WellFilled(f) /\ Len(a) <= Len(f)
             /\ \A k \in 1..Len(a) : a[k].count <= f[k].count
             /\ Handed(b, f, size)
             /\ b.region \in 1..Len(a) => b.offset = a[b.region].count
<1> DEFINE words == WordsOf(size)
           r == WithRoom(a, words)
           i == FirstFitting(r, words)
           b == BlockFor(a, size)
           f == Filled(a, size)
<1>1. words \in Nat /\ size <= WordSize * words
  BY WordsHoldBytes
<1>2. f = [r EXCEPT ![i].count = @ + words]
      /\ b = [region |-> i, offset |-> r[i].count, words |-> words]
  BY DEF Filled, BlockFor
<1> HIDE DEF words, f, b
<1>3. /\ WellFilled(r) /\ Len(a) <= Len(r) /\ i \in 1..Len(r)
      /\ \A k \in 1..Len(a) : r[k] = a[k]
      /\ r[i].count + words <= r[i].capacity
  BY <1>1, RoomIsMade
<1>4. a \in Seq(Region) /\ Len(a) \in Nat
  BY DEF WellFilled
<1> HIDE DEF r, i
<1>5. /\ r \in Seq(Region) /\ Len(r) \in Nat /\ r[i] \in Region
      /\ \A k \in 1..Len(r) : r[k].count \in Nat
  BY <1>3, RegionTypes
<1> DEFINE filled == [r[i] EXCEPT !.count = @ + words]
<1>6. filled \in Region /\ filled.count = r[i].count + words
      /\ filled.capacity = r[i].capacity
  BY <1>1, <1>5, RegionFilled
<1>7. f = [r EXCEPT ![i] = filled]
  BY <1>2
<1> HIDE DEF filled
<1>8. /\ f \in Seq(Region) /\ Len(f) = Len(r) /\ f[i] = filled
      /\ \A k \in 1..Len(r) : k # i => f[k] = r[k]
  BY <1>3, <1>5, <1>6, <1>7
<1>9. WellFilled(f)
  BY <1>3, <1>5, <1>6, <1>8 DEF WellFilled
<1>10. \A k \in 1..Len(r) : r[k].count <= f[k].count
  BY <1>1, <1>5, <1>6, <1>8
<1>11. \A k \in 1..Len(a) : a[k].count <= f[k].count
  BY <1>3, <1>4, <1>5, <1>10
<1>12. Handed(b, f, size)
  BY <1>1, <1>2, <1>3, <1>5, <1>6, <1>8 DEF Handed
<1>13. b.region \in 1..Len(a) => b.offset = a[b.region].count
  BY <1>2, <1>3
<1> QED BY <1>3, <1>8, <1>9, <1>11, <1>12, <1>13 DEF b, f

\* What was handed out stays so, and is apart from a block that is new.
LEMMA EarlierBlocks ==
  ASSUME NEW a, WellFilled(a), NEW size \in Nat, NEW b, NEW bytes, Handed(b, a, bytes)
  PROVE  /\ Handed(b, Filled(a, size), bytes)
         /\ Apart(b, BlockFor(a, size)) /\ Apart(BlockFor(a, size), b)
<1> DEFINE c == BlockFor(a, size)
           f == Filled(a, size)
<1>1. /\ WellFilled(f) /\ Len(a) <= Len(f)
      /\ \A k \in 1..Len(a) : a[k].count <= f[k].count
      /\ Handed(c, f, size)
      /\ c.region \in 1..Len(a) => c.offset = a[c.region].count
  BY BlockIsHanded
<1> HIDE DEF c, f
<1>2. /\ Len(a) \in Nat /\ Len(f) \in Nat
      /\ \A k \in 1..Len(a) : a[k].count \in Nat
      /\ \A k \in 1..Len(f) : f[k].count \in Nat
  BY <1>1, RegionTypes
<1>3. Handed(b, f, bytes)
  <2>1. b.region \in 1..Len(a) /\ b.region \in 1..Len(f) /\ b.offset \in Nat /\ b.words \in Nat
    BY <1>1, <1>2 DEF Handed
  <2>2. b.offset + b.words <= f[b.region].count
    <3>1. a[b.region].count <= f[b.region].count
      BY <1>1, <2>1
    <3>2. a[b.region].count \in Nat /\ f[b.region].count \in Nat
      BY <1>2, <2>1
    <3>3. b.offset + b.words <= a[b.region].count
      BY DEF Handed
    <3> QED BY <2>1, <3>1, <3>2, <3>3
  <2> QED BY <2>1, <2>2 DEF Handed
<1>4. Apart(b, c) /\ Apart(c, b)
  BY <1>1, <1>2 DEF Handed, Apart
<1> QED BY <1>3, <1>4 DEF c, f
-----------------------------------------------------------------------------
(* The steps.                                                                *)

\* The length of a part of a text is a number.
LEMMA PartType ==
  ASSUME NEW text \in Seq(STRING), NEW i \in Nat \ {0}, NEW j \in Int
  PROVE  Len(SubSeq(text, i, j)) \in Nat
OBVIOUS

\* The characters that begin a special token, and what they begin, are no
\* names and no strings.
LEMMA SpecialsAreNotStrings ==
  /\ \A c \in Singles \cup Arithmetic : c \notin {"name", "string"}
  /\ \A c \in DOMAIN Compared :
       c \notin {"name", "string"} /\ Compared[c] \notin {"name", "string"}
  /\ \A c \in DOMAIN Doubled : Doubled[c] \notin {"name", "string"}
  /\ \A c \in DOMAIN Shifted : Shifted[c] \notin {"name", "string"}
BY DEF Singles, Arithmetic, Compared, Doubled, Shifted

\* Appending to a sequence.
LEMMA OneMore ==
  ASSUME NEW s, IsSequence(s), NEW x
  PROVE  /\ IsSequence(Append(s, x))
         /\ Len(s) \in Nat /\ Len(Append(s, x)) = Len(s) + 1
         /\ DOMAIN s = 1..Len(s) /\ DOMAIN Append(s, x) = 1..(Len(s) + 1)
         /\ Append(s, x)[Len(s) + 1] = x
         /\ \A k \in 1..Len(s) : Append(s, x)[k] = s[k]
<1>1. PICK S : s \in Seq(S)
  BY DEF IsSequence
<1>2. s \in Seq(S \cup {x})
  BY <1>1, SeqMonotonic
<1>3. Append(s, x) \in Seq(S \cup {x})
  BY <1>2
<1> QED BY <1>2, <1>3 DEF IsSequence

\* A token that holds no string changes nothing that is kept.
LEMMA PlainToken ==
  ASSUME StringsInv, Scans, NEW token, token.type \notin {"name", "string"},
         NEW end \in Nat \ {0}, TakesPlain(token, end)
  PROVE  StringsInv'
<1>1. tokens' = Append(tokens, token) /\ at' = end
      /\ UNCHANGED <<source, content, phase, arena>>
  BY DEF TakesPlain, Takes
<1>2. /\ IsSequence(tokens')
      /\ Len(tokens) \in Nat /\ DOMAIN tokens = 1..Len(tokens)
      /\ DOMAIN tokens' = 1..(Len(tokens) + 1) /\ tokens'[Len(tokens) + 1] = token
      /\ \A k \in 1..Len(tokens) : tokens'[k] = tokens[k]
  <2>1. IsSequence(tokens)
    BY DEF StringsInv
  <2> QED BY <1>1, <2>1, OneMore
<1>3. StringTokens' = StringTokens
  <2>1. \A k \in 1..(Len(tokens) + 1) : k \in 1..Len(tokens) \/ k = Len(tokens) + 1
    BY <1>2
  <2> QED BY <1>2, <2>1 DEF StringTokens
<1>4. Owners' = Owners /\ 0 \notin StringTokens
  BY <1>1, <1>2, <1>3 DEF Owners, Loaded, StringTokens
<1>5. \A k \in Owners : BlockOf(k)' = BlockOf(k) /\ BytesOf(k)' = BytesOf(k)
  BY <1>1, <1>2 DEF Owners, StringTokens, BlockOf, BytesOf, Content
<1> QED
  BY <1>1, <1>2, <1>4, <1>5 DEF StringsInv, Scans, Apart

\* A token that holds a string adds its block.
LEMMA StringToken ==
  ASSUME StringsInv, Scans, NEW type, NEW text, Len(text) \in Nat,
         NEW end \in Nat \ {0}, TakesString(type, text, end)
  PROVE  StringsInv'
<1> PICK n : n = Len(tokens) + 1
  OBVIOUS
<1> DEFINE size == Len(text) + 1
           token == Token(type, FALSE, text, 0, BlockFor(arena, size))
<1>1. /\ tokens' = Append(tokens, token) /\ at' = end /\ arena' = Filled(arena, size)
      /\ UNCHANGED <<source, content, phase>> /\ size \in Nat /\ WellFilled(arena)
  BY DEF TakesString, Takes, StringsInv
<1> HIDE DEF token
<1>2. /\ IsSequence(tokens')
      /\ Len(tokens) \in Nat /\ DOMAIN tokens = 1..Len(tokens)
      /\ DOMAIN tokens' = 1..n /\ tokens'[n] = token
      /\ \A k \in 1..Len(tokens) : tokens'[k] = tokens[k]
  <2>1. IsSequence(tokens)
    BY DEF StringsInv
  <2> QED BY <1>1, <2>1, OneMore
<1>3. token.string = BlockFor(arena, size) /\ token.text = text
  BY DEF token, Token
<1>4. Owners' \subseteq Owners \cup {n} /\ 0 \notin StringTokens /\ n # 0 /\ n \notin Owners
  <2>1. \A k \in 1..n : k \in 1..Len(tokens) \/ k = n
    BY <1>2
  <2> QED BY <1>1, <1>2, <2>1 DEF Owners, Loaded, StringTokens
<1>5. \A k \in Owners : BlockOf(k)' = BlockOf(k) /\ BytesOf(k)' = BytesOf(k)
  BY <1>1, <1>2 DEF Owners, StringTokens, BlockOf, BytesOf, Content
<1>6. BlockOf(n)' = BlockFor(arena, size) /\ BytesOf(n)' = size
  BY <1>1, <1>2, <1>3, <1>4 DEF BlockOf, BytesOf
<1> HIDE DEF size
<1>7. WellFilled(arena') /\ Handed(BlockFor(arena, size), arena', size)
  BY <1>1, BlockIsHanded
<1>8. \A k \in Owners :
        /\ Handed(BlockOf(k), arena', BytesOf(k))
        /\ Apart(BlockOf(k), BlockFor(arena, size)) /\ Apart(BlockFor(arena, size), BlockOf(k))
  BY <1>1, EarlierBlocks DEF StringsInv
<1>9. \A k \in Owners' : Handed(BlockOf(k)', arena', BytesOf(k)')
  BY <1>4, <1>5, <1>6, <1>7, <1>8
<1>10. \A j, k \in Owners' : j # k => Apart(BlockOf(j)', BlockOf(k)')
  BY <1>4, <1>5, <1>6, <1>8 DEF StringsInv
<1> QED
  BY <1>1, <1>2, <1>7, <1>9, <1>10 DEF StringsInv, Scans, Handed, Apart, WellFilled

LEMMA SpecialToken ==
  ASSUME StringsInv, Scans, Start \in Nat \ {0},
         NEW type, type \notin {"name", "string"}, NEW assign,
         NEW length \in Nat, TakesSpecial(type, assign, length)
  PROVE  StringsInv'
<1> DEFINE token == Token(type, assign, <<>>, 0, NoBlock)
<1>1. token.type = type /\ Start + length \in Nat \ {0} /\ TakesPlain(token, Start + length)
  BY DEF Token, TakesSpecial
<1> HIDE DEF token
<1> QED BY <1>1, PlainToken

\* A step that takes nothing.
LEMMA NothingTaken ==
  ASSUME StringsInv, UNCHANGED <<source, content, tokens, arena>>,
         at' \in Nat \ {0}, (phase' = "loading") <=> (phase = "loading")
  PROVE  StringsInv'
<1>1. Owners' = Owners
  BY DEF Owners, Loaded, StringTokens
<1>2. \A k : BlockOf(k)' = BlockOf(k) /\ BytesOf(k)' = BytesOf(k)
  BY DEF BlockOf, BytesOf, Content
<1> QED BY <1>1, <1>2 DEF StringsInv, Apart

LEMMA InitInv ==
  LexerInit => StringsInv
<1> SUFFICES ASSUME LexerInit PROVE StringsInv
  OBVIOUS
<1>1. WellFilled(arena) /\ IsSequence(tokens) /\ Owners = {}
  <2>1. arena = <<>> /\ tokens = <<>>
    BY DEF LexerInit, EmptyArena
  <2>2. Owners = {}
    BY <2>1 DEF LexerInit, Owners, Loaded, StringTokens
  <2> QED BY <2>1, <2>2 DEF WellFilled, IsSequence
<1> QED BY <1>1 DEF LexerInit, StringsInv

\* The first block is the text's.
LEMMA LoadInv ==
  ASSUME StringsInv, Load
  PROVE  StringsInv'
<1>1. CASE Content = <<>>
  BY <1>1, NothingTaken DEF Load, Stop, StringsInv
<1>2. CASE Content # <<>>
  <2> DEFINE size == Len(Content)
  <2>1. size \in Nat /\ WellFilled(arena) /\ tokens = <<>>
    <3>1. Content \in Seq(STRING)
      BY SourcesAssumption DEF StringsInv, Content
    <3>2. size \in Nat
      BY <3>1
    <3> QED BY <3>2 DEF StringsInv, Load
  <2>2. /\ content' = BlockFor(arena, size) /\ arena' = Filled(arena, size)
        /\ UNCHANGED <<source, at, tokens>> /\ phase' = "scanning"
    BY <1>2 DEF Load
  <2>3. WellFilled(arena') /\ Handed(content', arena', size) /\ size' = size
    BY <2>1, <2>2, BlockIsHanded DEF Content
  <2> HIDE DEF size
  <2>4. Owners' = {0} /\ BlockOf(0)' = content'
    BY <2>1, <2>2 DEF Owners, Loaded, StringTokens, BlockOf
  <2>5. BytesOf(0)' = size
    BY <2>3 DEF BytesOf, size
  <2> QED BY <2>1, <2>2, <2>3, <2>4, <2>5 DEF StringsInv
<1> QED BY <1>1, <1>2

LEMMA ScanInv ==
  ASSUME StringsInv, Scan
  PROVE  StringsInv'
<1>1. Content \in Seq(STRING) /\ at \in Nat \ {0} /\ Len(Content) \in Nat
  BY SourcesAssumption DEF StringsInv, Content
<1>2. Start \in Nat \ {0}
  BY <1>1, EndOfType DEF Start
<1>3. ASSUME NEW chars
      PROVE  EndOf(Content, Start, chars) \in Nat \ {0}
             /\ EndOf(Content, Start + 1, chars) \in Nat \ {0}
  BY <1>1, <1>2, EndOfType
<1> HIDE DEF Start
<1>4. ASSUME NEW assertion, Stop(assertion), Scans PROVE StringsInv'
  BY <1>1, <1>4, NothingTaken DEF Stop
<1>5. Scan => Scans
  BY DEF Scan, ScanEnds, ScanNumber, ScanName, ScanString, ScanChar, ScanCompared,
         ScanShift, ScanArithmetic, ScanSingle, ScanUnknown, ScansAt
<1>6. CASE ScanEnds
  BY <1>2, <1>5, <1>6, NothingTaken DEF ScanEnds, Scans
<1>7. CASE ScanNumber
  <2> DEFINE end == EndOf(Content, Start, ToSet(Digits))
             number == NumberOf(SubSeq(Content, Start, end - 1), LongModulus)
             token == Token("number", FALSE, <<>>, number, NoBlock)
  <2>1. end \in Nat \ {0} /\ token.type = "number" /\ TakesPlain(token, end)
    BY <1>3, <1>7 DEF ScanNumber, Token
  <2> HIDE DEF end, token
  <2> QED BY <1>5, <2>1, PlainToken
<1>8. CASE ScanName
  <2> DEFINE end == EndOf(Content, Start, Words)
             text == SubSeq(Content, Start, end - 1)
             token == Token("keyword", FALSE, text, 0, NoBlock)
  <2>1. end \in Nat \ {0}
    BY <1>3
  <2>2. Len(text) \in Nat
    BY <1>1, <1>2, <2>1, PartType
  <2>3. token.type = "keyword"
    BY DEF Token
  <2>4. TakesPlain(token, end) \/ TakesString("name", text, end)
    BY <1>8 DEF ScanName
  <2> HIDE DEF end, text, token
  <2> QED BY <1>5, <2>1, <2>2, <2>3, <2>4, PlainToken, StringToken
<1>9. CASE ScanString
  <2> DEFINE end == EndOf(Content, Start + 1, {c \in ToSet(Content) : c # "\""})
             text == SubSeq(Content, Start + 1, end - 1)
  <2>1. end \in Nat \ {0}
    BY <1>3
  <2>2. Len(text) \in Nat /\ end + 1 \in Nat \ {0}
    <3> HIDE DEF end
    <3>1. Start + 1 \in Nat \ {0} /\ end - 1 \in Int /\ end + 1 \in Nat \ {0}
      BY <1>2, <2>1
    <3> QED BY <1>1, <3>1, PartType
  <2>3. Stop("string is closed") \/ TakesString("string", text, end + 1)
    BY <1>9 DEF ScanString
  <2> HIDE DEF end, text
  <2> QED BY <1>4, <1>5, <2>1, <2>2, <2>3, StringToken
<1>10. CASE ScanChar
  <2>1. ASSUME NEW k \in Nat \ {0}, NEW c, CharEndsAt(k, c) PROVE StringsInv'
    <3> DEFINE token == Token("char", FALSE, <<c>>, 0, NoBlock)
    <3>1. token.type = "char" /\ k + 1 \in Nat \ {0}
      BY DEF Token
    <3>2. Stop("character is closed") \/ TakesPlain(token, k + 1)
      BY <2>1 DEF CharEndsAt
    <3> HIDE DEF token
    <3> QED BY <1>4, <1>5, <3>1, <3>2, PlainToken
  <2>2. \E c : CharEndsAt(Start + 2, c) \/ CharEndsAt(Start + 3, c)
    BY <1>10 DEF ScanChar
  <2> QED BY <1>2, <2>1, <2>2
<1>11. CASE ScanCompared
  <2> DEFINE c == Content[Start]
  <2>1. c \in DOMAIN Compared
    BY <1>11 DEF ScanCompared, ScansAt
  <2>2. TakesSpecial(Compared[c], FALSE, 2) \/ TakesSpecial(c, FALSE, 1)
    BY <1>11 DEF ScanCompared
  <2> HIDE DEF c
  <2> QED BY <1>2, <1>5, <2>1, <2>2, SpecialToken, SpecialsAreNotStrings
<1>12. CASE ScanShift
  <2> DEFINE c == Content[Start]
  <2>1. c \in DOMAIN Shifted
    BY <1>12 DEF ScanShift, ScansAt
  <2>2. \E assign : TakesSpecial(Shifted[c], assign, 2)
    BY <1>12 DEF ScanShift
  <2> HIDE DEF c
  <2> QED BY <1>2, <1>5, <2>1, <2>2, SpecialToken, SpecialsAreNotStrings
<1>13. CASE ScanArithmetic
  <2> DEFINE c == Content[Start]
  <2>1. c \in Arithmetic
    BY <1>13 DEF ScanArithmetic, ScansAt
  <2>2. \/ \E next \in DOMAIN Doubled : TakesSpecial(Doubled[next], FALSE, 2)
        \/ \E assign : TakesSpecial(c, assign, 1) \/ TakesSpecial(c, assign, 2)
    BY <1>13 DEF ScanArithmetic
  <2> HIDE DEF c
  <2> QED BY <1>2, <1>5, <2>1, <2>2, SpecialToken, SpecialsAreNotStrings
<1>14. CASE ScanSingle
  <2> DEFINE c == Content[Start]
  <2>1. c \in Singles /\ TakesSpecial(c, FALSE, 1)
    BY <1>14 DEF ScanSingle, ScansAt
  <2> HIDE DEF c
  <2> QED BY <1>2, <1>5, <2>1, SpecialToken, SpecialsAreNotStrings
<1>15. CASE ScanUnknown
  BY <1>4, <1>5, <1>15 DEF ScanUnknown
<1> QED
  BY <1>6, <1>7, <1>8, <1>9, <1>10, <1>11, <1>12, <1>13, <1>14, <1>15 DEF Scan

LEMMA NextInv ==
  StringsInv /\ [Load \/ Scan]_lexer => StringsInv'
<1> SUFFICES ASSUME StringsInv, [Load \/ Scan]_lexer PROVE StringsInv'
  OBVIOUS
<1>1. CASE UNCHANGED lexer
  BY <1>1, NothingTaken DEF lexer, StringsInv
<1> QED BY <1>1, LoadInv, ScanInv

\* A block that was handed out lies inside its region.
LEMMA StringsInvImplies ==
  StringsInv => StringsAreApart
<1> SUFFICES ASSUME StringsInv PROVE StringsAreApart
  OBVIOUS
<1>1. ASSUME NEW b, NEW bytes, Handed(b, arena, bytes)
      PROVE  /\ b.region \in DOMAIN arena
             /\ b.offset + b.words <= arena[b.region].capacity
             /\ bytes <= WordSize * b.words
  <2>1. /\ DOMAIN arena = 1..Len(arena) /\ b.region \in 1..Len(arena)
        /\ arena[b.region].count \in Nat /\ arena[b.region].capacity \in Nat
        /\ arena[b.region].count <= arena[b.region].capacity
    BY <1>1, RegionTypes DEF StringsInv, Handed, WellFilled
  <2>2. b.offset + b.words <= arena[b.region].count /\ b.offset + b.words \in Nat
    BY <1>1 DEF Handed
  <2> QED BY <1>1, <2>1, <2>2 DEF Handed
<1> QED BY <1>1 DEF StringsInv, StringsAreApart

\* The strings of the lexer never overlap: whatever the files and the memory
\* behind them hold, and whatever the size of a word and of a region, no name,
\* no string and not the text lies over another one (get_name and get_string
\* of furc/src/backend/lexer.c, furc_load_file, furlang_arena_alloc).
THEOREM StringsAreApartHolds == LexerSpec => []StringsAreApart
BY InitInv, NextInv, StringsInvImplies, PTL DEF LexerSpec
-----------------------------------------------------------------------------
(* What the loop takes.                                                      *)

LEMMA StartIsBehind ==
  ASSUME StringsInv
  PROVE  /\ Content \in Seq(STRING) /\ Len(Content) \in Nat
         /\ at \in Nat \ {0} /\ Start \in Nat \ {0} /\ at <= Start
<1>1. Content \in Seq(STRING) /\ at \in Nat \ {0}
  BY SourcesAssumption DEF StringsInv, Content
<1> QED BY <1>1, EndOfType DEF Start

\* What a step of the lexer does to the tokens.
Longer ==
  \E token : tokens' = Append(tokens, token) /\ token.number \in 0..(LongModulus - 1)

LEMMA PlainIsLonger ==
  ASSUME NEW type, NEW assign, NEW text, NEW number \in 0..(LongModulus - 1), NEW end,
         TakesPlain(Token(type, assign, text, number, NoBlock), end)
  PROVE  Longer /\ at' = end
BY DEF TakesPlain, Takes, Token, Longer

LEMMA StringIsLonger ==
  ASSUME NEW type, NEW text, NEW end, TakesString(type, text, end)
  PROVE  Longer /\ at' = end
<1> DEFINE token == Token(type, FALSE, text, 0, BlockFor(arena, Len(text) + 1))
<1>1. tokens' = Append(tokens, token) /\ at' = end
  BY DEF TakesString, Takes
<1>2. token.number \in 0..(LongModulus - 1)
  BY LongAssumption DEF Token
<1> QED BY <1>1, <1>2 DEF Longer

LEMMA SpecialIsLonger ==
  ASSUME NEW type, NEW assign, NEW length, TakesSpecial(type, assign, length)
  PROVE  Longer /\ at' = Start + length
<1>1. 0 \in 0..(LongModulus - 1)
  BY LongAssumption
<1>2. TakesPlain(Token(type, assign, <<>>, 0, NoBlock), Start + length)
  BY DEF TakesSpecial
<1> QED BY <1>1, <1>2, PlainIsLonger

\* A step takes a token, one character at least, and stays in the loop, or it
\* ends the loop or the process and takes none.
LEMMA ScanTakes ==
  ASSUME StringsInv, Scan
  PROVE  \/ Longer /\ at' > at
         \/ UNCHANGED tokens /\ phase' # phase /\ at' \in Nat \ {0}
         \/ UNCHANGED <<tokens, at>> /\ fault' # fault
<1> DEFINE Goal ==
      \/ Longer /\ at' > at
      \/ UNCHANGED tokens /\ phase' # phase /\ at' \in Nat \ {0}
      \/ UNCHANGED <<tokens, at>> /\ fault' # fault
<1> SUFFICES Goal
  OBVIOUS
<1>1. /\ Content \in Seq(STRING) /\ Len(Content) \in Nat
      /\ at \in Nat \ {0} /\ Start \in Nat \ {0} /\ at <= Start
  BY StartIsBehind
<1> HIDE DEF Start
<1>2. ASSUME NEW assertion, assertion # NoFault, Scans, Stop(assertion) PROVE Goal
  BY <1>2 DEF Stop, Scans
<1>3. ASSUME Longer, at' \in Nat, at' > Start PROVE Goal
  BY <1>1, <1>3
<1> HIDE DEF Goal
<1>4. ASSUME NEW type, NEW assign, NEW length \in {1, 2}, TakesSpecial(type, assign, length)
      PROVE  Goal
  <2>1. Longer /\ at' = Start + length
    BY <1>4, SpecialIsLonger
  <2> QED BY <1>1, <1>3, <2>1
<1>5. 0 \in 0..(LongModulus - 1)
  BY LongAssumption
<1>6. CASE ScanEnds
  BY <1>1, <1>6 DEF ScanEnds, Scans, Goal
<1>7. CASE ScanNumber
  <2> DEFINE end == EndOf(Content, Start, ToSet(Digits))
             digits == SubSeq(Content, Start, end - 1)
             number == NumberOf(digits, LongModulus)
  <2>1. Content[Start] \in ToSet(Digits) /\ Start <= Len(Content)
        /\ TakesPlain(Token("number", FALSE, <<>>, number, NoBlock), end)
    BY <1>7 DEF ScanNumber, ScansAt
  <2>2. end \in Nat \ {0} /\ Start < end
    BY <1>1, <2>1, EndOfType, EndOfMore
  <2> HIDE DEF end
  <2>3. Len(digits) \in Nat
    BY <1>1, <2>2, PartLength
  <2> HIDE DEF digits
  <2>4. number \in 0..(LongModulus - 1)
    BY <2>3, LongAssumption, NumberOfType
  <2> HIDE DEF number
  <2> QED BY <1>1, <1>3, <2>1, <2>2, <2>4, PlainIsLonger
<1>8. CASE ScanName
  <2> DEFINE end == EndOf(Content, Start, Words)
  <2>1. Content[Start] \in Words /\ Start <= Len(Content)
    BY <1>8 DEF ScanName, ScansAt, Words
  <2>2. end \in Nat \ {0} /\ Start < end
    BY <1>1, <2>1, EndOfType, EndOfMore
  <2>3. \E text : \/ TakesPlain(Token("keyword", FALSE, text, 0, NoBlock), end)
                 \/ TakesString("name", text, end)
    BY <1>8 DEF ScanName
  <2> HIDE DEF end
  <2>4. Longer /\ at' = end
    BY <1>5, <2>3, PlainIsLonger, StringIsLonger
  <2> QED BY <1>1, <1>3, <2>2, <2>4
<1>9. CASE ScanString
  <2> DEFINE end == EndOf(Content, Start + 1, {c \in ToSet(Content) : c # "\""})
  <2>1. end \in Nat \ {0} /\ Start + 1 <= end
    <3>1. Start + 1 \in Nat \ {0}
      BY <1>1
    <3>2. ASSUME NEW chars
          PROVE  /\ EndOf(Content, Start + 1, chars) \in Nat \ {0}
                 /\ Start + 1 <= EndOf(Content, Start + 1, chars)
      BY <1>1, <3>1, EndOfType
    <3> QED BY <3>2
  <2>2. Scans /\ (Stop("string is closed") \/ \E text : TakesString("string", text, end + 1))
    BY <1>9 DEF ScanString, ScansAt
  <2> HIDE DEF end
  <2>3. CASE Stop("string is closed")
    BY <1>2, <2>2, <2>3 DEF NoFault
  <2>4. CASE \E text : TakesString("string", text, end + 1)
    <3>1. Longer /\ at' = end + 1
      BY <2>4, StringIsLonger
    <3> QED BY <1>1, <1>3, <2>1, <3>1
  <2> QED BY <2>2, <2>3, <2>4
<1>10. CASE ScanChar
  <2>1. ASSUME NEW k \in Nat, k > Start, NEW c, Scans, CharEndsAt(k, c) PROVE Goal
    <3>1. \/ Stop("character is closed")
          \/ TakesPlain(Token("char", FALSE, <<c>>, 0, NoBlock), k + 1)
      BY <2>1 DEF CharEndsAt
    <3>2. CASE Stop("character is closed")
      BY <1>2, <2>1, <3>2 DEF NoFault
    <3>3. CASE TakesPlain(Token("char", FALSE, <<c>>, 0, NoBlock), k + 1)
      <4>1. Longer /\ at' = k + 1
        BY <1>5, <3>3, PlainIsLonger
      <4> QED BY <1>1, <1>3, <2>1, <4>1
    <3> QED BY <3>1, <3>2, <3>3
  <2>2. Scans /\ \E c : CharEndsAt(Start + 2, c) \/ CharEndsAt(Start + 3, c)
    BY <1>10 DEF ScanChar, ScansAt
  <2>3. Start + 2 \in Nat /\ Start + 3 \in Nat /\ Start + 2 > Start /\ Start + 3 > Start
    BY <1>1
  <2> QED BY <2>1, <2>2, <2>3
<1>11. CASE ScanCompared
  <2>1. \E type : TakesSpecial(type, FALSE, 1) \/ TakesSpecial(type, FALSE, 2)
    BY <1>11 DEF ScanCompared
  <2> QED BY <1>4, <2>1
<1>12. CASE ScanShift
  <2>1. \E type, assign : TakesSpecial(type, assign, 2)
    BY <1>12 DEF ScanShift
  <2> QED BY <1>4, <2>1
<1>13. CASE ScanArithmetic
  <2>1. \E type, assign : TakesSpecial(type, assign, 1) \/ TakesSpecial(type, assign, 2)
    BY <1>13 DEF ScanArithmetic
  <2> QED BY <1>4, <2>1
<1>14. CASE ScanSingle
  <2>1. TakesSpecial(Content[Start], FALSE, 1)
    BY <1>14 DEF ScanSingle
  <2> QED BY <1>4, <2>1
<1>15. CASE ScanUnknown
  BY <1>2, <1>15 DEF ScanUnknown, NoFault
<1> QED
  BY <1>6, <1>7, <1>8, <1>9, <1>10, <1>11, <1>12, <1>13, <1>14, <1>15 DEF Scan, Goal

\* The lexer's loop ends: for every text and every memory behind it, each turn
\* takes a character at least or is the last (furlang's furc_lexer_tokenize,
\* furc/src/backend/lexer.c:261-282).
THEOREM LexerConsumes == LexerSpec => EveryScanConsumes
<1> DEFINE Consumes == phase = "scanning" /\ phase' = phase => at' > at \/ fault' # fault
<1>1. StringsInv /\ [Load \/ Scan]_lexer => [Consumes]_lexer
  <2> SUFFICES ASSUME StringsInv, Load \/ Scan PROVE Consumes
    OBVIOUS
  <2>1. CASE Load
    BY <2>1 DEF Load
  <2>2. CASE Scan
    BY <2>2, ScanTakes
  <2> QED BY <2>1, <2>2
<1> QED BY <1>1, InitInv, NextInv, PTL DEF LexerSpec, EveryScanConsumes
-----------------------------------------------------------------------------
NumbersFit == \A k \in DOMAIN tokens : tokens[k].number \in 0..(LongModulus - 1)

LEMMA NumbersStay ==
  ASSUME StringsInv, NumbersFit, [Load \/ Scan]_lexer
  PROVE  NumbersFit'
<1>1. CASE UNCHANGED tokens
  BY <1>1 DEF NumbersFit
<1>2. CASE Longer
  <2>1. PICK token : tokens' = Append(tokens, token) /\ token.number \in 0..(LongModulus - 1)
    BY <1>2 DEF Longer
  <2>2. IsSequence(tokens)
    BY DEF StringsInv
  <2>3. /\ Len(tokens) \in Nat /\ DOMAIN tokens = 1..Len(tokens)
        /\ DOMAIN tokens' = 1..(Len(tokens) + 1) /\ tokens'[Len(tokens) + 1] = token
        /\ \A k \in 1..Len(tokens) : tokens'[k] = tokens[k]
    BY <2>1, <2>2, OneMore
  <2> SUFFICES ASSUME NEW k \in DOMAIN tokens' PROVE tokens'[k].number \in 0..(LongModulus - 1)
    BY DEF NumbersFit
  <2>4. k \in 1..Len(tokens) \/ k = Len(tokens) + 1
    BY <2>3
  <2> QED BY <2>1, <2>3, <2>4 DEF NumbersFit
<1>3. CASE Load
  BY <1>1, <1>3 DEF Load, Stop
<1>4. CASE Scan
  BY <1>1, <1>2, <1>4, ScanTakes
<1> QED BY <1>1, <1>3, <1>4 DEF lexer

\* The lexer's positions, numbers and regions keep their types: a number fits
\* its word and a region holds no more than it has room for, whatever the text
\* (get_number of furc/src/backend/lexer.c, furlang_arena_alloc).
THEOREM LexerTypes == LexerSpec => []LexerTypeOK
<1>1. LexerInit => NumbersFit
  BY DEF LexerInit, NumbersFit
<1>2. StringsInv /\ NumbersFit => LexerTypeOK
  <2> SUFFICES ASSUME StringsInv, NumbersFit, NEW k \in DOMAIN arena
               PROVE  arena[k].count \in 0..arena[k].capacity
    BY DEF LexerTypeOK, StringsInv, NumbersFit
  <2>1. DOMAIN arena = 1..Len(arena) /\ arena[k].count \in Nat /\ arena[k].capacity \in Nat
    BY RegionTypes DEF StringsInv
  <2> QED BY <2>1 DEF StringsInv, WellFilled
<1> QED BY <1>1, <1>2, InitInv, NextInv, NumbersStay, PTL DEF LexerSpec
=============================================================================
