--------------------------- MODULE CompilerLexer ----------------------------
(* The front of the compiler: furc_load_file (furc/src/utils.c) and          *)
(* furc_lexer_tokenize (furc/src/backend/lexer.c), one token a step.  The    *)
(* text and the names in it are blocks of one arena.  Nothing ends the text: *)
(* a token at its end is completed with whatever the memory behind it holds. *)
EXTENDS Texts, Arena

CONSTANTS
  Sources,       \* the files: records with a field text
  Letters,       \* the characters of the texts that are letters
  Keywords,      \* the keyword that a spelling stands for
  Beyond,        \* what the memory behind a text may hold
  LongModulus    \* values of an uint64_t

ASSUME SourcesAssumption == \A s \in Sources : s.text \in Seq(STRING)
ASSUME LongAssumption == LongModulus \in Nat \ {0}

VARIABLES
  source,     \* the file that is compiled
  content,    \* the block of its text
  at,         \* position of the next character
  tokens,     \* sequence of [type, assign, text, number, string]
  arena,      \* lexerArena
  phase,      \* "loading", "scanning", then the phases of Compiler
  fault       \* the assertion that stopped the program, or NoFault

lexer == <<source, content, at, tokens, arena, phase, fault>>

NoFault == "none"
NoBlock == [region |-> 0, offset |-> 0, words |-> 0]
Content == source.text

LexerInit ==
  /\ source \in Sources
  /\ content = NoBlock /\ arena = EmptyArena
  /\ at = 1 /\ tokens = <<>>
  /\ phase = "loading" /\ fault = NoFault
-----------------------------------------------------------------------------
(* How a special character continues.                                        *)

Singles == {"(", ")", "{", "}", "[", "]", "~", ",", ";", ":", "?"}

Compared ==
  [c \in {"=", "<", ">", "!"} |->
     CASE c = "=" -> "==" [] c = "<" -> "<=" [] c = ">" -> ">=" [] c = "!" -> "!="]
Doubled ==
  [c \in {"+", "-", "&", "|"} |->
     CASE c = "+" -> "++" [] c = "-" -> "--" [] c = "&" -> "&&" [] c = "|" -> "||"]
Shifted == [c \in {"<", ">"} |-> IF c = "<" THEN "<<" ELSE ">>"]   \* both when a "<" follows
Arithmetic == {"+", "-", "*", "/", "%", "&", "|", "^"}

Specials == Singles \cup DOMAIN Compared \cup Arithmetic
Words    == Letters \cup ToSet(Digits) \cup {"_"}
Escaped  == [c \in {"n", "r"} |-> IF c = "n" THEN "\n" ELSE "\r"]

\* What a read of the character at position k may return.
Reads(k) == IF k <= Len(Content) THEN {Content[k]} ELSE Beyond
-----------------------------------------------------------------------------
Stop(assertion) ==
  /\ fault' = assertion
  /\ UNCHANGED <<source, content, at, tokens, arena, phase>>

\* furc_load_file; an empty file is refused.
Load ==
  /\ phase = "loading" /\ fault = NoFault
  /\ IF Content = <<>> THEN Stop("length is positive")
     ELSE /\ content' = BlockFor(arena, Len(Content))
          /\ arena' = Filled(arena, Len(Content))
          /\ phase' = "scanning"
          /\ UNCHANGED <<source, at, tokens, fault>>

Start == EndOf(Content, at, Spaces)
Scans == phase = "scanning" /\ fault = NoFault
ScansAt(chars) == Scans /\ Start <= Len(Content) /\ Content[Start] \in chars

Token(type, assign, text, number, string) ==
  [type |-> type, assign |-> assign, text |-> text, number |-> number, string |-> string]

Takes(token, end) ==
  /\ tokens' = Append(tokens, token)
  /\ at' = end
  /\ UNCHANGED <<source, content, phase, fault>>

TakesPlain(token, end) == Takes(token, end) /\ UNCHANGED arena

\* The text and a final zero are copied into the arena.
TakesString(type, text, end) ==
  /\ Takes(Token(type, FALSE, text, 0, BlockFor(arena, Len(text) + 1)), end)
  /\ arena' = Filled(arena, Len(text) + 1)

TakesSpecial(type, assign, length) ==
  TakesPlain(Token(type, assign, <<>>, 0, NoBlock), Start + length)

ScanEnds ==
  /\ Scans /\ Start > Len(Content)
  /\ phase' = "parsing" /\ at' = Start
  /\ UNCHANGED <<source, content, tokens, arena, fault>>

ScanNumber ==
  LET end == EndOf(Content, Start, ToSet(Digits))
      number == NumberOf(SubSeq(Content, Start, end - 1), LongModulus)
  IN  ScansAt(ToSet(Digits)) /\ TakesPlain(Token("number", FALSE, <<>>, number, NoBlock), end)

\* A slip: a name ends at an underscore, also at one that begins it.
ScanNameBeforeUnderscore ==
  LET end  == EndOf(Content, Start, Words \ {"_"})
      text == SubSeq(Content, Start, end - 1)
  IN  /\ ScansAt(Letters \cup {"_"})
      /\ IF text \in DOMAIN Keywords
         THEN TakesPlain(Token("keyword", FALSE, text, 0, NoBlock), end)
         ELSE TakesString("name", text, end)

ScanName ==
  LET end  == EndOf(Content, Start, Words)
      text == SubSeq(Content, Start, end - 1)
  IN  /\ ScansAt(Letters \cup {"_"})
      /\ IF text \in DOMAIN Keywords
         THEN TakesPlain(Token("keyword", FALSE, text, 0, NoBlock), end)
         ELSE TakesString("name", text, end)

\* The end of the text ends a string, if the quote it lacks happens to follow.
ScanString ==
  LET end == EndOf(Content, Start + 1, {c \in ToSet(Content) : c # "\""})
  IN  /\ ScansAt({"\""})
      /\ \E quote \in Reads(end) :
           IF quote # "\"" THEN Stop("string is closed")
           ELSE TakesString("string", SubSeq(Content, Start + 1, end - 1), end + 1)

CharEndsAt(k, c) ==
  \E quote \in Reads(k) :
    IF quote # "'" THEN Stop("character is closed")
    ELSE TakesPlain(Token("char", FALSE, <<c>>, 0, NoBlock), k + 1)

ScanChar ==
  /\ ScansAt({"'"})
  /\ \E c \in Reads(Start + 1) :
       IF c # "\\" THEN CharEndsAt(Start + 2, c)
       ELSE \E e \in Reads(Start + 2) :
              CharEndsAt(Start + 3, IF e \in DOMAIN Escaped THEN Escaped[e] ELSE e)

ScanCompared ==
  /\ ScansAt(DOMAIN Compared)
  /\ \E next \in Reads(Start + 1) :
       /\ Content[Start] \in DOMAIN Shifted => next # "<"
       /\ IF next = "=" THEN TakesSpecial(Compared[Content[Start]], FALSE, 2)
          ELSE TakesSpecial(Content[Start], FALSE, 1)

\* The equals sign is seen but not taken.
ScanShift ==
  /\ ScansAt(DOMAIN Shifted) /\ "<" \in Reads(Start + 1)
  /\ \E last \in Reads(Start + 2) : TakesSpecial(Shifted[Content[Start]], last = "=", 2)

\* A slip: the operator that assigns is recognised by its first character.
ScanArithmeticShort ==
  /\ ScansAt(Arithmetic)
  /\ \E next \in Reads(Start + 1) :
       IF Content[Start] \in DOMAIN Doubled /\ next = Content[Start]
       THEN TakesSpecial(Doubled[next], FALSE, 2)
       ELSE TakesSpecial(Content[Start], next = "=", 1)

ScanArithmetic ==
  /\ ScansAt(Arithmetic)
  /\ \E next \in Reads(Start + 1) :
       IF Content[Start] \in DOMAIN Doubled /\ next = Content[Start]
       THEN TakesSpecial(Doubled[next], FALSE, 2)
       ELSE TakesSpecial(Content[Start], next = "=", IF next = "=" THEN 2 ELSE 1)

ScanSingle == ScansAt(Singles) /\ TakesSpecial(Content[Start], FALSE, 1)

ScanUnknown ==
  /\ Scans /\ Start <= Len(Content)
  /\ Content[Start] \notin Words \cup Specials \cup {"\"", "'"}
  /\ Stop("character is expected")

Scan ==
  \/ ScanEnds
  \/ ScanNumber
  \/ ScanName
  \/ ScanString
  \/ ScanChar
  \/ ScanCompared
  \/ ScanShift
  \/ ScanArithmetic
  \/ ScanSingle
  \/ ScanUnknown

LexerSpec == LexerInit /\ [][Load \/ Scan]_lexer
-----------------------------------------------------------------------------
(* Properties.                                                               *)

\* The blocks in use, 0 for the text and k for token k, and the bytes in each.
Loaded == phase # "loading"
StringTokens == {k \in DOMAIN tokens : tokens[k].type \in {"name", "string"}}
Owners == (IF Loaded THEN {0} ELSE {}) \cup StringTokens
BlockOf(k) == IF k = 0 THEN content ELSE tokens[k].string
BytesOf(k) == IF k = 0 THEN Len(Content) ELSE Len(tokens[k].text) + 1

Apart(a, b) ==
  a.region = b.region => a.offset + a.words <= b.offset \/ b.offset + b.words <= a.offset

\* No string overwrites another one or the text that is being read: each lies
\* inside a region of the arena, has room for its bytes, and shares no word
\* with any other (furlang_arena_alloc under the allocations of furc_load_file,
\* get_name and get_string).
StringsAreApart ==
  /\ \A k \in Owners :
       LET b == BlockOf(k)
       IN  /\ b.region \in DOMAIN arena
           /\ b.offset + b.words <= arena[b.region].capacity
           /\ BytesOf(k) <= WordSize * b.words
  /\ \A j, k \in Owners : j # k => Apart(BlockOf(j), BlockOf(k))

\* Whatever the text and the memory behind it, every turn of the lexer's loop
\* takes at least one character or ends the process, so the loop ends; a name
\* is the only thing that may begin with an underscore, and it takes it
\* (furc/src/backend/lexer.c:265-279).
EveryScanConsumes ==
  [][phase = "scanning" /\ phase' = phase => at' > at \/ fault' # fault]_lexer

LexerTypeOK ==
  /\ at \in Nat \ {0}
  /\ \A k \in DOMAIN tokens : tokens[k].number \in 0..(LongModulus - 1)
  /\ \A k \in DOMAIN arena : arena[k].count \in 0..arena[k].capacity
=============================================================================
