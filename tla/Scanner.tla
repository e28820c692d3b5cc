------------------------------ MODULE Scanner -------------------------------
(* The lexer of the assembler, furas_lexer_tokenize (furas/src/lexer.c): one *)
(* step is one iteration of its loop, that is one token or one comment.      *)
EXTENDS Operands, Texts

CONSTANTS
  Letters,    \* the characters of the texts that are letters
  Keywords,   \* the keyword that a spelling stands for
  Sources,    \* the files: records with a field text
  MaxTokens   \* bound on the tokens of a text

ASSUME SourcesAssumption == \A s \in Sources : s.text \in Seq(STRING)

VARIABLES
  source,     \* the file that is assembled
  at,         \* position of the next character
  tokens,     \* sequence of [type, text, number]
  phase,      \* "scanning", then the phases of Assembler
  fault       \* the assertion that stopped the program, or NoFault

scanner == <<at, tokens>>

NoFault == "none"
Alphanumeric == Letters \cup ToSet(Digits)
LongModulus == IntModulus * IntModulus   \* uint64_t

Content == source.text

ScannerInit ==
  /\ source \in Sources
  /\ at = 1 /\ tokens = <<>>
  /\ phase = "scanning" /\ fault = NoFault
-----------------------------------------------------------------------------
Start == EndOf(Content, at, Spaces)
Scans == phase = "scanning" /\ fault = NoFault
ScansAt(chars) == Scans /\ Start <= Len(Content) /\ Content[Start] \in chars

\* get_string: the text from k on that is alphanumeric, maybe none of it.
StringAt(k) == SubSeq(Content, k, EndOf(Content, k, Alphanumeric) - 1)

\* get_string returns NULL at the end of the text and at a digit.
NoString(k) == k > Len(Content) \/ Content[k] \in ToSet(Digits)

Token(type, text, number, end) ==
  /\ Len(tokens) < MaxTokens
  /\ tokens' = Append(tokens, [type |-> type, text |-> text, number |-> number])
  /\ at' = end
  /\ UNCHANGED <<source, phase, fault>>

StopScanning(assertion) ==
  /\ fault' = assertion
  /\ UNCHANGED <<source, at, tokens, phase>>

ScanEnds ==
  /\ Scans /\ Start > Len(Content)
  /\ phase' = "generating" /\ at' = Start
  /\ UNCHANGED <<source, tokens, fault>>

\* A slip: a comment ends only with a line.
SkipCommentOfALine ==
  /\ ScansAt({";"})
  /\ at' = IF \E k \in Start..Len(Content) : Content[k] = "\n"
           THEN 1 + SelectInSubSeq(Content, Start, Len(Content), LAMBDA c : c = "\n")
           ELSE at
  /\ UNCHANGED <<source, tokens, phase, fault>>

SkipComment ==
  LET newline == SelectInSubSeq(Content, Start, Len(Content), LAMBDA c : c = "\n")
  IN  /\ ScansAt({";"})
      /\ at' = 1 + (IF newline = 0 THEN Len(Content) ELSE newline)
      /\ UNCHANGED <<source, tokens, phase, fault>>

ScanNumber ==
  LET end == EndOf(Content, Start, ToSet(Digits))
  IN  /\ ScansAt(ToSet(Digits))
      /\ Token("number", <<>>, NumberOf(SubSeq(Content, Start, end - 1), LongModulus), end)

\* An underscore begins a name, but get_string does not take it.
ScanName ==
  LET text == StringAt(Start)
  IN  /\ ScansAt(Letters \cup {"_"})
      /\ Token(IF text \in DOMAIN Keywords THEN "keyword" ELSE "name", text, 0,
               Start + Len(text))

ScanMarked ==
  LET text == StringAt(Start + 1)
  IN  /\ ScansAt({".", "%"})
      /\ IF NoString(Start + 1) THEN StopScanning("string is not null")
         ELSE Token(IF Content[Start] = "." THEN "label" ELSE "global", text, 0,
                    Start + 1 + Len(text))

ScanPunctuation ==
  ScansAt({"(", ")", ":"}) /\ Token(Content[Start], <<>>, 0, Start + 1)

ScanUnknown ==
  /\ Scans /\ Start <= Len(Content)
  /\ Content[Start] \notin Alphanumeric \cup {";", "_", ".", "%", "(", ")", ":"}
  /\ StopScanning("character is known")

Scan ==
  \/ ScanEnds
  \/ SkipComment
  \/ ScanNumber
  \/ ScanName
  \/ ScanMarked
  \/ ScanPunctuation
  \/ ScanUnknown
=============================================================================
