----------------------------- MODULE MCCompiler -----------------------------
(* Sources for the compiler: short texts of any characters, names of several *)
(* lengths, operators and operands in any order, and programs written from   *)
(* trees.  Beside them, how a text is cut into the longest lexemes, and      *)
(* which tree the precedences give a row of operators.                       *)
EXTENDS Compiler

\* Keywords are spelled with one letter.
MCKeywords ==
  (<<"V">> :> "void" @@ <<"T">> :> "int" @@ <<"X">> :> "extern" @@ <<"I">> :> "if" @@
   <<"E">> :> "else" @@ <<"S">> :> "switch" @@ <<"C">> :> "case" @@ <<"F">> :> "for" @@
   <<"W">> :> "while" @@ <<"B">> :> "break" @@ <<"R">> :> "return")

MCLetters == {"a", "f", "n"} \cup {t[1] : t \in DOMAIN MCKeywords}
MCBeyond  == {"=", "<", "'", "\""}

TextsOver(chars, n) == UNION {[1..k -> chars] : k \in 0..n}
-----------------------------------------------------------------------------
(* Lexemes, from the comments of furc/backend/lexer.h.                       *)

\* The type and the assignment bit of the special tokens by their spelling.
SpecialTokens ==
  [s \in {<<c>> : c \in Specials} |-> <<s[1], FALSE>>]
  @@ [s \in {<<c, "=">> : c \in DOMAIN Compared} |-> <<Compared[s[1]], FALSE>>]
  @@ [s \in {<<c, c>> : c \in DOMAIN Doubled} |-> <<Doubled[s[1]], FALSE>>]
  @@ [s \in {<<c, "=">> : c \in Arithmetic} |-> <<s[1], TRUE>>]
  @@ [s \in {<<c, c>> : c \in DOMAIN Shifted} |-> <<Shifted[s[1]], FALSE>>]
  @@ [s \in {<<c, c, "=">> : c \in DOMAIN Shifted} |-> <<Shifted[s[1]], TRUE>>]

IsNumber(s) == Range(s) \subseteq ToSet(Digits)
IsName(s)   == Range(s) \subseteq Words /\ s[1] \notin ToSet(Digits)
IsString(s) ==
  /\ Len(s) >= 2 /\ s[1] = "\"" /\ s[Len(s)] = "\""
  /\ \A k \in 2..(Len(s) - 1) : s[k] # "\""
IsChar(s) ==
  /\ s[1] = "'" /\ s[Len(s)] = "'"
  /\ \/ Len(s) = 3 /\ s[2] # "\\"
     \/ Len(s) = 4 /\ s[2] = "\\"

\* The lexeme text[i..j] may reach into what lies beyond the n characters of
\* the text; what is inside a string, a number and a name may not.
IsLexeme(text, n, i, j) ==
  LET s == SubSeq(text, i, j)
  IN  \/ s \in DOMAIN SpecialTokens \/ IsChar(s)
      \/ j <= n /\ (IsNumber(s) \/ IsName(s))
      \/ j <= n + 1 /\ IsString(s)

Positional(digits) ==
  LET Value[k \in 0..Len(digits)] ==
        IF k = 0 THEN 0 ELSE 10 * Value[k - 1] + (CHOOSE d \in 0..9 : Digits[d + 1] = digits[k])
  IN  Value[Len(digits)]

SymbolFor(s) ==
  CASE s \in DOMAIN SpecialTokens -> Symbol(SpecialTokens[s][1], SpecialTokens[s][2], <<>>, 0)
    [] IsNumber(s) -> Symbol("number", FALSE, <<>>, Positional(s) % LongModulus)
    [] IsString(s) -> Symbol("string", FALSE, SubSeq(s, 2, Len(s) - 1), 0)
    [] IsChar(s)   -> Symbol("char", FALSE, <<IF Len(s) = 3 THEN s[2] ELSE IF s[3] = "n" THEN "\n" ELSE s[3]>>, 0)
    [] IsName(s)   -> Symbol(IF s \in DOMAIN Keywords THEN "keyword" ELSE "name", FALSE, s, 0)

\* The symbols of the first n characters, cut from the left; the last is
\* "none" if no lexeme begins where the rest does.
SymbolsOf(text, n) ==
  LET From[i \in 1..(Len(text) + 2)] ==
        LET ends == {j \in i..Len(text) : IsLexeme(text, n, i, j)}
            j    == Max(ends)
        IN  CASE i > n -> <<>>
              [] i <= n /\ text[i] \in Spaces -> From[i + 1]
              [] i <= n /\ text[i] \notin Spaces /\ ends = {} -> <<Symbol("none", FALSE, <<>>, 0)>>
              [] OTHER -> <<SymbolFor(SubSeq(text, i, j))>> \o From[j + 1]
  IN  From[1]

Continued == {Content \o b : b \in [1..3 -> Beyond]}
IsCut(symbols) == symbols # <<>> => symbols[Len(symbols)].type # "none"

\* The tokens are the text cut into the longest lexemes of the header, for
\* some content of the memory behind it.
CutAsInHeader ==
  \E text \in Continued : SymbolsOf(text, Len(Content)) = [k \in DOMAIN tokens |-> SymbolAt(k)]

\* Where the code does not read a shift as the header spells it: ">>", which
\* it reads as two tokens, "><", which it takes for the shift, also when the
\* "<" lies behind the text, and "<<=", of which it leaves the "=".
HasForeignShift(text) ==
  \E k \in DOMAIN text :
    \/ text[k] = ">" /\ (k = Len(text) \/ text[k + 1] \in {"<", ">"})
    \/ k + 2 <= Len(text) /\ SubSeq(text, k, k + 2) = <<"<", "<", "=">>

\* Whatever the text and the memory behind it, but for these shifts, the
\* tokens are the longest lexemes of the header, and a text is refused only if
\* it cannot be cut so (furc_lexer_tokenize against lexer.h).
TokensAreLongestMatches ==
  ~HasForeignShift(Content) =>
    /\ phase = "parsing" /\ cursor = 1 => CutAsInHeader
    /\ phase = "scanning" /\ fault # NoFault =>
         \E text \in Continued : ~IsCut(SymbolsOf(text, Len(Content)))

\* No source that is parsed contradicts both headers of the compiler, lexer.h
\* on what a shift is (lexer.h:30, 40) and ast.h on the comma (ast.h:112).  A
\* state that violates this refutes each of the two.
AgreesWithAHeader ==
  phase = "parsing" /\ program # <<>> => CutAsInHeader \/ CommaIsLikeInC
-----------------------------------------------------------------------------
(* Sources.                                                                  *)

\* The characters of a symbol, and of symbols with spaces between them.
CharsOf(symbol) ==
  CASE symbol.type \in {"name", "keyword"} -> symbol.text
    [] symbol.type = "number" -> <<Digits[symbol.number + 1]>>
    [] symbol.type \in Range(Compared) -> <<CHOOSE c \in DOMAIN Compared : Compared[c] = symbol.type, "=">>
    [] symbol.type \in Range(Doubled) -> LET c == CHOOSE d \in DOMAIN Doubled : Doubled[d] = symbol.type IN <<c, c>>
    [] OTHER -> IF symbol.assign THEN <<symbol.type, "=">> ELSE <<symbol.type>>

TextOf(symbols) == FlattenSeq([k \in DOMAIN symbols |-> CharsOf(symbols[k]) \o <<" ">>])

\* A source of which nothing else is known.
Text(text) == [text |-> text, written |-> FALSE, accepted |-> FALSE, trees |-> <<>>]

\* A program that the compiler should read, or refuse.
Written(symbols, accepted, trees) ==
  [text |-> TextOf(symbols), written |-> TRUE, accepted |-> accepted, trees |-> trees]

Leaf(type, text, number) == Node(type, "", <<[text |-> text, number |-> number]>>, <<>>)
A   == Leaf("LVALUE", <<"a">>, 0)
One == Leaf("LITERAL", <<>>, 1)

Type(letter)      == [text |-> <<letter>>, number |-> 0]
Variable(kind, value) == Node(kind, "", <<Type("T"), [text |-> <<"a">>, number |-> 0]>>, <<value>>)
Function(params, body) ==
  Node("FUNCTION", "", <<Type("V"), [text |-> <<"f">>, number |-> 0]>> \o params, <<body>>)
Body(statements) == Node("BODY", "", <<>>, statements)
InFunction(statement) == <<Function(<<>>, Body(<<statement>>))>>
Rvalue(e) == Node("RVALUE", "", <<>>, <<e>>)
-----------------------------------------------------------------------------
\* Rows of operands with operators between them.
Alternating(operands, operators) ==
  FlattenSeq([k \in DOMAIN operands |->
    operands[k] \o (IF k \in DOMAIN operators THEN operators[k] ELSE <<>>)])

RowOperators == {"+", "*", "%", "<", "&&", "="}
AssigningRow == {Sign(t) : t \in RowOperators} \cup {Assigning("+"), Assigning("*")}
RowOperands  ==
  LET paren(s) == Sign("(") \o s \o Sign(")")
  IN  {Spelled(A), Spelled(One), Sign("+") \o Spelled(A), paren(Spelled(A)),
       Sign("++") \o Spelled(A), Spelled(A) \o Sign("++"),
       Spelled(A) \o paren(Spelled(A) \o Sign(",") \o Spelled(One))}

InBraces(symbols) ==
  Keyword(Type("V")) \o Named([text |-> <<"f">>]) \o Sign("(") \o Sign(")") \o Sign("{") \o symbols \o Sign("}")

MixedRows ==
  {Text(TextOf(InBraces(Alternating(operands, operators) \o Sign(";")))) :
     operands \in [1..3 -> RowOperands], operators \in [1..2 -> {Sign("+"), Sign("*"), Sign(","), Assigning("+")}]}
  \cup
  {Text(TextOf(InBraces(Alternating(operands, operators) \o Sign(";")))) :
     operands \in [1..4 -> {Spelled(A), Sign("+") \o Spelled(A), Spelled(A) \o Sign("(") \o Sign(")")}],
     operators \in [1..3 -> {Sign("+"), Sign("*")}]}

\* The tree of a row of names: assignments first, from the right; then split
\* at the last of the operators that bind least.
Assigns(operator) == operator[1].assign \/ operator[1].type = "="
RECURSIVE TreeOf(_)
TreeOf(operators) ==
  LET strength(k) == Precedence(operators[k][1].type)
      least == {k \in DOMAIN operators : \A j \in DOMAIN operators : strength(k) <= strength(j)}
      split == Max(least)
  IN  CASE operators = <<>> -> A
        [] operators # <<>> /\ Assigns(operators[1]) ->
             Node("ASSIGNMENT", operators[1][1].type, <<>>, <<A, TreeOf(Tail(operators))>>)
        [] OTHER ->
             Node("BINOP", operators[split][1].type, <<>>,
                  <<TreeOf(SubSeq(operators, 1, split - 1)),
                    TreeOf(SubSeq(operators, split + 1, Len(operators)))>>)

\* Where the compiler loses an operator: a closer operator or an assignment is
\* followed by one that binds no closer than what came before it.
Falls(operators) ==
  LET strength(k) == Precedence(operators[k][1].type)
  IN  \E j, k \in DOMAIN operators :
        /\ j < k /\ strength(k) <= strength(j)
        /\ Assigns(operators[j]) \/ strength(j) < strength(j + 1)

AssignsFirst(operators) ==
  \A k \in DOMAIN operators : Assigns(operators[k]) => \A j \in 1..k : Assigns(operators[j])

Row(operators) ==
  Written(InBraces(Alternating([k \in 1..(Len(operators) + 1) |-> Spelled(A)], operators) \o Sign(";")),
          AssignsFirst(operators) /\ ~Falls(operators),
          IF AssignsFirst(operators) THEN InFunction(Rvalue(TreeOf(operators))) ELSE <<>>)

Rows == {Row(operators) : operators \in TextsOver(AssigningRow, 4)}
-----------------------------------------------------------------------------
\* Trees of statements and declarations.
Expressions ==
  {A, One, Node("PAREN", "", <<>>, <<A>>), Node("PRE", "++", <<>>, <<A>>), Node("POST", "--", <<>>, <<A>>),
   Node("UNARY", "!", <<>>, <<Node("UNARY", "-", <<>>, <<A>>)>>),
   Node("CALL", "", <<>>, <<A>>), Node("CALL", "", <<>>, <<A, Node("BINOP", "+", <<>>, <<A, One>>)>>),
   Node("CALL", "", <<>>, <<Node("CALL", "", <<>>, <<A>>), One>>)}

Simple ==
  {Rvalue(e) : e \in Expressions} \cup {Variable("VAR_DECL", e) : e \in Expressions \cup {NoNode}}
  \cup {Node("RETURN", "", <<>>, <<e>>) : e \in Expressions \cup {NoNode}}
  \cup {Node("BREAK", "", <<>>, <<>>), Body(<<>>)}
Few == {Rvalue(A), Variable("VAR_DECL", One), Node("RETURN", "", <<>>, <<NoNode>>), Node("BREAK", "", <<>>, <<>>)}

\* An if without an else ends the statement: an else would belong to it.
RECURSIVE EndsOpen(_)
EndsOpen(s) ==
  \/ s.type = "IF" /\ (s.kids[3] = NoNode \/ EndsOpen(s.kids[3]))
  \/ s.type \in {"WHILE", "SWITCH", "FOR", "CASE"} /\ EndsOpen(s.kids[Len(s.kids)])

Over(expressions, statements) ==
  {Node(type, "", <<>>, <<e, s>>) : type \in {"WHILE", "SWITCH"}, e \in expressions, s \in statements}
  \cup {Node("IF", "", <<>>, <<e, s, NoNode>>) : e \in expressions, s \in statements}
  \cup {Node("IF", "", <<>>, <<A, s, t>>) : s \in {r \in statements : ~EndsOpen(r)}, t \in Few}
  \cup {Node("IF", "", <<>>, <<A, s, t>>) : s \in Few, t \in statements}
  \cup {Node("CASE", "", <<[text |-> <<>>, number |-> 1]>>, <<s>>) : s \in statements}
  \cup {Body(<<s, t>>) : s \in statements, t \in Few}
  \cup {Node("FOR", "", <<>>, <<d, c, i, s>>) :
          d \in {Rvalue(A), Variable("VAR_DECL", One)}, c \in {NoNode, A},
          i \in {NoNode, Node("PRE", "++", <<>>, <<A>>)}, s \in statements}

Nested == Over(Expressions, Few)
Deeper == Over({A}, {s \in Nested : s.kids[1] \in {A, Rvalue(A)} /\ s.kids[Len(s.kids)] \in {Rvalue(A), NoNode}})

Declarations ==
  {Variable("VARIABLE", e) : e \in Expressions \cup {NoNode}}
  \cup {Function(params, body) : params \in {<<>>, <<Type("T"), Type("n")>>,
                                              <<Type("T"), Type("n"), Type("V"), Type("a")>>},
                                 body \in {NoNode, Body(<<>>)}}

\* A for without a first part, written as in C with two semicolons.
HeadlessFor(condition, last) ==
  Written(InBraces(KeywordOf("for") \o Sign("(") \o Sign(";") \o condition \o Sign(";") \o last \o Sign(")")
                     \o Sign(";")), FALSE, <<>>)

Programs ==
  {Written(SpelledAll(trees), TRUE, trees) :
     trees \in {InFunction(s) : s \in Simple \cup Nested \cup Deeper} \cup (TextsOver(Declarations, 2) \ {<<>>})}
  \cup {HeadlessFor(c, l) : c \in {<<>>, Spelled(A)}, l \in {<<>>, Spelled(A)}}

\* A program whose expressions are rows without a fall, and whose loops all
\* have a first part, is read as it was written; any other is refused.
ParsesWhatWasWritten ==
  source.written =>
    /\ phase = "parsed" => source.accepted /\ program = source.trees
    /\ fault # NoFault => ~source.accepted
-----------------------------------------------------------------------------
\* Names of several lengths, so that regions are filled out of order.
Names == {Text(FlattenSeq([k \in DOMAIN lengths |-> [i \in 1..lengths[k] |-> IF i = lengths[k] THEN " " ELSE "a"]])) :
            lengths \in [1..4 -> {2, 4, 6, 9}]}

ShortTexts ==
  {Text(t) : t \in TextsOver({"a", "I", "1", "_", " ", "<", ">", "=", "+", "\"", "'", "\\", "n", "&", ";", "!", "@"}, 3)
                    \cup TextsOver({"a", " ", "<", ">", "=", "\"", "'", "\\"}, 4)}

\* A function with a call that has two arguments, or a row with commas, and
\* behind it one with shifts as the header spells them.
HeaderSources ==
  LET rows == {Alternating(operands, operators) :
                 operands \in [1..3 -> {Spelled(A), Spelled(A) \o Sign("(") \o Spelled(A) \o Sign(",")
                                                     \o Spelled(One) \o Sign(")")}],
                 operators \in [1..2 -> {Sign("+"), Sign(",")}]}
      shifts == <<"V", " ", "f", "(", ")", "{", "a", ">", ">", "a", ";", "a", "<", "<", "=", "a", ";", "}">>
  IN  {Text(TextOf(InBraces(row \o Sign(";"))) \o shifts) : row \in rows}

MCSources == ShortTexts \cup Names \cup MixedRows \cup Rows \cup Programs
=============================================================================
