------------------------------ MODULE Compiler ------------------------------
(* The program furc (furc/src/main.c): the file is read, all of it is        *)
(* tokenized, then furc_parser_parse takes one declaration after another.    *)
EXTENDS CompilerParser

VARIABLES
  program,    \* the declarations parsed so far
  cursor,     \* position of the next token
  dropped     \* positions of the operators that are in no tree

parser == <<program, cursor, dropped>>
vars   == <<lexer, parser>>

Init ==
  /\ LexerInit
  /\ program = <<>> /\ cursor = 1 /\ dropped = {}
-----------------------------------------------------------------------------
Parses == phase = "parsing" /\ fault = NoFault

\* A slip: a declaration that cannot be parsed becomes an empty node.
ParseRecovering ==
  LET p == ParseDeclaration(ParserAt(cursor))
  IN  /\ Parses /\ cursor <= Len(tokens)
      /\ program' = Append(program, p.node)
      /\ cursor' = IF Stopped(p) THEN cursor ELSE p.at
      /\ dropped' = dropped \cup p.dropped
      /\ UNCHANGED <<source, content, at, tokens, arena, phase, fault>>

Parse ==
  LET p == ParseDeclaration(ParserAt(cursor))
  IN  /\ Parses /\ cursor <= Len(tokens)
      /\ IF Stopped(p) THEN fault' = p.fault /\ UNCHANGED parser
         ELSE /\ program' = Append(program, p.node)
              /\ cursor' = p.at
              /\ dropped' = dropped \cup p.dropped
              /\ UNCHANGED fault
      /\ UNCHANGED <<source, content, at, tokens, arena, phase>>

ParseEnds ==
  /\ Parses /\ cursor > Len(tokens)
  /\ phase' = "parsed"
  /\ UNCHANGED <<source, content, at, tokens, arena, fault, parser>>

\* The process has returned from main or was stopped.
Terminated == (phase = "parsed" \/ fault # NoFault) /\ UNCHANGED vars

Next ==
  \/ (Load \/ Scan) /\ UNCHANGED parser
  \/ Parse
  \/ ParseEnds
  \/ Terminated

Spec == Init /\ [][Next]_vars
-----------------------------------------------------------------------------
(* Properties.                                                               *)

Symbol(type, assign, text, number) ==
  [type |-> type, assign |-> assign, text |-> text, number |-> number]

Sign(type)       == <<Symbol(type, FALSE, <<>>, 0)>>
Assigning(type)  == <<Symbol(type, type # "=", <<>>, 0)>>
Number(value)    == <<Symbol("number", FALSE, <<>>, value.number)>>
Named(value)     == <<Symbol("name", FALSE, value.text, 0)>>
Keyword(value)   == <<Symbol("keyword", FALSE, value.text, 0)>>
KeywordOf(word)  ==
  <<Symbol("keyword", FALSE, CHOOSE t \in DOMAIN Keywords : Keywords[t] = word, 0)>>

\* The symbols a tree stands for, as it would be written.
RECURSIVE Spelled(_)
SpelledAll(nodes) == FlattenSeq([k \in DOMAIN nodes |-> Spelled(nodes[k])])

SpelledHead(word, node) ==
  KeywordOf(word) \o Sign("(") \o Spelled(node.kids[1]) \o Sign(")") \o Spelled(node.kids[2])

SpelledParams(values) ==
  FlattenSeq([k \in 1..(Len(values) \div 2) |->
    (IF k > 1 THEN Sign(",") ELSE <<>>) \o Keyword(values[2 * k - 1]) \o Named(values[2 * k])])

SpelledArguments(nodes) ==
  FlattenSeq([k \in DOMAIN nodes |-> (IF k > 1 THEN Sign(",") ELSE <<>>) \o Spelled(nodes[k])])

Spelled(node) ==
  LET kids == node.kids
  IN  CASE node.type = "NONE"       -> <<>>
        [] node.type = "LITERAL"    -> Number(node.values[1])
        [] node.type = "LVALUE"     -> Named(node.values[1])
        [] node.type \in {"PRE", "UNARY"} -> Sign(node.op) \o Spelled(kids[1])
        [] node.type = "POST"       -> Spelled(kids[1]) \o Sign(node.op)
        [] node.type = "PAREN"      -> Sign("(") \o Spelled(kids[1]) \o Sign(")")
        [] node.type = "BINOP"      -> Spelled(kids[1]) \o Sign(node.op) \o Spelled(kids[2])
        [] node.type = "ASSIGNMENT" -> Spelled(kids[1]) \o Assigning(node.op) \o Spelled(kids[2])
        [] node.type = "CALL"       -> Spelled(kids[1]) \o Sign("(") \o SpelledArguments(Tail(kids)) \o Sign(")")
        [] node.type = "RVALUE"     -> Spelled(kids[1]) \o Sign(";")
        [] node.type = "BODY"       -> Sign("{") \o SpelledAll(kids) \o Sign("}")
        [] node.type = "SWITCH"     -> SpelledHead("switch", node)
        [] node.type = "WHILE"      -> SpelledHead("while", node)
        [] node.type = "IF"         -> SpelledHead("if", node)
                                         \o (IF kids[3] = NoNode THEN <<>> ELSE KeywordOf("else") \o Spelled(kids[3]))
        [] node.type = "CASE"       -> KeywordOf("case") \o Number(node.values[1]) \o Sign(":") \o Spelled(kids[1])
        [] node.type = "FOR"        -> KeywordOf("for") \o Sign("(") \o Spelled(kids[1]) \o Spelled(kids[2])
                                         \o Sign(";") \o Spelled(kids[3]) \o Sign(")") \o Spelled(kids[4])
        [] node.type = "BREAK"      -> KeywordOf("break") \o Sign(";")
        [] node.type = "RETURN"     -> KeywordOf("return") \o Spelled(kids[1]) \o Sign(";")
        [] node.type \in {"VAR_DECL", "VARIABLE"} ->
             Keyword(node.values[1]) \o Named(node.values[2])
               \o (IF kids[1] = NoNode THEN <<>> ELSE Sign("=") \o Spelled(kids[1])) \o Sign(";")
        [] node.type = "FUNCTION"   ->
             Keyword(node.values[1]) \o Named(node.values[2]) \o Sign("(")
               \o SpelledParams(SubSeq(node.values, 3, Len(node.values))) \o Sign(")")
               \o (IF kids[1] = NoNode THEN Sign(";") ELSE Spelled(kids[1]))

SymbolAt(k) == Symbol(tokens[k].type, tokens[k].assign, tokens[k].text, tokens[k].number)

\* Nothing that was consumed is missing from the tree or out of its place in
\* it, but for the operators that parse_rvalue_rhs drops (parser.c:257-260).
TreeSpellsTokens ==
  SpelledAll(program) = FlattenSeq([k \in 1..(cursor - 1) |-> IF k \in dropped THEN <<>> ELSE <<SymbolAt(k)>>])

\* The nodes of a tree.
RECURSIVE NodesOf(_)
NodesOf(node) == {node} \cup UNION {NodesOf(node.kids[k]) : k \in DOMAIN node.kids}
Nodes == UNION {NodesOf(program[k]) : k \in DOMAIN program}

\* An operand of a binary operator is a closer operator, or on the left an
\* equally close one; it is never an assignment, however operators, calls,
\* signs and postfixes follow each other (the look-ahead of parser.c:264-266).
\* Once an operator was dropped nothing of the kind is claimed.
NestsByPrecedence ==
  dropped = {} =>
    \A node \in Nodes : node.type = "BINOP" =>
      /\ node.kids[1].type = "BINOP" => Precedence(node.kids[1].op) >= Precedence(node.op)
      /\ node.kids[2].type = "BINOP" => Precedence(node.kids[2].op) > Precedence(node.op)
      /\ \A k \in 1..2 : node.kids[k].type # "ASSIGNMENT"

\* "Comma operator (like in C)" (ast.h:112): in C a comma between arguments
\* separates them, and no other operator takes a comma expression as operand
\* unless it stands in parentheses.
CommaIsLikeInC ==
  \A node \in Nodes : node.type \in {"CALL", "BINOP", "ASSIGNMENT"} =>
    \A k \in DOMAIN node.kids :
      node.kids[k].type = "BINOP" /\ node.kids[k].op = "," => node.type = "BINOP" /\ node.op = ","

\* No declaration is parsed without taking a token, and none is taken twice, so
\* the parser's loop ends (parser.c:503).
EveryParseConsumes ==
  [][phase = "parsing" /\ phase' = phase => cursor' > cursor \/ fault' # fault]_vars
-----------------------------------------------------------------------------
TypeOK ==
  /\ LexerTypeOK
  /\ cursor \in 1..(Len(tokens) + 1)
  /\ phase \in {"loading", "scanning", "parsing", "parsed"}
  /\ dropped \subseteq 1..(cursor - 1)
  /\ fault \in {NoFault, "length is positive", "string is closed", "character is closed",
                "character is expected", "token is expected", "type is void or int",
                "lhs is an lvalue", "function has a body or ends"}
=============================================================================
