--------------------------- MODULE CompilerParser ---------------------------
(* furc_parser_parse_* (furc/src/backend/parser.c) as functions of a parser: *)
(* the position, the last node, the assertion that failed, and the positions *)
(* of the operators that were consumed and left out of the tree.  A function *)
(* given a parser that has stopped returns it.  Only TLC reads this module.  *)
EXTENDS CompilerLexer

NoNode == [type |-> "NONE", op |-> "", values |-> <<>>, kids |-> <<>>]

Node(type, op, values, kids) == [type |-> type, op |-> op, values |-> values, kids |-> kids]

ParserAt(k) == [at |-> k, node |-> NoNode, fault |-> NoFault, dropped |-> {}]

Stopped(p) == p.fault # NoFault
Failed(p, assertion) == IF Stopped(p) THEN p ELSE [p EXCEPT !.fault = assertion]
Made(p, node) == [p EXCEPT !.node = node]
Advanced(p)   == [p EXCEPT !.at = @ + 1]
Wrapped(p, type, op) == Made(p, Node(type, op, <<>>, <<p.node>>))

\* A node in the making: it begins empty, takes what the next functions give
\* as values or as kids, and ends with its type.
Begun(p) == Made(p, NoNode)
ThenValues(p, Parse(_)) ==
  LET q == Parse(p) IN [q EXCEPT !.node = [p.node EXCEPT !.values = @ \o q.node.values]]
ThenKid(p, Parse(_)) ==
  LET q == Parse(p) IN [q EXCEPT !.node = [p.node EXCEPT !.kids = Append(@, q.node)]]
Ended(p, type) == [p EXCEPT !.node.type = type]

\* What the next token is compared with.  A peek behind the last token stops
\* the program; here it matches nothing, and the function that follows stops.
Peek(p) ==
  IF Stopped(p) \/ p.at > Len(tokens) THEN "end"
  ELSE IF tokens[p.at].assign THEN "assigning"   \* bit 31 is set
  ELSE tokens[p.at].type

\* The next token without its assignment bit.
Operator(p) == IF Peek(p) = "end" THEN "end" ELSE tokens[p.at].type

PeekKeyword(p) == IF Peek(p) = "keyword" THEN Keywords[tokens[p.at].text] ELSE "none"

\* furc_parser_eat, furc_parser_eat_ex
Eat(p, types) ==
  IF Peek(p) \in types THEN Advanced(p)
  ELSE Failed(p, "token is expected")

\* The parts of a token that the tree keeps.
ValueAt(k) == [text |-> tokens[k].text, number |-> tokens[k].number]

ParseLeaf(p, token, type) ==
  IF Peek(p) # token THEN Eat(p, {token})
  ELSE Made(Eat(p, {token}), Node(type, "", <<ValueAt(p.at)>>, <<>>))

ParseLiteral(p) == ParseLeaf(p, "number", "LITERAL")
ParseLvalue(p)  == ParseLeaf(p, "name", "LVALUE")
ParseName(p)    == ParseLeaf(p, "name", "NAME")

ParseType(p) ==
  IF Peek(p) = "keyword" /\ PeekKeyword(p) \notin {"void", "int"} THEN Failed(p, "type is void or int")
  ELSE ParseLeaf(p, "keyword", "TYPE")
-----------------------------------------------------------------------------
\* _furc_token_precedence
Precedence(type) ==
  CASE type \in {"+", "-"} -> 10
    [] type \in {"*", "/"} -> 20
    [] type = "%" -> 30
    [] type \in {"&", "|", "^", "<<", ">>"} -> 40
    [] type \in {"==", "<", ">", "<=", ">=", "!="} -> 45
    [] type \in {",", "&&", "||"} -> 50
    [] OTHER -> 0

Binary == {"+", "-", "*", "/", "%", "&", "|", "^", "<<", ">>", "==", "<", ">", "<=", ">=", "!=",
           ",", "&&", "||"}

RECURSIVE ParsePrimary(_), ParseRhs(_, _), ParseArguments(_), ParseStatement(_), ParseStatements(_)

ParseRvalue(p) == ParseRhs(ParsePrimary(p), 0)

ParsePrimary(p) ==
  LET t == Peek(p)
  IN  CASE t \in {"++", "--"}           -> Wrapped(ParseLvalue(Advanced(p)), "PRE", t)
        [] t \in {"+", "-", "~", "!"}   -> Wrapped(ParsePrimary(Advanced(p)), "UNARY", t)
        [] t = "number"                 -> ParseLiteral(p)
        [] t = "("                      -> Wrapped(Eat(ParseRvalue(Advanced(p)), {")"}), "PAREN", "")
        [] OTHER                        -> ParseLvalue(p)

\* The arguments from p on.
ParseArguments(p) ==
  LET q == ThenKid(p, ParseRvalue) IN IF Peek(q) = "," THEN ParseArguments(Advanced(q)) ELSE q

Unless(p, token, q) == IF Peek(p) = token THEN p ELSE q

\* The node of p was called with what follows.
ParseCall(p) ==
  LET open == Wrapped(Advanced(p), "CALL", "") IN Eat(Unless(open, ")", ParseArguments(open)), {")"})

Extended(q, precedence, assigns) ==
  IF assigns \/ precedence < Precedence(Peek(q)) THEN ParseRhs(q, precedence + 1) ELSE q

\* A slip: what follows the right operand is never looked at.
ParseOperandAlone(p, precedence, assigns) == ParsePrimary(Advanced(p))

\* The right operand of the operator at p, with what binds closer to it.
ParseOperand(p, precedence, assigns) == Extended(ParsePrimary(Advanced(p)), precedence, assigns)

\* The node of p and the operand q under the operator at p.
Joined(p, q, assigns) ==
  IF assigns /\ p.node.type # "LVALUE" THEN Failed(q, "lhs is an lvalue")
  ELSE Made(q, Node(IF assigns THEN "ASSIGNMENT" ELSE "BINOP", Operator(p), <<>>, <<p.node, q.node>>))

\* furc_parser_parse_rvalue_rhs: an operator that binds less than the
\* precedence asks for is consumed all the same, and lost.
ParseRhs(p, precedence) ==
  LET t       == Operator(p)
      assigns == t = "=" \/ Peek(p) = "assigning"
  IN  CASE t = "(" -> ParseRhs(ParseCall(p), precedence)
        [] t \in Binary \cup {"="} /\ Precedence(t) < precedence ->
             [Advanced(p) EXCEPT !.dropped = @ \cup {p.at}]
        [] t \in Binary \cup {"="} /\ Precedence(t) >= precedence ->
             ParseRhs(Joined(p, ParseOperand(p, Precedence(t), assigns), assigns), precedence)
        [] t \in {"++", "--"} ->
             IF p.node.type # "LVALUE" THEN Failed(p, "lhs is an lvalue")
             ELSE ParseRhs(Wrapped(Advanced(p), "POST", t), precedence)
        [] OTHER -> p
-----------------------------------------------------------------------------
\* The statements up to the closing brace.
ParseStatements(p) ==
  IF Stopped(p) \/ Peek(p) = "}" THEN p ELSE ParseStatements(ThenKid(p, ParseStatement))

ParseBody(p) == Ended(Advanced(ParseStatements(Begun(Eat(p, {"{"})))), "BODY")

\* if, switch and while: an expression in parentheses and a statement.
ParseHead(p) == Eat(ParseRvalue(Eat(Advanced(p), {"("})), {")"})

ParseGuarded(p, type) == Ended(ThenKid(ThenKid(Begun(p), ParseHead), ParseStatement), type)

\* A slip: the statement after else is parsed, and not kept.
ParseElseForgotten(p) ==
  Begun(IF PeekKeyword(p) = "else" THEN ParseStatement(Advanced(p)) ELSE p)

\* The else belongs to the last if that has none.
ParseElse(p) == IF PeekKeyword(p) = "else" THEN ParseStatement(Advanced(p)) ELSE Begun(p)

ParseIf(p) == Ended(ThenKid(ThenKid(ThenKid(Begun(p), ParseHead), ParseStatement), ParseElse), "IF")

ParseAfterColon(p) == ParseStatement(Eat(p, {":"}))
ParseCase(p) ==
  Ended(ThenKid(ThenValues(Begun(Advanced(p)), ParseLiteral), ParseAfterColon), "CASE")

\* The first part is a statement with its own semicolon: when it is left out,
\* its semicolon is the one that ends the condition.
ParseForFirst(p) == Unless(Begun(p), ";", ParseStatement(p))

\* A slip: the condition is not optional.
ParseForConditionAlways(p) == Eat(ParseRvalue(p), {";"})

ParseForCondition(p) == Eat(Unless(Begun(p), ";", ParseRvalue(p)), {";"})
ParseForLast(p)      == Eat(Unless(Begun(p), ")", ParseRvalue(p)), {")"})

ParseFor(p) ==
  LET head == ThenKid(ThenKid(Begun(Eat(Advanced(p), {"("})), ParseForFirst), ParseForCondition)
  IN  Ended(ThenKid(ThenKid(head, ParseForLast), ParseStatement), "FOR")

ParseReturn(p) ==
  Wrapped(Eat(Unless(Begun(Advanced(p)), ";", ParseRvalue(Advanced(p))), {";"}), "RETURN", "")

\* The value that may follow the name of a variable.
ParseInitial(p) ==
  IF Peek(p) = ";" THEN Begun(Advanced(p)) ELSE Eat(ParseRvalue(Eat(p, {"="})), {";"})

TypedName(p) == ThenValues(ThenValues(p, ParseType), ParseName)

ParseVariable(p, type) == Ended(ThenKid(TypedName(Begun(p)), ParseInitial), type)

ParseStatement(p) ==
  LET keyword == PeekKeyword(p)
  IN  CASE Stopped(p) -> p
        [] keyword = "if"     -> ParseIf(p)
        [] keyword = "switch" -> ParseGuarded(p, "SWITCH")
        [] keyword = "case"   -> ParseCase(p)
        [] keyword = "for"    -> ParseFor(p)
        [] keyword = "while"  -> ParseGuarded(p, "WHILE")
        [] keyword = "break"  -> Made(Eat(Advanced(p), {";"}), Node("BREAK", "", <<>>, <<>>))
        [] keyword = "return" -> ParseReturn(p)
        [] keyword \notin {"none", "if", "switch", "case", "for", "while", "break", "return"} ->
             ParseVariable(p, "VAR_DECL")
        [] keyword = "none" /\ Peek(p) = "{" -> ParseBody(p)
        [] OTHER -> Wrapped(Eat(ParseRvalue(p), {";"}), "RVALUE", "")
-----------------------------------------------------------------------------
\* The parameters from p on.
RECURSIVE ParseParams(_)
ParseParams(p) ==
  LET q == TypedName(p) IN IF Peek(q) = "," THEN ParseParams(Advanced(q)) ELSE q

ParseFunctionBody(p) ==
  CASE Peek(p) = "{" -> ParseBody(p)
    [] Peek(p) = ";" -> Begun(Advanced(p))
    [] OTHER         -> Failed(p, "function has a body or ends")

ParseFunction(p) ==
  LET open == Eat(TypedName(Begun(p)), {"("})
  IN  Ended(ThenKid(Eat(Unless(open, ")", ParseParams(open)), {")"}), ParseFunctionBody), "FUNCTION")

\* furc_parser_parse_declaration
ParseDeclaration(p) ==
  IF Peek(TypedName(Begun(p))) = "(" THEN ParseFunction(p) ELSE ParseVariable(p, "VARIABLE")
=============================================================================
