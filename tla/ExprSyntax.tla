----------------------------- MODULE ExprSyntax -----------------------------
(***************************************************************************)
(* The text of a niadra-expr (state/expr.py) and its syntax tree. A text   *)
(* is a sequence of tokens, a literal token with its value. A datum is an  *)
(* integer: a boolean is 0 or 1, a string a code, a number is counted in   *)
(* halves (half a unit is the fraction), a date in days, an instant and a  *)
(* duration in ticks. The parser is the code's recursive descent, a        *)
(* function from a position to the tree found there and where it ends.     *)
(***************************************************************************)
EXTENDS Integers, Sequences, SequencesExt

CONSTANTS MaxTokens, MaxNesting, MaxListLiteral, MaxArgs  \* MAX_TOKENS, MAX_NESTING, MAX_LIST_LITERAL, MAX_SHA256_ARGS

ASSUME SyntaxAssumption == {MaxTokens, MaxNesting, MaxListLiteral, MaxArgs} \subseteq Nat \ {0}

-----------------------------------------------------------------------------
(* Values and their logic *)

Value(kind, num) == [logic |-> "yes", kind |-> kind, num |-> num, items |-> <<>>, absent |-> ""]
Listed(items) == [Value("list", 0) EXCEPT !.items = items]
Boolean(flag) == [Value("bool", IF flag THEN 1 ELSE 0) EXCEPT !.logic = IF flag THEN "yes" ELSE "no"]
Absent(name) == [Value("none", 0) EXCEPT !.logic = "no", !.absent = name]
Unknown(logic) == [Value("none", 0) EXCEPT !.logic = logic]
Unobserved == Unknown("unobserved")

-----------------------------------------------------------------------------
(* Syntax trees *)

Lit(datum) == [node |-> "lit", value |-> datum]
LogicWord(logic) == [node |-> "word", logic |-> logic]
Name(parts) == [node |-> "name", parts |-> parts]
Member(target, name) == [node |-> "member", target |-> target, name |-> name]
Call(function, args) == [node |-> "call", function |-> function, args |-> args]
ListLit(items) == [node |-> "list", args |-> items]
Not(operand) == [node |-> "not", operand |-> operand]
Junction(op, operands) == [node |-> "boolop", op |-> op, args |-> operands]
Comparison(op, left, right) == [node |-> "compare", op |-> op, left |-> left, right |-> right]
Sum(op, left, right) == [node |-> "arith", op |-> op, left |-> left, right |-> right]

Comparisons == {"==", "!=", "<", "<=", ">", ">=", "in"}

\* _placement: where yes, no, unobserved and known_defect stand, and what was() may hold
RECURSIVE Placed(_, _)
Placed(node, insideWas) ==
    CASE node.node \in {"lit", "name"} -> TRUE
      [] node.node = "word" -> FALSE
      [] node.node = "compare" ->
            LET words == {side \in {node.left, node.right} : side.node = "word"}
            IN  /\ words # {} => node.op \in {"==", "!="} /\ ~(node.left.node = "word" /\ node.right.node = "word")
                /\ \A side \in {node.left, node.right} \ words : Placed(side, insideWas)
      [] node.node = "call" ->
            /\ ~(insideWas /\ node.function \in {"was", "changed", "age", "observer"})
            /\ \A i \in DOMAIN node.args : Placed(node.args[i], insideWas \/ node.function = "was")
      [] node.node = "member" -> Placed(node.target, insideWas)
      [] node.node \in {"list", "boolop"} -> \A i \in DOMAIN node.args : Placed(node.args[i], insideWas)
      [] node.node = "not" -> Placed(node.operand, insideWas)
      [] node.node = "arith" -> Placed(node.left, insideWas) /\ Placed(node.right, insideWas)

-----------------------------------------------------------------------------
(* Tokens *)

Op(text) == [kind |-> "op", text |-> text]
Word(text) == [kind |-> "name", text |-> text]
Literal(datum) == [kind |-> "lit", value |-> datum]
End == [kind |-> "end", text |-> ""]

LogicWords == {"yes", "no", "unobserved", "known_defect"}
LiteralWords == {"true", "false", "none"}
OperatorWords == {"and", "or", "not", "in"}
Keywords == LogicWords \cup LiteralWords \cup OperatorWords
Functions == {"now", "age", "observer", "changed", "was", "count", "business_days", "quote", "presented_in_top", "sha256"}

LiteralOf(word) ==
    CASE word = "true" -> Boolean(TRUE) [] word = "false" -> Boolean(FALSE) [] word = "none" -> Absent("")

At(tokens, p, text) == tokens[p].kind # "lit" /\ tokens[p].text = text
AtName(tokens, p) == tokens[p].kind = "name" /\ tokens[p].text \notin Keywords

-----------------------------------------------------------------------------
(* The parser: what was found (one tree, or the operands so far), where it ends, whether it was in brackets *)

Found(trees, p) == [trees |-> trees, pos |-> p, grouped |-> FALSE, code |-> "ok"]
One(tree, p) == Found(<<tree>>, p)
Raises(code) == [Found(<<>>, 0) EXCEPT !.code = code]
Ok(found) == found.code = "ok"
TreeOf(found) == found.trees[1]

\* what follows once something was found, and its trees before those of the rest
Then(found, Rest(_)) == IF Ok(found) THEN Rest(found) ELSE found
Ahead(found, rest) == Then(rest, LAMBDA r : [r EXCEPT !.trees = found.trees \o @])

\* expect(): the bracket that must follow
Closed(found, tokens, text) ==
    Then(found, LAMBDA f : IF At(tokens, f.pos, text) THEN [f EXCEPT !.pos = @ + 1] ELSE Raises("invalid"))

RECURSIVE Chain(_, _, _, _), Negated(_, _, _), SumFrom(_, _, _, _), Postfix(_, _, _), Primary(_, _, _)

Joined(word, all) == IF Ok(all) /\ Len(all.trees) > 1 THEN One(Junction(word, all.trees), all.pos) ELSE all

\* disjunction() and conjunction(): the operands of one word
Chain(word, tokens, p, n) ==
    Then(IF word = "or" THEN Joined("and", Chain("and", tokens, p, n)) ELSE Negated(tokens, p, n),
         LAMBDA first : IF At(tokens, first.pos, word)
                        THEN Ahead(first, Chain(word, tokens, first.pos + 1, n)) ELSE first)

Disjunction(tokens, p, n) == Joined("or", Chain("or", tokens, p, n))

ComparisonAt(tokens, p) == tokens[p].kind # "lit" /\ tokens[p].text \in Comparisons

\* a side of a comparison
Summed(tokens, p, n) == Then(Postfix(tokens, p, n), LAMBDA first : SumFrom(TreeOf(first), tokens, first.pos, n))

\* comparison(): they do not chain
Compared(tokens, p, n) ==
    LET With(left, right) == IF ComparisonAt(tokens, right.pos) THEN Raises("invalid")
                             ELSE One(Comparison(tokens[left.pos].text, TreeOf(left), TreeOf(right)), right.pos)
    IN  Then(Summed(tokens, p, n),
             LAMBDA left : IF ComparisonAt(tokens, left.pos)
                           THEN Then(Summed(tokens, left.pos + 1, n), LAMBDA right : With(left, right)) ELSE left)

Inverted(operand) == Then(operand, LAMBDA o : One(Not(TreeOf(o)), o.pos))

NegatedTightly(tokens, p, n) ==
    IF At(tokens, p, "not") THEN Inverted(Postfix(tokens, p + 1, n)) ELSE Compared(tokens, p, n)

NegatedLoosely(tokens, p, n) ==
    IF At(tokens, p, "not") THEN Inverted(Negated(tokens, p + 1, n)) ELSE Compared(tokens, p, n)

\* negation(); a bug: not binds as tightly as a name
Negated(tokens, p, n) == NegatedLoosely(tokens, p, n)

\* sum(): from left to right
SumFrom(left, tokens, p, n) ==
    IF ~At(tokens, p, "+") /\ ~At(tokens, p, "-") THEN One(left, p)
    ELSE Then(Postfix(tokens, p + 1, n),
              LAMBDA right : SumFrom(Sum(tokens[p].text, left, TreeOf(right)), tokens, right.pos, n))

RECURSIVE Members(_, _)

\* a dot: one more part of a name that is not in brackets, or a member of what came before
Members(found, tokens) ==
    LET node == TreeOf(found)
        name == tokens[found.pos + 1].text
        joined == IF node.node = "name" /\ ~found.grouped THEN Name(Append(node.parts, name)) ELSE Member(node, name)
    IN  IF ~Ok(found) \/ ~At(tokens, found.pos, ".") THEN found
        ELSE IF ~AtName(tokens, found.pos + 1) THEN Raises("invalid")
        ELSE Members(One(joined, found.pos + 2), tokens)

Postfix(tokens, p, n) == Members(Primary(tokens, p, n), tokens)

RECURSIVE Items(_, _, _)

\* expressions with commas between them
Items(tokens, p, n) ==
    Then(Disjunction(tokens, p, n),
         LAMBDA first : IF At(tokens, first.pos, ",") THEN Ahead(first, Items(tokens, first.pos + 1, n)) ELSE first)

ListAt(tokens, p, n) ==
    Then(Closed(IF At(tokens, p, "]") THEN Found(<<>>, p) ELSE Items(tokens, p, n), tokens, "]"),
         LAMBDA all : IF Len(all.trees) > MaxListLiteral THEN Raises("limit") ELSE One(ListLit(all.trees), all.pos))

\* bare_name() and reference()
BareName(tokens, p) == IF AtName(tokens, p) THEN One(Name(<<tokens[p].text>>), p + 1) ELSE Raises("invalid")
Reference(tokens, p) == Members(BareName(tokens, p), tokens)

\* position(): a whole number from 1
Position(tokens, p) ==
    IF /\ tokens[p].kind = "lit" /\ tokens[p].value.kind = "number"
       /\ tokens[p].value.num % 2 = 0 /\ tokens[p].value.num >= 2
    THEN One(Lit(tokens[p].value), p + 1) ELSE Raises("invalid")

\* enter(): one group more
Inside(n, found) == IF n + 1 > MaxNesting THEN Raises("limit") ELSE found

\* call(): the arguments each function takes, after its bracket
Arguments(function, tokens, p, n) ==
    CASE function = "now" -> Found(<<>>, p)
      [] function \in {"age", "observer", "changed"} -> Reference(tokens, p)
      [] function = "quote" -> BareName(tokens, p)
      [] function = "presented_in_top" -> Position(tokens, p)
      [] function = "business_days" ->
            Then(Disjunction(tokens, p, n),
                 LAMBDA count : IF At(tokens, count.pos, ",") THEN Ahead(count, BareName(tokens, count.pos + 1))
                                ELSE Raises("invalid"))
      [] function = "sha256" ->
            Then(Items(tokens, p, n), LAMBDA all : IF Len(all.trees) > MaxArgs THEN Raises("invalid") ELSE all)
      [] OTHER -> Disjunction(tokens, p, n)

CallAt(function, tokens, p, n) ==
    IF function \notin Functions THEN Raises("invalid")
    ELSE Inside(n, Then(Closed(Arguments(function, tokens, p, n + 1), tokens, ")"),
                        LAMBDA args : One(Call(function, args.trees), args.pos)))

Primary(tokens, p, n) ==
    LET token == tokens[p]
    IN  CASE token.kind = "lit" -> One(Lit(token.value), p + 1)
          [] token.kind = "name" /\ token.text \in LiteralWords -> One(Lit(LiteralOf(token.text)), p + 1)
          [] token.kind = "name" /\ token.text \in LogicWords -> One(LogicWord(token.text), p + 1)
          [] AtName(tokens, p) /\ At(tokens, p + 1, "(") -> CallAt(token.text, tokens, p + 2, n)
          [] AtName(tokens, p) /\ ~At(tokens, p + 1, "(") -> One(Name(<<token.text>>), p + 1)
          [] token.kind = "op" /\ token.text = "(" ->
                Inside(n, Then(Closed(Disjunction(tokens, p + 1, n + 1), tokens, ")"),
                               LAMBDA group : [group EXCEPT !.grouped = TRUE]))
          [] token.kind = "op" /\ token.text = "[" -> Inside(n, ListAt(tokens, p + 1, n + 1))
          [] OTHER -> Raises("invalid")

\* parse()
Parse(text) ==
    LET tokens == Append(text, End)
    IN  IF text = <<>> THEN Raises("invalid")
        ELSE IF Len(text) > MaxTokens THEN Raises("limit")
        ELSE Then(Disjunction(tokens, 1, 0),
                  LAMBDA found : IF tokens[found.pos] # End \/ ~Placed(TreeOf(found), FALSE)
                                 THEN Raises("invalid") ELSE found)

-----------------------------------------------------------------------------
(* The other way: the text of a tree, with brackets where precedence asks for them *)

Level(node) ==
    CASE node.node = "boolop" -> IF node.op = "or" THEN 1 ELSE 2
      [] node.node = "not" -> 3 [] node.node = "compare" -> 4 [] node.node = "arith" -> 5
      [] node.node = "name" -> 6 [] OTHER -> 7

WordOf(datum) == CASE datum.kind = "none" -> "none" [] datum = Boolean(TRUE) -> "true" [] OTHER -> "false"

RECURSIVE TextOf(_), TextAll(_, _, _), NameText(_)

NameText(parts) ==
    IF Len(parts) = 1 THEN <<Word(parts[1])>> ELSE <<Word(parts[1]), Op(".")>> \o NameText(Tail(parts))

\* a tree where one of that level at least must stand
TextAt(node, level) == IF Level(node) < level THEN <<Op("(")>> \o TextOf(node) \o <<Op(")")>> ELSE TextOf(node)

TextAll(nodes, between, level) ==
    IF nodes = <<>> THEN <<>>
    ELSE IF Len(nodes) = 1 THEN TextAt(nodes[1], level)
    ELSE TextAt(nodes[1], level) \o <<between>> \o TextAll(Tail(nodes), between, level)

TextOf(node) ==
    CASE node.node = "lit" -> IF node.value.kind \in {"none", "bool"} THEN <<Word(WordOf(node.value))>> ELSE <<Literal(node.value)>>
      [] node.node = "word" -> <<Word(node.logic)>>
      [] node.node = "name" -> NameText(node.parts)
      [] node.node = "member" -> TextAt(node.target, 7) \o <<Op("."), Word(node.name)>>
      [] node.node = "call" -> <<Word(node.function), Op("(")>> \o TextAll(node.args, Op(","), 1) \o <<Op(")")>>
      [] node.node = "list" -> <<Op("[")>> \o TextAll(node.args, Op(","), 1) \o <<Op("]")>>
      [] node.node = "not" -> <<Word("not")>> \o TextAt(node.operand, 3)
      [] node.node = "boolop" -> TextAll(node.args, Word(node.op), Level(node) + 1)
      [] node.node = "compare" ->
            TextAt(node.left, 5) \o <<IF node.op = "in" THEN Word("in") ELSE Op(node.op)>> \o TextAt(node.right, 5)
      [] node.node = "arith" -> TextAt(node.left, 5) \o <<Op(node.op)>> \o TextAt(node.right, 6)

Opening == {Op("("), Op("[")}
Closing == {Op(")"), Op("]")}
Count(text, tokens) == Len(SelectSeq(text, LAMBDA t : t \in tokens))

\* how deep its brackets nest
Depth(text) ==
    LET depths == {Count(SubSeq(text, 1, i), Opening) - Count(SubSeq(text, 1, i), Closing) : i \in 0 .. Len(text)}
    IN  CHOOSE d \in depths : \A e \in depths : e <= d

Bare(text) == SelectSeq(text, LAMBDA t : t \notin {Op("("), Op(")")})
=============================================================================
