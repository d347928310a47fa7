----------------------------- MODULE FormulaParser -----------------------------
(***************************************************************************)
(* The recursive-descent parser of formulas                                *)
(* (src/backend/mizan/platform/formula/parser.py) against trees written    *)
(* out with the fewest parentheses their grammar (SPEC, Appendix K.1)      *)
(* allows.  One name stands for names, numbers and strings, < for the six  *)
(* comparisons, * for those that bind like it.                             *)
(***************************************************************************)
EXTENDS Naturals, Sequences, SequencesExt

CONSTANTS
  MaxDepth,  \* MAX_DEPTH
  MaxWraps   \* bound: how often a tree is made part of a larger one

ASSUME ParserAssumption == MaxDepth \in Nat \ {0} /\ MaxWraps \in Nat

VARIABLES tree, wraps

parserVars == <<tree, wraps>>

Node(op, args) == [op |-> op, args |-> args]
Name == Node("x", <<>>)

-----------------------------------------------------------------------------
(* The parser.  A result is the tree and the place after it, or Error; t   *)
(* are the tokens, i the next one, d the nesting.                          *)

Error == [node |-> Name, next |-> 0]
At(t, i, tokens) == i \in DOMAIN t /\ t[i] \in tokens
Failed(r) == r.next = 0

RECURSIVE NotExpr(_, _, _), Power(_, _, _), Unary(_, _, _), Postfix(_, _, _),
          Operands(_, _, _), Arguments(_, _, _), Fold(_, _, _, _)

\* The levels that others call, see below.
RECURSIVE Read(_, _, _, _)
Expr(t, i, d) == Read("expr", t, i, d)

\* One operand of the left-associative operators of a level.
Operand(level, t, i, d) ==
  CASE level = "or" -> Fold("and", t, Read("not", t, i, d), d)
    [] level = "and" -> Read("not", t, i, d)
    [] level = "+" -> Fold("*", t, Read("power", t, i, d), d)
    [] level = "*" -> Read("power", t, i, d)

Operators(level) == CASE level = "or" -> {"or"} [] level = "and" -> {"and"}
                      [] level = "+" -> {"+", "-"} [] level = "*" -> {"*"}

\* or_expr(), and_expr(), additive(), term(): what was read takes the next operand on its right.
Fold(level, t, left, d) ==
  IF Failed(left) \/ ~At(t, left.next, Operators(level)) THEN left
  ELSE LET right == Operand(level, t, left.next + 1, d)
       IN IF Failed(right) THEN Error
          ELSE Fold(level, t, [node |-> Node(t[left.next], <<left.node, right.node>>),
                               next |-> right.next], d)

Level(level, t, i, d) == Fold(level, t, Operand(level, t, i, d), d)

\* A token, an expression, a token that closes it.
Enclosed(t, i, close, d) ==
  LET r == Expr(t, i, d)
  IN IF ~Failed(r) /\ At(t, r.next, {close}) THEN [r EXCEPT !.next = @ + 1] ELSE Error

Ternary(t, i, d) ==
  LET c == Level("or", t, i, d)
      a == Enclosed(t, c.next + 1, ":", d)
      b == Expr(t, a.next, d)
  IN IF Failed(c) \/ ~At(t, c.next, {"?"}) THEN c
     ELSE IF Failed(a) \/ Failed(b) THEN Error
     ELSE [b EXCEPT !.node = Node("?", <<c.node, a.node, b.node>>)]

\* comparison(): a chain of operands is one node.
Operands(t, r, d) ==
  IF Failed(r) \/ ~At(t, r.next, {"<"}) THEN r
  ELSE LET s == Level("+", t, r.next + 1, d)
       IN IF Failed(s) THEN Error
          ELSE Operands(t, [node |-> Append(r.node, s.node), next |-> s.next], d)

Comparison(t, i, d) ==
  LET first == Level("+", t, i, d)
      all == Operands(t, [first EXCEPT !.node = <<@>>], d)
  IN IF Failed(first) \/ Failed(all) THEN Error
     ELSE IF Len(all.node) = 1 THEN first ELSE [all EXCEPT !.node = Node("<", @)]

Prefixed(op, r) == IF Failed(r) THEN Error ELSE [r EXCEPT !.node = Node(op, <<@>>)]

NotExpr(t, i, d) ==
  IF At(t, i, {"not"}) THEN Prefixed("not", NotExpr(t, i + 1, d)) ELSE Comparison(t, i, d)

\* Mutant: the exponents of a chain are taken from the left.
PowerFromTheLeft(t, i, d) ==
  LET base == Unary(t, i, d)
      first == Unary(t, base.next + 1, d)
      rest == Power(t, first.next + 1, d + 1)
      node == Node("^", <<base.node, first.node>>)
  IN IF Failed(base) \/ ~At(t, base.next, {"^"}) THEN base
     ELSE IF Failed(first) \/ d = MaxDepth THEN Error
     ELSE IF ~At(t, first.next, {"^"}) THEN [first EXCEPT !.node = node]
     ELSE IF Failed(rest) THEN Error ELSE [rest EXCEPT !.node = Node("^", <<node, @>>)]

\* power(): right associative, and the only other place that counts as nesting.
Power(t, i, d) ==
  LET base == Unary(t, i, d)
      exponent == Power(t, base.next + 1, d + 1)
  IN IF Failed(base) \/ ~At(t, base.next, {"^"}) THEN base
     ELSE IF d = MaxDepth \/ Failed(exponent) THEN Error
     ELSE [exponent EXCEPT !.node = Node("^", <<base.node, @>>)]

Arguments(t, r, d) ==
  LET s == Expr(t, r.next + 1, d)
  IN IF Failed(r) \/ ~At(t, r.next, {","}) THEN r
     ELSE IF Failed(s) THEN Error
     ELSE Arguments(t, [node |-> Append(r.node, s.node), next |-> s.next], d)

\* call(): i is after the opening parenthesis.
Call(t, i, d) ==
  LET first == Expr(t, i, d)
      all == Arguments(t, [first EXCEPT !.node = <<@>>], d)
  IN IF At(t, i, {")"}) THEN Postfix(t, [node |-> Node("call", <<>>), next |-> i + 1], d)
     ELSE IF ~Failed(first) /\ ~Failed(all) /\ At(t, all.next, {")"})
       THEN Postfix(t, [node |-> Node("call", all.node), next |-> all.next + 1], d)
     ELSE Error

Primary(t, i, d) ==
  CASE At(t, i, {"x"}) -> Postfix(t, [node |-> Name, next |-> i + 1], d)
    [] At(t, i, {"call"}) -> IF At(t, i + 1, {"("}) THEN Call(t, i + 2, d) ELSE Error
    [] At(t, i, {"("}) -> Postfix(t, Enclosed(t, i + 1, ")", d), d)
    [] At(t, i, {"{"}) -> Prefixed("{", Enclosed(t, i + 1, "}", d))
    [] At(t, i, {".", ".key"}) -> Postfix(t, [node |-> Node(t[i], <<>>), next |-> i + 1], d)
    [] OTHER -> Error

\* unary(): a minus holds its primary tighter than an exponent does.
Unary(t, i, d) ==
  IF At(t, i, {"-"}) THEN Prefixed("neg", Unary(t, i + 1, d)) ELSE Primary(t, i, d)

Postfix(t, base, d) ==
  LET index == Enclosed(t, base.next + 1, "]", d)
  IN CASE Failed(base) -> Error
       [] At(t, base.next, {".key"}) ->
            Postfix(t, [node |-> Node(".key", <<base.node>>), next |-> base.next + 1], d)
       [] At(t, base.next, {"["}) ->
            IF Failed(index) THEN Error
            ELSE Postfix(t, [index EXCEPT !.node = Node("[", <<base.node, @>>)], d)
       [] OTHER -> base

\* expr(), not_expr() and power().
Read(level, t, i, d) ==
  CASE level = "expr" -> IF d = MaxDepth THEN Error ELSE Ternary(t, i, d + 1)
    [] level = "not" -> NotExpr(t, i, d)
    [] level = "power" -> Power(t, i, d)

\* parse(): nothing may be left over.
Parse(t) == LET r == Expr(t, 1, 0) IN IF r.next = Len(t) + 1 THEN r ELSE Error

-----------------------------------------------------------------------------
(* What the grammar says: how tightly each operator binds, and how a tree  *)
(* is written.                                                             *)

Binding(op) ==
  CASE op = "?" -> 0 [] op = "or" -> 1 [] op = "and" -> 2 [] op = "not" -> 3 [] op = "<" -> 4
    [] op \in {"+", "-"} -> 5 [] op = "*" -> 6 [] op = "^" -> 7 [] op \in {"neg", "{"} -> 8
    [] OTHER -> 9

\* The weakest operator the argument at a place may have without parentheses.
Needed(op, place) ==
  CASE op \in {"?"} -> IF place = 1 THEN 1 ELSE 0
    [] op \in {"or", "and", "+", "-", "*"} -> Binding(op) + place - 1
    [] op = "not" -> 3
    [] op = "<" -> 5
    [] op = "^" -> IF place = 1 THEN 8 ELSE 7
    [] op = "neg" -> 8
    [] op \in {".key", "["} -> IF place = 1 THEN 9 ELSE 0
    [] OTHER -> 0

RECURSIVE Written(_)

Argument(n, place) ==
  LET text == Written(n.args[place])
  IN IF Binding(n.args[place].op) < Needed(n.op, place) THEN <<"(">> \o text \o <<")">> ELSE text

Written(n) ==
  LET arg(i) == Argument(n, i)
      joined(token) == FlattenSeq([i \in 1..(2 * Len(n.args) - 1) |->
                                     IF i % 2 = 1 THEN arg((i + 1) \div 2) ELSE <<token>>])
  IN CASE n.op = "x" -> <<"x">>
       [] n.op \in {".", ".key"} /\ n.args = <<>> -> <<n.op>>
       [] n.op = "?" -> arg(1) \o <<"?">> \o arg(2) \o <<":">> \o arg(3)
       [] n.op = "not" -> <<"not">> \o arg(1)
       [] n.op = "neg" -> <<"-">> \o arg(1)
       [] n.op = ".key" -> arg(1) \o <<".key">>
       [] n.op = "[" -> arg(1) \o <<"[">> \o arg(2) \o <<"]">>
       [] n.op = "{" -> <<"{">> \o arg(1) \o <<"}">>
       [] n.op = "call" ->
            <<"call", "(">> \o (IF n.args = <<>> THEN <<>> ELSE joined(",")) \o <<")">>
       [] OTHER -> joined(n.op)

\* How much deeper an argument is: what stands in parentheses, brackets or braces, between ? and
\* : or after it is an expression within the expression; an exponent counts like one.
Deeper(n, place) ==
  Cardinality({why \in {"expression", "exponent", "parentheses"} :
    CASE why = "expression" -> \/ n.op \in {"{", "call"}
                               \/ n.op = "[" /\ place = 2
                               \/ n.op = "?" /\ place > 1
      [] why = "exponent" -> n.op = "^" /\ place = 2
      [] why = "parentheses" -> Binding(n.args[place].op) < Needed(n.op, place)})

RECURSIVE Nesting(_)
Nesting(n) == Max({0} \cup {Nesting(n.args[p]) + Deeper(n, p) : p \in DOMAIN n.args})

-----------------------------------------------------------------------------
Ops == {"?", "or", "and", "not", "<", "+", "-", "*", "^", "neg", ".key", "[", "{", "call"}
Arity(op) == CASE op \in {"not", "neg", ".key", "{"} -> {1} [] op = "?" -> {3}
               [] op = "call" -> 0..2 [] op = "<" -> {2, 3} [] OTHER -> {2}

\* What stands beside the tree in a larger one.
Beside == {Node(".key", <<>>), Node("neg", <<Name>>)}

ParserInit == tree = Name /\ wraps = 0

\* The tree becomes an argument of an operator.
Wrap ==
  /\ wraps < MaxWraps
  /\ \E op \in Ops : \E n \in Arity(op) : \E other \in Beside, place \in 1..n :
       tree' = Node(op, [i \in 1..n |-> IF i = place THEN tree ELSE other])
  /\ wraps' = wraps + 1

Again == wraps = MaxWraps /\ UNCHANGED parserVars

ParserNext == Wrap \/ Again

\* Whatever tree is written out, the parser finds that tree, each operator as tight and as
\* leaning to its side as the grammar has it; and refuses it if it nests too deeply.
ParserFindsTheTree ==
  LET r == Parse(Written(tree))
  IN IF Nesting(tree) >= MaxDepth THEN r = Error ELSE ~Failed(r) /\ r.node = tree
=============================================================================
