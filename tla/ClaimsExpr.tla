----------------------------- MODULE ClaimsExpr -----------------------------
(***************************************************************************)
(* The expressions that decide which claims are enough: the parser, a      *)
(* recursive descent over ||, &&, ! and parentheses, and Evaluate.         *)
(*                                                                         *)
(* An expression is what Evaluate makes of each set of claims.  An input   *)
(* is a sequence of tokens; white space between them is skipped.           *)
(***************************************************************************)
EXTENDS Naturals, Sequences

CONSTANTS
  Call,        \* the function calls an input may hold: name -> record of fn, key, values
  PrefixPairs, SubstringPairs,  \* pairs <<s, t>>: t is a prefix of s, a part of s
  Claims       \* sets of claims: from the paths that are there to the texts found there, one
               \* of a string or another scalar, those of its elements of an array

Results   == {"true", "false", "error"}
Truth(b)  == IF b THEN "true" ELSE "false"

Expressions == [Claims -> Results]

\* Evaluate of the five calls: some text of the claim against some value.
MatchesCall(fn, text, values) ==
  \E v \in values :
    CASE fn = "Prefix"    -> <<text, v>> \in PrefixPairs
      [] fn = "Substring" -> <<text, v>> \in SubstringPairs
      [] fn \in {"Equals", "Contains", "OneOf"} -> text = v

CallExpr(name) ==
  LET call == Call[name]
  IN  [c \in Claims |->
         IF call.key \notin DOMAIN c THEN "error"
         ELSE Truth(\E text \in c[call.key] : MatchesCall(call.fn, text, call.values))]

\* AndExpr, OrExpr, NotExpr: an error is the result, unless the left side decides.
And(l, r) == [c \in Claims |-> IF l[c] = "true" THEN r[c] ELSE l[c]]
Or(l, r)  == [c \in Claims |-> IF l[c] = "false" THEN r[c] ELSE l[c]]
Not(e)    == [c \in Claims |-> IF e[c] = "error" THEN "error" ELSE Truth(e[c] = "false")]

\* What a function of the parser returns: its expression, and the position it stopped at.
At(p, e) == [ok |-> TRUE, pos |-> p, expr |-> e]
Failed   == [ok |-> FALSE]

Operators == {"||", "&&", "!", "(", ")"}
Peek(input, p) == IF p <= Len(input) /\ input[p] \in Operators THEN input[p] ELSE ""

\* A token is an operator or a call, if anything.
ASSUME ClaimsAssumption == DOMAIN Call \cap Operators = {}

Rules  == {"or", "or...", "and", "and...", "not"}
Starts(input) == Rules \X (1 .. Len(input) + 1) \X Expressions

\* parseOrExpression and parseAndExpression, which chain what the next rule returns, and
\* parseNotExpression with parseUnaryExpression and parseFunction, each from position p, where
\* parse is what they return from there on.  Inside its loop, where it holds left, a chain is
\* the rule "or..." or "and...".
ParseRule(input, parse, rule, p, left) ==
  LET peek == Peek(input, p)
      Chain(operand, more) ==
        LET r == parse[<<operand, p, left>>]
        IN  IF r.ok THEN parse[<<more, r.pos, r.expr>>] ELSE Failed
      Another(operand) == parse[<<operand, p + 1, left>>]
  IN  CASE rule = "or" -> Chain("and", "or...")
        [] rule = "or..." ->
             IF peek # "||" THEN At(p, left)
             ELSE LET r == Another("and")
                  IN  IF r.ok THEN parse[<<"or...", r.pos, Or(left, r.expr)>>] ELSE Failed
        [] rule = "and" -> Chain("not", "and...")
        [] rule = "and..." ->
             IF peek # "&&" THEN At(p, left)
             ELSE LET r == Another("not")
                  IN  IF r.ok THEN parse[<<"and...", r.pos, And(left, r.expr)>>] ELSE Failed
        [] rule = "not" /\ peek = "!" ->
             LET r == Another("not") IN IF r.ok THEN At(r.pos, Not(r.expr)) ELSE Failed
        [] rule = "not" /\ peek = "(" ->
             LET r == Another("or")
             IN  IF r.ok /\ Peek(input, r.pos) = ")" THEN At(r.pos + 1, r.expr) ELSE Failed
        [] OTHER ->
             IF p <= Len(input) /\ input[p] \in DOMAIN Call
             THEN At(p + 1, CallExpr(input[p])) ELSE Failed

Descend(input) ==
  LET parse[start \in Starts(input)] ==
        ParseRule(input, parse, start[1], start[2], start[3])
  IN  parse[<<"or", 1, [c \in Claims |-> "error"]>>]

\* Bug: what comes after the expression is not looked at.
ParseExpressionPrefix(input) == Descend(input)

ParseExpression(input) ==
  LET r == Descend(input) IN IF r.ok /\ r.pos > Len(input) THEN r ELSE Failed

-----------------------------------------------------------------------------
\* The grammar, as a client reads it: ! binds before &&, && before ||.  What the tokens from
\* i to j stand for as an operand of each rule, in every way they can be read, where read is
\* what shorter ones stand for.
Spans(input) == {"or", "and", "not"} \X (1 .. Len(input) + 1) \X (0 .. Len(input))

ReadRule(input, read, rule, i, j) ==
  LET Split(op, operand, Combine(_, _)) ==
        read[<<operand, i, j>>] \cup
        UNION {{Combine(l, r) : l \in read[<<rule, i, k - 1>>], r \in read[<<operand, k + 1, j>>]} :
                 k \in {k \in i + 1 .. j - 1 : input[k] = op}}
  IN  IF i > j THEN {}
      ELSE CASE rule = "or"  -> Split("||", "and", Or)
             [] rule = "and" -> Split("&&", "not", And)
             [] rule = "not" ->
                  (IF input[i] = "!" THEN {Not(e) : e \in read[<<"not", i + 1, j>>]} ELSE {})
                  \cup (IF input[i] = "(" /\ input[j] = ")" /\ i < j
                        THEN read[<<"or", i + 1, j - 1>>] ELSE {})
                  \cup (IF i = j /\ input[i] \in DOMAIN Call THEN {CallExpr(input[i])} ELSE {})

Readings(input) ==
  LET read[span \in Spans(input)] == ReadRule(input, read, span[1], span[2], span[3])
  IN  read[<<"or", 1, Len(input)>>]

\* The parser takes the input for what the grammar makes of it, and what has no reading for
\* no expression.
ParsesByGrammar(input) ==
  LET parsed == ParseExpression(input)
  IN  IF parsed.ok THEN parsed.expr \in Expressions /\ Readings(input) = {parsed.expr}
      ELSE Readings(input) = {}
=============================================================================
