-------------------------------- MODULE Expr --------------------------------
(***************************************************************************)
(* Filter expressions (expr.c): the long form, parsed from tokens and      *)
(* evaluated for a track, and the short form that is expanded to it.       *)
(*                                                                         *)
(* A token is a special, a key, an integer or a string.  Keys: "stream"    *)
(* and "tag" are booleans, "artist" a string, "date" and "duration" are    *)
(* numbers.  An integer may stand for a key, of which no track has a tag.  *)
(* The tracks are the ways these can differ.  INT_MAX is scaled down, with *)
(* int arithmetic wrapping at it.                                          *)
(***************************************************************************)
EXTENDS Integers, Sequences, SequencesExt, FiniteSets

CONSTANTS
  Tokens,       \* tokens of the long form
  Shorts,       \* parts of the short form
  MaxTokens,    \* longest expression
  MaxParts,     \* longest short one
  INT_MAX

VARIABLES
  form,         \* "long" or "short"
  input         \* the expression so far

xvars == <<form, input>>

OpTokens == {"<", "<=", "=", ">=", ">", "!="}
Key(k) == [key |-> k]
Number(n) == [int |-> n]
Str(s) == [str |-> s]
Special(s) == [sp |-> s]
IsSpecial(t, s) == "sp" \in DOMAIN t /\ t.sp = s
IsOp(t) == "sp" \in DOMAIN t /\ t.sp \in OpTokens
IsKey(t) == "key" \in DOMAIN t
IsKeyOrInt(t) == IsKey(t) \/ "int" \in DOMAIN t
KeyOf(t) == IF IsKey(t) THEN t.key ELSE "digits"

None == [type |-> "none"]
Fail == [ok |-> FALSE]
Got(e, i) == [ok |-> TRUE, expr |-> e, next |-> i]

-----------------------------------------------------------------------------
(* add: an operand completes the rightmost branch, an operator takes the   *)
(* whole tree as its left side.  An operator still without its right side  *)
(* has None there.                                                         *)
Incomplete(root) == root.type \in {"and", "or"} /\ root.right = None

Fault_AddBindsRight(root, e) ==
  CASE root = None -> e
    [] Incomplete(root) -> [root EXCEPT !.right = e]
    [] root.type \in {"and", "or"} /\ Incomplete(root.right) -> [root EXCEPT !.right.right = e]
    [] root.type \in {"and", "or"} -> [root EXCEPT !.right = [e EXCEPT !.left = root.right]]
    [] OTHER -> [e EXCEPT !.left = root]

add(root, e) ==
  CASE root = None -> e
    [] Incomplete(root) -> [root EXCEPT !.right = e]
    [] OTHER -> [e EXCEPT !.left = root]

(* A key with an operator and its right side. *)
Comparison(key, op, t) ==
  CASE "str" \in DOMAIN t /\ op \in {"=", "!="} -> [type |-> "str", key |-> key, op |-> op, val |-> t.str]
    [] "int" \in DOMAIN t -> [type |-> "int", key |-> key, op |-> op, val |-> t.int]
    [] IsKey(t) -> [type |-> "id", key |-> key, op |-> op, val |-> t.key]
    [] OTHER -> None

RECURSIVE parse_one(_, _), parse(_, _, _, _)

parse_one(toks, i) ==
  IF i > Len(toks) THEN Fail
  ELSE LET tok == toks[i]
           inner == parse_one(toks, i + 1)
           bool == i + 1 > Len(toks) \/ ~IsOp(toks[i + 1])
       IN CASE IsSpecial(tok, "!") ->
                 IF inner.ok THEN Got([type |-> "not", left |-> inner.expr], inner.next) ELSE Fail
            [] IsSpecial(tok, "(") -> parse(toks, i + 1, None, 1)
            [] IsKeyOrInt(tok) /\ bool -> Got([type |-> "bool", key |-> KeyOf(tok)], i + 1)
            [] IsKeyOrInt(tok) /\ ~bool /\ i + 2 <= Len(toks) ->
                 LET e == Comparison(KeyOf(tok), toks[i + 1].sp, toks[i + 2])
                 IN IF e = None THEN Fail ELSE Got(e, i + 3)
            [] OTHER -> Fail

parse(toks, i, root, level) ==
  LET one == parse_one(toks, i)
  IN IF ~one.ok THEN Fail
     ELSE LET tree == add(root, one.expr)
              j == one.next
              binary(type) == parse(toks, j + 1,
                                add(tree, [type |-> type, left |-> None, right |-> None]), level)
          IN CASE j > Len(toks) -> IF level > 0 THEN Fail ELSE Got(tree, j)
               [] j <= Len(toks) /\ IsSpecial(toks[j], ")") -> IF level = 0 THEN Fail ELSE Got(tree, j + 1)
               [] j <= Len(toks) /\ IsSpecial(toks[j], "&") -> binary("and")
               [] j <= Len(toks) /\ IsSpecial(toks[j], "|") -> binary("or")
               [] OTHER -> Fail

-----------------------------------------------------------------------------
(* A track: is it a stream, its artist ("" unless it has one), its date,   *)
(* which is -1 unless it has one, and INT_MAX as its duration if a stream. *)
Tracks == [stream : BOOLEAN, artist : {"", "x"}, date : {-1, 1, 2}]

int_val(key, ti) ==
  CASE key = "duration" -> (IF ti.stream THEN INT_MAX ELSE 1)
    [] key = "date" -> ti.date
    [] OTHER -> -1
str_val(key, ti) == IF key = "artist" THEN ti.artist ELSE ""

Wrap(n) == IF n > INT_MAX THEN n - 2 * (INT_MAX + 1) ELSE n

expr_op_to_bool(res, op) ==
  CASE op = "<" -> res < 0 [] op = "<=" -> res <= 0 [] op = "=" -> res = 0
    [] op = ">=" -> res >= 0 [] op = ">" -> res > 0 [] op = "!=" -> res # 0

(* -1 is "not set": only = and != compare with it. *)
EvalInt(e, ti) ==
  LET val == int_val(e.key, ti)
  IN CASE e.val = -1 /\ e.op = "=" -> val = -1
       [] e.val = -1 /\ e.op = "!=" -> val # -1
       [] OTHER -> val # -1 /\ expr_op_to_bool(Wrap(val - e.val), e.op)

(* Two keys: as strings if the first one has a string, else as numbers. *)
EvalId(e, ti) ==
  LET a == int_val(e.key, ti)
      b == int_val(e.val, ti)
  IN CASE str_val(e.key, ti) # "" ->
            /\ str_val(e.val, ti) # ""
            /\ expr_op_to_bool(IF str_val(e.key, ti) = str_val(e.val, ti) THEN 0 ELSE 1, e.op)
       [] str_val(e.key, ti) = "" /\ -1 \in {a, b} ->
            (e.op = "=" /\ a = b) \/ (e.op = "!=" /\ a # b)
       [] OTHER -> expr_op_to_bool(Wrap(a - b), e.op)

(* track_info_has_tag: there is an artist, an album or a title. *)
HasFlag(key, ti) == IF key = "stream" THEN ti.stream ELSE ti.artist # ""

RECURSIVE expr_eval(_, _)
expr_eval(e, ti) ==
  CASE e.type = "and" -> expr_eval(e.left, ti) /\ expr_eval(e.right, ti)
    [] e.type = "or" -> expr_eval(e.left, ti) \/ expr_eval(e.right, ti)
    [] e.type = "not" -> ~expr_eval(e.left, ti)
    [] e.type = "str" -> (str_val(e.key, ti) = e.val) = (e.op = "=")
    [] e.type = "int" -> EvalInt(e, ti)
    [] e.type = "id" -> EvalId(e, ti)
    [] e.type = "bool" -> HasFlag(e.key, ti)

-----------------------------------------------------------------------------
(* The short form.  A part is a special or a key with what follows it:     *)
(* ~s, ~a x, ~y1, ~y<1, ~y>1, ~y-1, ~y1- and ~y1-2.                        *)
IntTerm(form1, key, a, b) ==
  LET cmp(op, n) == <<Key(key), Special(op), Number(n)>>
      body == CASE form1 = "=" -> cmp("=", a) [] form1 = "<" -> cmp("<", a) [] form1 = ">" -> cmp(">", a)
                [] form1 = "-n" -> cmp("<=", a) [] form1 = "n-" -> cmp(">=", a)
                [] form1 = "n-m" -> cmp(">=", a) \o <<Special("&")>> \o cmp("<=", b)
  IN <<Special("(")>> \o body \o <<Special(")")>>

ExpandTerm(p) ==
  CASE "int" \in DOMAIN p -> IntTerm(p.int, p.key, p.a, p.b)
    [] "str" \in DOMAIN p -> <<Key(p.key), Special("="), Str(p.str)>>
    [] "bool" \in DOMAIN p -> <<Key(p.bool)>>
    [] OTHER -> <<p>>

(* After a key or ")" another operand is joined by "&". *)
Fault_JoinKeysOnly(prev, p) == "sp" \notin DOMAIN prev /\ "sp" \notin DOMAIN p
Joined(prev, p) ==
  /\ IsSpecial(prev, ")") \/ "sp" \notin DOMAIN prev
  /\ IsSpecial(p, "(") \/ IsSpecial(p, "!") \/ "sp" \notin DOMAIN p

Level(parts) == FoldLeft(LAMBDA n, p : IF IsSpecial(p, "(") THEN n + 1
                                       ELSE IF IsSpecial(p, ")") THEN n - 1 ELSE n, 0, parts)

expand_short_expr(parts) ==
  FoldLeft(LAMBDA out, i :
             out \o (IF i > 1 /\ Joined(parts[i - 1], parts[i]) THEN <<Special("&")>> ELSE <<>>)
                 \o ExpandTerm(parts[i]),
           <<>>, [i \in 1 .. Len(parts) |-> i])

expr_is_short(parts) ==
  \E i \in DOMAIN parts : /\ "sp" \notin DOMAIN parts[i]
                          /\ \A j \in 1 .. i - 1 : IsSpecial(parts[j], "!") \/ IsSpecial(parts[j], "(")

expr_parse ==
  CASE form = "long" -> parse(input, 1, None, 0)
    [] form = "short" /\ expr_is_short(input) ->
         IF Level(input) > 0 THEN Fail ELSE parse(expand_short_expr(input), 1, None, 0)
    [] OTHER -> Fail

ExprInit == form \in {"long", "short"} /\ input = <<>>

(* The user types on, or starts again. *)
Type ==
  /\ Len(input) < (IF form = "long" THEN MaxTokens ELSE MaxParts)
  /\ \E t \in (IF form = "long" THEN Tokens ELSE Shorts) : input' = Append(input, t)
  /\ UNCHANGED form
Clear == input # <<>> /\ input' = <<>> /\ UNCHANGED form

ExprNext == Type \/ Clear

-----------------------------------------------------------------------------
(* The reference: an expression is a term, or an expression, an operator   *)
(* and a term; a term is a comparison, a boolean, or an expression in      *)
(* parentheses, with any number of "!" before it.  Operators therefore     *)
(* apply from left to right.  Denotes gives the tracks that match, in a    *)
(* set with one element, or with none where the tokens are no expression.  *)
Depth(s, n) == Level(SubSeq(s, 1, n))
Split(s) == {k \in 2 .. Len(s) - 1 : (IsSpecial(s[k], "&") \/ IsSpecial(s[k], "|")) /\ Depth(s, k) = 0}

Compares(a, op, b) ==
  CASE op = "<" -> a < b [] op = "<=" -> a <= b [] op = "=" -> a = b
    [] op = ">=" -> a >= b [] op = ">" -> a > b [] op = "!=" -> a # b
TermMatches(e, ti) ==
  IF e.type = "int" /\ e.val >= 0 THEN int_val(e.key, ti) # -1 /\ Compares(int_val(e.key, ti), e.op, e.val)
  ELSE expr_eval(e, ti)

RECURSIVE Denotes(_), DenotesTerm(_)
Denotes(s) ==
  LET k == CHOOSE k \in Split(s) : \A j \in Split(s) : j <= k
      left == Denotes(SubSeq(s, 1, k - 1))
      right == DenotesTerm(SubSeq(s, k + 1, Len(s)))
  IN IF Split(s) = {} THEN DenotesTerm(s)
     ELSE {IF IsSpecial(s[k], "&") THEN l \cap r ELSE l \cup r : l \in left, r \in right}

DenotesTerm(s) ==
  CASE Len(s) = 1 /\ IsKeyOrInt(s[1]) -> {{ti \in Tracks : HasFlag(KeyOf(s[1]), ti)}}
    [] Len(s) = 3 /\ IsKeyOrInt(s[1]) /\ IsOp(s[2]) ->
         LET e == Comparison(KeyOf(s[1]), s[2].sp, s[3])
         IN IF e = None THEN {} ELSE {{ti \in Tracks : TermMatches(e, ti)}}
    [] Len(s) > 1 /\ IsSpecial(s[1], "!") -> {Tracks \ m : m \in DenotesTerm(Tail(s))}
    [] Len(s) > 2 /\ IsSpecial(s[1], "(") /\ IsSpecial(s[Len(s)], ")")
         /\ \A n \in 1 .. Len(s) - 1 : Depth(s, n) > 0 -> Denotes(SubSeq(s, 2, Len(s) - 1))
    [] OTHER -> {}

(* What a short expression means: the same, with its parts' meanings.      *)
Long(s) == FoldLeft(LAMBDA out, i :
  out \o (IF i > 1 /\ ~IsSpecial(s[i - 1], "!") /\ ~IsSpecial(s[i - 1], "(") /\ ~IsSpecial(s[i - 1], "|")
             /\ ~IsSpecial(s[i], ")") /\ ~IsSpecial(s[i], "|") THEN <<Special("&")>> ELSE <<>>)
      \o ExpandTerm(s[i]), <<>>, [i \in 1 .. Len(s) |-> i])

(* An expression, as typed so far, is accepted exactly when it is one, and *)
(* then matches the tracks it means: whatever tokens precede, wherever the *)
(* parentheses are, in the long form and in the short one, where operators *)
(* are left out.  A comparison with a number agrees with arithmetic unless *)
(* one side is not set.                                                    *)
Matches == IF expr_parse.ok THEN {{ti \in Tracks : expr_eval(expr_parse.expr, ti)}} ELSE {}

ExprMeans ==
  /\ form = "long" => Matches = Denotes(input)
  /\ form = "short" /\ expr_is_short(input) => Matches = Denotes(Long(input))
=============================================================================
