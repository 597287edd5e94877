--------------------------- MODULE ExpressionEval ---------------------------
(* The evaluator of runtime expressions (eval.rs): a tree and an input      *)
(* value give a stream of output values, or an error.  What an error says,  *)
(* the functions fromjson, ascii_downcase and ascii_upcase, and the width   *)
(* of numbers are left out.                                                 *)
(*                                                                          *)
(* A value is a tuple tagged with its type: <<"null">>, <<"bool", b>>,      *)
(* <<"num", p, q>> (the reduced fraction p/q), <<"str", characters>>,       *)
(* <<"arr", values>> or <<"obj", function from names to values>>.           *)
EXTENDS ExpressionSyntax, TLC

CONSTANT CharOrder    \* the characters in the order of their code points

Null     == <<"null">>
Bool(b)  == <<"bool", b>>
Str(s)   == <<"str", s>>
Arr(vs)  == <<"arr", vs>>
Obj(f)   == <<"obj", f>>
Kind(v)  == v[1]

Abs(n)   == IF n < 0 THEN -n ELSE n
Gcd[a, b \in Nat] == IF b = 0 THEN a ELSE Gcd[b, a % b]

\* p/q in lowest terms; an integral quotient is an integer again (json_num).
Num(p, q) ==
    LET s == IF q < 0 THEN -1 ELSE 1
        g == IF p = 0 THEN Abs(q) ELSE Gcd[Abs(p), Abs(q)]
    IN  <<"num", (s * p) \div g, (s * q) \div g>>
Whole(n) == Num(n, 1)

\* The conversion `as i64`, towards zero.
Trunc(v) == IF v[2] >= 0 THEN v[2] \div v[3] ELSE -((-v[2]) \div v[3])

truthy(v) == v \notin {Bool(FALSE), Null}

\* Object members in the order of their names.
Rank(c) == CHOOSE i \in DOMAIN CharOrder : CharOrder[i] = c
Sign(n) == IF n < 0 THEN -1 ELSE IF n > 0 THEN 1 ELSE 0
Shared(a, b) == 1 .. Min({Len(a), Len(b)})
CompareText(a, b) ==
    LET D == {k \in Shared(a, b) : a[k] # b[k]}
    IN  IF D = {} THEN Sign(Len(a) - Len(b)) ELSE Sign(Rank(a[Min(D)]) - Rank(b[Min(D)]))
Names(f) == SetToSortSeq(DOMAIN f, LAMBDA a, b : CompareText(a, b) < 0)
Members(f) == [i \in DOMAIN Names(f) |-> f[Names(f)[i]]]
Get(f, name) == IF name \in DOMAIN f THEN f[name] ELSE Null
Extend(f, g) == [k \in DOMAIN f \cup DOMAIN g |-> IF k \in DOMAIN g THEN g[k] ELSE f[k]]

-----------------------------------------------------------------------------
(* Streams.                                                                 *)

Error    == [ok |-> FALSE]
Out(vs)  == [ok |-> TRUE, out |-> vs]
One(v)   == Out(<<v>>)

\* F on each value of a stream, the outputs in order; the first error ends it.
Bind(r, F(_)) ==
    IF ~r.ok THEN Error
    ELSE FoldLeft(LAMBDA acc, v : IF ~acc.ok THEN Error
                                  ELSE LET x == F(v) IN IF x.ok THEN Out(acc.out \o x.out) ELSE Error,
                  Out(<<>>), r.out)

LastOf(vs)  == IF vs = <<>> THEN Null ELSE vs[Len(vs)]
FirstOf(vs) == IF vs = <<>> THEN Null ELSE vs[1]

-----------------------------------------------------------------------------
(* Texts.                                                                   *)

RECURSIVE Digits(_)
Digits(n) == IF n < 10 THEN <<ToString(n)>> ELSE Digits(n \div 10) \o <<ToString(n % 10)>>
NumberText(v) ==
    (IF v[2] < 0 THEN <<"-">> ELSE <<>>) \o Digits(Abs(v[2])) \o (IF v[3] = 1 THEN <<>> ELSE <<"/">> \o Digits(v[3]))

Joined(texts, sep) ==
    FlattenSeq([i \in DOMAIN texts |-> IF i = 1 THEN texts[i] ELSE sep \o texts[i]])

RECURSIVE JsonText(_)
JsonText(v) ==
    CASE Kind(v) = "str"  -> <<"\"">> \o v[2] \o <<"\"">>
      [] Kind(v) = "num"  -> NumberText(v)
      [] Kind(v) = "null" -> <<"n", "u", "l", "l">>
      [] Kind(v) = "bool" -> IF v[2] THEN <<"t", "r", "u", "e">> ELSE <<"f", "a", "l", "s", "e">>
      [] Kind(v) = "arr"  -> <<"[">> \o Joined([i \in DOMAIN v[2] |-> JsonText(v[2][i])], <<",">>) \o <<"]">>
      [] Kind(v) = "obj"  ->
           LET N == Names(v[2])
           IN  <<"{">> \o Joined([i \in DOMAIN N |-> <<"\"">> \o N[i] \o <<"\"", ":">> \o JsonText(v[2][N[i]])], <<",">>)
                       \o <<"}">>

\* A string stands for itself, any other value for its JSON text.
to_string(v) == IF Kind(v) = "str" THEN v[2] ELSE JsonText(v)

Natural(ds) == FoldLeft(LAMBDA n, c : 10 * n + (CHOOSE d \in 0 .. 9 : ToString(d) = c), 0, ds)

\* The value of a number's text: digits, a fraction, an exponent.
NumberValue(s) ==
    LET dot   == Until(s, 1, {".", "e", "E"})
        exp   == Until(s, 1, {"e", "E"})
        frac  == IF At(s, dot) = "." THEN SubSeq(s, dot + 1, exp - 1) ELSE <<>>
        sign  == At(s, exp + 1)
        power == Natural(SubSeq(s, IF sign \in {"+", "-"} THEN exp + 2 ELSE exp + 1, Len(s)))
        base  == Natural(SubSeq(s, 1, dot - 1) \o frac)
    IN  IF sign = "-" THEN Num(base, 10 ^ (Len(frac) + power)) ELSE Num(base * 10 ^ power, 10 ^ Len(frac))

\* Where a non-empty text occurs, and a text cut at these places; the empty
\* separator occurs before, between and behind all characters.
Hits(s, t) == {k \in 1 .. Len(s) - Len(t) + 1 : SubSeq(s, k, k + Len(t) - 1) = t}
RECURSIVE Split(_, _)
Split(s, sep) ==
    IF sep = <<>> THEN << <<>> >> \o [i \in DOMAIN s |-> <<s[i]>>] \o << <<>> >>
    ELSE IF Hits(s, sep) = {} THEN <<s>>
    ELSE LET k == Min(Hits(s, sep))
         IN  <<SubSeq(s, 1, k - 1)>> \o Split(SubSeq(s, k + Len(sep), Len(s)), sep)

Repeat(s, n) == FlattenSeq([i \in 1 .. n |-> s])
Strings(texts) == Arr([i \in DOMAIN texts |-> Str(texts[i])])

-----------------------------------------------------------------------------
(* Operators.                                                               *)

Pair(l, r) == <<Kind(l), Kind(r)>>

\* null is the identity; a text takes the text of what it is added to.
add(l, r) ==
    CASE l = Null -> One(r)
      [] l # Null /\ r = Null -> One(l)
      [] Pair(l, r) = <<"num", "num">> -> One(Num(l[2] * r[3] + r[2] * l[3], l[3] * r[3]))
      [] Pair(l, r) = <<"arr", "arr">> -> One(Arr(l[2] \o r[2]))
      [] Pair(l, r) = <<"obj", "obj">> -> One(Obj(Extend(l[2], r[2])))
      [] Null \notin {l, r} /\ "str" \in {Kind(l), Kind(r)} -> One(Str(to_string(l) \o to_string(r)))
      [] OTHER -> Error

sub(l, r) ==
    CASE Pair(l, r) = <<"num", "num">> -> One(Num(l[2] * r[3] - r[2] * l[3], l[3] * r[3]))
      [] Pair(l, r) = <<"arr", "arr">> -> One(Arr(SelectSeq(l[2], LAMBDA x : x \notin ToSet(r[2]))))
      [] OTHER -> Error

mul(l, r) ==
    CASE Pair(l, r) = <<"num", "num">> -> One(Num(l[2] * r[2], l[3] * r[3]))
      [] Pair(l, r) = <<"str", "num">> -> One(Str(Repeat(l[2], Trunc(r))))
      [] Pair(l, r) = <<"num", "str">> -> One(Str(Repeat(r[2], Trunc(l))))
      [] OTHER -> Error

div(l, r) ==
    CASE Pair(l, r) = <<"num", "num">> -> IF r[2] = 0 THEN Error ELSE One(Num(l[2] * r[3], l[3] * r[2]))
      [] Pair(l, r) = <<"str", "str">> -> One(Strings(Split(l[2], r[2])))
      [] OTHER -> Error

\* The remainder has the sign of the dividend.
mod_op(l, r) ==
    IF Pair(l, r) # <<"num", "num">> \/ r[2] = 0 THEN Error
    ELSE LET times == Trunc(Num(l[2] * r[3], l[3] * r[2]))
         IN  One(Num(l[2] * r[3] - times * r[2] * l[3], l[3] * r[3]))

\* -1, 0 or 1; Incomparable for values of different types, and for booleans,
\* null and objects of one type.
Incomparable == 2
RECURSIVE cmp(_, _)
cmp(l, r) ==
    CASE Pair(l, r) = <<"num", "num">> -> Sign(l[2] * r[3] - r[2] * l[3])
      [] Pair(l, r) = <<"str", "str">> -> CompareText(l[2], r[2])
      [] Pair(l, r) = <<"arr", "arr">> ->
           LET D == {k \in Shared(l[2], r[2]) : cmp(l[2][k], r[2][k]) # 0}
           IN  IF D = {} THEN Sign(Len(l[2]) - Len(r[2])) ELSE cmp(l[2][Min(D)], r[2][Min(D)])
      [] OTHER -> Incomparable

\* Numbers are equal by their value, everything else by its parts.
equal(l, r) == l = r

Ordered(l, r, allowed) == IF cmp(l, r) = Incomparable THEN Error ELSE One(Bool(cmp(l, r) \in allowed))

apply_binop(op, l, r) ==
    CASE op = "+"  -> add(l, r)
      [] op = "-"  -> sub(l, r)
      [] op = "*"  -> mul(l, r)
      [] op = "/"  -> div(l, r)
      [] op = "%"  -> mod_op(l, r)
      [] op = "==" -> One(Bool(equal(l, r)))
      [] op = "!=" -> One(Bool(~equal(l, r)))
      [] op = "<"  -> Ordered(l, r, {-1})
      [] op = "<=" -> Ordered(l, r, {-1, 0})
      [] op = ">"  -> Ordered(l, r, {1})
      [] op = ">=" -> Ordered(l, r, {0, 1})

\* Of an array: the field of each element.
field_access(v, name) ==
    CASE Kind(v) = "obj" -> Get(v[2], name)
      [] Kind(v) = "arr" ->
           Arr([i \in DOMAIN v[2] |-> IF Kind(v[2][i]) = "obj" THEN Get(v[2][i][2], name) ELSE Null])
      [] OTHER -> Null

\* Mutant: an index from the end is one too small.
NthShort(s, i) ==
    LET real == IF i < 0 THEN Len(s) + i - 1 ELSE i
    IN  IF real < 0 \/ real >= Len(s) THEN <<>> ELSE <<s[real + 1]>>

\* The element at an index counted from 0, from the end if negative.
Nth(s, i) ==
    LET real == IF i < 0 THEN Len(s) + i ELSE i
    IN  IF real < 0 \/ real >= Len(s) THEN <<>> ELSE <<s[real + 1]>>

index_access(v, idx) ==
    CASE Kind(v) \in {"arr", "str"} /\ Kind(idx) = "num" ->
           LET found == Nth(v[2], Trunc(idx))
           IN  One(IF found = <<>> THEN Null ELSE IF Kind(v) = "str" THEN Str(found) ELSE found[1])
      [] Kind(v) = "obj" /\ Kind(idx) = "str" -> One(Get(v[2], idx[2]))
      [] Pair(v, idx) \in {<<"arr", "str">>, <<"obj", "num">>} \/ Kind(v) \in {"null", "bool", "num"} -> One(Null)
      [] OTHER -> Error

-----------------------------------------------------------------------------
(* Functions of the input value alone.                                      *)

Measure(name, v) ==
    IF name = "length"
    THEN CASE Kind(v) = "obj" -> One(Whole(Cardinality(DOMAIN v[2])))
           [] Kind(v) \in {"arr", "str"} -> One(Whole(Len(v[2])))
           [] Kind(v) = "num"  -> One(Whole(Abs(Trunc(v))))
           [] Kind(v) = "null" -> One(Whole(0))
           [] OTHER -> Error
    ELSE CASE Kind(v) = "obj" -> One(Strings(Names(v[2])))       \* keys
           [] Kind(v) = "arr" -> One(Arr([i \in DOMAIN v[2] |-> Whole(i - 1)]))
           [] OTHER -> Error

\* A text without fraction or exponent is read; other texts are not numbers here.
ToNumber(v) ==
    CASE Kind(v) = "num"  -> One(v)
      [] Kind(v) = "bool" -> One(Whole(IF v[2] THEN 1 ELSE 0))
      [] Kind(v) = "str" /\ v[2] # <<>> /\ ToSet(v[2]) \subseteq Digit -> One(NumberValue(v[2]))
      [] OTHER -> Error

RECURSIVE flatten_into(_)
flatten_into(v) ==
    IF Kind(v) = "arr" THEN FlattenSeq([i \in DOMAIN v[2] |-> flatten_into(v[2][i])]) ELSE <<v>>

OfArray(name, v) ==
    CASE name \in {"first", "last", "add"} /\ Kind(v) # "arr" -> One(v)
      [] name = "first" /\ Kind(v) = "arr" -> One(FirstOf(v[2]))
      [] name = "last" /\ Kind(v) = "arr"  -> One(LastOf(v[2]))
      [] name = "add" /\ Kind(v) = "arr"   ->
           FoldLeft(LAMBDA acc, x : IF acc.ok THEN add(acc.out[1], x) ELSE Error, One(Null), v[2])
      [] name = "flatten" -> One(Arr(flatten_into(v)))
      [] name = "reverse" -> IF Kind(v) = "arr" THEN One(Arr(Reverse(v[2]))) ELSE Error

TypeName == [null |-> <<"n", "u", "l", "l">>, bool |-> <<"b", "o", "o", "l", "e", "a", "n">>,
             num |-> <<"n", "u", "m", "b", "e", "r">>, str |-> <<"s", "t", "r", "i", "n", "g">>,
             arr |-> <<"a", "r", "r", "a", "y">>, obj |-> <<"o", "b", "j", "e", "c", "t">>]

Floor(name, v) ==
    IF Kind(v) # "num" THEN Error
    ELSE One(IF name = "fabs" THEN Num(Abs(v[2]), v[3]) ELSE Whole(v[2] \div v[3]))

Kept == [arrays |-> "arr", objects |-> "obj", strings |-> "str", numbers |-> "num", booleans |-> "bool", nulls |-> "null"]
Keep(name, v) ==
    Out(IF (name = "values" /\ v # Null) \/ (name # "values" /\ Kept[name] = Kind(v)) THEN <<v>> ELSE <<>>)

-----------------------------------------------------------------------------
(* Functions with an argument: arg is its value, if it has one.             *)

RECURSIVE contains_value(_, _)
contains_value(h, n) ==
    CASE Pair(h, n) = <<"str", "str">> -> n[2] = <<>> \/ Hits(h[2], n[2]) # {}
      [] Pair(h, n) = <<"arr", "arr">> ->
           \A j \in DOMAIN n[2] : \E i \in DOMAIN h[2] : contains_value(h[2][i], n[2][j])
      [] Pair(h, n) = <<"obj", "obj">> ->
           \A k \in DOMAIN n[2] : k \in DOMAIN h[2] /\ contains_value(h[2][k], n[2][k])
      [] OTHER -> equal(h, n)

\* An array has the indices of its elements; a name that is no text is the empty one.
Has(v, key) ==
    CASE Kind(v) = "obj" -> (IF Kind(key) = "str" THEN key[2] ELSE <<>>) \in DOMAIN v[2]
      [] Kind(v) = "arr" -> Kind(key) = "num" /\ Trunc(key) >= 0 /\ Trunc(key) < Len(v[2])
      [] OTHER -> FALSE

\* `text` is the argument as a text, the empty one if it is none.
OfText(name, v, arg) ==
    LET text == IF Kind(arg) = "str" THEN arg[2] ELSE <<>>
        own  == IF Kind(v) = "str" THEN v[2] ELSE <<>>
        starts == IsPrefix(text, own)
        ends   == IsSuffix(text, own)
    IN  CASE name = "join"  -> IF Kind(v) # "arr" THEN Error
                               ELSE One(Str(Joined([i \in DOMAIN v[2] |-> to_string(v[2][i])], text)))
          [] name = "split" -> IF Kind(v) # "str" THEN Error ELSE One(Strings(Split(own, text)))
          [] name \in {"startswith", "endswith"} ->
               IF Kind(arg) # "str" \/ Kind(v) # "str" THEN Error
               ELSE One(Bool(IF name = "startswith" THEN starts ELSE ends))
          [] name = "ltrimstr" -> One(Str(IF starts THEN SubSeq(own, Len(text) + 1, Len(own)) ELSE own))
          [] name = "rtrimstr" -> One(Str(IF ends THEN SubSeq(own, 1, Len(own) - Len(text)) ELSE own))

\* range(n) and range(from; to), of the first number of each argument.
Range_(streams) ==
    LET bounds == [i \in DOMAIN streams |-> FirstOf(streams[i].out)]
        from   == IF Len(bounds) = 1 THEN 0 ELSE Trunc(bounds[1])
        to     == Trunc(bounds[IF Len(bounds) = 1 THEN 1 ELSE 2])
    IN  IF \E i \in DOMAIN streams : ~streams[i].ok THEN Error
        ELSE IF \E i \in DOMAIN bounds : Kind(bounds[i]) # "num" THEN Error
        ELSE IF bounds = <<>> THEN Out(<<>>)
        ELSE Out([i \in 1 .. (IF to > from THEN to - from ELSE 0) |-> Whole(from + i - 1)])

-----------------------------------------------------------------------------
(* The evaluator.                                                           *)

RECURSIVE eval(_, _, _), eval_string(_, _, _), eval_binary(_, _, _, _, _), eval_object(_, _, _), call_function(_, _, _, _)

eval(e, v, env) ==
    CASE e[1] = "Identity" -> One(v)
      [] e[1] = "Literal"  -> One(IF Word(e[2]) = "null" THEN Null ELSE Bool(Word(e[2]) = "true"))
      [] e[1] = "Number"   -> One(NumberValue(e[2]))
      [] e[1] = "Variable" -> IF e[2] \in DOMAIN env THEN One(env[e[2]]) ELSE Error
      [] e[1] = "String"   -> eval_string(e[2], v, env)
      [] e[1] = "Field"    -> Bind(eval(e[2], v, env), LAMBDA b : One(field_access(b, e[3])))
      [] e[1] = "Index"    ->
           LET idx == eval(e[3], v, env)
           IN  IF ~idx.ok THEN Error
               ELSE Bind(eval(e[2], v, env), LAMBDA b : Bind(idx, LAMBDA i : index_access(b, i)))
      [] e[1] = "Iterate"  ->
           Bind(eval(e[2], v, env), LAMBDA b : Out(CASE Kind(b) = "arr" -> b[2]
                                                     [] Kind(b) = "obj" -> Members(b[2])
                                                     [] OTHER -> <<b>>))
      [] e[1] = "Binary"   -> eval_binary(e[2], e[3], e[4], v, env)
      [] e[1] = "Unary"    ->
           Bind(eval(e[3], v, env), LAMBDA b : CASE e[2] = "not" -> One(Bool(~truthy(b)))
                                                 [] e[2] = "-" /\ Kind(b) = "num" -> One(Num(-b[2], b[3]))
                                                 [] OTHER -> Error)
      [] e[1] = "Array"    ->
           LET elems == Bind(Out(e[2]), LAMBDA x : eval(x, v, env))
           IN  IF elems.ok THEN One(Arr(elems.out)) ELSE Error
      [] e[1] = "Object"   -> eval_object(e[2], v, env)
      [] e[1] = "If"       ->
           LET cond == eval(e[2], v, env)
           IN  IF ~cond.ok THEN Error ELSE eval(IF truthy(FirstOf(cond.out)) THEN e[3] ELSE e[4], v, env)
      [] e[1] = "Call"     -> call_function(Word(e[2]), e[3], v, env)
      [] e[1] = "Stream"   -> Bind(Out(e[2]), LAMBDA x : eval(x, v, env))

\* Literals and the text of the last value of each interpolation.
eval_string(parts, v, env) ==
    LET texts == Bind(Out(parts), LAMBDA p :
                     IF p[1] = "Lit" THEN One(Str(p[2]))
                     ELSE LET r == eval(p[2], v, env)
                          IN  IF r.ok THEN One(Str(to_string(LastOf(r.out)))) ELSE Error)
    IN  IF texts.ok THEN One(Str(FlattenSeq([i \in DOMAIN texts.out |-> texts.out[i][2]]))) ELSE Error

\* A pipe feeds each output on; and, or and // look at the last output of the
\* left side and evaluate the right one only if it decides; any other operator
\* takes all pairs, the left output in the outer loop.
eval_binary(op, l, r, v, env) ==
    LET left   == eval(l, v, env)
        decide == truthy(LastOf(left.out))
        right  == eval(r, v, env)
    IN  CASE ~left.ok  -> Error
          [] left.ok /\ op = "|" -> Bind(left, LAMBDA x : eval(r, x, env))
          [] left.ok /\ op = "//" -> IF decide THEN left ELSE right
          [] left.ok /\ op \in {"and", "or"} ->
               IF decide = (op = "or") THEN One(Bool(decide))
               ELSE IF right.ok THEN One(Bool(truthy(LastOf(right.out)))) ELSE Error
          [] OTHER -> IF ~right.ok THEN Error
                      ELSE Bind(left, LAMBDA x : Bind(right, LAMBDA y : apply_binop(op, x, y)))

\* One object per choice of a value for each entry, later entries varying
\* fastest; an entry without a value is null, a repeated name is overwritten.
eval_object(entries, v, env) ==
    LET name(key) == IF key[1] # "Computed" THEN One(Str(key[2]))
                     ELSE LET r == eval(key[2], v, env)
                          IN  IF r.ok THEN One(Str(to_string(LastOf(r.out)))) ELSE Error
        Step(acc, entry) ==
            LET key  == name(entry[1])
                vals == eval(entry[2], v, env)
            IN  IF ~acc.ok \/ ~key.ok \/ ~vals.ok THEN Error
                ELSE Bind(acc, LAMBDA o : Bind(IF vals.out = <<>> THEN One(Null) ELSE vals,
                                               LAMBDA x : One(Obj(Extend(o[2], key.out[1][2] :> x)))))
    IN  FoldLeft(Step, One(Obj(<<>>)), entries)

call_function(name, args, v, env) ==
    LET none == args = <<>>
        arg  == IF none THEN Out(<<>>) ELSE eval(args[1], v, env)
        val  == FirstOf(arg.out)
        each == Bind(Out(v[2]), LAMBDA x : eval(args[1], x, env))
    IN  CASE name \in {"length", "keys"} -> Measure(name, v)
          [] name = "map"    -> IF none \/ Kind(v) # "arr" THEN Error ELSE IF each.ok THEN One(Arr(each.out)) ELSE Error
          [] name = "select" -> IF none \/ ~arg.ok THEN Error ELSE Out(IF truthy(val) THEN <<v>> ELSE <<>>)
          [] name \in {"join", "split", "startswith", "endswith", "ltrimstr", "rtrimstr"} ->
               IF arg.ok THEN OfText(name, v, val) ELSE Error
          [] name \in {"contains", "has"} ->
               IF arg.ok THEN One(Bool(IF name = "has" THEN Has(v, val) ELSE contains_value(v, val))) ELSE Error
          [] name = "tostring" -> One(Str(to_string(v)))
          [] name = "tonumber" -> ToNumber(v)
          [] name = "empty"    -> Out(<<>>)
          [] name = "range"    -> Range_([i \in DOMAIN args |-> eval(args[i], v, env)])
          [] name \in {"first", "last", "flatten", "reverse", "add"} -> OfArray(name, v)
          [] name = "type"     -> One(Str(TypeName[Kind(v)]))
          [] name = "not"      -> One(Bool(~truthy(v)))
          [] name \in {"fabs", "floor"} -> Floor(name, v)
          [] name \in DOMAIN Kept \cup {"values"} -> Keep(name, v)
          [] OTHER -> Error              \* error(...) and unknown functions

\* The last output, or null.
Single(r) == IF r.ok THEN [ok |-> TRUE, value |-> LastOf(r.out)] ELSE Error
eval_single(e, v, env) == Single(eval(e, v, env))

-----------------------------------------------------------------------------
(* A source as an expression, and as a template (engine.rs).                *)

\* In evaluate a text without blocks is an expression, in an interpolation a
\* literal; a template's value is the text of its pieces.
evaluate(source, v, env, interpolating) ==
    LET Ast(r)  == IF r.ok THEN One(r.tree) ELSE Error
        Tree(p) ==
            CASE ~p.ok -> Error
              [] p.ok /\ p.kind = "Expr"   -> One(p.tree)
              [] p.ok /\ p.kind = "Interp" -> One(<<"String", p.pieces>>)
              [] p.ok /\ p.kind = "Plain"  ->
                   IF interpolating THEN One(<<"String", << <<"Lit", source>> >> >>) ELSE Ast(parse(source))
    IN  Single(Bind(Tree(prepare(source)), LAMBDA e : eval(e, v, env)))

=============================================================================
