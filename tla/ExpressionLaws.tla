--------------------------- MODULE ExpressionLaws ---------------------------
(* What lexer, parser, templates and evaluator promise, each law next to    *)
(* the reference definition it compares the code with.                      *)
EXTENDS ExpressionEval

-----------------------------------------------------------------------------
(* Syntax.                                                                  *)

\* The tokens of a line do not depend on the next one.
LinesApart(s, t) ==
    LET first == tokenize(s)
        both  == tokenize(s \o <<"\n">> \o t)
    IN  first.ok => /\ both.ok = tokenize(t).ok
                    /\ both.ok => both.tokens = first.tokens \o tokenize(t).tokens

\* The reference printer: how tightly a tree binds by the grammar of parser.rs,
\* and its tokens with the parentheses that this calls for.  Paths from the
\* input get parentheses of their own.
Grammar == << {"|"}, {"or"}, {"and"}, {"==", "!=", "<", "<=", ">", ">="}, {"+", "-", "//"}, {"*", "/", "%"} >>
Binding(e) ==
    CASE e[1] = "Stream" -> 0
      [] e[1] = "Binary" -> CHOOSE n \in DOMAIN Grammar : e[2] \in Grammar[n]
      [] e[1] = "Unary"  -> 7
      [] OTHER           -> 8

Op(c) == << <<"op", c>> >>
Id(chars) == << <<"id", chars>> >>
Letters == [and |-> <<"a", "n", "d">>, or |-> <<"o", "r">>, not |-> <<"n", "o", "t">>, if |-> <<"i", "f">>,
            then |-> <<"t", "h", "e", "n">>, else |-> <<"e", "l", "s", "e">>, end |-> <<"e", "n", "d">>]
OpToken(c) == IF c \in DOMAIN Letters THEN Id(Letters[c]) ELSE Op(c)

RECURSIVE Printed(_), Bound(_, _)
Bound(e, n) == IF Binding(e) < n THEN Op("(") \o Printed(e) \o Op(")") ELSE Printed(e)
Printed(e) ==
    LET List(es) == Joined([i \in DOMAIN es |-> Bound(es[i], 1)], Op(","))
        Key(k)   == CASE k[1] = "Computed" -> Op("(") \o Bound(k[2], 1) \o Op(")")
                      [] k[1] = "Ident"    -> Id(k[2])
                      [] k[1] = "Str"      -> << <<"str", k[2]>> >>
    IN  CASE e[1] = "Identity" -> Op("(") \o Op(".") \o Op(")")
          [] e[1] = "Field"    -> Bound(e[2], 8) \o Op(".") \o Id(e[3])
          [] e[1] = "Index"    -> Bound(e[2], 8) \o Op("[") \o Printed(e[3]) \o Op("]")
          [] e[1] = "Iterate"  -> Bound(e[2], 8) \o Op("[") \o Op("]")
          [] e[1] = "Binary"   -> Bound(e[3], Binding(e)) \o OpToken(e[2]) \o Bound(e[4], Binding(e) + 1)
          [] e[1] = "Unary"    -> OpToken(e[2]) \o Bound(e[3], 7)
          [] e[1] = "Stream"   -> List(e[2])
          [] e[1] = "Array"    -> Op("[") \o List(e[2]) \o Op("]")
          [] e[1] = "Object"   ->
               Op("{") \o Joined([i \in DOMAIN e[2] |-> Key(e[2][i][1]) \o Op(":") \o Bound(e[2][i][2], 1)], Op(","))
                       \o Op("}")
          [] e[1] = "If"       -> OpToken("if") \o Printed(e[2]) \o OpToken("then") \o Printed(e[3])
                                  \o OpToken("else") \o Printed(e[4]) \o OpToken("end")
          [] e[1] = "Call"     -> Id(e[2]) \o (IF e[3] = <<>> THEN <<>> ELSE Op("(") \o List(e[3]) \o Op(")"))
          [] e[1] = "Literal"  -> Id(e[2])
          [] e[1] = "Number"   -> << <<"num", e[2]>> >>
          [] e[1] = "Variable" -> << <<"var", e[2]>> >>
          [] e[1] = "String"   -> [i \in DOMAIN e[2] |-> <<"str", e[2][i][2]>>]

\* What is parsed, printed and parsed again is the same tree: precedence,
\* associativity and every bracket are those of the grammar.
Reparsed(ts) ==
    LET r == ParseTokens(ts) IN r.ok => ParseTokens(Printed(r.tree)) = Node(r.tree, Len(Printed(r.tree)) + 1)

-----------------------------------------------------------------------------
(* Templates.                                                               *)

Dense(s) == SelectSeq(s, LAMBDA c : c \notin Blank)
Block(inner) == <<"$", "{">> \o inner \o <<"}">>

\* A template is cut without loss: its pieces in order, the blocks in their
\* braces again, are the source but for blanks around and in blocks; and a
\* source is a single expression just when it is cut into one block.
CutWithoutLoss(source) ==
    LET Text(piece) == IF piece[1] = "Lit" THEN piece[2] ELSE Block(piece[3])
        Law(p, cut) ==
            /\ p.ok /\ p.kind = "Interp" =>
                  Dense(FlattenSeq([i \in DOMAIN p.pieces |-> Text(p.pieces[i])])) = Dense(source)
            /\ (p.ok /\ p.kind = "Expr") = (cut.ok /\ Len(cut.pieces) = 1 /\ cut.pieces[1][1] = "Expr")
    IN  Law(prepare(source), parse_blocks(Trim(source), 1, <<>>))

\* A template with literals is the text of its pieces, each evaluated alone.
PiecewiseText(source, v, env) ==
    LET Alone(piece) == IF piece[1] = "Lit" THEN [ok |-> TRUE, value |-> Str(piece[2])]
                        ELSE evaluate(Block(piece[3]), v, env, TRUE)
        Glued(parts) == IF \E i \in DOMAIN parts : ~parts[i].ok THEN Error
                        ELSE [ok |-> TRUE, value |-> Str(FlattenSeq([i \in DOMAIN parts |-> to_string(parts[i].value)]))]
    IN  \A p \in {prepare(source)} : p.ok /\ p.kind = "Interp" =>
            evaluate(source, v, env, TRUE) = Glued([i \in DOMAIN p.pieces |-> Alone(p.pieces[i])])

-----------------------------------------------------------------------------
(* Evaluation.                                                              *)

Input      == <<"Identity">>
Each       == <<"Iterate", Input>>
Piped(l, r)  == <<"Binary", "|", l, r>>
Fn(name)     == <<"Call", <<name>>, <<>> >>
Fn1(name, e) == <<"Call", <<name>>, <<e>> >>
Const(n) == IF n >= 0 THEN <<"Number", Digits(n)>> ELSE <<"Unary", "-", <<"Number", Digits(-n)>> >>
At_(n)   == <<"Index", Input, Const(n)>>
Record(e) == <<"Object", << << <<"Ident", <<"a">> >>, e>> >> >>
Value(e, v) == eval_single(e, v, <<>>).value
\* In every pair of laws the two expressions have the same outputs.
Agree(laws, v) == \A law \in laws : eval(law[1], v, <<>>) = eval(law[2], v, <<>>)

\* Streams compose: pipes associate and distribute over commas, map and select
\* are what jq defines them by, an array or an object keeps each output.
StreamLaws(f, g, h, v) ==
    Agree({<<Piped(Piped(f, g), h), Piped(f, Piped(g, h))>>,
           <<Piped(<<"Stream", <<f, g>> >>, h), <<"Stream", <<Piped(f, h), Piped(g, h)>> >> >>,
           <<Fn1("select", f), <<"If", f, Input, Fn("empty")>> >>,
           <<Piped(<<"Array", <<f>> >>, Each), f>>}
          \cup (IF Kind(v) = "arr" THEN {<<Fn1("map", f), <<"Array", <<Piped(Each, f)>> >> >>} ELSE {})
          \cup (IF Out(<<>>) # eval(f, v, <<>>) THEN {<<Record(f), Piped(f, Record(Input))>>} ELSE {}), v)

\* Indices: from the end they are those of the reversed array; keys, length,
\* first and last agree with them, and has holds just where there is an element.
IndexLaws(v, i) ==
    Kind(v) = "arr" =>
        /\ Agree({<<Piped(Fn("reverse"), At_(i)), At_(-1 - i)>>, <<Piped(Fn("keys"), Fn("length")), Fn("length")>>,
                  <<Fn("first"), At_(0)>>, <<Fn("last"), At_(-1)>>,
                  <<Piped(Fn("flatten"), Fn("flatten")), Fn("flatten")>>,
                  <<Fn1("has", Const(i)), <<"Binary", "<", Const(i), Fn("length")>> >>}, v)
        /\ Value(Fn1("has", Const(i)), v) = Bool(Whole(i) \in ToSet(Value(Fn("keys"), v)[2]))

\* cmp orders what it compares, in agreement with equality, and values that
\* compare by way of a third are themselves comparable.
OrderLaws(a, b, c) ==
    /\ cmp(a, b) = Incomparable <=> cmp(b, a) = Incomparable
    /\ cmp(a, b) # Incomparable => cmp(a, b) = -cmp(b, a)
    /\ cmp(a, b) = 0 <=> a = b /\ cmp(a, a) # Incomparable
    /\ cmp(a, b) \in {-1, 0} /\ cmp(b, c) \in {-1, 0} => cmp(a, c) \in {-1, 0}
    /\ contains_value(a, b) /\ contains_value(b, c) => contains_value(a, c)

\* Texts: a text cut at a separator and joined by it is the text again, and a
\* prefix or suffix that was added is found and taken off.
TextLaws(s, t) ==
    LET lit(x) == <<"String", << <<"Lit", x>> >> >>
        True   == <<"Literal", <<"true">> >>
    IN  Agree({<<Piped(Fn1("split", lit(t)), Fn1("join", lit(t))), Input>>,
               <<Fn1("split", lit(t)), <<"Binary", "/", Input, lit(t)>> >>,
               <<Piped(<<"Binary", "+", lit(t), Input>>, Fn1("ltrimstr", lit(t))), Input>>,
               <<Piped(<<"Binary", "+", Input, lit(t)>>, Fn1("rtrimstr", lit(t))), Input>>,
               <<Piped(<<"Binary", "+", lit(t), Input>>, Fn1("startswith", lit(t))), True>>,
               <<Piped(<<"Binary", "+", Input, lit(t)>>, Fn1("contains", lit(t))), True>>}, Str(s))

=============================================================================
