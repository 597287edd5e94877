-------------------------- MODULE ExpressionSyntax --------------------------
(* The syntax of runtime expressions (ows-runtime-expressions): the lexer   *)
(* (lexer.rs), the recursive-descent parser (parser.rs) with the expression *)
(* tree it builds (ast.rs), and the split of a string into `${ ... }`       *)
(* blocks (engine.rs).                                                      *)
(*                                                                          *)
(* A source is a sequence of one-character strings.  A token is a pair of   *)
(* kind and value, a tree node a tuple whose first element names it.  Every *)
(* step returns a record with `ok`; what an error says is left out.         *)
EXTENDS Integers, Sequences, FiniteSetsExt, SequencesExt

Failure == [ok |-> FALSE]
Lexed(tokens) == [ok |-> TRUE, tokens |-> tokens]
Node(tree, next) == [ok |-> TRUE, tree |-> tree, next |-> next]

Blank  == {" ", "\n", "\t"}
Digit  == {"0", "1", "2", "3", "4", "5", "6", "7", "8", "9"}
Letter == {"a", "b", "c", "d", "e", "f", "g", "h", "i", "j", "k", "l", "m", "n",
           "o", "p", "q", "r", "s", "t", "u", "v", "w", "x", "y", "z", "_", "E"}
Hex    == Digit \cup {"a", "b", "c", "d", "e", "f"}

-----------------------------------------------------------------------------
(* The lexer.                                                               *)

At(s, i) == IF i \in 1 .. Len(s) THEN s[i] ELSE ""
Word(chars) == FoldLeft(LAMBDA t, c : t \o c, "", chars)

\* The first position from i on that is not in C, and the first that is.
Past(s, i, C)  == Min({k \in i .. Len(s) : s[k] \notin C} \cup {IF i > Len(s) THEN i ELSE Len(s) + 1})
Until(s, i, C) == Min({k \in i .. Len(s) : s[k] \in C} \cup {IF i > Len(s) THEN i ELSE Len(s) + 1})

RECURSIVE SkipBlank(_, _)
SkipBlank(s, i) ==
    LET j == Past(s, i, Blank)
    IN  IF At(s, j) = "#" THEN SkipBlank(s, Until(s, j, {"\n"})) ELSE j

\* The end of a number: digits, a fraction, an exponent.  An exponent without
\* digits is not a number.
NumberEnd(s, i) ==
    LET Fraction(whole) == IF At(s, whole) = "." THEN Past(s, whole + 1, Digit) ELSE whole
        Exponent(k) == [ok |-> At(s, k) \in Digit, end |-> Past(s, k, Digit)]
        End(frac)   == IF At(s, frac) \in {"e", "E"}
                       THEN Exponent(IF At(s, frac + 1) \in {"+", "-"} THEN frac + 2 ELSE frac + 1)
                       ELSE [ok |-> TRUE, end |-> frac]
    IN  End(Fraction(Past(s, i, Digit)))

\* The position behind the `)` that balances an interpolation from i on, 0 if
\* there is none.  It counts every parenthesis, in strings of the inner source too.
InterpEnd(s, i) ==
    LET depth(k) == 1 + Quantify(i .. k, LAMBDA j : s[j] = "(")
                      - Quantify(i .. k, LAMBDA j : s[j] = ")")
        closing  == {k \in i .. Len(s) : depth(k) = 0}
    IN  IF closing = {} THEN 0 ELSE Min(closing) + 1

\* What an escape other than `\(` and `\u` adds to the literal.
Unescaped(c) ==
    CASE c \in {"\"", "\\", "/"} -> <<c>>
      [] c = "n" -> <<"\n">>
      [] c = "t" -> <<"\t">>
      [] c = "r" -> <<"\r">>
      [] c = "f" -> <<"\f">>
      [] c = "b" -> <<"backspace">>
      [] OTHER   -> <<"\\", c>>

Flush(tokens, literal) ==
    IF literal = <<>> THEN tokens ELSE Append(tokens, <<"str", literal>>)

\* The tokens of a string from its position i on: literal segments and
\* interpolations; `literal` is the segment that is being read.
RECURSIVE ReadString(_, _, _, _)
ReadString(s, i, tokens, literal) ==
    LET c == At(s, i)
        e == At(s, i + 1)
        code == SubSeq(s, i + 2, Min({i + 5, Len(s)}))
        surrogate == At(s, i + 2) = "d" /\ At(s, i + 3) \in {"8", "9", "a", "b", "c", "d", "e", "f"}
    IN  CASE c = "" -> Failure
          [] c = "\"" ->
               [ok |-> TRUE, next |-> i + 1,
                tokens |-> IF Flush(tokens, literal) = <<>> THEN << <<"str", <<>> >> >>
                                                            ELSE Flush(tokens, literal)]
          [] c = "\\" /\ e = "" -> Failure
          [] c = "\\" /\ e = "(" ->
               LET end == InterpEnd(s, i + 2)
               IN  IF end = 0 THEN Failure
                   ELSE ReadString(s, end,
                                   Append(Flush(tokens, literal), <<"interp", SubSeq(s, i + 2, end - 2)>>), <<>>)
          [] c = "\\" /\ e = "u" ->
               IF code = <<>> \/ \E k \in DOMAIN code : code[k] \notin Hex THEN Failure
               ELSE ReadString(s, i + 2 + Len(code), tokens,
                               IF surrogate THEN literal ELSE literal \o <<"\\u">> \o code)
          [] c = "\\" -> ReadString(s, i + 2, tokens, literal \o Unescaped(e))
          [] OTHER -> ReadString(s, i + 1, tokens, Append(literal, c))

TwoCharacters == {"..", "==", "!=", "<=", ">=", "//"}
OneCharacter  == {".", "[", "]", "{", "}", "(", ")", "|", ",", ":", ";",
                  "+", "-", "<", ">", "*", "/", "%", "="}

\* The tokens that begin at position i, which is not blank.
NextTokens(s, i) ==
    LET c == s[i]
        One(token, next)  == [ok |-> TRUE, tokens |-> <<token>>, next |-> next]
        Name(kind, k, to) == One(<<kind, SubSeq(s, k, to - 1)>>, to)
        Number(num)       == IF num.ok THEN Name("num", i, num.end) ELSE Failure
    IN  CASE c \o At(s, i + 1) \in TwoCharacters -> One(<<"op", c \o At(s, i + 1)>>, i + 2)
          [] c \in OneCharacter /\ c \o At(s, i + 1) \notin TwoCharacters -> One(<<"op", c>>, i + 1)
          [] c = "$"       -> Name("var", i + 1, Past(s, i + 1, Letter \cup Digit))
          [] c = "\""      -> ReadString(s, i + 1, <<>>, <<>>)
          [] c \in Digit   -> Number(NumberEnd(s, i))
          [] c \in Letter  -> Name("id", i, Past(s, i, Letter \cup Digit))
          [] OTHER         -> Failure

RECURSIVE TokensFrom(_, _)
TokensFrom(s, i) ==
    LET start == SkipBlank(s, i)
        Before(tokens, rest) == IF rest.ok THEN Lexed(tokens \o rest.tokens) ELSE Failure
        From(first) == IF first.ok THEN Before(first.tokens, TokensFrom(s, first.next)) ELSE Failure
    IN  IF start > Len(s) THEN Lexed(<<>>) ELSE From(NextTokens(s, start))

tokenize(s) == TokensFrom(s, 1)

-----------------------------------------------------------------------------
(* The parser.  ts is the token sequence, i the position.                   *)

EOF == <<"eof", "">>
Peek(ts, i) == IF i <= Len(ts) THEN ts[i] ELSE EOF
Is(ts, i, op) == Peek(ts, i) = <<"op", op>>
Keyword(ts, i, word) == Peek(ts, i)[1] = "id" /\ Word(Peek(ts, i)[2]) = word
Operator(ts, i) == CASE Peek(ts, i)[1] = "op" -> Peek(ts, i)[2]
                     [] Peek(ts, i)[1] = "id" -> Word(Peek(ts, i)[2])
                     [] OTHER -> ""

\* Mutant: sums bind as tightly as products.
OperatorsFlat == << {"|"}, {"or"}, {"and"}, {"==", "!=", "<", "<=", ">", ">="}, {},
                    {"+", "-", "//", "*", "/", "%"} >>

\* The binary operators of each level, loosest first (parse_pipe ... parse_mult).
Operators == << {"|"}, {"or"}, {"and"}, {"==", "!=", "<", "<=", ">", ">="},
                {"+", "-", "//"}, {"*", "/", "%"} >>

RECURSIVE Parsed(_, _, _), Commas(_, _), Level(_, _, _), Operands(_, _, _), Unary(_, _),
          Postfix(_, _), Base(_, _), Named(_, _, _), Chain(_, _), Subscript(_, _), If(_, _), Arguments(_, _, _),
          Elements(_, _, _), Entries(_, _, _), StringParts(_, _, _), parse(_)

\* r, if it failed or the wanted closing token follows it: then behind the token.
Closed(ts, r, op) ==
    IF r.ok /\ Is(ts, r.next, op) THEN Node(r.tree, r.next + 1) ELSE Failure

\* One pipe is itself.
Stream(parts) ==
    IF parts.ok THEN Node(IF Len(parts.tree) = 1 THEN parts.tree[1] ELSE <<"Stream", parts.tree>>, parts.next)
    ELSE Failure

\* What the other rules nest: pipes with or without commas between them.
Expression(ts, i) == Parsed("Stream", ts, i)
Pipe(ts, i)       == Parsed("Pipe", ts, i)
Parsed(rule, ts, i) == IF rule = "Stream" THEN Stream(Commas(ts, i)) ELSE Level(1, ts, i)

Commas(ts, i) ==
    LET first == Pipe(ts, i)
    IN  IF first.ok /\ Is(ts, first.next, ",")
        THEN LET rest == Commas(ts, first.next + 1)
             IN  IF rest.ok THEN Node(<<first.tree>> \o rest.tree, rest.next) ELSE Failure
        ELSE IF first.ok THEN Node(<<first.tree>>, first.next) ELSE Failure

Level(n, ts, i) ==
    IF n > Len(Operators) THEN Unary(ts, i) ELSE Operands(n, ts, Level(n + 1, ts, i))

\* left op right op ..., to the left.
Operands(n, ts, left) ==
    IF left.ok /\ Operator(ts, left.next) \in Operators[n]
    THEN LET op    == Operator(ts, left.next)
             right == Level(n + 1, ts, left.next + 1)
         IN  IF right.ok
             THEN Operands(n, ts, Node(<<"Binary", op, left.tree, right.tree>>, right.next))
             ELSE Failure
    ELSE left

Unary(ts, i) ==
    IF Keyword(ts, i, "not") \/ Is(ts, i, "-")
    THEN LET inner == Unary(ts, i + 1)
         IN  IF inner.ok THEN Node(<<"Unary", Operator(ts, i), inner.tree>>, inner.next) ELSE Failure
    ELSE Postfix(ts, Base(ts, i))

\* `.name`, `[]` and `[index]` behind a primary.
Postfix(ts, base) ==
    IF base.ok /\ Is(ts, base.next, ".") /\ Peek(ts, base.next + 1)[1] \in {"id", "str"}
    THEN Postfix(ts, Node(<<"Field", base.tree, Peek(ts, base.next + 1)[2]>>, base.next + 2))
    ELSE IF base.ok /\ Is(ts, base.next, "[") THEN Postfix(ts, Subscript(ts, base))
    ELSE base

\* What follows a leading dot: names and subscripts without further dots.
Chain(ts, base) ==
    IF base.ok /\ Peek(ts, base.next)[1] \in {"id", "str"}
    THEN Chain(ts, Node(<<"Field", base.tree, Peek(ts, base.next)[2]>>, base.next + 1))
    ELSE IF base.ok /\ Is(ts, base.next, "[") THEN Chain(ts, Subscript(ts, base))
    ELSE base

Subscript(ts, base) ==
    IF Is(ts, base.next + 1, "]") THEN Node(<<"Iterate", base.tree>>, base.next + 2)
    ELSE LET index == Closed(ts, Expression(ts, base.next + 1), "]")
         IN  IF index.ok THEN Node(<<"Index", base.tree, index.tree>>, index.next) ELSE Failure

\* A list in brackets, empty or as `list` reads it.
Listed(ts, r, close, name) ==
    IF Closed(ts, r, close).ok THEN Node(<<name, r.tree>>, r.next + 1) ELSE Failure

Base(ts, i) ==
    LET t == Peek(ts, i)
    IN  CASE t = <<"op", ".">>  -> Chain(ts, Node(<<"Identity">>, i + 1))
          [] t = <<"op", "..">> -> Node(<<"Identity">>, i + 1)
          [] t = <<"op", "[">>  ->
               IF Is(ts, i + 1, "]") THEN Node(<<"Array", <<>> >>, i + 2)
               ELSE Listed(ts, Elements(ts, i + 1, <<>>), "]", "Array")
          [] t = <<"op", "{">>  ->
               IF Is(ts, i + 1, "}") THEN Node(<<"Object", <<>> >>, i + 2)
               ELSE Listed(ts, Entries(ts, i + 1, <<>>), "}", "Object")
          [] t = <<"op", "(">>  -> Closed(ts, Expression(ts, i + 1), ")")
          [] t[1] = "var"       -> Node(<<"Variable", t[2]>>, i + 1)
          [] t[1] = "num"       -> Node(<<"Number", t[2]>>, i + 1)
          [] t[1] \in {"str", "interp"} -> StringParts(ts, i, <<>>)
          [] t[1] = "id"        -> Named(ts, i, t[2])
          [] OTHER              -> Failure

\* A constant, a conditional, or a call with or without arguments: any other
\* word is a call, a keyword out of place too.
Named(ts, i, word) ==
    CASE Word(word) \in {"true", "false", "null"} -> Node(<<"Literal", word>>, i + 1)
      [] Word(word) = "if" -> If(ts, i + 1)
      [] OTHER ->
           IF ~Is(ts, i + 1, "(") THEN Node(<<"Call", word, <<>> >>, i + 1)
           ELSE LET args == IF Is(ts, i + 2, ")") THEN Node(<<>>, i + 2) ELSE Arguments(ts, i + 2, <<>>)
                IN  IF Closed(ts, args, ")").ok THEN Node(<<"Call", word, args.tree>>, args.next + 1)
                    ELSE Failure

\* The else branch: null when it is left out; a second `elif` is parsed as an expression.
ElseTail(ts, i) ==
    IF Keyword(ts, i, "else") THEN Expression(ts, i + 1)
    ELSE IF Keyword(ts, i, "elif") THEN Expression(ts, i)
    ELSE Node(<<"Literal", <<"n", "u", "l", "l">> >>, i)

\* `cond then branch` from i on, and behind it.
Branch(ts, i) ==
    LET cond == Expression(ts, i)
    IN  IF ~cond.ok \/ ~Keyword(ts, cond.next, "then") THEN Failure
        ELSE LET body == Expression(ts, cond.next + 1)
             IN  IF body.ok THEN Node(<<cond.tree, body.tree>>, body.next) ELSE Failure

If(ts, i) ==
    LET outer == Branch(ts, i)
        elif  == outer.ok /\ Keyword(ts, outer.next, "elif")
        inner == IF elif THEN Branch(ts, outer.next + 1) ELSE outer
    IN  IF ~outer.ok \/ ~inner.ok THEN Failure
        ELSE LET tail == ElseTail(ts, inner.next)
             IN  IF ~tail.ok \/ ~Keyword(ts, tail.next, "end") THEN Failure
                 ELSE Node(<<"If", outer.tree[1], outer.tree[2],
                             IF elif THEN <<"If", inner.tree[1], inner.tree[2], tail.tree>>
                                     ELSE tail.tree>>, tail.next + 1)

Arguments(ts, i, args) ==
    LET r == Pipe(ts, i)
    IN  IF ~r.ok THEN Failure
        ELSE IF Is(ts, r.next, ",") \/ Is(ts, r.next, ";")
             THEN Arguments(ts, r.next + 1, Append(args, r.tree))
             ELSE Node(Append(args, r.tree), r.next)

\* Elements of an array; a parenthesised stream is flattened into them.
Elements(ts, i, elems) ==
    LET r    == Pipe(ts, i)
        more == IF r.ok /\ r.tree[1] = "Stream" THEN elems \o r.tree[2] ELSE Append(elems, r.tree)
    IN  IF ~r.ok THEN Failure
        ELSE IF Is(ts, r.next, ",") THEN Elements(ts, r.next + 1, more) ELSE Node(more, r.next)

\* A variable as a key stands for its name, not for its value.
ObjectKey(ts, i) ==
    LET t == Peek(ts, i)
        computed == Closed(ts, Pipe(ts, i + 1), ")")
    IN  CASE t[1] \in {"id", "var"} -> Node(<<"Ident", t[2]>>, i + 1)
          [] t[1] = "str"           -> Node(<<"Str", t[2]>>, i + 1)
          [] t = <<"op", "(">>      -> IF computed.ok THEN Node(<<"Computed", computed.tree>>, computed.next)
                                       ELSE Failure
          [] OTHER                  -> Failure

Entries(ts, i, entries) ==
    LET key == ObjectKey(ts, i)
    IN  IF ~Closed(ts, key, ":").ok THEN Failure
        ELSE LET r == Pipe(ts, key.next + 1)
                 more == Append(entries, <<key.tree, r.tree>>)
             IN  IF ~r.ok THEN Failure
                 ELSE IF Is(ts, r.next, ",") THEN Entries(ts, r.next + 1, more) ELSE Node(more, r.next)

\* Adjacent string tokens are one string.
StringParts(ts, i, parts) ==
    LET t == Peek(ts, i)
        With(inner) == IF inner.ok THEN StringParts(ts, i + 1, Append(parts, <<"Expr", inner.tree>>)) ELSE Failure
    IN  CASE t[1] = "str"    -> StringParts(ts, i + 1, Append(parts, <<"Lit", t[2]>>))
          [] t[1] = "interp" -> With(parse(t[2]))
          [] OTHER           -> Node(<<"String", parts>>, i)

\* A token sequence is an expression when nothing is left over.
ParseTokens(ts) ==
    LET Whole(r) == IF r.ok /\ r.next = Len(ts) + 1 THEN r ELSE Failure IN Whole(Expression(ts, 1))

parse(s) == LET Of(lexed) == IF lexed.ok THEN ParseTokens(lexed.tokens) ELSE Failure IN Of(tokenize(s))

-----------------------------------------------------------------------------
(* Strings with `${ ... }` blocks.                                          *)

\* The `}` that closes the `{` at position open, 0 if none does: the scan
\* meant to skip a string stops at the quote it starts from, so every brace counts.
find_block_close(s, open) ==
    LET depth(k) == Quantify(open .. k, LAMBDA j : s[j] = "{") - Quantify(open .. k, LAMBDA j : s[j] = "}")
        closing  == {k \in open .. Len(s) : depth(k) = 0}
    IN  IF closing = {} THEN 0 ELSE Min(closing)

Trim(s) ==
    LET black == {k \in DOMAIN s : s[k] \notin Blank}
    IN  IF black = {} THEN <<>> ELSE SubSeq(s, Min(black), Max(black))

Opens(s, i) == At(s, i) = "$" /\ At(s, i + 1) = "{"
Inner(s, i, close) == Trim(SubSeq(s, i + 2, close - 1))

\* A trimmed source that is one balanced block.
single_block(s) == Opens(s, 1) /\ find_block_close(s, 2) = Len(s)

\* The pieces from position i on: literals between the blocks, and the blocks' trees,
\* each next to the inner source it was parsed from.
RECURSIVE parse_blocks(_, _, _)
parse_blocks(s, i, literal) ==
    LET close == find_block_close(s, i + 1)
        Piece(tree) == (IF literal = <<>> THEN <<>> ELSE << <<"Lit", literal>> >>)
                       \o << <<"Expr", tree, Inner(s, i, close)>> >>
        Before(piece, rest) == IF rest.ok THEN [ok |-> TRUE, pieces |-> piece \o rest.pieces] ELSE Failure
        From(r) == IF r.ok THEN Before(Piece(r.tree), parse_blocks(s, close + 1, <<>>)) ELSE Failure
    IN  IF i > Len(s) THEN [ok |-> TRUE, pieces |-> IF literal = <<>> THEN <<>> ELSE << <<"Lit", literal>> >>]
        ELSE IF ~Opens(s, i) THEN parse_blocks(s, i + 1, Append(literal, s[i]))
        ELSE IF close = 0 THEN Failure ELSE From(parse(Inner(s, i, close)))

\* A source as the engine compiles it: one expression, a text without blocks
\* (which keeps its blanks) or a template.
prepare(source) ==
    LET s == Trim(source)
        Tree(r)     == IF r.ok THEN [ok |-> TRUE, kind |-> "Expr", tree |-> r.tree] ELSE Failure
        Template(r) == IF r.ok THEN [ok |-> TRUE, kind |-> "Interp", pieces |-> r.pieces] ELSE Failure
    IN  IF single_block(s) THEN Tree(parse(Inner(s, 1, Len(s))))
        ELSE IF \E i \in DOMAIN s : Opens(s, i) THEN Template(parse_blocks(s, 1, <<>>))
        ELSE [ok |-> TRUE, kind |-> "Plain", text |-> source]

=============================================================================
