----------------------------- MODULE ExprParser -----------------------------
(***************************************************************************)
(* The expression parser: the token filter that drops newlines in brackets *)
(* (internal/parser/parser.go), the recursive descent over expressions     *)
(* (expr.go), the blocks and headers it calls (stmt.go, match.go) and the  *)
(* type expressions (type_expr.go).                                        *)
(*                                                                         *)
(* A behaviour starts from a tree of the expression grammar                *)
(* (lang-spec/grammar.ebnf), prints it, leaves it alone or breaks a line   *)
(* or drops a token, and hands the tokens to the parser, either where any  *)
(* expression may stand or as the header of a control-flow block.  The     *)
(* properties compare what the parser read with what was written.          *)
(*                                                                         *)
(* A tree is [op, of, kids]: the node kind, what of its text is not an     *)
(* operand (an operator, a type-argument list, the form of a literal), and *)
(* the operands in order.  "x", "T" are identifiers, "1" an integer.       *)
(***************************************************************************)
EXTENDS Naturals, Sequences, SequencesExt, FiniteSets

CONSTANTS MaxNodes,   \* nodes of the trees that are written
          MaxBroken,  \* nodes of the trees in which a line is broken
          MaxDropped  \* nodes of the trees of which a token is dropped

ASSUME SizeAssumption == MaxNodes \in 1..3 /\ {MaxBroken, MaxDropped} \subseteq 0..MaxNodes

VARIABLES root,     \* the shape of the root of the tree, and its size
          tree,     \* the expression that was written
          header,   \* it is the header of a control-flow block
          edit,     \* what was done to its text
          toks,     \* the tokens the parser reads
          read,     \* what it made of them: a tree and the next token
          phase

vars == <<root, tree, header, edit, toks, read, phase>>

N(op, of, kids) == [op |-> op, of |-> of, kids |-> kids]
Leaf(t) == N("leaf", t, <<>>)
-----------------------------------------------------------------------------
(* The grammar: node shapes, precedence, and which operands a node takes.  *)

BinaryOps == {"||", "&&", "==", "<", ">", "-", "*"}
Idents    == {"x", "T"}

OpLevel == [o \in BinaryOps |->
  CASE o = "||" -> 1 [] o = "&&" -> 2 [] o = "==" -> 3 [] o \in {"<", ">"} -> 4 [] o = "-" -> 5 [] o = "*" -> 6]

Level(e) ==
  CASE e.op = "catch" -> 0
    [] e.op = "bin" -> OpLevel[e.of]
    [] e.op = "un" -> 7
    [] e.op \in {"call", "static", "field", "pos", "at", "cut", "brace"} -> 8
    [] OTHER -> 9

NonAssociative == {3, 4}

\* An expression that ends in a construct that takes all that follows.
RECURSIVE Open(_)
Open(e) == CASE e.op = "bin" -> Open(e.kids[2])
             [] e.op = "un" -> Open(e.kids[1])
             [] OTHER -> e.op \in {"try", "short", "return"}

RECURSIVE IsName(_)
IsName(e) == CASE e.op = "leaf" -> e.of \in Idents
               [] e.op = "field" -> IsName(e.kids[1])
               [] OTHER -> FALSE

\* What may stand in a header, where a `{` opens the block: nothing that needs
\* a brace literal or a `catch` outside (...), [...] or {...} of a literal.
RECURSIVE HeaderSafe(_)
HeaderSafe(e) ==
  CASE e.op \in {"paren", "tuple", "unit", "list", "leaf"} -> TRUE
    [] e.op \in {"brace", "catch"} -> FALSE
    [] e.op \in {"call", "static", "at", "cut"} -> HeaderSafe(e.kids[1])
    [] e.op = "return" -> e.kids # <<>> /\ HeaderSafe(e.kids[1])
    [] OTHER -> \A k \in DOMAIN e.kids : HeaderSafe(e.kids[k])

\* The operands of a node are of the levels its production names.
Binds(e) ==
  LET first == e.kids[1] IN
  CASE e.op = "bin" -> /\ ~Open(first)
                       /\ IF Level(e) \in NonAssociative THEN Level(first) > Level(e)
                                                         ELSE Level(first) >= Level(e)
                       /\ Level(e.kids[2]) > Level(e)
    [] e.op = "un" -> Level(first) >= 7
    [] e.op \in {"call", "static", "field", "pos", "at", "cut"} -> Level(first) >= 8 /\ ~Open(first)
    [] e.op = "catch" -> Level(first) >= 1 /\ ~Open(first)
    [] OTHER -> TRUE

RECURSIVE WellBound(_)
WellBound(e) == Binds(e) /\ \A k \in DOMAIN e.kids : WellBound(e.kids[k])

\* A statement that starts with `if` is parsed as one, up to its last block.
RECURSIVE LeftEdge(_)
LeftEdge(e) == IF e.op \in {"bin", "call", "static", "field", "pos", "at", "cut", "brace", "catch"}
               THEN LeftEdge(e.kids[1]) ELSE e

Where(e, k) ==
  LET kid == e.kids[k] IN
  /\ kid.op = "spread" => e.op = "call" /\ k = Len(e.kids) /\ k > 1
  /\ kid = Leaf("scope") => e.op = "field"
  /\ CASE e.op = "brace" /\ k = 1 -> IsName(kid)
       [] e.op = "brace" -> (e.of.form = "map" /\ k % 2 = 0) => kid = Leaf("1") \/ kid.op = "paren"
       [] e.op = "pos" -> kid # Leaf("1")
       [] e.op = "block" -> LeftEdge(kid).op = "if" => kid.op = "if"
       [] e.op = "if" /\ k = 1 -> HeaderSafe(kid)
       [] e.op = "if" -> kid.op = "block" \/ (k = 3 /\ kid.op = "if")
       [] e.op = "match" /\ k = 1 -> HeaderSafe(kid)
       [] e.op \in {"func", "spawn"} -> kid.op = "block"
       [] e.op \in {"scope", "catch"} /\ k = Len(e.kids) -> kid.op = "block"
       [] OTHER -> TRUE

TypeLists == {<<>>, <<"<", "T", ">">>}

\* <<node kind, its text, number of operands>>.  The grammar's empty `[]` is
\* missing: the parser reads `[` `]` as the prefix of a slice type.
Shapes ==
  {<<"leaf", t, 0>> : t \in {"x", "1", "scope"}} \cup {<<"unit", "", 0>>, <<"un", "-", 1>>}
  \cup {<<"bin", o, 2>> : o \in BinaryOps}
  \cup {<<"paren", "", 1>>, <<"tuple", "", 2>>, <<"spread", "", 1>>}
  \cup {<<"call", t, n>> : t \in TypeLists, n \in 1..3} \cup {<<"static", <<"<", "T", ">">>, 1>>}
  \cup {<<"field", "", 1>>, <<"pos", "0", 1>>, <<"at", "", 2>>}
  \cup {<<"cut", b, 1 + Cardinality({k \in 1..2 : b[k]})>> : b \in BOOLEAN \X BOOLEAN}
  \cup {<<"brace", [form |-> f, args |-> t], 2>> : f \in {"set", "record"}, t \in TypeLists}
  \cup {<<"brace", [form |-> "none", args |-> t], 1>> : t \in TypeLists}
  \cup {<<"brace", [form |-> f, args |-> <<>>], 3>> : f \in {"set", "record", "map"}}
  \cup {<<"list", <<>>, n>> : n \in 1..2} \cup {<<"list", <<"T">>, n>> : n \in 0..1}
  \cup {<<"short", [params |-> p, ret |-> r], 1>> : p \in {<<>>, <<"x">>, <<"x", ":", "T">>}, r \in {<<>>, <<"T">>}}
  \cup {<<"func", [params |-> <<>>, ret |-> <<>>], 1>>, <<"try", "", 1>>, <<"spawn", "", 1>>, <<"catch", "", 2>>}
  \cup {<<"return", "", n>> : n \in 0..1} \cup {<<"block", "", n>> : n \in 0..2}
  \cup {<<"if", "", n>> : n \in 2..3} \cup {<<"match", "", n>> : n \in 2..3}
  \cup {<<"scope", t, n>> : t \in TypeLists, n \in 1..2}

\* The trees made of a shape, n nodes in all, over the trees of fewer nodes:
\* [sizes] deals the other nodes to the operands.
RECURSIVE Deals(_, _)
Deals(total, parts) ==
  IF parts = 0 THEN (IF total = 0 THEN {<<>>} ELSE {})
  ELSE UNION {{<<k>> \o rest : rest \in Deals(total - k, parts - 1)} : k \in 1..total}

Over(shape, n, smaller) ==
  {e \in {N(shape[1], shape[2], kids) :
            kids \in UNION {CASE shape[3] = 0 -> {<<>>}
                              [] shape[3] = 1 -> {<<a>> : a \in smaller[d[1]]}
                              [] shape[3] = 2 -> smaller[d[1]] \X smaller[d[2]]
                              [] OTHER -> smaller[d[1]] \X smaller[d[2]] \X smaller[d[3]]
                            : d \in Deals(n - 1, shape[3])}} :
     Binds(e) /\ \A k \in DOMAIN e.kids : Where(e, k)}

Trees1 == UNION {Over(shape, 1, <<>>) : shape \in Shapes}
Trees2 == UNION {Over(shape, 2, <<Trees1>>) : shape \in Shapes}
Trees3 == UNION {Over(shape, 3, <<Trees1, Trees2>>) : shape \in Shapes}
-----------------------------------------------------------------------------
(* Writing a tree down.  Three tokens are marked by what they stand for,   *)
(* "lt" a comparison, "(=>" the parameters of a short closure, "ret" a     *)
(* return without a value; the parser is given "<", "(" and "return".      *)

Joined(parts, sep) ==
  IF parts = <<>> THEN <<>>
  ELSE parts[1] \o FlattenSeq([k \in 1..Len(parts) - 1 |-> <<sep>> \o parts[k + 1]])

RECURSIVE Marked(_)
Marked(e) ==
  LET k == [j \in DOMAIN e.kids |-> Marked(e.kids[j])]
      tail == SubSeq(k, 2, Len(k))
      In(l, m, r) == <<l>> \o m \o <<r>>
  IN
  CASE e.op = "leaf" -> <<e.of>>
    [] e.op = "unit" -> <<"(", ")">>
    [] e.op = "bin" -> k[1] \o <<IF e.of = "<" THEN "lt" ELSE e.of>> \o k[2]
    [] e.op \in {"un", "spread"} -> <<IF e.op = "un" THEN "-" ELSE "...">> \o k[1]
    [] e.op \in {"paren", "tuple"} -> In("(", Joined(k, ","), ")")
    [] e.op = "call" -> k[1] \o e.of \o In("(", Joined(tail, ","), ")")
    [] e.op = "static" -> k[1] \o e.of \o <<".", "x", "(", ")">>
    [] e.op = "field" -> k[1] \o <<".", "x">>
    [] e.op = "pos" -> \* the lexer reads two indices in a row as a float
         IF k[1][Len(k[1])] = "0" THEN Front(k[1]) \o <<"0.0">> ELSE k[1] \o <<".", "0">>
    [] e.op = "at" -> k[1] \o In("[", k[2], "]")
    [] e.op = "cut" -> k[1] \o In("[", (IF e.of[1] THEN k[2] ELSE <<>>) \o <<":">>
                                         \o (IF e.of[2] THEN k[Len(k)] ELSE <<>>), "]")
    [] e.op = "brace" -> k[1] \o e.of.args \o
         In("{", CASE e.of.form = "record" -> Joined([j \in DOMAIN tail |-> <<"x", ":">> \o tail[j]], ",")
                   [] e.of.form = "map" -> k[2] \o <<":">> \o k[3]
                   [] OTHER -> Joined(tail, ","), "}")
    [] e.op = "list" -> IF e.of = <<>> THEN In("[", Joined(k, ","), "]")
                        ELSE <<"[", "]">> \o e.of \o In("{", Joined(k, ","), "}")
    [] e.op = "short" -> In("(=>", e.of.params, ")")
                           \o (IF e.of.ret = <<>> THEN <<>> ELSE <<":">> \o e.of.ret) \o <<"=>">> \o k[1]
    [] e.op = "func" -> <<"func", "(", ")">> \o k[1]
    [] e.op \in {"try", "spawn"} -> <<e.op>> \o k[1]
    [] e.op = "return" -> IF k = <<>> THEN <<"ret">> ELSE <<"return">> \o k[1]
    [] e.op = "catch" -> k[1] \o <<"catch", "x">> \o k[2]
    [] e.op = "block" -> In("{", Joined(k, ";"), "}")
    [] e.op = "if" -> <<"if">> \o k[1] \o k[2] \o (IF Len(k) = 3 THEN <<"else">> \o k[3] ELSE <<>>)
    [] e.op = "match" -> <<"match">> \o k[1]
                           \o In("{", Joined([j \in DOMAIN tail |-> <<"x", "=>">> \o tail[j]], ","), "}")
    [] e.op = "scope" -> <<"scope">> \o e.of \o (IF Len(k) = 2 THEN In("(", k[1], ")") ELSE <<>>) \o k[Len(k)]

Spelling == [m \in {"lt", "(=>", "ret"} |-> CASE m = "lt" -> "<" [] m = "(=>" -> "(" [] m = "ret" -> "return"]
Spelled(marked) == [k \in DOMAIN marked |-> IF marked[k] \in DOMAIN Spelling THEN Spelling[marked[k]] ELSE marked[k]]
Text(e) == Spelled(Marked(e))
-----------------------------------------------------------------------------
(* The token cursor.                                                       *)

\* Mutant: a `}` leaves the newlines behind it to the statements.
SuppressWithoutRestore(ts) ==
  LET Step(s, t) ==
        IF t = "NL" /\ s.depth > 0 THEN s
        ELSE [out |-> Append(s.out, t),
              depth |-> CASE t \in {"(", "["} -> s.depth + 1
                          [] t \in {")", "]"} /\ s.depth > 0 -> s.depth - 1
                          [] t \in {"{", "}"} -> 0
                          [] OTHER -> s.depth]
  IN FoldLeft(Step, [out |-> <<>>, depth |-> 0], ts).out

\* suppressBracketNewlines: [saved] holds the depths outside the open braces.
SuppressBracketNewlines(ts) ==
  LET Step(s, t) ==
        IF t = "NL" /\ s.depth > 0 THEN s
        ELSE [out |-> Append(s.out, t),
              depth |-> CASE t \in {"(", "["} -> s.depth + 1
                          [] t \in {")", "]"} /\ s.depth > 0 -> s.depth - 1
                          [] t = "{" -> 0
                          [] t = "}" /\ s.saved # <<>> -> s.saved[Len(s.saved)]
                          [] OTHER -> s.depth,
              saved |-> CASE t = "{" -> Append(s.saved, s.depth)
                          [] t = "}" /\ s.saved # <<>> -> Front(s.saved)
                          [] OTHER -> s.saved]
  IN FoldLeft(Step, [out |-> <<>>, depth |-> 0, saved |-> <<>>], ts).out

Tok(i) == IF i \in DOMAIN toks THEN toks[i] ELSE "EOF"

RECURSIVE Skip(_, _)
Skip(i, over) == IF Tok(i) \in over THEN Skip(i + 1, over) ELSE i
NoNL(i) == Skip(i, {"NL"})
NoSep(i) == Skip(i, {"NL", ";"})

\* A parselet returns the tree it built and the cursor, or fails.
R(t, i) == [t |-> t, i |-> i]
Fail == R(N("error", "", <<>>), 0)
Failed(r) == r.i = 0
Then(r, Next(_)) == IF Failed(r) THEN Fail ELSE Next(r)
Expect(tok, i, r) == IF Tok(i) = tok THEN r ELSE Fail
-----------------------------------------------------------------------------
(* Types.  A type's tree is its text: the cursor behind it is all there is.*)

RECURSIVE TypeEnd(_), TypesEnd(_, _)
\* A comma-separated list of types: the cursor behind it and their number.
TypesEnd(i, n) ==
  LET e == TypeEnd(NoNL(i)) IN
  IF e = 0 THEN [i |-> 0, n |-> 0]
  ELSE IF Tok(NoNL(e)) = "," THEN TypesEnd(NoNL(e) + 1, n + 1) ELSE [i |-> NoNL(e), n |-> n + 1]
ListEnd(i, close) ==
  IF Tok(NoNL(i)) = close THEN [i |-> NoNL(i), n |-> 0] ELSE TypesEnd(i, 0)
RECURSIVE NameEnd(_)
NameEnd(i) == IF Tok(i) # "." THEN i ELSE IF Tok(i + 1) \in Idents THEN NameEnd(i + 2) ELSE 0
TypeEnd(i) ==
  CASE Tok(i) = "func" ->
         IF Tok(i + 1) # "(" THEN 0
         ELSE LET l == ListEnd(i + 2, ")") IN
              IF Tok(l.i) # ")" THEN 0 ELSE IF Tok(l.i + 1) = ":" THEN TypeEnd(NoNL(l.i + 2)) ELSE l.i + 1
    [] Tok(i) = "(" ->
         LET l == ListEnd(i + 1, ")") IN
         IF Tok(l.i) # ")" THEN 0 ELSE IF Tok(l.i + 1) = "=>" THEN TypeEnd(NoNL(l.i + 2))
         ELSE IF l.n < 2 THEN 0 ELSE l.i + 1
    [] Tok(i) = "[" -> IF Tok(i + 1) = "]" THEN TypeEnd(i + 2) ELSE 0
    [] Tok(i) = "unit" -> i + 1
    [] Tok(i) \in Idents ->
         LET q == NameEnd(i + 1) IN
         IF q = 0 \/ Tok(q) # "<" THEN q
         ELSE LET l == TypesEnd(q + 1, 0) IN IF Tok(l.i) = ">" THEN l.i + 1 ELSE 0
    [] OTHER -> 0

Between(i, j) == SelectSeq(SubSeq(toks, i, j - 1), LAMBDA t : t # "NL")

\* parseCallTypeArgs, from its `<`.
TypeArgsEnd(i) == LET l == TypesEnd(i + 1, 0) IN IF Tok(l.i) = ">" THEN l.i + 1 ELSE 0
-----------------------------------------------------------------------------
(* The three scans that decide what a token begins before it is parsed.    *)

RECURSIVE GenericScan(_, _), ArrowFollowsType(_, _), ClosureScan(_, _)
GenericScan(i, depth) ==
  CASE Tok(i) = "<" -> GenericScan(i + 1, depth + 1)
    [] Tok(i) = ">" -> IF depth > 1 THEN GenericScan(i + 1, depth - 1)
                       ELSE Tok(NoNL(i + 1)) \in {"(", "{", "."}
    [] Tok(i) \in Idents \cup {"NL", "unit", ",", ".", "[", "]"} -> GenericScan(i + 1, depth)
    [] OTHER -> FALSE
CouldBeGenericCallSite(i) == Tok(i) = "<" /\ GenericScan(i, 0)

ArrowFollowsType(k, depth) ==
  CASE Tok(k) = "EOF" -> FALSE
    [] Tok(k) = "=>" /\ depth = 0 -> TRUE
    [] Tok(k) \in {"(", "[", "<"} -> ArrowFollowsType(k + 1, depth + 1)
    [] Tok(k) \in {")", "]"} -> depth > 0 /\ ArrowFollowsType(k + 1, depth - 1)
    [] Tok(k) = ">" -> ArrowFollowsType(k + 1, IF depth > 0 THEN depth - 1 ELSE 0)
    [] Tok(k) \in {",", ";", "{", "}"} -> depth > 0 /\ ArrowFollowsType(k + 1, depth)
    [] OTHER -> ArrowFollowsType(k + 1, depth)
ClosureScan(i, depth) ==
  CASE Tok(i) = "EOF" -> FALSE
    [] Tok(i) = "(" -> ClosureScan(i + 1, depth + 1)
    [] Tok(i) = ")" -> IF depth > 1 THEN ClosureScan(i + 1, depth - 1)
                       ELSE LET n == NoNL(i + 1) IN
                            Tok(n) = "=>" \/ (Tok(n) = ":" /\ ArrowFollowsType(n + 1, 0))
    [] OTHER -> ClosureScan(i + 1, depth)
CouldBeShortClosure(i) == Tok(i) = "(" /\ ClosureScan(i, 0)
-----------------------------------------------------------------------------
(* The parselets.  [nb] is noBrace: a `{` belongs to the control-flow block*)
(* around the expression.                                                  *)

RECURSIVE Expr(_, _), Operand(_, _, _), BinaryL(_, _, _), Unary(_, _), Postfix(_, _), Primary(_, _)
RECURSIVE Args(_, _), Items(_, _, _), Comps(_, _), Entries(_, _, _), ParamsEnd(_)
RECURSIVE Stmts(_, _, _), IfForm(_, _), Arms(_, _, _)

OpsAt(level) == {o \in BinaryOps : OpLevel[o] = level}

BinaryL(level, left, nb) ==
  IF Tok(left.i) \notin OpsAt(level) THEN left
  ELSE Then(Operand(level + 1, left.i + 1, nb),
            LAMBDA right : BinaryL(level, R(N("bin", Tok(left.i), <<left.t, right.t>>), right.i), nb))

BinaryOnce(level, left, nb) ==
  IF Tok(left.i) \notin OpsAt(level) THEN left
  ELSE Then(Operand(level + 1, left.i + 1, nb),
            LAMBDA right : IF Tok(right.i) \in OpsAt(level) THEN Fail
                           ELSE R(N("bin", Tok(left.i), <<left.t, right.t>>), right.i))

Operand(level, i, nb) ==
  IF level > 6 THEN Unary(i, nb)
  ELSE Then(Operand(level + 1, i, nb),
            LAMBDA left : IF level \in NonAssociative THEN BinaryOnce(level, left, nb)
                                                      ELSE BinaryL(level, left, nb))

Unary(i, nb) ==
  IF Tok(i) = "-" THEN Then(Unary(i + 1, nb), LAMBDA e : R(N("un", "-", <<e.t>>), e.i))
  ELSE Then(Primary(i, nb), LAMBDA e : Postfix(e, nb))

\* parseBlock and parseValueBlock: which statement is the value is not kept.
Block(i, nb) == IF Tok(i) # "{" THEN Fail ELSE Stmts(NoSep(i + 1), <<>>, nb)

CatchTail(e) ==
  IF Tok(e.i + 1) \notin Idents THEN Fail
  ELSE Then(Block(e.i + 2, FALSE), LAMBDA b : R(N("catch", "", <<e.t, b.t>>), b.i))

Expr(i, nb) ==
  Then(Operand(1, i, nb), LAMBDA e : IF ~nb /\ Tok(e.i) = "catch" THEN CatchTail(e) ELSE e)

\* Mutant: a list may end with any token.
ClosedByAny(close, list, node) == Then(list, LAMBDA l : R(node, l.i + 1))

Closed(close, list, node) == Then(list, LAMBDA l : Expect(close, l.i, R(node, l.i + 1)))

\* parseCallSuffix, from its `(`: a spread ends the list.
Args(i, acc) ==
  IF Tok(i) = "..." THEN Then(Expr(i + 1, FALSE), LAMBDA e : R(Append(acc, N("spread", "", <<e.t>>)), NoNL(e.i)))
  ELSE Then(Expr(i, FALSE),
            LAMBDA e : IF Tok(NoNL(e.i)) = "," THEN Args(NoNL(NoNL(e.i) + 1), Append(acc, e.t))
                                               ELSE R(Append(acc, e.t), NoNL(e.i)))
CallSuffix(op, callee, targs, i) ==
  IF Tok(i) # "(" THEN Fail
  ELSE LET args == IF Tok(NoNL(i + 1)) = ")" THEN R(<<>>, NoNL(i + 1)) ELSE Args(NoNL(i + 1), <<>>)
       IN Closed(")", args, N(op, targs, <<callee>> \o args.t))

\* The entries of a brace literal, all of the kind of the first one.
Entries(i, form, acc) ==
  LET Next(kind, e, new) ==
        IF form \notin {"none", kind} THEN Fail
        ELSE Entries(NoSep(IF Tok(e.i) = "," THEN e.i + 1 ELSE e.i), kind, acc \o new)
  IN
  IF Tok(i) \in {"}", "EOF"} THEN R([form |-> form, kids |-> acc], i)
  ELSE IF Tok(i) \in Idents /\ Tok(i + 1) = ":"
  THEN Then(Expr(i + 2, FALSE), LAMBDA e : Next("record", e, <<e.t>>))
  ELSE Then(Expr(i, FALSE),
            LAMBDA k : IF Tok(k.i) = ":" THEN Then(Expr(k.i + 1, FALSE), LAMBDA e : Next("map", e, <<k.t, e.t>>))
                                         ELSE Next("set", k, <<k.t>>))
BraceLit(name, targs, i) ==
  LET body == Entries(NoSep(i + 1), "none", <<>>)
  IN Closed("}", body, N("brace", [form |-> body.t.form, args |-> targs], <<name>> \o body.t.kids))

IndexOrSlice(recv, i) ==
  LET High(low, colon) ==   \* from the `:`
        IF Tok(colon + 1) = "]" THEN R(N("cut", <<low # <<>>, FALSE>>, <<recv>> \o low), colon + 2)
        ELSE Then(Expr(colon + 1, FALSE),
                  LAMBDA h : Expect("]", h.i, R(N("cut", <<low # <<>>, TRUE>>, <<recv>> \o low \o <<h.t>>), h.i + 1)))
  IN
  IF Tok(i + 1) = ":" THEN High(<<>>, i + 1)
  ELSE Then(Expr(i + 1, FALSE),
            LAMBDA e : IF Tok(e.i) = ":" THEN High(<<e.t>>, e.i)
                       ELSE Expect("]", e.i, R(N("at", "", <<recv, e.t>>), e.i + 1)))

\* What may follow a `<...>` that the scan took for type arguments.
GenericSuffix(e, i, nb) ==
  LET behind == TypeArgsEnd(i)
      targs == Between(i, behind)
  IN
  CASE behind = 0 -> Fail
    [] Tok(behind) = "(" -> CallSuffix("call", e, targs, behind)
    [] Tok(behind) = "." /\ Tok(behind + 1) \in Idents -> CallSuffix("static", e, targs, behind + 2)
    [] Tok(behind) = "{" /\ ~nb /\ IsName(e) -> BraceLit(e, targs, behind)
    [] OTHER -> Fail

\* The loop of parsePostfix: a line may break before a `.`.
Postfix(e, nb) ==
  LET i == IF Tok(NoNL(e.i)) = "." THEN NoNL(e.i) ELSE e.i
      More(r) == Then(r, LAMBDA x : Postfix(x, nb))
      Pos(t) == N("pos", "0", <<t>>)
  IN
  CASE Tok(i) = "(" -> More(CallSuffix("call", e.t, <<>>, i))
    [] Tok(i) = "<" /\ CouldBeGenericCallSite(i) -> More(GenericSuffix(e.t, i, nb))
    [] Tok(i) = "." /\ Tok(i + 1) = "0" -> More(R(Pos(e.t), i + 2))
    [] Tok(i) = "." /\ Tok(i + 1) = "0.0" -> More(R(Pos(Pos(e.t)), i + 2))
    [] Tok(i) = "." -> IF Tok(i + 1) \in Idents THEN More(R(N("field", "", <<e.t>>), i + 2)) ELSE Fail
    [] Tok(i) = "[" -> More(IndexOrSlice(e.t, i))
    [] Tok(i) = "{" /\ ~nb /\ IsName(e.t) -> More(BraceLit(e.t, <<>>, i))
    [] OTHER -> e

ParamsEnd(i) ==
  IF Tok(i) = ")" THEN i
  ELSE IF Tok(i) \notin Idents THEN 0
  ELSE LET j == IF Tok(i + 1) = ":" THEN TypeEnd(i + 2) ELSE i + 1 IN
       IF j = 0 THEN 0 ELSE IF Tok(NoNL(j)) = "," THEN ParamsEnd(NoNL(NoNL(j) + 1)) ELSE NoNL(j)

\* Parameters and return annotation from the `(` at i, and what is behind
\* them (0 if they are not well formed).
Signature(i) ==
  LET close == ParamsEnd(NoNL(i + 1))
      typed == Tok(close + 1) = ":"
      behind == IF typed THEN TypeEnd(NoNL(close + 2)) ELSE close + 1
  IN [behind |-> IF Tok(close) = ")" THEN behind ELSE 0,
      types  |-> [params |-> Between(i + 1, close), ret |-> IF typed THEN Between(close + 2, behind) ELSE <<>>]]

ShortClosure(i, nb) ==
  LET sig == Signature(i) IN
  IF sig.behind = 0 \/ Tok(sig.behind) # "=>" THEN Fail
  ELSE Then(Expr(sig.behind + 1, nb), LAMBDA b : R(N("short", sig.types, <<b.t>>), b.i))

FuncClosure(i, nb) ==
  LET sig == Signature(i) IN
  IF sig.behind = 0 THEN Fail
  ELSE Then(Block(sig.behind, nb), LAMBDA b : R(N("func", sig.types, <<b.t>>), b.i))

Comps(i, acc) ==
  IF Tok(i) # "," THEN R(acc, i)
  ELSE IF Tok(NoNL(i + 1)) = ")" THEN R(acc, NoNL(i + 1))
  ELSE Then(Expr(NoNL(i + 1), FALSE), LAMBDA e : Comps(NoNL(e.i), Append(acc, e.t)))

Parens(i, nb) ==
  IF CouldBeShortClosure(i)
  THEN ShortClosure(i, nb)
  ELSE IF Tok(NoNL(i + 1)) = ")" THEN R(N("unit", "", <<>>), NoNL(i + 1) + 1)
  ELSE Then(Expr(NoNL(i + 1), FALSE), LAMBDA e :
         IF Tok(e.i) = "," THEN LET comps == Comps(e.i, <<e.t>>) IN Closed(")", comps, N("tuple", "", comps.t))
                           ELSE Expect(")", e.i, R(N("paren", "", <<e.t>>), e.i + 1)))

Items(i, close, acc) ==
  IF Tok(i) = close THEN R(acc, i)
  ELSE Then(Expr(i, FALSE),
            LAMBDA e : IF Tok(NoNL(e.i)) = "," THEN Items(NoNL(NoNL(e.i) + 1), close, Append(acc, e.t))
                                               ELSE R(Append(acc, e.t), NoNL(e.i)))
SliceLit(i) ==
  IF Tok(i + 1) = "]"
  THEN LET elem == TypeEnd(i + 2)
           items == Items(NoNL(elem + 1), "}", <<>>)
       IN IF Tok(elem) # "{" THEN Fail ELSE Closed("}", items, N("list", Between(i + 2, elem), items.t))
  ELSE LET items == Items(NoNL(i + 1), "]", <<>>) IN Closed("]", items, N("list", <<>>, items.t))

\* Mutant: only the end of a statement ends a return without a value.
ReturnAtStatementEnd(i, nb) ==
  IF Tok(i + 1) \in {"NL", "}", "EOF"} THEN R(N("return", "", <<>>), i + 1)
  ELSE Then(Expr(i + 1, nb), LAMBDA e : R(N("return", "", <<e.t>>), e.i))

Return(i, nb) ==
  IF Tok(i + 1) \in {"NL", "}", ",", "EOF"} THEN R(N("return", "", <<>>), i + 1)
  ELSE Then(Expr(i + 1, nb), LAMBDA e : R(N("return", "", <<e.t>>), e.i))

IfForm(i, nb) ==
  Then(Expr(i + 1, TRUE), LAMBDA c :
  Then(Block(c.i, nb), LAMBDA b :
    IF Tok(b.i) # "else" THEN R(N("if", "", <<c.t, b.t>>), b.i)
    ELSE Then(IF Tok(b.i + 1) = "if" THEN IfForm(b.i + 1, nb) ELSE Block(b.i + 1, nb),
              LAMBDA e : R(N("if", "", <<c.t, b.t, e.t>>), e.i))))

Arms(i, acc, nb) ==
  IF Tok(i) = "}" THEN (IF Len(acc) > 1 THEN R(N("match", "", acc), i + 1) ELSE Fail)
  ELSE IF Tok(i) \notin Idents \/ Tok(i + 1) # "=>" THEN Fail
  ELSE Then(Expr(NoNL(i + 2), nb), LAMBDA e :
         LET j == NoNL(e.i) IN
         CASE Tok(j) = "," -> Arms(NoNL(j + 1), Append(acc, e.t), nb)
           [] Tok(j) = "}" -> Arms(j, Append(acc, e.t), nb)
           [] OTHER -> Fail)

ScopeForm(i, nb) ==
  LET behind == IF Tok(i + 1) = "<" THEN TypeArgsEnd(i + 1) ELSE i + 1
      Body(at, parent) == Then(Block(at, nb), LAMBDA b :
        R(N("scope", Between(i + 1, behind), parent \o <<b.t>>), b.i))
  IN
  IF behind = 0 THEN Fail
  ELSE IF Tok(behind) = "(" THEN Then(Expr(behind + 1, nb), LAMBDA e : Expect(")", e.i, Body(e.i + 1, <<e.t>>)))
  ELSE Body(behind, <<>>)

Stmts(i, acc, nb) ==
  IF Tok(i) = "}" THEN R(N("block", "", acc), i + 1)
  ELSE Then(IF Tok(i) = "if" THEN IfForm(i, nb) ELSE IF Tok(i) = "return" THEN Return(i, nb) ELSE Expr(i, nb),
            LAMBDA e : Stmts(NoSep(e.i), Append(acc, e.t), nb))

Primary(i, nb) ==
  CASE Tok(i) \in Idents \cup {"1"} -> R(Leaf(Tok(i)), i + 1)
    [] Tok(i) = "(" -> Parens(i, nb)
    [] Tok(i) = "[" -> SliceLit(i)
    [] Tok(i) = "{" -> Block(i, nb)
    [] Tok(i) = "func" -> IF Tok(i + 1) # "(" THEN Fail
                          ELSE FuncClosure(i + 1, nb)
    [] Tok(i) = "try" -> Then(Expr(i + 1, nb), LAMBDA e : R(N("try", "", <<e.t>>), e.i))
    [] Tok(i) = "return" -> Return(i, nb)
    [] Tok(i) = "if" -> IfForm(i, nb)
    [] Tok(i) = "match" -> Then(Expr(i + 1, TRUE), LAMBDA s :
                                  Expect("{", s.i, Arms(NoNL(s.i + 1), <<s.t>>, nb)))
    [] Tok(i) = "spawn" -> Then(Block(i + 1, nb), LAMBDA b : R(N("spawn", "", <<b.t>>), b.i))
    [] Tok(i) = "scope" -> IF Tok(i + 1) \in {"<", "(", "{"} THEN ScopeForm(i, nb) ELSE R(Leaf("scope"), i + 1)
    [] OTHER -> Fail
-----------------------------------------------------------------------------
(* Write, edit, filter, parse.                                             *)

Written == Text(tree)
Edits == {[kind |-> "none", at |-> 0]}
           \cup {[kind |-> "break", at |-> a] : a \in IF root.size <= MaxBroken THEN 1..Len(Written) ELSE {}}
           \cup {[kind |-> "drop", at |-> a] : a \in IF root.size <= MaxDropped THEN 1..Len(Written) ELSE {}}
Edited(text, e) ==
  CASE e.kind = "none" -> text
    [] e.kind = "break" -> SubSeq(text, 1, e.at) \o <<"NL">> \o SubSeq(text, e.at + 1, Len(text))
    [] e.kind = "drop" -> RemoveAt(text, e.at)

Smaller == <<Trees1, Trees2, Trees3>>

\* Larger trees of a few shapes: pairs of operands with an operator or a
\* suffix of their own, under one operator or in one list.
Deep == MaxNodes + 2
Atoms == {Leaf("x"), N("at", "", <<Leaf("x"), Leaf("x")>>), N("unit", "", <<>>)}
CoreShapes == {<<"bin", o, 2>> : o \in {"||", "<", ">", "-"}} \cup {<<"un", "-", 1>>, <<"try", "", 1>>}
Core == Atoms \cup UNION {Over(shape, shape[3] + 1, <<Atoms>>) : shape \in CoreShapes}
DeepShapes == {shape \in Shapes : shape[1] \in {"bin", "list", "tuple"} /\ shape[3] = 2}

Init ==
  /\ root \in [shape : Shapes \ {<<"spread", "", 1>>}, size : 1..MaxNodes]
            \cup [shape : {shape \in Shapes : shape[3] = 3}, size : {MaxNodes + 1}]
            \cup [shape : DeepShapes, size : {Deep}]
  /\ tree = Leaf("x") /\ header = FALSE /\ edit = [kind |-> "none", at |-> 0]
  /\ toks = <<>> /\ read = Fail /\ phase = "blank"

Write ==
  /\ phase = "blank"
  /\ tree' \in (IF root.size = Deep THEN Over(root.shape, 3, <<Core>>)
                ELSE Over(root.shape, root.size, Smaller)) \ {Leaf("scope")}
  /\ header' \in IF HeaderSafe(tree') THEN BOOLEAN ELSE {FALSE}
  /\ phase' = "written"
  /\ UNCHANGED <<root, edit, toks, read>>

Filter ==
  /\ phase = "written"
  /\ edit' \in Edits
  /\ toks' = SuppressBracketNewlines(Edited(Written, edit') \o IF header THEN <<"{", "}">> ELSE <<>>)
  /\ phase' = "filtered"
  /\ UNCHANGED <<root, tree, header, read>>

Parse ==
  /\ phase = "filtered"
  /\ read' = Expr(1, header)
  /\ phase' = "read"
  /\ UNCHANGED <<root, tree, header, edit, toks>>

Next == Write \/ Filter \/ Parse
Spec == Init /\ [][Next]_vars
-----------------------------------------------------------------------------
(* Properties.                                                             *)

Unedited == edit.kind = "none"

\* The three texts the parser takes for something else than what was written:
\* a comparison the token scan takes for type arguments, a parenthesised map
\* key it takes for the parameters of a closure, and a return without a value
\* that no newline, `}` or `,` ends.
Mistaken ==
  LET m == Marked(tree) IN
  \/ \E k \in DOMAIN m : m[k] = "lt" /\ CouldBeGenericCallSite(k)
  \/ \E k \in DOMAIN m : m[k] = "(" /\ CouldBeShortClosure(k)
  \/ \E k \in DOMAIN m : m[k] = "ret" /\ Tok(k + 1) \notin {"NL", "}", ",", "EOF"}

\* Every expression of the grammar is read back as it was written, all of it
\* and nothing behind it, where any expression may stand and in a header,
\* whose block is left to the caller.
ReadsBack ==
  (phase = "read" /\ Unedited /\ ~Mistaken) => read = R(tree, Len(Written) + 1)

InBrackets(k) ==
  LET w == Written IN
  \E j \in {l \in 1..k : w[l] \in {"(", "["}} :
    LET Count(o, l) == Cardinality({x \in j..l : w[x] \in o})
    IN /\ \A l \in (j + 1)..k : Count({"(", "["}, l) > Count({")", "]"}, l)
       /\ Count({"{"}, k) = Count({"}"}, k)
InBraces(k) ==
  LET w == Written
  IN Cardinality({x \in 1..k : w[x] = "{"}) > Cardinality({x \in 1..k : w[x] = "}"})

\* A line break in brackets changes nothing; outside all brackets and braces
\* it ends the expression, unless it comes where the grammar admits one: the
\* parser never reads across it another tree than the one written.
LineBreaksDoNotRegroup ==
  (phase = "read" /\ edit.kind = "break" /\ ~Mistaken) =>
    /\ InBrackets(edit.at) => read = R(tree, Len(Written) + 1)
    /\ (~InBrackets(edit.at) /\ ~InBraces(edit.at) /\ ~Failed(read)) =>
         \/ read.t = tree
         \/ Text(read.t) = SubSeq(Written, 1, edit.at)

Kept(ts) == SelectSeq(ts, LAMBDA t : t \notin {"NL", ",", ";"})

\* Whatever the tokens, a tree the parser returns is written with exactly the
\* tokens it consumed, separators apart, and its operators bind as the
\* grammar's levels say.
ReadsWhatIsWritten ==
  (phase = "read" /\ ~Failed(read)) =>
    /\ Kept(Text(read.t)) = Kept([k \in 1..(read.i - 1) |-> Tok(k)])
    /\ WellBound(read.t)

=============================================================================
