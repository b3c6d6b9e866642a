---------------------------- MODULE TryLowering ----------------------------
(***************************************************************************)
(* `try e` in the middle of an expression: the emitter lifts it out of its *)
(* statement, as a preamble that evaluates e into a temporary and returns  *)
(* early when it is an Err or a None, and leaves a read of the temporary   *)
(* where it stood. Lifting moves e, and the early return, ahead of what is *)
(* evaluated before it; so the emitter lifts only when its walk of the     *)
(* statement finds nothing there that has an effect, and refuses the       *)
(* program otherwise.                                                      *)
(*                                                                         *)
(* An expression is a tree [k, sub]; what the walks treat alike is one     *)
(* kind:                                                                   *)
(*   leaf    an identifier or literal                                      *)
(*   opaque  a closure, block, match, if, scope or record literal: some    *)
(*           effect of its own; a try in it belongs to another frame       *)
(*   call    its operands, then an effect                                  *)
(*   trap    an index, a division: its operands, then maybe a panic        *)
(*   cond    && and ||: the right operand maybe                            *)
(*   try     its operand, then maybe the early return                      *)
(*   catch   its operand, then maybe the handler, which leaves             *)
(*   join    all others (field, tuple, parentheses, +): its operands       *)
(***************************************************************************)
EXTENDS Naturals, Sequences, SequencesExt, FiniteSets

CONSTANT MaxNodes      \* bound: nodes of the statement's expressions

VARIABLES stack,       \* the expressions parsed so far, the last on top
          form,        \* the statement, once it is complete
          verdict      \* "parsing", "emitted" or "refused"

vars == <<stack, form, verdict>>

Leaves == {"leaf", "opaque"}
Unary == {"call", "try", "catch"}
Binary == {"join", "trap", "cond"}

Node(k, sub) == [k |-> k, sub |-> sub]

(* The nodes of e, by their paths from the root. *)
RECURSIVE PathsOf(_)
PathsOf(e) == {<<>>} \cup UNION {{<<i>> \o p : p \in PathsOf(e.sub[i])} :
                                 i \in DOMAIN e.sub}
RECURSIVE At(_, _)
At(e, p) == IF p = <<>> THEN e ELSE At(e.sub[Head(p)], Tail(p))
Size(e) == Cardinality(PathsOf(e))

(* A statement's expressions in the order they are evaluated, as one tree. *)
Whole == Node("join", stack)
Paths == PathsOf(Whole)
KindAt(p) == At(Whole, p).k
PathsTo(ks) == {p \in Paths : KindAt(p) \in ks}

-----------------------------------------------------------------------------
(* What a run of the statement does: the effects, in order, and whether it  *)
(* ended early. `choice` says of each node that may go either way whether   *)
(* it does (panics, returns, evaluates its right operand); `done` are the   *)
(* tries whose value is in a temporary already.                             *)

Run0 == [effects |-> <<>>, ended |-> FALSE]
Effect(run, p) == [run EXCEPT !.effects = Append(@, p)]
End(run, p) == [Effect(run, p) EXCEPT !.ended = TRUE]

RECURSIVE Eval(_, _, _, _, _)
Eval(run, e, p, choice, done) ==
  LET operand(r, i) == Eval(r, e.sub[i], Append(p, i), choice, done)
      operands == FoldLeftDomain(operand, run, e.sub)
  IN  CASE run.ended \/ e.k = "leaf" \/ p \in done -> run
        [] e.k = "opaque" -> Effect(run, p)
        [] e.k = "cond" -> IF choice[p] THEN operands ELSE operand(run, 1)
        [] OTHER ->
             CASE operands.ended \/ e.k = "join" -> operands
               [] e.k = "call" -> Effect(operands, p)
               [] OTHER -> IF choice[p] THEN End(operands, p) ELSE operands

Outcomes == [PathsTo({"trap", "cond", "try", "catch"}) -> BOOLEAN]

Source(choice) == Eval(Run0, Whole, <<>>, choice, {})

-----------------------------------------------------------------------------
(* hoistableTries: one walk over the statement's expressions.               *)

RECURSIVE Walk(_, _)
WalkAll(w, es) == FoldLeft(Walk, w, es)
Impure(w) == [w EXCEPT !.impure = TRUE]

WalkPastPanics(w, e) ==
  CASE ~w.ok \/ e.k = "leaf" -> w
    [] e.k = "try" ->
         IF w.impure THEN [w EXCEPT !.ok = FALSE]
         ELSE [WalkAll([w EXCEPT !.impure = FALSE], e.sub) EXCEPT !.impure = w.impure]
    [] e.k = "call" -> Impure(WalkAll(w, e.sub))
    [] e.k \in {"join", "trap"} -> WalkAll(w, e.sub)
    [] e.k = "cond" -> Walk(w, e.sub[1])
    [] e.k \in {"opaque", "catch"} -> Impure(w)

Walk(w, e) ==
  CASE ~w.ok \/ e.k = "leaf" -> w
    [] e.k = "try" ->
         IF w.impure THEN [w EXCEPT !.ok = FALSE]
         ELSE [WalkAll([w EXCEPT !.impure = FALSE], e.sub) EXCEPT !.impure = w.impure]
    [] e.k \in {"call", "trap"} -> Impure(WalkAll(w, e.sub))
    [] e.k = "join" -> WalkAll(w, e.sub)
    [] e.k = "cond" -> Walk(w, e.sub[1])
    [] e.k \in {"opaque", "catch"} -> Impure(w)

HoistableTries(es) == WalkAll([impure |-> FALSE, ok |-> TRUE], es).ok

(* hoistExprTries and emitTryBail: the tries that are lifted, in the order  *)
(* of their preambles: a try after those of its operand.                    *)
RECURSIVE HoistExprTries(_, _)
HoistExprTries(e, p) ==
  LET below(n) == FlattenSeq([i \in 1..n |-> HoistExprTries(e.sub[i], Append(p, i))])
  IN  CASE e.k = "try" -> Append(below(1), p)
        [] e.k = "cond" -> below(1)
        [] e.k \in {"call", "trap", "join"} -> below(Len(e.sub))
        [] OTHER -> <<>>

(* emitStmt, emitLetOrVar: a let, var, return or expression statement       *)
(* ("value") and an assignment lift; the others ("condition": of an if or   *)
(* while, a range, match subject, destructuring let, defer or a task's      *)
(* return) emit their expressions as they are.                              *)
Lifting == {"value", "assign"}

(* emitBailPreamble: a let, return or expression statement that is a catch  *)
(* lifts the tries of its subject, and is emitted itself.                   *)
IsCatch == form = "value" /\ stack[1].k = "catch"
Exprs == IF IsCatch THEN stack[1].sub ELSE stack

(* hoistTriesIfSafe. *)
Hoisted ==
  IF form \in Lifting /\ HoistableTries(Exprs)
  THEN IF IsCatch THEN HoistExprTries(Exprs[1], <<1, 1>>)
                  ELSE HoistExprTries(Whole, <<>>)
  ELSE <<>>

(* tryExprErr, catchExprErr: what is left in an expression. *)
Unsupported ==
  {p \in PathsTo({"try", "catch"}) :
     p \notin Range(Hoisted) /\ ~(IsCatch /\ p = <<1>>)}

(* The emitted statement: each preamble in turn, then the statement, with   *)
(* the temporaries read. emitTryPreamble, emitTryBail.                      *)
Emitted(choice) ==
  LET lift == Hoisted
      preamble(run, n) ==
        IF run.ended THEN run
        ELSE Eval(run, At(Whole, lift[n]), lift[n], choice, {lift[m] : m \in 1..(n - 1)})
  IN  Eval(FoldLeftDomain(preamble, Run0, lift), Whole, <<>>, choice, Range(lift))

-----------------------------------------------------------------------------
Nodes == FoldLeft(LAMBDA n, e : n + Size(e), 0, stack)

Init == stack = <<>> /\ form = "none" /\ verdict = "parsing"

Parsing == form = "none" /\ UNCHANGED <<form, verdict>>

ParseOperand ==
  /\ Parsing /\ Nodes < MaxNodes
  /\ \E k \in Leaves : stack' = Append(stack, Node(k, <<>>))

ParseUnary ==
  /\ Parsing /\ Nodes < MaxNodes /\ stack # <<>>
  /\ \E k \in Unary : stack' = Append(Front(stack), Node(k, <<Last(stack)>>))

ParseBinary ==
  /\ Parsing /\ Nodes < MaxNodes /\ Len(stack) >= 2
  /\ LET n == Len(stack)
     IN  \E k \in Binary :
           stack' = Append(SubSeq(stack, 1, n - 2),
                           Node(k, <<stack[n - 1], stack[n]>>))

(* The statement is complete: an assignment has an LValue and a value.      *)
ParseStatement ==
  /\ verdict = "parsing" /\ form = "none"
  /\ \/ Len(stack) = 1 /\ form' \in {"value", "condition"}
     \/ Len(stack) = 2 /\ stack[1].k \in {"leaf", "join", "trap"} /\ form' = "assign"
  /\ UNCHANGED <<stack, verdict>>

EmitStatement ==
  /\ verdict = "parsing" /\ form # "none"
  /\ verdict' = IF Unsupported = {} THEN "emitted" ELSE "refused"
  /\ UNCHANGED <<stack, form>>

Next == ParseOperand \/ ParseUnary \/ ParseBinary \/ ParseStatement \/ EmitStatement

Spec == Init /\ [][Next]_vars

-----------------------------------------------------------------------------
(* p is evaluated before q, wholly. *)
Before(p, q) == \E i \in 1..Len(p) :
                  i <= Len(q) /\ p[i] < q[i] /\ SubSeq(p, 1, i - 1) = SubSeq(q, 1, i - 1)
Within(p, q) == IsPrefix(q, p)

(* Something with an effect in the right operand of a cond, before a try:   *)
(* the walk does not look there.                                            *)
HiddenEffect ==
  \E c \in PathsTo({"cond"}), t \in PathsTo({"try"}) :
    /\ Before(c, t)
    /\ \E p \in PathsTo({"call", "trap", "opaque"}) : Within(p, Append(c, 2))

(* A statement that is emitted does what the source does, in its order: no  *)
(* call, panic or other effect is moved past the early return of a try, nor *)
(* skipped nor run twice by it, whichever of its tries return. An effect in *)
(* the right operand of && or || is the exception.                          *)
EffectsInOrder ==
  verdict = "emitted" /\ ~HiddenEffect =>
    \A choice \in Outcomes : Emitted(choice) = Source(choice)

=============================================================================
