---------------------------- MODULE JumpLowering ----------------------------
(***************************************************************************)
(* Where a `break`, `continue`, `return` or `try` of an Aril body lands in *)
(* the Go that is emitted for it.                                          *)
(*                                                                         *)
(* `match` and `select` become Go `switch` and `select`, which capture a   *)
(* bare `break`; a `match`, `if` or block used as a value becomes a        *)
(* function literal, which captures every jump; and the compiler decides   *)
(* whether a loop needs a label before it emits the loop's body, by a      *)
(* separate walk that has to foresee how each construct will be emitted.   *)
(*                                                                         *)
(* A body is reduced to the path from the function down to one jump: the   *)
(* sequence of the constructs that enclose it, each saying which of its    *)
(* parts the path goes through and whether the next construct is the last  *)
(* item of its block (the parser makes a trailing expression of it then).  *)
(* The rest of the body enters through `others`, the loops that hold some  *)
(* other break needing a label, so having one anyway.                      *)
(***************************************************************************)
EXTENDS Naturals, Sequences, SequencesExt

CONSTANT MaxDepth      \* bound: constructs above the jump

VARIABLES prog,        \* the path: constructs, outermost first, then the jump
          unit,        \* the function returns unit
          others,      \* positions of loops labelled because of another break
          verdict,     \* "writing", "checked", "refused", "rejected", "emitted"
          at,          \* position of the next construct to emit
          out          \* the emitter: gen's fields and the Go emitted so far

vars == <<prog, unit, others, verdict, at, out>>

Jumps == {"break", "continue", "return", "try"}
Statements == {"loop", "select", "let", "try"}       \* have no value
ValueBlocks == {"func", "if", "block", "scope", "funcLit"}
Frames == {"closure", "funcLit", "scope", "spawn"}   \* return frames
ExprHoles == {"match", "let", "ret", "arg", "closure"}

(* Which of a construct's parts the path goes through: for `if`, its only   *)
(* branch, one of its two branches (the other falling through, or leaving   *)
(* as well), or an else-if's; for a closure, whether it yields a value.     *)
Parts(k) == CASE k = "if" -> {"only", "one", "both", "elif"}
              [] k \in {"closure", "funcLit"} -> {"unit", "value"}
              [] OTHER -> {"body"}

Kinds == {"loop", "if", "match", "block", "select", "catch", "let", "ret",
          "arg"} \cup Frames \cup Jumps

-----------------------------------------------------------------------------
(* The syntax tree the parser makes of the path. *)

Parent(i) == IF i = 1 THEN "func" ELSE prog[i - 1].k
InBlock(i) == Parent(i) \notin ExprHoles

(* parseValueBlock: the last item of a value block is its trailing value,   *)
(* unless it is a statement, a `return` or a `spawn`.                       *)
Trailing(i) == /\ InBlock(i)
               /\ Parent(i) \in ValueBlocks
               /\ prog[i].last
               /\ prog[i].k \notin Statements \cup {"return", "ret", "spawn"}

(* ifStmtToExpr, parsePrimary: an `if` that is a value or an expression is  *)
(* an IfExpr, all others are IfStmts.                                       *)
IfIsExpr(i) == Trailing(i) \/ ~InBlock(i)

(* ast.ExprDiverges, stmtDiverges and BlockDiverges: the construct never    *)
(* falls through. An IfExpr counts as falling through.                      *)
Leaves[i \in 1..Len(prog)] ==
  LET body == prog[i + 1].last /\ Leaves[i + 1]
  IN  CASE prog[i].k \in {"break", "continue", "return", "ret"} -> TRUE
        [] prog[i].k = "block" -> body
        [] prog[i].k = "if" /\ ~IfIsExpr(i) -> prog[i].part = "both" /\ body
        [] OTHER -> FALSE

-----------------------------------------------------------------------------
(* The checker. *)

Above(ks) == {i \in 1..(Len(prog) - 1) : prog[i].k \in ks}
Highest(S) == IF S = {} THEN 0 ELSE CHOOSE i \in S : \A j \in S : j <= i
Jump == prog[Len(prog)].k

(* E0404: loopDepth counts the loops above, and no frame resets it. *)
LoopChecked == Jump \in {"break", "continue"} => Above({"loop"}) # {}

(* E0405: scopeDepth is reset by a closure. *)
SpawnsChecked ==
  \A i \in Above({"spawn"}) :
    Highest({j \in Above({"scope", "closure", "funcLit"}) : j < i}) \in Above({"scope"})

(* E0409: a catch handler leaves. A handler that goes on after the path's   *)
(* construct is taken to end in a return.                                   *)
CatchesChecked ==
  \A i \in Above({"catch"}) : prog[i + 1].last => Leaves[i + 1]

(* E0402: curTryForbidden of the nearest frame. *)
TryChecked ==
  Jump = "try" =>
    LET f == Highest(Above(Frames))
    IN  IF f = 0 THEN ~unit
        ELSE \/ prog[f].k = "spawn"
             \/ prog[f].k \in {"closure", "funcLit"} /\ prog[f].part = "value"

-----------------------------------------------------------------------------
(* The labels: what loopBodyBreakNeedsLabel sees below loop i. Its walk     *)
(* stops at a nested loop, at an initialiser, an argument, a closure, a     *)
(* scope, a spawn, and at the else-if of an IfExpr.                         *)

(* Mutant of WalkEnters: not into a select.                               *)
WalkEntersNoSelect(j) ==
  \/ prog[j].k \in {"match", "catch", "block"}
  \/ prog[j].k = "if" /\ ~(IfIsExpr(j) /\ prog[j].part = "elif")

WalkEnters(j) ==
  \/ prog[j].k \in {"match", "catch", "select", "block"}
  \/ prog[j].k = "if" /\ ~(IfIsExpr(j) /\ prog[j].part = "elif")

(* The walk gets to the break, through a construct that Go makes a switch   *)
(* or a select of.                                                          *)
NeedsLabel(i) ==
  LET below == (i + 1)..(Len(prog) - 1)
  IN  /\ Jump = "break"
      /\ \A j \in below : WalkEnters(j)
      /\ \E j \in below : prog[j].k \in {"match", "catch", "select"}

-----------------------------------------------------------------------------
(* The emitter. out.ctx is how the parent wants the next construct: for a   *)
(* block, what becomes of its items ("discard", "func", "tail", "value" or  *)
(* "scope"); for a single expression, its position.                         *)
(* out.loops is gen.loopFrames; out.go the Go constructs that are open.     *)

Start == [ctx |-> IF unit THEN "discard" ELSE "func",
          loops |-> <<>>, go |-> <<[k |-> "func", at |-> 0]>>,
          inSpawn |-> FALSE, jump |-> "none", label |-> 0]

(* The position of construct i: its parent's, when it is an expression, a   *)
(* trailing value's, or a statement's.                                      *)
Position(i) ==
  IF ~InBlock(i) THEN out.ctx
  ELSE IF ~Trailing(i) THEN "stmt"
  ELSE CASE out.ctx = "discard" -> "stmt"
         [] out.ctx \in {"func", "tail"} -> "tail"
         [] out.ctx \in {"value", "scope"} -> "value"

(* A block that must yield a value has no trailing one: refused, unless a   *)
(* tail block leaves anyway. *)
LacksValue(i) ==
  /\ InBlock(i) /\ prog[i].last /\ ~Trailing(i)
  /\ \/ out.ctx = "value"
     \/ out.ctx = "tail" /\ ~Leaves[i]

AsValue(pos) == pos \in {"value", "init", "retval"}

Open(o, k, i) == [o EXCEPT !.go = Append(@, [k |-> k, at |-> i])]
In(o, ctx) == [o EXCEPT !.ctx = ctx]

(* enterSwitch: on the innermost loop frame, whatever function it is in. *)
EnterSwitch(o) ==
  IF o.loops = <<>> THEN o
  ELSE [o EXCEPT !.loops[Len(o.loops)].depth = @ + 1]

Refuse == verdict' = "refused" /\ UNCHANGED <<out, at>>
Emit(o) == out' = o /\ at' = at + 1 /\ UNCHANGED verdict

(* Emission reaches construct `at`, of kind k, in position pos. *)
Reaches(k) == verdict = "checked" /\ prog[at].k = k
pos == Position(at)
Proceed(P) ==
  /\ IF LacksValue(at) THEN Refuse ELSE P
  /\ UNCHANGED <<prog, unit, others>>

(* emitLoop: the label is decided here, before the body is emitted. *)
EmitLoop ==
  /\ Reaches("loop")
  /\ Proceed(LET labelled == at \in others \/ NeedsLabel(at)
                 frame == [at |-> at, label |-> labelled, depth |-> 0]
             IN  Emit(In(Open([out EXCEPT !.loops = Append(@, frame)], "for", at),
                         "discard")))

(* emitIf: a statement or, with an else, a tail. *)
EmitIf ==
  /\ Reaches("if") /\ ~AsValue(pos)
  /\ Proceed(CASE pos = "stmt" -> Emit(In(out, "discard"))
               [] pos = "tail" /\ prog[at].part = "only" -> Refuse
               [] OTHER -> Emit(In(out, "tail")))

(* A value `if` is a function literal, and has an else. *)
EmitIfExprAsValue ==
  /\ Reaches("if") /\ AsValue(pos)
  /\ Proceed(IF prog[at].part = "only" THEN Refuse
             ELSE Emit(In(Open(out, "iife", at), "value")))

(* emitMatchAsStmt, emitMatchTail: the arms are where the match is. *)
EmitMatchSwitch ==
  /\ Reaches("match") /\ ~AsValue(pos)
  /\ Proceed(Emit(In(Open(EnterSwitch(out), "switch", at), pos)))

(* A value match enters no switch; an arm of it that leaves is a statement. *)
EmitMatchAsExpr ==
  /\ Reaches("match") /\ AsValue(pos)
  /\ Proceed(Emit(In(Open(Open(out, "iife", at), "switch", at),
                     IF Leaves[at + 1] THEN "stmt" ELSE "value")))

(* emitStmt's Block and emitBlockTail. *)
EmitBlock ==
  /\ Reaches("block") /\ ~AsValue(pos)
  /\ Proceed(Emit(In(out, IF pos = "stmt" THEN "discard" ELSE "tail")))

EmitBlockAsExpr ==
  /\ Reaches("block") /\ AsValue(pos)
  /\ Proceed(Emit(In(Open(out, "iife", at), "value")))

EmitSelect ==
  /\ Reaches("select")
  /\ Proceed(Emit(In(Open(EnterSwitch(out), "switch", at), "discard")))

(* A catch is emitted in place (emitCatchPreamble) as a statement, as an    *)
(* initialiser and as a returned value; as a switch in tail position; and   *)
(* nowhere else.                                                            *)
EmitCatch ==
  /\ Reaches("catch")
  /\ Proceed(CASE pos \in {"stmt", "init", "retval"} -> Emit(In(out, "discard"))
               [] pos = "tail" ->
                    Emit(In(Open(EnterSwitch(out), "switch", at), "tail"))
               [] OTHER -> Refuse)

EmitLet == Reaches("let") /\ Proceed(Emit(In(out, "init")))

(* A `return e`: emitSpawnReturn takes e as any expression. *)
EmitReturnOf ==
  /\ Reaches("ret")
  /\ Proceed(IF AsValue(pos) THEN Refuse
             ELSE Emit(In(out, IF out.inSpawn THEN "value" ELSE "retval")))

EmitCall == Reaches("arg") /\ Proceed(Emit(In(out, "value")))

(* emitClosure: a new return frame; gen.loopFrames is not saved. The block  *)
(* of a short closure is emitted as statements when it yields no value.     *)
EmitClosure ==
  /\ Reaches("closure") \/ Reaches("funcLit")
  /\ Proceed(
       LET value == prog[at].part = "value"
           block == prog[at + 1].k = "block"
           noValue == block /\ prog[at + 2].last /\ ~Trailing(at + 2)
                            /\ Leaves[at + 1]
           fn == Open([out EXCEPT !.inSpawn = FALSE], "func", at)
       IN  IF prog[at].k = "funcLit"
           THEN Emit(In(fn, IF value THEN "func" ELSE "discard"))
           ELSE Emit(In(fn, IF block /\ (~value \/ noValue) THEN "stmt"
                                                             ELSE "value")))

(* Mutant of EmitScope: a scope in a task returns in the task's form. *)
EmitScopeInSpawnFrame ==
  /\ Reaches("scope")
  /\ Proceed(Emit(In(Open(out, "func", at), "scope")))

(* emitScopeExpr: a function literal that is a return frame of its own. *)
EmitScope ==
  /\ Reaches("scope")
  /\ Proceed(Emit(In(Open([out EXCEPT !.inSpawn = FALSE], "func", at), "scope")))

(* emitSpawnStmt; a spawn is no expression for emitExpr. *)
EmitSpawn ==
  /\ Reaches("spawn")
  /\ Proceed(IF pos # "stmt" THEN Refuse
             ELSE Emit(In(Open([out EXCEPT !.inSpawn = TRUE], "func", at),
                          "discard")))

(* breakTarget: the label, when a switch would capture the break. *)
BreakLabel ==
  LET f == out.loops[Len(out.loops)]
  IN  IF out.loops # <<>> /\ f.depth > 0 /\ f.label THEN f.at ELSE 0

(* emitStmt's jumps, emitSpawnReturn, emitTryPreamble: the jump is emitted  *)
(* as a Go statement, in the form its frame returns by.                     *)
EmitJump ==
  /\ verdict = "checked" /\ prog[at].k \in Jumps
  /\ IF AsValue(pos) \/ LacksValue(at)
     THEN Refuse
     ELSE /\ out' = [out EXCEPT
                !.jump = IF Jump \in {"return", "try"} /\ out.inSpawn
                         THEN "error" ELSE "plain",
                !.label = IF Jump = "break" THEN BreakLabel ELSE 0]
          /\ verdict' = "emitted"
          /\ UNCHANGED at
  /\ UNCHANGED <<prog, unit, others>>

-----------------------------------------------------------------------------
(* What Go makes of it. *)

Go == out.go
GoFunc == Highest({n \in 1..Len(Go) : Go[n].k \in {"func", "iife"}})
GoAbove(ks) == Highest({n \in (GoFunc + 1)..Len(Go) : Go[n].k \in ks})

(* The construct a jump that stays in its function leaves, or 0. *)
GoTarget ==
  CASE Jump = "continue" -> GoAbove({"for"})
    [] out.label # 0 -> Highest({n \in (GoFunc + 1)..Len(Go) :
                                Go[n].k = "for" /\ Go[n].at = out.label})
    [] OTHER -> GoAbove({"for", "switch"})

(* A label that no break names does not compile. *)
UnusedLabels ==
  {f \in Range(out.loops) : f.label /\ f.at # out.label /\ f.at \notin others}

GoAccepts ==
  /\ Jump \in {"break", "continue"} => GoTarget # 0
  /\ UnusedLabels = {}

Built == verdict = "emitted" /\ GoAccepts

-----------------------------------------------------------------------------
Node(k, part, last) == [k |-> k, part |-> part, last |-> last]

(* A function whose body is a loop is written one construct deeper. *)
UnderLoop == IF prog # <<>> /\ prog[1].k = "loop" THEN 1 ELSE 0

CanStand(k, hole, position) ==
  /\ hole \in ExprHoles => k \notin Statements
  /\ k \in {"closure", "funcLit"} => hole \in {"arg", "let", "ret"}
  /\ position > MaxDepth + UnderLoop => k \in Jumps

Init == /\ prog = <<>> /\ others = {} /\ at = 1
        /\ unit \in BOOLEAN
        /\ verdict = "writing"
        /\ out = Start

(* The program grows by one construct; nothing follows a jump. *)
Write ==
  LET n == Len(prog) + 1
      hole == IF n = 1 THEN "func" ELSE prog[n - 1].k
  IN  /\ verdict = "writing"
      /\ n = 1 \/ hole \notin Jumps
      /\ \E k \in Kinds : \E part \in Parts(k) : \E last \in BOOLEAN :
           /\ CanStand(k, hole, n)
           /\ (k = "loop" /\ n = 1) \/ hole \notin ValueBlocks \cup {"catch"} => last
           /\ prog' = Append(prog, Node(k, part, last))
      /\ UNCHANGED <<unit, others, verdict, at, out>>

(* The checker accepts the body, or the program is not compiled. *)
Check ==
  /\ verdict = "writing" /\ prog # <<>> /\ Jump \in Jumps
  /\ \E labelled \in SUBSET Above({"loop"}) :
       /\ Jump # "break" => labelled = {}
       /\ others' = labelled
  /\ verdict' = IF LoopChecked /\ SpawnsChecked /\ CatchesChecked /\ TryChecked
                THEN "checked" ELSE "rejected"
  /\ UNCHANGED <<prog, unit, at, out>>

Emission == \/ EmitLoop \/ EmitIf \/ EmitIfExprAsValue \/ EmitMatchSwitch \/ EmitMatchAsExpr
            \/ EmitBlock \/ EmitBlockAsExpr \/ EmitSelect \/ EmitCatch \/ EmitLet
            \/ EmitReturnOf \/ EmitCall \/ EmitClosure \/ EmitScope \/ EmitSpawn \/ EmitJump

Next == Write \/ Check \/ Emission

Spec == Init /\ [][Next]_vars

-----------------------------------------------------------------------------
SourceLoop == Highest(Above({"loop"}))
SourceFrame == Highest(Above(Frames))

(* A function literal that stands for a value, between the jump and what    *)
(* it leaves.                                                               *)
BehindValue(from) ==
  \E n \in 1..Len(Go) : Go[n].k = "iife" /\ Go[n].at > from

(* The walk that labels loops does not see into the else-if of an IfExpr,   *)
(* nor into the handler of a catch that is an initialiser or a returned     *)
(* value: a switch above or below makes a difference there.                 *)
Unseen ==
  /\ \E i \in Above({"match", "select"}) : i > SourceLoop
  /\ \E j \in Above({"if", "catch"}) :
       /\ j > SourceLoop
       /\ \/ prog[j].k = "if" /\ prog[j].part = "elif" /\ IfIsExpr(j)
          \/ prog[j].k = "catch" /\ prog[j - 1].k \in {"let", "ret"}

(* A break or continue that is compiled leaves or resumes the loop it is    *)
(* written in, through any nesting of match, select, if, catch and block of *)
(* the loop's own frame, except behind a value construct and on the paths   *)
(* of Unseen.                                                               *)
JumpHitsItsLoop ==
  /\ Built
  /\ Jump \in {"break", "continue"}
  /\ SourceLoop > SourceFrame
  /\ ~BehindValue(SourceLoop)
  /\ ~Unseen
  => Go[GoTarget].at = SourceLoop

(* A return, or the bail of a try, that is compiled leaves the frame it is  *)
(* written in (function, closure, scope or spawned task) and returns in     *)
(* that frame's form: a task's as an error, all others' as declared. Only a *)
(* jump behind a value construct is caught by its function literal.         *)
ReturnLeavesItsFrame ==
  /\ Built
  /\ Jump \in {"return", "try"}
  /\ ~BehindValue(SourceFrame)
  => /\ Go[GoFunc].at = SourceFrame
     /\ out.jump = "error" <=> SourceFrame \in Above({"spawn"})

=============================================================================
