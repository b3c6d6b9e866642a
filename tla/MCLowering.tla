----------------------------- MODULE MCLowering -----------------------------
(* What is lowered is a match or a path down to a jump (LoweredBodies), or   *)
(* the expressions of one statement (TryLowering): while the one is written, checked and emitted, the others  *)
(* stay as they are at first.                                                *)
EXTENDS LoweredBodies, TLC

CONSTANT MaxNodes      \* bound: nodes of the statement's expressions

ASSUME BoundAssumption == {MaxDepth, MaxNodes} \subseteq Nat \ {0}

(* type S = | A(n: int) | b                                                  *)
PayloadAndLower == <<"A", "b">>

AllSubjects == {<<"sum">>, <<"option">>, <<"bool">>, <<"int">>,
                <<"sum", "bool">>, <<"option", "bool">>}

VARIABLES stack,       \* TryLowering: the expressions parsed so far
          form,        \* the statement, once it is complete
          outcome      \* its verdict: "parsing", "emitted" or "refused"

path == <<prog, unit, others, progress, at, out>>
statement == <<stack, form, outcome>>

Tries == INSTANCE TryLowering WITH verdict <- outcome

InitEither == Init /\ Paths!Init /\ Tries!Init

NoArms == arms = <<>> /\ subject = <<"bool">>
NoPath == prog = <<>> /\ unit
NoStatement == stack = <<>>

NextEither ==
  \/ NoPath /\ NoStatement /\ Next /\ UNCHANGED <<path, statement>>
  \/ NoArms /\ NoStatement /\ Paths!Next /\ UNCHANGED <<vars, statement>>
  \/ NoArms /\ NoPath /\ Tries!Next /\ UNCHANGED <<vars, path>>

SpecEither == InitEither /\ [][NextEither]_<<vars, path, statement>>

(* A statement that is emitted does what the source does, in its order, at  *)
(* whichever of its tries it ends (TryLowering).                            *)
EffectsInOrder == Tries!EffectsInOrder
=============================================================================
