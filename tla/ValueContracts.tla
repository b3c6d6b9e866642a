--------------------------- MODULE ValueContracts ---------------------------
(***************************************************************************)
(* Value contracts at run time, under --contracts=panic (codegen/          *)
(* contract.go): the checks that surround the body of a contracted         *)
(* function f, follow each method m of a class with an invariant and the   *)
(* construction of its object, and end each iteration of a labelled loop.  *)
(*                                                                         *)
(* A predicate may call contracted functions itself.  One package-level    *)
(* flag keeps the checks of these calls from recurring, and all goroutines *)
(* share it.  An access to the flag is atomic: with one location to read   *)
(* and write, what a data race may show of it is some order of accesses.   *)
(*                                                                         *)
(* A panic is not recovered but by the deferred checks, which raise it     *)
(* again: it ends the process.                                             *)
(***************************************************************************)
EXTENDS Naturals, Sequences, FiniteSets

CONSTANTS Caller,      \* the goroutines that call
          Programs,    \* what the expression of each clause calls, or "none"
          MaxOpen      \* bound: calls open at a time

Clause == {"entry", "requires", "ensures", "loop", "invariant"}
Callee == {"f", "m"}

\* The clauses whose check the flag guards; loop invariants are checked and
\* entry bindings evaluated without it.
Guarded == {"requires", "ensures", "invariant"}

VARIABLES calls,       \* the program
          inContract,  \* _arilInContract
          stack,       \* each goroutine's frames, outermost first
          panic,       \* what panics on it, or "none"
          made,        \* the object: "none", "private" to its literal, "shared"
          holds,       \* whether the object satisfies its invariant
          died,       \* what the process died of, or "none"
          overlapped,  \* two goroutines have been in a check at a time, since there was none
          bypassed     \* the object was changed, or left, past its checks

vars == <<calls, inContract, stack, panic, made, holds, died, overlapped, bypassed>>
object == <<made, holds, bypassed>>
checking == <<inContract, overlapped>>
panics == <<panic, died>>

\* A frame is in its body or at a clause; stage is how far the check is.
Frame(fn, at, stage) == [fn |-> fn, at |-> at, stage |-> stage]

Started(fn) == CASE fn = "f"   -> Frame(fn, "entry", "eval")
                 [] fn = "m"   -> Frame(fn, "body", "run")
                 [] fn = "new" -> Frame(fn, "invariant", "test")

Init == /\ calls \in Programs
        /\ inContract = FALSE
        /\ stack = [g \in Caller |-> <<>>]
        /\ panic = [g \in Caller |-> "none"] /\ died = "none"
        /\ made = "none" /\ holds = TRUE
        /\ overlapped = FALSE /\ bypassed = FALSE

Runs(g) == died = "none" /\ panic[g] = "none"
Top(g) == stack[g][Len(stack[g])]
In(g, at, stage) == stack[g] # <<>> /\ Top(g).at = at /\ Top(g).stage = stage
Open == {c \in Caller \X (1 .. MaxOpen) : c[2] <= Len(stack[c[1]])}
Room == Cardinality(Open) < MaxOpen
CanCall(g) == stack[g] = <<>> \/ In(g, "body", "run")

Push(g, fr) == stack' = [stack EXCEPT ![g] = Append(@, fr)]
Pop(g) == stack' = [stack EXCEPT ![g] = SubSeq(@, 1, Len(@) - 1)]
Move(g, at, stage) == stack' = [stack EXCEPT ![g][Len(stack[g])] = Frame(Top(g).fn, at, stage)]

\* A check that is under way: the flag has been set for it and not reset since.
Checks(fr) == fr.at \in Guarded /\ fr.stage \in {"eval", "called", "passed", "failed"}
InCheck(g) == \E i \in DOMAIN stack[g] : Checks(stack[g][i])

Panics(g, what) == panic' = [panic EXCEPT ![g] = what] /\ UNCHANGED died
-----------------------------------------------------------------------------
(* Bodies. *)

Call(g, fn) == /\ Runs(g) /\ CanCall(g) /\ Room
               /\ fn = "m" => made = "shared"
               /\ Push(g, Started(fn))
               /\ UNCHANGED <<calls, checking, panics, object>>

\* A brace literal: the object is checked before anyone else has it, but for
\* one that a predicate makes (and, as it is to be pure, does not leave behind).
Construct(g) == /\ Runs(g) /\ CanCall(g) /\ Room
                /\ made = "none" /\ made' = "private"
                /\ holds' \in BOOLEAN
                /\ bypassed' = (bypassed \/ InCheck(g))
                /\ Push(g, Started("new"))
                /\ UNCHANGED <<calls, checking, panics>>

\* E1106: the fields are assigned in the methods only, not (as predicates
\* are to be pure) in a predicate, which nothing checks; the method's
\* invariant may fail meanwhile.
Mutate(g) == /\ Runs(g) /\ In(g, "body", "run") /\ Top(g).fn = "m"
             /\ holds' \in BOOLEAN \ {holds}
             /\ bypassed' = (bypassed \/ InCheck(g))
             /\ UNCHANGED <<calls, checking, stack, panics, made>>

\* A closure made in a method assigns a field after the method has returned.
CallClosure(g) == /\ Runs(g) /\ CanCall(g) /\ made = "shared"
                  /\ holds' \in BOOLEAN \ {holds}
                  /\ bypassed' = TRUE
                  /\ UNCHANGED <<calls, checking, stack, panics, made>>

\* The end of an iteration of f's labelled loop; a `continue` goes past it.
Iterate(g) == /\ Runs(g) /\ In(g, "body", "run") /\ Top(g).fn = "f"
              /\ Move(g, "loop", "eval")
              /\ UNCHANGED <<calls, checking, panics, object>>

BodyPanics(g) == /\ Runs(g) /\ In(g, "body", "run")
                 /\ Panics(g, "body")
                 /\ UNCHANGED <<calls, checking, stack, object>>

Deferred(fn) == IF fn = "f" THEN "ensures" ELSE "invariant"

\* Mutant of Return: the check is at the end of the body, not deferred.
ReturnEarly(g) == /\ Runs(g) /\ In(g, "body", "run")
                  /\ Move(g, Deferred(Top(g).fn), "recover") \/ Pop(g)
                  /\ UNCHANGED <<calls, checking, panics, object>>

\* Any return runs the deferred check.
Return(g) == /\ Runs(g) /\ In(g, "body", "run")
             /\ Move(g, Deferred(Top(g).fn), "recover")
             /\ UNCHANGED <<calls, checking, panics, object>>
-----------------------------------------------------------------------------
(* Checks. *)

\* Where a frame goes on whose check passed, or was skipped.
Passed(g) ==
  CASE Top(g).at = "entry"             -> Move(g, "requires", "test") /\ UNCHANGED made
    [] Top(g).at \in {"requires", "loop"} -> Move(g, "body", "run") /\ UNCHANGED made
    [] OTHER -> Pop(g) /\ made' = IF Top(g).fn = "new" THEN "shared" ELSE made

AtTest(g) == Runs(g) /\ stack[g] # <<>> /\ Top(g).stage = "test"

\* Mutant of Test: the flag is not looked at.
TestNothing(g) == /\ AtTest(g)
                  /\ Move(g, Top(g).at, "enter")
                  /\ UNCHANGED <<calls, checking, panics, object>>

\* emitContractCheck: `if !_arilInContract {`.  A check that is skipped for
\* another goroutine's sake is one that is missed.
Test(g) == /\ AtTest(g)
           /\ IF inContract THEN Passed(g) /\ bypassed' = (bypassed \/ ~InCheck(g))
                            ELSE Move(g, Top(g).at, "enter") /\ UNCHANGED <<made, bypassed>>
           /\ UNCHANGED <<calls, checking, panics, holds>>

Enter(g) == /\ Runs(g) /\ stack[g] # <<>> /\ Top(g).stage = "enter"
            /\ inContract' = TRUE
            /\ overlapped' = (overlapped \/ \E h \in Caller \ {g} : InCheck(h))
            /\ Move(g, Top(g).at, "eval")
            /\ UNCHANGED <<calls, panics, object>>

\* The expression's call comes first; a method takes an object that is there.
Asks(g) == calls[Top(g).at] = "f" \/ (calls[Top(g).at] = "m" /\ made = "shared")

Ask(g) == /\ Runs(g) /\ stack[g] # <<>> /\ Top(g).stage = "eval"
          /\ Asks(g) /\ Room
          /\ stack' = [stack EXCEPT ![g] =
                         Append([@ EXCEPT ![Len(@)].stage = "called"], Started(calls[Top(g).at]))]
          /\ UNCHANGED <<calls, checking, panics, object>>

Answered(g) == /\ Runs(g) /\ stack[g] # <<>>
               /\ \/ Top(g).stage = "called"
                  \/ Top(g).stage = "eval" /\ ~Asks(g)

\* emitContractPrologue's entry bindings and emitLoopInvariants: no guard.
Evaluate(g) == /\ Answered(g) /\ Top(g).at \notin Guarded
               /\ \/ Passed(g) /\ UNCHANGED panics
                  \/ Panics(g, Top(g).at) /\ UNCHANGED <<stack, made>>
               /\ UNCHANGED <<calls, checking, holds, bypassed>>

\* `_arilPass := (pred)`; an invariant tells whether the object satisfies it.
Judge(g) == /\ Answered(g) /\ Top(g).at \in Guarded
            /\ \E verdict \in IF Top(g).at = "invariant" THEN {holds} ELSE BOOLEAN :
                  Move(g, Top(g).at, IF verdict THEN "passed" ELSE "failed")
            /\ UNCHANGED <<calls, checking, panics, object>>

\* A predicate that panics itself leaves the flag set.
PredicatePanics(g) == /\ Answered(g) /\ Top(g).at \in Guarded
                      /\ Panics(g, "predicate")
                      /\ UNCHANGED <<calls, checking, stack, object>>

AtVerdict(g) == Runs(g) /\ stack[g] # <<>> /\ Top(g).stage \in {"passed", "failed"}
LastCheck(g) == \A h \in Caller : \A i \in DOMAIN stack[h] :
                  Checks(stack[h][i]) => h = g /\ i = Len(stack[g])

\* `_arilInContract = false; if !_arilPass { panic }`.
Reset(g) == /\ AtVerdict(g)
            /\ inContract' = FALSE
            /\ overlapped' = (overlapped /\ ~LastCheck(g))
            /\ IF Top(g).stage = "passed" THEN Passed(g) /\ UNCHANGED panics
               ELSE Panics(g, Top(g).at) /\ Move(g, Top(g).at, "over") /\ UNCHANGED made
            /\ UNCHANGED <<calls, holds, bypassed>>
-----------------------------------------------------------------------------
(* Panics. *)

\* A frame that panics in its body or at its loop has deferred a check.
Unwind(g) == /\ died = "none" /\ panic[g] # "none" /\ stack[g] # <<>>
             /\ Top(g).stage # "recover"
             /\ IF Top(g).at \in {"body", "loop"}
                THEN Move(g, Deferred(Top(g).fn), "recover") ELSE Pop(g)
             /\ UNCHANGED <<calls, checking, panics, object>>

\* emitDeferredCheckBlock: `if r := recover(); r != nil { panic(r) }`.
Recover(g) == /\ died = "none" /\ stack[g] # <<>> /\ Top(g).stage = "recover"
              /\ IF panic[g] = "none" THEN Move(g, Top(g).at, "test") ELSE Pop(g)
              /\ UNCHANGED <<calls, checking, panics, object>>

Die(g) == /\ died = "none" /\ panic[g] # "none" /\ stack[g] = <<>>
          /\ died' = panic[g]
          /\ UNCHANGED <<calls, checking, stack, panic, object>>

Next == \E g \in Caller :
          \/ \E fn \in Callee : Call(g, fn)
          \/ Construct(g) \/ Mutate(g) \/ CallClosure(g) \/ Iterate(g) \/ BodyPanics(g) \/ Return(g)
          \/ Test(g) \/ Enter(g) \/ Ask(g) \/ Evaluate(g) \/ Judge(g) \/ PredicatePanics(g)
          \/ Reset(g)
          \/ Unwind(g) \/ Recover(g) \/ Die(g)

Spec == Init /\ [][Next]_vars
-----------------------------------------------------------------------------
(* Properties. *)

\* codegen.go:302: no check of a call that a predicate makes recurs, so at
\* most one is open on a goroutine; and the flag comes down again, so checks
\* are skipped only while there is one.  Callers that check at the same
\* time reset it for one another, but the harm ends with the last of them;
\* a predicate's own panic leaves it set, but that ends the process.
GuardIsTight ==
  /\ ~overlapped => \A g \in Caller : \A i, j \in DOMAIN stack[g] :
                     Checks(stack[g][i]) /\ Checks(stack[g][j]) => i = j
  /\ inContract => \E g \in Caller : InCheck(g) \/ panic[g] # "none"

\* Outside of its methods an object satisfies its invariant, whatever calls
\* what, returns early or breaks the invariant for a while, unless a check
\* was skipped for another goroutine's, a predicate changed the object, or a
\* closure did that outlived its method.
Inside == \E g \in Caller : \E i \in DOMAIN stack[g] : stack[g][i].fn = "m"

ObjectHolds ==
  made = "shared" /\ ~bypassed /\ ~Inside /\ (\A g \in Caller : panic[g] = "none") => holds
=============================================================================
