---------------------------- MODULE ReplProgram ----------------------------
(***************************************************************************)
(* What `aril repl` promises (docs/rfcs/0003-repl.md): a session is a      *)
(* program, and an input either becomes part of it, taking the place of    *)
(* the declaration it shadows, or leaves it as it was.  Nothing else but a *)
(* reset changes it.                                                       *)
(***************************************************************************)
EXTENDS Naturals, Sequences

CONSTANTS Inputs,        \* the inputs a user may type
          DeclHeads,     \* the first words of a top-level declaration
          Compiles(_)    \* whether a program compiles

VARIABLE program         \* [imports, decls, stmts]: sequences of inputs

Empty == [imports |-> <<>>, decls |-> <<>>, stmts |-> <<>>]

Shadowed(p, i) == {k \in DOMAIN p.decls : p.decls[k].head = i.head /\ p.decls[k].name = i.name}

Replaced(decls, ks, i) == [k \in DOMAIN decls |-> IF k \in ks THEN i ELSE decls[k]]

With(p, i) ==
  CASE i.head = "import" -> [p EXCEPT !.imports = Append(@, i)]
    [] i.head \in DeclHeads /\ Shadowed(p, i) # {} ->
         [p EXCEPT !.decls = Replaced(@, Shadowed(p, i), i)]
    [] i.head \in DeclHeads /\ Shadowed(p, i) = {} -> [p EXCEPT !.decls = Append(@, i)]
    [] OTHER -> [p EXCEPT !.stmts = Append(@, i)]

Init == program = Empty

\* A program without statements has nothing to run and is not compiled.
Accept(i) == /\ With(program, i).stmts # <<>> => Compiles(With(program, i))
             /\ program' = With(program, i)

Reset == program' = Empty
ResetMain == program' = [program EXCEPT !.stmts = <<>>]

Next == Reset \/ ResetMain \/ \E i \in Inputs : Accept(i)
Spec == Init /\ [][Next]_program
=============================================================================
