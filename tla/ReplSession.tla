---------------------------- MODULE ReplSession ----------------------------
(***************************************************************************)
(* `aril repl` (cmd/aril/repl.go, repl_prompt.go): lines are gathered      *)
(* until the brackets balance, an input is classified and put in its slot  *)
(* of the session, the whole session is compiled and run again, and an     *)
(* input whose session does not compile is taken out again.                *)
(*                                                                         *)
(* An input is a record: [id] its text, [head] its first word ("call",     *)
(* "assign" and "expr" for the statements without a keyword), [name] what  *)
(* it declares or binds, [gives] the uses of that name it supports, [uses] *)
(* the uses it makes, [broken] that it does not compile wherever it stands,*)
(* [exits] that running it ends the program, [open] that it is typed on    *)
(* two lines, the second of which is the closing brace.                    *)
(***************************************************************************)
EXTENDS Naturals, Sequences, FiniteSets

CONSTANTS Inputs,
          Interactive,   \* a terminal: Ctrl-C drops a half-typed input
          MaxStmts, MaxDecls, MaxImports, MaxRejected, MaxLines

ASSUME BoundsAssumption == /\ {MaxStmts, MaxDecls, MaxImports, MaxRejected, MaxLines} \subseteq Nat
                           /\ Interactive \in BOOLEAN

VARIABLES running,     \* no :quit or end of input yet
          buf,         \* the lines of a half-typed input
          session,     \* [imports, decls, stmts], as entered
          lastChange,  \* what rollback undoes
          rejected,    \* inputs whose session did not compile
          screen       \* the values the last run printed

vars == <<running, buf, session, lastChange, rejected, screen>>

DeclHeads    == {"func", "class", "type", "interface"}
ControlHeads == {"if", "for", "while", "match", "return", "break", "continue"}
Binders      == {"let", "var"}
AutoImports  == {"fmt", "reflect"}

Slots    == {"imports", "decls", "stmts"}
Empty    == [imports |-> <<>>, decls |-> <<>>, stmts |-> <<>>]
NoChange == [kind |-> "appended", slot |-> "none"]
-----------------------------------------------------------------------------
(* Lines and inputs.  A line is the text of an input that is complete, the *)
(* first line of one that is not, or a closing brace.                      *)

ById(t) == CHOOSE i \in Inputs : i.id = t
IsText(l) == \E i \in Inputs : i.id = l
Opens(l) == IsText(l) /\ ById(l).open
Closes(l) == l = "}"

\* The brackets of the lines are closed, or closed once too often.
Balanced(lines) ==
  Cardinality({k \in DOMAIN lines : Opens(lines[k])}) <= Cardinality({k \in DOMAIN lines : Closes(lines[k])})

\* A text that begins like no input.
Unparsable == [id |-> "mixed", head |-> "expr", name |-> "", gives |-> {}, uses |-> {},
               broken |-> TRUE, exits |-> FALSE, open |-> FALSE]

\* A text that begins like an input and goes on otherwise.
Mixed(i) == [i EXCEPT !.id = "mixed", !.broken = TRUE]

\* The lines as an input: one of [Inputs], or a text that starts like its
\* first line and does not compile.
InputOf(lines) ==
  IF ~IsText(lines[1]) THEN Unparsable
  ELSE LET i == ById(lines[1]) IN
       IF lines = IF i.open THEN <<i.id, "}">> ELSE <<i.id>> THEN i
       ELSE Mixed(i)

\* What the lines typed may be.
Texts == Inputs \cup {Unparsable} \cup {Mixed(i) : i \in Inputs}
-----------------------------------------------------------------------------
(* The session as a program.                                               *)

Names(is, heads) == {is[k].name : k \in {l \in DOMAIN is : is[l].head \in heads}}
Gives(is)        == UNION {is[k].gives : k \in DOMAIN is}
Distinct(is, heads) ==
  \A k, l \in DOMAIN is :
     is[k].head \in heads /\ is[l].head \in heads /\ is[k].name = is[l].name => k = l

\* The packages the rendered program imports: what the user imported, and
\* fmt and reflect when something mentions them.
EnsureImports(p) ==
  Gives(p.imports) \cup
  (AutoImports \cap UNION {i.uses : i \in {p.decls[k] : k \in DOMAIN p.decls} \cup {p.stmts[k] : k \in DOMAIN p.stmts}})

\* The rendered session compiles: nothing in it is wrong by itself, no name
\* is declared twice, and each use is of something declared, imported or
\* bound by an earlier statement.
Compiles(p) ==
  LET global == Gives(p.decls) \cup EnsureImports(p)
      Local(k) == UNION {p.stmts[l].gives : l \in 1 .. k - 1}
  IN /\ \A s \in Slots : \A k \in DOMAIN p[s] : ~p[s][k].broken
     /\ Distinct(p.decls, DeclHeads)
     /\ Distinct(p.stmts, Binders)
     /\ \A k \in DOMAIN p.decls : p.decls[k].uses \subseteq global
     /\ \A k \in DOMAIN p.stmts : p.stmts[k].uses \subseteq global \cup Local(k)

AutoPrints(i) == i.head = "expr"

LastAutoPrint(stmts) ==
  LET autos == {k \in DOMAIN stmts : AutoPrints(stmts[k])}
  IN {k \in autos : \A l \in autos : l <= k}

\* Whether the statement at k is rendered as a print of its value; the other
\* expressions are rendered as `let _ = (...)`.
RenderStmt(stmts, k) == k \in LastAutoPrint(stmts)

\* The places whose value a run of the program prints: it runs from the
\* start, up to the first statement that exits.
Printed(stmts) ==
  {k \in DOMAIN stmts : RenderStmt(stmts, k) /\ \A l \in 1 .. k : ~stmts[l].exits}
-----------------------------------------------------------------------------
(* The session.                                                            *)

FindDecl(decls, i) == {k \in DOMAIN decls : decls[k].head = i.head /\ decls[k].name = i.name}

OwnedByRepl(i) == i.head = "func" /\ i.name = "main"

\* What `add` refuses before it changes anything.
Refused(i) == i \in rejected \/ OwnedByRepl(i) \/ i.head \in ControlHeads

Slot(i) == CASE i.head = "import"     -> "imports"
             [] i.head \in DeclHeads  -> "decls"
             [] OTHER                 -> "stmts"

Replaces(i) == i.head \in DeclHeads /\ FindDecl(session.decls, i) # {}

First(S) == CHOOSE k \in S : \A l \in S : k <= l

\* The session with the input in its slot, and how to undo it.
Added(i) ==
  IF Replaces(i)
  THEN LET k == First(FindDecl(session.decls, i)) IN
       [session |-> [session EXCEPT !.decls[k] = i],
        change  |-> [kind |-> "replaced", slot |-> "decls", index |-> k, prev |-> session.decls[k]]]
  ELSE [session |-> [session EXCEPT ![Slot(i)] = Append(@, i)],
        change  |-> [kind |-> "appended", slot |-> Slot(i)]]

DropLast(s) == SubSeq(s, 1, Len(s) - 1)

\* Mutant of Rollback: a replaced declaration is dropped, not restored.
RollbackTruncates(p, c) ==
  IF c.slot = "none" THEN p ELSE [p EXCEPT ![c.slot] = DropLast(@)]

Rollback(p, c) ==
  CASE c.kind = "replaced"                     -> [p EXCEPT !.decls[c.index] = c.prev]
    [] c.kind = "appended" /\ c.slot \in Slots -> [p EXCEPT ![c.slot] = DropLast(@)]
    [] OTHER                                   -> p

\* Mutant of NeedsRun: only a new statement has the session compiled.
NeedsRunForStatements(p, c) == c.slot = "stmts"

\* Imports and declarations alone have nothing to run.
NeedsRun(p, c) == p.stmts # <<>>

Room(i) == Len(session[Slot(i)]) < (CASE Slot(i) = "imports" -> MaxImports
                                      [] Slot(i) = "decls"   -> MaxDecls
                                      [] OTHER               -> MaxStmts)
-----------------------------------------------------------------------------
Init == /\ running = TRUE
        /\ buf = <<>>
        /\ session = Empty
        /\ lastChange = NoChange
        /\ rejected = {}
        /\ screen = <<>>

\* One more line, the brackets still open.
Continue(l) == /\ ~Balanced(Append(buf, l))
               /\ Len(buf) < MaxLines
               /\ buf' = Append(buf, l)
               /\ UNCHANGED <<running, session, lastChange, rejected, screen>>

\* The line that completes an input, [i] being the input.
Completes(l, i) == /\ Balanced(Append(buf, l))
                   /\ i = InputOf(Append(buf, l))
                   /\ buf' = <<>>
                   /\ UNCHANGED running

Refuse(i) == /\ Refused(i)
             /\ screen' = <<>>
             /\ UNCHANGED <<session, lastChange, rejected>>

\* The input is kept: nothing is run, or the session compiles and runs, to
\* whatever end.
Keep(i) == LET a == Added(i) IN
           /\ ~Refused(i)
           /\ Room(i) \/ Replaces(i)
           /\ NeedsRun(a.session, a.change) => Compiles(a.session)
           /\ session' = a.session
           /\ lastChange' = a.change
           /\ screen' = IF NeedsRun(a.session, a.change)
                        THEN [k \in Printed(a.session.stmts) |-> a.session.stmts[k].id] ELSE <<>>
           /\ UNCHANGED rejected

\* The session does not compile: markRejected and rollback.
TakeOut(i) == LET a == Added(i) IN
              /\ ~Refused(i)
              /\ Cardinality(rejected) < MaxRejected
              /\ NeedsRun(a.session, a.change) /\ ~Compiles(a.session)
              /\ session' = Rollback(a.session, a.change)
              /\ lastChange' = NoChange
              /\ rejected' = rejected \cup {i}
              /\ screen' = <<>>

Type(l) == LET i == InputOf(Append(buf, l)) IN
           Continue(l) \/ (Completes(l, i) /\ (Refuse(i) \/ Keep(i) \/ TakeOut(i)))
-----------------------------------------------------------------------------
(* Meta-commands, at the start of an input only, and the keyboard.         *)

AtStart == buf = <<>> /\ UNCHANGED buf

MetaReset == /\ AtStart
             /\ session' = Empty
             /\ lastChange' = NoChange
             /\ rejected' = {}
             /\ screen' = <<>>
             /\ UNCHANGED running

MetaResetMain == /\ AtStart
                 /\ session' = [session EXCEPT !.stmts = <<>>]
                 /\ rejected' = {}
                 /\ screen' = <<>>
                 /\ UNCHANGED <<running, lastChange>>

\* `:type` and `:inspect`: one more statement in this run only, and no
\* expression of the session prints.
OneShot(i) == LET p == [session EXCEPT !.stmts = Append(@, i)]
                  n == Len(p.stmts) IN
              /\ AtStart
              /\ AutoPrints(i)
              /\ screen' = IF Compiles(p) /\ \A k \in 1 .. n : ~p.stmts[k].exits
                           THEN [k \in {n} |-> i.id] ELSE <<>>
              /\ UNCHANGED <<running, session, lastChange, rejected>>

\* `:quit` at the start of an input, or the end of the input stream.
Quit == running' = FALSE /\ UNCHANGED <<buf, session, lastChange, rejected, screen>>

CtrlC == /\ Interactive
         /\ buf' = <<>>
         /\ UNCHANGED <<running, session, lastChange, rejected, screen>>

Lines == {i.id : i \in Inputs} \cup {"}"}

Meta == MetaReset \/ MetaResetMain \/ (\E i \in Inputs : OneShot(i)) \/ Quit \/ CtrlC
Next == running /\ (Meta \/ \E l \in Lines : Type(l))
Spec == Init /\ [][Next]_vars
-----------------------------------------------------------------------------
(* Properties.                                                             *)

\* A session is a program that only a kept input or a reset changes: an input
\* that is taken out leaves every declaration, also the one it had replaced,
\* as it was.
Program == INSTANCE ReplProgram WITH program <- session, Inputs <- Texts
RefinesProgram == Program!Spec

\* Once there are statements, the session that each later input is added to
\* compiles: no input, refused, taken out, replaced or typed after a reset,
\* leaves one behind that makes the next innocent input fail.
SessionCompiles == session.stmts # <<>> => Compiles(session)

=============================================================================
