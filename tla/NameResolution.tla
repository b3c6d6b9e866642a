--------------------------- MODULE NameResolution ---------------------------
(***************************************************************************)
(* The names of a function body: what the checker resolves each of them to *)
(* (sema/resolve.go) and what the Go compiler makes of the name that is    *)
(* emitted for it (codegen).  The emitter writes most names as they are,   *)
(* so the scopes of the Go program have to agree with Aril's, though Go    *)
(* has one block where Aril often has two scopes, the emitter moves some   *)
(* expressions into another block, and Go refuses what Aril allows: a      *)
(* variable that is never read.                                            *)
(*                                                                         *)
(* A body is written from its start to its end, one step per construct.    *)
(* The guards are the checker's: every state is the beginning of a body    *)
(* it accepts.                                                             *)
(***************************************************************************)
EXTENDS Naturals, Sequences, FiniteSets, SequencesExt

CONSTANTS Name,        \* the names, strings
          MaxLocals,   \* bound: bindings below the parameters
          MaxUses,     \* bound: reads and assignments
          MaxOpen      \* bound: constructs open at a time

VARIABLES world,     \* what is declared outside of the body, and the flags
          scopes,    \* Aril: the chain of scopes, innermost last
          blocks,    \* Go: the chain of blocks
          open,      \* the constructs that are not closed
          locals, uses,
          used,      \* Symbol.Used
          predicated,\* Symbol.UsedInContract
          assigned,  \* bindings an assignment was resolved to
          read,      \* Go: variables that are read
          astray,    \* uses that Go resolves to another binding
          collided,  \* Go: redeclarations in one block
          unread     \* Go: "declared and not used"

vars == <<world, scopes, blocks, open, locals, uses, used, predicated, assigned, read, astray, collided, unread>>
flags == <<used, predicated, assigned, read, astray>>

Binding(by, n, no) == [by |-> by, name |-> n, no |-> no]
Nothing == Binding("nothing", "", 0)
NoName == ""

Empty == [n \in Name |-> Nothing]
Frame(by, ns) == [n \in Name |-> IF n \in ns THEN Binding(by, n, 0) ELSE Nothing]

Lookup(chain, n) ==
  LET at == SelectLastInSeq(chain, LAMBDA f : f[n] # Nothing)
  IN  IF at = 0 THEN Nothing ELSE chain[at][n]

Resolve(n) == Lookup(scopes, n)

Put(chain, b) == [chain EXCEPT ![Len(chain)][b.name] = b]
Pop(chain, k) == SubSeq(chain, 1, Len(chain) - k)
Top == open[Len(open)]
-----------------------------------------------------------------------------
(* The emission of a name. *)

\* Mutant of Emitted: a field is told by its name, not by its symbol.
EmittedByName(n, sym, chain) ==
  CASE world.outer[n] = "variant" -> Binding("variant", n, 0)
    [] world.outer[n] = "field"  -> Binding("field", n, 0)
    [] OTHER                        -> Lookup(chain, n)

\* emitExpr: a name of a variant is the variant, a name whose symbol is a
\* field goes through the receiver; any other is for Go to resolve.
Emitted(n, sym, chain) ==
  CASE world.outer[n] = "variant" -> Binding("variant", n, 0)
    [] sym.by = "field"             -> sym
    [] OTHER                        -> Lookup(chain, n)

\* The name n, whose symbol is sym, is emitted at a place of the Go chain.
Strays(n, sym, chain, place) ==
  LET go == Emitted(n, sym, chain)
  IN  IF go = sym THEN {} ELSE {[place |-> place, aril |-> sym, go |-> go]}
-----------------------------------------------------------------------------
\* What a name is before the body; only a method has fields.
Outer == {"none", "let", "variant", "field", "param"}

Outside(outer, by) == {n \in Name : outer[n] = by}

Init == /\ \E outer \in [Name -> Outer], contracts \in {"off", "panic"} :
             LET top == Frame("let", Outside(outer, "let"))
                 params == Frame("param", Outside(outer, "param"))
             IN  /\ Outside(outer, "field") # {} => contracts = "off"
                 /\ world = [outer |-> outer, contracts |-> contracts]
                 /\ scopes = << [n \in Name |-> IF outer[n] = "variant" THEN Binding("variant", n, 0) ELSE top[n]],
                                Frame("field", Outside(outer, "field")), params, Empty >>
                 /\ blocks = <<top, params>>
                 /\ open = << [scopes |-> 2, blocks |-> 1, tail |-> TRUE, inlined |-> FALSE, ended |-> FALSE,
                               invariant |-> NoName, symbol |-> Nothing] >>
        /\ locals = 0 /\ uses = 0
        /\ used = {} /\ predicated = {} /\ assigned = {} /\ read = {}
        /\ astray = {} /\ collided = {} /\ unread = {}

(* Statements can be added to a block until its trailing value is there;    *)
(* a body that Go refuses, or reads otherwise, is not continued.            *)
CanGrow == open # <<>> /\ ~Top.ended /\ astray = {} /\ collided = {} /\ unread = {}
CanUse == CanGrow /\ uses < MaxUses

\* resolveExpr marks the symbol; an unknown name is E0103.
Use(n) ==
  /\ CanUse
  /\ Resolve(n) # Nothing
  /\ uses' = uses + 1
  /\ used' = used \cup {Resolve(n)}
  /\ read' = read \cup {Emitted(n, Resolve(n), blocks)}
  /\ astray' = astray \cup Strays(n, Resolve(n), blocks, "plain")
  /\ UNCHANGED <<world, scopes, blocks, open, locals, predicated, assigned, collided, unread>>

\* An assignment; to a `let` it is E0216. The target is marked Used, while
\* Go does not count an assignment as a use.
Assignable(b) == b.by \notin {"nothing", "let", "tuple", "chan", "variant"}

Assign(n) ==
  /\ CanUse
  /\ Assignable(Resolve(n))
  /\ uses' = uses + 1
  /\ used' = used \cup {Resolve(n)}
  /\ assigned' = assigned \cup {Resolve(n)}
  /\ astray' = astray \cup Strays(n, Resolve(n), blocks, "plain")
  /\ UNCHANGED <<world, scopes, blocks, open, locals, predicated, read, collided, unread>>

(* A binding enters the innermost scope, and the innermost Go block of the  *)
(* code that is emitted for it.                                             *)
Collides(b, block) ==
  IF block[b.name] = Nothing THEN {}
  ELSE {[first |-> block[b.name], second |-> b, inlined |-> Top.inlined]}

\* LetStmt and VarStmt, the names of a tuple pattern one after the other; a
\* name its block already has is E0222.
Declare(by, n) ==
  LET b == Binding(by, n, locals + 1)
  IN  /\ CanGrow
      /\ locals < MaxLocals /\ locals' = locals + 1
      /\ scopes[Len(scopes)][n] = Nothing
      /\ scopes' = Put(scopes, b)
      /\ blocks' = Put(blocks, b)
      /\ collided' = collided \cup Collides(b, blocks[Len(blocks)])
      /\ UNCHANGED <<world, open, uses, flags, unread>>

Opened(nScopes, nBlocks, tail, inlined) ==
  [scopes |-> nScopes, blocks |-> nBlocks, tail |-> tail, inlined |-> inlined, ended |-> FALSE,
   invariant |-> NoName, symbol |-> Nothing]

CanOpen == CanGrow /\ Len(open) < MaxOpen
Bare(k) == [i \in 1..k |-> Empty]
Holding(b) == [Empty EXCEPT ![b.name] = b]

\* Mutant of OpenBlock: the statements of a block are emitted in place.
OpenBlockBare ==
  /\ CanOpen
  /\ scopes' = scopes \o Bare(1)
  /\ open' = Append(open, Opened(1, 0, FALSE, FALSE))
  /\ UNCHANGED <<world, blocks, locals, uses, flags, collided, unread>>

\* A block, a branch of an `if`, a scope, a spawn: a scope, and a Go block.
OpenBlock ==
  /\ CanOpen
  /\ scopes' = scopes \o Bare(1)
  /\ blocks' = blocks \o Bare(1)
  /\ open' = Append(open, Opened(1, 1, FALSE, FALSE))
  /\ UNCHANGED <<world, locals, uses, flags, collided, unread>>

Ending == [open EXCEPT ![Len(open)].ended = TRUE]

\* emitBlockTail: the trailing block of a function's value is emitted in the
\* block it ends; emitIfExprTail: the branches of a trailing `if` are not.
OpenTailBlock ==
  /\ CanOpen /\ Top.tail
  /\ scopes' = scopes \o Bare(1)
  /\ open' = Append(Ending, Opened(1, 0, TRUE, TRUE))
  /\ UNCHANGED <<world, blocks, locals, uses, flags, collided, unread>>

OpenTailBranch ==
  /\ CanOpen /\ Top.tail
  /\ scopes' = scopes \o Bare(1)
  /\ blocks' = blocks \o Bare(1)
  /\ open' = Append(Ending, Opened(1, 1, TRUE, FALSE))
  /\ UNCHANGED <<world, locals, uses, flags, collided, unread>>
-----------------------------------------------------------------------------
(* Constructs that bind a name, and loops. *)

CanBind == CanOpen /\ locals < MaxLocals /\ locals' = locals + 1

\* An arm of a match with a payload: the case of a Go switch binds it, the
\* block of the arm is a block of its own, or in tail position is not.
OpenArm(n, tail) ==
  LET b == Binding("arm", n, locals + 1)
  IN  /\ CanBind
      /\ tail => Top.tail
      /\ scopes' = scopes \o <<Holding(b)>> \o Bare(1)
      /\ blocks' = blocks \o <<Holding(b)>> \o Bare(IF tail THEN 0 ELSE 1)
      /\ open' = Append(IF tail THEN Ending ELSE open, Opened(2, IF tail THEN 1 ELSE 2, tail, tail))
      /\ UNCHANGED <<world, uses, flags, collided, unread>>

\* The handler of a `catch` and the case of a receive: their statements are
\* emitted in the Go block that binds the name.
OpenMerged(by, n) ==
  LET b == Binding(by, n, locals + 1)
  IN  /\ CanBind
      /\ scopes' = scopes \o <<Holding(b)>> \o Bare(1)
      /\ blocks' = blocks \o <<Holding(b)>>
      /\ open' = Append(open, Opened(2, 1, FALSE, FALSE))
      /\ UNCHANGED <<world, uses, flags, collided, unread>>

OpenCatch(n) == OpenMerged("catch", n)
OpenReceive(n) == OpenMerged("recv", n)

\* emitClosure: the block of a short closure is emitted in the function's,
\* or, for a value, as a function of its own.
OpenClosure(n, form) ==
  LET b == Binding("param", n, locals + 1)
  IN  /\ CanBind
      /\ scopes' = scopes \o <<Holding(b)>> \o Bare(IF form = "full" THEN 1 ELSE 2)
      /\ blocks' = blocks \o <<Holding(b)>> \o Bare(IF form = "short value" THEN 1 ELSE 0)
      /\ open' = Append(open, Opened(IF form = "full" THEN 2 ELSE 3,
                                     IF form = "short value" THEN 2 ELSE 1, form = "full", FALSE))
      /\ UNCHANGED <<world, uses, flags, collided, unread>>

\* resolveLoopInvariants: the names of the invariant of a labelled loop are
\* resolved before the loop's body, in the loop's scope.
Predicate(loop, chain, i) ==
  [loop EXCEPT !.invariant = i, !.symbol = IF i = NoName THEN Nothing ELSE Lookup(chain, i)]

CanPredicate(chain, i) ==
  i # NoName => Outside(world.outer, "field") = {} /\ Lookup(chain, i) # Nothing

Labelled(loop, chain, i) ==
  /\ CanPredicate(chain, i)
  /\ open' = Append(open, Predicate(loop, chain, i))
  /\ predicated' = IF i = NoName THEN predicated ELSE predicated \cup {Lookup(chain, i)}

OpenWhile(i) ==
  /\ CanOpen
  /\ Labelled(Opened(1, 1, FALSE, FALSE), scopes, i)
  /\ scopes' = scopes \o Bare(1)
  /\ blocks' = blocks \o Bare(1)
  /\ UNCHANGED <<world, locals, uses, used, assigned, read, astray, collided, unread>>

\* `for n in e`: the expression is outside of the loop's scope in both.
OpenFor(n, i) ==
  LET b == Binding("loop", n, locals + 1)
      inside == Append(scopes, Holding(b))
  IN  /\ CanBind
      /\ Labelled(Opened(2, 2, FALSE, FALSE), inside, i)
      /\ scopes' = inside \o Bare(1)
      /\ blocks' = blocks \o <<Holding(b)>> \o Bare(1)
      /\ UNCHANGED <<world, uses, used, assigned, read, astray, collided, unread>>

\* `for n in e..h`: `for n := e; n < h; n++`, so h is inside of Go's block.
OpenRange(n, h) ==
  LET b == Binding("counter", n, locals + 1)
      inside == Append(blocks, Holding(b))
      sym == Resolve(h)
  IN  /\ CanBind
      /\ h # NoName => CanUse /\ sym # Nothing
      /\ uses' = IF h = NoName THEN uses ELSE uses + 1
      /\ used' = IF h = NoName THEN used ELSE used \cup {sym}
      /\ read' = read \cup {b} \cup (IF h = NoName THEN {} ELSE {Emitted(h, sym, inside)})
      /\ astray' = astray \cup (IF h = NoName THEN {} ELSE Strays(h, sym, inside, "bound"))
      /\ scopes' = scopes \o <<Holding(b)>> \o Bare(1)
      /\ blocks' = inside \o Bare(1)
      /\ open' = Append(open, Opened(2, 2, FALSE, FALSE))
      /\ UNCHANGED <<world, predicated, assigned, collided, unread>>

\* `for (k, v) in m` over a map: the loop goes over m.Keys(), and the body
\* starts with v := m.At(k), for which m is emitted again.
OpenEntries(k, v, m) ==
  LET key == Binding("key", k, locals + 1)
      val == Binding("element", v, locals + 2)
      inside == Append(blocks, Holding(key))
      sym == Resolve(m)
  IN  /\ CanOpen /\ CanUse
      /\ locals + 1 < MaxLocals /\ locals' = locals + 2
      /\ k # v
      /\ sym # Nothing
      /\ uses' = uses + 1
      /\ used' = used \cup {sym}
      /\ read' = read \cup {key, Emitted(m, sym, blocks), Emitted(m, sym, inside)}
      /\ astray' = astray \cup Strays(m, sym, blocks, "plain") \cup Strays(m, sym, inside, "map")
      /\ scopes' = scopes \o <<[Holding(key) EXCEPT ![v] = val], Empty>>
      /\ blocks' = inside \o <<Holding(val)>>
      /\ open' = Append(open, Opened(2, 2, FALSE, FALSE))
      /\ UNCHANGED <<world, predicated, assigned, collided, unread>>
-----------------------------------------------------------------------------
(* The end of a construct. *)

Bound(frames) == UNION {{f[n] : n \in Name} \ {Nothing} : f \in ToSet(frames)}
Innermost(chain, k) == Bound(SubSeq(chain, Len(chain) - k + 1, Len(chain)))

\* reportUnusedLocals: E0221, for what a statement binds, channels aside.
UnusedLocals == {b \in Innermost(scopes, Top.scopes) : b.by \in {"let", "var", "tuple"}}
                  \ (used \cup predicated)

\* Mutant of Guarded: a name that the checker has marked is taken for read.
GuardedUnlessPredicated(b) ==
  \/ b.by \in {"arm", "catch", "loop", "element", "tuple"} /\ b \notin used \cup predicated
  \/ b.by \in {"let", "var", "chan"} /\ world.contracts = "off" /\ b \notin used /\ b \in predicated

\* Whether `_ = b` follows the binding: emitUnusedBindingGuard for patterns,
\* emitContractOnlyLocalGuard when predicates are not emitted.
Guarded(b) ==
  \/ b.by \in {"arm", "catch", "loop", "element", "tuple"} /\ b \notin used
  \/ b.by \in {"let", "var", "chan"} /\ world.contracts = "off" /\ b \notin used /\ b \in predicated

\* The invariant of a labelled loop is emitted at the end of its body.
ChecksInvariant == Top.invariant # NoName /\ world.contracts = "panic"

\* What nothing can refer to any more is forgotten.
Forget == LET live == Bound(scopes') \cup Bound(blocks')
          IN  used' = used \cap live /\ predicated' = predicated \cap live /\ assigned' = assigned \cap live

Close ==
  /\ open # <<>>
  /\ UnusedLocals = {}
  /\ astray' = astray \cup (IF ChecksInvariant THEN Strays(Top.invariant, Top.symbol, blocks, "invariant")
                                               ELSE {})
  /\ LET reads == read \cup (IF ChecksInvariant THEN {Emitted(Top.invariant, Top.symbol, blocks)} ELSE {})
     IN  /\ unread' = unread \cup {[of |-> b, assigned |-> b \in assigned] :
                        b \in {v \in Innermost(blocks, Top.blocks) :
                                 v.by # "param" /\ v \notin reads /\ ~Guarded(v)}}
         /\ read' = reads \cap Bound(Pop(blocks, Top.blocks))
  /\ scopes' = Pop(scopes, Top.scopes)
  /\ blocks' = Pop(blocks, Top.blocks)
  /\ open' = Pop(open, 1)
  /\ Forget
  /\ UNCHANGED <<world, locals, uses, collided>>

Next == \/ \E n \in Name : Use(n) \/ Assign(n)
        \/ \E n \in Name, by \in {"let", "var", "chan", "tuple"} : Declare(by, n)
        \/ OpenBlock \/ OpenTailBlock \/ OpenTailBranch
        \/ \E n \in Name, tail \in BOOLEAN : OpenArm(n, tail)
        \/ \E n \in Name : OpenCatch(n) \/ OpenReceive(n)
        \/ \E n \in Name, form \in {"full", "short unit", "short value"} : OpenClosure(n, form)
        \/ \E i \in Name \cup {NoName} : OpenWhile(i)
        \/ \E n \in Name, i \in Name \cup {NoName} : OpenFor(n, i)
        \/ \E n \in Name, h \in Name \cup {NoName} : OpenRange(n, h)
        \/ \E k, v, m \in Name : OpenEntries(k, v, m)
        \/ Close

Spec == Init /\ [][Next]_vars
-----------------------------------------------------------------------------
(* Properties. *)

\* A name reads in Go what it reads in Aril, except where the emitter moves
\* or repeats an expression inside of a binding (the bound of a range, the
\* map of a key-value loop, an invariant) and where a local hides a variant.
RefersAlike ==
  \A use \in astray : \/ use.place = "bound" /\ use.go.by = "counter"
                      \/ use.place = "map" /\ use.go.by = "key"
                      \/ use.place = "invariant" /\ use.go.no > use.aril.no
                      \/ use.go.by = "variant" /\ use.aril.by # "variant"

\* What Aril takes for two scopes and Go for one block, and so the only
\* redeclarations: a body and its parameters, the statements of a handler,
\* of a receive or of a key-value loop and what these bind, and a trailing
\* block and what it ends.
NoRedeclaration ==
  \A clash \in collided : clash.first.by \in {"param", "catch", "recv", "element"} \/ clash.inlined

\* Every variable of an accepted body is read or discarded in Go, unless it
\* is only assigned, is a channel, is what a receive binds, or is read in
\* Aril at a name that Go takes for something else.
NoneUnread ==
  \A it \in unread : \/ it.assigned
                     \/ it.of.by \in {"chan", "recv"}
                     \/ \E use \in astray : use.aril = it.of

=============================================================================
