--------------------------- MODULE NamesOfBodies ----------------------------
(* The names of a body (NameResolution), for modules that also hold other    *)
(* parts of the compiler.                                                    *)
EXTENDS Naturals, Sequences

CONSTANTS Name, MaxLocals, MaxUses, MaxOpen

ASSUME ResolutionAssumption == MaxLocals \in Nat /\ MaxUses \in Nat /\ MaxOpen \in Nat

VARIABLES world, scopes, blocks, open, locals, uses, used, predicated, assigned,
          read, astray, collided, unread

Body == INSTANCE NameResolution

NamesSpec == Body!Spec

(* A name reads in Go what it reads in Aril, except where the emitter moves  *)
(* or repeats an expression, or a local hides a variant (NameResolution).    *)
RefersAlike == Body!RefersAlike

(* What Aril takes for two scopes and Go for one block, and so the only      *)
(* redeclarations (NameResolution).                                          *)
NoRedeclaration == Body!NoRedeclaration

(* Go refuses no variable of an accepted body, but for what is only assigned,*)
(* a channel, what a receive binds, or read under a name that strays         *)
(* (NameResolution).                                                         *)
NoneUnread == Body!NoneUnread
=============================================================================
