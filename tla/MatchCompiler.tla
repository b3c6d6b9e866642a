--------------------------- MODULE MatchCompiler ----------------------------
(***************************************************************************)
(* One `match` expression on its way through the compiler: parser/match.go *)
(* reads its arms, sema/exhaust.go checks coverage and reachability,       *)
(* codegen/match.go emits a Go switch, and the Go compiler builds it.      *)
(*                                                                         *)
(* A subject is the sequence of its components' types: one type, or two    *)
(* and more for a tuple literal.  A value's payload only says whether a    *)
(* pattern nested in the payload would match it.  Patterns are taken to be *)
(* of the component's kind (no integer against a sum), constructors of     *)
(* another sum included: sema does not tell these apart.                   *)
(***************************************************************************)
EXTENDS Integers, Sequences, FiniteSets

CONSTANTS
  SumVariants,   \* the variants of the declared sum type, in order
  Carriers,      \* the constructors that carry a payload
  LowerCase,     \* the variants whose name does not start with a capital
  Ints,          \* the integers that patterns name
  OtherInt,      \* an integer that no pattern names
  Fresh,         \* an identifier that names no variant
  Subjects,      \* the subjects matched
  MaxArms,       \* bound: the arms of a match
  CellLimit      \* tupleExhaustCellLimit

SumCtors    == {SumVariants[i] : i \in DOMAIN SumVariants}
OptionCtors == {"None", "Some"}
Types       == {"sum", "option", "bool", "int"}

ASSUME MatchCompilerAssumption ==
  /\ SumVariants \in Seq(STRING) /\ Len(SumVariants) > 1
  /\ \A i, j \in DOMAIN SumVariants :
       SumVariants[i] = SumVariants[j] => i = j
  /\ SumCtors \cap (OptionCtors \cup Ints \cup {"true", "false", OtherInt}) = {}
  /\ Fresh \notin SumCtors \cup OptionCtors \cup Ints
                  \cup {"true", "false", OtherInt}
  /\ LowerCase \subseteq SumCtors
  /\ OtherInt \notin Ints
  /\ \A s \in Subjects : s \in Seq(Types) /\ s # <<>>
  /\ MaxArms \in Nat \ {0} /\ CellLimit \in Nat

VARIABLES
  subject,    \* MatchExpr.Subject, as the types of its components
  arms,       \* MatchExpr.Arms, their patterns
  stage,      \* how far the compiler has got
  diags,      \* the diagnostics of checkExhaustive
  position,   \* what the match is used as
  clauses     \* the clauses of the Go switch

vars == <<subject, arms, stage, diags, position, clauses>>

----------------------------------------------------------------------------
(* The constructors of the types, and the values of a subject.             *)
Ctors(t) ==
  CASE t = "sum"    -> SumCtors
    [] t = "option" -> OptionCtors
    [] t = "bool"   -> {"true", "false"}
    [] t = "int"    -> Ints \cup {OtherInt}


(* The sequences that take their j-th item from F(s[j]).                   *)
Choices(s, F(_)) ==
  {f \in [DOMAIN s -> UNION {F(s[j]) : j \in DOMAIN s}] :
     \A j \in DOMAIN s : f[j] \in F(s[j])}

CompValues(t) == [ctor : Ctors(t), pay : {"hit", "miss"}]
ValuesOf == [s \in Subjects |-> Choices(s, CompValues)]

Components == DOMAIN subject
Values == ValuesOf[subject]

(* The tag table of codegen: one for all sums, by unqualified name.        *)
IsVariant(name) == name \in SumCtors \cup OptionCtors

TagOf(name) ==
  IF name \in SumCtors
  THEN (CHOOSE i \in DOMAIN SumVariants : SumVariants[i] = name) - 1
  ELSE IF name = "Some" THEN 1 ELSE 0

----------------------------------------------------------------------------
(* parseSinglePat: a name is a variant pattern when it is capitalised,     *)
(* qualified or followed by a payload, else a binding.                     *)
NamePat(name, qualified, tests) ==
  IF ~qualified /\ ~tests /\ name \in LowerCase \cup {Fresh}
  THEN [kind |-> "ident", name |-> name]
  ELSE [kind |-> "variant", ctor |-> name, tests |-> tests]

Wild == [kind |-> "wild"]
Names(t) ==
  CASE t = "sum"    -> SumCtors \cup {Fresh, "None"}
    [] t = "option" -> OptionCtors \cup {Fresh, SumVariants[1]} \cup LowerCase
    [] OTHER        -> {Fresh} \cup LowerCase

Atoms(t) ==
  IF t \in {"sum", "option"}
  THEN {NamePat(n, TRUE, FALSE) : n \in Ctors(t)}
       \cup {NamePat(n, TRUE, TRUE) : n \in Ctors(t) \cap Carriers}
  ELSE {[kind |-> "lit", ctor |-> c] : c \in Ctors(t) \ {OtherInt}}

(* parsePattern: alternatives are literals or variants, here two of        *)
(* different constructors.                                                 *)
CompPats(t) ==
  {Wild} \cup Atoms(t) \cup {NamePat(n, FALSE, FALSE) : n \in Names(t)}
  \cup {[kind |-> "alt", atoms |-> a] :
          a \in {{q[1], q[2]} : q \in {r \in Atoms(t) \X Atoms(t) :
                                       r[1].ctor # r[2].ctor}}}

PatsOf ==
  [s \in Subjects |->
     IF Len(s) = 1 THEN CompPats(s[1])
     ELSE {[kind |-> "tuple", sub |-> f] : f \in Choices(s, CompPats)}
          \cup {Wild, NamePat(Fresh, FALSE, FALSE)}]
Pats == PatsOf[subject]

----------------------------------------------------------------------------
(* What the source says.  An identifier that names a constructor of the    *)
(* component's type is that constructor, any other one binds.              *)
AtomMatches(t, p, v) ==
  \/ p.kind = "wild"
  \/ p.kind = "ident" /\ (p.name \in Ctors(t) => v.ctor = p.name)
  \/ p.kind = "lit" /\ v.ctor = p.ctor
  \/ p.kind = "variant" /\ v.ctor = p.ctor /\ (p.tests => v.pay = "hit")

CompMatches(t, p, v) ==
  IF p.kind = "alt" THEN \E a \in p.atoms : AtomMatches(t, a, v)
  ELSE AtomMatches(t, p, v)

Matches(p, v) ==
  IF p.kind = "tuple"
  THEN \A j \in Components : CompMatches(subject[j], p.sub[j], v[j])
  ELSE IF Len(subject) = 1 THEN CompMatches(subject[1], p, v[1])
  ELSE TRUE

Least(S) == CHOOSE i \in S : \A k \in S : i <= k

(* The arm a value selects: the first that matches it; 0 when none does.   *)
SourceArm(v) ==
  LET hits == {i \in DOMAIN arms : Matches(arms[i], v)}
  IN IF hits = {} THEN 0 ELSE Least(hits)

----------------------------------------------------------------------------
(* sema: checkExhaustive.                                                  *)
IsCatchAll(p) == p.kind \in {"wild", "ident"}

Unreachable ==
  {i \in DOMAIN arms : \E k \in DOMAIN arms : k < i /\ IsCatchAll(arms[k])}

(* Mutant: alternatives are not descended into.                            *)
ArmsAlone == {arms[i] : i \in DOMAIN arms}

(* The patterns of an arm's alternatives, all arms together.               *)
Alternatives ==
  UNION {IF arms[i].kind = "alt" THEN arms[i].atoms ELSE {arms[i]} :
           i \in DOMAIN arms}

MissingVariants ==
  SumCtors \ {p.ctor : p \in {q \in Alternatives : q.kind = "variant"}}
MissingBools ==
  {"true", "false"} \ {p.ctor : p \in {q \in Alternatives : q.kind = "lit"}}

FiniteCtors(t) == IF t \in {"sum", "bool"} THEN Ctors(t) ELSE {}

(* Mutant: any component identifier is taken for a binding.                *)
AtomCoversBinding(t, p) ==
  IF p.kind \in {"wild", "ident"} THEN FiniteCtors(t)
  ELSE FiniteCtors(t) \cap {p.ctor}

(* The constructors a component pattern admits; none when the cartesian    *)
(* model cannot represent it.                                              *)
AtomCovers(t, p) ==
  IF \/ p.kind = "wild"
     \/ p.kind = "ident" /\ p.name \notin FiniteCtors(t)
  THEN FiniteCtors(t)
  ELSE FiniteCtors(t) \cap {IF p.kind = "ident" THEN p.name ELSE p.ctor}

CompCovers(t, p) ==
  IF p.kind # "alt" THEN AtomCovers(t, p)
  ELSE IF \E a \in p.atoms : AtomCovers(t, a) = {} THEN {}
  ELSE UNION {AtomCovers(t, a) : a \in p.atoms}

CellsOf == [s \in Subjects |-> Choices(s, FiniteCtors)]
Cells == CellsOf[subject]

TooManyCells == Cardinality(Cells) > CellLimit

Abstains ==
  \/ Cells = {} \/ TooManyCells
  \/ \E i \in DOMAIN arms :
       \/ arms[i].kind # "tuple"
       \/ \E j \in Components : CompCovers(subject[j], arms[i].sub[j]) = {}

MissingCells ==
  {c \in Cells : \A i \in DOMAIN arms :
     \E j \in Components : c[j] \notin CompCovers(subject[j], arms[i].sub[j])}

NonExhaustive ==
  IF Len(subject) > 1 THEN ~Abstains /\ MissingCells # {}
  ELSE \/ subject[1] = "sum" /\ MissingVariants # {}
       \/ subject[1] = "bool" /\ MissingBools # {}

Diagnose ==
  IF \E i \in DOMAIN arms : IsCatchAll(arms[i])
  THEN IF Unreachable = {} THEN {} ELSE {"E0304"}
  ELSE IF NonExhaustive THEN {"E0303"} ELSE {}

----------------------------------------------------------------------------
(* codegen.  A clause gives every component the labels its test accepts,   *)
(* none at all when it is not tested.                                      *)
TagLabel(name) == [tag |-> TagOf(name)]
Label(p) ==
  IF p.kind = "lit" THEN [value |-> p.ctor]
  ELSE TagLabel(IF p.kind = "ident" THEN p.name ELSE p.ctor)

(* A component identifier names a variant of the component's own sum; the  *)
(* whole table is searched when the component's type is not a named one.   *)
NamesVariant(t, name) == IF t = "sum" THEN name \in SumCtors ELSE IsVariant(name)

(* Mutant: a component identifier never makes a test.                      *)
TestsPatterns(t, p) == p.kind \notin {"wild", "ident"}

TestsComponent(t, p) ==
  /\ p.kind # "wild"
  /\ p.kind = "ident" => NamesVariant(t, p.name)

(* compCond and emitPayloadBindings refuse alternatives in a component, a  *)
(* constructor of another sum and a pattern that tests a payload.          *)
CompRefused(t, p) ==
  \/ p.kind = "alt"
  \/ p.kind = "variant" /\ p.tests
  \/ p.kind = "variant" /\ t = "sum" /\ p.ctor \notin SumCtors

(* One switch cannot test tags and values.                                 *)
Mixed ==
  /\ Len(subject) = 1
  /\ \E p \in Alternatives : p.kind = "lit"
  /\ \E p \in Alternatives :
       \/ p.kind = "variant"
       \/ p.kind = "ident" /\ IsVariant(p.name)

(* In a match on one component a variant's own payload pattern is lowered, *)
(* that of an alternative is not looked at.                                *)
ArmRefused(p) ==
  IF Len(subject) = 1
  THEN \/ p.kind = "ident" /\ ~IsVariant(p.name)
       \/ p.kind = "variant" /\ p.tests
  ELSE \/ p.kind \notin {"tuple", "wild"}
       \/ p.kind = "tuple" /\ \E j \in Components :
            CompRefused(subject[j], p.sub[j])

Clause(p) ==
  [j \in Components |->
     IF p.kind = "wild" THEN {}
     ELSE IF p.kind = "alt" THEN {Label(a) : a \in p.atoms}
     ELSE IF p.kind # "tuple" THEN {Label(p)}
     ELSE IF TestsComponent(subject[j], p.sub[j]) THEN {Label(p.sub[j])}
     ELSE {}]

IsDefault(c) == \A j \in Components : c[j] = {}

(* Whether a `default:` is emitted, as matchEmitsDefault foretells it.     *)
EmitsDefault ==
  \E i \in DOMAIN arms :
    \/ arms[i].kind = "wild"
    \/ /\ arms[i].kind = "tuple"
       /\ \A j \in Components :
            \/ arms[i].sub[j].kind = "wild"
            \/ /\ arms[i].sub[j].kind = "ident"
               /\ ~NamesVariant(subject[j], arms[i].sub[j].name)

(* A match is a statement, the tail of a function (a panic guards its end) *)
(* or a value (the zero value is returned at its end).                     *)
Positions == {"statement", "tail", "value"}
Guarded == position \in {"tail", "value"} /\ ~EmitsDefault

----------------------------------------------------------------------------
(* Go.  The first case whose test holds runs, or else the default clause,  *)
(* wherever it stands; 0: the end of the switch is reached.                *)
Holds(l, v) ==
  IF "tag" \in DOMAIN l THEN l.tag = TagOf(v.ctor) ELSE l.value = v.ctor

Fires(c, v) ==
  /\ ~IsDefault(c)
  /\ \A j \in Components : c[j] # {} => \E l \in c[j] : Holds(l, v[j])

GoArm(v) ==
  LET hits     == {i \in DOMAIN clauses : Fires(clauses[i], v)}
      defaults == {i \in DOMAIN clauses : IsDefault(clauses[i])}
  IN IF hits # {} THEN Least(hits)
     ELSE IF defaults # {} THEN Least(defaults) ELSE 0

(* The Go compiler wants at most one default, a struct for a .Tag, no      *)
(* constant twice (bool apart) and an end to a func that returns a value.  *)
GoAccepts ==
  /\ \A i, k \in DOMAIN clauses :
       IsDefault(clauses[i]) /\ IsDefault(clauses[k]) => i = k
  /\ \A i \in DOMAIN clauses : \A j \in Components : \A l \in clauses[i][j] :
       "tag" \in DOMAIN l => subject[j] \in {"sum", "option"}
  /\ Len(subject) = 1 /\ subject[1] # "bool" =>
       \A i, k \in DOMAIN clauses :
         i # k => clauses[i][1] \cap clauses[k][1] = {}
  /\ position # "statement" /\ ~Guarded =>
       \E i \in DOMAIN clauses : IsDefault(clauses[i])

----------------------------------------------------------------------------
Init ==
  /\ subject \in Subjects
  /\ arms = <<>>
  /\ stage = "parsing"
  /\ diags = {}
  /\ position = "unknown"
  /\ clauses = <<>>

(* parseMatchExpr reads one more arm.                                      *)
ParseArm(p) ==
  /\ stage = "parsing" /\ Len(arms) < MaxArms
  /\ arms' = Append(arms, p)
  /\ UNCHANGED <<subject, stage, diags, position, clauses>>

(* The closing brace: inferMatch calls checkExhaustive.                    *)
Check ==
  /\ stage = "parsing" /\ arms # <<>>
  /\ diags' = Diagnose
  /\ stage' = IF diags' = {} THEN "accepted" ELSE "rejected"
  /\ UNCHANGED <<subject, arms, position, clauses>>

(* codegen reaches a construct it has no lowering for,                     *)
Refuse ==
  /\ stage = "accepted"
  /\ Mixed \/ \E i \in DOMAIN arms : ArmRefused(arms[i])
  /\ stage' = "refused"
  /\ UNCHANGED <<subject, arms, diags, position, clauses>>

(* or emits one clause per arm.                                            *)
Emit(pos) ==
  /\ stage = "accepted"
  /\ ~Mixed /\ \A i \in DOMAIN arms : ~ArmRefused(arms[i])
  /\ position' = pos
  /\ clauses' = [i \in DOMAIN arms |-> Clause(arms[i])]
  /\ stage' = "emitted"
  /\ UNCHANGED <<subject, arms, diags>>

GoBuild ==
  /\ stage = "emitted"
  /\ stage' = IF GoAccepts THEN "built" ELSE "unbuildable"
  /\ UNCHANGED <<subject, arms, diags, position, clauses>>

Next ==
  \/ \E p \in Pats : ParseArm(p)
  \/ Check
  \/ Refuse
  \/ \E pos \in Positions : Emit(pos)
  \/ GoBuild

Spec == Init /\ [][Next]_vars

----------------------------------------------------------------------------
(* The constructors named are those of the component's own type: neither   *)
(* sema nor the one-component lowering looks for another sum's.            *)
OwnName(t, p) ==
  /\ p.kind = "variant" => p.ctor \in Ctors(t)
  /\ p.kind = "ident" => p.name \in Ctors(t) \/ ~IsVariant(p.name)

OwnNames ==
  \A i \in DOMAIN arms :
    IF arms[i].kind = "tuple"
    THEN \A j \in Components : OwnName(subject[j], arms[i].sub[j])
    ELSE Len(subject) = 1 => OwnName(subject[1], arms[i])

(* An alternative tests a payload: `Some(1) | None`.                       *)
AlternativeTests ==
  \E p \in Alternatives \ {arms[i] : i \in DOMAIN arms} :
    p.kind = "variant" /\ p.tests

(* A tuple arm that tests nothing has arms after it.                       *)
EarlyDefault ==
  \E i, k \in DOMAIN arms : i < k /\ IsDefault(Clause(arms[i]))

(* A match on one sum value has a bare identifier that names a variant.    *)
BareVariant ==
  /\ Len(subject) = 1
  /\ \E i \in DOMAIN arms :
       arms[i].kind = "ident" /\ arms[i].name \in Ctors(subject[1])

(* The program runs the arm that the source says: the first that matches,  *)
(* in every position, except for the three constructs above.               *)
RunsFirstMatch ==
  stage = "built" /\ OwnNames /\ ~AlternativeTests /\ ~EarlyDefault =>
    \A v \in Values : GoArm(v) = SourceArm(v)

(* A match that is accepted and built leaves no value of an enumerable     *)
(* subject without an arm: what checkExhaustive abstains from or counts as *)
(* covered though it is refined never reaches a program.                   *)
BuiltIsTotal ==
  /\ stage = "built" /\ ~BareVariant
  /\ \A j \in Components : subject[j] \in {"sum", "bool"}
  /\ ~TooManyCells
  => \A v \in Values : GoArm(v) # 0

(* internal/sema/exhaust.go:15: a genuinely exhaustive match is never      *)
(* rejected as missing a case, and an unreachable arm is dead.             *)
RejectedForCause ==
  stage = "rejected" =>
    /\ "E0303" \in diags => \E v \in Values : SourceArm(v) = 0
    /\ "E0304" \in diags /\ ~BareVariant =>
         \A i \in Unreachable : \A v \in Values : SourceArm(v) # i

(* The end of a returning func is guarded exactly when the switch has no   *)
(* default clause: matchEmitsDefault agrees with what was emitted.         *)
GuardFitsSwitch ==
  position \in {"tail", "value"} =>
    (Guarded <=> \A i \in DOMAIN clauses : ~IsDefault(clauses[i]))

=============================================================================
