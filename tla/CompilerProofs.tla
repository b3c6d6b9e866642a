--------------------------- MODULE CompilerProofs ---------------------------
(***************************************************************************)
(* What the compiler makes of a body.  For any sum type, any subjects and  *)
(* matches of any length: the Go switch runs the arm that the source       *)
(* selects (RunsFirstMatch), drops no value (BuiltIsTotal), a match is     *)
(* rejected for a cause (RejectedForCause), and the guard at the end of a  *)
(* returning function fits the switch (GuardFitsSwitch).  A clause tests a *)
(* component as its pattern does (AtomTest, CompTest): tags tell the       *)
(* constructors of one type apart.  Arm by arm, a clause then fires or is  *)
(* the default exactly for the values its pattern matches (ArmFits), and   *)
(* as no default precedes another clause, Go's order is the source's.      *)
(* What has to be invariant is where the clauses come from (Origin) and    *)
(* that the verdicts are those of the match at hand (Verdict).             *)
(*                                                                         *)
(* The second part is about JumpLowering: a return leaves the frame it is  *)
(* written in (ReturnLeavesItsFrame), a break or a continue the loop       *)
(* (JumpHitsItsLoop).  That a break has a label where a switch would       *)
(* capture it needs both walks over the path to be compared, the one that  *)
(* looks ahead for the label (NeedsLabel) and the emission itself: below   *)
(* an initialiser or an argument, where the first one stops, the second    *)
(* gets to no statement but through a literal or a catch (Initialising).   *)
(*                                                                         *)
(* The third is about NameResolution, for any names and bodies of any      *)
(* length and depth: what a name reads (RefersAlike), what is redeclared   *)
(* (NoRedeclaration) and what is left unread (NoneUnread).  The invariant  *)
(* (NamesInv) has to speak of every construct that is open, not of the     *)
(* innermost one only: when it closes, statements go on in the one around  *)
(* it.  Two functions give the depths of each in the two chains (Nested).  *)
(* Whatever is opened is shown to be of one form (Deepens, Marks), which   *)
(* keeps the invariant (DeepKeeps).                                        *)
(***************************************************************************)
EXTENDS LoweredBodies, NamesOfBodies, FiniteSetTheorems, SequenceTheorems, TLAPS

(* What codegen has emitted: one clause per arm, none of them refused.     *)
Lowered == stage \in {"emitted", "built", "unbuildable"}

Emitted ==
  /\ clauses = [i \in DOMAIN arms |-> Clause(arms[i])]
  /\ \A i \in DOMAIN arms : ~ArmRefused(arms[i])

Origin ==
  /\ subject \in Subjects
  /\ arms \in Seq(Pats)
  /\ Lowered => Emitted
  /\ ~Lowered => position = "unknown"

(* The clauses come from the arms, which no step changes once emitted.     *)
THEOREM OriginInv == Spec => []Origin
<1>1. Init => Origin
  BY DEF Init, Origin, Lowered
<1>2. Origin /\ [Next]_vars => Origin'
  <2> SUFFICES ASSUME Origin, [Next]_vars PROVE Origin'
    OBVIOUS
  <2>1. CASE UNCHANGED vars
    BY <2>1 DEF vars, Origin, Lowered, Emitted, Clause, ArmRefused, Pats,
                Components, CompRefused, TestsComponent
  <2>2. ASSUME NEW p \in Pats, ParseArm(p) PROVE Origin'
    BY <2>2 DEF ParseArm, Origin, Lowered, Pats
  <2>3. CASE Check
    BY <2>3 DEF Check, Origin, Lowered, Pats
  <2>4. CASE Refuse
    BY <2>4 DEF Refuse, Origin, Lowered, Pats
  <2>5. ASSUME NEW pos \in Positions, Emit(pos) PROVE Origin'
    BY <2>5 DEF Emit, Origin, Lowered, Emitted, Clause, ArmRefused, Pats,
                Components, CompRefused, TestsComponent
  <2>6. CASE GoBuild
    BY <2>6 DEF GoBuild, Origin, Lowered, Emitted, Clause, ArmRefused, Pats,
                Components, CompRefused, TestsComponent
  <2> QED
    BY <2>1, <2>2, <2>3, <2>4, <2>5, <2>6 DEF Next
<1> QED
  BY <1>1, <1>2, PTL DEF Spec

-----------------------------------------------------------------------------
(* The patterns that a component can have.                                 *)
Shape(t, p) ==
  \/ p.kind = "wild"
  \/ p.kind = "ident" /\ p.name \in LowerCase \cup {Fresh}
  \/ p.kind = "lit" /\ t \in {"bool", "int"} /\ p.ctor \in Ctors(t)
  \/ p.kind = "variant" /\ t \in {"sum", "option"}

LEMMA AtomShape ==
  ASSUME NEW t \in Types, NEW a \in Atoms(t)
  PROVE  /\ a.kind \in {"lit", "variant"} /\ a.ctor \in Ctors(t)
         /\ Shape(t, a)
BY DEF Atoms, NamePat, Shape, Types, Ctors

LEMMA CompShape ==
  ASSUME NEW t \in Types, NEW p \in CompPats(t)
  PROVE  \/ Shape(t, p)
         \/ p.kind = "alt" /\ p.atoms # {} /\ p.atoms \subseteq Atoms(t)
<1>1. CASE p \in {Wild} \cup Atoms(t)
  BY <1>1, AtomShape DEF Wild, Shape
<1>2. CASE p \in {NamePat(n, FALSE, FALSE) : n \in Names(t)}
  BY <1>2, MatchCompilerAssumption DEF NamePat, Names, Shape, Types
<1>3. CASE p \in {[kind |-> "alt", atoms |-> a] :
                    a \in {{q[1], q[2]} : q \in {r \in Atoms(t) \X Atoms(t) :
                                                 r[1].ctor # r[2].ctor}}}
  BY <1>3
<1> QED
  BY <1>1, <1>2, <1>3 DEF CompPats

(* Tags tell the constructors of one type apart.                           *)
LEMMA TagsDiffer ==
  ASSUME NEW t \in {"sum", "option"}, NEW m \in Ctors(t), NEW n \in Ctors(t)
  PROVE  TagOf(m) = TagOf(n) <=> m = n
<1>1. CASE t = "sum"
  <2> DEFINE At(k) == CHOOSE i \in DOMAIN SumVariants : SumVariants[i] = k
  <2>1. ASSUME NEW k \in SumCtors
        PROVE  At(k) \in DOMAIN SumVariants /\ SumVariants[At(k)] = k
    BY DEF SumCtors
  <2>2. At(m) \in Int /\ At(n) \in Int /\ (At(m) = At(n) => m = n)
    BY <1>1, <2>1, MatchCompilerAssumption DEF Ctors
  <2>3. TagOf(m) = At(m) - 1 /\ TagOf(n) = At(n) - 1
    BY <1>1 DEF TagOf, Ctors
  <2> HIDE DEF At
  <2> QED
    BY <2>2, <2>3
<1>2. CASE t = "option"
  <2>1. m \notin SumCtors /\ n \notin SumCtors
    BY <1>2, MatchCompilerAssumption DEF Ctors, OptionCtors
  <2> QED
    BY <1>2, <2>1 DEF TagOf, Ctors, OptionCtors
<1> QED
  BY <1>1, <1>2

(* A label tests what an atom says.                                        *)
LEMMA AtomTest ==
  ASSUME NEW t \in Types, NEW p, NEW w \in CompValues(t),
         \/ p.kind = "lit"
         \/ /\ t \in {"sum", "option"}
            /\ \/ p.kind = "variant" /\ p.ctor \in Ctors(t) /\ ~p.tests
               \/ p.kind = "ident" /\ p.name \in Ctors(t)
  PROVE  Holds(Label(p), w) <=> AtomMatches(t, p, w)
<1>1. w.ctor \in Ctors(t)
  BY DEF CompValues
<1>2. CASE p.kind = "lit"
  BY <1>2 DEF Holds, Label, AtomMatches
<1>3. CASE p.kind = "variant" /\ t \in {"sum", "option"}
  BY <1>1, <1>3, TagsDiffer DEF Holds, Label, TagLabel, AtomMatches
<1>4. CASE p.kind = "ident" /\ t \in {"sum", "option"}
  BY <1>1, <1>4, TagsDiffer DEF Holds, Label, TagLabel, AtomMatches
<1> QED
  BY <1>2, <1>3, <1>4

(* Under what a component of an arm can be: its pattern is of the          *)
(* component's kind, not refused, and names its own type's constructors.   *)
LEMMA CompTest ==
  ASSUME NEW t \in Types, NEW p \in CompPats(t), NEW w \in CompValues(t),
         p.kind # "alt", OwnName(t, p), ~CompRefused(t, p)
  PROVE  IF TestsComponent(t, p)
         THEN Holds(Label(p), w) <=> CompMatches(t, p, w)
         ELSE CompMatches(t, p, w)
<1>1. Shape(t, p)
  BY CompShape
<1>2. CASE p.kind = "wild"
  BY <1>2 DEF TestsComponent, CompMatches, AtomMatches
<1>3. CASE p.kind = "ident"
  <2>1. p.name \in LowerCase \cup {Fresh}
    BY <1>1, <1>3 DEF Shape
  <2>2. p.name \in Ctors(t) => t \in {"sum", "option"}
    BY <2>1, MatchCompilerAssumption DEF Types, Ctors, OptionCtors
  <2>3. TestsComponent(t, p) <=> p.name \in Ctors(t)
    BY <1>3, <2>1, <2>2, MatchCompilerAssumption
       DEF TestsComponent, NamesVariant, IsVariant, OwnName, Ctors, Types,
           OptionCtors
  <2>4. CASE p.name \in Ctors(t)
    BY <1>3, <2>2, <2>3, <2>4, AtomTest DEF CompMatches
  <2>5. CASE p.name \notin Ctors(t)
    BY <1>3, <2>3, <2>5 DEF CompMatches, AtomMatches
  <2> QED
    BY <2>4, <2>5
<1>4. CASE p.kind = "lit"
  <2>1. TestsComponent(t, p)
    BY <1>4 DEF TestsComponent
  <2> QED
    BY <1>4, <2>1, AtomTest DEF CompMatches
<1>5. CASE p.kind = "variant"
  <2>1. TestsComponent(t, p)
    BY <1>5 DEF TestsComponent
  <2>2. t \in {"sum", "option"} /\ p.ctor \in Ctors(t) /\ ~p.tests
    BY <1>1, <1>5 DEF Shape, OwnName, CompRefused
  <2> QED
    BY <1>5, <2>1, <2>2, AtomTest DEF CompMatches
<1> QED
  BY <1>1, <1>2, <1>3, <1>4, <1>5 DEF Shape

-----------------------------------------------------------------------------
(* An arm's clause fires for the values that its pattern matches, if it is *)
(* not the default; the default's pattern matches every value.             *)
ArmFits(i) ==
  \A v \in Values :
    /\ ~IsDefault(clauses[i]) => (Fires(clauses[i], v) <=> Matches(arms[i], v))
    /\ IsDefault(clauses[i]) => Matches(arms[i], v)

(* A subject has components, each of a type; values and patterns are of    *)
(* the components' types.                                                  *)
LEMMA SubjectShape ==
  ASSUME Origin
  PROVE  /\ Components # {} /\ Len(subject) \in Nat
         /\ Components = 1..Len(subject)
         /\ \A j \in Components : subject[j] \in Types
         /\ \A v \in Values : \A j \in Components :
              v[j] \in CompValues(subject[j])
<1>1. subject \in Seq(Types) /\ subject # <<>>
  BY MatchCompilerAssumption DEF Origin
<1>2. Values = Choices(subject, CompValues)
  BY DEF Values, ValuesOf, Origin
<1> QED
  BY <1>1, <1>2 DEF Components, Choices

LEMMA PatternShape ==
  ASSUME Origin, NEW i \in DOMAIN arms
  PROVE  IF Len(subject) = 1 THEN arms[i] \in CompPats(subject[1])
         ELSE \/ arms[i].kind \in {"wild", "ident"}
              \/ /\ arms[i].kind = "tuple"
                 /\ \A j \in Components :
                      arms[i].sub[j] \in CompPats(subject[j])
<1>1. arms[i] \in PatsOf[subject]
  BY DEF Origin, Pats
<1>2. CASE Len(subject) = 1
  BY <1>1, <1>2 DEF PatsOf, Origin
<1>3. CASE Len(subject) # 1
  <2>1. \/ arms[i] \in {[kind |-> "tuple", sub |-> f] :
                          f \in Choices(subject, CompPats)}
        \/ arms[i] \in {Wild, NamePat(Fresh, FALSE, FALSE)}
    BY <1>1, <1>3 DEF PatsOf, Origin
  <2>2. CASE arms[i] \in {[kind |-> "tuple", sub |-> f] :
                            f \in Choices(subject, CompPats)}
    BY <1>3, <2>2 DEF Choices, Components
  <2>3. CASE arms[i] \in {Wild, NamePat(Fresh, FALSE, FALSE)}
    BY <1>3, <2>3 DEF Wild, NamePat
  <2> QED
    BY <2>1, <2>2, <2>3
<1> QED
  BY <1>2, <1>3

(* One component: a single pattern, or alternatives, each with its label.  *)
LEMMA OneFits ==
  ASSUME Origin, Lowered, OwnNames, ~AlternativeTests, Len(subject) = 1,
         NEW i \in DOMAIN arms
  PROVE  ArmFits(i)
<1> DEFINE t == subject[1]
           p == arms[i]
<1>1. /\ t \in Types /\ Components = {1} /\ p \in CompPats(t)
      /\ \A v \in Values : v[1] \in CompValues(t)
  BY SubjectShape, PatternShape
<1>2. clauses[i] = Clause(p) /\ ~ArmRefused(p)
  BY DEF Origin, Emitted
<1>3. p.kind # "tuple"
  BY <1>1, CompShape DEF Shape
<1>4. \A v : Matches(p, v) <=> CompMatches(t, p, v[1])
  BY <1>3 DEF Matches
<1>5. CASE p.kind = "wild"
  <2>1. clauses[i] = [j \in Components |-> {}]
    BY <1>2, <1>5 DEF Clause
  <2> QED
    BY <1>1, <1>4, <1>5, <2>1 DEF ArmFits, IsDefault, CompMatches, AtomMatches
<1>6. CASE p.kind = "alt"
  <2>1. p.atoms # {} /\ p.atoms \subseteq Atoms(t)
    BY <1>1, <1>6, CompShape DEF Shape
  <2>2. ASSUME NEW a \in p.atoms, a.kind = "variant" PROVE ~a.tests
    <3>1. a \in Alternatives
      BY <1>6 DEF Alternatives
    <3>2. CASE a \in {arms[k] : k \in DOMAIN arms}
      BY <2>2, <3>2 DEF Origin, Emitted, ArmRefused
    <3>3. CASE a \notin {arms[k] : k \in DOMAIN arms}
      BY <2>2, <3>1, <3>3 DEF AlternativeTests
    <3> QED
      BY <3>2, <3>3
  <2>3. ASSUME NEW a \in p.atoms, NEW w \in CompValues(t)
        PROVE  Holds(Label(a), w) <=> AtomMatches(t, a, w)
    <3>1. a \in Atoms(t)
      BY <2>1
    <3> QED
      BY <1>1, <2>2, <3>1, AtomShape, AtomTest DEF Shape
  <2>4. clauses[i] = [j \in Components |-> {Label(a) : a \in p.atoms}]
    BY <1>2, <1>6 DEF Clause
  <2>5. ~IsDefault(clauses[i])
    BY <1>1, <2>1, <2>4 DEF IsDefault
  <2>6. ASSUME NEW v \in Values
        PROVE  Fires(clauses[i], v)
               <=> \E a \in p.atoms : Holds(Label(a), v[1])
    BY <1>1, <2>1, <2>4, <2>5 DEF Fires
  <2> QED
    BY <1>1, <1>4, <1>6, <2>3, <2>5, <2>6 DEF ArmFits, CompMatches
<1>7. CASE p.kind \notin {"wild", "alt"}
  <2>1. OwnName(t, p)
    BY <1>3 DEF OwnNames
  <2>2. ~CompRefused(t, p)
    BY <1>1, <1>2, <1>7, <2>1 DEF ArmRefused, CompRefused, OwnName, Ctors
  <2>3. TestsComponent(t, p)
    BY <1>1, <1>2, <1>7, <2>1, MatchCompilerAssumption
       DEF TestsComponent, ArmRefused, NamesVariant, OwnName, Ctors, Types,
           OptionCtors, IsVariant
  <2>4. ASSUME NEW v \in Values
        PROVE  Holds(Label(p), v[1]) <=> CompMatches(t, p, v[1])
    BY <1>1, <1>7, <2>1, <2>2, <2>3, CompTest
  <2>5. clauses[i] = [j \in Components |-> {Label(p)}]
    BY <1>2, <1>3, <1>7 DEF Clause
  <2> QED
    BY <1>1, <1>4, <2>4, <2>5 DEF ArmFits, IsDefault, Fires
<1> QED
  BY <1>5, <1>6, <1>7

(* A tuple: every component has its label or is not tested.                *)
LEMMA TupleFits ==
  ASSUME Origin, Lowered, OwnNames, Len(subject) # 1, NEW i \in DOMAIN arms
  PROVE  ArmFits(i)
<1> DEFINE p == arms[i]
<1>1. /\ Components # {}
      /\ \A j \in Components : subject[j] \in Types
      /\ \A v \in Values : \A j \in Components :
           v[j] \in CompValues(subject[j])
  BY SubjectShape
<1>2. clauses[i] = Clause(p) /\ ~ArmRefused(p)
  BY DEF Origin, Emitted
<1>3. CASE p.kind = "wild"
  <2>1. clauses[i] = [j \in Components |-> {}]
    BY <1>2, <1>3 DEF Clause
  <2> QED
    BY <1>3, <2>1 DEF ArmFits, IsDefault, Matches
<1>4. CASE p.kind = "tuple"
  <2> DEFINE q(j) == p.sub[j]
  <2>1. ASSUME NEW j \in Components
        PROVE  /\ q(j) \in CompPats(subject[j]) /\ q(j).kind # "alt"
               /\ OwnName(subject[j], q(j)) /\ ~CompRefused(subject[j], q(j))
    <3>1. q(j) \in CompPats(subject[j])
      BY <1>4, PatternShape
    <3>2. ~CompRefused(subject[j], q(j))
      BY <1>2, <1>4 DEF ArmRefused
    <3>3. OwnName(subject[j], q(j))
      BY <1>4 DEF OwnNames
    <3> QED
      BY <3>1, <3>2, <3>3 DEF CompRefused
  <2>2. ASSUME NEW j \in Components, NEW v \in Values
        PROVE  IF TestsComponent(subject[j], q(j))
               THEN Holds(Label(q(j)), v[j]) <=> CompMatches(subject[j], q(j), v[j])
               ELSE CompMatches(subject[j], q(j), v[j])
    BY <1>1, <2>1, CompTest
  <2>3. clauses[i] = [j \in Components |->
                        IF TestsComponent(subject[j], q(j)) THEN {Label(q(j))}
                        ELSE {}]
    BY <1>2, <1>4 DEF Clause
  <2>4. \A v : Matches(p, v) <=>
          \A j \in Components : CompMatches(subject[j], q(j), v[j])
    BY <1>4 DEF Matches
  <2> QED
    BY <2>2, <2>3, <2>4 DEF ArmFits, IsDefault, Fires
<1> QED
  BY <1>2, <1>3, <1>4 DEF ArmRefused

-----------------------------------------------------------------------------
(* Go's order is the source's: before the default there is nothing to skip *)
(* and after it there is no clause.                                        *)
LEMMA OrderFits ==
  ASSUME Origin, Lowered, ~EarlyDefault, \A i \in DOMAIN arms : ArmFits(i),
         NEW v \in Values
  PROVE  GoArm(v) = SourceArm(v)
<1> DEFINE hits     == {i \in DOMAIN clauses : Fires(clauses[i], v)}
           defaults == {i \in DOMAIN clauses : IsDefault(clauses[i])}
           matching == {i \in DOMAIN arms : Matches(arms[i], v)}
<1>1. DOMAIN clauses = DOMAIN arms /\ DOMAIN arms \subseteq Int
  BY DEF Origin, Emitted
<1>2. matching = hits \cup defaults /\ hits \cap defaults = {}
  BY <1>1 DEF ArmFits, Fires
<1>3. \A d \in defaults : \A k \in DOMAIN arms : k <= d
  BY <1>1 DEF EarlyDefault, Origin, Emitted
<1>4. CASE hits = {}
  BY <1>2, <1>4 DEF GoArm, SourceArm
<1>5. CASE hits # {}
  <2>1. \A i : /\ i \in matching /\ \A k \in matching : i <= k
              <=> i \in hits /\ \A k \in hits : i <= k
    <3>1. ASSUME NEW i \in matching, \A k \in matching : i <= k
          PROVE  i \in hits /\ \A k \in hits : i <= k
      BY <1>1, <1>2, <1>3, <1>5, <3>1
    <3>2. ASSUME NEW i \in hits, \A k \in hits : i <= k
          PROVE  i \in matching /\ \A k \in matching : i <= k
      BY <1>1, <1>2, <1>3, <3>2
    <3> QED
      BY <3>1, <3>2
  <2>2. Least(matching) = Least(hits)
    BY <2>1 DEF Least
  <2>3. GoArm(v) = Least(hits)
    BY <1>5 DEF GoArm
  <2>4. SourceArm(v) = Least(matching)
    BY <1>2, <1>5 DEF SourceArm
  <2> QED
    BY <2>2, <2>3, <2>4
<1> QED
  BY <1>4, <1>5

(* The arm that runs is the first one that matches, for every sum type,    *)
(* every subject and any number of arms (codegen/match.go against the      *)
(* meaning of the source).                                                 *)
THEOREM FirstMatch == Spec => []RunsFirstMatch
<1>1. Origin => RunsFirstMatch
  <2> SUFFICES ASSUME Origin, stage = "built", OwnNames, ~AlternativeTests,
                      ~EarlyDefault, NEW v \in Values
               PROVE  GoArm(v) = SourceArm(v)
    BY DEF RunsFirstMatch
  <2>1. Lowered
    BY DEF Lowered
  <2>2. \A i \in DOMAIN arms : ArmFits(i)
    BY <2>1, OneFits, TupleFits
  <2> QED
    BY <2>1, <2>2, OrderFits
<1> QED
  BY <1>1, OriginInv, PTL

(* A function that ends in a match is guarded exactly when the switch has  *)
(* no default clause (emitMatchTail, matchEmitsDefault).                   *)
THEOREM GuardFits == Spec => []GuardFitsSwitch
<1>1. Origin => GuardFitsSwitch
  <2> SUFFICES ASSUME Origin, position \in {"tail", "value"}
               PROVE  EmitsDefault
                      <=> \E i \in DOMAIN clauses : IsDefault(clauses[i])
    BY DEF GuardFitsSwitch, Guarded
  <2>1. Emitted /\ DOMAIN clauses = DOMAIN arms
    BY DEF Origin, Emitted
  <2>2. ASSUME NEW i \in DOMAIN arms
        PROVE  IsDefault(clauses[i])
               <=> \/ arms[i].kind = "wild"
                   \/ /\ arms[i].kind = "tuple"
                      /\ \A j \in Components :
                           ~TestsComponent(subject[j], arms[i].sub[j])
    <3>1. clauses[i] = Clause(arms[i]) /\ ~ArmRefused(arms[i])
      BY <2>1 DEF Emitted
    <3>2. Components # {} /\ (Len(subject) = 1 => 1 \in Components)
      BY SubjectShape
    <3>3. CASE arms[i].kind = "alt"
      <4>1. Len(subject) = 1
        BY <3>1, <3>3 DEF ArmRefused
      <4>2. arms[i].atoms # {}
        BY <3>3, <4>1, PatternShape, SubjectShape, CompShape DEF Shape
      <4> QED
        BY <3>1, <3>2, <3>3, <4>2 DEF Clause, IsDefault
    <3>4. CASE arms[i].kind # "alt"
      BY <3>1, <3>2, <3>4 DEF Clause, IsDefault
    <3> QED
      BY <3>3, <3>4
  <2>3. ASSUME NEW i \in DOMAIN arms, NEW j \in Components
        PROVE  ~TestsComponent(subject[j], arms[i].sub[j])
               <=> \/ arms[i].sub[j].kind = "wild"
                   \/ /\ arms[i].sub[j].kind = "ident"
                      /\ ~NamesVariant(subject[j], arms[i].sub[j].name)
    BY DEF TestsComponent
  <2> QED
    BY <2>1, <2>2, <2>3 DEF EmitsDefault
<1> QED
  BY <1>1, OriginInv, PTL

-----------------------------------------------------------------------------
(* The least of some positions.                                            *)
LEMMA LeastIsOne ==
  ASSUME NEW S \in SUBSET Nat, S # {}
  PROVE  Least(S) \in S /\ \A k \in S : Least(S) <= k
<1> DEFINE Below == {0 .. (x - 1) : x \in S}
<1>1. \A x \in S : 0 .. (x - 1) \in FiniteSubsetsOf(Nat)
  <2>1. \A x \in S : IsFiniteSet(0 .. (x - 1))
    BY FS_Interval
  <2>2. \A x \in S : 0 .. (x - 1) \in SUBSET Nat
    OBVIOUS
  <2> QED  BY <2>1, <2>2 DEF FiniteSubsetsOf
<1>2. Below \subseteq FiniteSubsetsOf(Nat) /\ Below # {}
  BY <1>1
<1>3. PICK b \in Below : \A d \in Below : ~(<<d, b>> \in StrictSubsetOrdering(Nat))
  <2> HIDE DEF Below
  <2> QED  BY <1>2, FS_StrictSubsetOrderingWellFounded, WFMin
<1>4. PICK x \in S : b = 0 .. (x - 1)
  BY <1>3
<1>5. ASSUME NEW y \in S, y < x  PROVE FALSE
  <2>1. 0 .. (y - 1) \in Below /\ 0 .. (y - 1) \subseteq Nat /\ 0 .. (x - 1) \subseteq Nat
    OBVIOUS
  <2>2. 0 .. (y - 1) \subseteq 0 .. (x - 1) /\ y \in 0 .. (x - 1) /\ ~(y \in 0 .. (y - 1))
    BY <1>5
  <2>3. <<0 .. (y - 1), b>> \in StrictSubsetOrdering(Nat)
    BY <1>4, <2>1, <2>2 DEF StrictSubsetOrdering
  <2> QED  BY <1>3, <2>1, <2>3
<1>6. \A y \in S : x <= y
  BY <1>5
<1> QED  BY <1>6 DEF Least

(* What the checks have said is what they say of the match: its arms do    *)
(* not change any more.                                                    *)
Verdict ==
  /\ stage = "parsing" \/ diags = Diagnose
  /\ stage \in {"accepted", "refused"} \/ Lowered => Diagnose = {}
  /\ stage = "built" => GoAccepts

LEMMA SameMatch ==
  ASSUME UNCHANGED <<subject, arms>>
  PROVE  /\ Diagnose' = Diagnose
         /\ UNCHANGED <<position, clauses>> => GoAccepts' = GoAccepts
<1>1. /\ Alternatives' = Alternatives /\ Unreachable' = Unreachable
      /\ Cells' = Cells /\ Components' = Components
  BY DEF Alternatives, Unreachable, Cells, Components
<1>2. Abstains' = Abstains /\ MissingCells' = MissingCells
  BY <1>1 DEF Abstains, TooManyCells, MissingCells
<1>3. NonExhaustive' = NonExhaustive
  BY <1>1, <1>2 DEF NonExhaustive, MissingVariants, MissingBools
<1>4. EmitsDefault' = EmitsDefault
  BY <1>1 DEF EmitsDefault
<1>5. ASSUME UNCHANGED <<position, clauses>>  PROVE GoAccepts' = GoAccepts
  BY <1>1, <1>4, <1>5 DEF GoAccepts, Guarded, IsDefault
<1>6. Diagnose' = Diagnose
  BY <1>1, <1>3 DEF Diagnose
<1> QED  BY <1>5, <1>6

LEMMA VerdictInv == Spec => []Verdict
<1>1. Init => Verdict
  BY DEF Init, Verdict, Lowered
<1>2. Verdict /\ [Next]_vars => Verdict'
  <2> SUFFICES ASSUME Verdict, [Next]_vars PROVE Verdict'
    OBVIOUS
  <2>1. ASSUME NEW p \in Pats, ParseArm(p) PROVE Verdict'
    BY <2>1 DEF ParseArm, Verdict, Lowered
  <2>2. CASE Check
    <3>1. diags' = Diagnose /\ Diagnose' = Diagnose
      BY <2>2, SameMatch DEF Check
    <3> QED  BY <2>2, <3>1 DEF Check, Verdict, Lowered
  <2>3. CASE Refuse
    BY <2>3, SameMatch DEF Refuse, Verdict, Lowered
  <2>4. ASSUME NEW pos \in Positions, Emit(pos) PROVE Verdict'
    <3>1. Diagnose' = Diagnose
      BY <2>4, SameMatch DEF Emit
    <3> QED  BY <2>4, <3>1 DEF Emit, Verdict, Lowered
  <2>5. CASE GoBuild
    <3>1. Diagnose' = Diagnose /\ GoAccepts' = GoAccepts
      BY <2>5, SameMatch DEF GoBuild
    <3> QED  BY <2>5, <3>1 DEF GoBuild, Verdict, Lowered
  <2>6. CASE UNCHANGED vars
    <3>1. Diagnose' = Diagnose /\ GoAccepts' = GoAccepts
      BY <2>6, SameMatch DEF vars
    <3> QED  BY <2>6, <3>1 DEF vars, Verdict, Lowered
  <2> QED  BY <2>1, <2>2, <2>3, <2>4, <2>5, <2>6 DEF Next
<1> QED  BY <1>1, <1>2, PTL DEF Spec

-----------------------------------------------------------------------------
(* A clause that fires, or a default, is an arm that runs.                 *)
LEMMA SomeArmRuns ==
  ASSUME Origin, Lowered, NEW v, NEW i \in DOMAIN arms,
         Fires(clauses[i], v) \/ IsDefault(clauses[i])
  PROVE  GoArm(v) # 0
<1> DEFINE hits     == {k \in DOMAIN clauses : Fires(clauses[k], v)}
           defaults == {k \in DOMAIN clauses : IsDefault(clauses[k])}
<1>1. DOMAIN clauses = DOMAIN arms /\ \A k \in DOMAIN arms : k \in Nat /\ k # 0
  BY DEF Origin, Emitted
<1>2. /\ hits \in SUBSET Nat /\ defaults \in SUBSET Nat
      /\ 0 \notin hits \cup defaults /\ hits \cup defaults # {}
  BY <1>1
<1>3. GoArm(v) = IF hits # {} THEN Least(hits)
                 ELSE IF defaults # {} THEN Least(defaults) ELSE 0
  BY DEF GoArm
<1> HIDE DEF hits, defaults
<1> QED  BY <1>2, <1>3, LeastIsOne

(* What an enumerable component's values are.                              *)
Enumerable == \A j \in Components : subject[j] \in {"sum", "bool"}

LEMMA OneTotal ==
  ASSUME Origin, Verdict, stage = "built", ~BareVariant, Enumerable, Len(subject) = 1,
         NEW v \in Values
  PROVE  GoArm(v) # 0
<1> DEFINE t == subject[1]
<1>1. /\ Components = {1} /\ t \in {"sum", "bool"} /\ t \in Types
      /\ v[1] \in CompValues(t) /\ v[1].ctor \in Ctors(t)
  BY SubjectShape DEF Enumerable, CompValues
<1>2. Lowered /\ Emitted /\ GoAccepts /\ Diagnose = {}
  BY DEF Lowered, Verdict, Origin
<1>3. SUFFICES \E i \in DOMAIN arms : Fires(clauses[i], v) \/ IsDefault(clauses[i])
  BY <1>2, SomeArmRuns
<1>4. ASSUME NEW i \in DOMAIN arms  PROVE clauses[i] = Clause(arms[i]) /\ ~ArmRefused(arms[i])
  BY <1>2 DEF Emitted
<1>5. ASSUME NEW i \in DOMAIN arms, IsCatchAll(arms[i])  PROVE IsDefault(clauses[i])
  <2>1. CASE arms[i].kind = "wild"
    BY <1>4, <2>1 DEF Clause, IsDefault
  <2>2. CASE arms[i].kind = "ident"
    <3>1. arms[i].name \notin Ctors(t) /\ IsVariant(arms[i].name)
      BY <1>4, <2>2 DEF BareVariant, ArmRefused
    <3>2. arms[i].name \in LowerCase \cup {Fresh}
      BY <1>1, <2>2, PatternShape, CompShape DEF Shape
    <3>3. t = "bool"
      BY <1>1, <3>1, <3>2, MatchCompilerAssumption DEF IsVariant, Ctors, OptionCtors
    <3>4. clauses[i][1] = {TagLabel(arms[i].name)}
      <4>1. clauses[i] = [j \in Components |-> {Label(arms[i])}]
        BY <1>4, <2>2 DEF Clause
      <4> QED  BY <1>1, <2>2, <4>1 DEF Label
    <3>5. "tag" \in DOMAIN TagLabel(arms[i].name)
      BY DEF TagLabel
    <3>6. DOMAIN clauses = DOMAIN arms
      BY <1>2 DEF Emitted
    <3> QED  BY <1>1, <1>2, <3>3, <3>4, <3>5, <3>6 DEF GoAccepts
  <2> QED  BY <1>5, <2>1, <2>2 DEF IsCatchAll
<1>6. CASE \E i \in DOMAIN arms : IsCatchAll(arms[i])
  BY <1>5, <1>6
<1>7. ASSUME NEW q \in Alternatives,
             \/ q.kind = "variant" /\ t = "sum" /\ q.ctor = v[1].ctor
             \/ q.kind = "lit" /\ q.ctor = v[1].ctor
      PROVE  \E i \in DOMAIN arms : Fires(clauses[i], v)
  <2>1. PICK i \in DOMAIN arms :
          IF arms[i].kind = "alt" THEN q \in arms[i].atoms ELSE q = arms[i]
    BY DEF Alternatives
  <2>2. Label(q) \in clauses[i][1]
    <3>1. CASE arms[i].kind = "alt"
      <4>1. clauses[i] = [j \in Components |-> {Label(a) : a \in arms[i].atoms}]
        BY <1>4, <3>1 DEF Clause
      <4> QED  BY <1>1, <2>1, <3>1, <4>1
    <3>2. CASE arms[i].kind # "alt"
      <4>1. arms[i].kind \in {"variant", "lit"} /\ q = arms[i]
        BY <1>7, <2>1, <3>2
      <4>2. clauses[i] = [j \in Components |-> {Label(q)}]
        BY <1>4, <4>1 DEF Clause
      <4> QED  BY <1>1, <4>2
    <3> QED  BY <3>1, <3>2
  <2>3. Holds(Label(q), v[1])
    BY <1>7 DEF Holds, Label, TagLabel
  <2>4. Fires(clauses[i], v)
    BY <1>1, <2>2, <2>3 DEF Fires, IsDefault
  <2> QED  BY <2>4
<1>8. CASE ~\E i \in DOMAIN arms : IsCatchAll(arms[i])
  <2>1. ~NonExhaustive
    BY <1>2, <1>8 DEF Diagnose
  <2>2. CASE t = "sum"
    <3>1. MissingVariants = {} /\ v[1].ctor \in SumCtors
      BY <1>1, <2>1, <2>2 DEF NonExhaustive, Ctors
    <3>2. PICK q \in Alternatives : q.kind = "variant" /\ q.ctor = v[1].ctor
      BY <3>1 DEF MissingVariants
    <3> QED  BY <1>7, <2>2, <3>2
  <2>3. CASE t = "bool"
    <3>1. MissingBools = {} /\ v[1].ctor \in {"true", "false"}
      BY <1>1, <2>1, <2>3 DEF NonExhaustive, Ctors
    <3>2. PICK q \in Alternatives : q.kind = "lit" /\ q.ctor = v[1].ctor
      BY <3>1 DEF MissingBools
    <3> QED  BY <1>7, <3>2
  <2> QED  BY <1>1, <2>2, <2>3
<1> QED  BY <1>6, <1>8

(* The cell of the table that a value is in.                               *)
LEMMA CellOf ==
  ASSUME Origin, Enumerable, NEW v \in Values
  PROVE  [j \in Components |-> v[j].ctor] \in Cells
<1>1. \A j \in Components : v[j].ctor \in FiniteCtors(subject[j])
  BY SubjectShape DEF Enumerable, FiniteCtors, CompValues
<1>2. Cells = Choices(subject, FiniteCtors)
  BY DEF Cells, CellsOf, Origin
<1> QED  BY <1>1, <1>2 DEF Choices, Components

LEMMA CoversSomething ==
  ASSUME NEW t \in {"sum", "bool"}, NEW p \in CompPats(t), ~CompRefused(t, p)
  PROVE  CompCovers(t, p) # {} /\ CompCovers(t, p) = AtomCovers(t, p)
<1>1. p.kind # "alt" /\ t \in Types /\ FiniteCtors(t) = Ctors(t)
  BY DEF CompRefused, Types, FiniteCtors
<1>2. Shape(t, p)
  BY <1>1, CompShape
<1>3. CompCovers(t, p) = AtomCovers(t, p)
  BY <1>1 DEF CompCovers
<1>4. Ctors(t) # {}
  <2>1. 1 \in DOMAIN SumVariants
    BY MatchCompilerAssumption
  <2> QED  BY <2>1 DEF Ctors, SumCtors
<1>5. CASE p.kind = "variant"
  <2>1. t = "sum" /\ p.ctor \in SumCtors
    BY <1>2, <1>5 DEF Shape, CompRefused
  <2>2. p.ctor \in AtomCovers(t, p)
    BY <1>1, <1>5, <2>1 DEF AtomCovers, Ctors
  <2> QED  BY <1>3, <2>2
<1>6. CASE p.kind = "lit"
  <2>1. p.ctor \in AtomCovers(t, p)
    BY <1>1, <1>2, <1>6 DEF Shape, AtomCovers
  <2> QED  BY <1>3, <2>1
<1>7. CASE p.kind \in {"wild", "ident"}
  <2>1. AtomCovers(t, p) # {}
    BY <1>1, <1>4, <1>7 DEF AtomCovers
  <2> QED  BY <1>3, <2>1
<1> QED  BY <1>2, <1>3, <1>5, <1>6, <1>7 DEF Shape

(* A component whose constructor is covered passes its test, if Go accepts *)
(* the test at all.                                                        *)
LEMMA CoveredPasses ==
  ASSUME NEW t \in {"sum", "bool"}, NEW p \in CompPats(t), ~CompRefused(t, p),
         TestsComponent(t, p), "tag" \in DOMAIN Label(p) => t = "sum",
         NEW w \in CompValues(t), w.ctor \in CompCovers(t, p)
  PROVE  Holds(Label(p), w)
<1>1. /\ p.kind # "alt" /\ t \in Types /\ FiniteCtors(t) = Ctors(t)
      /\ w.ctor \in AtomCovers(t, p) /\ w.ctor \in Ctors(t)
  BY CoversSomething DEF CompRefused, Types, FiniteCtors, CompValues
<1>2. Shape(t, p)
  BY <1>1, CompShape
<1>3. CASE p.kind = "variant"
  BY <1>1, <1>3 DEF AtomCovers, Holds, Label, TagLabel
<1>4. CASE p.kind = "lit"
  BY <1>1, <1>4 DEF AtomCovers, Holds, Label
<1>5. CASE p.kind = "ident"
  <2>1. t = "sum"
    BY <1>5 DEF Label, TagLabel
  <2>2. p.name \in SumCtors
    BY <1>5, <2>1 DEF TestsComponent, NamesVariant
  <2>3. w.ctor = p.name
    BY <1>1, <1>5, <2>1, <2>2 DEF AtomCovers, Ctors
  <2> QED  BY <1>5, <2>3 DEF Holds, Label, TagLabel
<1>6. p.kind # "wild"
  BY DEF TestsComponent
<1> QED  BY <1>2, <1>3, <1>4, <1>5, <1>6 DEF Shape

LEMMA TupleTotal ==
  ASSUME Origin, Verdict, stage = "built", Enumerable, Len(subject) # 1,
         ~TooManyCells, NEW v \in Values
  PROVE  GoArm(v) # 0
<1> DEFINE cell == [j \in Components |-> v[j].ctor]
<1>1. /\ Components # {} /\ Len(subject) > 1
      /\ \A j \in Components : subject[j] \in {"sum", "bool"} /\ v[j] \in CompValues(subject[j])
  <2>1. PICK n \in Nat : n = Len(subject) /\ Components = 1 .. n /\ Components # {}
    BY SubjectShape
  <2>2. n > 1
    BY <2>1
  <2>3. \A j \in Components : v[j] \in CompValues(subject[j])
    BY SubjectShape
  <2> QED  BY <2>1, <2>2, <2>3 DEF Enumerable
<1>2. Lowered /\ Emitted /\ GoAccepts /\ Diagnose = {}
  BY DEF Lowered, Verdict, Origin
<1>3. SUFFICES \E i \in DOMAIN arms : Fires(clauses[i], v) \/ IsDefault(clauses[i])
  BY <1>2, SomeArmRuns
<1>4. ASSUME NEW i \in DOMAIN arms
      PROVE  /\ clauses[i] = Clause(arms[i]) /\ arms[i].kind \in {"tuple", "wild"}
             /\ arms[i].kind = "tuple" => \A j \in Components :
                  /\ ~CompRefused(subject[j], arms[i].sub[j])
                  /\ arms[i].sub[j] \in CompPats(subject[j])
  <2>1. clauses[i] = Clause(arms[i]) /\ ~ArmRefused(arms[i])
    BY <1>2 DEF Emitted
  <2> QED  BY <2>1, PatternShape DEF ArmRefused
<1>5. ASSUME NEW i \in DOMAIN arms, arms[i].kind = "wild"  PROVE IsDefault(clauses[i])
  BY <1>4, <1>5 DEF Clause, IsDefault
<1>6. CASE \A i \in DOMAIN arms : arms[i].kind = "tuple"
  <2>1. ~NonExhaustive
    BY <1>2, <1>6 DEF Diagnose, IsCatchAll
  <2>2. cell \in Cells
    BY CellOf
  <2>3. ASSUME NEW i \in DOMAIN arms, NEW j \in Components
        PROVE  CompCovers(subject[j], arms[i].sub[j]) # {}
    BY <1>1, <1>4, <1>6, CoversSomething
  <2>4. ~Abstains
    BY <1>6, <2>2, <2>3 DEF Abstains
  <2>5. cell \notin MissingCells
    BY <1>1, <2>1, <2>4 DEF NonExhaustive
  <2>6. PICK i \in DOMAIN arms :
          \A j \in Components : v[j].ctor \in CompCovers(subject[j], arms[i].sub[j])
    BY <2>2, <2>5 DEF MissingCells
  <2>7. /\ arms[i].kind = "tuple"
        /\ \A j \in Components :
             clauses[i][j] = IF TestsComponent(subject[j], arms[i].sub[j])
                             THEN {Label(arms[i].sub[j])} ELSE {}
    BY <1>4, <1>6 DEF Clause
  <2>8. ASSUME NEW j \in Components, NEW l \in clauses[i][j]  PROVE Holds(l, v[j])
    <3>1. TestsComponent(subject[j], arms[i].sub[j]) /\ l = Label(arms[i].sub[j])
      BY <2>7, <2>8
    <3>2. "tag" \in DOMAIN l => subject[j] = "sum"
      <4>1. DOMAIN clauses = DOMAIN arms
        BY <1>2 DEF Emitted
      <4> QED  BY <1>1, <1>2, <2>8, <4>1 DEF GoAccepts
    <3> QED  BY <1>1, <1>4, <2>6, <2>7, <3>1, <3>2, CoveredPasses
  <2>9. Fires(clauses[i], v) \/ IsDefault(clauses[i])
    BY <2>7, <2>8 DEF Fires
  <2> QED  BY <2>9
<1> QED  BY <1>4, <1>5, <1>6

(* A match on sums and bools that is accepted and built has an arm for     *)
(* every value: whatever checkExhaustive abstains from or takes for        *)
(* covered though it is refined, no program falls through the switch.      *)
THEOREM NoValueIsDropped == Spec => []BuiltIsTotal
<1>1. Origin /\ Verdict => BuiltIsTotal
  <2> SUFFICES ASSUME Origin, Verdict, stage = "built", ~BareVariant, Enumerable,
                      ~TooManyCells, NEW v \in Values
               PROVE  GoArm(v) # 0
    BY DEF BuiltIsTotal, Enumerable
  <2> QED  BY OneTotal, TupleTotal
<1> QED  BY <1>1, OriginInv, VerdictInv, PTL

-----------------------------------------------------------------------------
(* Choosing a value for each constructor of a cell.                        *)
LEMMA ValueOf ==
  ASSUME Origin, NEW c, c = [j \in Components |-> c[j]],
         \A j \in Components : c[j] \in Ctors(subject[j])
  PROVE  [j \in Components |-> [ctor |-> c[j], pay |-> "hit"]] \in Values
<1>1. \A j \in Components : [ctor |-> c[j], pay |-> "hit"] \in CompValues(subject[j])
  BY DEF CompValues
<1>2. Values = Choices(subject, CompValues)
  BY DEF Values, ValuesOf, Origin
<1> QED  BY <1>1, <1>2 DEF Choices, Components

LEMMA NothingMatches ==
  ASSUME NEW v, \A i \in DOMAIN arms : ~Matches(arms[i], v)
  PROVE  SourceArm(v) = 0
BY DEF SourceArm

(* A variant no arm names, a boolean no arm lists, is a value no arm       *)
(* matches.                                                                *)
LEMMA OneMissing ==
  ASSUME Origin, Len(subject) = 1, NonExhaustive,
         \A i \in DOMAIN arms : ~IsCatchAll(arms[i])
  PROVE  \E v \in Values : SourceArm(v) = 0
<1> DEFINE t == subject[1]
<1>1. Components = {1} /\ t \in Types
  BY SubjectShape
<1>2. PICK k \in Ctors(t) :
        /\ t \in {"sum", "bool"}
        /\ t = "sum" => \A q \in Alternatives : q.kind = "variant" => q.ctor # k
        /\ t = "bool" => \A q \in Alternatives : q.kind = "lit" => q.ctor # k
  <2>1. CASE t = "sum" /\ MissingVariants # {}
    <3>1. PICK k \in MissingVariants : TRUE
      BY <2>1
    <3> QED  BY <2>1, <3>1 DEF MissingVariants, Ctors
  <2>2. CASE t = "bool" /\ MissingBools # {}
    <3>1. PICK k \in MissingBools : TRUE
      BY <2>2
    <3> QED  BY <2>2, <3>1 DEF MissingBools, Ctors
  <2> QED  BY <2>1, <2>2 DEF NonExhaustive
<1> DEFINE w == [ctor |-> k, pay |-> "hit"]
           v == [j \in Components |-> w]
<1>3. v \in Values
  <2> DEFINE c == [j \in Components |-> k]
  <2>1. c = [j \in Components |-> c[j]] /\ \A j \in Components : c[j] \in Ctors(subject[j])
    BY <1>1
  <2>2. [j \in Components |-> [ctor |-> c[j], pay |-> "hit"]] \in Values
    <3> HIDE DEF c
    <3> QED  BY <2>1, ValueOf
  <2> QED  BY <2>2
<1>4. ASSUME NEW q \in Alternatives, Shape(t, q), ~IsCatchAll(q)
      PROVE  ~AtomMatches(t, q, w)
  <2>1. \/ q.kind = "lit" /\ t = "bool"
        \/ q.kind = "variant" /\ t = "sum"
    BY <1>2, <1>4 DEF Shape, IsCatchAll
  <2>2. q.ctor # k
    BY <1>2, <2>1
  <2> QED  BY <2>1, <2>2 DEF AtomMatches
<1>5. ASSUME NEW i \in DOMAIN arms  PROVE ~Matches(arms[i], v)
  <2>1. arms[i] \in CompPats(t) /\ ~IsCatchAll(arms[i])
    BY PatternShape
  <2>2. CASE arms[i].kind = "alt"
    <3>1. arms[i].atoms \subseteq Atoms(t)
      BY <1>1, <2>1, <2>2, CompShape DEF Shape
    <3>2. ASSUME NEW a \in arms[i].atoms  PROVE ~AtomMatches(t, a, w)
      <4>1. a \in Alternatives
        BY <2>2 DEF Alternatives
      <4>2. Shape(t, a) /\ ~IsCatchAll(a)
        BY <1>1, <3>1, AtomShape DEF IsCatchAll
      <4> QED  BY <1>4, <4>1, <4>2
    <3>3. ~CompMatches(t, arms[i], w)
      BY <2>2, <3>2 DEF CompMatches
    <3>4. v[1] = w
      BY <1>1
    <3> HIDE DEF v, w
    <3> QED  BY <2>2, <3>3, <3>4 DEF Matches
  <2>3. CASE arms[i].kind # "alt"
    <3>1. Shape(t, arms[i])
      BY <1>1, <2>1, <2>3, CompShape
    <3>2. arms[i] \in Alternatives
      BY <2>3 DEF Alternatives
    <3>3. ~CompMatches(t, arms[i], w)
      BY <1>4, <2>1, <2>3, <3>1, <3>2 DEF CompMatches
    <3>4. v[1] = w /\ arms[i].kind # "tuple"
      BY <1>1, <3>1 DEF Shape
    <3> HIDE DEF v, w
    <3> QED  BY <3>3, <3>4 DEF Matches
  <2> QED  BY <2>2, <2>3
<1> HIDE DEF v
<1> QED  BY <1>3, <1>5, NothingMatches

(* What a component pattern matches it covers.                             *)
LEMMA MatchedIsCovered ==
  ASSUME NEW t, NEW p, NEW w, w.ctor \in FiniteCtors(t), CompCovers(t, p) # {},
         CompMatches(t, p, w)
  PROVE  w.ctor \in CompCovers(t, p)
<1>1. FiniteCtors(t) = Ctors(t)
  BY DEF FiniteCtors
<1>2. ASSUME NEW a, AtomMatches(t, a, w)  PROVE w.ctor \in AtomCovers(t, a)
  <2>1. CASE a.kind = "ident"
    BY <1>1, <1>2, <2>1 DEF AtomMatches, AtomCovers
  <2>2. CASE a.kind # "ident"
    BY <1>2, <2>2 DEF AtomMatches, AtomCovers
  <2> QED  BY <2>1, <2>2
<1>3. CASE p.kind = "alt"
  <2>1. CompCovers(t, p) = UNION {AtomCovers(t, a) : a \in p.atoms}
    BY <1>3 DEF CompCovers
  <2>2. PICK a \in p.atoms : AtomMatches(t, a, w)
    BY <1>3 DEF CompMatches
  <2> QED  BY <1>2, <2>1, <2>2
<1>4. CASE p.kind # "alt"
  BY <1>2, <1>4 DEF CompMatches, CompCovers
<1> QED  BY <1>3, <1>4

LEMMA TupleMissing ==
  ASSUME Origin, Len(subject) # 1, NonExhaustive
  PROVE  \E v \in Values : SourceArm(v) = 0
<1>1. /\ ~Abstains /\ MissingCells # {}
  <2>1. PICK n \in Nat : n = Len(subject) /\ Components = 1 .. n /\ Components # {}
    BY SubjectShape
  <2>2. n > 1
    BY <2>1
  <2> QED  BY <2>1, <2>2 DEF NonExhaustive
<1>2. PICK c \in Cells : \A i \in DOMAIN arms :
        \E j \in Components : c[j] \notin CompCovers(subject[j], arms[i].sub[j])
  BY <1>1 DEF MissingCells
<1>3. c = [j \in Components |-> c[j]] /\ \A j \in Components : c[j] \in FiniteCtors(subject[j])
  <2>1. Cells = Choices(subject, FiniteCtors)
    BY DEF Cells, CellsOf, Origin
  <2> QED  BY <2>1 DEF Choices, Components
<1> DEFINE v == [j \in Components |-> [ctor |-> c[j], pay |-> "hit"]]
<1>4. v \in Values
  <2>1. \A j \in Components : c[j] \in Ctors(subject[j])
    BY <1>3 DEF FiniteCtors
  <2> QED  BY <1>3, <2>1, ValueOf
<1>5. ASSUME NEW i \in DOMAIN arms  PROVE ~Matches(arms[i], v)
  <2>1. PICK j \in Components : c[j] \notin CompCovers(subject[j], arms[i].sub[j])
    BY <1>2
  <2>2. arms[i].kind = "tuple" /\ CompCovers(subject[j], arms[i].sub[j]) # {}
    BY <1>1 DEF Abstains
  <2>3. v[j].ctor = c[j] /\ c[j] \in FiniteCtors(subject[j])
    BY <1>3
  <2>4. ~CompMatches(subject[j], arms[i].sub[j], v[j])
    <3> HIDE DEF v
    <3> QED  BY <2>1, <2>2, <2>3, MatchedIsCovered
  <2> HIDE DEF v
  <2> QED  BY <2>2, <2>4 DEF Matches
<1> HIDE DEF v
<1> QED  BY <1>4, <1>5, NothingMatches

(* A rejected match has a value no arm matches, or an arm no value         *)
(* reaches (internal/sema/exhaust.go:15: no exhaustive match is rejected). *)
THEOREM NoRejectionWithoutCause == Spec => []RejectedForCause
<1>1. ASSUME Origin, Verdict, stage = "rejected"
      PROVE  /\ "E0303" \in diags => \E v \in Values : SourceArm(v) = 0
             /\ "E0304" \in diags /\ ~BareVariant =>
                  \A i \in Unreachable : \A v \in Values : SourceArm(v) # i
  <2>1. diags = Diagnose
    BY <1>1 DEF Verdict
  <2>2. ASSUME "E0303" \in diags  PROVE \E v \in Values : SourceArm(v) = 0
    <3>1. NonExhaustive /\ \A i \in DOMAIN arms : ~IsCatchAll(arms[i])
      BY <2>1, <2>2 DEF Diagnose
    <3> QED  BY <1>1, <3>1, OneMissing, TupleMissing
  <2>3. ASSUME ~BareVariant, NEW i \in Unreachable, NEW v \in Values  PROVE SourceArm(v) # i
    <3>1. PICK k \in DOMAIN arms : k < i /\ IsCatchAll(arms[k])
      BY DEF Unreachable
    <3>2. Matches(arms[k], v)
      BY <2>3, <3>1 DEF BareVariant, IsCatchAll, Matches, CompMatches, AtomMatches
    <3> DEFINE hits == {n \in DOMAIN arms : Matches(arms[n], v)}
    <3>3. hits \in SUBSET Nat /\ k \in hits /\ i \in Nat
      BY <1>1, <3>2 DEF Origin, Unreachable
    <3>4. SourceArm(v) = Least(hits)
      BY <3>3 DEF SourceArm
    <3>5. Least(hits) \in hits /\ Least(hits) <= k
      <4> HIDE DEF hits
      <4> QED  BY <3>3, LeastIsOne
    <3>6. PICK least \in Nat : least = SourceArm(v) /\ least <= k /\ k \in Nat
      <4> HIDE DEF hits
      <4> QED  BY <3>3, <3>4, <3>5
    <3> HIDE DEF hits
    <3> QED  BY <3>1, <3>3, <3>6
  <2> QED  BY <2>2, <2>3
<1>2. Origin /\ Verdict => RejectedForCause
  BY <1>1 DEF RejectedForCause
<1> QED  BY <1>2, OriginInv, VerdictInv, PTL

-----------------------------------------------------------------------------
(* The paths down to a jump (JumpLowering), from LoweredBodies.             *)

IsHighest(n, S) == IF S = {} THEN n = 0 ELSE n \in S /\ \A j \in S : j <= n

LEMMA HighestIs ==
  ASSUME NEW S \in SUBSET Nat, NEW n \in Nat, IsHighest(n, S)
  PROVE  Paths!Highest(S) = n
<1>1. CASE S = {}
  BY <1>1 DEF IsHighest, Paths!Highest
<1>2. CASE S # {}
  <2>1. n \in S /\ \A j \in S : j <= n
    BY <1>2 DEF IsHighest
  <2>2. \A i \in S : (\A j \in S : j <= i) => i = n
    BY <2>1
  <2>3. Paths!Highest(S) = CHOOSE i \in S : \A j \in S : j <= i
    BY <1>2 DEF Paths!Highest
  <2> QED  BY <2>1, <2>2, <2>3
<1> QED  BY <1>1, <1>2

(* The constructs of the path, and those of Go that are open.              *)
Construct == [k : Paths!Kinds, part : {"only", "one", "both", "elif", "unit", "value", "body"},
              last : BOOLEAN]
GoConstruct == [k : {"func", "iife", "for", "switch"}, at : Nat]

(* y is the innermost Go function.                                         *)
FunctionsOf(go) == {n \in 1 .. Len(go) : go[n].k \in {"func", "iife"}}
Innermost(go, y) == \E n \in Nat : n > 0 /\ IsHighest(n, FunctionsOf(go)) /\ go[n] = y

LEMMA Pushed ==
  ASSUME NEW go \in Seq(GoConstruct), NEW y, Innermost(go, y), NEW x \in GoConstruct
  PROVE  /\ Append(go, x) \in Seq(GoConstruct)
         /\ x.k \in {"func", "iife"} => Innermost(Append(go, x), x)
         /\ x.k \notin {"func", "iife"} => Innermost(Append(go, x), y)
<1>1. PICK l \in Nat : l = Len(go)
  OBVIOUS
<1>2. PICK n \in Nat : n > 0 /\ IsHighest(n, FunctionsOf(go)) /\ go[n] = y
  BY DEF Innermost
<1>3. PICK more : more = Append(go, x)
  OBVIOUS
<1>4. /\ more \in Seq(GoConstruct) /\ Len(more) = l + 1 /\ more[l + 1] = x
      /\ \A i \in 1 .. l : more[i] = go[i]
  BY <1>1, <1>3
<1>5. n \in 1 .. l /\ go[n].k \in {"func", "iife"} /\ \A i \in FunctionsOf(go) : i <= n
  BY <1>1, <1>2 DEF IsHighest, FunctionsOf
<1>6. 1 .. (l + 1) = (1 .. l) \cup {l + 1} /\ l + 1 \notin 1 .. l
  BY <1>1
<1>7. FunctionsOf(more) = FunctionsOf(go) \cup (IF x.k \in {"func", "iife"} THEN {l + 1} ELSE {})
  BY <1>1, <1>4, <1>6 DEF FunctionsOf
<1>8. CASE x.k \in {"func", "iife"}
  <2>1. \A i \in FunctionsOf(more) : i <= l + 1
    BY <1>1, <1>4 DEF FunctionsOf
  <2>2. l + 1 \in FunctionsOf(more) /\ l + 1 \in Nat /\ l + 1 > 0
    BY <1>1, <1>7, <1>8
  <2> QED  BY <1>3, <1>4, <1>8, <2>1, <2>2 DEF Innermost, IsHighest
<1>9. CASE x.k \notin {"func", "iife"}
  <2>1. FunctionsOf(more) = FunctionsOf(go) /\ more[n] = y
    BY <1>2, <1>4, <1>5, <1>7, <1>9
  <2> QED  BY <1>2, <1>3, <1>4, <1>9, <2>1 DEF Innermost
<1> QED  BY <1>3, <1>4, <1>8, <1>9

(* A construct is a frame or not.                                          *)
FramesAbove(i) == {j \in 1 .. (i - 1) : prog[j].k \in Paths!Frames}

LEMMA OneFurther ==
  ASSUME NEW i \in Nat, i >= 1, NEW f \in Nat, IsHighest(f, FramesAbove(i))
  PROVE  /\ prog[i].k \in Paths!Frames => IsHighest(i, FramesAbove(i + 1))
         /\ prog[i].k \notin Paths!Frames => IsHighest(f, FramesAbove(i + 1))
<1>1. 1 .. ((i + 1) - 1) = (1 .. (i - 1)) \cup {i} /\ \A j \in 1 .. (i - 1) : j <= i
  OBVIOUS
<1>2. FramesAbove(i + 1) = FramesAbove(i) \cup (IF prog[i].k \in Paths!Frames THEN {i} ELSE {})
  BY <1>1 DEF FramesAbove
<1>3. \A j \in FramesAbove(i) : j <= i
  BY <1>1 DEF FramesAbove
<1> QED  BY <1>2, <1>3 DEF IsHighest

-----------------------------------------------------------------------------
PathTyped ==
  /\ prog \in Seq(Construct) /\ at \in Nat
  /\ DOMAIN out = {"ctx", "loops", "go", "inSpawn", "jump", "label"}
  /\ out.go \in Seq(GoConstruct)

(* A jump ends the path, and the emission ends with the jump.              *)
OneJump ==
  /\ \A i \in DOMAIN prog : i < Len(prog) => prog[i].k \notin Paths!Jumps
  /\ progress = "writing" => at = 1
  /\ progress \in {"checked", "emitted"} => /\ at \in 1 .. Len(prog)
                                            /\ prog[Len(prog)].k \in Paths!Jumps
  /\ progress = "emitted" =>
       /\ at = Len(prog)
       /\ prog[Len(prog)].k \in {"return", "try"} => (out.jump = "error" <=> out.inSpawn)

(* The innermost Go function is the innermost frame, or a literal that     *)
(* stands for a value in it, and the flag says whether it is a task's.     *)
Innermosts(f, y) ==
  /\ IsHighest(f, FramesAbove(at)) /\ Innermost(out.go, y)
  /\ y.k = "func" => y.at = f
  /\ y.k = "iife" => y.at > f
  /\ out.inSpawn <=> (f > 0 /\ prog[f].k = "spawn")

InFrame == \E f \in Nat, y \in GoConstruct : Innermosts(f, y)

PInv == PathTyped /\ OneJump /\ InFrame

LEMMA PathBegins == Paths!Init => PInv
<1> SUFFICES ASSUME Paths!Init  PROVE PInv
  OBVIOUS
<1>1. /\ prog = <<>> /\ at = 1 /\ progress = "writing" /\ Len(prog) = 0
      /\ out.go = <<[k |-> "func", at |-> 0]>> /\ out.inSpawn = FALSE
      /\ DOMAIN out = {"ctx", "loops", "go", "inSpawn", "jump", "label"}
  BY DEF Paths!Init, Paths!Start
<1>2. PICK y \in GoConstruct : y = [k |-> "func", at |-> 0]
  BY DEF GoConstruct
<1>3. FunctionsOf(out.go) = {1} /\ out.go[1] = y /\ out.go \in Seq(GoConstruct)
  BY <1>1, <1>2 DEF FunctionsOf
<1>4. Innermost(out.go, y)
  BY <1>3 DEF Innermost, IsHighest
<1>5. FramesAbove(at) = {}
  BY <1>1 DEF FramesAbove
<1>6. InFrame
  <2>1. IsHighest(0, FramesAbove(at)) /\ y.k = "func" /\ y.at = 0
    BY <1>2, <1>5 DEF IsHighest
  <2>2. Innermosts(0, y)
    <3>1. ~(out.inSpawn) /\ ~(0 > 0)
      BY <1>1
    <3> QED  BY <1>4, <2>1, <3>1 DEF Innermosts
  <2> QED  BY <2>2 DEF InFrame
<1> QED  BY <1>1, <1>3, <1>6 DEF PInv, PathTyped, OneJump

(* What an emission step that goes on does to the Go that is open and to   *)
(* the flag.                                                               *)
Fields == {"ctx", "loops", "go", "inSpawn", "jump", "label"}

Opened(k, i) == [k |-> k, at |-> i]

LEMMA OpensAndMoves ==
  ASSUME NEW o, DOMAIN o = Fields
  PROVE  /\ \A k, i : /\ Paths!Open(o, k, i).go = Append(o.go, Opened(k, i))
                      /\ Paths!Open(o, k, i).inSpawn = o.inSpawn
                      /\ DOMAIN Paths!Open(o, k, i) = Fields
         /\ \A c : /\ Paths!In(o, c).go = o.go /\ Paths!In(o, c).inSpawn = o.inSpawn
                   /\ DOMAIN Paths!In(o, c) = Fields
         /\ Paths!EnterSwitch(o).go = o.go /\ Paths!EnterSwitch(o).inSpawn = o.inSpawn
         /\ DOMAIN Paths!EnterSwitch(o) = Fields
BY DEF Fields, Opened, Paths!Open, Paths!In, Paths!EnterSwitch

(* The three kinds of steps.                                               *)
Inside == /\ prog[at].k \notin Paths!Frames \cup Paths!Jumps
          /\ out'.inSpawn <=> out.inSpawn
          /\ \/ out'.go = out.go
             \/ \E k \in {"for", "switch", "iife"} : out'.go = Append(out.go, Opened(k, at))
             \/ out'.go = Append(Append(out.go, Opened("iife", at)),
                                 Opened("switch", at))

IntoFrame == /\ prog[at].k \in Paths!Frames
             /\ out'.inSpawn <=> prog[at].k = "spawn"
             /\ out'.go = Append(out.go, Opened("func", at))

(* One construct of Go opened, from an emitter like out in its fields.     *)
LEMMA EmitsOne ==
  ASSUME NEW o, DOMAIN o = Fields, NEW k, NEW c, Paths!Emit(Paths!In(Paths!Open(o, k, at), c))
  PROVE  /\ out'.go = Append(o.go, Opened(k, at)) /\ out'.inSpawn = o.inSpawn
         /\ DOMAIN out' = Fields /\ at' = at + 1 /\ UNCHANGED progress
<1>1. PICK n : n = Paths!Open(o, k, at)
  OBVIOUS
<1>2. n.go = Append(o.go, Opened(k, at)) /\ n.inSpawn = o.inSpawn /\ DOMAIN n = Fields
  BY <1>1, OpensAndMoves
<1>3. PICK p : p = Paths!In(n, c)
  OBVIOUS
<1>4. p.go = n.go /\ p.inSpawn = n.inSpawn /\ DOMAIN p = Fields
  BY <1>2, <1>3, OpensAndMoves
<1>5. out' = p /\ at' = at + 1 /\ UNCHANGED progress
  BY <1>1, <1>3 DEF Paths!Emit
<1> QED  BY <1>2, <1>4, <1>5

LEMMA EmitsNone ==
  ASSUME DOMAIN out = Fields, NEW c, Paths!Emit(Paths!In(out, c))
  PROVE  /\ out'.go = out.go /\ out'.inSpawn = out.inSpawn
         /\ DOMAIN out' = Fields /\ at' = at + 1 /\ UNCHANGED progress
BY OpensAndMoves DEF Paths!Emit

LEMMA OpensOne ==
  ASSUME NEW o, DOMAIN o = Fields, NEW k, NEW i
  PROVE  /\ DOMAIN Paths!Open(o, k, i) = Fields
         /\ Paths!Open(o, k, i).go = Append(o.go, Opened(k, i))
         /\ Paths!Open(o, k, i).inSpawn = o.inSpawn
BY OpensAndMoves

(* Every step of emission that goes on is of one of the three kinds.       *)
LEMMA Emissions ==
  ASSUME PathTyped, Paths!Emission, ~Paths!EmitJump, progress' # "refused"
  PROVE  /\ progress = "checked" /\ UNCHANGED <<prog, progress>> /\ at' = at + 1
         /\ DOMAIN out' = Fields /\ (Inside \/ IntoFrame)
<1>1. CASE Paths!EmitLoop
  <2>1. /\ progress = "checked" /\ prog[at].k = "loop" /\ UNCHANGED prog
        /\ \E c, frame :
             Paths!Emit(Paths!In(Paths!Open([out EXCEPT !.loops = Append(@, frame)], "for", at), c))
    BY <1>1 DEF Paths!EmitLoop, Paths!Reaches, Paths!Proceed, Paths!Refuse
  <2>2. PICK c, frame :
          Paths!Emit(Paths!In(Paths!Open([out EXCEPT !.loops = Append(@, frame)], "for", at), c))
    BY <2>1
  <2>3. PICK o : o = [out EXCEPT !.loops = Append(@, frame)]
    OBVIOUS
  <2>4. DOMAIN o = Fields /\ o.go = out.go /\ o.inSpawn = out.inSpawn
    BY <2>3 DEF PathTyped, Fields
  <2> QED  BY <2>1, <2>2, <2>3, <2>4, EmitsOne DEF Inside, Paths!Frames, Paths!Jumps
<1>2. CASE Paths!EmitIf
  <2>1. /\ progress = "checked" /\ prog[at].k = "if" /\ UNCHANGED prog
        /\ \E c : Paths!Emit(Paths!In(out, c))
    BY <1>2 DEF Paths!EmitIf, Paths!Reaches, Paths!Proceed, Paths!Refuse
  <2> QED  BY <2>1, EmitsNone DEF PathTyped, Fields, Inside, Paths!Frames, Paths!Jumps
<1>3. CASE Paths!EmitIfExprAsValue
  <2>1. /\ progress = "checked" /\ prog[at].k = "if" /\ UNCHANGED prog
        /\ \E c : Paths!Emit(Paths!In(Paths!Open(out, "iife", at), c))
    BY <1>3 DEF Paths!EmitIfExprAsValue, Paths!Reaches, Paths!Proceed, Paths!Refuse
  <2>2. DOMAIN out = Fields /\ out.go = out.go /\ out.inSpawn = out.inSpawn
    BY OpensAndMoves DEF PathTyped, Fields
  <2> QED  BY <2>1, <2>2, EmitsOne DEF Inside, IntoFrame, Paths!Frames, Paths!Jumps
<1>4. CASE Paths!EmitMatchSwitch
  <2>1. /\ progress = "checked" /\ prog[at].k = "match" /\ UNCHANGED prog
        /\ \E c : Paths!Emit(Paths!In(Paths!Open(Paths!EnterSwitch(out), "switch", at), c))
    BY <1>4 DEF Paths!EmitMatchSwitch, Paths!Reaches, Paths!Proceed, Paths!Refuse
  <2>2. DOMAIN Paths!EnterSwitch(out) = Fields /\ Paths!EnterSwitch(out).go = out.go /\ Paths!EnterSwitch(out).inSpawn = out.inSpawn
    BY OpensAndMoves DEF PathTyped, Fields
  <2> QED  BY <2>1, <2>2, EmitsOne DEF Inside, IntoFrame, Paths!Frames, Paths!Jumps
<1>5. CASE Paths!EmitMatchAsExpr
  <2>1. /\ progress = "checked" /\ prog[at].k = "match" /\ UNCHANGED prog
        /\ \E c : Paths!Emit(Paths!In(Paths!Open(Paths!Open(out, "iife", at), "switch", at), c))
    BY <1>5 DEF Paths!EmitMatchAsExpr, Paths!Reaches, Paths!Proceed, Paths!Refuse
  <2>2. PICK o : o = Paths!Open(out, "iife", at)
    OBVIOUS
  <2>3. /\ DOMAIN o = Fields /\ o.go = Append(out.go, Opened("iife", at))
        /\ o.inSpawn = out.inSpawn
    <3>1. DOMAIN out = Fields
      BY DEF PathTyped, Fields
    <3>2. /\ DOMAIN Paths!Open(out, "iife", at) = Fields
          /\ Paths!Open(out, "iife", at).go = Append(out.go, Opened("iife", at))
          /\ Paths!Open(out, "iife", at).inSpawn = out.inSpawn
      BY <3>1, OpensOne
    <3> QED  BY <2>2, <3>2
  <2> QED  BY <2>1, <2>2, <2>3, EmitsOne DEF Inside, Paths!Frames, Paths!Jumps
<1>6. CASE Paths!EmitBlock
  <2>1. /\ progress = "checked" /\ prog[at].k = "block" /\ UNCHANGED prog
        /\ \E c : Paths!Emit(Paths!In(out, c))
    BY <1>6 DEF Paths!EmitBlock, Paths!Reaches, Paths!Proceed, Paths!Refuse
  <2> QED  BY <2>1, EmitsNone DEF PathTyped, Fields, Inside, Paths!Frames, Paths!Jumps
<1>7. CASE Paths!EmitBlockAsExpr
  <2>1. /\ progress = "checked" /\ prog[at].k = "block" /\ UNCHANGED prog
        /\ \E c : Paths!Emit(Paths!In(Paths!Open(out, "iife", at), c))
    BY <1>7 DEF Paths!EmitBlockAsExpr, Paths!Reaches, Paths!Proceed, Paths!Refuse
  <2>2. DOMAIN out = Fields /\ out.go = out.go /\ out.inSpawn = out.inSpawn
    BY OpensAndMoves DEF PathTyped, Fields
  <2> QED  BY <2>1, <2>2, EmitsOne DEF Inside, IntoFrame, Paths!Frames, Paths!Jumps
<1>8. CASE Paths!EmitSelect
  <2>1. /\ progress = "checked" /\ prog[at].k = "select" /\ UNCHANGED prog
        /\ \E c : Paths!Emit(Paths!In(Paths!Open(Paths!EnterSwitch(out), "switch", at), c))
    BY <1>8 DEF Paths!EmitSelect, Paths!Reaches, Paths!Proceed, Paths!Refuse
  <2>2. DOMAIN Paths!EnterSwitch(out) = Fields /\ Paths!EnterSwitch(out).go = out.go /\ Paths!EnterSwitch(out).inSpawn = out.inSpawn
    BY OpensAndMoves DEF PathTyped, Fields
  <2> QED  BY <2>1, <2>2, EmitsOne DEF Inside, IntoFrame, Paths!Frames, Paths!Jumps
<1>9. CASE Paths!EmitCatch
  <2>1. /\ progress = "checked" /\ prog[at].k = "catch" /\ UNCHANGED prog
        /\ \/ \E c : Paths!Emit(Paths!In(out, c))
           \/ \E c : Paths!Emit(Paths!In(Paths!Open(Paths!EnterSwitch(out), "switch", at), c))
    BY <1>9 DEF Paths!EmitCatch, Paths!Reaches, Paths!Proceed, Paths!Refuse
  <2>2. PICK o : o = Paths!EnterSwitch(out)
    OBVIOUS
  <2>3. DOMAIN o = Fields /\ o.go = out.go /\ o.inSpawn = out.inSpawn /\ DOMAIN out = Fields
    <3>1. DOMAIN out = Fields
      BY DEF PathTyped, Fields
    <3> QED  BY <2>2, <3>1, OpensAndMoves
  <2>4. CASE \E c : Paths!Emit(Paths!In(out, c))
    BY <2>1, <2>3, <2>4, EmitsNone DEF Inside, Paths!Frames, Paths!Jumps
  <2>5. CASE \E c : Paths!Emit(Paths!In(Paths!Open(o, "switch", at), c))
    BY <2>1, <2>3, <2>5, EmitsOne DEF Inside, Paths!Frames, Paths!Jumps
  <2> QED  BY <2>1, <2>2, <2>4, <2>5
<1>10. CASE Paths!EmitLet
  <2>1. /\ progress = "checked" /\ prog[at].k = "let" /\ UNCHANGED prog
        /\ \E c : Paths!Emit(Paths!In(out, c))
    BY <1>10 DEF Paths!EmitLet, Paths!Reaches, Paths!Proceed, Paths!Refuse
  <2> QED  BY <2>1, EmitsNone DEF PathTyped, Fields, Inside, Paths!Frames, Paths!Jumps
<1>11. CASE Paths!EmitReturnOf
  <2>1. /\ progress = "checked" /\ prog[at].k = "ret" /\ UNCHANGED prog
        /\ \E c : Paths!Emit(Paths!In(out, c))
    BY <1>11 DEF Paths!EmitReturnOf, Paths!Reaches, Paths!Proceed, Paths!Refuse
  <2> QED  BY <2>1, EmitsNone DEF PathTyped, Fields, Inside, Paths!Frames, Paths!Jumps
<1>12. CASE Paths!EmitCall
  <2>1. /\ progress = "checked" /\ prog[at].k = "arg" /\ UNCHANGED prog
        /\ \E c : Paths!Emit(Paths!In(out, c))
    BY <1>12 DEF Paths!EmitCall, Paths!Reaches, Paths!Proceed, Paths!Refuse
  <2> QED  BY <2>1, EmitsNone DEF PathTyped, Fields, Inside, Paths!Frames, Paths!Jumps
<1>13. CASE Paths!EmitClosure
  <2>1. /\ progress = "checked" /\ prog[at].k \in {"closure", "funcLit"} /\ UNCHANGED prog
        /\ \E c : Paths!Emit(Paths!In(Paths!Open([out EXCEPT !.inSpawn = FALSE], "func", at), c))
    BY <1>13 DEF Paths!EmitClosure, Paths!Reaches, Paths!Proceed, Paths!Refuse
  <2>2. DOMAIN [out EXCEPT !.inSpawn = FALSE] = Fields /\ [out EXCEPT !.inSpawn = FALSE].go = out.go /\ ~[out EXCEPT !.inSpawn = FALSE].inSpawn
    BY OpensAndMoves DEF PathTyped, Fields
  <2> QED  BY <2>1, <2>2, EmitsOne DEF Inside, IntoFrame, Paths!Frames, Paths!Jumps
<1>14. CASE Paths!EmitScope
  <2>1. /\ progress = "checked" /\ prog[at].k = "scope" /\ UNCHANGED prog
        /\ \E c : Paths!Emit(Paths!In(Paths!Open([out EXCEPT !.inSpawn = FALSE], "func", at), c))
    BY <1>14 DEF Paths!EmitScope, Paths!Reaches, Paths!Proceed, Paths!Refuse
  <2>2. DOMAIN [out EXCEPT !.inSpawn = FALSE] = Fields /\ [out EXCEPT !.inSpawn = FALSE].go = out.go /\ ~[out EXCEPT !.inSpawn = FALSE].inSpawn
    BY OpensAndMoves DEF PathTyped, Fields
  <2> QED  BY <2>1, <2>2, EmitsOne DEF Inside, IntoFrame, Paths!Frames, Paths!Jumps
<1>15. CASE Paths!EmitSpawn
  <2>1. /\ progress = "checked" /\ prog[at].k = "spawn" /\ UNCHANGED prog
        /\ \E c : Paths!Emit(Paths!In(Paths!Open([out EXCEPT !.inSpawn = TRUE], "func", at), c))
    BY <1>15 DEF Paths!EmitSpawn, Paths!Reaches, Paths!Proceed, Paths!Refuse
  <2>2. DOMAIN [out EXCEPT !.inSpawn = TRUE] = Fields /\ [out EXCEPT !.inSpawn = TRUE].go = out.go /\ [out EXCEPT !.inSpawn = TRUE].inSpawn
    BY OpensAndMoves DEF PathTyped, Fields
  <2> QED  BY <2>1, <2>2, EmitsOne DEF Inside, IntoFrame, Paths!Frames, Paths!Jumps
<1> QED
  BY <1>1, <1>2, <1>3, <1>4, <1>5, <1>6, <1>7, <1>8, <1>9, <1>10, <1>11, <1>12, <1>13, <1>14, <1>15
  DEF Paths!Emission

(* A refusal changes nothing but the verdict.                              *)
LEMMA Refusals ==
  ASSUME Paths!Emission, progress' = "refused"
  PROVE  UNCHANGED <<prog, at, out>>
BY DEF Paths!Emission, Paths!EmitLoop, Paths!EmitIf, Paths!EmitIfExprAsValue,
       Paths!EmitMatchSwitch, Paths!EmitMatchAsExpr, Paths!EmitBlock, Paths!EmitBlockAsExpr,
       Paths!EmitSelect, Paths!EmitCatch, Paths!EmitLet, Paths!EmitReturnOf, Paths!EmitCall,
       Paths!EmitClosure, Paths!EmitScope, Paths!EmitSpawn, Paths!EmitJump, Paths!Reaches,
       Paths!Proceed, Paths!Emit, Paths!Refuse

(* Same path above, same Go, same flag: same frame.                        *)
LEMMA FrameKept ==
  ASSUME InFrame, UNCHANGED <<prog, at, out>>
  PROVE  InFrame'
<1>1. PICK f \in Nat, y \in GoConstruct : Innermosts(f, y)
  BY DEF InFrame
<1>2. FramesAbove(at)' = FramesAbove(at)
  BY DEF FramesAbove
<1>3. Innermosts(f, y)'
  BY <1>1, <1>2 DEF Innermosts, Innermost, FunctionsOf, IsHighest
<1> QED  BY <1>3 DEF InFrame

LEMMA WriteStep == PInv /\ Paths!Write => PInv'
<1> SUFFICES ASSUME PInv, Paths!Write  PROVE PInv'
  OBVIOUS
<1>1. PICK k \in Paths!Kinds : \E part \in Paths!Parts(k), last \in BOOLEAN :
                                 prog' = Append(prog, Paths!Node(k, part, last))
  BY DEF Paths!Write
<1>2. PICK part \in Paths!Parts(k), last \in BOOLEAN :
        prog' = Append(prog, Paths!Node(k, part, last))
  BY <1>1
<1>3. PICK c \in Construct : c = Paths!Node(k, part, last)
  BY DEF Construct, Paths!Node, Paths!Parts
<1>4. /\ prog \in Seq(Construct) /\ progress = "writing" /\ at = 1
      /\ UNCHANGED <<unit, others, progress, at, out>>
      /\ Len(prog) + 1 = 1 \/ prog[Len(prog)].k \notin Paths!Jumps
  BY DEF PInv, PathTyped, OneJump, Paths!Write
<1>5. PICK l \in Nat : l = Len(prog)
  BY <1>4
<1>6. /\ prog' \in Seq(Construct) /\ Len(prog') = l + 1 /\ DOMAIN prog' = 1 .. (l + 1)
      /\ \A i \in 1 .. l : prog'[i] = prog[i]
  BY <1>2, <1>3, <1>4, <1>5
<1>7. PathTyped'
  BY <1>4, <1>6 DEF PInv, PathTyped
<1>8. OneJump'
  <2>1. ASSUME NEW i \in 1 .. (l + 1), i < l + 1  PROVE prog'[i].k \notin Paths!Jumps
    <3>1. i \in 1 .. l /\ DOMAIN prog = 1 .. l
      BY <1>4, <1>5, <2>1
    <3>2. CASE i = l
      BY <1>4, <1>5, <1>6, <3>1, <3>2
    <3>3. CASE i # l
      BY <1>4, <1>5, <1>6, <3>1, <3>3 DEF PInv, OneJump
    <3> QED  BY <3>2, <3>3
  <2> QED  BY <1>4, <1>6, <2>1 DEF OneJump
<1>9. InFrame'
  <2>1. PICK f \in Nat, y \in GoConstruct : Innermosts(f, y)
    BY DEF PInv, InFrame
  <2>2. FramesAbove(at) = {} /\ FramesAbove(at)' = {}
    BY <1>4 DEF FramesAbove
  <2>3. f = 0
    BY <2>1, <2>2 DEF Innermosts, IsHighest
  <2>4. IsHighest(f, FramesAbove(at))' /\ Innermost(out.go, y)'
    BY <1>4, <2>1, <2>2, <2>3 DEF Innermosts, IsHighest, Innermost, FunctionsOf
  <2>5. ~(f > 0) /\ (out.inSpawn <=> out'.inSpawn)
    BY <1>4, <2>3
  <2>6. Innermosts(f, y)'
    BY <2>1, <2>4, <2>5 DEF Innermosts
  <2> QED  BY <2>6 DEF InFrame
<1> QED  BY <1>7, <1>8, <1>9 DEF PInv

LEMMA CheckStep == PInv /\ Paths!Check => PInv'
<1> SUFFICES ASSUME PInv, Paths!Check  PROVE PInv'
  OBVIOUS
<1>1. /\ UNCHANGED <<prog, unit, at, out>> /\ progress = "writing" /\ at = 1
      /\ progress' \in {"checked", "rejected"} /\ prog # <<>>
      /\ prog[Len(prog)].k \in Paths!Jumps
  BY DEF PInv, OneJump, Paths!Check, Paths!Jump
<1>2. 1 \in 1 .. Len(prog)
  BY <1>1 DEF PInv, PathTyped
<1>3. InFrame'
  BY <1>1, FrameKept DEF PInv
<1> QED  BY <1>1, <1>2, <1>3 DEF PInv, PathTyped, OneJump

LEMMA JumpStep == PInv /\ Paths!EmitJump => PInv'
<1> SUFFICES ASSUME PInv, Paths!EmitJump  PROVE PInv'
  OBVIOUS
<1>1. CASE progress' = "refused"
  <2>1. UNCHANGED <<prog, at, out>>
    BY <1>1, Refusals DEF Paths!Emission
  <2> QED  BY <1>1, <2>1, FrameKept DEF PInv, PathTyped, OneJump
<1>2. CASE progress' # "refused"
  <2>1. /\ progress = "checked" /\ progress' = "emitted" /\ UNCHANGED <<prog, at>>
        /\ prog[at].k \in Paths!Jumps
        /\ \E label : out' = [out EXCEPT !.jump = IF /\ prog[Len(prog)].k \in {"return", "try"}
                                                    /\ out.inSpawn
                                                  THEN "error" ELSE "plain",
                                        !.label = label]
    BY <1>2 DEF Paths!EmitJump, Paths!Refuse, Paths!Jump
  <2>2. /\ DOMAIN out' = Fields /\ out'.go = out.go /\ (out'.inSpawn <=> out.inSpawn)
        /\ prog[Len(prog)].k \in {"return", "try"} => (out'.jump = "error" <=> out.inSpawn)
    BY <2>1 DEF PInv, PathTyped, Fields
  <2>3. at \in 1 .. Len(prog) /\ DOMAIN prog = 1 .. Len(prog) /\ Len(prog) \in Nat
    BY <2>1 DEF PInv, PathTyped, OneJump
  <2>4. at = Len(prog)
    BY <2>1, <2>3 DEF PInv, OneJump
  <2>5. PathTyped'
    BY <2>1, <2>2 DEF PInv, PathTyped, Fields
  <2>6. OneJump'
    BY <2>1, <2>2, <2>3, <2>4 DEF PInv, OneJump
  <2>7. InFrame'
    <3>1. PICK f \in Nat, y \in GoConstruct : Innermosts(f, y)
      BY DEF PInv, InFrame
    <3>2. FramesAbove(at)' = FramesAbove(at)
      BY <2>1 DEF FramesAbove
    <3>3. Innermosts(f, y)'
      BY <2>1, <2>2, <3>1, <3>2 DEF Innermosts, Innermost, FunctionsOf, IsHighest
    <3> QED  BY <3>3 DEF InFrame
  <2> QED  BY <2>5, <2>6, <2>7 DEF PInv
<1> QED  BY <1>1, <1>2

LEMMA OpenedIs ==
  ASSUME NEW k \in {"func", "iife", "for", "switch"}, NEW i \in Nat
  PROVE  Opened(k, i) \in GoConstruct /\ Opened(k, i).k = k /\ Opened(k, i).at = i
BY DEF Opened, GoConstruct

(* What one more construct does to the frame and the innermost function.   *)
LEMMA FrameMoves ==
  ASSUME PInv, progress = "checked", UNCHANGED prog, at' = at + 1, Inside \/ IntoFrame
  PROVE  InFrame' /\ out'.go \in Seq(GoConstruct)
<1>1. PICK f \in Nat, y \in GoConstruct : Innermosts(f, y)
  BY DEF PInv, InFrame
<1>2. PICK i \in Nat : i = at /\ i >= 1
  BY DEF PInv, OneJump
<1>3. /\ out.go \in Seq(GoConstruct) /\ Innermost(out.go, y) /\ IsHighest(f, FramesAbove(i))
      /\ y.k = "func" => y.at = f
      /\ y.k = "iife" => y.at > f
      /\ out.inSpawn <=> (f > 0 /\ prog[f].k = "spawn")
  BY <1>1, <1>2 DEF PInv, PathTyped, Innermosts
<1>4. f < i
  BY <1>2, <1>3 DEF IsHighest, FramesAbove
<1>5. FramesAbove(at)' = FramesAbove(i + 1)
  BY <1>2 DEF FramesAbove
<1>6. /\ prog[i].k \in Paths!Frames => IsHighest(i, FramesAbove(i + 1))
      /\ prog[i].k \notin Paths!Frames => IsHighest(f, FramesAbove(i + 1))
  BY <1>2, <1>3, OneFurther
<1>7. CASE IntoFrame
  <2>1. PICK x \in GoConstruct : x = Opened("func", i) /\ x.k = "func" /\ x.at = i
    BY <1>2, OpenedIs
  <2>2. /\ prog[i].k \in Paths!Frames /\ (out'.inSpawn <=> prog[i].k = "spawn")
        /\ out'.go = Append(out.go, x)
    BY <1>2, <1>7, <2>1 DEF IntoFrame
  <2>3. Innermost(out'.go, x) /\ out'.go \in Seq(GoConstruct)
    BY <1>3, <2>1, <2>2, Pushed
  <2>4. Innermosts(i, x)'
    BY <1>2, <1>5, <1>6, <2>1, <2>2, <2>3 DEF Innermosts, IsHighest, Innermost, FunctionsOf
  <2> QED  BY <2>3, <2>4 DEF InFrame
<1>8. CASE Inside
  <2>1. IsHighest(f, FramesAbove(i + 1)) /\ (out'.inSpawn <=> (f > 0 /\ prog[f].k = "spawn"))
    BY <1>2, <1>3, <1>6, <1>8 DEF Inside
  <2>2. SUFFICES \E z \in GoConstruct : /\ Innermost(out'.go, z) /\ out'.go \in Seq(GoConstruct)
                                        /\ z.k = "func" => z.at = f
                                        /\ z.k = "iife" => z.at > f
    <3>1. PICK z \in GoConstruct : /\ Innermost(out'.go, z) /\ out'.go \in Seq(GoConstruct)
                                   /\ z.k = "func" => z.at = f
                                   /\ z.k = "iife" => z.at > f
      BY <2>2
    <3>2. Innermosts(f, z)'
      BY <1>5, <2>1, <3>1 DEF Innermosts, IsHighest, Innermost, FunctionsOf
    <3> QED  BY <3>1, <3>2 DEF InFrame
  <2>3. PICK iife \in GoConstruct : iife = Opened("iife", i) /\ iife.k = "iife" /\ iife.at = i
    BY <1>2, OpenedIs
  <2>4. PICK switch \in GoConstruct :
          switch = Opened("switch", i) /\ switch.k = "switch" /\ switch.at = i
    BY <1>2, OpenedIs
  <2>5. PICK for \in GoConstruct : for = Opened("for", i) /\ for.k = "for" /\ for.at = i
    BY <1>2, OpenedIs
  <2>6. \/ out'.go = out.go
        \/ \E x \in {for, switch, iife} : out'.go = Append(out.go, x)
        \/ out'.go = Append(Append(out.go, iife), switch)
    BY <1>2, <1>8, <2>3, <2>4, <2>5 DEF Inside
  <2>7. CASE out'.go = out.go
    BY <1>3, <2>7
  <2>8. CASE out'.go = Append(out.go, for)
    BY <1>3, <2>5, <2>8, Pushed
  <2>9. CASE out'.go = Append(out.go, switch)
    BY <1>3, <2>4, <2>9, Pushed
  <2>10. Innermost(Append(out.go, iife), iife) /\ Append(out.go, iife) \in Seq(GoConstruct)
    BY <1>3, <2>3, Pushed
  <2>11. CASE out'.go = Append(out.go, iife)
    BY <1>4, <2>3, <2>10, <2>11
  <2>12. CASE out'.go = Append(Append(out.go, iife), switch)
    <3>1. PICK g \in Seq(GoConstruct) : g = Append(out.go, iife)
      BY <2>10
    <3>2. Innermost(Append(g, switch), iife) /\ Append(g, switch) \in Seq(GoConstruct)
      BY <2>4, <2>10, <3>1, Pushed
    <3> QED  BY <1>4, <2>3, <2>12, <3>1, <3>2
  <2> QED  BY <2>6, <2>7, <2>8, <2>9, <2>11, <2>12
<1> QED  BY <1>7, <1>8

LEMMA EmissionStep == PInv /\ Paths!Emission => PInv'
<1> SUFFICES ASSUME PInv, Paths!Emission  PROVE PInv'
  OBVIOUS
<1>1. CASE Paths!EmitJump
  BY <1>1, JumpStep
<1>2. CASE progress' = "refused"
  <2>1. UNCHANGED <<prog, at, out>>
    BY <1>2, Refusals
  <2> QED  BY <1>2, <2>1, FrameKept DEF PInv, PathTyped, OneJump
<1>3. CASE ~Paths!EmitJump /\ progress' # "refused"
  <2>1. /\ progress = "checked" /\ UNCHANGED <<prog, progress>> /\ at' = at + 1
        /\ DOMAIN out' = Fields /\ (Inside \/ IntoFrame)
    BY <1>3, Emissions DEF PInv
  <2>2. InFrame' /\ out'.go \in Seq(GoConstruct)
    BY <2>1, FrameMoves
  <2>3. at \in 1 .. Len(prog) /\ prog[Len(prog)].k \in Paths!Jumps /\ Len(prog) \in Nat
    BY <2>1 DEF PInv, PathTyped, OneJump
  <2>4. prog[at].k \notin Paths!Jumps
    BY <2>1 DEF Inside, IntoFrame, Paths!Frames, Paths!Jumps
  <2>5. at + 1 \in 1 .. Len(prog)
    BY <2>3, <2>4
  <2>6. PathTyped'
    <3>1. prog' \in Seq(Construct) /\ at \in Nat
      BY <2>1 DEF PInv, PathTyped
    <3>2. at' \in Nat
      BY <2>1, <3>1
    <3>3. DOMAIN out' = Fields /\ out'.go \in Seq(GoConstruct)
      BY <2>1, <2>2
    <3> QED  BY <3>1, <3>2, <3>3 DEF PathTyped, Fields
  <2>7. OneJump'
    BY <2>1, <2>3, <2>5 DEF PInv, OneJump
  <2> QED  BY <2>2, <2>6, <2>7 DEF PInv
<1> QED  BY <1>1, <1>2, <1>3

LEMMA PathSteps == PInv /\ [Paths!Next]_Paths!vars => PInv'
<1> SUFFICES ASSUME PInv, [Paths!Next]_Paths!vars  PROVE PInv'
  OBVIOUS
<1>1. CASE UNCHANGED Paths!vars
  <2>1. UNCHANGED <<prog, at, out, progress>>
    BY <1>1 DEF Paths!vars
  <2> QED  BY <2>1, FrameKept DEF PInv, PathTyped, OneJump
<1> QED  BY <1>1, WriteStep, CheckStep, EmissionStep DEF Paths!Next

LEMMA LeavesFrame == PInv => ReturnLeavesItsFrame
<1> SUFFICES ASSUME PInv, progress = "emitted", Paths!Jump \in {"return", "try"},
                    ~Paths!BehindValue(Paths!SourceFrame)
             PROVE  /\ out.go[Paths!GoFunc].at = Paths!SourceFrame
                    /\ out.jump = "error" <=> Paths!SourceFrame \in Paths!Above({"spawn"})
  BY DEF ReturnLeavesItsFrame, Paths!ReturnLeavesItsFrame, Paths!Built, Paths!Go
<1>1. PICK f \in Nat, y \in GoConstruct : Innermosts(f, y)
  BY DEF PInv, InFrame
<1>2. PICK n \in Nat : n > 0 /\ IsHighest(n, FunctionsOf(out.go)) /\ out.go[n] = y
  BY <1>1 DEF Innermosts, Innermost
<1>3. Paths!GoFunc = n
  <2>1. FunctionsOf(out.go) \in SUBSET Nat
    BY DEF PInv, PathTyped, FunctionsOf
  <2> QED  BY <1>2, <2>1, HighestIs DEF Paths!GoFunc, Paths!Go, FunctionsOf
<1>4. PICK l \in Nat : l = Len(prog) /\ at = l
  BY DEF PInv, PathTyped, OneJump
<1>5. Paths!SourceFrame = f
  <2>1. FramesAbove(l) \in SUBSET Nat /\ IsHighest(f, FramesAbove(l))
    BY <1>1, <1>4 DEF FramesAbove, Innermosts
  <2> QED  BY <1>4, <2>1, HighestIs DEF Paths!SourceFrame, Paths!Above, FramesAbove
<1>6. n \in 1 .. Len(out.go) /\ y.k \in {"func", "iife"}
  BY <1>2 DEF IsHighest, FunctionsOf
<1>7. y.k = "func" /\ y.at = f
  <2>1. ~(y.k = "iife")
    BY <1>1, <1>2, <1>5, <1>6 DEF Innermosts, Paths!BehindValue, Paths!Go
  <2> QED  BY <1>1, <1>6, <2>1 DEF Innermosts
<1>8. f > 0 => f \in 1 .. (l - 1)
  BY <1>1, <1>4 DEF Innermosts, IsHighest, FramesAbove
<1>9. f \in Paths!Above({"spawn"}) <=> (f > 0 /\ prog[f].k = "spawn")
  BY <1>4, <1>8 DEF Paths!Above
<1>10. out.jump = "error" <=> out.inSpawn
  BY DEF PInv, OneJump, Paths!Jump
<1> QED  BY <1>1, <1>2, <1>3, <1>5, <1>7, <1>9, <1>10 DEF Innermosts

(* A return, or the bail of a try, that is compiled leaves the frame it is *)
(* written in and returns in that frame's form, for paths of any depth.    *)
THEOREM ReturnsLeaveTheirFrame == Paths!Spec => []ReturnLeavesItsFrame
<1>1. Paths!Init => PInv
  BY PathBegins
<1>2. PInv /\ [Paths!Next]_Paths!vars => PInv'
  BY PathSteps
<1>3. PInv => ReturnLeavesItsFrame
  BY LeavesFrame
<1> QED  BY <1>1, <1>2, <1>3, PTL DEF Paths!Spec

-----------------------------------------------------------------------------
(* Where a break or a continue lands.                                      *)

(* Loop i is the innermost around the jump, in the jump's own frame.       *)
LoopOfJump(i) ==
  /\ i \in 1 .. (Len(prog) - 1) /\ prog[i].k = "loop"
  /\ \A j \in (i + 1) .. (Len(prog) - 1) : prog[j].k \notin {"loop"} \cup Paths!Frames

Initialisers == {"let", "ret", "arg"}

(* The parser puts no statement where an expression is to stand.           *)
Parsed == \A i \in DOMAIN prog : i > 1 /\ prog[i].k \in Paths!Statements
                                 => prog[i - 1].k \notin Paths!ExprHoles

(* What a construct of a loop's own frame wants of the next one.           *)
WantedBy(k, ctx) ==
  CASE k \in {"loop", "select", "catch"} -> ctx = "discard"
    [] k \in {"if", "block"} -> ctx \in {"discard", "value"}
    [] k = "match" -> ctx \in {"stmt", "value"}
    [] k = "let" -> ctx = "init"
    [] k = "ret" -> ctx \in {"value", "retval"}
    [] k = "arg" -> ctx = "value"
    [] OTHER -> FALSE

LoopFrames == [at : Nat, label : BOOLEAN, depth : Nat]

(* The loop i is open: below it there are only switches and literals.      *)
ForAt(go, i, p) ==
  /\ p \in DOMAIN go /\ go[p].k = "for" /\ go[p].at = i
  /\ \A n \in DOMAIN go : n < p => go[n].at < i
  /\ \A n \in DOMAIN go : n > p => go[n].at > i /\ go[n].k \in {"switch", "iife"}

Literals(go, i) == \E n \in DOMAIN go : go[n].k = "iife" /\ go[n].at > i
Switches(go, i) == \E n \in DOMAIN go : go[n].k = "switch" /\ go[n].at > i

(* Its frame on gen.loopFrames is the innermost.                           *)
Framed(loops, i) ==
  /\ loops \in Seq(LoopFrames) /\ loops # <<>>
  /\ loops[Len(loops)].at = i
  /\ loops[Len(loops)].label <=> (i \in others \/ Paths!NeedsLabel(i))

(* Unless a literal stands in between, each switch is counted and comes    *)
(* of a match or a select, ...                                             *)
Counted(go, loops, i, to) ==
  Switches(go, i) => /\ loops[Len(loops)].depth > 0
                     /\ \E j \in (i + 1) .. (to - 1) : prog[j].k \in {"match", "select"}

(* ... and below an initialiser or an argument nothing but a catch brings  *)
(* back statements.                                                        *)
CatchOfInitialiser(i, to) ==
  \E j \in (i + 1) .. (to - 1) : prog[j].k = "catch" /\ prog[j - 1].k \in {"let", "ret"}

Initialising(ctx, i, to) ==
  \/ CatchOfInitialiser(i, to)
  \/ Paths!AsValue(ctx) /\ prog[to - 1].k \in Initialisers
  \/ \A j \in (i + 1) .. (to - 1) : prog[j].k \notin Initialisers

LoopOpen(i) ==
  /\ \E p \in Nat : ForAt(out.go, i, p)
  /\ Framed(out.loops, i)
  /\ WantedBy(prog[at - 1].k, out.ctx)
  /\ \/ Literals(out.go, i)
     \/ Counted(out.go, out.loops, i, at) /\ Initialising(out.ctx, i, at)

JumpEmitted ==
  progress = "emitted" => /\ ~Paths!AsValue(Paths!pos)
                          /\ out.label = IF Paths!Jump = "break" THEN Paths!BreakLabel ELSE 0

JInv ==
  /\ Parsed
  /\ out.loops \in Seq(LoopFrames)
  /\ \A n \in DOMAIN out.go : out.go[n].at < at
  /\ \A i \in Nat : LoopOfJump(i) /\ i < at => LoopOpen(i)
  /\ JumpEmitted

-----------------------------------------------------------------------------
(* What the emitter's helpers do to the loops and to what is wanted next.  *)
LEMMA LoopsAndWants ==
  ASSUME NEW o, DOMAIN o = Fields
  PROVE  /\ \A k, i : Paths!Open(o, k, i).loops = o.loops
         /\ \A c : Paths!In(o, c).loops = o.loops /\ Paths!In(o, c).ctx = c
         /\ Paths!EnterSwitch(o).loops = IF o.loops = <<>> THEN o.loops
                                         ELSE [o.loops EXCEPT ![Len(o.loops)].depth = @ + 1]
BY DEF Fields, Paths!Open, Paths!In, Paths!EnterSwitch

LEMMA LoopsKept ==
  ASSUME NEW o, DOMAIN o = Fields, NEW k, NEW i
  PROVE  Paths!Open(o, k, i).loops = o.loops
BY DEF Fields, Paths!Open

(* A construct in the loop's frame is at one of four positions.            *)
LEMMA PositionInLoop ==
  ASSUME at > 1, at \in Nat, WantedBy(prog[at - 1].k, out.ctx)
  PROVE  /\ Paths!pos \in {"stmt", "init", "retval", "value"}
         /\ prog[at - 1].k \in Initialisers => Paths!pos = out.ctx /\ Paths!AsValue(Paths!pos)
         /\ Paths!pos \in {"init", "retval"} => prog[at - 1].k \in {"let", "ret"}
<1>1. Paths!Parent(at) = prog[at - 1].k
  BY DEF Paths!Parent
<1>2. CASE prog[at - 1].k \in {"loop", "select", "catch"}
  BY <1>1, <1>2 DEF WantedBy, Paths!pos, Paths!Position, Paths!InBlock, Paths!ExprHoles,
        Paths!Trailing, Paths!ValueBlocks, Initialisers
<1>3. CASE prog[at - 1].k \in {"if", "block"}
  BY <1>1, <1>3 DEF WantedBy, Paths!pos, Paths!Position, Paths!InBlock, Paths!ExprHoles, Initialisers
<1>4. CASE prog[at - 1].k \in {"match", "let", "ret", "arg"}
  BY <1>1, <1>4 DEF WantedBy, Paths!pos, Paths!Position, Paths!InBlock, Paths!ExprHoles, Initialisers,
        Paths!AsValue
<1>5. prog[at - 1].k \in {"loop", "select", "catch", "if", "block", "match", "let", "ret", "arg"}
  BY DEF WantedBy
<1> QED  BY <1>2, <1>3, <1>4, <1>5

(* The kinds of steps in a loop's own frame: nothing of Go opens, a switch *)
(* that is counted, or a literal.                                          *)
OpensNothing ==
  /\ out'.go = out.go /\ out'.loops = out.loops
  /\ \/ ~Paths!AsValue(Paths!pos)
     \/ prog[at].k = "catch" /\ prog[at - 1].k \in {"let", "ret"}
     \/ Paths!AsValue(out'.ctx) /\ prog[at].k \in Initialisers

OpensSwitch ==
  /\ out'.go = Append(out.go, Opened("switch", at))
  /\ out'.loops = [out.loops EXCEPT ![Len(out.loops)].depth = @ + 1]
  /\ prog[at].k \in {"match", "select"}
  /\ prog[at - 1].k \notin Initialisers

OpensLiteral ==
  /\ out'.loops = out.loops
  /\ \/ out'.go = Append(out.go, Opened("iife", at))
     \/ out'.go = Append(Append(out.go, Opened("iife", at)), Opened("switch", at))

LEMMA NoneOpens ==
  ASSUME DOMAIN out = Fields, NEW c, Paths!Emit(Paths!In(out, c))
  PROVE  /\ out'.go = out.go /\ out'.loops = out.loops /\ out'.ctx = c
         /\ at' = at + 1
BY OpensAndMoves, LoopsAndWants DEF Paths!Emit

LEMMA OneOpens ==
  ASSUME NEW o, DOMAIN o = Fields, NEW k, NEW c, Paths!Emit(Paths!In(Paths!Open(o, k, at), c))
  PROVE  /\ out'.go = Append(o.go, Opened(k, at)) /\ out'.loops = o.loops /\ out'.ctx = c
         /\ at' = at + 1
<1>1. PICK n : n = Paths!Open(o, k, at)
  OBVIOUS
<1>2. n.go = Append(o.go, Opened(k, at)) /\ n.loops = o.loops /\ DOMAIN n = Fields
  BY <1>1, OpensOne, LoopsKept
<1>3. Paths!In(n, c).go = n.go /\ Paths!In(n, c).loops = n.loops /\ Paths!In(n, c).ctx = c
  BY <1>2, OpensAndMoves, LoopsAndWants
<1> QED  BY <1>1, <1>2, <1>3 DEF Paths!Emit

(* What holds at a construct in a loop.                                    *)
InLoop ==
  /\ PathTyped /\ Parsed /\ at > 1 /\ at \in DOMAIN prog
  /\ WantedBy(prog[at - 1].k, out.ctx) /\ out.loops # <<>>

LEMMA StepsInLoop ==
  ASSUME InLoop, Paths!Emission, progress' # "refused",
         prog[at].k \notin {"loop"} \cup Paths!Frames \cup Paths!Jumps
  PROVE  /\ WantedBy(prog[at].k, out'.ctx)
         /\ OpensNothing \/ OpensSwitch \/ OpensLiteral
<1>1. /\ Paths!pos \in {"stmt", "init", "retval", "value"}
      /\ prog[at - 1].k \in Initialisers => Paths!pos = out.ctx /\ Paths!AsValue(Paths!pos)
      /\ Paths!pos \in {"init", "retval"} => prog[at - 1].k \in {"let", "ret"}
  BY PositionInLoop DEF InLoop, PathTyped
<1>2. DOMAIN out = Fields
  BY DEF InLoop, PathTyped, Fields
<1>3. prog[at].k \in Paths!Statements => prog[at - 1].k \notin Initialisers
  BY DEF InLoop, Parsed, Initialisers, Paths!ExprHoles
<1>4. PICK switched : switched = Paths!EnterSwitch(out)
  OBVIOUS
<1>5. /\ DOMAIN switched = Fields /\ switched.go = out.go
      /\ switched.loops = [out.loops EXCEPT ![Len(out.loops)].depth = @ + 1]
  BY <1>2, <1>4, OpensAndMoves, LoopsAndWants DEF InLoop
<1>6. CASE Paths!EmitIf
  <2>1. ~Paths!AsValue(Paths!pos) /\ prog[at].k = "if"
    BY <1>6 DEF Paths!EmitIf, Paths!Reaches
  <2>2. Paths!pos = "stmt"
    BY <1>1, <2>1 DEF Paths!AsValue
  <2>3. Paths!Emit(Paths!In(out, "discard"))
    BY <1>6, <2>2 DEF Paths!EmitIf, Paths!Proceed, Paths!Refuse
  <2> QED  BY <1>2, <2>1, <2>3, NoneOpens DEF WantedBy, OpensNothing
<1>7. CASE Paths!EmitIfExprAsValue
  <2>1. prog[at].k = "if" /\ Paths!Emit(Paths!In(Paths!Open(out, "iife", at), "value"))
    BY <1>7 DEF Paths!EmitIfExprAsValue, Paths!Reaches, Paths!Proceed, Paths!Refuse
  <2> QED  BY <1>2, <2>1, OneOpens DEF WantedBy, OpensLiteral
<1>8. CASE Paths!EmitMatchSwitch
  <2>1. /\ ~Paths!AsValue(Paths!pos) /\ prog[at].k = "match"
        /\ Paths!Emit(Paths!In(Paths!Open(switched, "switch", at), Paths!pos))
    BY <1>4, <1>8 DEF Paths!EmitMatchSwitch, Paths!Reaches, Paths!Proceed, Paths!Refuse
  <2>2. Paths!pos = "stmt" /\ prog[at - 1].k \notin Initialisers
    BY <1>1, <2>1 DEF Paths!AsValue
  <2> QED  BY <1>5, <2>1, <2>2, OneOpens DEF WantedBy, OpensSwitch
<1>9. CASE Paths!EmitMatchAsExpr
  <2>1. PICK o : o = Paths!Open(out, "iife", at)
    OBVIOUS
  <2>2. PICK c \in {"stmt", "value"} : Paths!Emit(Paths!In(Paths!Open(o, "switch", at), c))
    BY <1>9, <2>1 DEF Paths!EmitMatchAsExpr, Paths!Proceed, Paths!Refuse
  <2>3. DOMAIN o = Fields /\ o.go = Append(out.go, Opened("iife", at)) /\ o.loops = out.loops
    BY <1>2, <2>1, OpensOne, LoopsKept
  <2>4. prog[at].k = "match"
    BY <1>9 DEF Paths!EmitMatchAsExpr, Paths!Reaches
  <2> QED  BY <2>2, <2>3, <2>4, OneOpens DEF WantedBy, OpensLiteral
<1>10. CASE Paths!EmitBlock
  <2>1. ~Paths!AsValue(Paths!pos) /\ prog[at].k = "block"
    BY <1>10 DEF Paths!EmitBlock, Paths!Reaches
  <2>2. Paths!pos = "stmt"
    BY <1>1, <2>1 DEF Paths!AsValue
  <2>3. Paths!Emit(Paths!In(out, "discard"))
    BY <1>10, <2>2 DEF Paths!EmitBlock, Paths!Proceed, Paths!Refuse
  <2> QED  BY <1>2, <2>1, <2>3, NoneOpens DEF WantedBy, OpensNothing
<1>11. CASE Paths!EmitBlockAsExpr
  <2>1. prog[at].k = "block" /\ Paths!Emit(Paths!In(Paths!Open(out, "iife", at), "value"))
    BY <1>11 DEF Paths!EmitBlockAsExpr, Paths!Reaches, Paths!Proceed, Paths!Refuse
  <2> QED  BY <1>2, <2>1, OneOpens DEF WantedBy, OpensLiteral
<1>12. CASE Paths!EmitSelect
  <2>1. /\ prog[at].k = "select"
        /\ Paths!Emit(Paths!In(Paths!Open(switched, "switch", at), "discard"))
    BY <1>4, <1>12 DEF Paths!EmitSelect, Paths!Reaches, Paths!Proceed, Paths!Refuse
  <2>2. prog[at - 1].k \notin Initialisers
    BY <1>3, <2>1 DEF Paths!Statements
  <2> QED  BY <1>5, <2>1, <2>2, OneOpens DEF WantedBy, OpensSwitch
<1>13. CASE Paths!EmitCatch
  <2>1. prog[at].k = "catch"
    BY <1>13 DEF Paths!EmitCatch, Paths!Reaches
  <2>2. Paths!pos \in {"stmt", "init", "retval"} /\ Paths!Emit(Paths!In(out, "discard"))
    BY <1>1, <1>13 DEF Paths!EmitCatch, Paths!Proceed, Paths!Refuse
  <2>3. ~Paths!AsValue(Paths!pos) \/ prog[at - 1].k \in {"let", "ret"}
    BY <1>1, <2>2 DEF Paths!AsValue
  <2> QED  BY <1>2, <2>1, <2>2, <2>3, NoneOpens DEF WantedBy, OpensNothing
<1>14. CASE Paths!EmitLet
  <2>1. prog[at].k = "let" /\ Paths!Emit(Paths!In(out, "init"))
    BY <1>14 DEF Paths!EmitLet, Paths!Reaches, Paths!Proceed, Paths!Refuse
  <2> QED  BY <1>2, <2>1, NoneOpens DEF WantedBy, OpensNothing, Paths!AsValue, Initialisers
<1>15. CASE Paths!EmitReturnOf
  <2>1. /\ prog[at].k = "ret"
        /\ \E c \in {"value", "retval"} : Paths!Emit(Paths!In(out, c))
    BY <1>15 DEF Paths!EmitReturnOf, Paths!Reaches, Paths!Proceed, Paths!Refuse
  <2> QED  BY <1>2, <2>1, NoneOpens DEF WantedBy, OpensNothing, Paths!AsValue, Initialisers
<1>16. CASE Paths!EmitCall
  <2>1. prog[at].k = "arg" /\ Paths!Emit(Paths!In(out, "value"))
    BY <1>16 DEF Paths!EmitCall, Paths!Reaches, Paths!Proceed, Paths!Refuse
  <2> QED  BY <1>2, <2>1, NoneOpens DEF WantedBy, OpensNothing, Paths!AsValue, Initialisers
<1>17. /\ ~Paths!EmitLoop /\ ~Paths!EmitClosure /\ ~Paths!EmitScope /\ ~Paths!EmitSpawn
       /\ ~Paths!EmitJump
  BY DEF Paths!EmitLoop, Paths!EmitClosure, Paths!EmitScope, Paths!EmitSpawn, Paths!EmitJump,
         Paths!Reaches, Paths!Frames
<1> QED
  BY <1>6, <1>7, <1>8, <1>9, <1>10, <1>11, <1>12, <1>13, <1>14, <1>15, <1>16, <1>17 DEF Paths!Emission

-----------------------------------------------------------------------------
(* One more switch or literal below an open loop.                          *)
LEMMA ForKept ==
  ASSUME NEW go \in Seq(GoConstruct), NEW i \in Nat, NEW p \in Nat, ForAt(go, i, p),
         NEW x \in GoConstruct, x.at > i, x.k \in {"switch", "iife"}
  PROVE  /\ Append(go, x) \in Seq(GoConstruct)
         /\ ForAt(Append(go, x), i, p)
         /\ Literals(Append(go, x), i) <=> Literals(go, i) \/ x.k = "iife"
         /\ Switches(Append(go, x), i) <=> Switches(go, i) \/ x.k = "switch"
<1>1. PICK l \in Nat : l = Len(go)
  OBVIOUS
<1>2. PICK more : more = Append(go, x)
  OBVIOUS
<1>3. /\ more \in Seq(GoConstruct) /\ DOMAIN more = 1 .. (l + 1) /\ more[l + 1] = x
      /\ DOMAIN go = 1 .. l
      /\ \A n \in 1 .. l : more[n] = go[n]
  BY <1>1, <1>2
<1>4. 1 .. (l + 1) = (1 .. l) \cup {l + 1} /\ \A n \in 1 .. l : n < l + 1
  OBVIOUS
<1>5. DOMAIN more = DOMAIN go \cup {l + 1} /\ \A n \in DOMAIN go : more[n] = go[n]
  BY <1>3, <1>4
<1>6. p \in DOMAIN go /\ p < l + 1 /\ ~(l + 1 < p)
  BY <1>3, <1>4 DEF ForAt
<1>7. ForAt(more, i, p)
  BY <1>3, <1>5, <1>6 DEF ForAt
<1>8. Literals(more, i) <=> Literals(go, i) \/ x.k = "iife"
  BY <1>3, <1>5 DEF Literals
<1>9. Switches(more, i) <=> Switches(go, i) \/ x.k = "switch"
  BY <1>3, <1>5 DEF Switches
<1> QED  BY <1>2, <1>3, <1>7, <1>8, <1>9

(* A counted switch.                                                       *)
LEMMA DeeperIs ==
  ASSUME NEW loops \in Seq(LoopFrames), loops # <<>>
  PROVE  LET deeper == [loops EXCEPT ![Len(loops)].depth = @ + 1]
             inner == loops[Len(loops)]
             counted == deeper[Len(deeper)]
         IN  /\ deeper \in Seq(LoopFrames) /\ deeper # <<>>
             /\ counted.at = inner.at /\ (counted.label <=> inner.label) /\ counted.depth > 0
<1>1. PICK l \in Nat : l = Len(loops) /\ l \in DOMAIN loops
  OBVIOUS
<1>2. PICK f \in LoopFrames : f = loops[l]
  BY <1>1
<1>3. PICK g : g = [f EXCEPT !.depth = @ + 1]
  OBVIOUS
<1>4. g \in LoopFrames /\ g.at = f.at /\ (g.label <=> f.label) /\ g.depth > 0
  <2>1. f.at \in Nat /\ f.label \in BOOLEAN /\ f.depth \in Nat
    BY DEF LoopFrames
  <2>2. g = [at |-> f.at, label |-> f.label, depth |-> f.depth + 1]
    BY <1>3 DEF LoopFrames
  <2> QED  BY <2>1, <2>2 DEF LoopFrames
<1>5. PICK deeper : deeper = [loops EXCEPT ![Len(loops)].depth = @ + 1]
  OBVIOUS
<1>6. deeper = [loops EXCEPT ![l] = g]
  BY <1>1, <1>2, <1>3, <1>5
<1>7. deeper \in Seq(LoopFrames) /\ Len(deeper) = l /\ deeper[l] = g
  BY <1>1, <1>4, <1>6
<1>8. deeper # <<>>
  BY <1>1, <1>7
<1> QED  BY <1>1, <1>2, <1>4, <1>5, <1>7, <1>8

LEMMA DepthGrows ==
  ASSUME NEW loops \in Seq(LoopFrames), loops # <<>>, NEW i, Framed(loops, i)
  PROVE  LET deeper == [loops EXCEPT ![Len(loops)].depth = @ + 1]
         IN  Framed(deeper, i) /\ deeper[Len(deeper)].depth > 0
BY DeeperIs DEF Framed

(* Which loops need a label is decided by the path.                        *)
LEMMA SameLabels ==
  ASSUME UNCHANGED <<prog, others>>, NEW i
  PROVE  Paths!NeedsLabel(i)' <=> Paths!NeedsLabel(i)
BY DEF Paths!NeedsLabel, Paths!Jump, Paths!WalkEnters, Paths!IfIsExpr, Paths!Trailing,
       Paths!InBlock, Paths!Parent

(* A loop that is emitted is open.                                         *)
LEMMA ForOpens ==
  ASSUME NEW i \in Nat, i = at, PInv, JInv, Paths!EmitLoop, progress' # "refused"
  PROVE  LoopOpen(i)' /\ out'.loops \in Seq(LoopFrames)
<1>1. prog[at].k = "loop" /\ UNCHANGED <<prog, others>>
  <2>1. prog[at].k = "loop"
    BY DEF Paths!EmitLoop, Paths!Reaches
  <2>2. UNCHANGED <<prog, unit, others>>
    BY Zenon DEF Paths!EmitLoop, Paths!Proceed
  <2> QED  BY <2>1, <2>2
<1>2. Paths!Emit(Paths!In(Paths!Open([out EXCEPT !.loops = Append(@, [at |-> at, label |-> (at \in others \/ Paths!NeedsLabel(at)), depth |-> 0])], "for", at), "discard"))
  BY DEF Paths!EmitLoop, Paths!Proceed, Paths!Refuse
<1>3. PICK labelled \in BOOLEAN : labelled = (at \in others \/ Paths!NeedsLabel(at))
  BY Zenon
<1>4. PICK f \in LoopFrames : f = [at |-> i, label |-> labelled, depth |-> 0]
  BY <1>3 DEF LoopFrames
<1>5. PICK o : o = [out EXCEPT !.loops = Append(@, f)]
  OBVIOUS
<1>6. DOMAIN o = Fields /\ o.go = out.go /\ o.loops = Append(out.loops, f)
  BY <1>5 DEF PInv, PathTyped, Fields
<1>7. Paths!Emit(Paths!In(Paths!Open(o, "for", at), "discard"))
  BY <1>2, <1>3, <1>4, <1>5, Zenon
<1>8. /\ out'.go = Append(out.go, Opened("for", at)) /\ out'.loops = Append(out.loops, f)
      /\ out'.ctx = "discard" /\ at' = at + 1
  BY <1>6, <1>7, OneOpens
<1>9. PICK x \in GoConstruct : x = Opened("for", i) /\ x.k = "for" /\ x.at = i
  BY OpenedIs
<1>10. PICK l \in Nat : l = Len(out.go) /\ out.go \in Seq(GoConstruct)
  BY DEF PInv, PathTyped
<1>11. PICK more : more = Append(out.go, x) /\ more = out'.go
  BY <1>8, <1>9
<1>12. /\ DOMAIN more = 1 .. (l + 1) /\ more[l + 1] = x
       /\ \A n \in 1 .. l : more[n] = out.go[n] /\ out.go[n].at < i
  <2>1. DOMAIN out.go = 1 .. l
    BY <1>10
  <2>2. \A n \in 1 .. l : out.go[n].at < i
    BY <2>1 DEF JInv
  <2>3. PICK go \in Seq(GoConstruct) : go = out.go /\ l = Len(go) /\ more = Append(go, x)
    BY <1>10, <1>11
  <2>4. DOMAIN more = 1 .. (l + 1) /\ more[l + 1] = x /\ \A n \in 1 .. l : more[n] = go[n]
    BY <2>3
  <2> QED  BY <2>2, <2>3, <2>4
<1>13. /\ \A n \in DOMAIN more : n < l + 1 => more[n].at < i
       /\ \A n \in DOMAIN more : ~(n > l + 1)
  BY <1>12
<1>14. ForAt(more, i, l + 1) /\ l + 1 \in Nat /\ l + 1 \in DOMAIN more
  BY <1>9, <1>12, <1>13 DEF ForAt
<1>15. ~Switches(more, i)
  <2>1. ASSUME NEW n \in DOMAIN more  PROVE ~(more[n].at > i)
    <3>1. n \in 1 .. l \/ n = l + 1
      BY <1>12
    <3>2. \A m \in 1 .. l : out.go[m] \in GoConstruct
      BY <1>10
    <3> QED  BY <3>1, <3>2, <1>9, <1>12 DEF GoConstruct
  <2> QED  BY <2>1 DEF Switches
<1>16. PICK loops : loops = out'.loops
  OBVIOUS
<1>17. /\ loops \in Seq(LoopFrames) /\ loops # <<>> /\ loops[Len(loops)] = f
  BY <1>8, <1>16 DEF JInv
<1>18. f.at = i /\ (f.label <=> (i \in others \/ Paths!NeedsLabel(i)))
  BY <1>3, <1>4
<1>19. Framed(out.loops, i)'
  <2>1. Paths!NeedsLabel(i)' <=> Paths!NeedsLabel(i)
    BY <1>1, SameLabels
  <2> QED  BY <1>1, <1>16, <1>17, <1>18, <2>1 DEF Framed
<1>20. at' - 1 = i /\ \A j \in (i + 1) .. (at' - 1) : FALSE
  BY <1>8
<1>21. WantedBy(prog'[at' - 1].k, out'.ctx)
  BY <1>1, <1>8, <1>20 DEF WantedBy
<1>22. Counted(out.go, out.loops, i, at)'
  BY <1>11, <1>15 DEF Counted, Switches
<1>23. Initialising(out.ctx, i, at)'
  BY <1>20 DEF Initialising
<1>24. \E p \in Nat : ForAt(out.go, i, p)'
  BY <1>11, <1>14 DEF ForAt
<1>25. LoopOpen(i)'
  BY <1>19, <1>21, <1>22, <1>23, <1>24 DEF LoopOpen
<1> QED  BY <1>16, <1>17, <1>25

(* It stays open while what is inside of it is emitted.                    *)
LEMMA ForStays ==
  ASSUME NEW i \in Nat, PInv, JInv, Paths!Emission, ~Paths!EmitJump, progress' # "refused",
         LoopOfJump(i), i < at, LoopOpen(i)
  PROVE  LoopOpen(i)' /\ out'.loops \in Seq(LoopFrames)
<1>1. /\ progress = "checked" /\ UNCHANGED prog /\ at' = at + 1
      /\ Inside \/ IntoFrame
  BY Emissions DEF PInv
<1>2. PICK l \in Nat : l = Len(prog) /\ DOMAIN prog = 1 .. l /\ at \in 1 .. l /\ prog[l].k \in Paths!Jumps
  BY <1>1 DEF PInv, PathTyped, OneJump
<1>3. prog[at].k \notin Paths!Jumps
  BY <1>1 DEF Inside, IntoFrame, Paths!Frames, Paths!Jumps
<1>4. at \in (i + 1) .. (l - 1) /\ at \in Nat /\ at > 1
  BY <1>2, <1>3 DEF LoopOfJump
<1>5. prog[at].k \notin {"loop"} \cup Paths!Frames \cup Paths!Jumps
  BY <1>2, <1>3, <1>4 DEF LoopOfJump
<1>6. InLoop
  BY <1>2, <1>4 DEF InLoop, LoopOpen, Framed, PInv, JInv
<1>7. WantedBy(prog[at].k, out'.ctx) /\ (OpensNothing \/ OpensSwitch \/ OpensLiteral)
  BY <1>5, <1>6, StepsInLoop
<1>8. UNCHANGED others
  BY Zenon DEF Paths!Emission, Paths!EmitLoop, Paths!EmitIf, Paths!EmitIfExprAsValue,
       Paths!EmitMatchSwitch, Paths!EmitMatchAsExpr, Paths!EmitBlock, Paths!EmitBlockAsExpr,
       Paths!EmitSelect, Paths!EmitCatch, Paths!EmitLet, Paths!EmitReturnOf, Paths!EmitCall,
       Paths!EmitClosure, Paths!EmitScope, Paths!EmitSpawn, Paths!EmitJump, Paths!Proceed
<1>9. PICK p \in Nat : ForAt(out.go, i, p)
  BY DEF LoopOpen
<1>10. PICK go \in Seq(GoConstruct) : go = out.go /\ ForAt(go, i, p)
  BY <1>9 DEF PInv, PathTyped
<1>11. PICK loops \in Seq(LoopFrames) : loops = out.loops /\ Framed(loops, i)
  BY DEF LoopOpen, JInv
<1>12. PICK switch \in GoConstruct : switch = Opened("switch", at) /\ switch.k = "switch" /\ switch.at = at
  BY <1>4, OpenedIs
<1>13. PICK iife \in GoConstruct : iife = Opened("iife", at) /\ iife.k = "iife" /\ iife.at = at
  BY <1>4, OpenedIs
<1>14. /\ Append(go, switch) \in Seq(GoConstruct)
       /\ ForAt(Append(go, switch), i, p)
       /\ Literals(Append(go, switch), i) <=> Literals(go, i)
  BY <1>4, <1>10, <1>12, ForKept
<1>15. /\ Append(go, iife) \in Seq(GoConstruct)
       /\ ForAt(Append(go, iife), i, p)
       /\ Literals(Append(go, iife), i)
  BY <1>4, <1>10, <1>13, ForKept
<1>16. /\ ForAt(Append(Append(go, iife), switch), i, p)
       /\ Literals(Append(Append(go, iife), switch), i)
  <2>1. PICK g \in Seq(GoConstruct) : g = Append(go, iife) /\ ForAt(g, i, p) /\ Literals(g, i)
    BY <1>15
  <2>2. at > i
    BY <1>4
  <2> QED  BY <1>12, <2>1, <2>2, ForKept
<1>17. WantedBy(prog'[at' - 1].k, out'.ctx)
  <2>1. at' - 1 = at
    BY <1>1, <1>4
  <2> QED  BY <1>1, <1>7, <2>1
<1>18. /\ \A j \in (i + 1) .. (at' - 1) : j \in (i + 1) .. (at - 1) \/ j = at
       /\ \A j \in (i + 1) .. (at - 1) : j \in (i + 1) .. (at' - 1)
       /\ at \in (i + 1) .. (at' - 1) /\ at' - 1 = at
  BY <1>1, <1>4
<1>19. Paths!NeedsLabel(i)' <=> Paths!NeedsLabel(i)
  BY <1>1, <1>8, SameLabels
<1>20. ASSUME ~Paths!AsValue(Paths!pos) \/ prog[at - 1].k \notin Initialisers,
              Initialising(out.ctx, i, at)
       PROVE  Initialising(out.ctx, i, at)'
  <2>1. prog[at - 1].k \notin Initialisers
    BY <1>4, <1>6, <1>20, PositionInLoop DEF InLoop
  <2>2. CASE prog[at].k \in Initialisers
    <3>1. Paths!AsValue(out'.ctx)
      BY <1>7, <2>2 DEF WantedBy, Initialisers, Paths!AsValue
    <3> QED  BY <1>1, <1>18, <2>2, <3>1 DEF Initialising, Paths!AsValue
  <2>3. CASE prog[at].k \notin Initialisers
    <3>1. CASE CatchOfInitialiser(i, at)
      BY <1>1, <1>18, <3>1 DEF Initialising, CatchOfInitialiser
    <3>2. CASE \A j \in (i + 1) .. (at - 1) : prog[j].k \notin Initialisers
      BY <1>1, <1>18, <2>3, <3>2 DEF Initialising
    <3> QED  BY <1>20, <2>1, <3>1, <3>2 DEF Initialising
  <2> QED  BY <2>2, <2>3
<1>21. CASE OpensLiteral
  <2>1. out'.loops = loops /\ ForAt(out'.go, i, p) /\ Literals(out'.go, i)
    BY <1>10, <1>11, <1>12, <1>13, <1>15, <1>16, <1>21 DEF OpensLiteral
  <2>2. Framed(out.loops, i)'
    BY <1>8, <1>11, <1>19, <2>1 DEF Framed
  <2>3. \E q \in Nat : ForAt(out.go, i, q)'
    BY <2>1 DEF ForAt
  <2>4. Literals(out.go, i)'
    BY <2>1 DEF Literals
  <2> QED  BY <1>11, <1>17, <2>1, <2>2, <2>3, <2>4 DEF LoopOpen
<1>22. CASE OpensNothing
  <2>1. out'.loops = loops /\ out'.go = go
    BY <1>10, <1>11, <1>22 DEF OpensNothing
  <2>2. Framed(out.loops, i)'
    BY <1>8, <1>11, <1>19, <2>1 DEF Framed
  <2>3. \E q \in Nat : ForAt(out.go, i, q)'
    BY <1>10, <2>1 DEF ForAt
  <2>4. CASE Literals(out.go, i)
    <3>1. Literals(out.go, i)'
      BY <1>10, <2>1, <2>4 DEF Literals
    <3> QED  BY <1>11, <1>17, <2>1, <2>2, <2>3, <3>1 DEF LoopOpen
  <2>5. CASE Counted(out.go, out.loops, i, at) /\ Initialising(out.ctx, i, at)
    <3>1. Counted(out.go, out.loops, i, at)'
      BY <1>1, <1>10, <1>11, <1>18, <2>1, <2>5 DEF Counted, Switches
    <3>2. Initialising(out.ctx, i, at)'
      <4>1. CASE ~Paths!AsValue(Paths!pos)
        BY <1>20, <2>5, <4>1
      <4>2. CASE prog[at].k = "catch" /\ prog[at - 1].k \in {"let", "ret"}
        BY <1>1, <1>18, <4>2 DEF Initialising, CatchOfInitialiser
      <4>3. CASE Paths!AsValue(out'.ctx) /\ prog[at].k \in Initialisers
        BY <1>1, <1>18, <4>3 DEF Initialising, Paths!AsValue
      <4> QED  BY <1>22, <4>1, <4>2, <4>3 DEF OpensNothing
    <3> QED  BY <1>11, <1>17, <2>1, <2>2, <2>3, <3>1, <3>2 DEF LoopOpen
  <2> QED  BY <2>4, <2>5 DEF LoopOpen
<1>23. CASE OpensSwitch
  <2>1. PICK deeper : deeper = [loops EXCEPT ![Len(loops)].depth = @ + 1]
    OBVIOUS
  <2>2. loops # <<>>
    BY <1>11 DEF Framed
  <2>3. Framed(deeper, i) /\ deeper[Len(deeper)].depth > 0
    BY <1>11, <2>1, <2>2, DepthGrows
  <2>4. out'.loops = deeper /\ out'.go = Append(go, switch)
    BY <1>10, <1>11, <1>12, <1>23, <2>1 DEF OpensSwitch
  <2>5. Framed(out.loops, i)'
    BY <1>8, <1>19, <2>3, <2>4 DEF Framed
  <2>6. \E q \in Nat : ForAt(out.go, i, q)'
    BY <1>14, <2>4 DEF ForAt
  <2>7. CASE Literals(out.go, i)
    <3>1. Literals(out.go, i)'
      BY <1>10, <1>14, <2>4, <2>7 DEF Literals
    <3> QED  BY <1>17, <2>5, <2>6, <3>1 DEF LoopOpen, Framed
  <2>8. CASE Counted(out.go, out.loops, i, at) /\ Initialising(out.ctx, i, at)
    <3>1. prog[at].k \in {"match", "select"} /\ prog[at - 1].k \notin Initialisers
      BY <1>23 DEF OpensSwitch
    <3>2. Counted(out.go, out.loops, i, at)'
      BY <1>1, <1>18, <2>3, <2>4, <3>1 DEF Counted
    <3>3. Initialising(out.ctx, i, at)'
      BY <1>20, <2>8, <3>1
    <3> QED  BY <1>17, <2>5, <2>6, <3>2, <3>3 DEF LoopOpen, Framed
  <2> QED  BY <2>7, <2>8 DEF LoopOpen
<1> QED  BY <1>7, <1>21, <1>22, <1>23

-----------------------------------------------------------------------------
LEMMA LandingBegins == Paths!Init => JInv
<1> SUFFICES ASSUME Paths!Init  PROVE JInv
  OBVIOUS
<1>1. /\ prog = <<>> /\ at = 1 /\ progress = "writing" /\ Len(prog) = 0 /\ DOMAIN prog = {}
      /\ out.go = <<[k |-> "func", at |-> 0]>> /\ out.loops = <<>>
  BY DEF Paths!Init, Paths!Start
<1>2. \A n \in DOMAIN out.go : out.go[n].at < at
  BY <1>1
<1>3. \A i \in Nat : ~(LoopOfJump(i) /\ i < at)
  BY <1>1 DEF LoopOfJump
<1> QED  BY <1>1, <1>2, <1>3 DEF JInv, Parsed, JumpEmitted

(* While the path is written, nothing is open.                             *)
LEMMA LandingWritten == PInv /\ JInv /\ Paths!Write => JInv'
<1> SUFFICES ASSUME PInv, JInv, Paths!Write  PROVE JInv'
  OBVIOUS
<1>1. PICK k \in Paths!Kinds : \E part \in Paths!Parts(k), last \in BOOLEAN :
                /\ prog' = Append(prog, Paths!Node(k, part, last))
                /\ Paths!CanStand(k, IF Len(prog) + 1 = 1 THEN "func" ELSE prog[Len(prog)].k, Len(prog) + 1)
  BY DEF Paths!Write
<1>2. PICK c : prog' = Append(prog, c) /\ c.k = k
  BY <1>1 DEF Paths!Node
<1>3. PICK l \in Nat : l = Len(prog) /\ prog \in Seq(Construct) /\ DOMAIN prog = 1 .. l
  BY DEF PInv, PathTyped
<1>4. /\ DOMAIN prog' = 1 .. (l + 1) /\ prog'[l + 1].k = k
      /\ \A i \in 1 .. l : prog'[i] = prog[i]
  BY <1>2, <1>3
<1>5. progress = "writing" /\ at = 1 /\ UNCHANGED <<progress, at, out>>
  BY DEF PInv, OneJump, Paths!Write
<1>6. Parsed'
  <2>1. ASSUME NEW i \in 1 .. (l + 1), i > 1, prog'[i].k \in Paths!Statements
        PROVE  prog'[i - 1].k \notin Paths!ExprHoles
    <3>1. i - 1 \in 1 .. l /\ (i \in 1 .. l \/ i = l + 1)
      BY <2>1
    <3>2. CASE i \in 1 .. l
      BY <1>3, <1>4, <2>1, <3>1, <3>2 DEF JInv, Parsed
    <3>3. CASE i = l + 1
      <4>1. l # 0 /\ i - 1 = l
        BY <2>1, <3>3
      <4>2. prog[l].k \in Paths!ExprHoles => k \notin Paths!Statements
        BY <1>1, <1>3, <4>1 DEF Paths!CanStand
      <4> QED  BY <1>4, <2>1, <3>1, <3>3, <4>1, <4>2
    <3> QED  BY <3>1, <3>2, <3>3
  <2> QED  BY <1>4, <2>1 DEF Parsed
<1>7. \A i \in Nat : ~(LoopOfJump(i) /\ i < at)'
  BY <1>5 DEF LoopOfJump
<1> QED  BY <1>5, <1>6, <1>7 DEF JInv, JumpEmitted

LEMMA LandingChecked == PInv /\ JInv /\ Paths!Check => JInv'
<1> SUFFICES ASSUME PInv, JInv, Paths!Check  PROVE JInv'
  OBVIOUS
<1>1. at = 1 /\ UNCHANGED <<prog, at, out>> /\ progress' # "emitted"
  BY DEF PInv, OneJump, Paths!Check
<1>2. \A i \in Nat : ~(LoopOfJump(i) /\ i < at)'
  BY <1>1 DEF LoopOfJump
<1> QED  BY <1>1, <1>2 DEF JInv, JumpEmitted, Parsed

(* Nothing that an open loop is about changes.                             *)
LEMMA LandingSame ==
  ASSUME JInv, UNCHANGED <<prog, at, others>>, out'.go = out.go, out'.loops = out.loops,
         out'.ctx = out.ctx, JumpEmitted'
  PROVE  JInv'
<1>1. ASSUME NEW i \in Nat, LoopOfJump(i)', i < at'
      PROVE  LoopOpen(i)'
  <2>1. LoopOpen(i)
    BY <1>1 DEF JInv, LoopOfJump
  <2>2. Paths!NeedsLabel(i)' <=> Paths!NeedsLabel(i)
    BY SameLabels
  <2>3. Framed(out.loops, i)'
    BY <2>1, <2>2 DEF LoopOpen, Framed
  <2>4. \E p \in Nat : ForAt(out.go, i, p)'
    BY <2>1 DEF LoopOpen, ForAt
  <2>5. WantedBy(prog'[at' - 1].k, out'.ctx)
    BY <2>1 DEF LoopOpen
  <2>6. Literals(out.go, i)' <=> Literals(out.go, i)
    BY DEF Literals
  <2>7. Counted(out.go, out.loops, i, at)' <=> Counted(out.go, out.loops, i, at)
    BY DEF Counted, Switches
  <2>8. Initialising(out.ctx, i, at) => Initialising(out.ctx, i, at)'
    BY DEF Initialising, CatchOfInitialiser, Paths!AsValue
  <2> QED  BY <2>1, <2>3, <2>4, <2>5, <2>6, <2>7, <2>8 DEF LoopOpen
<1>2. Parsed'
  BY DEF JInv, Parsed
<1>3. \A n \in DOMAIN out'.go : out'.go[n].at < at'
  BY DEF JInv
<1>4. out'.loops \in Seq(LoopFrames)
  BY DEF JInv
<1> QED  BY <1>1, <1>2, <1>3, <1>4 DEF JInv

(* Only a loop's frame is ever added, only a switch counts.                *)
LEMMA LoopsOfSteps ==
  ASSUME PathTyped, Paths!Emission, ~Paths!EmitJump, ~Paths!EmitLoop, progress' # "refused"
  PROVE  out'.loops = out.loops \/ out'.loops = Paths!EnterSwitch(out).loops
<1>1. DOMAIN out = Fields
  BY DEF PathTyped, Fields
<1>2. PICK switched : switched = Paths!EnterSwitch(out)
  OBVIOUS
<1>3. DOMAIN switched = Fields
  BY <1>1, <1>2, OpensAndMoves
<1>4. ASSUME NEW c, Paths!Emit(Paths!In(out, c))
      PROVE  out'.loops = out.loops
  BY <1>1, <1>4, NoneOpens
<1>5. ASSUME NEW k, NEW c, Paths!Emit(Paths!In(Paths!Open(out, k, at), c))
      PROVE  out'.loops = out.loops
  BY <1>1, <1>5, OneOpens
<1>6. ASSUME NEW k, NEW c, Paths!Emit(Paths!In(Paths!Open(switched, k, at), c))
      PROVE  out'.loops = switched.loops
  BY <1>3, <1>6, OneOpens
<1>7. ASSUME NEW flag, NEW c,
             Paths!Emit(Paths!In(Paths!Open([out EXCEPT !.inSpawn = flag], "func", at), c))
      PROVE  out'.loops = out.loops
  <2>1. PICK o : o = [out EXCEPT !.inSpawn = flag]
    OBVIOUS
  <2>2. DOMAIN o = Fields /\ o.loops = out.loops
    BY <1>1, <2>1 DEF Fields
  <2> QED  BY <1>7, <2>1, <2>2, OneOpens
<1>8. CASE Paths!EmitIf \/ Paths!EmitBlock \/ Paths!EmitLet \/ Paths!EmitReturnOf \/ Paths!EmitCall
  <2>1. \E c : Paths!Emit(Paths!In(out, c))
    BY <1>8 DEF Paths!EmitIf, Paths!EmitBlock, Paths!EmitLet, Paths!EmitReturnOf, Paths!EmitCall,
                Paths!Proceed, Paths!Refuse
  <2> QED  BY <1>4, <2>1
<1>9. CASE Paths!EmitIfExprAsValue \/ Paths!EmitBlockAsExpr
  <2>1. Paths!Emit(Paths!In(Paths!Open(out, "iife", at), "value"))
    BY <1>9 DEF Paths!EmitIfExprAsValue, Paths!EmitBlockAsExpr, Paths!Proceed, Paths!Refuse
  <2> QED  BY <1>5, <2>1
<1>10. CASE Paths!EmitMatchSwitch \/ Paths!EmitSelect
  <2>1. \E c : Paths!Emit(Paths!In(Paths!Open(switched, "switch", at), c))
    BY <1>2, <1>10 DEF Paths!EmitMatchSwitch, Paths!EmitSelect, Paths!Proceed, Paths!Refuse
  <2> QED  BY <1>2, <1>6, <2>1
<1>11. CASE Paths!EmitMatchAsExpr
  <2>1. PICK o : o = Paths!Open(out, "iife", at)
    OBVIOUS
  <2>2. PICK c : Paths!Emit(Paths!In(Paths!Open(o, "switch", at), c))
    BY <1>11, <2>1 DEF Paths!EmitMatchAsExpr, Paths!Proceed, Paths!Refuse
  <2>3. DOMAIN o = Fields /\ o.loops = out.loops
    BY <1>1, <2>1, OpensOne, LoopsKept
  <2> QED  BY <2>2, <2>3, OneOpens
<1>12. CASE Paths!EmitCatch
  <2>1. \/ \E c : Paths!Emit(Paths!In(out, c))
        \/ \E c : Paths!Emit(Paths!In(Paths!Open(switched, "switch", at), c))
    BY <1>2, <1>12 DEF Paths!EmitCatch, Paths!Proceed, Paths!Refuse
  <2> QED  BY <1>2, <1>4, <1>6, <2>1
<1>13. CASE Paths!EmitClosure \/ Paths!EmitScope \/ Paths!EmitSpawn
  <2>1. \E flag, c : Paths!Emit(Paths!In(Paths!Open([out EXCEPT !.inSpawn = flag], "func", at), c))
    BY <1>13 DEF Paths!EmitClosure, Paths!EmitScope, Paths!EmitSpawn, Paths!Proceed, Paths!Refuse
  <2> QED  BY <1>7, <2>1
<1> QED  BY <1>8, <1>9, <1>10, <1>11, <1>12, <1>13 DEF Paths!Emission

LEMMA OthersKept == Paths!Emission => UNCHANGED others
BY Zenon DEF Paths!Emission, Paths!EmitLoop, Paths!EmitIf, Paths!EmitIfExprAsValue,
       Paths!EmitMatchSwitch, Paths!EmitMatchAsExpr, Paths!EmitBlock, Paths!EmitBlockAsExpr,
       Paths!EmitSelect, Paths!EmitCatch, Paths!EmitLet, Paths!EmitReturnOf, Paths!EmitCall,
       Paths!EmitClosure, Paths!EmitScope, Paths!EmitSpawn, Paths!EmitJump, Paths!Proceed

LEMMA LandingEmitted ==
  ASSUME PInv, JInv, Paths!Emission, ~Paths!EmitJump, progress' # "refused"
  PROVE  JInv'
<1>1. /\ progress = "checked" /\ UNCHANGED <<prog, progress>> /\ at' = at + 1
      /\ Inside \/ IntoFrame
  BY Emissions DEF PInv
<1>2. PICK l \in Nat : l = Len(prog) /\ at \in 1 .. l
  BY <1>1 DEF PInv, PathTyped, OneJump
<1>3. Parsed'
  BY <1>1 DEF JInv, Parsed
<1>4. JumpEmitted'
  BY <1>1 DEF JumpEmitted
<1>5. ASSUME NEW i \in Nat, LoopOfJump(i)', i < at'
      PROVE  LoopOpen(i)'
  <2>1. LoopOfJump(i)
    BY <1>1, <1>5 DEF LoopOfJump
  <2>2. CASE i < at
    <3>1. LoopOpen(i)
      BY <2>1, <2>2 DEF JInv
    <3> QED  BY <2>1, <2>2, <3>1, ForStays
  <2>3. CASE i = at
    <3>1. prog[at].k = "loop"
      BY <2>1, <2>3 DEF LoopOfJump
    <3>2. Paths!EmitLoop
      BY <3>1 DEF Paths!Emission, Paths!EmitIf, Paths!EmitIfExprAsValue,
         Paths!EmitMatchSwitch, Paths!EmitMatchAsExpr, Paths!EmitBlock, Paths!EmitBlockAsExpr,
         Paths!EmitSelect, Paths!EmitCatch, Paths!EmitLet, Paths!EmitReturnOf, Paths!EmitCall,
         Paths!EmitClosure, Paths!EmitScope, Paths!EmitSpawn, Paths!Reaches
    <3> QED  BY <2>3, <3>2, ForOpens
  <2> QED  BY <1>1, <1>2, <1>5, <2>2, <2>3
<1>6. out'.loops \in Seq(LoopFrames)
  <2>1. CASE Paths!EmitLoop
    BY <1>2, <2>1, ForOpens
  <2>2. CASE ~Paths!EmitLoop
    <3>1. PICK loops \in Seq(LoopFrames) : loops = out.loops
      BY DEF JInv
    <3>2. PICK deeper : deeper = Paths!EnterSwitch(out).loops
      OBVIOUS
    <3>3. deeper = IF loops = <<>> THEN loops ELSE [loops EXCEPT ![Len(loops)].depth = @ + 1]
      BY <3>1, <3>2, LoopsAndWants DEF PInv, PathTyped, Fields
    <3>5. deeper \in Seq(LoopFrames)
      BY <3>3, DeeperIs
    <3>6. out'.loops = loops \/ out'.loops = deeper
      BY <2>2, <3>1, <3>2, LoopsOfSteps DEF PInv
    <3> QED  BY <3>5, <3>6
  <2> QED  BY <2>1, <2>2
<1>7. \A n \in DOMAIN out'.go : out'.go[n].at < at'
  <2>1. PICK go \in Seq(GoConstruct) : go = out.go /\ \A n \in DOMAIN go : go[n].at < at
    BY DEF PInv, PathTyped, JInv
  <2>2. ASSUME NEW g \in Seq(GoConstruct), NEW x \in GoConstruct, x.at = at,
               \A n \in DOMAIN g : g[n].at < at + 1
        PROVE  Append(g, x) \in Seq(GoConstruct) /\ \A n \in DOMAIN Append(g, x) : Append(g, x)[n].at < at + 1
    <3>7. Append(g, x) \in Seq(GoConstruct)
      OBVIOUS
    <3>1. PICK more \in Seq(GoConstruct) : more = Append(g, x)
      BY <3>7
    <3>6. PICK m \in Nat : m = Len(g)
      OBVIOUS
    <3>2. m = Len(g) /\ DOMAIN g = 1 .. m
      BY <3>6
    <3>3. DOMAIN more = 1 .. (m + 1) /\ more[m + 1] = x /\ \A n \in 1 .. m : more[n] = g[n]
      BY <3>1, <3>2
    <3>4. \A n \in 1 .. (m + 1) : n \in 1 .. m \/ n = m + 1
      OBVIOUS
    <3>5. at < at + 1
      BY <1>2
    <3> QED  BY <2>2, <3>1, <3>2, <3>3, <3>4, <3>5
  <2>3. \A n \in DOMAIN go : go[n].at < at + 1
    <3>1. \A n \in DOMAIN go : go[n].at \in Nat
      <4>1. \A n \in DOMAIN go : go[n] \in GoConstruct
        OBVIOUS
      <4> QED  BY <4>1 DEF GoConstruct
    <3> QED  BY <1>2, <2>1, <3>1
  <2>4. \A k \in {"func", "iife", "for", "switch"} : Opened(k, at) \in GoConstruct /\ Opened(k, at).at = at
    BY <1>2, OpenedIs
  <2>5. \/ out'.go = go
        \/ \E k \in {"func", "iife", "for", "switch"} : out'.go = Append(go, Opened(k, at))
        \/ out'.go = Append(Append(go, Opened("iife", at)), Opened("switch", at))
    BY <1>1, <2>1 DEF Inside, IntoFrame
  <2>6. CASE out'.go = go
    BY <1>1, <2>3, <2>6
  <2>7. CASE \E k \in {"func", "iife", "for", "switch"} : out'.go = Append(go, Opened(k, at))
    BY <1>1, <2>2, <2>3, <2>4, <2>7
  <2>8. CASE out'.go = Append(Append(go, Opened("iife", at)), Opened("switch", at))
    <3>1. PICK g \in Seq(GoConstruct) : g = Append(go, Opened("iife", at)) /\ \A n \in DOMAIN g : g[n].at < at + 1
      BY <2>2, <2>3, <2>4
    <3> QED  BY <1>1, <2>2, <2>4, <2>8, <3>1
  <2> QED  BY <2>5, <2>6, <2>7, <2>8
<1> QED  BY <1>3, <1>4, <1>5, <1>6, <1>7 DEF JInv

LEMMA LandingJump == PInv /\ JInv /\ Paths!EmitJump => JInv'
<1> SUFFICES ASSUME PInv, JInv, Paths!EmitJump  PROVE JInv'
  OBVIOUS
<1>1. UNCHANGED <<prog, at, others>>
  <2>1. UNCHANGED <<prog, others>>
    BY DEF Paths!EmitJump
  <2>2. UNCHANGED at
    BY DEF Paths!EmitJump, Paths!Refuse
  <2> QED  BY <2>1, <2>2
<1>2. CASE progress' = "refused"
  <2>1. UNCHANGED out
    BY <1>2, Refusals DEF Paths!Emission
  <2> QED  BY <1>1, <1>2, <2>1, LandingSame DEF JumpEmitted
<1>3. CASE progress' # "refused"
  <2>1. /\ ~Paths!AsValue(Paths!pos)
        /\ \E jump : out' = [out EXCEPT !.jump = jump,
                           !.label = IF Paths!Jump = "break" THEN Paths!BreakLabel ELSE 0]
    BY <1>3 DEF Paths!EmitJump, Paths!Refuse
  <2>2. PICK label : label = IF Paths!Jump = "break" THEN Paths!BreakLabel ELSE 0
    OBVIOUS
  <2>3. PICK jump : out' = [out EXCEPT !.jump = jump, !.label = label]
    BY <2>1, <2>2
  <2>4. /\ out'.go = out.go /\ out'.loops = out.loops /\ out'.ctx = out.ctx /\ out'.label = label
    BY <2>3 DEF PInv, PathTyped
  <2>5. Paths!pos' = Paths!pos
    BY <1>1, <2>4 DEF Paths!pos, Paths!Position, Paths!InBlock, Paths!Trailing, Paths!Parent
  <2>6. Paths!BreakLabel' = Paths!BreakLabel /\ Paths!Jump' = Paths!Jump
    BY <1>1, <2>4 DEF Paths!BreakLabel, Paths!Jump
  <2>7. JumpEmitted'
    BY <2>1, <2>2, <2>4, <2>5, <2>6 DEF JumpEmitted, Paths!AsValue
  <2> QED  BY <1>1, <2>4, <2>7, LandingSame
<1> QED  BY <1>2, <1>3

LEMMA LandingSteps == PInv /\ JInv /\ [Paths!Next]_Paths!vars => JInv'
<1> SUFFICES ASSUME PInv, JInv, [Paths!Next]_Paths!vars  PROVE JInv'
  OBVIOUS
<1>1. CASE UNCHANGED Paths!vars
  <2>1. UNCHANGED <<prog, at, out, progress, others>>
    BY <1>1 DEF Paths!vars
  <2>2. Paths!pos' = Paths!pos
    BY <2>1 DEF Paths!pos, Paths!Position, Paths!InBlock, Paths!Trailing, Paths!Parent
  <2>3. JumpEmitted'
    BY <2>1, <2>2 DEF JInv, JumpEmitted, Paths!AsValue, Paths!BreakLabel, Paths!Jump
  <2> QED  BY <2>1, <2>3, LandingSame
<1>2. CASE Paths!Emission
  <2>1. CASE Paths!EmitJump
    BY <2>1, LandingJump
  <2>2. CASE progress' = "refused"
    <3>1. UNCHANGED <<prog, at, out, others>>
      BY <1>2, <2>2, Refusals, OthersKept
    <3> QED  BY <2>2, <3>1, LandingSame DEF JumpEmitted
  <2>3. CASE ~Paths!EmitJump /\ progress' # "refused"
    BY <1>2, <2>3, LandingEmitted
  <2> QED  BY <2>1, <2>2, <2>3
<1> QED  BY <1>1, <1>2, LandingWritten, LandingChecked DEF Paths!Next

-----------------------------------------------------------------------------
(* A bounded set of positions has a highest.                               *)
LEMMA SomeHighest ==
  ASSUME NEW N \in Nat, NEW S \in SUBSET (1 .. N)
  PROVE  Paths!Highest(S) \in Nat /\ IsHighest(Paths!Highest(S), S)
<1>1. CASE S = {}
  BY <1>1 DEF IsHighest, Paths!Highest
<1>2. CASE S # {}
  <2> DEFINE below == {N - k : k \in S}
  <2>1. below \in SUBSET Nat /\ below # {}
    <3>1. \A k \in 1 .. N : N - k \in Nat
      OBVIOUS
    <3> QED  BY <1>2, <3>1
  <2>2. Least(below) \in below /\ \A k \in below : Least(below) <= k
    <3> HIDE DEF below
    <3> QED  BY <2>1, LeastIsOne
  <2>3. PICK n \in S : N - n = Least(below)
    BY <2>2
  <2>4. \A k \in S : N - n <= N - k
    BY <2>2, <2>3
  <2>5. n \in Nat /\ \A k \in S : k <= n
    BY <2>4
  <2>6. IsHighest(n, S)
    BY <2>3, <2>5 DEF IsHighest
  <2> QED  BY <2>5, <2>6, HighestIs
<1> QED  BY <1>1, <1>2

(* Go finds the loop: below its `for` there are only switches, and a break *)
(* among them names it.                                                    *)
LEMMA LandsOnFor ==
  ASSUME PInv, JInv, NEW i \in Nat, LoopOfJump(i), progress = "emitted",
         Paths!Jump \in {"break", "continue"}, ~Literals(out.go, i),
         Paths!Jump = "break" => out.label \in {0, i},
         Paths!Jump = "break" /\ out.label = 0 => ~Switches(out.go, i)
  PROVE  out.go[Paths!GoTarget].at = i
<1>1. i < at /\ LoopOpen(i)
  BY DEF PInv, PathTyped, OneJump, JInv, LoopOfJump
<1>2. PICK p \in Nat : ForAt(out.go, i, p)
  BY <1>1 DEF LoopOpen
<1>3. PICK go \in Seq(GoConstruct) : go = out.go /\ go = Paths!Go
  BY DEF PInv, PathTyped, Paths!Go
<1>4. PICK l \in Nat : l = Len(go) /\ DOMAIN go = 1 .. l
  BY <1>3
<1>5. /\ p \in 1 .. l /\ go[p].k = "for" /\ go[p].at = i
      /\ \A n \in 1 .. l : n < p => go[n].at < i
      /\ \A n \in 1 .. l : n > p => go[n].k = "switch"
  BY <1>2, <1>3, <1>4 DEF ForAt, Literals
<1>6. PICK f \in Nat : f = Paths!GoFunc /\ f < p
  <2>1. FunctionsOf(go) \in SUBSET (1 .. l)
    BY <1>4 DEF FunctionsOf
  <2>2. Paths!GoFunc = Paths!Highest(FunctionsOf(go))
    BY <1>3 DEF Paths!GoFunc, FunctionsOf
  <2>3. PICK f \in Nat : f = Paths!GoFunc /\ IsHighest(f, FunctionsOf(go))
    BY <2>1, <2>2, SomeHighest
  <2>4. f \in FunctionsOf(go) => f \in 1 .. l /\ f # p /\ ~(f > p)
    BY <1>4, <1>5 DEF FunctionsOf
  <2> QED  BY <1>5, <2>3, <2>4 DEF IsHighest
<1>7. p \in (f + 1) .. l /\ \A n \in (f + 1) .. l : n \in 1 .. l
  BY <1>5, <1>6
<1>8. ASSUME NEW S \in SUBSET ((f + 1) .. l), p \in S, \A n \in S : ~(n > p)
      PROVE  Paths!Highest(S) = p
  <2>1. S \in SUBSET Nat /\ \A n \in S : n <= p
    BY <1>5, <1>7, <1>8
  <2> QED  BY <1>8, <2>1, HighestIs DEF IsHighest
<1>9. Paths!Highest({n \in (f + 1) .. l : go[n].k \in {"for"}}) = p
  BY <1>5, <1>7, <1>8
<1>10. CASE Paths!Jump = "continue"
  <2>1. Paths!GoAbove({"for"}) = p
    BY <1>3, <1>4, <1>6, <1>9 DEF Paths!GoAbove
  <2>3. out.label = 0
    BY <1>10 DEF JInv, JumpEmitted
  <2>2. Paths!GoTarget = p
    BY <1>10, <2>1, <2>3 DEF Paths!GoTarget
  <2> QED  BY <1>3, <1>5, <2>2
<1>11. CASE Paths!Jump = "break" /\ out.label # 0
  <2>1. out.label = i
    BY <1>11
  <2>2. Paths!Highest({n \in (f + 1) .. l : go[n].k = "for" /\ go[n].at = i}) = p
    BY <1>5, <1>7, <1>8
  <2>3. Paths!GoTarget = p
    BY <1>3, <1>4, <1>6, <1>11, <2>1, <2>2 DEF Paths!GoTarget
  <2> QED  BY <1>3, <1>5, <2>3
<1>12. CASE Paths!Jump = "break" /\ out.label = 0
  <2>1. \A n \in 1 .. l : ~(n > p)
    <3>1. ~Switches(go, i)
      BY <1>3, <1>12
    <3>2. \A n \in 1 .. l : n > p => go[n].at > i
      BY <1>2, <1>3, <1>4 DEF ForAt
    <3> QED  BY <1>4, <1>5, <3>1, <3>2 DEF Switches
  <2>2. Paths!Highest({n \in (f + 1) .. l : go[n].k \in {"for", "switch"}}) = p
    BY <1>5, <1>7, <1>8, <2>1
  <2>3. Paths!GoTarget = p
    BY <1>3, <1>4, <1>6, <1>12, <2>2 DEF Paths!GoTarget, Paths!GoAbove
  <2> QED  BY <1>3, <1>5, <2>3
<1> QED  BY <1>10, <1>11, <1>12

(* A break that has to cross a switch does have a label: the walk that     *)
(* looks for one gets to it, but for Unseen.                               *)
LEMMA CrossesByLabel ==
  ASSUME PInv, JInv, NEW i \in Nat, i = Paths!SourceLoop, LoopOfJump(i), progress = "emitted",
         Paths!Jump = "break", ~Literals(out.go, i), ~Paths!Unseen
  PROVE  /\ out.label \in {0, i}
         /\ Switches(out.go, i) => out.label # 0
<1>1. PICK l \in Nat : l = Len(prog) /\ at = l /\ DOMAIN prog = 1 .. l /\ prog[l].k \in Paths!Jumps
  BY DEF PInv, PathTyped, OneJump
<1>2. i \in 1 .. (l - 1) /\ i < at
  BY <1>1 DEF LoopOfJump
<1>3. LoopOpen(i)
  BY <1>2 DEF JInv
<1>4. PICK loops \in Seq(LoopFrames) : loops = out.loops /\ Framed(loops, i)
  BY <1>3 DEF LoopOpen, JInv
<1>5. out.label = IF loops # <<>> /\ loops[Len(loops)].depth > 0 /\ loops[Len(loops)].label
                  THEN loops[Len(loops)].at ELSE 0
  BY <1>4, Zenon DEF JInv, JumpEmitted, Paths!BreakLabel
<1>6. loops # <<>> /\ loops[Len(loops)].at = i
  BY <1>4 DEF Framed
<1>7. out.label \in {0, i}
  BY <1>5, <1>6
<1>8. ASSUME Switches(out.go, i)  PROVE out.label # 0
  <2>1. /\ loops[Len(loops)].depth > 0
        /\ \E j \in (i + 1) .. (l - 1) : prog[j].k \in {"match", "select"}
        /\ Initialising(out.ctx, i, l)
    BY <1>1, <1>3, <1>4, <1>8 DEF LoopOpen, Counted
  <2>2. Paths!NeedsLabel(i)
    <3>1. PICK s \in (i + 1) .. (l - 1) : prog[s].k \in {"match", "select"}
      BY <2>1
    <3>2. s \in Paths!Above({"match", "select"}) /\ s > i
      BY <1>1, <3>1 DEF Paths!Above
    <3>3. ~(\E j \in Paths!Above({"if", "catch"}) :
               /\ j > i
               /\ \/ prog[j].k = "if" /\ prog[j].part = "elif" /\ Paths!IfIsExpr(j)
                  \/ prog[j].k = "catch" /\ prog[j - 1].k \in {"let", "ret"})
      BY <3>2 DEF Paths!Unseen
    <3>4. ASSUME NEW j \in (i + 1) .. (l - 1)
          PROVE  /\ j > i
                 /\ ~(prog[j].k = "if" /\ prog[j].part = "elif" /\ Paths!IfIsExpr(j))
                 /\ ~(prog[j].k = "catch" /\ prog[j - 1].k \in {"let", "ret"})
      <4>1. j > i /\ j \in 1 .. (l - 1)
        BY <1>2
      <4>2. prog[j].k \in {"if", "catch"} => j \in Paths!Above({"if", "catch"})
        BY <1>1, <4>1 DEF Paths!Above
      <4> QED  BY <3>3, <4>1, <4>2
    <3>5. ~CatchOfInitialiser(i, l)
      BY <3>4 DEF CatchOfInitialiser
    <3>6. prog[l - 1].k \notin Initialisers
      <4>1. at > 1 /\ WantedBy(prog[at - 1].k, out.ctx)
        BY <1>1, <1>2, <1>3 DEF LoopOpen
      <4>2. prog[at - 1].k \in Initialisers => Paths!AsValue(Paths!pos)
        BY <1>1, <4>1, PositionInLoop
      <4> QED  BY <1>1, <4>2 DEF JInv, JumpEmitted
    <3>7. \A j \in (i + 1) .. (l - 1) : prog[j].k \notin Initialisers
      BY <2>1, <3>5, <3>6 DEF Initialising
    <3>8. ASSUME NEW j \in (i + 1) .. (l - 1)  PROVE Paths!WalkEnters(j)
      <4>1. j \in 1 .. l /\ j < l
        BY <1>2
      <4>2. prog[j].k \notin {"loop"} \cup Paths!Frames \cup Paths!Jumps \cup Initialisers
        BY <1>1, <3>7, <4>1 DEF LoopOfJump, PInv, OneJump
      <4>3. prog[j].k \in Paths!Kinds
        <5>1. prog[j] \in Construct
          BY <1>1, <4>1 DEF PInv, PathTyped
        <5> QED  BY <5>1 DEF Construct
      <4>4. prog[j].k \in {"match", "catch", "select", "block", "if"}
        BY <4>2, <4>3 DEF Paths!Kinds, Paths!Frames, Paths!Jumps, Initialisers
      <4> QED  BY <3>4, <4>4 DEF Paths!WalkEnters
    <3> QED  BY <1>1, <3>1, <3>8 DEF Paths!NeedsLabel
  <2>3. loops[Len(loops)].label
    BY <1>4, <2>2 DEF Framed
  <2> QED  BY <1>2, <1>5, <1>6, <2>1, <2>3
<1> QED  BY <1>7, <1>8

LEMMA LandsRight == PInv /\ JInv => JumpHitsItsLoop
<1> SUFFICES ASSUME PInv, JInv, progress = "emitted", Paths!Jump \in {"break", "continue"},
                    Paths!SourceLoop > Paths!SourceFrame, ~Paths!BehindValue(Paths!SourceLoop),
                    ~Paths!Unseen
             PROVE  out.go[Paths!GoTarget].at = Paths!SourceLoop
  BY DEF JumpHitsItsLoop, Paths!JumpHitsItsLoop, Paths!Built, Paths!Go
<1>1. PICK l \in Nat : l = Len(prog) /\ DOMAIN prog = 1 .. l /\ l >= 1
  BY DEF PInv, PathTyped, OneJump
<1>2. PICK N \in Nat : N = l - 1
  BY <1>1
<1>3. /\ Paths!Above({"loop"}) \in SUBSET (1 .. N)
      /\ Paths!Above(Paths!Frames) \in SUBSET (1 .. N)
  BY <1>1, <1>2 DEF Paths!Above
<1>4. PICK i \in Nat : i = Paths!SourceLoop /\ IsHighest(i, Paths!Above({"loop"}))
  BY <1>3, SomeHighest DEF Paths!SourceLoop
<1>5. PICK f \in Nat : f = Paths!SourceFrame /\ IsHighest(f, Paths!Above(Paths!Frames))
  BY <1>3, SomeHighest DEF Paths!SourceFrame
<1>6. i > f /\ i \in Paths!Above({"loop"})
  BY <1>4, <1>5 DEF IsHighest
<1>7. i \in 1 .. (l - 1) /\ prog[i].k = "loop"
  BY <1>1, <1>6 DEF Paths!Above
<1>8. ASSUME NEW j \in (i + 1) .. (l - 1)  PROVE prog[j].k \notin {"loop"} \cup Paths!Frames
  <2>1. j \in 1 .. (l - 1) /\ ~(j <= i) /\ ~(j <= f)
    BY <1>6, <1>7
  <2>2. j \notin Paths!Above({"loop"}) /\ j \notin Paths!Above(Paths!Frames)
    BY <1>4, <1>5, <2>1 DEF IsHighest
  <2> QED  BY <1>1, <2>1, <2>2 DEF Paths!Above
<1>9. LoopOfJump(i)
  BY <1>1, <1>7, <1>8 DEF LoopOfJump
<1>10. ~Literals(out.go, i)
  BY <1>4 DEF Literals, Paths!BehindValue, Paths!Go, PInv, PathTyped
<1>11. Paths!Jump = "break" => out.label \in {0, i} /\ (Switches(out.go, i) => out.label # 0)
  BY <1>4, <1>9, <1>10, CrossesByLabel
<1> QED  BY <1>4, <1>9, <1>10, <1>11, LandsOnFor

(* A break or continue that is compiled leaves or resumes the loop it is   *)
(* written in, for paths of any depth, unless a construct that is a value  *)
(* stands in between or the walk that labels loops does not see it.        *)
THEOREM JumpsHitTheirLoop == Paths!Spec => []JumpHitsItsLoop
<1>1. Paths!Init => PInv /\ JInv
  BY PathBegins, LandingBegins
<1>2. PInv /\ JInv /\ [Paths!Next]_Paths!vars => PInv' /\ JInv'
  BY PathSteps, LandingSteps
<1>3. PInv /\ JInv => JumpHitsItsLoop
  BY LandsRight
<1> QED  BY <1>1, <1>2, <1>3, PTL DEF Paths!Spec

-----------------------------------------------------------------------------
(* What binds a local, or a parameter.                                       *)
LocalKinds == {"let", "var", "chan", "tuple", "param", "arm", "catch", "recv", "loop",
               "counter", "key", "element"}

(* Aril's frames; the blocks of Go hold neither variants nor fields.         *)
Bindings == [by : LocalKinds \cup {"variant", "field"}, name : Name, no : Nat]

Frames == [Name -> Bindings \cup {Body!Nothing}]
Blocks == [Name -> [by : LocalKinds, name : Name, no : Nat] \cup {Body!Nothing}]

(* The entries of open.                                                      *)
Loops == [scopes : Nat, blocks : Nat, tail : BOOLEAN, inlined : BOOLEAN, ended : BOOLEAN,
          invariant : Name \cup {Body!NoName}, symbol : Bindings \cup {Body!Nothing}]

Typed ==
  /\ world \in [outer : [Name -> Body!Outer], contracts : {"off", "panic"}]
  /\ Body!Outside(world.outer, "field") # {} => world.contracts = "off"
  /\ locals \in Nat /\ uses \in Nat
  /\ scopes \in Seq(Frames) /\ blocks \in Seq(Blocks)
  /\ open \in Seq(Loops)
  /\ used \in SUBSET Bindings /\ predicated \in SUBSET Bindings
  /\ assigned \in SUBSET Bindings

(* What a symbol of the name n says of itself: a variant is the one of that  *)
(* name, a field is the receiver's, and locals are numbered as they come.    *)
Sound(w, last, b, n) ==
  /\ b.by = "variant" => b = Body!Binding("variant", n, 0) /\ w.outer[n] = "variant"
  /\ b.by = "field" => w.outer[n] = "field"
  /\ b.no <= last

Numbered ==
  /\ \A i \in DOMAIN scopes, n \in Name :
       scopes[i][n] # Body!Nothing => Sound(world, locals, scopes[i][n], n)
  /\ \A i \in DOMAIN blocks, n \in Name :
       blocks[i][n] # Body!Nothing => blocks[i][n].no <= locals
  /\ \A b \in used \cup predicated : b.no <= locals

(* Only tails are ended; the symbol of an invariant is one of its name.      *)
OpenShape ==
  \A j \in DOMAIN open :
    /\ open[j].ended => open[j].tail
    /\ open[j].invariant # Body!NoName =>
         /\ ~open[j].tail
         /\ open[j].symbol # Body!Nothing
         /\ Sound(world, locals, open[j].symbol, open[j].invariant)
         /\ Body!Outside(world.outer, "field") = {}

(* Under the name n, the first k frames of a chain show b.                   *)
Sees(chain, k, n, b) ==
  /\ b # Body!Nothing
  /\ \E i \in 1..k : /\ chain[i][n] = b
                     /\ \A l \in (i + 1)..k : chain[l][n] = Body!Nothing

(* sc[j] and bc[j]: how many scopes and blocks there are up to and with the  *)
(* j-th construct that is open.                                              *)
Depths(sc, bc) ==
  /\ sc[0] = 2 /\ bc[0] = 1
  /\ sc[Len(open)] = Len(scopes) /\ bc[Len(open)] = Len(blocks)
  /\ \A j \in DOMAIN open : /\ sc[j] = sc[j - 1] + open[j].scopes
                            /\ bc[j] = bc[j - 1] + open[j].blocks
  /\ \A i, j \in 0..Len(open) : i < j => sc[i] < sc[j] /\ bc[i] <= bc[j]
  /\ \A i \in DOMAIN open, j \in 0..Len(open) : i < j /\ ~open[i].ended => bc[i] < bc[j]

(* Wherever statements can still be added, now or once what is inside is     *)
(* closed, Go's blocks show what Aril's scopes show, fields and the names of *)
(* variants aside.                                                           *)
Agree(sc, bc) ==
  \A j \in DOMAIN open, n \in Name, b \in Bindings :
    ~open[j].ended /\ world.outer[n] # "variant" /\ b.by # "field" /\ Sees(scopes, sc[j], n, b)
      => Sees(blocks, bc[j], n, b)

(* Under the name of a loop's invariant Go shows its symbol or a later       *)
(* binding, and all that is bound inside of the loop is later.               *)
Invariants(bc) ==
  \A j \in DOMAIN open :
    open[j].invariant # Body!NoName =>
      /\ \/ world.outer[open[j].invariant] = "variant"
         \/ \E g \in Bindings : /\ Sees(blocks, bc[j], open[j].invariant, g)
                      /\ (g = open[j].symbol \/ g.no > open[j].symbol.no)
      /\ \A q \in (bc[j] + 1)..Len(blocks), n \in Name :
           blocks[q][n] # Body!Nothing => blocks[q][n].no > open[j].symbol.no

(* What the block of a construct binds is bound in its innermost scope too,  *)
(* or by the construct itself.                                               *)
Mirrored(sc, bc) ==
  \A j \in DOMAIN open, n \in Name :
    ~open[j].ended /\ ~open[j].inlined /\ blocks[bc[j]][n] # Body!Nothing
      => \/ scopes[sc[j]][n] # Body!Nothing
         \/ blocks[bc[j]][n].by \in {"param", "catch", "recv", "element"}

(* What a statement declares in a block of a construct is used, or still in  *)
(* one of its scopes, where reportUnusedLocals will see it.                  *)
Declared(sc, bc) ==
  \A j \in DOMAIN open, n \in Name :
    \A q \in (bc[j - 1] + 1)..Len(blocks) :
      blocks[q][n].by \in {"let", "var", "tuple"} =>
         \/ blocks[q][n] \in used \cup predicated
         \/ \E p \in (sc[j - 1] + 1)..Len(scopes) : scopes[p][n] = blocks[q][n]

(* What accounts for a variable that the checker took for used.              *)
InBlocks(v) == \E q \in DOMAIN blocks, n \in Name : v # Body!Nothing /\ blocks[q][n] = v
Excused(v) == v \in read \/ v \in assigned \/ \E use \in astray : use.aril = v

(* A variable still in a block that is marked used is read, assigned or      *)
(* strayed from; one that only a contract marks is too, or a loop that is    *)
(* open will read it; the counter and the key of a loop are always read.     *)
Marked ==
  /\ \A v \in used : InBlocks(v) => Excused(v)
  /\ world.contracts = "panic" => \A v \in predicated : InBlocks(v) =>
        Excused(v) \/ \E j \in DOMAIN open : open[j].invariant # Body!NoName /\ open[j].symbol = v
  /\ \A q \in DOMAIN blocks, n \in Name : blocks[q][n].by \in {"counter", "key"} => blocks[q][n] \in read

-----------------------------------------------------------------------------
(* The greatest of some positions, as SelectLastInSeq takes it.              *)
LEMMA GreatestIsOne ==
  ASSUME NEW N \in Nat, NEW S \in SUBSET (1..N), S # {}
  PROVE  Body!Max(S) \in S /\ \A k \in S : k <= Body!Max(S)
<1> DEFINE below == {N - k : k \in S}
<1>1. below \in SUBSET Nat /\ below # {}
  <2>1. \A k \in S : N - k \in Nat
    <3>1. \A k \in 1..N : N - k \in Nat
      OBVIOUS
    <3> QED  BY <3>1
  <2> QED  BY <2>1
<1>2. Least(below) \in below /\ \A k \in below : Least(below) <= k
  <2> HIDE DEF below
  <2> QED  BY <1>1, LeastIsOne
<1>3. PICK top \in S : N - top = Least(below)
  BY <1>2
<1>4. \A k \in S : N - top <= N - k
  BY <1>2, <1>3
<1>5. \A k \in S : top >= k
  BY <1>4
<1> QED  BY <1>5 DEF Body!Max

(* Lookup finds what a chain shows.                                          *)
LEMMA SeesIsLookup ==
  ASSUME NEW chain \in Seq(Frames), NEW n \in Name
  PROVE  /\ Body!Lookup(chain, n) # Body!Nothing => Sees(chain, Len(chain), n, Body!Lookup(chain, n))
         /\ \A b : Sees(chain, Len(chain), n, b) => Body!Lookup(chain, n) = b
<1> DEFINE hits == {i \in 1..Len(chain) : chain[i][n] # Body!Nothing}
<1>0. PICK N \in Nat : N = Len(chain)
  OBVIOUS
<1>5. hits \in SUBSET (1..N)
  BY <1>0
<1>1. Body!Lookup(chain, n) = IF hits = {} THEN Body!Nothing ELSE chain[Body!Max(hits)][n]
  <2>1. CASE hits = {}
    BY <2>1 DEF Body!Lookup, Body!SelectLastInSeq
  <2>2. CASE hits # {}
    <3>1. Body!Max(hits) # 0
      <4>1. Body!Max(hits) \in hits
        <5> HIDE DEF hits
        <5> QED BY <2>2, <1>0, <1>5, GreatestIsOne
      <4>2. \A i \in hits : i # 0
        OBVIOUS
      <4> QED  BY <4>1, <4>2
    <3> QED  BY <3>1, <2>2 DEF Body!Lookup, Body!SelectLastInSeq
  <2> QED  BY <2>1, <2>2
<1>2. CASE hits = {}
  BY <1>1, <1>2 DEF Sees
<1>3. CASE hits # {}
  <2>1. PICK k \in hits : k = Body!Max(hits) /\ \A i \in hits : i <= k
    <3> HIDE DEF hits
    <3> QED BY <1>3, <1>0, <1>5, GreatestIsOne
  <2>2. Body!Lookup(chain, n) = chain[k][n]
    BY <1>1, <1>3, <2>1
  <2>3. k \in 1..Len(chain) /\ chain[k][n] # Body!Nothing /\ \A i \in 1..Len(chain) : i > k => chain[i][n] = Body!Nothing
    <3>1. \A i \in 1..Len(chain) : i > k => ~(i \in hits)
      <4>1. \A i \in hits : i <= k
        BY <2>1
      <4>2. k \in Nat
        BY <2>1, <1>0
      <4> HIDE DEF hits
      <4> QED  BY <4>1, <4>2, <1>0
    <3> QED  BY <2>1, <3>1
  <2>4. \A i \in (k + 1)..Len(chain) : i \in 1..Len(chain) /\ i > k
    BY <2>3
  <2>5. Sees(chain, Len(chain), n, chain[k][n])
    BY <2>3, <2>4 DEF Sees
  <2>6. ASSUME NEW b, Sees(chain, Len(chain), n, b)
        PROVE  b = chain[k][n]
    <3>1. PICK i \in 1..Len(chain) : chain[i][n] = b /\ \A l \in (i + 1)..Len(chain) : chain[l][n] = Body!Nothing
      BY <2>6 DEF Sees
    <3>2. b # Body!Nothing
      BY <2>6 DEF Sees
    <3>3. ~(i > k)
      BY <2>3, <3>1, <3>2
    <3>4. ~(k > i)
      BY <2>3, <3>1
    <3> QED  BY <3>3, <3>4, <3>1, <2>3
  <2> QED  BY <2>2, <2>5, <2>6
<1> QED  BY <1>2, <1>3

(* A chain of which only the first k frames matter.                          *)
LEMMA SeesSame ==
  ASSUME NEW chain, NEW other, NEW k \in Nat, NEW n, NEW b,
         \A i \in 1..k : chain[i][n] = other[i][n]
  PROVE  Sees(chain, k, n, b) <=> Sees(other, k, n, b)
<1>1. ASSUME NEW i \in 1..k
      PROVE  \A l \in (i + 1)..k : l \in 1..k
  OBVIOUS
<1> QED  BY <1>1 DEF Sees

(* What more frames show: what the new ones hold, or through them the old.   *)
LEMMA SeesDeeper ==
  ASSUME NEW chain, NEW k \in Nat, NEW m \in Nat, NEW n, NEW b
  PROVE  Sees(chain, k + m, n, b) <=>
           \/ Sees(chain, k, n, b) /\ \A l \in (k + 1)..(k + m) : chain[l][n] = Body!Nothing
           \/ /\ b # Body!Nothing
              /\ \E i \in (k + 1)..(k + m) : /\ chain[i][n] = b
                                             /\ \A l \in (i + 1)..(k + m) : chain[l][n] = Body!Nothing
<1>1. ASSUME Sees(chain, k + m, n, b)
      PROVE  \/ Sees(chain, k, n, b) /\ \A l \in (k + 1)..(k + m) : chain[l][n] = Body!Nothing
             \/ /\ b # Body!Nothing
                /\ \E i \in (k + 1)..(k + m) : /\ chain[i][n] = b
                                               /\ \A l \in (i + 1)..(k + m) : chain[l][n] = Body!Nothing
  <2>1. PICK i \in 1..(k + m) : chain[i][n] = b /\ \A l \in (i + 1)..(k + m) : chain[l][n] = Body!Nothing
    BY <1>1 DEF Sees
  <2>2. CASE i <= k
    <3>1. i \in 1..k /\ \A l \in (i + 1)..k : l \in (i + 1)..(k + m)
      BY <2>2
    <3>2. \A l \in (k + 1)..(k + m) : l \in (i + 1)..(k + m)
      BY <2>2
    <3> QED  BY <3>1, <3>2, <2>1, <1>1 DEF Sees
  <2>3. CASE i > k
    BY <2>1, <2>3, <1>1 DEF Sees
  <2> QED  BY <2>2, <2>3
<1>2. ASSUME Sees(chain, k, n, b), \A l \in (k + 1)..(k + m) : chain[l][n] = Body!Nothing
      PROVE  Sees(chain, k + m, n, b)
  <2>1. PICK i \in 1..k : chain[i][n] = b /\ \A l \in (i + 1)..k : chain[l][n] = Body!Nothing
    BY <1>2 DEF Sees
  <2>2. \A l \in (i + 1)..(k + m) : l \in (i + 1)..k \/ l \in (k + 1)..(k + m)
    OBVIOUS
  <2>3. i \in 1..(k + m)
    OBVIOUS
  <2> QED  BY <1>2, <2>1, <2>2, <2>3 DEF Sees
<1>3. ASSUME b # Body!Nothing,
             \E i \in (k + 1)..(k + m) : /\ chain[i][n] = b
                                         /\ \A l \in (i + 1)..(k + m) : chain[l][n] = Body!Nothing
      PROVE  Sees(chain, k + m, n, b)
  <2>1. \A i \in (k + 1)..(k + m) : i \in 1..(k + m)
    OBVIOUS
  <2> QED  BY <1>3, <2>1 DEF Sees
<1> QED  BY <1>1, <1>2, <1>3

(* The scopes and blocks are in step at every construct that is open.        *)
Nested == \E sc, bc \in [0..Len(open) -> Nat] :
            Depths(sc, bc) /\ Agree(sc, bc) /\ Invariants(bc) /\ Mirrored(sc, bc) /\ Declared(sc, bc)

-----------------------------------------------------------------------------
(* The first k frames of a chain bind no n.                                  *)
Hidden(chain, k, n) == \A i \in 1..k : chain[i][n] = Body!Nothing

(* The added scopes and blocks show the same.                                *)
AlikeFrames(fs, gs) ==
  \A n \in Name : /\ \A b : Sees(fs, Len(fs), n, b) => Sees(gs, Len(gs), n, b)
                  /\ Hidden(fs, Len(fs), n) => Hidden(gs, Len(gs), n)
                  /\ \A i \in DOMAIN gs : gs[i][n].by \notin {"let", "var", "tuple"}

(* They hold new locals.                                                     *)
NewFrames(chain) ==
  \A i \in DOMAIN chain, n \in Name :
    chain[i][n] # Body!Nothing => /\ chain[i][n].by \notin {"variant", "field"}
                                  /\ chain[i][n].no > locals
                                  /\ chain[i][n].no <= locals'

(* The last block binds what the last scope does, or what the construct does. *)
SameFrames(fs, gs) ==
  \A n \in Name : gs[Len(gs)][n] # Body!Nothing =>
    \/ fs[Len(fs)][n] # Body!Nothing
    \/ gs[Len(gs)][n].by \in {"param", "catch", "recv", "element"}

(* What all the constructs that are opened have in common: the frames fs and *)
(* gs that they add, and their entry e of open.                              *)
Deepens(fs, gs, e) ==
  /\ fs \in Seq(Frames) /\ gs \in Seq(Blocks) /\ e \in Loops
  /\ locals' \in Nat /\ locals <= locals'
  /\ Body!CanOpen
  /\ scopes' = scopes \o fs /\ blocks' = blocks \o gs
  /\ \/ open' = Append(open, e) /\ Len(gs) >= 1
     \/ open' = Append(Body!Ending, e) /\ Body!Top.tail /\ e.invariant = Body!NoName
  /\ e.scopes = Len(fs) /\ e.blocks = Len(gs) /\ ~e.ended /\ Len(fs) >= 1
  /\ e.inlined \/ (Len(gs) >= 1 /\ SameFrames(fs, gs))
  /\ AlikeFrames(fs, gs) /\ NewFrames(fs) /\ NewFrames(gs)
  /\ e.invariant # Body!NoName =>
       /\ ~e.tail
       /\ Sees(scopes', Len(scopes'), e.invariant, e.symbol)
       /\ Sound(world', locals', e.symbol, e.invariant)
       /\ Body!Outside(world.outer, "field") = {}
  /\ world' = world /\ used \subseteq used' /\ predicated \subseteq predicated'

(* The entries of open once e is added to the L there were.                  *)
Opens(e, L, G) ==
  /\ L >= 1 /\ ~open[L].ended
  /\ Len(open') = L + 1 /\ open' \in Seq(Loops)
  /\ open'[L + 1] = e
  /\ \A j \in 1..L : /\ open'[j].scopes = open[j].scopes /\ open'[j].blocks = open[j].blocks
                     /\ open'[j].tail = open[j].tail /\ open'[j].inlined = open[j].inlined
                     /\ open'[j].invariant = open[j].invariant /\ open'[j].symbol = open[j].symbol
                     /\ ~open'[j].ended => ~open[j].ended
                     /\ j = L /\ ~open'[j].ended => G >= 1
                     /\ open'[j].ended => open[j].ended \/ (j = L /\ open[L].tail)

(* Opening a construct leaves the others as they are, but may end a tail.    *)
LEMMA DeepOpen ==
  ASSUME Typed, NEW fs, NEW gs, NEW e, Deepens(fs, gs, e), NEW L \in Nat, L = Len(open),
         NEW G \in Nat, G = Len(gs)
  PROVE  Opens(e, L, G)
<1>1. open \in Seq(Loops) /\ e \in Loops /\ open # <<>> /\ ~Body!Top.ended /\ L >= 1
  BY DEF Typed, Deepens, Body!CanOpen, Body!CanGrow
<1>2. ~open[L].ended
  BY <1>1 DEF Body!Top
<1>3. CASE open' = Append(open, e) /\ Len(gs) >= 1
  <2>1. /\ Len(open') = L + 1 /\ open' \in Seq(Loops) /\ open'[L + 1] = e
        /\ \A j \in 1..L : open'[j] = open[j]
    BY <1>1, <1>3
  <2> QED  BY <1>1, <1>2, <1>3, <2>1 DEF Opens
<1>4. CASE open' = Append(Body!Ending, e) /\ Body!Top.tail
  <2>1. PICK E : E = Body!Ending
    OBVIOUS
  <2>2. PICK top \in Loops : top = open[L]
    BY <1>1
  <2>3. [top EXCEPT !.ended = TRUE] \in Loops
    BY DEF Loops
  <2>4. E = [open EXCEPT ![L] = [top EXCEPT !.ended = TRUE]]
    BY <2>1, <2>2 DEF Body!Ending
  <2>5. E \in Seq(Loops) /\ Len(E) = L /\ (\A j \in 1..L : j # L => E[j] = open[j]) /\ E[L] = [top EXCEPT !.ended = TRUE]
    BY <2>4, <2>3, <1>1
  <2>6. open' = Append(E, e)
    BY <2>1, <1>4
  <2>7. Len(open') = L + 1 /\ open' \in Seq(Loops) /\ open'[L + 1] = e /\ \A j \in 1..L : open'[j] = E[j]
    BY <2>5, <2>6, <1>1
  <2>8. /\ E[L].scopes = top.scopes /\ E[L].blocks = top.blocks /\ E[L].tail = top.tail
        /\ E[L].inlined = top.inlined /\ E[L].ended
        /\ E[L].invariant = top.invariant /\ E[L].symbol = top.symbol
    BY <2>5 DEF Loops
  <2>9. top.tail
    BY <1>4, <2>2 DEF Body!Top
  <2> QED  BY <1>1, <1>2, <2>2, <2>5, <2>7, <2>8, <2>9 DEF Opens
<1> QED  BY <1>3, <1>4 DEF Deepens

(* The chains with the frames appended.                                      *)
Joined(fs, gs, S, B, F, G) ==
  /\ Len(scopes') = S + F /\ Len(blocks') = B + G
  /\ scopes' \in Seq(Frames) /\ blocks' \in Seq(Blocks)
  /\ \A i \in 1..S : scopes'[i] = scopes[i]
  /\ \A i \in 1..B : blocks'[i] = blocks[i]
  /\ \A i \in 1..F : scopes'[S + i] = fs[i]
  /\ \A i \in 1..G : blocks'[B + i] = gs[i]
  /\ \A i \in (S + 1)..(S + F) : i - S \in 1..F /\ scopes'[i] = fs[i - S]
  /\ \A i \in (B + 1)..(B + G) : i - B \in 1..G /\ blocks'[i] = gs[i - B]
  /\ F >= 1

(* Opening a construct appends its frames.                                   *)
LEMMA DeepChains ==
  ASSUME Typed, NEW fs, NEW gs, NEW e, Deepens(fs, gs, e),
         NEW S \in Nat, S = Len(scopes), NEW B \in Nat, B = Len(blocks),
         NEW F \in Nat, F = Len(fs), NEW G \in Nat, G = Len(gs)
  PROVE  Joined(fs, gs, S, B, F, G)
<1>1. /\ scopes \in Seq(Frames) /\ fs \in Seq(Frames) /\ scopes' = scopes \o fs
      /\ blocks \in Seq(Blocks) /\ gs \in Seq(Blocks) /\ blocks' = blocks \o gs
      /\ F >= 1
  BY DEF Typed, Deepens
<1>2. Len(scopes') = S + F /\ Len(blocks') = B + G
  BY <1>1
<1>3. scopes' \in Seq(Frames) /\ blocks' \in Seq(Blocks)
  BY <1>1
<1>4. (\A i \in 1..S : scopes'[i] = scopes[i]) /\ (\A i \in 1..B : blocks'[i] = blocks[i])
  BY <1>1
<1>5. \A i \in (S + 1)..(S + F) : i - S \in 1..F /\ scopes'[i] = fs[i - S]
  BY <1>1
<1>6. \A i \in (B + 1)..(B + G) : i - B \in 1..G /\ blocks'[i] = gs[i - B]
  BY <1>1
<1>7. (\A i \in 1..F : scopes'[S + i] = fs[i]) /\ (\A i \in 1..G : blocks'[B + i] = gs[i])
  BY <1>1
<1> QED  BY <1>1, <1>2, <1>3, <1>4, <1>5, <1>6, <1>7 DEF Joined

(* What a chain shows with the frames fs appended to it.                     *)
LEMMA SeesAppended ==
  ASSUME NEW chain, NEW fs, NEW k \in Nat, NEW m \in Nat, NEW n, NEW b,
         \A i \in 1..m : chain[k + i] = fs[i]
  PROVE  Sees(chain, k + m, n, b) <=>
           (Sees(chain, k, n, b) /\ Hidden(fs, m, n)) \/ Sees(fs, m, n, b)
<1>1. \A i \in (k + 1)..(k + m) : i - k \in 1..m /\ chain[i] = fs[i - k]
  <2>1. \A i \in (k + 1)..(k + m) : i - k \in 1..m /\ k + (i - k) = i
    OBVIOUS
  <2> QED  BY <2>1
<1>2. (\A l \in (k + 1)..(k + m) : chain[l][n] = Body!Nothing) <=> Hidden(fs, m, n)
  <2>1. \A i \in 1..m : k + i \in (k + 1)..(k + m)
    OBVIOUS
  <2> QED  BY <1>1, <2>1 DEF Hidden
<1>3. ASSUME NEW i \in (k + 1)..(k + m), chain[i][n] = b,
             \A l \in (i + 1)..(k + m) : chain[l][n] = Body!Nothing
      PROVE  i - k \in 1..m /\ fs[i - k][n] = b /\ \A l \in ((i - k) + 1)..m : fs[l][n] = Body!Nothing
  <2>1. \A l \in ((i - k) + 1)..m : k + l \in (i + 1)..(k + m) /\ l \in 1..m
    OBVIOUS
  <2> QED  BY <1>1, <1>3, <2>1
<1>4. ASSUME NEW i \in 1..m, fs[i][n] = b,
             \A l \in (i + 1)..m : fs[l][n] = Body!Nothing
      PROVE  k + i \in (k + 1)..(k + m) /\ chain[k + i][n] = b /\ \A l \in ((k + i) + 1)..(k + m) : chain[l][n] = Body!Nothing
  <2>1. \A l \in ((k + i) + 1)..(k + m) : l \in (k + 1)..(k + m) /\ l - k \in (i + 1)..m
    OBVIOUS
  <2> QED  BY <1>1, <1>4, <2>1
<1>5. (\E i \in (k + 1)..(k + m) : /\ chain[i][n] = b
                                   /\ \A l \in (i + 1)..(k + m) : chain[l][n] = Body!Nothing)
      <=> (\E i \in 1..m : fs[i][n] = b /\ \A l \in (i + 1)..m : fs[l][n] = Body!Nothing)
  BY <1>3, <1>4
<1> QED  BY <1>2, <1>5, SeesDeeper DEF Sees

(* Opening a construct keeps the scopes and the blocks in step.              *)
LEMMA DeepNested ==
  ASSUME Typed, Numbered, OpenShape, Nested, NEW fs, NEW gs, NEW e, Deepens(fs, gs, e)
  PROVE  Nested'
<1>1. PICK sc \in [0..Len(open) -> Nat], bc \in [0..Len(open) -> Nat] :
           Depths(sc, bc) /\ Agree(sc, bc) /\ Invariants(bc) /\ Mirrored(sc, bc) /\ Declared(sc, bc)
  BY DEF Nested
<1>2. fs \in Seq(Frames) /\ gs \in Seq(Blocks) /\ scopes \in Seq(Frames) /\ blocks \in Seq(Blocks)
      /\ open \in Seq(Loops) /\ e \in Loops
  BY DEF Typed, Deepens
<1>3. PICK L \in Nat : L = Len(open)
  BY <1>2
<1>4. PICK S \in Nat : S = Len(scopes)
  BY <1>2
<1>5. PICK B \in Nat : B = Len(blocks)
  BY <1>2
<1>6. PICK F \in Nat : F = Len(fs)
  BY <1>2
<1>7. PICK G \in Nat : G = Len(gs)
  BY <1>2
<1>op. /\ L >= 1 /\ ~open[L].ended
       /\ Len(open') = L + 1 /\ open' \in Seq(Loops)
       /\ open'[L + 1] = e
       /\ \A j \in 1..L : /\ open'[j].scopes = open[j].scopes /\ open'[j].blocks = open[j].blocks
                          /\ open'[j].tail = open[j].tail /\ open'[j].inlined = open[j].inlined
                          /\ open'[j].invariant = open[j].invariant /\ open'[j].symbol = open[j].symbol
                          /\ ~open'[j].ended => ~open[j].ended
                          /\ j = L /\ ~open'[j].ended => G >= 1
                          /\ open'[j].ended => open[j].ended \/ (j = L /\ open[L].tail)
  <2>1. Opens(e, L, G)
    BY <1>3, <1>7, DeepOpen
  <2> QED  BY <2>1 DEF Opens
<1>ch. /\ Len(scopes') = S + F /\ Len(blocks') = B + G
       /\ scopes' \in Seq(Frames) /\ blocks' \in Seq(Blocks)
       /\ \A i \in 1..S : scopes'[i] = scopes[i]
       /\ \A i \in 1..B : blocks'[i] = blocks[i]
       /\ \A i \in 1..F : scopes'[S + i] = fs[i]
       /\ \A i \in 1..G : blocks'[B + i] = gs[i]
       /\ \A i \in (S + 1)..(S + F) : i - S \in 1..F /\ scopes'[i] = fs[i - S]
       /\ \A i \in (B + 1)..(B + G) : i - B \in 1..G /\ blocks'[i] = gs[i - B]
       /\ F >= 1
  <2>1. Joined(fs, gs, S, B, F, G)
    BY <1>4, <1>5, <1>6, <1>7, DeepChains
  <2> QED  BY <2>1 DEF Joined
<1> DEFINE sc2 == [j \in 0..(L + 1) |-> IF j = L + 1 THEN S + F ELSE sc[j]]
           bc2 == [j \in 0..(L + 1) |-> IF j = L + 1 THEN B + G ELSE bc[j]]
<1>8. /\ sc2 \in [0..(L + 1) -> Nat] /\ bc2 \in [0..(L + 1) -> Nat]
      /\ sc2[L + 1] = S + F /\ bc2[L + 1] = B + G
      /\ \A j \in 0..L : sc2[j] = sc[j] /\ bc2[j] = bc[j]
  BY <1>1, <1>3
<1> HIDE DEF sc2, bc2
<1>old. /\ sc[0] = 2 /\ bc[0] = 1 /\ sc[L] = S /\ bc[L] = B
        /\ \A j \in 1..L : sc[j] = sc[j - 1] + open[j].scopes /\ bc[j] = bc[j - 1] + open[j].blocks
        /\ \A i, j \in 0..L : i < j => sc[i] < sc[j] /\ bc[i] <= bc[j]
        /\ \A i \in 1..L, j \in 0..L : i < j /\ ~open[i].ended => bc[i] < bc[j]
        /\ \A j \in 0..L : sc[j] \in Nat /\ bc[j] \in Nat
  <2>1. DOMAIN open = 1..L
    BY <1>2, <1>3
  <2> QED  BY <1>1, <1>3, <1>4, <1>5, <2>1 DEF Depths
<1>dom. DOMAIN open = 1..L /\ (DOMAIN open)' = 1..(L + 1)
        /\ DOMAIN scopes = 1..S /\ DOMAIN blocks = 1..B
        /\ DOMAIN fs = 1..F /\ DOMAIN gs = 1..G
  BY <1>2, <1>3, <1>4, <1>5, <1>6, <1>7, <1>op
<1>9. Depths(sc2, bc2)'
  <2>1. e.scopes = F /\ e.blocks = G
    BY <1>6, <1>7 DEF Deepens
  <2>2. sc2[0] = 2 /\ bc2[0] = 1 /\ sc2[Len(open')] = Len(scopes') /\ bc2[Len(open')] = Len(blocks')
    BY <1>op, <1>ch, <1>8, <1>old
  <2>3. ASSUME NEW j \in 1..(L + 1)
        PROVE  sc2[j] = sc2[j - 1] + open'[j].scopes /\ bc2[j] = bc2[j - 1] + open'[j].blocks
    <3>1. CASE j = L + 1
      <4>1. j - 1 = L /\ L \in 0..L
        BY <3>1
      <4>2. sc2[j - 1] = S /\ bc2[j - 1] = B
        BY <4>1, <1>8, <1>old
      <4>3. open'[j].scopes = F /\ open'[j].blocks = G
        BY <3>1, <2>1, <1>op
      <4> QED  BY <3>1, <4>2, <4>3, <1>8
    <3>2. CASE j # L + 1
      <4>1. j \in 1..L /\ j \in 0..L /\ j - 1 \in 0..L
        BY <3>2
      <4> QED  BY <4>1, <1>op, <1>8, <1>old
    <3> QED  BY <3>1, <3>2
  <2>4. ASSUME NEW i \in 0..(L + 1), NEW j \in 0..(L + 1), i < j
        PROVE  sc2[i] < sc2[j] /\ bc2[i] <= bc2[j]
    <3>1. i \in 0..L
      BY <2>4
    <3>2. CASE j = L + 1
      <4>1. i = L \/ i < L
        BY <3>1
      <4>2. sc[i] <= S /\ bc[i] <= B
        BY <4>1, <3>1, <1>old
      <4>3. sc[i] \in Nat /\ bc[i] \in Nat
        BY <3>1, <1>old
      <4>4. sc2[i] = sc[i] /\ bc2[i] = bc[i] /\ sc2[j] = S + F /\ bc2[j] = B + G
        BY <3>1, <3>2, <1>8
      <4>5. F >= 1
        BY <1>ch
      <4> QED  BY <4>2, <4>3, <4>4, <4>5
    <3>3. CASE j # L + 1
      <4>1. j \in 0..L
        BY <3>3
      <4>2. sc2[i] = sc[i] /\ bc2[i] = bc[i] /\ sc2[j] = sc[j] /\ bc2[j] = bc[j]
        BY <3>1, <4>1, <1>8
      <4> QED  BY <3>1, <4>1, <4>2, <2>4, <1>old
    <3> QED  BY <3>2, <3>3
  <2>5. ASSUME NEW i \in 1..(L + 1), NEW j \in 0..(L + 1), i < j, ~open'[i].ended
        PROVE  bc2[i] < bc2[j]
    <3>1. i \in 1..L /\ i \in 0..L
      BY <2>5
    <3>2. ~open[i].ended
      BY <3>1, <2>5, <1>op
    <3>3. CASE j # L + 1
      <4>1. j \in 0..L
        BY <3>3
      <4>2. bc2[i] = bc[i] /\ bc2[j] = bc[j]
        BY <3>1, <4>1, <1>8
      <4> QED  BY <3>1, <3>2, <4>1, <4>2, <2>5, <1>old
    <3>4. CASE j = L + 1 /\ i < L
      <4>1. bc[i] < bc[L] /\ bc[L] = B /\ bc[i] \in Nat
        <5>1. L \in 0..L
          OBVIOUS
        <5> QED  BY <5>1, <3>1, <3>2, <3>4, <1>old
      <4>2. bc2[i] = bc[i] /\ bc2[j] = B + G
        BY <3>1, <3>4, <1>8
      <4> QED  BY <4>1, <4>2
    <3>5. CASE j = L + 1 /\ i = L
      <4>1. G >= 1
        BY <3>1, <3>5, <2>5, <1>op
      <4>2. bc2[i] = B /\ bc2[j] = B + G
        BY <3>1, <3>5, <1>8, <1>old
      <4> QED  BY <4>1, <4>2
    <3> QED  BY <3>1, <3>3, <3>4, <3>5
  <2>6. Len(open)' = L + 1 /\ (DOMAIN open)' = 1..(L + 1)
    BY <1>op, <1>dom
  <2> QED  BY <2>2, <2>3, <2>4, <2>5, <2>6, <1>op DEF Depths
<1>sm. \A j \in 0..L : sc[j] \in 2..S /\ bc[j] \in 1..B
  <2>1. ASSUME NEW j \in 0..L  PROVE sc[j] \in 2..S /\ bc[j] \in 1..B
    <3>1. (j = 0 \/ 0 < j) /\ (j = L \/ j < L)
      OBVIOUS
    <3>2. 2 <= sc[j] /\ 1 <= bc[j]
      BY <3>1, <1>old
    <3>3. sc[j] <= S /\ bc[j] <= B
      BY <3>1, <1>old
    <3> QED  BY <3>2, <3>3, <1>old
  <2> QED  BY <2>1
<1>see. ASSUME NEW j \in 0..L, NEW n, NEW b
        PROVE  /\ Sees(scopes', sc[j], n, b) <=> Sees(scopes, sc[j], n, b)
               /\ Sees(blocks', bc[j], n, b) <=> Sees(blocks, bc[j], n, b)
  <2>1. sc[j] \in Nat /\ bc[j] \in Nat /\ sc[j] <= S /\ bc[j] <= B
    BY <1>sm
  <2>2. (\A i \in 1..sc[j] : i \in 1..S) /\ (\A i \in 1..bc[j] : i \in 1..B)
    BY <2>1
  <2>3. (\A i \in 1..sc[j] : scopes'[i][n] = scopes[i][n]) /\ (\A i \in 1..bc[j] : blocks'[i][n] = blocks[i][n])
    BY <2>2, <1>ch
  <2> QED  BY <2>1, <2>3, SeesSame
<1>10. Agree(sc2, bc2)'
  <2> SUFFICES ASSUME NEW j \in 1..(L + 1), NEW n \in Name, NEW b \in Bindings,
                      ~open'[j].ended, world'.outer[n] # "variant", b.by # "field",
                      Sees(scopes', sc2[j], n, b)
               PROVE  Sees(blocks', bc2[j], n, b)
    BY <1>dom DEF Agree
  <2>0. world' = world
    BY DEF Deepens
  <2>1. CASE j # L + 1
    <3>1. j \in 1..L /\ j \in 0..L /\ j \in DOMAIN open
      BY <2>1, <1>dom
    <3>2. Sees(scopes, sc[j], n, b)
      BY <3>1, <1>8, <1>see
    <3>3. Sees(blocks, bc[j], n, b)
      BY <3>1, <3>2, <2>0, <1>op, <1>1 DEF Agree
    <3> QED  BY <3>1, <3>3, <1>8, <1>see
  <2>2. CASE j = L + 1
    <3>1. (Sees(scopes', S, n, b) /\ Hidden(fs, F, n)) \/ Sees(fs, F, n, b)
      <4>1. Sees(scopes', S + F, n, b) <=> (Sees(scopes', S, n, b) /\ Hidden(fs, F, n)) \/ Sees(fs, F, n, b)
        BY <1>ch, SeesAppended
      <4> QED  BY <4>1, <2>2, <1>8
    <3>2. Sees(blocks', B + G, n, b) <=> (Sees(blocks', B, n, b) /\ Hidden(gs, G, n)) \/ Sees(gs, G, n, b)
      BY <1>ch, SeesAppended
    <3>3. L \in 0..L /\ L \in 1..L /\ L \in DOMAIN open
      BY <1>op, <1>dom
    <3>4. Sees(scopes', S, n, b) => Sees(blocks', B, n, b)
      <4>1. Sees(scopes, sc[L], n, b) => Sees(blocks, bc[L], n, b)
        BY <3>3, <2>0, <1>op, <1>1 DEF Agree
      <4> QED  BY <4>1, <3>3, <1>see, <1>old
    <3>5. (Hidden(fs, F, n) => Hidden(gs, G, n)) /\ (Sees(fs, F, n, b) => Sees(gs, G, n, b))
      BY <1>6, <1>7 DEF Deepens, AlikeFrames
    <3> QED  BY <2>2, <3>1, <3>2, <3>4, <3>5, <1>8
  <2> QED  BY <2>1, <2>2
<1>11. Invariants(bc2)'
  <2> SUFFICES ASSUME NEW j \in 1..(L + 1), open'[j].invariant # Body!NoName
               PROVE  /\ \/ world'.outer[open'[j].invariant] = "variant"
                         \/ \E g \in Bindings : /\ Sees(blocks', bc2[j], open'[j].invariant, g)
                                                /\ (g = open'[j].symbol \/ g.no > open'[j].symbol.no)
                      /\ \A q \in (bc2[j] + 1)..(B + G), n \in Name :
                           blocks'[q][n] # Body!Nothing => blocks'[q][n].no > open'[j].symbol.no
    BY <1>dom, <1>ch DEF Invariants
  <2>0. world' = world
    BY DEF Deepens
  <2>1. CASE j # L + 1
    <3>1. j \in 1..L /\ j \in 0..L /\ j \in DOMAIN open /\ bc2[j] = bc[j] /\ bc[j] \in 1..B
      <4>1. j \in 1..L /\ j \in 0..L
        BY <2>1
      <4> QED  BY <4>1, <1>dom, <1>8, <1>sm
    <3>2. open'[j].invariant = open[j].invariant /\ open'[j].symbol = open[j].symbol /\ open[j].invariant # Body!NoName
      BY <3>1, <1>op
    <3>3. /\ \/ world.outer[open[j].invariant] = "variant"
             \/ \E g \in Bindings : /\ Sees(blocks, bc[j], open[j].invariant, g)
                                    /\ (g = open[j].symbol \/ g.no > open[j].symbol.no)
          /\ \A q \in (bc[j] + 1)..B, n \in Name :
                           blocks[q][n] # Body!Nothing => blocks[q][n].no > open[j].symbol.no
      BY <3>1, <3>2, <1>1, <1>5 DEF Invariants
    <3>4. open[j].symbol.no <= locals /\ open[j].symbol \in Bindings
      <4>1. open[j] \in Loops
        BY <3>1, <1>2, <1>dom
      <4>2. open[j].symbol # Body!Nothing /\ open[j].symbol.no <= locals
        BY <3>1, <3>2 DEF OpenShape, Sound
      <4> QED  BY <4>1, <4>2 DEF Loops
    <3>5. ASSUME NEW q \in (bc[j] + 1)..(B + G), NEW n \in Name, blocks'[q][n] # Body!Nothing
          PROVE  blocks'[q][n].no > open[j].symbol.no
      <4>1. CASE q <= B
        <5>1. q \in 1..B /\ q \in (bc[j] + 1)..B
          BY <4>1, <3>1
        <5> QED  BY <5>1, <3>3, <3>5, <1>ch
      <4>2. CASE ~(q <= B)
        <5>1. q \in (B + 1)..(B + G)
          BY <4>2, <3>1
        <5>2. q - B \in 1..G /\ blocks'[q] = gs[q - B]
          BY <5>1, <1>ch
        <5>3. PICK i \in 1..G : blocks'[q] = gs[i]
          BY <5>2
        <5>4. gs[i][n].no > locals
          BY <5>3, <3>5, <1>dom DEF Deepens, NewFrames
        <5>5. gs[i][n].no \in Nat
          BY <5>3, <3>5, <1>dom, <1>2 DEF Blocks
        <5>6. open[j].symbol.no \in Nat /\ locals \in Nat
          BY <3>4 DEF Bindings, Typed
        <5> QED  BY <5>3, <5>4, <5>5, <5>6, <3>4
      <4> QED  BY <4>1, <4>2
    <3>6. \A g : Sees(blocks, bc[j], open[j].invariant, g) => Sees(blocks', bc[j], open[j].invariant, g)
      BY <3>1, <1>see
    <3> QED  BY <3>1, <3>2, <3>3, <3>5, <3>6, <2>0
  <2>2. CASE j = L + 1
    <3>1. /\ open'[j] = e /\ ~e.ended
          /\ e.invariant # Body!NoName /\ e.invariant \in Name
          /\ e.symbol \in Bindings \cup {Body!Nothing}
      BY <2>2, <1>op, <1>2 DEF Deepens, Loops
    <3>2. /\ Sees(scopes', S + F, e.invariant, e.symbol) /\ Sound(world', locals', e.symbol, e.invariant)
          /\ Body!Outside(world.outer, "field") = {}
      BY <3>1, <1>ch DEF Deepens
    <3>3. e.symbol \in Bindings
      BY <3>1, <3>2 DEF Sees
    <3>4. e.symbol.by # "field"
      BY <3>1, <3>2, <2>0 DEF Sound, Body!Outside
    <3>5. world'.outer[e.invariant] # "variant" => Sees(blocks', bc2[j], e.invariant, e.symbol)
      BY <1>10, <3>1, <3>2, <3>3, <3>4, <2>2, <1>8, <1>dom DEF Agree
    <3>6. (bc2[j] + 1)..(B + G) = {}
      BY <2>2, <1>8
    <3> QED  BY <3>1, <3>3, <3>5, <3>6
  <2> QED  BY <2>1, <2>2
<1>12. Mirrored(sc2, bc2)'
  <2> SUFFICES ASSUME NEW j \in 1..(L + 1), NEW n \in Name, ~open'[j].ended, ~open'[j].inlined,
                      blocks'[bc2[j]][n] # Body!Nothing
               PROVE  \/ scopes'[sc2[j]][n] # Body!Nothing
                      \/ blocks'[bc2[j]][n].by \in {"param", "catch", "recv", "element"}
    BY <1>dom DEF Mirrored
  <2>1. CASE j # L + 1
    <3>1. j \in 1..L /\ j \in 0..L /\ j \in DOMAIN open
      BY <2>1, <1>dom
    <3>2. /\ sc2[j] = sc[j] /\ bc2[j] = bc[j] /\ sc[j] \in 1..S /\ bc[j] \in 1..B
      BY <3>1, <1>8, <1>sm
    <3>3. scopes'[sc2[j]] = scopes[sc[j]] /\ blocks'[bc2[j]] = blocks[bc[j]]
      BY <3>2, <1>ch
    <3>4. ~open[j].ended /\ ~open[j].inlined
      BY <3>1, <1>op
    <3> QED  BY <3>1, <3>3, <3>4, <1>1 DEF Mirrored
  <2>2. CASE j = L + 1
    <3>1. ~e.inlined /\ G >= 1 /\ SameFrames(fs, gs)
      BY <2>2, <1>op, <1>7 DEF Deepens
    <3>2. scopes'[sc2[j]] = fs[F] /\ blocks'[bc2[j]] = gs[G]
      <4>1. F \in 1..F /\ G \in 1..G
        BY <3>1, <1>ch
      <4> QED  BY <4>1, <2>2, <1>8, <1>ch
    <3> QED  BY <3>1, <3>2, <1>6, <1>7 DEF SameFrames
  <2> QED  BY <2>1, <2>2
<1>13. Declared(sc2, bc2)'
  <2> SUFFICES ASSUME NEW j \in 1..(L + 1), NEW n \in Name, NEW q \in (bc2[j - 1] + 1)..(B + G),
                      blocks'[q][n].by \in {"let", "var", "tuple"}
               PROVE  \/ blocks'[q][n] \in used' \cup predicated'
                      \/ \E p \in (sc2[j - 1] + 1)..(S + F) : scopes'[p][n] = blocks'[q][n]
    <3>1. Len(blocks)' = B + G /\ Len(scopes)' = S + F
      BY <1>ch
    <3> QED  BY <1>dom, <3>1 DEF Declared
  <2>0. used \subseteq used' /\ predicated \subseteq predicated'
    BY DEF Deepens
  <2>1. j - 1 \in 0..L /\ bc2[j - 1] = bc[j - 1] /\ sc2[j - 1] = sc[j - 1]
        /\ bc[j - 1] \in 1..B /\ sc[j - 1] \in 2..S
    <3>1. j - 1 \in 0..L
      OBVIOUS
    <3> QED  BY <3>1, <1>8, <1>sm
  <2>2. CASE q <= B
    <3>1. q \in (bc[j - 1] + 1)..B /\ q \in 1..B
      BY <2>2, <2>1
    <3>2. j \in DOMAIN open
      <4>1. CASE j = L + 1
        <5>1. j - 1 = L
          BY <4>1
        <5>2. bc[j - 1] = B
          BY <5>1, <1>old
        <5> QED  BY <5>2, <3>1
      <4>2. CASE j # L + 1
        BY <4>2, <1>dom
      <4> QED  BY <4>1, <4>2
    <3>3. \/ blocks[q][n] \in used \cup predicated
          \/ \E p \in (sc[j - 1] + 1)..S : scopes[p][n] = blocks[q][n]
      BY <3>1, <3>2, <1>1, <1>4, <1>5, <1>ch DEF Declared
    <3>4. \A p \in (sc[j - 1] + 1)..S : p \in (sc[j - 1] + 1)..(S + F) /\ p \in 1..S
      <4>1. PICK k \in 2..S : k = sc[j - 1]
        BY <2>1
      <4>2. \A p \in (k + 1)..S : p \in (k + 1)..(S + F) /\ p \in 1..S
        OBVIOUS
      <4> QED  BY <4>1, <4>2
    <3> QED  BY <3>1, <3>3, <3>4, <2>0, <2>1, <1>ch
  <2>3. CASE ~(q <= B)
    <3>1. q \in (B + 1)..(B + G)
      BY <2>3, <2>1
    <3>2. q - B \in 1..G /\ blocks'[q] = gs[q - B]
      BY <3>1, <1>ch
    <3>3. gs[q - B][n].by \notin {"let", "var", "tuple"}
      BY <3>2, <1>dom DEF Deepens, AlikeFrames
    <3> QED  BY <3>2, <3>3
  <2> QED  BY <2>2, <2>3
<1>14. sc2 \in [0..Len(open') -> Nat] /\ bc2 \in [0..Len(open') -> Nat]
  BY <1>8, <1>op
<1> QED  BY <1>9, <1>10, <1>11, <1>12, <1>13, <1>14 DEF Nested

(* How an opening may mark symbols and use names.                            *)
RightStray(use) == \/ use.place = "bound" /\ use.go.by = "counter"
                   \/ use.place = "map" /\ use.go.by = "key"
                   \/ use.place = "invariant" /\ use.go.no > use.aril.no
                   \/ use.go.by = "variant" /\ use.aril.by # "variant"

Marks(gs, e) ==
  /\ used' \in SUBSET Bindings /\ predicated' \in SUBSET Bindings /\ uses' \in Nat
  /\ \A b \in used' : b \in used \/ (b.no <= locals /\ Excused(b)')
  /\ \A b \in predicated' : \/ b \in predicated
                            \/ b.no <= locals' /\ e.invariant # Body!NoName /\ b = e.symbol
  /\ read \subseteq read' /\ assigned' = assigned /\ astray \subseteq astray'
  /\ \A i \in DOMAIN gs, n \in Name : gs[i][n].by \in {"counter", "key"} => gs[i][n] \in read'
  /\ \A use \in astray' : use \in astray \/ RightStray(use)
  /\ collided' = collided /\ unread' = unread

(* The inductive invariant.                                                  *)
NamesInv ==
  /\ Typed /\ Numbered /\ OpenShape /\ Nested /\ Marked
  /\ RefersAlike /\ NoRedeclaration /\ NoneUnread

(* Opening a construct keeps types, numbers and the shape of open.           *)
LEMMA DeepTyped ==
  ASSUME Typed, Numbered, OpenShape, NEW fs, NEW gs, NEW e, Deepens(fs, gs, e), Marks(gs, e)
  PROVE  Typed' /\ Numbered' /\ OpenShape'
<1>2. fs \in Seq(Frames) /\ gs \in Seq(Blocks) /\ scopes \in Seq(Frames) /\ blocks \in Seq(Blocks)
      /\ open \in Seq(Loops) /\ e \in Loops
  BY DEF Typed, Deepens
<1>3. PICK L \in Nat : L = Len(open)
  BY <1>2
<1>4. PICK S \in Nat : S = Len(scopes)
  BY <1>2
<1>5. PICK B \in Nat : B = Len(blocks)
  BY <1>2
<1>6. PICK F \in Nat : F = Len(fs)
  BY <1>2
<1>7. PICK G \in Nat : G = Len(gs)
  BY <1>2
<1>op. /\ L >= 1 /\ ~open[L].ended
       /\ Len(open') = L + 1 /\ open' \in Seq(Loops)
       /\ open'[L + 1] = e
       /\ \A j \in 1..L : /\ open'[j].scopes = open[j].scopes /\ open'[j].blocks = open[j].blocks
                          /\ open'[j].tail = open[j].tail /\ open'[j].inlined = open[j].inlined
                          /\ open'[j].invariant = open[j].invariant /\ open'[j].symbol = open[j].symbol
                          /\ ~open'[j].ended => ~open[j].ended
                          /\ j = L /\ ~open'[j].ended => G >= 1
                          /\ open'[j].ended => open[j].ended \/ (j = L /\ open[L].tail)
  <2>1. Opens(e, L, G)
    BY <1>3, <1>7, DeepOpen
  <2> QED  BY <2>1 DEF Opens
<1>jn. Joined(fs, gs, S, B, F, G)
  BY <1>4, <1>5, <1>6, <1>7, DeepChains
<1>ch. /\ Len(scopes') = S + F /\ Len(blocks') = B + G
       /\ scopes' \in Seq(Frames) /\ blocks' \in Seq(Blocks)
       /\ \A i \in 1..S : scopes'[i] = scopes[i]
       /\ \A i \in 1..B : blocks'[i] = blocks[i]
       /\ \A i \in (S + 1)..(S + F) : i - S \in 1..F /\ scopes'[i] = fs[i - S]
       /\ \A i \in (B + 1)..(B + G) : i - B \in 1..G /\ blocks'[i] = gs[i - B]
  BY <1>jn DEF Joined
<1>dom. /\ DOMAIN open = 1..L /\ (DOMAIN open)' = 1..(L + 1)
        /\ DOMAIN scopes = 1..S /\ DOMAIN blocks = 1..B
        /\ (DOMAIN scopes)' = 1..(S + F) /\ (DOMAIN blocks)' = 1..(B + G)
        /\ DOMAIN fs = 1..F /\ DOMAIN gs = 1..G
  BY <1>2, <1>3, <1>4, <1>5, <1>6, <1>7, <1>op, <1>ch
<1>w. world' = world /\ locals' \in Nat /\ locals \in Nat /\ locals <= locals'
  BY DEF Deepens, Typed
<1>8. Typed'
  BY <1>op, <1>ch, <1>w DEF Typed, Marks, Body!Outside
<1>nn. \A no \in Nat : no <= locals => no <= locals'
  BY <1>w
<1>9. ASSUME NEW i \in 1..(S + F), NEW n \in Name, scopes'[i][n] # Body!Nothing
      PROVE  Sound(world', locals', scopes'[i][n], n)
  <2>1. CASE i <= S
    <3>1. i \in 1..S /\ scopes'[i] = scopes[i]
      BY <2>1, <1>ch
    <3>2. Sound(world, locals, scopes[i][n], n)
      BY <3>1, <1>9, <1>dom DEF Numbered
    <3>3. scopes[i][n].no \in Nat
      BY <3>1, <1>9, <1>2, <1>dom DEF Frames, Bindings
    <3>4. scopes'[i][n] = scopes[i][n]
      BY <3>1
    <3>5. scopes[i][n].no <= locals'
      BY <3>2, <3>3, <1>nn DEF Sound
    <3> QED  BY <3>2, <3>4, <3>5, <1>w DEF Sound
  <2>2. CASE ~(i <= S)
    <3>1. i \in (S + 1)..(S + F)
      BY <2>2
    <3>2. PICK k \in 1..F : scopes'[i] = fs[k]
      BY <3>1, <1>ch
    <3>3. /\ fs[k][n].by \notin {"variant", "field"} /\ fs[k][n].no <= locals'
      BY <3>2, <1>9, <1>dom DEF Deepens, NewFrames
    <3> QED  BY <3>2, <3>3 DEF Sound
  <2> QED  BY <2>1, <2>2
<1>10. ASSUME NEW i \in 1..(B + G), NEW n \in Name, blocks'[i][n] # Body!Nothing
       PROVE  blocks'[i][n].no <= locals'
  <2>1. CASE i <= B
    <3>1. i \in 1..B /\ blocks'[i] = blocks[i]
      BY <2>1, <1>ch
    <3>2. blocks[i][n].no <= locals
      BY <3>1, <1>10, <1>dom DEF Numbered
    <3>3. blocks[i][n].no \in Nat
      BY <3>1, <1>10, <1>2, <1>dom DEF Blocks
    <3> QED  BY <3>1, <3>2, <3>3, <1>nn
  <2>2. CASE ~(i <= B)
    <3>1. i \in (B + 1)..(B + G)
      BY <2>2
    <3>2. PICK k \in 1..G : blocks'[i] = gs[k]
      BY <3>1, <1>ch
    <3> QED  BY <3>2, <1>10, <1>dom DEF Deepens, NewFrames
  <2> QED  BY <2>1, <2>2
<1>11. \A b \in used' \cup predicated' : b.no <= locals'
  <2>1. \A b \in used' \cup predicated' : b \in used \cup predicated \/ b.no <= locals \/ b.no <= locals'
    BY DEF Marks
  <2>2. \A b \in used' \cup predicated' : b.no \in Nat
    BY DEF Marks, Bindings
  <2>3. \A b \in used \cup predicated : b.no <= locals
    BY DEF Numbered
  <2> QED  BY <2>1, <2>2, <2>3, <1>nn
<1>12. Numbered'
  BY <1>9, <1>10, <1>11, <1>dom DEF Numbered
<1>13. ASSUME NEW j \in 1..(L + 1)
       PROVE  /\ open'[j].ended => open'[j].tail
              /\ open'[j].invariant # Body!NoName =>
                   /\ ~open'[j].tail
                   /\ open'[j].symbol # Body!Nothing
                   /\ Sound(world', locals', open'[j].symbol, open'[j].invariant)
                   /\ Body!Outside(world.outer, "field") = {}
  <2>1. CASE j # L + 1
    <3>1. j \in 1..L /\ j \in DOMAIN open
      BY <2>1, <1>dom
    <3>2. /\ open[j].ended => open[j].tail
          /\ open[j].invariant # Body!NoName =>
               /\ ~open[j].tail
               /\ open[j].symbol # Body!Nothing
               /\ Sound(world, locals, open[j].symbol, open[j].invariant)
               /\ Body!Outside(world.outer, "field") = {}
      BY <3>1 DEF OpenShape
    <3>3. open[j].symbol # Body!Nothing => open[j].symbol.no \in Nat
      <4>1. PICK o \in Loops : o = open[j]
        BY <3>1, <1>2, <1>dom
      <4>2. o.symbol \in Bindings \cup {Body!Nothing}
        BY DEF Loops
      <4> QED  BY <4>1, <4>2 DEF Bindings
    <3>4. open'[j].ended => open'[j].tail
      BY <3>1, <3>2, <1>op
    <3>5. open[j].invariant # Body!NoName => open[j].symbol.no <= locals'
      BY <3>2, <3>3, <1>nn DEF Sound
    <3>6. open[j].invariant # Body!NoName => Sound(world', locals', open[j].symbol, open[j].invariant)
      BY <3>2, <3>5, <1>w DEF Sound
    <3>7. open'[j].invariant = open[j].invariant /\ open'[j].symbol = open[j].symbol /\ open'[j].tail = open[j].tail
      BY <3>1, <1>op
    <3> QED  BY <3>2, <3>4, <3>6, <3>7
  <2>2. CASE j = L + 1
    <3>1. open'[j] = e
      BY <2>2, <1>op
    <3> QED  BY <3>1 DEF Deepens, Sees
  <2> QED  BY <2>1, <2>2
<1>14. OpenShape'
  <2>1. Body!Outside(world'.outer, "field") = Body!Outside(world.outer, "field")
    BY <1>w
  <2> QED  BY <1>13, <1>dom, <2>1 DEF OpenShape, Body!Outside
<1> QED  BY <1>8, <1>12, <1>14

(* What is bound in Go's blocks after an opening is new or was bound before. *)
LEMMA DeepMarked ==
  ASSUME Typed, Numbered, Marked, NEW fs, NEW gs, NEW e, Deepens(fs, gs, e), Marks(gs, e)
  PROVE  Marked'
<1>2. fs \in Seq(Frames) /\ gs \in Seq(Blocks) /\ scopes \in Seq(Frames) /\ blocks \in Seq(Blocks)
      /\ open \in Seq(Loops) /\ e \in Loops
  BY DEF Typed, Deepens
<1>3. PICK L \in Nat : L = Len(open)
  BY <1>2
<1>4. PICK S \in Nat : S = Len(scopes)
  BY <1>2
<1>5. PICK B \in Nat : B = Len(blocks)
  BY <1>2
<1>6. PICK F \in Nat : F = Len(fs)
  BY <1>2
<1>7. PICK G \in Nat : G = Len(gs)
  BY <1>2
<1>op. /\ Len(open') = L + 1 /\ open' \in Seq(Loops)
       /\ open'[L + 1] = e
       /\ \A j \in 1..L : /\ open'[j].invariant = open[j].invariant /\ open'[j].symbol = open[j].symbol
  <2>1. Opens(e, L, G)
    BY <1>3, <1>7, DeepOpen
  <2> QED  BY <2>1 DEF Opens
<1>jn. Joined(fs, gs, S, B, F, G)
  BY <1>4, <1>5, <1>6, <1>7, DeepChains
<1>ch. /\ Len(blocks') = B + G /\ blocks' \in Seq(Blocks)
       /\ \A i \in 1..B : blocks'[i] = blocks[i]
       /\ \A i \in (B + 1)..(B + G) : i - B \in 1..G /\ blocks'[i] = gs[i - B]
  BY <1>jn DEF Joined
<1>dom. /\ DOMAIN open = 1..L /\ (DOMAIN open)' = 1..(L + 1)
        /\ DOMAIN blocks = 1..B /\ (DOMAIN blocks)' = 1..(B + G)
        /\ DOMAIN gs = 1..G
  BY <1>2, <1>3, <1>5, <1>7, <1>op, <1>ch
<1>old. \A v : Excused(v) => Excused(v)'
  BY DEF Excused, Marks
<1>q. ASSUME NEW q \in 1..(B + G)
      PROVE  (q \in 1..B /\ blocks'[q] = blocks[q]) \/ \E k \in 1..G : blocks'[q] = gs[k]
  <2>1. q \in 1..B \/ q \in (B + 1)..(B + G)
    OBVIOUS
  <2> QED  BY <2>1, <1>ch
<1>in. ASSUME NEW v, v.no <= locals, v.no \in Nat, InBlocks(v)'
       PROVE  InBlocks(v)
  <2>1. PICK q \in 1..(B + G), n \in Name : v # Body!Nothing /\ blocks'[q][n] = v
    BY <1>in, <1>dom DEF InBlocks
  <2>2. CASE q \in 1..B /\ blocks'[q] = blocks[q]
    BY <2>1, <2>2, <1>dom DEF InBlocks
  <2>3. ASSUME NEW k \in 1..G, blocks'[q] = gs[k]
        PROVE  FALSE
    <3>1. gs[k][n].no > locals
      BY <2>1, <2>3, <1>dom DEF Deepens, NewFrames
    <3>2. v.no > locals /\ locals \in Nat
      BY <3>1, <2>1, <2>3 DEF Typed
    <3> QED  BY <3>2, <1>in
  <2> QED  BY <2>2, <2>3, <1>q
<1>8. ASSUME NEW v \in used', InBlocks(v)'  PROVE Excused(v)'
  <2>1. CASE v \in used
    <3>1. v.no <= locals /\ v.no \in Nat
      BY <2>1 DEF Numbered, Typed, Bindings
    <3>2. InBlocks(v)
      BY <3>1, <1>8, <1>in
    <3>3. Excused(v)
      BY <3>2, <2>1 DEF Marked
    <3> QED  BY <3>3, <1>old
  <2>2. CASE v \notin used
    BY <2>2 DEF Marks
  <2> QED  BY <2>1, <2>2
<1>9. ASSUME world'.contracts = "panic", NEW v \in predicated', InBlocks(v)'
      PROVE  Excused(v)' \/ \E j \in (DOMAIN open)' : open'[j].invariant # Body!NoName /\ open'[j].symbol = v
  <2>1. CASE v \in predicated
    <3>1. v.no <= locals /\ v.no \in Nat
      BY <2>1 DEF Numbered, Typed, Bindings
    <3>2. InBlocks(v)
      BY <3>1, <1>9, <1>in
    <3>3. world.contracts = "panic"
      BY <1>9 DEF Deepens
    <3>4. Excused(v) \/ \E j \in DOMAIN open : open[j].invariant # Body!NoName /\ open[j].symbol = v
      BY <3>2, <3>3, <2>1 DEF Marked
    <3>5. \A j \in 1..L : j \in 1..(L + 1)
      OBVIOUS
    <3> QED  BY <3>4, <3>5, <1>old, <1>op, <1>dom
  <2>2. CASE v \notin predicated
    <3>1. e.invariant # Body!NoName /\ v = e.symbol
      BY <2>2 DEF Marks
    <3>2. L + 1 \in 1..(L + 1)
      OBVIOUS
    <3> QED  BY <3>1, <3>2, <1>op, <1>dom
  <2> QED  BY <2>1, <2>2
<1>10. ASSUME NEW q \in 1..(B + G), NEW n \in Name, blocks'[q][n].by \in {"counter", "key"}
       PROVE  blocks'[q][n] \in read'
  <2>1. CASE q \in 1..B /\ blocks'[q] = blocks[q]
    BY <2>1, <1>10, <1>dom DEF Marked, Marks
  <2>2. ASSUME NEW k \in 1..G, blocks'[q] = gs[k]
        PROVE  blocks'[q][n] \in read'
    BY <2>2, <1>10, <1>dom DEF Marks
  <2> QED  BY <2>1, <2>2, <1>q
<1> QED  BY <1>8, <1>9, <1>10, <1>dom DEF Marked

(* Every construct that is opened as Deepens and Marks say keeps the         *)
(* invariant.                                                                *)
LEMMA DeepKeeps ==
  ASSUME NamesInv, NEW fs, NEW gs, NEW e, Deepens(fs, gs, e), Marks(gs, e)
  PROVE  NamesInv'
<1>1. Typed' /\ Numbered' /\ OpenShape' /\ Nested' /\ Marked'
  BY DeepTyped, DeepNested, DeepMarked DEF NamesInv
<1>2. RefersAlike'
  BY DEF NamesInv, RefersAlike, Body!RefersAlike, Marks, RightStray
<1>3. NoRedeclaration'
  BY DEF NamesInv, NoRedeclaration, Body!NoRedeclaration, Marks
<1>4. NoneUnread'
  BY DEF NamesInv, NoneUnread, Body!NoneUnread, Marks
<1> QED  BY <1>1, <1>2, <1>3, <1>4 DEF NamesInv

(* What stands for no binding is none.                                       *)
LEMMA NothingIsNone ==
  /\ Body!Nothing \notin Bindings
  /\ Body!Nothing.by = "nothing" /\ Body!Nothing.no = 0
BY DEF Body!Nothing, Body!Binding, Bindings, LocalKinds

(* What Go's blocks hold Aril's scopes may hold.                             *)
LEMMA BlocksAreFrames == Blocks \subseteq Frames
BY DEF Blocks, Frames, Bindings

(* The frames that are added.                                                *)
LEMMA EmptyFrame ==
  /\ Body!Empty \in Blocks
  /\ \A n \in Name : Body!Empty[n] = Body!Nothing
BY DEF Body!Empty, Blocks

(* A frame with one binding.                                                 *)
LEMMA HoldingFrame ==
  ASSUME NEW b \in [by : LocalKinds, name : Name, no : Nat]
  PROVE  /\ Body!Holding(b) \in Blocks
         /\ \A n \in Name : Body!Holding(b)[n] = IF n = b.name THEN b ELSE Body!Nothing
<1>1. b.name \in Name
  OBVIOUS
<1> QED  BY <1>1, EmptyFrame DEF Body!Holding, Blocks

(* Frames without bindings.                                                  *)
LEMMA BareFrames ==
  ASSUME NEW k \in Nat
  PROVE  /\ Body!Bare(k) \in Seq(Blocks) /\ Len(Body!Bare(k)) = k
         /\ \A i \in 1..k : Body!Bare(k)[i] = Body!Empty
<1>1. Body!Bare(k) \in [1..k -> Blocks]
  BY EmptyFrame DEF Body!Bare
<1>2. \A i \in 1..k : Body!Bare(k)[i] = Body!Empty
  BY DEF Body!Bare
<1> HIDE DEF Body!Bare
<1> QED  BY <1>1, <1>2

(* The frame f and k bare ones, appended to a chain, are the frames fs.       *)
IsHeld(chain, f, k, fs) ==
  /\ chain \o <<f>> \o Body!Bare(k) = chain \o fs
  /\ Len(fs) = k + 1 /\ fs[1] = f /\ \A i \in 2..(k + 1) : fs[i] = Body!Empty

(* A frame and bare ones after it are one sequence of frames.                *)
LEMMA HeldFrames ==
  ASSUME NEW f \in Blocks, NEW k \in Nat, NEW chain \in Seq(Frames)
  PROVE  \E fs \in Seq(Blocks) : IsHeld(chain, f, k, fs)
<1>1. PICK bare \in Seq(Blocks) : /\ bare = Body!Bare(k) /\ Len(bare) = k
                                  /\ \A i \in 1..k : bare[i] = Body!Empty
  BY BareFrames
<1>2. PICK fs : fs = <<f>> \o bare
  OBVIOUS
<1>3. fs \in Seq(Blocks)
  BY <1>2
<1>4. chain \o <<f>> \o bare = chain \o fs
  <2>1. bare \in Seq(Frames) /\ <<f>> \in Seq(Frames)
    BY BlocksAreFrames
  <2> QED  BY <2>1, <1>2, ConcatAssociative
<1>5. Len(fs) = k + 1 /\ fs[1] = f
  BY <1>2, <1>1
<1>6. \A i \in 2..(k + 1) : fs[i] = Body!Empty
  <2>1. \A i \in 2..(k + 1) : i - 1 \in 1..k /\ fs[i] = bare[i - 1]
    BY <1>2, <1>1
  <2> QED  BY <2>1, <1>1
<1> QED  BY <1>1, <1>3, <1>4, <1>5, <1>6 DEF IsHeld

(* Frames of which only the first binds a name show what it binds.           *)
LEMMA SeesHeld ==
  ASSUME NEW fs, NEW K \in Nat \ {0}, NEW n \in Name, \A i \in 2..K : fs[i][n] = Body!Nothing
  PROVE  \A b : Sees(fs, K, n, b) <=> b # Body!Nothing /\ fs[1][n] = b
<1>1. 1 \in 1..K /\ \A i \in 1..K : i = 1 \/ i \in 2..K
  OBVIOUS
<1>2. \A l \in (1 + 1)..K : l \in 2..K
  OBVIOUS
<1> QED  BY <1>1, <1>2 DEF Sees

(* The entry of what is opened, whatever its frames.                         *)
Enters(e) ==
  /\ e \in Loops /\ ~e.ended
  /\ locals' \in Nat /\ locals <= locals'
  /\ Body!CanOpen
  /\ \/ open' = Append(open, e) /\ e.blocks >= 1
     \/ open' = Append(Body!Ending, e) /\ Body!Top.tail /\ e.invariant = Body!NoName
  /\ e.invariant # Body!NoName =>
       /\ ~e.tail
       /\ Sees(scopes', Len(scopes'), e.invariant, e.symbol)
       /\ Sound(world', locals', e.symbol, e.invariant)
       /\ Body!Outside(world.outer, "field") = {}
  /\ world' = world /\ used \subseteq used' /\ predicated \subseteq predicated'

(* Bare frames, in both chains or in Aril's only.                            *)
LEMMA OpensBare ==
  ASSUME Typed, NEW e, Enters(e), NEW m \in {0, 1},
         scopes' = scopes \o Body!Bare(1), blocks' = blocks \o Body!Bare(m),
         e.scopes = 1, e.blocks = m, e.inlined \/ m = 1
  PROVE  Deepens(Body!Bare(1), Body!Bare(m), e)
<1>1. /\ Body!Bare(1) \in Seq(Blocks) /\ Len(Body!Bare(1)) = 1 /\ Body!Bare(1)[1] = Body!Empty
      /\ Body!Bare(m) \in Seq(Blocks) /\ Len(Body!Bare(m)) = m
      /\ \A i \in 1..m : Body!Bare(m)[i] = Body!Empty
  <2>1. 1 \in Nat /\ m \in Nat /\ 1 \in 1..1
    OBVIOUS
  <2> QED  BY <2>1, BareFrames
<1>2. PICK fs \in Seq(Blocks), gs \in Seq(Blocks) : fs = Body!Bare(1) /\ gs = Body!Bare(m)
  BY <1>1
<1>3. fs \in Seq(Frames)
  BY BlocksAreFrames
<1>4. /\ Len(fs) = 1 /\ Len(gs) = m /\ DOMAIN fs = 1..1 /\ DOMAIN gs = 1..m
      /\ \A i \in 1..1, n \in Name : fs[i][n] = Body!Nothing
      /\ \A i \in 1..m, n \in Name : gs[i][n] = Body!Nothing
  BY <1>1, <1>2, EmptyFrame
<1>5. NewFrames(fs) /\ NewFrames(gs)
  BY <1>4 DEF NewFrames
<1>6. AlikeFrames(fs, gs)
  BY <1>4, NothingIsNone DEF AlikeFrames, Sees, Hidden
<1>7. m = 1 => SameFrames(fs, gs)
  BY <1>4 DEF SameFrames
<1>9. scopes' = scopes \o fs /\ blocks' = blocks \o gs
  BY <1>2
<1>10. e.scopes = Len(fs) /\ e.blocks = Len(gs) /\ Len(fs) >= 1 /\ (e.inlined \/ Len(gs) >= 1) /\ (e.blocks >= 1 => Len(gs) >= 1)
  BY <1>4
<1>8. Deepens(fs, gs, e)
  BY <1>9, <1>10, <1>3, <1>4, <1>5, <1>6, <1>7 DEF Deepens, Enters
<1> QED  BY <1>2, <1>8

(* A frame that holds one new name, with bare frames inside of it.           *)
LEMMA OpensHolding ==
  ASSUME Typed, NEW e, Enters(e), NEW b \in [by : LocalKinds, name : Name, no : Nat],
         b.by \notin {"let", "var", "tuple"}, b.no > locals, b.no <= locals',
         NEW k \in {1, 2}, NEW m \in {0, 1},
         scopes' = scopes \o <<Body!Holding(b)>> \o Body!Bare(k),
         blocks' = blocks \o <<Body!Holding(b)>> \o Body!Bare(m),
         e.scopes = k + 1, e.blocks = m + 1,
         e.inlined \/ m = 1 \/ b.by \in {"param", "catch", "recv", "element"}
  PROVE  \E fs, gs : /\ Deepens(fs, gs, e)
                     /\ \A i \in DOMAIN gs, n \in Name : gs[i][n] \in {b, Body!Nothing}
<1>1. /\ Body!Holding(b) \in Blocks
      /\ \A n \in Name : Body!Holding(b)[n] = IF n = b.name THEN b ELSE Body!Nothing
  BY HoldingFrame
<1>2. PICK f \in Blocks : f = Body!Holding(b)
  BY <1>1
<1>3. scopes \in Seq(Frames) /\ blocks \in Seq(Frames) /\ k \in Nat /\ m \in Nat
  BY BlocksAreFrames DEF Typed
<1>fs. PICK fs \in Seq(Blocks) : IsHeld(scopes, f, k, fs)
  BY <1>3, HeldFrames
<1>4. /\ scopes \o <<f>> \o Body!Bare(k) = scopes \o fs
      /\ Len(fs) = k + 1 /\ fs[1] = f /\ \A i \in 2..(k + 1) : fs[i] = Body!Empty
  BY <1>fs DEF IsHeld
<1>gs. PICK gs \in Seq(Blocks) : IsHeld(blocks, f, m, gs)
  BY <1>3, HeldFrames
<1>5. /\ blocks \o <<f>> \o Body!Bare(m) = blocks \o gs
      /\ Len(gs) = m + 1 /\ gs[1] = f /\ \A i \in 2..(m + 1) : gs[i] = Body!Empty
  BY <1>gs DEF IsHeld
<1>6. \A n \in Name : f[n] = IF n = b.name THEN b ELSE Body!Nothing
  BY <1>1, <1>2
<1>7. /\ DOMAIN fs = 1..(k + 1) /\ DOMAIN gs = 1..(m + 1)
      /\ \A i \in 1..(k + 1), n \in Name : fs[i][n] \in {b, Body!Nothing}
      /\ \A i \in 1..(m + 1), n \in Name : gs[i][n] \in {b, Body!Nothing}
  <2>1. \A i \in 1..(k + 1) : i = 1 \/ i \in 2..(k + 1)
    OBVIOUS
  <2>2. \A i \in 1..(m + 1) : i = 1 \/ i \in 2..(m + 1)
    OBVIOUS
  <2>3. DOMAIN fs = 1..(k + 1) /\ DOMAIN gs = 1..(m + 1)
    BY <1>4, <1>5
  <2>4. \A i \in 1..(k + 1), n \in Name : fs[i][n] \in {b, Body!Nothing}
    BY <2>1, <1>4, <1>6, EmptyFrame
  <2>5. \A i \in 1..(m + 1), n \in Name : gs[i][n] \in {b, Body!Nothing}
    BY <2>2, <1>5, <1>6, EmptyFrame
  <2> QED  BY <2>3, <2>4, <2>5
<1>8. b.by \notin {"variant", "field"}
  BY DEF LocalKinds
<1>9. NewFrames(fs) /\ NewFrames(gs)
  BY <1>7, <1>8 DEF NewFrames
<1>10. AlikeFrames(fs, gs)
  <2> SUFFICES ASSUME NEW n \in Name
               PROVE  /\ \A c : Sees(fs, Len(fs), n, c) => Sees(gs, Len(gs), n, c)
                      /\ Hidden(fs, Len(fs), n) => Hidden(gs, Len(gs), n)
                      /\ \A i \in DOMAIN gs : gs[i][n].by \notin {"let", "var", "tuple"}
    BY DEF AlikeFrames
  <2>1. k + 1 \in Nat \ {0} /\ m + 1 \in Nat \ {0}
    OBVIOUS
  <2>2. (\A i \in 2..(k + 1) : fs[i][n] = Body!Nothing) /\ (\A i \in 2..(m + 1) : gs[i][n] = Body!Nothing)
    BY <1>4, <1>5, EmptyFrame
  <2>6. PICK K \in Nat \ {0}, M \in Nat \ {0} : K = k + 1 /\ M = m + 1
    BY <2>1
  <2>3. /\ \A c : Sees(fs, k + 1, n, c) <=> c # Body!Nothing /\ fs[1][n] = c
        /\ Hidden(fs, k + 1, n) <=> fs[1][n] = Body!Nothing
    <3>1. (\A i \in 2..K : fs[i][n] = Body!Nothing) /\ (\A i \in 2..M : gs[i][n] = Body!Nothing)
      BY <2>2, <2>6
    <3>2. \A c : Sees(fs, K, n, c) <=> c # Body!Nothing /\ fs[1][n] = c
      BY <3>1, SeesHeld
    <3>3. Hidden(fs, K, n) <=> fs[1][n] = Body!Nothing
      <4>1. 1 \in 1..K /\ \A i \in 1..K : i = 1 \/ i \in 2..K
        OBVIOUS
      <4> QED  BY <3>1, <4>1 DEF Hidden
    <3> QED  BY <3>2, <3>3, <2>6
  <2>4. /\ \A c : Sees(gs, m + 1, n, c) <=> c # Body!Nothing /\ gs[1][n] = c
        /\ Hidden(gs, m + 1, n) <=> gs[1][n] = Body!Nothing
    <3>1. (\A i \in 2..K : fs[i][n] = Body!Nothing) /\ (\A i \in 2..M : gs[i][n] = Body!Nothing)
      BY <2>2, <2>6
    <3>2. \A c : Sees(gs, M, n, c) <=> c # Body!Nothing /\ gs[1][n] = c
      BY <3>1, SeesHeld
    <3>3. Hidden(gs, M, n) <=> gs[1][n] = Body!Nothing
      <4>1. 1 \in 1..M /\ \A i \in 1..M : i = 1 \/ i \in 2..M
        OBVIOUS
      <4> QED  BY <3>1, <4>1 DEF Hidden
    <3> QED  BY <3>2, <3>3, <2>6
  <2>5. \A i \in DOMAIN gs : gs[i][n].by \notin {"let", "var", "tuple"}
    BY <1>7, NothingIsNone
  <2> QED  BY <2>3, <2>4, <2>5, <1>4, <1>5
<1>11. e.inlined \/ SameFrames(fs, gs)
  <2>1. CASE m = 1
    <3>1. Len(gs) = 2 /\ 2 \in 2..(m + 1)
      BY <2>1, <1>5
    <3>2. gs[Len(gs)] = Body!Empty
      BY <3>1, <1>5
    <3> QED  BY <3>2, EmptyFrame DEF SameFrames
  <2>2. CASE b.by \in {"param", "catch", "recv", "element"}
    <3>1. Len(gs) \in 1..(m + 1)
      BY <1>5
    <3> QED  BY <3>1, <2>2, <1>7 DEF SameFrames
  <2> QED  BY <2>1, <2>2
<1>12. fs \in Seq(Frames)
  BY BlocksAreFrames
<1>13. scopes' = scopes \o fs /\ blocks' = blocks \o gs
  BY <1>2, <1>4, <1>5
<1>14. e.scopes = Len(fs) /\ e.blocks = Len(gs) /\ Len(fs) >= 1 /\ Len(gs) >= 1
  BY <1>4, <1>5
<1>15. Deepens(fs, gs, e)
  BY <1>9, <1>10, <1>11, <1>12, <1>13, <1>14 DEF Deepens, Enters
<1> QED  BY <1>15, <1>7

-----------------------------------------------------------------------------
(* What a name is resolved to where statements are added, and that Go's      *)
(* blocks say the same.                                                      *)
LEMMA Reached ==
  ASSUME NamesInv, Body!CanGrow, NEW n \in Name, NEW sym, sym = Body!Resolve(n), sym # Body!Nothing
  PROVE  /\ sym \in Bindings /\ Sound(world, locals, sym, n)
         /\ Sees(scopes, Len(scopes), n, sym)
         /\ \/ world.outer[n] = "variant"
            \/ sym.by = "field"
            \/ Body!Lookup(blocks, n) = sym /\ Sees(blocks, Len(blocks), n, sym)
<1>1. PICK sc \in [0..Len(open) -> Nat], bc \in [0..Len(open) -> Nat] : Depths(sc, bc) /\ Agree(sc, bc)
  BY DEF NamesInv, Nested
<1>2. /\ scopes \in Seq(Frames) /\ blocks \in Seq(Blocks) /\ open \in Seq(Loops)
      /\ open # <<>> /\ ~Body!Top.ended
  BY DEF NamesInv, Typed, Body!CanGrow
<1>3. blocks \in Seq(Frames)
  BY <1>2, BlocksAreFrames
<1>4. Sees(scopes, Len(scopes), n, sym)
  BY <1>2, SeesIsLookup DEF Body!Resolve
<1>5. PICK i \in DOMAIN scopes : scopes[i][n] = sym
  BY <1>4, <1>2 DEF Sees
<1>6. scopes[i] \in Frames
  BY <1>2
<1>7. sym \in Bindings
  BY <1>5, <1>6 DEF Frames
<1>8. Sound(world, locals, sym, n)
  BY <1>5 DEF NamesInv, Numbered
<1>9. PICK L \in Nat : L = Len(open) /\ L \in DOMAIN open /\ L >= 1
  BY <1>2
<1>10. sc[L] = Len(scopes) /\ bc[L] = Len(blocks) /\ ~open[L].ended
  BY <1>1, <1>2, <1>9 DEF Depths, Body!Top
<1>11. ASSUME world.outer[n] # "variant", sym.by # "field"
       PROVE  Sees(blocks, Len(blocks), n, sym)
  <2>1. Sees(scopes, sc[L], n, sym)
    BY <1>4, <1>10
  <2>2. Sees(blocks, bc[L], n, sym)
    BY <2>1, <1>1, <1>7, <1>9, <1>10, <1>11 DEF Agree
  <2> QED  BY <2>2, <1>10
<1>12. Sees(blocks, Len(blocks), n, sym) => Body!Lookup(blocks, n) = sym
  BY <1>3, SeesIsLookup
<1> QED  BY <1>4, <1>7, <1>8, <1>11, <1>12

(* The emission of a name: it is the symbol, or what Go takes it for is a    *)
(* variant or what Go's chain has under that name.                           *)
LEMMA Emission ==
  ASSUME NEW n \in Name, NEW sym \in Bindings, Sound(world, locals, sym, n), NEW chain, NEW place
  PROVE  /\ Body!Emitted(n, sym, chain) = sym \/ \E use \in Body!Strays(n, sym, chain, place) : use.aril = sym
         /\ \A use \in Body!Strays(n, sym, chain, place) :
              /\ use.place = place /\ use.aril = sym
              /\ \/ use.go.by = "variant" /\ sym.by # "variant"
                 \/ /\ world.outer[n] # "variant" /\ sym.by # "field"
                    /\ use.go = Body!Lookup(chain, n) /\ use.go # sym
<1>1. PICK go : go = Body!Emitted(n, sym, chain)
  OBVIOUS
<1>2. Body!Strays(n, sym, chain, place) = IF go = sym THEN {} ELSE {[place |-> place, aril |-> sym, go |-> go]}
  BY <1>1 DEF Body!Strays
<1>s. /\ go = sym \/ \E use \in Body!Strays(n, sym, chain, place) : use.aril = sym
      /\ \A use \in Body!Strays(n, sym, chain, place) :
           use.place = place /\ use.aril = sym /\ use.go = go /\ go # sym
  <2>1. CASE go = sym
    BY <2>1, <1>2
  <2>2. CASE go # sym
    <3>1. PICK use : use = [place |-> place, aril |-> sym, go |-> go]
      OBVIOUS
    <3>2. use.place = place /\ use.aril = sym /\ use.go = go
      BY <3>1
    <3>3. Body!Strays(n, sym, chain, place) = {use}
      BY <3>1, <2>2, <1>2
    <3> QED  BY <3>2, <3>3, <2>2
  <2> QED  BY <2>1, <2>2
<1>3. CASE world.outer[n] = "variant"
  <2>1. ~(sym.by = "field")
    BY <1>3 DEF Sound
  <2>2. go = Body!Binding("variant", n, 0)
    BY <1>1, <1>3, <2>1 DEF Body!Emitted
  <2>3. go.by = "variant"
    BY <2>2 DEF Body!Binding
  <2>4. sym.by = "variant" => sym = go
    BY <2>2 DEF Sound
  <2> QED  BY <1>1, <1>s, <2>3, <2>4
<1>4. CASE world.outer[n] # "variant" /\ sym.by = "field"
  <2>1. go = sym
    BY <1>1, <1>4 DEF Body!Emitted
  <2> QED  BY <1>1, <1>s, <2>1
<1>5. CASE world.outer[n] # "variant" /\ sym.by # "field"
  <2>1. go = Body!Lookup(chain, n)
    BY <1>1, <1>5 DEF Body!Emitted
  <2> QED  BY <1>1, <1>s, <2>1, <1>5
<1> QED  BY <1>3, <1>4, <1>5

(* Where statements are added, only the name of a variant can stray.         *)
LEMMA PlainEmission ==
  ASSUME NamesInv, Body!CanGrow, NEW n \in Name, NEW sym, sym = Body!Resolve(n), sym # Body!Nothing,
         NEW place
  PROVE  \A use \in Body!Strays(n, sym, blocks, place) : RightStray(use)
<1>1. sym \in Bindings /\ Sound(world, locals, sym, n)
  BY Reached
<1>2. \A use \in Body!Strays(n, sym, blocks, place) :
              /\ use.place = place /\ use.aril = sym
              /\ \/ use.go.by = "variant" /\ sym.by # "variant"
                 \/ /\ world.outer[n] # "variant" /\ sym.by # "field"
                    /\ use.go = Body!Lookup(blocks, n) /\ use.go # sym
  BY <1>1, Emission
<1>3. world.outer[n] = "variant" \/ sym.by = "field" \/ Body!Lookup(blocks, n) = sym
  BY Reached
<1> QED  BY <1>2, <1>3 DEF RightStray

(* Inside of one more block, that holds b.                                   *)
LEMMA InsideLookup ==
  ASSUME NEW b \in [by : LocalKinds, name : Name, no : Nat], NEW outside \in Seq(Frames), NEW n \in Name
  PROVE  Body!Lookup(Append(outside, Body!Holding(b)), n) =
           IF n = b.name THEN b ELSE Body!Lookup(outside, n)
<1>1. PICK f \in Blocks : f = Body!Holding(b) /\ f[n] = IF n = b.name THEN b ELSE Body!Nothing
  BY HoldingFrame
<1>2. PICK B \in Nat : B = Len(outside)
  OBVIOUS
<1>3. PICK chain : chain = Append(outside, f)
  OBVIOUS
<1>4. /\ chain \in Seq(Frames) /\ Len(chain) = B + 1
      /\ chain[B + 1] = f /\ \A i \in 1..B : chain[i] = outside[i]
  <2>1. f \in Frames
    BY BlocksAreFrames
  <2> QED  BY <2>1, <1>2, <1>3
<1>5. b # Body!Nothing
  BY NothingIsNone DEF LocalKinds
<1>6. CASE n = b.name
  <2>1. Sees(chain, B + 1, n, b)
    <3>1. B + 1 \in 1..(B + 1) /\ ((B + 1) + 1)..(B + 1) = {}
      OBVIOUS
    <3> QED  BY <3>1, <1>1, <1>4, <1>5, <1>6 DEF Sees
  <2>2. Body!Lookup(chain, n) = b
    BY <2>1, <1>4, SeesIsLookup
  <2> QED  BY <2>2, <1>1, <1>3, <1>6
<1>7. CASE n # b.name
  <2>1. chain[B + 1][n] = Body!Nothing
    BY <1>1, <1>4, <1>7
  <2>2. ASSUME NEW c
        PROVE  Sees(chain, B + 1, n, c) <=> Sees(outside, B, n, c)
    <3>1. \A i \in 1..B : chain[i][n] = outside[i][n]
      BY <1>4
    <3>2. Sees(chain, B, n, c) <=> Sees(outside, B, n, c)
      BY <3>1, SeesSame
    <3>3. \A l \in (B + 1)..(B + 1) : l = B + 1
      OBVIOUS
    <3> QED  BY <2>1, <3>2, <3>3, SeesDeeper
  <2>3. PICK u, v : u = Body!Lookup(chain, n) /\ v = Body!Lookup(outside, n)
    OBVIOUS
  <2>4. u # Body!Nothing => v = u
    BY <2>2, <2>3, <1>2, <1>4, SeesIsLookup
  <2>5. v # Body!Nothing => u = v
    BY <2>2, <2>3, <1>2, <1>4, SeesIsLookup
  <2> QED  BY <2>3, <2>4, <2>5, <1>1, <1>3, <1>7
<1> QED  BY <1>6, <1>7

(* An expression that is emitted inside of a binding strays to that binding  *)
(* or not at all.                                                            *)
LEMMA InsideEmission ==
  ASSUME NamesInv, Body!CanGrow, NEW n \in Name, NEW sym, sym = Body!Resolve(n), sym # Body!Nothing,
         NEW place, NEW b \in [by : LocalKinds, name : Name, no : Nat],
         (place = "bound" /\ b.by = "counter") \/ (place = "map" /\ b.by = "key")
  PROVE  \A use \in Body!Strays(n, sym, Append(blocks, Body!Holding(b)), place) : RightStray(use)
<1>1. sym \in Bindings /\ Sound(world, locals, sym, n)
  BY Reached
<1>2. PICK inside : inside = Append(blocks, Body!Holding(b))
  OBVIOUS
<1>3. \A use \in Body!Strays(n, sym, inside, place) :
              /\ use.place = place /\ use.aril = sym
              /\ \/ use.go.by = "variant" /\ sym.by # "variant"
                 \/ /\ world.outer[n] # "variant" /\ sym.by # "field"
                    /\ use.go = Body!Lookup(inside, n) /\ use.go # sym
  BY <1>1, Emission
<1>4. world.outer[n] = "variant" \/ sym.by = "field" \/ Body!Lookup(blocks, n) = sym
  BY Reached
<1>5. Body!Lookup(inside, n) = IF n = b.name THEN b ELSE Body!Lookup(blocks, n)
  <2>1. blocks \in Seq(Frames)
    BY BlocksAreFrames DEF NamesInv, Typed
  <2> QED  BY <1>2, <2>1, InsideLookup
<1> QED  BY <1>2, <1>3, <1>4, <1>5 DEF RightStray

(* A name that is used: one symbol is marked, and is read or goes astray.    *)
LEMMA UseKeeps ==
  ASSUME NamesInv, NEW n \in Name, Body!Use(n) \/ Body!Assign(n)
  PROVE  NamesInv'
<1>0. PICK sym : sym = Body!Resolve(n)
  OBVIOUS
<1>1. Body!CanGrow /\ sym # Body!Nothing
  BY <1>0, NothingIsNone DEF Body!Use, Body!Assign, Body!CanUse, Body!Assignable
<1>2. sym \in Bindings /\ Sound(world, locals, sym, n)
  BY <1>0, <1>1, Reached
<1>3. PICK go, strays : go = Body!Emitted(n, sym, blocks) /\ strays = Body!Strays(n, sym, blocks, "plain")
  OBVIOUS
<1>4. (go = sym \/ \E use \in strays : use.aril = sym) /\ \A use \in strays : RightStray(use)
  BY <1>0, <1>1, <1>2, <1>3, Emission, PlainEmission
<1>5. /\ used' = used \cup {sym} /\ predicated' = predicated
      /\ astray' = astray \cup strays /\ uses' \in Nat
      /\ \/ read' = read \cup {go} /\ assigned' = assigned
         \/ read' = read /\ assigned' = assigned \cup {sym}
      /\ world' = world /\ scopes' = scopes /\ blocks' = blocks /\ open' = open /\ locals' = locals
      /\ collided' = collided /\ unread' = unread
  BY <1>0, <1>3 DEF Body!Use, Body!Assign, NamesInv, Typed
<1>6. Typed'
  BY <1>2, <1>5 DEF NamesInv, Typed, Body!Outside
<1>7. Numbered'
  BY <1>2, <1>5 DEF NamesInv, Numbered, Sound
<1>8. OpenShape'
  BY <1>5 DEF NamesInv, OpenShape, Body!Outside, Sound
<1>9. Nested'
  <2>1. PICK sc \in [0..Len(open) -> Nat], bc \in [0..Len(open) -> Nat] :
             Depths(sc, bc) /\ Agree(sc, bc) /\ Invariants(bc) /\ Mirrored(sc, bc) /\ Declared(sc, bc)
    BY DEF NamesInv, Nested
  <2>2. Depths(sc, bc)' /\ Mirrored(sc, bc)'
    BY <2>1, <1>5 DEF Depths, Mirrored
  <2>3. Agree(sc, bc)' /\ Invariants(bc)'
    BY <2>1, <1>5 DEF Agree, Invariants
  <2>4. Declared(sc, bc)'
    BY <2>1, <1>5 DEF Declared
  <2>5. sc \in [0..Len(open') -> Nat] /\ bc \in [0..Len(open') -> Nat]
    BY <1>5
  <2> QED  BY <2>2, <2>3, <2>4, <2>5 DEF Nested
<1>10. \A v : (Excused(v) => Excused(v)') /\ (InBlocks(v)' => InBlocks(v))
  BY <1>5 DEF Excused, InBlocks
<1>11. Excused(sym)'
  BY <1>4, <1>5 DEF Excused
<1>12. Marked'
  BY <1>5, <1>10, <1>11 DEF NamesInv, Marked
<1>13. RefersAlike' /\ NoRedeclaration' /\ NoneUnread'
  BY <1>4, <1>5 DEF NamesInv, RefersAlike, NoRedeclaration, NoneUnread, Body!RefersAlike,
                    Body!NoRedeclaration, Body!NoneUnread, RightStray
<1> QED  BY <1>6, <1>7, <1>8, <1>9, <1>12, <1>13 DEF NamesInv

-----------------------------------------------------------------------------
(* No bare frames are none.                                                  *)
LEMMA NoBareFrames ==
  ASSUME NEW chain \in Seq(Frames)
  PROVE  chain = chain \o Body!Bare(0)
<1>1. PICK bare \in Seq(Blocks) : bare = Body!Bare(0) /\ Len(bare) = 0
  BY BareFrames
<1>2. bare = <<>>
  BY <1>1, EmptySeq
<1> QED  BY <1>1, <1>2, ConcatEmptySeq

(* A construct that marks nothing marks as it should.                        *)
LEMMA QuietMarks ==
  ASSUME NamesInv, UNCHANGED <<Body!flags, collided, unread>>, uses' \in Nat, NEW gs, NEW e,
         \A i \in DOMAIN gs, n \in Name : gs[i][n].by \in {"counter", "key"} => gs[i][n] \in read
  PROVE  Marks(gs, e)
BY DEF NamesInv, Typed, Marks, Body!flags

(* The entry of a construct without an invariant.                            *)
LEMMA PlainEntry ==
  ASSUME NamesInv, Body!CanOpen, NEW s \in Nat, NEW k \in Nat, NEW tail \in BOOLEAN, NEW inlined \in BOOLEAN,
         NEW e, e = Body!Opened(s, k, tail, inlined),
         \/ open' = Append(open, e) /\ k >= 1
         \/ open' = Append(Body!Ending, e) /\ Body!Top.tail,
         world' = world, used \subseteq used', predicated \subseteq predicated',
         locals' \in Nat, locals <= locals'
  PROVE  Enters(e) /\ e.scopes = s /\ e.blocks = k /\ e.inlined = inlined
<1>1. e \in Loops
  BY DEF Body!Opened, Loops
<1>2. e.scopes = s /\ e.blocks = k /\ e.inlined = inlined /\ ~e.ended /\ e.invariant = Body!NoName
  BY DEF Body!Opened
<1> QED  BY <1>1, <1>2 DEF Enters

(* The counters are numbers.                                                 *)
LEMMA CountsLocals ==
  ASSUME NamesInv
  PROVE  locals \in Nat /\ uses \in Nat /\ locals + 1 \in Nat /\ locals + 1 > locals /\ locals + 2 \in Nat
         /\ scopes \in Seq(Frames) /\ blocks \in Seq(Frames) /\ blocks \in Seq(Blocks)
BY BlocksAreFrames DEF NamesInv, Typed

(* A block, a trailing block, a trailing branch.                             *)
Blocking(m, tail) ==
  /\ Body!CanOpen
  /\ scopes' = scopes \o Body!Bare(1) /\ blocks' = blocks \o Body!Bare(m)
  /\ \/ open' = Append(open, Body!Opened(1, m, tail, m = 0)) /\ m >= 1
     \/ open' = Append(Body!Ending, Body!Opened(1, m, tail, m = 0)) /\ Body!Top.tail

BlockLike == Body!OpenBlock \/ Body!OpenTailBlock \/ Body!OpenTailBranch

(* Blocks and branches keep the invariant.                                   *)
LEMMA BlockKeeps ==
  ASSUME NamesInv, BlockLike
  PROVE  NamesInv'
<1>1. \E m \in {0, 1}, tail \in BOOLEAN : Blocking(m, tail)
  <2>1. blocks = blocks \o Body!Bare(0)
    BY CountsLocals, NoBareFrames
  <2>n. (0 = 0) = TRUE /\ (1 = 0) = FALSE /\ 1 >= 1
    OBVIOUS
  <2>2. CASE Body!OpenBlock
    <3>1. Blocking(1, FALSE)
      BY <2>2, <2>n DEF Body!OpenBlock, Blocking
    <3> QED  BY <3>1
  <2>3. CASE Body!OpenTailBlock
    <3>1. Blocking(0, TRUE)
      BY <2>1, <2>3, <2>n DEF Body!OpenTailBlock, Blocking
    <3> QED  BY <3>1
  <2>4. CASE Body!OpenTailBranch
    <3>1. Blocking(1, TRUE)
      BY <2>4, <2>n DEF Body!OpenTailBranch, Blocking
    <3> QED  BY <3>1
  <2> QED  BY <2>2, <2>3, <2>4 DEF BlockLike
<1>0. PICK m \in {0, 1}, tail \in BOOLEAN : Blocking(m, tail)
  BY <1>1
<1>i. PICK inlined \in BOOLEAN : inlined = (m = 0)
  OBVIOUS
<1>2. UNCHANGED <<world, locals, uses, Body!flags, collided, unread>>
  BY DEF BlockLike, Body!OpenBlock, Body!OpenTailBlock, Body!OpenTailBranch
<1>3. used' = used /\ predicated' = predicated
  BY <1>2 DEF Body!flags
<1>4. PICK e : e = Body!Opened(1, m, tail, inlined)
  OBVIOUS
<1>5. Enters(e) /\ e.scopes = 1 /\ e.blocks = m /\ e.inlined = inlined
  <2>1. 1 \in Nat /\ m \in Nat
    OBVIOUS
  <2>2. \/ open' = Append(open, e) /\ m >= 1
        \/ open' = Append(Body!Ending, e) /\ Body!Top.tail
    BY <1>0, <1>i, <1>4 DEF Blocking
  <2>3. Body!CanOpen /\ e = Body!Opened(1, m, tail, inlined)
    BY <1>0, <1>i, <1>4 DEF Blocking
  <2>4. /\ world' = world /\ used \subseteq used' /\ predicated \subseteq predicated'
        /\ locals' \in Nat /\ locals <= locals'
    BY <1>2, <1>3, CountsLocals
  <2> QED  BY <2>1, <2>2, <2>3, <2>4, PlainEntry
<1>6. Deepens(Body!Bare(1), Body!Bare(m), e)
  <2>1. Typed
    BY DEF NamesInv
  <2> QED  BY <1>0, <1>i, <1>5, <2>1, OpensBare DEF Blocking
<1>7. PICK fs, gs : fs = Body!Bare(1) /\ gs = Body!Bare(m)
  OBVIOUS
<1>8. \A i \in DOMAIN gs, n \in Name : gs[i][n] = Body!Nothing
  <2>1. m \in Nat
    OBVIOUS
  <2>2. gs \in Seq(Blocks) /\ Len(gs) = m /\ \A i \in 1..m : gs[i] = Body!Empty
    BY <1>7, <2>1, BareFrames
  <2>3. \A i \in DOMAIN gs : gs[i] = Body!Empty
    BY <2>2
  <2> QED  BY <2>3, EmptyFrame
<1>9. Marks(gs, e)
  BY <1>2, <1>8, CountsLocals, NothingIsNone, QuietMarks
<1> QED  BY <1>6, <1>7, <1>9, DeepKeeps

(* An arm, a handler, a receive, a closure: one name, nothing is marked.     *)
Binds(by, n, k, m, tail, inlined) ==
  /\ Body!CanOpen
  /\ scopes' = scopes \o <<Body!Holding(Body!Binding(by, n, locals + 1))>> \o Body!Bare(k)
  /\ blocks' = blocks \o <<Body!Holding(Body!Binding(by, n, locals + 1))>> \o Body!Bare(m)
  /\ \/ open' = Append(open, Body!Opened(k + 1, m + 1, tail, inlined))
     \/ open' = Append(Body!Ending, Body!Opened(k + 1, m + 1, tail, inlined)) /\ Body!Top.tail
  /\ inlined \/ m = 1 \/ by # "arm"

Binder(n) ==
  \/ \E tail \in BOOLEAN : Body!OpenArm(n, tail)
  \/ Body!OpenCatch(n) \/ Body!OpenReceive(n)
  \/ \E form \in {"full", "short unit", "short value"} : Body!OpenClosure(n, form)

(* Arms, handlers, receives and closures keep it.                            *)
LEMMA BinderKeeps ==
  ASSUME NamesInv, NEW n \in Name, Binder(n)
  PROVE  NamesInv'
<1>1. \E by \in {"arm", "catch", "recv", "param"}, k \in {1, 2}, m \in {0, 1}, tail, inlined \in BOOLEAN :
        Binds(by, n, k, m, tail, inlined)
  <2>1. ASSUME NEW by \in {"arm", "catch", "recv", "param"}
        PROVE  blocks \o <<Body!Holding(Body!Binding(by, n, locals + 1))>>
                 = blocks \o <<Body!Holding(Body!Binding(by, n, locals + 1))>> \o Body!Bare(0)
    <3>1. PICK b \in [by : LocalKinds, name : Name, no : Nat] : b = Body!Binding(by, n, locals + 1)
      BY CountsLocals DEF Body!Binding, LocalKinds
    <3>2. PICK h \in Frames : h = Body!Holding(b)
      BY HoldingFrame, BlocksAreFrames
    <3>3. blocks \o <<h>> \in Seq(Frames)
      BY <3>2, CountsLocals
    <3> QED  BY <3>1, <3>2, <3>3, NoBareFrames
  <2>2. ASSUME NEW t \in BOOLEAN, Body!OpenArm(n, t)
        PROVE  Binds("arm", n, 1, 0, t, t) \/ Binds("arm", n, 1, 1, t, t)
    <3>n. 1 + 1 = 2 /\ 0 + 1 = 1
      OBVIOUS
    <3>1. CASE t
      <4>1. Binds("arm", n, 1, 0, t, t)
        BY <2>2, <3>1, <3>n DEF Body!OpenArm, Body!CanBind, Binds
      <4> QED  BY <4>1
    <3>2. CASE ~t
      <4>1. Binds("arm", n, 1, 1, t, t)
        BY <2>2, <3>2, <3>n DEF Body!OpenArm, Body!CanBind, Binds
      <4> QED  BY <4>1
    <3> QED  BY <3>1, <3>2
  <2>3. ASSUME NEW by \in {"catch", "recv"}, Body!OpenMerged(by, n)
        PROVE  Binds(by, n, 1, 0, FALSE, FALSE)
    <3>n. 1 + 1 = 2 /\ 0 + 1 = 1 /\ by # "arm"
      BY <2>3
    <3> QED  BY <2>1, <2>3, <3>n DEF Body!OpenMerged, Body!CanBind, Binds
  <2>n. 1 + 1 = 2 /\ 0 + 1 = 1 /\ 2 + 1 = 3
    OBVIOUS
  <2>4. ASSUME NEW form \in {"full", "short unit", "short value"}, Body!OpenClosure(n, form)
        PROVE  \/ Binds("param", n, 1, 0, TRUE, FALSE)
               \/ Binds("param", n, 2, 0, FALSE, FALSE)
               \/ Binds("param", n, 2, 1, FALSE, FALSE)
    <3>b. blocks \o <<Body!Holding(Body!Binding("param", n, locals + 1))>>
            = blocks \o <<Body!Holding(Body!Binding("param", n, locals + 1))>> \o Body!Bare(0)
      BY <2>1
    <3>1. CASE form = "full"
      <4>1. Binds("param", n, 1, 0, TRUE, FALSE)
        BY <2>4, <3>1, <2>n, <3>b DEF Body!OpenClosure, Body!CanBind, Binds
      <4> QED  BY <4>1
    <3>2. CASE form = "short unit"
      <4>1. Binds("param", n, 2, 0, FALSE, FALSE)
        BY <2>4, <3>2, <2>n, <3>b DEF Body!OpenClosure, Body!CanBind, Binds
      <4> QED  BY <4>1
    <3>3. CASE form = "short value"
      <4>1. Binds("param", n, 2, 1, FALSE, FALSE)
        BY <2>4, <3>3, <2>n DEF Body!OpenClosure, Body!CanBind, Binds
      <4> QED  BY <4>1
    <3> QED  BY <3>1, <3>2, <3>3
  <2> QED  BY <2>2, <2>3, <2>4 DEF Binder, Body!OpenCatch, Body!OpenReceive
<1>0. PICK by \in {"arm", "catch", "recv", "param"}, k \in {1, 2}, m \in {0, 1},
           tail \in BOOLEAN, inlined \in BOOLEAN : Binds(by, n, k, m, tail, inlined)
  BY <1>1
<1>2. UNCHANGED <<world, uses, Body!flags, collided, unread>> /\ locals' = locals + 1
  BY DEF Binder, Body!OpenArm, Body!OpenCatch, Body!OpenReceive, Body!OpenMerged, Body!OpenClosure, Body!CanBind
<1>3. used' = used /\ predicated' = predicated
  BY <1>2 DEF Body!flags
<1>4. PICK e : e = Body!Opened(k + 1, m + 1, tail, inlined)
  OBVIOUS
<1>5. Enters(e) /\ e.scopes = k + 1 /\ e.blocks = m + 1 /\ e.inlined = inlined
  <2>1. k + 1 \in Nat /\ m + 1 \in Nat /\ m + 1 >= 1 /\ locals' \in Nat /\ locals <= locals'
    BY <1>2, CountsLocals
  <2> QED  BY <1>0, <1>2, <1>3, <1>4, <2>1, PlainEntry DEF Binds
<1>6. PICK b \in [by : LocalKinds, name : Name, no : Nat] :
          b = Body!Binding(by, n, locals + 1) /\ b.by = by /\ b.no > locals /\ b.no <= locals'
  <2>1. PICK last \in Nat : last = locals
    BY CountsLocals
  <2>2. PICK b \in [by : LocalKinds, name : Name, no : Nat] : b = [by |-> by, name |-> n, no |-> last + 1]
    <3>1. by \in LocalKinds /\ last + 1 \in Nat
      BY DEF LocalKinds
    <3> QED  BY <3>1
  <2>3. b.by = by /\ b.no = last + 1
    BY <2>2
  <2>4. b.no > last /\ b.no <= last + 1
    BY <2>3
  <2> QED  BY <2>1, <2>2, <2>3, <2>4, <1>2 DEF Body!Binding
<1>7. PICK fs, gs : Deepens(fs, gs, e) /\ \A i \in DOMAIN gs, v \in Name : gs[i][v] \in {b, Body!Nothing}
  <2>1. Typed
    BY DEF NamesInv
  <2>2. e.inlined \/ m = 1 \/ b.by \in {"param", "catch", "recv", "element"}
    BY <1>0, <1>5, <1>6 DEF Binds
  <2>3. b.by \notin {"let", "var", "tuple"}
    BY <1>6
  <2>4. /\ scopes' = scopes \o <<Body!Holding(b)>> \o Body!Bare(k)
        /\ blocks' = blocks \o <<Body!Holding(b)>> \o Body!Bare(m)
    BY <1>0, <1>6 DEF Binds
  <2> QED  BY <1>5, <1>6, <2>1, <2>2, <2>3, <2>4, OpensHolding
<1>8. Marks(gs, e)
  <2>1. \A i \in DOMAIN gs, v \in Name : gs[i][v].by \notin {"counter", "key"}
    BY <1>6, <1>7, NothingIsNone
  <2>2. uses' \in Nat
    BY <1>2, CountsLocals
  <2> QED  BY <1>2, <2>1, <2>2, QuietMarks
<1> QED  BY <1>7, <1>8, DeepKeeps

-----------------------------------------------------------------------------
(* Bare frames hide nothing.                                                 *)
LEMMA SeesBare ==
  ASSUME NEW chain \in Seq(Frames), NEW n \in Name, NEW b, Sees(chain, Len(chain), n, b)
  PROVE  Sees(chain \o Body!Bare(1), Len(chain \o Body!Bare(1)), n, b)
<1>1. PICK bare \in Seq(Blocks) : bare = Body!Bare(1) /\ Len(bare) = 1 /\ bare[1] = Body!Empty
  <2>1. 1 \in Nat /\ 1 \in 1..1
    OBVIOUS
  <2> QED  BY <2>1, BareFrames
<1>2. PICK k \in Nat : k = Len(chain)
  OBVIOUS
<1>3. PICK longer : longer = chain \o bare
  OBVIOUS
<1>4. Len(longer) = k + 1 /\ longer[k + 1] = Body!Empty /\ \A i \in 1..k : longer[i] = chain[i]
  BY <1>1, <1>2, <1>3
<1>5. Sees(longer, k, n, b)
  BY <1>2, <1>4, SeesSame
<1>6. \A l \in (k + 1)..(k + 1) : longer[l][n] = Body!Nothing
  BY <1>4, EmptyFrame
<1>7. 1 \in Nat
  OBVIOUS
<1>8. Sees(longer, k + 1, n, b)
  BY <1>5, <1>6, <1>7, SeesDeeper
<1> QED  BY <1>1, <1>3, <1>4, <1>8

LoopOf(s, k) == Body!Opened(s, k, FALSE, FALSE)

(* The entry of a loop, whose invariant is looked up in a chain that the     *)
(* body's scope is appended to.                                              *)
LoopOpens(s, k, i, chain, sym, e) ==
  /\ Body!CanOpen
  /\ sym = Body!Lookup(chain, i)
  /\ i # Body!NoName => sym \in Bindings /\ Sound(world', locals', sym, i)
  /\ Body!Labelled(LoopOf(s, k), chain, i)
  /\ e = Body!Predicate(LoopOf(s, k), chain, i)
  /\ scopes' = chain \o Body!Bare(1)
  /\ world' = world /\ used \subseteq used' /\ locals' \in Nat /\ locals <= locals'

LoopEntered(s, k, i, sym, e) ==
  /\ Enters(e) /\ e.scopes = s /\ e.blocks = k /\ ~e.inlined
  /\ e.invariant = i /\ (i # Body!NoName => e.symbol = sym /\ sym \in Bindings)
  /\ predicated' = predicated \cup (IF i = Body!NoName THEN {} ELSE {sym})

(* The entry of a labelled loop: its invariant is resolved inside of it.     *)
LEMMA LoopEntry ==
  ASSUME NamesInv, NEW s \in Nat, NEW k \in Nat, k >= 1,
         NEW i \in Name \cup {Body!NoName}, NEW chain \in Seq(Frames), NEW sym, NEW e,
         LoopOpens(s, k, i, chain, sym, e)
  PROVE  LoopEntered(s, k, i, sym, e)
<1> USE DEF LoopOpens
<1>1. PICK o : o = LoopOf(s, k)
  OBVIOUS
<1>2. /\ o = [scopes |-> s, blocks |-> k, tail |-> FALSE, inlined |-> FALSE, ended |-> FALSE,
              invariant |-> Body!NoName, symbol |-> Body!Nothing]
  BY <1>1 DEF Body!Opened, LoopOf
<1>3. PICK g : g = IF i = Body!NoName THEN Body!Nothing ELSE sym
  OBVIOUS
<1>4. g \in Bindings \cup {Body!Nothing}
  BY <1>3
<1>5. e = [o EXCEPT !.invariant = i, !.symbol = g]
  BY <1>1, <1>3 DEF Body!Predicate
<1>6. e = [scopes |-> s, blocks |-> k, tail |-> FALSE, inlined |-> FALSE, ended |-> FALSE,
           invariant |-> i, symbol |-> g]
  BY <1>2, <1>5
<1>7. e \in Loops
  BY <1>4, <1>6 DEF Loops
<1>8. /\ e.scopes = s /\ e.blocks = k /\ ~e.inlined /\ ~e.ended /\ ~e.tail
      /\ e.invariant = i /\ e.symbol = g
  BY <1>6
<1>9. /\ open' = Append(open, e)
      /\ predicated' = IF i = Body!NoName THEN predicated ELSE predicated \cup {sym}
      /\ i # Body!NoName => Body!Outside(world.outer, "field") = {} /\ sym # Body!Nothing
  BY DEF Body!Labelled, Body!CanPredicate
<1>10. i # Body!NoName => Sees(scopes', Len(scopes'), i, sym)
  <2> SUFFICES ASSUME i # Body!NoName  PROVE Sees(scopes', Len(scopes'), i, sym)
    OBVIOUS
  <2>1. i \in Name
    OBVIOUS
  <2>2. Sees(chain, Len(chain), i, sym)
    BY <2>1, <1>9, SeesIsLookup
  <2> QED  BY <2>1, <2>2, SeesBare
<1>11. Enters(e)
  BY <1>3, <1>7, <1>8, <1>9, <1>10 DEF Enters
<1> QED  BY <1>3, <1>8, <1>9, <1>11 DEF LoopEntered

(* What a loop's invariant marks.                                            *)
LEMMA LoopMarks ==
  ASSUME NamesInv, NEW i, NEW sym, NEW e, e.invariant = i,
         i # Body!NoName => e.symbol = sym /\ sym \in Bindings /\ Sound(world', locals', sym, i),
         predicated' = predicated \cup (IF i = Body!NoName THEN {} ELSE {sym}),
         used' = used, assigned' = assigned, read' = read, astray' = astray,
         collided' = collided, unread' = unread, uses' = uses,
         NEW gs, \A q \in DOMAIN gs, n \in Name : gs[q][n].by \notin {"counter", "key"}
  PROVE  Marks(gs, e)
<1>1. predicated' \in SUBSET Bindings
  BY DEF NamesInv, Typed
<1>2. \A b \in predicated' : \/ b \in predicated
                             \/ b.no <= locals' /\ e.invariant # Body!NoName /\ b = e.symbol
  BY DEF Sound
<1> QED  BY <1>1, <1>2 DEF Marks, NamesInv, Typed

(* A `while` loop keeps the invariant.                                       *)
LEMMA WhileKeeps ==
  ASSUME NamesInv, NEW i \in Name \cup {Body!NoName}, Body!OpenWhile(i)
  PROVE  NamesInv'
<1>1. /\ Body!CanOpen /\ Body!CanGrow
      /\ Body!Labelled(LoopOf(1, 1), scopes, i)
      /\ scopes' = scopes \o Body!Bare(1) /\ blocks' = blocks \o Body!Bare(1)
      /\ world' = world /\ locals' = locals /\ uses' = uses /\ used' = used /\ assigned' = assigned
      /\ read' = read /\ astray' = astray /\ collided' = collided /\ unread' = unread
  BY DEF Body!OpenWhile, Body!CanOpen, LoopOf
<1>2. PICK sym : sym = Body!Lookup(scopes, i)
  OBVIOUS
<1>3. i # Body!NoName => sym \in Bindings /\ Sound(world', locals', sym, i)
  <2> SUFFICES ASSUME i # Body!NoName  PROVE sym \in Bindings /\ Sound(world', locals', sym, i)
    OBVIOUS
  <2>1. i \in Name /\ sym = Body!Resolve(i) /\ sym # Body!Nothing
    BY <1>1, <1>2 DEF Body!Resolve, Body!Labelled, Body!CanPredicate
  <2>2. sym \in Bindings /\ Sound(world, locals, sym, i)
    BY <1>1, <2>1, Reached
  <2> QED  BY <1>1, <2>2
<1>4. PICK e : e = Body!Predicate(LoopOf(1, 1), scopes, i)
  OBVIOUS
<1>5. /\ Enters(e) /\ e.scopes = 1 /\ e.blocks = 1 /\ ~e.inlined
      /\ e.invariant = i /\ (i # Body!NoName => e.symbol = sym /\ sym \in Bindings)
      /\ predicated' = predicated \cup (IF i = Body!NoName THEN {} ELSE {sym})
  <2>1. 1 \in Nat /\ 1 >= 1 /\ locals' \in Nat /\ locals <= locals' /\ used \subseteq used' /\ scopes \in Seq(Frames)
    BY <1>1, CountsLocals
  <2>2. LoopOpens(1, 1, i, scopes, sym, e)
    BY <2>1, <1>1, <1>2, <1>3, <1>4 DEF LoopOpens
  <2>3. LoopEntered(1, 1, i, sym, e)
    BY <2>1, <2>2, LoopEntry
  <2> QED  BY <2>3 DEF LoopEntered
<1>6. PICK fs, gs : fs = Body!Bare(1) /\ gs = Body!Bare(1)
  OBVIOUS
<1>7. Deepens(fs, gs, e)
  <2>1. Typed /\ 1 \in {0, 1}
    BY DEF NamesInv
  <2> QED  BY <1>1, <1>5, <1>6, <2>1, OpensBare
<1>8. \A q \in DOMAIN gs, n \in Name : gs[q][n].by \notin {"counter", "key"}
  <2>1. 1 \in Nat
    OBVIOUS
  <2>2. gs \in Seq(Blocks) /\ Len(gs) = 1 /\ \A q \in 1..1 : gs[q] = Body!Empty
    BY <1>6, <2>1, BareFrames
  <2>3. \A q \in DOMAIN gs : gs[q] = Body!Empty
    BY <2>2
  <2> QED  BY <2>3, EmptyFrame, NothingIsNone
<1>9. Marks(gs, e)
  BY <1>1, <1>3, <1>5, <1>8, LoopMarks
<1> QED  BY <1>7, <1>9, DeepKeeps

(* A `for` over a collection keeps it.                                       *)
LEMMA ForKeeps ==
  ASSUME NamesInv, NEW n \in Name, NEW i \in Name \cup {Body!NoName}, Body!OpenFor(n, i)
  PROVE  NamesInv'
<1>0. PICK last \in Nat : last = locals
  BY CountsLocals
<1>b. PICK b \in [by : LocalKinds, name : Name, no : Nat] :
         /\ b = Body!Binding("loop", n, locals + 1)
         /\ b.by = "loop" /\ b.name = n /\ b.no = last + 1
  <2>1. PICK b \in [by : LocalKinds, name : Name, no : Nat] : b = [by |-> "loop", name |-> n, no |-> last + 1]
    <3>1. "loop" \in LocalKinds /\ last + 1 \in Nat
      BY DEF LocalKinds
    <3> QED  BY <3>1
  <2> QED  BY <2>1, <1>0 DEF Body!Binding
<1>f. PICK inside : inside = Append(scopes, Body!Holding(b))
  OBVIOUS
<1>1. /\ Body!CanOpen /\ Body!CanGrow
      /\ Body!Labelled(LoopOf(2, 2), inside, i)
      /\ scopes' = inside \o Body!Bare(1)
      /\ blocks' = blocks \o <<Body!Holding(b)>> \o Body!Bare(1)
      /\ world' = world /\ locals' = last + 1 /\ uses' = uses /\ used' = used /\ assigned' = assigned
      /\ read' = read /\ astray' = astray /\ collided' = collided /\ unread' = unread
  BY <1>0, <1>b, <1>f DEF Body!OpenFor, Body!CanBind, Body!CanOpen, LoopOf
<1>g. inside = scopes \o <<Body!Holding(b)>> /\ inside \in Seq(Frames)
  <2>1. PICK f \in Frames : f = Body!Holding(b)
    BY HoldingFrame, BlocksAreFrames
  <2> QED  BY <2>1, <1>f, CountsLocals
<1>2. PICK sym : sym = Body!Lookup(inside, i)
  OBVIOUS
<1>3. i # Body!NoName => sym \in Bindings /\ Sound(world', locals', sym, i)
  <2> SUFFICES ASSUME i # Body!NoName  PROVE sym \in Bindings /\ Sound(world', locals', sym, i)
    OBVIOUS
  <2>1. i \in Name /\ sym # Body!Nothing
    BY <1>1, <1>2 DEF Body!Labelled, Body!CanPredicate
  <2>2. sym = IF i = b.name THEN b ELSE Body!Lookup(scopes, i)
    BY <2>1, <1>2, <1>f, CountsLocals, InsideLookup
  <2>3. CASE i = n
    <3>1. sym = b
      BY <2>2, <2>3, <1>b
    <3>2. b \in Bindings /\ last + 1 <= last + 1
      BY DEF Bindings
    <3> QED  BY <3>1, <3>2, <1>1, <1>b DEF Sound
  <2>4. CASE i # n
    <3>1. sym = Body!Resolve(i)
      BY <2>2, <2>4, <1>b DEF Body!Resolve
    <3>2. sym \in Bindings /\ Sound(world, locals, sym, i)
      BY <1>1, <2>1, <3>1, Reached
    <3>3. sym.no \in Nat
      BY <3>2 DEF Bindings
    <3>4. sym.no <= last + 1
      BY <3>2, <3>3, <1>0 DEF Sound
    <3> QED  BY <3>2, <3>4, <1>1 DEF Sound
  <2> QED  BY <2>3, <2>4
<1>4. PICK e : e = Body!Predicate(LoopOf(2, 2), inside, i)
  OBVIOUS
<1>5. /\ Enters(e) /\ e.scopes = 2 /\ e.blocks = 2 /\ ~e.inlined
      /\ e.invariant = i /\ (i # Body!NoName => e.symbol = sym /\ sym \in Bindings)
      /\ predicated' = predicated \cup (IF i = Body!NoName THEN {} ELSE {sym})
  <2>1. 2 \in Nat /\ 2 >= 1 /\ locals' \in Nat /\ locals <= locals' /\ used \subseteq used'
    BY <1>0, <1>1
  <2>2. LoopOpens(2, 2, i, inside, sym, e)
    BY <2>1, <1>1, <1>2, <1>3, <1>4 DEF LoopOpens
  <2>3. LoopEntered(2, 2, i, sym, e)
    BY <2>1, <2>2, <1>g, LoopEntry
  <2> QED  BY <2>3 DEF LoopEntered
<1>7. PICK fs, gs : Deepens(fs, gs, e) /\ \A q \in DOMAIN gs, v \in Name : gs[q][v] \in {b, Body!Nothing}
  <2>1. Typed /\ 1 \in {0, 1} /\ 1 \in {1, 2} /\ 1 + 1 = 2
    BY DEF NamesInv
  <2>2. b.by \notin {"let", "var", "tuple"} /\ b.no > locals /\ b.no <= locals'
    BY <1>0, <1>1, <1>b
  <2>3. scopes' = scopes \o <<Body!Holding(b)>> \o Body!Bare(1)
    BY <1>1, <1>g
  <2> QED  BY <1>1, <1>5, <2>1, <2>2, <2>3, OpensHolding
<1>8. \A q \in DOMAIN gs, v \in Name : gs[q][v].by \notin {"counter", "key"}
  BY <1>b, <1>7, NothingIsNone
<1>9. Marks(gs, e)
  BY <1>1, <1>3, <1>5, <1>8, LoopMarks
<1> QED  BY <1>7, <1>9, DeepKeeps

(* The entry of a loop without an invariant.                                 *)
LEMMA BareLoopEntry ==
  ASSUME NamesInv, Body!CanOpen, NEW e, e = LoopOf(2, 2), open' = Append(open, e),
         world' = world, used \subseteq used', predicated \subseteq predicated',
         locals' \in Nat, locals <= locals'
  PROVE  Enters(e) /\ e.scopes = 2 /\ e.blocks = 2 /\ ~e.inlined
<1>1. e = [scopes |-> 2, blocks |-> 2, tail |-> FALSE, inlined |-> FALSE, ended |-> FALSE,
           invariant |-> Body!NoName, symbol |-> Body!Nothing]
  BY DEF LoopOf, Body!Opened
<1>2. e \in Loops
  <2>1. PICK two \in Nat, no \in BOOLEAN : two = 2 /\ no = FALSE
    OBVIOUS
  <2>2. PICK symbol, none : symbol = Body!Nothing /\ none = Body!NoName
    OBVIOUS
  <2>3. e = [scopes |-> two, blocks |-> two, tail |-> no, inlined |-> no, ended |-> no,
             invariant |-> none, symbol |-> symbol]
    BY <1>1, <2>1, <2>2
  <2>4. none \in Name \cup {Body!NoName} /\ symbol \in Bindings \cup {Body!Nothing}
    BY <2>2
  <2> QED  BY <2>3, <2>4 DEF Loops
<1>3. e.scopes = 2 /\ e.blocks = 2 /\ ~e.inlined /\ ~e.ended /\ e.invariant = Body!NoName
  BY <1>1
<1> QED  BY <1>2, <1>3 DEF Enters

(* A `for` over a range keeps it.                                            *)
LEMMA RangeKeeps ==
  ASSUME NamesInv, NEW n \in Name, NEW h \in Name \cup {Body!NoName}, Body!OpenRange(n, h)
  PROVE  NamesInv'
<1>0. PICK last \in Nat : last = locals
  BY CountsLocals
<1>b. PICK b \in [by : LocalKinds, name : Name, no : Nat] :
         /\ b = Body!Binding("counter", n, locals + 1)
         /\ b.by = "counter" /\ b.name = n /\ b.no = last + 1
  <2>1. PICK b \in [by : LocalKinds, name : Name, no : Nat] : b = [by |-> "counter", name |-> n, no |-> last + 1]
    <3>1. "counter" \in LocalKinds /\ last + 1 \in Nat
      BY DEF LocalKinds
    <3> QED  BY <3>1
  <2> QED  BY <2>1, <1>0 DEF Body!Binding
<1>f. PICK inside : inside = Append(blocks, Body!Holding(b))
  OBVIOUS
<1>s. PICK sym : sym = Body!Resolve(h)
  OBVIOUS
<1>go. PICK go, strays : go = Body!Emitted(h, sym, inside) /\ strays = Body!Strays(h, sym, inside, "bound")
  OBVIOUS
<1>e. PICK e : e = LoopOf(2, 2)
  OBVIOUS
<1>1. /\ Body!CanOpen /\ Body!CanGrow
      /\ h # Body!NoName => sym # Body!Nothing
      /\ scopes' = scopes \o <<Body!Holding(b)>> \o Body!Bare(1)
      /\ blocks' = inside \o Body!Bare(1)
      /\ open' = Append(open, e)
      /\ used' = IF h = Body!NoName THEN used ELSE used \cup {sym}
      /\ read' = read \cup {b} \cup (IF h = Body!NoName THEN {} ELSE {go})
      /\ astray' = astray \cup (IF h = Body!NoName THEN {} ELSE strays)
      /\ uses' = IF h = Body!NoName THEN uses ELSE uses + 1
      /\ world' = world /\ locals' = last + 1 /\ predicated' = predicated /\ assigned' = assigned
      /\ collided' = collided /\ unread' = unread
  BY <1>0, <1>b, <1>f, <1>s, <1>go, <1>e DEF Body!OpenRange, Body!CanBind, Body!CanOpen, LoopOf
<1>g. inside = blocks \o <<Body!Holding(b)>>
  <2>1. PICK f \in Frames : f = Body!Holding(b)
    BY HoldingFrame, BlocksAreFrames
  <2> QED  BY <2>1, <1>f, CountsLocals
<1>2. h # Body!NoName => /\ sym \in Bindings /\ Sound(world, locals, sym, h)
                         /\ (go = sym \/ \E use \in strays : use.aril = sym)
                         /\ \A use \in strays : RightStray(use)
  <2> SUFFICES ASSUME h # Body!NoName
               PROVE  /\ sym \in Bindings /\ Sound(world, locals, sym, h)
                      /\ (go = sym \/ \E use \in strays : use.aril = sym)
                      /\ \A use \in strays : RightStray(use)
    OBVIOUS
  <2>1. h \in Name /\ sym # Body!Nothing
    BY <1>1
  <2>2. sym \in Bindings /\ Sound(world, locals, sym, h)
    BY <2>1, <1>1, <1>s, Reached
  <2>3. go = sym \/ \E use \in strays : use.aril = sym
    BY <2>1, <2>2, <1>go, Emission
  <2>4. \A use \in Body!Strays(h, sym, Append(blocks, Body!Holding(b)), "bound") : RightStray(use)
    BY <2>1, <1>1, <1>s, <1>b, InsideEmission
  <2> QED  BY <2>2, <2>3, <2>4, <1>f, <1>go
<1>5. Enters(e) /\ e.scopes = 2 /\ e.blocks = 2 /\ ~e.inlined
  <2>1. 2 \in Nat /\ 2 >= 1 /\ locals' \in Nat /\ locals <= locals' /\ FALSE \in BOOLEAN
    BY <1>0, <1>1
  <2>2. world' = world /\ used \subseteq used' /\ predicated \subseteq predicated'
    BY <1>1
  <2> QED  BY <1>1, <1>e, <2>1, <2>2, BareLoopEntry
<1>7. PICK fs, gs : Deepens(fs, gs, e) /\ \A q \in DOMAIN gs, v \in Name : gs[q][v] \in {b, Body!Nothing}
  <2>1. Typed /\ 1 \in {0, 1} /\ 1 \in {1, 2} /\ 1 + 1 = 2
    BY DEF NamesInv
  <2>2. b.by \notin {"let", "var", "tuple"} /\ b.no > locals /\ b.no <= locals'
    BY <1>0, <1>1, <1>b
  <2>3. blocks' = blocks \o <<Body!Holding(b)>> \o Body!Bare(1)
    BY <1>1, <1>g
  <2> QED  BY <1>1, <1>5, <2>1, <2>2, <2>3, OpensHolding
<1>8. \A q \in DOMAIN gs, v \in Name : gs[q][v].by \in {"counter", "key"} => gs[q][v] \in read'
  BY <1>1, <1>7, NothingIsNone
<1>9. Marks(gs, e)
  <2>1. used' \in SUBSET Bindings /\ predicated' \in SUBSET Bindings /\ uses' \in Nat
    BY <1>1, <1>2 DEF NamesInv, Typed
  <2>2. \A v \in used' : v \in used \/ (v.no <= locals /\ Excused(v)')
    BY <1>1, <1>2 DEF Sound, Excused
  <2>3. \A use \in astray' : use \in astray \/ RightStray(use)
    BY <1>1, <1>2
  <2> QED  BY <1>1, <1>8, <2>1, <2>2, <2>3 DEF Marks
<1> QED  BY <1>7, <1>9, DeepKeeps

(* The loop over a map: the key is bound by Go's loop, the value at the      *)
(* start of its body.                                                        *)
LEMMA OpensEntries ==
  ASSUME Typed, NEW e, Enters(e), e.scopes = 2, e.blocks = 2,
         NEW key \in [by : LocalKinds, name : Name, no : Nat],
         NEW val \in [by : LocalKinds, name : Name, no : Nat],
         key.by = "key", val.by = "element", key.name # val.name,
         key.no > locals, val.no > locals, key.no <= locals', val.no <= locals',
         scopes' = scopes \o <<[Body!Holding(key) EXCEPT ![val.name] = val], Body!Empty>>,
         blocks' = Append(blocks, Body!Holding(key)) \o <<Body!Holding(val)>>
  PROVE  \E fs, gs : /\ Deepens(fs, gs, e)
                     /\ \A i \in DOMAIN gs, n \in Name : gs[i][n] \in {key, val, Body!Nothing}
<1>1. PICK f \in Blocks : f = Body!Holding(key) /\ \A n \in Name : f[n] = IF n = key.name THEN key ELSE Body!Nothing
  BY HoldingFrame
<1>2. PICK g \in Blocks : g = Body!Holding(val) /\ \A n \in Name : g[n] = IF n = val.name THEN val ELSE Body!Nothing
  BY HoldingFrame
<1>3. PICK both : both = [Body!Holding(key) EXCEPT ![val.name] = val]
  OBVIOUS
<1>4. /\ both \in Frames
      /\ \A n \in Name : both[n] = IF n = val.name THEN val ELSE f[n]
  <2>1. both = [f EXCEPT ![val.name] = val] /\ val.name \in Name
    BY <1>1, <1>3
  <2>2. f \in [Name -> [by : LocalKinds, name : Name, no : Nat] \cup {Body!Nothing}]
    BY DEF Blocks
  <2>3. both \in [Name -> [by : LocalKinds, name : Name, no : Nat] \cup {Body!Nothing}]
    BY <2>1, <2>2
  <2>4. \A n \in Name : both[n] = IF n = val.name THEN val ELSE f[n]
    BY <2>1, <2>2
  <2> QED  BY <2>3, <2>4, BlocksAreFrames DEF Blocks
<1>5. PICK em \in Blocks : em = Body!Empty /\ \A n \in Name : em[n] = Body!Nothing
  BY EmptyFrame
<1>6. PICK fs, gs : fs = <<both, em>> /\ gs = <<f, g>>
  OBVIOUS
<1>7. /\ fs \in Seq(Frames) /\ gs \in Seq(Blocks) /\ Len(fs) = 2 /\ Len(gs) = 2
      /\ fs[1] = both /\ fs[2] = em /\ gs[1] = f /\ gs[2] = g
      /\ DOMAIN fs = 1..2 /\ DOMAIN gs = 1..2
  <2>1. em \in Frames
    BY BlocksAreFrames
  <2> QED  BY <2>1, <1>4, <1>6
<1>8. scopes' = scopes \o fs /\ blocks' = blocks \o gs
  <2>1. scopes' = scopes \o fs
    BY <1>3, <1>5, <1>6
  <2>2. PICK old \in Seq(Blocks) : old = blocks
    BY DEF Typed
  <2>3. Append(old, f) \o <<g>> = old \o <<f, g>>
    OBVIOUS
  <2> QED  BY <2>1, <2>2, <2>3, <1>1, <1>2, <1>6
<1>9. \A i \in 1..2 : i = 1 \/ i = 2
  OBVIOUS
<1>10. /\ \A i \in 1..2, n \in Name : fs[i][n] \in {key, val, Body!Nothing}
       /\ \A i \in 1..2, n \in Name : gs[i][n] \in {key, val, Body!Nothing}
  <2>1. \A n \in Name : /\ both[n] \in {key, val, Body!Nothing} /\ em[n] \in {key, val, Body!Nothing}
                       /\ f[n] \in {key, val, Body!Nothing} /\ g[n] \in {key, val, Body!Nothing}
    BY <1>1, <1>2, <1>4, <1>5
  <2>2. ASSUME NEW i \in 1..2, NEW n \in Name
        PROVE  fs[i][n] \in {key, val, Body!Nothing} /\ gs[i][n] \in {key, val, Body!Nothing}
    <3>1. CASE i = 1
      BY <2>1, <3>1, <1>7
    <3>2. CASE i = 2
      BY <2>1, <3>2, <1>7
    <3> QED  BY <3>1, <3>2
  <2> QED  BY <2>2
<1>11. NewFrames(fs) /\ NewFrames(gs)
  BY <1>7, <1>10 DEF NewFrames
<1>12. AlikeFrames(fs, gs)
  <2> SUFFICES ASSUME NEW n \in Name
               PROVE  /\ \A c : Sees(fs, 2, n, c) => Sees(gs, 2, n, c)
                      /\ Hidden(fs, 2, n) => Hidden(gs, 2, n)
                      /\ \A i \in DOMAIN gs : gs[i][n].by \notin {"let", "var", "tuple"}
    BY <1>7 DEF AlikeFrames
  <2>1. \A i \in DOMAIN gs : gs[i][n].by \notin {"let", "var", "tuple"}
    BY <1>7, <1>10, NothingIsNone
  <2>2. (1 + 1)..2 = {2} /\ (2 + 1)..2 = {} /\ 1 \in 1..2 /\ 2 \in 1..2
    OBVIOUS
  <2>3. ASSUME NEW c, Sees(fs, 2, n, c)
        PROVE  Sees(gs, 2, n, c)
    <3>1. c # Body!Nothing /\ \E i \in 1..2 : fs[i][n] = c
      BY <2>3 DEF Sees
    <3>2. both[n] = c
      BY <3>1, <1>5, <1>7, <1>9
    <3>3. CASE n = val.name
      <4>1. gs[2][n] = c
        BY <3>2, <3>3, <1>2, <1>4, <1>7
      <4> QED  BY <4>1, <3>1, <2>2 DEF Sees
    <3>4. CASE n # val.name
      <4>1. gs[2][n] = Body!Nothing /\ gs[1][n] = c
        BY <3>2, <3>4, <1>2, <1>4, <1>7
      <4> QED  BY <4>1, <3>1, <2>2 DEF Sees
    <3> QED  BY <3>3, <3>4
  <2>4. ASSUME Hidden(fs, 2, n)
        PROVE  Hidden(gs, 2, n)
    <3>1. both[n] = Body!Nothing
      BY <2>2, <2>4, <1>7 DEF Hidden
    <3>2. n # val.name
      <4>1. val # Body!Nothing
        BY NothingIsNone
      <4> QED  BY <4>1, <3>1, <1>4
    <3>3. gs[1][n] = Body!Nothing /\ gs[2][n] = Body!Nothing
      BY <3>1, <3>2, <1>2, <1>4, <1>7
    <3> QED  BY <3>3, <1>9 DEF Hidden
  <2> QED  BY <2>1, <2>3, <2>4
<1>13. SameFrames(fs, gs)
  <2>1. \A n \in Name : gs[2][n] # Body!Nothing => gs[2][n].by = "element"
    BY <1>2, <1>7
  <2> QED  BY <2>1, <1>7 DEF SameFrames
<1>14. e.scopes = Len(fs) /\ e.blocks = Len(gs) /\ Len(fs) >= 1 /\ Len(gs) >= 1
  BY <1>7
<1>15. Deepens(fs, gs, e)
  BY <1>7, <1>8, <1>11, <1>12, <1>13, <1>14 DEF Deepens, Enters
<1> QED  BY <1>7, <1>10, <1>15

(* A `for` over a map's entries keeps it.                                    *)
LEMMA EntriesKeeps ==
  ASSUME NamesInv, NEW k \in Name, NEW v \in Name, NEW m \in Name, Body!OpenEntries(k, v, m)
  PROVE  NamesInv'
<1>0. PICK last \in Nat : last = locals
  BY CountsLocals
<1>b. PICK key \in [by : LocalKinds, name : Name, no : Nat] :
         /\ key = Body!Binding("key", k, locals + 1)
         /\ key.by = "key" /\ key.name = k /\ key.no = last + 1
  <2>1. PICK b \in [by : LocalKinds, name : Name, no : Nat] : b = [by |-> "key", name |-> k, no |-> last + 1]
    <3>1. "key" \in LocalKinds /\ last + 1 \in Nat
      BY DEF LocalKinds
    <3> QED  BY <3>1
  <2> QED  BY <2>1, <1>0 DEF Body!Binding
<1>v. PICK val \in [by : LocalKinds, name : Name, no : Nat] :
         /\ val = Body!Binding("element", v, locals + 2)
         /\ val.by = "element" /\ val.name = v /\ val.no = last + 2
  <2>1. PICK b \in [by : LocalKinds, name : Name, no : Nat] : b = [by |-> "element", name |-> v, no |-> last + 2]
    <3>1. "element" \in LocalKinds /\ last + 2 \in Nat
      BY DEF LocalKinds
    <3> QED  BY <3>1
  <2> QED  BY <2>1, <1>0 DEF Body!Binding
<1>f. PICK inside : inside = Append(blocks, Body!Holding(key))
  OBVIOUS
<1>s. PICK sym : sym = Body!Resolve(m)
  OBVIOUS
<1>go. PICK go, go2, strays, strays2 :
         /\ go = Body!Emitted(m, sym, blocks) /\ strays = Body!Strays(m, sym, blocks, "plain")
         /\ go2 = Body!Emitted(m, sym, inside) /\ strays2 = Body!Strays(m, sym, inside, "map")
  OBVIOUS
<1>e. PICK e : e = LoopOf(2, 2)
  OBVIOUS
<1>1. /\ Body!CanOpen /\ Body!CanGrow /\ k # v /\ sym # Body!Nothing
      /\ scopes' = scopes \o <<[Body!Holding(key) EXCEPT ![v] = val], Body!Empty>>
      /\ blocks' = inside \o <<Body!Holding(val)>>
      /\ open' = Append(open, e)
      /\ used' = used \cup {sym}
      /\ read' = read \cup {key, go, go2}
      /\ astray' = astray \cup strays \cup strays2
      /\ uses' = uses + 1
      /\ world' = world /\ locals' = last + 2 /\ predicated' = predicated /\ assigned' = assigned
      /\ collided' = collided /\ unread' = unread
  BY <1>0, <1>b, <1>v, <1>f, <1>s, <1>go, <1>e DEF Body!OpenEntries, Body!CanOpen, LoopOf
<1>2. /\ sym \in Bindings /\ Sound(world, locals, sym, m)
      /\ (go = sym \/ \E use \in strays : use.aril = sym)
      /\ \A use \in strays \cup strays2 : RightStray(use)
  <2>1. sym \in Bindings /\ Sound(world, locals, sym, m)
    BY <1>1, <1>s, Reached
  <2>2. go = sym \/ \E use \in strays : use.aril = sym
    BY <2>1, <1>go, Emission
  <2>3. \A use \in Body!Strays(m, sym, blocks, "plain") : RightStray(use)
    BY <1>1, <1>s, PlainEmission
  <2>4. \A use \in Body!Strays(m, sym, Append(blocks, Body!Holding(key)), "map") : RightStray(use)
    BY <1>1, <1>s, <1>b, InsideEmission
  <2> QED  BY <2>1, <2>2, <2>3, <2>4, <1>f, <1>go
<1>5. Enters(e) /\ e.scopes = 2 /\ e.blocks = 2 /\ ~e.inlined
  <2>1. 2 \in Nat /\ 2 >= 1 /\ locals' \in Nat /\ locals <= locals' /\ FALSE \in BOOLEAN
    BY <1>0, <1>1
  <2>2. world' = world /\ used \subseteq used' /\ predicated \subseteq predicated'
    BY <1>1
  <2> QED  BY <1>1, <1>e, <2>1, <2>2, BareLoopEntry
<1>7. PICK fs, gs : Deepens(fs, gs, e) /\ \A q \in DOMAIN gs, n \in Name : gs[q][n] \in {key, val, Body!Nothing}
  <2>1. Typed /\ key.name # val.name
    BY <1>1, <1>b, <1>v DEF NamesInv
  <2>2. key.no > locals /\ key.no <= locals' /\ val.no > locals /\ val.no <= locals'
    BY <1>0, <1>1, <1>b, <1>v
  <2>3. /\ scopes' = scopes \o <<[Body!Holding(key) EXCEPT ![val.name] = val], Body!Empty>>
        /\ blocks' = Append(blocks, Body!Holding(key)) \o <<Body!Holding(val)>>
    BY <1>1, <1>v, <1>f
  <2> QED  BY <1>b, <1>v, <1>5, <2>1, <2>2, <2>3, OpensEntries
<1>8. \A q \in DOMAIN gs, n \in Name : gs[q][n].by \in {"counter", "key"} => gs[q][n] \in read'
  BY <1>1, <1>7, <1>v, NothingIsNone
<1>9. Marks(gs, e)
  <2>1. used' \in SUBSET Bindings /\ predicated' \in SUBSET Bindings /\ uses' \in Nat
    BY <1>1, <1>2 DEF NamesInv, Typed
  <2>2. \A u \in used' : u \in used \/ (u.no <= locals /\ Excused(u)')
    BY <1>1, <1>2 DEF Sound, Excused
  <2>3. \A use \in astray' : use \in astray \/ RightStray(use)
    BY <1>1, <1>2
  <2> QED  BY <1>1, <1>8, <2>1, <2>2, <2>3 DEF Marks
<1> QED  BY <1>7, <1>9, DeepKeeps

-----------------------------------------------------------------------------
(* The chain u is the chain with n bound to b in its last frame.             *)
IsPut(u, chain, K, n, b) ==
  /\ Len(u) = K
  /\ \A i \in 1..K : i # K => u[i] = chain[i]
  /\ \A i \in 1..K, v \in Name : u[i][v] = IF i = K /\ v = n THEN b ELSE chain[i][v]

(* Put changes one name of the last frame.                                   *)
LEMMA Putting ==
  ASSUME NEW Y, NEW chain \in Seq([Name -> Y]), NEW K \in Nat, K = Len(chain), K >= 1,
         NEW b \in Y, NEW n \in Name, b.name = n
  PROVE  Body!Put(chain, b) \in Seq([Name -> Y]) /\ IsPut(Body!Put(chain, b), chain, K, n, b)
<1>1. PICK top \in [Name -> Y] : top = chain[K]
  OBVIOUS
<1>2. PICK new \in [Name -> Y] : new = [top EXCEPT ![n] = b] /\ \A v \in Name : new[v] = IF v = n THEN b ELSE top[v]
  <2>1. [top EXCEPT ![n] = b] \in [Name -> Y]
    OBVIOUS
  <2>2. \A v \in Name : [top EXCEPT ![n] = b][v] = IF v = n THEN b ELSE top[v]
    OBVIOUS
  <2> QED  BY <2>1, <2>2
<1>3. PICK u : u = Body!Put(chain, b)
  OBVIOUS
<1>4. u = [chain EXCEPT ![K] = new]
  BY <1>1, <1>2, <1>3 DEF Body!Put
<1>5. u \in Seq([Name -> Y]) /\ Len(u) = K /\ u[K] = new /\ \A i \in 1..K : i # K => u[i] = chain[i]
  BY <1>4
<1>6. \A i \in 1..K, v \in Name : u[i][v] = IF i = K /\ v = n THEN b ELSE chain[i][v]
  BY <1>1, <1>2, <1>5
<1> QED  BY <1>3, <1>5, <1>6 DEF IsPut

(* The positions of the open constructs in the chains.                       *)
LEMMA DepthsWithin ==
  ASSUME NEW L \in Nat, L = Len(open), open \in Seq(Loops), scopes \in Seq(Frames), blocks \in Seq(Blocks),
         NEW S \in Nat, S = Len(scopes), NEW B \in Nat, B = Len(blocks),
         NEW sc \in [0..L -> Nat], NEW bc \in [0..L -> Nat], Depths(sc, bc)
  PROVE  \A j \in 0..L : sc[j] \in 2..S /\ bc[j] \in 1..B
<1>1. /\ sc[0] = 2 /\ bc[0] = 1 /\ sc[L] = S /\ bc[L] = B
      /\ \A i, j \in 0..L : i < j => sc[i] < sc[j] /\ bc[i] <= bc[j]
      /\ \A j \in 0..L : sc[j] \in Nat /\ bc[j] \in Nat
  BY DEF Depths
<1>2. ASSUME NEW j \in 0..L  PROVE sc[j] \in 2..S /\ bc[j] \in 1..B
  <2>0. 0 \in 0..L /\ L \in 0..L
    OBVIOUS
  <2>1. (j = 0 \/ 0 < j) /\ (j = L \/ j < L)
    OBVIOUS
  <2>2. 2 <= sc[j] /\ 1 <= bc[j]
    BY <2>0, <2>1, <1>1
  <2>3. sc[j] <= S /\ bc[j] <= B
    BY <2>0, <2>1, <1>1
  <2> QED  BY <2>2, <2>3, <1>1
<1> QED  BY <1>2

(* A declaration keeps the invariant.                                        *)
LEMMA DeclareKeeps ==
  ASSUME NamesInv, NEW by \in {"let", "var", "chan", "tuple"}, NEW n \in Name, Body!Declare(by, n)
  PROVE  NamesInv'
<1>0. PICK last \in Nat : last = locals
  BY CountsLocals
<1>b. PICK b \in [by : LocalKinds, name : Name, no : Nat] :
         /\ b = Body!Binding(by, n, locals + 1)
         /\ b.by = by /\ b.name = n /\ b.no = last + 1
  <2>1. PICK b \in [by : LocalKinds, name : Name, no : Nat] : b = [by |-> by, name |-> n, no |-> last + 1]
    <3>1. by \in LocalKinds /\ last + 1 \in Nat
      BY DEF LocalKinds
    <3> QED  BY <3>1
  <2> QED  BY <2>1, <1>0 DEF Body!Binding
<1>n. b \in Bindings /\ b # Body!Nothing /\ b.no > locals
  BY <1>0, <1>b, NothingIsNone DEF Bindings
<1>1. /\ Body!CanGrow
      /\ locals' = last + 1
      /\ scopes[Len(scopes)][n] = Body!Nothing
      /\ scopes' = Body!Put(scopes, b) /\ blocks' = Body!Put(blocks, b)
      /\ collided' = collided \cup Body!Collides(b, blocks[Len(blocks)])
      /\ world' = world /\ open' = open /\ uses' = uses /\ used' = used /\ predicated' = predicated
      /\ assigned' = assigned /\ read' = read /\ astray' = astray /\ unread' = unread
  BY <1>0, <1>b DEF Body!Declare, Body!flags
<1>2. /\ scopes \in Seq(Frames) /\ blocks \in Seq(Blocks) /\ open \in Seq(Loops)
      /\ open # <<>> /\ ~Body!Top.ended
  BY <1>1 DEF NamesInv, Typed, Body!CanGrow
<1>3. PICK L \in Nat : L = Len(open) /\ L >= 1
  BY <1>2
<1>4. PICK S \in Nat : S = Len(scopes)
  BY <1>2
<1>5. PICK B \in Nat : B = Len(blocks)
  BY <1>2
<1>6. PICK sc \in [0..L -> Nat], bc \in [0..L -> Nat] :
           Depths(sc, bc) /\ Agree(sc, bc) /\ Invariants(bc) /\ Mirrored(sc, bc) /\ Declared(sc, bc)
  BY <1>3 DEF NamesInv, Nested
<1>sm. \A j \in 0..L : sc[j] \in 2..S /\ bc[j] \in 1..B
  BY <1>2, <1>3, <1>4, <1>5, <1>6, DepthsWithin
<1>7. S >= 1 /\ B >= 1
  BY <1>3, <1>sm
<1>8. DOMAIN open = 1..L /\ (DOMAIN open)' = 1..L /\ L \in 1..L /\ L \in 0..L
  BY <1>1, <1>2, <1>3
<1>s. /\ scopes' \in Seq(Frames) /\ Len(scopes') = S
      /\ \A i \in 1..S : i # S => scopes'[i] = scopes[i]
      /\ \A i \in 1..S, v \in Name : scopes'[i][v] = IF i = S /\ v = n THEN b ELSE scopes[i][v]
  <2>1. PICK Y : Y = Bindings \cup {Body!Nothing}
    OBVIOUS
  <2>2. scopes \in Seq([Name -> Y]) /\ b \in Y
    BY <1>2, <1>n, <2>1 DEF Frames
  <2>3. Body!Put(scopes, b) \in Seq([Name -> Y]) /\ IsPut(Body!Put(scopes, b), scopes, S, n, b)
    BY <2>2, <1>4, <1>7, <1>b, Putting
  <2> QED  BY <2>1, <2>3, <1>1 DEF Frames, IsPut
<1>k. /\ blocks' \in Seq(Blocks) /\ Len(blocks') = B
      /\ \A i \in 1..B : i # B => blocks'[i] = blocks[i]
      /\ \A i \in 1..B, v \in Name : blocks'[i][v] = IF i = B /\ v = n THEN b ELSE blocks[i][v]
  <2>1. PICK Y : Y = [by : LocalKinds, name : Name, no : Nat] \cup {Body!Nothing}
    OBVIOUS
  <2>2. blocks \in Seq([Name -> Y]) /\ b \in Y
    BY <1>2, <1>n, <2>1 DEF Blocks
  <2>3. Body!Put(blocks, b) \in Seq([Name -> Y]) /\ IsPut(Body!Put(blocks, b), blocks, B, n, b)
    BY <2>2, <1>5, <1>7, <1>b, Putting
  <2> QED  BY <2>1, <2>3, <1>1 DEF Blocks, IsPut
<1>d. /\ DOMAIN scopes = 1..S /\ (DOMAIN scopes)' = 1..S
      /\ DOMAIN blocks = 1..B /\ (DOMAIN blocks)' = 1..B
  BY <1>2, <1>4, <1>5, <1>s, <1>k
<1>old. /\ sc[L] = S /\ bc[L] = B
        /\ \A j \in 0..L : j < L => sc[j] < S
        /\ \A j \in 1..L : j < L /\ ~open[j].ended => bc[j] < B
  <2>1. sc[L] = S /\ bc[L] = B
    BY <1>3, <1>4, <1>5, <1>6 DEF Depths
  <2>2. ASSUME NEW j \in 0..L, j < L
        PROVE  sc[j] < S
    BY <2>1, <2>2, <1>3, <1>6, <1>8 DEF Depths
  <2>3. ASSUME NEW j \in 1..L, j < L, ~open[j].ended
        PROVE  bc[j] < B
    BY <2>1, <2>3, <1>3, <1>6, <1>8 DEF Depths
  <2> QED  BY <2>1, <2>2, <2>3
<1>see. ASSUME NEW j \in 1..L, ~open[j].ended, NEW v \in Name, NEW c, j < L \/ v # n
        PROVE  /\ Sees(scopes', sc[j], v, c) <=> Sees(scopes, sc[j], v, c)
               /\ Sees(blocks', bc[j], v, c) <=> Sees(blocks, bc[j], v, c)
  <2>1. PICK k \in Nat, m \in Nat : /\ k = sc[j] /\ m = bc[j] /\ k <= S /\ m <= B
                                  /\ (j < L => k < S /\ m < B)
    BY <1>see, <1>sm, <1>old
  <2>2. /\ \A i \in 1..k : i \in 1..S /\ (j < L => i # S)
        /\ \A i \in 1..m : i \in 1..B /\ (j < L => i # B)
    BY <2>1
  <2>3. \A i \in 1..k : scopes'[i][v] = scopes[i][v]
    BY <2>2, <1>see, <1>s
  <2>4. \A i \in 1..m : blocks'[i][v] = blocks[i][v]
    BY <2>2, <1>see, <1>k
  <2>5. Sees(scopes', k, v, c) <=> Sees(scopes, k, v, c)
    BY <2>3, SeesSame
  <2>6. Sees(blocks', m, v, c) <=> Sees(blocks, m, v, c)
    BY <2>4, SeesSame
  <2> QED  BY <2>1, <2>5, <2>6
<1>new. Sees(blocks', B, n, b) /\ \A c : Sees(scopes', S, n, c) => c = b
  <2>1. B \in 1..B /\ (B + 1)..B = {} /\ S \in 1..S
    BY <1>7
  <2>2. blocks'[B][n] = b /\ scopes'[S][n] = b
    BY <2>1, <1>s, <1>k
  <2>3. \A i \in 1..S : i = S \/ S \in (i + 1)..S
    OBVIOUS
  <2> QED  BY <2>1, <2>2, <2>3, <1>n DEF Sees
<1>9. Depths(sc, bc)'
  BY <1>1, <1>4, <1>5, <1>6, <1>s, <1>k DEF Depths
<1>10. Agree(sc, bc)'
  <2> SUFFICES ASSUME NEW j \in 1..L, NEW v \in Name, NEW c \in Bindings,
                      ~open[j].ended, world.outer[v] # "variant", c.by # "field",
                      Sees(scopes', sc[j], v, c)
               PROVE  Sees(blocks', bc[j], v, c)
    BY <1>1, <1>8 DEF Agree
  <2>1. CASE j < L \/ v # n
    BY <2>1, <1>see, <1>6, <1>8 DEF Agree
  <2>2. CASE j = L /\ v = n
    BY <2>2, <1>new, <1>old
  <2> QED  BY <2>1, <2>2
<1>11. Invariants(bc)'
  <2> SUFFICES ASSUME NEW j \in 1..L, open[j].invariant # Body!NoName
               PROVE  /\ \/ world.outer[open[j].invariant] = "variant"
                         \/ \E g \in Bindings : /\ Sees(blocks', bc[j], open[j].invariant, g)
                                                /\ (g = open[j].symbol \/ g.no > open[j].symbol.no)
                      /\ \A q \in (bc[j] + 1)..B, v \in Name :
                           blocks'[q][v] # Body!Nothing => blocks'[q][v].no > open[j].symbol.no
    <3>1. Len(blocks)' = B
      BY <1>k
    <3> QED  BY <1>1, <1>8, <3>1 DEF Invariants
  <2>1. open[j] \in Loops /\ j \in DOMAIN open
    BY <1>2, <1>8
  <2>2. /\ open[j].invariant \in Name /\ ~open[j].ended
        /\ open[j].symbol \in Bindings /\ open[j].symbol.no <= locals
    <3>1. /\ open[j].ended => open[j].tail
          /\ ~open[j].tail /\ open[j].symbol # Body!Nothing
          /\ Sound(world, locals, open[j].symbol, open[j].invariant)
      BY <2>1 DEF NamesInv, OpenShape
    <3> QED  BY <2>1, <3>1 DEF Loops, Sound
  <2>3. open[j].symbol.no \in Nat /\ open[j].symbol.no < b.no
    BY <2>2, <1>0, <1>b DEF Bindings
  <2>4. /\ \/ world.outer[open[j].invariant] = "variant"
           \/ \E g \in Bindings : /\ Sees(blocks, bc[j], open[j].invariant, g)
                                  /\ (g = open[j].symbol \/ g.no > open[j].symbol.no)
        /\ \A q \in (bc[j] + 1)..B, v \in Name :
             blocks[q][v] # Body!Nothing => blocks[q][v].no > open[j].symbol.no
    BY <1>5, <1>6, <2>1 DEF Invariants
  <2>5. ASSUME NEW q \in (bc[j] + 1)..B, NEW v \in Name, blocks'[q][v] # Body!Nothing
        PROVE  blocks'[q][v].no > open[j].symbol.no
    <3>1. bc[j] \in 1..B
      BY <1>sm
    <3>2. q \in 1..B
      BY <3>1
    <3>3. blocks'[q][v] = b \/ blocks'[q][v] = blocks[q][v]
      BY <3>2, <1>k
    <3>4. b.no > open[j].symbol.no
      BY <2>3, <1>b
    <3> QED  BY <3>3, <3>4, <2>4, <2>5
  <2>6. \/ world.outer[open[j].invariant] = "variant"
        \/ \E g \in Bindings : /\ Sees(blocks', bc[j], open[j].invariant, g)
                               /\ (g = open[j].symbol \/ g.no > open[j].symbol.no)
    <3>1. CASE j < L \/ open[j].invariant # n
      BY <3>1, <2>2, <2>4, <1>see
    <3>2. CASE j = L /\ open[j].invariant = n
      <4>1. Sees(blocks', bc[j], open[j].invariant, b)
        BY <3>2, <1>new, <1>old
      <4>2. b.no > open[j].symbol.no
        BY <2>3, <1>b
      <4> QED  BY <4>1, <4>2, <1>n
    <3> QED  BY <3>1, <3>2
  <2> QED  BY <2>5, <2>6
<1>12. Mirrored(sc, bc)'
  <2> SUFFICES ASSUME NEW j \in 1..L, NEW v \in Name, ~open[j].ended, ~open[j].inlined,
                      blocks'[bc[j]][v] # Body!Nothing
               PROVE  \/ scopes'[sc[j]][v] # Body!Nothing
                      \/ blocks'[bc[j]][v].by \in {"param", "catch", "recv", "element"}
    BY <1>1, <1>8 DEF Mirrored
  <2>1. sc[j] \in 1..S /\ bc[j] \in 1..B
    BY <1>sm
  <2>2. CASE j < L \/ v # n
    <3>1. j < L => sc[j] # S /\ bc[j] # B
      BY <2>1, <1>old
    <3>2. scopes'[sc[j]][v] = scopes[sc[j]][v] /\ blocks'[bc[j]][v] = blocks[bc[j]][v]
      BY <2>1, <2>2, <3>1, <1>s, <1>k
    <3> QED  BY <3>2, <1>6, <1>8 DEF Mirrored
  <2>3. CASE j = L /\ v = n
    BY <2>1, <2>3, <1>s, <1>n, <1>old
  <2> QED  BY <2>2, <2>3
<1>13. Declared(sc, bc)'
  <2> SUFFICES ASSUME NEW j \in 1..L, NEW v \in Name, NEW q \in (bc[j - 1] + 1)..B,
                      blocks'[q][v].by \in {"let", "var", "tuple"}
               PROVE  \/ blocks'[q][v] \in used' \cup predicated'
                      \/ \E p \in (sc[j - 1] + 1)..S : scopes'[p][v] = blocks'[q][v]
    <3>1. Len(blocks)' = B /\ Len(scopes)' = S
      BY <1>s, <1>k
    <3>2. (DOMAIN open)' = 1..L
      BY <1>8
    <3> QED  BY <3>1, <3>2, SMTT(60) DEF Declared
  <2>0. j - 1 \in 0..L /\ j - 1 < L
    OBVIOUS
  <2>1. sc[j - 1] \in 2..S /\ bc[j - 1] \in 1..B /\ sc[j - 1] < S
    BY <2>0, <1>sm, <1>old
  <2>2. q \in 1..B
    <3>1. PICK k \in Nat : k = bc[j - 1]
      BY <2>1
    <3>2. q \in (k + 1)..B
      BY <3>1
    <3> QED  BY <3>2
  <2>3. CASE q = B /\ v = n
    <3>1. S \in (sc[j - 1] + 1)..S /\ S \in 1..S
      <4>1. PICK k \in Nat : k = sc[j - 1] /\ k < S
        BY <2>1
      <4>2. S \in (k + 1)..S /\ S \in 1..S
        BY <4>1
      <4> QED  BY <4>1, <4>2
    <3>2. scopes'[S][v] = b /\ blocks'[q][v] = b
      BY <3>1, <2>2, <2>3, <1>s, <1>k
    <3> QED  BY <3>1, <3>2
  <2>4. CASE ~(q = B /\ v = n)
    <3>1. blocks'[q][v] = blocks[q][v]
      BY <2>2, <2>4, <1>k
    <3>2. \/ blocks[q][v] \in used \cup predicated
          \/ \E p \in (sc[j - 1] + 1)..S : scopes[p][v] = blocks[q][v]
      <4>1. j \in DOMAIN open /\ blocks[q][v].by \in {"let", "var", "tuple"}
        BY <3>1, <1>8
      <4>2. q \in (bc[j - 1] + 1)..Len(blocks)
        BY <1>5
      <4>3. \/ blocks[q][v] \in used \cup predicated
            \/ \E p \in (sc[j - 1] + 1)..Len(scopes) : scopes[p][v] = blocks[q][v]
        <5>1. Declared(sc, bc)
          BY <1>6
        <5> QED  BY <4>1, <4>2, <5>1 DEF Declared
      <4> QED  BY <4>3, <1>4
    <3>3. ASSUME NEW p \in (sc[j - 1] + 1)..S, scopes[p][v] = blocks[q][v]
          PROVE  scopes'[p][v] = blocks'[q][v]
      <4>0. p \in (sc[j - 1] + 1)..S
        OBVIOUS
      <4>1. p \in 1..S
        <5>1. PICK k \in Nat : k = sc[j - 1]
          BY <2>1
        <5>2. p \in (k + 1)..S
          BY <4>0, <5>1
        <5> QED  BY <5>2
      <4>2. ~(p = S /\ v = n)
        BY <1>1, <1>4, <3>1, <3>3, NothingIsNone
      <4> QED  BY <4>1, <4>2, <3>1, <3>3, <1>s
    <3> QED  BY <3>1, <3>2, <3>3, <1>1
  <2> QED  BY <2>3, <2>4
<1>14. Nested'
  <2>1. sc \in [0..Len(open') -> Nat] /\ bc \in [0..Len(open') -> Nat]
    BY <1>1, <1>3, <1>6
  <2> QED  BY <2>1, <1>9, <1>10, <1>11, <1>12, <1>13 DEF Nested
<1>15. Typed'
  BY <1>1, <1>s, <1>k DEF NamesInv, Typed, Body!Outside
<1>nn. \A no \in Nat : no <= locals => no <= locals'
  BY <1>0, <1>1
<1>bn. b.no <= locals'
  BY <1>1, <1>b
<1>16. Numbered'
  <2>1. ASSUME NEW i \in 1..S, NEW v \in Name, scopes'[i][v] # Body!Nothing
        PROVE  Sound(world', locals', scopes'[i][v], v)
    <3>1. CASE i = S /\ v = n
      <4>1. scopes'[i][v] = b
        BY <3>1, <1>s
      <4>2. b.by \notin {"variant", "field"}
        BY <1>b
      <4> QED  BY <4>1, <4>2, <1>bn DEF Sound
    <3>2. CASE ~(i = S /\ v = n)
      <4>1. scopes'[i][v] = scopes[i][v]
        BY <3>2, <1>s
      <4>2. Sound(world, locals, scopes[i][v], v)
        BY <4>1, <2>1, <1>d DEF NamesInv, Numbered
      <4>3. scopes[i][v].no \in Nat
        BY <4>1, <2>1, <1>2, <1>d DEF Frames, Bindings
      <4>4. scopes[i][v].no <= locals'
        BY <4>2, <4>3, <1>nn DEF Sound
      <4> QED  BY <4>1, <4>2, <4>4, <1>1 DEF Sound
    <3> QED  BY <3>1, <3>2
  <2>2. ASSUME NEW i \in 1..B, NEW v \in Name, blocks'[i][v] # Body!Nothing
        PROVE  blocks'[i][v].no <= locals'
    <3>1. blocks'[i][v] = b \/ blocks'[i][v] = blocks[i][v]
      BY <1>k
    <3>2. blocks[i][v] # Body!Nothing => blocks[i][v].no <= locals /\ blocks[i][v].no \in Nat
      <4>1. blocks[i] \in Blocks /\ i \in DOMAIN blocks
        BY <1>2, <1>d
      <4>2. blocks[i][v] # Body!Nothing => blocks[i][v].no \in Nat
        BY <4>1 DEF Blocks
      <4>3. blocks[i][v] # Body!Nothing => blocks[i][v].no <= locals
        BY <4>1 DEF NamesInv, Numbered
      <4> QED  BY <4>2, <4>3
    <3> QED  BY <2>2, <3>1, <3>2, <1>bn, <1>nn
  <2>3. \A v \in used' \cup predicated' : v.no <= locals'
    BY <1>1, <1>nn DEF NamesInv, Numbered, Typed, Bindings
  <2> QED  BY <2>1, <2>2, <2>3, <1>d DEF Numbered
<1>17. OpenShape'
  <2>1. ASSUME NEW j \in DOMAIN open, open[j].invariant # Body!NoName
        PROVE  Sound(world', locals', open[j].symbol, open[j].invariant)
    <3>1. open[j].symbol # Body!Nothing /\ Sound(world, locals, open[j].symbol, open[j].invariant)
      BY <2>1 DEF NamesInv, OpenShape
    <3>2. PICK o \in Loops : o = open[j]
      BY <1>2
    <3>3. o.symbol \in Bindings \cup {Body!Nothing}
      BY DEF Loops
    <3>4. o.symbol.no \in Nat
      BY <3>1, <3>2, <3>3 DEF Bindings
    <3>5. open[j].symbol.no <= locals'
      BY <3>1, <3>2, <3>4, <1>nn DEF Sound
    <3> QED  BY <3>1, <3>5, <1>1 DEF Sound
  <2> QED  BY <2>1, <1>1 DEF NamesInv, OpenShape, Body!Outside
<1>18. Marked'
  <2>1. ASSUME NEW v, v \in used \cup predicated, InBlocks(v)'
        PROVE  InBlocks(v)
    <3>1. v # b
      <4>1. v.no <= locals /\ v.no \in Nat
        BY <2>1 DEF NamesInv, Numbered, Typed, Bindings
      <4> QED  BY <4>1, <1>0, <1>n
    <3> QED  BY <3>1, <2>1, <1>k, <1>d DEF InBlocks
  <2>2. \A v : Excused(v)' <=> Excused(v)
    BY <1>1 DEF Excused
  <2>3. ASSUME NEW q \in 1..B, NEW v \in Name, blocks'[q][v].by \in {"counter", "key"}
        PROVE  blocks'[q][v] \in read'
    <3>1. blocks'[q][v] = blocks[q][v]
      BY <2>3, <1>k, <1>b
    <3> QED  BY <3>1, <2>3, <1>1, <1>d DEF NamesInv, Marked
  <2>4. \A v \in used' : InBlocks(v)' => Excused(v)'
    BY <2>1, <2>2, <1>1 DEF NamesInv, Marked
  <2>5. world'.contracts = "panic" => \A v \in predicated' : InBlocks(v)' =>
           Excused(v)' \/ \E j \in (DOMAIN open)' : open'[j].invariant # Body!NoName /\ open'[j].symbol = v
    BY <2>1, <2>2, <1>1 DEF NamesInv, Marked
  <2> QED  BY <2>3, <2>4, <2>5, <1>d DEF Marked
<1>19. NoRedeclaration'
  <2>1. ASSUME NEW clash \in Body!Collides(b, blocks[B])
        PROVE  clash.first.by \in {"param", "catch", "recv", "element"} \/ clash.inlined
    <3>1. /\ blocks[B][n] # Body!Nothing
          /\ clash = [first |-> blocks[B][n], second |-> b, inlined |-> Body!Top.inlined]
      BY <2>1, <1>b DEF Body!Collides
    <3>2. clash.first = blocks[B][n] /\ clash.inlined = Body!Top.inlined
      BY <3>1
    <3>3. ~open[L].ended /\ Body!Top.inlined = open[L].inlined
      BY <1>2, <1>3 DEF Body!Top
    <3>4. ~open[L].inlined => \/ scopes[sc[L]][n] # Body!Nothing
                              \/ blocks[bc[L]][n].by \in {"param", "catch", "recv", "element"}
      BY <3>1, <3>3, <1>6, <1>8, <1>old DEF Mirrored
    <3>5. CASE ~open[L].inlined
      BY <3>2, <3>4, <3>5, <1>1, <1>4, <1>old
    <3>6. CASE open[L].inlined
      BY <3>2, <3>3, <3>6
    <3> QED  BY <3>5, <3>6
  <2> QED  BY <2>1, <1>1, <1>5 DEF NamesInv, NoRedeclaration, Body!NoRedeclaration
<1>20. RefersAlike' /\ NoneUnread'
  BY <1>1 DEF NamesInv, RefersAlike, NoneUnread, Body!RefersAlike, Body!NoneUnread
<1> QED  BY <1>14, <1>15, <1>16, <1>17, <1>18, <1>19, <1>20 DEF NamesInv

-----------------------------------------------------------------------------
\* What the frames of a chain from one on hold.
HeldFrom(chain, from, v) ==
  v # Body!Nothing /\ \E i \in from..Len(chain), n \in Name : chain[i][n] = v

(* Bound is what all the frames hold.                                        *)
LEMMA InBound ==
  ASSUME NEW X, NEW frames \in Seq(X), NEW v
  PROVE  v \in Body!Bound(frames) <=> HeldFrom(frames, 1, v)
<1>1. DOMAIN frames = 1..Len(frames)
  OBVIOUS
<1> QED  BY <1>1 DEF Body!Bound, Body!ToSet, HeldFrom

\* What is left of a chain whose k innermost frames are popped.
IsPopped(chain, k, left) ==
  /\ Len(left) = Len(chain) - k
  /\ \A i \in 1..(Len(chain) - k) : left[i] = chain[i]

(* Pop leaves the first frames.                                              *)
LEMMA Popped ==
  ASSUME NEW X, NEW chain \in Seq(X), NEW k \in 0..Len(chain)
  PROVE  Body!Pop(chain, k) \in Seq(X) /\ IsPopped(chain, k, Body!Pop(chain, k))
BY DEF Body!Pop, IsPopped

(* Innermost is what the popped frames hold.                                 *)
LEMMA InInnermost ==
  ASSUME NEW X, NEW chain \in Seq(X), NEW k \in 0..Len(chain), NEW v
  PROVE  v \in Body!Innermost(chain, k) <=> HeldFrom(chain, Len(chain) - k + 1, v)
<1>1. PICK K \in Nat : K = Len(chain)
  OBVIOUS
<1>2. PICK kk \in 0..K : kk = k
  BY <1>1
<1>3. PICK from \in 0..K : from = K - kk
  BY <1>2
<1>4. PICK part \in Seq(X) : part = SubSeq(chain, from + 1, K)
  <2> SUFFICES SubSeq(chain, from + 1, K) \in Seq(X)
    OBVIOUS
  <2> QED  BY <1>1, <1>3
<1>5. Len(part) = K - from /\ \A i \in 1..(K - from) : part[i] = chain[from + i]
  BY <1>1, <1>3, <1>4
<1>6. v \in Body!Innermost(chain, k) <=> v \in Body!Bound(part)
  <2>1. Len(chain) - k + 1 = from + 1
    BY <1>1, <1>2, <1>3
  <2> QED  BY <1>1, <1>4, <2>1 DEF Body!Innermost
<1>7. v \in Body!Bound(part) <=> v # Body!Nothing /\ \E i \in 1..(K - from), n \in Name : part[i][n] = v
  <2>1. v \in Body!Bound(part) <=> HeldFrom(part, 1, v)
    BY <1>4, InBound
  <2> QED  BY <2>1, <1>5 DEF HeldFrom
<1>8. (\E i \in 1..(K - from), n \in Name : part[i][n] = v) <=> (\E i \in (from + 1)..K, n \in Name : chain[i][n] = v)
  <2>1. \A i \in 1..(K - from) : from + i \in (from + 1)..K
    BY <1>3
  <2>2. \A i \in (from + 1)..K : i - from \in 1..(K - from) /\ from + (i - from) = i
    BY <1>3
  <2>3. ASSUME NEW i \in 1..(K - from), NEW n \in Name, part[i][n] = v
        PROVE  \E j \in (from + 1)..K, m \in Name : chain[j][m] = v
    BY <2>1, <2>3, <1>5
  <2>4. ASSUME NEW j \in (from + 1)..K, NEW n \in Name, chain[j][n] = v
        PROVE  \E i \in 1..(K - from), m \in Name : part[i][m] = v
    <3>1. PICK i \in 1..(K - from) : from + i = j
      BY <2>2
    <3>2. part[i] = chain[j]
      BY <3>1, <1>5
    <3> QED  BY <3>2, <2>4
  <2> QED  BY <2>3, <2>4
<1>9. HeldFrom(chain, Len(chain) - k + 1, v) <=>
        v # Body!Nothing /\ \E i \in (from + 1)..K, n \in Name : chain[i][n] = v
  <2>1. Len(chain) - k + 1 = from + 1
    BY <1>1, <1>2, <1>3
  <2> QED  BY <2>1, <1>1 DEF HeldFrom
<1> QED  BY <1>6, <1>7, <1>8, <1>9

(* What closing the innermost construct does to the chains.                  *)
Closes(L, S, B, s, b) ==
  /\ open \in Seq(Loops) /\ scopes \in Seq(Frames) /\ blocks \in Seq(Blocks)
  /\ L = Len(open) /\ L >= 1 /\ S = Len(scopes) /\ B = Len(blocks)
  /\ s \in 0..S /\ b \in 0..B
  /\ open' \in Seq(Loops) /\ Len(open') = L - 1 /\ \A j \in 1..(L - 1) : open'[j] = open[j]
  /\ scopes' \in Seq(Frames) /\ Len(scopes') = s /\ \A i \in 1..s : scopes'[i] = scopes[i]
  /\ blocks' \in Seq(Blocks) /\ Len(blocks') = b /\ \A i \in 1..b : blocks'[i] = blocks[i]
  /\ \A v : v \in Body!Innermost(scopes, Body!Top.scopes) <=>
              v # Body!Nothing /\ \E i \in (s + 1)..S, n \in Name : scopes[i][n] = v
  /\ \A v : v \in Body!Innermost(blocks, Body!Top.blocks) <=>
              v # Body!Nothing /\ \E i \in (b + 1)..B, n \in Name : blocks[i][n] = v
  /\ world' = world /\ locals' = locals /\ uses' = uses /\ collided' = collided

(* Closing a construct pops what it has added.                               *)
LEMMA CloseChains ==
  ASSUME NamesInv, Body!Close, NEW L \in Nat, L = Len(open), NEW S \in Nat, S = Len(scopes),
         NEW B \in Nat, B = Len(blocks),
         NEW sc \in [0..L -> Nat], NEW bc \in [0..L -> Nat], Depths(sc, bc)
  PROVE  Closes(L, S, B, sc[L - 1], bc[L - 1])
<1>1. /\ open \in Seq(Loops) /\ scopes \in Seq(Frames) /\ blocks \in Seq(Blocks) /\ open # <<>>
      /\ world' = world /\ locals' = locals /\ uses' = uses /\ collided' = collided
      /\ scopes' = Body!Pop(scopes, Body!Top.scopes) /\ blocks' = Body!Pop(blocks, Body!Top.blocks)
      /\ open' = Body!Pop(open, 1)
  BY DEF NamesInv, Typed, Body!Close
<1>2. L >= 1 /\ L \in DOMAIN open /\ L \in 0..L /\ L - 1 \in 0..L
  BY <1>1
<1>3. PICK top \in Loops : top = open[L] /\ top = Body!Top
  BY <1>1, <1>2 DEF Body!Top
<1>4. PICK s \in Nat, b \in Nat : s = sc[L - 1] /\ b = bc[L - 1]
  BY <1>2
<1>5. PICK k \in Nat, m \in Nat : k = Body!Top.scopes /\ m = Body!Top.blocks
  BY <1>3 DEF Loops
<1>6. S = s + k /\ B = b + m
  BY <1>2, <1>3, <1>4, <1>5 DEF Depths
<1>7. k \in 0..S /\ m \in 0..B /\ S - k = s /\ B - m = b /\ s \in 0..S /\ b \in 0..B
  BY <1>6
<1>8. scopes' \in Seq(Frames) /\ Len(scopes') = s /\ \A i \in 1..s : scopes'[i] = scopes[i]
  <2>1. Body!Pop(scopes, k) \in Seq(Frames) /\ IsPopped(scopes, k, Body!Pop(scopes, k))
    BY <1>1, <1>7, Popped
  <2>2. scopes' \in Seq(Frames) /\ IsPopped(scopes, k, scopes')
    BY <2>1, <1>1, <1>5
  <2> QED  BY <2>2, <1>7 DEF IsPopped
<1>9. blocks' \in Seq(Blocks) /\ Len(blocks') = b /\ \A i \in 1..b : blocks'[i] = blocks[i]
  <2>1. Body!Pop(blocks, m) \in Seq(Blocks) /\ IsPopped(blocks, m, Body!Pop(blocks, m))
    BY <1>1, <1>7, Popped
  <2>2. blocks' \in Seq(Blocks) /\ IsPopped(blocks, m, blocks')
    BY <2>1, <1>1, <1>5
  <2> QED  BY <2>2, <1>7 DEF IsPopped
<1>10. open' \in Seq(Loops) /\ Len(open') = L - 1 /\ \A j \in 1..(L - 1) : open'[j] = open[j]
  <2>1. 1 \in 0..Len(open)
    BY <1>2
  <2>2. open' \in Seq(Loops) /\ IsPopped(open, 1, open')
    BY <2>1, <1>1, Popped
  <2> QED  BY <2>2 DEF IsPopped
<1>11. ASSUME NEW v
       PROVE  v \in Body!Innermost(scopes, Body!Top.scopes) <=>
                v # Body!Nothing /\ \E i \in (s + 1)..S, n \in Name : scopes[i][n] = v
  <2>1. v \in Body!Innermost(scopes, k) <=> HeldFrom(scopes, Len(scopes) - k + 1, v)
    BY <1>1, <1>7, InInnermost
  <2> QED  BY <2>1, <1>5, <1>7 DEF HeldFrom
<1>12. ASSUME NEW v
       PROVE  v \in Body!Innermost(blocks, Body!Top.blocks) <=>
                v # Body!Nothing /\ \E i \in (b + 1)..B, n \in Name : blocks[i][n] = v
  <2>1. v \in Body!Innermost(blocks, m) <=> HeldFrom(blocks, Len(blocks) - m + 1, v)
    BY <1>1, <1>7, InInnermost
  <2> QED  BY <2>1, <1>5, <1>7 DEF HeldFrom
<1> QED  BY <1>1, <1>2, <1>4, <1>7, <1>8, <1>9, <1>10, <1>11, <1>12 DEF Closes

(* The invariant that is checked at the end of a loop's body: its symbol is  *)
(* read there, or its name strays to what the body declares.                 *)
InvariantReads == IF Body!ChecksInvariant
                  THEN {Body!Emitted(Body!Top.invariant, Body!Top.symbol, blocks)} ELSE {}
InvariantStrays == IF Body!ChecksInvariant
                   THEN Body!Strays(Body!Top.invariant, Body!Top.symbol, blocks, "invariant") ELSE {}

(* Its emission strays only to a later binding or to a variant, and its      *)
(* symbol is read if it does not.                                            *)
LEMMA InvariantEmission ==
  ASSUME NamesInv, open # <<>>
  PROVE  /\ \A use \in InvariantStrays : RightStray(use)
         /\ Body!ChecksInvariant =>
              \/ Body!Top.symbol \in InvariantReads
              \/ \E use \in InvariantStrays : use.aril = Body!Top.symbol
<1> SUFFICES ASSUME Body!ChecksInvariant
             PROVE  /\ \A use \in InvariantStrays : RightStray(use)
                    /\ \/ Body!Top.symbol \in InvariantReads
                       \/ \E use \in InvariantStrays : use.aril = Body!Top.symbol
  BY DEF InvariantStrays
<1>1. open \in Seq(Loops) /\ blocks \in Seq(Frames)
  BY BlocksAreFrames DEF NamesInv, Typed
<1>2. PICK L \in Nat : L = Len(open) /\ L >= 1 /\ L \in DOMAIN open
  BY <1>1
<1>3. PICK o \in Loops : o = open[L] /\ o = Body!Top
  BY <1>1, <1>2 DEF Body!Top
<1>4. /\ o.invariant # Body!NoName
      /\ o.invariant \in Name \cup {Body!NoName} /\ o.symbol \in Bindings \cup {Body!Nothing}
  BY <1>3 DEF Body!ChecksInvariant, Loops
<1>5. o.symbol # Body!Nothing /\ Sound(world, locals, o.symbol, o.invariant)
  BY <1>2, <1>3, <1>4 DEF NamesInv, OpenShape
<1>6. PICK i \in Name, sym \in Bindings : i = o.invariant /\ sym = o.symbol
  BY <1>4, <1>5
<1>7. PICK sc \in [0..Len(open) -> Nat], bc \in [0..Len(open) -> Nat] : Depths(sc, bc) /\ Invariants(bc)
  BY DEF NamesInv, Nested
<1>8. \/ world.outer[i] = "variant"
      \/ \E g \in Bindings : Sees(blocks, Len(blocks), i, g) /\ (g = sym \/ g.no > sym.no)
  <2>1. bc[L] = Len(blocks)
    BY <1>2, <1>7 DEF Depths
  <2>2. \/ world.outer[i] = "variant"
        \/ \E g \in Bindings : Sees(blocks, bc[L], i, g) /\ (g = sym \/ g.no > sym.no)
    BY <1>2, <1>3, <1>4, <1>6, <1>7 DEF Invariants
  <2> QED  BY <2>1, <2>2
<1>9. PICK strays : strays = Body!Strays(i, sym, blocks, "invariant")
  OBVIOUS
<1>10. /\ Body!Emitted(i, sym, blocks) = sym \/ \E use \in strays : use.aril = sym
       /\ \A use \in strays :
            /\ use.place = "invariant" /\ use.aril = sym
            /\ \/ use.go.by = "variant" /\ sym.by # "variant"
               \/ /\ world.outer[i] # "variant" /\ sym.by # "field"
                  /\ use.go = Body!Lookup(blocks, i) /\ use.go # sym
  BY <1>5, <1>6, <1>9, Emission
<1>11. ASSUME NEW use \in strays  PROVE RightStray(use)
  <2>1. CASE use.go.by = "variant" /\ sym.by # "variant"
    BY <2>1, <1>10 DEF RightStray
  <2>2. CASE world.outer[i] # "variant" /\ use.go = Body!Lookup(blocks, i) /\ use.go # sym
    <3>1. PICK g \in Bindings : Sees(blocks, Len(blocks), i, g) /\ (g = sym \/ g.no > sym.no)
      BY <2>2, <1>8
    <3>2. use.go = g
      BY <2>2, <3>1, <1>1, SeesIsLookup
    <3> QED  BY <2>2, <3>1, <3>2, <1>10 DEF RightStray
  <2> QED  BY <2>1, <2>2, <1>10
<1>12. /\ InvariantStrays = strays
       /\ InvariantReads = {Body!Emitted(i, sym, blocks)} /\ Body!Top.symbol = sym
  BY <1>3, <1>6, <1>9 DEF InvariantStrays, InvariantReads
<1> QED  BY <1>10, <1>11, <1>12

(* What becomes of the marks when a construct is closed: what is bound in no *)
(* chain is forgotten, and what was unused is not accepted.                  *)
Alive(v) == HeldFrom(scopes, 1, v) \/ HeldFrom(blocks, 1, v)

Settles(s, b) ==
  /\ \A v : v \in used' <=> v \in used /\ Alive(v)'
  /\ \A v : v \in predicated' <=> v \in predicated /\ Alive(v)'
  /\ \A v : v \in assigned' <=> v \in assigned /\ Alive(v)'
  /\ \A v : v \in read' <=> v \in read \cup InvariantReads /\ HeldFrom(blocks', 1, v)
  /\ astray' = astray \cup InvariantStrays
  /\ \A v : HeldFrom(scopes, s + 1, v) /\ v.by \in {"let", "var", "tuple"} => v \in used \cup predicated
  /\ \A it \in unread' :
       \/ it \in unread
       \/ \E v : /\ HeldFrom(blocks, b + 1, v)
                 /\ v.by # "param" /\ v \notin read \cup InvariantReads /\ ~Body!Guarded(v)
                 /\ it = [of |-> v, assigned |-> v \in assigned]

(* What Close does to the marks and finds unread.                            *)
LEMMA CloseSettles ==
  ASSUME NamesInv, Body!Close, NEW L \in Nat, NEW S \in Nat, NEW B \in Nat, NEW s \in Nat, NEW b \in Nat,
         Closes(L, S, B, s, b)
  PROVE  Settles(s, b)
<1>1. /\ scopes' \in Seq(Frames) /\ blocks' \in Seq(Blocks) /\ S = Len(scopes) /\ B = Len(blocks)
      /\ \A v : v \in Body!Innermost(scopes, Body!Top.scopes) <=>
                  v # Body!Nothing /\ \E i \in (s + 1)..S, n \in Name : scopes[i][n] = v
      /\ \A v : v \in Body!Innermost(blocks, Body!Top.blocks) <=>
                  v # Body!Nothing /\ \E i \in (b + 1)..B, n \in Name : blocks[i][n] = v
  BY DEF Closes
<1>2. /\ \A v : v \in Body!Innermost(scopes, Body!Top.scopes) <=> HeldFrom(scopes, s + 1, v)
      /\ \A v : v \in Body!Innermost(blocks, Body!Top.blocks) <=> HeldFrom(blocks, b + 1, v)
  BY <1>1 DEF HeldFrom
<1>3. /\ \A v : v \in Body!Bound(scopes') <=> HeldFrom(scopes', 1, v)
      /\ \A v : v \in Body!Bound(blocks') <=> HeldFrom(blocks', 1, v)
  BY <1>1, InBound
<1>4. /\ Body!UnusedLocals = {} /\ blocks' = Body!Pop(blocks, Body!Top.blocks)
      /\ astray' = astray \cup InvariantStrays
      /\ unread' = unread \cup {[of |-> v, assigned |-> v \in assigned] :
                        v \in {w \in Body!Innermost(blocks, Body!Top.blocks) :
                                 w.by # "param" /\ w \notin read \cup InvariantReads /\ ~Body!Guarded(w)}}
      /\ read' = (read \cup InvariantReads) \cap Body!Bound(Body!Pop(blocks, Body!Top.blocks))
      /\ Body!Forget
  BY DEF Body!Close, InvariantReads, InvariantStrays
<1>5. /\ used' = used \cap (Body!Bound(scopes') \cup Body!Bound(blocks'))
      /\ predicated' = predicated \cap (Body!Bound(scopes') \cup Body!Bound(blocks'))
      /\ assigned' = assigned \cap (Body!Bound(scopes') \cup Body!Bound(blocks'))
  BY <1>4 DEF Body!Forget
<1>6. \A v : v \in Body!Bound(scopes') \cup Body!Bound(blocks') <=> Alive(v)'
  BY <1>3 DEF Alive
<1>7. /\ \A v : v \in used' <=> v \in used /\ Alive(v)'
      /\ \A v : v \in predicated' <=> v \in predicated /\ Alive(v)'
      /\ \A v : v \in assigned' <=> v \in assigned /\ Alive(v)'
  BY <1>5, <1>6
<1>8. \A v : v \in read' <=> v \in read \cup InvariantReads /\ HeldFrom(blocks', 1, v)
  BY <1>3, <1>4
<1>9. \A v : HeldFrom(scopes, s + 1, v) /\ v.by \in {"let", "var", "tuple"} => v \in used \cup predicated
  BY <1>2, <1>4 DEF Body!UnusedLocals
<1>10. ASSUME NEW it \in unread', it \notin unread
       PROVE  \E v : /\ HeldFrom(blocks, b + 1, v)
                     /\ v.by # "param" /\ v \notin read \cup InvariantReads /\ ~Body!Guarded(v)
                     /\ it = [of |-> v, assigned |-> v \in assigned]
  BY <1>2, <1>4, <1>10
<1> QED  BY <1>4, <1>7, <1>8, <1>9, <1>10 DEF Settles

(* What is held in the frames that stay was held, and is alive.              *)
LEMMA StaysAlive ==
  ASSUME NEW L \in Nat, NEW S \in Nat, NEW B \in Nat, NEW s \in Nat, NEW b \in Nat, Closes(L, S, B, s, b),
         NEW q \in 1..b, NEW n \in Name, NEW v, v # Body!Nothing, blocks[q][n] = v
  PROVE  HeldFrom(blocks', 1, v) /\ Alive(v)'
<1>1. q \in 1..Len(blocks') /\ blocks'[q][n] = v
  BY DEF Closes
<1>2. HeldFrom(blocks', 1, v)
  BY <1>1 DEF HeldFrom
<1> QED  BY <1>2 DEF Alive

(* What is still in a block stays accounted for.                             *)
LEMMA CloseMarked ==
  ASSUME NamesInv, NEW L \in Nat, NEW S \in Nat, NEW B \in Nat, NEW s \in Nat, NEW b \in Nat,
         Closes(L, S, B, s, b), Settles(s, b)
  PROVE  Marked'
<1>1. /\ open \in Seq(Loops) /\ L = Len(open) /\ L >= 1 /\ B = Len(blocks) /\ blocks \in Seq(Blocks)
      /\ b \in 0..B
      /\ open' \in Seq(Loops) /\ Len(open') = L - 1 /\ \A j \in 1..(L - 1) : open'[j] = open[j]
      /\ blocks' \in Seq(Blocks) /\ Len(blocks') = b /\ \A i \in 1..b : blocks'[i] = blocks[i]
      /\ world' = world
  BY DEF Closes
<1>2. /\ DOMAIN open = 1..L /\ (DOMAIN open)' = 1..(L - 1)
      /\ DOMAIN blocks = 1..B /\ (DOMAIN blocks)' = 1..b
  BY <1>1
<1>3. \A i \in 1..b : i \in 1..B
  BY <1>1
<1>4. ASSUME NEW v, InBlocks(v)'
      PROVE  InBlocks(v) /\ HeldFrom(blocks', 1, v) /\ Alive(v)'
  <2>1. PICK q \in 1..b, n \in Name : v # Body!Nothing /\ blocks[q][n] = v
    BY <1>4, <1>1, <1>2 DEF InBlocks
  <2>2. InBlocks(v)
    BY <2>1, <1>2, <1>3 DEF InBlocks
  <2> QED  BY <2>1, <2>2, StaysAlive
<1>5. ASSUME NEW v, InBlocks(v)', Excused(v)
      PROVE  Excused(v)'
  <2>1. HeldFrom(blocks', 1, v) /\ Alive(v)'
    BY <1>4, <1>5
  <2>2. v \in read => v \in read'
    BY <2>1 DEF Settles
  <2>3. v \in assigned => v \in assigned'
    BY <2>1 DEF Settles
  <2>4. astray \subseteq astray'
    BY DEF Settles
  <2> QED  BY <2>2, <2>3, <2>4, <1>5 DEF Excused
<1>6. \A v \in used' : InBlocks(v)' => Excused(v)'
  BY <1>4, <1>5 DEF Settles, NamesInv, Marked
<1>7. ASSUME world'.contracts = "panic", NEW v \in predicated', InBlocks(v)'
      PROVE  Excused(v)' \/ \E j \in (DOMAIN open)' : open'[j].invariant # Body!NoName /\ open'[j].symbol = v
  <2>1. v \in predicated /\ InBlocks(v) /\ world.contracts = "panic"
    BY <1>1, <1>4, <1>7 DEF Settles
  <2>2. Excused(v) \/ \E j \in DOMAIN open : open[j].invariant # Body!NoName /\ open[j].symbol = v
    BY <2>1 DEF NamesInv, Marked
  <2>3. ASSUME NEW j \in 1..(L - 1), open[j].invariant # Body!NoName, open[j].symbol = v
        PROVE  \E k \in (DOMAIN open)' : open'[k].invariant # Body!NoName /\ open'[k].symbol = v
    BY <2>3, <1>1, <1>2
  <2>4. ASSUME open[L].invariant # Body!NoName, open[L].symbol = v
        PROVE  Excused(v)'
    <3>1. Body!ChecksInvariant /\ Body!Top.symbol = v /\ open # <<>>
      BY <2>1, <2>4, <1>1 DEF Body!ChecksInvariant, Body!Top
    <3>2. v \in InvariantReads \/ \E use \in InvariantStrays : use.aril = v
      BY <3>1, InvariantEmission
    <3>3. v \in InvariantReads => v \in read'
      BY <1>4, <1>7 DEF Settles
    <3>4. InvariantStrays \subseteq astray'
      BY DEF Settles
    <3> QED  BY <3>2, <3>3, <3>4 DEF Excused
  <2>5. \A j \in 1..L : j = L \/ j \in 1..(L - 1)
    OBVIOUS
  <2> QED  BY <2>2, <2>3, <2>4, <2>5, <1>2, <1>5, <1>7
<1>8. ASSUME NEW q \in 1..b, NEW n \in Name, blocks'[q][n].by \in {"counter", "key"}
      PROVE  blocks'[q][n] \in read'
  <2>1. blocks'[q][n] = blocks[q][n] /\ q \in DOMAIN blocks
    BY <1>1, <1>2, <1>3
  <2>2. blocks[q][n] \in read
    BY <2>1, <1>8 DEF NamesInv, Marked
  <2>3. blocks[q][n] # Body!Nothing
    BY <2>1, <1>8, NothingIsNone
  <2>4. HeldFrom(blocks', 1, blocks[q][n])
    BY <2>3, StaysAlive
  <2> QED  BY <2>1, <2>2, <2>4 DEF Settles
<1> QED  BY <1>2, <1>6, <1>7, <1>8 DEF Marked

(* The scopes and blocks of what stays open are still in step.               *)
LEMMA CloseNested ==
  ASSUME NamesInv, NEW L \in Nat, NEW S \in Nat, NEW B \in Nat,
         NEW sc \in [0..L -> Nat], NEW bc \in [0..L -> Nat],
         Depths(sc, bc), Agree(sc, bc), Invariants(bc), Mirrored(sc, bc), Declared(sc, bc),
         NEW s \in Nat, NEW b \in Nat, s = sc[L - 1], b = bc[L - 1],
         Closes(L, S, B, s, b), Settles(s, b)
  PROVE  Nested'
<1>1. /\ open \in Seq(Loops) /\ scopes \in Seq(Frames) /\ blocks \in Seq(Blocks)
      /\ L = Len(open) /\ L >= 1 /\ S = Len(scopes) /\ B = Len(blocks)
      /\ s \in 0..S /\ b \in 0..B
      /\ open' \in Seq(Loops) /\ Len(open') = L - 1 /\ \A j \in 1..(L - 1) : open'[j] = open[j]
      /\ scopes' \in Seq(Frames) /\ Len(scopes') = s /\ \A i \in 1..s : scopes'[i] = scopes[i]
      /\ blocks' \in Seq(Blocks) /\ Len(blocks') = b /\ \A i \in 1..b : blocks'[i] = blocks[i]
      /\ world' = world
  BY DEF Closes
<1>2. PICK sd \in [0..(L - 1) -> Nat], bd \in [0..(L - 1) -> Nat] :
        \A j \in 0..(L - 1) : sd[j] = sc[j] /\ bd[j] = bc[j]
  <2>1. \A j \in 0..(L - 1) : j \in 0..L
    BY <1>1
  <2>2. /\ [j \in 0..(L - 1) |-> sc[j]] \in [0..(L - 1) -> Nat]
        /\ [j \in 0..(L - 1) |-> bc[j]] \in [0..(L - 1) -> Nat]
    BY <2>1
  <2> QED  BY <2>2
<1>3. /\ DOMAIN open = 1..L /\ (DOMAIN open)' = 1..(L - 1)
      /\ Len(open)' = L - 1 /\ Len(scopes)' = s /\ Len(blocks)' = b
  BY <1>1
<1>4. \A j \in 1..(L - 1) : /\ j \in 0..(L - 1) /\ j - 1 \in 0..(L - 1) /\ j \in 1..L /\ j \in 0..L
                            /\ j - 1 \in 0..L /\ L - 1 \in 0..(L - 1)
  BY <1>1
<1>in. L - 1 \in 0..(L - 1) /\ 0 \in 0..(L - 1) /\ L - 1 \in 0..L
  BY <1>1
<1>5. /\ sc[0] = 2 /\ bc[0] = 1
      /\ \A j \in 1..L : /\ sc[j] = sc[j - 1] + open[j].scopes
                         /\ bc[j] = bc[j - 1] + open[j].blocks
      /\ \A i, j \in 0..L : i < j => sc[i] < sc[j] /\ bc[i] <= bc[j]
      /\ \A i \in 1..L, j \in 0..L : i < j /\ ~open[i].ended => bc[i] < bc[j]
  BY <1>1, <1>3 DEF Depths
<1>6. \A j \in 0..(L - 1) : j \in 0..L /\ sc[j] <= s /\ bc[j] <= b
  <2>1. ASSUME NEW j \in 0..(L - 1)  PROVE j \in 0..L /\ sc[j] <= s /\ bc[j] <= b
    <3>1. j \in 0..L /\ (j = L - 1 \/ j < L - 1)
      BY <1>1
    <3>2. j < L - 1 => sc[j] < s /\ bc[j] <= b
      BY <3>1, <1>5, <1>in
    <3>3. PICK k \in Nat, m \in Nat : k = sc[j] /\ m = bc[j]
      BY <3>1
    <3>4. j = L - 1 => k = s /\ m = b
      BY <3>3
    <3>5. j < L - 1 => k < s /\ m <= b
      BY <3>2, <3>3
    <3>6. k <= s /\ m <= b
      <4>1. j = L - 1 \/ j < L - 1
        BY <3>1
      <4>2. CASE j = L - 1
        BY <3>4, <4>2
      <4>3. CASE j < L - 1
        BY <3>5, <4>3
      <4> QED  BY <4>1, <4>2, <4>3
    <3> QED  BY <3>1, <3>3, <3>6
  <2> QED  BY <2>1
<1>see. ASSUME NEW j \in 1..(L - 1), NEW v, NEW c
        PROVE  /\ Sees(scopes', sd[j], v, c) <=> Sees(scopes, sc[j], v, c)
               /\ Sees(blocks', bd[j], v, c) <=> Sees(blocks, bc[j], v, c)
  <2>1. PICK k \in Nat, m \in Nat : /\ k = sc[j] /\ m = bc[j] /\ k <= s /\ m <= b
                                  /\ k = sd[j] /\ m = bd[j]
    BY <1>2, <1>4, <1>6
  <2>a. k <= s /\ m <= b
    BY <2>1
  <2>0. (\A i \in 1..k : i \in 1..s) /\ (\A i \in 1..m : i \in 1..b)
    <3>1. ASSUME NEW i \in 1..k  PROVE i \in 1..s
      BY <2>a
    <3>2. ASSUME NEW i \in 1..m  PROVE i \in 1..b
      BY <2>a
    <3> QED  BY <3>1, <3>2
  <2>2. (\A i \in 1..k : scopes'[i][v] = scopes[i][v]) /\ (\A i \in 1..m : blocks'[i][v] = blocks[i][v])
    BY <2>0, <1>1
  <2>3. Sees(scopes', k, v, c) <=> Sees(scopes, k, v, c)
    BY <2>2, SeesSame
  <2>4. Sees(blocks', m, v, c) <=> Sees(blocks, m, v, c)
    BY <2>2, SeesSame
  <2> QED  BY <2>1, <2>3, <2>4
<1>7. Depths(sd, bd)'
  <2>1. sd[0] = 2 /\ bd[0] = 1 /\ sd[L - 1] = s /\ bd[L - 1] = b
    BY <1>2, <1>5, <1>in
  <2>2. \A j \in 1..(L - 1) : /\ sd[j] = sd[j - 1] + open'[j].scopes
                              /\ bd[j] = bd[j - 1] + open'[j].blocks
    BY <1>1, <1>2, <1>4, <1>5
  <2>3. \A i, j \in 0..(L - 1) : i < j => sd[i] < sd[j] /\ bd[i] <= bd[j]
    <3>1. \A j \in 0..(L - 1) : j \in 0..L
      BY <1>6
    <3> QED  BY <1>2, <1>5, <3>1
  <2>4. \A i \in 1..(L - 1), j \in 0..(L - 1) : i < j /\ ~open'[i].ended => bd[i] < bd[j]
    <3>1. ASSUME NEW i \in 1..(L - 1), NEW j \in 0..(L - 1), i < j, ~open'[i].ended
          PROVE  bd[i] < bd[j]
      <4>1. i \in 1..L /\ i \in 0..(L - 1) /\ j \in 0..L
        BY <1>4, <1>6
      <4>2. ~open[i].ended
        BY <3>1, <1>1
      <4> QED  BY <3>1, <4>1, <4>2, <1>2, <1>5
    <3> QED  BY <3>1
  <2> QED  BY <2>1, <2>2, <2>3, <2>4, <1>3 DEF Depths
<1>8. Agree(sd, bd)'
  <2> SUFFICES ASSUME NEW j \in 1..(L - 1), NEW v \in Name, NEW c \in Bindings,
                      ~open[j].ended, world.outer[v] # "variant", c.by # "field",
                      Sees(scopes', sd[j], v, c)
               PROVE  Sees(blocks', bd[j], v, c)
    BY <1>1, <1>3 DEF Agree
  <2> QED  BY <1>see, <1>3, <1>4 DEF Agree
<1>9. Invariants(bd)'
  <2> SUFFICES ASSUME NEW j \in 1..(L - 1), open'[j].invariant # Body!NoName
               PROVE  /\ \/ world'.outer[open'[j].invariant] = "variant"
                         \/ \E g \in Bindings : /\ Sees(blocks', bd[j], open'[j].invariant, g)
                                                /\ (g = open'[j].symbol \/ g.no > open'[j].symbol.no)
                      /\ \A q \in (bd[j] + 1)..b, v \in Name :
                           blocks'[q][v] # Body!Nothing => blocks'[q][v].no > open'[j].symbol.no
    BY <1>3 DEF Invariants
  <2>0. open'[j] = open[j] /\ j \in DOMAIN open /\ world' = world
    BY <1>1, <1>3, <1>4
  <2>1. /\ \/ world.outer[open[j].invariant] = "variant"
           \/ \E g \in Bindings : /\ Sees(blocks, bc[j], open[j].invariant, g)
                                  /\ (g = open[j].symbol \/ g.no > open[j].symbol.no)
        /\ \A q \in (bc[j] + 1)..B, v \in Name :
             blocks[q][v] # Body!Nothing => blocks[q][v].no > open[j].symbol.no
    BY <1>1, <2>0 DEF Invariants
  <2>2. ASSUME NEW q \in (bd[j] + 1)..b, NEW v \in Name, blocks'[q][v] # Body!Nothing
        PROVE  blocks'[q][v].no > open[j].symbol.no
    <3>1. PICK m \in Nat : m = bd[j] /\ m = bc[j]
      BY <1>2, <1>4
    <3>2. q \in (m + 1)..b
      BY <3>1
    <3>3. q \in 1..b /\ q \in (m + 1)..B
      BY <3>2, <1>1
    <3>4. blocks'[q] = blocks[q]
      BY <3>3, <1>1
    <3> QED  BY <3>1, <3>3, <3>4, <2>1, <2>2
  <2> QED  BY <2>0, <2>1, <2>2, <1>see
<1>10. Mirrored(sd, bd)'
  <2> SUFFICES ASSUME NEW j \in 1..(L - 1), NEW v \in Name, ~open[j].ended, ~open[j].inlined,
                      blocks'[bd[j]][v] # Body!Nothing
               PROVE  \/ scopes'[sd[j]][v] # Body!Nothing
                      \/ blocks'[bd[j]][v].by \in {"param", "catch", "recv", "element"}
    BY <1>1, <1>3 DEF Mirrored
  <2>1. sc[j] \in 1..s /\ bc[j] \in 1..b
    <3>1. 0 \in 0..L /\ 0 < j /\ j \in 0..L
      BY <1>4
    <3>2. sc[0] < sc[j] /\ bc[0] <= bc[j]
      BY <3>1, <1>5
    <3>3. sc[j] <= s /\ bc[j] <= b /\ sc[j] \in Nat /\ bc[j] \in Nat
      BY <3>1, <1>4, <1>6
    <3> QED  BY <3>2, <3>3, <1>5
  <2>2. scopes'[sd[j]] = scopes[sc[j]] /\ blocks'[bd[j]] = blocks[bc[j]]
    <3>1. sd[j] = sc[j] /\ bd[j] = bc[j]
      BY <1>2, <1>4
    <3> QED  BY <2>1, <3>1, <1>1
  <2> QED  BY <2>2, <1>3, <1>4 DEF Mirrored
<1>11. Declared(sd, bd)'
  <2> SUFFICES ASSUME NEW j \in 1..(L - 1), NEW n \in Name, NEW q \in (bd[j - 1] + 1)..b,
                      blocks'[q][n].by \in {"let", "var", "tuple"}
               PROVE  \/ blocks'[q][n] \in used' \cup predicated'
                      \/ \E p \in (sd[j - 1] + 1)..s : scopes'[p][n] = blocks'[q][n]
    BY <1>3, SMTT(60) DEF Declared
  <2>1. PICK k \in Nat, m \in Nat : /\ k = sc[j - 1] /\ m = bc[j - 1] /\ k = sd[j - 1] /\ m = bd[j - 1]
                                  /\ k <= s /\ m <= b
    BY <1>2, <1>4, <1>6
  <2>q. q \in (m + 1)..b
    BY <2>1
  <2>2. q \in 1..b /\ q \in (m + 1)..B /\ j \in 1..L
    <3>1. q >= m + 1 /\ q <= b /\ b <= B /\ q \in Nat
      BY <2>q, <1>1
    <3>2. q \in 1..b
      BY <3>1
    <3>3. q \in (m + 1)..B
      BY <3>1
    <3> QED  BY <3>2, <3>3, <1>4
  <2>3. blocks'[q][n] = blocks[q][n]
    BY <2>2, <1>1
  <2>4. \/ blocks[q][n] \in used \cup predicated
        \/ \E p \in (k + 1)..S : scopes[p][n] = blocks[q][n]
    <3>1. blocks[q][n].by \in {"let", "var", "tuple"} /\ j \in DOMAIN open
      BY <2>2, <2>3, <1>3
    <3>2. q \in (bc[j - 1] + 1)..Len(blocks)
      BY <2>1, <2>2, <1>1
    <3>3. \/ blocks[q][n] \in used \cup predicated
          \/ \E p \in (sc[j - 1] + 1)..Len(scopes) : scopes[p][n] = blocks[q][n]
      BY <3>1, <3>2 DEF Declared
    <3> QED  BY <3>3, <2>1, <1>1
  <2>5. PICK v : v = blocks[q][n] /\ v = blocks'[q][n]
    BY <2>3
  <2>6. v # Body!Nothing /\ v.by \in {"let", "var", "tuple"}
    BY <2>5, NothingIsNone
  <2>7. Alive(v)'
    <3>1. v # Body!Nothing /\ blocks[q][n] = v /\ q \in 1..b
      BY <2>2, <2>5, <2>6
    <3> QED  BY <3>1, StaysAlive
  <2>8. CASE v \in used \cup predicated
    BY <2>5, <2>7, <2>8 DEF Settles
  <2>9. ASSUME NEW p \in (k + 1)..S, scopes[p][n] = v
        PROVE  v \in used' \cup predicated' \/ \E r \in (k + 1)..s : scopes'[r][n] = v
    <3>1. CASE p <= s
      <4>1. p \in (k + 1)..s /\ p \in 1..s
        BY <3>1
      <4> QED  BY <4>1, <2>9, <1>1
    <3>2. CASE ~(p <= s)
      <4>0. p \in Nat /\ p <= S /\ p >= s + 1
        <5>1. p \in Nat /\ p <= S
          OBVIOUS
        <5> QED  BY <5>1, <3>2
      <4>1. p \in (s + 1)..Len(scopes)
        BY <4>0, <1>1
      <4>2. HeldFrom(scopes, s + 1, v)
        BY <4>1, <2>6, <2>9 DEF HeldFrom
      <4>3. v \in used \cup predicated
        BY <4>2, <2>6 DEF Settles
      <4> QED  BY <4>3, <2>7 DEF Settles
    <3> QED  BY <3>1, <3>2
  <2> QED  BY <2>1, <2>4, <2>5, <2>8, <2>9
<1>12. Nested'
  <2>1. sd \in [0..Len(open') -> Nat] /\ bd \in [0..Len(open') -> Nat]
    BY <1>1
  <2> QED  BY <2>1, <1>7, <1>8, <1>9, <1>10, <1>11 DEF Nested
<1> QED  BY <1>12

(* What the closed blocks leave unread is excused: a pattern's name is used  *)
(* or guarded, a declared one is used, or only a contract reads it.          *)
LEMMA CloseUnread ==
  ASSUME NamesInv, NEW L \in Nat, NEW S \in Nat, NEW B \in Nat,
         NEW sc \in [0..L -> Nat], NEW bc \in [0..L -> Nat],
         Depths(sc, bc), Invariants(bc), Declared(sc, bc),
         NEW s \in Nat, NEW b \in Nat, s = sc[L - 1], b = bc[L - 1],
         Closes(L, S, B, s, b), Settles(s, b)
  PROVE  NoneUnread'
<1>1. /\ open \in Seq(Loops) /\ blocks \in Seq(Blocks)
      /\ L = Len(open) /\ L >= 1 /\ S = Len(scopes) /\ B = Len(blocks)
      /\ b \in 0..B
  BY DEF Closes
<1>2. DOMAIN open = 1..L /\ DOMAIN blocks = 1..B /\ L \in 1..L /\ open # <<>>
  BY <1>1
<1>3. astray' = astray \cup InvariantStrays
  BY DEF Settles
<1>4. ASSUME NEW v, HeldFrom(blocks, b + 1, v), v.by # "param", v \notin read \cup InvariantReads,
             ~Body!Guarded(v)
      PROVE  v \in assigned \/ v.by \in {"chan", "recv"} \/ \E use \in astray' : use.aril = v
  <2>1. PICK q \in (b + 1)..B, n \in Name : blocks[q][n] = v /\ v # Body!Nothing
    BY <1>4, <1>1 DEF HeldFrom
  <2>2. q \in 1..B
    BY <2>1, <1>1
  <2>3. v \in [by : LocalKinds, name : Name, no : Nat]
    <3>1. blocks[q] \in Blocks
      BY <2>2, <1>1
    <3> QED  BY <3>1, <2>1 DEF Blocks
  <2>4. InBlocks(v)
    BY <2>1, <2>2, <1>2 DEF InBlocks
  <2>5. Excused(v) => v \in assigned \/ \E use \in astray' : use.aril = v
    BY <1>3, <1>4 DEF Excused
  <2>6. v \in used => Excused(v)
    BY <2>4 DEF NamesInv, Marked
  <2>7. CASE v.by \in {"arm", "catch", "loop", "element", "tuple"}
    BY <2>5, <2>6, <2>7, <1>4 DEF Body!Guarded
  <2>8. CASE v.by \in {"counter", "key"}
    <3>1. blocks[q][n] \in read
      BY <2>1, <2>2, <2>8, <1>2 DEF NamesInv, Marked
    <3> QED  BY <3>1, <2>1, <1>4
  <2>9. CASE v.by \in {"let", "var"}
    <3>1. v \in used \cup predicated
      <4>1. \/ v \in used \cup predicated
            \/ \E p \in (sc[L - 1] + 1)..Len(scopes) : scopes[p][n] = v
        <5>1. q \in (bc[L - 1] + 1)..Len(blocks) /\ blocks[q][n].by \in {"let", "var", "tuple"}
          BY <2>1, <2>9, <1>1
        <5>2. \/ blocks[q][n] \in used \cup predicated
              \/ \E p \in (sc[L - 1] + 1)..Len(scopes) : scopes[p][n] = blocks[q][n]
          BY <5>1, <1>2 DEF Declared
        <5> QED  BY <5>2, <2>1
      <4>2. ASSUME NEW p \in (sc[L - 1] + 1)..Len(scopes), scopes[p][n] = v
            PROVE  v \in used \cup predicated
        <5>1. HeldFrom(scopes, s + 1, v)
          BY <4>2, <2>1 DEF HeldFrom
        <5> QED  BY <5>1, <2>9 DEF Settles
      <4> QED  BY <4>1, <4>2
    <3>2. CASE v \in used
      BY <3>2, <2>5, <2>6
    <3>3. CASE v \notin used
      <4>1. v \in predicated /\ world.contracts = "panic"
        <5>1. world.contracts # "off"
          BY <3>1, <3>3, <2>9, <1>4 DEF Body!Guarded
        <5>2. world.contracts \in {"off", "panic"}
          BY DEF NamesInv, Typed
        <5> QED  BY <5>1, <5>2, <3>1, <3>3
      <4>2. Excused(v) \/ \E j \in DOMAIN open : open[j].invariant # Body!NoName /\ open[j].symbol = v
        BY <4>1, <2>4 DEF NamesInv, Marked
      <4>3. ASSUME NEW j \in 1..L, j # L, open[j].invariant # Body!NoName, open[j].symbol = v
            PROVE  FALSE
        <5>1. j \in 0..L /\ L - 1 \in 0..L /\ (j = L - 1 \/ j < L - 1)
          BY <4>3
        <5>2. bc[j] <= b
          BY <5>1, <1>1 DEF Depths
        <5>3. PICK m \in Nat : m = bc[j] /\ m <= b
          BY <5>1, <5>2
        <5>4. q \in (m + 1)..B
          <6>1. q \in Nat /\ q >= b + 1 /\ q <= B
            BY <2>1, <2>2
          <6> QED  BY <6>1, <5>3
        <5>5. blocks[q][n].no > open[j].symbol.no
          BY <5>3, <5>4, <4>3, <2>1, <1>1, <1>2 DEF Invariants
        <5> QED  BY <5>5, <4>3, <2>1, <2>3
      <4>4. ASSUME open[L].invariant # Body!NoName, open[L].symbol = v
            PROVE  \E use \in astray' : use.aril = v
        <5>1. Body!ChecksInvariant /\ Body!Top.symbol = v
          BY <4>1, <4>4, <1>1 DEF Body!ChecksInvariant, Body!Top
        <5>2. v \in InvariantReads \/ \E use \in InvariantStrays : use.aril = v
          BY <5>1, <1>2, InvariantEmission
        <5> QED  BY <5>2, <1>3, <1>4
      <4> QED  BY <4>2, <4>3, <4>4, <2>5, <1>2
    <3> QED  BY <3>2, <3>3
  <2> QED  BY <2>3, <2>7, <2>8, <2>9, <1>4 DEF LocalKinds
<1>5. ASSUME NEW it \in unread'
      PROVE  \/ it.assigned
             \/ it.of.by \in {"chan", "recv"}
             \/ \E use \in astray' : use.aril = it.of
  <2>1. CASE it \in unread
    BY <2>1, <1>3 DEF NamesInv, NoneUnread, Body!NoneUnread
  <2>2. CASE it \notin unread
    <3>1. PICK v : /\ HeldFrom(blocks, b + 1, v)
                   /\ v.by # "param" /\ v \notin read \cup InvariantReads /\ ~Body!Guarded(v)
                   /\ it = [of |-> v, assigned |-> v \in assigned]
      BY <2>2 DEF Settles
    <3>2. it.of = v /\ (it.assigned = (v \in assigned))
      BY <3>1, Zenon
    <3>3. v \in assigned \/ v.by \in {"chan", "recv"} \/ \E use \in astray' : use.aril = v
      BY <3>1, <1>4
    <3> QED  BY <3>2, <3>3, Zenon
  <2> QED  BY <2>1, <2>2
<1> QED  BY <1>5 DEF NoneUnread, Body!NoneUnread

(* The end of a construct keeps the invariant.                               *)
LEMMA CloseKeeps ==
  ASSUME NamesInv, Body!Close
  PROVE  NamesInv'
<1>1. /\ scopes \in Seq(Frames) /\ blocks \in Seq(Blocks) /\ open \in Seq(Loops) /\ open # <<>>
  BY DEF NamesInv, Typed, Body!Close
<1>2. PICK L \in Nat : L = Len(open) /\ L >= 1
  BY <1>1
<1>3. PICK S \in Nat : S = Len(scopes)
  BY <1>1
<1>4. PICK B \in Nat : B = Len(blocks)
  BY <1>1
<1>5. PICK sc \in [0..L -> Nat], bc \in [0..L -> Nat] :
           Depths(sc, bc) /\ Agree(sc, bc) /\ Invariants(bc) /\ Mirrored(sc, bc) /\ Declared(sc, bc)
  BY <1>2 DEF NamesInv, Nested
<1>6. PICK s \in Nat, b \in Nat : s = sc[L - 1] /\ b = bc[L - 1]
  <2>1. L - 1 \in 0..L
    BY <1>2
  <2> QED  BY <2>1
<1>7. Closes(L, S, B, s, b)
  <2>1. Closes(L, S, B, sc[L - 1], bc[L - 1])
    BY <1>2, <1>3, <1>4, <1>5, CloseChains
  <2> QED  BY <2>1, <1>6
<1>8. Settles(s, b)
  BY <1>7, CloseSettles
<1>9. Nested'
  BY <1>5, <1>6, <1>7, <1>8, CloseNested
<1>10. Marked'
  BY <1>7, <1>8, CloseMarked
<1>11. NoneUnread'
  BY <1>5, <1>6, <1>7, <1>8, CloseUnread
<1>c. /\ world' = world /\ locals' = locals /\ uses' = uses /\ collided' = collided
      /\ open' \in Seq(Loops) /\ Len(open') = L - 1 /\ \A j \in 1..(L - 1) : open'[j] = open[j]
      /\ scopes' \in Seq(Frames) /\ Len(scopes') = s /\ \A i \in 1..s : scopes'[i] = scopes[i]
      /\ blocks' \in Seq(Blocks) /\ Len(blocks') = b /\ \A i \in 1..b : blocks'[i] = blocks[i]
      /\ s <= S /\ b <= B
  BY <1>7 DEF Closes
<1>d. /\ DOMAIN open = 1..L /\ (DOMAIN open)' = 1..(L - 1)
      /\ DOMAIN scopes = 1..S /\ (DOMAIN scopes)' = 1..s
      /\ DOMAIN blocks = 1..B /\ (DOMAIN blocks)' = 1..b
  BY <1>1, <1>2, <1>3, <1>4, <1>c
<1>12. /\ used' \subseteq used /\ predicated' \subseteq predicated /\ assigned' \subseteq assigned
  BY <1>8 DEF Settles
<1>13. Typed'
  BY <1>c, <1>12 DEF NamesInv, Typed, Body!Outside
<1>14. Numbered'
  <2>1. ASSUME NEW i \in 1..s, NEW n \in Name, scopes'[i][n] # Body!Nothing
        PROVE  Sound(world', locals', scopes'[i][n], n)
    <3>0. s \in Nat /\ S \in Nat /\ s <= S
      BY <1>c
    <3>1. i \in DOMAIN scopes /\ scopes'[i] = scopes[i]
      BY <3>0, <1>c, <1>d
    <3>2. Sound(world, locals, scopes[i][n], n)
      BY <3>1, <2>1 DEF NamesInv, Numbered
    <3> QED  BY <3>1, <3>2, <1>c DEF Sound
  <2>2. ASSUME NEW i \in 1..b, NEW n \in Name, blocks'[i][n] # Body!Nothing
        PROVE  blocks'[i][n].no <= locals'
    <3>1. i \in DOMAIN blocks /\ blocks'[i] = blocks[i]
      BY <1>c, <1>d
    <3> QED  BY <3>1, <2>2, <1>c DEF NamesInv, Numbered
  <2>3. \A v \in used' \cup predicated' : v.no <= locals'
    BY <1>12, <1>c DEF NamesInv, Numbered
  <2> QED  BY <2>1, <2>2, <2>3, <1>d DEF Numbered
<1>15. OpenShape'
  <2>1. ASSUME NEW j \in 1..(L - 1)
        PROVE  /\ open'[j].ended => open'[j].tail
               /\ open'[j].invariant # Body!NoName =>
                    /\ ~open'[j].tail
                    /\ open'[j].symbol # Body!Nothing
                    /\ Sound(world', locals', open'[j].symbol, open'[j].invariant)
                    /\ Body!Outside(world.outer, "field") = {}
    <3>1. j \in DOMAIN open /\ open'[j] = open[j]
      BY <1>c, <1>d
    <3>2. /\ open[j].ended => open[j].tail
          /\ open[j].invariant # Body!NoName =>
               /\ ~open[j].tail
               /\ open[j].symbol # Body!Nothing
               /\ Sound(world, locals, open[j].symbol, open[j].invariant)
               /\ Body!Outside(world.outer, "field") = {}
      BY <3>1 DEF NamesInv, OpenShape
    <3> QED  BY <3>1, <3>2, <1>c DEF Sound
  <2> QED  BY <2>1, <1>c, <1>d DEF OpenShape, Body!Outside
<1>16. RefersAlike'
  <2>1. \A use \in InvariantStrays : RightStray(use)
    BY <1>1, InvariantEmission
  <2>2. astray' = astray \cup InvariantStrays
    BY <1>8 DEF Settles
  <2> QED  BY <2>1, <2>2 DEF NamesInv, RefersAlike, Body!RefersAlike, RightStray
<1>17. NoRedeclaration'
  BY <1>c DEF NamesInv, NoRedeclaration, Body!NoRedeclaration
<1> QED  BY <1>9, <1>10, <1>11, <1>13, <1>14, <1>15, <1>16, <1>17 DEF NamesInv

-----------------------------------------------------------------------------
(* The chains before the body: what is outside of it and the parameters.     *)
Begun(outer) ==
  /\ outer \in [Name -> Body!Outer]
  /\ world.outer = outer /\ world \in [outer : [Name -> Body!Outer], contracts : {"off", "panic"}]
  /\ Body!Outside(outer, "field") # {} => world.contracts = "off"
  /\ scopes \in Seq(Frames) /\ Len(scopes) = 4 /\ blocks \in Seq(Blocks) /\ Len(blocks) = 2
  /\ \A n \in Name :
       /\ scopes[1][n] = IF outer[n] = "variant" THEN Body!Binding("variant", n, 0)
                         ELSE IF outer[n] = "let" THEN Body!Binding("let", n, 0) ELSE Body!Nothing
       /\ scopes[2][n] = IF outer[n] = "field" THEN Body!Binding("field", n, 0) ELSE Body!Nothing
       /\ scopes[3][n] = IF outer[n] = "param" THEN Body!Binding("param", n, 0) ELSE Body!Nothing
       /\ scopes[4][n] = Body!Nothing
       /\ blocks[1][n] = IF outer[n] = "let" THEN Body!Binding("let", n, 0) ELSE Body!Nothing
       /\ blocks[2][n] = IF outer[n] = "param" THEN Body!Binding("param", n, 0) ELSE Body!Nothing
  /\ open \in Seq(Loops) /\ Len(open) = 1
  /\ open[1].scopes = 2 /\ open[1].blocks = 1 /\ ~open[1].ended /\ ~open[1].inlined
  /\ open[1].invariant = Body!NoName
  /\ locals = 0 /\ uses = 0 /\ used = {} /\ predicated = {} /\ assigned = {} /\ read = {}
  /\ astray = {} /\ collided = {} /\ unread = {}

(* The frames of the names outside and of the parameters.                    *)
LEMMA FramesAtFirst ==
  ASSUME NEW outer \in [Name -> Body!Outer], NEW by \in {"let", "param"}
  PROVE  /\ Body!Frame(by, Body!Outside(outer, by)) \in Blocks
         /\ \A n \in Name : Body!Frame(by, Body!Outside(outer, by))[n]
                              = IF outer[n] = by THEN Body!Binding(by, n, 0) ELSE Body!Nothing
<1>1. \A n \in Name : Body!Binding(by, n, 0) \in [by : LocalKinds, name : Name, no : Nat]
  BY DEF Body!Binding, LocalKinds
<1> QED  BY <1>1 DEF Body!Frame, Body!Outside, Blocks

(* The outermost scope: variants and what else the file declares.            *)
LEMMA OutmostAtFirst ==
  ASSUME NEW outer \in [Name -> Body!Outer], NEW top \in Blocks,
         \A n \in Name : top[n] = IF outer[n] = "let" THEN Body!Binding("let", n, 0) ELSE Body!Nothing,
         NEW f, f = [n \in Name |-> IF outer[n] = "variant" THEN Body!Binding("variant", n, 0) ELSE top[n]]
  PROVE  /\ f \in Frames
         /\ \A n \in Name : f[n] = IF outer[n] = "variant" THEN Body!Binding("variant", n, 0)
                                    ELSE IF outer[n] = "let" THEN Body!Binding("let", n, 0) ELSE Body!Nothing
<1>1. \A n \in Name : Body!Binding("variant", n, 0) \in Bindings
  BY DEF Body!Binding, Bindings
<1>2. \A n \in Name : top[n] \in Bindings \cup {Body!Nothing}
  <2>1. top \in Frames
    BY BlocksAreFrames
  <2> QED  BY <2>1 DEF Frames
<1>3. \A n \in Name : f[n] \in Bindings \cup {Body!Nothing}
  BY <1>1, <1>2
<1> QED  BY <1>3 DEF Frames

(* The scope of the receiver's fields.                                       *)
LEMMA FieldsAtFirst ==
  ASSUME NEW outer \in [Name -> Body!Outer],
         NEW f, f = Body!Frame("field", Body!Outside(outer, "field"))
  PROVE  /\ f \in Frames
         /\ \A n \in Name : f[n] = IF outer[n] = "field" THEN Body!Binding("field", n, 0) ELSE Body!Nothing
<1>1. \A n \in Name : Body!Binding("field", n, 0) \in Bindings
  BY DEF Body!Binding, Bindings
<1>2. /\ f = [n \in Name |-> IF n \in Body!Outside(outer, "field") THEN Body!Binding("field", n, 0) ELSE Body!Nothing]
      /\ \A n \in Name : n \in Body!Outside(outer, "field") <=> outer[n] = "field"
  BY DEF Body!Frame, Body!Outside
<1>3. \A n \in Name : f[n] = IF outer[n] = "field" THEN Body!Binding("field", n, 0) ELSE Body!Nothing
  BY <1>2
<1>4. \A n \in Name : f[n] \in Bindings \cup {Body!Nothing}
  BY <1>1, <1>3
<1> QED  BY <1>2, <1>3, <1>4 DEF Frames

(* Init begins a body with these chains.                                     *)
LEMMA Begins ==
  ASSUME Body!Init
  PROVE  \E outer : Begun(outer)
<1>1. PICK outer \in [Name -> Body!Outer], contracts \in {"off", "panic"} :
             LET top == Body!Frame("let", Body!Outside(outer, "let"))
                 params == Body!Frame("param", Body!Outside(outer, "param"))
             IN  /\ Body!Outside(outer, "field") # {} => contracts = "off"
                 /\ world = [outer |-> outer, contracts |-> contracts]
                 /\ scopes = << [n \in Name |-> IF outer[n] = "variant" THEN Body!Binding("variant", n, 0) ELSE top[n]],
                                Body!Frame("field", Body!Outside(outer, "field")), params, Body!Empty >>
                 /\ blocks = <<top, params>>
                 /\ open = << [scopes |-> 2, blocks |-> 1, tail |-> TRUE, inlined |-> FALSE, ended |-> FALSE,
                               invariant |-> Body!NoName, symbol |-> Body!Nothing] >>
  BY DEF Body!Init
<1>2. PICK top \in Blocks : /\ top = Body!Frame("let", Body!Outside(outer, "let"))
                            /\ \A n \in Name : top[n] = IF outer[n] = "let" THEN Body!Binding("let", n, 0) ELSE Body!Nothing
  BY FramesAtFirst
<1>3. PICK params \in Blocks : /\ params = Body!Frame("param", Body!Outside(outer, "param"))
                               /\ \A n \in Name : params[n] = IF outer[n] = "param" THEN Body!Binding("param", n, 0) ELSE Body!Nothing
  BY FramesAtFirst
<1>4. PICK fields \in Frames : /\ fields = Body!Frame("field", Body!Outside(outer, "field"))
                               /\ \A n \in Name : fields[n] = IF outer[n] = "field" THEN Body!Binding("field", n, 0) ELSE Body!Nothing
  BY FieldsAtFirst
<1>5. PICK outmost \in Frames : /\ outmost = [n \in Name |-> IF outer[n] = "variant" THEN Body!Binding("variant", n, 0) ELSE top[n]]
                                /\ \A n \in Name : outmost[n] = IF outer[n] = "variant" THEN Body!Binding("variant", n, 0)
                                     ELSE IF outer[n] = "let" THEN Body!Binding("let", n, 0) ELSE Body!Nothing
  <2>1. PICK f : f = [n \in Name |-> IF outer[n] = "variant" THEN Body!Binding("variant", n, 0) ELSE top[n]]
    OBVIOUS
  <2>2. /\ f \in Frames
        /\ \A n \in Name : f[n] = IF outer[n] = "variant" THEN Body!Binding("variant", n, 0)
                                   ELSE IF outer[n] = "let" THEN Body!Binding("let", n, 0) ELSE Body!Nothing
    BY <1>2, <2>1, OutmostAtFirst
  <2> QED  BY <2>1, <2>2
<1>6. /\ scopes = <<outmost, fields, params, Body!Empty>> /\ blocks = <<top, params>>
      /\ world = [outer |-> outer, contracts |-> contracts]
      /\ Body!Outside(outer, "field") # {} => contracts = "off"
      /\ open = << [scopes |-> 2, blocks |-> 1, tail |-> TRUE, inlined |-> FALSE, ended |-> FALSE,
                    invariant |-> Body!NoName, symbol |-> Body!Nothing] >>
  BY <1>1, <1>2, <1>3, <1>4, <1>5
<1>7. scopes \in Seq(Frames) /\ Len(scopes) = 4 /\ blocks \in Seq(Blocks) /\ Len(blocks) = 2
  <2>1. params \in Frames /\ Body!Empty \in Frames
    BY BlocksAreFrames, EmptyFrame
  <2> QED  BY <1>6, <2>1
<1>8. /\ scopes[1] = outmost /\ scopes[2] = fields /\ scopes[3] = params /\ scopes[4] = Body!Empty
      /\ blocks[1] = top /\ blocks[2] = params
  BY <1>6
<1>9. PICK o \in Loops : /\ o = [scopes |-> 2, blocks |-> 1, tail |-> TRUE, inlined |-> FALSE, ended |-> FALSE,
                                 invariant |-> Body!NoName, symbol |-> Body!Nothing]
                         /\ o.scopes = 2 /\ o.blocks = 1 /\ ~o.ended /\ ~o.inlined /\ o.invariant = Body!NoName
  <2>1. PICK o : o = [scopes |-> 2, blocks |-> 1, tail |-> TRUE, inlined |-> FALSE, ended |-> FALSE,
                      invariant |-> Body!NoName, symbol |-> Body!Nothing]
    OBVIOUS
  <2>2. o \in Loops
    BY <2>1 DEF Loops
  <2>3. o.scopes = 2 /\ o.blocks = 1 /\ ~o.ended /\ ~o.inlined /\ o.invariant = Body!NoName
    BY <2>1
  <2> QED  BY <2>1, <2>2, <2>3
<1>10. open = <<o>>
  BY <1>6, <1>9
<1>11. open \in Seq(Loops) /\ Len(open) = 1 /\ open[1] = o
  BY <1>10
<1>12. /\ locals = 0 /\ uses = 0 /\ used = {} /\ predicated = {} /\ assigned = {} /\ read = {}
       /\ astray = {} /\ collided = {} /\ unread = {}
  BY DEF Body!Init
<1>13. /\ world.outer = outer /\ world.contracts = contracts
       /\ world \in [outer : [Name -> Body!Outer], contracts : {"off", "panic"}]
  BY <1>6
<1>14. Begun(outer)
  BY <1>2, <1>3, <1>4, <1>5, <1>6, <1>7, <1>8, <1>9, <1>11, <1>12, <1>13, EmptyFrame DEF Begun
<1> QED  BY <1>14

(* The invariant holds before the body.                                      *)
LEMMA BeginsRight ==
  ASSUME Body!Init
  PROVE  NamesInv
<1>1. PICK outer : Begun(outer)
  BY Begins
<1>2. /\ scopes \in Seq(Frames) /\ DOMAIN scopes = 1..4 /\ Len(scopes) = 4
      /\ blocks \in Seq(Blocks) /\ DOMAIN blocks = 1..2 /\ Len(blocks) = 2
      /\ open \in Seq(Loops) /\ DOMAIN open = {1} /\ Len(open) = 1
      /\ locals = 0
  BY <1>1 DEF Begun
<1>3. Typed
  BY <1>1 DEF Begun, Typed
<1>4. Numbered
  <2>1. ASSUME NEW i \in 1..4, NEW n \in Name, scopes[i][n] # Body!Nothing
        PROVE  Sound(world, locals, scopes[i][n], n)
    <3>1. i = 1 \/ i = 2 \/ i = 3 \/ i = 4
      OBVIOUS
    <3>2. \/ scopes[i][n] = Body!Binding("variant", n, 0) /\ world.outer[n] = "variant"
          \/ scopes[i][n] = Body!Binding("field", n, 0) /\ world.outer[n] = "field"
          \/ scopes[i][n] = Body!Binding("let", n, 0)
          \/ scopes[i][n] = Body!Binding("param", n, 0)
      BY <1>1, <2>1, <3>1 DEF Begun
    <3>3. 0 <= locals
      BY <1>2
    <3> QED  BY <3>2, <3>3 DEF Sound, Body!Binding
  <2>2. ASSUME NEW i \in 1..2, NEW n \in Name, blocks[i][n] # Body!Nothing
        PROVE  blocks[i][n].no <= locals
    <3>1. i = 1 \/ i = 2
      OBVIOUS
    <3>2. blocks[i][n] = Body!Binding("let", n, 0) \/ blocks[i][n] = Body!Binding("param", n, 0)
      BY <1>1, <2>2, <3>1 DEF Begun
    <3> QED  BY <3>2, <1>2 DEF Body!Binding
  <2> QED  BY <2>1, <2>2, <1>1, <1>2 DEF Numbered, Begun
<1>5. OpenShape
  BY <1>1, <1>2 DEF OpenShape, Begun
<1>6. PICK sc \in [0..1 -> Nat], bc \in [0..1 -> Nat] : sc[0] = 2 /\ sc[1] = 4 /\ bc[0] = 1 /\ bc[1] = 2
  <2>1. PICK sc : sc = [j \in 0..1 |-> IF j = 0 THEN 2 ELSE 4]
    OBVIOUS
  <2>2. PICK bc : bc = [j \in 0..1 |-> IF j = 0 THEN 1 ELSE 2]
    OBVIOUS
  <2>3. sc \in [0..1 -> Nat] /\ sc[0] = 2 /\ sc[1] = 4
    BY <2>1
  <2>4. bc \in [0..1 -> Nat] /\ bc[0] = 1 /\ bc[1] = 2
    BY <2>2
  <2> QED  BY <2>3, <2>4
<1>7. Depths(sc, bc)
  <2>1. \A i \in 0..1 : i = 0 \/ i = 1
    OBVIOUS
  <2> QED  BY <2>1, <1>1, <1>2, <1>6 DEF Depths, Begun
<1>8. Agree(sc, bc)
  <2> SUFFICES ASSUME NEW n \in Name, NEW b \in Bindings,
                      world.outer[n] # "variant", b.by # "field", Sees(scopes, 4, n, b)
               PROVE  Sees(blocks, 2, n, b)
    BY <1>2, <1>6 DEF Agree
  <2>1. PICK i \in 1..4 : /\ scopes[i][n] = b /\ b # Body!Nothing
                          /\ \A l \in (i + 1)..4 : scopes[l][n] = Body!Nothing
    BY DEF Sees
  <2>2. i = 1 \/ i = 2 \/ i = 3 \/ i = 4
    OBVIOUS
  <2>3. ~(i = 4) /\ ~(i = 2)
    <3>1. scopes[4][n] = Body!Nothing
      BY <1>1 DEF Begun
    <3>2. scopes[2][n] = Body!Binding("field", n, 0) \/ scopes[2][n] = Body!Nothing
      BY <1>1 DEF Begun
    <3>3. Body!Binding("field", n, 0).by = "field"
      BY DEF Body!Binding
    <3> QED  BY <3>1, <3>2, <3>3, <2>1
  <2>4. CASE i = 1
    <3>1. blocks[1][n] = b /\ blocks[2][n] = Body!Nothing
      BY <1>1, <2>1, <2>4 DEF Begun
    <3>2. 1 \in 1..2 /\ \A l \in (1 + 1)..2 : l = 2
      OBVIOUS
    <3> QED  BY <3>1, <3>2, <2>1 DEF Sees
  <2>5. CASE i = 3
    <3>1. blocks[2][n] = b
      BY <1>1, <2>1, <2>5 DEF Begun
    <3>2. 2 \in 1..2 /\ (2 + 1)..2 = {}
      OBVIOUS
    <3> QED  BY <3>1, <3>2, <2>1 DEF Sees
  <2> QED  BY <2>2, <2>3, <2>4, <2>5
<1>9. Invariants(bc)
  BY <1>1, <1>2 DEF Invariants, Begun
<1>first. /\ \A n \in Name : blocks[2][n] # Body!Nothing => blocks[2][n].by = "param"
          /\ \A n \in Name : blocks[1][n] # Body!Nothing => blocks[1][n].by = "let"
  <2>1. /\ \A n \in Name : blocks[2][n] # Body!Nothing => blocks[2][n] = Body!Binding("param", n, 0)
        /\ \A n \in Name : blocks[1][n] # Body!Nothing => blocks[1][n] = Body!Binding("let", n, 0)
    BY <1>1 DEF Begun
  <2>2. \A n \in Name : Body!Binding("param", n, 0).by = "param" /\ Body!Binding("let", n, 0).by = "let"
    BY DEF Body!Binding
  <2> QED  BY <2>1, <2>2
<1>10. Mirrored(sc, bc)
  BY <1>2, <1>6, <1>first DEF Mirrored
<1>11. Declared(sc, bc)
  <2>1. ASSUME NEW n \in Name, NEW q \in (1 + 1)..2, blocks[q][n].by \in {"let", "var", "tuple"}
        PROVE  FALSE
    <3>1. q = 2
      OBVIOUS
    <3> QED  BY <3>1, <2>1, <1>first, NothingIsNone
  <2> QED  BY <2>1, <1>2, <1>6 DEF Declared
<1>12. Nested
  BY <1>2, <1>6, <1>7, <1>8, <1>9, <1>10, <1>11 DEF Nested
<1>13. Marked
  <2>1. ASSUME NEW q \in 1..2, NEW n \in Name, blocks[q][n].by \in {"counter", "key"}
        PROVE  FALSE
    <3>1. q = 1 \/ q = 2
      OBVIOUS
    <3> QED  BY <3>1, <2>1, <1>first, NothingIsNone
  <2> QED  BY <2>1, <1>1, <1>2 DEF Marked, Begun
<1>14. RefersAlike /\ NoRedeclaration /\ NoneUnread
  BY <1>1 DEF Begun, RefersAlike, NoRedeclaration, NoneUnread,
              Body!RefersAlike, Body!NoRedeclaration, Body!NoneUnread
<1> QED  BY <1>3, <1>4, <1>5, <1>12, <1>13, <1>14 DEF NamesInv

(* It does not depend on anything else.                                      *)
LEMMA StillNamed ==
  ASSUME NamesInv, UNCHANGED Body!vars
  PROVE  NamesInv'
<1>1. /\ world' = world /\ scopes' = scopes /\ blocks' = blocks /\ open' = open
      /\ locals' = locals /\ uses' = uses /\ used' = used /\ predicated' = predicated
      /\ assigned' = assigned /\ read' = read /\ astray' = astray /\ collided' = collided /\ unread' = unread
  BY DEF Body!vars
<1>2. Typed' /\ Numbered' /\ OpenShape'
  BY <1>1 DEF NamesInv, Typed, Numbered, OpenShape, Sound, Body!Outside
<1>3. Nested'
  <2>1. PICK sc \in [0..Len(open) -> Nat], bc \in [0..Len(open) -> Nat] :
          Depths(sc, bc) /\ Agree(sc, bc) /\ Invariants(bc) /\ Mirrored(sc, bc) /\ Declared(sc, bc)
    BY DEF NamesInv, Nested
  <2>2. Depths(sc, bc)' /\ Agree(sc, bc)' /\ Invariants(bc)'
    BY <2>1, <1>1 DEF Depths, Agree, Invariants
  <2>3. Mirrored(sc, bc)'
    BY <2>1, <1>1 DEF Mirrored
  <2>4. Declared(sc, bc)'
    <3>1. Declared(sc, bc)' <=> Declared(sc, bc)
      BY <1>1 DEF Declared
    <3> QED  BY <2>1, <3>1
  <2> QED  BY <2>1, <2>2, <2>3, <2>4, <1>1 DEF Nested
<1>4. Marked'
  BY <1>1 DEF NamesInv, Marked, InBlocks, Excused
<1>5. RefersAlike' /\ NoRedeclaration' /\ NoneUnread'
  BY <1>1 DEF NamesInv, RefersAlike, NoRedeclaration, NoneUnread,
              Body!RefersAlike, Body!NoRedeclaration, Body!NoneUnread
<1> QED  BY <1>2, <1>3, <1>4, <1>5 DEF NamesInv

(* Every step keeps it.                                                      *)
LEMMA StepsRight == NamesInv /\ [Body!Next]_Body!vars => NamesInv'
<1> SUFFICES ASSUME NamesInv, [Body!Next]_Body!vars  PROVE NamesInv'
  OBVIOUS
<1>1. ASSUME NEW n \in Name, Body!Use(n) \/ Body!Assign(n)  PROVE NamesInv'
  BY <1>1, UseKeeps
<1>2. ASSUME NEW n \in Name, NEW by \in {"let", "var", "chan", "tuple"}, Body!Declare(by, n)  PROVE NamesInv'
  BY <1>2, DeclareKeeps
<1>3. CASE Body!OpenBlock \/ Body!OpenTailBlock \/ Body!OpenTailBranch
  BY <1>3, BlockKeeps DEF BlockLike
<1>4. ASSUME NEW n \in Name,
             \/ \E tail \in BOOLEAN : Body!OpenArm(n, tail)
             \/ Body!OpenCatch(n) \/ Body!OpenReceive(n)
             \/ \E form \in {"full", "short unit", "short value"} : Body!OpenClosure(n, form)
      PROVE  NamesInv'
  <2>1. Binder(n)
    BY <1>4 DEF Binder
  <2> QED  BY <2>1, BinderKeeps
<1>5. ASSUME NEW i \in Name \cup {Body!NoName}, Body!OpenWhile(i)  PROVE NamesInv'
  BY <1>5, WhileKeeps
<1>6. ASSUME NEW n \in Name, NEW i \in Name \cup {Body!NoName}, Body!OpenFor(n, i)  PROVE NamesInv'
  BY <1>6, ForKeeps
<1>7. ASSUME NEW n \in Name, NEW h \in Name \cup {Body!NoName}, Body!OpenRange(n, h)  PROVE NamesInv'
  BY <1>7, RangeKeeps
<1>8. ASSUME NEW k \in Name, NEW v \in Name, NEW m \in Name, Body!OpenEntries(k, v, m)  PROVE NamesInv'
  BY <1>8, EntriesKeeps
<1>9. CASE Body!Close
  BY <1>9, CloseKeeps
<1>10. CASE UNCHANGED Body!vars
  BY <1>10, StillNamed
<1> QED  BY <1>1, <1>2, <1>3, <1>4, <1>5, <1>6, <1>7, <1>8, <1>9, <1>10, Zenon DEF Body!Next

(* The invariant holds of every body.                                        *)
LEMMA NamesAlways == NamesSpec => []NamesInv
<1>1. Body!Init => NamesInv
  BY BeginsRight
<1> QED  BY <1>1, StepsRight, PTL DEF NamesSpec, Body!Spec

(* Every name of an accepted body, of any length and depth, reads in Go      *)
(* what it reads in Aril, but where an expression is emitted inside of a     *)
(* binding, or a local has the name of a variant (codegen's emitExpr).       *)
THEOREM NamesReadAlike == NamesSpec => []RefersAlike
<1>1. NamesInv => RefersAlike
  BY DEF NamesInv
<1> QED  BY <1>1, NamesAlways, PTL

(* Go redeclares in one block only what Aril binds in the scope around: a    *)
(* parameter or what a handler, a receive or a loop over a map binds, or in  *)
(* a trailing block (emitBlockTail).                                         *)
THEOREM NothingDeclaredTwice == NamesSpec => []NoRedeclaration
<1>1. NamesInv => NoRedeclaration
  BY DEF NamesInv
<1> QED  BY <1>1, NamesAlways, PTL

(* Go's "declared and not used" is met only by variables that are merely     *)
(* assigned, channels, what a receive binds, and what is read under a name   *)
(* that strays (reportUnusedLocals, emitUnusedBindingGuard).                 *)
THEOREM NothingLeftUnread == NamesSpec => []NoneUnread
<1>1. NamesInv => NoneUnread
  BY DEF NamesInv
<1> QED  BY <1>1, NamesAlways, PTL
=============================================================================
