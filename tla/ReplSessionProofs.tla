------------------------- MODULE ReplSessionProofs -------------------------
(***************************************************************************)
(* A session of `aril repl` is a ReplProgram: for any inputs, bounds and   *)
(* sequence of lines, each step of the session either adds a text to the   *)
(* program, empties it or its statements, or leaves it as it was.          *)
(*                                                                         *)
(* What makes it so is that undoing an addition gives back the session     *)
(* from before it (Undone), and that no two declarations of a session have *)
(* one head and name, so that the first one an input shadows is the only   *)
(* one (AddedIsWith).                                                      *)
(***************************************************************************)
EXTENDS ReplSession, SequenceTheorems, TLAPS

Sessions == [imports : Seq(Texts), decls : Seq(Texts), stmts : Seq(Texts)]

OneOfAName ==
  \A k, l \in DOMAIN session.decls :
    session.decls[k].head = session.decls[l].head /\ session.decls[k].name = session.decls[l].name
      => k = l

IInv == session \in Sessions /\ OneOfAName
-----------------------------------------------------------------------------
(* An input is a text. *)
LEMMA InputOfIsText ==
  ASSUME NEW lines PROVE InputOf(lines) \in Texts
BY DEF InputOf, Texts, IsText, ById

LEMMA SlotIsSlot ==
  ASSUME NEW i PROVE Slot(i) \in Slots
BY DEF Slot, Slots

(* Dropping what was appended gives back the sequence. *)
LEMMA AppendDropped ==
  ASSUME NEW S, NEW s \in Seq(S), NEW e \in S
  PROVE  DropLast(Append(s, e)) = s
<1> DEFINE t == Append(s, e)
<1>1. t \in Seq(S) /\ Len(t) = Len(s) + 1 /\ Len(s) \in Nat
  OBVIOUS
<1>2. \A k \in 1 .. Len(s) : t[k] = s[k]
  OBVIOUS
<1>3. SubSeq(t, 1, Len(s)) \in Seq(S) /\ Len(SubSeq(t, 1, Len(s))) = Len(s)
      /\ \A k \in 1 .. Len(s) : SubSeq(t, 1, Len(s))[k] = t[k]
  BY <1>1, SubSeqProperties
<1>4. SubSeq(t, 1, Len(s)) = s
  BY <1>2, <1>3, SeqEqual
<1> QED BY <1>1, <1>4 DEF DropLast

(* An input that shadows declarations shadows one, the first.               *)
LEMMA ShadowsOne ==
  ASSUME IInv, NEW i \in Texts, Replaces(i)
  PROVE  LET k == First(FindDecl(session.decls, i))
         IN  k \in DOMAIN session.decls /\ FindDecl(session.decls, i) = {k}
<1> DEFINE S == FindDecl(session.decls, i)
<1>1. PICK k \in S : TRUE
  BY DEF Replaces
<1>2. S = {k}
  BY <1>1 DEF FindDecl, IInv, OneOfAName
<1>3. k \in Nat /\ k \in DOMAIN session.decls
  BY <1>1 DEF FindDecl, IInv, Sessions
<1>4. First(S) = k
  BY <1>2, <1>3 DEF First
<1> QED BY <1>2, <1>3, <1>4

(* The program becomes what ReplProgram says.                               *)
LEMMA AddedIsWith ==
  ASSUME IInv, NEW i \in Texts
  PROVE  Added(i).session = Program!With(session, i)
<1>1. CASE Replaces(i)
  <2> DEFINE k == First(FindDecl(session.decls, i))
             decls == session.decls
  <2>1. k \in DOMAIN decls /\ FindDecl(decls, i) = {k}
    BY <1>1, ShadowsOne
  <2>2. Program!Shadowed(session, i) = {k}
    BY <2>1 DEF FindDecl, Program!Shadowed
  <2>3. [decls EXCEPT ![k] = i] = Program!Replaced(decls, {k}, i)
    BY DEF IInv, Sessions, Program!Replaced
  <2>4. Program!With(session, i)
          = [session EXCEPT !.decls = Program!Replaced(decls, {k}, i)]
    <3>1. i.head \in DeclHeads /\ i.head # "import" /\ Program!Shadowed(session, i) # {}
      BY <1>1, <2>2 DEF Replaces, DeclHeads
    <3>2. Program!With(session, i)
            = [session EXCEPT !.decls = Program!Replaced(@, Program!Shadowed(session, i), i)]
      BY <3>1 DEF Program!With
    <3> QED BY <2>2, <3>2
  <2>5. Added(i).session = [session EXCEPT !.decls = [decls EXCEPT ![k] = i]]
    BY <1>1 DEF Added, IInv, Sessions
  <2> QED BY <2>3, <2>4, <2>5
<1>2. CASE ~Replaces(i)
  <2>1. Added(i).session = [session EXCEPT ![Slot(i)] = Append(@, i)]
    BY <1>2 DEF Added
  <2>2. Program!Shadowed(session, i) = FindDecl(session.decls, i)
    BY DEF Program!Shadowed, FindDecl
  <2> QED BY <1>2, <2>1, <2>2 DEF Program!With, Slot, Replaces, DeclHeads, IInv, Sessions
<1> QED BY <1>1, <1>2

(* It is a program with one declaration of a name.                          *)
LEMMA AddedOK ==
  ASSUME IInv, NEW i \in Texts
  PROVE  LET p == Added(i).session
         IN  /\ p \in Sessions
             /\ \A k, l \in DOMAIN p.decls :
                  p.decls[k].head = p.decls[l].head /\ p.decls[k].name = p.decls[l].name => k = l
<1> DEFINE p == Added(i).session
           decls == session.decls
<1>1. CASE Replaces(i)
  <2> DEFINE j == First(FindDecl(decls, i))
  <2>1. j \in DOMAIN decls /\ j \in FindDecl(decls, i)
    BY <1>1, ShadowsOne
  <2>2. p = [session EXCEPT !.decls = [decls EXCEPT ![j] = i]]
    BY <1>1 DEF Added, IInv, Sessions
  <2>3. decls \in Seq(Texts) /\ p.decls = [decls EXCEPT ![j] = i] /\ DOMAIN p.decls = DOMAIN decls
    BY <2>2 DEF IInv, Sessions
  <2>4. p.decls \in Seq(Texts)
    BY <2>1, <2>3
  <2>5. p \in Sessions
    BY <2>2, <2>3, <2>4 DEF IInv, Sessions
  <2>6. decls[j].head = i.head /\ decls[j].name = i.name
    BY <2>1 DEF FindDecl
  <2>7. \A k \in DOMAIN decls : p.decls[k].head = decls[k].head /\ p.decls[k].name = decls[k].name
    BY <2>1, <2>3, <2>6
  <2> QED BY <2>3, <2>5, <2>7 DEF IInv, OneOfAName
<1>2. CASE ~Replaces(i)
  <2>1. p = [session EXCEPT ![Slot(i)] = Append(@, i)] /\ Slot(i) \in Slots
    BY <1>2, SlotIsSlot DEF Added
  <2>2. p \in Sessions
    <3> DEFINE s == Append(session[Slot(i)], i)
    <3>4. s \in Seq(Texts) /\ p = [session EXCEPT ![Slot(i)] = s]
      BY <2>1 DEF IInv, Sessions, Slots
    <3> HIDE DEF s, p
    <3>1. CASE Slot(i) = "imports"
      BY <3>4, <3>1 DEF IInv, Sessions
    <3>2. CASE Slot(i) = "decls"
      BY <3>4, <3>2 DEF IInv, Sessions
    <3>3. CASE Slot(i) = "stmts"
      BY <3>4, <3>3 DEF IInv, Sessions
    <3> QED BY <2>1, <3>1, <3>2, <3>3 DEF Slots
  <2>3. CASE Slot(i) # "decls"
    BY <2>1, <2>2, <2>3 DEF IInv, Sessions, OneOfAName, Slots
  <2>4. CASE Slot(i) = "decls"
    <3>1. p.decls = Append(decls, i) /\ decls \in Seq(Texts)
      BY <2>1, <2>4 DEF IInv, Sessions
    <3>2. i.head \in DeclHeads
      BY <2>4 DEF Slot
    <3>3. \A k \in DOMAIN decls : ~(decls[k].head = i.head /\ decls[k].name = i.name)
      BY <1>2, <3>2 DEF Replaces, FindDecl
    <3>4. DOMAIN p.decls = DOMAIN decls \cup {Len(decls) + 1} /\ p.decls[Len(decls) + 1] = i
          /\ \A k \in DOMAIN decls : p.decls[k] = decls[k]
      BY <3>1
    <3> QED BY <2>2, <3>3, <3>4 DEF IInv, OneOfAName
  <2> QED BY <2>3, <2>4
<1> QED BY <1>1, <1>2

(* Rolling an addition back gives the session from before it.               *)
LEMMA Undone ==
  ASSUME IInv, NEW i \in Texts
  PROVE  Rollback(Added(i).session, Added(i).change) = session
<1>1. CASE Replaces(i)
  <2> DEFINE k == First(FindDecl(session.decls, i))
             decls == session.decls
  <2>1. k \in DOMAIN decls
    BY <1>1, ShadowsOne
  <2> DEFINE d == [decls EXCEPT ![k] = i]
             e == [d EXCEPT ![k] = decls[k]]
             p == [session EXCEPT !.decls = d]
  <2>2. Added(i) = [session |-> p,
                    change |-> [kind |-> "replaced", slot |-> "decls", index |-> k, prev |-> decls[k]]]
    BY <1>1 DEF Added, IInv, Sessions
  <2>3. e = decls
    <3>1. decls \in Seq(Texts) /\ k \in 1 .. Len(decls) /\ decls[k] \in Texts
      BY <2>1 DEF IInv, Sessions
    <3>2. d \in Seq(Texts) /\ Len(d) = Len(decls) /\ \A j \in 1 .. Len(decls) : j # k => d[j] = decls[j]
      BY <3>1
    <3>3. e \in Seq(Texts) /\ Len(e) = Len(decls) /\ \A j \in 1 .. Len(decls) : e[j] = decls[j]
      BY <3>1, <3>2
    <3> HIDE DEF e
    <3> QED BY <3>1, <3>3, SeqEqual
  <2>4. Rollback(Added(i).session, Added(i).change) = [p EXCEPT !.decls[k] = decls[k]]
    <3> HIDE DEF p, k, decls
    <3> QED BY <2>2 DEF Rollback
  <2>5. [p EXCEPT !.decls[k] = decls[k]] = [session EXCEPT !.decls = e]
    BY DEF IInv, Sessions
  <2> QED BY <2>3, <2>4, <2>5 DEF IInv, Sessions
<1>2. CASE ~Replaces(i)
  <2> DEFINE s == session[Slot(i)]
  <2>1. Added(i).session = [session EXCEPT ![Slot(i)] = Append(s, i)]
        /\ Added(i).change = [kind |-> "appended", slot |-> Slot(i)]
        /\ Slot(i) \in Slots /\ s \in Seq(Texts)
    BY <1>2, SlotIsSlot DEF Added, IInv, Sessions, Slots
  <2>2. Rollback(Added(i).session, Added(i).change)
          = [[session EXCEPT ![Slot(i)] = Append(s, i)] EXCEPT ![Slot(i)] = DropLast(@)]
    BY <2>1 DEF Rollback
  <2>3. DropLast(Append(s, i)) = s
    BY <2>1, AppendDropped
  <2> QED BY <2>1, <2>2, <2>3 DEF IInv, Sessions, Slots
<1> QED BY <1>1, <1>2
-----------------------------------------------------------------------------
LEMMA InitOK == Init => IInv /\ Program!Init
BY DEF Init, Empty, IInv, Sessions, OneOfAName, Program!Init, Program!Empty

(* A line keeps the invariant, and adds a text or changes nothing.          *)
LEMMA TypeOfLine ==
  ASSUME IInv, NEW l, Type(l)
  PROVE  IInv' /\ (Program!Next \/ UNCHANGED session)
<1> DEFINE i == InputOf(Append(buf, l))
<1>1. i \in Texts
  BY InputOfIsText
<1>2. CASE Continue(l) \/ Refuse(i)
  BY <1>2 DEF Continue, Refuse, IInv, OneOfAName
<1>3. CASE Keep(i)
  <2>1. session' = Added(i).session /\ session' = Program!With(session, i)
    BY <1>1, <1>3, AddedIsWith DEF Keep
  <2>2. session'.stmts # <<>> => Compiles(session')
    BY <1>3, <2>1 DEF Keep, NeedsRun
  <2>3. Program!Accept(i)
    BY <2>1, <2>2 DEF Program!Accept
  <2>4. IInv'
    BY <1>1, <2>1, AddedOK DEF IInv, OneOfAName
  <2> QED BY <1>1, <2>3, <2>4 DEF Program!Next
<1>4. CASE TakeOut(i)
  <2>1. session' = session
    BY <1>1, <1>4, Undone DEF TakeOut
  <2> QED BY <2>1 DEF IInv, OneOfAName
<1> QED BY <1>2, <1>3, <1>4 DEF Type

LEMMA StepOK ==
  ASSUME IInv, [Next]_vars
  PROVE  IInv' /\ [Program!Next]_session
<1>1. CASE \E l \in Lines : Type(l)
  BY <1>1, TypeOfLine
<1>2. CASE MetaReset
  BY <1>2 DEF MetaReset, Empty, IInv, Sessions, OneOfAName, Program!Next, Program!Reset, Program!Empty
<1>3. CASE MetaResetMain
  <2>1. session' = [session EXCEPT !.stmts = <<>>] /\ <<>> \in Seq(Texts)
    BY <1>3 DEF MetaResetMain
  <2>2. session' \in Sessions /\ session'.decls = session.decls
    BY <2>1 DEF IInv, Sessions
  <2> QED BY <2>1, <2>2 DEF IInv, OneOfAName, Program!Next, Program!ResetMain
<1>4. CASE UNCHANGED session
  BY <1>4 DEF IInv, OneOfAName
<1>5. (\E i \in Inputs : OneShot(i)) \/ Quit \/ CtrlC \/ UNCHANGED vars => UNCHANGED session
  BY DEF OneShot, Quit, CtrlC, vars
<1> QED BY <1>1, <1>2, <1>3, <1>4, <1>5 DEF Next, Meta

(* The session implements the program of ReplProgram: only a text that is   *)
(* kept, or a reset, changes it (replSession.add, rollback and runRepl).    *)
THEOREM SessionIsAProgram == Spec => RefinesProgram
<1>1. Init => IInv /\ Program!Init
  BY InitOK
<1>2. IInv /\ [Next]_vars => IInv' /\ [Program!Next]_session
  BY StepOK
<1> QED BY <1>1, <1>2, PTL DEF Spec, RefinesProgram, Program!Spec
-----------------------------------------------------------------------------
(* A line keeps a session that compiles: an input is kept when the session  *)
(* compiles with it, and taking one out gives back the session that did.    *)
LEMMA LineCompiles ==
  ASSUME IInv, SessionCompiles, NEW l, Type(l)
  PROVE  SessionCompiles'
<1> DEFINE i == InputOf(Append(buf, l))
<1>1. CASE Continue(l) \/ Refuse(i)
  BY <1>1 DEF Continue, Refuse, SessionCompiles
<1>2. CASE Keep(i)
  BY <1>2 DEF Keep, NeedsRun, SessionCompiles
<1>3. CASE TakeOut(i)
  BY <1>3, InputOfIsText, Undone DEF TakeOut, SessionCompiles
<1> QED BY <1>1, <1>2, <1>3 DEF Type

(* Whatever is typed, once there are statements the session that the next   *)
(* input is added to compiles (runOnce, markRejected, rollback).            *)
THEOREM SessionsCompile == Spec => []SessionCompiles
<1>1. Init => IInv /\ SessionCompiles
  BY InitOK DEF Init, Empty, SessionCompiles
<1>2. IInv /\ [Next]_vars => IInv'
  BY StepOK
<1>3. IInv /\ SessionCompiles /\ [Next]_vars => SessionCompiles'
  <2> SUFFICES ASSUME IInv, SessionCompiles, [Next]_vars PROVE SessionCompiles'
    OBVIOUS
  <2>1. CASE \E l \in Lines : Type(l)
    BY <2>1, LineCompiles
  <2>2. CASE MetaReset \/ MetaResetMain
    BY <2>2 DEF MetaReset, MetaResetMain, Empty, SessionCompiles, IInv, Sessions
  <2>3. CASE UNCHANGED session
    BY <2>3 DEF SessionCompiles
  <2>4. (\E i \in Inputs : OneShot(i)) \/ Quit \/ CtrlC \/ UNCHANGED vars => UNCHANGED session
    BY DEF OneShot, Quit, CtrlC, vars
  <2> QED BY <2>1, <2>2, <2>3, <2>4 DEF Next, Meta
<1> QED BY <1>1, <1>2, <1>3, PTL DEF Spec
=============================================================================
