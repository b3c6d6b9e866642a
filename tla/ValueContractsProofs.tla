------------------------ MODULE ValueContractsProofs ------------------------
(***************************************************************************)
(* For any goroutines, programs and number of open calls: the flag of the  *)
(* checks is tight (GuardIsTight), and a shared object satisfies its       *)
(* invariant outside of its methods (ObjectHolds).                         *)
(*                                                                         *)
(* The second needs to know who answers for an object that does not hold:  *)
(* a method that still has its invariant to check (Answers); and that the  *)
(* only construction under way is of an object nobody has (Owned, OneNew). *)
(*                                                                         *)
(* The second half is about the contracts of channels (ChannelRouting), for*)
(* any names, contracts, channels and depth of calls: a use reaches its    *)
(* contract's diagnostic (ContractReachesUses), which tells the truth      *)
(* (DiagnosticIsTrue).                                                     *)
(***************************************************************************)
EXTENDS MCContracts, FiniteSetTheorems, TLAPS

Causes == Clause \cup {"none", "body", "predicate"}

(* A frame; only the clauses that the flag guards are tested and entered.  *)
Frames == {fr \in [fn : Callee \cup {"new"}, at : Clause \cup {"body"},
                   stage : {"run", "eval", "called", "passed", "failed", "test", "enter",
                            "recover", "over"}] :
             fr.stage \in {"test", "enter", "passed", "failed", "over", "recover"} => fr.at \in Guarded}

Typed == stack \in [Caller -> Seq(Frames)] /\ panic \in [Caller -> Causes]

Check(g, i) == i \in DOMAIN stack[g] /\ Checks(stack[g][i])
Entering(g, i) == i \in DOMAIN stack[g] /\ stack[g][i].stage = "enter"

(* Unless goroutines overlap there is one check.                           *)
OneCheck == ~overlapped => \A g, h \in Caller : \A i, j \in Nat :
                             Check(g, i) /\ Check(h, j) => g = h /\ i = j

(* It has the flag up, ...                                                 *)
FlagUp == ~overlapped => \A g \in Caller : \A i \in Nat : Check(g, i) => inContract

(* ... for which nothing that it calls enters a check, and ...             *)
NoneEnters == ~overlapped => \A g \in Caller : \A i, j \in Nat :
                               Check(g, i) /\ i < j => ~Entering(g, j)

(* ... nobody else has, but for a panic.                                   *)
FlagMeans == inContract =>
               \E g \in Caller : (\E i \in Nat : Check(g, i)) \/ panic[g] # "none"

Flagged == OneCheck /\ FlagUp /\ NoneEnters /\ FlagMeans

IInv == Typed /\ Flagged
-----------------------------------------------------------------------------
(* What becomes of the frames when the top one moves.                      *)
LEMMA Moved ==
  ASSUME Typed, NEW g \in Caller, stack[g] # <<>>, NEW e \in Frames,
         stack' = [stack EXCEPT ![g][Len(stack[g])] = e], panic' \in [Caller -> Causes]
  PROVE  /\ Typed'
         /\ Len(stack[g]) \in DOMAIN stack[g]
         /\ stack'[g][Len(stack[g])] = e
         /\ \A h \in Caller : DOMAIN stack'[h] = DOMAIN stack[h]
         /\ \A h \in Caller : \A i \in DOMAIN stack[h] :
              ~(h = g /\ i = Len(stack[g])) => stack'[h][i] = stack[h][i]
<1> DEFINE n == Len(stack[g])
<1>1. stack[g] \in Seq(Frames) /\ n \in Nat /\ DOMAIN stack[g] = 1 .. n
  BY DEF Typed
<1>2. n \in DOMAIN stack[g]
  BY <1>1
<1>3. stack'[g] = [stack[g] EXCEPT ![n] = e] /\ stack'[g] \in Seq(Frames)
  BY <1>1, <1>2 DEF Typed
<1>4. \A h \in Caller : h # g => stack'[h] = stack[h]
  BY DEF Typed
<1>5. stack' \in [Caller -> Seq(Frames)]
  BY <1>3, <1>4 DEF Typed
<1> QED  BY <1>1, <1>2, <1>3, <1>4, <1>5 DEF Typed

(* ... when it is popped, ...                                              *)
LEMMA Popped ==
  ASSUME Typed, NEW g \in Caller, stack[g] # <<>>, Pop(g), panic' \in [Caller -> Causes]
  PROVE  /\ Typed'
         /\ Len(stack[g]) \in DOMAIN stack[g]
         /\ \A h \in Caller : h # g => stack'[h] = stack[h]
         /\ DOMAIN stack'[g] = DOMAIN stack[g] \ {Len(stack[g])}
         /\ \A i \in DOMAIN stack'[g] : stack'[g][i] = stack[g][i]
<1> DEFINE n == Len(stack[g])
<1>1. stack[g] \in Seq(Frames) /\ n \in Nat /\ n # 0 /\ DOMAIN stack[g] = 1 .. n
  BY DEF Typed
<1>2. stack'[g] = SubSeq(stack[g], 1, n - 1)
  BY DEF Typed, Pop
<1>3. /\ stack'[g] \in Seq(Frames) /\ DOMAIN stack'[g] = 1 .. (n - 1)
      /\ \A i \in 1 .. (n - 1) : stack'[g][i] = stack[g][i]
  BY <1>1, <1>2
<1>4. \A h \in Caller : h # g => stack'[h] = stack[h]
  BY DEF Typed, Pop
<1>5. stack' \in [Caller -> Seq(Frames)]
  BY <1>3, <1>4 DEF Typed, Pop
<1> QED  BY <1>1, <1>3, <1>4, <1>5 DEF Typed

(* ... and when one is pushed.                                             *)
LEMMA Pushed ==
  ASSUME Typed, NEW g \in Caller, NEW e \in Frames, Push(g, e), panic' \in [Caller -> Causes]
  PROVE  /\ Typed'
         /\ \A h \in Caller : h # g => stack'[h] = stack[h]
         /\ Len(stack[g]) + 1 \notin DOMAIN stack[g]
         /\ DOMAIN stack'[g] = DOMAIN stack[g] \cup {Len(stack[g]) + 1}
         /\ \A i \in DOMAIN stack[g] : stack'[g][i] = stack[g][i]
         /\ stack'[g][Len(stack[g]) + 1] = e
<1> DEFINE n == Len(stack[g])
<1>1. stack[g] \in Seq(Frames) /\ n \in Nat /\ DOMAIN stack[g] = 1 .. n
  BY DEF Typed
<1>2. stack'[g] = Append(stack[g], e)
  BY DEF Typed, Push
<1>3. /\ stack'[g] \in Seq(Frames) /\ DOMAIN stack'[g] = 1 .. (n + 1)
      /\ \A i \in 1 .. n : stack'[g][i] = stack[g][i]
      /\ stack'[g][n + 1] = e
  BY <1>1, <1>2
<1>4. \A h \in Caller : h # g => stack'[h] = stack[h]
  BY DEF Typed, Push
<1>5. stack' \in [Caller -> Seq(Frames)]
  BY <1>3, <1>4 DEF Typed, Push
<1> QED  BY <1>1, <1>3, <1>4, <1>5 DEF Typed

(* The frames that a step makes are frames.                                *)
LEMMA TopIsFrame ==
  ASSUME Typed, NEW g \in Caller, stack[g] # <<>>
  PROVE  Top(g) \in Frames /\ Top(g) = stack[g][Len(stack[g])] /\ Len(stack[g]) \in DOMAIN stack[g]
BY DEF Typed, Top

LEMMA StartedIsFrame ==
  ASSUME NEW fn \in Callee \cup {"new"}
  PROVE  Started(fn) \in Frames /\ ~Checks(Started(fn)) /\ Started(fn).stage # "enter"
BY DEF Started, Frames, Frame, Callee, Clause, Checks, Guarded

(* A step that begins and ends no check, enters none and lets no panic     *)
(* pass leaves the flag in order.                                          *)
LEMMA SameChecks ==
  ASSUME Flagged, UNCHANGED checking,
         \A h \in Caller : \A i \in Nat : Check(h, i)' <=> Check(h, i),
         \A h \in Caller : \A i \in Nat : Entering(h, i)' => Entering(h, i),
         \A h \in Caller : panic[h] # "none" => panic'[h] # "none"
  PROVE  Flagged'
BY DEF Flagged, OneCheck, FlagUp, NoneEnters, FlagMeans, checking

GrowingPanic == /\ panic' \in [Caller -> Causes]
                /\ \A h \in Caller : panic[h] # "none" => panic'[h] # "none"

LEMMA QuietMove ==
  ASSUME IInv, NEW g \in Caller, stack[g] # <<>>, NEW e \in Frames,
         stack' = [stack EXCEPT ![g][Len(stack[g])] = e],
         Checks(e) <=> Checks(Top(g)), e.stage = "enter" => Top(g).stage = "enter",
         UNCHANGED checking, GrowingPanic
  PROVE  IInv'
<1> DEFINE n == Len(stack[g])
<1>1. /\ Typed' /\ n \in DOMAIN stack[g] /\ stack'[g][n] = e
      /\ \A h \in Caller : DOMAIN stack'[h] = DOMAIN stack[h]
      /\ \A h \in Caller : \A i \in DOMAIN stack[h] : ~(h = g /\ i = n) =>
           stack'[h][i] = stack[h][i]
  BY Moved DEF IInv, GrowingPanic
<1>2. Top(g) = stack[g][n]
  BY DEF Top
<1>3. ASSUME NEW h \in Caller, NEW i \in Nat
      PROVE  (Check(h, i)' <=> Check(h, i)) /\ (Entering(h, i)' => Entering(h, i))
  <2>1. CASE h = g /\ i = n
    BY <1>1, <1>2, <2>1 DEF Check, Entering, Checks
  <2>2. CASE ~(h = g /\ i = n)
    BY <1>1, <2>2 DEF Check, Entering, Checks
  <2> QED  BY <2>1, <2>2
<1> QED  BY <1>1, <1>3, SameChecks DEF IInv, GrowingPanic

LEMMA QuietPush ==
  ASSUME IInv, NEW g \in Caller, NEW e \in Frames, Push(g, e),
         ~Checks(e), e.stage # "enter", UNCHANGED checking, GrowingPanic
  PROVE  IInv'
<1> DEFINE n == Len(stack[g]) + 1
<1>1. /\ Typed' /\ n \notin DOMAIN stack[g] /\ stack'[g][n] = e
      /\ \A h \in Caller : h # g => stack'[h] = stack[h]
      /\ DOMAIN stack'[g] = DOMAIN stack[g] \cup {n}
      /\ \A i \in DOMAIN stack[g] : stack'[g][i] = stack[g][i]
  BY Pushed DEF IInv, GrowingPanic
<1>2. ASSUME NEW h \in Caller, NEW i \in Nat
      PROVE  (Check(h, i)' <=> Check(h, i)) /\ (Entering(h, i)' => Entering(h, i))
  <2>1. CASE h = g /\ i = n
    BY <1>1, <2>1 DEF Check, Entering, Checks
  <2>2. CASE ~(h = g /\ i = n)
    BY <1>1, <2>2 DEF Check, Entering, Checks
  <2> QED  BY <2>1, <2>2
<1> QED  BY <1>1, <1>2, SameChecks DEF IInv, GrowingPanic

(* A frame that is left has no check under way, unless it panics.          *)
LEMMA QuietPop ==
  ASSUME IInv, NEW g \in Caller, stack[g] # <<>>, Pop(g),
         ~Checks(Top(g)) \/ panic'[g] # "none", UNCHANGED checking, GrowingPanic
  PROVE  IInv'
<1> DEFINE n == Len(stack[g])
<1>1. /\ Typed' /\ n \in DOMAIN stack[g]
      /\ \A h \in Caller : h # g => stack'[h] = stack[h]
      /\ DOMAIN stack'[g] = DOMAIN stack[g] \ {n}
      /\ \A i \in DOMAIN stack'[g] : stack'[g][i] = stack[g][i]
  BY Popped DEF IInv, GrowingPanic
<1>2. \A h \in Caller : \A i \in Nat : /\ Check(h, i)' => Check(h, i)
                                       /\ Check(h, i) => Check(h, i)' \/ (h = g /\ i = n)
                                       /\ Entering(h, i)' => Entering(h, i)
  BY <1>1 DEF Check, Entering, Checks
<1>3. (OneCheck /\ FlagUp /\ NoneEnters)'
  BY <1>2 DEF IInv, Flagged, OneCheck, FlagUp, NoneEnters, checking
<1>4. CASE ~Checks(Top(g))
  <2>1. ~Check(g, n)
    BY <1>4 DEF Check, Top
  <2> QED  BY <1>2, <1>3, <1>1, <2>1 DEF IInv, Flagged, FlagMeans, checking, GrowingPanic
<1>5. CASE panic'[g] # "none"
  BY <1>1, <1>3, <1>5 DEF IInv, Flagged, FlagMeans
<1> QED  BY <1>4, <1>5
-----------------------------------------------------------------------------
(* The actions.                                                            *)

LEMMA NothingMoves ==
  ASSUME IInv, UNCHANGED <<stack, checking>>, GrowingPanic
  PROVE  IInv'
<1>1. Typed'
  BY DEF IInv, Typed, GrowingPanic
<1> QED  BY <1>1, SameChecks DEF IInv, Check, Entering, Checks, GrowingPanic

LEMMA SamePanic ==
  ASSUME IInv, UNCHANGED panics
  PROVE  GrowingPanic
BY DEF IInv, Typed, panics, GrowingPanic

LEMMA OnePanics ==
  ASSUME IInv, NEW g \in Caller, NEW what \in Causes \ {"none"}, Panics(g, what)
  PROVE  GrowingPanic /\ panic'[g] # "none"
BY DEF IInv, Typed, Panics, GrowingPanic

LEMMA BodySteps ==
  ASSUME IInv, NEW g \in Caller,
         \/ \E fn \in Callee : Call(g, fn)
         \/ Construct(g) \/ Mutate(g) \/ CallClosure(g)
         \/ Iterate(g) \/ BodyPanics(g) \/ Return(g)
  PROVE  IInv'
<1>1. ASSUME NEW fn \in Callee, Call(g, fn)  PROVE IInv'
  BY <1>1, StartedIsFrame, SamePanic, QuietPush DEF Call
<1>2. CASE Construct(g)
  BY <1>2, StartedIsFrame, SamePanic, QuietPush DEF Construct
<1>3. CASE Mutate(g) \/ CallClosure(g)
  BY <1>3, SamePanic, NothingMoves DEF Mutate, CallClosure
<1>4. CASE Iterate(g)
  <2>1. Frame(Top(g).fn, "loop", "eval") \in Frames /\ ~Checks(Top(g))
    BY <1>4, TopIsFrame DEF IInv, Iterate, In, Frames, Frame, Clause, Callee, Checks, Guarded
  <2> QED  BY <1>4, <2>1, SamePanic, QuietMove DEF Iterate, In, Move, Frame, Checks, Guarded
<1>5. CASE BodyPanics(g)
  <2>1. Panics(g, "body") /\ "body" \in Causes \ {"none"}
    BY <1>5 DEF BodyPanics, Causes, Clause
  <2>2. GrowingPanic
    BY <2>1, OnePanics
  <2> QED  BY <1>5, <2>2, NothingMoves DEF BodyPanics
<1>6. CASE Return(g)
  <2>1. Frame(Top(g).fn, Deferred(Top(g).fn), "recover") \in Frames /\ ~Checks(Top(g))
    BY <1>6, TopIsFrame DEF IInv, Return, In, Frames, Frame, Clause, Callee, Checks, Guarded, Deferred
  <2> QED  BY <1>6, <2>1, SamePanic, QuietMove DEF Return, In, Move, Frame, Checks
<1> QED  BY <1>1, <1>2, <1>3, <1>4, <1>5, <1>6

(* A check that is over, or was none, takes the goroutine on.              *)
LEMMA PassedOn ==
  ASSUME IInv, NEW g \in Caller, stack[g] # <<>>, Passed(g), ~Checks(Top(g)),
         UNCHANGED checking, GrowingPanic
  PROVE  IInv'
<1>1. Top(g) \in Frames
  BY TopIsFrame DEF IInv
<1>2. CASE Top(g).at = "entry"
  <2>1. Frame(Top(g).fn, "requires", "test") \in Frames
    BY <1>1 DEF Frames, Frame, Clause, Guarded
  <2> QED  BY <1>2, <2>1, QuietMove DEF Passed, Move, Frame, Checks
<1>3. CASE Top(g).at \in {"requires", "loop"}
  <2>1. Frame(Top(g).fn, "body", "run") \in Frames
    BY <1>1 DEF Frames, Frame, Clause
  <2> QED  BY <1>3, <2>1, QuietMove DEF Passed, Move, Frame, Checks
<1>4. CASE Top(g).at \notin {"entry", "requires", "loop"}
  BY <1>4, QuietPop DEF Passed
<1> QED  BY <1>2, <1>3, <1>4

LEMMA TestStep ==
  ASSUME IInv, NEW g \in Caller, Test(g)
  PROVE  IInv'
<1>1. stack[g] # <<>> /\ Top(g).stage = "test" /\ ~Checks(Top(g))
  BY DEF Test, AtTest, Checks
<1>2. CASE inContract
  BY <1>1, <1>2, SamePanic, PassedOn DEF Test
<1>3. CASE ~inContract
  <2> DEFINE n == Len(stack[g])
             e == Frame(Top(g).fn, Top(g).at, "enter")
  <2>1. e \in Frames /\ ~Checks(e)
    BY <1>1, TopIsFrame DEF IInv, Frames, Frame, Checks
  <2>2. stack' = [stack EXCEPT ![g][n] = e]
    BY <1>3 DEF Test, Move
  <2>3. /\ Typed' /\ n \in DOMAIN stack[g] /\ stack'[g][n] = e
        /\ \A h \in Caller : DOMAIN stack'[h] = DOMAIN stack[h]
        /\ \A h \in Caller : \A i \in DOMAIN stack[h] : ~(h = g /\ i = n) =>
             stack'[h][i] = stack[h][i]
    <3> HIDE DEF e
    <3> QED  BY <1>1, <2>1, <2>2, SamePanic, Moved DEF Test, IInv, GrowingPanic
  <2>4. ASSUME NEW h \in Caller, NEW i \in Nat
        PROVE  Check(h, i)' <=> Check(h, i)
    <3>1. CASE h = g /\ i = n
      BY <1>1, <2>1, <2>3, <3>1 DEF Check, Top
    <3>2. CASE ~(h = g /\ i = n)
      BY <2>3, <3>2 DEF Check, Checks
    <3> QED  BY <3>1, <3>2
  <2>5. UNCHANGED checking /\ GrowingPanic
    BY SamePanic DEF Test
  <2>6. overlapped \/ \A h \in Caller : \A i \in Nat : ~Check(h, i)
    BY <1>3 DEF IInv, Flagged, FlagUp
  <2>7. Flagged'
    BY <2>4, <2>5, <2>6 DEF IInv, Flagged, OneCheck, FlagUp, NoneEnters, FlagMeans, checking, GrowingPanic
  <2> QED  BY <2>3, <2>7 DEF IInv
<1> QED  BY <1>2, <1>3

LEMMA EnterStep ==
  ASSUME IInv, NEW g \in Caller, Enter(g)
  PROVE  IInv'
<1> DEFINE n == Len(stack[g])
           e == Frame(Top(g).fn, Top(g).at, "eval")
<1>1. stack[g] # <<>> /\ Top(g) = stack[g][n] /\ stack[g][n].stage = "enter"
  BY DEF Enter, Top
<1>2. e \in Frames
  BY <1>1, TopIsFrame DEF IInv, Frames, Frame, Guarded
<1>3. stack' = [stack EXCEPT ![g][n] = e]
  BY DEF Enter, Move
<1>4. /\ Typed' /\ n \in DOMAIN stack[g] /\ stack'[g][n] = e
      /\ \A h \in Caller : DOMAIN stack'[h] = DOMAIN stack[h]
      /\ \A h \in Caller : \A i \in DOMAIN stack[h] : ~(h = g /\ i = n) =>
           stack'[h][i] = stack[h][i]
  <2> HIDE DEF e
  <2> QED  BY <1>1, <1>2, <1>3, SamePanic, Moved DEF Enter, IInv, GrowingPanic
<1>5. DOMAIN stack[g] = 1 .. n /\ n \in Nat /\ \A h \in Caller : DOMAIN stack[h] \subseteq Nat
  BY DEF IInv, Typed
<1>6. \A h \in Caller : \A i \in Nat : ~(h = g /\ i = n) =>
        (Check(h, i)' <=> Check(h, i)) /\ (Entering(h, i)' <=> Entering(h, i))
  BY <1>4 DEF Check, Entering, Checks
<1>7. Entering(g, n) /\ ~Entering(g, n)'
  BY <1>1, <1>4 DEF Entering, Frame
<1>8. inContract'
  BY DEF Enter
<1>9. ASSUME ~overlapped', NEW h \in Caller, NEW i \in Nat, Check(h, i)'
      PROVE  h = g /\ i = n
  <2>1. ~overlapped /\ \A k \in Caller \ {g} : ~InCheck(k)
    BY <1>9 DEF Enter, IInv
  <2>2. CASE h # g
    BY <1>6, <1>9, <2>1, <2>2 DEF Check, InCheck
  <2>3. CASE h = g /\ i # n
    <3>1. Check(g, i)
      BY <1>6, <1>9, <2>3
    <3>2. i < n
      BY <1>5, <2>3, <3>1 DEF Check
    <3> QED  BY <1>5, <1>7, <2>1, <3>1, <3>2 DEF IInv, Flagged, NoneEnters
  <2> QED  BY <2>2, <2>3
<1>10. (OneCheck /\ FlagUp)'
  BY <1>8, <1>9 DEF OneCheck, FlagUp
<1>11. NoneEnters'
  <2>1. ASSUME ~overlapped', NEW h \in Caller, NEW i \in Nat, NEW j \in Nat, Check(h, i)', i < j
        PROVE  ~Entering(h, j)'
    <3>1. h = g /\ i = n
      BY <1>9, <2>1
    <3> QED  BY <1>4, <1>5, <2>1, <3>1 DEF Entering
  <2> QED  BY <2>1 DEF NoneEnters
<1>12. FlagMeans'
  <2>1. Top(g).at \in Guarded
    BY <1>1, TopIsFrame DEF IInv, Frames
  <2>2. Checks(e)
    BY <2>1 DEF Checks, Frame
  <2> QED  BY <1>4, <1>5, <2>2 DEF FlagMeans, Check
<1> QED  BY <1>4, <1>10, <1>11, <1>12 DEF IInv, Flagged

LEMMA AskStep ==
  ASSUME IInv, NEW g \in Caller, Ask(g)
  PROVE  IInv'
<1> DEFINE n == Len(stack[g])
           asker == [stack[g] EXCEPT ![n].stage = "called"]
           e == Started(calls[Top(g).at])
<1>1. /\ stack[g] \in Seq(Frames) /\ n \in DOMAIN stack[g] /\ n \in Nat /\ DOMAIN stack[g] = 1 .. n
      /\ stack[g][n].stage = "eval" /\ stack[g][n] \in Frames
  BY TopIsFrame DEF Ask, IInv, Typed, Top
<1>2. e \in Frames /\ ~Checks(e) /\ e.stage # "enter"
  BY StartedIsFrame DEF Ask, Asks, Callee
<1>3. /\ asker \in Seq(Frames) /\ Len(asker) = n
      /\ asker[n] = [stack[g][n] EXCEPT !.stage = "called"]
      /\ \A i \in 1 .. (n - 1) : asker[i] = stack[g][i]
  <2>1. [stack[g][n] EXCEPT !.stage = "called"] \in Frames
    BY <1>1 DEF Frames
  <2> QED  BY <1>1, <2>1
<1>4. stack' = [stack EXCEPT ![g] = Append(asker, e)]
  BY DEF Ask
<1>5. /\ stack'[g] = Append(asker, e) /\ \A h \in Caller : h # g => stack'[h] = stack[h]
      /\ stack' \in [Caller -> Seq(Frames)]
  <2> HIDE DEF asker, e
  <2> QED  BY <1>2, <1>3, <1>4 DEF IInv, Typed
<1>6. /\ DOMAIN stack'[g] = 1 .. (n + 1) /\ stack'[g][n + 1] = e
      /\ stack'[g][n] = [stack[g][n] EXCEPT !.stage = "called"]
      /\ \A i \in 1 .. (n - 1) : stack'[g][i] = stack[g][i]
  <2> HIDE DEF asker, e
  <2> QED  BY <1>1, <1>2, <1>3, <1>5
<1>7. ASSUME NEW h \in Caller, NEW i \in Nat
      PROVE  (Check(h, i)' <=> Check(h, i)) /\ (Entering(h, i)' => Entering(h, i))
  <2>1. CASE h # g
    BY <1>5, <2>1 DEF Check, Entering, Checks
  <2>2. CASE h = g /\ i = n
    BY <1>1, <1>6, <2>2 DEF Check, Entering, Checks, Frames
  <2>3. CASE h = g /\ i = n + 1
    <3> HIDE DEF e
    <3> QED  BY <1>1, <1>2, <1>6, <2>3 DEF Check, Entering, Checks
  <2>4. CASE h = g /\ i # n /\ i # n + 1
    BY <1>1, <1>6, <2>4 DEF Check, Entering, Checks
  <2> QED  BY <2>1, <2>2, <2>3, <2>4
<1>8. UNCHANGED checking /\ GrowingPanic
  BY SamePanic DEF Ask
<1> QED  BY <1>5, <1>7, <1>8, SameChecks DEF IInv, Typed, GrowingPanic

LEMMA EvaluateStep ==
  ASSUME IInv, NEW g \in Caller, Evaluate(g)
  PROVE  IInv'
<1>1. stack[g] # <<>> /\ ~Checks(Top(g)) /\ Top(g) \in Frames
  BY TopIsFrame DEF Evaluate, Answered, Checks, IInv
<1>2. CASE Passed(g) /\ UNCHANGED panics
  BY <1>1, <1>2, SamePanic, PassedOn DEF Evaluate
<1>3. CASE Panics(g, Top(g).at) /\ UNCHANGED <<stack, made>>
  <2>1. Top(g).at \in Causes \ {"none"}
    BY <1>1 DEF Frames, Causes, Clause
  <2>2. GrowingPanic
    BY <1>3, <2>1, OnePanics
  <2> QED  BY <1>3, <2>2, NothingMoves DEF Evaluate
<1> QED  BY <1>2, <1>3 DEF Evaluate

LEMMA JudgeStep ==
  ASSUME IInv, NEW g \in Caller, Judge(g)
  PROVE  IInv'
<1>1. stack[g] # <<>> /\ Top(g) \in Frames /\ Checks(Top(g)) /\ Top(g).at \in Guarded
  BY TopIsFrame DEF Judge, Answered, Checks, IInv
<1>2. PICK stage \in {"passed", "failed"} : Move(g, Top(g).at, stage)
  BY DEF Judge
<1>3. Frame(Top(g).fn, Top(g).at, stage) \in Frames /\ Checks(Frame(Top(g).fn, Top(g).at, stage))
  BY <1>1 DEF Frames, Frame, Checks
<1> QED  BY <1>1, <1>2, <1>3, SamePanic, QuietMove DEF Judge, Move, Frame

LEMMA PredicatePanicsStep ==
  ASSUME IInv, NEW g \in Caller, PredicatePanics(g)
  PROVE  IInv'
<1>1. Panics(g, "predicate") /\ "predicate" \in Causes \ {"none"}
  BY DEF PredicatePanics, Causes, Clause
<1>2. GrowingPanic
  BY <1>1, OnePanics
<1> QED  BY <1>2, NothingMoves DEF PredicatePanics

LEMMA PanicSteps ==
  ASSUME IInv, NEW g \in Caller, Unwind(g) \/ Recover(g) \/ Die(g)
  PROVE  IInv'
<1>1. CASE Unwind(g)
  <2>1. stack[g] # <<>> /\ Top(g) \in Frames /\ panic[g] # "none" /\ GrowingPanic /\ panic'[g] # "none"
    BY <1>1, TopIsFrame, SamePanic DEF Unwind, IInv, panics
  <2>2. CASE Top(g).at \in {"body", "loop"}
    <3>1. /\ Frame(Top(g).fn, Deferred(Top(g).fn), "recover") \in Frames
          /\ ~Checks(Top(g)) /\ ~Checks(Frame(Top(g).fn, Deferred(Top(g).fn), "recover"))
      BY <2>1, <2>2 DEF Frames, Frame, Clause, Checks, Guarded, Deferred
    <3> QED  BY <1>1, <2>1, <2>2, <3>1, QuietMove DEF Unwind, Move, Frame
  <2>3. CASE Top(g).at \notin {"body", "loop"}
    BY <1>1, <2>1, <2>3, QuietPop DEF Unwind
  <2> QED  BY <2>2, <2>3
<1>2. CASE Recover(g)
  <2>1. stack[g] # <<>> /\ Top(g) \in Frames /\ ~Checks(Top(g)) /\ Top(g).stage = "recover" /\ GrowingPanic
    BY <1>2, TopIsFrame, SamePanic DEF Recover, IInv, Checks
  <2>2. CASE panic[g] = "none"
    <3>1. /\ Frame(Top(g).fn, Top(g).at, "test") \in Frames
          /\ ~Checks(Frame(Top(g).fn, Top(g).at, "test"))
      BY <2>1 DEF Frames, Frame, Checks
    <3> QED  BY <1>2, <2>1, <2>2, <3>1, QuietMove DEF Recover, Move, Frame
  <2>3. CASE panic[g] # "none"
    BY <1>2, <2>1, <2>3, QuietPop DEF Recover
  <2> QED  BY <2>2, <2>3
<1>3. CASE Die(g)
  BY <1>3, NothingMoves DEF Die, IInv, Typed, GrowingPanic
<1> QED  BY <1>1, <1>2, <1>3

(* What Reset leaves: the top frame's check is gone, the others stay.      *)
LEMMA CheckGoes ==
  ASSUME IInv, NEW g \in Caller, Reset(g)
  PROVE  /\ Typed'
         /\ Check(g, Len(stack[g]))
         /\ \A h \in Caller : \A i \in Nat :
              /\ Check(h, i)' => Check(h, i) /\ ~(h = g /\ i = Len(stack[g]))
              /\ Entering(h, i)' => Entering(h, i)
<1> DEFINE n == Len(stack[g])
<1>1. /\ stack[g] # <<>> /\ Top(g) \in Frames /\ Top(g) = stack[g][n] /\ n \in DOMAIN stack[g]
      /\ Top(g).stage \in {"passed", "failed"} /\ Top(g).at \in Guarded
  BY TopIsFrame DEF Reset, AtVerdict, IInv, Frames
<1>2. Check(g, n)
  BY <1>1 DEF Check, Checks
<1>3. GrowingPanic
  <2>1. CASE UNCHANGED panics
    BY <2>1, SamePanic
  <2>2. CASE Panics(g, Top(g).at)
    <3>1. Top(g).at \in Causes \ {"none"}
      BY <1>1 DEF Causes, Clause, Guarded
    <3> QED  BY <2>2, <3>1, OnePanics
  <2> QED  BY <2>1, <2>2 DEF Reset
<1>4. ASSUME NEW e \in Frames, ~Checks(e), e.stage # "enter", stack' = [stack EXCEPT ![g][n] = e]
      PROVE  /\ Typed'
             /\ \A h \in Caller : \A i \in Nat :
                  /\ Check(h, i)' => Check(h, i) /\ ~(h = g /\ i = n)
                  /\ Entering(h, i)' => Entering(h, i)
  <2>1. /\ Typed' /\ stack'[g][n] = e
        /\ \A h \in Caller : DOMAIN stack'[h] = DOMAIN stack[h]
        /\ \A h \in Caller : \A i \in DOMAIN stack[h] : ~(h = g /\ i = n) =>
             stack'[h][i] = stack[h][i]
    BY <1>1, <1>3, <1>4, Moved DEF IInv, GrowingPanic
  <2>2. ASSUME NEW h \in Caller, NEW i \in Nat
        PROVE  /\ Check(h, i)' => Check(h, i) /\ ~(h = g /\ i = n)
               /\ Entering(h, i)' => Entering(h, i)
    <3>1. CASE h = g /\ i = n
      BY <1>4, <2>1, <3>1 DEF Check, Entering, Checks
    <3>2. CASE ~(h = g /\ i = n)
      BY <2>1, <3>2 DEF Check, Entering, Checks
    <3> QED  BY <3>1, <3>2
  <2> QED  BY <2>1, <2>2
<1>5. CASE Pop(g)
  <2>1. /\ Typed'
        /\ \A h \in Caller : h # g => stack'[h] = stack[h]
        /\ DOMAIN stack'[g] = DOMAIN stack[g] \ {n}
        /\ \A i \in DOMAIN stack'[g] : stack'[g][i] = stack[g][i]
    BY <1>1, <1>3, <1>5, Popped DEF IInv, GrowingPanic
  <2> QED  BY <1>2, <2>1 DEF Check, Entering, Checks
<1>6. CASE ~Pop(g)
  <2>1. PICK e \in Frames : ~Checks(e) /\ e.stage # "enter" /\ stack' = [stack EXCEPT ![g][n] = e]
    <3>1. /\ Frame(Top(g).fn, Top(g).at, "over") \in Frames
          /\ ~Checks(Frame(Top(g).fn, Top(g).at, "over"))
      BY <1>1 DEF Frames, Frame, Checks
    <3>2. /\ Frame(Top(g).fn, "body", "run") \in Frames
          /\ ~Checks(Frame(Top(g).fn, "body", "run"))
      BY <1>1 DEF Frames, Frame, Checks
    <3>3. Move(g, Top(g).at, "over") \/ Move(g, "body", "run")
      BY <1>1, <1>6 DEF Reset, Passed, Guarded
    <3> QED  BY <3>1, <3>2, <3>3 DEF Move, Frame
  <2> QED  BY <1>2, <1>4, <2>1
<1> QED  BY <1>5, <1>6

LEMMA ResetStep ==
  ASSUME IInv, NEW g \in Caller, Reset(g)
  PROVE  IInv'
<1> DEFINE n == Len(stack[g])
<1>1. /\ Typed' /\ Check(g, n) /\ n \in Nat
      /\ \A h \in Caller : \A i \in Nat : Check(h, i)' => Check(h, i) /\ ~(h = g /\ i = n)
      /\ \A h \in Caller : \A i \in Nat : Entering(h, i)' => Entering(h, i)
  BY CheckGoes DEF IInv, Typed
<1>2. ~inContract' /\ overlapped' = (overlapped /\ ~LastCheck(g))
  BY DEF Reset
<1>3. ASSUME ~overlapped', NEW h \in Caller, NEW i \in Nat  PROVE ~Check(h, i)'
  <2>1. CASE ~overlapped
    BY <1>1, <2>1 DEF IInv, Flagged, OneCheck
  <2>2. CASE LastCheck(g)
    BY <1>1, <2>2 DEF LastCheck, Check
  <2> QED  BY <1>2, <1>3, <2>1, <2>2
<1>4. (OneCheck /\ FlagUp /\ NoneEnters)'
  BY <1>3 DEF OneCheck, FlagUp, NoneEnters
<1>5. FlagMeans'
  BY <1>2 DEF FlagMeans
<1> QED  BY <1>1, <1>4, <1>5 DEF IInv, Flagged
-----------------------------------------------------------------------------
(* Initially nothing runs and the flag is down.                            *)
LEMMA InitFlagged == Init => IInv
<1> SUFFICES ASSUME Init PROVE IInv
  OBVIOUS
<1>1. Typed
  BY DEF Init, Typed, Causes
<1>2. \A g \in Caller : \A i \in Nat : ~Check(g, i)
  BY DEF Init, Check
<1> QED  BY <1>1, <1>2 DEF Init, IInv, Flagged, OneCheck, FlagUp, NoneEnters, FlagMeans

LEMMA NextFlagged == IInv /\ [Next]_vars => IInv'
<1> SUFFICES ASSUME IInv, [Next]_vars PROVE IInv'
  OBVIOUS
<1>1. CASE UNCHANGED vars
  <2>1. UNCHANGED <<stack, checking>> /\ GrowingPanic
    BY <1>1 DEF vars, checking, GrowingPanic, IInv, Typed
  <2> QED  BY <2>1, NothingMoves
<1>2. ASSUME NEW g \in Caller,
             \/ \E fn \in Callee : Call(g, fn)
             \/ Construct(g) \/ Mutate(g) \/ CallClosure(g)
             \/ Iterate(g) \/ BodyPanics(g) \/ Return(g)
      PROVE  IInv'
  BY <1>2, BodySteps
<1>3. ASSUME NEW g \in Caller,
             \/ Test(g) \/ Enter(g) \/ Ask(g) \/ Evaluate(g) \/ Judge(g)
             \/ PredicatePanics(g) \/ Reset(g)
      PROVE  IInv'
  BY <1>3, TestStep, EnterStep, AskStep, EvaluateStep, JudgeStep, PredicatePanicsStep, ResetStep
<1>4. ASSUME NEW g \in Caller, Unwind(g) \/ Recover(g) \/ Die(g)  PROVE IInv'
  BY <1>4, PanicSteps
<1> QED  BY <1>1, <1>2, <1>3, <1>4 DEF Next

LEMMA TightWhenFlagged == IInv => GuardIsTight
BY DEF IInv, Typed, Flagged, OneCheck, FlagMeans, GuardIsTight, Check, InCheck

(* codegen.go:302: the flag that all goroutines share keeps the checks of  *)
(* a predicate's own calls from recurring, unless goroutines check at a    *)
(* time, and is up only while there is a check or a panic.                 *)
THEOREM FlagIsTight == Spec => []GuardIsTight
<1>1. Init => IInv
  BY InitFlagged
<1>2. IInv /\ [Next]_vars => IInv'
  BY NextFlagged
<1>3. IInv => GuardIsTight
  BY TightWhenFlagged
<1> QED  BY <1>1, <1>2, <1>3, PTL DEF Spec
-----------------------------------------------------------------------------
(* The object, ObjectHolds.  An object that does not satisfy its invariant *)
(* has a method under way that will be found at fault: its check is still  *)
(* to come, and will not be skipped for a check further out on the same    *)
(* goroutine.                                                              *)
Is(g, i, fn) == i \in DOMAIN stack[g] /\ stack[g][i].fn = fn
Nested(g, i) == \E j \in Nat : j < i /\ Check(g, j)
Answerable(g, i) == Is(g, i, "m") /\ ~Nested(g, i) /\ stack[g][i].stage # "passed"
Excused == bypassed \/ \E g \in Caller : panic[g] # "none"

Answers == made = "shared" /\ ~Excused /\ ~holds =>
             \E g \in Caller : \E i \in Nat : Answerable(g, i)

(* A method is in its body or at its invariant; a construction is at the   *)
(* invariant only.                                                         *)
Shaped(fr) == /\ fr.fn = "m" => fr.at \in {"body", "invariant"}
              /\ fr.fn = "new" => fr.at = "invariant"
              /\ fr.at = "body" => fr.stage = "run"

Shapes == \A g \in Caller : \A i \in DOMAIN stack[g] : Shaped(stack[g][i])

(* Methods run on an object that is shared; until it is, its construction  *)
(* is the only one, ...                                                    *)
Owned == \A g \in Caller : \A i \in Nat : /\ Is(g, i, "m") => made = "shared"
                                          /\ Is(g, i, "new") => made = "private"

OneNew == \A g, h \in Caller : \A i, j \in Nat :
            Is(g, i, "new") /\ Is(h, j, "new") => g = h /\ i = j

(* ... and what it has found is so, unless a predicate constructs.         *)
NewIsChecked == \A g \in Caller : \A i \in Nat : Is(g, i, "new") =>
                  /\ Nested(g, i) => bypassed
                  /\ stack[g][i].stage = "passed" => holds

OInv == Shapes /\ Owned /\ OneNew /\ NewIsChecked /\ Answers

(* The top frame moves, the others stay.                                   *)
LEMMA TopMoved ==
  ASSUME Typed, NEW g \in Caller, stack[g] # <<>>, NEW at, NEW stage, Move(g, at, stage)
  PROVE  /\ Len(stack[g]) \in DOMAIN stack[g] /\ Len(stack[g]) \in Nat
         /\ DOMAIN stack[g] = 1 .. Len(stack[g])
         /\ Top(g) = stack[g][Len(stack[g])]
         /\ stack'[g][Len(stack[g])] = Frame(Top(g).fn, at, stage)
         /\ \A h \in Caller : DOMAIN stack'[h] = DOMAIN stack[h]
         /\ \A h \in Caller : \A i \in DOMAIN stack[h] :
              ~(h = g /\ i = Len(stack[g])) => stack'[h][i] = stack[h][i]
<1> DEFINE n == Len(stack[g])
           e == Frame(Top(g).fn, at, stage)
<1>1. stack[g] \in Seq(Frames) /\ n \in Nat /\ DOMAIN stack[g] = 1 .. n /\ n \in DOMAIN stack[g]
  BY DEF Typed
<1>2. stack' = [stack EXCEPT ![g][n] = e] /\ Top(g) = stack[g][n]
  BY DEF Move, Top
<1> HIDE DEF e
<1>3. stack'[g] = [stack[g] EXCEPT ![n] = e] /\ \A h \in Caller : h # g => stack'[h] = stack[h]
  BY <1>2 DEF Typed
<1>4. stack'[g][n] = e /\ DOMAIN stack'[g] = DOMAIN stack[g]
      /\ \A i \in DOMAIN stack[g] : i # n => stack'[g][i] = stack[g][i]
  BY <1>1, <1>3
<1> QED  BY <1>1, <1>2, <1>3, <1>4 DEF e

(* A frame moves on, as long as one that has passed leaves the object so.  *)
LEMMA ObjectMove ==
  ASSUME Typed, OInv, NEW g \in Caller, stack[g] # <<>>, NEW at, NEW stage, Move(g, at, stage),
         Shaped(Frame(Top(g).fn, at, stage)),
         stage = "passed" => holds \/ Top(g).fn \notin {"m", "new"},
         UNCHANGED <<made, holds>>, bypassed => bypassed', GrowingPanic
  PROVE  OInv'
<1> DEFINE n == Len(stack[g])
           e == Frame(Top(g).fn, at, stage)
<1>1. /\ n \in DOMAIN stack[g] /\ n \in Nat /\ DOMAIN stack[g] = 1 .. n
      /\ stack'[g][n] = e /\ e.fn = stack[g][n].fn /\ e.stage = stage /\ Top(g).fn = e.fn
      /\ \A h \in Caller : DOMAIN stack'[h] = DOMAIN stack[h]
      /\ \A h \in Caller : \A i \in DOMAIN stack[h] : ~(h = g /\ i = n) =>
           stack'[h][i] = stack[h][i]
  BY TopMoved DEF Frame
<1>2. Shaped(e)
  OBVIOUS
<1> HIDE DEF e
<1>3. ASSUME NEW h \in Caller, NEW i \in Nat, NEW fn  PROVE Is(h, i, fn)' <=> Is(h, i, fn)
  BY <1>1 DEF Is
<1>4. ASSUME NEW h \in Caller, NEW i \in Nat, Is(h, i, "m") \/ Is(h, i, "new")
      PROVE  Nested(h, i)' <=> Nested(h, i)
  <2>1. ASSUME NEW j \in Nat, j < i  PROVE Check(h, j)' <=> Check(h, j)
    BY <1>1, <1>4, <2>1 DEF Is, Check, Checks
  <2> QED  BY <2>1 DEF Nested
<1>5. Shapes'
  BY <1>1, <1>2 DEF OInv, Shapes, Shaped
<1>6. (Owned /\ OneNew)'
  BY <1>3 DEF OInv, Owned, OneNew
<1>7. NewIsChecked'
  <2>1. ASSUME NEW h \in Caller, NEW i \in Nat, Is(h, i, "new")'
        PROVE  (Nested(h, i)' => bypassed') /\ (stack'[h][i].stage = "passed" => holds')
    BY <1>1, <1>3, <1>4, <2>1 DEF OInv, NewIsChecked, Is
  <2> QED  BY <2>1 DEF NewIsChecked
<1>8. Answers'
  <2> SUFFICES ASSUME made' = "shared", ~Excused', ~holds'
               PROVE  \E h \in Caller : \E i \in Nat : Answerable(h, i)'
    BY DEF Answers
  <2>1. made = "shared" /\ ~Excused /\ ~holds
    BY DEF Excused, GrowingPanic
  <2>2. PICK h \in Caller, i \in Nat : Answerable(h, i)
    BY <2>1 DEF OInv, Answers
  <2>3. Is(h, i, "m")' /\ ~Nested(h, i)'
    BY <1>3, <1>4, <2>2 DEF Answerable
  <2>4. stack'[h][i].stage # "passed"
    BY <1>1, <2>1, <2>2 DEF Answerable, Is
  <2> QED  BY <2>3, <2>4 DEF Answerable
<1> QED  BY <1>5, <1>6, <1>7, <1>8 DEF OInv

(* A frame is left that does not have to answer, or where it need not.     *)
LEMMA ObjectPop ==
  ASSUME Typed, OInv, NEW g \in Caller, stack[g] # <<>>, Pop(g), UNCHANGED holds,
         bypassed => bypassed', GrowingPanic,
         made' = made \/ (Top(g).fn = "new" /\ made' = "shared"),
         ~Excused' /\ ~holds /\ made' = "shared" =>
           Top(g).fn # "new" /\ ~Answerable(g, Len(stack[g]))
  PROVE  OInv'
<1> DEFINE n == Len(stack[g])
<1>1. /\ n \in DOMAIN stack[g] /\ DOMAIN stack[g] = 1 .. n /\ n \in Nat
      /\ \A h \in Caller : h # g => stack'[h] = stack[h]
      /\ DOMAIN stack'[g] = DOMAIN stack[g] \ {n}
      /\ \A i \in DOMAIN stack'[g] : stack'[g][i] = stack[g][i]
      /\ Top(g) = stack[g][n]
  BY Popped DEF GrowingPanic, Typed, Top
<1>2. ASSUME NEW h \in Caller, NEW i \in Nat, NEW fn
      PROVE  /\ Is(h, i, fn)' => Is(h, i, fn) /\ ~(h = g /\ i = n) /\ stack'[h][i] = stack[h][i]
             /\ Is(h, i, fn) /\ ~(h = g /\ i = n) => Is(h, i, fn)' /\ stack'[h][i] = stack[h][i]
  BY <1>1 DEF Is
<1>3. ASSUME NEW h \in Caller, NEW i \in Nat, NEW fn, Is(h, i, fn)'
      PROVE  Nested(h, i)' <=> Nested(h, i)
  <2>1. ASSUME NEW j \in Nat, j < i  PROVE Check(h, j)' <=> Check(h, j)
    BY <1>1, <1>3, <2>1 DEF Is, Check, Checks
  <2> QED  BY <2>1 DEF Nested
<1>4. Shapes'
  BY <1>1 DEF OInv, Shapes, Shaped
<1>5. OneNew'
  BY <1>2 DEF OInv, OneNew
<1>6. Owned'
  <2>1. CASE made' = made
    BY <1>2, <2>1 DEF OInv, Owned
  <2>2. CASE Top(g).fn = "new" /\ made' = "shared"
    <3>1. Is(g, n, "new")
      BY <1>1, <2>2 DEF Is
    <3> QED  BY <1>1, <1>2, <2>2, <3>1 DEF OInv, Owned, OneNew
  <2> QED  BY <2>1, <2>2
<1>7. NewIsChecked'
  <2>1. ASSUME NEW h \in Caller, NEW i \in Nat, Is(h, i, "new")'
        PROVE  (Nested(h, i)' => bypassed') /\ (stack'[h][i].stage = "passed" => holds')
    BY <1>2, <1>3, <2>1 DEF OInv, NewIsChecked
  <2> QED  BY <2>1 DEF NewIsChecked
<1>8. Answers'
  <2> SUFFICES ASSUME made' = "shared", ~Excused', ~holds'
               PROVE  \E h \in Caller : \E i \in Nat : Answerable(h, i)'
    BY DEF Answers
  <2>1. made = "shared" /\ ~Excused /\ ~holds /\ ~Answerable(g, n)
    BY DEF Excused, GrowingPanic
  <2>2. PICK h \in Caller, i \in Nat : Answerable(h, i)
    BY <2>1 DEF OInv, Answers
  <2>3. ~(h = g /\ i = n)
    BY <2>1, <2>2
  <2>4. Is(h, i, "m")' /\ stack'[h][i] = stack[h][i]
    BY <1>2, <2>2, <2>3 DEF Answerable
  <2> QED  BY <1>3, <2>2, <2>4 DEF Answerable
<1> QED  BY <1>4, <1>5, <1>6, <1>7, <1>8 DEF OInv

(* The object stays as it is, and so do the frames.                        *)
LEMMA ObjectStays ==
  ASSUME OInv, UNCHANGED <<stack, made, holds>>, bypassed => bypassed', GrowingPanic
  PROVE  OInv'
<1>1. Shapes' /\ Owned' /\ OneNew'
  BY DEF OInv, Shapes, Owned, OneNew, Is
<1>2. NewIsChecked'
  BY DEF OInv, NewIsChecked, Is, Nested, Check
<1>3. Excused => Excused'
  BY DEF Excused, GrowingPanic
<1>4. Answers'
  BY <1>3 DEF OInv, Answers, Answerable, Is, Nested, Check
<1> QED  BY <1>1, <1>2, <1>4 DEF OInv

(* A call leaves the frames that there are as they were, but that the      *)
(* topmost may note that it has called.                                    *)
Calls(g, fn) ==
  LET n == Len(stack[g])
  IN  /\ \A h \in Caller : h # g => stack'[h] = stack[h]
      /\ DOMAIN stack'[g] = DOMAIN stack[g] \cup {n + 1}
      /\ stack'[g][n + 1] = Started(fn)
      /\ \A i \in DOMAIN stack[g] :
           /\ stack'[g][i].fn = stack[g][i].fn /\ stack'[g][i].at = stack[g][i].at
           /\ Checks(stack'[g][i]) <=> Checks(stack[g][i])
           /\ stack'[g][i].stage = "passed" <=> stack[g][i].stage = "passed"
           /\ stack'[g][i].stage = stack[g][i].stage \/ stack[g][i].stage = "eval"

LEMMA CallCalls ==
  ASSUME Typed, NEW g \in Caller, NEW fn \in Callee \cup {"new"}, Push(g, Started(fn)),
         panic' \in [Caller -> Causes]
  PROVE  Calls(g, fn)
<1>1. Started(fn) \in Frames
  BY StartedIsFrame
<1>2. /\ \A h \in Caller : h # g => stack'[h] = stack[h]
      /\ DOMAIN stack'[g] = DOMAIN stack[g] \cup {Len(stack[g]) + 1}
      /\ \A i \in DOMAIN stack[g] : stack'[g][i] = stack[g][i]
      /\ stack'[g][Len(stack[g]) + 1] = Started(fn)
  BY <1>1, Pushed
<1> QED  BY <1>2 DEF Calls

LEMMA AskCalls ==
  ASSUME Typed, NEW g \in Caller, Ask(g)
  PROVE  Calls(g, calls[Top(g).at])
<1> DEFINE n == Len(stack[g])
           asker == [stack[g] EXCEPT ![n].stage = "called"]
           e == Started(calls[Top(g).at])
<1>1. /\ stack[g] \in Seq(Frames) /\ n \in DOMAIN stack[g] /\ n \in Nat /\ DOMAIN stack[g] = 1 .. n
      /\ stack[g][n].stage = "eval" /\ stack[g][n] \in Frames
  BY TopIsFrame DEF Ask, Typed, Top
<1>2. e \in Frames
  BY StartedIsFrame DEF Ask, Asks, Callee
<1>3. /\ asker \in Seq(Frames) /\ Len(asker) = n
      /\ asker[n] = [stack[g][n] EXCEPT !.stage = "called"]
      /\ \A i \in 1 .. (n - 1) : asker[i] = stack[g][i]
  <2>1. [stack[g][n] EXCEPT !.stage = "called"] \in Frames
    BY <1>1 DEF Frames
  <2> QED  BY <1>1, <2>1
<1>4. stack' = [stack EXCEPT ![g] = Append(asker, e)]
  BY DEF Ask
<1>5. stack'[g] = Append(asker, e) /\ \A h \in Caller : h # g => stack'[h] = stack[h]
  <2> HIDE DEF asker, e
  <2> QED  BY <1>4 DEF Typed
<1>6. /\ DOMAIN stack'[g] = 1 .. (n + 1) /\ stack'[g][n + 1] = e
      /\ stack'[g][n] = [stack[g][n] EXCEPT !.stage = "called"]
      /\ \A i \in 1 .. (n - 1) : stack'[g][i] = stack[g][i]
  <2> HIDE DEF asker, e
  <2> QED  BY <1>1, <1>2, <1>3, <1>5
<1>7. ASSUME NEW i \in DOMAIN stack[g]
      PROVE  /\ stack'[g][i].fn = stack[g][i].fn /\ stack'[g][i].at = stack[g][i].at
             /\ Checks(stack'[g][i]) <=> Checks(stack[g][i])
             /\ stack'[g][i].stage = "passed" <=> stack[g][i].stage = "passed"
             /\ stack'[g][i].stage = stack[g][i].stage \/ stack[g][i].stage = "eval"
  <2>1. CASE i = n
    BY <1>1, <1>6, <2>1 DEF Checks, Frames
  <2>2. CASE i # n
    BY <1>1, <1>6, <2>2
  <2> QED  BY <2>1, <2>2
<1>8. DOMAIN stack'[g] = DOMAIN stack[g] \cup {n + 1}
  BY <1>1, <1>6
<1> HIDE DEF e
<1> QED  BY <1>5, <1>6, <1>7, <1>8 DEF Calls, e

LEMMA ObjectCalled ==
  ASSUME Typed, OInv, NEW g \in Caller, NEW fn \in Callee, Calls(g, fn),
         fn = "m" => made = "shared", UNCHANGED object, GrowingPanic
  PROVE  OInv'
<1> DEFINE n == Len(stack[g])
           e == Started(fn)
<1>1. /\ \A h \in Caller : DOMAIN stack[h] = 1 .. Len(stack[h]) /\ Len(stack[h]) \in Nat
      /\ \A h \in Caller : h # g => stack'[h] = stack[h]
      /\ DOMAIN stack'[g] = DOMAIN stack[g] \cup {n + 1}
      /\ stack'[g][n + 1] = e
      /\ \A i \in DOMAIN stack[g] :
           /\ stack'[g][i].fn = stack[g][i].fn /\ stack'[g][i].at = stack[g][i].at
           /\ Checks(stack'[g][i]) <=> Checks(stack[g][i])
           /\ stack'[g][i].stage = "passed" <=> stack[g][i].stage = "passed"
           /\ stack'[g][i].stage = stack[g][i].stage \/ stack[g][i].stage = "eval"
  BY DEF Calls, Typed
<1>2. e.fn = fn /\ fn # "new" /\ Shaped(e)
  BY DEF Started, Frame, Shaped, Callee
<1> HIDE DEF e
<1>3. ASSUME NEW h \in Caller, NEW i \in Nat, NEW callee
      PROVE  /\ Is(h, i, callee) => Is(h, i, callee)' /\ (h # g \/ i # n + 1)
             /\ Is(h, i, callee)' => Is(h, i, callee) \/ (h = g /\ i = n + 1 /\ callee = fn)
  <2>1. CASE h # g
    BY <1>1, <2>1 DEF Is
  <2>2. CASE h = g
    BY <1>1, <1>2, <2>2 DEF Is
  <2> QED  BY <2>1, <2>2
<1>4. ASSUME NEW h \in Caller, NEW i \in Nat, NEW callee, Is(h, i, callee)
      PROVE  /\ Nested(h, i)' <=> Nested(h, i)
             /\ stack'[h][i].stage = "passed" <=> stack[h][i].stage = "passed"
  <2>1. ASSUME NEW j \in Nat, j < i  PROVE Check(h, j)' <=> Check(h, j)
    <3>1. CASE h # g
      BY <1>1, <1>4, <2>1, <3>1 DEF Check
    <3>2. CASE h = g
      BY <1>1, <1>4, <2>1, <3>2 DEF Check, Is
    <3> QED  BY <3>1, <3>2
  <2> QED  BY <1>1, <1>4, <2>1 DEF Nested, Is
<1>5. Shapes'
  BY <1>1, <1>2 DEF OInv, Shapes, Shaped
<1>6. (Owned /\ OneNew)'
  BY <1>2, <1>3 DEF OInv, Owned, OneNew, object
<1>7. NewIsChecked'
  <2>1. ASSUME NEW h \in Caller, NEW i \in Nat, Is(h, i, "new")'
        PROVE  (Nested(h, i)' => bypassed') /\ (stack'[h][i].stage = "passed" => holds')
    BY <1>2, <1>3, <1>4, <2>1 DEF OInv, NewIsChecked, object
  <2> QED  BY <2>1 DEF NewIsChecked
<1>8. Answers'
  <2> SUFFICES ASSUME made' = "shared", ~Excused', ~holds'
               PROVE  \E h \in Caller : \E i \in Nat : Answerable(h, i)'
    BY DEF Answers
  <2>1. made = "shared" /\ ~Excused /\ ~holds
    BY DEF Excused, GrowingPanic, object
  <2>2. PICK h \in Caller, i \in Nat : Answerable(h, i)
    BY <2>1 DEF OInv, Answers
  <2> QED  BY <1>3, <1>4, <2>2 DEF Answerable
<1> QED  BY <1>5, <1>6, <1>7, <1>8 DEF OInv
-----------------------------------------------------------------------------
(* The actions, again.                                                     *)

LEMMA CallObject ==
  ASSUME IInv, OInv, NEW g \in Caller, NEW fn \in Callee, Call(g, fn)
  PROVE  OInv'
<1>1. GrowingPanic /\ Push(g, Started(fn))
  BY SamePanic DEF Call
<1>2. Calls(g, fn)
  BY <1>1, CallCalls DEF IInv, GrowingPanic
<1> QED  BY <1>1, <1>2, ObjectCalled DEF Call, IInv

LEMMA AskObject ==
  ASSUME IInv, OInv, NEW g \in Caller, Ask(g)
  PROVE  OInv'
<1>1. GrowingPanic
  BY SamePanic DEF Ask
<1>2. calls[Top(g).at] \in Callee /\ (calls[Top(g).at] = "m" => made = "shared")
  BY DEF Ask, Asks, Callee
<1> QED  BY <1>1, <1>2, AskCalls, ObjectCalled DEF Ask, IInv

LEMMA ConstructObject ==
  ASSUME IInv, OInv, NEW g \in Caller, Construct(g)
  PROVE  OInv'
<1> DEFINE e == Started("new")
<1>0. PICK n \in Nat : n = Len(stack[g]) + 1
  BY DEF IInv, Typed
<1>1. GrowingPanic /\ Push(g, e)
  BY SamePanic DEF Construct
<1>2. e.fn = "new" /\ e.stage = "test" /\ Shaped(e) /\ e \in Frames /\ ~Checks(e)
  BY DEF Started, Frame, Shaped, Frames, Clause, Guarded, Checks
<1> HIDE DEF e
<1>3. /\ \A h \in Caller : h # g => stack'[h] = stack[h]
      /\ n \notin DOMAIN stack[g] /\ DOMAIN stack'[g] = DOMAIN stack[g] \cup {n}
      /\ \A i \in DOMAIN stack[g] : stack'[g][i] = stack[g][i]
      /\ stack'[g][n] = e
  BY <1>0, <1>1, <1>2, Pushed DEF IInv, GrowingPanic
<1>4. DOMAIN stack[g] = 1 .. (n - 1)
  BY <1>0 DEF IInv, Typed
<1>5. ASSUME NEW h \in Caller, NEW i \in Nat
      PROVE  ~Is(h, i, "m") /\ ~Is(h, i, "new")
  BY DEF Construct, OInv, Owned
<1>6. ASSUME NEW h \in Caller, NEW i \in Nat
      PROVE  ~Is(h, i, "m")' /\ (Is(h, i, "new")' => h = g /\ i = n)
  <2>1. CASE h # g
    BY <1>3, <1>5, <2>1 DEF Is
  <2>2. CASE h = g
    BY <1>2, <1>3, <1>5, <2>2 DEF Is
  <2> QED  BY <2>1, <2>2
<1>7. Nested(g, n)' => bypassed'
  <2>1. ASSUME NEW j \in Nat, j < n, Check(g, j)'  PROVE InCheck(g)
    BY <1>3, <1>4, <2>1 DEF Check, Checks, InCheck
  <2> QED  BY <2>1 DEF Nested, Construct
<1>8. Shapes'
  BY <1>2, <1>3 DEF OInv, Shapes, Shaped
<1>9. (Owned /\ OneNew /\ Answers)'
  BY <1>6 DEF Construct, Owned, OneNew, Answers
<1>10. NewIsChecked'
  <2>1. ASSUME NEW h \in Caller, NEW i \in Nat, Is(h, i, "new")'
        PROVE  (Nested(h, i)' => bypassed') /\ (stack'[h][i].stage = "passed" => holds')
    <3>1. h = g /\ i = n
      BY <1>6, <2>1
    <3> QED  BY <1>2, <1>3, <1>7, <3>1
  <2> QED  BY <2>1 DEF NewIsChecked
<1> QED  BY <1>8, <1>9, <1>10 DEF OInv

(* A method that changes the object answers for it, ...                    *)
LEMMA MutateObject ==
  ASSUME IInv, OInv, NEW g \in Caller, Mutate(g)
  PROVE  OInv'
<1> DEFINE n == Len(stack[g])
<1>1. n \in DOMAIN stack[g] /\ DOMAIN stack[g] = 1 .. n /\ n \in Nat /\ Top(g) = stack[g][n]
  BY TopIsFrame DEF Mutate, In, IInv, Typed
<1>2. Is(g, n, "m") /\ stack[g][n].stage = "run"
  BY <1>1 DEF Is, Mutate, In
<1>3. made = "shared" /\ \A h \in Caller : \A i \in Nat : ~Is(h, i, "new")
  BY <1>1, <1>2 DEF OInv, Owned
<1>4. (Shapes /\ Owned /\ OneNew)'
  BY DEF Mutate, OInv, Shapes, Owned, OneNew, Is
<1>5. NewIsChecked'
  BY <1>3 DEF Mutate, NewIsChecked, Is
<1>6. bypassed' \/ Answerable(g, n)'
  BY <1>1, <1>2 DEF Mutate, Answerable, Is, Nested, Check, InCheck
<1>7. Answers'
  BY <1>1, <1>6 DEF Answers, Excused
<1> QED  BY <1>4, <1>5, <1>7 DEF OInv

(* ... and a closure is beyond all checks.                                 *)
LEMMA ClosureObject ==
  ASSUME IInv, OInv, NEW g \in Caller, CallClosure(g)
  PROVE  OInv'
<1>1. \A h \in Caller : \A i \in Nat : ~Is(h, i, "new")
  BY DEF CallClosure, OInv, Owned
<1> QED  BY <1>1 DEF CallClosure, OInv, Shapes, Owned, OneNew, NewIsChecked, Answers, Excused, Is

LEMMA ObjectBodySteps ==
  ASSUME IInv, OInv, NEW g \in Caller, Iterate(g) \/ BodyPanics(g) \/ Return(g)
  PROVE  OInv'
<1>1. CASE Iterate(g)
  <2>1. Shaped(Frame(Top(g).fn, "loop", "eval")) /\ stack[g] # <<>> /\ Move(g, "loop", "eval")
    BY <1>1 DEF Iterate, In, Shaped, Frame
  <2> QED  BY <1>1, <2>1, SamePanic, ObjectMove DEF Iterate, IInv, object
<1>2. CASE BodyPanics(g)
  <2>1. GrowingPanic
    BY <1>2, OnePanics DEF BodyPanics, Causes
  <2> QED  BY <1>2, <2>1, ObjectStays DEF BodyPanics, object
<1>3. CASE Return(g)
  <2>1. /\ Shaped(Frame(Top(g).fn, Deferred(Top(g).fn), "recover")) /\ stack[g] # <<>>
        /\ Move(g, Deferred(Top(g).fn), "recover")
    BY <1>3 DEF Return, In, Shaped, Frame, Deferred
  <2> QED  BY <1>3, <2>1, SamePanic, ObjectMove DEF Return, IInv, object
<1> QED  BY <1>1, <1>2, <1>3

(* The topmost frame is of a method or a construction at its invariant, or *)
(* of the function.                                                        *)
LEMMA TopShaped ==
  ASSUME IInv, OInv, NEW g \in Caller, stack[g] # <<>>
  PROVE  /\ Len(stack[g]) \in DOMAIN stack[g] /\ DOMAIN stack[g] = 1 .. Len(stack[g])
         /\ Len(stack[g]) \in Nat
         /\ Top(g) = stack[g][Len(stack[g])] /\ Top(g) \in Frames /\ Shaped(Top(g))
<1>1. Top(g) \in Frames /\ Top(g) = stack[g][Len(stack[g])] /\ Len(stack[g]) \in DOMAIN stack[g]
  BY TopIsFrame DEF IInv
<1> QED  BY <1>1 DEF IInv, Typed, OInv, Shapes

(* Where a check is passed that leaves no frame.                           *)
LEMMA PassedMoves ==
  ASSUME IInv, OInv, NEW g \in Caller, stack[g] # <<>>, Passed(g),
         Top(g).at \in {"entry", "requires", "loop"},
         UNCHANGED holds, bypassed => bypassed', GrowingPanic
  PROVE  OInv'
<1>1. Shaped(Top(g))
  BY TopShaped
<1>2. CASE Top(g).at = "entry"
  <2>1. Move(g, "requires", "test") /\ UNCHANGED made /\ Shaped(Frame(Top(g).fn, "requires", "test"))
    BY <1>1, <1>2 DEF Passed, Shaped, Frame
  <2> QED  BY <2>1, ObjectMove DEF IInv
<1>3. CASE Top(g).at \in {"requires", "loop"}
  <2>1. Move(g, "body", "run") /\ UNCHANGED made /\ Shaped(Frame(Top(g).fn, "body", "run"))
    BY <1>1, <1>3 DEF Passed, Shaped, Frame
  <2> QED  BY <2>1, ObjectMove DEF IInv
<1> QED  BY <1>2, <1>3

LEMMA TestObject ==
  ASSUME IInv, OInv, NEW g \in Caller, Test(g)
  PROVE  OInv'
<1> DEFINE n == Len(stack[g])
<1>1. /\ stack[g] # <<>> /\ Top(g).stage = "test" /\ n \in DOMAIN stack[g] /\ n \in Nat
      /\ DOMAIN stack[g] = 1 .. n /\ Top(g) = stack[g][n] /\ Top(g) \in Frames /\ Shaped(Top(g))
  BY TopShaped DEF Test, AtTest
<1>2. GrowingPanic /\ UNCHANGED holds
  BY SamePanic DEF Test
<1>3. CASE ~inContract
  <2>1. Move(g, Top(g).at, "enter") /\ UNCHANGED <<made, bypassed>>
    BY <1>3 DEF Test
  <2>2. Shaped(Frame(Top(g).fn, Top(g).at, "enter"))
    BY <1>1 DEF Shaped, Frame
  <2> QED  BY <1>1, <1>2, <2>1, <2>2, ObjectMove DEF IInv
<1>4. CASE inContract /\ Top(g).at \in {"entry", "requires", "loop"}
  BY <1>1, <1>2, <1>4, PassedMoves DEF Test
<1>5. CASE inContract /\ Top(g).at \notin {"entry", "requires", "loop"}
  <2>1. /\ Pop(g) /\ made' = (IF Top(g).fn = "new" THEN "shared" ELSE made)
        /\ bypassed' = (bypassed \/ ~InCheck(g))
    BY <1>5 DEF Test, Passed
  <2>2. ASSUME ~bypassed'  PROVE Nested(g, n)
    <3>1. PICK i \in DOMAIN stack[g] : Checks(stack[g][i])
      BY <2>1, <2>2 DEF InCheck
    <3>2. i # n
      BY <1>1, <3>1 DEF Checks
    <3> QED  BY <1>1, <3>1, <3>2 DEF Nested, Check
  <2>3. ~Excused' => Top(g).fn # "new" /\ ~Answerable(g, n)
    BY <1>1, <2>1, <2>2 DEF Excused, Answerable, OInv, NewIsChecked, Is
  <2> QED  BY <1>1, <1>2, <2>1, <2>3, ObjectPop DEF IInv
<1> QED  BY <1>3, <1>4, <1>5

LEMMA CheckObject ==
  ASSUME IInv, OInv, NEW g \in Caller, Enter(g) \/ Evaluate(g) \/ Judge(g) \/ PredicatePanics(g)
  PROVE  OInv'
<1>1. /\ stack[g] # <<>> /\ Top(g) \in Frames /\ Shaped(Top(g))
  BY TopShaped DEF Enter, Evaluate, Judge, PredicatePanics, Answered
<1>2. CASE Enter(g)
  <2>1. Move(g, Top(g).at, "eval") /\ Shaped(Frame(Top(g).fn, Top(g).at, "eval"))
    BY <1>1, <1>2 DEF Enter, Shaped, Frame
  <2> QED  BY <1>1, <1>2, <2>1, SamePanic, ObjectMove DEF Enter, IInv, object
<1>3. CASE Evaluate(g) /\ Passed(g) /\ UNCHANGED panics
  <2>1. Top(g).at \in {"entry", "requires", "loop"}
    BY <1>1, <1>3 DEF Evaluate, Guarded, Frames, Clause, Answered, Shaped, Callee
  <2> QED  BY <1>1, <1>3, <2>1, SamePanic, PassedMoves DEF Evaluate
<1>4. CASE Evaluate(g) /\ Panics(g, Top(g).at) /\ UNCHANGED <<stack, made>>
  <2>1. Top(g).at \in Causes \ {"none"}
    BY <1>1 DEF Frames, Causes, Clause
  <2> QED  BY <1>4, <2>1, OnePanics, ObjectStays DEF Evaluate
<1>5. CASE Judge(g)
  <2>1. PICK passes \in IF Top(g).at = "invariant" THEN {holds} ELSE BOOLEAN :
          Move(g, Top(g).at, IF passes THEN "passed" ELSE "failed")
    BY <1>5 DEF Judge
  <2>2. GrowingPanic /\ UNCHANGED <<made, holds>> /\ bypassed' = bypassed
    BY <1>5, SamePanic DEF Judge, object
  <2> DEFINE stage == IF passes THEN "passed" ELSE "failed"
  <2>3. Shaped(Frame(Top(g).fn, Top(g).at, stage)) /\ Top(g).at \in Guarded
    BY <1>1, <1>5 DEF Judge, Guarded, Shaped, Frame
  <2>4. CASE Top(g).at = "invariant"
    BY <1>1, <2>1, <2>2, <2>3, <2>4, ObjectMove DEF IInv
  <2>5. CASE Top(g).at # "invariant"
    <3>1. Top(g).fn \notin {"m", "new"}
      BY <1>1, <2>3, <2>5 DEF Shaped, Guarded
    <3> QED  BY <1>1, <2>1, <2>2, <2>3, <2>5, <3>1, ObjectMove DEF IInv
  <2> QED  BY <2>4, <2>5
<1>6. CASE PredicatePanics(g)
  <2>1. GrowingPanic
    BY <1>6, OnePanics DEF PredicatePanics, Causes
  <2> QED  BY <1>6, <2>1, ObjectStays DEF PredicatePanics, object
<1> QED  BY <1>2, <1>3, <1>4, <1>5, <1>6 DEF Evaluate

LEMMA ResetObject ==
  ASSUME IInv, OInv, NEW g \in Caller, Reset(g)
  PROVE  OInv'
<1> DEFINE n == Len(stack[g])
<1>1. /\ stack[g] # <<>> /\ n \in DOMAIN stack[g] /\ n \in Nat
      /\ Top(g) = stack[g][n] /\ Top(g) \in Frames /\ Shaped(Top(g))
      /\ Top(g).stage \in {"passed", "failed"} /\ Top(g).at \in Guarded
  BY TopShaped DEF Reset, AtVerdict, Frames
<1>2. CASE Top(g).stage = "passed"
  <2>1. Passed(g) /\ GrowingPanic /\ UNCHANGED <<holds, bypassed>>
    BY <1>2, SamePanic DEF Reset
  <2>2. CASE Top(g).at = "requires"
    BY <1>1, <2>1, <2>2, PassedMoves
  <2>3. CASE Top(g).at # "requires"
    <3>1. Pop(g) /\ made' = (IF Top(g).fn = "new" THEN "shared" ELSE made)
      BY <1>1, <2>1, <2>3 DEF Passed, Guarded
    <3>2. ~holds => Top(g).fn # "new" /\ ~Answerable(g, n)
      BY <1>1, <1>2 DEF Answerable, OInv, NewIsChecked, Is
    <3> QED  BY <1>1, <2>1, <3>1, <3>2, ObjectPop DEF IInv
  <2> QED  BY <2>2, <2>3
<1>3. CASE Top(g).stage = "failed"
  <2>1. Panics(g, Top(g).at) /\ Move(g, Top(g).at, "over") /\ UNCHANGED <<made, holds, bypassed>>
    BY <1>3 DEF Reset
  <2>2. Top(g).at \in Causes \ {"none"} /\ Shaped(Frame(Top(g).fn, Top(g).at, "over"))
    BY <1>1 DEF Causes, Clause, Guarded, Shaped, Frame
  <2> QED  BY <1>1, <2>1, <2>2, OnePanics, ObjectMove DEF IInv
<1> QED  BY <1>1, <1>2, <1>3

LEMMA PanicObject ==
  ASSUME IInv, OInv, NEW g \in Caller, Unwind(g) \/ Recover(g) \/ Die(g)
  PROVE  OInv'
<1>1. CASE Unwind(g)
  <2>1. /\ stack[g] # <<>> /\ Shaped(Top(g)) /\ GrowingPanic /\ UNCHANGED <<made, holds, bypassed>>
        /\ panic'[g] # "none"
    BY <1>1, TopShaped, SamePanic DEF Unwind, object, panics
  <2>2. CASE Top(g).at \in {"body", "loop"}
    <3>1. /\ Move(g, Deferred(Top(g).fn), "recover")
          /\ Shaped(Frame(Top(g).fn, Deferred(Top(g).fn), "recover"))
      BY <1>1, <2>1, <2>2 DEF Unwind, Shaped, Frame, Deferred
    <3> QED  BY <2>1, <3>1, ObjectMove DEF IInv
  <2>3. CASE Top(g).at \notin {"body", "loop"}
    <3>1. Pop(g) /\ Excused'
      BY <1>1, <2>1, <2>3 DEF Unwind, Excused
    <3> QED  BY <2>1, <3>1, ObjectPop DEF IInv
  <2> QED  BY <2>2, <2>3
<1>2. CASE Recover(g)
  <2>1. /\ stack[g] # <<>> /\ Shaped(Top(g)) /\ GrowingPanic /\ UNCHANGED <<made, holds, bypassed>>
        /\ panic' = panic
    BY <1>2, TopShaped, SamePanic DEF Recover, object, panics
  <2>2. CASE panic[g] = "none"
    <3>1. Move(g, Top(g).at, "test") /\ Shaped(Frame(Top(g).fn, Top(g).at, "test"))
      BY <1>2, <2>1, <2>2 DEF Recover, Shaped, Frame
    <3> QED  BY <2>1, <3>1, ObjectMove DEF IInv
  <2>3. CASE panic[g] # "none"
    <3>1. Pop(g) /\ Excused'
      BY <1>2, <2>1, <2>3 DEF Recover, Excused
    <3> QED  BY <2>1, <3>1, ObjectPop DEF IInv
  <2> QED  BY <2>2, <2>3
<1>3. CASE Die(g)
  <2>1. GrowingPanic
    BY <1>3 DEF Die, IInv, Typed, GrowingPanic
  <2> QED  BY <1>3, <2>1, ObjectStays DEF Die, object
<1> QED  BY <1>1, <1>2, <1>3
-----------------------------------------------------------------------------
LEMMA InitObject == Init => OInv
<1> SUFFICES ASSUME Init PROVE OInv
  OBVIOUS
<1>1. \A g \in Caller : DOMAIN stack[g] = {}
  BY DEF Init
<1> QED  BY <1>1 DEF Init, OInv, Shapes, Owned, OneNew, NewIsChecked, Answers, Is

LEMMA NextObject == IInv /\ OInv /\ [Next]_vars => OInv'
<1> SUFFICES ASSUME IInv, OInv, [Next]_vars PROVE OInv'
  OBVIOUS
<1>1. CASE UNCHANGED vars
  BY <1>1, ObjectStays DEF vars, GrowingPanic, IInv, Typed
<1>2. ASSUME NEW g \in Caller,
             \/ \E fn \in Callee : Call(g, fn)
             \/ Construct(g) \/ Mutate(g) \/ CallClosure(g)
             \/ Iterate(g) \/ BodyPanics(g) \/ Return(g)
      PROVE  OInv'
  BY <1>2, CallObject, ConstructObject, MutateObject, ClosureObject, ObjectBodySteps
<1>3. ASSUME NEW g \in Caller,
             \/ Test(g) \/ Enter(g) \/ Ask(g) \/ Evaluate(g) \/ Judge(g)
             \/ PredicatePanics(g) \/ Reset(g)
      PROVE  OInv'
  BY <1>3, TestObject, AskObject, CheckObject, ResetObject
<1>4. ASSUME NEW g \in Caller, Unwind(g) \/ Recover(g) \/ Die(g)  PROVE OInv'
  BY <1>4, PanicObject
<1> QED  BY <1>1, <1>2, <1>3, <1>4 DEF Next

LEMMA HoldsWhenAnswered == OInv => ObjectHolds
BY DEF OInv, Answers, Answerable, Is, Excused, ObjectHolds, Inside

(* codegen/contract.go:180: an object satisfies its invariant whenever no  *)
(* method of it runs, for any goroutines, any programs and any depth of    *)
(* calls, unless a check was skipped for another goroutine's, a predicate  *)
(* changed the object, or a closure that outlived its method did.          *)
THEOREM ObjectsHold == Spec => []ObjectHolds
<1>1. Init => IInv /\ OInv
  BY InitFlagged, InitObject
<1>2. IInv /\ OInv /\ [Next]_vars => (IInv /\ OInv)'
  BY NextFlagged, NextObject
<1>3. IInv /\ OInv => ObjectHolds
  BY HoldsWhenAnswered
<1> QED  BY <1>1, <1>2, <1>3, PTL DEF Spec

-----------------------------------------------------------------------------
(* The channels' contracts (ChannelRouting), as MCContracts composes them. *)

MadeChannel == [name : Names, made : {"let", "try"}, state : {"open", "closed", "elsewhere"}]
ContractState == [forbidSend : BOOLEAN, closed : BOOLEAN]

(* The calls in progress: what their variables hold, and the drain checks  *)
(* they have deferred.                                                     *)
Slot == [ch : Nat, view : Routes!Views]
Environment == UNION {[D -> Slot] : D \in SUBSET Names}
Activation == [env : Environment, drains : Seq(Nat)]

HoldsMade(f, k) ==
  /\ \A n \in DOMAIN f.env : f.env[n].ch \in 1 .. k
  /\ \A d \in DOMAIN f.drains : f.drains[d] \in 1 .. k

FramesHold ==
  /\ frames \in Seq(Activation) /\ Len(frames) > 0
  /\ \A i \in 1 .. Len(frames) : HoldsMade(frames[i], Len(chans))

(* The names whose contract is enforced, and those that forbid sends.      *)
EnforcedNames == {n \in Names : Routes!Enforced(n)}
ForbiddingNames == {n \in Names : Routes!ForbidsSend(n)}

(* The monitor knows the channels of W, all three views of one by its own  *)
(* state; it knows the channels of a `let` of a contracted name, under     *)
(* that contract and with every close through what the contract reaches.   *)
Watch(W, s, E, F) ==
  /\ DOMAIN monitor = W \X Routes!Views
  /\ \A c \in W, v \in Routes!Views : monitor[<<c, v>>] = s[c]
  /\ \A c, d \in W : s[c] = s[d] => c = d
  /\ \A c \in W : states[s[c]].closed => chans[c].state # "open"
  /\ verdict # "rejected" =>
       \A c \in 1 .. Len(chans) : chans[c].made = "let" /\ chans[c].name \in E =>
         /\ c \in W
         /\ states[s[c]].forbidSend <=> chans[c].name \in F
         /\ chans[c].state = "closed" => states[s[c]].closed

MonitorSees ==
  \E W \in SUBSET (1 .. Len(chans)) : \E s \in [W -> 1 .. Len(states)] :
    Watch(W, s, EnforcedNames, ForbiddingNames)

RoutesTyped ==
  /\ chans \in Seq(MadeChannel) /\ states \in Seq(ContractState)
  /\ bound \in SUBSET Names
  /\ verdict # "panicked" => fault = Routes!NoFault

RInv == /\ RoutesTyped /\ FramesHold /\ MonitorSees
        /\ Routes!ContractReachesUses /\ Routes!DiagnosticIsTrue

LEMMA NoFaultIsFine ==
  fault = Routes!NoFault => Routes!ContractReachesUses /\ Routes!DiagnosticIsTrue
BY DEF Routes!NoFault, Routes!ContractReachesUses, Routes!DiagnosticIsTrue

LEMMA RoutesBegin == Routes!Init => RInv
<1> SUFFICES ASSUME Routes!Init  PROVE RInv
  OBVIOUS
<1>1. /\ chans = <<>> /\ states = <<>> /\ monitor = <<>> /\ fault = Routes!NoFault
      /\ bound \in SUBSET Names /\ Len(chans) = 0 /\ Len(states) = 0
      /\ frames = <<Routes!Frame(<<>>)>>
  BY DEF Routes!Init
<1>2. RoutesTyped
  BY <1>1 DEF RoutesTyped
<1>3. FramesHold
  <2>1. PICK e : e = <<>>
    OBVIOUS
  <2>2. e \in [{} -> Slot] /\ DOMAIN e = {} /\ {} \in SUBSET Names
    BY <2>1
  <2>3. e \in Environment
    BY <2>2 DEF Environment
  <2>4. PICK d \in Seq(Nat) : d = <<>> /\ DOMAIN d = {}
    <3>1. <<>> \in Seq(Nat) /\ DOMAIN <<>> = {}
      OBVIOUS
    <3> QED  BY <3>1
  <2>5. PICK f \in Activation : f = [env |-> e, drains |-> d]
    BY <2>3, <2>4 DEF Activation
  <2>6. frames = <<f>> /\ HoldsMade(f, 0)
    BY <1>1, <2>1, <2>2, <2>4, <2>5 DEF HoldsMade, Routes!Frame
  <2> QED  BY <1>1, <2>6 DEF FramesHold
<1>4. MonitorSees
  <2>1. PICK s : s = [c \in {} |-> 1]
    OBVIOUS
  <2>2. s \in [{} -> 1 .. Len(states)] /\ {} \in SUBSET (1 .. Len(chans))
    BY <2>1
  <2>3. DOMAIN monitor = {} \X Routes!Views
    BY <1>1
  <2>4. Watch({}, s, EnforcedNames, ForbiddingNames)
    <3>1. 1 .. Len(chans) = {}
      BY <1>1
    <3> QED  BY <2>3, <3>1 DEF Watch
  <2> QED  BY <2>2, <2>4 DEF MonitorSees
<1> QED  BY <1>1, <1>2, <1>3, <1>4, NoFaultIsFine DEF RInv

(* The contracts are the program's.                                        *)
LEMMA ContractsStay ==
  ASSUME UNCHANGED Routes!chanProgram
  PROVE  EnforcedNames' = EnforcedNames /\ ForbiddingNames' = ForbiddingNames
BY DEF Routes!chanProgram, EnforcedNames, ForbiddingNames, Routes!Enforced, Routes!ForbidsSend,
       Routes!ClausesOf

LEMMA ForbiddingIsEnforced == ForbiddingNames \in SUBSET EnforcedNames
BY DEF EnforcedNames, ForbiddingNames, Routes!Enforced, Routes!ForbidsSend

(* The variable that is bound holds a channel that is made.                *)
LEMMA BindHolds ==
  ASSUME FramesHold, Len(chans) \in Nat, NEW k \in Nat, k = Len(chans'), k >= Len(chans),
         NEW n \in Names, NEW ch \in 1 .. k, NEW view \in Routes!Views,
         NEW drains \in {<<>>, <<ch>>}, Routes!Bind(n, ch, view, drains)
  PROVE  FramesHold'
<1>1. PICK l \in Nat : l = Len(frames) /\ l > 0
  BY DEF FramesHold
<1>2. PICK f \in Activation : f = frames[l]
  BY <1>1 DEF FramesHold
<1>3. HoldsMade(f, Len(chans)) /\ f.env = Routes!Env
  BY <1>1, <1>2 DEF FramesHold, Routes!Env
<1>4. PICK D \in SUBSET Names : f.env \in [D -> Slot]
  BY <1>2 DEF Activation, Environment
<1>5. PICK e : e = Routes!Over(Routes!Variable(n, ch, view), f.env)
  OBVIOUS
<1>6. e = [x \in {n} \cup D |-> IF x = n THEN [ch |-> ch, view |-> view] ELSE f.env[x]]
  BY <1>4, <1>5 DEF Routes!Over, Routes!Variable
<1>7. e \in [{n} \cup D -> Slot] /\ \A x \in DOMAIN e : e[x].ch \in 1 .. k
  <2>1. PICK slot \in Slot : slot = [ch |-> ch, view |-> view] /\ slot.ch = ch
    <3>1. ch \in Nat
      OBVIOUS
    <3>2. [ch |-> ch, view |-> view] \in Slot
      BY <3>1 DEF Slot
    <3>3. [ch |-> ch, view |-> view].ch = ch
      OBVIOUS
    <3> QED  BY <3>2, <3>3
  <2>2. \A x \in D : f.env[x] \in Slot /\ f.env[x].ch \in 1 .. k
    BY <1>3, <1>4 DEF HoldsMade
  <2> QED  BY <1>6, <2>1, <2>2
<1>8. e \in Environment
  BY <1>7 DEF Environment
<1>9. PICK old \in Seq(Nat) : old = f.drains /\ \A d \in 1 .. Len(old) : old[d] \in 1 .. k
  BY <1>2, <1>3 DEF Activation, HoldsMade
<1>10. PICK ds \in Seq(Nat) : ds = drains \o old /\ \A d \in 1 .. Len(ds) : ds[d] \in 1 .. k
  <2>1. CASE drains = <<>>
    BY <1>9, <2>1
  <2>2. CASE drains = <<ch>>
    <3>1. PICK m \in Nat : m = Len(old)
      OBVIOUS
    <3>2. PICK one \in Seq(Nat) : one = <<ch>> /\ Len(one) = 1 /\ one[1] = ch
      <4>1. <<ch>> \in Seq(Nat) /\ Len(<<ch>>) = 1 /\ <<ch>>[1] = ch
        OBVIOUS
      <4> QED  BY <4>1
    <3>3. PICK ds \in Seq(Nat) : ds = one \o old
      <4>1. one \o old \in Seq(Nat)
        OBVIOUS
      <4> QED  BY <4>1
    <3>4. /\ Len(ds) = m + 1 /\ ds[1] = ch
          /\ \A d \in 2 .. (m + 1) : ds[d] = old[d - 1] /\ d - 1 \in 1 .. m
      BY <3>1, <3>2, <3>3
    <3>5. 1 .. (m + 1) = {1} \cup (2 .. (m + 1))
      OBVIOUS
    <3>6. \A d \in 1 .. Len(ds) : ds[d] \in 1 .. k
      BY <1>9, <3>1, <3>4, <3>5
    <3> QED  BY <2>2, <3>2, <3>3, <3>6
  <2> QED  BY <2>1, <2>2
<1>11. PICK g \in Activation : g = [env |-> e, drains |-> ds]
  BY <1>8, <1>10 DEF Activation
<1>12. HoldsMade(g, k)
  <2>1. g.env = e /\ g.drains = ds /\ DOMAIN ds = 1 .. Len(ds)
    BY <1>10, <1>11
  <2> QED  BY <1>7, <1>10, <2>1 DEF HoldsMade
<1>13. frames' = [frames EXCEPT ![l] = g]
  BY <1>1, <1>2, <1>3, <1>5, <1>9, <1>10, <1>11 DEF Routes!Bind
<1>14. frames' \in Seq(Activation) /\ Len(frames') = l /\ frames'[l] = g
       /\ \A i \in 1 .. l : i # l => frames'[i] = frames[i]
  BY <1>1, <1>13 DEF FramesHold
<1>15. ASSUME NEW i \in 1 .. l  PROVE HoldsMade(frames'[i], k)
  <2>1. CASE i = l
    BY <1>12, <1>14, <2>1
  <2>2. CASE i # l
    <3>1. 1 .. Len(chans) \subseteq 1 .. k
      OBVIOUS
    <3>2. HoldsMade(frames[i], Len(chans)) /\ frames'[i] = frames[i]
      BY <1>1, <1>14, <2>2 DEF FramesHold
    <3> QED  BY <3>1, <3>2 DEF HoldsMade
  <2> QED  BY <2>1, <2>2
<1>16. \A i \in 1 .. Len(frames') : HoldsMade(frames'[i], Len(chans'))
  BY <1>14, <1>15
<1>17. frames' \in Seq(Activation) /\ Len(frames') > 0
  BY <1>1, <1>14
<1> QED  BY <1>16, <1>17 DEF FramesHold

(* The channels there were, and perhaps one more.                          *)
Grows(k) ==
  /\ k = Len(chans) \/ k = Len(chans) + 1
  /\ \A c \in 1 .. Len(chans) : chans'[c] = chans[c]
  /\ k = Len(chans')

LEMMA UnregisteredSees ==
  ASSUME RoutesTyped, MonitorSees, verdict = "running", UNCHANGED Routes!chanProgram,
         NEW k \in Nat, Grows(k), UNCHANGED <<monitor, states>>,
         \/ verdict' = "rejected" 
         \/ k > Len(chans) => ~(chans'[k].made = "let" /\ chans'[k].name \in EnforcedNames)
  PROVE  MonitorSees'
<1>1. PICK l \in Nat : l = Len(chans)
  BY DEF RoutesTyped
<1>2. PICK E, F : E = EnforcedNames /\ F = ForbiddingNames
  OBVIOUS
<1>30. PICK W \in SUBSET (1 .. l) : \E s \in [W -> 1 .. Len(states)] : Watch(W, s, E, F)
  BY <1>1, <1>2 DEF MonitorSees
<1>3. PICK s \in [W -> 1 .. Len(states)] : Watch(W, s, E, F)
  BY <1>30
<1>4. EnforcedNames' = E /\ ForbiddingNames' = F
  BY <1>2, ContractsStay
<1>5. W \in SUBSET (1 .. k) /\ \A c \in W : c \in 1 .. l /\ chans'[c] = chans[c]
  BY <1>1, <1>3 DEF Grows
<1>6. ASSUME verdict' # "rejected", NEW c \in 1 .. k, chans'[c].made = "let" /\ chans'[c].name \in E
      PROVE  c \in 1 .. l /\ chans'[c] = chans[c]
  BY <1>1, <1>2, <1>6 DEF Grows
<1>7. Watch(W, s, E, F)'
  <2>1. DOMAIN monitor' = W \X Routes!Views /\ \A c \in W, v \in Routes!Views : monitor'[<<c, v>>] = s[c]
    BY <1>3 DEF Watch
  <2>2. \A c, d \in W : s[c] = s[d] => c = d
    BY <1>3 DEF Watch
  <2>3. \A c \in W : states'[s[c]].closed => chans'[c].state # "open"
    BY <1>3, <1>5 DEF Watch
  <2>4. verdict' # "rejected" =>
          \A c \in 1 .. k : chans'[c].made = "let" /\ chans'[c].name \in E =>
            /\ c \in W
            /\ states'[s[c]].forbidSend <=> chans'[c].name \in F
            /\ chans'[c].state = "closed" => states'[s[c]].closed
    BY <1>1, <1>3, <1>6 DEF Watch
  <2> QED  BY <2>1, <2>2, <2>3, <2>4 DEF Watch, Grows
<1> QED  BY <1>3, <1>4, <1>5, <1>7 DEF MonitorSees, Grows

LEMMA RegisteredWhen ==
  ASSUME NEW W, NEW s, NEW E, NEW F, Watch(W, s, E, F)
  PROVE  \A ch, v : v \in Routes!Views =>
           /\ Routes!Registered(ch, v) <=> ch \in W
           /\ ch \in W => Routes!StateOf(ch, v) = states[s[ch]]
BY DEF Watch, Routes!Registered, Routes!StateOf

(* Registering keeps to the state that is there, or makes one.             *)
LEMMA RegisterSees ==
  ASSUME RoutesTyped, MonitorSees, verdict = "running", UNCHANGED Routes!chanProgram,
         NEW k \in Nat, Grows(k), NEW ch \in 1 .. k, NEW n \in Names, Routes!Register(ch, n),
         k > Len(chans) => ch = k /\ chans'[k].name = n /\ chans'[k].state = "open"
  PROVE  MonitorSees' /\ states' \in Seq(ContractState)
<1>1. PICK l \in Nat : l = Len(chans)
  BY DEF RoutesTyped
<1>2. PICK E, F : E = EnforcedNames /\ F = ForbiddingNames
  OBVIOUS
<1>3. PICK m \in Nat : m = Len(states)
  BY DEF RoutesTyped
<1>40. PICK W \in SUBSET (1 .. l) : \E s \in [W -> 1 .. m] : Watch(W, s, E, F)
  BY <1>1, <1>2, <1>3 DEF MonitorSees
<1>4. PICK s \in [W -> 1 .. m] : Watch(W, s, E, F)
  BY <1>40
<1>5. EnforcedNames' = E /\ ForbiddingNames' = F
  BY <1>2, ContractsStay
<1>6. Routes!Registered(ch, "Channel") <=> ch \in W
  BY <1>4, RegisteredWhen DEF Routes!Views
<1>7. \A c \in W : c \in 1 .. l /\ c \in 1 .. k /\ chans'[c] = chans[c]
  BY <1>1, <1>4 DEF Grows
<1>8. CASE ch \in W
  <2>1. UNCHANGED <<monitor, states>>
    BY <1>6, <1>8 DEF Routes!Register
  <2>2. k = Len(chans)
    BY <1>1, <1>7, <1>8 DEF Grows
  <2>3. ~(k > Len(chans))
    BY <1>1, <2>2
  <2> QED  BY <2>1, <2>3, UnregisteredSees DEF RoutesTyped
<1>9. CASE ch \notin W
  <2>1. Routes!NewState(n) /\ monitor' = Routes!Over(monitor, Routes!UnderViews(ch))
    BY <1>6, <1>9 DEF Routes!Register
  <2>2. PICK st \in ContractState :
          st = [forbidSend |-> Routes!ForbidsSend(n), closed |-> FALSE]
    <3>1. Routes!ForbidsSend(n) \in BOOLEAN
      BY DEF Routes!ForbidsSend
    <3> QED  BY <3>1 DEF ContractState
  <2>3. ~st.closed /\ (st.forbidSend <=> n \in F)
    BY <1>2, <2>2 DEF ForbiddingNames
  <2>4. states' = Append(states, st)
    BY <2>1, <2>2 DEF Routes!NewState
  <2>5. /\ states' \in Seq(ContractState) /\ Len(states') = m + 1 /\ states'[m + 1] = st
        /\ \A i \in 1 .. m : states'[i] = states[i]
    BY <1>3, <2>4 DEF RoutesTyped
  <2>6. PICK W2 \in SUBSET (1 .. k) : W2 = W \cup {ch}
    BY <1>7
  <2>7. PICK s2 : s2 = [c \in W2 |-> IF c \in W THEN s[c] ELSE m + 1]
    OBVIOUS
  <2>8. s2 \in [W2 -> 1 .. (m + 1)] /\ s2[ch] = m + 1 /\ \A c \in W : s2[c] = s[c] /\ s[c] \in 1 .. m
    BY <1>4, <1>9, <2>6, <2>7
  <2>9. /\ DOMAIN monitor' = W2 \X Routes!Views
        /\ \A c \in W2, v \in Routes!Views : monitor'[<<c, v>>] = s2[c]
    <3>1. PICK u : u = Routes!UnderViews(ch)
      OBVIOUS
    <3>2. DOMAIN u = {ch} \X Routes!Views /\ \A p \in {ch} \X Routes!Views : u[p] = m + 1
      BY <2>5, <3>1 DEF Routes!UnderViews
    <3>3. DOMAIN monitor = W \X Routes!Views /\ \A c \in W, v \in Routes!Views : monitor[<<c, v>>] = s[c]
      BY <1>4 DEF Watch
    <3>4. monitor' = [x \in DOMAIN monitor \cup DOMAIN u |-> IF x \in DOMAIN monitor THEN monitor[x] ELSE u[x]]
      BY <2>1, <3>1 DEF Routes!Over
    <3>5. DOMAIN monitor' = W2 \X Routes!Views
      BY <2>6, <3>2, <3>3, <3>4
    <3>6. ASSUME NEW c \in W, NEW v \in Routes!Views
          PROVE  monitor'[<<c, v>>] = s[c]
      BY <3>3, <3>4
    <3>7. ASSUME NEW v \in Routes!Views
          PROVE  monitor'[<<ch, v>>] = m + 1
      <4>1. <<ch, v>> \notin W \X Routes!Views /\ <<ch, v>> \in {ch} \X Routes!Views
        BY <1>9
      <4> QED  BY <3>2, <3>3, <3>4, <4>1
    <3> QED  BY <2>6, <2>8, <3>5, <3>6, <3>7
  <2>10. \A c, d \in W2 : s2[c] = s2[d] => c = d
    <3>1. \A c, d \in W : s[c] = s[d] => c = d
      BY <1>4 DEF Watch
    <3>2. ASSUME NEW c \in W  PROVE s2[c] # m + 1
      <4>1. PICK i \in 1 .. m : i = s2[c]
        BY <2>8
      <4> QED  BY <4>1
    <3> QED  BY <2>6, <2>8, <3>1, <3>2
  <2>11. \A c \in W : states'[s2[c]] = states[s[c]] /\ chans'[c] = chans[c]
    BY <1>7, <2>5, <2>8
  <2>12. states'[s2[ch]] = st
    BY <2>5, <2>8
  <2>13. \A c \in W2 : states'[s2[c]].closed => chans'[c].state # "open"
    BY <1>4, <2>3, <2>6, <2>11, <2>12 DEF Watch
  <2>14. ASSUME NEW c \in 1 .. k, chans'[c].made = "let" /\ chans'[c].name \in E
         PROVE  /\ c \in W2
                /\ states'[s2[c]].forbidSend <=> chans'[c].name \in F
                /\ chans'[c].state = "closed" => states'[s2[c]].closed
    <3>1. CASE c \in 1 .. l
      <4>1. chans'[c] = chans[c]
        BY <1>1, <3>1 DEF Grows
      <4>2. c \in W /\ (states[s[c]].forbidSend <=> chans[c].name \in F)
            /\ (chans[c].state = "closed" => states[s[c]].closed)
        BY <1>1, <1>4, <2>14, <3>1, <4>1 DEF Watch
      <4> QED  BY <2>6, <2>11, <4>1, <4>2
    <3>2. CASE c \notin 1 .. l
      <4>1. k > Len(chans) /\ c = k
        BY <1>1, <3>2 DEF Grows
      <4>2. c = ch /\ chans'[c].name = n /\ chans'[c].state = "open"
        BY <4>1
      <4> QED  BY <2>3, <2>6, <2>12, <4>2
    <3> QED  BY <3>1, <3>2
  <2>15. Watch(W2, s2, E, F)'
    BY <2>9, <2>10, <2>13, <2>14 DEF Watch, Grows
  <2>16. k = Len(chans') /\ m + 1 = Len(states')
    BY <2>5 DEF Grows
  <2> QED  BY <1>5, <2>5, <2>6, <2>8, <2>15, <2>16 DEF MonitorSees
<1> QED  BY <1>8, <1>9

LEMMA FramesStay ==
  ASSUME RoutesTyped, FramesHold, NEW k \in Nat, Grows(k), UNCHANGED frames
  PROVE  FramesHold'
<1>1. PICK l \in Nat : l = Len(chans)
  BY DEF RoutesTyped
<1>2. 1 .. l \subseteq 1 .. k /\ k = Len(chans')
  BY <1>1 DEF Grows
<1>3. \A i \in 1 .. Len(frames) : HoldsMade(frames[i], k)
  BY <1>1, <1>2 DEF FramesHold, HoldsMade
<1> QED  BY <1>2, <1>3 DEF FramesHold

LEMMA NothingGrows ==
  ASSUME RoutesTyped, UNCHANGED chans
  PROVE  Len(chans) \in Nat /\ Grows(Len(chans)) /\ ~(Len(chans) > Len(chans))
BY DEF RoutesTyped, Grows

LEMMA NewChannel ==
  ASSUME RoutesTyped, NEW n \in Names, NEW how \in {"let", "try"}, Routes!NewChan(n, how)
  PROVE  \E k \in Nat : /\ k > 0 /\ Grows(k) /\ k > Len(chans) /\ chans' \in Seq(MadeChannel)
                        /\ chans'[k].name = n /\ chans'[k].made = how
                        /\ chans'[k].state = "open"
<1>1. PICK l \in Nat : l = Len(chans)
  BY DEF RoutesTyped
<1>2. PICK new \in MadeChannel : new = [name |-> n, made |-> how, state |-> "open"]
  BY DEF MadeChannel
<1>3. chans' = Append(chans, new)
  BY <1>2 DEF Routes!NewChan
<1>4. /\ chans' \in Seq(MadeChannel) /\ Len(chans') = l + 1 /\ chans'[l + 1] = new
      /\ \A c \in 1 .. l : chans'[c] = chans[c]
  BY <1>1, <1>3 DEF RoutesTyped
<1>5. l + 1 \in Nat /\ l + 1 > 0 /\ l + 1 > Len(chans) /\ Grows(l + 1)
  BY <1>1, <1>4 DEF Grows
<1>6. new.name = n /\ new.made = how /\ new.state = "open"
  BY <1>2
<1> QED  BY <1>4, <1>5, <1>6

LEMMA NoFaultYet ==
  ASSUME RInv, verdict # "panicked", UNCHANGED fault
  PROVE  fault' = Routes!NoFault /\ Routes!ContractReachesUses' /\ Routes!DiagnosticIsTrue'
<1>1. fault' = [what |-> "none"]
  BY DEF RInv, RoutesTyped, Routes!NoFault
<1> QED
  BY <1>1 DEF Routes!NoFault, Routes!ContractReachesUses, Routes!DiagnosticIsTrue

LEMMA LetRegStep ==
  ASSUME RInv, verdict = "running", UNCHANGED <<mode, blocks, bound, fault>>,
         NEW k \in Nat, Grows(k), chans' \in Seq(MadeChannel), NEW n \in Names, NEW ch \in 1 .. k,
         NEW from \in Routes!Views, NEW to \in Routes!Views, NEW top \in BOOLEAN,
         Routes!LetReg(n, ch, from, to, top),
         k > Len(chans) => /\ ch = k /\ from = "Channel"
                           /\ chans'[k].name = n /\ chans'[k].state = "open"
  PROVE  RInv'
<1>1. UNCHANGED Routes!chanProgram /\ RoutesTyped /\ FramesHold /\ MonitorSees
  BY DEF RInv, Routes!chanProgram
<1>2. fault' = Routes!NoFault /\ Routes!ContractReachesUses' /\ Routes!DiagnosticIsTrue'
  BY NoFaultYet
<1>3. Len(chans) \in Nat /\ k = Len(chans') /\ k >= Len(chans)
  BY <1>1 DEF RoutesTyped, Grows
<1>4. CASE ~Routes!Enforced(n) \/ from # "Channel"
  <2>1. Routes!Bind(n, ch, to, <<>>) /\ UNCHANGED <<verdict, monitor, states>>
    BY <1>4 DEF Routes!LetReg
  <2>2. FramesHold'
    BY <1>1, <1>3, <2>1, BindHolds
  <2>3. k > Len(chans) => chans'[k].name \notin EnforcedNames
    BY <1>4 DEF EnforcedNames
  <2>4. MonitorSees'
    BY <1>1, <2>1, <2>3, UnregisteredSees
  <2> QED  BY <1>1, <1>2, <2>1, <2>2, <2>4 DEF RInv, RoutesTyped
<1>5. CASE ~(~Routes!Enforced(n) \/ from # "Channel") /\ (top \/ to # "Channel")
  <2>1. verdict' = "rejected" /\ UNCHANGED <<frames, monitor, states>>
    BY <1>5 DEF Routes!LetReg
  <2>2. FramesHold'
    BY <1>1, <2>1, FramesStay
  <2>3. MonitorSees'
    BY <1>1, <2>1, UnregisteredSees
  <2> QED  BY <1>1, <1>2, <2>1, <2>2, <2>3 DEF RInv, RoutesTyped
<1>6. CASE ~(~Routes!Enforced(n) \/ from # "Channel") /\ ~(top \/ to # "Channel")
  <2>1. /\ Routes!Register(ch, n) /\ UNCHANGED verdict
        /\ \E drains \in {<<>>, <<ch>>} : Routes!Bind(n, ch, to, drains)
    BY <1>6 DEF Routes!LetReg
  <2>2. FramesHold'
    BY <1>1, <1>3, <2>1, BindHolds
  <2>3. MonitorSees' /\ states' \in Seq(ContractState)
    BY <1>1, <2>1, RegisterSees
  <2> QED  BY <1>1, <1>2, <2>1, <2>2, <2>3 DEF RInv, RoutesTyped
<1> QED  BY <1>4, <1>5, <1>6

LEMMA MakeStep ==
  ASSUME RInv, NEW n \in Names, NEW view \in Routes!Views, NEW top \in BOOLEAN,
         Routes!Make(n, view, top)
  PROVE  RInv'
<1>1. /\ verdict = "running" /\ UNCHANGED <<mode, blocks, bound, fault>>
      /\ Routes!NewChan(n, "let") /\ Routes!LetReg(n, Len(chans'), "Channel", view, top)
  BY DEF Routes!Make, Routes!NewChan, Routes!Running, Routes!chanProgram
<1>2. PICK k \in Nat : /\ k > 0 /\ Grows(k) /\ k > Len(chans) /\ chans' \in Seq(MadeChannel)
                       /\ chans'[k].name = n /\ chans'[k].state = "open"
  BY <1>1, NewChannel DEF RInv
<1>3. k = Len(chans') /\ k \in 1 .. k /\ "Channel" \in Routes!Views
  BY <1>2 DEF Grows, Routes!Views
<1> QED  BY <1>1, <1>2, <1>3, LetRegStep

LEMMA MakeTryStep ==
  ASSUME RInv, NEW n \in Names, Routes!MakeTry(n)
  PROVE  RInv'
<1>1. /\ verdict = "running" /\ UNCHANGED Routes!chanProgram /\ bound' = bound
      /\ UNCHANGED <<verdict, monitor, states, fault>>
      /\ Routes!NewChan(n, "try") /\ Routes!Bind(n, Len(chans'), "Channel", <<>>)
  BY DEF Routes!MakeTry, Routes!NewChan, Routes!Running, Routes!chanProgram
<1>2. PICK k \in Nat : /\ k > 0 /\ Grows(k) /\ k > Len(chans) /\ chans' \in Seq(MadeChannel)
                       /\ chans'[k].made = "try"
  BY <1>1, NewChannel DEF RInv
<1>3. k = Len(chans') /\ k \in 1 .. k /\ "Channel" \in Routes!Views /\ Len(chans) \in Nat
      /\ k >= Len(chans)
  BY <1>2 DEF Grows, Routes!Views, RInv, RoutesTyped
<1>4. FramesHold'
  BY <1>1, <1>3, BindHolds DEF RInv
<1>5. MonitorSees'
  BY <1>1, <1>2, UnregisteredSees DEF RInv
<1>6. fault' = Routes!NoFault /\ Routes!ContractReachesUses' /\ Routes!DiagnosticIsTrue'
  BY <1>1, NoFaultYet
<1> QED  BY <1>1, <1>2, <1>4, <1>5, <1>6 DEF RInv, RoutesTyped

(* What a variable holds.                                                  *)
LEMMA VariableHolds ==
  ASSUME FramesHold
  PROVE  /\ \A n \in DOMAIN Routes!Env : /\ n \in Names /\ Routes!Env[n].ch \in 1 .. Len(chans)
                                         /\ Routes!Env[n].view \in Routes!Views
         /\ \A d \in DOMAIN frames[Len(frames)].drains :
              frames[Len(frames)].drains[d] \in 1 .. Len(chans)
<1>1. PICK l \in Nat : l = Len(frames) /\ l > 0
  BY DEF FramesHold
<1>2. PICK f \in Activation : f = frames[l]
  BY <1>1 DEF FramesHold
<1>3. HoldsMade(f, Len(chans)) /\ f.env = Routes!Env
  BY <1>1, <1>2 DEF FramesHold, Routes!Env
<1>4. PICK D \in SUBSET Names : f.env \in [D -> Slot]
  BY <1>2 DEF Activation, Environment
<1>5. \A n \in D : f.env[n].view \in Routes!Views
  BY <1>4 DEF Slot
<1> QED  BY <1>1, <1>2, <1>3, <1>4, <1>5 DEF HoldsMade

LEMMA RebindStep ==
  ASSUME RInv, NEW n \in Names, NEW m \in Names, NEW view \in Routes!Views,
         Routes!Rebind(n, m, view)
  PROVE  RInv'
<1>1. /\ verdict = "running" /\ UNCHANGED <<mode, blocks, bound, fault, chans>>
      /\ m \in DOMAIN Routes!Env
      /\ Routes!LetReg(n, Routes!Env[m].ch, Routes!Env[m].view, view, FALSE)
  BY DEF Routes!Rebind, Routes!Running, Routes!chanProgram
<1>2. PICK k \in Nat : k = Len(chans) /\ Grows(k) /\ ~(k > Len(chans))
  BY <1>1, NothingGrows DEF RInv
<1>3. PICK ch \in 1 .. k : ch = Routes!Env[m].ch
  BY <1>1, <1>2, VariableHolds DEF RInv
<1>4. PICK from \in Routes!Views : from = Routes!Env[m].view
  BY <1>1, VariableHolds DEF RInv
<1>5. chans' \in Seq(MadeChannel)
  BY <1>1 DEF RInv, RoutesTyped
<1>6. Routes!LetReg(n, ch, from, view, FALSE) /\ FALSE \in BOOLEAN
  BY <1>1, <1>3, <1>4
<1> QED  BY <1>1, <1>2, <1>5, <1>6, LetRegStep

LEMMA CallStep ==
  ASSUME RInv, NEW n \in Names, NEW m \in Names, NEW view \in Routes!Views, Routes!Call(n, m, view)
  PROVE  RInv'
<1>1. /\ verdict = "running" /\ UNCHANGED Routes!chanProgram /\ bound' = bound
      /\ UNCHANGED <<verdict, chans, monitor, states, fault>>
      /\ m \in DOMAIN Routes!Env
      /\ frames' = Append(frames, Routes!Frame(Routes!Variable(n, Routes!Env[m].ch, view)))
  BY DEF Routes!Call, Routes!Running, Routes!chanProgram
<1>2. PICK k \in Nat : k = Len(chans) /\ Grows(k) /\ ~(k > Len(chans))
  BY <1>1, NothingGrows DEF RInv
<1>3. PICK ch \in 1 .. k : ch = Routes!Env[m].ch
  BY <1>1, <1>2, VariableHolds DEF RInv
<1>4. MonitorSees'
  BY <1>1, <1>2, UnregisteredSees DEF RInv
<1>5. FramesHold'
  <2>1. PICK slot \in Slot : slot = [ch |-> ch, view |-> view] /\ slot.ch = ch
    <3>1. ch \in Nat
      OBVIOUS
    <3>2. [ch |-> ch, view |-> view] \in Slot
      BY <3>1 DEF Slot
    <3>3. [ch |-> ch, view |-> view].ch = ch
      OBVIOUS
    <3> QED  BY <3>2, <3>3
  <2>2. PICK e : e = Routes!Variable(n, ch, view)
    OBVIOUS
  <2>3. e \in [{n} -> Slot] /\ {n} \in SUBSET Names /\ \A x \in DOMAIN e : e[x].ch \in 1 .. k
    BY <2>1, <2>2 DEF Routes!Variable
  <2>4. e \in Environment
    BY <2>3 DEF Environment
  <2>5. PICK d \in Seq(Nat) : d = <<>> /\ DOMAIN d = {}
    <3>1. <<>> \in Seq(Nat) /\ DOMAIN <<>> = {}
      OBVIOUS
    <3> QED  BY <3>1
  <2>6. PICK f \in Activation : f = [env |-> e, drains |-> d]
    BY <2>4, <2>5 DEF Activation
  <2>7. f = Routes!Frame(e) /\ HoldsMade(f, k)
    BY <2>3, <2>5, <2>6 DEF HoldsMade, Routes!Frame
  <2>8. PICK l \in Nat : l = Len(frames) /\ l > 0
    BY DEF RInv, FramesHold
  <2>9. frames' = Append(frames, f)
    BY <1>1, <1>3, <2>2, <2>7
  <2>10. /\ frames' \in Seq(Activation) /\ Len(frames') = l + 1 /\ frames'[l + 1] = f
         /\ \A i \in 1 .. l : frames'[i] = frames[i]
    BY <2>8, <2>9 DEF RInv, FramesHold
  <2>11. \A i \in 1 .. (l + 1) : i \in 1 .. l \/ i = l + 1
    OBVIOUS
  <2>12. \A i \in 1 .. (l + 1) : HoldsMade(frames'[i], k)
    BY <1>2, <2>7, <2>8, <2>10, <2>11 DEF RInv, FramesHold
  <2> QED  BY <1>1, <1>2, <2>8, <2>10, <2>12 DEF FramesHold
<1>6. fault' = Routes!NoFault /\ Routes!ContractReachesUses' /\ Routes!DiagnosticIsTrue'
  BY <1>1, NoFaultYet
<1> QED  BY <1>1, <1>4, <1>5, <1>6 DEF RInv, RoutesTyped

(* What a panic says is true of the channel ch, which it leaves alone.     *)
Truth(what, ch, known) ==
  /\ what = "send on closed channel" /\ known
       => ~(/\ chans[ch].made = "let" /\ chans[ch].state = "closed"
            /\ Routes!ForbidsSend(chans[ch].name))
  /\ what = "close of closed channel" /\ known
       => ~(/\ chans[ch].made = "let" /\ chans[ch].state = "closed"
            /\ Routes!Enforced(chans[ch].name))
  /\ what \in {"E1202", "E1203"} => chans[ch].state # "open"
  /\ what = "E1203" => \E n \in Names : Routes!ForbidsSend(n)
  /\ what = "E1207" /\ chans[ch].made = "let" /\ Routes!Enforced(chans[ch].name)
       => chans[ch].state # "closed"

LEMMA PanicStep ==
  ASSUME RInv, verdict = "running", UNCHANGED Routes!chanProgram, NEW what, NEW ch, NEW known,
         Routes!Panic(what, ch, known), Truth(what, ch, known)
  PROVE  RInv'
<1>1. /\ UNCHANGED <<frames, chans, monitor, states, mode, blocks, bound>> /\ verdict' = "panicked"
      /\ fault' = [what |-> what, ch |-> ch, known |-> known]
  BY DEF Routes!Panic, Routes!chanRun, Routes!chanProgram
<1>2. PICK k \in Nat : k = Len(chans) /\ Grows(k) /\ ~(k > Len(chans))
  BY <1>1, NothingGrows DEF RInv
<1>3. FramesHold'
  BY <1>1, <1>2, FramesStay DEF RInv
<1>4. MonitorSees'
  BY <1>1, <1>2, UnregisteredSees DEF RInv
<1>5. PICK w : w = fault' /\ w.what = what /\ w.ch = ch /\ w.known = known
  BY <1>1
<1>6. Routes!ContractReachesUses'
  BY <1>1, <1>5 DEF Truth, Routes!ContractReachesUses, Routes!ForbidsSend, Routes!Enforced,
                    Routes!ClausesOf
<1>7. Routes!DiagnosticIsTrue'
  BY <1>1, <1>5 DEF Truth, Routes!DiagnosticIsTrue, Routes!ForbidsSend, Routes!Enforced,
                    Routes!ClausesOf
<1> QED  BY <1>1, <1>3, <1>4, <1>6, <1>7 DEF RInv, RoutesTyped

LEMMA CheckRouteStep ==
  ASSUME RInv, Routes!Check
  PROVE  RInv'
<1>1. /\ verdict = "unchecked" /\ verdict' \in {"running", "E1210"}
      /\ UNCHANGED Routes!chanProgram /\ UNCHANGED <<frames, chans, monitor, states, fault, bound>>
  BY DEF Routes!Check, Routes!chanRun, Routes!chanProgram
<1>2. FramesHold'
  BY <1>1 DEF RInv, FramesHold
<1>3. EnforcedNames' = EnforcedNames /\ ForbiddingNames' = ForbiddingNames
  BY <1>1, ContractsStay
<1>4. MonitorSees'
  <2>1. PICK E, F : E = EnforcedNames /\ F = ForbiddingNames
    OBVIOUS
  <2>2. PICK W \in SUBSET (1 .. Len(chans)) : \E s \in [W -> 1 .. Len(states)] : Watch(W, s, E, F)
    BY <2>1 DEF RInv, MonitorSees
  <2>3. PICK s \in [W -> 1 .. Len(states)] : Watch(W, s, E, F)
    BY <2>2
  <2>4. Watch(W, s, E, F)'
    BY <1>1, <2>3 DEF Watch
  <2> QED  BY <1>1, <1>3, <2>1, <2>4 DEF MonitorSees
<1>5. fault' = Routes!NoFault /\ Routes!ContractReachesUses' /\ Routes!DiagnosticIsTrue'
  BY <1>1, NoFaultYet
<1> QED  BY <1>1, <1>2, <1>4, <1>5 DEF RInv, RoutesTyped

LEMMA NamesOfChannels ==
  ASSUME RoutesTyped, NEW ch \in 1 .. Len(chans)
  PROVE  chans[ch].name \in Names
<1>1. PICK c \in MadeChannel : c = chans[ch]
  BY DEF RoutesTyped
<1> QED  BY <1>1 DEF MadeChannel

(* A `let` of a contracted name has been seen by the monitor.              *)
LEMMA ContractedIsSeen ==
  ASSUME RInv, verdict = "running", NEW ch \in 1 .. Len(chans),
         chans[ch].made = "let", Routes!Enforced(chans[ch].name)
  PROVE  \A v \in Routes!Views :
           /\ Routes!Registered(ch, v)
           /\ Routes!StateOf(ch, v).forbidSend <=> Routes!ForbidsSend(chans[ch].name)
           /\ chans[ch].state = "closed" => Routes!StateOf(ch, v).closed
<1>1. PICK E, F : E = EnforcedNames /\ F = ForbiddingNames
  OBVIOUS
<1>2. PICK W \in SUBSET (1 .. Len(chans)) : \E s \in [W -> 1 .. Len(states)] : Watch(W, s, E, F)
  BY <1>1 DEF RInv, MonitorSees
<1>3. PICK s \in [W -> 1 .. Len(states)] : Watch(W, s, E, F)
  BY <1>2
<1>4. PICK name \in Names : name = chans[ch].name
  BY NamesOfChannels DEF RInv
<1>5. name \in E /\ (name \in F <=> Routes!ForbidsSend(name))
  BY <1>1, <1>4 DEF EnforcedNames, ForbiddingNames
<1>6. ch \in W /\ (states[s[ch]].forbidSend <=> name \in F)
      /\ (chans[ch].state = "closed" => states[s[ch]].closed)
  BY <1>3, <1>4, <1>5 DEF Watch
<1> QED  BY <1>3, <1>4, <1>5, <1>6, RegisteredWhen

(* What the monitor has as closed is closed.                               *)
LEMMA ClosedIsClosed ==
  ASSUME RInv, NEW ch, NEW v \in Routes!Views, Routes!Registered(ch, v), Routes!StateOf(ch, v).closed
  PROVE  chans[ch].state # "open"
<1>1. PICK E, F : E = EnforcedNames /\ F = ForbiddingNames
  OBVIOUS
<1>2. PICK W \in SUBSET (1 .. Len(chans)) : \E s \in [W -> 1 .. Len(states)] : Watch(W, s, E, F)
  BY <1>1 DEF RInv, MonitorSees
<1>3. PICK s \in [W -> 1 .. Len(states)] : Watch(W, s, E, F)
  BY <1>2
<1>4. ch \in W /\ states[s[ch]].closed
  BY <1>3, RegisteredWhen
<1> QED  BY <1>3, <1>4 DEF Watch

LEMMA LeastLeaked ==
  ASSUME NEW S \in SUBSET Nat, S # {}
  PROVE  \E i \in S : \A j \in S : i <= j
<1> DEFINE Below == {0 .. (x - 1) : x \in S}
<1>1. \A x \in S : 0 .. (x - 1) \in FiniteSubsetsOf(Nat)
  <2>1. \A x \in S : IsFiniteSet(0 .. (x - 1))
    BY FS_Interval
  <2>2. \A x \in S : 0 .. (x - 1) \in SUBSET Nat
    OBVIOUS
  <2> QED  BY <2>1, <2>2 DEF FiniteSubsetsOf
<1>2. Below \subseteq FiniteSubsetsOf(Nat) /\ Below # {}
  BY <1>1
<1>3. PICK b \in Below : \A d \in Below : ~(<<d, b>> \in StrictSubsetOrdering(Nat))
  <2> HIDE DEF Below
  <2> QED  BY <1>2, FS_StrictSubsetOrderingWellFounded, WFMin
<1>4. PICK x \in S : b = 0 .. (x - 1)
  BY <1>3
<1>5. ASSUME NEW y \in S, y < x  PROVE FALSE
  <2>1. 0 .. (y - 1) \in Below /\ 0 .. (y - 1) \subseteq Nat /\ 0 .. (x - 1) \subseteq Nat
    OBVIOUS
  <2>2. 0 .. (y - 1) \subseteq 0 .. (x - 1) /\ y \in 0 .. (x - 1) /\ ~(y \in 0 .. (y - 1))
    BY <1>5
  <2>3. <<0 .. (y - 1), b>> \in StrictSubsetOrdering(Nat)
    BY <1>4, <2>1, <2>2 DEF StrictSubsetOrdering
  <2> QED  BY <1>3, <2>1, <2>3
<1>6. \A y \in S : x <= y
  BY <1>5
<1> QED  BY <1>6

LEMMA ReturnStep ==
  ASSUME RInv, Routes!Return
  PROVE  RInv'
<1>1. verdict = "running" /\ UNCHANGED Routes!chanProgram /\ bound' = bound
  BY DEF Routes!Return, Routes!Running, Routes!chanProgram
<1>2. PICK l \in Nat : l = Len(frames) /\ l > 0
  BY DEF RInv, FramesHold
<1>3. CASE Routes!Leaked # {}
  <2>1. PICK ds \in Seq(Nat) : /\ ds = frames[l].drains
                               /\ \A d \in DOMAIN ds : ds[d] \in 1 .. Len(chans)
    <3>1. frames[l] \in Activation
      BY <1>2 DEF RInv, FramesHold
    <3>2. frames[l].drains \in Seq(Nat)
      BY <3>1 DEF Activation
    <3> QED  BY <1>2, <3>2, VariableHolds DEF RInv
  <2>2. PICK leaked \in SUBSET Nat : leaked = Routes!Leaked /\ leaked # {}
    <3>1. \A i \in Routes!Leaked : i \in DOMAIN ds
      BY <1>2, <2>1 DEF Routes!Leaked
    <3>2. \A i \in DOMAIN ds : i \in Nat
      BY <2>1
    <3>3. Routes!Leaked \in SUBSET Nat
      BY <3>1, <3>2
    <3> QED  BY <1>3, <3>3
  <2>3. \E i \in leaked : \A j \in leaked : i <= j
    BY <2>2, LeastLeaked
  <2>4. PICK first : first = CHOOSE i \in leaked : \A j \in leaked : i <= j
    OBVIOUS
  <2>5. first \in leaked
    BY <2>3, <2>4
  <2>6. PICK ch \in 1 .. Len(chans) : ch = ds[first]
    BY <1>2, <2>1, <2>2, <2>5 DEF Routes!Leaked
  <2>7. Routes!Registered(ch, "Channel") /\ ~Routes!StateOf(ch, "Channel").closed
    BY <1>2, <2>1, <2>2, <2>5, <2>6 DEF Routes!Leaked
  <2>8. Routes!Panic("E1207", ch, TRUE)
    BY <1>2, <1>3, <2>1, <2>2, <2>4, <2>6 DEF Routes!Return
  <2>9. Truth("E1207", ch, TRUE)
    <3>1. "Channel" \in Routes!Views
      BY DEF Routes!Views
    <3> QED  BY <1>1, <2>7, <3>1, ContractedIsSeen DEF Truth
  <2> QED  BY <1>1, <2>8, <2>9, PanicStep
<1>4. CASE Routes!Leaked = {}
  <2>1. l > 1 /\ frames' = Routes!Front(frames) /\ UNCHANGED <<verdict, chans, monitor, states, fault>>
    BY <1>2, <1>4 DEF Routes!Return
  <2>2. PICK k \in Nat : k = Len(chans) /\ Grows(k) /\ ~(k > Len(chans))
    BY <2>1, NothingGrows DEF RInv
  <2>3. MonitorSees'
    BY <1>1, <2>1, <2>2, UnregisteredSees DEF RInv
  <2>4. FramesHold'
    <3>1. PICK t \in Seq(Activation) : t = frames
      BY DEF RInv, FramesHold
    <3>2. PICK n \in Nat : n = l - 1 /\ n > 0 /\ n <= l
      BY <2>1
    <3>3. frames' = [i \in 1 .. n |-> t[i]]
      BY <1>2, <2>1, <3>1, <3>2 DEF Routes!Front
    <3>4. \A i \in 1 .. n : i \in 1 .. l /\ t[i] \in Activation
      BY <1>2, <3>1, <3>2
    <3>5. frames' \in [1 .. n -> Activation]
      BY <3>3, <3>4
    <3>6. frames' \in Seq(Activation) /\ Len(frames') = n
      BY <3>5
    <3>7. \A i \in 1 .. n : HoldsMade(frames'[i], k)
      BY <1>2, <2>2, <3>1, <3>3, <3>4 DEF RInv, FramesHold
    <3> QED  BY <2>1, <2>2, <3>2, <3>6, <3>7 DEF FramesHold
  <2>5. fault' = Routes!NoFault /\ Routes!ContractReachesUses' /\ Routes!DiagnosticIsTrue'
    BY <1>1, <2>1, NoFaultYet
  <2> QED  BY <1>1, <2>1, <2>3, <2>4, <2>5 DEF RInv, RoutesTyped
<1> QED  BY <1>3, <1>4

(* A use that the compiler is meant to know is checked as the channel's    *)
(* own contract wants it.                                                  *)
LEMMA KnownIsChecked ==
  ASSUME RInv, NEW n \in Names, NEW plain \in BOOLEAN, Routes!Usable(n), Routes!Known(n, plain),
         NEW ch \in 1 .. Len(chans), ch = Routes!Env[n].ch
  PROVE  /\ plain
         /\ Routes!ForbidsSend(chans[ch].name) => Routes!SendChecked(n, Routes!Env[n].view)
         /\ Routes!Enforced(chans[ch].name) => Routes!CloseChecked(n, Routes!Env[n].view)
<1>1. plain /\ (Routes!Env[n].view = "SendChan" \/ n = chans[ch].name)
  BY DEF Routes!Known
<1>2. Routes!Env[n].view \in {"Channel", "SendChan"}
  BY VariableHolds DEF RInv, Routes!Usable, Routes!Views
<1>3. chans[ch].name \in Names
  BY NamesOfChannels DEF RInv
<1>4. CASE Routes!Env[n].view = "SendChan"
  BY <1>1, <1>3, <1>4 DEF Routes!SendChecked, Routes!CloseChecked
<1>5. CASE Routes!Env[n].view = "Channel"
  BY <1>1, <1>5 DEF Routes!SendChecked, Routes!CloseChecked
<1> QED  BY <1>1, <1>2, <1>4, <1>5

(* A check that is made has a contract behind it.                          *)
LEMMA CheckedHasContract ==
  ASSUME RInv, NEW n \in Names, Routes!Usable(n), Routes!SendChecked(n, Routes!Env[n].view)
  PROVE  \E s \in Names : Routes!ForbidsSend(s)
<1>1. Routes!Env[n].view \in {"Channel", "SendChan"}
  BY VariableHolds DEF RInv, Routes!Usable, Routes!Views
<1>2. CASE Routes!Env[n].view = "SendChan"
  BY <1>2 DEF Routes!SendChecked
<1>3. CASE Routes!Env[n].view = "Channel"
  BY <1>3 DEF Routes!SendChecked
<1> QED  BY <1>1, <1>2, <1>3

LEMMA SendStep ==
  ASSUME RInv, NEW n \in Names, NEW plain \in BOOLEAN, Routes!Send(n, plain)
  PROVE  RInv'
<1>1. Routes!Usable(n) /\ verdict = "running" /\ UNCHANGED Routes!chanProgram /\ n \in DOMAIN Routes!Env
  BY DEF Routes!Send, Routes!Usable, Routes!Running
<1>2. PICK ch \in 1 .. Len(chans) : ch = Routes!Env[n].ch
  BY <1>1, VariableHolds DEF RInv
<1>3. PICK st : st = Routes!StateOf(ch, "SendChan")
  OBVIOUS
<1>4. PICK bad \in BOOLEAN :
        bad <=> /\ plain /\ Routes!SendChecked(n, Routes!Env[n].view)
                /\ Routes!Registered(ch, "SendChan") /\ st.forbidSend /\ st.closed
  OBVIOUS
<1>5. \/ bad /\ Routes!Panic("E1203", ch, Routes!Known(n, plain))
      \/ ~bad /\ Routes!Panic("send on closed channel", ch, Routes!Known(n, plain))
  BY <1>2, <1>3, <1>4 DEF Routes!Send
<1>6. "SendChan" \in Routes!Views
  BY DEF Routes!Views
<1>7. CASE bad /\ Routes!Panic("E1203", ch, Routes!Known(n, plain))
  <2>1. chans[ch].state # "open"
    BY <1>3, <1>4, <1>6, <1>7, ClosedIsClosed
  <2>2. \E s \in Names : Routes!ForbidsSend(s)
    BY <1>1, <1>4, <1>7, CheckedHasContract
  <2>3. Truth("E1203", ch, Routes!Known(n, plain))
    BY <2>1, <2>2 DEF Truth
  <2> QED  BY <1>1, <1>7, <2>3, PanicStep
<1>8. CASE ~bad /\ Routes!Panic("send on closed channel", ch, Routes!Known(n, plain))
  <2>1. ASSUME Routes!Known(n, plain), chans[ch].made = "let", chans[ch].state = "closed",
               Routes!ForbidsSend(chans[ch].name)
        PROVE  FALSE
    <3>1. Routes!Enforced(chans[ch].name)
      BY <2>1 DEF Routes!Enforced, Routes!ForbidsSend
    <3>2. Routes!Registered(ch, "SendChan") /\ st.forbidSend /\ st.closed
      BY <1>1, <1>3, <1>6, <2>1, <3>1, ContractedIsSeen
    <3>3. plain /\ Routes!SendChecked(n, Routes!Env[n].view)
      BY <1>1, <1>2, <2>1, KnownIsChecked
    <3> QED  BY <1>4, <1>8, <3>2, <3>3
  <2>2. Truth("send on closed channel", ch, Routes!Known(n, plain))
    BY <2>1 DEF Truth
  <2> QED  BY <1>1, <1>8, <2>2, PanicStep
<1> QED  BY <1>5, <1>7, <1>8

LEMMA Replaced ==
  ASSUME NEW S, NEW t \in Seq(S), NEW x \in S, NEW i \in 1 .. Len(t)
  PROVE  LET u == [t EXCEPT ![i] = x]
         IN  /\ u \in Seq(S) /\ Len(u) = Len(t) /\ u[i] = x
             /\ \A j \in 1 .. Len(t) : j # i => u[j] = t[j]
OBVIOUS

(* A close that goes through is noted, if the monitor is told.             *)
Closes(ch, known, seen) ==
  /\ chans' = [chans EXCEPT ![ch].state = IF known THEN "closed" ELSE "elsewhere"]
  /\ states' = IF seen THEN [states EXCEPT ![monitor[<<ch, "SendChan">>]].closed = TRUE]
                       ELSE states

LEMMA CloseGoesThrough ==
  ASSUME RInv, verdict = "running", UNCHANGED Routes!chanProgram,
         UNCHANGED <<verdict, frames, monitor, fault>>,
         NEW ch \in 1 .. Len(chans), chans[ch].state = "open", NEW known \in BOOLEAN,
         NEW seen \in BOOLEAN, seen => Routes!Registered(ch, "SendChan"),
         known /\ chans[ch].made = "let" /\ Routes!Enforced(chans[ch].name) => seen,
         Closes(ch, known, seen)
  PROVE  RInv'
<1>1. PICK E, F : E = EnforcedNames /\ F = ForbiddingNames
  OBVIOUS
<1>21. chans \in Seq(MadeChannel) /\ states \in Seq(ContractState)
  BY DEF RInv, RoutesTyped
<1>22. PICK l \in Nat : l = Len(chans)
  BY <1>21
<1>23. PICK m \in Nat : m = Len(states)
  BY <1>21
<1>2. l = Len(chans) /\ m = Len(states) /\ l \in Nat /\ m \in Nat
  BY <1>22, <1>23
<1>3. PICK W \in SUBSET (1 .. l) : \E s \in [W -> 1 .. m] : Watch(W, s, E, F)
  BY <1>1, <1>2 DEF RInv, MonitorSees
<1>4. PICK s \in [W -> 1 .. m] : Watch(W, s, E, F)
  BY <1>3
<1>5. "SendChan" \in Routes!Views
  BY DEF Routes!Views
<1>6. seen => ch \in W /\ monitor[<<ch, "SendChan">>] = s[ch]
  <2>1. seen => ch \in W
    BY <1>4, <1>5, RegisteredWhen
  <2>2. \A c \in W : monitor[<<c, "SendChan">>] = s[c]
    BY <1>4, <1>5 DEF Watch
  <2> QED  BY <2>1, <2>2
<1>7. PICK new \in MadeChannel : /\ new = [chans[ch] EXCEPT !.state = IF known THEN "closed" ELSE "elsewhere"]
                                 /\ new.name = chans[ch].name /\ new.made = chans[ch].made
                                 /\ new.state = IF known THEN "closed" ELSE "elsewhere"
  <2>1. PICK old \in MadeChannel : old = chans[ch]
    BY <1>21
  <2>2. PICK how \in {"closed", "elsewhere"} : how = IF known THEN "closed" ELSE "elsewhere"
    OBVIOUS
  <2>3. /\ [old EXCEPT !.state = how] \in MadeChannel
        /\ [old EXCEPT !.state = how].name = old.name
        /\ [old EXCEPT !.state = how].made = old.made
        /\ [old EXCEPT !.state = how].state = how
    BY DEF MadeChannel
  <2> QED  BY <2>1, <2>2, <2>3
<1>8. /\ chans' \in Seq(MadeChannel) /\ Len(chans') = l /\ chans'[ch] = new
      /\ \A c \in 1 .. l : c # ch => chans'[c] = chans[c]
  <2>1. chans' = [chans EXCEPT ![ch] = new]
    BY <1>7 DEF Closes
  <2>2. PICK u : u = [chans EXCEPT ![ch] = new]
    OBVIOUS
  <2>3. /\ u \in Seq(MadeChannel) /\ Len(u) = l /\ u[ch] = new
        /\ \A c \in 1 .. l : c # ch => u[c] = chans[c]
    BY <1>21, <1>2, <2>2, Replaced
  <2> QED  BY <2>1, <2>2, <2>3
<1>9. /\ states' \in Seq(ContractState) /\ Len(states') = m
      /\ \A i \in 1 .. m : ~(seen /\ i = s[ch]) => states'[i] = states[i]
      /\ seen => /\ states'[s[ch]].closed
                 /\ states'[s[ch]].forbidSend <=> states[s[ch]].forbidSend
  <2>1. CASE ~seen
    BY <1>21, <1>2, <2>1 DEF Closes
  <2>2. CASE seen
    <3>1. PICK k \in 1 .. m : k = s[ch]
      BY <1>6, <2>2
    <3>2. states' = [states EXCEPT ![k].closed = TRUE]
      BY <1>6, <2>2, <3>1 DEF Closes
    <3>3. PICK st \in ContractState : /\ st = [states[k] EXCEPT !.closed = TRUE] /\ st.closed
                                      /\ st.forbidSend <=> states[k].forbidSend
      <4>1. PICK old \in ContractState : old = states[k]
        BY <1>21, <1>2
      <4>2. [old EXCEPT !.closed = TRUE] \in ContractState
        BY DEF ContractState
      <4>3. PICK st \in ContractState : st = [old EXCEPT !.closed = TRUE]
        BY <4>2
      <4>4. st.closed /\ st.forbidSend = old.forbidSend
        BY <4>3 DEF ContractState
      <4> QED  BY <4>1, <4>3, <4>4
    <3>4. states' = [states EXCEPT ![k] = st]
      BY <3>2, <3>3
    <3>5. PICK u : u = [states EXCEPT ![k] = st]
      OBVIOUS
    <3>6. /\ u \in Seq(ContractState) /\ Len(u) = m /\ u[k] = st
          /\ \A i \in 1 .. m : i # k => u[i] = states[i]
      BY <1>21, <1>2, <3>5, Replaced
    <3> QED  BY <2>2, <3>1, <3>3, <3>4, <3>5, <3>6
  <2> QED  BY <2>1, <2>2
<1>10. \A c \in W : c # ch => states'[s[c]] = states[s[c]]
  <2>1. \A c \in W : c # ch /\ seen => s[c] # s[ch]
    BY <1>4, <1>6 DEF Watch
  <2> QED  BY <1>4, <1>9, <2>1
<1>11. EnforcedNames' = E /\ ForbiddingNames' = F
  BY <1>1, ContractsStay
<1>12. Watch(W, s, E, F)'
  <2>1. /\ DOMAIN monitor' = W \X Routes!Views
        /\ \A c \in W, v \in Routes!Views : monitor'[<<c, v>>] = s[c]
        /\ \A c, d \in W : s[c] = s[d] => c = d
    BY <1>4 DEF Watch
  <2>2. ASSUME NEW c \in W, states'[s[c]].closed
        PROVE  chans'[c].state # "open"
    <3>1. CASE c = ch
      BY <1>7, <1>8, <3>1
    <3>2. CASE c # ch
      BY <1>2, <1>4, <1>8, <1>10, <2>2, <3>2 DEF Watch
    <3> QED  BY <3>1, <3>2
  <2>3. ASSUME NEW c \in 1 .. l, chans'[c].made = "let", chans'[c].name \in E
        PROVE  /\ c \in W
               /\ states'[s[c]].forbidSend <=> chans'[c].name \in F
               /\ chans'[c].state = "closed" => states'[s[c]].closed
    <3>1. chans[c].made = "let" /\ chans[c].name \in E /\ chans'[c].name = chans[c].name
      BY <1>7, <1>8, <2>3
    <3>2. /\ c \in W /\ (states[s[c]].forbidSend <=> chans[c].name \in F)
          /\ chans[c].state = "closed" => states[s[c]].closed
      BY <1>2, <1>4, <3>1 DEF Watch
    <3>3. CASE c # ch
      BY <1>8, <1>10, <3>2, <3>3
    <3>4. CASE c = ch
      <4>1. Routes!Enforced(chans[ch].name)
        BY <1>1, <3>1, <3>4 DEF EnforcedNames
      <4>2. known => seen
        BY <3>1, <3>4, <4>1
      <4>3. CASE seen
        BY <1>9, <3>1, <3>2, <3>4, <4>3
      <4>4. CASE ~seen
        <5>1. chans'[c].state # "closed"
          BY <1>7, <1>8, <3>4, <4>2, <4>4
        <5>2. states'[s[c]] = states[s[c]]
          BY <1>4, <1>9, <3>2, <4>4
        <5> QED  BY <3>1, <3>2, <5>1, <5>2
      <4> QED  BY <4>3, <4>4
    <3> QED  BY <3>3, <3>4
  <2> QED  BY <1>8, <2>1, <2>2, <2>3 DEF Watch
<1>13. MonitorSees'
  BY <1>8, <1>9, <1>11, <1>12 DEF MonitorSees
<1>14. FramesHold'
  <2>1. Len(chans') = Len(chans)
    BY <1>2, <1>8
  <2> QED  BY <2>1 DEF RInv, FramesHold
<1>15. fault' = Routes!NoFault /\ Routes!ContractReachesUses' /\ Routes!DiagnosticIsTrue'
  BY NoFaultYet
<1>16. bound' = bound
  BY DEF Routes!chanProgram
<1> QED  BY <1>8, <1>9, <1>13, <1>14, <1>15, <1>16 DEF RInv, RoutesTyped

LEMMA CloseStep ==
  ASSUME RInv, NEW n \in Names, NEW plain \in BOOLEAN, Routes!Close(n, plain)
  PROVE  RInv'
<1>1. Routes!Usable(n) /\ verdict = "running" /\ UNCHANGED Routes!chanProgram /\ n \in DOMAIN Routes!Env
  BY DEF Routes!Close, Routes!Usable, Routes!Running
<1>2. PICK ch \in 1 .. Len(chans) : ch = Routes!Env[n].ch
  BY <1>1, VariableHolds DEF RInv
<1>3. PICK known \in BOOLEAN : known = Routes!Known(n, plain)
  BY DEF Routes!Known
<1>4. PICK seen \in BOOLEAN :
        seen <=> /\ plain /\ Routes!CloseChecked(n, Routes!Env[n].view)
                 /\ Routes!Registered(ch, "SendChan")
  OBVIOUS
<1>5. PICK bad \in BOOLEAN : bad <=> seen /\ Routes!StateOf(ch, "SendChan").closed
  OBVIOUS
<1>6. "SendChan" \in Routes!Views
  BY DEF Routes!Views
<1>7. ASSUME known, chans[ch].made = "let", Routes!Enforced(chans[ch].name)
      PROVE  seen /\ (chans[ch].state = "closed" => Routes!StateOf(ch, "SendChan").closed)
  <2>1. /\ Routes!Registered(ch, "SendChan")
        /\ chans[ch].state = "closed" => Routes!StateOf(ch, "SendChan").closed
    BY <1>1, <1>6, <1>7, ContractedIsSeen
  <2>2. plain /\ Routes!CloseChecked(n, Routes!Env[n].view)
    BY <1>1, <1>2, <1>3, <1>7, KnownIsChecked
  <2> QED  BY <1>4, <2>1, <2>2
<1>8. CASE bad /\ Routes!Panic("E1202", ch, known)
  <2>1. chans[ch].state # "open"
    BY <1>4, <1>5, <1>6, <1>8, ClosedIsClosed
  <2>2. Truth("E1202", ch, known)
    BY <2>1 DEF Truth
  <2> QED  BY <1>1, <1>8, <2>2, PanicStep
<1>9. CASE ~bad /\ Routes!Panic("close of closed channel", ch, known)
  <2>1. Truth("close of closed channel", ch, known)
    BY <1>5, <1>7, <1>9 DEF Truth
  <2> QED  BY <1>1, <1>9, <2>1, PanicStep
<1>10. CASE /\ chans[ch].state = "open" /\ Closes(ch, known, seen)
            /\ UNCHANGED <<verdict, frames, monitor, fault>>
  BY <1>1, <1>4, <1>7, <1>10, CloseGoesThrough
<1>11. \/ bad /\ Routes!Panic("E1202", ch, known)
       \/ ~bad /\ Routes!Panic("close of closed channel", ch, known)
       \/ /\ chans[ch].state = "open" /\ Closes(ch, known, seen)
          /\ UNCHANGED <<verdict, frames, monitor, fault>>
  BY <1>2, <1>3, <1>4, <1>5 DEF Routes!Close, Closes
<1> QED  BY <1>8, <1>9, <1>10, <1>11

LEMMA RoutesSteps == RInv /\ [Routes!Next]_Routes!routingVars => RInv'
<1> SUFFICES ASSUME RInv, [Routes!Next]_Routes!routingVars  PROVE RInv'
  OBVIOUS
<1>1. CASE Routes!Check
  BY <1>1, CheckRouteStep
<1>2. CASE \E n \in Names, view \in Routes!Views, top \in BOOLEAN : Routes!Make(n, view, top)
  BY <1>2, MakeStep
<1>3. CASE \E n \in Names : Routes!MakeTry(n)
  BY <1>3, MakeTryStep
<1>4. CASE \E n \in Names, m \in Names, view \in Routes!Views :
             Routes!Rebind(n, m, view) \/ Routes!Call(n, m, view)
  BY <1>4, RebindStep, CallStep
<1>5. CASE \E n \in Names, plain \in BOOLEAN : Routes!Send(n, plain) \/ Routes!Close(n, plain)
  BY <1>5, SendStep, CloseStep
<1>6. CASE Routes!Return
  BY <1>6, ReturnStep
<1>7. CASE UNCHANGED Routes!routingVars
  <2>1. UNCHANGED <<mode, blocks, bound, verdict, frames, chans, monitor, states, fault>>
    BY <1>7 DEF Routes!routingVars, Routes!chanProgram, Routes!chanRun
  <2>2. EnforcedNames' = EnforcedNames /\ ForbiddingNames' = ForbiddingNames
    BY <2>1, ContractsStay DEF Routes!chanProgram
  <2>3. MonitorSees'
    BY <2>1, <2>2 DEF RInv, MonitorSees, Watch
  <2>4. Routes!ContractReachesUses' /\ Routes!DiagnosticIsTrue'
    BY <2>1 DEF RInv, Routes!ContractReachesUses, Routes!DiagnosticIsTrue, Routes!ForbidsSend,
                Routes!Enforced, Routes!ClausesOf
  <2> QED  BY <2>1, <2>3, <2>4 DEF RInv, RoutesTyped, FramesHold
<1> QED  BY <1>1, <1>2, <1>3, <1>4, <1>5, <1>6, <1>7 DEF Routes!Next

LEMMA RoutesInvariant == Routes!Spec => []RInv
<1>1. Routes!Init => RInv
  BY RoutesBegin
<1>2. RInv /\ [Routes!Next]_Routes!routingVars => RInv'
  BY RoutesSteps
<1> QED  BY <1>1, <1>2, PTL DEF Routes!Spec

(* A channel made by a `let` of a contracted name never meets the panic    *)
(* that its contract replaces by a diagnostic, as long as it is used       *)
(* through that name or as a SendChan: for any names, contracts, channels  *)
(* and depth of calls.                                                     *)
THEOREM ContractsReachTheirUses == Routes!Spec => []ContractReachesUses
<1>1. RInv => ContractReachesUses
  BY DEF RInv, ContractReachesUses
<1> QED  BY <1>1, RoutesInvariant, PTL

(* A diagnostic of a contract tells the truth of the channel it is about.  *)
THEOREM DiagnosticsAreTrue == Routes!Spec => []DiagnosticIsTrue
<1>1. RInv => DiagnosticIsTrue
  BY DEF RInv, DiagnosticIsTrue
<1> QED  BY <1>1, RoutesInvariant, PTL
=============================================================================
