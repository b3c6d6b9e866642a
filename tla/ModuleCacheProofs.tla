------------------------- MODULE ModuleCacheProofs -------------------------
(***************************************************************************)
(* ModuleCache, proved for any checkouts and machines, any number of moves *)
(* of the tag and of gets that die: when the gets of a machine take turns, *)
(* what one leaves behind does not make a later one fail, and the cache    *)
(* holds finished checkouts only; when builds wait for them, a build       *)
(* compiles what its lock pins.                                            *)
(***************************************************************************)
EXTENDS ModuleCache, TLAPS

Locks == Rows \cup {NoLock, Emptied, Torn}

Steps == {"idle"} \cup GetSteps \cup BuildSteps

TypeOK ==
  /\ tag \in Commits /\ crashes \in Nat
  /\ dest \in [Machine -> Trees \cup {NoTree}]
  /\ tmp \in [Machine -> Trees \cup {NoTree}]
  /\ DOMAIN cloner = Machine
  /\ lock \in [Checkout -> Locks]
  /\ pc \in [Checkout -> Steps]
  /\ commit \in [Checkout -> Commits \cup {NoCommit}]
  /\ seen \in [Checkout -> Locks]
  /\ row \in [Checkout -> Rows \cup {NoLock}]
  /\ out \in [Checkout -> Outcomes]

(* One get of a machine runs at a time.                                    *)
OneGet ==
  \A c, d \in Checkout :
    Home[c] = Home[d] /\ pc[c] \in GetSteps /\ pc[d] \in GetSteps => c = d

(* No build runs while a get of its machine does.                          *)
GetsAndBuildsApart ==
  \A c, d \in Checkout :
    Home[c] = Home[d] /\ pc[c] \in GetSteps => pc[d] \notin BuildSteps

(* What a get has made of the machine's directories at each of its steps.  *)
Placed(c) ==
  LET t == tmp[Home[c]]
      d == dest[Home[c]]
  IN /\ pc[c] = "clone" => t = NoTree
     /\ pc[c] \in {"cloning", "checkout", "strip", "replace", "rename"} => t # NoTree
     /\ pc[c] = "cloning" => cloner[Home[c]] = c /\ t.stage = "cloning" /\ t.git
     /\ pc[c] = "checkout" => t.stage = "cloned" /\ t.git
     /\ pc[c] = "strip" => t.stage = "checkedout"
     /\ pc[c] \in {"replace", "rename"} => Whole(t)
     /\ pc[c] = "rename" => d = NoTree
     /\ pc[c] = "hash" => d # NoTree
     /\ out[c] # "disturbed"

AllPlaced == \A c \in Checkout : Placed(c)

(* What a build that has verified its lock will find.                      *)
Verified ==
  \A c \in Checkout : pc[c] = "compile" /\ HasRow(seen[c]) =>
    dest[Home[c]] \in {NoTree, seen[c].hash}

----------------------------------------------------------------------------
LEMMA InitOK == Init => TypeOK /\ OneGet /\ GetsAndBuildsApart /\ AllPlaced /\ Verified
<1> SUFFICES ASSUME Init PROVE TypeOK /\ OneGet /\ GetsAndBuildsApart /\ AllPlaced /\ Verified
  OBVIOUS
<1>1. 1 \in Commits
  BY CacheAssumption DEF Commits
<1>2. TypeOK
  BY <1>1 DEF Init, TypeOK, Steps, Locks, Outcomes
<1>3. \A c \in Checkout : pc[c] = "idle" /\ out[c] = "none"
  BY DEF Init
<1>4. OneGet /\ GetsAndBuildsApart /\ Verified
  BY <1>3 DEF OneGet, GetsAndBuildsApart, Verified, GetSteps, FetchSteps
<1>5. AllPlaced
  BY <1>3 DEF AllPlaced, Placed
<1> QED BY <1>2, <1>4, <1>5

LEMMA TypeStep == ASSUME TypeOK, [Next]_vars PROVE TypeOK'
<1>s. Steps = {"idle", "stat", "clean", "clone", "cloning", "checkout", "strip", "replace",
               "rename", "abort", "hash", "truncate", "write", "verify", "compile"}
  BY DEF Steps, GetSteps, FetchSteps, BuildSteps
<1>l. /\ {NoLock, Emptied, Torn} \subseteq Locks /\ Rows \cup {NoLock} \subseteq Locks
      /\ Outcomes = {"none", "got", "unreachable", "disturbed", "killed", "built", "E0121",
                     "E0123", "badlock"}
      /\ \A c \in Checkout : Home[c] \in Machine
  BY CacheAssumption DEF Locks, Outcomes
<1>t. ASSUME NEW k \in Commits \cup {NoCommit}, NEW g \in BOOLEAN,
             NEW st \in {"cloning", "cloned", "checkedout"}
      PROVE  [commit |-> k, stage |-> st, git |-> g] \in Trees
  BY DEF Trees
<1>u. ASSUME NEW t \in Trees
      PROVE  /\ [t EXCEPT !.stage = "checkedout"] \in Trees
             /\ [t EXCEPT !.git = FALSE] \in Trees
             /\ t.commit \in Commits \cup {NoCommit}
  BY DEF Trees
<1>r. ASSUME NEW k \in Commits \cup {NoCommit}, NEW t \in Trees
      PROVE  [resolved |-> k, hash |-> t] \in Rows
  BY DEF Rows
<1> USE <1>s, <1>l DEF TypeOK, disk, SetTmp, Goto, End, EndGet, GitStep
<1>1. ASSUME NEW c \in Checkout, BeginGet(c) PROVE TypeOK'
  BY <1>1 DEF BeginGet
<1>2. ASSUME NEW c \in Checkout, Reuse(c) PROVE TypeOK'
  BY <1>2 DEF Reuse
<1>3. ASSUME NEW c \in Checkout, Miss(c) PROVE TypeOK'
  BY <1>3 DEF Miss
<1>4. ASSUME NEW c \in Checkout, Clean(c) PROVE TypeOK'
  BY <1>4 DEF Clean
<1>5. ASSUME NEW c \in Checkout, BeginClone(c) PROVE TypeOK'
  <2>1. [commit |-> NoCommit, stage |-> "cloning", git |-> TRUE] \in Trees
    BY <1>t
  <2> QED BY <1>5, <2>1 DEF BeginClone
<1>6. ASSUME NEW c \in Checkout, EndClone(c) PROVE TypeOK'
  <2> DEFINE t == [commit |-> tag, stage |-> "cloned", git |-> TRUE]
  <2>1. t \in Trees
    BY <1>t
  <2>2. \/ SetTmp(c, t) /\ Goto(c, "checkout") /\ UNCHANGED out
        \/ UNCHANGED tmp /\ Goto(c, "abort") /\ out' = [out EXCEPT ![c] = "disturbed"]
    BY <1>6 DEF EndClone
  <2> HIDE DEF t
  <2> QED BY <1>6, <2>1, <2>2 DEF EndClone
<1>7. ASSUME NEW c \in Checkout, CloneFails(c) PROVE TypeOK'
  BY <1>7 DEF CloneFails
<1>8. ASSUME NEW c \in Checkout, CheckoutTag(c) PROVE TypeOK'
  <2> DEFINE t == tmp[Home[c]]
             u == [t EXCEPT !.stage = "checkedout"]
  <2>1. t \in Trees \cup {NoTree}
    OBVIOUS
  <2>2. \/ /\ t # NoTree /\ SetTmp(c, u) /\ Goto(c, "strip") /\ UNCHANGED out
           /\ commit' = [commit EXCEPT ![c] = t.commit]
        \/ /\ UNCHANGED <<tmp, commit>> /\ Goto(c, "abort")
           /\ out' = [out EXCEPT ![c] = "disturbed"]
    BY <1>8 DEF CheckoutTag
  <2>3. t # NoTree => u \in Trees /\ t.commit \in Commits \cup {NoCommit}
    BY <1>u, <2>1
  <2> HIDE DEF t, u
  <2> QED BY <1>8, <2>2, <2>3 DEF CheckoutTag
<1>9. ASSUME NEW c \in Checkout, Strip(c) PROVE TypeOK'
  BY <1>9, <1>u DEF Strip
<1>10. ASSUME NEW c \in Checkout, Replace(c) PROVE TypeOK'
  BY <1>10 DEF Replace
<1>11. ASSUME NEW c \in Checkout, Rename(c) PROVE TypeOK'
  BY <1>11 DEF Rename
<1>12. ASSUME NEW c \in Checkout, Abort(c) PROVE TypeOK'
  BY <1>12 DEF Abort
<1>13. ASSUME NEW c \in Checkout, Hash(c) PROVE TypeOK'
  <2> DEFINE t == dest[Home[c]]
             w == [resolved |-> Resolved(c), hash |-> t]
  <2>1. Resolved(c) \in Commits \cup {NoCommit}
    BY DEF Resolved, HasRow, Locks, Rows
  <2>2. t # NoTree => w \in Rows
    BY <1>r, <2>1
  <2>3. \/ EndGet(c, "disturbed")
        \/ t # NoTree /\ row' = [row EXCEPT ![c] = w] /\ Goto(c, "truncate")
           /\ UNCHANGED <<commit, seen, out>>
    BY <1>13 DEF Hash
  <2> HIDE DEF t, w
  <2> QED BY <1>13, <2>2, <2>3 DEF Hash
<1>14. ASSUME NEW c \in Checkout, Truncate(c) PROVE TypeOK'
  BY <1>14 DEF Truncate
<1>15. ASSUME NEW c \in Checkout, WriteRow(c) PROVE TypeOK'
  BY <1>15 DEF WriteRow
<1>16. ASSUME NEW c \in Checkout, Die(c) PROVE TypeOK'
  BY <1>16 DEF Die
<1>17. ASSUME NEW c \in Checkout, BeginBuild(c) PROVE TypeOK'
  BY <1>17 DEF BeginBuild
<1>18. ASSUME NEW c \in Checkout, Verify(c) PROVE TypeOK'
  BY <1>18 DEF Verify
<1>19. ASSUME NEW c \in Checkout, Compile(c) PROVE TypeOK'
  BY <1>19 DEF Compile
<1>20. ASSUME NEW c \in Checkout, NEW d \in Checkout, Pull(c, d) PROVE TypeOK'
  BY <1>20 DEF Pull
<1>21. CASE Retag
  BY <1>21, CacheAssumption DEF Retag, Commits
<1>22. CASE UNCHANGED vars
  BY <1>22 DEF vars
<1> QED
  BY <1>1, <1>2, <1>3, <1>4, <1>5, <1>6, <1>7, <1>8, <1>9, <1>10, <1>11, <1>12, <1>13, <1>14, <1>15, <1>16, <1>17, <1>18, <1>19, <1>20, <1>21, <1>22 DEF Next, Get, Fetch, Build

(* The directories, locks and commands are well typed, for any checkouts   *)
(* and machines, whoever overlaps.                                         *)
THEOREM TypeCorrect == Spec => []TypeOK
<1>1. Init => TypeOK
  BY InitOK
<1>2. TypeOK /\ [Next]_vars => TypeOK'
  BY TypeStep
<1> QED BY <1>1, <1>2, PTL DEF Spec

----------------------------------------------------------------------------
(* A command begins when the others of its machine let it, and goes on or  *)
(* ends.                                                                   *)
LEMMA PcMove ==
  ASSUME TypeOK, [Next]_vars
  PROVE  \/ pc' = pc
         \/ \E c \in Checkout :
              \/ /\ pc' = [pc EXCEPT ![c] = "stat"]
                 /\ GetsOverlap \/ ~OnMachine(Home[c], GetSteps)
                 /\ BuildsOverlap \/ ~OnMachine(Home[c], BuildSteps)
              \/ /\ pc' = [pc EXCEPT ![c] = "verify"]
                 /\ BuildsOverlap \/ ~OnMachine(Home[c], GetSteps)
              \/ \E s \in GetSteps \cup {"idle"} :
                   pc[c] \in GetSteps /\ pc' = [pc EXCEPT ![c] = s]
              \/ \E s \in BuildSteps \cup {"idle"} :
                   pc[c] \in BuildSteps /\ pc' = [pc EXCEPT ![c] = s]
<1> DEFINE Within(c, steps) == \E s \in steps \cup {"idle"} :
             pc[c] \in steps /\ pc' = [pc EXCEPT ![c] = s]
<1>1. ASSUME NEW c \in Checkout, Get(c), ~BeginGet(c) PROVE Within(c, GetSteps)
  BY <1>1 DEF Get, Fetch, Reuse, Miss, Clean, BeginClone, EndClone, CloneFails, CheckoutTag, Strip,
     Replace, Rename, Abort, Hash, Truncate, WriteRow, Die, GitStep, Goto, End, EndGet, GetSteps,
     FetchSteps
<1>2. ASSUME NEW c \in Checkout, Verify(c) \/ Compile(c) PROVE Within(c, BuildSteps)
  BY <1>2 DEF Verify, Compile, Goto, End, BuildSteps
<1>3. ASSUME NEW c \in Checkout, BeginGet(c)
      PROVE  /\ pc' = [pc EXCEPT ![c] = "stat"]
             /\ GetsOverlap \/ ~OnMachine(Home[c], GetSteps)
             /\ BuildsOverlap \/ ~OnMachine(Home[c], BuildSteps)
  BY <1>3 DEF BeginGet, Goto
<1>4. ASSUME NEW c \in Checkout, BeginBuild(c)
      PROVE  \/ pc' = pc
             \/ /\ pc' = [pc EXCEPT ![c] = "verify"]
                /\ BuildsOverlap \/ ~OnMachine(Home[c], GetSteps)
  BY <1>4 DEF BeginBuild, Goto, End, TypeOK
<1>5. (\E c, d \in Checkout : Pull(c, d)) \/ Retag \/ UNCHANGED vars => pc' = pc
  BY DEF Pull, Retag, vars
<1> QED BY <1>1, <1>2, <1>3, <1>4, <1>5 DEF Next, Build

LEMMA OneGetStep ==
  ASSUME TypeOK, [Next]_vars, ~GetsOverlap, OneGet
  PROVE  OneGet'
<1> USE DEF TypeOK, OneGet
<1>1. CASE pc' = pc
  BY <1>1
<1>2. ASSUME NEW c \in Checkout, pc' = [pc EXCEPT ![c] = "stat"], ~OnMachine(Home[c], GetSteps)
      PROVE  OneGet'
  BY <1>2 DEF OnMachine, Runs
<1>3. ASSUME NEW c \in Checkout, NEW s \in {"verify", "idle"} \cup BuildSteps,
             pc' = [pc EXCEPT ![c] = s]
      PROVE  OneGet'
  <2>1. s \notin GetSteps
    BY DEF GetSteps, FetchSteps, BuildSteps
  <2> QED BY <1>3, <2>1
<1>4. ASSUME NEW c \in Checkout, NEW s \in GetSteps, pc[c] \in GetSteps,
             pc' = [pc EXCEPT ![c] = s]
      PROVE  OneGet'
  BY <1>4
<1> QED BY <1>1, <1>2, <1>3, <1>4, PcMove

LEMMA ApartStep ==
  ASSUME TypeOK, [Next]_vars, ~BuildsOverlap, GetsAndBuildsApart
  PROVE  GetsAndBuildsApart'
<1>0. "stat" \notin BuildSteps /\ "verify" \notin GetSteps
      /\ \A s \in GetSteps : s \notin BuildSteps
      /\ "idle" \notin GetSteps \cup BuildSteps
  BY DEF GetSteps, FetchSteps, BuildSteps
<1> USE DEF TypeOK, GetsAndBuildsApart
<1>1. CASE pc' = pc
  BY <1>1
<1>2. ASSUME NEW c \in Checkout, pc' = [pc EXCEPT ![c] = "stat"], ~OnMachine(Home[c], BuildSteps)
      PROVE  GetsAndBuildsApart'
  BY <1>0, <1>2 DEF OnMachine, Runs
<1>3. ASSUME NEW c \in Checkout, pc' = [pc EXCEPT ![c] = "verify"], ~OnMachine(Home[c], GetSteps)
      PROVE  GetsAndBuildsApart'
  BY <1>0, <1>3 DEF OnMachine, Runs
<1>4. ASSUME NEW c \in Checkout, NEW s \in GetSteps \cup {"idle"}, pc[c] \in GetSteps,
             pc' = [pc EXCEPT ![c] = s]
      PROVE  GetsAndBuildsApart'
  BY <1>0, <1>4
<1>5. ASSUME NEW c \in Checkout, NEW s \in BuildSteps \cup {"idle"}, pc[c] \in BuildSteps,
             pc' = [pc EXCEPT ![c] = s]
      PROVE  GetsAndBuildsApart'
  BY <1>0, <1>5
<1> QED BY <1>1, <1>2, <1>3, <1>4, <1>5, PcMove

----------------------------------------------------------------------------
(* A get touches the directories of its own machine.                       *)
Touches(c) ==
  /\ pc[c] \in GetSteps
  /\ \A d \in Checkout \ {c} : pc'[d] = pc[d] /\ out'[d] = out[d]
  /\ \A h \in Machine \ {Home[c]} :
       tmp'[h] = tmp[h] /\ dest'[h] = dest[h] /\ cloner'[h] = cloner[h]

LEMMA GetTouches ==
  ASSUME TypeOK, NEW c \in Checkout, Get(c), ~BeginGet(c)
  PROVE  Touches(c)
<1> USE DEF TypeOK, Touches, GetSteps, FetchSteps, disk, SetTmp, Goto, End, EndGet
<1>1. Reuse(c) => Touches(c)
  BY DEF Reuse
<1>2. Miss(c) => Touches(c)
  BY DEF Miss
<1>3. Clean(c) => Touches(c)
  BY DEF Clean
<1>4. BeginClone(c) => Touches(c)
  BY DEF BeginClone
<1>5. EndClone(c) => Touches(c)
  BY DEF EndClone, GitStep
<1>6. CloneFails(c) => Touches(c)
  BY DEF CloneFails
<1>7. CheckoutTag(c) => Touches(c)
  BY DEF CheckoutTag, GitStep
<1>8. Strip(c) => Touches(c)
  BY DEF Strip
<1>9. Replace(c) => Touches(c)
  BY DEF Replace
<1>10. Rename(c) => Touches(c)
  BY DEF Rename
<1>11. Abort(c) => Touches(c)
  BY DEF Abort
<1>12. Hash(c) => Touches(c)
  BY DEF Hash
<1>13. Truncate(c) => Touches(c)
  BY DEF Truncate
<1>14. WriteRow(c) => Touches(c)
  BY DEF WriteRow
<1>15. Die(c) => Touches(c)
  BY DEF Die
<1> QED BY <1>1, <1>2, <1>3, <1>4, <1>5, <1>6, <1>7, <1>8, <1>9, <1>10, <1>11, <1>12, <1>13, <1>14, <1>15 DEF Get, Fetch

(* So the gets of the other machines find theirs as they left them, and on *)
(* its own there is no other.                                              *)
LEMMA OthersPlaced ==
  ASSUME TypeOK, OneGet, AllPlaced, NEW c \in Checkout, Touches(c), NEW d \in Checkout, d # c
  PROVE  Placed(d)'
<1>1. Placed(d) /\ pc'[d] = pc[d] /\ out'[d] = out[d] /\ Home[d] \in Machine
  BY CacheAssumption DEF AllPlaced, Touches
<1>2. CASE Home[c] = Home[d]
  <2>1. pc[d] \notin GetSteps
    BY <1>2 DEF OneGet, Touches
  <2> QED BY <1>1, <2>1 DEF Placed, GetSteps, FetchSteps
<1>3. CASE Home[c] # Home[d]
  <2>1. /\ tmp'[Home[d]] = tmp[Home[d]] /\ dest'[Home[d]] = dest[Home[d]]
        /\ cloner'[Home[d]] = cloner[Home[d]]
    BY <1>1, <1>3 DEF Touches
  <2> QED BY <1>1, <2>1 DEF Placed
<1> QED BY <1>2, <1>3

(* A get places its own directories for its next step.                     *)
LEMMA OwnPlaced ==
  ASSUME TypeOK, NEW c \in Checkout, Placed(c), Get(c)
  PROVE  Placed(c)'
<1>h. Home[c] \in Machine
  BY CacheAssumption
<1> USE <1>h, AbsentAssumption DEF TypeOK, Placed, disk, SetTmp, Goto, End, EndGet
<1>0. BeginGet(c) => Placed(c)'
  BY DEF BeginGet
<1>1. Reuse(c) => Placed(c)'
  BY DEF Reuse
<1>2. Miss(c) => Placed(c)'
  BY DEF Miss
<1>3. Clean(c) => Placed(c)'
  BY DEF Clean
<1>4. BeginClone(c) => Placed(c)'
  <2> DEFINE t == [commit |-> NoCommit, stage |-> "cloning", git |-> TRUE]
  <2>1. t \in Trees /\ t.stage = "cloning" /\ t.git
    BY DEF Trees
  <2>2. BeginClone(c) => /\ SetTmp(c, t) /\ Goto(c, "cloning") /\ UNCHANGED <<dest, out>>
                         /\ cloner' = [cloner EXCEPT ![Home[c]] = c]
    BY DEF BeginClone
  <2> HIDE DEF t
  <2> QED BY <2>1, <2>2
<1>5. EndClone(c) => Placed(c)'
  <2> DEFINE t == [commit |-> tag, stage |-> "cloned", git |-> TRUE]
  <2>1. t \in Trees /\ t.stage = "cloned" /\ t.git
    BY DEF Trees, Commits
  <2>2. EndClone(c) => SetTmp(c, t) /\ Goto(c, "checkout") /\ UNCHANGED out
    BY DEF EndClone, GitStep
  <2> HIDE DEF t
  <2> QED BY <2>1, <2>2 DEF EndClone
<1>6. CloneFails(c) => Placed(c)'
  BY DEF CloneFails
<1>7. CheckoutTag(c) => Placed(c)'
  <2> DEFINE t == tmp[Home[c]]
             u == [t EXCEPT !.stage = "checkedout"]
  <2>1. t \in Trees => u # NoTree /\ u.stage = "checkedout"
    BY DEF Trees
  <2>2. CheckoutTag(c) => t \in Trees /\ SetTmp(c, u) /\ Goto(c, "strip") /\ UNCHANGED out
    BY DEF CheckoutTag, GitStep
  <2> HIDE DEF u
  <2> QED BY <2>1, <2>2 DEF CheckoutTag
<1>8. Strip(c) => Placed(c)'
  <2> DEFINE t == tmp[Home[c]]
             u == [t EXCEPT !.git = FALSE]
  <2>1. t \in Trees /\ t.stage = "checkedout" => u # NoTree /\ Whole(u)
    BY DEF Trees, Whole
  <2>2. Strip(c) => /\ t \in Trees /\ t.stage = "checkedout" /\ SetTmp(c, u)
                    /\ Goto(c, "replace") /\ UNCHANGED out
    BY DEF Strip
  <2> HIDE DEF u
  <2> QED BY <2>1, <2>2 DEF Strip
<1>9. Replace(c) => Placed(c)'
  BY DEF Replace
<1>10. Rename(c) => Placed(c)'
  BY DEF Rename
<1>11. Abort(c) => Placed(c)'
  BY DEF Abort
<1>12. Hash(c) => Placed(c)'
  BY DEF Hash
<1>13. Truncate(c) => Placed(c)'
  BY DEF Truncate
<1>14. WriteRow(c) => Placed(c)'
  BY DEF WriteRow
<1>15. Die(c) => Placed(c)'
  BY DEF Die
<1> QED BY <1>0, <1>1, <1>2, <1>3, <1>4, <1>5, <1>6, <1>7, <1>8, <1>9, <1>10, <1>11, <1>12, <1>13, <1>14, <1>15 DEF Get, Fetch

LEMMA PlacedStep ==
  ASSUME TypeOK, OneGet, AllPlaced, [Next]_vars
  PROVE  AllPlaced'
<1>1. ASSUME NEW c \in Checkout, Get(c), ~BeginGet(c) PROVE AllPlaced'
  <2>1. Placed(c)'
    BY <1>1, OwnPlaced DEF AllPlaced
  <2>2. \A d \in Checkout \ {c} : Placed(d)'
    BY <1>1, GetTouches, OthersPlaced
  <2> QED BY <2>1, <2>2 DEF AllPlaced
<1>2. ASSUME UNCHANGED <<tmp, dest, cloner>>,
             \A d \in Checkout :
               \/ pc'[d] = pc[d] /\ out'[d] \in {out[d], "none", "badlock"}
               \/ /\ pc'[d] \in {"idle", "stat", "verify", "compile"}
                  /\ out'[d] \in {out[d], "none", "E0121", "E0123", "built", "badlock"}
      PROVE  AllPlaced'
  BY <1>2 DEF AllPlaced, Placed
<1> USE <1>2 DEF TypeOK, disk, Goto, End
<1>3. ASSUME NEW c \in Checkout, BeginGet(c) PROVE AllPlaced'
  BY <1>3 DEF BeginGet
<1>4. ASSUME NEW c \in Checkout, BeginBuild(c) PROVE AllPlaced'
  BY <1>4 DEF BeginBuild
<1>5. ASSUME NEW c \in Checkout, Verify(c) PROVE AllPlaced'
  BY <1>5 DEF Verify
<1>6. ASSUME NEW c \in Checkout, Compile(c) PROVE AllPlaced'
  BY <1>6 DEF Compile
<1>7. ASSUME NEW c \in Checkout, NEW d \in Checkout, Pull(c, d) PROVE AllPlaced'
  BY <1>7 DEF Pull
<1>8. CASE Retag \/ UNCHANGED vars
  BY <1>8 DEF Retag, vars
<1> QED BY <1>1, <1>3, <1>4, <1>5, <1>6, <1>7, <1>8 DEF Next, Build

(* Nothing that a get leaves behind, however it ended, makes a later one    *)
(* fail (fetchModule's RemoveAll calls), provided that the gets of one      *)
(* machine do not overlap.                                                  *)
THEOREM LeftoversDoNotDisturb ==
  ASSUME ~GetsOverlap
  PROVE  Spec => []NeverDisturbed
<1>1. Init => TypeOK /\ OneGet /\ AllPlaced
  BY InitOK
<1>2. TypeOK /\ OneGet /\ AllPlaced /\ [Next]_vars
        => (TypeOK /\ OneGet /\ AllPlaced)'
  BY TypeStep, OneGetStep, PlacedStep
<1>3. AllPlaced => NeverDisturbed
  BY DEF AllPlaced, Placed, NeverDisturbed
<1> QED BY <1>1, <1>2, <1>3, PTL DEF Spec

----------------------------------------------------------------------------
(* Only a get changes the cache, in two places.                             *)
LEMMA DestMove ==
  ASSUME TypeOK, [Next]_vars
  PROVE  \/ dest' = dest
         \/ \E c \in Checkout : pc[c] \in GetSteps /\
              \/ dest' = [dest EXCEPT ![Home[c]] = NoTree]
              \/ /\ pc[c] = "rename" /\ dest[Home[c]] = NoTree
                 /\ dest' = [dest EXCEPT ![Home[c]] = tmp[Home[c]]]
BY DEF Next, Get, Fetch, Build, BeginGet, Reuse, Miss, Clean, BeginClone, EndClone, CloneFails,
   CheckoutTag, Strip, Replace, Rename, Abort, Hash, Truncate, WriteRow, Die, BeginBuild, Verify,
   Compile, Pull, Retag, vars, disk, GetSteps, FetchSteps

(* A build reaches its compiler by the check of its lock, and leaves it     *)
(* only when it has compiled.                                               *)
LEMMA CompileMove ==
  ASSUME TypeOK, [Next]_vars, NEW c \in Checkout
  PROVE  /\ pc[c] = "compile" => Compile(c) \/ (pc'[c] = "compile" /\ seen'[c] = seen[c])
         /\ pc[c] # "compile" /\ pc'[c] = "compile" => Verify(c)
<1> DEFINE Goal == /\ pc[c] = "compile" => Compile(c) \/ (pc'[c] = "compile" /\ seen'[c] = seen[c])
                   /\ pc[c] # "compile" /\ pc'[c] = "compile" => Verify(c)
<1> USE DEF TypeOK
<1>1. ASSUME NEW d \in Checkout, NEW steps, NEW s, pc[d] \in steps, "compile" \notin steps,
             s # "compile", pc' = [pc EXCEPT ![d] = s],
             seen' = seen \/ \E l : seen' = [seen EXCEPT ![d] = l]
      PROVE  Goal
  BY <1>1
<1>2. ASSUME NEW d \in Checkout, Get(d) PROVE Goal
  <2>1. \/ seen' = seen
        \/ \E l : seen' = [seen EXCEPT ![d] = l]
    BY <1>2 DEF Get, Fetch, BeginGet, Reuse, Miss, Clean, BeginClone, EndClone, CloneFails,
       CheckoutTag, Strip, Replace, Rename, Abort, Hash, Truncate, WriteRow, Die, End, EndGet
  <2>2. /\ pc[d] \in {"idle"} \cup GetSteps
        /\ \E s \in {"idle"} \cup GetSteps : pc' = [pc EXCEPT ![d] = s]
    BY <1>2 DEF Get, Fetch, BeginGet, Reuse, Miss, Clean, BeginClone, EndClone, CloneFails,
       CheckoutTag, Strip, Replace, Rename, Abort, Hash, Truncate, WriteRow, Die, GitStep, Goto,
       End, EndGet, GetSteps, FetchSteps
  <2>3. "compile" \notin {"idle"} \cup GetSteps
    BY DEF GetSteps, FetchSteps
  <2> QED BY <2>1, <2>2, <2>3, <1>1
<1>3. ASSUME NEW d \in Checkout, BeginBuild(d) PROVE Goal
  BY <1>3 DEF BeginBuild, Goto, End
<1>4. ASSUME NEW d \in Checkout, Verify(d) PROVE Goal
  BY <1>4 DEF Verify, Goto, End
<1>5. ASSUME NEW d \in Checkout, Compile(d) PROVE Goal
  BY <1>5 DEF Compile, Goto, End
<1>6. CASE pc' = pc /\ seen' = seen
  BY <1>6
<1>7. (\E d, e \in Checkout : Pull(d, e)) \/ Retag \/ UNCHANGED vars => pc' = pc /\ seen' = seen
  BY DEF Pull, Retag, vars
<1> QED BY <1>2, <1>3, <1>4, <1>5, <1>6, <1>7 DEF Next, Build

LEMMA VerifiedStep ==
  ASSUME TypeOK, GetsAndBuildsApart, Verified, [Next]_vars
  PROVE  Verified'
<1> SUFFICES ASSUME NEW c \in Checkout, pc'[c] = "compile", HasRow(seen'[c])
             PROVE  dest'[Home[c]] \in {NoTree, seen'[c].hash}
  BY DEF Verified
<1>h. Home[c] \in Machine
  BY CacheAssumption
<1>1. CASE pc[c] = "compile"
  <2>1. seen'[c] = seen[c]
    BY <1>1, CompileMove DEF Compile, Goto, End, TypeOK
  <2>2. dest'[Home[c]] = dest[Home[c]]
    BY <1>1, <1>h, DestMove DEF GetsAndBuildsApart, BuildSteps, TypeOK
  <2> QED BY <1>1, <2>1, <2>2 DEF Verified
<1>2. CASE pc[c] # "compile"
  <2>1. Verify(c)
    BY <1>2, CompileMove
  <2>2. ~(HasRow(seen[c]) /\ dest[Home[c]] # NoTree /\ dest[Home[c]] # seen[c].hash)
        /\ seen' = seen /\ dest' = dest
    BY <2>1 DEF Verify, Goto, End, TypeOK, disk
  <2> QED BY <2>2
<1> QED BY <1>1, <1>2

(* A build compiles the tree that its lock pins, wherever the lock came     *)
(* from and whatever the tag has become, provided that no get of its        *)
(* machine runs meanwhile (verifyLockedCache, then resolvePackages).        *)
THEOREM BuildsArePinned ==
  ASSUME ~BuildsOverlap
  PROVE  Spec => BuildIsPinned
<1>1. Init => TypeOK /\ GetsAndBuildsApart /\ Verified
  BY InitOK
<1>2. TypeOK /\ GetsAndBuildsApart /\ Verified /\ [Next]_vars
        => (TypeOK /\ GetsAndBuildsApart /\ Verified)'
  BY TypeStep, ApartStep, VerifiedStep
<1>3. TypeOK /\ Verified /\ [Next]_vars =>
        [\A c \in Checkout : Compiles(c) /\ HasRow(seen[c]) => dest[Home[c]] = seen[c].hash]_vars
  <2> SUFFICES ASSUME TypeOK, Verified, Next, NEW c \in Checkout, Compiles(c), HasRow(seen[c])
               PROVE  dest[Home[c]] = seen[c].hash
    OBVIOUS
  <2>1. Compile(c)
    BY CompileMove DEF Compiles
  <2>2. dest[Home[c]] # NoTree
    BY <2>1 DEF Compile, End, Compiles, TypeOK
  <2> QED BY <2>2 DEF Compiles, Verified
<1> QED BY <1>1, <1>2, <1>3, PTL DEF Spec, BuildIsPinned

----------------------------------------------------------------------------
(* What the cache, the locks and a row about to be written are made of:     *)
(* finished checkouts.                                                      *)
AllWhole ==
  /\ \A h \in Machine : dest[h] # NoTree => Whole(dest[h])
  /\ \A c \in Checkout : /\ HasRow(row[c]) => Whole(row[c].hash)
                         /\ HasRow(lock[c]) => Whole(lock[c].hash)

(* A row is made of the entry that the get hashes.                          *)
LEMMA RowMove ==
  ASSUME [Next]_vars
  PROVE  \/ row' = row
         \/ \E c \in Checkout : row' = [row EXCEPT ![c] = NoLock]
         \/ \E c \in Checkout : \E k :
              /\ dest[Home[c]] # NoTree
              /\ row' = [row EXCEPT ![c] = [resolved |-> k, hash |-> dest[Home[c]]]]
<1>1. ASSUME NEW c \in Checkout, Hash(c)
      PROVE  \/ row' = [row EXCEPT ![c] = NoLock]
             \/ \E k : /\ dest[Home[c]] # NoTree
                      /\ row' = [row EXCEPT ![c] = [resolved |-> k, hash |-> dest[Home[c]]]]
  BY <1>1 DEF Hash, EndGet
<1>2. CASE ~\E c \in Checkout : Hash(c)
  BY <1>2 DEF Next, Get, Fetch, Build, BeginGet, Reuse, Miss, Clean, BeginClone, EndClone,
     CloneFails, CheckoutTag, Strip, Replace, Rename, Abort, Truncate, WriteRow, Die, BeginBuild,
     Verify, Compile, Pull, Retag, vars, EndGet
<1> QED BY <1>1, <1>2

(* A lock is a row that was written, or copied from another checkout.       *)
LEMMA LockMove ==
  ASSUME [Next]_vars
  PROVE  \/ lock' = lock
         \/ \E c, d \in Checkout : \E l \in {Emptied, Torn, row[d], lock[d]} :
              lock' = [lock EXCEPT ![c] = l]
BY DEF Next, Get, Fetch, Build, BeginGet, Reuse, Miss, Clean, BeginClone, EndClone, CloneFails,
   CheckoutTag, Strip, Replace, Rename, Abort, Hash, Truncate, WriteRow, Die, BeginBuild, Verify,
   Compile, Pull, Retag, vars, disk

LEMMA WholeStep ==
  ASSUME TypeOK, AllPlaced, AllWhole, [Next]_vars
  PROVE  AllWhole'
<1>1. ASSUME NEW h \in Machine, dest'[h] # NoTree PROVE Whole(dest'[h])
  BY <1>1, DestMove, CacheAssumption DEF TypeOK, AllPlaced, Placed, AllWhole
<1>2. ASSUME NEW c \in Checkout, HasRow(row'[c]) PROVE Whole(row'[c].hash)
  <2>1. CASE row' = row \/ \E d \in Checkout : row' = [row EXCEPT ![d] = NoLock]
    BY <1>2, <2>1 DEF AllWhole, HasRow, TypeOK
  <2>2. ASSUME NEW d \in Checkout, NEW k, dest[Home[d]] # NoTree,
               row' = [row EXCEPT ![d] = [resolved |-> k, hash |-> dest[Home[d]]]]
        PROVE  Whole(row'[c].hash)
    <3>1. Whole(dest[Home[d]])
      BY <2>2, CacheAssumption DEF AllWhole
    <3>2. row'[c] = IF c = d THEN [resolved |-> k, hash |-> dest[Home[d]]] ELSE row[c]
      BY <2>2 DEF TypeOK
    <3> QED BY <1>2, <3>1, <3>2 DEF AllWhole
  <2> QED BY <2>1, <2>2, RowMove
<1>3. ASSUME NEW c \in Checkout, HasRow(lock'[c]) PROVE Whole(lock'[c].hash)
  BY <1>3, LockMove DEF AllWhole, HasRow, TypeOK
<1> QED BY <1>1, <1>2, <1>3 DEF AllWhole

(* The cache and the locks.                                                 *)
EntriesAreWhole ==
  /\ \A h \in Machine : dest[h] # NoTree => Whole(dest[h])
  /\ \A c \in Checkout : HasRow(lock[c]) => Whole(lock[c].hash)

(* A cache entry, and what a lock describes, is a finished checkout without *)
(* its .git: a clone that was cut off is never taken for a module (the      *)
(* rename at the end of fetchModule), provided that the gets of one machine *)
(* do not overlap.                                                          *)
THEOREM OnlyFinishedCheckouts ==
  ASSUME ~GetsOverlap
  PROVE  Spec => []EntriesAreWhole
<1>1. Init => TypeOK /\ OneGet /\ AllPlaced /\ AllWhole
  BY InitOK DEF Init, AllWhole, HasRow
<1>2. TypeOK /\ OneGet /\ AllPlaced /\ AllWhole /\ [Next]_vars
        => (TypeOK /\ OneGet /\ AllPlaced /\ AllWhole)'
  BY TypeStep, OneGetStep, PlacedStep, WholeStep
<1>3. AllWhole => EntriesAreWhole
  BY DEF AllWhole, EntriesAreWhole
<1> QED BY <1>1, <1>2, <1>3, PTL DEF Spec
=============================================================================
