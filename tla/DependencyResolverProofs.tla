---------------------- MODULE DependencyResolverProofs ----------------------
(***************************************************************************)
(* DependencyResolver and the life of a project around it, OfflineBuild,   *)
(* proved for any sources, versions, commits, releases and manifests, and  *)
(* so for cyclic graphs and any length of a worklist, any lists of imports *)
(* and any number of changes of the project's manifest.                    *)
(***************************************************************************)
EXTENDS OfflineBuild, FiniteSetTheorems, SequenceTheorems, TLAPS

(* Natural numbers have a least one, and bounded ones a greatest.          *)
LEMMA LeastIsMin ==
  ASSUME NEW S \in SUBSET Nat, S # {}
  PROVE  Min(S) \in S /\ \A y \in S : Min(S) <= y
<1> DEFINE Under == {0 .. (x - 1) : x \in S}
<1>1. \A x \in S : 0 .. (x - 1) \in FiniteSubsetsOf(Nat)
  <2>1. \A x \in S : IsFiniteSet(0 .. (x - 1))
    BY FS_Interval
  <2>2. \A x \in S : 0 .. (x - 1) \in SUBSET Nat
    OBVIOUS
  <2> QED  BY <2>1, <2>2 DEF FiniteSubsetsOf
<1>2. Under \subseteq FiniteSubsetsOf(Nat) /\ Under # {}
  BY <1>1
<1>3. PICK b \in Under : \A d \in Under : ~(<<d, b>> \in StrictSubsetOrdering(Nat))
  <2> HIDE DEF Under
  <2> QED  BY <1>2, FS_StrictSubsetOrderingWellFounded, WFMin
<1>4. PICK x \in S : b = 0 .. (x - 1)
  BY <1>3
<1>5. ASSUME NEW y \in S, y < x  PROVE FALSE
  <2>1. 0 .. (y - 1) \in Under /\ 0 .. (y - 1) \subseteq Nat /\ 0 .. (x - 1) \subseteq Nat
    OBVIOUS
  <2>2. 0 .. (y - 1) \subseteq 0 .. (x - 1) /\ y \in 0 .. (x - 1) /\ ~(y \in 0 .. (y - 1))
    BY <1>5
  <2>3. <<0 .. (y - 1), b>> \in StrictSubsetOrdering(Nat)
    BY <1>4, <2>1, <2>2 DEF StrictSubsetOrdering
  <2> QED  BY <1>3, <2>1, <2>3
<1>6. \A y \in S : x <= y
  BY <1>5
<1> QED  BY <1>6 DEF Min

LEMMA GreatestIsMax ==
  ASSUME NEW n \in Nat, NEW S \in SUBSET (0 .. n), S # {}
  PROVE  Max(S) \in S /\ \A y \in S : Max(S) >= y
<1> DEFINE below == {d \in Nat : d <= n /\ n - d \in S}
<1>1. below \in SUBSET Nat /\ below # {}
  <2>1. PICK y \in S : y \in 0 .. n
    OBVIOUS
  <2>2. n - y \in Nat /\ n - y <= n /\ n - (n - y) = y
    BY <2>1
  <2> QED  BY <2>1, <2>2
<1>2. PICK d \in below : \A e \in below : d <= e
  <2> HIDE DEF below
  <2> QED  BY <1>1, LeastIsMin
<1>3. n - d \in S
  BY <1>2
<1>4. ASSUME NEW y \in S PROVE n - d >= y
  <2>1. n - y \in Nat /\ n - y <= n /\ n - (n - y) = y
    BY <1>4
  <2>2. n - y \in below
    BY <1>4, <2>1
  <2>3. d <= n - y /\ d \in Nat /\ y \in Nat
    BY <1>2, <2>2
  <2> QED  BY <2>1, <2>3
<1> QED  BY <1>3, <1>4 DEF Max

-----------------------------------------------------------------------------
(* What a constraint asks of the selected version.                         *)
Meets(c, v) == c \in {AtCommit(v)} \/ Admits(c, v)

(* The parts of a constraint.                                              *)
LEMMA Constraints ==
  ASSUME NEW c \in Constraint
  PROVE  \/ /\ c.kind \in {"range", "exact"} /\ c.lo \in Version /\ c.hi \in Version
            /\ c.kind = "exact" => c.hi = c.lo
         \/ c.lo \in Commit /\ c = AtCommit(c.lo) /\ c.kind = "commit"
BY DEF Constraint, Between, Exact, AtCommit

(* selectVersion's answer, unless it is the conflict, meets them all.      *)
LEMMA SelectedMeets ==
  ASSUME released \in [Source -> SUBSET Version], NEW s \in Source,
         NEW rs \in SUBSET Constraint, rs # {}, SelectVersion(s, rs) # NoVersion
  PROVE  /\ SelectVersion(s, rs) \in Pin
         /\ \A c \in rs : Meets(c, SelectVersion(s, rs))
<1> DEFINE v == SelectVersion(s, rs)
           pins == {r.lo : r \in {q \in rs : q.kind = "commit"}}
<1>1. MaxVersion \in Nat /\ Version = 1 .. MaxVersion /\ Commit \cap Version = {}
  BY ResolverAssumption DEF Version
<1>2. \A c \in rs : Admits(c, v) => v \in Version
  <2>1. \A c \in rs : Admits(c, v) => v \in c.lo .. c.hi /\ c.lo \in Version /\ c.hi \in Version
    BY Constraints DEF Admits
  <2> HIDE DEF v
  <2> QED  BY <1>1, <2>1
<1>3. CASE pins # {}
  <2>1. (\A r \in rs : pins = {r.lo}) /\ v = CHOOSE k \in pins : TRUE
    BY <1>3 DEF SelectVersion
  <2>2. v \in Commit /\ \A r \in rs : r.lo = v
    <3>1. v \in pins
      BY <1>3, <2>1
    <3>2. \A k \in pins : k \in Commit
      BY Constraints
    <3> HIDE DEF v, pins
    <3> QED  BY <2>1, <3>1, <3>2
  <2>3. \A r \in rs : r = AtCommit(v)
    <3> HIDE DEF v, pins
    <3> QED  BY <1>1, <2>2, Constraints
  <2> QED  BY <2>2, <2>3 DEF Meets, Pin
<1>4. CASE pins = {} /\ Candidates(s, rs) = {}
  <2>1. \A r \in rs : Admits(r, v)
    BY <1>4 DEF SelectVersion
  <2> QED  BY <1>2, <2>1 DEF Meets, Pin
<1>5. CASE pins = {} /\ Candidates(s, rs) # {}
  <2>1. Satisfying(s, rs) # {} /\ v = Min(Satisfying(s, rs))
    BY <1>5 DEF SelectVersion
  <2>2. Satisfying(s, rs) \in SUBSET Nat
    <3>1. \A w \in Satisfying(s, rs) : \A c \in rs : w \in c.lo .. c.hi /\ c.lo \in Version
      BY Constraints DEF Satisfying, Admits
    <3> QED  BY <1>1, <3>1
  <2>3. v \in Satisfying(s, rs)
    BY <2>1, <2>2, LeastIsMin
  <2>4. \A r \in rs : Admits(r, v)
    BY <2>3 DEF Satisfying
  <2> QED  BY <1>2, <2>4 DEF Meets, Pin
<1> QED  BY <1>3, <1>4, <1>5

(* Floors, with a release above each, select a release.                    *)
LEMMA FloorsSelect ==
  ASSUME released \in [Source -> SUBSET Version], NEW s \in Source,
         NEW rs \in SUBSET Constraint, rs # {},
         \A c \in rs : /\ c.kind = "range" /\ c.hi = MaxVersion
                       /\ \E v \in released[s] : v >= c.lo
  PROVE  SelectVersion(s, rs) \in released[s]
<1> DEFINE floors == {c.lo : c \in rs}
<1>1. MaxVersion \in Nat /\ Version = 1 .. MaxVersion
  BY ResolverAssumption DEF Version
<1>2. \A c \in rs : c.kind = "range" /\ c.hi = MaxVersion /\ c.lo \in Version
  BY Constraints
<1>3. Candidates(s, rs) = released[s] /\ released[s] \in SUBSET Version
  BY <1>2 DEF Candidates
<1>4. PICK top \in rs : \A c \in rs : top.lo >= c.lo
  <2>1. floors \in SUBSET (0 .. MaxVersion) /\ floors # {}
    BY <1>1, <1>2
  <2>2. Max(floors) \in floors /\ \A y \in floors : Max(floors) >= y
    <3> HIDE DEF floors
    <3> QED  BY <1>1, <2>1, GreatestIsMax
  <2> QED  BY <2>2
<1>5. PICK v \in released[s] : v >= top.lo
  OBVIOUS
<1>6. \A c \in rs : Admits(c, v)
  BY <1>1, <1>2, <1>3, <1>4, <1>5 DEF Admits
<1>7. v \in Satisfying(s, rs) /\ Satisfying(s, rs) \in SUBSET released[s]
  BY <1>3, <1>5, <1>6 DEF Satisfying
<1>8. Min(Satisfying(s, rs)) \in released[s]
  <2>1. Satisfying(s, rs) \in SUBSET Nat /\ Satisfying(s, rs) # {}
    BY <1>1, <1>3, <1>7
  <2>2. Min(Satisfying(s, rs)) \in Satisfying(s, rs)
    BY <2>1, LeastIsMin
  <2> QED  BY <1>7, <2>2
<1>9. SelectVersion(s, rs) = Min(Satisfying(s, rs))
  <2>1. {q \in rs : q.kind = "commit"} = {}
    BY <1>2
  <2>2. Candidates(s, rs) # {} /\ Satisfying(s, rs) # {}
    BY <1>3, <1>5, <1>7
  <2> QED  BY <2>1, <2>2 DEF SelectVersion
<1> QED  BY <1>8, <1>9

-----------------------------------------------------------------------------
(* The inductive invariant.                                                *)
Node == {Root} \cup Module

Typed ==
  /\ released \in [Source -> SUBSET Version]
  /\ Root \in DOMAIN manifest /\ DOMAIN manifest \subseteq Node
  /\ \A m \in DOMAIN manifest : manifest[m] \in Manifest
  /\ queue \in Seq(Node) /\ at \in Nat
  /\ reqs \in [Source -> SUBSET Constraint]
  /\ sel \in [Source -> Pin \cup {NoVersion}]

(* A manifest that waits to be read has been met.                          *)
MetInQueue == \A q \in DOMAIN queue : queue[q] \in DOMAIN manifest

Going == status \in {"resolving", "done"}

(* Until the resolver gives up, what is selected exists and is in the      *)
(* cache ...                                                               *)
Chosen == Going => \A s \in Source : sel[s] # NoVersion =>
  /\ <<s, sel[s]>> \in fetched \cap DOMAIN manifest
  /\ sel[s] \in released[s] \cup Commit

(* ... and meets every constraint met so far.                              *)
Kept == Going => \A s \in Source : \A c \in reqs[s] :
  sel[s] # NoVersion /\ Meets(c, sel[s])

(* A dependency of a selected module has been taken as a constraint, or is *)
(* still to be read.                                                       *)
Taken(d) == d.cons \in reqs[d.source]
StillRead(m, i) == \E q \in DOMAIN queue : queue[q] = m /\ (q = 1 => i > at)

Accounted == Going => \A m \in Selection : \A i \in DOMAIN manifest[m].deps :
  Taken(manifest[m].deps[i]) \/ StillRead(m, i)

Emptied == status = "done" => queue = <<>>

RInv == Typed /\ MetInQueue /\ Chosen /\ Kept /\ Accounted /\ Emptied

-----------------------------------------------------------------------------
(* What the actions are made of.                                           *)
LEMMA Modules ==
  ASSUME NEW s \in Source, NEW v \in Pin
  PROVE  <<s, v>> \in Module /\ <<s, v>> \in Node /\ <<s, v>> # Root /\ v # NoVersion
BY ResolverAssumption DEF Module, Node

LEMMA Queued ==
  ASSUME Typed
  PROVE  \E n \in Nat : n = Len(queue) /\ DOMAIN queue = 1 .. n /\ (queue # <<>> <=> n > 0)
BY DEF Typed

LEMMA DepsOfMet ==
  ASSUME Typed, NEW m \in DOMAIN manifest
  PROVE  /\ manifest[m].deps \in Seq(Dep)
         /\ \A i \in DOMAIN manifest[m].deps :
              /\ i \in Nat /\ i >= 1 /\ i <= Len(manifest[m].deps)
              /\ manifest[m].deps[i] \in Dep
              /\ manifest[m].deps[i].source \in Source
              /\ manifest[m].deps[i].cons \in Constraint
<1>1. manifest[m].deps \in Seq(Dep)
  BY DEF Typed, Manifest
<1>2. \A d \in Dep : d.source \in Source /\ d.cons \in Constraint
  BY DEF Dep
<1> QED  BY <1>1, <1>2

LEMMA WhileReading ==
  ASSUME Typed, MetInQueue, Reading
  PROVE  /\ queue[1] \in DOMAIN manifest /\ 1 \in DOMAIN queue
         /\ Current = manifest[queue[1]].deps[at + 1]
         /\ at + 1 \in DOMAIN manifest[queue[1]].deps
         /\ Current \in Dep /\ Current.source \in Source /\ Current.cons \in Constraint
         /\ Known \in SUBSET Constraint /\ Known # {}
<1>1. queue # <<>> /\ at < Len(Deps) /\ Head(queue) = queue[1] /\ 1 \in DOMAIN queue /\ at \in Nat
  BY DEF Reading, Typed
<1>2. queue[1] \in DOMAIN manifest
  BY <1>1 DEF MetInQueue
<1>3. Deps = manifest[queue[1]].deps /\ Deps \in Seq(Dep)
  BY <1>1, <1>2, DepsOfMet DEF Deps
<1>4. at + 1 \in DOMAIN Deps
  BY <1>1, <1>3
<1>5. Current = manifest[queue[1]].deps[at + 1]
  BY <1>3 DEF Current
<1>6. Current \in Dep /\ Current.source \in Source /\ Current.cons \in Constraint
  BY <1>2, <1>3, <1>4, <1>5, DepsOfMet
<1>7. Known \in SUBSET Constraint /\ Known # {}
  BY <1>6 DEF Known, Typed
<1> QED  BY <1>1, <1>2, <1>3, <1>4, <1>5, <1>6, <1>7

LEMMA Noted ==
  ASSUME Typed, MetInQueue, Reading, Note
  PROVE  /\ reqs' \in [Source -> SUBSET Constraint]
         /\ reqs'[Current.source] = Known
         /\ Current.cons \in reqs'[Current.source]
         /\ \A t \in Source : /\ reqs[t] \subseteq reqs'[t]
                              /\ t # Current.source => reqs'[t] = reqs[t]
         /\ released' = released
<1>1. Current.source \in Source /\ Known \in SUBSET Constraint
  BY WhileReading
<1>2. reqs \in [Source -> SUBSET Constraint] /\ reqs' = [reqs EXCEPT ![Current.source] = Known]
  BY DEF Typed, Note
<1>3. reqs[Current.source] \subseteq Known /\ Current.cons \in Known
  BY DEF Known
<1> HIDE DEF Typed
<1> QED  BY <1>1, <1>2, <1>3 DEF Note

LEMMA Met ==
  ASSUME Typed, NEW m \in Module, Meet(m)
  PROVE  /\ DOMAIN manifest' = DOMAIN manifest \cup {m}
         /\ \A n \in DOMAIN manifest : manifest'[n] = manifest[n]
         /\ \A n \in DOMAIN manifest' : manifest'[n] \in Manifest
<1>1. CASE m \in DOMAIN manifest
  BY <1>1 DEF Meet, Typed
<1>2. CASE m \notin DOMAIN manifest
  <2>1. PICK x \in Manifests[m] : manifest' = [n \in DOMAIN manifest \cup {m} |->
                                      IF n = m THEN x ELSE manifest[n]]
    BY <1>2 DEF Meet
  <2>2. x \in Manifest
    BY ResolverAssumption
  <2>3. /\ DOMAIN manifest' = DOMAIN manifest \cup {m} /\ manifest'[m] = x
        /\ \A n \in DOMAIN manifest : manifest'[n] = manifest[n]
    BY <1>2, <2>1
  <2> QED  BY <2>2, <2>3 DEF Typed
<1> QED  BY <1>1, <1>2

(* The selection an action makes meets what is known of the source.        *)
LEMMA Selects ==
  ASSUME Typed, MetInQueue, Reading, Selected # NoVersion
  PROVE  Selected \in Pin /\ \A c \in Known : Meets(c, Selected)
<1>1. released \in [Source -> SUBSET Version]
  BY DEF Typed
<1> QED  BY <1>1, WhileReading, SelectedMeets DEF Selected

LEMMA Choice ==
  ASSUME Typed, MetInQueue, Choose
  PROVE  \E s \in Source, v \in Pin :
    /\ s = Current.source /\ v = Selected /\ \A c \in Known : Meets(c, v)
    /\ sel' = [sel EXCEPT ![s] = v] /\ v \in released[s] \cup Commit
    /\ <<s, v>> \in fetched' /\ fetched \subseteq fetched'
    /\ queue' = Append(queue, <<s, v>>) /\ Meet(<<s, v>>)
    /\ at' = at + 1 /\ status' = status /\ status = "resolving"
<1>1. Reading /\ Selected # NoVersion /\ CanFetch(Current.source, Selected)
  BY DEF Choose, Fresh
<1>2. PICK s \in Source, v \in Pin : s = Current.source /\ v = Selected
  BY <1>1, WhileReading, Selects
<1>3. \A c \in Known : Meets(c, v)
  BY <1>1, <1>2, Selects
<1>4. v \in released[s] \cup Commit
  BY <1>1, <1>2 DEF CanFetch
<1> QED  BY <1>1, <1>2, <1>3, <1>4 DEF Choose, Reading

(* The queue after a selection.                                            *)
LEMMA Enqueued ==
  ASSUME Typed, NEW m \in Node, queue' = Append(queue, m)
  PROVE  /\ queue' \in Seq(Node)
         /\ DOMAIN queue \subseteq DOMAIN queue'
         /\ \A q \in DOMAIN queue : queue'[q] = queue[q]
         /\ \A q \in DOMAIN queue' : q \in DOMAIN queue \/ queue'[q] = m
         /\ queue # <<>> => \E q \in DOMAIN queue' : queue'[q] = m /\ q # 1
<1>1. PICK n \in Nat : n = Len(queue) /\ DOMAIN queue = 1 .. n /\ (queue # <<>> <=> n > 0)
  BY Queued
<1>2. /\ queue' \in Seq(Node) /\ DOMAIN queue' = 1 .. (n + 1) /\ queue'[n + 1] = m
      /\ \A q \in 1 .. n : queue'[q] = queue[q]
  BY <1>1 DEF Typed
<1>3. queue # <<>> => n + 1 \in DOMAIN queue' /\ n + 1 # 1
  BY <1>1, <1>2
<1> QED  BY <1>1, <1>2, <1>3

(* The queue after a manifest has been read.                               *)
LEMMA Dequeued ==
  ASSUME Typed, queue # <<>>, queue' = Tail(queue)
  PROVE  /\ queue' \in Seq(Node) /\ 1 \in DOMAIN queue
         /\ \A q \in DOMAIN queue' : q + 1 \in DOMAIN queue /\ queue'[q] = queue[q + 1]
         /\ \A q \in DOMAIN queue : q # 1 => q - 1 \in DOMAIN queue' /\ queue'[q - 1] = queue[q]
<1>1. PICK n \in Nat : n = Len(queue) /\ DOMAIN queue = 1 .. n /\ n > 0
  BY Queued
<1>2. /\ queue' \in Seq(Node) /\ DOMAIN queue' = 1 .. (n - 1)
      /\ \A q \in 1 .. (n - 1) : queue'[q] = queue[q + 1]
  BY <1>1 DEF Typed
<1> QED  BY <1>1, <1>2

-----------------------------------------------------------------------------
LEMMA TypedStep ==
  ASSUME Typed, MetInQueue, [Next]_vars
  PROVE  Typed' /\ MetInQueue'
<1>1. CASE Conflict
  <2>1. reqs' \in [Source -> SUBSET Constraint] /\ released' = released
    BY <1>1, Noted DEF Conflict
  <2> QED  BY <1>1, <2>1 DEF Conflict, Typed, MetInQueue
<1>2. CASE Keep
  <2>1. reqs' \in [Source -> SUBSET Constraint] /\ released' = released
    BY <1>2, Noted DEF Keep
  <2> QED  BY <1>2, <2>1 DEF Keep, Typed, MetInQueue
<1>3. CASE Unfetchable
  <2>1. reqs' \in [Source -> SUBSET Constraint] /\ released' = released
    BY <1>3, Noted DEF Unfetchable
  <2>2. sel' \in [Source -> Pin \cup {NoVersion}]
    <3>1. Selected \in Pin /\ Current.source \in Source
      BY <1>3, Selects, WhileReading DEF Unfetchable
    <3> QED  BY <1>3, <3>1 DEF Unfetchable, Typed
  <2> QED  BY <1>3, <2>1, <2>2 DEF Unfetchable, Typed, MetInQueue
<1>4. CASE Choose
  <2>1. reqs' \in [Source -> SUBSET Constraint] /\ released' = released
    BY <1>4, Noted DEF Choose, Fresh
  <2>2. PICK s \in Source, v \in Pin :
          /\ sel' = [sel EXCEPT ![s] = v] /\ Meet(<<s, v>>)
          /\ queue' = Append(queue, <<s, v>>) /\ at' = at + 1
    BY <1>4, Choice
  <2>3. <<s, v>> \in Module /\ <<s, v>> \in Node
    BY Modules
  <2>4. sel' \in [Source -> Pin \cup {NoVersion}] /\ at' \in Nat
    BY <2>2 DEF Typed
  <2>5. /\ DOMAIN manifest' = DOMAIN manifest \cup {<<s, v>>}
        /\ \A n \in DOMAIN manifest' : manifest'[n] \in Manifest
    BY <2>2, <2>3, Met
  <2>6. /\ queue' \in Seq(Node)
        /\ \A q \in DOMAIN queue : queue'[q] = queue[q]
        /\ \A q \in DOMAIN queue' : q \in DOMAIN queue \/ queue'[q] = <<s, v>>
    BY <2>2, <2>3, Enqueued
  <2>7. \A q \in DOMAIN queue' : queue'[q] \in DOMAIN manifest'
    BY <2>5, <2>6 DEF MetInQueue
  <2> QED  BY <2>1, <2>3, <2>4, <2>5, <2>6, <2>7 DEF Typed, MetInQueue
<1>5. CASE NextManifest
  <2>1. queue' \in Seq(Node) /\ \A q \in DOMAIN queue' : queue'[q] \in DOMAIN manifest
    BY <1>5, Dequeued DEF NextManifest, MetInQueue
  <2> QED  BY <1>5, <2>1 DEF NextManifest, Typed, MetInQueue
<1>6. CASE Finish \/ UNCHANGED vars
  BY <1>6 DEF Finish, vars, Typed, MetInQueue
<1> QED  BY <1>1, <1>2, <1>3, <1>4, <1>5, <1>6 DEF Next

(* What has been taken stays taken.                                        *)
LEMMA StaysTaken ==
  ASSUME Typed, MetInQueue, [Next]_vars, NEW d \in Dep, Taken(d)
  PROVE  Taken(d)'
<1>1. d.source \in Source /\ d' = d
  BY DEF Dep
<1>2. CASE Reading /\ Note
  BY <1>1, <1>2, Noted DEF Taken
<1>3. CASE reqs' = reqs
  BY <1>3 DEF Taken
<1> QED
  BY <1>2, <1>3
  DEF Next, Conflict, Keep, Unfetchable, Choose, Fresh, NextManifest, Finish, vars

LEMMA ChosenStep ==
  ASSUME RInv, [Next]_vars
  PROVE  Chosen'
<1> USE DEF RInv
<1>1. CASE Conflict \/ Unfetchable
  BY <1>1 DEF Conflict, Unfetchable, Chosen, Going
<1>2. CASE Keep
  BY <1>2 DEF Keep, Note, Reading, Chosen, Going
<1>3. CASE Choose
  <2>1. PICK s \in Source, v \in Pin :
          /\ sel' = [sel EXCEPT ![s] = v] /\ v \in released[s] \cup Commit
          /\ <<s, v>> \in fetched' /\ fetched \subseteq fetched'
          /\ Meet(<<s, v>>) /\ status = "resolving"
    BY <1>3, Choice
  <2>2. DOMAIN manifest' = DOMAIN manifest \cup {<<s, v>>} /\ released' = released
    BY <1>3, <2>1, Modules, Met DEF Choose, Note
  <2>3. sel'[s] = v /\ \A t \in Source : t # s => sel'[t] = sel[t]
    BY <2>1 DEF Typed
  <2>4. ASSUME NEW t \in Source, sel'[t] # NoVersion
        PROVE  /\ <<t, sel'[t]>> \in fetched' \cap DOMAIN manifest'
               /\ sel'[t] \in released'[t] \cup Commit
    <3>1. CASE t = s
      BY <2>1, <2>2, <2>3, <3>1
    <3>2. CASE t # s
      <4>1. <<t, sel[t]>> \in fetched \cap DOMAIN manifest /\ sel[t] \in released[t] \cup Commit
        BY <2>1, <2>3, <2>4, <3>2 DEF Chosen, Going
      <4> QED  BY <2>1, <2>2, <2>3, <3>2, <4>1
    <3> QED  BY <3>1, <3>2
  <2> QED  BY <2>4 DEF Chosen
<1>4. CASE NextManifest \/ Finish \/ UNCHANGED vars
  BY <1>4 DEF NextManifest, Finish, vars, Chosen, Going
<1> QED  BY <1>1, <1>2, <1>3, <1>4 DEF Next

LEMMA KeptStep ==
  ASSUME RInv, [Next]_vars
  PROVE  Kept'
<1> USE DEF RInv
<1>1. CASE Conflict \/ Unfetchable
  BY <1>1 DEF Conflict, Unfetchable, Kept, Going
<1>2. CASE Keep
  <2>1. Reading /\ Note /\ Selected # NoVersion /\ Selected = sel[Current.source] /\ sel' = sel
    BY <1>2 DEF Keep
  <2>2. Going
    BY <2>1 DEF Reading, Going
  <2>3. PICK s \in Source : s = Current.source
    BY <2>1, WhileReading
  <2>4. \A c \in reqs'[s] : sel[s] # NoVersion /\ Meets(c, sel[s])
    BY <2>1, <2>3, Noted, Selects
  <2>5. \A t \in Source : t # s => reqs'[t] = reqs[t]
    BY <2>1, <2>3, Noted
  <2> QED  BY <2>1, <2>2, <2>4, <2>5 DEF Kept, Meets
<1>3. CASE Choose
  <2>1. PICK s \in Source, v \in Pin :
          /\ s = Current.source /\ \A c \in Known : Meets(c, v)
          /\ sel' = [sel EXCEPT ![s] = v] /\ status = "resolving"
    BY <1>3, Choice
  <2>2. Reading /\ Note
    BY <1>3 DEF Choose, Fresh
  <2>3. sel'[s] = v /\ v # NoVersion /\ \A t \in Source : t # s => sel'[t] = sel[t]
    BY <2>1, Modules DEF Typed
  <2>4. reqs'[s] = Known /\ \A t \in Source : t # s => reqs'[t] = reqs[t]
    BY <2>1, <2>2, Noted
  <2>5. ASSUME NEW t \in Source, NEW c \in reqs'[t], NEW w, w = sel'[t]
        PROVE  w # NoVersion /\ Meets(c, w)
    <3>1. CASE t = s
      BY <2>1, <2>3, <2>4, <2>5, <3>1
    <3>2. CASE t # s
      BY <2>1, <2>3, <2>4, <2>5, <3>2 DEF Kept, Going
    <3> QED  BY <3>1, <3>2
  <2>6. \A t \in Source : \A c \in reqs'[t] : sel'[t] # NoVersion /\ Meets(c, sel'[t])
    BY <2>5
  <2> QED  BY <2>6 DEF Kept, Meets
<1>4. CASE NextManifest \/ Finish \/ UNCHANGED vars
  BY <1>4 DEF NextManifest, Finish, vars, Kept, Going
<1> QED  BY <1>1, <1>2, <1>3, <1>4 DEF Next

-----------------------------------------------------------------------------
(* What is still to be read is read, or taken, after a step.               *)
LEMMA StillAccounted ==
  ASSUME RInv, [Next]_vars, Going', NEW m \in Node, m \in Selection,
         NEW i \in DOMAIN manifest[m].deps, NEW d \in Dep, d = manifest[m].deps[i]
  PROVE  Taken(d)' \/ StillRead(m, i)'
<1> USE DEF RInv
<1>1. Going /\ m \in DOMAIN manifest
  <2>1. Going
    BY DEF Next, Conflict, Keep, Unfetchable, Choose, Fresh, Reading, NextManifest, Finish,
           vars, Going
  <2> QED  BY <2>1 DEF Selection, Chosen, Typed
<1>2. CASE Taken(d)
  BY <1>2, StaysTaken
<1>3. ASSUME NEW q \in DOMAIN queue, queue[q] = m, q = 1 => i > at
      PROVE  Taken(d)' \/ StillRead(m, i)'
  <2>0. q \in Nat /\ q >= 1 /\ at \in Nat /\ i \in Nat
    BY <1>1, Queued, DepsOfMet DEF Typed
  <2>1. ASSUME Reading, Note, at' = at + 1, q \in DOMAIN queue', queue'[q] = m
        PROVE  Taken(d)' \/ StillRead(m, i)'
    <3>1. CASE q = 1 /\ i = at + 1
      <4>1. d = Current /\ Current.cons \in reqs'[Current.source]
        BY <1>3, <2>1, <3>1, WhileReading, Noted
      <4> QED  BY <4>1 DEF Taken
    <3>2. CASE q = 1 => i # at + 1
      <4>1. q = 1 => i > at'
        BY <1>3, <2>0, <2>1, <3>2
      <4> QED  BY <2>1, <4>1 DEF StillRead
    <3> QED  BY <3>1, <3>2
  <2>2. CASE Keep
    BY <1>3, <2>1, <2>2 DEF Keep
  <2>3. CASE Choose
    <3>1. PICK s \in Source, v \in Pin : queue' = Append(queue, <<s, v>>)
      BY <2>3, Choice
    <3>2. q \in DOMAIN queue' /\ queue'[q] = m
      BY <1>3, <3>1, Modules, Enqueued
    <3> QED  BY <2>1, <2>3, <3>2 DEF Choose, Fresh
  <2>4. CASE NextManifest
    <3>1. queue # <<>> /\ queue' = Tail(queue) /\ at = Len(Deps) /\ at' = 0
      BY <2>4 DEF NextManifest
    <3>2. CASE q = 1
      <4>1. Deps = manifest[m].deps
        BY <1>3, <3>1, <3>2 DEF Deps, Typed
      <4>2. i <= at
        BY <1>1, <3>1, <4>1, DepsOfMet
      <4> QED  BY <1>3, <2>0, <3>2, <4>2
    <3>3. CASE q # 1
      <4>1. q - 1 \in DOMAIN queue' /\ queue'[q - 1] = m
        BY <1>3, <3>1, <3>3, Dequeued
      <4>2. i > at'
        BY <1>1, <3>1, DepsOfMet
      <4> QED  BY <4>1, <4>2 DEF StillRead
    <3> QED  BY <3>2, <3>3
  <2>5. CASE Finish \/ UNCHANGED vars
    BY <1>3, <2>5 DEF Finish, vars, StillRead
  <2>6. CASE Conflict \/ Unfetchable
    BY <2>6 DEF Conflict, Unfetchable, Going
  <2> QED  BY <2>2, <2>3, <2>4, <2>5, <2>6 DEF Next
<1> QED  BY <1>1, <1>2, <1>3 DEF Accounted, StillRead

(* A met manifest stays what it is.                                        *)
LEMMA StaysMet ==
  ASSUME Typed, MetInQueue, [Next]_vars
  PROVE  /\ DOMAIN manifest \subseteq DOMAIN manifest'
         /\ \A n \in DOMAIN manifest : manifest'[n] = manifest[n]
<1>1. CASE Choose
  <2>1. PICK s \in Source, v \in Pin : Meet(<<s, v>>)
    BY <1>1, Choice
  <2> QED  BY <2>1, Modules, Met
<1>2. CASE manifest' = manifest
  BY <1>2
<1> QED
  BY <1>1, <1>2 DEF Next, Conflict, Keep, Unfetchable, NextManifest, Finish, vars

LEMMA AccountedStep ==
  ASSUME RInv, [Next]_vars, Typed', MetInQueue', Chosen', Kept'
  PROVE  Accounted'
<1> SUFFICES ASSUME Going', NEW m, m \in Selection', NEW i \in DOMAIN manifest'[m].deps,
                    NEW d, d = manifest'[m].deps[i]
             PROVE  Taken(d)' \/ StillRead(m, i)'
  BY DEF Accounted, Taken
<1> USE DEF RInv
<1>1. Going
  BY DEF Next, Conflict, Keep, Unfetchable, Choose, Fresh, Reading, NextManifest, Finish,
         vars, Going
<1>2. CASE m \in Selection
  <2>1. m \in Node /\ m \in DOMAIN manifest
    BY <1>1, <1>2 DEF Selection, Chosen, Typed
  <2>2. manifest'[m] = manifest[m]
    BY <2>1, StaysMet
  <2>3. d \in Dep /\ i \in DOMAIN manifest[m].deps /\ d = manifest[m].deps[i]
    BY <2>1, <2>2, DepsOfMet
  <2>4. Taken(d) \/ StillRead(m, i)
    BY <1>1, <1>2, <2>3 DEF Accounted
  <2> QED  BY <1>2, <2>1, <2>3, <2>4, StillAccounted
<1>3. CASE m \notin Selection
  <2>1. Choose
    BY <1>3 DEF Next, Conflict, Keep, Unfetchable, NextManifest, Finish, vars, Selection, Going
  <2>2. PICK s \in Source, v \in Pin :
          sel' = [sel EXCEPT ![s] = v] /\ queue' = Append(queue, <<s, v>>)
    BY <2>1, Choice
  <2>3. m = <<s, v>>
    BY <1>3, <2>2 DEF Selection, Typed
  <2>4. queue # <<>>
    BY <2>1 DEF Choose, Fresh, Reading
  <2>5. \E q \in DOMAIN queue' : queue'[q] = m /\ q # 1
    BY <2>2, <2>3, <2>4, Modules, Enqueued
  <2> QED  BY <2>5 DEF StillRead
<1> QED  BY <1>2, <1>3

LEMMA EmptiedStep ==
  ASSUME Emptied, [Next]_vars
  PROVE  Emptied'
BY DEF Emptied, Next, Conflict, Keep, Unfetchable, Choose, Fresh, Reading, NextManifest,
       Finish, vars

LEMMA Initially ==
  ASSUME Init
  PROVE  RInv
<1>1. PICK m \in Manifests[Root] : manifest = [n \in {Root} |-> m]
  BY DEF Init
<1>2. m \in Manifest /\ Releases \subseteq [Source -> SUBSET Version]
  BY ResolverAssumption
<1>3. Typed
  <2>1. queue = <<Root>> /\ Root \in Node
    BY DEF Init, Node
  <2>2. reqs \in [Source -> SUBSET Constraint] /\ sel \in [Source -> Pin \cup {NoVersion}]
    BY DEF Init
  <2> QED  BY <1>1, <1>2, <2>1, <2>2 DEF Init, Typed, Node
<1>4. queue = <<Root>> /\ at = 0 /\ Selection = {Root}
  BY DEF Init, Selection
<1>5. \A i \in DOMAIN manifest[Root].deps : StillRead(Root, i)
  <2>1. \A i \in DOMAIN manifest[Root].deps : i \in Nat /\ i >= 1
    BY <1>3, DepsOfMet DEF Typed
  <2>2. 1 \in DOMAIN queue /\ queue[1] = Root
    BY <1>4
  <2> QED  BY <1>4, <2>1, <2>2 DEF StillRead
<1>6. MetInQueue
  BY <1>1, <1>4 DEF MetInQueue
<1>7. Chosen /\ Kept /\ Emptied
  BY DEF Init, Chosen, Kept, Emptied
<1>8. Accounted
  BY <1>4, <1>5 DEF Accounted
<1> QED  BY <1>3, <1>6, <1>7, <1>8 DEF RInv

LEMMA RInvStep ==
  ASSUME RInv, [Next]_vars
  PROVE  RInv'
<1>1. Typed' /\ MetInQueue' /\ Emptied'
  BY TypedStep, EmptiedStep DEF RInv
<1>2. Chosen' /\ Kept'
  BY ChosenStep, KeptStep
<1>3. Accounted'
  BY <1>1, <1>2, AccountedStep
<1> QED  BY <1>1, <1>2, <1>3 DEF RInv

LEMMA Invariant == Spec => []RInv
<1>1. Init => RInv
  BY Initially
<1>2. RInv /\ [Next]_vars => RInv'
  BY RInvStep
<1> QED  BY <1>1, <1>2, PTL DEF Spec

(* What a selected module needs is selected, and there.                    *)
LEMMA NeedsAreMet ==
  ASSUME RInv, status = "done", NEW m \in Selection,
         NEW i \in DOMAIN manifest[m].deps, NEW d, d = manifest[m].deps[i]
  PROVE  /\ d \in Dep /\ d.source \in Source /\ sel[d.source] # NoVersion
         /\ Meets(d.cons, sel[d.source])
         /\ <<d.source, sel[d.source]>> \in fetched
         /\ sel[d.source] \in released[d.source] \cup Commit
<1> USE DEF RInv
<1>1. Going /\ DOMAIN queue = {}
  <2>1. queue = <<>>
    BY DEF Emptied
  <2> QED  BY <2>1 DEF Going
<1>2. m \in DOMAIN manifest
  BY <1>1 DEF Selection, Chosen, Typed
<1>3. Taken(d)
  BY <1>1 DEF Accounted, StillRead
<1>4. d \in Dep /\ d.source \in Source
  BY <1>2, DepsOfMet
<1>5. sel[d.source] # NoVersion /\ Meets(d.cons, sel[d.source])
  BY <1>1, <1>3, <1>4 DEF Kept, Taken
<1>6. <<d.source, sel[d.source]>> \in fetched /\ sel[d.source] \in released[d.source] \cup Commit
  BY <1>1, <1>4, <1>5 DEF Chosen
<1> QED  BY <1>4, <1>5, <1>6

(* A finished selection is closed under what its manifests declare: every  *)
(* dependency is selected, in the cache and within its constraint          *)
(* (resolveGraph's fixpoint), whatever the graph and the order of reading. *)
THEOREM LockIsClosed == Spec => []SelectionIsClosed
<1>1. RInv => SelectionIsClosed
  <2> SUFFICES ASSUME RInv, status = "done", NEW m \in Selection,
                      NEW i \in DOMAIN manifest[m].deps, NEW d, d = manifest[m].deps[i]
               PROVE  /\ <<d.source, sel[d.source]>> \in fetched
                      /\ d.cons \in {AtCommit(sel[d.source])} \/ Admits(d.cons, sel[d.source])
                      /\ sel[d.source] \in released[d.source] \cup Commit
    BY DEF SelectionIsClosed
  <2> QED  BY NeedsAreMet DEF Meets
<1> QED  BY <1>1, Invariant, PTL

-----------------------------------------------------------------------------
(* A constraint comes from a manifest that was met.                        *)
Asked == \A s \in Source : \A c \in reqs[s] :
  \E m \in DOMAIN manifest : \E i \in DOMAIN manifest[m].deps :
    manifest[m].deps[i] = [source |-> s, cons |-> c]

AllFloors == \A m \in DOMAIN manifest : FloorsOnly(m)

LEMMA AskedStep ==
  ASSUME RInv, Asked, [Next]_vars
  PROVE  Asked'
<1> SUFFICES ASSUME NEW s \in Source, NEW c \in reqs'[s]
             PROVE  \E m \in DOMAIN manifest' : \E i \in DOMAIN manifest'[m].deps :
                      manifest'[m].deps[i] = [source |-> s, cons |-> c]
  BY DEF Asked
<1> USE DEF RInv
<1>1. \E m \in DOMAIN manifest : \E i \in DOMAIN manifest[m].deps :
        manifest[m].deps[i] = [source |-> s, cons |-> c]
  <2>1. CASE c \in reqs[s]
    BY <2>1 DEF Asked
  <2>2. CASE c \notin reqs[s]
    <3>1. Reading /\ Note
      BY <2>2
      DEF Next, Conflict, Keep, Unfetchable, Choose, Fresh, NextManifest, Finish, vars
    <3>2. s = Current.source /\ c \in Known
      BY <2>2, <3>1, Noted
    <3>3. c = Current.cons
      BY <2>2, <3>2 DEF Known
    <3>4. Current = [source |-> s, cons |-> c]
      BY <3>1, <3>2, <3>3, WhileReading DEF Dep
    <3> QED  BY <3>1, <3>4, WhileReading
  <2> QED  BY <2>1, <2>2
<1> QED  BY <1>1, StaysMet

(* While every met manifest asks for floors only, every selection is a     *)
(* release.                                                                *)
LEMMA FloorIsSelected ==
  ASSUME RInv, Asked, AllFloors, Reading
  PROVE  Selected \in released[Current.source] /\ Selected # NoVersion
<1> USE DEF RInv
<1>1. PICK s \in Source : s = Current.source
  BY WhileReading
<1>2. ASSUME NEW c \in Known
      PROVE  /\ c.kind = "range" /\ c.hi = MaxVersion
             /\ \E v \in released[s] : v >= c.lo
  <2>1. \E m \in DOMAIN manifest : \E i \in DOMAIN manifest[m].deps :
          manifest[m].deps[i] = [source |-> s, cons |-> c]
    <3>1. CASE c \in reqs[s]
      BY <3>1 DEF Asked
    <3>2. CASE c \notin reqs[s]
      <4>1. Current = [source |-> s, cons |-> c]
        BY <1>1, <1>2, <3>2, WhileReading DEF Known, Dep
      <4> QED  BY <4>1, WhileReading
    <3> QED  BY <3>1, <3>2
  <2> QED  BY <2>1 DEF AllFloors, FloorsOnly
<1>3. released \in [Source -> SUBSET Version]
  BY DEF Typed
<1>4. Selected \in released[s]
  BY <1>1, <1>2, <1>3, WhileReading, FloorsSelect DEF Selected
<1>5. Selected \in Version
  BY <1>3, <1>4
<1> QED  BY <1>1, <1>4, <1>5, ResolverAssumption DEF Pin

LEMMA FloorsStep ==
  ASSUME RInv, Asked, FloorsResolve, [Next]_vars
  PROVE  FloorsResolve'
<1> USE DEF RInv
<1>1. SUFFICES ASSUME AllFloors'  PROVE Going'
  BY DEF FloorsResolve, AllFloors, Going
<1>2. released' = released
  BY DEF Next, Conflict, Keep, Unfetchable, Choose, Fresh, Note, NextManifest, Finish, vars
<1>3. AllFloors
  <2>1. \A m \in DOMAIN manifest : FloorsOnly(m)' => FloorsOnly(m)
    BY <1>2, StaysMet DEF FloorsOnly
  <2> QED  BY <1>1, <2>1, StaysMet DEF AllFloors
<1>4. Going
  BY <1>3 DEF FloorsResolve, AllFloors, Going
<1>5. ~Conflict /\ ~Unfetchable
  BY <1>3, FloorIsSelected DEF Conflict, Unfetchable, CanFetch
<1> QED
  BY <1>4, <1>5
  DEF Next, Keep, Choose, Fresh, Reading, NextManifest, Finish, vars, Going

(* A graph of floors, each with a release above it, has no conflict,       *)
(* whatever order it is read in: E0122 has a ceiling, an exact pin or a    *)
(* commit for its cause (mvsSelect).                                       *)
THEOREM FloorsHaveNoConflict == Spec => []FloorsResolve
<1>1. Init => Asked /\ FloorsResolve
  BY DEF Init, Asked, FloorsResolve
<1>2. RInv /\ Asked /\ FloorsResolve /\ [Next]_vars => Asked' /\ FloorsResolve'
  BY AskedStep, FloorsStep
<1> QED  BY <1>1, <1>2, Invariant, PTL DEF Spec

-----------------------------------------------------------------------------
(* The build, BuildIsWhole.  Before it begins there are no packages, and   *)
(* from then on no resolution and no change of the manifest.               *)
Begun == /\ build # "none" => status # "resolving"
         /\ build = "none" => imports = <<>>

Finished == Visited \ ToSet(stack)

(* The k-th import of p has been followed, to a package that is finished,  *)
(* and ...                                                                 *)
Led(p, k) ==
  LET im == imports[p][k]
  IN  ~IsGo(p, im) /\ ~IsSelf(p, im) => Target(p, im) \in Finished

(* ... what it binds is bound.                                             *)
Owned(p, k) ==
  LET im == imports[p][k]
  IN  /\ IsGo(p, im) => binder = <<p[1], im>>
      /\ BindsFor(p, im) => binder = Target(p, im)[1]

Followed(p, k) == Led(p, k) /\ Owned(p, k)

Stacked ==
  /\ stack \in Seq(Visited) /\ stack # <<>> /\ Main \in Visited /\ stack[1] = Main
  /\ done \in Seq(Nat) /\ Len(done) = Len(stack)
  /\ \A p \in Visited : imports[p] \in Seq(Importable(manifest[p[1]]))
  /\ \A i, j \in DOMAIN stack : stack[i] = stack[j] => i = j

(* A package of the stack has been left by the import it has arrived at.   *)
Opened(i) ==
  /\ done[i] < Len(imports[stack[i]])
  /\ ~IsGo(stack[i], ImportAt(i)) /\ ~IsSelf(stack[i], ImportAt(i))
  /\ Target(stack[i], ImportAt(i)) = stack[i + 1]

Paths ==
  /\ \A i \in DOMAIN stack : done[i] <= Len(imports[stack[i]])
  /\ \A i \in DOMAIN stack : i < Len(stack) => Opened(i)
  /\ \A i \in DOMAIN stack : \A k \in 1 .. done[i] : Followed(stack[i], k)
  /\ \A p \in Finished : \A k \in DOMAIN imports[p] : Followed(p, k)

(* No package of a cycle is ever finished.                                 *)
Acyclic == \A ps \in SUBSET Finished : ps # {} => \E p \in ps : ImportsOf(p) \cap ps = {}

WalkInv == Walking => Stacked /\ Paths /\ Acyclic

BInv == Begun /\ WalkInv /\ BuildIsWhole
-----------------------------------------------------------------------------
(* The stack as a function of 1 .. n.                                      *)
LEMMA Stacks ==
  ASSUME Stacked
  PROVE  \E n \in Nat :
           /\ n = Len(stack) /\ n = Len(done) /\ n >= 1 /\ n \in DOMAIN stack
           /\ DOMAIN stack = 1 .. n /\ DOMAIN done = 1 .. n
           /\ Top = stack[n] /\ Top \in Visited
           /\ \A i \in 1 .. n : stack[i] \in Visited /\ done[i] \in Nat
           /\ ToSet(stack) = {stack[i] : i \in 1 .. n}
<1>1. PICK n \in Nat : n = Len(stack)
  BY DEF Stacked
<1>2. n >= 1 /\ DOMAIN stack = 1 .. n /\ DOMAIN done = 1 .. n /\ n \in DOMAIN stack
  BY <1>1 DEF Stacked
<1>3. \A i \in 1 .. n : stack[i] \in Visited /\ done[i] \in Nat
  BY <1>2 DEF Stacked
<1> QED  BY <1>1, <1>2, <1>3 DEF Stacked, Top, ToSet

LEMMA Lists ==
  ASSUME Stacked, NEW p \in Visited
  PROVE  \E l \in Nat : /\ l = Len(imports[p]) /\ DOMAIN imports[p] = 1 .. l
                        /\ \A k \in 1 .. l : imports[p][k] \in Importable(manifest[p[1]])
<1>1. imports[p] \in Seq(Importable(manifest[p[1]]))
  BY DEF Stacked
<1>2. PICK l \in Nat : l = Len(imports[p]) /\ DOMAIN imports[p] = 1 .. l
  BY <1>1
<1> QED  BY <1>1, <1>2

(* What a package imports.                                                 *)
LEMMA ImportOfPackage ==
  ASSUME NEW p, NEW q, q \in ImportsOf(p)
  PROVE  \E k \in DOMAIN imports[p] : /\ ~IsGo(p, imports[p][k]) /\ ~IsSelf(p, imports[p][k])
                                      /\ q = Target(p, imports[p][k])
BY DEF ImportsOf, ToSet

LEMMA PackageOfImport ==
  ASSUME NEW p, NEW k \in DOMAIN imports[p],
         ~IsGo(p, imports[p][k]), ~IsSelf(p, imports[p][k])
  PROVE  Target(p, imports[p][k]) \in ImportsOf(p)
BY DEF ImportsOf, ToSet

LEMMA FinishedImports ==
  ASSUME Paths, NEW p \in Finished
  PROVE  ImportsOf(p) \subseteq Finished
BY ImportOfPackage DEF Paths, Followed, Led

(* A package all of whose imports are finished is on no cycle with them.   *)
LEMMA OneMore ==
  ASSUME Paths, Acyclic, NEW p, p \notin Finished, ImportsOf(p) \subseteq Finished,
         NEW ps \in SUBSET (Finished \cup {p}), ps # {}
  PROVE  \E q \in ps : ImportsOf(q) \cap ps = {}
<1>1. CASE ps \cap Finished = {}
  <2>1. ps = {p}
    BY <1>1
  <2> QED  BY <2>1
<1>2. CASE ps \cap Finished # {}
  <2>1. PICK q \in ps \cap Finished : ImportsOf(q) \cap (ps \cap Finished) = {}
    BY <1>2 DEF Acyclic
  <2>2. ImportsOf(q) \subseteq Finished
    BY FinishedImports
  <2> QED  BY <2>1, <2>2
<1> QED  BY <1>1, <1>2

(* The operators of the walk depend on the manifests, the lock and the     *)
(* lists of imports.                                                       *)
LEMMA SameImports ==
  ASSUME manifest' = manifest, lock' = lock, NEW p, imports'[p] = imports[p]
  PROVE  /\ \A im : /\ (IsGo(p, im))' = IsGo(p, im) /\ (IsSelf(p, im))' = IsSelf(p, im)
                    /\ (Target(p, im))' = Target(p, im) /\ (BindsFor(p, im))' = BindsFor(p, im)
         /\ (ImportsOf(p))' = ImportsOf(p) /\ (OwnersOf(p))' = OwnersOf(p)
<1>1. \A im : DepOf(p, im)' = DepOf(p, im)
  BY DEF DepOf
<1>2. \A im : /\ (IsGo(p, im))' = IsGo(p, im) /\ (Target(p, im))' = Target(p, im)
  BY <1>1 DEF IsGo, Target, ConcreteVersion
<1>3. \A im : (IsSelf(p, im))' = IsSelf(p, im) /\ (BindsFor(p, im))' = BindsFor(p, im)
  BY <1>2 DEF IsSelf, BindsFor
<1>4. (ImportsOf(p))' = ImportsOf(p)
  BY <1>2, <1>3 DEF ImportsOf
<1>5. (OwnersOf(p))' = OwnersOf(p)
  BY <1>2, <1>3 DEF OwnersOf
<1> QED  BY <1>2, <1>3, <1>4, <1>5
-----------------------------------------------------------------------------
(* The steps of the walk.                                                  *)
Still == UNCHANGED <<manifest, lock, status>>

\* Once the Go module is bound it stays with its owner.
KeepsOwner == binder # Nobody => binder' = binder

LEMMA PairsAreSomebody == \A a, b : <<a, b>> # Nobody
BY DEF Nobody

LEMMA StaysOwned ==
  ASSUME Still, KeepsOwner, NEW p, imports'[p] = imports[p], NEW k, Owned(p, k)
  PROVE  Owned(p, k)'
<1> DEFINE im == imports[p][k]
<1>1. /\ im' = im /\ (IsGo(p, im))' = IsGo(p, im) /\ (BindsFor(p, im))' = BindsFor(p, im)
      /\ (Target(p, im))' = Target(p, im)
  BY SameImports DEF Still
<1>2. CASE IsGo(p, im)
  <2>1. binder = <<p[1], im>> /\ binder # Nobody
    BY <1>2, PairsAreSomebody DEF Owned
  <2>2. ~BindsFor(p, im)
    BY <1>2 DEF BindsFor
  <2> QED  BY <1>1, <1>2, <2>1, <2>2 DEF Owned, KeepsOwner
<1>3. CASE BindsFor(p, im)
  <2>1. ~IsLocal(im) /\ ~IsGo(p, im)
    BY <1>3 DEF BindsFor
  <2>2. Target(p, im)[1] = <<DepOf(p, im).source, ConcreteVersion(DepOf(p, im))>>
    BY <2>1 DEF Target
  <2>3. binder = Target(p, im)[1] /\ binder # Nobody
    BY <1>3, <2>2, PairsAreSomebody DEF Owned
  <2> QED  BY <1>1, <1>3, <2>1, <2>3 DEF Owned, KeepsOwner
<1>4. CASE ~IsGo(p, im) /\ ~BindsFor(p, im)
  BY <1>1, <1>4 DEF Owned
<1> QED  BY <1>2, <1>3, <1>4

LEMMA StaysFollowed ==
  ASSUME Still, KeepsOwner, NEW p, imports'[p] = imports[p], NEW k, Followed(p, k),
         Finished \subseteq Finished'
  PROVE  Followed(p, k)'
<1>1. Owned(p, k)'
  BY StaysOwned DEF Followed
<1>2. Led(p, k)'
  BY SameImports DEF Followed, Led, Still
<1> QED  BY <1>1, <1>2 DEF Followed

(* The package on top moves on by one import, which has been followed.     *)
LEMMA MovesOn ==
  ASSUME Stacked, Paths, Acyclic, Pending, Still, KeepsOwner,
         UNCHANGED <<imports, stack>>, done' = Advance(done),
         NEW p, p = Top, NEW l, l = done[Len(done)] + 1, Followed(p, l)'
  PROVE  (Stacked /\ Paths /\ Acyclic)'
<1>1. PICK n \in Nat :
           /\ n = Len(stack) /\ n = Len(done) /\ n >= 1 /\ n \in DOMAIN stack
           /\ DOMAIN stack = 1 .. n /\ DOMAIN done = 1 .. n
           /\ Top = stack[n] /\ Top \in Visited
           /\ \A i \in 1 .. n : stack[i] \in Visited /\ done[i] \in Nat
  BY Stacks
<1>2. /\ done' \in Seq(Nat) /\ Len(done') = n /\ DOMAIN done' = 1 .. n
      /\ done'[n] = done[n] + 1 /\ \A i \in 1 .. n : i # n => done'[i] = done[i]
  <2>1. done' = [done EXCEPT ![n] = @ + 1]
    BY <1>1 DEF Advance
  <2>2. done \in [1 .. n -> Nat] /\ done' \in [1 .. n -> Nat]
    BY <1>1, <2>1 DEF Stacked
  <2> QED  BY <1>1, <2>1, <2>2
<1>3. Visited' = Visited /\ Finished' = Finished /\ Top' = Top
  BY DEF Visited, Finished, Top
<1>4. Stacked'
  BY <1>1, <1>2, <1>3 DEF Stacked, Still
<1>5. (\A i \in DOMAIN stack : done[i] <= Len(imports[stack[i]]))'
  <2>1. done[n] < Len(imports[Top]) /\ \E m \in Nat : m = Len(imports[Top])
    BY <1>1, Lists DEF Pending
  <2> QED  BY <1>1, <1>2, <2>1 DEF Paths
<1>6. (\A i \in DOMAIN stack : i < Len(stack) => Opened(i))'
  <2> SUFFICES ASSUME NEW i \in DOMAIN stack, i < n  PROVE Opened(i)'
    BY <1>1
  <2>1. Opened(i) /\ done'[i] = done[i]
    BY <1>1, <1>2 DEF Paths
  <2>2. ImportAt(i)' = ImportAt(i)
    BY <2>1 DEF ImportAt
  <2> QED  BY <2>1, <2>2, SameImports DEF Opened, Still
<1>7. (\A i \in DOMAIN stack : \A k \in 1 .. done[i] : Followed(stack[i], k))'
  <2> SUFFICES ASSUME NEW i \in 1 .. n, NEW k \in 1 .. done'[i]  PROVE Followed(stack[i], k)'
    BY <1>1
  <2>1. CASE k \in 1 .. done[i]
    BY <1>1, <1>3, <2>1, StaysFollowed DEF Paths
  <2>2. CASE k \notin 1 .. done[i]
    <3>1. i = n /\ k = l /\ stack[i] = p
      BY <1>1, <1>2, <2>2
    <3> QED  BY <1>1, <3>1
  <2> QED  BY <2>1, <2>2
<1>8. (\A q \in Finished : \A k \in DOMAIN imports[q] : Followed(q, k))'
  BY <1>3, StaysFollowed DEF Paths
<1>9. Acyclic'
  BY <1>3, SameImports DEF Acyclic, Still
<1> QED  BY <1>4, <1>5, <1>6, <1>7, <1>8, <1>9 DEF Paths

(* A package is met.                                                       *)
LEMMA Entered ==
  ASSUME NEW q, q \notin Visited, Enter(q)
  PROVE  /\ Visited' = Visited \cup {q}
         /\ \A p \in Visited : imports'[p] = imports[p]
         /\ imports'[q] \in Seq(Importable(manifest[q[1]]))
<1>1. PICK list \in Imports(q, manifest[q[1]]) \cap Seq(Importable(manifest[q[1]])) :
        imports' = [p \in DOMAIN imports \cup {q} |-> IF p = q THEN list ELSE imports[p]]
  BY DEF Enter
<1> QED  BY <1>1 DEF Visited

LEMMA GoesDown ==
  ASSUME Stacked, Paths, Acyclic, ImportNew
  PROVE  (Stacked /\ Paths /\ Acyclic)'
<1> DEFINE q == Target(Top, Import)
<1>1. PICK n \in Nat :
           /\ n = Len(stack) /\ n = Len(done) /\ n >= 1 /\ n \in DOMAIN stack
           /\ DOMAIN stack = 1 .. n /\ DOMAIN done = 1 .. n
           /\ Top = stack[n] /\ Top \in Visited
           /\ \A i \in 1 .. n : stack[i] \in Visited /\ done[i] \in Nat
           /\ ToSet(stack) = {stack[i] : i \in 1 .. n}
  BY Stacks
<1>2. /\ q \notin Visited /\ Enter(q) /\ stack' = Append(stack, q) /\ done' = Append(done, 0)
      /\ Still /\ KeepsOwner /\ Pending /\ ~IsGo(Top, Import) /\ ~IsSelf(Top, Import)
  BY DEF ImportNew, Visiting, Visited, vars, lifeVars, Still, KeepsOwner
<1> HIDE DEF q
<1>3. /\ Visited' = Visited \cup {q}
      /\ \A p \in Visited : imports'[p] = imports[p]
      /\ imports'[q] \in Seq(Importable(manifest[q[1]]))
  BY <1>2, Entered
<1>4. /\ stack' \in Seq(Visited') /\ Len(stack') = n + 1 /\ DOMAIN stack' = 1 .. (n + 1)
      /\ stack'[n + 1] = q /\ \A i \in 1 .. n : stack'[i] = stack[i]
  <2>1. stack \in Seq(Visited') /\ q \in Visited'
    BY <1>3 DEF Stacked
  <2> HIDE DEF Visited
  <2> QED  BY <1>1, <1>2, <2>1
<1>5. /\ done' \in Seq(Nat) /\ Len(done') = n + 1 /\ DOMAIN done' = 1 .. (n + 1)
      /\ done'[n + 1] = 0 /\ \A i \in 1 .. n : done'[i] = done[i]
  BY <1>1, <1>2 DEF Stacked
<1>6. Finished' = Finished
  <2>1. ToSet(stack') = {stack'[i] : i \in 1 .. (n + 1)}
    BY <1>4 DEF ToSet
  <2>2. ToSet(stack') = ToSet(stack) \cup {q}
    BY <1>1, <1>4, <2>1
  <2> QED  BY <1>2, <1>3, <2>2 DEF Finished
<1>7. Stacked'
  <2>1. (\A p \in Visited : imports[p] \in Seq(Importable(manifest[p[1]])))'
    BY <1>2, <1>3 DEF Stacked, Still, Importable
  <2>2. (\A i, j \in DOMAIN stack : stack[i] = stack[j] => i = j)'
    BY <1>1, <1>2, <1>4 DEF Stacked
  <2>3. (stack # <<>> /\ Main \in Visited /\ stack[1] = Main)'
    BY <1>1, <1>3, <1>4 DEF Stacked
  <2> QED  BY <1>4, <1>5, <2>1, <2>2, <2>3 DEF Stacked
<1>8. (\A i \in DOMAIN stack : done[i] <= Len(imports[stack[i]]))'
  <2>1. \E l \in Nat : l = Len(imports'[q])
    BY <1>3
  <2>2. \A i \in 1 .. n : done'[i] <= Len(imports'[stack'[i]])
    BY <1>1, <1>3, <1>4, <1>5 DEF Paths
  <2> QED  BY <1>4, <1>5, <2>1, <2>2
<1>9. (\A i \in DOMAIN stack : i < Len(stack) => Opened(i))'
  <2> SUFFICES ASSUME NEW i \in 1 .. n  PROVE Opened(i)'
    BY <1>4
  <2>1. i \in 1 .. (n + 1) /\ i + 1 \in 1 .. (n + 1)
    BY <1>1
  <2>2. /\ stack'[i] = stack[i] /\ stack[i] \in Visited /\ done'[i] = done[i]
        /\ imports'[stack[i]] = imports[stack[i]] /\ ImportAt(i)' = ImportAt(i)
    BY <1>1, <1>3, <1>4, <1>5 DEF ImportAt
  <2>3. CASE i = n
    <3>1. ImportAt(i) = Import /\ done[i] < Len(imports[stack[i]]) /\ q = Target(Top, Import)
      BY <1>1, <1>2, <2>3 DEF Import, Pending, q
    <3> QED  BY <1>1, <1>2, <1>4, <2>2, <2>3, <3>1, SameImports DEF Opened, Still
  <2>4. CASE i # n
    <3>1. Opened(i) /\ stack'[i + 1] = stack[i + 1]
      BY <1>1, <1>4, <2>4 DEF Paths
    <3> QED  BY <1>2, <2>2, <3>1, SameImports DEF Opened, Still
  <2> QED  BY <2>3, <2>4
<1>10. (\A i \in DOMAIN stack : \A k \in 1 .. done[i] : Followed(stack[i], k))'
  <2> SUFFICES ASSUME NEW i \in 1 .. (n + 1), NEW k \in 1 .. done'[i], NEW p, p = stack'[i]
               PROVE  Followed(p, k)'
    BY <1>4
  <2>1. i \in 1 .. n
    BY <1>1, <1>5
  <2>2. p = stack[i] /\ p \in Visited /\ Followed(p, k)
    BY <1>1, <1>4, <1>5, <2>1 DEF Paths
  <2> QED  BY <1>2, <1>3, <1>6, <2>2, StaysFollowed
<1>11. (\A p \in Finished : \A k \in DOMAIN imports[p] : Followed(p, k))'
  BY <1>2, <1>3, <1>6, StaysFollowed DEF Paths, Finished
<1>12. Acyclic'
  <2>1. \A p \in Finished : ImportsOf(p)' = ImportsOf(p)
    BY <1>2, <1>3, SameImports DEF Still, Finished
  <2> QED  BY <1>6, <2>1 DEF Acyclic
<1> QED  BY <1>7, <1>8, <1>9, <1>10, <1>11, <1>12 DEF Paths

(* The package on top is finished, and the import that led to it followed. *)
LEMMA GoesUp ==
  ASSUME Stacked, Paths, Acyclic, Walking, ~Pending, Len(stack) # 1,
         stack' = Front(stack), done' = Advance(Front(done)), imports' = imports,
         Still, KeepsOwner,
         NEW r, r = stack[Len(stack) - 1], NEW l, l = done[Len(stack) - 1] + 1, Owned(r, l)'
  PROVE  (Stacked /\ Paths /\ Acyclic)'
<1>1. PICK n \in Nat :
           /\ n = Len(stack) /\ n = Len(done) /\ n >= 1 /\ n \in DOMAIN stack
           /\ DOMAIN stack = 1 .. n /\ DOMAIN done = 1 .. n
           /\ Top = stack[n] /\ Top \in Visited
           /\ \A i \in 1 .. n : stack[i] \in Visited /\ done[i] \in Nat
           /\ ToSet(stack) = {stack[i] : i \in 1 .. n}
  BY Stacks
<1>2. PICK m \in Nat : m = n - 1 /\ m >= 1 /\ m + 1 = n
  BY <1>1
<1>0. 1 .. n = (1 .. m) \cup {n} /\ n \notin 1 .. m /\ m \in 1 .. m
  BY <1>2
<1>3. /\ stack' \in Seq(Visited) /\ Len(stack') = m /\ DOMAIN stack' = 1 .. m
      /\ \A i \in 1 .. m : stack'[i] = stack[i]
  <2>1. stack \in Seq(Visited) /\ stack' = SubSeq(stack, 1, m)
    BY <1>1, <1>2 DEF Stacked, Front
  <2> HIDE DEF Visited
  <2> QED  BY <1>1, <1>2, <2>1, SubSeqProperties
<1>4. /\ done' \in Seq(Nat) /\ Len(done') = m /\ DOMAIN done' = 1 .. m
      /\ done'[m] = l /\ \A i \in 1 .. m : i # m => done'[i] = done[i]
  <2> DEFINE f == Front(done)
  <2>1. done \in Seq(Nat) /\ f = SubSeq(done, 1, m)
    BY <1>1, <1>2 DEF Stacked, Front
  <2>2. /\ f \in Seq(Nat) /\ Len(f) = m /\ \A i \in 1 .. m : f[i] = done[i]
    BY <1>1, <1>2, <2>1, SubSeqProperties
  <2>3. done' = [f EXCEPT ![m] = @ + 1]
    BY <2>2 DEF Advance
  <2> HIDE DEF f
  <2>4. /\ done' \in [1 .. m -> Nat] /\ done'[m] = done[m] + 1
        /\ \A i \in 1 .. m : i # m => done'[i] = done[i]
    BY <1>0, <2>2, <2>3
  <2>5. done' \in Seq(Nat) /\ Len(done') = m /\ DOMAIN done' = 1 .. m
    BY <1>2, <2>4
  <2>6. done'[m] = l
    BY <1>1, <1>2, <2>4
  <2> QED  BY <2>4, <2>5, <2>6
<1>5. Visited' = Visited
  BY DEF Visited
<1>6. ToSet(stack') = {stack[i] : i \in 1 .. m}
  BY <1>3 DEF ToSet
<1>7. Top \notin Finished /\ Finished' = Finished \cup {Top}
  <2>1. Top \notin ToSet(stack')
    <3>1. \A i \in 1 .. m : stack[i] # stack[n]
      BY <1>0, <1>1 DEF Stacked
    <3> QED  BY <1>1, <1>6, <3>1
  <2>2. ToSet(stack) = ToSet(stack') \cup {Top}
    BY <1>0, <1>1, <1>6
  <2> QED  BY <1>1, <1>5, <2>1, <2>2 DEF Finished
<1>8. \A k \in DOMAIN imports[Top] : Followed(Top, k)
  <2>1. PICK len \in Nat : len = Len(imports[Top]) /\ DOMAIN imports[Top] = 1 .. len
    BY <1>1, Lists
  <2>2. done[n] \in Nat /\ done[n] >= len
    BY <1>1, <2>1 DEF Pending
  <2> QED  BY <1>1, <2>1, <2>2 DEF Paths
<1>9. ImportsOf(Top) \subseteq Finished
  BY <1>8, ImportOfPackage DEF Followed, Led
<1>10. Opened(m) /\ r = stack[m] /\ l = done[m] + 1 /\ imports[r][l] = ImportAt(m)
  BY <1>1, <1>2 DEF Paths, ImportAt
<1>11. Followed(r, l)'
  <2>1. Target(r, imports[r][l])' = Top
    BY <1>1, <1>2, <1>10, SameImports DEF Opened, Still
  <2>2. Led(r, l)'
    BY <1>7, <2>1 DEF Led
  <2> QED  BY <2>2 DEF Followed
<1>12. Stacked'
  <2>1. (stack # <<>> /\ Main \in Visited /\ stack[1] = Main)'
    BY <1>2, <1>3, <1>5 DEF Stacked
  <2>2. (\A i, j \in DOMAIN stack : stack[i] = stack[j] => i = j)'
    BY <1>0, <1>1, <1>3 DEF Stacked
  <2> QED  BY <1>3, <1>4, <1>5, <2>1, <2>2 DEF Stacked, Still
<1>13. (\A i \in DOMAIN stack : done[i] <= Len(imports[stack[i]]))'
  <2>1. done'[m] <= Len(imports[r])
    <3>1. PICK len \in Nat : len = Len(imports[r])
      BY <1>1, <1>2, <1>10, Lists
    <3>2. done[m] \in Nat /\ done[m] < len
      BY <1>1, <1>2, <1>10, <3>1 DEF Opened
    <3> QED  BY <1>4, <1>10, <3>1, <3>2
  <2>2. \A i \in 1 .. m : i # m => done'[i] <= Len(imports[stack[i]])
    BY <1>0, <1>1, <1>4 DEF Paths
  <2> QED  BY <1>3, <1>10, <2>1, <2>2
<1>14. (\A i \in DOMAIN stack : i < Len(stack) => Opened(i))'
  <2> SUFFICES ASSUME NEW i \in 1 .. m, i < m  PROVE Opened(i)'
    BY <1>3
  <2>1. i \in 1 .. n /\ i < n /\ i # m /\ i + 1 \in 1 .. m
    BY <1>2
  <2>2. /\ stack'[i] = stack[i] /\ stack'[i + 1] = stack[i + 1] /\ done'[i] = done[i]
        /\ ImportAt(i)' = ImportAt(i) /\ Opened(i)
    BY <1>1, <1>3, <1>4, <2>1 DEF ImportAt, Paths
  <2> QED  BY <2>2, SameImports DEF Opened, Still
<1>15. (\A i \in DOMAIN stack : \A k \in 1 .. done[i] : Followed(stack[i], k))'
  <2> SUFFICES ASSUME NEW i \in 1 .. m, NEW k \in 1 .. done'[i], NEW p, p = stack'[i]
               PROVE  Followed(p, k)'
    BY <1>3
  <2>1. i \in 1 .. n /\ p = stack[i] /\ i \in Nat /\ done[m] \in Nat
    BY <1>0, <1>1, <1>3
  <2>2. CASE k \in 1 .. done[i]
    BY <1>1, <1>7, <2>1, <2>2, StaysFollowed DEF Paths
  <2>3. CASE k \notin 1 .. done[i]
    <3>1. i = m /\ k = l
      BY <1>1, <1>2, <1>4, <1>10, <2>1, <2>3
    <3> QED  BY <1>10, <1>11, <2>1, <3>1
  <2> QED  BY <2>2, <2>3
<1>16. (\A p \in Finished : \A k \in DOMAIN imports[p] : Followed(p, k))'
  BY <1>7, <1>8, StaysFollowed DEF Paths
<1>17. Acyclic'
  <2>1. \A p : ImportsOf(p)' = ImportsOf(p)
    BY SameImports DEF Still
  <2>2. \A ps \in SUBSET (Finished \cup {Top}) : ps # {} => \E p \in ps : ImportsOf(p) \cap ps = {}
    BY <1>7, <1>9, OneMore
  <2> QED  BY <1>7, <2>1, <2>2 DEF Acyclic
<1> QED  BY <1>12, <1>13, <1>14, <1>15, <1>16, <1>17 DEF Paths

(* What an import binds is its owner's, unless the build ends.             *)
LEMMA BoundOnce ==
  ASSUME Still, NEW p, imports'[p] = imports[p], NEW k, ~IsGo(p, imports[p][k]),
         Bind(Target(p, imports[p][k]), imports[p][k]), build' = "walking"
  PROVE  KeepsOwner /\ Owned(p, k)'
<1> DEFINE im == imports[p][k]
<1>1. /\ im' = im /\ ~(IsGo(p, im))' /\ (BindsFor(p, im))' = BindsFor(p, im)
      /\ (Target(p, im))' = Target(p, im)
  BY SameImports DEF Still
<1>2. CASE BindsFor(p, im)
  <2>1. Binds(Target(p, im)[1])
    BY <1>2 DEF BindsFor, Bind
  <2>2. binder' = Target(p, im)[1] /\ KeepsOwner
    BY <2>1 DEF Binds, KeepsOwner
  <2> QED  BY <1>1, <2>2 DEF Owned
<1>3. CASE ~BindsFor(p, im)
  <2>1. binder' = binder
    BY <1>3 DEF BindsFor, Bind
  <2> QED  BY <1>1, <1>3, <2>1 DEF Owned, KeepsOwner
<1> QED  BY <1>2, <1>3

(* The import at which the walk has arrived.                               *)
LEMMA Arrived ==
  ASSUME Stacked, Pending
  PROVE  \E k \in DOMAIN imports[Top] : /\ k = done[Len(done)] + 1 /\ imports[Top][k] = Import
                                        /\ Top \in Visited
<1>1. PICK n \in Nat :
           /\ n = Len(stack) /\ n = Len(done) /\ n >= 1 /\ n \in DOMAIN stack
           /\ Top = stack[n] /\ Top \in Visited /\ \A i \in 1 .. n : done[i] \in Nat
  BY Stacks
<1>2. PICK l \in Nat : l = Len(imports[Top]) /\ DOMAIN imports[Top] = 1 .. l
  BY <1>1, Lists
<1>3. done[n] \in Nat /\ done[n] < l
  BY <1>1, <1>2 DEF Pending
<1> QED  BY <1>1, <1>2, <1>3 DEF Import, ImportAt

LEMMA WalkGoes ==
  ASSUME Stacked, Paths, Acyclic, Walking, Walk, Walking'
  PROVE  (Stacked /\ Paths /\ Acyclic)'
<1>1. Still
  BY DEF Walk, ImportGo, ImportSelf, ImportMissing, ImportCyclic, ImportNew, ImportSeen, Leave,
         vars, lifeVars, Still
<1>2. CASE ImportGo
  <2>1. /\ Pending /\ IsGo(Top, Import) /\ Binds(<<Top[1], Import>>)
        /\ done' = Advance(done) /\ UNCHANGED <<imports, stack>>
    BY <1>2 DEF ImportGo, Fail, Walking
  <2>2. PICK k \in DOMAIN imports[Top] : k = done[Len(done)] + 1 /\ imports[Top][k] = Import
    BY <2>1, Arrived
  <2>3. PICK p : p = Top
    OBVIOUS
  <2>4. binder' = <<p[1], Import>> /\ KeepsOwner
    BY <2>1, <2>3 DEF Binds, KeepsOwner, Walking
  <2>5. /\ imports'[p] = imports[p] /\ imports[p][k] = Import /\ IsGo(p, Import)
        /\ (IsGo(p, imports[p][k]))' = IsGo(p, Import)
    BY <1>1, <2>1, <2>2, <2>3, SameImports DEF Still
  <2>6. Followed(p, k)'
    BY <2>4, <2>5 DEF Followed, Led, Owned, BindsFor
  <2> QED  BY <1>1, <2>1, <2>2, <2>3, <2>4, <2>6, MovesOn
<1>3. CASE ImportSelf
  <2>1. /\ Pending /\ IsSelf(Top, Import) /\ done' = Advance(done)
        /\ UNCHANGED <<imports, stack, binder>>
    BY <1>3 DEF ImportSelf
  <2>2. PICK k \in DOMAIN imports[Top] : k = done[Len(done)] + 1 /\ imports[Top][k] = Import
    BY <2>1, Arrived
  <2>3. PICK p : p = Top
    OBVIOUS
  <2>4. /\ imports'[p] = imports[p] /\ imports[p][k] = Import
        /\ (IsSelf(p, imports[p][k]))' = IsSelf(p, Import)
    BY <1>1, <2>1, <2>2, <2>3, SameImports DEF Still
  <2>5. Followed(p, k)'
    BY <2>1, <2>3, <2>4 DEF Followed, Led, Owned, BindsFor, IsSelf, IsGo
  <2> QED  BY <1>1, <2>1, <2>2, <2>3, <2>5, MovesOn DEF KeepsOwner
<1>4. CASE ImportMissing \/ ImportCyclic
  BY <1>4 DEF ImportMissing, ImportCyclic, Fail, Walking
<1>5. CASE ImportNew
  BY <1>5, GoesDown
<1>6. CASE ImportSeen
  <2>1. /\ Pending /\ ~IsGo(Top, Import) /\ Target(Top, Import) \in Finished
        /\ Bind(Target(Top, Import), Import)
        /\ done' = Advance(done) /\ UNCHANGED <<imports, stack>>
    BY <1>6 DEF ImportSeen, Visiting, Visited, Finished
  <2>2. PICK k \in DOMAIN imports[Top] : k = done[Len(done)] + 1 /\ imports[Top][k] = Import
    BY <2>1, Arrived
  <2>3. PICK p : p = Top
    OBVIOUS
  <2>4. KeepsOwner /\ Owned(p, k)'
    BY <1>1, <2>1, <2>2, <2>3, BoundOnce DEF Walking
  <2>5. imports'[p] = imports[p] /\ (Target(p, imports[p][k]))' = Target(p, Import)
    BY <1>1, <2>1, <2>2, <2>3, SameImports DEF Still
  <2>6. Finished' = Finished
    BY <2>1 DEF Finished, Visited
  <2>7. Followed(p, k)'
    BY <2>1, <2>3, <2>4, <2>5, <2>6 DEF Followed, Led
  <2> QED  BY <1>1, <2>1, <2>2, <2>3, <2>4, <2>7, MovesOn
<1>7. CASE Leave
  <2>1. /\ ~Pending /\ Len(stack) # 1 /\ stack' = Front(stack) /\ done' = Advance(Front(done))
        /\ Bind(Top, ImportAt(Len(stack) - 1)) /\ imports' = imports
    BY <1>7 DEF Leave, Walking
  <2>2. PICK n \in Nat :
           /\ n = Len(stack) /\ n = Len(done) /\ n >= 1 /\ DOMAIN stack = 1 .. n
           /\ Top = stack[n] /\ \A i \in 1 .. n : done[i] \in Nat
    BY Stacks
  <2>3. n - 1 \in DOMAIN stack /\ n - 1 < n /\ (n - 1) + 1 = n
    BY <2>1, <2>2
  <2>4. PICK r, l : r = stack[n - 1] /\ l = done[n - 1] + 1
    OBVIOUS
  <2>5. Opened(n - 1)
    BY <2>2, <2>3 DEF Paths
  <2>6. ImportAt(n - 1) = imports[r][l] /\ ~IsGo(r, imports[r][l]) /\ Top = Target(r, imports[r][l])
    BY <2>2, <2>3, <2>4, <2>5 DEF Opened, ImportAt
  <2>7. KeepsOwner /\ Owned(r, l)'
    BY <1>1, <2>1, <2>2, <2>6, BoundOnce DEF Walking
  <2> QED  BY <1>1, <2>1, <2>2, <2>4, <2>7, GoesUp
<1> QED  BY <1>2, <1>3, <1>4, <1>5, <1>6, <1>7 DEF Walk

(* The main package is left last: then all are finished.                   *)
LEMMA AllFinished ==
  ASSUME Stacked, Paths, Acyclic, Walking, ~Pending, Len(stack) = 1
  PROVE  /\ \A p \in Visited : ImportsOf(p) \subseteq Visited
         /\ ~HasCycle
         /\ Cardinality(Owners) <= 1
<1>1. Top = Main /\ ToSet(stack) = {Main} /\ Main \in Visited /\ 1 \in DOMAIN stack /\ Len(done) = 1
  BY Stacks DEF Stacked, Top
<1>2. Main \notin Finished /\ Visited = Finished \cup {Main}
  BY <1>1 DEF Finished
<1>3. \A p \in Visited : \A k \in DOMAIN imports[p] : Followed(p, k)
  <2>1. PICK len \in Nat : len = Len(imports[Main]) /\ DOMAIN imports[Main] = 1 .. len
    BY <1>1, Lists
  <2>2. done[1] \in Nat /\ done[1] >= len /\ stack[1] = Main
    BY <1>1, <2>1, Stacks DEF Pending, Stacked
  <2>3. \A k \in DOMAIN imports[Main] : Followed(Main, k)
    BY <1>1, <2>1, <2>2 DEF Paths
  <2> QED  BY <1>2, <2>3 DEF Paths
<1>4. \A p \in Visited : ImportsOf(p) \subseteq Finished
  BY <1>3, ImportOfPackage DEF Followed, Led
<1>5. ~HasCycle
  <2>1. \A ps \in SUBSET (Finished \cup {Main}) : ps # {} => \E p \in ps : ImportsOf(p) \cap ps = {}
    BY <1>1, <1>2, <1>4, OneMore
  <2> QED  BY <1>2, <2>1 DEF HasCycle
<1>6. Owners \subseteq {binder}
  <2> SUFFICES ASSUME NEW p \in Visited, NEW o \in OwnersOf(p)  PROVE o = binder
    BY DEF Owners
  <2>1. PICK k \in DOMAIN imports[p] :
          \/ IsGo(p, imports[p][k]) /\ o = <<p[1], imports[p][k]>>
          \/ BindsFor(p, imports[p][k]) /\ o = Target(p, imports[p][k])[1]
    BY DEF OwnersOf, ToSet
  <2> QED  BY <1>3, <2>1 DEF Followed, Owned
<1>7. Cardinality(Owners) <= 1
  <2>1. Cardinality({binder}) = 1 /\ IsFiniteSet({binder})
    BY FS_Singleton
  <2> QED  BY <1>6, <2>1, FS_Subset
<1> QED  BY <1>2, <1>4, <1>5, <1>7

(* A package of the stack imports the next one, the last one the package   *)
(* that is met again.                                                      *)
LEMMA CycleFound ==
  ASSUME Stacked, Paths, ImportCyclic
  PROVE  HasCycle
<1>1. PICK n \in Nat :
           /\ n = Len(stack) /\ n = Len(done) /\ n >= 1 /\ n \in DOMAIN stack
           /\ DOMAIN stack = 1 .. n /\ DOMAIN done = 1 .. n
           /\ Top = stack[n] /\ Top \in Visited
           /\ \A i \in 1 .. n : stack[i] \in Visited /\ done[i] \in Nat
           /\ ToSet(stack) = {stack[i] : i \in 1 .. n}
  BY Stacks
<1>2. Pending /\ ~IsGo(Top, Import) /\ ~IsSelf(Top, Import) /\ Target(Top, Import) \in ToSet(stack)
  BY DEF ImportCyclic, Visiting
<1>3. PICK j \in 1 .. n : Target(Top, Import) = stack[j]
  BY <1>1, <1>2
<1> DEFINE ps == {stack[i] : i \in j .. n}
<1>4. ps \in SUBSET Visited /\ ps # {}
  BY <1>1
<1>5. ASSUME NEW i \in j .. n  PROVE ImportsOf(stack[i]) \cap ps # {}
  <2>1. i \in 1 .. n /\ j \in j .. n
    OBVIOUS
  <2>2. CASE i = n
    <3>1. PICK k \in DOMAIN imports[Top] : imports[Top][k] = Import
      BY <1>2, Arrived
    <3>2. stack[j] \in ImportsOf(Top)
      BY <1>2, <1>3, <3>1, PackageOfImport
    <3> QED  BY <1>1, <2>1, <2>2, <3>2
  <2>3. CASE i # n
    <3>1. Opened(i) /\ i + 1 \in j .. n
      BY <1>1, <2>1, <2>3 DEF Paths
    <3>2. done[i] + 1 \in DOMAIN imports[stack[i]]
      <4>1. PICK len \in Nat : len = Len(imports[stack[i]]) /\ DOMAIN imports[stack[i]] = 1 .. len
        BY <1>1, <2>1, Lists
      <4> QED  BY <1>1, <2>1, <3>1, <4>1 DEF Opened
    <3>3. stack[i + 1] \in ImportsOf(stack[i])
      BY <3>1, <3>2, PackageOfImport DEF Opened, ImportAt
    <3> QED  BY <3>1, <3>3
  <2> QED  BY <2>2, <2>3
<1>6. \A p \in ps : ImportsOf(p) \cap ps # {}
  BY <1>5
<1> HIDE DEF ps
<1> QED  BY <1>4, <1>6 DEF HasCycle

(* What has been found of the build stays so.                              *)
LEMMA StaysWhole ==
  ASSUME Still, UNCHANGED <<imports, build>>, BuildIsWhole
  PROVE  BuildIsWhole'
<1>1. \A p : ImportsOf(p)' = ImportsOf(p) /\ OwnersOf(p)' = OwnersOf(p)
  BY SameImports DEF Still
<1>2. Visited' = Visited
  BY DEF Visited
<1>3. HasCycle' = HasCycle /\ Owners' = Owners
  BY <1>1, <1>2 DEF HasCycle, Owners
<1> QED  BY <1>1, <1>2, <1>3 DEF BuildIsWhole

LEMMA StartsWalk ==
  ASSUME Begun, StartBuild
  PROVE  (Stacked /\ Paths /\ Acyclic)'
<1>1. Visited = {} /\ Enter(Main) /\ stack' = <<Main>> /\ done' = <<0>> /\ Still
  BY DEF Begun, StartBuild, Visited, vars, lifeVars, Still
<1>2. Visited' = {Main} /\ imports'[Main] \in Seq(Importable(manifest[Main[1]]))
  BY <1>1, Entered
<1>3. /\ DOMAIN stack' = {1} /\ stack'[1] = Main /\ Len(stack') = 1
      /\ done'[1] = 0 /\ Len(done') = 1 /\ done' \in Seq(Nat)
  BY <1>1
<1>4. Finished' = {}
  BY <1>2, <1>3 DEF Finished, ToSet
<1>5. Stacked'
  <2>1. stack' \in Seq(Visited')
    BY <1>1, <1>2
  <2>2. (\A p \in Visited : imports[p] \in Seq(Importable(manifest[p[1]])))'
    BY <1>1, <1>2 DEF Still, Importable
  <2>3. (stack # <<>>)' /\ \A i, j \in DOMAIN stack' : i = j
    BY <1>1, <1>3
  <2> QED  BY <1>2, <1>3, <2>1, <2>2, <2>3 DEF Stacked
<1>6. Paths'
  <2>1. (\A i \in DOMAIN stack : done[i] <= Len(imports[stack[i]]))'
    BY <1>2, <1>3
  <2> QED  BY <1>3, <1>4, <2>1 DEF Paths
<1>7. Acyclic'
  BY <1>4 DEF Acyclic
<1> QED  BY <1>5, <1>6, <1>7

(* A resolution, and a change of the manifest, leave the build alone; when *)
(* there is one, they do not happen.                                       *)
LEMMA Prepares ==
  ASSUME Begun, Get \/ Upgrade \/ GetAgain \/ UpgradeFails \/ Edit
  PROVE  build = "none" /\ UNCHANGED buildVars
<1>1. CASE Get
  BY <1>1 DEF Get, Next, Conflict, Keep, Unfetchable, Choose, Fresh, Reading, NextManifest, Finish, Begun
<1>2. CASE Upgrade \/ GetAgain \/ UpgradeFails \/ Edit
  BY <1>2 DEF Upgrade, GetAgain, UpgradeFails, Edit, CanChange, Resolve
<1> QED  BY <1>1, <1>2

LEMMA BuildStep ==
  ASSUME BInv, [NextProject]_allVars
  PROVE  BInv'
<1>1. CASE Get \/ Upgrade \/ GetAgain \/ UpgradeFails \/ Edit
  <2>1. build = "none" /\ UNCHANGED buildVars
    BY <1>1, Prepares DEF BInv
  <2> QED  BY <2>1 DEF BInv, Begun, WalkInv, Walking, BuildIsWhole, buildVars
<1>2. CASE StartBuild
  <2>1. (Stacked /\ Paths /\ Acyclic)'
    BY <1>2, StartsWalk DEF BInv
  <2> QED  BY <1>2, <2>1 DEF StartBuild, vars, BInv, Begun, WalkInv, BuildIsWhole
<1>3. CASE Walk
  <2>1. Walking /\ Still /\ Stacked /\ Paths /\ Acyclic
    BY <1>3 DEF Walk, ImportGo, ImportSelf, ImportMissing, ImportCyclic, ImportNew, ImportSeen,
       Leave, Visiting, Pending, BInv, WalkInv, vars, lifeVars, Still
  <2>2. Begun'
    <3>1. build' # "none"
      BY <1>3, <2>1 DEF Walk, ImportGo, ImportSelf, ImportMissing, ImportCyclic, ImportNew,
         ImportSeen, Leave, Binds, Bind, Fail, Walking
    <3> QED  BY <2>1, <3>1 DEF BInv, Begun, Walking, Still
  <2>3. WalkInv'
    BY <1>3, <2>1, WalkGoes DEF WalkInv
  <2>4. BuildIsWhole'
    <3>1. CASE ImportCyclic
      <4>1. HasCycle /\ build' = "E0116" /\ imports' = imports
        BY <2>1, <3>1, CycleFound DEF ImportCyclic, Fail
      <4>2. \A p : ImportsOf(p)' = ImportsOf(p)
        BY <2>1, <4>1, SameImports DEF Still
      <4>3. HasCycle'
        BY <4>1, <4>2 DEF HasCycle, Visited
      <4> QED  BY <4>1, <4>3 DEF BuildIsWhole
    <3>2. CASE Leave /\ Len(stack) = 1
      <4>1. ~Pending /\ build' = "built" /\ imports' = imports
        BY <3>2 DEF Leave
      <4>2. /\ \A p \in Visited : ImportsOf(p) \subseteq Visited
            /\ ~HasCycle
            /\ Cardinality(Owners) <= 1
        BY <2>1, <3>2, <4>1, AllFinished
      <4>3. \A p : ImportsOf(p)' = ImportsOf(p) /\ OwnersOf(p)' = OwnersOf(p)
        BY <2>1, <4>1, SameImports DEF Still
      <4>4. Visited' = Visited /\ HasCycle' = HasCycle /\ Owners' = Owners
        BY <4>1, <4>3 DEF HasCycle, Visited, Owners
      <4> QED  BY <4>1, <4>2, <4>3, <4>4 DEF BuildIsWhole
    <3>3. CASE ~ImportCyclic /\ ~(Leave /\ Len(stack) = 1)
      <4>1. build' \notin {"built", "E0116"}
        BY <1>3, <2>1, <3>3 DEF Walk, ImportGo, ImportSelf, ImportMissing, ImportNew,
           ImportSeen, Leave, Binds, Bind, Fail, Walking
      <4> QED  BY <4>1 DEF BuildIsWhole
    <3> QED  BY <3>1, <3>2, <3>3
  <2> QED  BY <2>2, <2>3, <2>4 DEF BInv
<1>4. CASE UNCHANGED allVars
  <2>1. Still /\ UNCHANGED buildVars
    BY <1>4 DEF allVars, vars, lifeVars, Still
  <2>2. BuildIsWhole'
    BY <2>1, StaysWhole DEF buildVars, BInv
  <2>3. ASSUME Stacked, Paths, Acyclic  PROVE (Stacked /\ Paths /\ Acyclic)'
    <3>1. /\ Visited' = Visited /\ Finished' = Finished /\ UNCHANGED <<imports, stack, done>>
          /\ KeepsOwner
      BY <2>1 DEF Visited, Finished, buildVars, KeepsOwner
    <3>2. \A p : /\ ImportsOf(p)' = ImportsOf(p)
                 /\ \A im : /\ (IsGo(p, im))' = IsGo(p, im) /\ (IsSelf(p, im))' = IsSelf(p, im)
                            /\ (Target(p, im))' = Target(p, im)
      BY <2>1, <3>1, SameImports DEF Still
    <3>3. \A p, k : Followed(p, k) => Followed(p, k)'
      BY <2>1, <3>1, StaysFollowed
    <3>4. \A i : Opened(i) => Opened(i)'
      BY <3>1, <3>2 DEF Opened, ImportAt
    <3>5. Stacked'
      BY <2>1, <2>3, <3>1 DEF Stacked, Still
    <3>6. Paths'
      BY <2>3, <3>1, <3>3, <3>4 DEF Paths
    <3>7. Acyclic'
      BY <2>3, <3>1, <3>2 DEF Acyclic
    <3> QED  BY <3>5, <3>6, <3>7
  <2> QED  BY <2>1, <2>2, <2>3 DEF BInv, Begun, WalkInv, Walking, Still, buildVars
<1> QED  BY <1>1, <1>2, <1>3, <1>4 DEF NextProject

(* The walk of resolvePackages, whatever is imported and however often:    *)
(* a build that ends well has every package, no cycle and one owner of the *)
(* Go module at most; E0116 is reported of a cycle.                        *)
THEOREM BuildsAreWhole == SpecProject => []BuildIsWhole
<1>1. InitProject => BInv
  BY DEF InitProject, Init, BInv, Begun, WalkInv, Walking, BuildIsWhole
<1>2. BInv /\ [NextProject]_allVars => BInv'
  BY BuildStep
<1>3. BInv => BuildIsWhole
  BY DEF BInv
<1> QED  BY <1>1, <1>2, <1>3, PTL DEF SpecProject
-----------------------------------------------------------------------------
(* What upgrade writes admits the release it was raised to.                *)
Versions == [core : [1..3 -> Nat], pre : Seq({"num", "word"} \X Nat)]

LEMMA NotBelowItself ==
  ASSUME NEW v \in Versions
  PROVE  ~Below(v, v)
<1>1. v.pre \in Seq({"num", "word"} \X Nat)
  BY DEF Versions
<1>2. ~(Len(v.pre) < Len(v.pre))
  BY <1>1
<1> QED  BY <1>2 DEF Below, PreBelow

LEMMA BelowNext ==
  ASSUME NEW v \in Versions, NEW x \in Nat, NEW y \in Nat, NEW z \in Nat,
         \/ v.core[1] < x
         \/ v.core[1] = x /\ v.core[2] < y
         \/ v.core[1] = x /\ v.core[2] = y /\ v.core[3] < z
  PROVE  Below(v, Release(x, y, z))
<1> DEFINE w == <<x, y, z>>
<1>1. w[1] = x /\ w[2] = y /\ w[3] = z /\ Release(x, y, z).core = w
  BY DEF Release
<1>2. v.core[1] \in Nat /\ v.core[2] \in Nat /\ v.core[3] \in Nat
  BY DEF Versions
<1> HIDE DEF w
<1>3. CoreBelow(v.core, w)
  <2>1. CASE v.core[1] < x
    <3>1. SameUpTo(v.core, w, 1 - 1)
      BY DEF SameUpTo
    <3> QED  BY <1>1, <2>1, <3>1 DEF CoreBelow
  <2>2. CASE v.core[1] = x /\ v.core[2] < y
    <3>1. SameUpTo(v.core, w, 2 - 1)
      BY <1>1, <2>2 DEF SameUpTo
    <3> QED  BY <1>1, <2>2, <3>1 DEF CoreBelow
  <2>3. CASE v.core[1] = x /\ v.core[2] = y /\ v.core[3] < z
    <3>1. SameUpTo(v.core, w, 3 - 1)
      BY <1>1, <2>3 DEF SameUpTo
    <3> QED  BY <1>1, <2>3, <3>1 DEF CoreBelow
  <2> QED  BY <2>1, <2>2, <2>3
<1>4. v.core # w
  BY <1>1, <1>2
<1> QED  BY <1>1, <1>3, <1>4 DEF Below

LEMMA FloorOfSpelled ==
  ASSUME NEW form, NEW v \in Versions
  PROVE  Floor(Spelled(form, v.core, v.pre)) = v
<1>1. v.core \in [1..3 -> Nat] /\ Len(v.core) = 3 /\ v = [core |-> v.core, pre |-> v.pre]
  BY DEF Versions
<1>2. [i \in 1..3 |-> IF i <= Len(v.core) THEN v.core[i] ELSE 0] = v.core
  BY <1>1
<1> QED  BY <1>1, <1>2 DEF Floor, Spelled

LEMMA Comparators ==
  ASSUME NEW v, NEW w
  PROVE  /\ Holds(<<">=", w>>, v) <=> ~Below(v, w)
         /\ Holds(<<"<", w>>, v) <=> Below(v, w)
<1> DEFINE s == <<">=", w>>
           t == <<"<", w>>
<1>1. s[1] = ">=" /\ s[2] = w /\ t[1] = "<" /\ t[2] = w
  OBVIOUS
<1> HIDE DEF s, t
<1>2. Holds(s, v) = (~Below(v, s[2]))
  BY <1>1 DEF Holds
<1>3. Holds(t, v) = Below(v, t[2])
  BY <1>1 DEF Holds
<1> QED  BY <1>1, <1>2, <1>3 DEF s, t

(* A caret or tilde range, from its floor to its ceiling.                  *)
LEMMA Ranges ==
  ASSUME NEW c, c.form \in {"caret", "tilde"}, NEW v
  PROVE  Satisfies(c, v) <=> ~Below(v, Floor(c)) /\ Below(v, Ceiling(c))
<1>1. Terms(c) = {<<">=", Floor(c)>>, <<"<", Ceiling(c)>>}
  BY DEF Terms
<1>2. PICK low, high : low = <<">=", Floor(c)>> /\ high = <<"<", Ceiling(c)>>
  OBVIOUS
<1>3. /\ Holds(low, v) <=> ~Below(v, Floor(c))
      /\ Holds(high, v) <=> Below(v, Ceiling(c))
  BY <1>2, Comparators
<1>4. Terms(c) = {low, high}
  BY <1>1, <1>2
<1> QED  BY <1>3, <1>4 DEF Satisfies

LEMMA RaisedAdmits ==
  ASSUME NEW form \in {"caret", "tilde"}, NEW v \in Versions
  PROVE  Satisfies(Spelled(form, v.core, v.pre), v)
<1> DEFINE c == Spelled(form, v.core, v.pre)
<1>1. Floor(c) = v
  BY FloorOfSpelled
<1>2. v.core \in [1..3 -> Nat] /\ Len(v.core) = 3
  BY DEF Versions
<1>3. v.core[1] \in Nat /\ v.core[2] \in Nat /\ v.core[3] \in Nat
  BY <1>2
<1>4. c.form = form /\ c.parts = v.core
  BY DEF Spelled
<1> HIDE DEF c
<1>5. CASE form = "caret"
  <2>1. Ceiling(c) = CaretCeiling(v.core)
    BY <1>1, <1>4, <1>5 DEF Ceiling
  <2>2. Below(v, CaretCeiling(v.core))
    <3>1. CASE v.core[1] > 0
      <4>1. CaretCeiling(v.core) = Release(v.core[1] + 1, 0, 0)
        BY <3>1 DEF CaretCeiling
      <4> QED  BY <1>3, <4>1, BelowNext
    <3>2. CASE v.core[1] = 0 /\ v.core[2] > 0
      <4>1. CaretCeiling(v.core) = Release(0, v.core[2] + 1, 0)
        BY <3>2 DEF CaretCeiling
      <4> QED  BY <1>3, <3>2, <4>1, BelowNext
    <3>3. CASE v.core[1] = 0 /\ v.core[2] = 0
      <4>1. CaretCeiling(v.core) = Release(0, 0, v.core[3] + 1)
        BY <3>3 DEF CaretCeiling
      <4> QED  BY <1>3, <3>3, <4>1, BelowNext
    <3> QED  BY <1>3, <3>1, <3>2, <3>3
  <2> QED  BY <1>1, <1>4, <1>5, <2>1, <2>2, NotBelowItself, Ranges DEF c
<1>6. CASE form = "tilde"
  <2>1. Ceiling(c) = Release(v.core[1], v.core[2] + 1, 0)
    BY <1>2, <1>4, <1>6 DEF DriftCeiling, Ceiling
  <2>2. v.core[2] + 1 \in Nat /\ v.core[2] < v.core[2] + 1 /\ 0 \in Nat
    BY <1>3
  <2>3. Below(v, Ceiling(c))
    BY <1>3, <2>1, <2>2, BelowNext
  <2> QED  BY <1>1, <1>4, <1>6, <2>3, NotBelowItself, Ranges DEF c
<1> QED  BY <1>5, <1>6
-----------------------------------------------------------------------------
(* From get to build, BuildsWhatIsLocked.  The selection stays what the    *)
(* resolution has left; what it owes to the manifests is owed until the    *)
(* project's own changes.                                                  *)
Resolved ==
  /\ Typed /\ MetInQueue /\ Chosen /\ Kept /\ Emptied
  /\ status = "resolving" \/ fresh => Accounted

LockOfSelection ==
  fresh => /\ status = "done"
           /\ lock = [s \in Source |-> IF s = GoModule /\ sel[s] = NoVersion THEN bound ELSE sel[s]]

Spells == DOMAIN texts = DOMAIN RootDeps

(* The Go module is fetched at the pin that is first met, ...              *)
FirstBound == bound # NoVersion =>
  /\ <<GoModule, bound>> \in fetched
  /\ \E n \in Binding \ {Root} : manifest[n].binds = bound

(* ... and so at all if they agree.                                        *)
Agreed == \A m, n \in Binding \ {Root} : manifest[m].binds = manifest[n].binds
AllBound == Agreed => \A m \in Binding \ {Root} : <<GoModule, manifest[m].binds>> \in fetched

Life == Resolved /\ LockOfSelection /\ Spells /\ FirstBound /\ AllBound
-----------------------------------------------------------------------------
LEMMA RootIsMet ==
  ASSUME Typed
  PROVE  /\ Root \in DOMAIN manifest /\ manifest[Root] \in Manifest
         /\ RootDeps \in Seq(Dep) /\ RootDeps = manifest[Root].deps
         /\ \A i \in DOMAIN RootDeps : RootDeps[i] \in Dep /\ RootDeps[i].source \in Source
                                       /\ RootDeps[i].cons \in Constraint
<1>1. Root \in DOMAIN manifest /\ manifest[Root] \in Manifest
  BY DEF Typed
<1> QED  BY <1>1, DepsOfMet DEF RootDeps

(* highestSatisfying takes a release that is in the window.                *)
LEMMA NewestIsThere ==
  ASSUME Typed, NEW i \in DOMAIN RootDeps, Raisable(i)
  PROVE  /\ Newest(i) \in InWindow(i) /\ \A v \in InWindow(i) : v <= Newest(i)
         /\ InWindow(i) \subseteq Version /\ Newest(i) \in Version
         /\ Tag[Newest(i)] \in Versions /\ texts[i].form \in {"caret", "tilde"}
<1>1. released[RootDeps[i].source] \in SUBSET Version
  BY RootIsMet DEF Typed
<1>2. InWindow(i) # {} /\ InWindow(i) \subseteq Version
  BY <1>1 DEF Raisable, InWindow
<1>3. MaxVersion \in Nat /\ Version \subseteq 0 .. MaxVersion
  BY ResolverAssumption DEF Version
<1>4. Newest(i) \in InWindow(i) /\ \A v \in InWindow(i) : Newest(i) >= v
  <2> HIDE DEF InWindow
  <2> QED  BY <1>2, <1>3, GreatestIsMax DEF Newest
<1>5. \A v \in InWindow(i) : v \in Nat
  <2> HIDE DEF InWindow
  <2>1. \A v \in Version : v \in Nat
    BY <1>3
  <2> QED  BY <1>2, <2>1
<1> QED  BY <1>2, <1>4, <1>5, OfflineAssumption DEF Raisable, Versions

(* A constraint that some version satisfies is an interval of them.        *)
LEMMA WindowIsConstraint ==
  ASSUME NEW c, c.form \in {"caret", "tilde"}, NEW v \in Version, Satisfies(c, Tag[v])
  PROVE  \E lo, hi \in Version : /\ Window(c) = Between(lo, hi) /\ Window(c) \in Constraint
                                 /\ Satisfies(c, Tag[lo]) /\ Satisfies(c, Tag[hi])
<1> DEFINE admitted == {w \in Version : Satisfies(c, Tag[w])}
<1>1. MaxVersion \in Nat /\ Version \subseteq 0 .. MaxVersion
  BY ResolverAssumption DEF Version
<1>2. admitted # {} /\ \A w \in admitted : w \in Version
  OBVIOUS
<1>3. Min(admitted) \in admitted /\ Max(admitted) \in admitted
  <2> HIDE DEF admitted
  <2>1. \A w \in Version : w \in Nat /\ w \in 0 .. MaxVersion
    BY <1>1
  <2>2. admitted \in SUBSET Nat
    BY <1>2, <2>1
  <2>3. admitted \in SUBSET (0 .. MaxVersion)
    BY <1>2, <2>1
  <2> QED  BY <1>1, <1>2, <2>2, <2>3, LeastIsMin, GreatestIsMax
<1>4. Window(c) = Between(Min(admitted), Max(admitted))
  BY DEF Window
<1> HIDE DEF admitted
<1>5. Min(admitted) \in Version /\ Max(admitted) \in Version
  BY <1>2, <1>3
<1>6. Window(c) \in Constraint
  BY <1>4, <1>5 DEF Constraint
<1>7. Satisfies(c, Tag[Min(admitted)]) /\ Satisfies(c, Tag[Max(admitted)])
  BY <1>3 DEF admitted
<1> QED  BY <1>4, <1>5, <1>6, <1>7

(* An upgrade writes a manifest.                                           *)
LEMMA Rewrites ==
  ASSUME Typed, Spells, NEW which \in SUBSET {i \in DOMAIN RootDeps : Raisable(i)}, Rewrite(which)
  PROVE  /\ DOMAIN manifest' = DOMAIN manifest
         /\ \A n \in DOMAIN manifest : n # Root => manifest'[n] = manifest[n]
         /\ manifest'[Root] \in Manifest /\ Spells'
         /\ \A i \in which : /\ texts'[i] = Raise(i) /\ RootDeps'[i].cons = Window(Raise(i))
                             /\ i \in DOMAIN RootDeps'
         /\ DOMAIN RootDeps' = DOMAIN RootDeps
         /\ \A i \in DOMAIN RootDeps : RootDeps'[i].source = RootDeps[i].source
<1> DEFINE new == [i \in DOMAIN RootDeps |->
                      IF i \in which THEN [RootDeps[i] EXCEPT !.cons = Window(texts'[i])]
                      ELSE RootDeps[i]]
<1>1. /\ Root \in DOMAIN manifest /\ manifest[Root] \in Manifest /\ RootDeps \in Seq(Dep)
      /\ RootDeps = manifest[Root].deps
      /\ \A i \in DOMAIN RootDeps : RootDeps[i] \in Dep
  BY RootIsMet
<1>2. PICK n \in Nat : DOMAIN RootDeps = 1 .. n
  BY <1>1
<1>3. \A i \in which : i \in DOMAIN texts /\ texts'[i] = Raise(i)
  BY DEF Spells, Rewrite
<1>4. \A i \in which : Window(Raise(i)) \in Constraint
  <2> SUFFICES ASSUME NEW i \in which  PROVE Window(Raise(i)) \in Constraint
    OBVIOUS
  <2>1. /\ Newest(i) \in Version /\ Tag[Newest(i)] \in Versions
        /\ texts[i].form \in {"caret", "tilde"}
    BY NewestIsThere
  <2>2. Satisfies(Raise(i), Tag[Newest(i)])
    BY <2>1, RaisedAdmits DEF Raise
  <2>3. Raise(i).form = texts[i].form
    BY DEF Raise, Spelled
  <2> QED  BY <2>1, <2>2, <2>3, WindowIsConstraint
<1>5. \A d \in Dep, c \in Constraint : /\ [d EXCEPT !.cons = c] \in Dep
                                       /\ [d EXCEPT !.cons = c].cons = c
                                       /\ [d EXCEPT !.cons = c].source = d.source
  BY DEF Dep
<1>6. /\ DOMAIN new = 1 .. n /\ \A i \in 1 .. n : new[i] \in Dep /\ new[i].source = RootDeps[i].source
      /\ \A i \in which : new[i].cons = Window(Raise(i))
  BY <1>1, <1>2, <1>3, <1>4, <1>5
<1>7. manifest' = [manifest EXCEPT ![Root].deps = new]
  BY DEF Rewrite
<1> HIDE DEF new
<1>8. new \in Seq(Dep)
  <2>1. new \in [1 .. n -> Dep]
    BY <1>2, <1>6 DEF new
  <2> QED  BY <2>1
<1>9. manifest'[Root] = [manifest[Root] EXCEPT !.deps = new]
  BY <1>1, <1>7
<1>10. manifest'[Root] \in Manifest /\ manifest'[Root].deps = new
  BY <1>1, <1>8, <1>9 DEF Manifest
<1>11. RootDeps' = new
  BY <1>10 DEF RootDeps
<1>12. DOMAIN texts' = DOMAIN texts
  BY DEF Rewrite
<1> QED  BY <1>1, <1>2, <1>3, <1>6, <1>7, <1>10, <1>11, <1>12 DEF Spells
-----------------------------------------------------------------------------
(* A resolution starts with what the project's manifest is now.            *)
LEMMA Anew ==
  ASSUME Resolve, Typed'
  PROVE  (MetInQueue /\ Chosen /\ Kept /\ Emptied /\ Accounted)'
<1>1. queue' = <<Root>> /\ DOMAIN queue' = {1} /\ queue'[1] = Root /\ at' = 0
  BY DEF Resolve
<1>2. \A s \in Source : sel'[s] = NoVersion /\ reqs'[s] = {}
  BY DEF Resolve
<1>3. Selection' = {Root}
  BY <1>2 DEF Selection
<1>4. \A i \in DOMAIN manifest'[Root].deps : i \in Nat /\ i > 0
  <2>1. manifest'[Root].deps \in Seq(Dep)
    BY DEF Typed, Manifest
  <2> QED  BY <2>1
<1>5. \A i \in DOMAIN manifest'[Root].deps : StillRead(Root, i)'
  BY <1>1, <1>4 DEF StillRead
<1>6. Accounted'
  BY <1>3, <1>5 DEF Accounted
<1>7. MetInQueue'
  BY <1>1 DEF MetInQueue, Typed
<1>8. Emptied'
  BY DEF Resolve, Emptied
<1> QED  BY <1>2, <1>6, <1>7, <1>8 DEF Chosen, Kept

(* The pins the cache holds, when the project's manifest has changed.      *)
LEMMA StaysBound ==
  ASSUME FirstBound, AllBound, DOMAIN manifest' = DOMAIN manifest, fetched' = fetched,
         \A n \in DOMAIN manifest : n # Root => manifest'[n] = manifest[n],
         bound' \in {bound, NoVersion}
  PROVE  FirstBound' /\ AllBound'
<1>1. (Binding \ {Root})' = Binding \ {Root}
  BY DEF Binding
<1>2. \A n \in Binding \ {Root} : manifest'[n] = manifest[n]
  BY DEF Binding
<1> QED  BY <1>1, <1>2 DEF FirstBound, AllBound, Agreed

(* A selection fetches the pin of the binding package it meets first.      *)
LEMMA PinsAreFetched ==
  ASSUME Typed, MetInQueue, FirstBound, AllBound, Choose
  PROVE  FirstBound' /\ AllBound'
<1>1. PICK s \in Source, v \in Pin : /\ s = Current.source /\ v = Selected
                                    /\ fetched \subseteq fetched' /\ Meet(<<s, v>>)
  BY Choice
<1> DEFINE m == <<s, v>>
<1>2. m \in Module /\ m # Root
  BY Modules
<1>3. /\ bound' = NewBound(m)
      /\ bound' # bound => <<GoModule, bound'>> \in fetched'
  BY <1>1 DEF Choose
<1>4. /\ DOMAIN manifest' = DOMAIN manifest \cup {m}
      /\ \A n \in DOMAIN manifest : manifest'[n] = manifest[n]
  BY <1>1, <1>2, Met
<1> HIDE DEF m
<1>5. /\ Binding \subseteq Binding' /\ \A n \in Binding' : n \in Binding \/ n = m
      /\ m \in Binding' <=> manifest'[m].binds # NoVersion
      /\ \A n \in Binding : manifest'[n].binds = manifest[n].binds
  BY <1>4 DEF Binding
<1>6. bound = NoVersion => bound' = manifest'[m].binds
  BY <1>3 DEF NewBound
<1>7. bound # NoVersion => bound' = bound
  BY <1>3 DEF NewBound
<1>8. FirstBound'
  BY <1>1, <1>2, <1>3, <1>5, <1>6, <1>7 DEF FirstBound
<1>9. ASSUME Agreed', NEW n, n \in (Binding \ {Root})'
      PROVE  <<GoModule, manifest'[n].binds>> \in fetched'
  <2>1. CASE n \in Binding
    <3>1. Agreed
      BY <1>5, <1>9 DEF Agreed
    <3> QED  BY <1>1, <1>5, <1>9, <2>1, <3>1 DEF AllBound
  <2>2. CASE n = m /\ bound = NoVersion
    BY <1>3, <1>5, <1>6, <1>9, <2>2
  <2>3. CASE n = m /\ bound # NoVersion
    <3>1. PICK first \in Binding \ {Root} : manifest[first].binds = bound
      BY <2>3 DEF FirstBound
    <3>2. manifest'[n].binds = bound
      BY <1>5, <1>9, <3>1 DEF Agreed
    <3> QED  BY <1>1, <2>3, <3>2 DEF FirstBound
  <2> QED  BY <1>5, <1>9, <2>1, <2>2, <2>3
<1> QED  BY <1>8, <1>9 DEF AllBound
-----------------------------------------------------------------------------
LEMMA LifeStarts ==
  ASSUME InitProject
  PROVE  Life
<1>1. RInv
  BY Initially DEF InitProject
<1>2. Binding \ {Root} = {} /\ bound = NoVersion
  BY DEF InitProject, Init, Binding
<1>3. DOMAIN texts = DOMAIN RootDeps
  BY DEF InitProject, Texts
<1>4. FirstBound /\ AllBound
  BY <1>2 DEF FirstBound, AllBound
<1> QED
  BY <1>1, <1>3, <1>4 DEF InitProject, RInv, Life, Resolved, LockOfSelection, Spells

(* `aril get`: only its end writes the lock.                               *)
LEMMA Gets ==
  ASSUME Life, Get
  PROVE  Life'
<1>1. Next /\ status = "resolving" /\ ~fresh /\ RInv
  <2>1. Next /\ status = "resolving"
    BY DEF Get, Next, Conflict, Keep, Unfetchable, Choose, Fresh, Reading, NextManifest, Finish
  <2>2. ~fresh
    BY <2>1 DEF Life, LockOfSelection
  <2> QED  BY <2>1, <2>2 DEF Life, Resolved, RInv
<1>2. RInv'
  BY <1>1, RInvStep
<1>3. LockOfSelection'
  <2>1. CASE status' = "done"
    <3>1. /\ lock' = [s \in Source |-> IF s = GoModule /\ sel[s] = NoVersion THEN bound ELSE sel[s]]
          /\ Next
      BY <2>1 DEF Get
    <3>2. sel' = sel /\ bound' = bound
      BY <1>1, <2>1, <3>1
      DEF Next, Conflict, Keep, Unfetchable, Choose, NextManifest, Finish
    <3> QED  BY <2>1, <3>1, <3>2 DEF LockOfSelection
  <2>2. CASE status' # "done"
    BY <1>1, <2>2 DEF Get, LockOfSelection
  <2> QED  BY <2>1, <2>2
<1>4. Spells'
  <2>1. Root \in DOMAIN manifest /\ manifest'[Root] = manifest[Root]
    BY <1>1, StaysMet DEF RInv, Typed
  <2> QED  BY <2>1 DEF Get, Life, Spells, RootDeps
<1>5. FirstBound' /\ AllBound'
  <2>1. CASE Choose
    BY <1>1, <2>1, PinsAreFetched DEF Life, RInv
  <2>2. CASE UNCHANGED <<manifest, bound, fetched>>
    BY <2>2 DEF Life, FirstBound, AllBound, Agreed, Binding
  <2> QED
    BY <1>1, <2>1, <2>2 DEF Next, Conflict, Keep, Unfetchable, NextManifest, Finish
<1> QED  BY <1>2, <1>3, <1>4, <1>5 DEF RInv, Life, Resolved

(* What an upgrade rewrites can be raised.                                 *)
LEMMA Upgraded ==
  ASSUME Typed, Upgrade \/ UpgradeFails
  PROVE  \E which \in SUBSET {i \in DOMAIN RootDeps : Raisable(i)} : Rewrite(which)
<1>1. CASE Upgrade
  BY <1>1 DEF Upgrade
<1>2. CASE UpgradeFails
  <2>1. PICK last \in DOMAIN RootDeps : Rewrite({i \in 1 .. last - 1 : Raisable(i)})
    BY <1>2 DEF UpgradeFails
  <2>2. \A i \in 1 .. last - 1 : i \in DOMAIN RootDeps
    <3>1. RootDeps \in Seq(Dep)
      BY RootIsMet
    <3> QED  BY <2>1, <3>1
  <2> QED  BY <2>1, <2>2
<1> QED  BY <1>1, <1>2

(* An upgrade, with the resolution that follows it or without.             *)
LEMMA Upgrades ==
  ASSUME Life, Upgrade \/ UpgradeFails
  PROVE  Life'
<1>1. PICK which \in SUBSET {i \in DOMAIN RootDeps : Raisable(i)} : Rewrite(which)
  BY Upgraded DEF Life, Resolved
<1>2. /\ DOMAIN manifest' = DOMAIN manifest
      /\ \A n \in DOMAIN manifest : n # Root => manifest'[n] = manifest[n]
      /\ manifest'[Root] \in Manifest /\ Spells'
  BY <1>1, Rewrites DEF Life, Resolved
<1>3. ~fresh' /\ released' = released /\ fetched' = fetched /\ bound' \in {bound, NoVersion}
  BY <1>1 DEF Upgrade, UpgradeFails, Rewrite, Resolve
<1>4. FirstBound' /\ AllBound'
  BY <1>2, <1>3, StaysBound DEF Life
<1>5. \A n \in DOMAIN manifest' : manifest'[n] \in Manifest
  BY <1>2 DEF Life, Resolved, Typed
<1>6. Resolved'
  <2>1. CASE Upgrade
    <3>1. Resolve
      BY <2>1 DEF Upgrade
    <3>2. queue' \in Seq(Node) /\ at' \in Nat
      BY <3>1 DEF Resolve, Node
    <3>3. reqs' \in [Source -> SUBSET Constraint] /\ sel' \in [Source -> Pin \cup {NoVersion}]
      BY <3>1 DEF Resolve
    <3>4. Typed'
      BY <1>2, <1>3, <1>5, <3>2, <3>3 DEF Life, Resolved, Typed
    <3> QED  BY <3>1, <3>4, Anew DEF Resolved
  <2>2. CASE UpgradeFails
    <3>1. status # "resolving" /\ UNCHANGED <<released, queue, at, reqs, sel, fetched, status>>
      BY <2>2 DEF UpgradeFails, CanChange
    <3> QED
      BY <1>2, <1>3, <1>5, <3>1
      DEF Life, Resolved, Typed, MetInQueue, Chosen, Kept, Emptied, Going, Meets
  <2> QED  BY <2>1, <2>2
<1> QED  BY <1>2, <1>3, <1>4, <1>6 DEF Life, LockOfSelection

LEMMA LifeStep ==
  ASSUME Life, [NextProject]_allVars
  PROVE  Life'
<1>1. CASE Get
  BY <1>1, Gets
<1>2. CASE Upgrade \/ UpgradeFails
  BY <1>2, Upgrades
<1>3. CASE GetAgain
  <2>1. Resolve /\ UNCHANGED <<manifest, texts, fresh>> /\ ~fresh
    BY <1>3 DEF GetAgain
  <2>2. queue' \in Seq(Node) /\ at' \in Nat
    BY <2>1 DEF Resolve, Node
  <2>3. reqs' \in [Source -> SUBSET Constraint] /\ sel' \in [Source -> Pin \cup {NoVersion}]
    BY <2>1 DEF Resolve
  <2>4. Typed'
    BY <2>1, <2>2, <2>3 DEF Life, Resolved, Typed, Resolve
  <2>5. FirstBound' /\ AllBound'
    BY <2>1, StaysBound DEF Life, Resolve
  <2> QED
    BY <2>1, <2>4, <2>5, Anew DEF Life, Resolved, LockOfSelection, Spells, RootDeps
<1>4. CASE Edit
  <2>1. PICK m \in Manifests[Root] :
          manifest' = [manifest EXCEPT ![Root] = m] /\ texts' \in Texts(m.deps)
    BY <1>4 DEF Edit
  <2>2. m \in Manifest /\ Root \in DOMAIN manifest
    BY ResolverAssumption DEF Life, Resolved, Typed
  <2>3. /\ DOMAIN manifest' = DOMAIN manifest /\ manifest'[Root] = m
        /\ \A n \in DOMAIN manifest : n # Root => manifest'[n] = manifest[n]
    BY <2>1, <2>2
  <2>4. /\ ~fresh' /\ status # "resolving"
        /\ UNCHANGED <<released, queue, at, reqs, sel, bound, fetched, status>>
    BY <1>4 DEF Edit, CanChange
  <2>5. Resolved'
    BY <2>2, <2>3, <2>4
    DEF Life, Resolved, Typed, MetInQueue, Chosen, Kept, Emptied, Going, Meets
  <2>6. Spells'
    BY <2>1, <2>3 DEF Spells, RootDeps, Texts
  <2>7. FirstBound' /\ AllBound'
    BY <2>3, <2>4, StaysBound DEF Life
  <2> QED  BY <2>4, <2>5, <2>6, <2>7 DEF Life, LockOfSelection
<1>5. CASE StartBuild \/ Walk \/ UNCHANGED allVars
  <2>1. UNCHANGED <<vars, lifeVars>>
    BY <1>5 DEF StartBuild, Walk, ImportGo, ImportSelf, ImportMissing, ImportCyclic, ImportNew,
       ImportSeen, Leave, allVars
  <2>2. Resolved'
    <3>1. Selection' = Selection
      BY <2>1 DEF Selection, vars
    <3> QED
      BY <2>1, <3>1 DEF vars, lifeVars, Life, Resolved, Typed, MetInQueue, Chosen, Kept, Emptied,
         Going, Meets, Accounted, Taken, StillRead
  <2> QED
    BY <2>1, <2>2 DEF vars, lifeVars, Life, LockOfSelection, Spells, RootDeps, FirstBound, AllBound,
       Agreed, Binding
<1> QED  BY <1>1, <1>2, <1>3, <1>4, <1>5 DEF NextProject
-----------------------------------------------------------------------------
(* What an import of a selected module stands for is selected, at the      *)
(* version the importer pins or the lock has, and in the cache.            *)
LEMMA PinnedTarget ==
  ASSUME Life, fresh, NEW p, p[1] \in Selection, NEW im \in Importable(manifest[p[1]])
  PROVE  /\ Target(p, im)[1] \in Selection
         /\ ~IsLocal(im) => /\ Target(p, im)[1] \in fetched \cap DOMAIN manifest
                             /\ Target(p, im)[1] # Root
<1>1. RInv /\ status = "done" /\ Going
  BY DEF Life, Resolved, LockOfSelection, RInv, Going
<1>2. CASE IsLocal(im)
  <2>1. Target(p, im) = <<p[1], im[2]>>
    BY <1>2 DEF Target
  <2> QED  BY <1>2, <2>1
<1>3. CASE ~IsLocal(im)
  <2>1. PICK i \in DOMAIN manifest[p[1]].deps : im = External(i)
    BY <1>3 DEF Importable, IsLocal, Local
  <2>2. PICK d : d = manifest[p[1]].deps[i]
    OBVIOUS
  <2>3. DepOf(p, im) = d
    BY <2>1, <2>2 DEF DepOf, External
  <2>4. /\ d \in Dep /\ d.source \in Source /\ sel[d.source] # NoVersion
        /\ Meets(d.cons, sel[d.source]) /\ <<d.source, sel[d.source]>> \in fetched
    BY <1>1, <2>2, NeedsAreMet
  <2>5. d.cons \in Constraint
    BY <2>4 DEF Dep
  <2>6. ConcreteVersion(d) = sel[d.source]
    <3>1. CASE d.cons.kind = "range"
      BY <2>4, <3>1 DEF ConcreteVersion, Life, LockOfSelection
    <3>2. CASE d.cons.kind = "exact"
      <4>1. d.cons.hi = d.cons.lo /\ d.cons.lo \in Nat
        BY <2>5, <3>2, Constraints, ResolverAssumption DEF Version
      <4>2. sel[d.source] \in d.cons.lo .. d.cons.hi
        BY <2>4, <3>2 DEF Meets, AtCommit, Admits
      <4>3. sel[d.source] = d.cons.lo
        BY <4>1, <4>2
      <4> QED  BY <3>2, <4>3 DEF ConcreteVersion
    <3>3. CASE d.cons.kind = "commit"
      <4>1. d.cons = AtCommit(sel[d.source])
        BY <2>4, <3>3 DEF Meets, Admits
      <4>2. d.cons.lo = sel[d.source]
        BY <4>1 DEF AtCommit
      <4> QED  BY <3>3, <4>2 DEF ConcreteVersion
    <3> QED  BY <2>5, <3>1, <3>2, <3>3, Constraints
  <2>7. Target(p, im)[1] = <<d.source, sel[d.source]>>
    BY <1>3, <2>3, <2>6 DEF Target
  <2>8. <<d.source, sel[d.source]>> \in DOMAIN manifest
    BY <1>1, <2>4 DEF RInv, Chosen
  <2>9. sel[d.source] \in Pin
    BY <1>1, <2>4 DEF RInv, Typed
  <2> QED  BY <2>4, <2>7, <2>8, <2>9, Modules DEF Selection
<1> QED  BY <1>2, <1>3

(* The Go module a binding package names is in the cache, if they agree.   *)
LEMMA BindFinds ==
  ASSUME Life, fresh, PinsAgree, Walking, NEW p, p[1] \in Selection,
         NEW im \in Importable(manifest[p[1]]), NEW q, q = Target(p, im), Bind(q, im)
  PROVE  build' # "E0121"
<1>1. Agreed
  BY DEF PinsAgree, Agreed
<1>2. CASE IsLocal(im) \/ manifest[q[1]].binds = NoVersion
  BY <1>2 DEF Bind, Walking
<1>3. CASE ~IsLocal(im) /\ manifest[q[1]].binds # NoVersion
  <2>1. q[1] \in Binding \ {Root}
    BY <1>3, PinnedTarget DEF Binding
  <2>2. <<GoModule, manifest[q[1]].binds>> \in fetched
    BY <1>1, <2>1 DEF Life, AllBound
  <2> QED  BY <1>3, <2>2 DEF Bind, Binds, Walking
<1> QED  BY <1>2, <1>3

(* The packages of a build are those of the selection.                     *)
Pinned == fresh /\ build # "none" => \A p \in Visited : p[1] \in Selection

Finds == fresh /\ PinsAgree => build # "E0121"

LInv == Life /\ BInv /\ Pinned /\ Finds

LEMMA PinnedStep ==
  ASSUME LInv, StartBuild \/ Walk
  PROVE  Pinned' /\ Finds'
<1>0. UNCHANGED <<vars, lifeVars>>
  BY DEF StartBuild, Walk, ImportGo, ImportSelf, ImportMissing, ImportCyclic, ImportNew,
         ImportSeen, Leave
<1>1. Selection' = Selection /\ fresh' = fresh /\ PinsAgree' = PinsAgree
  BY <1>0 DEF Selection, PinsAgree, Binding, vars, lifeVars
<1>2. SUFFICES ASSUME fresh
               PROVE  /\ \A p \in Visited' : p[1] \in Selection
                      /\ PinsAgree => build' # "E0121"
  BY <1>1 DEF Pinned, Finds
<1>3. CASE StartBuild
  <2>1. Visited = {} /\ Enter(Main) /\ build' # "E0121"
    BY <1>3 DEF StartBuild, LInv, BInv, Begun, Visited
  <2>2. Visited' = {Main}
    BY <2>1, Entered
  <2> QED  BY <2>1, <2>2 DEF Main, Selection
<1>4. CASE Walk
  <2>1. Walking
    BY <1>4 DEF Walk, ImportGo, ImportSelf, ImportMissing, ImportCyclic, ImportNew,
       ImportSeen, Leave, Pending, Visiting
  <2>2. Stacked /\ Paths /\ \A p \in Visited : p[1] \in Selection
    BY <1>2, <2>1 DEF LInv, BInv, WalkInv, Pinned, Walking
  <2>3. ASSUME Pending
        PROVE  Top[1] \in Selection /\ Import \in Importable(manifest[Top[1]])
    BY <2>2, <2>3, Arrived, Lists
  <2>4. CASE ImportNew
    <3>1. /\ Pending /\ Target(Top, Import) \notin Visited /\ Enter(Target(Top, Import))
          /\ build' = build
      BY <2>4 DEF ImportNew, Visiting, Visited
    <3>2. Visited' = Visited \cup {Target(Top, Import)}
      BY <3>1, Entered
    <3>3. Target(Top, Import)[1] \in Selection
      BY <1>2, <2>3, <3>1, PinnedTarget DEF LInv
    <3> QED  BY <2>1, <2>2, <3>1, <3>2, <3>3 DEF Walking
  <2>5. CASE ~ImportNew
    <3>1. Visited' = Visited
      BY <1>4, <2>5 DEF Walk, ImportGo, ImportSelf, ImportMissing, ImportCyclic,
         ImportSeen, Leave, Fail, Visited
    <3>2. ASSUME PinsAgree  PROVE build' # "E0121"
      <4>1. CASE ImportGo
        <5>1. Pending /\ ~IsLocal(Import)
          BY <4>1 DEF ImportGo, IsGo
        <5>2. Target(Top, Import)[1] \in fetched
          BY <1>2, <2>3, <5>1, PinnedTarget DEF LInv
        <5> QED  BY <2>1, <4>1, <5>2 DEF ImportGo, Binds, Walking
      <4>2. CASE ImportMissing
        <5>1. Pending /\ ~IsLocal(Import) /\ Target(Top, Import)[1] \notin fetched
          BY <4>2 DEF ImportMissing, Missing
        <5> QED  BY <1>2, <2>3, <5>1, PinnedTarget DEF LInv
      <4>3. CASE ImportSelf \/ ImportCyclic
        BY <2>1, <4>3 DEF ImportSelf, ImportCyclic, Fail, Walking
      <4>4. CASE ImportSeen
        <5>1. Pending /\ Bind(Target(Top, Import), Import)
          BY <4>4 DEF ImportSeen, Visiting
        <5> QED  BY <1>2, <2>1, <2>3, <3>2, <5>1, BindFinds DEF LInv
      <4>5. CASE Leave /\ Len(stack) = 1
        BY <4>5 DEF Leave
      <4>6. CASE Leave /\ Len(stack) # 1
        <5>1. Bind(Top, ImportAt(Len(stack) - 1))
          BY <4>6 DEF Leave
        <5>2. PICK n \in Nat :
                /\ n = Len(stack) /\ n >= 1 /\ DOMAIN stack = 1 .. n /\ Top = stack[n]
                /\ \A i \in 1 .. n : stack[i] \in Visited /\ done[i] \in Nat
          BY <2>2, Stacks
        <5>3. PICK j \in Nat : j = n - 1 /\ j \in 1 .. n /\ j < n /\ j + 1 = n
          BY <4>6, <5>2
        <5>4. Opened(j)
          BY <2>2, <5>2, <5>3 DEF Paths
        <5>5. PICK p \in Visited : p = stack[j]
          BY <5>2, <5>3
        <5>6. PICK l \in Nat : /\ l = Len(imports[p]) /\ DOMAIN imports[p] = 1 .. l
                               /\ \A k \in 1 .. l : imports[p][k] \in Importable(manifest[p[1]])
          BY <2>2, Lists
        <5>7. done[j] + 1 \in 1 .. l
          BY <5>2, <5>3, <5>4, <5>5, <5>6 DEF Opened
        <5>8. PICK im \in Importable(manifest[p[1]]) : im = ImportAt(j)
          BY <5>5, <5>6, <5>7 DEF ImportAt
        <5>9. Top = Target(p, im) /\ Bind(Top, im)
          BY <5>1, <5>2, <5>3, <5>4, <5>5, <5>8 DEF Opened
        <5> QED  BY <1>2, <2>1, <2>2, <3>2, <5>9, BindFinds DEF LInv
      <4> QED  BY <1>4, <2>5, <4>1, <4>2, <4>3, <4>4, <4>5, <4>6 DEF Walk
    <3> QED  BY <2>2, <3>1, <3>2
  <2> QED  BY <2>4, <2>5
<1> QED  BY <1>3, <1>4

LEMMA LInvStep ==
  ASSUME LInv, [NextProject]_allVars
  PROVE  LInv'
<1>1. Life' /\ BInv'
  BY LifeStep, BuildStep DEF LInv
<1>2. CASE StartBuild \/ Walk
  BY <1>1, <1>2, PinnedStep DEF LInv
<1>3. CASE Get \/ Upgrade \/ GetAgain \/ UpgradeFails \/ Edit
  <2>1. build' = "none"
    BY <1>3, Prepares DEF LInv, BInv, buildVars
  <2> QED  BY <1>1, <2>1 DEF LInv, Pinned, Finds
<1>4. CASE UNCHANGED allVars
  <2>1. Selection' = Selection /\ PinsAgree' = PinsAgree /\ UNCHANGED <<fresh, build, imports>>
    BY <1>4 DEF Selection, PinsAgree, Binding, allVars, vars, lifeVars, buildVars
  <2> QED  BY <1>1, <2>1 DEF LInv, Pinned, Finds, Visited
<1> QED  BY <1>2, <1>3, <1>4 DEF NextProject

(* From `aril get` to `aril build`, with any edits and upgrades between,   *)
(* any graph of manifests and any imports: a build of the manifest that    *)
(* was locked takes what the lock says (resolvePackages), and finds it,    *)
(* the pins of the Go module being the same.                               *)
THEOREM LocksAreBuilt == SpecProject => []BuildsWhatIsLocked
<1>1. InitProject => LInv
  <2> SUFFICES ASSUME InitProject  PROVE LInv
    OBVIOUS
  <2>1. Life
    BY LifeStarts
  <2>2. build = "none" /\ BInv
    BY DEF InitProject, Init, BInv, Begun, WalkInv, Walking, BuildIsWhole
  <2> QED  BY <2>1, <2>2 DEF LInv, Pinned, Finds
<1>2. LInv /\ [NextProject]_allVars => LInv'
  BY LInvStep
<1>3. LInv => BuildsWhatIsLocked
  <2> SUFFICES ASSUME LInv, fresh
               PROVE  /\ \A m \in InBuild : m[2] = lock[m[1]]
                      /\ PinsAgree => build # "E0121"
    BY DEF BuildsWhatIsLocked
  <2>1. ASSUME NEW m \in InBuild  PROVE m[2] = lock[m[1]]
    <3>1. PICK p \in Visited : m = p[1] /\ m # Root
      BY DEF InBuild, Visited
    <3>2. m \in Selection
      BY <3>1 DEF LInv, Pinned, BInv, Begun, Visited
    <3>3. PICK s \in Source : sel[s] # NoVersion /\ m = <<s, sel[s]>>
      BY <3>1, <3>2 DEF Selection
    <3> QED  BY <3>3 DEF LInv, Life, LockOfSelection
  <2> QED  BY <2>1 DEF LInv, Finds
<1> QED  BY <1>1, <1>2, <1>3, PTL DEF SpecProject
-----------------------------------------------------------------------------
(* The order of versions, semver.compare, is linear as far as ranges need. *)
LEMMA Lexicographic ==
  ASSUME NEW s, NEW t
  PROVE  CoreBelow(s, t) <=> \/ s[1] < t[1]
                             \/ s[1] = t[1] /\ s[2] < t[2]
                             \/ s[1] = t[1] /\ s[2] = t[2] /\ s[3] < t[3]
<1>1. /\ SameUpTo(s, t, 1 - 1) <=> TRUE
      /\ SameUpTo(s, t, 2 - 1) <=> s[1] = t[1]
      /\ SameUpTo(s, t, 3 - 1) <=> s[1] = t[1] /\ s[2] = t[2]
  <2>1. 1 - 1 = 0 /\ 2 - 1 = 1 /\ 3 - 1 = 2 /\ 1..0 = {} /\ 1..1 = {1} /\ 1..2 = {1, 2}
    OBVIOUS
  <2> QED  BY <2>1 DEF SameUpTo
<1>2. 1..3 = {1, 2, 3}
  OBVIOUS
<1> QED  BY <1>1, <1>2 DEF CoreBelow

Cores == [1..3 -> Nat]

LEMMA CoresAreOrdered ==
  ASSUME NEW s \in Cores, NEW t \in Cores, NEW u \in Cores
  PROVE  /\ CoreBelow(s, t) /\ CoreBelow(t, u) => CoreBelow(s, u)
         /\ CoreBelow(s, t) => ~CoreBelow(t, s)
         /\ s = t \/ CoreBelow(s, t) \/ CoreBelow(t, s)
<1>1. \A i \in 1..3 : s[i] \in Nat /\ t[i] \in Nat /\ u[i] \in Nat
  BY DEF Cores
<1>2. s[1] = t[1] /\ s[2] = t[2] /\ s[3] = t[3] => s = t
  <2>1. \A i \in 1..3 : i = 1 \/ i = 2 \/ i = 3
    OBVIOUS
  <2> QED  BY <2>1 DEF Cores
<1>3. /\ s[1] \in Nat /\ s[2] \in Nat /\ s[3] \in Nat /\ t[1] \in Nat /\ t[2] \in Nat /\ t[3] \in Nat
      /\ u[1] \in Nat /\ u[2] \in Nat /\ u[3] \in Nat
  BY <1>1
<1> QED  BY <1>2, <1>3, Lexicographic

LEMMA PreTransitive ==
  ASSUME NEW s \in Seq({"num", "word"} \X Nat), NEW t \in Seq({"num", "word"} \X Nat),
         NEW u \in Seq({"num", "word"} \X Nat), PreBelow(s, t), PreBelow(t, u)
  PROVE  PreBelow(s, u)
<1>1. PICK l \in Nat, m \in Nat, n \in Nat :
        /\ l = Len(s) /\ m = Len(t) /\ n = Len(u)
        /\ DOMAIN s = 1 .. l /\ DOMAIN t = 1 .. m /\ DOMAIN u = 1 .. n
  OBVIOUS
<1>2. \A i \in 1 .. l : s[i][1] \in {"num", "word"} /\ s[i][2] \in Nat /\ s[i] = <<s[i][1], s[i][2]>>
  BY <1>1
<1>3. \A i \in 1 .. m : t[i][1] \in {"num", "word"} /\ t[i][2] \in Nat /\ t[i] = <<t[i][1], t[i][2]>>
  BY <1>1
<1>4. \A i \in 1 .. n : u[i][1] \in {"num", "word"} /\ u[i][2] \in Nat /\ u[i] = <<u[i][1], u[i][2]>>
  BY <1>1
<1>5. \A i \in 1 .. l : i \in 1 .. m /\ i \in 1 .. n /\ IdBelow(s[i], t[i]) /\ IdBelow(t[i], u[i])
        => s[i] # u[i] /\ IdBelow(s[i], u[i])
  BY <1>2, <1>3, <1>4 DEF IdBelow
<1>6. CASE l < m /\ SameUpTo(s, t, l)
  <2>1. CASE m < n /\ SameUpTo(t, u, m)
    BY <1>1, <1>6, <2>1 DEF PreBelow, SameUpTo
  <2>2. ASSUME NEW i \in (1 .. m) \cap (1 .. n), SameUpTo(t, u, i - 1), t[i] # u[i],
               IdBelow(t[i], u[i])
        PROVE  PreBelow(s, u)
    <3>1. CASE i <= l
      <4>1. i \in DOMAIN s \cap DOMAIN u /\ s[i] = t[i] /\ SameUpTo(s, u, i - 1)
        BY <1>1, <1>6, <2>2, <3>1 DEF SameUpTo
      <4> QED  BY <2>2, <4>1 DEF PreBelow
    <3>2. CASE i > l
      <4>1. l < n /\ SameUpTo(s, u, l)
        BY <1>1, <1>6, <2>2, <3>2 DEF SameUpTo
      <4> QED  BY <1>1, <4>1 DEF PreBelow
    <3> QED  BY <1>1, <2>2, <3>1, <3>2
  <2> QED  BY <1>1, <2>1, <2>2 DEF PreBelow
<1>7. ASSUME NEW i \in (1 .. l) \cap (1 .. m), SameUpTo(s, t, i - 1), s[i] # t[i],
             IdBelow(s[i], t[i])
      PROVE  PreBelow(s, u)
  <2>1. CASE m < n /\ SameUpTo(t, u, m)
    <3>1. i \in DOMAIN s \cap DOMAIN u /\ t[i] = u[i] /\ SameUpTo(s, u, i - 1)
      BY <1>1, <1>7, <2>1 DEF SameUpTo
    <3> QED  BY <1>7, <3>1 DEF PreBelow
  <2>2. ASSUME NEW j \in (1 .. m) \cap (1 .. n), SameUpTo(t, u, j - 1), t[j] # u[j],
               IdBelow(t[j], u[j])
        PROVE  PreBelow(s, u)
    <3>1. CASE i < j
      <4>1. i \in DOMAIN s \cap DOMAIN u /\ t[i] = u[i] /\ SameUpTo(s, u, i - 1)
        BY <1>1, <1>7, <2>2, <3>1 DEF SameUpTo
      <4> QED  BY <1>7, <4>1 DEF PreBelow
    <3>2. CASE j < i
      <4>1. j \in DOMAIN s \cap DOMAIN u /\ s[j] = t[j] /\ SameUpTo(s, u, j - 1)
        BY <1>1, <1>7, <2>2, <3>2 DEF SameUpTo
      <4> QED  BY <2>2, <4>1 DEF PreBelow
    <3>3. CASE i = j
      <4>1. i \in DOMAIN s \cap DOMAIN u /\ SameUpTo(s, u, i - 1)
        BY <1>1, <1>7, <2>2, <3>3 DEF SameUpTo
      <4>2. s[i] # u[i] /\ IdBelow(s[i], u[i])
        BY <1>5, <1>7, <2>2, <3>3
      <4> QED  BY <4>1, <4>2 DEF PreBelow
    <3>4. i \in Nat /\ j \in Nat
      OBVIOUS
    <3> QED  BY <3>1, <3>2, <3>3, <3>4
  <2> QED  BY <1>1, <2>1, <2>2 DEF PreBelow
<1> QED  BY <1>1, <1>6, <1>7 DEF PreBelow

LEMMA BelowTransitive ==
  ASSUME NEW v \in Versions, NEW w \in Versions, NEW x \in Versions, Below(v, w), Below(w, x)
  PROVE  Below(v, x)
<1>1. v.core \in Cores /\ w.core \in Cores /\ x.core \in Cores
  BY DEF Versions, Cores
<1>2. /\ v.pre \in Seq({"num", "word"} \X Nat) /\ w.pre \in Seq({"num", "word"} \X Nat)
      /\ x.pre \in Seq({"num", "word"} \X Nat)
  BY DEF Versions
<1>3. CASE v.core = w.core /\ w.core = x.core
  <2>1. CASE w.pre = <<>>
    BY <1>3, <2>1 DEF Below
  <2>2. CASE w.pre # <<>>
    BY <1>2, <1>3, <2>2, PreTransitive DEF Below
  <2> QED  BY <2>1, <2>2
<1>4. CASE ~(v.core = w.core /\ w.core = x.core)
  <2>1. CoreBelow(v.core, x.core)
    BY <1>1, <1>4, CoresAreOrdered DEF Below
  <2>2. v.core # x.core
    BY <1>1, <2>1, CoresAreOrdered
  <2> QED  BY <2>1, <2>2 DEF Below
<1> QED  BY <1>3, <1>4
-----------------------------------------------------------------------------
(* The caret and tilde constraints, as they can be written.                *)
Spelt(c) == /\ c.parts \in Seq(Nat) /\ Len(c.parts) \in 1..3
            /\ c.pre \in Seq({"num", "word"} \X Nat)

LEMMA ReleaseIsVersion ==
  ASSUME NEW x \in Nat, NEW y \in Nat, NEW z \in Nat
  PROVE  /\ Release(x, y, z) \in Versions /\ Release(x, y, z).core = <<x, y, z>>
         /\ <<x, y, z>> \in Cores
<1>1. <<x, y, z>> \in [1..3 -> Nat] /\ <<>> \in Seq({"num", "word"} \X Nat)
  OBVIOUS
<1> QED  BY <1>1 DEF Release, Versions, Cores

(* The ceilings of what an upgrade writes.                                 *)
LEMMA CeilingOfSpelled ==
  ASSUME NEW form \in {"caret", "tilde"}, NEW v \in Versions
  PROVE  Ceiling(Spelled(form, v.core, v.pre)) \in Versions
<1> DEFINE r == Spelled(form, v.core, v.pre)
<1>1. /\ Len(v.core) = 3
      /\ v.core[1] \in Nat /\ v.core[2] \in Nat /\ v.core[3] \in Nat
  <2>1. v.core \in [1..3 -> Nat]
    BY DEF Versions
  <2> QED  BY <2>1
<1>2. Floor(r) = v /\ r.form = form /\ r.parts = v.core
  BY FloorOfSpelled DEF Spelled
<1>3. /\ v.core[1] + 1 \in Nat /\ v.core[2] + 1 \in Nat /\ v.core[3] + 1 \in Nat /\ 0 \in Nat
  BY <1>1
<1> HIDE DEF r
<1>4. CASE form = "caret"
  <2>1. Ceiling(r) = CaretCeiling(v.core)
    BY <1>2, <1>4 DEF Ceiling
  <2>2. CaretCeiling(v.core) \in {Release(v.core[1] + 1, 0, 0), Release(0, v.core[2] + 1, 0),
                                 Release(0, 0, v.core[3] + 1)}
    BY <1>1 DEF CaretCeiling
  <2>3. /\ Release(v.core[1] + 1, 0, 0) \in Versions /\ Release(0, v.core[2] + 1, 0) \in Versions
        /\ Release(0, 0, v.core[3] + 1) \in Versions
    BY <1>3, ReleaseIsVersion
  <2> QED  BY <2>1, <2>2, <2>3 DEF r
<1>5. CASE form = "tilde"
  <2>1. Ceiling(r) = Release(v.core[1], v.core[2] + 1, 0)
    BY <1>1, <1>2, <1>5 DEF Ceiling, DriftCeiling
  <2>2. Release(v.core[1], v.core[2] + 1, 0) \in Versions
    BY <1>1, <1>3, ReleaseIsVersion
  <2> QED  BY <2>1, <2>2 DEF r
<1> QED  BY <1>4, <1>5

LEMMA FloorIsVersion ==
  ASSUME NEW c, Spelt(c)
  PROVE  /\ Floor(c) \in Versions /\ Floor(c).core \in Cores
         /\ c.parts[1] \in Nat /\ Floor(c).core[1] = c.parts[1]
         /\ Len(c.parts) # 1 => c.parts[2] \in Nat /\ Floor(c).core[2] = c.parts[2]
<1>1. PICK n \in 1..3 : n = Len(c.parts) /\ \A i \in 1..n : c.parts[i] \in Nat
  BY DEF Spelt
<1>2. \A i \in 1..3 : (IF i <= Len(c.parts) THEN c.parts[i] ELSE 0) \in Nat
  BY <1>1
<1>3. [i \in 1..3 |-> IF i <= Len(c.parts) THEN c.parts[i] ELSE 0] \in [1..3 -> Nat]
  BY <1>2
<1>4. Floor(c) \in Versions /\ Floor(c).core \in Cores
  BY <1>3 DEF Floor, Spelt, Versions, Cores
<1>5. c.parts[1] \in Nat /\ Floor(c).core[1] = c.parts[1]
  BY <1>1 DEF Floor
<1>6. Len(c.parts) # 1 => c.parts[2] \in Nat /\ Floor(c).core[2] = c.parts[2]
  BY <1>1 DEF Floor
<1> QED  BY <1>4, <1>5, <1>6

(* A version between a range's floor and its ceiling, and not at this one, *)
(* has the ceiling of the range or one below it.                           *)
LEMMA CeilingOfRaised ==
  ASSUME NEW c, c.form \in {"caret", "tilde"}, Spelt(c), NEW v \in Versions,
         Satisfies(c, v), v.core # Ceiling(c).core
  PROVE  LET r == Spelled(c.form, v.core, v.pre)
         IN  /\ Ceiling(c) \in Versions /\ Ceiling(r) \in Versions
             /\ Ceiling(r) = Ceiling(c) \/ Below(Ceiling(r), Ceiling(c))
<1> DEFINE r == Spelled(c.form, v.core, v.pre)
<1>1. /\ v.core \in Cores /\ Len(v.core) = 3
      /\ v.core[1] \in Nat /\ v.core[2] \in Nat /\ v.core[3] \in Nat
  <2>1. v.core \in Cores /\ Len(v.core) = 3
    BY DEF Versions, Cores
  <2> QED  BY <2>1 DEF Cores
<1>2. Floor(r) = v /\ r.form = c.form /\ r.parts = v.core
  BY FloorOfSpelled DEF Spelled
<1>3. PICK f : f = Floor(c).core
  OBVIOUS
<1>4. f \in Cores /\ f[1] \in Nat /\ f[2] \in Nat /\ f[3] \in Nat
  <2>1. f \in Cores
    BY <1>3, FloorIsVersion
  <2> QED  BY <2>1 DEF Cores
<1>5. ~Below(v, Floor(c)) /\ Below(v, Ceiling(c))
  BY Ranges
<1>6. v.core = f \/ CoreBelow(f, v.core)
  BY <1>1, <1>3, <1>4, <1>5, CoresAreOrdered DEF Below
<1>7. \/ f[1] < v.core[1]
      \/ f[1] = v.core[1] /\ f[2] < v.core[2]
      \/ f[1] = v.core[1] /\ f[2] = v.core[2] /\ f[3] <= v.core[3]
  BY <1>1, <1>4, <1>6, Lexicographic
<1>8. CoreBelow(v.core, Ceiling(c).core)
  BY <1>5 DEF Below
<1> HIDE DEF r
<1>9. ASSUME NEW x \in Nat, NEW y \in Nat, NEW z \in Nat, Ceiling(c) = Release(x, y, z)
      PROVE  /\ Ceiling(c) \in Versions
             /\ \/ v.core[1] < x
                \/ v.core[1] = x /\ v.core[2] < y
                \/ v.core[1] = x /\ v.core[2] = y /\ v.core[3] < z
  <2>1. Ceiling(c).core = <<x, y, z>> /\ Ceiling(c) \in Versions
    BY <1>9, ReleaseIsVersion
  <2>2. CoreBelow(v.core, <<x, y, z>>)
    BY <1>8, <2>1
  <2> QED  BY <2>1, <2>2, Lexicographic
<1>10. CASE c.form = "caret"
  <2>1. Ceiling(c) = CaretCeiling(f) /\ Ceiling(r) = CaretCeiling(v.core)
    BY <1>2, <1>3, <1>10 DEF Ceiling
  <2>2. CASE f[1] > 0
    <3>1. Ceiling(c) = Release(f[1] + 1, 0, 0)
      BY <2>1, <2>2 DEF CaretCeiling
    <3>2. v.core[1] = f[1] /\ Ceiling(c) \in Versions
      BY <1>1, <1>4, <1>7, <1>9, <3>1
    <3>3. Ceiling(r) = Release(f[1] + 1, 0, 0)
      BY <2>1, <2>2, <3>2 DEF CaretCeiling
    <3> QED  BY <3>1, <3>2, <3>3 DEF r
  <2>3. CASE f[1] = 0 /\ f[2] > 0
    <3>1. Ceiling(c) = Release(0, f[2] + 1, 0)
      BY <2>1, <2>3 DEF CaretCeiling
    <3>2. v.core[1] = 0 /\ v.core[2] = f[2] /\ Ceiling(c) \in Versions
      BY <1>1, <1>4, <1>7, <1>9, <2>3, <3>1
    <3>3. Ceiling(r) = Release(0, f[2] + 1, 0)
      BY <2>1, <2>3, <3>2 DEF CaretCeiling
    <3> QED  BY <3>1, <3>2, <3>3 DEF r
  <2>4. CASE f[1] = 0 /\ f[2] = 0
    <3>1. Ceiling(c) = Release(0, 0, f[3] + 1)
      BY <2>1, <2>4 DEF CaretCeiling
    <3>2. v.core[1] = 0 /\ v.core[2] = 0 /\ v.core[3] = f[3] /\ Ceiling(c) \in Versions
      BY <1>1, <1>4, <1>7, <1>9, <2>4, <3>1
    <3>3. Ceiling(r) = Release(0, 0, f[3] + 1)
      BY <2>1, <3>2 DEF CaretCeiling
    <3> QED  BY <3>1, <3>2, <3>3 DEF r
  <2> QED  BY <1>4, <2>2, <2>3, <2>4
<1>11. CASE c.form = "tilde"
  <2>1. Ceiling(r) = Release(v.core[1], v.core[2] + 1, 0) /\ Ceiling(r) \in Versions
    <3>1. Ceiling(r) = Release(v.core[1], v.core[2] + 1, 0)
      BY <1>1, <1>2, <1>11 DEF Ceiling, DriftCeiling
    <3>2. v.core[2] + 1 \in Nat /\ 0 \in Nat
      BY <1>1
    <3> QED  BY <1>1, <3>1, <3>2, ReleaseIsVersion
  <2>2. CASE Len(c.parts) = 1
    <3>1. Ceiling(c) = Release(f[1] + 1, 0, 0)
      BY <1>3, <1>11, <2>2, FloorIsVersion DEF Ceiling, DriftCeiling
    <3>2. v.core[1] = f[1] /\ Ceiling(c) \in Versions
      BY <1>1, <1>4, <1>7, <1>9, <3>1
    <3>3. Ceiling(r).core[1] = v.core[1]
      BY <2>1 DEF Release
    <3>4. Below(Ceiling(r), Ceiling(c))
      BY <1>4, <2>1, <3>1, <3>2, <3>3, BelowNext
    <3> QED  BY <2>1, <3>2, <3>4 DEF r
  <2>3. CASE Len(c.parts) # 1
    <3>1. Ceiling(c) = Release(f[1], f[2] + 1, 0)
      BY <1>3, <1>11, <2>3, FloorIsVersion DEF Ceiling, DriftCeiling
    <3>2. v.core[1] = f[1] /\ v.core[2] = f[2] /\ Ceiling(c) \in Versions
      BY <1>1, <1>4, <1>7, <1>9, <3>1
    <3> QED  BY <2>1, <3>1, <3>2 DEF r
  <2> QED  BY <2>2, <2>3
<1> QED  BY <1>10, <1>11
(* What the raised range admits from its floor on, the one written before  *)
(* has admitted.                                                           *)
LEMMA RaisedNarrows ==
  ASSUME NEW c, c.form \in {"caret", "tilde"}, Spelt(c), NEW v \in Versions,
         Satisfies(c, v), v.core # Ceiling(c).core,
         NEW w \in Versions, w = v \/ Below(v, w),
         Below(w, Ceiling(Spelled(c.form, v.core, v.pre)))
  PROVE  Satisfies(c, w)
<1>1. Floor(c) \in Versions /\ ~Below(v, Floor(c))
  BY FloorIsVersion, Ranges
<1>2. ~Below(w, Floor(c))
  BY <1>1, BelowTransitive
<1>3. Below(w, Ceiling(c))
  BY CeilingOfRaised, BelowTransitive
<1> QED  BY <1>2, <1>3, Ranges

(* What an upgrade has raised is what was written, at the newest release.  *)
Released(i) == released[RootDeps[i].source]
Admitted(i) == {v \in Released(i) : Satisfies(raised[i], Tag[v])}

Rose(i) ==
  /\ i \in DOMAIN RootDeps /\ raised[i].form \in {"caret", "tilde"} /\ Spelt(raised[i])
  /\ Admitted(i) # {}
  /\ LET newest == Max(Admitted(i))
     IN  texts[i] = Spelled(raised[i].form, Tag[newest].core, Tag[newest].pre)
  /\ RootDeps[i].cons = Window(texts[i])

Raises == /\ \A i \in DOMAIN raised : Rose(i)
          /\ \A i \in DOMAIN texts : texts[i].form \in {"caret", "tilde"} => Spelt(texts[i])

LEMMA TagsAreVersions ==
  /\ \A v \in Version : v \in Nat /\ v \in 0 .. MaxVersion /\ Tag[v] \in Versions
  /\ MaxVersion \in Nat
  /\ \A v, w \in Version : Below(Tag[v], Tag[w]) <=> v < w
<1>1. \A v \in Version : v \in Nat /\ v \in 0 .. MaxVersion /\ MaxVersion \in Nat
  BY ResolverAssumption DEF Version
<1> QED  BY <1>1, ResolverAssumption, OfflineAssumption DEF Versions

LEMMA RewriteRaises ==
  ASSUME Typed, Spells, Raises, released' = released,
         NEW which \in SUBSET {i \in DOMAIN RootDeps : Raisable(i)}, Rewrite(which)
  PROVE  Raises'
<1>1. /\ \A i \in which : /\ texts'[i] = Raise(i) /\ RootDeps'[i].cons = Window(Raise(i))
                           /\ i \in DOMAIN RootDeps'
      /\ DOMAIN RootDeps' = DOMAIN RootDeps
      /\ \A i \in DOMAIN RootDeps : RootDeps'[i].source = RootDeps[i].source
  BY Rewrites
<1>2. /\ DOMAIN raised' = which /\ \A i \in which : raised'[i] = texts[i]
      /\ DOMAIN texts' = DOMAIN texts
      /\ \A i \in DOMAIN texts \ which : texts'[i] = texts[i]
  BY DEF Rewrite
<1>3. ASSUME NEW i \in which  PROVE Rose(i)' /\ Spelt(Raise(i))
  <2>1. /\ Newest(i) \in InWindow(i) /\ Tag[Newest(i)] \in Versions
        /\ texts[i].form \in {"caret", "tilde"}
    BY NewestIsThere
  <2>2. Admitted(i)' = InWindow(i)
    BY <1>1, <1>2 DEF Admitted, Released, InWindow
  <2>3. Max(Admitted(i)') = Newest(i)
    BY <2>2 DEF Newest
  <2>4. Spelt(texts[i]) /\ raised'[i] = texts[i]
    BY <1>2, <2>1 DEF Spells, Raises
  <2>5. Spelt(Raise(i))
    <3>1. PICK v \in Versions : v = Tag[Newest(i)]
      BY <2>1
    <3>2. v.core \in [1..3 -> Nat] /\ v.pre \in Seq({"num", "word"} \X Nat)
      BY DEF Versions
    <3>3. v.core \in Seq(Nat) /\ Len(v.core) = 3
      <4>1. PICK n \in Nat : n = 3
        OBVIOUS
      <4>2. v.core \in [1..n -> Nat]
        BY <3>2, <4>1
      <4>3. v.core \in Seq(Nat) /\ Len(v.core) = n
        BY <4>2
      <4> QED  BY <4>1, <4>3
    <3> QED  BY <3>1, <3>2, <3>3 DEF Spelt, Raise, Spelled
  <2>6. texts'[i] = Spelled(raised'[i].form, Tag[Newest(i)].core, Tag[Newest(i)].pre)
    BY <1>1, <2>4 DEF Raise
  <2>7. /\ i \in DOMAIN RootDeps' /\ Spelt(raised'[i]) /\ raised'[i].form \in {"caret", "tilde"}
        /\ Admitted(i)' # {} /\ RootDeps'[i].cons = Window(texts'[i])
    BY <1>1, <2>1, <2>2, <2>4
  <2> QED  BY <2>3, <2>5, <2>6, <2>7 DEF Rose, Spelt, Window
<1>4. ASSUME NEW i \in DOMAIN texts', texts'[i].form \in {"caret", "tilde"}
      PROVE  Spelt(texts'[i])
  BY <1>1, <1>2, <1>3, <1>4 DEF Raises
<1>5. (\A i \in DOMAIN raised : Rose(i))'
  BY <1>2, <1>3
<1> QED  BY <1>4, <1>5 DEF Raises, Spelt

LEMMA RaisesStep ==
  ASSUME Life, Raises, [NextProject]_allVars
  PROVE  Raises'
<1>1. CASE Upgrade \/ UpgradeFails
  <2>1. \E which \in SUBSET {i \in DOMAIN RootDeps : Raisable(i)} : Rewrite(which)
    BY <1>1, Upgraded DEF Life, Resolved
  <2>2. released' = released
    BY <1>1 DEF Upgrade, UpgradeFails, Resolve
  <2> QED  BY <2>1, <2>2, RewriteRaises DEF Life, Resolved
<1>2. CASE Edit
  <2>1. PICK m \in Manifests[Root] : texts' \in Texts(m.deps)
    BY <1>2 DEF Edit
  <2>2. \A i \in DOMAIN texts' : texts'[i] \in Written
    BY <2>1 DEF Texts
  <2>3. DOMAIN raised' = {}
    BY <1>2 DEF Edit
  <2> QED  BY <2>2, <2>3, OfflineAssumption DEF Raises, Spelt
<1>3. CASE Get \/ GetAgain \/ StartBuild \/ Walk \/ UNCHANGED allVars
  <2>1. UNCHANGED <<texts, raised, released>>
    BY <1>3 DEF Get, Next, Conflict, Keep, Unfetchable, Choose, Fresh, NextManifest, Finish, Note,
       GetAgain, Resolve, StartBuild, Walk, ImportGo, ImportSelf, ImportMissing, ImportCyclic,
       ImportNew, ImportSeen, Leave, allVars, vars, lifeVars
  <2>2. RootDeps' = RootDeps
    <3>1. CASE Get
      BY <3>1, StaysMet DEF Get, Life, Resolved, Typed, RootDeps
    <3>2. CASE ~Get
      BY <1>3, <3>2 DEF GetAgain, StartBuild, Walk, ImportGo, ImportSelf, ImportMissing,
         ImportCyclic, ImportNew, ImportSeen, Leave, allVars, vars, RootDeps
    <3> QED  BY <3>1, <3>2
  <2>3. \A i : Admitted(i)' = Admitted(i) /\ Rose(i)' = Rose(i)
    BY <2>1, <2>2 DEF Admitted, Released, Rose
  <2> QED  BY <2>1, <2>3 DEF Raises
<1> QED  BY <1>1, <1>2, <1>3 DEF NextProject

LEMMA RaisedIsNewest ==
  ASSUME Life, Raises, fresh, NEW i \in DOMAIN raised, NEW n, n = Max(Admitted(i))
  PROVE  LET s == RootDeps[i].source
         IN  /\ lock[s] >= n
             /\ Tag[n].core # Ceiling(raised[i]).core => lock[s] = n /\ ~Raisable(i)
<1>1. Rose(i) /\ Typed
  BY DEF Raises, Life, Resolved
<1>2. PICK s \in Source : s = RootDeps[i].source /\ released[s] \in SUBSET Version
  BY <1>1, RootIsMet DEF Rose, Typed
<1>3. /\ n \in Admitted(i) /\ \A v \in Admitted(i) : v <= n
      /\ n \in Version /\ Tag[n] \in Versions /\ Satisfies(raised[i], Tag[n])
  <2>1. \A v \in Admitted(i) : v \in Version
    BY <1>2 DEF Admitted, Released
  <2>2. Admitted(i) \in SUBSET (0 .. MaxVersion) /\ Admitted(i) # {}
    BY <1>1, <2>1, TagsAreVersions DEF Rose
  <2>3. n \in Admitted(i) /\ \A v \in Admitted(i) : n >= v
    <3> HIDE DEF Admitted
    <3> QED  BY <2>2, TagsAreVersions, GreatestIsMax
  <2>4. \A v \in Admitted(i) : v <= n
    BY <2>1, <2>3, TagsAreVersions
  <2> QED  BY <2>1, <2>3, <2>4, TagsAreVersions DEF Admitted
<1>4. /\ texts[i] = Spelled(raised[i].form, Tag[n].core, Tag[n].pre)
      /\ texts[i].form = raised[i].form /\ raised[i].form \in {"caret", "tilde"}
      /\ Spelt(raised[i]) /\ Floor(texts[i]) = Tag[n]
  BY <1>1, <1>3, FloorOfSpelled DEF Rose, Spelled
<1>5. PICK v : v = lock[s]
  OBVIOUS
<1>6. /\ v \in released[s] /\ v \in Version /\ v >= n
      /\ Below(Tag[v], Ceiling(texts[i]))
  <2>1. RInv /\ status = "done" /\ Root \in Selection
    BY DEF Life, Resolved, LockOfSelection, RInv, Selection
  <2>2. PICK d : d = manifest[Root].deps[i] /\ d = RootDeps[i] /\ i \in DOMAIN manifest[Root].deps
    BY <1>1 DEF Rose, RootDeps
  <2>3. /\ sel[s] # NoVersion /\ Meets(d.cons, sel[s]) /\ sel[s] \in released[s] \cup Commit
    BY <1>2, <2>1, <2>2, NeedsAreMet
  <2>4. v = sel[s]
    BY <1>5, <2>3 DEF Life, LockOfSelection
  <2>5. Satisfies(texts[i], Tag[n])
    BY <1>3, <1>4, RaisedAdmits
  <2>6. PICK lo \in Version, hi \in Version : /\ d.cons = Between(lo, hi)
                                            /\ Satisfies(texts[i], Tag[lo])
                                            /\ Satisfies(texts[i], Tag[hi])
    BY <1>1, <1>3, <1>4, <2>2, <2>5, WindowIsConstraint DEF Rose
  <2>7. v \in lo .. hi
    BY <2>3, <2>4, <2>6 DEF Meets, Admits, Between, AtCommit
  <2>8. lo \in Nat /\ hi \in Nat /\ hi <= MaxVersion /\ lo >= 1 /\ MaxVersion \in Nat
    BY ResolverAssumption DEF Version
  <2>9. v \in Version /\ v \in released[s]
    <3>1. v \in Version
      BY <2>7, <2>8 DEF Version
    <3> QED  BY <2>3, <2>4, <3>1, ResolverAssumption
  <2>10. ~Below(Tag[lo], Tag[n])
    BY <1>4, <2>6, Ranges
  <2>11. v >= n
    <3>1. ~(lo < n)
      BY <1>3, <2>10, TagsAreVersions
    <3> QED  BY <1>3, <2>7, <2>8, <3>1, TagsAreVersions
  <2>12. Below(Tag[hi], Ceiling(texts[i])) /\ Tag[hi] \in Versions /\ Tag[v] \in Versions
    BY <1>4, <2>6, <2>9, Ranges, TagsAreVersions
  <2>13. Ceiling(texts[i]) \in Versions
    BY <1>3, <1>4, CeilingOfSpelled
  <2>14. v = hi \/ Below(Tag[v], Tag[hi])
    BY <2>7, <2>8, <2>9, TagsAreVersions
  <2>15. Below(Tag[v], Ceiling(texts[i]))
    BY <2>12, <2>13, <2>14, BelowTransitive
  <2> QED  BY <2>9, <2>11, <2>15
<1>7. ASSUME Tag[n].core # Ceiling(raised[i]).core, NEW w \in released[s], w \in Version, w >= n,
             Below(Tag[w], Ceiling(texts[i]))
      PROVE  w = n
  <2>1. Tag[w] \in Versions /\ (Tag[w] = Tag[n] \/ Below(Tag[n], Tag[w]))
    <3>1. w = n \/ n < w
      BY <1>3, <1>7, TagsAreVersions
    <3> QED  BY <1>3, <1>7, <3>1, TagsAreVersions
  <2>2. Satisfies(raised[i], Tag[w])
    BY <1>3, <1>4, <1>7, <2>1, RaisedNarrows
  <2>3. w \in Admitted(i)
    BY <1>2, <2>2 DEF Admitted, Released
  <2> QED  BY <1>3, <1>7, <2>3, TagsAreVersions
<1>8. ASSUME Tag[n].core # Ceiling(raised[i]).core, Raisable(i)  PROVE FALSE
  <2>1. PICK w \in released[s] : Satisfies(texts[i], Tag[w]) /\ Below(Tag[n], Tag[w])
    BY <1>2, <1>4, <1>8 DEF Raisable, InWindow
  <2>2. w \in Version /\ w > n
    BY <1>2, <1>3, <2>1, TagsAreVersions
  <2>3. Below(Tag[w], Ceiling(texts[i]))
    BY <1>4, <2>1, Ranges
  <2> QED  BY <1>3, <1>7, <1>8, <2>2, <2>3, TagsAreVersions
<1> QED  BY <1>2, <1>5, <1>6, <1>7, <1>8

(* A successful upgrade, whatever was released, written and depended on    *)
(* (highestSatisfying, newFloorSpelling and rewriteDepVersion of           *)
(* cmd/aril/upgrade.go), locks the newest release of each range it raised, *)
(* and finds nothing to raise after it.                                    *)
THEOREM UpgradesAreNewest == SpecProject => []UpgradeTakesNewest
<1>1. InitProject => Life /\ Raises
  <2> SUFFICES ASSUME InitProject  PROVE Raises
    BY LifeStarts
  <2>1. DOMAIN raised = {} /\ \A i \in DOMAIN texts : texts[i] \in Written
    BY DEF InitProject, Texts
  <2> QED  BY <2>1, OfflineAssumption DEF Raises, Spelt
<1>2. Life /\ Raises /\ [NextProject]_allVars => (Life /\ Raises)'
  BY LifeStep, RaisesStep
<1>3. Life /\ Raises => UpgradeTakesNewest
  <2> SUFFICES ASSUME Life, Raises, fresh, NEW i \in DOMAIN raised
               PROVE  LET s == RootDeps[i].source
                          newest == Max({v \in released[s] : Satisfies(raised[i], Tag[v])})
                      IN  /\ lock[s] >= newest
                          /\ Tag[newest].core # Ceiling(raised[i]).core =>
                               lock[s] = newest /\ ~Raisable(i)
    BY DEF UpgradeTakesNewest
  <2> QED  BY RaisedIsNewest DEF Admitted, Released
<1> QED  BY <1>1, <1>2, <1>3, PTL DEF SpecProject
=============================================================================
