------------------------- MODULE DependencyResolver -------------------------
(***************************************************************************)
(* The version selection of `aril get` (cmd/aril/getresolve.go and         *)
(* version.go): a worklist of manifests, each of whose dependencies adds a *)
(* constraint on a source, may raise the selected version of that source,  *)
(* and then fetches and enqueues the manifest of the newly selected        *)
(* version.  A manifest is met at most once, so what it declares is chosen *)
(* when it is; Manifests bounds the choice.                                *)
(*                                                                         *)
(* Versions are the ranks of the semantic versions that occur, so an       *)
(* interval of ranks stands for any conjunction of comparators.            *)
(***************************************************************************)
EXTENDS Naturals, Sequences, FiniteSetsExt

CONSTANTS Source,      \* the git sources of Aril modules
          MaxVersion,  \* bound: versions are 1..MaxVersion
          Commit,      \* the commits a constraint can pin
          GoModule,    \* the Go module that binding packages bind
          Manifests,   \* module, or Root -> what its manifest may declare
          Releases,    \* what the git hosts may have released
          NoVersion,   \* no version selected yet
          Root         \* the project's own manifest

Version == 1..MaxVersion
Pin == Version \cup Commit

(***************************************************************************)
(* A constraint is a range of versions, an exact version, or a commit.  A  *)
(* manifest is a sequence of dependencies, and a binding package also pins *)
(* the Go module it binds.                                                 *)
(***************************************************************************)
Between(lo, hi) == [kind |-> "range", lo |-> lo, hi |-> hi]
Exact(v)      == [kind |-> "exact", lo |-> v, hi |-> v]
AtCommit(k)   == [kind |-> "commit", lo |-> k, hi |-> k]
Constraint == {Between(lo, hi) : lo, hi \in Version} \cup {Exact(v) : v \in Version}
              \cup {AtCommit(k) : k \in Commit}
Dep == [source : Source, cons : Constraint]
Module == Source \X Pin
Manifest == [deps : Seq(Dep), binds : Version \cup {NoVersion}]

ASSUME ResolverAssumption ==
  /\ MaxVersion \in Nat \ {0}
  /\ Commit \cap Version = {} /\ NoVersion \notin Pin /\ Root \notin Module
  /\ Manifests \in [{Root} \cup Module -> SUBSET Manifest]
  /\ Releases \subseteq [Source -> SUBSET Version]

VARIABLES released, \* source -> its version tags
          manifest, \* the manifests met so far
          queue,    \* manifests still to be read, the first one being read
          at,       \* the dependencies of the first one read so far
          reqs,     \* source -> the constraints met so far
          sel,      \* source -> the selected version
          bound,    \* the pin of GoModule first met
          fetched,  \* the source-version pairs in the cache
          status    \* "resolving", or how it ended

vars == <<released, manifest, queue, at, reqs, sel, bound, fetched, status>>

Init ==
  /\ released \in Releases
  /\ \E m \in Manifests[Root] : manifest = [n \in {Root} |-> m]
  /\ queue = <<Root>> /\ at = 0
  /\ reqs = [s \in Source |-> {}]
  /\ sel = [s \in Source |-> NoVersion]
  /\ bound = NoVersion /\ fetched = {} /\ status = "resolving"

-----------------------------------------------------------------------------
\* Mutant: every lower bound is exclusive.
AdmitsAbove(c, v) == c.kind # "commit" /\ v > c.lo /\ v <= c.hi

Admits(c, v) == c.kind # "commit" /\ v \in c.lo..c.hi

\* The versions mvsSelect chooses from: the exact pins, and the released
\* ones as soon as one constraint is a range.
Candidates(s, rs) ==
  {c.lo : c \in {r \in rs : r.kind = "exact"}} \cup
  (IF \E r \in rs : r.kind = "range" THEN released[s] ELSE {})

Satisfying(s, rs) == {v \in Candidates(s, rs) : \A r \in rs : Admits(r, v)}

\* maxFloor, for a source with no candidate at all.
MaxFloor(rs) == Max({r.lo : r \in rs})

\* selectVersion: commits are exact, else the lowest version that satisfies
\* every constraint; NoVersion is the conflict E0122.
SelectVersion(s, rs) ==
  LET pins == {r.lo : r \in {q \in rs : q.kind = "commit"}}
  IN IF pins # {} THEN IF \A r \in rs : pins = {r.lo} THEN CHOOSE k \in pins : TRUE
                       ELSE NoVersion
     ELSE IF Candidates(s, rs) = {}
          THEN IF \A r \in rs : Admits(r, MaxFloor(rs)) THEN MaxFloor(rs) ELSE NoVersion
     ELSE IF Satisfying(s, rs) = {} THEN NoVersion
     ELSE Min(Satisfying(s, rs))

Deps == manifest[Head(queue)].deps
Reading == status = "resolving" /\ queue # <<>> /\ at < Len(Deps)
Current == Deps[at + 1]

\* The constraints on the current dependency's source, its own included.
Known == reqs[Current.source] \cup {Current.cons}
Selected == SelectVersion(Current.source, Known)
Note == /\ reqs' = [reqs EXCEPT ![Current.source] = Known]
        /\ UNCHANGED released

\* What the git host can deliver: a released tag or a commit.
CanFetch(s, v) == v \in released[s] \cup Commit

Conflict ==
  /\ Reading /\ Selected = NoVersion
  /\ Note /\ status' = "E0122"
  /\ UNCHANGED <<manifest, queue, at, sel, bound, fetched>>

\* Mutant: an unchanged selection is read again.
KeepReading ==
  /\ Reading /\ Selected # NoVersion /\ Selected = sel[Current.source]
  /\ Note /\ at' = at + 1
  /\ queue' = Append(queue, <<Current.source, Selected>>)
  /\ UNCHANGED <<manifest, sel, bound, fetched, status>>

\* The selection does not change: its manifest has been enqueued already.
Keep ==
  /\ Reading /\ Selected # NoVersion /\ Selected = sel[Current.source]
  /\ Note /\ at' = at + 1
  /\ UNCHANGED <<manifest, queue, sel, bound, fetched, status>>

\* A first or higher selection that the host does not have.
Unfetchable ==
  /\ Reading /\ Selected \notin {NoVersion, sel[Current.source]}
  /\ ~CanFetch(Current.source, Selected)
  /\ Note /\ status' = "unfetchable"
  /\ sel' = [sel EXCEPT ![Current.source] = Selected]
  /\ UNCHANGED <<manifest, queue, at, bound, fetched>>

Fresh == /\ Reading /\ Selected \notin {NoVersion, sel[Current.source]}
         /\ CanFetch(Current.source, Selected)

\* The manifest at the head of a fetched module's tree.
Meet(m) == IF m \in DOMAIN manifest THEN UNCHANGED manifest
           ELSE \E x \in Manifests[m] :
                 manifest' = [n \in DOMAIN manifest \cup {m} |->
                                IF n = m THEN x ELSE manifest[n]]

\* The pin a binding package brings of the Go module it binds: the first one
\* met is fetched and stays.
NewBound(m) == IF bound = NoVersion THEN manifest'[m].binds ELSE bound

\* Mutant: a new selection of a source that was read before is not read.
ChooseOnce ==
  /\ Fresh /\ Note
  /\ LET s == Current.source
         m == <<s, Selected>>
     IN /\ sel' = [sel EXCEPT ![s] = Selected]
        /\ fetched' = fetched \cup {m}
        /\ queue' = IF sel[s] = NoVersion THEN Append(queue, m) ELSE queue
        /\ Meet(m) /\ bound' = NewBound(m)
  /\ at' = at + 1 /\ UNCHANGED status

\* A first or higher selection: fetch it and its bound module, enqueue it.
Choose ==
  /\ Fresh /\ Note
  /\ LET s == Current.source
         m == <<s, Selected>>
     IN /\ sel' = [sel EXCEPT ![s] = Selected]
        /\ Meet(m) /\ bound' = NewBound(m)
        /\ fetched' = fetched \cup {m} \cup
             (IF bound' # bound THEN {<<GoModule, bound'>>} ELSE {})
        /\ queue' = Append(queue, m)
  /\ at' = at + 1 /\ UNCHANGED status

\* The next manifest of the worklist.
NextManifest ==
  /\ status = "resolving" /\ queue # <<>> /\ at = Len(Deps)
  /\ queue' = Tail(queue) /\ at' = 0
  /\ UNCHANGED <<released, manifest, reqs, sel, bound, fetched, status>>

\* The worklist is empty: the selection becomes the lock.
Finish ==
  /\ status = "resolving" /\ queue = <<>> /\ status' = "done"
  /\ UNCHANGED <<released, manifest, queue, at, reqs, sel, bound, fetched>>

Next == Conflict \/ Keep \/ Unfetchable \/ Choose \/ NextManifest \/ Finish

Spec == Init /\ [][Next]_vars /\ WF_vars(Next)

-----------------------------------------------------------------------------
\* The modules the selection consists of, and the root.
Selection == {Root} \cup {<<s, sel[s]>> : s \in {t \in Source : sel[t] # NoVersion}}

\* Whatever order the manifests were read in, and however often a selection
\* rose while others were waiting, the lock is closed: each dependency of
\* each selected version is selected, fetched, and satisfies the constraint
\* the selected version states (resolveGraph's fixpoint, "never a wrong
\* build").
SelectionIsClosed ==
  status = "done" =>
    \A m \in Selection : \A i \in DOMAIN manifest[m].deps :
      LET d == manifest[m].deps[i]
      IN /\ <<d.source, sel[d.source]>> \in fetched
         /\ d.cons \in {AtCommit(sel[d.source])} \/ Admits(d.cons, sel[d.source])
         /\ sel[d.source] \in released[d.source] \cup Commit

\* A graph of floors only, each with a release above it, has no conflict,
\* whatever order it is read in: every E0122 comes from a ceiling, an exact
\* pin or a commit (mvsSelect).
FloorsOnly(m) == \A i \in DOMAIN manifest[m].deps :
  LET d == manifest[m].deps[i]
  IN d.cons.kind = "range" /\ d.cons.hi = MaxVersion
     /\ \E v \in released[d.source] : v >= d.cons.lo
FloorsResolve ==
  (\A m \in DOMAIN manifest : FloorsOnly(m)) =>
    status \in {"resolving", "done"}

\* The binding packages agree on the pin of the Go module they bind.
Binding == {m \in DOMAIN manifest : manifest[m].binds # NoVersion}
PinsAgree == \A m, n \in Binding : manifest[m].binds = manifest[n].binds

\* Every resolution ends, in cyclic graphs too.
Terminates == <>(status # "resolving")

=============================================================================
