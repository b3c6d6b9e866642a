---------------------------- MODULE OfflineBuild ----------------------------
(***************************************************************************)
(* A project from `aril get` to `aril build`: the resolution of the        *)
(* dependencies (DependencyResolver) ends in aril.lock, `aril upgrade` and *)
(* the user change the manifest (cmd/aril/upgrade.go), and the build walks *)
(* the imports of the packages depth first (resolvePackages of             *)
(* cmd/aril/resolve.go), finding each module in the cache at the version   *)
(* that its importer pins, or else at the one in the lock.                 *)
(*                                                                         *)
(* A package is <<module, name>>: modules have a package "main", and the   *)
(* project has a second one, "pkg".  An import is Local(name), a package of *)
(* the importer's own module, or External(i), the package of its module's  *)
(* i-th dependency.  A dependency on GoModule is of kind "go": its importer *)
(* binds it with a table of its own.                                       *)
(*                                                                         *)
(* The resolver's versions are the ranks of those of Tag; what the user    *)
(* has written for a dependency is kept for `aril upgrade`, which raises   *)
(* the floor in the form it has.                                           *)
(***************************************************************************)
EXTENDS DependencyResolver, SemVer, SequencesExt

CONSTANTS Imports(_, _),  \* package, its manifest -> the import lists it may have
          Tag,            \* the versions that occur, in their order
          Written,        \* the constraints a user may write
          MaxChanges      \* bound: changes of the project's manifest

ASSUME OfflineAssumption ==
  /\ MaxChanges \in Nat /\ GoModule \in Source
  /\ Len(Tag) = MaxVersion
  /\ \A v \in Version : Tag[v] \in [core : [1..3 -> Nat], pre : Seq({"num", "word"} \X Nat)]
  /\ \A v, w \in Version : Below(Tag[v], Tag[w]) <=> v < w
  /\ \A c \in Written : c.form \in {"caret", "tilde"} =>
       c.parts \in Seq(Nat) /\ Len(c.parts) \in 1..3 /\ c.pre \in Seq({"num", "word"} \X Nat)

VARIABLES lock,     \* aril.lock: source -> version, or NoVersion
          fresh,    \* the lock is of the manifest as it is now
          texts,    \* the project's dependencies' constraints as written
          raised,   \* the dependencies the last upgrade raised: as written before
          changes,
          imports,  \* package -> what it imports, for the packages visited
          stack,    \* the packages being visited, outermost first
          done,     \* onStack's counterpart: how many imports of each are done
          binder,   \* who binds GoModule in this build, or Nobody
          build     \* "none", "walking", or how the build ended

lifeVars  == <<lock, fresh, texts, raised, changes>>
buildVars == <<imports, stack, done, binder, build>>
allVars   == <<vars, lifeVars, buildVars>>

Nobody == <<>>
Main == <<Root, "main">>

\* parseConstraint: the versions a constraint admits, which are an interval.
Window(c) ==
  LET admitted == {v \in Version : Satisfies(c, Tag[v])}
  IN  IF c.form = "exact" THEN Exact(Min(admitted)) ELSE Between(Min(admitted), Max(admitted))

RootDeps == manifest[Root].deps
Texts(deps) == {ts \in [DOMAIN deps -> Written] : \A i \in DOMAIN deps : Window(ts[i]) = deps[i].cons}

InitProject ==
  /\ Init
  /\ texts \in Texts(RootDeps)
  /\ lock = [s \in Source |-> NoVersion] /\ fresh = FALSE
  /\ raised = <<>> /\ changes = 0
  /\ imports = <<>> /\ stack = <<>> /\ done = <<>>
  /\ binder = Nobody /\ build = "none"

-----------------------------------------------------------------------------
(* `aril get` and `aril upgrade`. *)

\* The lock is written when the resolution has succeeded; a dependency on
\* the bound module's own source has the row.
Get ==
  /\ Next
  /\ IF status' = "done"
     THEN /\ lock' = [s \in Source |-> IF s = GoModule /\ sel[s] = NoVersion THEN bound ELSE sel[s]]
          /\ fresh' = TRUE
     ELSE UNCHANGED <<lock, fresh>>
  /\ UNCHANGED <<texts, raised, changes, buildVars>>

InWindow(i) == {v \in released[RootDeps[i].source] : Satisfies(texts[i], Tag[v])}

\* Only the caret or tilde range of an Aril dependency has a floor to raise.
Raisable(i) == /\ RootDeps[i].source # GoModule
               /\ texts[i].form \in {"caret", "tilde"}
               /\ \E v \in InWindow(i) : Below(Floor(texts[i]), Tag[v])

\* Mutant of Newest: the next release is taken.
NextNewer(i) == Min({v \in InWindow(i) : Below(Floor(texts[i]), Tag[v])})

\* highestSatisfying.
Newest(i) == Max(InWindow(i))

\* newFloorSpelling: all three numbers are written, and the pre-release.
Raise(i) == Spelled(texts[i].form, Tag[Newest(i)].core, Tag[Newest(i)].pre)

CanChange == /\ status # "resolving" /\ build = "none"
             /\ changes < MaxChanges /\ changes' = changes + 1

\* rewriteDepVersion for each dependency of `which`.
Rewrite(which) ==
  /\ texts' = [i \in DOMAIN texts |-> IF i \in which THEN Raise(i) ELSE texts[i]]
  /\ manifest' = [manifest EXCEPT ![Root].deps =
                   [i \in DOMAIN RootDeps |->
                      IF i \in which THEN [RootDeps[i] EXCEPT !.cons = Window(texts'[i])] ELSE RootDeps[i]]]
  /\ raised' = [i \in which |-> texts[i]]
  /\ fresh' = FALSE

\* A resolution starts anew, with the cache as it is.
Resolve ==
  /\ queue' = <<Root>> /\ at' = 0 /\ status' = "resolving"
  /\ reqs' = [s \in Source |-> {}] /\ sel' = [s \in Source |-> NoVersion] /\ bound' = NoVersion
  /\ UNCHANGED <<released, fetched, lock, buildVars>>

\* The dependencies named, or all; the manifest is rewritten first, then
\* resolved like by `aril get`.
Upgrade ==
  /\ CanChange
  /\ \E which \in SUBSET {i \in DOMAIN RootDeps : Raisable(i)} : which # {} /\ Rewrite(which)
  /\ Resolve

\* `aril get` after a change.
GetAgain ==
  /\ status # "resolving" /\ build = "none" /\ changes > 0 /\ ~fresh
  /\ Resolve
  /\ UNCHANGED <<manifest, fresh, texts, raised, changes>>

\* The tags of a later dependency cannot be listed: what was rewritten stays.
UpgradeFails ==
  /\ CanChange
  /\ \E last \in DOMAIN RootDeps :
       LET which == {i \in 1 .. last - 1 : Raisable(i)}
       IN which # {} /\ Rewrite(which)
  /\ UNCHANGED <<released, queue, at, reqs, sel, bound, fetched, status, lock, buildVars>>

\* The user edits the manifest and does not run `aril get`.
Edit ==
  /\ CanChange
  /\ \E m \in Manifests[Root] :
       m # manifest[Root] /\ manifest' = [manifest EXCEPT ![Root] = m] /\ texts' \in Texts(m.deps)
  /\ fresh' = FALSE /\ raised' = <<>>
  /\ UNCHANGED <<released, queue, at, reqs, sel, bound, fetched, status, lock, buildVars>>

-----------------------------------------------------------------------------
(* `aril build`. *)

\* Mutant of ConcreteVersion: the lowest version the constraint allows.
FloorVersion(d) == d.cons.lo

\* depConcreteVersion: a pin is its own version, a range's is in the lock.
ConcreteVersion(d) == IF d.cons.kind = "range" THEN lock[d.source] ELSE d.cons.lo

Local(name) == <<"local", name>>
External(i) == <<"external", i>>
IsLocal(import) == import[1] = "local"
DepOf(pkg, import) == manifest[pkg[1]].deps[import[2]]

\* What a file of a module with manifest m can import of the model's packages.
Importable(m) == {Local(name) : name \in {"main", "pkg"}} \cup {External(i) : i \in DOMAIN m.deps}

\* classifyImport: the package an import stands for.
Target(pkg, import) ==
  IF IsLocal(import) THEN <<pkg[1], import[2]>>
  ELSE <<<<DepOf(pkg, import).source, ConcreteVersion(DepOf(pkg, import))>>, "main">>
IsGo(pkg, import) == ~IsLocal(import) /\ DepOf(pkg, import).source = GoModule
IsSelf(pkg, import) == IsLocal(import) /\ Target(pkg, import) = pkg

Top == stack[Len(stack)]
Walking == build = "walking"
Pending == Walking /\ done[Len(done)] < Len(imports[Top])

\* The import at which the i-th package of the stack has arrived.
ImportAt(i) == imports[stack[i]][done[i] + 1]
Import == ImportAt(Len(stack))

Advance(ds) == [ds EXCEPT ![Len(ds)] = @ + 1]

Fail(code) == build' = code /\ UNCHANGED <<imports, stack, done, binder>>

Enter(pkg) ==
  \E list \in Imports(pkg, manifest[pkg[1]]) \cap Seq(Importable(manifest[pkg[1]])) :
    imports' = [p \in DOMAIN imports \cup {pkg} |-> IF p = pkg THEN list ELSE imports[p]]

StartBuild ==
  /\ status # "resolving" /\ build = "none"
  /\ build' = "walking"
  /\ Enter(Main)
  /\ stack' = <<Main>> /\ done' = <<0>>
  /\ UNCHANGED <<vars, lifeVars, binder>>

\* A binding may be the only one of its Go module, or has been met before.
Binds(owner) == IF binder \in {Nobody, owner} THEN binder' = owner /\ UNCHANGED build
                                            ELSE build' = "E0124" /\ UNCHANGED binder

\* kind = "go": a leaf, bound by the importer's table for it.
ImportGo ==
  /\ Pending /\ IsGo(Top, Import)
  /\ IF Target(Top, Import)[1] \in fetched
     THEN Binds(<<Top[1], Import>>) /\ done' = Advance(done) /\ UNCHANGED <<imports, stack>>
     ELSE Fail("E0121")
  /\ UNCHANGED <<vars, lifeVars>>

\* A package importing itself is a no-op.
ImportSelf ==
  /\ Pending /\ IsSelf(Top, Import)
  /\ done' = Advance(done)
  /\ UNCHANGED <<vars, lifeVars, imports, stack, binder, build>>

Missing == ~IsLocal(Import) /\ ~IsGo(Top, Import) /\ Target(Top, Import)[1] \notin fetched

\* manifestAt: the module is not in the cache.
ImportMissing ==
  /\ Pending /\ Missing
  /\ Fail("E0121")
  /\ UNCHANGED <<vars, lifeVars>>

Visiting == Pending /\ ~IsGo(Top, Import) /\ ~Missing /\ ~IsSelf(Top, Import)

\* Mutant of ImportCyclic: a package stays on the stack when it is left.
ImportVisited ==
  /\ Visiting
  /\ Target(Top, Import) \in DOMAIN imports
  /\ Fail("E0116")
  /\ UNCHANGED <<vars, lifeVars>>

ImportCyclic ==
  /\ Visiting
  /\ Target(Top, Import) \in ToSet(stack)
  /\ Fail("E0116")
  /\ UNCHANGED <<vars, lifeVars>>

ImportNew ==
  /\ Visiting
  /\ LET pkg == Target(Top, Import)
     IN  /\ pkg \notin DOMAIN imports
         /\ Enter(pkg)
         /\ stack' = Append(stack, pkg) /\ done' = Append(done, 0)
  /\ UNCHANGED <<vars, lifeVars, binder, build>>

\* What the importer of a package of another module does when its visit has
\* returned: the Go module a binding package names has to be in the cache,
\* and free.
Bind(pkg, import) ==
  LET pin == manifest[pkg[1]].binds
  IN  IF IsLocal(import) \/ pin = NoVersion THEN UNCHANGED <<binder, build>>
      ELSE IF <<GoModule, pin>> \notin fetched THEN build' = "E0121" /\ UNCHANGED binder
      ELSE Binds(pkg[1])

ImportSeen ==
  /\ Visiting
  /\ LET pkg == Target(Top, Import)
     IN  /\ pkg \in DOMAIN imports /\ pkg \notin ToSet(stack)
         /\ Bind(pkg, Import)
  /\ done' = Advance(done)
  /\ UNCHANGED <<vars, lifeVars, imports, stack>>

\* The end of a visit.
Leave ==
  /\ Walking /\ ~Pending
  /\ IF Len(stack) = 1
     THEN /\ build' = "built"
          /\ UNCHANGED <<stack, done, binder>>
     ELSE /\ stack' = Front(stack)
          /\ done' = Advance(Front(done))
          /\ Bind(Top, ImportAt(Len(stack) - 1))
  /\ UNCHANGED <<vars, lifeVars, imports>>

Walk == ImportGo \/ ImportSelf \/ ImportMissing \/ ImportCyclic \/ ImportNew \/ ImportSeen \/ Leave

NextProject == Get \/ Upgrade \/ GetAgain \/ UpgradeFails \/ Edit \/ StartBuild \/ Walk

SpecProject == InitProject /\ [][NextProject]_allVars

-----------------------------------------------------------------------------
(* Properties. *)

\* The modules a build takes its packages from.
InBuild == {pkg[1] : pkg \in DOMAIN imports} \ {Root}

\* Whatever the order of get, upgrade and build: a build of the manifest
\* that was locked takes each module at the version in the lock, and finds
\* it, as long as the binding packages agree on the Go module's pin.
BuildsWhatIsLocked ==
  fresh => /\ \A m \in InBuild : m[2] = lock[m[1]]
           /\ PinsAgree => build # "E0121"

\* The packages a package imports, itself and Go modules aside, and who
\* binds the Go module on its behalf.
ImportsOf(p) ==
  {Target(p, import) : import \in {im \in ToSet(imports[p]) : ~IsGo(p, im) /\ ~IsSelf(p, im)}}
BindsFor(p, import) == ~IsLocal(import) /\ ~IsGo(p, import) /\ manifest[Target(p, import)[1]].binds # NoVersion
OwnersOf(p) ==
  {<<p[1], import>> : import \in {im \in ToSet(imports[p]) : IsGo(p, im)}}
    \cup {Target(p, import)[1] : import \in {im \in ToSet(imports[p]) : BindsFor(p, im)}}

Visited == DOMAIN imports
HasCycle == \E ps \in (SUBSET Visited) \ {{}} : \A p \in ps : ImportsOf(p) \cap ps # {}
Owners == UNION {OwnersOf(p) : p \in Visited}

\* Whatever is imported how often and from where (diamonds, a package that
\* imports itself, cycles across modules): a finished build has every package
\* imported from the main one, no cycle, and one binding of the Go module at
\* most; a cycle is reported only if there is one.
BuildIsWhole ==
  /\ build = "built" => /\ \A p \in Visited : ImportsOf(p) \subseteq Visited
                        /\ ~HasCycle
                        /\ Cardinality(Owners) <= 1
  /\ build = "E0116" => HasCycle

\* A successful upgrade locks, for each dependency that it raised, the newest
\* release that what was written before admits, and leaves nothing to raise: a
\* second upgrade changes nothing.  Only a pre-release of the version at which
\* the range ends is no end: what is written for it goes on to the next
\* ceiling, up to which another dependency may push the lock.
UpgradeTakesNewest ==
  fresh => \A i \in DOMAIN raised :
    LET s == RootDeps[i].source
        newest == Max({v \in released[s] : Satisfies(raised[i], Tag[v])})
    IN  /\ lock[s] >= newest
        /\ Tag[newest].core # Ceiling(raised[i]).core => lock[s] = newest /\ ~Raisable(i)
=============================================================================
