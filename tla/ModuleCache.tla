---------------------------- MODULE ModuleCache ----------------------------
(***************************************************************************)
(* One dependency, source@version, as `aril get` and `aril build` see it   *)
(* (cmd/aril/get.go, lockfile.go, getresolve.go, main.go).  Every machine  *)
(* has one cache directory for it, dest, and one scratch directory,        *)
(* dest.fetching, whichever checkout fetches; every checkout of a project  *)
(* has its own aril.lock.  The version is a tag of a git host, which the   *)
(* host may move; a checkout may pull the lock another one committed.      *)
(* Every system call of the fetch is a step, and a get may die at any of   *)
(* them.                                                                   *)
(***************************************************************************)
EXTENDS Naturals

CONSTANTS Checkout,      \* working copies in which the commands run
          Machine,       \* hosts, each with one shared cache
          Home,          \* the machine a checkout is on
          MaxTag,        \* bound: the tag names commits 1..MaxTag over time
          MaxCrashes,    \* bound: gets that die half way
          LocksTravel,   \* a checkout may pull another's committed lock
          GetsOverlap,   \* two gets of a machine may run at the same time
          BuildsOverlap, \* a build may run while a get of its machine does
          NoTree,        \* an absent directory
          NoLock,        \* an absent aril.lock
          Emptied,       \* a lock of no rows: what a truncation leaves
          Torn           \* a lock that does not parse

ASSUME CacheAssumption ==
  /\ Home \in [Checkout -> Machine]
  /\ MaxTag \in Nat \ {0} /\ MaxCrashes \in Nat
  /\ {LocksTravel, GetsOverlap, BuildsOverlap} \subseteq BOOLEAN

VARIABLES tag,      \* the commit the tag names on the git host
          dest,     \* machine -> the cache entry
          tmp,      \* machine -> the scratch directory
          cloner,   \* machine -> the checkout whose git clone filled tmp
          lock,     \* checkout -> its aril.lock
          pc,       \* checkout -> the next step of its command, or "idle"
          commit,   \* checkout -> the commit its get resolved, or NoCommit
          seen,     \* checkout -> the lock its command read when it began
          row,      \* checkout -> the lock row its get is about to write
          out,      \* checkout -> how its last command ended
          crashes

vars == <<tag, dest, tmp, cloner, lock, pc, commit, seen, row, out,
          crashes>>
disk == <<tag, dest, tmp, cloner, lock>>

NoCommit == 0
Commits  == 1..MaxTag

(***************************************************************************)
(* A directory by what tells its content hash apart: the commit it is      *)
(* made from, how far git got, and whether .git is still in it.            *)
(***************************************************************************)
Trees == [commit : Commits \cup {NoCommit},
          stage : {"cloning", "cloned", "checkedout"}, git : BOOLEAN]
Rows  == [resolved : Commits \cup {NoCommit}, hash : Trees]
Whole(t) == t.stage = "checkedout" /\ ~t.git

ASSUME AbsentAssumption ==
  NoTree \notin Trees /\ {NoLock, Emptied, Torn} \cap Rows = {}

FetchSteps == {"stat", "clean", "clone", "cloning", "checkout", "strip",
               "replace", "rename", "abort"}
GetSteps   == FetchSteps \cup {"hash", "truncate", "write"}
BuildSteps == {"verify", "compile"}
Outcomes   == {"none", "got", "unreachable", "disturbed", "killed", "built",
               "E0121", "E0123", "badlock"}

HasRow(l) == l \notin {NoLock, Emptied, Torn}
Runs(c, steps) == pc[c] \in steps
OnMachine(h, steps) == \E c \in Checkout : Home[c] = h /\ Runs(c, steps)

Init ==
  /\ tag = 1 /\ crashes = 0
  /\ dest = [h \in Machine |-> NoTree]
  /\ tmp = [h \in Machine |-> NoTree]
  /\ cloner = [h \in Machine |-> CHOOSE c \in Checkout : TRUE]
  /\ lock = [c \in Checkout |-> NoLock]
  /\ pc = [c \in Checkout |-> "idle"]
  /\ commit = [c \in Checkout |-> NoCommit]
  /\ seen = [c \in Checkout |-> NoLock]
  /\ row = [c \in Checkout |-> NoLock]
  /\ out = [c \in Checkout |-> "none"]

Goto(c, step) == pc' = [pc EXCEPT ![c] = step]

\* A command ends, and its variables with it.
End(c, how) == /\ Goto(c, "idle") /\ out' = [out EXCEPT ![c] = how]
               /\ seen' = [seen EXCEPT ![c] = NoLock]
EndGet(c, how) == /\ End(c, how)
                  /\ commit' = [commit EXCEPT ![c] = NoCommit]
                  /\ row' = [row EXCEPT ![c] = NoLock]

-----------------------------------------------------------------------------
\* aril get: resolveGraph reads the old lock for its pins, then fetches.
BeginGet(c) ==
  /\ pc[c] = "idle"
  /\ GetsOverlap \/ ~OnMachine(Home[c], GetSteps)
  /\ BuildsOverlap \/ ~OnMachine(Home[c], BuildSteps)
  /\ seen' = [seen EXCEPT ![c] = lock[c]]
  /\ Goto(c, "stat") /\ out' = [out EXCEPT ![c] = "none"]
  /\ UNCHANGED <<disk, commit, row, crashes>>

\* ensureFetched: an existing directory is taken to be a complete entry.
Reuse(c) ==
  /\ pc[c] = "stat" /\ dest[Home[c]] # NoTree
  /\ Goto(c, "hash")
  /\ UNCHANGED <<disk, commit, seen, row, out, crashes>>

Miss(c) ==
  /\ pc[c] = "stat" /\ dest[Home[c]] = NoTree
  /\ Goto(c, "clean")
  /\ UNCHANGED <<disk, commit, seen, row, out, crashes>>

SetTmp(c, t) == tmp' = [tmp EXCEPT ![Home[c]] = t]

\* Mutant: what an earlier get left in tmp is kept.
CleanForgotten(c) ==
  /\ pc[c] = "clean" /\ Goto(c, "clone")
  /\ UNCHANGED <<disk, commit, seen, row, out, crashes>>
\* os.RemoveAll(tmp): whatever is there, whoever put it there.
Clean(c) ==
  /\ pc[c] = "clean" /\ SetTmp(c, NoTree) /\ Goto(c, "clone")
  /\ UNCHANGED <<tag, dest, cloner, lock, commit, seen, row, out,
                 crashes>>

\* git clone refuses a directory that is not empty; else it starts filling it.
BeginClone(c) ==
  /\ pc[c] = "clone"
  /\ IF tmp[Home[c]] = NoTree
     THEN /\ SetTmp(c, [commit |-> NoCommit, stage |-> "cloning", git |-> TRUE])
          /\ cloner' = [cloner EXCEPT ![Home[c]] = c]
          /\ Goto(c, "cloning") /\ UNCHANGED out
     ELSE /\ UNCHANGED <<tmp, cloner>>
          /\ Goto(c, "abort") /\ out' = [out EXCEPT ![c] = "disturbed"]
  /\ UNCHANGED <<tag, dest, lock, commit, seen, row, crashes>>

\* A git command, which fails when its directory is not what it left there.
GitStep(c, ok, tree, next) ==
  IF ok THEN SetTmp(c, tree) /\ Goto(c, next) /\ UNCHANGED out
        ELSE /\ UNCHANGED tmp /\ Goto(c, "abort")
             /\ out' = [out EXCEPT ![c] = "disturbed"]

\* The clone ends: it has every ref, so what the tag names now is settled.
EndClone(c) ==
  LET t == tmp[Home[c]]
      mine == t # NoTree /\ cloner[Home[c]] = c
  IN /\ pc[c] = "cloning"
     /\ GitStep(c, mine /\ t.stage = "cloning" /\ t.git,
                [commit |-> tag, stage |-> "cloned", git |-> TRUE], "checkout")
     /\ UNCHANGED <<tag, dest, cloner, lock, commit, seen, row, crashes>>

\* ... or the host cannot be reached.
CloneFails(c) ==
  /\ pc[c] = "cloning" /\ Goto(c, "abort")
  /\ out' = [out EXCEPT ![c] = "unreachable"]
  /\ UNCHANGED <<disk, commit, seen, row, crashes>>

\* show-ref, checkout and rev-parse: the pin is a tag, its commit is noted.
CheckoutTag(c) ==
  LET t == tmp[Home[c]]
      usable == t # NoTree /\ t.git /\ t.stage # "cloning"
  IN /\ pc[c] = "checkout"
     /\ GitStep(c, usable, [t EXCEPT !.stage = "checkedout"], "strip")
     /\ commit' = IF usable THEN [commit EXCEPT ![c] = t.commit] ELSE commit
     /\ UNCHANGED <<tag, dest, cloner, lock, seen, row, crashes>>

\* os.RemoveAll(tmp/.git)
Strip(c) ==
  LET t == tmp[Home[c]]
  IN /\ pc[c] = "strip"
     /\ SetTmp(c, IF t = NoTree THEN t ELSE [t EXCEPT !.git = FALSE])
     /\ Goto(c, "replace")
     /\ UNCHANGED <<tag, dest, cloner, lock, commit, seen, row, out,
                    crashes>>

\* os.RemoveAll(dest)
Replace(c) ==
  /\ pc[c] = "replace"
  /\ dest' = [dest EXCEPT ![Home[c]] = NoTree]
  /\ Goto(c, "rename")
  /\ UNCHANGED <<tag, tmp, cloner, lock, commit, seen, row, out, crashes>>

\* os.Rename(tmp, dest), which fails without a tmp or onto an entry.
Rename(c) ==
  LET h == Home[c]
  IN /\ pc[c] = "rename"
     /\ IF tmp[h] # NoTree /\ dest[h] = NoTree
        THEN /\ dest' = [dest EXCEPT ![h] = tmp[h]] /\ SetTmp(c, NoTree)
             /\ Goto(c, "hash") /\ UNCHANGED out
        ELSE /\ UNCHANGED <<dest, tmp>> /\ Goto(c, "abort")
             /\ out' = [out EXCEPT ![c] = "disturbed"]
     /\ UNCHANGED <<tag, cloner, lock, commit, seen, row, crashes>>

\* Every error of fetchModule removes tmp on its way out; the lock is kept.
Abort(c) ==
  /\ pc[c] = "abort" /\ SetTmp(c, NoTree) /\ EndGet(c, out[c])
  /\ UNCHANGED <<tag, dest, cloner, lock, crashes>>

\* The commit of the row: the one just fetched, or the old lock's on a hit.
Resolved(c) == IF commit[c] # NoCommit \/ ~HasRow(seen[c]) THEN commit[c]
               ELSE seen[c].resolved

\* resolveGraph's end: hashTree over the entry as it is now.
Hash(c) ==
  LET t == dest[Home[c]]
  IN /\ pc[c] = "hash"
     /\ IF t = NoTree THEN EndGet(c, "disturbed")
        ELSE /\ row' = [row EXCEPT ![c] = [resolved |-> Resolved(c), hash |-> t]]
             /\ Goto(c, "truncate") /\ UNCHANGED <<commit, seen, out>>
     /\ UNCHANGED <<disk, crashes>>

\* writeLock: os.WriteFile truncates the file, then fills it.
Truncate(c) ==
  /\ pc[c] = "truncate" /\ Goto(c, "write")
  /\ lock' = [lock EXCEPT ![c] = Emptied]
  /\ UNCHANGED <<tag, dest, tmp, cloner, commit, seen, row, out, crashes>>

WriteRow(c) ==
  /\ pc[c] = "write" /\ EndGet(c, "got")
  /\ lock' = [lock EXCEPT ![c] = row[c]]
  /\ UNCHANGED <<tag, dest, tmp, cloner, crashes>>

\* The get is killed: the disk stays as it is, the lock half written.
Die(c) ==
  /\ pc[c] \in GetSteps /\ crashes < MaxCrashes
  /\ crashes' = crashes + 1 /\ EndGet(c, "killed")
  /\ \/ UNCHANGED lock
     \/ pc[c] = "write" /\ lock' = [lock EXCEPT ![c] = Torn]
  /\ UNCHANGED <<tag, dest, tmp, cloner>>

-----------------------------------------------------------------------------
\* aril build: buildUnit reads the lock and fails closed on one it cannot parse.
BeginBuild(c) ==
  /\ pc[c] = "idle"
  /\ BuildsOverlap \/ ~OnMachine(Home[c], GetSteps)
  /\ IF lock[c] = Torn THEN End(c, "badlock")
     ELSE /\ seen' = [seen EXCEPT ![c] = lock[c]]
          /\ Goto(c, "verify") /\ out' = [out EXCEPT ![c] = "none"]
  /\ UNCHANGED <<disk, commit, row, crashes>>

\* Mutant: the check passes over a tree it finds changed.
VerifyPresence(c) ==
  /\ pc[c] = "verify" /\ Goto(c, "compile")
  /\ UNCHANGED <<disk, commit, seen, row, out, crashes>>

\* verifyLockedCache: an entry that is there must hash as its row says.
Verify(c) ==
  LET t == dest[Home[c]]
  IN /\ pc[c] = "verify"
     /\ IF HasRow(seen[c]) /\ t # NoTree /\ t # seen[c].hash
        THEN End(c, "E0123")
        ELSE Goto(c, "compile") /\ UNCHANGED <<out, seen>>
     /\ UNCHANGED <<disk, commit, row, crashes>>

\* resolvePackages finds the entry or not, and its sources are compiled.
Compile(c) ==
  LET t == dest[Home[c]]
  IN /\ pc[c] = "compile"
     /\ End(c, IF t = NoTree THEN "E0121" ELSE "built")
     /\ UNCHANGED <<disk, commit, row, crashes>>

-----------------------------------------------------------------------------
\* The host moves the tag.
Retag ==
  /\ tag < MaxTag /\ tag' = tag + 1
  /\ UNCHANGED <<dest, tmp, cloner, lock, pc, commit, seen, row, out,
                 crashes>>

\* A checkout pulls the lock another one wrote and committed.
Pull(c, d) ==
  /\ LocksTravel /\ pc[c] = "idle" /\ HasRow(lock[d])
  /\ lock[c] # lock[d] /\ lock' = [lock EXCEPT ![c] = lock[d]]
  /\ out' = [out EXCEPT ![c] = "none"]
  /\ UNCHANGED <<tag, dest, tmp, cloner, pc, commit, seen, row, crashes>>

Fetch(c) == Reuse(c) \/ Miss(c) \/ Clean(c) \/ BeginClone(c) \/ EndClone(c)
            \/ CloneFails(c) \/ CheckoutTag(c) \/ Strip(c) \/ Replace(c)
            \/ Rename(c) \/ Abort(c)
Get(c)   == BeginGet(c) \/ Fetch(c) \/ Hash(c) \/ Truncate(c) \/ WriteRow(c)
            \/ Die(c)
Build(c) == BeginBuild(c) \/ Verify(c) \/ Compile(c)

Next == \/ \E c \in Checkout : Get(c) \/ Build(c)
        \/ \E c, d \in Checkout : Pull(c, d)
        \/ Retag

Spec == Init /\ [][Next]_vars

-----------------------------------------------------------------------------
\* Nothing an earlier get left behind makes a later one fail: a get ends
\* with a lock unless the host is unreachable or it is killed (fetchModule's
\* RemoveAll calls).
NeverDisturbed == \A c \in Checkout : out[c] # "disturbed"

Compiles(c) == pc[c] = "compile" /\ pc'[c] = "idle" /\ out'[c] = "built"

\* A build whose lock has a row compiles the tree the row describes, though
\* the row came from another machine and the tag has moved since
\* (verifyLockedCache before resolvePackages).
BuildIsPinned ==
  [][\A c \in Checkout : Compiles(c) /\ HasRow(seen[c]) =>
       dest[Home[c]] = seen[c].hash]_vars

=============================================================================
