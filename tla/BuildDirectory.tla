--------------------------- MODULE BuildDirectory ---------------------------
(***************************************************************************)
(* The build directory of a project (cmd/aril/outdir.go, lock_unix.go,     *)
(* clean.go, main.go): `aril build` and `aril run` processes write the     *)
(* lowered Go module into gen/ under an flock of the file .lock, have the  *)
(* Go compiler build it, and `aril clean` removes all or part of it.       *)
(*                                                                         *)
(* The flock belongs to the inode that was opened, not to the name .lock.  *)
(* A file's content is the number of the build that wrote it: each lowers  *)
(* a program of its own, which imports the vendored runtime or not.        *)
(***************************************************************************)
EXTENDS Naturals, FiniteSets

CONSTANTS Builders, Cleaners,
          MaxBuilds,     \* bound: builds started
          MaxCrashes     \* bound: processes that die, or fail to write

NoOne  == "no one"

ASSUME BuildAssumption == /\ MaxBuilds \in Nat /\ MaxCrashes \in Nat
                          /\ Builders \cap Cleaners = {} /\ NoOne \notin Builders

Absent == 0
Torn   == MaxBuilds + 1     \* truncated, its writer died
Jobs   == 1 .. MaxBuilds

VARIABLES pc,          \* where each process is
          job,         \* the number of a process's build
          vendored,    \* whether what a build lowers imports the runtime
          fd,          \* the inode of .lock a builder has open, or Absent
          dotLock,     \* the inode the name .lock stands for, or Absent
          inodes,      \* how many .lock files there have been
          flock,       \* inode |-> its holder
          gen,         \* the files of gen/; "dir" is whether there is one
          built,       \* what the Go compiler built for each build
          builds, crashes,
          unlinked,    \* .lock was removed while a builder had it open
          interrupted  \* a build died before it recorded what it had written

vars == <<pc, job, vendored, fd, dotLock, inodes, flock, gen, built, builds, crashes, unlinked, interrupted>>
lock == <<fd, dotLock, inodes, flock>>
counts == <<builds, crashes, unlinked, interrupted>>

\* runtime: the build that copied the arilrt sources; recorded: the files
\* the manifest .aril-emitted lists, besides main.go and go.mod.
NoGen == [dir |-> FALSE, main |-> Absent, gomod |-> Absent, runtime |-> Absent, recorded |-> {}]

Uses(p) == vendored[job[p]]

Emitted(p) == IF Uses(p) THEN {"runtime"} ELSE {}
-----------------------------------------------------------------------------
Init == /\ pc = [p \in Builders \cup Cleaners |-> "idle"]
        /\ job = [p \in Builders |-> Absent]
        /\ vendored = [n \in Jobs |-> FALSE]
        /\ fd = [p \in Builders |-> Absent]
        /\ dotLock = Absent
        /\ inodes = 0
        /\ flock = [n \in Jobs |-> NoOne]
        /\ gen = NoGen
        /\ built = [n \in Jobs |-> NoGen]
        /\ builds = 0 /\ crashes = 0
        /\ unlinked = FALSE /\ interrupted = FALSE

Go(p, from, to) == pc[p] = from /\ pc' = [pc EXCEPT ![p] = to]

\* acquireBuildLock: the file is created, or opened when it is there.
OpenLock(p) == /\ Go(p, "idle", "wait")
               /\ builds < MaxBuilds /\ builds' = builds + 1
               /\ IF dotLock = Absent
                  THEN dotLock' = inodes + 1 /\ inodes' = inodes + 1
                  ELSE UNCHANGED <<dotLock, inodes>>
               /\ fd' = [fd EXCEPT ![p] = dotLock']
               /\ job' = [job EXCEPT ![p] = builds']
               /\ UNCHANGED <<vendored, flock, gen, built, crashes, unlinked, interrupted>>

\* Mutant of TakeLock: no lock is taken, as where there is no flock.
TakeNoLock(p) == /\ Go(p, "wait", "lower")
                 /\ UNCHANGED <<job, vendored, lock, gen, built, counts>>

\* flock(LOCK_EX) waits for the holder of the inode.
TakeLock(p) == /\ Go(p, "wait", "lower")
               /\ flock[fd[p]] = NoOne
               /\ flock' = [flock EXCEPT ![fd[p]] = p]
               /\ UNCHANGED <<job, vendored, fd, dotLock, inodes, gen, built, counts>>

\* buildUnit and compilePackage: a Go program, or an error.
Lower(p) == /\ \/ Go(p, "lower", "mkdir") /\ \E v \in BOOLEAN : vendored' = [vendored EXCEPT ![job[p]] = v]
               \/ Go(p, "lower", "release") /\ UNCHANGED vendored
            /\ UNCHANGED <<job, lock, gen, built, counts>>

\* writeProjectModule, one file after the other.  A file cannot be written
\* in a directory that is gone; the runtime's directory is made with gen/.
MkdirGen(p) == /\ Go(p, "mkdir", "main")
               /\ gen' = [gen EXCEPT !.dir = TRUE]
               /\ UNCHANGED <<job, vendored, lock, built, counts>>

WriteMain(p) == /\ IF gen.dir THEN Go(p, "main", "gomod") /\ gen' = [gen EXCEPT !.main = job[p]]
                              ELSE Go(p, "main", "release") /\ UNCHANGED gen
                /\ UNCHANGED <<job, vendored, lock, built, counts>>

WriteGoMod(p) == /\ IF gen.dir
                    THEN /\ Go(p, "gomod", IF Uses(p) THEN "runtime" ELSE "sync")
                         /\ gen' = [gen EXCEPT !.gomod = job[p]]
                    ELSE Go(p, "gomod", "release") /\ UNCHANGED gen
                 /\ UNCHANGED <<job, vendored, lock, built, counts>>

WriteRuntime(p) == /\ Go(p, "runtime", "sync")
                   /\ gen' = [gen EXCEPT !.dir = TRUE, !.runtime = job[p]]
                   /\ UNCHANGED <<job, vendored, lock, built, counts>>

\* Mutant of SyncEmitted: the manifest is written before it is read.
SyncAfterRecording(p) == /\ Go(p, "sync", "record")
                         /\ UNCHANGED <<job, vendored, lock, gen, built, counts>>

\* syncEmitted: what the last build recorded and this one does not emit goes.
SyncEmitted(p) == /\ Go(p, "sync", "record")
                  /\ gen' = IF gen.recorded \subseteq Emitted(p) THEN gen
                                                                 ELSE [gen EXCEPT !.runtime = Absent]
                  /\ UNCHANGED <<job, vendored, lock, built, counts>>

WriteManifest(p) == /\ IF gen.dir THEN Go(p, "record", "go") /\ gen' = [gen EXCEPT !.recorded = Emitted(p)]
                                  ELSE Go(p, "record", "release") /\ UNCHANGED gen
                    /\ UNCHANGED <<job, vendored, lock, built, counts>>

\* The Go compiler builds what is in gen/, when that is a program.
GoBuild(p) == /\ Go(p, "go", "release")
              /\ built' = [built EXCEPT ![job[p]] =
                   IF /\ gen.main \in Jobs /\ gen.gomod \in Jobs
                      /\ vendored[gen.main] => gen.runtime \in Jobs
                   THEN gen ELSE NoGen]
              /\ UNCHANGED <<job, vendored, lock, gen, counts>>

Unlocked(p) == [n \in DOMAIN flock |-> IF flock[n] = p THEN NoOne ELSE flock[n]]

Release(p) == /\ Go(p, "release", "idle")
              /\ flock' = Unlocked(p)
              /\ fd' = [fd EXCEPT ![p] = Absent]
              /\ UNCHANGED <<job, vendored, dotLock, inodes, gen, built, counts>>

\* Mutant of Dies: a dead process still holds its lock.
DiesLocked(p) == /\ pc' = [pc EXCEPT ![p] = "idle"]
                 /\ fd' = [fd EXCEPT ![p] = Absent]
                 /\ UNCHANGED flock

\* The kernel closes a dead process's files, and so unlocks them; an error
\* return releases the lock as well.
Dies(p) == /\ pc' = [pc EXCEPT ![p] = "idle"]
           /\ fd' = [fd EXCEPT ![p] = Absent]
           /\ flock' = Unlocked(p)

\* Killed, or a write failed: the file being written is left truncated.
Crash(p) == /\ pc[p] # "idle"
            /\ crashes < MaxCrashes /\ crashes' = crashes + 1
            /\ Dies(p)
            /\ gen' = CASE pc[p] = "main" /\ gen.dir    -> [gen EXCEPT !.main = Torn]
                        [] pc[p] = "gomod" /\ gen.dir   -> [gen EXCEPT !.gomod = Torn]
                        [] pc[p] = "runtime"            -> [gen EXCEPT !.dir = TRUE, !.runtime = Torn]
                        [] pc[p] = "record" /\ gen.dir  -> [gen EXCEPT !.recorded = {}]
                        [] OTHER                        -> gen
            /\ interrupted' = (interrupted \/ pc[p] \in {"runtime", "sync", "record"})
            /\ UNCHANGED <<job, vendored, dotLock, inodes, built, builds, unlinked>>

Build(p) == \/ OpenLock(p) \/ TakeLock(p) \/ Lower(p) \/ MkdirGen(p) \/ WriteMain(p) \/ WriteGoMod(p)
            \/ WriteRuntime(p) \/ SyncEmitted(p) \/ WriteManifest(p) \/ GoBuild(p) \/ Release(p)

\* cmdClean: with -gen the generated module; without a selector the whole
\* directory, .lock too.  It takes no lock.
CleanGen(c) == /\ Go(c, "idle", "cleaned")
               /\ gen' = NoGen
               /\ UNCHANGED <<job, vendored, lock, built, counts>>

RemoveAllLock(c) == /\ Go(c, "idle", "unlinked")
                    /\ dotLock' = Absent
                    /\ unlinked' = (unlinked \/ \E p \in Builders : fd[p] # Absent)
                    /\ UNCHANGED <<job, vendored, fd, inodes, flock, gen, built, builds, crashes, interrupted>>

RemoveAllGen(c) == /\ Go(c, "unlinked", "cleaned")
                   /\ gen' = NoGen
                   /\ UNCHANGED <<job, vendored, lock, built, counts>>

Clean(c) == CleanGen(c) \/ RemoveAllLock(c) \/ RemoveAllGen(c)

Next == \/ \E p \in Builders : Build(p) \/ Crash(p)
        \/ \E c \in Cleaners : Clean(c)

Fairness == \A p \in Builders : WF_vars(Build(p)) /\ SF_vars(TakeLock(p))
Spec == Init /\ [][Next]_vars /\ Fairness
-----------------------------------------------------------------------------
(* Properties.                                                             *)

\* What a build has built is its own lowering: main.go, go.mod and the
\* runtime are those it wrote, whatever other builds and cleans ran at the
\* same time or died before, unless a clean unlinked .lock under a build.
BuildsItsOwn ==
  ~unlinked => \A n \in Jobs :
    built[n].dir => /\ built[n].main = n /\ built[n].gomod = n
                    /\ vendored[n] => built[n].runtime = n

\* A module that does not import the runtime is built without a leftover
\* copy of it, unless a build died before it recorded the copy it made.
NoOrphans ==
  ~unlinked /\ ~interrupted => \A n \in Jobs :
    built[n].dir /\ ~vendored[n] => built[n].runtime = Absent

\* A build that waits for the lock gets it, or dies: nobody keeps the lock
\* of a process that is gone.
WaitersProceed == \A p \in Builders : pc[p] = "wait" ~> pc[p] # "wait"
=============================================================================
