------------------------ MODULE BuildDirectoryProofs ------------------------
(* What BuildDirectory builds, for any number of builders, cleaners, builds *)
(* and deaths.                                                              *)
EXTENDS BuildDirectory, TLAPS

Process == Builders \cup Cleaners

BuilderPlaces == {"idle", "wait", "lower", "mkdir", "main", "gomod", "runtime",
                  "sync", "record", "go", "release"}
Holding == BuilderPlaces \ {"idle", "wait"}
CleanerPlaces == {"idle", "unlinked", "cleaned"}

\* A file is absent, torn or of some build.
File == {Absent, Torn} \cup Jobs
GenDir == [dir : BOOLEAN, main : File, gomod : File, runtime : File, recorded : SUBSET {"runtime"}]

Places ==
  /\ pc \in [Process -> BuilderPlaces \cup CleanerPlaces]
  /\ \A p \in Builders : pc[p] \in BuilderPlaces

Locks ==
  /\ fd \in [Builders -> {Absent} \cup Jobs]
  /\ dotLock \in {Absent} \cup Jobs
  /\ flock \in [Jobs -> {NoOne} \cup Builders]
  /\ builds \in 0 .. MaxBuilds
  /\ inodes \in 0 .. builds
  /\ unlinked \in BOOLEAN

Files ==
  /\ job \in [Builders -> {Absent} \cup Jobs]
  /\ vendored \in [Jobs -> BOOLEAN]
  /\ gen \in GenDir
  /\ built \in [Jobs -> GenDir]
  /\ interrupted \in BOOLEAN

Types == Places /\ Locks /\ Files

\* Builds are numbered as they start, and each number has one builder; what a
\* number has built appears when its builder is done.
Numbered ==
  /\ \A p \in Builders : pc[p] # "idle" => job[p] \in 1 .. builds
  /\ \A p, q \in Builders : pc[p] # "idle" /\ pc[q] # "idle" /\ job[p] = job[q] => p = q
  /\ \A p \in Builders : pc[p] \notin {"idle", "release"} => built[job[p]] = NoGen
  /\ \A n \in Jobs : n > builds => built[n] = NoGen

\* A builder past TakeLock holds the inode it has open.
Locked ==
  /\ \A p \in Builders : pc[p] # "idle" => fd[p] \in Jobs
  /\ \A p \in Builders : pc[p] = "idle" => fd[p] = Absent
  /\ \A p \in Builders : pc[p] \in Holding => flock[fd[p]] = p

\* As long as .lock was not unlinked under a builder, all have the one open
\* that has the name, and at most one is past TakeLock.
OneLock == ~unlinked => \A p \in Builders : fd[p] # Absent => fd[p] = dotLock

\* The directory is gone as a whole; the files written last are the holder's.
Written ==
  /\ ~gen.dir => gen = NoGen
  /\ \A p \in Builders : pc[p] = "runtime" => Uses(p)
  /\ ~unlinked => \A p \in Builders :
       /\ pc[p] \in {"gomod", "runtime", "sync", "record", "go"} => gen.main \in {Absent, job[p]}
       /\ pc[p] \in {"runtime", "sync", "record", "go"} => gen.gomod \in {Absent, job[p]}
       /\ pc[p] \in {"sync", "record", "go"} /\ Uses(p) => gen.runtime \in {Absent, job[p]}

\* A copy of the runtime is recorded, but by a builder that is about to, and
\* a builder without a use for it finds none when it records.
Recorded ==
  ~unlinked /\ ~interrupted =>
    /\ \A p \in Builders : pc[p] \in {"record", "go"} /\ ~Uses(p) => gen.runtime = Absent
    /\ gen.runtime # Absent =>
         \/ gen.recorded # {}
         \/ \E p \in Builders : pc[p] \in {"sync", "record"} /\ Uses(p)

IInv == Types /\ Numbered /\ Locked /\ OneLock /\ Written /\ Recorded /\ BuildsItsOwn /\ NoOrphans

-----------------------------------------------------------------------------
(* What the steps have in common.                                           *)

Writes(p) == \/ MkdirGen(p) \/ WriteMain(p) \/ WriteGoMod(p)
             \/ WriteRuntime(p) \/ SyncEmitted(p) \/ WriteManifest(p)

\* All that a builder's steps from MkdirGen to WriteManifest do but to gen/.
Moves(p) ==
  /\ pc[p] \in Holding \ {"lower", "go", "release"}
  /\ \E x \in Holding \ {"lower"} : pc' = [pc EXCEPT ![p] = x]
  /\ UNCHANGED <<job, vendored, fd, dotLock, inodes, flock, built, builds, unlinked, interrupted>>

\* A writing step moves its builder and changes nothing but gen/ besides.
LEMMA WritesMoves ==
  ASSUME NEW p \in Builders, Writes(p)
  PROVE  Moves(p)
BY DEF Writes, MkdirGen, WriteMain, WriteGoMod, WriteRuntime, SyncEmitted, WriteManifest,
       Moves, Go, lock, counts, Holding, BuilderPlaces

\* All that Crash does.
Leaves(p) ==
  /\ pc[p] # "idle" /\ pc' = [pc EXCEPT ![p] = "idle"]
  /\ fd' = [fd EXCEPT ![p] = Absent]
  /\ flock' = Unlocked(p)
  /\ \/ pc[p] = "main" /\ gen.dir /\ gen' = [gen EXCEPT !.main = Torn]
     \/ pc[p] = "gomod" /\ gen.dir /\ gen' = [gen EXCEPT !.gomod = Torn]
     \/ pc[p] = "runtime" /\ gen' = [gen EXCEPT !.dir = TRUE, !.runtime = Torn]
     \/ pc[p] = "record" /\ gen.dir /\ gen' = [gen EXCEPT !.recorded = {}]
     \/ gen' = gen
  /\ interrupted' = (interrupted \/ pc[p] \in {"runtime", "sync", "record"})
  /\ UNCHANGED <<job, vendored, dotLock, inodes, built, builds, unlinked>>

\* A death, without its bounds.
LEMMA CrashLeaves ==
  ASSUME NEW p \in Builders, Crash(p)
  PROVE  Leaves(p)
BY DEF Crash, Leaves, Dies

\* All that a clean does.
Cleans(c) ==
  /\ \E x \in CleanerPlaces : pc' = [pc EXCEPT ![c] = x]
  /\ \/ UNCHANGED <<dotLock, unlinked>>
     \/ dotLock' = Absent /\ unlinked' = (unlinked \/ \E p \in Builders : fd[p] # Absent)
  /\ gen' \in {gen, NoGen}
  /\ UNCHANGED <<job, vendored, fd, inodes, flock, built, builds, interrupted>>

\* Each step of a clean, without its order.
LEMMA CleanCleans ==
  ASSUME NEW c \in Cleaners, Clean(c)
  PROVE  Cleans(c)
BY DEF Clean, CleanGen, RemoveAllLock, RemoveAllGen, Cleans, Go, lock, counts, CleanerPlaces

\* A clean moves no builder.
LEMMA BuilderStays ==
  ASSUME Types, NEW c \in Cleaners, Cleans(c), NEW p \in Builders
  PROVE  pc'[p] = pc[p]
BY BuildAssumption DEF Types, Places, Cleans, Process

\* Once .lock was unlinked under a builder, it stays so.
LEMMA CleanUnlinks ==
  ASSUME Types, NEW c \in Cleaners, Cleans(c), ~unlinked'
  PROVE  ~unlinked
<1>1. CASE UNCHANGED <<dotLock, unlinked>>
  BY <1>1
<1>2. CASE unlinked' = (unlinked \/ \E p \in Builders : fd[p] # Absent)
  BY <1>2, Zenon
<1> QED BY <1>1, <1>2 DEF Cleans

\* A builder that lowers says nothing about the builds of others.
LEMMA LowerVendors ==
  ASSUME Types, Numbered, NEW p \in Builders, Lower(p),
         NEW q \in Builders, q # p, pc[q] # "idle"
  PROVE  vendored'[job[q]] = vendored[job[q]]
<1>1. /\ pc[p] = "lower"
      /\ UNCHANGED vendored \/ \E v \in BOOLEAN : vendored' = [vendored EXCEPT ![job[p]] = v]
  BY DEF Lower, Go
<1>2. job[q] # job[p]
  BY <1>1 DEF Numbered
<1>3. job[q] \in Jobs
  BY BuildAssumption DEF Numbered, Types, Locks, Jobs
<1> QED BY <1>1, <1>2, <1>3 DEF Types, Files

\* The steps of Next, as the proofs below tell them apart.
LEMMA Steps ==
  ASSUME [Next]_vars
  PROVE  \/ \E p \in Builders : \/ OpenLock(p) \/ TakeLock(p) \/ Lower(p) \/ Writes(p)
                                \/ GoBuild(p) \/ Release(p) \/ Leaves(p)
         \/ \E c \in Cleaners : Cleans(c)
         \/ UNCHANGED vars
BY CrashLeaves, CleanCleans DEF Next, Build, Writes

\* Two builders past TakeLock hold the one inode, and so are one.
LEMMA Alone ==
  ASSUME Locked, OneLock, ~unlinked,
         NEW p \in Builders, NEW q \in Builders, pc[p] \in Holding, pc[q] \in Holding
  PROVE  p = q
<1>1. fd[p] = dotLock /\ fd[q] = dotLock
  BY DEF Locked, OneLock, Holding, Jobs, Absent
<1> QED BY <1>1 DEF Locked

\* Each part of the invariant is kept by every step: first the types,
LEMMA PlacesKept ==
  ASSUME Types, [Next]_vars
  PROVE  Places'
<1>1. ASSUME NEW p \in Builders, OpenLock(p) PROVE Places'
  BY <1>1 DEF OpenLock, Types, Places, Go, Process, BuilderPlaces
<1>2. ASSUME NEW p \in Builders, TakeLock(p) PROVE Places'
  BY <1>2 DEF TakeLock, Types, Places, Go, Process, BuilderPlaces
<1>3. ASSUME NEW p \in Builders, Lower(p) PROVE Places'
  BY <1>3 DEF Lower, Types, Places, Go, Process, BuilderPlaces
<1>4. ASSUME NEW p \in Builders, Writes(p) PROVE Places'
  BY <1>4, WritesMoves DEF Moves, Types, Places, Process, Holding
<1>5. ASSUME NEW p \in Builders, GoBuild(p) PROVE Places'
  BY <1>5 DEF GoBuild, Types, Places, Go, Process, BuilderPlaces
<1>6. ASSUME NEW p \in Builders, Release(p) PROVE Places'
  BY <1>6 DEF Release, Types, Places, Go, Process, BuilderPlaces
<1>7. ASSUME NEW p \in Builders, Leaves(p) PROVE Places'
  BY <1>7 DEF Leaves, Types, Places, Go, Process, BuilderPlaces
<1>8. ASSUME NEW c \in Cleaners, Cleans(c) PROVE Places'
  <2>1. pc' \in [Process -> BuilderPlaces \cup CleanerPlaces]
    BY <1>8 DEF Cleans, Types, Places, Process
  <2>2. \A p \in Builders : pc'[p] \in BuilderPlaces
    BY <1>8, BuilderStays DEF Types, Places
  <2> QED BY <2>1, <2>2 DEF Places
<1>9. CASE UNCHANGED vars
  BY <1>9 DEF vars, Types, Places
<1> QED BY <1>1, <1>2, <1>3, <1>4, <1>5, <1>6, <1>7, <1>8, <1>9, Steps

LEMMA LocksKept ==
  ASSUME Types, [Next]_vars
  PROVE  Locks'
<1>1. ASSUME NEW p \in Builders, OpenLock(p) PROVE Locks'
  BY <1>1, BuildAssumption DEF OpenLock, Types, Locks, Jobs
<1>2. ASSUME NEW p \in Builders, TakeLock(p) PROVE Locks'
  BY <1>2 DEF TakeLock, Types, Locks, lock, counts
<1>3. ASSUME NEW p \in Builders, Lower(p) PROVE Locks'
  BY <1>3 DEF Lower, Types, Locks, lock, counts
<1>4. ASSUME NEW p \in Builders, Writes(p) PROVE Locks'
  BY <1>4, WritesMoves DEF Moves, Types, Locks
<1>5. ASSUME NEW p \in Builders, GoBuild(p) PROVE Locks'
  BY <1>5 DEF GoBuild, Types, Locks, lock, counts
<1>6. ASSUME NEW p \in Builders, Release(p) PROVE Locks'
  BY <1>6 DEF Release, Types, Locks, Unlocked, counts
<1>7. ASSUME NEW p \in Builders, Leaves(p) PROVE Locks'
  BY <1>7 DEF Leaves, Types, Locks, Unlocked, counts
<1>8. ASSUME NEW c \in Cleaners, Cleans(c) PROVE Locks'
  BY <1>8 DEF Cleans, Types, Locks
<1>9. CASE UNCHANGED vars
  BY <1>9 DEF vars, Types, Locks, lock, counts
<1> QED BY <1>1, <1>2, <1>3, <1>4, <1>5, <1>6, <1>7, <1>8, <1>9, Steps

LEMMA WritesFiles ==
  ASSUME Types, NEW p \in Builders, Writes(p)
  PROVE  gen' \in GenDir
<1> USE DEF Types, Files, GenDir, File
<1>1. CASE MkdirGen(p)
  BY <1>1 DEF MkdirGen
<1>2. CASE WriteMain(p)
  BY <1>2 DEF WriteMain
<1>3. CASE WriteGoMod(p)
  BY <1>3 DEF WriteGoMod
<1>4. CASE WriteRuntime(p)
  BY <1>4 DEF WriteRuntime
<1>5. CASE SyncEmitted(p)
  BY <1>5 DEF SyncEmitted
<1>6. CASE WriteManifest(p)
  BY <1>6 DEF WriteManifest, Emitted
<1> QED BY <1>1, <1>2, <1>3, <1>4, <1>5, <1>6 DEF Writes

LEMMA NoGenTyped == NoGen \in GenDir
BY DEF NoGen, GenDir, File

LEMMA FilesKept ==
  ASSUME Types, [Next]_vars
  PROVE  Files'
<1>1. ASSUME NEW p \in Builders, OpenLock(p) PROVE Files'
  BY <1>1, BuildAssumption DEF OpenLock, Types, Locks, Files, Jobs
<1>2. ASSUME NEW p \in Builders, TakeLock(p) PROVE Files'
  BY <1>2 DEF TakeLock, Types, Files, lock, counts
<1>3. ASSUME NEW p \in Builders, Lower(p) PROVE Files'
  BY <1>3 DEF Lower, Types, Files, lock, counts
<1>4. ASSUME NEW p \in Builders, Writes(p) PROVE Files'
  BY <1>4, WritesMoves, WritesFiles DEF Moves, Types, Files
<1>5. ASSUME NEW p \in Builders, GoBuild(p) PROVE Files'
  BY <1>5, NoGenTyped DEF GoBuild, Types, Files, lock, counts
<1>6. ASSUME NEW p \in Builders, Release(p) PROVE Files'
  BY <1>6 DEF Release, Types, Files, lock, counts
<1>7. ASSUME NEW p \in Builders, Leaves(p) PROVE Files'
  <2>1. gen' \in GenDir
    BY <1>7 DEF Leaves, Types, Files, GenDir, File
  <2> QED BY <1>7, <2>1 DEF Leaves, Types, Files
<1>8. ASSUME NEW c \in Cleaners, Cleans(c) PROVE Files'
  BY <1>8, NoGenTyped DEF Cleans, Types, Files
<1>9. CASE UNCHANGED vars
  BY <1>9 DEF vars, Types, Files, counts
<1> QED BY <1>1, <1>2, <1>3, <1>4, <1>5, <1>6, <1>7, <1>8, <1>9, Steps

\* the numbers of the builds,
LEMMA NumberedKept ==
  ASSUME Types, Numbered, [Next]_vars
  PROVE  Numbered'
<1>1. ASSUME NEW p \in Builders, OpenLock(p) PROVE Numbered'
  BY <1>1, BuildAssumption DEF OpenLock, Go, Types, Places, Locks, Files, Process, Jobs, Numbered
<1>2. ASSUME NEW p \in Builders, TakeLock(p) PROVE Numbered'
  BY <1>2 DEF TakeLock, Types, Places, Process, Go, Numbered, lock, counts
<1>3. ASSUME NEW p \in Builders, Lower(p) PROVE Numbered'
  BY <1>3 DEF Lower, Types, Places, Process, Go, Numbered, lock, counts
<1>4. ASSUME NEW p \in Builders, Writes(p) PROVE Numbered'
  BY <1>4, WritesMoves DEF Moves, Types, Places, Process, Holding, Numbered
<1>5. ASSUME NEW p \in Builders, GoBuild(p) PROVE Numbered'
  <2>1. \A n \in Jobs \ {job[p]} : built'[n] = built[n]
    BY <1>5 DEF GoBuild, Types, Files
  <2>2. pc[p] = "go" /\ pc' = [pc EXCEPT ![p] = "release"] /\ UNCHANGED <<job, builds>>
    BY <1>5 DEF GoBuild, Go, counts
  <2> QED BY <2>1, <2>2, BuildAssumption DEF Types, Places, Locks, Files, Process, Numbered, Jobs
<1>6. ASSUME NEW p \in Builders, Release(p) PROVE Numbered'
  BY <1>6 DEF Release, Types, Places, Process, Go, Numbered, lock, counts
<1>7. ASSUME NEW p \in Builders, Leaves(p) PROVE Numbered'
  BY <1>7 DEF Leaves, Types, Places, Process, Go, Numbered, lock, counts
<1>8. ASSUME NEW c \in Cleaners, Cleans(c) PROVE Numbered'
  BY <1>8, BuilderStays DEF Cleans, Types, Numbered
<1>9. CASE UNCHANGED vars
  BY <1>9 DEF vars, Numbered, counts
<1> QED BY <1>1, <1>2, <1>3, <1>4, <1>5, <1>6, <1>7, <1>8, <1>9, Steps

\* the lock,
LEMMA LockedKept ==
  ASSUME Types, Locked, [Next]_vars
  PROVE  Locked'
<1>1. ASSUME NEW p \in Builders, OpenLock(p) PROVE Locked'
  BY <1>1, LocksKept DEF OpenLock, Go, Types, Places, Locks, Process, Locked, Holding, Jobs, Absent
<1>2. ASSUME NEW p \in Builders, TakeLock(p) PROVE Locked'
  BY <1>2, BuildAssumption DEF TakeLock, Go, Types, Places, Locks, Process, Holding, Locked
<1>3. ASSUME NEW p \in Builders, Lower(p) PROVE Locked'
  BY <1>3 DEF Lower, Types, Places, Process, Go, Locked, Holding, BuilderPlaces, lock, counts
<1>4. ASSUME NEW p \in Builders, Writes(p) PROVE Locked'
  BY <1>4, WritesMoves DEF Moves, Types, Places, Process, Holding, Locked
<1>5. ASSUME NEW p \in Builders, GoBuild(p) PROVE Locked'
  BY <1>5 DEF GoBuild, Types, Places, Process, Go, Locked, Holding, BuilderPlaces, lock, counts
<1>6. ASSUME NEW p \in Builders, Release(p) PROVE Locked'
  BY <1>6, BuildAssumption DEF Release, Types, Places, Locks, Process, Go, Locked, Unlocked, Holding
<1>7. ASSUME NEW p \in Builders, Leaves(p) PROVE Locked'
  BY <1>7, BuildAssumption DEF Leaves, Types, Places, Locks, Process, Go, Locked, Unlocked, Holding
<1>8. ASSUME NEW c \in Cleaners, Cleans(c) PROVE Locked'
  BY <1>8, BuilderStays DEF Cleans, Types, Locked
<1>9. CASE UNCHANGED vars
  BY <1>9 DEF vars, Locked, lock
<1> QED BY <1>1, <1>2, <1>3, <1>4, <1>5, <1>6, <1>7, <1>8, <1>9, Steps

\* the one inode,
LEMMA OneLockKept ==
  ASSUME Types, OneLock, [Next]_vars
  PROVE  OneLock'
<1>1. ASSUME NEW p \in Builders, OpenLock(p) PROVE OneLock'
  BY <1>1 DEF OpenLock, Types, Locks, OneLock
<1>2. ASSUME NEW p \in Builders, TakeLock(p) PROVE OneLock'
  BY <1>2 DEF TakeLock, Types, Locks, OneLock, lock, counts
<1>3. ASSUME NEW p \in Builders, Lower(p) PROVE OneLock'
  BY <1>3 DEF Lower, Types, Locks, OneLock, lock, counts
<1>4. ASSUME NEW p \in Builders, Writes(p) PROVE OneLock'
  BY <1>4, WritesMoves DEF Moves, OneLock
<1>5. ASSUME NEW p \in Builders, GoBuild(p) PROVE OneLock'
  BY <1>5 DEF GoBuild, Types, Locks, OneLock, lock, counts
<1>6. ASSUME NEW p \in Builders, Release(p) PROVE OneLock'
  BY <1>6 DEF Release, Types, Locks, OneLock, lock, counts
<1>7. ASSUME NEW p \in Builders, Leaves(p) PROVE OneLock'
  BY <1>7 DEF Leaves, Types, Locks, OneLock, lock, counts
<1>8. ASSUME NEW c \in Cleaners, Cleans(c) PROVE OneLock'
  <2>1. CASE UNCHANGED <<dotLock, unlinked>>
    BY <1>8, <2>1 DEF Cleans, OneLock
  <2>2. CASE dotLock' = Absent /\ unlinked' = (unlinked \/ \E p \in Builders : fd[p] # Absent)
    <3>1. unlinked' \/ \A p \in Builders : fd[p] = Absent
      BY <2>2
    <3> QED BY <1>8, <2>2, <3>1 DEF Cleans, OneLock
  <2> QED BY <1>8, <2>1, <2>2 DEF Cleans
<1>9. CASE UNCHANGED vars
  BY <1>9 DEF vars, OneLock, lock, counts
<1> QED BY <1>1, <1>2, <1>3, <1>4, <1>5, <1>6, <1>7, <1>8, <1>9, Steps

(* The steps of a build, one after the other: what gen/ holds then.         *)
LEMMA WritesWritten ==
  ASSUME Types, Numbered, Locked, OneLock, Written, NEW p \in Builders, Writes(p)
  PROVE  Written'
<1> USE DEF Written, Types, Places, Files, Process, Go, lock, counts, Uses
<1>0. Moves(p)
  BY WritesMoves
<1>1. ~unlinked => \A q \in Builders \ {p} : pc[q] \notin Holding
  BY <1>0, Alone DEF Moves
<1>2. CASE MkdirGen(p)
  BY <1>1, <1>2 DEF MkdirGen, GenDir, Holding, BuilderPlaces
<1>3. CASE WriteMain(p)
  BY <1>1, <1>3 DEF WriteMain, GenDir, Holding, BuilderPlaces
<1>4. CASE WriteGoMod(p)
  BY <1>1, <1>4 DEF WriteGoMod, GenDir, Holding, BuilderPlaces
<1>5. CASE WriteRuntime(p)
  BY <1>1, <1>5 DEF WriteRuntime, GenDir, Holding, BuilderPlaces
<1>6. CASE SyncEmitted(p)
  <2>1. \/ gen' = gen
        \/ gen' = [gen EXCEPT !.runtime = Absent]
    BY <1>6 DEF SyncEmitted
  <2>2. pc[p] = "sync" /\ pc' = [pc EXCEPT ![p] = "record"] /\ UNCHANGED <<job, vendored, unlinked>>
    BY <1>6 DEF SyncEmitted
  <2> QED BY <1>1, <2>1, <2>2 DEF GenDir, NoGen, Holding, BuilderPlaces
<1>7. CASE WriteManifest(p)
  BY <1>1, <1>7 DEF WriteManifest, GenDir, Holding, BuilderPlaces
<1> QED BY <1>2, <1>3, <1>4, <1>5, <1>6, <1>7 DEF Writes

\* what is in gen/,
LEMMA WrittenKept ==
  ASSUME Types, Numbered, Locked, OneLock, Written, [Next]_vars
  PROVE  Written'
<1>1. ASSUME NEW p \in Builders, OpenLock(p) PROVE Written'
  BY <1>1 DEF OpenLock, Go, Types, Places, Files, Process, Written, Uses
<1>2. ASSUME NEW p \in Builders, TakeLock(p) PROVE Written'
  BY <1>2 DEF TakeLock, Go, Types, Places, Files, Process, Written, Uses, counts
<1>3. ASSUME NEW p \in Builders, Lower(p) PROVE Written'
  <2>1. \A q \in Builders : pc'[q] = "runtime" \/ pc'[q] \in Holding \ {"mkdir", "release"} => q # p /\ pc'[q] = pc[q]
    BY <1>3 DEF Lower, Go, Types, Places, Process
  <2>2. \A q \in Builders : q # p /\ pc[q] # "idle" => vendored'[job[q]] = vendored[job[q]]
    BY <1>3, LowerVendors
  <2>3. UNCHANGED <<gen, job, unlinked>>
    BY <1>3 DEF Lower, counts
  <2> QED BY <2>1, <2>2, <2>3 DEF Written, Uses, Holding, BuilderPlaces
<1>4. ASSUME NEW p \in Builders, Writes(p) PROVE Written'
  BY <1>4, WritesWritten
<1>5. ASSUME NEW p \in Builders, GoBuild(p) PROVE Written'
  BY <1>5 DEF GoBuild, Go, Types, Places, Files, Process, Written, Uses, counts
<1>6. ASSUME NEW p \in Builders, Release(p) PROVE Written'
  BY <1>6 DEF Release, Go, Types, Places, Files, Process, Written, Uses, counts
<1>7. ASSUME NEW p \in Builders, Leaves(p) PROVE Written'
  <2>1. ~unlinked /\ pc[p] \in Holding => \A q \in Builders \ {p} : pc[q] \notin Holding
    BY Alone
  <2> QED BY <1>7, <2>1 DEF Leaves, Types, Places, Files, Process, Written, Uses, GenDir, Holding, BuilderPlaces
<1>8. ASSUME NEW c \in Cleaners, Cleans(c) PROVE Written'
  <2>1. gen' = gen \/ gen' = NoGen
    BY <1>8 DEF Cleans
  <2>2. UNCHANGED <<job, vendored>>
    BY <1>8 DEF Cleans
  <2>3. \A p \in Builders : pc'[p] = pc[p]
    BY <1>8, BuilderStays
  <2>4. ~unlinked' => ~unlinked
    BY <1>8, CleanUnlinks
  <2> QED BY <2>1, <2>2, <2>3, <2>4 DEF Written, Uses, NoGen
<1>9. CASE UNCHANGED vars
  BY <1>9 DEF vars, Written, Uses, counts
<1> QED BY <1>1, <1>2, <1>3, <1>4, <1>5, <1>6, <1>7, <1>8, <1>9, Steps

(* Who copies the runtime records it, unless it dies.                       *)
LEMMA WritesRecorded ==
  ASSUME Types, Numbered, Locked, OneLock, Written, Recorded, NEW p \in Builders, Writes(p)
  PROVE  Recorded'
<1> SUFFICES ASSUME ~unlinked, ~interrupted PROVE Recorded'
  BY WritesMoves DEF Recorded, Moves
<1> USE DEF Recorded, Types, Places, Files, Process, Go, lock, counts, Uses
<1>1. Moves(p)
  BY WritesMoves
<1>2. \A q \in Builders \ {p} : pc[q] \notin Holding
  BY <1>1, Alone DEF Moves
<1>3. CASE MkdirGen(p)
  BY <1>2, <1>3 DEF MkdirGen, GenDir, Holding, BuilderPlaces
<1>4. CASE WriteMain(p)
  BY <1>2, <1>4 DEF WriteMain, GenDir, Holding, BuilderPlaces
<1>5. CASE WriteGoMod(p)
  BY <1>2, <1>5 DEF WriteGoMod, GenDir, Holding, BuilderPlaces
<1>6. CASE WriteRuntime(p)
  BY <1>2, <1>6 DEF WriteRuntime, Written, GenDir, Holding, BuilderPlaces
<1>7. CASE SyncEmitted(p)
  <2>1. pc[p] = "sync" /\ pc' = [pc EXCEPT ![p] = "record"] /\ UNCHANGED <<job, vendored>>
    BY <1>7 DEF SyncEmitted
  <2>2. CASE Uses(p)
    <3>1. gen' = gen
      BY <1>7, <2>2 DEF SyncEmitted, Emitted, GenDir
    <3> QED BY <1>2, <2>1, <2>2, <3>1 DEF Holding, BuilderPlaces
  <2>3. CASE ~Uses(p)
    <3>1. gen.runtime # Absent => gen.recorded # {}
      BY <1>2, <2>3 DEF Holding, BuilderPlaces
    <3>2. gen'.runtime = Absent
      BY <1>7, <2>3, <3>1 DEF SyncEmitted, Emitted, GenDir
    <3> QED BY <1>2, <2>1, <2>3, <3>2 DEF Holding, BuilderPlaces
  <2> QED BY <2>2, <2>3
<1>8. CASE WriteManifest(p)
  <2>1. CASE gen.dir
    <3>1. /\ pc[p] = "record" /\ pc' = [pc EXCEPT ![p] = "go"]
          /\ gen' = [gen EXCEPT !.recorded = Emitted(p)] /\ UNCHANGED <<job, vendored>>
      BY <1>8, <2>1 DEF WriteManifest
    <3>2. gen'.runtime = gen.runtime /\ gen'.recorded = Emitted(p)
      BY <3>1 DEF GenDir
    <3>3. CASE Uses(p)
      BY <1>2, <3>1, <3>2, <3>3 DEF Emitted, Holding, BuilderPlaces
    <3>4. CASE ~Uses(p)
      BY <1>2, <3>1, <3>2, <3>4 DEF Emitted, Holding, BuilderPlaces
    <3> QED BY <3>3, <3>4
  <2>2. CASE ~gen.dir
    BY <1>2, <1>8, <2>2 DEF WriteManifest, Written, NoGen, Holding, BuilderPlaces
  <2> QED BY <2>1, <2>2
<1> QED BY <1>3, <1>4, <1>5, <1>6, <1>7, <1>8 DEF Writes

\* what the manifest records,
LEMMA RecordedKept ==
  ASSUME Types, Numbered, Locked, OneLock, Written, Recorded, [Next]_vars
  PROVE  Recorded'
<1>1. ASSUME NEW p \in Builders, OpenLock(p) PROVE Recorded'
  BY <1>1 DEF OpenLock, Go, Types, Places, Files, Process, Recorded, Uses
<1>2. ASSUME NEW p \in Builders, TakeLock(p) PROVE Recorded'
  BY <1>2 DEF TakeLock, Go, Types, Places, Files, Process, Recorded, Uses, counts
<1>3. ASSUME NEW p \in Builders, Lower(p) PROVE Recorded'
  <2>1. \A q \in Builders : pc[q] \in {"sync", "record", "go"} \/ pc'[q] \in {"sync", "record", "go"} => q # p /\ pc'[q] = pc[q]
    BY <1>3 DEF Lower, Go, Types, Places, Process
  <2>2. \A q \in Builders : q # p /\ pc[q] # "idle" => vendored'[job[q]] = vendored[job[q]]
    BY <1>3, LowerVendors
  <2>3. UNCHANGED <<gen, job, unlinked, interrupted>>
    BY <1>3 DEF Lower, counts
  <2> QED BY <2>1, <2>2, <2>3 DEF Recorded, Uses
<1>4. ASSUME NEW p \in Builders, Writes(p) PROVE Recorded'
  BY <1>4, WritesRecorded
<1>5. ASSUME NEW p \in Builders, GoBuild(p) PROVE Recorded'
  BY <1>5 DEF GoBuild, Go, Types, Places, Files, Process, Recorded, Uses, counts
<1>6. ASSUME NEW p \in Builders, Release(p) PROVE Recorded'
  BY <1>6 DEF Release, Go, Types, Places, Files, Process, Recorded, Uses, counts
<1>7. ASSUME NEW p \in Builders, Leaves(p) PROVE Recorded'
  <2> SUFFICES ASSUME ~unlinked, ~interrupted, pc[p] \notin {"runtime", "sync", "record"} PROVE Recorded'
    BY <1>7 DEF Leaves, Recorded
  <2>1. UNCHANGED gen \/ gen' = [gen EXCEPT !.main = Torn] \/ gen' = [gen EXCEPT !.gomod = Torn]
    BY <1>7 DEF Leaves
  <2> QED BY <1>7, <2>1 DEF Leaves, Types, Places, Files, Process, Recorded, Uses, GenDir
<1>8. ASSUME NEW c \in Cleaners, Cleans(c) PROVE Recorded'
  <2>1. gen' = gen \/ gen' = NoGen
    BY <1>8 DEF Cleans
  <2>2. UNCHANGED <<job, vendored, interrupted>>
    BY <1>8 DEF Cleans
  <2>3. \A p \in Builders : pc'[p] = pc[p]
    BY <1>8, BuilderStays
  <2>4. ~unlinked' => ~unlinked
    BY <1>8, CleanUnlinks
  <2> QED BY <2>1, <2>2, <2>3, <2>4 DEF Recorded, Uses, NoGen
<1>9. CASE UNCHANGED vars
  BY <1>9 DEF vars, Recorded, Uses, counts
<1> QED BY <1>1, <1>2, <1>3, <1>4, <1>5, <1>6, <1>7, <1>8, <1>9, Steps

\* and what is built from it.
LEMMA BuildsItsOwnKept ==
  ASSUME Types, Numbered, Written, BuildsItsOwn, [Next]_vars
  PROVE  BuildsItsOwn'
<1>1. ASSUME NEW p \in Builders, OpenLock(p) PROVE BuildsItsOwn'
  BY <1>1 DEF OpenLock, BuildsItsOwn
<1>2. ASSUME NEW p \in Builders, TakeLock(p) PROVE BuildsItsOwn'
  BY <1>2 DEF TakeLock, BuildsItsOwn, counts
<1>3. ASSUME NEW p \in Builders, Lower(p) PROVE BuildsItsOwn'
  <2>1. built[job[p]] = NoGen
    BY <1>3 DEF Lower, Go, Numbered
  <2>2. \A n \in Jobs \ {job[p]} : vendored'[n] = vendored[n]
    BY <1>3 DEF Lower, Types, Files
  <2>3. UNCHANGED <<built, unlinked>>
    BY <1>3 DEF Lower, counts
  <2> QED BY <2>1, <2>2, <2>3 DEF BuildsItsOwn, NoGen
<1>4. ASSUME NEW p \in Builders, Writes(p) PROVE BuildsItsOwn'
  BY <1>4, WritesMoves DEF Moves, BuildsItsOwn
<1>5. ASSUME NEW p \in Builders, GoBuild(p) PROVE BuildsItsOwn'
  <2>1. pc[p] = "go" /\ UNCHANGED <<vendored, gen, unlinked>>
    BY <1>5 DEF GoBuild, Go, counts
  <2>2. built' = [built EXCEPT ![job[p]] = built'[job[p]]]
    BY <1>5 DEF GoBuild, Types, Files
  <2>3. built'[job[p]].dir => /\ built'[job[p]] = gen /\ gen.main \in Jobs /\ gen.gomod \in Jobs
                              /\ vendored[gen.main] => gen.runtime \in Jobs
    BY <1>5 DEF GoBuild, Numbered, Go, Types, Files, NoGen
  <2>4. \A n \in Jobs \ {job[p]} : built'[n] = built[n]
    BY <2>2 DEF Types, Files
  <2>5. \A n \in Jobs : n # Absent
    BY DEF Jobs, Absent
  <2> QED BY <2>1, <2>3, <2>4, <2>5 DEF BuildsItsOwn, Written, Uses
<1>6. ASSUME NEW p \in Builders, Release(p) PROVE BuildsItsOwn'
  BY <1>6 DEF Release, BuildsItsOwn, counts
<1>7. ASSUME NEW p \in Builders, Leaves(p) PROVE BuildsItsOwn'
  BY <1>7 DEF Leaves, BuildsItsOwn
<1>8. ASSUME NEW c \in Cleaners, Cleans(c) PROVE BuildsItsOwn'
  <2> UNCHANGED <<built, vendored>>
    BY <1>8 DEF Cleans
  <2>1. ~unlinked' => ~unlinked
    BY <1>8, CleanUnlinks
  <2> QED BY <2>1 DEF BuildsItsOwn
<1>9. CASE UNCHANGED vars
  BY <1>9 DEF vars, BuildsItsOwn, counts
<1> QED BY <1>1, <1>2, <1>3, <1>4, <1>5, <1>6, <1>7, <1>8, <1>9, Steps

LEMMA NoOrphansKept ==
  ASSUME Types, Numbered, Written, Recorded, NoOrphans, [Next]_vars
  PROVE  NoOrphans'
<1>1. ASSUME NEW p \in Builders, OpenLock(p) PROVE NoOrphans'
  BY <1>1 DEF OpenLock, NoOrphans
<1>2. ASSUME NEW p \in Builders, TakeLock(p) PROVE NoOrphans'
  BY <1>2 DEF TakeLock, NoOrphans, counts
<1>3. ASSUME NEW p \in Builders, Lower(p) PROVE NoOrphans'
  <2>1. built[job[p]] = NoGen
    BY <1>3 DEF Lower, Go, Numbered
  <2>2. \A n \in Jobs \ {job[p]} : vendored'[n] = vendored[n]
    BY <1>3 DEF Lower, Types, Files
  <2>3. UNCHANGED <<built, unlinked, interrupted>>
    BY <1>3 DEF Lower, counts
  <2> QED BY <2>1, <2>2, <2>3 DEF NoOrphans, NoGen
<1>4. ASSUME NEW p \in Builders, Writes(p) PROVE NoOrphans'
  BY <1>4, WritesMoves DEF Moves, NoOrphans
<1>5. ASSUME NEW p \in Builders, GoBuild(p) PROVE NoOrphans'
  <2>1. pc[p] = "go" /\ UNCHANGED <<vendored, gen, unlinked, interrupted>>
    BY <1>5 DEF GoBuild, Go, counts
  <2>2. built' = [built EXCEPT ![job[p]] = built'[job[p]]]
    BY <1>5 DEF GoBuild, Types, Files
  <2>3. built'[job[p]].dir => /\ built'[job[p]] = gen /\ gen.main \in Jobs /\ gen.gomod \in Jobs
                              /\ vendored[gen.main] => gen.runtime \in Jobs
    BY <1>5 DEF GoBuild, Numbered, Go, Types, Files, NoGen
  <2>4. \A n \in Jobs \ {job[p]} : built'[n] = built[n]
    BY <2>2 DEF Types, Files
  <2>5. \A n \in Jobs : n # Absent
    BY DEF Jobs, Absent
  <2> QED BY <2>1, <2>3, <2>4, <2>5 DEF NoOrphans, Recorded, Uses
<1>6. ASSUME NEW p \in Builders, Release(p) PROVE NoOrphans'
  BY <1>6 DEF Release, NoOrphans, counts
<1>7. ASSUME NEW p \in Builders, Leaves(p) PROVE NoOrphans'
  BY <1>7 DEF Leaves, NoOrphans
<1>8. ASSUME NEW c \in Cleaners, Cleans(c) PROVE NoOrphans'
  <2> UNCHANGED <<built, vendored, interrupted>>
    BY <1>8 DEF Cleans
  <2>1. ~unlinked' => ~unlinked
    BY <1>8, CleanUnlinks
  <2> QED BY <2>1 DEF NoOrphans
<1>9. CASE UNCHANGED vars
  BY <1>9 DEF vars, NoOrphans, counts
<1> QED BY <1>1, <1>2, <1>3, <1>4, <1>5, <1>6, <1>7, <1>8, <1>9, Steps

-----------------------------------------------------------------------------
\* IInv is inductive.
LEMMA InitOK == Init => IInv
<1> SUFFICES ASSUME Init PROVE IInv
  OBVIOUS
<1>1. Types
  <2>1. Places
    BY DEF Init, Places, Process, BuilderPlaces
  <2>2. Locks
    <3>1. builds \in 0 .. MaxBuilds /\ inodes \in 0 .. builds
      BY BuildAssumption DEF Init
    <3>2. flock \in [Jobs -> {NoOne} \cup Builders] /\ fd \in [Builders -> {Absent} \cup Jobs]
      BY DEF Init
    <3>3. dotLock \in {Absent} \cup Jobs /\ unlinked \in BOOLEAN
      BY DEF Init
    <3> QED BY <3>1, <3>2, <3>3 DEF Locks
  <2>3. Files
    BY NoGenTyped DEF Init, Files
  <2> QED BY <2>1, <2>2, <2>3 DEF Types
<1>2. Numbered /\ Locked /\ OneLock
  BY DEF Init, Numbered, Locked, OneLock, Holding, Process
<1>3. Written /\ Recorded
  BY DEF Init, Written, Recorded, NoGen, Process
<1>4. BuildsItsOwn /\ NoOrphans
  BY DEF Init, BuildsItsOwn, NoOrphans, NoGen
<1> QED BY <1>1, <1>2, <1>3, <1>4 DEF IInv

LEMMA StepOK == IInv /\ [Next]_vars => IInv'
BY PlacesKept, LocksKept, FilesKept, NumberedKept, LockedKept, OneLockKept, WrittenKept,
   RecordedKept, BuildsItsOwnKept, NoOrphansKept
   DEF IInv, Types

(* What a build has built is its own lowering, whatever other builds, cleans *)
(* and deaths there were, unless a clean unlinked .lock under a build        *)
(* (acquireBuildLock and writeProjectModule).                                *)
THEOREM OwnBuilds == Spec => []BuildsItsOwn
<1>1. IInv => BuildsItsOwn
  BY DEF IInv
<1> QED BY <1>1, InitOK, StepOK, PTL DEF Spec

(* A module that does not import the runtime is built without a leftover     *)
(* copy of it, unless a build died between copying and recording one         *)
(* (syncEmitted).                                                            *)
THEOREM Leftovers == Spec => []NoOrphans
<1>1. IInv => NoOrphans
  BY DEF IInv
<1> QED BY <1>1, InitOK, StepOK, PTL DEF Spec

(* As long as .lock keeps its name, one build at a time is past the lock     *)
(* (flock in acquireBuildLock).                                              *)
MutualExclusion ==
  ~unlinked => \A p, q \in Builders : pc[p] \in Holding /\ pc[q] \in Holding => p = q

THEOREM OneBuildAtATime == Spec => []MutualExclusion
<1>1. IInv => MutualExclusion
  BY Alone DEF IInv, MutualExclusion
<1> QED BY <1>1, InitOK, StepOK, PTL DEF Spec
=============================================================================
