----------------------------- MODULE ScopeFanIn -----------------------------
(***************************************************************************)
(* A function that fans out producers and consumers of one channel in a    *)
(* scope: where codegen puts the join decides whether the channel is       *)
(* closed under a sender's feet, and whether anybody waits for ever.       *)
(*                                                                         *)
(* A program is the statements of the scope's body and the ones that       *)
(* follow `try scope {..}` in the function.  A statement is                *)
(*   "produce"  a spawn that sends one message, or fails ahead of it       *)
(*   "feed"     a spawn that sends one message and closes the channel      *)
(*   "consume"  a spawn that ranges over the channel until it is closed    *)
(*   "nested"   a nested scope with a spawn, joined by the nested scope    *)
(*   "send", "recv", "close", "drain"    the function's own operations.    *)
(* The lowered body has two more, "join" and "ok" (leave the scope).       *)
(*                                                                         *)
(* The channel is MonitoredChannel's; the scope is taken by its contract   *)
(* (ScopeGroup: the join waits for every block, the first error wins).     *)
(***************************************************************************)
EXTENDS MonitoredChannel, FiniteSets, FiniteSetsExt, SequencesExt

CONSTANTS
  Program       \* the programs that are run

(* stmtLaunchesSpawn: the walk stops at a nested scope.                    *)
LaunchesSpawn(stmt) == stmt \in {"produce", "feed", "consume"}

(* mayFail: a block of the program may return Err instead of sending.      *)
(* E0405: a spawn is in a scope, so none follows it.                       *)
ASSUME ScopeFanInAssumption ==
  /\ Program \subseteq [body : Seq(STRING), after : Seq(STRING), mayFail : BOOLEAN]
  /\ \A p \in Program : \A i \in DOMAIN p.after : ~LaunchesSpawn(p.after[i])

VARIABLES
  program,      \* the program
  pc,           \* the function's next statement in Code
  role,         \* role[t]: what the spawned block t is doing
  outcome,      \* how the function has returned
  got           \* got[g]: messages of g that were received

fanVars == <<program, pc, role, outcome, got>>
allVars == <<chanVars, fanVars>>

Block == Goroutine \ {Owner}

----------------------------------------------------------------------------
IsChannelClose(stmt) == stmt = "close"

(* Mutant: the join is always placed after the whole body.                 *)
JoinAtEnd(body) == 0

(* ScopeJoinBeforeIndex: the first close after the last own spawn, 0 (the  *)
(* source's -1) to join after the whole body.                              *)
JoinBeforeIndex(body) ==
  LET spawns == {i \in DOMAIN body : LaunchesSpawn(body[i])}
      closes == {i \in DOMAIN body :
                   IsChannelClose(body[i]) /\ \A s \in spawns : s < i}
  IN  IF spawns = {} \/ closes = {} THEN 0 ELSE Min(closes)

(* The scope expression as it is lowered, and the rest of the function.    *)
LoweredBody(body) ==
  LET join == JoinBeforeIndex(body) IN
  IF join = 0 THEN body \o <<"join", "ok">>
  ELSE SubSeq(body, 1, join - 1) \o <<"join">>
         \o SubSeq(body, join, Len(body)) \o <<"ok">>

Code == LoweredBody(program.body) \o program.after

At(stmt) ==
  /\ outcome = "none" /\ fault = "none" /\ step[Owner] = "idle"
  /\ pc <= Len(Code) /\ Code[pc] = stmt

----------------------------------------------------------------------------
FanInit ==
  /\ Init
  /\ program \in Program
  /\ pc = 1
  /\ role = [t \in Block |-> "none"]
  /\ outcome = "none"
  /\ got = [g \in Goroutine |-> 0]

(* The function launches a block.                                          *)
Launch(t) ==
  /\ role[t] = "none"
  /\ \E stmt \in {"produce", "feed", "consume"} :
       /\ At(stmt)
       /\ role' = [role EXCEPT ![t] = stmt]
  /\ pc' = pc + 1
  /\ UNCHANGED <<chanVars, program, outcome, got>>

(* A nested scope joins its own spawn; leaving the scope wraps Ok.         *)
Skip ==
  /\ At("nested") \/ At("ok")
  /\ pc' = pc + 1
  /\ UNCHANGED <<chanVars, program, role, outcome, got>>

(* A block returns Err, ahead of its send.                                 *)
Fail(t) ==
  /\ program.mayFail /\ fault = "none"
  /\ role[t] \in {"produce", "feed"} /\ step[t] = "idle"
  /\ role' = [role EXCEPT ![t] = "failed"]
  /\ UNCHANGED <<chanVars, program, pc, outcome, got>>

(* A goroutine starts an operation on the channel.                         *)
Sending(g) ==
  IF g = Owner THEN At("send") ELSE role[g] \in {"produce", "feed"}

Receiving(g) ==
  IF g = Owner THEN At("recv") \/ At("drain") ELSE role[g] = "consume"

Closing(g) == IF g = Owner THEN At("close") ELSE role[g] = "closing"

Start(g) ==
  /\ \/ Sending(g) /\ CheckSend(g)
     \/ Receiving(g) /\ BeginRecv(g)
     \/ Closing(g) /\ MarkClosed(g)
  /\ UNCHANGED fanVars

----------------------------------------------------------------------------
(* What completing an operation means to the goroutines that did: the      *)
(* function goes on to its next statement, a feeder to its close, another  *)
(* block returns.  A range goes round until the channel is closed.         *)
Ends(gs) ==
  /\ pc' = IF Owner \in gs THEN pc + 1 ELSE pc
  /\ role' = [t \in Block |->
                IF t \notin gs THEN role[t]
                ELSE IF role[t] = "feed" THEN "closing" ELSE "done"]
  /\ UNCHANGED <<program, outcome>>

Ranging(g) == IF g = Owner THEN Code[pc] = "drain" ELSE TRUE

Completes(g) ==
  \/ /\ DoSend(g)
     /\ IF fault' = "none" THEN Ends({g}) /\ UNCHANGED got
        ELSE UNCHANGED fanVars
  \/ /\ DoClose(g)
     /\ Ends({g}) /\ UNCHANGED got
  \/ /\ EndRecv(g) /\ buf # <<>>
     /\ Ends(IF Ranging(g) THEN {} ELSE {g})
     /\ got' = [got EXCEPT ![Head(buf)[1]] = @ + 1]
  \/ /\ EndRecv(g) /\ buf = <<>>
     /\ Ends({g}) /\ UNCHANGED got

Meet(g, r) ==
  /\ HandOff(g, r)
  /\ Ends({g} \cup IF Ranging(r) THEN {} ELSE {r})
  /\ got' = [got EXCEPT ![g] = @ + 1]

----------------------------------------------------------------------------
(* Mutant: a block that fails never reports that it is done.               *)
NoBlockFailed == \A t \in Block : role[t] \in {"none", "done"}

AllBlocksReturned == \A t \in Block : role[t] \in {"none", "done", "failed"}

Failed == \E t \in Block : role[t] = "failed"

(* Mutant: what the join returned is looked at when the function returns.  *)
JoinReportsLate ==
  /\ At("join")
  /\ AllBlocksReturned
  /\ pc' = pc + 1
  /\ UNCHANGED <<chanVars, program, role, outcome, got>>

(* The join: an error leaves the function at once, by `try`.               *)
Join ==
  /\ At("join")
  /\ AllBlocksReturned
  /\ IF Failed THEN outcome' = "err" /\ UNCHANGED pc
     ELSE pc' = pc + 1 /\ UNCHANGED outcome
  /\ UNCHANGED <<chanVars, program, role, got>>

Return ==
  /\ outcome = "none" /\ fault = "none" /\ step[Owner] = "idle"
  /\ pc = Len(Code) + 1
  /\ outcome' = "ok"
  /\ UNCHANGED <<chanVars, program, pc, role, got>>

FanNext ==
  /\ \/ \E t \in Block : Launch(t) \/ Fail(t)
     \/ Skip
     \/ \E g \in Goroutine : Start(g) \/ Completes(g)
     \/ \E g, r \in Goroutine : Meet(g, r)
     \/ Join
     \/ Return
  /\ UNCHANGED config

FanSpec == FanInit /\ [][FanNext]_allVars /\ WF_allVars(FanNext)

----------------------------------------------------------------------------
Count(body, stmt) == Cardinality({i \in DOMAIN body : body[i] = stmt})

Statements == program.body \o program.after

(* A program closes its channel once, and not ahead of a spawn or send; a  *)
(* feeder, which closes it, is the only sender.                            *)
ClosesLast ==
  /\ Count(Statements, "close") + Count(Statements, "feed") <= 1
  /\ \A i, j \in DOMAIN Statements :
       Statements[i] = "close" /\ j > i =>
         Statements[j] \notin {"produce", "consume", "send"}
  /\ Count(Statements, "feed") = 1 =>
       Count(Statements, "produce") + Count(Statements, "send") = 0

(* Programs whose goroutines can all come to an end, by the shapes         *)
(* lowering-go.md distinguishes.  In-scope fan-in and external drain: the  *)
(* buffer holds what is sent, and is ranged over after the close.          *)
RangesAfterClose ==
  /\ Count(Statements, "consume") + Count(Statements, "feed") = 0
  /\ \A j \in DOMAIN Statements : Statements[j] = "drain" =>
       \E i \in 1..(j - 1) : Statements[i] = "close"

FanInSized ==
  /\ RangesAfterClose
  /\ Count(Statements, "recv") = 0
  /\ Count(Statements, "produce") + Count(Statements, "send") <= capacity

(* Concurrent receive: the body itself receives every message.             *)
ConcurrentReceive ==
  /\ ~program.mayFail
  /\ RangesAfterClose
  /\ Count(Statements, "send") = 0
  /\ Count(program.body, "recv") = Count(program.body, "produce")
  /\ Count(program.after, "recv") = 0
  /\ \A i, j \in DOMAIN Statements : i < j =>
       <<Statements[i], Statements[j]>>
         \notin {<<"recv", "produce">>, <<"close", "recv">>}

(* Worker pool: a spawned feeder closes the channel the others range over. *)
WorkerPool ==
  /\ ~program.mayFail
  /\ Count(Statements, "feed") = 1
  /\ Count(Statements, "recv") = 0
  /\ capacity + Count(program.body, "consume") > 0
  /\ \A i, j \in DOMAIN Statements : i < j =>
       <<Statements[i], Statements[j]>> # <<"drain", "feed">>

(* The purpose of the join's placement: whichever way the spawns, receives *)
(* and the close of a program are arranged, a channel that is closed once, *)
(* after the last spawn, is never closed under a sender: neither E1203 nor *)
(* Go's own panic, in the body or after it, whoever fails.                 *)
NeverClosedUnderSender ==
  ClosesLast => fault \notin RawPanic \cup {"E1202", "E1203"}

(* A message is received at most once; a program that drains the channel   *)
(* it closed, and returns Ok, got every message: no failed block's silence *)
(* passes for a short result.                                              *)
CollectedOnce ==
  /\ \A g \in Goroutine : got[g] <= sends[g]
  /\ outcome = "ok" /\ ClosesLast /\ Count(Statements, "drain") > 0 =>
       /\ ~Failed
       /\ \A t \in Block : role[t] = "done" => got[t] = sends[t]

(* The documented shapes terminate: nobody waits for ever.                 *)
ShapesTerminate ==
  ClosesLast /\ (FanInSized \/ ConcurrentReceive \/ WorkerPool)
    ~> (outcome # "none" \/ fault # "none")

=============================================================================
