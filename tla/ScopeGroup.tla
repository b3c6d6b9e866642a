----------------------------- MODULE ScopeGroup -----------------------------
(***************************************************************************)
(* Structured concurrency: `scope` / `spawn` as internal/codegen lowers    *)
(* them onto the run-time Group of arilrt/concurrency.go.                  *)
(*                                                                         *)
(* A goroutine (Main, or the body of a spawned block) executes scope       *)
(* expressions; each one is an immediately-invoked func that makes a Group *)
(* and a derived context, runs its body, joins, and returns a Result.      *)
(* The scopes open in one goroutine form its call stack.  A spawn          *)
(* registers on the lexically nearest group: the scope on top of the       *)
(* goroutine's stack or, in a spawned block that opened none, the group    *)
(* that block itself was spawned on.                                       *)
(*                                                                         *)
(* An error value is abstracted to the task that returned it.              *)
(***************************************************************************)
EXTENDS Integers, FiniteSets, Sequences

CONSTANTS
  Scope,            \* dynamic instances of scope expressions
  Task,             \* dynamic instances of spawned blocks
  Main,             \* the goroutine that runs the program's main
  NoScope,          \* no scope; as a parent context: context.Background()
  NoTask,           \* no task; as an error value: nil
  EarlyReturn,      \* the scopes whose body has a `return` ahead of the join
  Inheriting        \* the scopes written scope(scope.context)

ASSUME ScopeGroupAssumption ==
  /\ IsFiniteSet(Task)
  /\ Main \notin Task /\ NoTask \notin Task /\ NoScope \notin Scope
  /\ Scope \cap {"nil", "own"} = {}
  /\ EarlyReturn \subseteq Scope
  /\ Inheriting \subseteq Scope

VARIABLES
  phase,      \* phase[s]: where the scope's func is
  host,       \* host[s]: the goroutine that executes the scope expression
  stack,      \* stack[g]: the scopes open in goroutine g, innermost last
  derived,    \* derived[s]: s and the scopes its context derives from
  cancelled,  \* the scopes whose own cancel func has been called
  wg,         \* wg[s]: Group.wg
  once,       \* once[s]: Group.once
  gerr,       \* gerr[s]: Group.err
  taskState,  \* taskState[t]: where the spawned func is
  group,      \* group[t]: the group t was spawned on
  cause       \* cause[t]: what the error t returned reports

vars == <<phase, host, stack, derived, cancelled, wg, once, gerr,
          taskState, group, cause>>

Goroutine == Task \cup {Main}

Open     == {"body", "waiting", "woken", "joined"}
Returned == {"ok", "err"}
Live     == {"running", "onctx", "roused", "failed", "reporting", "finishing"}

TypeOK ==
  /\ phase \in [Scope -> {"none", "returnedEarly"} \cup Open \cup Returned]
  /\ host \in [Scope -> Goroutine]
  /\ stack \in [Goroutine -> Seq(Scope)]
  /\ derived \in [Scope -> SUBSET Scope]
  /\ cancelled \in SUBSET Scope
  /\ wg \in [Scope -> Int]
  /\ once \in [Scope -> {"new", "running", "done"}]
  /\ gerr \in [Scope -> Task \cup {NoTask}]
  /\ taskState \in [Task -> {"none", "done"} \cup Live]
  /\ group \in [Task -> Scope \cup {NoScope}]
  /\ cause \in [Task -> Scope \cup {"nil", "own"}]

Init ==
  /\ phase = [s \in Scope |-> "none"]
  /\ host = [s \in Scope |-> Main]
  /\ stack = [g \in Goroutine |-> <<>>]
  /\ derived = [s \in Scope |-> {}]
  /\ cancelled = {}
  /\ wg = [s \in Scope |-> 0]
  /\ once = [s \in Scope |-> "new"]
  /\ gerr = [s \in Scope |-> NoTask]
  /\ taskState = [t \in Task |-> "none"]
  /\ group = [t \in Task |-> NoScope]
  /\ cause = [t \in Task |-> "nil"]

----------------------------------------------------------------------------
(* The scope whose func goroutine g is executing.                          *)
Top(g) == IF stack[g] = <<>> THEN NoScope ELSE stack[g][Len(stack[g])]

(* A goroutine runs its own statements when it is in no scope, or in the   *)
(* part of one before (body) or after (joined) the join.                   *)
Running(g) ==
  /\ g \in Task => taskState[g] = "running"
  /\ Top(g) # NoScope => phase[Top(g)] \in {"body", "joined"}

(* The lexically nearest scope of the code goroutine g is executing.       *)
Nearest(g) ==
  IF Top(g) # NoScope THEN Top(g)
  ELSE IF g \in Task THEN group[g] ELSE NoScope

(* ctx.Done() of scope s is ready: cancelling a context cancels the ones   *)
(* derived from it.                                                        *)
Done(s) == derived[s] \cap cancelled # {}

Opened == {s \in Scope : phase[s] # "none"}

----------------------------------------------------------------------------
(* Mutant: NewGroup derives from context.Background() whatever the parent. *)
OpenScopeDetached(g, s, parent) ==
  /\ Running(g)
  /\ phase[s] = "none"
  /\ s \in Inheriting => parent = Nearest(g)
  /\ phase' = [phase EXCEPT ![s] = "body"]
  /\ host' = [host EXCEPT ![s] = g]
  /\ stack' = [stack EXCEPT ![g] = Append(@, s)]
  /\ derived' = [derived EXCEPT ![s] = {s}]
  /\ UNCHANGED <<cancelled, wg, once, gerr, taskState, group, cause>>

(* A goroutine evaluates a scope expression: NewGroup(parent).             *)
OpenScope(g, s, parent) ==
  /\ Running(g)
  /\ phase[s] = "none"
  /\ s \in Inheriting => parent = Nearest(g)
  /\ phase' = [phase EXCEPT ![s] = "body"]
  /\ host' = [host EXCEPT ![s] = g]
  /\ stack' = [stack EXCEPT ![g] = Append(@, s)]
  /\ derived' = [derived EXCEPT ![s] =
                   {s} \cup IF parent = NoScope THEN {} ELSE derived[parent]]
  /\ UNCHANGED <<cancelled, wg, once, gerr, taskState, group, cause>>

(* Mutant: a block spawned by a spawned block is not counted.              *)
SpawnUncounted(g, t) ==
  LET s == Nearest(g) IN
  /\ Running(g)
  /\ s # NoScope
  /\ Top(g) = s => phase[s] = "body"
  /\ taskState[t] = "none"
  /\ wg' = IF Top(g) = s THEN [wg EXCEPT ![s] = @ + 1] ELSE wg
  /\ taskState' = [taskState EXCEPT ![t] = "running"]
  /\ group' = [group EXCEPT ![t] = s]
  /\ UNCHANGED <<phase, host, stack, derived, cancelled, once, gerr,
                 cause>>

(* Mutant: the join precedes a close that is followed by another spawn.    *)
SpawnAfterJoin(g, t) ==
  LET s == Nearest(g) IN
  /\ Running(g)
  /\ s # NoScope
  /\ taskState[t] = "none"
  /\ wg' = [wg EXCEPT ![s] = @ + 1]
  /\ taskState' = [taskState EXCEPT ![t] = "running"]
  /\ group' = [group EXCEPT ![t] = s]
  /\ UNCHANGED <<phase, host, stack, derived, cancelled, once, gerr,
                 cause>>

(* `spawn { .. }`: Group.Go on the nearest group.  No spawn of a scope's   *)
(* own body follows its join (ast.ScopeJoinBeforeIndex).                   *)
Spawn(g, t) ==
  LET s == Nearest(g) IN
  /\ Running(g)
  /\ s # NoScope
  /\ Top(g) = s => phase[s] = "body"
  /\ taskState[t] = "none"
  /\ wg' = [wg EXCEPT ![s] = @ + 1]
  /\ taskState' = [taskState EXCEPT ![t] = "running"]
  /\ group' = [group EXCEPT ![t] = s]
  /\ UNCHANGED <<phase, host, stack, derived, cancelled, once, gerr,
                 cause>>

(* The spawned block blocks until its scope.context is cancelled ..        *)
AwaitCancel(t) ==
  /\ Running(t) /\ stack[t] = <<>>
  /\ taskState' = [taskState EXCEPT ![t] = "onctx"]
  /\ UNCHANGED <<phase, host, stack, derived, cancelled, wg, once, gerr,
                 group, cause>>

(* .. and is woken by it.                                                  *)
Rouse(t) ==
  /\ taskState[t] = "onctx"
  /\ Done(group[t])
  /\ taskState' = [taskState EXCEPT ![t] = "roused"]
  /\ UNCHANGED <<phase, host, stack, derived, cancelled, wg, once, gerr,
                 group, cause>>

AtReturn(t) ==
  \/ Running(t) /\ stack[t] = <<>>
  \/ taskState[t] = "roused"

(* The spawned func returns nil.                                           *)
ReturnNil(t) ==
  /\ AtReturn(t)
  /\ taskState' = [taskState EXCEPT ![t] = "finishing"]
  /\ UNCHANGED <<phase, host, stack, derived, cancelled, wg, once, gerr,
                 group, cause>>

(* What a returned error can report: the block's own failure, a cancelled  *)
(* context that its own derives from, or the error of a scope it evaluated *)
(* (`try scope ..`).                                                       *)
Reportable(t) ==
  {"own"} \cup (derived[group[t]] \cap cancelled)
          \cup {cause[gerr[i]] : i \in {j \in Scope : /\ host[j] = t
                                                      /\ phase[j] = "err"}}

(* Mutant: the context is cancelled before the error is stored.            *)
ReturnErrorCancelFirst(t) ==
  /\ AtReturn(t)
  /\ \E c \in Reportable(t) : cause' = [cause EXCEPT ![t] = c]
  /\ cancelled' = cancelled \cup {group[t]}
  /\ taskState' = [taskState EXCEPT ![t] = "failed"]
  /\ UNCHANGED <<phase, host, stack, derived, wg, once, gerr, group>>

(* The spawned func returns a non-nil error.                               *)
ReturnError(t) ==
  /\ AtReturn(t)
  /\ taskState' = [taskState EXCEPT ![t] = "failed"]
  /\ \E c \in Reportable(t) : cause' = [cause EXCEPT ![t] = c]
  /\ UNCHANGED <<phase, host, stack, derived, cancelled, wg, once, gerr,
                 group>>

(* Mutant: a mutex in the place of sync.Once: every failure is stored.     *)
StoreEveryError(t) ==
  LET s == group[t] IN
  /\ taskState[t] = "failed"
  /\ once[s] # "running"
  /\ once' = [once EXCEPT ![s] = "running"]
  /\ gerr' = [gerr EXCEPT ![s] = t]
  /\ taskState' = [taskState EXCEPT ![t] = "reporting"]
  /\ UNCHANGED <<phase, host, stack, derived, cancelled, wg, group,
                 cause>>

(* g.once.Do by the first failure: store the error ..                      *)
StoreError(t) ==
  LET s == group[t] IN
  /\ taskState[t] = "failed"
  /\ once[s] = "new"
  /\ once' = [once EXCEPT ![s] = "running"]
  /\ gerr' = [gerr EXCEPT ![s] = t]
  /\ taskState' = [taskState EXCEPT ![t] = "reporting"]
  /\ UNCHANGED <<phase, host, stack, derived, cancelled, wg, group,
                 cause>>

(* .. and cancel the group's context.                                      *)
CancelGroup(t) ==
  LET s == group[t] IN
  /\ taskState[t] = "reporting"
  /\ cancelled' = cancelled \cup {s}
  /\ once' = [once EXCEPT ![s] = "done"]
  /\ taskState' = [taskState EXCEPT ![t] = "finishing"]
  /\ UNCHANGED <<phase, host, stack, derived, wg, gerr, group, cause>>

(* g.once.Do by a later failure: waits for the first call, does nothing.   *)
SkipError(t) ==
  /\ taskState[t] = "failed"
  /\ once[group[t]] = "done"
  /\ taskState' = [taskState EXCEPT ![t] = "finishing"]
  /\ UNCHANGED <<phase, host, stack, derived, cancelled, wg, once, gerr,
                 group, cause>>

(* The deferred g.wg.Done().                                               *)
TaskDone(t) ==
  /\ taskState[t] = "finishing"
  /\ wg' = [wg EXCEPT ![group[t]] = @ - 1]
  /\ taskState' = [taskState EXCEPT ![t] = "done"]
  /\ UNCHANGED <<phase, host, stack, derived, cancelled, once, gerr,
                 group, cause>>

----------------------------------------------------------------------------
(* The statements ahead of the join have run: the host calls g.Wait(),     *)
BeginWait(s) ==
  /\ phase[s] = "body" /\ Top(host[s]) = s
  /\ phase' = [phase EXCEPT ![s] = "waiting"]
  /\ UNCHANGED <<host, stack, derived, cancelled, wg, once, gerr,
                 taskState, group, cause>>

(* g.wg.Wait() is released when the counter is zero,                       *)
WakeWait(s) ==
  /\ phase[s] = "waiting"
  /\ wg[s] = 0
  /\ phase' = [phase EXCEPT ![s] = "woken"]
  /\ UNCHANGED <<host, stack, derived, cancelled, wg, once, gerr,
                 taskState, group, cause>>

(* Leave the func of scope s with the given outcome.                       *)
Leave(s, outcome) ==
  /\ phase' = [phase EXCEPT ![s] = outcome]
  /\ stack' = [stack EXCEPT ![host[s]] = SubSeq(@, 1, Len(@) - 1)]

(* g.cancel(), and the error Wait returns becomes the scope's Err,         *)
JoinErr(s) ==
  /\ phase[s] = "woken" /\ gerr[s] # NoTask
  /\ Leave(s, "err")
  /\ cancelled' = cancelled \cup {s}
  /\ UNCHANGED <<host, derived, wg, once, gerr, taskState, group,
                 cause>>

(* or nil lets the host go on to the close, drain and trailing value,      *)
JoinNil(s) ==
  /\ phase[s] = "woken" /\ gerr[s] = NoTask
  /\ phase' = [phase EXCEPT ![s] = "joined"]
  /\ cancelled' = cancelled \cup {s}
  /\ UNCHANGED <<host, stack, derived, wg, once, gerr, taskState, group,
                 cause>>

(* which the scope returns wrapped in Ok.                                  *)
ReturnOk(s) ==
  /\ phase[s] = "joined" /\ Top(host[s]) = s
  /\ Leave(s, "ok")
  /\ UNCHANGED <<host, derived, cancelled, wg, once, gerr, taskState,
                 group, cause>>

(* A `return` among the statements ahead of the join returns from the      *)
(* scope's func: neither Wait nor cancel is reached.                       *)
ReturnEarly(s) ==
  /\ s \in EarlyReturn
  /\ phase[s] = "body" /\ Top(host[s]) = s
  /\ Leave(s, "returnedEarly")
  /\ UNCHANGED <<host, derived, cancelled, wg, once, gerr, taskState,
                 group, cause>>

----------------------------------------------------------------------------
GoroutineStep(g) ==
  \/ \E s \in Scope, p \in Opened \cup {NoScope} : OpenScope(g, s, p)
  \/ \E t \in Task : Spawn(g, t)

TaskReturns(t) == ReturnNil(t) \/ ReturnError(t)

TaskStep(t) ==
  \/ AwaitCancel(t)
  \/ Rouse(t)
  \/ TaskReturns(t)
  \/ StoreError(t)
  \/ CancelGroup(t)
  \/ SkipError(t)
  \/ TaskDone(t)

ScopeStep(s) ==
  \/ BeginWait(s)
  \/ WakeWait(s)
  \/ JoinErr(s)
  \/ JoinNil(s)
  \/ ReturnOk(s)
  \/ ReturnEarly(s)

Next ==
  \/ \E g \in Goroutine : GoroutineStep(g)
  \/ \E t \in Task : TaskStep(t)
  \/ \E s \in Scope : ScopeStep(s)

Spec == Init /\ [][Next]_vars

(* The Go scheduler runs every goroutine that can take a step, and a body  *)
(* is a finite list of statements: a spawned block that is not blocked     *)
(* returns or blocks on its context, a scope body reaches its join.        *)
(* Whether to open another scope or spawn another block is the program's   *)
(* choice.                                                                 *)
Fairness ==
  /\ \A t \in Task :
       /\ WF_vars(Rouse(t))
       /\ WF_vars(TaskReturns(t))
       /\ WF_vars(StoreError(t) \/ CancelGroup(t) \/ SkipError(t))
       /\ WF_vars(TaskDone(t))
  /\ \A s \in Scope :
       /\ WF_vars(BeginWait(s))
       /\ WF_vars(WakeWait(s))
       /\ WF_vars(JoinErr(s) \/ JoinNil(s))
       /\ WF_vars(ReturnOk(s))

FairSpec == Spec /\ Fairness

----------------------------------------------------------------------------
(* The join contract of Wait, for nested spawns too: once a scope is past  *)
(* its join no block spawned in it is still alive, so the drain, the       *)
(* trailing expression and the caller can rely on all of them.             *)
JoinContract ==
  \A s \in Scope : phase[s] \in Returned \cup {"joined"} =>
    \A t \in Task : group[t] = s => taskState[t] \notin Live

(* Scopes and blocks form a tree of lifetimes: the scope of a live block   *)
(* is open, unless it returned ahead of its join; the block that evaluates *)
(* an open scope is alive, and the scopes on its stack are open with it.   *)
(* Hence nothing at all lives below a scope that has returned.             *)
NestedLifetimes ==
  /\ \A t \in Task : taskState[t] \in Live =>
       phase[group[t]] \in Open \cup {"returnedEarly"}
  /\ \A s \in Scope : phase[s] \in Open =>
       /\ host[s] \in Task => taskState[host[s]] \in Live
       /\ \E i \in DOMAIN stack[host[s]] : stack[host[s]][i] = s
  /\ \A g \in Goroutine : \A i \in DOMAIN stack[g] :
       phase[stack[g][i]] \in Open /\ host[stack[g][i]] = g

(* A scope that is past its join without an Err had no failing block: no   *)
(* error is lost between the func's return, once.Do and Wait.              *)
NoErrorLost ==
  \A s \in Scope : phase[s] \in {"joined", "ok"} =>
    \A t \in Task : group[t] = s => cause[t] = "nil"

(* The error of a group is one of its own blocks', and it is a cause: it   *)
(* never merely reports the cancellation that the same group's first error *)
(* brings about, even when it came up through scopes nested in a block.    *)
ErrorIsACause ==
  \A s \in Scope : gerr[s] # NoTask =>
    /\ group[gerr[s]] = s
    /\ cause[gerr[s]] \notin {"nil", s}

(* First failure wins: the stored error is never replaced.                 *)
FirstErrorWins ==
  [][\A s \in Scope : gerr[s] # NoTask => gerr'[s] = gerr[s]]_vars

(* A WaitGroup counter never leaves zero once Wait may have been released: *)
(* the rule for concurrent Add and Wait, met by spawns of spawned blocks.  *)
NoAddAfterZero ==
  [][\A s \in Scope : wg[s] = 0 /\ wg'[s] # 0 => phase[s] = "body"]_vars

(* Cancellation ends a scope: one failing block is enough for its scope to *)
(* return, whoever else is blocked on the context, as long as the other    *)
(* open scopes were given their encloser's context.                        *)
FailureEndsScope ==
  \A s \in Scope :
    (\E t \in Task : group[t] = s /\ taskState[t] = "failed")
      ~> \/ phase[s] \notin Open
         \/ \E i \in Scope \ (Inheriting \cup {s}) : phase[i] \in Open

----------------------------------------------------------------------------
(* What the contract sees of a block and of a scope.  A scope that returns *)
(* ahead of its join never comes to a result.                              *)
Ending ==
  [t \in Task |->
     IF taskState[t] = "none" THEN "none"
     ELSE IF cause[t] # "nil" THEN "err"
     ELSE IF taskState[t] \in {"finishing", "done"} THEN "ok" ELSE "running"]

Result ==
  [s \in Scope |->
     IF phase[s] \in {"joined", "ok"} THEN "ok"
     ELSE IF phase[s] = "err" THEN "err" ELSE "open"]

(* The Group, the WaitGroup's counter, the once and the two-step join keep *)
(* the scope's contract, nested scopes and nested spawns included: no      *)
(* result while a block runs, Err exactly when a block failed and then the *)
(* first failure's, no cancellation but by a failure or the join.          *)
Contract == INSTANCE ScopeContract
  WITH Block <- Task, NoBlock <- NoTask, owner <- group, ending <- Ending,
       first <- gerr, result <- Result

KeepsScopeContract == Contract!Spec

=============================================================================
