-------------------------- MODULE ScopeGroupProofs --------------------------
(***************************************************************************)
(* ScopeGroup, proved for any number of scopes and spawned blocks: type    *)
(* correctness, the join contract, the nesting of lifetimes and the rule   *)
(* for WaitGroup.Add.                                                      *)
(***************************************************************************)
EXTENDS ScopeGroup, FiniteSetTheorems, TLAPS

(* The live blocks of group s: what its WaitGroup counts.                  *)
Members(s) == {t \in Task : taskState[t] \in Live /\ group[t] = s}

(* The WaitGroup counter is exact.                                         *)
Counted == \A s \in Scope : wg[s] = Cardinality(Members(s))

(* A spawned block has a group, and only opened scopes have members.       *)
Grouped ==
  \A t \in Task :
    IF taskState[t] = "none" THEN group[t] = NoScope
    ELSE group[t] \in Scope /\ phase[group[t]] # "none"

(* Released from Wait, a scope has no live member.                         *)
Emptied ==
  \A s \in Scope : phase[s] \in Returned \cup {"woken", "joined"} =>
    Members(s) = {}

(* The stacks hold the open scopes, each once, on its host's stack; below  *)
(* the top they are suspended in their body or past their join.            *)
Stacked ==
  /\ \A g \in Goroutine : \A i \in 1..Len(stack[g]) :
       /\ phase[stack[g][i]] \in Open
       /\ host[stack[g][i]] = g
       /\ \A j \in 1..Len(stack[g]) : stack[g][i] = stack[g][j] => i = j
       /\ i < Len(stack[g]) => phase[stack[g][i]] \in {"body", "joined"}
  /\ \A s \in Scope : phase[s] \in Open =>
       \E i \in 1..Len(stack[host[s]]) : stack[host[s]][i] = s

(* A spawned block that evaluates a scope has not returned.                *)
Hosting == \A t \in Task : stack[t] # <<>> => taskState[t] = "running"

(* Only a stored error makes a scope return Err.                           *)
ErrStored == \A s \in Scope : phase[s] = "err" => gerr[s] # NoTask

IInv ==
  /\ TypeOK
  /\ Counted
  /\ Grouped
  /\ Emptied
  /\ Stacked
  /\ Hosting
  /\ ErrStored

----------------------------------------------------------------------------
(* Every step keeps the types: a reported cause is one because only a      *)
(* stored error makes a scope return Err.                                  *)
LEMMA TypeStep ==
  ASSUME TypeOK, ErrStored, Grouped, [Next]_vars
  PROVE  TypeOK'
  <1> USE ScopeGroupAssumption DEF TypeOK, Open, Returned, Live, Goroutine
  <1>1. ASSUME NEW g \in Goroutine, NEW s \in Scope,
               NEW p \in Opened \cup {NoScope}, OpenScope(g, s, p)
        PROVE  TypeOK'
    BY <1>1 DEF OpenScope, Opened
  <1>2. ASSUME NEW g \in Goroutine, NEW t \in Task, Spawn(g, t)
        PROVE  TypeOK'
    BY <1>2 DEF Spawn, Running, Nearest, Top
  <1>3. ASSUME NEW t \in Task, AwaitCancel(t)
        PROVE  TypeOK'
    BY <1>3 DEF AwaitCancel, Running
  <1>4. ASSUME NEW t \in Task, Rouse(t)
        PROVE  TypeOK'
    BY <1>4 DEF Rouse
  <1>5. ASSUME NEW t \in Task, ReturnNil(t)
        PROVE  TypeOK'
    BY <1>5 DEF ReturnNil, AtReturn, Running
  <1>6. ASSUME NEW t \in Task, ReturnError(t)
        PROVE  TypeOK'
    <2>1. group[t] \in Scope
      BY <1>6 DEF ReturnError, AtReturn, Running, Grouped
    <2>2. Reportable(t) \subseteq Scope \cup {"nil", "own"}
      BY <2>1 DEF Reportable, ErrStored
    <2>3. PICK c \in Reportable(t) : cause' = [cause EXCEPT ![t] = c]
      BY <1>6 DEF ReturnError
    <2> QED
      BY <1>6, <2>2, <2>3 DEF ReturnError
  <1>7. ASSUME NEW t \in Task, StoreError(t)
        PROVE  TypeOK'
    BY <1>7 DEF StoreError
  <1>8. ASSUME NEW t \in Task, CancelGroup(t)
        PROVE  TypeOK'
    BY <1>8 DEF CancelGroup, Grouped
  <1>9. ASSUME NEW t \in Task, SkipError(t)
        PROVE  TypeOK'
    BY <1>9 DEF SkipError
  <1>10. ASSUME NEW t \in Task, TaskDone(t)
        PROVE  TypeOK'
    BY <1>10 DEF TaskDone, Grouped
  <1>11. ASSUME NEW s \in Scope, BeginWait(s)
        PROVE  TypeOK'
    BY <1>11 DEF BeginWait
  <1>12. ASSUME NEW s \in Scope, WakeWait(s)
        PROVE  TypeOK'
    BY <1>12 DEF WakeWait
  <1>13. ASSUME NEW s \in Scope, JoinErr(s)
        PROVE  TypeOK'
    BY <1>13 DEF JoinErr, Leave
  <1>14. ASSUME NEW s \in Scope, JoinNil(s)
        PROVE  TypeOK'
    BY <1>14 DEF JoinNil
  <1>15. ASSUME NEW s \in Scope, ReturnOk(s)
        PROVE  TypeOK'
    BY <1>15 DEF ReturnOk, Leave
  <1>16. ASSUME NEW s \in Scope, ReturnEarly(s)
        PROVE  TypeOK'
    BY <1>16 DEF ReturnEarly, Leave
  <1>17. CASE UNCHANGED vars
    BY <1>17 DEF vars
  <1> QED
    BY <1>1, <1>2, <1>3, <1>4, <1>5, <1>6, <1>7, <1>8, <1>9, <1>10,
       <1>11, <1>12, <1>13, <1>14, <1>15, <1>16, <1>17
    DEF Next, GoroutineStep, TaskStep, TaskReturns, ScopeStep

(* A group is opened before anything is spawned on it and stays opened.    *)
LEMMA GroupedStep ==
  ASSUME TypeOK, Grouped, Stacked, [Next]_vars
  PROVE  Grouped'
  <1> USE DEF TypeOK, Grouped, Open, Returned, Live, Goroutine
  <1>1. ASSUME NEW g \in Goroutine, NEW s \in Scope,
               NEW p \in Opened \cup {NoScope}, OpenScope(g, s, p)
        PROVE  Grouped'
    BY <1>1 DEF OpenScope, Opened
  <1>2. ASSUME NEW g \in Goroutine, NEW t \in Task, Spawn(g, t)
        PROVE  Grouped'
    <2>1. Nearest(g) \in Scope /\ phase[Nearest(g)] # "none"
      BY <1>2 DEF Spawn, Running, Nearest, Top, Stacked
    <2> QED
      BY <1>2, <2>1 DEF Spawn
  <1>3. ASSUME NEW t \in Task, AwaitCancel(t)
        PROVE  Grouped'
    BY <1>3 DEF AwaitCancel, Running
  <1>4. ASSUME NEW t \in Task, Rouse(t)
        PROVE  Grouped'
    BY <1>4 DEF Rouse
  <1>5. ASSUME NEW t \in Task, ReturnNil(t)
        PROVE  Grouped'
    BY <1>5 DEF ReturnNil, AtReturn, Running
  <1>6. ASSUME NEW t \in Task, ReturnError(t)
        PROVE  Grouped'
    BY <1>6 DEF ReturnError, AtReturn, Running
  <1>7. ASSUME NEW t \in Task, StoreError(t)
        PROVE  Grouped'
    BY <1>7 DEF StoreError
  <1>8. ASSUME NEW t \in Task, CancelGroup(t)
        PROVE  Grouped'
    BY <1>8 DEF CancelGroup
  <1>9. ASSUME NEW t \in Task, SkipError(t)
        PROVE  Grouped'
    BY <1>9 DEF SkipError
  <1>10. ASSUME NEW t \in Task, TaskDone(t)
        PROVE  Grouped'
    BY <1>10 DEF TaskDone
  <1>11. ASSUME NEW s \in Scope, BeginWait(s)
        PROVE  Grouped'
    BY <1>11 DEF BeginWait
  <1>12. ASSUME NEW s \in Scope, WakeWait(s)
        PROVE  Grouped'
    BY <1>12 DEF WakeWait
  <1>13. ASSUME NEW s \in Scope, JoinErr(s)
        PROVE  Grouped'
    BY <1>13 DEF JoinErr, Leave
  <1>14. ASSUME NEW s \in Scope, JoinNil(s)
        PROVE  Grouped'
    BY <1>14 DEF JoinNil
  <1>15. ASSUME NEW s \in Scope, ReturnOk(s)
        PROVE  Grouped'
    BY <1>15 DEF ReturnOk, Leave
  <1>16. ASSUME NEW s \in Scope, ReturnEarly(s)
        PROVE  Grouped'
    BY <1>16 DEF ReturnEarly, Leave
  <1>17. CASE UNCHANGED vars
    BY <1>17 DEF vars
  <1> QED
    BY <1>1, <1>2, <1>3, <1>4, <1>5, <1>6, <1>7, <1>8, <1>9, <1>10,
       <1>11, <1>12, <1>13, <1>14, <1>15, <1>16, <1>17
    DEF Next, GoroutineStep, TaskStep, TaskReturns, ScopeStep

(* A scope returns Err only from JoinErr, and a stored error stays.        *)
LEMMA ErrStoredStep ==
  ASSUME TypeOK, ErrStored, Grouped, ScopeGroupAssumption, [Next]_vars
  PROVE  ErrStored'
  <1> USE ScopeGroupAssumption DEF TypeOK, ErrStored, Open, Returned, Live,
         Goroutine
  <1>1. ASSUME NEW g \in Goroutine, NEW s \in Scope,
               NEW p \in Opened \cup {NoScope}, OpenScope(g, s, p)
        PROVE  ErrStored'
    BY <1>1 DEF OpenScope
  <1>2. ASSUME NEW g \in Goroutine, NEW t \in Task, Spawn(g, t)
        PROVE  ErrStored'
    BY <1>2 DEF Spawn
  <1>3. ASSUME NEW t \in Task, AwaitCancel(t)
        PROVE  ErrStored'
    BY <1>3 DEF AwaitCancel
  <1>4. ASSUME NEW t \in Task, Rouse(t)
        PROVE  ErrStored'
    BY <1>4 DEF Rouse
  <1>5. ASSUME NEW t \in Task, ReturnNil(t)
        PROVE  ErrStored'
    BY <1>5 DEF ReturnNil
  <1>6. ASSUME NEW t \in Task, ReturnError(t)
        PROVE  ErrStored'
    BY <1>6 DEF ReturnError
  <1>7. ASSUME NEW t \in Task, StoreError(t)
        PROVE  ErrStored'
    BY <1>7 DEF StoreError
  <1>8. ASSUME NEW t \in Task, CancelGroup(t)
        PROVE  ErrStored'
    BY <1>8 DEF CancelGroup
  <1>9. ASSUME NEW t \in Task, SkipError(t)
        PROVE  ErrStored'
    BY <1>9 DEF SkipError
  <1>10. ASSUME NEW t \in Task, TaskDone(t)
        PROVE  ErrStored'
    BY <1>10 DEF TaskDone
  <1>11. ASSUME NEW s \in Scope, BeginWait(s)
        PROVE  ErrStored'
    BY <1>11 DEF BeginWait
  <1>12. ASSUME NEW s \in Scope, WakeWait(s)
        PROVE  ErrStored'
    BY <1>12 DEF WakeWait
  <1>13. ASSUME NEW s \in Scope, JoinErr(s)
        PROVE  ErrStored'
    BY <1>13 DEF JoinErr, Leave
  <1>14. ASSUME NEW s \in Scope, JoinNil(s)
        PROVE  ErrStored'
    BY <1>14 DEF JoinNil
  <1>15. ASSUME NEW s \in Scope, ReturnOk(s)
        PROVE  ErrStored'
    BY <1>15 DEF ReturnOk, Leave
  <1>16. ASSUME NEW s \in Scope, ReturnEarly(s)
        PROVE  ErrStored'
    BY <1>16 DEF ReturnEarly, Leave
  <1>17. CASE UNCHANGED vars
    BY <1>17 DEF vars
  <1> QED
    BY <1>1, <1>2, <1>3, <1>4, <1>5, <1>6, <1>7, <1>8, <1>9, <1>10,
       <1>11, <1>12, <1>13, <1>14, <1>15, <1>16, <1>17
    DEF Next, GoroutineStep, TaskStep, TaskReturns, ScopeStep

(* A block that evaluates a scope cannot return: its stack is not empty.   *)
LEMMA HostingStep ==
  ASSUME TypeOK, Hosting, Stacked, [Next]_vars
  PROVE  Hosting'
  <1> USE DEF TypeOK, Hosting, Open, Returned, Live, Goroutine
  <1>1. ASSUME NEW g \in Goroutine, NEW s \in Scope,
               NEW p \in Opened \cup {NoScope}, OpenScope(g, s, p)
        PROVE  Hosting'
    BY <1>1 DEF OpenScope, Running
  <1>2. ASSUME NEW g \in Goroutine, NEW t \in Task, Spawn(g, t)
        PROVE  Hosting'
    BY <1>2 DEF Spawn, Running
  <1>3. ASSUME NEW t \in Task, AwaitCancel(t)
        PROVE  Hosting'
    BY <1>3 DEF AwaitCancel, Running
  <1>4. ASSUME NEW t \in Task, Rouse(t)
        PROVE  Hosting'
    BY <1>4 DEF Rouse
  <1>5. ASSUME NEW t \in Task, ReturnNil(t)
        PROVE  Hosting'
    BY <1>5 DEF ReturnNil, AtReturn, Running
  <1>6. ASSUME NEW t \in Task, ReturnError(t)
        PROVE  Hosting'
    BY <1>6 DEF ReturnError, AtReturn, Running
  <1>7. ASSUME NEW t \in Task, StoreError(t)
        PROVE  Hosting'
    BY <1>7 DEF StoreError
  <1>8. ASSUME NEW t \in Task, CancelGroup(t)
        PROVE  Hosting'
    BY <1>8 DEF CancelGroup
  <1>9. ASSUME NEW t \in Task, SkipError(t)
        PROVE  Hosting'
    BY <1>9 DEF SkipError
  <1>10. ASSUME NEW t \in Task, TaskDone(t)
        PROVE  Hosting'
    BY <1>10 DEF TaskDone
  <1>11. ASSUME NEW s \in Scope, BeginWait(s)
        PROVE  Hosting'
    BY <1>11 DEF BeginWait
  <1>12. ASSUME NEW s \in Scope, WakeWait(s)
        PROVE  Hosting'
    BY <1>12 DEF WakeWait
  <1>13. ASSUME NEW s \in Scope, JoinErr(s)
        PROVE  Hosting'
    BY <1>13 DEF JoinErr, Leave
  <1>14. ASSUME NEW s \in Scope, JoinNil(s)
        PROVE  Hosting'
    BY <1>14 DEF JoinNil
  <1>15. ASSUME NEW s \in Scope, ReturnOk(s)
        PROVE  Hosting'
    BY <1>15 DEF ReturnOk, Leave
  <1>16. ASSUME NEW s \in Scope, ReturnEarly(s)
        PROVE  Hosting'
    BY <1>16 DEF ReturnEarly, Leave
  <1>17. CASE UNCHANGED vars
    BY <1>17 DEF vars
  <1> QED
    BY <1>1, <1>2, <1>3, <1>4, <1>5, <1>6, <1>7, <1>8, <1>9, <1>10,
       <1>11, <1>12, <1>13, <1>14, <1>15, <1>16, <1>17
    DEF Next, GoroutineStep, TaskStep, TaskReturns, ScopeStep

(* Opening pushes, leaving pops, and only the top of a stack is left.      *)
LEMMA StackedStep ==
  ASSUME TypeOK, Stacked, Hosting, ScopeGroupAssumption, [Next]_vars
  PROVE  Stacked'
  <1>t. /\ phase \in [Scope -> {"none", "returnedEarly"} \cup Open \cup Returned]
        /\ host \in [Scope -> Goroutine]
        /\ stack \in [Goroutine -> Seq(Scope)]
        /\ \A g \in Goroutine : Len(stack[g]) \in Nat
        /\ \A g \in Goroutine : \A i \in 1..Len(stack[g]) : stack[g][i] \in Scope
    BY DEF TypeOK
  <1>a. ASSUME UNCHANGED <<phase, host, stack>>
        PROVE  Stacked'
    BY <1>a DEF Stacked
  <1>top. ASSUME NEW s \in Scope, phase[s] \in Open,
                 phase[s] \in {"waiting", "woken"} \/ Top(host[s]) = s
          PROVE  /\ Len(stack[host[s]]) \in 1..Len(stack[host[s]])
                 /\ stack[host[s]][Len(stack[host[s]])] = s
    <2>1. PICK i \in 1..Len(stack[host[s]]) : stack[host[s]][i] = s
      BY <1>top DEF Stacked
    <2>2. host[s] \in Goroutine /\ Len(stack[host[s]]) \in Nat
      BY <1>t
    <2>3. CASE phase[s] \in {"waiting", "woken"}
      <3>1. ~(i < Len(stack[host[s]]))
        BY <2>1, <2>2, <2>3 DEF Stacked
      <3> QED BY <3>1, <2>1, <2>2
    <2>4. CASE Top(host[s]) = s
      <3>1. s # NoScope
        BY ScopeGroupAssumption
      <3>2. stack[host[s]][Len(stack[host[s]])] = s
        BY <2>4, <3>1 DEF Top
      <3> QED BY <3>2, <2>1, <2>2
    <2> QED BY <2>3, <2>4, <1>top
  <1>b. ASSUME NEW s \in Scope, NEW to \in Open, phase[s] \in Open,
               to \in {"body", "joined"} \/ Top(host[s]) = s,
               phase' = [phase EXCEPT ![s] = to], UNCHANGED <<host, stack>>
        PROVE  Stacked'
    <2>1. \A x \in Scope : phase'[x] = IF x = s THEN to ELSE phase[x]
      BY <1>b, <1>t
    <2>2. \A x \in Scope : phase'[x] \in Open => phase[x] \in Open
      BY <2>1, <1>b
    <2>3. ASSUME NEW g \in Goroutine, NEW i \in 1..Len(stack[g])
          PROVE  /\ phase'[stack[g][i]] \in Open
                 /\ i < Len(stack[g]) => phase'[stack[g][i]] \in {"body", "joined"}
      <3>1. stack[g][i] \in Scope /\ phase[stack[g][i]] \in Open
            /\ host[stack[g][i]] = g
            /\ (i < Len(stack[g]) => phase[stack[g][i]] \in {"body", "joined"})
        BY <1>t DEF Stacked
      <3>2. CASE stack[g][i] # s
        BY <3>1, <3>2, <2>1
      <3>3. CASE stack[g][i] = s /\ to \in {"body", "joined"}
        BY <3>1, <3>3, <2>1
      <3>4. CASE stack[g][i] = s /\ Top(host[s]) = s
        <4>1. host[s] = g /\ Len(stack[g]) \in 1..Len(stack[g])
              /\ stack[g][Len(stack[g])] = s
          BY <3>1, <3>4, <1>top, <1>b
        <4>2. i = Len(stack[g])
          BY <4>1, <3>4 DEF Stacked
        <4> QED BY <4>2, <3>4, <2>1, <1>t
      <3> QED BY <3>2, <3>3, <3>4, <1>b
    <2> QED
      BY <2>2, <2>3, <1>b DEF Stacked
  <1>c. ASSUME NEW s \in Scope, NEW to,
               to \notin Open,
               phase[s] \in Open,
               phase[s] \in {"waiting", "woken"} \/ Top(host[s]) = s,
               Leave(s, to), UNCHANGED host
        PROVE  Stacked'
    <2>1. PICK h \in Goroutine : h = host[s]
      BY <1>t
    <2>2. PICK n \in Nat : n = Len(stack[h])
      BY <1>t
    <2>3. n \in 1..n /\ stack[h][n] = s
      BY <1>top, <1>c, <2>1, <2>2
    <2>4. n - 1 \in Nat
      BY <2>3
    <2>5. stack' = [stack EXCEPT ![h] = SubSeq(stack[h], 1, n - 1)]
      BY <1>c, <2>1, <2>2 DEF Leave
    <2>6. /\ Len(stack'[h]) = n - 1
          /\ \A i \in 1..(n - 1) : stack'[h][i] = stack[h][i]
          /\ \A g \in Goroutine \ {h} : stack'[g] = stack[g]
      <3>1. stack'[h] = SubSeq(stack[h], 1, n - 1)
        BY <2>5, <1>t
      <3>2. stack[h] \in Seq(Scope) /\ Len(stack[h]) = n
        BY <1>t, <2>2
      <3>3. /\ Len(SubSeq(stack[h], 1, n - 1)) = n - 1
            /\ \A i \in 1..(n - 1) : SubSeq(stack[h], 1, n - 1)[i] = stack[h][i]
        BY <3>2, <2>3, <2>4
      <3> QED BY <3>1, <3>3, <2>5, <1>t
    <2>7. ASSUME NEW g \in Goroutine, NEW i \in 1..Len(stack'[g])
          PROVE  /\ i \in 1..Len(stack[g])
                 /\ stack'[g][i] = stack[g][i]
                 /\ stack[g][i] # s
      <3>1. CASE g = h
        <4>1. i \in 1..(n - 1) /\ i \in 1..n /\ i # n
          BY <2>3, <2>4, <2>6, <3>1
        <4>2. stack[h][i] # stack[h][n]
          BY <4>1, <2>2, <2>3 DEF Stacked
        <4> QED BY <3>1, <4>1, <4>2, <2>2, <2>3, <2>6
      <3>2. CASE g # h
        <4>1. stack'[g] = stack[g] /\ i \in 1..Len(stack[g])
          BY <3>2, <2>6
        <4>2. host[stack[g][i]] = g
          BY <4>1 DEF Stacked
        <4> QED BY <4>1, <4>2, <3>2, <2>1
      <3> QED BY <3>1, <3>2
    <2>8. \A x \in Scope : x # s => phase'[x] = phase[x]
      BY <1>c, <1>t DEF Leave
    <2>9. ASSUME NEW x \in Scope, phase'[x] \in Open
          PROVE  \E i \in 1..Len(stack'[host'[x]]) : stack'[host'[x]][i] = x
      <3>1. x # s /\ phase[x] \in Open /\ host'[x] = host[x]
        BY <2>8, <2>9, <1>c, <1>t DEF Leave
      <3>2. PICK i \in 1..Len(stack[host[x]]) : stack[host[x]][i] = x
        BY <3>1 DEF Stacked
      <3>3. CASE host[x] = h
        <4>1. i \in 1..(n - 1)
          BY <3>1, <3>2, <3>3, <2>2, <2>3
        <4> QED
          BY <4>1, <3>1, <3>2, <3>3, <2>6
      <3>4. CASE host[x] # h
        BY <3>4, <3>1, <3>2, <2>6, <1>t
      <3> QED BY <3>3, <3>4
    <2>10. ASSUME NEW g \in Goroutine, NEW i \in 1..Len(stack'[g])
           PROVE  /\ phase'[stack'[g][i]] \in Open
                  /\ host'[stack'[g][i]] = g
                  /\ i < Len(stack'[g]) =>
                       phase'[stack'[g][i]] \in {"body", "joined"}
      <3>1. /\ i \in 1..Len(stack[g]) /\ stack'[g][i] = stack[g][i]
            /\ stack[g][i] # s /\ stack[g][i] \in Scope
        BY <2>7, <1>t
      <3>2. phase'[stack'[g][i]] = phase[stack[g][i]] /\ host' = host
        BY <3>1, <2>8, <1>c
      <3>3. i < Len(stack'[g]) => i < Len(stack[g])
        BY <2>2, <2>4, <2>6, <3>1
      <3> QED
        BY <3>1, <3>2, <3>3 DEF Stacked
    <2>11. ASSUME NEW g \in Goroutine, NEW i \in 1..Len(stack'[g]),
                  NEW j \in 1..Len(stack'[g]), stack'[g][i] = stack'[g][j]
           PROVE  i = j
      BY <2>7, <2>11 DEF Stacked
    <2> QED
      BY <2>9, <2>10, <2>11 DEF Stacked
  <1>d. ASSUME NEW g \in Goroutine, NEW s \in Scope,
               NEW p \in Opened \cup {NoScope}, OpenScope(g, s, p)
        PROVE  Stacked'
    <2>0. PICK n \in Nat : n = Len(stack[g])
      BY <1>t
    <2>1. /\ Len(stack'[g]) = n + 1 /\ stack'[g][n + 1] = s
          /\ \A i \in 1..n : stack'[g][i] = stack[g][i]
          /\ \A x \in Goroutine \ {g} : stack'[x] = stack[x]
      BY <1>d, <1>t, <2>0 DEF OpenScope
    <2>2. /\ phase'[s] = "body" /\ host'[s] = g
          /\ \A x \in Scope : x # s => phase'[x] = phase[x] /\ host'[x] = host[x]
      BY <1>d, <1>t DEF OpenScope
    <2>3. \A x \in Goroutine : \A i \in 1..Len(stack[x]) :
            stack[x][i] \in Scope /\ stack[x][i] # s
      <3>1. phase[s] \notin Open
        BY <1>d DEF OpenScope, Open
      <3> QED BY <3>1, <1>t DEF Stacked
    <2>4. n > 0 => phase[stack[g][n]] \in {"body", "joined"}
      <3>1. ASSUME n > 0 PROVE stack[g][n] \in Scope /\ stack[g] # <<>>
        BY <3>1, <2>0, <1>t
      <3> QED
        BY <3>1, <1>d, <2>0, ScopeGroupAssumption DEF OpenScope, Running, Top
    <2>5. ASSUME NEW x \in Scope, phase'[x] \in Open
          PROVE  \E i \in 1..Len(stack'[host'[x]]) : stack'[host'[x]][i] = x
      <3>1. CASE x = s
        BY <3>1, <2>1, <2>2, <2>0
      <3>2. CASE x # s
        <4>1. PICK i \in 1..Len(stack[host[x]]) : stack[host[x]][i] = x
          BY <3>2, <2>2, <2>5 DEF Stacked
        <4>2. CASE host[x] = g
          <5>1. i \in 1..n /\ i \in 1..(n + 1)
            BY <4>1, <4>2, <2>0
          <5> QED BY <5>1, <4>1, <4>2, <3>2, <2>1, <2>2
        <4>3. CASE host[x] # g
          <5>1. host[x] \in Goroutine \ {g} /\ host'[x] = host[x]
            BY <4>3, <3>2, <2>2, <1>t
          <5>2. stack'[host[x]] = stack[host[x]]
            BY <5>1, <2>1
          <5> QED BY <5>1, <5>2, <4>1
        <4> QED BY <4>2, <4>3
      <3> QED BY <3>1, <3>2
    <2>6. ASSUME NEW x \in Goroutine, NEW i \in 1..Len(stack'[x]), ~(x = g /\ i = n + 1)
          PROVE  /\ i \in 1..Len(stack[x]) /\ stack'[x][i] = stack[x][i]
                 /\ phase'[stack'[x][i]] = phase[stack[x][i]]
                 /\ host'[stack'[x][i]] = x
      <3>1. i \in 1..Len(stack[x]) /\ stack'[x][i] = stack[x][i]
        <4>1. CASE x = g
          BY <4>1, <2>6, <2>0, <2>1
        <4>2. CASE x # g
          BY <4>2, <2>1
        <4> QED BY <4>1, <4>2
      <3>2. host[stack[x][i]] = x
        BY <3>1 DEF Stacked
      <3> QED BY <3>1, <3>2, <2>2, <2>3
    <2>7. ASSUME NEW x \in Goroutine, NEW i \in 1..Len(stack'[x])
          PROVE  /\ phase'[stack'[x][i]] \in Open
                 /\ host'[stack'[x][i]] = x
                 /\ i < Len(stack'[x]) =>
                      phase'[stack'[x][i]] \in {"body", "joined"}
      <3>1. CASE x = g /\ i = n + 1
        BY <3>1, <2>1, <2>2, <2>0 DEF Open
      <3>2. CASE ~(x = g /\ i = n + 1)
        <4>1. /\ i \in 1..Len(stack[x]) /\ phase[stack[x][i]] \in Open
              /\ (i < Len(stack[x]) => phase[stack[x][i]] \in {"body", "joined"})
          BY <2>6, <3>2 DEF Stacked
        <4>2. i < Len(stack'[x]) => i < Len(stack[x]) \/ (x = g /\ i = n)
          BY <4>1, <2>0, <2>1
        <4>3. x = g /\ i = n => phase[stack[x][i]] \in {"body", "joined"}
          BY <4>1, <2>4, <2>0
        <4> QED BY <4>1, <4>2, <4>3, <2>6, <3>2
      <3> QED BY <3>1, <3>2
    <2>8. ASSUME NEW x \in Goroutine, NEW i \in 1..Len(stack'[x]),
                 NEW j \in 1..Len(stack'[x]), stack'[x][i] = stack'[x][j]
          PROVE  i = j
      <3>1. CASE x = g /\ (i = n + 1 \/ j = n + 1)
        <4>1. i # n + 1 => stack[g][i] # s /\ stack'[g][i] = stack[g][i]
          BY <3>1, <2>6, <2>3
        <4>2. j # n + 1 => stack[g][j] # s /\ stack'[g][j] = stack[g][j]
          BY <3>1, <2>6, <2>3
        <4> QED BY <4>1, <4>2, <3>1, <2>1, <2>8
      <3>2. CASE ~(x = g /\ (i = n + 1 \/ j = n + 1))
        BY <3>2, <2>6, <2>8 DEF Stacked
      <3> QED BY <3>1, <3>2
    <2> QED
      BY <2>5, <2>7, <2>8 DEF Stacked
  <1>1. ASSUME NEW g \in Goroutine, NEW s \in Scope,
               NEW p \in Opened \cup {NoScope}, OpenScope(g, s, p)
        PROVE  Stacked'
    BY <1>1, <1>d
  <1>2. ASSUME NEW g \in Goroutine, NEW t \in Task, Spawn(g, t)
        PROVE  Stacked'
    BY <1>2, <1>a DEF Spawn
  <1>3. ASSUME NEW t \in Task, AwaitCancel(t)
        PROVE  Stacked'
    BY <1>3, <1>a DEF AwaitCancel
  <1>4. ASSUME NEW t \in Task, Rouse(t)
        PROVE  Stacked'
    BY <1>4, <1>a DEF Rouse
  <1>5. ASSUME NEW t \in Task, ReturnNil(t)
        PROVE  Stacked'
    BY <1>5, <1>a DEF ReturnNil
  <1>6. ASSUME NEW t \in Task, ReturnError(t)
        PROVE  Stacked'
    BY <1>6, <1>a DEF ReturnError
  <1>7. ASSUME NEW t \in Task, StoreError(t)
        PROVE  Stacked'
    BY <1>7, <1>a DEF StoreError
  <1>8. ASSUME NEW t \in Task, CancelGroup(t)
        PROVE  Stacked'
    BY <1>8, <1>a DEF CancelGroup
  <1>9. ASSUME NEW t \in Task, SkipError(t)
        PROVE  Stacked'
    BY <1>9, <1>a DEF SkipError
  <1>10. ASSUME NEW t \in Task, TaskDone(t)
        PROVE  Stacked'
    BY <1>10, <1>a DEF TaskDone
  <1>11. ASSUME NEW s \in Scope, BeginWait(s)
        PROVE  Stacked'
    BY <1>11, <1>b DEF BeginWait, Open
  <1>12. ASSUME NEW s \in Scope, WakeWait(s)
        PROVE  Stacked'
    <2>1. Top(host[s]) = s
      <3>1. /\ Len(stack[host[s]]) \in 1..Len(stack[host[s]])
            /\ stack[host[s]][Len(stack[host[s]])] = s
        BY <1>12, <1>top DEF WakeWait, Open
      <3> QED BY <3>1, <1>t DEF Top
    <2> QED BY <1>12, <2>1, <1>b DEF WakeWait, Open
  <1>13. ASSUME NEW s \in Scope, JoinErr(s)
        PROVE  Stacked'
    BY <1>13, <1>c DEF JoinErr, Open
  <1>14. ASSUME NEW s \in Scope, JoinNil(s)
        PROVE  Stacked'
    BY <1>14, <1>b DEF JoinNil, Open
  <1>15. ASSUME NEW s \in Scope, ReturnOk(s)
        PROVE  Stacked'
    BY <1>15, <1>c DEF ReturnOk, Open
  <1>16. ASSUME NEW s \in Scope, ReturnEarly(s)
        PROVE  Stacked'
    BY <1>16, <1>c DEF ReturnEarly, Open
  <1>17. CASE UNCHANGED vars
    BY <1>17, <1>a DEF vars
  <1> QED
    BY <1>1, <1>2, <1>3, <1>4, <1>5, <1>6, <1>7, <1>8, <1>9, <1>10,
       <1>11, <1>12, <1>13, <1>14, <1>15, <1>16, <1>17
    DEF Next, GoroutineStep, TaskStep, TaskReturns, ScopeStep

(* No step but Spawn adds a member to a group.                             *)
LEMMA CountedStep ==
  ASSUME TypeOK, Counted, Grouped, Stacked, ScopeGroupAssumption, [Next]_vars
  PROVE  Counted'
  <1>t. /\ taskState \in [Task -> {"none", "done"} \cup Live]
        /\ group \in [Task -> Scope \cup {NoScope}]
        /\ wg \in [Scope -> Int]
        /\ IsFiniteSet(Task)
    BY ScopeGroupAssumption DEF TypeOK
  <1>f. \A s \in Scope : IsFiniteSet(Members(s)) /\ IsFiniteSet(Members(s)')
    <2> TAKE s \in Scope
    <2>1. Members(s) \subseteq Task /\ Members(s)' \subseteq Task
      BY DEF Members
    <2> QED BY <2>1, <1>t, FS_Subset
  <1>a. ASSUME UNCHANGED <<wg, group>>,
               \A t \in Task : taskState'[t] \in Live <=> taskState[t] \in Live
        PROVE  Counted'
    BY <1>a DEF Counted, Members
  <1>c. ASSUME NEW t \in Task, NEW to \in Live, taskState[t] \in Live,
               UNCHANGED <<wg, group>>,
               taskState' = [taskState EXCEPT ![t] = to]
        PROVE  Counted'
    BY <1>c, <1>a, <1>t
  <1>1. ASSUME NEW g \in Goroutine, NEW s \in Scope,
               NEW p \in Opened \cup {NoScope}, OpenScope(g, s, p)
        PROVE  Counted'
    BY <1>1, <1>a DEF OpenScope
  <1>2. ASSUME NEW g \in Goroutine, NEW t \in Task, Spawn(g, t)
        PROVE  Counted'
    <2>1. PICK s \in Scope : s = Nearest(g)
      <3>1. g \in Task => taskState[g] # "none"
        BY <1>2 DEF Spawn, Running
      <3> QED BY <3>1, <1>2 DEF Spawn, Nearest, Top, TypeOK, Goroutine, Grouped
    <2>2. /\ wg' = [wg EXCEPT ![s] = @ + 1]
          /\ taskState' = [taskState EXCEPT ![t] = "running"]
          /\ group' = [group EXCEPT ![t] = s]
          /\ taskState[t] = "none"
      BY <1>2, <2>1 DEF Spawn
    <2>3. t \notin Members(s) /\ Members(s)' = Members(s) \cup {t}
      BY <2>2, <1>t DEF Members, Live
    <2>4. \A x \in Scope : x # s => Members(x)' = Members(x)
      BY <2>2, <1>t DEF Members, Live
    <2>5. Cardinality(Members(s)') = Cardinality(Members(s)) + 1
      BY <2>3, <1>f, FS_AddElement
    <2> QED BY <2>2, <2>4, <2>5, <1>t DEF Counted
  <1>3. ASSUME NEW t \in Task, AwaitCancel(t)
        PROVE  Counted'
    BY <1>3, <1>c DEF AwaitCancel, Live, Running
  <1>4. ASSUME NEW t \in Task, Rouse(t)
        PROVE  Counted'
    BY <1>4, <1>c DEF Rouse, Live
  <1>5. ASSUME NEW t \in Task, ReturnNil(t)
        PROVE  Counted'
    BY <1>5, <1>c DEF ReturnNil, Live, AtReturn, Running
  <1>6. ASSUME NEW t \in Task, ReturnError(t)
        PROVE  Counted'
    BY <1>6, <1>c DEF ReturnError, Live, AtReturn, Running
  <1>7. ASSUME NEW t \in Task, StoreError(t)
        PROVE  Counted'
    BY <1>7, <1>c DEF StoreError, Live
  <1>8. ASSUME NEW t \in Task, CancelGroup(t)
        PROVE  Counted'
    BY <1>8, <1>c DEF CancelGroup, Live
  <1>9. ASSUME NEW t \in Task, SkipError(t)
        PROVE  Counted'
    BY <1>9, <1>c DEF SkipError, Live
  <1>10. ASSUME NEW t \in Task, TaskDone(t)
        PROVE  Counted'
    <2>1. PICK s \in Scope : s = group[t]
      BY <1>10 DEF TaskDone, Grouped
    <2>2. /\ wg' = [wg EXCEPT ![s] = @ - 1]
          /\ taskState' = [taskState EXCEPT ![t] = "done"]
          /\ UNCHANGED group /\ taskState[t] = "finishing"
      BY <1>10, <2>1 DEF TaskDone
    <2>3. t \in Members(s) /\ Members(s)' = Members(s) \ {t}
      BY <2>1, <2>2, <1>t DEF Members, Live
    <2>4. \A x \in Scope : x # s => Members(x)' = Members(x)
      BY <2>1, <2>2, <1>t DEF Members, Live
    <2>5. Cardinality(Members(s)') = Cardinality(Members(s)) - 1
      BY <2>3, <1>f, FS_RemoveElement
    <2> QED BY <2>2, <2>4, <2>5, <1>t DEF Counted
  <1>11. ASSUME NEW s \in Scope, BeginWait(s)
        PROVE  Counted'
    BY <1>11, <1>a DEF BeginWait
  <1>12. ASSUME NEW s \in Scope, WakeWait(s)
        PROVE  Counted'
    BY <1>12, <1>a DEF WakeWait
  <1>13. ASSUME NEW s \in Scope, JoinErr(s)
        PROVE  Counted'
    BY <1>13, <1>a DEF JoinErr
  <1>14. ASSUME NEW s \in Scope, JoinNil(s)
        PROVE  Counted'
    BY <1>14, <1>a DEF JoinNil
  <1>15. ASSUME NEW s \in Scope, ReturnOk(s)
        PROVE  Counted'
    BY <1>15, <1>a DEF ReturnOk
  <1>16. ASSUME NEW s \in Scope, ReturnEarly(s)
        PROVE  Counted'
    BY <1>16, <1>a DEF ReturnEarly
  <1>17. CASE UNCHANGED vars
    BY <1>17, <1>a DEF vars
  <1> QED
    BY <1>1, <1>2, <1>3, <1>4, <1>5, <1>6, <1>7, <1>8, <1>9, <1>10,
       <1>11, <1>12, <1>13, <1>14, <1>15, <1>16, <1>17
    DEF Next, GoroutineStep, TaskStep, TaskReturns, ScopeStep

(* Wait is released with an empty group, and nobody is left to spawn on it:*)
(* the scope's own body is past its spawns, its blocks have finished.      *)
LEMMA EmptiedStep ==
  ASSUME TypeOK, Counted, Grouped, Emptied, Stacked, ScopeGroupAssumption,
         [Next]_vars
  PROVE  Emptied'
  <1>t. /\ taskState \in [Task -> {"none", "done"} \cup Live]
        /\ group \in [Task -> Scope \cup {NoScope}]
        /\ phase \in [Scope -> {"none", "returnedEarly"} \cup Open \cup Returned]
        /\ IsFiniteSet(Task)
    BY ScopeGroupAssumption DEF TypeOK
  <1> DEFINE Past == Returned \cup {"woken", "joined"}
  <1>a. ASSUME \A s \in Scope : phase'[s] \in Past => phase[s] \in Past,
               \A s \in Scope : phase[s] \in Past => Members(s)' \subseteq Members(s)
        PROVE  Emptied'
    BY <1>a DEF Emptied
  <1>b. ASSUME UNCHANGED group,
               \A t \in Task : taskState'[t] \in Live => taskState[t] \in Live
        PROVE  \A s \in Scope : Members(s)' \subseteq Members(s)
    BY <1>b DEF Members
  <1>1. ASSUME NEW g \in Goroutine, NEW s \in Scope,
               NEW p \in Opened \cup {NoScope}, OpenScope(g, s, p)
        PROVE  Emptied'
    BY <1>1, <1>a, <1>b, <1>t DEF OpenScope, Returned
  <1>2. ASSUME NEW g \in Goroutine, NEW t \in Task, Spawn(g, t)
        PROVE  Emptied'
    <2>1. PICK s \in Scope : s = Nearest(g)
      <3>1. g \in Task => taskState[g] # "none"
        BY <1>2 DEF Spawn, Running
      <3> QED BY <3>1, <1>2 DEF Spawn, Nearest, Top, TypeOK, Goroutine, Grouped
    <2>2. /\ taskState' = [taskState EXCEPT ![t] = "running"]
          /\ group' = [group EXCEPT ![t] = s]
          /\ taskState[t] = "none"
          /\ UNCHANGED phase
      BY <1>2, <2>1 DEF Spawn
    <2>3. phase[s] \notin Past
      <3>1. CASE Top(g) = s
        BY <3>1, <2>1, <1>2 DEF Spawn, Returned
      <3>2. CASE Top(g) # s
        <4>1. g \in Task /\ group[g] = s /\ taskState[g] = "running"
          BY <3>2, <2>1, <1>2, ScopeGroupAssumption DEF Nearest, Spawn, Running
        <4>2. g \in Members(s)
          BY <4>1 DEF Members, Live
        <4> QED BY <4>2 DEF Emptied
      <3> QED BY <3>1, <3>2
    <2>4. \A x \in Scope : x # s => Members(x)' \subseteq Members(x)
      BY <2>2, <1>t DEF Members, Live
    <2> QED BY <2>2, <2>3, <2>4, <1>a
  <1>3. ASSUME NEW t \in Task, AwaitCancel(t)
        PROVE  Emptied'
    BY <1>3, <1>a, <1>b, <1>t DEF AwaitCancel, Live, Running
  <1>4. ASSUME NEW t \in Task, Rouse(t)
        PROVE  Emptied'
    BY <1>4, <1>a, <1>b, <1>t DEF Rouse, Live
  <1>5. ASSUME NEW t \in Task, ReturnNil(t)
        PROVE  Emptied'
    BY <1>5, <1>a, <1>b, <1>t DEF ReturnNil, Live, AtReturn, Running
  <1>6. ASSUME NEW t \in Task, ReturnError(t)
        PROVE  Emptied'
    BY <1>6, <1>a, <1>b, <1>t DEF ReturnError, Live, AtReturn, Running
  <1>7. ASSUME NEW t \in Task, StoreError(t)
        PROVE  Emptied'
    BY <1>7, <1>a, <1>b, <1>t DEF StoreError, Live
  <1>8. ASSUME NEW t \in Task, CancelGroup(t)
        PROVE  Emptied'
    BY <1>8, <1>a, <1>b, <1>t DEF CancelGroup, Live
  <1>9. ASSUME NEW t \in Task, SkipError(t)
        PROVE  Emptied'
    BY <1>9, <1>a, <1>b, <1>t DEF SkipError, Live
  <1>10. ASSUME NEW t \in Task, TaskDone(t)
        PROVE  Emptied'
    BY <1>10, <1>a, <1>b, <1>t DEF TaskDone, Live
  <1>11. ASSUME NEW s \in Scope, BeginWait(s)
        PROVE  Emptied'
    BY <1>11, <1>a, <1>b, <1>t DEF BeginWait, Returned
  <1>12. ASSUME NEW s \in Scope, WakeWait(s)
        PROVE  Emptied'
    <2>1. Cardinality(Members(s)) = 0 /\ Members(s) \subseteq Task
      BY <1>12 DEF WakeWait, Counted, Members
    <2>2. Members(s) = {}
      BY <2>1, <1>t, FS_Subset, FS_EmptySet
    <2>3. \A x \in Scope : Members(x)' = Members(x)
      BY <1>12 DEF WakeWait, Members
    <2>4. \A x \in Scope : x # s => phase'[x] = phase[x]
      BY <1>12, <1>t DEF WakeWait
    <2> QED BY <2>2, <2>3, <2>4 DEF Emptied
  <1>13. ASSUME NEW s \in Scope, JoinErr(s)
        PROVE  Emptied'
    BY <1>13, <1>a, <1>b, <1>t DEF JoinErr, Returned, Leave
  <1>14. ASSUME NEW s \in Scope, JoinNil(s)
        PROVE  Emptied'
    BY <1>14, <1>a, <1>b, <1>t DEF JoinNil, Returned
  <1>15. ASSUME NEW s \in Scope, ReturnOk(s)
        PROVE  Emptied'
    BY <1>15, <1>a, <1>b, <1>t DEF ReturnOk, Returned, Leave
  <1>16. ASSUME NEW s \in Scope, ReturnEarly(s)
        PROVE  Emptied'
    BY <1>16, <1>a, <1>b, <1>t DEF ReturnEarly, Returned, Leave
  <1>17. CASE UNCHANGED vars
    BY <1>17, <1>a, <1>b DEF vars
  <1> QED
    BY <1>1, <1>2, <1>3, <1>4, <1>5, <1>6, <1>7, <1>8, <1>9, <1>10,
       <1>11, <1>12, <1>13, <1>14, <1>15, <1>16, <1>17
    DEF Next, GoroutineStep, TaskStep, TaskReturns, ScopeStep

----------------------------------------------------------------------------
(* The inductive invariant holds throughout.                              *)
LEMMA Inductive == Spec => []IInv
  <1>1. Init => IInv
    <2> SUFFICES ASSUME Init PROVE IInv
      OBVIOUS
    <2>1. TypeOK /\ Grouped /\ Emptied /\ Stacked /\ Hosting /\ ErrStored
      BY ScopeGroupAssumption
      DEF Init, TypeOK, Grouped, Emptied, Stacked, Hosting, ErrStored, Open,
          Returned, Live, Goroutine
    <2>2. \A s \in Scope : Members(s) = {}
      BY DEF Init, Members, Live
    <2>3. Counted
      BY <2>2, FS_EmptySet DEF Counted, Init
    <2> QED
      BY <2>1, <2>3 DEF IInv
  <1>2. IInv /\ [Next]_vars => IInv'
    BY TypeStep, GroupedStep, ErrStoredStep, HostingStep, StackedStep,
       CountedStep, EmptiedStep, ScopeGroupAssumption
    DEF IInv
  <1> QED
    BY <1>1, <1>2, PTL DEF Spec

(* The state of scopes, groups and blocks is well typed.                   *)
THEOREM TypeCorrect == Spec => []TypeOK
  <1>1. IInv => TypeOK
    BY DEF IInv
  <1> QED
    BY <1>1, Inductive, PTL

(* Wait's join contract, for any program: past its join a scope has no     *)
(* live block, whether its body or another of its blocks spawned it.       *)
THEOREM Join == Spec => []JoinContract
  <1>1. IInv => JoinContract
    BY DEF IInv, Emptied, Members, JoinContract
  <1> QED
    BY <1>1, Inductive, PTL

(* Lifetimes nest, for any program whose scopes may also return early.     *)
THEOREM Nesting == Spec => []NestedLifetimes
  <1>1. IInv => NestedLifetimes
    <2> SUFFICES ASSUME IInv PROVE NestedLifetimes
      OBVIOUS
    <2>1. ASSUME NEW t \in Task, taskState[t] \in Live
          PROVE  phase[group[t]] \in Open \cup {"returnedEarly"}
      <3>1. group[t] \in Scope /\ phase[group[t]] # "none"
        BY <2>1 DEF IInv, Grouped, Live
      <3>2. Members(group[t]) # {}
        BY <2>1 DEF Members
      <3>3. phase[group[t]] \notin Returned
        BY <3>1, <3>2 DEF IInv, Emptied
      <3> QED
        BY <3>1, <3>3 DEF IInv, TypeOK
    <2>2. ASSUME NEW s \in Scope, phase[s] \in Open
          PROVE  /\ host[s] \in Task => taskState[host[s]] \in Live
                 /\ \E i \in DOMAIN stack[host[s]] : stack[host[s]][i] = s
      <3>1. host[s] \in Goroutine /\ stack[host[s]] \in Seq(Scope)
        BY DEF IInv, TypeOK
      <3>2. PICK i \in 1..Len(stack[host[s]]) : stack[host[s]][i] = s
        BY <2>2 DEF IInv, Stacked
      <3>3. stack[host[s]] # <<>>
        BY <3>1, <3>2
      <3> QED
        BY <3>1, <3>2, <3>3 DEF IInv, Hosting, Live
    <2>3. \A g \in Goroutine : DOMAIN stack[g] = 1..Len(stack[g])
      BY DEF IInv, TypeOK
    <2> QED
      BY <2>1, <2>2, <2>3 DEF NestedLifetimes, IInv, Stacked
  <1> QED
    BY <1>1, Inductive, PTL

----------------------------------------------------------------------------
(* The bookkeeping of errors.  A cause that is a scope is a cancelled one; *)
(* a scope is cancelled by its first error or past its join; the once      *)
(* guards the stored error; a failure not yet offered to once is the only  *)
(* one a group may not know of.                                            *)
ErrInv ==
  /\ \A t \in Task : cause[t] \in Scope => cause[t] \in cancelled
  /\ \A t \in Task : taskState[t] = "failed" => cause[t] # "nil"
  /\ \A t \in Task : taskState[t] \in {"none", "running", "onctx", "roused"} =>
       cause[t] = "nil"
  /\ \A t \in Task : cause[t] # "nil" /\ taskState[t] # "failed" =>
       gerr[group[t]] # NoTask
  /\ \A t \in Task : taskState[t] = "reporting" => gerr[group[t]] = t
  /\ \A s \in cancelled :
       gerr[s] # NoTask \/ phase[s] \in Returned \cup {"joined"}
  /\ \A s \in Scope : once[s] = "new" <=> gerr[s] = NoTask
  /\ \A s \in Scope : phase[s] \in {"joined", "ok"} => gerr[s] = NoTask
  /\ \A s \in Scope : gerr[s] # NoTask =>
       /\ group[gerr[s]] = s
       /\ taskState[gerr[s]] \in {"reporting", "finishing", "done"}
       /\ cause[gerr[s]] \notin {"nil", s}

(* Every step keeps what is known of errors and their causes.              *)
LEMMA ErrStep ==
  ASSUME TypeOK, Grouped, Emptied, ErrStored, ErrInv, ScopeGroupAssumption,
         [Next]_vars
  PROVE  ErrInv'
  <1>e. ASSUME NEW t \in Task,
               taskState[t] \notin {"reporting", "finishing", "done"}
        PROVE  \A s \in Scope : gerr[s] # t
    BY <1>e, ScopeGroupAssumption DEF ErrInv
  <1>o. \A s \in Scope : once[s] = "new" <=> gerr[s] = NoTask
    BY DEF ErrInv
  <1> USE ScopeGroupAssumption DEF TypeOK, ErrInv, Open, Returned, Live, Goroutine
  <1>1. ASSUME NEW g \in Goroutine, NEW s \in Scope,
               NEW p \in Opened \cup {NoScope}, OpenScope(g, s, p)
        PROVE  ErrInv'
    BY <1>1 DEF OpenScope
  <1>2. ASSUME NEW g \in Goroutine, NEW t \in Task, Spawn(g, t)
        PROVE  ErrInv'
    <2>1. /\ taskState[t] = "none" /\ taskState' = [taskState EXCEPT ![t] = "running"]
          /\ group' = [group EXCEPT ![t] = Nearest(g)]
          /\ UNCHANGED <<phase, cancelled, once, gerr, cause>>
      BY <1>2 DEF Spawn
    <2>2. cause[t] = "nil"
      BY <2>1
    <2>3. \A s \in Scope : gerr[s] # t
      BY <2>1, <1>e
    <2>4. \A x \in Task : x # t => taskState'[x] = taskState[x] /\ group'[x] = group[x]
      BY <2>1
    <2>5. taskState'[t] = "running"
      BY <2>1
    <2> QED
      BY <2>1, <2>2, <2>3, <2>4, <2>5
  <1>3. ASSUME NEW t \in Task, AwaitCancel(t)
        PROVE  ErrInv'
    BY <1>3 DEF AwaitCancel, Running
  <1>4. ASSUME NEW t \in Task, Rouse(t)
        PROVE  ErrInv'
    BY <1>4 DEF Rouse
  <1>5. ASSUME NEW t \in Task, ReturnNil(t)
        PROVE  ErrInv'
    BY <1>5 DEF ReturnNil, AtReturn, Running
  <1>6. ASSUME NEW t \in Task, ReturnError(t)
        PROVE  ErrInv'
    <2>1. /\ taskState[t] \in {"running", "roused"}
          /\ taskState' = [taskState EXCEPT ![t] = "failed"]
          /\ UNCHANGED <<phase, cancelled, once, gerr, group>>
      BY <1>6 DEF ReturnError, AtReturn, Running
    <2>2. PICK c \in Reportable(t) : cause' = [cause EXCEPT ![t] = c]
      BY <1>6 DEF ReturnError
    <2>3. c # "nil" /\ (c \in Scope => c \in cancelled)
      <3>1. CASE c \in {"own"} \cup (derived[group[t]] \cap cancelled)
        BY <3>1
      <3>2. CASE c \in {cause[gerr[i]] : i \in {j \in Scope : host[j] = t /\ phase[j] = "err"}}
        BY <3>2 DEF ErrStored
      <3> QED BY <3>1, <3>2, <2>2 DEF Reportable
    <2>4. \A s \in Scope : gerr[s] # t
      BY <2>1
    <2>5. \A x \in Task : x # t => taskState'[x] = taskState[x] /\ cause'[x] = cause[x]
      BY <2>1, <2>2
    <2>6. taskState'[t] = "failed" /\ cause'[t] = c
      BY <2>1, <2>2, <2>3
    <2>a. \A x \in Task : cause'[x] \in Scope => cause'[x] \in cancelled'
      BY <2>1, <2>3, <2>5, <2>6
    <2>b. \A x \in Task : taskState'[x] = "failed" => cause'[x] # "nil"
      BY <2>3, <2>5, <2>6
    <2>c. \A x \in Task : taskState'[x] \in {"none", "running", "onctx", "roused"} =>
             cause'[x] = "nil"
      BY <2>5, <2>6
    <2>d. \A x \in Task : cause'[x] # "nil" /\ taskState'[x] # "failed" =>
             gerr'[group'[x]] # NoTask
      BY <2>1, <2>5, <2>6
    <2>e. \A x \in Task : taskState'[x] = "reporting" => gerr'[group'[x]] = x
      BY <2>1, <2>5, <2>6
    <2>i. \A x \in Scope : gerr'[x] # NoTask =>
            /\ group'[gerr'[x]] = x
            /\ taskState'[gerr'[x]] \in {"reporting", "finishing", "done"}
            /\ cause'[gerr'[x]] \notin {"nil", x}
      BY <2>1, <2>4, <2>5
    <2> QED
      BY <2>1, <2>a, <2>b, <2>c, <2>d, <2>e, <2>i
  <1>7. ASSUME NEW t \in Task, StoreError(t)
        PROVE  ErrInv'
    <2>1. PICK s \in Scope : s = group[t]
      BY <1>7 DEF StoreError, Grouped
    <2>2. /\ taskState[t] = "failed" /\ once[s] = "new"
          /\ once' = [once EXCEPT ![s] = "running"]
          /\ gerr' = [gerr EXCEPT ![s] = t]
          /\ taskState' = [taskState EXCEPT ![t] = "reporting"]
          /\ UNCHANGED <<phase, cancelled, group, cause>>
      BY <1>7, <2>1 DEF StoreError
    <2>3. gerr[s] = NoTask /\ cause[t] # "nil"
      BY <2>2
    <2>4. phase[s] \notin Returned \cup {"woken", "joined"}
      BY <2>1, <2>2 DEF Emptied, Members
    <2>5. cause[t] # s
      BY <2>2, <2>3, <2>4
    <2>6. /\ \A x \in Scope : x # s => gerr'[x] = gerr[x] /\ once'[x] = once[x]
          /\ gerr'[s] = t /\ once'[s] = "running" /\ t # NoTask
      BY <2>2
    <2>7. \A x \in Task : x # t => taskState'[x] = taskState[x]
      BY <2>2
    <2>8. taskState'[t] = "reporting"
      BY <2>2
    <2>9. \A x \in Scope : gerr[x] # t
      BY <2>2, <1>e
    <2> HIDE DEF Live, Open, Returned
    <2>a. \A x \in Task : cause'[x] \in Scope => cause'[x] \in cancelled'
      BY <2>2
    <2>b. \A x \in Task : taskState'[x] = "failed" => cause'[x] # "nil"
      BY <2>2, <2>7, <2>8
    <2>c. \A x \in Task : taskState'[x] \in {"none", "running", "onctx", "roused"} =>
             cause'[x] = "nil"
      BY <2>2, <2>7, <2>8
    <2>d. \A x \in Task : cause'[x] # "nil" /\ taskState'[x] # "failed" =>
             gerr'[group'[x]] # NoTask
      BY <2>1, <2>2, <2>6, <2>7, <2>8
    <2>e. \A x \in Task : taskState'[x] = "reporting" => gerr'[group'[x]] = x
      BY <2>1, <2>2, <2>3, <2>6, <2>7, <2>8
    <2>f. \A x \in cancelled' :
            gerr'[x] # NoTask \/ phase'[x] \in Returned \cup {"joined"}
      BY <2>2, <2>6
    <2>g. \A x \in Scope : once'[x] = "new" <=> gerr'[x] = NoTask
      BY <2>6, <1>o
    <2>h. \A x \in Scope : phase'[x] \in {"joined", "ok"} => gerr'[x] = NoTask
      BY <2>2, <2>4, <2>6 DEF Returned
    <2>i. \A x \in Scope : gerr'[x] # NoTask =>
            /\ group'[gerr'[x]] = x
            /\ taskState'[gerr'[x]] \in {"reporting", "finishing", "done"}
            /\ cause'[gerr'[x]] \notin {"nil", x}
      BY <2>1, <2>2, <2>3, <2>5, <2>6, <2>7, <2>8, <2>9
    <2> QED
      BY <2>a, <2>b, <2>c, <2>d, <2>e, <2>f, <2>g, <2>h, <2>i
  <1>8. ASSUME NEW t \in Task, CancelGroup(t)
        PROVE  ErrInv'
    BY <1>8 DEF CancelGroup
  <1>9. ASSUME NEW t \in Task, SkipError(t)
        PROVE  ErrInv'
    <2>1. PICK s \in Scope : s = group[t]
      BY <1>9 DEF SkipError, Grouped
    <2>2. /\ taskState[t] = "failed" /\ gerr[s] # NoTask
          /\ taskState' = [taskState EXCEPT ![t] = "finishing"]
          /\ UNCHANGED <<phase, cancelled, once, gerr, group, cause>>
      BY <1>9, <2>1 DEF SkipError
    <2>3. \A x \in Task : x # t => taskState'[x] = taskState[x]
      BY <2>2
    <2>4. taskState'[t] = "finishing"
      BY <2>2
    <2>5. \A x \in Scope : gerr[x] # t
      BY <2>2, <1>e
    <2> QED
      BY <2>1, <2>2, <2>3, <2>4, <2>5
  <1>10. ASSUME NEW t \in Task, TaskDone(t)
        PROVE  ErrInv'
    BY <1>10 DEF TaskDone
  <1>11. ASSUME NEW s \in Scope, BeginWait(s)
        PROVE  ErrInv'
    BY <1>11 DEF BeginWait
  <1>12. ASSUME NEW s \in Scope, WakeWait(s)
        PROVE  ErrInv'
    BY <1>12 DEF WakeWait
  <1>13. ASSUME NEW s \in Scope, JoinErr(s)
        PROVE  ErrInv'
    BY <1>13 DEF JoinErr, Leave
  <1>14. ASSUME NEW s \in Scope, JoinNil(s)
        PROVE  ErrInv'
    BY <1>14 DEF JoinNil
  <1>15. ASSUME NEW s \in Scope, ReturnOk(s)
        PROVE  ErrInv'
    BY <1>15 DEF ReturnOk, Leave
  <1>16. ASSUME NEW s \in Scope, ReturnEarly(s)
        PROVE  ErrInv'
    BY <1>16 DEF ReturnEarly, Leave
  <1>17. CASE UNCHANGED vars
    BY <1>17 DEF vars
  <1> QED
    BY <1>1, <1>2, <1>3, <1>4, <1>5, <1>6, <1>7, <1>8, <1>9, <1>10,
       <1>11, <1>12, <1>13, <1>14, <1>15, <1>16, <1>17
    DEF Next, GoroutineStep, TaskStep, TaskReturns, ScopeStep

(* What is known of errors and their causes holds throughout.              *)
LEMMA ErrInductive == Spec => []ErrInv
  <1>1. Init => ErrInv
    BY ScopeGroupAssumption DEF Init, ErrInv
  <1>2. IInv /\ ErrInv /\ [Next]_vars => ErrInv'
    BY ErrStep, ScopeGroupAssumption DEF IInv
  <1> QED
    BY <1>1, <1>2, Inductive, PTL DEF Spec

(* The error of a group is a cause, never the echo of the cancellation     *)
(* that the group's own first error brings about.                          *)
THEOREM RootCause == Spec => []ErrorIsACause
  <1>1. ErrInv => ErrorIsACause
    BY DEF ErrInv, ErrorIsACause
  <1> QED
    BY <1>1, ErrInductive, PTL

(* A scope past its join without an Err had no failing block.              *)
THEOREM NothingLost == Spec => []NoErrorLost
  <1>1. IInv /\ ErrInv => NoErrorLost
    <2> SUFFICES ASSUME IInv, ErrInv, NEW s \in Scope,
                        phase[s] \in {"joined", "ok"},
                        NEW t \in Task, group[t] = s
                 PROVE  cause[t] = "nil"
      BY DEF NoErrorLost
    <2>1. taskState[t] # "failed"
      BY DEF IInv, Emptied, Members, Live, Returned
    <2>2. gerr[s] = NoTask
      BY DEF ErrInv
    <2> QED
      BY <2>1, <2>2 DEF ErrInv
  <1> QED
    BY <1>1, Inductive, ErrInductive, PTL

(* First failure wins, whatever the order in which failures reach once.    *)
THEOREM FirstWins == Spec => FirstErrorWins
  <1>1. IInv /\ ErrInv /\ [Next]_vars =>
          [\A s \in Scope : gerr[s] # NoTask => gerr'[s] = gerr[s]]_vars
    <2> SUFFICES ASSUME IInv, ErrInv, [Next]_vars, NEW s \in Scope,
                        gerr[s] # NoTask
                 PROVE  gerr'[s] = gerr[s]
      OBVIOUS
    <2>1. ASSUME NEW t \in Task, StoreError(t)
          PROVE  gerr'[s] = gerr[s]
      <3>1. group[t] # s
        BY <2>1 DEF StoreError, ErrInv
      <3> QED
        BY <2>1, <3>1 DEF StoreError, IInv, TypeOK
    <2>2. CASE UNCHANGED gerr
      BY <2>2
    <2>3. UNCHANGED gerr \/ \E t \in Task : StoreError(t)
      BY DEF Next, GoroutineStep, TaskStep, TaskReturns, ScopeStep, vars,
             OpenScope, Spawn, AwaitCancel, Rouse, ReturnNil, ReturnError,
             CancelGroup, SkipError, TaskDone, BeginWait, WakeWait, JoinErr,
             JoinNil, ReturnOk, ReturnEarly
    <2> QED
      BY <2>1, <2>2, <2>3
  <1> QED
    BY <1>1, Inductive, ErrInductive, PTL DEF Spec, FirstErrorWins

(* A WaitGroup leaves zero only while its scope's body runs.               *)
THEOREM AddBeforeWait == Spec => NoAddAfterZero
  <1>1. IInv /\ [Next]_vars =>
          [\A s \in Scope : wg[s] = 0 /\ wg'[s] # 0 => phase[s] = "body"]_vars
    <2> SUFFICES ASSUME IInv, [Next]_vars, NEW s \in Scope,
                        wg[s] = 0, wg'[s] # 0
                 PROVE  phase[s] = "body"
      OBVIOUS
    <2>0. Members(s) = {}
      <3>1. Members(s) \subseteq Task /\ Cardinality(Members(s)) = 0
        BY DEF IInv, Counted, Members
      <3> QED
        BY <3>1, ScopeGroupAssumption, FS_Subset, FS_EmptySet
    <2>1. ASSUME NEW g \in Goroutine, NEW t \in Task, Spawn(g, t)
          PROVE  phase[s] = "body"
      <3>1. Nearest(g) = s
        BY <2>1 DEF Spawn, IInv, TypeOK
      <3>2. CASE Top(g) = s
        BY <3>1, <3>2, <2>1 DEF Spawn
      <3>3. CASE Top(g) # s
        <4>1. g \in Task /\ group[g] = s /\ taskState[g] = "running"
          BY <3>1, <3>3, <2>1, ScopeGroupAssumption
          DEF Nearest, Spawn, Running
        <4> QED
          BY <4>1, <2>0 DEF Members, Live
      <3> QED
        BY <3>2, <3>3
    <2>2. ASSUME NEW t \in Task, TaskDone(t)
          PROVE  phase[s] = "body"
      <3>1. group[t] # s
        BY <2>2, <2>0 DEF TaskDone, Members, Live
      <3> QED
        BY <2>2, <3>1 DEF TaskDone, IInv, TypeOK
    <2>3. \/ UNCHANGED wg
          \/ \E g \in Goroutine, t \in Task : Spawn(g, t)
          \/ \E t \in Task : TaskDone(t)
      BY DEF Next, GoroutineStep, TaskStep, TaskReturns, ScopeStep, vars,
             OpenScope, AwaitCancel, Rouse, ReturnNil, ReturnError,
             StoreError, CancelGroup, SkipError, BeginWait, WakeWait, JoinErr,
             JoinNil, ReturnOk, ReturnEarly
    <2> QED
      BY <2>1, <2>2, <2>3
  <1> QED
    BY <1>1, Inductive, PTL DEF Spec, NoAddAfterZero
----------------------------------------------------------------------------
(* The refinement of the scope's contract.                                 *)

(* A block whose ending the contract knows has been spawned, in a scope    *)
(* that has no result as long as the block is alive.                       *)
LEMMA OpenWhileLive ==
  ASSUME IInv, NEW t \in Task, taskState[t] \in Live
  PROVE  group[t] \in Scope /\ Result[group[t]] = "open"
  <1>1. group[t] \in Scope
    BY DEF IInv, Grouped, Live
  <1>2. Members(group[t]) # {}
    BY DEF Members
  <1> QED
    BY <1>1, <1>2 DEF IInv, Emptied, Result, Returned

(* What the contract sees of the blocks when one of them takes a step.     *)
LEMMA OneEnding ==
  ASSUME NEW t \in Task,
         \A x \in Task \ {t} : taskState'[x] = taskState[x] /\ cause'[x] = cause[x]
  PROVE  Ending' = [Ending EXCEPT ![t] = Ending'[t]]
BY DEF Ending

(* Every step of a Group is a step of its scope's contract, or none.       *)
LEMMA ContractStep ==
  ASSUME IInv, ErrInv, ErrInv', [Next]_vars, ScopeGroupAssumption
  PROVE  [Contract!Next]_(Contract!contractVars)
  <1> USE DEF Contract!contractVars
  <1>0. TypeOK
    BY DEF IInv
  <1>1. ASSUME NEW g \in Goroutine, NEW s \in Scope,
               NEW p \in Opened \cup {NoScope}, OpenScope(g, s, p)
        PROVE  UNCHANGED Contract!contractVars
    BY <1>0, <1>1 DEF OpenScope, Ending, Result, TypeOK
  <1>2. ASSUME NEW g \in Goroutine, NEW t \in Task, Spawn(g, t)
        PROVE  Contract!Next
    <2>1. PICK s : s = Nearest(g)
      OBVIOUS
    <2>2. /\ Running(g) /\ s # NoScope /\ (Top(g) = s => phase[s] = "body")
          /\ taskState[t] = "none" /\ taskState' = [taskState EXCEPT ![t] = "running"]
          /\ group' = [group EXCEPT ![t] = s]
          /\ UNCHANGED <<phase, cancelled, gerr, cause>>
      BY <1>2, <2>1 DEF Spawn
    <2>3. s \in Scope /\ Result[s] = "open"
      <3>1. CASE Top(g) = s
        <4>1. stack[g] \in Seq(Scope) /\ stack[g] # <<>> /\ s = stack[g][Len(stack[g])]
          BY <1>0, <2>2, <3>1 DEF TypeOK, Top
        <4>2. s \in Scope
          BY <4>1
        <4> QED
          BY <2>2, <3>1, <4>2 DEF Result
      <3>2. CASE Top(g) # s
        <4>1. g \in Task /\ group[g] = s /\ taskState[g] = "running"
          BY <2>1, <2>2, <3>2 DEF Nearest, Running
        <4> QED
          BY <4>1, OpenWhileLive DEF Live
      <3> QED
        BY <3>1, <3>2
    <2>4. Ending[t] = "none" /\ Ending'[t] = "running"
      BY <1>0, <2>2 DEF Ending, ErrInv, TypeOK
    <2>5. Ending' = [Ending EXCEPT ![t] = "running"]
      BY <1>0, <2>2, <2>4, OneEnding DEF TypeOK
    <2>6. UNCHANGED <<gerr, cancelled, Result>>
      BY <2>2 DEF Result
    <2> QED
      BY <2>2, <2>3, <2>4, <2>5, <2>6 DEF Contract!Spawn, Contract!Next
  <1>3. ASSUME NEW t \in Task, AwaitCancel(t)
        PROVE  UNCHANGED Contract!contractVars
    BY <1>0, <1>3 DEF AwaitCancel, Running, Ending, Result, TypeOK
  <1>4. ASSUME NEW t \in Task, Rouse(t)
        PROVE  UNCHANGED Contract!contractVars
    BY <1>0, <1>4 DEF Rouse, Ending, Result, TypeOK
  <1>5. ASSUME NEW t \in Task, ReturnNil(t)
        PROVE  Contract!Next
    <2>1. /\ taskState[t] \in {"running", "roused"}
          /\ taskState' = [taskState EXCEPT ![t] = "finishing"]
          /\ UNCHANGED <<phase, cancelled, gerr, group, cause>>
      BY <1>5 DEF ReturnNil, AtReturn, Running
    <2>2. Ending[t] = "running" /\ Ending'[t] = "ok"
      BY <1>0, <2>1 DEF Ending, ErrInv, TypeOK
    <2>3. Ending' = [Ending EXCEPT ![t] = "ok"]
      BY <1>0, <2>1, <2>2, OneEnding DEF TypeOK
    <2>4. UNCHANGED <<group, gerr, cancelled, Result>>
      BY <2>1 DEF Result
    <2> QED
      BY <2>2, <2>3, <2>4 DEF Contract!Finish, Contract!Next
  <1>6. ASSUME NEW t \in Task, ReturnError(t)
        PROVE  Contract!Next
    <2>1. /\ taskState[t] \in {"running", "roused"}
          /\ taskState' = [taskState EXCEPT ![t] = "failed"]
          /\ UNCHANGED <<phase, cancelled, gerr, group>>
      BY <1>6 DEF ReturnError, AtReturn, Running
    <2>2. PICK c : cause' = [cause EXCEPT ![t] = c]
      BY <1>6 DEF ReturnError
    <2>3. Ending[t] = "running" /\ Ending'[t] = "err"
      BY <1>0, <2>1 DEF Ending, ErrInv, TypeOK
    <2>4. Ending' = [Ending EXCEPT ![t] = "err"]
      BY <1>0, <2>1, <2>2, <2>3, OneEnding DEF TypeOK
    <2>5. UNCHANGED <<group, gerr, cancelled, Result>>
      BY <2>1 DEF Result
    <2> QED
      BY <2>3, <2>4, <2>5 DEF Contract!Finish, Contract!Next
  <1>7. ASSUME NEW t \in Task, StoreError(t)
        PROVE  Contract!Next
    <2>1. /\ taskState[t] = "failed" /\ once[group[t]] = "new"
          /\ gerr' = [gerr EXCEPT ![group[t]] = t]
          /\ taskState' = [taskState EXCEPT ![t] = "reporting"]
          /\ UNCHANGED <<phase, cancelled, group, cause>>
      BY <1>7 DEF StoreError
    <2>2. group[t] \in Scope /\ Result[group[t]] = "open"
      BY <2>1, OpenWhileLive DEF Live
    <2>3. gerr[group[t]] = NoTask /\ cause[t] # "nil"
      BY <2>1, <2>2 DEF ErrInv
    <2>4. Ending[t] = "err" /\ Ending'[t] = "err"
      BY <1>0, <2>1, <2>3 DEF Ending, TypeOK
    <2>5. UNCHANGED Ending
      BY <1>0, <2>1, <2>4, OneEnding DEF TypeOK, Ending
    <2>6. UNCHANGED <<group, cancelled, Result>>
      BY <2>1 DEF Result
    <2> QED
      BY <2>1, <2>2, <2>3, <2>4, <2>5, <2>6 DEF Contract!Report, Contract!Next
  <1>8. ASSUME NEW t \in Task, CancelGroup(t)
        PROVE  Contract!Next
    <2>1. /\ taskState[t] = "reporting"
          /\ cancelled' = cancelled \cup {group[t]}
          /\ taskState' = [taskState EXCEPT ![t] = "finishing"]
          /\ UNCHANGED <<phase, gerr, group, cause>>
      BY <1>8 DEF CancelGroup
    <2>2. group[t] \in Scope
      BY <2>1, OpenWhileLive DEF Live
    <2>3. gerr[group[t]] = t /\ t # NoTask /\ cause[t] # "nil"
      BY <2>1, <2>2, ScopeGroupAssumption DEF ErrInv
    <2>4. UNCHANGED Ending
      BY <1>0, <2>1, <2>3 DEF Ending, TypeOK
    <2>5. UNCHANGED <<group, gerr, Result>>
      BY <2>1 DEF Result
    <2> QED
      BY <2>1, <2>2, <2>3, <2>4, <2>5 DEF Contract!Cancel, Contract!Next
  <1>9. ASSUME NEW t \in Task, SkipError(t)
        PROVE  UNCHANGED Contract!contractVars
    <2>1. /\ taskState[t] = "failed" /\ cause[t] # "nil"
          /\ taskState' = [taskState EXCEPT ![t] = "finishing"]
          /\ UNCHANGED <<phase, cancelled, gerr, group, cause>>
      BY <1>9 DEF SkipError, ErrInv
    <2> QED
      BY <1>0, <2>1 DEF Ending, Result, TypeOK
  <1>10. ASSUME NEW t \in Task, TaskDone(t)
         PROVE  UNCHANGED Contract!contractVars
    BY <1>0, <1>10 DEF TaskDone, Ending, Result, TypeOK
  <1>11. ASSUME NEW s \in Scope, BeginWait(s)
         PROVE  UNCHANGED Contract!contractVars
    BY <1>0, <1>11 DEF BeginWait, Ending, Result, TypeOK
  <1>12. ASSUME NEW s \in Scope, WakeWait(s)
         PROVE  UNCHANGED Contract!contractVars
    BY <1>0, <1>12 DEF WakeWait, Ending, Result, TypeOK
  <1>13. ASSUME NEW s \in Scope, phase[s] = "woken",
                phase' = [phase EXCEPT ![s] = IF gerr[s] = NoTask THEN "joined" ELSE "err"],
                cancelled' = cancelled \cup {s},
                UNCHANGED <<gerr, taskState, group, cause>>
         PROVE  Contract!Next
    <2>1. Result[s] = "open"
      BY <1>13 DEF Result
    <2>2. ASSUME NEW b \in Task, group[b] = s
          PROVE  Ending[b] = "ok" \/ (Ending[b] = "err" /\ gerr[s] # NoTask)
      <3>1. taskState[b] \notin Live
        BY <1>13, <2>2 DEF IInv, Emptied, Members
      <3>2. taskState[b] # "none"
        BY <1>13, <2>2, ScopeGroupAssumption DEF IInv, Grouped
      <3>3. taskState[b] = "done"
        BY <1>0, <3>1, <3>2 DEF TypeOK
      <3> QED
        BY <2>2, <3>3 DEF Ending, ErrInv
    <2>3. Result' = [Result EXCEPT ![s] = IF gerr[s] = NoTask THEN "ok" ELSE "err"]
      BY <1>0, <1>13 DEF Result, TypeOK
    <2>4. UNCHANGED <<group, Ending, gerr>>
      BY <1>13 DEF Ending
    <2> QED
      BY <1>13, <2>1, <2>2, <2>3, <2>4 DEF Contract!Join, Contract!Next
  <1>14. ASSUME NEW s \in Scope, JoinErr(s)
         PROVE  Contract!Next
    BY <1>13, <1>14 DEF JoinErr, Leave
  <1>15. ASSUME NEW s \in Scope, JoinNil(s)
         PROVE  Contract!Next
    BY <1>13, <1>15 DEF JoinNil
  <1>16. ASSUME NEW s \in Scope, ReturnOk(s)
         PROVE  UNCHANGED Contract!contractVars
    BY <1>0, <1>16 DEF ReturnOk, Leave, Ending, Result, TypeOK
  <1>17. ASSUME NEW s \in Scope, ReturnEarly(s)
         PROVE  UNCHANGED Contract!contractVars
    BY <1>0, <1>17 DEF ReturnEarly, Leave, Ending, Result, TypeOK
  <1>18. CASE UNCHANGED vars
    BY <1>18 DEF vars, Ending, Result
  <1> QED
    BY <1>1, <1>2, <1>3, <1>4, <1>5, <1>6, <1>7, <1>8, <1>9, <1>10, <1>11,
       <1>12, <1>14, <1>15, <1>16, <1>17, <1>18
    DEF Next, GoroutineStep, TaskStep, TaskReturns, ScopeStep

(* ScopeGroup implements the contract of a scope, for any number of scopes *)
(* and blocks however they nest: the waiting, the counter, the once and    *)
(* the cancellation of Group add up to what the language promises.         *)
THEOREM ImplementsContract == Spec => KeepsScopeContract
  <1>1. Init => Contract!Init
    BY DEF Init, Contract!Init, Ending, Result
  <1>2. IInv /\ ErrInv /\ ErrInv' /\ [Next]_vars
          => [Contract!Next]_(Contract!contractVars)
    BY ContractStep, ScopeGroupAssumption
  <1> QED
    BY <1>1, <1>2, Inductive, ErrInductive, PTL
    DEF Spec, KeepsScopeContract, Contract!Spec

=============================================================================
