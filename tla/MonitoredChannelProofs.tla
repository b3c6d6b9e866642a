----------------------- MODULE MonitoredChannelProofs -----------------------
(***************************************************************************)
(* MonitoredChannel, proved for any number of goroutines, any capacity and *)
(* any contract; and ScopeFanIn, for every program besides.                *)
(***************************************************************************)
EXTENDS ScopeFanIn, FiniteSetTheorems, TLAPS

(* The type invariant, in parts that no single action disturbs together.   *)
ConfOK  == capacity \in Capacities /\ forbidSend \in Contracts
BufOK   == buf \in Seq(Message) /\ Len(buf) <= capacity
SendsOK == sends \in [Goroutine -> 0..MaxSends]
RestOK  ==
  /\ closed \in BOOLEAN /\ monClosed \in BOOLEAN
  /\ step \in [Goroutine -> {"idle", "pending", "marked", "receiving", "left"}]
  /\ last \in [Goroutine -> {"nothing", "none", "zero", "value"}]
  /\ fault \in {"none"} \cup Violation \cup RawPanic

(* The state of the channel and of its monitor is well typed, and the      *)
(* buffer never exceeds the capacity.                                      *)
THEOREM TypeCorrect == Spec => []TypeOK
  <1>0. TypeOK <=> ConfOK /\ BufOK /\ SendsOK /\ RestOK
    BY DEF TypeOK, ConfOK, BufOK, SendsOK, RestOK
  <1>n. Capacities \subseteq Nat /\ MaxSends \in Nat /\ Owner \in Goroutine
    BY MonitoredChannelAssumption
  <1>1. Init => TypeOK
    <2> SUFFICES ASSUME Init PROVE TypeOK
      OBVIOUS
    <2>1. BufOK
      <3>1. buf = <<>>
        BY DEF Init
      <3> QED
        BY <3>1, <1>n DEF Init, BufOK
    <2>2. SendsOK
      <3>1. 0 \in 0..MaxSends
        BY <1>n
      <3> QED
        BY <3>1 DEF Init, SendsOK
    <2>3. RestOK /\ ConfOK
      BY DEF Init, RestOK, ConfOK
    <2> QED
      BY <2>1, <2>2, <2>3, <1>0
  <1>2. TypeOK /\ [Next]_chanVars => TypeOK'
    <2> SUFFICES ASSUME ConfOK, BufOK, SendsOK, RestOK, [Next]_chanVars
                 PROVE  ConfOK' /\ BufOK' /\ SendsOK' /\ RestOK'
      <3>1. ConfOK' /\ BufOK' /\ SendsOK' /\ RestOK' => TypeOK'
        BY DEF TypeOK, ConfOK, BufOK, SendsOK, RestOK
      <3> QED
        BY <1>0, <3>1
    <2>c. UNCHANGED config
      BY DEF Next, chanVars
    <2>0. ConfOK' /\ capacity \in Nat /\ capacity' = capacity
      BY <2>c, <1>n DEF config, ConfOK
    <2>t. ASSUME NEW g \in Goroutine, Take(g) PROVE BufOK'
      <3>1. buf' = Tail(buf) /\ buf # <<>>
        BY <2>t DEF Take
      <3>2. Tail(buf) \in Seq(Message) /\ Len(Tail(buf)) = Len(buf) - 1
            /\ Len(buf) \in Nat
        BY <3>1 DEF BufOK
      <3> QED
        BY <3>1, <3>2, <2>0 DEF BufOK
    <2>1. BufOK'
      <3>1. ASSUME NEW g \in Goroutine, DoSend(g) PROVE BufOK'
        <4>1. CASE UNCHANGED buf
          BY <4>1, <2>0 DEF BufOK
        <4>2. CASE Len(buf) < capacity /\ buf' = Append(buf, <<g, sends[g]>>)
          <5>1. PICK m \in Message : m = <<g, sends[g]>>
            <6>1. sends[g] \in 0..MaxSends
              BY DEF SendsOK
            <6> QED
              BY <6>1 DEF Message
          <5>2. buf' = Append(buf, m) /\ Len(buf) \in Nat
            BY <4>2, <5>1 DEF BufOK
          <5>3. Append(buf, m) \in Seq(Message)
                /\ Len(Append(buf, m)) = Len(buf) + 1
            BY DEF BufOK
          <5>4. Len(buf) + 1 <= capacity
            BY <4>2, <5>2, <2>0
          <5> QED
            BY <5>2, <5>3, <5>4, <2>0 DEF BufOK
        <4> QED
          BY <4>1, <4>2, <3>1 DEF DoSend, Panic
      <3>2. CASE UNCHANGED buf
        BY <3>2, <2>0 DEF BufOK
      <3>3. \/ UNCHANGED buf
            \/ \E g \in Goroutine : DoSend(g) \/ Take(g)
        BY DEF Next, chanVars, CheckSend, HandOff, MarkClosed, DoClose,
               BeginRecv, EndRecv, TryRecv, CheckDrained, Panic
      <3> QED
        BY <3>1, <3>2, <3>3, <2>t
    <2>2. SendsOK'
      <3>1. ASSUME NEW g \in Goroutine, sends[g] < MaxSends,
                   sends' = [sends EXCEPT ![g] = @ + 1]
            PROVE  SendsOK'
        <4>1. sends[g] + 1 \in 0..MaxSends
          BY <3>1, <1>n DEF SendsOK
        <4> QED
          BY <3>1, <4>1 DEF SendsOK
      <3>2. CASE UNCHANGED sends
        BY <3>2 DEF SendsOK
      <3>3. \/ UNCHANGED sends
            \/ \E g \in Goroutine : /\ sends[g] < MaxSends
                                    /\ sends' = [sends EXCEPT ![g] = @ + 1]
        BY DEF Next, chanVars, CheckSend, DoSend, HandOff, MarkClosed,
               DoClose, BeginRecv, EndRecv, TryRecv, CheckDrained, Panic
      <3> QED
        BY <3>1, <3>2, <3>3
    <2>3. RestOK'
      <3> USE DEF RestOK, Violation, RawPanic, Panic, Goto
      <3>1. ASSUME NEW g \in Goroutine,
                   \/ CheckSend(g) \/ DoSend(g) \/ MarkClosed(g) \/ DoClose(g)
                   \/ BeginRecv(g) \/ EndRecv(g)
            PROVE  RestOK'
        BY <3>1 DEF CheckSend, DoSend, MarkClosed, DoClose, BeginRecv,
                    EndRecv, Take
      <3>2. ASSUME NEW g \in Goroutine, TryRecv(g) PROVE RestOK'
        BY <3>2 DEF TryRecv, Take
      <3>3. ASSUME NEW g \in Goroutine, NEW r \in Goroutine, HandOff(g, r)
            PROVE  RestOK'
        BY <3>3 DEF HandOff
      <3>4. CASE CheckDrained
        BY <3>4, <1>n DEF CheckDrained
      <3>5. CASE UNCHANGED chanVars
        BY <3>5 DEF chanVars
      <3> QED
        BY <3>1, <3>2, <3>3, <3>4, <3>5 DEF Next
    <2> QED
      BY <2>0, <2>1, <2>2, <2>3
  <1> QED
    BY <1>1, <1>2, PTL DEF Spec

(* The monitor's flag leads the channel's own state, and only one          *)
(* goroutine at a time is closing.                                         *)
THEOREM FlagLeadsTheChannel == Spec => []FlagLeads
  <1>1. Init => FlagLeads
    BY DEF Init, FlagLeads
  <1>2. TypeOK /\ FlagLeads /\ [Next]_chanVars => FlagLeads'
    <2> SUFFICES ASSUME TypeOK, FlagLeads, [Next]_chanVars PROVE FlagLeads'
      OBVIOUS
    <2>t. /\ step \in [Goroutine ->
                         {"idle", "pending", "marked", "receiving", "left"}]
          /\ closed \in BOOLEAN /\ monClosed \in BOOLEAN
      BY DEF TypeOK
    <2> USE <2>t DEF FlagLeads, Panic, Goto, Idle
    <2>1. ASSUME NEW g \in Goroutine, CheckSend(g) PROVE FlagLeads'
      BY <2>1 DEF CheckSend
    <2>2. ASSUME NEW g \in Goroutine, DoSend(g) PROVE FlagLeads'
      <3>1. /\ UNCHANGED <<closed, monClosed>>
            /\ UNCHANGED step \/ step' = [step EXCEPT ![g] = "idle"]
        BY <2>2 DEF DoSend
      <3> QED
        BY <3>1
    <2>3. ASSUME NEW g \in Goroutine, NEW r \in Goroutine, HandOff(g, r)
          PROVE  FlagLeads'
      BY <2>3 DEF HandOff
    <2>4. ASSUME NEW g \in Goroutine, MarkClosed(g) PROVE FlagLeads'
      BY <2>4 DEF MarkClosed
    <2>5. ASSUME NEW g \in Goroutine, DoClose(g) PROVE FlagLeads'
      BY <2>5 DEF DoClose
    <2>6. ASSUME NEW g \in Goroutine, BeginRecv(g) PROVE FlagLeads'
      BY <2>6 DEF BeginRecv
    <2>7. ASSUME NEW g \in Goroutine, EndRecv(g) PROVE FlagLeads'
      BY <2>7 DEF EndRecv, Take
    <2>8. ASSUME NEW g \in Goroutine, TryRecv(g) PROVE FlagLeads'
      BY <2>8 DEF TryRecv, Take
    <2>9. CASE CheckDrained
      BY <2>9, MonitoredChannelAssumption DEF CheckDrained
    <2>10. CASE UNCHANGED chanVars
      BY <2>10 DEF chanVars
    <2> QED
      BY <2>1, <2>2, <2>3, <2>4, <2>5, <2>6, <2>7, <2>8, <2>9, <2>10
      DEF Next
  <1> QED
    BY <1>1, <1>2, TypeCorrect, PTL DEF Spec

(* Go's own double-close panic is out of reach of a contracted channel.    *)
THEOREM DoubleCloseIsDiagnosed == Spec => []NeverClosedTwice
  <1>1. Init => NeverClosedTwice
    BY DEF Init, NeverClosedTwice
  <1>2. FlagLeads /\ NeverClosedTwice /\ [Next]_chanVars => NeverClosedTwice'
    BY DEF FlagLeads, NeverClosedTwice, Next, chanVars, CheckSend, DoSend,
           HandOff, MarkClosed, DoClose, BeginRecv, EndRecv, TryRecv, Take,
           CheckDrained, Panic, Goto, Idle
  <1> QED
    BY <1>1, <1>2, FlagLeadsTheChannel, PTL DEF Spec

(* Once the close is recorded, no send gets past the monitor.              *)
THEOREM NoSendAfterRecordedClose == Spec => NoSendStartsAfterClose
  <1>1. TypeOK /\ [Next]_chanVars =>
          [forbidSend /\ monClosed => Pending' \subseteq Pending]_chanVars
    <2> SUFFICES ASSUME TypeOK, Next, forbidSend, monClosed
                 PROVE  Pending' \subseteq Pending
      OBVIOUS
    <2>1. \A g \in Goroutine : step'[g] = "pending" => step[g] = "pending"
      BY MonitoredChannelAssumption
      DEF TypeOK, Next, CheckSend, DoSend, HandOff, MarkClosed, DoClose,
          BeginRecv, EndRecv, TryRecv, CheckDrained, Panic, Goto, Idle
    <2> QED
      BY <2>1 DEF Pending
  <1> QED
    BY <1>1, TypeCorrect, PTL DEF Spec, NoSendStartsAfterClose

-----------------------------------------------------------------------------
(* ScopeFanIn: where the statements of a lowered program stand.            *)

(* Sequences that are joined.                                              *)
LEMMA Concatenated ==
  ASSUME NEW S, NEW s \in Seq(S), NEW t \in Seq(S)
  PROVE  /\ s \o t \in Seq(S) /\ Len(s \o t) = Len(s) + Len(t)
         /\ DOMAIN (s \o t) = 1 .. (Len(s) + Len(t))
         /\ \A i \in 1 .. Len(s) : (s \o t)[i] = s[i]
         /\ \A i \in (Len(s) + 1) .. (Len(s) + Len(t)) : (s \o t)[i] = t[i - Len(s)]
OBVIOUS

(* What a number of statements says of where they are.                     *)
LEMMA Counts ==
  ASSUME NEW s \in Seq(STRING), NEW stmt
  PROVE  /\ Count(s, stmt) \in Nat
         /\ \A i \in DOMAIN s : s[i] = stmt => Count(s, stmt) >= 1
         /\ \A i, j \in DOMAIN s : s[i] = stmt /\ s[j] = stmt /\ i # j => Count(s, stmt) >= 2
<1> DEFINE at == {i \in DOMAIN s : s[i] = stmt}
<1>1. IsFiniteSet(at)
  <2>1. DOMAIN s = 1 .. Len(s) /\ Len(s) \in Nat
    OBVIOUS
  <2>2. IsFiniteSet(1 .. Len(s)) /\ at \in SUBSET (1 .. Len(s))
    BY <2>1, FS_Interval
  <2> HIDE DEF at
  <2> QED  BY <2>2, FS_Subset
<1>2. Cardinality(at) \in Nat
  BY <1>1, FS_CardinalityType
<1>3. ASSUME NEW i \in at  PROVE Cardinality(at) >= 1
  <2>1. Cardinality({i}) = 1 /\ {i} \in SUBSET at
    BY FS_Singleton
  <2> HIDE DEF at
  <2>2. Cardinality({i}) <= Cardinality(at)
    BY <1>1, <2>1, FS_Subset
  <2> QED  BY <1>2, <2>1, <2>2
<1>4. ASSUME NEW i \in at, NEW j \in at, i # j  PROVE Cardinality(at) >= 2
  <2>1. Cardinality({i} \cup {j}) = 2
    <3>1. IsFiniteSet({i}) /\ Cardinality({i}) = 1 /\ j \notin {i}
      BY <1>4, FS_Singleton
    <3>2. Cardinality({i} \cup {j}) = IF j \in {i} THEN Cardinality({i}) ELSE Cardinality({i}) + 1
      BY <3>1, FS_AddElement
    <3> QED  BY <3>1, <3>2
  <2>2. {i} \cup {j} \in SUBSET at
    OBVIOUS
  <2> HIDE DEF at
  <2>3. Cardinality({i} \cup {j}) <= Cardinality(at)
    BY <1>1, <2>2, FS_Subset
  <2> QED  BY <1>2, <2>1, <2>3
<1> QED  BY <1>2, <1>3, <1>4 DEF Count

LEMMA ProgramParts ==
  ASSUME program \in Program
  PROVE  /\ program.body \in Seq(STRING) /\ program.after \in Seq(STRING)
         /\ Len(program.body) \in Nat /\ Len(program.after) \in Nat
         /\ Statements \in Seq(STRING)
         /\ DOMAIN Statements = 1 .. (Len(program.body) + Len(program.after))
         /\ \A i \in 1 .. Len(program.body) : Statements[i] = program.body[i]
         /\ \A i \in 1 .. Len(program.after) : /\ Statements[Len(program.body) + i] = program.after[i]
                                               /\ ~LaunchesSpawn(program.after[i])
<1>1. program.body \in Seq(STRING) /\ program.after \in Seq(STRING)
  BY ScopeFanInAssumption
<1>2. \A i \in 1 .. Len(program.after) : ~LaunchesSpawn(program.after[i])
  BY <1>1, ScopeFanInAssumption
<1> DEFINE b == program.body
           a == program.after
<1>3. /\ b \o a \in Seq(STRING) /\ DOMAIN (b \o a) = 1 .. (Len(b) + Len(a))
      /\ \A i \in 1 .. Len(b) : (b \o a)[i] = b[i]
      /\ \A i \in (Len(b) + 1) .. (Len(b) + Len(a)) : (b \o a)[i] = a[i - Len(b)]
  <2>1. b \in Seq(STRING) /\ a \in Seq(STRING)
    BY <1>1
  <2> HIDE DEF a, b
  <2> QED  BY <2>1, Concatenated
<1>4. Len(b) \in Nat /\ Len(a) \in Nat
  BY <1>1
<1> HIDE DEF a, b
<1>5. \A i \in 1 .. Len(a) : (b \o a)[Len(b) + i] = a[i]
  <2>1. ASSUME NEW i \in 1 .. Len(a)  PROVE (b \o a)[Len(b) + i] = a[i]
    <3>1. Len(b) + i \in (Len(b) + 1) .. (Len(b) + Len(a)) /\ (Len(b) + i) - Len(b) = i
      BY <1>4
    <3> QED  BY <1>3, <3>1
  <2> QED  BY <2>1
<1> QED  BY <1>1, <1>2, <1>3, <1>4, <1>5 DEF Statements, a, b

(* ClosesLast, said of places.                                             *)
Closer == {"close", "feed"}

OneCloser(s) == \A i, j \in DOMAIN s : s[i] \in Closer /\ s[j] \in Closer => i = j
CloseLast(s) == \A i, j \in DOMAIN s :
                  s[i] = "close" /\ j > i => s[j] \notin {"produce", "consume", "send"}
FeedAlone(s) == \A i, j \in DOMAIN s : s[i] = "feed" => s[j] \notin {"produce", "send"}

LEMMA ClosedOnce ==
  ASSUME program \in Program, ClosesLast
  PROVE  OneCloser(Statements) /\ CloseLast(Statements) /\ FeedAlone(Statements)
<1> DEFINE s == Statements
<1>1. s \in Seq(STRING)
  BY ProgramParts
<1>2. /\ Count(s, "close") + Count(s, "feed") <= 1
      /\ CloseLast(s)
      /\ Count(s, "feed") = 1 => Count(s, "produce") + Count(s, "send") = 0
  BY DEF ClosesLast, CloseLast
<1> HIDE DEF s
<1>3. OneCloser(s)
  <2>1. /\ Count(s, "close") \in Nat /\ Count(s, "feed") \in Nat
        /\ \A i \in DOMAIN s : s[i] = "close" => Count(s, "close") >= 1
        /\ \A i \in DOMAIN s : s[i] = "feed" => Count(s, "feed") >= 1
        /\ \A i, j \in DOMAIN s : s[i] = "close" /\ s[j] = "close" /\ i # j => Count(s, "close") >= 2
        /\ \A i, j \in DOMAIN s : s[i] = "feed" /\ s[j] = "feed" /\ i # j => Count(s, "feed") >= 2
    BY <1>1, Counts
  <2> QED  BY <1>2, <2>1 DEF OneCloser, Closer
<1>4. FeedAlone(s)
  <2>1. /\ Count(s, "close") \in Nat /\ Count(s, "feed") \in Nat
        /\ Count(s, "produce") \in Nat /\ Count(s, "send") \in Nat
        /\ \A i \in DOMAIN s : s[i] = "feed" => Count(s, "feed") >= 1
        /\ \A i \in DOMAIN s : s[i] = "produce" => Count(s, "produce") >= 1
        /\ \A i \in DOMAIN s : s[i] = "send" => Count(s, "send") >= 1
    BY <1>1, Counts
  <2> QED  BY <1>2, <2>1 DEF FeedAlone
<1> QED  BY <1>2, <1>3, <1>4 DEF s

(* Where the join goes: after every spawn, and ahead of a close that is    *)
(* not to happen under one.                                                *)
LEMMA JoinIndex ==
  ASSUME program \in Program, ClosesLast
  PROVE  LET b == program.body
             j == JoinBeforeIndex(b)
         IN  /\ j \in 0 .. Len(b)
             /\ j = 0 => \A i, k \in DOMAIN b : b[i] = "close" => ~LaunchesSpawn(b[k])
             /\ j > 0 => b[j] = "close" /\ \A k \in DOMAIN b : LaunchesSpawn(b[k]) => k < j
<1> DEFINE b == program.body
           spawns == {i \in DOMAIN b : LaunchesSpawn(b[i])}
           closes == {i \in DOMAIN b : IsChannelClose(b[i]) /\ \A k \in spawns : k < i}
           j == JoinBeforeIndex(b)
<1>1. b \in Seq(STRING) /\ DOMAIN b = 1 .. Len(b) /\ Len(b) \in Nat
  BY ProgramParts
<1>2. \A i, k \in DOMAIN b : b[i] = "close" => /\ b[k] = "close" => i = k
                                               /\ LaunchesSpawn(b[k]) => k < i
  <2>1. \A i \in DOMAIN b : i \in DOMAIN Statements /\ b[i] = Statements[i]
    <3>1. DOMAIN b \subseteq DOMAIN Statements
      <4>1. /\ DOMAIN Statements = 1 .. (Len(b) + Len(program.after)) /\ Len(program.after) \in Nat
            /\ \A i \in 1 .. Len(b) : Statements[i] = b[i]
        BY ProgramParts
      <4>2. \A n, m \in Nat : 1 .. n \subseteq 1 .. (n + m)
        OBVIOUS
      <4> QED  BY <1>1, <4>1, <4>2
    <3> QED  BY <1>1, <3>1, ProgramParts
  <2>2. OneCloser(Statements) /\ CloseLast(Statements)
    BY ClosedOnce
  <2> QED  BY <1>1, <2>1, <2>2 DEF OneCloser, CloseLast, Closer, LaunchesSpawn
<1>3. j = IF spawns = {} \/ closes = {} THEN 0 ELSE Min(closes)
  BY DEF JoinBeforeIndex
<1>4. \A i \in DOMAIN b : b[i] = "close" => i \in closes
  BY <1>2 DEF IsChannelClose
<1>5. \A c \in closes : c \in 1 .. Len(b) /\ b[c] = "close" /\ \A k \in spawns : k < c
  BY <1>1 DEF IsChannelClose
<1>6. CASE spawns = {} \/ closes = {}
  BY <1>1, <1>3, <1>4, <1>6
<1>7. CASE ~(spawns = {} \/ closes = {})
  <2>1. PICK c \in closes : TRUE
    BY <1>7
  <2>2. closes = {c}
    BY <1>2, <1>5, <2>1
  <2>3. Min({c}) = c
    BY <1>5, <2>1 DEF Min
  <2>4. j = c
    BY <1>3, <1>7, <2>2, <2>3
  <2> QED  BY <1>5, <2>1, <2>4
<1> QED  BY <1>6, <1>7

(* The code of a program: its statements in order, with a join and an ok.  *)
JoinAt == IF JoinBeforeIndex(program.body) = 0 THEN Len(program.body) + 1
          ELSE JoinBeforeIndex(program.body)

Text == STRING \cup {"join", "ok"}

LEMMA CodeShape ==
  ASSUME program \in Program, ClosesLast
  PROVE  LET b == program.body
             a == program.after
             n == Len(b)
         IN  /\ JoinAt \in 1 .. (n + 1)
             /\ Code \in Seq(Text) /\ Len(Code) = n + 2 + Len(a)
             /\ DOMAIN Code = 1 .. (n + 2 + Len(a))
             /\ \A i \in 1 .. (JoinAt - 1) : Code[i] = b[i]
             /\ Code[JoinAt] = "join"
             /\ \A i \in (JoinAt + 1) .. (n + 1) : Code[i] = b[i - 1]
             /\ Code[n + 2] = "ok"
             /\ \A i \in (n + 3) .. (n + 2 + Len(a)) : Code[i] = a[i - (n + 2)]
<1>1. PICK b : b = program.body
  OBVIOUS
<1>2. PICK a : a = program.after
  OBVIOUS
<1>3. b \in Seq(Text) /\ a \in Seq(Text) /\ Len(b) \in Nat /\ Len(a) \in Nat
  <2>1. b \in Seq(STRING) /\ a \in Seq(STRING)
    BY <1>1, <1>2, ProgramParts
  <2>2. ASSUME NEW S, NEW T, S \subseteq T, NEW s \in Seq(S)  PROVE s \in Seq(T)
    BY <2>2
  <2>3. STRING \subseteq Text
    BY DEF Text
  <2>4. b \in Seq(Text)
    BY <2>1, <2>2, <2>3
  <2>5. a \in Seq(Text)
    BY <2>1, <2>2, <2>3
  <2>6. Len(b) \in Nat /\ Len(a) \in Nat
    BY <2>1
  <2> QED  BY <2>4, <2>5, <2>6
<1>4. PICK k : k = JoinBeforeIndex(b)
  OBVIOUS
<1>5. k \in 0 .. Len(b)
  BY <1>1, <1>4, JoinIndex
<1>6. PICK j : j = IF k = 0 THEN Len(b) + 1 ELSE k
  OBVIOUS
<1>7. j \in 1 .. (Len(b) + 1) /\ j = JoinAt
  BY <1>1, <1>3, <1>4, <1>5, <1>6 DEF JoinAt
<1>8. PICK c : c = LoweredBody(b)
  OBVIOUS
<1>9. \/ j = Len(b) + 1 /\ c = b \o <<"join", "ok">>
      \/ c = SubSeq(b, 1, j - 1) \o <<"join">> \o SubSeq(b, j, Len(b)) \o <<"ok">>
  BY <1>4, <1>6, <1>8 DEF LoweredBody
<1>10. /\ c \in Seq(Text) /\ Len(c) = Len(b) + 2
       /\ \A i \in 1 .. (j - 1) : c[i] = b[i]
       /\ c[j] = "join"
       /\ \A i \in (j + 1) .. (Len(b) + 1) : c[i] = b[i - 1]
       /\ c[Len(b) + 2] = "ok"
  <2>1. "join" \in Text /\ "ok" \in Text
    BY DEF Text
  <2>2. b \in Seq(Text) /\ j \in 1 .. (Len(b) + 1)
    BY <1>3, <1>7
  <2>3. PICK join \in Text, ok \in Text : join = "join" /\ ok = "ok"
    BY <2>1
  <2>4. \/ j = Len(b) + 1 /\ c = b \o <<join, ok>>
        \/ c = SubSeq(b, 1, j - 1) \o <<join>> \o SubSeq(b, j, Len(b)) \o <<ok>>
    BY <1>9, <2>3
  <2>5. /\ c \in Seq(Text) /\ Len(c) = Len(b) + 2
        /\ \A i \in 1 .. (j - 1) : c[i] = b[i]
        /\ c[j] = join
        /\ \A i \in (j + 1) .. (Len(b) + 1) : c[i] = b[i - 1]
        /\ c[Len(b) + 2] = ok
    <3> DEFINE n == Len(b)
    <3>1. n \in Nat /\ j \in Nat /\ j \in 1 .. (n + 1) /\ b \in Seq(Text) /\ join \in Text /\ ok \in Text
      BY <2>2, <2>3
    <3>2. CASE j = n + 1 /\ c = b \o <<join, ok>>
      <4>1. <<join, ok>> \in Seq(Text) /\ Len(<<join, ok>>) = 2
        OBVIOUS
      <4>2. /\ c \in Seq(Text) /\ Len(c) = n + 2
            /\ \A i \in 1 .. n : c[i] = b[i]
            /\ \A i \in (n + 1) .. (n + 2) : c[i] = <<join, ok>>[i - n]
        <5>1. /\ c \in Seq(Text) /\ Len(c) = n + Len(<<join, ok>>)
              /\ \A i \in 1 .. n : c[i] = b[i]
              /\ \A i \in (n + 1) .. (n + Len(<<join, ok>>)) : c[i] = <<join, ok>>[i - n]
          BY <3>1, <3>2, <4>1, Concatenated
        <5> QED  BY <4>1, <5>1
      <4>3. c[n + 1] = join /\ c[n + 2] = ok
        <5>1. /\ n + 1 \in (n + 1) .. (n + 2) /\ n + 2 \in (n + 1) .. (n + 2)
              /\ (n + 1) - n = 1 /\ (n + 2) - n = 2
          BY <3>1
        <5>2. c[n + 1] = <<join, ok>>[1] /\ c[n + 2] = <<join, ok>>[2]
          BY <4>2, <5>1
        <5> QED  BY <5>2
      <4> QED  BY <3>1, <3>2, <4>2, <4>3
    <3>3. CASE c = SubSeq(b, 1, j - 1) \o <<join>> \o SubSeq(b, j, n) \o <<ok>>
      <4>1. PICK p : p = SubSeq(b, 1, j - 1)
        OBVIOUS
      <4>2. p \in Seq(Text) /\ Len(p) = j - 1 /\ \A i \in 1 .. (j - 1) : p[i] = b[i]
        BY <3>1, <4>1
      <4>3. PICK q : q = SubSeq(b, j, n)
        OBVIOUS
      <4>4. q \in Seq(Text) /\ Len(q) = n - j + 1 /\ \A i \in 1 .. (n - j + 1) : q[i] = b[j + i - 1]
        BY <3>1, <4>3
      <4>5. PICK pj : pj = p \o <<join>>
        OBVIOUS
      <4>6. /\ pj \in Seq(Text) /\ Len(pj) = j /\ pj[j] = join
            /\ \A i \in 1 .. (j - 1) : pj[i] = b[i]
        <5>1. <<join>> \in Seq(Text) /\ Len(<<join>>) = 1 /\ <<join>>[1] = join
          OBVIOUS
        <5>2. Len(p) + 1 = j /\ j - Len(p) = 1
          BY <3>1, <4>2
        <5>3. /\ pj \in Seq(Text) /\ Len(pj) = Len(p) + 1
              /\ \A i \in 1 .. Len(p) : pj[i] = p[i]
              /\ \A i \in (Len(p) + 1) .. (Len(p) + 1) : pj[i] = <<join>>[i - Len(p)]
          BY <4>2, <4>5, <5>1, Concatenated
        <5>4. Len(p) + 1 \in (Len(p) + 1) .. (Len(p) + 1) /\ (Len(p) + 1) - Len(p) = 1
          BY <3>1, <4>2
        <5>5. pj[Len(p) + 1] = join
          BY <5>1, <5>3, <5>4
        <5>6. \A i \in 1 .. (j - 1) : pj[i] = b[i]
          BY <4>2, <5>3
        <5> QED  BY <5>2, <5>3, <5>5, <5>6
      <4>7. PICK pq : pq = pj \o q
        OBVIOUS
      <4>8. /\ pq \in Seq(Text) /\ Len(pq) = n + 1
            /\ \A i \in 1 .. j : pq[i] = pj[i]
            /\ \A i \in (j + 1) .. (n + 1) : pq[i] = q[i - j]
        <5>1. Len(pj) + Len(q) = n + 1
          BY <3>1, <4>4, <4>6
        <5>2. /\ pq \in Seq(Text) /\ Len(pq) = Len(pj) + Len(q)
              /\ \A i \in 1 .. Len(pj) : pq[i] = pj[i]
              /\ \A i \in (Len(pj) + 1) .. (Len(pj) + Len(q)) : pq[i] = q[i - Len(pj)]
          BY <4>4, <4>6, <4>7, Concatenated
        <5> QED  BY <4>6, <5>1, <5>2
      <4>9. \A i \in (j + 1) .. (n + 1) : pq[i] = b[i - 1]
        BY <3>1, <4>4, <4>8
      <4>10. c = pq \o <<ok>>
        BY <3>3, <4>1, <4>3, <4>5, <4>7
      <4>11. /\ c \in Seq(Text) /\ Len(c) = n + 2 /\ c[n + 2] = ok
             /\ \A i \in 1 .. (n + 1) : c[i] = pq[i]
        <5>1. <<ok>> \in Seq(Text) /\ Len(<<ok>>) = 1 /\ <<ok>>[1] = ok
          OBVIOUS
        <5>2. Len(pq) + 1 = n + 2 /\ (n + 2) - Len(pq) = 1
          BY <3>1, <4>8
        <5>3. /\ c \in Seq(Text) /\ Len(c) = Len(pq) + 1
              /\ \A i \in 1 .. Len(pq) : c[i] = pq[i]
              /\ \A i \in (Len(pq) + 1) .. (Len(pq) + 1) : c[i] = <<ok>>[i - Len(pq)]
          BY <4>8, <4>10, <5>1, Concatenated
        <5> QED  BY <3>1, <4>8, <5>1, <5>2, <5>3
      <4> QED  BY <3>1, <4>6, <4>8, <4>9, <4>11
    <3> QED  BY <2>4, <3>2, <3>3
  <2> QED  BY <2>3, <2>5
<1>11. Code = c \o a
  BY <1>1, <1>2, <1>8 DEF Code
<1>12. /\ Code \in Seq(Text) /\ Len(Code) = Len(b) + 2 + Len(a)
       /\ \A i \in 1 .. (Len(b) + 2) : Code[i] = c[i]
       /\ \A i \in (Len(b) + 2 + 1) .. (Len(b) + 2 + Len(a)) : Code[i] = a[i - (Len(b) + 2)]
  <2>1. c \in Seq(Text) /\ a \in Seq(Text) /\ Len(c) = Len(b) + 2 /\ Code = c \o a
    BY <1>3, <1>10, <1>11
  <2>2. /\ Code \in Seq(Text) /\ Len(Code) = Len(c) + Len(a)
        /\ \A i \in 1 .. Len(c) : Code[i] = c[i]
        /\ \A i \in (Len(c) + 1) .. (Len(c) + Len(a)) : Code[i] = a[i - Len(c)]
    BY <2>1, Concatenated
  <2> QED  BY <2>1, <2>2
<1>13. Len(b) + 2 + 1 = Len(b) + 3
  BY <1>3
<1>14. /\ j \in 1 .. (Len(b) + 1) /\ Code \in Seq(Text) /\ Len(Code) = Len(b) + 2 + Len(a)
       /\ \A i \in 1 .. (j - 1) : Code[i] = b[i]
       /\ Code[j] = "join"
       /\ \A i \in (j + 1) .. (Len(b) + 1) : Code[i] = b[i - 1]
       /\ Code[Len(b) + 2] = "ok"
       /\ \A i \in (Len(b) + 3) .. (Len(b) + 2 + Len(a)) : Code[i] = a[i - (Len(b) + 2)]
  <2>1. j \in 1 .. (Len(b) + 1)
    BY <1>7
  <2>2. /\ \A i \in 1 .. (j - 1) : i \in 1 .. (Len(b) + 2)
        /\ j \in 1 .. (Len(b) + 2)
        /\ \A i \in (j + 1) .. (Len(b) + 1) : i \in 1 .. (Len(b) + 2)
        /\ Len(b) + 2 \in 1 .. (Len(b) + 2)
    BY <1>3, <2>1
  <2> QED  BY <1>10, <1>12, <1>13, <2>1, <2>2
<1>15. DOMAIN Code = 1 .. (Len(b) + 2 + Len(a))
  BY <1>14
<1> QED  BY <1>1, <1>2, <1>7, <1>14, <1>15

(* The statement that a place of the code comes from.                      *)
From(i) == IF i < JoinAt THEN i
           ELSE IF i <= Len(program.body) + 1 THEN i - 1 ELSE i - 2

Emitted(i) == i = JoinAt \/ i = Len(program.body) + 2

LEMMA Sources ==
  ASSUME program \in Program, ClosesLast
  PROVE  /\ \A i \in DOMAIN Code : ~Emitted(i) =>
              From(i) \in DOMAIN Statements /\ Statements[From(i)] = Code[i]
         /\ \A i, k \in DOMAIN Code : ~Emitted(i) /\ ~Emitted(k) /\ i < k => From(i) < From(k)
         /\ \A i \in DOMAIN Code : Emitted(i) => Code[i] \in {"join", "ok"}
         /\ \A k \in DOMAIN Statements : \E i \in DOMAIN Code : Code[i] = Statements[k]
<1>1. PICK b : b = program.body
  OBVIOUS
<1>2. PICK a : a = program.after
  OBVIOUS
<1>3. PICK n \in Nat : n = Len(b)
  BY <1>1, ProgramParts
<1>4. PICK m \in Nat : m = Len(a)
  BY <1>2, ProgramParts
<1>5. PICK s : s = Statements
  OBVIOUS
<1>6. PICK c : c = Code
  OBVIOUS
<1>7. PICK j \in 1 .. (n + 1) : j = JoinAt
  BY <1>1, <1>3, CodeShape
<1>8. /\ DOMAIN s = 1 .. (n + m)
      /\ \A i \in 1 .. n : s[i] = b[i]
      /\ \A i \in 1 .. m : s[n + i] = a[i]
  BY <1>1, <1>2, <1>3, <1>4, <1>5, ProgramParts
<1>9. /\ DOMAIN c = 1 .. (n + 2 + m)
      /\ \A i \in 1 .. (j - 1) : c[i] = b[i]
      /\ c[j] = "join"
      /\ \A i \in (j + 1) .. (n + 1) : c[i] = b[i - 1]
      /\ c[n + 2] = "ok"
      /\ \A i \in (n + 3) .. (n + 2 + m) : c[i] = a[i - (n + 2)]
  BY <1>1, <1>2, <1>3, <1>4, <1>6, <1>7, CodeShape
<1> DEFINE from(i) == IF i < j THEN i ELSE IF i <= n + 1 THEN i - 1 ELSE i - 2
           emitted(i) == i = j \/ i = n + 2
<1>10. \A i : from(i) = From(i) /\ (emitted(i) <=> Emitted(i))
  BY <1>1, <1>3, <1>7 DEF From, Emitted
<1>11. ASSUME NEW i \in DOMAIN c, ~emitted(i)
       PROVE  from(i) \in DOMAIN s /\ s[from(i)] = c[i]
  <2>0. i \in 1 .. (n + 2 + m) /\ i # j /\ i # n + 2
    BY <1>9, <1>11
  <2>1. CASE i < j
    <3>1. i \in 1 .. (j - 1) /\ i \in 1 .. n /\ i \in 1 .. (n + m) /\ from(i) = i
      BY <2>0, <2>1
    <3> QED  BY <1>8, <1>9, <3>1
  <2>2. CASE i > j /\ i <= n + 1
    <3>1. i \in (j + 1) .. (n + 1) /\ i - 1 \in 1 .. n /\ i - 1 \in 1 .. (n + m) /\ from(i) = i - 1
      BY <2>0, <2>2
    <3> QED  BY <1>8, <1>9, <3>1
  <2>3. CASE i > n + 2
    <3>1. /\ i \in (n + 3) .. (n + 2 + m) /\ i - (n + 2) \in 1 .. m /\ i - 2 \in 1 .. (n + m)
          /\ from(i) = i - 2 /\ n + (i - (n + 2)) = i - 2
      BY <2>0, <2>3
    <3> HIDE DEF from
    <3>2. s[n + (i - (n + 2))] = a[i - (n + 2)] /\ c[i] = a[i - (n + 2)]
      BY <1>8, <1>9, <3>1
    <3> QED  BY <1>8, <3>1, <3>2
  <2> QED  BY <2>0, <2>1, <2>2, <2>3
<1>12. ASSUME NEW i \in DOMAIN c, NEW k \in DOMAIN c, ~emitted(i), ~emitted(k), i < k
       PROVE  from(i) < from(k)
  BY <1>9, <1>12
<1>13. ASSUME NEW k \in DOMAIN s  PROVE \E i \in DOMAIN c : c[i] = s[k]
  <2>0. k \in 1 .. (n + m)
    BY <1>8
  <2>1. CASE k < j
    <3>1. k \in 1 .. (j - 1) /\ k \in 1 .. n /\ k \in 1 .. (n + 2 + m)
      BY <2>0, <2>1
    <3> QED  BY <1>8, <1>9, <3>1
  <2>2. CASE k >= j /\ k <= n
    <3>1. k + 1 \in (j + 1) .. (n + 1) /\ k \in 1 .. n /\ k + 1 \in 1 .. (n + 2 + m) /\ (k + 1) - 1 = k
      BY <2>0, <2>2
    <3> QED  BY <1>8, <1>9, <3>1
  <2>3. CASE k > n
    <3>1. /\ k - n \in 1 .. m /\ n + (k - n) = k /\ k + 2 \in (n + 3) .. (n + 2 + m)
          /\ k + 2 \in 1 .. (n + 2 + m) /\ (k + 2) - (n + 2) = k - n
      BY <2>0, <2>3
    <3>2. s[n + (k - n)] = a[k - n] /\ c[k + 2] = a[(k + 2) - (n + 2)]
      BY <1>8, <1>9, <3>1
    <3> QED  BY <1>9, <3>1, <3>2
  <2> QED  BY <2>0, <2>1, <2>2, <2>3
<1>14. \A i : emitted(i) => c[i] \in {"join", "ok"}
  BY <1>9
<1> HIDE DEF from, emitted
<1> QED  BY <1>5, <1>6, <1>10, <1>11, <1>12, <1>13, <1>14

(* What the placement of the join comes to: it is after every spawn, and   *)
(* ahead of the close, if there is a spawn.                                *)
LastJoin(j) == /\ j \in DOMAIN Code /\ Code[j] = "join"
               /\ \A k \in DOMAIN Code : LaunchesSpawn(Code[k]) => k < j

NoSpawn == \A k \in DOMAIN Code : ~LaunchesSpawn(Code[k])

Plan == /\ Code \in Seq(Text)
        /\ OneCloser(Code) /\ CloseLast(Code) /\ FeedAlone(Code)
        /\ LastJoin(JoinAt)
        /\ \A i \in DOMAIN Code : Code[i] = "close" => NoSpawn \/ JoinAt < i

LEMMA JoinIsPlaced ==
  ASSUME program \in Program, ClosesLast
  PROVE  Plan
<1>1. PICK b : b = program.body
  OBVIOUS
<1>2. PICK a : a = program.after
  OBVIOUS
<1>3. PICK n \in Nat : n = Len(b)
  BY <1>1, ProgramParts
<1>4. PICK m \in Nat : m = Len(a)
  BY <1>2, ProgramParts
<1>5. PICK c : c = Code
  OBVIOUS
<1>6. PICK k : k = JoinBeforeIndex(b)
  OBVIOUS
<1>7. PICK j : j = JoinAt
  OBVIOUS
<1>8. j = (IF k = 0 THEN n + 1 ELSE k) /\ j \in 1 .. (n + 1) /\ k \in 0 .. n
  BY <1>1, <1>3, <1>6, <1>7, CodeShape, JoinIndex DEF JoinAt
<1>9. /\ c \in Seq(Text) /\ DOMAIN c = 1 .. (n + 2 + m)
      /\ \A i \in 1 .. (j - 1) : c[i] = b[i]
      /\ c[j] = "join"
      /\ \A i \in (j + 1) .. (n + 1) : c[i] = b[i - 1]
      /\ c[n + 2] = "ok"
      /\ \A i \in (n + 3) .. (n + 2 + m) : c[i] = a[i - (n + 2)]
  BY <1>1, <1>2, <1>3, <1>4, <1>5, <1>7, CodeShape
<1>10. DOMAIN b = 1 .. n /\ \A i \in 1 .. m : ~LaunchesSpawn(a[i])
  <2>1. DOMAIN b = 1 .. n
    <3>1. b \in Seq(STRING)
      BY <1>1, ProgramParts
    <3> QED  BY <1>3, <3>1
  <2> QED  BY <1>2, <1>4, <2>1, ProgramParts
<1>11. /\ k = 0 => \A i, l \in 1 .. n : b[i] = "close" => ~LaunchesSpawn(b[l])
       /\ k > 0 => b[k] = "close" /\ \A l \in 1 .. n : LaunchesSpawn(b[l]) => l < k
  BY <1>1, <1>6, <1>10, JoinIndex
<1>12. ASSUME NEW i \in DOMAIN c, LaunchesSpawn(c[i])  PROVE i < j /\ i \in 1 .. n /\ c[i] = b[i]
  <2>0. i \in 1 .. (n + 2 + m) /\ i # j /\ i # n + 2
    BY <1>9, <1>12 DEF LaunchesSpawn
  <2>1. CASE i < j
    <3>1. i \in 1 .. (j - 1) /\ i \in 1 .. n
      BY <1>8, <2>0, <2>1
    <3> QED  BY <1>9, <2>1, <3>1
  <2>2. CASE i > j /\ i <= n + 1
    <3>1. i \in (j + 1) .. (n + 1) /\ i - 1 \in 1 .. n /\ i - 1 >= j /\ k # 0 /\ k = j
      BY <1>8, <2>0, <2>2
    <3>2. LaunchesSpawn(b[i - 1])
      BY <1>9, <1>12, <3>1
    <3>3. k > 0 /\ i - 1 < k
      BY <1>8, <1>11, <3>1, <3>2
    <3> QED  BY <1>8, <2>0, <3>1, <3>3
  <2>3. CASE i > n + 2
    <3>1. i \in (n + 3) .. (n + 2 + m) /\ i - (n + 2) \in 1 .. m
      BY <2>0, <2>3
    <3> QED  BY <1>9, <1>10, <1>12, <3>1
  <2> QED  BY <1>8, <2>0, <2>1, <2>2, <2>3
<1>13. LastJoin(j)
  <2>1. j \in 1 .. (n + 2 + m)
    BY <1>8
  <2> QED  BY <1>5, <1>9, <1>12, <2>1 DEF LastJoin
<1>14. OneCloser(c) /\ CloseLast(c) /\ FeedAlone(c)
  <2>1. /\ OneCloser(Statements) /\ CloseLast(Statements) /\ FeedAlone(Statements)
    BY ClosedOnce
  <2>2. /\ \A i \in DOMAIN c : c[i] \notin {"join", "ok"} =>
             /\ From(i) \in DOMAIN Statements /\ Statements[From(i)] = c[i]
             /\ \A l \in DOMAIN c : i < l /\ c[l] \notin {"join", "ok"} => From(i) < From(l)
    BY <1>5, Sources
  <2>3. DOMAIN c \subseteq Nat
    BY <1>9
  <2>4. OneCloser(c)
    <3>1. ASSUME NEW i \in DOMAIN c, NEW l \in DOMAIN c, c[i] \in Closer, c[l] \in Closer, i < l
          PROVE  FALSE
      <4>1. From(i) < From(l) /\ From(i) = From(l) /\ From(i) \in DOMAIN Statements
        BY <2>1, <2>2, <3>1 DEF OneCloser, Closer
      <4> QED  BY <4>1, ProgramParts
    <3> QED  BY <2>3, <3>1 DEF OneCloser
  <2>5. CloseLast(c)
    BY <2>1, <2>2, <2>3 DEF CloseLast
  <2>6. FeedAlone(c)
    BY <2>1, <2>2 DEF FeedAlone
  <2> QED  BY <2>4, <2>5, <2>6
<1>15. ASSUME NEW i \in DOMAIN c, c[i] = "close", NEW l \in DOMAIN c, LaunchesSpawn(c[l])
       PROVE  j < i
  <2>0. l < j /\ l \in 1 .. n /\ c[l] = b[l] /\ i \in 1 .. (n + 2 + m) /\ i # j /\ i # l
    BY <1>9, <1>12, <1>15 DEF LaunchesSpawn
  <2>1. CASE i < j
    <3>1. i \in 1 .. n /\ b[i] = "close" /\ LaunchesSpawn(b[l]) /\ i \in 1 .. (j - 1)
      BY <1>8, <1>9, <1>15, <2>0, <2>1
    <3>2. k # 0 /\ k = j
      BY <1>8, <1>11, <2>0, <3>1
    <3>3. i \in DOMAIN Statements /\ k \in DOMAIN Statements /\ Statements[i] = "close"
          /\ Statements[k] = "close"
      <4>1. k \in 1 .. n /\ b[k] = "close"
        BY <1>8, <1>11, <3>2
      <4>2. \A o \in 1 .. n : o \in DOMAIN Statements /\ Statements[o] = b[o]
        <5>1. DOMAIN Statements = 1 .. (n + m) /\ \A o \in 1 .. n : Statements[o] = b[o]
          BY <1>1, <1>2, <1>3, <1>4, ProgramParts
        <5> QED  BY <5>1
      <4> QED  BY <3>1, <4>1, <4>2
    <3>4. i = k
      BY <3>3, ClosedOnce DEF OneCloser, Closer
    <3> QED  BY <2>0, <3>2, <3>4
  <2> QED  BY <1>8, <2>0, <2>1
<1>16. \A i \in DOMAIN c : c[i] = "close" => NoSpawn \/ j < i
  BY <1>5, <1>15 DEF NoSpawn
<1> QED  BY <1>5, <1>7, <1>9, <1>13, <1>14, <1>16 DEF Plan

-----------------------------------------------------------------------------
(* The programs' steps on the channel are MonitoredChannel's.              *)
LEMMA StepsOfChannel ==
  ASSUME [FanNext]_allVars
  PROVE  [Next]_chanVars /\ UNCHANGED program
<1>1. CASE UNCHANGED allVars
  BY <1>1 DEF allVars, fanVars
<1>2. CASE FanNext
  <2>1. UNCHANGED config
    BY <1>2 DEF FanNext
  <2>2. ASSUME NEW t \in Block, Launch(t) \/ Fail(t)  PROVE UNCHANGED <<chanVars, program>>
    BY <2>2 DEF Launch, Fail
  <2>3. ASSUME Skip \/ Join \/ Return  PROVE UNCHANGED <<chanVars, program>>
    BY <2>3 DEF Skip, Join, Return
  <2>4. ASSUME NEW g \in Goroutine, Start(g)
        PROVE  (CheckSend(g) \/ BeginRecv(g) \/ MarkClosed(g)) /\ UNCHANGED program
    BY <2>4 DEF Start, fanVars
  <2>5. ASSUME NEW g \in Goroutine, Completes(g)
        PROVE  (DoSend(g) \/ DoClose(g) \/ EndRecv(g)) /\ UNCHANGED program
    BY <2>5 DEF Completes, Ends, fanVars
  <2>6. ASSUME NEW g \in Goroutine, NEW r \in Goroutine, Meet(g, r)
        PROVE  HandOff(g, r) /\ UNCHANGED program
    BY <2>6 DEF Meet, Ends
  <2> QED  BY <1>2, <2>1, <2>2, <2>3, <2>4, <2>5, <2>6 DEF FanNext, Next
<1> QED  BY <1>1, <1>2

(* A program does to its channel what MonitoredChannel allows: what holds  *)
(* of the channel and its monitor holds here.                              *)
THEOREM ProgramsUseTheChannel == FanSpec => Spec
<1>1. FanInit => Init
  BY DEF FanInit
<1>2. [FanNext]_allVars => [Next]_chanVars
  BY StepsOfChannel
<1> QED  BY <1>1, <1>2, PTL DEF FanSpec, Spec
-----------------------------------------------------------------------------
(* No program that closes last closes under a sender.  In the following, c *)
(* is the code and j the place of its join.                                *)
Roles == {"none", "produce", "feed", "consume", "closing", "done", "failed"}

Typed == program \in Program /\ pc \in Nat \ {0} /\ role \in [Block -> Roles]

PlanOf(c, j) ==
  /\ c \in Seq(Text)
  /\ OneCloser(c) /\ CloseLast(c) /\ FeedAlone(c)
  /\ j \in DOMAIN c /\ c[j] = "join" /\ \A k \in DOMAIN c : LaunchesSpawn(c[k]) => k < j
  /\ \A i \in DOMAIN c : c[i] = "close" =>
       (\A k \in DOMAIN c : ~LaunchesSpawn(c[k])) \/ j < i

(* A block that sends was launched by a statement the function has passed. *)
Spawned(c) == \A t \in Block :
  /\ role[t] = "produce" => \E i \in DOMAIN c : i < pc /\ c[i] = "produce"
  /\ role[t] \in {"feed", "closing"} => \E i \in DOMAIN c : i < pc /\ c[i] = "feed"

OneFeeder == \A t, u \in Block :
  role[t] \in {"feed", "closing"} /\ role[u] \in {"feed", "closing"} => t = u

(* After the join no block is at work, and none has failed.                *)
Joined(j) == j < pc => \A t \in Block : role[t] \in {"none", "done"}

(* An operation that is under way is the function's statement, or what the *)
(* block is for.                                                           *)
Busy(g) == step[g] \in {"pending", "marked", "receiving"}

Where(c) ==
  /\ Busy(Owner) => pc \in DOMAIN c /\ outcome = "none"
  /\ step[Owner] = "pending" => c[pc] = "send"
  /\ step[Owner] = "marked" => c[pc] = "close"
  /\ step[Owner] = "receiving" => c[pc] \in {"recv", "drain"}
  /\ \A t \in Block : /\ step[t] = "pending" => role[t] \in {"produce", "feed"}
                      /\ step[t] = "marked" => role[t] = "closing"
                      /\ step[t] = "receiving" => role[t] = "consume"
  /\ outcome = "ok" => pc = Len(c) + 1

(* The close is recorded where nothing is sent after.                      *)
Recorded(c) == monClosed =>
  \/ \E i \in DOMAIN c : c[i] = "close" /\ (i < pc \/ (i = pc /\ step[Owner] = "marked"))
  \/ \E i \in DOMAIN c :
       /\ c[i] = "feed" /\ i < pc
       /\ \A t \in Block : role[t] # "feed" /\ (role[t] = "closing" => step[t] = "marked")

(* What the function has drained is closed and empty.                      *)
Drained(c) == \A d \in DOMAIN c : c[d] = "drain" /\ d < pc => closed /\ buf = <<>>

Orderly(c, j) ==
  /\ Typed /\ Spawned(c) /\ OneFeeder /\ Joined(j) /\ Where(c) /\ Recorded(c) /\ Drained(c)
  /\ fault = "none"

FanInv(c, j) == /\ TypeOK /\ FlagLeads /\ PlanOf(c, j) /\ c = Code
                /\ Orderly(c, j)

(* Once the close is recorded nobody sends, nor closes again.              *)
LEMMA NobodyIsLeft ==
  ASSUME NEW c, NEW j, FanInv(c, j), monClosed, NEW g \in Goroutine
  PROVE  /\ step[g] # "pending" /\ ~Sending(g)
         /\ step[g] # "marked" => ~Closing(g)
         /\ g # Owner => role[g] # "feed"
<1> USE DEF FanInv, Orderly
<1>1. c \in Seq(Text) /\ DOMAIN c = 1 .. Len(c) /\ Len(c) \in Nat
      /\ (\A i \in DOMAIN c : i \in Nat) /\ pc \in Nat \ {0}
  BY DEF PlanOf, Typed
<1>2. CASE \E i \in DOMAIN c : c[i] = "close" /\ (i < pc \/ (i = pc /\ step[Owner] = "marked"))
  <2>1. PICK i \in DOMAIN c : c[i] = "close" /\ (i < pc \/ (i = pc /\ step[Owner] = "marked"))
    BY <1>2
  <2>2. \A k \in DOMAIN c : c[k] # "feed" /\ (c[k] = "close" => k = i)
    BY <2>1 DEF PlanOf, OneCloser, Closer
  <2>3. \A k \in DOMAIN c : k > i => c[k] # "send"
    BY <2>1 DEF PlanOf, CloseLast
  <2>4. \A t \in Block : role[t] \notin {"feed", "closing"}
    BY <2>2 DEF Spawned
  <2>5. \A t \in Block : role[t] # "produce"
    <3>1. ASSUME NEW t \in Block, role[t] = "produce"  PROVE FALSE
      <4>1. PICK k \in DOMAIN c : c[k] = "produce" /\ k < pc
        BY <3>1 DEF Spawned
      <4>2. LaunchesSpawn(c[k])
        BY <4>1 DEF LaunchesSpawn
      <4>3. j < i /\ j \in Nat /\ i \in Nat
        BY <1>1, <2>1, <4>2 DEF PlanOf
      <4>4. j < pc
        BY <1>1, <2>1, <4>3
      <4> QED  BY <3>1, <4>4 DEF Joined
    <3> QED  BY <3>1
  <2>6. g = Owner => ~At("send") /\ step[g] # "pending"
    <3>1. ASSUME pc \in DOMAIN c, c[pc] = "send"  PROVE FALSE
      BY <1>1, <2>1, <2>3, <3>1
    <3> QED  BY <1>1, <3>1 DEF At, Where, Busy
  <2>7. g = Owner /\ step[g] # "marked" => ~At("close")
    <3>1. ASSUME pc \in DOMAIN c, c[pc] = "close", step[Owner] # "marked"  PROVE FALSE
      BY <1>1, <2>1, <2>2, <3>1
    <3> QED  BY <1>1, <3>1 DEF At
  <2> QED  BY <2>4, <2>5, <2>6, <2>7 DEF Sending, Closing, Where, Block
<1>3. CASE \E i \in DOMAIN c :
             /\ c[i] = "feed" /\ i < pc
             /\ \A t \in Block : role[t] # "feed" /\ (role[t] = "closing" => step[t] = "marked")
  <2>1. PICK i \in DOMAIN c :
             /\ c[i] = "feed" /\ i < pc
             /\ \A t \in Block : role[t] # "feed" /\ (role[t] = "closing" => step[t] = "marked")
    BY <1>3
  <2>2. \A k \in DOMAIN c : c[k] \notin {"produce", "send", "close"}
    BY <2>1 DEF PlanOf, OneCloser, FeedAlone, Closer
  <2>3. \A t \in Block : role[t] \notin {"produce", "feed"}
    BY <2>1, <2>2 DEF Spawned
  <2>4. g = Owner => ~At("send") /\ ~At("close") /\ step[g] # "pending"
    BY <1>1, <2>2 DEF At, Where, Busy
  <2> QED  BY <2>1, <2>3, <2>4 DEF Sending, Closing, Where, Block
<1> QED  BY <1>2, <1>3 DEF Recorded

(* What is known of the places.                                            *)
LEMMA Places ==
  ASSUME NEW c, NEW j, FanInv(c, j)
  PROVE  /\ DOMAIN c = 1 .. Len(c) /\ Len(c) \in Nat
         /\ pc \in Nat /\ (pc \in DOMAIN c <=> pc <= Len(c))
         /\ pc + 1 \in Nat \ {0}
         /\ j \in DOMAIN c /\ (\A i \in DOMAIN c : i \in Nat)
         /\ \A i \in DOMAIN c : i < pc + 1 <=> i < pc \/ i = pc
         /\ step \in [Goroutine -> {"idle", "pending", "marked", "receiving", "left"}]
         /\ closed \in BOOLEAN /\ monClosed \in BOOLEAN
         /\ Owner \in Goroutine /\ \A t \in Block : t \in Goroutine /\ t # Owner
         /\ role \in [Block -> Roles] /\ program \in Program
<1>1. c \in Seq(Text) /\ pc \in Nat \ {0} /\ j \in DOMAIN c
  BY DEF FanInv, Orderly, PlanOf, Typed
<1>2. DOMAIN c = 1 .. Len(c) /\ Len(c) \in Nat
  BY <1>1
<1>3. \A i \in DOMAIN c : i \in Nat /\ (i < pc + 1 <=> i < pc \/ i = pc)
  BY <1>1, <1>2
<1> QED  BY <1>1, <1>2, <1>3, MonitoredChannelAssumption
         DEF FanInv, Orderly, Typed, TypeOK, Block

(* Where the function stands when it is at a statement.                    *)
LEMMA AtPlace ==
  ASSUME NEW c, NEW j, FanInv(c, j), NEW stmt, At(stmt)
  PROVE  pc \in DOMAIN c /\ c[pc] = stmt /\ outcome = "none" /\ step[Owner] = "idle"
BY Places DEF At, FanInv

LEMMA LaunchStep ==
  ASSUME NEW c, NEW j, FanInv(c, j), NEW t \in Block, Launch(t)
  PROVE  Orderly(c, j)'
<1> USE DEF FanInv, Orderly
<1>1. PICK stmt \in {"produce", "feed", "consume"} :
        At(stmt) /\ role' = [role EXCEPT ![t] = stmt]
  BY DEF Launch
<1>2. /\ pc \in DOMAIN c /\ c[pc] = stmt /\ outcome = "none" /\ step[Owner] = "idle"
  BY <1>1, AtPlace
<1>3. /\ role[t] = "none" /\ pc' = pc + 1
      /\ UNCHANGED <<buf, closed, monClosed, step, fault, program, outcome>>
  BY DEF Launch, chanVars
<1>4. Typed'
  BY <1>1, <1>3, Places DEF Typed, Roles
<1>5. Spawned(c)'
  BY <1>1, <1>2, <1>3, Places DEF Spawned
<1>6. OneFeeder'
  <2>1. stmt = "feed" => \A u \in Block : role[u] \notin {"feed", "closing"}
    BY <1>2, Places DEF Spawned, PlanOf, OneCloser, Closer
  <2> QED  BY <1>1, <2>1, Places DEF OneFeeder
<1>7. Joined(j)'
  <2>1. pc < j
    BY <1>2 DEF PlanOf, LaunchesSpawn
  <2> QED  BY <1>3, <2>1, Places DEF Joined
<1>8. Where(c)'
  BY <1>1, <1>2, <1>3, Places DEF Where, Busy
<1>9. Recorded(c)'
  <2>1. ASSUME monClosed, stmt = "feed"
        PROVE  FALSE
    <3>1. CASE \E i \in DOMAIN c : c[i] = "close"
      BY <1>2, <2>1, <3>1 DEF PlanOf, OneCloser, Closer
    <3>2. CASE \E i \in DOMAIN c : c[i] = "feed" /\ i < pc
      BY <1>2, <2>1, <3>2, Places DEF PlanOf, OneCloser, Closer
    <3> QED  BY <2>1, <3>1, <3>2 DEF Recorded
  <2> QED  BY <1>1, <1>2, <1>3, <2>1, Places DEF Recorded
<1>10. Drained(c)'
  BY <1>1, <1>2, <1>3, Places DEF Drained
<1> QED  BY <1>3, <1>4, <1>5, <1>6, <1>7, <1>8, <1>9, <1>10

LEMMA FunctionSteps ==
  ASSUME NEW c, NEW j, FanInv(c, j), Skip \/ Join \/ Return
  PROVE  Orderly(c, j)'
<1> USE DEF FanInv, Orderly
<1>1. UNCHANGED <<buf, closed, monClosed, step, fault, program, role>>
  BY DEF Skip, Join, Return, chanVars
<1>2. /\ step[Owner] = "idle" /\ outcome = "none"
      /\ \/ /\ pc' = pc + 1 /\ pc \in DOMAIN c /\ outcome' = "none"
            /\ \/ c[pc] \in {"nested", "ok"}
               \/ c[pc] = "join" /\ \A t \in Block : role[t] \in {"none", "done"}
         \/ pc' = pc /\ outcome' = "err"
         \/ pc' = pc /\ outcome' = "ok" /\ pc = Len(c) + 1
  <2>1. CASE Skip
    BY <2>1, AtPlace DEF Skip
  <2>2. CASE Join
    BY <2>2, AtPlace DEF Join, AllBlocksReturned, Failed
  <2>3. CASE Return
    BY <2>3 DEF Return
  <2> QED  BY <2>1, <2>2, <2>3
<1>3. Typed'
  BY <1>1, <1>2, Places DEF Typed
<1>4. Spawned(c)' /\ OneFeeder'
  BY <1>1, <1>2, Places DEF Spawned, OneFeeder
<1>5. Joined(j)'
  BY <1>1, <1>2, Places DEF Joined, PlanOf
<1>6. Where(c)'
  BY <1>1, <1>2, Places DEF Where, Busy
<1>7. Recorded(c)'
  BY <1>1, <1>2, Places DEF Recorded
<1>8. Drained(c)'
  BY <1>1, <1>2, Places DEF Drained
<1> QED  BY <1>1, <1>3, <1>4, <1>5, <1>6, <1>7, <1>8

LEMMA FailStep ==
  ASSUME NEW c, NEW j, FanInv(c, j), NEW t \in Block, Fail(t)
  PROVE  Orderly(c, j)'
<1> USE DEF FanInv, Orderly
<1>1. /\ role[t] \in {"produce", "feed"} /\ step[t] = "idle"
      /\ role' = [role EXCEPT ![t] = "failed"]
      /\ UNCHANGED <<buf, closed, monClosed, step, fault, program, pc, outcome>>
  BY DEF Fail, chanVars
<1>2. Typed' /\ Spawned(c)' /\ OneFeeder' /\ Drained(c)'
  BY <1>1, Places DEF Typed, Roles, Spawned, OneFeeder, Drained
<1>3. Joined(j)'
  BY <1>1, Places DEF Joined
<1>4. Where(c)' /\ Recorded(c)'
  BY <1>1, Places DEF Where, Busy, Recorded
<1> QED  BY <1>1, <1>2, <1>3, <1>4

(* An operation begins, and meets no panic.                                *)
LEMMA StartStep ==
  ASSUME NEW c, NEW j, FanInv(c, j), NEW g \in Goroutine, Start(g)
  PROVE  Orderly(c, j)'
<1> USE DEF FanInv, Orderly
<1>1. UNCHANGED <<program, pc, role, outcome>> /\ step[g] = "idle"
  BY DEF Start, fanVars, CheckSend, BeginRecv, MarkClosed, Idle
<1>2. /\ UNCHANGED <<buf, closed, fault>>
      /\ \/ /\ step' = [step EXCEPT ![g] = "pending"] /\ Sending(g) /\ UNCHANGED monClosed
         \/ /\ step' = [step EXCEPT ![g] = "receiving"] /\ Receiving(g) /\ UNCHANGED monClosed
         \/ /\ step' = [step EXCEPT ![g] = "marked"] /\ Closing(g) /\ monClosed'
  <2>1. CASE Sending(g) /\ CheckSend(g)
    <3>1. ~monClosed
      BY <2>1, NobodyIsLeft
    <3> QED  BY <2>1, <3>1 DEF CheckSend, Goto
  <2>2. CASE Receiving(g) /\ BeginRecv(g)
    BY <2>2 DEF BeginRecv, Goto
  <2>3. CASE Closing(g) /\ MarkClosed(g)
    <3>1. ~monClosed
      BY <1>1, <2>3, NobodyIsLeft
    <3> QED  BY <2>3, <3>1 DEF MarkClosed, Goto
  <2> QED  BY <2>1, <2>2, <2>3 DEF Start
<1>3. /\ g = Owner => /\ Sending(g) => pc \in DOMAIN c /\ c[pc] = "send" /\ outcome = "none"
                      /\ Receiving(g) => pc \in DOMAIN c /\ c[pc] \in {"recv", "drain"} /\ outcome = "none"
                      /\ Closing(g) => pc \in DOMAIN c /\ c[pc] = "close" /\ outcome = "none"
      /\ g # Owner => /\ Sending(g) => role[g] \in {"produce", "feed"}
                      /\ Receiving(g) => role[g] = "consume"
                      /\ Closing(g) => role[g] = "closing"
  BY AtPlace DEF Sending, Receiving, Closing
<1>4. Typed' /\ Spawned(c)' /\ OneFeeder' /\ Drained(c)' /\ Joined(j)'
  BY <1>1, <1>2 DEF Typed, Spawned, OneFeeder, Drained, Joined
<1>5. Where(c)'
  BY <1>1, <1>2, <1>3, Places DEF Where, Busy, Block
<1>6. Recorded(c)'
  <2>1. CASE /\ UNCHANGED monClosed
               /\ \/ step' = [step EXCEPT ![g] = "pending"]
                  \/ step' = [step EXCEPT ![g] = "receiving"]
    BY <1>1, <1>2, <2>1, Places DEF Recorded
  <2>2. CASE step' = [step EXCEPT ![g] = "marked"] /\ Closing(g) /\ g = Owner
    BY <1>1, <1>3, <2>2, Places DEF Recorded
  <2>3. CASE step' = [step EXCEPT ![g] = "marked"] /\ Closing(g) /\ g # Owner
    <3>1. g \in Block /\ role[g] = "closing"
      BY <1>3, <2>3 DEF Block
    <3>2. PICK i \in DOMAIN c : i < pc /\ c[i] = "feed"
      BY <3>1 DEF Spawned
    <3>3. \A t \in Block : role[t] \in {"feed", "closing"} => t = g
      BY <3>1 DEF OneFeeder
    <3> QED  BY <1>1, <2>3, <3>1, <3>2, <3>3, Places DEF Recorded
  <2> QED  BY <1>2, <2>1, <2>2, <2>3
<1> QED  BY <1>2, <1>4, <1>5, <1>6

(* What ends with operations that complete; a range may have taken one     *)
(* message more.                                                           *)
Finishes(gs) ==
  /\ Ends(gs)
  /\ \A g \in gs : Busy(g) /\ step'[g] = "idle"
  /\ \A g \in Goroutine \ gs : step'[g] = step[g] \/ (step[g] = "receiving" /\ step'[g] = "idle")

LEMMA FinishStep ==
  ASSUME NEW c, NEW j, FanInv(c, j), NEW gs \in SUBSET Goroutine, Finishes(gs),
         monClosed' = monClosed, fault' = "none",
         closed /\ buf = <<>> => closed' /\ buf' = <<>>,
         Owner \in gs /\ c[pc] = "drain" => closed' /\ buf' = <<>>
  PROVE  Orderly(c, j)'
<1> USE DEF FanInv, Orderly
<1>1. /\ pc' = IF Owner \in gs THEN pc + 1 ELSE pc
      /\ role' = [t \in Block |-> IF t \notin gs THEN role[t]
                                  ELSE IF role[t] = "feed" THEN "closing" ELSE "done"]
      /\ program' = program /\ outcome' = outcome
  BY DEF Finishes, Ends
<1>2. /\ \A g \in gs : Busy(g) /\ step'[g] = "idle"
      /\ \A g \in Goroutine \ gs : step'[g] = step[g] \/ (step[g] = "receiving" /\ step'[g] = "idle")
  BY DEF Finishes
<1>3. Owner \in gs => pc \in DOMAIN c /\ outcome = "none" /\ c[pc] \in {"send", "close", "recv", "drain"}
  BY <1>2 DEF Where, Busy
<1>4. /\ pc' \in Nat \ {0} /\ \A i \in DOMAIN c : /\ i < pc => i < pc'
                                                 /\ i < pc' => i < pc \/ (i = pc /\ Owner \in gs)
  BY <1>1, Places DEF Typed
<1>5. Typed'
  BY <1>1, <1>4, Places DEF Typed, Roles
<1>6. Spawned(c)'
  BY <1>1, <1>4, Places DEF Spawned
<1>7. OneFeeder'
  BY <1>1 DEF OneFeeder
<1>8. Joined(j)'
  <2>1. j < pc' => j < pc
    BY <1>3, <1>4, Places DEF PlanOf
  <2> QED  BY <1>1, <2>1 DEF Joined
<1>9. Where(c)'
  <2>1. \A t \in Block : Busy(t)' => t \notin gs /\ step'[t] = step[t] /\ role'[t] = role[t]
    BY <1>1, <1>2, Places DEF Busy
  <2>2. Busy(Owner)' => Owner \notin gs /\ step'[Owner] = step[Owner] /\ pc' = pc
    BY <1>1, <1>2, Places DEF Busy
  <2>3. outcome = "ok" => Owner \notin gs
    BY <1>3
  <2> QED  BY <1>1, <2>1, <2>2, <2>3 DEF Where, Busy
<1>10. Recorded(c)'
  <2> SUFFICES ASSUME monClosed PROVE Recorded(c)'
    BY DEF Recorded
  <2>1. CASE \E i \in DOMAIN c : c[i] = "close" /\ (i < pc \/ (i = pc /\ step[Owner] = "marked"))
    <3>1. PICK i \in DOMAIN c : c[i] = "close" /\ (i < pc \/ (i = pc /\ step[Owner] = "marked"))
      BY <2>1
    <3>2. CASE Owner \in gs
      <4>1. i < pc'
        BY <1>1, <3>1, <3>2, Places
      <4> QED  BY <3>1, <4>1 DEF Recorded
    <3>3. CASE Owner \notin gs
      <4>1. pc' = pc /\ (step[Owner] = "marked" => step'[Owner] = "marked")
        BY <1>1, <1>2, <3>3, Places
      <4> QED  BY <3>1, <4>1 DEF Recorded
    <3> QED  BY <3>2, <3>3
  <2>2. CASE \E i \in DOMAIN c :
               /\ c[i] = "feed" /\ i < pc
               /\ \A t \in Block : role[t] # "feed" /\ (role[t] = "closing" => step[t] = "marked")
    <3>1. PICK i \in DOMAIN c :
               /\ c[i] = "feed" /\ i < pc
               /\ \A t \in Block : role[t] # "feed" /\ (role[t] = "closing" => step[t] = "marked")
      BY <2>2
    <3>2. i < pc'
      BY <1>1, <3>1, Places
    <3>3. \A t \in Block : role'[t] # "feed" /\ (role'[t] = "closing" => step'[t] = "marked")
      BY <1>1, <1>2, <3>1, Places
    <3> QED  BY <3>1, <3>2, <3>3 DEF Recorded
  <2> QED  BY <2>1, <2>2 DEF Recorded
<1>11. Drained(c)'
  <2>1. \A d \in DOMAIN c : c[d] = "drain" /\ d < pc' => closed' /\ buf' = <<>>
    BY <1>3, <1>4 DEF Drained
  <2> QED  BY <2>1 DEF Drained
<1> QED  BY <1>5, <1>6, <1>7, <1>8, <1>9, <1>10, <1>11

LEMMA CompleteStep ==
  ASSUME NEW c, NEW j, FanInv(c, j), NEW g \in Goroutine, Completes(g)
  PROVE  Orderly(c, j)'
<1> USE DEF FanInv, Orderly
<1>1. CASE DoSend(g)
  <2>1. ~closed
    BY <1>1, NobodyIsLeft DEF DoSend, FlagLeads
  <2>2. /\ step[g] = "pending" /\ step' = [step EXCEPT ![g] = "idle"]
        /\ UNCHANGED <<closed, monClosed, fault>> /\ Ends({g})
    BY <1>1, <2>1 DEF Completes, DoSend, Goto, Panic, DoClose, EndRecv
  <2>3. Finishes({g})
    BY <2>2, Places DEF Finishes, Busy
  <2>4. g = Owner => c[pc] = "send"
    BY <2>2 DEF Where
  <2> QED  BY <2>1, <2>2, <2>3, <2>4, FinishStep
<1>2. CASE DoClose(g)
  <2>1. step[g] = "marked" /\ ~closed
    BY <1>2 DEF DoClose, FlagLeads
  <2>2. /\ step' = [step EXCEPT ![g] = "idle"]
        /\ UNCHANGED <<buf, monClosed, fault>> /\ closed' /\ Ends({g})
    BY <1>2, <2>1 DEF Completes, DoSend, DoClose, Goto, EndRecv
  <2>3. Finishes({g})
    BY <2>1, <2>2, Places DEF Finishes, Busy
  <2>4. g = Owner => c[pc] = "close"
    BY <2>1 DEF Where
  <2> QED  BY <2>1, <2>2, <2>3, <2>4, FinishStep
<1>3. CASE EndRecv(g)
  <2>1. /\ step[g] = "receiving" /\ step' = [step EXCEPT ![g] = "idle"]
        /\ UNCHANGED <<closed, monClosed, fault>>
    BY <1>3 DEF EndRecv, Goto
  <2>2. PICK gs \in SUBSET {g} :
          /\ Ends(gs)
          /\ \/ buf # <<>> /\ gs = (IF Ranging(g) THEN {} ELSE {g})
             \/ buf = <<>> /\ gs = {g}
    BY <1>3, <2>1 DEF Completes, DoSend, DoClose
  <2>3. Finishes(gs)
    BY <2>1, <2>2, Places DEF Finishes, Busy
  <2>4. buf = <<>> => closed /\ buf' = <<>>
    BY <1>3 DEF EndRecv, Take
  <2>5. buf # <<>> /\ Owner \in gs => c[pc] # "drain"
    BY <2>2 DEF Ranging
  <2> QED  BY <2>1, <2>2, <2>3, <2>4, <2>5, FinishStep
<1> QED  BY <1>1, <1>2, <1>3 DEF Completes

LEMMA MeetStep ==
  ASSUME NEW c, NEW j, FanInv(c, j), NEW g \in Goroutine, NEW r \in Goroutine, Meet(g, r)
  PROVE  Orderly(c, j)'
<1> USE DEF FanInv, Orderly
<1>1. /\ step[g] = "pending" /\ step[r] = "receiving" /\ ~closed
      /\ step' = [step EXCEPT ![g] = "idle", ![r] = "idle"]
      /\ UNCHANGED <<buf, closed, monClosed, fault>>
  BY DEF Meet, HandOff
<1>2. PICK gs \in SUBSET {g, r} : Ends(gs) /\ g \in gs /\ (r \in gs <=> ~Ranging(r))
  <2>1. Ends({g} \cup IF Ranging(r) THEN {} ELSE {r}) /\ g # r
    BY <1>1 DEF Meet
  <2> QED  BY <2>1
<1>3. Finishes(gs)
  BY <1>1, <1>2, Places DEF Finishes, Busy
<1>4. Owner \in gs => c[pc] # "drain"
  BY <1>1, <1>2 DEF Where, Ranging
<1> QED  BY <1>1, <1>2, <1>3, <1>4, FinishStep

LEMMA IdleStep ==
  ASSUME NEW c, NEW j, FanInv(c, j), UNCHANGED allVars
  PROVE  Orderly(c, j)'
BY DEF FanInv, Orderly, allVars, fanVars, chanVars, Typed, Spawned, OneFeeder, Joined, Where,
       Busy, Recorded, Drained

LEMMA FanStep ==
  ASSUME NEW c, NEW j, FanInv(c, j), [FanNext]_allVars
  PROVE  Orderly(c, j)'
<1>1. ASSUME NEW t \in Block, Launch(t) \/ Fail(t)  PROVE Orderly(c, j)'
  BY <1>1, LaunchStep, FailStep
<1>2. CASE Skip \/ Join \/ Return
  BY <1>2, FunctionSteps
<1>3. ASSUME NEW g \in Goroutine, Start(g) \/ Completes(g)  PROVE Orderly(c, j)'
  BY <1>3, StartStep, CompleteStep
<1>4. ASSUME NEW g \in Goroutine, NEW r \in Goroutine, Meet(g, r)  PROVE Orderly(c, j)'
  BY <1>4, MeetStep
<1> QED  BY <1>1, <1>2, <1>3, <1>4, IdleStep DEF FanNext
-----------------------------------------------------------------------------
Ordered == program \in Program /\ (ClosesLast => Orderly(Code, JoinAt))

LEMMA OrderedPlan ==
  ASSUME Ordered, TypeOK, FlagLeads, ClosesLast
  PROVE  FanInv(Code, JoinAt)
<1>1. Plan
  BY JoinIsPlaced DEF Ordered
<1> QED  BY <1>1 DEF Ordered, FanInv, Plan, PlanOf, LastJoin, NoSpawn

LEMMA OrderedInit == FanInit => Ordered
<1> SUFFICES ASSUME FanInit PROVE Ordered
  OBVIOUS
<1>1. program \in Program /\ pc = 1 /\ outcome = "none" /\ fault = "none" /\ ~monClosed
      /\ role = [t \in Block |-> "none"] /\ step = [g \in Goroutine |-> "idle"]
  BY DEF FanInit, Init
<1>2. ASSUME ClosesLast  PROVE Orderly(Code, JoinAt)
  <2>1. PICK c : c = Code
    OBVIOUS
  <2>2. PICK j : j = JoinAt
    OBVIOUS
  <2>3. DOMAIN c \subseteq Nat \ {0} /\ j \in Nat \ {0}
    BY <1>1, <1>2, <2>1, <2>2, JoinIsPlaced DEF Plan, LastJoin
  <2>4. Orderly(c, j)
    BY <1>1, <2>3, MonitoredChannelAssumption
    DEF Orderly, Typed, Roles, Spawned, OneFeeder, Joined, Where, Busy, Recorded, Drained, Block
  <2> QED  BY <2>1, <2>2, <2>4
<1> QED  BY <1>1, <1>2 DEF Ordered

LEMMA OrderedNext == TypeOK /\ FlagLeads /\ Ordered /\ [FanNext]_allVars => Ordered'
<1> SUFFICES ASSUME TypeOK, FlagLeads, Ordered, [FanNext]_allVars PROVE Ordered'
  OBVIOUS
<1>1. program' = program
  BY StepsOfChannel
<1>2. Code' = Code /\ JoinAt' = JoinAt
  BY <1>1 DEF Code, JoinAt
<1>3. ASSUME ClosesLast'  PROVE Orderly(Code, JoinAt)'
  <2>1. CASE ClosesLast
    <3>1. PICK c : c = Code
      OBVIOUS
    <3>2. PICK j : j = JoinAt
      OBVIOUS
    <3>3. Orderly(c, j)'
      BY <2>1, <3>1, <3>2, OrderedPlan, FanStep
    <3> QED  BY <1>2, <3>1, <3>2, <3>3
  <2>2. CASE ~ClosesLast
    BY <1>1, <1>3, <2>2 DEF ClosesLast, Statements
  <2> QED  BY <2>1, <2>2
<1> QED  BY <1>1, <1>3 DEF Ordered

(* The channel of a program, as MonitoredChannel has it.                   *)
LEMMA ChannelOfProgram == FanSpec => [](TypeOK /\ FlagLeads)
BY ProgramsUseTheChannel, TypeCorrect, FlagLeadsTheChannel, PTL

LEMMA ProgramsAreOrdered == FanSpec => []Ordered
<1>1. FanInit => Ordered
  BY OrderedInit
<1>2. TypeOK /\ FlagLeads /\ Ordered /\ [FanNext]_allVars => Ordered'
  BY OrderedNext
<1> QED  BY <1>1, <1>2, ChannelOfProgram, PTL DEF FanSpec

(* ScopeJoinBeforeIndex: a channel that a program closes once, after its   *)
(* last spawn, is never closed under a sender, whatever its statements and *)
(* however many goroutines, whoever fails.                                 *)
THEOREM JoinGuardsTheClose == FanSpec => []NeverClosedUnderSender
<1>1. Ordered => NeverClosedUnderSender
  BY DEF Ordered, Orderly, NeverClosedUnderSender, RawPanic
<1> QED  BY <1>1, ProgramsAreOrdered, PTL
-----------------------------------------------------------------------------
(* Messages are received in the order they were sent, each once: got[g] is *)
(* how many of g's have been, and the buffer holds the ones that follow.   *)
Sent(g) == IF step[g] = "pending" THEN sends[g] - 1 ELSE sends[g]

BufferHolds ==
  /\ \A i \in DOMAIN buf : /\ got[buf[i][1]] < buf[i][2]
                           /\ buf[i][2] <= Sent(buf[i][1])
  /\ \A i, k \in DOMAIN buf : i < k /\ buf[i][1] = buf[k][1] => buf[i][2] < buf[k][2]
  /\ \A g \in Goroutine : \A n \in Nat :
       got[g] < n /\ n <= Sent(g) => \E i \in DOMAIN buf : buf[i] = <<g, n>>

Counted == /\ got \in [Goroutine -> Nat]
           /\ \A g \in Goroutine : got[g] <= Sent(g)
           /\ BufferHolds

(* The channel's types, as they are needed.                                *)
LEMMA Buffered ==
  ASSUME TypeOK
  PROVE  /\ DOMAIN buf = 1 .. Len(buf) /\ Len(buf) \in Nat
         /\ \A i \in DOMAIN buf : /\ buf[i][1] \in Goroutine /\ buf[i][2] \in Nat
                                  /\ buf[i] = <<buf[i][1], buf[i][2]>>
         /\ sends \in [Goroutine -> Nat] /\ capacity \in Nat
         /\ step \in [Goroutine -> {"idle", "pending", "marked", "receiving", "left"}]
         /\ \A g \in Goroutine : Sent(g) \in Int
<1>1. MaxSends \in Nat /\ Capacities \subseteq Nat
  BY MonitoredChannelAssumption
<1>2. sends \in [Goroutine -> Nat] /\ capacity \in Nat
  BY <1>1 DEF TypeOK
<1>3. buf \in Seq(Message)
  BY DEF TypeOK
<1>4. \A m \in Message : m[1] \in Goroutine /\ m[2] \in Nat /\ m = <<m[1], m[2]>>
  BY <1>1 DEF Message
<1> QED  BY <1>2, <1>3, <1>4 DEF TypeOK, Sent

(* A step that neither completes a send nor receives.                      *)
LEMMA SameCount ==
  ASSUME Counted, UNCHANGED <<buf, got>>, \A g \in Goroutine : Sent(g)' = Sent(g), TypeOK
  PROVE  Counted'
<1>1. \A i \in DOMAIN buf : buf[i][1] \in Goroutine
  BY Buffered
<1>2. \A g \in Goroutine : got'[g] = got[g]
  OBVIOUS
<1>3. BufferHolds'
  BY <1>1, <1>2 DEF Counted, BufferHolds
<1> QED  BY <1>2, <1>3 DEF Counted

LEMMA SendCounts ==
  ASSUME Counted, TypeOK, NEW g \in Goroutine, step[g] = "pending",
         step' = [step EXCEPT ![g] = "idle"], UNCHANGED <<sends, got>>,
         buf' = Append(buf, <<g, sends[g]>>)
  PROVE  Counted'
<1>1. \A h \in Goroutine : /\ h # g => Sent(h)' = Sent(h)
                           /\ h = g => Sent(h)' = Sent(h) + 1 /\ Sent(h)' = sends[g]
  BY Buffered DEF Sent
<1>2. PICK n \in Nat : n = Len(buf) /\ DOMAIN buf = 1 .. n
  BY Buffered
<1>3. /\ DOMAIN buf' = 1 .. (n + 1) /\ buf'[n + 1] = <<g, sends[g]>>
      /\ \A i \in 1 .. n : buf'[i] = buf[i]
  <2>1. PICK m : m = <<g, sends[g]>>
    OBVIOUS
  <2>2. buf \in Seq(Message) /\ buf' = Append(buf, m)
    BY <2>1 DEF TypeOK
  <2> QED  BY <1>2, <2>1, <2>2
<1>4. \A i \in 1 .. n : /\ buf[i][1] \in Goroutine /\ buf[i][2] \in Nat
                        /\ got[buf[i][1]] < buf[i][2] /\ buf[i][2] <= Sent(buf[i][1])
  BY <1>2, Buffered DEF Counted, BufferHolds
<1>5. /\ sends[g] \in Nat /\ Sent(g) = sends[g] - 1 /\ got[g] \in Nat /\ got[g] <= Sent(g)
      /\ \A h \in Goroutine : Sent(h) \in Int /\ got'[h] = got[h] /\ got[h] \in Nat
  BY Buffered DEF Sent, Counted
<1>6. \A h \in Goroutine : got'[h] <= Sent(h)'
  BY <1>1, <1>5 DEF Counted
<1>7. ASSUME NEW i \in DOMAIN buf', NEW h \in Goroutine, h = buf'[i][1]
      PROVE  got'[h] < buf'[i][2] /\ buf'[i][2] <= Sent(h)'
  <2>1. CASE i \in 1 .. n
    <3>1. h = buf[i][1] /\ buf'[i] = buf[i]
      BY <1>3, <1>7, <2>1
    <3>2. got[h] < buf[i][2] /\ buf[i][2] <= Sent(h) /\ buf[i][2] \in Nat
      BY <1>4, <2>1, <3>1
    <3>3. buf[i][2] <= Sent(h)'
      BY <1>1, <1>5, <3>2
    <3> QED  BY <1>5, <3>1, <3>2, <3>3
  <2>2. CASE i = n + 1
    <3>1. buf'[i] = <<g, sends[g]>> /\ h = g
      BY <1>3, <1>7, <2>2
    <3>2. got'[g] < sends[g] /\ sends[g] <= Sent(g)'
      BY <1>1, <1>5
    <3> QED  BY <3>1, <3>2
  <2> QED  BY <1>2, <1>3, <2>1, <2>2
<1>8. ASSUME NEW i \in DOMAIN buf', NEW k \in DOMAIN buf', i < k, buf'[i][1] = buf'[k][1]
      PROVE  buf'[i][2] < buf'[k][2]
  <2>0. i \in 1 .. n /\ buf'[i] = buf[i] /\ k \in 1 .. (n + 1)
    BY <1>2, <1>3, <1>8
  <2>1. CASE k \in 1 .. n
    <3>1. buf'[k] = buf[k]
      BY <1>3, <2>1
    <3> QED  BY <1>2, <1>8, <2>0, <2>1, <3>1 DEF Counted, BufferHolds
  <2>2. CASE k = n + 1
    <3>1. buf'[k] = <<g, sends[g]>> /\ buf[i][1] = g
      BY <1>3, <1>8, <2>0, <2>2
    <3>2. buf[i][2] <= Sent(g) /\ buf[i][2] \in Nat
      BY <1>4, <2>0, <3>1
    <3>3. buf'[k][2] = sends[g] /\ buf'[i][2] = buf[i][2]
      BY <2>0, <3>1
    <3>4. buf[i][2] < sends[g]
      BY <1>5, <3>2
    <3> QED  BY <3>3, <3>4
  <2> QED  BY <1>2, <2>0, <2>1, <2>2
<1>9. ASSUME NEW h \in Goroutine, NEW m \in Nat, got'[h] < m, m <= Sent(h)'
      PROVE  \E i \in DOMAIN buf' : buf'[i] = <<h, m>>
  <2>1. CASE m <= Sent(h)
    <3>1. PICK i \in DOMAIN buf : buf[i] = <<h, m>>
      BY <1>5, <1>9, <2>1 DEF Counted, BufferHolds
    <3>2. i \in 1 .. n /\ i \in DOMAIN buf' /\ buf'[i] = buf[i]
      BY <1>2, <1>3
    <3> QED  BY <3>1, <3>2
  <2>2. CASE ~(m <= Sent(h))
    <3>1. h = g /\ m = sends[g]
      BY <1>1, <1>5, <1>9, <2>2
    <3>2. n + 1 \in DOMAIN buf'
      BY <1>2, <1>3
    <3> QED  BY <1>3, <3>1, <3>2
  <2> QED  BY <2>1, <2>2
<1>10. BufferHolds'
  <2>1. \A i \in DOMAIN buf' : buf'[i][1] \in Goroutine
    BY <1>2, <1>3, <1>4
  <2>2. \A i \in DOMAIN buf' : \E h \in Goroutine :
          h = buf'[i][1] /\ got'[h] < buf'[i][2] /\ buf'[i][2] <= Sent(h)'
    BY <1>7, <2>1
  <2> QED  BY <1>8, <1>9, <2>2 DEF BufferHolds, Sent
<1> QED  BY <1>6, <1>10 DEF Counted

LEMMA ReceiveCounts ==
  ASSUME Counted, TypeOK, buf # <<>>, buf' = Tail(buf), \A g \in Goroutine : Sent(g)' = Sent(g),
         got' = [got EXCEPT ![Head(buf)[1]] = @ + 1]
  PROVE  Counted'
<1>1. PICK n \in Nat : n = Len(buf) /\ DOMAIN buf = 1 .. n /\ n >= 1
  BY Buffered DEF TypeOK
<1>2. DOMAIN buf' = 1 .. (n - 1) /\ \A i \in 1 .. (n - 1) : buf'[i] = buf[i + 1]
  BY <1>1 DEF TypeOK
<1>3. PICK s \in Goroutine : s = buf[1][1] /\ got' = [got EXCEPT ![s] = @ + 1]
  <2>1. Head(buf) = buf[1]
    BY <1>1 DEF TypeOK
  <2>2. PICK s \in Goroutine : s = buf[1][1]
    BY <1>1, Buffered
  <2>3. got' = [got EXCEPT ![s] = @ + 1]
    BY <2>1, <2>2
  <2> QED  BY <2>2, <2>3
<1>4. PICK k \in Nat : k = buf[1][2] /\ buf[1] = <<s, k>>
  BY <1>1, <1>3, Buffered
<1>5. got \in [Goroutine -> Nat] /\ got[s] < k /\ k <= Sent(s)
  BY <1>1, <1>3, <1>4 DEF Counted, BufferHolds
<1>6. k = got[s] + 1
  <2>1. CASE got[s] + 1 < k
    <3>1. PICK i \in DOMAIN buf : buf[i] = <<s, got[s] + 1>>
      BY <1>5, <2>1, Buffered DEF Counted, BufferHolds
    <3>2. i # 1
      BY <1>4, <2>1, <3>1
    <3>3. 1 < i /\ 1 \in DOMAIN buf
      BY <1>1, <3>2
    <3>4. buf[1][2] < buf[i][2]
      BY <1>3, <3>1, <3>3 DEF Counted, BufferHolds
    <3> QED  BY <1>4, <1>5, <2>1, <3>1, <3>4
  <2> QED  BY <1>5, <2>1
<1>7. /\ got' \in [Goroutine -> Nat] /\ got'[s] = k
      /\ \A g \in Goroutine : g # s => got'[g] = got[g]
  BY <1>3, <1>5, <1>6
<1>8. \A g \in Goroutine : got'[g] <= Sent(g)'
  BY <1>5, <1>7 DEF Counted
<1>9. ASSUME NEW i \in DOMAIN buf'
      PROVE  /\ i + 1 \in DOMAIN buf /\ i \in Nat /\ buf'[i] = buf[i + 1]
             /\ buf'[i][1] \in Goroutine /\ buf'[i][2] \in Nat
  <2>1. i + 1 \in DOMAIN buf /\ i \in Nat /\ buf'[i] = buf[i + 1]
    BY <1>1, <1>2
  <2> QED  BY <2>1, Buffered
<1>10. ASSUME NEW i \in DOMAIN buf', NEW h \in Goroutine, h = buf'[i][1]
       PROVE  got'[h] < buf'[i][2] /\ buf'[i][2] <= Sent(h)'
  <2>1. got[h] < buf'[i][2] /\ buf'[i][2] <= Sent(h)
    BY <1>9, <1>10 DEF Counted, BufferHolds
  <2>2. CASE h = s
    <3>1. 1 < i + 1 /\ 1 \in DOMAIN buf
      BY <1>1, <1>9
    <3>2. buf[1][2] < buf[i + 1][2]
      BY <1>3, <1>9, <1>10, <2>2, <3>1 DEF Counted, BufferHolds
    <3> QED  BY <1>4, <1>7, <1>9, <2>1, <2>2, <3>2
  <2> QED  BY <1>7, <2>1, <2>2
<1>11. ASSUME NEW i \in DOMAIN buf', NEW m \in DOMAIN buf', i < m, buf'[i][1] = buf'[m][1]
       PROVE  buf'[i][2] < buf'[m][2]
  <2>1. i + 1 < m + 1
    BY <1>9, <1>11
  <2> QED  BY <1>9, <1>11, <2>1 DEF Counted, BufferHolds
<1>12. ASSUME NEW h \in Goroutine, NEW m \in Nat, got'[h] < m, m <= Sent(h)'
       PROVE  \E i \in DOMAIN buf' : buf'[i] = <<h, m>>
  <2>1. got[h] < m /\ m <= Sent(h) /\ (h = s => m # k)
    BY <1>5, <1>7, <1>12
  <2>2. PICK i \in DOMAIN buf : buf[i] = <<h, m>>
    BY <2>1 DEF Counted, BufferHolds
  <2>3. i # 1
    <3>1. ASSUME i = 1  PROVE h = s /\ m = k
      <4>1. <<h, m>> = <<s, k>>
        BY <1>4, <2>2, <3>1
      <4> QED  BY <4>1
    <3> QED  BY <2>1, <3>1
  <2>4. i - 1 \in DOMAIN buf' /\ buf'[i - 1] = buf[i]
    BY <1>1, <1>2, <2>3
  <2> QED  BY <2>2, <2>4
<1>13. BufferHolds'
  <2>1. \A i \in DOMAIN buf' : \E h \in Goroutine :
          h = buf'[i][1] /\ got'[h] < buf'[i][2] /\ buf'[i][2] <= Sent(h)'
    BY <1>9, <1>10
  <2> QED  BY <1>11, <1>12, <2>1 DEF BufferHolds, Sent
<1> QED  BY <1>7, <1>8, <1>13 DEF Counted

LEMMA HandOffCounts ==
  ASSUME Counted, TypeOK, NEW g \in Goroutine, NEW r \in Goroutine, HandOff(g, r),
         got' = [got EXCEPT ![g] = @ + 1]
  PROVE  Counted'
<1>1. /\ step[g] = "pending" /\ step[r] = "receiving" /\ g # r /\ capacity = 0
      /\ step' = [step EXCEPT ![g] = "idle", ![r] = "idle"] /\ UNCHANGED <<buf, sends>>
  BY DEF HandOff
<1>2. DOMAIN buf = {}
  <2>1. Len(buf) = 0
    BY <1>1, Buffered DEF TypeOK
  <2> QED  BY <2>1, Buffered
<1>3. \A h \in Goroutine : /\ Sent(h) \in Int /\ (h # g => Sent(h)' = Sent(h))
                           /\ h = g => Sent(h)' = Sent(h) + 1
  BY <1>1, Buffered DEF Sent
<1>4. /\ got \in [Goroutine -> Nat] /\ \A h \in Goroutine : got[h] <= Sent(h)
      /\ \A h \in Goroutine : \A n \in Nat : got[h] < n => ~(n <= Sent(h))
  BY <1>2 DEF Counted, BufferHolds
<1>5. /\ got' \in [Goroutine -> Nat] /\ got'[g] = got[g] + 1
      /\ \A h \in Goroutine : h # g => got'[h] = got[h]
  BY <1>4
<1>6. \A h \in Goroutine : got'[h] <= Sent(h)'
  BY <1>3, <1>4, <1>5
<1>7. ASSUME NEW h \in Goroutine, NEW n \in Nat, got'[h] < n, n <= Sent(h)'  PROVE FALSE
  <2>1. CASE h # g
    BY <1>3, <1>4, <1>5, <1>7, <2>1
  <2>2. CASE h = g
    <3>1. n - 1 \in Nat /\ got[g] < n - 1 /\ n - 1 <= Sent(g)
      BY <1>3, <1>4, <1>5, <1>7, <2>2
    <3> QED  BY <1>4, <3>1
  <2> QED  BY <2>1, <2>2
<1>8. BufferHolds'
  BY <1>1, <1>2, <1>7 DEF BufferHolds, Sent
<1> QED  BY <1>5, <1>6, <1>8 DEF Counted

LEMMA CountedNext == TypeOK /\ Counted /\ [FanNext]_allVars => Counted'
<1> SUFFICES ASSUME TypeOK, Counted, [FanNext]_allVars PROVE Counted'
  OBVIOUS
<1>1. CASE UNCHANGED <<chanVars, got>>
  BY <1>1, SameCount DEF chanVars, Sent
<1>2. ASSUME NEW g \in Goroutine, Start(g)  PROVE Counted'
  <2>1. UNCHANGED <<buf, got>>
    BY <1>2 DEF Start, fanVars, CheckSend, BeginRecv, MarkClosed, Panic
  <2>2. step[g] = "idle" /\ \/ UNCHANGED <<step, sends>>
                            \/ /\ step' = [step EXCEPT ![g] = "pending"]
                               /\ sends' = [sends EXCEPT ![g] = @ + 1]
                            \/ /\ step' = [step EXCEPT ![g] = "receiving"] /\ UNCHANGED sends
                            \/ /\ step' = [step EXCEPT ![g] = "marked"] /\ UNCHANGED sends
    BY <1>2 DEF Start, CheckSend, BeginRecv, MarkClosed, Panic, Goto, Idle
  <2>3. \A h \in Goroutine : Sent(h)' = Sent(h)
    BY <2>2, Buffered DEF Sent
  <2> QED  BY <2>1, <2>3, SameCount
<1>3. ASSUME NEW g \in Goroutine, DoSend(g), Completes(g)  PROVE Counted'
  <2>1. step[g] = "pending"
    BY <1>3 DEF DoSend
  <2>2. UNCHANGED got
    BY <1>3, <2>1 DEF Completes, DoClose, EndRecv, fanVars
  <2>3. CASE Panic("send on closed channel")
    BY <2>2, <2>3, SameCount DEF Panic, Sent
  <2>4. CASE buf' = Append(buf, <<g, sends[g]>>) /\ Goto(g, "idle") /\ UNCHANGED sends
    BY <2>1, <2>2, <2>4, SendCounts DEF Goto
  <2> QED  BY <1>3, <2>3, <2>4 DEF DoSend
<1>4. ASSUME NEW g \in Goroutine, DoClose(g), Completes(g)  PROVE Counted'
  <2>1. step[g] = "marked" /\ UNCHANGED <<buf, sends>>
        /\ (UNCHANGED step \/ step' = [step EXCEPT ![g] = "idle"])
    BY <1>4 DEF DoClose, Goto, Panic
  <2>2. UNCHANGED got
    BY <1>4, <2>1 DEF Completes, DoSend, EndRecv
  <2>3. \A h \in Goroutine : Sent(h)' = Sent(h)
    BY <2>1, Buffered DEF Sent
  <2> QED  BY <2>1, <2>2, <2>3, SameCount
<1>5. ASSUME NEW g \in Goroutine, EndRecv(g), Completes(g)  PROVE Counted'
  <2>1. step[g] = "receiving" /\ step' = [step EXCEPT ![g] = "idle"] /\ UNCHANGED sends
    BY <1>5 DEF EndRecv, Goto
  <2>2. \A h \in Goroutine : Sent(h)' = Sent(h)
    BY <2>1, Buffered DEF Sent
  <2>3. CASE buf # <<>>
    <3>1. buf' = Tail(buf) /\ got' = [got EXCEPT ![Head(buf)[1]] = @ + 1]
      BY <1>5, <2>1, <2>3 DEF Completes, EndRecv, Take, DoSend, DoClose
    <3> QED  BY <2>2, <2>3, <3>1, ReceiveCounts
  <2>4. CASE buf = <<>>
    <3>1. UNCHANGED <<buf, got>>
      BY <1>5, <2>1, <2>4 DEF Completes, EndRecv, Take, DoSend, DoClose
    <3> QED  BY <2>2, <3>1, SameCount
  <2> QED  BY <2>3, <2>4
<1>6. ASSUME NEW g \in Goroutine, NEW r \in Goroutine, Meet(g, r)  PROVE Counted'
  BY <1>6, HandOffCounts DEF Meet
<1>7. ASSUME NEW t \in Block, Launch(t) \/ Fail(t)  PROVE UNCHANGED <<chanVars, got>>
  BY <1>7 DEF Launch, Fail
<1>8. Skip \/ Join \/ Return \/ UNCHANGED allVars => UNCHANGED <<chanVars, got>>
  BY DEF Skip, Join, Return, allVars, fanVars
<1>9. ASSUME NEW g \in Goroutine, Completes(g)  PROVE Counted'
  BY <1>3, <1>4, <1>5, <1>9 DEF Completes
<1> QED  BY <1>1, <1>2, <1>6, <1>7, <1>8, <1>9 DEF FanNext

LEMMA CountedInit == FanInit => Counted
BY MonitoredChannelAssumption DEF FanInit, Init, Counted, BufferHolds, Sent

LEMMA MessagesAreCounted == FanSpec => []Counted
<1>1. TypeOK /\ Counted /\ [FanNext]_allVars => Counted'
  BY CountedNext
<1> QED  BY <1>1, CountedInit, ChannelOfProgram, PTL DEF FanSpec

(* A program that has returned Ok has had its last join, and, if it has a  *)
(* drain, passed it.                                                       *)
LEMMA ReturnedAfterAll ==
  ASSUME TypeOK, FlagLeads, Ordered, Counted, ClosesLast, outcome = "ok",
         Count(Statements, "drain") > 0, NEW t \in Block
  PROVE  role[t] # "failed" /\ got[t] = sends[t]
<1>1. PICK c : c = Code
  OBVIOUS
<1>2. PICK j : j = JoinAt
  OBVIOUS
<1>3. FanInv(c, j)
  BY <1>1, <1>2, OrderedPlan
<1>4. pc = Len(c) + 1 /\ \A i \in DOMAIN c : i < pc
  BY <1>3, Places DEF FanInv, Orderly, Where
<1>5. \A u \in Block : role[u] \in {"none", "done"}
  BY <1>3, <1>4, Places DEF FanInv, Orderly, Joined
<1>6. PICK k \in DOMAIN Statements : Statements[k] = "drain"
  <2>1. {i \in DOMAIN Statements : Statements[i] = "drain"} # {}
    <3>1. Cardinality({}) = 0
      BY FS_EmptySet
    <3> QED  BY <3>1 DEF Count
  <2> QED  BY <2>1
<1>7. PICK d \in DOMAIN c : c[d] = "drain"
  BY <1>1, <1>6, Sources DEF Ordered
<1>8. closed /\ buf = <<>>
  BY <1>3, <1>4, <1>7 DEF FanInv, Orderly, Drained
<1>9. step[t] # "pending"
  BY <1>3, <1>5 DEF FanInv, Orderly, Where
<1>10. /\ got[t] <= sends[t] /\ got[t] \in Nat /\ sends[t] \in Nat
       /\ \A n \in Nat : got[t] < n => ~(n <= sends[t])
  <2>1. Sent(t) = sends[t] /\ t \in Goroutine /\ DOMAIN buf = {}
    BY <1>8, <1>9 DEF Sent, Block
  <2> QED  BY <2>1, Buffered DEF Counted, BufferHolds
<1> QED  BY <1>5, <1>10

(* codegen's join: a message is received at most once, and a program that  *)
(* has drained the channel it closed and returns Ok got every message of   *)
(* every block, none of which failed.                                      *)
THEOREM DrainCollects == FanSpec => []CollectedOnce
<1>1. TypeOK /\ FlagLeads /\ Ordered /\ Counted => CollectedOnce
  <2> SUFFICES ASSUME TypeOK, FlagLeads, Ordered, Counted PROVE CollectedOnce
    OBVIOUS
  <2>1. \A g \in Goroutine : got[g] <= sends[g]
    <3>1. ASSUME NEW g \in Goroutine  PROVE got[g] <= sends[g]
      <4>1. sends[g] \in Nat /\ got[g] \in Nat /\ got[g] <= Sent(g)
        BY Buffered DEF Counted
      <4> QED  BY <4>1 DEF Sent
    <3> QED  BY <3>1
  <2> QED  BY <2>1, ReturnedAfterAll DEF CollectedOnce, Failed
<1> QED  BY <1>1, ChannelOfProgram, ProgramsAreOrdered, MessagesAreCounted, PTL

=============================================================================
