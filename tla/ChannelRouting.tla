--------------------------- MODULE ChannelRouting ---------------------------
(***************************************************************************)
(* Which operations on a channel the monitor of its contract gets to see.  *)
(*                                                                         *)
(* A contract names a channel by the name of a variable, anywhere in the   *)
(* program (sema/channel_contract.go).  The compiler registers the channel *)
(* where a `let` of that name makes it, and decides for each send and      *)
(* close, from the name and the type of the variable it goes through,      *)
(* whether to call the monitor or Go's own operation                       *)
(* (codegen/channel_contract.go).  What happens then depends on the        *)
(* channel the variable holds, which may have other names by now.          *)
(*                                                                         *)
(* A behaviour is one goroutine's run of one program, its statements       *)
(* chosen as it goes: channels are made, bound to other names, passed to   *)
(* functions as one of their directional views, sent on and closed.        *)
(* MonitoredChannel has the goroutines, on one channel.                    *)
(***************************************************************************)
EXTENDS Naturals, Sequences, SequencesExt, Functions

CONSTANTS Names,       \* the names of variables
          MaxChans,    \* bound: channels the program makes
          MaxCalls     \* bound: calls in progress

Views == {"Channel", "SendChan", "RecvChan"}

\* The clauses of a contract; "capacity" stands for those v1 does not enforce.
Contracts == SUBSET {"forbid-send-after-close", "drains"} \cup {{"capacity"}}

VARIABLES
  mode,       \* --contracts: "panic" or "off"
  blocks,     \* blocks[n]: the clauses of the `channel n { .. }` blocks
  bound,      \* the names of the program's channel-typed bindings
  verdict,    \* "unchecked", "running", "E1210", "rejected" or "panicked"
  frames,     \* the calls in progress: variables, and deferred drain checks
  chans,      \* the channels: how each was made, and whether it is closed
  monitor,    \* monitor[ch, view]: the state registered under that view
  states,     \* the chanContractStates: forbidSend, closed
  fault       \* the panic: what, on which channel, by what kind of use

chanProgram == <<mode, blocks, bound>>
chanRun == <<frames, chans, monitor, states>>
routingVars == <<chanProgram, verdict, chanRun, fault>>

NoFault == [what |-> "none"]
Frame(env) == [env |-> env, drains |-> <<>>]

Init ==
  /\ mode \in {"panic", "off"}
  /\ blocks \in [Names -> Contracts]
  /\ bound \in SUBSET Names
  /\ verdict = "unchecked"
  /\ frames = <<Frame(<<>>)>>
  /\ chans = <<>> /\ monitor = <<>> /\ states = <<>>
  /\ fault = NoFault

(* checkChannelDecl: E1210 for a block whose subject is not the name of a   *)
(* channel-typed binding of the program, in whichever function.             *)
Check ==
  /\ verdict = "unchecked"
  /\ verdict' = IF \A n \in Names : blocks[n] # {} => n \in bound
                THEN "running" ELSE "E1210"
  /\ UNCHANGED <<chanProgram, chanRun, fault>>

-----------------------------------------------------------------------------
(* What is emitted, from the name and the type of a variable. *)

ClausesOf(n) == IF mode = "panic" THEN blocks[n] ELSE {}

Enforced(n) ==
  ClausesOf(n) \cap {"forbid-send-after-close", "drains"} # {}

ForbidsSend(n) == "forbid-send-after-close" \in ClausesOf(n)

(* Mutant: a directional view is matched by its own name.                   *)
SendCheckedByName(n, view) == view # "RecvChan" /\ ForbidsSend(n)

(* chanSendChecked: a bidirectional variable goes by its own clauses; a     *)
(* SendChan has lost the name, so any contract that forbids sends counts.   *)
SendChecked(n, view) ==
  CASE view = "Channel"  -> ForbidsSend(n)
    [] view = "SendChan" -> \E s \in Names : ForbidsSend(s)

(* chanCloseChecked                                                         *)
CloseChecked(n, view) ==
  CASE view = "Channel"  -> Enforced(n)
    [] view = "SendChan" -> \E s \in Names : Enforced(s)

-----------------------------------------------------------------------------
Running == verdict = "running"
Env == frames[Len(frames)].env

(* chanContractOf                                                           *)
Registered(ch, view) == <<ch, view>> \in DOMAIN monitor
StateOf(ch, view) == states[monitor[ch, view]]

(* T-Chan-Widen: a Channel goes where a directional view is wanted.         *)
Widens(from, to) == from = to \/ from = "Channel"

(* What f says, and what g says of anything else.                           *)
Over(f, g) == [x \in DOMAIN f \cup DOMAIN g |->
                 IF x \in DOMAIN f THEN f[x] ELSE g[x]]

Variable(n, ch, view) == [x \in {n} |-> [ch |-> ch, view |-> view]]

Bind(n, ch, view, drains) ==
  frames' = [frames EXCEPT ![Len(frames)] =
    [env |-> Over(Variable(n, ch, view), Env),
     drains |-> drains \o @.drains]]

NewState(n) ==
  states' = Append(states, [forbidSend |-> ForbidsSend(n), closed |-> FALSE])

UnderViews(ch) == [v \in {ch} \X Views |-> Len(states')]

(* Mutant: registering a channel again starts its state afresh.             *)
RegisterAfresh(ch, n) == NewState(n) /\ monitor' = Over(UnderViews(ch), monitor)

(* RegisterChan: one state for the channel's three views; LoadOrStore keeps *)
(* the one that is there.                                                   *)
Register(ch, n) ==
  IF Registered(ch, "Channel") THEN UNCHANGED <<monitor, states>>
  ELSE NewState(n) /\ monitor' = Over(monitor, UnderViews(ch))

(* emitChannelContractReg, after the line of `let n: to = e`, for an e of   *)
(* the channel type `from`.  Go has no RegisterChan for a directional n;    *)
(* and outside of a function the call does not parse, by the compiler's own *)
(* format.Source.                                                           *)
LetReg(n, ch, from, to, top) ==
  IF ~Enforced(n) \/ from # "Channel"
  THEN Bind(n, ch, to, <<>>) /\ UNCHANGED <<verdict, monitor, states>>
  ELSE IF top \/ to # "Channel"
  THEN verdict' = "rejected" /\ UNCHANGED <<frames, monitor, states>>
  ELSE /\ Register(ch, n)
       /\ Bind(n, ch, to, IF "drains" \in ClausesOf(n) THEN <<ch>> ELSE <<>>)
       /\ UNCHANGED verdict

Fresh(n) == n \in bound \ DOMAIN Env

NewChan(n, how) ==
  /\ Running /\ Fresh(n) /\ Len(chans) < MaxChans
  /\ chans' = Append(chans, [name |-> n, made |-> how, state |-> "open"])

(* `let n: view = makeChannel(k)`, in a function or (top) outside: a        *)
(* channel with room for what is sent on it.                                *)
Make(n, view, top) ==
  /\ NewChan(n, "let")
  /\ top => Len(frames) = 1
  /\ LetReg(n, Len(chans'), "Channel", view, top)
  /\ UNCHANGED <<chanProgram, fault>>

(* `let n = try open()`: emitLetOrVar returns from its try branch, before   *)
(* the registration.                                                        *)
MakeTry(n) ==
  /\ NewChan(n, "try")
  /\ Bind(n, Len(chans'), "Channel", <<>>)
  /\ UNCHANGED <<chanProgram, verdict, monitor, states, fault>>

(* `let n: view = m`                                                        *)
Rebind(n, m, view) ==
  /\ Running /\ Fresh(n) /\ m \in DOMAIN Env
  /\ Widens(Env[m].view, view)
  /\ LetReg(n, Env[m].ch, Env[m].view, view, FALSE)
  /\ UNCHANGED <<chanProgram, chans, fault>>

(* A call of a function with a parameter n: view, passing m.                *)
Call(n, m, view) ==
  /\ Running /\ n \in bound /\ m \in DOMAIN Env /\ Len(frames) <= MaxCalls
  /\ Widens(Env[m].view, view)
  /\ frames' = Append(frames, Frame(Variable(n, Env[m].ch, view)))
  /\ UNCHANGED <<chanProgram, verdict, chans, monitor, states, fault>>

-----------------------------------------------------------------------------
Panic(what, ch, known) ==
  /\ verdict' = "panicked"
  /\ fault' = [what |-> what, ch |-> ch, known |-> known]
  /\ UNCHANGED chanRun

(* Of the channels whose deferred check is due, the one whose check is the  *)
(* first to panic (ChanCheckDrained; the last to be deferred runs first).   *)
Leaked == {i \in DOMAIN frames[Len(frames)].drains :
             LET ch == frames[Len(frames)].drains[i]
             IN  Registered(ch, "Channel") /\ ~StateOf(ch, "Channel").closed}

(* The call returns.                                                        *)
Return ==
  /\ Running
  /\ IF Leaked # {}
     THEN LET first == CHOOSE i \in Leaked : \A j \in Leaked : i <= j
          IN  Panic("E1207", frames[Len(frames)].drains[first], TRUE)
     ELSE /\ Len(frames) > 1
          /\ frames' = Front(frames)
          /\ UNCHANGED <<verdict, chans, monitor, states, fault>>
  /\ UNCHANGED chanProgram

(* Whether the compiler is meant to know the channel an operation is on by  *)
(* what it goes through: a variable with the name it was made under, or a   *)
(* SendChan.                                                                *)
Known(n, plain) ==
  plain /\ (Env[n].view = "SendChan" \/ n = chans[Env[n].ch].name)

Usable(n) == Running /\ n \in DOMAIN Env /\ Env[n].view # "RecvChan"

(* emitCall routes a send that is called on a variable; one on a field that *)
(* holds the channel, or in a case of a select, is Go's own (~plain).       *)
Send(n, plain) ==
  /\ Usable(n)
  /\ LET ch == Env[n].ch
         bad == /\ plain /\ SendChecked(n, Env[n].view)
                /\ Registered(ch, "SendChan")
                /\ StateOf(ch, "SendChan").forbidSend
                /\ StateOf(ch, "SendChan").closed
     IN  /\ bad \/ chans[ch].state # "open"
         /\ Panic(IF bad THEN "E1203" ELSE "send on closed channel",
                  ch, Known(n, plain))
  /\ UNCHANGED chanProgram

(* A close likewise; `state` says through what the channel was closed.      *)
Close(n, plain) ==
  /\ Usable(n)
  /\ LET ch == Env[n].ch
         seen == /\ plain /\ CloseChecked(n, Env[n].view)
                 /\ Registered(ch, "SendChan")
         bad == seen /\ StateOf(ch, "SendChan").closed
     IN  IF bad \/ chans[ch].state # "open"
         THEN Panic(IF bad THEN "E1202" ELSE "close of closed channel",
                    ch, Known(n, plain))
         ELSE /\ chans' = [chans EXCEPT ![ch].state =
                             IF Known(n, plain) THEN "closed" ELSE "elsewhere"]
              /\ states' = IF seen
                   THEN [states EXCEPT ![monitor[ch, "SendChan"]].closed = TRUE]
                   ELSE states
              /\ UNCHANGED <<verdict, frames, monitor, fault>>
  /\ UNCHANGED chanProgram

-----------------------------------------------------------------------------
Next ==
  \/ Check
  \/ \E n \in Names :
       \/ \E view \in Views, top \in BOOLEAN : Make(n, view, top)
       \/ MakeTry(n)
       \/ \E m \in Names, view \in Views : Rebind(n, m, view) \/ Call(n, m, view)
       \/ \E plain \in BOOLEAN : Send(n, plain) \/ Close(n, plain)
  \/ Return

Spec == Init /\ [][Next]_routingVars

-----------------------------------------------------------------------------
(* A channel made by a `let` of a contracted name never meets the panic its *)
(* contract replaces by a diagnostic, whichever functions it was passed to: *)
(* as long as it is sent on and closed through that name or through a       *)
(* SendChan.  (lang-spec/lowering-go.md:1342 leaves another bidirectional   *)
(* name out; a `let .. = try`, a field and a select are left out as well.)  *)
ContractReachesUses ==
  LET ch == chans[fault.ch] IN
  /\ fault.what = "send on closed channel" /\ fault.known
       => ~(ch.made = "let" /\ ch.state = "closed" /\ ForbidsSend(ch.name))
  /\ fault.what = "close of closed channel" /\ fault.known
       => ~(ch.made = "let" /\ ch.state = "closed" /\ Enforced(ch.name))

(* A diagnostic tells the truth of the channel it is about, also when a     *)
(* second name has registered the channel again: it was closed (E1202), it  *)
(* was and its contract forbids the send (E1203), it was not closed, or not *)
(* so that the monitor could know (E1207; a channel that was closed before  *)
(* a contracted name was bound to it is reported all the same).             *)
DiagnosticIsTrue ==
  LET ch == chans[fault.ch] IN
  /\ fault.what \in {"E1202", "E1203"} => ch.state # "open"
  /\ fault.what = "E1203" => \E n \in Names : ForbidsSend(n)
  /\ fault.what = "E1207" /\ ch.made = "let" /\ Enforced(ch.name)
       => ch.state # "closed"

=============================================================================
