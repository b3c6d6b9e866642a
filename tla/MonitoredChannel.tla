-------------------------- MODULE MonitoredChannel --------------------------
(***************************************************************************)
(* One contracted channel: a Go channel and the monitor arilrt keeps       *)
(* beside it under --contracts=panic (arilrt/contract.go), used by any     *)
(* number of goroutines.  The monitor's flag and the channel's own state   *)
(* are two different things, read and written at different instants:       *)
(* ChanSend tests the flag under the monitor's mutex and sends after       *)
(* releasing it; ChanClose sets the flag, releases the mutex, then closes. *)
(*                                                                         *)
(* A message is the goroutine that sends it and how many it sent before.   *)
(* A panic is not recovered: it stops the program.                         *)
(***************************************************************************)
EXTENDS Integers, Sequences

CONSTANTS
  Goroutine,    \* the goroutines that hold the channel
  Owner,        \* the one whose frame created it and defers the drain check
  Capacities,   \* makeChannel's capacities, 0 for an unbuffered channel
  Contracts,    \* whether a contract has `forbid send after close`
  MaxSends      \* bound: sends of one goroutine

ASSUME MonitoredChannelAssumption ==
  /\ Owner \in Goroutine
  /\ Capacities \subseteq Nat
  /\ Contracts \subseteq BOOLEAN
  /\ MaxSends \in Nat

VARIABLES
  capacity,     \* the channel's capacity, fixed when it is made
  forbidSend,   \* chanContractState.forbidSendAfterClose, fixed as well
  buf,          \* the channel's buffer
  closed,       \* the channel is closed
  monClosed,    \* chanContractState.closed
  step,         \* step[g]: where g is in its operation on the channel
  sends,        \* sends[g]: sends that g has started
  last,         \* last[g]: what g's last receive returned
  fault         \* the panic that stopped the program, or "none"

config == <<capacity, forbidSend>>
chanVars == <<config, buf, closed, monClosed, step, sends, last, fault>>

Message == Goroutine \X (0..MaxSends)

Violation == {"E1202", "E1203", "E1207"}
RawPanic  == {"send on closed channel", "close of closed channel"}

TypeOK ==
  /\ capacity \in Capacities /\ forbidSend \in Contracts
  /\ buf \in Seq(Message) /\ Len(buf) <= capacity
  /\ closed \in BOOLEAN /\ monClosed \in BOOLEAN
  /\ step \in [Goroutine ->
                 {"idle", "pending", "marked", "receiving", "left"}]
  /\ sends \in [Goroutine -> 0..MaxSends]
  /\ last \in [Goroutine -> {"nothing", "none", "zero", "value"}]
  /\ fault \in {"none"} \cup Violation \cup RawPanic

(* The channel is made and registered (RegisterChan stores one state under *)
(* every directional view) before it leaves the creating frame.            *)
Init ==
  /\ capacity \in Capacities
  /\ forbidSend \in Contracts
  /\ buf = <<>>
  /\ closed = FALSE
  /\ monClosed = FALSE
  /\ step = [g \in Goroutine |-> "idle"]
  /\ sends = [g \in Goroutine |-> 0]
  /\ last = [g \in Goroutine |-> "nothing"]
  /\ fault = "none"

----------------------------------------------------------------------------
Idle(g) == fault = "none" /\ step[g] = "idle"

Goto(g, where) == step' = [step EXCEPT ![g] = where]

Panic(what) ==
  /\ fault' = what
  /\ UNCHANGED <<buf, closed, monClosed, step, sends, last>>

(* Mutant: the send is asserted against the channel's own state.           *)
CheckSendOnChannel(g) ==
  /\ Idle(g)
  /\ sends[g] < MaxSends
  /\ IF forbidSend /\ closed THEN Panic("E1203")
     ELSE /\ Goto(g, "pending")
          /\ sends' = [sends EXCEPT ![g] = @ + 1]
          /\ UNCHANGED <<buf, closed, monClosed, last, fault>>

(* ChanSend, the monitor's half: under the mutex, is the channel closed?   *)
CheckSend(g) ==
  /\ Idle(g)
  /\ sends[g] < MaxSends
  /\ IF forbidSend /\ monClosed THEN Panic("E1203")
     ELSE /\ Goto(g, "pending")
          /\ sends' = [sends EXCEPT ![g] = @ + 1]
          /\ UNCHANGED <<buf, closed, monClosed, last, fault>>

(* ChanSend, the channel's half, `ch <- v`: into the buffer ..             *)
DoSend(g) ==
  /\ fault = "none" /\ step[g] = "pending"
  /\ \/ /\ closed
        /\ Panic("send on closed channel")
     \/ /\ ~closed /\ Len(buf) < capacity
        /\ buf' = Append(buf, <<g, sends[g]>>)
        /\ Goto(g, "idle")
        /\ UNCHANGED <<closed, monClosed, sends, last, fault>>

(* .. or straight to a receiver that waits on an unbuffered channel.       *)
HandOff(g, r) ==
  /\ fault = "none" /\ step[g] = "pending" /\ step[r] = "receiving"
  /\ ~closed /\ capacity = 0
  /\ step' = [step EXCEPT ![g] = "idle", ![r] = "idle"]
  /\ last' = [last EXCEPT ![r] = "value"]
  /\ UNCHANGED <<buf, closed, monClosed, sends, fault>>

(* Mutant: the flag is tested, but recorded only after the close.          *)
MarkClosedLate(g) ==
  /\ Idle(g)
  /\ IF monClosed THEN Panic("E1202")
     ELSE /\ Goto(g, "marked")
          /\ UNCHANGED <<buf, closed, monClosed, sends, last, fault>>

(* ChanClose, the monitor's half: assert that the channel was not closed   *)
(* and record that it is, in one critical section.                         *)
MarkClosed(g) ==
  /\ Idle(g)
  /\ IF monClosed THEN Panic("E1202")
     ELSE /\ monClosed' = TRUE
          /\ Goto(g, "marked")
          /\ UNCHANGED <<buf, closed, sends, last, fault>>

(* Mutant: a contracted close records the event and forgets close(ch).     *)
DoCloseForgotten(g) ==
  /\ fault = "none" /\ step[g] = "marked"
  /\ Goto(g, "idle")
  /\ UNCHANGED <<buf, closed, monClosed, sends, last, fault>>

(* ChanClose, the channel's half: close(ch).                               *)
DoClose(g) ==
  /\ fault = "none" /\ step[g] = "marked"
  /\ IF closed THEN Panic("close of closed channel")
     ELSE /\ closed' = TRUE
          /\ Goto(g, "idle")
          /\ UNCHANGED <<buf, monClosed, sends, last, fault>>

----------------------------------------------------------------------------
(* ch.recv(), and each turn of `for v in ch`, blocks until a message is    *)
(* buffered (or handed off), or the channel is closed.                     *)
BeginRecv(g) ==
  /\ Idle(g)
  /\ Goto(g, "receiving")
  /\ UNCHANGED <<buf, closed, monClosed, sends, last, fault>>

Take(g) ==
  /\ buf # <<>>
  /\ buf' = Tail(buf)
  /\ last' = [last EXCEPT ![g] = "value"]

EndRecv(g) ==
  /\ fault = "none" /\ step[g] = "receiving"
  /\ \/ Take(g)
     \/ /\ buf = <<>> /\ closed
        /\ last' = [last EXCEPT ![g] = "zero"]
        /\ UNCHANGED buf
  /\ Goto(g, "idle")
  /\ UNCHANGED <<closed, monClosed, sends, fault>>

(* arilrt.TryRecv: a select whose receive case is ready when a message is  *)
(* buffered, a sender waits at it, or the channel is closed; a sender that *)
(* passed the monitor may not be at the channel yet, which gives None.     *)
TryRecv(g) ==
  /\ Idle(g)
  /\ \/ /\ Take(g)
        /\ UNCHANGED step
     \/ \E s \in Goroutine :
          /\ step[s] = "pending" /\ ~closed /\ capacity = 0
          /\ Goto(s, "idle")
          /\ last' = [last EXCEPT ![g] = "value"]
          /\ UNCHANGED buf
     \/ /\ buf = <<>> /\ closed
        /\ last' = [last EXCEPT ![g] = "zero"]
        /\ UNCHANGED <<buf, step>>
     \/ /\ buf = <<>> /\ ~closed
        /\ last' = [last EXCEPT ![g] = "none"]
        /\ UNCHANGED <<buf, step>>
  /\ UNCHANGED <<closed, monClosed, sends, fault>>

(* The owner's frame returns: the deferred ChanCheckDrained.               *)
CheckDrained ==
  /\ Idle(Owner)
  /\ IF ~monClosed THEN Panic("E1207")
     ELSE /\ Goto(Owner, "left")
          /\ UNCHANGED <<buf, closed, monClosed, sends, last, fault>>

----------------------------------------------------------------------------
Next ==
  /\ \/ \E g \in Goroutine :
          \/ CheckSend(g)
          \/ DoSend(g)
          \/ MarkClosed(g)
          \/ DoClose(g)
          \/ BeginRecv(g)
          \/ EndRecv(g)
          \/ TryRecv(g)
     \/ \E g, r \in Goroutine : HandOff(g, r)
     \/ CheckDrained
  /\ UNCHANGED config

Spec == Init /\ [][Next]_chanVars

(* An operation that has begun goes on when it can: the Go scheduler runs  *)
(* every goroutine that is not blocked.                                    *)
Fairness ==
  \A g \in Goroutine : /\ WF_chanVars(DoClose(g) /\ UNCHANGED config)
                        /\ WF_chanVars(DoSend(g) /\ UNCHANGED config)

FairSpec == Spec /\ Fairness

----------------------------------------------------------------------------
(* The monitor's flag is never behind the channel: whoever closes has      *)
(* recorded it first, and at most one goroutine is between the two halves  *)
(* of ChanClose, with the channel still open.                              *)
FlagLeads ==
  /\ closed => monClosed
  /\ \A g \in Goroutine : step[g] = "marked" => monClosed /\ ~closed
  /\ \A g, h \in Goroutine : step[g] = "marked" /\ step[h] = "marked" => g = h

(* A double close of a contracted channel, even a race of two closers, is  *)
(* E1202 and never Go's own panic.                                         *)
NeverClosedTwice == fault # "close of closed channel"

(* With `forbid send after close`, no send gets past the monitor once the  *)
(* close is recorded: the sends in flight can only become fewer, and what  *)
(* they add to the buffer ends with them.                                  *)
Pending == {g \in Goroutine : step[g] = "pending"}

NoSendStartsAfterClose ==
  [][forbidSend /\ monClosed => Pending' \subseteq Pending]_chanVars

(* A frame that passed its drain check leaves behind a channel that does   *)
(* get closed, although the flag it read is set before the close.          *)
DrainCheckIsHonest ==
  step[Owner] = "left" ~> (closed \/ fault # "none")

=============================================================================
