---------------------------- MODULE MCContracts -----------------------------
(* What is emitted for contracts: either a program uses two contracted       *)
(* channels (ChannelRouting), or goroutines run the checks of contracted     *)
(* functions and methods (ValueContracts).                                   *)
EXTENDS ValueContracts, TLC

CONSTANTS Names, MaxChans, MaxCalls     \* ChannelRouting's

ASSUME BoundAssumption == {MaxChans, MaxCalls} \subseteq Nat \ {0}

(* The programs whose clauses call nothing, or the function or a method in   *)
(* one of them.                                                              *)
Quiet == [c \in Clause |-> "none"]
SomePrograms == {Quiet} \cup {[Quiet EXCEPT ![a[1]] = a[2]] :
                  a \in {<<"entry", "f">>, <<"requires", "f">>, <<"ensures", "m">>,
                         <<"loop", "f">>, <<"invariant", "f">>, <<"invariant", "m">>}}

VARIABLES mode, blocks, bound, verdict, frames, chans, monitor, states, fault

channels == <<mode, blocks, bound, verdict, frames, chans, monitor, states,
              fault>>

Routes == INSTANCE ChannelRouting

InitEither == Init /\ Routes!Init

NoCalls == Init /\ calls = Quiet
NoChannels == mode = "off" /\ bound = {} /\ verdict = "unchecked"
              /\ \A n \in Names : blocks[n] = {}

NextEither ==
  \/ NoChannels /\ Next /\ UNCHANGED channels
  \/ NoCalls /\ Routes!Next /\ UNCHANGED vars

SpecEither == InitEither /\ [][NextEither]_<<vars, channels>>

(* The two names of channels are interchangeable, and so are the goroutines. *)
Interchangeable == Permutations(Names) \cup Permutations(Caller)

(* A use through the channel's own name or a SendChan meets its contract's  *)
(* diagnostic, not Go's panic (ChannelRouting).                             *)
ContractReachesUses == Routes!ContractReachesUses

(* A diagnostic is true of the channel it is about (ChannelRouting).        *)
DiagnosticIsTrue == Routes!DiagnosticIsTrue
=============================================================================
