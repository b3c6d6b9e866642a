--------------------------- MODULE ScopeContract ---------------------------
(***************************************************************************)
(* What a `scope` promises (docs/language-spec.md, "Join contract"): it    *)
(* gives no result before every block spawned in it has finished; its      *)
(* result is the first failure to arrive, and Ok only when no block failed; *)
(* its context is cancelled at that failure or at the join, not otherwise; *)
(* once it has a result nothing is spawned in it any more.  How a scope    *)
(* waits, counts and orders this is left open.                             *)
(***************************************************************************)
CONSTANTS Scope, Block, NoScope, NoBlock

VARIABLES
  owner,      \* owner[b]: the scope block b was spawned in
  ending,     \* ending[b]: "none" (not spawned), "running", "ok" or "err"
  first,      \* first[s]: the block whose error is the scope's
  cancelled,  \* the scopes whose own context has been cancelled
  result      \* result[s]: "open", "ok" or "err"

contractVars == <<owner, ending, first, cancelled, result>>

Init ==
  /\ owner = [b \in Block |-> NoScope]
  /\ ending = [b \in Block |-> "none"]
  /\ first = [s \in Scope |-> NoBlock]
  /\ cancelled = {}
  /\ result = [s \in Scope |-> "open"]

Spawn(b, s) ==
  /\ ending[b] = "none" /\ result[s] = "open"
  /\ owner' = [owner EXCEPT ![b] = s]
  /\ ending' = [ending EXCEPT ![b] = "running"]
  /\ UNCHANGED <<first, cancelled, result>>

Finish(b) ==
  /\ ending[b] = "running"
  /\ \E e \in {"ok", "err"} : ending' = [ending EXCEPT ![b] = e]
  /\ UNCHANGED <<owner, first, cancelled, result>>

(* A failure arrives at the scope: the first one is the scope's.           *)
Report(b) ==
  /\ ending[b] = "err"
  /\ first[owner[b]] = NoBlock /\ result[owner[b]] = "open"
  /\ first' = [first EXCEPT ![owner[b]] = b]
  /\ UNCHANGED <<owner, ending, cancelled, result>>

Cancel(s) ==
  /\ first[s] # NoBlock
  /\ cancelled' = cancelled \cup {s}
  /\ UNCHANGED <<owner, ending, first, result>>

Join(s) ==
  /\ result[s] = "open"
  /\ \A b \in Block : owner[b] = s =>
       \/ ending[b] = "ok"
       \/ ending[b] = "err" /\ first[s] # NoBlock
  /\ cancelled' = cancelled \cup {s}
  /\ result' = [result EXCEPT ![s] = IF first[s] = NoBlock THEN "ok" ELSE "err"]
  /\ UNCHANGED <<owner, ending, first>>

Next ==
  \/ \E b \in Block : Finish(b) \/ Report(b)
  \/ \E b \in Block, s \in Scope : Spawn(b, s)
  \/ \E s \in Scope : Cancel(s) \/ Join(s)

Spec == Init /\ [][Next]_contractVars
=============================================================================
