---------------------------- MODULE MCScopeFanIn ----------------------------
(* Every program of at most three statements in the body (four that begin  *)
(* with a spawn) and two after it.                                         *)
EXTENDS ScopeFanIn, TLC

CONSTANTS t1, t2, Main

Statement == {"produce", "feed", "consume", "nested", "send", "recv", "close", "drain"}

Bodies ==
  LET fits(b) == /\ Cardinality({i \in DOMAIN b : LaunchesSpawn(b[i])})
                      <= Cardinality(Block)
                 /\ Count(b, "send") <= 1
  IN  {b \in SeqOf(Statement, 3) \cup
             {<<"produce">> \o c : c \in SeqOf(Statement \ {"nested"}, 3)} :
         fits(b)}

Afters == {<<>>, <<"close">>, <<"drain">>, <<"close", "drain">>}

Programs == [body : Bodies, after : Afters, mayFail : BOOLEAN]

=============================================================================
