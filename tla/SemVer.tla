------------------------------- MODULE SemVer -------------------------------
(***************************************************************************)
(* Versions, their order, and the constraints a manifest spells            *)
(* (cmd/aril/version.go).                                                  *)
(*                                                                         *)
(* A version is its three numbers and its pre-release identifiers; one of  *)
(* these is <<"num", n>> or <<"word", r>>, r being the rank of the word.   *)
(* A constraint is spelled [form, parts, pre, terms]: a caret, tilde,      *)
(* wildcard or exact constraint has the one to three numbers written and   *)
(* the pre-release, a compound one its terms.                              *)
(***************************************************************************)
EXTENDS Naturals, Sequences

Release(x, y, z) == [core |-> <<x, y, z>>, pre |-> <<>>]

\* comparePre: numbers are below words; of two lists the one that goes on is
\* above.
IdBelow(x, y) == IF x[1] = y[1] THEN x[2] < y[2] ELSE x[1] = "num"
SameUpTo(s, t, n) == \A i \in 1..n : s[i] = t[i]
PreBelow(s, t) ==
  \/ Len(s) < Len(t) /\ SameUpTo(s, t, Len(s))
  \/ \E i \in DOMAIN s \cap DOMAIN t : SameUpTo(s, t, i - 1) /\ s[i] # t[i] /\ IdBelow(s[i], t[i])

CoreBelow(s, t) == \E i \in 1..3 : SameUpTo(s, t, i - 1) /\ s[i] < t[i]

\* semver.compare: a pre-release is below its release.
Below(v, w) ==
  IF v.core # w.core THEN CoreBelow(v.core, w.core)
  ELSE v.pre # <<>> /\ (w.pre = <<>> \/ PreBelow(v.pre, w.pre))

-----------------------------------------------------------------------------
\* parseSemverCore: numbers that are not written are zero.
Floor(c) == [core |-> [i \in 1..3 |-> IF i <= Len(c.parts) THEN c.parts[i] ELSE 0], pre |-> c.pre]

\* caretConstraint: up to the next breaking axis.
CaretCeiling(lo) ==
  CASE lo[1] > 0 -> Release(lo[1] + 1, 0, 0)
    [] lo[1] = 0 /\ lo[2] > 0 -> Release(0, lo[2] + 1, 0)
    [] OTHER -> Release(0, 0, lo[3] + 1)

\* tildeConstraint and wildcardConstraint: the last number written may drift,
\* of three the third.
DriftCeiling(c) == IF Len(c.parts) = 1 THEN Release(c.parts[1] + 1, 0, 0)
                   ELSE Release(c.parts[1], c.parts[2] + 1, 0)

\* Where a range ends.
Ceiling(c) == IF c.form = "caret" THEN CaretCeiling(Floor(c).core) ELSE DriftCeiling(c)

\* parseConstraint: the comparators, all of which a version has to satisfy.
Terms(c) ==
  CASE c.form \in {"caret", "tilde", "wildcard"} -> {<<">=", Floor(c)>>, <<"<", Ceiling(c)>>}
    [] c.form = "exact" -> {<<"=", Floor(c)>>}
    [] c.form = "compound" -> c.terms

Holds(term, v) ==
  CASE term[1] = ">=" -> ~Below(v, term[2])
    [] term[1] = ">"  -> Below(term[2], v)
    [] term[1] = "<=" -> ~Below(term[2], v)
    [] term[1] = "<"  -> Below(v, term[2])
    [] term[1] = "="  -> v = term[2]

Satisfies(c, v) == \A term \in Terms(c) : Holds(term, v)

Spelled(form, parts, pre) == [form |-> form, parts |-> parts, pre |-> pre, terms |-> {}]
Compound(terms) == [form |-> "compound", parts |-> <<>>, pre |-> <<>>, terms |-> terms]
=============================================================================
