------------------------ MODULE MCDependencyResolver ------------------------
(* Three sources and up to three versions: every root of one or two          *)
(* dependencies, and modules of at most one; A's manifests may need B or C,  *)
(* B's may need A or C and bind a Go module, C's need nothing.               *)
EXTENDS DependencyResolver

CONSTANTS A, B, C, k

On(s, cs) == {[source |-> s, cons |-> c] : c \in cs}
Floors  == {Between(v, MaxVersion) : v \in Version}
Capped  == Floors \cup {Between(1, 1), Exact(1), Exact(2)}
AnyOf     == Capped \cup {AtCommit(k)}

Declare(dss, bs) == {[deps |-> ds, binds |-> b] : ds \in dss, b \in bs}
AtMostOne(ds) == {<<>>} \cup {<<d>> : d \in ds}

RootDeps == LET ds == On(A, AnyOf) \cup On(B, Capped)
            IN {<<d>> : d \in ds} \cup {p \in ds \X ds : p[1].source # p[2].source}

AllManifests ==
  [m \in {Root} \cup Module |->
     IF m = Root THEN Declare(RootDeps, {NoVersion})
     ELSE IF m[1] = A THEN Declare(AtMostOne(On(B, Capped) \cup On(C, Capped)), {NoVersion})
     ELSE IF m[1] = B THEN Declare(AtMostOne(On(A, Floors) \cup On(C, Capped)), {NoVersion, 1, 2})
     ELSE Declare({<<>>}, {NoVersion})]

\* C may have been released from its second version on only.
AllReleases == {[s \in Source |-> IF s = C THEN r ELSE Version] : r \in {Version, Version \ {1}}}
=============================================================================
