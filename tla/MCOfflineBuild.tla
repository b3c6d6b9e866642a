--------------------------- MODULE MCOfflineBuild ---------------------------
(* Two sources of Aril modules and one Go module, four versions (of two     *)
(* majors, one pre-release): a root of one or two dependencies, modules of at *)
(* most one; A may need B, and B may need A and bind the Go module.          *)
EXTENDS OfflineBuild

CONSTANTS A, B, G

On(s, cs) == {[source |-> s, cons |-> c] : c \in cs}
Declare(dss, bs) == {[deps |-> ds, binds |-> b] : ds \in dss, b \in bs}

Tags == <<Release(1, 0, 0), Release(1, 2, 0),
          [core |-> <<2, 0, 0>>, pre |-> << <<"word", 1>>, <<"num", 1>> >>],
          Release(2, 0, 0)>>

AnyWritten == {Spelled("caret", <<1>>, <<>>), Spelled("tilde", <<1, 0>>, <<>>),
               Spelled("tilde", <<1>>, <<>>), Spelled("wildcard", <<1>>, <<>>),
               Spelled("exact", <<1, 0, 0>>, <<>>),
               Compound({<<">=", Release(1, 0, 0)>>, <<"<=", Release(1, 2, 0)>>})}
Windows == {Window(c) : c \in AnyWritten}

RootDependencies ==
  LET a == On(A, Windows)
      wide == On(A, {Between(1, 3), Exact(1)})
      b == On(B, {Between(1, 2)})
      g == On(G, {Exact(1)})
  IN {<<d>> : d \in a} \cup (wide \X b) \cup (b \X g)

AllManifests ==
  [m \in {Root} \cup Module |->
     IF m = Root THEN Declare(RootDependencies, {NoVersion})
     ELSE IF m[1] = A THEN Declare({<<>>} \cup {<<d>> : d \in On(B, {Between(1, 2), Between(2, 3)})}, {NoVersion})
     ELSE IF m[1] = B THEN Declare({<<>>} \cup {<<d>> : d \in On(A, {Between(1, 3)})}, {NoVersion, 1})
     ELSE Declare({<<>>}, {NoVersion})]

\* The second major may have had a pre-release.
AllReleases == {[s \in Source |-> r] : r \in {Version, Version \ {3}}}

\* The project's main package imports up to two others, its package "pkg" and
\* the modules at most one.
AnyImports(pkg, m) ==
  LET externals == {External(i) : i \in DOMAIN m.deps}
      any == externals \cup {Local("main")} \cup (IF pkg[1] = Root THEN {Local("pkg")} ELSE {})
  IN  {<<>>} \cup {<<i>> : i \in any} \cup
      (IF pkg = Main THEN {p \in any \X any : p[1] # p[2]} ELSE {})
=============================================================================
