------------------------------- MODULE MCDeps -------------------------------
(* All graphs over four packages, two of which are versions of one package.   *)
(* The lists of dependencies are sorted by name.                              *)
EXTENDS Deps, FiniteSets, TLC

Pkgs == {"a", "b", "c1", "c2"}
Keys == "a" :> "a" @@ "b" :> "b" @@ "c1" :> "c" @@ "c2" :> "c"

Order == <<"a", "b", "c1", "c2">>
Sorted(S) == SelectSeq(Order, LAMBDA p : p \in S)
\* the run dependencies of a package come before those it has by its libraries
AllGraphs == [Pkgs -> {Sorted(S) : S \in SUBSET Pkgs} \cup {<<"c2", "a">>, <<"c1", "b">>}]
\* no package depends on itself
AllDeps == {g \in AllGraphs : \A p \in Pkgs : \A j \in DOMAIN g[p] : Keys[g[p][j]] # Keys[p]}
=============================================================================
