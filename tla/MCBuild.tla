------------------------------- MODULE MCBuild -------------------------------
(* An instance of Build: two xx processes with different set files.  gcc has  *)
(* a sub-package whose files are given by one pattern, and is listed with it; *)
(* grep finds the pattern in the line of another file as well, as that of     *)
(* libstdc++ in the name of its gdb script.  bc is built by the other         *)
(* process; the line of a file that stays begins with its pattern, as         *)
(* /libexec does with /lib.                                                   *)
EXTENDS Build, TLC

CONSTANTS r1, r2, gcc, gccstd, bc, bclib, f1, f2

Runs == {r1, r2}
Pkgs == {gcc, gccstd, bc, bclib}
Files == {f1, f2}

Recipes == gcc :> {f1, f2} @@ bc :> {f1, f2} @@ gccstd :> {} @@ bclib :> {}
MovesOf ==
  gcc :> <<[sub |-> gccstd, files |-> {f2}, cut |-> {f2}, copied |-> {f1, f2}]>> @@
  bc :> <<[sub |-> bclib, files |-> {f1}, cut |-> {f1, f2}, copied |-> {f1, f2}]>> @@
  gccstd :> <<>> @@ bclib :> <<>>

\* every entry once; the sub-package is listed after its package
Sets == r1 :> {<<gcc, gccstd>>} @@ r2 :> {<<bc>>}

\* the recipes and set files of this instance meet the proofs' assumptions
ASSUME UseAssumption == Disjoint /\ KeepsAFile /\ PatternsApart /\ OnePattern
=============================================================================
