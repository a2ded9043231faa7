------------------------------ MODULE MCScratch ------------------------------
(* Instances of Scratch: musl_gcc is gcc of another set, so both are built in *)
(* directories of the same program.                                           *)
EXTENDS Scratch, TLC

CONSTANTS q1, q2

Pkgs == {"gcc", "musl_gcc", "jq"}
Progs == {"gcc-12.2.0", "jq-1.6"}
ProgMap == "gcc" :> "gcc-12.2.0" @@ "musl_gcc" :> "gcc-12.2.0" @@ "jq" :> "jq-1.6"
Roots == {"base", "dev"}

Of(r, s) == [root |-> r, pkgs |-> s]
\* the processes build different programs
JobsTwo == q1 :> {Of("base", <<"gcc", "musl_gcc">>)} @@ q2 :> {Of("dev", <<"jq">>)}
TwoProcs == {q1, q2}
=============================================================================
