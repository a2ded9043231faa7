----------------------------- MODULE MCVersions -----------------------------
(* An instance of Versions: 1.9, 1.10, 2, 2.1 and, written with a zero, 2.02. *)
EXTENDS Versions

D(n) == [len |-> IF n < 10 THEN 1 ELSE 2, num |-> n]
Vers == {<<D(1), D(9)>>, <<D(1), D(10)>>, <<D(2)>>, <<D(2), D(1)>>, <<D(2), [len |-> 2, num |-> 2]>>}
Uses == {"base", "diff", "diff build"}
=============================================================================
