------------------------------- MODULE Releases -------------------------------
(* What the release store promises.  The releases of a package are numbered   *)
(* without gaps.  At most the newest one is open, that is, being built; it is *)
(* closed when its build ends, dropped without a trace when a step of the     *)
(* build fails, or left broken when the run just stops.  What is built or     *)
(* broken stays as it is for ever.                                            *)
EXTENDS Integers

CONSTANTS
  Pkg,     \* packages that are built, sub-packages left out
  MaxRel   \* the last release number

VARIABLE status

Rels == 0 .. MaxRel
Ended == {"built", "broken"}
States == {"none", "open"} \cup Ended

Init == status = [k \in Pkg |-> [n \in Rels |-> "none"]]

Become(k, n, s) == status' = [status EXCEPT ![k][n] = s]

\* createPkgDirs: the first number that is free, and only when no other
\* release of the package is open
Open(k, n) ==
  /\ status[k][n] = "none"
  /\ \A m \in 0 .. n - 1 : status[k][m] \in Ended
  /\ Become(k, n, "open")

\* the end of buildPkg
Close(k, n) == status[k][n] = "open" /\ Become(k, n, "built")

\* remNewPkg
Drop(k, n) == status[k][n] = "open" /\ Become(k, n, "none")

\* an exit without remNewPkg, or a kill
Break(k, n) == status[k][n] = "open" /\ Become(k, n, "broken")

Next ==
  \E k \in Pkg, n \in Rels : Open(k, n) \/ Close(k, n) \/ Drop(k, n) \/ Break(k, n)

Spec == Init /\ [][Next]_status
=============================================================================
