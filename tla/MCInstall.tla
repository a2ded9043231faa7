------------------------------ MODULE MCInstall ------------------------------
(* An instance of Install: glibc is a dependency of bash and of mpv, mpv goes *)
(* to a container of its own.                                                 *)
EXTENDS Install

Glibc == [pkg |-> "glibc", ver |-> 1]
Bash == [pkg |-> "bash", ver |-> 1]
NewBash == [pkg |-> "bash", ver |-> 2]
Mpv == [pkg |-> "mpv", ver |-> 1]

InRoot(w, deps) == [want |-> w, loc |-> "/", deps |-> deps]
InCnt(w, deps) == [want |-> w, loc |-> "mpv", deps |-> deps]

\* dependencies are sorted by name and contain the package itself
Targets ==
  {<<InRoot(Bash, <<Bash, Glibc>>)>>,
   <<InRoot(NewBash, <<NewBash, Glibc>>)>>,
   <<InRoot(Glibc, <<Glibc>>), InCnt(Mpv, <<Glibc, Mpv>>)>>}

(* Only bash has a second version, and mpv only one release.                  *)
OneNewVersion ==
  /\ built["glibc"][2] = 0 /\ built["mpv"][2] = 0
  /\ built["mpv"][1] <= 1 /\ built["bash"][2] <= 1
=============================================================================
