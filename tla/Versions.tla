------------------------------ MODULE Versions ------------------------------
(* Which version and release of a package a run means: the latest recipe, the *)
(* previous version that `xx diff` shows, and the release that installBase    *)
(* takes when the latest recipe has not been built.                           *)
(*                                                                            *)
(* A package is resolved when the set file is parsed; other runs add recipes  *)
(* and releases before the answer is looked up.                               *)
EXTENDS Integers, FiniteSets, Sequences

CONSTANTS
  Width,   \* fields have at most this many digits (32, to which they are filled up)
  Ver,     \* versions: sequences of fields [len, num], a number and its digits
  Use,     \* what pkg is resolved for: "base", "diff", "diff build"
  MaxRel   \* bound: the number of releases of a version

Field == {f \in [len : 1 .. Width, num : Nat] : f.num < 10 ^ f.len}
ASSUME VersionsAssumption ==
  /\ Ver \subseteq Seq(Field)
  /\ \A v \in Ver : v # <<>>
  /\ IsFiniteSet(Ver)
  /\ Width \in Nat \ {0}
  /\ MaxRel \in Nat

\* what a power is, which the proofs have no other way to know
ASSUME PowersAssumption ==
  /\ 10 ^ 0 = 1
  /\ \A n \in 1 .. Width : 10 ^ n \in Nat /\ 10 ^ n = 10 * 10 ^ (n - 1)

VARIABLES
  ini,    \* the versions that have a recipe
  built,  \* built[v]: the number of releases of v, 0 .. built[v] - 1
  at,     \* "idle" or "resolved"
  use,    \* what for
  pkg     \* the version and release that were resolved

verVars == <<ini, built, at, use, pkg>>
None == [none |-> TRUE]

VerInit ==
  /\ ini = {}
  /\ built = [v \in Ver |-> 0]
  /\ at = "idle" /\ use \in Use /\ pkg = None
-----------------------------------------------------------------------------
\* mutant: the fields are compared as they are written, "10" before "9"
FieldLessPlain(f, g) ==
  LET first(h) == IF h.len = 2 THEN h.num \div 10 ELSE h.num
  IN first(f) < first(g) \/ (first(f) = first(g) /\ (f.len < g.len \/ (f.len = g.len /\ f.num < g.num)))

(* Versions are compared as strings whose fields are filled up to 32          *)
(* characters on the left: the longer field is the greater.                   *)
FieldLess(f, g) == f.len < g.len \/ (f.len = g.len /\ f.num < g.num)

Lexicographic(Less(_, _), v, w) ==
  \/ Len(v) < Len(w) /\ SubSeq(w, 1, Len(v)) = v
  \/ \E i \in DOMAIN v \cap DOMAIN w :
       /\ \A j \in 1 .. i - 1 : v[j] = w[j]
       /\ Less(v[i], w[i])
VerLess(v, w) == Lexicographic(FieldLess, v, w)
Greatest(S) == CHOOSE v \in S : \A w \in S \ {v} : VerLess(w, v)

\* getVer: the latest version that has a recipe
GetVer == Greatest(ini)

HasDirs == \E v \in Ver : built[v] > 0
Exists(v, n) == n < built[v]

\* mutant: the release is not looked for
PkgRelUnchecked(v, id) == id

\* getPkgRels: release id of a version, or 00 when it does not exist
PkgRel(v, id) == IF Exists(v, id) THEN id ELSE 0

\* getLastRel, when no release is asked for
LastRel(v) == IF built[v] = 0 THEN 0 ELSE built[v] - 1

\* getPkg
Resolve(v) == [ver |-> v, rel |-> PkgRel(v, LastRel(v))]

\* mutant: the answer is the last one of the list
SecondToLastNone == Greatest({v \in Ver : built[v] > 0})

(* getPkgPrevVer.  The list holds one version for every release; the answer   *)
(* is the one before the last.  getPkgRels then goes by the release in        *)
(* p.setVerRel, which is still that of pkg.                                   *)
SecondToLast ==
  LET last == Greatest({v \in Ver : built[v] > 0})
      rest == {v \in Ver : built[v] > 0} \ {last}
  IN IF built[last] > 1 \/ rest = {} THEN last ELSE Greatest(rest)
PkgPrevVer == [ver |-> SecondToLast, rel |-> PkgRel(SecondToLast, pkg.rel)]

\* getPkgPrev with --build: the release before, 00 has itself
PkgPrevRel == [ver |-> pkg.ver, rel |-> PkgRel(pkg.ver, IF pkg.rel = 0 THEN 0 ELSE pkg.rel - 1)]

\* installBase takes pkg as it is when it is built
Answer ==
  IF use = "diff build" THEN PkgPrevRel
  ELSE IF use = "base" /\ Exists(pkg.ver, pkg.rel) THEN pkg
  ELSE PkgPrevVer
-----------------------------------------------------------------------------
AddIni ==
  /\ \E v \in Ver \ ini : ini' = ini \cup {v}
  /\ UNCHANGED <<built, at, use, pkg>>

\* a build makes the next release of a version that has a recipe
Build ==
  /\ \E v \in ini : built[v] < MaxRel /\ built' = [built EXCEPT ![v] = @ + 1]
  /\ UNCHANGED <<ini, at, use, pkg>>

\* a set file names the latest version, or one of its own
GetPkg ==
  /\ at = "idle" /\ ini # {}
  /\ use' \in Use
  /\ \E v \in ini :
       /\ use' = "base" => v = GetVer
       /\ pkg' = Resolve(v)
  /\ at' = "resolved"
  /\ UNCHANGED <<ini, built>>

\* the diff is printed, or the base package copied; the run ends when there is no release
Answered ==
  /\ at = "resolved"
  /\ at' = "idle" /\ pkg' = None
  /\ UNCHANGED <<ini, built, use>>

VerNext == AddIni \/ Build \/ GetPkg \/ Answered

VerSpec == VerInit /\ [][VerNext]_verVars
-----------------------------------------------------------------------------
VerTypeOK ==
  /\ ini \subseteq Ver
  /\ built \in [Ver -> 0 .. MaxRel]
  /\ at \in {"idle", "resolved"}
  /\ use \in Use
  /\ at = "resolved" => pkg \in [ver : ini, rel : Nat]

NoZeros(v) == \A i \in DOMAIN v : v[i].len > 1 => v[i].num >= 10 ^ (v[i].len - 1)
Below(v, w) == LET Less(f, g) == f.num < g.num IN Lexicographic(Less, v, w)

(* The order of the padded strings is that of the numbers, field by field, as *)
(* long as no number is written with zeros in front: the version taken for    *)
(* the latest is the latest.                                                  *)
NewestIsNewest ==
  ini # {} => \A v \in ini \ {GetVer} :
    (\A w \in ini : NoZeros(w)) => Below(v, GetVer)

(* Whatever was built between, what is compared or copied into the base is a  *)
(* release that exists, as soon as anything has been built.                   *)
AnswerExists ==
  at = "resolved" /\ HasDirs /\ (use = "diff build" => built[pkg.ver] > 0) =>
    Exists(Answer.ver, Answer.rel)

(* xx diff of the latest built version, built once, shows the version before  *)
(* it ("default: previous version", xx/print.go:95).                          *)
PreviousVersion ==
  at = "resolved" /\ use = "diff" /\ built[pkg.ver] = 1 =>
    LET older == {v \in Ver : built[v] > 0 /\ VerLess(v, pkg.ver)}
    IN older # {} /\ (\A v \in Ver : VerLess(pkg.ver, v) => built[v] = 0)
       => Answer.ver = Greatest(older)

(* A base without a release of the latest recipe gets the latest release that *)
(* was built ("find the latest built pkg, don't build anything new",          *)
(* xx/build.go:62).                                                           *)
LatestBuilt ==
  at = "resolved" /\ use = "base" /\ HasDirs /\ ~Exists(pkg.ver, pkg.rel) =>
    LET last == Greatest({v \in Ver : built[v] > 0})
    IN Answer = [ver |-> last, rel |-> LastRel(last)]
=============================================================================
