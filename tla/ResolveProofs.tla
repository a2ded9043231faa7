--------------------------- MODULE ResolveProofs ----------------------------
(* Which packages a run means: the version and release it resolves (Versions) *)
(* and the packages those need at run time (Deps).                            *)
(*                                                                            *)
(* The order of versions is total, so a finite set of them has a greatest one *)
(* (by well-founded induction over its subsets); the properties of Versions   *)
(* follow from what the greatest one is.  The search for dependencies lists a *)
(* closed set, for every graph over every set of packages, however many of    *)
(* them are versions of one package.                                          *)
EXTENDS Deps, Versions, TLAPS, WellFoundedInduction, FiniteSetTheorems, SequenceTheorems

-----------------------------------------------------------------------------
(* Order. *)

LEMMA LeastNat ==
  ASSUME NEW T \in SUBSET Nat, T # {}
  PROVE  \E n \in T : \A m \in T : n <= m
<1> DEFINE R == OpToRel(<, Nat)
<1>1. IsWellFoundedOn(R, Nat)
  BY NatLessThanWellFounded
<1>2. PICK n \in T : \A m \in T : <<m, n>> \notin R
  BY <1>1, WFMin
<1>3. \A m \in T : ~ (m < n)
  BY <1>2 DEF OpToRel
<1> QED
  BY <1>3

\* v is before w at their first difference, field i of w
LessAt(v, w, i) ==
  /\ i \in 1 .. Len(w)
  /\ \A j \in 1 .. i - 1 : j \in 1 .. Len(v) /\ v[j] = w[j]
  /\ i = Len(v) + 1 \/ (i <= Len(v) /\ FieldLess(v[i], w[i]))

LEMMA LessHasPlace ==
  ASSUME NEW v \in Ver, NEW w \in Ver
  PROVE  VerLess(v, w) <=> \E i \in Nat : LessAt(v, w, i)
<1>1. v \in Seq(Field) /\ w \in Seq(Field)
  BY VersionsAssumption
<1>2. ASSUME Len(v) < Len(w), SubSeq(w, 1, Len(v)) = v
      PROVE  LessAt(v, w, Len(v) + 1)
  <2>1. \A j \in 1 .. Len(v) : v[j] = w[j]
    BY <1>1, <1>2
  <2> QED
    BY <1>1, <1>2, <2>1 DEF LessAt
<1>3. ASSUME NEW i \in DOMAIN v \cap DOMAIN w,
             \A j \in 1 .. i - 1 : v[j] = w[j], FieldLess(v[i], w[i])
      PROVE  LessAt(v, w, i)
  BY <1>1, <1>3 DEF LessAt
<1>4. ASSUME NEW i \in Nat, LessAt(v, w, i), i = Len(v) + 1
      PROVE  Len(v) < Len(w) /\ SubSeq(w, 1, Len(v)) = v
  <2>1. Len(v) \in Nat /\ Len(w) \in Nat /\ Len(v) < Len(w)
    BY <1>1, <1>4 DEF LessAt
  <2>2. \A j \in 1 .. Len(v) : v[j] = w[j]
    BY <1>1, <1>4 DEF LessAt
  <2>3. SubSeq(w, 1, Len(v)) = [j \in 1 .. Len(v) |-> w[j]]
    BY <1>1, <2>1
  <2>4. v = [j \in 1 .. Len(v) |-> v[j]]
    BY <1>1
  <2> QED
    BY <2>1, <2>2, <2>3, <2>4
<1>5. ASSUME NEW i \in Nat, LessAt(v, w, i), i # Len(v) + 1
      PROVE  /\ i \in DOMAIN v \cap DOMAIN w
             /\ \A j \in 1 .. i - 1 : v[j] = w[j]
             /\ FieldLess(v[i], w[i])
  BY <1>1, <1>5 DEF LessAt
<1>6. Len(v) + 1 \in Nat /\ DOMAIN v \subseteq Nat
  BY <1>1
<1>7. VerLess(v, w) => \E i \in Nat : LessAt(v, w, i)
  BY <1>2, <1>3, <1>6 DEF VerLess, Lexicographic
<1>8. (\E i \in Nat : LessAt(v, w, i)) => VerLess(v, w)
  BY <1>4, <1>5 DEF VerLess, Lexicographic
<1> QED
  BY <1>7, <1>8

LEMMA FieldOrder ==
  /\ \A f \in Field : ~FieldLess(f, f)
  /\ \A f, g, h \in Field : FieldLess(f, g) /\ FieldLess(g, h) => FieldLess(f, h)
  /\ \A f, g \in Field : f = g \/ FieldLess(f, g) \/ FieldLess(g, f)
<1>1. \A f \in Field : f \in [len : 1 .. Width, num : Nat]
  BY DEF Field
<1>2. Width \in Nat
  BY VersionsAssumption
<1> QED
  BY <1>1, <1>2 DEF FieldLess

LEMMA LessIsIrreflexive ==
  ASSUME NEW v \in Ver
  PROVE  ~VerLess(v, v)
<1>1. v \in Seq(Field)
  BY VersionsAssumption
<1>2. SUFFICES ASSUME NEW i \in Nat, LessAt(v, v, i) PROVE FALSE
  BY LessHasPlace
<1>3. i \in 1 .. Len(v) /\ FieldLess(v[i], v[i])
  BY <1>1, <1>2 DEF LessAt
<1> QED
  BY <1>1, <1>3, FieldOrder

LEMMA LessIsTransitive ==
  ASSUME NEW u \in Ver, NEW v \in Ver, NEW w \in Ver, VerLess(u, v), VerLess(v, w)
  PROVE  VerLess(u, w)
<1>1. u \in Seq(Field) /\ v \in Seq(Field) /\ w \in Seq(Field)
  BY VersionsAssumption
<1>2. PICK i \in Nat : LessAt(u, v, i)
  BY LessHasPlace
<1>3. PICK k \in Nat : LessAt(v, w, k)
  BY LessHasPlace
<1>4. CASE i < k
  <2>1. LessAt(u, w, i)
    BY <1>1, <1>2, <1>3, <1>4 DEF LessAt
  <2> QED
    BY <2>1, LessHasPlace
<1>5. CASE i = k
  <2>1. i <= Len(v) /\ FieldLess(v[i], w[i])
    BY <1>1, <1>2, <1>3, <1>5 DEF LessAt
  <2>2. i = Len(u) + 1 \/ (i <= Len(u) /\ FieldLess(u[i], w[i]))
    BY <1>1, <1>2, <1>3, <1>5, <2>1, FieldOrder DEF LessAt
  <2>3. LessAt(u, w, i)
    BY <1>1, <1>2, <1>3, <1>5, <2>2 DEF LessAt
  <2> QED
    BY <2>3, LessHasPlace
<1>6. CASE i > k
  <2>1. LessAt(u, w, k)
    BY <1>1, <1>2, <1>3, <1>6 DEF LessAt
  <2> QED
    BY <2>1, LessHasPlace
<1> QED
  BY <1>4, <1>5, <1>6

LEMMA LessIsTotal ==
  ASSUME NEW v \in Ver, NEW w \in Ver, v # w
  PROVE  VerLess(v, w) \/ VerLess(w, v)
<1>1. v \in Seq(Field) /\ w \in Seq(Field)
  BY VersionsAssumption
<1> DEFINE Differ(i) == i > Len(v) \/ i > Len(w) \/ v[i] # w[i]
           T == {i \in Nat : i >= 1 /\ (i <= Len(v) \/ i <= Len(w)) /\ Differ(i)}
<1>2. T # {}
  <2>1. SUFFICES ASSUME T = {} PROVE FALSE
    OBVIOUS
  <2>2. \A i \in Nat : i >= 1 /\ (i <= Len(v) \/ i <= Len(w)) => ~Differ(i)
    BY <2>1
  <2>3. Len(v) \in Nat /\ Len(w) \in Nat
    BY <1>1
  <2>4. Len(v) = Len(w)
    <3>1. CASE Len(v) < Len(w)
      BY <2>2, <2>3, <3>1
    <3>2. CASE Len(w) < Len(v)
      BY <2>2, <2>3, <3>2
    <3> QED
      BY <2>3, <3>1, <3>2
  <2>5. \A i \in 1 .. Len(v) : v[i] = w[i]
    BY <2>2, <2>3
  <2> QED
    BY <1>1, <2>4, <2>5
<1>3. PICK i \in T : \A m \in T : i <= m
  <2> HIDE DEF Differ
  <2> QED
    BY <1>2, LeastNat
<1>4. \A j \in 1 .. i - 1 : j \in 1 .. Len(v) /\ j \in 1 .. Len(w) /\ v[j] = w[j]
  BY <1>1, <1>3
<1>5. CASE i > Len(v)
  <2>1. LessAt(v, w, i)
    BY <1>1, <1>4, <1>5 DEF LessAt
  <2> QED
    BY <2>1, LessHasPlace
<1>6. CASE i > Len(w)
  <2>1. LessAt(w, v, i)
    BY <1>1, <1>4, <1>6 DEF LessAt
  <2> QED
    BY <2>1, LessHasPlace
<1>7. CASE i <= Len(v) /\ i <= Len(w)
  <2>1. v[i] \in Field /\ w[i] \in Field /\ v[i] # w[i]
    BY <1>1, <1>7
  <2>2. FieldLess(v[i], w[i]) \/ FieldLess(w[i], v[i])
    BY <2>1, FieldOrder
  <2>3. FieldLess(v[i], w[i]) => LessAt(v, w, i)
    BY <1>1, <1>4, <1>7 DEF LessAt
  <2>4. FieldLess(w[i], v[i]) => LessAt(w, v, i)
    BY <1>1, <1>4, <1>7 DEF LessAt
  <2> QED
    BY <2>2, <2>3, <2>4, LessHasPlace
<1> QED
  BY <1>1, <1>5, <1>6, <1>7

LEMMA HasGreatest ==
  ASSUME NEW S \in SUBSET Ver, S # {}
  PROVE  \E v \in S : \A w \in S \ {v} : VerLess(w, v)
<1> DEFINE Has(U) == \E v \in U : \A w \in U \ {v} : VerLess(w, v)
           T == {U \in SUBSET Ver : U # {} /\ ~Has(U)}
           R == StrictSubsetOrdering(Ver)
<1>1. SUFFICES ASSUME T # {} PROVE FALSE
  <2>1. T = {} => Has(S)
    BY Zenon
  <2> QED
    BY <2>1
<1>2. IsWellFoundedOn(R, SUBSET Ver)
  BY VersionsAssumption, FS_StrictSubsetOrderingWellFounded, FS_FiniteSubsetsOfFinite
<1>3. PICK U \in T : \A W \in T : <<W, U>> \notin R
  <2>1. T \subseteq SUBSET Ver
    BY Zenon
  <2> HIDE DEF T, R
  <2> QED
    BY <1>1, <1>2, <2>1, WFMin
<1>4. U \in SUBSET Ver /\ U # {} /\ ~Has(U)
  BY <1>3
<1>5. PICK x \in U : TRUE
  BY <1>4
<1>6. U \ {x} \notin T
  <2>1. <<U \ {x}, U>> \in R
    BY <1>4, <1>5 DEF StrictSubsetOrdering
  <2> QED
    BY <1>3, <2>1
<1>7. U \ {x} # {}
  BY <1>4, <1>5
<1>8. Has(U \ {x})
  BY <1>4, <1>6, <1>7
<1>9. PICK y \in U \ {x} : \A w \in (U \ {x}) \ {y} : VerLess(w, y)
  BY <1>8
<1>10. x \in Ver /\ y \in Ver /\ x # y
  BY <1>4, <1>5, <1>9
<1>11. CASE VerLess(x, y)
  BY <1>4, <1>9, <1>11
<1>12. CASE VerLess(y, x)
  <2>1. \A w \in U \ {x} : VerLess(w, x)
    <3> TAKE w \in U \ {x}
    <3>1. w = y \/ VerLess(w, y)
      BY <1>9
    <3>2. w \in Ver
      BY <1>4
    <3> QED
      BY <1>10, <1>12, <3>1, <3>2, LessIsTransitive
  <2> QED
    BY <1>4, <1>5, <2>1
<1> QED
  BY <1>10, <1>11, <1>12, LessIsTotal

\* Greatest(S) is in S, and above all others; nothing else is.
LEMMA GreatestIs ==
  ASSUME NEW S \in SUBSET Ver, S # {}
  PROVE  /\ Greatest(S) \in S
         /\ \A w \in S \ {Greatest(S)} : VerLess(w, Greatest(S))
  BY HasGreatest DEF Greatest

LEMMA GreatestIsOne ==
  ASSUME NEW S \in SUBSET Ver, NEW v \in S, \A w \in S \ {v} : VerLess(w, v)
  PROVE  Greatest(S) = v
<1>1. SUFFICES ASSUME Greatest(S) # v PROVE FALSE
  OBVIOUS
<1>2. Greatest(S) \in S /\ VerLess(v, Greatest(S)) /\ VerLess(Greatest(S), v)
  BY <1>1, GreatestIs
<1> QED
  BY <1>2, LessIsTransitive, LessIsIrreflexive

-----------------------------------------------------------------------------
(* Types. *)

LEMMA ReleaseIsNat ==
  ASSUME VerTypeOK, NEW v \in Ver, NEW id \in Nat
  PROVE  /\ PkgRel(v, id) \in Nat
         /\ LastRel(v) \in Nat
         /\ built[v] > 0 => Exists(v, PkgRel(v, id))
<1>1. built[v] \in Nat
  BY VersionsAssumption DEF VerTypeOK
<1> QED
  BY <1>1 DEF PkgRel, LastRel, Exists

LEMMA VerTypeInit == VerInit => VerTypeOK
  BY VersionsAssumption DEF VerInit, VerTypeOK

LEMMA VerTypeStep ==
  ASSUME VerTypeOK, [VerNext]_verVars
  PROVE  VerTypeOK'
<1>1. CASE AddIni
  BY <1>1 DEF VerTypeOK, AddIni
<1>2. CASE Build
  <2>1. PICK v \in ini : built[v] < MaxRel /\ built' = [built EXCEPT ![v] = @ + 1]
    BY <1>2 DEF Build
  <2>2. built' \in [Ver -> 0 .. MaxRel]
    BY <2>1, VersionsAssumption DEF VerTypeOK
  <2> QED
    BY <1>2, <2>2 DEF VerTypeOK, Build
<1>3. CASE GetPkg
  <2>1. PICK v \in ini : pkg' = Resolve(v)
    BY <1>3 DEF GetPkg
  <2>2. v \in Ver
    BY <2>1 DEF VerTypeOK
  <2>3. PkgRel(v, LastRel(v)) \in Nat
    BY <2>2, ReleaseIsNat
  <2>4. pkg' \in [ver : ini, rel : Nat]
    BY <2>1, <2>3 DEF Resolve
  <2> QED
    BY <1>3, <2>4 DEF VerTypeOK, GetPkg
<1>4. CASE Answered
  BY <1>4 DEF VerTypeOK, Answered
<1>5. CASE UNCHANGED verVars
  BY <1>5 DEF VerTypeOK, verVars
<1> QED
  BY <1>1, <1>2, <1>3, <1>4, <1>5 DEF VerNext

(* The variables have their types, and what is resolved is a version that has *)
(* a recipe.                                                                  *)
THEOREM VerTypeCorrect == VerSpec => []VerTypeOK
<1>1. VerInit => VerTypeOK
  BY VerTypeInit
<1>2. VerTypeOK /\ [VerNext]_verVars => VerTypeOK'
  BY VerTypeStep
<1> QED
  BY <1>1, <1>2, PTL DEF VerSpec
-----------------------------------------------------------------------------
(* The latest version (getVer, xx/cfg.go:20). *)

LEMMA PowersGrow ==
  ASSUME NEW m \in 0 .. Width, NEW n \in 0 .. Width, m <= n
  PROVE  10 ^ m \in Nat /\ 10 ^ m <= 10 ^ n
<1> DEFINE Grown(k) == 10 ^ k \in Nat /\ \A i \in 0 .. k : 10 ^ i \in Nat /\ 10 ^ i <= 10 ^ k
           T == {k \in 0 .. Width : ~Grown(k)}
<1>1. Width \in Nat
  BY VersionsAssumption
<1>2. SUFFICES ASSUME T # {} PROVE FALSE
  <2>1. T = {} => Grown(n)
    OBVIOUS
  <2> QED
    BY <1>1, <2>1
<1>3. PICK k \in T : \A i \in T : k <= i
  <2>1. T \in SUBSET Nat
    BY <1>1
  <2> HIDE DEF T
  <2> QED
    BY <1>2, <2>1, LeastNat
<1>4. CASE k = 0
  <2>1. Grown(0)
    BY PowersAssumption
  <2> QED
    BY <1>3, <1>4, <2>1
<1>5. CASE k > 0
  <2>1. k - 1 \in 0 .. Width /\ k \in 1 .. Width
    BY <1>1, <1>3, <1>5
  <2>2. Grown(k - 1)
    BY <1>3, <2>1
  <2>3. 10 ^ k \in Nat /\ 10 ^ k = 10 * 10 ^ (k - 1)
    BY <2>1, PowersAssumption
  <2>4. \A i \in 0 .. k : i = k \/ i \in 0 .. k - 1
    BY <2>1
  <2>5. 10 ^ (k - 1) \in Nat /\ \A i \in 0 .. k - 1 : 10 ^ i \in Nat /\ 10 ^ i <= 10 ^ (k - 1)
    BY <2>2
  <2>6. \A i \in 0 .. k : 10 ^ i \in Nat /\ 10 ^ i <= 10 ^ k
    BY <2>3, <2>4, <2>5
  <2> QED
    BY <1>3, <2>3, <2>6
<1> QED
  BY <1>1, <1>3, <1>4, <1>5

LEMMA PlainFields ==
  ASSUME NEW f \in Field, NEW g \in Field, FieldLess(f, g),
         g.len > 1 => g.num >= 10 ^ (g.len - 1)
  PROVE  f.num < g.num
<1>1. f.len \in 1 .. Width /\ g.len \in 1 .. Width /\ f.num \in Nat /\ g.num \in Nat /\ f.num < 10 ^ f.len
  BY DEF Field
<1>2. CASE f.len < g.len
  <2>1. f.len \in 0 .. Width /\ g.len - 1 \in 0 .. Width /\ f.len <= g.len - 1
    BY <1>1, <1>2, VersionsAssumption
  <2>2. 10 ^ f.len \in Nat /\ 10 ^ (g.len - 1) \in Nat /\ 10 ^ f.len <= 10 ^ (g.len - 1)
    BY <2>1, PowersGrow
  <2>3. g.num >= 10 ^ (g.len - 1)
    BY <1>1, <1>2
  <2> DEFINE a == 10 ^ f.len
             b == 10 ^ (g.len - 1)
  <2>4. a \in Nat /\ b \in Nat /\ a <= b /\ g.num >= b /\ f.num < a
    BY <1>1, <2>2, <2>3
  <2> HIDE DEF a, b
  <2> QED
    BY <1>1, <2>4
<1>3. CASE ~(f.len < g.len)
  BY <1>1, <1>3 DEF FieldLess
<1> QED
  BY <1>2, <1>3

LEMMA NewestByOrder ==
  ASSUME VerTypeOK
  PROVE  NewestIsNewest
<1>1. SUFFICES ASSUME ini # {}, NEW v \in ini \ {GetVer}, \A w \in ini : NoZeros(w)
               PROVE  Below(v, GetVer)
  BY DEF NewestIsNewest
<1> DEFINE g == GetVer
<1>2. g \in ini /\ VerLess(v, g)
  BY <1>1, GreatestIs DEF GetVer, VerTypeOK
<1>3. v \in Seq(Field) /\ g \in Seq(Field) /\ NoZeros(g)
  BY <1>1, <1>2, VersionsAssumption DEF VerTypeOK
<1> HIDE DEF g
<1>4. CASE Len(v) < Len(g) /\ SubSeq(g, 1, Len(v)) = v
  BY <1>4 DEF Below, Lexicographic, g
<1>5. ASSUME NEW i \in DOMAIN v \cap DOMAIN g,
             \A j \in 1 .. i - 1 : v[j] = g[j], FieldLess(v[i], g[i])
      PROVE  Below(v, GetVer)
  <2>1. v[i] \in Field /\ g[i] \in Field
    BY <1>3
  <2>2. v[i].num < g[i].num
    BY <1>3, <1>5, <2>1, PlainFields DEF NoZeros
  <2> QED
    BY <1>5, <2>2 DEF Below, Lexicographic, g
<1> QED
  BY <1>2, <1>4, <1>5 DEF VerLess, Lexicographic

(* getVer fills up the fields of a version and compares strings; the version  *)
(* that it takes for the latest has the greatest numbers, field by field.     *)
THEOREM LatestIsLatest == VerSpec => []NewestIsNewest
<1>1. VerTypeOK => NewestIsNewest
  BY NewestByOrder
<1> QED
  BY <1>1, VerTypeCorrect, PTL
-----------------------------------------------------------------------------
(* The previous version (getPkgPrevVer, xx/diff.go:79). *)

BuiltVers == {v \in Ver : built[v] > 0}

LEMMA SecondIsBuilt ==
  ASSUME VerTypeOK, HasDirs
  PROVE  SecondToLast \in BuiltVers
<1> DEFINE last == Greatest(BuiltVers)
           rest == BuiltVers \ {last}
<1>1. BuiltVers \in SUBSET Ver /\ BuiltVers # {}
  BY DEF BuiltVers, HasDirs
<1>2. last \in BuiltVers
  BY <1>1, GreatestIs
<1>3. rest # {} => Greatest(rest) \in rest
  BY <1>1, GreatestIs
<1>4. SecondToLast = IF built[last] > 1 \/ rest = {} THEN last ELSE Greatest(rest)
  BY DEF SecondToLast, BuiltVers
<1> QED
  BY <1>2, <1>3, <1>4

LEMMA AnswerIsThere ==
  ASSUME VerTypeOK
  PROVE  AnswerExists
<1>1. SUFFICES ASSUME at = "resolved", HasDirs, use = "diff build" => built[pkg.ver] > 0
               PROVE  Exists(Answer.ver, Answer.rel)
  BY DEF AnswerExists
<1>2. pkg \in [ver : ini, rel : Nat] /\ pkg.ver \in Ver /\ pkg.rel \in Nat
  BY <1>1 DEF VerTypeOK
<1>3. CASE use = "diff build"
  <2>1. (IF pkg.rel = 0 THEN 0 ELSE pkg.rel - 1) \in Nat
    BY <1>2
  <2>2. Exists(PkgPrevRel.ver, PkgPrevRel.rel)
    BY <1>1, <1>2, <1>3, <2>1, ReleaseIsNat DEF PkgPrevRel
  <2> QED
    BY <1>3, <2>2 DEF Answer
<1>4. CASE use = "base" /\ Exists(pkg.ver, pkg.rel)
  BY <1>4 DEF Answer
<1>5. CASE use # "diff build" /\ ~(use = "base" /\ Exists(pkg.ver, pkg.rel))
  <2>1. SecondToLast \in Ver /\ built[SecondToLast] > 0
    BY <1>1, SecondIsBuilt DEF BuiltVers
  <2>2. Exists(PkgPrevVer.ver, PkgPrevVer.rel)
    BY <1>2, <2>1, ReleaseIsNat DEF PkgPrevVer
  <2> QED
    BY <1>5, <2>2 DEF Answer
<1> QED
  BY <1>3, <1>4, <1>5

LEMMA PreviousIsGreatestOlder ==
  ASSUME VerTypeOK
  PROVE  PreviousVersion
<1> DEFINE older == {v \in Ver : built[v] > 0 /\ VerLess(v, pkg.ver)}
<1>1. SUFFICES ASSUME at = "resolved", use = "diff", built[pkg.ver] = 1, older # {},
                      \A v \in Ver : VerLess(pkg.ver, v) => built[v] = 0
               PROVE  Answer.ver = Greatest(older)
  BY DEF PreviousVersion
<1>2. pkg.ver \in Ver
  BY <1>1 DEF VerTypeOK
<1>3. \A v \in Ver : built[v] \in Nat
  BY VersionsAssumption DEF VerTypeOK
<1>4. pkg.ver \in BuiltVers
  BY <1>1, <1>2 DEF BuiltVers
<1>5. \A w \in BuiltVers \ {pkg.ver} : VerLess(w, pkg.ver)
  BY <1>1, <1>2, <1>3, LessIsTotal DEF BuiltVers
<1>6. Greatest(BuiltVers) = pkg.ver
  BY <1>4, <1>5, GreatestIsOne DEF BuiltVers
<1>7. BuiltVers \ {pkg.ver} = older
  BY <1>2, <1>5, LessIsIrreflexive DEF BuiltVers
<1>8. SecondToLast = Greatest(older)
  BY <1>1, <1>6, <1>7 DEF SecondToLast, BuiltVers
<1> QED
  BY <1>1, <1>8 DEF Answer, PkgPrevVer

(* What xx diff compares with, and what installBase copies, is a release that *)
(* exists, whatever other runs have built since the package was resolved.     *)
THEOREM AnswerIsBuilt == VerSpec => []AnswerExists
<1>1. VerTypeOK => AnswerExists
  BY AnswerIsThere
<1> QED
  BY <1>1, VerTypeCorrect, PTL

(* xx diff of the latest built version, built once, shows the greatest of the *)
(* versions before it.                                                        *)
THEOREM DiffShowsPrevious == VerSpec => []PreviousVersion
<1>1. VerTypeOK => PreviousVersion
  BY PreviousIsGreatestOlder
<1> QED
  BY <1>1, VerTypeCorrect, PTL
-----------------------------------------------------------------------------
(* The search for run dependencies (getAllRunDeps, xx/deps.go:15). *)

(* A list that grows keeps what it lists.                                     *)
LEMMA ListedGrows ==
  ASSUME NEW list \in Seq(Pkg), NEW e \in Pkg
  PROVE  /\ Listed(e, Append(list, e))
         /\ \A p \in Pkg : Listed(p, list) => Listed(p, Append(list, e))
         /\ Members(Append(list, e)) = Members(list) \cup {e}
<1>1. /\ Len(Append(list, e)) = Len(list) + 1 /\ Len(list) \in Nat
      /\ DOMAIN list = 1 .. Len(list)
      /\ DOMAIN Append(list, e) = 1 .. Len(list) + 1
      /\ \A j \in 1 .. Len(list) : Append(list, e)[j] = list[j]
      /\ Append(list, e)[Len(list) + 1] = e
  OBVIOUS
<1>2. Listed(e, Append(list, e))
  BY <1>1 DEF Listed
<1>3. ASSUME NEW p \in Pkg, Listed(p, list) PROVE Listed(p, Append(list, e))
  <2>1. PICK j \in 1 .. Len(list) : Key[list[j]] = Key[p]
    BY <1>1, <1>3 DEF Listed
  <2>2. j \in DOMAIN Append(list, e) /\ Append(list, e)[j] = list[j]
    BY <1>1
  <2>. QED  BY <2>1, <2>2 DEF Listed
<1>4. Members(Append(list, e)) = Members(list) \cup {e}
  <2>1. 1 .. Len(list) + 1 = (1 .. Len(list)) \cup {Len(list) + 1}
    BY <1>1
  <2>. QED  BY <1>1, <2>1 DEF Members
<1>. QED  BY <1>2, <1>3, <1>4

(* What the call that is running looks like.                                  *)
LEMMA RunningFacts ==
  ASSUME TypeOK, stack # <<>>
  PROVE  /\ Depth \in Nat \ {0} /\ DOMAIN stack = 1 .. Depth
         /\ Running \in Frame /\ Running.pkg \in Pkg /\ Running.pos \in Nat \ {0}
         /\ graph[Running.pkg] \in Seq(Pkg)
         /\ AtDep => Dep \in Pkg /\ Running.pos \in DOMAIN graph[Running.pkg]
<1>1. Depth \in Nat \ {0} /\ DOMAIN stack = 1 .. Depth
  BY DEF TypeOK, Depth
<1>2. Running \in Frame
  BY <1>1 DEF TypeOK, Running
<1>3. Running.pkg \in Pkg /\ Running.pos \in Nat \ {0}
  BY <1>2 DEF Frame
<1>4. graph[Running.pkg] \in Seq(Pkg)
  BY <1>3, DepsAssumption DEF TypeOK
<1>5. AtDep => Running.pos \in DOMAIN graph[Running.pkg]
  BY <1>3, <1>4 DEF AtDep
<1>6. AtDep => Dep \in Pkg
  BY <1>4, <1>5 DEF Dep
<1>. QED  BY <1>1, <1>2, <1>3, <1>4, <1>5, <1>6

LEMMA FrameFacts ==
  ASSUME TypeOK, NEW f \in DOMAIN stack
  PROVE  stack[f].pkg \in Pkg /\ graph[stack[f].pkg] \in Seq(Pkg)
<1>1. stack \in Seq(Frame)
  BY DEF TypeOK
<1>2. stack[f] \in Frame
  BY <1>1
<1>3. stack[f].pkg \in Pkg
  BY <1>2 DEF Frame
<1>. QED  BY <1>3, DepsAssumption DEF TypeOK

(* The stack after a call has moved on to its next dependency.                *)
LEMMA AdvancedFacts ==
  ASSUME TypeOK, stack # <<>>
  PROVE  /\ Advanced \in Seq(Frame) /\ Len(Advanced) = Depth
         /\ \A f \in 1 .. Depth : Advanced[f].pkg = stack[f].pkg
         /\ \A f \in 1 .. Depth : f # Depth => Advanced[f] = stack[f]
         /\ Advanced[Depth].pos = Running.pos + 1
<1>1. /\ Depth \in Nat \ {0} /\ DOMAIN stack = 1 .. Depth /\ stack \in Seq(Frame)
      /\ Running.pkg \in Pkg /\ Running.pos \in Nat \ {0}
  BY RunningFacts DEF TypeOK
<1> DEFINE frame == [pkg |-> Running.pkg, pos |-> Running.pos + 1]
<1>2. frame \in Frame
  BY <1>1 DEF Frame
<1>3. Advanced = [stack EXCEPT ![Depth] = frame]
  BY <1>1 DEF Advanced, Running
<1>4. frame.pkg = stack[Depth].pkg /\ frame.pos = Running.pos + 1
  BY DEF Running
<1> HIDE DEF frame
<1>5. Advanced \in Seq(Frame) /\ Len(Advanced) = Depth
  BY <1>1, <1>2, <1>3 DEF Depth
<1>6. \A f \in 1 .. Depth : Advanced[f] = IF f = Depth THEN frame ELSE stack[f]
  BY <1>1, <1>3
<1>. QED  BY <1>1, <1>4, <1>5, <1>6

(* The stack after the running call has returned.                             *)
LEMMA PoppedFacts ==
  ASSUME TypeOK, stack # <<>>
  PROVE  LET s == SubSeq(stack, 1, Depth - 1) IN
         /\ s \in Seq(Frame) /\ DOMAIN s = 1 .. Depth - 1
         /\ \A f \in 1 .. Depth - 1 : s[f] = stack[f]
         /\ s = <<>> <=> Depth = 1
<1>1. Depth \in Nat \ {0} /\ stack \in Seq(Frame)
  BY RunningFacts DEF TypeOK
<1>2. \A j \in 1 .. Depth - 1 : stack[j] \in Frame
  BY <1>1 DEF Depth
<1> DEFINE s == SubSeq(stack, 1, Depth - 1)
<1>3. /\ s \in Seq(Frame)
      /\ Len(s) = IF 1 <= Depth - 1 THEN (Depth - 1) - 1 + 1 ELSE 0
      /\ \A j \in 1 .. (Depth - 1) - 1 + 1 : s[j] = stack[1 + j - 1]
  <2>1. 1 \in Int /\ Depth - 1 \in Int
    BY <1>1
  <2>. QED  BY <1>2, <2>1, SubSeqProperties
<1> HIDE DEF s
<1>4. Len(s) = Depth - 1 /\ DOMAIN s = 1 .. Depth - 1
  BY <1>1, <1>3
<1>5. \A f \in 1 .. Depth - 1 : s[f] = stack[f]
  BY <1>1, <1>3
<1>6. s = <<>> <=> Depth = 1
  BY <1>1, <1>3, <1>4
<1>. QED  BY <1>3, <1>4, <1>5, <1>6 DEF s

LEMMA TypeInit == Init => TypeOK
<1>. SUFFICES ASSUME Init PROVE TypeOK
  OBVIOUS
<1>1. Call(top) \in Frame
  BY DEF Init, Call, Frame
<1>. QED  BY <1>1 DEF Init, TypeOK

LEMMA TypeNext == ASSUME TypeOK, [Next]_vars PROVE TypeOK'
<1>1. CASE Visit
  <2>1. stack # <<>> /\ Dep \in Pkg /\ res \in Seq(Pkg)
    BY <1>1, RunningFacts DEF Visit, AtDep, TypeOK
  <2>2. Call(Dep) \in Frame /\ Advanced \in Seq(Frame)
    BY <2>1, AdvancedFacts DEF Call, Frame
  <2>. QED  BY <1>1, <2>1, <2>2 DEF Visit, TypeOK
<1>2. CASE Skip
  <2>1. Advanced \in Seq(Frame)
    BY <1>2, AdvancedFacts DEF Skip, AtDep
  <2>. QED  BY <1>2, <2>1 DEF Skip, TypeOK
<1>3. CASE Return
  <2>1. stack # <<>> /\ Running.pkg \in Pkg /\ SubSeq(stack, 1, Depth - 1) \in Seq(Frame)
    BY <1>3, RunningFacts, PoppedFacts DEF Return
  <2>2. res' \in Seq(Pkg)
    BY <1>3, <2>1 DEF Return, TypeOK
  <2>. QED  BY <1>3, <2>1, <2>2 DEF Return, TypeOK
<1>4. CASE UNCHANGED vars
  BY <1>4 DEF vars, TypeOK
<1>. QED  BY <1>1, <1>2, <1>3, <1>4 DEF Next

THEOREM TypeCorrect == Spec => []TypeOK
<1>. QED  BY TypeInit, TypeNext, PTL DEF Spec
-----------------------------------------------------------------------------
(* What a step leaves: the list only grows, and only by packages that are     *)
(* dependencies of the running call, or its own.                              *)
LEMMA ListGrows ==
  ASSUME TypeOK, [Next]_vars
  PROVE  /\ graph' = graph /\ top' = top
         /\ \A p \in Pkg : Listed(p, res) => Listed(p, res')
<1>1. CASE Visit
  <2>1. Dep \in Pkg
    BY <1>1, RunningFacts DEF Visit, AtDep
  <2>. QED  BY <1>1, <2>1, ListedGrows DEF Visit, TypeOK
<1>2. CASE Skip \/ UNCHANGED vars
  BY <1>2 DEF Skip, vars
<1>3. CASE Return
  <2>1. Running.pkg \in Pkg
    BY <1>3, RunningFacts DEF Return
  <2>. QED  BY <1>3, <2>1, ListedGrows DEF Return, TypeOK
<1>. QED  BY <1>1, <1>2, <1>3 DEF Next

LEMMA DInvInit == Init => DInv
<1>. SUFFICES ASSUME Init PROVE DInv
  OBVIOUS
<1>1. TypeOK
  BY TypeInit
<1>2. stack = <<Call(top)>> /\ DOMAIN stack = {1} /\ stack[1] = Call(top) /\ stack # <<>>
  BY DEF Init
<1>3. stack[1].pkg = top /\ stack[1].pos = 1
  BY <1>2 DEF Call
<1>4. FramesListed
  <2>1. SUFFICES ASSUME NEW j \in DOMAIN graph[top], j < 1 PROVE FALSE
    BY <1>2, <1>3 DEF FramesListed
  <2>2. graph[top] \in Seq(Pkg)
    BY <1>1, DepsAssumption DEF TypeOK
  <2>. QED  BY <2>1, <2>2
<1>5. Members(res) = {}
  <2>1. DOMAIN res = {}
    BY DEF Init
  <2>. QED  BY <2>1 DEF Members
<1>. QED  BY <1>1, <1>2, <1>3, <1>4, <1>5 DEF DInv, PendingHasFrame, BottomIsTop

LEMMA VisitOrSkip ==
  ASSUME DInv, AtDep, graph' = graph, top' = top, Listed(Dep, res'),
         \A p \in Pkg : Listed(p, res) => Listed(p, res')
  PROVE  \A f \in 1 .. Depth : \A j \in DOMAIN graph[stack[f].pkg] :
           j < Advanced[f].pos => Listed(graph[stack[f].pkg][j], res')
<1>0. TypeOK /\ FramesListed /\ stack # <<>>
  BY DEF DInv, AtDep
<1>1. /\ Depth \in Nat \ {0} /\ DOMAIN stack = 1 .. Depth
      /\ Running.pos \in Nat \ {0}
  BY <1>0, RunningFacts
<1>2. SUFFICES ASSUME NEW f \in 1 .. Depth, NEW j \in DOMAIN graph[stack[f].pkg],
                      j < Advanced[f].pos
               PROVE  Listed(graph[stack[f].pkg][j], res')
  OBVIOUS
<1>3. f \in DOMAIN stack
  BY <1>1
<1>4. graph[stack[f].pkg] \in Seq(Pkg)
  BY <1>0, <1>3, FrameFacts
<1>5. graph[stack[f].pkg][j] \in Pkg /\ j \in Nat
  BY <1>4
<1>6. CASE j < stack[f].pos
  BY <1>0, <1>1, <1>5, <1>6 DEF FramesListed
<1>7. CASE ~(j < stack[f].pos)
  <2>1. f = Depth
    BY <1>0, <1>2, <1>7, AdvancedFacts
  <2>2. j < Running.pos + 1 /\ ~(j < Running.pos)
    BY <1>0, <1>2, <1>7, <2>1, AdvancedFacts DEF Running
  <2>3. j = Running.pos
    BY <1>1, <1>5, <2>2
  <2>. QED  BY <2>1, <2>3 DEF Dep, Running
<1>. QED  BY <1>6, <1>7

LEMMA DInvNext == ASSUME DInv, [Next]_vars PROVE DInv'
<1>0. TypeOK /\ FramesListed /\ PendingHasFrame /\ BottomIsTop
  BY DEF DInv
<1>1. TypeOK'
  BY <1>0, TypeNext
<1>2. /\ graph' = graph /\ top' = top
      /\ \A p \in Pkg : Listed(p, res) => Listed(p, res')
  BY <1>0, ListGrows
<1>3. \A p \in Pkg : DepsListed(p) => DepsListed(p)'
  <2>1. SUFFICES ASSUME NEW p \in Pkg, DepsListed(p), NEW j \in DOMAIN graph[p]
                 PROVE  Listed(graph[p][j], res')
    BY <1>2 DEF DepsListed
  <2>2. graph[p] \in Seq(Pkg)
    BY <1>0, DepsAssumption DEF TypeOK
  <2>3. graph[p][j] \in Pkg
    BY <2>1, <2>2
  <2>. QED  BY <1>2, <2>1, <2>3 DEF DepsListed
<1>4. Members(res) \subseteq Pkg /\ top \in Pkg
  BY <1>0 DEF TypeOK, Members
<1>5. CASE Visit
  <2>1. /\ AtDep /\ stack # <<>> /\ Dep \in Pkg
        /\ res' = Append(res, Dep) /\ stack' = Append(Advanced, Call(Dep))
    BY <1>0, <1>5, RunningFacts DEF Visit, AtDep
  <2>2. /\ Depth \in Nat \ {0} /\ DOMAIN stack = 1 .. Depth
        /\ Advanced \in Seq(Frame) /\ Len(Advanced) = Depth
    BY <1>0, <2>1, RunningFacts, AdvancedFacts
  <2>3. /\ DOMAIN stack' = 1 .. Depth + 1 /\ stack' # <<>>
        /\ \A f \in 1 .. Depth : stack'[f] = Advanced[f]
        /\ stack'[Depth + 1] = Call(Dep)
    BY <2>1, <2>2
  <2>4. Listed(Dep, res') /\ Members(res') = Members(res) \cup {Dep}
    BY <1>0, <2>1, ListedGrows DEF TypeOK
  <2>5. \A f \in 1 .. Depth : stack'[f].pkg = stack[f].pkg
    BY <1>0, <2>1, <2>3, AdvancedFacts
  <2>6. FramesListed'
    <3>1. SUFFICES ASSUME NEW f \in 1 .. Depth + 1, NEW j \in DOMAIN graph[stack'[f].pkg],
                          j < stack'[f].pos
                   PROVE  Listed(graph[stack'[f].pkg][j], res')
      BY <1>2, <2>3 DEF FramesListed
    <3>2. CASE f \in 1 .. Depth
      BY <1>2, <2>1, <2>3, <2>4, <2>5, <3>1, <3>2, VisitOrSkip
    <3>3. CASE f = Depth + 1
      <4>1. stack'[f].pkg = Dep /\ j < 1
        BY <2>3, <3>1, <3>3 DEF Call
      <4>2. graph[Dep] \in Seq(Pkg)
        BY <1>0, <2>1, DepsAssumption DEF TypeOK
      <4>. QED  BY <3>1, <4>1, <4>2
    <3>. QED  BY <2>2, <3>1, <3>2, <3>3
  <2>7. PendingHasFrame'
    <3>1. SUFFICES ASSUME NEW p \in Members(res) \cup {Dep, top}
                   PROVE  DepsListed(p)' \/ \E f \in DOMAIN stack' : stack'[f].pkg = p
      BY <1>2, <2>4 DEF PendingHasFrame
    <3>2. CASE p = Dep
      <4>1. Depth + 1 \in DOMAIN stack' /\ stack'[Depth + 1].pkg = Dep
        BY <2>2, <2>3 DEF Call
      <4>. QED  BY <3>2, <4>1
    <3>3. CASE p \in Members(res) \cup {top}
      <4>1. CASE DepsListed(p)
        BY <1>3, <1>4, <3>3, <4>1
      <4>2. CASE \E f \in 1 .. Depth : stack[f].pkg = p
        <5>1. PICK f \in 1 .. Depth : stack[f].pkg = p
          BY <4>2
        <5>2. f \in DOMAIN stack' /\ stack'[f].pkg = p
          BY <2>2, <2>3, <2>5, <5>1
        <5>. QED  BY <5>2
      <4>. QED  BY <1>0, <2>2, <3>3, <4>1, <4>2 DEF PendingHasFrame
    <3>. QED  BY <3>1, <3>2, <3>3
  <2>8. BottomIsTop'
    BY <1>0, <1>2, <2>1, <2>2, <2>3, <2>5 DEF BottomIsTop
  <2>. QED  BY <1>1, <2>6, <2>7, <2>8 DEF DInv
<1>6. CASE Skip
  <2>1. AtDep /\ stack # <<>> /\ res' = res /\ stack' = Advanced /\ Listed(Dep, res')
    BY <1>6 DEF Skip, AtDep
  <2>2. /\ Depth \in Nat \ {0} /\ DOMAIN stack = 1 .. Depth
        /\ DOMAIN stack' = 1 .. Depth /\ stack' # <<>>
    BY <1>0, <2>1, RunningFacts, AdvancedFacts
  <2>3. \A f \in 1 .. Depth : stack'[f].pkg = stack[f].pkg
    BY <1>0, <2>1, AdvancedFacts
  <2>4. FramesListed'
    BY <1>2, <2>1, <2>2, <2>3, VisitOrSkip DEF FramesListed
  <2>5. PendingHasFrame'
    BY <1>0, <1>2, <2>1, <2>2, <2>3 DEF PendingHasFrame, DepsListed
  <2>6. BottomIsTop'
    BY <1>0, <1>2, <2>1, <2>2, <2>3 DEF BottomIsTop
  <2>. QED  BY <1>1, <2>4, <2>5, <2>6 DEF DInv
<1>7. CASE Return
  <2>1. /\ stack # <<>> /\ ~AtDep /\ Running.pkg \in Pkg
        /\ stack' = SubSeq(stack, 1, Depth - 1)
        /\ res' = IF Listed(Running.pkg, res) THEN res ELSE Append(res, Running.pkg)
    BY <1>0, <1>7, RunningFacts DEF Return
  <2>2. /\ Depth \in Nat \ {0} /\ DOMAIN stack = 1 .. Depth
        /\ DOMAIN stack' = 1 .. Depth - 1 /\ (stack' = <<>> <=> Depth = 1)
        /\ \A f \in 1 .. Depth - 1 : stack'[f] = stack[f]
    BY <1>0, <2>1, RunningFacts, PoppedFacts
  <2>3. Listed(Running.pkg, res') /\ Members(res') \subseteq Members(res) \cup {Running.pkg}
    BY <1>0, <2>1, ListedGrows DEF TypeOK
  <2>4. DepsListed(Running.pkg)
    <3>1. graph[Running.pkg] \in Seq(Pkg) /\ Running.pos \in Nat
          /\ ~(Running.pos <= Len(graph[Running.pkg]))
      BY <1>0, <2>1, RunningFacts DEF AtDep
    <3>2. \A j \in DOMAIN graph[Running.pkg] : j < stack[Depth].pos
      BY <3>1 DEF Running
    <3>. QED  BY <1>0, <2>2, <3>2 DEF FramesListed, DepsListed, Running
  <2>5. FramesListed'
    <3>1. SUFFICES ASSUME NEW f \in 1 .. Depth - 1, NEW j \in DOMAIN graph[stack[f].pkg],
                          j < stack[f].pos
                   PROVE  Listed(graph[stack[f].pkg][j], res')
      BY <1>2, <2>2 DEF FramesListed
    <3>2. f \in DOMAIN stack
      BY <2>2
    <3>4. graph[stack[f].pkg] \in Seq(Pkg)
      BY <1>0, <3>2, FrameFacts
    <3>5. graph[stack[f].pkg][j] \in Pkg
      BY <3>1, <3>4
    <3>. QED  BY <1>0, <1>2, <3>1, <3>2, <3>5 DEF FramesListed
  <2>6. PendingHasFrame'
    <3>1. SUFFICES ASSUME NEW p \in Members(res) \cup {Running.pkg, top}
                   PROVE  DepsListed(p)' \/ \E f \in DOMAIN stack' : stack'[f].pkg = p
      BY <1>2, <2>3 DEF PendingHasFrame
    <3>2. CASE DepsListed(p)
      BY <1>3, <1>4, <2>1, <3>1, <3>2
    <3>3. CASE ~DepsListed(p)
      <4>1. p # Running.pkg /\ p \in Members(res) \cup {top}
        BY <2>4, <3>1, <3>3
      <4>2. PICK f \in 1 .. Depth : stack[f].pkg = p
        BY <1>0, <2>2, <3>3, <4>1 DEF PendingHasFrame
      <4>3. f \in 1 .. Depth - 1
        BY <2>2, <4>1, <4>2 DEF Running
      <4>4. f \in DOMAIN stack' /\ stack'[f].pkg = p
        BY <2>2, <4>2, <4>3
      <4>. QED  BY <4>4
    <3>. QED  BY <3>2, <3>3
  <2>7. BottomIsTop'
    <3>1. stack[1].pkg = top
      BY <1>0, <2>1 DEF BottomIsTop
    <3>2. CASE Depth = 1
      BY <1>2, <2>2, <2>3, <3>1, <3>2 DEF BottomIsTop, Running
    <3>3. CASE Depth # 1
      <4>1. 1 \in 1 .. Depth - 1
        BY <2>2, <3>3
      <4>. QED  BY <1>2, <2>2, <3>1, <3>3, <4>1 DEF BottomIsTop
    <3>. QED  BY <3>2, <3>3
  <2>. QED  BY <1>1, <2>5, <2>6, <2>7 DEF DInv
<1>8. CASE UNCHANGED vars
  <2>1. graph' = graph /\ top' = top /\ res' = res /\ stack' = stack
    BY <1>8 DEF vars
  <2>. QED
    BY <1>0, <1>1, <2>1 DEF DInv, FramesListed, PendingHasFrame, DepsListed, BottomIsTop
<1>. QED  BY <1>5, <1>6, <1>7, <1>8 DEF Next

(* The invariant of the search: what a call has passed is listed, and what is *)
(* listed and lacks a dependency has a call that is still running.            *)
THEOREM DInvAlways == Spec => []DInv
<1>. QED  BY DInvInit, DInvNext, PTL DEF Spec

LEMMA DInvImpliesClosed == DInv => ListIsClosed
<1>1. SUFFICES ASSUME DInv, stack = <<>>
               PROVE  /\ Listed(top, res)
                      /\ \A p \in Members(res) : \A d \in DepsOf(p) : Listed(d, res)
  BY DEF ListIsClosed, Done
<1>2. Listed(top, res)
  BY <1>1 DEF DInv, BottomIsTop
<1>3. ASSUME NEW p \in Members(res), NEW d \in DepsOf(p) PROVE Listed(d, res)
  <2>1. DOMAIN stack = {}
    BY <1>1
  <2>2. DepsListed(p)
    BY <1>1, <2>1 DEF DInv, PendingHasFrame
  <2>3. PICK j \in DOMAIN graph[p] : d = graph[p][j]
    BY <1>3 DEF DepsOf, Members
  <2>. QED  BY <2>2, <2>3 DEF DepsListed
<1>. QED  BY <1>2, <1>3

(* When the search ends the list is closed under dependencies and names the   *)
(* package it began with.                                                     *)
THEOREM SearchIsClosed == Spec => []ListIsClosed
<1>. QED  BY DInvImpliesClosed, DInvAlways, PTL
-----------------------------------------------------------------------------
(* No package is listed twice: a step appends only what is not listed.        *)
LEMMA NoDuplicatesNext == ASSUME TypeOK, NoDuplicates, [Next]_vars PROVE NoDuplicates'
<1>1. ASSUME NEW e \in Pkg, ~Listed(e, res), res' = Append(res, e) PROVE NoDuplicates'
  <2>1. SUFFICES ASSUME NEW j \in DOMAIN res', NEW k \in DOMAIN res', Key[res'[j]] = Key[res'[k]]
                 PROVE  j = k
    BY DEF NoDuplicates
  <2>2. /\ res \in Seq(Pkg) /\ Len(res) \in Nat /\ DOMAIN res = 1 .. Len(res)
        /\ DOMAIN res' = 1 .. Len(res) + 1
        /\ \A n \in 1 .. Len(res) : res'[n] = res[n]
        /\ res'[Len(res) + 1] = e
    BY <1>1 DEF TypeOK
  <2>3. CASE j \in 1 .. Len(res) /\ k \in 1 .. Len(res)
    BY <2>1, <2>2, <2>3 DEF NoDuplicates
  <2>4. CASE j = Len(res) + 1 /\ k \in 1 .. Len(res)
    BY <1>1, <2>1, <2>2, <2>4 DEF Listed
  <2>5. CASE j \in 1 .. Len(res) /\ k = Len(res) + 1
    BY <1>1, <2>1, <2>2, <2>5 DEF Listed
  <2>. QED  BY <2>1, <2>2, <2>3, <2>4, <2>5
<1>2. CASE Visit
  <2>1. Dep \in Pkg
    BY <1>2, RunningFacts DEF Visit, AtDep
  <2>. QED  BY <1>1, <1>2, <2>1 DEF Visit
<1>3. CASE res' = res
  BY <1>3 DEF NoDuplicates
<1>4. CASE Return
  <2>1. Running.pkg \in Pkg
    BY <1>4, RunningFacts DEF Return
  <2>. QED  BY <1>1, <1>3, <1>4, <2>1 DEF Return
<1>. QED  BY <1>2, <1>3, <1>4 DEF Next, Skip, vars

(* Whatever the graph, no package is on the list twice.                       *)
THEOREM NeverListedTwice == Spec => []NoDuplicates
<1>1. Init => NoDuplicates
  <2>1. Init => DOMAIN res = {}
    BY DEF Init
  <2>. QED  BY <2>1 DEF NoDuplicates
<1>. QED  BY <1>1, NoDuplicatesNext, TypeCorrect, PTL DEF Spec
-----------------------------------------------------------------------------
(* Whatever set has the package the search began with and is closed under     *)
(* dependencies has everything that is listed or being searched.              *)
Within(S) == Members(res) \subseteq S /\ \A f \in DOMAIN stack : stack[f].pkg \in S
Reached == \A S \in SUBSET Pkg : top \in S /\ Closed(S) => Within(S)

LEMMA ReachedInit == Init => Reached
<1>. SUFFICES ASSUME Init, NEW S \in SUBSET Pkg, top \in S PROVE Within(S)
  BY DEF Reached
<1>1. DOMAIN res = {} /\ DOMAIN stack = {1} /\ stack[1] = Call(top)
  BY DEF Init
<1>. QED  BY <1>1 DEF Within, Members, Call

LEMMA WithinNext ==
  ASSUME TypeOK, [Next]_vars, NEW S \in SUBSET Pkg, Closed(S), Within(S)
  PROVE  Within(S)'
<1>1. CASE Visit
  <2>1. /\ stack # <<>> /\ Dep \in Pkg /\ Running.pos \in DOMAIN graph[Running.pkg]
        /\ Depth \in Nat \ {0} /\ DOMAIN stack = 1 .. Depth
        /\ res' = Append(res, Dep) /\ stack' = Append(Advanced, Call(Dep))
    BY <1>1, RunningFacts DEF Visit, AtDep
  <2>2. Running.pkg \in S
    <3>1. Depth \in DOMAIN stack
      BY <2>1
    <3>. QED  BY <3>1 DEF Within, Running
  <2>3. Dep \in S
    <3>1. Dep \in DepsOf(Running.pkg)
      BY <2>1 DEF Dep, DepsOf, Members
    <3>. QED  BY <2>2, <3>1 DEF Closed
  <2>4. Members(res') \subseteq S
    <3>1. Members(Append(res, Dep)) = Members(res) \cup {Dep}
      BY <2>1, ListedGrows DEF TypeOK
    <3>. QED  BY <2>1, <2>3, <3>1 DEF Within
  <2>5. Advanced \in Seq(Frame) /\ Len(Advanced) = Depth
    BY <2>1, AdvancedFacts
  <2>6. /\ DOMAIN stack' = 1 .. Depth + 1
        /\ \A f \in 1 .. Depth : stack'[f] = Advanced[f]
        /\ stack'[Depth + 1] = Call(Dep)
    BY <2>1, <2>5
  <2>7. ASSUME NEW f \in 1 .. Depth + 1 PROVE stack'[f].pkg \in S
    <3>1. CASE f \in 1 .. Depth
      BY <2>1, <2>6, <3>1, AdvancedFacts DEF Within
    <3>2. CASE f = Depth + 1
      BY <2>3, <2>6, <3>2 DEF Call
    <3>3. Depth \in Nat
      BY <2>1
    <3>4. f \in 1 .. Depth \/ f = Depth + 1
      BY <2>7, <3>3
    <3>. QED  BY <3>1, <3>2, <3>4
  <2>. QED  BY <2>4, <2>6, <2>7 DEF Within
<1>2. CASE Skip
  <2>1. stack # <<>> /\ res' = res /\ stack' = Advanced
    BY <1>2 DEF Skip, AtDep
  <2>2. DOMAIN stack = 1 .. Depth /\ DOMAIN stack' = 1 .. Depth
    BY <2>1, RunningFacts, AdvancedFacts
  <2>. QED  BY <2>1, <2>2, AdvancedFacts DEF Within
<1>3. CASE Return
  <2>1. /\ stack # <<>> /\ Running.pkg \in Pkg
        /\ Depth \in Nat \ {0} /\ DOMAIN stack = 1 .. Depth
        /\ stack' = SubSeq(stack, 1, Depth - 1)
        /\ res' = IF Listed(Running.pkg, res) THEN res ELSE Append(res, Running.pkg)
    BY <1>3, RunningFacts DEF Return
  <2>2. Running.pkg \in S
    <3>1. Depth \in DOMAIN stack
      BY <2>1
    <3>. QED  BY <3>1 DEF Within, Running
  <2>3. Members(res') \subseteq S
    <3>1. Members(Append(res, Running.pkg)) = Members(res) \cup {Running.pkg}
      BY <2>1, ListedGrows DEF TypeOK
    <3>. QED  BY <2>1, <2>2, <3>1 DEF Within
  <2>4. DOMAIN stack' = 1 .. Depth - 1 /\ \A f \in 1 .. Depth - 1 : stack'[f] = stack[f]
    BY <2>1, PoppedFacts
  <2>5. 1 .. Depth - 1 \subseteq DOMAIN stack
    BY <2>1
  <2>. QED  BY <2>3, <2>4, <2>5 DEF Within
<1>4. CASE UNCHANGED vars
  BY <1>4 DEF vars, Within
<1>. QED  BY <1>1, <1>2, <1>3, <1>4 DEF Next

LEMMA ReachedNext == ASSUME TypeOK, Reached, [Next]_vars PROVE Reached'
<1>1. graph' = graph /\ top' = top
  BY ListGrows
<1>2. SUFFICES ASSUME NEW S \in SUBSET Pkg, top \in S, Closed(S) PROVE Within(S)'
  BY <1>1 DEF Reached, Closed, DepsOf
<1>. QED  BY <1>2, WithinNext DEF Reached

(* When no package is needed in two versions the list is the transitive       *)
(* closure of the dependencies of the package the search began with.          *)
THEOREM SearchFindsClosure == Spec => []ListsClosure
<1>1. Spec => []Reached
  BY ReachedInit, ReachedNext, TypeCorrect, PTL DEF Spec
<1>2. DInv /\ Reached => ListsClosure
  <2>1. SUFFICES ASSUME DInv, Reached, Done, OneVersion(Closure)
                 PROVE  Members(res) = Closure
    BY DEF ListsClosure
  <2>2. TypeOK /\ Members(res) \in SUBSET Pkg /\ top \in Pkg
    BY <2>1 DEF DInv, TypeOK, Members
  <2>3. Members(res) \subseteq Closure
    BY <2>1, <2>2 DEF Reached, Within, Closure
  <2>4. /\ Listed(top, res)
        /\ \A p \in Members(res) : \A d \in DepsOf(p) : Listed(d, res)
    BY <2>1, DInvImpliesClosed DEF ListIsClosed
  <2>5. \A q \in Closure : Listed(q, res) => q \in Members(res)
    <3>1. SUFFICES ASSUME NEW q \in Closure, Listed(q, res) PROVE q \in Members(res)
      OBVIOUS
    <3>2. PICK j \in DOMAIN res : Key[res[j]] = Key[q]
      BY <3>1 DEF Listed
    <3>3. res[j] \in Members(res)
      BY DEF Members
    <3>. QED  BY <2>1, <2>3, <3>2, <3>3 DEF OneVersion
  <2>6. top \in Closure
    BY <2>2 DEF Closure
  <2>7. ASSUME NEW p \in Members(res), NEW d \in DepsOf(p) PROVE d \in Closure
    <3>1. graph[p] \in Seq(Pkg)
      BY <2>2, DepsAssumption DEF TypeOK
    <3>2. d \in Pkg
      BY <3>1 DEF DepsOf, Members
    <3>. QED  BY <2>3, <3>2 DEF Closure, Closed
  <2>8. Closed(Members(res)) /\ top \in Members(res)
    BY <2>4, <2>5, <2>6, <2>7 DEF Closed
  <2>9. Closure \subseteq Members(res)
    BY <2>2, <2>8 DEF Closure
  <2>. QED  BY <2>3, <2>9
<1>. QED  BY <1>1, <1>2, DInvAlways, PTL
=============================================================================
