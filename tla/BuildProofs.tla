----------------------------- MODULE BuildProofs -----------------------------
(* Proofs about Build, for every number of runs, packages, files and release  *)
(* numbers.                                                                   *)
EXTENDS Build, TLAPS, SequenceTheorems, WellFoundedInduction

(* A nonempty set of numbers up to MaxRel has a largest one, so LastRel is    *)
(* well defined in every store.                                               *)
LEMMA LastExists ==
  ASSUME NEW S \in SUBSET Rels, S # {}
  PROVE  \E n \in S : \A m \in S : m <= n
<1> DEFINE T == {MaxRel - n : n \in S}
<1>1. T \subseteq Nat /\ T # {}
  BY BuildAssumption DEF Rels
<1>2. PICK x \in T : \A y \in T : <<y, x>> \notin OpToRel(<, Nat)
  BY <1>1, WFMin, NatLessThanWellFounded, Zenon
<1> HIDE DEF T
<1>a. \A y \in T : ~ (y < x)
  BY <1>1, <1>2, Zenon DEF OpToRel
<1>3. \A y \in T : x <= y
  BY <1>1, <1>a
<1> USE DEF T
<1>4. PICK n \in S : x = MaxRel - n
  OBVIOUS
<1>5. \A m \in S : MaxRel - m \in T
  OBVIOUS
<1> HIDE DEF T
<1>6. \A m \in S : m <= n
  BY <1>3, <1>4, <1>5, BuildAssumption DEF Rels
<1>. QED  BY <1>6

LEMMA LastRelIsLast ==
  ASSUME TypeOK, NEW k \in Pkg, rels[k] # {}
  PROVE  LastRel(k) \in rels[k] /\ \A m \in rels[k] : m <= LastRel(k)
<1>1. rels[k] \in SUBSET Rels
  BY DEF TypeOK
<1>2. \E n \in rels[k] : \A m \in rels[k] : m <= n
  BY <1>1, LastExists
<1>. QED  BY <1>2 DEF LastRel

(* What Resolve finds in a store whose numbers have no gap: the new number    *)
(* is the number of releases.                                                 *)
LEMMA NewRelIsNext ==
  ASSUME TypeOK, NEW k \in Pkg, NEW m \in Nat, rels[k] = 0 .. (m - 1)
  PROVE  NewRel(k) = m
<1>1. CASE rels[k] = {}
  <2>1. 0 \notin 0 .. (m - 1)
    BY <1>1
  <2>2. m = 0
    BY <2>1
  <2>. QED  BY <1>1, <2>2 DEF NewRel
<1>2. CASE rels[k] # {}
  <2>1. LastRel(k) \in 0 .. (m - 1) /\ \A j \in 0 .. (m - 1) : j <= LastRel(k)
    BY <1>2, LastRelIsLast
  <2>2. m - 1 \in 0 .. (m - 1)
    BY <2>1
  <2>3. LastRel(k) = m - 1
    BY <2>1, <2>2
  <2>. QED  BY <1>2, <2>3 DEF NewRel
<1>. QED  BY <1>1, <1>2

LEMMA ResolveType ==
  ASSUME TypeOK, NEW k \in Pkg, NEW f \in BOOLEAN, ~MaxReached(k)
  PROVE  Resolve(k, f) \in Entry
<1>1. Rel(k) \in Rels /\ NewRel(k) \in Rels
  <2>1. CASE rels[k] = {}
    BY <2>1, BuildAssumption DEF Rel, NewRel, Rels
  <2>2. CASE rels[k] # {}
    <3>1. LastRel(k) \in Rels
      BY <2>2, LastRelIsLast DEF TypeOK
    <3>2. LastRel(k) + 1 <= MaxRel
      BY <2>2, <3>1, BuildAssumption DEF MaxReached, Rels
    <3>. QED  BY <2>2, <3>1, <3>2, BuildAssumption DEF Rel, NewRel, Rels
  <2>. QED  BY <2>1, <2>2
<1>. QED  BY <1>1 DEF Resolve, Entry

LEMMA NoEntryType == NoEntry \in Entry
<1>1. (CHOOSE k \in Pkg : TRUE) \in Pkg
  BY BuildAssumption
<1>2. 0 \in Rels
  BY BuildAssumption DEF Rels
<1>. QED  BY <1>1, <1>2 DEF NoEntry, Entry

LEMMA ExitType ==
  ASSUME TypeOK, NEW r \in Run, Exit(r)
  PROVE  /\ at' \in [Run -> Phase]
         /\ plan' \in [Run -> Seq(Entry)]
         /\ cur' \in [Run -> Nat \ {0}]
         /\ p' \in [Run -> Entry]
         /\ moved' \in [Run -> Nat]
<1>1. <<>> \in Seq(Entry)
  OBVIOUS
<1>. QED  BY <1>1, NoEntryType DEF Exit, Goto, TypeOK, Phase

LEMMA PlanType ==
  ASSUME TypeOK, NEW r \in Run, NEW s \in SetFiles[r],
         NEW f \in [DOMAIN s -> BOOLEAN],
         \A i \in DOMAIN s : ~MaxReached(s[i])
  PROVE  /\ s \in Seq(Pkg)
         /\ [i \in DOMAIN s |-> Resolve(s[i], f[i])] \in Seq(Entry)
<1>1. s \in Seq(Pkg)
  BY BuildAssumption
<1>2. PICK n \in Nat : DOMAIN s = 1 .. n /\ s \in [1 .. n -> Pkg]
  BY <1>1, SeqDef
<1>3. \A i \in 1 .. n : Resolve(s[i], f[i]) \in Entry
  BY <1>2, ResolveType
<1>4. [i \in 1 .. n |-> Resolve(s[i], f[i])] \in [1 .. n -> Entry]
  BY <1>3
<1>. QED  BY <1>1, <1>2, <1>4, SeqDef

Contents == [Pkg -> [Rels -> SUBSET File]]

LEMMA PutType ==
  ASSUME NEW F \in Contents, NEW k \in Pkg, NEW n \in Rels, NEW v, v \in SUBSET File
  PROVE  Put(F, k, n, v) \in Contents
<1>1. [F[k] EXCEPT ![n] = v] \in [Rels -> SUBSET File]
  BY DEF Contents
<1>. QED  BY <1>1 DEF Contents, Put

LEMMA PutValue ==
  ASSUME NEW F \in Contents, NEW k \in Pkg, NEW n \in Rels, NEW v,
         NEW j \in Pkg, NEW m \in Rels
  PROVE  Put(F, k, n, v)[j][m] = IF j = k /\ m = n THEN v ELSE F[j][m]
BY DEF Contents, Put

(* Where the move loop of createSubPkg is, the pattern exists.                *)
LEMMA NextMoveType ==
  ASSUME TypeOK, NEW r \in Run, moved[r] < Len(Moves[p[r].pkg])
  PROVE  /\ NextMove(r) \in Move
         /\ NextMove(r).sub \in SubsOf(p[r].pkg)
         /\ NextMove(r).files \subseteq MovedFiles(p[r].pkg)
<1>1. p[r].pkg \in Pkg /\ moved[r] \in Nat
  BY DEF TypeOK, Entry
<1>2. Moves[p[r].pkg] \in Seq(Move)
  BY <1>1, BuildAssumption
<1>3. moved[r] + 1 \in DOMAIN Moves[p[r].pkg]
  BY <1>1, <1>2
<1>. QED  BY <1>2, <1>3 DEF NextMove, SubsOf, MovedFiles

LEMMA TypeInit == Init => TypeOK
<1>. SUFFICES ASSUME Init PROVE TypeOK
  OBVIOUS
<1>1. <<>> \in Seq(Entry)
  OBVIOUS
<1>. QED  BY <1>1, NoEntryType DEF Init, TypeOK, Phase

LEMMA TypeNext == TypeOK /\ [Next]_vars => TypeOK'
<1>. SUFFICES ASSUME TypeOK, [Next]_vars PROVE TypeOK'
  OBVIOUS
<1>1. CASE UNCHANGED vars
  BY <1>1 DEF vars, store, TypeOK
<1>2. ASSUME NEW r \in Run, Step(r) PROVE TypeOK'
  <2>0. /\ p[r] \in Entry /\ p[r].pkg \in Pkg /\ p[r].new \in Rels
        /\ p[r].force \in BOOLEAN
    BY DEF TypeOK, Entry
  <2>c. files \in Contents /\ sha \in Contents
    BY DEF TypeOK, Contents
  <2>d. files[p[r].pkg][p[r].new] \in SUBSET File /\ {} \in SUBSET File
    BY <2>0 DEF TypeOK
  <2>1. CASE Start(r)
    <3>1. plan' \in [Run -> Seq(Entry)]
      <4>1. PICK s \in SetFiles[r] : \E f \in [DOMAIN s -> BOOLEAN] :
              /\ \A i \in DOMAIN s : ~MaxReached(s[i])
              /\ plan' = [plan EXCEPT ![r] = [i \in DOMAIN s |-> Resolve(s[i], f[i])]]
        BY <2>1 DEF Start
      <4>2. PICK f \in [DOMAIN s -> BOOLEAN] :
              /\ \A i \in DOMAIN s : ~MaxReached(s[i])
              /\ plan' = [plan EXCEPT ![r] = [i \in DOMAIN s |-> Resolve(s[i], f[i])]]
        BY <4>1
      <4>3. [i \in DOMAIN s |-> Resolve(s[i], f[i])] \in Seq(Entry)
        BY <4>2, PlanType
      <4>4. \E pl \in Seq(Entry) : plan' = [plan EXCEPT ![r] = pl]
        BY <4>2, <4>3, Zenon
      <4>. QED  BY <4>4 DEF TypeOK
    <3>. QED  BY <2>1, <3>1 DEF Start, Goto, TypeOK, Phase, store
  <2>2. CASE Finish(r)
    BY <2>2, ExitType DEF Finish, TypeOK, store
  <2>3. CASE NextEntry(r)
    <3>1. cur[r] \in 1 .. Len(plan[r]) /\ plan[r] \in Seq(Entry)
      BY <2>3, LenProperties DEF NextEntry, TypeOK
    <3>2. plan[r][cur[r]] \in Entry
      BY <3>1, ElementOfSeq
    <3>. QED  BY <2>3, <3>2 DEF NextEntry, Goto, TypeOK, Phase, store
  <2>4. CASE RefreshSub(r)
    BY <2>0, <2>4, ResolveType DEF RefreshSub, Goto, TypeOK, Phase, store
  <2>5. CASE Reuse(r)
    BY <2>5 DEF Reuse, Goto, TypeOK, Phase, store
  <2>6. CASE CreatePkgDirs(r)
    BY <2>0, <2>6 DEF CreatePkgDirs, Goto, TypeOK, Phase, Working
  <2>7. CASE PlainStep(r)
    BY <2>7 DEF PlainStep, Plain, Goto, TypeOK, Phase, Working, store
  <2>8. CASE WriteFile(r)
    <3>1. \E v \in SUBSET File : files' = Put(files, p[r].pkg, p[r].new, v)
      BY <2>0, <2>8, BuildAssumption DEF WriteFile, TypeOK
    <3>2. files' \in Contents
      BY <2>0, <2>c, <3>1, PutType
    <3>. QED  BY <2>8, <3>2 DEF WriteFile, TypeOK, Contents
  <2>9. CASE PkgCreate(r)
    BY <2>9 DEF PkgCreate, Goto, TypeOK, Phase, Working, store
  <2>10. CASE MoveLogs(r)
    <3>1. sha' \in Contents
      BY <2>0, <2>c, <2>d, <2>10, PutType DEF MoveLogs
    <3>. QED  BY <2>10, <3>1 DEF MoveLogs, Goto, TypeOK, Phase, Working, Contents
  <2>11. CASE DumpSHA256(r)
    <3>1. sha' \in Contents
      BY <2>0, <2>c, <2>d, <2>11, PutType DEF DumpSHA256
    <3>. QED  BY <2>11, <3>1 DEF DumpSHA256, Goto, TypeOK, Phase, Working, Contents
  <2>12. CASE MoveFiles(r)
    <3>1. NextMove(r) \in Move
      BY <2>12, NextMoveType DEF MoveFiles
    <3>2. NextMove(r).sub \in Pkg /\ NextMove(r).files \subseteq File
      BY <3>1 DEF Move
    <3> DEFINE k == p[r].pkg  n == p[r].new  s == NextMove(r).sub
               rest == files[k][n] \ NextMove(r).files
               got == files[s][n] \cup (files[k][n] \cap NextMove(r).files)
    <3>3. files' = Put(Put(files, k, n, rest), s, n, got)
      BY <2>12 DEF MoveFiles
    <3>4. files \in Contents /\ rest \in SUBSET File /\ got \in SUBSET File
      BY <2>0, <3>2 DEF TypeOK, Contents
    <3>5. files' \in Contents
      BY <2>0, <3>2, <3>3, <3>4, PutType
    <3>6. rels' \in [Pkg -> SUBSET Rels]
      BY <2>0, <2>12, <3>2 DEF MoveFiles, TypeOK
    <3>. QED  BY <2>12, <3>5, <3>6 DEF MoveFiles, Goto, TypeOK, Phase, Working, Contents
  <2>13. CASE MoveShaInfo(r)
    <3>1. NextMove(r) \in Move
      BY <2>13, NextMoveType DEF MoveShaInfo
    <3>2. NextMove(r).sub \in Pkg /\ NextMove(r).files \subseteq File
      BY <3>1 DEF Move
    <3> DEFINE k == p[r].pkg  n == p[r].new  s == NextMove(r).sub
               rest == sha[k][n] \ NextMove(r).cut
               got == sha[k][n] \cap NextMove(r).copied
    <3>3. sha' = Put(Put(sha, k, n, rest), s, n, got)
      BY <2>13 DEF MoveShaInfo
    <3>4. sha \in Contents /\ rest \in SUBSET File /\ got \in SUBSET File
      BY <2>0, <3>2 DEF TypeOK, Contents
    <3>5. sha' \in Contents
      BY <2>0, <3>2, <3>3, <3>4, PutType
    <3>6. /\ moved' = [moved EXCEPT ![r] = moved[r] + 1]
          /\ at' = [at EXCEPT ![r] = "mv"]
          /\ UNCHANGED <<rels, files, plan, cur, p, done, abandoned>>
      BY <2>13 DEF MoveShaInfo, Goto
    <3> HIDE DEF k, n, s, rest, got
    <3>. QED  BY <3>5, <3>6 DEF TypeOK, Phase, Working, Contents
  <2>14. CASE SubPkgsDone(r)
    BY <2>0, <2>14 DEF SubPkgsDone, Goto, TypeOK, Phase, store
  <2>15. CASE ReadRels(r)
    BY <2>0, <2>15, ResolveType DEF ReadRels, Goto, TypeOK, Phase, store
  <2>16. CASE HandOver(r)
    BY <2>16 DEF HandOver, Goto, TypeOK, Phase, store
  <2>17. CASE FailClean(r)
    <3>1. files' \in Contents
      BY <2>0, <2>c, <2>d, <2>17, PutType DEF FailClean
    <3>. QED  BY <2>0, <2>17, <3>1, ExitType DEF FailClean, TypeOK, Contents
  <2>18. CASE Abort(r)
    BY <2>0, <2>18, ExitType DEF Abort, TypeOK, store
  <2>. QED
    BY <1>2, <2>1, <2>2, <2>3, <2>4, <2>5, <2>6, <2>7, <2>8, <2>9, <2>10,
       <2>11, <2>12, <2>13, <2>14, <2>15, <2>16, <2>17, <2>18 DEF Step
<1>. QED  BY <1>1, <1>2 DEF Next

(* Type correctness, whatever the set files and however the runs interleave.  *)
THEOREM TypeCorrect == Spec => []TypeOK
<1>. QED  BY TypeInit, TypeNext, PTL DEF Spec
-----------------------------------------------------------------------------
(* The inductive step of IInv is proved in four parts: what the step of a run *)
(* leaves alone, the conjuncts of the other runs, those of the run itself,    *)
(* and those about the store.                                                 *)

LEMMA PutOther ==
  ASSUME NEW F \in Contents, NEW k \in Pkg, NEW n, NEW v, NEW j \in Pkg, j # k
  PROVE  Put(F, k, n, v)[j] = F[j]
BY DEF Contents, Put

LEMMA TypeFacts ==
  ASSUME TypeOK, NEW r \in Run
  PROVE  /\ p[r] \in Entry /\ p[r].pkg \in Pkg /\ p[r].new \in Rels
         /\ files \in Contents /\ sha \in Contents
         /\ at[r] \in Phase /\ cur[r] \in Nat \ {0}
         /\ plan[r] \in Seq(Entry)
         /\ DOMAIN plan[r] \subseteq Nat
         /\ \A i \in DOMAIN plan[r] : plan[r][i] \in Entry
<1>1. /\ p[r] \in Entry /\ at[r] \in Phase /\ cur[r] \in Nat \ {0}
      /\ plan[r] \in Seq(Entry)
  BY DEF TypeOK
<1>2. files \in Contents /\ sha \in Contents
  BY DEF TypeOK, Contents
<1>3. p[r].pkg \in Pkg /\ p[r].new \in Rels
  BY <1>1 DEF Entry
<1>4. PICK n \in Nat : DOMAIN plan[r] = 1 .. n /\ plan[r] \in [1 .. n -> Entry]
  BY <1>1, SeqDef
<1>. QED  BY <1>1, <1>2, <1>3, <1>4

(* A step of run r changes no variable of another run.                        *)
LEMMA Locality ==
  ASSUME TypeOK, NEW r \in Run, NEW q \in Run, q # r, Step(r)
  PROVE  at'[q] = at[q] /\ plan'[q] = plan[q] /\ cur'[q] = cur[q] /\ p'[q] = p[q]
<1>1. CASE Start(r)
  BY <1>1 DEF Start, Goto, TypeOK
<1>2. CASE Finish(r) \/ FailClean(r) \/ Abort(r)
  BY <1>2 DEF Finish, FailClean, Abort, Exit, Goto, TypeOK
<1>3. CASE NextEntry(r) \/ RefreshSub(r) \/ ReadRels(r)
  BY <1>3 DEF NextEntry, RefreshSub, ReadRels, Goto, TypeOK
<1>4. CASE Reuse(r) \/ CreatePkgDirs(r) \/ PlainStep(r) \/ PkgCreate(r)
           \/ SubPkgsDone(r) \/ HandOver(r)
  BY <1>4 DEF Reuse, CreatePkgDirs, PlainStep, PkgCreate, SubPkgsDone, HandOver,
              Goto, TypeOK
<1>5. CASE WriteFile(r) \/ MoveLogs(r) \/ DumpSHA256(r) \/ MoveFiles(r) \/ MoveShaInfo(r)
  BY <1>5 DEF WriteFile, MoveLogs, DumpSHA256, MoveFiles, MoveShaInfo, Goto, TypeOK
<1>. QED  BY <1>1, <1>2, <1>3, <1>4, <1>5 DEF Step

(* The run that moves files to a sub-package leaves its own release in place, *)
(* with all it will keep.                                                     *)
LEMMA MoveFilesEffect ==
  ASSUME IInv, KeepsAFile, NEW r \in Run, MoveFiles(r)
  PROVE  LET k == p[r].pkg  n == p[r].new  s == NextMove(r).sub IN
         /\ s \in Pkg /\ IsSub(s) /\ s # k /\ s \in SubsOf(k)
         /\ rels' = [rels EXCEPT ![s] = @ \cup {n}]
         /\ Final(k) \subseteq files'[k][n]
         /\ \A j \in Pkg : j # k /\ j # s => files'[j] = files[j]
         /\ \A j \in Pkg, m \in Rels : m # n => files'[j][m] = files[j][m]
<1> DEFINE k == p[r].pkg  n == p[r].new  s == NextMove(r).sub
           rest == files[k][n] \ NextMove(r).files
           got == files[s][n] \cup (files[k][n] \cap NextMove(r).files)
           one == Put(files, k, n, rest)
<1>0. TypeOK /\ Target(r) /\ at[r] = "mv"
  BY DEF IInv, MoveFiles
<1>1. k \in Pkg /\ n \in Rels /\ files \in Contents
  BY <1>0, TypeFacts
<1>2. /\ NextMove(r) \in Move /\ s \in SubsOf(k)
      /\ NextMove(r).files \subseteq MovedFiles(k)
  BY <1>0, NextMoveType DEF MoveFiles
<1>3. s \in Pkg /\ NextMove(r).files \subseteq File /\ IsSub(s)
  BY <1>1, <1>2 DEF Move, IsSub
<1>4. s # k /\ n \in rels[k] /\ Final(k) \subseteq files[k][n]
  <2>1. ~IsSub(k) /\ HasReleases(k, n + 1) /\ Final(k) \subseteq files[k][n]
    BY <1>0 DEF Target, Working, Created
  <2>. QED  BY <1>1, <1>3, <2>1, BuildAssumption DEF HasReleases, Rels
<1>5. Final(k) \subseteq rest
  BY <1>2, <1>4 DEF Final
<1>6. Moves[k] # <<>>
  BY <1>2 DEF SubsOf
<1>7. rest # {}
  BY <1>1, <1>5, <1>6 DEF KeepsAFile
<1>8. rels' = [rels EXCEPT ![s] = @ \cup {n}]
  <2>1. rels' = [rels EXCEPT ![k] = @, ![s] = @ \cup {n}]
    BY <1>7 DEF MoveFiles
  <2>. QED  BY <1>0, <1>1, <1>3, <2>1 DEF TypeOK
<1>9. files' = Put(one, s, n, got)
  BY DEF MoveFiles
<1>10. rest \in SUBSET File /\ got \in SUBSET File
  BY <1>1, <1>3 DEF Contents
<1>11. one \in Contents
  BY <1>1, <1>10, PutType
<1> HIDE DEF one, rest, got
<1>12. \A j \in Pkg : j # s => files'[j] = one[j]
  BY <1>3, <1>9, <1>11, PutOther
<1>13. \A j \in Pkg : j # k => one[j] = files[j]
  BY <1>1, PutOther DEF one
<1>14. one[k][n] = rest
  BY <1>1, PutValue DEF one
<1>15. \A j \in Pkg, m \in Rels : m # n => files'[j][m] = one[j][m]
  BY <1>1, <1>3, <1>9, <1>11, PutValue
<1>16. \A j \in Pkg, m \in Rels : m # n => one[j][m] = files[j][m]
  BY <1>1, PutValue DEF one
<1>17. Final(k) \subseteq files'[k][n]
  BY <1>1, <1>4, <1>5, <1>12, <1>14
<1>18. \A j \in Pkg : j # k /\ j # s => files'[j] = files[j]
  BY <1>12, <1>13
<1>19. \A j \in Pkg, m \in Rels : m # n => files'[j][m] = files[j][m]
  BY <1>15, <1>16
<1>. QED  BY <1>2, <1>3, <1>4, <1>8, <1>17, <1>18, <1>19

(* Of the packages that are built, a step changes only the one the run is     *)
(* building, and only that one can become done.                               *)
LEMMA StepEffect ==
  ASSUME IInv, KeepsAFile, NEW r \in Run, Step(r)
  PROVE  /\ \A k \in Pkg : ~IsSub(k) /\ k # p[r].pkg =>
              rels'[k] = rels[k] /\ files'[k] = files[k]
         /\ at[r] \in {"idle", "next"} => rels' = rels /\ files' = files /\ done' = done
         /\ done \subseteq done'
         /\ done' \subseteq done \cup {<<p[r].pkg, p[r].new>>}
<1>0. TypeOK
  BY DEF IInv
<1>1. p[r].pkg \in Pkg /\ p[r].new \in Rels /\ files \in Contents /\ sha \in Contents
  BY <1>0, TypeFacts
<1>2. CASE Start(r) \/ Finish(r) \/ NextEntry(r) \/ RefreshSub(r) \/ Reuse(r)
           \/ PlainStep(r) \/ PkgCreate(r) \/ ReadRels(r) \/ HandOver(r) \/ Abort(r)
           \/ MoveLogs(r) \/ DumpSHA256(r) \/ MoveShaInfo(r)
  <2>1. rels' = rels /\ files' = files /\ done' = done
    BY <1>2 DEF Start, Finish, NextEntry, RefreshSub, Reuse, PlainStep, PkgCreate,
                ReadRels, HandOver, Abort, MoveLogs, DumpSHA256, MoveShaInfo, store
  <2>. QED  BY <2>1
<1>3. CASE CreatePkgDirs(r)
  BY <1>0, <1>1, <1>3 DEF CreatePkgDirs, TypeOK
<1>4. CASE WriteFile(r)
  <2>1. \E v : files' = Put(files, p[r].pkg, p[r].new, v)
    BY <1>4 DEF WriteFile
  <2>2. \A j \in Pkg : j # p[r].pkg => files'[j] = files[j]
    BY <1>1, <2>1, PutOther
  <2>. QED  BY <1>4, <2>2 DEF WriteFile
<1>5. CASE MoveFiles(r)
  <2>1. /\ NextMove(r).sub \in Pkg /\ IsSub(NextMove(r).sub)
        /\ rels' = [rels EXCEPT ![NextMove(r).sub] = @ \cup {p[r].new}]
        /\ \A j \in Pkg : j # p[r].pkg /\ j # NextMove(r).sub => files'[j] = files[j]
    BY <1>5, MoveFilesEffect
  <2>2. at[r] = "mv" /\ done' = done
    BY <1>5 DEF MoveFiles
  <2>. QED  BY <1>0, <2>1, <2>2 DEF TypeOK
<1>6. CASE SubPkgsDone(r)
  BY <1>6 DEF SubPkgsDone, store
<1>7. CASE FailClean(r)
  <2>1. files' = Put(files, p[r].pkg, p[r].new, {})
    BY <1>7 DEF FailClean
  <2>2. \A j \in Pkg : j # p[r].pkg => files'[j] = files[j]
    BY <1>1, <2>1, PutOther
  <2>. QED  BY <1>0, <1>1, <1>7, <2>2 DEF FailClean, TypeOK
<1>. QED  BY <1>2, <1>3, <1>4, <1>5, <1>6, <1>7 DEF Step

RunInv(r) == OwnNames(r) /\ OncePerPlan(r) /\ PlanUpToDate(r) /\ Target(r)

LEMMA OtherRuns ==
  ASSUME IInv, KeepsAFile, NamedByOneRun, NEW r \in Run, NEW q \in Run, q # r, Step(r)
  PROVE  RunInv(q)'
<1>0. TypeOK /\ OwnNames(r) /\ OwnNames(q) /\ OncePerPlan(q) /\ PlanUpToDate(q) /\ Target(q)
  BY DEF IInv
<1>1. at'[q] = at[q] /\ plan'[q] = plan[q] /\ cur'[q] = cur[q] /\ p'[q] = p[q]
  BY <1>0, Locality
<1>2. \A k \in Names(q) : ~IsSub(k) => k \notin Names(r)
  BY DEF NamedByOneRun, Names
<1>3. \A k \in Names(q) : ~IsSub(k) =>
        /\ rels'[k] = rels[k] /\ files'[k] = files[k]
        /\ \A n : <<k, n>> \in done' => <<k, n>> \in done
  <2>1. SUFFICES ASSUME NEW k \in Names(q), ~IsSub(k)
                 PROVE  /\ rels'[k] = rels[k] /\ files'[k] = files[k]
                        /\ \A n : <<k, n>> \in done' => <<k, n>> \in done
    OBVIOUS
  <2>2. k \in Pkg
    BY DEF Names
  <2>3. CASE at[r] \in {"idle", "next"}
    BY <2>3, StepEffect
  <2>4. CASE at[r] \notin {"idle", "next"}
    <3>1. k # p[r].pkg
      BY <1>0, <1>2, <2>1, <2>4 DEF OwnNames
    <3>. QED  BY <2>1, <2>2, <3>1, StepEffect
  <2>. QED  BY <2>3, <2>4
<1>4. OwnNames(q)'
  BY <1>0, <1>1 DEF OwnNames
<1>5. OncePerPlan(q)'
  BY <1>0, <1>1 DEF OncePerPlan
<1>6. PlanUpToDate(q)'
  BY <1>0, <1>1, <1>3 DEF PlanUpToDate, HasReleases, OwnNames
<1>7. Target(q)'
  <2>1. at[q] \in Working => p[q].pkg \in Names(q)
    BY <1>0 DEF OwnNames, Working
  <2>. QED  BY <1>0, <1>1, <1>3, <2>1 DEF Target, HasReleases
<1>. QED  BY <1>4, <1>5, <1>6, <1>7 DEF RunInv

\* a process that has ended claims nothing
LEMMA ExitRun ==
  ASSUME TypeOK, NEW r \in Run, Exit(r)
  PROVE  RunInv(r)'
<1>1. at'[r] = "idle" /\ plan'[r] = <<>>
  BY DEF Exit, Goto, TypeOK
<1>2. DOMAIN plan'[r] = {}
  BY <1>1
<1>. QED
  BY <1>1, <1>2 DEF RunInv, OwnNames, OncePerPlan, PlanUpToDate, Target, Working

LEMMA StartRun ==
  ASSUME IInv, NamedOnce, NEW r \in Run, Start(r)
  PROVE  RunInv(r)'
<1>0. TypeOK /\ Numbered
  BY DEF IInv
<1>1. PICK s \in SetFiles[r] : \E f \in [DOMAIN s -> BOOLEAN] :
        plan' = [plan EXCEPT ![r] = [i \in DOMAIN s |-> Resolve(s[i], f[i])]]
  BY DEF Start
<1>2. PICK f \in [DOMAIN s -> BOOLEAN] :
        plan' = [plan EXCEPT ![r] = [i \in DOMAIN s |-> Resolve(s[i], f[i])]]
  BY <1>1
<1>3. plan'[r] = [i \in DOMAIN s |-> Resolve(s[i], f[i])]
  BY <1>0, <1>2 DEF TypeOK
<1>4. /\ DOMAIN plan'[r] = DOMAIN s
      /\ \A i \in DOMAIN s : plan'[r][i].pkg = s[i] /\ plan'[r][i].new = NewRel(s[i])
  BY <1>3 DEF Resolve
<1>5. \A i \in DOMAIN s : s[i] \in Pkg /\ s[i] \in Names(r)
  <2>1. s \in Seq(Pkg)
    BY BuildAssumption
  <2>2. \A i \in DOMAIN s : s[i] \in Pkg
    BY <2>1
  <2>. QED  BY <2>2 DEF Names
<1>6. at'[r] = "next" /\ rels' = rels
  BY <1>0 DEF Start, Goto, TypeOK, store
<1>7. \A i \in DOMAIN s : ~IsSub(s[i]) => HasReleases(s[i], NewRel(s[i]))
  <2>1. SUFFICES ASSUME NEW i \in DOMAIN s, ~IsSub(s[i])
                 PROVE  HasReleases(s[i], NewRel(s[i]))
    OBVIOUS
  <2>2. s[i] \in Pkg
    BY <1>5
  <2>3. PICK n \in 0 .. MaxRel + 1 : HasReleases(s[i], n)
    BY <1>0, <2>1, <2>2 DEF Numbered
  <2>4. n \in Nat
    BY <2>3
  <2>5. NewRel(s[i]) = n
    BY <1>0, <2>2, <2>3, <2>4, NewRelIsNext DEF HasReleases
  <2>. QED  BY <2>3, <2>5
<1>8. OwnNames(r)'
  BY <1>4, <1>5, <1>6 DEF OwnNames
<1>9. OncePerPlan(r)'
  BY <1>4, <1>6 DEF OncePerPlan, NamedOnce
<1>10. PlanUpToDate(r)'
  BY <1>4, <1>6, <1>7 DEF PlanUpToDate, HasReleases
<1>11. Target(r)'
  BY <1>6 DEF Target, Working
<1>. QED  BY <1>8, <1>9, <1>10, <1>11 DEF RunInv

LEMMA OwnRun ==
  ASSUME IInv, KeepsAFile, NamedOnce, NEW r \in Run, Step(r)
  PROVE  RunInv(r)'
<1>0. TypeOK /\ OwnNames(r) /\ OncePerPlan(r) /\ PlanUpToDate(r) /\ Target(r) /\ DoneExists
  BY DEF IInv
<1>1. /\ p[r] \in Entry /\ p[r].pkg \in Pkg /\ p[r].new \in Nat
      /\ files \in Contents /\ cur[r] \in Nat \ {0} /\ at[r] \in Phase
      /\ plan[r] \in Seq(Entry)
      /\ DOMAIN plan[r] \subseteq Nat /\ \A i \in DOMAIN plan[r] : plan[r][i] \in Entry
  BY <1>0, TypeFacts, BuildAssumption DEF Rels
<1>2. CASE Start(r)
  BY <1>2, StartRun
<1>3. CASE Finish(r) \/ FailClean(r) \/ Abort(r)
  BY <1>0, <1>3, ExitRun DEF Finish, FailClean, Abort
<1>4. CASE NextEntry(r)
  <2>1. /\ at'[r] = "pkg" /\ p'[r] = plan[r][cur[r]] /\ cur'[r] = cur[r] + 1
        /\ plan' = plan /\ rels' = rels
    BY <1>0, <1>4 DEF NextEntry, Goto, TypeOK, store
  <2>2. cur[r] \in DOMAIN plan[r]
    BY <1>1, <1>4 DEF NextEntry
  <2>3. OwnNames(r)'
    BY <1>0, <2>1, <2>2 DEF OwnNames
  <2>4. OncePerPlan(r)'
    BY <1>0, <1>1, <2>1, <2>2 DEF OncePerPlan
  <2>5. PlanUpToDate(r)'
    <3>1. \A i \in DOMAIN plan[r] :
            i >= cur[r] /\ ~IsSub(plan[r][i].pkg) =>
              rels[plan[r][i].pkg] = 0 .. (plan[r][i].new - 1)
      BY <1>0 DEF PlanUpToDate, HasReleases
    <3>2. ~IsSub(plan[r][cur[r]].pkg) =>
            rels[plan[r][cur[r]].pkg] = 0 .. (plan[r][cur[r]].new - 1)
      BY <1>1, <2>2, <3>1
    <3>3. \A i \in DOMAIN plan[r] :
            i >= cur[r] + 1 /\ ~IsSub(plan[r][i].pkg) =>
              rels[plan[r][i].pkg] = 0 .. (plan[r][i].new - 1)
      BY <1>1, <3>1
    <3>. QED  BY <2>1, <3>2, <3>3 DEF PlanUpToDate, HasReleases
  <2>6. Target(r)'
    BY <2>1 DEF Target, Working
  <2>. QED  BY <2>3, <2>4, <2>5, <2>6 DEF RunInv
<1>5. CASE RefreshSub(r) \/ ReadRels(r)
  <2>1. /\ at[r] \in {"pkg", "rels"} /\ at'[r] \in {"inst", "libs"}
        /\ p'[r].pkg = p[r].pkg
        /\ plan' = plan /\ cur' = cur /\ rels' = rels
    BY <1>0, <1>5 DEF RefreshSub, ReadRels, Goto, TypeOK, store, Resolve
  <2>. QED
    BY <1>0, <2>1 DEF RunInv, OwnNames, OncePerPlan, PlanUpToDate, HasReleases,
                      Target, Working
<1>6. CASE Reuse(r) \/ SubPkgsDone(r) \/ HandOver(r)
  <2>1. /\ at[r] \in {"pkg", "mv", "inst"} /\ at'[r] \in {"inst", "rels", "next"}
        /\ p' = p /\ plan' = plan /\ cur' = cur /\ rels' = rels
    BY <1>0, <1>6 DEF Reuse, SubPkgsDone, HandOver, Goto, TypeOK, store
  <2>. QED
    BY <1>0, <2>1 DEF RunInv, OwnNames, OncePerPlan, PlanUpToDate, HasReleases,
                      Target, Working
<1>7. CASE CreatePkgDirs(r)
  <2> DEFINE k == p[r].pkg  n == p[r].new
  <2>1. /\ at[r] = "pkg" /\ at'[r] = "src" /\ ~IsSub(k)
        /\ p' = p /\ plan' = plan /\ cur' = cur /\ done' = done
        /\ rels' = [rels EXCEPT ![k] = @ \cup {n}]
    BY <1>0, <1>7 DEF CreatePkgDirs, Goto, TypeOK
  <2>2. HasReleases(k, n)
    BY <1>0, <2>1 DEF PlanUpToDate
  <2>3. rels'[k] = 0 .. ((n + 1) - 1)
    <3>1. rels'[k] = (0 .. (n - 1)) \cup {n}
      BY <1>0, <1>1, <2>1, <2>2 DEF HasReleases, TypeOK
    <3>2. (0 .. (n - 1)) \cup {n} = 0 .. ((n + 1) - 1)
      BY <1>1
    <3>. QED  BY <3>1, <3>2
  <2>4. <<k, n>> \notin done
    BY <1>0, <1>1, <2>2 DEF DoneExists, HasReleases
  <2>5. OwnNames(r)' /\ OncePerPlan(r)'
    BY <1>0, <2>1 DEF OwnNames, OncePerPlan
  <2>6. PlanUpToDate(r)'
    <3>1. \A i \in DOMAIN plan[r] :
            i >= cur[r] /\ ~IsSub(plan[r][i].pkg) => plan[r][i].pkg # k
      BY <1>0, <2>1 DEF OncePerPlan
    <3>2. \A j \in Pkg : j # k => rels'[j] = rels[j]
      BY <1>0, <2>1 DEF TypeOK
    <3>. QED  BY <1>0, <1>1, <2>1, <3>1, <3>2 DEF PlanUpToDate, HasReleases, Entry
  <2>7. Target(r)'
    BY <2>1, <2>3, <2>4 DEF Target, HasReleases, Created
  <2>. QED  BY <2>5, <2>6, <2>7 DEF RunInv
<1>8. CASE PlainStep(r)
  <2>1. /\ at'[r] = Plain[at[r]] /\ at[r] \in DOMAIN Plain
        /\ p' = p /\ plan' = plan /\ cur' = cur /\ rels' = rels /\ done' = done
        /\ files' = files
    BY <1>0, <1>8 DEF PlainStep, Goto, TypeOK, store
  <2>2. /\ at'[r] \in Working => at[r] \in Working
        /\ at'[r] \in Created => at[r] \in Created
        /\ at[r] \notin {"idle", "next"} /\ at'[r] # "pkg"
    BY <2>1 DEF Plain, Working, Created
  <2>. QED
    BY <1>0, <2>1, <2>2 DEF RunInv, OwnNames, OncePerPlan, PlanUpToDate, HasReleases,
                            Target
<1>9. CASE WriteFile(r)
  <2>1. /\ at[r] = "create" /\ at' = at
        /\ p' = p /\ plan' = plan /\ cur' = cur /\ rels' = rels /\ done' = done
    BY <1>9 DEF WriteFile
  <2>. QED
    BY <1>0, <2>1 DEF RunInv, OwnNames, OncePerPlan, PlanUpToDate, HasReleases,
                      Target, Working, Created
<1>10. CASE PkgCreate(r)
  <2>1. /\ at[r] = "create" /\ at'[r] = "check"
        /\ p' = p /\ plan' = plan /\ cur' = cur /\ rels' = rels /\ done' = done
        /\ files' = files
        /\ Recipe[p[r].pkg] \subseteq files[p[r].pkg][p[r].new]
    BY <1>0, <1>10 DEF PkgCreate, Goto, TypeOK, store
  <2>2. Final(p[r].pkg) \subseteq files[p[r].pkg][p[r].new]
    BY <2>1 DEF Final
  <2>. QED
    BY <1>0, <2>1, <2>2 DEF RunInv, OwnNames, OncePerPlan, PlanUpToDate, HasReleases,
                            Target, Working
<1>11. CASE MoveLogs(r) \/ DumpSHA256(r) \/ MoveShaInfo(r)
  <2>1. /\ at[r] \in {"logs", "sha", "mvsha"} /\ at'[r] \in {"help", "mv"}
        /\ p' = p /\ plan' = plan /\ cur' = cur /\ rels' = rels /\ done' = done
        /\ files' = files
    BY <1>0, <1>11 DEF MoveLogs, DumpSHA256, MoveShaInfo, Goto, TypeOK
  <2>. QED
    BY <1>0, <2>1 DEF RunInv, OwnNames, OncePerPlan, PlanUpToDate, HasReleases,
                      Target, Working, Created
<1>12. CASE MoveFiles(r)
  <2>1. /\ at[r] = "mv" /\ at'[r] = "mvsha"
        /\ p' = p /\ plan' = plan /\ cur' = cur /\ done' = done
    BY <1>0, <1>12 DEF MoveFiles, Goto, TypeOK
  <2>2. /\ \A j \in Pkg : ~IsSub(j) => rels'[j] = rels[j]
        /\ Final(p[r].pkg) \subseteq files'[p[r].pkg][p[r].new]
    <3>1. /\ IsSub(NextMove(r).sub)
          /\ rels' = [rels EXCEPT ![NextMove(r).sub] = @ \cup {p[r].new}]
          /\ Final(p[r].pkg) \subseteq files'[p[r].pkg][p[r].new]
      BY <1>12, MoveFilesEffect
    <3>. QED  BY <1>0, <3>1 DEF TypeOK
  <2>3. OwnNames(r)' /\ OncePerPlan(r)'
    BY <1>0, <2>1 DEF OwnNames, OncePerPlan
  <2>4. PlanUpToDate(r)'
    BY <1>0, <1>1, <2>1, <2>2 DEF PlanUpToDate, HasReleases, Entry
  <2>5. Target(r)'
    BY <1>0, <1>1, <2>1, <2>2 DEF Target, HasReleases, Working, Created
  <2>. QED  BY <2>3, <2>4, <2>5 DEF RunInv
<1>. QED
  BY <1>2, <1>3, <1>4, <1>5, <1>6, <1>7, <1>8, <1>9, <1>10, <1>11, <1>12 DEF Step

LEMMA NumberedNext ==
  ASSUME IInv, KeepsAFile, NEW r \in Run, Step(r)
  PROVE  Numbered'
<1>0. TypeOK /\ Numbered /\ Target(r) /\ PlanUpToDate(r)
  BY DEF IInv
<1>1. p[r].pkg \in Pkg /\ p[r].new \in 0 .. MaxRel /\ MaxRel \in Nat
  BY <1>0, TypeFacts, BuildAssumption DEF Rels
<1>2. SUFFICES ASSUME NEW k \in Pkg, ~IsSub(k)
               PROVE  \E n \in 0 .. MaxRel + 1 : rels'[k] = 0 .. (n - 1)
  BY DEF Numbered, HasReleases
<1>3. CASE rels'[k] = rels[k]
  BY <1>0, <1>2, <1>3 DEF Numbered, HasReleases
<1>4. CASE rels'[k] # rels[k]
  <2>1. k = p[r].pkg
    BY <1>2, <1>4, StepEffect
  <2>2. CASE CreatePkgDirs(r)
    <3>1. rels[k] = 0 .. (p[r].new - 1)
      BY <1>0, <1>2, <2>1, <2>2 DEF CreatePkgDirs, PlanUpToDate, HasReleases
    <3>2. rels'[k] = (0 .. (p[r].new - 1)) \cup {p[r].new}
      BY <1>0, <1>1, <2>1, <2>2, <3>1 DEF CreatePkgDirs, TypeOK
    <3>3. (0 .. (p[r].new - 1)) \cup {p[r].new} = 0 .. ((p[r].new + 1) - 1)
      BY <1>1
    <3>4. p[r].new + 1 \in 0 .. MaxRel + 1
      BY <1>1
    <3>. QED  BY <3>2, <3>3, <3>4
  <2>3. CASE FailClean(r)
    <3>1. rels[k] = 0 .. ((p[r].new + 1) - 1)
      BY <1>0, <2>1, <2>3 DEF FailClean, Target, HasReleases, Working
    <3>2. rels'[k] = (0 .. ((p[r].new + 1) - 1)) \ {p[r].new}
      BY <1>0, <1>1, <2>1, <2>3, <3>1 DEF FailClean, TypeOK
    <3>3. (0 .. ((p[r].new + 1) - 1)) \ {p[r].new} = 0 .. (p[r].new - 1)
      BY <1>1
    <3>4. p[r].new \in 0 .. MaxRel + 1
      BY <1>1
    <3>. QED  BY <3>2, <3>3, <3>4
  <2>4. CASE MoveFiles(r)
    <3>1. /\ IsSub(NextMove(r).sub)
          /\ rels' = [rels EXCEPT ![NextMove(r).sub] = @ \cup {p[r].new}]
      BY <2>4, MoveFilesEffect
    <3>. QED  BY <1>0, <1>2, <1>4, <3>1 DEF TypeOK
  <2>5. CASE ~CreatePkgDirs(r) /\ ~FailClean(r) /\ ~MoveFiles(r)
    <3>1. rels' = rels
      BY <2>5 DEF Step, Start, Finish, NextEntry, RefreshSub, Reuse, PlainStep,
                  WriteFile, PkgCreate, MoveLogs, DumpSHA256, MoveShaInfo,
                  SubPkgsDone, ReadRels, HandOver, Abort, store
    <3>. QED  BY <1>4, <3>1
  <2>. QED  BY <2>2, <2>3, <2>4, <2>5
<1>. QED  BY <1>3, <1>4

(* A step of run r changes the release of a package, or of its sub-packages,  *)
(* only when r is building that release.                                      *)
Untouched(k, n, s) ==
  /\ n \in rels[s] => n \in rels'[s]
  /\ files'[s][n] = files[s][n]
  /\ sha'[s][n] = sha[s][n]

LEMMA StepLocal ==
  ASSUME IInv, KeepsAFile, NEW r \in Run, Step(r),
         NEW k \in Pkg, ~IsSub(k), NEW n \in Rels,
         at[r] \in Working => k # p[r].pkg \/ n # p[r].new,
         NEW s \in {k} \cup SubsOf(k), s \in Pkg
  PROVE  Untouched(k, n, s)
<1> DEFINE b == p[r].pkg  m == p[r].new
<1>0. TypeOK /\ Target(r)
  BY DEF IInv
<1>1. b \in Pkg /\ m \in Rels /\ files \in Contents /\ sha \in Contents
  BY <1>0, TypeFacts
<1>2. ~IsSub(k)
  OBVIOUS
<1>3. at[r] \in Working => s # b \/ n # m
  BY <1>0, <1>1, <1>2 DEF Target, IsSub
<1>4. \A t \in SubsOf(b) : at[r] \in Working /\ s = t => n # m
  <2>1. SUFFICES ASSUME NEW t \in SubsOf(b), at[r] \in Working, s = t
                 PROVE  n # m
    OBVIOUS
  <2>2. s \in SubsOf(k)
    BY <1>1, <1>2, <2>1 DEF IsSub
  <2>3. k = b
    BY <1>1, <2>1, <2>2, SubPkgAssumption
  <2>. QED  BY <2>1, <2>3
<1>5. CASE Start(r) \/ Finish(r) \/ NextEntry(r) \/ RefreshSub(r) \/ Reuse(r)
           \/ PlainStep(r) \/ PkgCreate(r) \/ ReadRels(r) \/ HandOver(r) \/ Abort(r)
           \/ SubPkgsDone(r)
  <2>1. rels' = rels /\ files' = files /\ sha' = sha
    BY <1>5 DEF Start, Finish, NextEntry, RefreshSub, Reuse, PlainStep, PkgCreate,
                ReadRels, HandOver, Abort, SubPkgsDone, store
  <2>. QED  BY <2>1 DEF Untouched
<1>6. CASE CreatePkgDirs(r)
  BY <1>0, <1>1, <1>6 DEF CreatePkgDirs, TypeOK, Untouched
<1>7. CASE WriteFile(r)
  <2>1. at[r] \in Working /\ rels' = rels /\ sha' = sha /\ \E v : files' = Put(files, b, m, v)
    BY <1>7 DEF WriteFile, Working
  <2>2. files'[s][n] = files[s][n]
    BY <1>1, <1>3, <2>1, PutValue
  <2>. QED  BY <2>1, <2>2 DEF Untouched
<1>8. CASE MoveLogs(r) \/ DumpSHA256(r)
  <2>1. at[r] \in Working /\ rels' = rels /\ files' = files /\ \E v : sha' = Put(sha, b, m, v)
    BY <1>8 DEF MoveLogs, DumpSHA256, Working
  <2>2. sha'[s][n] = sha[s][n]
    BY <1>1, <1>3, <2>1, PutValue
  <2>. QED  BY <2>1, <2>2 DEF Untouched
<1>9. CASE MoveFiles(r)
  <2> DEFINE t == NextMove(r).sub
  <2>1. /\ t \in Pkg /\ t \in SubsOf(b)
        /\ rels' = [rels EXCEPT ![t] = @ \cup {m}]
        /\ \A j \in Pkg : j # b /\ j # t => files'[j] = files[j]
        /\ \A j \in Pkg, i \in Rels : i # m => files'[j][i] = files[j][i]
    BY <1>9, MoveFilesEffect
  <2>2. at[r] \in Working /\ sha' = sha
    BY <1>9 DEF MoveFiles, Working
  <2>3. n # m \/ (s # b /\ s # t)
    BY <1>3, <1>4, <2>1, <2>2
  <2>4. files'[s][n] = files[s][n]
    BY <2>1, <2>3
  <2>. QED  BY <1>0, <2>1, <2>2, <2>4 DEF TypeOK, Untouched
<1>10. CASE MoveShaInfo(r)
  <2> DEFINE t == NextMove(r).sub
             rest == sha[b][m] \ NextMove(r).cut
             got == sha[b][m] \cap NextMove(r).copied
  <2>1. at[r] \in Working /\ rels' = rels /\ files' = files
    BY <1>10 DEF MoveShaInfo, Working
  <2>2. sha' = Put(Put(sha, b, m, rest), t, m, got)
    BY <1>10 DEF MoveShaInfo
  <2>3. NextMove(r) \in Move /\ t \in SubsOf(b)
    BY <1>0, <1>10, NextMoveType DEF MoveShaInfo
  <2>4. t \in Pkg /\ rest \in SUBSET File
    BY <1>1, <2>3 DEF Move, Contents
  <2> DEFINE one == Put(sha, b, m, rest)
  <2>5. one \in Contents
    BY <1>1, <2>4, PutType
  <2>6. one[s][n] = sha[s][n]
    BY <1>1, <1>3, <2>1, PutValue
  <2> HIDE DEF one, rest, got
  <2>7. sha' = Put(one, t, m, got)
    BY <2>2 DEF one
  <2>8. sha'[s][n] = one[s][n]
    <3>1. ~(s = t /\ n = m)
      BY <1>4, <2>1, <2>3
    <3>. QED  BY <1>1, <2>4, <2>5, <2>7, <3>1, PutValue
  <2>. QED  BY <2>1, <2>6, <2>8 DEF Untouched
<1>11. CASE FailClean(r)
  <2>1. /\ at[r] \in Working /\ sha' = sha /\ files' = Put(files, b, m, {})
        /\ rels' = [rels EXCEPT ![b] = @ \ {m}]
    BY <1>11 DEF FailClean, Working
  <2>2. files'[s][n] = files[s][n]
    BY <1>1, <1>3, <2>1, PutValue
  <2>. QED  BY <1>0, <1>1, <1>3, <2>1, <2>2 DEF TypeOK, Untouched
<1>. QED
  BY <1>5, <1>6, <1>7, <1>8, <1>9, <1>10, <1>11 DEF Step

LEMMA DoneUntouched ==
  ASSUME IInv, KeepsAFile, NEW r \in Run, Step(r),
         NEW k \in Pkg, NEW n \in Rels, <<k, n>> \in done,
         NEW s \in {k} \cup SubsOf(k), s \in Pkg
  PROVE  Untouched(k, n, s)
<1>1. ~IsSub(k)
  BY DEF IInv, DoneExists
<1>2. at[r] \in Working => k # p[r].pkg \/ n # p[r].new
  BY DEF IInv, Target
<1>. QED  BY <1>1, <1>2, StepLocal

LEMMA DoneExistsNext ==
  ASSUME IInv, KeepsAFile, NEW r \in Run, Step(r)
  PROVE  DoneExists'
<1>0. TypeOK /\ Target(r) /\ DoneExists
  BY DEF IInv
<1>1. p[r].pkg \in Pkg /\ p[r].new \in Rels
  BY <1>0, TypeFacts
<1>2. SUFFICES ASSUME NEW d \in done' PROVE ~IsSub(d[1]) /\ d[2] \in rels'[d[1]]
  BY DEF DoneExists
<1>3. CASE d \in done
  <2>1. d[1] \in Pkg /\ d[2] \in Rels /\ d = <<d[1], d[2]>>
    BY <1>0, <1>3 DEF TypeOK
  <2>2. Untouched(d[1], d[2], d[1])
    BY <1>3, <2>1, DoneUntouched
  <2>. QED  BY <1>0, <1>3, <2>2 DEF DoneExists, Untouched
<1>4. CASE d \notin done
  <2>1. d = <<p[r].pkg, p[r].new>>
    BY <1>4, StepEffect
  <2>2. SubPkgsDone(r)
    BY <1>4 DEF Step, Start, Finish, NextEntry, RefreshSub, Reuse, CreatePkgDirs,
                PlainStep, WriteFile, PkgCreate, MoveLogs, DumpSHA256, MoveFiles,
                MoveShaInfo, ReadRels, HandOver, FailClean, Abort
  <2>3. rels' = rels /\ ~IsSub(p[r].pkg) /\ HasReleases(p[r].pkg, p[r].new + 1)
    BY <1>0, <2>2 DEF SubPkgsDone, Target, Working, store
  <2>4. p[r].new \in rels[p[r].pkg]
    BY <1>1, <2>3, BuildAssumption DEF HasReleases, Rels
  <2>. QED  BY <2>1, <2>3, <2>4
<1>. QED  BY <1>3, <1>4

LEMMA IInvInit == Init => IInv
<1>. SUFFICES ASSUME Init PROVE IInv
  OBVIOUS
<1>1. TypeOK
  BY TypeInit
<1>2. \A r \in Run : RunInv(r)
  <2>1. \A r \in Run : at[r] = "idle" /\ DOMAIN plan[r] = {}
    <3>1. \A r \in Run : at[r] = "idle" /\ plan[r] = <<>>
      BY DEF Init
    <3>2. DOMAIN <<>> = {}
      OBVIOUS
    <3>. QED  BY <3>1, <3>2
  <2>. QED
    BY <2>1 DEF RunInv, OwnNames, OncePerPlan, PlanUpToDate, Target, Working
<1>3. Numbered
  <2>1. 0 .. (0 - 1) = {} /\ 0 \in 0 .. MaxRel + 1
    BY BuildAssumption
  <2>. QED  BY <2>1 DEF Init, Numbered, HasReleases
<1>4. DoneExists
  BY DEF Init, DoneExists
<1>. QED  BY <1>1, <1>2, <1>3, <1>4 DEF IInv, RunInv

LEMMA IInvNext ==
  ASSUME Disjoint, KeepsAFile, IInv, [Next]_vars
  PROVE  IInv'
<1>1. CASE UNCHANGED vars
  <2>1. /\ rels' = rels /\ files' = files /\ sha' = sha /\ at' = at /\ plan' = plan
        /\ cur' = cur /\ p' = p /\ moved' = moved /\ done' = done /\ abandoned' = abandoned
    BY <1>1 DEF vars, store
  <2>2. TypeOK'
    BY <2>1 DEF IInv, TypeOK
  <2>3. \A q \in Run : RunInv(q)'
    BY <2>1 DEF IInv, RunInv, OwnNames, OncePerPlan, PlanUpToDate, Target, HasReleases
  <2>4. Numbered' /\ DoneExists'
    BY <2>1 DEF IInv, Numbered, DoneExists, HasReleases
  <2>. QED  BY <2>2, <2>3, <2>4 DEF IInv, RunInv
<1>2. ASSUME NEW r \in Run, Step(r) PROVE IInv'
  <2>1. TypeOK'
    BY <1>2, TypeNext DEF IInv, Next
  <2>2. ASSUME NEW q \in Run PROVE RunInv(q)'
    <3>1. CASE q = r
      BY <1>2, <3>1, OwnRun DEF Disjoint
    <3>2. CASE q # r
      BY <1>2, <3>2, OtherRuns DEF Disjoint
    <3>. QED  BY <3>1, <3>2
  <2>3. Numbered'
    BY <1>2, NumberedNext
  <2>4. DoneExists'
    BY <1>2, DoneExistsNext
  <2>. QED  BY <2>1, <2>2, <2>3, <2>4 DEF IInv, RunInv
<1>. QED  BY <1>1, <1>2 DEF Next

(* The inductive invariant holds in every reachable state: see IInv.           *)
THEOREM IInvAlways == ASSUME Disjoint, KeepsAFile PROVE Spec => []IInv
<1>1. IInv /\ [Next]_vars => IInv'
  BY IInvNext
<1>. QED  BY <1>1, IInvInit, PTL DEF Spec

(* However many runs build different packages at a time, and wherever they    *)
(* fail or are killed, the release numbers of a package have no gap.          *)
THEOREM ReleasesHaveNoGap == ASSUME Disjoint, KeepsAFile PROVE Spec => []NoGap
<1>1. IInv => NoGap
  <2>1. SUFFICES ASSUME IInv, NEW k \in Pkg, ~IsSub(k), NEW n \in rels[k], NEW m \in 0 .. n
                 PROVE  m \in rels[k]
    BY DEF NoGap
  <2>2. PICK j \in 0 .. MaxRel + 1 : rels[k] = 0 .. (j - 1)
    BY <2>1 DEF IInv, Numbered, HasReleases
  <2>. QED  BY <2>1, <2>2
<1>. QED  BY <1>1, IInvAlways, PTL

(* Under the same conditions a run never builds into the directory of a       *)
(* release whose build had ended.                                             *)
THEOREM NewReleaseIsNew == ASSUME Disjoint, KeepsAFile PROVE Spec => []BuildsNewRelease
<1>1. IInv => BuildsNewRelease
  BY DEF IInv, Target, BuildsNewRelease
<1>. QED  BY <1>1, IInvAlways, PTL

(* And a release whose build ended is never altered or removed, nor are the   *)
(* files and the log of its sub-packages.                                     *)
THEOREM DoneIsForever == ASSUME Disjoint, KeepsAFile PROVE Spec => PublishedUntouched
<1> DEFINE Kept ==
      \A d \in done :
        LET k == d[1]  n == d[2] IN
        \A s \in {k} \cup SubsOf(k) :
          n \in rels[s] =>
          n \in rels'[s] /\ files'[s][n] = files[s][n] /\ sha'[s][n] = sha[s][n]
<1>1. IInv /\ [Next]_vars => [Kept]_vars
  <2>1. SUFFICES ASSUME IInv, NEW r \in Run, Step(r), NEW d \in done,
                        NEW s \in {d[1]} \cup SubsOf(d[1])
                 PROVE  Untouched(d[1], d[2], s)
    BY DEF Next, Untouched
  <2>2. d[1] \in Pkg /\ d[2] \in Rels /\ d = <<d[1], d[2]>>
    BY <2>1 DEF IInv, TypeOK
  <2>3. s \in Pkg
    <3>1. Moves[d[1]] \in Seq(Move)
      BY <2>2, BuildAssumption
    <3>2. \A i \in DOMAIN Moves[d[1]] : Moves[d[1]][i] \in Move
      BY <3>1
    <3>. QED  BY <2>1, <2>2, <3>2 DEF SubsOf, Move
  <2>. QED  BY <2>1, <2>2, <2>3, DoneUntouched
<1> HIDE DEF Kept
<1>2. PublishedUntouched <=> [][Kept]_vars
  BY DEF PublishedUntouched, Kept
<1>. QED  BY <1>1, <1>2, IInvAlways, PTL DEF Spec
-----------------------------------------------------------------------------
(* Build implements Releases: for every number of runs, packages and release  *)
(* numbers, when set files name no package twice and no two runs build the    *)
(* same package.                                                              *)

(* A package has at most one builder: two runs that are past "next" with the  *)
(* same package are the same run.                                             *)
LEMMA OneBuilder ==
  ASSUME IInv, NamedByOneRun, NEW r \in Run, NEW q \in Run,
         at[r] \notin {"idle", "next"}, at[q] \notin {"idle", "next"},
         p[q].pkg = p[r].pkg, ~IsSub(p[r].pkg)
  PROVE  q = r
<1>1. p[r].pkg \in Names(r) /\ p[r].pkg \in Names(q)
  BY DEF IInv, OwnNames
<1>. QED  BY <1>1 DEF NamedByOneRun, Names

(* What a step of r does not touch looks the same afterwards.                 *)
LEMMA SameStatus ==
  ASSUME TypeOK, NEW r \in Run, Step(r), NEW k \in Mains, NEW n \in Rels,
         n \in rels'[k] <=> n \in rels[k],
         <<k, n>> \in done' <=> <<k, n>> \in done,
         Builds(r, k, n)' <=> Builds(r, k, n)
  PROVE  StatusOf(k, n)' = StatusOf(k, n)
<1>1. \A q \in Run : Builds(q, k, n)' <=> Builds(q, k, n)
  <2>1. SUFFICES ASSUME NEW q \in Run, q # r PROVE Builds(q, k, n)' <=> Builds(q, k, n)
    OBVIOUS
  <2>2. at'[q] = at[q] /\ p'[q] = p[q]
    BY <2>1, Locality
  <2>. QED  BY <2>2 DEF Builds
<1>2. (\E q \in Run : Builds(q, k, n))' <=> (\E q \in Run : Builds(q, k, n))
  BY <1>1
<1>. QED  BY <1>2 DEF StatusOf

(* A step that makes one release of one package look different.               *)
LEMMA StatusChange ==
  ASSUME NEW b \in Mains, NEW m \in Rels, NEW v,
         StatusOf(b, m)' = v,
         \A k \in Mains, n \in Rels : k # b \/ n # m => StatusOf(k, n)' = StatusOf(k, n)
  PROVE  Status' = [Status EXCEPT ![b][m] = v]
<1>1. \A k \in Mains, n \in Rels : Status[k][n] = StatusOf(k, n)
  BY DEF Status
<1>2. Status' = [k \in Mains |-> [n \in Rels |-> StatusOf(k, n)']]
  BY DEF Status, Mains, IsSub, SubsOf, Rels
<1>3. ASSUME NEW k \in Mains
      PROVE  [n \in Rels |-> StatusOf(k, n)'] = [Status EXCEPT ![b][m] = v][k]
  <2>1. CASE k = b
    <3>1. [Status EXCEPT ![b][m] = v][k] = [n \in Rels |-> IF n = m THEN v ELSE Status[b][n]]
      BY <2>1 DEF Status
    <3>2. \A n \in Rels : StatusOf(k, n)' = IF n = m THEN v ELSE Status[b][n]
      BY <1>1, <2>1
    <3>. QED  BY <3>1, <3>2
  <2>2. CASE k # b
    <3>1. [Status EXCEPT ![b][m] = v][k] = [n \in Rels |-> StatusOf(k, n)]
      BY <2>2 DEF Status
    <3>2. \A n \in Rels : StatusOf(k, n)' = StatusOf(k, n)
      BY <2>2
    <3>. QED  BY <3>1, <3>2
  <2>. QED  BY <2>1, <2>2
<1>4. [Status EXCEPT ![b][m] = v] = [k \in Mains |-> [Status EXCEPT ![b][m] = v][k]]
  BY DEF Status
<1>. QED  BY <1>2, <1>3, <1>4

(* Steps of a run that is not building, before and after, show nothing.       *)
LEMMA IdleSteps ==
  ASSUME IInv, NEW r \in Run, Step(r), at[r] \notin Working, ~CreatePkgDirs(r),
         NEW k \in Mains, NEW n \in Rels
  PROVE  StatusOf(k, n)' = StatusOf(k, n)
<1>0. TypeOK
  BY DEF IInv
<1>1. /\ Start(r) \/ Finish(r) \/ NextEntry(r) \/ RefreshSub(r) \/ Reuse(r)
         \/ PlainStep(r) \/ ReadRels(r) \/ HandOver(r) \/ Abort(r)
  BY DEF Step, Working, WriteFile, PkgCreate, MoveLogs, DumpSHA256, MoveFiles,
         MoveShaInfo, SubPkgsDone, FailClean
<1>2. rels' = rels /\ done' = done
  BY <1>1 DEF Start, Finish, NextEntry, RefreshSub, Reuse, PlainStep, ReadRels,
              HandOver, Abort, store
<1>3. at'[r] \notin Working
  <2>1. CASE PlainStep(r)
    <3>1. at[r] = "libs" /\ at'[r] = "inst"
      BY <1>0, <2>1 DEF PlainStep, Plain, Goto, TypeOK, Working
    <3>. QED  BY <3>1 DEF Working
  <2>2. CASE ~PlainStep(r)
    BY <1>0, <1>1, <2>2 DEF Start, Finish, NextEntry, RefreshSub, Reuse, ReadRels,
                            HandOver, Abort, Exit, Goto, TypeOK, Working
  <2>. QED  BY <2>1, <2>2
<1>4. Builds(r, k, n)' <=> Builds(r, k, n)
  BY <1>3 DEF Builds
<1>. QED  BY <1>0, <1>2, <1>4, SameStatus

(* So does the progress of a build from one phase to the next.                *)
LEMMA BuildSteps ==
  ASSUME IInv, KeepsAFile, NEW r \in Run, Step(r), at[r] \in Working,
         ~SubPkgsDone(r), ~FailClean(r), ~Abort(r),
         NEW k \in Mains, NEW n \in Rels
  PROVE  StatusOf(k, n)' = StatusOf(k, n)
<1>0. TypeOK
  BY DEF IInv
<1>1. PlainStep(r) \/ WriteFile(r) \/ PkgCreate(r) \/ MoveLogs(r) \/ DumpSHA256(r)
      \/ MoveFiles(r) \/ MoveShaInfo(r)
  BY DEF Step, Working, Start, Finish, NextEntry, RefreshSub, Reuse, CreatePkgDirs,
         ReadRels, HandOver
<1>2. p' = p /\ done' = done /\ at'[r] \in Working
  <2>1. CASE PlainStep(r)
    BY <1>0, <2>1 DEF PlainStep, Plain, Goto, TypeOK, Working
  <2>2. CASE ~PlainStep(r)
    BY <1>0, <1>1, <2>2 DEF WriteFile, PkgCreate, MoveLogs, DumpSHA256, MoveFiles,
                            MoveShaInfo, Goto, TypeOK, Working
  <2>. QED  BY <2>1, <2>2
<1>3. rels'[k] = rels[k]
  <2>1. k \in Pkg /\ ~IsSub(k)
    BY DEF Mains
  <2>2. CASE MoveFiles(r)
    <3>1. /\ IsSub(NextMove(r).sub)
          /\ rels' = [rels EXCEPT ![NextMove(r).sub] = @ \cup {p[r].new}]
      BY <2>2, MoveFilesEffect
    <3>. QED  BY <1>0, <2>1, <3>1 DEF TypeOK
  <2>3. CASE ~MoveFiles(r)
    <3>1. rels' = rels
      BY <1>1, <2>3 DEF PlainStep, WriteFile, PkgCreate, MoveLogs, DumpSHA256,
                        MoveShaInfo, store
    <3>. QED  BY <3>1
  <2>. QED  BY <2>2, <2>3
<1>4. Builds(r, k, n)' <=> Builds(r, k, n)
  BY <1>2 DEF Builds
<1>. QED  BY <1>0, <1>2, <1>3, <1>4, SameStatus

(* createPkgDirs opens the next number.                                       *)
LEMMA CreateOpens ==
  ASSUME IInv, KeepsAFile, NamedByOneRun, NEW r \in Run, Step(r), CreatePkgDirs(r),
         NEW b, NEW m, p[r].pkg = b, p[r].new = m
  PROVE  ReleaseLog!Open(b, m) /\ b \in Mains /\ m \in Rels
<1>0. TypeOK
  BY DEF IInv
<1>1. /\ b \in Mains /\ b \in Pkg /\ m \in Rels /\ m \in Nat /\ ~IsSub(b)
      /\ at[r] = "pkg" /\ at'[r] = "src" /\ p' = p /\ done' = done
      /\ rels' = [rels EXCEPT ![b] = @ \cup {m}]
  BY <1>0, TypeFacts, BuildAssumption DEF CreatePkgDirs, Mains, Goto, TypeOK, Rels
<1>2. rels[b] = 0 .. (m - 1)
  BY <1>1 DEF IInv, PlanUpToDate, HasReleases
<1>3. rels'[b] = rels[b] \cup {m}
  BY <1>0, <1>1 DEF TypeOK
<1>4. \A q \in Run, n \in Rels : ~Builds(q, b, n)
  <2>1. SUFFICES ASSUME NEW q \in Run, NEW n \in Rels, Builds(q, b, n) PROVE FALSE
    OBVIOUS
  <2>2. at[q] \in Working /\ p[q].pkg = b
    BY <2>1 DEF Builds
  <2>3. q = r
    BY <1>1, <2>2, OneBuilder DEF Working
  <2>. QED  BY <1>1, <2>2, <2>3 DEF Working
<1>5. StatusOf(b, m) = "none"
  <2>1. m \notin rels[b]
    BY <1>1, <1>2
  <2>. QED  BY <2>1 DEF StatusOf
<1>6. StatusOf(b, m)' = "open"
  <2>1. Builds(r, b, m)' /\ m \in rels'[b]
    BY <1>1, <1>3 DEF Builds, Working
  <2>. QED  BY <2>1 DEF StatusOf
<1>7. ASSUME NEW n \in 0 .. m - 1 PROVE n \in Rels /\ StatusOf(b, n) \in ReleaseLog!Ended
  <2>1. n \in rels[b] /\ n \in Rels
    BY <1>1, <1>2, BuildAssumption DEF Rels
  <2>. QED  BY <1>4, <2>1 DEF StatusOf, ReleaseLog!Ended
<1>8. ASSUME NEW k \in Mains, NEW n \in Rels, k # b \/ n # m
      PROVE  StatusOf(k, n)' = StatusOf(k, n)
  <2>1. n \in rels'[k] <=> n \in rels[k]
    BY <1>0, <1>1, <1>8 DEF TypeOK, Mains
  <2>2. ~Builds(r, k, n) /\ ~Builds(r, k, n)'
    BY <1>1, <1>8 DEF Builds, Working
  <2>. QED  BY <1>0, <1>1, <2>1, <2>2, SameStatus
<1>9. Status' = [Status EXCEPT ![b][m] = "open"]
  BY <1>1, <1>6, <1>8, StatusChange
<1>10. \A n \in Rels : Status[b][n] = StatusOf(b, n)
  BY <1>1 DEF Status
<1>. QED
  BY <1>1, <1>5, <1>7, <1>9, <1>10 DEF ReleaseLog!Open, ReleaseLog!Become

(* The step that ends a build changes how its release looks, and no other.    *)
LEMMA EndSteps ==
  ASSUME IInv, NamedByOneRun, NEW r \in Run, Step(r), at[r] \in Working,
         SubPkgsDone(r) \/ FailClean(r) \/ Abort(r),
         NEW b, NEW m, p[r].pkg = b, p[r].new = m
  PROVE  /\ b \in Mains /\ m \in Rels
         /\ Status[b][m] = "open"
         /\ \A v : StatusOf(b, m)' = v => Status' = [Status EXCEPT ![b][m] = v]
         /\ \A q \in Run : ~Builds(q, b, m)'
         /\ m \in rels[b] /\ <<b, m>> \notin done
<1>0. TypeOK /\ Target(r)
  BY DEF IInv
<1>1. b \in Mains /\ b \in Pkg /\ ~IsSub(b) /\ m \in Rels /\ m \in Nat
  BY <1>0, TypeFacts, BuildAssumption DEF Target, Mains, Rels
<1>2. m \in rels[b] /\ <<b, m>> \notin done
  BY <1>0, <1>1 DEF Target, HasReleases
<1>3. Builds(r, b, m)
  BY DEF Builds
<1>4. Status[b][m] = "open"
  BY <1>1, <1>2, <1>3 DEF Status, StatusOf
<1>5. at'[r] \notin Working
  BY <1>0 DEF SubPkgsDone, FailClean, Abort, Exit, Goto, TypeOK, Working
<1>6. ASSUME NEW q \in Run PROVE ~Builds(q, b, m)'
  <2>1. CASE q = r
    BY <1>5, <2>1 DEF Builds
  <2>2. CASE q # r
    <3>1. at'[q] = at[q] /\ p'[q] = p[q]
      BY <1>0, <2>2, Locality
    <3>2. ~(at[q] \in Working /\ p[q].pkg = b)
      BY <1>1, <2>2, OneBuilder DEF Working
    <3>. QED  BY <3>1, <3>2 DEF Builds
  <2>. QED  BY <2>1, <2>2
<1>7. ASSUME NEW k \in Mains, NEW n \in Rels, k # b \/ n # m
      PROVE  StatusOf(k, n)' = StatusOf(k, n)
  <2>1. n \in rels'[k] <=> n \in rels[k]
    BY <1>0, <1>1, <1>7 DEF SubPkgsDone, FailClean, Abort, store, TypeOK, Mains
  <2>2. <<k, n>> \in done' <=> <<k, n>> \in done
    BY <1>7 DEF SubPkgsDone, FailClean, Abort
  <2>3. ~Builds(r, k, n) /\ ~Builds(r, k, n)'
    BY <1>5, <1>7 DEF Builds
  <2>. QED  BY <1>0, <2>1, <2>2, <2>3, SameStatus
<1>8. ASSUME NEW v, StatusOf(b, m)' = v PROVE Status' = [Status EXCEPT ![b][m] = v]
  BY <1>1, <1>7, <1>8, StatusChange
<1>. QED  BY <1>1, <1>2, <1>4, <1>6, <1>8
-----------------------------------------------------------------------------
LEMMA StatusInit == Init => ReleaseLog!Init
<1>. SUFFICES ASSUME Init PROVE ReleaseLog!Init
  OBVIOUS
<1>1. \A k \in Mains, n \in Rels : StatusOf(k, n) = "none"
  BY DEF Init, StatusOf, Mains
<1>2. Rels = ReleaseLog!Rels
  BY DEF Rels, ReleaseLog!Rels
<1>. QED  BY <1>1, <1>2 DEF Status, ReleaseLog!Init

LEMMA StatusNext ==
  ASSUME Disjoint, KeepsAFile, IInv, [Next]_vars
  PROVE  [ReleaseLog!Next]_Status
<1>0. NamedByOneRun /\ Rels = ReleaseLog!Rels
  BY DEF Disjoint, Rels, ReleaseLog!Rels
<1>1. ASSUME \A k \in Mains, n \in Rels : StatusOf(k, n)' = StatusOf(k, n)
      PROVE  Status' = Status
  <2>1. Status' = [k \in Mains |-> [n \in Rels |-> StatusOf(k, n)']]
    BY DEF Status, Mains, IsSub, SubsOf, Rels
  <2>2. ASSUME NEW k \in Mains
        PROVE  [n \in Rels |-> StatusOf(k, n)'] = [n \in Rels |-> StatusOf(k, n)]
    BY <1>1
  <2>. QED  BY <2>1, <2>2 DEF Status
<1>2. CASE UNCHANGED vars
  <2>1. Status' = Status
    BY <1>2 DEF vars, store, Status, StatusOf, Builds
  <2>. QED  BY <2>1
<1>3. ASSUME NEW r \in Run, Step(r) PROVE [ReleaseLog!Next]_Status
  <2> DEFINE b == p[r].pkg  m == p[r].new
  <2>1. CASE CreatePkgDirs(r)
    <3>1. ReleaseLog!Open(b, m) /\ b \in Mains /\ m \in Rels
      BY <1>0, <1>3, <2>1, CreateOpens
    <3>. QED  BY <1>0, <3>1 DEF ReleaseLog!Next
  <2>2. CASE at[r] \notin Working /\ ~CreatePkgDirs(r)
    BY <1>1, <1>3, <2>2, IdleSteps
  <2>3. CASE at[r] \in Working /\ ~SubPkgsDone(r) /\ ~FailClean(r) /\ ~Abort(r)
    BY <1>1, <1>3, <2>3, BuildSteps
  <2>4. CASE at[r] \in Working /\ (SubPkgsDone(r) \/ FailClean(r) \/ Abort(r))
    <3>1. PICK k, n : p[r].pkg = k /\ p[r].new = n
      OBVIOUS
    <3>2. /\ k \in Mains /\ n \in Rels /\ Status[k][n] = "open"
          /\ \A v : StatusOf(k, n)' = v => Status' = [Status EXCEPT ![k][n] = v]
          /\ \A q \in Run : ~Builds(q, k, n)'
          /\ n \in rels[k] /\ <<k, n>> \notin done
      BY <1>0, <1>3, <2>4, <3>1, EndSteps
    <3>3. TypeOK /\ k \in Pkg
      BY <3>2 DEF IInv, Mains
    <3>4. CASE SubPkgsDone(r)
      <4>1. rels' = rels /\ <<k, n>> \in done'
        BY <3>1, <3>4 DEF SubPkgsDone, store
      <4>2. StatusOf(k, n)' = "built"
        BY <3>2, <4>1 DEF StatusOf
      <4>3. ReleaseLog!Close(k, n)
        BY <3>2, <4>2 DEF ReleaseLog!Close, ReleaseLog!Become
      <4>. QED  BY <1>0, <3>2, <4>3 DEF ReleaseLog!Next
    <3>5. CASE FailClean(r)
      <4>1. n \notin rels'[k]
        BY <3>1, <3>3, <3>5 DEF FailClean, TypeOK
      <4>2. StatusOf(k, n)' = "none"
        BY <4>1 DEF StatusOf
      <4>3. ReleaseLog!Drop(k, n)
        BY <3>2, <4>2 DEF ReleaseLog!Drop, ReleaseLog!Become
      <4>. QED  BY <1>0, <3>2, <4>3 DEF ReleaseLog!Next
    <3>6. CASE Abort(r)
      <4>1. rels' = rels /\ done' = done
        BY <3>6 DEF Abort, store
      <4>2. StatusOf(k, n)' = "broken"
        BY <3>2, <4>1 DEF StatusOf
      <4>3. ReleaseLog!Break(k, n)
        BY <3>2, <4>2 DEF ReleaseLog!Break, ReleaseLog!Become
      <4>. QED  BY <1>0, <3>2, <4>3 DEF ReleaseLog!Next
    <3>. QED  BY <2>4, <3>4, <3>5, <3>6
  <2>. QED  BY <2>1, <2>2, <2>3, <2>4
<1>. QED  BY <1>2, <1>3 DEF Next

(* However many runs build different packages at a time, and wherever they    *)
(* fail or are killed, the store behaves as module Releases says.             *)
THEOREM BuildImplementsReleases ==
  ASSUME Disjoint, KeepsAFile PROVE Spec => ImplementsReleases
<1>1. IInv /\ [Next]_vars => [ReleaseLog!Next]_Status
  BY StatusNext
<1>2. Spec => ReleaseLog!Spec
  BY <1>1, StatusInit, IInvAlways, PTL DEF Spec, ReleaseLog!Spec
<1>. QED  BY <1>2 DEF ImplementsReleases
-----------------------------------------------------------------------------
(* What a release holds.  First what the two steps of createSubPkg do to the  *)
(* release and to its sub-packages.                                           *)
LEMMA SubType ==
  ASSUME NEW k \in Pkg, NEW s \in SubsOf(k)
  PROVE  s \in Pkg /\ IsSub(s) /\ (~IsSub(k) => s # k)
<1>1. Moves[k] \in Seq(Move)
  BY BuildAssumption
<1>2. \A i \in DOMAIN Moves[k] : Moves[k][i] \in Move
  BY <1>1
<1>. QED  BY <1>2 DEF SubsOf, IsSub, Move

LEMMA MoveFilesValue ==
  ASSUME IInv, KeepsAFile, NEW r \in Run, MoveFiles(r)
  PROVE  LET k == p[r].pkg  n == p[r].new  t == NextMove(r).sub IN
         /\ files'[k][n] = files[k][n] \ NextMove(r).files
         /\ files'[t][n] = files[t][n] \cup (files[k][n] \cap NextMove(r).files)
         /\ \A s \in SubsOf(k) : s # t => files'[s][n] = files[s][n]
<1> DEFINE k == p[r].pkg  n == p[r].new  t == NextMove(r).sub
           rest == files[k][n] \ NextMove(r).files
           got == files[t][n] \cup (files[k][n] \cap NextMove(r).files)
           one == Put(files, k, n, rest)
<1>0. TypeOK
  BY DEF IInv
<1>1. k \in Pkg /\ n \in Rels /\ files \in Contents
  BY <1>0, TypeFacts
<1>2. /\ t \in Pkg /\ t # k
      /\ \A j \in Pkg : j # k /\ j # t => files'[j] = files[j]
  BY MoveFilesEffect
<1>3. files' = Put(one, t, n, got)
  BY DEF MoveFiles
<1>4. rest \in SUBSET File
  BY <1>1 DEF Contents
<1>5. one \in Contents
  BY <1>1, <1>4, PutType
<1> HIDE DEF one, rest, got
<1>6. one[k][n] = rest
  BY <1>1, PutValue DEF one
<1>7. \A s \in SubsOf(k) : s \in Pkg /\ IsSub(s)
  BY <1>1, SubType
<1>8. ~IsSub(k)
  BY DEF IInv, Target, MoveFiles, Working
<1>9. files'[t][n] = got
  BY <1>1, <1>2, <1>3, <1>5, PutValue
<1>10. files'[k][n] = rest
  BY <1>1, <1>2, <1>3, <1>5, <1>6, PutValue
<1>11. \A s \in SubsOf(k) : s # t => files'[s][n] = files[s][n]
  BY <1>2, <1>7, <1>8
<1>. QED  BY <1>9, <1>10, <1>11 DEF rest, got

LEMMA MoveShaValue ==
  ASSUME IInv, NEW r \in Run, MoveShaInfo(r)
  PROVE  LET k == p[r].pkg  n == p[r].new  t == NextMove(r).sub IN
         /\ t \in SubsOf(k)
         /\ sha'[k][n] = sha[k][n] \ NextMove(r).cut
         /\ sha'[t][n] = sha[k][n] \cap NextMove(r).copied
         /\ \A s \in SubsOf(k) : s # t => sha'[s][n] = sha[s][n]
<1> DEFINE k == p[r].pkg  n == p[r].new  t == NextMove(r).sub
           rest == sha[k][n] \ NextMove(r).cut
           got == sha[k][n] \cap NextMove(r).copied
           one == Put(sha, k, n, rest)
<1>0. TypeOK
  BY DEF IInv
<1>1. k \in Pkg /\ n \in Rels /\ sha \in Contents
  BY <1>0, TypeFacts
<1>2. t \in SubsOf(k)
  BY <1>0, NextMoveType DEF MoveShaInfo
<1>3. ~IsSub(k)
  BY DEF IInv, Target, MoveShaInfo, Working
<1>4. \A s \in SubsOf(k) : s \in Pkg /\ s # k
  BY <1>1, <1>3, SubType
<1>5. sha' = Put(one, t, n, got)
  BY DEF MoveShaInfo
<1>6. rest \in SUBSET File
  BY <1>1 DEF Contents
<1>7. one \in Contents
  BY <1>1, <1>6, PutType
<1> HIDE DEF one, rest, got
<1>8. one[k][n] = rest /\ \A s \in SubsOf(k) : one[s][n] = sha[s][n]
  BY <1>1, <1>4, PutValue DEF one
<1>9. sha'[t][n] = got
  BY <1>1, <1>2, <1>4, <1>5, <1>7, PutValue
<1>10. sha'[k][n] = rest
  BY <1>1, <1>2, <1>4, <1>5, <1>7, <1>8, PutValue
<1>11. \A s \in SubsOf(k) : s # t => sha'[s][n] = sha[s][n]
  BY <1>1, <1>2, <1>4, <1>5, <1>7, <1>8, PutValue
<1>. QED  BY <1>2, <1>9, <1>10, <1>11 DEF rest, got

(* While r takes a step, nobody else's build is touched.                      *)
LEMMA OtherBuild ==
  ASSUME IInv, KeepsAFile, NamedByOneRun, NEW r \in Run, NEW q \in Run, q # r, Step(r)
  PROVE  /\ at'[q] = at[q] /\ p'[q] = p[q] /\ moved'[q] = moved[q]
         /\ at[q] \in Working =>
              \A s \in {p[q].pkg} \cup SubsOf(p[q].pkg) : Untouched(p[q].pkg, p[q].new, s)
<1>0. TypeOK
  BY DEF IInv
<1>1. at'[q] = at[q] /\ p'[q] = p[q]
  BY <1>0, Locality
<1>2. moved'[q] = moved[q]
  BY <1>0 DEF Step, Start, Finish, NextEntry, RefreshSub, Reuse, CreatePkgDirs, PlainStep,
              WriteFile, PkgCreate, MoveLogs, DumpSHA256, MoveFiles, MoveShaInfo,
              SubPkgsDone, ReadRels, HandOver, FailClean, Abort, Exit, TypeOK
<1>3. ASSUME at[q] \in Working, NEW s \in {p[q].pkg} \cup SubsOf(p[q].pkg)
      PROVE  Untouched(p[q].pkg, p[q].new, s)
  <2>1. p[q].pkg \in Pkg /\ p[q].new \in Rels /\ ~IsSub(p[q].pkg)
    BY <1>0, <1>3, TypeFacts DEF IInv, Target
  <2>2. s \in Pkg
    BY <1>3, <2>1, SubType
  <2>3. at[r] \in Working => p[q].pkg # p[r].pkg
    BY <1>3, <2>1, OneBuilder DEF Working
  <2>. QED  BY <1>3, <2>1, <2>2, <2>3, StepLocal
<1>. QED  BY <1>1, <1>2, <1>3

LEMMA MadeOther ==
  ASSUME IInv, KeepsAFile, NamedByOneRun, NEW r \in Run, NEW q \in Run, q # r, Step(r), Made(q)
  PROVE  Made(q)'
<1> DEFINE k == p[q].pkg  n == p[q].new
<1>1. at'[q] = at[q] /\ p'[q] = p[q] /\ moved'[q] = moved[q]
  BY OtherBuild
<1>2. MovedSoFar(q)' = MovedSoFar(q)
  BY <1>1 DEF MovedSoFar
<1>3. CASE at[q] \notin Working
  BY <1>1, <1>3 DEF Made, Working, Moving, Created
<1>4. CASE at[q] \in Working
  <2>1. \A s \in {k} \cup SubsOf(k) :
          /\ n \in rels[s] => n \in rels'[s]
          /\ files'[s][n] = files[s][n] /\ sha'[s][n] = sha[s][n]
    BY <1>4, OtherBuild DEF Untouched
  <2>2. at[q] \in Moving => \A i \in 1 .. MovedSoFar(q) : Moves[k][i].sub \in SubsOf(k)
    <3>1. Moves[k] \in Seq(Move)
      BY TypeFacts, BuildAssumption DEF IInv
    <3>2. at[q] \in Moving => MovedSoFar(q) \in 0 .. Len(Moves[k])
      BY DEF Made
    <3>. QED  BY <3>1, <3>2 DEF SubsOf
  <2>. QED  BY <1>1, <1>2, <2>1, <2>2 DEF Made
<1>. QED  BY <1>3, <1>4
LEMMA MadeOwn ==
  ASSUME IInv, NothingLeft, KeepsAFile, NEW r \in Run, Step(r), Made(r)
  PROVE  Made(r)'
<1> DEFINE k == p[r].pkg  n == p[r].new
<1>0. TypeOK
  BY DEF IInv
<1>1. /\ k \in Pkg /\ n \in Rels /\ files \in Contents /\ sha \in Contents
      /\ moved[r] \in Nat /\ Moves[k] \in Seq(Move)
  BY <1>0, TypeFacts, BuildAssumption DEF TypeOK
<1>2. \A s \in SubsOf(k) : s \in Pkg /\ (~IsSub(k) => s # k)
  BY <1>1, SubType
<1>3. at[r] \in Working => ~IsSub(k) /\ HasReleases(k, n + 1)
  BY DEF IInv, Target
<1>4. CASE at'[r] \notin Working
  BY <1>4 DEF Made, Working, Moving, Created
<1>5. CASE Start(r) \/ Finish(r) \/ NextEntry(r) \/ RefreshSub(r) \/ Reuse(r) \/ SubPkgsDone(r)
           \/ ReadRels(r) \/ HandOver(r) \/ FailClean(r) \/ Abort(r)
  BY <1>0, <1>4, <1>5 DEF Start, Finish, NextEntry, RefreshSub, Reuse, SubPkgsDone, ReadRels,
         HandOver, FailClean, Abort, Exit, Goto, TypeOK, Working
<1>6. CASE CreatePkgDirs(r)
  <2>1. /\ at'[r] = "src" /\ p' = p /\ files' = files /\ sha' = sha /\ ~IsSub(k)
        /\ HasReleases(k, n)
    BY <1>0, <1>6 DEF CreatePkgDirs, Goto, TypeOK, IInv, PlanUpToDate
  <2>2. n \notin rels[k]
    BY <1>1, <2>1, BuildAssumption DEF HasReleases, Rels
  <2>3. \A s \in {k} \cup SubsOf(k) : files[s][n] = {} /\ sha[s][n] = {}
    BY <1>1, <2>1, <2>2 DEF NothingLeft
  <2>. QED  BY <2>1, <2>3 DEF Made, Moving, Created
<1>7. CASE PlainStep(r)
  <2>1. /\ at[r] \in DOMAIN Plain /\ at'[r] = Plain[at[r]] /\ p' = p /\ files' = files /\ sha' = sha
    BY <1>0, <1>7 DEF PlainStep, Goto, TypeOK, store
  <2>. QED  BY <2>1 DEF Made, Plain, Working, Moving, Created
<1>8. CASE WriteFile(r)
  <2>1. PICK v : files' = Put(files, k, n, v) /\ \E f \in Recipe[k] : v = files[k][n] \cup {f}
    BY <1>8 DEF WriteFile
  <2>2. at[r] = "create" /\ at' = at /\ p' = p /\ sha' = sha
    BY <1>8 DEF WriteFile
  <2>3. \A s \in SubsOf(k) : s \in Pkg /\ s # k
    BY <1>2, <1>3, <2>2 DEF Working
  <2>a. files' = Put(files, k, n, v)
    BY <2>1
  <2>4. files'[k][n] = v
    BY <1>1, <2>a, PutValue
  <2>5. \A s \in SubsOf(k) : files'[s][n] = files[s][n]
    BY <1>1, <2>a, <2>3, PutValue
  <2>. QED  BY <2>1, <2>2, <2>4, <2>5 DEF Made, Working, Moving, Created
<1>9. CASE PkgCreate(r)
  <2>1. /\ at[r] = "create" /\ at'[r] = "check" /\ p' = p /\ files' = files /\ sha' = sha
        /\ Recipe[k] \subseteq files[k][n]
    BY <1>0, <1>9 DEF PkgCreate, Goto, TypeOK, store
  <2>. QED  BY <2>1 DEF Made, Working, Moving, Created
<1>10. CASE MoveLogs(r)
  <2>1. /\ at[r] = "logs" /\ at'[r] = "help" /\ p' = p /\ files' = files
        /\ sha' = Put(sha, k, n, {})
    BY <1>0, <1>10 DEF MoveLogs, Goto, TypeOK
  <2>2. sha'[k][n] = {} /\ \A s \in SubsOf(k) : sha'[s][n] = sha[s][n]
    BY <1>1, <1>2, <1>3, <2>1, PutValue DEF Working
  <2>. QED  BY <2>1, <2>2 DEF Made, Working, Moving, Created
<1>11. CASE DumpSHA256(r)
  <2>1. at'[r] = "mv" /\ moved'[r] = 0 /\ p' = p
    BY <1>0, <1>11 DEF DumpSHA256, Goto, TypeOK
  <2>2. MovedSoFar(r)' = 0
    BY <2>1 DEF MovedSoFar
  <2>. QED  BY <1>1, <2>1, <2>2 DEF Made, Working, Moving, Created
<1>12. CASE MoveFiles(r)
  <2>1. at[r] = "mv" /\ at'[r] = "mvsha" /\ moved' = moved /\ p' = p /\ moved[r] < Len(Moves[k])
    BY <1>0, <1>12 DEF MoveFiles, Goto, TypeOK
  <2>2. MovedSoFar(r) = moved[r] /\ MovedSoFar(r)' = moved[r] + 1
    BY <2>1 DEF MovedSoFar
  <2>3. \A i \in 1 .. moved[r] : n \in rels[Moves[k][i].sub]
    BY <2>1, <2>2 DEF Made, Moving
  <2>4. NextMove(r).sub \in Pkg /\ rels' = [rels EXCEPT ![NextMove(r).sub] = @ \cup {n}]
    BY <1>12, MoveFilesEffect
  <2>5. \A i \in 1 .. Len(Moves[k]) : Moves[k][i] \in Move
    BY <1>1
  <2>6. \A i \in 1 .. moved[r] + 1 : Moves[k][i].sub \in Pkg
    BY <1>1, <2>1, <2>5 DEF Move
  <2>7. NextMove(r).sub = Moves[k][moved[r] + 1].sub
    BY DEF NextMove
  <2>b. moved[r] \in Nat /\ rels \in [Pkg -> SUBSET Rels] /\ n \in Rels
    BY <1>0, <1>1 DEF TypeOK
  <2>c. \A s \in Pkg : rels'[s] = IF s = NextMove(r).sub THEN rels[s] \cup {n} ELSE rels[s]
    BY <2>4, <2>b
  <2>d. ASSUME NEW i \in 1 .. moved[r] + 1 PROVE n \in rels'[Moves[k][i].sub]
    <3>1. Moves[k][i].sub \in Pkg
      BY <2>6
    <3>2. CASE i = moved[r] + 1
      BY <2>7, <2>c, <3>1, <3>2
    <3>3. CASE i \in 1 .. moved[r]
      BY <2>3, <2>c, <3>1, <3>3
    <3>. QED  BY <2>b, <3>2, <3>3
  <2>8. \A i \in 1 .. moved[r] + 1 : n \in rels'[Moves[k][i].sub]
    BY <2>d
  <2>9. moved[r] + 1 \in 0 .. Len(Moves[k])
    BY <1>1, <2>1
  <2>. QED  BY <2>1, <2>2, <2>8, <2>9 DEF Made, Working, Moving, Created
<1>13. CASE MoveShaInfo(r)
  <2>1. /\ at[r] = "mvsha" /\ at'[r] = "mv" /\ moved'[r] = moved[r] + 1 /\ p' = p /\ rels' = rels
    BY <1>0, <1>13 DEF MoveShaInfo, Goto, TypeOK
  <2>2. MovedSoFar(r)' = MovedSoFar(r)
    BY <2>1 DEF MovedSoFar
  <2>. QED  BY <2>1, <2>2 DEF Made, Working, Moving, Created
<1>. QED
  BY <1>5, <1>6, <1>7, <1>8, <1>9, <1>10, <1>11, <1>12, <1>13 DEF Step
LEMMA NothingLeftNext ==
  ASSUME IInv, NothingLeft, \A q \in Run : Made(q), KeepsAFile, NEW r \in Run, Step(r)
  PROVE  NothingLeft'
<1> DEFINE b == p[r].pkg  m == p[r].new
<1>0. TypeOK
  BY DEF IInv
<1>1. b \in Pkg /\ m \in Rels /\ files \in Contents /\ sha \in Contents
  BY <1>0, TypeFacts
<1>2. SUFFICES ASSUME NEW k \in Pkg, ~IsSub(k), NEW n \in Rels, n \notin rels'[k],
                      NEW s \in {k} \cup SubsOf(k)
               PROVE  files'[s][n] = {} /\ sha'[s][n] = {}
  BY DEF NothingLeft
<1>3. s \in Pkg
  BY <1>2, SubType
<1>4. CASE at[r] \in Working => k # b \/ n # m
  <2>1. \A t \in {k} \cup SubsOf(k) : t \in Pkg
    BY <1>2, SubType
  <2>2. Untouched(k, n, s) /\ Untouched(k, n, k)
    BY <1>2, <1>4, <2>1, StepLocal
  <2>3. n \notin rels[k]
    BY <1>2, <2>2 DEF Untouched
  <2>. QED  BY <1>2, <2>2, <2>3 DEF Untouched, NothingLeft
<1>5. CASE at[r] \in Working /\ k = b /\ n = m
  <2>0. HasReleases(b, m + 1)
    BY <1>5 DEF IInv, Target
  <2>1. n \in rels[k]
    BY <1>1, <1>5, <2>0, BuildAssumption DEF HasReleases, Rels
  <2>2. CASE FailClean(r)
    <3>1. /\ at[r] \in Working \ Moving /\ sha' = sha /\ files' = Put(files, k, n, {})
      BY <1>5, <2>2 DEF FailClean, Working, Moving
    <3>2. sha[k][n] = {} /\ \A t \in SubsOf(k) : files[t][n] = {} /\ sha[t][n] = {}
      BY <1>5, <3>1 DEF Made
    <3>. QED  BY <1>1, <1>2, <1>3, <1>5, <3>1, <3>2, PutValue
  <2>3. CASE MoveFiles(r)
    <3>1. /\ NextMove(r).sub # k
          /\ rels' = [rels EXCEPT ![NextMove(r).sub] = @ \cup {m}]
      BY <1>5, <2>3, MoveFilesEffect
    <3>. QED  BY <1>0, <1>2, <2>1, <3>1 DEF TypeOK
  <2>4. CASE ~FailClean(r) /\ ~MoveFiles(r)
    <3>1. CreatePkgDirs(r) \/ rels' = rels
      BY <2>4 DEF Step, Start, Finish, NextEntry, RefreshSub, Reuse, PlainStep, WriteFile,
                  PkgCreate, MoveLogs, DumpSHA256, MoveShaInfo, SubPkgsDone, ReadRels,
                  HandOver, Abort, store
    <3>2. ~CreatePkgDirs(r)
      BY <1>5 DEF CreatePkgDirs, Working
    <3>. QED  BY <1>2, <2>1, <3>1, <3>2
  <2>. QED  BY <2>2, <2>3, <2>4
<1>. QED  BY <1>4, <1>5

(* Which runs build, and which releases are accounted for, changes only at    *)
(* the beginning and at the end of a build.                                   *)
LEMMA AccountedNext ==
  ASSUME IInv, Accounted, KeepsAFile, NEW r \in Run, Step(r)
  PROVE  Accounted'
<1> DEFINE b == p[r].pkg  m == p[r].new
<1>0. TypeOK
  BY DEF IInv
<1>1. b \in Pkg /\ m \in Rels
  BY <1>0, TypeFacts
<1>2. SUFFICES ASSUME NEW k \in Pkg, ~IsSub(k), NEW n \in rels'[k]
               PROVE  <<k, n>> \in done' \cup abandoned' \/ \E q \in Run : Builds(q, k, n)'
  BY DEF Accounted
<1>3. done \subseteq done' /\ abandoned \subseteq abandoned'
  BY DEF Step, Start, Finish, NextEntry, RefreshSub, Reuse, CreatePkgDirs, PlainStep, WriteFile,
         PkgCreate, MoveLogs, DumpSHA256, MoveFiles, MoveShaInfo, SubPkgsDone, ReadRels,
         HandOver, FailClean, Abort
<1>4. ASSUME NEW q \in Run, q # r, Builds(q, k, n) PROVE Builds(q, k, n)'
  BY <1>0, <1>4, Locality DEF Builds
<1>5. CASE CreatePkgDirs(r)
  <2>1. at'[r] = "src" /\ p' = p /\ rels' = [rels EXCEPT ![b] = @ \cup {m}]
    BY <1>0, <1>5 DEF CreatePkgDirs, Goto, TypeOK
  <2>2. CASE k = b /\ n = m
    BY <2>1, <2>2 DEF Builds, Working
  <2>3. CASE ~(k = b /\ n = m)
    <3>1. n \in rels[k]
      BY <1>0, <1>2, <2>1, <2>3 DEF TypeOK
    <3>2. ~Builds(r, k, n)
      BY <1>5 DEF CreatePkgDirs, Builds, Working
    <3>. QED  BY <1>2, <1>3, <1>4, <3>1, <3>2 DEF Accounted
  <2>. QED  BY <2>2, <2>3
<1>6. CASE ~CreatePkgDirs(r)
  <2>1. n \in rels[k]
    <3>1. CASE MoveFiles(r)
      <4>1. IsSub(NextMove(r).sub) /\ rels' = [rels EXCEPT ![NextMove(r).sub] = @ \cup {m}]
        BY <3>1, MoveFilesEffect
      <4>. QED  BY <1>0, <1>2, <4>1 DEF TypeOK
    <3>2. CASE FailClean(r)
      BY <1>0, <1>2, <3>2 DEF FailClean, TypeOK
    <3>3. CASE ~MoveFiles(r) /\ ~FailClean(r)
      BY <1>2, <1>6, <3>3 DEF Step, Start, Finish, NextEntry, RefreshSub, Reuse, PlainStep,
         WriteFile, PkgCreate, MoveLogs, DumpSHA256, MoveShaInfo, SubPkgsDone, ReadRels,
         HandOver, Abort, store
    <3>. QED  BY <3>1, <3>2, <3>3
  <2>2. CASE ~Builds(r, k, n)
    BY <1>2, <1>3, <1>4, <2>1, <2>2 DEF Accounted
  <2>3. CASE Builds(r, k, n)
    <3>1. at[r] \in Working /\ b = k /\ m = n
      BY <2>3 DEF Builds
    <3>2. CASE SubPkgsDone(r)
      BY <3>1, <3>2 DEF SubPkgsDone
    <3>3. CASE Abort(r)
      BY <3>1, <3>3 DEF Abort
    <3>4. CASE FailClean(r)
      <4>1. rels' = [rels EXCEPT ![b] = @ \ {m}]
        BY <3>4 DEF FailClean
      <4>. QED  BY <1>0, <1>2, <3>1, <4>1 DEF TypeOK
    <3>5. CASE PlainStep(r)
      <4>1. p' = p /\ at'[r] = Plain[at[r]] /\ at[r] \in DOMAIN Plain
        BY <1>0, <3>5 DEF PlainStep, Goto, TypeOK
      <4>. QED  BY <3>1, <4>1 DEF Builds, Plain, Working
    <3>6. CASE WriteFile(r) \/ PkgCreate(r) \/ MoveLogs(r) \/ DumpSHA256(r) \/ MoveFiles(r)
               \/ MoveShaInfo(r)
      <4>1. p' = p /\ at'[r] \in Working
        BY <1>0, <3>6 DEF WriteFile, PkgCreate, MoveLogs, DumpSHA256, MoveFiles, MoveShaInfo,
                          Goto, TypeOK, Working
      <4>. QED  BY <3>1, <4>1 DEF Builds
    <3>7. CASE Start(r) \/ Finish(r) \/ NextEntry(r) \/ RefreshSub(r) \/ Reuse(r)
               \/ ReadRels(r) \/ HandOver(r)
      BY <3>1, <3>7 DEF Start, Finish, NextEntry, RefreshSub, Reuse, ReadRels, HandOver, Working
    <3>. QED  BY <1>6, <3>2, <3>3, <3>4, <3>5, <3>6, <3>7 DEF Step
  <2>. QED  BY <2>2, <2>3
<1>. QED  BY <1>5, <1>6
\* a release becomes done when all its patterns have been moved
LEMMA BecomesDone ==
  ASSUME IInv, KeepsAFile, NEW r \in Run, Step(r), NEW d \in done' \ done, Made(r)
  PROVE  /\ at[r] = "mv" /\ moved[r] = Len(Moves[d[1]]) /\ UNCHANGED store
         /\ d[1] = p[r].pkg /\ d[2] = p[r].new
         /\ \A i \in DOMAIN Moves[d[1]] : d[2] \in rels[Moves[d[1]][i].sub]
<1>0. TypeOK
  BY DEF IInv
<1>1. d = <<p[r].pkg, p[r].new>>
  BY StepEffect
<1>2. SubPkgsDone(r)
  BY DEF Step, Start, Finish, NextEntry, RefreshSub, Reuse, CreatePkgDirs, PlainStep, WriteFile,
         PkgCreate, MoveLogs, DumpSHA256, MoveFiles, MoveShaInfo, ReadRels, HandOver, FailClean,
         Abort
<1>3. at[r] = "mv" /\ moved[r] = Len(Moves[p[r].pkg]) /\ UNCHANGED store
  BY <1>2 DEF SubPkgsDone
<1>4. MovedSoFar(r) = moved[r]
  BY <1>3 DEF MovedSoFar
<1>5. \A i \in 1 .. moved[r] : p[r].new \in rels[Moves[p[r].pkg][i].sub]
  BY <1>3, <1>4 DEF Made, Moving
<1>6. DOMAIN Moves[p[r].pkg] = 1 .. Len(Moves[p[r].pkg])
  BY <1>0, TypeFacts, BuildAssumption
<1>. QED  BY <1>1, <1>3, <1>5, <1>6

\* what is done keeps its files and its logs
LEMMA DoneKept ==
  ASSUME IInv, KeepsAFile, NEW r \in Run, Step(r), NEW d \in done
  PROVE  \A s \in {d[1]} \cup SubsOf(d[1]) : Untouched(d[1], d[2], s)
<1>1. d[1] \in Pkg /\ d[2] \in Rels /\ d = <<d[1], d[2]>>
  BY DEF IInv, TypeOK
<1>. QED  BY <1>1, SubType, DoneUntouched

LEMMA DoneHasSubsNext ==
  ASSUME IInv, DoneHasSubs, KeepsAFile, NEW r \in Run, Step(r), Made(r)
  PROVE  DoneHasSubs'
<1>1. SUFFICES ASSUME NEW d \in done', NEW s \in SubsOf(d[1])
               PROVE  d[2] \in rels'[s]
  BY DEF DoneHasSubs
<1>2. CASE d \in done
  BY <1>1, <1>2, DoneKept DEF Untouched, DoneHasSubs
<1>3. CASE d \notin done
  BY <1>1, <1>3, BecomesDone DEF SubsOf, store
<1>. QED  BY <1>2, <1>3

LEMMA WInvInit == Init => WInv
<1>. SUFFICES ASSUME Init PROVE WInv
  OBVIOUS
<1>1. IInv
  BY IInvInit
<1>2. NothingLeft
  <2>1. \A k \in Pkg : \A s \in SubsOf(k) : s \in Pkg
    BY SubType
  <2>. QED  BY <2>1 DEF Init, NothingLeft
<1>3. \A r \in Run : Made(r)
  BY DEF Init, Made, Working, Moving, Created
<1>4. Accounted /\ DoneHasSubs
  BY DEF Init, Accounted, DoneHasSubs
<1>. QED  BY <1>1, <1>2, <1>3, <1>4 DEF WInv

LEMMA WInvNext ==
  ASSUME Disjoint, KeepsAFile, WInv, [Next]_vars
  PROVE  WInv'
<1>0. IInv'
  BY IInvNext DEF WInv
<1>1. CASE UNCHANGED vars
  <2>1. /\ rels' = rels /\ files' = files /\ sha' = sha /\ at' = at /\ p' = p
        /\ moved' = moved /\ done' = done /\ abandoned' = abandoned
    BY <1>1 DEF vars, store
  <2>2. NothingLeft' /\ (\A r \in Run : Made(r)')
    BY <2>1 DEF WInv, NothingLeft, Made, MovedSoFar
  <2>3. Accounted' /\ DoneHasSubs'
    BY <2>1 DEF WInv, Accounted, DoneHasSubs, Builds
  <2>. QED  BY <1>0, <2>2, <2>3 DEF WInv
<1>2. ASSUME NEW r \in Run, Step(r) PROVE WInv'
  <2>1. \A q \in Run : Made(q)'
    BY <1>2, MadeOwn, MadeOther DEF WInv, Disjoint
  <2>2. NothingLeft' /\ Accounted' /\ DoneHasSubs'
    BY <1>2, NothingLeftNext, AccountedNext, DoneHasSubsNext DEF WInv
  <2>. QED  BY <1>0, <2>1, <2>2 DEF WInv
<1>. QED  BY <1>1, <1>2 DEF Next

LEMMA MovedStep ==
  ASSUME NEW k \in Pkg, NEW m \in Nat
  PROVE  /\ MovedBy(k, 0) = {}
         /\ MovedBy(k, m + 1) = MovedBy(k, m) \cup Moves[k][m + 1].files
<1>1. 1 .. 0 = {} /\ 1 .. m + 1 = (1 .. m) \cup {m + 1}
  OBVIOUS
<1>. QED  BY <1>1 DEF MovedBy

LEMMA GivenStep ==
  ASSUME NEW k \in Pkg, NEW m \in Nat, NEW s
  PROVE  /\ GivenTo(k, 0, s) = {}
         /\ GivenTo(k, m + 1, s) =
              GivenTo(k, m, s) \cup (IF Moves[k][m + 1].sub = s THEN Moves[k][m + 1].files ELSE {})
<1>1. 1 .. 0 = {} /\ 1 .. m + 1 = (1 .. m) \cup {m + 1}
  OBVIOUS
<1>2. {j \in 1 .. m + 1 : Moves[k][j].sub = s} =
        {j \in 1 .. m : Moves[k][j].sub = s} \cup (IF Moves[k][m + 1].sub = s THEN {m + 1} ELSE {})
  BY <1>1
<1>. QED  BY <1>1, <1>2 DEF GivenTo

LEMMA GivenNext ==
  ASSUME NEW k \in Pkg, NEW m \in Nat, NEW t, NEW F,
         t = Moves[k][m + 1].sub, F = Moves[k][m + 1].files
  PROVE  \A s : GivenTo(k, m + 1, s) = GivenTo(k, m, s) \cup (IF t = s THEN F ELSE {})
<1>1. SUFFICES ASSUME NEW s
               PROVE  GivenTo(k, m + 1, s) = GivenTo(k, m, s) \cup (IF t = s THEN F ELSE {})
  OBVIOUS
<1>. QED  BY GivenStep

\* the patterns moved so far are patterns of the package
LEMMA MovingFacts ==
  ASSUME IInv, NEW r \in Run, at[r] \in Moving, Made(r)
  PROVE  /\ p[r].pkg \in Pkg /\ p[r].new \in Rels /\ moved[r] \in Nat
         /\ MovedSoFar(r) \in 0 .. Len(Moves[p[r].pkg])
         /\ DOMAIN Moves[p[r].pkg] = 1 .. Len(Moves[p[r].pkg])
         /\ Len(Moves[p[r].pkg]) \in Nat
         /\ \A j \in DOMAIN Moves[p[r].pkg] : Moves[p[r].pkg][j].sub \in SubsOf(p[r].pkg)
<1>1. p[r].pkg \in Pkg /\ p[r].new \in Rels /\ moved[r] \in Nat
  BY TypeFacts DEF IInv, TypeOK
<1>2. Moves[p[r].pkg] \in Seq(Move)
  BY <1>1, BuildAssumption
<1>3. MovedSoFar(r) \in 0 .. Len(Moves[p[r].pkg])
  BY DEF Made
<1>. QED  BY <1>1, <1>2, <1>3 DEF SubsOf

LEMMA FiledOther ==
  ASSUME IInv, KeepsAFile, NamedByOneRun, NEW r \in Run, NEW q \in Run, q # r, Step(r), Filed(q)
  PROVE  Filed(q)'
<1> DEFINE k == p[q].pkg  n == p[q].new
<1>1. at'[q] = at[q] /\ p'[q] = p[q] /\ moved'[q] = moved[q]
  BY OtherBuild
<1>2. MovedSoFar(q)' = MovedSoFar(q)
  BY <1>1 DEF MovedSoFar
<1>3. at[q] \in Moving =>
        \A s \in {k} \cup SubsOf(k) : files'[s][n] = files[s][n]
  BY OtherBuild DEF Untouched, Working, Moving
<1>. QED  BY <1>1, <1>2, <1>3 DEF Filed

\* only these three steps lead to the moving of files, or go on with it
LEMMA EndsMoving ==
  ASSUME TypeOK, NEW r \in Run, Step(r), ~DumpSHA256(r), ~MoveFiles(r), ~MoveShaInfo(r)
  PROVE  at'[r] \notin Moving
<1>1. CASE PlainStep(r)
  BY <1>1 DEF PlainStep, Plain, Goto, TypeOK, Moving
<1>2. CASE ~PlainStep(r)
  BY <1>2 DEF Step, Start, Finish, NextEntry, RefreshSub, Reuse, CreatePkgDirs, WriteFile,
         PkgCreate, MoveLogs, SubPkgsDone, ReadRels, HandOver, FailClean, Abort, Exit, Goto,
         TypeOK, Moving
<1>. QED  BY <1>1, <1>2

LEMMA FiledOwn ==
  ASSUME IInv, PatternsApart, KeepsAFile, NEW r \in Run, Step(r), Made(r), Filed(r)
  PROVE  Filed(r)'
<1> DEFINE k == p[r].pkg  n == p[r].new
<1>0. TypeOK
  BY DEF IInv
<1>1. k \in Pkg /\ moved[r] \in Nat
  BY <1>0, TypeFacts DEF TypeOK
<1>2. CASE DumpSHA256(r)
  <2>1. /\ at[r] = "sha" /\ at'[r] = "mv" /\ moved'[r] = 0 /\ p' = p /\ files' = files
    BY <1>0, <1>2 DEF DumpSHA256, Goto, TypeOK
  <2>2. files[k][n] = Recipe[k] /\ \A s \in SubsOf(k) : files[s][n] = {}
    BY <2>1 DEF Made, Created, Working, Moving
  <2>3. MovedSoFar(r)' = 0
    BY <2>1 DEF MovedSoFar
  <2>4. MovedBy(k, 0) = {} /\ \A s : GivenTo(k, 0, s) = {}
    BY <1>1, MovedStep, GivenStep
  <2>. QED  BY <2>1, <2>2, <2>3, <2>4 DEF Filed
<1>3. CASE MoveFiles(r)
  <2> DEFINE m == moved[r]  t == NextMove(r).sub  F == NextMove(r).files
  <2>1. /\ at[r] = "mv" /\ at'[r] = "mvsha" /\ moved' = moved /\ p' = p
    BY <1>0, <1>3 DEF MoveFiles, Goto, TypeOK
  <2>2. MovedSoFar(r) = m /\ MovedSoFar(r)' = m + 1
    BY <2>1 DEF MovedSoFar
  <2>3. /\ files[k][n] = Recipe[k] \ MovedBy(k, m)
        /\ \A s \in SubsOf(k) : files[s][n] = Recipe[k] \cap GivenTo(k, m, s)
    BY <2>1, <2>2 DEF Filed, Moving
  <2>4. /\ files'[k][n] = files[k][n] \ F
        /\ files'[t][n] = files[t][n] \cup (files[k][n] \cap F)
        /\ \A s \in SubsOf(k) : s # t => files'[s][n] = files[s][n]
    BY <1>3, MoveFilesValue
  <2>5. t \in SubsOf(k)
    BY <1>3, MoveFilesEffect
  <2>6. t = Moves[k][m + 1].sub /\ F = Moves[k][m + 1].files
    BY DEF NextMove
  <2>7. MovedBy(k, m + 1) = MovedBy(k, m) \cup F
    BY <1>1, <2>6, MovedStep
  <2>8. ASSUME NEW s
        PROVE  GivenTo(k, m + 1, s) = GivenTo(k, m, s) \cup (IF t = s THEN F ELSE {})
    BY <1>1, <2>6, GivenNext
  <2>9. /\ GivenTo(k, m + 1, t) = GivenTo(k, m, t) \cup F
        /\ \A s : s # t => GivenTo(k, m + 1, s) = GivenTo(k, m, s)
    <3> HIDE DEF k, m, t, F
    <3>. QED  BY <2>8
  <2>10. F \cap MovedBy(k, m) \subseteq GivenTo(k, m, t)
    <3>1. m \in 0 .. Len(Moves[k]) /\ m + 1 \in DOMAIN Moves[k] /\ 1 .. m \subseteq DOMAIN Moves[k]
      BY <2>1, <2>2, <1>1, <1>3, MovingFacts DEF MoveFiles, Moving
    <3>2. SUFFICES ASSUME NEW i \in 1 .. m, NEW f \in Moves[k][i].files \cap F
                   PROVE  Moves[k][i].sub = t
      BY DEF MovedBy, GivenTo
    <3>. QED  BY <1>1, <2>6, <3>1, <3>2 DEF PatternsApart
  <2> HIDE DEF k, n, m, t, F
  <2>11. files'[k][n] = Recipe[k] \ MovedBy(k, m + 1)
    BY <2>3, <2>4, <2>7
  <2>12. files'[t][n] = Recipe[k] \cap GivenTo(k, m + 1, t)
    BY <2>3, <2>4, <2>5, <2>9, <2>10
  <2>13. \A s \in SubsOf(k) : s # t => files'[s][n] = Recipe[k] \cap GivenTo(k, m + 1, s)
    BY <2>3, <2>4, <2>9
  <2>. QED  BY <2>1, <2>2, <2>11, <2>12, <2>13 DEF Filed, k, n, m
<1>4. CASE MoveShaInfo(r)
  <2>1. /\ at[r] = "mvsha" /\ at'[r] = "mv" /\ moved'[r] = moved[r] + 1 /\ p' = p /\ files' = files
    BY <1>0, <1>4 DEF MoveShaInfo, Goto, TypeOK
  <2>2. MovedSoFar(r)' = MovedSoFar(r)
    BY <2>1 DEF MovedSoFar
  <2>. QED  BY <2>1, <2>2 DEF Filed, Moving
<1>5. CASE ~DumpSHA256(r) /\ ~MoveFiles(r) /\ ~MoveShaInfo(r)
  <2>1. at'[r] \notin Moving
    BY <1>0, <1>5, EndsMoving
  <2>. QED  BY <2>1 DEF Filed
<1>. QED  BY <1>2, <1>3, <1>4, <1>5

LEMMA CompleteNext ==
  ASSUME FInv, KeepsAFile, NEW r \in Run, Step(r), NEW d \in done'
  PROVE  Complete(d[1], d[2])'
<1> DEFINE k == d[1]  n == d[2]
<1>0. IInv /\ Made(r) /\ Filed(r)
  BY DEF FInv, WInv
<1>1. CASE d \in done
  <2>1. \A s \in {k} \cup SubsOf(k) : Untouched(k, n, s)
    BY <1>0, <1>1, DoneKept
  <2>2. Complete(k, n)
    BY <1>1 DEF FInv
  <2>. QED  BY <2>1, <2>2 DEF Complete, Holds, Untouched
<1>2. CASE d \notin done
  <2>1. /\ at[r] = "mv" /\ moved[r] = Len(Moves[k]) /\ UNCHANGED store
        /\ k = p[r].pkg /\ n = p[r].new
        /\ \A i \in DOMAIN Moves[k] : n \in rels[Moves[k][i].sub]
    BY <1>0, <1>2, BecomesDone
  <2>2. /\ k \in Pkg /\ n \in Rels /\ DOMAIN Moves[k] = 1 .. Len(Moves[k])
    BY <1>0, <2>1, MovingFacts DEF Moving
  <2>3. MovedSoFar(r) = Len(Moves[k])
    BY <2>1 DEF MovedSoFar
  <2>4. MovedBy(k, Len(Moves[k])) = MovedFiles(k)
    BY <2>2 DEF MovedBy, MovedFiles
  <2>5. \A s : Recipe[k] \cap GivenTo(k, Len(Moves[k]), s) = FinalSub(k, s)
    BY <2>2 DEF GivenTo, FinalSub
  <2>6. /\ files[k][n] = Final(k)
        /\ \A s \in SubsOf(k) : files[s][n] = FinalSub(k, s)
    BY <1>0, <2>1, <2>3, <2>4, <2>5 DEF Filed, Moving, Final
  <2>7. HasReleases(k, n + 1)
    BY <1>0, <2>1 DEF IInv, Target, Working
  <2>8. n \in rels[k]
    BY <2>2, <2>7, BuildAssumption DEF HasReleases, Rels
  <2>9. \A s \in SubsOf(k) : n \in rels[s]
    BY <2>1 DEF SubsOf
  <2>. QED  BY <2>1, <2>6, <2>8, <2>9 DEF Complete, Holds, store
<1>. QED  BY <1>1, <1>2

LEMMA FInvNext ==
  ASSUME Disjoint, KeepsAFile, PatternsApart, FInv, [Next]_vars
  PROVE  FInv'
<1>0. WInv'
  BY WInvNext DEF FInv
<1>1. CASE UNCHANGED vars
  <2>1. /\ rels' = rels /\ files' = files /\ at' = at /\ p' = p /\ moved' = moved /\ done' = done
    BY <1>1 DEF vars, store
  <2>2. (\A r \in Run : Filed(r)') /\ \A d \in done' : Complete(d[1], d[2])'
    BY <2>1 DEF FInv, Filed, MovedSoFar, Complete, Holds
  <2>. QED  BY <1>0, <2>2 DEF FInv
<1>2. ASSUME NEW r \in Run, Step(r) PROVE FInv'
  <2>1. \A q \in Run : Filed(q)'
    BY <1>2, FiledOwn, FiledOther DEF FInv, WInv, Disjoint
  <2>2. \A d \in done' : Complete(d[1], d[2])'
    BY <1>2, CompleteNext
  <2>. QED  BY <1>0, <2>1, <2>2 DEF FInv
<1>. QED  BY <1>1, <1>2 DEF Next

(* A failed build leaves nothing behind.  Under the conditions on set files   *)
(* and recipes, every release directory is complete, with its sub-packages,   *)
(* or is being built, or was left by an exit that does not clean up.          *)
THEOREM OnlyAbandonedIsIncomplete ==
  ASSUME Disjoint, KeepsAFile, PatternsApart
  PROVE  Spec => []IncompleteOnlyIfAbandoned
<1>1. Init => FInv
  BY WInvInit DEF FInv, Init, Filed, Moving
<1>2. FInv /\ [Next]_vars => FInv'
  BY FInvNext
<1>3. FInv => IncompleteOnlyIfAbandoned
  BY DEF FInv, WInv, Accounted, IncompleteOnlyIfAbandoned
<1>. QED  BY <1>1, <1>2, <1>3, PTL DEF Spec
-----------------------------------------------------------------------------
(* The sha256.log of a release and of its sub-packages.                       *)
LEMMA CutStep ==
  ASSUME NEW k \in Pkg, NEW m \in Nat
  PROVE  /\ CutBy(k, 0) = {}
         /\ CutBy(k, m + 1) = CutBy(k, m) \cup Moves[k][m + 1].cut
<1>1. 1 .. 0 = {} /\ 1 .. (m + 1) = (1 .. m) \cup {m + 1}
  OBVIOUS
<1>. QED  BY <1>1 DEF CutBy

\* it goes by what is in the package and in its sub-packages
LEMMA AsMovedKept ==
  ASSUME NEW k, NEW n, NEW m, NEW l, AsMoved(k, n, m, l),
         \A s \in {k} \cup SubsOf(k) : files'[s][n] = files[s][n] /\ sha'[s][n] = sha[s][n]
  PROVE  AsMoved(k, n, m, l)'
<1>1. \A i \in DOMAIN Moves[k] : Moves[k][i].sub \in SubsOf(k)
  BY DEF SubsOf
<1>. QED  BY <1>1 DEF AsMoved

LEMMA LoggedOther ==
  ASSUME IInv, KeepsAFile, NamedByOneRun, NEW r \in Run, NEW q \in Run, q # r, Step(r), Logged(q)
  PROVE  Logged(q)'
<1>1. at'[q] = at[q] /\ p'[q] = p[q] /\ moved'[q] = moved[q]
  BY OtherBuild
<1>2. MovedSoFar(q)' = MovedSoFar(q)
  BY <1>1 DEF MovedSoFar
<1>3. CASE at[q] \notin Moving
  BY <1>1, <1>3 DEF Logged
<1>4. CASE at[q] \in Moving
  <2>1. PICK k, n, m, l : k = p[q].pkg /\ n = p[q].new /\ m = MovedSoFar(q) /\ l = moved[q]
    OBVIOUS
  <2>2. \A s \in {k} \cup SubsOf(k) : files'[s][n] = files[s][n] /\ sha'[s][n] = sha[s][n]
    BY <1>4, <2>1, OtherBuild DEF Untouched, Working, Moving
  <2>3. AsMoved(k, n, m, l)
    BY <1>4, <2>1 DEF Logged
  <2>4. AsMoved(k, n, m, l)'
    BY <2>2, <2>3, AsMovedKept
  <2>5. k = p'[q].pkg /\ n = p'[q].new /\ m = MovedSoFar(q)' /\ l = moved'[q]
    BY <1>1, <1>2, <2>1
  <2>. QED  BY <2>4, <2>5 DEF Logged
<1>. QED  BY <1>3, <1>4

LEMMA LoggedOwn ==
  ASSUME IInv, OnePattern, KeepsAFile, NEW r \in Run, Step(r), Made(r), Logged(r)
  PROVE  Logged(r)'
<1>0. TypeOK
  BY DEF IInv
<1>1. PICK k, n, m : k = p[r].pkg /\ n = p[r].new /\ m = moved[r]
  OBVIOUS
<1>2. k \in Pkg /\ n \in Rels /\ m \in Nat /\ sha \in Contents /\ files[k][n] \in SUBSET File
  <2>1. k \in Pkg /\ n \in Rels /\ m \in Nat /\ sha \in Contents /\ files \in Contents
    BY <1>0, <1>1, TypeFacts DEF TypeOK
  <2>. QED  BY <2>1 DEF Contents
<1>3. \A s \in SubsOf(k) : s \in Pkg /\ (~IsSub(k) => s # k)
  BY <1>2, SubType
<1>4. \A i \in DOMAIN Moves[k] : Moves[k][i].sub \in SubsOf(k)
  BY DEF SubsOf
<1>5. \A i \in DOMAIN Moves[k] : i \in Nat /\ i >= 1
  BY <1>2, BuildAssumption
<1>6. CASE DumpSHA256(r)
  <2>1. /\ at[r] = "sha" /\ at'[r] = "mv" /\ moved'[r] = 0 /\ p' = p /\ files' = files
        /\ sha' = Put(sha, k, n, files[k][n])
    BY <1>0, <1>1, <1>6 DEF DumpSHA256, Goto, TypeOK
  <2>2. files[k][n] = Recipe[k] /\ \A s \in SubsOf(k) : files[s][n] = {} /\ sha[s][n] = {}
    BY <1>1, <2>1 DEF Made, Created, Working, Moving
  <2>3. ~IsSub(k)
    BY <1>1, <2>1 DEF IInv, Target, Working
  <2>4. sha'[k][n] = Recipe[k]
    BY <1>2, <2>1, <2>2, PutValue
  <2>5. \A s \in SubsOf(k) : sha'[s][n] = {}
    BY <1>2, <1>3, <2>1, <2>2, <2>3, PutValue
  <2>6. Left(k, 0) = Recipe[k] /\ LinesLeft(k, 0) = Recipe[k]
    BY <1>2, MovedStep, CutStep DEF Left, LinesLeft
  <2>7. AsMoved(k, n, 0, 0)'
    <3>1. ASSUME NEW i \in DOMAIN Moves[k]
          PROVE  /\ files'[Moves[k][i].sub][n] = {} /\ sha'[Moves[k][i].sub][n] = {}
                 /\ ~(i <= 0)
      BY <1>4, <1>5, <2>1, <2>2, <2>5
    <3>2. files'[k][n] = Left(k, 0) /\ sha'[k][n] = LinesLeft(k, 0)
      BY <2>1, <2>2, <2>4, <2>6
    <3>. QED  BY <3>1, <3>2 DEF AsMoved
  <2>8. k = p'[r].pkg /\ n = p'[r].new /\ MovedSoFar(r)' = 0 /\ moved'[r] = 0
    BY <1>1, <2>1 DEF MovedSoFar
  <2>. QED  BY <2>7, <2>8 DEF Logged
<1>7. CASE MoveFiles(r)
  <2>1. /\ at[r] = "mv" /\ at'[r] = "mvsha" /\ moved' = moved /\ p' = p /\ sha' = sha
    BY <1>0, <1>7 DEF MoveFiles, Goto, TypeOK
  <2>2. MovedSoFar(r) = m /\ MovedSoFar(r)' = m + 1
    BY <1>1, <2>1 DEF MovedSoFar
  <2>3. AsMoved(k, n, m, m)
    BY <1>1, <2>1, <2>2 DEF Logged, Moving
  <2>4. PICK q : q = Moves[k][m + 1] /\ q = NextMove(r)
    BY <1>1 DEF NextMove
  <2>5. /\ files'[k][n] = files[k][n] \ q.files
        /\ files'[q.sub][n] = files[q.sub][n] \cup (files[k][n] \cap q.files)
        /\ \A s \in SubsOf(k) : s # q.sub => files'[s][n] = files[s][n]
    BY <1>1, <1>7, <2>4, MoveFilesValue
  <2>6. m + 1 \in DOMAIN Moves[k]
    BY <1>1, <1>2, <1>7, <2>1, MovingFacts DEF MoveFiles, Moving
  <2>7. Left(k, m + 1) = Left(k, m) \ q.files
    BY <1>2, <2>4, MovedStep DEF Left
  <2>8. ASSUME NEW i \in DOMAIN Moves[k]
        PROVE  /\ files'[Moves[k][i].sub][n] =
                    IF i <= m + 1 THEN Left(k, i - 1) \cap Moves[k][i].files ELSE {}
               /\ sha'[Moves[k][i].sub][n] =
                    IF i <= m THEN LinesLeft(k, i - 1) \cap Moves[k][i].copied ELSE {}
    <3>1. /\ files[Moves[k][i].sub][n] = IF i <= m THEN Left(k, i - 1) \cap Moves[k][i].files ELSE {}
          /\ sha[Moves[k][i].sub][n] = IF i <= m THEN LinesLeft(k, i - 1) \cap Moves[k][i].copied ELSE {}
      BY <2>3 DEF AsMoved
    <3>2. CASE i = m + 1
      <4>1. ~(i <= m) /\ i <= m + 1 /\ i - 1 = m
        BY <1>2, <3>2
      <4>2. files[k][n] = Left(k, m)
        BY <2>3 DEF AsMoved
      <4>3. files'[Moves[k][i].sub][n] = Left(k, m) \cap Moves[k][i].files
        BY <2>4, <2>5, <3>1, <3>2, <4>1, <4>2
      <4>. QED  BY <2>1, <3>1, <4>1, <4>3
    <3>3. CASE i # m + 1
      <4>1. i <= m + 1 <=> i <= m
        BY <1>2, <1>5, <3>3
      <4>2. Moves[k][i].sub # q.sub
        BY <1>2, <2>4, <2>6, <3>3 DEF OnePattern
      <4>3. files'[Moves[k][i].sub][n] = files[Moves[k][i].sub][n]
        BY <1>4, <2>5, <4>2
      <4>. QED  BY <2>1, <3>1, <4>1, <4>3
    <3>. QED  BY <3>2, <3>3
  <2>9. files'[k][n] = Left(k, m + 1) /\ sha'[k][n] = LinesLeft(k, m)
    BY <2>1, <2>3, <2>5, <2>7 DEF AsMoved
  <2>10. AsMoved(k, n, m + 1, m)'
    BY <2>8, <2>9 DEF AsMoved
  <2>11. k = p'[r].pkg /\ n = p'[r].new /\ MovedSoFar(r)' = m + 1 /\ moved'[r] = m
    BY <1>1, <2>1, <2>2
  <2>. QED  BY <2>10, <2>11 DEF Logged
<1>8. CASE MoveShaInfo(r)
  <2>1. /\ at[r] = "mvsha" /\ at'[r] = "mv" /\ moved'[r] = m + 1 /\ p' = p /\ files' = files
        /\ m < Len(Moves[k])
    BY <1>0, <1>1, <1>8 DEF MoveShaInfo, Goto, TypeOK
  <2>2. MovedSoFar(r) = m + 1 /\ MovedSoFar(r)' = m + 1
    BY <1>1, <2>1 DEF MovedSoFar
  <2>3. AsMoved(k, n, m + 1, m)
    BY <1>1, <2>1, <2>2 DEF Logged, Moving
  <2>4. PICK q : q = Moves[k][m + 1] /\ q = NextMove(r)
    BY <1>1 DEF NextMove
  <2>5. /\ sha'[k][n] = sha[k][n] \ q.cut
        /\ sha'[q.sub][n] = sha[k][n] \cap q.copied
        /\ \A s \in SubsOf(k) : s # q.sub => sha'[s][n] = sha[s][n]
    BY <1>1, <1>8, <2>4, MoveShaValue
  <2>6. m + 1 \in DOMAIN Moves[k]
    BY <1>2, <2>1, BuildAssumption
  <2>7. LinesLeft(k, m + 1) = LinesLeft(k, m) \ q.cut
    BY <1>2, <2>4, CutStep DEF LinesLeft
  <2>8. ASSUME NEW i \in DOMAIN Moves[k]
        PROVE  /\ files'[Moves[k][i].sub][n] =
                    IF i <= m + 1 THEN Left(k, i - 1) \cap Moves[k][i].files ELSE {}
               /\ sha'[Moves[k][i].sub][n] =
                    IF i <= m + 1 THEN LinesLeft(k, i - 1) \cap Moves[k][i].copied ELSE {}
    <3>1. /\ files[Moves[k][i].sub][n] = IF i <= m + 1 THEN Left(k, i - 1) \cap Moves[k][i].files ELSE {}
          /\ sha[Moves[k][i].sub][n] = IF i <= m THEN LinesLeft(k, i - 1) \cap Moves[k][i].copied ELSE {}
      BY <2>3 DEF AsMoved
    <3>2. CASE i = m + 1
      <4>1. i <= m + 1 /\ i - 1 = m
        BY <1>2, <3>2
      <4>2. sha[k][n] = LinesLeft(k, m)
        BY <2>3 DEF AsMoved
      <4>3. sha'[Moves[k][i].sub][n] = LinesLeft(k, m) \cap Moves[k][i].copied
        BY <2>4, <2>5, <3>2, <4>2
      <4>. QED  BY <2>1, <3>1, <4>1, <4>3
    <3>3. CASE i # m + 1
      <4>1. i <= m + 1 <=> i <= m
        BY <1>2, <1>5, <3>3
      <4>2. Moves[k][i].sub # q.sub
        BY <1>2, <2>4, <2>6, <3>3 DEF OnePattern
      <4>3. sha'[Moves[k][i].sub][n] = sha[Moves[k][i].sub][n]
        BY <1>4, <2>5, <4>2
      <4>. QED  BY <2>1, <3>1, <4>1, <4>3
    <3>. QED  BY <3>2, <3>3
  <2>9. files'[k][n] = Left(k, m + 1) /\ sha'[k][n] = LinesLeft(k, m + 1)
    BY <2>1, <2>3, <2>5, <2>7 DEF AsMoved
  <2>10. AsMoved(k, n, m + 1, m + 1)'
    BY <2>8, <2>9 DEF AsMoved
  <2>11. k = p'[r].pkg /\ n = p'[r].new
    BY <1>1, <2>1
  <2>. QED  BY <2>1, <2>2, <2>10, <2>11 DEF Logged
<1>9. CASE ~DumpSHA256(r) /\ ~MoveFiles(r) /\ ~MoveShaInfo(r)
  BY <1>0, <1>9, EndsMoving DEF Logged
<1>. QED  BY <1>6, <1>7, <1>8, <1>9

LEMMA DoneLoggedNext ==
  ASSUME IInv, DoneLogged, KeepsAFile, NEW r \in Run, Step(r), Made(r), Logged(r)
  PROVE  DoneLogged'
<1>1. SUFFICES ASSUME NEW d \in done'
               PROVE  AsMoved(d[1], d[2], Len(Moves[d[1]]), Len(Moves[d[1]]))'
  BY DEF DoneLogged
<1>2. CASE d \in done
  <2>1. \A s \in {d[1]} \cup SubsOf(d[1]) : Untouched(d[1], d[2], s)
    BY <1>2, DoneKept
  <2>2. AsMoved(d[1], d[2], Len(Moves[d[1]]), Len(Moves[d[1]]))
    BY <1>2 DEF DoneLogged
  <2>. QED  BY <2>1, <2>2, AsMovedKept DEF Untouched
<1>3. CASE d \notin done
  <2>1. /\ at[r] = "mv" /\ UNCHANGED store /\ d[1] = p[r].pkg /\ d[2] = p[r].new
        /\ moved[r] = Len(Moves[d[1]])
    BY <1>1, <1>3, BecomesDone
  <2>2. AsMoved(d[1], d[2], Len(Moves[d[1]]), Len(Moves[d[1]]))
    BY <2>1 DEF Logged, Moving, MovedSoFar
  <2>. QED  BY <2>1, <2>2, AsMovedKept DEF store
<1>. QED  BY <1>2, <1>3

LEMMA LInvNext ==
  ASSUME Disjoint, KeepsAFile, OnePattern, LInv, [Next]_vars
  PROVE  LInv'
<1>0. WInv'
  BY WInvNext DEF LInv
<1>1. CASE UNCHANGED vars
  <2>1. /\ files' = files /\ sha' = sha /\ at' = at /\ p' = p /\ moved' = moved /\ done' = done
    BY <1>1 DEF vars, store
  <2>2. (\A r \in Run : Logged(r)') /\ DoneLogged'
    BY <2>1 DEF LInv, Logged, DoneLogged, AsMoved, MovedSoFar
  <2>. QED  BY <1>0, <2>2 DEF LInv
<1>2. ASSUME NEW r \in Run, Step(r) PROVE LInv'
  <2>1. \A q \in Run : Logged(q)'
    BY <1>2, LoggedOwn, LoggedOther DEF LInv, WInv, Disjoint
  <2>2. DoneLogged'
    BY <1>2, DoneLoggedNext DEF LInv, WInv
  <2>. QED  BY <1>0, <2>1, <2>2 DEF LInv
<1>. QED  BY <1>1, <1>2 DEF Next

(* The first pattern that cuts a line is the one that keeps a copy of it.     *)
LEMMA FirstCut ==
  ASSUME NEW k \in Pkg, NEW f \in CutBy(k, Len(Moves[k])), f \in Recipe[k]
  PROVE  \E i \in DOMAIN Moves[k] : f \in LinesLeft(k, i - 1) \cap Moves[k][i].copied
<1> DEFINE Cuts == {i \in DOMAIN Moves[k] : f \in Moves[k][i].cut}
           R == OpToRel(<, Nat)
<1>1. Moves[k] \in Seq(Move) /\ DOMAIN Moves[k] = 1 .. Len(Moves[k]) /\ Len(Moves[k]) \in Nat
  BY BuildAssumption
<1>2. Cuts \in SUBSET Nat /\ Cuts # {}
  BY <1>1 DEF CutBy
<1>3. IsWellFoundedOn(R, Nat)
  BY NatLessThanWellFounded
<1>4. PICK i \in Cuts : \A j \in Cuts : <<j, i>> \notin R
  BY <1>2, <1>3, WFMin
<1>5. \A j \in Cuts : ~(j < i)
  BY <1>2, <1>4 DEF OpToRel
<1>6. f \notin CutBy(k, i - 1)
  BY <1>1, <1>5 DEF CutBy
<1>. QED  BY <1>4, <1>6, PatternAssumption DEF LinesLeft

\* what a log lists when every pattern has been gone through
LEMMA AsMovedLists ==
  ASSUME NEW k \in Pkg, NEW n, AsMoved(k, n, Len(Moves[k]), Len(Moves[k]))
  PROVE  LogsMatch(k, n)
<1> DEFINE all == Len(Moves[k])
<1>1. DOMAIN Moves[k] = 1 .. all /\ all \in Nat
  BY BuildAssumption
<1>2. /\ files[k][n] = Left(k, all) /\ sha[k][n] = LinesLeft(k, all)
      /\ \A i \in DOMAIN Moves[k] :
           /\ files[Moves[k][i].sub][n] = Left(k, i - 1) \cap Moves[k][i].files
           /\ sha[Moves[k][i].sub][n] = LinesLeft(k, i - 1) \cap Moves[k][i].copied
  <2>1. AsMoved(k, n, all, all) /\ \A i \in DOMAIN Moves[k] : i <= all
    BY <1>1
  <2> HIDE DEF all
  <2>. QED  BY <2>1 DEF AsMoved
<1>3. MovedBy(k, all) \subseteq CutBy(k, all)
  BY <1>1, PatternAssumption DEF MovedBy, CutBy
<1>4. sha[k][n] \subseteq files[k][n]
  BY <1>2, <1>3 DEF Left, LinesLeft
<1>5. ASSUME NEW s \in {k} \cup SubsOf(k), NEW f \in files[s][n]
      PROVE  \E t \in {k} \cup SubsOf(k) : f \in sha[t][n]
  <2>1. f \in Recipe[k]
    BY <1>2 DEF SubsOf, Left
  <2>2. CASE f \in CutBy(k, all)
    <3>1. PICK i \in DOMAIN Moves[k] : f \in LinesLeft(k, i - 1) \cap Moves[k][i].copied
      BY <2>1, <2>2, FirstCut
    <3>2. f \in sha[Moves[k][i].sub][n] /\ Moves[k][i].sub \in SubsOf(k)
      BY <1>2, <3>1 DEF SubsOf
    <3>. QED  BY <3>2
  <2>3. CASE f \notin CutBy(k, all)
    BY <1>2, <2>1, <2>3 DEF LinesLeft
  <2>. QED  BY <2>2, <2>3
<1>6. ASSUME CutsExactly(k)
      PROVE  /\ sha[k][n] = files[k][n]
             /\ \A i \in DOMAIN Moves[k] : LET s == Moves[k][i].sub IN
                  /\ files[s][n] \subseteq sha[s][n]
                  /\ CopiesExactly(k, i) => sha[s][n] = files[s][n]
  <2>1. ASSUME NEW i \in DOMAIN Moves[k]
        PROVE  Recipe[k] \cap Moves[k][i].cut = Recipe[k] \cap Moves[k][i].files
    BY <1>6, PatternAssumption DEF CutsExactly
  <2>2. ASSUME NEW m \in Nat, m <= all PROVE LinesLeft(k, m) = Left(k, m)
    <3>1. \A i \in 1 .. m : i \in DOMAIN Moves[k]
      BY <1>1, <2>2
    <3>. QED  BY <2>1, <3>1 DEF LinesLeft, Left, CutBy, MovedBy
  <2>3. sha[k][n] = files[k][n]
    BY <1>1, <1>2, <2>2
  <2>4. ASSUME NEW i \in DOMAIN Moves[k]
        PROVE  /\ files[Moves[k][i].sub][n] \subseteq sha[Moves[k][i].sub][n]
               /\ CopiesExactly(k, i) => sha[Moves[k][i].sub][n] = files[Moves[k][i].sub][n]
    <3>1. LinesLeft(k, i - 1) = Left(k, i - 1)
      BY <1>1, <2>2
    <3>2. Moves[k][i].files \subseteq Moves[k][i].copied
      BY PatternAssumption
    <3>3. Left(k, i - 1) \subseteq Recipe[k]
      BY DEF Left
    <3>4. /\ files[Moves[k][i].sub][n] = Left(k, i - 1) \cap Moves[k][i].files
          /\ sha[Moves[k][i].sub][n] = Left(k, i - 1) \cap Moves[k][i].copied
      BY <1>2, <3>1
    <3>5. files[Moves[k][i].sub][n] \subseteq sha[Moves[k][i].sub][n]
      BY <3>2, <3>4
    <3>6. ASSUME CopiesExactly(k, i)
          PROVE  Left(k, i - 1) \cap Moves[k][i].copied = Left(k, i - 1) \cap Moves[k][i].files
      BY <3>2, <3>3, <3>6 DEF CopiesExactly
    <3>. QED  BY <3>4, <3>5, <3>6
  <2>. QED  BY <2>3, <2>4
<1>. QED  BY <1>4, <1>5, <1>6 DEF LogsMatch

(* When a build has ended, the sha256.log of the package lists no file that   *)
(* was moved away, and the logs together list every file, for ever after;     *)
(* each log is exact where grep and sed take the moved files' lines alone     *)
(* (xx/build.go:290-312).                                                     *)
THEOREM LogsListFiles ==
  ASSUME Disjoint, KeepsAFile, OnePattern
  PROVE  Spec => []LogListsFiles
<1>1. Init => LInv
  BY WInvInit DEF LInv, Init, Logged, Moving, DoneLogged
<1>2. LInv /\ [Next]_vars => LInv'
  BY LInvNext
<1>3. ASSUME LInv PROVE LogListsFiles
  <2>1. ASSUME NEW d \in done
        PROVE  d[1] \in Pkg /\ AsMoved(d[1], d[2], Len(Moves[d[1]]), Len(Moves[d[1]]))
    BY <1>3, <2>1 DEF LInv, DoneLogged, WInv, IInv, TypeOK
  <2>. QED  BY <2>1, AsMovedLists DEF LogListsFiles
<1>. QED  BY <1>1, <1>2, <1>3, PTL DEF Spec
-----------------------------------------------------------------------------
(* The number read back after a build.                                        *)
LEMMA BuiltLastNext ==
  ASSUME RInv, KeepsAFile, NamedByOneRun, NEW r \in Run, Step(r), NEW q \in Run
  PROVE  BuiltLast(q)'
<1>0. TypeOK /\ IInv /\ BuiltLast(q)
  BY DEF RInv, IInv
<1>1. SUFFICES ASSUME at'[q] = "rels"
               PROVE  ~IsSub(p'[q].pkg) /\ rels'[p'[q].pkg] = 0 .. ((p'[q].new + 1) - 1)
  BY DEF BuiltLast, HasReleases
<1>2. CASE q = r
  <2>1. ~PlainStep(r)
    BY <1>0, <1>1, <1>2 DEF PlainStep, Plain, Goto, TypeOK
  <2>2. SubPkgsDone(r)
    BY <1>0, <1>1, <1>2, <2>1 DEF Step, Start, Finish, NextEntry, RefreshSub, Reuse, CreatePkgDirs,
       WriteFile, PkgCreate, MoveLogs, DumpSHA256, MoveFiles, MoveShaInfo, ReadRels, HandOver,
       FailClean, Abort, Exit, Goto, TypeOK
  <2>3. at[r] = "mv" /\ p' = p /\ rels' = rels
    BY <2>2 DEF SubPkgsDone, store
  <2>. QED  BY <1>0, <1>2, <2>3 DEF IInv, Target, Working, HasReleases
<1>3. CASE q # r
  <2>1. at'[q] = at[q] /\ p'[q] = p[q]
    BY <1>0, <1>3, Locality
  <2>2. ~IsSub(p[q].pkg) /\ HasReleases(p[q].pkg, p[q].new + 1) /\ p[q].pkg \in Pkg
    BY <1>0, <1>1, <2>1, TypeFacts DEF BuiltLast
  <2>3. rels'[p[q].pkg] = rels[p[q].pkg]
    <3>1. CASE at[r] \in {"idle", "next"}
      BY <1>0, <3>1, StepEffect
    <3>2. CASE at[r] \notin {"idle", "next"}
      <4>1. p[q].pkg # p[r].pkg
        BY <1>0, <1>1, <1>3, <2>1, <2>2, <3>2, OneBuilder
      <4>. QED  BY <1>0, <2>2, <4>1, StepEffect
    <3>. QED  BY <3>1, <3>2
  <2>. QED  BY <2>1, <2>2, <2>3 DEF HasReleases
<1>. QED  BY <1>2, <1>3

LEMMA RInvNext ==
  ASSUME Disjoint, KeepsAFile, RInv, [Next]_vars
  PROVE  RInv'
<1>0. IInv'
  BY IInvNext DEF RInv
<1>1. CASE UNCHANGED vars
  <2>1. rels' = rels /\ at' = at /\ p' = p
    BY <1>1 DEF vars, store
  <2>2. \A r \in Run : BuiltLast(r)'
    BY <2>1 DEF RInv, BuiltLast, HasReleases
  <2>. QED  BY <1>0, <2>2 DEF RInv
<1>2. ASSUME NEW r \in Run, Step(r) PROVE RInv'
  BY <1>0, <1>2, BuiltLastNext DEF RInv, Disjoint
<1>. QED  BY <1>1, <1>2 DEF Next

LEMMA RInvInit == Init => RInv
  BY IInvInit DEF RInv, BuiltLast, Init

(* The release a run hands over after a build is the one it has built.        *)
THEOREM BuiltIsReadBack ==
  ASSUME Disjoint, KeepsAFile
  PROVE  Spec => ReadsBackOwnRelease
<1> DEFINE Own == \A r \in Run : at[r] = "rels" /\ at'[r] = "libs" => p'[r].rel = p[r].new
<1>1. RInv /\ [Next]_vars => [Own]_vars
  <2>1. SUFFICES ASSUME RInv, NEW r \in Run, Step(r), NEW q \in Run,
                        at[q] = "rels", at'[q] = "libs"
                 PROVE  p'[q].rel = p[q].new
    BY DEF Next
  <2>2. TypeOK /\ BuiltLast(q)
    BY <2>1 DEF RInv, IInv
  <2>3. q = r
    BY <2>1, <2>2, Locality
  <2> DEFINE k == p[q].pkg  n == p[q].new
  <2>4. rels[k] = 0 .. n /\ k \in Pkg /\ n \in Nat
    BY <2>1, <2>2, TypeFacts, BuildAssumption DEF BuiltLast, HasReleases, Rels
  <2>5. ReadRels(r)
    <3>1. ~PlainStep(r)
      BY <2>1, <2>3 DEF PlainStep, Plain
    <3>. QED  BY <2>1, <2>2, <2>3, <3>1 DEF Step, Start, Finish, NextEntry, RefreshSub, Reuse,
         CreatePkgDirs, WriteFile, PkgCreate, MoveLogs, DumpSHA256, MoveFiles, MoveShaInfo,
         SubPkgsDone, HandOver, FailClean, Abort, Exit, Goto, TypeOK
  <2>6. p'[q].rel = Rel(k)
    BY <2>2, <2>3, <2>5 DEF ReadRels, Resolve, TypeOK
  <2>7. rels[k] # {}
    BY <2>4
  <2>8. LastRel(k) \in 0 .. n /\ n <= LastRel(k)
    BY <2>2, <2>4, <2>7, LastRelIsLast
  <2>9. LastRel(k) = n
    BY <2>4, <2>8
  <2>. QED  BY <2>6, <2>7, <2>9 DEF Rel
<1> HIDE DEF Own
<1>2. ReadsBackOwnRelease <=> [][Own]_vars
  BY DEF ReadsBackOwnRelease, Own
<1>3. RInv /\ [Next]_vars => RInv'
  BY RInvNext
<1>. QED  BY <1>1, <1>2, <1>3, RInvInit, PTL DEF Spec

(* The invariant of the whole store, with what every proof above needs.       *)
THEOREM StoreInvAlways ==
  ASSUME Disjoint, KeepsAFile, PatternsApart, OnePattern
  PROVE  Spec => []StoreInv
<1>1. Init => StoreInv
  BY WInvInit DEF StoreInv, Init, Filed, Logged, BuiltLast, Moving, DoneLogged
<1>2. StoreInv <=> FInv /\ LInv /\ RInv
  BY DEF StoreInv, FInv, LInv, RInv, WInv
<1>3. StoreInv' <=> FInv' /\ LInv' /\ RInv'
  BY DEF StoreInv, FInv, LInv, RInv, WInv
<1>4. StoreInv /\ [Next]_vars => StoreInv'
  BY <1>2, <1>3, FInvNext, LInvNext, RInvNext
<1>. QED  BY <1>1, <1>4, PTL DEF Spec
=============================================================================
