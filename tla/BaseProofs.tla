----------------------------- MODULE BaseProofs -----------------------------
(* BInv is an invariant of Base, and with it BaseReady and NoWriteThrough.    *)
EXTENDS Base, TLAPS

(* Files in the base are not the mark for no files. *)
LEMMA FilesExist == \A b \in BaseFiles : b # None
<1>. SUFFICES ASSUME NEW b \in BaseFiles, b = None PROVE FALSE
  OBVIOUS
<1>1. "rel" \in DOMAIN b
  BY DEF BaseFiles
<1>2. DOMAIN b = {"none"}
  BY DEF None
<1>. QED  BY <1>1, <1>2

(* Files of its own are not the mark for a link. *)
LEMMA FilesNotShared == \A f \in Files : f # Shared
<1>. SUFFICES ASSUME NEW f \in Files, f = Shared PROVE FALSE
  OBVIOUS
<1>1. "rel" \in DOMAIN f
  BY DEF Files
<1>2. DOMAIN f = {"shared"}
  BY DEF Shared
<1>. QED  BY <1>1, <1>2

(* Nor are they the mark for no files. *)
LEMMA FilesOfRoot == \A f \in Files : f # None
<1>. SUFFICES ASSUME NEW f \in Files, f = None PROVE FALSE
  OBVIOUS
<1>1. "rel" \in DOMAIN f
  BY DEF Files
<1>2. DOMAIN f = {"none"}
  BY DEF None
<1>. QED  BY <1>1, <1>2

LEMMA NoneNotShared == None # Shared
<1>1. "none" \in DOMAIN None
  BY DEF None
<1>2. DOMAIN Shared = {"shared"}
  BY DEF Shared
<1>. QED  BY <1>1, <1>2

(* A run is called for a job that TypeOK knows; a bootstrap is not for the    *)
(* base.                                                                      *)
LEMMA JobTyped ==
  ASSUME TypeOK
  PROVE  job \in JobType /\ (job.init => job.root \in Env)
<1>1. NoJob \in JobType
  <2>1. <<>> \in Seq(Pkg)
    OBVIOUS
  <2>. QED  BY <2>1 DEF NoJob, JobType, Root
<1>2. ~NoJob.init
  BY DEF NoJob
<1>3. job \in Job \/ job = NoJob
  BY DEF TypeOK
<1>. QED  BY <1>1, <1>2, <1>3, BaseAssumption

(* The head of a list that is not empty is one of its packages. *)
LEMMA HeadTail ==
  ASSUME NEW s \in Seq(Pkg), s # <<>>
  PROVE  /\ Head(s) \in Pkg /\ Tail(s) \in Seq(Pkg)
         /\ \A k : (\A n \in DOMAIN Tail(s) : Tail(s)[n] # k)
                     => k = Head(s) \/ \A n \in DOMAIN s : s[n] # k
<1>1. Head(s) = s[1] /\ Head(s) \in Pkg /\ Tail(s) \in Seq(Pkg)
  OBVIOUS
<1>2. ASSUME NEW k, \A n \in DOMAIN Tail(s) : Tail(s)[n] # k, k # Head(s),
             NEW n \in DOMAIN s
      PROVE  s[n] # k
  <2>1. CASE n = 1
    BY <1>1, <1>2, <2>1
  <2>2. CASE n # 1
    <3>1. n - 1 \in DOMAIN Tail(s) /\ Tail(s)[n - 1] = s[n]
      BY <2>2
    <3>. QED  BY <1>2, <3>1
  <2>. QED  BY <2>1, <2>2
<1>. QED  BY <1>1, <1>2
-----------------------------------------------------------------------------
LEMMA InitInv == Init => BInv
<1>. SUFFICES ASSUME Init PROVE BInv
  OBVIOUS
<1>1. TypeOK
  <2>1. 0 \in Rels
    BY BaseAssumption DEF Rels
  <2>2. latest \in [Pkg -> Rels] /\ base \in [Pkg -> BaseFiles \cup {None}]
    BY <2>1 DEF Init
  <2>3. tree \in [Env -> [Pkg -> Files \cup {None, Shared}]]
    BY DEF Init
  <2>4. rec \in [Root -> SUBSET [pkg : Pkg, rel : Rels]]
    BY DEF Init
  <2>5. todo \in Seq(Pkg)
    BY DEF Init
  <2>6. went \in [Pkg -> Root]
    BY DEF Init, Root
  <2>. QED  BY <2>2, <2>3, <2>4, <2>5, <2>6 DEF Init, TypeOK, Phase
<1>2. LinkInv
  BY NoneNotShared DEF Init, LinkInv
<1>. QED
  BY <1>1, <1>2 DEF Init, BInv, PhaseInv, OkInv, Installed, Protected, BaseReady, Install

LEMMA TypeStep == BInv /\ [Next]_vars => TypeOK'
<1>. SUFFICES ASSUME BInv, [Next]_vars PROVE TypeOK'
  OBVIOUS
<1>0. TypeOK /\ job \in JobType /\ LinkInv /\ PhaseInv
  BY JobTyped DEF BInv
<1>1. CASE UNCHANGED vars
  BY <1>0, <1>1 DEF TypeOK, vars
<1>2. CASE Start
  BY <1>0, <1>2, BaseAssumption DEF Start, TypeOK, store, disk, hist, Phase, JobType
<1>17. CASE NewRecipe
  BY <1>0, <1>17 DEF NewRecipe, TypeOK, disk, flags, hist
<1>3. CASE BaseThere \/ NoLink \/ ItemsDone \/ Skip
  <2>1. Tail(todo) \in Seq(Pkg) \/ ~Skip
    BY <1>0, HeadTail DEF Skip, TypeOK, PhaseInv, Install
  <2>. QED
    BY <1>0, <1>3, <2>1 DEF BaseThere, NoLink, ItemsDone, Skip, TypeOK, store, disk,
       flags, hist, Phase
<1>4. CASE InstallBase
  BY <1>0, <1>4, BaseAssumption DEF InstallBase, TypeOK, store, disk, flags, hist, Phase
<1>5. CASE CreateBaseOk
  BY <1>0, <1>5 DEF CreateBaseOk, TypeOK, store, flags, hist, Phase
<1>6. CASE ProtectBaseDir
  <2>1. base' \in [Pkg -> BaseFiles \cup {None}]
    BY <1>0, <1>6 DEF ProtectBaseDir, TypeOK, BaseFiles
  <2>2. at' \in Phase /\ stage' \in {"base", "env"} /\ todo' \in Seq(Pkg)
    BY <1>0, <1>6 DEF ProtectBaseDir, AfterProtect, TypeOK, Phase, JobType
  <2>. QED  BY <1>0, <1>6, <2>1, <2>2 DEF ProtectBaseDir, TypeOK, store, flags, hist
<1>7. CASE LinkFile
  <2>1. PICK k \in Unlinked : tree' = [tree EXCEPT ![job.root] = [tree[job.root] EXCEPT ![k] = Shared]]
    BY <1>7 DEF LinkFile
  <2>2. k \in Pkg
    BY DEF Unlinked
  <2>3. tree' \in [Env -> [Pkg -> Files \cup {None, Shared}]]
    BY <1>0, <2>1, <2>2 DEF TypeOK
  <2>. QED  BY <1>0, <1>7, <2>3 DEF LinkFile, TypeOK, store, flags, hist
<1>8. CASE LinkRecords \/ RemoveWorld
  <2>1. rec' \in [Root -> SUBSET [pkg : Pkg, rel : Rels]]
    <3>1. BaseRoot \in Root
      BY DEF Root
    <3>2. CASE LinkRecords
      BY <1>0, <3>1, <3>2 DEF LinkRecords, TypeOK
    <3>3. CASE RemoveWorld
      BY <1>0, <3>3 DEF RemoveWorld, TypeOK
    <3>. QED  BY <1>8, <3>2, <3>3
  <2>. QED  BY <1>0, <1>8, <2>1 DEF LinkRecords, RemoveWorld, TypeOK, store, flags, hist,
       Phase
<1>9. CASE CreateBaseLinked
  BY <1>0, <1>9 DEF CreateBaseLinked, TypeOK, store, flags, hist, Phase, PhaseInv,
     JobType, Root
<1>10. CASE TakePkg
  <2>1. Item \in Pkg
    BY <1>0, <1>10, HeadTail DEF TakePkg, Item, TypeOK
  <2>2. latest' \in [Pkg -> Rels] /\ behind' \subseteq Pkg
    <3>1. CASE Builds
      <4>1. latest[Item] \in Rels /\ latest[Item] < MaxRel
        BY <1>0, <1>10, <2>1, <3>1 DEF TakePkg, TypeOK
      <4>2. latest[Item] + 1 \in Rels
        BY <4>1, BaseAssumption DEF Rels
      <4>. QED  BY <1>0, <1>10, <3>1, <4>2 DEF TakePkg, TypeOK
    <3>2. CASE ~Builds
      BY <1>0, <1>10, <3>2 DEF TakePkg, TypeOK, store
    <3>. QED  BY <3>1, <3>2
  <2>. QED  BY <1>0, <1>10, <2>2 DEF TakePkg, TypeOK, disk, flags, hist, Phase
<1>11. CASE StepWrites
  <2>1. job.root \in Env
    BY <1>0, <1>11 DEF StepWrites, Root, JobType
  <2>2. PICK k \in Pkg : tree[job.root][k] = Shared /\ base' = [base EXCEPT ![k].whole = FALSE]
    BY <1>11 DEF StepWrites
  <2>3. base[k] \in BaseFiles
    BY <1>0, <2>1, <2>2 DEF LinkInv
  <2>4. [base[k] EXCEPT !.whole = FALSE] \in BaseFiles
    BY <2>3 DEF BaseFiles
  <2>5. base' \in [Pkg -> BaseFiles \cup {None}]
    BY <1>0, <2>2, <2>4 DEF TypeOK
  <2>. QED  BY <1>0, <1>11, <2>5 DEF StepWrites, TypeOK, store, flags, hist
<1>12. CASE Copy
  <2>1. Item \in Pkg /\ InstDir \in Root
    <3>1. todo # <<>> /\ todo \in Seq(Pkg)
      BY <1>0, <1>12 DEF Copy, TypeOK, PhaseInv, Install
    <3>2. InstDir \in Root
      BY <1>0 DEF InstDir, JobType, Root
    <3>. QED  BY <3>1, <3>2, HeadTail DEF Item
  <2>2. PICK n \in Releases :
          IF InstDir = BaseRoot
          THEN /\ base' = [base EXCEPT ![Item] = [rel |-> n, whole |-> FALSE, writable |-> TRUE]]
               /\ tree' = [e \in Env |-> [tree[e] EXCEPT ![Item] =
                    IF @ = Shared THEN [rel |-> base[Item].rel, whole |-> base[Item].whole] ELSE @]]
          ELSE /\ tree' = [tree EXCEPT ![InstDir] =
                    [tree[InstDir] EXCEPT ![Item] = [rel |-> n, whole |-> FALSE]]]
               /\ base' = base
    BY <1>12 DEF Copy
  <2>3. n \in Rels
    BY <1>0, <2>1, BaseAssumption DEF Releases, TypeOK, Rels
  <2>4. base' \in [Pkg -> BaseFiles \cup {None}]
    <3>1. [rel |-> n, whole |-> FALSE, writable |-> TRUE] \in BaseFiles
      BY <2>3 DEF BaseFiles
    <3>. QED  BY <1>0, <2>1, <2>2, <3>1 DEF TypeOK
  <2>5. tree' \in [Env -> [Pkg -> Files \cup {None, Shared}]]
    <3>1. CASE InstDir = BaseRoot
      <4>1. \A e \in Env : tree[e][Item] = Shared =>
              [rel |-> base[Item].rel, whole |-> base[Item].whole] \in Files
        BY <1>0, <2>1 DEF LinkInv, TypeOK, BaseFiles, Files
      <4>. QED  BY <1>0, <2>1, <2>2, <3>1, <4>1 DEF TypeOK
    <3>2. CASE InstDir # BaseRoot
      <4>1. [rel |-> n, whole |-> FALSE] \in Files
        BY <2>3 DEF Files
      <4>2. InstDir \in Env
        BY <2>1, <3>2 DEF Root
      <4>3. [tree[InstDir] EXCEPT ![Item] = [rel |-> n, whole |-> FALSE]]
              \in [Pkg -> Files \cup {None, Shared}]
        BY <1>0, <4>1, <4>2 DEF TypeOK
      <4>. QED  BY <1>0, <2>2, <3>2, <4>3 DEF TypeOK
    <3>. QED  BY <3>1, <3>2
  <2>6. went' \in [Pkg -> Root]
    BY <1>0, <1>12, <2>1 DEF Copy, TypeOK
  <2>. QED  BY <1>0, <1>12, <2>4, <2>5, <2>6 DEF Copy, TypeOK, store, flags, Phase
<1>13. CASE CopyRest
  <2>1. Item \in Pkg /\ InstDir \in Root
    <3>1. todo # <<>> /\ todo \in Seq(Pkg)
      BY <1>0, <1>13 DEF CopyRest, TypeOK, PhaseInv, Install
    <3>2. InstDir \in Root
      BY <1>0 DEF InstDir, JobType, Root
    <3>. QED  BY <3>1, <3>2, HeadTail DEF Item
  <2>2. base' \in [Pkg -> BaseFiles \cup {None}]
    <3>1. CASE InstDir = BaseRoot
      <4>1. base[Item] \in BaseFiles
        BY <1>0, <1>13, <3>1 DEF CopyRest, LinkInv
      <4>2. [base[Item] EXCEPT !.whole = TRUE] \in BaseFiles
        BY <4>1 DEF BaseFiles
      <4>. QED  BY <1>0, <1>13, <3>1, <4>2 DEF CopyRest, TypeOK
    <3>2. CASE InstDir # BaseRoot
      BY <1>0, <1>13, <3>2 DEF CopyRest, TypeOK
    <3>. QED  BY <3>1, <3>2
  <2>3. tree' \in [Env -> [Pkg -> Files \cup {None, Shared}]]
    <3>1. CASE InstDir = BaseRoot
      BY <1>0, <1>13, <3>1 DEF CopyRest, TypeOK
    <3>2. CASE InstDir # BaseRoot
      <4>1. InstDir \in Env /\ tree[InstDir][Item] \in Files
        BY <1>0, <1>13, <2>1, <3>2 DEF CopyRest, LinkInv, Root
      <4>2. [tree[InstDir][Item] EXCEPT !.whole = TRUE] \in Files
        BY <4>1 DEF Files
      <4>3. tree' = [tree EXCEPT ![InstDir] = [tree[InstDir] EXCEPT ![Item] = [tree[InstDir][Item] EXCEPT !.whole = TRUE]]]
        BY <1>13, <3>2 DEF CopyRest
      <4>4. [tree[InstDir] EXCEPT ![Item] = [tree[InstDir][Item] EXCEPT !.whole = TRUE]]
              \in [Pkg -> Files \cup {None, Shared}]
        BY <1>0, <4>1, <4>2 DEF TypeOK
      <4>. QED  BY <1>0, <4>3, <4>4 DEF TypeOK
    <3>. QED  BY <3>1, <3>2
  <2>. QED  BY <1>0, <1>13, <2>2, <2>3 DEF CopyRest, TypeOK, store, flags, hist, Phase
<1>14. CASE AddPkgToWorldDir
  <2>1. Item \in Pkg /\ Tail(todo) \in Seq(Pkg)
    BY <1>0, <1>14, HeadTail DEF AddPkgToWorldDir, Item, TypeOK, PhaseInv, Install
  <2>2. Copied.rel \in Rels
    BY <1>0, <1>14 DEF AddPkgToWorldDir, LinkInv, Copied, BaseFiles, Files
  <2>3. rec' \in [Root -> SUBSET [pkg : Pkg, rel : Rels]]
    <3>1. [pkg |-> Item, rel |-> Copied.rel] \in [pkg : Pkg, rel : Rels]
      BY <2>1, <2>2
    <3>. QED  BY <1>0, <1>14, <3>1 DEF AddPkgToWorldDir, TypeOK
  <2>. QED  BY <1>0, <1>14, <2>1, <2>3 DEF AddPkgToWorldDir, TypeOK, store, flags, hist, Phase
<1>15. CASE Stop
  <2>1. interrupted' \in BOOLEAN
    <3>1. CASE interrupted \/ Maintaining
      BY <1>15, <3>1 DEF Stop
    <3>2. CASE ~(interrupted \/ Maintaining)
      BY <1>15, <3>2 DEF Stop
    <3>. QED  BY <3>1, <3>2
  <2>2. /\ latest' = latest /\ behind' = behind /\ went' = went
        /\ ok' = ok /\ linked' = linked /\ base' = base /\ tree' = tree /\ rec' = rec
        /\ at' = "idle" /\ job' = NoJob /\ baseOk' = FALSE /\ baseLinked' = FALSE
        /\ stage' = "env" /\ todo' = <<>>
    BY <1>15 DEF Stop, store, disk
  <2>3. at' \in Phase /\ stage' \in {"base", "env"} /\ todo' \in Seq(Pkg)
    BY <2>2 DEF Phase
  <2>. QED  BY <1>0, <2>1, <2>2, <2>3 DEF TypeOK
<1>16. CASE CleanTmp
  BY <1>0, <1>16 DEF CleanTmp, TypeOK, store, flags, Root
<1>. QED
  BY <1>1, <1>2, <1>3, <1>4, <1>5, <1>6, <1>7, <1>8, <1>9, <1>10, <1>11, <1>12,
     <1>13, <1>14, <1>15, <1>16, <1>17 DEF Next

(* Which phases belong to installBase, and which lead to base_ok. *)
LEMMA PhaseStep == BInv /\ [Next]_vars => PhaseInv'
<1>. SUFFICES ASSUME BInv, [Next]_vars PROVE PhaseInv'
  OBVIOUS
<1>0. PhaseInv /\ todo \in Seq(Pkg)
  BY DEF BInv, TypeOK
<1>1. CASE UNCHANGED vars
  BY <1>0, <1>1 DEF PhaseInv, vars, OnBase
<1>2. CASE NewRecipe \/ Start \/ BaseThere \/ InstallBase \/ CreateBaseOk
  BY <1>0, <1>2
     DEF NewRecipe, Start, BaseThere, InstallBase, CreateBaseOk, PhaseInv, OnBase, flags, Install
<1>3. CASE ProtectBaseDir
  BY <1>0, <1>3 DEF ProtectBaseDir, AfterProtect, PhaseInv, Install
<1>4. CASE NoLink \/ LinkFile \/ LinkRecords \/ RemoveWorld \/ CreateBaseLinked
  BY <1>0, <1>4
     DEF NoLink, LinkFile, LinkRecords, RemoveWorld, CreateBaseLinked, MustLink,
         PhaseInv, OnBase, flags, Install
<1>5. CASE TakePkg \/ StepWrites \/ Skip \/ Copy \/ CopyRest
  BY <1>0, <1>5 DEF TakePkg, StepWrites, Skip, Copy, CopyRest, PhaseInv, OnBase, flags, Install
<1>6. CASE AddPkgToWorldDir \/ ItemsDone
  BY <1>0, <1>6 DEF AddPkgToWorldDir, ItemsDone, PhaseInv, OnBase, flags, Install
<1>7. CASE Stop \/ CleanTmp
  BY <1>0, <1>7 DEF Stop, CleanTmp, PhaseInv, flags, Install, OnBase
<1>. QED
  BY <1>1, <1>2, <1>3, <1>4, <1>5, <1>6, <1>7 DEF Next

(* The marker file is there in every phase that relies on it, and missing     *)
(* during installBase.                                                        *)
LEMMA OkStep == BInv /\ [Next]_vars => OkInv'
<1>. SUFFICES ASSUME BInv, [Next]_vars PROVE OkInv'
  OBVIOUS
<1>0. PhaseInv /\ OkInv /\ ok \in BOOLEAN /\ baseOk \in BOOLEAN /\ stage \in {"base", "env"}
  BY DEF BInv, TypeOK
<1>1. CASE UNCHANGED vars
  BY <1>0, <1>1 DEF OkInv, vars
<1>2. CASE NewRecipe \/ Start
  BY <1>0, <1>2 DEF NewRecipe, Start, OkInv, PhaseInv, disk, flags, Install
<1>3. CASE BaseThere \/ InstallBase \/ CreateBaseOk
  BY <1>0, <1>3
     DEF BaseThere, InstallBase, CreateBaseOk, OkInv, PhaseInv, disk, flags, Install
<1>4. CASE ProtectBaseDir
  BY <1>0, <1>4 DEF ProtectBaseDir, AfterProtect, OkInv, PhaseInv, flags, Install
<1>5. CASE NoLink \/ LinkFile \/ LinkRecords \/ RemoveWorld \/ CreateBaseLinked
  BY <1>0, <1>5
     DEF NoLink, LinkFile, LinkRecords, RemoveWorld, CreateBaseLinked, MustLink,
         OkInv, PhaseInv, disk, flags, Install
<1>6. CASE TakePkg \/ StepWrites \/ Skip \/ Copy \/ CopyRest \/ AddPkgToWorldDir
  BY <1>0, <1>6
     DEF TakePkg, StepWrites, Skip, Copy, CopyRest, AddPkgToWorldDir, OkInv, PhaseInv,
         disk, flags, Install
<1>7. CASE ItemsDone
  <2>1. job.init => job.root # BaseRoot
    BY JobTyped, BaseAssumption DEF BInv
  <2>. QED  BY <1>0, <1>7, <2>1 DEF ItemsDone, OkInv, PhaseInv, disk, flags, Install, OnBase
<1>8. CASE Stop \/ CleanTmp
  BY <1>0, <1>8 DEF Stop, CleanTmp, OkInv, PhaseInv, disk, flags, Install
<1>. QED
  BY <1>1, <1>2, <1>3, <1>4, <1>5, <1>6, <1>7, <1>8 DEF Next

(* The package at hand and the place it goes to, in the phases that install. *)
LEMMA AtItem ==
  ASSUME BInv, at \in Install \ {"item"}
  PROVE  /\ todo \in Seq(Pkg) /\ todo # <<>>
         /\ Item \in Pkg /\ latest[Item] \in Rels
         /\ InstDir \in Root /\ (InstDir # BaseRoot => InstDir \in Env)
<1>1. todo \in Seq(Pkg) /\ todo # <<>>
  BY DEF BInv, TypeOK, PhaseInv
<1>2. Item \in Pkg
  BY <1>1, HeadTail DEF Item
<1>3. job \in JobType
  BY JobTyped DEF BInv
<1>4. InstDir \in Root /\ (InstDir # BaseRoot => InstDir \in Env)
  BY <1>3 DEF InstDir, JobType, Root
<1>. QED  BY <1>1, <1>2, <1>4 DEF BInv, TypeOK

(* What Copy and CopyRest leave of the files. *)
LEMMA CopyEffect ==
  ASSUME BInv, Copy
  PROVE  /\ Item \in Pkg
         /\ InstDir = BaseRoot =>
              /\ base'[Item] \in BaseFiles
              /\ \A k \in Pkg : k # Item => base'[k] = base[k]
              /\ \A e \in Env, k \in Pkg : tree'[e][k] = Shared => tree[e][k] = Shared
              /\ \A e \in Env, k \in Pkg : k # Item => tree'[e][k] = tree[e][k]
         /\ InstDir # BaseRoot =>
              /\ base' = base
              /\ tree'[InstDir][Item] \in Files
              /\ \A e \in Env, k \in Pkg : tree'[e][k] = Shared => tree[e][k] = Shared
              /\ \A e \in Env, k \in Pkg : e # InstDir \/ k # Item => tree'[e][k] = tree[e][k]
<1>0. /\ Item \in Pkg /\ latest[Item] \in Rels /\ InstDir \in Root
      /\ InstDir # BaseRoot => InstDir \in Env
  BY AtItem DEF Copy, Install
<1>t. TypeOK /\ LinkInv
  BY DEF BInv
<1>n. PICK n \in Releases :
        IF InstDir = BaseRoot
        THEN /\ base' = [base EXCEPT ![Item] = [rel |-> n, whole |-> FALSE, writable |-> TRUE]]
             /\ tree' = [e \in Env |-> [tree[e] EXCEPT ![Item] =
                  IF @ = Shared THEN [rel |-> base[Item].rel, whole |-> base[Item].whole] ELSE @]]
        ELSE /\ tree' = [tree EXCEPT ![InstDir] =
                  [tree[InstDir] EXCEPT ![Item] = [rel |-> n, whole |-> FALSE]]]
             /\ base' = base
  BY DEF Copy
<1>i. n \in Rels
  BY <1>0, <1>n, BaseAssumption DEF Releases, Rels
<1>1. ASSUME InstDir = BaseRoot
      PROVE  /\ base'[Item] \in BaseFiles
             /\ \A k \in Pkg : k # Item => base'[k] = base[k]
             /\ \A e \in Env, k \in Pkg : tree'[e][k] = Shared => tree[e][k] = Shared
             /\ \A e \in Env, k \in Pkg : k # Item => tree'[e][k] = tree[e][k]
  <2>1. base' = [base EXCEPT ![Item] = [rel |-> n, whole |-> FALSE, writable |-> TRUE]]
    BY <1>1, <1>n
  <2>2. base'[Item] = [rel |-> n, whole |-> FALSE, writable |-> TRUE]
    BY <1>0, <1>t, <2>1 DEF TypeOK
  <2>3. base'[Item] \in BaseFiles
    BY <1>i, <2>2 DEF BaseFiles
  <2>4. \A k \in Pkg : k # Item => base'[k] = base[k]
    BY <1>t, <2>1 DEF TypeOK
  <2>5. \A e \in Env, k \in Pkg : k # Item => tree'[e][k] = tree[e][k]
    BY <1>1, <1>n, <1>t DEF TypeOK
  <2>6. \A e \in Env : tree[e][Item] # Shared => tree'[e][Item] = tree[e][Item]
    BY <1>0, <1>1, <1>n, <1>t DEF TypeOK
  <2>. QED  BY <2>3, <2>4, <2>5, <2>6
<1>2. ASSUME InstDir # BaseRoot
      PROVE  /\ base' = base
             /\ tree'[InstDir][Item] \in Files
             /\ \A e \in Env, k \in Pkg : tree'[e][k] = Shared => tree[e][k] = Shared
             /\ \A e \in Env, k \in Pkg : e # InstDir \/ k # Item => tree'[e][k] = tree[e][k]
  <2>1. tree' = [tree EXCEPT ![InstDir] = [tree[InstDir] EXCEPT ![Item] = [rel |-> n, whole |-> FALSE]]]
    BY <1>2, <1>n
  <2>2. tree'[InstDir][Item] = [rel |-> n, whole |-> FALSE]
    BY <1>0, <1>2, <1>t, <2>1 DEF TypeOK
  <2>3. tree'[InstDir][Item] \in Files
    BY <1>i, <2>2 DEF Files
  <2>4. \A e \in Env, k \in Pkg : e # InstDir \/ k # Item => tree'[e][k] = tree[e][k]
    BY <1>0, <1>2, <1>t, <2>1 DEF TypeOK
  <2>. QED  BY <1>2, <2>3, <2>4, <1>n, FilesNotShared
<1>. QED  BY <1>0, <1>1, <1>2

LEMMA CopyRestEffect ==
  ASSUME BInv, CopyRest
  PROVE  /\ Item \in Pkg
         /\ InstDir = BaseRoot =>
              /\ base'[Item] \in BaseFiles /\ base'[Item].whole
              /\ \A k \in Pkg : k # Item => base'[k] = base[k]
              /\ tree' = tree
         /\ InstDir # BaseRoot =>
              /\ base' = base
              /\ tree'[InstDir][Item] \in Files /\ tree'[InstDir][Item].whole
              /\ \A e \in Env, k \in Pkg : tree'[e][k] = Shared => tree[e][k] = Shared
              /\ \A e \in Env, k \in Pkg : e # InstDir \/ k # Item => tree'[e][k] = tree[e][k]
<1>0. Item \in Pkg /\ InstDir \in Root /\ (InstDir # BaseRoot => InstDir \in Env)
  BY AtItem DEF CopyRest, Install
<1>t. TypeOK /\ LinkInv /\ at = "rest"
  BY DEF BInv, CopyRest
<1>1. ASSUME InstDir = BaseRoot
      PROVE  /\ base'[Item] \in BaseFiles /\ base'[Item].whole
             /\ \A k \in Pkg : k # Item => base'[k] = base[k]
             /\ tree' = tree
  <2>1. base' = [base EXCEPT ![Item] = [base[Item] EXCEPT !.whole = TRUE]] /\ tree' = tree
    BY <1>1 DEF CopyRest
  <2>2. base[Item] \in BaseFiles
    BY <1>1, <1>t DEF LinkInv
  <2>3. base'[Item] = [base[Item] EXCEPT !.whole = TRUE]
    BY <1>0, <1>t, <2>1 DEF TypeOK
  <2>4. base'[Item] \in BaseFiles /\ base'[Item].whole
    BY <2>2, <2>3 DEF BaseFiles
  <2>. QED  BY <1>t, <2>1, <2>4 DEF TypeOK
<1>2. ASSUME InstDir # BaseRoot
      PROVE  /\ base' = base
             /\ tree'[InstDir][Item] \in Files /\ tree'[InstDir][Item].whole
             /\ \A e \in Env, k \in Pkg : tree'[e][k] = Shared => tree[e][k] = Shared
             /\ \A e \in Env, k \in Pkg : e # InstDir \/ k # Item => tree'[e][k] = tree[e][k]
  <2>1. tree' = [tree EXCEPT ![InstDir] = [tree[InstDir] EXCEPT ![Item] = [tree[InstDir][Item] EXCEPT !.whole = TRUE]]]
    BY <1>2 DEF CopyRest
  <2>2. tree'[InstDir][Item] = [tree[InstDir][Item] EXCEPT !.whole = TRUE]
    BY <1>0, <1>2, <1>t, <2>1 DEF TypeOK
  <2>3. tree'[InstDir][Item] \in Files /\ tree'[InstDir][Item].whole
    BY <1>2, <1>t, <2>2 DEF LinkInv, Files
  <2>4. \A e \in Env, k \in Pkg : e # InstDir \/ k # Item => tree'[e][k] = tree[e][k]
    BY <1>0, <1>2, <1>t, <2>1 DEF TypeOK
  <2>. QED  BY <1>2, <2>3, <2>4, FilesNotShared DEF CopyRest
<1>. QED  BY <1>0, <1>1, <1>2

(* Links stay links to files of the base, and what is being replaced exists. *)
LEMMA LinkStep == BInv /\ [Next]_vars => LinkInv'
<1>. SUFFICES ASSUME BInv, [Next]_vars PROVE LinkInv'
  OBVIOUS
<1>t. TypeOK /\ PhaseInv /\ OkInv /\ LinkInv
  BY DEF BInv
<1>1. CASE UNCHANGED vars
  BY <1>t, <1>1 DEF LinkInv, vars, InstDir, FallsBack, Item
<1>2. CASE NewRecipe \/ Start \/ BaseThere \/ InstallBase \/ CreateBaseOk \/ NoLink
           \/ TakePkg \/ Skip \/ ItemsDone \/ Stop
  BY <1>t, <1>2
     DEF NewRecipe, Start, BaseThere, InstallBase, CreateBaseOk, NoLink, TakePkg, Skip, ItemsDone,
         Stop, LinkInv, disk, flags, PhaseInv, Install
<1>3. CASE LinkRecords \/ RemoveWorld \/ CreateBaseLinked \/ AddPkgToWorldDir
  BY <1>t, <1>3 DEF LinkRecords, RemoveWorld, CreateBaseLinked, AddPkgToWorldDir, LinkInv, MustLink
<1>4. CASE ProtectBaseDir
  <2>1. \A k \in Pkg : base[k] \in BaseFiles => base'[k] \in BaseFiles
    <3>. SUFFICES ASSUME NEW k \in Pkg, base[k] \in BaseFiles PROVE base'[k] \in BaseFiles
      OBVIOUS
    <3>1. base[k] # None
      BY FilesExist
    <3>2. base'[k] = [base[k] EXCEPT !.writable = FALSE]
      BY <1>4, <3>1 DEF ProtectBaseDir
    <3>. QED  BY <3>2 DEF BaseFiles
  <2>2. tree' = tree /\ ok' = ok /\ at' \notin {"rest", "record"}
    BY <1>4 DEF ProtectBaseDir, AfterProtect
  <2>. QED  BY <1>t, <2>1, <2>2 DEF LinkInv
<1>5. CASE LinkFile
  <2>1. PICK k \in Unlinked : tree' = [tree EXCEPT ![job.root] = [tree[job.root] EXCEPT ![k] = Shared]]
    BY <1>5 DEF LinkFile
  <2>2. k \in Pkg /\ base[k] \in BaseFiles
    BY <1>t DEF Unlinked, TypeOK
  <2>3. \A e \in Env, j \in Pkg : tree'[e][j] = Shared => tree[e][j] = Shared \/ j = k
    BY <1>t, <2>1, <2>2 DEF TypeOK
  <2>4. base' = base /\ ok /\ ok' = ok /\ at' \notin {"rest", "record"}
    BY <1>t, <1>5 DEF LinkFile, MustLink, OkInv
  <2>. QED  BY <1>t, <2>2, <2>3, <2>4 DEF LinkInv
<1>6. CASE StepWrites
  <2>1. job.root \in Env
    BY <1>6, JobTyped DEF BInv, StepWrites, Root, JobType
  <2>2. PICK k \in Pkg : tree[job.root][k] = Shared
                        /\ base' = [base EXCEPT ![k] = [base[k] EXCEPT !.whole = FALSE]]
    BY <1>6 DEF StepWrites
  <2>3. [base[k] EXCEPT !.whole = FALSE] \in BaseFiles
    BY <1>t, <2>1, <2>2 DEF LinkInv, BaseFiles
  <2>4. \A j \in Pkg : base[j] \in BaseFiles => base'[j] \in BaseFiles
    BY <1>t, <2>2, <2>3 DEF TypeOK
  <2>5. tree' = tree /\ ok' = ok /\ at' \notin {"rest", "record"}
    BY <1>6 DEF StepWrites
  <2>. QED  BY <1>t, <2>4, <2>5 DEF LinkInv
<1>7. CASE Copy
  <2>1. InstDir' = InstDir /\ Item' = Item /\ ok' = ok
    BY <1>7 DEF Copy, InstDir, FallsBack, Item, store, flags
  <2>2. CASE InstDir = BaseRoot
    <3>1. \A k \in Pkg : base[k] \in BaseFiles => base'[k] \in BaseFiles
      BY <1>7, <2>2, CopyEffect
    <3>2. \A e \in Env, k \in Pkg : tree'[e][k] = Shared => ok /\ base[k] \in BaseFiles
      BY <1>t, <1>7, <2>2, CopyEffect DEF LinkInv
    <3>3. base'[Item] \in BaseFiles
      BY <1>7, <2>2, CopyEffect
    <3>. QED  BY <2>1, <2>2, <3>1, <3>2, <3>3 DEF LinkInv
  <2>3. CASE InstDir # BaseRoot
    <3>1. tree'[InstDir][Item] \in Files /\ base' = base
      BY <1>7, <2>3, CopyEffect
    <3>2. \A e \in Env, k \in Pkg : tree'[e][k] = Shared => ok /\ base[k] \in BaseFiles
      BY <1>t, <1>7, <2>3, CopyEffect DEF LinkInv
    <3>. QED  BY <2>1, <2>3, <3>1, <3>2 DEF LinkInv
  <2>. QED  BY <2>2, <2>3
<1>8. CASE CopyRest
  <2>1. InstDir' = InstDir /\ Item' = Item /\ ok' = ok
    BY <1>8 DEF CopyRest, InstDir, FallsBack, Item, store, flags
  <2>2. \A k \in Pkg : base[k] \in BaseFiles => base'[k] \in BaseFiles
    BY <1>8, CopyRestEffect
  <2>3. \A e \in Env, k \in Pkg : tree'[e][k] = Shared => tree[e][k] = Shared
    BY <1>8, CopyRestEffect
  <2>4. IF InstDir = BaseRoot THEN base'[Item] \in BaseFiles ELSE tree'[InstDir][Item] \in Files
    BY <1>8, CopyRestEffect
  <2>. QED  BY <1>t, <2>1, <2>2, <2>3, <2>4 DEF LinkInv
<1>9. CASE CleanTmp
  <2>1. \A e \in Env, k \in Pkg : tree'[e][k] # Shared
    BY <1>9, NoneNotShared DEF CleanTmp
  <2>2. at' \notin {"rest", "record"}
    BY <1>9 DEF CleanTmp
  <2>. QED  BY <2>1, <2>2 DEF LinkInv
<1>. QED
  BY <1>1, <1>2, <1>3, <1>4, <1>5, <1>6, <1>7, <1>8, <1>9 DEF Next

(* The steps that leave all files alone. *)
Elsewhere ==
  \/ NewRecipe \/ Start \/ BaseThere \/ InstallBase \/ CreateBaseOk \/ NoLink \/ LinkRecords
  \/ RemoveWorld \/ CreateBaseLinked \/ TakePkg \/ Skip \/ AddPkgToWorldDir \/ ItemsDone \/ Stop

LEMMA ElsewhereFiles == Elsewhere => base' = base /\ tree' = tree
BY DEF Elsewhere, NewRecipe, Start, BaseThere, InstallBase, CreateBaseOk, NoLink, LinkRecords,
       RemoveWorld, CreateBaseLinked, TakePkg, Skip, AddPkgToWorldDir, ItemsDone, Stop, disk

(* Where the base has no files of a package, a root keeps its own until the   *)
(* package is installed there again.                                          *)
LEMMA AbsentKept ==
  ASSUME BInv, [Next]_vars, ~CleanTmp, NEW e \in Env, NEW k \in Pkg, base'[k] = None,
         Copy \/ CopyRest => InstDir # e \/ Item # k
  PROVE  base[k] = None /\ tree'[e][k] = tree[e][k]
<1>t. TypeOK /\ LinkInv
  BY DEF BInv
<1>1. CASE UNCHANGED vars
  BY <1>1 DEF vars
<1>2. CASE Elsewhere
  BY <1>2, ElsewhereFiles
<1>3. CASE ProtectBaseDir
  <2>1. base[k] # None => base'[k] \in BaseFiles
    BY <1>3, <1>t DEF ProtectBaseDir, TypeOK, BaseFiles
  <2>. QED  BY <1>3, <2>1, FilesExist DEF ProtectBaseDir
<1>4. CASE LinkFile
  <2>1. PICK j \in Unlinked : tree' = [tree EXCEPT ![job.root] = [tree[job.root] EXCEPT ![j] = Shared]]
    BY <1>4 DEF LinkFile
  <2>2. base' = base /\ j # k
    BY <1>4 DEF LinkFile, Unlinked
  <2>. QED  BY <1>t, <2>1, <2>2 DEF TypeOK
<1>5. CASE StepWrites
  <2>1. job.root \in Env
    BY <1>5, JobTyped DEF BInv, StepWrites, Root, JobType
  <2>2. PICK j \in Pkg : tree[job.root][j] = Shared
                        /\ base' = [base EXCEPT ![j] = [base[j] EXCEPT !.whole = FALSE]]
    BY <1>5 DEF StepWrites
  <2>3. [base[j] EXCEPT !.whole = FALSE] \in BaseFiles
    BY <1>t, <2>1, <2>2 DEF LinkInv, BaseFiles
  <2>4. j # k
    BY <1>t, <2>2, <2>3, FilesExist DEF TypeOK
  <2>. QED  BY <1>t, <1>5, <2>2, <2>4 DEF StepWrites, TypeOK
<1>6. CASE Copy
  BY <1>6, CopyEffect, FilesExist
<1>7. CASE CopyRest
  BY <1>7, CopyRestEffect, FilesExist
<1>. QED
  BY <1>1, <1>2, <1>3, <1>4, <1>5, <1>6, <1>7 DEF Next, Elsewhere

(* So what installBase has put in a root stays. *)
LEMMA PlacedKept ==
  ASSUME BInv, [Next]_vars, ~CleanTmp, NEW k \in Pkg, went'[k] = went[k],
         went[k] # BaseRoot, Placed(k),
         Copy \/ CopyRest => InstDir # went[k] \/ Item # k
  PROVE  Placed(k)'
<1>1. PICK e \in Env : e = went[k]
  BY DEF BInv, TypeOK, Root
<1>2. ASSUME base'[k] = None
      PROVE  tree'[e][k] # None /\ tree'[e][k].whole
  BY <1>1, <1>2, AbsentKept DEF Placed
<1>. QED  BY <1>1, <1>2 DEF Placed

(* installBase has installed all packages that it does not have to do, each   *)
(* of them whole when it goes on to the next.                                 *)
LEMMA InstalledStep == BInv /\ [Next]_vars => Installed'
<1>. SUFFICES ASSUME BInv, [Next]_vars PROVE Installed'
  OBVIOUS
<1>t. TypeOK /\ PhaseInv /\ Installed /\ BasePkgs \subseteq Pkg
  BY BaseAssumption DEF BInv, BasePkgs
<1>1. CASE UNCHANGED vars
  BY <1>t, <1>1 DEF Installed, vars, Placed, BaseHas, Item, InstDir, FallsBack
<1>2. CASE NewRecipe \/ Start \/ BaseThere \/ NoLink \/ LinkFile \/ LinkRecords \/ RemoveWorld
           \/ CreateBaseLinked \/ StepWrites \/ Skip \/ Stop \/ CleanTmp
  <2>1. stage' # "base"
    BY <1>t, <1>2
       DEF NewRecipe, Start, BaseThere, NoLink, LinkFile, LinkRecords, RemoveWorld,
           CreateBaseLinked, MustLink, StepWrites, Builds, Skip, Stop, CleanTmp, PhaseInv,
           Install, flags
  <2>. QED  BY <2>1 DEF Installed
<1>3. CASE ProtectBaseDir
  BY <1>t, <1>3 DEF ProtectBaseDir, AfterProtect, Installed
<1>4. CASE InstallBase
  <2>1. todo' = BaseSet /\ at' \notin {"rest", "record"}
    BY <1>4 DEF InstallBase
  <2>2. \A k \in BasePkgs : \E n \in DOMAIN BaseSet : BaseSet[n] = k
    BY DEF BasePkgs
  <2>. QED  BY <2>1, <2>2 DEF Installed
<1>5. CASE CreateBaseOk \/ TakePkg \/ ItemsDone
  BY <1>t, <1>5 DEF CreateBaseOk, TakePkg, ItemsDone, Installed, Placed, BaseHas, disk, hist
<1>6. CASE Copy
  <2>. SUFFICES ASSUME stage = "base" PROVE Installed'
    BY <1>6 DEF Copy, Installed
  <2>1. todo \in Seq(Pkg) /\ todo # <<>> /\ Item \in Pkg
    BY <1>6, AtItem DEF Copy, Install
  <2>2. 1 \in DOMAIN todo /\ todo[1] = Item
    BY <2>1 DEF Item
  <2>3. todo' = todo /\ at' = "rest" /\ went' = [went EXCEPT ![Item] = InstDir]
    BY <1>6 DEF Copy
  <2>4. Item' = Item /\ InstDir' = InstDir
    BY <1>6 DEF Copy, Item, InstDir, FallsBack, store, flags
  <2>5. went'[Item'] = InstDir'
    BY <1>t, <2>1, <2>3, <2>4 DEF TypeOK
  <2>6. ASSUME NEW k \in BasePkgs, \A n \in DOMAIN todo : todo[n] # k
        PROVE  Placed(k)'
    <3>1. k # Item /\ k \in Pkg /\ Placed(k) /\ went'[k] = went[k]
      BY <1>t, <2>2, <2>3, <2>6 DEF Installed, TypeOK
    <3>2. CASE went[k] = BaseRoot
      BY <1>6, <3>1, <3>2, CopyEffect DEF Placed, BaseHas
    <3>3. CASE went[k] # BaseRoot
      <4>1. ~CleanTmp
        BY <1>6 DEF Copy, CleanTmp
      <4>. QED  BY <3>1, <3>3, <4>1, PlacedKept
    <3>. QED  BY <3>2, <3>3
  <2>. QED  BY <2>3, <2>5, <2>6 DEF Installed
<1>7. CASE CopyRest
  <2>. SUFFICES ASSUME stage = "base" PROVE Installed'
    BY <1>7 DEF CopyRest, Installed
  <2>1. todo \in Seq(Pkg) /\ todo # <<>> /\ Item \in Pkg /\ InstDir \in Root
    BY <1>7, AtItem DEF CopyRest, Install
  <2>2. 1 \in DOMAIN todo /\ todo[1] = Item
    BY <2>1 DEF Item
  <2>3. todo' = todo /\ at' = "record" /\ went' = went
    BY <1>7 DEF CopyRest, hist
  <2>4. Item' = Item /\ InstDir' = InstDir
    BY <1>7 DEF CopyRest, Item, InstDir, FallsBack, store, flags
  <2>5. went[Item] = InstDir
    BY <1>t, <1>7 DEF CopyRest, Installed
  <2>6. PICK k \in Pkg, d \in Root : k = Item /\ d = InstDir
    BY <2>1
  <2>7. Placed(k)'
    <3>1. CASE d = BaseRoot
      BY <1>7, <2>3, <2>5, <2>6, <3>1, CopyRestEffect, FilesExist DEF Placed, BaseHas
    <3>2. CASE d # BaseRoot
      BY <1>7, <2>3, <2>5, <2>6, <3>2, CopyRestEffect, FilesOfRoot DEF Placed
    <3>. QED  BY <3>1, <3>2
  <2>8. ASSUME NEW j \in BasePkgs, \A n \in DOMAIN todo : todo[n] # j
        PROVE  Placed(j)'
    <3>1. j # Item /\ j \in Pkg /\ Placed(j) /\ went'[j] = went[j]
      BY <1>t, <2>2, <2>3, <2>8 DEF Installed
    <3>2. CASE went[j] = BaseRoot
      BY <1>7, <3>1, <3>2, CopyRestEffect DEF Placed, BaseHas
    <3>3. CASE went[j] # BaseRoot
      <4>1. ~CleanTmp
        BY <1>7 DEF CopyRest, CleanTmp
      <4>. QED  BY <3>1, <3>3, <4>1, PlacedKept
    <3>. QED  BY <3>2, <3>3
  <2>9. Placed(Item)'
    BY <2>4, <2>6, <2>7 DEF Placed, BaseHas
  <2>. QED  BY <2>3, <2>4, <2>5, <2>8, <2>9 DEF Installed
<1>8. CASE AddPkgToWorldDir
  <2>. SUFFICES ASSUME stage = "base" PROVE Installed'
    BY <1>8 DEF AddPkgToWorldDir, Installed
  <2>1. todo \in Seq(Pkg) /\ todo # <<>>
    BY <1>8, AtItem DEF AddPkgToWorldDir, Install
  <2>2. Placed(Item)
    BY <1>t, <1>8 DEF AddPkgToWorldDir, Installed
  <2>3. /\ todo' = Tail(todo) /\ base' = base /\ tree' = tree /\ went' = went
        /\ at' \notin {"rest", "record"}
    BY <1>8 DEF AddPkgToWorldDir, hist
  <2>4. ASSUME NEW k \in BasePkgs, \A n \in DOMAIN Tail(todo) : Tail(todo)[n] # k
        PROVE  Placed(k)
    <3>1. k = Item \/ \A n \in DOMAIN todo : todo[n] # k
      BY <2>1, <2>4, HeadTail DEF Item
    <3>. QED  BY <1>t, <2>2, <2>4, <3>1 DEF Installed
  <2>. QED  BY <2>3, <2>4 DEF Installed, Placed, BaseHas
<1>. QED
  BY <1>1, <1>2, <1>3, <1>4, <1>5, <1>6, <1>7, <1>8 DEF Next

(* While the base counts as ready, a step of a recipe finds no file of it     *)
(* that it can write.                                                         *)
LEMMA StepWritesNothing ==
  ASSUME BInv, StepWrites, ok, ~interrupted
  PROVE  FALSE
<1>1. TypeOK /\ LinkInv /\ Protected
  BY DEF BInv
<1>2. job.root \in Env /\ ~OnBase
  BY JobTyped DEF BInv, StepWrites, Builds, Root, JobType, OnBase
<1>3. PICK k \in Pkg : tree[job.root][k] = Shared /\ base[k].writable
  BY DEF StepWrites
<1>4. base[k] \in BaseFiles
  BY <1>1, <1>2, <1>3 DEF LinkInv
<1>5. base[k] # None
  BY <1>4, FilesExist
<1>. QED  BY <1>1, <1>2, <1>3, <1>5 DEF Protected

(* The files of a finished base are writable only for a run that installs     *)
(* into it, and until it has protected them again.                            *)
LEMMA ProtectedStep == BInv /\ [Next]_vars => Protected'
<1>. SUFFICES ASSUME BInv, [Next]_vars, ok', ~interrupted',
                     NEW k \in Pkg, base'[k] # None, base'[k].writable
              PROVE  OnBase' /\ at' \in Install \cup {"ok", "protect"}
  BY DEF Protected
<1>t. TypeOK /\ PhaseInv /\ OkInv /\ Protected
  BY DEF BInv
<1>p. ASSUME ok, ~interrupted, base' = base
      PROVE  OnBase /\ at \in Install \cup {"ok", "protect"}
  BY <1>t, <1>p DEF Protected
<1>1. CASE UNCHANGED vars
  BY <1>p, <1>1 DEF vars, OnBase
<1>2. CASE NewRecipe \/ Start \/ BaseThere \/ NoLink \/ LinkFile \/ LinkRecords \/ RemoveWorld
           \/ CreateBaseLinked
  <2>1. /\ at \notin Install \cup {"ok", "protect"} /\ base' = base
        /\ ok' = ok /\ interrupted' = interrupted
    BY <1>2
       DEF NewRecipe, Start, BaseThere, NoLink, LinkFile, LinkRecords, RemoveWorld, CreateBaseLinked,
           MustLink, store, disk, hist, Install
  <2>2. ok /\ ~interrupted
    BY <2>1, Zenon
  <2>. QED  BY <1>p, <2>1, <2>2
<1>3. CASE InstallBase
  <2>1. baseOk = ok /\ ~baseOk /\ ok' = ok
    BY <1>t, <1>3 DEF InstallBase, OkInv, disk, hist
  <2>. QED  BY <2>1, Zenon
<1>10. CASE CleanTmp
  BY <1>10 DEF CleanTmp
<1>4. CASE CreateBaseOk
  BY <1>t, <1>4 DEF CreateBaseOk, PhaseInv, OnBase, store, flags, hist
<1>5. CASE ProtectBaseDir
  <2>1. base[k] # None /\ base'[k] = [base[k] EXCEPT !.writable = FALSE]
    BY <1>5 DEF ProtectBaseDir
  <2>2. base[k] \in BaseFiles
    BY <1>t, <2>1 DEF TypeOK
  <2>. QED  BY <2>1, <2>2 DEF BaseFiles
<1>6. CASE TakePkg \/ Skip \/ AddPkgToWorldDir \/ ItemsDone
  <2>1. base' = base /\ ok' = ok /\ interrupted' = interrupted /\ OnBase' = OnBase
    BY <1>6 DEF TakePkg, Skip, AddPkgToWorldDir, ItemsDone, disk, flags, hist, OnBase
  <2>2. ok /\ ~interrupted
    BY <2>1, Zenon
  <2>3. OnBase
    BY <1>p, <2>1, <2>2
  <2>. QED  BY <1>6, <2>1, <2>3
         DEF TakePkg, Skip, AddPkgToWorldDir, ItemsDone, Install
<1>7. CASE StepWrites
  <2>1. ok' = ok /\ interrupted' = interrupted
    BY <1>7 DEF StepWrites, hist
  <2>2. ok /\ ~interrupted
    BY <2>1, Zenon
  <2>. QED  BY <1>7, <2>2, StepWritesNothing
<1>8. CASE Copy \/ CopyRest
  <2>1. OnBase' = OnBase /\ at' \in Install /\ ok' = ok /\ interrupted' = interrupted
    BY <1>8 DEF Copy, CopyRest, flags, hist, OnBase, Install
  <2>2. ok /\ ~interrupted
    BY <2>1, Zenon
  <2>3. CASE InstDir # BaseRoot
    <3>1. base' = base
      BY <1>8, <2>3 DEF Copy, CopyRest
    <3>2. OnBase
      BY <1>p, <2>2, <3>1
    <3>. QED  BY <2>1, <3>2
  <2>4. CASE InstDir = BaseRoot
    <3>1. OnBase
      BY <2>4 DEF InstDir, OnBase
    <3>. QED  BY <2>1, <3>1
  <2>. QED  BY <2>3, <2>4
<1>9. CASE Stop
  <2>1. ~interrupted /\ ~Maintaining /\ ok /\ base' = base
    BY <1>9 DEF Stop, disk
  <2>. QED  BY <1>p, <2>1 DEF Maintaining, Install
<1>. QED
  BY <1>1, <1>2, <1>3, <1>4, <1>5, <1>6, <1>7, <1>8, <1>9, <1>10 DEF Next

(* A base that counts as ready has all packages of set/base.xx.               *)
LEMMA ReadyStep == BInv /\ [Next]_vars => BaseReady'
<1>. SUFFICES ASSUME BInv, [Next]_vars, ok', ~interrupted', NEW k \in BasePkgs,
                     went'[k] = BaseRoot
              PROVE  BaseHas(k)' \/ Replacing(BaseRoot, k)'
  BY DEF BaseReady, BasePkgs
<1>t. TypeOK /\ PhaseInv /\ OkInv /\ Installed /\ BaseReady
  BY DEF BInv
<1>k. k \in Pkg
  BY BaseAssumption DEF BasePkgs
<1>r. ASSUME ok, ~interrupted, went[k] = BaseRoot,
             at # "rest" \/ InstDir # BaseRoot \/ Item # k
      PROVE  BaseHas(k)
  BY <1>t, <1>r DEF BaseReady, Replacing
<1>1. CASE UNCHANGED vars
  BY <1>t, <1>1 DEF vars, BaseReady, BaseHas, Replacing, InstDir, FallsBack, Item
<1>2. CASE NewRecipe \/ Start \/ BaseThere \/ NoLink \/ LinkFile \/ LinkRecords \/ RemoveWorld
           \/ CreateBaseLinked \/ TakePkg \/ Skip \/ AddPkgToWorldDir \/ ItemsDone
  <2>1. at # "rest" /\ base' = base /\ ok' = ok /\ interrupted' = interrupted /\ went' = went
    BY <1>2
       DEF NewRecipe, Start, BaseThere, NoLink, LinkFile, LinkRecords, RemoveWorld, CreateBaseLinked,
           TakePkg, Skip, AddPkgToWorldDir, ItemsDone, MustLink, disk, hist
  <2>2. ok /\ ~interrupted
    BY <2>1, Zenon
  <2>. QED  BY <1>r, <2>1, <2>2 DEF BaseHas
<1>3. CASE InstallBase
  <2>1. baseOk = ok /\ ~baseOk /\ ok' = ok
    BY <1>t, <1>3 DEF InstallBase, OkInv, disk, hist
  <2>. QED  BY <2>1, Zenon
<1>10. CASE CleanTmp
  BY <1>10 DEF CleanTmp
<1>4. CASE CreateBaseOk
  <2>1. at = "ok" /\ base' = base /\ ~interrupted /\ went[k] = BaseRoot
    BY <1>4 DEF CreateBaseOk, hist
  <2>2. CASE stage = "base"
    <3>1. DOMAIN todo = {}
      BY <1>t, <2>1 DEF PhaseInv
    <3>. QED  BY <1>t, <2>1, <2>2, <3>1 DEF Installed, Placed, BaseHas
  <2>3. CASE stage = "env"
    BY <1>t, <1>r, <2>1, <2>3 DEF OkInv, BaseHas
  <2>. QED  BY <1>t, <2>2, <2>3 DEF TypeOK
<1>5. CASE ProtectBaseDir
  <2>1. BaseHas(k)
    BY <1>r, <1>5 DEF ProtectBaseDir, hist
  <2>2. base'[k] = [base[k] EXCEPT !.writable = FALSE] /\ base[k] \in BaseFiles
    BY <1>k, <1>t, <1>5, <2>1 DEF ProtectBaseDir, BaseHas, TypeOK
  <2>3. base'[k] \in BaseFiles /\ base'[k].whole
    BY <2>1, <2>2 DEF BaseFiles, BaseHas
  <2>. QED  BY <2>3, FilesExist DEF BaseHas
<1>6. CASE StepWrites
  <2>1. ok' = ok /\ interrupted' = interrupted
    BY <1>6 DEF StepWrites, hist
  <2>2. ok /\ ~interrupted
    BY <2>1, Zenon
  <2>. QED  BY <1>6, <2>2, StepWritesNothing
<1>7. CASE Copy
  <2>1. at # "rest" /\ at' = "rest" /\ InstDir' = InstDir /\ Item' = Item /\ ok /\ ~interrupted
        /\ went' = went
    BY <1>t, <1>7 DEF Copy, store, flags, InstDir, FallsBack, Item, PhaseInv, OkInv
  <2>2. BaseHas(k)
    BY <1>r, <2>1
  <2>3. base'[k] = base[k] \/ (InstDir = BaseRoot /\ Item = k)
    BY <1>k, <1>7, CopyEffect
  <2>. QED  BY <2>1, <2>2, <2>3 DEF BaseHas, Replacing
<1>8. CASE CopyRest
  <2>1. ok /\ ~interrupted /\ went' = went
    BY <1>8 DEF CopyRest, hist
  <2>2. CASE InstDir = BaseRoot /\ Item = k
    BY <1>8, <2>2, CopyRestEffect, FilesExist DEF BaseHas
  <2>3. CASE ~(InstDir = BaseRoot /\ Item = k)
    <3>1. base'[k] = base[k]
      BY <1>k, <1>8, <2>3, CopyRestEffect
    <3>. QED  BY <1>r, <2>1, <2>3, <3>1 DEF BaseHas
  <2>. QED  BY <2>2, <2>3
<1>9. CASE Stop
  <2>1. ~interrupted /\ ~Maintaining /\ ok /\ base' = base /\ went' = went
    BY <1>9 DEF Stop, disk
  <2>2. at # "rest" \/ InstDir # BaseRoot
    BY <2>1 DEF Maintaining, InstDir, OnBase
  <2>. QED  BY <1>r, <2>1, <2>2 DEF BaseHas
<1>. QED
  BY <1>1, <1>2, <1>3, <1>4, <1>5, <1>6, <1>7, <1>8, <1>9, <1>10 DEF Next

LEMMA InvStep == BInv /\ [Next]_vars => BInv'
BY TypeStep, PhaseStep, OkStep, LinkStep, InstalledStep, ProtectedStep, ReadyStep DEF BInv

(* For every set, environments and jobs: what base_ok stands for. *)
THEOREM BaseInvariant == Spec => []BInv
BY InitInv, InvStep, PTL DEF Spec

(* base_ok stands for a base that has whole what installBase has put there:   *)
(* see BaseReady, and Installed for what it has put elsewhere.                *)
THEOREM MarkedBaseIsReady == Spec => []BaseReady
<1>1. BInv => BaseReady
  BY DEF BInv
<1>. QED  BY BaseInvariant, <1>1, PTL

(* What is done in an environment leaves the base alone: see NoWriteThrough. *)
THEOREM BaseIsProtected == Spec => NoWriteThrough
<1>1. ASSUME BInv, [Next]_vars, base' # base, at # "idle", ~interrupted
      PROVE  OnBase \/ at = "protect"
  <2>1. CASE StepWrites
    <3>1. job.root \in Env
      BY <1>1, <2>1, JobTyped DEF BInv, StepWrites, Root, JobType
    <3>2. ok
      BY <1>1, <2>1, <3>1 DEF BInv, LinkInv, StepWrites
    <3>. QED  BY <1>1, <2>1, <3>2, StepWritesNothing
  <2>2. CASE Copy \/ CopyRest
    BY <1>1, <2>2 DEF Copy, CopyRest, InstDir, OnBase
  <2>. QED
    BY <1>1, <2>1, <2>2
       DEF Next, vars, disk, NewRecipe, Start, BaseThere, InstallBase, CreateBaseOk, ProtectBaseDir,
           NoLink, LinkFile, LinkRecords, RemoveWorld, CreateBaseLinked, TakePkg, Skip,
           AddPkgToWorldDir, ItemsDone, Stop, CleanTmp
<1>. QED  BY BaseInvariant, <1>1, PTL DEF Spec, NoWriteThrough
-----------------------------------------------------------------------------
(* The environments.                                                          *)
(* A root keeps a package of the base whatever is done to the base or to      *)
(* other roots: a link is replaced by the old file before the base changes.   *)
LEMMA HasKept ==
  ASSUME BInv, [Next]_vars, ~CleanTmp, ok, ~interrupted,
         NEW e \in Env, NEW k \in BasePkgs, went[k] = BaseRoot, EnvHas(e, k),
         Copy \/ CopyRest => InstDir # e \/ Item # k
  PROVE  EnvHas(e, k)'
<1>t. TypeOK /\ PhaseInv /\ BaseReady /\ k \in Pkg
  BY BaseAssumption DEF BInv, BasePkgs
<1>1. CASE UNCHANGED vars
  BY <1>1 DEF vars, EnvHas, BaseHas
<1>2. CASE Elsewhere
  BY <1>2, ElsewhereFiles DEF EnvHas, BaseHas
<1>3. CASE ProtectBaseDir
  <2>1. tree' = tree
    BY <1>3 DEF ProtectBaseDir
  <2>2. ASSUME BaseHas(k) PROVE base'[k] # None /\ base'[k].whole
    <3>1. base'[k] = [base[k] EXCEPT !.writable = FALSE] /\ base[k] \in BaseFiles
      BY <1>t, <1>3, <2>2 DEF ProtectBaseDir, BaseHas, TypeOK
    <3>2. base'[k] \in BaseFiles /\ base'[k].whole
      BY <2>2, <3>1 DEF BaseFiles, BaseHas
    <3>. QED  BY <3>2, FilesExist
  <2>. QED  BY <2>1, <2>2 DEF EnvHas, BaseHas
<1>4. CASE LinkFile
  <2>1. PICK j \in Unlinked : tree' = [tree EXCEPT ![job.root] = [tree[job.root] EXCEPT ![j] = Shared]]
    BY <1>4 DEF LinkFile
  <2>2. base' = base /\ at = "link"
    BY <1>4 DEF LinkFile, MustLink
  <2>3. BaseHas(k)
    BY <1>t, <2>2 DEF BaseReady, Replacing
  <2>4. tree'[e][k] = tree[e][k] \/ tree'[e][k] = Shared
    BY <1>t, <2>1 DEF TypeOK
  <2>. QED  BY <2>2, <2>3, <2>4 DEF EnvHas, BaseHas
<1>5. CASE StepWrites
  BY <1>5, StepWritesNothing
<1>6. CASE Copy /\ InstDir = BaseRoot
  <2>1. /\ Item \in Pkg
        /\ \A j \in Pkg : j # Item => base'[j] = base[j]
        /\ \A d \in Env : tree'[d] = [tree[d] EXCEPT ![Item] =
             IF @ = Shared THEN [rel |-> base[Item].rel, whole |-> base[Item].whole] ELSE @]
    BY <1>6, CopyEffect DEF Copy
  <2>2. CASE k # Item
    <3>1. base'[k] = base[k]
      BY <1>t, <2>1, <2>2
    <3>2. tree[e] \in [Pkg -> Files \cup {None, Shared}]
      BY <1>t DEF TypeOK
    <3>3. tree'[e][k] = tree[e][k]
      BY <1>t, <2>1, <2>2, <3>2
    <3>. QED  BY <3>1, <3>3 DEF EnvHas, BaseHas
  <2>3. CASE k = Item /\ tree[e][k] = Shared
    <3>1. base[k] # None /\ base[k].whole
      BY <2>3 DEF EnvHas, BaseHas
    <3>2. base[k] \in BaseFiles
      BY <1>t, <3>1 DEF TypeOK
    <3>3. tree'[e][k] = [rel |-> base[k].rel, whole |-> base[k].whole]
      BY <1>t, <2>1, <2>3 DEF TypeOK
    <3>4. tree'[e][k] \in Files /\ tree'[e][k].whole
      BY <3>1, <3>2, <3>3 DEF Files, BaseFiles
    <3>. QED  BY <3>4, FilesOfRoot, FilesNotShared DEF EnvHas
  <2>4. CASE k = Item /\ tree[e][k] # Shared
    <3>1. tree'[e][k] = tree[e][k]
      BY <1>t, <2>1, <2>4 DEF TypeOK
    <3>. QED  BY <2>4, <3>1 DEF EnvHas
  <2>. QED  BY <2>2, <2>3, <2>4
<1>7. CASE Copy /\ InstDir # BaseRoot
  BY <1>t, <1>7, CopyEffect DEF EnvHas, BaseHas
<1>8. CASE CopyRest /\ InstDir = BaseRoot
  <2>1. /\ base'[Item] \in BaseFiles /\ base'[Item].whole /\ tree' = tree
        /\ \A j \in Pkg : j # Item => base'[j] = base[j]
    BY <1>8, CopyRestEffect
  <2>2. BaseHas(k) => base'[k] # None /\ base'[k].whole
    BY <1>t, <2>1, FilesExist DEF BaseHas
  <2>. QED  BY <2>1, <2>2 DEF EnvHas, BaseHas
<1>9. CASE CopyRest /\ InstDir # BaseRoot
  BY <1>t, <1>9, CopyRestEffect DEF EnvHas, BaseHas
<1>. QED
  BY <1>1, <1>2, <1>3, <1>4, <1>5, <1>6, <1>7, <1>8, <1>9 DEF Next, Elsewhere

(* The package at hand in an environment is one of its jobs'. *)
LEMMA ItemNamed ==
  ASSUME BInv, TodoNamed, at \in Install \ {"item"}, stage = "env"
  PROVE  InstDir = job.root /\ Item \in Named(job.root)
<1>1. InstDir = job.root
  BY DEF InstDir
<1>2. todo \in Seq(Pkg) /\ todo # <<>>
  BY AtItem
<1>3. 1 \in DOMAIN todo /\ Item = todo[1]
  BY <1>2 DEF Item
<1>. QED  BY <1>1, <1>3 DEF TodoNamed

LEMMA TodoStep == BInv /\ TodoNamed /\ [Next]_vars => TodoNamed'
<1>. SUFFICES ASSUME BInv, TodoNamed, [Next]_vars, stage' = "env", NEW n \in DOMAIN todo'
              PROVE  todo'[n] \in Named(job'.root)
  BY DEF TodoNamed, Named
<1>0. TypeOK /\ PhaseInv
  BY DEF BInv
<1>1. \A j \in Job : \A i \in DOMAIN j.pkgs : j.pkgs[i] \in Named(j.root)
  BY DEF Named
<1>2. CASE Start
  BY <1>1, <1>2 DEF Start
<1>3. CASE ProtectBaseDir
  <2>1. CASE stage = "base"
    <3>1. todo' = job.pkgs /\ job' = job
      BY <1>3, <2>1 DEF ProtectBaseDir, AfterProtect, flags
    <3>2. job \in Job
      <4>1. job = NoJob => DOMAIN job.pkgs = {}
        BY DEF NoJob
      <4>. QED  BY <1>0, <3>1, <4>1 DEF TypeOK
    <3>. QED  BY <1>1, <3>1, <3>2
  <2>2. CASE stage # "base"
    BY <1>3, <2>2 DEF ProtectBaseDir, AfterProtect, TodoNamed, flags
  <2>. QED  BY <2>1, <2>2
<1>4. CASE Skip \/ AddPkgToWorldDir
  <2>1. todo \in Seq(Pkg) /\ todo # <<>> /\ todo' = Tail(todo) /\ job' = job /\ stage' = stage
    BY <1>0, <1>4 DEF Skip, AddPkgToWorldDir, PhaseInv, Install, TypeOK, flags
  <2>2. n + 1 \in DOMAIN todo /\ todo'[n] = todo[n + 1]
    BY <2>1
  <2>. QED  BY <2>1, <2>2 DEF TodoNamed
<1>5. CASE Stop
  BY <1>5 DEF Stop
<1>6. CASE InstallBase
  BY <1>6 DEF InstallBase
<1>7. CASE ~Start /\ ~ProtectBaseDir /\ ~Skip /\ ~AddPkgToWorldDir /\ ~Stop /\ ~InstallBase
  <2>1. todo' = todo /\ job' = job /\ stage' = stage
    BY <1>7 DEF Next, vars, flags, NewRecipe, BaseThere, CreateBaseOk, NoLink, LinkFile, LinkRecords,
       RemoveWorld, CreateBaseLinked, TakePkg, StepWrites, Copy, CopyRest, ItemsDone, CleanTmp
  <2>. QED  BY <2>1 DEF TodoNamed
<1>. QED  BY <1>2, <1>3, <1>4, <1>5, <1>6, <1>7

LEMMA LinkedKnownStep == BInv /\ LinkedKnown /\ [Next]_vars => LinkedKnown'
<1>. SUFFICES ASSUME BInv, LinkedKnown, [Next]_vars PROVE LinkedKnown'
  OBVIOUS
<1>0. PhaseInv /\ OkInv /\ TypeOK
  BY DEF BInv
<1>1. CASE UNCHANGED vars
  BY <1>1 DEF vars, LinkedKnown
<1>2. CASE Start
  <2>1. PICK j \in Job : /\ job' = j /\ baseLinked' = (j.root \in linked)
                         /\ at' = IF j.init THEN "item" ELSE "base"
    BY <1>2 DEF Start
  <2>2. stage' = "env" /\ linked' = linked /\ ok' = ok
    BY <1>2 DEF Start, disk
  <2>3. baseLinked' <=> job'.root \in linked'
    BY <2>1, <2>2, Zenon
  <2>4. at' \in Install => job'.init
    BY <2>1 DEF Install
  <2>. QED  BY <2>2, <2>3, <2>4 DEF LinkedKnown
<1>10. CASE NewRecipe
  BY <1>10 DEF NewRecipe, LinkedKnown, disk, flags
<1>3. CASE BaseThere \/ InstallBase \/ CreateBaseOk
  BY <1>0, <1>3 DEF BaseThere, InstallBase, CreateBaseOk, LinkedKnown, PhaseInv, Install, disk, flags
<1>4. CASE ProtectBaseDir
  BY <1>0, <1>4 DEF ProtectBaseDir, AfterProtect, LinkedKnown, PhaseInv, Install, flags
<1>5. CASE NoLink
  BY <1>0, <1>5 DEF NoLink, MustLink, LinkedKnown, PhaseInv, Install, disk, flags
<1>6. CASE LinkFile \/ LinkRecords \/ RemoveWorld
  BY <1>0, <1>6 DEF LinkFile, LinkRecords, RemoveWorld, MustLink, LinkedKnown, PhaseInv, Install,
     disk, flags
<1>7. CASE CreateBaseLinked
  BY <1>0, <1>7 DEF CreateBaseLinked, LinkedKnown, PhaseInv, OkInv, Install, flags
<1>8. CASE TakePkg \/ StepWrites \/ Skip \/ Copy \/ CopyRest \/ AddPkgToWorldDir \/ ItemsDone
  BY <1>0, <1>8 DEF TakePkg, StepWrites, Skip, Copy, CopyRest, AddPkgToWorldDir, ItemsDone,
     LinkedKnown, PhaseInv, Install, disk, flags
<1>9. CASE Stop \/ CleanTmp
  BY <1>0, <1>9 DEF Stop, CleanTmp, LinkedKnown, PhaseInv, Install, disk, flags
<1>. QED  BY <1>1, <1>2, <1>3, <1>4, <1>5, <1>6, <1>7, <1>8, <1>9, <1>10 DEF Next

\* before a linked root only: the whole base has been linked
LEMMA LinkRecordsHas ==
  ASSUME BInv, LinkRecords, ~interrupted, NEW k \in BasePkgs, went[k] = BaseRoot
  PROVE  EnvHas(job.root, k)
<1>1. at = "link" /\ Unlinked = {} /\ ok /\ BaseReady /\ k \in Pkg
  BY BaseAssumption DEF LinkRecords, MustLink, BInv, OkInv, BasePkgs
<1>2. BaseHas(k)
  BY <1>1 DEF BaseReady, Replacing
<1>3. tree[job.root][k] = Shared
  BY <1>1, <1>2 DEF Unlinked, BaseHas
<1>. QED  BY <1>2, <1>3 DEF EnvHas

(* What installBase has put where stays known while base_ok exists. *)
LEMMA WentKept == BInv /\ [Next]_vars /\ ok /\ ~CleanTmp => went' = went /\ ok'
<1>. SUFFICES ASSUME BInv, [Next]_vars, ok, ~CleanTmp PROVE went' = went /\ ok'
  OBVIOUS
<1>0. PhaseInv /\ OkInv
  BY DEF BInv
<1>1. CASE Copy
  <2>1. stage # "base"
    BY <1>0, <1>1 DEF Copy, PhaseInv, OkInv
  <2>. QED  BY <1>1, <2>1 DEF Copy
<1>2. CASE ~Copy
  BY <1>2 DEF Next, vars, hist, disk, NewRecipe, Start, BaseThere, InstallBase, CreateBaseOk,
     ProtectBaseDir, NoLink, LinkFile, LinkRecords, RemoveWorld, CreateBaseLinked, TakePkg,
     StepWrites, Skip, CopyRest, AddPkgToWorldDir, ItemsDone, Stop
<1>. QED  BY <1>1, <1>2

LEMMA LinkedHasBaseStep ==
  BInv /\ LinkedKnown /\ TodoNamed /\ LinkedHasBase /\ [Next]_vars => LinkedHasBase'
<1>. SUFFICES ASSUME BInv, LinkedKnown, TodoNamed, LinkedHasBase, [Next]_vars, ~interrupted'
              PROVE  /\ \A e \in linked' : \A k \in BasePkgs \ Named(e) :
                          went'[k] = BaseRoot => EnvHas(e, k)'
                     /\ at' \in {"world", "linked"} =>
                          \A k \in BasePkgs : went'[k] = BaseRoot => EnvHas(job.root, k)'
  BY DEF LinkedHasBase, Named, BasePkgs
<1>0. TypeOK /\ PhaseInv /\ OkInv
  BY DEF BInv
<1>1. CASE CleanTmp
  BY <1>0, <1>1 DEF CleanTmp
<1>2. CASE ~CleanTmp
  <2>1. ~interrupted
    <3>1. interrupted' = interrupted \/ interrupted' = (interrupted \/ Maintaining)
      BY <1>2 DEF Next, vars, hist, NewRecipe, Start, BaseThere, InstallBase, CreateBaseOk,
         ProtectBaseDir, NoLink, LinkFile, LinkRecords, RemoveWorld, CreateBaseLinked, TakePkg,
         StepWrites, Skip, Copy, CopyRest, AddPkgToWorldDir, ItemsDone, Stop
    <3>. QED  BY <3>1, Zenon
  <2>2. ASSUME NEW e \in linked, NEW k \in BasePkgs \ Named(e), went'[k] = BaseRoot
        PROVE  EnvHas(e, k)'
    <3>1. ok /\ e \in Env
      BY <1>0, <2>2 DEF LinkedKnown, TypeOK
    <3>2. went[k] = BaseRoot
      BY <1>2, <2>2, <3>1, WentKept
    <3>3. EnvHas(e, k)
      BY <2>1, <2>2, <3>2 DEF LinkedHasBase
    <3>4. Copy \/ CopyRest => InstDir # e \/ Item # k
      <4>1. SUFFICES ASSUME Copy \/ CopyRest, InstDir = e PROVE Item # k
        OBVIOUS
      <4>2. at \in Install \ {"item"} /\ stage = "env"
        BY <1>0, <3>1, <4>1 DEF Copy, CopyRest, Install, OkInv, PhaseInv, TypeOK
      <4>. QED  BY <2>2, <4>1, <4>2, ItemNamed
    <3>. QED  BY <1>2, <2>1, <2>2, <3>1, <3>2, <3>3, <3>4, HasKept
  <2>3. ASSUME at' \in {"world", "linked"}, NEW k \in BasePkgs, went'[k] = BaseRoot
        PROVE  EnvHas(job.root, k)'
    <3>1. CASE LinkRecords
      <4>1. went[k] = BaseRoot
        BY <2>3, <3>1 DEF LinkRecords, hist
      <4>. QED  BY <2>1, <3>1, <4>1, LinkRecordsHas DEF LinkRecords, EnvHas, BaseHas, flags
    <3>2. CASE ~LinkRecords
      <4>1. at \in {"world", "linked"} /\ base' = base /\ tree' = tree /\ job' = job
        BY <1>0, <2>3, <3>2 DEF Next, vars, flags, disk, NewRecipe, Start, BaseThere,
           InstallBase, CreateBaseOk, ProtectBaseDir, AfterProtect, NoLink, LinkFile, MustLink,
           RemoveWorld, CreateBaseLinked, TakePkg, StepWrites, Skip, Copy, CopyRest,
           AddPkgToWorldDir, ItemsDone, Stop, CleanTmp
      <4>2. went[k] = BaseRoot
        BY <1>0, <1>2, <2>3, <4>1, WentKept DEF OkInv
      <4>. QED  BY <2>1, <4>1, <4>2 DEF LinkedHasBase, EnvHas, BaseHas
    <3>. QED  BY <3>1, <3>2
  <2>4. CASE CreateBaseLinked
    <3>1. /\ at = "linked" /\ linked' = linked \cup {job.root} /\ base' = base
          /\ tree' = tree /\ went' = went
      BY <2>4 DEF CreateBaseLinked, hist
    <3>2. ASSUME NEW e, e = job.root, NEW k \in BasePkgs, went'[k] = BaseRoot
          PROVE  EnvHas(e, k)'
      BY <2>1, <3>1, <3>2 DEF LinkedHasBase, EnvHas, BaseHas
    <3>. QED  BY <2>2, <2>3, <3>1, <3>2
  <2>5. CASE ~CreateBaseLinked
    <3>1. linked' = linked
      BY <1>2, <2>5 DEF Next, vars, disk, NewRecipe, Start, BaseThere, InstallBase,
         CreateBaseOk, ProtectBaseDir, NoLink, LinkFile, LinkRecords, RemoveWorld, TakePkg,
         StepWrites, Skip, Copy, CopyRest, AddPkgToWorldDir, ItemsDone, Stop
    <3>. QED  BY <2>2, <2>3, <3>1
  <2>. QED  BY <2>4, <2>5
<1>. QED  BY <1>1, <1>2

LEMMA OwnCopyStep == BInv /\ TodoNamed /\ OwnCopy /\ [Next]_vars => OwnCopy'
<1>. SUFFICES ASSUME BInv, TodoNamed, OwnCopy, [Next]_vars, ok',
                     NEW k \in BasePkgs, went'[k] # BaseRoot, k \notin Named(went'[k])
              PROVE  Placed(k)'
  BY DEF OwnCopy, Named, BasePkgs
<1>0. TypeOK /\ PhaseInv /\ OkInv /\ Installed /\ k \in Pkg
  BY BaseAssumption DEF BInv, BasePkgs
<1>1. CASE ok
  <2>1. ~CleanTmp /\ went' = went
    BY <1>1, WentKept DEF CleanTmp
  <2>2. Placed(k)
    BY <1>1, <2>1 DEF OwnCopy
  <2>3. Copy \/ CopyRest => InstDir # went[k] \/ Item # k
    <3>1. SUFFICES ASSUME Copy \/ CopyRest, InstDir = went[k] PROVE Item # k
      OBVIOUS
    <3>2. at \in Install \ {"item"} /\ stage = "env"
      BY <1>0, <1>1, <3>1 DEF Copy, CopyRest, Install, OkInv, PhaseInv, TypeOK
    <3>. QED  BY <2>1, <3>1, <3>2, ItemNamed
  <2>. QED  BY <1>0, <2>1, <2>2, <2>3, PlacedKept
<1>2. CASE ~ok
  <2>1. CreateBaseOk
    BY <1>2 DEF Next, vars, disk, NewRecipe, Start, BaseThere, InstallBase, ProtectBaseDir,
       NoLink, LinkFile, LinkRecords, RemoveWorld, CreateBaseLinked, TakePkg, StepWrites, Skip,
       Copy, CopyRest, AddPkgToWorldDir, ItemsDone, Stop, CleanTmp
  <2>2. at = "ok" /\ base' = base /\ tree' = tree /\ went' = went
    BY <2>1 DEF CreateBaseOk, hist
  <2>3. stage = "base" /\ DOMAIN todo = {}
    BY <1>0, <1>2, <2>2 DEF OkInv, PhaseInv, TypeOK
  <2>. QED  BY <1>0, <2>2, <2>3 DEF Installed, Placed, BaseHas
<1>. QED  BY <1>1, <1>2

LEMMA RecordsStep ==
  BInv /\ LinkedKnown /\ TodoNamed /\ NoRecordsLeft /\ OwnRecords /\ [Next]_vars
    => NoRecordsLeft' /\ OwnRecords'
<1>. SUFFICES ASSUME BInv, LinkedKnown, TodoNamed, NoRecordsLeft, OwnRecords, [Next]_vars
              PROVE  NoRecordsLeft' /\ OwnRecords'
  OBVIOUS
<1>0. /\ TypeOK /\ PhaseInv /\ OkInv /\ job.root \in Root /\ linked \subseteq Env /\ BaseRoot \notin Env
      /\ rec \in [Root -> SUBSET [pkg : Pkg, rel : Rels]]
  BY JobTyped, BaseAssumption DEF BInv, TypeOK, JobType
<1>1. CASE LinkRecords
  <2>1. /\ rec' = [rec EXCEPT ![job.root] = @ \cup rec[BaseRoot]]
        /\ linked' = linked /\ at' = "world" /\ at = "link" /\ ~baseLinked
    BY <1>1 DEF LinkRecords, MustLink
  <2>2. job.root \notin linked
    BY <2>1 DEF LinkedKnown
  <2>. QED  BY <1>0, <2>1, <2>2 DEF NoRecordsLeft, OwnRecords, Named
<1>2. CASE RemoveWorld
  <2>1. /\ rec' = [rec EXCEPT ![job.root] = {}] /\ linked' = linked /\ job' = job
    BY <1>2 DEF RemoveWorld, flags
  <2>2. rec'[job.root] = {} /\ \A e \in linked : e # job.root => rec'[e] = rec[e]
    BY <1>0, <2>1
  <2>. QED  BY <2>1, <2>2 DEF NoRecordsLeft, OwnRecords, Named
<1>3. CASE CreateBaseLinked
  BY <1>3 DEF CreateBaseLinked, NoRecordsLeft, OwnRecords, Named
<1>4. CASE AddPkgToWorldDir
  <2>1. PICK x : x = [pkg |-> Item, rel |-> Copied.rel]
    OBVIOUS
  <2>2. /\ rec' = [rec EXCEPT ![InstDir] = @ \cup {x}] /\ linked' = linked
        /\ at' = "item" /\ at = "record"
    BY <1>4, <2>1 DEF AddPkgToWorldDir
  <2>3. InstDir \in linked => x.pkg \in Named(InstDir)
    <3>1. InstDir \in linked => stage = "env"
      BY <1>0, <2>2 DEF LinkedKnown, OkInv, TypeOK
    <3>. QED  BY <2>1, <2>2, <3>1, ItemNamed DEF Install
  <2>4. \A e \in linked : rec'[e] = IF e = InstDir THEN rec[e] \cup {x} ELSE rec[e]
    BY <1>0, <2>2 DEF Root
  <2>5. \A e \in linked : \A y \in rec'[e] : y \in rec[e] \/ (e = InstDir /\ y = x)
    BY <2>4
  <2>. QED  BY <2>2, <2>3, <2>5 DEF NoRecordsLeft, OwnRecords, Named
<1>5. CASE CleanTmp
  BY <1>5 DEF CleanTmp, NoRecordsLeft, OwnRecords
<1>6. CASE ~LinkRecords /\ ~RemoveWorld /\ ~CreateBaseLinked /\ ~AddPkgToWorldDir /\ ~CleanTmp
  <2>1. rec' = rec /\ linked' = linked /\ (at' = "linked" => at = "linked" /\ job' = job)
    BY <1>0, <1>6 DEF Next, vars, flags, disk, NewRecipe, Start, BaseThere, InstallBase, CreateBaseOk,
       ProtectBaseDir, AfterProtect, NoLink, LinkFile, MustLink, TakePkg, StepWrites, Skip, Copy,
       CopyRest, ItemsDone, Stop
  <2>. QED  BY <2>1 DEF NoRecordsLeft, OwnRecords, Named
<1>. QED  BY <1>1, <1>2, <1>3, <1>4, <1>5, <1>6

LEMMA EnvInit == Init => EInv
<1>. SUFFICES ASSUME Init PROVE EInv
  OBVIOUS
<1>1. LinkedKnown /\ TodoNamed /\ LinkedHasBase /\ OwnCopy /\ NoRecordsLeft /\ OwnRecords
  BY DEF Init, LinkedKnown, TodoNamed, LinkedHasBase, OwnCopy, NoRecordsLeft, OwnRecords, Install
<1>. QED  BY <1>1, InitInv DEF EInv

(* For every set, environments and jobs: what base_linked stands for, and     *)
(* where the packages are that have not gone to the base.                     *)
THEOREM EnvInvariant == Spec => []EInv
<1>1. EInv /\ [Next]_vars => EInv'
  BY InvStep, LinkedKnownStep, TodoStep, LinkedHasBaseStep, OwnCopyStep, RecordsStep DEF EInv
<1>. QED  BY <1>1, EnvInit, PTL DEF Spec

(* A run that builds in an environment finds the base in it, what has gone to *)
(* the root of this environment instead included: see EnvHasBase.             *)
THEOREM BuildsOnBase == Spec => []EnvHasBase
<1>1. ASSUME EInv PROVE EnvHasBase
  <2>. SUFFICES ASSUME at = "item", stage = "env", job.root # BaseRoot, ~job.init, ~job.sep,
                       ~interrupted, NEW k \in BasePkgs \ Named(job.root),
                       went[k] = BaseRoot \/ (went[k] = job.root /\ base[k] = None)
                PROVE  EnvHas(job.root, k)
    BY DEF EnvHasBase
  <2>1. job.root \in linked /\ ok /\ job.root \in Env /\ k \in Pkg
    BY <1>1, BaseAssumption DEF EInv, BInv, TypeOK, LinkedKnown, Install, BasePkgs
  <2>2. CASE went[k] = BaseRoot
    BY <1>1, <2>1, <2>2 DEF EInv, LinkedHasBase
  <2>3. CASE went[k] = job.root /\ base[k] = None
    <3>1. tree[job.root][k] # None /\ tree[job.root][k].whole
      BY <1>1, <2>1, <2>3 DEF EInv, OwnCopy, Placed
    <3>2. tree[job.root][k] # Shared
      BY <1>1, <2>1, <2>3, FilesExist DEF EInv, BInv, LinkInv
    <3>. QED  BY <3>1, <3>2 DEF EnvHas
  <2>. QED  BY <2>2, <2>3
<1>. QED  BY <1>1, EnvInvariant, PTL

(* The records of a linked environment are its own: see OwnRecords. *)
THEOREM RecordsAreOwn == Spec => []OwnRecords
<1>1. EInv => OwnRecords
  BY DEF EInv
<1>. QED  BY <1>1, EnvInvariant, PTL
=============================================================================
