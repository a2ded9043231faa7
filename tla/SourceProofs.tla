---------------------------- MODULE SourceProofs ----------------------------
(* Fetching sources: FetchInv is an invariant of Source for every number of   *)
(* processes, recipes and files, and with it FetchedOrCut, CommitThere and    *)
(* SourceKept.                                                                *)
EXTENDS Source, TLAPS

LEMMA TypeFacts ==
  ASSUME TypeOK
  PROVE  /\ \A g \in Prog, f \in File : src[g][f] \in {"none"} \cup Content
         /\ \A q \in Proc : /\ todo[q] \in Seq(Recipe) /\ urls[q] \in Seq(File)
                            /\ met[q] \in BOOLEAN /\ fresh[q] \in BOOLEAN
                            /\ at[q] \in {"idle", "next"} \cup Fetching
BY DEF TypeOK

(* The recipe at hand and the file at hand. *)
LEMMA NowFacts ==
  ASSUME TypeOK, NEW q \in Proc, todo[q] # << >>
  PROVE  /\ Now(q) \in Recipe /\ Dir(q) \in Prog /\ 1 \in DOMAIN todo[q] /\ Now(q) = todo[q][1]
         /\ Type(q) \in {"tar", "alpine", "go-mod", "git"}
         /\ Urls[Now(q)] \in Seq(File) /\ VerShort[Now(q)] \subseteq Commit
<1>1. todo[q] \in Seq(Recipe)
  BY TypeFacts
<1>2. Now(q) \in Recipe /\ 1 \in DOMAIN todo[q] /\ Now(q) = todo[q][1]
  BY <1>1 DEF Now
<1>. QED  BY <1>2, SourceAssumption DEF Dir, Type

LEMMA HeadFacts ==
  ASSUME TypeOK, NEW q \in Proc, urls[q] # << >>
  PROVE  /\ Head(urls[q]) \in File /\ 1 \in DOMAIN urls[q] /\ Head(urls[q]) = urls[q][1]
         /\ Head(urls[q]) \in Rest(q)
         /\ Tail(urls[q]) \in Seq(File)
         /\ \A n \in DOMAIN Tail(urls[q]) :
              n \in Nat /\ n >= 1 /\ n + 1 \in DOMAIN urls[q] /\ Tail(urls[q])[n] = urls[q][n + 1]
         /\ \A n \in DOMAIN urls[q] :
              n = 1 \/ (n \in Nat /\ n > 1 /\ n - 1 \in DOMAIN Tail(urls[q])
                        /\ urls[q][n] = Tail(urls[q])[n - 1])
<1>1. urls[q] \in Seq(File)
  BY TypeFacts
<1>2. /\ Head(urls[q]) \in File /\ 1 \in DOMAIN urls[q] /\ Head(urls[q]) = urls[q][1]
      /\ Tail(urls[q]) \in Seq(File)
  BY <1>1
<1>3. \A n \in DOMAIN Tail(urls[q]) :
        n \in Nat /\ n >= 1 /\ n + 1 \in DOMAIN urls[q] /\ Tail(urls[q])[n] = urls[q][n + 1]
  BY <1>1
<1>4. \A n \in DOMAIN urls[q] :
        n = 1 \/ (n \in Nat /\ n > 1 /\ n - 1 \in DOMAIN Tail(urls[q])
                  /\ urls[q][n] = Tail(urls[q])[n - 1])
  BY <1>1
<1>. QED  BY <1>2, <1>3, <1>4 DEF Rest

(* A step of one process. *)
Step(q) ==
  \/ Start(q) \/ NextPkg(q) \/ Test(q) \/ Create(q) \/ Copy(q) \/ GoModDownload(q) \/ Check(q)
  \/ Git(q) \/ FillClone(q) \/ CloneFails(q) \/ Used(q) \/ Stop(q)

LEMMA StepLocal ==
  ASSUME TypeOK, NEW q \in Proc, NEW r \in Proc, q # r, Step(q)
  PROVE  /\ at'[r] = at[r] /\ todo'[r] = todo[r] /\ urls'[r] = urls[r] /\ fresh'[r] = fresh[r]
         /\ Now(r)' = Now(r) /\ Dir(r)' = Dir(r) /\ Rest(r)' = Rest(r) /\ Type(r)' = Type(r)
         /\ AtFiles(r)' = AtFiles(r)
<1>1. at'[r] = at[r] /\ todo'[r] = todo[r] /\ urls'[r] = urls[r] /\ fresh'[r] = fresh[r]
  BY DEF TypeOK, Step, Start, NextPkg, Test, Create, Copy, GoModDownload, Check, Git, FillClone, CloneFails,
         Used, Stop, Goto
<1>. QED  BY <1>1 DEF Now, Dir, Rest, Type, AtFiles

(* What a step of q does to the files. *)
LEMMA StepFiles ==
  ASSUME TypeOK, AtHand, NEW q \in Proc, Step(q)
  PROVE  /\ ~Create(q) /\ ~Copy(q) /\ ~GoModDownload(q) => src' = src
         /\ ~Copy(q) /\ ~GoModDownload(q) /\ ~(Stop(q) /\ at[q] = "copy") => cut' = cut
         /\ \A g \in Prog, f \in File :
              at[q] \notin Fetching \/ g # Dir(q) \/ urls[q] = << >> \/ f # Head(urls[q]) =>
                src'[g][f] = src[g][f] /\ (<<g, f>> \in cut' <=> <<g, f>> \in cut)
         /\ ~NextPkg(q) => met' = met /\ fresh' = fresh
<1>1. ~Create(q) /\ ~Copy(q) /\ ~GoModDownload(q) => src' = src
  BY DEF Step, Start, NextPkg, Test, Check, Git, FillClone, CloneFails, Used, Stop, store
<1>2. ~Copy(q) /\ ~GoModDownload(q) /\ ~(Stop(q) /\ at[q] = "copy") => cut' = cut
  BY DEF Step, Start, NextPkg, Test, Create, Check, Git, FillClone, CloneFails, Used, Stop
<1>3. ~NextPkg(q) => met' = met /\ fresh' = fresh
  BY DEF Step, Start, Test, Create, Copy, GoModDownload, Check, Git, FillClone, CloneFails, Used, Stop
<1>4. ASSUME NEW g \in Prog, NEW f \in File,
             at[q] \notin Fetching \/ g # Dir(q) \/ urls[q] = << >> \/ f # Head(urls[q])
      PROVE  src'[g][f] = src[g][f] /\ (<<g, f>> \in cut' <=> <<g, f>> \in cut)
  <2>1. CASE at[q] \notin {"create", "copy"}
    <3>1. ~Create(q) /\ ~Copy(q) /\ ~GoModDownload(q)
      BY <2>1 DEF Create, Copy, GoModDownload
    <3>. QED  BY <1>1, <1>2, <2>1, <3>1
  <2>2. CASE at[q] \in {"create", "copy"}
    <3>1. at[q] \in Fetching /\ urls[q] # << >> /\ todo[q] # << >>
      BY <2>2 DEF Fetching, AtHand
    <3>2. g # Dir(q) \/ f # Head(urls[q])
      BY <1>4, <3>1
    <3>3. Dir(q) \in Prog /\ Head(urls[q]) \in File
      BY <3>1, NowFacts, HeadFacts
    <3>4. ASSUME NEW v, Write(Dir(q), Head(urls[q]), v) PROVE src'[g][f] = src[g][f]
      <4>1. src' = [src EXCEPT ![Dir(q)] = [src[Dir(q)] EXCEPT ![Head(urls[q])] = v]]
        BY <3>4 DEF Write
      <4>. QED  BY <3>2, <3>3, <4>1 DEF TypeOK
    <3>5. src'[g][f] = src[g][f]
      <4>1. CASE Create(q) \/ Copy(q) \/ GoModDownload(q)
        BY <3>4, <4>1 DEF Create, Copy, GoModDownload
      <4>. QED  BY <1>1, <4>1
    <3>6. <<g, f>> # <<Dir(q), Head(urls[q])>>
      BY <3>2
    <3>7. <<g, f>> \in cut' <=> <<g, f>> \in cut
      <4>1. CASE Copy(q) \/ GoModDownload(q) \/ Stop(q)
        BY <3>6, <4>1 DEF Copy, GoModDownload, Stop
      <4>. QED  BY <1>2, <4>1
    <3>. QED  BY <3>5, <3>7
  <2>. QED  BY <2>1, <2>2
<1>. QED  BY <1>1, <1>2, <1>3, <1>4

(* The file at hand, after it was created and after it was filled. *)
LEMMA FileAtHand ==
  ASSUME TypeOK, AtHand, NEW q \in Proc, at[q] \in {"create", "copy"}
  PROVE  /\ urls[q] # << >> /\ todo[q] # << >> /\ Head(urls[q]) \in File /\ Dir(q) \in Prog
         /\ at[q] \in Fetching
         /\ Create(q) => src'[Dir(q)][Head(urls[q])] = "part"
         /\ GoModDownload(q) => src'[Dir(q)][Head(urls[q])] = "whole"
         /\ Copy(q) => /\ src'[Dir(q)][Head(urls[q])] \in Content
                       /\ \/ src'[Dir(q)][Head(urls[q])] = "whole"
                          \/ <<Dir(q), Head(urls[q])>> \in cut'
<1>1. /\ at[q] \in Fetching /\ urls[q] # << >> /\ todo[q] # << >>
  BY DEF Fetching, AtHand
<1>2. Head(urls[q]) \in File /\ Dir(q) \in Prog
  BY <1>1, NowFacts, HeadFacts
<1>3. ASSUME NEW v, Write(Dir(q), Head(urls[q]), v) PROVE src'[Dir(q)][Head(urls[q])] = v
  <2>1. src' = [src EXCEPT ![Dir(q)] = [src[Dir(q)] EXCEPT ![Head(urls[q])] = v]]
    BY <1>3 DEF Write
  <2>. QED  BY <1>2, <2>1 DEF TypeOK
<1>4. Create(q) => src'[Dir(q)][Head(urls[q])] = "part"
  BY <1>3 DEF Create
<1>5. GoModDownload(q) => src'[Dir(q)][Head(urls[q])] = "whole"
  BY <1>3 DEF GoModDownload
<1>6. ASSUME Copy(q)
      PROVE  /\ src'[Dir(q)][Head(urls[q])] \in Content
             /\ \/ src'[Dir(q)][Head(urls[q])] = "whole"
                \/ <<Dir(q), Head(urls[q])>> \in cut'
  <2>1. PICK v \in Content :
          /\ Write(Dir(q), Head(urls[q]), v)
          /\ cut' = IF v = "whole" THEN cut \ {<<Dir(q), Head(urls[q])>>}
                    ELSE cut \cup {<<Dir(q), Head(urls[q])>>}
    BY <1>6 DEF Copy
  <2>2. src'[Dir(q)][Head(urls[q])] = v
    BY <1>3, <2>1
  <2>. QED  BY <2>1, <2>2
<1>. QED  BY <1>1, <1>2, <1>4, <1>5, <1>6
-----------------------------------------------------------------------------
LEMMA TypeInit == Init => TypeOK
BY DEF Init, TypeOK, Fetching

LEMMA WriteType ==
  ASSUME TypeOK, NEW g \in Prog, NEW f \in File, NEW v \in Content, Write(g, f, v)
  PROVE  src' \in [Prog -> [File -> {"none"} \cup Content]]
<1>1. src' = [src EXCEPT ![g] = [src[g] EXCEPT ![f] = v]]
  BY DEF Write
<1>. QED  BY <1>1 DEF TypeOK

LEMMA CloneType ==
  ASSUME TypeOK, NEW g \in Prog, NEW c \in {Missing} \cup [whole : BOOLEAN, has : SUBSET Commit],
         clone' = [clone EXCEPT ![g] = c]
  PROVE  clone' \in [Prog -> {Missing} \cup [whole : BOOLEAN, has : SUBSET Commit]]
BY DEF TypeOK

LEMMA TypeStep ==
  ASSUME TypeOK, AtHand, NEW q \in Proc, Step(q)
  PROVE  TypeOK'
<1>e. << >> \in Seq(Recipe) /\ << >> \in Seq(File)
  OBVIOUS
<1>h. at[q] \in Fetching => todo[q] # << >> /\ Dir(q) \in Prog /\ Now(q) \in Recipe /\ todo[q] \in Seq(Recipe)
  BY NowFacts, TypeFacts DEF AtHand
<1>1. CASE Start(q)
  <2>1. todo' \in [Proc -> Seq(Recipe)]
    <3>1. PICK s \in SetFiles[q] : todo' = [todo EXCEPT ![q] = s]
      BY <1>1 DEF Start
    <3>2. s \in Seq(Recipe)
      BY SourceAssumption
    <3>. QED  BY <3>1, <3>2 DEF TypeOK
  <2>. QED  BY <1>1, <2>1 DEF Start, Goto, store, TypeOK, Fetching
<1>2. CASE NextPkg(q)
  <2>1. CASE todo[q] = << >>
    BY <1>2, <2>1 DEF NextPkg, Goto, store, TypeOK, Fetching
  <2>2. CASE todo[q] # << >>
    <3>1. Now(q) \in Recipe /\ Urls[Now(q)] \in Seq(File)
      BY <2>2, NowFacts
    <3>2. /\ urls' = [urls EXCEPT ![q] = Urls[Now(q)]]
          /\ met' = [p \in Proc |-> IF p = q THEN InDir(Dir(q)) # {} ELSE met[p] \/ p \in InDir(Dir(q))]
          /\ fresh' = [fresh EXCEPT ![q] = \A f \in FilesOf(Now(q)) : ~Exists(Dir(q), f)]
          /\ at' = [at EXCEPT ![q] = IF SrcType[Now(q)] = "git" THEN "git" ELSE "test"]
          /\ src' = src /\ clone' = clone /\ upstream' = upstream /\ todo' = todo /\ cut' = cut
      BY <1>2, <2>2 DEF NextPkg, Goto, store
    <3>3. urls' \in [Proc -> Seq(File)]
      BY <3>1, <3>2 DEF TypeOK
    <3>4. met' \in [Proc -> BOOLEAN]
      <4>1. \A p \in Proc : (IF p = q THEN InDir(Dir(q)) # {} ELSE met[p] \/ p \in InDir(Dir(q))) \in BOOLEAN
        BY DEF TypeOK
      <4>. QED  BY <3>2, <4>1
    <3>5. fresh' \in [Proc -> BOOLEAN]
      <4>1. (\A f \in FilesOf(Now(q)) : ~Exists(Dir(q), f)) \in BOOLEAN
        OBVIOUS
      <4>. QED  BY <3>2, <4>1 DEF TypeOK
    <3>6. at' \in [Proc -> {"idle", "next"} \cup Fetching]
      BY <3>2 DEF TypeOK, Fetching
    <3>. QED  BY <3>2, <3>3, <3>4, <3>5, <3>6 DEF TypeOK
  <2>. QED  BY <2>1, <2>2
<1>3. CASE Test(q)
  <2>1. urls[q] # << >> => Tail(urls[q]) \in Seq(File)
    BY HeadFacts
  <2>2. urls' \in [Proc -> Seq(File)]
    BY <1>3, <2>1 DEF Test, TypeOK
  <2>3. at' \in [Proc -> {"idle", "next"} \cup Fetching]
    BY <1>3 DEF Test, Goto, TypeOK, Fetching
  <2>. QED  BY <1>3, <2>2, <2>3 DEF Test, store, TypeOK
<1>4. CASE Create(q)
  <2>1. src' \in [Prog -> [File -> {"none"} \cup Content]]
    BY <1>4, FileAtHand, WriteType DEF Create, Content
  <2>. QED  BY <1>4, <2>1 DEF Create, Goto, TypeOK, Fetching
<1>5. CASE Copy(q)
  <2>1. /\ Dir(q) \in Prog /\ Head(urls[q]) \in File
    BY <1>5, FileAtHand DEF Copy
  <2>2. src' \in [Prog -> [File -> {"none"} \cup Content]]
    BY <1>5, <2>1, WriteType DEF Copy
  <2>3. cut' \subseteq Prog \X File
    BY <1>5, <2>1 DEF Copy, TypeOK
  <2>. QED  BY <1>5, <2>2, <2>3 DEF Copy, Goto, TypeOK, Fetching
<1>6. CASE GoModDownload(q)
  <2>1. /\ Dir(q) \in Prog /\ Head(urls[q]) \in File
    BY <1>6, FileAtHand DEF GoModDownload
  <2>2. src' \in [Prog -> [File -> {"none"} \cup Content]]
    BY <1>6, <2>1, WriteType DEF GoModDownload, Content
  <2>3. cut' \subseteq Prog \X File
    BY <1>6 DEF GoModDownload, TypeOK
  <2>. QED  BY <1>6, <2>2, <2>3 DEF GoModDownload, Goto, TypeOK, Fetching
<1>7. CASE Check(q)
  <2>1. urls[q] # << >>
    BY <1>7 DEF Check, AtHand, Fetching
  <2>2. urls' \in [Proc -> Seq(File)]
    BY <1>7, <2>1, HeadFacts DEF Check, TypeOK
  <2>. QED  BY <1>7, <2>2 DEF Check, Goto, store, TypeOK, Fetching
<1>8. CASE Git(q)
  <2>1. Dir(q) \in Prog
    BY <1>8, <1>h DEF Git, Fetching
  <2>2. clone' \in [Prog -> {Missing} \cup [whole : BOOLEAN, has : SUBSET Commit]]
    <3>1. [whole |-> FALSE, has |-> {}] \in [whole : BOOLEAN, has : SUBSET Commit]
      OBVIOUS
    <3>2. CASE clone' = clone
      BY <3>2 DEF TypeOK
    <3>3. CASE clone' # clone
      BY <1>8, <2>1, <3>1, <3>3, CloneType DEF Git
    <3>. QED  BY <3>2, <3>3
  <2>3. at' \in [Proc -> {"idle", "next"} \cup Fetching]
    BY <1>8 DEF Git, Goto, TypeOK, Fetching
  <2>. QED  BY <1>8, <2>2, <2>3 DEF Git, TypeOK
<1>9. CASE FillClone(q)
  <2>1. Dir(q) \in Prog
    BY <1>9, <1>h DEF FillClone, Fetching
  <2>2. [whole |-> TRUE, has |-> upstream] \in [whole : BOOLEAN, has : SUBSET Commit]
    BY DEF TypeOK
  <2>3. clone' \in [Prog -> {Missing} \cup [whole : BOOLEAN, has : SUBSET Commit]]
    BY <1>9, <2>1, <2>2, CloneType DEF FillClone
  <2>. QED  BY <1>9, <2>3 DEF FillClone, Goto, TypeOK, Fetching
<1>10. CASE CloneFails(q)
  <2>1. clone' \in [Prog -> {Missing} \cup [whole : BOOLEAN, has : SUBSET Commit]]
    BY <1>10, <1>h, CloneType DEF CloneFails, Fetching
  <2>2. todo' \in [Proc -> Seq(Recipe)] /\ urls' \in [Proc -> Seq(File)]
    BY <1>10, <1>e DEF CloneFails, TypeOK
  <2>. QED  BY <1>10, <2>1, <2>2 DEF CloneFails, Goto, TypeOK, Fetching
<1>11. CASE Used(q)
  <2>1. Tail(todo[q]) \in Seq(Recipe)
    BY <1>11, <1>h DEF Used, Fetching
  <2>2. todo' \in [Proc -> Seq(Recipe)] /\ urls' \in [Proc -> Seq(File)]
    BY <1>11, <1>e, <2>1 DEF Used, TypeOK
  <2>. QED  BY <1>11, <2>2 DEF Used, Goto, store, TypeOK, Fetching
<1>12. CASE Stop(q)
  <2>1. todo' \in [Proc -> Seq(Recipe)] /\ urls' \in [Proc -> Seq(File)]
    BY <1>12, <1>e DEF Stop, TypeOK
  <2>2. cut' \subseteq Prog \X File
    BY <1>12, FileAtHand DEF Stop, TypeOK
  <2>. QED  BY <1>12, <2>1, <2>2 DEF Stop, Goto, store, TypeOK, Fetching
<1>. QED  BY <1>1, <1>2, <1>3, <1>4, <1>5, <1>6, <1>7, <1>8, <1>9, <1>10, <1>11, <1>12 DEF Step
-----------------------------------------------------------------------------
(* Where a process is. *)
LEMMA StepPhase ==
  ASSUME TypeOK, AtHand, NEW q \in Proc, Step(q)
  PROVE  /\ at'[q] \in Fetching /\ ~NextPkg(q) => at[q] \in Fetching /\ todo' = todo
         /\ NextPkg(q) => at[q] = "next" /\ todo' = todo
         /\ at'[q] \in {"git", "cloning", "pull"} => NextPkg(q) \/ Git(q)
         /\ at'[q] \in {"test", "create", "copy", "check"} =>
              NextPkg(q) \/ Test(q) \/ Create(q) \/ Copy(q) \/ Check(q)
<1>1. at \in [Proc -> {"idle", "next"} \cup Fetching]
  BY DEF TypeOK
<1>2. CASE Start(q) \/ CloneFails(q) \/ Used(q) \/ Stop(q)
  <2>1. at'[q] \in {"next", "idle"}
    BY <1>1, <1>2 DEF Start, CloneFails, Used, Stop, Goto
  <2>2. ~NextPkg(q) \/ (todo' = todo /\ at[q] = "next")
    BY DEF NextPkg
  <2>. QED  BY <2>1, <2>2 DEF Fetching
<1>3. CASE NextPkg(q)
  BY <1>3 DEF NextPkg
<1>4. CASE Test(q)
  BY <1>1, <1>4 DEF Test, Goto, Fetching, NextPkg
<1>5. CASE Create(q) \/ Copy(q) \/ GoModDownload(q) \/ Check(q)
  BY <1>1, <1>5 DEF Create, Copy, GoModDownload, Check, Goto, Fetching, NextPkg
<1>6. CASE Git(q) \/ FillClone(q)
  BY <1>1, <1>6 DEF Git, FillClone, Goto, Fetching, NextPkg
<1>. QED  BY <1>2, <1>3, <1>4, <1>5, <1>6 DEF Step

LEMMA AtHandStep ==
  ASSUME TypeOK, AtHand, NEW q \in Proc, Step(q)
  PROVE  AtHand'
<1>1. SUFFICES ASSUME NEW r \in Proc, at'[r] \in Fetching
               PROVE  /\ todo'[r] # << >>
                      /\ AtFiles(r)' => Type(r)' # "git"
                      /\ at'[r] \in {"git", "cloning", "pull"} => Type(r)' = "git"
                      /\ at'[r] \in {"create", "copy", "check"} => urls'[r] # << >>
                      /\ AtFiles(r)' /\ Type(r)' = "go-mod" => urls'[r] = Urls[Now(r)'] /\ at'[r] # "check"
  BY DEF AtHand
<1>2. CASE r # q
  BY <1>1, <1>2, StepLocal DEF AtHand
<1>3. CASE r = q
  <2>0. at \in [Proc -> {"idle", "next"} \cup Fetching] /\ urls \in [Proc -> Seq(File)]
    BY DEF TypeOK
  <2>1. todo' = todo
    BY <1>1, <1>3, StepPhase
  <2>2. Now(q)' = Now(q) /\ Type(q)' = Type(q)
    BY <2>1 DEF Now, Type
  <2>3. CASE NextPkg(q)
    <3>1. todo[q] # << >>
      BY <1>1, <1>3, <2>0, <2>3 DEF NextPkg, Goto, Fetching
    <3>2. urls'[q] = Urls[Now(q)] /\ at'[q] = IF Type(q) = "git" THEN "git" ELSE "test"
      BY <2>0, <2>3, <3>1 DEF NextPkg, Goto, Type
    <3>. QED  BY <1>3, <2>1, <2>2, <3>1, <3>2 DEF AtFiles
  <2>4. CASE ~NextPkg(q)
    <3>1. at[q] \in Fetching /\ todo[q] # << >>
      BY <1>1, <1>3, <2>4, StepPhase DEF AtHand
    <3>2. CASE Test(q)
      <4>1. Type(q) # "git" /\ (Type(q) = "go-mod" => urls[q] = Urls[Now(q)])
        BY <3>1, <3>2 DEF Test, AtHand, AtFiles
      <4>2. at'[q] \in {"test", "create", "ready"} /\ (at'[q] = "create" => urls[q] # << >> /\ urls'[q] = urls[q])
        BY <2>0, <3>2 DEF Test, Goto
      <4>3. Type(q) = "go-mod" => urls'[q] = urls[q]
        BY <2>0, <3>2 DEF Test, GoesOn, Type
      <4>. QED  BY <1>3, <2>1, <2>2, <3>1, <4>1, <4>2, <4>3 DEF AtFiles
    <3>3. CASE Create(q) \/ Copy(q)
      <4>1. /\ Type(q) # "git" /\ (Type(q) = "go-mod" => urls[q] = Urls[Now(q)]) /\ urls[q] # << >>
        BY <3>1, <3>3 DEF Create, Copy, AtHand, AtFiles
      <4>2. /\ urls' = urls /\ at'[q] \in {"copy", "check"}
            /\ at'[q] = "check" => Type(q) # "go-mod"
        BY <2>0, <3>3 DEF Create, Copy, Goto, Type
      <4>. QED  BY <1>3, <2>1, <2>2, <3>1, <4>1, <4>2 DEF AtFiles
    <3>4. CASE Check(q)
      <4>1. Type(q) # "git" /\ Type(q) # "go-mod" /\ at'[q] = "test"
        BY <2>0, <3>1, <3>4 DEF Check, Goto, AtHand, AtFiles
      <4>. QED  BY <1>3, <2>1, <2>2, <3>1, <4>1 DEF AtFiles
    <3>5. CASE Git(q)
      <4>1. Type(q) = "git" /\ at'[q] \in {"cloning", "ready", "pull"}
        BY <2>0, <3>1, <3>5 DEF Git, Goto, AtHand
      <4>. QED  BY <1>3, <2>1, <2>2, <3>1, <4>1 DEF AtFiles
    <3>6. CASE at'[q] = "ready"
      BY <1>3, <2>1, <3>1, <3>6 DEF AtFiles
    <3>7. at'[q] # "ready" => Test(q) \/ Create(q) \/ Copy(q) \/ Check(q) \/ Git(q)
      BY <1>1, <1>3, <2>4, StepPhase DEF Fetching
    <3>. QED  BY <3>2, <3>3, <3>4, <3>5, <3>6, <3>7
  <2>. QED  BY <2>3, <2>4
<1>. QED  BY <1>2, <1>3
-----------------------------------------------------------------------------
GoodNext(g, f) == src'[g][f] # "none" /\ (src'[g][f] = "whole" \/ <<g, f>> \in cut')

(* Only the file at hand changes, and only when it is created or filled. *)
LEMMA FilesKept ==
  ASSUME TypeOK, AtHand, NEW q \in Proc, Step(q), NEW g \in Prog, NEW f \in File,
         at[q] \notin {"create", "copy"} \/ g # Dir(q) \/ f # Head(urls[q])
  PROVE  /\ src'[g][f] = src[g][f] /\ (<<g, f>> \in cut' <=> <<g, f>> \in cut)
         /\ Good(g, f) <=> GoodNext(g, f)
<1>1. src'[g][f] = src[g][f] /\ (<<g, f>> \in cut' <=> <<g, f>> \in cut)
  <2>1. CASE at[q] \in {"create", "copy"}
    BY <2>1, StepFiles
  <2>2. CASE at[q] \notin {"create", "copy"}
    <3>1. ~Create(q) /\ ~Copy(q) /\ ~GoModDownload(q)
      BY <2>2 DEF Create, Copy, GoModDownload
    <3>. QED  BY <2>2, <3>1, StepFiles
  <2>. QED  BY <2>1, <2>2
<1>. QED  BY <1>1 DEF Good, GoodNext, Exists, Whole

LEMMA AloneMeans ==
  ASSUME Alone, NEW r \in Proc, at[r] \in Fetching, ~met[r],
         NEW p \in Proc, at[p] \in Fetching, Dir(p) = Dir(r)
  PROVE  p = r
BY DEF Alone, InDir

LEMMA MetGrows ==
  ASSUME TypeOK, NEW q \in Proc, Step(q), NEW r \in Proc, r # q, ~met'[r]
  PROVE  ~met[r]
<1>1. CASE NextPkg(q) /\ todo[q] # << >>
  BY <1>1 DEF NextPkg
<1>2. CASE ~(NextPkg(q) /\ todo[q] # << >>)
  <2>1. met' = met
    BY <1>2 DEF Step, Start, NextPkg, Test, Create, Copy, GoModDownload, Check, Git, FillClone, CloneFails,
         Used, Stop
  <2>. QED  BY <2>1
<1>. QED  BY <1>1, <1>2

(* The files of a process that has met nobody are left alone by the others.   *)
LEMMA OthersKept ==
  ASSUME TypeOK, AtHand, Alone, NEW q \in Proc, Step(q), NEW r \in Proc, r # q,
         at[r] \in Fetching, ~met'[r], NEW f \in File
  PROVE  /\ src'[Dir(r)][f] = src[Dir(r)][f] /\ (Good(Dir(r), f) <=> GoodNext(Dir(r), f))
         /\ Dir(r) \in Prog
<1>1. ~met[r]
  BY MetGrows
<1>2. at[q] \notin Fetching \/ Dir(r) # Dir(q)
  BY <1>1, AloneMeans
<1>3. at[q] \notin {"create", "copy"} \/ Dir(r) # Dir(q)
  BY <1>2 DEF Fetching
<1>4. Dir(r) \in Prog
  BY NowFacts DEF AtHand
<1>. QED  BY <1>3, <1>4, FilesKept

LEMMA AloneStep ==
  ASSUME TypeOK, AtHand, Alone, NEW q \in Proc, Step(q)
  PROVE  Alone'
<1>1. SUFFICES ASSUME NEW r \in Proc, at'[r] \in Fetching, ~met'[r],
                      NEW p \in Proc, at'[p] \in Fetching, Dir(p)' = Dir(r)', p # r
               PROVE  FALSE
  BY DEF Alone, InDir
<1>2. \A s \in Proc : s # q => at'[s] = at[s] /\ Dir(s)' = Dir(s)
  BY StepLocal
<1>3. at'[q] \in Fetching => Dir(q)' = Dir(q) /\ (~NextPkg(q) => at[q] \in Fetching)
  BY StepPhase DEF Dir, Now
<1>4. at'[q] \in Fetching /\ NextPkg(q) => todo[q] # << >>
  BY DEF NextPkg, Goto, TypeOK, Fetching
<1>5. CASE NextPkg(q) /\ r = q
  <2>1. met'[q] = (InDir(Dir(q)) # {})
    BY <1>1, <1>4, <1>5 DEF NextPkg
  <2>2. p \in InDir(Dir(q))
    BY <1>1, <1>2, <1>3, <1>5 DEF InDir
  <2>. QED  BY <1>1, <1>5, <2>1, <2>2
<1>6. CASE NextPkg(q) /\ p = q
  <2>1. met'[r] = (met[r] \/ r \in InDir(Dir(q)))
    BY <1>1, <1>4, <1>6 DEF NextPkg
  <2>2. r \in InDir(Dir(q))
    BY <1>1, <1>2, <1>3, <1>6 DEF InDir
  <2>. QED  BY <1>1, <2>1, <2>2
<1>7. CASE ~NextPkg(q) \/ (r # q /\ p # q)
  <2>1. at[r] \in Fetching /\ at[p] \in Fetching /\ Dir(p) = Dir(r)
    BY <1>1, <1>2, <1>3, <1>7
  <2>2. ~met[r]
    <3>1. CASE r # q
      BY <1>1, <3>1, MetGrows
    <3>2. CASE r = q
      BY <1>1, <1>7, <3>2, StepFiles
    <3>. QED  BY <3>1, <3>2
  <2>. QED  BY <1>1, <2>1, <2>2, AloneMeans
<1>. QED  BY <1>5, <1>6, <1>7

LEMMA AccountedStep ==
  ASSUME TypeOK, AtHand, Accounted, NEW q \in Proc, Step(q)
  PROVE  Accounted'
<1>1. SUFFICES ASSUME NEW g \in Prog, NEW f \in File, src'[g][f] # "none", ~GoodNext(g, f)
               PROVE  \E p \in Proc : at'[p] \in Fetching /\ Dir(p)' = g /\ at'[p] = "copy"
                                     /\ Head(urls'[p]) = f
  BY DEF Accounted, Exists, Good, GoodNext, Whole, InDir
<1>2. at \in [Proc -> {"idle", "next"} \cup Fetching]
  BY DEF TypeOK
<1>3. CASE Create(q) /\ g = Dir(q) /\ f = Head(urls[q])
  <2>1. at'[q] = "copy" /\ urls' = urls /\ todo' = todo
    BY <1>2, <1>3 DEF Create, Goto
  <2>2. Dir(q)' = Dir(q)
    BY <2>1 DEF Dir, Now
  <2>. QED  BY <1>3, <2>1, <2>2 DEF Fetching
<1>4. CASE ~(Create(q) /\ g = Dir(q) /\ f = Head(urls[q]))
  <2>1. ~((Copy(q) \/ GoModDownload(q)) /\ g = Dir(q) /\ f = Head(urls[q]))
    BY <1>1, FileAtHand DEF GoodNext, Copy, GoModDownload
  <2>2. src'[g][f] = src[g][f] /\ (<<g, f>> \in cut => <<g, f>> \in cut')
    <3>1. CASE at[q] \notin {"create", "copy"} \/ g # Dir(q) \/ f # Head(urls[q])
      BY <3>1, FilesKept
    <3>2. CASE g = Dir(q) /\ f = Head(urls[q])
      <4>1. ~Create(q) /\ ~Copy(q) /\ ~GoModDownload(q)
        BY <1>4, <2>1, <3>2
      <4>2. CASE Stop(q)
        BY <4>1, <4>2, StepFiles DEF Stop
      <4>. QED  BY <4>1, <4>2, StepFiles
    <3>. QED  BY <3>1, <3>2
  <2>3. ~Good(g, f) /\ Exists(g, f)
    BY <1>1, <2>2 DEF Good, GoodNext, Exists, Whole
  <2>4. PICK p \in InDir(g) : at[p] = "copy" /\ Head(urls[p]) = f
    BY <2>3 DEF Accounted
  <2>5. p \in Proc /\ Dir(p) = g
    BY <2>4 DEF InDir
  <2>6. p # q
    <3>1. SUFFICES ASSUME p = q PROVE FALSE
      OBVIOUS
    <3>2. at[q] = "copy" /\ g = Dir(q) /\ f = Head(urls[q])
      BY <2>4, <2>5, <3>1
    <3>3. Stop(q)
      BY <1>4, <2>1, <3>2 DEF Step, Start, NextPkg, Test, Create, Copy, GoModDownload, Check, Git, FillClone,
           CloneFails, Used
    <3>4. <<g, f>> \in cut'
      BY <3>2, <3>3 DEF Stop
    <3>. QED  BY <1>1, <3>4 DEF GoodNext
  <2>7. at'[p] = at[p] /\ Dir(p)' = Dir(p) /\ urls'[p] = urls[p]
    BY <2>5, <2>6, StepLocal
  <2>. QED  BY <2>4, <2>5, <2>7 DEF Fetching
<1>. QED  BY <1>3, <1>4

LEMMA BegunStep ==
  ASSUME TypeOK, AtHand, Alone, Begun, NEW q \in Proc, Step(q)
  PROVE  Begun'
<1>1. SUFFICES ASSUME NEW r \in Proc, ~met'[r]
               PROVE  /\ at'[r] = "create" => src'[Dir(r)'][Head(urls'[r])] = "none"
                      /\ at'[r] = "copy" => src'[Dir(r)'][Head(urls'[r])] = "part"
                      /\ at'[r] = "check" => GoodNext(Dir(r)', Head(urls'[r]))
  BY DEF Begun, Exists, Good, GoodNext, Whole
<1>2. CASE r # q
  <2>1. at'[r] = at[r] /\ urls'[r] = urls[r] /\ Dir(r)' = Dir(r) /\ ~met[r]
    BY <1>1, <1>2, StepLocal, MetGrows
  <2>2. SUFFICES ASSUME at[r] \in {"create", "copy", "check"}
                 PROVE  /\ at[r] = "create" => src'[Dir(r)][Head(urls[r])] = "none"
                        /\ at[r] = "copy" => src'[Dir(r)][Head(urls[r])] = "part"
                        /\ at[r] = "check" => GoodNext(Dir(r), Head(urls[r]))
    BY <2>1
  <2>3. at[r] \in Fetching /\ Head(urls[r]) \in File
    BY <2>2, HeadFacts DEF Fetching, AtHand
  <2>4. /\ src'[Dir(r)][Head(urls[r])] = src[Dir(r)][Head(urls[r])]
        /\ Good(Dir(r), Head(urls[r])) <=> GoodNext(Dir(r), Head(urls[r]))
    BY <1>1, <1>2, <2>3, OthersKept
  <2>. QED  BY <2>1, <2>4 DEF Begun, Exists
<1>3. CASE r = q
  <2>0. at \in [Proc -> {"idle", "next"} \cup Fetching]
    BY DEF TypeOK
  <2>1. CASE at'[q] = "create"
    <3>1. Test(q)
      BY <2>0, <2>1 DEF Step, Start, NextPkg, Create, Copy, GoModDownload, Check, Git, FillClone,
           CloneFails, Used, Stop, Goto
    <3>2. ~Exists(Dir(q), Head(urls[q])) /\ urls' = urls /\ src' = src /\ todo' = todo
      BY <2>0, <2>1, <3>1 DEF Test, Goto, store
    <3>3. Dir(q)' = Dir(q)
      BY <3>2 DEF Dir, Now
    <3>. QED  BY <1>3, <2>1, <3>2, <3>3 DEF Exists
  <2>2. CASE at'[q] = "copy"
    <3>1. Create(q)
      BY <2>0, <2>2 DEF Step, Start, NextPkg, Test, Copy, GoModDownload, Check, Git, FillClone,
           CloneFails, Used, Stop, Goto
    <3>2. urls' = urls /\ todo' = todo /\ src'[Dir(q)][Head(urls[q])] = "part"
      BY <3>1, FileAtHand DEF Create
    <3>3. Dir(q)' = Dir(q)
      BY <3>2 DEF Dir, Now
    <3>. QED  BY <1>3, <2>2, <3>2, <3>3
  <2>3. CASE at'[q] = "check"
    <3>1. Copy(q)
      BY <2>0, <2>3 DEF Step, Start, NextPkg, Test, Create, GoModDownload, Check, Git, FillClone,
           CloneFails, Used, Stop, Goto
    <3>2. urls' = urls /\ todo' = todo
      BY <3>1 DEF Copy
    <3>3. GoodNext(Dir(q), Head(urls[q]))
      BY <3>1, FileAtHand DEF Copy, GoodNext, Content
    <3>4. Dir(q)' = Dir(q)
      BY <3>2 DEF Dir, Now
    <3>. QED  BY <1>3, <2>3, <3>2, <3>3, <3>4
  <2>. QED  BY <1>3, <2>1, <2>2, <2>3
<1>. QED  BY <1>2, <1>3
-----------------------------------------------------------------------------
LEMMA FilesFacts ==
  ASSUME TypeOK, NEW q \in Proc, todo[q] # << >>
  PROVE  /\ FilesOf(Now(q)) \subseteq File
         /\ Type(q) = "git" => FilesOf(Now(q)) = {}
         /\ Type(q) = "go-mod" => FilesOf(Now(q)) = {Head(Urls[Now(q)])}
<1>1. Now(q) \in Recipe /\ Urls[Now(q)] \in Seq(File)
  BY NowFacts
<1>2. FilesOf(Now(q)) \subseteq File
  BY <1>1 DEF FilesOf
<1>3. Type(q) = "git" => FilesOf(Now(q)) = {}
  <2>1. DOMAIN << >> = {}
    OBVIOUS
  <2>. QED  BY <1>1, <2>1, SourceAssumption DEF FilesOf, Type
<1>4. Type(q) = "go-mod" => FilesOf(Now(q)) = {Head(Urls[Now(q)])}
  <2>1. SUFFICES ASSUME Len(Urls[Now(q)]) = 1 PROVE FilesOf(Now(q)) = {Head(Urls[Now(q)])}
    BY <1>1, SourceAssumption DEF Type
  <2>2. DOMAIN Urls[Now(q)] = {1} /\ Head(Urls[Now(q)]) = Urls[Now(q)][1]
    BY <1>1, <2>1
  <2>. QED  BY <2>2 DEF FilesOf
<1>. QED  BY <1>2, <1>3, <1>4

(* Nobody is filling a file of a process that is alone and about to look.     *)
LEMMA ExistsIsGood ==
  ASSUME Alone, Accounted, NEW q \in Proc, at[q] = "test", ~met[q], Dir(q) \in Prog, NEW f \in File,
         Exists(Dir(q), f)
  PROVE  Good(Dir(q), f)
<1>1. SUFFICES ASSUME ~Good(Dir(q), f) PROVE FALSE
  OBVIOUS
<1>2. PICK p \in InDir(Dir(q)) : at[p] = "copy"
  BY <1>1 DEF Accounted
<1>3. p = q
  BY <1>2, AloneMeans DEF InDir, Fetching
<1>. QED  BY <1>2, <1>3

(* In every step of the process itself but the first, a file that is neither  *)
(* good nor left to look at had been so before.                               *)
LEMMA FetchedOwn ==
  ASSUME TypeOK, AtHand, Alone, Accounted, Begun, Fetched, Untouched,
         NEW q \in Proc, Step(q), ~NextPkg(q), at'[q] \in Fetching, Sure(q),
         NEW f \in FilesOf(Now(q))
  PROVE  GoodNext(Dir(q), f) \/ (AtFiles(q)' /\ f \in Rest(q)')
<1>0. at \in [Proc -> {"idle", "next"} \cup Fetching] /\ urls \in [Proc -> Seq(File)]
  BY DEF TypeOK
<1>1. at[q] \in Fetching /\ todo' = todo /\ todo[q] # << >>
  BY StepPhase DEF AtHand
<1>2. f \in File /\ Type(q) # "git" /\ Dir(q) \in Prog /\ Type(q) \in {"tar", "alpine", "go-mod"}
  BY <1>1, FilesFacts, NowFacts
<1>3. Good(Dir(q), f) \/ (AtFiles(q) /\ f \in Rest(q))
  BY <1>1 DEF Fetched
<1>4. ~met[q]
  BY DEF Sure
<1>5. CASE Test(q)
  <2>1. Good(Dir(q), f) <=> GoodNext(Dir(q), f)
    BY <1>2, <1>5, FilesKept DEF Test
  <2>2. SUFFICES ASSUME ~Good(Dir(q), f), f \in Rest(q)
                 PROVE  AtFiles(q)' /\ f \in Rest(q)'
    BY <1>3, <2>1
  <2>3. urls[q] # << >>
    <3>1. DOMAIN << >> = {}
      OBVIOUS
    <3>. QED  BY <2>2, <3>1 DEF Rest
  <2>4. Head(urls[q]) \in File /\ 1 \in DOMAIN urls[q] /\ Head(urls[q]) = urls[q][1]
    BY <2>3, HeadFacts
  <2>5. CASE ~Exists(Dir(q), Head(urls[q]))
    <3>1. at'[q] = "create" /\ urls' = urls
      BY <1>0, <1>5, <2>3, <2>5 DEF Test, Goto
    <3>. QED  BY <2>2, <3>1 DEF AtFiles, Rest
  <2>6. CASE Exists(Dir(q), Head(urls[q]))
    <3>1. Good(Dir(q), Head(urls[q]))
      BY <1>2, <1>4, <1>5, <2>4, <2>6, ExistsIsGood DEF Test
    <3>2. Type(q) # "go-mod"
      BY <1>1, <1>5, <2>2, <3>1, FilesFacts DEF Test, AtHand, AtFiles
    <3>3. Type(q) # "tar"
      BY <1>5, <2>4, <2>6 DEF Test, Untouched, AtFiles
    <3>4. urls'[q] = Tail(urls[q]) /\ at'[q] = "test"
      BY <1>0, <1>2, <1>5, <2>3, <2>6, <3>2, <3>3 DEF Test, GoesOn, Type
    <3>5. PICK n \in DOMAIN urls[q] : f = urls[q][n]
      BY <2>2 DEF Rest
    <3>6. n # 1
      BY <2>2, <2>4, <3>1, <3>5
    <3>7. n - 1 \in DOMAIN Tail(urls[q]) /\ f = Tail(urls[q])[n - 1]
      BY <2>3, <3>5, <3>6, HeadFacts
    <3>. QED  BY <3>4, <3>7 DEF AtFiles, Rest
  <2>. QED  BY <2>5, <2>6
<1>6. CASE Create(q) \/ Copy(q)
  <2>1. at'[q] \in {"copy", "check"} /\ urls' = urls /\ at[q] \in {"create", "copy"}
    BY <1>0, <1>6 DEF Create, Copy, Goto
  <2>2. CASE f = Head(urls[q])
    BY <2>1, <2>2, FileAtHand, HeadFacts DEF AtFiles, Rest
  <2>3. CASE f # Head(urls[q])
    BY <1>2, <1>3, <2>1, <2>3, FilesKept DEF AtFiles, Rest
  <2>. QED  BY <2>2, <2>3
<1>7. CASE GoModDownload(q)
  <2>1. f = Head(urls[q])
    BY <1>1, <1>7, FilesFacts DEF GoModDownload, AtHand, AtFiles, Type
  <2>. QED  BY <1>7, <2>1, FileAtHand DEF GoModDownload, GoodNext
<1>8. CASE Check(q)
  <2>1. Good(Dir(q), f) <=> GoodNext(Dir(q), f)
    BY <1>2, <1>8, FilesKept DEF Check
  <2>2. SUFFICES ASSUME ~Good(Dir(q), f), f \in Rest(q)
                 PROVE  AtFiles(q)' /\ f \in Rest(q)'
    BY <1>3, <2>1
  <2>3. Good(Dir(q), Head(urls[q])) /\ urls[q] # << >>
    BY <1>1, <1>4, <1>8 DEF Check, Begun, AtHand
  <2>4. urls'[q] = Tail(urls[q]) /\ at'[q] = "test"
    BY <1>0, <1>8 DEF Check, Goto
  <2>5. PICK n \in DOMAIN urls[q] : f = urls[q][n]
    BY <2>2 DEF Rest
  <2>6. n # 1
    BY <2>2, <2>3, <2>5, HeadFacts
  <2>7. n - 1 \in DOMAIN Tail(urls[q]) /\ f = Tail(urls[q])[n - 1]
    BY <2>3, <2>5, <2>6, HeadFacts
  <2>. QED  BY <2>4, <2>7 DEF AtFiles, Rest
<1>9. CASE Git(q) \/ FillClone(q)
  BY <1>1, <1>2, <1>9 DEF Git, FillClone, AtHand
<1>10. ~Start(q) /\ ~CloneFails(q) /\ ~Used(q) /\ ~Stop(q)
  BY <1>0 DEF Start, CloneFails, Used, Stop, Goto, Fetching
<1>. QED  BY <1>5, <1>6, <1>7, <1>8, <1>9, <1>10 DEF Step

LEMMA FetchedStep ==
  ASSUME TypeOK, AtHand, Alone, Accounted, Begun, Fetched, Untouched, NEW q \in Proc, Step(q)
  PROVE  Fetched'
<1>1. SUFFICES ASSUME NEW r \in Proc, at'[r] \in Fetching, ~met'[r], Type(r)' = "tar" => fresh'[r],
                      NEW f \in FilesOf(Now(r)')
               PROVE  GoodNext(Dir(r)', f) \/ (AtFiles(r)' /\ f \in Rest(r)')
  BY DEF Fetched, Sure, Good, GoodNext, Exists, Whole
<1>2. CASE r # q
  <2>1. /\ at'[r] = at[r] /\ fresh'[r] = fresh[r] /\ Now(r)' = Now(r) /\ Dir(r)' = Dir(r)
        /\ Rest(r)' = Rest(r) /\ Type(r)' = Type(r) /\ AtFiles(r)' = AtFiles(r) /\ ~met[r]
    BY <1>1, <1>2, StepLocal, MetGrows
  <2>2. at[r] \in Fetching /\ todo[r] # << >> /\ Sure(r) /\ f \in FilesOf(Now(r))
    BY <1>1, <2>1 DEF AtHand, Sure
  <2>3. f \in File
    BY <2>2, FilesFacts
  <2>4. Good(Dir(r), f) \/ (AtFiles(r) /\ f \in Rest(r))
    BY <2>2 DEF Fetched
  <2>5. Good(Dir(r), f) <=> GoodNext(Dir(r), f)
    BY <1>1, <1>2, <2>2, <2>3, OthersKept
  <2>. QED  BY <2>1, <2>4, <2>5
<1>3. CASE r = q
  <2>1. todo' = todo
    BY <1>1, <1>3, StepPhase
  <2>2. Now(q)' = Now(q) /\ Dir(q)' = Dir(q) /\ Type(q)' = Type(q)
    BY <2>1 DEF Now, Dir, Type
  <2>3. CASE NextPkg(q)
    <3>1. todo[q] # << >>
      BY <1>1, <1>3, <2>3 DEF NextPkg, Goto, Fetching, TypeOK
    <3>2. urls'[q] = Urls[Now(q)] /\ at'[q] = IF Type(q) = "git" THEN "git" ELSE "test"
      BY <2>3, <3>1 DEF NextPkg, Goto, Type, TypeOK
    <3>3. Type(q) # "git"
      BY <1>1, <1>3, <2>2, <3>1, FilesFacts
    <3>. QED  BY <1>1, <1>3, <2>2, <3>2, <3>3 DEF AtFiles, Rest, FilesOf
  <2>4. CASE ~NextPkg(q)
    <3>1. met' = met /\ fresh' = fresh
      BY <2>4, StepFiles
    <3>2. Sure(q) /\ f \in FilesOf(Now(q))
      BY <1>1, <1>3, <2>2, <3>1 DEF Sure
    <3>. QED  BY <1>1, <1>3, <2>2, <2>4, <3>2, FetchedOwn
  <2>. QED  BY <2>3, <2>4
<1>. QED  BY <1>2, <1>3
-----------------------------------------------------------------------------
LEMMA UntouchedStep ==
  ASSUME NoFileTwice, TypeOK, AtHand, Alone, Untouched, NEW q \in Proc, Step(q)
  PROVE  Untouched'
<1>1. SUFFICES ASSUME NEW r \in Proc, AtFiles(r)', ~met'[r], Type(r)' = "tar", fresh'[r]
               PROVE  /\ \A m, n \in DOMAIN urls'[r] : urls'[r][m] = urls'[r][n] => m = n
                      /\ \A n \in DOMAIN urls'[r] :
                           at'[r] \in {"test", "create"} \/ n > 1 => src'[Dir(r)'][urls'[r][n]] = "none"
  BY DEF Untouched, Sure, Exists
<1>0. at \in [Proc -> {"idle", "next"} \cup Fetching] /\ urls \in [Proc -> Seq(File)]
  BY DEF TypeOK
<1>2. CASE r # q
  <2>1. /\ at'[r] = at[r] /\ urls'[r] = urls[r] /\ fresh'[r] = fresh[r] /\ Dir(r)' = Dir(r)
        /\ Type(r)' = Type(r) /\ AtFiles(r)' = AtFiles(r) /\ ~met[r]
    BY <1>1, <1>2, StepLocal, MetGrows
  <2>2. at[r] \in Fetching /\ Sure(r)
    BY <1>1, <2>1 DEF AtFiles, Fetching, Sure
  <2>3. \A n \in DOMAIN urls[r] : urls[r][n] \in File
    BY <1>0
  <2>4. \A n \in DOMAIN urls[r] : src'[Dir(r)][urls[r][n]] = src[Dir(r)][urls[r][n]]
    BY <1>1, <1>2, <2>2, <2>3, OthersKept
  <2>. QED  BY <1>1, <2>1, <2>2, <2>4 DEF Untouched, Exists
<1>3. CASE r = q
  <2>1. todo' = todo
    BY <1>1, <1>3, StepPhase DEF AtFiles, Fetching
  <2>2. Now(q)' = Now(q) /\ Dir(q)' = Dir(q) /\ Type(q)' = Type(q)
    BY <2>1 DEF Now, Dir, Type
  <2>3. CASE NextPkg(q)
    <3>1. todo[q] # << >>
      BY <1>0, <1>1, <1>3, <2>3 DEF NextPkg, Goto, AtFiles
    <3>2. /\ urls'[q] = Urls[Now(q)] /\ src' = src
          /\ fresh'[q] = \A f \in FilesOf(Now(q)) : ~Exists(Dir(q), f)
      BY <2>3, <3>1 DEF NextPkg, TypeOK, store
    <3>3. \A n \in DOMAIN Urls[Now(q)] : src[Dir(q)][Urls[Now(q)][n]] = "none"
      BY <1>1, <1>3, <3>2 DEF FilesOf, Exists
    <3>4. \A m, n \in DOMAIN Urls[Now(q)] : Urls[Now(q)][m] = Urls[Now(q)][n] => m = n
      BY <1>1, <1>3, <2>2, <3>1, NowFacts DEF NoFileTwice, Type
    <3>. QED  BY <1>3, <2>2, <3>2, <3>3, <3>4
  <2>4. CASE ~NextPkg(q)
    <3>1. met' = met /\ fresh' = fresh
      BY <2>4, StepFiles
    <3>2. Test(q) \/ Create(q) \/ Copy(q) \/ Check(q)
      BY <1>1, <1>3, <2>4, StepPhase DEF AtFiles
    <3>3. AtFiles(q) /\ Sure(q) /\ Type(q) = "tar"
      BY <1>1, <1>3, <2>2, <3>1, <3>2 DEF AtFiles, Sure, Test, Create, Copy, Check
    <3>4. /\ \A m, n \in DOMAIN urls[q] : urls[q][m] = urls[q][n] => m = n
          /\ \A n \in DOMAIN urls[q] :
               at[q] \in {"test", "create"} \/ n > 1 => src[Dir(q)][urls[q][n]] = "none"
      BY <3>3 DEF Untouched, Exists
    <3>5. CASE Test(q)
      <4>1. urls' = urls /\ src' = src /\ at[q] = "test"
        BY <3>3, <3>5 DEF Test, GoesOn, Type, store
      <4>. QED  BY <1>3, <2>2, <3>4, <4>1
    <3>6. CASE Create(q) \/ Copy(q)
      <4>1. urls' = urls /\ at'[q] \in {"copy", "check"} /\ at[q] \in {"create", "copy"}
        BY <1>0, <3>6 DEF Create, Copy, Goto
      <4>2. /\ Head(urls[q]) = urls[q][1] /\ 1 \in DOMAIN urls[q] /\ Dir(q) \in Prog
            /\ \A n \in DOMAIN urls[q] : urls[q][n] \in File /\ n \in Nat
        <5>1. urls[q] # << >> /\ Dir(q) \in Prog
          BY <4>1, FileAtHand
        <5>2. urls[q] \in Seq(File)
          BY <1>0
        <5>3. \A n \in DOMAIN urls[q] : urls[q][n] \in File /\ n \in Nat
          BY <5>2
        <5>. QED  BY <5>1, <5>3, HeadFacts
      <4>3. ASSUME NEW n \in DOMAIN urls[q], n > 1 PROVE src'[Dir(q)][urls[q][n]] = "none"
        <5>1. n # 1
          BY <4>2, <4>3
        <5>2. urls[q][n] # Head(urls[q])
          BY <3>4, <4>2, <5>1
        <5>3. src'[Dir(q)][urls[q][n]] = src[Dir(q)][urls[q][n]]
          BY <4>2, <5>2, FilesKept
        <5>. QED  BY <3>4, <4>3, <5>3
      <4>. QED  BY <1>3, <2>2, <3>4, <4>1, <4>3
    <3>7. CASE Check(q)
      <4>1. urls[q] # << >>
        BY <3>7 DEF Check, AtHand, Fetching
      <4>2. urls'[q] = Tail(urls[q]) /\ src' = src
        BY <1>0, <3>7 DEF Check, store
      <4>3. \A n \in DOMAIN Tail(urls[q]) :
              n \in Nat /\ n >= 1 /\ n + 1 \in DOMAIN urls[q] /\ Tail(urls[q])[n] = urls[q][n + 1]
        BY <4>1, HeadFacts
      <4>4. \A n \in DOMAIN Tail(urls[q]) : src[Dir(q)][Tail(urls[q])[n]] = "none"
        BY <3>4, <4>3
      <4>5. \A m, n \in DOMAIN Tail(urls[q]) : Tail(urls[q])[m] = Tail(urls[q])[n] => m = n
        <5>1. SUFFICES ASSUME NEW m \in DOMAIN Tail(urls[q]), NEW n \in DOMAIN Tail(urls[q]),
                              Tail(urls[q])[m] = Tail(urls[q])[n]
                       PROVE  m = n
          OBVIOUS
        <5>2. urls[q][m + 1] = urls[q][n + 1] /\ m + 1 \in DOMAIN urls[q] /\ n + 1 \in DOMAIN urls[q]
          BY <4>3, <5>1
        <5>3. m + 1 = n + 1 /\ m \in Nat /\ n \in Nat
          BY <3>4, <4>3, <5>2
        <5>. QED  BY <5>3
      <4>. QED  BY <1>3, <2>2, <4>2, <4>4, <4>5
    <3>. QED  BY <3>2, <3>5, <3>6, <3>7
  <2>. QED  BY <2>3, <2>4
<1>. QED  BY <1>2, <1>3
-----------------------------------------------------------------------------
(* What a step of q does to the repositories. *)
Empty == [whole |-> FALSE, has |-> {}]
Full == [whole |-> TRUE, has |-> upstream]

LEMMA CloneKinds ==
  /\ Empty # Missing /\ Full # Missing /\ Empty.has = {} /\ ~Empty.whole /\ Full.has = upstream
  /\ Full.whole
BY DEF Empty, Full, Missing

LEMMA CloneStep ==
  ASSUME TypeOK, AtHand, NEW q \in Proc, Step(q)
  PROVE  /\ upstream' = upstream
         /\ \A g \in Prog : at[q] \notin Fetching \/ g # Dir(q) => clone'[g] = clone[g]
         /\ at[q] \in Fetching =>
              \/ clone'[Dir(q)] = clone[Dir(q)]
              \/ at[q] = "git" /\ clone[Dir(q)] = Missing /\ clone'[Dir(q)] = Empty
              \/ /\ at[q] = "cloning" \/ (at[q] = "pull" /\ clone[Dir(q)] # Missing /\ clone[Dir(q)].whole)
                 /\ clone'[Dir(q)] = Full
              \/ at[q] = "cloning" /\ clone'[Dir(q)] = Missing
         /\ at'[q] = "cloning" => /\ at[q] = "git" /\ clone[Dir(q)] = Missing
                                  /\ clone'[Dir(q)] = Empty
         /\ at'[q] = "ready" /\ Type(q) = "git" =>
              \/ /\ at[q] = "git" /\ clone'[Dir(q)] = clone[Dir(q)] /\ clone[Dir(q)] # Missing
                 /\ VerShort[Now(q)] \subseteq clone[Dir(q)].has
              \/ clone'[Dir(q)] = Full
<1>0. at \in [Proc -> {"idle", "next"} \cup Fetching]
  BY DEF TypeOK
<1>h. at[q] \in Fetching => todo[q] # << >> /\ Dir(q) \in Prog
  BY NowFacts DEF AtHand
<1>1. upstream' = upstream
  BY DEF Step, Start, NextPkg, Test, Create, Copy, GoModDownload, Check, Git, FillClone, CloneFails, Used, Stop
<1>2. CASE Git(q)
  <2>1. at[q] = "git" /\ at[q] \in Fetching
    BY <1>2 DEF Git, Fetching
  <2>2. \/ /\ clone[Dir(q)] = Missing /\ at'[q] = "cloning"
           /\ clone' = [clone EXCEPT ![Dir(q)] = Empty]
        \/ /\ clone[Dir(q)] # Missing /\ clone' = clone
           /\ at'[q] = IF CommitExists(Dir(q), VerShort[Now(q)]) THEN "ready" ELSE "pull"
    BY <1>0, <1>2 DEF Git, Goto, Empty
  <2>3. CASE /\ clone[Dir(q)] = Missing /\ at'[q] = "cloning"
             /\ clone' = [clone EXCEPT ![Dir(q)] = Empty]
    <3>1. clone'[Dir(q)] = Empty /\ \A g \in Prog : g # Dir(q) => clone'[g] = clone[g]
      BY <1>h, <2>1, <2>3 DEF TypeOK
    <3>. QED  BY <1>1, <2>1, <2>3, <3>1
  <2>4. CASE /\ clone[Dir(q)] # Missing /\ clone' = clone
             /\ at'[q] = IF CommitExists(Dir(q), VerShort[Now(q)]) THEN "ready" ELSE "pull"
    BY <1>1, <2>1, <2>4 DEF CommitExists
  <2>. QED  BY <2>2, <2>3, <2>4
<1>3. CASE FillClone(q)
  <2>1. at[q] \in Fetching /\ Dir(q) \in Prog /\ at'[q] = "ready"
    BY <1>0, <1>3, <1>h DEF FillClone, Fetching, Goto
  <2>2. clone'[Dir(q)] = Full /\ \A g \in Prog : g # Dir(q) => clone'[g] = clone[g]
    BY <1>3, <2>1 DEF FillClone, TypeOK, Full
  <2>3. at[q] = "cloning" \/ (at[q] = "pull" /\ clone[Dir(q)] # Missing /\ clone[Dir(q)].whole)
    BY <1>3 DEF FillClone
  <2>. QED  BY <1>1, <2>1, <2>2, <2>3
<1>4. CASE CloneFails(q)
  <2>1. at[q] \in Fetching /\ Dir(q) \in Prog /\ at'[q] = "idle" /\ at[q] = "cloning"
    BY <1>0, <1>4, <1>h DEF CloneFails, Fetching, Goto
  <2>2. clone'[Dir(q)] = Missing /\ \A g \in Prog : g # Dir(q) => clone'[g] = clone[g]
    BY <1>4, <2>1 DEF CloneFails, TypeOK
  <2>. QED  BY <1>1, <2>1, <2>2
<1>5. CASE ~Git(q) /\ ~FillClone(q) /\ ~CloneFails(q)
  <2>1. clone' = clone
    BY <1>5 DEF Step, Start, NextPkg, Test, Create, Copy, GoModDownload, Check, Used, Stop, store
  <2>2. at'[q] # "cloning"
    BY <1>0, <1>5 DEF Step, Start, NextPkg, Test, Create, Copy, GoModDownload, Check, Used, Stop, Goto
  <2>3. at'[q] = "ready" => Test(q) \/ GoModDownload(q)
    BY <1>0, <1>5 DEF Step, Start, NextPkg, Test, Create, Copy, GoModDownload, Check, Used, Stop, Goto
  <2>4. Test(q) \/ GoModDownload(q) => Type(q) # "git"
    BY DEF Test, GoModDownload, AtHand, AtFiles, Fetching
  <2>. QED  BY <1>1, <2>1, <2>2, <2>3, <2>4
<1>. QED  BY <1>2, <1>3, <1>4, <1>5

LEMMA TodoStep ==
  ASSUME TypeOK, AtHand, Clones, NEW q \in Proc, Step(q)
  PROVE  \A r \in Proc : \A n \in DOMAIN todo'[r] : VerShort[todo'[r][n]] \subseteq upstream'
<1>0. todo \in [Proc -> Seq(Recipe)] /\ upstream' = upstream
  BY CloneStep DEF TypeOK
<1>1. SUFFICES ASSUME NEW n \in DOMAIN todo'[q]
               PROVE  VerShort[todo'[q][n]] \subseteq upstream
  BY <1>0, StepLocal DEF Clones
<1>2. CASE Start(q)
  <2>1. PICK s \in SetFiles[q] : /\ \A i \in DOMAIN s : VerShort[s[i]] \subseteq upstream
                                 /\ todo' = [todo EXCEPT ![q] = s]
    BY <1>2 DEF Start
  <2>. QED  BY <1>0, <1>1, <2>1
<1>3. CASE Used(q)
  <2>1. todo[q] # << >> /\ todo[q] \in Seq(Recipe)
    BY <1>0, <1>3 DEF Used, AtHand, Fetching
  <2>2. todo'[q] = Tail(todo[q])
    BY <1>0, <1>3 DEF Used
  <2>3. n + 1 \in DOMAIN todo[q] /\ todo'[q][n] = todo[q][n + 1]
    BY <1>1, <2>1, <2>2
  <2>. QED  BY <2>3 DEF Clones
<1>4. CASE CloneFails(q) \/ Stop(q)
  <2>1. todo'[q] = << >>
    BY <1>0, <1>4 DEF CloneFails, Stop
  <2>2. DOMAIN << >> = {}
    OBVIOUS
  <2>. QED  BY <1>1, <2>1, <2>2
<1>5. CASE ~Start(q) /\ ~Used(q) /\ ~CloneFails(q) /\ ~Stop(q)
  <2>1. todo' = todo
    BY <1>5 DEF Step, NextPkg, Test, Create, Copy, GoModDownload, Check, Git, FillClone
  <2>. QED  BY <1>1, <2>1 DEF Clones
<1>. QED  BY <1>2, <1>3, <1>4, <1>5

LEMMA ClonesStep ==
  ASSUME TypeOK, AtHand, Clones, NEW q \in Proc, Step(q)
  PROVE  Clones'
<1>0. upstream' = upstream /\ at \in [Proc -> {"idle", "next"} \cup Fetching]
  BY CloneStep DEF TypeOK
<1>l. \A r \in Proc : r # q => /\ at'[r] = at[r] /\ Dir(r)' = Dir(r) /\ Now(r)' = Now(r) /\ Type(r)' = Type(r)
  BY StepLocal
<1>h. \A r \in Proc : at[r] \in Fetching => /\ todo[r] # << >> /\ Dir(r) \in Prog
                                            /\ VerShort[Now(r)] \subseteq upstream
  BY NowFacts DEF AtHand, Clones
<1>d. at'[q] \in {"cloning", "ready"} => /\ Dir(q)' = Dir(q) /\ Now(q)' = Now(q) /\ Type(q)' = Type(q)
                                         /\ at[q] \in Fetching
  <2>1. at'[q] \in {"cloning", "ready"} => ~NextPkg(q)
    BY <1>0 DEF NextPkg, Goto
  <2>2. at'[q] \in {"cloning", "ready"} => todo' = todo /\ at[q] \in Fetching
    BY <2>1, StepPhase DEF Fetching
  <2>. QED  BY <2>2 DEF Dir, Now, Type
<1>1. ASSUME NEW g \in Prog, clone'[g] # Missing PROVE clone'[g].has \subseteq upstream
  BY <1>1, CloneStep, CloneKinds DEF Clones
<1>2. \A r \in Proc : \A n \in DOMAIN todo'[r] : VerShort[todo'[r][n]] \subseteq upstream'
  BY TodoStep
<1>3. ASSUME NEW r \in Proc, at'[r] = "cloning"
      PROVE  clone'[Dir(r)'] # Missing /\ ~clone'[Dir(r)'].whole /\ clone'[Dir(r)'].has = {}
  <2>1. CASE r = q
    BY <1>3, <1>d, <2>1, CloneStep, CloneKinds
  <2>2. CASE r # q
    <3>1. at[r] = "cloning" /\ at[r] \in Fetching /\ Dir(r)' = Dir(r) /\ Dir(r) \in Prog
      BY <1>3, <1>l, <1>h, <2>2 DEF Fetching
    <3>2. clone[Dir(r)] # Missing /\ ~clone[Dir(r)].whole /\ clone[Dir(r)].has = {}
      BY <3>1 DEF Clones
    <3>3. ~(at[q] = "cloning" /\ Dir(q) = Dir(r))
      BY <2>2, <3>1 DEF Clones
    <3>4. clone'[Dir(r)] = clone[Dir(r)]
      BY <3>1, <3>2, <3>3, CloneStep
    <3>. QED  BY <3>1, <3>2, <3>4
  <2>. QED  BY <2>1, <2>2
<1>4. ASSUME NEW r \in Proc, NEW s \in Proc, at'[r] = "cloning", at'[s] = "cloning", Dir(r)' = Dir(s)', r # s
      PROVE  FALSE
  <2>1. ASSUME NEW p \in Proc, p # q, at'[p] = "cloning", at'[q] = "cloning", Dir(p)' = Dir(q)' PROVE FALSE
    <3>1. clone[Dir(q)] = Missing
      BY <2>1, CloneStep
    <3>2. at[p] = "cloning" /\ Dir(p) = Dir(q)
      BY <1>l, <1>d, <2>1
    <3>. QED  BY <3>1, <3>2 DEF Clones
  <2>2. CASE r = q \/ s = q
    BY <1>4, <2>1, <2>2
  <2>3. CASE r # q /\ s # q
    BY <1>4, <1>l, <2>3 DEF Clones
  <2>. QED  BY <2>2, <2>3
<1>5. ASSUME NEW r \in Proc, at'[r] = "ready", Type(r)' = "git"
      PROVE  clone'[Dir(r)'] # Missing /\ VerShort[Now(r)'] \subseteq clone'[Dir(r)'].has
  <2>1. CASE r = q
    <3>1. /\ at[q] \in Fetching /\ Dir(q)' = Dir(q) /\ Now(q)' = Now(q) /\ Type(q) = "git"
      BY <1>5, <1>d, <2>1
    <3>. QED  BY <1>5, <1>h, <2>1, <3>1, CloneStep, CloneKinds
  <2>2. CASE r # q
    <3>1. /\ at[r] = "ready" /\ at[r] \in Fetching /\ Dir(r)' = Dir(r) /\ Now(r)' = Now(r)
          /\ Type(r) = "git" /\ Dir(r) \in Prog /\ VerShort[Now(r)] \subseteq upstream
      BY <1>5, <1>l, <1>h, <2>2 DEF Fetching
    <3>2. clone[Dir(r)] # Missing /\ VerShort[Now(r)] \subseteq clone[Dir(r)].has
      BY <3>1 DEF Clones, Ready
    <3>3. VerShort[Now(r)] # {}
      <4>1. Now(r) \in Recipe
        BY <1>h, <3>1, NowFacts
      <4>. QED  BY <3>1, <4>1, SourceAssumption DEF Type
    <3>4. ~(at[q] = "cloning" /\ Dir(q) = Dir(r))
      BY <3>2, <3>3 DEF Clones
    <3>5. clone'[Dir(r)] = clone[Dir(r)] \/ clone'[Dir(r)] = Full
      BY <3>1, <3>2, <3>4, CloneStep
    <3>. QED  BY <3>1, <3>2, <3>5, CloneKinds
  <2>. QED  BY <2>1, <2>2
<1>. QED  BY <1>0, <1>1, <1>2, <1>3, <1>4, <1>5 DEF Clones, Ready
-----------------------------------------------------------------------------
LEMMA FetchInit == Init => FetchInv
<1>. SUFFICES ASSUME Init PROVE FetchInv
  OBVIOUS
<1>0. DOMAIN << >> = {}
  OBVIOUS
<1>1. TypeOK
  BY TypeInit
<1>2. \A q \in Proc : at[q] = "idle" /\ todo[q] = << >>
  BY DEF Init
<1>3. AtHand /\ Alone /\ Begun /\ Fetched /\ Untouched
  BY <1>2 DEF AtHand, Alone, Begun, Fetched, Untouched, AtFiles, Fetching
<1>4. Accounted
  BY DEF Init, Accounted, Exists
<1>5. Clones
  BY <1>0, <1>2 DEF Init, Clones, Ready
<1>. QED  BY <1>1, <1>3, <1>4, <1>5 DEF FetchInv

LEMMA FetchStep ==
  ASSUME NoFileTwice, FetchInv, NEW q \in Proc, Step(q)
  PROVE  FetchInv'
<1>0. TypeOK /\ AtHand /\ Alone /\ Accounted /\ Begun /\ Fetched /\ Untouched /\ Clones
  BY DEF FetchInv
<1>1. TypeOK' /\ AtHand'
  BY <1>0, TypeStep, AtHandStep
<1>2. Alone' /\ Accounted'
  BY <1>0, AloneStep, AccountedStep
<1>3. Begun' /\ Fetched'
  BY <1>0, BegunStep, FetchedStep
<1>4. Untouched' /\ Clones'
  BY <1>0, UntouchedStep, ClonesStep
<1>. QED  BY <1>1, <1>2, <1>3, <1>4 DEF FetchInv

(* New commits upstream, and steps of nobody, leave the rest as it is.        *)
LEMMA OtherStep ==
  ASSUME FetchInv, Push \/ UNCHANGED vars
  PROVE  FetchInv'
<1>0. TypeOK /\ AtHand /\ Alone /\ Accounted /\ Begun /\ Fetched /\ Untouched /\ Clones
  BY DEF FetchInv
<1>1. /\ src' = src /\ clone' = clone /\ at' = at /\ todo' = todo /\ urls' = urls /\ met' = met
      /\ fresh' = fresh /\ cut' = cut
  BY DEF Push, vars, store
<1>2. upstream \subseteq upstream' /\ upstream' \subseteq Commit
  BY <1>0 DEF Push, vars, TypeOK
<1>3. TypeOK'
  BY <1>0, <1>1, <1>2 DEF TypeOK
<1>4. \A r \in Proc : /\ Now(r)' = Now(r) /\ Dir(r)' = Dir(r) /\ Type(r)' = Type(r) /\ Rest(r)' = Rest(r)
                       /\ AtFiles(r)' = AtFiles(r) /\ Sure(r)' = Sure(r)
  BY <1>1 DEF Now, Dir, Type, Rest, AtFiles, Sure
<1>5. \A g \in Prog, f \in File : Exists(g, f)' = Exists(g, f) /\ Good(g, f)' = Good(g, f)
  BY <1>1 DEF Exists, Good, Whole
<1>6. AtHand'
  BY <1>0, <1>1 DEF AtHand, AtFiles, Type, Now
<1>7. Alone'
  BY <1>0, <1>1 DEF Alone, InDir, Dir, Now
<1>8. Accounted'
  BY <1>0, <1>1 DEF Accounted, Exists, Good, Whole, InDir, Dir, Now
<1>9. Begun'
  BY <1>0, <1>1 DEF Begun, Exists, Good, Whole, Dir, Now
<1>10. Fetched'
  BY <1>0, <1>1 DEF Fetched, Sure, Type, Exists, Good, Whole, AtFiles, Rest, Dir, Now
<1>11. Untouched'
  BY <1>0, <1>1 DEF Untouched, Sure, Type, Exists, AtFiles, Dir, Now
<1>12. Clones'
  BY <1>0, <1>1, <1>2 DEF Clones, Ready, Type, Dir, Now
<1>. QED  BY <1>3, <1>6, <1>7, <1>8, <1>9, <1>10, <1>11, <1>12 DEF FetchInv

LEMMA FetchInvNext ==
  ASSUME NoFileTwice, FetchInv, [Next]_vars
  PROVE  FetchInv'
<1>1. CASE \E q \in Proc : Step(q)
  BY <1>1, FetchStep
<1>2. CASE Push \/ UNCHANGED vars
  BY <1>2, OtherStep
<1>. QED  BY <1>1, <1>2 DEF Next, Step

(* Sources are fetched one step after the other, for all recipes of which no  *)
(* tar recipe names a file twice: a file that is there is good or being       *)
(* filled, a process that met no other is alone in its directory, and a       *)
(* repository is cloned by at most one process.                               *)
THEOREM FetchInvAlways ==
  ASSUME NoFileTwice
  PROVE  Spec => []FetchInv
<1>1. Init => FetchInv
  BY FetchInit
<1>2. FetchInv /\ [Next]_vars => FetchInv'
  BY FetchInvNext
<1>. QED  BY <1>1, <1>2, PTL DEF Spec

(* A process that is ready to build has all its files in full, apart from     *)
(* those a stopped or answered-with-a-page download left (getSrc, fileExists, *)
(* downloadToFile).                                                           *)
THEOREM FetchedFiles ==
  ASSUME NoFileTwice
  PROVE  Spec => []FetchedOrCut
<1>1. FetchInv => FetchedOrCut
  BY DEF FetchInv, Fetched, FetchedOrCut, Sure, Type, Ready, AtFiles, Fetching
<1>. QED  BY <1>1, FetchInvAlways, PTL

(* A git recipe is built from a repository with its commit, whoever cloned or *)
(* pulled it (getSrcGitMaster, gitCommitExists).                              *)
THEOREM FetchedCommit ==
  ASSUME NoFileTwice
  PROVE  Spec => []CommitThere
<1>1. FetchInv => CommitThere
  BY DEF FetchInv, Clones, CommitThere, Ready, Type
<1>. QED  BY <1>1, FetchInvAlways, PTL

(* A file that is there in full is overwritten only by a process that was     *)
(* fetching for the same program beside another (downloadToFile).             *)
THEOREM FullIsKept ==
  ASSUME NoFileTwice
  PROVE  Spec => SourceKept
<1>1. ASSUME FetchInv, Next, NEW g \in Prog, NEW f \in File, Whole(g, f), ~Whole(g, f)'
      PROVE  \E q \in Proc : met[q] /\ at[q] \in {"create", "copy"} /\ Dir(q) = g
  <2>0. TypeOK /\ AtHand /\ Begun
    BY <1>1 DEF FetchInv
  <2>1. src[g][f] = "whole" /\ src'[g][f] # "whole"
    BY <1>1 DEF Whole
  <2>2. PICK q \in Proc : Step(q)
    <3>1. ~Push
      BY <2>1 DEF Push, store
    <3>. QED  BY <1>1, <3>1 DEF Next, Step
  <2>3. at[q] \in {"create", "copy"} /\ g = Dir(q) /\ f = Head(urls[q])
    BY <2>0, <2>1, <2>2, FilesKept
  <2>4. met[q]
    BY <2>0, <2>1, <2>3 DEF Begun, Exists
  <2>. QED  BY <2>3, <2>4
<1>2. FetchInv /\ [Next]_vars =>
        [\A g \in Prog : \A f \in File : Whole(g, f) /\ ~Whole(g, f)' =>
          \E q \in Proc : met[q] /\ at[q] \in {"create", "copy"} /\ Dir(q) = g]_vars
  BY <1>1
<1>. QED  BY <1>2, FetchInvAlways, PTL DEF Spec, SourceKept
=============================================================================
