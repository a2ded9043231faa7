---------------------------- MODULE ScratchProofs ----------------------------
(* The build directories: SInv is an invariant of Scratch when no two         *)
(* processes build the same program, and with it FreshDir and DirKept, for    *)
(* every number of processes, packages, steps and directories.                *)
EXTENDS Scratch, TLAPS, WellFoundedInduction

(* Directories are numbered, so there is a last one. *)
LEMMA LastIdExists ==
  ASSUME NEW S \in SUBSET Ids, S # {}
  PROVE  \E n \in S : \A m \in S : m <= n
<1> DEFINE T == {MaxId - n : n \in S}
<1>1. T \subseteq Nat /\ T # {}
  BY ScratchAssumption DEF Ids
<1>2. PICK x \in T : \A y \in T : <<y, x>> \notin OpToRel(<, Nat)
  BY <1>1, WFMin, NatLessThanWellFounded, Zenon
<1> HIDE DEF T
<1>3. \A y \in T : ~ (y < x)
  BY <1>1, <1>2, Zenon DEF OpToRel
<1>4. \A y \in T : x <= y
  BY <1>1, <1>3
<1> USE DEF T
<1>5. PICK n \in S : x = MaxId - n
  OBVIOUS
<1>6. \A m \in S : MaxId - m \in T
  OBVIOUS
<1> HIDE DEF T
<1>7. \A m \in S : m <= n
  BY <1>4, <1>5, <1>6, ScratchAssumption DEF Ids
<1>. QED  BY <1>7

(* The number a task gets: 0 for the first directory, else one that is not    *)
(* there yet.                                                                 *)
LEMMA BuildIdIsFree ==
  ASSUME TypeOK, ZeroFirst, NEW g \in Prog, BuildId(g) <= MaxId
  PROVE  /\ BuildId(g) \in Ids /\ BuildId(g) \notin dirs[g]
         /\ IF BuildId(g) = 0 THEN dirs[g] \subseteq {0} ELSE 0 \in dirs[g]
<1>1. dirs[g] \in SUBSET Ids
  BY DEF TypeOK
<1>2. CASE dirs[g] = {}
  BY <1>2, ScratchAssumption DEF BuildId, LastId, Ids
<1>3. CASE dirs[g] # {}
  <2>1. 0 \in dirs[g]
    BY <1>3 DEF ZeroFirst
  <2>2. \E n \in dirs[g] : \A m \in dirs[g] : m <= n
    BY <1>1, <1>3, LastIdExists
  <2>3. LastId(g) \in dirs[g] /\ \A m \in dirs[g] : m <= LastId(g)
    BY <1>3, <2>2 DEF LastId
  <2>4. BuildId(g) = LastId(g) + 1
    BY <2>1 DEF BuildId
  <2>. QED  BY <1>1, <2>1, <2>3, <2>4, ScratchAssumption DEF Ids
<1>. QED  BY <1>2, <1>3

(* What a process is about to do is well typed. *)
LEMMA TaskTypes ==
  ASSUME TypeOK, NEW q \in Proc
  PROVE  /\ todo[q] \in Seq(Task)
         /\ \A i \in DOMAIN todo[q] :
              /\ todo[q][i].pkg \in Pkg /\ todo[q][i].id \in Ids
              /\ ProgOf[todo[q][i].pkg] \in Prog
         /\ todo[q] # <<>> => 1 \in DOMAIN todo[q] /\ Now(q) = todo[q][1]
<1>1. todo[q] \in Seq(Task)
  BY DEF TypeOK
<1>2. \A i \in DOMAIN todo[q] : todo[q][i] \in Task
  BY <1>1
<1>3. todo[q] # <<>> => 1 \in DOMAIN todo[q] /\ Now(q) = todo[q][1]
  BY <1>1 DEF Now
<1>. QED  BY <1>1, <1>2, <1>3, ScratchAssumption DEF Task

LEMMA NowFacts ==
  ASSUME SInv, NEW q \in Proc, todo[q] # <<>>
  PROVE  /\ Now(q).pkg \in Pkg /\ Now(q).id \in Ids /\ Dir(q) \in Prog
         /\ Chosen(q, Now(q)) /\ Now(q) = todo[q][1] /\ 1 \in DOMAIN todo[q]
<1>1. TypeOK /\ Tasks(q)
  BY DEF SInv
<1>. QED  BY <1>1, TaskTypes DEF Tasks, Dir

(* A process does not know the directories of another one's programs. *)
LEMMA OtherProgs ==
  ASSUME SInv, SeparatePrograms, NEW q \in Proc, NEW r \in Proc, q # r, todo[q] # <<>>,
         NEW i \in DOMAIN todo[r]
  PROVE  ProgOf[todo[r][i].pkg] # Dir(q)
<1>1. Now(q).pkg \in NamedBy(q) /\ todo[r][i].pkg \in NamedBy(r)
  BY NowFacts DEF SInv, Tasks, Chosen
<1>. QED  BY <1>1 DEF SeparatePrograms, Dir

(* A step of q is about q, and about the directory of the task at hand. *)
Step(q) ==
  \/ Start(q) \/ CreateConfig(q) \/ WriteConfig(q) \/ TestTools(q)
  \/ CreateTmpDir(q) \/ ExecStep(q) \/ Cleanup(q) \/ Stop(q)

LEMMA StepLocal ==
  ASSUME TypeOK, NEW q \in Proc, NEW r \in Proc, q # r, Step(q)
  PROVE  at'[r] = at[r] /\ todo'[r] = todo[r] /\ step'[r] = step[r]
BY DEF TypeOK, Step, Start, CreateConfig, WriteConfig, TestTools, CreateTmpDir, ExecStep, Cleanup,
       Stop, Goto, proc

LEMMA StepArea ==
  ASSUME TypeOK, NEW q \in Proc, Step(q), NEW g \in Prog, todo[q] = <<>> \/ g # Dir(q),
         Building(q) => todo[q] # <<>>
  PROVE  dirs'[g] = dirs[g] /\ litter'[g] = litter[g]
<1>1. CASE CreateTmpDir(q)
  BY <1>1 DEF CreateTmpDir, TypeOK
<1>2. CASE ExecStep(q)
  BY <1>2 DEF ExecStep, TypeOK, Building
<1>3. CASE Cleanup(q)
  BY <1>3 DEF Cleanup, TypeOK, Building
<1>4. CASE ~CreateTmpDir(q) /\ ~ExecStep(q) /\ ~Cleanup(q)
  BY <1>4 DEF Step, Start, CreateConfig, WriteConfig, TestTools, Stop, area
<1>. QED  BY <1>1, <1>2, <1>3, <1>4
-----------------------------------------------------------------------------
LEMMA TypeInit == Init => TypeOK
<1>. SUFFICES ASSUME Init PROVE TypeOK
  OBVIOUS
<1>1. 1 \in 1 .. Steps
  BY ScratchAssumption
<1>2. todo \in [Proc -> Seq(Task)]
  BY DEF Init
<1>. QED  BY <1>1, <1>2 DEF Init, TypeOK, Phase

LEMMA EmptyDomain == DOMAIN << >> = {}
OBVIOUS

(* The tasks of a process that has parsed its set file. *)
LEMMA StartTasks ==
  ASSUME TypeOK, NEW q \in Proc, NEW j \in Jobs[q],
         \A i \in DOMAIN j.pkgs : BuildId(ProgOf[j.pkgs[i]]) \in Ids
  PROVE  [i \in DOMAIN j.pkgs |-> [pkg |-> j.pkgs[i], id |-> BuildId(ProgOf[j.pkgs[i]])]] \in Seq(Task)
<1>1. j \in Job /\ j.pkgs \in Seq(Pkg)
  BY ScratchAssumption DEF Job
<1>2. \A i \in DOMAIN j.pkgs : j.pkgs[i] \in Pkg
  BY <1>1
<1>3. PICK n \in Nat : DOMAIN j.pkgs = 1 .. n
  BY <1>1
<1>. QED  BY <1>2, <1>3 DEF Task

LEMMA WritingFacts ==
  /\ DOMAIN Writing = {"tools", "restore", "step"}
  /\ Writing["tools"] = "tools fill" /\ Writing["restore"] = "restore fill"
  /\ Writing["step"] = "step fill"
BY DEF Writing

LEMMA TypeStep ==
  ASSUME SInv, NEW q \in Proc, Step(q)
  PROVE  TypeOK'
<1>0. TypeOK /\ ZeroFirst /\ (Building(q) => todo[q] # <<>>)
  BY DEF SInv, Tasks
<1>a. 1 \in 1 .. Steps
  BY ScratchAssumption
<1>1. CASE Start(q)
  <2>1. PICK j \in Jobs[q] :
          /\ \A i \in DOMAIN j.pkgs : BuildId(ProgOf[j.pkgs[i]]) <= MaxId
          /\ root' = [root EXCEPT ![q] = j.root]
          /\ todo' = [todo EXCEPT ![q] =
               [i \in DOMAIN j.pkgs |-> [pkg |-> j.pkgs[i], id |-> BuildId(ProgOf[j.pkgs[i]])]]]
    BY <1>1 DEF Start
  <2>2. j.root \in Root /\ \A i \in DOMAIN j.pkgs : ProgOf[j.pkgs[i]] \in Prog
    <3>1. j \in Job /\ j.pkgs \in Seq(Pkg)
      BY ScratchAssumption DEF Job
    <3>2. \A i \in DOMAIN j.pkgs : j.pkgs[i] \in Pkg
      BY <3>1
    <3>. QED  BY <3>1, <3>2, ScratchAssumption DEF Job
  <2>3. \A i \in DOMAIN j.pkgs : BuildId(ProgOf[j.pkgs[i]]) \in Ids
    BY <1>0, <2>1, <2>2, BuildIdIsFree
  <2>4. [i \in DOMAIN j.pkgs |-> [pkg |-> j.pkgs[i], id |-> BuildId(ProgOf[j.pkgs[i]])]] \in Seq(Task)
    BY <1>0, <2>3, StartTasks
  <2>5. todo' \in [Proc -> Seq(Task)]
    BY <1>0, <2>1, <2>4 DEF TypeOK
  <2>6. root' \in [Proc -> Root]
    BY <1>0, <2>1, <2>2 DEF TypeOK
  <2>7. /\ step' = [step EXCEPT ![q] = 1] /\ at' = [at EXCEPT ![q] = "tools"]
        /\ config' = config /\ dirs' = dirs /\ litter' = litter
    BY <1>1 DEF Start, Goto, area
  <2>. QED  BY <1>0, <1>a, <2>5, <2>6, <2>7 DEF TypeOK, Phase
<1>2. CASE CreateConfig(q)
  <2>1. at' \in [Proc -> Phase]
    <3>1. \A w \in DOMAIN Writing : Writing[w] \in Phase
      BY WritingFacts DEF Phase
    <3>. QED  BY <1>0, <1>2, <3>1 DEF CreateConfig, Goto, TypeOK
  <2>. QED  BY <1>0, <1>2, <2>1 DEF CreateConfig, area, proc, TypeOK
<1>3. CASE WriteConfig(q)
  <2>1. at[q] = "step fill" => [root |-> root[q], pkg |-> Now(q).pkg] \in StepConfig
    BY <1>0, NowFacts DEF Building, TypeOK, StepConfig
  <2>. QED  BY <1>0, <1>3, <2>1 DEF WriteConfig, Goto, area, proc, TypeOK, Phase
<1>4. CASE TestTools(q)
  BY <1>0, <1>4 DEF TestTools, Goto, area, proc, TypeOK, Phase
<1>5. CASE CreateTmpDir(q)
  <2>1. Now(q).id \in Ids /\ Dir(q) \in Prog
    BY <1>5, NowFacts DEF CreateTmpDir
  <2>2. dirs' \in [Prog -> SUBSET Ids]
    BY <1>0, <1>5, <2>1 DEF CreateTmpDir, TypeOK
  <2>. QED  BY <1>0, <1>a, <1>5, <2>2 DEF CreateTmpDir, Goto, TypeOK, Phase
<1>6. CASE ExecStep(q)
  <2>1. Now(q).id \in Ids /\ Dir(q) \in Prog /\ Now(q).pkg \in Pkg
    BY <1>0, <1>6, NowFacts DEF ExecStep, Building
  <2>2. litter' = [litter EXCEPT ![Dir(q)] = [litter[Dir(q)] EXCEPT ![Now(q).id] = @ \cup {Now(q).pkg}]]
    BY <1>6 DEF ExecStep
  <2>3. litter' \in [Prog -> [Ids -> SUBSET Pkg]]
    BY <1>0, <2>1, <2>2 DEF TypeOK
  <2>4. step' \in [Proc -> 1 .. Steps] /\ at' \in [Proc -> Phase]
    <3>1. step[q] < Steps => step[q] + 1 \in 1 .. Steps
      BY <1>0, ScratchAssumption DEF TypeOK
    <3>. QED  BY <1>0, <1>6, <3>1 DEF ExecStep, Goto, TypeOK, Phase
  <2>. QED  BY <1>0, <1>6, <2>3, <2>4 DEF ExecStep, TypeOK
<1>7. CASE Cleanup(q)
  <2>1. Now(q).id \in Ids /\ Dir(q) \in Prog /\ todo[q] # <<>> /\ todo[q] \in Seq(Task)
    BY <1>0, <1>7, NowFacts DEF Cleanup, Building, TypeOK
  <2>2. litter' = [litter EXCEPT ![Dir(q)] = [litter[Dir(q)] EXCEPT ![Now(q).id] = {}]]
    BY <1>7 DEF Cleanup
  <2>3. litter' \in [Prog -> [Ids -> SUBSET Pkg]]
    BY <1>0, <2>1, <2>2 DEF TypeOK
  <2>4. dirs' \in [Prog -> SUBSET Ids]
    BY <1>0, <1>7, <2>1 DEF Cleanup, TypeOK
  <2>5. todo' \in [Proc -> Seq(Task)]
    <3>1. Tail(todo[q]) \in Seq(Task)
      BY <2>1
    <3>. QED  BY <1>0, <1>7, <3>1 DEF Cleanup, TypeOK
  <2>. QED  BY <1>0, <1>7, <2>3, <2>4, <2>5 DEF Cleanup, Goto, TypeOK, Phase
<1>8. CASE Stop(q)
  <2>1. todo' \in [Proc -> Seq(Task)]
    BY <1>0, <1>8 DEF Stop, TypeOK
  <2>. QED  BY <1>0, <1>a, <1>8, <2>1 DEF Stop, Goto, area, TypeOK, Phase
<1>. QED  BY <1>1, <1>2, <1>3, <1>4, <1>5, <1>6, <1>7, <1>8 DEF Step
-----------------------------------------------------------------------------
(* What the three steps that touch the area do with the directory at hand.    *)
LEMMA CreateEffect ==
  ASSUME SInv, NEW q \in Proc, CreateTmpDir(q)
  PROVE  /\ dirs'[Dir(q)] = dirs[Dir(q)] \cup {Now(q).id} /\ litter' = litter
         /\ Now(q).id \notin dirs[Dir(q)] /\ Building(q)'
<1>1. TypeOK /\ todo[q] # <<>> /\ at[q] = "next"
  BY DEF SInv, CreateTmpDir
<1>2. Dir(q) \in Prog /\ Chosen(q, Now(q))
  BY <1>1, NowFacts
<1>3. Now(q).id \notin dirs[Dir(q)]
  BY <1>1, <1>2 DEF Chosen, Building, Dir
<1>. QED  BY <1>1, <1>2, <1>3 DEF CreateTmpDir, TypeOK, Goto, Building

LEMMA ExecEffect ==
  ASSUME SInv, NEW q \in Proc, ExecStep(q)
  PROVE  /\ dirs' = dirs /\ Now(q).id \in dirs[Dir(q)] /\ Building(q) /\ Building(q)'
         /\ \A n \in Ids : n # Now(q).id => litter'[Dir(q)][n] = litter[Dir(q)][n]
         /\ at'[q] = "step" => step'[q] > 1
<1>1. TypeOK /\ at[q] = "step run" /\ todo[q] # <<>> /\ Building(q)
  BY DEF SInv, Tasks, ExecStep, Building
<1>2. Dir(q) \in Prog /\ Now(q).id \in Ids
  BY <1>1, NowFacts
<1>3. litter' = [litter EXCEPT ![Dir(q)] = [litter[Dir(q)] EXCEPT ![Now(q).id] = @ \cup {Now(q).pkg}]]
  BY DEF ExecStep
<1>4. \A n \in Ids : n # Now(q).id => litter'[Dir(q)][n] = litter[Dir(q)][n]
  BY <1>1, <1>2, <1>3 DEF TypeOK
<1>5. at'[q] = "step" => step'[q] > 1
  <2>1. step[q] \in Nat /\ step[q] >= 1
    <3>1. Steps \in Nat
      BY ScratchAssumption
    <3>2. step[q] \in 1 .. Steps
      BY <1>1 DEF TypeOK
    <3>. QED  BY <3>1, <3>2
  <2>2. at'[q] = "step" => step'[q] = step[q] + 1
    BY <1>1 DEF ExecStep, Goto, TypeOK
  <2>. QED  BY <2>1, <2>2
<1>6. Building(q)'
  BY <1>1 DEF ExecStep, Goto, TypeOK, Building
<1>. QED  BY <1>1, <1>4, <1>5, <1>6 DEF ExecStep

LEMMA CleanupEffect ==
  ASSUME SInv, NEW q \in Proc, Cleanup(q)
  PROVE  /\ dirs'[Dir(q)] = dirs[Dir(q)] \ {Now(q).id} /\ Building(q) /\ ~Building(q)'
         /\ litter'[Dir(q)][Now(q).id] = {}
         /\ \A n \in Ids : n # Now(q).id => litter'[Dir(q)][n] = litter[Dir(q)][n]
         /\ todo'[q] = Tail(todo[q]) /\ todo[q] # <<>>
<1>1. TypeOK /\ at[q] = "clean" /\ todo[q] # <<>> /\ Building(q)
  BY DEF SInv, Tasks, Cleanup, Building
<1>2. Dir(q) \in Prog /\ Now(q).id \in Ids
  BY <1>1, NowFacts
<1>3. litter' = [litter EXCEPT ![Dir(q)] = [litter[Dir(q)] EXCEPT ![Now(q).id] = {}]]
  BY DEF Cleanup
<1>4. /\ litter'[Dir(q)][Now(q).id] = {}
      /\ \A n \in Ids : n # Now(q).id => litter'[Dir(q)][n] = litter[Dir(q)][n]
  BY <1>1, <1>2, <1>3 DEF TypeOK
<1>5. dirs'[Dir(q)] = dirs[Dir(q)] \ {Now(q).id} /\ todo'[q] = Tail(todo[q]) /\ ~Building(q)'
  BY <1>1, <1>2 DEF Cleanup, Goto, TypeOK, Building
<1>. QED  BY <1>1, <1>4, <1>5

(* The other steps leave the area as it is. *)
LEMMA AreaKept ==
  ASSUME NEW q \in Proc, Step(q), ~CreateTmpDir(q), ~ExecStep(q), ~Cleanup(q)
  PROVE  dirs' = dirs /\ litter' = litter
BY DEF Step, Start, CreateConfig, WriteConfig, TestTools, Stop, area

(* The first directory of a program is made first and goes last. *)
LEMMA ZeroFirstStep ==
  ASSUME SInv, NEW q \in Proc, Step(q)
  PROVE  ZeroFirst'
<1>0. TypeOK /\ ZeroFirst /\ (Building(q) => todo[q] # <<>>)
  BY DEF SInv, Tasks
<1>1. SUFFICES ASSUME NEW g \in Prog PROVE dirs'[g] = {} \/ 0 \in dirs'[g]
  BY DEF ZeroFirst
<1>2. CASE todo[q] = <<>> \/ g # Dir(q)
  BY <1>0, <1>2, StepArea DEF ZeroFirst
<1>3. CASE todo[q] # <<>> /\ g = Dir(q)
  <2>1. Chosen(q, Now(q))
    BY <1>3, NowFacts
  <2>2. IF Now(q).id = 0 THEN dirs[g] \subseteq {0} ELSE 0 \in dirs[g]
    BY <1>3, <2>1 DEF Chosen, Dir
  <2>3. CASE CreateTmpDir(q)
    BY <1>3, <2>2, <2>3, CreateEffect
  <2>4. CASE ExecStep(q)
    BY <1>0, <2>4, ExecEffect DEF ZeroFirst
  <2>5. CASE Cleanup(q)
    BY <1>3, <2>2, <2>5, CleanupEffect
  <2>. QED  BY <1>0, <2>3, <2>4, <2>5, AreaKept DEF ZeroFirst
<1>. QED  BY <1>2, <1>3

(* What is not there holds nothing. *)
LEMMA LitterStep ==
  ASSUME SInv, NEW q \in Proc, Step(q)
  PROVE  LitterInDirs'
<1>0. TypeOK /\ LitterInDirs /\ (Building(q) => todo[q] # <<>>)
  BY DEF SInv, Tasks
<1>1. SUFFICES ASSUME NEW g \in Prog, NEW n \in Ids, n \notin dirs'[g] PROVE litter'[g][n] = {}
  BY DEF LitterInDirs
<1>2. CASE todo[q] = <<>> \/ g # Dir(q)
  BY <1>0, <1>1, <1>2, StepArea DEF LitterInDirs
<1>3. CASE todo[q] # <<>> /\ g = Dir(q)
  <2>1. CASE CreateTmpDir(q)
    BY <1>0, <1>1, <1>3, <2>1, CreateEffect DEF LitterInDirs
  <2>2. CASE ExecStep(q)
    BY <1>0, <1>1, <1>3, <2>2, ExecEffect DEF LitterInDirs
  <2>3. CASE Cleanup(q)
    BY <1>0, <1>1, <1>3, <2>3, CleanupEffect DEF LitterInDirs
  <2>. QED  BY <1>0, <1>1, <2>1, <2>2, <2>3, AreaKept DEF LitterInDirs
<1>. QED  BY <1>2, <1>3

(* Tasks in the next state, told of a task of the present one. *)
ChosenNext(q, t) ==
  LET g == ProgOf[t.pkg] IN
  /\ t.pkg \in NamedBy(q)
  /\ IF t.id = 0 THEN dirs'[g] \subseteq {0} ELSE 0 \in dirs'[g]
  /\ t.id \in dirs'[g] <=> Building(q)' /\ Dir(q)' = g

LEMMA TasksNext ==
  ASSUME NEW q \in Proc,
         Building(q)' => todo'[q] # <<>>,
         at'[q] = "idle" => todo'[q] = <<>>,
         \A i \in DOMAIN todo'[q] : ChosenNext(q, todo'[q][i]),
         \A i, j \in DOMAIN todo'[q] :
           ProgOf[todo'[q][i].pkg] = ProgOf[todo'[q][j].pkg] => todo'[q][i].id = todo'[q][j].id
  PROVE  Tasks(q)'
BY DEF Tasks, Chosen, ChosenNext, NamedBy

(* The numbers that another process has chosen stay right. *)
LEMMA OtherTasks ==
  ASSUME SInv, SeparatePrograms, NEW q \in Proc, Step(q), NEW r \in Proc, r # q
  PROVE  Tasks(r)'
<1>0. TypeOK /\ Tasks(r) /\ (Building(q) => todo[q] # <<>>)
  BY DEF SInv, Tasks
<1>1. at'[r] = at[r] /\ todo'[r] = todo[r]
  BY <1>0, StepLocal
<1>2. Building(r)' = Building(r) /\ Dir(r)' = Dir(r)
  BY <1>1 DEF Building, Dir, Now
<1>3. ASSUME NEW i \in DOMAIN todo[r] PROVE ChosenNext(r, todo[r][i])
  <2>1. ProgOf[todo[r][i].pkg] \in Prog
    BY <1>0, TaskTypes
  <2>2. todo[q] = <<>> \/ ProgOf[todo[r][i].pkg] # Dir(q)
    BY <1>3, OtherProgs
  <2>3. dirs'[ProgOf[todo[r][i].pkg]] = dirs[ProgOf[todo[r][i].pkg]]
    BY <1>0, <2>1, <2>2, StepArea
  <2>4. Chosen(r, todo[r][i])
    BY <1>0 DEF Tasks
  <2>. QED  BY <1>1, <1>2, <2>3, <2>4 DEF Chosen, ChosenNext
<1>. QED  BY <1>0, <1>1, <1>2, <1>3, TasksNext DEF Tasks

(* So do its own. *)
LEMMA OwnTasks ==
  ASSUME SInv, NEW q \in Proc, Step(q)
  PROVE  Tasks(q)'
<1>0. TypeOK /\ Tasks(q) /\ ZeroFirst
  BY DEF SInv
<1>t. /\ todo[q] \in Seq(Task)
      /\ \A i \in DOMAIN todo[q] : ProgOf[todo[q][i].pkg] \in Prog
  BY <1>0, TaskTypes
<1>n. at'[q] = "idle" => todo'[q] = <<>>
  <2>1. CASE Stop(q)
    BY <1>0, <2>1 DEF Stop, TypeOK
  <2>2. CASE ~Stop(q)
    <3>1. at'[q] # "idle"
      <4>1. CASE CreateConfig(q)
        <5>1. at'[q] = Writing[at[q]] /\ at[q] \in {"tools", "restore", "step"}
          BY <1>0, <4>1, WritingFacts DEF CreateConfig, Goto, TypeOK
        <5>. QED  BY <5>1, WritingFacts
      <4>. QED  BY <1>0, <2>2, <4>1 DEF Step, Start, WriteConfig, TestTools, CreateTmpDir, ExecStep,
                  Cleanup, Goto, TypeOK
    <3>. QED  BY <3>1
  <2>. QED  BY <2>1, <2>2
<1>1. CASE Start(q)
  <2>1. PICK j \in Jobs[q] :
          /\ \A i \in DOMAIN j.pkgs : BuildId(ProgOf[j.pkgs[i]]) <= MaxId
          /\ todo' = [todo EXCEPT ![q] =
               [i \in DOMAIN j.pkgs |-> [pkg |-> j.pkgs[i], id |-> BuildId(ProgOf[j.pkgs[i]])]]]
    BY <1>1 DEF Start
  <2>2. at'[q] = "tools" /\ dirs' = dirs
    BY <1>0, <1>1 DEF Start, Goto, area, TypeOK
  <2>3. /\ DOMAIN todo'[q] = DOMAIN j.pkgs
        /\ \A i \in DOMAIN j.pkgs :
             todo'[q][i] = [pkg |-> j.pkgs[i], id |-> BuildId(ProgOf[j.pkgs[i]])]
    BY <1>0, <2>1 DEF TypeOK
  <2>4. \A i \in DOMAIN j.pkgs : ProgOf[j.pkgs[i]] \in Prog /\ j.pkgs[i] \in NamedBy(q)
    <3>1. j \in Job /\ j.pkgs \in Seq(Pkg)
      BY ScratchAssumption DEF Job
    <3>2. \A i \in DOMAIN j.pkgs : j.pkgs[i] \in Pkg
      BY <3>1
    <3>. QED  BY <3>2, ScratchAssumption DEF NamedBy
  <2>f. /\ DOMAIN todo'[q] = DOMAIN j.pkgs
        /\ \A i \in DOMAIN j.pkgs :
             todo'[q][i].pkg = j.pkgs[i] /\ todo'[q][i].id = BuildId(ProgOf[j.pkgs[i]])
    <3>1. ASSUME NEW i \in DOMAIN j.pkgs
          PROVE  todo'[q][i].pkg = j.pkgs[i] /\ todo'[q][i].id = BuildId(ProgOf[j.pkgs[i]])
      <4>1. todo'[q][i] = [pkg |-> j.pkgs[i], id |-> BuildId(ProgOf[j.pkgs[i]])]
        BY <2>3, Zenon
      <4>2. /\ [pkg |-> j.pkgs[i], id |-> BuildId(ProgOf[j.pkgs[i]])].pkg = j.pkgs[i]
            /\ [pkg |-> j.pkgs[i], id |-> BuildId(ProgOf[j.pkgs[i]])].id = BuildId(ProgOf[j.pkgs[i]])
        OBVIOUS
      <4>. QED  BY <4>1, <4>2, Zenon
    <3>. QED  BY <2>3, <3>1, Zenon
  <2>5. ASSUME NEW i \in DOMAIN j.pkgs PROVE ChosenNext(q, todo'[q][i])
    <3>1. /\ BuildId(ProgOf[j.pkgs[i]]) \notin dirs[ProgOf[j.pkgs[i]]]
          /\ IF BuildId(ProgOf[j.pkgs[i]]) = 0 THEN dirs[ProgOf[j.pkgs[i]]] \subseteq {0}
             ELSE 0 \in dirs[ProgOf[j.pkgs[i]]]
      BY <1>0, <2>1, <2>4, BuildIdIsFree
    <3>2. ~Building(q)'
      BY <2>2 DEF Building
    <3>3. todo'[q][i].pkg = j.pkgs[i] /\ todo'[q][i].id = BuildId(ProgOf[j.pkgs[i]])
      BY <2>f, Zenon
    <3>. QED  BY <2>2, <2>4, <3>1, <3>2, <3>3 DEF ChosenNext
  <2>6. ~Building(q)'
    BY <2>2 DEF Building
  <2>7. \A i \in DOMAIN todo'[q] : ChosenNext(q, todo'[q][i])
    BY <2>3, <2>5
  <2>9. at'[q] # "idle"
    BY <2>2
  <2>8. ASSUME NEW i \in DOMAIN todo'[q], NEW k \in DOMAIN todo'[q],
               ProgOf[todo'[q][i].pkg] = ProgOf[todo'[q][k].pkg]
        PROVE  todo'[q][i].id = todo'[q][k].id
    BY <2>8, <2>f, Zenon
  <2>. QED  BY <2>6, <2>7, <2>8, <2>9, <1>n, TasksNext
<1>2. CASE CreateConfig(q) \/ WriteConfig(q) \/ TestTools(q)
  <2>1. todo' = todo /\ dirs' = dirs
    BY <1>2 DEF CreateConfig, WriteConfig, TestTools, area, proc
  <2>2. Building(q)' = Building(q)
    <3>1. at'[q] \in {"step", "step fill", "step run", "clean"}
            <=> at[q] \in {"step", "step fill", "step run", "clean"}
      <4>1. CASE CreateConfig(q)
        <5>1. at'[q] = Writing[at[q]] /\ at[q] \in {"tools", "restore", "step"}
          BY <1>0, <4>1, WritingFacts DEF CreateConfig, Goto, TypeOK
        <5>. QED  BY <5>1, WritingFacts
      <4>2. CASE WriteConfig(q)
        BY <1>0, <4>2 DEF WriteConfig, Goto, TypeOK
      <4>3. CASE TestTools(q)
        BY <1>0, <4>3 DEF TestTools, Goto, TypeOK
      <4>. QED  BY <1>2, <4>1, <4>2, <4>3
    <3>2. Building(q)' <=> Building(q)
      BY <3>1 DEF Building
    <3>3. Building(q)' \in BOOLEAN /\ Building(q) \in BOOLEAN
      BY DEF Building
    <3>. QED  BY <3>2, <3>3
  <2>3. Dir(q)' = Dir(q)
    BY <2>1 DEF Dir, Now
  <2>. QED  BY <1>0, <2>1, <2>2, <2>3, <1>n, TasksNext DEF Tasks, Chosen, ChosenNext
<1>3. CASE CreateTmpDir(q)
  <2>1. todo[q] # <<>> /\ todo' = todo /\ at[q] = "next"
    BY <1>3 DEF CreateTmpDir
  <2>2. /\ dirs'[Dir(q)] = dirs[Dir(q)] \cup {Now(q).id} /\ Building(q)'
        /\ Now(q).id \notin dirs[Dir(q)] /\ Dir(q)' = Dir(q) /\ ~Building(q)
    BY <1>3, <2>1, CreateEffect DEF Dir, Now, Building
  <2>3. Chosen(q, Now(q)) /\ Now(q) = todo[q][1] /\ 1 \in DOMAIN todo[q]
    BY <2>1, NowFacts
  <2>4. ASSUME NEW i \in DOMAIN todo[q] PROVE ChosenNext(q, todo[q][i])
    <3>1. Chosen(q, todo[q][i])
      BY <1>0 DEF Tasks
    <3>2. CASE ProgOf[todo[q][i].pkg] # Dir(q)
      <4>1. dirs'[ProgOf[todo[q][i].pkg]] = dirs[ProgOf[todo[q][i].pkg]]
        BY <1>0, <1>t, <2>1, <3>2, StepArea DEF Tasks
      <4>. QED  BY <2>2, <3>1, <3>2, <4>1 DEF Chosen, ChosenNext
    <3>3. CASE ProgOf[todo[q][i].pkg] = Dir(q)
      <4>1. todo[q][i].id = Now(q).id
        BY <1>0, <2>3, <3>3 DEF Tasks, Dir
      <4>. QED  BY <2>2, <3>1, <3>3, <4>1 DEF Chosen, ChosenNext
    <3>. QED  BY <3>2, <3>3
  <2>. QED  BY <1>0, <2>1, <2>4, <1>n, TasksNext DEF Tasks
<1>4. CASE ExecStep(q)
  <2>1. dirs' = dirs /\ todo' = todo /\ Building(q) /\ Building(q)' /\ Dir(q)' = Dir(q)
    BY <1>4, ExecEffect DEF ExecStep, Dir, Now
  <2>. QED  BY <1>0, <2>1, <1>n, TasksNext DEF Tasks, Chosen, ChosenNext
<1>5. CASE Cleanup(q)
  <2>1. /\ dirs'[Dir(q)] = dirs[Dir(q)] \ {Now(q).id} /\ Building(q) /\ ~Building(q)'
        /\ todo'[q] = Tail(todo[q]) /\ todo[q] # <<>>
    BY <1>5, CleanupEffect
  <2>2. Chosen(q, Now(q)) /\ Now(q) = todo[q][1] /\ 1 \in DOMAIN todo[q]
    BY <2>1, NowFacts
  <2>3. \A i \in DOMAIN todo'[q] : i + 1 \in DOMAIN todo[q] /\ todo'[q][i] = todo[q][i + 1]
    BY <1>t, <2>1
  <2>4. ASSUME NEW i \in DOMAIN todo[q] PROVE ChosenNext(q, todo[q][i])
    <3>1. Chosen(q, todo[q][i])
      BY <1>0 DEF Tasks
    <3>2. CASE ProgOf[todo[q][i].pkg] # Dir(q)
      <4>1. dirs'[ProgOf[todo[q][i].pkg]] = dirs[ProgOf[todo[q][i].pkg]]
        BY <1>0, <1>t, <2>1, <3>2, StepArea DEF Tasks
      <4>. QED  BY <2>1, <3>1, <3>2, <4>1 DEF Chosen, ChosenNext
    <3>3. CASE ProgOf[todo[q][i].pkg] = Dir(q)
      <4>1. todo[q][i].id = Now(q).id
        BY <1>0, <2>2, <3>3 DEF Tasks, Dir
      <4>. QED  BY <2>1, <3>1, <3>3, <4>1 DEF Chosen, ChosenNext
    <3>. QED  BY <3>2, <3>3
  <2>5. \A i \in DOMAIN todo'[q] : ChosenNext(q, todo'[q][i])
    BY <2>3, <2>4
  <2>6. \A i, j \in DOMAIN todo'[q] :
          ProgOf[todo'[q][i].pkg] = ProgOf[todo'[q][j].pkg] => todo'[q][i].id = todo'[q][j].id
    BY <1>0, <2>3 DEF Tasks
  <2>. QED  BY <2>1, <2>5, <2>6, <1>n, TasksNext
<1>6. CASE Stop(q)
  <2>1. at'[q] = "idle" /\ todo'[q] = <<>>
    BY <1>0, <1>6 DEF Stop, Goto, TypeOK
  <2>2. ~Building(q)' /\ DOMAIN todo'[q] = {}
    BY <2>1 DEF Building
  <2>. QED  BY <2>2, <1>n, TasksNext
<1>. QED  BY <1>1, <1>2, <1>3, <1>4, <1>5, <1>6 DEF Step

(* A build that has not run a step yet is in an empty directory, whoever      *)
(* takes a step.                                                              *)
LEMMA FreshStep ==
  ASSUME SInv, SeparatePrograms, NEW q \in Proc, Step(q)
  PROVE  FreshDir'
<1>0. TypeOK /\ LitterInDirs /\ FreshDir /\ (Building(q) => todo[q] # <<>>)
  BY DEF SInv, Tasks
<1>1. SUFFICES ASSUME NEW r \in Proc, at'[r] = "step", step'[r] = 1
               PROVE  (litter[Dir(r)][Now(r).id])' = {}
  BY DEF FreshDir
<1>2. CASE r # q
  <2>1. at'[r] = at[r] /\ todo'[r] = todo[r] /\ step'[r] = step[r]
    BY <1>0, <1>2, StepLocal
  <2>2. Dir(r)' = Dir(r) /\ Now(r)' = Now(r)
    BY <2>1 DEF Dir, Now
  <2>3. todo[r] # <<>>
    BY <1>1, <2>1 DEF SInv, Tasks, Building
  <2>4. Dir(r) \in Prog /\ 1 \in DOMAIN todo[r] /\ Dir(r) = ProgOf[todo[r][1].pkg]
    BY <2>3, NowFacts DEF Dir
  <2>5. todo[q] = <<>> \/ Dir(r) # Dir(q)
    BY <1>2, <2>4, OtherProgs
  <2>6. litter'[Dir(r)] = litter[Dir(r)]
    BY <1>0, <2>4, <2>5, StepArea
  <2>. QED  BY <1>0, <1>1, <2>1, <2>2, <2>6 DEF FreshDir
<1>3. CASE r = q
  <2>1. CASE CreateTmpDir(q)
    <3>1. /\ litter' = litter /\ todo' = todo /\ todo[q] # <<>> /\ Now(q).id \notin dirs[Dir(q)]
      BY <2>1, CreateEffect DEF CreateTmpDir
    <3>2. Dir(q) \in Prog /\ Now(q).id \in Ids /\ Dir(q)' = Dir(q) /\ Now(q)' = Now(q)
      BY <3>1, NowFacts DEF Dir, Now
    <3>. QED  BY <1>0, <1>3, <3>1, <3>2 DEF LitterInDirs
  <2>2. CASE ExecStep(q)
    BY <1>1, <1>3, <2>2, ExecEffect
  <2>3. CASE ~CreateTmpDir(q) /\ ~ExecStep(q)
    <3>1. FALSE
      BY <1>0, <1>1, <1>3, <2>3, WritingFacts DEF Step, Start, CreateConfig, WriteConfig, TestTools,
         Cleanup, Stop, Goto, TypeOK
    <3>. QED  BY <3>1
  <2>. QED  BY <2>1, <2>2, <2>3
<1>. QED  BY <1>2, <1>3

LEMMA SInvInit == Init => SInv
<1>. SUFFICES ASSUME Init PROVE SInv
  OBVIOUS
<1>1. ZeroFirst /\ LitterInDirs /\ FreshDir
  BY DEF Init, ZeroFirst, LitterInDirs, FreshDir
<1>2. \A q \in Proc : todo[q] = <<>> /\ at[q] = "idle"
  BY DEF Init
<1>3. \A q \in Proc : ~Building(q) /\ DOMAIN todo[q] = {}
  <2>1. \A q \in Proc : ~Building(q)
    BY <1>2 DEF Building
  <2>2. \A q \in Proc : DOMAIN todo[q] = {}
    BY <1>2, EmptyDomain, Zenon
  <2>. QED  BY <2>1, <2>2
<1>4. \A q \in Proc : Tasks(q)
  BY <1>2, <1>3 DEF Tasks
<1>. QED  BY <1>1, <1>4, TypeInit DEF SInv

LEMMA SInvNext ==
  ASSUME SeparatePrograms, SInv, [Next]_vars
  PROVE  SInv'
<1>0. TypeOK
  BY DEF SInv
<1>1. CASE UNCHANGED vars
  <2>1. /\ config' = config /\ dirs' = dirs /\ litter' = litter /\ at' = at /\ root' = root
        /\ todo' = todo /\ step' = step
    BY <1>1 DEF vars
  <2>2. TypeOK' /\ ZeroFirst' /\ LitterInDirs' /\ FreshDir'
    BY <2>1 DEF SInv, TypeOK, ZeroFirst, LitterInDirs, FreshDir, Dir, Now
  <2>3. ASSUME NEW q \in Proc PROVE Tasks(q)'
    <3>1. Building(q)' = Building(q) /\ Dir(q)' = Dir(q) /\ Tasks(q)
      BY <2>1 DEF SInv, Building, Dir, Now
    <3>. QED  BY <2>1, <3>1, TasksNext DEF Tasks, Chosen, ChosenNext
  <2>. QED  BY <2>2, <2>3 DEF SInv
<1>2. ASSUME NEW q \in Proc, Step(q) PROVE SInv'
  <2>1. \A r \in Proc : Tasks(r)'
    BY <1>2, OwnTasks, OtherTasks
  <2>. QED  BY <1>2, <2>1, TypeStep, ZeroFirstStep, LitterStep, FreshStep DEF SInv
<1>3. CASE CleanTmp
  <2>1. /\ \A q \in Proc : at[q] = "idle"
        /\ dirs' = [g \in Prog |-> {}] /\ litter' = [g \in Prog |-> [n \in Ids |-> {}]]
        /\ config' = Missing /\ at' = at /\ root' = root /\ todo' = todo /\ step' = step
    BY <1>3 DEF CleanTmp, proc
  <2>2. TypeOK'
    BY <1>0, <2>1 DEF TypeOK
  <2>3. ZeroFirst' /\ LitterInDirs' /\ FreshDir'
    BY <2>1 DEF ZeroFirst, LitterInDirs, FreshDir
  <2>4. ASSUME NEW q \in Proc PROVE Tasks(q)'
    <3>1. ~Building(q)' /\ todo'[q] = <<>> /\ DOMAIN todo'[q] = {}
      BY <2>1, EmptyDomain DEF SInv, Tasks, Building
    <3>. QED  BY <3>1, TasksNext
  <2>. QED  BY <2>2, <2>3, <2>4 DEF SInv
<1>. QED  BY <1>1, <1>2, <1>3 DEF Next, Step

(* The invariant, for processes that build different programs: see SInv.      *)
THEOREM DirsInvariant == ASSUME SeparatePrograms PROVE Spec => []SInv
<1>1. SInv /\ [Next]_vars => SInv'
  BY SInvNext
<1>. QED  BY <1>1, SInvInit, PTL DEF Spec

(* Every build begins in an empty directory, whatever killed runs have left.  *)
THEOREM DirsAreFresh == ASSUME SeparatePrograms PROVE Spec => []FreshDir
<1>1. SInv => FreshDir
  BY DEF SInv
<1>. QED  BY <1>1, DirsInvariant, PTL

(* Nobody but the build itself takes its directory away. *)
THEOREM DirsAreKept == ASSUME SeparatePrograms PROVE Spec => []DirKept
<1>1. SInv => DirKept
  <2>1. SUFFICES ASSUME SInv, NEW q \in Proc, Building(q) PROVE Now(q).id \in dirs[Dir(q)]
    BY DEF DirKept
  <2>2. Chosen(q, Now(q))
    BY <2>1, NowFacts DEF SInv, Tasks
  <2>. QED  BY <2>1, <2>2 DEF Chosen, Dir
<1>. QED  BY <1>1, DirsInvariant, PTL
=============================================================================
