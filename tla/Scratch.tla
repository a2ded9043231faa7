------------------------------- MODULE Scratch -------------------------------
(* The scratch area /tmp/xx: a directory for every build, and one container   *)
(* configuration.                                                             *)
(*                                                                            *)
(* While it parses its set file an xx process picks a directory               *)
(* /tmp/xx/build/<prog>-<ver>_build-<id> for every entry.  It then tries the  *)
(* containers out (testTools), and for every step of every build it writes    *)
(* /tmp/xx/config and starts lxc-execute, which reads it.                     *)
EXTENDS Integers, Sequences

CONSTANTS
  Proc,    \* xx processes
  Pkg,     \* packages, set included
  Prog,    \* <prog>-<ver>
  ProgOf,  \* ProgOf[k]: the program and version of package k
  Root,    \* root directories, one for each build environment
  Jobs,    \* Jobs[q]: what process q may be told to build
  Steps,   \* container steps of a build
  MaxId    \* bound of the directory numbers

Ids == 0 .. MaxId
Job == [root : Root, pkgs : Seq(Pkg)]
Task == [pkg : Pkg, id : Ids]

ASSUME ScratchAssumption ==
  /\ ProgOf \in [Pkg -> Prog]
  /\ Jobs \in [Proc -> SUBSET Job]
  /\ Steps \in Nat \ {0}
  /\ MaxId \in Nat

VARIABLES
  config,  \* what /tmp/xx/config says
  dirs,    \* dirs[g]: the build directories of g that exist
  litter,  \* litter[g][n]: the packages that were built in directory n of g
  at,      \* at[q]: what process q is about to do
  root,    \* root[q]: the root directory of its build environment
  todo,    \* todo[q]: what is left to build, resolved when it was parsed
  step     \* step[q]: the step of the package at hand

vars == <<config, dirs, litter, at, root, todo, step>>
area == <<dirs, litter>>
proc == <<root, todo, step>>

\* a configuration is for a root and for the environment of a package's recipe
Missing == [missing |-> TRUE]
Empty == [empty |-> TRUE]
ToolsTest == [root |-> "tools_test"]
ToolsDone == [root |-> "/tmp/xx"]
StepConfig == [root : Root, pkg : Pkg]

Phase == {"idle", "tools", "tools fill", "tools run", "restore", "restore fill",
          "next", "step", "step fill", "step run", "clean"}

TypeOK ==
  /\ config \in {Missing, Empty, ToolsTest, ToolsDone} \cup StepConfig
  /\ dirs \in [Prog -> SUBSET Ids]
  /\ litter \in [Prog -> [Ids -> SUBSET Pkg]]
  /\ at \in [Proc -> Phase]
  /\ root \in [Proc -> Root]
  /\ todo \in [Proc -> Seq(Task)]
  /\ step \in [Proc -> 1 .. Steps]

Init ==
  /\ config = Missing
  /\ dirs = [g \in Prog |-> {}]
  /\ litter = [g \in Prog |-> [n \in Ids |-> {}]]
  /\ at = [q \in Proc |-> "idle"]
  /\ root \in [Proc -> Root]
  /\ todo = [q \in Proc |-> <<>>]
  /\ step = [q \in Proc |-> 1]
-----------------------------------------------------------------------------
Goto(q, phase) == at' = [at EXCEPT ![q] = phase]

\* mutant: -1 stands for no directory
LastIdNone(g) ==
  IF dirs[g] = {} THEN -1 ELSE CHOOSE n \in dirs[g] : \A m \in dirs[g] : m <= n

\* getLastRel, 0 also when there is no directory
LastId(g) == IF dirs[g] = {} THEN 0 ELSE CHOOSE n \in dirs[g] : \A m \in dirs[g] : m <= n

\* mutant: the last directory is taken again
BuildIdLast(g) == LastId(g)

\* the number is counted up only when there is a directory 00
BuildId(g) == IF 0 \in dirs[g] THEN LastId(g) + 1 ELSE LastId(g)

\* the task at hand, and the program whose directory it uses
Now(q) == Head(todo[q])
Dir(q) == ProgOf[Now(q).pkg]

\* getPkgCfg, for every entry of the set file
Start(q) ==
  /\ at[q] = "idle"
  /\ \E j \in Jobs[q] :
       /\ \A i \in DOMAIN j.pkgs : BuildId(ProgOf[j.pkgs[i]]) <= MaxId
       /\ root' = [root EXCEPT ![q] = j.root]
       /\ todo' = [todo EXCEPT ![q] =
            [i \in DOMAIN j.pkgs |-> [pkg |-> j.pkgs[i], id |-> BuildId(ProgOf[j.pkgs[i]])]]]
  /\ step' = [step EXCEPT ![q] = 1]
  /\ Goto(q, "tools")
  /\ UNCHANGED <<config, area>>

\* instLxcConfig: os.Create empties the file, then it is written
Writing == [tools |-> "tools fill", restore |-> "restore fill", step |-> "step fill"]

CreateConfig(q) ==
  /\ at[q] \in DOMAIN Writing
  /\ config' = Empty
  /\ Goto(q, Writing[at[q]])
  /\ UNCHANGED <<area, proc>>

WriteConfig(q) ==
  /\ \/ at[q] = "tools fill" /\ config' = ToolsTest /\ Goto(q, "tools run")
     \/ at[q] = "restore fill" /\ config' = ToolsDone /\ Goto(q, "next")
     \/ /\ at[q] = "step fill"
        /\ config' = [root |-> root[q], pkg |-> Now(q).pkg]
        /\ Goto(q, "step run")
  /\ UNCHANGED <<area, proc>>

\* testTools: the container finds the test programs only in their own root
TestTools(q) ==
  /\ at[q] = "tools run"
  /\ config = ToolsTest
  /\ Goto(q, "restore")
  /\ UNCHANGED <<config, area, proc>>

\* createPkgDirs: MkdirAll
CreateTmpDir(q) ==
  /\ at[q] = "next"
  /\ todo[q] # <<>>
  /\ dirs' = [dirs EXCEPT ![Dir(q)] = @ \cup {Now(q).id}]
  /\ step' = [step EXCEPT ![q] = 1]
  /\ Goto(q, "step")
  /\ UNCHANGED <<config, litter, root, todo>>

\* execStep: whatever the config says, the step works in the directory of q;
\* without that directory or with an empty config it fails
ExecStep(q) ==
  /\ at[q] = "step run"
  /\ config # Empty /\ config # Missing
  /\ Now(q).id \in dirs[Dir(q)]
  /\ litter' = [litter EXCEPT ![Dir(q)][Now(q).id] = @ \cup {Now(q).pkg}]
  /\ IF step[q] < Steps
     THEN step' = [step EXCEPT ![q] = @ + 1] /\ Goto(q, "step")
     ELSE Goto(q, "clean") /\ UNCHANGED step
  /\ UNCHANGED <<config, dirs, root, todo>>

\* mutant: all build directories are removed
CleanupAll(q) ==
  /\ at[q] = "clean"
  /\ dirs' = [g \in Prog |-> {}]
  /\ litter' = [g \in Prog |-> [n \in Ids |-> {}]]
  /\ todo' = [todo EXCEPT ![q] = Tail(@)]
  /\ Goto(q, "next")
  /\ UNCHANGED <<config, root, step>>

\* cleanup: RemoveAll
Cleanup(q) ==
  /\ at[q] = "clean"
  /\ dirs' = [dirs EXCEPT ![Dir(q)] = @ \ {Now(q).id}]
  /\ litter' = [litter EXCEPT ![Dir(q)][Now(q).id] = {}]
  /\ todo' = [todo EXCEPT ![q] = Tail(@)]
  /\ Goto(q, "next")
  /\ UNCHANGED <<config, root, step>>

\* the process ends, fails, or is killed; the scratch area stays
Stop(q) ==
  /\ at[q] # "idle"
  /\ Goto(q, "idle")
  /\ todo' = [todo EXCEPT ![q] = <<>>]
  /\ step' = [step EXCEPT ![q] = 1]
  /\ UNCHANGED <<config, area, root>>

\* make clean_tmp, when nothing is running
CleanTmp ==
  /\ \A q \in Proc : at[q] = "idle"
  /\ config' = Missing
  /\ dirs' = [g \in Prog |-> {}]
  /\ litter' = [g \in Prog |-> [n \in Ids |-> {}]]
  /\ UNCHANGED <<at, proc>>

Next ==
  \/ \E q \in Proc :
       \/ Start(q) \/ CreateConfig(q) \/ WriteConfig(q) \/ TestTools(q)
       \/ CreateTmpDir(q) \/ ExecStep(q) \/ Cleanup(q) \/ Stop(q)
  \/ CleanTmp

Spec == Init /\ [][Next]_vars
-----------------------------------------------------------------------------
Building(q) == at[q] \in {"step", "step fill", "step run", "clean"}

(* A build begins in an empty directory, although its name was chosen before  *)
(* earlier entries were built, and runs that were killed leave theirs behind. *)
FreshDir ==
  \A q \in Proc : at[q] = "step" /\ step[q] = 1 => litter[Dir(q)][Now(q).id] = {}

(* A build keeps its directory until it removes it itself.                    *)
DirKept == \A q \in Proc : Building(q) => Now(q).id \in dirs[Dir(q)]

(* Every step of a build runs in the root directory of its own environment    *)
(* and with the variables of its own recipe (doc/build: "containerized to     *)
(* /tmp/xx/<build set name>").                                                *)
OwnContainer ==
  [][\A q \in Proc :
       at[q] = "step run" /\ at'[q] \in {"step", "clean"} =>
         config = [root |-> root[q], pkg |-> Now(q).pkg]]_vars
-----------------------------------------------------------------------------
(* The inductive invariant behind FreshDir and DirKept, under an assumption   *)
(* on the use of xx that no code enforces: no two processes build the same    *)
(* program and version.  A number that was chosen when the set file was       *)
(* parsed stays free until its build begins; 00 is the first directory of a   *)
(* program to be made and the last one to go.                                 *)
NamedBy(q) == UNION {{j.pkgs[i] : i \in DOMAIN j.pkgs} : j \in Jobs[q]}
SeparatePrograms ==
  \A q, r \in Proc : \A k \in NamedBy(q), l \in NamedBy(r) : ProgOf[k] = ProgOf[l] => q = r

ZeroFirst == \A g \in Prog : dirs[g] = {} \/ 0 \in dirs[g]

LitterInDirs == \A g \in Prog : \A n \in Ids \ dirs[g] : litter[g][n] = {}

\* the directory that process q has chosen for a task
Chosen(q, t) ==
  LET g == ProgOf[t.pkg] IN
  /\ t.pkg \in NamedBy(q)
  /\ IF t.id = 0 THEN dirs[g] \subseteq {0} ELSE 0 \in dirs[g]
  /\ t.id \in dirs[g] <=> Building(q) /\ Dir(q) = g

Tasks(q) ==
  /\ Building(q) => todo[q] # <<>>
  /\ at[q] = "idle" => todo[q] = <<>>
  /\ \A i \in DOMAIN todo[q] : Chosen(q, todo[q][i])
  /\ \A i, j \in DOMAIN todo[q] :
       ProgOf[todo[q][i].pkg] = ProgOf[todo[q][j].pkg] => todo[q][i].id = todo[q][j].id

SInv == TypeOK /\ ZeroFirst /\ LitterInDirs /\ (\A q \in Proc : Tasks(q)) /\ FreshDir
=============================================================================
