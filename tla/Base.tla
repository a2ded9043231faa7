-------------------------------- MODULE Base --------------------------------
(* The base system below the build environments.                             *)
(*                                                                           *)
(* /tmp/xx/base holds the packages of set/base.xx.  `xx build` installs it   *)
(* when base_ok is missing, takes away the write permissions, and fills the  *)
(* root of an environment with hard links to its files; base_linked says     *)
(* that this has been done.  The environment `base` itself is the one that   *)
(* changes the base.  All that later runs know is which of the two marker    *)
(* files exist; a run may end or be killed at every step.                    *)
EXTENDS Integers, Sequences

CONSTANTS
  Pkg,       \* packages
  BaseSet,   \* the packages of set/base.xx, in order
  BaseRoot,  \* /tmp/xx/base
  Env,       \* the root directories of the other build environments
  Job,       \* what `xx build` may be called for; no packages for `xx shell`
  MaxRel     \* bound of the release numbers

Rels == 0 .. MaxRel
Root == Env \cup {BaseRoot}
JobType == [root : Root, pkgs : Seq(Pkg), force : BOOLEAN,
            init : BOOLEAN,  \* isInit: cross compilation without a base
            sep : BOOLEAN]   \* isSepSys: the packages are for another system

ASSUME BaseAssumption ==
  /\ BaseSet \in Seq(Pkg)
  /\ BaseRoot \notin Env
  /\ Job \subseteq JobType
  /\ \A j \in Job : j.init => j.root \in Env
  /\ MaxRel \in Nat

VARIABLES
  latest,      \* latest[k]: the last release of k in the store
  behind,      \* the packages whose latest recipe has no release yet
  ok,          \* base_ok exists
  linked,      \* the roots with base_linked
  base,        \* base[k]: the files of k in the base
  tree,        \* tree[e][k]: the files of k in the root of e
  rec,         \* rec[d]: the records in var/xx of d
  at,          \* what the run is about to do
  job,         \* what it was called for
  baseOk,      \* r.baseOk, read when it started
  baseLinked,  \* r.baseLinked, read when it started
  stage,       \* "base" in installBase, else "env"
  todo,        \* packages the loop at hand has left
  interrupted, \* history: a run ended while it was changing a base with base_ok
  went         \* went[k]: history, the root that installBase has put k in

vars == <<latest, behind, ok, linked, base, tree, rec, at, job, baseOk, baseLinked,
          stage, todo, interrupted, went>>
store == <<latest, behind>>
hist == <<interrupted, went>>
disk == <<ok, linked, base, tree, rec>>
flags == <<job, baseOk, baseLinked>>

\* files: whole when they are as the package has them.  A root either has a
\* link to the file in the base or a file that is not in the base (any more)
None == [none |-> TRUE]
Shared == [shared |-> TRUE]
Files == [rel : Rels, whole : BOOLEAN]
BaseFiles == [rel : Rels, whole : BOOLEAN, writable : BOOLEAN]
NoJob == [root |-> BaseRoot, pkgs |-> <<>>, force |-> FALSE, init |-> FALSE, sep |-> FALSE]

Phase == {"idle", "base", "link", "world", "linked", "item", "place", "copy",
          "rest", "record", "ok", "protect", "end"}

TypeOK ==
  /\ latest \in [Pkg -> Rels]
  /\ behind \subseteq Pkg
  /\ ok \in BOOLEAN
  /\ linked \subseteq Env
  /\ base \in [Pkg -> BaseFiles \cup {None}]
  /\ tree \in [Env -> [Pkg -> Files \cup {None, Shared}]]
  /\ rec \in [Root -> SUBSET [pkg : Pkg, rel : Rels]]
  /\ at \in Phase
  /\ job \in Job \cup {NoJob}
  /\ baseOk \in BOOLEAN /\ baseLinked \in BOOLEAN
  /\ stage \in {"base", "env"}
  /\ todo \in Seq(Pkg)
  /\ interrupted \in BOOLEAN
  /\ went \in [Pkg -> Root]
-----------------------------------------------------------------------------
\* every package has been built once before; without, installBase ends (Stop)
Init ==
  /\ latest = [k \in Pkg |-> 0]
  /\ behind = {}
  /\ ok = FALSE
  /\ linked = {}
  /\ base = [k \in Pkg |-> None]
  /\ tree = [e \in Env |-> [k \in Pkg |-> None]]
  /\ rec = [d \in Root |-> {}]
  /\ at = "idle"
  /\ job = NoJob
  /\ baseOk = FALSE /\ baseLinked = FALSE
  /\ stage = "env"
  /\ todo = <<>>
  /\ interrupted = FALSE
  /\ went = [k \in Pkg |-> BaseRoot]

\* getRunVars reads the marker files; a bootstrap goes straight to buildPkgs
Start ==
  /\ at = "idle"
  /\ \E j \in Job :
       /\ job' = j
       /\ baseOk' = ok
       /\ baseLinked' = (j.root \in linked)
       /\ todo' = j.pkgs
       /\ at' = IF j.init THEN "item" ELSE "base"
  /\ stage' = "env"
  /\ UNCHANGED <<store, disk, hist>>

BaseThere ==
  /\ at = "base"
  /\ baseOk
  /\ at' = "link"
  /\ UNCHANGED <<store, disk, flags, stage, todo, hist>>

\* mutant: base_ok is made before the packages are installed
InstallBaseMarked ==
  /\ at = "base"
  /\ ~baseOk
  /\ ok' = TRUE
  /\ stage' = "base"
  /\ todo' = BaseSet
  /\ at' = "item"
  /\ UNCHANGED <<store, linked, base, tree, rec, flags, hist>>

InstallBase ==
  /\ at = "base"
  /\ ~baseOk
  /\ stage' = "base"
  /\ todo' = BaseSet
  /\ at' = "item"
  /\ UNCHANGED <<store, disk, flags, hist>>

CreateBaseOk ==
  /\ at = "ok"
  /\ ok' = TRUE
  /\ at' = "protect"
  /\ UNCHANGED <<store, linked, base, tree, rec, flags, stage, todo, hist>>

AfterProtect ==
  IF stage = "base"
  THEN at' = "link" /\ stage' = "env" /\ todo' = job.pkgs
  ELSE at' = "end" /\ UNCHANGED <<stage, todo>>

\* mutant: the files stay writable
ProtectNothing ==
  /\ at = "protect"
  /\ AfterProtect
  /\ UNCHANGED <<store, disk, flags, hist>>

\* chmod a-w; a link has the mode of its file
ProtectBaseDir ==
  /\ at = "protect"
  /\ base' = [k \in Pkg |-> IF base[k] = None THEN None ELSE [base[k] EXCEPT !.writable = FALSE]]
  /\ AfterProtect
  /\ UNCHANGED <<store, ok, linked, tree, rec, flags, hist>>
-----------------------------------------------------------------------------
(* linkBaseDir *)
MustLink == at = "link" /\ ~baseLinked /\ job.root # BaseRoot /\ ~job.sep

NoLink ==
  /\ at = "link"
  /\ ~MustLink
  /\ at' = "item"
  /\ UNCHANGED <<store, disk, flags, stage, todo, hist>>

Unlinked == {k \in Pkg : base[k] # None /\ tree[job.root][k] # Shared}

\* cp -al replaces a file that is in its way
LinkFile ==
  /\ MustLink
  /\ \E k \in Unlinked : tree' = [tree EXCEPT ![job.root][k] = Shared]
  /\ UNCHANGED <<store, ok, linked, base, rec, at, flags, stage, todo, hist>>

\* mutant: cp ends before everything is linked
LinkRecordsEarly ==
  /\ MustLink
  /\ rec' = [rec EXCEPT ![job.root] = @ \cup rec[BaseRoot]]
  /\ at' = "world"
  /\ UNCHANGED <<store, ok, linked, base, tree, flags, stage, todo, hist>>

\* the records of the base come along
LinkRecords ==
  /\ MustLink
  /\ Unlinked = {}
  /\ rec' = [rec EXCEPT ![job.root] = @ \cup rec[BaseRoot]]
  /\ at' = "world"
  /\ UNCHANGED <<store, ok, linked, base, tree, flags, stage, todo, hist>>

\* mutant: the records of the base stay
KeepWorld ==
  /\ at = "world"
  /\ at' = "linked"
  /\ UNCHANGED <<store, disk, flags, stage, todo, hist>>

RemoveWorld ==
  /\ at = "world"
  /\ rec' = [rec EXCEPT ![job.root] = {}]
  /\ at' = "linked"
  /\ UNCHANGED <<store, ok, linked, base, tree, flags, stage, todo, hist>>

CreateBaseLinked ==
  /\ at = "linked"
  /\ linked' = linked \cup {job.root}
  /\ at' = "item"
  /\ UNCHANGED <<store, ok, base, tree, rec, flags, stage, todo, hist>>
-----------------------------------------------------------------------------
(* The loops of installBase and of buildPkgs *)
OnBase == stage = "base" \/ job.root = BaseRoot
Item == Head(todo)
Release == [pkg |-> Item, rel |-> latest[Item]]

\* a recipe of another version, or the first of a set
NewRecipe ==
  /\ at = "idle"
  /\ \E k \in Pkg : latest[k] < MaxRel /\ behind' = behind \cup {k}
  /\ UNCHANGED <<latest, disk, at, flags, stage, todo, hist>>

(* installBase builds nothing: for a package whose latest recipe has no       *)
(* release it takes an older one, and with it the pkgCfg of the run itself,   *)
(* whose instDir is the root of the environment.                              *)
FallsBack == stage = "base" /\ Item \in behind
InstDir == IF stage = "base" /\ ~FallsBack THEN BaseRoot ELSE job.root

\* buildPkg builds when it has to, or with --force
Builds == stage = "env" /\ (job.force \/ Item \in behind)

\* mutant: the last release number is not respected
TakePkgNoLimit ==
  /\ at = "item"
  /\ todo # <<>>
  /\ IF Builds
     THEN latest' = [latest EXCEPT ![Item] = @ + 1] /\ behind' = behind \ {Item}
     ELSE UNCHANGED store
  /\ at' = IF stage = "base" THEN "copy" ELSE "place"
  /\ UNCHANGED <<disk, flags, stage, todo, hist>>

\* a new release must have a number left
TakePkg ==
  /\ at = "item"
  /\ todo # <<>>
  /\ IF Builds
     THEN /\ latest[Item] < MaxRel
          /\ latest' = [latest EXCEPT ![Item] = @ + 1] /\ behind' = behind \ {Item}
     ELSE UNCHANGED store
  /\ at' = IF stage = "base" THEN "copy" ELSE "place"
  /\ UNCHANGED <<disk, flags, stage, todo, hist>>

\* what a step of the recipe writes in the root of its environment reaches
\* the base when the file is a link and writable
StepWrites ==
  /\ at = "item" /\ todo # <<>> /\ Builds
  /\ job.root # BaseRoot /\ ~job.sep
  /\ \E k \in Pkg :
       /\ tree[job.root][k] = Shared
       /\ base[k].writable
       /\ base' = [base EXCEPT ![k].whole = FALSE]
  /\ UNCHANGED <<store, ok, linked, tree, rec, at, flags, stage, todo, hist>>

\* worldPkgExists, or a package for another system
Passed == (Release \in rec[job.root] /\ ~job.force) \/ job.sep

Skip ==
  /\ at = "place"
  /\ Passed
  /\ todo' = Tail(todo)
  /\ at' = "item"
  /\ UNCHANGED <<store, disk, flags, stage, hist>>

\* the release to copy; module Versions says which one getPkgPrevVer takes
Releases == IF FallsBack THEN 0 .. latest[Item] ELSE {latest[Item]}

\* cp -rf removes a file before it writes a new one: links keep the old one
Copy ==
  /\ at = "copy" \/ (at = "place" /\ ~Passed)
  /\ \E n \in Releases :
       IF InstDir = BaseRoot
       THEN /\ base' = [base EXCEPT ![Item] = [rel |-> n, whole |-> FALSE, writable |-> TRUE]]
            /\ tree' = [e \in Env |-> [tree[e] EXCEPT ![Item] =
                 IF @ = Shared THEN [rel |-> base[Item].rel, whole |-> base[Item].whole] ELSE @]]
       ELSE /\ tree' = [tree EXCEPT ![InstDir][Item] = [rel |-> n, whole |-> FALSE]]
            /\ UNCHANGED base
  /\ went' = IF stage = "base" THEN [went EXCEPT ![Item] = InstDir] ELSE went
  /\ at' = "rest"
  /\ UNCHANGED <<store, ok, linked, rec, flags, stage, todo, interrupted>>

CopyRest ==
  /\ at = "rest"
  /\ IF InstDir = BaseRoot
     THEN base' = [base EXCEPT ![Item].whole = TRUE] /\ UNCHANGED tree
     ELSE tree' = [tree EXCEPT ![InstDir][Item].whole = TRUE] /\ UNCHANGED base
  /\ at' = "record"
  /\ UNCHANGED <<store, ok, linked, rec, flags, stage, todo, hist>>

\* the files that have just been copied
Copied == IF InstDir = BaseRoot THEN base[Item] ELSE tree[InstDir][Item]

AddPkgToWorldDir ==
  /\ at = "record"
  /\ rec' = [rec EXCEPT ![InstDir] = @ \cup {[pkg |-> Item, rel |-> Copied.rel]}]
  /\ todo' = Tail(todo)
  /\ at' = "item"
  /\ UNCHANGED <<store, ok, linked, base, tree, flags, stage, hist>>

ItemsDone ==
  /\ at = "item"
  /\ todo = <<>>
  /\ at' = IF OnBase THEN "ok" ELSE "end"
  /\ UNCHANGED <<store, disk, flags, stage, todo, hist>>
-----------------------------------------------------------------------------
\* the run is changing a base that counts as ready
Maintaining ==
  /\ ok
  /\ OnBase
  /\ at \in {"item", "place", "copy", "rest", "record", "ok", "protect"}

\* the end of the run, a failure, or a kill
Stop ==
  /\ at # "idle"
  /\ at' = "idle"
  /\ job' = NoJob
  /\ baseOk' = FALSE /\ baseLinked' = FALSE
  /\ stage' = "env"
  /\ todo' = <<>>
  /\ interrupted' = (interrupted \/ Maintaining)
  /\ UNCHANGED <<store, disk, went>>

\* make clean_tmp
CleanTmp ==
  /\ at = "idle"
  /\ ok' = FALSE
  /\ linked' = {}
  /\ base' = [k \in Pkg |-> None]
  /\ tree' = [e \in Env |-> [k \in Pkg |-> None]]
  /\ rec' = [d \in Root |-> {}]
  /\ interrupted' = FALSE
  /\ went' = [k \in Pkg |-> BaseRoot]
  /\ UNCHANGED <<store, at, flags, stage, todo>>

Next ==
  \/ NewRecipe \/ Start \/ BaseThere \/ InstallBase \/ CreateBaseOk \/ ProtectBaseDir
  \/ NoLink \/ LinkFile \/ LinkRecords \/ RemoveWorld \/ CreateBaseLinked
  \/ TakePkg \/ StepWrites \/ Skip \/ Copy \/ CopyRest \/ AddPkgToWorldDir
  \/ ItemsDone \/ Stop \/ CleanTmp

Spec == Init /\ [][Next]_vars
-----------------------------------------------------------------------------
BasePkgs == {BaseSet[n] : n \in DOMAIN BaseSet}
Named(e) == UNION {{j.pkgs[n] : n \in DOMAIN j.pkgs} : j \in {x \in Job : x.root = e}}

\* the package a run is just replacing in d
Replacing(d, k) == at = "rest" /\ InstDir = d /\ Item = k

BaseHas(k) == base[k] # None /\ base[k].whole
EnvHas(e, k) ==
  IF tree[e][k] = Shared THEN BaseHas(k) ELSE tree[e][k] # None /\ tree[e][k].whole

(* baseOk, "base dir is ready for use": base_ok stands for a base with all    *)
(* its packages, wherever the runs that installed it were killed, as long as  *)
(* none was interrupted while it changed a finished base; but for those that  *)
(* had only an older release, which went to the root of the environment.      *)
BaseReady ==
  ok /\ ~interrupted =>
    \A k \in BasePkgs : went[k] = BaseRoot => BaseHas(k) \/ Replacing(BaseRoot, k)

(* A run that builds in an environment finds every package of the base in     *)
(* its root, also when earlier runs were killed while they linked it and when *)
(* the base was rebuilt after it was linked.  Packages that the set itself    *)
(* installs over those of the base are left out.  What had only an older      *)
(* release when the base was installed is in the root of the environment that *)
(* installed it, unless the base has torn files of it, and in no other.       *)
EnvHasBase ==
  at = "item" /\ stage = "env" /\ job.root # BaseRoot /\ ~job.init /\ ~job.sep /\ ~interrupted
    => \A k \in BasePkgs \ Named(job.root) :
         went[k] = BaseRoot \/ (went[k] = job.root /\ base[k] = None) => EnvHas(job.root, k)

(* "protect it from further changes": whatever is done in an environment, the *)
(* files of the base change only when the base itself is worked on.           *)
NoWriteThrough ==
  [][base' # base /\ at # "idle" /\ ~interrupted => OnBase \/ at = "protect"]_vars

(* "remove the link to world dir in base system": the records of a linked     *)
(* environment are those of its own packages, so a package that only the base *)
(* has installed is not taken for installed in the environment.               *)
OwnRecords ==
  \A e \in linked : \A x \in rec[e] : x.pkg \in Named(e)
-----------------------------------------------------------------------------
(* The inductive invariant behind BaseReady and NoWriteThrough.  The marker   *)
(* file is missing until the last package of the base is whole, and what was  *)
(* read of it at the start stays true; afterwards only a run whose            *)
(* destination is the base makes its files writable.                          *)
Install == {"item", "place", "copy", "rest", "record"}

PhaseInv ==
  /\ stage = "base" => at \in (Install \ {"place"}) \cup {"ok", "protect"}
  /\ at = "copy" => stage = "base"
  /\ at \in {"ok", "protect"} => OnBase /\ todo = <<>>
  /\ at \in {"world", "linked"} => job.root # BaseRoot
  /\ at \in Install \ {"item"} => todo # <<>>

OkInv ==
  /\ at = "base" => baseOk = ok
  /\ stage = "base" /\ at # "protect" => ~ok
  /\ at \in {"link", "world", "linked", "protect"} => ok
  /\ at = "ok" /\ stage = "env" => ok
  /\ at \in Install /\ stage = "env" /\ ~job.init => ok

LinkInv ==
  /\ \A e \in Env, k \in Pkg : tree[e][k] = Shared => ok /\ base[k] \in BaseFiles
  /\ at \in {"rest", "record"} =>
       IF InstDir = BaseRoot THEN base[Item] \in BaseFiles ELSE tree[InstDir][Item] \in Files

\* installBase has put k in the base, or where it had no files of it
Placed(k) ==
  IF went[k] = BaseRoot THEN BaseHas(k)
  ELSE base[k] = None => tree[went[k]][k] # None /\ tree[went[k]][k].whole

\* installBase has installed what is not left to do
Installed ==
  stage = "base" =>
    /\ \A k \in BasePkgs : (\A n \in DOMAIN todo : todo[n] # k) => Placed(k)
    /\ at \in {"rest", "record"} => went[Item] = InstDir
    /\ at = "record" => Placed(Item)

Protected ==
  ok /\ ~interrupted =>
    \A k \in Pkg : base[k] # None /\ base[k].writable =>
      OnBase /\ at \in Install \cup {"ok", "protect"}

BInv ==
  /\ TypeOK /\ PhaseInv /\ OkInv /\ LinkInv
  /\ Installed /\ Protected /\ BaseReady
-----------------------------------------------------------------------------
(* The inductive invariant behind EnvHasBase and OwnRecords.  base_linked     *)
(* stands for a root that got all of the base and none of its records, and a  *)
(* run that has not linked knows that an earlier one had.                     *)
LinkedKnown ==
  /\ linked # {} => ok
  /\ at \in {"base", "link"} \/ stage = "base" => (baseLinked <=> job.root \in linked)
  /\ at \in Install /\ stage = "env" /\ job.root # BaseRoot /\ ~job.init /\ ~job.sep =>
       job.root \in linked

\* the packages that are installed in a root are those of its jobs
TodoNamed == stage = "env" => \A n \in DOMAIN todo : todo[n] \in Named(job.root)

LinkedHasBase ==
  ~interrupted =>
    /\ \A e \in linked : \A k \in BasePkgs \ Named(e) : went[k] = BaseRoot => EnvHas(e, k)
    /\ at \in {"world", "linked"} =>
         \A k \in BasePkgs : went[k] = BaseRoot => EnvHas(job.root, k)

\* what installBase has put in a root, that root keeps
OwnCopy ==
  ok => \A k \in BasePkgs : went[k] # BaseRoot /\ k \notin Named(went[k]) => Placed(k)

NoRecordsLeft == at = "linked" => rec[job.root] = {}

EInv ==
  /\ BInv /\ LinkedKnown /\ TodoNamed
  /\ LinkedHasBase /\ OwnCopy /\ NoRecordsLeft /\ OwnRecords
=============================================================================
