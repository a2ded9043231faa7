------------------------------- MODULE Source -------------------------------
(* Fetching the sources of packages: `xx source`, and the first step of every *)
(* build.                                                                     *)
(*                                                                            *)
(* All versions and sets of a program share prog/<p>/src.  That a file or     *)
(* directory is there is all that is ever asked of it, and it is there as     *)
(* soon as its download begins.                                               *)
EXTENDS Integers, Sequences

CONSTANTS
  Proc,     \* xx processes
  Recipe,   \* recipes, one for each version of a program
  Prog,     \* programs
  File,     \* names of source files, of directories of go modules
  Commit,   \* commits of a git repository
  ProgOf,   \* ProgOf[k]: the program of recipe k
  SrcType,  \* SrcType[k]: "tar", "alpine", "go-mod" or "git"
  Urls,     \* Urls[k]: the files of recipe k, in order; the one directory of a go module
  VerShort, \* VerShort[k]: the commit of a git recipe
  SetFiles  \* SetFiles[q]: what process q may be told to fetch or to build

ASSUME SourceAssumption ==
  /\ ProgOf \in [Recipe -> Prog]
  /\ SrcType \in [Recipe -> {"tar", "alpine", "go-mod", "git"}]
  /\ Urls \in [Recipe -> Seq(File)]
  /\ VerShort \in [Recipe -> SUBSET Commit]
  /\ SetFiles \in [Proc -> SUBSET Seq(Recipe)]
  /\ \A k \in Recipe :
       /\ SrcType[k] = "git" => Urls[k] = <<>> /\ VerShort[k] # {}
       /\ SrcType[k] = "go-mod" => Len(Urls[k]) = 1

(* No tar recipe of the repository names a file twice.  The code does not ask *)
(* for it: it would leave out what follows the second one.                    *)
NoFileTwice ==
  \A k \in Recipe : SrcType[k] = "tar" =>
    \A m, n \in DOMAIN Urls[k] : Urls[k][m] = Urls[k][n] => m = n

VARIABLES
  src,      \* src[g][f]: what file f of program g holds
  clone,    \* clone[g]: the git repository below src
  upstream, \* the commits that the git servers have
  at,       \* at[q]: what process q is about to do
  todo,     \* todo[q]: the recipes left to fetch, the first is at hand
  urls,     \* urls[q]: the files of that recipe that are left to look at
  met,      \* met[q]: history, another process was at work in this directory
  fresh,    \* fresh[q]: history, no file of the recipe was there at first
  cut       \* history: files whose download was stopped, or answered with a page

store == <<src, clone>>
vars == <<src, clone, upstream, at, todo, urls, met, fresh, cut>>

\* "line": a text of one long line; "page": any other text, sent with status 200
Content == {"part", "line", "page", "whole"}
Missing == [missing |-> TRUE]

Fetching == {"test", "create", "copy", "check", "git", "cloning", "pull", "ready"}

TypeOK ==
  /\ src \in [Prog -> [File -> {"none"} \cup Content]]
  /\ clone \in [Prog -> {Missing} \cup [whole : BOOLEAN, has : SUBSET Commit]]
  /\ upstream \subseteq Commit
  /\ at \in [Proc -> {"idle", "next"} \cup Fetching]
  /\ todo \in [Proc -> Seq(Recipe)]
  /\ urls \in [Proc -> Seq(File)]
  /\ met \in [Proc -> BOOLEAN]
  /\ fresh \in [Proc -> BOOLEAN]
  /\ cut \subseteq Prog \X File

Init ==
  /\ src = [g \in Prog |-> [f \in File |-> "none"]]
  /\ clone = [g \in Prog |-> Missing]
  /\ upstream \in SUBSET Commit
  /\ at = [q \in Proc |-> "idle"]
  /\ todo = [q \in Proc |-> <<>>]
  /\ urls = [q \in Proc |-> <<>>]
  /\ met = [q \in Proc |-> FALSE]
  /\ fresh = [q \in Proc |-> FALSE]
  /\ cut = {}
-----------------------------------------------------------------------------
Goto(q, phase) == at' = [at EXCEPT ![q] = phase]
Now(q) == Head(todo[q])
Dir(q) == ProgOf[Now(q)]
FilesOf(k) == {Urls[k][i] : i \in DOMAIN Urls[k]}
Exists(g, f) == src[g][f] # "none"
Write(g, f, v) == src' = [src EXCEPT ![g][f] = v]
InDir(g) == {p \in Proc : at[p] \in Fetching /\ Dir(p) = g}

Start(q) ==
  /\ at[q] = "idle"
  /\ \E s \in SetFiles[q] :
       /\ \A i \in DOMAIN s : VerShort[s[i]] \subseteq upstream
       /\ todo' = [todo EXCEPT ![q] = s]
  /\ Goto(q, "next")
  /\ UNCHANGED <<store, upstream, urls, met, fresh, cut>>

\* getAllSrc, getSrc
NextPkg(q) ==
  /\ at[q] = "next"
  /\ IF todo[q] = <<>>
     THEN Goto(q, "idle") /\ UNCHANGED <<urls, met, fresh>>
     ELSE LET k == Now(q)
          IN /\ urls' = [urls EXCEPT ![q] = Urls[k]]
             /\ met' = [p \in Proc |-> IF p = q THEN InDir(Dir(q)) # {} ELSE met[p] \/ p \in InDir(Dir(q))]
             /\ fresh' = [fresh EXCEPT ![q] = \A f \in FilesOf(k) : ~Exists(Dir(q), f)]
             /\ Goto(q, IF SrcType[k] = "git" THEN "git" ELSE "test")
  /\ UNCHANGED <<store, upstream, todo, cut>>

\* mutant: only the first file is fetched
TestFirst(q) ==
  /\ at[q] = "test"
  /\ IF urls[q] = <<>> \/ Len(urls[q]) < Len(Urls[Now(q)]) \/ Exists(Dir(q), Head(urls[q]))
     THEN Goto(q, "ready") /\ UNCHANGED urls
     ELSE Goto(q, "create") /\ UNCHANGED urls
  /\ UNCHANGED <<store, upstream, todo, met, fresh, cut>>

\* mutant: every file is fetched, whether it is there or not
TestNone(q) ==
  /\ at[q] = "test"
  /\ Goto(q, IF urls[q] = <<>> THEN "ready" ELSE "create")
  /\ UNCHANGED <<store, upstream, todo, urls, met, fresh, cut>>

\* the files of an alpine recipe, its root, the indexes of its repositories and
\* its packages, are looked at one by one
GoesOn(k) == SrcType[k] = "alpine"

\* fileExists: a file that exists ends the whole list of a tar recipe, as the
\* directory of a go module does
Test(q) ==
  /\ at[q] = "test"
  /\ IF urls[q] = <<>>
     THEN Goto(q, "ready") /\ UNCHANGED urls
     ELSE IF ~Exists(Dir(q), Head(urls[q]))
     THEN Goto(q, "create") /\ UNCHANGED urls
     ELSE IF GoesOn(Now(q))
     THEN urls' = [urls EXCEPT ![q] = Tail(@)] /\ UNCHANGED at
     ELSE Goto(q, "ready") /\ UNCHANGED urls
  /\ UNCHANGED <<store, upstream, todo, met, fresh, cut>>

(* downloadToFile.  The server of the recipe or that of gentoo has answered   *)
(* (otherwise the process ends): the file is created, or emptied, under its   *)
(* own name, and then filled, with holes when two processes write to it.      *)
(* go mod makes its directory the same way, before it fills it.               *)
Create(q) ==
  /\ at[q] = "create"
  /\ Write(Dir(q), Head(urls[q]), "part")
  /\ Goto(q, "copy")
  /\ UNCHANGED <<clone, upstream, todo, urls, met, fresh, cut>>

Copy(q) ==
  LET f == Head(urls[q])
  IN /\ at[q] = "copy"
     /\ SrcType[Now(q)] # "go-mod"
     /\ \E v \in Content :
          /\ v = "part" => \E p \in InDir(Dir(q)) \ {q} : at[p] = "copy" /\ Head(urls[p]) = f
          /\ Write(Dir(q), f, v)
          /\ cut' = IF v = "whole" THEN cut \ {<<Dir(q), f>>} ELSE cut \cup {<<Dir(q), f>>}
     /\ Goto(q, "check")
     /\ UNCHANGED <<clone, upstream, todo, urls, met, fresh>>

\* go mod download has fetched the module and what it depends on
GoModDownload(q) ==
  LET f == Head(urls[q])
  IN /\ at[q] = "copy"
     /\ SrcType[Now(q)] = "go-mod"
     /\ Write(Dir(q), f, "whole")
     /\ cut' = cut \ {<<Dir(q), f>>}
     /\ Goto(q, "ready")
     /\ UNCHANGED <<clone, upstream, todo, urls, met, fresh>>

\* fileIsText: a line break, and the zeros after a short text, count as binary
FileIsText(v) == v = "line"

\* a text ends the process; the file stays (Stop)
Check(q) ==
  /\ at[q] = "check"
  /\ ~FileIsText(src[Dir(q)][Head(urls[q])])
  /\ urls' = [urls EXCEPT ![q] = Tail(@)]
  /\ Goto(q, "test")
  /\ UNCHANGED <<store, upstream, todo, met, fresh, cut>>
-----------------------------------------------------------------------------
\* gitCommitExists
CommitExists(g, c) == clone[g] # Missing /\ c \subseteq clone[g].has

\* mutant: a repository that is there is not looked into
GitThere(q) ==
  /\ at[q] = "git"
  /\ Goto(q, IF clone[Dir(q)] = Missing THEN "cloning" ELSE "ready")
  /\ clone' = IF clone[Dir(q)] = Missing
              THEN [clone EXCEPT ![Dir(q)] = [whole |-> FALSE, has |-> {}]] ELSE clone
  /\ UNCHANGED <<src, upstream, todo, urls, met, fresh, cut>>

\* getSrcGitMaster: clone makes the directory first
Git(q) ==
  /\ at[q] = "git"
  /\ \/ /\ clone[Dir(q)] = Missing
        /\ clone' = [clone EXCEPT ![Dir(q)] = [whole |-> FALSE, has |-> {}]]
        /\ Goto(q, "cloning")
     \/ /\ clone[Dir(q)] # Missing
        /\ Goto(q, IF CommitExists(Dir(q), VerShort[Now(q)]) THEN "ready" ELSE "pull")
        /\ UNCHANGED clone
  /\ UNCHANGED <<src, upstream, todo, urls, met, fresh, cut>>

\* git pull fails in a repository whose clone was cut short
FillClone(q) ==
  /\ at[q] \in {"cloning", "pull"}
  /\ at[q] = "pull" => clone[Dir(q)] # Missing /\ clone[Dir(q)].whole
  /\ clone' = [clone EXCEPT ![Dir(q)] = [whole |-> TRUE, has |-> upstream]]
  /\ Goto(q, "ready")
  /\ UNCHANGED <<src, upstream, todo, urls, met, fresh, cut>>

\* git clone takes its directory away when it fails; when it is killed it cannot
CloneFails(q) ==
  /\ at[q] = "cloning"
  /\ clone' = [clone EXCEPT ![Dir(q)] = Missing]
  /\ Goto(q, "idle")
  /\ todo' = [todo EXCEPT ![q] = <<>>]
  /\ urls' = [urls EXCEPT ![q] = <<>>]
  /\ UNCHANGED <<src, upstream, met, fresh, cut>>

\* new commits appear upstream
Push ==
  /\ \E c \in Commit \ upstream : upstream' = upstream \cup {c}
  /\ UNCHANGED <<store, at, todo, urls, met, fresh, cut>>
-----------------------------------------------------------------------------
\* the sources are used: the build goes on, or the next recipe is fetched
Used(q) ==
  /\ at[q] = "ready"
  /\ todo' = [todo EXCEPT ![q] = Tail(@)]
  /\ urls' = [urls EXCEPT ![q] = <<>>]
  /\ Goto(q, "next")
  /\ UNCHANGED <<store, upstream, met, fresh, cut>>

\* the process fails or is killed; a file that it had begun stays as it is
Stop(q) ==
  /\ at[q] # "idle"
  /\ Goto(q, "idle")
  /\ todo' = [todo EXCEPT ![q] = <<>>]
  /\ urls' = [urls EXCEPT ![q] = <<>>]
  /\ cut' = IF at[q] = "copy" THEN cut \cup {<<Dir(q), Head(urls[q])>>} ELSE cut
  /\ UNCHANGED <<store, upstream, met, fresh>>

Next ==
  \/ \E q \in Proc :
       \/ Start(q) \/ NextPkg(q) \/ Test(q) \/ Create(q) \/ Copy(q) \/ GoModDownload(q) \/ Check(q)
       \/ Git(q) \/ FillClone(q) \/ CloneFails(q) \/ Used(q) \/ Stop(q)
  \/ Push

Spec == Init /\ [][Next]_vars
-----------------------------------------------------------------------------
Ready(q) == at[q] = "ready"
Whole(g, f) == src[g][f] = "whole"
Good(g, f) == Exists(g, f) /\ (Whole(g, f) \/ <<g, f>> \in cut)

(* When a process is ready to build a recipe, or `xx source` has come to its   *)
(* end, all its files are there in full, or were left by a download           *)
(* that was stopped or answered with a page.  For tar recipes only if none of *)
(* the files was there at first, also not as a file of another version; and   *)
(* as long as no other process fetches for the same program.                  *)
FetchedOrCut ==
  \A q \in Proc : Ready(q) /\ ~met[q] /\ (SrcType[Now(q)] = "tar" => fresh[q]) =>
    \A f \in FilesOf(Now(q)) : Good(Dir(q), f)

(* A git recipe is built from a repository that has its commit, although the  *)
(* repository was cloned for another version, before the commit was made, by  *)
(* a process that was killed, or is being cloned by another process.          *)
CommitThere ==
  \A q \in Proc : Ready(q) /\ SrcType[Now(q)] = "git" => VerShort[Now(q)] \subseteq clone[Dir(q)].has

(* A source that is there in full is never overwritten, except by a process   *)
(* that was fetching for the same program beside another.                     *)
SourceKept ==
  [][\A g \in Prog : \A f \in File : Whole(g, f) /\ ~Whole(g, f)' =>
       \E q \in Proc : met[q] /\ at[q] \in {"create", "copy"} /\ Dir(q) = g]_vars
-----------------------------------------------------------------------------
(* The invariant behind the properties above.  A process that has met no      *)
(* other one is alone in the directory of its program, from the moment it     *)
(* looks for the first file.                                                  *)
Rest(q) == {urls[q][n] : n \in DOMAIN urls[q]}
AtFiles(q) == at[q] \in {"test", "create", "copy", "check"}
Type(q) == SrcType[Now(q)]

AtHand ==
  \A q \in Proc : at[q] \in Fetching =>
    /\ todo[q] # <<>>
    /\ AtFiles(q) => Type(q) # "git"
    /\ at[q] \in {"git", "cloning", "pull"} => Type(q) = "git"
    /\ at[q] \in {"create", "copy", "check"} => urls[q] # <<>>
    /\ AtFiles(q) /\ Type(q) = "go-mod" => urls[q] = Urls[Now(q)] /\ at[q] # "check"

Alone == \A q \in Proc : at[q] \in Fetching /\ ~met[q] => InDir(Dir(q)) = {q}

\* a file that is there is good, or somebody is filling it
Accounted ==
  \A g \in Prog, f \in File : Exists(g, f) =>
    Good(g, f) \/ \E p \in InDir(g) : at[p] = "copy" /\ Head(urls[p]) = f

Begun ==
  \A q \in Proc : ~met[q] =>
    /\ at[q] = "create" => ~Exists(Dir(q), Head(urls[q]))
    /\ at[q] = "copy" => src[Dir(q)][Head(urls[q])] = "part"
    /\ at[q] = "check" => Good(Dir(q), Head(urls[q]))

\* a process whose files will be there when it is ready
Sure(q) == ~met[q] /\ (Type(q) = "tar" => fresh[q])

Fetched ==
  \A q \in Proc : at[q] \in Fetching /\ Sure(q) =>
    \A f \in FilesOf(Now(q)) : Good(Dir(q), f) \/ (AtFiles(q) /\ f \in Rest(q))

\* the files of a tar recipe that was new do not appear before their time
Untouched ==
  \A q \in Proc : AtFiles(q) /\ Sure(q) /\ Type(q) = "tar" =>
    /\ \A m, n \in DOMAIN urls[q] : urls[q][m] = urls[q][n] => m = n
    /\ \A n \in DOMAIN urls[q] :
         at[q] \in {"test", "create"} \/ n > 1 => ~Exists(Dir(q), urls[q][n])

\* at most one process clones a repository, and nobody is ready meanwhile
Clones ==
  /\ \A g \in Prog : clone[g] # Missing => clone[g].has \subseteq upstream
  /\ \A q \in Proc : \A n \in DOMAIN todo[q] : VerShort[todo[q][n]] \subseteq upstream
  /\ \A q \in Proc : at[q] = "cloning" =>
       clone[Dir(q)] # Missing /\ ~clone[Dir(q)].whole /\ clone[Dir(q)].has = {}
  /\ \A q, r \in Proc : at[q] = "cloning" /\ at[r] = "cloning" /\ Dir(q) = Dir(r) => q = r
  /\ \A q \in Proc : Ready(q) /\ Type(q) = "git" =>
       clone[Dir(q)] # Missing /\ VerShort[Now(q)] \subseteq clone[Dir(q)].has

(* Files and repositories are fetched one step after the other, whoever else  *)
(* is at work.                                                                *)
FetchInv ==
  TypeOK /\ AtHand /\ Alone /\ Accounted /\ Begun /\ Fetched /\ Untouched /\ Clones
=============================================================================
