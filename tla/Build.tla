-------------------------------- MODULE Build --------------------------------
(* The release store of xx and the build pipeline that fills it.             *)
(*                                                                           *)
(* Every package set-version k has numbered releases, directories            *)
(* prog/<p>/pkg/<set>-<ver>-<rel>.  `xx build` reads the last release number *)
(* of every entry of a set file when it parses the file, then builds the     *)
(* entries one by one (buildPkgs, buildPkg) into release newRel, moves the   *)
(* files of sub-packages out of it, and hands the release to instPkg.        *)
(* Nothing marks a release as finished, and nothing locks it: a run may stop *)
(* at any step, and what it leaves is what the next run finds.               *)
EXTENDS Integers, Sequences

CONSTANTS
  Run,       \* xx processes
  Pkg,       \* <set>-<ver> of packages and sub-packages
  File,      \* groups of files
  Recipe,    \* Recipe[k]: what pkg_create of k writes
  Moves,     \* Moves[k]: the sub-package file patterns of k, in order
  SetFiles,  \* SetFiles[r]: the set files run r may be given
  MaxRel     \* the last release number (255 in the code)

Rels == 0 .. MaxRel
(* A pattern of a sub-package: the files that mv moves, and the files whose   *)
(* lines grep copies and sed deletes.  mv takes the pattern as a glob, grep   *)
(* as an expression found anywhere in a line, sed as one that a path begins   *)
(* with, so each may take more than the one before it.                        *)
Move == [sub : Pkg, files : SUBSET File, copied : SUBSET File, cut : SUBSET File]

ASSUME BuildAssumption ==
  /\ MaxRel \in Nat
  /\ Pkg # {}
  /\ Recipe \in [Pkg -> SUBSET File]
  /\ Moves \in [Pkg -> Seq(Move)]
  /\ SetFiles \in [Run -> SUBSET Seq(Pkg)]

ASSUME PatternAssumption ==
  \A k \in Pkg : \A i \in DOMAIN Moves[k] :
    Moves[k][i].files \subseteq Moves[k][i].cut /\ Moves[k][i].cut \subseteq Moves[k][i].copied

SubsOf(k) == {Moves[k][i].sub : i \in DOMAIN Moves[k]}
IsSub(k) == \E m \in Pkg : k \in SubsOf(m)

ASSUME SubPkgAssumption ==
  \A m \in Pkg : \A s \in SubsOf(m) :
    /\ SubsOf(s) = {}
    /\ \A k \in Pkg : s \in SubsOf(k) => k = m

VARIABLES
  rels,      \* rels[k]: the release directories that exist
  files,     \* files[k][n]: what release n of k holds
  sha,       \* sha[k][n]: what its sha256.log lists ({} also when missing)
  at,        \* at[r]: what run r is about to do
  plan,      \* plan[r]: r.pkgs, resolved while the set file was parsed
  cur,       \* cur[r]: index of the next entry of the loop of buildPkgs
  p,         \* p[r]: the loop's own copy of the entry, updated by buildPkg
  moved,     \* moved[r]: file patterns moved to sub-packages so far
  done,      \* history: releases whose build reached its end
  abandoned  \* history: releases a run stopped in without removing them

store == <<rels, files, sha>>
vars == <<rels, files, sha, at, plan, cur, p, moved, done, abandoned>>

Entry == [pkg : Pkg, rel : Rels, new : Rels, force : BOOLEAN]

\* the phases in which the new release of p[r] is under construction
Working == {"src", "prepare", "configure", "build", "create", "check", "logs",
            "help", "cleanup", "sha", "mv", "mvsha"}
Phase == Working \cup {"idle", "next", "pkg", "rels", "libs", "inst"}

TypeOK ==
  /\ rels \in [Pkg -> SUBSET Rels]
  /\ files \in [Pkg -> [Rels -> SUBSET File]]
  /\ sha \in [Pkg -> [Rels -> SUBSET File]]
  /\ at \in [Run -> Phase]
  /\ plan \in [Run -> Seq(Entry)]
  /\ cur \in [Run -> Nat \ {0}]
  /\ p \in [Run -> Entry]
  /\ moved \in [Run -> Nat]
  /\ done \subseteq Pkg \X Rels
  /\ abandoned \subseteq Pkg \X Rels
-----------------------------------------------------------------------------
\* getLastRel: the number of the last directory in name order; the numbers
\* have two hex digits, so that is the largest
LastRel(k) == CHOOSE n \in rels[k] : \A m \in rels[k] : m <= n

\* mutant: the limit is compared with the last number instead of the next
MaxReachedLate(k) == rels[k] # {} /\ LastRel(k) > MaxRel

MaxReached(k) == rels[k] # {} /\ LastRel(k) + 1 > MaxRel

\* getPkgRels with an empty setVerRel
Rel(k) == IF rels[k] = {} THEN 0 ELSE LastRel(k)
\* mutant: the next release is not counted up
NewRelLast(k) == IF rels[k] = {} THEN 0 ELSE LastRel(k)

NewRel(k) == IF rels[k] = {} THEN 0 ELSE LastRel(k) + 1

Resolve(k, f) == [pkg |-> k, rel |-> Rel(k), new |-> NewRel(k), force |-> f]

\* the loop variable before the first entry
NoEntry == [pkg |-> CHOOSE k \in Pkg : TRUE, rel |-> 0, new |-> 0, force |-> FALSE]

Init ==
  /\ rels = [k \in Pkg |-> {}]
  /\ files = [k \in Pkg |-> [n \in Rels |-> {}]]
  /\ sha = [k \in Pkg |-> [n \in Rels |-> {}]]
  /\ at = [r \in Run |-> "idle"]
  /\ plan = [r \in Run |-> <<>>]
  /\ cur = [r \in Run |-> 1]
  /\ p = [r \in Run |-> NoEntry]
  /\ moved = [r \in Run |-> 0]
  /\ done = {}
  /\ abandoned = {}
-----------------------------------------------------------------------------
\* a store map F with v as the content of release n of k
Put(F, k, n, v) == [F EXCEPT ![k][n] = v]

Goto(r, phase) == at' = [at EXCEPT ![r] = phase]

\* the process ends: what it knew is gone, the store stays
Exit(r) ==
  /\ Goto(r, "idle")
  /\ plan' = [plan EXCEPT ![r] = <<>>]
  /\ cur' = [cur EXCEPT ![r] = 1]
  /\ p' = [p EXCEPT ![r] = NoEntry]
  /\ moved' = [moved EXCEPT ![r] = 0]

\* parsing the set file: every entry is resolved before anything is built, and
\* one package out of release numbers stops the run
Start(r) ==
  /\ at[r] = "idle"
  /\ \E s \in SetFiles[r] : \E f \in [DOMAIN s -> BOOLEAN] :
       /\ \A i \in DOMAIN s : ~MaxReached(s[i])
       /\ plan' = [plan EXCEPT ![r] = [i \in DOMAIN s |-> Resolve(s[i], f[i])]]
  /\ cur' = [cur EXCEPT ![r] = 1]
  /\ Goto(r, "next")
  /\ UNCHANGED <<store, p, moved, done, abandoned>>

Finish(r) ==
  /\ at[r] = "next"
  /\ cur[r] > Len(plan[r])
  /\ Exit(r)
  /\ UNCHANGED <<store, done, abandoned>>

NextEntry(r) ==
  /\ at[r] = "next"
  /\ cur[r] <= Len(plan[r])
  /\ p' = [p EXCEPT ![r] = plan[r][cur[r]]]
  /\ cur' = [cur EXCEPT ![r] = @ + 1]
  /\ Goto(r, "pkg")
  /\ UNCHANGED <<store, plan, moved, done, abandoned>>

\* a sub-package is not built: its release is read again
RefreshSub(r) ==
  LET k == p[r].pkg IN
  /\ at[r] = "pkg"
  /\ IsSub(k)
  /\ ~MaxReached(k)
  /\ p' = [p EXCEPT ![r] = Resolve(k, @.force)]
  /\ Goto(r, "inst")
  /\ UNCHANGED <<store, plan, cur, moved, done, abandoned>>

\* buildPkg returns at once when the entry had a release at parse time
Reuse(r) ==
  /\ at[r] = "pkg"
  /\ ~IsSub(p[r].pkg)
  /\ p[r].new # 0 /\ ~p[r].force
  /\ Goto(r, "inst")
  /\ UNCHANGED <<store, plan, cur, p, moved, done, abandoned>>

\* MkdirAll succeeds as well when the directory is there already
CreatePkgDirs(r) ==
  /\ at[r] = "pkg"
  /\ ~IsSub(p[r].pkg)
  /\ p[r].new = 0 \/ p[r].force
  /\ rels' = [rels EXCEPT ![p[r].pkg] = @ \cup {p[r].new}]
  /\ Goto(r, "src")
  /\ UNCHANGED <<files, sha, plan, cur, p, moved, done, abandoned>>

\* steps that succeed without touching the release store
Plain == [src |-> "prepare", prepare |-> "configure", configure |-> "build",
          build |-> "create", check |-> "logs", help |-> "cleanup",
          cleanup |-> "sha", libs |-> "inst"]

PlainStep(r) ==
  /\ at[r] \in DOMAIN Plain
  /\ Goto(r, Plain[at[r]])
  /\ UNCHANGED <<store, plan, cur, p, moved, done, abandoned>>

\* the pkg_create command writes its files in some order
WriteFile(r) ==
  LET k == p[r].pkg  n == p[r].new IN
  /\ at[r] = "create"
  /\ \E f \in Recipe[k] \ files[k][n] :
       files' = Put(files, k, n, files[k][n] \cup {f})
  /\ UNCHANGED <<rels, sha, at, plan, cur, p, moved, done, abandoned>>

PkgCreate(r) ==
  /\ at[r] = "create"
  /\ Recipe[p[r].pkg] \subseteq files[p[r].pkg][p[r].new]
  /\ Goto(r, "check")
  /\ UNCHANGED <<store, plan, cur, p, moved, done, abandoned>>

\* the log directory is replaced by the logs of this build: no sha256.log
MoveLogs(r) ==
  /\ at[r] = "logs"
  /\ sha' = Put(sha, p[r].pkg, p[r].new, {})
  /\ Goto(r, "help")
  /\ UNCHANGED <<rels, files, plan, cur, p, moved, done, abandoned>>

\* a package with no files ends the run instead (Abort)
DumpSHA256(r) ==
  LET k == p[r].pkg  n == p[r].new IN
  /\ at[r] = "sha"
  /\ files[k][n] # {}
  /\ sha' = Put(sha, k, n, files[k][n])
  /\ moved' = [moved EXCEPT ![r] = 0]
  /\ Goto(r, "mv")
  /\ UNCHANGED <<rels, files, plan, cur, p, done, abandoned>>

\* the file pattern that createSubPkg is at
NextMove(r) == Moves[p[r].pkg][moved[r] + 1]

\* Mv, then RemEmptyDirs, which also removes an emptied release directory
MoveFiles(r) ==
  LET k == p[r].pkg  n == p[r].new  s == NextMove(r).sub
      taken == files[k][n] \cap NextMove(r).files
      rest == files[k][n] \ NextMove(r).files
  IN
  /\ at[r] = "mv"
  /\ moved[r] < Len(Moves[k])
  /\ taken # {}
  /\ files' = Put(Put(files, k, n, rest), s, n, files[s][n] \cup taken)
  /\ rels' = [rels EXCEPT ![k] = IF rest = {} THEN @ \ {n} ELSE @,
                          ![s] = @ \cup {n}]
  /\ Goto(r, "mvsha")
  /\ UNCHANGED <<sha, plan, cur, p, moved, done, abandoned>>

\* mutant: the lines are copied but not removed from the package's log
MoveShaKeep(r) ==
  LET k == p[r].pkg  n == p[r].new  s == NextMove(r).sub IN
  /\ at[r] = "mvsha"
  /\ moved[r] < Len(Moves[k])
  /\ sha[k][n] \cap NextMove(r).copied # {}
  /\ sha' = Put(sha, s, n, sha[k][n] \cap NextMove(r).copied)
  /\ moved' = [moved EXCEPT ![r] = @ + 1]
  /\ Goto(r, "mv")
  /\ UNCHANGED <<rels, files, plan, cur, p, done, abandoned>>

\* grep > dest, then sed on the source: the log of the sub-package is
\* overwritten for every pattern; a grep that finds nothing ends the run (Abort)
MoveShaInfo(r) ==
  LET k == p[r].pkg  n == p[r].new  s == NextMove(r).sub IN
  /\ at[r] = "mvsha"
  /\ moved[r] < Len(Moves[k])
  /\ sha[k][n] \cap NextMove(r).copied # {}
  /\ sha' = Put(Put(sha, k, n, sha[k][n] \ NextMove(r).cut),
                 s, n, sha[k][n] \cap NextMove(r).copied)
  /\ moved' = [moved EXCEPT ![r] = @ + 1]
  /\ Goto(r, "mv")
  /\ UNCHANGED <<rels, files, plan, cur, p, done, abandoned>>

SubPkgsDone(r) ==
  /\ at[r] = "mv"
  /\ moved[r] = Len(Moves[p[r].pkg])
  /\ done' = done \cup {<<p[r].pkg, p[r].new>>}
  /\ Goto(r, "rels")
  /\ UNCHANGED <<store, plan, cur, p, moved, abandoned>>

\* mutant: the entry keeps what was read before the build
ReadRelsStale(r) ==
  /\ at[r] = "rels"
  /\ Goto(r, "libs")
  /\ UNCHANGED <<store, plan, cur, p, moved, done, abandoned>>

\* the release just built is found again as the last one of the store
ReadRels(r) ==
  LET k == p[r].pkg IN
  /\ at[r] = "rels"
  /\ ~MaxReached(k)
  /\ p' = [p EXCEPT ![r] = Resolve(k, @.force)]
  /\ Goto(r, "libs")
  /\ UNCHANGED <<store, plan, cur, moved, done, abandoned>>

\* instPkg copies the release (and its sub-packages) to the root
HandOver(r) ==
  /\ at[r] = "inst"
  /\ Goto(r, "next")
  /\ UNCHANGED <<store, plan, cur, p, moved, done, abandoned>>
-----------------------------------------------------------------------------
\* mutant: the failed release stays
FailKeep(r) ==
  /\ at[r] \in {"src", "prepare", "configure", "build", "create", "sha"}
  /\ Exit(r)
  /\ UNCHANGED <<store, done, abandoned>>

\* mutant: the release that was read is removed, not the new one
FailCleanRel(r) ==
  LET k == p[r].pkg  n == p[r].rel IN
  /\ at[r] \in {"src", "prepare", "configure", "build", "create", "sha"}
  /\ rels' = [rels EXCEPT ![k] = @ \ {n}]
  /\ files' = Put(files, k, n, {})
  /\ Exit(r)
  /\ UNCHANGED <<sha, done, abandoned>>

\* remNewPkg and exit: a build step fails, the download ends in a non-200
\* answer, or a file of the package cannot be read
FailClean(r) ==
  LET k == p[r].pkg  n == p[r].new IN
  /\ at[r] \in {"src", "prepare", "configure", "build", "create", "sha"}
  /\ rels' = [rels EXCEPT ![k] = @ \ {n}]
  /\ files' = Put(files, k, n, {})
  /\ Exit(r)
  /\ UNCHANGED <<sha, done, abandoned>>

\* every other errExit, and a process that is killed
Abort(r) ==
  /\ at[r] # "idle"
  /\ abandoned' = IF at[r] \in Working
                  THEN abandoned \cup {<<p[r].pkg, p[r].new>>} ELSE abandoned
  /\ Exit(r)
  /\ UNCHANGED <<store, done>>

Step(r) ==
  \/ Start(r) \/ Finish(r) \/ NextEntry(r) \/ RefreshSub(r) \/ Reuse(r)
  \/ CreatePkgDirs(r) \/ PlainStep(r) \/ WriteFile(r) \/ PkgCreate(r)
  \/ MoveLogs(r) \/ DumpSHA256(r) \/ MoveFiles(r) \/ MoveShaInfo(r)
  \/ SubPkgsDone(r) \/ ReadRels(r) \/ HandOver(r)
  \/ FailClean(r) \/ Abort(r)

Next == \E r \in Run : Step(r)

Spec == Init /\ [][Next]_vars
-----------------------------------------------------------------------------
(* What the recipe makes of a release: the main package keeps what no pattern *)
(* moves, a sub-package gets what its patterns move.                          *)
MovedFiles(k) == UNION {Moves[k][i].files : i \in DOMAIN Moves[k]}
Final(k) == Recipe[k] \ MovedFiles(k)
FinalSub(k, s) ==
  Recipe[k] \cap UNION {Moves[k][i].files : i \in {j \in DOMAIN Moves[k] : Moves[k][j].sub = s}}

Holds(k, n, content) == n \in rels[k] /\ files[k][n] = content

Complete(k, n) ==
  /\ Holds(k, n, Final(k))
  /\ \A s \in SubsOf(k) : Holds(s, n, FinalSub(k, s))

Builds(r, k, n) == at[r] \in Working /\ p[r].pkg = k /\ p[r].new = n

(* Two assumptions on the use of xx, which no code enforces: a set file names *)
(* no package twice, and two runs at a time build no common package.          *)
NamedOnce ==
  \A r \in Run : \A s \in SetFiles[r] : \A i, j \in DOMAIN s :
    s[i] = s[j] /\ ~IsSub(s[i]) => i = j
NamedByOneRun ==
  \A r, q \in Run : \A s \in SetFiles[r], t \in SetFiles[q] :
    \A i \in DOMAIN s, j \in DOMAIN t : s[i] = t[j] /\ ~IsSub(s[i]) => r = q
Disjoint == NamedOnce /\ NamedByOneRun
-----------------------------------------------------------------------------
(* The numbers of a package's releases have no gap (getPkgRels gives the      *)
(* previous release as last - 1 and the next as last + 1): no failure, no     *)
(* removal and no kill takes a release from the middle.                       *)
NoGap ==
  \A k \in Pkg : ~IsSub(k) =>
    \A n \in rels[k] : \A m \in 0 .. n : m \in rels[k]

(* newPkgDir is a new directory (main.go: "dir with new release"): the        *)
(* release a run is building is never one whose build had ended before.       *)
BuildsNewRelease ==
  \A r \in Run : at[r] \in Working => <<p[r].pkg, p[r].new>> \notin done

(* A release whose build ended is never altered or removed afterwards, nor    *)
(* are its sub-packages' files: not by remNewPkg of a failing build, not by   *)
(* moving files, not by a later run.                                          *)
PublishedUntouched ==
  [][\A d \in done :
       LET k == d[1]  n == d[2] IN
       \A s \in {k} \cup SubsOf(k) :
         n \in rels[s] =>
         n \in rels'[s] /\ files'[s][n] = files[s][n] /\ sha'[s][n] = sha[s][n]]_vars

(* A failed build leaves nothing behind: a release directory that is not      *)
(* complete is being built, or was left by an exit that does not clean up.    *)
IncompleteOnlyIfAbandoned ==
  \A k \in Pkg : ~IsSub(k) => \A n \in rels[k] :
    \/ Complete(k, n)
    \/ <<k, n>> \in abandoned
    \/ \E r \in Run : Builds(r, k, n)

(* After a build the run installs what it has built: the release it reads     *)
(* back from the store is the one it created.                                 *)
ReadsBackOwnRelease ==
  [][\A r \in Run : at[r] = "rels" /\ at'[r] = "libs" => p'[r].rel = p[r].new]_vars

\* sed deletes the lines of the moved files alone; grep copies them alone
CutsExactly(k) == \A i \in DOMAIN Moves[k] : Recipe[k] \cap Moves[k][i].cut \subseteq Moves[k][i].files
CopiesExactly(k, i) == Recipe[k] \cap Moves[k][i].copied \subseteq Moves[k][i].files

\* what the logs of a release list, of the files that are there
LogsMatch(k, n) ==
  LET all == {k} \cup SubsOf(k) IN
    /\ sha[k][n] \subseteq files[k][n]
    /\ \A s \in all : \A f \in files[s][n] : \E t \in all : f \in sha[t][n]
    /\ CutsExactly(k) =>
         /\ sha[k][n] = files[k][n]
         /\ \A i \in DOMAIN Moves[k] : LET s == Moves[k][i].sub IN
              /\ files[s][n] \subseteq sha[s][n]
              /\ CopiesExactly(k, i) => sha[s][n] = files[s][n]

(* getPkgFiles reads the sha256.log of a package as the list of its files.    *)
(* Of a finished release the log of the package lists none that was moved     *)
(* away, and every file is in the log of the package or of a sub-package.     *)
(* Where sed deletes the lines of moved files alone, each log lists all files *)
(* that are there, and nothing else, but for the log of a sub-package whose   *)
(* pattern grep finds in the lines of other files.                            *)
LogListsFiles == \A d \in done : LogsMatch(d[1], d[2])
-----------------------------------------------------------------------------
\* how the releases of a package look from outside
Mains == {k \in Pkg : ~IsSub(k)}
StatusOf(k, n) ==
  IF n \notin rels[k] THEN "none"
  ELSE IF \E r \in Run : Builds(r, k, n) THEN "open"
  ELSE IF <<k, n>> \in done THEN "built"
  ELSE "broken"
Status == [k \in Mains |-> [n \in Rels |-> StatusOf(k, n)]]

ReleaseLog == INSTANCE Releases WITH Pkg <- Mains, status <- Status

(* The store keeps the promise of module Releases: a build opens the next     *)
(* number, and then closes, drops or breaks it; nothing else ever happens to  *)
(* a release, whichever steps of the runs interleave or fail.                 *)
ImplementsReleases == ReleaseLog!Spec
-----------------------------------------------------------------------------
(* The inductive invariant behind NoGap, BuildsNewRelease and                 *)
(* PublishedUntouched under Disjoint.  The numbers a run resolved when it     *)
(* parsed its set file stay right until it uses them, because no other run    *)
(* and no earlier entry of its own builds the same package.                   *)
Names(r) == {k \in Pkg : \E s \in SetFiles[r] : \E i \in DOMAIN s : s[i] = k}

\* a package a pattern moves files from keeps a file
KeepsAFile == \A k \in Pkg : Moves[k] # <<>> => Final(k) # {}

\* k has the releases 0 .. n - 1
HasReleases(k, n) == rels[k] = 0 .. (n - 1)

OwnNames(r) ==
  /\ \A i \in DOMAIN plan[r] : plan[r][i].pkg \in Names(r)
  /\ at[r] \notin {"idle", "next"} => p[r].pkg \in Names(r)

\* no entry to come is the package of another one, or of the entry at hand
OncePerPlan(r) ==
  /\ \A i, j \in DOMAIN plan[r] :
       plan[r][i].pkg = plan[r][j].pkg /\ ~IsSub(plan[r][i].pkg) => i = j
  /\ at[r] \notin {"idle", "next"} =>
       \A i \in DOMAIN plan[r] :
         i >= cur[r] /\ plan[r][i].pkg = p[r].pkg => IsSub(p[r].pkg)

PlanUpToDate(r) ==
  /\ \A i \in DOMAIN plan[r] :
       i >= cur[r] /\ ~IsSub(plan[r][i].pkg) => HasReleases(plan[r][i].pkg, plan[r][i].new)
  /\ at[r] = "pkg" /\ ~IsSub(p[r].pkg) => HasReleases(p[r].pkg, p[r].new)

\* the phases in which pkg_create has ended
Created == {"check", "logs", "help", "cleanup", "sha", "mv", "mvsha"}

Target(r) ==
  at[r] \in Working =>
    /\ ~IsSub(p[r].pkg)
    /\ HasReleases(p[r].pkg, p[r].new + 1)
    /\ <<p[r].pkg, p[r].new>> \notin done
    /\ at[r] \in Created => Final(p[r].pkg) \subseteq files[p[r].pkg][p[r].new]

Numbered == \A k \in Pkg : ~IsSub(k) => \E n \in 0 .. MaxRel + 1 : HasReleases(k, n)

DoneExists == \A d \in done : ~IsSub(d[1]) /\ d[2] \in rels[d[1]]

IInv ==
  /\ TypeOK
  /\ \A r \in Run : OwnNames(r) /\ OncePerPlan(r) /\ PlanUpToDate(r) /\ Target(r)
  /\ Numbered
  /\ DoneExists
-----------------------------------------------------------------------------
(* What a build has made of its release so far, behind                        *)
(* IncompleteOnlyIfAbandoned and LogListsFiles.  A release that does not      *)
(* exist has left nothing, neither in its package nor in the sub-packages.    *)
MovedBy(k, m) == UNION {Moves[k][i].files : i \in 1 .. m}
GivenTo(k, m, s) == UNION {Moves[k][i].files : i \in {j \in 1 .. m : Moves[k][j].sub = s}}

\* the patterns whose files have been moved
MovedSoFar(r) == IF at[r] = "mvsha" THEN moved[r] + 1 ELSE moved[r]
Moving == {"mv", "mvsha"}

NothingLeft ==
  \A k \in Pkg : ~IsSub(k) => \A n \in Rels \ rels[k] :
    \A s \in {k} \cup SubsOf(k) : files[s][n] = {} /\ sha[s][n] = {}

Made(r) ==
  LET k == p[r].pkg  n == p[r].new IN
  /\ at[r] \in Working \ Moving =>
       /\ sha[k][n] = {}
       /\ \A s \in SubsOf(k) : files[s][n] = {} /\ sha[s][n] = {}
  /\ at[r] \in {"src", "prepare", "configure", "build"} => files[k][n] = {}
  /\ at[r] = "create" => files[k][n] \subseteq Recipe[k]
  /\ at[r] \in Created \ Moving => files[k][n] = Recipe[k]
  /\ at[r] \in Moving =>
       /\ MovedSoFar(r) \in 0 .. Len(Moves[k])
       /\ \A i \in 1 .. MovedSoFar(r) : n \in rels[Moves[k][i].sub]

\* a release is done, or left by an exit, or being built
Accounted ==
  \A k \in Pkg : ~IsSub(k) => \A n \in rels[k] :
    <<k, n>> \in done \cup abandoned \/ \E r \in Run : Builds(r, k, n)

DoneHasSubs == \A d \in done : \A s \in SubsOf(d[1]) : d[2] \in rels[s]

WInv == IInv /\ NothingLeft /\ (\A r \in Run : Made(r)) /\ Accounted /\ DoneHasSubs

(* Two conditions on recipes: no file is claimed by the patterns of two       *)
(* sub-packages; a sub-package is named by one pattern.                       *)
PatternsApart ==
  \A k \in Pkg : \A i, j \in DOMAIN Moves[k] :
    Moves[k][i].sub # Moves[k][j].sub => Moves[k][i].files \cap Moves[k][j].files = {}
OnePattern ==
  \A k \in Pkg : \A i, j \in DOMAIN Moves[k] : Moves[k][i].sub = Moves[k][j].sub => i = j

\* while files are moved, each is where the patterns so far put it
Filed(r) ==
  LET k == p[r].pkg  n == p[r].new  m == MovedSoFar(r) IN
  at[r] \in Moving =>
    /\ files[k][n] = Recipe[k] \ MovedBy(k, m)
    /\ \A s \in SubsOf(k) : files[s][n] = Recipe[k] \cap GivenTo(k, m, s)

FInv == WInv /\ (\A r \in Run : Filed(r)) /\ \A d \in done : Complete(d[1], d[2])

(* Where one pattern names each sub-package, what the first m patterns have   *)
(* moved and the first l have copied and cut.                                 *)
CutBy(k, l) == UNION {Moves[k][i].cut : i \in 1 .. l}
Left(k, m) == Recipe[k] \ MovedBy(k, m)
LinesLeft(k, l) == Recipe[k] \ CutBy(k, l)
AsMoved(k, n, m, l) ==
  /\ files[k][n] = Left(k, m)
  /\ sha[k][n] = LinesLeft(k, l)
  /\ \A i \in DOMAIN Moves[k] : LET q == Moves[k][i] IN
       /\ files[q.sub][n] = IF i <= m THEN Left(k, i - 1) \cap q.files ELSE {}
       /\ sha[q.sub][n] = IF i <= l THEN LinesLeft(k, i - 1) \cap q.copied ELSE {}

\* the logs follow the files, one pattern behind while lines are moved
Logged(r) == at[r] \in Moving => AsMoved(p[r].pkg, p[r].new, MovedSoFar(r), moved[r])
DoneLogged ==
  \A d \in done : LET all == Len(Moves[d[1]]) IN AsMoved(d[1], d[2], all, all)

LInv == WInv /\ (\A r \in Run : Logged(r)) /\ DoneLogged

\* the release just built is still the last one when it is read back
BuiltLast(r) ==
  at[r] = "rels" => ~IsSub(p[r].pkg) /\ HasReleases(p[r].pkg, p[r].new + 1)

RInv == IInv /\ \A r \in Run : BuiltLast(r)

(* Everything the proofs show of the store under the assumptions on its use:  *)
(* what a run knows of the numbers stays true while others build, what is in  *)
(* a release and in its logs is what its build has done so far, and nothing   *)
(* is left of a release that does not exist.                                  *)
StoreInv ==
  /\ WInv
  /\ \A r \in Run : Filed(r) /\ Logged(r) /\ BuiltLast(r)
  /\ \A d \in done : Complete(d[1], d[2])
  /\ DoneLogged
=============================================================================
