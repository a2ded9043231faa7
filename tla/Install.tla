------------------------------- MODULE Install -------------------------------
(* `xx install`: copying built releases to a root directory.                 *)
(*                                                                           *)
(* What is installed is recorded by directories <root>/var/xx/<pkg>/<rel>,   *)
(* one set of them for the root and one for every container below it.  A run *)
(* resolves the packages of its target, their dependencies first, scans the  *)
(* records into memory (the world), checks that everything has been built,   *)
(* and then installs package by package what is not there yet.  Builds       *)
(* happen between runs; a run may be killed at every step.                   *)
EXTENDS Integers, Sequences

CONSTANTS
  Pkg,      \* names and sets of packages
  MaxVer,   \* how many versions there are, in the order of their directory names
  MaxRel,   \* bound of the release numbers that are built
  Loc,      \* "/" and the containers
  Target,   \* the targets a run may be given: sequences of entries
  Forces    \* the values of --force to try

Ver == 1 .. MaxVer
Rels == 0 .. MaxRel
Release == [pkg : Pkg, ver : Ver, rel : Rels]
Want == [pkg : Pkg, ver : Ver]
Item == [what : Release, loc : Loc]

\* an entry: a package, where it goes, and all its run dependencies
EntryType == [want : Want, loc : Loc, deps : Seq(Want)]

ASSUME InstallAssumption ==
  /\ MaxRel \in Nat
  /\ MaxVer \in Nat
  /\ Target \subseteq Seq(EntryType)
  /\ Forces \subseteq BOOLEAN

VARIABLES
  built,   \* built[k][v]: how many releases there are
  dir,     \* dir[l]: the records in var/xx of l
  copy,    \* copy[l][k]: the release of k copied to l last, if any
  whole,   \* whole[l][k]: that copy is complete, its config included
  at,      \* what the run is about to do
  target,  \* the entries it was given
  force,
  items,   \* items[n]: what entry n means, its dependencies first, resolved
  e, i,    \* the item at hand: number i of entry e
  world,   \* world[l]: pkgs of the in-memory world
  mixed    \* history: where a package was copied over another version of it

vars == <<built, dir, copy, whole, at, target, force, items, e, i, world, mixed>>
root == <<dir, copy, whole, mixed>>
run == <<target, force, items, e, i, world>>

None == [none |-> TRUE]
Phase == {"idle", "resolve", "scan", "check", "next", "copy", "cfg", "mark", "add", "done"}

TypeOK ==
  /\ built \in [Pkg -> [Ver -> 0 .. MaxRel + 1]]
  /\ dir \in [Loc -> SUBSET Release]
  /\ copy \in [Loc -> [Pkg -> Release \cup {None}]]
  /\ whole \in [Loc -> [Pkg -> BOOLEAN]]
  /\ at \in Phase
  /\ target \in Target \cup {<<>>}
  /\ force \in BOOLEAN
  /\ items \in Seq(Seq(Item))
  /\ e \in 1 .. Len(items) + 1
  /\ i \in Nat \ {0}
  /\ world \in [Loc -> SUBSET Release]
  /\ mixed \subseteq Loc \X Pkg
-----------------------------------------------------------------------------
\* getPkg: the last release in the store, 00 when there is none
LastRel(w) ==
  [pkg |-> w.pkg, ver |-> w.ver,
   rel |-> IF built[w.pkg][w.ver] = 0 THEN 0 ELSE built[w.pkg][w.ver] - 1]

IsBuilt(x) == x.rel < built[x.pkg][x.ver]

\* the items of one entry: its dependencies, then itself
ItemsOf(t) ==
  LET ws == Append(t.deps, t.want) IN
  [j \in DOMAIN ws |-> [what |-> LastRel(ws[j]), loc |-> t.loc]]

\* the item at hand, and all of them
Hand == items[e][i]
Items == UNION {{items[n][m] : m \in DOMAIN items[n]} : n \in DOMAIN items}

\* the two loops of instDefPkgs
Advance ==
  IF i < Len(items[e]) THEN i' = i + 1 /\ UNCHANGED e ELSE e' = e + 1 /\ i' = 1

\* getWorldPkgs: one version of each package, the last in the order of the
\* names, and of that the last release in the store
Recorded(l, k) == {x.ver : x \in {y \in dir[l] : y.pkg = k}}
LatestVer(l, k) == CHOOSE v \in Recorded(l, k) : \A u \in Recorded(l, k) : u <= v
Scanned(l) ==
  {LastRel([pkg |-> k, ver |-> LatestVer(l, k)]) : k \in {x.pkg : x \in dir[l]}}

\* mutant: the records are not looked at
ExistsInMemory(x, l) == x \in world[l]

\* mutant: nothing is ever found
ExistsNever(x, l) == FALSE

\* worldPkgExists
Exists(x, l) == x \in dir[l] /\ x \in world[l]

Init ==
  /\ built = [k \in Pkg |-> [v \in Ver |-> 0]]
  /\ dir = [l \in Loc |-> {}]
  /\ copy = [l \in Loc |-> [k \in Pkg |-> None]]
  /\ whole = [l \in Loc |-> [k \in Pkg |-> FALSE]]
  /\ at = "idle"
  /\ target = <<>>
  /\ force = FALSE
  /\ items = <<>>
  /\ e = 1 /\ i = 1
  /\ world = [l \in Loc |-> {}]
  /\ mixed = {}
-----------------------------------------------------------------------------
\* another `xx build` finishes a release
Build(k, v) ==
  /\ at = "idle"
  /\ built[k][v] <= MaxRel
  /\ built' = [built EXCEPT ![k][v] = @ + 1]
  /\ UNCHANGED <<root, at, run>>

Start ==
  /\ at = "idle"
  /\ \E t \in Target, f \in Forces : target' = t /\ force' = f
  /\ at' = "resolve"
  /\ UNCHANGED <<built, root, items, e, i, world>>

Resolve ==
  /\ at = "resolve"
  /\ items' = [n \in DOMAIN target |-> ItemsOf(target[n])]
  /\ e' = 1 /\ i' = 1
  /\ at' = "scan"
  /\ UNCHANGED <<built, root, target, force, world>>

GetWorld ==
  /\ at = "scan"
  /\ world' = [l \in Loc |-> Scanned(l)]
  /\ at' = "check"
  /\ UNCHANGED <<built, root, target, force, items, e, i>>

Exit ==
  /\ at' = "idle"
  /\ target' = <<>>
  /\ force' = FALSE
  /\ items' = <<>>
  /\ e' = 1 /\ i' = 1
  /\ world' = [l \in Loc |-> {}]

\* mutant: only the packages of the target are looked for
CheckTargetAvail ==
  /\ at = "check"
  /\ \A n \in DOMAIN target : IsBuilt(LastRel(target[n].want))
  /\ at' = "next"
  /\ UNCHANGED <<built, root, run>>

\* checkPkgAvail finds every package and dependency, or the run exits
CheckPkgAvail ==
  /\ at = "check"
  /\ \A y \in Items : IsBuilt(y.what)
  /\ at' = "next"
  /\ UNCHANGED <<built, root, run>>

NotAvail ==
  /\ at = "check"
  /\ \E y \in Items : ~IsBuilt(y.what)
  /\ Exit
  /\ UNCHANGED <<built, root>>

\* nothing to do for an item that exists; with --force nothing to do either
Skip ==
  /\ at = "next"
  /\ e <= Len(items)
  /\ Exists(Hand.what, Hand.loc) \/ force
  /\ Advance
  /\ UNCHANGED <<built, root, at, target, force, items, world>>

\* another version of the package was copied to the same place
Other(x, l) == copy[l][x.pkg] # None /\ copy[l][x.pkg].ver # x.ver

\* mutant: the release is recorded before its files are there
CopyRecorded ==
  LET x == Hand.what  l == Hand.loc IN
  /\ at = "next"
  /\ e <= Len(items)
  /\ ~Exists(x, l) /\ ~force
  /\ dir' = [dir EXCEPT ![l] = @ \cup {x}]
  /\ copy' = [copy EXCEPT ![l][x.pkg] = x]
  /\ whole' = [whole EXCEPT ![l][x.pkg] = FALSE]
  /\ mixed' = IF Other(x, l) THEN mixed \cup {<<l, x.pkg>>} ELSE mixed
  /\ at' = "copy"
  /\ UNCHANGED <<built, run>>

\* instPkg: the default system files, then the first files of the release
Copy ==
  LET x == Hand.what  l == Hand.loc IN
  /\ at = "next"
  /\ e <= Len(items)
  /\ ~Exists(x, l) /\ ~force
  /\ copy' = [copy EXCEPT ![l][x.pkg] = x]
  /\ whole' = [whole EXCEPT ![l][x.pkg] = FALSE]
  /\ mixed' = IF Other(x, l) THEN mixed \cup {<<l, x.pkg>>} ELSE mixed
  /\ at' = "copy"
  /\ UNCHANGED <<built, dir, run>>

\* the rest of the files and the links in /bin and /sbin
CopyRest ==
  /\ at = "copy"
  /\ at' = "cfg"
  /\ UNCHANGED <<built, root, run>>

\* the config files of the package, and those of the system for it
InstPkgCfg ==
  LET k == Hand.what.pkg  l == Hand.loc IN
  /\ at = "cfg"
  /\ whole' = [whole EXCEPT ![l][k] = TRUE]
  /\ at' = "mark"
  /\ UNCHANGED <<built, dir, copy, mixed, run>>

AddPkgToWorldDir ==
  LET x == Hand.what  l == Hand.loc IN
  /\ at = "mark"
  /\ dir' = [dir EXCEPT ![l] = @ \cup {x}]
  /\ at' = "add"
  /\ UNCHANGED <<built, copy, whole, mixed, run>>

AddPkgToWorldT ==
  LET x == Hand.what  l == Hand.loc IN
  /\ at = "add"
  /\ world' = [world EXCEPT ![l] = @ \cup {x}]
  /\ Advance
  /\ at' = "next"
  /\ UNCHANGED <<built, root, target, force, items>>

\* "installation complete"
Complete ==
  /\ at = "next"
  /\ e > Len(items)
  /\ at' = "done"
  /\ UNCHANGED <<built, root, run>>

\* the run ends after that, or is killed, or fails to copy, before
Stop ==
  /\ at # "idle"
  /\ Exit
  /\ UNCHANGED <<built, root>>

Next ==
  \/ \E k \in Pkg, v \in Ver : Build(k, v)
  \/ Start \/ Resolve \/ GetWorld \/ CheckPkgAvail \/ NotAvail
  \/ Skip \/ Copy \/ CopyRest \/ InstPkgCfg \/ AddPkgToWorldDir \/ AddPkgToWorldT
  \/ Complete \/ Stop

Spec == Init /\ [][Next]_vars
-----------------------------------------------------------------------------
(* The scan takes the highest version that is recorded for the one that is    *)
(* installed ("assuming that latest entries are installed prog versions",     *)
(* xx/parsers.go:484), and a record does not go when another version is       *)
(* copied over its files, or begins to be.  What follows is about places      *)
(* where no version was ever copied over another one.                         *)
OneVersion(l, k) == <<l, k>> \notin mixed

Installed(y) ==
  LET x == y.what  l == y.loc IN
  /\ x \in dir[l]
  /\ OneVersion(l, x.pkg) => copy[l][x.pkg] = x /\ whole[l][x.pkg]

(* When an installation without --force is complete, the root records every   *)
(* package of the target and every dependency in the release the run          *)
(* resolved, and holds it with all its files and its config; what earlier     *)
(* runs left half copied has been completed.                                  *)
InstalledAtEnd ==
  at = "done" /\ ~force => \A y \in Items : Installed(y)

(* A release that is recorded has been copied completely: a run that is       *)
(* killed while it copies leaves no record that makes the next one skip it.   *)
RecordedWhole ==
  \A l \in Loc : \A x \in dir[l] :
    copy[l][x.pkg] = x /\ OneVersion(l, x.pkg) => whole[l][x.pkg]

(* A release that is recorded is not copied again.                            *)
NoRework ==
  [][\A l \in Loc, k \in Pkg :
       OneVersion(l, k) /\ whole[l][k] /\ copy[l][k] \in dir[l] /\ ~whole'[l][k]
         => copy'[l][k] \notin dir[l]]_vars

(* A run copies nothing unless everything it is going to install was built.   *)
AllOrNothing ==
  [][copy' # copy => \A y \in Items : IsBuilt(y.what)]_vars
-----------------------------------------------------------------------------
(* The invariant that carries the four properties above.  Builds happen only  *)
(* between runs, so what a run has resolved stays the last release.           *)
ItemsAreLast == at \notin {"idle", "resolve"} => \A y \in Items : y.what = LastRel(y.what)

ItemsAreBuilt == at \notin {"idle", "resolve", "scan", "check"} => \A y \in Items : IsBuilt(y.what)

Place ==
  /\ at \in {"idle", "resolve"} => items = <<>>
  /\ \A n \in DOMAIN items : items[n] # <<>>
  /\ e <= Len(items) => i \in DOMAIN items[e]
  /\ at = "done" => e > Len(items)

\* a record means a copy, of the same version and no older release
RecordsFollow ==
  /\ \A l \in Loc, k \in Pkg : copy[l][k] # None => copy[l][k].pkg = k /\ IsBuilt(copy[l][k])
  /\ \A l \in Loc : \A x \in dir[l] :
       /\ copy[l][x.pkg] # None
       /\ OneVersion(l, x.pkg) => x.ver = copy[l][x.pkg].ver /\ x.rel <= copy[l][x.pkg].rel

\* the world knows every record of a last release
WorldKnows ==
  at \notin {"idle", "resolve", "scan"} => \A l \in Loc : \A x \in dir[l] :
    OneVersion(l, x.pkg) /\ x = LastRel(x) =>
      x \in world[l] \/ (at = "add" /\ x = Hand.what /\ l = Hand.loc)

HandCopied ==
  at \in {"copy", "cfg", "mark", "add"} =>
    LET x == Hand.what  l == Hand.loc IN
    /\ ~force /\ e <= Len(items)
    /\ copy[l][x.pkg] = x
    /\ at \in {"mark", "add"} => whole[l][x.pkg]
    /\ at = "add" => x \in dir[l]

Before(n, m) == n < e \/ (n = e /\ m < i)
InstalledSoFar ==
  ~force => \A n \in DOMAIN items : \A m \in DOMAIN items[n] :
    Before(n, m) => Installed(items[n][m])

(* What a run has passed is installed, what it will copy is built and the     *)
(* last release, and records, world and copies agree.                         *)
InstallInv ==
  /\ TypeOK /\ Place
  /\ ItemsAreLast /\ ItemsAreBuilt
  /\ RecordsFollow /\ RecordedWhole
  /\ WorldKnows /\ HandCopied /\ InstalledSoFar
=============================================================================
