# Verification of xx, a source-based Linux distribution

TLA+ models of the programs in this repository, TLC configurations that check
them on small instances, and proofs checked by TLAPS. File names below are
relative to the repository; line numbers are those of the commit the models
were written from, and `PROJECT.json` maps every definition to its lines.

## 1. Inventory

`xx/` is the package tool (one Go process per command, no goroutines, no
locks; all state that outlives a process is in the file system), `crun/` starts
programs in LXC containers. Everything else is data (recipes, patches,
configuration) or small shell scripts.

| part | state it keeps | operations | what makes it correct |
|---|---|---|---|
| release store and build pipeline (`build.go`, `cfg.go`, `cmd.go`, `dirs.go`) | `prog/*/*/pkg/<set>-<ver>-<rel>`, `prog/*/*/log/<set>-<ver>-<rel>` | resolve releases, create, build, split off sub-packages, read back, remove | numbers without gaps; a finished release never changes; only complete releases are installed; logs list the files |
| install and world (`install.go`, `world.go`) | root directory, `/var/xx` logs of what is installed, the in-memory `world` | scan, install, copy configs | what is recorded is what is installed; nothing installed twice or forgotten |
| dependencies (`deps.go`) | `shared_libs` logs of the releases | library lookup, transitive closure, order of installation | closure is complete and terminates on cycles |
| scratch area (`main.go`, `cmd.go`, `shell.go`) | `/tmp/xx/config`, `/tmp/xx/build/<prog>-<ver>-<id>` | pick a directory, write the container config, run a step in it | a step runs in its own directory with its own config |
| base system (`build.go`, `dirs.go`, `run.go`) | `base_link`, `base_dir`, `base_ok` | build once, protect, link | a base is used only when it is complete |
| sources (`source.go`, `alpine.go`) | `prog/*/src` | download, git, go modules | a source is complete when it is used, and stays so |
| previous version, diff (`diff.go`, `cfg.go`) | none | latest version, previous version and release | the latest is the latest; what is named exists; previous means built before |
| permissions (`perms.go`) | modes and owners under the root | list paths, set owner and mode of each | no path is missed; owners and modes are those of the rules |
| recipes (`parsers.go`, `args.go`) | none | parse set files, ini files, flags | every entry resolves to one recipe and version |
| crun (`crun/*.go`) | config, cmd and bind directory of a container, its work directory, `/cnt/bin` | parse, bind, start, fetch results, make links | a container runs its own command; results are not lost; addresses differ; links are complete |
| reports, network tools, output (`info.go`, `check.go`, `ssh.go`, `update.go`, `print.go`) | none | read-only | - |

Interaction: a command parses its set file (which resolves the releases of
every entry), reads the world, then builds entry by entry and installs each.
Processes interact only through files: two `xx` processes share the release
store and `/tmp/xx`, two `crun` processes the run directories.

Hard behaviours: a process may end at any step (errExit is called from every
failure, and only some failures remove what was made); values read while
parsing are used much later; directories stand for facts ("built",
"installed", "downloaded", "free") that are tested by existence alone.

## 2. Plan

Written in this order: `Build` and `BuildProofs` (the core), `Releases` (what the
store promises, shown in `BuildProofs` to be implemented by `Build`),
`Deps`, `Install`, `Scratch`, `Base` and `BaseProofs`, `CntConf` and `Crun`, `Source`,
`Perms`, `Versions`; then `ScratchProofs`, `InstallProofs`, `SourceProofs`,
`CrunProofs`, `ResolveProofs` (about `Versions` and `Deps`) and `PermsProofs`.

Every safety property that a passing run checks is also a theorem; section 5 says
from which hypotheses.

A module for the substitution of recipe variables (`parsers.go:363`, in the
order of a Go map) was planned and dropped: no recipe has a value that names
another variable, so that no input of the program shows the order.

## 3. The modules and the code

State that outlives a process (the file system) is kept apart from what a
process knows: when a run ends, is killed or fails, its own variables go back
to their initial values and the store stays. A process is sequential, so a
module keeps its program counter in `at`; one action is one step between two
points where another process, a failure or a kill can come in.

**Build** (`xx/build.go`, `cfg.go`, `cmd.go`, `dirs.go`, `parsers.go`).
`rels[k]` are the directories `prog/*/*/pkg/<set>-<ver>-<rel>` of package `k`,
`files` what they hold, `sha` what their `sha256.log` lists. `Start` is
parseBuildEnvFile: the releases of all entries are read there (`Resolve`,
getPkgRels) and not again until the entry has been built. `NextEntry`, `Reuse`,
`RefreshSub`, `CreatePkgDirs` are the branches of buildPkgs and buildPkg;
`WriteFile`/`PkgCreate` is the pkg_create step, file by file; `MoveLogs`,
`DumpSHA256`, `MoveFiles`, `MoveShaInfo` and `SubPkgsDone` the tail of buildPkg;
`ReadRels` the second getPkgRels; `HandOver` the call of instPkg. `FailClean`
is every failure that goes through remNewPkg, `Abort` every other errExit and a
kill. Release numbers have two hex digits in the code; `MaxRel` stands for 255
and the exit at the limit is in the guards. Files are groups of files, a
recipe is the set it creates. A sub-package pattern is three sets (`Move`): the
files that mv moves, for which it is a glob, and those whose lines grep copies and
sed deletes, for which MoveShaInfo makes it a regular expression: sed's is found
where a path begins, grep's anywhere, neither ends with the path. Each may take
more lines than the one before (`PatternAssumption`). `done` and `abandoned` are
history only.

**Releases** is the abstract promise: numbers without gaps, at most the newest
release open, and an ended release the same for ever. `Build!Status` is the
refinement mapping: a release is open while some run is building it.

**Install** (`xx/install.go`, `world.go`, `parsers.go`). `dir[l]` are the record
directories of the root or of a container, `copy`/`whole` what really is in the
root, `world` the in-memory database of the run. `Resolve`, `GetWorld`,
`CheckPkgAvail`, then per item `Copy`, `CopyRest`, `InstPkgCfg`,
`AddPkgToWorldDir`, `AddPkgToWorldT` follow instDefPkgs and instPkg line by
line. `items[e][i]` is dependency `i` of entry `e` of the set file, the two
loops of instDefPkgs; `MaxVer` bounds the versions. Builds happen between
installations. `mixed` is the history behind the exception the properties make:
places where a version was copied over another one.

**Deps** (`xx/deps.go`). The recursion of getAllRunDeps as a stack of frames
over a list that all calls share; the graph is arbitrary, and packages are
compared as pkgExists does, by name and set, not by version.

**Scratch** (`xx/main.go`, `cmd.go`). The build directories below
`/tmp/xx/build`, chosen while the set file is parsed (getPkgCfg) and used much
later, and the one `/tmp/xx/config` that every process empties, writes and lets
lxc-execute read in separate steps; testTools, `make clean_tmp`.

**Base** (`xx/build.go`, `dirs.go`, `run.go`, `shell.go`). `base` and `tree` are
the files of the base and of the roots of the environments, where `Shared` is a
hard link to the base; `ok` and `linked` are the marker files, `baseOk` and
`baseLinked` what the run read of them when it started. `InstallBase` to
`ProtectBaseDir` are installBase, `LinkFile` to `CreateBaseLinked` linkBaseDir,
one command each; `TakePkg` to `AddPkgToWorldDir` are one turn of the loop of
installBase or buildPkgs. `behind` are the packages with a recipe that has no
release yet (`NewRecipe`): a build makes one, installBase falls back to an older
one (`FallsBack`) and with it to the pkgCfg of the run itself, so that `InstDir` is
then the root of the environment and no longer the base. cp replaces files
(busybox's `cp -rf` removes them first), so only the recipes' own steps write
through a link (`StepWrites`). `interrupted` and `went` are history: a run that
stopped while it changed a finished base, and the root that installBase has put a
package in.

**CntConf** (`crun/parse.go`, `lxc.go`, `cmd.go`) has no state: `Conf` is
`/etc/cnt.conf`, `CommandLine` what crun is called with, and its operators are
parseConf (`CntOf`, `Octet`, `CapsOf`), parseArgs (`Options`, `Arguments`,
`BindTargets`) and what is made from them (`LxcConfig`, `CmdOf`). An argument
is an option of crun, a path of the host, or another word. Both texts are then the
format of an Fprintf without values: `Printed[x]` is what it writes of the path or
word `x`, `ConfigText` and `CmdText` what is in the two files, and `Verbatim` a
command line in which nothing is changed by that.

**Crun** (`crun/main.go`, `lxc.go`) extends it. `bind`, `config`, `cmd` and `work`
are the directories and files of a container, which all crun processes share
(`work[c][f]` is what entry `f` of the work directory holds, "none" when there is
none; `bind[c]` the directories below `/bind`, by `Dir`, in which lxc-execute looks
for the paths of the config); os.ReadDir lists a directory in some order
(`Listings`); `run[c]` is the program in it, with the config lxc-execute has read.
`Start` is everything up to the first file operation; `ClearBind`, `ListWork`,
`CheckEmpty`, `RemoveEmpty` are clearDir and clearWorkDir, entry by entry;
`CreateFile`, `WriteLxcConfig` and `WriteCmd` empty and fill the two files;
`LxcExecute` and `ExecCmd` are lxc-execute, which reads `config` first and lets the
container read `cmd` later. `ReadWorkDir`, `CopyEntry`, `SweepWorkDir` are getFiles;
`ListLinks`, `RemoveLink`, `MakeLink` are clearLinks and createLinks. `CntWrite` and
`CntExit` are the program in the container. `met`, `late`, `got` and `torn` are
history.

**Source** (`xx/source.go`, `alpine.go`). `src[g]` are the files of
`prog/<g>/src`, which all versions and sets of a program share, and `clone[g]`
the git repository there; `src[g][f]` is "none" for a file that is not there.
`Test` is fileExists and what each source type does with the answer; `Create`,
`Copy` and `Check` are downloadToFile, whose file has its final name from the
first moment; `GoModDownload`, `Git`, `FillClone` and `CloneFails` the other
types. A file is whole, partial, a web page, or a page in one line, which is all
that fileIsText tells apart. `Push` is the git server. `met`, `fresh` and `cut`
are history.

**Perms** (`xx/perms.go`, `walkDir`, `uniqueSlice` and `isSymLink` of `common.go`).
`fs` is the tree, `table` the maps of modes and owners, `list` and `todo` the paths
of the pass. `ReadPerms` is getPermOwner, `ListPaths` getFixedPaths, getRootDirs,
the walk and the removal of duplicates; `StatPath`, `Chown` and `Chmod` the three
system calls of one path, between which `Deploy` lets another process put a file, a
directory or a link. Paths are sequences of names, in the order of their strings. A
mode is its digits and whether it has setuid or setgid, which a chown takes from
files. A user or group that passwd or group does not know is `Root` (`UgIdLookup`:
errExit gets no error there, and 0 is returned). A link is given by where it ends,
since os.Stat, os.Chown and os.Chmod follow it all the way (`TreeAssumption`); it
may end nowhere. `touched` and `cleared` are history: what others have written
during the pass, also by changing a link to it, and which files lost setuid to this
pass. The state "endless" is the loop of getRootDirs for a rule that names the root
of another system.

**Versions** (`xx/cfg.go`, `diff.go`, `build.go`). `ini` are the versions with a
recipe, `built[v]` the number of releases; `GetVer` is getVer, `PkgRel` getPkgRels,
`PkgPrevVer` and `PkgPrevRel` the two forms of getPkgPrev, `Answer` what diff and
installBase do with them. Other runs add recipes and releases between the
resolution (`GetPkg`) and the answer. A field of a version is its number and how
many digits it is written with, up to `Width`: 32 in the code, beyond which fields
are not filled up.

Modules that model one step of another: `Build` has the step `src`, which is
`Source`; `HandOver` of `Build` and `TakePkg` of `Base` call what `Install`
models; `Complete` of `Install` stands after the pass of `Perms`. They are checked
apart, because the state they share is handed over in one step: a source is
there or not, a release is built or not.

The MC modules hold the instances only: packages, recipes, set files, graphs,
trees and command lines.

## 4. What the runs check

| run | shows | bounds |
|---|---|---|
| `build` | two processes with different packages, restarted at will, failing or killed at every step: numbers without gap, no build into a finished release, only abandoned releases are incomplete, every file is in a log and no log of a package lists what was moved away, finished releases stay as they are, a run reads back its own release; the inductive invariant of the proofs (`StoreInv`); `Build` implements `Releases` | two packages, each with a sub-package of one pattern: one where sed deletes the right lines and grep copies one more, as for `libstdc++`, one where both take a line of a file that stays; the sub-package in the same set file; two processes; each entry forced or not; two releases, so that the limit is reached |
| `deps` | every graph over four packages, two of them versions of one: the search ends, the list is closed, free of duplicates, and is the closure when no package is needed in two versions | all subsets as dependencies in name order, two lists out of order; cycles |
| `install` | a completed run without `--force` has installed all it resolved, a record means a complete copy, nothing recorded is copied again, nothing is copied unless all is built; the inductive invariant of the proofs (`InstallInv`) | three packages, one in two versions, root and a container, a shared dependency, two releases, kills at every step |
| `base` | environments linked to the base, rebuilt with and without `--force`, every run killed at every step: `base_ok` stands for a base with all that was put there, a linked environment has all of it whatever happens to the base later, its records are its own, and nothing written there reaches the base; all this as long as no run is interrupted while it changes a finished base; a package that installBase put in the root of an environment stays there (`OwnCopy`); also the invariant of the proofs (`EInv`) | two base packages, one of them also in a set that is forced, and with a recipe that has no release; a set of another system, a bootstrap set, `xx shell` in the base; two releases |
| `scratch` | two processes with different programs: a build begins in an empty directory and keeps it, also for two entries of one program in one set file | two programs, ids 0 and 1, two steps a build |
| `scratch_config` (finding) | `OwnContainer` fails: a step may run in another process's root | as `scratch` |
| `crun` | a container runs what Fprintf writes of the command and config of the crun that started it, and just these where it changes nothing, whatever killed ones left; fetching and clearing lose nothing that was there before; running containers have different addresses; links are complete when no other `crun --links` interfered; the inductive invariant of the proofs (`CrunInv`) | two processes, two containers, one with two programs and with its lines apart or together in cnt.conf; a file to bind, one whose name has a %, a work directory entry to bind, an address with a %, a shell that keeps the config, two results |
| `source` | what a build finds is there in full or was cut short by a stopped download; a git recipe has its commit; a whole source is never overwritten by a process that is alone; the inductive invariant of the proofs (`FetchInv`) | two processes, two versions of gcc that share a file, alpine, go module, two commits of one repository |
| `perms` | the list has every path that a rule gives a mode, except what uniqueSlice loses; a complete pass leaves the owners and modes of the rules, root for names that the system does not know, except a setuid bit, and a second pass leaves exactly those; the inductive invariant of the proofs (`PermsInv`) | ten sets of rules: those of `cfg/sys/etc/perms`, rules for containers, duplicates, one rule, the root itself, unknown owners, another root; two of four things put beside the passes: a program with setuid, a new file, a link that becomes a file, a file that becomes a link that may lead nowhere; root and user |
| `perms_owners` (finding) | `OwnersApplied` fails: owners of directories do not reach what is below | the rules of the repository |
| `versions` | the latest version is the latest; the release that is named exists; a diff shows the version before | five versions, with 1.9 before 1.10, 2 before 2.1, and one written with a zero; three releases each |
| `versions_latest` (finding) | `LatestBuilt` fails: the base does not get the latest built release | as `versions` |

Two processes are enough: every property is about one process and what another
one does to it. Two entries show what an earlier entry does to a later one.
Deadlock is not checked in `build`, where the store fills up to `MaxRel` and
every run then exits at once, nor in `deps`, where the search ends.

Four MC modules bound the search by a CONSTRAINT. `Apart` (`crun`) explores
`crun --links` and the second container where the first has no results yet, since
they touch no common file; with the second cnt.conf, where the lines of the first
container are apart, one process runs after the other. `Beside` (`crun`) bounds what
two processes of one container find in its work directory while both are at work:
one entry, of which another may be written meanwhile, and only an empty file when
both start the container; and it says which of the two fetches beside the other.
One process alone finds any number. `OneRecipe` (`base`) gives one package a recipe
without a release, before the base is in place; until the next `make clean_tmp`
no run is forced then, and none is left interrupted. `OneProg` (`source`) uses the
directory of one program at a time: they are independent. `OneNewVersion`
(`install`) gives only one package a second version. States at the border are
checked before they are left out, and the proofs have no such bounds.

Fairness: only `Deps` states any, weak fairness of its next step, because one
call of a sequential process keeps running until it returns. Everything else is
safety: a process may be killed at any time, so nothing must ever happen.

### Findings

`scratch_config`, `perms_owners` and `versions_latest` are disagreements between
the code and what its comments and documents say; `PROJECT.json` quotes both
sides. More were met; the properties are stated so that they except them, or
the instances leave them out:

- Releases. A run that stops outside remNewPkg leaves a partial release, which
  the next run takes for a built one and installs (`xx/build.go:128`; the
  history `abandoned`). A set file that names a package twice makes the run build
  into the release it has just finished (`xx/parsers.go:72`; `set/x11.xx` does so;
  `NamedOnce`). MoveShaInfo takes the log lines of more files than those moved: the
  log of the sub-package `libstdc++` of `prog/dev/gcc/12.2.0.ini` also lists the gdb
  script whose path contains `/usr/lib/libstdc++.so`, which stays in the package
  (`xx/build.go:297`); and the log of a sub-package with two patterns lists the
  lines of the last one only (`prog/dev/gcc/12.2.0.ini:57`).
- Base. For a package whose latest recipe has no release, installBase replaces
  `pc` with the one of the run itself (`xx/build.go:66`): the older release, and
  its record, go to the root of the environment that is being built, of another
  system too, and `base_ok` is written for a base without it (`xx/build.go:83`).
  Every environment that is linked later lacks it. `BaseReady` and `EnvHasBase`
  except it by the history `went`.
- Installing. With `--force` nothing is installed (`xx/install.go:49`; both
  conditions are negated). The highest recorded version counts as installed: an
  older one that was installed over it is copied again by every run, and the
  newer one is never copied again; its last release in the store counts, also
  when it was never installed (`xx/parsers.go:484`; `mixed`). The default
  system files are copied for every package, over the configs of earlier ones
  (`xx/install.go:97`).
- Dependencies. One of two versions is listed, although their libraries may
  differ (`xx/common.go:101`).
- Scratch. A build directory is counted up only when 00 exists, so a third
  process of one program may get the directory of the second (`xx/main.go:407`).
- Sources. A failed download leaves its file, and one file that exists ends
  the list, so running `xx source` again fetches nothing and reports success,
  although `doc/install:42` advises it (`xx/source.go:61`; `fresh`, `cut`). fileIsText
  refuses only a text of one line that fills its buffer (`xx/source.go:128`).
- Permissions. uniqueSlice loses the last path of a list when it is there
  twice, and fails on a list of one; symbolic links are followed, so that a
  target gets a mode for each of its names; a rule for the root of another system
  makes the search endless. errExit is called with a nil error for a user or group
  that is not known, so that its files are given to root (`xx/perms.go:313`).
- crun. The command line and the config are the format of an Fprintf
  (`crun/cmd.go:24`, `crun/lxc.go:83`): an address with `%20`, or a path to bind
  with a `%`, is written as something else (`Verbatim`). The help names `++add-dev`,
  the code takes `++all-dev`; `+g` copies and then removes; a program named twice in
  cnt.conf makes `crun --links` stop half way, as does a second one beside it; more
  than 253 changes of the container in cnt.conf give an address that does not exist.

## 5. What is proved

All theorems hold for every value of the constants that satisfies the named
assumptions of the modules, so for any number of processes, packages, versions,
files and containers. What the code leaves to its user or to the recipes is a
hypothesis of the theorem, an operator that the instances satisfy:

| hypothesis | of | says | why it is needed, and who keeps it |
|---|---|---|---|
| `Disjoint` | Build | a set file names no package twice; processes that run at a time build different packages | otherwise a run builds into a release that is there (section 4); nothing in the code enforces it |
| `KeepsAFile` | Build | a package keeps a file when its sub-packages are taken out | otherwise RemEmptyDirs removes its directory, and the release with it |
| `PatternsApart` | Build | no file is matched by the patterns of two sub-packages | otherwise the second one finds its files moved; patterns name different directories |
| `OnePattern` | Build | a sub-package is named by one pattern | otherwise its log is overwritten, as that of the libraries of `dev/gcc` (section 4) |
| `PatternAssumption` | Build | sed deletes the lines of all files that are moved, grep copies all lines that sed deletes | it is how MoveShaInfo makes the two expressions; an assumption of the module, which TLC evaluates |
| `SeparatePrograms` | Scratch | no two processes build the same program and version | otherwise they share a build directory (section 4) |
| `NoFileTwice` | Source | no recipe of tar files names a file twice | otherwise the second one is there when it is looked at; the sources of a recipe have different names |
| `NoBinTwice` | Crun | cnt.conf names no program twice | otherwise `crun --links` stops at the second (section 4) |

Every invariant below is inductive as it stands. TLC checks it in the run of its
module (`StoreInv`, `EInv`, `InstallInv`, `FetchInv`, `CrunInv` and `PermsInv`, the
first two with `IInv` and `BInv` in them; `SInv` and `DInv` were checked on the same
instances before they were proved). Each proof has the same shape: lemmas for what the
helpers return, one lemma per conjunct with one step per action that can disturb
it, then the properties from the invariant.

**BuildProofs.** `TypeCorrect` needs no hypothesis. `IInvAlways`,
`ReleasesHaveNoGap`, `NewReleaseIsNew` and `DoneIsForever` are proved under
`Disjoint` and `KeepsAFile`. `NoGap` is not inductive: creating release `new` leaves
no gap only because `new` is still the next number, although it was read when
the set file was parsed. `IInv` says so: for every entry to come
(`PlanUpToDate`) the releases are exactly 0 .. new - 1, which other steps keep
since no other entry or process builds that package (`OncePerPlan`, `OwnNames`);
the release being built is the last one and not done (`Target`).

`BuildImplementsReleases`, under the same hypotheses: the initial states map to the
initial state, and every step of `Build` is a step of `Releases` or a stutter. The
case split is over who is building what: `OneBuilder` (at most one run builds a
release), steps of an idle or waiting run change no status, `CreatePkgDirs` opens,
the three ways of ending close, drop or break. It also has the theorems about the
content of releases, on top of `IInv`: `OnlyAbandonedIsIncomplete` (with
`PatternsApart`), `LogsListFiles` (with `OnePattern`) and `BuiltIsReadBack`. They
need to know what a build has done so far, `WInv`: nothing is left of a release that
does not exist, what is in the release at each phase, and which patterns have been
moved. `FInv` adds where the files are between two moves, `LInv` that the logs are
one pattern behind and which lines each pattern has left and copied, `RInv` that the
release just built is the last one. `LogListsFiles` says what can be said of logs
that grep and sed have split: no log of a package lists a file that was moved away,
no file is in no log; and for recipes whose expressions take only the lines of moved
files (`CutsExactly`, `CopiesExactly`), that each log lists exactly the files.
`StoreInv` is all of it.

**BaseProofs.** `BaseInvariant`, `MarkedBaseIsReady` and `BaseIsProtected` for
every set of the base, every environment and job, and recipes added between any
two runs. `BaseReady` says nothing while base_ok is missing, and so does not
explain why the step that makes it is safe: `Installed` adds that installBase has
put in place what is not left to do, in the base or in the root it has taken
instead (`Placed`), `OkInv` that nothing relies on the marker before it is there and
that installBase never runs beside it. For the links, `LinkInv` (a link has a file
in the base) and `Protected`: files of a finished base are writable only while a run
that works on the base has not protected them again, so a step of a recipe in an
environment finds none. `EnvInvariant`, `BuildsOnBase` and `RecordsAreOwn` add
what base_linked stands for (`EInv`): a linked root has every file of the base
that its own set does not replace (`LinkedHasBase`), its records were removed
before the marker was made (`NoRecordsLeft`), and a run that skips the linking
has read the marker of this root (`LinkedKnown`). `OwnCopy` says where a package is
that has gone to a root instead of the base, which `BuildsOnBase` needs for that
root: it stays whole there, as long as no run puts the package in the base, from
where a link would replace it (`PlacedKept`).

**ScratchProofs.** `DirsInvariant`, `DirsAreFresh` and `DirsAreKept`. The
directory of a build is chosen when the set file is parsed: `Tasks` says that it
stays free, and the same for all entries of a program, until the build begins.
This is so although the numbers are counted up only when 00 exists, because 00 is
the first directory of a program to be made and the last one to go (`ZeroFirst`).

**InstallProofs.** `InstallInvAlways`, `RecordsAreWhole`, `CompleteIsInstalled`,
`NothingIsReworked` and `BuiltBeforeCopied`, without a hypothesis. A record says
nothing of the run that made it, so the invariant ties records, copies and world
together: a record is of the version in the root and of no newer release
(`RecordsFollow`), the world that was scanned at the start still knows every
record of a last release (`WorldKnows`), and all that the run has passed is
installed (`InstalledSoFar`).

**SourceProofs.** `FetchInvAlways`, `FetchedFiles`, `FetchedCommit` and
`FullIsKept`. `Accounted`: a file that is there is good, or some process is
filling it. `Alone`: a process that has met no other one has the directory for
itself, so that what it found missing is still missing when it creates it
(`Begun`, `Untouched`). `Clones`: one process at a time clones a repository, and
none is ready while it is not whole.

**CrunProofs.** `CrunInvAlways`, `AddressesAlwaysDiffer`, `LinksAreComplete`,
`RunsItsOwn` and `NothingIsLost`. Addresses are arithmetic about cnt.conf: the
number of a container is the number of changes down to one of its lines, and
between lines of different containers there is a change (`ChangesGrow`). `Own`:
a crun that met no other one is the only one that starts its container, so what
it wrote to `config` and `cmd`, Fprintf's reading of them, is there when
lxc-execute reads them; `RunsItsOwn` also says that this is just what was given for
a command line that is `Verbatim`; `Booting`:
one process at a time waits for `cmd` to be read. `Removal`: what is about to be
removed and has content was written after the crun began to remove, and between
listing and sweeping every such entry is fetched, late, or still on the list.
`LinkState`: while one process makes the links, those made and those left are
all, and none is both.

**ResolveProofs.** Of `Versions`: `VerTypeCorrect`, `LatestIsLatest`, `AnswerIsBuilt`
and `DiffShowsPrevious`, for every finite set of versions with fields of up to
`Width` digits. The order of versions is total: two of them differ at a first field,
or one ends first (`LessHasPlace`). So a finite set has a greatest one (`HasGreatest`,
by the well-founded order of its subsets), and only one (`GreatestIsOne`). A longer
field without a zero in front is the greater number because powers of ten grow
(`PowersGrow`); tlapm knows nothing of powers, so what a power is, is an assumption
(`PowersAssumption`), which TLC evaluates for the four digits of the instance.

Of `Deps`: `TypeCorrect`, `DInvAlways`, `SearchIsClosed`, `NeverListedTwice` and
`SearchFindsClosure` for every graph. `DInv` adds to the list what the stack
still owes: a listed package with an unlisted dependency has a running call,
and a call has listed the dependencies before the one it is at. For the
closure, a second invariant says that only reachable packages are listed.

**PermsProofs.** `PermsInvAlways`, `PassIsApplied`, `TwoPassesAreExact` and
`NothingIsLeftOut`, for every tree, every set of rules and every sequence of files,
directories and links that others put. What a step reads of the tree is only where
things are and of what type (`Alike`, `SameReads`), which a chown or chmod does not
change; what another process puts is in `touched` with both ends of the link it
makes or replaces, so every other path keeps its node (`NotPut`). With this
`PassedApplied` carries owner and mode of each path the pass has gone through, one
name per file (`Alone`), and `Looking` what stat said of the one it is at, which is
stale only in the setuid that a chown has cleared. For two passes the invariant
relates a pass to an earlier one: as long as nothing is put, the rules and the list
that a pass would read are those of the last (`SameLists`), so what one clean pass
has left, the next finds (`CleanPasses`): no owner is set again, so no setuid is
lost again. `NothingIsLeftOut` is about the lists. Sorting keeps every path
(`SortedKeeps`, by counting those before it). getRootDirs keeps the directories
it has and covers each path it looks at (`AddKeepsAndCovers`), by induction over
the paths, written as a search for a least counterexample; the same way the
recursive function of `RootDirs` is shown to exist (`AfterExists`). Of the binary
search only that what it reports is there is needed: if it misses a directory,
the directory is walked twice, and none is left out. What is in the model of the
loss in uniqueSlice, `Lost`, stays as an exception in the statement.

Only model-checked: that the search of `Deps` ends, which is liveness under
fairness.
The three findings are counterexamples and have no theorem.

## 6. What is not modelled

- `Build`: recipes of type `files`; version strings of which one continues
  another with a dash; the actions `shell` and `source`, which touch
  the store too; the files that steps write outside the release; of MoveShaInfo,
  that a kill may come between grep and sed, that a grep that finds nothing has
  already emptied the log, and what the shell makes of a pattern with a space.
- `Install`: installing into the build environment and `-C`; builds that finish
  while an installation runs; the content of files (two packages with one path).
- `Deps`: how the graph is read from the shared_libs logs.
- `Scratch`: cross builds, which use no container, and the shell of `xx shell`.
- `Base`: two processes at a time, `xx shell -i`, the Makefile's bootstrap files;
  recipes that change while a run is at work; a package of the base without any
  release, which ends the run; which older release is taken (`Versions`).
- `Source`: the alpine root a build unpacks and the choice of its packages; the
  release directory that a failing download removes (`xx/source.go:101`).
- `Versions`: the comparison of two releases once they are found, which only
  prints.
- `Perms`: how a line of a perms file is split into its fields.
- `Crun`: what Fprintf makes of a % at the end of a path or word together with what
  follows it in the text, and of names of programs with one (cnt.conf has none); the
  names that paths with spaces get; the text of the config, with the mounts that
  every container has; what the kernel does with mounts that are removed while a
  container runs.
- The text of recipes and flags: one pass of one process, nothing written.
- Network tools, reports, printing, shell scripts: I/O and formatting.
- Recipes, patches and configuration are data; the instances take their shapes.
