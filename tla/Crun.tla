-------------------------------- MODULE Crun --------------------------------
(* crun: starts a program in its container, fetches what containers left in   *)
(* their work directories, and makes the links in /cnt/bin.                   *)
(*                                                                            *)
(* Nothing is locked.  The crun processes of one container share its          *)
(* directories, its config and its cmd file, and lxc-execute reads these      *)
(* files after they have been written, in steps of its own.                   *)
EXTENDS CntConf

CONSTANTS
  Proc,     \* crun processes
  Confs,    \* what /etc/cnt.conf may say
  Lines,    \* Lines[q]: the command lines that process q may be called with
  Linkers,  \* the processes that may also be called as crun --links
  Name,     \* entries of a work directory
  Dirs,     \* those of them that are directories
  Base,     \* Base[f]: the entry that a file bound with +b is mounted on
  Dir,      \* Dir[f]: the directory of a file
  Writes    \* Writes[c]: the entries that programs in container c write

ASSUME CrunAssumption ==
  /\ Confs \subseteq Conf
  /\ Lines \in [Proc -> SUBSET CommandLine]
  /\ Linkers \subseteq Proc
  /\ Dirs \subseteq Name
  /\ Base \in [File -> Name]
  /\ DOMAIN Dir = File
  /\ Writes \in [Cnt -> SUBSET Name]
  /\ IsFiniteSet(Name) /\ IsFiniteSet(Bin)

(* No cnt.conf names a program twice: crun --links would fail on the second.  *)
NoBinTwice ==
  \A f \in Confs : \A i, j \in DOMAIN f.bins : f.bins[i].bin = f.bins[j].bin => i = j

VARIABLES
  conf,   \* what /etc/cnt.conf says
  bind,   \* bind[c]: the directories that are below /cnt/rootfs/<c>/bind
  config, \* config[c]: what /cnt/rootfs/<c>/config says
  cmd,    \* cmd[c]: what /cnt/rootfs/<c>/cmd says
  work,   \* work[c][f]: what entry f of /cnt/home/<c>/work_dir holds
  run,    \* run[c]: what runs in container c
  got,    \* got[q]: the entries that process q has copied to its destination
  links,  \* the links in /cnt/bin
  at,     \* at[q]: what process q is about to do
  line,   \* line[q]: its command line
  todo,   \* todo[q]: the entries or links that are left to handle
  met,    \* met[q]: history, another crun started the container of q beside q
  late,   \* late[q]: history, the entries written beside q since it began to remove
  torn    \* history: no crun --links has run since the last that was killed or had company

cntDir == <<bind, config, cmd>>
hist == <<met, got, late>>
proc == <<line, todo, hist>>
vars == <<conf, bind, config, cmd, work, run, links, at, line, todo, met, got, late, torn>>

DirsOf(S) == {Dir[f] : f \in S}

Missing == [missing |-> TRUE]
Empty == [empty |-> TRUE]
Nothing == [nothing |-> TRUE]
LinksLine == [links |-> TRUE]
Boot == [boot |-> TRUE]
Shell == [shell |-> TRUE]

\* the program that a container runs, with what lxc-execute took from config;
\* Boot: lxc-execute has made the mounts and has yet to run /cmd
Program == [exec : {Boot, Shell} \cup Cmds, config : LxcConfigs]

Shared == {"list", "check", "remove"}
Launching == {"clear", "config", "config fill", "cmd", "cmd fill", "mkdir", "lxc", "exec"}
Fetching == {"read", "copy", "sweep"}
Linking == {"unlink list", "unlink", "symlink"}

TypeOK ==
  /\ conf \in Confs
  /\ bind \in [Cnt -> SUBSET DirsOf(File)]
  /\ config \in [Cnt -> {Missing, Empty} \cup LxcConfigs]
  /\ cmd \in [Cnt -> {Missing, Empty} \cup Cmds]
  /\ work \in [Cnt -> [Name -> {"none", "empty", "data"}]]
  /\ run \in [Cnt -> {Nothing} \cup Program]
  /\ got \in [Proc -> SUBSET Name]
  /\ links \subseteq Bin
  /\ at \in [Proc -> {"idle"} \cup Shared \cup Launching \cup Fetching \cup Linking]
  /\ line \in [Proc -> {Nothing, LinksLine} \cup CommandLine]
  /\ todo \in [Proc -> Seq(Bin \cup Name)]
  /\ met \in [Proc -> BOOLEAN]
  /\ late \in [Proc -> SUBSET Name]
  /\ torn \in BOOLEAN

Init ==
  /\ conf \in Confs
  /\ bind = [c \in Cnt |-> {}]
  /\ config = [c \in Cnt |-> Missing]
  /\ cmd = [c \in Cnt |-> Missing]
  /\ work = [c \in Cnt |-> [f \in Name |-> "none"]]
  /\ run = [c \in Cnt |-> Nothing]
  /\ got = [q \in Proc |-> {}]
  /\ links = {}
  /\ at = [q \in Proc |-> "idle"]
  /\ line = [q \in Proc |-> Nothing]
  /\ todo = [q \in Proc |-> <<>>]
  /\ met = [q \in Proc |-> FALSE]
  /\ late = [q \in Proc |-> {}]
  /\ torn = TRUE
-----------------------------------------------------------------------------
Goto(q, phase) == at' = [at EXCEPT ![q] = phase]
Todo(q, s) == todo' = [todo EXCEPT ![q] = s]
End(q) ==
  /\ Goto(q, "idle")
  /\ line' = [line EXCEPT ![q] = Nothing]
  /\ Todo(q, <<>>)
  /\ met' = [met EXCEPT ![q] = FALSE]
  /\ got' = [got EXCEPT ![q] = {}]
  /\ late' = [late EXCEPT ![q] = {}]
Entries(c) == {f \in Name : work[c][f] # "none"}

\* os.ReadDir sorts by name; which of two names comes first is left open
Listings(S) ==
  {s \in [1 .. Cardinality(S) -> S] :
    /\ \A f \in S : \E i \in DOMAIN s : s[i] = f
    /\ \A i, j \in DOMAIN s : s[i] = s[j] => i = j}

LinkBins == {conf.bins[i].bin : i \in DOMAIN conf.bins}
LinkOrder == [i \in DOMAIN conf.bins |-> conf.bins[i].bin]
MyCnt(q) == CntOf(conf, line[q].bin)
Busy(q, c) == at[q] \notin {"idle"} \cup Linking /\ MyCnt(q) = c
Removes(q, c) == at[q] \in Shared \cup Fetching /\ MyCnt(q) = c
Launches(q, c) == Busy(q, c) /\ Fetches(line[q]) = {}

\* parseArgs and parseConf; without a container the process ends at once
Start(q) ==
  /\ at[q] = "idle"
  /\ \E l \in Lines[q] :
       LET c == CntOf(conf, l.bin)
           others == IF Fetches(l) # {} THEN {} ELSE {p \in Proc : Launches(p, c)}
       IN /\ c # NoCnt
          /\ line' = [line EXCEPT ![q] = l]
          /\ met' = [p \in Proc |-> IF p = q THEN others # {} ELSE met[p] \/ p \in others]
          /\ Goto(q, IF Fetches(l) # {} THEN "list" ELSE "clear")
  /\ UNCHANGED <<conf, cntDir, work, run, links, todo, got, late, torn>>

\* clearDir(bind)
ClearBind(q) ==
  /\ at[q] = "clear"
  /\ bind' = [bind EXCEPT ![MyCnt(q)] = {}]
  /\ Goto(q, "list")
  /\ UNCHANGED <<conf, config, cmd, work, run, links, proc, torn>>

\* mutant: a config that is there is kept
AfterClearKeep(q) ==
  IF Fetches(line[q]) # {} THEN "read" ELSE IF config[MyCnt(q)] = Missing THEN "config" ELSE "cmd"

(* clearWorkDir, called by makeLxcConfig and by getFiles: every entry that is *)
(* empty when it is looked at is removed, a directory only if it still is.    *)
AfterClear(q) ==
  IF Fetches(line[q]) # {} THEN "read" ELSE IF WritesConfig(line[q]) THEN "config" ELSE "cmd"

ListWork(q) ==
  /\ at[q] = "list"
  /\ \E s \in Listings(Entries(MyCnt(q))) : Todo(q, s)
  /\ Goto(q, "check")
  /\ UNCHANGED <<conf, cntDir, work, run, links, line, hist, torn>>

\* mutant: what an entry holds is not looked at
CheckEmptyNot(q) ==
  /\ at[q] = "check"
  /\ Goto(q, IF todo[q] = <<>> THEN AfterClear(q) ELSE "remove")
  /\ UNCHANGED <<conf, cntDir, work, run, links, proc, torn>>

CheckEmpty(q) ==
  /\ at[q] = "check"
  /\ \/ /\ todo[q] = <<>>
        /\ Goto(q, AfterClear(q))
        /\ UNCHANGED todo
     \/ /\ todo[q] # <<>>
        /\ Head(todo[q]) \in Entries(MyCnt(q))
        /\ IF work[MyCnt(q)][Head(todo[q])] = "empty"
           THEN Goto(q, "remove") /\ UNCHANGED todo
           ELSE Todo(q, Tail(todo[q])) /\ UNCHANGED at
  /\ UNCHANGED <<conf, cntDir, work, run, links, line, hist, torn>>

Without(c, S) == [work EXCEPT ![c] = [f \in Name |-> IF f \in S THEN "none" ELSE @[f]]]

RemoveEmpty(q) ==
  LET c == MyCnt(q)
      f == Head(todo[q])
  IN /\ at[q] = "remove"
     /\ f \in Entries(c)
     /\ f \in Dirs => work[c][f] = "empty"
     /\ work' = Without(c, {f})
     /\ Todo(q, Tail(todo[q]))
     /\ Goto(q, "check")
     /\ UNCHANGED <<conf, cntDir, run, links, line, hist, torn>>
-----------------------------------------------------------------------------
\* OpenFile with O_TRUNC, then one write
CreateFile(q) ==
  /\ \/ /\ at[q] = "config"
        /\ config' = [config EXCEPT ![MyCnt(q)] = Empty]
        /\ Goto(q, "config fill")
        /\ UNCHANGED cmd
     \/ /\ at[q] = "cmd"
        /\ cmd' = [cmd EXCEPT ![MyCnt(q)] = Empty]
        /\ Goto(q, "cmd fill")
        /\ UNCHANGED config
  /\ UNCHANGED <<conf, bind, work, run, links, proc, torn>>

WriteLxcConfig(q) ==
  /\ at[q] = "config fill"
  /\ config' = [config EXCEPT ![MyCnt(q)] = ConfigText(conf, line[q])]
  /\ Goto(q, "cmd")
  /\ UNCHANGED <<conf, bind, cmd, work, run, links, proc, torn>>

WriteCmd(q) ==
  /\ at[q] = "cmd fill"
  /\ cmd' = [cmd EXCEPT ![MyCnt(q)] = CmdText(line[q])]
  /\ Goto(q, "mkdir")
  /\ UNCHANGED <<conf, bind, config, work, run, links, proc, torn>>

CreateBindDirs(q) ==
  /\ at[q] = "mkdir"
  /\ bind' = [bind EXCEPT ![MyCnt(q)] = @ \cup DirsOf(BindTargets(line[q]))]
  /\ Goto(q, "lxc")
  /\ UNCHANGED <<conf, config, cmd, work, run, links, proc, torn>>

\* addBindWork: fp.Base
MountName(f) == Base[f]

(* lxc-execute reads the config and makes the mounts.  It gives up when the   *)
(* container is running already, when there is no config, when what is to be  *)
(* mounted is no path of the host, or when a directory of a mount is missing; *)
(* an entry to mount a file on is made empty.                                 *)
LxcExecute(q) ==
  LET c == MyCnt(q)
      made == {MountName(f) : f \in config[c].work} \ Entries(c)
  IN /\ at[q] = "lxc"
     /\ run[c] = Nothing
     /\ config[c] \notin {Missing, Empty}
     /\ config[c].mounts \cup config[c].work \subseteq File
     /\ DirsOf(config[c].mounts) \subseteq bind[c]
     /\ work' = [work EXCEPT ![c] =
          [f \in Name |-> IF f \in made THEN "empty" ELSE @[f]]]
     /\ run' = [run EXCEPT ![c] = [exec |-> IF Has(line[q], "shell") THEN Shell ELSE Boot, config |-> config[c]]]
     /\ IF Has(line[q], "shell") THEN End(q) ELSE Goto(q, "exec") /\ UNCHANGED proc
     /\ UNCHANGED <<conf, cntDir, links, torn>>

\* the container runs /cmd; crun only waits for its end
ExecCmd(q) ==
  LET c == MyCnt(q)
  IN /\ at[q] = "exec"
     /\ run' = [run EXCEPT ![c] = IF cmd[c] \in Cmds THEN [@ EXCEPT !.exec = cmd[c]] ELSE Nothing]
     /\ End(q)
     /\ UNCHANGED <<conf, cntDir, work, links, torn>>

\* a program creates a file or directory, and later writes to it
CntWrite(c) ==
  /\ run[c] # Nothing /\ run[c].exec # Boot
  /\ \E f \in Writes[c] \ {MountName(g) : g \in run[c].config.work} :
       /\ work[c][f] # "data"
       /\ work' = [work EXCEPT ![c][f] = IF @ = "none" THEN "empty" ELSE "data"]
       /\ late' = [q \in Proc |-> IF Removes(q, c) THEN late[q] \cup {f} ELSE late[q]]
  /\ UNCHANGED <<conf, cntDir, run, links, at, line, todo, met, got, torn>>

CntExit(c) ==
  /\ run[c] # Nothing /\ run[c].exec # Boot
  /\ run' = [run EXCEPT ![c] = Nothing]
  /\ UNCHANGED <<conf, cntDir, work, links, at, proc, torn>>
-----------------------------------------------------------------------------
\* getFiles
ReadWorkDir(q) ==
  /\ at[q] = "read"
  /\ \E s \in Listings(Entries(MyCnt(q))) : Todo(q, s)
  /\ Goto(q, "copy")
  /\ UNCHANGED <<conf, cntDir, work, run, links, line, hist, torn>>

\* cp; it fails when the entry is gone, and getFiles ends
CopyEntry(q) ==
  /\ at[q] = "copy"
  /\ todo[q] # <<>>
  /\ Head(todo[q]) \in Entries(MyCnt(q))
  /\ got' = [got EXCEPT ![q] = @ \cup {Head(todo[q])}]
  /\ Todo(q, Tail(todo[q]))
  /\ UNCHANGED <<conf, cntDir, work, run, links, at, line, met, late, torn>>

CopyDone(q) ==
  /\ at[q] = "copy"
  /\ todo[q] = <<>>
  /\ Goto(q, "sweep")
  /\ UNCHANGED <<conf, cntDir, work, run, links, proc, torn>>

\* clearDir of the whole work directory
SweepWorkDir(q) ==
  /\ at[q] = "sweep"
  /\ work' = Without(MyCnt(q), Name)
  /\ End(q)
  /\ UNCHANGED <<conf, cntDir, run, links, torn>>
-----------------------------------------------------------------------------
\* createLinks, and clearLinks first
StartLinks(q) ==
  /\ q \in Linkers
  /\ at[q] = "idle"
  /\ line' = [line EXCEPT ![q] = LinksLine]
  /\ Goto(q, "unlink list")
  /\ torn' = (\E p \in Proc : at[p] \in Linking)
  /\ UNCHANGED <<conf, cntDir, work, run, links, todo, hist>>

\* mutant: the old links stay
ListLinksNone(q) ==
  /\ at[q] = "unlink list"
  /\ Todo(q, <<>>)
  /\ Goto(q, "unlink")
  /\ UNCHANGED <<conf, cntDir, work, run, links, line, hist, torn>>

ListLinks(q) ==
  /\ at[q] = "unlink list"
  /\ \E s \in Listings(links) : Todo(q, s)
  /\ Goto(q, "unlink")
  /\ UNCHANGED <<conf, cntDir, work, run, links, line, hist, torn>>

\* a link that is gone, or there already, ends the process (LinkFails)
RemoveLink(q) ==
  /\ at[q] = "unlink"
  /\ \/ /\ todo[q] # <<>>
        /\ Head(todo[q]) \in links
        /\ links' = links \ {Head(todo[q])}
        /\ Todo(q, Tail(todo[q]))
        /\ UNCHANGED at
     \/ /\ todo[q] = <<>>
        /\ Todo(q, LinkOrder)
        /\ Goto(q, "symlink")
        /\ UNCHANGED links
  /\ UNCHANGED <<conf, cntDir, work, run, line, hist, torn>>

MakeLink(q) ==
  /\ at[q] = "symlink"
  /\ \/ /\ todo[q] # <<>>
        /\ Head(todo[q]) \notin links
        /\ links' = links \cup {Head(todo[q])}
        /\ Todo(q, Tail(todo[q]))
        /\ UNCHANGED <<at, line, hist>>
     \/ /\ todo[q] = <<>>
        /\ End(q)
        /\ UNCHANGED links
  /\ UNCHANGED <<conf, cntDir, work, run, torn>>

LinkFails(q) ==
  /\ todo[q] # <<>>
  /\ \/ at[q] = "unlink" /\ Head(todo[q]) \notin links
     \/ at[q] = "symlink" /\ Head(todo[q]) \in links
  /\ End(q)
  /\ UNCHANGED <<conf, cntDir, work, run, links, torn>>

\* the process fails, or is killed; in "lxc" it is lxc-execute that fails
Stop(q) ==
  /\ at[q] \notin {"idle", "exec"}
  /\ End(q)
  /\ torn' = (torn \/ at[q] \in Linking)
  /\ UNCHANGED <<conf, cntDir, work, run, links>>

Next ==
  \/ \E q \in Proc :
       \/ Start(q) \/ ClearBind(q) \/ ListWork(q) \/ CheckEmpty(q) \/ RemoveEmpty(q)
       \/ CreateFile(q) \/ WriteLxcConfig(q) \/ WriteCmd(q) \/ CreateBindDirs(q)
       \/ LxcExecute(q) \/ ExecCmd(q)
       \/ ReadWorkDir(q) \/ CopyEntry(q) \/ CopyDone(q) \/ SweepWorkDir(q)
       \/ StartLinks(q) \/ ListLinks(q) \/ RemoveLink(q) \/ MakeLink(q) \/ LinkFails(q)
       \/ Stop(q)
  \/ \E c \in Cnt : CntWrite(c) \/ CntExit(c)

Spec == Init /\ [][Next]_vars
-----------------------------------------------------------------------------
\* program now is the one of command line l, when crun wrote these two
RunsAs(now, l, conf_, cmd_) ==
  /\ WritesConfig(l) => now.config = conf_
  /\ now.exec = IF Has(l, "shell") THEN Shell ELSE cmd_

(* A container runs the command line it was started with, with the devices,   *)
(* the address and the mounts that belong to it, and never with what an       *)
(* earlier crun, or one that was killed half-way, has left in its files.  Only *)
(* a shell with +n takes over a config.  Both are what Fprintf writes of them, *)
(* and just what was given when no path or word has a % that it takes.  Two   *)
(* crun that start one container at a time are excepted: they do mix their    *)
(* files.                                                                     *)
OwnRun ==
  [][\A q \in Proc : run' # run /\ at[q] \in {"lxc", "exec"} /\ at'[q] = "idle" /\ ~met[q] =>
       LET now == run'[MyCnt(q)]
           l == line[q]
       IN /\ now # Nothing
          /\ RunsAs(now, l, ConfigText(conf, l), CmdText(l))
          /\ Verbatim(l) => RunsAs(now, l, LxcConfig(conf, l), CmdOf(l))]_vars

(* What disappears from a work directory has been fetched, or was empty, or   *)
(* was written while the crun that removed it was already at work ("+g: copy  *)
(* all files from container work dir").  Other crun may fetch, start the      *)
(* container, or be killed in between.                                        *)
NothingLost ==
  [][\A q \in Proc : at[q] \in {"remove", "check", "sweep"} /\ (at'[q] # at[q] \/ todo'[q] # todo[q]) =>
       LET c == MyCnt(q)
       IN \A f \in Name :
            work[c][f] = "data" /\ work'[c][f] = "none" => f \in late[q] \cup got[q]]_vars

(* Containers that run at the same time have different addresses, and none    *)
(* has that of the gateway, also when the lines of a container do not follow  *)
(* each other in cnt.conf.                                                    *)
AddressesDiffer ==
  \A c, d \in Cnt : run[c] # Nothing /\ run[d] # Nothing =>
    /\ run[c].config.addr \cap {0, 1} = {}
    /\ c # d => run[c].config.addr \cap run[d].config.addr = {}

(* When crun --links has ended, /cnt/bin has a link for every program of      *)
(* cnt.conf, whatever links an earlier one left that was killed half-way.     *)
(* Excepted are those that run beside another: they fail each other, and      *)
(* three of them can end with most links gone.                                *)
LinksComplete ==
  (\A q \in Proc : at[q] \notin Linking) /\ ~torn => links = LinkBins
-----------------------------------------------------------------------------
(* The invariant behind the properties above. *)
Rest(q) == {todo[q][n] : n \in DOMAIN todo[q]}
Distinct(q) == \A m, n \in DOMAIN todo[q] : todo[q][m] = todo[q][n] => m = n
Working(q) == at[q] \in Shared \cup Launching \cup Fetching

AtHand ==
  \A q \in Proc :
    /\ at[q] = "idle" => got[q] = {} /\ late[q] = {}
    /\ Working(q) => line[q] \in CommandLine /\ MyCnt(q) \in Cnt
    /\ at[q] \in Launching => Fetches(line[q]) = {}
    /\ at[q] \in Fetching => Fetches(line[q]) # {}
    /\ at[q] \in {"config", "config fill"} => WritesConfig(line[q])
    /\ at[q] = "remove" => todo[q] # <<>>
    /\ at[q] = "exec" => ~Has(line[q], "shell")
    /\ at[q] = "symlink" => Rest(q) \subseteq LinkBins

\* the addresses that a container may get, one for each of its places in cnt.conf
Addresses(c) == {Octet(conf, b) : b \in {k \in Bin : CntOf(conf, k) = c}}

Addressed ==
  \A c \in Cnt :
    /\ config[c] \notin {Missing, Empty} => config[c].addr \subseteq Addresses(c)
    /\ run[c] # Nothing => run[c].config.addr \subseteq Addresses(c)

\* one crun at a time waits for /cmd to be run in a container
Booting ==
  \A q \in Proc : at[q] = "exec" =>
    /\ run[MyCnt(q)] # Nothing /\ run[MyCnt(q)].exec = Boot
    /\ \A p \in Proc : at[p] = "exec" /\ MyCnt(p) = MyCnt(q) => p = q

\* a crun that met no other one finds in the container what it has put there
Own ==
  \A q \in Proc : \A c \in Cnt : Launches(q, c) /\ ~met[q] =>
    /\ \A p \in Proc : Launches(p, c) => p = q
    /\ at[q] \in {"cmd", "cmd fill", "mkdir", "lxc"} /\ WritesConfig(line[q]) =>
         config[c] = ConfigText(conf, line[q])
    /\ at[q] \in {"mkdir", "lxc", "exec"} => cmd[c] = CmdText(line[q])
    /\ at[q] = "exec" => run[c].config = ConfigText(conf, line[q])

\* what is about to be removed is not what was there before
Removal ==
  \A q \in Proc : \A f \in Name : Working(q) /\ work[MyCnt(q)][f] = "data" =>
    /\ at[q] = "remove" /\ f = Head(todo[q]) => f \in late[q]
    /\ at[q] \in {"copy", "sweep"} =>
         f \in late[q] \cup got[q] \/ (at[q] = "copy" /\ f \in Rest(q))

LinkState ==
  ~torn =>
    /\ \A p, q \in Proc : at[p] \in Linking /\ at[q] \in Linking => p = q
    /\ LinksComplete
    /\ \A q \in Proc :
         /\ at[q] = "unlink" => Rest(q) = links /\ Distinct(q)
         /\ at[q] = "symlink" =>
              Rest(q) \cup links = LinkBins /\ Rest(q) \cap links = {} /\ Distinct(q)

(* What the crun processes, the containers and the links are at between two   *)
(* steps, whoever else is at work and whoever was killed.                     *)
CrunInv == TypeOK /\ AtHand /\ Addressed /\ Booting /\ Own /\ Removal /\ LinkState
=============================================================================
