------------------------------- MODULE CntConf -------------------------------
(* What crun takes from its command line and from /etc/cnt.conf: the           *)
(* container of a program, what the container may use, and its address.       *)
EXTENDS Integers, Sequences, FiniteSets

CONSTANTS
  Cnt,    \* containers
  Bin,    \* programs
  File,   \* paths of the host
  Dest,   \* directories that results are fetched to
  Word,   \* arguments that are no path of the host
  Url,    \* those of them that shouldHaveNet knows
  Text,   \* what a file may say where a path or a word was to be written
  Printed,\* Printed[x]: what fmt.Fprintf writes of path or word x in its format
  NoCnt   \* the empty container name

ASSUME CntConfAssumption ==
  /\ NoCnt \notin Cnt
  /\ Url \subseteq Word
  /\ File \cup Word \subseteq Text
  /\ Printed \in [File \cup Word -> Text]

Capability == {"dri", "snd", "net"}
Devices == Capability \ {"net"}

(* cnt.conf: the lines of its two sections; several lines may be for one      *)
(* container.  A command line: the program, and arguments of five kinds.      *)
BinLine == [cnt : Cnt, bin : Bin]
CapLine == [cnt : Cnt, caps : SUBSET Capability]
Conf == [bins : Seq(BinLine), caps : Seq(CapLine)]

Arg == [opt : {"all-dev", "shell", "no-config"}] \cup [bind : File] \cup [get : Dest]
         \cup [file : File] \cup [word : Word]
CommandLine == [bin : Bin, args : Seq(Arg)]
-----------------------------------------------------------------------------
(* parseConf.  The number counts the changes of the container from one line   *)
(* to the next, down to the line of the program; the first line is a change.  *)
LineOf(conf, b) ==
  CHOOSE i \in DOMAIN conf.bins :
    /\ conf.bins[i].bin = b
    /\ \A j \in 1 .. i - 1 : conf.bins[j].bin # b

\* mutant: the number of programs that are not the first of their container
ChangesInside(conf, n) ==
  {i \in 1 .. n : i > 1 /\ conf.bins[i].cnt = conf.bins[i - 1].cnt}

Changes(conf, n) ==
  {i \in 1 .. n : i = 1 \/ conf.bins[i].cnt # conf.bins[i - 1].cnt}

Known(conf, b) == \E i \in DOMAIN conf.bins : conf.bins[i].bin = b
CntOf(conf, b) == IF Known(conf, b) THEN conf.bins[LineOf(conf, b)].cnt ELSE NoCnt

Octet(conf, b) ==
  1 + Cardinality(Changes(conf, IF Known(conf, b) THEN LineOf(conf, b) ELSE Len(conf.bins)))

\* parseConfCnt: the lines of a container add up, the break leaves the switch only
CapsOf(conf, c) ==
  UNION {conf.caps[i].caps : i \in {j \in DOMAIN conf.caps : conf.caps[j].cnt = c}}
-----------------------------------------------------------------------------
(* parseArgs: arguments with a plus are for crun up to the first without.     *)
IsOption(a) == DOMAIN a \cap {"opt", "bind", "get"} # {}
Options(l) == {l.args[i] : i \in {j \in DOMAIN l.args : \A k \in 1 .. j : IsOption(l.args[k])}}
Arguments(l) ==
  {l.args[i] : i \in {j \in DOMAIN l.args : \E k \in 1 .. j : ~IsOption(l.args[k])}}

Has(l, o) == [opt |-> o] \in Options(l)
BindTargets(l) == {f \in File : [file |-> f] \in Arguments(l)}
BindWork(l) == {f \in File : [bind |-> f] \in Options(l)}
Fetches(l) == {d \in Dest : [get |-> d] \in Options(l)}
ShouldHaveNet(l) == \E u \in Url : [word |-> u] \in Arguments(l)

\* a configuration is kept only for a shell
WritesConfig(l) == ~(Has(l, "shell") /\ Has(l, "no-config"))

\* makeLxcConfig, as far as the properties tell configurations apart
LxcConfig(conf, l) ==
  LET all == Has(l, "all-dev")
      caps == CapsOf(conf, CntOf(conf, l.bin))
  IN [dev    |-> IF all THEN Devices ELSE caps \ {"net"},
      addr   |-> IF all \/ "net" \in caps \/ ShouldHaveNet(l) THEN {Octet(conf, l.bin)} ELSE {},
      mounts |-> BindTargets(l),
      work   |-> BindWork(l)]

LxcConfigs == [dev : SUBSET Devices, addr : SUBSET Nat, mounts : SUBSET Text, work : SUBSET Text]

\* writeCmd: the paths of the host are those below /bind
CmdOf(l) == [bin |-> l.bin, paths |-> BindTargets(l), words |-> {w \in Word : [word |-> w] \in Arguments(l)}]
Cmds == [bin : Bin, paths : SUBSET Text, words : SUBSET Text]
-----------------------------------------------------------------------------
(* Both files are written with the text as the format of Fprintf, and no      *)
(* values: a % with what follows it becomes something else, such as           *)
(* %!b(MISSING), or a single % where there are two.                           *)
Fprintf(S) == {Printed[x] : x \in S}
ConfigText(conf, l) == [LxcConfig(conf, l) EXCEPT !.mounts = Fprintf(@), !.work = Fprintf(@)]
CmdText(l) == [CmdOf(l) EXCEPT !.paths = Fprintf(@), !.words = Fprintf(@)]

\* nothing in the command line has a % that Fprintf takes for its own
Verbatim(l) == \A x \in BindTargets(l) \cup BindWork(l) \cup CmdOf(l).words : Printed[x] = x
=============================================================================
