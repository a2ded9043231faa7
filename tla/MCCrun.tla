------------------------------- MODULE MCCrun -------------------------------
(* Instances of Crun: two programs of one container, with a program of        *)
(* another container in the line between theirs in one of the two files.      *)
EXTENDS Crun, TLC

ASSUME ConfsAssumption == NoBinTwice

CONSTANTS p1, p2

Cnts == {"mpv", "w3m"}
Bins == {"mpv", "youtube-dl", "w3m"}
Files == {"film", "x/out", "50%b"}
Words == {"-v", "http://a%20b"}
Urls == {"http://a%20b"}
Texts == Files \cup Words \cup {"http://a%!b(MISSING)", "50%!b(MISSING)"}
PrintedAs == [x \in Files \cup Words |->
  CASE x = "http://a%20b" -> "http://a%!b(MISSING)" [] x = "50%b" -> "50%!b(MISSING)" [] OTHER -> x]
Dests == {"here"}
Procs == {p1, p2}

Is(c, b) == [cnt |-> c, bin |-> b]
Can(c, s) == [cnt |-> c, caps |-> s]
CapLines == <<Can("mpv", {"dri"}), Can("w3m", {"net"}), Can("mpv", {"snd", "net"})>>
TwoConfs == {
  [bins |-> <<Is("mpv", "youtube-dl"), Is("mpv", "mpv"), Is("w3m", "w3m")>>, caps |-> CapLines],
  [bins |-> <<Is("mpv", "youtube-dl"), Is("w3m", "w3m"), Is("mpv", "mpv")>>, caps |-> CapLines]}

Run(b, a) == [bin |-> b, args |-> a]
Opt(o) == [opt |-> o]
File1(f) == [file |-> f]
Word1(w) == [word |-> w]
Lost == Run("w3m", <<File1("50%b")>>)
KeepShell == Run("mpv", <<Opt("shell"), Opt("no-config")>>)
Film == Run("mpv", <<File1("film")>>)
AllLines ==
  p1 :> {Film,
         Run("mpv", <<[get |-> "here"]>>)} @@
  p2 :> {Run("youtube-dl", <<[bind |-> "x/out"], Word1("http://a%20b"), Opt("all-dev")>>),
         KeepShell,
         Run("mpv", <<[get |-> "here"]>>),
         Run("w3m", <<Word1("-v")>>),
         Lost}

Names == {"film", "frames", "out"}
DirNames == {"frames"}
BaseMap == "film" :> "film" @@ "x/out" :> "out" @@ "50%b" :> "film"
DirMap == "film" :> "." @@ "x/out" :> "x" @@ "50%b" :> "."
WriteMap == "mpv" :> {"out", "frames"} @@ "w3m" :> {}

Fetcher(q) == line[q] \notin {Nothing, LinksLine} /\ Fetches(line[q]) # {}

(* crun --links and a container of another name touch no file of container    *)
(* "mpv": they are explored where that has no links and no results yet, and   *)
(* nobody fetches; w3m only beside a player.  With the second cnt.conf the    *)
(* processes run one after the other, also one whose path Fprintf loses.      *)
Apart ==
  /\ links # {} \/ (\E q \in Proc : at[q] \in Linking) =>
       /\ \A q \in Proc : at[q] \in {"idle"} \cup Linking
       /\ \A c \in Cnt : config[c] = Missing /\ cmd[c] = Missing /\ run[c] = Nothing
  /\ config["w3m"] # Missing => Entries("mpv") = {} /\ \A q \in Proc : ~Fetcher(q)
  /\ config["w3m"] # Missing /\ conf.bins[2].cnt = "mpv" =>
       config["mpv"] \in {Missing, Empty, ConfigText(conf, Film)} /\ cmd["mpv"] \in {Missing, Empty, CmdText(Film)}
  /\ conf.bins[2].cnt = "w3m" => Entries("mpv") = {} /\ \E q \in Proc : at[q] = "idle"
  /\ conf.bins[2].cnt = "mpv" => \A q \in Proc : line[q] # Lost

(* What one crun beside another may find in the work directory: a result of   *)
(* either kind, and one that is written meanwhile; an empty file at most when  *)
(* both start the container, and one result for a shell.  Beside a crun that  *)
(* starts it, p2 is the one that fetches; both fetch from a container that    *)
(* runs.                                                                      *)
Beside ==
  /\ Cardinality(UNION {late[q] : q \in Proc}) <= 1
  /\ Cardinality(Entries("mpv")) > 1 => \E q \in Proc : at[q] = "idle"
  /\ (\E q \in Proc : met[q]) =>
       /\ work["mpv"]["frames"] = "none" /\ work["mpv"]["out"] # "data"
       /\ \A q \in Proc : late[q] = {}
  /\ run["mpv"] # Nothing /\ run["mpv"].exec = Shell => work["mpv"]["frames"] = "none"
  /\ Fetcher(p1) => line[p2] = Nothing \/ Fetcher(p2)
  /\ Fetcher(p1) => cmd["mpv"] \in Cmds /\ run["mpv"] # Nothing
=============================================================================
