------------------------------- MODULE Perms --------------------------------
(* The modes and owners of a system: `xx install`, at its end, and            *)
(* `xx install --Perms`.                                                      *)
(*                                                                            *)
(* A pass reads the rules of /etc/perms and /etc/perms.d, lists the paths     *)
(* they are about, and then sets owner and mode of one path after the other,  *)
(* while other processes put files in the same tree.                          *)
EXTENDS Integers, FiniteSets, SequencesExt

CONSTANTS
  StringOrder, \* all paths there may be, and <<".">>, in the order of strings;
               \* a path is a sequence of names, <<>> is "/"
  Volatile,    \* /proc, /sys, /dev and /run, where walks find nothing
  Systems,     \* root directories with the lines of their perms files, one file after the other
  Users,       \* the names in /etc/passwd of the system
  Groups,      \* the names in its /etc/group
  Me,          \* the owner of what the user owns who is not root
  Start0,      \* the tree at first
  Deploys,     \* what other processes may put: pairs of a path and a node
  MaxDeploy    \* bound: how often they do

Dot == <<".">>
Path == ToSet(StringOrder) \ {Dot}

\* lines of perms files, and what may be at a path
Modes == [bits : STRING, setid : BOOLEAN]
Kinds == {"f", "d", "owner"}
\* an owner is a user with a group
Root == "root"
Owners == (Users \cup {Root}) \X (Groups \cup {Root})
Files == [type : {"file", "dir", "other"}, owner : Owners \cup {Me}, mode : Modes]
Links == [type : {"link"}, to : Path]
IsCnt(p, top) == p # <<>> /\ Front(p) = top \o <<"cnt", "rootfs">> /\ Last(p) # "common"

ASSUME PathAssumption ==
  /\ StringOrder \in Seq(Seq(STRING)) /\ IsInjective(StringOrder)
  /\ Dot \in ToSet(StringOrder)
  /\ \A p \in Path : \A n \in 0 .. Len(p) : SubSeq(p, 1, n) \in Path
  /\ MaxDeploy \in Nat

ASSUME SystemsAssumption ==
  \A s \in Systems :
    /\ s.root \in Path
    /\ \A i \in DOMAIN s.lines : LET l == s.lines[i] IN
         /\ l.kind \in Kinds \cup {"bad"} /\ l.rec \in BOOLEAN
         /\ l.kind \in {"f", "d"} => l.val \in Modes
         /\ l.kind = "owner" => l.val \in STRING \X STRING
         /\ IF l.cnt THEN \A p \in Path : IsCnt(p, s.root) => p \o l.path \in Path
            ELSE s.root \o l.path \in Path

\* a link is given by where it ends, so none leads to another
Contents == {<<p, Start0[p]>> : p \in DOMAIN Start0} \cup Deploys
ASSUME TreeAssumption ==
  /\ Contents \subseteq Path \X (Files \cup Links)
  /\ \A x, y \in Contents : x[2].type = "link" /\ x[2].to = y[1] => y[2].type # "link"
  /\ \A p \in DOMAIN Start0 : \A n \in 0 .. Len(p) - 1 :
       SubSeq(p, 1, n) \in DOMAIN Start0 /\ Start0[SubSeq(p, 1, n)].type = "dir"

VARIABLES
  fs,       \* fs[p]: the file, directory or link at p; its domain is what exists
  root,     \* the root directory of the system
  lines,    \* the lines of its perms files
  asRoot,   \* the user is root
  at,       \* what the pass is about to do
  table,    \* the maps perms and owners: table[<<kind, path, recursive>>]
  list,     \* the paths the pass goes through
  todo,     \* those that are left
  info,     \* what stat has said about the first of them
  touched,  \* history: paths put since the pass began, and where links lead that were put or replaced
  cleared,  \* history: files that lost setuid to a chown of this pass
  clean,    \* history: passes completed since the last Deploy, up to 2
  deployed  \* history: number of Deploys

pass == <<at, table, list, todo, info, touched, cleared, clean>>
system == <<root, lines, asRoot>>
vars == <<fs, system, pass, deployed>>

RootOwner == <<Root, Root>>
ZeroMode == [bits |-> "0000", setid |-> FALSE]

Init ==
  /\ fs = Start0
  /\ \E s \in Systems : root = s.root /\ lines = s.lines
  /\ asRoot \in BOOLEAN
  /\ at = "idle"
  /\ table = <<>>
  /\ list = {} /\ todo = {}
  /\ info = <<>>
  /\ touched = {} /\ cleared = {}
  /\ clean = 0 /\ deployed = 0
-----------------------------------------------------------------------------
\* os.Stat follows links
Node(p) == IF fs[p].type = "link" THEN fs[p].to ELSE p
StatOK(p) == p \in DOMAIN fs /\ Node(p) \in DOMAIN fs
Stat(p) == fs[Node(p)]

Rank == [p \in ToSet(StringOrder) |-> CHOOSE i \in DOMAIN StringOrder : StringOrder[i] = p]
Before(p, q) == Rank[p] < Rank[q]

\* sort.Strings
Sorted(S) ==
  [i \in 1 .. Cardinality(S) |-> CHOOSE p \in S : Cardinality({q \in S : Before(q, p)}) = i - 1]

\* filepath.Dir
Dir(p) == IF p = <<>> \/ p = Dot THEN p ELSE Front(p)
Upward(top, p) == {SubSeq(p, 1, i) : i \in Len(top) + 1 .. Len(p)}

\* getCntList
CntDirs == {p \in DOMAIN fs : IsCnt(p, root) /\ fs[p].type = "dir"}

(* parsePermLine: a line for containers stands for a line for each of them;   *)
(* two lines about the same path, and lines that cannot be read, end the run. *)
Keys(l) ==
  {<<l.kind, base \o l.path, l.rec>> :
     base \in IF l.cnt THEN CntDirs ELSE {root}}
Incorrect ==
  \/ \E i \in DOMAIN lines : lines[i].kind = "bad"
  \/ \E i, j \in DOMAIN lines : i # j /\ Keys(lines[i]) \cap Keys(lines[j]) # {}
AllKeys == UNION {Keys(lines[i]) : i \in DOMAIN lines}
Rule(k) == lines[CHOOSE i \in DOMAIN lines : k \in Keys(lines[i])].val
Rules == [k \in AllKeys |-> Rule(k)]

\* getPermOwner
ReadPerms ==
  /\ at = "idle"
  /\ IF Incorrect THEN UNCHANGED <<at, table>>
     ELSE at' = "list" /\ table' = Rules
  /\ UNCHANGED <<fs, system, list, todo, info, touched, cleared, clean, deployed>>
-----------------------------------------------------------------------------
(* A list is given by the set of its paths and the set of those it holds more *)
(* than once; it is sorted.  uniqueSlice keeps the last of equal neighbours,  *)
(* but nothing of a path that comes last and more than once, and fails on a   *)
(* list of one.                                                               *)
Lost(all, more) == {p \in more : \A q \in all : ~Before(p, q)}
UniqueSlice(all, more) == all \ Lost(all, more)
Panics(all, more) == more = {} /\ \E p \in all : all = {p}

(* getFixedPaths.  The path of a mode is what follows the type and the colon; *)
(* an owner has no colon, and is listed as ".".                               *)
Listed(k) == IF k[1] = "owner" THEN Dot ELSE k[2]
ListOf(K) == {Listed(k) : k \in K}
MoreOf(K) == {p \in ListOf(K) : \E j, k \in K : j # k /\ Listed(j) = p /\ Listed(k) = p}
Recursive(t) == {k \in DOMAIN t : k[3]}
Fixed(t) == DOMAIN t \ Recursive(t)
RecPaths(t) == Sorted(UniqueSlice(ListOf(Recursive(t)), MoreOf(Recursive(t))))
FixedPaths(t) == UniqueSlice(ListOf(Fixed(t)), MoreOf(Fixed(t)))

\* sort.SearchStrings, a binary search; stringExists
SearchStrings(slice, s) ==
  LET Search[i \in 0 .. Len(slice), j \in 0 .. Len(slice)] ==
        IF i >= j THEN i
        ELSE LET h == (i + j) \div 2
             IN IF Before(slice[h + 1], s) THEN Search[h + 1, j] ELSE Search[i, h]
  IN Search[0, Len(slice)]
StringExists(s, slice) ==
  LET idx == SearchStrings(slice, s)
  IN idx + 1 \in DOMAIN slice /\ slice[idx + 1] = s

\* the nearest directory above that is in the list, or the root
Above(top, dir, recPaths) ==
  LET Ends(n) == n = 0 \/ SubSeq(dir, 1, n) = top \/ StringExists(SubSeq(dir, 1, n), recPaths)
      above == {n \in 0 .. Len(dir) : (n < Len(dir) \/ n = 0) /\ Ends(n)}
  IN IF dir = Dot THEN Dot
     ELSE SubSeq(dir, 1, CHOOSE n \in above : \A m \in above : m <= n)

\* mutant: a path is taken only if there is another above it
AddRootDirNested(top, rootDirs, dir, recPaths) ==
  LET d == Above(top, dir, recPaths)
  IN IF d \notin {top, Dot} /\ ~StringExists(d, rootDirs) THEN Append(rootDirs, d) ELSE rootDirs

\* getRootDirs
AddRootDir(top, rootDirs, dir, recPaths) ==
  LET d == Above(top, dir, recPaths)
      pathExists == \E x \in {d, Dir(d), dir} : StringExists(x, rootDirs)
  IN IF d = Dot \/ dir = Dot \/ pathExists THEN rootDirs
     ELSE Append(rootDirs, IF d = top THEN dir ELSE d)
RootDirs(top, recPaths) ==
  LET After[n \in 0 .. Len(recPaths)] ==
        IF n = 0 THEN <<>> ELSE AddRootDir(top, After[n - 1], recPaths[n], recPaths)
  IN After[Len(recPaths)]

\* walkDir(dir, "all")
Walk(dir) ==
  {p \in DOMAIN fs : /\ IsPrefix(dir, p) /\ StatOK(dir) /\ StatOK(p)
                     /\ ~\E v \in Volatile : IsStrictPrefix(v, p)
                     /\ Stat(p).type \in {"file", "dir"}}

\* what has been walked, one directory after the other, with the fixed paths
Visited(rootDirs, fixed) ==
  LET walked == [i \in DOMAIN rootDirs |-> Walk(rootDirs[i])]
      Others(i) == fixed \cup UNION {walked[j] : j \in DOMAIN walked \ {i}}
  IN [all |-> fixed \cup UNION {walked[i] : i \in DOMAIN walked},
      more |-> UNION {walked[i] \cap Others(i) : i \in DOMAIN walked}]
Listing(t) == Visited(RootDirs(root, RecPaths(t)), FixedPaths(t))
OneOfEach(l) == UniqueSlice(l.all, l.more)
PathsOf(t) == OneOfEach(Listing(t))

(* The lists of setSysPerm.  A list of one ends the run (Stop); above a root  *)
(* that is not "/", the search for the root never ends.                       *)
ListPaths ==
  /\ at = "list"
  /\ \A K \in {Recursive(table), Fixed(table)} : ~Panics(ListOf(K), MoreOf(K))
  /\ IF root # <<>> /\ root \in ToSet(RecPaths(table))
     THEN at' = "endless" /\ UNCHANGED <<list, todo>>
     ELSE /\ ~Panics(Listing(table).all, Listing(table).more)
          /\ at' = "path" /\ list' = PathsOf(table) /\ todo' = PathsOf(table)
  /\ UNCHANGED <<fs, system, table, info, touched, cleared, clean, deployed>>
-----------------------------------------------------------------------------
\* the paths are gone through in order
First == CHOOSE p \in todo : \A q \in todo : ~Before(q, p)

(* ugIdLookup: a name that the file does not have is 0, which is root, and    *)
(* the run goes on, because the error it exits with is nil.                   *)
UgIdLookup(name, names) == IF name \in names THEN name ELSE Root

(* getMode, getOwner: what is said of the path itself, else of the nearest    *)
(* directory above with a rule for all that is below; never of the root.      *)
Says(top, t, kind, p, default) ==
  LET recs == {q \in Upward(top, p) : <<kind, q, TRUE>> \in DOMAIN t}
  IN IF <<kind, p, FALSE>> \in DOMAIN t THEN t[<<kind, p, FALSE>>]
     ELSE IF recs = {} THEN default
     ELSE t[<<kind, CHOOSE q \in recs : \A r \in recs : Len(r) <= Len(q), TRUE>>]
Type(p) == IF Stat(p).type = "dir" THEN "d" ELSE "f"
ModeOf(t, p) == Says(root, t, Type(p), p, ZeroMode)
OwnerOf(t, p) ==
  LET o == Says(root, t, "owner", p, RootOwner)
  IN <<UgIdLookup(o[1], Users), UgIdLookup(o[2], Groups)>>
GetMode(p) == ModeOf(table, p)
GetOwner(p) == OwnerOf(table, p)

NextPath == todo' = todo \ {First} /\ at' = "path"

StatPath ==
  /\ at = "path" /\ todo # {}
  /\ IF ~StatOK(First) \/ First \in {root, Dot}
     THEN NextPath /\ UNCHANGED info
     ELSE at' = (IF asRoot THEN "chown" ELSE "chmod") /\ info' = Stat(First) /\ UNCHANGED todo
  /\ UNCHANGED <<fs, system, table, list, touched, cleared, clean, deployed>>

\* mutant: the mode first
ChownLast ==
  /\ at = "chown" /\ StatOK(First)
  /\ LET p == Node(First)
         node == [fs[p] EXCEPT !.mode = IF GetMode(First) = ZeroMode THEN @ ELSE GetMode(First)]
     IN fs' = [fs EXCEPT ![p] = [node EXCEPT !.owner = GetOwner(First),
                                 !.mode.setid = @ /\ fs[p].owner = GetOwner(First)]]
  /\ NextPath
  /\ UNCHANGED <<system, table, list, info, touched, cleared, clean, deployed>>

\* mutant: a path with the right owner is left alone
ChownOnly ==
  /\ at = "chown"
  /\ LET p == Node(First)
     IN IF info.owner = GetOwner(First) THEN NextPath /\ UNCHANGED <<fs, cleared>>
        ELSE /\ StatOK(First)
             /\ fs' = [fs EXCEPT ![p] = [@ EXCEPT !.owner = GetOwner(First),
                                                  !.mode.setid = @ /\ fs[p].type # "file"]]
             /\ cleared' = IF fs[p].mode.setid THEN cleared \cup {p} ELSE cleared
             /\ at' = "chmod" /\ UNCHANGED todo
  /\ UNCHANGED <<system, table, list, info, touched, clean, deployed>>

\* mutant: an owner that is not known is left as it is
ChownUnknown ==
  /\ at = "chown" /\ StatOK(First)
  /\ LET rule == Says(root, table, "owner", First, RootOwner)
     IN fs' = [fs EXCEPT ![Node(First)] =
                 [@ EXCEPT !.owner = IF rule = GetOwner(First) THEN rule ELSE @]]
  /\ at' = "chmod"
  /\ UNCHANGED <<system, table, list, todo, info, touched, cleared, clean, deployed>>

(* os.Chown takes setuid and setgid from a file.  A path that leads nowhere   *)
(* any more ends the run (Stop).                                              *)
Chown ==
  /\ at = "chown"
  /\ LET p == Node(First)
         drops == fs[p].type = "file" /\ fs[p].mode.setid
         file == [fs[p] EXCEPT !.owner = GetOwner(First), !.mode.setid = @ /\ ~drops]
     IN IF info.owner = GetOwner(First) THEN UNCHANGED <<fs, cleared>>
        ELSE /\ StatOK(First)
             /\ fs' = [fs EXCEPT ![p] = file]
             /\ cleared' = IF drops THEN cleared \cup {p} ELSE cleared
  /\ at' = "chmod"
  /\ UNCHANGED <<system, table, list, todo, info, touched, clean, deployed>>

\* compares with what stat said before the chown; only the owner and root may;
\* getMode follows the path again
Chmod ==
  /\ at = "chmod" /\ StatOK(First)
  /\ LET p == Node(First)
         mode == GetMode(First)
     IN IF mode = ZeroMode \/ (mode = info.mode /\ info.type # "dir") THEN UNCHANGED fs
        ELSE /\ asRoot \/ fs[p].owner = Me
             /\ fs' = [fs EXCEPT ![p] = [@ EXCEPT !.mode = mode]]
  /\ NextPath
  /\ UNCHANGED <<system, table, list, info, touched, cleared, clean, deployed>>

\* the process ends; all but the tree is gone
Ended ==
  /\ at' = "idle"
  /\ table' = <<>> /\ list' = {} /\ todo' = {} /\ info' = <<>>
  /\ touched' = {} /\ cleared' = {}

Complete ==
  /\ at = "path" /\ todo = {}
  /\ Ended
  /\ clean' = IF touched = {} /\ clean < 2 THEN clean + 1 ELSE clean
  /\ UNCHANGED <<fs, system, deployed>>

\* the run fails or is killed
Stop ==
  /\ at # "idle"
  /\ Ended
  /\ UNCHANGED <<fs, system, clean, deployed>>

\* another process puts a file, link or directory, or puts it anew
End(node) == IF node.type = "link" THEN {node.to} ELSE {}
Deploy ==
  /\ deployed < MaxDeploy
  /\ \E d \in Deploys :
       /\ Dir(d[1]) \in DOMAIN fs /\ fs[Dir(d[1])].type = "dir"
       /\ d[1] \in DOMAIN fs /\ fs[d[1]].type = "dir" => d[2].type = "dir"
       /\ fs' = [p \in DOMAIN fs \cup {d[1]} |-> IF p = d[1] THEN d[2] ELSE fs[p]]
       /\ LET ends == End(d[2]) \cup IF d[1] \in DOMAIN fs THEN End(fs[d[1]]) ELSE {}
          IN touched' = IF at = "idle" THEN {} ELSE touched \cup {d[1]} \cup ends
       /\ cleared' = cleared \ {d[1]}
  /\ deployed' = deployed + 1 /\ clean' = 0
  /\ UNCHANGED <<system, at, table, list, todo, info>>

Next ==
  \/ ReadPerms \/ ListPaths \/ StatPath \/ Chown \/ Chmod \/ Complete
  \/ Stop \/ Deploy

Spec == Init /\ [][Next]_vars
-----------------------------------------------------------------------------
\* what is at p was put there, and its directory with it
Placed(p) ==
  /\ p \in Path
  /\ \E x \in Contents : x[1] = p /\ fs[p].type = x[2].type /\ (fs[p].type = "link" => fs[p] = x[2])
  /\ fs[p] \in Files \cup Links
  /\ \A n \in 0 .. Len(p) - 1 : SubSeq(p, 1, n) \in DOMAIN fs /\ fs[SubSeq(p, 1, n)].type = "dir"
TypeOK ==
  /\ \A p \in DOMAIN fs : Placed(p)
  /\ \E s \in Systems : root = s.root /\ lines = s.lines
  /\ asRoot \in BOOLEAN
  /\ at \in {"idle", "list", "path", "chown", "chmod", "endless"}
  /\ \A k \in DOMAIN table : k \in Kinds \X Path \X BOOLEAN /\ (k[1] # "owner" => table[k] \in Modes)
  /\ list \subseteq Path \cup {Dot} /\ todo \subseteq list
  /\ touched \subseteq Path /\ cleared \subseteq Path
  /\ clean \in 0 .. 2 /\ deployed \in 0 .. MaxDeploy

(* Every file and directory that a rule gives a mode is in the list, also     *)
(* below directories named in several rules, except that uniqueSlice may have *)
(* lost it: as the last of the list, or as, or below, the last path that the  *)
(* rules name.                                                                *)
LostBy(K, p) == \E q \in Lost(ListOf(K), MoreOf(K)) : IsPrefix(q, p)
ListComplete ==
  at = "path" /\ todo = list =>
    \A p \in DOMAIN fs :
      /\ p \notin touched /\ Node(p) \notin touched
      /\ StatOK(p) /\ Stat(p).type \in {"file", "dir"} /\ GetMode(p) # ZeroMode
      /\ ~\E v \in Volatile : IsStrictPrefix(v, p)
      => \/ p \in list \/ p = root
         \/ \A q \in list : Before(q, p)
         \/ LostBy(Recursive(table), p) \/ p \in Lost(ListOf(Fixed(table)), MoreOf(Fixed(table)))

\* the paths of the list that are reached by no other name
AloneIn(S) ==
  {p \in S \ {root, Dot} : StatOK(p) /\ \A q \in S \ {p} : StatOK(q) => Node(q) # Node(p)}
Alone == AloneIn(list)
ModeSet(p) == GetMode(p) # ZeroMode => Stat(p).mode = GetMode(p)
OwnerSet(p) == asRoot => Stat(p).owner = GetOwner(p)
Applied(p) ==
  /\ OwnerSet(p)
  /\ ModeSet(p) \/ (Node(p) \in cleared /\ Stat(p).mode.bits = GetMode(p).bits)

(* When a pass is complete, every path of the list that is not written by     *)
(* others has the mode and the user and the group that the rules say, or root *)
(* for a user or group that passwd or group does not know; except that a file *)
(* that had the mode may have lost setuid in this pass, because the mode is   *)
(* compared with what stat said before the chown.                             *)
PassApplied ==
  at = "path" /\ todo = {} =>
    \A p \in Alone : Node(p) \notin touched => Applied(p)

(* After two complete passes with no file put since, owners and modes are     *)
(* exact, setuid included, but for root in place of users and groups that are *)
(* not known, and a later pass, killed or not, keeps them so.                 *)
TwicePassed ==
  clean = 2 /\ at \in {"path", "chown", "chmod"} => \A p \in Alone : OwnerSet(p) /\ ModeSet(p)

-----------------------------------------------------------------------------
(* Why they hold.  What a pass has applied to the paths it has gone through:  *)
(* nobody else's steps alter it, and those of the pass only at other nodes.   *)
Passing == at \in {"path", "chown", "chmod"}
PassedApplied ==
  Passing => \A p \in Alone \ todo : Node(p) \notin touched => Applied(p)

\* what the pass knows of the path it is at
Looking ==
  at \in {"chown", "chmod"} =>
    /\ todo # {} /\ First \notin {root, Dot}
    /\ at = "chown" => asRoot
    /\ StatOK(First) /\ Node(First) \notin touched =>
         /\ info.type = Stat(First).type
         /\ IF at = "chown" THEN info = Stat(First)
            ELSE /\ OwnerSet(First)
                 /\ \/ info.mode = Stat(First).mode
                    \/ Node(First) \in cleared /\ info.mode.bits = Stat(First).mode.bits

\* while nobody puts anything, rules and list are the same in each pass
SameLists ==
  /\ clean > 0 => touched = {}
  /\ touched = {} /\ (at = "list" \/ Passing) => table = Rules
  /\ touched = {} /\ Passing => list = PathsOf(Rules)

\* what one clean pass, and then a second, has left
CleanPasses ==
  clean > 0 =>
    \A p \in AloneIn(PathsOf(Rules)) :
      /\ asRoot => Stat(p).owner = OwnerOf(Rules, p)
      /\ Node(p) \notin cleared
      /\ clean = 2 /\ ModeOf(Rules, p) # ZeroMode => Stat(p).mode = ModeOf(Rules, p)

PermsInv == TypeOK /\ PassedApplied /\ Looking /\ SameLists /\ CleanPasses

(* A pass as root that is complete has set the owners of the perms files, for *)
(* a path that ends with a slash also of all that is below ("path ends with a *)
(* slash for recursive matching", xx/perms.go:111).                           *)
OwnersApplied ==
  at = "path" /\ todo = {} /\ asRoot =>
    \A p \in DOMAIN fs \ touched :
      StatOK(p) /\ Stat(p).type \in {"file", "dir"} /\ p # root /\ Says(root, table, "owner", p, <<>>) # <<>>
      => Stat(p).owner = GetOwner(p)
=============================================================================
