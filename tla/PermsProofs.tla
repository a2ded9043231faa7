---------------------------- MODULE PermsProofs -----------------------------
(* What a pass over the modes and owners has applied, and that two passes     *)
(* without other writers make them exact: for every tree, every set of rules  *)
(* and every sequence of files, directories and links that others put.        *)
EXTENDS Perms, TLAPS, WellFoundedInduction, FiniteSetTheorems

-----------------------------------------------------------------------------
(* Paths and their order. *)

LEMMA LeastNat ==
  ASSUME NEW T \in SUBSET Nat, T # {}
  PROVE  \E n \in T : \A m \in T : n <= m
<1> DEFINE R == OpToRel(<, Nat)
<1>1. IsWellFoundedOn(R, Nat)
  BY NatLessThanWellFounded
<1>2. PICK n \in T : \A m \in T : <<m, n>> \notin R
  BY <1>1, WFMin
<1>3. \A m \in T : ~ (m < n)
  BY <1>2 DEF OpToRel
<1> QED
  BY <1>3

\* a place in the order for every path, and one path at every place
LEMMA RankIs ==
  ASSUME NEW p \in Path \cup {Dot}
  PROVE  /\ Rank[p] \in DOMAIN StringOrder /\ Rank[p] \in Nat
         /\ StringOrder[Rank[p]] = p
<1>1. p \in ToSet(StringOrder)
  BY PathAssumption DEF Path
<1>2. \E i \in DOMAIN StringOrder : StringOrder[i] = p
  BY <1>1 DEF ToSet
<1>3. Rank[p] = CHOOSE i \in DOMAIN StringOrder : StringOrder[i] = p
  BY <1>1 DEF Rank
<1>4. Rank[p] \in DOMAIN StringOrder /\ StringOrder[Rank[p]] = p
  BY <1>2, <1>3
<1>5. DOMAIN StringOrder \subseteq Nat
  BY PathAssumption
<1> QED
  BY <1>4, <1>5

LEMMA OneRank ==
  ASSUME NEW p \in Path \cup {Dot}, NEW q \in Path \cup {Dot}, ~Before(p, q), ~Before(q, p)
  PROVE  p = q
<1>1. Rank[p] \in Nat /\ Rank[q] \in Nat /\ StringOrder[Rank[p]] = p /\ StringOrder[Rank[q]] = q
  BY RankIs
<1>2. Rank[p] = Rank[q]
  BY <1>1 DEF Before
<1> QED
  BY <1>1, <1>2

LEMMA LeastPath ==
  ASSUME NEW S \in SUBSET (Path \cup {Dot}), S # {}
  PROVE  \E p \in S : \A q \in S : ~Before(q, p)
<1> DEFINE T == {Rank[p] : p \in S}
<1>1. T \in SUBSET Nat /\ T # {}
  BY RankIs
<1>2. PICK n \in T : \A m \in T : n <= m
  BY <1>1, LeastNat
<1>3. PICK p \in S : n = Rank[p]
  BY <1>2
<1>4. \A q \in S : Rank[p] <= Rank[q] /\ Rank[p] \in Nat /\ Rank[q] \in Nat
  BY <1>2, <1>3, RankIs
<1>5. \A q \in S : ~(Rank[q] < Rank[p])
  BY <1>4
<1> QED
  BY <1>5 DEF Before

LEMMA FirstIs ==
  ASSUME TypeOK, todo # {}
  PROVE  /\ First \in todo /\ First \in list
         /\ \A q \in todo : ~Before(q, First)
<1>1. \E p \in todo : \A q \in todo : ~Before(q, p)
  BY LeastPath DEF TypeOK
<1>2. First \in todo /\ \A q \in todo : ~Before(q, First)
  BY <1>1 DEF First
<1> QED
  BY <1>2 DEF TypeOK

LEMMA PathIs ==
  ASSUME NEW p \in Path
  PROVE  /\ p \in Seq(STRING) /\ Len(p) \in Nat
         /\ \A n \in 0 .. Len(p) : SubSeq(p, 1, n) \in Path /\ Len(SubSeq(p, 1, n)) = n
<1>1. p \in Seq(STRING)
  <2>1. p \in ToSet(StringOrder)
    BY DEF Path
  <2>2. PICK i \in DOMAIN StringOrder : p = StringOrder[i]
    BY <2>1 DEF ToSet
  <2> QED
    BY <2>2, PathAssumption
<1>2. Len(p) \in Nat
  BY <1>1
<1>3. \A n \in 0 .. Len(p) : SubSeq(p, 1, n) \in Path
  BY PathAssumption
<1>4. \A n \in 0 .. Len(p) : Len(SubSeq(p, 1, n)) = n
  BY <1>1, <1>2
<1> QED
  BY <1>1, <1>2, <1>3, <1>4

\* the prefixes of a prefix
LEMMA PrefixOfPrefix ==
  ASSUME NEW p \in Path, NEW m \in 0 .. Len(p), NEW n \in 0 .. m
  PROVE  SubSeq(SubSeq(p, 1, m), 1, n) = SubSeq(p, 1, n)
<1>1. p \in Seq(STRING) /\ Len(p) \in Nat
  BY PathIs
<1> QED
  BY <1>1

-----------------------------------------------------------------------------
(* The tree: where a path leads. *)

LEMMA NodeFacts ==
  ASSUME TypeOK, NEW p, StatOK(p)
  PROVE  /\ p \in DOMAIN fs /\ p \in Path /\ Node(p) \in DOMAIN fs /\ Node(p) \in Path
         /\ fs[Node(p)] \in Files /\ Stat(p) \in Files
<1>1. p \in DOMAIN fs /\ Node(p) \in DOMAIN fs /\ p \in Path /\ Node(p) \in Path
  BY DEF StatOK, TypeOK, Placed
<1>2. fs[Node(p)].type # "link"
  <2>1. CASE fs[p].type = "link"
    <3>1. PICK x \in Contents : x[1] = p /\ fs[p].type = x[2].type /\ fs[p] = x[2]
      BY <1>1, <2>1 DEF TypeOK, Placed
    <3>2. PICK y \in Contents : y[1] = Node(p) /\ fs[Node(p)].type = y[2].type
      BY <1>1 DEF TypeOK, Placed
    <3>3. Node(p) = x[2].to /\ x[2].type = "link"
      BY <2>1, <3>1 DEF Node
    <3> QED
      BY <3>2, <3>3, TreeAssumption
  <2> QED
    BY <2>1 DEF Node
<1>3. fs[Node(p)] \in Files \cup Links
  BY <1>1 DEF TypeOK, Placed
<1>4. fs[Node(p)] \in Files
  BY <1>2, <1>3 DEF Links
<1> QED
  BY <1>1, <1>4 DEF Stat

\* a step that leaves where everything is, and what kind of thing it is
Alike(a, b) ==
  /\ DOMAIN b = DOMAIN a
  /\ \A p \in DOMAIN a : b[p].type = a[p].type /\ (a[p].type = "link" => b[p] = a[p])

LEMMA AlikeNodes ==
  ASSUME Alike(fs, fs')
  PROVE  /\ DOMAIN fs' = DOMAIN fs
         /\ \A p \in DOMAIN fs : Node(p)' = Node(p)
         /\ \A p : StatOK(p)' = StatOK(p)
         /\ \A p : StatOK(p) => Stat(p)'.type = Stat(p).type /\ Type(p)' = Type(p)
<1>1. DOMAIN fs' = DOMAIN fs
  BY DEF Alike
<1>2. \A p \in DOMAIN fs : Node(p)' = Node(p)
  BY DEF Alike, Node
<1>3. \A p : StatOK(p)' = StatOK(p)
  BY <1>1, <1>2 DEF StatOK
<1>4. ASSUME NEW p, StatOK(p) PROVE Stat(p)'.type = Stat(p).type
  BY <1>2, <1>4 DEF StatOK, Stat, Alike
<1>5. \A p : StatOK(p) => Type(p)' = Type(p)
  BY <1>4 DEF Type
<1> QED
  BY <1>1, <1>2, <1>3, <1>4, <1>5
-----------------------------------------------------------------------------
(* What is read from a tree, with the tree as a parameter: the rules, the     *)
(* list, and the paths of a list that have one name.                          *)

NodeIn(tree, p) == IF tree[p].type = "link" THEN tree[p].to ELSE p
ReachedIn(tree, p) == p \in DOMAIN tree /\ NodeIn(tree, p) \in DOMAIN tree
WalkIn(tree, dir) ==
  {p \in DOMAIN tree : /\ IsPrefix(dir, p) /\ ReachedIn(tree, dir) /\ ReachedIn(tree, p)
                       /\ ~\E v \in Volatile : IsStrictPrefix(v, p)
                       /\ tree[NodeIn(tree, p)].type \in {"file", "dir"}}
WalkedIn(tree, rootDirs) == [i \in DOMAIN rootDirs |-> WalkIn(tree, rootDirs[i])]
AllBy(walked, fixed) == fixed \cup UNION {walked[i] : i \in DOMAIN walked}
MoreBy(walked, fixed) ==
  UNION {walked[i] \cap (fixed \cup UNION {walked[j] : j \in DOMAIN walked \ {i}}) : i \in DOMAIN walked}
PathsBy(walked, fixed) == UniqueSlice(AllBy(walked, fixed), MoreBy(walked, fixed))
PathsIn(tree, top, t) == PathsBy(WalkedIn(tree, RootDirs(top, RecPaths(t))), FixedPaths(t))

CntDirsIn(tree, top) == {p \in DOMAIN tree : IsCnt(p, top) /\ tree[p].type = "dir"}
KeysIn(cnts, top, l) == {<<l.kind, base \o l.path, l.rec>> : base \in IF l.cnt THEN cnts ELSE {top}}
RulesIn(cnts, top, ls) ==
  [k \in UNION {KeysIn(cnts, top, ls[i]) : i \in DOMAIN ls} |->
     ls[CHOOSE i \in DOMAIN ls : k \in KeysIn(cnts, top, ls[i])].val]

AloneOf(tree, top, S) ==
  {p \in S \ {top, Dot} : /\ ReachedIn(tree, p)
                          /\ \A q \in S \ {p} : ReachedIn(tree, q) => NodeIn(tree, q) # NodeIn(tree, p)}

LEMMA WalkIs == \A dir : Walk(dir) = WalkIn(fs, dir)
  BY DEF Walk, WalkIn, StatOK, Stat, Node, ReachedIn, NodeIn

LEMMA WalkIsPrime == \A dir : Walk(dir)' = WalkIn(fs', dir)
  BY DEF Walk, WalkIn, StatOK, Stat, Node, ReachedIn, NodeIn

LEMMA PathsAre == \A t : PathsOf(t) = PathsIn(fs, root, t)
<1> TAKE t
<1>1. /\ Listing(t).all = AllBy(WalkedIn(fs, RootDirs(root, RecPaths(t))), FixedPaths(t))
      /\ Listing(t).more = MoreBy(WalkedIn(fs, RootDirs(root, RecPaths(t))), FixedPaths(t))
  <2>1. [i \in DOMAIN RootDirs(root, RecPaths(t)) |-> Walk(RootDirs(root, RecPaths(t))[i])]
        = WalkedIn(fs, RootDirs(root, RecPaths(t)))
    BY WalkIs DEF WalkedIn
  <2> QED
    BY <2>1 DEF Listing, Visited, AllBy, MoreBy
<1> QED
  BY <1>1 DEF PathsOf, OneOfEach, PathsIn, PathsBy

LEMMA RulesAre == /\ CntDirs = CntDirsIn(fs, root)
                  /\ Rules = RulesIn(CntDirs, root, lines)
<1>1. CntDirs = CntDirsIn(fs, root)
  BY DEF CntDirs, CntDirsIn
<1>2. Rules = RulesIn(CntDirs, root, lines)
  BY DEF Rules, AllKeys, Rule, Keys, RulesIn, KeysIn
<1> QED
  BY <1>1, <1>2

LEMMA AloneIs == \A S : AloneIn(S) = AloneOf(fs, root, S)
  BY DEF AloneIn, AloneOf, StatOK, Node, ReachedIn, NodeIn

LEMMA ReadsAre ==
  /\ PathsOf(Rules) = PathsIn(fs, root, Rules)
  /\ Alone = AloneOf(fs, root, list)
  /\ AloneIn(PathsOf(Rules)) = AloneOf(fs, root, PathsOf(Rules))
  BY PathsAre, AloneIs DEF Alone

LEMMA PrimedReads ==
  /\ (PathsOf(Rules))' = PathsIn(fs', root', Rules')
  /\ Rules' = RulesIn(CntDirs', root', lines')
  /\ CntDirs' = CntDirsIn(fs', root')
  /\ Alone' = AloneOf(fs', root', list')
  /\ (AloneIn(PathsOf(Rules)))' = AloneOf(fs', root', (PathsOf(Rules))')
<1>1. (/\ PathsOf(Rules) = PathsIn(fs, root, Rules)
       /\ Alone = AloneOf(fs, root, list)
       /\ AloneIn(PathsOf(Rules)) = AloneOf(fs, root, PathsOf(Rules)))'
  BY ReadsAre, PTL
<1>2. (CntDirs = CntDirsIn(fs, root) /\ Rules = RulesIn(CntDirs, root, lines))'
  BY RulesAre, PTL
<1> QED
  BY <1>1, <1>2

\* nothing of it changes with what is in a file, or who owns it
LEMMA AlikeReads ==
  ASSUME NEW a, NEW b, Alike(a, b)
  PROVE  /\ \A p \in DOMAIN a : NodeIn(b, p) = NodeIn(a, p)
         /\ \A p : ReachedIn(b, p) = ReachedIn(a, p)
         /\ \A top, t : PathsIn(b, top, t) = PathsIn(a, top, t)
         /\ \A top : CntDirsIn(b, top) = CntDirsIn(a, top)
         /\ \A top, S : AloneOf(b, top, S) = AloneOf(a, top, S)
<1>1. \A p \in DOMAIN a : NodeIn(b, p) = NodeIn(a, p)
  BY DEF Alike, NodeIn
<1>2. \A p : ReachedIn(b, p) = ReachedIn(a, p)
  BY <1>1 DEF Alike, ReachedIn
<1>3. ASSUME NEW dir PROVE WalkIn(b, dir) = WalkIn(a, dir)
  <2>1. \A p : ReachedIn(a, p) => b[NodeIn(b, p)].type = a[NodeIn(a, p)].type
    BY <1>1 DEF Alike, ReachedIn
  <2> QED
    BY <1>2, <2>1 DEF WalkIn, Alike
<1>4. ASSUME NEW rootDirs PROVE WalkedIn(b, rootDirs) = WalkedIn(a, rootDirs)
  BY <1>3 DEF WalkedIn
<1>5. \A top, t : PathsIn(b, top, t) = PathsIn(a, top, t)
  BY <1>4 DEF PathsIn
<1>6. \A top : CntDirsIn(b, top) = CntDirsIn(a, top)
  BY DEF CntDirsIn, Alike
<1>7. ASSUME NEW top, NEW S PROVE AloneOf(b, top, S) = AloneOf(a, top, S)
  <2>1. \A p, q : ReachedIn(a, p) /\ ReachedIn(a, q) =>
          (NodeIn(b, q) = NodeIn(b, p) <=> NodeIn(a, q) = NodeIn(a, p))
    BY <1>1 DEF ReachedIn
  <2> QED
    BY <1>2, <2>1 DEF AloneOf
<1> QED
  BY <1>1, <1>2, <1>5, <1>6, <1>7

LEMMA SameReads ==
  ASSUME Alike(fs, fs'), UNCHANGED system
  PROVE  /\ Rules' = Rules
         /\ (PathsOf(Rules))' = PathsOf(Rules)
         /\ (AloneIn(PathsOf(Rules)))' = AloneIn(PathsOf(Rules))
         /\ UNCHANGED list => Alone' = Alone
<1>1. root' = root /\ lines' = lines
  BY DEF system
<1>2. CntDirs' = CntDirs
  BY <1>1, AlikeReads, PrimedReads, RulesAre
<1>3. Rules' = Rules
  BY <1>1, <1>2, PrimedReads, RulesAre
<1>4. (PathsOf(Rules))' = PathsOf(Rules)
  <2>1. PathsIn(fs', root, Rules) = PathsIn(fs, root, Rules)
    BY AlikeReads
  <2> QED
    BY <1>1, <1>3, <2>1, PrimedReads, ReadsAre
<1>5. (AloneIn(PathsOf(Rules)))' = AloneIn(PathsOf(Rules))
  <2>1. AloneOf(fs', root, PathsOf(Rules)) = AloneOf(fs, root, PathsOf(Rules))
    BY AlikeReads
  <2> QED
    BY <1>1, <1>4, <2>1, PrimedReads, ReadsAre
<1>6. UNCHANGED list => Alone' = Alone
  <2>1. AloneOf(fs', root, list) = AloneOf(fs, root, list)
    BY AlikeReads
  <2> QED
    BY <1>1, <2>1, PrimedReads, ReadsAre
<1> QED
  BY <1>3, <1>4, <1>5, <1>6
-----------------------------------------------------------------------------
(* What a path is to have, and what chown and chmod do. *)

LEMMA RulesTyped ==
  ASSUME TypeOK, ~Incorrect
  PROVE  \A k \in DOMAIN Rules :
           k \in Kinds \X Path \X BOOLEAN /\ (k[1] # "owner" => Rules[k] \in Modes)
<1>1. SUFFICES ASSUME NEW k \in AllKeys
               PROVE  k \in Kinds \X Path \X BOOLEAN /\ (k[1] # "owner" => Rule(k) \in Modes)
  BY DEF Rules
<1>2. \E i \in DOMAIN lines : k \in Keys(lines[i])
  BY <1>1 DEF AllKeys
<1> DEFINE i == CHOOSE i \in DOMAIN lines : k \in Keys(lines[i])
           l == lines[i]
<1>3. i \in DOMAIN lines /\ k \in Keys(l)
  BY <1>2
<1>4. Rule(k) = l.val
  BY DEF Rule
<1> HIDE DEF i
<1>5. PICK s \in Systems : root = s.root /\ lines = s.lines
  BY DEF TypeOK
<1>6. /\ root \in Path
      /\ l.kind \in Kinds \cup {"bad"} /\ l.rec \in BOOLEAN
      /\ l.kind \in {"f", "d"} => l.val \in Modes
      /\ IF l.cnt THEN \A p \in Path : IsCnt(p, root) => p \o l.path \in Path
         ELSE root \o l.path \in Path
  BY <1>3, <1>5, SystemsAssumption
<1>7. l.kind \in Kinds
  BY <1>3, <1>6 DEF Incorrect
<1>8. PICK base \in IF l.cnt THEN CntDirs ELSE {root} : k = <<l.kind, base \o l.path, l.rec>>
  BY <1>3 DEF Keys
<1>9. base \o l.path \in Path
  <2>1. ASSUME l.cnt PROVE base \in Path /\ IsCnt(base, root)
    BY <1>8, <2>1 DEF CntDirs, TypeOK, Placed
  <2> QED
    BY <1>6, <1>8, <2>1
<1>10. k[1] # "owner" => l.kind \in {"f", "d"}
  BY <1>7, <1>8 DEF Kinds
<1> QED
  BY <1>4, <1>6, <1>7, <1>8, <1>9, <1>10

\* of the directories above with a rule, one is the nearest
LEMMA NearestIs ==
  ASSUME NEW top \in Path, NEW p \in Path, NEW S \in SUBSET Upward(top, p), S # {}
  PROVE  \E q \in S : \A r \in S : Len(r) <= Len(q)
<1>1. p \in Seq(STRING) /\ Len(p) \in Nat /\ Len(top) \in Nat
  BY PathIs
<1>2. \A q \in S : Len(q) \in 0 .. Len(p)
  BY <1>1, PathIs DEF Upward
<1> DEFINE T == {Len(p) - Len(q) : q \in S}
<1>3. T \in SUBSET Nat /\ T # {}
  BY <1>1, <1>2
<1>4. PICK n \in T : \A m \in T : n <= m
  <2> HIDE DEF T
  <2> QED
    BY <1>3, LeastNat
<1>5. PICK q \in S : n = Len(p) - Len(q)
  BY <1>4
<1>6. \A r \in S : Len(p) - Len(q) <= Len(p) - Len(r)
  BY <1>4, <1>5
<1> QED
  BY <1>1, <1>2, <1>6

LEMMA ModeIs ==
  ASSUME TypeOK, NEW p \in Path
  PROVE  GetMode(p) # ZeroMode => GetMode(p) \in Modes
<1> DEFINE kind == Type(p)
           recs == {q \in Upward(root, p) : <<kind, q, TRUE>> \in DOMAIN table}
           nearest == CHOOSE q \in recs : \A r \in recs : Len(r) <= Len(q)
<1>1. kind \in {"d", "f"}
  BY DEF Type
<1>3. root \in Path
  BY SystemsAssumption DEF TypeOK
<1>4. recs # {} => nearest \in recs
  <2>1. recs \in SUBSET Upward(root, p)
    OBVIOUS
  <2> HIDE DEF recs
  <2> QED
    BY <1>3, <2>1, NearestIs
<1>5. \A q : <<kind, q, TRUE>> \in DOMAIN table => table[<<kind, q, TRUE>>] \in Modes
  BY <1>1 DEF TypeOK
<1>6. \A q : <<kind, q, FALSE>> \in DOMAIN table => table[<<kind, q, FALSE>>] \in Modes
  BY <1>1 DEF TypeOK
<1>7. recs # {} => <<kind, nearest, TRUE>> \in DOMAIN table
  BY <1>4
<1>8. GetMode(p) = IF <<kind, p, FALSE>> \in DOMAIN table THEN table[<<kind, p, FALSE>>]
                   ELSE IF recs = {} THEN ZeroMode ELSE table[<<kind, nearest, TRUE>>]
  BY DEF GetMode, ModeOf, Says
<1> HIDE DEF kind, recs, nearest
<1> QED
  BY <1>5, <1>6, <1>7, <1>8

\* n is the only file that changes, and stays a file of the same type
OnlyAt(n) ==
  /\ DOMAIN fs' = DOMAIN fs /\ n \in DOMAIN fs
  /\ \A q \in DOMAIN fs \ {n} : fs'[q] = fs[q]
  /\ fs[n] \in Files /\ fs'[n] \in Files /\ fs'[n].type = fs[n].type

LEMMA OnlyAtIsAlike ==
  ASSUME NEW n, OnlyAt(n)
  PROVE  Alike(fs, fs')
  BY DEF OnlyAt, Alike, Files

\* whatever the rules say, a name that is not known is root
LEMMA OwnerIs == \A t, p : OwnerOf(t, p) \in Owners
  BY DEF OwnerOf, UgIdLookup, Owners

LEMMA ChownFacts ==
  ASSUME TypeOK, Chown
  PROVE  /\ at = "chown" /\ at' = "chmod"
         /\ UNCHANGED <<system, table, list, todo, info, touched, clean, deployed>>
         /\ \/ info.owner = GetOwner(First) /\ UNCHANGED <<fs, cleared>>
            \/ LET n == Node(First) IN
               /\ info.owner # GetOwner(First) /\ StatOK(First) /\ OnlyAt(n)
               /\ fs'[n].owner = GetOwner(First)
               /\ \/ fs'[n].mode = fs[n].mode /\ cleared' = cleared
                  \/ fs'[n].mode.bits = fs[n].mode.bits /\ cleared' = cleared \cup {n}
<1>1. CASE info.owner = GetOwner(First)
  BY <1>1 DEF Chown
<1>2. CASE info.owner # GetOwner(First)
  <2> DEFINE n == Node(First)
             o == GetOwner(First)
             drops == fs[n].type = "file" /\ fs[n].mode.setid
             node == [fs[n] EXCEPT !.owner = o, !.mode.setid = @ /\ ~drops]
  <2>1. /\ StatOK(First) /\ o \in Owners
        /\ fs' = [fs EXCEPT ![n] = node]
        /\ cleared' = IF drops THEN cleared \cup {n} ELSE cleared
    BY <1>2, OwnerIs DEF Chown, GetOwner
  <2>2. n \in DOMAIN fs /\ fs[n] \in Files
    BY <2>1, NodeFacts
  <2>3. /\ node \in Files /\ node.type = fs[n].type /\ node.owner = o
        /\ node.mode = [fs[n].mode EXCEPT !.setid = @ /\ ~drops]
    BY <2>1, <2>2 DEF Files, Modes
  <2>4. node.mode.bits = fs[n].mode.bits
    BY <2>2, <2>3 DEF Files, Modes
  <2>5. ~drops => node.mode = fs[n].mode
    BY <2>2, <2>3 DEF Files, Modes
  <2> HIDE DEF n, o, drops, node
  <2>6. fs'[n] = node /\ DOMAIN fs' = DOMAIN fs /\ \A q \in DOMAIN fs \ {n} : fs'[q] = fs[q]
    BY <2>1, <2>2
  <2>7. OnlyAt(n)
    BY <2>2, <2>3, <2>6 DEF OnlyAt
  <2> QED
    BY <1>2, <2>1, <2>3, <2>4, <2>5, <2>6, <2>7 DEF Chown, n, o, drops
<1> QED
  BY <1>1, <1>2

LEMMA ChmodFacts ==
  ASSUME TypeOK, Chmod
  PROVE  /\ at = "chmod" /\ at' = "path" /\ todo' = todo \ {First} /\ StatOK(First)
         /\ UNCHANGED <<system, table, list, info, touched, cleared, clean, deployed>>
         /\ LET n == Node(First) mode == GetMode(First) IN
            \/ (mode = ZeroMode \/ mode = info.mode) /\ UNCHANGED fs
            \/ OnlyAt(n) /\ fs'[n].mode = mode /\ fs'[n].owner = fs[n].owner
<1> DEFINE n == Node(First)
           mode == GetMode(First)
           node == [fs[n] EXCEPT !.mode = mode]
<1>1. at = "chmod" /\ at' = "path" /\ todo' = todo \ {First} /\ StatOK(First)
  BY DEF Chmod, NextPath
<1>2. n \in DOMAIN fs /\ fs[n] \in Files /\ (mode # ZeroMode => mode \in Modes)
  BY <1>1, NodeFacts, ModeIs
<1>3. \/ (mode = ZeroMode \/ mode = info.mode) /\ UNCHANGED fs
      \/ mode # ZeroMode /\ fs' = [fs EXCEPT ![n] = node]
  BY DEF Chmod
<1>4. /\ mode # ZeroMode => node \in Files
      /\ node.type = fs[n].type /\ node.mode = mode /\ node.owner = fs[n].owner
  BY <1>2 DEF Files
<1> HIDE DEF n, mode, node
<1>5. ASSUME mode # ZeroMode, fs' = [fs EXCEPT ![n] = node]
      PROVE  OnlyAt(n) /\ fs'[n].mode = mode /\ fs'[n].owner = fs[n].owner
  <2>1. fs'[n] = node /\ DOMAIN fs' = DOMAIN fs /\ \A q \in DOMAIN fs \ {n} : fs'[q] = fs[q]
    BY <1>2, <1>5
  <2> QED
    BY <1>2, <1>4, <1>5, <2>1 DEF OnlyAt
<1>6. UNCHANGED <<system, table, list, info, touched, cleared, clean, deployed>>
  BY DEF Chmod
<1> QED
  BY <1>1, <1>3, <1>5, <1>6 DEF n, mode
-----------------------------------------------------------------------------
(* What others put leaves every other path as it is. *)

LEMMA DeployFacts ==
  ASSUME TypeOK, Deploy
  PROVE  \E d \in Deploys :
           /\ d \in Contents /\ d[1] \in Path
           /\ Dir(d[1]) \in DOMAIN fs /\ fs[Dir(d[1])].type = "dir"
           /\ d[1] \in DOMAIN fs /\ fs[d[1]].type = "dir" => d[2].type = "dir"
           /\ DOMAIN fs' = DOMAIN fs \cup {d[1]} /\ fs'[d[1]] = d[2]
           /\ \A p \in DOMAIN fs \ {d[1]} : fs'[p] = fs[p]
           /\ d[2].type = "link" => d[2].to \in Path
           /\ IF at = "idle" THEN touched' = {}
              ELSE /\ touched \cup {d[1]} \subseteq touched' /\ touched' \subseteq Path
                   /\ d[2].type = "link" => d[2].to \in touched'
                   /\ d[1] \in DOMAIN fs /\ fs[d[1]].type = "link" => fs[d[1]].to \in touched'
           /\ cleared' = cleared \ {d[1]} /\ clean' = 0
           /\ UNCHANGED <<system, at, table, list, todo, info>>
           /\ deployed' = deployed + 1 /\ deployed < MaxDeploy
<1>1. PICK d \in Deploys :
        /\ Dir(d[1]) \in DOMAIN fs /\ fs[Dir(d[1])].type = "dir"
        /\ d[1] \in DOMAIN fs /\ fs[d[1]].type = "dir" => d[2].type = "dir"
        /\ fs' = [p \in DOMAIN fs \cup {d[1]} |-> IF p = d[1] THEN d[2] ELSE fs[p]]
        /\ touched' = IF at = "idle" THEN {} ELSE touched \cup {d[1]} \cup
             (End(d[2]) \cup IF d[1] \in DOMAIN fs THEN End(fs[d[1]]) ELSE {})
        /\ cleared' = cleared \ {d[1]}
  BY DEF Deploy
<1>2. d \in Contents /\ d[1] \in Path /\ d[2] \in Files \cup Links
  BY TreeAssumption DEF Contents
<1>3. \A x \in Files \cup Links : End(x) \subseteq Path /\ (x.type = "link" => End(x) = {x.to} /\ x.to \in Path)
  BY DEF End, Files, Links
<1>4. d[1] \in DOMAIN fs => fs[d[1]] \in Files \cup Links
  BY DEF TypeOK, Placed
<1>5. /\ DOMAIN fs' = DOMAIN fs \cup {d[1]} /\ fs'[d[1]] = d[2]
      /\ \A p \in DOMAIN fs \ {d[1]} : fs'[p] = fs[p]
  BY <1>1
<1>6. IF at = "idle" THEN touched' = {}
      ELSE /\ touched \cup {d[1]} \subseteq touched' /\ touched' \subseteq Path
           /\ d[2].type = "link" => d[2].to \in touched'
           /\ d[1] \in DOMAIN fs /\ fs[d[1]].type = "link" => fs[d[1]].to \in touched'
  <2>1. touched \subseteq Path
    BY DEF TypeOK
  <2> QED
    BY <1>1, <1>2, <1>3, <1>4, <2>1
<1>7. /\ clean' = 0 /\ UNCHANGED <<system, at, table, list, todo, info>>
      /\ deployed' = deployed + 1 /\ deployed < MaxDeploy
  BY DEF Deploy
<1> QED
  BY <1>1, <1>2, <1>3, <1>5, <1>6, <1>7

LEMMA NotPut ==
  ASSUME TypeOK, Deploy, at # "idle", NEW p, StatOK(p)', Node(p)' \notin touched'
  PROVE  /\ StatOK(p) /\ Node(p)' = Node(p) /\ Node(p) \notin touched
         /\ Stat(p)' = Stat(p) /\ Type(p)' = Type(p)
         /\ \A q : StatOK(q) /\ Node(q) = Node(p) => StatOK(q)' /\ Node(q)' = Node(q)
         /\ Node(p) \in cleared => Node(p) \in cleared'
<1>1. PICK d \in Deploys :
        /\ DOMAIN fs' = DOMAIN fs \cup {d[1]} /\ fs'[d[1]] = d[2]
        /\ \A x \in DOMAIN fs \ {d[1]} : fs'[x] = fs[x]
        /\ touched \cup {d[1]} \subseteq touched'
        /\ d[2].type = "link" => d[2].to \in touched'
        /\ d[1] \in DOMAIN fs /\ fs[d[1]].type = "link" => fs[d[1]].to \in touched'
        /\ cleared' = cleared \ {d[1]}
  BY DeployFacts
<1>2. Node(p)' = IF fs'[p].type = "link" THEN fs'[p].to ELSE p
  BY DEF Node
<1>3. p \in DOMAIN fs' /\ Node(p)' \in DOMAIN fs'
  BY DEF StatOK
<1>4. p # d[1]
  BY <1>1, <1>2
<1>5. p \in DOMAIN fs /\ fs'[p] = fs[p]
  BY <1>1, <1>3, <1>4
<1>6. Node(p)' = Node(p)
  BY <1>2, <1>5 DEF Node
<1>7. Node(p) # d[1] /\ Node(p) \in DOMAIN fs /\ fs'[Node(p)] = fs[Node(p)] /\ Node(p) \notin touched
  BY <1>1, <1>3, <1>6
<1>8. StatOK(p)
  BY <1>5, <1>7 DEF StatOK
<1>9. Stat(p)' = Stat(p)
  BY <1>6, <1>7 DEF Stat
<1>10. Type(p)' = Type(p)
  BY <1>9 DEF Type
<1>11. ASSUME NEW q, StatOK(q), Node(q) = Node(p)
       PROVE  StatOK(q)' /\ Node(q)' = Node(q)
  <2>1. q \in DOMAIN fs
    BY <1>11 DEF StatOK
  <2>2. q # d[1]
    BY <1>1, <1>6, <1>7, <1>11, <2>1 DEF Node
  <2>3. fs'[q] = fs[q] /\ q \in DOMAIN fs'
    BY <1>1, <2>1, <2>2
  <2>4. Node(q)' = Node(q)
    BY <2>3 DEF Node
  <2> QED
    BY <1>1, <1>7, <1>11, <2>3, <2>4 DEF StatOK
<1> QED
  BY <1>1, <1>6, <1>7, <1>8, <1>9, <1>10, <1>11

LEMMA AloneBeforePut ==
  ASSUME TypeOK, Deploy, at # "idle", NEW p \in Alone', Node(p)' \notin touched'
  PROVE  p \in Alone
<1>1. UNCHANGED <<root, list>>
  BY DeployFacts DEF system
<1>2. p \in list \ {root, Dot} /\ StatOK(p)'
  BY <1>1 DEF Alone, AloneIn
<1>3. \A q \in list \ {p} : StatOK(q)' => Node(q)' # Node(p)'
  BY <1>1 DEF Alone, AloneIn
<1>4. StatOK(p) /\ Node(p)' = Node(p)
  BY <1>2, NotPut
<1>5. ASSUME NEW q \in list \ {p}, StatOK(q), Node(q) = Node(p) PROVE FALSE
  BY <1>2, <1>3, <1>4, <1>5, NotPut
<1> QED
  BY <1>2, <1>4, <1>5 DEF Alone, AloneIn
-----------------------------------------------------------------------------
(* Types. *)

LEMMA PlacedStays ==
  ASSUME TypeOK, NEW n, OnlyAt(n)
  PROVE  \A p \in DOMAIN fs' : Placed(p)'
<1>1. SUFFICES ASSUME NEW p \in DOMAIN fs PROVE Placed(p)'
  BY DEF OnlyAt
<1>2. Placed(p)
  BY DEF TypeOK
<1>3. /\ DOMAIN fs' = DOMAIN fs
      /\ \A q \in DOMAIN fs : fs'[q].type = fs[q].type
      /\ fs[p].type = "link" => fs'[p] = fs[p]
  BY OnlyAtIsAlike DEF Alike
<1>4. fs'[p] \in Files \cup Links
  BY <1>2 DEF OnlyAt, Placed
<1> QED
  BY <1>2, <1>3, <1>4 DEF Placed

LEMMA PlacedAfterPut ==
  ASSUME TypeOK, Deploy
  PROVE  \A p \in DOMAIN fs' : Placed(p)'
<1>1. PICK d \in Deploys :
        /\ d \in Contents /\ d[1] \in Path
        /\ Dir(d[1]) \in DOMAIN fs /\ fs[Dir(d[1])].type = "dir"
        /\ d[1] \in DOMAIN fs /\ fs[d[1]].type = "dir" => d[2].type = "dir"
        /\ DOMAIN fs' = DOMAIN fs \cup {d[1]} /\ fs'[d[1]] = d[2]
        /\ \A p \in DOMAIN fs \ {d[1]} : fs'[p] = fs[p]
  BY DeployFacts
<1>2. \A q : q \in DOMAIN fs /\ fs[q].type = "dir" => q \in DOMAIN fs' /\ fs'[q].type = "dir"
  BY <1>1
<1>3. ASSUME NEW p \in DOMAIN fs \ {d[1]} PROVE Placed(p)'
  <2>1. Placed(p) /\ fs'[p] = fs[p]
    BY <1>1 DEF TypeOK
  <2> QED
    BY <1>2, <2>1 DEF Placed
<1>4. Placed(d[1])'
  <2> DEFINE c == d[1]
  <2>1. c \in Path /\ c \in Seq(STRING) /\ Len(c) \in Nat
    BY <1>1, PathIs
  <2>2. d[2] \in Files \cup Links
    BY <1>1, TreeAssumption
  <2>3. ASSUME NEW n \in 0 .. Len(c) - 1
        PROVE  SubSeq(c, 1, n) \in DOMAIN fs /\ fs[SubSeq(c, 1, n)].type = "dir"
    <3>1. c # <<>> /\ c # Dot
      BY <2>1, <2>3 DEF Path
    <3>2. Dir(c) = SubSeq(c, 1, Len(c) - 1) /\ Len(Dir(c)) = Len(c) - 1
      BY <2>1, <2>3, <3>1, PathIs DEF Dir, Front
    <3>3. Placed(Dir(c))
      BY <1>1 DEF TypeOK
    <3>4. CASE n = Len(c) - 1
      BY <1>1, <3>2, <3>4
    <3>5. CASE n # Len(c) - 1
      <4>1. n \in 0 .. Len(Dir(c)) - 1 /\ n \in 0 .. Len(c) - 1
        BY <2>1, <2>3, <3>2, <3>5
      <4>2. SubSeq(Dir(c), 1, n) = SubSeq(c, 1, n)
        BY <2>1, <2>3, <3>2, PrefixOfPrefix
      <4> QED
        BY <3>3, <4>1, <4>2 DEF Placed
    <3> QED
      BY <3>4, <3>5
  <2>4. c \in DOMAIN fs' /\ fs'[c] = d[2]
    BY <1>1
  <2> HIDE DEF c
  <2>5. \A n \in 0 .. Len(c) - 1 : SubSeq(c, 1, n) \in DOMAIN fs' /\ fs'[SubSeq(c, 1, n)].type = "dir"
    BY <1>2, <2>3
  <2>6. \E x \in Contents : x[1] = c /\ fs'[c].type = x[2].type /\ (fs'[c].type = "link" => fs'[c] = x[2])
    BY <1>1, <2>4 DEF c
  <2>7. Placed(c)'
    BY <2>1, <2>2, <2>4, <2>5, <2>6 DEF Placed
  <2> QED
    BY <2>7 DEF c
<1> QED
  BY <1>1, <1>3, <1>4

LEMMA ListTyped ==
  ASSUME TypeOK
  PROVE  Listing(table).all \subseteq Path \cup {Dot} /\ PathsOf(table) \subseteq Path \cup {Dot}
<1>1. FixedPaths(table) \subseteq Path \cup {Dot}
  <2>1. \A k \in DOMAIN table : Listed(k) \in Path \cup {Dot}
    BY DEF TypeOK, Listed
  <2>2. ListOf(Fixed(table)) \subseteq Path \cup {Dot}
    BY <2>1 DEF ListOf, Fixed
  <2> QED
    BY <2>2 DEF FixedPaths, UniqueSlice
<1>2. \A dir : Walk(dir) \subseteq Path
  BY DEF Walk, TypeOK, Placed
<1>3. Listing(table).all \subseteq Path \cup {Dot}
  BY <1>1, <1>2 DEF Listing, Visited
<1>4. PathsOf(table) \subseteq Path \cup {Dot}
  BY <1>3 DEF PathsOf, OneOfEach, UniqueSlice
<1> QED
  BY <1>3, <1>4

LEMMA TypeInit == Init => TypeOK
<1> SUFFICES ASSUME Init PROVE TypeOK
  OBVIOUS
<1>1. ASSUME NEW p \in DOMAIN fs PROVE Placed(p)
  <2>1. <<p, fs[p]>> \in Contents /\ fs = Start0
    BY <1>1 DEF Init, Contents
  <2>2. p \in Path /\ fs[p] \in Files \cup Links
    BY <2>1, TreeAssumption
  <2>3. \A n \in 0 .. Len(p) - 1 : SubSeq(p, 1, n) \in DOMAIN fs /\ fs[SubSeq(p, 1, n)].type = "dir"
    BY <1>1, <2>1, TreeAssumption
  <2>4. \E x \in Contents : x[1] = p /\ fs[p].type = x[2].type /\ (fs[p].type = "link" => fs[p] = x[2])
    BY <2>1
  <2> QED
    BY <2>2, <2>3, <2>4 DEF Placed
<1>2. \A k \in DOMAIN table : k \in Kinds \X Path \X BOOLEAN /\ (k[1] # "owner" => table[k] \in Modes)
  BY DEF Init
<1>3. deployed \in 0 .. MaxDeploy
  BY PathAssumption DEF Init
<1> QED
  BY <1>1, <1>2, <1>3 DEF Init, TypeOK

LEMMA TypeStep ==
  ASSUME TypeOK, [Next]_vars
  PROVE  TypeOK'
<1> DEFINE Tables == \A k \in DOMAIN table : k \in Kinds \X Path \X BOOLEAN /\ (k[1] # "owner" => table[k] \in Modes)
<1>1. CASE ReadPerms
  <2>1. CASE Incorrect
    BY <1>1, <2>1 DEF ReadPerms, TypeOK, system, Placed
  <2>2. CASE ~Incorrect
    <3>1. Tables'
      BY <1>1, <2>2, RulesTyped DEF ReadPerms
    <3> QED
      BY <1>1, <2>2, <3>1 DEF ReadPerms, TypeOK, system, Placed
  <2> QED
    BY <2>1, <2>2
<1>2. CASE ListPaths
  <2>1. list' \subseteq Path \cup {Dot} /\ todo' \subseteq list' /\ at' \in {"path", "endless"}
    BY <1>2, ListTyped DEF ListPaths, TypeOK
  <2> QED
    BY <1>2, <2>1 DEF ListPaths, TypeOK, system, Placed
<1>3. CASE StatPath
  BY <1>3 DEF StatPath, NextPath, TypeOK, system, Placed
<1>4. CASE Chown
  <2>1. CASE UNCHANGED <<fs, cleared>>
    BY <1>4, <2>1, ChownFacts DEF TypeOK, system, Placed
  <2>2. CASE OnlyAt(Node(First)) /\ StatOK(First) /\ cleared' \subseteq cleared \cup {Node(First)}
    <3>1. cleared' \subseteq Path
      BY <2>2, NodeFacts DEF TypeOK
    <3> QED
      BY <1>4, <2>2, <3>1, PlacedStays, ChownFacts DEF TypeOK, system
  <2> QED
    BY <1>4, <2>1, <2>2, ChownFacts
<1>5. CASE Chmod
  <2>1. \A p \in DOMAIN fs' : Placed(p)'
    <3>1. CASE UNCHANGED fs
      BY <3>1 DEF TypeOK, Placed
    <3> QED
      BY <1>5, <3>1, ChmodFacts, PlacedStays
  <2> QED
    BY <1>5, <2>1, ChmodFacts DEF TypeOK, system
<1>6. CASE Complete
  <2>1. Tables'
    BY <1>6 DEF Complete, Ended
  <2> QED
    BY <1>6, <2>1 DEF Complete, Ended, TypeOK, system, Placed
<1>7. CASE Stop
  <2>1. Tables'
    BY <1>7 DEF Stop, Ended
  <2> QED
    BY <1>7, <2>1 DEF Stop, Ended, TypeOK, system, Placed
<1>8. CASE Deploy
  <2>1. /\ UNCHANGED <<system, at, table, list, todo>>
        /\ touched' \subseteq Path /\ cleared' \subseteq cleared
        /\ clean' = 0 /\ deployed' = deployed + 1 /\ deployed < MaxDeploy
    BY <1>8, DeployFacts
  <2>2. deployed' \in 0 .. MaxDeploy
    BY <2>1, PathAssumption DEF TypeOK
  <2> QED
    BY <1>8, <2>1, <2>2, PlacedAfterPut DEF TypeOK, system
<1>9. CASE UNCHANGED vars
  BY <1>9 DEF vars, pass, system, TypeOK, Placed
<1> QED
  BY <1>1, <1>2, <1>3, <1>4, <1>5, <1>6, <1>7, <1>8, <1>9 DEF Next
-----------------------------------------------------------------------------
(* What has been applied stays so. *)

LEMMA SameWanted ==
  ASSUME UNCHANGED <<root, table>>, NEW p, Type(p)' = Type(p)
  PROVE  GetMode(p)' = GetMode(p) /\ GetOwner(p)' = GetOwner(p)
  BY DEF GetMode, GetOwner, ModeOf, OwnerOf

LEMMA StillApplied ==
  ASSUME UNCHANGED <<root, table, asRoot>>, NEW p, Applied(p),
         Stat(p)' = Stat(p), Node(p)' = Node(p), Node(p) \in cleared => Node(p) \in cleared'
  PROVE  Applied(p)'
<1>1. Type(p)' = Type(p)
  BY DEF Type
<1>2. GetMode(p)' = GetMode(p) /\ GetOwner(p)' = GetOwner(p)
  BY <1>1, SameWanted
<1> QED
  BY <1>2 DEF Applied, OwnerSet, ModeSet

\* a path with one name is not touched by what is done to another
LEMMA OtherNode ==
  ASSUME TypeOK, NEW f \in list, StatOK(f), OnlyAt(Node(f)), NEW p \in Alone, p # f
  PROVE  /\ StatOK(p) /\ Node(p)' = Node(p) /\ Node(p) # Node(f)
         /\ Stat(p)' = Stat(p)
<1>1. StatOK(p) /\ Node(p) # Node(f)
  BY DEF Alone, AloneIn
<1>2. Node(p)' = Node(p)
  BY <1>1, OnlyAtIsAlike, AlikeNodes DEF StatOK
<1>3. fs'[Node(p)] = fs[Node(p)]
  BY <1>1 DEF OnlyAt, StatOK
<1> QED
  BY <1>1, <1>2, <1>3 DEF Stat

\* and itself only as far as OnlyAt says
LEMMA OwnNode ==
  ASSUME TypeOK, NEW f, StatOK(f), OnlyAt(Node(f))
  PROVE  /\ Node(f)' = Node(f) /\ StatOK(f)' /\ Type(f)' = Type(f)
         /\ Stat(f)' = fs'[Node(f)] /\ Stat(f)'.type = Stat(f).type
<1>1. Node(f)' = Node(f) /\ StatOK(f)' /\ Type(f)' = Type(f) /\ Stat(f)'.type = Stat(f).type
  BY OnlyAtIsAlike, AlikeNodes DEF StatOK
<1>2. Stat(f)' = fs'[Node(f)]
  BY <1>1 DEF Stat
<1> QED
  BY <1>1, <1>2

LEMMA PassedStep ==
  ASSUME TypeOK, PassedApplied, Looking, [Next]_vars
  PROVE  PassedApplied'
<1>1. CASE ReadPerms \/ Complete \/ Stop
  BY <1>1 DEF ReadPerms, Complete, Stop, Ended, PassedApplied, Passing
<1>2. CASE ListPaths
  <2>1. at' = "path" => todo' = list'
    BY <1>2 DEF ListPaths
  <2>2. at' \in {"path", "endless"}
    BY <1>2 DEF ListPaths
  <2> QED
    BY <2>1, <2>2 DEF PassedApplied, Passing, Alone, AloneIn
<1>3. CASE StatPath
  <2>1. /\ Passing /\ UNCHANGED <<fs, root, table, asRoot, list, touched, cleared>>
        /\ \/ UNCHANGED todo
           \/ First \in todo /\ todo' = todo \ {First} /\ (~StatOK(First) \/ First \in {root, Dot})
    BY <1>3, FirstIs DEF StatPath, NextPath, Passing, system
  <2>2. Alone' = Alone
    BY <2>1 DEF Alone, AloneIn, StatOK, Node
  <2>3. First \in todo /\ (~StatOK(First) \/ First \in {root, Dot}) => First \notin Alone
    BY DEF Alone, AloneIn
  <2>4. Alone' \ todo' \subseteq Alone \ todo
    BY <2>1, <2>2, <2>3
  <2>5. ASSUME NEW p \in Alone \ todo, Node(p)' \notin touched' PROVE Applied(p)'
    <3>1. Node(p)' = Node(p) /\ Stat(p)' = Stat(p)
      BY <2>1 DEF Node, Stat
    <3>2. Applied(p)
      BY <2>1, <2>5, <3>1 DEF PassedApplied
    <3> QED
      BY <2>1, <3>1, <3>2, StillApplied
  <2> QED
    BY <2>4, <2>5 DEF PassedApplied
<1>4. CASE Chown
  <2>1. /\ Passing /\ UNCHANGED <<root, table, asRoot, list, todo, touched>> /\ at = "chown"
        /\ \/ UNCHANGED <<fs, cleared>>
           \/ StatOK(First) /\ OnlyAt(Node(First)) /\ cleared \subseteq cleared'
    BY <1>4, ChownFacts DEF Passing, system
  <2>2. First \in todo /\ First \in list
    BY <2>1, FirstIs DEF Looking
  <2>3. CASE UNCHANGED <<fs, cleared>>
    <3>1. Alone' = Alone
      BY <2>1, <2>3 DEF Alone, AloneIn, StatOK, Node
    <3>2. ASSUME NEW p \in Alone \ todo, Node(p)' \notin touched' PROVE Applied(p)'
      <4>1. Node(p)' = Node(p) /\ Stat(p)' = Stat(p)
        BY <2>3 DEF Node, Stat
      <4>2. Applied(p)
        BY <2>1, <3>2, <4>1 DEF PassedApplied
      <4> QED
        BY <2>1, <2>3, <4>1, <4>2, StillApplied
    <3> QED
      BY <2>1, <3>1, <3>2 DEF PassedApplied
  <2>4. CASE StatOK(First) /\ OnlyAt(Node(First)) /\ cleared \subseteq cleared'
    <3>1. Alone' = Alone
      BY <1>4, <2>1, <2>4, OnlyAtIsAlike, SameReads, ChownFacts
    <3>2. ASSUME NEW p \in Alone \ todo, Node(p)' \notin touched' PROVE Applied(p)'
      <4>1. Node(p)' = Node(p) /\ Stat(p)' = Stat(p)
        BY <2>2, <2>4, <3>2, OtherNode
      <4>2. Applied(p)
        BY <2>1, <3>2, <4>1 DEF PassedApplied
      <4> QED
        BY <2>1, <2>4, <4>1, <4>2, StillApplied
    <3> QED
      BY <2>1, <3>1, <3>2 DEF PassedApplied
  <2> QED
    BY <2>1, <2>3, <2>4
<1>5. CASE Chmod
  <2> DEFINE n == Node(First)
             mode == GetMode(First)
  <2>1. /\ Passing /\ UNCHANGED <<root, table, asRoot, list, touched, cleared>> /\ at = "chmod"
        /\ todo' = todo \ {First} /\ StatOK(First) /\ UNCHANGED system
        /\ \/ (mode = ZeroMode \/ mode = info.mode) /\ UNCHANGED fs
           \/ OnlyAt(n) /\ fs'[n].mode = mode /\ fs'[n].owner = fs[n].owner
    BY <1>5, ChmodFacts DEF Passing, system
  <2>2. First \in todo /\ First \in list
    BY <2>1, FirstIs DEF Looking
  <2>3. Alone' = Alone
    <3>1. CASE UNCHANGED fs
      BY <2>1, <3>1 DEF Alone, AloneIn, StatOK, Node
    <3>2. CASE OnlyAt(n)
      BY <2>1, <3>2, OnlyAtIsAlike, SameReads
    <3> QED
      BY <2>1, <3>1, <3>2
  <2>4. ASSUME NEW p \in Alone \ todo, Node(p)' \notin touched' PROVE Applied(p)'
    <3>1. Node(p)' = Node(p) /\ Stat(p)' = Stat(p)
      <4>1. CASE UNCHANGED fs
        BY <4>1 DEF Node, Stat
      <4>2. CASE OnlyAt(n)
        BY <2>1, <2>2, <2>4, <4>2, OtherNode
      <4> QED
        BY <2>1, <4>1, <4>2
    <3>2. Applied(p)
      BY <2>1, <2>4, <3>1 DEF PassedApplied
    <3> QED
      BY <2>1, <3>1, <3>2, StillApplied
  <2>5. PICK f \in list : f = First
    BY <2>2
  <2>6. ASSUME Node(f)' \notin touched', f \in Alone PROVE Applied(f)'
    <3>1. Node(f)' = Node(f) /\ Type(f)' = Type(f)
      <4>1. CASE UNCHANGED fs
        BY <4>1 DEF Node, Type, Stat
      <4>2. CASE OnlyAt(n)
        BY <2>1, <2>5, <4>2, OwnNode
      <4> QED
        BY <2>1, <4>1, <4>2
    <3>2. /\ OwnerSet(f)
          /\ \/ info.mode = Stat(f).mode
             \/ Node(f) \in cleared /\ info.mode.bits = Stat(f).mode.bits
      BY <2>1, <2>5, <2>6, <3>1 DEF Looking
    <3>3. CASE (mode = ZeroMode \/ mode = info.mode) /\ UNCHANGED fs
      <4>1. Applied(f)
        BY <2>5, <3>2, <3>3 DEF Applied, ModeSet
      <4>2. Stat(f)' = Stat(f)
        BY <3>3 DEF Stat, Node
      <4> QED
        BY <2>1, <3>1, <4>1, <4>2, StillApplied
    <3>4. CASE OnlyAt(n) /\ fs'[n].mode = mode /\ fs'[n].owner = fs[n].owner
      <4>1. GetMode(f)' = mode /\ GetOwner(f)' = GetOwner(f)
        BY <2>1, <2>5, <3>1, SameWanted
      <4>2. Stat(f)'.mode = mode /\ Stat(f)'.owner = Stat(f).owner
        BY <2>1, <2>5, <3>4, OwnNode DEF Stat
      <4> QED
        BY <2>1, <3>2, <4>1, <4>2 DEF Applied, OwnerSet, ModeSet
    <3> QED
      BY <2>1, <3>3, <3>4
  <2> QED
    BY <2>1, <2>3, <2>4, <2>5, <2>6 DEF PassedApplied
<1>6. CASE Deploy
  <2>1. UNCHANGED <<root, table, asRoot, list, todo, at>>
    BY <1>6, DeployFacts DEF system
  <2>2. SUFFICES ASSUME Passing, NEW p \in Alone' \ todo, Node(p)' \notin touched' PROVE Applied(p)'
    BY <2>1 DEF PassedApplied, Passing
  <2>3. p \in Alone /\ StatOK(p)'
    BY <1>6, <2>2, AloneBeforePut DEF Passing, Alone, AloneIn
  <2>4. /\ Node(p)' = Node(p) /\ Node(p) \notin touched /\ Stat(p)' = Stat(p)
        /\ Node(p) \in cleared => Node(p) \in cleared'
    BY <1>6, <2>2, <2>3, NotPut DEF Passing
  <2>5. Applied(p)
    BY <2>2, <2>3, <2>4 DEF PassedApplied
  <2> QED
    BY <2>1, <2>4, <2>5, StillApplied
<1>7. CASE UNCHANGED vars
  <2>1. UNCHANGED <<fs, root, table, asRoot, list, todo, at, touched, cleared>>
    BY <1>7 DEF vars, pass, system
  <2>2. SUFFICES ASSUME Passing, NEW p \in Alone' \ todo, Node(p)' \notin touched' PROVE Applied(p)'
    BY <2>1 DEF PassedApplied, Passing
  <2>3. p \in Alone /\ Node(p)' = Node(p) /\ Stat(p)' = Stat(p)
    BY <2>1, <2>2 DEF Alone, AloneIn, StatOK, Node, Stat
  <2>4. Applied(p)
    BY <2>1, <2>2, <2>3 DEF PassedApplied
  <2> QED
    BY <2>1, <2>3, <2>4, StillApplied
<1> QED
  BY <1>1, <1>2, <1>3, <1>4, <1>5, <1>6, <1>7 DEF Next
-----------------------------------------------------------------------------
(* What the pass knows of the path it is at. *)

FirstOf(S) == CHOOSE p \in S : \A q \in S : ~Before(q, p)

LEMMA FirstIsOf == First = FirstOf(todo)
  BY DEF First, FirstOf

LEMMA SameFirst ==
  ASSUME UNCHANGED todo
  PROVE  First' = First
<1>1. (First = FirstOf(todo))'
  BY FirstIsOf, PTL
<1> QED
  BY <1>1, FirstIsOf

\* what Looking says, of a path f
Known(f) ==
  StatOK(f) /\ Node(f) \notin touched =>
    /\ info.type = Stat(f).type
    /\ IF at = "chown" THEN info = Stat(f)
       ELSE /\ OwnerSet(f)
            /\ \/ info.mode = Stat(f).mode
               \/ Node(f) \in cleared /\ info.mode.bits = Stat(f).mode.bits

LEMMA LookingByKnown ==
  ASSUME NEW f, First' = f, Known(f)',
         at' \in {"chown", "chmod"} => todo' # {} /\ f \notin {root', Dot} /\ (at' = "chown" => asRoot')
  PROVE  Looking'
  BY DEF Looking, Known

LEMMA LookingStep ==
  ASSUME TypeOK, Looking, [Next]_vars
  PROVE  Looking'
<1>1. CASE ReadPerms \/ Complete \/ Stop \/ ListPaths \/ Chmod
  BY <1>1 DEF ReadPerms, Complete, Stop, Ended, ListPaths, Chmod, NextPath, Looking
<1>2. CASE StatPath
  <2>1. CASE ~StatOK(First) \/ First \in {root, Dot}
    BY <1>2, <2>1 DEF StatPath, NextPath, Looking
  <2>2. CASE ~(~StatOK(First) \/ First \in {root, Dot})
    <3>1. /\ UNCHANGED <<fs, root, asRoot, table, todo, touched, cleared>> /\ todo # {}
          /\ at' = (IF asRoot THEN "chown" ELSE "chmod") /\ info' = Stat(First)
      BY <1>2, <2>2 DEF StatPath, system
    <3>2. PICK f : f = First
      OBVIOUS
    <3>3. First' = f
      BY <3>1, <3>2, SameFirst
    <3>4. Stat(f)' = Stat(f)
      BY <3>1 DEF Stat, Node
    <3>5. Known(f)'
      BY <3>1, <3>2, <3>4 DEF Known, OwnerSet
    <3> QED
      BY <2>2, <3>1, <3>2, <3>3, <3>5, LookingByKnown
  <2> QED
    BY <2>1, <2>2
<1>3. CASE Chown
  <2>1. PICK f : f = First
    OBVIOUS
  <2>2. /\ UNCHANGED <<root, asRoot, table, todo, touched, info>> /\ at = "chown" /\ at' = "chmod"
        /\ First' = f
    BY <1>3, <2>1, ChownFacts, SameFirst DEF system
  <2>3. Known(f) /\ todo # {} /\ f \notin {root, Dot} /\ asRoot
    BY <2>1, <2>2 DEF Looking, Known
  <2>4. CASE info.owner = GetOwner(f) /\ UNCHANGED <<fs, cleared>>
    <3>1. Stat(f)' = Stat(f) /\ Node(f)' = Node(f) /\ StatOK(f)' = StatOK(f) /\ GetOwner(f)' = GetOwner(f)
      BY <2>2, <2>4, SameWanted DEF Stat, Node, StatOK, Type
    <3>2. Known(f)'
      BY <2>2, <2>3, <2>4, <3>1 DEF Known, OwnerSet
    <3> QED
      BY <2>2, <2>3, <3>2, LookingByKnown
  <2>5. CASE /\ StatOK(f) /\ OnlyAt(Node(f))
             /\ fs'[Node(f)].owner = GetOwner(f)
             /\ \/ fs'[Node(f)].mode = fs[Node(f)].mode /\ cleared' = cleared
                \/ fs'[Node(f)].mode.bits = fs[Node(f)].mode.bits /\ cleared' = cleared \cup {Node(f)}
    <3>1. /\ Node(f)' = Node(f) /\ Type(f)' = Type(f)
          /\ Stat(f)' = fs'[Node(f)] /\ Stat(f)'.type = Stat(f).type
      BY <2>5, OwnNode
    <3>2. GetOwner(f)' = GetOwner(f)
      BY <2>2, <3>1, SameWanted
    <3>3. ASSUME Node(f) \notin touched PROVE info = Stat(f) /\ Stat(f) = fs[Node(f)]
      BY <2>2, <2>3, <2>5, <3>3 DEF Known, Stat
    <3>4. OwnerSet(f)'
      BY <2>5, <3>1, <3>2 DEF OwnerSet
    <3>5. Known(f)'
      BY <2>2, <2>5, <3>1, <3>3, <3>4 DEF Known
    <3> QED
      BY <2>2, <2>3, <3>5, LookingByKnown
  <2> QED
    BY <1>3, <2>1, <2>4, <2>5, ChownFacts
<1>4. CASE Deploy
  <2>1. SUFFICES ASSUME at \in {"chown", "chmod"} PROVE Looking'
    BY <1>4, DeployFacts DEF Looking
  <2>2. PICK f : f = First
    OBVIOUS
  <2>3. UNCHANGED <<root, table, asRoot, todo, at, info>> /\ First' = f
    BY <1>4, <2>2, DeployFacts, SameFirst DEF system
  <2>4. Known(f) /\ todo # {} /\ f \notin {root, Dot} /\ (at = "chown" => asRoot)
    BY <2>1, <2>2 DEF Looking, Known
  <2>5. ASSUME StatOK(f)', Node(f)' \notin touched'
        PROVE  /\ StatOK(f) /\ Node(f)' = Node(f) /\ Node(f) \notin touched
               /\ Stat(f)' = Stat(f) /\ GetOwner(f)' = GetOwner(f)
               /\ Node(f) \in cleared => Node(f) \in cleared'
    BY <1>4, <2>1, <2>3, <2>5, NotPut, SameWanted
  <2>6. Known(f)'
    BY <2>3, <2>4, <2>5 DEF Known, OwnerSet
  <2> QED
    BY <2>3, <2>4, <2>6, LookingByKnown
<1>5. CASE UNCHANGED vars
  <2>1. UNCHANGED <<fs, root, table, asRoot, todo, at, info, touched, cleared>>
    BY <1>5 DEF vars, pass, system
  <2>2. PICK f : f = First
    OBVIOUS
  <2>3. First' = f
    BY <2>1, <2>2, SameFirst
  <2>4. /\ Stat(f)' = Stat(f) /\ Node(f)' = Node(f) /\ StatOK(f)' = StatOK(f)
        /\ GetOwner(f)' = GetOwner(f)
    BY <2>1, SameWanted DEF Stat, Node, StatOK, Type
  <2>5. CASE at \in {"chown", "chmod"}
    <3>1. Known(f) /\ todo # {} /\ f \notin {root, Dot} /\ (at = "chown" => asRoot)
      BY <2>2, <2>5 DEF Looking, Known
    <3>2. Known(f)'
      BY <2>1, <2>4, <3>1 DEF Known, OwnerSet
    <3> QED
      BY <2>1, <2>3, <3>1, <3>2, LookingByKnown
  <2> QED
    BY <2>1, <2>5 DEF Looking
<1> QED
  BY <1>1, <1>2, <1>3, <1>4, <1>5 DEF Next
-----------------------------------------------------------------------------
(* Passes without other writers. *)

\* every step but the start, the end and a Deploy leaves the lists as they were
LEMMA StepsAreAlike ==
  ASSUME TypeOK, ReadPerms \/ ListPaths \/ StatPath \/ Chown \/ Chmod \/ Stop \/ UNCHANGED vars
  PROVE  Alike(fs, fs') /\ UNCHANGED system /\ UNCHANGED clean
<1>1. UNCHANGED fs => Alike(fs, fs')
  BY DEF Alike
<1>2. CASE Chown
  BY <1>1, <1>2, ChownFacts, OnlyAtIsAlike
<1>3. CASE Chmod
  BY <1>1, <1>3, ChmodFacts, OnlyAtIsAlike
<1>4. CASE ReadPerms \/ ListPaths \/ StatPath \/ Stop \/ UNCHANGED vars
  BY <1>1, <1>4 DEF ReadPerms, ListPaths, StatPath, Stop, vars, pass
<1> QED
  BY <1>2, <1>3, <1>4

LEMMA SameListsStep ==
  ASSUME TypeOK, SameLists, [Next]_vars
  PROVE  SameLists'
<1>1. CASE Complete \/ Stop
  BY <1>1 DEF Complete, Stop, Ended, SameLists, Passing
<1>2. CASE Deploy
  <2>1. clean' = 0 /\ UNCHANGED at /\ (at # "idle" => touched' # {})
    BY <1>2, DeployFacts
  <2> QED
    BY <2>1 DEF SameLists, Passing
<1>3. CASE ReadPerms
  <2>1. Rules' = Rules /\ UNCHANGED <<clean, touched>>
    BY <1>3, StepsAreAlike, SameReads DEF ReadPerms
  <2>2. at' = "idle" \/ (at' = "list" /\ table' = Rules)
    BY <1>3 DEF ReadPerms
  <2> QED
    BY <2>1, <2>2 DEF SameLists, Passing
<1>4. CASE ListPaths
  <2>1. Rules' = Rules /\ (PathsOf(Rules))' = PathsOf(Rules) /\ UNCHANGED <<clean, touched, table>>
    BY <1>4, StepsAreAlike, SameReads DEF ListPaths
  <2>2. at = "list" /\ (at' = "endless" \/ (at' = "path" /\ list' = PathsOf(table)))
    BY <1>4 DEF ListPaths
  <2>3. touched = {} => table = Rules
    BY <2>2 DEF SameLists
  <2> QED
    BY <2>1, <2>2, <2>3 DEF SameLists, Passing
<1>5. CASE StatPath \/ Chown \/ Chmod \/ UNCHANGED vars
  <2>1. Rules' = Rules /\ (PathsOf(Rules))' = PathsOf(Rules)
    BY <1>5, StepsAreAlike, SameReads
  <2>2. UNCHANGED <<clean, touched, table, list>>
    BY <1>5, ChownFacts, ChmodFacts DEF StatPath, vars, pass
  <2>3. at' = at \/ (Passing /\ at' # "list")
    BY <1>5, ChownFacts, ChmodFacts DEF StatPath, NextPath, vars, pass, Passing
  <2> QED
    BY <2>1, <2>2, <2>3 DEF SameLists, Passing
<1> QED
  BY <1>1, <1>2, <1>3, <1>4, <1>5 DEF Next

\* what CleanPasses says of a path p
Kept(p) ==
  /\ asRoot => Stat(p).owner = OwnerOf(Rules, p)
  /\ Node(p) \notin cleared
  /\ clean = 2 /\ ModeOf(Rules, p) # ZeroMode => Stat(p).mode = ModeOf(Rules, p)

LEMMA KeptStays ==
  ASSUME UNCHANGED system, UNCHANGED clean, Rules' = Rules, NEW p, Kept(p),
         Stat(p)' = Stat(p), Node(p)' = Node(p), Node(p) \notin cleared'
  PROVE  Kept(p)'
<1>1. Type(p)' = Type(p)
  BY DEF Type
<1> QED
  BY <1>1 DEF Kept, system, OwnerOf, ModeOf

LEMMA CleanStep ==
  ASSUME PermsInv, [Next]_vars
  PROVE  CleanPasses'
<1>0. /\ TypeOK /\ PassedApplied /\ Looking /\ SameLists
      /\ clean > 0 => \A p \in AloneIn(PathsOf(Rules)) : Kept(p)
  BY DEF PermsInv, CleanPasses, Kept
<1> SUFFICES ASSUME clean' > 0, NEW p \in (AloneIn(PathsOf(Rules)))' PROVE Kept(p)'
  BY DEF CleanPasses, Kept
<1>1. CASE Deploy
  <2>1. clean' = 0
    BY <1>0, <1>1, DeployFacts
  <2> QED
    BY <2>1
<1>2. CASE Complete
  <2>1. /\ UNCHANGED <<fs, system>> /\ Passing /\ at = "path" /\ todo = {} /\ cleared' = {}
        /\ clean' = IF touched = {} /\ clean < 2 THEN clean + 1 ELSE clean
    BY <1>2 DEF Complete, Ended, Passing
  <2>2. touched = {}
    BY <1>0, <2>1 DEF SameLists
  <2>3. table = Rules /\ list = PathsOf(Rules)
    BY <1>0, <2>1, <2>2 DEF SameLists
  <2>4. Rules' = Rules /\ (AloneIn(PathsOf(Rules)))' = AloneIn(PathsOf(Rules))
    <3>1. Alike(fs, fs')
      BY <2>1 DEF Alike
    <3> QED
      BY <2>1, <3>1, SameReads
  <2>5. Stat(p)' = Stat(p) /\ Node(p)' = Node(p)
    BY <2>1 DEF Stat, Node
  <2>6. p \in AloneIn(PathsOf(Rules)) /\ Applied(p)
    BY <1>0, <2>1, <2>2, <2>3, <2>4 DEF PassedApplied, Alone
  <2>7. OwnerOf(Rules, p)' = OwnerOf(Rules, p) /\ ModeOf(Rules, p)' = ModeOf(Rules, p)
    BY <2>1, <2>4, <2>5 DEF OwnerOf, ModeOf, Type, system
  <2>8. asRoot => Stat(p).owner = OwnerOf(Rules, p)
    BY <2>3, <2>6 DEF Applied, OwnerSet, GetOwner
  <2>9. ASSUME clean' = 2, ModeOf(Rules, p) # ZeroMode PROVE Stat(p).mode = ModeOf(Rules, p)
    <3>1. clean \in 0 .. 2 /\ clean > 0
      BY <1>0, <2>1, <2>9 DEF TypeOK
    <3>2. Node(p) \notin cleared
      BY <1>0, <2>6, <3>1 DEF Kept
    <3> QED
      BY <2>3, <2>6, <2>9, <3>2 DEF Applied, ModeSet, GetMode
  <2> QED
    BY <2>1, <2>5, <2>7, <2>8, <2>9 DEF Kept, system
<1>3. CASE ReadPerms \/ ListPaths \/ StatPath \/ Chown \/ Chmod \/ Stop \/ UNCHANGED vars
  <2>1. UNCHANGED system /\ UNCHANGED clean
    BY <1>0, <1>3, StepsAreAlike
  <2>2. Rules' = Rules /\ (AloneIn(PathsOf(Rules)))' = AloneIn(PathsOf(Rules))
    BY <1>0, <1>3, StepsAreAlike, SameReads
  <2>3. p \in AloneIn(PathsOf(Rules)) /\ Kept(p) /\ StatOK(p)
    BY <1>0, <2>1, <2>2 DEF AloneIn
  <2>4. ASSUME UNCHANGED fs, cleared' \subseteq cleared PROVE Kept(p)'
    <3>1. Stat(p)' = Stat(p) /\ Node(p)' = Node(p) /\ Node(p) \notin cleared'
      BY <2>3, <2>4 DEF Stat, Node, Kept
    <3> QED
      BY <2>1, <2>2, <2>3, <3>1, KeptStays
  <2>5. CASE ReadPerms \/ ListPaths \/ StatPath \/ Stop \/ UNCHANGED vars
    BY <2>4, <2>5 DEF ReadPerms, ListPaths, StatPath, Stop, Ended, vars, pass
  <2>6. ASSUME Passing PROVE table = Rules /\ list = PathsOf(Rules) /\ touched = {} /\ p \in Alone
    BY <1>0, <2>1, <2>3, <2>6 DEF SameLists, Alone
  <2>7. PICK f : f = First
    OBVIOUS
  <2>8. CASE Chown
    <3>1. Passing /\ at = "chown"
      BY <1>0, <2>8, ChownFacts DEF Passing
    <3>2. f \in list /\ asRoot /\ (StatOK(f) => info = Stat(f))
      BY <1>0, <2>6, <2>7, <3>1, FirstIs DEF Looking
    <3>3. CASE UNCHANGED <<fs, cleared>>
      BY <2>4, <3>3
    <3>4. CASE /\ info.owner # GetOwner(f) /\ StatOK(f) /\ OnlyAt(Node(f))
               /\ cleared' \subseteq cleared \cup {Node(f)}
      <4>1. p # f
        BY <2>3, <2>6, <3>1, <3>2, <3>4 DEF Kept, GetOwner
      <4>2. Node(p)' = Node(p) /\ Node(p) # Node(f) /\ Stat(p)' = Stat(p)
        BY <1>0, <2>6, <3>1, <3>2, <3>4, <4>1, OtherNode
      <4> QED
        BY <2>1, <2>2, <2>3, <3>4, <4>2, KeptStays DEF Kept
    <3> QED
      BY <1>0, <2>7, <2>8, <3>3, <3>4, ChownFacts
  <2>9. CASE Chmod
    <3>1. Passing /\ at = "chmod" /\ cleared' = cleared /\ StatOK(f)
      BY <1>0, <2>7, <2>9, ChmodFacts DEF Passing
    <3>2. f \in list
      BY <1>0, <2>7, <3>1, FirstIs DEF Looking
    <3>3. CASE UNCHANGED fs
      BY <2>4, <3>1, <3>3
    <3>4. CASE OnlyAt(Node(f)) /\ fs'[Node(f)].mode = GetMode(f) /\ fs'[Node(f)].owner = fs[Node(f)].owner
      <4>1. CASE p # f
        <5>1. Node(p)' = Node(p) /\ Stat(p)' = Stat(p)
          BY <1>0, <2>6, <3>1, <3>2, <3>4, <4>1, OtherNode
        <5> QED
          BY <2>1, <2>2, <2>3, <3>1, <5>1, KeptStays DEF Kept
      <4>2. CASE p = f
        <5>1. /\ Node(p)' = Node(p) /\ Type(p)' = Type(p)
              /\ Stat(p)'.mode = ModeOf(Rules, p) /\ Stat(p)'.owner = Stat(p).owner
          BY <1>0, <2>6, <3>1, <3>4, <4>2, OwnNode DEF Stat, GetMode
        <5>2. OwnerOf(Rules, p)' = OwnerOf(Rules, p) /\ ModeOf(Rules, p)' = ModeOf(Rules, p)
          BY <2>1, <2>2, <5>1 DEF OwnerOf, ModeOf, system
        <5> QED
          BY <2>1, <2>3, <3>1, <5>1, <5>2 DEF Kept, system
      <4> QED
        BY <4>1, <4>2
    <3> QED
      BY <1>0, <2>7, <2>9, <3>3, <3>4, ChmodFacts
  <2> QED
    BY <1>3, <2>5, <2>8, <2>9
<1> QED
  BY <1>1, <1>2, <1>3 DEF Next
-----------------------------------------------------------------------------
(* The invariant of a pass: what it has gone through is as the rules say, its *)
(* stat is that of the path it is at, and while nobody puts anything every    *)
(* pass has the same rules and the same list (setSysPerm, xx/perms.go:15).    *)
THEOREM PermsInvAlways == Spec => []PermsInv
<1>1. Init => PermsInv
  <2>1. Init => PassedApplied /\ Looking /\ SameLists /\ CleanPasses
    BY DEF Init, PassedApplied, Passing, Looking, SameLists, CleanPasses
  <2> QED
    BY <2>1, TypeInit DEF PermsInv
<1>2. PermsInv /\ [Next]_vars => PermsInv'
  BY TypeStep, PassedStep, LookingStep, SameListsStep, CleanStep DEF PermsInv
<1> QED
  BY <1>1, <1>2, PTL DEF Spec

(* A complete pass has set owner and mode of every path of its list that has  *)
(* one name and that nobody else has written, up to a setuid that a chown of  *)
(* this pass has cleared; a user or group that the system does not know is    *)
(* root (xx/perms.go:44-63, 313).                                             *)
THEOREM PassIsApplied == Spec => []PassApplied
<1>1. PermsInv => PassApplied
  BY DEF PermsInv, PassedApplied, Passing, PassApplied
<1> QED
  BY <1>1, PermsInvAlways, PTL

(* After two complete passes with nothing put since, owners, with root for    *)
(* unknown names, and modes are exact, and every later step of a pass keeps   *)
(* them so (xx/perms.go:55-63).                                               *)
THEOREM TwoPassesAreExact == Spec => []TwicePassed
<1>1. ASSUME PermsInv, clean = 2, at \in {"path", "chown", "chmod"}, NEW p \in Alone
      PROVE  OwnerSet(p) /\ ModeSet(p)
  <2>1. table = Rules /\ list = PathsOf(Rules)
    BY <1>1 DEF PermsInv, SameLists, Passing
  <2>2. p \in AloneIn(PathsOf(Rules))
    BY <1>1, <2>1 DEF Alone
  <2> QED
    BY <1>1, <2>1, <2>2 DEF PermsInv, CleanPasses, OwnerSet, ModeSet, GetOwner, GetMode
<1>2. PermsInv => TwicePassed
  BY <1>1 DEF TwicePassed
<1> QED
  BY <1>2, PermsInvAlways, PTL
-----------------------------------------------------------------------------
(* The list: sorting keeps every path. *)

LEMMA PathsAreFinite ==
  ASSUME NEW S \in SUBSET (Path \cup {Dot})
  PROVE  IsFiniteSet(S)
<1> DEFINE N == Len(StringOrder)
           All == ToSet(StringOrder)
<1>1. N \in Nat /\ DOMAIN StringOrder = 1 .. N /\ StringOrder \in [1 .. N -> Seq(STRING)]
  BY PathAssumption
<1>2. IsFiniteSet(1 .. N)
  BY <1>1, FS_Interval
<1>3. StringOrder \in Surjection(1 .. N, All)
  BY <1>1 DEF Surjection, ToSet
<1>4. IsFiniteSet(All)
  BY <1>2, <1>3, FS_Surjection
<1>5. S \subseteq All
  BY PathAssumption DEF Path
<1> QED
  BY <1>4, <1>5, FS_Subset

LEMMA SortedKeeps ==
  ASSUME NEW S \in SUBSET (Path \cup {Dot}), NEW p \in S
  PROVE  \E i \in 1 .. Cardinality(S) : Sorted(S)[i] = p
<1> DEFINE Preds(x) == {q \in S : Before(q, x)}
           i == Cardinality(Preds(p)) + 1
<1>1. IsFiniteSet(S) /\ Cardinality(S) \in Nat
  BY PathsAreFinite, FS_CardinalityType
<1>2. \A x \in S : /\ IsFiniteSet(Preds(x)) /\ Cardinality(Preds(x)) \in Nat
                   /\ Preds(x) \in SUBSET S
  BY <1>1, FS_Subset, FS_CardinalityType
<1>3. \A x \in S : Rank[x] \in Nat
  BY RankIs
<1>4. Cardinality(Preds(p)) < Cardinality(S)
  <2>1. p \notin Preds(p)
    BY <1>3 DEF Before
  <2>2. Preds(p) # S /\ Cardinality(Preds(p)) <= Cardinality(S)
    BY <1>1, <1>2, <2>1, FS_Subset
  <2>3. Cardinality(Preds(p)) # Cardinality(S)
    BY <1>1, <1>2, <2>2, FS_Subset
  <2> QED
    BY <1>1, <1>2, <2>2, <2>3
<1>5. ASSUME NEW x \in S, NEW y \in S, Before(x, y)
      PROVE  Cardinality(Preds(x)) # Cardinality(Preds(y))
  <2>1. Preds(x) \in SUBSET Preds(y) /\ x \in Preds(y) /\ x \notin Preds(x)
    BY <1>3, <1>5 DEF Before
  <2>2. Preds(x) # Preds(y) /\ IsFiniteSet(Preds(y))
    BY <1>2, <2>1
  <2> HIDE DEF Preds
  <2> QED
    BY <2>1, <2>2, FS_Subset
<1>6. \A x \in S : Cardinality(Preds(x)) = i - 1 => x = p
  <2>1. \A x \in S : Cardinality(Preds(x)) = Cardinality(Preds(p)) => ~Before(x, p) /\ ~Before(p, x)
    BY <1>5
  <2>2. \A x \in S : ~Before(x, p) /\ ~Before(p, x) => x = p
    BY OneRank
  <2>3. i - 1 = Cardinality(Preds(p))
    BY <1>2
  <2> HIDE DEF Preds, i
  <2> QED
    BY <2>1, <2>2, <2>3
<1>7. i \in 1 .. Cardinality(S) /\ Cardinality(Preds(p)) = i - 1
  <2> DEFINE c == Cardinality(Preds(p))
             n == Cardinality(S)
  <2>1. c \in Nat /\ n \in Nat /\ c < n
    BY <1>1, <1>2, <1>4
  <2> HIDE DEF c, n
  <2>2. c + 1 \in 1 .. n /\ c = (c + 1) - 1
    BY <2>1
  <2> QED
    BY <2>2 DEF c, n
<1>8. Sorted(S)[i] = CHOOSE x \in S : Cardinality(Preds(x)) = i - 1
  BY <1>7 DEF Sorted
<1> HIDE DEF Preds, i
<1>9. Sorted(S)[i] = p
  BY <1>6, <1>7, <1>8
<1> QED
  BY <1>7, <1>9
-----------------------------------------------------------------------------
(* The directories to walk: each path with a rule for all that is below has   *)
(* one of them above it, or is one.                                           *)

\* what getRootDirs has after each number of paths
IsAfter(g, top, recPaths, n) ==
  g = [m \in 0 .. n |-> IF m = 0 THEN <<>> ELSE AddRootDir(top, g[m - 1], recPaths[m], recPaths)]

LEMMA AfterExists ==
  ASSUME NEW top, NEW recPaths, NEW N \in Nat
  PROVE  \E g : IsAfter(g, top, recPaths, N)
<1> DEFINE Has(n) == \E g : IsAfter(g, top, recPaths, n)
           T == {n \in 0 .. N : ~Has(n)}
<1>1. SUFFICES ASSUME T # {} PROVE FALSE
  <2>1. T = {} => Has(N)
    OBVIOUS
  <2> QED
    BY <2>1
<1>2. PICK k \in T : \A n \in T : k <= n
  <2>1. T \in SUBSET Nat
    OBVIOUS
  <2> HIDE DEF T
  <2> QED
    BY <1>1, <2>1, LeastNat
<1>3. CASE k = 0
  <2> DEFINE g == [m \in 0 .. 0 |-> <<>>]
  <2>1. IsAfter(g, top, recPaths, 0)
    BY DEF IsAfter
  <2> QED
    BY <1>2, <1>3, <2>1
<1>4. CASE k # 0
  <2>1. k \in Nat /\ k - 1 \in 0 .. N /\ k - 1 \notin T
    BY <1>2, <1>4
  <2>2. PICK g : IsAfter(g, top, recPaths, k - 1)
    BY <2>1
  <2> DEFINE Step(x, m) == AddRootDir(top, x, recPaths[m], recPaths)
             h == [m \in 0 .. k |-> IF m = k THEN Step(g[k - 1], k) ELSE g[m]]
  <2>3. g = [m \in 0 .. k - 1 |-> IF m = 0 THEN <<>> ELSE Step(g[m - 1], m)]
    BY <2>2 DEF IsAfter
  <2> HIDE DEF Step
  <2>4. ASSUME NEW m \in 0 .. k PROVE h[m] = IF m = 0 THEN <<>> ELSE Step(h[m - 1], m)
    <3>1. CASE m = k
      <4>1. h[m] = Step(g[k - 1], k) /\ k - 1 \in 0 .. k /\ k - 1 # k
        BY <2>1, <3>1
      <4>2. h[k - 1] = g[k - 1]
        BY <4>1
      <4> QED
        BY <1>4, <3>1, <4>1, <4>2
    <3>2. CASE m # k
      <4>1. m \in 0 .. k - 1 /\ h[m] = g[m]
        BY <2>1, <3>2
      <4>2. m # 0 => h[m - 1] = g[m - 1]
        BY <2>1, <2>4, <3>2
      <4> QED
        BY <2>3, <4>1, <4>2
    <3> QED
      BY <3>1, <3>2
  <2>5. h = [m \in 0 .. k |-> IF m = 0 THEN <<>> ELSE Step(h[m - 1], m)]
    <3>1. h = [m \in 0 .. k |-> h[m]]
      OBVIOUS
    <3> HIDE DEF h
    <3> QED
      BY <2>4, <3>1
  <2>6. IsAfter(h, top, recPaths, k)
    BY <2>5 DEF IsAfter, Step
  <2> QED
    BY <1>2, <2>6
<1> QED
  BY <1>3, <1>4

LEMMA RootDirsAre ==
  ASSUME NEW top, NEW recPaths, Len(recPaths) \in Nat
  PROVE  \E g : IsAfter(g, top, recPaths, Len(recPaths)) /\ RootDirs(top, recPaths) = g[Len(recPaths)]
<1> DEFINE g == CHOOSE g : IsAfter(g, top, recPaths, Len(recPaths))
<1>1. IsAfter(g, top, recPaths, Len(recPaths))
  BY AfterExists
<1>2. RootDirs(top, recPaths) = g[Len(recPaths)]
  BY DEF RootDirs, IsAfter
<1> QED
  BY <1>1, <1>2

LEMMA AppendIs ==
  ASSUME NEW X, NEW s \in Seq(X), NEW e
  PROVE  /\ Append(s, e) \in Seq(X \cup {e})
         /\ ToSet(s) \cup {e} = ToSet(Append(s, e))
<1>1. s \in Seq(X \cup {e}) /\ e \in X \cup {e}
  OBVIOUS
<1>2. Append(s, e) \in Seq(X \cup {e})
  BY <1>1
<1>3. /\ Len(s) \in Nat /\ DOMAIN s = 1 .. Len(s) /\ DOMAIN Append(s, e) = 1 .. Len(s) + 1
      /\ \A i \in 1 .. Len(s) : Append(s, e)[i] = s[i]
      /\ Append(s, e)[Len(s) + 1] = e
  BY <1>1
<1>4. 1 .. Len(s) + 1 = 1 .. Len(s) \cup {Len(s) + 1}
  BY <1>3
<1>5. ToSet(s) \cup {e} = ToSet(Append(s, e))
  BY <1>3, <1>4 DEF ToSet
<1> QED
  BY <1>2, <1>5

LEMMA AboveIs ==
  ASSUME NEW top, NEW recPaths, NEW dir \in Path
  PROVE  \E m \in 0 .. Len(dir) : Above(top, dir, recPaths) = SubSeq(dir, 1, m)
<1> DEFINE Ends(n) == n = 0 \/ SubSeq(dir, 1, n) = top \/ StringExists(SubSeq(dir, 1, n), recPaths)
           above == {n \in 0 .. Len(dir) : (n < Len(dir) \/ n = 0) /\ Ends(n)}
           last == CHOOSE n \in above : \A m \in above : m <= n
<1>1. Len(dir) \in Nat
  BY PathIs
<1>2. 0 \in above
  BY <1>1
<1>3. above \in SUBSET (0 .. Len(dir))
  OBVIOUS
<1>4. Above(top, dir, recPaths) = SubSeq(dir, 1, last)
  BY DEF Above, Path
<1> HIDE DEF above
<1>5. \E n \in above : \A m \in above : m <= n
  <2> DEFINE T == {Len(dir) - n : n \in above}
  <2>1. T \in SUBSET Nat /\ T # {}
    BY <1>1, <1>2, <1>3
  <2>2. PICK k \in T : \A m \in T : k <= m
    <3> HIDE DEF T
    <3> QED
      BY <2>1, LeastNat
  <2>3. PICK n \in above : k = Len(dir) - n
    BY <2>2
  <2>4. \A m \in above : Len(dir) - n <= Len(dir) - m
    BY <2>2, <2>3
  <2> QED
    BY <1>1, <1>3, <2>3, <2>4
<1>6. last \in 0 .. Len(dir)
  BY <1>3, <1>5
<1> QED
  BY <1>4, <1>6

\* one of the paths above p, or p
Heads(p) == {SubSeq(p, 1, n) : n \in 0 .. Len(p)}

LEMMA AddKeepsAndCovers ==
  ASSUME NEW top, NEW recPaths, NEW X, NEW rootDirs \in Seq(X), NEW dir
  PROVE  /\ \E Y : AddRootDir(top, rootDirs, dir, recPaths) \in Seq(Y)
         /\ ToSet(rootDirs) \subseteq ToSet(AddRootDir(top, rootDirs, dir, recPaths))
         /\ dir \in Path => ToSet(AddRootDir(top, rootDirs, dir, recPaths)) \cap Heads(dir) # {}
<1> DEFINE added == AddRootDir(top, rootDirs, dir, recPaths)
           d == Above(top, dir, recPaths)
           e == IF d = top THEN dir ELSE d
           pathExists == \E x \in {d, Dir(d), dir} : StringExists(x, rootDirs)
<1>1. \/ added = rootDirs /\ (d = Dot \/ dir = Dot \/ pathExists)
      \/ added = Append(rootDirs, e)
  BY DEF AddRootDir
<1>2. (\E Y : added \in Seq(Y)) /\ ToSet(rootDirs) \subseteq ToSet(added)
  <2> HIDE DEF added, e
  <2>1. CASE added = rootDirs
    BY <2>1
  <2>2. CASE added = Append(rootDirs, e)
    BY <2>2, AppendIs
  <2> QED
    BY <1>1, <2>1, <2>2
<1>3. ASSUME dir \in Path PROVE ToSet(added) \cap Heads(dir) # {}
  <2>1. dir \in Seq(STRING) /\ Len(dir) \in Nat /\ dir # Dot
    BY <1>3, PathIs DEF Path
  <2>2. dir = SubSeq(dir, 1, Len(dir))
    BY <2>1
  <2>3. dir \in Heads(dir)
    <3>1. Len(dir) \in 0 .. Len(dir)
      BY <2>1
    <3> QED
      BY <2>2, <3>1 DEF Heads
  <2>4. PICK m \in 0 .. Len(dir) : d = SubSeq(dir, 1, m)
    BY <1>3, AboveIs
  <2>5. d \in Heads(dir) /\ d \in Path /\ Len(d) = m /\ d # Dot
    BY <1>3, <2>4, PathIs DEF Heads, Path
  <2>6. Dir(d) \in Heads(dir)
    <3>1. CASE d = <<>>
      BY <2>5, <3>1 DEF Dir
    <3>2. CASE d # <<>>
      <4>1. m # 0
        BY <2>5, <3>2, PathIs
      <4>2. Dir(d) = SubSeq(d, 1, m - 1) /\ m - 1 \in 0 .. m /\ m - 1 \in 0 .. Len(dir)
        BY <2>1, <2>4, <2>5, <3>2, <4>1 DEF Dir, Front
      <4>3. Dir(d) = SubSeq(dir, 1, m - 1)
        BY <1>3, <2>4, <4>2, PrefixOfPrefix
      <4> QED
        BY <4>2, <4>3 DEF Heads
    <3> QED
      BY <3>1, <3>2
  <2> HIDE DEF added
  <2>7. CASE added = rootDirs /\ pathExists
    <3>1. PICK x \in {d, Dir(d), dir} : StringExists(x, rootDirs)
      BY <2>7
    <3>2. x \in ToSet(rootDirs)
      BY <3>1 DEF StringExists, ToSet
    <3> QED
      BY <2>3, <2>5, <2>6, <2>7, <3>1, <3>2
  <2>8. CASE added = Append(rootDirs, e)
    <3>1. e \in Heads(dir)
      BY <2>3, <2>5
    <3> HIDE DEF e
    <3>2. e \in ToSet(added)
      BY <2>8, AppendIs
    <3> QED
      BY <3>1, <3>2
  <2> QED
    BY <1>1, <2>1, <2>5, <2>7, <2>8
<1> QED
  BY <1>2, <1>3

LEMMA RootDirsCover ==
  ASSUME NEW top, NEW recPaths, Len(recPaths) \in Nat, NEW j \in 1 .. Len(recPaths), recPaths[j] \in Path
  PROVE  ToSet(RootDirs(top, recPaths)) \cap Heads(recPaths[j]) # {}
<1> DEFINE N == Len(recPaths)
<1>1. PICK g : IsAfter(g, top, recPaths, N) /\ RootDirs(top, recPaths) = g[N]
  BY RootDirsAre
<1> DEFINE Covers(n) == /\ \E X : g[n] \in Seq(X)
                        /\ j <= n => ToSet(g[n]) \cap Heads(recPaths[j]) # {}
           T == {n \in 0 .. N : ~Covers(n)}
<1>2. SUFFICES ASSUME T # {} PROVE FALSE
  <2>1. N \in 0 .. N /\ j <= N
    OBVIOUS
  <2>2. T = {} => Covers(N)
    BY <2>1
  <2> QED
    BY <1>1, <2>1, <2>2
<1>3. PICK k \in T : \A n \in T : k <= n
  <2>1. T \in SUBSET Nat
    OBVIOUS
  <2> HIDE DEF T
  <2> QED
    BY <1>2, <2>1, LeastNat
<1>4. \A m \in 0 .. N : g[m] = IF m = 0 THEN <<>> ELSE AddRootDir(top, g[m - 1], recPaths[m], recPaths)
  <2>1. g = [m \in 0 .. N |-> IF m = 0 THEN <<>> ELSE AddRootDir(top, g[m - 1], recPaths[m], recPaths)]
    BY <1>1 DEF IsAfter
  <2> QED
    BY <2>1
<1>5. CASE k = 0
  <2>1. g[0] = <<>>
    BY <1>4, <1>5
  <2>2. g[0] \in Seq({})
    BY <2>1
  <2> QED
    BY <1>3, <1>5, <2>2
<1>6. CASE k # 0
  <2>1. k \in 1 .. N /\ k - 1 \in 0 .. N /\ k - 1 \notin T
    BY <1>3, <1>6
  <2>2. Covers(k - 1)
    BY <2>1
  <2>3. PICK X : g[k - 1] \in Seq(X)
    BY <2>2
  <2>4. g[k] = AddRootDir(top, g[k - 1], recPaths[k], recPaths)
    BY <1>4, <1>6, <2>1
  <2>5. /\ \E Y : g[k] \in Seq(Y)
        /\ ToSet(g[k - 1]) \subseteq ToSet(g[k])
        /\ recPaths[k] \in Path => ToSet(g[k]) \cap Heads(recPaths[k]) # {}
    <3>1. PICK s, dir : s = g[k - 1] /\ dir = recPaths[k]
      OBVIOUS
    <3>2. s \in Seq(X) /\ g[k] = AddRootDir(top, s, dir, recPaths)
      BY <2>3, <2>4, <3>1
    <3> HIDE DEF Covers
    <3>3. s \in Seq(X)
      BY <3>2
    <3>4. /\ \E Y : AddRootDir(top, s, dir, recPaths) \in Seq(Y)
          /\ ToSet(s) \subseteq ToSet(AddRootDir(top, s, dir, recPaths))
          /\ dir \in Path => ToSet(AddRootDir(top, s, dir, recPaths)) \cap Heads(dir) # {}
      BY <3>3, AddKeepsAndCovers
    <3> QED
      BY <3>1, <3>2, <3>4
  <2>6. j <= k => ToSet(g[k]) \cap Heads(recPaths[j]) # {}
    <3>1. CASE j = k
      BY <2>5, <3>1
    <3>2. CASE j <= k - 1
      BY <2>2, <2>5, <3>2
    <3> QED
      BY <2>1, <3>1, <3>2
  <2> QED
    BY <1>3, <2>5, <2>6
<1> QED
  BY <1>5, <1>6
-----------------------------------------------------------------------------
(* The list is complete. *)

LEMMA RecPathsAre ==
  ASSUME NEW S \in SUBSET (Path \cup {Dot})
  PROVE  Len(Sorted(S)) = Cardinality(S) /\ Cardinality(S) \in Nat
<1>1. Cardinality(S) \in Nat
  BY PathsAreFinite, FS_CardinalityType
<1> DEFINE n == Cardinality(S)
           Elems == {Sorted(S)[i] : i \in 1 .. n}
<1>2. Sorted(S) = [i \in 1 .. n |-> Sorted(S)[i]]
  BY DEF Sorted
<1>3. Sorted(S) \in [1 .. n -> Elems]
  BY <1>2
<1> HIDE DEF n, Elems
<1>4. n \in Nat
  BY <1>1 DEF n
<1>5. Len(Sorted(S)) = n
  BY <1>3, <1>4
<1> QED
  BY <1>1, <1>5 DEF n

\* what is below a path that has a rule for all below it is walked
LEMMA BelowIsWalked ==
  ASSUME TypeOK, NEW t, UniqueSlice(ListOf(Recursive(t)), MoreOf(Recursive(t))) \subseteq Path \cup {Dot},
         NEW p \in DOMAIN fs, StatOK(p), Stat(p).type \in {"file", "dir"},
         ~\E v \in Volatile : IsStrictPrefix(v, p),
         NEW i \in 0 .. Len(p), SubSeq(p, 1, i) \in UniqueSlice(ListOf(Recursive(t)), MoreOf(Recursive(t)))
  PROVE  p \in Listing(t).all
<1> DEFINE U == UniqueSlice(ListOf(Recursive(t)), MoreOf(Recursive(t)))
           q == SubSeq(p, 1, i)
           recPaths == RecPaths(t)
           rootDirs == RootDirs(root, recPaths)
<1>1. p \in Path /\ Placed(p) /\ p \in Seq(STRING) /\ Len(p) \in Nat /\ q \in Path /\ Len(q) = i
  BY PathIs DEF TypeOK, Placed
<1>2. recPaths = Sorted(U)
  BY DEF RecPaths
<1>3. U \in SUBSET (Path \cup {Dot}) /\ q \in U
  OBVIOUS
<1> HIDE DEF U, recPaths
<1>4. PICK j \in 1 .. Len(recPaths) : recPaths[j] = q
  BY <1>2, <1>3, SortedKeeps, RecPathsAre
<1>5. Len(recPaths) \in Nat
  BY <1>2, <1>3, RecPathsAre
<1>6. ToSet(rootDirs) \cap Heads(q) # {}
  BY <1>1, <1>4, <1>5, RootDirsCover
<1> HIDE DEF q, rootDirs
<1>7. PICK r \in ToSet(rootDirs) : r \in Heads(q)
  BY <1>6
<1>8. PICK m \in 0 .. i : r = SubSeq(q, 1, m)
  BY <1>1, <1>7 DEF Heads
<1>9. r = SubSeq(p, 1, m) /\ m \in 0 .. Len(p)
  BY <1>1, <1>8, PrefixOfPrefix DEF q
<1>10. IsPrefix(r, p)
  <2>1. Len(r) = m /\ r \in Path
    BY <1>1, <1>9, PathIs
  <2>2. SubSeq(r, 1, m) = r
    <3>1. r \in Seq(STRING)
      BY <2>1, PathIs
    <3> QED
      BY <2>1, <3>1
  <2> QED
    BY <1>1, <1>9, <2>1, <2>2 DEF IsPrefix
<1>11. StatOK(r)
  <2>1. CASE m = Len(p)
    <3>1. r = p
      BY <1>1, <1>9, <2>1
    <3> QED
      BY <3>1
  <2>2. CASE m # Len(p)
    <3>1. m \in 0 .. Len(p) - 1
      BY <1>1, <1>9, <2>2
    <3>2. r \in DOMAIN fs /\ fs[r].type = "dir"
      BY <1>1, <1>9, <3>1 DEF Placed
    <3> QED
      BY <3>2 DEF StatOK, Node
  <2> QED
    BY <2>1, <2>2
<1>12. p \in Walk(r)
  BY <1>10, <1>11 DEF Walk
<1>13. PICK k \in DOMAIN rootDirs : rootDirs[k] = r
  BY <1>7 DEF ToSet
<1>14. UNION {Walk(rootDirs[x]) : x \in DOMAIN rootDirs} \subseteq Listing(t).all
  BY DEF Listing, Visited, rootDirs, recPaths
<1> QED
  BY <1>12, <1>13, <1>14

\* a path of the list stays on it, or is the last
LEMMA OnListOrLast ==
  ASSUME TypeOK, NEW p \in Listing(table).all
  PROVE  p \in PathsOf(table) \/ \A q \in PathsOf(table) : Before(q, p)
<1> DEFINE all == Listing(table).all
           more == Listing(table).more
<1>1. PathsOf(table) = UniqueSlice(all, more)
  BY DEF PathsOf, OneOfEach
<1>2. all \subseteq Path \cup {Dot}
  BY ListTyped
<1> HIDE DEF all, more
<1>3. ASSUME p \notin PathsOf(table), NEW q \in PathsOf(table) PROVE Before(q, p)
  <2>1. p \in Lost(all, more) /\ q \in all /\ q # p
    BY <1>1, <1>3 DEF UniqueSlice, all
  <2>2. ~Before(p, q)
    BY <2>1 DEF Lost
  <2>3. p \in Path \cup {Dot} /\ q \in Path \cup {Dot}
    BY <1>2, <2>1 DEF all
  <2> QED
    BY <2>1, <2>2, <2>3, OneRank
<1> QED
  BY <1>3

Due(p) ==
  /\ StatOK(p) /\ Stat(p).type \in {"file", "dir"} /\ GetMode(p) # ZeroMode
  /\ ~\E v \in Volatile : IsStrictPrefix(v, p)
OnList(p) ==
  \/ p \in list \/ p = root
  \/ \A q \in list : Before(q, p)
  \/ LostBy(Recursive(table), p) \/ p \in Lost(ListOf(Fixed(table)), MoreOf(Fixed(table)))
Listable(p) == Due(p) => \/ p \in Listing(table).all
                         \/ LostBy(Recursive(table), p)
                         \/ p \in Lost(ListOf(Fixed(table)), MoreOf(Fixed(table)))

LEMMA DueIsListable ==
  ASSUME TypeOK, NEW p \in DOMAIN fs
  PROVE  Listable(p)
<1> SUFFICES ASSUME Due(p), p \notin Lost(ListOf(Fixed(table)), MoreOf(Fixed(table))),
                    ~LostBy(Recursive(table), p)
             PROVE  p \in Listing(table).all
  BY DEF Listable
<1> DEFINE kind == Type(p)
           recs == {q \in Upward(root, p) : <<kind, q, TRUE>> \in DOMAIN table}
<1>1. p \in Path /\ p \in Seq(STRING) /\ Len(p) \in Nat
  BY PathIs DEF TypeOK, Placed
<1>2. kind # "owner"
  BY DEF Type
<1>3. <<kind, p, FALSE>> \in DOMAIN table \/ recs # {}
  BY DEF Due, GetMode, ModeOf, Says
<1> HIDE DEF kind
<1>4. CASE <<kind, p, FALSE>> \in DOMAIN table
  <2> DEFINE k == <<kind, p, FALSE>>
  <2>1. k \in Fixed(table) /\ Listed(k) = p
    BY <1>2, <1>4 DEF Fixed, Recursive, Listed
  <2>2. p \in ListOf(Fixed(table))
    BY <2>1 DEF ListOf
  <2>3. p \in FixedPaths(table)
    BY <2>2 DEF FixedPaths, UniqueSlice
  <2> QED
    BY <2>3 DEF Listing, Visited
<1>5. CASE recs # {}
  <2>1. PICK q \in Upward(root, p) : <<kind, q, TRUE>> \in DOMAIN table
    BY <1>5
  <2>2. PICK i \in 0 .. Len(p) : q = SubSeq(p, 1, i)
    <3>1. Len(root) \in Nat
      BY SystemsAssumption, PathIs DEF TypeOK
    <3> QED
      BY <1>1, <2>1, <3>1 DEF Upward
  <2> DEFINE k == <<kind, q, TRUE>>
  <2>3. k \in Recursive(table) /\ Listed(k) = q
    BY <1>2, <2>1 DEF Recursive, Listed
  <2>4. q \in ListOf(Recursive(table))
    BY <2>3 DEF ListOf
  <2>5. IsPrefix(q, p)
    <3>1. Len(q) = i /\ q \in Seq(STRING)
      BY <1>1, <2>2, PathIs
    <3>2. SubSeq(q, 1, i) = q
      BY <3>1
    <3> QED
      BY <1>1, <2>2, <3>1, <3>2 DEF IsPrefix
  <2>6. q \in UniqueSlice(ListOf(Recursive(table)), MoreOf(Recursive(table)))
    BY <2>4, <2>5 DEF UniqueSlice, LostBy
  <2>7. UniqueSlice(ListOf(Recursive(table)), MoreOf(Recursive(table))) \subseteq Path \cup {Dot}
    <3>1. \A x \in DOMAIN table : Listed(x) \in Path \cup {Dot}
      BY DEF TypeOK, Listed
    <3> QED
      BY <3>1 DEF UniqueSlice, ListOf, Recursive
  <2> QED
    BY <2>2, <2>6, <2>7, BelowIsWalked DEF Due
<1> QED
  BY <1>3, <1>4, <1>5

LEMMA ListCompleteIs ==
  ListComplete = (at = "path" /\ todo = list =>
                    \A p \in DOMAIN fs : p \notin touched /\ Node(p) \notin touched /\ Due(p) => OnList(p))
  BY DEF ListComplete, Due, OnList

LEMMA ListCompleteStep ==
  ASSUME PermsInv, ListComplete, [Next]_vars
  PROVE  ListComplete'
<1>0. TypeOK /\ Looking
  BY DEF PermsInv
<1> SUFFICES ASSUME at' = "path", todo' = list',
                    NEW p \in DOMAIN fs', p \notin touched', Node(p)' \notin touched', Due(p)'
             PROVE  OnList(p)'
  BY DEF ListComplete, Due, OnList
<1>1. CASE ReadPerms \/ Complete \/ Stop \/ Chown
  BY <1>0, <1>1, ChownFacts DEF ReadPerms, Complete, Stop, Ended
<1>2. CASE ListPaths
  <2>1. UNCHANGED <<fs, root, table>> /\ list' = PathsOf(table)
    BY <1>2 DEF ListPaths, system
  <2>2. Due(p) /\ p \in DOMAIN fs
    BY <2>1 DEF Due, StatOK, Stat, Node, GetMode, ModeOf, Type
  <2>3. \/ p \in Listing(table).all
        \/ LostBy(Recursive(table), p)
        \/ p \in Lost(ListOf(Fixed(table)), MoreOf(Fixed(table)))
    BY <1>0, <2>2, DueIsListable DEF Listable
  <2>4. p \in Listing(table).all => p \in list' \/ \A q \in list' : Before(q, p)
    BY <1>0, <2>1, OnListOrLast
  <2> QED
    BY <2>1, <2>3, <2>4 DEF OnList
<1>3. CASE StatPath \/ Chmod
  <2>1. First \in todo /\ First \notin todo' /\ list' = list
    BY <1>0, <1>3, FirstIs DEF StatPath, Chmod, NextPath, Looking
  <2> QED
    BY <1>0, <2>1 DEF TypeOK
<1>4. CASE Deploy
  <2>1. UNCHANGED <<root, at, table, list, todo>>
    BY <1>0, <1>4, DeployFacts DEF system
  <2>2. /\ StatOK(p) /\ Node(p)' = Node(p) /\ Node(p) \notin touched
        /\ Stat(p)' = Stat(p) /\ Type(p)' = Type(p)
    BY <1>0, <1>4, <2>1, NotPut DEF Due
  <2>3. p \notin touched
    <3>1. touched \subseteq touched'
      BY <1>0, <1>4, <2>1, DeployFacts
    <3> QED
      BY <3>1
  <2>4. Due(p)
    BY <2>1, <2>2, SameWanted DEF Due
  <2>5. OnList(p)
    BY <2>1, <2>2, <2>3, <2>4, ListCompleteIs DEF StatOK
  <2> QED
    BY <2>1, <2>5 DEF OnList
<1>5. CASE UNCHANGED vars
  <2>1. UNCHANGED <<fs, root, at, table, list, todo, touched>>
    BY <1>5 DEF vars, pass, system
  <2>2. Due(p) /\ Node(p)' = Node(p)
    BY <2>1 DEF Due, StatOK, Stat, Node, GetMode, ModeOf, Type
  <2>3. OnList(p)
    BY <2>1, <2>2, ListCompleteIs
  <2> QED
    BY <2>1, <2>3 DEF OnList
<1> QED
  BY <1>1, <1>2, <1>3, <1>4, <1>5 DEF Next

(* Every file and directory that a rule gives a mode is in the list of the    *)
(* pass, unless uniqueSlice has lost it: getRootDirs leaves out no directory  *)
(* that is not below another one of its list (xx/perms.go:147).               *)
THEOREM NothingIsLeftOut == Spec => []ListComplete
<1>1. Init => ListComplete
  BY DEF Init, ListComplete
<1>2. PermsInv /\ ListComplete /\ [Next]_vars => ListComplete'
  BY ListCompleteStep
<1> QED
  BY <1>1, <1>2, PermsInvAlways, PTL DEF Spec
=============================================================================
