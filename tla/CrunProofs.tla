----------------------------- MODULE CrunProofs -----------------------------
(* crun: CrunInv is an invariant of Crun for every number of processes and    *)
(* containers and every cnt.conf, and with it AddressesDiffer, LinksComplete, *)
(* OwnRun and NothingLost.                                                    *)
EXTENDS Crun, TLAPS, WellFoundedInduction, FiniteSetTheorems

LEMMA EmptyDomain == DOMAIN << >> = {}
OBVIOUS

LEMMA MinExists ==
  ASSUME NEW S \in SUBSET Nat, S # {}
  PROVE  \E n \in S : \A m \in S : n <= m
<1>1. PICK n \in S : \A m \in S : <<m, n>> \notin OpToRel(<, Nat)
  BY WFMin, NatLessThanWellFounded, Zenon
<1>2. \A m \in S : ~ (m < n)
  BY <1>1, Zenon DEF OpToRel
<1>3. \A m \in S : m \in Nat /\ n \in Nat
  BY <1>1
<1>4. \A m \in S : n <= m
  BY <1>2, <1>3
<1>. QED  BY <1>1, <1>4
-----------------------------------------------------------------------------
(* The numbers of the lines of cnt.conf. *)
LEMMA BinsFacts ==
  ASSUME NEW cf \in Conf
  PROVE  /\ cf.bins \in Seq(BinLine) /\ DOMAIN cf.bins = 1 .. Len(cf.bins) /\ Len(cf.bins) \in Nat
         /\ \A i \in DOMAIN cf.bins : i \in Nat /\ i >= 1 /\ cf.bins[i].cnt \in Cnt /\ cf.bins[i].bin \in Bin
<1>1. cf.bins \in Seq(BinLine)
  BY DEF Conf
<1>2. DOMAIN cf.bins = 1 .. Len(cf.bins) /\ Len(cf.bins) \in Nat
  BY <1>1
<1>3. \A i \in DOMAIN cf.bins : cf.bins[i] \in BinLine
  BY <1>1
<1>. QED  BY <1>1, <1>2, <1>3 DEF BinLine

LEMMA LineExists ==
  ASSUME NEW cf \in Conf, NEW b, Known(cf, b)
  PROVE  LineOf(cf, b) \in DOMAIN cf.bins /\ cf.bins[LineOf(cf, b)].bin = b
<1> DEFINE S == {i \in DOMAIN cf.bins : cf.bins[i].bin = b}
<1>1. S \in SUBSET Nat /\ S # {}
  BY BinsFacts DEF Known
<1>2. PICK n \in S : \A m \in S : n <= m
  BY <1>1, MinExists
<1>3. \A j \in 1 .. n - 1 : cf.bins[j].bin # b
  <2>1. SUFFICES ASSUME NEW j \in 1 .. n - 1, cf.bins[j].bin = b PROVE FALSE
    OBVIOUS
  <2>2. n \in 1 .. Len(cf.bins) /\ Len(cf.bins) \in Nat
    BY <1>2, BinsFacts
  <2>3. j \in 1 .. Len(cf.bins) /\ j < n
    BY <2>1, <2>2
  <2>4. j \in S
    BY <2>1, <2>3, BinsFacts
  <2>5. n <= j
    BY <1>2, <2>4
  <2>. QED  BY <2>2, <2>3, <2>5
<1>. QED  BY <1>2, <1>3 DEF LineOf

LEMMA ChangesFinite ==
  ASSUME NEW cf \in Conf, NEW n \in DOMAIN cf.bins
  PROVE  /\ IsFiniteSet(Changes(cf, n)) /\ Cardinality(Changes(cf, n)) \in Nat
         /\ Cardinality(Changes(cf, n)) >= 1
<1>1. n \in Nat /\ n >= 1
  BY BinsFacts
<1>2. IsFiniteSet(1 .. n) /\ Changes(cf, n) \in SUBSET (1 .. n)
  BY <1>1, FS_Interval DEF Changes
<1>3. IsFiniteSet(Changes(cf, n))
  BY <1>2, FS_Subset
<1>4. 1 \in Changes(cf, n)
  BY <1>1 DEF Changes
<1>5. Cardinality(Changes(cf, n)) \in Nat /\ Cardinality(Changes(cf, n)) # 0
  BY <1>3, <1>4, FS_CardinalityType, FS_EmptySet
<1>. QED  BY <1>3, <1>5

(* Between two lines of different containers the container changes.           *)
LEMMA ChangesGrow ==
  ASSUME NEW cf \in Conf, NEW n \in DOMAIN cf.bins, NEW m \in DOMAIN cf.bins, n < m,
         cf.bins[n].cnt # cf.bins[m].cnt
  PROVE  Cardinality(Changes(cf, n)) < Cardinality(Changes(cf, m))
<1> DEFINE S == {i \in DOMAIN cf.bins : n < i /\ cf.bins[i].cnt # cf.bins[n].cnt}
<1>1. n \in Nat /\ m \in Nat /\ n >= 1 /\ S \in SUBSET Nat /\ m \in S
  BY BinsFacts
<1>2. PICK k \in S : \A i \in S : k <= i
  BY <1>1, MinExists
<1>3. k \in Nat /\ n < k /\ k <= m /\ cf.bins[k].cnt # cf.bins[n].cnt /\ k \in 1 .. Len(cf.bins)
  BY <1>1, <1>2, BinsFacts
<1>4. k - 1 \in DOMAIN cf.bins
  BY <1>1, <1>3, BinsFacts
<1>5. cf.bins[k - 1].cnt = cf.bins[n].cnt
  <2>1. CASE k - 1 = n
    BY <2>1
  <2>2. CASE k - 1 # n
    <3>1. n < k - 1 /\ ~ (k <= k - 1)
      BY <1>1, <1>3, <2>2
    <3>. QED  BY <1>2, <1>4, <3>1
  <2>. QED  BY <2>1, <2>2
<1>6. k \in Changes(cf, m) /\ k \notin Changes(cf, n)
  BY <1>1, <1>3, <1>5 DEF Changes
<1>7. Changes(cf, n) \in SUBSET Changes(cf, m)
  <2>1. \A i \in 1 .. n : i \in 1 .. m
    BY <1>1
  <2>. QED  BY <2>1 DEF Changes
<1>8. Cardinality(Changes(cf, n)) <= Cardinality(Changes(cf, m))
      /\ Cardinality(Changes(cf, m)) # Cardinality(Changes(cf, n))
  BY <1>6, <1>7, ChangesFinite, FS_Subset
<1>. QED  BY <1>8, ChangesFinite

LEMMA KnownCnt ==
  ASSUME NEW cf \in Conf, NEW b, CntOf(cf, b) \in Cnt
  PROVE  /\ LineOf(cf, b) \in DOMAIN cf.bins /\ cf.bins[LineOf(cf, b)].cnt = CntOf(cf, b)
         /\ Octet(cf, b) = 1 + Cardinality(Changes(cf, LineOf(cf, b)))
         /\ Octet(cf, b) \in Nat /\ Octet(cf, b) > 1
<1>1. Known(cf, b)
  BY CntConfAssumption DEF CntOf
<1>2. /\ LineOf(cf, b) \in DOMAIN cf.bins /\ cf.bins[LineOf(cf, b)].cnt = CntOf(cf, b)
      /\ Octet(cf, b) = 1 + Cardinality(Changes(cf, LineOf(cf, b)))
  BY <1>1, LineExists DEF CntOf, Octet
<1>3. Cardinality(Changes(cf, LineOf(cf, b))) \in Nat /\ Cardinality(Changes(cf, LineOf(cf, b))) >= 1
  BY <1>2, ChangesFinite
<1>. QED  BY <1>2, <1>3

(* Programs of different containers have different numbers. *)
LEMMA OctetsDiffer ==
  ASSUME NEW cf \in Conf, NEW a, NEW b, CntOf(cf, a) \in Cnt, CntOf(cf, b) \in Cnt, CntOf(cf, a) # CntOf(cf, b)
  PROVE  Octet(cf, a) # Octet(cf, b)
<1> DEFINE n == LineOf(cf, a)
           m == LineOf(cf, b)
<1>1. /\ n \in DOMAIN cf.bins /\ cf.bins[n].cnt = CntOf(cf, a) /\ Octet(cf, a) = 1 + Cardinality(Changes(cf, n))
      /\ m \in DOMAIN cf.bins /\ cf.bins[m].cnt = CntOf(cf, b) /\ Octet(cf, b) = 1 + Cardinality(Changes(cf, m))
  BY KnownCnt
<1>2. n \in Nat /\ m \in Nat /\ n # m /\ cf.bins[n].cnt # cf.bins[m].cnt
  BY <1>1, BinsFacts
<1>3. Cardinality(Changes(cf, n)) \in Nat /\ Cardinality(Changes(cf, m)) \in Nat
  BY <1>1, ChangesFinite
<1> HIDE DEF n, m
<1>4. Cardinality(Changes(cf, n)) # Cardinality(Changes(cf, m))
  <2>1. CASE n < m
    <3>1. Cardinality(Changes(cf, n)) < Cardinality(Changes(cf, m))
      BY <1>1, <1>2, <2>1, ChangesGrow
    <3>. QED  BY <1>3, <3>1
  <2>2. CASE m < n
    <3>1. Cardinality(Changes(cf, m)) < Cardinality(Changes(cf, n))
      BY <1>1, <1>2, <2>2, ChangesGrow
    <3>. QED  BY <1>3, <3>1
  <2>. QED  BY <1>2, <2>1, <2>2
<1>. QED  BY <1>1, <1>3, <1>4

LEMMA AddressesApart ==
  ASSUME TypeOK, NEW c \in Cnt
  PROVE  /\ Addresses(c) \cap {0, 1} = {}
         /\ \A d \in Cnt : c # d => Addresses(c) \cap Addresses(d) = {}
<1>1. conf \in Conf
  BY CrunAssumption DEF TypeOK
<1>2. \A b \in Bin : CntOf(conf, b) = c => Octet(conf, b) \notin {0, 1}
  BY <1>1, KnownCnt
<1>3. \A d \in Cnt : \A a, b \in Bin :
        c # d /\ CntOf(conf, a) = c /\ CntOf(conf, b) = d => Octet(conf, a) # Octet(conf, b)
  BY <1>1, OctetsDiffer
<1>. QED  BY <1>2, <1>3 DEF Addresses
-----------------------------------------------------------------------------
(* What crun makes of its command line. *)
Phases == {"idle"} \cup Shared \cup Launching \cup Fetching \cup Linking

LEMMA ConfFacts ==
  ASSUME TypeOK
  PROVE  conf \in Confs /\ conf \in Conf
BY CrunAssumption DEF TypeOK

LEMMA Kinds ==
  /\ \A c \in LxcConfigs : c # Missing /\ c # Empty
  /\ \A c \in Cmds : c # Missing /\ c # Empty /\ c # Boot
  /\ \A p \in Program : p # Nothing
  /\ \A l \in CommandLine : l # Nothing /\ l # LinksLine
  /\ Missing # Empty /\ Shell # Boot
BY DEF LxcConfigs, Cmds, Program, CommandLine, Missing, Empty, Nothing, LinksLine, Boot, Shell

LEMMA AsGiven ==
  ASSUME TypeOK, NEW l \in CommandLine, CntOf(conf, l.bin) \in Cnt
  PROVE  /\ LxcConfig(conf, l) \in LxcConfigs
         /\ LxcConfig(conf, l).addr \subseteq Addresses(CntOf(conf, l.bin))
         /\ CmdOf(l) \in Cmds
         /\ LxcConfig(conf, l).mounts = BindTargets(l) /\ LxcConfig(conf, l).work = BindWork(l)
         /\ CmdOf(l).paths = BindTargets(l)
         /\ BindTargets(l) \subseteq File /\ BindWork(l) \subseteq File /\ CmdOf(l).words \subseteq Word
<1>1. Octet(conf, l.bin) \in Nat
  BY ConfFacts, KnownCnt
<1>2. l.bin \in Bin
  BY DEF CommandLine
<1>3. CapsOf(conf, CntOf(conf, l.bin)) \subseteq Capability
  <2>1. \A i \in DOMAIN conf.caps : conf.caps[i].caps \subseteq Capability
    <3>1. conf.caps \in Seq(CapLine)
      BY ConfFacts DEF Conf
    <3>2. \A i \in DOMAIN conf.caps : conf.caps[i] \in CapLine
      BY <3>1
    <3>. QED  BY <3>2 DEF CapLine
  <2>. QED  BY <2>1 DEF CapsOf
<1>4. BindTargets(l) \subseteq File /\ BindWork(l) \subseteq File
  BY DEF BindTargets, BindWork
<1>5. CmdOf(l) \in Cmds /\ CmdOf(l).paths = BindTargets(l) /\ CmdOf(l).words \subseteq Word
  BY <1>2, <1>4, CntConfAssumption DEF CmdOf, Cmds
<1> DEFINE all == Has(l, "all-dev")
           caps == CapsOf(conf, CntOf(conf, l.bin))
           addr == IF all \/ "net" \in caps \/ ShouldHaveNet(l) THEN {Octet(conf, l.bin)} ELSE {}
<1>6. LxcConfig(conf, l) = [dev |-> IF all THEN Devices ELSE caps \ {"net"}, addr |-> addr,
                            mounts |-> BindTargets(l), work |-> BindWork(l)]
  BY DEF LxcConfig
<1>7. addr \subseteq Nat /\ addr \subseteq Addresses(CntOf(conf, l.bin))
  BY <1>1, <1>2 DEF Addresses
<1>8. (IF all THEN Devices ELSE caps \ {"net"}) \subseteq Devices
  BY <1>3 DEF Devices
<1>9. BindTargets(l) \subseteq Text /\ BindWork(l) \subseteq Text
  BY <1>4, CntConfAssumption
<1> HIDE DEF all, caps, addr
<1>. QED  BY <1>4, <1>5, <1>6, <1>7, <1>8, <1>9 DEF LxcConfigs

LEMMA FprintfType ==
  ASSUME NEW S, S \subseteq File \cup Word
  PROVE  Fprintf(S) \subseteq Text
BY CntConfAssumption DEF Fprintf

\* what crun writes; Fprintf leaves the program, the devices and the address
LEMMA ConfigFacts ==
  ASSUME TypeOK, NEW l \in CommandLine, CntOf(conf, l.bin) \in Cnt
  PROVE  /\ ConfigText(conf, l) \in LxcConfigs
         /\ ConfigText(conf, l).addr \subseteq Addresses(CntOf(conf, l.bin))
         /\ CmdText(l) \in Cmds
<1> DEFINE given == LxcConfig(conf, l)
           cmdline == CmdOf(l)
<1>1. /\ given \in LxcConfigs /\ cmdline \in Cmds
      /\ given.addr \subseteq Addresses(CntOf(conf, l.bin))
      /\ Fprintf(given.mounts) \subseteq Text /\ Fprintf(given.work) \subseteq Text
      /\ Fprintf(cmdline.paths) \subseteq Text /\ Fprintf(cmdline.words) \subseteq Text
  BY AsGiven, FprintfType
<1>2. /\ ConfigText(conf, l) = [given EXCEPT !.mounts = Fprintf(@), !.work = Fprintf(@)]
      /\ CmdText(l) = [cmdline EXCEPT !.paths = Fprintf(@), !.words = Fprintf(@)]
  BY DEF ConfigText, CmdText
<1> HIDE DEF given, cmdline
<1>. QED  BY <1>1, <1>2 DEF LxcConfigs, Cmds

\* without a % that Fprintf takes, it writes what was given
LEMMA VerbatimText ==
  ASSUME TypeOK, NEW l \in CommandLine, CntOf(conf, l.bin) \in Cnt, Verbatim(l)
  PROVE  ConfigText(conf, l) = LxcConfig(conf, l) /\ CmdText(l) = CmdOf(l)
<1> DEFINE given == LxcConfig(conf, l)
           cmdline == CmdOf(l)
<1>1. /\ given \in LxcConfigs /\ cmdline \in Cmds
      /\ Fprintf(given.mounts) = given.mounts /\ Fprintf(given.work) = given.work
      /\ Fprintf(cmdline.paths) = cmdline.paths /\ Fprintf(cmdline.words) = cmdline.words
  <2>1. \A S \in {given.mounts, given.work, cmdline.paths, cmdline.words} : \A x \in S : Printed[x] = x
    BY AsGiven DEF Verbatim
  <2>2. ASSUME NEW S, \A x \in S : Printed[x] = x PROVE Fprintf(S) = S
    BY <2>2 DEF Fprintf
  <2>. QED  BY <2>1, <2>2, AsGiven
<1>2. /\ ConfigText(conf, l) = [given EXCEPT !.mounts = Fprintf(@), !.work = Fprintf(@)]
      /\ CmdText(l) = [cmdline EXCEPT !.paths = Fprintf(@), !.words = Fprintf(@)]
  BY DEF ConfigText, CmdText
<1> HIDE DEF given, cmdline
<1>. QED  BY <1>1, <1>2 DEF LxcConfigs, Cmds, given, cmdline

LEMMA ListingFacts ==
  ASSUME NEW S, IsFiniteSet(S), NEW s \in Listings(S)
  PROVE  /\ s \in Seq(S) /\ {s[n] : n \in DOMAIN s} = S
         /\ \A m, n \in DOMAIN s : s[m] = s[n] => m = n
<1>1. Cardinality(S) \in Nat
  BY FS_CardinalityType
<1>2. s \in [1 .. Cardinality(S) -> S]
  BY DEF Listings
<1>3. s \in Seq(S)
  BY <1>1, <1>2
<1>4. \A n \in DOMAIN s : s[n] \in S
  BY <1>2
<1>. QED  BY <1>3, <1>4 DEF Listings

LEMMA WideSeq ==
  ASSUME NEW S \in SUBSET (Bin \cup Name), NEW s \in Seq(S)
  PROVE  s \in Seq(Bin \cup Name)
OBVIOUS

LEMMA EntriesFinite ==
  ASSUME NEW c
  PROVE  IsFiniteSet(Entries(c)) /\ Entries(c) \subseteq Name
<1>1. Entries(c) \in SUBSET Name
  BY DEF Entries
<1>. QED  BY <1>1, CrunAssumption, FS_Subset

LEMMA LinkOrderFacts ==
  ASSUME TypeOK
  PROVE  /\ LinkOrder \in Seq(Bin \cup Name) /\ {LinkOrder[n] : n \in DOMAIN LinkOrder} = LinkBins
         /\ DOMAIN LinkOrder = DOMAIN conf.bins
         /\ \A n \in DOMAIN LinkOrder : LinkOrder[n] = conf.bins[n].bin
         /\ LinkBins \subseteq Bin
<1>1. /\ DOMAIN conf.bins = 1 .. Len(conf.bins) /\ Len(conf.bins) \in Nat
      /\ \A n \in DOMAIN conf.bins : conf.bins[n].bin \in Bin
  BY ConfFacts, BinsFacts
<1>2. LinkOrder = [i \in DOMAIN conf.bins |-> conf.bins[i].bin]
  BY DEF LinkOrder
<1>3. LinkOrder \in [1 .. Len(conf.bins) -> Bin \cup Name]
  BY <1>1, <1>2
<1>4. LinkOrder \in Seq(Bin \cup Name)
  BY <1>1, <1>3
<1>5. DOMAIN LinkOrder = DOMAIN conf.bins /\ \A n \in DOMAIN LinkOrder : LinkOrder[n] = conf.bins[n].bin
  BY <1>2
<1>. QED  BY <1>1, <1>4, <1>5 DEF LinkBins

LEMMA TodoFacts ==
  ASSUME TypeOK, NEW q \in Proc, todo[q] # << >>
  PROVE  /\ Head(todo[q]) \in Bin \cup Name /\ Tail(todo[q]) \in Seq(Bin \cup Name)
         /\ 1 \in DOMAIN todo[q] /\ Head(todo[q]) = todo[q][1] /\ Head(todo[q]) \in Rest(q)
         /\ \A n \in DOMAIN Tail(todo[q]) :
              n \in Nat /\ n >= 1 /\ n + 1 \in DOMAIN todo[q] /\ Tail(todo[q])[n] = todo[q][n + 1]
         /\ \A n \in DOMAIN todo[q] :
              n = 1 \/ (n \in Nat /\ n > 1 /\ n - 1 \in DOMAIN Tail(todo[q])
                        /\ todo[q][n] = Tail(todo[q])[n - 1])
<1>1. todo[q] \in Seq(Bin \cup Name)
  BY DEF TypeOK
<1>2. /\ Head(todo[q]) \in Bin \cup Name /\ Tail(todo[q]) \in Seq(Bin \cup Name)
      /\ 1 \in DOMAIN todo[q] /\ Head(todo[q]) = todo[q][1]
  BY <1>1
<1>3. \A n \in DOMAIN Tail(todo[q]) :
        n \in Nat /\ n >= 1 /\ n + 1 \in DOMAIN todo[q] /\ Tail(todo[q])[n] = todo[q][n + 1]
  BY <1>1
<1>4. \A n \in DOMAIN todo[q] :
        n = 1 \/ (n \in Nat /\ n > 1 /\ n - 1 \in DOMAIN Tail(todo[q])
                  /\ todo[q][n] = Tail(todo[q])[n - 1])
  BY <1>1
<1>. QED  BY <1>2, <1>3, <1>4 DEF Rest

(* What is left when the first is done. *)
LEMMA TailFacts ==
  ASSUME TypeOK, NEW q \in Proc, todo[q] # << >>, Distinct(q)
  PROVE  /\ {Tail(todo[q])[n] : n \in DOMAIN Tail(todo[q])} = Rest(q) \ {Head(todo[q])}
         /\ \A m, n \in DOMAIN Tail(todo[q]) : Tail(todo[q])[m] = Tail(todo[q])[n] => m = n
<1>1. \A n \in DOMAIN Tail(todo[q]) :
        n \in Nat /\ n >= 1 /\ n + 1 \in DOMAIN todo[q] /\ Tail(todo[q])[n] = todo[q][n + 1]
  BY TodoFacts
<1>2. 1 \in DOMAIN todo[q] /\ Head(todo[q]) = todo[q][1]
  BY TodoFacts
<1>3. ASSUME NEW n \in DOMAIN Tail(todo[q])
      PROVE  Tail(todo[q])[n] \in Rest(q) \ {Head(todo[q])}
  <2>1. n + 1 \in DOMAIN todo[q] /\ n + 1 # 1 /\ Tail(todo[q])[n] = todo[q][n + 1]
    BY <1>1
  <2>2. todo[q][n + 1] # todo[q][1]
    BY <1>2, <2>1 DEF Distinct
  <2>. QED  BY <1>2, <2>1, <2>2 DEF Rest
<1>4. ASSUME NEW f \in Rest(q) \ {Head(todo[q])}
      PROVE  \E n \in DOMAIN Tail(todo[q]) : Tail(todo[q])[n] = f
  <2>1. PICK n \in DOMAIN todo[q] : f = todo[q][n]
    BY DEF Rest
  <2>2. n # 1
    BY <1>2, <2>1
  <2>. QED  BY <2>1, <2>2, TodoFacts
<1>5. ASSUME NEW m \in DOMAIN Tail(todo[q]), NEW n \in DOMAIN Tail(todo[q]), Tail(todo[q])[m] = Tail(todo[q])[n]
      PROVE  m = n
  <2>1. todo[q][m + 1] = todo[q][n + 1] /\ m + 1 \in DOMAIN todo[q] /\ n + 1 \in DOMAIN todo[q]
    BY <1>1, <1>5
  <2>2. m + 1 = n + 1 /\ m \in Nat /\ n \in Nat
    BY <1>1, <2>1 DEF Distinct
  <2>. QED  BY <2>2
<1>. QED  BY <1>3, <1>4, <1>5
-----------------------------------------------------------------------------
(* A step of one process. *)
Step(q) ==
  \/ Start(q) \/ ClearBind(q) \/ ListWork(q) \/ CheckEmpty(q) \/ RemoveEmpty(q)
  \/ CreateFile(q) \/ WriteLxcConfig(q) \/ WriteCmd(q) \/ CreateBindDirs(q)
  \/ LxcExecute(q) \/ ExecCmd(q)
  \/ ReadWorkDir(q) \/ CopyEntry(q) \/ CopyDone(q) \/ SweepWorkDir(q)
  \/ StartLinks(q) \/ ListLinks(q) \/ RemoveLink(q) \/ MakeLink(q) \/ LinkFails(q)
  \/ Stop(q)

LEMMA GotoFacts ==
  ASSUME TypeOK, NEW q \in Proc, NEW s \in Phases, Goto(q, s)
  PROVE  at' \in [Proc -> Phases] /\ at'[q] = s /\ \A r \in Proc : r # q => at'[r] = at[r]
BY DEF TypeOK, Goto, Phases

LEMMA TodoType ==
  ASSUME TypeOK, NEW q \in Proc, NEW s \in Seq(Bin \cup Name), Todo(q, s)
  PROVE  /\ todo' \in [Proc -> Seq(Bin \cup Name)] /\ todo'[q] = s
         /\ \A r \in Proc : r # q => todo'[r] = todo[r]
BY DEF TypeOK, Todo

LEMMA EndFacts ==
  ASSUME TypeOK, NEW q \in Proc, End(q)
  PROVE  /\ at' \in [Proc -> Phases]
         /\ line' \in [Proc -> {Nothing, LinksLine} \cup CommandLine]
         /\ todo' \in [Proc -> Seq(Bin \cup Name)]
         /\ met' \in [Proc -> BOOLEAN]
         /\ got' \in [Proc -> SUBSET Name]
         /\ late' \in [Proc -> SUBSET Name]
         /\ at'[q] = "idle" /\ got'[q] = {} /\ late'[q] = {}
         /\ \A r \in Proc : r # q =>
              /\ at'[r] = at[r] /\ line'[r] = line[r] /\ todo'[r] = todo[r] /\ met'[r] = met[r]
              /\ got'[r] = got[r] /\ late'[r] = late[r]
<1>1. << >> \in Seq(Bin \cup Name) /\ "idle" \in Phases
  BY DEF Phases
<1>2. /\ at' \in [Proc -> Phases] /\ at'[q] = "idle" /\ \A r \in Proc : r # q => at'[r] = at[r]
  BY <1>1, GotoFacts DEF End
<1>3. todo' \in [Proc -> Seq(Bin \cup Name)] /\ \A r \in Proc : r # q => todo'[r] = todo[r]
  BY <1>1, TodoType DEF End
<1>4. /\ line' \in [Proc -> {Nothing, LinksLine} \cup CommandLine]
      /\ \A r \in Proc : r # q => line'[r] = line[r]
  BY DEF End, TypeOK
<1>5. met' \in [Proc -> BOOLEAN] /\ \A r \in Proc : r # q => met'[r] = met[r]
  <2>1. met' = [met EXCEPT ![q] = FALSE] /\ met \in [Proc -> BOOLEAN]
    BY DEF End, TypeOK
  <2>. QED  BY <2>1, Zenon
<1>6. /\ got' \in [Proc -> SUBSET Name] /\ late' \in [Proc -> SUBSET Name]
      /\ got'[q] = {} /\ late'[q] = {}
      /\ \A r \in Proc : r # q => got'[r] = got[r] /\ late'[r] = late[r]
  BY DEF End, TypeOK
<1>. QED  BY <1>2, <1>3, <1>4, <1>5, <1>6

(* What a step of q does to the other processes. *)
LEMMA StepLocal ==
  ASSUME TypeOK, NEW q \in Proc, Step(q), NEW r \in Proc, r # q
  PROVE  /\ conf' = conf /\ at'[r] = at[r] /\ line'[r] = line[r] /\ todo'[r] = todo[r]
         /\ got'[r] = got[r] /\ late'[r] = late[r]
         /\ MyCnt(r)' = MyCnt(r) /\ Rest(r)' = Rest(r) /\ Working(r)' = Working(r)
<1>1. conf' = conf
  BY DEF Step, Start, ClearBind, ListWork, CheckEmpty, RemoveEmpty, CreateFile, WriteLxcConfig, WriteCmd,
         CreateBindDirs, LxcExecute, ExecCmd, ReadWorkDir, CopyEntry, CopyDone, SweepWorkDir, StartLinks,
         ListLinks, RemoveLink, MakeLink, LinkFails, Stop
<1>2. /\ at'[r] = at[r] /\ line'[r] = line[r] /\ todo'[r] = todo[r]
      /\ got'[r] = got[r] /\ late'[r] = late[r]
  <2>1. CASE End(q)
    BY <2>1, EndFacts
  <2>2. CASE ~End(q)
    <3>1. at'[r] = at[r]
      BY <2>2 DEF Step, Start, ClearBind, ListWork, CheckEmpty, RemoveEmpty, CreateFile, WriteLxcConfig, WriteCmd,
         CreateBindDirs, LxcExecute, ExecCmd, ReadWorkDir, CopyEntry, CopyDone, SweepWorkDir, StartLinks,
         ListLinks, RemoveLink, MakeLink, LinkFails, Stop, Goto, TypeOK, proc
    <3>2. line'[r] = line[r]
      BY <2>2 DEF Step, Start, ClearBind, ListWork, CheckEmpty, RemoveEmpty, CreateFile, WriteLxcConfig, WriteCmd,
         CreateBindDirs, LxcExecute, ExecCmd, ReadWorkDir, CopyEntry, CopyDone, SweepWorkDir, StartLinks,
         ListLinks, RemoveLink, MakeLink, LinkFails, Stop, TypeOK, proc
    <3>3. todo'[r] = todo[r]
      BY <2>2 DEF Step, Start, ClearBind, ListWork, CheckEmpty, RemoveEmpty, CreateFile, WriteLxcConfig, WriteCmd,
         CreateBindDirs, LxcExecute, ExecCmd, ReadWorkDir, CopyEntry, CopyDone, SweepWorkDir, StartLinks,
         ListLinks, RemoveLink, MakeLink, LinkFails, Stop, Todo, TypeOK, proc
    <3>4. got'[r] = got[r] /\ late'[r] = late[r]
      BY <2>2 DEF Step, Start, ClearBind, ListWork, CheckEmpty, RemoveEmpty, CreateFile, WriteLxcConfig, WriteCmd,
         CreateBindDirs, LxcExecute, ExecCmd, ReadWorkDir, CopyEntry, CopyDone, SweepWorkDir, StartLinks,
         ListLinks, RemoveLink, MakeLink, LinkFails, Stop, TypeOK, proc, hist
    <3>. QED  BY <3>1, <3>2, <3>3, <3>4
  <2>. QED  BY <2>1, <2>2
<1>. QED  BY <1>1, <1>2 DEF MyCnt, Rest, Working

(* What a step of q does to the containers.  Only its own is touched, unless  *)
(* it makes links.                                                            *)
LEMMA StepCnt ==
  ASSUME TypeOK, AtHand, NEW q \in Proc, Step(q)
  PROVE  /\ \A c \in Cnt : ~Busy(q, c) =>
              /\ bind'[c] = bind[c] /\ config'[c] = config[c] /\ cmd'[c] = cmd[c]
              /\ work'[c] = work[c] /\ run'[c] = run[c]
         /\ at[q] \notin {"clear", "mkdir"} => bind' = bind
         /\ at[q] \notin {"config", "config fill"} => config' = config
         /\ at[q] \notin {"cmd", "cmd fill"} => cmd' = cmd
         /\ at[q] \notin {"remove", "lxc", "sweep"} => work' = work
         /\ at[q] \notin {"lxc", "exec"} => run' = run
<1>1. at[q] \notin {"clear", "mkdir"} => bind' = bind
  BY DEF Step, Start, ClearBind, ListWork, CheckEmpty, RemoveEmpty, CreateFile, WriteLxcConfig, WriteCmd,
         CreateBindDirs, LxcExecute, ExecCmd, ReadWorkDir, CopyEntry, CopyDone, SweepWorkDir, StartLinks,
         ListLinks, RemoveLink, MakeLink, LinkFails, Stop, cntDir
<1>2. at[q] \notin {"config", "config fill"} => config' = config
  BY DEF Step, Start, ClearBind, ListWork, CheckEmpty, RemoveEmpty, CreateFile, WriteLxcConfig, WriteCmd,
         CreateBindDirs, LxcExecute, ExecCmd, ReadWorkDir, CopyEntry, CopyDone, SweepWorkDir, StartLinks,
         ListLinks, RemoveLink, MakeLink, LinkFails, Stop, cntDir
<1>3. at[q] \notin {"cmd", "cmd fill"} => cmd' = cmd
  BY DEF Step, Start, ClearBind, ListWork, CheckEmpty, RemoveEmpty, CreateFile, WriteLxcConfig, WriteCmd,
         CreateBindDirs, LxcExecute, ExecCmd, ReadWorkDir, CopyEntry, CopyDone, SweepWorkDir, StartLinks,
         ListLinks, RemoveLink, MakeLink, LinkFails, Stop, cntDir
<1>4. at[q] \notin {"remove", "lxc", "sweep"} => work' = work
  BY DEF Step, Start, ClearBind, ListWork, CheckEmpty, RemoveEmpty, CreateFile, WriteLxcConfig, WriteCmd,
         CreateBindDirs, LxcExecute, ExecCmd, ReadWorkDir, CopyEntry, CopyDone, SweepWorkDir, StartLinks,
         ListLinks, RemoveLink, MakeLink, LinkFails, Stop
<1>5. at[q] \notin {"lxc", "exec"} => run' = run
  BY DEF Step, Start, ClearBind, ListWork, CheckEmpty, RemoveEmpty, CreateFile, WriteLxcConfig, WriteCmd,
         CreateBindDirs, LxcExecute, ExecCmd, ReadWorkDir, CopyEntry, CopyDone, SweepWorkDir, StartLinks,
         ListLinks, RemoveLink, MakeLink, LinkFails, Stop
<1>6. ASSUME NEW c \in Cnt, ~Busy(q, c)
      PROVE  /\ bind'[c] = bind[c] /\ config'[c] = config[c] /\ cmd'[c] = cmd[c]
             /\ work'[c] = work[c] /\ run'[c] = run[c]
  <2>1. at[q] \in {"idle"} \cup Linking \/ MyCnt(q) # c
    BY <1>6 DEF Busy
  <2>2. CASE at[q] \in {"idle"} \cup Linking
    BY <1>1, <1>2, <1>3, <1>4, <1>5, <2>2 DEF Linking
  <2>3. CASE MyCnt(q) # c
    <3>1. bind'[c] = bind[c]
      BY <2>3 DEF Step, Start, ClearBind, ListWork, CheckEmpty, RemoveEmpty, CreateFile, WriteLxcConfig, WriteCmd,
         CreateBindDirs, LxcExecute, ExecCmd, ReadWorkDir, CopyEntry, CopyDone, SweepWorkDir, StartLinks,
         ListLinks, RemoveLink, MakeLink, LinkFails, Stop, cntDir, TypeOK
    <3>2. config'[c] = config[c]
      BY <2>3 DEF Step, Start, ClearBind, ListWork, CheckEmpty, RemoveEmpty, CreateFile, WriteLxcConfig, WriteCmd,
         CreateBindDirs, LxcExecute, ExecCmd, ReadWorkDir, CopyEntry, CopyDone, SweepWorkDir, StartLinks,
         ListLinks, RemoveLink, MakeLink, LinkFails, Stop, cntDir, TypeOK
    <3>3. cmd'[c] = cmd[c]
      BY <2>3 DEF Step, Start, ClearBind, ListWork, CheckEmpty, RemoveEmpty, CreateFile, WriteLxcConfig, WriteCmd,
         CreateBindDirs, LxcExecute, ExecCmd, ReadWorkDir, CopyEntry, CopyDone, SweepWorkDir, StartLinks,
         ListLinks, RemoveLink, MakeLink, LinkFails, Stop, cntDir, TypeOK
    <3>4. work'[c] = work[c]
      <4>1. ~RemoveEmpty(q) /\ ~LxcExecute(q) /\ ~SweepWorkDir(q) => work' = work
        BY DEF Step, Start, ClearBind, ListWork, CheckEmpty, CreateFile, WriteLxcConfig, WriteCmd,
         CreateBindDirs, ExecCmd, ReadWorkDir, CopyEntry, CopyDone, StartLinks,
         ListLinks, RemoveLink, MakeLink, LinkFails, Stop
      <4>2. CASE RemoveEmpty(q)
        BY <2>3, <4>2 DEF RemoveEmpty, Without, TypeOK
      <4>3. CASE LxcExecute(q)
        BY <2>3, <4>3 DEF LxcExecute, TypeOK
      <4>4. CASE SweepWorkDir(q)
        BY <2>3, <4>4 DEF SweepWorkDir, Without, TypeOK
      <4>. QED  BY <4>1, <4>2, <4>3, <4>4
    <3>5. run'[c] = run[c]
      BY <2>3 DEF Step, Start, ClearBind, ListWork, CheckEmpty, RemoveEmpty, CreateFile, WriteLxcConfig, WriteCmd,
         CreateBindDirs, LxcExecute, ExecCmd, ReadWorkDir, CopyEntry, CopyDone, SweepWorkDir, StartLinks,
         ListLinks, RemoveLink, MakeLink, LinkFails, Stop, TypeOK
    <3>. QED  BY <3>1, <3>2, <3>3, <3>4, <3>5
  <2>. QED  BY <2>1, <2>2, <2>3
<1>. QED  BY <1>1, <1>2, <1>3, <1>4, <1>5, <1>6
-----------------------------------------------------------------------------
LEMMA TypeInit == Init => TypeOK
BY DEF Init, TypeOK

LEMMA WithoutType ==
  ASSUME TypeOK, NEW c \in Cnt, NEW S
  PROVE  /\ Without(c, S) \in [Cnt -> [Name -> {"none", "empty", "data"}]]
         /\ \A f \in Name : Without(c, S)[c][f] = IF f \in S THEN "none" ELSE work[c][f]
BY DEF Without, TypeOK

LEMMA WorkerFacts ==
  ASSUME TypeOK, AtHand, NEW q \in Proc, at[q] \notin {"idle"} \cup Linking
  PROVE  /\ Working(q) /\ line[q] \in CommandLine /\ MyCnt(q) \in Cnt /\ MyCnt(q) = CntOf(conf, line[q].bin)
         /\ Busy(q, MyCnt(q))
<1>1. Working(q)
  BY DEF TypeOK, Working
<1>. QED  BY <1>1 DEF AtHand, MyCnt, Busy

LEMMA CntTypes ==
  ASSUME TypeOK, AtHand, Booting, NEW q \in Proc, Step(q)
  PROVE  /\ bind' \in [Cnt -> SUBSET DirsOf(File)]
         /\ config' \in [Cnt -> {Missing, Empty} \cup LxcConfigs]
         /\ cmd' \in [Cnt -> {Missing, Empty} \cup Cmds]
         /\ work' \in [Cnt -> [Name -> {"none", "empty", "data"}]]
         /\ run' \in [Cnt -> {Nothing} \cup Program]
<1>1. bind' \in [Cnt -> SUBSET DirsOf(File)]
  <2>1. CASE ClearBind(q)
    BY <2>1 DEF ClearBind, TypeOK
  <2>2. CASE CreateBindDirs(q)
    BY <2>2 DEF CreateBindDirs, BindTargets, DirsOf, TypeOK
  <2>3. ~ClearBind(q) /\ ~CreateBindDirs(q) => bind' = bind
    BY DEF Step, Start, ListWork, CheckEmpty, RemoveEmpty, CreateFile, WriteLxcConfig, WriteCmd,
           LxcExecute, ExecCmd, ReadWorkDir, CopyEntry, CopyDone, SweepWorkDir, StartLinks,
           ListLinks, RemoveLink, MakeLink, LinkFails, Stop, cntDir
  <2>. QED  BY <2>1, <2>2, <2>3 DEF TypeOK
<1>2. config' \in [Cnt -> {Missing, Empty} \cup LxcConfigs]
  <2>1. CASE CreateFile(q)
    BY <2>1 DEF CreateFile, TypeOK
  <2>2. CASE WriteLxcConfig(q)
    <3>1. ConfigText(conf, line[q]) \in LxcConfigs
      BY <2>2, WorkerFacts, ConfigFacts DEF WriteLxcConfig, Linking
    <3>. QED  BY <2>2, <3>1 DEF WriteLxcConfig, TypeOK
  <2>3. ~CreateFile(q) /\ ~WriteLxcConfig(q) => config' = config
    BY DEF Step, Start, ClearBind, ListWork, CheckEmpty, RemoveEmpty, WriteCmd, CreateBindDirs,
           LxcExecute, ExecCmd, ReadWorkDir, CopyEntry, CopyDone, SweepWorkDir, StartLinks,
           ListLinks, RemoveLink, MakeLink, LinkFails, Stop, cntDir
  <2>. QED  BY <2>1, <2>2, <2>3 DEF TypeOK
<1>3. cmd' \in [Cnt -> {Missing, Empty} \cup Cmds]
  <2>1. CASE CreateFile(q)
    BY <2>1 DEF CreateFile, TypeOK
  <2>2. CASE WriteCmd(q)
    <3>1. CmdText(line[q]) \in Cmds
      BY <2>2, WorkerFacts, ConfigFacts DEF WriteCmd, Linking
    <3>. QED  BY <2>2, <3>1 DEF WriteCmd, TypeOK
  <2>3. ~CreateFile(q) /\ ~WriteCmd(q) => cmd' = cmd
    BY DEF Step, Start, ClearBind, ListWork, CheckEmpty, RemoveEmpty, WriteLxcConfig, CreateBindDirs,
           LxcExecute, ExecCmd, ReadWorkDir, CopyEntry, CopyDone, SweepWorkDir, StartLinks,
           ListLinks, RemoveLink, MakeLink, LinkFails, Stop, cntDir
  <2>. QED  BY <2>1, <2>2, <2>3 DEF TypeOK
<1>4. work' \in [Cnt -> [Name -> {"none", "empty", "data"}]]
  <2>1. CASE RemoveEmpty(q)
    <3>1. MyCnt(q) \in Cnt
      BY <2>1, WorkerFacts DEF RemoveEmpty, Linking
    <3>. QED  BY <2>1, <3>1, WithoutType DEF RemoveEmpty
  <2>2. CASE LxcExecute(q)
    BY <2>2 DEF LxcExecute, TypeOK
  <2>3. CASE SweepWorkDir(q)
    <3>1. MyCnt(q) \in Cnt
      BY <2>3, WorkerFacts DEF SweepWorkDir, Linking
    <3>. QED  BY <2>3, <3>1, WithoutType DEF SweepWorkDir
  <2>4. ~RemoveEmpty(q) /\ ~LxcExecute(q) /\ ~SweepWorkDir(q) => work' = work
    BY DEF Step, Start, ClearBind, ListWork, CheckEmpty, CreateFile, WriteLxcConfig, WriteCmd,
           CreateBindDirs, ExecCmd, ReadWorkDir, CopyEntry, CopyDone, StartLinks,
           ListLinks, RemoveLink, MakeLink, LinkFails, Stop
  <2>. QED  BY <2>1, <2>2, <2>3, <2>4 DEF TypeOK
<1>5. run' \in [Cnt -> {Nothing} \cup Program]
  <2>1. CASE LxcExecute(q)
    <3>1. config[MyCnt(q)] \in LxcConfigs
      BY <2>1, WorkerFacts DEF LxcExecute, Linking, TypeOK
    <3>2. [exec |-> IF Has(line[q], "shell") THEN Shell ELSE Boot, config |-> config[MyCnt(q)]] \in Program
      BY <3>1 DEF Program
    <3>. QED  BY <2>1, <3>2 DEF LxcExecute, TypeOK
  <2>2. CASE ExecCmd(q)
    <3>1. MyCnt(q) \in Cnt /\ run[MyCnt(q)] \in Program
      BY <2>2, WorkerFacts DEF ExecCmd, Linking, Booting, TypeOK
    <3>2. PICK v : /\ run' = [run EXCEPT ![MyCnt(q)] = v]
                   /\ v = IF cmd[MyCnt(q)] \in Cmds THEN [run[MyCnt(q)] EXCEPT !.exec = cmd[MyCnt(q)]] ELSE Nothing
      BY <2>2 DEF ExecCmd
    <3>3. v \in {Nothing} \cup Program
      BY <3>1, <3>2 DEF Program
    <3>. QED  BY <3>1, <3>2, <3>3 DEF TypeOK
  <2>3. ~LxcExecute(q) /\ ~ExecCmd(q) => run' = run
    BY DEF Step, Start, ClearBind, ListWork, CheckEmpty, RemoveEmpty, CreateFile, WriteLxcConfig, WriteCmd,
           CreateBindDirs, ReadWorkDir, CopyEntry, CopyDone, SweepWorkDir, StartLinks,
           ListLinks, RemoveLink, MakeLink, LinkFails, Stop
  <2>. QED  BY <2>1, <2>2, <2>3 DEF TypeOK
<1>. QED  BY <1>1, <1>2, <1>3, <1>4, <1>5

\* the lists that the actions make
LEMMA ListTypes ==
  ASSUME TypeOK, NEW q \in Proc
  PROVE  /\ \A s \in Listings(Entries(MyCnt(q))) : s \in Seq(Bin \cup Name)
         /\ \A s \in Listings(links) : s \in Seq(Bin \cup Name)
         /\ IsFiniteSet(links)
<1>1. IsFiniteSet(links) /\ links \subseteq Bin
  BY CrunAssumption, FS_Subset DEF TypeOK
<1>2. ASSUME NEW S \in SUBSET (Bin \cup Name), IsFiniteSet(S), NEW s \in Listings(S)
      PROVE  s \in Seq(Bin \cup Name)
  <2>1. s \in Seq(S)
    BY <1>2, ListingFacts
  <2>. QED  BY <2>1, WideSeq
<1>3. /\ Entries(MyCnt(q)) \in SUBSET (Bin \cup Name) /\ IsFiniteSet(Entries(MyCnt(q)))
      /\ links \in SUBSET (Bin \cup Name)
  BY <1>1, EntriesFinite
<1>4. \A s \in Listings(Entries(MyCnt(q))) : s \in Seq(Bin \cup Name)
  BY <1>2, <1>3
<1>5. \A s \in Listings(links) : s \in Seq(Bin \cup Name)
  BY <1>1, <1>2, <1>3
<1>. QED  BY <1>1, <1>4, <1>5

LEMMA ProcTypes ==
  ASSUME TypeOK, AtHand, NEW q \in Proc, Step(q)
  PROVE  /\ at' \in [Proc -> Phases]
         /\ line' \in [Proc -> {Nothing, LinksLine} \cup CommandLine]
         /\ todo' \in [Proc -> Seq(Bin \cup Name)]
         /\ met' \in [Proc -> BOOLEAN]
         /\ got' \in [Proc -> SUBSET Name]
         /\ late' \in [Proc -> SUBSET Name]
         /\ links' \subseteq Bin
         /\ torn' \in BOOLEAN
<1>1. links' \subseteq Bin
  <2>1. CASE RemoveLink(q)
    BY <2>1 DEF RemoveLink, TypeOK
  <2>2. CASE MakeLink(q)
    <3>1. CASE links' = links
      BY <3>1 DEF TypeOK
    <3>2. CASE links' # links
      <4>1. at[q] = "symlink" /\ todo[q] # << >> /\ links' = links \cup {Head(todo[q])}
        BY <2>2, <3>2 DEF MakeLink
      <4>2. Head(todo[q]) \in Bin
        BY <4>1, TodoFacts, LinkOrderFacts DEF AtHand
      <4>. QED  BY <4>1, <4>2 DEF TypeOK
    <3>. QED  BY <3>1, <3>2
  <2>3. ~RemoveLink(q) /\ ~MakeLink(q) => links' = links
    BY DEF Step, Start, ClearBind, ListWork, CheckEmpty, RemoveEmpty, CreateFile, WriteLxcConfig, WriteCmd,
           CreateBindDirs, LxcExecute, ExecCmd, ReadWorkDir, CopyEntry, CopyDone, SweepWorkDir, StartLinks,
           ListLinks, LinkFails, Stop
  <2>. QED  BY <2>1, <2>2, <2>3 DEF TypeOK
<1>2. torn' \in BOOLEAN
  BY DEF Step, Start, ClearBind, ListWork, CheckEmpty, RemoveEmpty, CreateFile, WriteLxcConfig, WriteCmd,
         CreateBindDirs, LxcExecute, ExecCmd, ReadWorkDir, CopyEntry, CopyDone, SweepWorkDir, StartLinks,
         ListLinks, RemoveLink, MakeLink, LinkFails, Stop, TypeOK
<1>3. CASE End(q)
  BY <1>1, <1>2, <1>3, EndFacts
<1>4. CASE ~End(q)
  <2>1. at' \in [Proc -> Phases]
    BY <1>4 DEF Step, Start, ClearBind, ListWork, CheckEmpty, AfterClear, RemoveEmpty, CreateFile, WriteLxcConfig,
         WriteCmd, CreateBindDirs, LxcExecute, ExecCmd, ReadWorkDir, CopyEntry, CopyDone, SweepWorkDir, StartLinks,
         ListLinks, RemoveLink, MakeLink, LinkFails, Stop, Goto, TypeOK, proc, Phases, Shared, Launching,
         Fetching, Linking
  <2>2. line' \in [Proc -> {Nothing, LinksLine} \cup CommandLine]
    <3>1. CASE Start(q)
      <4>1. PICK l \in Lines[q] : line' = [line EXCEPT ![q] = l]
        BY <3>1 DEF Start
      <4>2. l \in CommandLine
        BY CrunAssumption
      <4>. QED  BY <4>1, <4>2 DEF TypeOK
    <3>2. CASE ~Start(q)
      BY <1>4, <3>2 DEF Step, ClearBind, ListWork, CheckEmpty, RemoveEmpty, CreateFile, WriteLxcConfig,
         WriteCmd, CreateBindDirs, LxcExecute, ExecCmd, ReadWorkDir, CopyEntry, CopyDone, SweepWorkDir, StartLinks,
         ListLinks, RemoveLink, MakeLink, LinkFails, Stop, TypeOK, proc
    <3>. QED  BY <3>1, <3>2
  <2>3. todo' \in [Proc -> Seq(Bin \cup Name)]
    <3>1. CASE ListWork(q) \/ ReadWorkDir(q)
      <4>1. PICK s \in Listings(Entries(MyCnt(q))) : Todo(q, s)
        BY <3>1 DEF ListWork, ReadWorkDir
      <4>. QED  BY <4>1, ListTypes, TodoType
    <3>2. CASE ListLinks(q)
      <4>1. PICK s \in Listings(links) : Todo(q, s)
        BY <3>2 DEF ListLinks
      <4>. QED  BY <4>1, ListTypes, TodoType
    <3>3. CASE ~ListWork(q) /\ ~ReadWorkDir(q) /\ ~ListLinks(q)
      <4>1. \/ todo' = todo \/ Todo(q, LinkOrder) \/ (todo[q] # << >> /\ Todo(q, Tail(todo[q])))
        <5>1. CASE RemoveEmpty(q)
          BY <5>1 DEF RemoveEmpty, AtHand
        <5>2. CASE ~RemoveEmpty(q)
          BY <1>4, <3>3, <5>2 DEF Step, Start, ClearBind, CheckEmpty, CreateFile, WriteLxcConfig,
             WriteCmd, CreateBindDirs, LxcExecute, ExecCmd, CopyEntry, CopyDone, SweepWorkDir, StartLinks,
             RemoveLink, MakeLink, LinkFails, Stop, proc
        <5>. QED  BY <5>1, <5>2
      <4>2. CASE todo' = todo
        BY <4>2 DEF TypeOK
      <4>3. CASE Todo(q, LinkOrder)
        BY <4>3, LinkOrderFacts, TodoType
      <4>4. CASE todo[q] # << >> /\ Todo(q, Tail(todo[q]))
        BY <4>4, TodoFacts, TodoType
      <4>. QED  BY <4>1, <4>2, <4>3, <4>4
    <3>. QED  BY <3>1, <3>2, <3>3
  <2>4. met' \in [Proc -> BOOLEAN]
    <3>1. CASE Start(q)
      <4>1. PICK S : met' = [p \in Proc |-> IF p = q THEN S # {} ELSE met[p] \/ p \in S]
        BY <3>1 DEF Start
      <4>2. \A p \in Proc : (IF p = q THEN S # {} ELSE met[p] \/ p \in S) \in BOOLEAN
        BY DEF TypeOK
      <4>. QED  BY <4>1, <4>2
    <3>2. CASE ~Start(q)
      BY <1>4, <3>2 DEF Step, ClearBind, ListWork, CheckEmpty, RemoveEmpty, CreateFile, WriteLxcConfig,
         WriteCmd, CreateBindDirs, LxcExecute, ExecCmd, ReadWorkDir, CopyEntry, CopyDone, SweepWorkDir, StartLinks,
         ListLinks, RemoveLink, MakeLink, LinkFails, Stop, TypeOK, proc, hist
    <3>. QED  BY <3>1, <3>2
  <2>5. got' \in [Proc -> SUBSET Name]
    <3>1. CASE CopyEntry(q)
      <4>1. Head(todo[q]) \in Name /\ got' = [got EXCEPT ![q] = got[q] \cup {Head(todo[q])}]
        BY <3>1 DEF CopyEntry, Entries
      <4>. QED  BY <4>1 DEF TypeOK
    <3>2. CASE ~CopyEntry(q)
      BY <1>4, <3>2 DEF Step, Start, ClearBind, ListWork, CheckEmpty, RemoveEmpty, CreateFile, WriteLxcConfig,
         WriteCmd, CreateBindDirs, LxcExecute, ExecCmd, ReadWorkDir, CopyDone, SweepWorkDir, StartLinks,
         ListLinks, RemoveLink, MakeLink, LinkFails, Stop, TypeOK, proc, hist
    <3>. QED  BY <3>1, <3>2
  <2>6. late' \in [Proc -> SUBSET Name]
    BY <1>4 DEF Step, Start, ClearBind, ListWork, CheckEmpty, RemoveEmpty, CreateFile, WriteLxcConfig,
         WriteCmd, CreateBindDirs, LxcExecute, ExecCmd, ReadWorkDir, CopyEntry, CopyDone, SweepWorkDir, StartLinks,
         ListLinks, RemoveLink, MakeLink, LinkFails, Stop, TypeOK, proc, hist
  <2>. QED  BY <1>1, <1>2, <2>1, <2>2, <2>3, <2>4, <2>5, <2>6
<1>. QED  BY <1>3, <1>4

LEMMA TypeStep ==
  ASSUME TypeOK, AtHand, Booting, NEW q \in Proc, Step(q)
  PROVE  TypeOK'
<1>1. conf' = conf
  BY DEF Step, Start, ClearBind, ListWork, CheckEmpty, RemoveEmpty, CreateFile, WriteLxcConfig, WriteCmd,
         CreateBindDirs, LxcExecute, ExecCmd, ReadWorkDir, CopyEntry, CopyDone, SweepWorkDir, StartLinks,
         ListLinks, RemoveLink, MakeLink, LinkFails, Stop
<1>2. /\ bind' \in [Cnt -> SUBSET DirsOf(File)]
      /\ config' \in [Cnt -> {Missing, Empty} \cup LxcConfigs]
      /\ cmd' \in [Cnt -> {Missing, Empty} \cup Cmds]
      /\ work' \in [Cnt -> [Name -> {"none", "empty", "data"}]]
      /\ run' \in [Cnt -> {Nothing} \cup Program]
  BY CntTypes
<1>3. /\ at' \in [Proc -> Phases]
      /\ line' \in [Proc -> {Nothing, LinksLine} \cup CommandLine]
      /\ todo' \in [Proc -> Seq(Bin \cup Name)]
      /\ met' \in [Proc -> BOOLEAN]
      /\ got' \in [Proc -> SUBSET Name]
      /\ late' \in [Proc -> SUBSET Name]
      /\ links' \subseteq Bin
      /\ torn' \in BOOLEAN
  BY ProcTypes
<1>. QED  BY <1>1, <1>2, <1>3 DEF TypeOK, Phases
-----------------------------------------------------------------------------
(* A process that goes on does so with its command line. *)
LEMMA GoesOn ==
  ASSUME TypeOK, NEW q \in Proc, Step(q), ~End(q), ~Start(q), ~StartLinks(q)
  PROVE  /\ line' = line /\ met' = met /\ late' = late /\ conf' = conf /\ MyCnt(q)' = MyCnt(q)
         /\ at[q] # "idle" /\ at'[q] # "idle"
         /\ at[q] \in Linking <=> at'[q] \in Linking
<1>1. line' = line /\ met' = met /\ late' = late /\ conf' = conf
  BY DEF Step, ClearBind, ListWork, CheckEmpty, RemoveEmpty, CreateFile, WriteLxcConfig, WriteCmd,
         CreateBindDirs, LxcExecute, ExecCmd, ReadWorkDir, CopyEntry, CopyDone, SweepWorkDir,
         ListLinks, RemoveLink, MakeLink, LinkFails, Stop, proc, hist
<1>2. /\ at[q] # "idle" /\ at'[q] # "idle"
      /\ at[q] \in Linking <=> at'[q] \in Linking
  BY DEF Step, ClearBind, ListWork, CheckEmpty, AfterClear, RemoveEmpty, CreateFile, WriteLxcConfig, WriteCmd,
         CreateBindDirs, LxcExecute, ExecCmd, ReadWorkDir, CopyEntry, CopyDone, SweepWorkDir,
         ListLinks, RemoveLink, MakeLink, LinkFails, Stop, Goto, Linking, TypeOK, proc
<1>. QED  BY <1>1, <1>2 DEF MyCnt

(* Which steps lead where. *)
LEMMA PhaseFacts ==
  ASSUME TypeOK, AtHand, NEW q \in Proc, Step(q), ~End(q), ~Start(q), ~StartLinks(q)
  PROVE  /\ at'[q] \in Launching => at[q] \in Launching \/ (CheckEmpty(q) /\ Fetches(line[q]) = {})
         /\ at'[q] \in Fetching => at[q] \in Fetching \/ (CheckEmpty(q) /\ Fetches(line[q]) # {})
         /\ at'[q] \in {"config", "config fill"} =>
              at[q] \in {"config", "config fill"} \/ WritesConfig(line[q])
         /\ at'[q] = "remove" => todo'[q] # << >>
         /\ at'[q] = "exec" => ~Has(line[q], "shell")
<1>1. at'[q] \in Launching => at[q] \in Launching \/ (CheckEmpty(q) /\ Fetches(line[q]) = {})
  BY DEF Step, ClearBind, ListWork, CheckEmpty, AfterClear, RemoveEmpty, CreateFile, WriteLxcConfig, WriteCmd,
         CreateBindDirs, LxcExecute, ExecCmd, ReadWorkDir, CopyEntry, CopyDone, SweepWorkDir,
         ListLinks, RemoveLink, MakeLink, LinkFails, Stop, Goto, Launching, TypeOK, proc
<1>2. at'[q] \in Fetching => at[q] \in Fetching \/ (CheckEmpty(q) /\ Fetches(line[q]) # {})
  BY DEF Step, ClearBind, ListWork, CheckEmpty, AfterClear, RemoveEmpty, CreateFile, WriteLxcConfig, WriteCmd,
         CreateBindDirs, LxcExecute, ExecCmd, ReadWorkDir, CopyEntry, CopyDone, SweepWorkDir,
         ListLinks, RemoveLink, MakeLink, LinkFails, Stop, Goto, Fetching, TypeOK, proc
<1>3. at'[q] \in {"config", "config fill"} =>
        at[q] \in {"config", "config fill"} \/ WritesConfig(line[q])
  BY DEF Step, ClearBind, ListWork, CheckEmpty, AfterClear, RemoveEmpty, CreateFile, WriteLxcConfig, WriteCmd,
         CreateBindDirs, LxcExecute, ExecCmd, ReadWorkDir, CopyEntry, CopyDone, SweepWorkDir,
         ListLinks, RemoveLink, MakeLink, LinkFails, Stop, Goto, TypeOK, proc
<1>4. at'[q] = "remove" => CheckEmpty(q)
  BY DEF Step, ClearBind, ListWork, RemoveEmpty, CreateFile, WriteLxcConfig, WriteCmd,
         CreateBindDirs, LxcExecute, ExecCmd, ReadWorkDir, CopyEntry, CopyDone, SweepWorkDir,
         ListLinks, RemoveLink, MakeLink, LinkFails, Stop, Goto, TypeOK, proc
<1>5. at'[q] = "remove" => todo'[q] # << >>
  BY <1>4 DEF CheckEmpty, AfterClear, Goto, TypeOK
<1>6. at'[q] = "exec" => ~Has(line[q], "shell")
  BY DEF Step, ClearBind, ListWork, CheckEmpty, AfterClear, RemoveEmpty, CreateFile, WriteLxcConfig, WriteCmd,
         CreateBindDirs, LxcExecute, ExecCmd, ReadWorkDir, CopyEntry, CopyDone, SweepWorkDir,
         ListLinks, RemoveLink, MakeLink, LinkFails, Stop, Goto, TypeOK, proc
<1>. QED  BY <1>1, <1>2, <1>3, <1>5, <1>6

LEMMA SymlinkStep ==
  ASSUME TypeOK, AtHand, NEW q \in Proc, Step(q), at'[q] = "symlink"
  PROVE  /\ LinkBins' = LinkBins
         /\ \/ /\ RemoveLink(q) /\ at[q] = "unlink" /\ todo[q] = << >> /\ links' = links /\ todo'[q] = LinkOrder
               /\ Rest(q)' = LinkBins
            \/ /\ MakeLink(q) /\ at[q] = "symlink" /\ todo[q] # << >> /\ todo'[q] = Tail(todo[q])
               /\ Head(todo[q]) \notin links /\ links' = links \cup {Head(todo[q])}
               /\ Rest(q)' \subseteq Rest(q)
<1>1. RemoveLink(q) \/ MakeLink(q)
  BY DEF Step, Start, ClearBind, ListWork, CheckEmpty, AfterClear, RemoveEmpty, CreateFile, WriteLxcConfig, WriteCmd,
         CreateBindDirs, LxcExecute, ExecCmd, ReadWorkDir, CopyEntry, CopyDone, SweepWorkDir, StartLinks,
         ListLinks, LinkFails, Stop, Goto, TypeOK, proc, End
<1>2. conf' = conf /\ LinkBins' = LinkBins
  BY <1>1 DEF RemoveLink, MakeLink, LinkBins
<1>3. CASE RemoveLink(q)
  <2>1. at[q] = "unlink" /\ todo[q] = << >> /\ links' = links /\ Todo(q, LinkOrder)
    BY <1>3 DEF RemoveLink, TypeOK
  <2>2. todo'[q] = LinkOrder
    BY <2>1, LinkOrderFacts, TodoType
  <2>3. Rest(q)' = LinkBins
    BY <2>2, LinkOrderFacts DEF Rest
  <2>. QED  BY <1>2, <1>3, <2>1, <2>2, <2>3
<1>4. CASE MakeLink(q)
  <2>1. ~End(q)
    BY EndFacts
  <2>2. at[q] = "symlink" /\ todo[q] # << >> /\ Head(todo[q]) \notin links
        /\ links' = links \cup {Head(todo[q])} /\ Todo(q, Tail(todo[q]))
    BY <1>4, <2>1 DEF MakeLink
  <2>3. todo'[q] = Tail(todo[q])
    BY <2>2, TodoFacts, TodoType
  <2>4. Rest(q)' \subseteq Rest(q)
    BY <2>2, <2>3, TodoFacts DEF Rest
  <2>. QED  BY <1>2, <1>4, <2>2, <2>3, <2>4
<1>. QED  BY <1>1, <1>3, <1>4

LEMMA AtHandStep ==
  ASSUME TypeOK, AtHand, NEW q \in Proc, Step(q)
  PROVE  AtHand'
<1>1. SUFFICES ASSUME NEW r \in Proc
               PROVE  /\ at'[r] = "idle" => got'[r] = {} /\ late'[r] = {}
                      /\ Working(r)' => line'[r] \in CommandLine /\ MyCnt(r)' \in Cnt
                      /\ at'[r] \in Launching => Fetches(line'[r]) = {}
                      /\ at'[r] \in Fetching => Fetches(line'[r]) # {}
                      /\ at'[r] \in {"config", "config fill"} => WritesConfig(line'[r])
                      /\ at'[r] = "remove" => todo'[r] # << >>
                      /\ at'[r] = "exec" => ~Has(line'[r], "shell")
                      /\ at'[r] = "symlink" => Rest(r)' \subseteq LinkBins'
  BY DEF AtHand
<1>2. CASE r # q
  <2>1. /\ conf' = conf /\ at'[r] = at[r] /\ line'[r] = line[r] /\ todo'[r] = todo[r]
        /\ got'[r] = got[r] /\ late'[r] = late[r]
        /\ MyCnt(r)' = MyCnt(r) /\ Rest(r)' = Rest(r) /\ Working(r)' = Working(r)
    BY <1>2, StepLocal
  <2>2. LinkBins' = LinkBins
    BY <2>1 DEF LinkBins
  <2>. QED  BY <2>1, <2>2 DEF AtHand
<1>3. CASE r = q
  <2>1. at'[q] = "symlink" => Rest(q)' \subseteq LinkBins'
    BY SymlinkStep DEF AtHand
  <2>2. CASE End(q)
    <3>1. at'[q] = "idle" /\ got'[q] = {} /\ late'[q] = {}
      BY <2>2, EndFacts
    <3>. QED  BY <1>3, <3>1 DEF Working, Shared, Launching, Fetching
  <2>3. CASE Start(q)
    <3>1. PICK l \in Lines[q] :
            /\ CntOf(conf, l.bin) # NoCnt /\ line' = [line EXCEPT ![q] = l]
            /\ Goto(q, IF Fetches(l) # {} THEN "list" ELSE "clear")
      BY <2>3 DEF Start
    <3>2. l \in CommandLine /\ line'[q] = l /\ conf' = conf
      BY <2>3, <3>1, CrunAssumption DEF Start, TypeOK
    <3>3. MyCnt(q)' \in Cnt
      <4>1. Known(conf, l.bin)
        BY <3>1 DEF CntOf
      <4>2. CntOf(conf, l.bin) \in Cnt
        BY <4>1, ConfFacts, LineExists, BinsFacts DEF CntOf
      <4>. QED  BY <3>2, <4>2 DEF MyCnt
    <3>4. at'[q] = IF Fetches(l) # {} THEN "list" ELSE "clear"
      BY <3>1 DEF Goto, TypeOK
    <3>. QED  BY <1>3, <3>2, <3>3, <3>4 DEF Launching, Fetching
  <2>4. CASE StartLinks(q)
    <3>1. at'[q] = "unlink list"
      BY <2>4 DEF StartLinks, Goto, TypeOK
    <3>. QED  BY <1>3, <3>1 DEF Working, Shared, Launching, Fetching
  <2>5. CASE ~End(q) /\ ~Start(q) /\ ~StartLinks(q)
    <3>1. line' = line /\ MyCnt(q)' = MyCnt(q) /\ at'[q] # "idle" /\ at[q] # "idle"
          /\ (at[q] \in Linking <=> at'[q] \in Linking)
      BY <2>5, GoesOn
    <3>2. Working(q)' => Working(q)
      <4>1. at[q] \in Phases
        BY DEF TypeOK, Phases
      <4>2. Working(q)' => at'[q] \notin Linking
        BY DEF Working, Shared, Launching, Fetching, Linking
      <4>. QED  BY <3>1, <4>1, <4>2 DEF Working, Phases
    <3>3. Working(q)' => line'[q] \in CommandLine /\ MyCnt(q)' \in Cnt
      BY <3>1, <3>2 DEF AtHand
    <3>. QED  BY <1>3, <2>1, <2>5, <3>1, <3>3, PhaseFacts DEF AtHand
  <2>. QED  BY <2>2, <2>3, <2>4, <2>5
<1>. QED  BY <1>2, <1>3
-----------------------------------------------------------------------------
(* What runs in the container after a step of q. *)
LEMMA RunStep ==
  ASSUME TypeOK, AtHand, Booting, NEW q \in Proc, Step(q)
  PROVE  \/ run' = run /\ at'[q] # "exec" /\ at[q] # "exec" /\ (at[q] = "lxc" => End(q) /\ Stop(q))
         \/ /\ LxcExecute(q) /\ at[q] = "lxc" /\ MyCnt(q) \in Cnt
            /\ run[MyCnt(q)] = Nothing /\ config[MyCnt(q)] \in LxcConfigs
            /\ run'[MyCnt(q)] # Nothing /\ run'[MyCnt(q)].config = config[MyCnt(q)]
            /\ run'[MyCnt(q)].exec = IF Has(line[q], "shell") THEN Shell ELSE Boot
            /\ ~Has(line[q], "shell") => at'[q] = "exec" /\ line' = line
            /\ Has(line[q], "shell") => at'[q] = "idle"
         \/ /\ ExecCmd(q) /\ at[q] = "exec" /\ at'[q] = "idle" /\ MyCnt(q) \in Cnt
            /\ cmd[MyCnt(q)] \in Cmds =>
                 /\ run'[MyCnt(q)] # Nothing /\ run'[MyCnt(q)].config = run[MyCnt(q)].config
                 /\ run'[MyCnt(q)].exec = cmd[MyCnt(q)]
            /\ cmd[MyCnt(q)] \notin Cmds => run'[MyCnt(q)] = Nothing
<1>1. CASE LxcExecute(q)
  <2>1. MyCnt(q) \in Cnt /\ at[q] = "lxc"
    BY <1>1, WorkerFacts DEF LxcExecute, Linking
  <2>2. config[MyCnt(q)] \in LxcConfigs /\ run[MyCnt(q)] = Nothing
    BY <1>1, <2>1 DEF LxcExecute, TypeOK
  <2>3. run'[MyCnt(q)] = [exec |-> IF Has(line[q], "shell") THEN Shell ELSE Boot, config |-> config[MyCnt(q)]]
    BY <1>1, <2>1 DEF LxcExecute, TypeOK
  <2>4. run'[MyCnt(q)] # Nothing
    BY <2>3 DEF Nothing
  <2>5. ~Has(line[q], "shell") => at'[q] = "exec" /\ line' = line
    BY <1>1 DEF LxcExecute, Goto, TypeOK, proc
  <2>6. Has(line[q], "shell") => at'[q] = "idle"
    BY <1>1, EndFacts DEF LxcExecute
  <2>. QED  BY <1>1, <2>1, <2>2, <2>3, <2>4, <2>5, <2>6
<1>2. CASE ExecCmd(q)
  <2>1. MyCnt(q) \in Cnt /\ at[q] = "exec"
    BY <1>2, WorkerFacts DEF ExecCmd, Linking
  <2>2. run[MyCnt(q)] \in Program
    BY <2>1 DEF Booting, TypeOK
  <2>3. run'[MyCnt(q)] = IF cmd[MyCnt(q)] \in Cmds THEN [run[MyCnt(q)] EXCEPT !.exec = cmd[MyCnt(q)]] ELSE Nothing
    BY <1>2, <2>1 DEF ExecCmd, TypeOK
  <2>4. cmd[MyCnt(q)] \in Cmds =>
          /\ run'[MyCnt(q)] # Nothing /\ run'[MyCnt(q)].config = run[MyCnt(q)].config
          /\ run'[MyCnt(q)].exec = cmd[MyCnt(q)]
    BY <2>2, <2>3 DEF Program, Nothing
  <2>5. at'[q] = "idle"
    BY <1>2, EndFacts DEF ExecCmd
  <2>. QED  BY <1>2, <2>1, <2>3, <2>4, <2>5
<1>3. CASE ~LxcExecute(q) /\ ~ExecCmd(q)
  BY <1>3 DEF Step, Start, ClearBind, ListWork, CheckEmpty, AfterClear, RemoveEmpty, CreateFile, WriteLxcConfig,
         WriteCmd, CreateBindDirs, ReadWorkDir, CopyEntry, CopyDone, SweepWorkDir, StartLinks,
         ListLinks, RemoveLink, MakeLink, LinkFails, Stop, Goto, TypeOK, proc, End
<1>. QED  BY <1>1, <1>2, <1>3

(* Containers only get addresses of their own. *)
LEMMA AddressedStep ==
  ASSUME TypeOK, AtHand, Booting, Addressed, NEW q \in Proc, Step(q)
  PROVE  Addressed'
<1>1. conf' = conf
  BY DEF Step, Start, ClearBind, ListWork, CheckEmpty, RemoveEmpty, CreateFile, WriteLxcConfig, WriteCmd,
         CreateBindDirs, LxcExecute, ExecCmd, ReadWorkDir, CopyEntry, CopyDone, SweepWorkDir, StartLinks,
         ListLinks, RemoveLink, MakeLink, LinkFails, Stop
<1>2. SUFFICES ASSUME NEW c \in Cnt
               PROVE  /\ config'[c] \notin {Missing, Empty} => config'[c].addr \subseteq Addresses(c)
                      /\ run'[c] # Nothing => run'[c].config.addr \subseteq Addresses(c)
  BY <1>1 DEF Addressed, Addresses
<1>3. config'[c] \notin {Missing, Empty} => config'[c].addr \subseteq Addresses(c)
  <2>1. CASE config'[c] = config[c]
    BY <2>1 DEF Addressed
  <2>2. CASE config'[c] # config[c]
    <3>1. Busy(q, c) /\ at[q] \in {"config", "config fill"}
      BY <2>2, StepCnt
    <3>2. MyCnt(q) = c
      BY <3>1 DEF Busy
    <3>3. CASE CreateFile(q)
      <4>1. config'[c] = Empty
        BY <2>2, <3>2, <3>3 DEF CreateFile, TypeOK
      <4>. QED  BY <4>1
    <3>4. CASE WriteLxcConfig(q)
      <4>1. config'[c] = ConfigText(conf, line[q])
        BY <3>2, <3>4 DEF WriteLxcConfig, TypeOK
      <4>2. line[q] \in CommandLine /\ CntOf(conf, line[q].bin) = c
        BY <3>1, <3>2, WorkerFacts DEF Linking
      <4>. QED  BY <4>1, <4>2, ConfigFacts
    <3>. QED  BY <2>2, <3>1, <3>3, <3>4 DEF Step, Start, ClearBind, ListWork, CheckEmpty, RemoveEmpty, WriteCmd,
         CreateBindDirs, LxcExecute, ExecCmd, ReadWorkDir, CopyEntry, CopyDone, SweepWorkDir, StartLinks,
         ListLinks, RemoveLink, MakeLink, LinkFails, Stop, cntDir
  <2>. QED  BY <2>1, <2>2
<1>4. run'[c] # Nothing => run'[c].config.addr \subseteq Addresses(c)
  <2>1. CASE run'[c] = run[c]
    BY <2>1 DEF Addressed
  <2>2. CASE run'[c] # run[c]
    <3>1. Busy(q, c)
      BY <2>2, StepCnt
    <3>2. MyCnt(q) = c
      BY <3>1 DEF Busy
    <3>3. CASE LxcExecute(q) /\ run'[c].config = config[c] /\ config[c] \in LxcConfigs
      BY <3>3, Kinds DEF Addressed
    <3>4. CASE ExecCmd(q) /\ at[q] = "exec" /\ (run'[c] # Nothing => run'[c].config = run[c].config)
      BY <3>2, <3>4 DEF Addressed, Booting
    <3>. QED  BY <2>2, <3>2, <3>3, <3>4, RunStep
  <2>. QED  BY <2>1, <2>2
<1>. QED  BY <1>3, <1>4

LEMMA BootingStep ==
  ASSUME TypeOK, AtHand, Booting, NEW q \in Proc, Step(q)
  PROVE  Booting'
<1>1. \A r \in Proc : r # q => at'[r] = at[r] /\ MyCnt(r)' = MyCnt(r)
  BY StepLocal
<1>2. at'[q] = "exec" => /\ LxcExecute(q) /\ MyCnt(q)' = MyCnt(q) /\ run[MyCnt(q)] = Nothing
                         /\ run'[MyCnt(q)] # Nothing /\ run'[MyCnt(q)].exec = Boot
  <2>1. SUFFICES ASSUME at'[q] = "exec"
                 PROVE  /\ LxcExecute(q) /\ MyCnt(q)' = MyCnt(q) /\ run[MyCnt(q)] = Nothing
                        /\ run'[MyCnt(q)] # Nothing /\ run'[MyCnt(q)].exec = Boot
    OBVIOUS
  <2>2. LxcExecute(q) /\ line' = line /\ ~Has(line[q], "shell")
    BY <2>1, RunStep
  <2>3. MyCnt(q)' = MyCnt(q)
    BY <2>2 DEF MyCnt, LxcExecute
  <2>4. ~ExecCmd(q) /\ at[q] = "lxc"
    BY <2>2 DEF LxcExecute, ExecCmd
  <2>. QED  BY <2>1, <2>2, <2>3, <2>4, RunStep
<1>3. ASSUME NEW r \in Proc, r # q, at[r] = "exec"
      PROVE  /\ run'[MyCnt(r)] = run[MyCnt(r)]
             /\ ~ (at'[q] = "exec" /\ MyCnt(q) = MyCnt(r))
  <2>1. MyCnt(r) \in Cnt /\ run[MyCnt(r)] # Nothing
    BY <1>3, WorkerFacts DEF Linking, Booting
  <2>2. ~ (at'[q] = "exec" /\ MyCnt(q) = MyCnt(r))
    BY <1>2, <2>1
  <2>3. CASE MyCnt(q) # MyCnt(r)
    BY <2>1, <2>2, <2>3, StepCnt DEF Busy
  <2>4. CASE MyCnt(q) = MyCnt(r)
    <3>1. ~ExecCmd(q) /\ ~LxcExecute(q)
      BY <1>3, <2>1, <2>4 DEF ExecCmd, LxcExecute, Booting
    <3>. QED  BY <2>2, <3>1, RunStep
  <2>. QED  BY <2>3, <2>4
<1>4. SUFFICES ASSUME NEW r \in Proc, at'[r] = "exec"
               PROVE  /\ run'[MyCnt(r)'] # Nothing /\ run'[MyCnt(r)'].exec = Boot
                      /\ \A p \in Proc : at'[p] = "exec" /\ MyCnt(p)' = MyCnt(r)' => p = r
  BY DEF Booting
<1>5. CASE r = q
  BY <1>1, <1>2, <1>3, <1>4, <1>5
<1>6. CASE r # q
  <2>1. at[r] = "exec" /\ MyCnt(r)' = MyCnt(r) /\ run'[MyCnt(r)] = run[MyCnt(r)]
    BY <1>1, <1>3, <1>4, <1>6
  <2>2. run[MyCnt(r)] # Nothing /\ run[MyCnt(r)].exec = Boot
    BY <2>1 DEF Booting
  <2>3. ASSUME NEW p \in Proc, at'[p] = "exec", MyCnt(p)' = MyCnt(r)' PROVE p = r
    <3>1. CASE p = q
      BY <1>2, <1>3, <1>6, <2>1, <2>3, <3>1
    <3>2. CASE p # q
      BY <1>1, <2>1, <2>3, <3>2 DEF Booting
    <3>. QED  BY <3>1, <3>2
  <2>. QED  BY <2>1, <2>2, <2>3
<1>. QED  BY <1>5, <1>6
-----------------------------------------------------------------------------
LaunchesNext(q, c) == at'[q] \notin {"idle"} \cup Linking /\ MyCnt(q)' = c /\ Fetches(line'[q]) = {}

(* The files of a container are only written by those that start it. *)
LEMMA FilesOfCnt ==
  ASSUME TypeOK, AtHand, NEW q \in Proc, Step(q), NEW c \in Cnt, ~Launches(q, c)
  PROVE  config'[c] = config[c] /\ cmd'[c] = cmd[c] /\ run'[c] = run[c]
<1>1. CASE ~Busy(q, c)
  BY <1>1, StepCnt
<1>2. CASE Busy(q, c)
  <2>1. at[q] \notin Launching
    BY <1>2 DEF Launches, AtHand
  <2>. QED  BY <2>1, StepCnt DEF Launching
<1>. QED  BY <1>1, <1>2

(* Who starts a container, after a step of q.  A crun that begins to while    *)
(* another is at it has met it, and so has the other.                         *)
LEMMA LaunchStep ==
  ASSUME TypeOK, AtHand, NEW q \in Proc, Step(q), NEW c \in Cnt
  PROVE  /\ \A r \in Proc : r # q =>
              /\ LaunchesNext(r, c) <=> Launches(r, c)
              /\ ~met'[r] => ~met[r]
         /\ LaunchesNext(q, c) =>
              \/ /\ Launches(q, c) /\ line' = line /\ met' = met /\ conf' = conf
                 /\ ~End(q) /\ ~Start(q) /\ ~StartLinks(q)
              \/ /\ at'[q] = "clear"
                 /\ \A r \in Proc : r # q /\ Launches(r, c) => met'[r] /\ met'[q]
<1>1. ASSUME NEW r \in Proc, r # q
      PROVE  (LaunchesNext(r, c) <=> Launches(r, c)) /\ (~met'[r] => ~met[r])
  <2>1. LaunchesNext(r, c) <=> Launches(r, c)
    BY <1>1, StepLocal DEF LaunchesNext, Launches, Busy
  <2>2. ~met'[r] => ~met[r]
    <3>1. CASE Start(q)
      BY <1>1, <3>1 DEF Start
    <3>2. CASE End(q)
      BY <1>1, <3>2, EndFacts
    <3>3. CASE StartLinks(q)
      BY <3>3 DEF StartLinks, hist
    <3>. QED  BY <3>1, <3>2, <3>3, GoesOn
  <2>. QED  BY <2>1, <2>2
<1>2. ASSUME LaunchesNext(q, c)
      PROVE  \/ /\ Launches(q, c) /\ line' = line /\ met' = met /\ conf' = conf
                /\ ~End(q) /\ ~Start(q) /\ ~StartLinks(q)
             \/ /\ at'[q] = "clear"
                /\ \A r \in Proc : r # q /\ Launches(r, c) => met'[r] /\ met'[q]
  <2>1. ~End(q)
    BY <1>2, EndFacts DEF LaunchesNext
  <2>2. ~StartLinks(q)
    BY <1>2 DEF LaunchesNext, StartLinks, Goto, TypeOK, Linking
  <2>3. CASE Start(q)
    <3>1. PICK l \in Lines[q] :
            /\ line' = [line EXCEPT ![q] = l]
            /\ met' = [p \in Proc |->
                 IF p = q THEN (IF Fetches(l) # {} THEN {} ELSE {s \in Proc : Launches(s, CntOf(conf, l.bin))}) # {}
                 ELSE met[p] \/ p \in (IF Fetches(l) # {} THEN {} ELSE {s \in Proc : Launches(s, CntOf(conf, l.bin))})]
            /\ Goto(q, IF Fetches(l) # {} THEN "list" ELSE "clear")
      BY <2>3 DEF Start
    <3>2. line'[q] = l /\ conf' = conf
      BY <2>3, <3>1 DEF Start, TypeOK
    <3>3. Fetches(l) = {} /\ CntOf(conf, l.bin) = c
      BY <1>2, <3>2 DEF LaunchesNext, MyCnt
    <3>4. at'[q] = "clear"
      BY <3>1, <3>3 DEF Goto, TypeOK
    <3>5. \A r \in Proc : r # q /\ Launches(r, c) => met'[r] /\ met'[q]
      BY <3>1, <3>3
    <3>. QED  BY <3>4, <3>5
  <2>4. CASE ~Start(q)
    <3>1. /\ line' = line /\ met' = met /\ conf' = conf /\ MyCnt(q)' = MyCnt(q)
          /\ at[q] # "idle" /\ (at[q] \in Linking <=> at'[q] \in Linking)
      BY <2>1, <2>2, <2>4, GoesOn
    <3>2. Launches(q, c)
      BY <1>2, <3>1 DEF LaunchesNext, Launches, Busy
    <3>. QED  BY <2>1, <2>2, <2>4, <3>1, <3>2
  <2>. QED  BY <2>3, <2>4
<1>. QED  BY <1>1, <1>2

(* The files that a crun writes, step by step. *)
LEMMA OwnFiles ==
  ASSUME TypeOK, AtHand, Booting, Own, NEW q \in Proc, Step(q), NEW c \in Cnt, Launches(q, c), ~met[q],
         ~End(q), ~Start(q), ~StartLinks(q)
  PROVE  /\ at'[q] \in {"cmd", "cmd fill", "mkdir", "lxc"} /\ WritesConfig(line[q]) =>
              config'[c] = ConfigText(conf, line[q])
         /\ at'[q] \in {"mkdir", "lxc", "exec"} => cmd'[c] = CmdText(line[q])
         /\ at'[q] = "exec" => run'[c].config = ConfigText(conf, line[q])
<1>0. MyCnt(q) = c /\ at \in [Proc -> Phases]
  BY DEF Launches, Busy, TypeOK, Phases
<1>1. CASE at'[q] = "cmd"
  <2>1. WriteLxcConfig(q) \/ CheckEmpty(q)
    BY <1>1 DEF Step, ClearBind, ListWork, RemoveEmpty, CreateFile, WriteCmd,
         CreateBindDirs, LxcExecute, ExecCmd, ReadWorkDir, CopyEntry, CopyDone, SweepWorkDir,
         ListLinks, RemoveLink, MakeLink, LinkFails, Stop, Goto, TypeOK, proc
  <2>2. CASE WriteLxcConfig(q)
    BY <1>0, <1>1, <2>2 DEF WriteLxcConfig, TypeOK
  <2>3. CASE CheckEmpty(q)
    <3>1. ~WritesConfig(line[q])
      BY <1>0, <1>1, <2>3 DEF CheckEmpty, AfterClear, Goto
    <3>. QED  BY <1>1, <3>1
  <2>. QED  BY <2>1, <2>2, <2>3
<1>2. CASE at'[q] = "cmd fill"
  <2>1. CreateFile(q)
    BY <1>2 DEF Step, ClearBind, ListWork, CheckEmpty, AfterClear, RemoveEmpty, WriteLxcConfig, WriteCmd,
         CreateBindDirs, LxcExecute, ExecCmd, ReadWorkDir, CopyEntry, CopyDone, SweepWorkDir,
         ListLinks, RemoveLink, MakeLink, LinkFails, Stop, Goto, TypeOK, proc
  <2>2. at[q] = "cmd" /\ config' = config
    BY <1>0, <1>2, <2>1 DEF CreateFile, Goto
  <2>. QED  BY <1>2, <2>2 DEF Own
<1>3. CASE at'[q] = "mkdir"
  <2>1. WriteCmd(q)
    BY <1>3 DEF Step, ClearBind, ListWork, CheckEmpty, AfterClear, RemoveEmpty, CreateFile, WriteLxcConfig,
         CreateBindDirs, LxcExecute, ExecCmd, ReadWorkDir, CopyEntry, CopyDone, SweepWorkDir,
         ListLinks, RemoveLink, MakeLink, LinkFails, Stop, Goto, TypeOK, proc
  <2>2. at[q] = "cmd fill" /\ config' = config /\ cmd'[c] = CmdText(line[q])
    BY <1>0, <2>1 DEF WriteCmd, TypeOK
  <2>. QED  BY <1>3, <2>2 DEF Own
<1>4. CASE at'[q] = "lxc"
  <2>1. CreateBindDirs(q)
    BY <1>4 DEF Step, ClearBind, ListWork, CheckEmpty, AfterClear, RemoveEmpty, CreateFile, WriteLxcConfig, WriteCmd,
         LxcExecute, ExecCmd, ReadWorkDir, CopyEntry, CopyDone, SweepWorkDir,
         ListLinks, RemoveLink, MakeLink, LinkFails, Stop, Goto, TypeOK, proc
  <2>2. at[q] = "mkdir" /\ config' = config /\ cmd' = cmd
    BY <2>1 DEF CreateBindDirs
  <2>. QED  BY <1>4, <2>2 DEF Own
<1>5. CASE at'[q] = "exec"
  <2>1. LxcExecute(q) /\ at[q] = "lxc" /\ run'[c].config = config[c]
    BY <1>0, <1>5, RunStep
  <2>2. ~Has(line[q], "shell") /\ cmd' = cmd
    BY <1>5, <2>1, PhaseFacts DEF LxcExecute, cntDir
  <2>3. WritesConfig(line[q])
    BY <2>2 DEF WritesConfig
  <2>. QED  BY <1>5, <2>1, <2>2, <2>3 DEF Own
<1>. QED  BY <1>1, <1>2, <1>3, <1>4, <1>5

LEMMA OwnStep ==
  ASSUME TypeOK, AtHand, Booting, Own, NEW q \in Proc, Step(q)
  PROVE  Own'
<1>1. SUFFICES ASSUME NEW r \in Proc, NEW c \in Cnt, LaunchesNext(r, c), ~met'[r]
               PROVE  /\ \A p \in Proc : LaunchesNext(p, c) => p = r
                      /\ at'[r] \in {"cmd", "cmd fill", "mkdir", "lxc"} /\ WritesConfig(line'[r]) =>
                           config'[c] = ConfigText(conf', line'[r])
                      /\ at'[r] \in {"mkdir", "lxc", "exec"} => cmd'[c] = CmdText(line'[r])
                      /\ at'[r] = "exec" => run'[c].config = ConfigText(conf', line'[r])
  BY DEF Own, Launches, Busy, LaunchesNext
<1>2. ASSUME NEW p \in Proc, LaunchesNext(p, c), p # r PROVE FALSE
  <2>1. CASE Launches(p, c) /\ Launches(r, c)
    <3>1. ~met[r]
      <4>1. CASE r # q
        BY <1>1, <4>1, LaunchStep
      <4>2. CASE r = q
        BY <1>1, <1>2, <2>1, <4>2, LaunchStep
      <4>. QED  BY <4>1, <4>2
    <3>. QED  BY <1>2, <2>1, <3>1 DEF Own
  <2>2. CASE ~(Launches(p, c) /\ Launches(r, c))
    BY <1>1, <1>2, <2>2, LaunchStep
  <2>. QED  BY <2>1, <2>2
<1>3. CASE r # q
  <2>1. Launches(r, c) /\ ~met[r]
    BY <1>1, <1>3, LaunchStep
  <2>2. ~Launches(q, c)
    BY <1>3, <2>1 DEF Own
  <2>3. config'[c] = config[c] /\ cmd'[c] = cmd[c] /\ run'[c] = run[c]
    BY <2>2, FilesOfCnt
  <2>4. at'[r] = at[r] /\ line'[r] = line[r] /\ conf' = conf
    BY <1>3, StepLocal
  <2>. QED  BY <1>2, <2>1, <2>3, <2>4 DEF Own
<1>4. CASE r = q
  <2>1. CASE at'[q] = "clear"
    BY <1>2, <1>4, <2>1
  <2>2. CASE at'[q] # "clear"
    <3>1. /\ Launches(q, c) /\ line' = line /\ met' = met /\ conf' = conf
          /\ ~End(q) /\ ~Start(q) /\ ~StartLinks(q)
      BY <1>1, <1>4, <2>2, LaunchStep
    <3>2. ~met[q]
      BY <1>1, <1>4, <3>1
    <3>. QED  BY <1>2, <1>4, <3>1, <3>2, OwnFiles
  <2>. QED  BY <2>1, <2>2
<1>. QED  BY <1>3, <1>4
-----------------------------------------------------------------------------
(* Only the programs in a container write to its work directory. *)
LEMMA DataStays ==
  ASSUME TypeOK, AtHand, NEW q \in Proc, Step(q), NEW c \in Cnt, NEW f \in Name, work'[c][f] = "data"
  PROVE  work[c][f] = "data"
<1>1. CASE RemoveEmpty(q)
  <2>1. MyCnt(q) \in Cnt
    BY <1>1, WorkerFacts DEF RemoveEmpty, Linking
  <2>. QED  BY <1>1, <2>1 DEF RemoveEmpty, Without, TypeOK
<1>2. CASE LxcExecute(q)
  BY <1>2 DEF LxcExecute, TypeOK
<1>3. CASE SweepWorkDir(q)
  BY <1>3 DEF SweepWorkDir, Without, TypeOK
<1>4. CASE ~RemoveEmpty(q) /\ ~LxcExecute(q) /\ ~SweepWorkDir(q)
  <2>1. work' = work
    BY <1>4 DEF Step, Start, ClearBind, ListWork, CheckEmpty, CreateFile, WriteLxcConfig, WriteCmd,
           CreateBindDirs, ExecCmd, ReadWorkDir, CopyEntry, CopyDone, StartLinks,
           ListLinks, RemoveLink, MakeLink, LinkFails, Stop
  <2>. QED  BY <2>1
<1>. QED  BY <1>1, <1>2, <1>3, <1>4

(* Which steps lead to where something is about to be removed. *)
LEMMA RemovalPhases ==
  ASSUME TypeOK, NEW q \in Proc, Step(q)
  PROVE  /\ at'[q] = "remove" => CheckEmpty(q)
         /\ at'[q] = "copy" => ReadWorkDir(q) \/ CopyEntry(q)
         /\ at'[q] = "sweep" => CopyDone(q)
<1>1. at'[q] = "remove" => CheckEmpty(q)
  BY DEF Step, Start, ClearBind, ListWork, RemoveEmpty, CreateFile, WriteLxcConfig, WriteCmd,
         CreateBindDirs, LxcExecute, ExecCmd, ReadWorkDir, CopyEntry, CopyDone, SweepWorkDir, StartLinks,
         ListLinks, RemoveLink, MakeLink, LinkFails, Stop, Goto, TypeOK, proc, End
<1>2. at'[q] = "copy" => ReadWorkDir(q) \/ CopyEntry(q)
  BY DEF Step, Start, ClearBind, ListWork, CheckEmpty, AfterClear, RemoveEmpty, CreateFile, WriteLxcConfig, WriteCmd,
         CreateBindDirs, LxcExecute, ExecCmd, CopyDone, SweepWorkDir, StartLinks,
         ListLinks, RemoveLink, MakeLink, LinkFails, Stop, Goto, TypeOK, proc, End
<1>3. at'[q] = "sweep" => CopyDone(q)
  BY DEF Step, Start, ClearBind, ListWork, CheckEmpty, AfterClear, RemoveEmpty, CreateFile, WriteLxcConfig, WriteCmd,
         CreateBindDirs, LxcExecute, ExecCmd, ReadWorkDir, CopyEntry, SweepWorkDir, StartLinks,
         ListLinks, RemoveLink, MakeLink, LinkFails, Stop, Goto, TypeOK, proc, End
<1>. QED  BY <1>1, <1>2, <1>3

LEMMA RemovalStep ==
  ASSUME TypeOK, AtHand, Removal, NEW q \in Proc, Step(q)
  PROVE  Removal'
<1>1. SUFFICES ASSUME NEW r \in Proc, NEW f \in Name, Working(r)', work'[MyCnt(r)'][f] = "data"
               PROVE  /\ at'[r] = "remove" /\ f = Head(todo'[r]) => f \in late'[r]
                      /\ at'[r] \in {"copy", "sweep"} =>
                           f \in late'[r] \cup got'[r] \/ (at'[r] = "copy" /\ f \in Rest(r)')
  BY DEF Removal
<1>2. CASE r # q
  <2>1. /\ at'[r] = at[r] /\ todo'[r] = todo[r] /\ got'[r] = got[r] /\ late'[r] = late[r]
        /\ MyCnt(r)' = MyCnt(r) /\ Rest(r)' = Rest(r) /\ Working(r)' = Working(r)
    BY <1>2, StepLocal
  <2>2. Working(r) /\ MyCnt(r) \in Cnt
    BY <1>1, <2>1 DEF AtHand
  <2>3. work[MyCnt(r)][f] = "data"
    BY <1>1, <2>1, <2>2, DataStays
  <2>. QED  BY <2>1, <2>2, <2>3 DEF Removal
<1>3. CASE r = q
  <2>1. CASE at'[q] = "remove"
    <3>1. /\ CheckEmpty(q) /\ at[q] = "check" /\ work' = work /\ line' = line /\ conf' = conf
      BY <2>1, RemovalPhases DEF CheckEmpty
    <3>2. work[MyCnt(q)][Head(todo[q])] = "empty" /\ todo' = todo
      BY <2>1, <3>1 DEF CheckEmpty, AfterClear, Goto, TypeOK
    <3>3. MyCnt(q)' = MyCnt(q)
      BY <3>1 DEF MyCnt
    <3>. QED  BY <1>1, <1>3, <2>1, <3>1, <3>2, <3>3
  <2>2. CASE at'[q] = "copy" /\ ReadWorkDir(q)
    <3>1. PICK s \in Listings(Entries(MyCnt(q))) : Todo(q, s)
      BY <2>2 DEF ReadWorkDir
    <3>2. todo'[q] = s
      BY <3>1, ListTypes, TodoType
    <3>3. {s[n] : n \in DOMAIN s} = Entries(MyCnt(q))
      BY <3>1, EntriesFinite, ListingFacts
    <3>4. Rest(q)' = Entries(MyCnt(q))
      BY <3>2, <3>3 DEF Rest
    <3>5. MyCnt(q)' = MyCnt(q) /\ work' = work
      BY <2>2 DEF ReadWorkDir, MyCnt
    <3>6. f \in Entries(MyCnt(q))
      BY <1>1, <1>3, <3>5 DEF Entries
    <3>. QED  BY <1>3, <2>2, <3>4, <3>6
  <2>3. CASE at'[q] = "copy" /\ CopyEntry(q)
    <3>1. /\ at[q] = "copy" /\ todo[q] # << >> /\ Todo(q, Tail(todo[q]))
          /\ got'[q] = got[q] \cup {Head(todo[q])} /\ late' = late
          /\ MyCnt(q)' = MyCnt(q) /\ work' = work
      BY <2>3 DEF CopyEntry, MyCnt, TypeOK
    <3>2. todo'[q] = Tail(todo[q])
      BY <3>1, TodoFacts, TodoType
    <3>3. Working(q) /\ work[MyCnt(q)][f] = "data"
      BY <1>1, <1>3, <3>1 DEF Working, Fetching
    <3>4. f \in late[q] \cup got[q] \/ f \in Rest(q)
      BY <3>1, <3>3 DEF Removal
    <3>5. f \in Rest(q) => f = Head(todo[q]) \/ f \in Rest(q)'
      <4>1. SUFFICES ASSUME f \in Rest(q), f # Head(todo[q]) PROVE f \in Rest(q)'
        OBVIOUS
      <4>2. PICK n \in DOMAIN todo[q] : f = todo[q][n]
        BY <4>1 DEF Rest
      <4>3. n # 1
        BY <3>1, <4>1, <4>2, TodoFacts
      <4>4. n - 1 \in DOMAIN Tail(todo[q]) /\ f = Tail(todo[q])[n - 1]
        BY <3>1, <4>2, <4>3, TodoFacts
      <4>. QED  BY <3>2, <4>4 DEF Rest
    <3>. QED  BY <1>3, <2>3, <3>1, <3>4, <3>5
  <2>4. CASE at'[q] = "sweep"
    <3>1. /\ CopyDone(q) /\ at[q] = "copy" /\ todo[q] = << >> /\ work' = work
          /\ late' = late /\ got' = got /\ MyCnt(q)' = MyCnt(q)
      BY <2>4, RemovalPhases DEF CopyDone, MyCnt, proc, hist
    <3>2. Rest(q) = {}
      BY <3>1, EmptyDomain DEF Rest
    <3>3. Working(q) /\ work[MyCnt(q)][f] = "data"
      BY <1>1, <1>3, <3>1 DEF Working, Fetching
    <3>. QED  BY <1>3, <2>4, <3>1, <3>2, <3>3 DEF Removal
  <2>. QED  BY <1>3, <2>1, <2>2, <2>3, <2>4, RemovalPhases
<1>. QED  BY <1>2, <1>3
-----------------------------------------------------------------------------
(* What a step of a crun --links does. *)
LEMMA LinkStep ==
  ASSUME TypeOK, AtHand, NEW q \in Proc, Step(q), at[q] \in Linking
  PROVE  ListLinks(q) \/ RemoveLink(q) \/ MakeLink(q) \/ LinkFails(q) \/ Stop(q)
BY DEF Linking, Step, Start, ClearBind, ListWork, CheckEmpty, RemoveEmpty, CreateFile, WriteLxcConfig, WriteCmd,
       CreateBindDirs, LxcExecute, ExecCmd, ReadWorkDir, CopyEntry, CopyDone, SweepWorkDir, StartLinks

LEMMA NoLinkStep ==
  ASSUME TypeOK, AtHand, NEW q \in Proc, Step(q), at[q] \notin Linking, ~StartLinks(q), ~torn'
  PROVE  links' = links /\ ~torn /\ at'[q] \notin Linking
<1>1. links' = links
  BY DEF Linking, Step, Start, ClearBind, ListWork, CheckEmpty, RemoveEmpty, CreateFile, WriteLxcConfig, WriteCmd,
       CreateBindDirs, LxcExecute, ExecCmd, ReadWorkDir, CopyEntry, CopyDone, SweepWorkDir,
       ListLinks, RemoveLink, MakeLink, LinkFails, Stop
<1>2. ~torn
  BY DEF Linking, Step, Start, ClearBind, ListWork, CheckEmpty, RemoveEmpty, CreateFile, WriteLxcConfig, WriteCmd,
       CreateBindDirs, LxcExecute, ExecCmd, ReadWorkDir, CopyEntry, CopyDone, SweepWorkDir,
       ListLinks, RemoveLink, MakeLink, LinkFails, Stop
<1>3. CASE End(q)
  BY <1>1, <1>2, <1>3, EndFacts DEF Linking
<1>4. CASE Start(q)
  BY <1>1, <1>2, <1>4 DEF Start, Goto, TypeOK, Linking
<1>. QED  BY <1>1, <1>2, <1>3, <1>4, GoesOn

LEMMA LinkStateStep ==
  ASSUME NoBinTwice, TypeOK, AtHand, LinkState, NEW q \in Proc, Step(q)
  PROVE  LinkState'
<1>0. /\ conf' = conf /\ LinkBins' = LinkBins
      /\ \A r \in Proc : r # q => at'[r] = at[r] /\ todo'[r] = todo[r] /\ Rest(r)' = Rest(r)
  <2>1. conf' = conf
    BY DEF Step, Start, ClearBind, ListWork, CheckEmpty, RemoveEmpty, CreateFile, WriteLxcConfig, WriteCmd,
         CreateBindDirs, LxcExecute, ExecCmd, ReadWorkDir, CopyEntry, CopyDone, SweepWorkDir, StartLinks,
         ListLinks, RemoveLink, MakeLink, LinkFails, Stop
  <2>. QED  BY <2>1, StepLocal DEF LinkBins
<1>1. SUFFICES ASSUME ~torn'
               PROVE  /\ \A p, r \in Proc : at'[p] \in Linking /\ at'[r] \in Linking => p = r
                      /\ (\A r \in Proc : at'[r] \notin Linking) => links' = LinkBins'
                      /\ \A r \in Proc :
                           /\ at'[r] = "unlink" => Rest(r)' = links' /\ Distinct(r)'
                           /\ at'[r] = "symlink" =>
                                Rest(r)' \cup links' = LinkBins' /\ Rest(r)' \cap links' = {} /\ Distinct(r)'
  BY <1>0 DEF LinkState, LinksComplete
<1>2. CASE StartLinks(q)
  <2>1. \A p \in Proc : at[p] \notin Linking
    BY <1>1, <1>2 DEF StartLinks
  <2>2. at'[q] = "unlink list" /\ at'[q] \in Linking
    BY <1>2 DEF StartLinks, Goto, TypeOK, Linking
  <2>3. \A r \in Proc : r # q => at'[r] \notin Linking /\ at'[r] # "unlink" /\ at'[r] # "symlink"
    BY <1>0, <2>1 DEF Linking
  <2>. QED  BY <2>2, <2>3
<1>3. CASE ~StartLinks(q) /\ at[q] \notin Linking
  <2>1. links' = links /\ ~torn /\ at'[q] \notin Linking
    BY <1>1, <1>3, NoLinkStep
  <2>2. \A r \in Proc : at'[r] \in Linking => r # q /\ at[r] \in Linking
    BY <1>0, <2>1
  <2>3. (\A r \in Proc : at'[r] \notin Linking) => \A r \in Proc : at[r] \notin Linking
    BY <1>0, <1>3
  <2>4. \A r \in Proc : at'[r] = "unlink" \/ at'[r] = "symlink" => r # q
    BY <2>1 DEF Linking
  <2>5. \A r \in Proc : r # q => (Distinct(r)' <=> Distinct(r))
    BY <1>0 DEF Distinct
  <2>. QED  BY <1>0, <2>1, <2>2, <2>3, <2>4, <2>5 DEF LinkState, LinksComplete
<1>4. CASE ~StartLinks(q) /\ at[q] \in Linking
  <2>1. ~torn /\ ~Stop(q)
    <3>1. ~Stop(q)
      BY <1>1, <1>4 DEF Stop
    <3>2. torn' = torn
      BY <1>4, <3>1, LinkStep DEF ListLinks, RemoveLink, MakeLink, LinkFails
    <3>. QED  BY <1>1, <3>1, <3>2
  <2>2. \A r \in Proc : r # q => at'[r] \notin Linking /\ at'[r] # "unlink" /\ at'[r] # "symlink"
    BY <1>0, <1>4, <2>1 DEF LinkState, Linking
  <2>3. SUFFICES /\ at'[q] \notin Linking => links' = LinkBins
                 /\ at'[q] = "unlink" => Rest(q)' = links' /\ Distinct(q)'
                 /\ at'[q] = "symlink" =>
                      Rest(q)' \cup links' = LinkBins /\ Rest(q)' \cap links' = {} /\ Distinct(q)'
    BY <1>0, <2>2
  <2>4. CASE LinkFails(q)
    <3>1. todo[q] # << >> /\ Head(todo[q]) \in Rest(q)
      BY <2>4, TodoFacts DEF LinkFails
    <3>. QED  BY <2>1, <2>4, <3>1 DEF LinkFails, LinkState
  <2>5. CASE ListLinks(q)
    <3>1. PICK s \in Listings(links) : Todo(q, s)
      BY <2>5 DEF ListLinks
    <3>2. todo'[q] = s /\ IsFiniteSet(links)
      BY <3>1, ListTypes, TodoType
    <3>3. {s[n] : n \in DOMAIN s} = links /\ \A m, n \in DOMAIN s : s[m] = s[n] => m = n
      BY <3>1, <3>2, ListingFacts
    <3>4. Rest(q)' = links /\ Distinct(q)'
      BY <3>2, <3>3 DEF Rest, Distinct
    <3>5. links' = links /\ at'[q] = "unlink"
      BY <2>5 DEF ListLinks, Goto, TypeOK
    <3>. QED  BY <3>4, <3>5 DEF Linking
  <2>6. CASE RemoveLink(q) /\ todo[q] # << >>
    <3>1. /\ at[q] = "unlink" /\ at' = at /\ Todo(q, Tail(todo[q])) /\ links' = links \ {Head(todo[q])}
      BY <2>6 DEF RemoveLink
    <3>2. Rest(q) = links /\ Distinct(q)
      BY <2>1, <3>1 DEF LinkState
    <3>3. todo'[q] = Tail(todo[q])
      BY <2>6, <3>1, TodoFacts, TodoType
    <3>4. Rest(q)' = Rest(q) \ {Head(todo[q])} /\ Distinct(q)'
      BY <2>6, <3>2, <3>3, TailFacts DEF Rest, Distinct
    <3>. QED  BY <3>1, <3>2, <3>4 DEF Linking
  <2>7. CASE RemoveLink(q) /\ todo[q] = << >>
    <3>1. /\ at[q] = "unlink" /\ at'[q] = "symlink" /\ Todo(q, LinkOrder) /\ links' = links
      BY <2>7 DEF RemoveLink, Goto, TypeOK
    <3>2. Rest(q) = {} /\ links = {}
      BY <2>1, <2>7, <3>1, EmptyDomain DEF LinkState, Rest
    <3>3. todo'[q] = LinkOrder
      BY <3>1, LinkOrderFacts, TodoType
    <3>4. Rest(q)' = LinkBins
      BY <3>3, LinkOrderFacts DEF Rest
    <3>5. Distinct(q)'
      <4>1. \A m, n \in DOMAIN LinkOrder : LinkOrder[m] = LinkOrder[n] => m = n
        BY LinkOrderFacts, ConfFacts DEF NoBinTwice
      <4>. QED  BY <3>3, <4>1 DEF Distinct
    <3>. QED  BY <3>1, <3>2, <3>4, <3>5 DEF Linking
  <2>8. CASE MakeLink(q) /\ todo[q] # << >>
    <3>1. /\ at[q] = "symlink" /\ at' = at /\ Todo(q, Tail(todo[q])) /\ links' = links \cup {Head(todo[q])}
      BY <2>8 DEF MakeLink
    <3>2. Rest(q) \cup links = LinkBins /\ Rest(q) \cap links = {} /\ Distinct(q)
      BY <2>1, <3>1 DEF LinkState
    <3>3. todo'[q] = Tail(todo[q]) /\ Head(todo[q]) \in Rest(q)
      BY <2>8, <3>1, TodoFacts, TodoType
    <3>4. Rest(q)' = Rest(q) \ {Head(todo[q])} /\ Distinct(q)'
      <4>1. /\ {Tail(todo[q])[n] : n \in DOMAIN Tail(todo[q])} = Rest(q) \ {Head(todo[q])}
            /\ \A m, n \in DOMAIN Tail(todo[q]) : Tail(todo[q])[m] = Tail(todo[q])[n] => m = n
        BY <2>8, <3>2, TailFacts
      <4>. QED  BY <3>3, <4>1 DEF Rest, Distinct
    <3>. QED  BY <3>1, <3>2, <3>3, <3>4 DEF Linking
  <2>9. CASE MakeLink(q) /\ todo[q] = << >>
    <3>1. at[q] = "symlink" /\ links' = links /\ at'[q] = "idle"
      BY <2>9, EndFacts DEF MakeLink
    <3>2. Rest(q) = {} /\ links = LinkBins
      <4>1. Rest(q) \cup links = LinkBins
        BY <2>1, <3>1 DEF LinkState
      <4>2. Rest(q) = {}
        BY <2>9, EmptyDomain DEF Rest
      <4>. QED  BY <4>1, <4>2
    <3>. QED  BY <3>1, <3>2 DEF Linking
  <2>. QED  BY <1>4, <2>1, <2>4, <2>5, <2>6, <2>7, <2>8, <2>9, LinkStep
<1>. QED  BY <1>2, <1>3, <1>4
-----------------------------------------------------------------------------
LEMMA AtHandKept ==
  ASSUME AtHand, conf' = conf, at' = at, line' = line, todo' = todo, got' = got,
         \A q \in Proc : at[q] = "idle" => late'[q] = late[q]
  PROVE  AtHand'
<1>1. SUFFICES ASSUME NEW r \in Proc
               PROVE  /\ at'[r] = "idle" => got'[r] = {} /\ late'[r] = {}
                      /\ Working(r)' => line'[r] \in CommandLine /\ MyCnt(r)' \in Cnt
                      /\ at'[r] \in Launching => Fetches(line'[r]) = {}
                      /\ at'[r] \in Fetching => Fetches(line'[r]) # {}
                      /\ at'[r] \in {"config", "config fill"} => WritesConfig(line'[r])
                      /\ at'[r] = "remove" => todo'[r] # << >>
                      /\ at'[r] = "exec" => ~Has(line'[r], "shell")
                      /\ at'[r] = "symlink" => Rest(r)' \subseteq LinkBins'
  BY DEF AtHand
<1>2. MyCnt(r)' = MyCnt(r) /\ Rest(r)' = Rest(r) /\ (Working(r)' <=> Working(r)) /\ LinkBins' = LinkBins
  BY DEF MyCnt, Rest, Working, LinkBins
<1>. QED  BY <1>2 DEF AtHand

LEMMA LaunchesKept ==
  ASSUME Addressed, Booting, Own, conf' = conf, config' = config, cmd' = cmd, run' = run,
         at' = at, line' = line, met' = met
  PROVE  Addressed' /\ Booting' /\ Own'
<1>1. \A q \in Proc : MyCnt(q)' = MyCnt(q)
  BY DEF MyCnt
<1>2. \A c \in Cnt : Addresses(c)' = Addresses(c)
  BY DEF Addresses
<1>3. \A q \in Proc : \A c \in Cnt : LaunchesNext(q, c) <=> Launches(q, c)
  BY <1>1 DEF LaunchesNext, Launches, Busy
<1>4. Addressed'
  BY <1>2 DEF Addressed
<1>5. Booting'
  <2>1. SUFFICES ASSUME NEW r \in Proc, at'[r] = "exec"
                 PROVE  /\ run'[MyCnt(r)'] # Nothing /\ run'[MyCnt(r)'].exec = Boot
                        /\ \A p \in Proc : at'[p] = "exec" /\ MyCnt(p)' = MyCnt(r)' => p = r
    BY DEF Booting
  <2>. QED  BY <1>1, <2>1 DEF Booting
<1>6. Own'
  <2>1. SUFFICES ASSUME NEW r \in Proc, NEW c \in Cnt, LaunchesNext(r, c), ~met'[r]
               PROVE  /\ \A p \in Proc : LaunchesNext(p, c) => p = r
                      /\ at'[r] \in {"cmd", "cmd fill", "mkdir", "lxc"} /\ WritesConfig(line'[r]) =>
                           config'[c] = ConfigText(conf', line'[r])
                      /\ at'[r] \in {"mkdir", "lxc", "exec"} => cmd'[c] = CmdText(line'[r])
                      /\ at'[r] = "exec" => run'[c].config = ConfigText(conf', line'[r])
    BY DEF Own, Launches, Busy, LaunchesNext
  <2>. QED  BY <1>3, <2>1 DEF Own
<1>. QED  BY <1>4, <1>5, <1>6

(* The steps of the programs in the containers, and those that change nothing. *)
LEMMA CntWriteStep ==
  ASSUME CrunInv, NEW c \in Cnt, CntWrite(c)
  PROVE  CrunInv'
<1>1. /\ conf' = conf /\ bind' = bind /\ config' = config /\ cmd' = cmd /\ run' = run /\ links' = links
      /\ at' = at /\ line' = line /\ todo' = todo /\ met' = met /\ got' = got /\ torn' = torn
  BY DEF CntWrite, cntDir
<1>2. PICK f \in Writes[c] : /\ work' = [work EXCEPT ![c][f] = IF @ = "none" THEN "empty" ELSE "data"]
                             /\ late' = [q \in Proc |-> IF Removes(q, c) THEN late[q] \cup {f} ELSE late[q]]
  BY DEF CntWrite
<1>3. f \in Name
  BY CrunAssumption
<1>4. /\ late' \in [Proc -> SUBSET Name]
      /\ \A q \in Proc : /\ late[q] \subseteq late'[q]
                         /\ Removes(q, c) => f \in late'[q]
                         /\ at[q] = "idle" => late'[q] = late[q]
  BY <1>2, <1>3 DEF CrunInv, TypeOK, Removes, Shared, Fetching
<1>5. work' \in [Cnt -> [Name -> {"none", "empty", "data"}]]
  BY <1>2, <1>3 DEF CrunInv, TypeOK
<1>6. \A d \in Cnt : \A g \in Name : d # c \/ g # f => work'[d][g] = work[d][g]
  BY <1>2, <1>3 DEF CrunInv, TypeOK
<1>7. TypeOK'
  BY <1>1, <1>4, <1>5 DEF CrunInv, TypeOK
<1>8. AtHand'
  BY <1>1, <1>4, AtHandKept DEF CrunInv
<1>9. Addressed' /\ Booting' /\ Own'
  BY <1>1, LaunchesKept DEF CrunInv
<1>10. Removal'
  <2>1. SUFFICES ASSUME NEW q \in Proc, NEW g \in Name, Working(q), work'[MyCnt(q)][g] = "data"
                 PROVE  /\ at[q] = "remove" /\ g = Head(todo[q]) => g \in late'[q]
                        /\ at[q] \in {"copy", "sweep"} =>
                             g \in late'[q] \cup got[q] \/ (at[q] = "copy" /\ g \in Rest(q))
    BY <1>1 DEF Removal, Working, MyCnt, Rest
  <2>2. MyCnt(q) \in Cnt
    BY <2>1 DEF CrunInv, AtHand
  <2>3. CASE MyCnt(q) # c \/ g # f
    BY <1>4, <1>6, <2>1, <2>2, <2>3 DEF CrunInv, Removal
  <2>4. CASE MyCnt(q) = c /\ g = f
    <3>1. at[q] \in {"remove", "copy", "sweep"} => Removes(q, c)
      BY <2>4 DEF Removes, Shared, Fetching
    <3>. QED  BY <1>4, <2>4, <3>1
  <2>. QED  BY <2>3, <2>4
<1>11. LinkState'
  BY <1>1 DEF CrunInv, LinkState, LinksComplete, LinkBins, Rest, Distinct
<1>. QED  BY <1>7, <1>8, <1>9, <1>10, <1>11 DEF CrunInv

LEMMA CntExitStep ==
  ASSUME CrunInv, NEW c \in Cnt, CntExit(c)
  PROVE  CrunInv'
<1>1. /\ conf' = conf /\ bind' = bind /\ config' = config /\ cmd' = cmd /\ work' = work /\ links' = links
      /\ at' = at /\ line' = line /\ todo' = todo /\ met' = met /\ got' = got /\ late' = late /\ torn' = torn
  BY DEF CntExit, cntDir, proc, hist
<1>2. /\ run' \in [Cnt -> {Nothing} \cup Program] /\ run'[c] = Nothing
      /\ \A d \in Cnt : d # c => run'[d] = run[d]
  BY DEF CntExit, CrunInv, TypeOK
<1>3. \A q \in Proc : at[q] = "exec" => MyCnt(q) \in Cnt /\ MyCnt(q) # c
  BY WorkerFacts DEF CntExit, CrunInv, Booting, Linking
<1>4. TypeOK'
  BY <1>1, <1>2 DEF CrunInv, TypeOK
<1>5. AtHand'
  BY <1>1, AtHandKept DEF CrunInv
<1>6. Addressed'
  <2>1. SUFFICES ASSUME NEW d \in Cnt
                 PROVE  /\ config[d] \notin {Missing, Empty} => config[d].addr \subseteq Addresses(d)
                        /\ run'[d] # Nothing => run'[d].config.addr \subseteq Addresses(d)
    BY <1>1 DEF Addressed, Addresses
  <2>. QED  BY <1>2 DEF CrunInv, Addressed
<1>7. Booting'
  <2>1. SUFFICES ASSUME NEW q \in Proc, at[q] = "exec"
                 PROVE  /\ run'[MyCnt(q)] # Nothing /\ run'[MyCnt(q)].exec = Boot
                        /\ \A p \in Proc : at[p] = "exec" /\ MyCnt(p) = MyCnt(q) => p = q
    BY <1>1 DEF Booting, MyCnt
  <2>2. run'[MyCnt(q)] = run[MyCnt(q)]
    BY <1>2, <1>3, <2>1
  <2>. QED  BY <2>1, <2>2 DEF CrunInv, Booting
<1>8. Own'
  <2>1. SUFFICES ASSUME NEW q \in Proc, NEW d \in Cnt, Launches(q, d), ~met[q]
                 PROVE  /\ \A p \in Proc : Launches(p, d) => p = q
                        /\ at[q] \in {"cmd", "cmd fill", "mkdir", "lxc"} /\ WritesConfig(line[q]) =>
                             config[d] = ConfigText(conf, line[q])
                        /\ at[q] \in {"mkdir", "lxc", "exec"} => cmd[d] = CmdText(line[q])
                        /\ at[q] = "exec" => run'[d].config = ConfigText(conf, line[q])
    BY <1>1 DEF Own, Launches, Busy, MyCnt
  <2>2. at[q] = "exec" => run'[d] = run[d]
    BY <1>2, <1>3, <2>1 DEF Launches, Busy
  <2>. QED  BY <2>1, <2>2 DEF CrunInv, Own
<1>9. Removal' /\ LinkState'
  BY <1>1 DEF CrunInv, Removal, Working, MyCnt, Rest, LinkState, LinksComplete, LinkBins, Distinct
<1>. QED  BY <1>4, <1>5, <1>6, <1>7, <1>8, <1>9 DEF CrunInv

LEMMA StutterStep ==
  ASSUME CrunInv, UNCHANGED vars
  PROVE  CrunInv'
<1>1. /\ conf' = conf /\ bind' = bind /\ config' = config /\ cmd' = cmd /\ work' = work /\ links' = links
      /\ at' = at /\ line' = line /\ todo' = todo /\ met' = met /\ got' = got /\ late' = late /\ torn' = torn
      /\ run' = run
  BY DEF vars
<1>2. TypeOK'
  BY <1>1 DEF CrunInv, TypeOK
<1>3. AtHand'
  BY <1>1, AtHandKept DEF CrunInv
<1>4. Addressed' /\ Booting' /\ Own'
  BY <1>1, LaunchesKept DEF CrunInv
<1>5. Removal' /\ LinkState'
  BY <1>1 DEF CrunInv, Removal, Working, MyCnt, Rest, LinkState, LinksComplete, LinkBins, Distinct
<1>. QED  BY <1>2, <1>3, <1>4, <1>5 DEF CrunInv

LEMMA CrunInvInit ==
  ASSUME Init
  PROVE  CrunInv
<1>1. /\ config = [c \in Cnt |-> Missing] /\ run = [c \in Cnt |-> Nothing]
      /\ work = [c \in Cnt |-> [f \in Name |-> "none"]] /\ at = [q \in Proc |-> "idle"]
      /\ got = [q \in Proc |-> {}] /\ late = [q \in Proc |-> {}] /\ torn = TRUE
  BY DEF Init
<1>2. TypeOK
  BY TypeInit
<1>3. AtHand
  BY <1>1 DEF AtHand, Working, Shared, Launching, Fetching
<1>4. Addressed /\ Booting /\ Own
  BY <1>1 DEF Addressed, Booting, Own, Launches, Busy
<1>5. Removal /\ LinkState
  BY <1>1 DEF Removal, Working, Shared, Launching, Fetching, LinkState
<1>. QED  BY <1>2, <1>3, <1>4, <1>5 DEF CrunInv

LEMMA CrunInvNext ==
  ASSUME NoBinTwice, CrunInv, [Next]_vars
  PROVE  CrunInv'
<1>1. TypeOK /\ AtHand /\ Addressed /\ Booting /\ Own /\ Removal /\ LinkState
  BY DEF CrunInv
<1>2. ASSUME NEW q \in Proc, Step(q) PROVE CrunInv'
  <2>1. TypeOK' /\ AtHand' /\ Addressed' /\ Booting'
    BY <1>1, <1>2, TypeStep, AtHandStep, AddressedStep, BootingStep
  <2>2. Own' /\ Removal' /\ LinkState'
    BY <1>1, <1>2, OwnStep, RemovalStep, LinkStateStep
  <2>. QED  BY <2>1, <2>2 DEF CrunInv
<1>3. ASSUME NEW c \in Cnt, CntWrite(c) \/ CntExit(c) PROVE CrunInv'
  BY <1>3, CntWriteStep, CntExitStep
<1>4. CASE UNCHANGED vars
  BY <1>4, StutterStep
<1>. QED  BY <1>2, <1>3, <1>4 DEF Next, Step
-----------------------------------------------------------------------------
(* CrunInv holds in every state, however many crun are at work, whoever is    *)
(* killed and whatever cnt.conf says, if that names no program twice.         *)
THEOREM CrunInvAlways ==
  ASSUME NoBinTwice
  PROVE  Spec => []CrunInv
<1>1. Init => CrunInv
  BY CrunInvInit
<1>2. CrunInv /\ [Next]_vars => CrunInv'
  BY CrunInvNext
<1>. QED  BY <1>1, <1>2, PTL DEF Spec

(* Containers that run at the same time have different addresses, and none    *)
(* has that of the gateway, wherever the lines of a container are in cnt.conf. *)
THEOREM AddressesAlwaysDiffer ==
  ASSUME NoBinTwice
  PROVE  Spec => []AddressesDiffer
<1>1. CrunInv => AddressesDiffer
  <2>1. SUFFICES ASSUME CrunInv, NEW c \in Cnt, NEW d \in Cnt, run[c] # Nothing, run[d] # Nothing
                 PROVE  /\ run[c].config.addr \cap {0, 1} = {}
                        /\ c # d => run[c].config.addr \cap run[d].config.addr = {}
    BY DEF AddressesDiffer
  <2>2. TypeOK /\ run[c].config.addr \subseteq Addresses(c) /\ run[d].config.addr \subseteq Addresses(d)
    BY <2>1 DEF CrunInv, Addressed
  <2>. QED  BY <2>2, AddressesApart
<1>. QED  BY <1>1, CrunInvAlways, PTL

(* When no crun --links is at work and the last one has neither been killed   *)
(* nor had company, every program of cnt.conf has its link.                   *)
THEOREM LinksAreComplete ==
  ASSUME NoBinTwice
  PROVE  Spec => []LinksComplete
<1>1. CrunInv => LinksComplete
  BY DEF CrunInv, LinkState, LinksComplete
<1>. QED  BY <1>1, CrunInvAlways, PTL

OwnNow(q) == run'[MyCnt(q)] # Nothing /\ RunsAs(run'[MyCnt(q)], line[q], ConfigText(conf, line[q]), CmdText(line[q]))

LEMMA OwnRunStep ==
  ASSUME CrunInv, [Next]_vars, NEW q \in Proc, run' # run, at[q] \in {"lxc", "exec"}, at'[q] = "idle", ~met[q]
  PROVE  OwnNow(q)
<1>1. TypeOK /\ AtHand /\ Booting /\ Own
  BY DEF CrunInv
<1>2. Step(q)
  <2>1. ASSUME NEW r \in Proc, Step(r) PROVE r = q
    <3>1. r # q => at'[q] = at[q]
      BY <1>1, <2>1, StepLocal
    <3>. QED  BY <3>1
  <2>2. ASSUME NEW c \in Cnt, CntWrite(c) \/ CntExit(c) PROVE FALSE
    BY <2>2 DEF CntWrite, CntExit
  <2>3. ~UNCHANGED vars
    BY DEF vars
  <2>. QED  BY <2>1, <2>2, <2>3 DEF Next, Step
<1>3. /\ MyCnt(q) \in Cnt /\ Launches(q, MyCnt(q)) /\ line[q] \in CommandLine
      /\ MyCnt(q) = CntOf(conf, line[q].bin)
  BY <1>1, WorkerFacts DEF Launches, AtHand, Launching, Linking
<1>4. CmdText(line[q]) \in Cmds
  BY <1>1, <1>3, ConfigFacts
<1>5. CASE LxcExecute(q)
  <2>1. Has(line[q], "shell")
    BY <1>1, <1>2, <1>5, RunStep DEF LxcExecute, ExecCmd
  <2>2. /\ at[q] = "lxc" /\ run'[MyCnt(q)] # Nothing /\ run'[MyCnt(q)].config = config[MyCnt(q)]
        /\ run'[MyCnt(q)].exec = Shell
    BY <1>1, <1>2, <1>5, <2>1, RunStep DEF LxcExecute, ExecCmd
  <2>3. WritesConfig(line[q]) => config[MyCnt(q)] = ConfigText(conf, line[q])
    BY <1>1, <1>3, <2>2 DEF Own
  <2>. QED  BY <2>1, <2>2, <2>3 DEF OwnNow, RunsAs
<1>6. CASE ExecCmd(q)
  <2>1. at[q] = "exec" /\ ~Has(line[q], "shell")
    BY <1>1, <1>6 DEF ExecCmd, AtHand
  <2>2. cmd[MyCnt(q)] = CmdText(line[q]) /\ run[MyCnt(q)].config = ConfigText(conf, line[q])
    BY <1>1, <1>3, <2>1 DEF Own
  <2>3. /\ run'[MyCnt(q)] # Nothing /\ run'[MyCnt(q)].config = run[MyCnt(q)].config
        /\ run'[MyCnt(q)].exec = cmd[MyCnt(q)]
    BY <1>1, <1>2, <1>4, <1>6, <2>2, RunStep DEF LxcExecute, ExecCmd
  <2>. QED  BY <2>1, <2>2, <2>3 DEF OwnNow, RunsAs
<1>. QED  BY <1>1, <1>2, <1>5, <1>6, RunStep

(* A crun that met no other one of its container runs there its own command   *)
(* line, with the devices, the address and the mounts that belong to it, as   *)
(* Fprintf writes them, whatever earlier ones have left and whoever was       *)
(* killed; just as they were given when nothing in the line has a % that      *)
(* Fprintf takes for its own (crun/cmd.go:24, lxc.go:83).                     *)
THEOREM RunsItsOwn ==
  ASSUME NoBinTwice
  PROVE  Spec => OwnRun
<1>1. CrunInv /\ [Next]_vars =>
        [\A q \in Proc : run' # run /\ at[q] \in {"lxc", "exec"} /\ at'[q] = "idle" /\ ~met[q] =>
           LET now == run'[MyCnt(q)]
               l == line[q]
           IN /\ now # Nothing
              /\ RunsAs(now, l, ConfigText(conf, l), CmdText(l))
              /\ Verbatim(l) => RunsAs(now, l, LxcConfig(conf, l), CmdOf(l))]_vars
  <2>1. ASSUME CrunInv, [Next]_vars, NEW q \in Proc, run' # run, at[q] \in {"lxc", "exec"}, at'[q] = "idle", ~met[q]
        PROVE  /\ run'[MyCnt(q)] # Nothing
               /\ RunsAs(run'[MyCnt(q)], line[q], ConfigText(conf, line[q]), CmdText(line[q]))
               /\ Verbatim(line[q]) => RunsAs(run'[MyCnt(q)], line[q], LxcConfig(conf, line[q]), CmdOf(line[q]))
    <3>1. OwnNow(q)
      BY <2>1, OwnRunStep
    <3>2. TypeOK /\ line[q] \in CommandLine /\ CntOf(conf, line[q].bin) \in Cnt
      BY <2>1, WorkerFacts DEF CrunInv, Linking, AtHand, Launching
    <3>3. Verbatim(line[q]) => ConfigText(conf, line[q]) = LxcConfig(conf, line[q]) /\ CmdText(line[q]) = CmdOf(line[q])
      BY <3>2, VerbatimText
    <3>. QED  BY <3>1, <3>3 DEF OwnNow
  <2>. QED  BY <2>1
<1>. QED  BY <1>1, CrunInvAlways, PTL DEF Spec, OwnRun

LEMMA NothingLostStep ==
  ASSUME CrunInv, [Next]_vars, NEW q \in Proc, at[q] \in {"remove", "check", "sweep"},
         at'[q] # at[q] \/ todo'[q] # todo[q], NEW f \in Name,
         work[MyCnt(q)][f] = "data", work'[MyCnt(q)][f] = "none"
  PROVE  f \in late[q] \cup got[q]
<1>1. TypeOK /\ AtHand /\ Removal
  BY DEF CrunInv
<1>2. Step(q)
  <2>1. ASSUME NEW r \in Proc, Step(r) PROVE r = q
    <3>1. r # q => at'[q] = at[q] /\ todo'[q] = todo[q]
      BY <1>1, <2>1, StepLocal
    <3>. QED  BY <3>1
  <2>2. ASSUME NEW c \in Cnt, CntWrite(c) \/ CntExit(c) PROVE FALSE
    BY <2>2 DEF CntWrite, CntExit, proc
  <2>3. ~UNCHANGED vars
    BY DEF vars
  <2>. QED  BY <2>1, <2>2, <2>3 DEF Next, Step
<1>3. Working(q) /\ MyCnt(q) \in Cnt
  BY <1>1, WorkerFacts DEF Linking
<1>4. work' # work
  OBVIOUS
<1>5. at[q] # "check"
  BY <1>1, <1>2, <1>4, StepCnt
<1>6. CASE at[q] = "remove"
  <2>1. RemoveEmpty(q)
    BY <1>2, <1>4, <1>6 DEF Step, Start, ClearBind, ListWork, CheckEmpty, CreateFile, WriteLxcConfig, WriteCmd,
         CreateBindDirs, LxcExecute, ExecCmd, ReadWorkDir, CopyEntry, CopyDone, SweepWorkDir, StartLinks,
         ListLinks, RemoveLink, MakeLink, LinkFails, Stop
  <2>2. f = Head(todo[q])
    BY <1>1, <1>3, <2>1, WithoutType DEF RemoveEmpty
  <2>. QED  BY <1>1, <1>3, <1>6, <2>2 DEF Removal
<1>7. CASE at[q] = "sweep"
  BY <1>1, <1>3, <1>7 DEF Removal
<1>. QED  BY <1>5, <1>6, <1>7

(* What a crun removes from a work directory was empty, or has been fetched,  *)
(* or was written while it was already at work.                               *)
THEOREM NothingIsLost ==
  ASSUME NoBinTwice
  PROVE  Spec => NothingLost
<1>1. CrunInv /\ [Next]_vars =>
        [\A q \in Proc : at[q] \in {"remove", "check", "sweep"} /\ (at'[q] # at[q] \/ todo'[q] # todo[q]) =>
           LET c == MyCnt(q)
           IN \A f \in Name :
                work[c][f] = "data" /\ work'[c][f] = "none" => f \in late[q] \cup got[q]]_vars
  BY NothingLostStep
<1>. QED  BY <1>1, CrunInvAlways, PTL DEF Spec, NothingLost
=============================================================================
