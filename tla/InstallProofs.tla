---------------------------- MODULE InstallProofs ----------------------------
(* `xx install`: InstallInv is an invariant of Install for every number of    *)
(* packages, versions, releases and places, and with it what a completed run  *)
(* has installed, what a record means, and what no step does.                 *)
EXTENDS Install, TLAPS, WellFoundedInduction

LEMMA NoneIsNoRelease ==
  ASSUME NEW x \in Release
  PROVE  x # None
BY DEF Release, None

(* Versions are numbered, so there is a highest one. *)
LEMMA LastVerExists ==
  ASSUME NEW S \in SUBSET Ver, S # {}
  PROVE  \E n \in S : \A m \in S : m <= n
<1> DEFINE T == {MaxVer - n : n \in S}
<1>1. T \subseteq Nat /\ T # {}
  BY InstallAssumption DEF Ver
<1>2. PICK x \in T : \A y \in T : <<y, x>> \notin OpToRel(<, Nat)
  BY <1>1, WFMin, NatLessThanWellFounded, Zenon
<1> HIDE DEF T
<1>3. \A y \in T : ~ (y < x)
  BY <1>1, <1>2, Zenon DEF OpToRel
<1>4. \A y \in T : x <= y
  BY <1>1, <1>3
<1> USE DEF T
<1>5. PICK n \in S : x = MaxVer - n
  OBVIOUS
<1>6. \A m \in S : MaxVer - m \in T
  OBVIOUS
<1> HIDE DEF T
<1>7. \A m \in S : m <= n
  BY <1>4, <1>5, <1>6, InstallAssumption DEF Ver
<1>. QED  BY <1>7

(* The last release of a version, which stays it until the next build.        *)
LEMMA LastRelFacts ==
  ASSUME TypeOK, NEW w, w.pkg \in Pkg, w.ver \in Ver
  PROVE  /\ LastRel(w) \in Release
         /\ LastRel(w).pkg = w.pkg /\ LastRel(w).ver = w.ver
         /\ LastRel(LastRel(w)) = LastRel(w)
<1>1. built[w.pkg][w.ver] \in 0 .. MaxRel + 1
  BY DEF TypeOK
<1>2. (IF built[w.pkg][w.ver] = 0 THEN 0 ELSE built[w.pkg][w.ver] - 1) \in Rels
  BY <1>1, InstallAssumption DEF Rels
<1>. QED  BY <1>2 DEF LastRel, Release

LEMMA LastRelKept ==
  ASSUME built' = built, NEW w
  PROVE  LastRel(w)' = LastRel(w) /\ IsBuilt(w)' = IsBuilt(w)
BY DEF LastRel, IsBuilt

(* What the release numbers of one version tell: the last one that is built   *)
(* is not below any that is built.                                            *)
LEMMA LastIsHighest ==
  ASSUME TypeOK, NEW x \in Release, NEW c \in Release, x.pkg = c.pkg, x.ver = c.ver,
         x = LastRel(x), IsBuilt(x), IsBuilt(c)
  PROVE  c.rel <= x.rel /\ (x.rel <= c.rel => c = x)
<1>1. /\ built[x.pkg][x.ver] \in 0 .. MaxRel + 1
      /\ x.rel \in Nat /\ c.rel \in Nat /\ MaxRel \in Nat
  BY InstallAssumption DEF TypeOK, Release, Rels
<1>2. x.rel = IF built[x.pkg][x.ver] = 0 THEN 0 ELSE built[x.pkg][x.ver] - 1
  BY DEF LastRel
<1>3. x.rel < built[x.pkg][x.ver] /\ c.rel < built[x.pkg][x.ver]
  BY DEF IsBuilt
<1>4. c.rel <= x.rel
  BY <1>1, <1>2, <1>3
<1>5. x.rel <= c.rel => c = x
  <2>1. x.rel <= c.rel => c.rel = x.rel
    BY <1>1, <1>4
  <2>. QED  BY <2>1 DEF Release
<1>. QED  BY <1>4, <1>5

LEMMA TargetFacts ==
  ASSUME TypeOK
  PROVE  target \in Seq(EntryType) /\ \A n \in DOMAIN target : target[n] \in EntryType
<1>1. target \in Target \cup {<< >>}
  BY DEF TypeOK
<1>2. << >> \in Seq(EntryType)
  OBVIOUS
<1>3. target \in Seq(EntryType)
  BY <1>1, <1>2, InstallAssumption
<1>. QED  BY <1>3

LEMMA ItemFacts ==
  ASSUME TypeOK, NEW y \in Items
  PROVE  /\ y \in Item /\ y.what \in Release /\ y.loc \in Loc
         /\ y.what.pkg \in Pkg /\ y.what.ver \in Ver
<1>1. PICK n \in DOMAIN items : \E m \in DOMAIN items[n] : y = items[n][m]
  BY DEF Items
<1>2. items[n] \in Seq(Item)
  BY DEF TypeOK
<1>3. y \in Item
  BY <1>1, <1>2
<1>. QED  BY <1>3 DEF Item, Release

LEMMA HandFacts ==
  ASSUME TypeOK, Place, e <= Len(items)
  PROVE  /\ Hand \in Items /\ e \in DOMAIN items /\ i \in DOMAIN items[e]
         /\ Hand.what \in Release /\ Hand.loc \in Loc
         /\ Hand.what.pkg \in Pkg /\ Hand.what.ver \in Ver
<1>1. e \in DOMAIN items /\ i \in DOMAIN items[e]
  BY DEF TypeOK, Place
<1>2. Hand \in Items
  BY <1>1 DEF Hand, Items
<1>. QED  BY <1>1, <1>2, ItemFacts

(* The items of an entry are last releases. *)
LEMMA ItemsOfFacts ==
  ASSUME TypeOK, NEW t \in EntryType
  PROVE  /\ ItemsOf(t) \in Seq(Item) /\ ItemsOf(t) # << >>
         /\ \A j \in DOMAIN ItemsOf(t) : ItemsOf(t)[j].what = LastRel(ItemsOf(t)[j].what)
<1> DEFINE ws == Append(t.deps, t.want)
<1>1. t.deps \in Seq(Want) /\ t.want \in Want /\ t.loc \in Loc
  BY DEF EntryType
<1>2. ws \in Seq(Want) /\ 1 \in DOMAIN ws
  BY <1>1
<1>3. ItemsOf(t) = [j \in DOMAIN ws |-> [what |-> LastRel(ws[j]), loc |-> t.loc]]
  BY DEF ItemsOf
<1> HIDE DEF ws
<1>4. \A j \in DOMAIN ws : ws[j].pkg \in Pkg /\ ws[j].ver \in Ver
  <2>1. \A j \in DOMAIN ws : ws[j] \in Want
    BY <1>2
  <2>. QED  BY <2>1 DEF Want
<1>5. ASSUME NEW j \in DOMAIN ws
      PROVE  /\ [what |-> LastRel(ws[j]), loc |-> t.loc] \in Item
             /\ LastRel(LastRel(ws[j])) = LastRel(ws[j])
  BY <1>1, <1>4, LastRelFacts DEF Item
<1>6. PICK n \in Nat : DOMAIN ws = 1 .. n
  BY <1>2
<1>7. ItemsOf(t) \in Seq(Item)
  BY <1>3, <1>5, <1>6
<1>8. ASSUME NEW j \in DOMAIN ItemsOf(t)
      PROVE  ItemsOf(t)[j].what = LastRel(ItemsOf(t)[j].what)
  <2>1. j \in DOMAIN ws /\ ItemsOf(t)[j] = [what |-> LastRel(ws[j]), loc |-> t.loc]
    BY <1>3
  <2>2. ItemsOf(t)[j].what = LastRel(ws[j])
    BY <2>1
  <2>. QED  BY <1>5, <2>1, <2>2
<1>9. ItemsOf(t) # << >>
  <2>1. 1 \in DOMAIN ItemsOf(t)
    BY <1>2, <1>3
  <2>. QED  BY <2>1
<1>. QED  BY <1>7, <1>8, <1>9

(* The scan finds last releases, and the one of a package whose records are   *)
(* all of one version.                                                        *)
LEMMA ScanFacts ==
  ASSUME TypeOK, NEW l \in Loc
  PROVE  /\ Scanned(l) \subseteq Release
         /\ \A x \in dir[l] : (\A y \in dir[l] : y.pkg = x.pkg => y.ver = x.ver) /\ x = LastRel(x)
                                => x \in Scanned(l)
<1>0. dir[l] \subseteq Release
  BY DEF TypeOK
<1>1. ASSUME NEW x \in dir[l] PROVE Recorded(l, x.pkg) \subseteq Ver /\ x.ver \in Recorded(l, x.pkg)
  BY <1>0 DEF Recorded, Release
<1>2. ASSUME NEW x \in dir[l]
      PROVE  LatestVer(l, x.pkg) \in Recorded(l, x.pkg)
    <2>1. \E v \in Recorded(l, x.pkg) : \A u \in Recorded(l, x.pkg) : u <= v
      BY <1>1, LastVerExists
    <2>. QED  BY <2>1 DEF LatestVer
<1>3. Scanned(l) \subseteq Release
  <2>1. SUFFICES ASSUME NEW x \in dir[l]
                 PROVE  LastRel([pkg |-> x.pkg, ver |-> LatestVer(l, x.pkg)]) \in Release
    BY DEF Scanned
  <2>2. x.pkg \in Pkg /\ LatestVer(l, x.pkg) \in Ver
    BY <1>0, <1>1, <1>2 DEF Release
  <2>. QED  BY <2>2, LastRelFacts
<1>4. ASSUME NEW x \in dir[l], \A y \in dir[l] : y.pkg = x.pkg => y.ver = x.ver, x = LastRel(x)
      PROVE  x \in Scanned(l)
  <2>1. LatestVer(l, x.pkg) = x.ver
    BY <1>2, <1>4 DEF Recorded
  <2>2. LastRel([pkg |-> x.pkg, ver |-> x.ver]) = LastRel(x)
    BY DEF LastRel
  <2>3. LastRel([pkg |-> x.pkg, ver |-> LatestVer(l, x.pkg)]) \in Scanned(l)
    BY DEF Scanned
  <2>. QED  BY <1>4, <2>1, <2>2, <2>3
<1>. QED  BY <1>3, <1>4
-----------------------------------------------------------------------------
LEMMA EmptyItems ==
  << >> \in Seq(Seq(Item)) /\ 1 \in 1 .. Len(<< >>) + 1 /\ 1 \in Nat \ {0} /\ DOMAIN << >> = {}
<1>1. << >> \in Seq(Seq(Item)) /\ Len(<< >>) = 0 /\ DOMAIN << >> = {}
  OBVIOUS
<1>. QED  BY <1>1

LEMMA TypeInit == Init => TypeOK
<1>. SUFFICES ASSUME Init PROVE TypeOK
  OBVIOUS
<1>1. items \in Seq(Seq(Item)) /\ e \in 1 .. Len(items) + 1 /\ i \in Nat \ {0}
  BY EmptyItems DEF Init
<1>2. built \in [Pkg -> [Ver -> 0 .. MaxRel + 1]]
  BY InstallAssumption DEF Init
<1>. QED  BY <1>1, <1>2 DEF Init, TypeOK, Phase

LEMMA TypeExit ==
  ASSUME TypeOK, Exit, UNCHANGED <<built, root>>
  PROVE  TypeOK'
<1>1. items' \in Seq(Seq(Item)) /\ e' \in 1 .. Len(items') + 1 /\ i' \in Nat \ {0}
  BY EmptyItems DEF Exit
<1>. QED  BY <1>1 DEF Exit, root, TypeOK, Phase

LEMMA AdvanceType ==
  ASSUME TypeOK, Place, e <= Len(items), Advance, items' = items
  PROVE  /\ e' \in 1 .. Len(items') + 1 /\ i' \in Nat \ {0}
BY DEF TypeOK, Advance

LEMMA TypeNext ==
  ASSUME InstallInv, Next
  PROVE  TypeOK'
<1>0. TypeOK /\ Place /\ HandCopied
  BY DEF InstallInv
<1>1. ASSUME NEW k \in Pkg, NEW v \in Ver, Build(k, v) PROVE TypeOK'
  <2>1. built[k][v] + 1 \in 0 .. MaxRel + 1
    BY <1>0, <1>1, InstallAssumption DEF Build, TypeOK
  <2>2. built' = [built EXCEPT ![k] = [built[k] EXCEPT ![v] = built[k][v] + 1]]
    BY <1>1 DEF Build
  <2>3. built' \in [Pkg -> [Ver -> 0 .. MaxRel + 1]]
    BY <1>0, <2>1, <2>2 DEF TypeOK
  <2>. QED  BY <1>0, <1>1, <2>3 DEF Build, root, run, TypeOK
<1>2. CASE Start
  BY <1>0, <1>2, InstallAssumption DEF Start, root, TypeOK, Phase
<1>3. CASE Resolve
  <2>0. target \in Seq(EntryType) /\ \A n \in DOMAIN target : target[n] \in EntryType
    BY <1>0, TargetFacts
  <2>1. \A n \in DOMAIN target : target[n] \in EntryType
    BY <2>0
  <2>2. \A n \in DOMAIN target : ItemsOf(target[n]) \in Seq(Item)
    BY <1>0, <2>1, ItemsOfFacts
  <2>3. PICK m \in Nat : DOMAIN target = 1 .. m
    BY <2>0
  <2>4. items' \in Seq(Seq(Item))
    BY <1>3, <2>2, <2>3 DEF Resolve
  <2>5. 1 \in 1 .. Len(items') + 1
    BY <2>4
  <2>. QED  BY <1>0, <1>3, <2>4, <2>5 DEF Resolve, root, TypeOK, Phase
<1>4. CASE GetWorld
  <2>1. world' \in [Loc -> SUBSET Release]
    BY <1>0, <1>4, ScanFacts DEF GetWorld
  <2>. QED  BY <1>0, <1>4, <2>1 DEF GetWorld, root, TypeOK, Phase
<1>5. CASE CheckPkgAvail
  BY <1>0, <1>5 DEF CheckPkgAvail, root, run, TypeOK, Phase
<1>6. CASE NotAvail
  BY <1>0, <1>6, TypeExit DEF NotAvail
<1>7. CASE Skip
  <2>1. e' \in 1 .. Len(items') + 1 /\ i' \in Nat \ {0}
    BY <1>0, <1>7, AdvanceType DEF Skip
  <2>. QED  BY <1>0, <1>7, <2>1 DEF Skip, root, TypeOK, Phase
<1>8. CASE Copy
  <2>1. Hand.what \in Release /\ Hand.loc \in Loc /\ Hand.what.pkg \in Pkg
    BY <1>0, <1>8, HandFacts DEF Copy
  <2>2. copy' \in [Loc -> [Pkg -> Release \cup {None}]]
    <3>1. copy' = [copy EXCEPT ![Hand.loc] = [copy[Hand.loc] EXCEPT ![Hand.what.pkg] = Hand.what]]
      BY <1>8 DEF Copy
    <3>. QED  BY <1>0, <2>1, <3>1 DEF TypeOK
  <2>3. whole' \in [Loc -> [Pkg -> BOOLEAN]]
    <3>1. whole' = [whole EXCEPT ![Hand.loc] = [whole[Hand.loc] EXCEPT ![Hand.what.pkg] = FALSE]]
      BY <1>8 DEF Copy
    <3>. QED  BY <1>0, <2>1, <3>1 DEF TypeOK
  <2>4. mixed' \subseteq Loc \X Pkg
    BY <1>0, <1>8, <2>1 DEF Copy, TypeOK
  <2>. QED  BY <1>0, <1>8, <2>2, <2>3, <2>4 DEF Copy, run, TypeOK, Phase
<1>9. CASE CopyRest
  BY <1>0, <1>9 DEF CopyRest, root, run, TypeOK, Phase
<1>10. CASE InstPkgCfg
  <2>1. Hand.loc \in Loc /\ Hand.what.pkg \in Pkg
    BY <1>0, <1>10, HandFacts DEF InstPkgCfg, HandCopied
  <2>2. whole' = [whole EXCEPT ![Hand.loc] = [whole[Hand.loc] EXCEPT ![Hand.what.pkg] = TRUE]]
    BY <1>10 DEF InstPkgCfg
  <2>3. whole' \in [Loc -> [Pkg -> BOOLEAN]]
    BY <1>0, <2>1, <2>2 DEF TypeOK
  <2>. QED  BY <1>0, <1>10, <2>3 DEF InstPkgCfg, run, TypeOK, Phase
<1>11. CASE AddPkgToWorldDir
  <2>1. Hand.loc \in Loc /\ Hand.what \in Release
    BY <1>0, <1>11, HandFacts DEF AddPkgToWorldDir, HandCopied
  <2>2. dir' \in [Loc -> SUBSET Release]
    BY <1>0, <1>11, <2>1 DEF AddPkgToWorldDir, TypeOK
  <2>. QED  BY <1>0, <1>11, <2>2 DEF AddPkgToWorldDir, run, TypeOK, Phase
<1>12. CASE AddPkgToWorldT
  <2>1. Hand.loc \in Loc /\ Hand.what \in Release /\ e <= Len(items)
    BY <1>0, <1>12, HandFacts DEF AddPkgToWorldT, HandCopied
  <2>2. world' \in [Loc -> SUBSET Release]
    BY <1>0, <1>12, <2>1 DEF AddPkgToWorldT, TypeOK
  <2>3. e' \in 1 .. Len(items') + 1 /\ i' \in Nat \ {0}
    BY <1>0, <1>12, <2>1, AdvanceType DEF AddPkgToWorldT
  <2>. QED  BY <1>0, <1>12, <2>2, <2>3 DEF AddPkgToWorldT, root, TypeOK, Phase
<1>13. CASE Complete
  BY <1>0, <1>13 DEF Complete, root, run, TypeOK, Phase
<1>14. CASE Stop
  BY <1>0, <1>14, TypeExit DEF Stop
<1>. QED  BY <1>1, <1>2, <1>3, <1>4, <1>5, <1>6, <1>7, <1>8, <1>9, <1>10, <1>11, <1>12, <1>13, <1>14
          DEF Next
-----------------------------------------------------------------------------
(* Where a run is in its items.                                               *)
LEMMA AdvanceFacts ==
  ASSUME TypeOK, Place, e <= Len(items), Advance, items' = items
  PROVE  /\ e' <= Len(items) => i' \in DOMAIN items[e']
         /\ \A n \in DOMAIN items : \A m \in DOMAIN items[n] :
              Before(n, m)' => Before(n, m) \/ (n = e /\ m = i)
<1>1. /\ items \in Seq(Seq(Item)) /\ e \in Nat /\ e >= 1 /\ i \in Nat /\ i \in DOMAIN items[e]
      /\ e \in DOMAIN items
  BY DEF TypeOK, Place
<1>2. \A n \in DOMAIN items : items[n] \in Seq(Item) /\ items[n] # << >>
  BY <1>1 DEF Place
<1>3. \A n \in DOMAIN items : n \in Nat /\ DOMAIN items[n] = 1 .. Len(items[n]) /\ Len(items[n]) \in Nat
  BY <1>1, <1>2
<1>4. CASE i < Len(items[e])
  <2>1. i' = i + 1 /\ e' = e
    BY <1>4 DEF Advance
  <2>. QED  BY <1>1, <1>3, <1>4, <2>1 DEF Before
<1>5. CASE ~(i < Len(items[e]))
  <2>1. e' = e + 1 /\ i' = 1
    BY <1>5 DEF Advance
  <2>2. i = Len(items[e])
    BY <1>1, <1>3, <1>5
  <2>3. e + 1 <= Len(items) => 1 \in DOMAIN items[e + 1]
    <3>1. e + 1 <= Len(items) => e + 1 \in DOMAIN items
      BY <1>1
    <3>. QED  BY <1>2, <3>1
  <2>4. ASSUME NEW n \in DOMAIN items, NEW m \in DOMAIN items[n], Before(n, m)'
        PROVE  Before(n, m) \/ (n = e /\ m = i)
    <3>1. n \in Nat /\ m \in Nat /\ m >= 1 /\ m <= Len(items[n]) /\ Len(items[n]) \in Nat
      BY <1>3
    <3>2. n < e + 1
      BY <2>1, <2>4, <3>1 DEF Before
    <3>. QED  BY <1>1, <2>2, <3>1, <3>2 DEF Before
  <2>. QED  BY <2>1, <2>3, <2>4
<1>. QED  BY <1>4, <1>5

LEMMA PlaceNext ==
  ASSUME InstallInv, Next
  PROVE  Place'
<1>0. TypeOK /\ Place /\ HandCopied
  BY DEF InstallInv
<1>1. CASE Resolve
  <2>1. target \in Seq(EntryType) /\ \A n \in DOMAIN target : target[n] \in EntryType
    BY <1>0, TargetFacts
  <2>2. \A n \in DOMAIN target : target[n] \in EntryType
    BY <2>1
  <2>3. \A n \in DOMAIN target : ItemsOf(target[n]) \in Seq(Item) /\ ItemsOf(target[n]) # << >>
    BY <1>0, <2>2, ItemsOfFacts
  <2>4. items' = [n \in DOMAIN target |-> ItemsOf(target[n])] /\ e' = 1 /\ i' = 1 /\ at' = "scan"
    BY <1>1 DEF Resolve
  <2>5. \A n \in DOMAIN items' : items'[n] # << >> /\ 1 \in DOMAIN items'[n]
    BY <2>3, <2>4
  <2>6. Len(items') \in Nat /\ (1 <= Len(items') => 1 \in DOMAIN items')
    BY <2>1, <2>4
  <2>. QED  BY <2>4, <2>5, <2>6 DEF Place
<1>2. CASE Exit
  <2>1. items' = << >> /\ e' = 1 /\ at' = "idle"
    BY <1>2 DEF Exit
  <2>2. DOMAIN << >> = {} /\ Len(<< >>) = 0
    OBVIOUS
  <2>. QED  BY <2>1, <2>2 DEF Place
<1>3. CASE Skip \/ AddPkgToWorldT
  <2>1. e <= Len(items) /\ Advance /\ items' = items /\ at' = "next"
    BY <1>0, <1>3 DEF Skip, AddPkgToWorldT, HandCopied
  <2>. QED  BY <1>0, <2>1, AdvanceFacts DEF Place
<1>4. CASE ~Resolve /\ ~Exit /\ ~Skip /\ ~AddPkgToWorldT
  <2>1. items' = items /\ e' = e /\ i' = i
    BY <1>4 DEF Next, Build, Start, GetWorld, CheckPkgAvail, NotAvail, Copy, CopyRest, InstPkgCfg,
         AddPkgToWorldDir, Complete, Stop, run
  <2>2. at' \in {"idle", "resolve"} => at = "idle"
    BY <1>4 DEF Next, Build, Start, GetWorld, CheckPkgAvail, NotAvail, Copy, CopyRest, InstPkgCfg,
         AddPkgToWorldDir, Complete, Stop
  <2>3. at' = "done" => e > Len(items)
    BY <1>0, <1>4 DEF Next, Build, Start, GetWorld, CheckPkgAvail, NotAvail, Copy, CopyRest, InstPkgCfg,
         AddPkgToWorldDir, Complete, Stop, Place
  <2>. QED  BY <1>0, <2>1, <2>2, <2>3 DEF Place
<1>. QED  BY <1>1, <1>2, <1>3, <1>4

(* What is resolved, and what is found to be built, stays so: nothing is      *)
(* built while a run is under way.                                            *)
LEMMA ItemsNext ==
  ASSUME InstallInv, Next
  PROVE  ItemsAreLast' /\ ItemsAreBuilt'
<1>0. TypeOK /\ Place /\ ItemsAreLast /\ ItemsAreBuilt
  BY DEF InstallInv
<1>1. CASE at' \in {"idle", "resolve"}
  BY <1>1 DEF ItemsAreLast, ItemsAreBuilt
<1>2. CASE Resolve
  <2>1. target \in Seq(EntryType) /\ \A n \in DOMAIN target : target[n] \in EntryType
    BY <1>0, TargetFacts
  <2>2. /\ items' = [n \in DOMAIN target |-> ItemsOf(target[n])]
        /\ built' = built /\ at' = "scan"
    BY <1>2 DEF Resolve
  <2>3. ASSUME NEW y \in Items' PROVE (y.what = LastRel(y.what))'
    <3>1. PICK n \in DOMAIN items' : \E m \in DOMAIN items'[n] : y = items'[n][m]
      BY DEF Items
    <3>2. n \in DOMAIN target /\ items'[n] = ItemsOf(target[n]) /\ target[n] \in EntryType
      BY <2>1, <2>2
    <3>3. y.what = LastRel(y.what)
      BY <1>0, <3>1, <3>2, ItemsOfFacts
    <3>. QED  BY <2>2, <3>3, LastRelKept
  <2>. QED  BY <2>2, <2>3 DEF ItemsAreLast, ItemsAreBuilt
<1>3. CASE at' \notin {"idle", "resolve"} /\ ~Resolve
  <2>1. built' = built /\ items' = items /\ at \notin {"idle", "resolve"}
    BY <1>3 DEF Next, Build, Start, GetWorld, CheckPkgAvail, NotAvail, Skip, Copy, CopyRest, InstPkgCfg,
         AddPkgToWorldDir, AddPkgToWorldT, Complete, Stop, Exit, run
  <2>2. Items' = Items
    BY <2>1 DEF Items
  <2>3. \A y \in Items : LastRel(y.what)' = LastRel(y.what) /\ IsBuilt(y.what)' = IsBuilt(y.what)
    BY <2>1 DEF LastRel, IsBuilt
  <2>4. ItemsAreLast'
    BY <1>0, <2>1, <2>2, <2>3 DEF ItemsAreLast
  <2>5. ASSUME at' \notin {"idle", "resolve", "scan", "check"} PROVE \A y \in Items : IsBuilt(y.what)
    <3>1. CASE CheckPkgAvail
      BY <3>1 DEF CheckPkgAvail
    <3>2. CASE ~CheckPkgAvail
      <4>1. at \notin {"idle", "resolve", "scan", "check"}
        BY <1>3, <2>1, <2>5, <3>2 DEF Next, Build, Start, GetWorld, NotAvail, Skip, Copy, CopyRest, InstPkgCfg,
             AddPkgToWorldDir, AddPkgToWorldT, Complete, Stop, Exit
      <4>. QED  BY <1>0, <4>1 DEF ItemsAreBuilt
    <3>. QED  BY <3>1, <3>2
  <2>. QED  BY <2>2, <2>3, <2>4, <2>5 DEF ItemsAreBuilt
<1>. QED  BY <1>1, <1>2, <1>3
-----------------------------------------------------------------------------
(* A package is copied where no version was copied over another one only when *)
(* its last release is not recorded there, and over the same version only.    *)
LEMMA CopyFacts ==
  ASSUME InstallInv, Copy
  PROVE  /\ Hand \in Items /\ Hand.what \in Release /\ Hand.loc \in Loc /\ Hand.what.pkg \in Pkg
         /\ Hand.what = LastRel(Hand.what) /\ IsBuilt(Hand.what)
         /\ copy'[Hand.loc][Hand.what.pkg] = Hand.what
         /\ mixed \subseteq mixed'
         /\ \A l \in Loc, k \in Pkg : l # Hand.loc \/ k # Hand.what.pkg =>
              copy'[l][k] = copy[l][k] /\ whole'[l][k] = whole[l][k]
         /\ <<Hand.loc, Hand.what.pkg>> \notin mixed' =>
              /\ copy[Hand.loc][Hand.what.pkg] # None =>
                   copy[Hand.loc][Hand.what.pkg].ver = Hand.what.ver
              /\ Hand.what \notin dir[Hand.loc]
<1>0. /\ TypeOK /\ Place /\ ItemsAreLast /\ ItemsAreBuilt /\ WorldKnows
      /\ at = "next" /\ e <= Len(items) /\ ~Exists(Hand.what, Hand.loc)
  BY DEF InstallInv, Copy
<1>1. /\ Hand \in Items /\ Hand.what \in Release /\ Hand.loc \in Loc /\ Hand.what.pkg \in Pkg
  BY <1>0, HandFacts
<1>2. Hand.what = LastRel(Hand.what) /\ IsBuilt(Hand.what)
  BY <1>0, <1>1 DEF ItemsAreLast, ItemsAreBuilt
<1>3. /\ copy' = [copy EXCEPT ![Hand.loc] = [copy[Hand.loc] EXCEPT ![Hand.what.pkg] = Hand.what]]
      /\ whole' = [whole EXCEPT ![Hand.loc] = [whole[Hand.loc] EXCEPT ![Hand.what.pkg] = FALSE]]
      /\ mixed' = IF Other(Hand.what, Hand.loc) THEN mixed \cup {<<Hand.loc, Hand.what.pkg>>} ELSE mixed
  BY DEF Copy
<1>4. copy'[Hand.loc][Hand.what.pkg] = Hand.what
  BY <1>0, <1>1, <1>3 DEF TypeOK
<1>5. ASSUME NEW l \in Loc, NEW k \in Pkg, l # Hand.loc \/ k # Hand.what.pkg
      PROVE  copy'[l][k] = copy[l][k] /\ whole'[l][k] = whole[l][k]
  BY <1>0, <1>1, <1>3, <1>5 DEF TypeOK
<1>6. mixed \subseteq mixed'
  BY <1>3
<1>7. ASSUME <<Hand.loc, Hand.what.pkg>> \notin mixed'
      PROVE  /\ copy[Hand.loc][Hand.what.pkg] # None =>
                  copy[Hand.loc][Hand.what.pkg].ver = Hand.what.ver
             /\ Hand.what \notin dir[Hand.loc]
  <2>1. ~Other(Hand.what, Hand.loc)
    BY <1>3, <1>7
  <2>2. OneVersion(Hand.loc, Hand.what.pkg)
    BY <1>6, <1>7 DEF OneVersion
  <2>3. Hand.what \notin dir[Hand.loc]
    <3>1. SUFFICES ASSUME Hand.what \in dir[Hand.loc] PROVE FALSE
      OBVIOUS
    <3>2. Hand.what \in world[Hand.loc]
      BY <1>0, <1>1, <1>2, <2>2, <3>1 DEF WorldKnows
    <3>. QED  BY <1>0, <3>1, <3>2 DEF Exists
  <2>. QED  BY <2>1, <2>3 DEF Other
<1>. QED  BY <1>1, <1>2, <1>3, <1>4, <1>5, <1>6, <1>7

(* Every other step of a run leaves the copies alone, and none takes a        *)
(* record, a complete copy or the mark of a mixed place away.                 *)
LEMMA RootFacts ==
  ASSUME TypeOK, Next
  PROVE  /\ ~Copy => copy' = copy /\ mixed' = mixed
         /\ ~Copy => \A l \in Loc, k \in Pkg : whole[l][k] => whole'[l][k]
         /\ ~AddPkgToWorldDir => dir' = dir
<1>1. ~Copy => copy' = copy /\ mixed' = mixed
  BY DEF Next, Build, Start, Resolve, GetWorld, CheckPkgAvail, NotAvail, Skip, CopyRest, InstPkgCfg,
       AddPkgToWorldDir, AddPkgToWorldT, Complete, Stop, root
<1>2. ~AddPkgToWorldDir => dir' = dir
  BY DEF Next, Build, Start, Resolve, GetWorld, CheckPkgAvail, NotAvail, Skip, Copy, CopyRest, InstPkgCfg,
       AddPkgToWorldT, Complete, Stop, root
<1>3. ~Copy /\ ~InstPkgCfg => whole' = whole
  BY DEF Next, Build, Start, Resolve, GetWorld, CheckPkgAvail, NotAvail, Skip, CopyRest,
       AddPkgToWorldDir, AddPkgToWorldT, Complete, Stop, root
<1>4. ASSUME InstPkgCfg, NEW l \in Loc, NEW k \in Pkg, whole[l][k] PROVE whole'[l][k]
  <2>1. whole' = [whole EXCEPT ![Hand.loc] = [whole[Hand.loc] EXCEPT ![Hand.what.pkg] = TRUE]]
    BY <1>4 DEF InstPkgCfg
  <2>2. whole \in [Loc -> [Pkg -> BOOLEAN]]
    BY DEF TypeOK
  <2>3. CASE l # Hand.loc
    <3>1. whole'[l] = whole[l]
      BY <2>1, <2>2, <2>3
    <3>. QED  BY <1>4, <3>1, Zenon
  <2>4. CASE l = Hand.loc
    <3>1. whole'[l] = [whole[l] EXCEPT ![Hand.what.pkg] = TRUE] /\ whole[l] \in [Pkg -> BOOLEAN]
      BY <2>1, <2>2, <2>4
    <3>2. CASE k = Hand.what.pkg
      BY <3>1, <3>2, Zenon
    <3>3. CASE k # Hand.what.pkg
      <4>1. whole'[l][k] = whole[l][k]
        BY <3>1, <3>3
      <4>. QED  BY <1>4, <4>1, Zenon
    <3>. QED  BY <3>2, <3>3
  <2>. QED  BY <2>3, <2>4
<1>5. ~Copy => \A l \in Loc, k \in Pkg : whole[l][k] => whole'[l][k]
  BY <1>3, <1>4, Zenon
<1>. QED  BY <1>1, <1>2, <1>5

(* A record means a copy of its version that is not older. *)
LEMMA RecordsNext ==
  ASSUME InstallInv, Next
  PROVE  RecordsFollow'
<1>0. TypeOK /\ RecordsFollow /\ HandCopied /\ Place
  BY DEF InstallInv
<1>1. ASSUME NEW c, IsBuilt(c), c \in Release PROVE IsBuilt(c)'
  <2>1. CASE built' = built
    BY <1>1, <2>1 DEF IsBuilt
  <2>2. CASE built' # built
    <3>1. PICK k \in Pkg, v \in Ver : Build(k, v)
      BY <2>2 DEF Next, Start, Resolve, GetWorld, CheckPkgAvail, NotAvail, Skip, Copy, CopyRest, InstPkgCfg,
           AddPkgToWorldDir, AddPkgToWorldT, Complete, Stop
    <3>2. /\ built' = [built EXCEPT ![k] = [built[k] EXCEPT ![v] = built[k][v] + 1]]
          /\ built[k][v] \in Nat
      BY <1>0, <3>1 DEF Build, TypeOK
    <3>3. c.pkg \in Pkg /\ c.ver \in Ver /\ c.rel \in Nat /\ built[c.pkg][c.ver] \in Nat
      BY <1>0, <1>1 DEF Release, Rels, TypeOK
    <3>4. built'[c.pkg][c.ver] = built[c.pkg][c.ver] \/ built'[c.pkg][c.ver] = built[c.pkg][c.ver] + 1
      BY <1>0, <3>2, <3>3 DEF TypeOK
    <3>5. c.rel < built[c.pkg][c.ver]
      BY <1>1 DEF IsBuilt
    <3>6. c.rel < built'[c.pkg][c.ver]
      BY <3>3, <3>4, <3>5
    <3>. QED  BY <3>6 DEF IsBuilt
  <2>. QED  BY <2>1, <2>2
<1>2. ASSUME NEW l \in Loc, NEW k \in Pkg, copy'[l][k] # None
      PROVE  copy'[l][k].pkg = k /\ IsBuilt(copy[l][k])'
  <2>1. CASE copy'[l][k] = copy[l][k]
    <3>1. copy[l][k].pkg = k /\ IsBuilt(copy[l][k]) /\ copy[l][k] \in Release
      BY <1>0, <1>2, <2>1 DEF RecordsFollow, TypeOK
    <3>2. PICK c \in Release : c = copy[l][k]
      BY <3>1
    <3>3. IsBuilt(c)'
      BY <1>1, <3>1, <3>2
    <3>. QED  BY <2>1, <3>1, <3>2, <3>3 DEF IsBuilt
  <2>2. CASE copy'[l][k] # copy[l][k]
    <3>1. Copy
      BY <1>0, <2>2, RootFacts
    <3>2. l = Hand.loc /\ k = Hand.what.pkg /\ copy'[l][k] = Hand.what /\ IsBuilt(Hand.what)
      BY <2>2, <3>1, CopyFacts
    <3>3. built' = built
      BY <3>1 DEF Copy
    <3>. QED  BY <3>2, <3>3 DEF IsBuilt
  <2>. QED  BY <2>1, <2>2
<1>3. ASSUME NEW l \in Loc, NEW x \in dir'[l]
      PROVE  /\ copy'[l][x.pkg] # None
             /\ <<l, x.pkg>> \notin mixed' =>
                  x.ver = copy'[l][x.pkg].ver /\ x.rel <= copy'[l][x.pkg].rel
  <2>1. CASE Copy
    <3>1. x \in dir[l] /\ x \in Release /\ x.pkg \in Pkg
      BY <1>0, <1>3, <2>1 DEF Copy, TypeOK, Release
    <3>2. CASE l # Hand.loc \/ x.pkg # Hand.what.pkg
      BY <1>0, <2>1, <3>1, <3>2, CopyFacts DEF RecordsFollow, OneVersion
    <3>3. CASE l = Hand.loc /\ x.pkg = Hand.what.pkg
      <4>1. copy'[l][x.pkg] = Hand.what /\ Hand.what # None
        BY <2>1, <3>3, CopyFacts, NoneIsNoRelease
      <4>2. ASSUME <<l, x.pkg>> \notin mixed'
            PROVE  x.ver = Hand.what.ver /\ x.rel <= Hand.what.rel
        <5>1. copy[l][x.pkg] # None /\ copy[l][x.pkg] \in Release /\ copy[l][x.pkg].pkg = x.pkg
          BY <1>0, <3>1 DEF RecordsFollow, TypeOK
        <5>2. <<l, x.pkg>> \notin mixed /\ copy[l][x.pkg].ver = Hand.what.ver
          BY <2>1, <3>3, <4>2, <5>1, CopyFacts
        <5>3. x.ver = copy[l][x.pkg].ver /\ x.rel <= copy[l][x.pkg].rel
          BY <1>0, <3>1, <5>2 DEF RecordsFollow, OneVersion
        <5>4. copy[l][x.pkg].rel <= Hand.what.rel
          <6>1. IsBuilt(copy[l][x.pkg])
            BY <1>0, <3>1, <5>1 DEF RecordsFollow
          <6>. QED  BY <1>0, <2>1, <3>3, <5>1, <5>2, <6>1, CopyFacts, LastIsHighest
        <5>5. x.rel \in Nat /\ copy[l][x.pkg].rel \in Nat /\ Hand.what.rel \in Nat
          BY <2>1, <3>1, <5>1, CopyFacts DEF Release, Rels
        <5>. QED  BY <5>2, <5>3, <5>4, <5>5
      <4>. QED  BY <4>1, <4>2
    <3>. QED  BY <3>2, <3>3
  <2>2. CASE ~Copy
    <3>1. copy' = copy /\ mixed' = mixed
      BY <1>0, <2>2, RootFacts
    <3>2. CASE x \in dir[l]
      BY <1>0, <3>1, <3>2 DEF RecordsFollow, OneVersion
    <3>3. CASE x \notin dir[l]
      <4>1. AddPkgToWorldDir
        BY <1>0, <1>3, <3>3, RootFacts
      <4>2. x = Hand.what /\ l = Hand.loc
        BY <1>0, <1>3, <3>3, <4>1 DEF AddPkgToWorldDir, TypeOK
      <4>3. copy[l][x.pkg] = x
        BY <1>0, <4>1, <4>2 DEF AddPkgToWorldDir, HandCopied
      <4>4. x \in Release /\ x # None /\ x.rel \in Nat
        BY <1>0, <4>1, <4>2, HandFacts, NoneIsNoRelease DEF AddPkgToWorldDir, HandCopied, Release, Rels
      <4>. QED  BY <3>1, <4>3, <4>4
    <3>. QED  BY <3>2, <3>3
  <2>. QED  BY <2>1, <2>2
<1>. QED  BY <1>2, <1>3 DEF RecordsFollow, OneVersion, IsBuilt

(* A record means a whole copy, where no version was copied over another.     *)
LEMMA RecordedNext ==
  ASSUME InstallInv, Next
  PROVE  RecordedWhole'
<1>0. TypeOK /\ RecordsFollow /\ RecordedWhole /\ HandCopied /\ Place
  BY DEF InstallInv
<1>1. SUFFICES ASSUME NEW l \in Loc, NEW x \in dir'[l], copy'[l][x.pkg] = x, <<l, x.pkg>> \notin mixed'
               PROVE  whole'[l][x.pkg]
  BY DEF RecordedWhole, OneVersion
<1>2. CASE Copy
  <2>1. x \in dir[l] /\ x.pkg \in Pkg
    BY <1>0, <1>2 DEF Copy, TypeOK, Release
  <2>2. CASE l # Hand.loc \/ x.pkg # Hand.what.pkg
    <3>1. copy'[l][x.pkg] = copy[l][x.pkg] /\ whole'[l][x.pkg] = whole[l][x.pkg] /\ <<l, x.pkg>> \notin mixed
      BY <1>1, <1>2, <2>1, <2>2, CopyFacts
    <3>2. whole[l][x.pkg]
      BY <1>0, <1>1, <2>1, <3>1 DEF RecordedWhole, OneVersion
    <3>. QED  BY <3>1, <3>2, Zenon
  <2>3. CASE l = Hand.loc /\ x.pkg = Hand.what.pkg
    <3>1. x = Hand.what /\ Hand.what \notin dir[Hand.loc]
      BY <1>1, <1>2, <2>3, CopyFacts
    <3>. QED  BY <2>1, <2>3, <3>1
  <2>. QED  BY <2>2, <2>3
<1>3. CASE ~Copy
  <2>1. copy' = copy /\ mixed' = mixed
    BY <1>0, <1>3, RootFacts
  <2>2. x \in Release /\ x.pkg \in Pkg /\ whole[l][x.pkg]
    <3>1. CASE x \in dir[l]
      BY <1>0, <1>1, <2>1, <3>1 DEF RecordedWhole, OneVersion, TypeOK, Release
    <3>2. CASE x \notin dir[l]
      <4>1. AddPkgToWorldDir
        BY <1>0, <1>1, <3>2, RootFacts
      <4>2. x = Hand.what /\ l = Hand.loc
        BY <1>0, <1>1, <3>2, <4>1 DEF AddPkgToWorldDir, TypeOK
      <4>3. x \in Release /\ x.pkg \in Pkg
        BY <1>0, <4>1, <4>2, HandFacts DEF AddPkgToWorldDir, HandCopied
      <4>4. whole[Hand.loc][Hand.what.pkg]
        BY <1>0, <4>1, Zenon DEF AddPkgToWorldDir, HandCopied
      <4>. QED  BY <4>2, <4>3, <4>4, Zenon
    <3>. QED  BY <3>1, <3>2
  <2>. QED  BY <1>0, <1>3, <2>2, RootFacts
<1>. QED  BY <1>2, <1>3

(* The world that a run has scanned keeps knowing the last releases.          *)
LEMMA WorldNext ==
  ASSUME InstallInv, Next
  PROVE  WorldKnows'
<1>0. TypeOK /\ Place /\ RecordsFollow /\ HandCopied /\ WorldKnows
  BY DEF InstallInv
<1>1. SUFFICES ASSUME at' \notin {"idle", "resolve", "scan"},
                      NEW l \in Loc, NEW x \in dir'[l], <<l, x.pkg>> \notin mixed', (x = LastRel(x))'
               PROVE  (x \in world[l] \/ (at = "add" /\ x = Hand.what /\ l = Hand.loc))'
  BY DEF WorldKnows, OneVersion
<1>2. CASE GetWorld
  <2>1. dir' = dir /\ mixed' = mixed /\ built' = built /\ world'[l] = Scanned(l)
    BY <1>2 DEF GetWorld, root
  <2>2. x = LastRel(x) /\ x \in dir[l] /\ <<l, x.pkg>> \notin mixed
    BY <1>1, <2>1, LastRelKept
  <2>3. ASSUME NEW y \in dir[l], y.pkg = x.pkg PROVE y.ver = x.ver
    BY <1>0, <2>2, <2>3 DEF RecordsFollow, OneVersion
  <2>. QED  BY <1>0, <2>1, <2>2, <2>3, ScanFacts
<1>3. CASE AddPkgToWorldDir
  <2>1. /\ world' = world /\ items' = items /\ e' = e /\ i' = i /\ at' = "add" /\ mixed' = mixed
        /\ built' = built /\ at = "mark"
    BY <1>3 DEF AddPkgToWorldDir, run
  <2>2. Hand' = Hand
    BY <2>1 DEF Hand
  <2>3. x \in dir[l] \/ (x = Hand.what /\ l = Hand.loc)
    BY <1>0, <1>1, <1>3 DEF AddPkgToWorldDir, TypeOK
  <2>4. x = LastRel(x)
    BY <1>1, <2>1, LastRelKept
  <2>. QED  BY <1>0, <1>1, <2>1, <2>2, <2>3, <2>4 DEF WorldKnows, OneVersion
<1>4. CASE AddPkgToWorldT
  <2>1. dir' = dir /\ mixed' = mixed /\ built' = built /\ at = "add"
    BY <1>4 DEF AddPkgToWorldT, root
  <2>2. x \in world[l] \/ (x = Hand.what /\ l = Hand.loc)
    <3>1. x = LastRel(x)
      BY <1>1, <2>1, LastRelKept
    <3>. QED  BY <1>0, <1>1, <2>1, <3>1 DEF WorldKnows, OneVersion
  <2>3. world' = [world EXCEPT ![Hand.loc] = @ \cup {Hand.what}]
    BY <1>4 DEF AddPkgToWorldT
  <2>. QED  BY <1>0, <2>2, <2>3 DEF TypeOK
<1>5. CASE ~GetWorld /\ ~AddPkgToWorldDir /\ ~AddPkgToWorldT
  <2>1. /\ at \notin {"idle", "resolve", "scan", "add"}
        /\ built' = built /\ world' = world /\ dir' = dir
    BY <1>1, <1>5 DEF Next, Build, Start, Resolve, CheckPkgAvail, NotAvail, Skip, Copy, CopyRest, InstPkgCfg,
         Complete, Stop, Exit, root, run
  <2>2. mixed \subseteq mixed'
    BY <1>0, RootFacts, CopyFacts
  <2>3. x = LastRel(x)
    BY <1>1, <2>1, LastRelKept
  <2>. QED  BY <1>0, <1>1, <2>1, <2>2, <2>3 DEF WorldKnows, OneVersion
<1>. QED  BY <1>2, <1>3, <1>4, <1>5

LEMMA HandNext ==
  ASSUME InstallInv, Next
  PROVE  HandCopied'
<1>0. TypeOK /\ Place /\ HandCopied
  BY DEF InstallInv
<1>1. SUFFICES ASSUME at' \in {"copy", "cfg", "mark", "add"} PROVE HandCopied'
  BY DEF HandCopied
<1>2. Copy \/ CopyRest \/ InstPkgCfg \/ AddPkgToWorldDir
  BY <1>1 DEF Next, Build, Start, Resolve, GetWorld, CheckPkgAvail, NotAvail, Skip,
       AddPkgToWorldT, Complete, Stop, Exit
<1>3. items' = items /\ e' = e /\ i' = i /\ force' = force
  BY <1>2 DEF Copy, CopyRest, InstPkgCfg, AddPkgToWorldDir, run
<1>4. Hand' = Hand /\ ~force /\ e <= Len(items)
  BY <1>0, <1>2, <1>3 DEF Hand, Copy, CopyRest, InstPkgCfg, AddPkgToWorldDir, HandCopied
<1>5. Hand.what \in Release /\ Hand.loc \in Loc /\ Hand.what.pkg \in Pkg
  BY <1>0, <1>4, HandFacts
<1>6. copy'[Hand.loc][Hand.what.pkg] = Hand.what
  <2>1. CASE Copy
    BY <2>1, CopyFacts
  <2>2. CASE ~Copy
    BY <1>0, <1>2, <2>2, RootFacts DEF CopyRest, InstPkgCfg, AddPkgToWorldDir, HandCopied
  <2>. QED  BY <2>1, <2>2
<1>7. at' \in {"mark", "add"} => whole'[Hand.loc][Hand.what.pkg]
  <2>1. CASE InstPkgCfg
    <3>1. whole' = [whole EXCEPT ![Hand.loc] = [whole[Hand.loc] EXCEPT ![Hand.what.pkg] = TRUE]]
      BY <2>1 DEF InstPkgCfg
    <3>2. whole \in [Loc -> [Pkg -> BOOLEAN]]
      BY <1>0 DEF TypeOK
    <3>3. whole'[Hand.loc][Hand.what.pkg] = TRUE
      BY <1>5, <3>1, <3>2
    <3>. QED  BY <3>3, Zenon
  <2>2. CASE AddPkgToWorldDir
    <3>1. whole' = whole /\ at = "mark"
      BY <2>2 DEF AddPkgToWorldDir
    <3>2. whole[Hand.loc][Hand.what.pkg]
      BY <1>0, <3>1, Zenon DEF HandCopied
    <3>. QED  BY <3>1, <3>2, Zenon
  <2>3. CASE Copy \/ CopyRest
    BY <2>3 DEF Copy, CopyRest
  <2>. QED  BY <1>2, <2>1, <2>2, <2>3
<1>8. at' = "add" => Hand.what \in dir'[Hand.loc]
  BY <1>0, <1>2, <1>5 DEF Copy, CopyRest, InstPkgCfg, AddPkgToWorldDir, TypeOK
<1>. QED  BY <1>3, <1>4, <1>6, <1>7, <1>8 DEF HandCopied

(* What has been passed stays installed. *)
InstalledNext(y) ==
  /\ y.what \in dir'[y.loc]
  /\ <<y.loc, y.what.pkg>> \notin mixed' =>
       copy'[y.loc][y.what.pkg] = y.what /\ whole'[y.loc][y.what.pkg]

LEMMA InstalledKept ==
  ASSUME InstallInv, Next, NEW y \in Items, Installed(y)
  PROVE  InstalledNext(y)
<1>0. TypeOK /\ Place /\ HandCopied /\ ItemsAreLast /\ ItemsAreBuilt
  BY DEF InstallInv
<1>1. y.what \in Release /\ y.loc \in Loc /\ y.what.pkg \in Pkg /\ y.what.ver \in Ver
  BY <1>0, ItemFacts
<1>2. CASE Copy
  <2>1. dir' = dir /\ mixed \subseteq mixed' /\ at = "next"
    BY <1>2, CopyFacts DEF Copy
  <2>2. CASE y.loc # Hand.loc \/ y.what.pkg # Hand.what.pkg
    <3>1. /\ copy'[y.loc][y.what.pkg] = copy[y.loc][y.what.pkg]
          /\ whole'[y.loc][y.what.pkg] = whole[y.loc][y.what.pkg]
      BY <1>1, <1>2, <2>2, CopyFacts
    <3>2. <<y.loc, y.what.pkg>> \notin mixed' => <<y.loc, y.what.pkg>> \notin mixed
      BY <2>1
    <3>. QED  BY <2>1, <3>1, <3>2, Zenon DEF Installed, InstalledNext, OneVersion
  <2>3. CASE y.loc = Hand.loc /\ y.what.pkg = Hand.what.pkg
    <3>1. SUFFICES ASSUME <<y.loc, y.what.pkg>> \notin mixed' PROVE FALSE
      BY <2>1 DEF Installed, InstalledNext
    <3>2. copy[y.loc][y.what.pkg] = y.what /\ y.what \in dir[y.loc]
      BY <2>1, <3>1 DEF Installed, OneVersion
    <3>3. y.what.ver = Hand.what.ver /\ Hand.what \notin dir[y.loc]
      BY <1>1, <1>2, <2>3, <3>1, <3>2, CopyFacts, NoneIsNoRelease
    <3>4. y.what = LastRel(y.what) /\ Hand.what = LastRel(Hand.what)
      BY <1>0, <1>2, <2>1, CopyFacts DEF ItemsAreLast
    <3>5. LastRel(y.what) = LastRel(Hand.what)
      BY <2>3, <3>3 DEF LastRel
    <3>. QED  BY <3>2, <3>3, <3>4, <3>5
  <2>. QED  BY <2>2, <2>3
<1>3. CASE ~Copy
  <2>1. /\ copy' = copy /\ mixed' = mixed
        /\ whole[y.loc][y.what.pkg] => whole'[y.loc][y.what.pkg]
    BY <1>0, <1>1, <1>3, RootFacts
  <2>2. dir[y.loc] \subseteq dir'[y.loc]
    <3>1. CASE AddPkgToWorldDir
      BY <1>0, <1>1, <3>1 DEF AddPkgToWorldDir, TypeOK
    <3>. QED  BY <1>0, <3>1, RootFacts
  <2>3. y.what \in dir'[y.loc]
    BY <2>2 DEF Installed
  <2>. QED  BY <2>1, <2>3, Zenon DEF Installed, InstalledNext, OneVersion
<1>. QED  BY <1>2, <1>3

(* What exists is installed: a record of the last release is the copy.        *)
LEMMA ExistsIsInstalled ==
  ASSUME InstallInv, at = "next", e <= Len(items), Exists(Hand.what, Hand.loc)
  PROVE  Installed(Hand)
<1>0. TypeOK /\ Place /\ ItemsAreLast /\ ItemsAreBuilt /\ RecordsFollow /\ RecordedWhole
  BY DEF InstallInv
<1>1. /\ Hand \in Items /\ Hand.what \in Release /\ Hand.loc \in Loc /\ Hand.what.pkg \in Pkg
      /\ Hand.what \in dir[Hand.loc] /\ Hand.what = LastRel(Hand.what) /\ IsBuilt(Hand.what)
  BY <1>0, HandFacts DEF Exists, ItemsAreLast, ItemsAreBuilt
<1>2. ASSUME OneVersion(Hand.loc, Hand.what.pkg)
      PROVE  copy[Hand.loc][Hand.what.pkg] = Hand.what
  <2>1. copy[Hand.loc][Hand.what.pkg] # None
    BY <1>0, <1>1 DEF RecordsFollow
  <2>2. /\ copy[Hand.loc][Hand.what.pkg] \in Release
        /\ copy[Hand.loc][Hand.what.pkg].pkg = Hand.what.pkg
        /\ IsBuilt(copy[Hand.loc][Hand.what.pkg])
        /\ copy[Hand.loc][Hand.what.pkg].ver = Hand.what.ver
        /\ Hand.what.rel <= copy[Hand.loc][Hand.what.pkg].rel
    BY <1>0, <1>1, <1>2, <2>1 DEF RecordsFollow, TypeOK
  <2>. QED  BY <1>0, <1>1, <2>2, LastIsHighest
<1>3. ASSUME OneVersion(Hand.loc, Hand.what.pkg) PROVE whole[Hand.loc][Hand.what.pkg]
  BY <1>0, <1>1, <1>2, <1>3 DEF RecordedWhole
<1>. QED  BY <1>1, <1>2, <1>3 DEF Installed

LEMMA SoFarNext ==
  ASSUME InstallInv, Next
  PROVE  InstalledSoFar'
<1>0. TypeOK /\ Place /\ HandCopied /\ InstalledSoFar
  BY DEF InstallInv
<1>1. SUFFICES ASSUME ~force', NEW n \in DOMAIN items', NEW m \in DOMAIN items'[n], Before(n, m)'
               PROVE  InstalledNext(items'[n][m])
  BY DEF InstalledSoFar, Installed, InstalledNext, OneVersion
<1>2. CASE Resolve \/ Exit
  <2>1. e' = 1 /\ i' = 1 /\ items' \in Seq(Seq(Item))
    BY <1>2, TypeNext DEF Resolve, Exit, TypeOK
  <2>2. n \in Nat /\ n >= 1 /\ m \in Nat /\ m >= 1
    <3>1. items'[n] \in Seq(Item)
      BY <2>1
    <3>. QED  BY <2>1, <3>1
  <2>. QED  BY <1>1, <2>1, <2>2 DEF Before
<1>3. CASE ~Resolve /\ ~Exit
  <2>1. items' = items
    BY <1>3 DEF Next, Build, Start, GetWorld, CheckPkgAvail, NotAvail, Skip, Copy, CopyRest, InstPkgCfg,
         AddPkgToWorldDir, AddPkgToWorldT, Complete, Stop, run
  <2>2. items[n][m] \in Items
    BY <2>1 DEF Items
  <2>3. SUFFICES Installed(items[n][m])
    BY <2>1, <2>2, InstalledKept
  <2>4. CASE Start
    <3>1. items = << >>
      BY <1>0, <2>4 DEF Start, Place
    <3>. QED  BY <2>1, <3>1
  <2>5. CASE Skip \/ AddPkgToWorldT
    <3>1. force' = force /\ Advance /\ e <= Len(items)
      BY <1>0, <2>5 DEF Skip, AddPkgToWorldT, HandCopied
    <3>2. Before(n, m) \/ (n = e /\ m = i)
      BY <1>0, <1>1, <2>1, <3>1, AdvanceFacts
    <3>3. Installed(Hand)
      <4>1. CASE Skip
        BY <1>1, <3>1, <4>1, ExistsIsInstalled DEF Skip
      <4>2. CASE AddPkgToWorldT
        BY <1>0, <4>2 DEF AddPkgToWorldT, HandCopied, Installed
      <4>. QED  BY <2>5, <4>1, <4>2
    <3>4. CASE Before(n, m)
      BY <1>0, <1>1, <2>1, <3>1, <3>4 DEF InstalledSoFar
    <3>5. CASE n = e /\ m = i
      BY <3>3, <3>5 DEF Hand
    <3>. QED  BY <3>2, <3>4, <3>5
  <2>6. CASE ~Start /\ ~Skip /\ ~AddPkgToWorldT
    <3>1. force' = force /\ e' = e /\ i' = i
      BY <1>3, <2>6 DEF Next, Build, GetWorld, CheckPkgAvail, NotAvail, Copy, CopyRest, InstPkgCfg,
           AddPkgToWorldDir, Complete, Stop, run
    <3>2. Before(n, m)
      BY <1>1, <3>1 DEF Before
    <3>. QED  BY <1>0, <1>1, <2>1, <3>1, <3>2 DEF InstalledSoFar
  <2>. QED  BY <2>4, <2>5, <2>6
<1>. QED  BY <1>2, <1>3
-----------------------------------------------------------------------------
LEMMA InstallInvInit == Init => InstallInv
<1>. SUFFICES ASSUME Init PROVE InstallInv
  OBVIOUS
<1>1. TypeOK
  BY TypeInit
<1>2. items = << >> /\ DOMAIN items = {} /\ Len(items) = 0 /\ e = 1 /\ at = "idle"
  BY EmptyItems DEF Init
<1>3. Place /\ InstalledSoFar
  BY <1>2 DEF Place, InstalledSoFar
<1>4. ItemsAreLast /\ ItemsAreBuilt /\ WorldKnows /\ HandCopied
  BY <1>2 DEF ItemsAreLast, ItemsAreBuilt, WorldKnows, HandCopied
<1>5. RecordsFollow /\ RecordedWhole
  BY DEF Init, RecordsFollow, RecordedWhole
<1>. QED  BY <1>1, <1>3, <1>4, <1>5 DEF InstallInv

LEMMA InstallInvNext ==
  ASSUME InstallInv, [Next]_vars
  PROVE  InstallInv'
<1>1. CASE Next
  BY <1>1, TypeNext, PlaceNext, ItemsNext, RecordsNext, RecordedNext, WorldNext, HandNext, SoFarNext
  DEF InstallInv
<1>2. CASE UNCHANGED vars
  <2>1. /\ built' = built /\ dir' = dir /\ copy' = copy /\ whole' = whole /\ at' = at /\ target' = target
        /\ force' = force /\ items' = items /\ e' = e /\ i' = i /\ world' = world /\ mixed' = mixed
    BY <1>2 DEF vars
  <2>2. TypeOK' /\ Place'
    BY <2>1 DEF InstallInv, TypeOK, Place
  <2>3. ItemsAreLast' /\ ItemsAreBuilt'
    BY <2>1 DEF InstallInv, ItemsAreLast, ItemsAreBuilt, Items, LastRel, IsBuilt
  <2>4. RecordsFollow' /\ RecordedWhole'
    BY <2>1 DEF InstallInv, RecordsFollow, RecordedWhole, OneVersion, IsBuilt
  <2>5. WorldKnows'
    BY <2>1 DEF InstallInv, WorldKnows, OneVersion, LastRel, Hand
  <2>6. HandCopied'
    BY <2>1 DEF InstallInv, HandCopied, Hand
  <2>7. InstalledSoFar'
    BY <2>1 DEF InstallInv, InstalledSoFar, Installed, Before, OneVersion
  <2>. QED  BY <2>2, <2>3, <2>4, <2>5, <2>6, <2>7 DEF InstallInv
<1>. QED  BY <1>1, <1>2

(* The inductive invariant: see InstallInv.                                   *)
THEOREM InstallInvAlways == Spec => []InstallInv
<1>1. InstallInv /\ [Next]_vars => InstallInv'
  BY InstallInvNext
<1>. QED  BY <1>1, InstallInvInit, PTL DEF Spec

(* A record in var/xx means that the release was copied with all its files    *)
(* and its config, however often runs were killed.                            *)
THEOREM RecordsAreWhole == Spec => []RecordedWhole
<1>1. InstallInv => RecordedWhole
  BY DEF InstallInv
<1>. QED  BY <1>1, InstallInvAlways, PTL

(* A run that says "installation complete" has installed what it resolved.    *)
THEOREM CompleteIsInstalled == Spec => []InstalledAtEnd
<1>1. InstallInv => InstalledAtEnd
  <2>1. SUFFICES ASSUME InstallInv, at = "done", ~force, NEW y \in Items PROVE Installed(y)
    BY DEF InstalledAtEnd
  <2>2. PICK n \in DOMAIN items : \E m \in DOMAIN items[n] : y = items[n][m]
    BY DEF Items
  <2>3. n < e
    BY <2>1 DEF InstallInv, Place, TypeOK
  <2>. QED  BY <2>1, <2>2, <2>3 DEF InstallInv, InstalledSoFar, Before
<1>. QED  BY <1>1, InstallInvAlways, PTL

(* What is recorded and whole is not copied again.                            *)
THEOREM NothingIsReworked == Spec => NoRework
<1>1. InstallInv /\ [Next]_vars =>
        [\A l \in Loc, k \in Pkg :
           OneVersion(l, k) /\ whole[l][k] /\ copy[l][k] \in dir[l] /\ ~whole'[l][k]
             => copy'[l][k] \notin dir[l]]_vars
  <2>1. SUFFICES ASSUME InstallInv, Next, NEW l \in Loc, NEW k \in Pkg,
                        whole[l][k], copy[l][k] \in dir[l], ~whole'[l][k], OneVersion(l, k)
                 PROVE  copy'[l][k] \notin dir[l]
    BY DEF vars
  <2>2. Copy /\ TypeOK
    BY <2>1, RootFacts DEF InstallInv
  <2>3. l = Hand.loc /\ k = Hand.what.pkg
    <3>1. SUFFICES ASSUME l # Hand.loc \/ k # Hand.what.pkg PROVE FALSE
      OBVIOUS
    <3>2. whole'[l][k] = whole[l][k]
      BY <2>1, <2>2, <3>1, CopyFacts
    <3>. QED  BY <2>1, <3>2, Zenon
  <2>4. /\ Hand \in Items /\ Hand.what = LastRel(Hand.what)
        /\ ~Exists(Hand.what, Hand.loc) /\ at = "next" /\ WorldKnows
        /\ copy'[l][k] = Hand.what
    BY <2>1, <2>2, <2>3, CopyFacts DEF Copy, InstallInv
  <2>5. Hand.what \in dir[l] => Hand.what \in world[l]
    BY <2>1, <2>3, <2>4 DEF WorldKnows
  <2>. QED  BY <2>3, <2>4, <2>5 DEF Exists
<1>. QED  BY <1>1, InstallInvAlways, PTL DEF Spec, NoRework

(* Nothing is copied while anything of the target has not been built.         *)
THEOREM BuiltBeforeCopied == Spec => AllOrNothing
<1>1. InstallInv /\ [Next]_vars => [copy' # copy => \A y \in Items : IsBuilt(y.what)]_vars
  <2>1. SUFFICES ASSUME InstallInv, Next, copy' # copy PROVE \A y \in Items : IsBuilt(y.what)
    BY DEF vars
  <2>2. Copy
    BY <2>1, RootFacts DEF InstallInv
  <2>. QED  BY <2>1, <2>2 DEF Copy, InstallInv, ItemsAreBuilt
<1>. QED  BY <1>1, InstallInvAlways, PTL DEF Spec, AllOrNothing
=============================================================================
