-------------------------------- MODULE Deps --------------------------------
(* getAllRunDeps: the depth-first search for everything a package needs at    *)
(* run time.  The recursion of the code is a stack of frames; the list is     *)
(* shared by all of them.  A package is known by its name and set: the        *)
(* search does not tell two versions of it apart (pkgExists).                 *)
EXTENDS Integers, Sequences

CONSTANTS
  Pkg,     \* packages, version included
  Key,     \* Key[p]: the name and set of p
  Graphs   \* dependency graphs: run dependencies, then library dependencies

ASSUME DepsAssumption == Graphs \subseteq [Pkg -> Seq(Pkg)]

VARIABLES
  graph,   \* the graph at hand
  top,     \* the package of the set file
  res,     \* the list of dependencies
  stack    \* calls of getAllRunDeps, with the dependency each is at

vars == <<graph, top, res, stack>>

Frame == [pkg : Pkg, pos : Nat \ {0}]

TypeOK ==
  /\ graph \in Graphs
  /\ top \in Pkg
  /\ res \in Seq(Pkg)
  /\ stack \in Seq(Frame)

Call(p) == [pkg |-> p, pos |-> 1]

Init ==
  /\ graph \in Graphs
  /\ top \in Pkg
  /\ res = <<>>
  /\ stack = <<Call(top)>>
-----------------------------------------------------------------------------
\* pkgExists
Listed(p, list) == \E j \in DOMAIN list : Key[list[j]] = Key[p]

Depth == Len(stack)
Running == stack[Depth]
Advanced == [stack EXCEPT ![Depth] = [pkg |-> @.pkg, pos |-> @.pos + 1]]

AtDep == stack # <<>> /\ Running.pos <= Len(graph[Running.pkg])
Dep == graph[Running.pkg][Running.pos]

\* mutant: the dependency is listed, its own dependencies are not looked for
VisitFlat ==
  /\ AtDep
  /\ ~Listed(Dep, res)
  /\ res' = Append(res, Dep)
  /\ stack' = Advanced
  /\ UNCHANGED <<graph, top>>

Visit ==
  /\ AtDep
  /\ ~Listed(Dep, res)
  /\ res' = Append(res, Dep)
  /\ stack' = Append(Advanced, Call(Dep))
  /\ UNCHANGED <<graph, top>>

\* mutant: a known dependency is not passed over
SkipStuck ==
  /\ AtDep
  /\ Listed(Dep, res)
  /\ UNCHANGED vars

Skip ==
  /\ AtDep
  /\ Listed(Dep, res)
  /\ stack' = Advanced
  /\ UNCHANGED <<graph, top, res>>

\* mutant: the package is added to the list again
ReturnAdd ==
  /\ stack # <<>> /\ ~AtDep
  /\ res' = Append(res, Running.pkg)
  /\ stack' = SubSeq(stack, 1, Depth - 1)
  /\ UNCHANGED <<graph, top>>

\* the package itself is added last, unless it is there
Return ==
  /\ stack # <<>> /\ ~AtDep
  /\ res' = IF Listed(Running.pkg, res) THEN res ELSE Append(res, Running.pkg)
  /\ stack' = SubSeq(stack, 1, Depth - 1)
  /\ UNCHANGED <<graph, top>>

Next == Visit \/ Skip \/ Return

Spec == Init /\ [][Next]_vars /\ WF_vars(Next)
-----------------------------------------------------------------------------
Done == stack = <<>>
Members(list) == {list[j] : j \in DOMAIN list}
DepsOf(p) == Members(graph[p])

(* The list is closed: when the search ends, every dependency of a package on *)
(* it is on it too, in this or another version, and so is the package the     *)
(* search began with, also when packages depend on each other.                *)
ListIsClosed ==
  Done =>
    /\ Listed(top, res)
    /\ \A p \in Members(res) : \A d \in DepsOf(p) : Listed(d, res)

\* the transitive closure: the least set with top and with all dependencies of
\* its members
Closed(S) == \A p \in S : DepsOf(p) \subseteq S
Closure == {p \in Pkg : \A S \in SUBSET Pkg : top \in S /\ Closed(S) => p \in S}

OneVersion(S) == \A p, q \in S : Key[p] = Key[q] => p = q

(* When no package is needed in two versions, the list is the transitive      *)
(* closure, nothing more and nothing less.                                    *)
ListsClosure == Done /\ OneVersion(Closure) => Members(res) = Closure

(* No package is on the list twice, so none is installed twice.               *)
NoDuplicates ==
  \A j, k \in DOMAIN res : Key[res[j]] = Key[res[k]] => j = k

(* The search ends for every graph, cycles included: every call that goes     *)
(* deeper has put a new package on the list.                                  *)
Terminates == <>Done
-----------------------------------------------------------------------------
(* The inductive invariant behind ListIsClosed: a call has listed all         *)
(* dependencies before the one it is at, and a package on the list whose      *)
(* dependencies are not all listed has a call that is still running.          *)
DepsListed(p) == \A j \in DOMAIN graph[p] : Listed(graph[p][j], res)

FramesListed ==
  \A f \in DOMAIN stack : \A j \in DOMAIN graph[stack[f].pkg] :
    j < stack[f].pos => Listed(graph[stack[f].pkg][j], res)

PendingHasFrame ==
  \A p \in Members(res) \cup {top} :
    DepsListed(p) \/ \E f \in DOMAIN stack : stack[f].pkg = p

BottomIsTop ==
  IF stack = <<>> THEN Listed(top, res) ELSE stack[1].pkg = top

DInv == TypeOK /\ FramesListed /\ PendingHasFrame /\ BottomIsTop
=============================================================================
