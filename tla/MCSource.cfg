CONSTANTS
  p1 = p1
  p2 = p2
  Proc <- Procs
  Recipe <- Recipes
  Prog <- Progs
  File <- Files
  Commit <- Commits
  ProgOf <- ProgMap
  SrcType <- TypeMap
  Urls <- UrlMap
  VerShort <- CommitMap
  SetFiles <- AllSets
SPECIFICATION Spec
CONSTRAINT OneProg
INVARIANTS
  FetchInv
  FetchedOrCut
  CommitThere
PROPERTY SourceKept
