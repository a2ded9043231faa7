CONSTANTS
  p1 = p1
  p2 = p2
  Cnt <- Cnts
  Bin <- Bins
  File <- Files
  Dest <- Dests
  Word <- Words
  Url <- Urls
  Text <- Texts
  Printed <- PrintedAs
  NoCnt = "none"
  Proc <- Procs
  Confs <- TwoConfs
  Lines <- AllLines
  Linkers <- Procs
  Name <- Names
  Dirs <- DirNames
  Base <- BaseMap
  Dir <- DirMap
  Writes <- WriteMap
SPECIFICATION Spec
CONSTRAINTS Apart Beside
INVARIANTS
  CrunInv
  AddressesDiffer
  LinksComplete
PROPERTIES
  OwnRun
  NothingLost
