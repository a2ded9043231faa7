CONSTANTS
  Pkg <- Pkgs
  Key <- Keys
  Graphs <- AllDeps
SPECIFICATION Spec
CHECK_DEADLOCK FALSE
INVARIANTS
  ListIsClosed
  ListsClosure
  NoDuplicates
PROPERTY Terminates
