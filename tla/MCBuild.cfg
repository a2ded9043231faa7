CONSTANTS
  r1 = r1
  r2 = r2
  gcc = gcc
  gccstd = gccstd
  bc = bc
  bclib = bclib
  f1 = f1
  f2 = f2
  Run <- Runs
  Pkg <- Pkgs
  File <- Files
  Recipe <- Recipes
  Moves <- MovesOf
  SetFiles <- Sets
  MaxRel = 1
SPECIFICATION Spec
CHECK_DEADLOCK FALSE
INVARIANTS
  StoreInv
  NoGap
  BuildsNewRelease
  IncompleteOnlyIfAbandoned
  
PROPERTIES
  PublishedUntouched
  ReadsBackOwnRelease
  ImplementsReleases
