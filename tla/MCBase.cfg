CONSTANTS
  Pkg <- Pkgs
  BaseSet <- Set
  BaseRoot = "base"
  Env <- Envs
  Job <- Jobs
  MaxRel = 1
SPECIFICATION Spec
CONSTRAINT OneRecipe
INVARIANTS
  EInv
  BaseReady
  EnvHasBase
  OwnRecords
PROPERTY NoWriteThrough
