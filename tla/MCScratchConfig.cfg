CONSTANTS
  q1 = q1
  q2 = q2
  Proc <- TwoProcs
  Pkg <- Pkgs
  Prog <- Progs
  ProgOf <- ProgMap
  Root <- Roots
  Jobs <- JobsTwo
  Steps = 2
  MaxId = 1
SPECIFICATION Spec
PROPERTY OwnContainer
