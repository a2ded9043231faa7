CONSTANTS
  StringOrder <- Order
  Volatile <- VolatileDirs
  Systems <- AllSystems
  Users <- Passwd
  Groups <- Group
  Me <- Xx
  Start0 <- Tree
  Deploys <- Puts
  MaxDeploy = 2
SPECIFICATION Spec
INVARIANTS
  PermsInv
  ListComplete
  PassApplied
  TwicePassed
