CONSTANTS
  StringOrder <- Order
  Volatile <- VolatileDirs
  Systems <- OneSystem
  Users <- Passwd
  Groups <- Group
  Me <- Xx
  Start0 <- Tree
  Deploys <- Puts
  MaxDeploy = 2
SPECIFICATION Spec
INVARIANT OwnersApplied
