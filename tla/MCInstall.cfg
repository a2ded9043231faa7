CONSTANTS
  Pkg = {"glibc", "bash", "mpv"}
  MaxVer = 2
  MaxRel = 1
  Loc = {"/", "mpv"}
  Target <- Targets
  Forces = {FALSE, TRUE}
SPECIFICATION Spec
CONSTRAINT OneNewVersion
INVARIANTS
  InstallInv
  InstalledAtEnd
  RecordedWhole
PROPERTIES
  NoRework
  AllOrNothing
