CONSTANTS
  MNGM_MAX_CONN = 2
  Fds <- MCFds
  Levels <- MCLevels
  MaxClients = 3
SPECIFICATION Spec
INVARIANTS TypeOK SlotsAgree NoneForgotten LevelsFollow ManagementInv
PROPERTIES OnlyHungUpClosed HangUpNoticed
