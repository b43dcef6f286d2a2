SPECIFICATION Spec
CONSTANTS
  SamePorts = {TRUE, FALSE}
  MaxConns = 3
INVARIANTS DialedIsMutual RolesKeepItOne
CHECK_DEADLOCK FALSE
