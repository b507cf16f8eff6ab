SPECIFICATION FairSpec
CONSTANTS
  nEvents = 3
  EventID = {e1, e2}
  Roles <- MCRoles
  MaxCalls = 4
INVARIANTS TypeOK NoLostReport NoLostIdentify NothingUnasked
PROPERTIES EverythingSent
CHECK_DEADLOCK FALSE
