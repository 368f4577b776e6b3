SPECIFICATION FairSpec
CONSTANTS
  COMMAND_SPACING = 1
  CONNECT_SPACING = 2
  WATCHDOG_LIMIT = 6
  TIMER3_PERIOD = 3
  MaxUnplugs = 2
  Patience = 1
INVARIANTS TypeOK PPPFollowsLink
PROPERTIES  CommandsInOrder DialCompletes LostDetachRepaired
