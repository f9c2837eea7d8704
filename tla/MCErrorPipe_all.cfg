SPECIFICATION ErrorSpec
CONSTANTS
  boot = boot
  wire = wire
  NoBlock = NoBlock
  Keys = {boot, wire}
  Cap = 2
  MaxErrors = 6
  MaxBurst = 3
INVARIANT EveryErrorAccounted
PROPERTY RecurringResurfaces
CHECK_DEADLOCK FALSE
