CONSTANTS
  Procs = {1, 2, 3}
  Files <- MCFiles
  MaxFaults = 1
  MaxCommands = 1
SPECIFICATION FairSpec
INVARIANTS TypeOK NoSecondProcess ThreadPerDevice
PROPERTIES SignalStops Recovers SniffersAreChecked
