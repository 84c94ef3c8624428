SPECIFICATION Spec
CONSTANTS
  p1 = p1 p2 = p2 n1 = n1 n2 = n2
  Procs = {p1, p2} NoProc = NoProc
  Names = {n1} Indexes = {1} Gone = Gone Unborn = Unborn
  InitLinks <- MCLinks
  Prefixes <- MCPrefixes Ip <- MCIp3 Subnet <- MCSubnet3
  Labelled = {n1} NoEntry = NoEntry AnyOne = AnyOne
  AdminMoves = {"add", "del", "unplug"}
  Races = TRUE Orphans = FALSE InspectFaults = FALSE
  MaxAdds = 2 MaxMoves = 1
SYMMETRY Symmetry
CHECK_DEADLOCK FALSE
INVARIANTS OneEntryPerAddress RecordedBeforeApplied LiveIsRecorded
PROPERTIES LedgerSpec
