SPECIFICATION FairSpec
CONSTANTS
  p1 = p1 p2 = p2 n1 = n1 n2 = n2
  Procs = {p1, p2} NoProc = NoProc
  Names = {n1, n2} Indexes = {1, 2} Gone = Gone Unborn = Unborn
  InitLinks <- MCLinks
  Prefixes <- MCTwo Ip <- MCIp2 Subnet <- MCSubnet2
  Labelled = {n1} NoEntry = NoEntry AnyOne = AnyOne
  AdminMoves = {"add", "del", "rename", "unplug", "plug"}
  Races = FALSE Orphans = TRUE InspectFaults = TRUE
  MaxAdds = 1 MaxMoves = 1
CHECK_DEADLOCK FALSE
PROPERTIES CallsReturn OwnedDeletesOnlyItsOwn OwnedSuccessMeansGone
