SPECIFICATION Spec
CONSTANTS
  Sockets = {"eth0"} Files = {"f.pcap"} Faulty = {"eth0", "f.pcap"}
  FileLength = 1 Buffer = 1 Room = 1 MaxArrivals = 2 Times = {1, 2}
INVARIANTS AllDelivered LastIsLatest
PROPERTIES InOrder ResultsMerged ObservationEnds
