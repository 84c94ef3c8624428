SPECIFICATION CaptureSpec
CONSTANTS
  Sockets = {"eth0"} Files = {} Faulty = {"eth0"} Iface = "eth0" WriteFaults = TRUE
  FileLength = 0 Buffer = 2 Room = 2 MaxArrivals = 4 Times = {1, 2}
INVARIANTS FileSound
PROPERTIES CaptureEnds
