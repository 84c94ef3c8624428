CONSTANTS
  s1 = s1  s2 = s2  m1 = m1  m2 = m2
  NoMAC = NoMAC  NoAddr = NoAddr
  Sources = {s1, s2}
  MACs = {m1, m2}
  Addrs4 = {5, 6, 9}
  Addrs6 = {21}
  LinkLocal = {9}
  Hosts = 4
  Local = {m1}
  LocalIPv4 = {1}
  Gateways = {2}
  Packets <- MCPackets
  MaxWeak = 1
  MaxTime = 2
  MaxPackets = 3
  Grace = 1
SYMMETRY Symmetric
SPECIFICATION Spec
CHECK_DEADLOCK FALSE
INVARIANTS ClaimsExact  
