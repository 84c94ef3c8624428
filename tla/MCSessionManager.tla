-------------------------- MODULE MCSessionManager --------------------------
(* SessionManager on one small host.                                       *)
EXTENDS SessionManager, TLC

CONSTANTS n1, n2, p1, p2

\* x and y are two addresses of one subnet, z is x's address with another
\* prefix length.
MCPrefixes == {"x", "y", "z"}
MCTwo      == {"x", "y"}
MCIp3      == [q \in MCPrefixes |-> IF q = "y" THEN "ip2" ELSE "ip1"]
MCSubnet3  == [q \in MCPrefixes |-> IF q = "z" THEN "wide" ELSE "net"]
MCIp2      == [q \in MCTwo |-> IF q = "y" THEN "ip2" ELSE "ip1"]
MCSubnet2  == [q \in MCTwo |-> "net"]

MCLinks    == [i \in Indexes |-> IF i = 1 THEN n1 ELSE Unborn]

Symmetry == Permutations(Procs)

=============================================================================
