------------------------------ MODULE MCRouted ------------------------------
(***************************************************************************)
(* Three-bit addresses.  Host 0 is on the link "west" with router r1, the  *)
(* hosts 5 and 6 are on "east" with router r2, and the routers are joined  *)
(* by "middle".  The default routes of the routers point at each other, so *)
(* address 3 is nowhere.                                                   *)
(***************************************************************************)
EXTENDS RoutedNetwork

Entry(prefix, length, hop, num) ==
    [route_prefix |-> prefix, prefix_length |-> length, next_hop |-> hop, interface_num |-> num]

MCGateway == [h \in {0, 5, 6} |-> IF h = 0 THEN 1 ELSE 4]
MCPorts == [r \in {"r1", "r2"} |-> IF r = "r1" THEN <<1, 2>> ELSE <<7, 4>>]
MCLink == [ip \in {0, 1, 2, 4, 5, 6, 7} |->
              CASE ip \in {0, 1} -> "west" [] ip \in {2, 7} -> "middle" [] OTHER -> "east"]
MCHops == [way \in {0, 5, 6} \X {0, 3, 5, 6} |-> IF (way[1] = 0) = (way[2] = 0) THEN 1 ELSE 2]
MCFirst == [r \in {"r1", "r2"} |->
               IF r = "r1" THEN <<Entry(0, 2, {}, 1), Entry(0, 0, {7}, 2)>>
                           ELSE <<Entry(0, 0, {2}, 1), Entry(4, 1, {}, 2)>>]
MCMore == [r \in {"r1", "r2"} |->
              IF r = "r1" THEN {Entry(4, 1, {7}, 2), Entry(5, 3, {7}, 2)}
                          ELSE {}]

(* A route like the last one of apps/network_simulator.cc:232: its prefix  *)
(* has bits set below the prefix length.                                   *)
MCMoreIllFormed == [r \in {"r1", "r2"} |-> IF r = "r1" THEN {Entry(5, 1, {7}, 2)} ELSE {}]
=============================================================================
