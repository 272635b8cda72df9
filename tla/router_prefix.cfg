CONSTANTS
    AddressBits = 3
    ETHERNET_BROADCAST = broadcast
    ETHERNET_UNSET = unset
    PENDING_TIME = 1
    MAPPING_TIME = 1
    Gateway <- MCGateway
    Ports <- MCPorts
    Link <- MCLink
    FirstRoutes <- MCFirst
    MoreRoutes <- MCMoreIllFormed
    Senders = {0, 5}
    Destinations = {0, 3, 5}
    Ttls = {4}
    Hops <- MCHops
    MaxDgrams = 2
SPECIFICATION Spec
INVARIANT LongestPrefixWins
CHECK_DEADLOCK FALSE
