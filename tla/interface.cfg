CONSTANTS
    a = a
    b = b
    c = c
    ETHERNET_BROADCAST = broadcast
    ETHERNET_UNSET = unset
    PENDING_TIME = 2
    MAPPING_TIME = 3
    Hosts <- MCHosts
    eth <- MCEth
    Active <- MCActive
    MaxDgrams = 2
    MaxLost = 1
SPECIFICATION Spec
INVARIANTS CacheIsTrue AtMostOnce
PROPERTIES RequestsAreSpaced QueuedArrives
