SPECIFICATION IpamSpec
CONSTANTS
    Containers = {c1, c2}
    NoContainer = none
    DefaultBridge = raind0
    Bridges = {raind0, br1, br2}
    ForwardInfos = {f1, f2}
    SubnetSize = 5
    NumSubnets = 2
    MaxForwards = 2
    MaxProbes = 6
SYMMETRY Symmetry
INVARIANTS IpamTypeOK BridgesUnique AddressesUnique ReservedFree ScanFindsLeastFree
PROPERTY ForwardsFollowHolder
