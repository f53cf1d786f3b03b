SPECIFICATION Spec
CONSTANTS
    Containers = {c1, c2}
    NoContainer = none
    DefaultBridge = raind0
    Bridges = {raind0, br1}
    ForwardInfos = {f1}
    SubnetSize = 5
    NumSubnets = 1
    MaxForwards = 1
    Names = {n1}
    NoEntry = noentry
    MaxFaults = 1
    MaxCrashes = 1
SYMMETRY Symmetry
INVARIANTS TypeOK ResourcesReclaimed LiveHasResources
PROPERTY NoResurrection
CHECK_DEADLOCK FALSE
