SPECIFICATION Spec
CONSTANTS
    Procs = {r1, r2}
    Hosts = {h1}
    Networks = {n1}
    Missing = missing
    EarlierChains = {}
    Kinds = {"network", "commit"}
    MaxRequests = 3
    MaxPolicies = 0
    MaxTrouble = 1
INVARIANTS DenyByDefault
SYMMETRY Symmetry
