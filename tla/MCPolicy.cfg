SPECIFICATION Spec
CONSTANTS
    Procs = {r1, r2}
    Hosts = {h1}
    Networks = {n1}
    Missing = missing
    EarlierChains = {"RAIND-NS-ENF"}
    Kinds = {"add", "remove", "mode", "hook", "network", "commit", "revert"}
    MaxRequests = 3
    MaxPolicies = 1
    MaxTrouble = 1
INVARIANTS TypeOK Isolation EgressMode RulesMatchStatus
SYMMETRY Symmetry
