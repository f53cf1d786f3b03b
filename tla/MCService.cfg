SPECIFICATION Spec
CONSTANTS
    s1 = s1
    s2 = s2
    p1 = p1
    p2 = p2
    shop = shop
    Services = {s1, s2}
    Name <- MCName
    Ports <- MCPorts
    Protos = {"tcp", "udp", "sctp"}
    Pods = {p1, p2}
    Selects <- MCSelects
    Addrs = {1, 2}
    None = none
    MaxChanges = 4
    MaxFaults = 1
    MaxRestarts = 1
INVARIANTS TypeOK RulesMatchState NoLeftovers
PROPERTY Converges
