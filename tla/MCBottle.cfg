SPECIFICATION Spec
CONSTANTS
    Services = {s1, s2, s3}
    Unknown = unknown
    Guest = guest
    p1 = p1
    p2 = p2
    Policies <- MCPolicies
    Procs = {r1, r2}
    None = none
    MaxRequests = 4
    MaxFaults = 2
INVARIANTS TypeOK StartOrderSound NothingLeftBehind NetworkKept
SYMMETRY Symmetry
