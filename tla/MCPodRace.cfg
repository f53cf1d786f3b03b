SPECIFICATION Spec
CONSTANTS
    Users = {u1, u2}
    Controller = controller
    PodIds = {p1, p2, p3}
    TemplateIds = {t1}
    SetIds = {s1}
    BaseNames = {b1}
    None = none
    MaxReplicas = 1
    Kinds = {"applySet", "remove"}
    MaxRequests = 2
    MaxDeaths = 0
PROPERTY ReplicasConverge
CHECK_DEADLOCK FALSE
