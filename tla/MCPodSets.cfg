SPECIFICATION Spec
CONSTANTS
    Users = {u1}
    Controller = controller
    PodIds = {p1, p2, p3, p4}
    TemplateIds = {t1}
    SetIds = {s1}
    BaseNames = {b1}
    None = none
    MaxReplicas = 2
    Kinds = {"applySet", "scale", "remove"}
    MaxRequests = 2
    MaxDeaths = 1
INVARIANTS TypeOK SetHasTemplate
PROPERTIES ReplicasConverge DegradedRecovers
CHECK_DEADLOCK FALSE
