SPECIFICATION Spec
CONSTANTS
    Users = {u1}
    Controller = controller
    PodIds = {p1, p2, p3}
    TemplateIds = {t1, t2}
    SetIds = {s1}
    BaseNames = {b1}
    None = none
    MaxReplicas = 1
    Kinds = {"create", "apply", "applySet", "scale", "removeSet", "start", "stop", "remove", "delete"}
    MaxRequests = 2
    MaxDeaths = 0
INVARIANT StopRespected
CHECK_DEADLOCK FALSE
