SPECIFICATION Spec
CONSTANTS
    app = app
    team = team
    hub = hub
    library_app = library_app
    team_app = team_app
    built_app = built_app
    v1 = v1
    v2 = v2
    Images = {app, team, hub}
    Named = {app, team}
    Dirs = {library_app, team_app, built_app}
    Registry = {app}
    Versions = {v1, v2}
    Procs = {r1, r2}
    None = None
    Nothing = Nothing
    MaxRequests = 2
    MaxRuns = 1
    MaxFaults = 1
    CopyName = "y"
    CopyData = "copy"
    Links = {"link"}
    PullDir <- MCPullDir
    BuildDir <- MCBuildDir
    Paths <- MCPaths
    LayersOf <- MCLayersOf
    RunUppers <- MCRunUppers
    Earlier <- MCEarlier
    Workdir <- MCWorkdir
SYMMETRY Symmetry
INVARIANTS
    TypeOK
    BuildReclaims
    RunEnded
    LayersSound
    UsableImage
