SPECIFICATION CliSpec
CONSTANTS
    p1 = p1
    p2 = p2
    p3 = p3
    w1 = w1
    w2 = w2
    o1 = o1
    o2 = o2
    Procs = {p1, p2, p3}
    Names = {n1, n2}
    Output = out
    Paths = {"lib", "toml", "up"}
    SafePaths = {"lib", "toml"}
    Package <- MCPackage
    Stranger = stranger
    Writers = {w1, w2}
    Commands <- MCCommands
    Nonces = {t1, t2}
    Artifacts <- MCArtifacts
    Outputs = {o1, o2}
    Old = old
    Before <- MCBefore
    RootFiles <- MCRootFiles
INVARIANTS
    OutputWhole
    ExitsAreTrue
    SdkIsOwn
    RootReportsAreRight
PROPERTIES
    PublishesOnce
    PackageNotLost
    EveryCommandEnds
