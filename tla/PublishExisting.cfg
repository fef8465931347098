SPECIFICATION Spec
CONSTANTS
    p1 = p1
    p2 = p2
    p3 = p3
    Procs = {p1, p2, p3}
    Names = {n1, n2}
    Output = out
    Paths = {"lib", "toml", "up"}
    SafePaths = {"lib", "toml"}
    Package <- MCPackage
    Stranger = stranger
PROPERTY
    ExistingPathRejected
