SPECIFICATION Spec
CONSTANTS
    Runs = {r1, r2}
    Targets = {codex, agentsmd}
    AgentsMd = agentsmd
    f = f
    g = g
    FileOrder <- MCFileOrder
    Versions <- MCVersions
    Ships <- MCShips
    User = User
    Broken = Broken
    None = None
    Inodes = {i1, i2}
    MaxCommands = 3
    MaxFaults = 1
INVARIANTS
    LockExcludes
    SharedRootKept
    OwnFilesRecognised
PROPERTIES
    EditsKept
CHECK_DEADLOCK FALSE
SYMMETRY Symmetric
