\* load_py run: same-named profiles in two directories, edits between loads.
CONSTANTS
    None = None
    BadValue = BadValue
    NoFile = NoFile
    Packets <- MCPackets
    Paths <- MCPaths
    PathDir <- MCPathDir
    PathExts <- MCPathExts
    PathModule <- MCPathModule
    PackageDir = PackageDir
    InitFiles <- MCInitFiles
    InitSysPath <- MCInitSysPath
    InitModules <- MCInitModules
    UserDocs = {}
    UserBodies <- MCUserBodies
    ConstructArgs = {}
    PcapArgs = {}
    MaxVersion = 1
    DumpPaths = {}
    EditPaths = {"stl/udp.py", "stl/hlt/udp.py", "stl/rx_stats.py"}
SPECIFICATION Spec
INVARIANTS
    TypeOK
    LoadPyRunsRequestedFile
