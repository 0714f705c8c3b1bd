\* load_py with the profile directory already on sys.path (the script directory).
CONSTANTS
    None = None
    BadValue = BadValue
    NoFile = NoFile
    Packets <- MCPackets
    Paths <- MCPaths
    PathDir <- MCPathDir
    PathExts <- MCPathExts
    PathModule <- MCPathModule
    PackageDir = PackageDir
    InitFiles <- MCInitFiles
    InitSysPath <- MCInitSysPathScriptDir
    InitModules <- MCInitModules
    UserDocs = {}
    UserBodies <- MCUserBodies
    ConstructArgs = {}
    PcapArgs = {}
    MaxVersion = 1
    DumpPaths = {}
    EditPaths = {"stl/udp.py", "stl/hlt/udp.py", "stl/rx_stats.py"}
SPECIFICATION Spec
PROPERTY
    SysPathRestored
