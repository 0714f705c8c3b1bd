\* Two threads loading profiles of different names in stl and stl/hlt.
CONSTANTS
    None = None
    BadValue = BadValue
    NoFile = NoFile
    Packets <- MCPackets
    Paths <- MCPaths
    PathDir <- MCPathDir
    PathExts <- MCPathExts
    PathModule <- MCPathModule
    PackageDir = PackageDir
    InitFiles <- MCInitFiles
    InitSysPath <- MCInitSysPath
    InitModules <- MCInitModules
    UserDocs = {}
    UserBodies <- MCThreadBodies
    ConstructArgs = {}
    PcapArgs = {}
    MaxVersion = 1
    DumpPaths = {}
    EditPaths = {"stl/udp.py"}
    Threads = {t1, t2}
    Units <- MCThreadUnits
SPECIFICATION Spec
PROPERTY
    SequentialLoads
