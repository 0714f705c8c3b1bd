\* Dump then reload of streams whose MAC override flags are set.
CONSTANTS
    None = None
    BadValue = BadValue
    NoFile = NoFile
    Packets <- MCPackets
    Paths <- MCPaths
    PathDir <- MCPathDir
    PathExts <- MCPathExts
    PathModule <- MCPathModule
    PackageDir = PackageDir
    InitFiles <- MCInitFiles
    InitSysPath <- MCInitSysPath
    InitModules <- MCInitModules
    UserDocs <- MCRoundTripDocs
    UserBodies = {}
    ConstructArgs <- MCConstructArgs
    PcapArgs <- MCPcapArgs
    MaxVersion = 1
    DumpPaths = {"out.yaml"}
    EditPaths = {"user.yaml", "out.yaml"}
SPECIFICATION Spec
INVARIANT
    RoundTripPreservesFlags
