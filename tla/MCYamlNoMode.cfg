\* YAML entries that omit the optional mode section.
CONSTANTS
    None = None
    BadValue = BadValue
    NoFile = NoFile
    Packets <- MCPackets
    Paths <- MCPaths
    PathDir <- MCPathDir
    PathExts <- MCPathExts
    PathModule <- MCPathModule
    PackageDir = PackageDir
    InitFiles <- MCInitFiles
    InitSysPath <- MCInitSysPath
    InitModules <- MCInitModules
    UserDocs <- MCUserDocs
    UserBodies = {}
    ConstructArgs = {}
    PcapArgs = {}
    MaxVersion = 1
    DumpPaths = {"out.yaml"}
    EditPaths = {"user.yaml", "out.yaml"}
SPECIFICATION Spec
INVARIANT
    LoadAcceptsSpecDocuments
