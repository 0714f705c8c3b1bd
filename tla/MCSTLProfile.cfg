\* Core run: every profile source (YAML documents valid and malformed,
\* constructed streams, captures), dump and reload, well-formedness.
CONSTANTS
    None = None
    BadValue = BadValue
    NoFile = NoFile
    Packets <- MCPackets
    Paths <- MCPaths
    PathDir <- MCPathDir
    PathExts <- MCPathExts
    PathModule <- MCPathModule
    PackageDir = PackageDir
    InitFiles <- MCInitFiles
    InitSysPath <- MCInitSysPath
    InitModules <- MCInitModules
    UserDocs <- MCUserDocs
    UserBodies = {}
    ConstructArgs <- MCConstructArgs
    PcapArgs <- MCPcapArgs
    MaxVersion = 1
    DumpPaths = {"out.yaml"}
    EditPaths = {"user.yaml", "out.yaml"}
SPECIFICATION Spec
INVARIANTS
    TypeOK
    RoundTripPreservesStreams
    PcapChainReplaysCapture
    LoadRejectsMalformedDocuments
