\* Rate grammar: decode_multiplier against the grammar, divide_count 1;
\* the port options of console commands against the client's ports.
CONSTANTS
    None = None
    Texts <- MCTexts
    ClientPorts <- MCClientPorts
    PortIds = {0, 1, 2}
    MaxPortArgs = 2
    Commands <- MCCommands
    DivideCounts = {1}
SPECIFICATION Spec
INVARIANTS
    TypeOK
    DecodeFollowsGrammar
    ParsedPortsValid
