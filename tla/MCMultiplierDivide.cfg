\* Rate grammar: decode_multiplier against the grammar, divide_count 1 and 4 (traffic split over four ports).
CONSTANTS
    None = None
    Texts <- MCTexts
    ClientPorts <- MCClientPorts
    PortIds = {0, 1, 2}
    MaxPortArgs = 2
    Commands <- MCCommands
    DivideCounts = {1, 4}
SPECIFICATION Spec
INVARIANT
    DecodeFollowsGrammar
