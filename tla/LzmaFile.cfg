SPECIFICATION Spec
CONSTANTS
    ByteBits = 3
    ModelBits = 4
    MoveBits = 2
    Lc = 1
    Lp = 0
    Pb = 1
    LenLowBits = 1
    LenHighBits = 2
    SlotBits = 4
    EndPosModelIndex = 10
    AlignBits = 3
    Inputs <- MCInputs
    Pieces <- MCPieces
    RequiredInputMax = 12
    HeaderUnit = 2
    DicUnit = 3
    Losses = {0, 1, 4}
INVARIANTS TypeOK RoundTrip NoInternalError
PROPERTIES DecodeEnds
