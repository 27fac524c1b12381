SPECIFICATION DecoderSpec
CONSTANTS
    Layouts <- PuschTx_v23_Decoder
    NeverFilled <- LeftOut
    SameBits <- GivenTogether
    MaxCount = 2
INVARIANTS
    BitsAreOfOnePiece
