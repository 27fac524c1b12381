SPECIFICATION DecoderSpec
CONSTANTS
    Layouts <- SoundDecoders
    NeverFilled <- LeftOut
    SameBits <- GivenTogether
    MaxCount = 2
INVARIANTS
    DecoderTypeOK
    LookupsSucceed
    BitsAreInTheWord
    BitsAreGivenOnce
    BitsAreOfOnePiece
    PlaceholdersAreFilled
    OffsetIsRight
