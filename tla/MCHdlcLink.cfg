SPECIFICATION LinkSpec
CONSTANTS
    Crc <- CalcCrc
    Payloads <- MCPayloads
    ChunkSizes <- MCChunkSizes
    NoiseBytes <- MCNoiseBytes
    MaxFrames = 3
    MaxNoise = 1
INVARIANTS
    OnlyIntactFramesInOrder
    Resynchronises
CHECK_DEADLOCK FALSE
