SPECIFICATION Spec
CONSTANTS
    MaxChars = 4
    MaxCount = 3
    MaxLimit = 3
    MaxGap = 1
    MaxVersion = 2
    MaxChunks = 3
    OldChunks = {2}
    TopK = 2
    Multiplier = 2
    Sizes = {10, 15, 28}
    Queries = {1, 31}
    Outputs = {0, 4, 9}
    MaxOutput = 8
    Window = 56
    Prompt = 2
    Margin = 20
    Label = 2
    Separator = 1
    Widths = {1, 2}
INVARIANTS TypeOK ChunksFit ChunksCover NeverStale NoHoles ContextFits
CHECK_DEADLOCK FALSE
