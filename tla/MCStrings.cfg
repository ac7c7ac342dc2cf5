\* Allocations of two bytes, and a character that is 2 as well.
CONSTANTS
    Buffers = {s1, s2}
    Memories = {1, 2, 3}
    Null = Null
    Foreign <- MCForeign
    Values = {0, 1, 2}
    Default = 0
    Raw = Raw
    Left = Left
    ChunkSize = 2
    ElementSize = 1
    SizeMod = 32
    MaxSize = 3
    Datas <- MCDatas
    MovesReserved = FALSE
    Overwrites = FALSE
    ReservesBorrowed = FALSE
    ShrinksMayFail = FALSE
    Literals <- MCLiterals
    Phrases <- MCPhrases
    Typed = {0}
    Lengths = {2}
    N = 2
    Short = 2
    Other = Other
    FillsChunks = FALSE
    PrependsToText = FALSE
    SearchesEnds = FALSE
    f = f
SPECIFICATION StringsSpec
INVARIANTS
    OnlyStraysReported
    QueriesAgree
PROPERTIES
    CopiesFit
    ImplementsTexts
