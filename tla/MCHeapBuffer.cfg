\* Two buffers that grow over two chunks, shrink, move and borrow.
CONSTANTS
    Buffers = {b1, b2}
    Memories = {1, 2}
    Null = Null
    Foreign <- MCForeign
    Values = {a, d}
    Default = d
    Raw = Raw
    Left = Left
    ChunkSize = 2
    ElementSize = 1
    SizeMod = 32
    MaxSize = 3
    Datas <- MCDatas
    MovesReserved = FALSE
    Overwrites = FALSE
    ReservesBorrowed = FALSE
    ShrinksMayFail = FALSE
    a = a
    d = d
    f = f
SPECIFICATION Spec
INVARIANTS
    OneOwner
    NoLeak
    SizeFits
    ElementsCounted
PROPERTIES
    ImplementsVectors
