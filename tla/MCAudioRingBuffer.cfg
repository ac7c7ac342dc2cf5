\* A buffer of three frames that is resized to as many, or to four: every push, pop and
\* peek, wherever it wraps.
CONSTANTS
    a = a
    b = b
    s = s
    Garbage = Garbage
    Frames <- MCFrames
    Silence = s
    Size = 3
    SizeMod = 16
    Inputs <- MCInputs
    Asked = {0, 1, 2, 3, 4, 5}
    PeekOffsets = {0, 1, 3}
    PopOffsets = {0}
    Beyond = FALSE
    DropsEarly = FALSE
    ResizesFail = FALSE
    Rooms = {5}
    Resizes = {3, 4}
SPECIFICATION Spec
PROPERTIES
    ImplementsFifo
