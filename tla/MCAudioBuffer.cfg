SPECIFICATION Spec
CONSTANTS
    Align = 2
    SampleMod = 3
    FromInt <- TwiceOfThree
    ToInt <- TwiceOfThree
    MaxChannels = 2
    MaxCells = 4
    Lengths = {0, 1, 2, 3}
    Offsets = {0, 1}
    Lines <- SomeLines
    Sheets <- SomeSheets
    Others <- SomeOthers
    Levels = {2}
    CutsMixes = FALSE
    CountsNarrow = FALSE
    ResizesFail = FALSE
INVARIANTS PutsDeliver
PROPERTIES ImplementsPlanes
