CONSTANTS
    Generations = 4
    MaskIndex = 7
    InitSize = 3
    Resizes = {}
    Beyond = {}
SPECIFICATION Spec
PROPERTIES
    CreateIsFresh
