\* Three slots of four generations, resized to fewer and to more.
CONSTANTS
    Generations = 4
    MaskIndex = 7
    InitSize = 3
    Resizes = {2, 3, 4}
    Beyond <- MCBeyond
SPECIFICATION Spec
INVARIANTS
    StaleStaysDead
PROPERTIES
    AccessLasts
