SPECIFICATION Spec
CONSTANTS
    NoFrame = NoFrame
    Frames = {f1, f2, f3}
    Moves = 4
    Remounts = 0
CHECK_DEADLOCK FALSE
PROPERTIES
    FinalPositionWins
