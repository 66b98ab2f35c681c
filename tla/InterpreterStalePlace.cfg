CONSTANTS
    Lists = {"l1", "l2"}
    MaxLength = 1
    MaxFrames = 4
SPECIFICATION Spec
INVARIANT InvalidPositionsRaise
