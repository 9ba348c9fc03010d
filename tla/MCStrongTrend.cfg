SPECIFICATION Spec
CONSTANTS
    Bases <- MCBases
    Moves = 2
PROPERTY StrongTrendNeedsLess
