CONSTANTS
    Transport = {t1, t2}
    Null = Null
    MaxAttempts = 1
    QueueSize = 2
    MaxOut = 3
    MaxIn = 2
SPECIFICATION Spec
INVARIANTS
    TypeOK
    NoLeakedConnection
    TerminalIsFinal
    ViewIsComplete
    FramesKept
    UntimedNeverStalls
SYMMETRY Symmetry
