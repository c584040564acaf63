CONSTANTS
    Transport = {t1, t2}
    Null = Null
    MaxAttempts = 2
    QueueSize = 0
    MaxOut = 0
    MaxIn = 0
SPECIFICATION Spec
INVARIANT NeverStalled
