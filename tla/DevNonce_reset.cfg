SPECIFICATION Spec
CONSTANTS
    Range16 = 8
    MaxResets = 1
    MaxLost = 0
    MaxSets = 0
    None = None
PROPERTY NonceUsedOnce
