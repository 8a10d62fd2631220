SPECIFICATION Spec
CONSTANTS
    Threads = {t1, t2}
    MaxProviders = 2
INVARIANTS
    NoSilentMemory
    NoFalseAlarm
    OneProvider
