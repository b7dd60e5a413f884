\* Three handlers, two locks, two attempts each, two faults.
CONSTANTS
    Handlers = {h1, h2, h3}
    Locks = {"worker", "metrics"}
    MaxRetries = 2
    MaxFaults = 2
SPECIFICATION LockSpec
PROPERTIES Exclusive TryEnds
CHECK_DEADLOCK FALSE
