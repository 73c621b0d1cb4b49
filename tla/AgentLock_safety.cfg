SPECIFICATION LiveSpec
CONSTANTS
    a = a
    b = b
    c = c
    None = None
    Process <- MCProcess
    Agent <- MCAgents
    LockPath <- MCLockPath
    Version <- MCVersion
INVARIANTS
    OneAgent
    MigratedOnce
PROPERTIES
    StartsOrFails
