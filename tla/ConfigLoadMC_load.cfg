CONSTANTS
    NULL = NULL
    Garbage = Garbage
    ModuleFiles <- MCModuleFiles
    Files <- MCFiles
    Symbols <- MCSymbols
    Paths <- MCPaths
    Directories <- MCDirectories
    Addresses <- MCAddresses
    Patterns <- MCPatterns
    Letters <- MCLetters
    Folded <- MCFolded
    UINT = 262144
    USHRT_MAX = 65535
    MaxLoads = 2
SPECIFICATION Spec
INVARIANTS
    TypeOK
    AcceptedIffValid
    SettingsAsWritten
    HooksInOrder
    MemoryAccounted
    LogAsConfigured
\* A process that has stopped, or has made its last load.
CHECK_DEADLOCK FALSE
