SPECIFICATION FairSpec
CONSTANTS
    p111 = p111
    p222 = p222
    Users = {1111, 2221, 2222}
    Server = 1111
    Prefixes = {p111, p222}
    Prefix <- MCPrefix
    Files = {1}
    ServerFile = 3
    kMaxCacheUsers = 3
    MaxFds = 9
    AssumedFile = 4
    MaxCrashes = 2
INVARIANTS TypeOK KnowledgeIsOld
PROPERTIES SearchEnds OnlyLevelOneHolds
CHECK_DEADLOCK FALSE
