SPECIFICATION ServerSpec
CONSTANTS
    s1111 = s1111
    c1112 = c1112
    c1113 = c1113
    c1114 = c1114
    c1115 = c1115
    c2221 = c2221
    p111 = p111
    p222 = p222
    Users <- MCUsers
    Server = s1111
    Prefixes = {p111, p222}
    Prefix <- MCPrefix
    Files = {1}
    ServerFile = 100
    kMaxCacheUsers = 3
    MaxConns = 1
    MaxFds = 3
    MaxCached = 5
SYMMETRY Symmetry
INVARIANTS ServerTypeOK QueueBounded ReplyOffersSource
PROPERTY WorkingIsKept
