SPECIFICATION ServicesSpec
CONSTANTS
    Base = 2
    Conversations <- MCConversations
    BufferSize = 3
    MaxNops = 1
    Servers <- MCServers
    CodecJobs <- MCJobs
    TokenUsers = {t1, t2, t3}
    MaxTokens = 2
    HandledSecurityCodes = {"Unauthorized", "TokenExpired"}
    SecurityCodes = {"Unauthorized", "Forbidden"}
    CacheUsers <- MCCallers
    CacheDatabases = {"d1", "d2"}
    MaxCacheSize = 2
    PruneFactor = 1
    MaxClock = 2
    KeyIds = {"k1", "k2"}
    KeyAliases = {"a"}
    KeyCallers = {c1, c2}
    KeyCacheTTL = 1
    KeyCacheSize = 1
    KeyAliasIndexTTL = 1
    KeyAliasIndexSize = 1
    StoredKeys <- MCStoredKeys
    MaxKeyCalls = 3
    MaxKeyTime = 3
INVARIANTS MessagesIntact BestCommonVersion  ChangedKeysNoticed
PROPERTIES WireSettles RejectedTokenReplaced CacheKeepsLatest
CHECK_DEADLOCK FALSE
