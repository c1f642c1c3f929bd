SPECIFICATION Spec
CONSTANTS
    Entries = {"e1", "e2"}
    Passes = {1, 2}
    NoEntry = NoEntry
    maxRetries = 2
    baseDelayMs = 1
    maxDelayMs = 2
    maxAgeMs = 0
    MaxTime = 3
    Nonces <- MCNonces
    Keys = {"k1"}
    Payloads = {"p1", "p2"}
    gatewayId = "g1"
    maxHops = 2
    maxPayloadBytes = 2
    MAX_BODY_BYTES = 3
    skew = 0
    nonceTtl = 1
    responseTtl = 1
    EnvelopesOf <- MCEnvelopesOf
    drift = 0
    MaxEnqueue = 0
    MaxFaults = 1
INVARIANTS
    AcceptedOnce
    AttemptsCounted
PROPERTIES
    BackoffIsKept
    EveryEntrySettles
CHECK_DEADLOCK FALSE
