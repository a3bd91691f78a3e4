CONSTANTS
    s1 = s1
    s2 = s2
    Subs = {s1}
    NumMsgs = 3
    MaxAttempts = 3
    QueueBound = 1
    MaxPerSub = 1
    Gated = TRUE
    Selects <- MCSelects
    Replays <- MCNoReplay
    Since <- MCSince
    Replayable <- MCAllReplayable
    MaxFaults = 0
    Words = {"a", "b"}
    Mixed = {"a*"}
    MaxTokens = 3
SPECIFICATION FairSpec
PROPERTIES
    GateReopens
