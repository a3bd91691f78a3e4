CONSTANTS
    s1 = s1
    s2 = s2
    Subs = {s1}
    NumMsgs = 2
    MaxAttempts = 3
    QueueBound = 2
    MaxPerSub = 1
    Gated = TRUE
    Selects <- MCSelects
    Replays <- MCReplayOne
    Since <- MCSince
    Replayable <- MCAllReplayable
    MaxFaults = 1
    Words = {"a", "b"}
    Mixed = {"a*"}
    MaxTokens = 3
SPECIFICATION FairSpec
INVARIANTS
    HeldForSomething
    NoReplayGap
    ReplayingHasNoBacklog
    HistoryFirst
PROPERTIES
    PublisherAdmitted
    DeliverySettled
    
