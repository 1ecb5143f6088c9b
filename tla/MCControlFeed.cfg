SPECIFICATION Spec
CONSTANTS
    Ids = {s1, s2}
    NoId = none
    ChannelCap <- SmallChannels
    HistoryCap <- SmallHistory
    CallsPerRemote = 2
    Worlds = {{"sessions", "drop"}, {"sessions", "runs"}, {"runs", "drop"},
              {"log", "drop"}, {"remotes", "clear", "drop"}}
    MaxItems = 3
    MaxClears = 1
    MaxRuns = 1
    MaxDrops = 1
CHECK_DEADLOCK FALSE
ACTION_CONSTRAINT OneSpeaks
INVARIANTS
    TypeOK
    ListAgrees
    HistoryIsShown
    RowsAreReplayable
    RunsHeld
PROPERTIES
    TargetKept
    RunsEnd
