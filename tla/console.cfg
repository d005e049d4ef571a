\* One console: connections break, frames are missed, the SIEM restarts, the
\* session is revoked.
SPECIFICATION FairSpec
CONSTANTS
    w1 = w1  w2 = w2  s1 = s1  s2 = s2  p1 = p1
    Workers = {w1}
    Socks = {s1, s2}
    Polls = {p1}
    OldAlerts = 1
    NumAlerts = 2
    Verdicts = {"resolved"}
    BufferSize = 2
    MaxConnections = 2
    FeedMax = 2
    PollLimit = 1
    Stamps = {1, 2}
    Now = 2
    Cases = {2}
    MaxEvents = 1
    MaxTriage = 1
    Trouble = {"miss", "drop", "restart", "revoke", "full"}
    MaxTrouble = 1
PROPERTIES Settles NewIsAnnounced Reconnects
INVARIANTS AnnouncedOnce NothingSkipped
CHECK_DEADLOCK FALSE
