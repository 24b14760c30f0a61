SPECIFICATION FeedSpec
CONSTANTS
    c1 = c1
    c2 = c2
    t = t
    s1 = s1
    s2 = s2
    Channels <- TwoChannels
    Threads <- OneThread
    PageSize = 2
    Nowhere = Nowhere
    Slots <- TwoSlots
    Existing = 2
    MaxMessages = 3
    MaxEdits = 1
    MaxMoves = 2
SYMMETRY Alike
INVARIANTS FeedTypeOK NothingTwice 
CHECK_DEADLOCK FALSE
