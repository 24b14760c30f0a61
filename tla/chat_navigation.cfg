SPECIFICATION Spec
CONSTANTS
    c1 = c1
    c2 = c2
    c3 = c3
    s1 = s1
    s2 = s2
    s3 = s3
    Chats <- AllChats
    Stored <- TwoStored
    None = None
    Slots <- ThreeSlots
    MaxMoves = 2
SYMMETRY Alike
INVARIANTS TypeOK  AnswersGoHome 
CHECK_DEADLOCK FALSE
