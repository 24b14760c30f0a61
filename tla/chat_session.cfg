SPECIFICATION Spec
CONSTANTS
    t1 = t1
    t2 = t2
    a = a
    b = b
    Tabs <- TwoTabs
    Rounds <- OneRound
    MaxSaves = 1
    MaxOpens = 2
SYMMETRY Alike
INVARIANTS TypeOK AnswerKept NoStubs
CHECK_DEADLOCK FALSE
