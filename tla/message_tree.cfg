SPECIFICATION Spec
CONSTANTS
    MaxId = 4
    MaxModels = 2
    MaxAsked = 2
    MaxHeld = 1
INVARIANTS TypeOK LoopsEnd
PROPERTIES TreeKept 
CHECK_DEADLOCK FALSE
