SPECIFICATION FairSpec
CONSTANTS
    u1 = u1
    Utterances <- MCUtterances
    Lengths <- MCLengths
    Said <- MCSaid
    MinPart = 3
    Whole = 4
    MaxReads = 2
    MaxStarted = 3
    MaxTurns = 1
    MaxHeard = 2
    MaxFaults = 1
    MaxVerified = 1
INVARIANTS PackSincePurge OneSpeculation
PROPERTIES SlotsFit SpeechSettles
CHECK_DEADLOCK FALSE
