SPECIFICATION FairLinkSpec
CONSTANTS
    MaxReads = 2
    MaxErrors = 3
    WaitMax = 4
    MaxOffers = 3
    MaxSaid = 2
    Parts <- TwoParts
INVARIANTS LinkIsSound
PROPERTIES AnswerMatches LinkServes
CHECK_DEADLOCK FALSE
