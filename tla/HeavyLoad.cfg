SPECIFICATION FairSpec
CONSTANTS
    UpSlots = 2
    DownSlots = 2
    MaxUp = 4
    MaxDown = 4
PROPERTIES EverythingFlows
CHECK_DEADLOCK FALSE
