SPECIFICATION FairSpec
CONSTANTS
    UpSlots = 2
    DownSlots = 2
    MaxUp = 2
    MaxDown = 5
INVARIANTS FlowTypeOK LightLoadFlows
PROPERTIES EverythingFlows
