SPECIFICATION FairSpec
CONSTANTS
    site1 = site1
    site2 = site2
    upload = upload
    list = list
    Cmds <- LaneCmds
    Path <- Segments
    Mutating <- Changes
    Slots = 2
    WriteCap = 1
    MaxSess = 2
    Free = Free
CHECK_DEADLOCK FALSE
INVARIANTS TypeOK LaneExclusive SlotsAccounted
PROPERTIES  Serves
