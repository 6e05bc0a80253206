CONSTANTS
    x1 = x1
    Trap = {x1}
    MaxSignals = 2
SPECIFICATION FairSpec
INVARIANTS TypeOK BusyAlone UndoWhole
PROPERTIES StartsNothing MadeIsArmed Stops ParkEnds IntStops
CHECK_DEADLOCK FALSE
