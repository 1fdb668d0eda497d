CONSTANTS
    Capacity = 1
    Outbox = 1
    MaxControls = 4
    MaxRuns = 1
    Kinds = {"agent", "command"}
    MaxEvents = 1
    Faults = {"launch", "panic", "db", "mute", "crash"}
    MaxFaults = 2
SPECIFICATION Spec
INVARIANTS OkIsFinished
PROPERTIES RowsClose ClosedForGood LastFrameArrives
CHECK_DEADLOCK FALSE
