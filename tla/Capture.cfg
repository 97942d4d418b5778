CONSTANTS
    PacketQueueSize = 2
    ReportQueueSize = 1
    MaxFrames = 4
    MaxReinits = 2
    MaxCommands = 2
SPECIFICATION CaptureSpec
\* the thread stops, and nothing need be left in its environment
CHECK_DEADLOCK FALSE
INVARIANTS CaptureTypeOK BuffersBalanced PacketsInOrder
