CONSTANTS
    PacketQueueSize = 2
    ReportQueueSize = 1
    MaxFrames = 5
    MaxReinits = 1
    MaxCommands = 0
SPECIFICATION FairSession
\* the session stops
CHECK_DEADLOCK FALSE
INVARIANTS ContextOutlivesVideo SinkReady StaleConfigOnce
PROPERTIES SinkInOrder SessionIsEnvironment CaptureStops EndIsNoticed
