SPECIFICATION Spec
CONSTANTS
    a = a
    b = b
    Devices <- MCDevices
    Founder = a
    MaxCommands = 3
    MaxLength = 1
    PeerHeadMax = 2
    SampleMax = 4
    ResponseMax = 2
    SegmentBufferMax = 20
    Subscriptions = FALSE
INVARIANT PollsProgress
