SPECIFICATION Spec
CONSTANTS
    a = a
    b = b
    Devices <- MCDevices
    Founder = a
    MaxCommands = 3
    MaxLength = 2
    PeerHeadMax = 2
    SampleMax = 4
    ResponseMax = 3
    SegmentBufferMax = 20
    Subscriptions = TRUE
INVARIANT TypeOK
INVARIANT AncestorsFirst
INVARIANT HeadsLocated
INVARIANT OnePollSuffices
