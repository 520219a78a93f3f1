SPECIFICATION Spec
CONSTANTS
    Trxs = {"t1", "t2"}
    InitId = 1
    PeerIds <- MCPeerIds
    ParentsOf <- MCParentsOf
    LocalIds <- MCLocalIds
    MergeIdBase <- MCBase
    Uses <- MCUses
INVARIANT AddedHeld
INVARIANT Delivered
INVARIANT MergesIncomparable
INVARIANT CommittedOnce
INVARIANT NoBug
PROPERTY CommittedKept
