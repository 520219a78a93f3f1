------------------------------ MODULE MCPeerSync ------------------------------
(* Small instances of PeerSync for TLC.                                    *)
EXTENDS PeerSync

CONSTANTS a, b

MCDevices == {a, b}
=============================================================================
