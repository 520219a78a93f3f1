--------------------------- MODULE MCShmChannels ---------------------------
(* Small instances of ShmChannels for TLC.                                 *)
EXTENDS ShmChannels, TLC

CONSTANTS c1, c2, c3, r1

MCIds == {c1, c2, c3}
MCTwoIds == {c1, c2}
MCOneReader == {r1}
MCIdSymmetry == Permutations(MCIds)
MCTwoIdSymmetry == Permutations(MCTwoIds)
=============================================================================
