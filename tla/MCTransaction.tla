--------------------------- MODULE MCTransaction ---------------------------
(* Small instances of Transaction for TLC.  The peers have the commands    *)
(* 1 (init), 2 and 3 after it, 4 after 2, the merge of 2 and 3, and 5      *)
(* after the merge.                                                        *)
EXTENDS Transaction

MCBase == 7
MCMerge == 7 + 3 + 2
MCPeerIds == {1, 2, 3, 4, 5, MCMerge}
MCParentsOf ==
    [c \in MCPeerIds |->
        CASE c = 1 -> <<>> [] c \in {2, 3} -> <<1>> [] c = 4 -> <<2>>
          [] c = 5 -> <<MCMerge>> [] c = MCMerge -> <<2, 3>>]
MCLocalIds == {6}

\* one careful transaction after the other, and two that go on whatever happens
MCUses ==
    { [trxs |-> {"t1"}, ids |-> MCPeerIds, segments |-> 6,
       goes_on |-> FALSE, resends |-> FALSE, empty |-> FALSE],
      [trxs |-> {"t1", "t2"}, ids |-> {1, 2, 4, MCMerge}, segments |-> 4,
       goes_on |-> TRUE, resends |-> TRUE, empty |-> TRUE] }
=============================================================================
