--------------------------- MODULE MCSegmentGraph ---------------------------
(* Small instances of SegmentGraph for TLC: short segments of commands     *)
(* with one priority, single commands with two, and segments without skip  *)
(* lists.                                                                  *)
EXTENDS SegmentGraph

MCShapes == { [priorities |-> {1}, segments |-> 5, length |-> 2, skips |-> TRUE],
              [priorities |-> {1, 2}, segments |-> 6, length |-> 1, skips |-> TRUE],
              [priorities |-> {1}, segments |-> 5, length |-> 2, skips |-> FALSE] }
=============================================================================
