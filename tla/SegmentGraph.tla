---------------------------- MODULE SegmentGraph ----------------------------
(***************************************************************************)
(* The command graph of crates/aranya-runtime: segments of commands and    *)
(* their skip lists (storage/linear/mod.rs; those of storage/memory.rs     *)
(* have none), the searches through them (get_location_from and            *)
(* is_ancestor of storage/mod.rs), and the last common ancestor and the    *)
(* braid of two commands (client.rs).                                      *)
(*                                                                         *)
(* A location is <<segment, command>>, with commands counted from 0.  The  *)
(* key of a command is <<priority, id>>; 0 is the priority of merges.  Ids  *)
(* are in the order of creation: the priorities make every other order.    *)
(***************************************************************************)
EXTENDS Naturals, Sequences, FiniteSets

\* The shapes of the graphs to look at, each [priorities, segments, length, skips]: the
\* priorities of the commands that are not merges, how many segments there may be, of how
\* many commands, and whether the storage keeps skip lists, as linear storage does.
CONSTANT Shapes

ASSUME ShapesAssumption ==
    \A sh \in Shapes : /\ sh.priorities \subseteq Nat \ {0} /\ sh.skips \in BOOLEAN
                        /\ sh.segments \in Nat /\ sh.length \in Nat

VARIABLES
    segs,   \* SegmentRepr: prior locations, keys of the commands, max cut, skip list
    head,   \* location of the committed head
    shape   \* the shape of this graph

vars == <<segs, head, shape>>

Locations == UNION {{s} \X (0..(Len(segs[s].cmds) - 1)) : s \in DOMAIN segs}
HeadOf(s) == <<s, Len(segs[s].cmds) - 1>>
FirstOf(s) == <<s, 0>>
Key(loc) == segs[loc[1]].cmds[loc[2] + 1]
MaxCut(loc) == segs[loc[1]].maxCut + loc[2]
LongestMaxCut(s) == MaxCut(HeadOf(s))
IsMerge(s) == Len(segs[s].prior) = 2

Less(a, b) == a[1] < b[1] \/ (a[1] = b[1] /\ a[2] < b[2])

\* The prior of the command at loc.
Prior(loc) ==
    IF loc[2] > 0 THEN <<<<loc[1], loc[2] - 1>>>> ELSE segs[loc[1]].prior

\* The first entry of the skip list with one of these max cuts, as a sequence
\* of at most one element.
FirstSkip(s, maxCuts) ==
    LET hits == {k \in DOMAIN segs[s].skips : segs[s].skips[k].maxCut \in maxCuts}
    IN  IF hits = {} THEN <<>>
        ELSE <<segs[s].skips[CHOOSE k \in hits : \A j \in hits : k <= j].loc>>

\* get_skip does not go through a merge into one of its branches.
NoWayOn(s) == Len(segs[s].prior) # 1

\* get_skip: the first command of the segment that a walk towards max_cut
\* stops at; current is the one passed last.
RECURSIVE GetSkip(_, _, _)
GetSkip(s, maxCut, current) ==
    LET here == [loc |-> FirstOf(s), maxCut |-> segs[s].maxCut]
        jump == FirstSkip(s, 0..maxCut)
    IN  CASE maxCut > LongestMaxCut(s) -> current
          [] maxCut <= LongestMaxCut(s) /\ maxCut >= segs[s].maxCut -> here
          [] maxCut < segs[s].maxCut /\ jump # <<>> -> GetSkip(jump[1][1], maxCut, here)
          [] OTHER -> IF NoWayOn(s) THEN here ELSE GetSkip(segs[s].prior[1][1], maxCut, here)

\* The results of get_skips(loc, count), a draw for each count.
SkipSets(loc, count) ==
    IF MaxCut(loc) = 0 THEN {{}}
    ELSE LET results == {GetSkip(loc[1], m, <<>>) : m \in 0..(MaxCut(loc) - 1)}
         IN  {S \in SUBSET results : Cardinality(S) \in 1..count}

\* What write draws; memory storage keeps no skip lists.
Draws(loc, count) == IF shape.skips THEN SkipSets(loc, count) ELSE {{}}

\* skips.sort()
Sorted(S) ==
    CHOOSE q \in [1..Cardinality(S) -> S] :
        \A i, j \in DOMAIN q : i < j => Less(q[i].loc, q[j].loc)
-----------------------------------------------------------------------------
(* Searches.  The queue is a stack; its last element is popped.            *)

\* As TooNew, off by one.
TooNewEqual(maxCut, s) == maxCut >= LongestMaxCut(s)

TooNew(maxCut, s) == maxCut > LongestMaxCut(s)

\* As Onward, with the first skip wherever it goes.
OnwardFirstSkip(s, maxCut) ==
    IF segs[s].skips # <<>> THEN <<segs[s].skips[1].loc>> ELSE segs[s].prior

\* A skip that does not go past maxCut, or the prior.
Onward(s, maxCut) ==
    LET jump == FirstSkip(s, maxCut..LongestMaxCut(s))
    IN  IF jump # <<>> THEN jump ELSE segs[s].prior

AtOrAfter(loc, x) == loc[1] = x[1] /\ loc[2] >= x[2]

\* is_ancestor, from a queue.
RECURSIVE IsAncestorFrom(_, _)
IsAncestorFrom(queue, x) ==
    /\ queue # <<>>
    /\ LET loc == queue[Len(queue)]
           rest == SubSeq(queue, 1, Len(queue) - 1)
       IN  \/ AtOrAfter(loc, x)
           \/ /\ ~AtOrAfter(loc, x)
              /\ IsAncestorFrom(IF TooNew(MaxCut(x), loc[1]) THEN rest
                                ELSE rest \o Onward(loc[1], MaxCut(x)), x)

IsAncestor(x, s) == IsAncestorFrom(segs[s].prior, x)

\* get_location_from, from a queue: the location of the command with this key
\* and max cut, as a sequence of at most one element.
RECURSIVE GetLocationFrom(_, _, _)
GetLocationFrom(queue, key, maxCut) ==
    IF queue = <<>> THEN <<>>
    ELSE LET s == queue[Len(queue)][1]
             rest == SubSeq(queue, 1, Len(queue) - 1)
             loc == <<s, maxCut - segs[s].maxCut>>
         IN  CASE TooNew(maxCut, s) -> GetLocationFrom(rest, key, maxCut)
               [] ~TooNew(maxCut, s) /\ maxCut >= segs[s].maxCut /\ Key(loc) = key -> <<loc>>
               [] OTHER -> GetLocationFrom(rest \o Onward(s, maxCut), key, maxCut)
-----------------------------------------------------------------------------
(* The last common ancestor and the braid.                                 *)

\* As Back, into the left branch of a merge.
BackLeft(loc) == IF Prior(loc) = <<>> THEN loc ELSE Prior(loc)[1]

\* A merge without a skip list: any result does, nobody uses it.
NoSkipBack(loc) == Len(Prior(loc)) = 2 /\ segs[loc[1]].skips = <<>>

\* Where the search for the last common ancestor goes from loc.
Back(loc) ==
    CASE Prior(loc) = <<>> -> loc
      [] Len(Prior(loc)) = 1 -> Prior(loc)[1]
      [] Len(Prior(loc)) = 2 -> segs[loc[1]].skips[Len(segs[loc[1]].skips)].loc

RECURSIVE LastCommonAncestor(_, _)
LastCommonAncestor(left, right) ==
    IF left = right THEN left
    ELSE IF MaxCut(left) > MaxCut(right)
         THEN IF NoSkipBack(left) THEN left ELSE LastCommonAncestor(Back(left), right)
         ELSE IF NoSkipBack(right) THEN right ELSE LastCommonAncestor(left, Back(right))

\* As Accessible, only in the same segment.
AccessibleInSegment(loc, other) == AtOrAfter(other, loc)

\* The command at loc is reached from the strand at other.
Accessible(loc, other) ==
    AtOrAfter(other, loc) \/ IsAncestor(loc, other[1])

\* The strands after the locations of prior, those that are not accessible
\* from another strand.
RECURSIVE Continue(_, _)
Continue(strands, prior) ==
    IF prior = <<>> THEN strands
    ELSE Continue(IF \E o \in strands : Accessible(prior[1], o) THEN strands
                  ELSE strands \cup {prior[1]}, Tail(prior))

\* braid, from the strands and the commands that follow.
RECURSIVE BraidFrom(_, _)
BraidFrom(strands, after) ==
    LET s == CHOOSE s \in strands : \A t \in strands \ {s} : Less(Key(s), Key(t))
        braid == IF Len(Prior(s)) = 2 THEN after ELSE <<s>> \o after
        next == Continue(strands \ {s}, Prior(s))
    IN  CASE next = {} -> braid
          [] Cardinality(next) = 1 -> <<CHOOSE t \in next : TRUE>> \o braid
          [] OTHER -> BraidFrom(next, braid)

Braid(left, right) == BraidFrom({left, right}, <<>>)
-----------------------------------------------------------------------------
(* Writing and committing segments.                                        *)

\* Keys of n commands, the first of them a merge or not, after count others.
NewCommands(n, merge, count) ==
    {[i \in 1..n |-> <<IF merge /\ i = 1 THEN 0 ELSE prio[i], count + i>>] :
        prio \in [1..n -> shape.priorities]}

\* The commands before x, on any way.
RECURSIVE Ancestors(_)
Ancestors(x) == UNION {{q} \cup Ancestors(q) : q \in {Prior(x)[i] : i \in DOMAIN Prior(x)}}

Init ==
    /\ shape \in Shapes
    /\ \E n \in 1..shape.length : \E cmds \in NewCommands(n, FALSE, 0) :
          /\ segs = <<[prior |-> <<>>, cmds |-> cmds, maxCut |-> 0, skips |-> <<>>]>>
          /\ head = <<1, n - 1>>

WriteSegment(prior, cmds, maxCut, skips) ==
    /\ segs' = Append(segs, [prior |-> prior, cmds |-> cmds, maxCut |-> maxCut,
                             skips |-> Sorted(skips)])
    /\ UNCHANGED <<head, shape>>

\* write of a linear perspective at loc.
WriteLinear(loc, n) ==
    /\ Len(segs) < shape.segments
    /\ \E cmds \in NewCommands(n, FALSE, Cardinality(Locations)), skips \in Draws(loc, 3) :
          WriteSegment(<<loc>>, cmds, MaxCut(loc) + 1, skips)

MergeMaxCut(left, right) ==
    (IF MaxCut(left) > MaxCut(right) THEN MaxCut(left) ELSE MaxCut(right)) + 1

\* write of a merge perspective at two commands, neither of them an ancestor
\* of the other, the one with the lower id on the left.
WriteMerge(left, right, n) ==
    /\ Len(segs) < shape.segments
    /\ Key(left)[2] < Key(right)[2]
    /\ left \notin Ancestors(right) /\ right \notin Ancestors(left)
    /\ LET lca == LastCommonAncestor(left, right)
       IN  \E cmds \in NewCommands(n, TRUE, Cardinality(Locations)), skips \in Draws(lca, 2) :
              WriteSegment(<<left, right>>, cmds, MergeMaxCut(left, right),
                           skips \cup {s \in {[loc |-> lca, maxCut |-> MaxCut(lca)]} : shape.skips})

Commit(s) ==
    /\ IsAncestor(head, s)
    /\ head' = HeadOf(s)
    /\ UNCHANGED <<segs, shape>>

Terminating == Len(segs) = shape.segments /\ UNCHANGED vars

Next ==
    \/ \E n \in 1..shape.length :
          \/ \E loc \in Locations : WriteLinear(loc, n)
          \/ \E left, right \in Locations : WriteMerge(left, right, n)
    \/ \E s \in DOMAIN segs : Commit(s)
    \/ Terminating

Spec == Init /\ [][Next]_vars
-----------------------------------------------------------------------------
(* Correctness.  Segments are only appended, so the invariants look at the *)
(* last one; commits change no segment, so it is enough to look before the *)
(* first commit.                                                           *)

LastSeg == Len(segs)
Uncommitted == head[1] = 1
Reachable(x, y) == x = y \/ x \in Ancestors(y)

\* is_ancestor, that jumps over skip lists drawn at random, finds exactly the
\* commands from which the segment can be reached.
AncestorsExact ==
    LET ancestors == Ancestors(FirstOf(LastSeg))
    IN  Uncommitted => \A x \in Locations : IsAncestor(x, LastSeg) <=> x \in ancestors

\* get_location_from finds every command that the start of the search has
\* among its ancestors, at its own location.
LocationFound ==
    LET start == HeadOf(LastSeg)
    IN  Uncommitted => \A x \in {start} \cup Ancestors(start) :
            GetLocationFrom(<<start>>, Key(x), MaxCut(x)) = <<x>>

\* Segment::skip_list: one may jump to a skip whose max cut is not below that
\* of the command one looks for "and be guaranteed not to miss the location";
\* "for merge commands the last location in the skip list is the least common
\* ancestor", which dominates both branches.
SkipsSafe ==
    LET skips == segs[LastSeg].skips
        ancestors == Ancestors(FirstOf(LastSeg))
    IN  /\ \A k \in DOMAIN skips : \A x \in ancestors :
              MaxCut(x) <= skips[k].maxCut => Reachable(x, skips[k].loc)
        /\ IsMerge(LastSeg) /\ shape.skips =>
              skips[Len(skips)].loc = LastCommonAncestor(segs[LastSeg].prior[1], segs[LastSeg].prior[2])

\* The braid by the commands alone, whatever the segments: from the end, the
\* command with the least key of those that no remaining command follows,
\* until a single one is left, without the merge commands.
RECURSIVE BraidOf(_, _, _)
BraidOf(before, rest, after) ==
    LET ends == {x \in rest : \A y \in rest : x \notin before[y]}
        last == CHOOSE x \in ends : \A y \in ends \ {x} : Less(Key(x), Key(y))
    IN  IF Cardinality(ends) = 1 THEN <<last>> \o after
        ELSE BraidOf(before, rest \ {last},
                     IF Len(Prior(last)) = 2 THEN after ELSE <<last>> \o after)

\* braid orders the commands of two branches in the same way on every device:
\* the order follows from the commands, not from how they are cut into
\* segments, which skips were drawn or which side is on the left.
BraidDeterministic ==
    Uncommitted => \A before \in {[x \in Locations |-> Ancestors(x)]} :
        \A left \in Locations, right \in {LastSeg} \X (0..(Len(segs[LastSeg].cmds) - 1)) :
            left \notin before[right] \cup {right} /\ right \notin before[left] =>
                Braid(left, right) =
                    BraidOf(before, {left, right} \cup before[left] \cup before[right], <<>>)

=============================================================================
