------------------------------ MODULE FactStore ------------------------------
(***************************************************************************)
(* The facts of crates/aranya-runtime/src/storage/linear/mod.rs: fact      *)
(* indices that chain to a prior index and are compacted when the chain    *)
(* gets too deep, segments of commands with their updates, and the         *)
(* perspectives that are opened at a command, changed and written.         *)
(*                                                                         *)
(* A file offset is the position of an index or of a segment in its own    *)
(* sequence, 0 is the absent offset.  A fact perspective is a sequence of  *)
(* maps in front of an index: <<map>> for one whose prior is an index or   *)
(* nothing, <<map, map of the prior perspective>> otherwise.               *)
(***************************************************************************)
EXTENDS Naturals, Sequences

CONSTANTS
    Names, Keys, Values,
    MaxDepth,           \* MAX_FACT_INDEX_DEPTH
    MaxSegments, MaxBraids,
    MaxIndices,         \* indices up to which empty perspectives are written
    MaxCommands,        \* commands of a perspective
    MaxUpdates,         \* updates of a command
    RulesFail           \* rules fail after they have changed facts

ASSUME DepthAssumption == MaxDepth \in Nat /\ MaxDepth >= 2

Deleted == "deleted"    \* a tombstone
None == "none"

VARIABLES
    index,      \* FactIndexRepr
    segs,       \* SegmentRepr: offset of the facts, updates of each command
    braids,     \* offsets of the braids
    p           \* the open perspective

vars == <<index, segs, braids, p>>

NoMap == [n \in {} |-> {}]
NotOpen == [kind |-> "closed"]

\* LinearPerspective ("linear", with its commands and the current updates) or
\* LinearFactPerspective ("facts", where current only counts the changes);
\* `first` is the map that it was opened with.
Opened(kind, layers, off) ==
    [kind |-> kind, layers |-> layers, first |-> layers[1], base |-> off,
     cmds |-> <<>>, current |-> <<>>]

IsOpen == p.kind # "closed"

Init == index = <<>> /\ segs = <<>> /\ braids = <<>> /\ p = NotOpen
-----------------------------------------------------------------------------
(* Maps and the indices behind them.                                       *)

Submap(map, n) == IF n \in DOMAIN map THEN map[n] ELSE [k \in {} |-> {}]

Insert(map, n, k, slot) ==
    [m \in DOMAIN map \cup {n} |->
        IF m # n THEN map[m]
        ELSE [j \in DOMAIN Submap(map, n) \cup {k} |->
                 IF j = k THEN slot ELSE map[n][j]]]

Remove(map, n, k) ==
    IF n \notin DOMAIN map THEN map
    ELSE [map EXCEPT ![n] = [j \in DOMAIN map[n] \ {k} |-> map[n][j]]]

\* retain(|_, kv| !kv.is_empty())
NonEmpty(map) == [n \in {m \in DOMAIN map : DOMAIN map[m] # {}} |-> map[n]]

\* An update of a map; a tombstone is needed only in front of a prior.
Apply(map, hasPrior, u) ==
    IF u.slot = Deleted /\ ~hasPrior THEN Remove(map, u.name, u.key)
    ELSE Insert(map, u.name, u.key, u.slot)

\* The updates of commands, in order.
Flat(cmds) ==
    LET F[i \in 0..Len(cmds)] == IF i = 0 THEN <<>> ELSE F[i - 1] \o cmds[i]
    IN  F[Len(cmds)]

ApplyUpdates(map, hasPrior, updates) ==
    LET F[i \in 0..Len(updates)] ==
            IF i = 0 THEN map ELSE Apply(F[i - 1], hasPrior, updates[i])
    IN  F[Len(updates)]

\* The maps that a search from the index at off goes through.
Chain(ix, off) ==
    LET F[o \in 0..off] ==
            IF o = 0 THEN <<>> ELSE <<ix[o].facts>> \o F[ix[o].prior]
    IN  F[off]

Has(map, n, k) == n \in DOMAIN map /\ k \in DOMAIN map[n]

\* query: the first map that knows the key answers, also with a tombstone.
Query(maps, n, k) ==
    LET hits == {i \in DOMAIN maps : Has(maps[i], n, k)}
    IN  IF hits = {} THEN None
        ELSE LET i == CHOOSE i \in hits : \A j \in hits : i <= j
             IN  IF maps[i][n][k] = Deleted THEN None ELSE maps[i][n][k]

\* compact: the newest value of every key, without tombstones.
CompactMap(maps) ==
    LET live(n) == {k \in Keys : Query(maps, n, k) # None}
    IN  [n \in {m \in Names : live(m) # {}} |-> [k \in live(n) |-> Query(maps, n, k)]]
-----------------------------------------------------------------------------
(* write_facts                                                             *)

Entry(prior, depth, facts) == [prior |-> prior, depth |-> depth, facts |-> facts]

TooDeep(depth) == depth > MaxDepth - 1

Compacts(ix, off) == off # 0 /\ TooDeep(ix[off].depth)

\* As DepthOver, without counting the new index.
DepthOfPrior(ix, prior) == IF prior = 0 THEN 1 ELSE ix[prior].depth

DepthOver(ix, prior) == IF prior = 0 THEN 1 ELSE ix[prior].depth + 1

\* A new index in front of the one at off, which is compacted if it is too deep.
AddIndex(ix, off, map) ==
    LET ix1 == IF Compacts(ix, off)
               THEN Append(ix, Entry(0, 1, CompactMap(Chain(ix, off))))
               ELSE ix
        prior == IF Compacts(ix, off) THEN Len(ix1) ELSE off
    IN  Append(ix1, Entry(prior, DepthOver(ix1, prior), map))

\* The indices and the offset; a map without a name is its prior index.
WriteMap(ix, off, map) ==
    IF map = NoMap /\ off # 0 THEN [index |-> ix, off |-> off]
    ELSE [index |-> AddIndex(ix, off, map), off |-> Len(AddIndex(ix, off, map))]

\* write_facts: the prior perspective is written first.
WriteFacts(fp) ==
    IF Len(fp.layers) = 1 THEN WriteMap(index, fp.base, fp.layers[1])
    ELSE LET prior == WriteMap(index, fp.base, fp.layers[2])
         IN  WriteMap(prior.index, prior.off, fp.layers[1])
-----------------------------------------------------------------------------
(* Opening a perspective.                                                  *)

UpdateFree(s) == \A c \in DOMAIN segs[s].cmds : segs[s].cmds[c] = <<>>

\* The updates of the segment's commands up to c, in front of what the
\* segment started from.
SegmentBase(s) == index[segs[s].facts].prior
Replayed(s, c) ==
    ApplyUpdates(NoMap, SegmentBase(s) # 0, Flat(SubSeq(segs[s].cmds, 1, c)))

\* get_linear_perspective
LinearAt(s, c) ==
    LET map == IF SegmentBase(s) = 0 THEN NonEmpty(Replayed(s, c)) ELSE Replayed(s, c)
    IN  CASE c = Len(segs[s].cmds) -> Opened("linear", <<NoMap>>, segs[s].facts)
          [] c # Len(segs[s].cmds) /\ map = NoMap -> Opened("linear", <<NoMap>>, SegmentBase(s))
          [] OTHER -> Opened("linear", <<NoMap, map>>, SegmentBase(s))

\* As AtIndex, without the case of a segment that has no updates.
AtHead(s, c) == c = Len(segs[s].cmds)

\* The index of the segment has the facts of the command.
AtIndex(s, c) == c = Len(segs[s].cmds) \/ UpdateFree(s)

\* get_fact_perspective
FactsAt(s, c) ==
    IF AtIndex(s, c) THEN Opened("facts", <<NoMap>>, segs[s].facts)
    ELSE Opened("facts", <<Replayed(s, c)>>, SegmentBase(s))

\* The bounds: all segments and braids are written.
Finished == Len(segs) = MaxSegments /\ Len(braids) = MaxBraids

Open(fp) == ~IsOpen /\ p' = fp /\ UNCHANGED <<index, segs, braids>>

NewPerspective == segs = <<>> /\ Open(Opened("linear", <<NoMap>>, 0))

GetLinearPerspective(s, c) == ~Finished /\ Open(LinearAt(s, c))

GetFactPerspective(s, c) == Len(braids) < MaxBraids /\ Open(FactsAt(s, c))

NewMergePerspective(b) ==
    /\ Len(segs) < MaxSegments
    /\ Open(Opened("linear", <<NoMap>>, braids[b]))
-----------------------------------------------------------------------------
(* The open perspective.                                                   *)

\* The bound on segments: a perspective beyond it is opened, but not changed.
Room == p.kind = "linear" => Len(segs) < MaxSegments

HasPrior(fp) == fp.base # 0 \/ Len(fp.layers) > 1

\* insert and delete
Update(n, k, slot) ==
    /\ IsOpen
    /\ Room /\ Len(p.current) < MaxUpdates
    /\ LET u == [name |-> n, key |-> k, slot |-> slot]
       IN  p' = [p EXCEPT !.layers[1] = Apply(@, HasPrior(p), u),
                          !.current = Append(@, u)]
    /\ UNCHANGED <<index, segs, braids>>

AddCommand ==
    /\ p.kind = "linear"
    /\ Room /\ Len(p.cmds) < MaxCommands
    /\ p' = [p EXCEPT !.cmds = Append(@, p.current), !.current = <<>>]
    /\ UNCHANGED <<index, segs, braids>>

\* revert to a checkpoint that was made after i commands; it does nothing when
\* no command was added since, so Revert is for the other checkpoints.
Reverted(fp, i) ==
    IF i = Len(fp.cmds) THEN fp
    ELSE [fp EXCEPT !.cmds = SubSeq(fp.cmds, 1, i),
                    !.current = <<>>,
                    !.layers[1] = ApplyUpdates(NoMap, HasPrior(fp), Flat(SubSeq(fp.cmds, 1, i)))]

Revert(i) ==
    /\ p.kind = "linear"
    /\ i < Len(p.cmds)
    /\ p' = Reverted(p, i)
    /\ UNCHANGED <<index, segs, braids>>

\* create drops the names without facts; write keeps them.
MapsToWrite == IF segs = <<>> THEN [p EXCEPT !.layers[1] = NonEmpty(@)] ELSE p

\* write, and new_storage for the first segment.
Write ==
    /\ p.kind = "linear"
    /\ p.cmds # <<>>
    /\ RulesFail \/ p.current = <<>>
    /\ LET w == WriteFacts(MapsToWrite)
       IN  /\ index' = w.index
           /\ segs' = Append(segs, [facts |-> w.off, cmds |-> p.cmds])
    /\ p' = NotOpen
    /\ UNCHANGED braids

\* write fails on a perspective without commands after it wrote the facts.
WriteEmpty ==
    /\ p.kind = "linear"
    /\ p.cmds = <<>>
    /\ segs # <<>>
    /\ RulesFail \/ p.current = <<>>
    /\ index' = WriteFacts(p).index
    /\ Len(index') <= MaxIndices
    /\ p' = NotOpen
    /\ UNCHANGED <<segs, braids>>

\* make_braid_segment writes the facts of the braid.
WriteBraid ==
    /\ p.kind = "facts"
    /\ LET w == WriteFacts(p)
       IN  /\ index' = w.index
           /\ braids' = Append(braids, w.off)
    /\ p' = NotOpen
    /\ UNCHANGED segs

Drop == IsOpen /\ p' = NotOpen /\ UNCHANGED <<index, segs, braids>>

Terminating == Finished /\ ~IsOpen /\ UNCHANGED vars

Next ==
    \/ NewPerspective
    \/ \E s \in DOMAIN segs : \E c \in DOMAIN segs[s].cmds :
          GetLinearPerspective(s, c) \/ GetFactPerspective(s, c)
    \/ \E b \in DOMAIN braids : NewMergePerspective(b)
    \/ \E n \in Names, k \in Keys, slot \in Values \cup {Deleted} : Update(n, k, slot)
    \/ AddCommand
    \/ \E i \in 0..MaxCommands : Revert(i)
    \/ Write \/ WriteEmpty \/ WriteBraid \/ Drop
    \/ Terminating

Spec == Init /\ [][Next]_vars
-----------------------------------------------------------------------------
(* Correctness.                                                            *)

Answers(fp) ==
    LET maps == fp.layers \o Chain(index, fp.base)
    IN  [f \in Names \X Keys |-> Query(maps, f[1], f[2])]

\* The perspective as it was after its first i commands.
FirstCommands(fp, i) ==
    [fp EXCEPT !.layers[1] = ApplyUpdates(fp.first, HasPrior(fp), Flat(SubSeq(fp.cmds, 1, i)))]

NoAnswers == [f \in {} |-> None]

\* However indices are written, replayed and compacted, the depth that an
\* index records is the length of the chain that a query walks from it, so
\* write_facts' bug!("fact index too deep") is unreachable.
DepthRight ==
    \A i \in DOMAIN index :
        index[i].depth > 0 => /\ index[i].depth = Len(Chain(index, i))
                              /\ index[i].depth <= MaxDepth
=============================================================================
