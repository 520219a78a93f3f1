----------------------------- MODULE MemoryFacts -----------------------------
(***************************************************************************)
(* The facts of crates/aranya-runtime/src/storage/memory.rs: the interface *)
(* of FactStore with other means.  An index is a shared value behind an    *)
(* Arc, here a position of `index'; chains are never compacted, and a      *)
(* tombstone is always written.  A client works with one of the two        *)
(* providers, whichever it was built with.                                 *)
(***************************************************************************)
EXTENDS FactStore

VARIABLE provider

provider_vars == <<vars, provider>>
-----------------------------------------------------------------------------
(* MemFactPerspective                                                      *)

MemApply(map, u) == Insert(map, u.name, u.key, u.slot)

MemApplyUpdates(map, updates) ==
    LET F[i \in 0..Len(updates)] == IF i = 0 THEN map ELSE MemApply(F[i - 1], updates[i])
    IN  F[Len(updates)]

\* The index and its position; an Arc that nobody holds on to is gone.
MemWriteMap(ix, off, map) ==
    IF map = NoMap /\ off # 0 THEN [index |-> ix, off |-> off]
    ELSE [index |-> Append(ix, Entry(off, 0, map)), off |-> Len(ix) + 1]

MemWriteFacts(fp) ==
    IF Len(fp.layers) = 1 THEN MemWriteMap(index, fp.base, fp.layers[1])
    ELSE LET prior == MemWriteMap(index, fp.base, fp.layers[2])
         IN  MemWriteMap(prior.index, prior.off, fp.layers[1])
-----------------------------------------------------------------------------
(* MemStorage                                                              *)

MemReplayed(s, c) == MemApplyUpdates(NoMap, Flat(SubSeq(segs[s].cmds, 1, c)))

MemLinearAt(s, c) ==
    IF c = Len(segs[s].cmds) THEN Opened("linear", <<NoMap>>, segs[s].facts)
    ELSE Opened("linear", IF MemReplayed(s, c) = NoMap THEN <<NoMap>> ELSE <<NoMap, MemReplayed(s, c)>>,
                SegmentBase(s))

MemFactsAt(s, c) ==
    IF AtIndex(s, c) THEN Opened("facts", <<NoMap>>, segs[s].facts)
    ELSE Opened("facts", <<MemReplayed(s, c)>>, SegmentBase(s))

MemGetLinearPerspective(s, c) == ~Finished /\ Open(MemLinearAt(s, c))

MemGetFactPerspective(s, c) == Len(braids) < MaxBraids /\ Open(MemFactsAt(s, c))

MemUpdate(n, k, slot) ==
    /\ IsOpen
    /\ Room /\ Len(p.current) < MaxUpdates
    /\ LET u == [name |-> n, key |-> k, slot |-> slot]
       IN  p' = [p EXCEPT !.layers[1] = MemApply(@, u), !.current = Append(@, u)]
    /\ UNCHANGED <<index, segs, braids>>

MemReverted(fp, i) ==
    IF i = Len(fp.cmds) THEN fp
    ELSE [fp EXCEPT !.cmds = SubSeq(fp.cmds, 1, i),
                    !.current = <<>>,
                    !.layers[1] = MemApplyUpdates(NoMap, Flat(SubSeq(fp.cmds, 1, i)))]

MemRevert(i) ==
    /\ p.kind = "linear"
    /\ i < Len(p.cmds)
    /\ p' = MemReverted(p, i)
    /\ UNCHANGED <<index, segs, braids>>

\* A perspective without commands is refused, and its facts are dropped.
MemWrite ==
    /\ p.kind = "linear"
    /\ RulesFail \/ p.current = <<>>
    /\ LET w == MemWriteFacts(p)
       IN  IF p.cmds = <<>> THEN UNCHANGED <<index, segs>>
           ELSE index' = w.index /\ segs' = Append(segs, [facts |-> w.off, cmds |-> p.cmds])
    /\ p' = NotOpen
    /\ UNCHANGED braids

MemWriteBraid ==
    /\ p.kind = "facts"
    /\ LET w == MemWriteFacts(p)
       IN  index' = w.index /\ braids' = Append(braids, w.off)
    /\ p' = NotOpen
    /\ UNCHANGED segs

MemNext ==
    \/ NewPerspective
    \/ \E s \in DOMAIN segs : \E c \in DOMAIN segs[s].cmds :
          MemGetLinearPerspective(s, c) \/ MemGetFactPerspective(s, c)
    \/ \E b \in DOMAIN braids : NewMergePerspective(b)
    \/ \E n \in Names, k \in Keys, slot \in Values \cup {Deleted} : MemUpdate(n, k, slot)
    \/ AddCommand
    \/ \E i \in 0..MaxCommands : MemRevert(i)
    \/ MemWrite \/ MemWriteBraid \/ Drop
    \/ Terminating
-----------------------------------------------------------------------------
(* Correctness.                                                            *)

IsMemory == provider = "memory"

MemFirstCommands(fp, i) ==
    [fp EXCEPT !.layers[1] = MemApplyUpdates(fp.first, Flat(SubSeq(fp.cmds, 1, i)))]

VersionAt(s, c) == IF IsMemory THEN Answers(MemFactsAt(s, c)) ELSE Answers(FactsAt(s, c))

AfterCommands(i) ==
    IF IsMemory THEN Answers(MemFirstCommands(p, i)) ELSE Answers(FirstCommands(p, i))

\* The mapping to the abstract store.
Store == INSTANCE VersionedFacts WITH
    Facts <- Names \X Keys,
    Slots <- Values \cup {None},
    versions <- [s \in DOMAIN segs |-> [c \in DOMAIN segs[s].cmds |-> VersionAt(s, c)]],
    braids <- [b \in DOMAIN braids |-> Answers(Opened("facts", <<NoMap>>, braids[b]))],
    open <- IsOpen,
    base <- IF IsOpen THEN AfterCommands(0) ELSE NoAnswers,
    done <- IF IsOpen THEN [i \in DOMAIN p.cmds |-> AfterCommands(i)] ELSE <<>>,
    view <- IF IsOpen THEN Answers(p) ELSE NoAnswers

\* get_linear_perspective opens at a command of a segment without updates, but not
\* at its last one, and starts from the index before that of the segment.
OpensEarly ==
    \E s \in DOMAIN segs :
        /\ UpdateFree(s) /\ Len(segs[s].cmds) > 1
        /\ Store!Open(Answers(Opened("linear", <<NoMap>>, SegmentBase(s))))

\* Whatever was compacted, replayed, reverted or written, and with either
\* provider: a query answers with the facts of the command that the
\* perspective was opened at and the changes made through it since,
\* get_fact_perspective gives every command its own facts for good, and
\* perspectives do not disturb each other.  There is one exception, the opening
\* of OpensEarly, after which everything else goes on to hold.  Perspectives are
\* written without the changes of a rule that failed (RulesFail is FALSE).
FactsRefinement == Store!Init /\ [][Store!Next \/ OpensEarly]_(Store!vars)

\* Revertable: "Revert the perspective to the state it was at when the
\* checkpoint was created."
RevertRestores ==
    p.kind = "linear" =>
        \A i \in 0..Len(p.cmds) :
            Answers(IF IsMemory THEN MemReverted(p, i) ELSE Reverted(p, i)) = AfterCommands(i)
=============================================================================
