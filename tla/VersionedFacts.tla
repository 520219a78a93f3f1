--------------------------- MODULE VersionedFacts ---------------------------
(***************************************************************************)
(* What the fact store promises (the traits Storage, FactPerspective and   *)
(* Revertable of crates/aranya-runtime/src/storage/mod.rs): every command  *)
(* has a version of the facts, a perspective starts from the version of a  *)
(* command and changes only itself, and writing it adds its versions.      *)
(***************************************************************************)
EXTENDS Naturals, Sequences

CONSTANTS Facts, Slots

VARIABLES
    versions,   \* per segment, the facts after each of its commands
    braids,     \* the facts of the braids that were written
    open,       \* a perspective is open
    base,       \* the facts that the open perspective started from
    done,       \* the facts after each command of the open perspective
    view        \* the facts that the open perspective answers with

vars == <<versions, braids, open, base, done, view>>

Closed == [f \in {} |-> "none"]

Init ==
    /\ versions = <<>> /\ braids = <<>>
    /\ open = FALSE /\ base = Closed /\ done = <<>> /\ view = Closed

Open(m) ==
    /\ ~open /\ open'
    /\ base' = m /\ view' = m /\ done' = <<>>
    /\ UNCHANGED <<versions, braids>>

Close ==
    /\ open' = FALSE /\ base' = Closed /\ view' = Closed /\ done' = <<>>

Set(f, v) ==
    /\ open /\ open'
    /\ view' = [view EXCEPT ![f] = v]
    /\ UNCHANGED <<done, base, braids, versions>>

AddCommand ==
    /\ open /\ open'
    /\ done' = Append(done, view)
    /\ UNCHANGED <<view, base, braids, versions>>

\* The view after the first i commands of the open perspective.
After(i) == IF i = 0 THEN base ELSE done[i]

Revert(i) ==
    /\ open /\ open'
    /\ done' = SubSeq(done, 1, i)
    /\ view' = After(i)
    /\ UNCHANGED <<base, braids, versions>>

\* Changes after the last command belong to no version.
Write ==
    /\ open /\ open' = FALSE
    /\ versions' = Append(versions, done)
    /\ done # <<>> /\ view = After(Len(done))
    /\ Close
    /\ UNCHANGED braids

WriteBraid ==
    /\ open /\ open' = FALSE
    /\ braids' = Append(braids, view)
    /\ done = <<>>
    /\ Close
    /\ UNCHANGED versions

Drop ==
    /\ open /\ open' = FALSE
    /\ Close
    /\ UNCHANGED <<versions, braids>>

Next ==
    \/ ~open /\ versions = <<>> /\ Open([f \in Facts |-> "none"])
    \/ ~open /\ \E s \in DOMAIN versions : \E c \in DOMAIN versions[s] : Open(versions[s][c])
    \/ ~open /\ \E b \in DOMAIN braids : Open(braids[b])
    \/ \E f \in Facts, v \in Slots : Set(f, v)
    \/ AddCommand
    \/ \E i \in 0..Len(done) : Revert(i)
    \/ Drop \/ WriteBraid \/ Write

Spec == Init /\ [][Next]_vars
=============================================================================
