----------------------------- MODULE SessionView -----------------------------
(***************************************************************************)
(* What an ephemeral session promises of its facts: a view that changes    *)
(* one fact at a time and can be taken back to any earlier point, and      *)
(* queries that answer with the facts of the moment they were asked, in    *)
(* the order of their keys, whatever becomes of the session meanwhile.     *)
(***************************************************************************)
EXTENDS Naturals, Sequences

CONSTANTS Names, Prefixes,
          Facts,            \* pairs of a name and a key
          Slots, Absent,    \* values, and that of a fact there is not
          Matching(_, _),   \* the facts of a name and a prefix, in order
          NoItem            \* the end of a query, or no answer

VARIABLES marks,    \* the view at first and after each change
          results,  \* what each open query has still to answer
          got       \* the last answer

view == marks[Len(marks)]
vars == <<marks, results, got>>

Init == marks \in {<<v>> : v \in [Facts -> Slots]} /\ results = <<>> /\ got = NoItem

Set ==
    /\ got' = NoItem /\ UNCHANGED results
    /\ marks' \in {Append(marks, [view EXCEPT ![f] = slot]) : f \in Facts, slot \in Slots}

Restore ==
    /\ got' = NoItem /\ UNCHANGED results
    /\ marks' \in {SubSeq(marks, 1, i) : i \in DOMAIN marks}

AnswersTo(n, prefix) ==
    LET live == SelectSeq(Matching(n, prefix), LAMBDA f : view[f] # Absent)
    IN  [i \in DOMAIN live |-> <<live[i][2], view[live[i]]>>]

Ask ==
    /\ got' = NoItem
    /\ results' \in {Append(results, AnswersTo(n, prefix)) : n \in Names, prefix \in Prefixes}
    /\ UNCHANGED marks

Answer(q) ==
    /\ IF results[q] = <<>> THEN got' = NoItem /\ UNCHANGED results
       ELSE got' = Head(results[q]) /\ results' = [results EXCEPT ![q] = Tail(@)]
    /\ UNCHANGED marks

Close ==
    /\ got' = NoItem /\ UNCHANGED marks
    /\ results' = SubSeq(results, 1, Len(results) - 1)

Next ==
    \/ results # <<>> /\ Close
    \/ \E q \in DOMAIN results : Answer(q)
    \/ Restore \/ Set \/ Ask

Spec == Init /\ [][Next]_vars
=============================================================================
