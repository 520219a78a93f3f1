----------------------------- MODULE Transaction -----------------------------
(***************************************************************************)
(* The client of crates/aranya-runtime (client.rs, client/transaction.rs): *)
(* commands of a peer are added to transactions, actions add commands at   *)
(* the head, and committing a transaction merges its heads with the head   *)
(* of the graph.                                                           *)
(*                                                                         *)
(* A command is its id.  A location is <<segment, command>>, commands      *)
(* counted from 1, and NoLoc is the head of a graph that does not exist.   *)
(* Searches are by reachability (SegmentGraph shows that they are), and    *)
(* policies and facts are abstracted to rules that succeed or fail.        *)
(***************************************************************************)
EXTENDS Naturals, Sequences, FiniteSets

CONSTANTS
    Trxs,
    InitId,         \* the init command; it is the id of the graph
    PeerIds,        \* the commands that the peers send
    ParentsOf,      \* their parents
    LocalIds,       \* the commands of actions
    MergeIdBase,    \* merge commands have larger ids
    Uses            \* the ways to use the client that are looked at

\* A use is [trxs, ids, segments, goes_on, resends, empty]: the transactions that are
\* open at a time, the commands the peers send, how many segments are written, whether
\* transactions are used on after an error, are given a command more than once, and
\* whether actions may publish nothing.

NoId == 0
NoLoc == <<0, 0>>
NoTrx == "none"
NoPersp == [prior |-> <<>>, cmds |-> <<>>, open |-> FALSE]

\* The id that Policy::merge gives to the merge of two commands.
MergeId(a, b) ==
    LET hi == IF a > b THEN a ELSE b
        lo == IF a > b THEN b ELSE a
    IN  MergeIdBase + (hi * (hi - 1)) \div 2 + lo

\* An id stands for its command, so the merge of two commands has the same one
\* wherever it is made, and other commands have none of these.
ASSUME IdsAssumption ==
    /\ MergeIdBase \in Nat
    /\ PeerIds \subseteq Nat \ {NoId} /\ LocalIds \subseteq (1..MergeIdBase) \ PeerIds
    /\ ParentsOf \in [PeerIds -> Seq(Nat \ {NoId})]
    /\ InitId \in PeerIds /\ ParentsOf[InitId] = <<>>
    /\ \A c \in PeerIds :
         IF Len(ParentsOf[c]) = 2 THEN c = MergeId(ParentsOf[c][1], ParentsOf[c][2])
         ELSE c <= MergeIdBase
    /\ NoTrx \notin Trxs
    /\ \A u \in Uses : u.trxs \subseteq Trxs /\ u.ids \subseteq PeerIds


VARIABLES
    segs,       \* written segments: prior locations and commands
    head,       \* location of the committed head
    trx,        \* Transaction: perspective, phead, heads, and what was added to it
    busy,       \* the transaction that is in commit
    queue,      \* heads that commit has still to merge
    merging,    \* merging_head of commit
    sink,       \* "closed", or "begun" and neither committed nor rolled back
    result,     \* of the last call
    delivered,  \* commands of the transactions that were committed
    use         \* the use that is made of the client; it does not change

vars == <<segs, head, trx, busy, queue, merging, sink, result, delivered, use>>

Exists == head # NoLoc

NewTrx == [persp |-> NoPersp, phead |-> NoId, heads |-> {}, added |-> {}]

Locs(sg) == UNION {{s} \X DOMAIN sg[s].cmds : s \in DOMAIN sg}

HeadOf(sg, s) == <<s, Len(sg[s].cmds)>>

Id(sg, loc) == sg[loc[1]].cmds[loc[2]]

\* The locations of the commands before each segment, on any way.
Earlier(sg) ==
    LET Before[s \in 0..Len(sg)] ==
            IF s = 0 THEN {}
            ELSE UNION {Before[q[1]] \cup ({q[1]} \X (1..q[2])) :
                           q \in {sg[s].prior[i] : i \in DOMAIN sg[s].prior}}
    IN  Before

\* The locations of the commands up to loc.
UpTo(sg, loc) == Earlier(sg)[loc[1]] \cup ({loc[1]} \X (1..loc[2]))

Before(sg, loc) == UpTo(sg, loc) \ {loc}
IdsUpTo(sg, loc) == {Id(sg, x) : x \in UpTo(sg, loc)}
Committed == IdsUpTo(segs, head)

Init ==
    /\ use \in Uses
    /\ segs = <<>> /\ head = NoLoc /\ delivered = {}
    /\ trx = [t \in Trxs |-> NewTrx]
    /\ busy = NoTrx /\ queue = <<>> /\ merging = FALSE
    /\ sink = "closed" /\ result = "ok"
-----------------------------------------------------------------------------
(* The graph is created, by an action or by the init command of a peer.    *)

Create(cmds) ==
    /\ ~Exists /\ busy = NoTrx
    /\ segs' = <<[prior |-> <<>>, cmds |-> cmds]>>
    /\ head' = <<1, Len(cmds)>>
    /\ sink' = "closed" /\ result' = "ok"
    /\ UNCHANGED <<trx, busy, queue, merging, delivered, use>>

NewGraph(c) == Create(<<InitId, c>>)

\* add_commands without a graph: the first command must be its init command
\* and its rule must succeed.
InitGraph(c) == c = InitId /\ Create(<<c>>)

InitError == ~Exists /\ busy = NoTrx /\ result' = "error" /\ sink' = "closed"
    /\ UNCHANGED <<segs, head, trx, busy, queue, merging, delivered, use>>
-----------------------------------------------------------------------------
(* ClientState::action                                                     *)

\* The action fails: the sink is rolled back.  It publishes nothing: write
\* refuses the perspective and returns, without a rollback.
ActionFails ==
    /\ Exists /\ busy = NoTrx
    /\ result' = "error"
    /\ sink' \in {"closed"} \cup (IF use.empty THEN {"begun"} ELSE {})
    /\ UNCHANGED <<segs, head, trx, busy, queue, merging, delivered, use>>

Action(c) ==
    /\ Exists /\ busy = NoTrx
    /\ Len(segs) < use.segments
    /\ c \notin {Id(segs, x) : x \in Locs(segs)}
    /\ segs' = Append(segs, [prior |-> <<head>>, cmds |-> <<c>>])
    /\ head' = <<Len(segs) + 1, 1>>
    /\ sink' = "closed" /\ result' = "ok"
    /\ UNCHANGED <<trx, busy, queue, merging, delivered, use>>
-----------------------------------------------------------------------------
(* Transaction::add_commands, for one command.                             *)

\* locate: get_location_from sees all commands of a segment that it comes to.
Seen(sg, loc, c) == {x \in Locs(sg) : /\ Id(sg, x) = c
                                      /\ \E y \in UpTo(sg, loc) : y[1] = x[1]}
Located(sg, tr, c) ==
    IF Seen(sg, head, c) # {} THEN Seen(sg, head, c)
    ELSE UNION {Seen(sg, h.loc, c) : h \in tr.heads}

\* As Without, that keeps the head.
WithoutNone(heads, ids) == heads

Without(heads, ids) == {h \in heads : h.id \notin ids}

\* As Written, that forgets the head.
WrittenOnly(tr, sg) == tr.heads

\* The heads with that of the perspective, which is the last segment.
Written(tr, sg) ==
    LET id == tr.persp.cmds[Len(tr.persp.cmds)]
    IN  Without(tr.heads, {id}) \cup {[id |-> id, loc |-> HeadOf(sg, Len(sg))]}

\* Writes out the perspective, if there is one; keep: phead is left as it is.
\* An empty perspective is lost and an error.
Flush(tr, keep) ==
    LET sg == Append(segs, [prior |-> tr.persp.prior, cmds |-> tr.persp.cmds])
        closed == [tr EXCEPT !.persp = NoPersp, !.phead = IF keep THEN @ ELSE NoId]
    IN  CASE ~tr.persp.open -> [ok |-> TRUE, segs |-> segs, trx |-> tr]
          [] tr.persp.open /\ tr.persp.cmds = <<>> -> [ok |-> FALSE, segs |-> segs, trx |-> closed]
          [] OTHER -> [ok |-> TRUE, segs |-> sg, trx |-> [closed EXCEPT !.heads = Written(tr, sg)]]

Idle(t) == busy = NoTrx /\ Exists

\* The call ends: with an error the transaction is dropped or used on.
Return(t, sg, tr, res) ==
    /\ Len(sg) <= use.segments
    /\ segs' = sg
    /\ trx' = [trx EXCEPT ![t] = IF res # "ok" /\ ~use.goes_on THEN NewTrx ELSE tr]
    /\ sink' = "closed" /\ result' = res
    /\ UNCHANGED <<head, busy, queue, merging, delivered, use>>

Added(tr, c) ==
    [tr EXCEPT !.persp.cmds = Append(@, c), !.phead = c, !.added = @ \cup {c}]

\* As Unlocated, that does not search from the committed head.
UnlocatedInHeads(sg, tr, c) == \A h \in tr.heads : Seen(sg, h.loc, c) = {}

Unlocated(sg, tr, c) == Located(sg, tr, c) = {}

\* Neither in the perspective nor located.
IsNew(t, c) ==
    /\ use.resends \/ c \notin trx[t].added
    /\ \A i \in DOMAIN trx[t].persp.cmds : trx[t].persp.cmds[i] # c
    /\ Unlocated(segs, trx[t], c)

\* get_perspective at phead, and the rule of the command.
AddToPerspective(t, c) ==
    /\ Idle(t) /\ IsNew(t, c)
    /\ Len(ParentsOf[c]) = 1 /\ trx[t].phead = ParentsOf[c][1]
    /\ IF ~trx[t].persp.open THEN Return(t, segs, trx[t], "no perspective")
       ELSE \/ Return(t, segs, Added(trx[t], c), "ok")
            \/ Return(t, segs, trx[t], "error")

\* get_perspective elsewhere: the perspective is written and a new one opened.
AddElsewhere(t, c) ==
    /\ Idle(t) /\ IsNew(t, c)
    /\ Len(ParentsOf[c]) = 1 /\ trx[t].phead # ParentsOf[c][1]
    /\ LET f == Flush(trx[t], FALSE)
           parent == ParentsOf[c][1]
       IN  \/ ~f.ok /\ Return(t, f.segs, f.trx, "error")
           \/ f.ok /\ Located(f.segs, f.trx, parent) = {} /\ Return(t, f.segs, f.trx, "error")
           \/ /\ f.ok
              /\ \E loc \in Located(f.segs, f.trx, parent) :
                    LET tr == [f.trx EXCEPT !.persp = [prior |-> <<loc>>, cmds |-> <<>>, open |-> TRUE],
                                            !.phead = parent,
                                            !.heads = Without(@, {parent})]
                    IN  \/ Return(t, f.segs, Added(tr, c), "ok")
                        \/ Return(t, f.segs, tr, "error")

\* add_merge; the braid fails when a rule does.
AddMerge(t, c) ==
    /\ Idle(t) /\ IsNew(t, c)
    /\ Len(ParentsOf[c]) = 2
    /\ LET f == Flush(trx[t], TRUE)
           left == Located(f.segs, f.trx, ParentsOf[c][1])
           right == Located(f.segs, f.trx, ParentsOf[c][2])
       IN  \/ ~f.ok /\ Return(t, f.segs, f.trx, "error")
           \/ f.ok /\ (left = {} \/ right = {}) /\ Return(t, f.segs, f.trx, "error")
           \/ /\ f.ok
              /\ \E l \in left, r \in right :
                    \/ Return(t, f.segs, f.trx, "error")
                    \/ LET tr == [f.trx EXCEPT !.persp = [prior |-> <<l, r>>, cmds |-> <<>>, open |-> TRUE],
                                               !.heads = Without(@, {ParentsOf[c][1], ParentsOf[c][2]})]
                       IN  Return(t, f.segs, Added(tr, c), "ok")
-----------------------------------------------------------------------------
(* Transaction::commit; no other call can come in between.                 *)

Orders(S) ==
    {q \in [1..Cardinality(S) -> S] :
        /\ q \in Seq(S) /\ \A h \in S : \E i \in DOMAIN q : q[i] = h
        /\ \A i, j \in DOMAIN q : q[i] = q[j] => i = j}

\* The perspective is written and the heads are taken, in the order of their
\* ids, which may be any.
CommitStart(t) ==
    /\ Idle(t)
    /\ LET f == Flush(trx[t], FALSE)
       IN  \/ ~f.ok /\ Return(t, f.segs, f.trx, "error")
           \/ /\ f.ok /\ Len(f.segs) <= use.segments
              /\ segs' = f.segs
              /\ trx' = [trx EXCEPT ![t] = [f.trx EXCEPT !.heads = {}]]
              /\ \E q \in Orders(f.trx.heads) : queue' = q
              /\ busy' = t /\ merging' = FALSE /\ result' = "busy"
              /\ UNCHANGED <<head, sink, delivered, use>>

CommitEnd(res) ==
    /\ trx' = [trx EXCEPT ![busy] = IF res = "ok" \/ ~use.goes_on THEN NewTrx ELSE @]
    /\ delivered' = IF res = "ok" THEN delivered \cup trx[busy].added ELSE delivered
    /\ busy' = NoTrx /\ queue' = <<>> /\ merging' = FALSE /\ sink' = "closed" /\ result' = res

NothingToCommit ==
    /\ busy # NoTrx /\ queue = <<>>
    /\ CommitEnd("ok")
    /\ UNCHANGED <<segs, head, use>>

\* Two heads are braided and merged, the one with the lower id on the left.
MergeHeads ==
    /\ Len(queue) > 1
    /\ queue[1].id # queue[2].id
    /\ Len(segs) < use.segments
    /\ LET l == IF queue[1].id < queue[2].id THEN queue[1] ELSE queue[2]
           r == IF queue[1].id < queue[2].id THEN queue[2] ELSE queue[1]
           m == MergeId(l.id, r.id)
       IN  /\ segs' = Append(segs, [prior |-> <<l.loc, r.loc>>, cmds |-> <<m>>])
           /\ queue' = Append(SubSeq(queue, 3, Len(queue)), [id |-> m, loc |-> <<Len(segs) + 1, 1>>])
    /\ UNCHANGED <<head, trx, busy, merging, sink, result, delivered, use>>

\* assume("merging different ids")
MergeSame ==
    /\ Len(queue) > 1 /\ queue[1].id = queue[2].id
    /\ CommitEnd("merging the same ids")
    /\ UNCHANGED <<segs, head, use>>

\* The braid fails: the heads are lost.
MergeFails ==
    /\ Len(queue) > 1 /\ queue[1].id # queue[2].id
    /\ CommitEnd("error")
    /\ UNCHANGED <<segs, head, use>>

\* As Descends, that is satisfied with any segment.
DescendsAlways(loc) == TRUE

\* Storage::commit: the head is an ancestor of the segment.
Descends(loc) == head \in Before(segs, <<loc[1], 1>>)

CommitHead ==
    /\ Len(queue) = 1 /\ Descends(queue[1].loc)
    /\ head' = HeadOf(segs, queue[1].loc[1])
    /\ CommitEnd("ok")
    /\ UNCHANGED <<segs, use>>

MergeWithHead ==
    /\ Len(queue) = 1 /\ ~Descends(queue[1].loc) /\ ~merging
    /\ merging' = TRUE
    /\ queue' = Append(queue, [id |-> Id(segs, head), loc |-> head])
    /\ UNCHANGED <<segs, head, trx, busy, sink, result, delivered, use>>

\* The caller drops the transaction.
Drop(t) ==
    /\ busy = NoTrx
    /\ trx' = [trx EXCEPT ![t] = NewTrx]
    /\ UNCHANGED <<segs, head, busy, queue, merging, sink, result, delivered, use>>

\* The bound on segments is reached within a merge.
Terminating == Len(segs) = use.segments /\ UNCHANGED vars

Next ==
    \/ \E c \in LocalIds : NewGraph(c) \/ Action(c)
    \/ \E c \in use.ids : InitGraph(c)
    \/ InitError \/ ActionFails
    \/ \E t \in use.trxs, c \in use.ids : AddToPerspective(t, c) \/ AddElsewhere(t, c) \/ AddMerge(t, c)
    \/ \E t \in use.trxs : CommitStart(t) \/ Drop(t)
    \/ NothingToCommit \/ MergeHeads \/ MergeSame \/ MergeFails
    \/ CommitHead \/ MergeWithHead
    \/ Terminating

Spec == Init /\ [][Next]_vars
-----------------------------------------------------------------------------
(* Correctness.                                                            *)

\* The application drops a transaction after an error and gives it no command
\* twice, and its actions publish something.
Careful == ~use.goes_on /\ ~use.resends /\ ~use.empty

\* And it opens one transaction after the other.
Alone == \A t, u \in use.trxs : t = u

\* What a transaction holds on to: the commands of its perspective and those
\* up to its heads, and while it is in commit up to what is left to merge.
Held(t) ==
    LET locs == {h.loc : h \in trx[t].heads}
                \cup {trx[t].persp.prior[i] : i \in DOMAIN trx[t].persp.prior}
                \cup (IF busy = t THEN {queue[i].loc : i \in DOMAIN queue} ELSE {})
    IN  {trx[t].persp.cmds[i] : i \in DOMAIN trx[t].persp.cmds}
        \cup UNION {IdsUpTo(segs, loc) : loc \in locs}

\* Transaction: "When the transaction is committed, we will merge all
\* temporary heads and the storage head".  A command that was added is in
\* reach of the transaction until it is committed, however often the
\* perspective is written and reopened elsewhere.
AddedHeld == Careful => \A t \in Trxs : trx[t].added \subseteq Held(t) \cup Committed

\* Once commit has returned Ok, the commands of the transaction are part of
\* the graph, and stay so through later commits and actions.
Delivered == Careful => delivered \subseteq Committed

\* What braid and last_common_ancestor need: neither side of a merge is an
\* ancestor of the other.
MergesIncomparable ==
    Careful /\ Alone => \A s \in DOMAIN segs : Len(segs[s].prior) = 2 =>
        LET l == segs[s].prior[1]
            r == segs[s].prior[2]
        IN  /\ Id(segs, l) \notin IdsUpTo(segs, r)
            /\ Id(segs, r) \notin IdsUpTo(segs, l)

\* No command is in the graph twice, whether it came from a peer, was merged
\* here and received again, or was left over from a failed transaction.
CommittedOnce ==
    Careful /\ Alone => \A x, y \in UpTo(segs, head) : Id(segs, x) = Id(segs, y) => x = y

\* No call ends in one of the transaction's assumes, and bug!("merging with
\* graph head again, would loop") is unreachable: a merge with the head can be
\* committed.
NoBug ==
    Careful /\ Alone =>
    /\ result \notin {"no perspective", "merging the same ids"}
    /\ Len(queue) = 1 /\ merging => Descends(queue[1].loc)

\* No call removes a command from the graph.
CommittedKept == [][Committed \subseteq Committed']_vars
=============================================================================
