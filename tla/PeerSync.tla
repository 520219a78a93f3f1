------------------------------ MODULE PeerSync ------------------------------
(***************************************************************************)
(* Two devices that sync a graph: the requester and the responder of       *)
(* crates/aranya-runtime (sync/requester.rs, sync/responder.rs) with the   *)
(* cache of the peer's heads, as crates/aranya-quic-syncer drives them: a  *)
(* poll is a session of one request and one response, and a peer that has  *)
(* subscribed is pushed to.                                                *)
(*                                                                         *)
(* A graph is the sequence of its segments; the committed head is that of  *)
(* the last one, and <<>> is a graph that a device does not have.  A       *)
(* location is <<segment, command>>, counted from 1.  What a device does   *)
(* with commands it receives is Transaction's subject: here it is one step *)
(* that succeeds or fails.  Searches are by reachability (SegmentGraph).   *)
(***************************************************************************)
EXTENDS Naturals, Sequences, FiniteSets, SequencesExt

CONSTANTS
    Devices,            \* two
    Founder,            \* the device that has created the graph
    MaxCommands,        \* commands of the actions of both devices
    MaxLength,          \* commands that an action publishes
    PeerHeadMax,        \* PEER_HEAD_MAX
    SampleMax,          \* COMMAND_SAMPLE_MAX
    ResponseMax,        \* COMMAND_RESPONSE_MAX
    SegmentBufferMax,   \* SEGMENT_BUFFER_MAX
    Subscriptions       \* devices subscribe, or only poll

ASSUME DevicesAssumption == Founder \in Devices /\ Cardinality(Devices) = 2
ASSUME BoundsAssumption ==
    \A max \in {PeerHeadMax, SampleMax, ResponseMax, SegmentBufferMax} : max \in Nat \ {0}

VARIABLES
    graph,      \* the graph of each device
    heads,      \* its PeerCache for the other one (remote_heads)
    subscribed, \* the other one has a subscription
    published   \* commands of actions so far

vars == <<graph, heads, subscribed, published>>

Peer(d) == CHOOSE e \in Devices : e # d

First(q, n) == SubSeq(q, 1, IF n < Len(q) THEN n ELSE Len(q))

\* A command of an action, and the command that merges two others.
Command(n) == [n |-> n, of |-> {}]
Merge(a, b) == [n |-> 0, of |-> {a, b}]
-----------------------------------------------------------------------------
(* Graphs.                                                                 *)

Locs(g) == UNION {{s} \X DOMAIN g[s].cmds : s \in DOMAIN g}
Id(g, loc) == g[loc[1]].cmds[loc[2]]
Ids(g) == {Id(g, x) : x \in Locs(g)}
LocOf(g, c) == CHOOSE x \in Locs(g) : Id(g, x) = c
HeadOf(g, s) == <<s, Len(g[s].cmds)>>
GraphHead(g) == HeadOf(g, Len(g))

\* The locations before segment s, those that is_ancestor finds.
Before(g, s) ==
    LET before[t \in 0..Len(g)] ==
            UNION {before[p[1]] \cup ({p[1]} \X (1..p[2])) :
                      p \in IF t = 0 THEN {} ELSE ToSet(g[t].prior)}
    IN  before[s]

PriorLocs(g, loc) == IF loc[2] > 1 THEN <<<<loc[1], loc[2] - 1>>>> ELSE g[loc[1]].prior
Parents(g, c) ==
    LET prior == PriorLocs(g, LocOf(g, c))
    IN  [i \in DOMAIN prior |-> Id(g, prior[i])]
-----------------------------------------------------------------------------
(* PeerCache::add_command, for a command of the graph.                     *)

\* As Superseded, that holds for no head.
NeverSuperseded(g, h, loc) == FALSE

\* The head is an ancestor of the segment of the new one.
Superseded(g, h, loc) == LocOf(g, h) \in Before(g, loc[1])

\* As IsFull, one too late.
IsFullLate(known) == Len(known) > PeerHeadMax

IsFull(known) == Len(known) >= PeerHeadMax

AddHead(g, known, c) ==
    LET loc == LocOf(g, c)
        located == SelectSeq(known, LAMBDA h : h \in Ids(g))
        kept == SelectSeq(located, LAMBDA h : ~Superseded(g, h, loc))
        covered == \E h \in ToSet(located) : h = c \/ loc \in Before(g, LocOf(g, h)[1])
    IN  IF covered \/ IsFull(kept) THEN kept ELSE Append(kept, c)

\* add_command for the commands of a sequence that are in the graph.
RECURSIVE AddHeads(_, _, _)
AddHeads(g, known, cmds) ==
    IF cmds = <<>> THEN known
    ELSE AddHeads(g, IF cmds[1] \in Ids(g) THEN AddHead(g, known, cmds[1]) ELSE known, Tail(cmds))
-----------------------------------------------------------------------------
(* SyncRequester::get_commands: the cached heads, then the heads of the    *)
(* segments back from the head of the graph, up to segments that hold a    *)
(* cached one.  A segment that is reached twice is sampled twice.          *)

RECURSIVE SampleFrom(_, _, _, _)
SampleFrom(g, stops, queue, sample) ==
    IF queue = <<>> \/ Len(sample) >= SampleMax THEN sample
    ELSE LET s == queue[1][1]
         IN  IF s \in stops THEN SampleFrom(g, stops, Tail(queue), sample)
             ELSE SampleFrom(g, stops, Tail(queue) \o g[s].prior,
                             Append(sample, Id(g, HeadOf(g, s))))

Sample(g, known) ==
    IF g = <<>> THEN <<>>
    ELSE SampleFrom(g, {LocOf(g, h)[1] : h \in ToSet(known)}, <<GraphHead(g)>>,
                    First(known, SampleMax))
-----------------------------------------------------------------------------
(* SyncResponder::find_needed_segments: where to start in each segment     *)
(* that is not known to the requester.  When the buffer is full the        *)
(* location that was found first goes.                                     *)

PushFront(found, loc) ==
    <<loc>> \o First(found, SegmentBufferMax - 1)

\* As AllKnown, when any command of the segment is known.
AnyKnown(g, loc) == TRUE

\* The known command is the last one of its segment.
AllKnown(g, loc) == loc = HeadOf(g, loc[1])

RECURSIVE FindNeeded(_, _, _, _)
FindNeeded(g, have, queue, found) ==
    IF queue = <<>> THEN found
    ELSE LET s == queue[1][1]
             here == SelectSeq(have, LAMBDA x : x[1] = s)
         IN  IF \E x \in ToSet(found) : x[1] = s THEN FindNeeded(g, have, Tail(queue), found)
             ELSE IF here = <<>>
             THEN FindNeeded(g, have, Tail(queue) \o g[s].prior, PushFront(found, <<s, 1>>))
             ELSE FindNeeded(g, have, Tail(queue),
                             IF AllKnown(g, here[1]) THEN found ELSE PushFront(found, here[1]))

\* As Sorted, in the order in which they were found.
Unsorted(g, found) == Reverse(found)

\* The locations in order; no two are in the same segment.
Sorted(g, found) ==
    LET segments == SelectSeq([s \in DOMAIN g |-> s], LAMBDA s : \E x \in ToSet(found) : x[1] = s)
    IN  [i \in DOMAIN segments |-> CHOOSE x \in ToSet(found) : x[1] = segments[i]]

NeededSegments(g, has) ==
    LET located == SelectSeq(has, LAMBDA c : c \in Ids(g))
        have == [i \in DOMAIN located |-> LocOf(g, located[i])]
    IN  Sorted(g, FindNeeded(g, have, <<GraphHead(g)>>, <<>>))

GetFrom(g, loc) == SubSeq(g[loc[1]].cmds, loc[2], Len(g[loc[1]].cmds))

\* SyncResponder::get_commands, of a session's first message: as many commands
\* of the segments as fit.
Response(g, has) ==
    LET needed == NeededSegments(g, has)
    IN  First(FlattenSeq([i \in DOMAIN needed |-> GetFrom(g, needed[i])]), ResponseMax)
-----------------------------------------------------------------------------
(* Transaction::add_commands and commit for the commands of a message from *)
(* a device with the graph src.                                            *)

\* The graph that the commands are added to: without one, the first command
\* creates it when it is the init command.
Created(g, src, cmds) ==
    IF g = <<>> /\ cmds # <<>> /\ Parents(src, cmds[1]) = <<>>
    THEN <<[prior |-> <<>>, cmds |-> <<cmds[1]>>]>> ELSE g

IsKnown(base, c) == c \in Ids(base)

\* A command goes to the segment of the one before it when that is its
\* parent, or starts a segment.  base: the committed graph.
AddCommand(base, src, g, c) ==
    LET parents == Parents(src, c)
    IN  IF IsKnown(base, c) THEN g
        ELSE IF Len(g) > Len(base) /\ parents = <<Id(g, GraphHead(g))>>
        THEN [g EXCEPT ![Len(g)].cmds = Append(@, c)]
        ELSE Append(g, [prior |-> [i \in DOMAIN parents |-> LocOf(g, parents[i])], cmds |-> <<c>>])

RECURSIVE AddCommands(_, _, _, _)
AddCommands(base, src, g, cmds) ==
    IF cmds = <<>> THEN g
    ELSE AddCommands(base, src, AddCommand(base, src, g, cmds[1]), Tail(cmds))

\* The commands that have a parent which neither the graph nor the commands
\* before them have: get_perspective and add_merge fail with NoSuchParent.
NoSuchParent(base, src, cmds) ==
    {i \in DOMAIN cmds : ~(ToSet(Parents(src, cmds[i])) \subseteq
                              Ids(base) \cup {cmds[j] : j \in 1..(i - 1)})}

RECURSIVE MergeHeads(_, _)
MergeHeads(g, queue) ==
    IF Len(queue) = 1 THEN g
    ELSE MergeHeads(Append(g, [prior |-> <<queue[1], queue[2]>>,
                               cmds |-> <<Merge(Id(g, queue[1]), Id(g, queue[2]))>>]),
                    Append(SubSeq(queue, 3, Len(queue)), <<Len(g) + 1, 1>>))

\* commit: the heads of the new segments are merged, in the order of their
\* ids, which may be any, and then with the head of the graph unless they
\* descend from it.
Committed(base, g) ==
    LET new == (Len(base) + 1)..Len(g)
        tips == {HeadOf(g, s) : s \in new} \ UNION {ToSet(g[s].prior) : s \in new}
        withHead(h) == IF GraphHead(base) \in Before(h, Len(h)) THEN h
                       ELSE MergeHeads(h, <<GraphHead(h), GraphHead(base)>>)
    IN  IF tips = {} THEN {g} ELSE {withHead(MergeHeads(g, q)) : q \in SetToSeqs(tips)}

\* What is left to add_commands once the graph is there.
Rest(g, cmds) == IF g = <<>> THEN Tail(cmds) ELSE cmds

\* The cache after add_commands: the commands that the graph has already, and
\* the head of the graph.
HeadsAfter(base, known, rest) ==
    AddHead(base, AddHeads(base, known, rest), Id(base, GraphHead(base)))

\* The rule of a new command fails or its parent is missing, there is no graph
\* and no init command, or commit fails: the transaction is dropped.  The
\* commands before the one that fails may be in the cache.
Refused(g, known, src, cmds) ==
    LET base == Created(g, src, cmds)
        rest == Rest(g, cmds)
        missing == NoSuchParent(base, src, rest)
        failing == {i \in DOMAIN rest : rest[i] \notin Ids(base) /\ \A j \in missing : i <= j}
    IN  [graph : {base}, heads : {AddHeads(base, known, First(rest, i - 1)) : i \in failing}]
        \cup (IF g = <<>> THEN {[graph |-> g, heads |-> known]} ELSE {})
        \cup (IF base = <<>> \/ missing # {} THEN {}
              ELSE {[graph |-> base, heads |-> HeadsAfter(base, known, rest)]})

\* Every rule succeeds.
Accepted(g, known, src, cmds) ==
    LET base == Created(g, src, cmds)
    IN  IF base = <<>> \/ NoSuchParent(base, src, cmds) # {} THEN {}
        ELSE [graph : Committed(base, AddCommands(base, src, base, cmds)),
              heads : {HeadsAfter(base, known, Rest(g, cmds))}]
-----------------------------------------------------------------------------
(* The devices.                                                            *)

Init ==
    /\ graph = [d \in Devices |->
                   IF d = Founder THEN <<[prior |-> <<>>, cmds |-> <<Command(1)>>]>> ELSE <<>>]
    /\ heads = [d \in Devices |-> <<>>]
    /\ subscribed = [d \in Devices |-> FALSE]
    /\ published = 0

\* ClientState::action publishes n commands at the head.
Action(d, n) ==
    /\ graph[d] # <<>> /\ published + n <= MaxCommands
    /\ graph' = [graph EXCEPT ![d] = Append(@,
          [prior |-> <<GraphHead(@)>>, cmds |-> [i \in 1..n |-> Command(published + 1 + i)]])]
    /\ published' = published + n
    /\ UNCHANGED <<heads, subscribed>>

\* poll: assume("location must exist") for every cached head; the peer has the
\* graph.
CanPoll(d) == ToSet(heads[d]) \subseteq Ids(graph[d])
CanSync(d) == CanPoll(d) /\ graph[Peer(d)] # <<>>

Request(d) == Sample(graph[d], heads[d])
Answer(d) == Response(graph[Peer(d)], Request(d))

\* The cache of d's peer after dispatch of a request or subscription of d.
HeadsAtPeer(d) == AddHeads(graph[Peer(d)], heads[Peer(d)], Request(d))

\* A poll of d with one of these outcomes of receiving the answer.
Poll(d, outcomes) ==
    /\ \E r \in outcomes :
          /\ graph' = [graph EXCEPT ![d] = r.graph]
          /\ heads' = [heads EXCEPT ![d] = r.heads, ![Peer(d)] = HeadsAtPeer(d)]
    /\ UNCHANGED <<subscribed, published>>

Sync(d) ==
    /\ CanSync(d)
    /\ \E answer \in {Answer(d)} \ {<<>>} :
          Poll(d, Accepted(graph[d], heads[d], graph[Peer(d)], answer))

SyncRefused(d) ==
    /\ CanSync(d)
    /\ \E answer \in {Answer(d)} \ {<<>>} :
          Poll(d, Refused(graph[d], heads[d], graph[Peer(d)], answer))

\* The answer is empty, or the connection breaks after the request was
\* dispatched.
SyncLost(d) ==
    /\ CanSync(d)
    /\ heads' = [heads EXCEPT ![Peer(d)] = HeadsAtPeer(d)]
    /\ UNCHANGED <<graph, subscribed, published>>

\* d subscribes with its peer, which adds the subscription before it looks for
\* the graph.
Subscribe(d) ==
    /\ Subscriptions /\ CanPoll(d)
    /\ subscribed' = [subscribed EXCEPT ![Peer(d)] = TRUE]
    /\ heads' = [heads EXCEPT ![Peer(d)] = HeadsAtPeer(d)]
    /\ UNCHANGED <<graph, published>>

\* The subscription with d is removed, expires, or its bytes are used up.
Unsubscribe(d) ==
    /\ subscribed[d]
    /\ subscribed' = [subscribed EXCEPT ![d] = FALSE]
    /\ UNCHANGED <<graph, heads, published>>

\* send_push: what is after the cached heads, which become the heads of what
\* is sent before it is.
Pushed(d) == Response(graph[d], heads[d])

Push(d) ==
    /\ subscribed[d] /\ graph[d] # <<>>
    /\ LET e == Peer(d)
           outcomes(cmds) == Accepted(graph[e], heads[e], graph[d], cmds)
                             \cup Refused(graph[e], heads[e], graph[d], cmds)
                             \cup {[graph |-> graph[e], heads |-> heads[e]]}
       IN  \E cmds \in {Pushed(d)} :
              /\ cmds # <<>>
              /\ \E r \in outcomes(cmds) :
                    /\ graph' = [graph EXCEPT ![e] = r.graph]
                    /\ heads' = [heads EXCEPT ![e] = r.heads, ![d] = AddHeads(graph[d], @, cmds)]
    /\ UNCHANGED <<subscribed, published>>

Next ==
    \E d \in Devices :
        \/ \E n \in 1..MaxLength : Action(d, n)
        \/ Sync(d) \/ SyncRefused(d) \/ SyncLost(d)
        \/ Subscribe(d) \/ Unsubscribe(d) \/ Push(d)

Spec == Init /\ [][Next]_vars
-----------------------------------------------------------------------------
(* Correctness.                                                            *)

TypeOK ==
    /\ \A d \in Devices :
          /\ \A s \in DOMAIN graph[d] : \A p \in ToSet(graph[d][s].prior) :
                p \in Locs(graph[d]) /\ p[1] < s
          /\ Len(heads[d]) <= PeerHeadMax
    /\ subscribed \in [Devices -> BOOLEAN] /\ published \in 0..MaxCommands

\* SyncRequest: "When sending commands ancestors must be sent before
\* descendents."  The answer to a poll never makes add_commands fail for a
\* missing parent.
AncestorsFirst ==
    \A d \in Devices : CanSync(d) =>
        \A answer \in {Answer(d)} :
            NoSuchParent(Created(graph[d], graph[Peer(d)], answer), graph[Peer(d)], answer) = {}

\* The heads cached for the peer are commands of the graph, so that get_commands
\* does not run into its assume, and none is before the segment of another, which
\* is where is_ancestor looks.  Heads of one segment are not compared: a command
\* and its child may both be cached and take two of the PEER_HEAD_MAX places.
HeadsLocated ==
    \A d \in Devices :
        /\ ToSet(heads[d]) \subseteq Ids(graph[d])
        /\ \A h, k \in ToSet(heads[d]) :
              LocOf(graph[d], h) \notin Before(graph[d], LocOf(graph[d], k)[1])

\* What a poll of d may lead to, from what d has.
Polled(d, r) ==
    Accepted(r.graph, r.heads, graph[Peer(d)], Response(graph[Peer(d)], Sample(r.graph, r.heads)))
Own(d) == [graph |-> graph[d], heads |-> heads[d]]
Lacks(d, r) == ~(Ids(graph[Peer(d)]) \subseteq Ids(r.graph))

\* A poll whose answer is not cut short at COMMAND_RESPONSE_MAX brings all that
\* is missing, whatever the caches claim after lost, refused and pushed
\* messages; the more so when the graph of the peer fits in a response.  So an
\* empty response means "we're up to date and there's nothing to sync"
\* (Syncer::sync).
OnePollSuffices ==
    \A d \in Devices :
        /\ CanSync(d) /\ Lacks(d, Own(d))
        /\ Len(Answer(d)) < ResponseMax \/ Cardinality(Ids(graph[Peer(d)])) <= ResponseMax
        => \A outcomes \in {Polled(d, Own(d))} :
              outcomes # {} /\ \A r \in outcomes : ~Lacks(d, r)

\* SyncRequest: "The responder should respond with any commands that the
\* requester may not have based on the provided sample."  A device that lacks
\* commands of its peer gets some by its next poll or by the one after it.
PollsProgress ==
    \A d \in Devices : Lacks(d, Own(d)) =>
        LET same(r) == Ids(r.graph) = Ids(graph[d])
        IN  \A r \in Polled(d, Own(d)) : same(r) => \A q \in Polled(d, r) : ~same(q)
=============================================================================
