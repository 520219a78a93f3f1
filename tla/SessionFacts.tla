----------------------------- MODULE SessionFacts ----------------------------
(***************************************************************************)
(* The facts of an ephemeral session (client/session.rs) and the prefix    *)
(* queries of the stores below it: a map of changes in front of a stored   *)
(* index, and queries that go through both at once while the session goes  *)
(* on.                                                                     *)
(*                                                                         *)
(* The map is shared with the queries that are open, behind an Arc.  A     *)
(* query is `shared' while its map is also the session's; `cart' is its    *)
(* map once the session has moved on to another.                           *)
(*                                                                         *)
(* A session works on any stored index: here on one of `Bases', sequences  *)
(* of maps as Chain gives them, while the stores rest.                     *)
(***************************************************************************)
EXTENDS MemoryFacts

CONSTANTS
    SessionKeys,    \* sequences of numbers
    Prefixes,       \* of keys
    Bases,          \* the indices a session may be opened on
    MaxLog,         \* changes that a session makes
    MaxQueries      \* queries that are open

VARIABLES
    session,    \* [base, fact_log, current_facts]
    queries,    \* QueryIterator, the open ones
    got         \* what the last call of `next' returned

session_vars == <<session, queries, got>>
all_vars == <<provider_vars, session_vars>>

Seqs == INSTANCE SequencesExt

NoItem == <<>>

\* Session::new
NewSession(base) == [base |-> base, fact_log |-> <<>>, current_facts |-> NoMap]
-----------------------------------------------------------------------------
(* Prefix queries of a stored index.                                       *)

\* The order of keys.
Before(a, b) ==
    \/ Seqs!IsStrictPrefix(a, b)
    \/ \E i \in DOMAIN a \cap DOMAIN b : a[i] < b[i] /\ \A j \in 1..(i - 1) : a[j] = b[j]

\* All keys, and those of a set, in their order.
AllKeys == Seqs!SetToSortSeq(SessionKeys, Before)
InOrder(S) == SelectSeq(AllKeys, LAMBDA k : k \in S)

\* find_prefixes
FindPrefixes(map, n, prefix) == {k \in DOMAIN Submap(map, n) : Seqs!IsPrefix(prefix, k)}

\* query_prefix_inner: the newest slot of every key, tombstones included.
QueryPrefixInner(maps, n, prefix) ==
    LET keys == UNION {FindPrefixes(maps[i], n, prefix) : i \in DOMAIN maps}
        newest(k) == CHOOSE i \in DOMAIN maps :
                        Has(maps[i], n, k) /\ \A j \in 1..(i - 1) : ~Has(maps[j], n, k)
    IN  [k \in keys |-> maps[newest(k)][n][k]]

\* query_prefix: without the tombstones, in order.
QueryPrefix(maps, n, prefix) ==
    LET slots == QueryPrefixInner(maps, n, prefix)
        sorted == InOrder({k \in DOMAIN slots : slots[k] # Deleted})
    IN  [i \in DOMAIN sorted |-> <<sorted[i], slots[sorted[i]]>>]
-----------------------------------------------------------------------------
(* Queries of a session.                                                   *)

Items == SessionKeys \X (Values \cup {Deleted})

Cart(q) == IF q.shared THEN session.current_facts ELSE q.cart

\* As PrefixIter, to the end of the range.
RangeIter(map, n, prefix) ==
    LET keys == InOrder({k \in DOMAIN Submap(map, n) : ~Before(k, prefix)})
    IN  [i \in DOMAIN keys |-> <<keys[i], map[n][keys[i]]>>]

\* PrefixIter: the range from the prefix on, up to a key that does not start
\* with it.
PrefixIter(map, n, prefix) ==
    LET range == RangeIter(map, n, prefix)
        others == {i \in DOMAIN range : ~Seqs!IsPrefix(prefix, range[i][1])}
    IN  SelectSeq(range, LAMBDA item : \A i \in others : Before(item[1], range[i][1]))

\* The loop of QueryIterator::next, on what is left of the stored facts and of
\* the session's map: what it returns, and what is left then.
NextOfBoth[both \in Seq(Items) \X Seq(Items)] ==
    LET prior == both[1]
        current == both[2]
        new == Head(current)
        old == Head(prior)
        overwrites == prior # <<>> /\ new[1] = old[1]
        rest == <<IF overwrites THEN Tail(prior) ELSE prior, Tail(current)>>
    IN  IF current = <<>> \/ (prior # <<>> /\ Before(old[1], new[1]))
        THEN IF prior = <<>> THEN [left |-> both, item |-> NoItem]
             ELSE [left |-> <<Tail(prior), current>>, item |-> old]
        ELSE IF new[2] = Deleted THEN NextOfBoth[rest]
        ELSE [left |-> rest, item |-> new]

\* What is left of both for a query.
Ahead(q) ==
    LET current == PrefixIter(Cart(q), q.name, q.prefix)
    IN  <<q.prior, SubSeq(current, q.at + 1, Len(current))>>

\* query
SessionQuery(s, n, k) == Query(<<s.current_facts>> \o s.base, n, k)

OpenQuery(n, prefix) ==
    /\ Len(queries) < MaxQueries
    /\ queries' = Append(queries, [name |-> n, prefix |-> prefix, shared |-> TRUE, cart |-> NoMap,
                                   at |-> 0, prior |-> QueryPrefix(session.base, n, prefix)])
    /\ got' = NoItem
    /\ UNCHANGED session

NextOf(i) ==
    /\ LET next == NextOfBoth[Ahead(queries[i])]
           read == Len(Ahead(queries[i])[2]) - Len(next.left[2])
       IN  /\ queries' = [queries EXCEPT ![i].prior = next.left[1], ![i].at = @ + read]
           /\ got' = next.item
    /\ UNCHANGED session

\* The innermost query ends first.
DropQuery ==
    /\ queries # <<>>
    /\ queries' = SubSeq(queries, 1, Len(queries) - 1)
    /\ got' = NoItem
    /\ UNCHANGED session
-----------------------------------------------------------------------------
(* Changes of a session.                                                   *)

\* As Unshare, when a map is changed although it is shared.
StillShared == queries

\* Arc::make_mut, and Arc::get_mut of revert: the queries keep the map.
Unshare == [i \in DOMAIN queries |-> [queries[i] EXCEPT !.shared = FALSE, !.cart = Cart(queries[i])]]

\* insert and delete
Change(n, k, slot) ==
    /\ Len(session.fact_log) < MaxLog
    /\ LET u == [name |-> n, key |-> k, slot |-> slot]
       IN  session' = [session EXCEPT !.fact_log = Append(@, u), !.current_facts = MemApply(@, u)]
    /\ queries' = Unshare
    /\ got' = NoItem

\* revert to a checkpoint that was made after i changes
SessionRevert(i) ==
    /\ i < Len(session.fact_log)
    /\ LET log == SubSeq(session.fact_log, 1, i)
       IN  session' = [session EXCEPT !.fact_log = log, !.current_facts = MemApplyUpdates(NoMap, log)]
    /\ queries' = Unshare
    /\ got' = NoItem

SessionNext ==
    \/ \E n \in Names, prefix \in Prefixes : OpenQuery(n, prefix)
    \/ \E i \in DOMAIN queries : NextOf(i)
    \/ DropQuery
    \/ \E n \in Names, k \in SessionKeys, slot \in Values \cup {Deleted} : Change(n, k, slot)
    \/ \E i \in 0..MaxLog : SessionRevert(i)
-----------------------------------------------------------------------------
(* The stores and the session.                                             *)

FactsInit ==
    /\ Init
    /\ provider \in {"linear", "memory", "session"}
    /\ session \in {NewSession(base) : base \in IF provider = "session" THEN Bases ELSE {<<>>}}
    /\ queries = <<>> /\ got = NoItem

FactsNext ==
    /\ \/ provider = "linear" /\ Next /\ UNCHANGED session_vars
       \/ provider = "memory" /\ MemNext /\ UNCHANGED session_vars
       \/ provider = "session" /\ SessionNext /\ UNCHANGED vars
    /\ UNCHANGED provider

FactsSpec == FactsInit /\ [][FactsNext]_all_vars
-----------------------------------------------------------------------------
(* Correctness.                                                            *)

SessionFactsOf == Names \X SessionKeys

\* The answers of a session after its first i changes.
ViewAfter(i) ==
    LET s == [session EXCEPT !.current_facts =
                 IF i = Len(session.fact_log) THEN @
                 ELSE MemApplyUpdates(NoMap, SubSeq(session.fact_log, 1, i))]
    IN  [f \in SessionFactsOf |-> SessionQuery(s, f[1], f[2])]

\* All that a query will still return.
Rest[both \in Seq(Items) \X Seq(Items)] ==
    LET next == NextOfBoth[both]
    IN  IF next.item = NoItem THEN <<>> ELSE <<next.item>> \o Rest[next.left]

SortedFacts(n, prefix) ==
    LET keys == InOrder({k \in SessionKeys : Seqs!IsPrefix(prefix, k)})
    IN  [i \in DOMAIN keys |-> <<n, keys[i]>>]

\* However a session is changed and reverted while queries are open: a key is
\* answered with its last value, a revert brings back every answer of the
\* checkpoint, and a query returns the facts of the moment it was opened, each
\* once, in order, deleted facts left out, although it reads the session's own
\* map step by step.
View == INSTANCE SessionView WITH
    Facts <- SessionFactsOf,
    Slots <- Values \cup {None},
    Absent <- None,
    Matching <- SortedFacts,
    marks <- [i \in 1..(Len(session.fact_log) + 1) |-> ViewAfter(i - 1)],
    results <- [i \in DOMAIN queries |-> Rest[Ahead(queries[i])]]

SessionRefinement == View!Spec
=============================================================================
