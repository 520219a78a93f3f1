-------------------------- MODULE TransactionProofs --------------------------
(***************************************************************************)
(* What the client keeps, for any commands, transactions and graphs: the   *)
(* inductive invariant, a lemma for each step, and the theorems.           *)
(***************************************************************************)
EXTENDS TransactionGraphProofs

-----------------------------------------------------------------------------
(* Steps.                                                                  *)

\* The commands of a transaction are held by it, queued, or committed.
AddedOK(t) == trx[t].added \subseteq HeldBy(segs, trx[t]) \cup Committed
                                    \cup (IF busy = t THEN InQueue ELSE {})

KeptInv == Careful => /\ \A t \in Trxs : AddedOK(t)
                      /\ delivered \subseteq Committed

Inv == GraphInv /\ TrxInv /\ CommitInv /\ CareInv /\ KeptInv

\* What every step does.
Keeps == Inv' /\ Committed \subseteq Committed'

\* What is committed does not depend on segments that are written after it.
LEMMA CommittedSame ==
    ASSUME NEW sg, GraphInv, Extends(sg, segs)
    PROVE  IdsUpTo(sg, head) = Committed
<1>1. CASE head \in Locs(segs)
  BY <1>1, UpToKept DEF GraphInv, Committed
<1>2. CASE head = NoLoc
  <2>1. UpTo(sg, NoLoc) = {} /\ UpTo(segs, NoLoc) = {}
    BY UpToNoLoc DEF GraphInv, Extends
  <2> QED
    BY <1>2, <2>1 DEF IdsUpTo, Committed
<1> QED
  BY <1>1, <1>2, Zenon DEF GraphInv

\* A new transaction.
LEMMA NewTrxFacts ==
    \A sg : TrxOK(sg, NewTrx) /\ TrxCare(sg, NewTrx) /\ NewTrx.added = {}
<1> TAKE sg
<1>1. NoPersp \in [prior : Seq(Locs(sg)), cmds : Seq(Nat \ {0}), open : BOOLEAN]
  BY DEF NoPersp
<1>2. /\ NewTrx.persp = NoPersp /\ NewTrx.phead = NoId /\ NewTrx.heads = {} /\ NewTrx.added = {}
      /\ ~NoPersp.open /\ NoPersp.cmds = <<>>
  BY DEF NewTrx, NoPersp
<1>3. TrxOK(sg, NewTrx)
  BY <1>1, <1>2 DEF TrxOK, NewTrx
<1>4. TrxCare(sg, NewTrx)
  <2>1. 1..Len(<<>>) = {}
    OBVIOUS
  <2> QED
    BY <1>2, <2>1 DEF TrxCare
<1> QED
  BY <1>2, <1>3, <1>4

\* A call of one transaction ends, outside of commit; the graph has grown to sg.
LEMMA TrxStep ==
    ASSUME Inv, NEW t \in Trxs, NEW sg, NEW tr,
           Extends(sg, segs), TrxOK(sg, tr),
           Careful => /\ IdsOK(sg) /\ TrxCare(sg, tr)
                      /\ tr.added \subseteq HeldBy(sg, tr) \cup Committed,
           segs' = sg, trx' = [trx EXCEPT ![t] = tr],
           busy = NoTrx, Exists \/ sg = segs, UNCHANGED <<head, busy, queue, merging, delivered, use>>
    PROVE  Keeps
<1>1. Careful' = Careful
  BY DEF Careful
<1>2. /\ GraphOK(segs) /\ Locs(segs) \subseteq Locs(sg) /\ GraphOK(sg)
      /\ HeadsIn(segs) \subseteq HeadsIn(sg)
  BY UpToKept, TrxKept DEF Inv, GraphInv, Extends
<1>3. GraphInv'
  <2>1. CASE Exists
    BY <1>2, <2>1 DEF Inv, GraphInv, Exists
  <2>2. CASE sg = segs
    BY <2>2 DEF Inv, GraphInv
  <2> QED
    BY <2>1, <2>2
<1>4. trx'[t] = tr /\ \A u \in Trxs : u # t => trx'[u] = trx[u]
  BY DEF Inv, TrxInv
<1>5. ASSUME NEW u \in Trxs, u # t
      PROVE  /\ TrxOK(sg, trx[u])
             /\ TrxCare(segs, trx[u]) => TrxCare(sg, trx[u])
             /\ HeldBy(sg, trx[u]) = HeldBy(segs, trx[u])
  BY <1>2, TrxKept DEF Inv, TrxInv
<1>6. TrxInv'
  <2>1. trx' = [u \in Trxs |-> trx'[u]]
    BY DEF Inv, TrxInv
  <2>2. \A u \in Trxs : TrxOK(sg, trx'[u])
    BY <1>4, <1>5, Zenon
  <2> QED
    BY <2>1, <2>2 DEF TrxInv
<1>7. CommitInv'
  <2>1. queue = <<>> /\ ~merging
    BY DEF Inv, CommitInv
  <2>2. queue' \in Seq(HeadsIn(segs'))
    BY <2>1
  <2> QED
    BY <2>1, <2>2 DEF Inv, CommitInv
<1>8. CareInv'
  <2> SUFFICES ASSUME Careful PROVE IdsOK(sg) /\ \A u \in Trxs : TrxCare(sg, trx'[u])
    BY <1>1 DEF CareInv
  <2> QED
    BY <1>4, <1>5 DEF Inv, CareInv
<1>9. Committed' = Committed
  <2>1. IdsUpTo(sg, head) = Committed
    BY CommittedSame DEF Inv
  <2> QED
    BY <2>1 DEF Committed
<1>10. KeptInv'
  <2> SUFFICES ASSUME Careful
               PROVE  (\A u \in Trxs : AddedOK(u)') /\ delivered' \subseteq Committed'
    BY <1>1 DEF KeptInv
  <2>1. ASSUME NEW u \in Trxs PROVE AddedOK(u)'
    <3>1. u # NoTrx
      BY IdsAssumption
    <3>2. trx'[u].added \subseteq HeldBy(sg, trx'[u]) \cup Committed
      <4>1. CASE u = t
        BY <1>4, <4>1, Zenon
      <4>2. CASE u # t
        <5>1. trx[u].added \subseteq HeldBy(segs, trx[u]) \cup Committed
          BY <3>1 DEF Inv, KeptInv, AddedOK
        <5> QED
          BY <1>4, <1>5, <4>2, <5>1, Zenon
      <4> QED
        BY <4>1, <4>2
    <3> QED
      BY <1>9, <3>2, Zenon DEF AddedOK
  <2>2. delivered' \subseteq Committed'
    BY <1>9 DEF Inv, KeptInv
  <2> QED
    BY <2>1, <2>2
<1> QED
  BY <1>3, <1>6, <1>7, <1>8, <1>9, <1>10, Zenon DEF Inv, Keeps

\* The same for Return, where a careful caller drops the transaction after an error.
LEMMA ReturnKeeps ==
    ASSUME Inv, NEW t \in Trxs, Idle(t), NEW sg, NEW tr, NEW res,
           Extends(sg, segs), TrxOK(sg, tr), Careful => IdsOK(sg),
           Careful /\ res = "ok" => /\ TrxCare(sg, tr)
                                   /\ tr.added \subseteq HeldBy(sg, tr) \cup Committed,
           Return(t, sg, tr, res)
    PROVE  Keeps
<1> DEFINE new == IF res # "ok" /\ ~use.goes_on THEN NewTrx ELSE tr
<1>1. /\ segs' = sg /\ trx' = [trx EXCEPT ![t] = new]
      /\ busy = NoTrx /\ Exists /\ UNCHANGED <<head, busy, queue, merging, delivered, use>>
  BY DEF Return, Idle
<1>2. TrxOK(sg, new)
  BY NewTrxFacts, Zenon
<1>3. ASSUME Careful PROVE TrxCare(sg, new) /\ new.added \subseteq HeldBy(sg, new) \cup Committed
  <2>1. CASE res = "ok"
    BY <1>3, <2>1, Zenon
  <2>2. CASE res # "ok"
    <3>1. new = NewTrx
      BY <1>3, <2>2, Zenon DEF Careful
    <3> QED
      BY <3>1, NewTrxFacts, Zenon
  <2> QED
    BY <2>1, <2>2, Zenon
<1> HIDE DEF new
<1> QED
  BY <1>1, <1>2, <1>3, TrxStep, Zenon

\* What a call starts from.
LEMMA CallFacts ==
    ASSUME Inv, NEW t \in Trxs, Idle(t)
    PROVE  /\ GraphOK(segs) /\ TrxOK(segs, trx[t]) /\ Extends(segs, segs)
           /\ use.ids \subseteq PeerIds
           /\ Careful => /\ IdsOK(segs) /\ TrxCare(segs, trx[t])
                         /\ trx[t].added \subseteq HeldBy(segs, trx[t]) \cup Committed
<1>1. GraphOK(segs) /\ TrxOK(segs, trx[t]) /\ use.ids \subseteq PeerIds
  BY IdsAssumption DEF Inv, GraphInv, TrxInv
<1>2. t # busy
  BY IdsAssumption DEF Idle
<1>3. Careful => /\ IdsOK(segs) /\ TrxCare(segs, trx[t])
                 /\ trx[t].added \subseteq HeldBy(segs, trx[t]) \cup Committed
  BY <1>2 DEF Inv, CareInv, KeptInv, AddedOK
<1> QED
  BY <1>1, <1>3, ExtendsItself, Zenon

\* add_single at phead.
LEMMA AddToPerspectiveKeeps ==
    ASSUME Inv, NEW t \in Trxs, NEW c \in use.ids, AddToPerspective(t, c)
    PROVE  Keeps
<1> DEFINE tr == trx[t]
<1>0. Idle(t) /\ IsNew(t, c) /\ Len(ParentsOf[c]) = 1 /\ tr.phead = ParentsOf[c][1]
  BY Zenon DEF AddToPerspective
<1>1. /\ GraphOK(segs) /\ TrxOK(segs, tr) /\ Extends(segs, segs) /\ c \in PeerIds
      /\ Careful => /\ IdsOK(segs) /\ TrxCare(segs, tr)
                    /\ tr.added \subseteq HeldBy(segs, tr) \cup Committed
  BY <1>0, CallFacts, Zenon
<1>2. ParentSet(c) = {tr.phead}
  <2>1. ParentsOf[c] \in Seq(Nat \ {NoId})
    BY <1>1, IdsAssumption, Zenon
  <2>2. DOMAIN ParentsOf[c] = {1}
    BY <1>0, <2>1
  <2> QED
    BY <1>0, <2>2, Zenon DEF ParentSet
<1>3. \A h \in tr.heads : h.id # c
  BY <1>0, <1>1, NewFacts
<1> HIDE DEF tr
<1>4. CASE ~tr.persp.open /\ Return(t, segs, tr, "no perspective")
  BY <1>0, <1>1, <1>4, ReturnKeeps, Zenon
<1>5. CASE Return(t, segs, tr, "error")
  BY <1>0, <1>1, <1>5, ReturnKeeps, Zenon
<1>6. CASE tr.persp.open /\ Return(t, segs, Added(tr, c), "ok")
  <2>1. TrxOK(segs, Added(tr, c))
    BY <1>1, <1>6, AddedIs, IdsAssumption, Zenon DEF NoId
  <2>2. ASSUME Careful
        PROVE  /\ TrxCare(segs, Added(tr, c))
               /\ Added(tr, c).added \subseteq HeldBy(segs, Added(tr, c)) \cup Committed
    BY <1>1, <1>2, <1>3, <1>6, <2>2, AppendCare, ZenonT(60)
  <2> HIDE DEF Inv
  <2> QED
    BY <1>0, <1>1, <1>6, <2>1, <2>2, ReturnKeeps, ZenonT(60)
<1> QED
  BY <1>4, <1>5, <1>6, Zenon DEF AddToPerspective, tr

\* What holds after the perspective was written.
LEMMA FlushedFacts ==
    ASSUME Inv, NEW t \in Trxs, Idle(t), NEW keep \in BOOLEAN
    PROVE  LET f == Flush(trx[t], keep)
           IN  /\ Extends(f.segs, segs) /\ GraphOK(f.segs) /\ TrxOK(f.segs, f.trx)
               /\ f.trx.persp = NoPersp /\ f.trx.added = trx[t].added
               /\ Careful => IdsOK(f.segs)
               /\ Careful /\ f.ok => FlushCare(trx[t], keep, f)
<1> DEFINE f == Flush(trx[t], keep)
<1>1. /\ GraphOK(segs) /\ TrxOK(segs, trx[t])
      /\ Careful => IdsOK(segs) /\ TrxCare(segs, trx[t])
  BY CallFacts
<1>2. /\ FlushSound(trx[t], f)
      /\ f.ok /\ IdsOK(segs) /\ TrxCare(segs, trx[t]) => FlushCare(trx[t], keep, f)
  BY <1>1, FlushFacts, Zenon
<1> HIDE DEF f
<1>3. /\ Extends(f.segs, segs) /\ GraphOK(f.segs) /\ TrxOK(f.segs, f.trx)
      /\ f.trx.persp = NoPersp /\ f.trx.added = trx[t].added /\ (~f.ok => f.segs = segs)
  BY <1>2, Zenon DEF FlushSound, Extends
<1>4. Careful => IdsOK(f.segs)
  BY <1>1, <1>2, <1>3, Zenon DEF FlushCare
<1> QED
  BY <1>1, <1>2, <1>3, <1>4, ZenonT(60) DEF f

\* A perspective may be opened at ps for the command c, after f was written.
OpensAt(f, c, ps) ==
    /\ ps \in Seq(Locs(f.segs)) /\ ParentSet(c) = IdsAt(f.segs, ps)
    /\ Len(ps) = Len(ParentsOf[c]) /\ \A j \in DOMAIN ps : Id(f.segs, ps[j]) = ParentsOf[c][j]
    /\ \A j \in DOMAIN ps : \E p : ps[j] \in Located(f.segs, f.trx, p)

\* A call that writes the perspective and opens one for c fails before or after it was
\* opened, or adds c to it.
Readds(t, c, f) ==
    \/ Return(t, f.segs, f.trx, "error")
    \/ /\ f.ok
       /\ \E ps, ph : /\ OpensAt(f, c, ps)
                      /\ LET opened == Opened(f.trx, ps, ph, ParentSet(c))
                         IN  \/ Return(t, f.segs, Added(opened, c), "ok")
                             \/ Return(t, f.segs, opened, "error")

\* And after a new one was opened at the parents of c.
LEMMA AddAt ==
    ASSUME Inv, NEW t \in Trxs, Idle(t), NEW c \in PeerIds, IsNew(t, c), NEW keep \in BOOLEAN,
           Flush(trx[t], keep).ok, NEW ps, NEW ph, OpensAt(Flush(trx[t], keep), c, ps)
    PROVE  LET f == Flush(trx[t], keep)
               opened == Opened(f.trx, ps, ph, ParentSet(c))
               new == Added(opened, c)
           IN  /\ Return(t, f.segs, new, "ok") => Keeps
               /\ Return(t, f.segs, opened, "error") => Keeps
<1> DEFINE f == Flush(trx[t], keep)
           opened == Opened(f.trx, ps, ph, ParentSet(c))
           new == Added(opened, c)
<1>0. ps \in Seq(Locs(f.segs)) /\ ParentSet(c) = IdsAt(f.segs, ps)
  BY Zenon DEF OpensAt
<1>1. /\ Extends(f.segs, segs) /\ GraphOK(f.segs) /\ TrxOK(f.segs, f.trx)
      /\ f.trx.persp = NoPersp /\ f.trx.added = trx[t].added
      /\ Careful => IdsOK(f.segs)
      /\ Careful => FlushCare(trx[t], keep, f)
  BY FlushedFacts, Zenon
<1>2. TrxOK(f.segs, opened) /\ TrxOK(f.segs, new)
  <2> HIDE DEF f
  <2> QED
    BY <1>0, <1>1, OpenedSound, ZenonT(60)
<1>3. ASSUME Careful
      PROVE  TrxCare(f.segs, new) /\ new.added \subseteq HeldBy(f.segs, new) \cup Committed
  <2>1. \A h \in f.trx.heads : h.id # c
    <3>1. /\ \A h \in trx[t].heads : h.id # c
          /\ \A i \in DOMAIN trx[t].persp.cmds : trx[t].persp.cmds[i] # c
      BY CallFacts, NewFacts
    <3> QED
      BY <1>1, <1>3, <3>1, ZenonT(60) DEF FlushCare
  <2>2. /\ TrxCare(f.segs, new) /\ new.added = f.trx.added \cup {c}
        /\ HeldBy(f.segs, f.trx) \cup {c} \subseteq HeldBy(f.segs, new)
    <3> HIDE DEF f
    <3> QED
      BY <1>0, <1>1, <1>3, <2>1, OpenedCare
  <2>3. trx[t].added \subseteq HeldBy(segs, trx[t]) \cup Committed
    BY <1>3, CallFacts, Zenon
  <2>4. HeldBy(segs, trx[t]) \subseteq HeldBy(f.segs, f.trx)
    BY <1>1, <1>3, Zenon DEF FlushCare
  <2> HIDE DEF f, new, opened
  <2> QED
    BY <1>1, <2>2, <2>3, <2>4, SMTT(30)
<1> HIDE DEF f, new, opened
<1>4. ASSUME Return(t, f.segs, new, "ok") PROVE Keeps
  BY <1>1, <1>2, <1>3, <1>4, ReturnKeeps, ZenonT(60)
<1>5. ASSUME Return(t, f.segs, opened, "error") PROVE Keeps
  BY <1>1, <1>2, <1>5, ReturnKeeps, Zenon
<1> QED
  BY <1>4, <1>5, Zenon DEF f, new, opened

\* add_single elsewhere.
LEMMA AddElsewhereCases ==
    ASSUME Inv, NEW t \in Trxs, NEW c \in use.ids, AddElsewhere(t, c)
    PROVE  Idle(t) /\ IsNew(t, c) /\ c \in PeerIds /\ Readds(t, c, Flush(trx[t], FALSE))
<1> DEFINE f == Flush(trx[t], FALSE)
           parent == ParentsOf[c][1]
           persp(loc) == [prior |-> <<loc>>, cmds |-> <<>>, open |-> TRUE]
           tr(loc) == [f.trx EXCEPT !.persp = persp(loc), !.phead = parent,
                                    !.heads = Without(@, {parent})]
<1>0. Idle(t) /\ IsNew(t, c) /\ Len(ParentsOf[c]) = 1
  BY Zenon DEF AddElsewhere
<1>1. c \in PeerIds
  BY <1>0, CallFacts
<1>2. /\ Extends(f.segs, segs) /\ TrxOK(f.segs, f.trx) /\ (Careful => IdsOK(f.segs))
  BY <1>0, FlushedFacts, Zenon
<1>3. ParentSet(c) = {parent}
  <2>1. ParentsOf[c] \in Seq(Nat \ {NoId})
    BY <1>1, IdsAssumption
  <2>2. DOMAIN ParentsOf[c] = {1}
    BY <1>0, <2>1
  <2> QED
    BY <1>0, <2>2 DEF ParentSet
<1>4. \/ Return(t, f.segs, f.trx, "error")
      \/ f.ok /\ \E loc \in Located(f.segs, f.trx, parent) :
                   Return(t, f.segs, Added(tr(loc), c), "ok") \/ Return(t, f.segs, tr(loc), "error")
  BY Zenon DEF AddElsewhere
<1>6. ASSUME f.ok, NEW loc \in Located(f.segs, f.trx, parent),
             Return(t, f.segs, Added(tr(loc), c), "ok") \/ Return(t, f.segs, tr(loc), "error")
      PROVE  Readds(t, c, f)
  <2> DEFINE ps == <<loc>>
  <2>1. loc \in Locs(f.segs) /\ Id(f.segs, loc) = parent
    <3> HIDE DEF f, parent
    <3> QED
      BY LocatedFacts
  <2>2. ps \in Seq(Locs(f.segs)) /\ DOMAIN ps = {1} /\ ps[1] = loc /\ Len(ps) = 1
    <3> HIDE DEF f
    <3> QED
      BY <2>1
  <2>3. ParentSet(c) = IdsAt(f.segs, ps)
    <3> HIDE DEF ps, f, parent
    <3> QED
      BY <1>3, <2>1, <2>2, ZenonT(60) DEF IdsAt
  <2>4. tr(loc) = Opened(f.trx, ps, parent, ParentSet(c))
    <3> DEFINE g == f.trx
               sg == f.segs
    <3>1. TrxOK(sg, g)
      BY <1>2, Zenon
    <3>2. tr(loc) = OpenedAt(g, ps, parent, {parent})
      BY Zenon DEF OpenedAt
    <3> HIDE DEF g, sg, parent, ps, tr
    <3>3. tr(loc) = Opened(g, ps, parent, {parent})
      BY <3>1, <3>2, OpenedIs, Zenon
    <3> QED
      BY <1>3, <3>3 DEF g
  <2> HIDE DEF ps
  <2> HIDE DEF f, tr, parent
  <2>5. OpensAt(f, c, ps)
    <3>1. \A j \in DOMAIN ps : \E p : ps[j] \in Located(f.segs, f.trx, p)
      BY <2>2, Zenon
    <3>2. \A j \in DOMAIN ps : Id(f.segs, ps[j]) = ParentsOf[c][j]
      BY <2>1, <2>2, Zenon DEF parent
    <3> QED
      BY <1>0, <2>2, <2>3, <3>1, <3>2, Zenon DEF OpensAt
  <2> QED
    BY <1>6, <2>4, <2>5, Zenon DEF Readds
<1>7. Readds(t, c, f)
  <2> HIDE DEF f
  <2> QED
    BY <1>4, <1>6, Zenon DEF Readds
<1> QED
  BY <1>0, <1>1, <1>7, Zenon

\* add_merge.
LEMMA AddMergeCases ==
    ASSUME Inv, NEW t \in Trxs, NEW c \in use.ids, AddMerge(t, c)
    PROVE  Idle(t) /\ IsNew(t, c) /\ c \in PeerIds /\ Readds(t, c, Flush(trx[t], TRUE))
<1> DEFINE f == Flush(trx[t], TRUE)
           p1 == ParentsOf[c][1]
           p2 == ParentsOf[c][2]
           persp(l, r) == [prior |-> <<l, r>>, cmds |-> <<>>, open |-> TRUE]
           tr(l, r) == [f.trx EXCEPT !.persp = persp(l, r), !.heads = Without(@, {p1, p2})]
<1>0. Idle(t) /\ IsNew(t, c) /\ Len(ParentsOf[c]) = 2
  BY Zenon DEF AddMerge
<1>1. c \in PeerIds
  BY <1>0, CallFacts
<1>2. Extends(f.segs, segs) /\ TrxOK(f.segs, f.trx) /\ (Careful => IdsOK(f.segs))
  BY <1>0, FlushedFacts, Zenon
<1>3. ParentSet(c) = {p1, p2}
  <2>1. ParentsOf[c] \in Seq(Nat \ {NoId})
    BY <1>1, IdsAssumption
  <2>2. DOMAIN ParentsOf[c] = {1, 2}
    BY <1>0, <2>1
  <2> QED
    BY <1>0, <2>2, ZenonT(60) DEF ParentSet
<1>4. \/ Return(t, f.segs, f.trx, "error")
      \/ f.ok /\ \E l \in Located(f.segs, f.trx, p1), r \in Located(f.segs, f.trx, p2) :
                   Return(t, f.segs, Added(tr(l, r), c), "ok")
  BY Zenon DEF AddMerge
<1>6. ASSUME f.ok, NEW l \in Located(f.segs, f.trx, p1), NEW r \in Located(f.segs, f.trx, p2),
             Return(t, f.segs, Added(tr(l, r), c), "ok")
      PROVE  Readds(t, c, f)
  <2> DEFINE ps == <<l, r>>
  <2>1. l \in Locs(f.segs) /\ Id(f.segs, l) = p1 /\ r \in Locs(f.segs) /\ Id(f.segs, r) = p2
    <3> HIDE DEF f, p1, p2
    <3> QED
      BY LocatedFacts, ZenonT(60)
  <2>2. ps \in Seq(Locs(f.segs)) /\ DOMAIN ps = {1, 2} /\ ps[1] = l /\ ps[2] = r /\ Len(ps) = 2
    <3> HIDE DEF f
    <3> QED
      BY <2>1
  <2>3. ParentSet(c) = IdsAt(f.segs, ps)
    <3> HIDE DEF ps, f, p1, p2
    <3> QED
      BY <1>3, <2>1, <2>2, Zenon DEF IdsAt
  <2>4. tr(l, r) = Opened(f.trx, ps, f.trx.phead, ParentSet(c))
    <3> DEFINE g == f.trx
               sg == f.segs
    <3>1. TrxOK(sg, g)
      BY <1>2, Zenon
    <3>2. tr(l, r) = OpenedMerge(g, ps, {p1, p2})
      BY ZenonT(60) DEF OpenedMerge
    <3> HIDE DEF g, sg, p1, p2, ps, tr
    <3>3. tr(l, r) = Opened(g, ps, g.phead, {p1, p2})
      BY <3>1, <3>2, OpenedIs
    <3> QED
      BY <1>3, <3>3 DEF g
  <2> HIDE DEF ps
  <2> HIDE DEF f, tr, p1, p2
  <2>5. OpensAt(f, c, ps)
    <3>1. \A j \in DOMAIN ps : \E p : ps[j] \in Located(f.segs, f.trx, p)
      BY <2>2, Zenon
    <3>2. \A j \in DOMAIN ps : Id(f.segs, ps[j]) = ParentsOf[c][j]
      BY <2>1, <2>2, Zenon DEF p1, p2
    <3> QED
      BY <1>0, <2>2, <2>3, <3>1, <3>2, Zenon DEF OpensAt
  <2> QED
    BY <1>6, <2>4, <2>5, Zenon DEF Readds
<1>7. Readds(t, c, f)
  <2> HIDE DEF f
  <2> QED
    BY <1>4, <1>6, Zenon DEF Readds
<1> QED
  BY <1>0, <1>1, <1>7, Zenon

\* Both keep the invariant.
LEMMA ReaddsKeeps ==
    ASSUME Inv, NEW t \in Trxs, Idle(t), NEW c \in PeerIds, IsNew(t, c), NEW keep \in BOOLEAN,
           Readds(t, c, Flush(trx[t], keep))
    PROVE  Keeps
<1> DEFINE f == Flush(trx[t], keep)
<1>1. Extends(f.segs, segs) /\ TrxOK(f.segs, f.trx) /\ (Careful => IdsOK(f.segs))
  BY FlushedFacts, Zenon
<1>2. CASE Return(t, f.segs, f.trx, "error")
  <2> HIDE DEF f
  <2> QED
    BY <1>1, <1>2, ReturnKeeps, Zenon
<1>3. ASSUME f.ok, NEW ps, NEW ph, OpensAt(f, c, ps),
             LET opened == Opened(f.trx, ps, ph, ParentSet(c))
             IN  Return(t, f.segs, Added(opened, c), "ok") \/ Return(t, f.segs, opened, "error")
      PROVE  Keeps
  BY <1>3, AddAt, ZenonT(30)
<1> QED
  BY <1>2, <1>3, Zenon DEF Readds

\* A segment at the head (new_graph, init, action).
LEMMA HeadStep ==
    ASSUME Inv, busy = NoTrx, NEW seg \in Segments,
           \A j \in DOMAIN seg.prior : seg.prior[j] \in Locs(segs),
           head = NoLoc \/ \E j \in DOMAIN seg.prior : seg.prior[j] = head,
           Careful => IdsOK(Append(segs, seg)),
           segs' = Append(segs, seg), head' = <<Len(segs) + 1, Len(seg.cmds)>>,
           UNCHANGED <<trx, busy, queue, merging, delivered, use>>
    PROVE  Keeps
<1> DEFINE sg == Append(segs, seg)
<1>1. GraphOK(segs) /\ Careful' = Careful
  BY DEF Inv, GraphInv, Careful
<1>2. /\ Extends(sg, segs) /\ head' \in Locs(sg)
      /\ \A j \in DOMAIN seg.prior : IdsUpTo(segs, seg.prior[j]) \subseteq IdsUpTo(sg, head')
  BY <1>1, SegmentHolds, ZenonT(30)
<1> HIDE DEF sg
<1>3. segs' = sg /\ GraphOK(sg) /\ HeadsIn(segs) \subseteq HeadsIn(sg)
  BY <1>1, <1>2, TrxKept, Zenon DEF sg, Extends
<1>4. GraphInv'
  BY <1>2, <1>3, Zenon DEF Inv, GraphInv
<1>5. ASSUME NEW u \in Trxs
      PROVE  /\ TrxOK(sg, trx[u])
             /\ TrxCare(segs, trx[u]) => TrxCare(sg, trx[u])
             /\ HeldBy(sg, trx[u]) = HeldBy(segs, trx[u])
  BY <1>1, <1>2, TrxKept, Zenon DEF Inv, TrxInv
<1>6. TrxInv'
  BY <1>3, <1>5, Zenon DEF Inv, TrxInv
<1>7. CommitInv'
  <2>1. queue = <<>> /\ ~merging
    BY DEF Inv, CommitInv
  <2>2. queue' \in Seq(HeadsIn(segs'))
    BY <2>1
  <2> QED
    BY <2>1, <2>2, Zenon DEF Inv, CommitInv
<1>8. CareInv'
  BY <1>1, <1>3, <1>5, Zenon DEF Inv, CareInv, sg
<1>9. Committed \subseteq Committed'
  <2>1. CASE head = NoLoc
    <3>1. Committed = {}
      BY <1>1, <2>1, UpToNoLoc, ZenonT(60) DEF Committed, IdsUpTo
    <3> QED
      BY <3>1
  <2>2. CASE head # NoLoc
    BY <1>2, <1>3, <2>2, ZenonT(60) DEF Committed
  <2> QED
    BY <2>1, <2>2, ZenonT(60)
<1>10. KeptInv'
  <2> SUFFICES ASSUME Careful
               PROVE  (\A u \in Trxs : AddedOK(u)') /\ delivered' \subseteq Committed'
    BY <1>1, Zenon DEF KeptInv
  <2>1. ASSUME NEW u \in Trxs PROVE AddedOK(u)'
    <3>1. u # NoTrx
      BY IdsAssumption
    <3>2. trx[u].added \subseteq HeldBy(segs, trx[u]) \cup Committed
      BY <3>1, Zenon DEF Inv, KeptInv, AddedOK
    <3> QED
      BY <1>3, <1>5, <1>9, <3>2, ZenonT(60) DEF AddedOK
  <2>2. delivered' \subseteq Committed'
    BY <1>9, Zenon DEF Inv, KeptInv
  <2> QED
    BY <2>1, <2>2, Zenon
<1> QED
  BY <1>4, <1>6, <1>7, <1>8, <1>9, <1>10, ZenonT(60) DEF Inv, Keeps

\* The first segment.
CreatedSeg(cmds) == [prior |-> <<>>, cmds |-> cmds]

\* It has the init command and at most one more.
LEMMA CreateFacts ==
    ASSUME Inv, NEW cmds \in Seq(Nat \ {0}), Create(cmds),
           \/ cmds = <<InitId>>
           \/ \E c \in LocalIds : cmds = <<InitId, c>>
    PROVE  /\ head = NoLoc /\ segs = <<>> /\ busy = NoTrx /\ GraphOK(segs)
           /\ Len(cmds) \in 1..2 /\ cmds[1] = InitId /\ (Len(cmds) = 2 => cmds[2] \in LocalIds)
           /\ CreatedSeg(cmds) \in Segments /\ DOMAIN CreatedSeg(cmds).prior = {}
           /\ CreatedSeg(cmds).cmds = cmds
           /\ segs' = Append(segs, CreatedSeg(cmds))
           /\ head' = <<Len(segs) + 1, Len(CreatedSeg(cmds).cmds)>>
           /\ UNCHANGED <<trx, busy, queue, merging, delivered, use>>
<1> DEFINE seg == CreatedSeg(cmds)
<1>1. head = NoLoc /\ segs = <<>> /\ busy = NoTrx /\ GraphOK(segs)
  <2>1. head = NoLoc /\ busy = NoTrx
    BY DEF Create, Exists
  <2>2. NoLoc \notin Locs(segs)
    <3> SUFFICES ASSUME NoLoc \in Locs(segs) PROVE FALSE
      OBVIOUS
    <3>1. NoLoc[1] \in 1..Len(segs)
      BY LocsFacts DEF Inv, GraphInv, GraphOK
    <3> QED
      BY <3>1 DEF NoLoc
  <2> QED
    BY <2>1, <2>2, ZenonT(60) DEF Inv, GraphInv
<1>2. cmds # <<>> /\ Len(cmds) \in 1..2 /\ cmds[1] = InitId /\ (Len(cmds) = 2 => cmds[2] \in LocalIds)
  OBVIOUS
<1>3. seg \in Segments /\ DOMAIN seg.prior = {} /\ seg.cmds = cmds
  BY <1>2 DEF Segments, CreatedSeg
<1>4. segs' = Append(segs, seg) /\ head' = <<Len(segs) + 1, Len(seg.cmds)>>
  <2>1. Append(<<>>, seg) = <<seg>> /\ Len(<<>>) + 1 = 1
    OBVIOUS
  <2> QED
    BY <1>1, <1>3, <2>1, ZenonT(60) DEF Create, CreatedSeg
<1> QED
  BY <1>1, <1>2, <1>3, <1>4, Zenon DEF Create

\* The first segment has the init command.
LEMMA CreateKeeps ==
    ASSUME Inv, NEW cmds \in Seq(Nat \ {0}), Create(cmds),
           \/ cmds = <<InitId>>
           \/ \E c \in LocalIds : cmds = <<InitId, c>>
    PROVE  Keeps
<1> DEFINE seg == CreatedSeg(cmds)
<1>1. head = NoLoc /\ segs = <<>> /\ busy = NoTrx /\ GraphOK(segs)
  BY CreateFacts, Zenon
<1>2. Len(cmds) \in 1..2 /\ cmds[1] = InitId /\ (Len(cmds) = 2 => cmds[2] \in LocalIds)
  BY CreateFacts, Zenon
<1>3. /\ seg \in Segments /\ DOMAIN seg.prior = {} /\ seg.cmds = cmds
      /\ segs' = Append(segs, seg) /\ head' = <<Len(segs) + 1, Len(seg.cmds)>>
      /\ UNCHANGED <<trx, busy, queue, merging, delivered, use>>
  BY CreateFacts, Zenon
<1> HIDE DEF seg
<1>5. IdsOK(Append(segs, seg))
  <2>1. Locs(segs) = {}
    BY <1>1 DEF Locs
  <2>2. IdsOK(segs)
    BY <2>1 DEF IdsOK
  <2>3. InitId \in PeerIds /\ InitId \notin LocalIds /\ ParentSet(InitId) = {}
    BY IdsAssumption DEF ParentSet
  <2>4. ASSUME NEW i \in 1..Len(seg.cmds)
        PROVE  /\ Lawful(seg.cmds[i], ParentsIn(segs, seg, i))
               /\ \A x \in Locs(segs) : Id(segs, x) # seg.cmds[i]
               /\ seg.cmds[i] \in LocalIds => \A j \in 1..Len(seg.cmds) : seg.cmds[j] = seg.cmds[i] => j = i
    <3>1. i = 1 \/ (i = 2 /\ Len(cmds) = 2)
      <4>1. i \in 1..Len(cmds) /\ (Len(cmds) = 1 \/ Len(cmds) = 2)
        BY <1>2, <1>3
      <4>2. (\A k \in 1..1 : k = 1) /\ (\A k \in 1..2 : k = 1 \/ k = 2)
        OBVIOUS
      <4> QED
        BY <4>1, <4>2, Zenon
    <3>2. CASE i = 1
      <4>1. ParentsIn(segs, seg, 1) = {}
        BY <1>3 DEF ParentsIn
      <4>2. Lawful(InitId, {})
        BY <2>3, IdsAssumption DEF Lawful, NoId
      <4> QED
        BY <1>2, <1>3, <2>1, <2>3, <3>2, <4>1, <4>2, Zenon
    <3>3. CASE i = 2 /\ Len(cmds) = 2
      <4>1. Lawful(cmds[2], ParentsIn(segs, seg, 2))
        BY <1>2, <3>3, IdsAssumption DEF Lawful
      <4>2. \A j \in 1..Len(cmds) : cmds[j] = cmds[2] => j = 2
        BY <1>2, <2>3, <3>3
      <4> QED
        BY <1>3, <2>1, <3>3, <4>1, <4>2, Zenon
    <3> QED
      BY <3>1, <3>2, <3>3
  <2>5. \A j \in DOMAIN seg.prior : seg.prior[j] \in Locs(segs)
    BY <1>3, Zenon
  <2> QED
    BY <1>1, <1>3, <2>2, <2>4, <2>5, IdsGrow, Zenon
<1> QED
  BY <1>1, <1>3, <1>5, HeadStep, ZenonT(60)

\* The segment of an action.
ActionSeg(c) == [prior |-> <<head>>, cmds |-> <<c>>]

\* It has the command after the head.
LEMMA ActionFacts ==
    ASSUME Inv, NEW c \in LocalIds, Action(c)
    PROVE  /\ busy = NoTrx /\ head \in Locs(segs) /\ GraphOK(segs)
           /\ c \in Nat \ {0} /\ c \notin {Id(segs, x) : x \in Locs(segs)}
           /\ ActionSeg(c) \in Segments
           /\ DOMAIN ActionSeg(c).prior = {1} /\ ActionSeg(c).prior[1] = head
           /\ Len(ActionSeg(c).cmds) = 1 /\ DOMAIN ActionSeg(c).cmds = {1} /\ ActionSeg(c).cmds[1] = c
           /\ segs' = Append(segs, ActionSeg(c))
           /\ head' = <<Len(segs) + 1, Len(ActionSeg(c).cmds)>>
           /\ UNCHANGED <<trx, busy, queue, merging, delivered, use>>
<1> DEFINE seg == ActionSeg(c)
<1>1. /\ busy = NoTrx /\ head \in Locs(segs) /\ GraphOK(segs)
      /\ c \in Nat \ {0} /\ c \notin {Id(segs, x) : x \in Locs(segs)}
  BY IdsAssumption DEF Action, Inv, GraphInv, Exists
<1>2. head \in Nat \X Nat
  <2>1. head = <<head[1], head[2]>> /\ head[1] \in 1..Len(segs) /\ head[2] \in 1..Len(segs[head[1]].cmds)
    BY <1>1, LocsFacts, Zenon DEF GraphOK
  <2>2. head[1] \in Nat /\ head[2] \in Nat
    BY <2>1
  <2> QED
    BY <2>1, <2>2, Zenon
<1>3. /\ seg \in Segments /\ DOMAIN seg.prior = {1} /\ seg.prior[1] = head
      /\ Len(seg.cmds) = 1 /\ DOMAIN seg.cmds = {1} /\ seg.cmds[1] = c
  BY <1>1, <1>2 DEF Segments, ActionSeg
<1>4. segs' = Append(segs, seg) /\ head' = <<Len(segs) + 1, Len(seg.cmds)>>
  BY <1>3, Zenon DEF Action, ActionSeg
<1> QED
  BY <1>1, <1>3, <1>4, Zenon DEF Action

\* ClientState::action.
LEMMA ActionKeeps ==
    ASSUME Inv, NEW c \in LocalIds, Action(c)
    PROVE  Keeps
<1> DEFINE seg == ActionSeg(c)
<1>1. /\ busy = NoTrx /\ head \in Locs(segs) /\ GraphOK(segs)
      /\ c \in Nat \ {0} /\ c \notin {Id(segs, x) : x \in Locs(segs)}
  BY ActionFacts, Zenon
<1>3. /\ seg \in Segments /\ DOMAIN seg.prior = {1} /\ seg.prior[1] = head
      /\ Len(seg.cmds) = 1 /\ seg.cmds[1] = c
      /\ segs' = Append(segs, seg) /\ head' = <<Len(segs) + 1, Len(seg.cmds)>>
      /\ UNCHANGED <<trx, busy, queue, merging, delivered, use>>
  BY ActionFacts, Zenon
<1> HIDE DEF seg
<1>5. ASSUME Careful PROVE IdsOK(Append(segs, seg))
  <2>1. IdsOK(segs)
    BY <1>5, Zenon DEF Inv, CareInv
  <2>2. ASSUME NEW i \in 1..Len(seg.cmds)
        PROVE  /\ Lawful(seg.cmds[i], ParentsIn(segs, seg, i))
               /\ \A x \in Locs(segs) : Id(segs, x) # seg.cmds[i]
               /\ \A j \in 1..Len(seg.cmds) : seg.cmds[j] = seg.cmds[i] => j = i
    <3>1. i = 1 /\ \A j \in 1..Len(seg.cmds) : j = 1
      BY <1>3
    <3>2. Lawful(c, ParentsIn(segs, seg, i))
      BY <1>1, IdsAssumption, Zenon DEF Lawful
    <3> QED
      BY <1>1, <1>3, <3>1, <3>2, Zenon
  <2>3. \A j \in DOMAIN seg.prior : seg.prior[j] \in Locs(segs)
    BY <1>1, <1>3, Zenon
  <2> QED
    BY <1>1, <1>3, <2>1, <2>2, <2>3, IdsGrow, Zenon
<1> QED
  BY <1>1, <1>3, <1>5, HeadStep, Zenon

-----------------------------------------------------------------------------
(* Transaction::commit.                                                    *)

\* The heads are taken.
LEMMA CommitStartKeeps ==
    ASSUME Inv, NEW t \in Trxs, CommitStart(t)
    PROVE  Keeps
<1> DEFINE f == Flush(trx[t], FALSE)
           new == [f.trx EXCEPT !.heads = {}]
<1>0. Idle(t)
  BY DEF CommitStart
<1>1. /\ Extends(f.segs, segs) /\ GraphOK(f.segs) /\ TrxOK(f.segs, f.trx)
      /\ f.trx.persp = NoPersp /\ f.trx.added = trx[t].added
      /\ Careful => IdsOK(f.segs)
      /\ Careful /\ f.ok => FlushCare(trx[t], FALSE, f)
  BY <1>0, FlushedFacts, Zenon
<1>2. CASE Return(t, f.segs, f.trx, "error")
  <2> HIDE DEF f
  <2> QED
    BY <1>0, <1>1, <1>2, ReturnKeeps, Zenon
<1>3. ASSUME f.ok, segs' = f.segs, trx' = [trx EXCEPT ![t] = new],
             NEW q \in Orders(f.trx.heads), queue' = q,
             busy' = t, merging' = FALSE, UNCHANGED <<head, sink, delivered, use>>
      PROVE  Keeps
  <2> HIDE DEF f
  <2>1. Careful' = Careful
    BY <1>3, ZenonT(60) DEF Careful
  <2>2. /\ new.persp = NoPersp /\ new.heads = {} /\ new.added = trx[t].added /\ new.phead = f.trx.phead
        /\ TrxOK(f.segs, new)
    <3>1. f.trx = [persp |-> f.trx.persp, phead |-> f.trx.phead, heads |-> f.trx.heads, added |-> f.trx.added]
      BY <1>1, Zenon DEF TrxOK
    <3>2. new = [persp |-> f.trx.persp, phead |-> f.trx.phead, heads |-> {}, added |-> f.trx.added]
      BY <3>1
    <3>3. /\ new.persp = f.trx.persp /\ new.heads = {} /\ new.added = f.trx.added /\ new.phead = f.trx.phead
          /\ new = [persp |-> new.persp, phead |-> new.phead, heads |-> new.heads, added |-> new.added]
      BY <3>2
    <3> HIDE DEF new
    <3> QED
      BY <1>1, <3>3, SMTT(30) DEF TrxOK
  <2> HIDE DEF new
  <2>3. q \in Seq(HeadsIn(f.segs)) /\ \A h \in f.trx.heads : \E i \in DOMAIN q : q[i] = h
    <3>1. f.trx.heads \subseteq HeadsIn(f.segs)
      BY <1>1 DEF TrxOK
    <3>2. q \in Seq(f.trx.heads)
      BY OrdersFacts
    <3>3. q \in Seq(HeadsIn(f.segs))
      BY <3>1, <3>2, SMTT(30)
    <3> QED
      BY <3>3, OrdersFacts
  <2>4. /\ GraphOK(segs) /\ Locs(segs) \subseteq Locs(f.segs) /\ head \in Locs(segs)
    BY <1>0, <1>1, UpToKept, Zenon DEF Inv, GraphInv, Idle, Exists
  <2>5. GraphInv'
    BY <1>1, <1>3, <2>4, Zenon DEF Inv, GraphInv
  <2>6. trx'[t] = new /\ \A u \in Trxs : u # t => trx'[u] = trx[u]
    BY <1>3, Zenon DEF Inv, TrxInv
  <2>7. ASSUME NEW u \in Trxs, u # t
        PROVE  /\ TrxOK(f.segs, trx[u])
               /\ TrxCare(segs, trx[u]) => TrxCare(f.segs, trx[u])
               /\ HeldBy(f.segs, trx[u]) = HeldBy(segs, trx[u])
    BY <1>1, <2>4, TrxKept, Zenon DEF Inv, TrxInv
  <2>8. TrxInv'
    <3>1. trx' = [u \in Trxs |-> trx'[u]]
      BY <1>3, Zenon DEF Inv, TrxInv
    <3>2. \A u \in Trxs : TrxOK(f.segs, trx'[u])
      BY <2>2, <2>6, <2>7, Zenon
    <3> QED
      BY <1>3, <3>1, <3>2, Zenon DEF TrxInv
  <2>9. CommitInv'
    <3>1. t # NoTrx /\ Exists'
      BY <1>0, <1>3, IdsAssumption DEF Idle, Exists
    <3> QED
      BY <1>3, <2>2, <2>3, <2>6, <3>1, Zenon DEF CommitInv
  <2>10. CareInv'
    <3> SUFFICES ASSUME Careful PROVE IdsOK(f.segs) /\ \A u \in Trxs : TrxCare(f.segs, trx'[u])
      BY <1>3, <2>1, Zenon DEF CareInv
    <3>1. new.phead = NoId
      BY <1>1, <1>3, <2>2, Zenon DEF FlushCare
    <3>2. TrxCare(f.segs, new)
      <4>1. ~NoPersp.open /\ 1..Len(NoPersp.cmds) = {}
        BY DEF NoPersp
      <4> QED
        BY <2>2, <3>1, <4>1, Zenon DEF TrxCare
    <3> QED
      BY <1>1, <2>6, <2>7, <3>2, Zenon DEF Inv, CareInv
  <2>11. Committed' = Committed
    <3>1. IdsUpTo(f.segs, head) = Committed
      BY <1>1, CommittedSame DEF Inv
    <3> QED
      BY <1>3, <3>1, Zenon DEF Committed
  <2>12. KeptInv'
    <3> SUFFICES ASSUME Careful
                 PROVE  (\A u \in Trxs : AddedOK(u)') /\ delivered' \subseteq Committed'
      BY <2>1, Zenon DEF KeptInv
    <3>1. AddedOK(t)'
      <4>1. trx[t].added \subseteq HeldBy(segs, trx[t]) \cup Committed
        BY <1>0, CallFacts, Zenon
      <4>2. HeldBy(segs, trx[t]) \subseteq HeldBy(f.segs, f.trx)
        BY <1>1, <1>3, Zenon DEF FlushCare
      <4>3. HeldBy(f.segs, f.trx) = UNION {IdsUpTo(f.segs, h.loc) : h \in f.trx.heads}
        <5>1. DOMAIN NoPersp.cmds = {} /\ DOMAIN NoPersp.prior = {}
          BY DEF NoPersp
        <5> QED
          BY <1>1, <5>1 DEF HeldBy
      <4>4. InQueue' = UNION {IdsUpTo(f.segs, q[i].loc) : i \in DOMAIN q}
        BY <1>3 DEF InQueue
      <4>5. HeldBy(f.segs, f.trx) \subseteq InQueue'
        BY <2>3, <4>3, <4>4, ZenonT(60)
      <4>6. trx'[t].added \subseteq Committed' \cup InQueue'
        BY <2>2, <2>6, <2>11, <4>1, <4>2, <4>5, Zenon
      <4> QED
        BY <1>3, <4>6, Zenon DEF AddedOK
    <3>2. ASSUME NEW u \in Trxs, u # t PROVE AddedOK(u)'
      <4>1. u # busy
        BY <1>0, IdsAssumption, Zenon DEF Idle
      <4>2. trx[u].added \subseteq HeldBy(segs, trx[u]) \cup Committed
        BY <4>1 DEF Inv, KeptInv, AddedOK
      <4> QED
        BY <1>3, <2>6, <2>7, <2>11, <3>2, <4>2, ZenonT(60) DEF AddedOK
    <3>3. delivered' \subseteq Committed'
      BY <1>3, <2>11, ZenonT(60) DEF Inv, KeptInv
    <3> QED
      BY <3>1, <3>2, <3>3, Zenon
  <2> QED
    BY <2>5, <2>8, <2>9, <2>10, <2>11, <2>12, ZenonT(60) DEF Inv, Keeps
<1> QED
  BY <1>2, <1>3, Zenon DEF CommitStart

\* The end of a commit: everything that was added is behind the head.
LEMMA CommitEndKeeps ==
    ASSUME Inv, busy # NoTrx, NEW res, CommitEnd(res), UNCHANGED <<segs, use>>,
           head' \in Locs(segs), Committed \subseteq IdsUpTo(segs, head'),
           res = "ok" => InQueue \subseteq IdsUpTo(segs, head')
    PROVE  Keeps
<1> DEFINE new == IF res = "ok" \/ ~use.goes_on THEN NewTrx ELSE trx[busy]
<1>1. /\ busy \in Trxs /\ trx[busy].heads = {} /\ trx[busy].persp = NoPersp
      /\ Careful' = Careful
  BY Zenon DEF Inv, CommitInv, Careful
<1>2. /\ trx' = [trx EXCEPT ![busy] = new]
      /\ delivered' = IF res = "ok" THEN delivered \cup trx[busy].added ELSE delivered
      /\ busy' = NoTrx /\ queue' = <<>> /\ merging' = FALSE
  BY DEF CommitEnd
<1>3. Committed \subseteq Committed' /\ (res = "ok" => InQueue \subseteq Committed')
  BY Zenon DEF Committed
<1>4. TrxOK(segs, new) /\ (Careful => new = NewTrx)
  BY <1>1, NewTrxFacts, ZenonT(60) DEF Inv, TrxInv, Careful
<1> HIDE DEF new
<1>5. trx'[busy] = new /\ \A u \in Trxs : u # busy => trx'[u] = trx[u]
  BY <1>1, <1>2, Zenon DEF Inv, TrxInv
<1>6. GraphInv'
  BY DEF Inv, GraphInv
<1>7. TrxInv'
  <2>1. trx' = [u \in Trxs |-> trx'[u]]
    BY <1>2 DEF Inv, TrxInv
  <2>2. \A u \in Trxs : TrxOK(segs, trx'[u])
    BY <1>4, <1>5, ZenonT(60) DEF Inv, TrxInv
  <2> QED
    BY <2>1, <2>2, ZenonT(60) DEF TrxInv
<1>8. CommitInv'
  <2>1. queue' \in Seq(HeadsIn(segs'))
    BY <1>2
  <2> QED
    BY <1>2, <2>1, Zenon DEF CommitInv
<1>9. CareInv'
  <2> SUFFICES ASSUME Careful PROVE IdsOK(segs) /\ \A u \in Trxs : TrxCare(segs, trx'[u])
    BY <1>1 DEF CareInv
  <2> QED
    BY <1>4, <1>5, NewTrxFacts, ZenonT(60) DEF Inv, CareInv
<1>10. KeptInv'
  <2> SUFFICES ASSUME Careful
               PROVE  (\A u \in Trxs : AddedOK(u)') /\ delivered' \subseteq Committed'
    BY <1>1, Zenon DEF KeptInv
  <2>1. trx'[busy].added = {}
    BY <1>4, <1>5, NewTrxFacts, ZenonT(60)
  <2>2. ASSUME NEW u \in Trxs PROVE AddedOK(u)'
    <3>1. CASE u = busy
      BY <2>1, <3>1, Zenon DEF AddedOK
    <3>2. CASE u # busy
      <4>1. trx[u].added \subseteq HeldBy(segs, trx[u]) \cup Committed
        BY <3>2, Zenon DEF Inv, KeptInv, AddedOK
      <4> QED
        BY <1>3, <1>5, <3>2, <4>1, ZenonT(60) DEF AddedOK
    <3> QED
      BY <3>1, <3>2, Zenon
  <2>3. HeldBy(segs, trx[busy]) = {}
    <3>1. DOMAIN NoPersp.cmds = {} /\ DOMAIN NoPersp.prior = {}
      BY DEF NoPersp
    <3> QED
      BY <1>1, <3>1, ZenonT(60) DEF HeldBy
  <2>4. trx[busy].added \subseteq Committed \cup InQueue /\ delivered \subseteq Committed
    BY <1>1, <2>3, ZenonT(60) DEF Inv, KeptInv, AddedOK
  <2>5. delivered' \subseteq Committed'
    BY <1>2, <1>3, <2>4, ZenonT(60)
  <2> QED
    BY <2>2, <2>5, ZenonT(60)
<1> QED
  BY <1>3, <1>6, <1>7, <1>8, <1>9, <1>10, ZenonT(60) DEF Inv, Keeps

\* A step within commit: nothing leaves the queue unless it is behind something in it.
LEMMA QueueStep ==
    ASSUME Inv, busy # NoTrx, NEW sg, Extends(sg, segs), segs' = sg,
           queue' \in Seq(HeadsIn(sg)), InQueue \subseteq InQueue',
           merging' => \/ Len(queue') = 2 /\ queue'[2].loc = head
                       \/ Len(queue') = 1 /\ Descends(queue[1].loc)',
           Careful => IdsOK(sg), UNCHANGED <<head, trx, busy, delivered, use>>
    PROVE  Keeps
<1>1. Careful' = Careful /\ GraphOK(segs) /\ GraphOK(sg) /\ Exists
  BY DEF Careful, Inv, GraphInv, Extends, CommitInv
<1>2. head \in Locs(segs) /\ Locs(segs) \subseteq Locs(sg)
  BY <1>1, UpToKept, ZenonT(60) DEF Inv, GraphInv, Exists
<1>3. GraphInv'
  BY <1>1, <1>2, ZenonT(60) DEF Inv, GraphInv
<1>4. ASSUME NEW u \in Trxs
      PROVE  /\ TrxOK(sg, trx[u])
             /\ TrxCare(segs, trx[u]) => TrxCare(sg, trx[u])
             /\ HeldBy(sg, trx[u]) = HeldBy(segs, trx[u])
  BY <1>1, TrxKept, Zenon DEF Inv, TrxInv
<1>5. TrxInv'
  BY <1>4, Zenon DEF Inv, TrxInv
<1>6. CommitInv'
  <2>1. /\ busy' \in Trxs \cup {NoTrx} /\ busy' # NoTrx
        /\ Exists' /\ trx'[busy'].heads = {} /\ trx'[busy'].persp = NoPersp
    BY DEF Inv, CommitInv, Exists
  <2> QED
    BY <2>1, ZenonT(60) DEF CommitInv
<1>7. CareInv'
  BY <1>1, <1>4, ZenonT(60) DEF Inv, CareInv
<1>8. Committed' = Committed
  <2>1. IdsUpTo(sg, head) = Committed
    BY CommittedSame DEF Inv
  <2> QED
    BY <2>1 DEF Committed
<1>9. KeptInv'
  <2> SUFFICES ASSUME Careful
               PROVE  (\A u \in Trxs : AddedOK(u)') /\ delivered' \subseteq Committed'
    BY <1>1, Zenon DEF KeptInv
  <2>1. ASSUME NEW u \in Trxs PROVE AddedOK(u)'
    <3>1. trx[u].added \subseteq HeldBy(segs, trx[u]) \cup Committed \cup (IF busy = u THEN InQueue ELSE {})
      BY Zenon DEF Inv, KeptInv, AddedOK
    <3>2. trx'[u].added \subseteq HeldBy(sg, trx[u]) \cup Committed' \cup (IF busy = u THEN InQueue' ELSE {})
      BY <1>4, <1>8, <3>1, ZenonT(60)
    <3> QED
      BY <3>2, Zenon DEF AddedOK
  <2>2. delivered' \subseteq Committed'
    BY <1>8, Zenon DEF Inv, KeptInv
  <2> QED
    BY <2>1, <2>2, ZenonT(60)
<1> QED
  BY <1>3, <1>5, <1>6, <1>7, <1>8, <1>9, ZenonT(60) DEF Inv, Keeps

\* The heads in the queue are in the graph.
LEMMA QueueFacts ==
    ASSUME Inv, queue # <<>>
    PROVE  /\ busy # NoTrx /\ head \in Locs(segs) /\ GraphOK(segs) /\ Len(queue) \in Nat \ {0}
           /\ DOMAIN queue = 1..Len(queue)
           /\ \A i \in 1..Len(queue) : /\ queue[i] \in HeadsIn(segs)
                                       /\ queue[i].loc \in Locs(segs)
                                       /\ queue[i].id = Id(segs, queue[i].loc)
                                       /\ queue[i].id \in Nat \ {0}
<1>1. busy # NoTrx /\ head \in Locs(segs) /\ GraphOK(segs) /\ queue \in Seq(HeadsIn(segs))
  BY DEF Inv, CommitInv, GraphInv, Exists
<1>2. Len(queue) \in Nat \ {0} /\ DOMAIN queue = 1..Len(queue)
  BY <1>1
<1>3. ASSUME NEW x \in Locs(segs) PROVE Id(segs, x) \in Nat \ {0}
  <2>1. /\ x[1] \in 1..Len(segs) /\ x[2] \in 1..Len(segs[x[1]].cmds)
        /\ segs \in Seq(Segments)
    BY <1>1, LocsFacts DEF GraphOK
  <2>2. segs[x[1]] \in Segments
    BY <2>1
  <2>3. segs[x[1]].cmds \in Seq(Nat \ {0})
    BY <2>2, ZenonT(60) DEF Segments
  <2> QED
    BY <2>1, <2>3 DEF Id
<1>4. ASSUME NEW i \in 1..Len(queue)
      PROVE  /\ queue[i] \in HeadsIn(segs) /\ queue[i].loc \in Locs(segs)
             /\ queue[i].id = Id(segs, queue[i].loc)
  <2>1. queue[i] \in HeadsIn(segs)
    BY <1>1, SMTT(30)
  <2> QED
    BY <2>1 DEF HeadsIn
<1> QED
  BY <1>1, <1>2, <1>3, <1>4, ZenonT(60)

\* Two heads l and r are merged into the segment seg, which takes their place at the
\* end of the queue.
Merges(l, r, seg) ==
    /\ {l, r} = {queue[1], queue[2]}
    /\ l.loc \in Locs(segs) /\ l.id = Id(segs, l.loc) /\ l.id \in Nat \ {0}
    /\ r.loc \in Locs(segs) /\ r.id = Id(segs, r.loc) /\ r.id \in Nat \ {0}
    /\ seg \in Segments /\ DOMAIN seg.prior = {1, 2}
    /\ seg.prior[1] = l.loc /\ seg.prior[2] = r.loc
    /\ Len(seg.cmds) = 1 /\ DOMAIN seg.cmds = {1} /\ seg.cmds[1] = MergeId(l.id, r.id)
    /\ segs' = Append(segs, seg)
    /\ queue' \in Seq(HeadsIn(segs) \cup {[id |-> seg.cmds[1], loc |-> <<Len(segs) + 1, 1>>]})
    /\ Len(queue') = Len(queue) - 1 /\ DOMAIN queue' = 1..(Len(queue) - 1)
    /\ queue'[Len(queue) - 1] = [id |-> seg.cmds[1], loc |-> <<Len(segs) + 1, 1>>]
    /\ \A i \in 3..Len(queue) : i - 2 \in DOMAIN queue' /\ queue'[i - 2] = queue[i]

\* What MergeHeads does.
LEMMA MergeHeadsFacts ==
    ASSUME Inv, MergeHeads
    PROVE  /\ Len(queue) > 1 /\ queue # <<>>
           /\ UNCHANGED <<head, trx, busy, merging, sink, result, delivered, use>>
           /\ \E l, r, seg : Merges(l, r, seg)
<1> DEFINE l == IF queue[1].id < queue[2].id THEN queue[1] ELSE queue[2]
           r == IF queue[1].id < queue[2].id THEN queue[2] ELSE queue[1]
           m == MergeId(l.id, r.id)
           seg == [prior |-> <<l.loc, r.loc>>, cmds |-> <<m>>]
           sg == Append(segs, seg)
           rest == SubSeq(queue, 3, Len(queue))
           new == [id |-> m, loc |-> <<Len(segs) + 1, 1>>]
           Heads == HeadsIn(segs) \cup {new}
<1>1. /\ Len(queue) > 1 /\ segs' = sg /\ queue' = Append(rest, new)
      /\ UNCHANGED <<head, trx, busy, merging, sink, result, delivered, use>>
  BY Zenon DEF MergeHeads
<1>2. queue # <<>>
  BY <1>1 DEF Inv, CommitInv
<1>3. /\ busy # NoTrx /\ head \in Locs(segs) /\ GraphOK(segs) /\ Len(queue) \in Nat
      /\ DOMAIN queue = 1..Len(queue)
      /\ \A i \in 1..Len(queue) : /\ queue[i] \in HeadsIn(segs)
                                  /\ queue[i].loc \in Locs(segs)
                                  /\ queue[i].id = Id(segs, queue[i].loc)
                                  /\ queue[i].id \in Nat \ {0}
  BY <1>2, QueueFacts, Zenon
<1>4. 1 \in 1..Len(queue) /\ 2 \in 1..Len(queue)
  BY <1>1, <1>3
<1>5. /\ {l, r} = {queue[1], queue[2]}
      /\ l.loc \in Locs(segs) /\ l.id = Id(segs, l.loc) /\ l.id \in Nat \ {0}
      /\ r.loc \in Locs(segs) /\ r.id = Id(segs, r.loc) /\ r.id \in Nat \ {0}
  BY <1>3, <1>4
<1> HIDE DEF l, r
<1>6. m \in Nat \ {0} /\ Lawful(m, {l.id, r.id}) /\ m \notin LocalIds
  BY <1>5, MergeLawful, Zenon DEF Lawful
<1> HIDE DEF m
<1>7. /\ seg \in Segments /\ DOMAIN seg.prior = {1, 2}
      /\ seg.prior[1] = l.loc /\ seg.prior[2] = r.loc
      /\ Len(seg.cmds) = 1 /\ DOMAIN seg.cmds = {1} /\ seg.cmds[1] = m
  <2>1. \A x \in Locs(segs) : x \in Nat \X Nat
    <3>1. ASSUME NEW x \in Locs(segs) PROVE x \in Nat \X Nat
      <4>1. x = <<x[1], x[2]>> /\ x[1] \in 1..Len(segs) /\ x[2] \in 1..Len(segs[x[1]].cmds)
        BY <1>3, LocsFacts DEF GraphOK
      <4>2. x[1] \in Nat /\ x[2] \in Nat
        BY <4>1
      <4> QED
        BY <4>1, <4>2, Zenon
    <3> QED
      BY <3>1
  <2> QED
    BY <1>5, <1>6, <2>1 DEF Segments
<1> HIDE DEF seg
<1>8. /\ rest \in Seq(Heads) /\ Len(rest) = Len(queue) - 2
       /\ \A i \in 3..Len(queue) : i - 2 \in 1..Len(rest) /\ rest[i - 2] = queue[i]
  <2>1. queue \in Seq(Heads)
    <3>1. queue \in Seq(HeadsIn(segs))
      BY Zenon DEF Inv, CommitInv
    <3>2. HeadsIn(segs) \subseteq Heads
      BY Zenon
    <3> HIDE DEF Heads
    <3> QED
      BY <3>1, <3>2
  <2>2. Len(queue) >= 2
    BY <1>1, <1>3
  <2> HIDE DEF Heads
  <2> QED
    BY <1>3, <2>1, <2>2
<1> HIDE DEF rest
<1>9. /\ queue' \in Seq(Heads) /\ Len(queue') = Len(queue) - 1
       /\ DOMAIN queue' = 1..(Len(queue) - 1) /\ queue'[Len(queue) - 1] = new
       /\ \A i \in 3..Len(queue) : i - 2 \in DOMAIN queue' /\ queue'[i - 2] = queue[i]
  <2>0. new \in Heads
    BY Zenon
  <2> HIDE DEF Heads, new
  <2>1. Len(rest) + 1 = Len(queue) - 1
    BY <1>3, <1>8
  <2>2. /\ Append(rest, new) \in Seq(Heads) /\ Len(Append(rest, new)) = Len(rest) + 1
        /\ DOMAIN Append(rest, new) = 1..(Len(rest) + 1) /\ Append(rest, new)[Len(rest) + 1] = new
        /\ \A i \in 1..Len(rest) : Append(rest, new)[i] = rest[i]
    BY <1>8, <2>0, AppendFacts
  <2>3. \A i \in 3..Len(queue) : i - 2 \in 1..(Len(queue) - 1)
    BY <1>3
  <2> QED
    BY <1>1, <1>8, <2>1, <2>2, <2>3, ZenonT(60)
<1>10. new = [id |-> seg.cmds[1], loc |-> <<Len(segs) + 1, 1>>]
  BY <1>7, Zenon
<1> HIDE DEF new, sg
<1>11. Merges(l, r, seg)
  BY <1>1, <1>5, <1>7, <1>9, <1>10, Zenon DEF Merges, m, sg, Heads
<1> QED
  BY <1>1, <1>2, <1>11, Zenon

\* Two heads are merged.
LEMMA MergeHeadsKeeps == ASSUME Inv, MergeHeads PROVE Keeps
<1>1. /\ Len(queue) > 1 /\ queue # <<>>
      /\ UNCHANGED <<head, trx, busy, merging, sink, result, delivered, use>>
  BY MergeHeadsFacts, Zenon
<1>2. PICK l, r, seg : Merges(l, r, seg)
  BY MergeHeadsFacts, Zenon
<1> DEFINE m == MergeId(l.id, r.id)
           n == Len(segs) + 1
           sg == Append(segs, seg)
           new == [id |-> m, loc |-> <<n, 1>>]
<1>3. /\ busy # NoTrx /\ head \in Locs(segs) /\ GraphOK(segs) /\ Len(queue) \in Nat
      /\ DOMAIN queue = 1..Len(queue)
      /\ \A i \in 1..Len(queue) : queue[i] \in HeadsIn(segs) /\ queue[i].loc \in Locs(segs)
  BY <1>1, QueueFacts, Zenon
<1>5. /\ {l, r} = {queue[1], queue[2]}
      /\ l.loc \in Locs(segs) /\ l.id = Id(segs, l.loc) /\ l.id \in Nat \ {0}
      /\ r.loc \in Locs(segs) /\ r.id = Id(segs, r.loc) /\ r.id \in Nat \ {0}
  BY <1>2, Zenon DEF Merges
<1>6. m \in Nat \ {0} /\ Lawful(m, {l.id, r.id}) /\ m \notin LocalIds
  BY <1>5, MergeLawful, Zenon DEF Lawful
<1> HIDE DEF m
<1>7. /\ seg \in Segments /\ DOMAIN seg.prior = {1, 2}
      /\ seg.prior[1] = l.loc /\ seg.prior[2] = r.loc
      /\ Len(seg.cmds) = 1 /\ seg.cmds[1] = m /\ segs' = sg
  BY <1>2, Zenon DEF Merges, m
<1>8. \A j \in DOMAIN seg.prior : seg.prior[j] \in Locs(segs)
  BY <1>5, <1>7, ZenonT(60)
<1>9. /\ Extends(sg, segs) /\ <<n, 1>> \in Locs(sg) /\ Id(sg, <<n, 1>>) = m
      /\ \A j \in DOMAIN seg.prior : /\ seg.prior[j] \in Before(sg, <<n, 1>>)
                                    /\ IdsUpTo(segs, seg.prior[j]) \subseteq IdsUpTo(sg, <<n, 1>>)
  <2> DEFINE last == HeadOf(sg, Len(sg))
  <2>0. GraphOK(segs) /\ seg \in Segments
    BY <1>3, <1>7, SMTT(30)
  <2>1. /\ Extends(sg, segs) /\ last = <<n, Len(seg.cmds)>> /\ last \in Locs(sg)
        /\ Id(sg, last) = seg.cmds[Len(seg.cmds)]
        /\ \A j \in DOMAIN seg.prior : /\ seg.prior[j] \in Before(sg, <<n, 1>>)
                                      /\ IdsUpTo(segs, seg.prior[j]) \subseteq IdsUpTo(sg, last)
    BY <1>8, <2>0, SegmentHolds, ZenonT(60)
  <2> HIDE DEF last, sg, n
  <2>2. last = <<n, 1>> /\ Id(sg, last) = m
    BY <1>7, <2>1, ZenonT(60)
  <2> QED
    BY <2>1, <2>2, ZenonT(60)
<1>10. ASSUME Careful PROVE IdsOK(sg)
  <2>1. IdsOK(segs)
    BY <1>10, ZenonT(60) DEF Inv, CareInv
  <2>2. ASSUME NEW i \in 1..Len(seg.cmds)
        PROVE  Lawful(seg.cmds[i], ParentsIn(segs, seg, i)) /\ seg.cmds[i] \notin LocalIds
    <3>1. i = 1
      BY <1>7
    <3>2. ParentsIn(segs, seg, 1) = {l.id, r.id}
      BY <1>5, <1>7, SMTT(30) DEF ParentsIn
    <3> QED
      BY <1>6, <1>7, <3>1, <3>2, ZenonT(60)
  <2> QED
    BY <1>3, <1>7, <1>8, <2>1, <2>2, IdsGrow, Zenon
<1> HIDE DEF sg
<1>11. new \in HeadsIn(sg) /\ HeadsIn(segs) \subseteq HeadsIn(sg) /\ new.loc = <<n, 1>>
  <2>1. HeadsIn(segs) \subseteq HeadsIn(sg)
    BY <1>3, <1>9, TrxKept, Zenon
  <2>2. new.loc = <<n, 1>>
    BY Zenon
  <2> QED
    BY <1>9, <2>1, <2>2, Zenon DEF HeadsIn
<1>12. /\ Len(queue') = Len(queue) - 1 /\ DOMAIN queue' = 1..(Len(queue) - 1)
       /\ queue'[Len(queue) - 1] = new
       /\ \A i \in 3..Len(queue) : i - 2 \in DOMAIN queue' /\ queue'[i - 2] = queue[i]
  BY <1>2, <1>7, Zenon DEF Merges
<1> HIDE DEF n, new
<1>13. queue' \in Seq(HeadsIn(sg))
  <2>1. queue' \in Seq(HeadsIn(segs) \cup {new})
    BY <1>2, <1>7, Zenon DEF Merges, new, n
  <2>2. HeadsIn(segs) \cup {new} \subseteq HeadsIn(sg)
    BY <1>11, Zenon
  <2> QED
    BY <2>1, <2>2
<1>14. InQueue \subseteq InQueue'
  <2>1. ASSUME NEW i \in 1..Len(queue)
        PROVE  \E j \in DOMAIN queue' : IdsUpTo(segs, queue[i].loc) \subseteq IdsUpTo(sg, queue'[j].loc)
    <3>1. CASE i \in 3..Len(queue)
      <4>1. IdsUpTo(sg, queue[i].loc) = IdsUpTo(segs, queue[i].loc)
        <5>1. queue[i].loc \in Locs(segs) /\ GraphOK(segs) /\ Extends(sg, segs)
          BY <1>3, <1>9, Zenon
        <5> QED
          BY <5>1, UpToKept
      <4> QED
        BY <1>12, <3>1, <4>1, Zenon
    <3>2. CASE i \in {1, 2}
      <4>1. queue[i] \in {l, r}
        BY <1>5, <3>2, Zenon
      <4>2. IdsUpTo(segs, queue[i].loc) \subseteq IdsUpTo(sg, new.loc)
        BY <1>7, <1>9, <1>11, <4>1, Zenon
      <4>3. Len(queue) - 1 \in DOMAIN queue'
        <5>1. Len(queue) > 1 /\ Len(queue) \in Nat
          BY <1>1, <1>3, Zenon
        <5>2. Len(queue) - 1 \in 1..(Len(queue) - 1)
          BY <5>1
        <5> QED
          BY <1>12, <5>2
      <4> QED
        BY <1>12, <4>2, <4>3, Zenon
    <3>3. i \in {1, 2} \/ i \in 3..Len(queue)
      BY <1>3
    <3> QED
      BY <3>1, <3>2, <3>3
  <2>2. InQueue' = UNION {IdsUpTo(sg, queue'[j].loc) : j \in DOMAIN queue'}
    <3>1. segs' = sg
      BY <1>7, Zenon
    <3> QED
      BY <3>1, Zenon DEF InQueue
  <2>3. ASSUME NEW x \in InQueue PROVE x \in InQueue'
    <3>1. PICK i \in DOMAIN queue : x \in IdsUpTo(segs, queue[i].loc)
      BY DEF InQueue
    <3>2. PICK j \in DOMAIN queue' : IdsUpTo(segs, queue[i].loc) \subseteq IdsUpTo(sg, queue'[j].loc)
      BY <1>3, <2>1, Zenon
    <3> QED
      BY <2>2, <3>1, <3>2, Zenon
  <2> QED
    BY <2>3, Zenon
<1>15. ASSUME merging' PROVE Len(queue') = 1 /\ Descends(queue[1].loc)'
  <2>1. Len(queue) = 2 /\ queue[2].loc = head
    BY <1>1, <1>15 DEF Inv, CommitInv
  <2>2. Len(queue') = 1 /\ queue'[1].loc = <<n, 1>>
    BY <1>11, <1>12, <2>1
  <2>3. head \in Before(sg, <<n, 1>>)
    <3>1. queue[2] = l \/ queue[2] = r
      BY <1>5, Zenon
    <3> QED
      BY <1>7, <1>9, <2>1, <3>1, Zenon
  <2>4. Descends(queue[1].loc)' <=> head' \in Before(segs', <<queue'[1].loc[1], 1>>)
    BY DEF Descends
  <2>5. <<n, 1>>[1] = n
    OBVIOUS
  <2> QED
    BY <1>1, <1>7, <2>2, <2>3, <2>4, <2>5, Zenon
<1> QED
  BY <1>1, <1>3, <1>7, <1>9, <1>10, <1>13, <1>14, <1>15, QueueStep, ZenonT(30)

\* The committed head becomes one more head to merge.
LEMMA MergeWithHeadKeeps == ASSUME Inv, MergeWithHead PROVE Keeps
<1> DEFINE new == [id |-> Id(segs, head), loc |-> head]
<1>1. /\ Len(queue) = 1 /\ queue' = Append(queue, new)
      /\ UNCHANGED <<segs, head, trx, busy, delivered, use>>
  BY Zenon DEF MergeWithHead
<1>2. queue \in Seq(HeadsIn(segs)) /\ queue # <<>>
  BY <1>1 DEF Inv, CommitInv
<1>3. busy # NoTrx /\ head \in Locs(segs) /\ GraphOK(segs)
  BY <1>2, QueueFacts, Zenon
<1>4. new \in HeadsIn(segs) /\ new.loc = head
  BY <1>3, Zenon DEF HeadsIn
<1> HIDE DEF new
<1>5. /\ queue' \in Seq(HeadsIn(segs)) /\ Len(queue') = 2 /\ queue'[2] = new
      /\ DOMAIN queue \subseteq DOMAIN queue' /\ \A i \in DOMAIN queue : queue'[i] = queue[i]
  BY <1>1, <1>2, <1>4
<1>6. InQueue \subseteq InQueue'
  <2>1. InQueue' = UNION {IdsUpTo(segs, queue'[i].loc) : i \in DOMAIN queue'}
    BY <1>1, Zenon DEF InQueue
  <2> QED
    BY <1>5, <2>1, Zenon DEF InQueue
<1>7. Extends(segs, segs) /\ (Careful => IdsOK(segs))
  BY <1>3, ExtendsItself DEF Inv, CareInv
<1> QED
  BY <1>1, <1>3, <1>4, <1>5, <1>6, <1>7, QueueStep, Zenon

\* A commit that ends and leaves the head where it is.
LEMMA CommitEndsKeeps ==
    ASSUME Inv, NothingToCommit \/ MergeSame \/ MergeFails PROVE Keeps
<1>1. busy # NoTrx
  <2>1. CASE NothingToCommit
    BY <2>1, ZenonT(60) DEF NothingToCommit
  <2>2. CASE Len(queue) > 1
    <3>1. queue # <<>>
      BY <2>2
    <3> QED
      BY <3>1, QueueFacts
  <2> QED
    BY <2>1, <2>2, Zenon DEF MergeSame, MergeFails
<1>2. UNCHANGED <<segs, head, use>>
  BY Zenon DEF NothingToCommit, MergeSame, MergeFails
<1>3. head' \in Locs(segs) /\ Committed \subseteq IdsUpTo(segs, head')
  BY <1>1, <1>2, Zenon DEF Inv, CommitInv, GraphInv, Exists, Committed
<1>4. CASE NothingToCommit
  <2>1. InQueue = {}
    BY <1>4 DEF NothingToCommit, InQueue
  <2> QED
    BY <1>1, <1>2, <1>3, <1>4, <2>1, CommitEndKeeps, ZenonT(60) DEF NothingToCommit
<1>5. CASE MergeSame
  BY <1>1, <1>2, <1>3, <1>5, CommitEndKeeps, Zenon DEF MergeSame
<1>6. CASE MergeFails
  BY <1>1, <1>2, <1>3, <1>6, CommitEndKeeps, ZenonT(60) DEF MergeFails
<1> QED
  BY <1>4, <1>5, <1>6, ZenonT(60)

\* The last head is committed.
LEMMA CommitHeadKeeps == ASSUME Inv, CommitHead PROVE Keeps
<1> DEFINE x == queue[1].loc
           s == x[1]
           n == Len(segs[s].cmds)
<1>1. /\ Len(queue) = 1 /\ Descends(x) /\ head' = <<s, n>>
      /\ CommitEnd("ok") /\ UNCHANGED <<segs, use>>
  BY Zenon DEF CommitHead, HeadOf
<1>2. queue # <<>>
  BY <1>1, SMTT(30) DEF Inv, CommitInv
<1>3. busy # NoTrx /\ GraphOK(segs) /\ x \in Locs(segs) /\ DOMAIN queue = {1}
  BY <1>1, <1>2, QueueFacts
<1> HIDE DEF x
<1>4. /\ x = <<s, x[2]>> /\ s \in 1..Len(segs) /\ x[2] \in 1..n /\ n \in Nat \ {0}
      /\ <<s, n>> \in Locs(segs)
  <2>1. /\ x = <<x[1], x[2]>> /\ s \in 1..Len(segs) /\ x[2] \in 1..n
        /\ n \in Nat \ {0}
    BY <1>3, LocsFacts DEF GraphOK
  <2>2. n \in 1..n
    BY <2>1
  <2> QED
    BY <1>3, <2>1, <2>2, LocsFacts, Zenon DEF GraphOK
<1> HIDE DEF n, s
<1>5. UpTo(segs, <<s, 1>>) \subseteq UpTo(segs, <<s, n>>) /\ UpTo(segs, x) \subseteq UpTo(segs, <<s, n>>)
  <2>1. x[2] \in Nat \ {0} /\ x[2] <= n /\ 1 <= n
    BY <1>4
  <2>2. UpTo(segs, <<s, x[2]>>) \subseteq UpTo(segs, <<s, n>>)
    BY <1>4, <2>1, UpToSegment, Zenon
  <2>3. UpTo(segs, <<s, 1>>) \subseteq UpTo(segs, <<s, n>>)
    BY <1>4, <2>1, UpToSegment
  <2> QED
    BY <1>4, <2>2, <2>3, Zenon
<1>6. UpTo(segs, head) \subseteq UpTo(segs, <<s, n>>)
  <2>1. head \in UpTo(segs, <<s, n>>)
    BY <1>1, <1>5, Zenon DEF Descends, Before, s
  <2> QED
    BY <1>3, <1>4, <2>1, UpToTransitive, Zenon
<1>7. Committed \subseteq IdsUpTo(segs, head') /\ IdsUpTo(segs, x) \subseteq IdsUpTo(segs, head')
  BY <1>1, <1>5, <1>6, Zenon DEF Committed, IdsUpTo
<1>8. InQueue = IdsUpTo(segs, x)
  BY <1>3 DEF InQueue, x
<1> QED
  BY <1>1, <1>3, <1>4, <1>7, <1>8, CommitEndKeeps, ZenonT(60)

-----------------------------------------------------------------------------
(* All steps.                                                              *)

\* The transaction is dropped.
LEMMA DropKeeps == ASSUME Inv, NEW t \in Trxs, Drop(t) PROVE Keeps
<1>1. /\ busy = NoTrx /\ trx' = [trx EXCEPT ![t] = NewTrx]
      /\ UNCHANGED <<segs, head, busy, queue, merging, delivered, use>>
  BY Zenon DEF Drop
<1>2. Extends(segs, segs) /\ TrxOK(segs, NewTrx) /\ TrxCare(segs, NewTrx) /\ NewTrx.added = {}
  BY NewTrxFacts, ExtendsItself DEF Inv, GraphInv
<1>3. Careful => IdsOK(segs)
  BY DEF Inv, CareInv
<1> QED
  BY <1>1, <1>2, <1>3, TrxStep, Zenon

\* A step that changes at most the sink and the result.
LEMMA QuietKeeps ==
    ASSUME Inv, UNCHANGED <<segs, head, trx, busy, queue, merging, delivered, use>>
    PROVE  Keeps
<1>1. Committed' = Committed /\ InQueue' = InQueue /\ Careful' = Careful /\ Exists' = Exists
  BY DEF Committed, InQueue, Careful, Exists
<1>2. GraphInv' /\ TrxInv'
  BY Zenon DEF Inv, GraphInv, TrxInv
<1>3. CommitInv'
  BY <1>1 DEF Inv, CommitInv, Descends
<1>4. CareInv'
  BY <1>1, Zenon DEF Inv, CareInv
<1>5. KeptInv'
  BY <1>1 DEF Inv, KeptInv, AddedOK
<1> QED
  BY <1>1, <1>2, <1>3, <1>4, <1>5, Zenon DEF Inv, Keeps

\* Initially there is no graph and the transactions are new.
LEMMA InitInv == ASSUME Init PROVE Inv
<1>1. segs = <<>> /\ head = NoLoc /\ trx = [t \in Trxs |-> NewTrx] /\ use \in Uses
      /\ busy = NoTrx /\ queue = <<>> /\ merging = FALSE /\ delivered = {}
  BY DEF Init
<1>2. GraphOK(segs) /\ Locs(segs) = {}
  BY <1>1 DEF GraphOK, Locs
<1>3. \A t \in Trxs : TrxOK(segs, trx[t]) /\ TrxCare(segs, trx[t]) /\ trx[t].added = {}
  BY <1>1, NewTrxFacts, ZenonT(60)
<1>4. GraphInv /\ TrxInv
  BY <1>1, <1>2, <1>3, ZenonT(60) DEF GraphInv, TrxInv
<1>5. CommitInv
  BY <1>1 DEF CommitInv
<1>6. CareInv
  BY <1>2, <1>3, ZenonT(60) DEF CareInv, IdsOK
<1>7. KeptInv
  BY <1>1, <1>3, ZenonT(60) DEF KeptInv, AddedOK
<1> QED
  BY <1>4, <1>5, <1>6, <1>7, Zenon DEF Inv

\* Every step keeps the invariant and what is committed.
LEMMA NextKeeps == ASSUME Inv, [Next]_vars PROVE Keeps
<1>1. /\ use.trxs \subseteq Trxs /\ use.ids \subseteq PeerIds
      /\ InitId \in Nat \ {0} /\ \A c \in LocalIds : c \in Nat \ {0}
  <2>1. use \in Uses
    BY DEF Inv, GraphInv
  <2>2. InitId \in Nat \ {0} /\ \A c \in LocalIds : c \in 1..MergeIdBase
    BY IdsAssumption, Zenon DEF NoId
  <2>3. \A n \in 1..MergeIdBase : n \in Nat \ {0}
    BY IdsAssumption
  <2> QED
    BY <2>1, <2>2, <2>3, IdsAssumption, Zenon
<1>2. ASSUME NEW c \in LocalIds, NewGraph(c) PROVE Keeps
  <2>1. <<InitId, c>> \in Seq(Nat \ {0})
    BY <1>1
  <2> QED
    BY <1>2, <2>1, CreateKeeps, Zenon DEF NewGraph
<1>3. ASSUME NEW c \in LocalIds, Action(c) PROVE Keeps
  BY <1>3, ActionKeeps
<1>4. ASSUME NEW c \in use.ids, InitGraph(c) PROVE Keeps
  <2>1. <<InitId>> \in Seq(Nat \ {0})
    BY <1>1
  <2> QED
    BY <1>4, <2>1, CreateKeeps, Zenon DEF InitGraph
<1>5. CASE InitError \/ ActionFails \/ Terminating \/ UNCHANGED vars
  BY <1>5, QuietKeeps, Zenon DEF InitError, ActionFails, Terminating, vars
<1>6. ASSUME NEW t \in use.trxs, NEW c \in use.ids,
             AddToPerspective(t, c) \/ AddElsewhere(t, c) \/ AddMerge(t, c)
      PROVE  Keeps
  <2>1. CASE AddToPerspective(t, c)
    BY <1>1, <1>6, <2>1, AddToPerspectiveKeeps, Zenon
  <2>2. CASE AddElsewhere(t, c)
    BY <1>1, <1>6, <2>2, AddElsewhereCases, ReaddsKeeps, Zenon
  <2>3. CASE AddMerge(t, c)
    BY <1>1, <1>6, <2>3, AddMergeCases, ReaddsKeeps, Zenon
  <2> QED
    BY <1>6, <2>1, <2>2, <2>3, Zenon
<1>7. ASSUME NEW t \in use.trxs, CommitStart(t) \/ Drop(t) PROVE Keeps
  BY <1>1, <1>7, CommitStartKeeps, DropKeeps, Zenon
<1>8. CASE NothingToCommit \/ MergeSame \/ MergeFails
  BY <1>8, CommitEndsKeeps
<1>9. CASE MergeHeads \/ CommitHead \/ MergeWithHead
  BY <1>9, MergeHeadsKeeps, CommitHeadKeeps, MergeWithHeadKeeps, Zenon
<1> QED
  BY <1>2, <1>3, <1>4, <1>5, <1>6, <1>7, <1>8, <1>9, ZenonT(60) DEF Next

\* The invariant holds in every state of the client.
THEOREM InvHolds == Spec => []Inv
<1>1. Init => Inv
  BY InitInv
<1>2. Inv /\ [Next]_vars => Inv'
  BY NextKeeps DEF Keeps
<1> QED
  BY <1>1, <1>2, PTL DEF Spec

\* AddedHeld: whatever is added to careful transactions, by however many of them and
\* in whatever order, a command is in reach of its transaction until it is committed.
THEOREM AddedHeldHolds == Spec => []AddedHeld
<1>1. Inv => AddedHeld
  <2> SUFFICES ASSUME Inv, Careful, NEW t \in Trxs
               PROVE  trx[t].added \subseteq Held(t) \cup Committed
    BY Zenon DEF AddedHeld
  <2>1. trx[t].added \subseteq HeldBy(segs, trx[t]) \cup Committed \cup (IF busy = t THEN InQueue ELSE {})
    BY SMTT(30) DEF Inv, KeptInv, AddedOK
  <2>2. HeldBy(segs, trx[t]) \subseteq Held(t)
    BY DEF HeldBy, Held
  <2>3. busy = t => InQueue \subseteq Held(t)
    BY Zenon DEF InQueue, Held
  <2> QED
    BY <2>1, <2>2, <2>3, Zenon
<1> QED
  BY <1>1, InvHolds, PTL

\* Delivered: the commands of a transaction whose commit returned Ok are in the graph
\* from then on.
THEOREM DeliveredHolds == Spec => []Delivered
<1>1. Inv => Delivered
  BY Zenon DEF Inv, KeptInv, Delivered
<1> QED
  BY <1>1, InvHolds, PTL

\* CommittedKept: no call removes a command from the graph, careful or not.
THEOREM CommittedKeptHolds == Spec => CommittedKept
<1>1. Inv /\ [Next]_vars => [Committed \subseteq Committed']_vars
  BY NextKeeps DEF Keeps
<1> QED
  BY <1>1, InvHolds, PTL DEF Spec, CommittedKept

\* The condition of bug!("merging with graph head again, would loop") in commit.
NoLoop == Len(queue) = 1 /\ merging => Descends(queue[1].loc)

\* A merge with the head can be committed, so commit never comes to that bug!, however
\* transactions are used.
THEOREM NoLoopHolds == Spec => []NoLoop
<1>1. Inv => NoLoop
  BY DEF Inv, CommitInv, NoLoop
<1> QED
  BY <1>1, InvHolds, PTL

\* The condition of assume("trx has perspective") in get_perspective.
HasPerspective == Careful => result # "no perspective"

\* A careful transaction with a phead has a perspective, so that assume does not fail.
THEOREM HasPerspectiveHolds == Spec => []HasPerspective
<1>1. Init => HasPerspective
  BY Zenon DEF Init, HasPerspective
<1>2. Inv /\ HasPerspective /\ [Next]_vars => HasPerspective'
  <2> SUFFICES ASSUME Inv, HasPerspective, [Next]_vars PROVE HasPerspective'
    BY SMTT(30)
  <2>1. ASSUME NEW t \in use.trxs, NEW c \in use.ids, AddToPerspective(t, c), Careful
        PROVE  trx[t].persp.open
    <3>1. Idle(t) /\ Len(ParentsOf[c]) = 1 /\ trx[t].phead = ParentsOf[c][1]
      BY <2>1, Zenon DEF AddToPerspective
    <3>2. t \in Trxs /\ c \in PeerIds
      BY IdsAssumption, Zenon DEF Inv, GraphInv
    <3>3. ParentsOf[c][1] # NoId
      <4>1. ParentsOf[c] \in Seq(Nat \ {NoId})
        BY <3>2, IdsAssumption, ZenonT(60)
      <4> QED
        BY <3>1, <4>1
    <3> QED
      BY <2>1, <3>1, <3>2, <3>3, ZenonT(60) DEF Inv, CareInv, TrxCare
  <2>2. ASSUME NEW t \in use.trxs, NEW c \in use.ids,
               AddToPerspective(t, c) \/ AddElsewhere(t, c) \/ AddMerge(t, c)
        PROVE  HasPerspective'
    <3>1. CASE AddToPerspective(t, c)
      <4>1. use' = use
        BY <3>1, ZenonT(30) DEF AddToPerspective, Return
      <4>2. trx[t].persp.open => result' # "no perspective"
        BY <3>1, ZenonT(30) DEF AddToPerspective, Return
      <4> QED
        BY <2>1, <3>1, <4>1, <4>2, ZenonT(30) DEF HasPerspective, Careful
    <3>2. CASE AddElsewhere(t, c)
      BY <3>2, ZenonT(30) DEF AddElsewhere, Return, HasPerspective
    <3>3. CASE AddMerge(t, c)
      BY <3>3, Zenon DEF AddMerge, Return, HasPerspective
    <3> QED
      BY <2>2, <3>1, <3>2, <3>3, ZenonT(60)
  <2>3. ASSUME NEW t \in use.trxs, CommitStart(t) \/ Drop(t) PROVE HasPerspective'
    BY <2>3, ZenonT(30) DEF CommitStart, Drop, Return, HasPerspective, Careful
  <2>4. CASE NothingToCommit \/ MergeSame \/ MergeFails \/ CommitHead
    BY <2>4, ZenonT(30) DEF NothingToCommit, MergeSame, MergeFails, CommitHead, CommitEnd, HasPerspective
  <2>5. CASE MergeHeads \/ MergeWithHead \/ Terminating \/ UNCHANGED vars
    BY <2>5, Zenon DEF MergeHeads, MergeWithHead, Terminating, vars, HasPerspective, Careful
  <2>6. CASE InitError \/ ActionFails
    BY <2>6, Zenon DEF InitError, ActionFails, HasPerspective
  <2>7. ASSUME NEW c, NewGraph(c) \/ Action(c) \/ InitGraph(c) PROVE HasPerspective'
    BY <2>7, Zenon DEF NewGraph, Action, InitGraph, Create, HasPerspective
  <2> QED
    BY <2>2, <2>3, <2>4, <2>5, <2>6, <2>7, ZenonT(60) DEF Next
<1> QED
  BY <1>1, <1>2, InvHolds, PTL DEF Spec
=============================================================================
