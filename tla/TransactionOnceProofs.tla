------------------------ MODULE TransactionOnceProofs ------------------------
(***************************************************************************)
(* One careful transaction after the other, for any commands and graphs:   *)
(* no command is in the graph twice, commit merges commands neither of     *)
(* which is an ancestor of the other, and no assume of it fails.  All      *)
(* merges are of such commands if those of the peers are.                  *)
(***************************************************************************)
EXTENDS TransactionProofs

-----------------------------------------------------------------------------
(* The steps outside of commit.                                            *)

QueueLocs(q) == {q[i].loc : i \in DOMAIN q}

\* The heads that are left to merge have nothing after them, except that the last merge
\* may be with the head of the graph, which is then not before the other.
QueueOK(sg, hd, q, mg) ==
    /\ Shape(sg, QueueLocs(q) \ {hd}, {hd})
    /\ \A i, j \in DOMAIN q : q[i].loc = q[j].loc => i = j
    /\ hd \in QueueLocs(q) => mg /\ Len(q) = 2 /\ hd \notin UpTo(sg, q[1].loc)

OnceInv ==
    Careful /\ Alone =>
    /\ ~Exists => \A t \in Trxs : trx[t] = NewTrx
    /\ \A t \in Trxs : t \notin use.trxs => trx[t] = NewTrx /\ busy # t
    /\ Exists => HeadOK(segs, head)
    /\ Exists /\ busy = NoTrx => \A t \in Trxs : OpenOK(segs, head, trx[t])
    /\ busy # NoTrx => QueueOK(segs, head, queue, merging)

\* All transactions are new.
LEMMA AllNewOnce ==
    ASSUME Careful' /\ Alone' /\ Exists' => HeadOK(segs', head'),
           \A u \in Trxs : trx'[u] = NewTrx, busy' = NoTrx
    PROVE  OnceInv'
<1>1. NoTrx \notin Trxs
  BY IdsAssumption, Zenon
<1>2. ASSUME HeadOK(segs', head'), NEW u \in Trxs PROVE OpenOK(segs', head', trx'[u])
  BY <1>2, NewTrxOnce, Zenon
<1> HIDE DEF OpenOK, HeadOK, QueueOK
<1> QED
  BY <1>1, <1>2, Zenon DEF OnceInv

\* The transactions that the application does not use are new.
LEMMA OthersNew ==
    ASSUME OnceInv, Careful, Alone, NEW t \in use.trxs, NEW u \in Trxs, u # t
    PROVE  trx[u] = NewTrx
BY Zenon DEF OnceInv, Alone

\* A call of a transaction ends.
LEMMA CallOnce ==
    ASSUME Inv, OnceInv, NEW t \in Trxs, t \in use.trxs, NEW sg, NEW tr,
           Exists, busy = NoTrx, Extends(sg, segs), segs' = sg, trx' = [trx EXCEPT ![t] = tr],
           Careful /\ Alone => OpenOK(sg, head, tr), UNCHANGED <<head, busy, queue, merging, use>>
    PROVE  OnceInv'
<1>1. GraphOK(segs) /\ trx = [u \in Trxs |-> trx[u]] /\ NoTrx \notin Trxs
  BY IdsAssumption, Zenon DEF Inv, GraphInv, TrxInv
<1>2. trx'[t] = tr /\ \A u \in Trxs : u # t => trx'[u] = trx[u]
  BY <1>1
<1>3. Careful' = Careful /\ Alone' = Alone /\ Exists' /\ head' = head /\ busy' = NoTrx /\ use' = use
  BY Zenon DEF Careful, Alone, Exists
<1> SUFFICES ASSUME Careful, Alone
             PROVE  /\ \A u \in Trxs : u \notin use.trxs => trx'[u] = NewTrx
                    /\ HeadOK(sg, head)
                    /\ \A u \in Trxs : OpenOK(sg, head, trx'[u])
  <2> HIDE DEF OpenOK, HeadOK
  <2> QED
    BY <1>1, <1>3, Zenon DEF OnceInv
<1>4. HeadOK(sg, head)
  <2>1. HeadOK(segs, head)
    BY Zenon DEF OnceInv
  <2> QED
    BY <1>1, <2>1, HeadKept, Zenon
<1>5. ASSUME NEW u \in Trxs, u # t PROVE trx'[u] = NewTrx
  BY <1>2, <1>5, OthersNew, Zenon
<1>6. OpenOK(sg, head, NewTrx)
  BY <1>4, NewTrxOnce, Zenon
<1> HIDE DEF OpenOK, HeadOK
<1>7. \A u \in Trxs : OpenOK(sg, head, trx'[u])
  BY <1>2, <1>5, <1>6, Zenon
<1> QED
  BY <1>4, <1>5, <1>7, Zenon

\* The same for Return.
LEMMA ReturnOnce ==
    ASSUME Inv, OnceInv, NEW t \in Trxs, t \in use.trxs, Idle(t), NEW sg, NEW tr, NEW res,
           Extends(sg, segs), Careful /\ Alone /\ res = "ok" => OpenOK(sg, head, tr),
           Return(t, sg, tr, res)
    PROVE  OnceInv'
<1> DEFINE new == IF res # "ok" /\ ~use.goes_on THEN NewTrx ELSE tr
<1>1. /\ segs' = sg /\ trx' = [trx EXCEPT ![t] = new]
      /\ busy = NoTrx /\ Exists /\ UNCHANGED <<head, busy, queue, merging, use>>
  BY Zenon DEF Return, Idle
<1>2. ASSUME Careful, Alone PROVE OpenOK(sg, head, new)
  <2>1. CASE res = "ok"
    BY <1>2, <2>1, Zenon
  <2>2. CASE res # "ok"
    <3>1. new = NewTrx
      BY <1>2, <2>2, Zenon DEF Careful
    <3>2. HeadOK(segs, head) /\ GraphOK(segs)
      BY <1>1, <1>2, Zenon DEF OnceInv, Inv, GraphInv
    <3>3. HeadOK(sg, head)
      BY <3>2, HeadKept, Zenon
    <3> QED
      BY <3>1, <3>3, NewTrxOnce, Zenon
  <2> QED
    BY <2>1, <2>2, Zenon
<1> HIDE DEF new
<1> QED
  BY <1>1, <1>2, CallOnce, Zenon

\* What a call of a transaction in use starts from.
LEMMA CallOnceFacts ==
    ASSUME Inv, OnceInv, Careful, Alone, NEW t \in Trxs, Idle(t)
    PROVE  /\ GraphOK(segs) /\ IdsOK(segs) /\ head \in Locs(segs) /\ HeadOK(segs, head)
           /\ TrxOK(segs, trx[t]) /\ TrxCare(segs, trx[t]) /\ OpenOK(segs, head, trx[t])
<1>1. busy = NoTrx /\ Exists
  BY Zenon DEF Idle
<1>2. HeadOK(segs, head) /\ OpenOK(segs, head, trx[t])
  BY <1>1, Zenon DEF OnceInv
<1>3. GraphOK(segs) /\ IdsOK(segs) /\ TrxOK(segs, trx[t]) /\ TrxCare(segs, trx[t])
  BY CallFacts, Zenon
<1>4. head \in Locs(segs)
  BY <1>1, Zenon DEF Inv, GraphInv, Exists
<1> QED
  BY <1>2, <1>3, <1>4, Zenon

\* add_single at phead.
LEMMA AddToPerspectiveOnce ==
    ASSUME Inv, OnceInv, NEW t \in Trxs, t \in use.trxs, NEW c \in use.ids, AddToPerspective(t, c)
    PROVE  OnceInv'
<1>1. Idle(t) /\ IsNew(t, c)
  BY Zenon DEF AddToPerspective
<1>2. Extends(segs, segs) /\ c \in PeerIds /\ c \in Nat \ {0}
  <2>1. Extends(segs, segs) /\ c \in PeerIds
    BY <1>1, CallFacts, Zenon
  <2> QED
    BY <2>1, IdsAssumption, Zenon DEF NoId
<1>3. CASE Return(t, segs, trx[t], "no perspective")
  BY <1>1, <1>2, <1>3, ReturnOnce, Zenon
<1>4. CASE Return(t, segs, trx[t], "error")
  BY <1>1, <1>2, <1>4, ReturnOnce, Zenon
<1>5. CASE Return(t, segs, Added(trx[t], c), "ok")
  <2>1. ASSUME Careful, Alone PROVE OpenOK(segs, head, Added(trx[t], c))
    <3>1. GraphOK(segs) /\ head \in Locs(segs) /\ TrxOK(segs, trx[t]) /\ OpenOK(segs, head, trx[t])
      BY <1>1, <2>1, CallOnceFacts, Zenon
    <3>2. c \notin trx[t].added /\ c \notin Committed
      BY <1>1, <2>1, <3>1, NewOnce, Zenon
    <3> QED
      BY <1>2, <3>1, <3>2, AddedOnce, Zenon DEF Committed
  <2> QED
    BY <1>1, <1>2, <1>5, <2>1, ReturnOnce, Zenon
<1> QED
  BY <1>3, <1>4, <1>5, Zenon DEF AddToPerspective

\* After the perspective was written and a new one opened at the parents of c.
LEMMA AddAtOnce ==
    ASSUME Inv, OnceInv, NEW t \in Trxs, t \in use.trxs, Idle(t), NEW c \in PeerIds, IsNew(t, c),
           NEW keep \in BOOLEAN, Flush(trx[t], keep).ok,
           NEW ps, NEW ph, OpensAt(Flush(trx[t], keep), c, ps)
    PROVE  LET f == Flush(trx[t], keep)
               opened == Opened(f.trx, ps, ph, ParentSet(c))
           IN  /\ Return(t, f.segs, Added(opened, c), "ok") => OnceInv'
               /\ Return(t, f.segs, opened, "error") => OnceInv'
<1> DEFINE f == Flush(trx[t], keep)
           opened == Opened(f.trx, ps, ph, ParentSet(c))
<1>0. /\ ps \in Seq(Locs(f.segs)) /\ ParentSet(c) = IdsAt(f.segs, ps)
      /\ \A j \in DOMAIN ps : \E p : ps[j] \in Located(f.segs, f.trx, p)
  BY Zenon DEF OpensAt
<1>1. /\ Extends(f.segs, segs) /\ GraphOK(f.segs) /\ TrxOK(f.segs, f.trx)
      /\ f.trx.persp = NoPersp /\ f.trx.added = trx[t].added
  BY FlushedFacts, Zenon
<1>2. TrxOK(f.segs, opened) /\ opened.added = f.trx.added
  <2> HIDE DEF f
  <2> QED
    BY <1>0, <1>1, OpenedSound, ZenonT(30)
<1>3. c \in Nat \ {0}
  BY IdsAssumption, Zenon DEF NoId
<1>4. ASSUME Careful, Alone PROVE OpenOK(f.segs, head, Added(opened, c))
  <2>1. /\ GraphOK(segs) /\ head \in Locs(segs) /\ TrxOK(segs, trx[t]) /\ TrxCare(segs, trx[t])
        /\ OpenOK(segs, head, trx[t])
    BY <1>4, CallOnceFacts, Zenon
  <2>2. OpenOK(f.segs, head, f.trx)
    BY <2>1, FlushOnce, Zenon
  <2>3. c \notin trx[t].added /\ c \notin Committed
    BY <1>4, <2>1, NewOnce, Zenon
  <2>4. IdsUpTo(f.segs, head) = Committed
    BY <1>1, CommittedSame, Zenon DEF Inv
  <2>5. \A j \in DOMAIN ps : ps[j] \in Reach(f.segs, head, f.trx)
    BY <1>0, <1>1, <2>2, LocatedOnce, Zenon
  <2>6. OpenOK(f.segs, head, opened)
    <3>1. opened = Opened(f.trx, ps, ph, IdsAt(f.segs, ps))
      BY <1>0, Zenon
    <3> HIDE DEF f, opened
    <3>2. OpenOK(f.segs, head, Opened(f.trx, ps, ph, IdsAt(f.segs, ps)))
      BY <1>0, <1>1, <2>2, <2>5, OpenedOnce, Zenon
    <3> QED
      BY <3>1, <3>2, Zenon
  <2>7. c \notin opened.added /\ c \notin IdsUpTo(f.segs, head)
    <3> HIDE DEF f, opened
    <3> QED
      BY <1>1, <1>2, <2>3, <2>4, Zenon
  <2> HIDE DEF f, opened
  <2> QED
    BY <1>2, <1>3, <2>6, <2>7, AddedOnce, Zenon
<1> HIDE DEF f, opened
<1>5. ASSUME Return(t, f.segs, Added(opened, c), "ok") PROVE OnceInv'
  BY <1>1, <1>4, <1>5, ReturnOnce, Zenon
<1>6. ASSUME Return(t, f.segs, opened, "error") PROVE OnceInv'
  BY <1>1, <1>6, ReturnOnce, Zenon
<1> QED
  BY <1>5, <1>6, Zenon DEF f, opened

\* Both keep it: add_single elsewhere and add_merge.
LEMMA ReaddsOnce ==
    ASSUME Inv, OnceInv, NEW t \in Trxs, t \in use.trxs, Idle(t), NEW c \in PeerIds, IsNew(t, c),
           NEW keep \in BOOLEAN, Readds(t, c, Flush(trx[t], keep))
    PROVE  OnceInv'
<1> DEFINE f == Flush(trx[t], keep)
<1>1. Extends(f.segs, segs) /\ TrxOK(f.segs, f.trx)
  BY FlushedFacts, Zenon
<1>2. CASE Return(t, f.segs, f.trx, "error")
  <2> HIDE DEF f
  <2> QED
    BY <1>1, <1>2, ReturnOnce, Zenon
<1>3. ASSUME f.ok, NEW ps, NEW ph, OpensAt(f, c, ps),
             LET opened == Opened(f.trx, ps, ph, ParentSet(c))
             IN  Return(t, f.segs, Added(opened, c), "ok") \/ Return(t, f.segs, opened, "error")
      PROVE  OnceInv'
  BY <1>3, AddAtOnce, ZenonT(30)
<1> QED
  BY <1>2, <1>3, Zenon DEF Readds

\* The condition does not change.
LEMMA SameUse ==
    ASSUME UNCHANGED use
    PROVE  Careful' = Careful /\ Alone' = Alone /\ (~(Careful /\ Alone) => OnceInv')
<1>1. Careful' = Careful /\ Alone' = Alone
  BY Zenon DEF Careful, Alone
<1> HIDE DEF Careful, Alone
<1> QED
  BY <1>1, Zenon DEF OnceInv

\* A segment ends where HeadOf says.
LEMMA LastEnds ==
    ASSUME NEW sg, GraphOK(sg), NEW seg \in Segments,
           \A j \in DOMAIN seg.prior : seg.prior[j] \in Locs(sg),
           NEW last, last = <<Len(sg) + 1, Len(seg.cmds)>>
    PROVE  /\ last \in Locs(Append(sg, seg)) /\ last \notin Locs(sg)
           /\ last = HeadOf(Append(sg, seg), last[1])
<1>1. /\ Len(Append(sg, seg)) = Len(sg) + 1
      /\ HeadOf(Append(sg, seg), Len(Append(sg, seg))) = <<Len(sg) + 1, Len(seg.cmds)>>
      /\ HeadOf(Append(sg, seg), Len(Append(sg, seg))) \in Locs(Append(sg, seg))
  BY SegmentHolds, Zenon
<1>2. last[1] = Len(sg) + 1
  OBVIOUS
<1>3. ASSUME last \in Locs(sg) PROVE FALSE
  <2>1. last[1] \in 1..Len(sg) /\ Len(sg) \in Nat
    BY <1>3, LocsFacts, Zenon DEF GraphOK
  <2> QED
    BY <1>2, <2>1
<1> QED
  BY <1>1, <1>2, <1>3, Zenon

\* The first segment has nothing twice.
LEMMA CreateOnce ==
    ASSUME Inv, OnceInv, NEW cmds \in Seq(Nat \ {0}), Create(cmds),
           \/ cmds = <<InitId>>
           \/ \E c \in LocalIds : cmds = <<InitId, c>>
    PROVE  OnceInv'
<1> DEFINE seg == CreatedSeg(cmds)
<1>1. /\ head = NoLoc /\ segs = <<>> /\ busy = NoTrx /\ GraphOK(segs)
      /\ Len(cmds) \in 1..2 /\ cmds[1] = InitId /\ (Len(cmds) = 2 => cmds[2] \in LocalIds)
  BY CreateFacts, Zenon
<1>2. /\ seg \in Segments /\ DOMAIN seg.prior = {} /\ seg.cmds = cmds
      /\ segs' = Append(segs, seg) /\ head' = <<Len(segs) + 1, Len(seg.cmds)>>
      /\ UNCHANGED <<trx, busy, queue, merging, delivered, use>>
  BY CreateFacts, Zenon
<1> HIDE DEF seg
<1> SUFFICES ASSUME Careful, Alone PROVE OnceInv'
  BY <1>2, SameUse, Zenon
<1>3. \A i, j \in DOMAIN seg.cmds : seg.cmds[i] = seg.cmds[j] => i = j
  <2>1. DOMAIN cmds = 1..Len(cmds)
    OBVIOUS
  <2>2. Len(cmds) = 2 => cmds[1] # cmds[2]
    BY <1>1, IdsAssumption, Zenon
  <2>3. \A i, j \in DOMAIN cmds : cmds[i] = cmds[j] => i = j
    BY <1>1, <2>1, <2>2
  <2> QED
    BY <1>2, <2>3, Zenon
<1>4. Shape(segs, {}, {}) /\ Live(segs, {} \cup {}) = {}
  BY Zenon DEF Shape, Whole, Once, Tips, AtEnd, Live
<1>5. Grows(segs, {}, {}, seg, head', {}, {head'})
  BY <1>2, <1>3, <1>4, Zenon DEF Grows
<1>6. Shape(segs', {}, {head'})
  BY <1>1, <1>2, <1>5, ShapeGrows, Zenon
<1>7. head' = HeadOf(segs', head'[1])
  <2>1. \A j \in DOMAIN seg.prior : seg.prior[j] \in Locs(segs)
    BY <1>2, Zenon
  <2>2. GraphOK(segs) /\ seg \in Segments /\ head' = <<Len(segs) + 1, Len(seg.cmds)>>
    BY <1>1, <1>2, Zenon
  <2>3. head' = HeadOf(Append(segs, seg), head'[1])
    BY <2>1, <2>2, LastEnds
  <2> QED
    BY <1>2, <2>3, Zenon
<1>8. \A u \in Trxs : trx'[u] = NewTrx
  BY <1>1, <1>2, Zenon DEF OnceInv, Exists
<1> QED
  BY <1>1, <1>2, <1>6, <1>7, <1>8, AllNewOnce, Zenon DEF HeadOK

\* A transaction that is dropped.
LEMMA DropOnce ==
    ASSUME Inv, OnceInv, NEW t \in Trxs, t \in use.trxs, Drop(t) PROVE OnceInv'
<1>1. /\ busy = NoTrx /\ trx' = [trx EXCEPT ![t] = NewTrx]
      /\ UNCHANGED <<segs, head, busy, queue, merging, use>>
  BY Zenon DEF Drop
<1>2. GraphOK(segs) /\ trx = [u \in Trxs |-> trx[u]]
  BY Zenon DEF Inv, GraphInv, TrxInv
<1> SUFFICES ASSUME Careful, Alone PROVE OnceInv'
  BY <1>1, SameUse, Zenon
<1>3. CASE Exists
  <2>1. HeadOK(segs, head) /\ Extends(segs, segs)
    BY <1>2, <1>3, ExtendsItself, Zenon DEF OnceInv
  <2>2. OpenOK(segs, head, NewTrx)
    BY <2>1, NewTrxOnce, Zenon
  <2> QED
    BY <1>1, <1>3, <2>1, <2>2, CallOnce, Zenon
<1>4. CASE ~Exists
  <2>1. \A u \in Trxs : trx[u] = NewTrx
    BY <1>4, Zenon DEF OnceInv
  <2>2. \A u \in Trxs : trx'[u] = NewTrx
    BY <1>1, <1>2, <2>1
  <2>3. ~Exists'
    BY <1>1, <1>4, Zenon DEF Exists
  <2> QED
    BY <1>1, <2>2, <2>3, AllNewOnce, Zenon
<1> QED
  BY <1>3, <1>4, Zenon

\* A step that changes at most the sink and the result.
LEMMA QuietOnce ==
    ASSUME OnceInv, UNCHANGED <<segs, head, trx, busy, queue, merging, use>>
    PROVE  OnceInv'
<1>1. Careful' = Careful /\ Alone' = Alone /\ Exists' = Exists
  BY Zenon DEF Careful, Alone, Exists
<1> HIDE DEF OpenOK, HeadOK, QueueOK
<1> QED
  BY <1>1, Zenon DEF OnceInv

\* An action comes after the head, and next to a transaction that is open.
LEMMA ActionOpen ==
    ASSUME Inv, NEW c \in LocalIds, Action(c), NEW tr, TrxCare(segs, tr), TrxOK(segs, tr),
           OpenOK(segs, head, tr)
    PROVE  OpenOK(segs', head', tr)
<1> DEFINE seg == ActionSeg(c)
           sg == Append(segs, seg)
           T == HeadLocs(tr)
           O == OpenLocs(head, tr)
           O2 == OpenLocs(head', tr)
<1>1. /\ head \in Locs(segs) /\ GraphOK(segs)
      /\ c \in Nat \ {0} /\ c \notin {Id(segs, x) : x \in Locs(segs)}
  BY ActionFacts, Zenon
<1>2. /\ seg \in Segments /\ DOMAIN seg.prior = {1} /\ seg.prior[1] = head
      /\ Len(seg.cmds) = 1 /\ DOMAIN seg.cmds = {1} /\ seg.cmds[1] = c
      /\ segs' = sg /\ head' = <<Len(segs) + 1, Len(seg.cmds)>>
  BY ActionFacts, Zenon
<1> HIDE DEF seg
<1>3. /\ Shape(segs, T, O)
      /\ \A x \in Live(segs, T \cup O) : Id(segs, x) \in IdsUpTo(segs, head) \cup tr.added
      /\ \A x \in Live(segs, T \cup O) : \A i \in DOMAIN tr.persp.cmds : Id(segs, x) # tr.persp.cmds[i]
      /\ \A i, j \in DOMAIN tr.persp.cmds : tr.persp.cmds[i] = tr.persp.cmds[j] => i = j
      /\ \A i \in DOMAIN tr.persp.cmds : tr.persp.cmds[i] \in tr.added
  BY Zenon DEF OpenOK, Reach
<1>4. T \subseteq Locs(segs) /\ O \subseteq Locs(segs) /\ Live(segs, T \cup O) \subseteq Locs(segs)
  <2>1. T \subseteq Locs(segs) /\ O \subseteq Locs(segs)
    BY <1>3, Zenon DEF Shape
  <2> DEFINE R == T \cup O
  <2>2. R \subseteq Locs(segs)
    BY <2>1, Zenon
  <2> HIDE DEF R
  <2>3. Live(segs, R) \subseteq Locs(segs)
    BY <1>1, <2>2, LiveFacts, Zenon
  <2> QED
    BY <2>1, <2>3, Zenon DEF R
<1>5. head \in O /\ head' \in O2 /\ O2 \subseteq O \cup {head'} /\ \A o \in O : o = head \/ o \in O2
  BY Zenon DEF OpenLocs
<1> HIDE DEF T, O, O2
<1>6. head' \notin Locs(segs)
  <2>1. \A j \in DOMAIN seg.prior : seg.prior[j] \in Locs(segs)
    BY <1>1, <1>2, Zenon
  <2> QED
    BY <1>1, <1>2, <2>1, LastEnds, Zenon
<1>7. Grows(segs, T, O, seg, head', T, O2)
  <2>1. \A i \in DOMAIN seg.cmds : \A x \in Live(segs, T \cup O) : Id(segs, x) # seg.cmds[i]
    BY <1>1, <1>2, <1>4, Zenon
  <2>2. \A i, j \in DOMAIN seg.cmds : seg.cmds[i] = seg.cmds[j] => i = j
    BY <1>2, Zenon
  <2>3. \A h \in T : h # head
    BY <1>1, <1>3, <1>5, ShapeApart, ZenonT(60)
  <2>4. head' \notin T
    BY <1>4, <1>6, Zenon
  <2> QED
    BY <1>2, <1>3, <1>5, <2>1, <2>2, <2>3, <2>4, Zenon DEF Grows
<1>8. /\ Shape(sg, T, O2)
      /\ \A x \in Live(sg, T \cup O2) :
           x \in Live(segs, T \cup O) \/ x \in {Len(segs) + 1} \X (1..Len(seg.cmds))
  BY <1>1, <1>7, ShapeGrows, Zenon
<1>9. Extends(sg, segs) /\ IdsUpTo(segs, head) \subseteq IdsUpTo(sg, head') /\ c \in IdsUpTo(sg, head')
  <2>1. \A j \in DOMAIN seg.prior : seg.prior[j] \in Locs(segs)
    BY <1>1, <1>2, Zenon
  <2>2. /\ Extends(sg, segs) /\ HeadOf(sg, Len(sg)) = <<Len(segs) + 1, Len(seg.cmds)>>
        /\ \A i \in 1..Len(seg.cmds) : seg.cmds[i] \in IdsUpTo(sg, HeadOf(sg, Len(sg)))
        /\ \A j \in DOMAIN seg.prior : IdsUpTo(segs, seg.prior[j]) \subseteq IdsUpTo(sg, HeadOf(sg, Len(sg)))
    BY <1>1, <1>2, <2>1, SegmentHolds, Zenon
  <2>3. 1 \in 1..Len(seg.cmds)
    BY <1>2
  <2> HIDE DEF sg
  <2> QED
    BY <1>2, <2>2, <2>3, Zenon
<1>10. ASSUME NEW x \in Live(sg, T \cup O2)
       PROVE  \/ x \in Live(segs, T \cup O) /\ Id(sg, x) = Id(segs, x)
              \/ Id(sg, x) = c
  <2>1. CASE x \in Live(segs, T \cup O)
    <3>1. x \in Locs(segs)
      BY <1>4, <2>1, Zenon
    <3>2. Id(sg, x) = Id(segs, x)
      BY <1>1, <1>9, <3>1, UpToKept
    <3> QED
      BY <2>1, <3>2, Zenon
  <2>2. CASE x \in {Len(segs) + 1} \X (1..Len(seg.cmds))
    <3>1. x[2] \in DOMAIN seg.cmds /\ Id(sg, x) = seg.cmds[x[2]]
      BY <1>1, <1>2, <2>2, NewIds, Zenon
    <3> QED
      BY <1>2, <3>1, Zenon
  <2> QED
    BY <1>8, <2>1, <2>2, Zenon
<1>11. \A i \in DOMAIN tr.persp.cmds : tr.persp.cmds[i] # c
  <2>1. c \notin PeerIds
    BY IdsAssumption, Zenon
  <2>2. tr.persp.cmds \in Seq(Nat \ {0})
    BY DEF TrxOK
  <2>3. DOMAIN tr.persp.cmds = 1..Len(tr.persp.cmds)
    BY <2>2
  <2> QED
    BY <2>1, <2>3, Zenon DEF TrxCare
<1> HIDE DEF sg
<1>12. /\ \A x \in Live(sg, T \cup O2) : Id(sg, x) \in IdsUpTo(sg, head') \cup tr.added
       /\ \A x \in Live(sg, T \cup O2) : \A i \in DOMAIN tr.persp.cmds : Id(sg, x) # tr.persp.cmds[i]
  BY <1>3, <1>9, <1>10, <1>11, Zenon
<1>13. OpenOK(sg, head', tr)
  BY <1>3, <1>8, <1>12, Zenon DEF OpenOK, Reach, T, O2
<1> QED
  BY <1>2, <1>13, Zenon

\* ClientState::action.
LEMMA ActionOnce ==
    ASSUME Inv, OnceInv, NEW c \in LocalIds, Action(c) PROVE OnceInv'
<1> DEFINE seg == ActionSeg(c)
<1>1. /\ busy = NoTrx /\ head \in Locs(segs) /\ GraphOK(segs)
      /\ c \in Nat \ {0} /\ c \notin {Id(segs, x) : x \in Locs(segs)}
  BY ActionFacts, Zenon
<1>2. /\ seg \in Segments /\ DOMAIN seg.prior = {1} /\ seg.prior[1] = head
      /\ segs' = Append(segs, seg) /\ head' = <<Len(segs) + 1, Len(seg.cmds)>>
      /\ UNCHANGED <<trx, busy, queue, merging, delivered, use>>
  BY ActionFacts, Zenon
<1> HIDE DEF seg
<1> SUFFICES ASSUME Careful, Alone PROVE OnceInv'
  BY <1>2, SameUse, Zenon
<1>3. Exists /\ Careful' = Careful /\ Alone' = Alone /\ head' # NoLoc
  <2>1. head' # NoLoc
    <3>1. Len(segs) \in Nat
      BY <1>1, LocsFacts, Zenon DEF GraphOK
    <3> QED
      BY <1>2, <3>1 DEF NoLoc
  <2> QED
    BY <1>2, <2>1, SameUse, Zenon DEF Action
<1>4. HeadOK(segs, head) /\ \A u \in Trxs : OpenOK(segs, head, trx[u])
  BY <1>1, <1>3, Zenon DEF OnceInv
<1>5. ASSUME NEW tr, TrxCare(segs, tr), TrxOK(segs, tr), OpenOK(segs, head, tr)
      PROVE  OpenOK(segs', head', tr)
  BY <1>5, ActionOpen, Zenon
<1>6. \A u \in Trxs : OpenOK(segs', head', trx'[u])
  BY <1>2, <1>4, <1>5, Zenon DEF Inv, TrxInv, CareInv
<1>7. HeadOK(segs', head')
  <2>1. OpenOK(segs', head', NewTrx)
    <3>1. TrxOK(segs, NewTrx) /\ TrxCare(segs, NewTrx)
      BY NewTrxFacts, Zenon
    <3>2. OpenOK(segs, head, NewTrx)
      BY <1>4, NewTrxOnce, Zenon
    <3> QED
      BY <1>5, <3>1, <3>2, Zenon
  <2>2. Shape(segs', HeadLocs(NewTrx), OpenLocs(head', NewTrx))
    BY <2>1, Zenon DEF OpenOK
  <2>3. HeadLocs(NewTrx) = {} /\ OpenLocs(head', NewTrx) = {head'}
    BY DEF HeadLocs, OpenLocs, NewTrx, NoPersp
  <2>4. \A j \in DOMAIN seg.prior : seg.prior[j] \in Locs(segs)
    BY <1>1, <1>2, Zenon
  <2>5. head' = HeadOf(Append(segs, seg), head'[1])
    BY <1>1, <1>2, <2>4, LastEnds
  <2> QED
    BY <1>2, <2>2, <2>3, <2>5, Zenon DEF HeadOK
<1> HIDE DEF OpenOK, HeadOK, QueueOK
<1>8. Exists' /\ busy' = NoTrx
  BY <1>1, <1>2, <1>3, Zenon DEF Exists
<1>9. \A t \in Trxs : t \notin use.trxs => trx[t] = NewTrx /\ busy # t
  BY Zenon DEF OnceInv
<1> QED
  BY <1>2, <1>3, <1>6, <1>7, <1>8, <1>9, Zenon DEF OnceInv

-----------------------------------------------------------------------------
(* Transaction::commit.                                                    *)

\* The heads are taken.
LEMMA CommitStartOnce ==
    ASSUME Inv, OnceInv, NEW t \in Trxs, t \in use.trxs, CommitStart(t)
    PROVE  OnceInv'
<1> DEFINE f == Flush(trx[t], FALSE)
           new == [f.trx EXCEPT !.heads = {}]
<1>0. Idle(t)
  BY Zenon DEF CommitStart
<1>1. /\ Extends(f.segs, segs) /\ GraphOK(f.segs) /\ TrxOK(f.segs, f.trx)
      /\ f.trx.persp = NoPersp
  BY <1>0, FlushedFacts, Zenon
<1>2. CASE Return(t, f.segs, f.trx, "error")
  <2> HIDE DEF f
  <2> QED
    BY <1>0, <1>1, <1>2, ReturnOnce, Zenon
<1>3. ASSUME f.ok, segs' = f.segs, trx' = [trx EXCEPT ![t] = new],
             NEW q \in Orders(f.trx.heads), queue' = q,
             busy' = t, merging' = FALSE, UNCHANGED <<head, sink, delivered, use>>
      PROVE  OnceInv'
  <2> SUFFICES ASSUME Careful, Alone PROVE OnceInv'
    BY <1>3, SameUse, Zenon
  <2>1. /\ GraphOK(segs) /\ head \in Locs(segs) /\ HeadOK(segs, head)
        /\ TrxOK(segs, trx[t]) /\ TrxCare(segs, trx[t]) /\ OpenOK(segs, head, trx[t])
    BY <1>0, CallOnceFacts, Zenon
  <2>2. OpenOK(f.segs, head, f.trx)
    BY <1>3, <2>1, FlushOnce, Zenon
  <2> HIDE DEF f, new
  <2>3. Shape(f.segs, HeadLocs(f.trx), {head})
    <3>1. Shape(f.segs, HeadLocs(f.trx), OpenLocs(head, f.trx))
      BY <2>2, Zenon DEF OpenOK
    <3>2. OpenLocs(head, f.trx) = {head}
      BY <1>1, NoPerspLocs
    <3> QED
      BY <3>1, <3>2, Zenon
  <2>4. head \notin HeadLocs(f.trx)
    BY <1>1, <2>3, ShapeApart, Zenon
  <2>5. /\ \A i \in DOMAIN q : q[i] \in f.trx.heads
        /\ \A h \in f.trx.heads : \E i \in DOMAIN q : q[i] = h
        /\ \A i, j \in DOMAIN q : q[i] = q[j] => i = j
    <3>1. q \in Seq(f.trx.heads) /\ \A h \in f.trx.heads : \E i \in DOMAIN q : q[i] = h
      BY OrdersFacts
    <3>2. \A i \in DOMAIN q : q[i] \in f.trx.heads
      BY <3>1
    <3>3. \A i, j \in DOMAIN q : q[i] = q[j] => i = j
      BY Zenon DEF Orders
    <3> QED
      BY <3>1, <3>2, <3>3, Zenon
  <2>6. QueueLocs(q) = HeadLocs(f.trx) /\ QueueLocs(q) \ {head} = HeadLocs(f.trx)
    <3>1. QueueLocs(q) = HeadLocs(f.trx)
      <4>1. ASSUME NEW x \in QueueLocs(q) PROVE x \in HeadLocs(f.trx)
        <5>1. PICK i \in DOMAIN q : x = q[i].loc
          BY Zenon DEF QueueLocs
        <5> QED
          BY <2>5, <5>1, Zenon DEF HeadLocs
      <4>2. ASSUME NEW x \in HeadLocs(f.trx) PROVE x \in QueueLocs(q)
        <5>1. PICK h \in f.trx.heads : x = h.loc
          BY Zenon DEF HeadLocs
        <5>2. PICK i \in DOMAIN q : q[i] = h
          BY <2>5, Zenon
        <5>3. x = q[i].loc
          BY <5>1, <5>2, Zenon
        <5> QED
          BY <5>3, Zenon DEF QueueLocs
      <4> QED
        BY <4>1, <4>2, Zenon
    <3> QED
      BY <2>4, <3>1, Zenon
  <2>7. \A i, j \in DOMAIN q : q[i].loc = q[j].loc => i = j
    <3> SUFFICES ASSUME NEW i \in DOMAIN q, NEW j \in DOMAIN q, q[i].loc = q[j].loc PROVE i = j
      BY Zenon
    <3>1. q[i] \in HeadsIn(f.segs) /\ q[j] \in HeadsIn(f.segs)
      BY <1>1, <2>5, Zenon DEF TrxOK
    <3>2. \A h \in HeadsIn(f.segs) : h = [id |-> Id(f.segs, h.loc), loc |-> h.loc]
      BY DEF HeadsIn
    <3>3. q[i] = q[j]
      BY <3>1, <3>2, Zenon
    <3> QED
      BY <2>5, <3>3, Zenon
  <2>8. QueueOK(segs', head', queue', merging')
    BY <1>3, <2>3, <2>4, <2>6, <2>7, Zenon DEF QueueOK
  <2>9. HeadOK(segs', head')
    BY <1>1, <1>3, <2>1, HeadKept, Zenon
  <2>10. \A u \in Trxs : u \notin use'.trxs => trx'[u] = NewTrx /\ busy' # u
    <3>1. trx = [u \in Trxs |-> trx[u]]
      BY Zenon DEF Inv, TrxInv
    <3>2. \A u \in Trxs : u # t => trx'[u] = trx[u]
      BY <1>3, <3>1
    <3> QED
      BY <1>3, <3>2, OthersNew, Zenon
  <2>11. Exists' /\ busy' # NoTrx
    BY <1>0, <1>3, IdsAssumption, Zenon DEF Idle, Exists
  <2> HIDE DEF OpenOK, HeadOK, QueueOK
  <2> QED
    BY <2>8, <2>9, <2>10, <2>11, Zenon DEF OnceInv
<1> QED
  BY <1>2, <1>3, Zenon DEF CommitStart

\* A step within commit.
LEMMA QueueOnce ==
    ASSUME Inv, OnceInv, busy # NoTrx, Extends(segs', segs),
           Careful /\ Alone => QueueOK(segs', head, queue', merging'),
           UNCHANGED <<head, trx, busy, use>>
    PROVE  OnceInv'
<1> SUFFICES ASSUME Careful, Alone PROVE OnceInv'
  BY SameUse, Zenon
<1>1. GraphOK(segs) /\ Exists /\ Exists'
  BY Zenon DEF Inv, GraphInv, CommitInv, Exists
<1>2. HeadOK(segs, head) /\ \A t \in Trxs : t \notin use.trxs => trx[t] = NewTrx /\ busy # t
  BY <1>1, Zenon DEF OnceInv
<1>3. HeadOK(segs', head)
  BY <1>1, <1>2, HeadKept, Zenon
<1> HIDE DEF OpenOK, HeadOK, QueueOK
<1> QED
  BY <1>1, <1>2, <1>3, Zenon DEF OnceInv

\* What is known of the queue.
LEMMA QueueOnceFacts ==
    ASSUME Inv, OnceInv, Careful, Alone, queue # <<>>
    PROVE  /\ HeadOK(segs, head) /\ QueueOK(segs, head, queue, merging) /\ IdsOK(segs)
           /\ busy # NoTrx /\ head \in Locs(segs) /\ GraphOK(segs) /\ Len(queue) \in Nat \ {0}
           /\ DOMAIN queue = 1..Len(queue)
           /\ \A i \in 1..Len(queue) : queue[i].loc \in Locs(segs) /\ queue[i].id = Id(segs, queue[i].loc)
<1>1. /\ busy # NoTrx /\ head \in Locs(segs) /\ GraphOK(segs) /\ Len(queue) \in Nat \ {0}
      /\ DOMAIN queue = 1..Len(queue)
      /\ \A i \in 1..Len(queue) : queue[i].loc \in Locs(segs) /\ queue[i].id = Id(segs, queue[i].loc)
  BY QueueFacts, Zenon
<1>2. Exists /\ IdsOK(segs)
  BY <1>1, Zenon DEF Inv, CommitInv, CareInv
<1>3. HeadOK(segs, head) /\ QueueOK(segs, head, queue, merging)
  BY <1>1, <1>2, Zenon DEF OnceInv
<1> QED
  BY <1>1, <1>2, <1>3, Zenon

\* Two heads are merged.
LEMMA MergeHeadsOnce == ASSUME Inv, OnceInv, MergeHeads PROVE OnceInv'
<1>1. /\ Len(queue) > 1 /\ queue # <<>> /\ UNCHANGED <<head, trx, busy, merging, use>>
  BY MergeHeadsFacts, Zenon
<1>2. PICK l, r, seg : Merges(l, r, seg)
  BY MergeHeadsFacts, Zenon
<1> SUFFICES ASSUME Careful, Alone PROVE OnceInv'
  BY <1>1, SameUse, Zenon
<1> DEFINE T == QueueLocs(queue) \ {head}
           T2 == QueueLocs(queue') \ {head}
           last == <<Len(segs) + 1, 1>>
           sg == Append(segs, seg)
           k == Len(queue) - 1
<1>3. /\ QueueOK(segs, head, queue, merging) /\ IdsOK(segs)
      /\ busy # NoTrx /\ head \in Locs(segs) /\ GraphOK(segs) /\ Len(queue) \in Nat \ {0}
      /\ DOMAIN queue = 1..Len(queue)
      /\ \A i \in 1..Len(queue) : queue[i].loc \in Locs(segs) /\ queue[i].id = Id(segs, queue[i].loc)
  BY <1>1, QueueOnceFacts, Zenon
<1>4. /\ {l, r} = {queue[1], queue[2]}
      /\ l.loc \in Locs(segs) /\ l.id = Id(segs, l.loc)
      /\ r.loc \in Locs(segs) /\ r.id = Id(segs, r.loc)
      /\ seg \in Segments /\ DOMAIN seg.prior = {1, 2}
      /\ seg.prior[1] = l.loc /\ seg.prior[2] = r.loc
      /\ Len(seg.cmds) = 1 /\ DOMAIN seg.cmds = {1} /\ seg.cmds[1] = MergeId(l.id, r.id)
      /\ segs' = sg
  BY <1>2, Zenon DEF Merges
<1>5. /\ DOMAIN queue' = 1..k
      /\ queue'[k].loc = last
      /\ \A i \in 3..Len(queue) : i - 2 \in DOMAIN queue' /\ queue'[i - 2] = queue[i]
  <2>1. /\ DOMAIN queue' = 1..k
        /\ queue'[k] = [id |-> seg.cmds[1], loc |-> last]
        /\ \A i \in 3..Len(queue) : i - 2 \in DOMAIN queue' /\ queue'[i - 2] = queue[i]
    BY <1>2, Zenon DEF Merges
  <2> HIDE DEF k, last
  <2>2. queue'[k].loc = last
    BY <2>1
  <2> QED
    BY <2>1, <2>2, Zenon
<1>6. /\ k \in 1..k
      /\ \A j \in 1..k : j # k => j + 2 \in 3..Len(queue) /\ j + 2 \in 1..Len(queue) /\ (j + 2) - 2 = j
      /\ \A i \in 1..Len(queue) : i = 1 \/ i = 2 \/ i \in 3..Len(queue)
      /\ 1 \in 1..Len(queue) /\ 2 \in 1..Len(queue) /\ \A i \in 3..Len(queue) : i # 1 /\ i # 2
  <2> DEFINE N == Len(queue)
  <2>1. N \in Nat /\ N > 1 /\ k = N - 1
    BY <1>1, <1>3, Zenon
  <2> HIDE DEF N, k
  <2>2. k \in 1..k /\ 1 \in 1..N /\ 2 \in 1..N
    BY <2>1
  <2>3. \A j \in 1..k : j # k => j + 2 \in 3..N /\ j + 2 \in 1..N /\ (j + 2) - 2 = j
    BY <2>1
  <2>4. (\A i \in 1..N : i = 1 \/ i = 2 \/ i \in 3..N) /\ \A i \in 3..N : i # 1 /\ i # 2
    BY <2>1
  <2> QED
    BY <2>2, <2>3, <2>4, Zenon DEF N
<1>7. ASSUME NEW j \in 1..k, j # k
      PROVE  /\ queue'[j] = queue[j + 2] /\ j + 2 \in 3..Len(queue) /\ j + 2 \in 1..Len(queue)
             /\ (j + 2) - 2 = j
  <2>1. j + 2 \in 3..Len(queue) /\ j + 2 \in 1..Len(queue) /\ (j + 2) - 2 = j
    BY <1>6, <1>7, Zenon
  <2> QED
    BY <1>5, <2>1, Zenon
<1>8. \A j \in DOMAIN seg.prior : seg.prior[j] \in Locs(segs)
  BY <1>4, Zenon
<1>9. last \notin Locs(segs) /\ Extends(sg, segs) /\ last = <<Len(segs) + 1, Len(seg.cmds)>>
  <2>1. last = <<Len(segs) + 1, Len(seg.cmds)>>
    BY <1>4, Zenon
  <2> HIDE DEF last
  <2>2. last \notin Locs(segs)
    BY <1>3, <1>4, <1>8, <2>1, LastEnds, Zenon
  <2>3. Extends(sg, segs)
    BY <1>3, <1>4, <1>8, SegmentHolds, Zenon
  <2> QED
    BY <2>1, <2>2, <2>3, Zenon
<1> HIDE DEF last, sg, k
<1>10. /\ Shape(segs, T, {head})
       /\ \A i, j \in DOMAIN queue : queue[i].loc = queue[j].loc => i = j
       /\ head \in QueueLocs(queue) => Len(queue) = 2
  BY <1>3, Zenon DEF QueueOK
<1>11. /\ \A x \in QueueLocs(queue) : \E i \in 1..Len(queue) : x = queue[i].loc
       /\ \A i \in 1..Len(queue) : queue[i].loc \in QueueLocs(queue)
       /\ \A x \in QueueLocs(queue') : \E j \in 1..k : x = queue'[j].loc
       /\ \A j \in 1..k : queue'[j].loc \in QueueLocs(queue')
  BY <1>3, <1>5, Zenon DEF QueueLocs
<1>12. /\ l.loc \in QueueLocs(queue) /\ r.loc \in QueueLocs(queue) /\ (l.loc # head \/ r.loc # head)
       /\ \A i \in 3..Len(queue) : i \in 1..Len(queue) => queue[i].loc # l.loc /\ queue[i].loc # r.loc
       /\ queue[1].loc \in {l.loc, r.loc} /\ queue[2].loc \in {l.loc, r.loc}
  <2>1. queue[1].loc # queue[2].loc
    <3>1. 1 # 2
      OBVIOUS
    <3> QED
      BY <1>3, <1>6, <1>10, <3>1, Zenon
  <2>2. (l = queue[1] /\ r = queue[2]) \/ (l = queue[2] /\ r = queue[1]) \/ queue[1] = queue[2]
    BY <1>4, Zenon
  <2>3. (l = queue[1] /\ r = queue[2]) \/ (l = queue[2] /\ r = queue[1])
    BY <2>1, <2>2, Zenon
  <2>4. \A i \in 1..Len(queue) : i # 1 => queue[i].loc # queue[1].loc
    BY <1>3, <1>6, <1>10, Zenon
  <2>5. \A i \in 1..Len(queue) : i # 2 => queue[i].loc # queue[2].loc
    BY <1>3, <1>6, <1>10, Zenon
  <2>6. \A i \in 3..Len(queue) : i \in 1..Len(queue) => queue[i].loc # l.loc /\ queue[i].loc # r.loc
    BY <1>6, <2>3, <2>4, <2>5, Zenon
  <2>7. queue[1].loc \in QueueLocs(queue) /\ queue[2].loc \in QueueLocs(queue)
    BY <1>6, <1>11, Zenon
  <2>8. CASE l = queue[1] /\ r = queue[2]
    BY <2>1, <2>6, <2>7, <2>8, Zenon
  <2>9. CASE l = queue[2] /\ r = queue[1]
    BY <2>1, <2>6, <2>7, <2>9, Zenon
  <2> QED
    BY <2>3, <2>8, <2>9, Zenon
<1>13. ASSUME NEW x \in Live(segs, T \cup {head}) PROVE Id(segs, x) # MergeId(l.id, r.id)
  <2>1. l.loc \in T \cup {head} /\ r.loc \in T \cup {head} /\ (l.loc \in T \/ r.loc \in T)
    BY <1>12, Zenon
  <2> DEFINE O == {head}
  <2>2. /\ l.loc \in T \cup O /\ r.loc \in T \cup O /\ x \in Live(segs, T \cup O)
        /\ Shape(segs, T, O) /\ GraphOK(segs) /\ IdsOK(segs)
    BY <1>3, <1>10, <1>13, <2>1, Zenon
  <2> HIDE DEF T, O
  <2>3. PICK h \in T : h = l.loc \/ h = r.loc
    BY <2>1, Zenon
  <2>4. Id(segs, x) # MergeId(Id(segs, l.loc), Id(segs, r.loc))
    BY <2>2, <2>3, MergeFresh, Zenon
  <2> QED
    BY <1>4, <2>4, Zenon
<1>14. head \notin QueueLocs(queue')
  <2> SUFFICES ASSUME NEW j \in 1..k, head = queue'[j].loc PROVE FALSE
    BY <1>11, Zenon
  <2>1. CASE j = k
    BY <1>3, <1>5, <1>9, <2>1, Zenon
  <2>2. CASE j # k
    <3>1. queue'[j] = queue[j + 2] /\ j + 2 \in 3..Len(queue) /\ j + 2 \in 1..Len(queue)
      BY <1>7, <2>2, Zenon
    <3>2. Len(queue) = 2
      BY <1>10, <1>11, <3>1, Zenon
    <3> QED
      BY <3>1, <3>2
  <2> QED
    BY <2>1, <2>2, Zenon
<1>15. Grows(segs, T, {head}, seg, last, T2, {head})
  <2>1. \A j \in DOMAIN seg.prior : seg.prior[j] \in T \cup {head}
    BY <1>4, <1>12, Zenon
  <2>2. \A i \in DOMAIN seg.cmds : \A x \in Live(segs, T \cup {head}) : Id(segs, x) # seg.cmds[i]
    BY <1>4, <1>13, Zenon
  <2>3. \A i, j \in DOMAIN seg.cmds : seg.cmds[i] = seg.cmds[j] => i = j
    BY <1>4, Zenon
  <2>4. last \in T2 /\ last # head
    BY <1>3, <1>5, <1>6, <1>9, <1>11, Zenon
  <2>5. ASSUME NEW h \in T2
        PROVE  h = last \/ (h \in T /\ \A j \in DOMAIN seg.prior : seg.prior[j] # h)
    <3>1. PICK j \in 1..k : h = queue'[j].loc
      BY <1>11, Zenon
    <3>2. CASE j = k
      BY <1>5, <3>1, <3>2, Zenon
    <3>3. CASE j # k
      <4>1. h = queue[j + 2].loc /\ j + 2 \in 3..Len(queue) /\ j + 2 \in 1..Len(queue)
        BY <1>7, <3>1, <3>3, Zenon
      <4> QED
        BY <1>4, <1>11, <1>12, <4>1, Zenon
    <3> QED
      BY <3>2, <3>3, Zenon
  <2>6. ASSUME NEW x \in T \cup {head}
        PROVE  x \in T2 \cup {head} \/ \E j \in DOMAIN seg.prior : seg.prior[j] = x
    <3> SUFFICES ASSUME x # head PROVE x \in T2 \/ x = l.loc \/ x = r.loc
      BY <1>4, Zenon
    <3>1. PICK i \in 1..Len(queue) : x = queue[i].loc
      BY <1>11, Zenon
    <3>2. CASE i = 1 \/ i = 2
      BY <1>12, <3>1, <3>2, Zenon
    <3>3. CASE i \in 3..Len(queue)
      <4>1. i - 2 \in 1..k /\ queue'[i - 2].loc = x
        BY <1>5, <3>1, <3>3, Zenon
      <4> QED
        BY <1>11, <4>1, Zenon
    <3> QED
      BY <1>6, <3>2, <3>3, Zenon
  <2> HIDE DEF T, T2
  <2> QED
    BY <1>4, <1>9, <1>10, <2>1, <2>2, <2>3, <2>4, <2>5, <2>6, Zenon DEF Grows
<1>16. Shape(sg, T2, {head})
  <2> DEFINE O == {head}
  <2>1. Grows(segs, T, O, seg, last, T2, O)
    BY <1>15, Zenon
  <2> HIDE DEF T, T2, O
  <2>2. Shape(sg, T2, O)
    BY <1>3, <2>1, ShapeGrows, Zenon DEF sg
  <2> QED
    BY <2>2, Zenon DEF O
<1>17. \A i, j \in DOMAIN queue' : queue'[i].loc = queue'[j].loc => i = j
  <2> SUFFICES ASSUME NEW i \in 1..k, NEW j \in 1..k, queue'[i].loc = queue'[j].loc PROVE i = j
    BY <1>5, Zenon
  <2>1. ASSUME NEW n \in 1..k, n # k PROVE queue'[n].loc # last
    BY <1>3, <1>7, <1>9, <2>1, Zenon
  <2>2. CASE i # k /\ j # k
    <3>0. /\ queue'[i] = queue[i + 2] /\ i + 2 \in DOMAIN queue
          /\ queue'[j] = queue[j + 2] /\ j + 2 \in DOMAIN queue
      BY <1>3, <1>7, <2>2, Zenon
    <3>1. i + 2 = j + 2
      BY <1>10, <3>0, Zenon
    <3> QED
      BY <1>7, <2>2, <3>1, Zenon
  <2> QED
    BY <1>5, <2>1, <2>2, Zenon
<1>18. QueueOK(sg, head, queue', merging')
  BY <1>14, <1>16, <1>17, Zenon DEF QueueOK
<1> QED
  BY <1>1, <1>3, <1>4, <1>9, <1>18, QueueOnce, Zenon

\* The committed head becomes one more head to merge.
LEMMA MergeWithHeadOnce == ASSUME Inv, OnceInv, MergeWithHead PROVE OnceInv'
<1> DEFINE new == [id |-> Id(segs, head), loc |-> head]
           x == queue[1].loc
           s == x[1]
<1>1. /\ Len(queue) = 1 /\ queue' = Append(queue, new) /\ ~Descends(x) /\ ~merging /\ merging'
      /\ UNCHANGED <<segs, head, trx, busy, delivered, use>>
  BY Zenon DEF MergeWithHead
<1>2. queue \in Seq(HeadsIn(segs)) /\ queue # <<>>
  BY <1>1 DEF Inv, CommitInv
<1> SUFFICES ASSUME Careful, Alone PROVE OnceInv'
  BY <1>1, SameUse, Zenon
<1>3. /\ HeadOK(segs, head) /\ QueueOK(segs, head, queue, merging)
      /\ busy # NoTrx /\ head \in Locs(segs) /\ GraphOK(segs)
      /\ \A i \in 1..Len(queue) : queue[i].loc \in Locs(segs)
  BY <1>2, QueueOnceFacts, Zenon
<1>4. new \in HeadsIn(segs) /\ new.loc = head
  BY <1>3, Zenon DEF HeadsIn
<1> HIDE DEF new
<1>5. /\ DOMAIN queue = {1} /\ DOMAIN queue' = {1, 2} /\ Len(queue') = 2
      /\ queue'[1] = queue[1] /\ queue'[2] = new
  <2>1. Len(queue) = 1 /\ queue' = Append(queue, new)
    BY <1>1, Zenon
  <2>2. /\ Len(queue') = Len(queue) + 1 /\ DOMAIN queue' = 1..(Len(queue) + 1)
        /\ queue'[Len(queue) + 1] = new /\ \A i \in 1..Len(queue) : queue'[i] = queue[i]
    <3> DEFINE H == HeadsIn(segs)
               q == Append(queue, new)
    <3>1. queue \in Seq(H) /\ new \in H
      BY <1>2, <1>4, Zenon
    <3> HIDE DEF H
    <3>2. /\ Len(q) = Len(queue) + 1 /\ DOMAIN q = 1..(Len(queue) + 1)
          /\ q[Len(queue) + 1] = new /\ \A i \in 1..Len(queue) : q[i] = queue[i]
      BY <3>1, AppendFacts
    <3> QED
      BY <2>1, <3>2, Zenon
  <2>3. DOMAIN queue = 1..Len(queue)
    BY <1>2
  <2>4. 1 + 1 = 2 /\ 1..2 = {1, 2} /\ 1..1 = {1}
    OBVIOUS
  <2> QED
    BY <2>1, <2>2, <2>3, <2>4, Zenon
<1>6. x \in Locs(segs) /\ QueueLocs(queue) = {x} /\ QueueLocs(queue') = {x, head}
  <2>1. 1 \in 1..Len(queue)
    BY <1>1
  <2>2. QueueLocs(queue) = {x} /\ QueueLocs(queue') = {x, head}
    BY <1>4, <1>5, Zenon DEF QueueLocs
  <2> QED
    BY <1>3, <2>1, <2>2, Zenon
<1> HIDE DEF x
<1>7. x # head
  BY <1>1, <1>3, <1>6, Zenon DEF QueueOK
<1>8. QueueLocs(queue') \ {head} = QueueLocs(queue) \ {head} /\ QueueLocs(queue) \ {head} = {x}
  BY <1>6, <1>7, Zenon
<1>9. Shape(segs, {x}, {head})
  BY <1>3, <1>8, Zenon DEF QueueOK
<1>10. ASSUME head \in UpTo(segs, x) PROVE FALSE
  <2>1. x = HeadOf(segs, s) /\ head = HeadOf(segs, head[1])
    BY <1>3, <1>9, Zenon DEF Shape, AtEnd, HeadOK
  <2>2. head[1] = s
    <3>1. head \in Earlier(segs)[s] \/ head \in {s} \X (1..x[2])
      BY <1>10, Zenon DEF UpTo
    <3>2. CASE head \in Earlier(segs)[s]
      <4>1. <<s, 1>>[1] = s
        OBVIOUS
      <4> HIDE DEF s
      <4>2. head \in UpTo(segs, <<s, 1>>)
        BY <3>2, <4>1, Zenon DEF UpTo
      <4>3. head \notin Before(segs, <<s, 1>>)
        BY <1>1, Zenon DEF Descends, s
      <4>4. head = <<s, 1>>
        BY <4>2, <4>3, Zenon DEF Before
      <4> QED
        BY <4>1, <4>4, Zenon
    <3>3. CASE head \in {s} \X (1..x[2])
      <4> HIDE DEF s
      <4> QED
        BY <3>3
    <3> QED
      BY <3>1, <3>2, <3>3, Zenon
  <2> QED
    BY <1>7, <2>1, <2>2, Zenon
<1>11. \A i, j \in DOMAIN queue' : queue'[i].loc = queue'[j].loc => i = j
  BY <1>4, <1>5, <1>7, Zenon DEF x
<1>12. QueueOK(segs', head, queue', merging')
  BY <1>1, <1>5, <1>8, <1>9, <1>10, <1>11, Zenon DEF QueueOK, x
<1>13. Extends(segs', segs)
  BY <1>1, <1>3, ExtendsItself, Zenon
<1> QED
  BY <1>1, <1>3, <1>12, <1>13, QueueOnce, Zenon

\* The end of a commit.
LEMMA CommitEndOnce ==
    ASSUME Inv, OnceInv, busy # NoTrx, NEW res, CommitEnd(res), UNCHANGED <<segs, use>>,
           Careful /\ Alone => HeadOK(segs, head')
    PROVE  OnceInv'
<1> SUFFICES ASSUME Careful, Alone PROVE OnceInv'
  BY SameUse, Zenon
<1>1. busy \in Trxs /\ trx = [u \in Trxs |-> trx[u]] /\ busy' = NoTrx
  BY Zenon DEF Inv, CommitInv, TrxInv, CommitEnd
<1>2. trx' = [trx EXCEPT ![busy] = NewTrx]
  BY Zenon DEF CommitEnd, Careful
<1>3. busy \in use.trxs
  BY <1>1, Zenon DEF OnceInv
<1>4. \A u \in Trxs : u # busy => trx[u] = NewTrx
  BY <1>3, OthersNew, Zenon
<1>5. \A u \in Trxs : trx'[u] = NewTrx
  BY <1>1, <1>2, <1>4, Zenon
<1> QED
  BY <1>1, <1>5, AllNewOnce, Zenon

\* A commit that ends and leaves the head where it is.
LEMMA CommitEndsOnce ==
    ASSUME Inv, OnceInv, NothingToCommit \/ MergeSame \/ MergeFails PROVE OnceInv'
<1>1. busy # NoTrx
  <2>1. CASE NothingToCommit
    BY <2>1, Zenon DEF NothingToCommit
  <2>2. CASE Len(queue) > 1
    <3>1. queue # <<>>
      BY <2>2
    <3> QED
      BY <3>1, QueueFacts, Zenon
  <2> QED
    BY <2>1, <2>2, Zenon DEF MergeSame, MergeFails
<1>2. UNCHANGED <<segs, head, use>>
  BY Zenon DEF NothingToCommit, MergeSame, MergeFails
<1>3. Careful /\ Alone => HeadOK(segs, head')
  BY <1>1, <1>2, Zenon DEF Inv, CommitInv, OnceInv
<1> QED
  BY <1>1, <1>2, <1>3, CommitEndOnce, Zenon DEF NothingToCommit, MergeSame, MergeFails

\* The last head is committed.
LEMMA CommitHeadOnce == ASSUME Inv, OnceInv, CommitHead PROVE OnceInv'
<1> DEFINE x == queue[1].loc
           s == x[1]
<1>1. /\ Len(queue) = 1 /\ Descends(x) /\ head' = HeadOf(segs, s)
      /\ CommitEnd("ok") /\ UNCHANGED <<segs, use>>
  BY Zenon DEF CommitHead
<1>2. queue # <<>>
  BY <1>1 DEF Inv, CommitInv
<1>3. busy # NoTrx
  BY <1>2, QueueFacts, Zenon
<1>4. ASSUME Careful, Alone PROVE HeadOK(segs, head')
  <2>1. /\ QueueOK(segs, head, queue, merging)
        /\ busy # NoTrx /\ head \in Locs(segs) /\ GraphOK(segs) /\ DOMAIN queue = 1..Len(queue)
        /\ \A i \in 1..Len(queue) : queue[i].loc \in Locs(segs)
    BY <1>2, <1>4, QueueOnceFacts, Zenon
  <2>2. 1 \in 1..Len(queue) /\ (\A i \in 1..Len(queue) : i = 1) /\ Len(queue) # 2
    BY <1>1
  <2>3. x \in Locs(segs) /\ QueueLocs(queue) = {x}
    BY <2>1, <2>2, Zenon DEF QueueLocs
  <2>4. x # head
    BY <2>1, <2>2, <2>3, Zenon DEF QueueOK
  <2> HIDE DEF x
  <2>5. Shape(segs, {x}, {head})
    <3>1. QueueLocs(queue) \ {head} = {x}
      BY <2>3, <2>4, Zenon
    <3> QED
      BY <2>1, <3>1, Zenon DEF QueueOK
  <2>6. x = HeadOf(segs, s) /\ head' = x
    BY <1>1, <2>5, Zenon DEF Shape, AtEnd
  <2>7. UpTo(segs, head) \subseteq UpTo(segs, x)
    <3>1. x = <<s, x[2]>> /\ x[2] \in 1..Len(segs[s].cmds)
      BY <2>1, <2>3, LocsFacts, Zenon DEF GraphOK
    <3>2. x[2] \in Nat \ {0} /\ 1 <= x[2] /\ 1 \in Nat \ {0}
      BY <3>1
    <3> HIDE DEF s
    <3>3. UpTo(segs, <<s, 1>>) \subseteq UpTo(segs, <<s, x[2]>>)
      BY <3>2, UpToSegment
    <3>4. head \in UpTo(segs, x)
      BY <1>1, <3>1, <3>3, Zenon DEF Descends, Before, s
    <3> QED
      BY <2>1, <2>3, <3>4, UpToTransitive, Zenon
  <2>8. Live(segs, {x}) = Live(segs, {x} \cup {head})
    BY <2>7, Zenon DEF Live
  <2>9. Shape(segs, {}, {x})
    <3> DEFINE T == {x}
               O == {head}
    <3>1. Shape(segs, T, O) /\ T \subseteq Locs(segs) /\ Live(segs, T) = Live(segs, T \cup O)
      BY <2>3, <2>5, <2>8, Zenon
    <3> HIDE DEF T, O
    <3>2. Shape(segs, {}, T)
      BY <3>1, ShapeFrom, Zenon
    <3> QED
      BY <3>2, Zenon DEF T
  <2> QED
    BY <2>6, <2>9, Zenon DEF HeadOK
<1> QED
  BY <1>1, <1>3, <1>4, CommitEndOnce, Zenon

-----------------------------------------------------------------------------
(* All steps.                                                              *)

\* Every step keeps the invariant.
LEMMA NextOnce == ASSUME Inv, OnceInv, [Next]_vars PROVE OnceInv'
<1>1. /\ use.trxs \subseteq Trxs /\ use.ids \subseteq PeerIds
      /\ InitId \in Nat \ {0} /\ \A c \in LocalIds : c \in Nat \ {0}
  <2>1. use \in Uses
    BY DEF Inv, GraphInv
  <2>2. InitId \in Nat \ {0} /\ \A c \in LocalIds : c \in 1..MergeIdBase
    BY IdsAssumption, Zenon DEF NoId
  <2>3. \A n \in 1..MergeIdBase : n \in Nat \ {0}
    BY IdsAssumption
  <2> QED
    BY <2>1, <2>2, <2>3, IdsAssumption, Zenon
<1>2. ASSUME NEW c \in LocalIds, NewGraph(c) PROVE OnceInv'
  <2>1. <<InitId, c>> \in Seq(Nat \ {0})
    BY <1>1
  <2> QED
    BY <1>2, <2>1, CreateOnce, Zenon DEF NewGraph
<1>3. ASSUME NEW c \in LocalIds, Action(c) PROVE OnceInv'
  BY <1>3, ActionOnce, Zenon
<1>4. ASSUME NEW c \in use.ids, InitGraph(c) PROVE OnceInv'
  <2>1. <<InitId>> \in Seq(Nat \ {0})
    BY <1>1
  <2> QED
    BY <1>4, <2>1, CreateOnce, Zenon DEF InitGraph
<1>5. CASE InitError \/ ActionFails \/ Terminating \/ UNCHANGED vars
  BY <1>5, QuietOnce, Zenon DEF InitError, ActionFails, Terminating, vars
<1>6. ASSUME NEW t \in use.trxs, NEW c \in use.ids,
             AddToPerspective(t, c) \/ AddElsewhere(t, c) \/ AddMerge(t, c)
      PROVE  OnceInv'
  <2>1. CASE AddToPerspective(t, c)
    BY <1>1, <1>6, <2>1, AddToPerspectiveOnce, Zenon
  <2>2. CASE AddElsewhere(t, c)
    BY <1>1, <1>6, <2>2, AddElsewhereCases, ReaddsOnce, Zenon
  <2>3. CASE AddMerge(t, c)
    BY <1>1, <1>6, <2>3, AddMergeCases, ReaddsOnce, Zenon
  <2> QED
    BY <1>6, <2>1, <2>2, <2>3, Zenon
<1>7. ASSUME NEW t \in use.trxs, CommitStart(t) \/ Drop(t) PROVE OnceInv'
  BY <1>1, <1>7, CommitStartOnce, DropOnce, Zenon
<1>8. CASE NothingToCommit \/ MergeSame \/ MergeFails
  BY <1>8, CommitEndsOnce, Zenon
<1>9. CASE MergeHeads \/ CommitHead \/ MergeWithHead
  BY <1>9, MergeHeadsOnce, CommitHeadOnce, MergeWithHeadOnce, Zenon
<1> QED
  BY <1>2, <1>3, <1>4, <1>5, <1>6, <1>7, <1>8, <1>9, ZenonT(60) DEF Next

\* What is in reach of a careful transaction that is alone, and of the graph, is there
\* once, and the heads it commits have nothing after them.
THEOREM OnceInvHolds == Spec => []OnceInv
<1>1. Init => OnceInv
  <2> SUFFICES ASSUME Init PROVE OnceInv
    BY Zenon
  <2>1. head = NoLoc /\ busy = NoTrx /\ trx = [t \in Trxs |-> NewTrx] /\ NoTrx \notin Trxs
    BY IdsAssumption, Zenon DEF Init
  <2>2. ~Exists /\ \A t \in Trxs : trx[t] = NewTrx /\ busy # t
    BY <2>1, Zenon DEF Exists
  <2> HIDE DEF OpenOK, HeadOK, QueueOK
  <2> QED
    BY <2>1, <2>2, Zenon DEF OnceInv
<1>2. Inv /\ OnceInv /\ [Next]_vars => OnceInv'
  BY NextOnce, Zenon
<1> QED
  BY <1>1, <1>2, InvHolds, PTL DEF Spec

\* CommittedOnce: no command is in the graph twice, whether it came from a peer, was
\* merged here and received again, or was left over from a failed transaction.
THEOREM CommittedOnceHolds == Spec => []CommittedOnce
<1>1. Inv /\ OnceInv => CommittedOnce
  <2> SUFFICES ASSUME Inv, OnceInv, Careful, Alone,
                      NEW x \in UpTo(segs, head), NEW y \in UpTo(segs, head), Id(segs, x) = Id(segs, y)
               PROVE  x = y
    BY Zenon DEF CommittedOnce
  <2>1. CASE Exists
    <3>1. Once(segs, {} \cup {head})
      BY <2>1, Zenon DEF OnceInv, HeadOK, Shape
    <3>2. Live(segs, {} \cup {head}) = UpTo(segs, head)
      <4>1. {} \cup {head} = {head}
        BY Zenon
      <4> QED
        BY <4>1, LiveOne, Zenon
    <3> QED
      BY <3>1, <3>2, Zenon DEF Once
  <2>2. CASE ~Exists
    <3>1. UpTo(segs, head) = {}
      BY <2>2, UpToNoLoc, Zenon DEF Exists, Inv, GraphInv
    <3> QED
      BY <3>1, Zenon
  <2> QED
    BY <2>1, <2>2, Zenon
<1> QED
  BY <1>1, InvHolds, OnceInvHolds, PTL

\* No two heads that commit has still to merge are ancestors of each other.
QueueIncomparable ==
    Careful /\ Alone => \A i, j \in DOMAIN queue :
        i # j => Id(segs, queue[i].loc) \notin IdsUpTo(segs, queue[j].loc)

\* It follows from what is known of the queue.
LEMMA QueueApart ==
    ASSUME Inv, OnceInv, Careful, Alone, NEW i \in DOMAIN queue, NEW j \in DOMAIN queue, i # j
    PROVE  Id(segs, queue[i].loc) \notin IdsUpTo(segs, queue[j].loc)
<1> DEFINE x == queue[i].loc
           y == queue[j].loc
           T == QueueLocs(queue) \ {head}
           R == T \cup {head}
<1>1. queue # <<>>
  <2>1. DOMAIN <<>> = {}
    OBVIOUS
  <2> QED
    BY <2>1, Zenon
<1>2. /\ QueueOK(segs, head, queue, merging)
      /\ head \in Locs(segs) /\ GraphOK(segs)
      /\ DOMAIN queue = 1..Len(queue)
      /\ \A n \in 1..Len(queue) : queue[n].loc \in Locs(segs)
  BY <1>1, QueueOnceFacts, Zenon
<1>3. /\ Shape(segs, T, {head}) /\ x # y
      /\ head \in QueueLocs(queue) => Len(queue) = 2 /\ head \notin UpTo(segs, queue[1].loc)
  BY <1>2, Zenon DEF QueueOK
<1>4. x \in Locs(segs) /\ y \in Locs(segs) /\ x \in QueueLocs(queue) /\ y \in QueueLocs(queue)
  BY <1>2, Zenon DEF QueueLocs
<1>5. x \in R /\ y \in R /\ R \subseteq Locs(segs) /\ Once(segs, R) /\ Tips(segs, T, {head})
  BY <1>3, <1>4, Zenon DEF Shape
<1>6. x \notin UpTo(segs, y)
  <2>1. CASE x # head
    BY <1>3, <1>4, <1>5, <2>1, Zenon DEF Tips
  <2>2. CASE x = head
    <3>1. Len(queue) = 2 /\ head \notin UpTo(segs, queue[1].loc)
      BY <1>3, <1>4, <2>2, Zenon
    <3>2. i # 1
      <4>1. head \in UpTo(segs, head)
        BY <1>2, UpToLocs, Zenon
      <4> QED
        BY <2>2, <3>1, <4>1, Zenon
    <3>3. i \in 1..2 /\ j \in 1..2
      BY <1>2, <3>1, Zenon
    <3>4. j = 1
      BY <3>2, <3>3
    <3> QED
      BY <2>2, <3>1, <3>4, Zenon
  <2> QED
    BY <2>1, <2>2, Zenon
<1> HIDE DEF x, y, T, R
<1>7. ASSUME NEW z \in UpTo(segs, y), Id(segs, z) = Id(segs, x) PROVE FALSE
  <2>1. x \in UpTo(segs, x)
    BY <1>2, <1>4, UpToLocs, Zenon
  <2>2. x \in Live(segs, R) /\ z \in Live(segs, R)
    BY <1>5, <1>7, <2>1, LiveIs, Zenon
  <2>3. z = x
    BY <1>5, <1>7, <2>2, Zenon DEF Once
  <2> QED
    BY <1>6, <1>7, <2>3, Zenon
<1>8. Id(segs, x) \notin IdsUpTo(segs, y)
  BY <1>7, Zenon DEF IdsUpTo
<1> QED
  BY <1>8, Zenon DEF x, y

\* What braid and last_common_ancestor need of the merges of commit: neither side is an
\* ancestor of the other, nor equal to one.
THEOREM QueueIncomparableHolds == Spec => []QueueIncomparable
<1>1. Inv /\ OnceInv => QueueIncomparable
  BY QueueApart, Zenon DEF QueueIncomparable
<1> QED
  BY <1>1, InvHolds, OnceInvHolds, PTL

\* The condition of assume("merging different ids") in commit.
MergesDifferent == Careful /\ Alone => result # "merging the same ids"

\* The two heads that commit takes have different ids.
LEMMA NotSame == ASSUME Inv, OnceInv, Careful, Alone, MergeSame PROVE FALSE
<1>1. Len(queue) > 1 /\ queue[1].id = queue[2].id
  BY Zenon DEF MergeSame
<1>2. queue # <<>>
  BY <1>1
<1>3. /\ GraphOK(segs) /\ DOMAIN queue = 1..Len(queue) /\ Len(queue) \in Nat \ {0}
      /\ \A i \in 1..Len(queue) : queue[i].loc \in Locs(segs) /\ queue[i].id = Id(segs, queue[i].loc)
  BY <1>2, QueueOnceFacts, Zenon
<1>4. 1 \in 1..Len(queue) /\ 2 \in 1..Len(queue) /\ 1 # 2
  BY <1>1, <1>3
<1>5. Id(segs, queue[1].loc) \notin IdsUpTo(segs, queue[2].loc)
  BY <1>3, <1>4, QueueApart, Zenon
<1>6. queue[2].loc \in UpTo(segs, queue[2].loc)
  BY <1>3, <1>4, UpToLocs, Zenon
<1>7. Id(segs, queue[2].loc) \in IdsUpTo(segs, queue[2].loc)
  BY <1>6, Zenon DEF IdsUpTo
<1> QED
  BY <1>1, <1>3, <1>4, <1>5, <1>7, Zenon

\* So that assume does not fail.
THEOREM MergesDifferentHolds == Spec => []MergesDifferent
<1>1. Init => MergesDifferent
  BY Zenon DEF Init, MergesDifferent
<1>2. Inv /\ OnceInv /\ MergesDifferent /\ [Next]_vars => MergesDifferent'
  <2> SUFFICES ASSUME Inv, OnceInv, MergesDifferent, [Next]_vars PROVE MergesDifferent'
    BY Zenon
  <2>1. ASSUME NEW t, NEW c, AddToPerspective(t, c) PROVE MergesDifferent'
    BY <2>1, ZenonT(30) DEF AddToPerspective, Return, MergesDifferent
  <2>2. ASSUME NEW t, NEW c, AddElsewhere(t, c) PROVE MergesDifferent'
    BY <2>2, ZenonT(30) DEF AddElsewhere, Return, MergesDifferent
  <2>3. ASSUME NEW t, NEW c, AddMerge(t, c) PROVE MergesDifferent'
    BY <2>3, ZenonT(30) DEF AddMerge, Return, MergesDifferent
  <2>4. ASSUME NEW t, CommitStart(t) PROVE MergesDifferent'
    BY <2>4, ZenonT(30) DEF CommitStart, Return, MergesDifferent
  <2>5. CASE NothingToCommit \/ MergeFails \/ CommitHead
    BY <2>5, ZenonT(30) DEF NothingToCommit, MergeFails, CommitHead, CommitEnd, MergesDifferent
  <2>6. CASE MergeSame
    <3>1. UNCHANGED use
      BY <2>6, Zenon DEF MergeSame
    <3> QED
      BY <2>6, <3>1, NotSame, SameUse, Zenon DEF MergesDifferent
  <2>7. ASSUME UNCHANGED <<result, use>> PROVE MergesDifferent'
    BY <2>7, SameUse, Zenon DEF MergesDifferent
  <2>8. ASSUME NEW t, Drop(t) PROVE MergesDifferent'
    BY <2>7, <2>8, Zenon DEF Drop
  <2>9. CASE MergeHeads \/ MergeWithHead \/ Terminating \/ UNCHANGED vars
    BY <2>7, <2>9, Zenon DEF MergeHeads, MergeWithHead, Terminating, vars
  <2>10. CASE InitError \/ ActionFails
    BY <2>10, Zenon DEF InitError, ActionFails, MergesDifferent
  <2>11. ASSUME NEW c, NewGraph(c) \/ Action(c) \/ InitGraph(c) PROVE MergesDifferent'
    BY <2>11, Zenon DEF NewGraph, Action, InitGraph, Create, MergesDifferent
  <2> QED
    BY <2>1, <2>2, <2>3, <2>4, <2>5, <2>6, <2>8, <2>9, <2>10, <2>11, ZenonT(60) DEF Next
<1> QED
  BY <1>1, <1>2, InvHolds, OnceInvHolds, PTL DEF Spec

\* NoBug: none of the assumes of get_perspective and commit fails, and commit does not
\* come to its bug!.
THEOREM NoBugHolds == Spec => []NoBug
<1>1. HasPerspective /\ MergesDifferent /\ NoLoop => NoBug
  BY Zenon DEF HasPerspective, MergesDifferent, NoLoop, NoBug
<1> QED
  BY <1>1, HasPerspectiveHolds, MergesDifferentHolds, NoLoopHolds, PTL

-----------------------------------------------------------------------------
(* All merges, if those of the peers are good.                             *)

\* Where both parents of a merge that a peer sends are in the graph, neither is an
\* ancestor of the other.
PeersMerge ==
    \A c \in PeerIds : Len(ParentsOf[c]) = 2 =>
        \A l, r \in Locs(segs) :
            Id(segs, l) = ParentsOf[c][1] /\ Id(segs, r) = ParentsOf[c][2] => Apart(segs, l, r)

\* It is so of the segments that are written, and of the perspectives.
MergeInv ==
    Careful /\ Alone => /\ MergesApart(segs)
                        /\ \A t \in Trxs : PriorsApart(segs, trx[t].persp.prior)

\* Nothing is open.
LEMMA NoPriors == \A sg, tr : tr.persp = NoPersp => PriorsApart(sg, tr.persp.prior)
<1>1. Len(NoPersp.prior) # 2
  BY DEF NoPersp
<1> QED
  BY <1>1, Zenon DEF PriorsApart

\* The graph grows, and some transactions change.
LEMMA MergesStep ==
    ASSUME Inv, MergeInv, Extends(segs', segs), UNCHANGED use,
           Careful /\ Alone => MergesApart(segs'),
           \A t \in Trxs : \/ trx'[t].persp = trx[t].persp \/ trx'[t].persp = NoPersp
                           \/ Careful /\ Alone => PriorsApart(segs', trx'[t].persp.prior)
    PROVE  MergeInv'
<1>1. Careful' = Careful /\ Alone' = Alone
  BY SameUse, Zenon
<1> SUFFICES ASSUME Careful, Alone, NEW t \in Trxs PROVE PriorsApart(segs', trx'[t].persp.prior)
  BY <1>1, Zenon DEF MergeInv
<1>2. CASE trx'[t].persp = trx[t].persp
  <2>1. GraphOK(segs) /\ trx[t].persp.prior \in Seq(Locs(segs))
    <3>1. GraphOK(segs) /\ TrxOK(segs, trx[t])
      BY Zenon DEF Inv, GraphInv, TrxInv
    <3> QED
      BY <3>1 DEF TrxOK
  <2>2. PriorsApart(segs, trx[t].persp.prior)
    BY Zenon DEF MergeInv
  <2>3. PriorsApart(segs', trx[t].persp.prior)
    BY <2>1, <2>2, PriorsKept, Zenon
  <2> QED
    BY <1>2, <2>3, Zenon
<1>3. CASE trx'[t].persp = NoPersp
  BY <1>3, NoPriors, Zenon
<1> QED
  BY <1>2, <1>3, Zenon

\* A call ends.
LEMMA ReturnMerges ==
    ASSUME Inv, MergeInv, NEW t \in Trxs, NEW sg, NEW tr, NEW res, Extends(sg, segs),
           Careful /\ Alone => MergesApart(sg),
           Careful /\ Alone /\ res = "ok" => PriorsApart(sg, tr.persp.prior),
           Return(t, sg, tr, res)
    PROVE  MergeInv'
<1> DEFINE new == IF res # "ok" /\ ~use.goes_on THEN NewTrx ELSE tr
<1>1. segs' = sg /\ trx' = [trx EXCEPT ![t] = new] /\ UNCHANGED use
  BY Zenon DEF Return
<1>2. NewTrx.persp = NoPersp
  BY DEF NewTrx
<1>3. new.persp = NoPersp \/ (Careful /\ Alone => PriorsApart(segs', new.persp.prior))
  BY <1>1, <1>2, Zenon DEF Careful
<1> HIDE DEF new
<1>4. trx = [u \in Trxs |-> trx[u]]
  BY Zenon DEF Inv, TrxInv
<1>5. \A u \in Trxs : trx'[u] = IF u = t THEN new ELSE trx[u]
  BY <1>1, <1>4, Zenon
<1>6. \A u \in Trxs : \/ trx'[u].persp = trx[u].persp \/ trx'[u].persp = NoPersp
                      \/ Careful /\ Alone => PriorsApart(segs', trx'[u].persp.prior)
  BY <1>3, <1>5, Zenon
<1> QED
  BY <1>1, <1>6, MergesStep, Zenon

\* What a call starts from.
LEMMA CallMerges ==
    ASSUME Inv, MergeInv, Careful, Alone, NEW t \in Trxs, NEW keep \in BOOLEAN
    PROVE  MergesApart(segs) /\ PriorsApart(segs, trx[t].persp.prior) /\ MergesApart(Flush(trx[t], keep).segs)
<1>1. GraphOK(segs) /\ TrxOK(segs, trx[t]) /\ MergesApart(segs) /\ PriorsApart(segs, trx[t].persp.prior)
  BY Zenon DEF Inv, GraphInv, TrxInv, MergeInv
<1> QED
  BY <1>1, FlushMerges, Zenon

\* add_single at phead.
LEMMA AddToPerspectiveMerges ==
    ASSUME Inv, MergeInv, NEW t \in Trxs, NEW c \in use.ids, AddToPerspective(t, c)
    PROVE  MergeInv'
<1>1. Idle(t)
  BY Zenon DEF AddToPerspective
<1>2. Extends(segs, segs) /\ c \in Nat \ {0} /\ TrxOK(segs, trx[t])
  <2>1. Extends(segs, segs) /\ c \in PeerIds /\ TrxOK(segs, trx[t])
    BY <1>1, CallFacts, Zenon
  <2> QED
    BY <2>1, IdsAssumption, Zenon DEF NoId
<1>3. Added(trx[t], c).persp.prior = trx[t].persp.prior
  <2> DEFINE tr == trx[t]
             new == Added(tr, c)
  <2>1. new = [persp |-> [prior |-> tr.persp.prior, cmds |-> Append(tr.persp.cmds, c), open |-> tr.persp.open],
               phead |-> c, heads |-> tr.heads, added |-> tr.added \cup {c}]
    BY <1>2, AddedIs, Zenon
  <2> HIDE DEF new, tr
  <2>2. new.persp.prior = tr.persp.prior
    BY <2>1
  <2> QED
    BY <2>2, Zenon DEF new, tr
<1>4. PICK tr, res : Return(t, segs, tr, res) /\ (tr = trx[t] \/ tr = Added(trx[t], c))
  BY Zenon DEF AddToPerspective
<1>5. Careful /\ Alone => MergesApart(segs) /\ PriorsApart(segs, tr.persp.prior)
  BY <1>3, <1>4, CallMerges, Zenon
<1> QED
  BY <1>2, <1>4, <1>5, ReturnMerges, Zenon

\* The new perspective is at the parents of the command, and they are apart because the
\* merge is of a peer.
LEMMA AddAtMerges ==
    ASSUME NEW f, NEW c \in PeerIds, NEW ps, OpensAt(f, c, ps), PeersMerge', segs' = f.segs
    PROVE  PriorsApart(f.segs, ps)
<1> SUFFICES ASSUME Len(ps) = 2 PROVE Apart(f.segs, ps[1], ps[2])
  BY Zenon DEF PriorsApart
<1>1. /\ ps \in Seq(Locs(f.segs)) /\ Len(ParentsOf[c]) = 2
      /\ \A j \in DOMAIN ps : Id(f.segs, ps[j]) = ParentsOf[c][j]
  BY Zenon DEF OpensAt
<1>2. 1 \in DOMAIN ps /\ 2 \in DOMAIN ps
  BY <1>1
<1>3. \A j \in DOMAIN ps : ps[j] \in Locs(f.segs)
  BY <1>1
<1> QED
  BY <1>1, <1>2, <1>3, Zenon DEF PeersMerge

\* add_single elsewhere and add_merge.
LEMMA ReaddsMerges ==
    ASSUME Inv, MergeInv, PeersMerge', NEW t \in Trxs, Idle(t), NEW c \in PeerIds,
           NEW keep \in BOOLEAN, Readds(t, c, Flush(trx[t], keep))
    PROVE  MergeInv'
<1> DEFINE f == Flush(trx[t], keep)
<1>1. Extends(f.segs, segs) /\ TrxOK(f.segs, f.trx)
  BY FlushedFacts, Zenon
<1>2. Careful /\ Alone => MergesApart(f.segs)
  BY CallMerges, Zenon
<1> HIDE DEF f
<1>3. CASE Return(t, f.segs, f.trx, "error")
  BY <1>1, <1>2, <1>3, ReturnMerges, Zenon
<1>4. ASSUME NEW ps, NEW ph, OpensAt(f, c, ps),
             LET opened == Opened(f.trx, ps, ph, ParentSet(c))
             IN  Return(t, f.segs, Added(opened, c), "ok") \/ Return(t, f.segs, opened, "error")
      PROVE  MergeInv'
  <2> DEFINE opened == Opened(f.trx, ps, ph, ParentSet(c))
             new == Added(opened, c)
  <2>1. CASE Return(t, f.segs, opened, "error")
    <3> HIDE DEF opened
    <3> QED
      BY <1>1, <1>2, <2>1, ReturnMerges, Zenon
  <2>2. CASE Return(t, f.segs, new, "ok")
    <3>1. segs' = f.segs
      BY <2>2, Zenon DEF Return
    <3>2. PriorsApart(f.segs, ps)
      BY <1>4, <3>1, AddAtMerges, Zenon
    <3>3. new.persp.prior = ps
      BY DEF Added, Opened
    <3> HIDE DEF opened, new
    <3> QED
      BY <1>1, <1>2, <2>2, <3>2, <3>3, ReturnMerges, Zenon
  <2> QED
    BY <1>4, <2>1, <2>2, Zenon
<1>5. Readds(t, c, f)
  BY Zenon DEF f
<1> QED
  BY <1>3, <1>4, <1>5, Zenon DEF Readds

\* A segment is appended and no transaction changes: the graph is created, an action
\* publishes, or commit merges two heads.
LEMMA AppendMerges ==
    ASSUME Inv, MergeInv, NEW seg \in Segments,
           \A j \in DOMAIN seg.prior : seg.prior[j] \in Locs(segs),
           Careful /\ Alone => PriorsApart(segs, seg.prior),
           segs' = Append(segs, seg), UNCHANGED <<trx, use>>
    PROVE  MergeInv'
<1>1. GraphOK(segs)
  BY Zenon DEF Inv, GraphInv
<1>2. Extends(segs', segs)
  BY <1>1, SegmentHolds, Zenon
<1>3. ASSUME Careful, Alone PROVE MergesApart(segs')
  <2>1. MergesApart(segs) /\ PriorsApart(segs, seg.prior)
    BY <1>3, Zenon DEF MergeInv
  <2>2. MergesApart(Append(segs, seg))
    BY <1>1, <2>1, MergesGrow, Zenon
  <2> QED
    BY <2>2, Zenon
<1> QED
  BY <1>2, <1>3, MergesStep, Zenon

\* A segment with another number of priors is no merge.
LEMMA NoMerge ==
    ASSUME NEW sg, NEW seg \in Segments, DOMAIN seg.prior = {} \/ DOMAIN seg.prior = {1}
    PROVE  PriorsApart(sg, seg.prior)
<1> DEFINE q == seg.prior
<1>1. q \in Seq(Nat \X Nat)
  BY DEF Segments
<1>2. DOMAIN q = {} \/ DOMAIN q = {1}
  BY Zenon
<1> HIDE DEF q
<1>3. Len(q) # 2
  <2> SUFFICES ASSUME Len(q) = 2 PROVE FALSE
    BY Zenon
  <2>1. 2 \in DOMAIN q
    BY <1>1
  <2> QED
    BY <1>2, <2>1
<1> QED
  BY <1>3, Zenon DEF PriorsApart, q

\* The graph is created.
LEMMA CreateMerges ==
    ASSUME Inv, MergeInv, NEW cmds \in Seq(Nat \ {0}), Create(cmds),
           \/ cmds = <<InitId>>
           \/ \E c \in LocalIds : cmds = <<InitId, c>>
    PROVE  MergeInv'
<1> DEFINE seg == CreatedSeg(cmds)
<1>1. /\ seg \in Segments /\ DOMAIN seg.prior = {} /\ segs' = Append(segs, seg)
      /\ UNCHANGED <<trx, use>>
  BY CreateFacts, Zenon
<1> HIDE DEF seg
<1> QED
  BY <1>1, NoMerge, AppendMerges, Zenon

\* An action.
LEMMA ActionMerges ==
    ASSUME Inv, MergeInv, NEW c \in LocalIds, Action(c) PROVE MergeInv'
<1> DEFINE seg == ActionSeg(c)
<1>1. /\ seg \in Segments /\ DOMAIN seg.prior = {1} /\ seg.prior[1] = head /\ head \in Locs(segs)
      /\ segs' = Append(segs, seg) /\ UNCHANGED <<trx, use>>
  BY ActionFacts, Zenon
<1> HIDE DEF seg
<1>2. \A j \in DOMAIN seg.prior : seg.prior[j] \in Locs(segs)
  BY <1>1, Zenon
<1> QED
  BY <1>1, <1>2, NoMerge, AppendMerges, Zenon

\* commit merges two heads, which are apart.
LEMMA MergeHeadsMerges == ASSUME Inv, OnceInv, MergeInv, MergeHeads PROVE MergeInv'
<1>1. Len(queue) > 1 /\ queue # <<>> /\ UNCHANGED <<trx, use>>
  BY MergeHeadsFacts, Zenon
<1>2. PICK l, r, seg : Merges(l, r, seg)
  BY MergeHeadsFacts, Zenon
<1>3. /\ seg \in Segments /\ DOMAIN seg.prior = {1, 2} /\ segs' = Append(segs, seg)
      /\ seg.prior[1] = l.loc /\ seg.prior[2] = r.loc
      /\ {l, r} = {queue[1], queue[2]}
      /\ l.loc \in Locs(segs) /\ r.loc \in Locs(segs)
  BY <1>2, Zenon DEF Merges
<1>4. \A j \in DOMAIN seg.prior : seg.prior[j] \in Locs(segs)
  BY <1>3, Zenon
<1>5. ASSUME Careful, Alone PROVE Apart(segs, l.loc, r.loc)
  <2>1. 1 \in DOMAIN queue /\ 2 \in DOMAIN queue /\ 1 # 2
    <3>1. DOMAIN queue = 1..Len(queue) /\ Len(queue) \in Nat
      BY <1>1, QueueFacts, Zenon
    <3> QED
      BY <1>1, <3>1
  <2>2. Apart(segs, queue[1].loc, queue[2].loc) /\ Apart(segs, queue[2].loc, queue[1].loc)
    BY <1>5, <2>1, QueueApart, Zenon DEF Apart
  <2> QED
    BY <1>3, <2>2, Zenon
<1>6. Careful /\ Alone => PriorsApart(segs, seg.prior)
  BY <1>3, <1>5, Zenon DEF PriorsApart
<1> QED
  BY <1>1, <1>3, <1>4, <1>6, AppendMerges, Zenon

\* commit takes the heads.
LEMMA CommitStartMerges ==
    ASSUME Inv, MergeInv, NEW t \in Trxs, CommitStart(t) PROVE MergeInv'
<1> DEFINE f == Flush(trx[t], FALSE)
           new == [f.trx EXCEPT !.heads = {}]
<1>1. Idle(t)
  BY Zenon DEF CommitStart
<1>2. Extends(f.segs, segs) /\ f.trx.persp = NoPersp /\ TrxOK(f.segs, f.trx)
  BY <1>1, FlushedFacts, Zenon
<1>3. Careful /\ Alone => MergesApart(f.segs)
  BY CallMerges, Zenon
<1>4. \/ Return(t, f.segs, f.trx, "error")
      \/ segs' = f.segs /\ trx' = [trx EXCEPT ![t] = new] /\ UNCHANGED use
  BY Zenon DEF CommitStart
<1>5. new.persp = NoPersp
  <2> DEFINE g == f.trx
             sg == f.segs
  <2>1. TrxOK(sg, g) /\ g.persp = NoPersp
    BY <1>2, Zenon
  <2> HIDE DEF g, sg
  <2>2. [g EXCEPT !.heads = {}].persp = NoPersp
    BY <2>1 DEF TrxOK
  <2> QED
    BY <2>2, Zenon DEF g
<1> HIDE DEF f, new
<1>6. CASE Return(t, f.segs, f.trx, "error")
  BY <1>2, <1>3, <1>6, ReturnMerges, Zenon
<1>7. CASE segs' = f.segs /\ trx' = [trx EXCEPT ![t] = new] /\ UNCHANGED use
  <2>1. trx = [u \in Trxs |-> trx[u]]
    BY Zenon DEF Inv, TrxInv
  <2>2. \A u \in Trxs : trx'[u] = IF u = t THEN new ELSE trx[u]
    BY <1>7, <2>1, Zenon
  <2>3. \A u \in Trxs : trx'[u].persp = trx[u].persp \/ trx'[u].persp = NoPersp
    BY <1>5, <2>2, Zenon
  <2> QED
    BY <1>2, <1>3, <1>7, <2>3, MergesStep, Zenon
<1> QED
  BY <1>4, <1>6, <1>7, Zenon

\* Nothing is written, and at most a transaction is dropped.
LEMMA KeptMerges ==
    ASSUME Inv, MergeInv, UNCHANGED <<segs, use>>, NEW t,
           trx' = trx \/ trx' = [trx EXCEPT ![t] = NewTrx]
    PROVE  MergeInv'
<1>1. GraphOK(segs) /\ trx = [u \in Trxs |-> trx[u]]
  BY Zenon DEF Inv, GraphInv, TrxInv
<1>2. Extends(segs', segs)
  BY <1>1, ExtendsItself, Zenon
<1>3. NewTrx.persp = NoPersp
  BY DEF NewTrx
<1>4. \A u \in Trxs : trx'[u] = trx[u] \/ trx'[u] = NewTrx
  BY <1>1, Zenon
<1>5. \A u \in Trxs : trx'[u].persp = trx[u].persp \/ trx'[u].persp = NoPersp
  BY <1>3, <1>4, Zenon
<1>6. Careful /\ Alone => MergesApart(segs')
  BY Zenon DEF MergeInv
<1> QED
  BY <1>2, <1>5, <1>6, MergesStep, Zenon

\* The end of a commit.
LEMMA CommitEndMerges ==
    ASSUME Inv, MergeInv, NEW res, CommitEnd(res), UNCHANGED <<segs, use>> PROVE MergeInv'
<1>1. trx' = [trx EXCEPT ![busy] = NewTrx] \/ trx' = [trx EXCEPT ![busy] = trx[busy]]
  BY Zenon DEF CommitEnd
<1>2. CASE trx' = [trx EXCEPT ![busy] = trx[busy]]
  <2>1. trx = [u \in Trxs |-> trx[u]]
    BY Zenon DEF Inv, TrxInv
  <2>2. trx' = trx
    BY <1>2, <2>1
  <2> QED
    BY <2>2, KeptMerges, Zenon
<1>3. CASE trx' = [trx EXCEPT ![busy] = NewTrx]
  BY <1>3, KeptMerges, Zenon
<1> QED
  BY <1>1, <1>2, <1>3, Zenon

\* All steps.
LEMMA NextMerges == ASSUME Inv, OnceInv, MergeInv, PeersMerge', [Next]_vars PROVE MergeInv'
<1>1. /\ use.trxs \subseteq Trxs /\ use.ids \subseteq PeerIds
      /\ <<InitId>> \in Seq(Nat \ {0}) /\ \A c \in LocalIds : <<InitId, c>> \in Seq(Nat \ {0})
  <2>1. use \in Uses
    BY DEF Inv, GraphInv
  <2>2. InitId \in Nat \ {0} /\ \A c \in LocalIds : c \in 1..MergeIdBase
    BY IdsAssumption, Zenon DEF NoId
  <2>3. \A n \in 1..MergeIdBase : n \in Nat \ {0}
    BY IdsAssumption
  <2>4. \A c \in LocalIds : c \in Nat \ {0}
    BY <2>2, <2>3, Zenon
  <2>5. <<InitId>> \in Seq(Nat \ {0}) /\ \A c \in LocalIds : <<InitId, c>> \in Seq(Nat \ {0})
    BY <2>2, <2>4
  <2> QED
    BY <2>1, <2>5, IdsAssumption, Zenon
<1>2. ASSUME NEW c \in LocalIds, NewGraph(c) PROVE MergeInv'
  BY <1>1, <1>2, CreateMerges, Zenon DEF NewGraph
<1>3. ASSUME NEW c \in LocalIds, Action(c) PROVE MergeInv'
  BY <1>3, ActionMerges, Zenon
<1>4. ASSUME NEW c \in use.ids, InitGraph(c) PROVE MergeInv'
  BY <1>1, <1>4, CreateMerges, Zenon DEF InitGraph
<1>5. CASE InitError \/ ActionFails \/ Terminating \/ MergeWithHead \/ UNCHANGED vars
  BY <1>5, KeptMerges, Zenon DEF InitError, ActionFails, Terminating, MergeWithHead, vars
<1>6. ASSUME NEW t \in use.trxs, NEW c \in use.ids,
             AddToPerspective(t, c) \/ AddElsewhere(t, c) \/ AddMerge(t, c)
      PROVE  MergeInv'
  <2>1. CASE AddToPerspective(t, c)
    BY <1>1, <1>6, <2>1, AddToPerspectiveMerges, Zenon
  <2>2. CASE AddElsewhere(t, c)
    BY <1>1, <1>6, <2>2, AddElsewhereCases, ReaddsMerges, Zenon
  <2>3. CASE AddMerge(t, c)
    BY <1>1, <1>6, <2>3, AddMergeCases, ReaddsMerges, Zenon
  <2> QED
    BY <1>6, <2>1, <2>2, <2>3, Zenon
<1>7. ASSUME NEW t \in use.trxs, CommitStart(t) \/ Drop(t) PROVE MergeInv'
  BY <1>1, <1>7, CommitStartMerges, KeptMerges, Zenon DEF Drop
<1>8. CASE NothingToCommit \/ MergeSame \/ MergeFails \/ CommitHead
  BY <1>8, CommitEndMerges, Zenon DEF NothingToCommit, MergeSame, MergeFails, CommitHead
<1>9. CASE MergeHeads
  BY <1>9, MergeHeadsMerges, Zenon
<1> QED
  BY <1>2, <1>3, <1>4, <1>5, <1>6, <1>7, <1>8, <1>9, ZenonT(60) DEF Next

\* MergesIncomparable, for all merges that are written: if the peers send only merges of
\* commands neither of which is an ancestor of the other, there are no others.
THEOREM MergesIncomparableHolds == Spec /\ []PeersMerge => []MergesIncomparable
<1>1. Init => MergeInv
  <2> SUFFICES ASSUME Init PROVE MergeInv
    BY Zenon
  <2>1. DOMAIN segs = {}
    BY DEF Init
  <2>2. NewTrx.persp = NoPersp
    BY DEF NewTrx
  <2>3. \A t \in Trxs : trx[t].persp = NoPersp
    BY <2>2, Zenon DEF Init
  <2> QED
    BY <2>1, <2>3, NoPriors, Zenon DEF MergeInv, MergesApart
<1>2. Inv /\ OnceInv /\ MergeInv /\ PeersMerge' /\ [Next]_vars => MergeInv'
  BY NextMerges, Zenon
<1>3. MergeInv => MergesIncomparable
  BY Zenon DEF MergeInv, MergesApart, PriorsApart, Apart, MergesIncomparable
<1> QED
  BY <1>1, <1>2, <1>3, InvHolds, OnceInvHolds, PTL DEF Spec
=============================================================================
