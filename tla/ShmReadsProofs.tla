-------------------------- MODULE ShmReadsProofs --------------------------
(***************************************************************************)
(* The caches and the answers of the readers: CacheSound and RegularReads  *)
(* for any IDs, readers, capacity and number of operations, as long as no  *)
(* generation comes back.                                                  *)
(***************************************************************************)
EXTENDS ShmChannelsProofs

\* The generation of a list does not wrap: every operation adds at most one.
NoWrap == MaxOps < GenModulus

Lists == {ls \in [Sides -> ListData] : \A s \in Sides : UniqueIds(ls[s].chans)}

\* The copy at write_off has the newest generation, and copies of the same
\* generation agree.
GenInv(ls, wo, n) ==
    /\ n <= MaxOps
    /\ \A s \in Sides : ls[s].gen <= n /\ ls[s].gen <= ls[wo].gen
    /\ ls["A"].gen = ls["B"].gen => Agree(ls["A"], ls["B"])

\* An entry of the cache for calls of kind op fits every copy of its
\* generation, and is of no generation that is still to come.
EntryFits(c, op, ls, wo) ==
    c.found =>
        /\ c.gen <= ls[wo].gen
        /\ \A s \in Sides : c.gen = ls[s].gen =>
               Fits(ls[s].chans, c.idx, c.id, op) /\ ls[s].chans[c.idx].key = c.key

\* A call may give every answer that it can still come to.
MayAnswer(call, ls, ro, wo, win) ==
    \A s \in {call.side, ro, wo} : Lookup(ls[s].chans, call.id, call.kind) \in win

RInv ==
    /\ GenInv(list, writeOff, ops)
    /\ \A r \in Readers : /\ EntryFits(sealCache[r], "seal", list, writeOff)
                          /\ EntryFits(openCache[r], "open", list, writeOff)
    /\ DOMAIN window = Readers /\ DOMAIN answer = Readers
    /\ \A r \in Readers :
           IF rpc[r] = "idle" THEN answer[r] \in window[r]
           ELSE MayAnswer(rop[r], list, readOff, writeOff, window[r])

\* The reader's side of the invariant holds at first.
LEMMA InitR == ASSUME Init PROVE RInv
<1>1. IInv
  BY InitInv
<1>2. GenInv(list, writeOff, ops)
  BY <1>1, ConstantsAssumption DEF Init, GenInv, IInv, WriterInv, Sides
<1> QED
  BY <1>2 DEF Init, RInv, EntryFits, None

\* The lists are well formed in every state of the invariant.
LEMMA ListsFacts ==
    ASSUME IInv
    PROVE  /\ list \in Lists /\ readOff \in Sides /\ writeOff \in Sides /\ ops \in Nat
           /\ \A s \in Sides : list[s].gen \in Nat /\ list[s].chans \in List
BY DEF IInv, TypeOK, Lists, ListData

\* A cache entry fits a copy that agrees with one that it fits.
LEMMA EntryMoves ==
    ASSUME NEW ls \in Lists, NEW ms \in Lists, NEW wo \in Sides, NEW c, NEW op,
           EntryFits(c, op, ls, wo), \A s \in Sides : Agree(ls[s], ms[s])
    PROVE  EntryFits(c, op, ms, wo)
<1> SUFFICES ASSUME c.found PROVE EntryFits(c, op, ms, wo)
  BY DEF EntryFits
<1>1. c.gen <= ms[wo].gen
  BY DEF EntryFits, Agree
<1>2. ASSUME NEW s \in Sides, c.gen = ms[s].gen
      PROVE  Fits(ms[s].chans, c.idx, c.id, op) /\ ms[s].chans[c.idx].key = c.key
  <2>1. /\ ls[s].chans \in List /\ ms[s].chans \in List /\ Same(ls[s].chans, ms[s].chans)
        /\ UniqueIds(ls[s].chans) /\ UniqueIds(ms[s].chans) /\ c.gen = ls[s].gen
    BY <1>2 DEF Lists, ListData, Agree
  <2>2. Fits(ls[s].chans, c.idx, c.id, op) /\ ls[s].chans[c.idx].key = c.key
    BY <2>1 DEF EntryFits
  <2> DEFINE l == ls[s].chans
             m == ms[s].chans
             i == c.idx
             k == c.id
  <2>3. l \in List /\ m \in List /\ Same(l, m) /\ Fits(l, i, k, op) /\ l[i].key = c.key
    BY <2>1, <2>2
  <2> HIDE DEF l, m, i, k
  <2>4. Fits(m, i, k, op) /\ m[i].key = l[i].key
    BY <2>3, FitsSame
  <2> QED
    BY <2>3, <2>4 DEF m, i, k
<1> QED
  BY <1>1, <1>2 DEF EntryFits

\* So do the answers.
LEMMA AnswersMove ==
    ASSUME NEW ls \in Lists, NEW ms \in Lists, NEW s \in Sides, NEW t \in Sides,
           Agree(ls[s], ms[t]), NEW id, NEW op
    PROVE  Lookup(ls[s].chans, id, op) = Lookup(ms[t].chans, id, op)
BY LookupSame DEF Lists, ListData, Agree

\* As long as generations do not wrap, the first half leaves the copy as it
\* is or gives it a generation that it never had.
LEMMA NewGeneration ==
    ASSUME NoWrap, IInv, RInv, WriterReady, NEW o, GoodOp(o, WriteList), First(o)
    PROVE  /\ list' \in Lists
           /\ \A s \in Sides : s # writeOff => list'[s] = list[s]
           /\ \A s \in Sides : list[s].gen = list[writeOff].gen
           /\ \/ list'[writeOff].gen = list[writeOff].gen + 1
              \/ /\ list'[writeOff].gen = list[writeOff].gen
                 /\ list'[writeOff].chans = list[writeOff].chans
<1> DEFINE g == list[writeOff].gen
<1>0. /\ writeOff \in Sides /\ GoodOp(o, list[writeOff].chans) /\ list[writeOff] \in ListData
      /\ g \in Nat /\ ops \in Nat /\ g <= ops /\ ops < MaxOps /\ list' = Changed(o, writeOff)
      /\ Agree(list["A"], list["B"])
  BY ListsFacts DEF First, WriteList, WriterReady, RInv, GenInv, IInv, TypeOK, WriterInv
<1>1. /\ list' \in [Sides -> ListData]
      /\ list'[writeOff] = After(o, list[writeOff], writeOff)
      /\ \A t \in Sides : t # writeOff => list'[t] = list[t]
      /\ \A t \in Sides : UniqueIds(list'[t].chans)
  BY <1>0, ChangedFacts
<1>2. Bump(g) = g + 1
  <2>1. g + 1 \in 0..(GenModulus - 1)
    <3> HIDE DEF g
    <3> QED
      BY <1>0, ConstantsAssumption DEF NoWrap
  <2> HIDE DEF g
  <2> QED
    BY <2>1, ConstantsAssumption DEF Bump
<1>3. \A s \in Sides : list[s].gen = g
  BY <1>0 DEF Agree, Sides
<1> QED
  BY <1>0, <1>1, <1>2, <1>3, AfterFacts, SMTT(60) DEF Lists

\* The first half.
LEMMA FirstR ==
    ASSUME NoWrap, IInv, RInv, WriterReady, NEW o, GoodOp(o, WriteList), First(o)
    PROVE  RInv'
<1> DEFINE g == list[writeOff].gen
<1>0. /\ list \in Lists /\ writeOff \in Sides /\ readOff \in Sides /\ readOff # writeOff
      /\ ops \in Nat /\ ops < MaxOps /\ g \in Nat /\ g <= ops
      /\ Agree(list["A"], list["B"])
      /\ \A s \in Sides : list[s].gen \in Nat
  BY ListsFacts DEF WriterReady, RInv, GenInv, IInv, WriterInv
<1>1. /\ list' \in Lists
      /\ \A s \in Sides : s # writeOff => list'[s] = list[s]
      /\ \A s \in Sides : list[s].gen = g
      /\ \/ list'[writeOff].gen = g + 1
         \/ list'[writeOff].gen = g /\ list'[writeOff].chans = list[writeOff].chans
  BY NewGeneration
<1>2. /\ ops' = ops + 1 /\ Widen
      /\ UNCHANGED <<readOff, writeOff, rpc, rop, sealCache, openCache, answer>>
  BY DEF First, reader
<1>3. GenInv(list', writeOff, ops + 1)
  <2>1. ops + 1 <= MaxOps
    BY <1>0, ConstantsAssumption
  <2>2. \A s \in Sides : list'[s].gen <= ops + 1 /\ list'[s].gen <= list'[writeOff].gen
    <3> HIDE DEF g
    <3> QED
      BY <1>0, <1>1
  <2>3. list'["A"].gen = list'["B"].gen => Agree(list'["A"], list'["B"])
    <3>1. CASE list'[writeOff].gen = g + 1
      <4>1. list'[readOff].gen = g /\ g # g + 1
        BY <1>0, <1>1
      <4> QED
        BY <1>0, <3>1, <4>1 DEF Sides
    <3>2. CASE list'[writeOff].gen = g /\ list'[writeOff].chans = list[writeOff].chans
      <4>1. \A s \in Sides : list'[s].gen = list[s].gen /\ list'[s].chans = list[s].chans
        BY <1>0, <1>1, <3>2
      <4> QED
        BY <1>0, <4>1 DEF Agree, Sides
    <3> QED
      BY <1>1, <3>1, <3>2
  <2> QED
    BY <2>1, <2>2, <2>3 DEF GenInv
<1>4. ASSUME NEW c, NEW op, EntryFits(c, op, list, writeOff), c.found => c.gen \in Nat
      PROVE  EntryFits(c, op, list', writeOff)
  <2> SUFFICES ASSUME c.found PROVE EntryFits(c, op, list', writeOff)
    BY DEF EntryFits
  <2>1. c.gen \in Nat /\ c.gen <= g
    BY <1>4 DEF EntryFits
  <2>2. CASE list'[writeOff].gen = g + 1
    <3>1. c.gen <= list'[writeOff].gen /\ c.gen # list'[writeOff].gen
      <4> HIDE DEF g
      <4> QED
        BY <1>0, <2>1, <2>2
    <3> QED
      BY <1>1, <1>4, <3>1 DEF EntryFits
  <2>3. CASE list'[writeOff].gen = g /\ list'[writeOff].chans = list[writeOff].chans
    BY <1>1, <1>4, <2>3 DEF EntryFits
  <2> QED
    BY <1>1, <2>2, <2>3
<1>5. \A r \in Readers : /\ EntryFits(sealCache[r], "seal", list', writeOff)
                         /\ EntryFits(openCache[r], "open", list', writeOff)
  BY <1>4, EntryFields DEF RInv, IInv, TypeOK
<1>6. ASSUME NEW r \in Readers, rpc[r] # "idle"
      PROVE  MayAnswer(rop[r], list', readOff, writeOff, window'[r])
  <2>1. rop[r].side \in Sides
    BY <1>6 DEF IInv, TypeOK, Calls
  <2>2. window'[r] = window[r] \cup {Lookup(list'[writeOff].chans, rop[r].id, rop[r].kind)}
    BY <1>2, <1>6 DEF Widen
  <2>3. MayAnswer(rop[r], list, readOff, writeOff, window[r])
    BY <1>6 DEF RInv
  <2> QED
    BY <1>0, <1>1, <2>1, <2>2, <2>3 DEF MayAnswer
<1>7. \A r \in Readers : rpc[r] = "idle" => window'[r] = window[r]
  BY <1>2 DEF Widen
<1>8. DOMAIN window' = Readers
  BY <1>2 DEF Widen
<1> QED
  BY <1>2, <1>3, <1>5, <1>6, <1>7, <1>8, SMTT(60) DEF RInv

\* swap_offsets: readers now begin with the newer copy.
LEMMA SwapOffsetsR == ASSUME IInv, RInv, SwapOffsets PROVE RInv'
<1>1. /\ readOff' = writeOff
      /\ UNCHANGED <<list, writeOff, ops, rpc, rop, sealCache, openCache, answer, window>>
  BY SMTT(60) DEF SwapOffsets, reader
<1> QED
  BY <1>1 DEF RInv, MayAnswer

\* The second half gives the older copy the newer generation.
LEMMA SecondR == ASSUME IInv, RInv, Second PROVE RInv'
<1>0. /\ otherOff \in Sides /\ writeOff \in Sides /\ readOff = writeOff /\ otherOff # writeOff
      /\ GoodOp(wop, list[otherOff].chans) /\ list \in Lists /\ ops \in Nat
      /\ Agree(list[writeOff], After(wop, list[otherOff], otherOff))
      /\ \A s \in Sides : list[s].gen \in Nat
      /\ UNCHANGED <<readOff, writeOff, ops, rpc, rop, sealCache, openCache, answer, window>>
  BY ListsFacts DEF Second, IInv, TypeOK, WriterInv, reader
<1>1. /\ list' \in Lists
      /\ list'[otherOff] = After(wop, list[otherOff], otherOff)
      /\ list'[writeOff] = list[writeOff]
  BY <1>0, ChangedFacts DEF Second, Lists
<1>2. \A s \in Sides : Agree(list[writeOff], list'[s])
  <2>1. Agree(list[writeOff], list'[otherOff])
    BY <1>0, <1>1
  <2>2. Agree(list[writeOff], list'[writeOff])
    BY <1>1, AgreeFacts
  <2>3. \A s \in Sides : s = otherOff \/ s = writeOff
    BY <1>0 DEF Sides
  <2> QED
    BY <2>1, <2>2, <2>3
<1>3. \A s \in Sides : list'[s].gen = list[writeOff].gen
  BY <1>2, SMTT(60) DEF Agree
<1>4. GenInv(list', writeOff, ops)
  BY <1>0, <1>2, <1>3, AgreeFacts, SMTT(60) DEF RInv, GenInv, Sides
<1>5. ASSUME NEW c, NEW op, EntryFits(c, op, list, writeOff) PROVE EntryFits(c, op, list', writeOff)
  <2> DEFINE ls == [s \in Sides |-> list[writeOff]]
  <2>1. ls \in Lists /\ \A s \in Sides : ls[s] = list[writeOff]
    BY <1>0 DEF Lists
  <2>2. EntryFits(c, op, ls, writeOff)
    BY <1>0, <1>5, <2>1, SMTT(60) DEF EntryFits
  <2> HIDE DEF ls
  <2> QED
    BY <1>0, <1>1, <1>2, <2>1, <2>2, EntryMoves, SMTT(60)
<1>6. ASSUME NEW r \in Readers, rpc[r] # "idle"
      PROVE  MayAnswer(rop[r], list', readOff, writeOff, window[r])
  <2>1. rop[r].side \in Sides
    BY <1>6 DEF IInv, TypeOK, Calls
  <2>2. Lookup(list[writeOff].chans, rop[r].id, rop[r].kind) \in window[r]
    BY <1>6 DEF RInv, MayAnswer
  <2>3. \A s \in Sides : Lookup(list'[s].chans, rop[r].id, rop[r].kind)
                        = Lookup(list[writeOff].chans, rop[r].id, rop[r].kind)
    BY <1>0, <1>1, <1>2, AnswersMove, SMTT(60)
  <2> QED
    BY <1>0, <2>1, <2>2, <2>3, SMTT(60) DEF MayAnswer
<1> QED
  BY <1>0, <1>4, <1>5, <1>6, SMTT(60) DEF RInv

\* The copies agree when write_off is stored.
LEMMA StoreWriteOffR == ASSUME IInv, RInv, StoreWriteOff PROVE RInv'
<1>0. /\ writeOff' = otherOff /\ Agree(list["A"], list["B"]) /\ list \in Lists
      /\ otherOff \in Sides /\ writeOff \in Sides /\ readOff \in Sides
      /\ UNCHANGED <<list, readOff, ops, rpc, rop, sealCache, openCache, answer, window>>
  BY ListsFacts, SMTT(60) DEF StoreWriteOff, NextWriteOff, IInv, TypeOK, WriterInv, reader
<1>1. Agree(list[writeOff], list[otherOff]) /\ list[writeOff].gen = list[otherOff].gen
  BY <1>0, AgreeFacts DEF Sides, Agree
<1>2. \A id, op : Lookup(list[writeOff].chans, id, op) = Lookup(list[otherOff].chans, id, op)
  BY <1>0, <1>1, AnswersMove, SMTT(60)
<1>3. GenInv(list, otherOff, ops)
  BY <1>0, <1>1 DEF RInv, GenInv
<1>4. \A c, op : EntryFits(c, op, list, writeOff) => EntryFits(c, op, list, otherOff)
  BY <1>1, SMTT(60) DEF EntryFits
<1>5. \A r \in Readers : rpc[r] # "idle" => MayAnswer(rop[r], list, readOff, otherOff, window[r])
  BY <1>2 DEF RInv, MayAnswer
<1> QED
  BY <1>0, <1>3, <1>4, <1>5, SMTT(60) DEF RInv

\* A quiet step keeps what is said of the lists, of the caches that it does
\* not change, and of the calls that go on.
LEMMA QuietR ==
    ASSUME IInv, RInv, Quiet
    PROVE  /\ GenInv(list', writeOff', ops')
           /\ \A c, op : EntryFits(c, op, list, writeOff) => EntryFits(c, op, list', writeOff')
           /\ \A r \in Readers : rpc[r] # "idle" =>
                  MayAnswer(rop[r], list', readOff', writeOff', window[r])
<1>0. /\ list \in Lists /\ list' \in Lists /\ writeOff \in Sides /\ readOff \in Sides
      /\ \A s \in Sides : Agree(list[s], list'[s]) /\ list'[s].gen = list[s].gen
      /\ UNCHANGED <<readOff, writeOff, ops>>
  BY ListsFacts DEF Quiet, Lists, Agree, writer
<1>1. Agree(list["A"], list["B"]) => Agree(list'["A"], list'["B"])
  BY <1>0, AgreeFacts DEF Sides
<1>2. GenInv(list', writeOff', ops')
  BY <1>0, <1>1 DEF RInv, GenInv, Sides
<1>3. \A c, op : EntryFits(c, op, list, writeOff) => EntryFits(c, op, list', writeOff')
  BY <1>0, EntryMoves, SMTT(60)
<1>4. ASSUME NEW r \in Readers, rpc[r] # "idle"
      PROVE  MayAnswer(rop[r], list', readOff', writeOff', window[r])
  <2>1. rop[r].side \in Sides
    BY <1>4 DEF IInv, TypeOK, Calls
  <2>2. \A s \in Sides : Lookup(list'[s].chans, rop[r].id, rop[r].kind)
                        = Lookup(list[s].chans, rop[r].id, rop[r].kind)
    BY <1>0, AnswersMove, SMTT(60)
  <2> QED
    BY <1>0, <1>4, <2>1, <2>2, SMTT(60) DEF RInv, MayAnswer
<1> QED
  BY <1>2, <1>3, <1>4

\* A call begins with the answers of the copies that it may come to read.
LEMMA StartR ==
    ASSUME IInv, RInv, NEW r \in Readers, NEW kind \in {"seal", "open", "any"}, NEW id \in Ids,
           Start(r, kind, id)
    PROVE  RInv'
<1>0. /\ list \in Lists /\ readOff \in Sides /\ writeOff \in Sides
      /\ UNCHANGED <<list, readOff, writeOff, wpc, ops, sealCache, openCache, answer>>
      /\ rpc' = [rpc EXCEPT ![r] = IF kind = "any" THEN "lookup" ELSE "loaded"]
      /\ rpc \in [Readers -> {"idle", "loaded", "lookup"}] /\ DOMAIN rop = Readers
  BY ListsFacts DEF Start, shm, writer, IInv, TypeOK
<1>1. rop'[r] = [kind |-> kind, id |-> id, side |-> readOff] /\ rpc'[r] # "idle"
  BY <1>0, SMTT(60) DEF Start
<1>2. window'[r] = {Lookup(list[readOff].chans, id, kind)}
                       \cup (IF wpc = "swap" THEN {Lookup(WriteList, id, kind)} ELSE {})
  BY SMTT(60) DEF Start, RInv
<1>3. \A q \in Readers : q # r => /\ rpc'[q] = rpc[q] /\ rop'[q] = rop[q]
                                 /\ window'[q] = window[q]
  BY <1>0 DEF Start, RInv
<1>4. Lookup(list[writeOff].chans, id, kind) \in window'[r]
  <2>1. CASE wpc = "idle"
    <3>1. Agree(list[readOff], list[writeOff])
      BY <1>0, <2>1, AgreeFacts DEF IInv, WriterInv, Sides
    <3> QED
      BY <1>0, <1>2, <3>1, AnswersMove, SMTT(60)
  <2>2. CASE wpc = "swap"
    BY <1>2, <2>2, SMTT(60) DEF WriteList
  <2>3. CASE wpc \in {"second", "store"}
    BY <1>2, <2>3 DEF IInv, WriterInv
  <2> QED
    BY <2>1, <2>2, <2>3, SMTT(60) DEF IInv, TypeOK
<1>5. MayAnswer(rop'[r], list, readOff, writeOff, window'[r])
  BY <1>1, <1>2, <1>4, SMTT(60) DEF MayAnswer
<1>6. DOMAIN window' = Readers
  BY ZenonT(60) DEF Start, RInv
<1> QED
  BY <1>0, <1>1, <1>3, <1>5, <1>6, SMTT(60) DEF RInv

\* A call that ends with an answer that it may give, with the caches in order.
LEMMA EndOfCall ==
    ASSUME IInv, RInv, NEW r \in Readers, NEW a, Finish(r, a), Quiet, UNCHANGED window,
           a \in window[r],
           \A q \in Readers : /\ EntryFits(sealCache'[q], "seal", list', writeOff')
                              /\ EntryFits(openCache'[q], "open", list', writeOff')
    PROVE  RInv'
<1>1. /\ rpc'[r] = "idle"
      /\ \A q \in Readers : q # r => rpc'[q] = rpc[q] /\ rop'[q] = rop[q]
  BY FinishTypes, SMTT(60)
<1>2. /\ DOMAIN answer' = Readers /\ answer'[r] = a
      /\ \A q \in Readers : q # r => answer'[q] = answer[q]
  BY SMTT(60) DEF Finish, RInv
<1>3. GenInv(list', writeOff', ops')
  BY QuietR, SMTT(60)
<1>4. ASSUME NEW q \in Readers
      PROVE  IF rpc'[q] = "idle" THEN answer'[q] \in window'[q]
             ELSE MayAnswer(rop'[q], list', readOff', writeOff', window'[q])
  BY <1>1, <1>2, QuietR DEF RInv
<1> QED
  BY <1>2, <1>3, <1>4 DEF RInv

\* The cached key is the channel's, so it is what a search would find.
LEMMA CacheHitR == ASSUME IInv, RInv, NEW r \in Readers, CacheHit(r) PROVE RInv'
<1>0. /\ list \in Lists /\ rop[r] \in Calls /\ rop[r].kind \in {"seal", "open"}
      /\ rop[r].side \in Sides /\ Quiet /\ UNCHANGED <<list, writeOff, window, openCache>>
      /\ sealCache \in [Readers -> Entries]
  BY UnchangedQuiet, ListsFacts DEF CacheHit, IInv, TypeOK, Calls, shm
<1> DEFINE c == Cache(r)
           s == rop[r].side
<1>1. c.found /\ c.id = rop[r].id /\ c.gen = list[s].gen
  BY SMTT(60) DEF CacheHit, CachedId, SameGen
<1>2. EntryFits(c, rop[r].kind, list, writeOff)
  BY <1>0, ZenonT(60) DEF Cache, RInv
<1>3. Fits(list[s].chans, c.idx, rop[r].id, rop[r].kind) /\ list[s].chans[c.idx].key = c.key
  BY <1>0, <1>1, <1>2, ZenonT(60) DEF EntryFits
<1>4. [found |-> TRUE, key |-> c.key] = Lookup(list[s].chans, rop[r].id, rop[r].kind)
  <2> DEFINE l == list[s].chans
             i == c.idx
  <2>1. l \in List /\ UniqueIds(l)
    BY <1>0, SMTT(60) DEF Lists, ListData
  <2>2. Fits(l, i, rop[r].id, rop[r].kind) /\ l[i].key = c.key
    BY <1>3
  <2> HIDE DEF l, i, c, s
  <2>3. Lookup(l, rop[r].id, rop[r].kind) = [found |-> TRUE, key |-> l[i].key]
    BY <2>1, <2>2, LookupFits, Zenon
  <2> QED
    BY <2>2, <2>3 DEF l
<1>5. [found |-> TRUE, key |-> c.key] \in window[r]
  BY <1>4 DEF CacheHit, RInv, MayAnswer
<1>6. \A q \in Readers : EntryFits(sealCache'[q], "seal", list, writeOff)
  <2>1. CASE UNCHANGED sealCache
    BY <2>1 DEF RInv
  <2>2. CASE rop[r].kind = "seal" /\ sealCache' = [sealCache EXCEPT ![r].seq = @ + 1]
    <3> DEFINE e == sealCache[r]
               n == e.seq + 1
    <3>1. e.found /\ e \in Entries
      BY <1>0, <1>1, <2>2 DEF Cache
    <3>2. e \in UsedEntries /\ n \in Nat
      BY <3>1, EntryFields
    <3>3. /\ sealCache'[r] = [e EXCEPT !.seq = n]
          /\ \A q \in Readers : q # r => sealCache'[q] = sealCache[q]
      BY <1>0, <2>2
    <3> HIDE DEF e, n
    <3>4. /\ sealCache'[r].found = e.found /\ sealCache'[r].id = e.id /\ sealCache'[r].key = e.key
          /\ sealCache'[r].gen = e.gen /\ sealCache'[r].idx = e.idx
      BY <3>2, <3>3, EntryCount, SMTT(60)
    <3>5. EntryFits(e, "seal", list, writeOff)
      BY DEF RInv, e
    <3>6. EntryFits(sealCache'[r], "seal", list, writeOff)
      BY <3>4, <3>5, SMTT(60) DEF EntryFits
    <3> QED
      BY <3>3, <3>6 DEF RInv
  <2> QED
    BY <2>1, <2>2, SMTT(60) DEF CacheHit
<1>7. \A q \in Readers : EntryFits(openCache'[q], "open", list, writeOff)
  BY <1>0, SMTT(60) DEF RInv
<1> QED
  BY <1>0, <1>5, <1>6, <1>7, EndOfCall, SMTT(60) DEF CacheHit

\* A miss changes nothing that is shared.
LEMMA CacheMissR == ASSUME IInv, RInv, NEW r \in Readers, CacheMiss(r) PROVE RInv'
<1>1. /\ UNCHANGED <<list, readOff, writeOff, ops, rop, sealCache, openCache, answer, window>>
      /\ \A q \in Readers : rpc'[q] = "idle" <=> rpc[q] = "idle"
  BY SMTT(60) DEF CacheMiss, shm, writer, IInv, TypeOK
<1> QED
  BY <1>1 DEF RInv

\* What a search finds, with or without a hint, is an answer of its copy.
LEMMA SearchAnswer ==
    ASSUME IInv, RInv, NEW r \in Readers, rpc[r] = "lookup"
    PROVE  /\ Located(r) = 0 => None \in window[r]
           /\ Located(r) # 0 => Hit(r, Located(r)) \in window[r]
<1> DEFINE l == list[rop[r].side].chans
<1>0. rop[r] \in Calls /\ rop[r].side \in Sides /\ l \in List /\ UniqueIds(l)
  BY ListsFacts DEF IInv, TypeOK, Calls
<1>1. Lookup(l, rop[r].id, rop[r].kind) \in window[r]
  BY SMTT(60) DEF RInv, MayAnswer
<1>2. Located(r) = 0 => Lookup(l, rop[r].id, rop[r].kind) = None
  BY <1>0, LookupNone DEF Located
<1>3. Located(r) # 0 => Lookup(l, rop[r].id, rop[r].kind) = Hit(r, Located(r))
  <2> SUFFICES ASSUME Located(r) # 0
               PROVE  Lookup(l, rop[r].id, rop[r].kind) = Hit(r, Located(r))
    OBVIOUS
  <2>1. Fits(l, Located(r), rop[r].id, rop[r].kind)
    BY LocatedFacts
  <2>2. Hit(r, Located(r)) = [found |-> TRUE, key |-> l[Located(r)].key]
    BY SMTT(60) DEF Hit
  <2> HIDE DEF l
  <2> QED
    BY <1>0, <2>1, <2>2, LookupFits, Zenon
<1> QED
  BY <1>1, <1>2, <1>3, SMTT(60)

\* A new cache entry fits the copy that was searched, and the other one when
\* that has the same generation.
LEMMA NewEntryFits ==
    ASSUME IInv, RInv, NEW r \in Readers, rpc[r] = "lookup", Located(r) # 0, NEW used \in Nat
    PROVE  EntryFits(Entry(r, Located(r), used), rop[r].kind, list, writeOff)
<1> DEFINE s == rop[r].side
           i == Located(r)
           e == Entry(r, i, used)
<1>0. /\ s \in Sides /\ writeOff \in Sides /\ list \in Lists
      /\ Fits(list[s].chans, i, rop[r].id, rop[r].kind)
  BY LocatedFacts, ListsFacts, ZenonT(60) DEF IInv, TypeOK, Calls
<1>1. e.id = rop[r].id /\ e.key = list[s].chans[i].key /\ e.gen = list[s].gen /\ e.idx = i
  BY SMTT(60) DEF Entry
<1> HIDE DEF i, e
<1>2. e.gen <= list[writeOff].gen
  BY <1>0, <1>1, ZenonT(60) DEF RInv, GenInv
<1>3. ASSUME NEW t \in Sides, e.gen = list[t].gen
      PROVE  Fits(list[t].chans, e.idx, e.id, rop[r].kind) /\ list[t].chans[e.idx].key = e.key
  <2>1. Agree(list[s], list[t])
    <3>1. list[s].gen = list[t].gen
      BY <1>1, <1>3, SMTT(60)
    <3>2. list["A"].gen = list["B"].gen => Agree(list["A"], list["B"])
      BY DEF RInv, GenInv
    <3>3. s \in {"A", "B"} /\ t \in {"A", "B"}
      BY <1>0, SMTT(60) DEF Sides
    <3> HIDE DEF s
    <3> QED
      BY <3>1, <3>2, <3>3, AgreeFacts
  <2>2. /\ list[s].chans \in List /\ list[t].chans \in List /\ Same(list[s].chans, list[t].chans)
    BY <1>0, <2>1, SMTT(60) DEF Lists, ListData, Agree
  <2> DEFINE l == list[s].chans
             m == list[t].chans
             k == rop[r].id
             op == rop[r].kind
  <2>3. /\ l \in List /\ m \in List /\ Same(l, m)
        /\ Fits(l, i, k, op) /\ e.id = k /\ e.key = l[i].key /\ e.idx = i
    BY <1>0, <1>1, <2>2, ZenonT(60)
  <2> HIDE DEF l, m, k, op
  <2>4. Fits(m, i, k, op) /\ m[i].key = l[i].key
    BY <2>3, FitsSame
  <2> QED
    BY <2>3, <2>4 DEF m, op
<1> QED
  BY <1>2, <1>3, SMTT(60) DEF EntryFits, i, e

\* A search ends without an entry for the cache.
LEMMA LookupOnlyR == ASSUME IInv, RInv, NEW r \in Readers, NotFound(r) \/ FoundOnly(r) PROVE RInv'
<1>1. /\ UNCHANGED <<shm, writer, sealCache, openCache, window>>
      /\ \E a \in window[r] : Finish(r, a)
  BY SearchAnswer DEF NotFound, FoundOnly
<1>2. Quiet /\ UNCHANGED <<list, writeOff>>
  BY <1>1, UnchangedQuiet, SMTT(60) DEF shm
<1>3. \A q \in Readers : /\ EntryFits(sealCache'[q], "seal", list', writeOff')
                         /\ EntryFits(openCache'[q], "open", list', writeOff')
  BY <1>1, <1>2, ZenonT(60) DEF RInv
<1> QED
  BY <1>1, <1>2, <1>3, EndOfCall, SMTT(60)

\* open found the key.
LEMMA FoundOpenR == ASSUME IInv, RInv, NEW r \in Readers, FoundOpen(r) PROVE RInv'
<1>1. /\ rpc[r] = "lookup" /\ rop[r].kind = "open" /\ Located(r) # 0
      /\ Finish(r, Hit(r, Located(r))) /\ UNCHANGED <<shm, writer, sealCache, window>>
      /\ openCache' = [openCache EXCEPT ![r] = Entry(r, Located(r), 0)]
      /\ openCache \in [Readers -> Entries]
  BY SMTT(60) DEF FoundOpen, IInv, TypeOK
<1>2. Quiet /\ UNCHANGED <<list, writeOff>>
  BY <1>1, UnchangedQuiet, SMTT(60) DEF shm
<1>3. EntryFits(Entry(r, Located(r), 0), "open", list, writeOff)
  BY <1>1, NewEntryFits, ZenonT(60)
<1>4. \A q \in Readers : /\ EntryFits(sealCache'[q], "seal", list', writeOff')
                         /\ EntryFits(openCache'[q], "open", list', writeOff')
  BY <1>1, <1>2, <1>3, ZenonT(60) DEF RInv
<1>5. Hit(r, Located(r)) \in window[r]
  BY <1>1, SearchAnswer, ZenonT(60)
<1> QED
  BY <1>1, <1>2, <1>4, <1>5, EndOfCall, ZenonT(60)

\* seal found the key.
LEMMA FoundSealR == ASSUME IInv, RInv, NEW r \in Readers, FoundSeal(r) PROVE RInv'
<1>1. /\ rpc[r] = "lookup" /\ rop[r].kind = "seal" /\ Located(r) # 0
      /\ Finish(r, Hit(r, Located(r))) /\ UNCHANGED <<openCache, window, writeOff>>
      /\ sealCache' = [sealCache EXCEPT ![r] = Entry(r, Located(r), 1)]
      /\ sealCache \in [Readers -> Entries]
  BY DEF FoundSeal, IInv, TypeOK
<1>2. Quiet
  BY FoundSealQuiet, SMTT(60)
<1>3. EntryFits(Entry(r, Located(r), 1), "seal", list, writeOff)
  BY <1>1, NewEntryFits, SMTT(60)
<1>4. \A q \in Readers : /\ EntryFits(sealCache'[q], "seal", list, writeOff)
                         /\ EntryFits(openCache'[q], "open", list, writeOff)
  BY <1>1, <1>3, ZenonT(60) DEF RInv
<1>5. \A q \in Readers : /\ EntryFits(sealCache'[q], "seal", list', writeOff')
                         /\ EntryFits(openCache'[q], "open", list', writeOff')
  BY <1>2, <1>4, QuietR, ZenonT(60)
<1>6. Hit(r, Located(r)) \in window[r]
  BY <1>1, SearchAnswer
<1> QED
  BY <1>1, <1>2, <1>5, <1>6, EndOfCall, SMTT(60)

\* Every step keeps the reader's side of the invariant.
LEMMA NextR == ASSUME NoWrap PROVE IInv /\ RInv /\ [Next]_vars => RInv'
<1> SUFFICES ASSUME IInv, RInv, [Next]_vars PROVE RInv'
  BY SMTT(60)
<1>1. CASE UNCHANGED vars
  BY <1>1 DEF vars, shm, writer, reader, RInv
<1>2. CASE \/ \E id \in Ids : (\E dir \in Directions : Add(id, dir)) \/ Remove(id)
           \/ RemoveAll
           \/ \E drop \in SUBSET Ids : RemoveWhere(drop)
  BY <1>2, OperationsFit, FirstR
<1>3. CASE SwapOffsets \/ Second \/ StoreWriteOff
  BY <1>3, SwapOffsetsR, SecondR, StoreWriteOffR
<1>4. ASSUME NEW r \in Readers,
             \/ \E kind \in {"seal", "open", "any"}, id \in Ids : Start(r, kind, id)
             \/ CacheHit(r) \/ CacheMiss(r) \/ NotFound(r)
             \/ FoundOnly(r) \/ FoundOpen(r) \/ FoundSeal(r)
      PROVE  RInv'
  BY <1>4, StartR, CacheHitR, CacheMissR, LookupOnlyR, FoundOpenR, FoundSealR
<1> QED
  BY <1>1, <1>2, <1>3, <1>4 DEF Next, Terminating

\* As long as generations do not wrap, the whole invariant holds.
THEOREM ReaderInvariance == ASSUME NoWrap PROVE Spec => [](IInv /\ RInv)
<1>1. IInv /\ RInv /\ [Next]_vars => RInv'
  BY NextR
<1>2. Init => RInv
  BY InitR
<1> QED
  BY <1>1, <1>2, Invariance, PTL DEF Spec

\* As long as generations do not wrap, a cache entry that seal or open would
\* use without a lock is the current key of the channel.
THEOREM CacheSoundHolds == ASSUME NoWrap PROVE Spec => []CacheSound
<1>1. ASSUME IInv, RInv PROVE CacheSound
  <2>1. ASSUME NEW c, NEW op, EntryFits(c, op, list, writeOff), c.found,
               NEW s \in Sides, c.gen = list[s].gen
        PROVE  /\ c.idx \in DOMAIN list[s].chans
               /\ list[s].chans[c.idx].id = c.id
               /\ list[s].chans[c.idx].key = c.key
    <3>1. Fits(list[s].chans, c.idx, c.id, op) /\ list[s].chans[c.idx].key = c.key
      BY <2>1 DEF EntryFits
    <3> QED
      BY <3>1 DEF Fits
  <2>2. ASSUME NEW r \in Readers
        PROVE  EntryFits(sealCache[r], "seal", list, writeOff) /\ EntryFits(openCache[r], "open", list, writeOff)
    BY <1>1 DEF RInv
  <2> SUFFICES ASSUME NEW r \in Readers, NEW c \in {sealCache[r], openCache[r]}, NEW s \in Sides,
                      c.found, c.gen = list[s].gen
               PROVE  /\ c.idx \in DOMAIN list[s].chans
                      /\ list[s].chans[c.idx].id = c.id
                      /\ list[s].chans[c.idx].key = c.key
    BY ZenonT(60) DEF CacheSound
  <2>3. CASE c = sealCache[r]
    <3>1. EntryFits(c, "seal", list, writeOff)
      BY <2>2, <2>3
    <3> QED
      BY <2>1, <3>1
  <2>4. CASE c = openCache[r]
    <3>1. EntryFits(c, "open", list, writeOff)
      BY <2>2, <2>4
    <3> QED
      BY <2>1, <3>1
  <2> QED
    BY <2>3, <2>4
<1> QED
  BY <1>1, ReaderInvariance, PTL

\* And seal, open and exists answer what was true at some point of the call,
\* or what an overlapping operation of the writer makes true.
THEOREM RegularReadsHolds == ASSUME NoWrap PROVE Spec => []RegularReads
<1>1. ASSUME IInv, RInv PROVE RegularReads
  BY <1>1 DEF RInv, RegularReads
<1> QED
  BY <1>1, ReaderInvariance, PTL
=============================================================================
