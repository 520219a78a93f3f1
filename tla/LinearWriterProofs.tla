------------------------- MODULE LinearWriterProofs -------------------------
(***************************************************************************)
(* What LinearWriter guarantees for every number of items, slots,          *)
(* generations and faults, with process kills, power failures and I/O      *)
(* errors in any combination.                                              *)
(***************************************************************************)
EXTENDS LinearWriter, TLAPS

\* Slots that a root on the medium, or one written later, may name as head.
Protected == appended \cup attempted \cup ({acked.head} \ {NoHead})

\* The medium holds one item in slot h, whatever the cache has pending.
Durable(h) == \E i \in Items : dataDisk[h] = {i}

\* A root that may be written, or found after a failure.
GoodRoot(r) ==
    /\ r.generation >= acked.generation
    /\ r.free >= acked.free
    /\ r.head \in {acked.head} \cup attempted
    /\ \A h \in Protected : h < r.free

\* Side s is flushed and valid.
Solid(s) == Valid(rootCache[s]) /\ rootDisk[s] = {rootCache[s]}

CacheOnDisk ==
    /\ \A s \in Sides : rootCache[s] \in rootDisk[s]
    /\ \A s \in Slots : dataCache[s] \in dataDisk[s]

Fresh == ~exists => /\ pc = "closed"
                    /\ acked = NewRoot
                    /\ appended = {}
                    /\ attempted = {}

RootsGood ==
    /\ \A s \in Sides : \A r \in rootDisk[s] : Valid(r) => GoodRoot(r)
    /\ pc # "closed" => GoodRoot(root)

Writing ==
    /\ pc \in {"repairA", "repairB", "dumpA", "syncA", "dumpB", "syncB"} => Valid(root)
    /\ pc = "item" => item \in Items /\ root.free \in Slots
    /\ op = "append" => pc \in {"item", "dumpA", "syncA", "dumpB", "syncB"}
    /\ (op = "append" /\ pc # "item") =>
           /\ root.free - 1 \in Slots
           /\ dataCache[root.free - 1] \in Items
    /\ pc \in {"syncA", "dumpB", "syncB"} => rootCache["A"] = root
    /\ pc = "syncB" => rootCache["B"] = root
    /\ pc \in {"item", "dumpA", "syncA", "dumpB", "syncB"} => op # "none"

DataSafe ==
    /\ \A h \in Protected : Durable(h)
    /\ acked.head # NoHead =>
           \A s \in Slots : s < acked.free => dataDisk[s] = {ackedData[s]}

SidesSafe ==
    (stable /\ acked.head # NoHead) =>
        /\ pc \in {"closed", "idle", "item", "dumpA"} =>
               Solid("A") /\ Solid("B") /\ SameGeneration
        /\ pc = "syncA" => Solid("B")
        /\ pc \in {"dumpB", "syncB"} => Solid("A")
        /\ pc \notin {"repairA", "repairB"}

IInv == TypeOK /\ CacheOnDisk /\ Fresh /\ RootsGood /\ Writing /\ DataSafe /\ SidesSafe

-----------------------------------------------------------------------------
(* Roots and pages.                                                        *)

\* The parts of a root that Root::new and write_root assign stay in range.
LEMMA RootFields ==
    \A r \in Root : /\ r.generation \in Nat
                    /\ r.head \in 0..MaxSlots
                    /\ r.free \in 1..(MaxSlots + 1)
                    /\ r.checksum \in BOOLEAN
BY DEF Root

\* Root::new is a root that validate rejects.
LEMMA NewRootType == NewRoot \in Root /\ ~Valid(NewRoot)
BY ConstantsAssumption DEF NewRoot, Root, NoHead, Valid

\* write_root counts the generation up and makes a valid root.
LEMMA NextRootType ==
    ASSUME NEW r \in Root
    PROVE  /\ NextRoot(r) \in Root /\ Valid(NextRoot(r))
           /\ NextRoot(r).generation = r.generation + 1
           /\ NextRoot(r).free = r.free
           /\ NextRoot(r).head = r.head
<1> DEFINE q == [r EXCEPT !.generation = @ + 1]
<1>1. NextRoot(r) = [q EXCEPT !.checksum = TRUE]
  BY DEF NextRoot
<1>2. /\ q \in Root
      /\ q.generation = r.generation + 1
      /\ q.free = r.free
      /\ q.head = r.head
  BY DEF Root
<1> HIDE DEF q
<1> QED
  BY <1>1, <1>2 DEF Root, Valid

\* append moves the free offset past the item.
LEMMA AppendRoot ==
    ASSUME NEW r \in Root, r.free \in Slots
    PROVE  /\ [r EXCEPT !.free = @ + 1] \in Root
           /\ [r EXCEPT !.free = @ + 1].generation = r.generation
           /\ [r EXCEPT !.free = @ + 1].free = r.free + 1
           /\ [r EXCEPT !.free = @ + 1].head = r.head
<1>1. r.free + 1 \in 1..(MaxSlots + 1)
  BY ConstantsAssumption DEF Slots
<1> QED
  BY <1>1 DEF Root

\* commit replaces the head.
LEMMA CommitRoot ==
    ASSUME NEW r \in Root, NEW h \in Slots
    PROVE  /\ [r EXCEPT !.head = h] \in Root
           /\ [r EXCEPT !.head = h].generation = r.generation
           /\ [r EXCEPT !.head = h].free = r.free
           /\ [r EXCEPT !.head = h].head = h
<1>1. h \in 0..MaxSlots
  BY ConstantsAssumption DEF Slots
<1> QED
  BY <1>1 DEF Root

PagesType ==
    /\ rootCache \in [Sides -> Root]
    /\ rootDisk \in [Sides -> SUBSET Root]
    /\ dataCache \in [Slots -> Items \cup {Hole}]
    /\ dataDisk \in [Slots -> SUBSET (Items \cup {Hole})]

\* File::dump of a root changes one side; no other valid root appears.
LEMMA WriteRootPages ==
    ASSUME PagesType, CacheOnDisk, NEW s \in Sides, NEW r \in Root, WriteRoot(s, r),
           UNCHANGED <<dataCache, dataDisk>>
    PROVE  /\ PagesType' /\ CacheOnDisk'
           /\ rootCache'[s] = r
           /\ \A t \in Sides : \A q \in rootDisk'[t] :
                  Valid(q) => q = r \/ q \in rootDisk[t]
           /\ \A t \in Sides : t # s => /\ rootCache'[t] = rootCache[t]
                                       /\ rootDisk'[t] = rootDisk[t]
BY NewRootType DEF PagesType, CacheOnDisk, WriteRoot, BadRoot

\* File::dump of an item changes one slot.
LEMMA WriteItemPages ==
    ASSUME PagesType, CacheOnDisk, NEW s \in Slots, NEW i \in Items \cup {Hole},
           WriteItem(s, i), UNCHANGED <<rootCache, rootDisk>>
    PROVE  /\ PagesType' /\ CacheOnDisk'
           /\ dataCache'[s] = i
           /\ \A t \in Slots : t # s => dataDisk'[t] = dataDisk[t]
BY DEF PagesType, CacheOnDisk, WriteItem

\* File::sync leaves one possible content per page, the cached one.
LEMMA SyncPages ==
    ASSUME PagesType, SyncFile
    PROVE  /\ PagesType' /\ CacheOnDisk'
           /\ \A s \in Sides : rootDisk'[s] = {rootCache[s]}
           /\ \A s \in Slots : dataDisk'[s] = {dataCache[s]}
           /\ UNCHANGED <<rootCache, dataCache>>
BY DEF PagesType, CacheOnDisk, SyncFile

\* A write cut short makes no new valid root and disturbs only the slot at
\* the free offset.
LEMMA TearPagesEffect ==
    ASSUME PagesType, CacheOnDisk, pc = "item" => root.free \in Slots, TearPages
    PROVE  /\ PagesType' /\ CacheOnDisk'
           /\ \A t \in Sides : \A q \in rootDisk'[t] : Valid(q) => q \in rootDisk[t]
           /\ \A t \in Slots : (pc # "item" \/ t # root.free) => dataDisk'[t] = dataDisk[t]
           /\ ~DumpingRoot => UNCHANGED <<rootCache, rootDisk>>
<1>1. CASE pc = "item"
  <2>1. UNCHANGED <<rootCache, rootDisk>>
    BY <1>1 DEF TearPages, DumpingRoot
  <2>2. CASE UNCHANGED <<dataCache, dataDisk>>
    BY <2>1, <2>2 DEF PagesType, CacheOnDisk
  <2>3. CASE WriteItem(root.free, Hole)
    BY <1>1, <2>1, <2>3, WriteItemPages
  <2> QED
    BY <1>1, <2>2, <2>3 DEF TearPages, TearItem
<1>2. CASE pc # "item"
  <2>1. UNCHANGED <<dataCache, dataDisk>>
    BY <1>2 DEF TearPages
  <2>2. CASE UNCHANGED <<rootCache, rootDisk>>
    BY <2>1, <2>2 DEF PagesType, CacheOnDisk
  <2>3. CASE DumpingRoot /\ WriteRoot(DumpSide, BadRoot)
    <3>1. DumpSide \in Sides /\ BadRoot \in Root /\ ~Valid(BadRoot)
      BY NewRootType DEF DumpSide, Sides, BadRoot
    <3> QED
      BY <2>1, <2>3, <3>1, WriteRootPages
  <2> QED
    BY <1>2, <2>2, <2>3 DEF TearPages, TearRoot
<1> QED
  BY <1>1, <1>2
-----------------------------------------------------------------------------
(* Every step keeps the invariant.                                         *)

\* FileManager::create starts from a file that did not exist.
LEMMA CreateInv ==
    ASSUME IInv, Create
    PROVE  IInv'
<1> USE ConstantsAssumption, RootFields DEF IInv
<1>0. PagesType
  BY DEF TypeOK, PagesType
<1>1. TypeOK'
  BY NewRootType DEF Create, MayCreate, TypeOK, PCs, file, history
<1>2. CacheOnDisk'
  BY DEF Create, MayCreate, CacheOnDisk, file
<1>3. Fresh'
  BY DEF Create, MayCreate, Fresh, history
<1>4. RootsGood'
  BY DEF Create, MayCreate, Fresh, RootsGood, GoodRoot, Protected, NewRoot, file, history
<1>5. Writing'
  BY DEF Create, MayCreate, Writing, file
<1>6. DataSafe'
  BY DEF Create, MayCreate, DataSafe, Protected, Durable, file, history
<1>7. SidesSafe'
  BY DEF Create, MayCreate, Fresh, SidesSafe, NewRoot, NoHead, file, history
<1> QED
  BY <1>1, <1>2, <1>3, <1>4, <1>5, <1>6, <1>7

\* Writer::open takes a root that the medium may hold.
LEMMA OpenInv ==
    ASSUME IInv, Open
    PROVE  IInv'
<1> USE ConstantsAssumption, RootFields DEF IInv
<1>0. PagesType
  BY DEF TypeOK, PagesType
<1>1. TypeOK'
  BY <1>0 DEF Open, AfterOpen, TypeOK, PagesType, PCs, file, history
<1>2. CacheOnDisk'
  BY DEF Open, CacheOnDisk, file
<1>3. Fresh'
  BY DEF Open, Fresh, history
<1>4. RootsGood'
  BY <1>0 DEF Open, Latest, CacheOnDisk, PagesType, RootsGood, GoodRoot, Protected, Sides, file, history
<1>5. Writing'
  BY DEF Open, Latest, AfterOpen, Writing, file
<1>6. DataSafe'
  BY DEF Open, DataSafe, Protected, Durable, file, history
<1>7. SidesSafe'
  BY DEF Open, Latest, AfterOpen, SidesSafe, Solid, SameGeneration, Sides, Other, file, history
<1> QED
  BY <1>1, <1>2, <1>3, <1>4, <1>5, <1>6, <1>7

\* Writer::open's repair writes the root it took.
LEMMA RepairInv ==
    ASSUME IInv, Repair
    PROVE  IInv'
<1> USE ConstantsAssumption, RootFields DEF IInv
<1>0. PagesType
  BY DEF TypeOK, PagesType
<1>a. /\ PagesType' /\ CacheOnDisk'
      /\ rootCache'[DumpSide] = root
      /\ \A t \in Sides : \A q \in rootDisk'[t] :
             Valid(q) => q = root \/ q \in rootDisk[t]
      /\ \A t \in Sides : t # DumpSide => /\ rootCache'[t] = rootCache[t]
                                         /\ rootDisk'[t] = rootDisk[t]
  BY <1>0, WriteRootPages DEF Repair, DumpSide, Sides, TypeOK
<1>1. TypeOK'
  BY <1>a DEF Repair, TypeOK, PagesType, PCs, history
<1>2. CacheOnDisk'
  BY <1>a
<1>3. Fresh'
  BY DEF Repair, Fresh, history
<1>4. RootsGood'
  BY <1>a DEF Repair, RootsGood, GoodRoot, Protected, history
<1>5. Writing'
  BY <1>a DEF Repair, Writing
<1>6. DataSafe'
  BY DEF Repair, DataSafe, Protected, Durable, file, history
<1>7. SidesSafe'
  BY DEF Repair, SidesSafe, history
<1> QED
  BY <1>1, <1>2, <1>3, <1>4, <1>5, <1>6, <1>7

\* append starts.
LEMMA BeginAppendInv ==
    ASSUME IInv, NEW i \in Items, BeginAppend(i)
    PROVE  IInv'
<1> USE ConstantsAssumption, RootFields DEF IInv
<1>0. PagesType
  BY DEF TypeOK, PagesType
<1>1. TypeOK'
  BY DEF BeginAppend, TypeOK, PCs, file, history
<1>2. CacheOnDisk'
  BY DEF BeginAppend, CacheOnDisk, file
<1>3. Fresh'
  BY DEF BeginAppend, Fresh, history
<1>4. RootsGood'
  BY DEF BeginAppend, RootsGood, GoodRoot, Protected, file, history
<1>5. Writing'
  BY DEF BeginAppend, Writing, file
<1>6. DataSafe'
  BY DEF BeginAppend, DataSafe, Protected, Durable, file, history
<1>7. SidesSafe'
  BY DEF BeginAppend, SidesSafe, Solid, SameGeneration, file, history
<1> QED
  BY <1>1, <1>2, <1>3, <1>4, <1>5, <1>6, <1>7

\* append writes at the free offset, above everything that is protected.
LEMMA DumpItemInv ==
    ASSUME IInv, DumpItem
    PROVE  IInv'
<1> USE ConstantsAssumption, RootFields DEF IInv
<1>0. PagesType
  BY DEF TypeOK, PagesType
<1>a. root.free \in Slots /\ item \in Items
  BY DEF DumpItem, Writing
<1>b. /\ PagesType' /\ CacheOnDisk'
      /\ dataCache'[root.free] = item
      /\ \A t \in Slots : t # root.free => dataDisk'[t] = dataDisk[t]
  BY <1>0, <1>a, WriteItemPages DEF DumpItem
<1>c. /\ root' \in Root /\ Valid(root')
      /\ root'.generation = root.generation + 1
      /\ root'.free = root.free + 1
      /\ root'.head = root.head
  <2> DEFINE m == [root EXCEPT !.free = @ + 1]
  <2>1. /\ m \in Root
        /\ m.generation = root.generation
        /\ m.free = root.free + 1
        /\ m.head = root.head
    BY <1>a, AppendRoot DEF TypeOK
  <2>2. root' = NextRoot(m)
    BY DEF DumpItem
  <2> HIDE DEF m
  <2> QED
    BY <2>1, <2>2, NextRootType
<1>1. TypeOK'
  BY <1>b, <1>c DEF DumpItem, TypeOK, PagesType, PCs, history
<1>2. CacheOnDisk'
  BY <1>b
<1>3. Fresh'
  BY DEF DumpItem, Fresh, history
<1>d. \A h \in Protected : h \in Slots /\ h < root.free
  BY DEF DumpItem, RootsGood, GoodRoot, Protected, TypeOK, Slots, NoHead
<1>e. Protected' = Protected
  BY DEF DumpItem, Protected, history
<1>4. RootsGood'
  <2>1. GoodRoot(root)'
    <3>1. GoodRoot(root)
      BY DEF DumpItem, RootsGood
    <3>2. root.generation \in Nat /\ acked.generation \in Nat /\ root.free \in Nat /\ acked.free \in Nat
      BY DEF TypeOK
    <3>3. \A h \in Protected : h < root'.free
      BY <1>c, <1>d, <3>2 DEF Slots
    <3> QED
      BY <1>c, <1>e, <3>1, <3>2, <3>3 DEF DumpItem, GoodRoot, history
  <2> QED
    BY <1>e, <2>1 DEF DumpItem, RootsGood, GoodRoot, history
<1>5. Writing'
  <2>1. root'.free - 1 = root.free
    BY <1>a, <1>c DEF Slots
  <2>2. root'.free - 1 \in Slots /\ dataCache'[root'.free - 1] \in Items
    BY <1>a, <1>b, <2>1
  <2> QED
    BY <1>c, <2>2 DEF DumpItem, Writing
<1>6. DataSafe'
  <2>1. root.free >= acked.free
    BY DEF DumpItem, RootsGood, GoodRoot
  <2>2. \A s \in Slots : s < acked.free => s # root.free
    BY <2>1 DEF TypeOK, Slots
  <2>3. \A h \in Protected : dataDisk'[h] = dataDisk[h]
    BY <1>b, <1>d DEF Slots
  <2> QED
    BY <1>b, <1>e, <2>2, <2>3 DEF DumpItem, DataSafe, Durable, history
<1>7. SidesSafe'
  BY DEF DumpItem, SidesSafe, Solid, SameGeneration, file, history
<1> QED
  BY <1>1, <1>2, <1>3, <1>4, <1>5, <1>6, <1>7

\* commit takes the location of an item whose append returned Ok.
LEMMA BeginCommitInv ==
    ASSUME IInv, NEW h \in Slots, BeginCommit(h)
    PROVE  IInv'
<1> USE ConstantsAssumption, RootFields DEF IInv
<1>0. PagesType
  BY DEF TypeOK, PagesType
<1>a. /\ root' \in Root /\ Valid(root')
      /\ root'.generation = root.generation + 1
      /\ root'.free = root.free
      /\ root'.head = h
  <2> DEFINE m == [root EXCEPT !.head = h]
  <2>1. /\ m \in Root
        /\ m.generation = root.generation
        /\ m.free = root.free
        /\ m.head = h
    BY CommitRoot DEF TypeOK
  <2>2. root' = NextRoot(m)
    BY DEF BeginCommit
  <2> HIDE DEF m
  <2> QED
    BY <2>1, <2>2, NextRootType
<1>1. TypeOK'
  BY <1>a DEF BeginCommit, TypeOK, PCs, file
<1>2. CacheOnDisk'
  BY DEF BeginCommit, CacheOnDisk, file
<1>3. Fresh'
  BY DEF BeginCommit, Committable, Fresh
<1>4. RootsGood'
  BY <1>a DEF BeginCommit, Committable, RootsGood, GoodRoot, Protected, TypeOK, file
<1>5. Writing'
  BY <1>a DEF BeginCommit, Writing, file
<1>6. DataSafe'
  BY DEF BeginCommit, Committable, DataSafe, Protected, Durable, file
<1>7. SidesSafe'
  BY DEF BeginCommit, SidesSafe, Solid, SameGeneration, file
<1> QED
  BY <1>1, <1>2, <1>3, <1>4, <1>5, <1>6, <1>7

\* write_root dumps the root in memory.
LEMMA DumpRootInv ==
    ASSUME IInv, DumpRoot
    PROVE  IInv'
<1> USE ConstantsAssumption, RootFields DEF IInv
<1>0. PagesType
  BY DEF TypeOK, PagesType
<1>a. /\ PagesType' /\ CacheOnDisk'
      /\ rootCache'[DumpSide] = root
      /\ \A t \in Sides : \A q \in rootDisk'[t] :
             Valid(q) => q = root \/ q \in rootDisk[t]
      /\ \A t \in Sides : t # DumpSide => /\ rootCache'[t] = rootCache[t]
                                         /\ rootDisk'[t] = rootDisk[t]
  BY <1>0, WriteRootPages DEF DumpRoot, DumpSide, Sides, TypeOK
<1>1. TypeOK'
  BY <1>a DEF DumpRoot, TypeOK, PagesType, PCs, history
<1>2. CacheOnDisk'
  BY <1>a
<1>3. Fresh'
  BY DEF DumpRoot, Fresh, history
<1>4. RootsGood'
  BY <1>a DEF DumpRoot, RootsGood, GoodRoot, Protected, history
<1>5. Writing'
  BY <1>a DEF DumpRoot, DumpSide, Sides, Writing
<1>6. DataSafe'
  BY DEF DumpRoot, DataSafe, Protected, Durable, file, history
<1>7. SidesSafe'
  BY <1>a DEF DumpRoot, DumpSide, Sides, SidesSafe, Solid, history
<1> QED
  BY <1>1, <1>2, <1>3, <1>4, <1>5, <1>6, <1>7

\* The flush of side A.
LEMMA SyncAInv ==
    ASSUME IInv, SyncA
    PROVE  IInv'
<1> USE ConstantsAssumption, RootFields DEF IInv
<1>0. PagesType
  BY DEF TypeOK, PagesType
<1>a. /\ PagesType' /\ CacheOnDisk'
      /\ \A s \in Sides : rootDisk'[s] = {rootCache[s]}
      /\ \A s \in Slots : dataDisk'[s] = {dataCache[s]}
      /\ UNCHANGED <<rootCache, dataCache>>
  BY <1>0, SyncPages DEF SyncA
<1>1. TypeOK'
  BY <1>a DEF SyncA, TypeOK, PagesType, PCs, history
<1>2. CacheOnDisk'
  BY <1>a
<1>3. Fresh'
  BY DEF SyncA, Fresh, history
<1>4. RootsGood'
  BY <1>a DEF SyncA, CacheOnDisk, RootsGood, GoodRoot, Protected, history
<1>5. Writing'
  BY <1>a DEF SyncA, Writing
<1>6. DataSafe'
  <2>1. \A h \in Protected : h \in Slots
    BY DEF Protected, TypeOK, Slots, NoHead
  <2>2. Protected' = Protected /\ acked' = acked /\ ackedData' = ackedData
    BY DEF SyncA, Protected, history
  <2> QED
    BY <1>a, <2>1, <2>2 DEF CacheOnDisk, DataSafe, Durable
<1>7. SidesSafe'
  BY <1>a DEF SyncA, Writing, SidesSafe, Solid, Sides, history
<1> QED
  BY <1>1, <1>2, <1>3, <1>4, <1>5, <1>6, <1>7

\* The flush of side B ends the call: the root in memory is on both sides.
LEMMA SyncBInv ==
    ASSUME IInv, SyncB
    PROVE  IInv'
<1> USE ConstantsAssumption, RootFields DEF IInv
<1>0. PagesType
  BY DEF TypeOK, PagesType
<1>a. /\ PagesType' /\ CacheOnDisk'
      /\ \A s \in Sides : rootDisk'[s] = {rootCache[s]}
      /\ \A s \in Slots : dataDisk'[s] = {dataCache[s]}
      /\ UNCHANGED <<rootCache, dataCache>>
  BY <1>0, SyncPages DEF SyncB
<1>b. /\ rootCache["A"] = root /\ rootCache["B"] = root
      /\ Valid(root) /\ GoodRoot(root)
  BY DEF SyncB, Writing, RootsGood
<1>c. /\ \A s \in Sides : rootDisk'[s] = {root}
      /\ root' = root
  BY <1>a, <1>b DEF SyncB, Sides
<1>d. /\ exists' = exists /\ exists
      /\ pc' = "idle" /\ op' = "none"
  BY DEF SyncB, Fresh
<1>e. \A h \in Protected : h \in Slots
  BY DEF TypeOK, Protected, Slots, NoHead
<1>f. \A h \in Protected : \E i \in Items : dataDisk'[h] = {i}
  BY <1>a, <1>e DEF CacheOnDisk, DataSafe, Durable
<1>2. CacheOnDisk'
  BY <1>a
<1>3. Fresh'
  BY <1>d DEF Fresh
<1>5. Writing'
  BY <1>d DEF Writing
<1>7. SidesSafe'
  BY <1>a, <1>b, <1>c, <1>d DEF SidesSafe, Solid, SameGeneration, Sides
<1>g. CASE op = "append"
  <2>1. /\ root.free - 1 \in Slots
        /\ dataCache[root.free - 1] \in Items
        /\ appended' = appended \cup {root.free - 1}
        /\ UNCHANGED history
    BY <1>g DEF SyncB, AppendedAt, Writing
  <2>2. Protected' = Protected \cup {root.free - 1}
    BY <2>1, Zenon DEF Protected, history
  <2>3. GoodRoot(root)'
    <3>1. root.free - 1 < root.free
      BY DEF TypeOK
    <3> QED
      BY <1>b, <1>c, <2>1, <2>2, <3>1 DEF GoodRoot, history
  <2>4. TypeOK'
    BY <1>a, <1>c, <1>d, <2>1, Zenon DEF SyncB, TypeOK, PagesType, PCs, history
  <2>5. RootsGood'
    BY <1>b, <1>c, <2>3 DEF RootsGood, GoodRoot
  <2>6. DataSafe'
    <3>1. \E i \in Items : dataDisk'[root.free - 1] = {i}
      BY <1>a, <2>1
    <3>2. \A h \in Protected' : \E i \in Items : dataDisk'[h] = {i}
      BY <1>f, <2>2, <3>1
    <3>3. (acked.head # NoHead =>
              \A s \in Slots : s < acked.free => dataDisk[s] = {ackedData[s]})'
      BY <1>a, <2>1 DEF CacheOnDisk, DataSafe, history
    <3> QED
      BY <3>2, <3>3 DEF DataSafe, Durable
  <2> QED
    BY <1>2, <1>3, <1>5, <1>7, <2>4, <2>5, <2>6
<1>h. CASE op # "append"
  <2>1. /\ acked' = root
        /\ ackedData' = dataCache
        /\ attempted' = {}
        /\ appended' = appended
    BY <1>h DEF SyncB
  <2>2. root.head # NoHead => root.head \in Protected
    BY <1>b DEF GoodRoot, Protected
  <2>3. Protected' \subseteq Protected
    BY <2>1, <2>2 DEF Protected
  <2>4. TypeOK'
    BY <1>a, <1>c, <1>d, <2>1 DEF SyncB, TypeOK, PagesType, PCs
  <2>5. GoodRoot(root)'
    <3>1. \A h \in Protected' : h < root.free
      BY <1>b, <2>3 DEF GoodRoot
    <3>2. root \in Root /\ root' = root
      BY <1>c DEF TypeOK, SyncB
    <3> QED
      BY <2>1, <3>1, <3>2 DEF GoodRoot
  <2>6. RootsGood'
    BY <1>b, <1>c, <2>5 DEF RootsGood, GoodRoot
  <2>7. DataSafe'
    BY <1>a, <1>f, <2>1, <2>3 DEF DataSafe, Durable
  <2> QED
    BY <1>2, <1>3, <1>5, <1>7, <2>4, <2>6, <2>7
<1> QED
  BY <1>g, <1>h

\* A fault is counted.
LEMMA FaultType ==
    ASSUME TypeOK, NEW kind, Fault(kind)
    PROVE  faults' \in [FaultKinds -> 0..MaxFaults]
BY ConstantsAssumption, SMTT(30) DEF TypeOK, Fault, FaultKinds

\* A failed call leaves the pages as far as they were written.
LEMMA IoErrorInv ==
    ASSUME IInv, IoError
    PROVE  IInv'
<1> USE ConstantsAssumption, RootFields DEF IInv
<1>0. PagesType
  BY DEF TypeOK, PagesType
<1>a. /\ PagesType' /\ CacheOnDisk'
      /\ \A t \in Sides : \A q \in rootDisk'[t] : Valid(q) => q \in rootDisk[t]
      /\ \A t \in Slots : (pc # "item" \/ t # root.free) => dataDisk'[t] = dataDisk[t]
      /\ ~DumpingRoot => UNCHANGED <<rootCache, rootDisk>>
  BY <1>0, TearPagesEffect DEF IoError, Writing
<1>b. /\ acked' = acked /\ ackedData' = ackedData /\ attempted' = attempted
      /\ appended' \subseteq appended
      /\ Protected' \subseteq Protected
  BY DEF IoError, Protected, history
<1>c. \A h \in Protected : h \in Slots /\ dataDisk'[h] = dataDisk[h]
  <2>1. \A h \in Protected : h \in Slots /\ (pc = "item" => h < root.free)
    BY DEF RootsGood, GoodRoot, Protected, TypeOK, Slots, NoHead
  <2>2. root.free \in Nat
    BY DEF TypeOK
  <2> QED
    BY <1>a, <2>1, <2>2 DEF Slots
<1>d. \A s \in Slots : s < acked.free => dataDisk'[s] = dataDisk[s]
  <2>1. pc = "item" => root.free >= acked.free
    BY DEF RootsGood, GoodRoot
  <2> QED
    BY <1>a, <2>1 DEF TypeOK, Slots
<1>1. TypeOK'
  <2>1. pc' \in PCs /\ stable' \in BOOLEAN /\ item' \in Items \cup {Hole}
    BY Zenon DEF IoError, PCs
  <2>2. faults' \in [FaultKinds -> 0..MaxFaults]
    BY FaultType DEF IoError
  <2> QED
    BY <1>a, <1>b, <2>1, <2>2 DEF IoError, TypeOK, PagesType
<1>2. CacheOnDisk'
  BY <1>a
<1>3. Fresh'
  BY <1>b DEF IoError, Fresh, history
<1>4. RootsGood'
  BY <1>a, <1>b DEF IoError, RootsGood, GoodRoot
<1>5. Writing'
  BY DEF IoError, Writing
<1>6. DataSafe'
  BY <1>b, <1>c, <1>d DEF DataSafe, Durable
<1>7. SidesSafe'
  BY <1>a, <1>b, ZenonT(60) DEF IoError, SidesSafe, Solid, SameGeneration, DumpingRoot
<1> QED
  BY <1>1, <1>2, <1>3, <1>4, <1>5, <1>6, <1>7

\* A killed process leaves the pages as far as they were written.
LEMMA KillInv ==
    ASSUME IInv, Kill
    PROVE  IInv'
<1> USE ConstantsAssumption, RootFields DEF IInv
<1>0. PagesType
  BY DEF TypeOK, PagesType
<1>a. /\ PagesType' /\ CacheOnDisk'
      /\ \A t \in Sides : \A q \in rootDisk'[t] : Valid(q) => q \in rootDisk[t]
      /\ \A t \in Slots : (pc # "item" \/ t # root.free) => dataDisk'[t] = dataDisk[t]
      /\ ~DumpingRoot => UNCHANGED <<rootCache, rootDisk>>
  BY <1>0, TearPagesEffect DEF Kill, Writing
<1>b. /\ acked' = acked /\ ackedData' = ackedData /\ attempted' = attempted
      /\ appended' \subseteq appended
      /\ Protected' \subseteq Protected
  BY DEF Kill, Protected, history
<1>c. \A h \in Protected : h \in Slots /\ dataDisk'[h] = dataDisk[h]
  <2>1. \A h \in Protected : h \in Slots /\ (pc = "item" => h < root.free)
    BY DEF RootsGood, GoodRoot, Protected, TypeOK, Slots, NoHead
  <2>2. root.free \in Nat
    BY DEF TypeOK
  <2> QED
    BY <1>a, <2>1, <2>2 DEF Slots
<1>d. \A s \in Slots : s < acked.free => dataDisk'[s] = dataDisk[s]
  <2>1. pc = "item" => root.free >= acked.free
    BY DEF RootsGood, GoodRoot
  <2> QED
    BY <1>a, <2>1 DEF TypeOK, Slots
<1>1. TypeOK'
  <2>1. faults' \in [FaultKinds -> 0..MaxFaults]
    BY FaultType DEF Kill
  <2> QED
    BY <1>a, <1>b, <2>1, NewRootType DEF Kill, TypeOK, PagesType, PCs
<1>2. CacheOnDisk'
  BY <1>a
<1>3. Fresh'
  BY <1>b, SMTT(30) DEF Kill, Fresh, history
<1>4. RootsGood'
  BY <1>a, <1>b, ZenonT(60) DEF Kill, RootsGood, GoodRoot
<1>5. Writing'
  BY SMTT(30) DEF Kill, Writing
<1>6. DataSafe'
  BY <1>b, <1>c, <1>d DEF DataSafe, Durable
<1>7. SidesSafe'
  BY <1>a, <1>b, ZenonT(30) DEF Kill, SidesSafe, Solid, SameGeneration, DumpingRoot
<1> QED
  BY <1>1, <1>2, <1>3, <1>4, <1>5, <1>6, <1>7

\* A power failure picks one of the possible contents of every page.
LEMMA PowerLossInv ==
    ASSUME IInv, PowerLoss
    PROVE  IInv'
<1> USE ConstantsAssumption, RootFields DEF IInv
<1>a. /\ rootCache' \in [Sides -> Root]
      /\ \A s \in Sides : rootCache'[s] \in rootDisk[s] /\ rootDisk'[s] = {rootCache'[s]}
      /\ rootDisk' \in [Sides -> SUBSET Root]
  BY DEF PowerLoss, TypeOK
<1>b. /\ dataCache' \in [Slots -> Items \cup {Hole}]
      /\ \A s \in Slots : dataCache'[s] \in dataDisk[s] /\ dataDisk'[s] = {dataCache'[s]}
      /\ dataDisk' \in [Slots -> SUBSET (Items \cup {Hole})]
  BY DEF PowerLoss, TypeOK
<1>c. /\ acked' = acked /\ ackedData' = ackedData /\ attempted' = attempted
      /\ appended' = {}
      /\ Protected' \subseteq Protected
      /\ Protected \subseteq Slots
  <2>1. acked' = acked /\ ackedData' = ackedData /\ attempted' = attempted /\ appended' = {}
    BY DEF PowerLoss, history
  <2>2. Protected' \subseteq Protected
    BY <2>1 DEF Protected
  <2>3. appended \subseteq Slots /\ attempted \subseteq Slots /\ acked \in Root
    BY DEF TypeOK
  <2>4. acked.head # NoHead => acked.head \in Slots
    BY <2>3 DEF Slots, NoHead
  <2> QED
    BY <2>1, <2>2, <2>3, <2>4 DEF Protected
<1>1. TypeOK'
  <2>1. faults' \in [FaultKinds -> 0..MaxFaults]
    BY FaultType, Zenon DEF PowerLoss
  <2> QED
    BY <1>a, <1>b, <1>c, <2>1, NewRootType, Zenon DEF PowerLoss, TypeOK, PCs
<1>2. CacheOnDisk'
  BY <1>a, <1>b DEF CacheOnDisk
<1>3. Fresh'
  BY Zenon DEF PowerLoss, Fresh
<1>4. RootsGood'
  BY <1>a, <1>c, Zenon DEF PowerLoss, RootsGood, GoodRoot
<1>5. Writing'
  BY DEF PowerLoss, Writing
<1>6. DataSafe'
  BY <1>b, <1>c DEF DataSafe, Durable
<1>7. SidesSafe'
  BY <1>a, <1>c, Zenon DEF PowerLoss, SidesSafe, Solid, SameGeneration, Sides
<1> QED
  BY <1>1, <1>2, <1>3, <1>4, <1>5, <1>6, <1>7

-----------------------------------------------------------------------------
(* The theorems.                                                           *)

\* A file that does not exist satisfies the invariant.
LEMMA InitInv == Init => IInv
<1> SUFFICES ASSUME Init PROVE IInv
  OBVIOUS
<1> USE ConstantsAssumption DEF Init
<1>1. TypeOK
  <2>1. /\ rootCache \in [Sides -> Root] /\ rootDisk \in [Sides -> SUBSET Root]
        /\ root \in Root /\ acked \in Root
    BY NewRootType DEF BadRoot
  <2>2. faults \in [FaultKinds -> 0..MaxFaults]
    OBVIOUS
  <2> QED
    BY <2>1, <2>2 DEF TypeOK, PCs
<1>2. CacheOnDisk
  BY DEF CacheOnDisk
<1>3. Fresh
  BY DEF Fresh
<1>4. RootsGood
  BY NewRootType DEF RootsGood, BadRoot
<1>5. Writing
  BY DEF Writing
<1>6. DataSafe /\ SidesSafe
  BY DEF DataSafe, SidesSafe, Protected, NewRoot, NoHead
<1> QED
  BY <1>1, <1>2, <1>3, <1>4, <1>5, <1>6 DEF IInv

\* Every step, and every stuttering step, keeps the invariant.
LEMMA NextInv == IInv /\ [Next]_vars => IInv'
<1> SUFFICES ASSUME IInv, [Next]_vars PROVE IInv'
  OBVIOUS
<1>1. CASE UNCHANGED vars
  <2>0. TypeOK /\ CacheOnDisk /\ Fresh /\ RootsGood /\ Writing /\ DataSafe /\ SidesSafe
    BY DEF IInv
  <2> USE <1>1 DEF vars, file, history
  <2>1. TypeOK'
    BY <2>0 DEF TypeOK
  <2>2. CacheOnDisk' /\ Fresh'
    BY <2>0 DEF CacheOnDisk, Fresh
  <2>3. RootsGood'
    BY <2>0, ZenonT(60) DEF RootsGood, GoodRoot, Protected
  <2>4. Writing'
    BY <2>0, Zenon DEF Writing
  <2>5. DataSafe'
    BY <2>0, Zenon DEF DataSafe, Protected, Durable
  <2>6. SidesSafe'
    BY <2>0 DEF SidesSafe, Solid, SameGeneration
  <2> QED
    BY <2>1, <2>2, <2>3, <2>4, <2>5, <2>6 DEF IInv
<1>2. CASE Next
  BY <1>2, CreateInv, OpenInv, RepairInv, BeginAppendInv, DumpItemInv, BeginCommitInv,
     DumpRootInv, SyncAInv, SyncBInv, IoErrorInv, KillInv, PowerLossInv DEF Next
<1> QED
  BY <1>1, <1>2

\* The invariant holds in every reachable state.
THEOREM Invariance == Spec => []IInv
BY InitInv, NextInv, PTL DEF Spec

\* The types of the Writer's state, for every value of the constants.
THEOREM TypeCorrect == Spec => []TypeOK
<1>1. IInv => TypeOK
  BY DEF IInv
<1> QED
  BY <1>1, Invariance, PTL

\* No failure of write_root, append, commit or open, in any number and any
\* combination, loses an acknowledged commit or makes up a head.
THEOREM RecoveryKeepsCommitHolds == Spec => []RecoveryKeepsCommit
<1>1. IInv => RecoveryKeepsCommit
  BY DEF IInv, RootsGood, GoodRoot, RecoveryKeepsCommit
<1> QED
  BY <1>1, Invariance, PTL

\* append never overwrites data that an acknowledged commit can reach.
THEOREM CommittedDataDurableHolds == Spec => []CommittedDataDurable
<1>1. IInv => CommittedDataDurable
  BY DEF IInv, DataSafe, CommittedDataDurable
<1> QED
  BY <1>1, Invariance, PTL

\* No root that open may find names a segment that may be lost.
THEOREM HeadNeverDanglesHolds == Spec => []HeadNeverDangles
<1>1. ASSUME IInv PROVE HeadNeverDangles
  <2>1. \A s \in Sides : \A r \in rootDisk[s] :
           (Valid(r) /\ r.head # NoHead) => r.head \in Protected
    BY <1>1 DEF IInv, RootsGood, GoodRoot, Protected
  <2> QED
    BY <1>1, <2>1 DEF IInv, RootsGood, GoodRoot, DataSafe, Durable, HeadNeverDangles
<1> QED
  BY <1>1, Invariance, PTL

\* One power failure after a complete root write leaves a valid root.
THEOREM OneRootSurvivesHolds == Spec => []OneRootSurvives
<1>1. ASSUME IInv PROVE OneRootSurvives
  BY <1>1, Zenon DEF IInv, TypeOK, PCs, SidesSafe, Solid, OneRootSurvives
<1> QED
  BY <1>1, Invariance, PTL

-----------------------------------------------------------------------------
(* Which root Writer::open takes when the process is killed and the power  *)
(* fails, but no write or sync does.                                       *)

NoIoError == faults["io"] = 0

\* No root was ever completely written.
NoRoot == \A s \in Sides : \A r \in rootDisk[s] : ~Valid(r)

\* Side s of the page cache holds the newest root that the medium may hold.
Newest(s) ==
    /\ Valid(rootCache[s])
    /\ \A t \in Sides : \A r \in rootDisk[t] :
           Valid(r) => r = rootCache[s] \/ r.generation < rootCache[s].generation

OneEach ==
    \A r1 \in rootDisk["A"], r2 \in rootDisk["B"] :
        (Valid(r1) /\ Valid(r2) /\ r1.generation = r2.generation) => r1 = r2

\* Where the newest root is.  In a write of the roots it is on the side that
\* the write does not touch.
NewestKept ==
    /\ pc = "closed" => NoRoot \/ Newest("A") \/ Newest("B")
    /\ pc \in {"idle", "item"} =>
           NoRoot \/ (Newest("A") /\ rootCache["A"] = root /\ rootCache["B"] = root)
    /\ pc = "dumpA" =>
           NoRoot \/ (Newest("B") /\ root.generation > rootCache["B"].generation)
    /\ pc \in {"syncA", "dumpB", "syncB"} => Newest("A")
    /\ pc = "repairA" => Newest("B") /\ rootCache["B"] = root
    /\ pc = "repairB" => Newest("A") /\ rootCache["A"] = root

\* What SameGenerationSameRoot and KilledFileOpens need, beside IInv.
RInv ==
    /\ ~exists => NoRoot
    /\ NoIoError => OneEach /\ NewestKept
    /\ (NoIoError /\ faults["power"] = 0 /\ acked.head # NoHead) => ~NoRoot

-----------------------------------------------------------------------------
\* A write that stops half way changes the side it was writing, if any, and
\* makes no new valid root.
LEMMA TearKeeps ==
    ASSUME IInv, TearPages
    PROVE  /\ \A t \in Sides : \A q \in rootDisk'[t] : Valid(q) => q \in rootDisk[t]
           /\ \A t \in Sides : rootDisk[t] \subseteq rootDisk'[t]
           /\ \A t \in Sides : (~DumpingRoot \/ t # DumpSide) => rootCache'[t] = rootCache[t]
<1>0. PagesType /\ CacheOnDisk /\ (pc = "item" => root.free \in Slots)
  BY Zenon DEF IInv, TypeOK, PagesType, Writing
<1>1. \A t \in Sides : \A q \in rootDisk'[t] : Valid(q) => q \in rootDisk[t]
  BY <1>0, TearPagesEffect, Zenon
<1>2. CASE UNCHANGED <<rootCache, rootDisk>>
  BY <1>1, <1>2
<1>3. CASE DumpingRoot /\ WriteRoot(DumpSide, BadRoot)
  BY <1>0, <1>1, <1>3 DEF WriteRoot, PagesType, Sides
<1> QED
  BY <1>2, <1>3 DEF TearPages, TearRoot

\* A file that does not exist holds no root.
LEMMA InitRoots == Init => RInv
<1> SUFFICES ASSUME Init PROVE RInv
  OBVIOUS
<1>1. NoRoot /\ pc = "closed" /\ acked.head = NoHead
  BY NewRootType, Zenon DEF Init, NoRoot, BadRoot, NewRoot
<1>2. OneEach
  BY <1>1 DEF NoRoot, OneEach, Sides
<1> QED
  BY <1>1, <1>2 DEF RInv, NewestKept

\* FileManager::create finds no root.
LEMMA CreateRoots == ASSUME IInv, RInv, Create PROVE RInv'
BY Zenon DEF Create, MayCreate, RInv, NoIoError, NoRoot, OneEach, NewestKept, Newest, file, history

\* Writer::open takes the newest root: it is at least as new as the side that
\* holds the newest one, so it is the same.
LEMMA OpenRoots == ASSUME IInv, RInv, Open PROVE RInv'
<1>1. PICK s \in Sides : Latest(s) /\ root' = rootCache[s] /\ pc' = AfterOpen(s)
  BY DEF Open
<1>2. /\ UNCHANGED <<exists, rootCache, rootDisk, acked, faults>>
      /\ pc = "closed"
  BY DEF Open, file, history
<1>3. \A t \in Sides : rootCache[t] \in Root /\ rootCache[t] \in rootDisk[t]
  BY DEF IInv, TypeOK, CacheOnDisk
<1>4. ASSUME NoIoError PROVE Newest(s) /\ (SameGeneration => rootCache["A"] = rootCache["B"])
  <2>1. PICK t \in Sides : Newest(t)
    BY <1>1, <1>2, <1>3, <1>4, Zenon DEF RInv, NewestKept, NoRoot, Latest, Sides
  <2>2. rootCache[s] = rootCache[t]
    BY <1>1, <1>3, <2>1, RootFields DEF Newest, Latest, Sides, Other, SameGeneration
  <2>3. SameGeneration => rootCache["A"] = rootCache["B"]
    BY <1>3, <1>4, Zenon DEF RInv, OneEach, SameGeneration, Sides
  <2> QED
    BY <2>1, <2>2, <2>3, Zenon DEF Newest
<1>5. NoIoError' => OneEach' /\ NewestKept'
  <2> SUFFICES ASSUME NoIoError' PROVE OneEach' /\ NewestKept'
    OBVIOUS
  <2>1. NoIoError
    BY <1>2 DEF NoIoError
  <2>2. OneEach'
    BY <1>2, <2>1, Zenon DEF RInv, OneEach
  <2>3. Newest(s)' /\ (SameGeneration => Newest("A")' /\ rootCache["A"] = rootCache["B"])
    BY <1>2, <1>4, <2>1, Zenon DEF Newest, Sides
  <2> QED
    BY <1>1, <1>2, <2>2, <2>3 DEF NewestKept, AfterOpen, Sides
<1> QED
  BY <1>2, <1>5 DEF RInv, NoRoot, NoIoError

\* Writer::open's repair copies the newest root.
LEMMA RepairRoots == ASSUME IInv, RInv, Repair PROVE RInv'
<1>0. PagesType /\ CacheOnDisk /\ root \in Root /\ Valid(root) /\ DumpSide \in Sides
  BY Zenon DEF IInv, TypeOK, PagesType, Writing, Repair, DumpSide, Sides
<1>1. /\ rootCache'[DumpSide] = root
      /\ \A t \in Sides : \A q \in rootDisk'[t] : Valid(q) => q = root \/ q \in rootDisk[t]
      /\ \A t \in Sides : t # DumpSide => rootCache'[t] = rootCache[t] /\ rootDisk'[t] = rootDisk[t]
      /\ root \in rootDisk'[DumpSide]
  BY <1>0, WriteRootPages DEF Repair, CacheOnDisk
<1>2. UNCHANGED <<exists, root, acked, faults>> /\ pc' = "idle" /\ exists
  BY DEF Repair, history, IInv, Fresh
<1>3. ASSUME NoIoError PROVE OneEach' /\ NewestKept'
  <2>1. PICK s \in Sides : Newest(s) /\ rootCache[s] = root /\ s # DumpSide
    BY <1>3, Zenon DEF RInv, NewestKept, Repair, DumpSide, Sides
  <2>2. OneEach'
    BY <1>0, <1>1, <1>3, <2>1, RootFields DEF RInv, OneEach, Newest, Sides, PagesType
  <2>3. rootCache'["A"] = root /\ rootCache'["B"] = root
    BY <1>0, <1>1, <2>1, Zenon DEF Sides
  <2>4. Newest("A")'
    BY <1>0, <1>1, <2>1, <2>3, SMTT(30) DEF Newest
  <2> QED
    BY <1>2, <2>2, <2>3, <2>4 DEF NewestKept
<1> QED
  BY <1>0, <1>1, <1>2, <1>3, Zenon DEF RInv, NoRoot, NoIoError

\* The start of append writes nothing.
LEMMA BeginAppendRoots == ASSUME IInv, RInv, NEW i \in Items, BeginAppend(i) PROVE RInv'
BY Zenon DEF BeginAppend, RInv, NoIoError, NoRoot, OneEach, NewestKept, Newest, file, history

\* When a new generation begins, the newest root that the medium may hold is older,
\* and on side B too.
LEMMA NewerRoot ==
    ASSUME RInv, NoIoError, pc \in {"idle", "item"}, pc' = "dumpA",
           UNCHANGED <<rootCache, rootDisk>>, root'.generation > root.generation
    PROVE  OneEach' /\ NewestKept'
<1>1. OneEach /\ (NoRoot \/ (Newest("A") /\ rootCache["A"] = root /\ rootCache["B"] = root))
  BY DEF RInv, NewestKept
<1>2. OneEach' /\ (NoRoot => NoRoot')
  BY <1>1 DEF OneEach, NoRoot
<1>3. ASSUME Newest("A"), rootCache["A"] = root, rootCache["B"] = root
      PROVE  Newest("B")' /\ root'.generation > rootCache'["B"].generation
  BY <1>3 DEF Newest
<1>4. NoRoot' \/ (Newest("B")' /\ root'.generation > rootCache'["B"].generation)
  BY <1>1, <1>2, <1>3
<1> QED
  BY <1>2, <1>4, Zenon DEF NewestKept

\* append counts the generation up in memory, so the newest root is older.
LEMMA DumpItemRoots == ASSUME IInv, RInv, DumpItem PROVE RInv'
<1>0. root \in Root /\ root.free \in Slots
  BY DEF IInv, TypeOK, Writing, DumpItem
<1>1. root'.generation = root.generation + 1
  BY <1>0, AppendRoot, NextRootType, ZenonT(30) DEF DumpItem
<1>2. /\ UNCHANGED <<exists, rootCache, rootDisk, acked, faults>>
      /\ pc = "item" /\ pc' = "dumpA"
  BY DEF DumpItem, history
<1>3. root'.generation > root.generation
  BY <1>0, <1>1, RootFields
<1>4. NoIoError => OneEach' /\ NewestKept'
  BY <1>2, <1>3, NewerRoot
<1> QED
  BY <1>2, <1>4 DEF RInv, NoRoot, NoIoError

\* And so does commit.
LEMMA BeginCommitRoots == ASSUME IInv, RInv, NEW h \in Slots, BeginCommit(h) PROVE RInv'
<1>0. root \in Root
  BY DEF IInv, TypeOK
<1>1. root'.generation = root.generation + 1
  <2> DEFINE q == [root EXCEPT !.head = h]
  <2>1. q \in Root /\ q.generation = root.generation /\ root' = NextRoot(q)
    BY <1>0, CommitRoot DEF BeginCommit
  <2> HIDE DEF q
  <2> QED
    BY <2>1, NextRootType
<1>2. /\ UNCHANGED <<exists, rootCache, rootDisk, acked, faults>>
      /\ pc = "idle" /\ pc' = "dumpA"
  BY DEF BeginCommit, file
<1>3. root'.generation > root.generation
  BY <1>0, <1>1, RootFields, SMTT(30)
<1>4. NoIoError => OneEach' /\ NewestKept'
  BY <1>2, <1>3, NewerRoot
<1> QED
  BY <1>2, <1>4, Zenon DEF RInv, NoRoot, NoIoError

\* write_root dumps a root that is newer than all on the medium, or the one
\* that side A holds.
LEMMA DumpRootRoots == ASSUME IInv, RInv, DumpRoot PROVE RInv'
<1>0. PagesType /\ CacheOnDisk /\ root \in Root /\ Valid(root) /\ DumpSide \in Sides
  BY Zenon DEF IInv, TypeOK, PagesType, Writing, DumpRoot, DumpSide, Sides
<1>1. /\ rootCache'[DumpSide] = root
      /\ \A t \in Sides : \A q \in rootDisk'[t] : Valid(q) => q = root \/ q \in rootDisk[t]
      /\ \A t \in Sides : t # DumpSide => rootCache'[t] = rootCache[t] /\ rootDisk'[t] = rootDisk[t]
      /\ root \in rootDisk'[DumpSide]
  BY <1>0, WriteRootPages, Zenon DEF DumpRoot, CacheOnDisk
<1>2. UNCHANGED <<exists, root, acked, faults>> /\ exists
  BY DEF DumpRoot, history, IInv, Fresh
<1>3. ASSUME NoIoError PROVE OneEach' /\ NewestKept'
  <2>1. CASE pc = "dumpA"
    <3>1. DumpSide = "A" /\ pc' = "syncA"
      BY <2>1, Zenon DEF DumpSide, DumpRoot
    <3>2. \A t \in Sides : \A r \in rootDisk[t] : Valid(r) => r.generation < root.generation
      BY <1>0, <1>3, <2>1, RootFields, SMTT(30) DEF RInv, NewestKept, NoRoot, Newest, PagesType, Sides
    <3>3. OneEach'
      <4> SUFFICES ASSUME NEW r1 \in rootDisk'["A"], NEW r2 \in rootDisk'["B"],
                          Valid(r1), Valid(r2), r1.generation = r2.generation
                   PROVE  r1 = r2
        BY Zenon DEF OneEach
      <4>1. (r1 = root \/ r1 \in rootDisk["A"]) /\ r2 \in rootDisk["B"]
        BY <1>1, <3>1, Zenon DEF Sides
      <4>2. r2.generation < root.generation /\ r2.generation # root.generation
        <5>1. r2.generation < root.generation
          BY <3>2, <4>1, Zenon DEF Sides
        <5>2. r2.generation \in Nat /\ root.generation \in Nat
          BY <1>0, <4>1, RootFields, Zenon DEF PagesType, Sides
        <5> QED
          BY <5>1, <5>2
      <4> QED
        BY <1>3, <4>1, <4>2, Zenon DEF RInv, OneEach
    <3>4. Newest("A")'
      BY <1>0, <1>1, <3>1, <3>2 DEF Newest
    <3> QED
      BY <3>1, <3>3, <3>4 DEF NewestKept
  <2>2. CASE pc = "dumpB"
    <3>1. DumpSide = "B" /\ pc' = "syncB" /\ Newest("A") /\ rootCache["A"] = root
      BY <1>3, <2>2, ZenonT(60) DEF DumpSide, DumpRoot, RInv, NewestKept, IInv, Writing
    <3>2. OneEach'
      BY <1>0, <1>1, <1>3, <3>1, RootFields DEF RInv, OneEach, Newest, PagesType, Sides
    <3>3. Newest("A")'
      BY <1>0, <1>1, <3>1, Zenon DEF Newest, Sides
    <3> QED
      BY <3>1, <3>2, <3>3, SMTT(30) DEF NewestKept
  <2> QED
    BY <2>1, <2>2 DEF DumpRoot
<1> QED
  BY <1>0, <1>1, <1>2, <1>3, Zenon DEF RInv, NoRoot, NoIoError

\* A flush leaves what the page cache holds, the newest root among it.
LEMMA SyncARoots == ASSUME IInv, RInv, SyncA PROVE RInv'
<1>0. /\ PagesType /\ CacheOnDisk /\ SyncFile /\ Valid(rootCache["A"])
      /\ pc = "syncA" /\ pc' = "dumpB"
      /\ UNCHANGED <<exists, root, acked, faults>> /\ exists
  BY DEF IInv, TypeOK, PagesType, Writing, SyncA, Fresh, history
<1>1. /\ \A s \in Sides : rootDisk'[s] = {rootCache[s]}
      /\ UNCHANGED rootCache
  BY <1>0, SyncPages, Zenon
<1>2. \A s \in Sides : rootDisk'[s] \subseteq rootDisk[s]
  BY <1>0, <1>1, Zenon DEF CacheOnDisk
<1>3. ASSUME NoIoError PROVE OneEach' /\ NewestKept'
  <2>1. Newest("A")'
    BY <1>0, <1>1, <1>2, <1>3, Zenon DEF RInv, NewestKept, Newest
  <2>2. OneEach'
    BY <1>2, <1>3, Zenon DEF RInv, OneEach, Sides
  <2> QED
    BY <1>0, <2>1, <2>2, SMTT(30) DEF NewestKept
<1> QED
  BY <1>0, <1>1, <1>3, Zenon DEF RInv, NoRoot, NoIoError, Sides

\* At the end of write_root both sides hold the root.
LEMMA SyncBRoots == ASSUME IInv, RInv, SyncB PROVE RInv'
<1>0. /\ PagesType /\ CacheOnDisk /\ SyncFile
      /\ Valid(root) /\ rootCache["A"] = root /\ rootCache["B"] = root
      /\ pc = "syncB" /\ pc' = "idle"
      /\ UNCHANGED <<exists, root, faults>> /\ exists
  BY Zenon DEF IInv, TypeOK, PagesType, Writing, SyncB, Fresh
<1>1. /\ \A s \in Sides : rootDisk'[s] = {rootCache[s]}
      /\ UNCHANGED rootCache
  BY <1>0, SyncPages, SMTT(30)
<1>2. OneEach' /\ NewestKept'
  BY <1>0, <1>1, ZenonT(30) DEF OneEach, NewestKept, Newest, Sides
<1> QED
  BY <1>0, <1>1, <1>2, Zenon DEF RInv, NoRoot, Sides

\* After an I/O error nothing is claimed.
LEMMA IoErrorRoots == ASSUME IInv, RInv, IoError PROVE RInv'
<1>1. ~NoIoError' /\ UNCHANGED exists /\ exists
  BY DEF IoError, Fault, NoIoError, IInv, TypeOK, FaultKinds, Fresh
<1> QED
  BY <1>1, Zenon DEF RInv

\* A process that is killed leaves the newest root on the other side.
LEMMA KillRoots == ASSUME IInv, RInv, Kill PROVE RInv'
<1>1. /\ \A t \in Sides : \A q \in rootDisk'[t] : Valid(q) => q \in rootDisk[t]
      /\ \A t \in Sides : rootDisk[t] \subseteq rootDisk'[t]
      /\ \A t \in Sides : (~DumpingRoot \/ t # DumpSide) => rootCache'[t] = rootCache[t]
  BY TearKeeps, Zenon DEF Kill
<1>2. /\ UNCHANGED <<exists, acked>> /\ exists /\ pc' = "closed" /\ pc \in PCs \ {"closed"}
      /\ faults'["io"] = faults["io"] /\ faults'["power"] = faults["power"]
  BY DEF Kill, Fault, IInv, TypeOK, FaultKinds, Fresh, history
<1>3. NoRoot' <=> NoRoot
  BY <1>1, Zenon DEF NoRoot
<1>4. ASSUME NEW s \in Sides, Newest(s), ~DumpingRoot \/ s # DumpSide PROVE Newest(s)'
  BY <1>1, <1>4, Zenon DEF Newest
<1>5. ASSUME NoIoError PROVE OneEach' /\ NewestKept'
  <2>1. OneEach'
    BY <1>1, <1>5, Zenon DEF RInv, OneEach, Sides
  <2>2. NoRoot \/ \E s \in Sides : Newest(s) /\ (~DumpingRoot \/ s # DumpSide)
    BY <1>2, <1>5 DEF RInv, NewestKept, DumpingRoot, DumpSide, PCs, Sides
  <2>3. NoRoot' \/ Newest("A")' \/ Newest("B")'
    BY <1>3, <1>4, <2>2 DEF Sides
  <2> QED
    BY <1>2, <2>1, <2>3, Zenon DEF NewestKept
<1> QED
  BY <1>2, <1>3, <1>5, Zenon DEF RInv, NoIoError

\* After a power failure the sides hold roots that the medium may have held;
\* the newer one, or the only one, is the newest.
LEMMA PowerLossRoots == ASSUME IInv, RInv, PowerLoss PROVE RInv'
<1>1. /\ \A t \in Sides : rootCache'[t] \in rootDisk[t] /\ rootCache'[t] \in Root
      /\ \A t \in Sides : rootDisk'[t] = {rootCache'[t]}
  BY Zenon DEF PowerLoss, IInv, TypeOK
<1>2. /\ UNCHANGED <<exists, acked>> /\ exists /\ pc' = "closed"
      /\ faults'["io"] = faults["io"] /\ faults'["power"] # 0
  BY SMTT(30) DEF PowerLoss, Fault, IInv, TypeOK, FaultKinds, history
<1>3. ASSUME NoIoError PROVE OneEach' /\ NewestKept'
  <2>1. OneEach'
    BY <1>1, <1>3 DEF RInv, OneEach, Sides
  <2>2. /\ rootCache'["A"].generation \in Nat
        /\ rootCache'["B"].generation \in Nat
    BY <1>1, RootFields, Zenon DEF Sides
  <2>3. CASE ~Valid(rootCache'["A"]) /\ ~Valid(rootCache'["B"])
    <3>1. NoRoot'
      BY <1>1, <2>3, Zenon DEF NoRoot, Sides
    <3> QED
      BY <1>2, <2>1, <3>1 DEF NewestKept
  <2>4. CASE /\ Valid(rootCache'["A"])
             /\ Valid(rootCache'["B"]) => rootCache'["A"].generation >= rootCache'["B"].generation
    <3>1. Newest("A")'
      BY <1>1, <2>1, <2>2, <2>4, SMTT(30) DEF Newest, OneEach, Sides
    <3> QED
      BY <1>2, <2>1, <3>1, Zenon DEF NewestKept
  <2>5. CASE /\ Valid(rootCache'["B"])
             /\ Valid(rootCache'["A"]) => rootCache'["B"].generation >= rootCache'["A"].generation
    <3>1. Newest("B")'
      BY <1>1, <2>1, <2>2, <2>5 DEF Newest, OneEach, Sides
    <3> QED
      BY <1>2, <2>1, <3>1, Zenon DEF NewestKept
  <2> QED
    BY <2>2, <2>3, <2>4, <2>5, SMTT(30)
<1> QED
  BY <1>2, <1>3, Zenon DEF RInv, NoIoError

\* Every step, and every stuttering step, keeps the invariant.
LEMMA NextRoots == IInv /\ RInv /\ [Next]_vars => RInv'
<1> SUFFICES ASSUME IInv, RInv, [Next]_vars PROVE RInv'
  BY SMTT(30)
<1>1. CASE UNCHANGED vars
  BY <1>1, Zenon DEF vars, file, history, RInv, NoIoError, NoRoot, OneEach, NewestKept, Newest
<1>2. CASE Next
  BY <1>2, CreateRoots, OpenRoots, RepairRoots, BeginAppendRoots, DumpItemRoots,
     BeginCommitRoots, DumpRootRoots, SyncARoots, SyncBRoots, IoErrorRoots, KillRoots,
     PowerLossRoots DEF Next
<1> QED
  BY <1>1, <1>2

-----------------------------------------------------------------------------
\* The invariant holds in every reachable state.
THEOREM RootsInvariance == Spec => []RInv
BY InitRoots, NextRoots, Invariance, PTL DEF Spec

\* Writer::open may take side A when the generations are equal: as long as no
\* write or sync failed, both sides then hold the same root.
THEOREM SameGenerationSameRootHolds == Spec => []SameGenerationSameRoot
<1>1. RInv => SameGenerationSameRoot
  BY DEF RInv, NoIoError, OneEach, SameGenerationSameRoot
<1> QED
  BY <1>1, RootsInvariance, PTL

\* However often the process is killed, in write_root or in open's repair, a
\* file with an acknowledged commit can be opened.
THEOREM KilledFileOpensHolds == Spec => []KilledFileOpens
<1>1. ASSUME IInv, RInv PROVE KilledFileOpens
  <2>1. pc \in PCs
    BY <1>1, Zenon DEF IInv, TypeOK
  <2>2. NoIoError => NoRoot \/ Newest("A") \/ Newest("B")
    BY <1>1, <2>1 DEF RInv, NewestKept, PCs
  <2> QED
    BY <1>1, <2>2 DEF RInv, NoIoError, Newest, KilledFileOpens, Sides
<1> QED
  BY <1>1, Invariance, RootsInvariance, PTL

=============================================================================
